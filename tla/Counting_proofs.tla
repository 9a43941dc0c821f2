---------------------------- MODULE Counting_proofs ----------------------------
(***************************************************************************)
(* Lemmas about what lists and statistics are made of: the rows of a       *)
(* finite set in an order, and counts that add up.  Both are proved from   *)
(* the smallest subset they would fail for.                                *)
(***************************************************************************)
EXTENDS Statements, Sequences, FunctionTheorems, FiniteSetTheorems, WellFoundedInduction, TLAPS
----------------------------------------------------------------------------
(* Rows in an order *)

\* R has any two rows of S in one way.
Orders(R, S) ==
    /\ \A x \in S : <<x, x>> \notin R
    /\ \A x, y \in S : x # y => <<x, y>> \in R \/ <<y, x>> \in R
    /\ \A x, y, z \in S : <<x, y>> \in R /\ <<y, z>> \in R => <<x, z>> \in R

IsOrdered(s, R) == \A i, j \in DOMAIN s : i < j => <<s[i], s[j]>> \in R

\* What holds of the empty set, and of a set when of the set without one of its elements,
\* holds of a finite set: Bad are the subsets it does not hold of.
LEMMA SmallestSubset ==
    ASSUME NEW S, IsFiniteSet(S), NEW Bad, Bad \subseteq SUBSET S, Bad # {}
    PROVE  \E T \in Bad : \A U \in SUBSET T : U # T => U \notin Bad
<1>1. SUBSET S = FiniteSubsetsOf(S)
  BY FS_FiniteSubsetsOfFinite
<1>2. IsWellFoundedOn(StrictSubsetOrdering(S), SUBSET S)
  BY <1>1, FS_StrictSubsetOrderingWellFounded
<1>3. PICK T \in Bad : \A U \in Bad : ~(<<U, T>> \in StrictSubsetOrdering(S))
  BY <1>2, WFMin
<1>4. ASSUME NEW U \in SUBSET T, U # T, U \in Bad
      PROVE  FALSE
  <2>1. <<U, T>> \in (SUBSET S) \X (SUBSET S)
    BY <1>4
  <2>2. <<U, T>> \in StrictSubsetOrdering(S)
    BY <2>1, <1>4 DEF StrictSubsetOrdering
  <2> QED
    BY <1>3, <1>4, <2>2
<1> QED
  BY <1>4

\* A finite set that is not empty has a last row.
LEMMA LastRow ==
    ASSUME NEW S, IsFiniteSet(S), NEW R, Orders(R, S), S # {}
    PROVE  \E m \in S : \A x \in S \ {m} : <<x, m>> \in R
<1> DEFINE HasLast(T) == \E m \in T : \A x \in T \ {m} : <<x, m>> \in R
           Bad == {T \in SUBSET S : T # {} /\ ~HasLast(T)}
<1> SUFFICES ASSUME Bad # {} PROVE FALSE
  OBVIOUS
<1>1. PICK T \in Bad : \A U \in SUBSET T : U # T => U \notin Bad
  <2>1. Bad \subseteq SUBSET S /\ Bad # {}
    OBVIOUS
  <2> HIDE DEF Bad
  <2> QED
    BY <2>1, SmallestSubset
<1>2. PICK x \in T : TRUE
  BY <1>1
<1>3. CASE T = {x}
  BY <1>1, <1>3
<1>4. CASE T # {x}
  <2>1. T \ {x} \in SUBSET S /\ T \ {x} # {} /\ T \ {x} # T
    BY <1>1, <1>2, <1>4
  <2>2. HasLast(T \ {x})
    <3> HIDE DEF HasLast
    <3> QED
      BY <1>1, <2>1
  <2>3. PICK m \in T \ {x} : \A y \in (T \ {x}) \ {m} : <<y, m>> \in R
    BY <2>2
  <2>4. x \in S /\ m \in S /\ T \subseteq S /\ x # m
    BY <1>1, <1>2, <2>3
  <2>5. CASE <<x, m>> \in R
    <3>1. \A y \in T \ {m} : <<y, m>> \in R
      BY <2>3, <2>5
    <3> QED
      BY <1>1, <2>3, <3>1
  <2>6. CASE <<m, x>> \in R
    <3>1. \A y \in T \ {x} : <<y, x>> \in R
      BY <2>3, <2>4, <2>6 DEF Orders
    <3> QED
      BY <1>1, <1>2, <3>1
  <2> QED
    BY <2>4, <2>5, <2>6 DEF Orders
<1> QED
  BY <1>3, <1>4

\* A finite set has a list in order.
LEMMA OrderedExists ==
    ASSUME NEW S, IsFiniteSet(S), NEW R, Orders(R, S)
    PROVE  \E s \in [1 .. Cardinality(S) -> S] : IsOrdered(s, R)
<1> DEFINE HasList(T) == \E s \in [1 .. Cardinality(T) -> T] : IsOrdered(s, R)
           Bad == {T \in SUBSET S : ~HasList(T)}
<1> SUFFICES ASSUME Bad # {} PROVE FALSE
  OBVIOUS
<1>1. PICK T \in Bad : \A U \in SUBSET T : U # T => U \notin Bad
  <2>1. Bad \subseteq SUBSET S /\ Bad # {}
    OBVIOUS
  <2> HIDE DEF Bad
  <2> QED
    BY <2>1, SmallestSubset
<1>2. T \subseteq S /\ IsFiniteSet(T) /\ ~HasList(T)
  BY <1>1, FS_Subset
<1> HIDE DEF Bad
<1>3. T # {}
  <2> SUFFICES ASSUME T = {} PROVE HasList(T)
    BY <1>2
  <2>1. Cardinality(T) = 0
    BY FS_EmptySet
  <2>2. [i \in 1 .. 0 |-> i] \in [1 .. Cardinality(T) -> T]
    BY <2>1
  <2>3. IsOrdered([i \in 1 .. 0 |-> i], R)
    BY DEF IsOrdered
  <2> QED
    BY <2>2, <2>3
<1>4. PICK m \in T : \A x \in T \ {m} : <<x, m>> \in R
  <2>1. Orders(R, T)
    BY <1>2 DEF Orders
  <2> QED
    BY <1>2, <1>3, <2>1, LastRow
<1> DEFINE U == T \ {m}
           n == Cardinality(U)
<1>5. n \in Nat /\ Cardinality(T) = n + 1
  <2>1. IsFiniteSet(U) /\ Cardinality(U) = Cardinality(T) - 1
    BY <1>2, <1>4, FS_RemoveElement
  <2>2. Cardinality(U) \in Nat /\ Cardinality(T) \in Nat
    BY <1>2, <2>1, FS_CardinalityType
  <2> QED
    BY <2>1, <2>2
<1>6. PICK s \in [1 .. n -> U] : IsOrdered(s, R)
  <2>1. U \in SUBSET T /\ U # T /\ U \in SUBSET S
    BY <1>2, <1>4
  <2>2. HasList(U)
    <3> HIDE DEF HasList
    <3> QED
      BY <1>1, <2>1 DEF Bad
  <2> QED
    BY <2>2
<1> HIDE DEF n
<1> DEFINE t == [i \in 1 .. n + 1 |-> IF i = n + 1 THEN m ELSE s[i]]
<1>7. t \in [1 .. Cardinality(T) -> T]
  BY <1>4, <1>5, <1>6
<1>8. IsOrdered(t, R)
  <2> SUFFICES ASSUME NEW i \in 1 .. n + 1, NEW j \in 1 .. n + 1, i < j
               PROVE  <<t[i], t[j]>> \in R
    BY DEF IsOrdered
  <2>1. i \in 1 .. n /\ t[i] = s[i] /\ s[i] \in T \ {m}
    BY <1>5, <1>6
  <2>2. CASE j = n + 1
    BY <1>4, <2>1, <2>2
  <2>3. CASE j # n + 1
    BY <1>5, <1>6, <2>1, <2>3 DEF IsOrdered
  <2> QED
    BY <2>2, <2>3
<1> QED
  BY <1>2, <1>7, <1>8

\* The list of ORDER BY has every row once, in order.
LEMMA OrderedRows ==
    ASSUME NEW S, IsFiniteSet(S), NEW R, Orders(R, S)
    PROVE  /\ Ordered(S, R) \in Seq(S) /\ Len(Ordered(S, R)) = Cardinality(S)
           /\ Cardinality(S) \in Nat /\ IsOrdered(Ordered(S, R), R)
           /\ \A x \in S : \E i \in 1 .. Cardinality(S) : Ordered(S, R)[i] = x
<1> DEFINE n == Cardinality(S)
           s == Ordered(S, R)
<1>1. n \in Nat
  BY FS_CardinalityType
<1>2. s \in [1 .. n -> S] /\ IsOrdered(s, R)
  <2>1. \E t \in [1 .. n -> S] : \A i, j \in DOMAIN t : i < j => <<t[i], t[j]>> \in R
    BY OrderedExists DEF IsOrdered
  <2> QED
    BY <2>1 DEF Ordered, IsOrdered
<1> HIDE DEF n, s
<1>3. \A i, j \in 1 .. n : s[i] = s[j] => i = j
  <2> SUFFICES ASSUME NEW i \in 1 .. n, NEW j \in 1 .. n, s[i] = s[j], i # j
               PROVE  FALSE
    OBVIOUS
  <2>1. s[i] \in S /\ DOMAIN s = 1 .. n
    BY <1>2
  <2>2. i < j \/ j < i
    BY <1>1
  <2>3. <<s[i], s[i]>> \in R
    BY <1>2, <2>1, <2>2 DEF IsOrdered
  <2> QED
    BY <2>1, <2>3 DEF Orders
<1>4. s \in Injection(1 .. n, S)
  BY <1>2, <1>3, Fun_IsInj
<1>5. s \in Surjection(1 .. n, S)
  <2>1. Cardinality(1 .. n) = Cardinality(S)
    BY <1>1, FS_Interval DEF n
  <2> QED
    BY <1>4, <2>1, FS_Injection
<1>6. \A x \in S : \E i \in 1 .. n : s[i] = x
  BY <1>5 DEF Surjection
<1>7. s \in Seq(S) /\ Len(s) = n
  BY <1>1, <1>2
<1> QED
  BY <1>1, <1>2, <1>6, <1>7 DEF n, s

\* A list of one row.
LEMMA OneRow ==
    ASSUME NEW S, NEW s \in Seq(S), Len(s) = 1
    PROVE  s = <<s[1]>>
<1>1. <<s[1]>> \in Seq(S) /\ Len(<<s[1]>>) = 1 /\ <<s[1]>>[1] = s[1]
  OBVIOUS
<1>2. DOMAIN s = 1 .. 1 /\ DOMAIN <<s[1]>> = 1 .. 1
  BY <1>1
<1>3. s = [i \in 1 .. 1 |-> s[i]] /\ <<s[1]>> = [i \in 1 .. 1 |-> <<s[1]>>[i]]
  BY <1>1, <1>2
<1> QED
  BY <1>1, <1>3

----------------------------------------------------------------------------
(* Counts that add up *)

\* Rows that each fall under one key: the counts of the keys add up to all.
LEMMA CountsAddUp ==
    ASSUME NEW L, IsFiniteSet(L), NEW K, NEW key \in [L -> K], NEW f, DOMAIN f = K,
           \A k \in K : f[k] = Cardinality({l \in L : key[l] = k})
    PROVE  SumOf(f) = Cardinality(L)
<1> DEFINE Under(k) == {l \in L : key[l] = k}
           Places   == UNION {{k} \X (1 .. f[k]) : k \in DOMAIN f}
           g(k)     == CHOOSE b : b \in Bijection(Under(k), 1 .. f[k])
<1>1. ASSUME NEW k \in K
      PROVE  g(k) \in Bijection(Under(k), 1 .. f[k])
  <2>1. IsFiniteSet(Under(k)) /\ f[k] = Cardinality(Under(k))
    BY FS_Subset
  <2>2. ExistsBijection(1 .. f[k], Under(k))
    BY <2>1, FS_CardinalityType
  <2>3. Bijection(Under(k), 1 .. f[k]) # {}
    BY <2>2, Fun_ExistsBijSymmetric, Fun_ExistsBij
  <2> QED
    BY <2>3
<1> HIDE DEF g
<1>2. ASSUME NEW l \in L
      PROVE  g(key[l])[l] \in 1 .. f[key[l]]
  <2>1. key[l] \in K /\ l \in Under(key[l])
    OBVIOUS
  <2>2. g(key[l]) \in [Under(key[l]) -> 1 .. f[key[l]]]
    BY <1>1, <2>1 DEF Bijection, Injection
  <2> QED
    BY <2>1, <2>2
<1> DEFINE b == [l \in L |-> <<key[l], g(key[l])[l]>>]
<1>3. b \in [L -> Places]
  <2> SUFFICES ASSUME NEW l \in L PROVE <<key[l], g(key[l])[l]>> \in Places
    OBVIOUS
  <2>1. key[l] \in DOMAIN f
    OBVIOUS
  <2> QED
    BY <1>2, <2>1
<1>4. \A l, m \in L : b[l] = b[m] => l = m
  <2> SUFFICES ASSUME NEW l \in L, NEW m \in L, b[l] = b[m] PROVE l = m
    OBVIOUS
  <2>1. key[l] = key[m] /\ g(key[l])[l] = g(key[l])[m]
    OBVIOUS
  <2>2. l \in Under(key[l]) /\ m \in Under(key[l]) /\ key[l] \in K
    BY <2>1
  <2> QED
    BY <1>1, <2>1, <2>2 DEF Bijection, Injection, IsInjective
<1>5. \A p \in Places : \E l \in L : b[l] = p
  <2> SUFFICES ASSUME NEW p \in Places PROVE \E l \in L : b[l] = p
    OBVIOUS
  <2>1. PICK k \in K : p \in {k} \X (1 .. f[k])
    OBVIOUS
  <2>2. PICK i \in 1 .. f[k] : p = <<k, i>>
    BY <2>1
  <2>3. g(k) \in Surjection(Under(k), 1 .. f[k])
    BY <1>1 DEF Bijection
  <2>4. PICK l \in Under(k) : g(k)[l] = i
    BY <2>3 DEF Surjection
  <2> QED
    BY <2>2, <2>4
<1>6. b \in Bijection(L, Places)
  BY <1>3, <1>4, <1>5, Fun_IsBij
<1>7. ExistsBijection(L, Places)
  BY <1>6, Fun_ExistsBij
<1>8. Cardinality(Places) = Cardinality(L)
  BY <1>7, FS_Bijection
<1> QED
  BY <1>8 DEF SumOf
=============================================================================
