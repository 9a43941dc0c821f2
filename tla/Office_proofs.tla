------------------------------ MODULE Office_proofs ------------------------------
(***************************************************************************)
(* Proofs about the pages of a conversation and about the office as a      *)
(* whole: in every part the types hold, and what the program counts and    *)
(* lists agrees with itself.  For every set of rows, users and requests    *)
(* and every bound.                                                        *)
(***************************************************************************)
EXTENDS MCOffice, Portal_proofs, Records_proofs, Meetings_proofs
----------------------------------------------------------------------------
(* Pages of messages *)

Ways    == {"none", "latest", "forward"}
PageAnswers == {"none", "page", "refused", "failed"}
Scrolls == [way : Ways, shown : Seq(MessageIds), cursor : MessageIds \cup {None},
            answer : PageAnswers]

PageTypes == /\ chat \in [MessageIds -> Moments \cup {None}] /\ behind \subseteq Stored
             /\ scroll \in Scrolls /\ \A x \in DOMAIN scroll.shown : scroll.shown[x] \in Stored

\* A browser that has read nothing has nothing; one that reads on does so where it ended.
WayInv == /\ scroll.way = "none" => scroll.shown = <<>> /\ scroll.cursor = None /\ behind = {}
          /\ scroll.way = "forward" /\ scroll.cursor # None =>
                scroll.shown # <<>> /\ scroll.cursor = Last(scroll.shown)

PagesInv == PageTypes /\ WayInv /\ PagesAgree

LEMMA InitPagesInv == PagesInit => PagesInv
<1> SUFFICES ASSUME PagesInit PROVE PagesInv
  OBVIOUS
<1>1. PageTypes /\ WayInv
  BY DEF PagesInit, PageTypes, WayInv, Upright, Scrolls, Ways, PageAnswers, Stored
<1>2. PagesAgree
  BY DEF PagesInit, PagesAgree, Upright, Stored
<1> QED
  BY <1>1, <1>2 DEF PagesInv

LEMMA PagesTypesHold == PagesInv => PagesTypeOK
BY DEF PagesInv, PageTypes, Scrolls, PagesTypeOK, ToSet

\* Stored messages are in one order, by their time and then by their id.
LEMMA MomentsAreNumbers ==
    ASSUME PageTypes, NEW i \in Stored
    PROVE  i \in Int /\ i \in MessageIds /\ chat[i] \in Int
BY PagesAssumption DEF PageTypes, Stored

LEMMA RowsInOrder ==
    ASSUME PageTypes, NEW S \in SUBSET Stored, NEW up \in BOOLEAN
    PROVE  /\ OrderBy(S, up) \in Seq(S) /\ Len(OrderBy(S, up)) = Cardinality(S)
           /\ Cardinality(S) \in Nat
           /\ \A i \in S : \E x \in 1 .. Len(OrderBy(S, up)) : OrderBy(S, up)[x] = i
           /\ \A x, y \in 1 .. Len(OrderBy(S, up)) : x < y =>
                 IF up THEN Earlier(OrderBy(S, up)[x], OrderBy(S, up)[y])
                 ELSE Earlier(OrderBy(S, up)[y], OrderBy(S, up)[x])
<1> DEFINE R == {p \in S \X S : IF up THEN Earlier(p[1], p[2]) ELSE Earlier(p[2], p[1])}
<1>1. IsFiniteSet(S)
  <2>1. S \in SUBSET MessageIds
    BY DEF Stored
  <2> QED
    BY <2>1, FS_Subset, PagesAssumption
<1>2. Orders(R, S)
  <2>1. \A i \in S : i \in Int /\ chat[i] \in Int
    BY MomentsAreNumbers
  <2>2. \A i, j \in S : <<i, j>> \in R <=> IF up THEN Earlier(i, j) ELSE Earlier(j, i)
    OBVIOUS
  <2> HIDE DEF R
  <2>3. \A i \in S : <<i, i>> \notin R
    BY <2>1, <2>2 DEF Earlier
  <2>4. \A i, j \in S : i # j => <<i, j>> \in R \/ <<j, i>> \in R
    BY <2>1, <2>2 DEF Earlier
  <2>5. \A i, j, k \in S : <<i, j>> \in R /\ <<j, k>> \in R => <<i, k>> \in R
    BY <2>1, <2>2 DEF Earlier
  <2> QED
    BY <2>3, <2>4, <2>5 DEF Orders
<1>3. OrderBy(S, up) = Ordered(S, R)
  BY DEF OrderBy
<1>4. \A i, j \in S : <<i, j>> \in R => IF up THEN Earlier(i, j) ELSE Earlier(j, i)
  OBVIOUS
<1> DEFINE s == Ordered(S, R)
<1>5. /\ s \in Seq(S) /\ Len(s) = Cardinality(S) /\ Cardinality(S) \in Nat /\ IsOrdered(s, R)
      /\ \A i \in S : \E x \in 1 .. Cardinality(S) : s[x] = i
  <2> HIDE DEF R
  <2> QED
    BY <1>1, <1>2, OrderedRows
<1>6. \A x, y \in 1 .. Len(s) : x < y => <<s[x], s[y]>> \in R /\ s[x] \in S /\ s[y] \in S
  <2> HIDE DEF R, s
  <2>1. DOMAIN s = 1 .. Len(s) /\ \A x \in 1 .. Len(s) : s[x] \in S
    BY <1>5
  <2> QED
    BY <1>5, <2>1 DEF IsOrdered
<1> HIDE DEF R, s
<1>7. \A x, y \in 1 .. Len(s) : x < y => IF up THEN Earlier(s[x], s[y]) ELSE Earlier(s[y], s[x])
  BY <1>4, <1>6
<1> QED
  BY <1>3, <1>5, <1>7 DEF s

\* LIMIT keeps the first rows.
LEMMA LimitKeeps ==
    ASSUME NEW T, NEW s \in Seq(T), NEW n \in Nat
    PROVE  /\ LimitTo(s, n) \in Seq(T)
           /\ Len(LimitTo(s, n)) = IF n < Len(s) THEN n ELSE Len(s)
           /\ \A x \in 1 .. Len(LimitTo(s, n)) : x <= Len(s) /\ LimitTo(s, n)[x] = s[x]
BY DEF LimitTo

\* The rows of a page: one more is read, to tell whether there is a next page.
LEMMA PageHolds ==
    ASSUME NEW T, NEW s \in Seq(T)
    PROVE  LET found == LimitTo(s, Take + 1)
               slice == LimitTo(found, Take)
           IN  /\ slice \in Seq(T) /\ Len(slice) = IF Take < Len(s) THEN Take ELSE Len(s)
               /\ \A x \in 1 .. Len(slice) : x <= Len(s) /\ slice[x] = s[x]
               /\ Len(found) > Take <=> Len(s) > Take
<1>1. Take \in Nat /\ Take + 1 \in Nat
  BY PagesAssumption
<1> DEFINE found == LimitTo(s, Take + 1)
           slice == LimitTo(found, Take)
<1>2. /\ found \in Seq(T) /\ Len(found) = IF Take + 1 < Len(s) THEN Take + 1 ELSE Len(s)
      /\ \A x \in 1 .. Len(found) : x <= Len(s) /\ found[x] = s[x]
  BY <1>1, LimitKeeps
<1> HIDE DEF found
<1>3. /\ slice \in Seq(T) /\ Len(slice) = IF Take < Len(found) THEN Take ELSE Len(found)
      /\ \A x \in 1 .. Len(slice) : x <= Len(found) /\ slice[x] = found[x]
  BY <1>1, <1>2, LimitKeeps
<1> HIDE DEF slice
<1>4. Len(s) \in Nat
  OBVIOUS
<1>5. Len(slice) = (IF Take < Len(s) THEN Take ELSE Len(s)) /\ (Len(found) > Take <=> Len(s) > Take)
  BY <1>1, <1>2, <1>3, <1>4
<1>6. \A x \in 1 .. Len(slice) : x \in 1 .. Len(found)
  BY <1>2, <1>3
<1> QED
  BY <1>2, <1>3, <1>5, <1>6 DEF found, slice

\* Without another message the order is the same.
LEMMA SameOrder ==
    ASSUME UNCHANGED <<chat, behind>>
    PROVE  /\ chat' = chat /\ behind' = behind /\ Stored' = Stored
           /\ \A i, j : Earlier(i, j)' <=> Earlier(i, j)
BY DEF Stored, Earlier

\* A message that is stored while the browser reads is stored behind its back.
LEMMA StoreMessageStep == ASSUME PagesInv, StoreMessage PROVE PagesInv'
<1>1. PICK i \in MessageIds \ Stored, t \in Moments : chat' = [chat EXCEPT ![i] = t]
  BY DEF StoreMessage
<1>2. /\ chat \in [MessageIds -> Moments \cup {None}] /\ chat[i] = None /\ t # None
      /\ scroll' = scroll
  BY <1>1, PagesAssumption DEF PagesInv, PageTypes, Stored, StoreMessage
<1>3. /\ chat' \in [MessageIds -> Moments \cup {None}] /\ Stored' = Stored \cup {i}
      /\ \A j \in Stored : chat'[j] = chat[j]
  BY <1>1, <1>2 DEF Stored
<1>4. {j \in MessageIds : chat[j] # chat'[j]} = {i}
  BY <1>1, <1>2, <1>3
<1>5. behind' = IF scroll.way = "none" THEN behind ELSE behind \cup {i}
  BY <1>4 DEF StoreMessage
<1>6. \A j, k \in Stored : Earlier(j, k)' <=> Earlier(j, k)
  BY <1>3 DEF Earlier
<1>7. /\ behind \subseteq Stored /\ scroll \in Scrolls
      /\ \A x \in DOMAIN scroll.shown : scroll.shown[x] \in Stored
  BY DEF PagesInv, PageTypes
<1>8. PageTypes' /\ WayInv'
  <2>1. PageTypes'
    BY <1>2, <1>3, <1>5, <1>7 DEF PageTypes
  <2> QED
    BY <1>2, <1>5, <2>1 DEF PagesInv, WayInv
<1>9. PagesAgree'
  <2>1. ToSet(scroll.shown) \subseteq Stored
    BY <1>7 DEF ToSet
  <2>2. \A x, y \in DOMAIN scroll.shown : x < y => Earlier(scroll.shown[x], scroll.shown[y])'
    BY <1>2, <1>6, <1>7 DEF PagesInv, PagesAgree
  <2>3. CASE scroll.way = "none"
    BY <1>2, <2>2, <2>3 DEF PagesAgree
  <2>4. CASE scroll.way # "none"
    <3>1. Stored' \ (ToSet(scroll.shown) \cup behind')
             = Stored \ (ToSet(scroll.shown) \cup behind)
      BY <1>1, <1>3, <1>5, <2>4
    <3>2. scroll.way = "forward" /\ scroll.cursor # None => scroll.cursor \in Stored
      <4>1. scroll.shown \in Seq(MessageIds)
        BY <1>7 DEF Scrolls
      <4> QED
        BY <1>7, <4>1 DEF PagesInv, WayInv, Last
    <3> DEFINE others == Stored \ (ToSet(scroll.shown) \cup behind)
    <3>3. scroll.way = "latest" => /\ \A j \in others, k \in ToSet(scroll.shown) : Earlier(j, k)'
                                   /\ scroll.cursor = None <=> others = {}
      BY <1>6, <2>1 DEF PagesInv, PagesAgree
    <3>4. scroll.way = "forward" =>
             \A j \in others : \/ \E k \in ToSet(scroll.shown) : chat'[k] = chat'[j]
                               \/ scroll.cursor # None /\ Earlier(scroll.cursor, j)'
      BY <1>2, <1>3, <1>6, <2>1, <3>2 DEF PagesInv, PagesAgree
    <3> QED
      BY <1>2, <2>2, <3>1, <3>3, <3>4 DEF PagesAgree
  <2> QED
    BY <2>3, <2>4
<1> QED
  BY <1>8, <1>9 DEF PagesInv

\* An answer without a page leaves the browser what it had.
LEMMA NoPageStep ==
    ASSUME PagesInv, UNCHANGED <<chat, behind>>, NEW a \in PageAnswers,
           scroll' = [scroll EXCEPT !.answer = a]
    PROVE  PagesInv'
<1>1. scroll \in Scrolls
  BY DEF PagesInv, PageTypes
<1>2. /\ scroll' \in Scrolls /\ scroll'.way = scroll.way /\ scroll'.shown = scroll.shown
      /\ scroll'.cursor = scroll.cursor
  BY <1>1 DEF Scrolls
<1>3. PageTypes' /\ WayInv'
  BY <1>2, SameOrder DEF PagesInv, PageTypes, WayInv
<1>4. PagesAgree'
  BY <1>2, SameOrder DEF PagesInv, PagesAgree
<1> QED
  BY <1>3, <1>4 DEF PagesInv

\* The page before a cursor is refused: of and(...) the clause that closes it holds an id
\* with a parenthesis.
LEMMA OlderIsRefused == ASSUME NEW c, c # None PROVE IsRefused(LatestQuery(c))
<1> DEFINE lt   == Clause("created_at", "lt", chat[c])
           eq   == Clause("created_at", "eq", chat[c])
           id   == Clause("id", "lt", c)
           expr == <<<<lt>>, <<eq, id>>>>
           last == [clause |-> id, opens |-> FALSE, closes |-> TRUE]
<1>1. last \in Segments(expr)
  <2>1. DOMAIN expr = 1 .. 2 /\ expr[2] = <<eq, id>> /\ Len(expr[2]) = 2 /\ expr[2][2] = id
    OBVIOUS
  <2> HIDE DEF expr, id
  <2>2. 2 \in DOMAIN expr /\ 2 \in DOMAIN expr[2]
    BY <2>1
  <2>3. (2 = 1 /\ Len(expr[2]) > 1) = FALSE /\ (2 > 1 /\ 2 = Len(expr[2])) = TRUE
    BY <2>1
  <2>4. last = [clause |-> expr[2][2], opens |-> 2 = 1 /\ Len(expr[2]) > 1,
                closes |-> 2 > 1 /\ 2 = Len(expr[2])]
    BY <2>1, <2>3
  <2>5. last \in {[clause |-> expr[2][i], opens |-> i = 1 /\ Len(expr[2]) > 1,
                   closes |-> i > 1 /\ i = Len(expr[2])] : i \in DOMAIN expr[2]}
    BY <2>2, <2>4
  <2> QED
    BY <2>2, <2>5 DEF Segments
<1>2. ParseOrSegment(last) = {[id EXCEPT !.readable = FALSE]}
  BY DEF ParseOrSegment
<1>3. [id EXCEPT !.readable = FALSE].readable = FALSE
  BY DEF Clause
<1>4. [id EXCEPT !.readable = FALSE] \in OrClauses(expr)
  BY <1>1, <1>2 DEF OrClauses
<1>5. LatestQuery(c).ors = OrClauses(expr)
  BY DEF LatestQuery
<1> QED
  BY <1>3, <1>4, <1>5 DEF IsRefused

\* The last page is the newest messages, and has a cursor if there are others.
LEMMA LatestStep ==
    ASSUME PagesInv, UNCHANGED <<chat, behind>>, scroll.way = "none",
           scroll' = Page("latest", ExecSelect(LatestQuery(scroll.cursor)))
    PROVE  PagesInv'
<1>1. scroll.shown = <<>> /\ scroll.cursor = None /\ behind = {} /\ PageTypes
  BY DEF PagesInv, WayInv
<1> DEFINE s == OrderBy(Stored, FALSE)
           found == LimitTo(s, Take + 1)
           slice == LimitTo(found, Take)
           shown == Reverse(slice)
           n == Len(slice)
<1>2. ExecSelect(LatestQuery(scroll.cursor)) = found
  <2>1. /\ LatestQuery(None).filters = {} /\ LatestQuery(None).ors = {}
        /\ LatestQuery(None).ascending = FALSE /\ LatestQuery(None).limit = Take + 1
    BY DEF LatestQuery
  <2>2. Where(LatestQuery(None)) = Stored
    BY <2>1 DEF Where
  <2> QED
    BY <1>1, <2>1, <2>2 DEF ExecSelect
<1>3. /\ s \in Seq(Stored)
      /\ \A i \in Stored : \E x \in 1 .. Len(s) : s[x] = i
      /\ \A x, y \in 1 .. Len(s) : x < y => Earlier(s[y], s[x])
  BY <1>1, RowsInOrder
<1> HIDE DEF s
<1>4. /\ slice \in Seq(Stored) /\ n = IF Take < Len(s) THEN Take ELSE Len(s)
      /\ \A x \in 1 .. n : x <= Len(s) /\ slice[x] = s[x]
      /\ Len(found) > Take <=> Len(s) > Take
  BY <1>3, PageHolds
<1>5. Take \in Nat /\ Take > 0 /\ Len(s) \in Nat /\ n \in Nat
  <2>1. Len(s) \in Nat
    BY <1>3
  <2>2. Take \in Nat /\ Take > 0
    BY PagesAssumption
  <2> HIDE DEF found, slice
  <2> QED
    BY <1>4, <2>1, <2>2
<1> HIDE DEF found, slice
<1>6. /\ shown \in Seq(Stored) /\ Len(shown) = n /\ DOMAIN shown = 1 .. n
      /\ \A x \in 1 .. n : n - x + 1 \in 1 .. Len(s) /\ shown[x] = s[n - x + 1]
  BY <1>4, <1>5 DEF Reverse
<1>7. scroll' = [way |-> "latest", cursor |-> IF Len(s) > Take THEN Last(slice) ELSE None,
                 answer |-> "page", shown |-> shown]
  <2>1. shown \o <<>> = shown
    <3> HIDE DEF shown, n
    <3> QED
      BY <1>6
  <2> QED
    BY <1>1, <1>2, <1>4, <2>1 DEF Page, slice
<1> HIDE DEF shown, n
<1>8. Len(s) > Take => Last(slice) \in Stored
  BY <1>4, <1>5 DEF Last, n
<1>9. Stored \subseteq MessageIds /\ None \notin MessageIds
  BY PagesAssumption DEF Stored
<1>10. PageTypes' /\ WayInv'
  <2>1. shown \in Seq(MessageIds)
    BY <1>6, <1>9
  <2>2. scroll' \in Scrolls
    BY <1>7, <1>8, <1>9, <2>1 DEF Scrolls, Ways, PageAnswers
  <2>3. \A x \in DOMAIN shown : shown[x] \in Stored
    BY <1>6
  <2> QED
    BY <1>1, <1>7, <2>2, <2>3, SameOrder DEF PageTypes, WayInv
<1>11. ToSet(shown) = {s[x] : x \in 1 .. n}
  <2>1. \A x \in 1 .. n : n - x + 1 \in 1 .. n /\ n - (n - x + 1) + 1 = x
    BY <1>5
  <2>2. \A x \in 1 .. n : shown[x] = s[n - x + 1] /\ shown[n - x + 1] = s[x]
    BY <1>6, <2>1
  <2>3. ToSet(shown) = {shown[x] : x \in 1 .. n}
    BY <1>6 DEF ToSet
  <2>4. \A v : (\E x \in 1 .. n : v = shown[x]) <=> \E x \in 1 .. n : v = s[x]
    BY <2>1, <2>2
  <2> QED
    BY <2>3, <2>4
<1>12. \A x, y \in DOMAIN shown : x < y => Earlier(shown[x], shown[y])
  <2> SUFFICES ASSUME NEW x \in 1 .. n, NEW y \in 1 .. n, x < y
               PROVE  Earlier(shown[x], shown[y])
    BY <1>6
  <2>1. n - y + 1 < n - x + 1
    BY <1>5
  <2> QED
    BY <1>3, <1>6, <2>1
<1>13. \A i \in Stored \ ToSet(shown), j \in ToSet(shown) : Earlier(i, j)
  <2> SUFFICES ASSUME NEW i \in Stored \ ToSet(shown), NEW y \in 1 .. n PROVE Earlier(i, s[y])
    BY <1>11
  <2>1. PICK x \in 1 .. Len(s) : s[x] = i
    BY <1>3
  <2>2. y < x /\ y \in 1 .. Len(s)
    BY <1>4, <1>5, <1>11, <2>1
  <2> QED
    BY <1>3, <2>1, <2>2
<1>14. Len(s) > Take <=> Stored \ ToSet(shown) # {}
  <2>1. ASSUME Len(s) > Take
        PROVE  s[Take + 1] \in Stored \ ToSet(shown)
    <3>1. Take + 1 \in 1 .. Len(s) /\ n = Take
      BY <1>4, <1>5, <2>1
    <3>2. ASSUME NEW y \in 1 .. n
          PROVE  Earlier(s[Take + 1], s[y])
      <4>1. y \in 1 .. Len(s) /\ y < Take + 1
        BY <1>5, <3>1
      <4> QED
        BY <1>3, <3>1, <4>1
    <3>3. s[Take + 1] \in Stored
      BY <1>3, <3>1
    <3>4. ~Earlier(s[Take + 1], s[Take + 1])
      BY <1>1, <3>3, MomentsAreNumbers DEF Earlier
    <3> QED
      BY <1>11, <3>2, <3>3, <3>4
  <2>2. ASSUME ~(Len(s) > Take)
        PROVE  Stored \ ToSet(shown) = {}
    BY <1>3, <1>4, <1>5, <1>11, <2>2
  <2> QED
    BY <2>1, <2>2
<1>15. PagesAgree'
  <2>1. scroll'.way = "latest" /\ scroll'.shown = shown
    BY <1>7
  <2>2. scroll'.cursor = None <=> Stored \ ToSet(shown) = {}
    BY <1>7, <1>8, <1>9, <1>14
  <2> QED
    BY <1>1, <1>12, <1>13, <2>1, <2>2, SameOrder DEF PagesAgree
<1> QED
  BY <1>10, <1>15 DEF PagesInv

\* Pages read on from the start go on in order, and leave out nothing but what they say.
LEMMA ForwardStep ==
    ASSUME PagesInv, UNCHANGED <<chat, behind>>,
           scroll.way = "none" \/ (scroll.way = "forward" /\ scroll.cursor # None),
           scroll' = Page("forward", ExecSelect(ForwardQuery(scroll.cursor)))
    PROVE  PagesInv'
<1> DEFINE c     == scroll.cursor
           old   == scroll.shown
           S     == {i \in Stored : c # None => chat[i] > chat[c]}
           s     == OrderBy(S, TRUE)
           found == LimitTo(s, Take + 1)
           slice == LimitTo(found, Take)
           shown == old \o slice
           m     == Len(old)
           n     == Len(slice)
<1>1. PageTypes /\ WayInv /\ S \in SUBSET Stored
  BY DEF PagesInv
<1>2. /\ scroll \in Scrolls /\ old \in Seq(MessageIds) /\ m \in Nat
      /\ \A x \in 1 .. m : old[x] \in Stored
      /\ \A x, y \in 1 .. m : x < y => Earlier(old[x], old[y])
  BY <1>1 DEF PagesInv, PageTypes, PagesAgree, Scrolls
<1>3. /\ c = None => old = <<>>
      /\ c # None => m > 0 /\ c = old[m] /\ c \in Stored
  BY <1>1, <1>2 DEF WayInv, Last
<1>4. ExecSelect(ForwardQuery(c)) = found
  <2> DEFINE q == ForwardQuery(c)
             later == Clause("created_at", "gt", chat[c])
  <2>1. /\ q.filters = IF c = None THEN {} ELSE {later}
        /\ q.ors = {} /\ q.ascending = TRUE /\ q.limit = Take + 1
    BY DEF ForwardQuery
  <2>2. \A i : Meets(i, later) <=> chat[i] > chat[c]
    BY DEF Meets, Clause
  <2> HIDE DEF q, later
  <2>3. Where(q) = S
    BY <2>1, <2>2 DEF Where
  <2> QED
    BY <2>1, <2>3 DEF ExecSelect, q
<1>5. /\ s \in Seq(S)
      /\ \A i \in S : \E x \in 1 .. Len(s) : s[x] = i
      /\ \A x, y \in 1 .. Len(s) : x < y => Earlier(s[x], s[y])
  <2> HIDE DEF S
  <2> QED
    BY <1>1, RowsInOrder
<1> HIDE DEF s
<1>6. /\ slice \in Seq(S) /\ n = IF Take < Len(s) THEN Take ELSE Len(s)
      /\ \A x \in 1 .. n : x <= Len(s) /\ slice[x] = s[x]
      /\ Len(found) > Take <=> Len(s) > Take
  <2> HIDE DEF S
  <2> QED
    BY <1>5, PageHolds
<1>7. Take \in Nat /\ Take > 0 /\ Len(s) \in Nat /\ n \in Nat
  BY <1>5, <1>6, PagesAssumption
<1>8. /\ S \subseteq Stored /\ Stored \subseteq MessageIds /\ None \notin MessageIds
      /\ slice \in Seq(MessageIds)
  <2>1. S \subseteq Stored /\ Stored \subseteq MessageIds /\ None \notin MessageIds
    BY PagesAssumption DEF Stored
  <2> HIDE DEF S, slice
  <2> QED
    BY <1>6, <2>1
<1>9. scroll' = [way |-> "forward", cursor |-> IF Len(s) > Take THEN Last(slice) ELSE None,
                 answer |-> "page", shown |-> shown]
  BY <1>4, <1>6 DEF Page
<1> HIDE DEF found, slice
<1>10. /\ shown \in Seq(MessageIds) /\ Len(shown) = m + n /\ DOMAIN shown = 1 .. m + n
       /\ \A x \in 1 .. m : shown[x] = old[x]
       /\ \A x \in 1 .. n : shown[m + x] = s[x] /\ x \in 1 .. Len(s) /\ s[x] \in S
  <2>1. \A x \in 1 .. n : slice[x] = s[x] /\ x \in 1 .. Len(s) /\ s[x] \in S
    BY <1>5, <1>6
  <2> HIDE DEF old, S
  <2>2. shown \in Seq(MessageIds) /\ Len(shown) = m + n
    BY <1>2, <1>8
  <2>3. \A x \in 1 .. m : shown[x] = old[x]
    BY <1>2, <1>8
  <2>4. \A x \in 1 .. n : shown[m + x] = slice[x]
    BY <1>2, <1>8
  <2> QED
    BY <2>1, <2>2, <2>3, <2>4
<1> HIDE DEF shown, n, m
<1>11. \A x \in 1 .. m + n : \/ x \in 1 .. m /\ shown[x] = old[x]
                             \/ x - m \in 1 .. n /\ shown[x] = s[x - m] /\ s[x - m] \in S
  <2> SUFFICES ASSUME NEW x \in 1 .. m + n, x \notin 1 .. m
               PROVE  x - m \in 1 .. n /\ shown[x] = s[x - m] /\ s[x - m] \in S
    BY <1>10
  <2>1. x - m \in 1 .. n /\ m + (x - m) = x
    BY <1>2, <1>7
  <2> QED
    BY <1>10, <2>1
<1>12. Len(s) > Take => n = Take /\ Last(slice) = s[Take] /\ s[Take] \in S /\ n > 0
  BY <1>6, <1>7, <1>10 DEF Last, n
<1>13. PageTypes' /\ WayInv'
  <2>1. scroll' \in Scrolls
    BY <1>8, <1>9, <1>10, <1>12 DEF Scrolls, Ways, PageAnswers
  <2>2. \A x \in DOMAIN shown : shown[x] \in Stored
    BY <1>2, <1>8, <1>10, <1>11
  <2>3. Len(s) > Take => shown # <<>> /\ Last(slice) = Last(shown)
    <3> SUFFICES ASSUME Len(s) > Take PROVE shown # <<>> /\ Last(slice) = Last(shown)
      OBVIOUS
    <3>1. Len(shown) > 0 /\ shown[m + n] = s[n]
      BY <1>2, <1>7, <1>10, <1>12
    <3> QED
      BY <1>10, <1>12, <3>1 DEF Last
  <2> QED
    BY <1>1, <1>9, <2>1, <2>2, <2>3, SameOrder DEF PageTypes, WayInv
<1>14. \A x \in 1 .. m, i \in S : Earlier(old[x], i)
  <2> SUFFICES ASSUME NEW x \in 1 .. m, NEW i \in S PROVE Earlier(old[x], i)
    OBVIOUS
  <2>1. c # None /\ c \in Stored /\ c = old[m] /\ m > 0
    BY <1>2, <1>3 DEF m
  <2>2. chat[i] > chat[c] /\ chat[i] \in Int /\ chat[c] \in Int /\ chat[old[x]] \in Int
    BY <1>1, <1>2, <2>1, MomentsAreNumbers
  <2>3. x = m \/ Earlier(old[x], old[m])
    BY <1>2
  <2>4. chat[old[x]] <= chat[c]
    BY <2>1, <2>2, <2>3 DEF Earlier
  <2> QED
    BY <2>2, <2>4 DEF Earlier
<1>15. \A x, y \in DOMAIN shown : x < y => Earlier(shown[x], shown[y])
  <2> SUFFICES ASSUME NEW x \in 1 .. m + n, NEW y \in 1 .. m + n, x < y
               PROVE  Earlier(shown[x], shown[y])
    BY <1>10
  <2>1. CASE x \in 1 .. m /\ y \in 1 .. m
    BY <1>2, <1>10, <2>1
  <2>2. CASE x \in 1 .. m /\ y \notin 1 .. m
    BY <1>10, <1>11, <1>14, <2>2
  <2>3. CASE x \notin 1 .. m
    <3>1. y \notin 1 .. m /\ x - m < y - m
      BY <1>2, <1>7, <2>3
    <3>2. /\ shown[x] = s[x - m] /\ x - m \in 1 .. n
          /\ shown[y] = s[y - m] /\ y - m \in 1 .. n
      BY <1>11, <2>3, <3>1
    <3>3. x - m \in 1 .. Len(s) /\ y - m \in 1 .. Len(s)
      BY <1>10, <3>2
    <3> QED
      BY <1>5, <3>1, <3>2, <3>3
  <2> QED
    BY <2>1, <2>2, <2>3
<1>16. /\ \A x \in 1 .. m : old[x] \in ToSet(shown)
       /\ \A x \in 1 .. n : s[x] \in ToSet(shown)
  <2>1. \A x \in 1 .. m + n : shown[x] \in ToSet(shown)
    BY <1>10 DEF ToSet
  <2>2. /\ \A x \in 1 .. m : x \in 1 .. m + n
        /\ \A x \in 1 .. n : m + x \in 1 .. m + n
    BY <1>2, <1>7
  <2> QED
    BY <1>10, <2>1, <2>2
<1>17. ASSUME NEW i \in Stored \ (ToSet(shown) \cup behind)
       PROVE  \/ \E j \in ToSet(shown) : chat[j] = chat[i]
              \/ Len(s) > Take /\ Earlier(s[Take], i)
  <2>1. CASE i \in S
    <3>1. PICK x \in 1 .. Len(s) : s[x] = i
      BY <1>5, <2>1
    <3>2. x \notin 1 .. n
      BY <1>16, <3>1
    <3>3. Len(s) > Take /\ Take < x /\ Take \in 1 .. Len(s)
      BY <1>6, <1>7, <3>2 DEF n
    <3> QED
      BY <1>5, <3>1, <3>3
  <2>2. CASE i \notin S
    <3>1. c # None /\ ~(chat[i] > chat[c]) /\ c \in Stored /\ m > 0 /\ c = old[m]
      BY <1>3, <2>2 DEF m
    <3>2. \/ \E j \in ToSet(old) : chat[j] = chat[i]
          \/ Earlier(c, i)
      <4>1. old[m] \in ToSet(old) /\ \A j \in ToSet(old) : j \in ToSet(shown)
        BY <1>2, <1>16, <3>1 DEF ToSet, m
      <4>2. i \notin ToSet(old) /\ scroll.way = "forward"
        BY <1>1, <1>17, <3>1, <4>1 DEF WayInv
      <4> QED
        BY <4>2 DEF PagesInv, PagesAgree
    <3>3. c \in ToSet(shown) /\ \A j \in ToSet(old) : j \in ToSet(shown)
      BY <1>2, <1>16, <3>1 DEF ToSet, m
    <3>4. Earlier(c, i) => chat[c] = chat[i]
      BY <1>1, <3>1, MomentsAreNumbers DEF Earlier
    <3> QED
      BY <3>2, <3>3, <3>4
  <2> QED
    BY <2>1, <2>2
<1>18. PagesAgree'
  <2>1. /\ scroll'.way = "forward" /\ scroll'.shown = shown
        /\ Len(s) > Take => scroll'.cursor = s[Take] /\ s[Take] # None
    BY <1>8, <1>9, <1>12
  <2> QED
    BY <1>15, <1>17, <2>1, SameOrder DEF PagesAgree
<1> QED
  BY <1>13, <1>18 DEF PagesInv

LEMMA NextPagesInv == ASSUME PagesInv, [PagesNext]_<<pageVars, counters>> PROVE PagesInv'
<1>1. ASSUME ListMessages
      PROVE  PagesInv'
  <2>1. UNCHANGED <<chat, behind>>
    BY <1>1 DEF ListMessages
  <2>2. PICK way \in {"latest", "forward"} :
           /\ scroll.way = "none" \/ (scroll.way = way /\ scroll.cursor # None)
           /\ LET q == IF way = "latest" THEN LatestQuery(scroll.cursor)
                       ELSE ForwardQuery(scroll.cursor)
              IN  \/ ~IsRefused(q) /\ Answers /\ scroll' = Page(way, ExecSelect(q))
                  \/ IsRefused(q) /\ Answers /\ scroll' = [scroll EXCEPT !.answer = "refused"]
                  \/ Fails /\ scroll' = [scroll EXCEPT !.answer = "failed"]
    BY <1>1 DEF ListMessages
  <2>3. CASE \E a \in PageAnswers : scroll' = [scroll EXCEPT !.answer = a]
    BY <2>1, <2>3, NoPageStep
  <2>4. CASE way = "forward" /\ scroll' = Page(way, ExecSelect(ForwardQuery(scroll.cursor)))
    BY <2>1, <2>2, <2>4, ForwardStep
  <2>5. CASE /\ way = "latest" /\ ~IsRefused(LatestQuery(scroll.cursor))
             /\ scroll' = Page(way, ExecSelect(LatestQuery(scroll.cursor)))
    <3>1. scroll.way = "none"
      BY <2>2, <2>5, OlderIsRefused
    <3> QED
      BY <2>1, <2>5, <3>1, LatestStep
  <2> QED
    BY <2>2, <2>3, <2>4, <2>5 DEF PageAnswers
<1>2. CASE StoreMessage
  BY <1>2, StoreMessageStep
<1>3. ASSUME UNCHANGED <<pageVars, counters>>
      PROVE  PagesInv'
  <2>1. UNCHANGED <<chat, behind>> /\ scroll' = scroll
    BY <1>3 DEF pageVars
  <2>2. PageTypes' /\ WayInv'
    BY <2>1, SameOrder DEF PagesInv, PageTypes, WayInv
  <2>3. PagesAgree'
    BY <2>1, SameOrder DEF PagesInv, PagesAgree
  <2> QED
    BY <2>2, <2>3 DEF PagesInv
<1> QED
  BY <1>1, <1>2, <1>3 DEF PagesNext

\* The rows a browser has are stored, and its cursor is one of them.
THEOREM PagesTyped == PagesSpec => []PagesTypeOK
BY PagesTypesHold, InitPagesInv, NextPagesInv, PTL DEF PagesSpec

\* The last page of listMessages is the newest messages; the pages read on from the start
\* are in order, without a message twice, and miss nothing but messages of the second at
\* which a page ended and those stored behind the browser: for any messages, any times,
\* any length of a page, and messages stored between two pages.
THEOREM PagesHold == PagesSpec => []PagesAgree
<1>1. PagesInv => PagesAgree
  BY DEF PagesInv
<1> QED
  BY <1>1, InitPagesInv, NextPagesInv, PTL DEF PagesSpec

----------------------------------------------------------------------------
(* The office: the invariant of the part that moves, the first state of    *)
(* the others.                                                             *)

CalendarPart == IF part = "calendar" THEN CalInv /\ SendsInv ELSE CalendarInit
PeoplePart   == IF part = "people" THEN PeopleInv ELSE PeopleInit
LeadsPart    == IF part = "leads" THEN LeadsInv /\ StatusInv ELSE ClickupInit
StaffPart    == IF part = "staff" THEN SInv ELSE StaffInit
DocsPart     == IF part = "docs" THEN DocsInv ELSE DocsInit
BoardPart    == IF part = "board" THEN BInv /\ TInv /\ NotesType ELSE BoardInit
MetaPart     == IF part = "meta" THEN MInv ELSE MetaInit
PagesPart    == IF part = "pages" THEN PagesInv ELSE PagesInit
MailPart     == IF part = "mail" THEN MailInv ELSE MailInit
ClientsPart  == IF part = "clients" THEN CInv /\ OwnerInv ELSE CrmInit
MediaPart    == IF part = "media" THEN LInv ELSE MediaInit

\* A step of the part, or none.
CalendarMoves == IF part = "calendar" THEN [CalendarNext]_<<calendarVars, counters>>
                                      ELSE UNCHANGED calendarVars
PeopleMoves   == IF part = "people" THEN [PeopleNext]_<<peopleVars, counters>>
                                    ELSE UNCHANGED peopleVars
LeadsMoves    == IF part = "leads" THEN [ClickupNext]_<<leadVars, counters>>
                                   ELSE UNCHANGED leadVars
StaffMoves    == IF part = "staff" THEN [StaffNext]_<<staffVars, counters>>
                                   ELSE UNCHANGED staffVars
DocsMoves     == IF part = "docs" THEN [DocsNext]_<<docVars, counters>>
                                  ELSE UNCHANGED docVars
BoardMoves    == IF part = "board" THEN [BoardNext]_<<boardVars, counters>>
                                   ELSE UNCHANGED boardVars
MetaMoves     == IF part = "meta" THEN [MetaNext]_<<metaVars, counters>>
                                  ELSE UNCHANGED metaVars
PagesMoves    == IF part = "pages" THEN [PagesNext]_<<pageVars, counters>>
                                   ELSE UNCHANGED pageVars
MailMoves     == IF part = "mail" THEN [MailNext]_<<mailVars, counters>>
                                  ELSE UNCHANGED mailVars
ClientsMoves  == IF part = "clients" THEN [CrmNext]_<<crmVars, counters>>
                                     ELSE UNCHANGED crmVars
MediaMoves    == IF part = "media" THEN [MediaNext]_<<mediaVars, counters>>
                                   ELSE UNCHANGED mediaVars

OfficeInv == /\ part \in Parts
             /\ CalendarPart /\ PeoplePart /\ LeadsPart /\ StaffPart /\ DocsPart /\ BoardPart
             /\ MetaPart /\ PagesPart /\ MailPart /\ ClientsPart /\ MediaPart

officeVars == <<part, calendarVars, peopleVars, leadVars, staffVars, docVars, boardVars,
                metaVars, pageVars, mailVars, crmVars, mediaVars, counters>>

\* A step of the office is one of the part that moves, or of none.
LEMMA StepOfAPart ==
    ASSUME [OfficeNext]_officeVars
    PROVE  /\ part' = part
           /\ CalendarMoves /\ PeopleMoves /\ LeadsMoves /\ StaffMoves /\ DocsMoves /\ BoardMoves
           /\ MetaMoves /\ PagesMoves /\ MailMoves /\ ClientsMoves /\ MediaMoves
<1>1. CASE UNCHANGED officeVars
  BY <1>1 DEF officeVars, CalendarMoves, PeopleMoves, LeadsMoves, StaffMoves, DocsMoves, BoardMoves,
               MetaMoves, PagesMoves, MailMoves, ClientsMoves, MediaMoves
<1>2. CASE OfficeNext
  BY <1>2 DEF OfficeNext, OthersStay,
     CalendarMoves, PeopleMoves, LeadsMoves, StaffMoves, DocsMoves, BoardMoves,
     MetaMoves, PagesMoves, MailMoves, ClientsMoves, MediaMoves
<1> QED
  BY <1>1, <1>2

LEMMA CalendarSteps ==
    ASSUME CalendarPart, part' = part, CalendarMoves
    PROVE  CalendarPart'
<1>1. CASE part = "calendar"
  BY <1>1, CalInvNext, SendsInvNext DEF CalendarPart, CalendarMoves
<1>2. CASE part # "calendar"
  BY <1>2 DEF CalendarPart, CalendarMoves, CalendarInit, calendarVars, calendarHistory
<1> QED
  BY <1>1, <1>2

LEMMA PeopleSteps ==
    ASSUME PeoplePart, part' = part, PeopleMoves
    PROVE  PeoplePart'
<1>1. CASE part = "people"
  BY <1>1, NextPeopleInv DEF PeoplePart, PeopleMoves
<1>2. CASE part # "people"
  BY <1>2 DEF PeoplePart, PeopleMoves, PeopleInit, peopleVars
<1> QED
  BY <1>1, <1>2

LEMMA LeadsSteps ==
    ASSUME LeadsPart, part' = part, LeadsMoves
    PROVE  LeadsPart'
<1>1. CASE part = "leads"
  BY <1>1, NextLeadsInv, NextStatusInv DEF LeadsPart, LeadsMoves
<1>2. CASE part # "leads"
  BY <1>2 DEF LeadsPart, LeadsMoves, ClickupInit, leadVars
<1> QED
  BY <1>1, <1>2

LEMMA StaffSteps ==
    ASSUME StaffPart, part' = part, StaffMoves
    PROVE  StaffPart'
<1>1. CASE part = "staff"
  BY <1>1, NextSInv DEF StaffPart, StaffMoves, staffVars
<1>2. CASE part # "staff"
  BY <1>2 DEF StaffPart, StaffMoves, StaffInit, staffVars, accountVars, socketVars
<1> QED
  BY <1>1, <1>2

LEMMA DocsSteps ==
    ASSUME DocsPart, part' = part, DocsMoves
    PROVE  DocsPart'
<1>1. CASE part = "docs"
  BY <1>1, NextDocsInv DEF DocsPart, DocsMoves
<1>2. CASE part # "docs"
  BY <1>2 DEF DocsPart, DocsMoves, DocsInit, docVars
<1> QED
  BY <1>1, <1>2

LEMMA BoardSteps ==
    ASSUME BoardPart, part' = part, BoardMoves
    PROVE  BoardPart'
<1>1. CASE part = "board"
  BY <1>1, NextBInv, NextTInv, NotesTyped DEF BoardPart, BoardMoves
<1>2. CASE part # "board"
  BY <1>2 DEF BoardPart, BoardMoves, BoardInit, boardVars
<1> QED
  BY <1>1, <1>2

LEMMA MetaSteps ==
    ASSUME MetaPart, part' = part, MetaMoves
    PROVE  MetaPart'
<1>1. CASE part = "meta"
  BY <1>1, NextMInv DEF MetaPart, MetaMoves
<1>2. CASE part # "meta"
  BY <1>2 DEF MetaPart, MetaMoves, MetaInit, metaVars
<1> QED
  BY <1>1, <1>2

LEMMA PagesSteps ==
    ASSUME PagesPart, part' = part, PagesMoves
    PROVE  PagesPart'
<1>1. CASE part = "pages"
  BY <1>1, NextPagesInv DEF PagesPart, PagesMoves
<1>2. CASE part # "pages"
  BY <1>2 DEF PagesPart, PagesMoves, PagesInit, pageVars
<1> QED
  BY <1>1, <1>2

LEMMA MailSteps ==
    ASSUME MailPart, part' = part, MailMoves
    PROVE  MailPart'
<1>1. CASE part = "mail"
  BY <1>1, NextMailInv DEF MailPart, MailMoves
<1>2. CASE part # "mail"
  BY <1>2 DEF MailPart, MailMoves, MailInit, mailVars
<1> QED
  BY <1>1, <1>2

LEMMA ClientsSteps ==
    ASSUME ClientsPart, part' = part, ClientsMoves
    PROVE  ClientsPart'
<1>1. CASE part = "clients"
  BY <1>1, NextCInv, NextOwnerInv DEF ClientsPart, ClientsMoves
<1>2. CASE part # "clients"
  BY <1>2 DEF ClientsPart, ClientsMoves, CrmInit, crmVars
<1> QED
  BY <1>1, <1>2

LEMMA MediaSteps ==
    ASSUME MediaPart, part' = part, MediaMoves
    PROVE  MediaPart'
<1>1. CASE part = "media"
  BY <1>1, NextLInv DEF MediaPart, MediaMoves
<1>2. CASE part # "media"
  BY <1>2 DEF MediaPart, MediaMoves, MediaInit, mediaVars
<1> QED
  BY <1>1, <1>2

\* Every behaviour of the office keeps the invariant of the part that moves.
LEMMA OfficeInvHolds == OfficeSpec => []OfficeInv
<1>1. OfficeInit => OfficeInv
  <2> SUFFICES ASSUME OfficeInit PROVE OfficeInv
    OBVIOUS
  <2>1. /\ part \in Parts
        /\ CalendarInit /\ PeopleInit /\ ClickupInit /\ StaffInit /\ DocsInit /\ BoardInit
        /\ MetaInit /\ PagesInit /\ MailInit /\ CrmInit /\ MediaInit
    BY DEF OfficeInit
  <2>2. CalendarPart
    BY <2>1, CalInvInit, SendsInvInit DEF CalendarPart
  <2>3. PeoplePart
    BY <2>1, InitPeopleInv DEF PeoplePart
  <2>4. LeadsPart
    BY <2>1, InitLeadsInv, InitStatusInv DEF LeadsPart
  <2>5. StaffPart
    BY <2>1, InitSInv DEF StaffPart
  <2>6. DocsPart
    BY <2>1, InitDocsInv DEF DocsPart
  <2>7. BoardPart
    BY <2>1, InitBInv, InitTInv, InitNotesType DEF BoardPart
  <2>8. MetaPart
    BY <2>1, InitMInv DEF MetaPart
  <2>9. PagesPart
    BY <2>1, InitPagesInv DEF PagesPart
  <2>10. MailPart
    BY <2>1, InitMailInv DEF MailPart
  <2>11. ClientsPart
    BY <2>1, InitCInv, InitOwnerInv DEF ClientsPart
  <2>12. MediaPart
    BY <2>1, InitLInv DEF MediaPart
  <2> QED
    BY <2>1, <2>2, <2>3, <2>4, <2>5, <2>6, <2>7, <2>8, <2>9, <2>10, <2>11, <2>12 DEF OfficeInv
<1>2. OfficeInv /\ [OfficeNext]_officeVars => OfficeInv'
  <2> SUFFICES ASSUME OfficeInv, [OfficeNext]_officeVars PROVE OfficeInv'
    OBVIOUS
  <2>1. /\ part' = part
        /\ CalendarMoves /\ PeopleMoves /\ LeadsMoves /\ StaffMoves /\ DocsMoves /\ BoardMoves
        /\ MetaMoves /\ PagesMoves /\ MailMoves /\ ClientsMoves /\ MediaMoves
    BY StepOfAPart
  <2>2. CalendarPart'
    BY <2>1, CalendarSteps DEF OfficeInv
  <2>3. PeoplePart'
    BY <2>1, PeopleSteps DEF OfficeInv
  <2>4. LeadsPart'
    BY <2>1, LeadsSteps DEF OfficeInv
  <2>5. StaffPart'
    BY <2>1, StaffSteps DEF OfficeInv
  <2>6. DocsPart'
    BY <2>1, DocsSteps DEF OfficeInv
  <2>7. BoardPart'
    BY <2>1, BoardSteps DEF OfficeInv
  <2>8. MetaPart'
    BY <2>1, MetaSteps DEF OfficeInv
  <2>9. PagesPart'
    BY <2>1, PagesSteps DEF OfficeInv
  <2>10. MailPart'
    BY <2>1, MailSteps DEF OfficeInv
  <2>11. ClientsPart'
    BY <2>1, ClientsSteps DEF OfficeInv
  <2>12. MediaPart'
    BY <2>1, MediaSteps DEF OfficeInv
  <2> QED
    BY <2>1, <2>2, <2>3, <2>4, <2>5, <2>6, <2>7, <2>8, <2>9, <2>10, <2>11, <2>12 DEF OfficeInv
<1> QED
  BY <1>1, <1>2, PTL DEF OfficeSpec, officeVars

----------------------------------------------------------------------------
(* The office: its properties *)

\* The types of every part hold, whichever part moves.
THEOREM OfficeTyped == OfficeSpec => []OfficeTypeOK
<1>1. OfficeInv => OfficeTypeOK
  <2> SUFFICES ASSUME OfficeInv PROVE OfficeTypeOK
    OBVIOUS
  <2>1. part = "calendar" => CalendarTypeOK
    BY DEF OfficeInv, CalendarPart, CalInv
  <2>2. part = "people" => PeopleTypeOK
    BY DEF OfficeInv, PeoplePart, PeopleInv
  <2>3. part = "leads" => LeadsTypeOK
    BY LeadsTypesHold DEF OfficeInv, LeadsPart
  <2>4. part = "staff" => StaffTypeOK
    BY DEF OfficeInv, StaffPart, SInv
  <2>5. part = "docs" => DocsTypeOK
    BY DocsTypesHold DEF OfficeInv, DocsPart
  <2>6. part = "board" => BoardTypeOK
    BY BoardTypesHold DEF OfficeInv, BoardPart
  <2>7. part = "meta" => MetaTypeOK
    BY DEF OfficeInv, MetaPart, MInv
  <2>8. part = "pages" => PagesTypeOK
    BY PagesTypesHold DEF OfficeInv, PagesPart
  <2>9. part = "mail" => MailTypeOK
    BY MailTypesHold DEF OfficeInv, MailPart
  <2>10. part = "clients" => CrmTypeOK
    BY CrmTypesHold DEF OfficeInv, ClientsPart
  <2>11. part = "media" => MediaTypeOK
    BY MediaTypesHold DEF OfficeInv, MediaPart
  <2> QED
    BY <2>1, <2>2, <2>3, <2>4, <2>5, <2>6, <2>7, <2>8, <2>9, <2>10, <2>11 DEF OfficeTypeOK
<1> QED
  BY <1>1, OfficeInvHolds, PTL

\* What the program counts and lists agrees with itself in every reachable state, whatever
\* is stored: getTodayCount, getStats and findAll of meetings, listLeads and getLeadsMeta,
\* the areas and pages of a role, the statistics of the portal, the pages of messages and
\* the mails of a lead.
THEOREM OfficeReports == OfficeSpec => []ReportsAgree
<1>1. OfficeInv => ReportsAgree
  <2> SUFFICES ASSUME OfficeInv PROVE ReportsAgree
    OBVIOUS
  <2>1. part = "people" => MeetingReadsAgree
    BY MeetingsAddUp DEF OfficeInv, PeoplePart, PeopleInv
  <2>2. part = "leads" => LeadReadsAgree
    BY LeadsAreCounted DEF OfficeInv, LeadsPart
  <2>3. part = "staff" => AccessAgrees
    BY AccessKept DEF OfficeInv, StaffPart
  <2>4. part = "board" => PortalReadsAgree
    BY BoardAddsUp DEF OfficeInv, BoardPart
  <2>5. part = "pages" => PagesAgree
    BY DEF OfficeInv, PagesPart, PagesInv
  <2>6. part = "mail" => MailReadsAgree
    BY CopiesAreListed DEF OfficeInv, MailPart
  <2> QED
    BY <2>1, <2>2, <2>3, <2>4, <2>5, <2>6 DEF ReportsAgree
<1> QED
  BY <1>1, OfficeInvHolds, PTL

\* What each part keeps by itself it keeps in the office, and so do the parts at rest.
THEOREM OfficeKeeps ==
    OfficeSpec => [](/\ NoStrayEvent /\ EventShowsTheRow /\ ConfirmedOnce /\ InFlightIsSending
                     /\ PeopleAsAsked /\ MirrorFollowsClickup /\ AdminRemains
                     /\ OnlineIsConnected /\ DocumentsAddUp /\ BoardKept
                     /\ FormsFollowConnection /\ OwnMailToldTrue /\ ClientsApart
                     /\ FilesFollowRows)
<1>1. ASSUME OfficeInv
      PROVE  NoStrayEvent /\ EventShowsTheRow /\ ConfirmedOnce /\ InFlightIsSending
  <2>1. CalInv /\ SendsInv
    BY <1>1, CalInvInit, SendsInvInit DEF OfficeInv, CalendarPart
  <2> QED
    BY <2>1, EventsKept, RowsShown, ConfirmedKept, InFlightKept
<1>2. ASSUME OfficeInv
      PROVE  PeopleAsAsked /\ MirrorFollowsClickup
  <2>1. PeopleInv
    BY <1>2, InitPeopleInv DEF OfficeInv, PeoplePart
  <2>2. LeadsInv
    BY <1>2, InitLeadsInv DEF OfficeInv, LeadsPart
  <2> QED
    BY <2>1, <2>2, AskedKept, MirrorShown
<1>3. ASSUME OfficeInv
      PROVE  AdminRemains /\ OnlineIsConnected /\ DocumentsAddUp
  <2>1. SInv
    BY <1>3, InitSInv DEF OfficeInv, StaffPart
  <2>2. DocsInv
    BY <1>3, InitDocsInv DEF OfficeInv, DocsPart
  <2> QED
    BY <2>1, <2>2, AdminKept, OnlineKept, DocumentsKept
<1>4. ASSUME OfficeInv
      PROVE  BoardKept /\ FormsFollowConnection
  <2>1. BInv /\ TInv
    BY <1>4, InitBInv, InitTInv DEF OfficeInv, BoardPart
  <2>2. MInv
    BY <1>4, InitMInv DEF OfficeInv, MetaPart
  <2> QED
    BY <2>1, <2>2, ApartKept, TimelineKept, FormsKept DEF BoardKept
<1>5. ASSUME OfficeInv
      PROVE  OwnMailToldTrue /\ ClientsApart /\ FilesFollowRows
  <2>1. MailInv
    BY <1>5, InitMailInv DEF OfficeInv, MailPart
  <2>2. CInv
    BY <1>5, InitCInv DEF OfficeInv, ClientsPart
  <2>3. LInv
    BY <1>5, InitLInv DEF OfficeInv, MediaPart
  <2> QED
    BY <2>1, <2>2, <2>3, MailKept, ClientsKept, FilesKept
<1> QED
  BY <1>1, <1>2, <1>3, <1>4, <1>5, OfficeInvHolds, PTL
=============================================================================
