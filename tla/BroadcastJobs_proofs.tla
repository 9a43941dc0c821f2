------------------------ MODULE BroadcastJobs_proofs ------------------------
(***************************************************************************)
(* Proofs about BroadcastJobs for every set of jobs, every set of requests *)
(* and every bound: the calls made and the counters stored, and how far a  *)
(* job has gone.  The queue implements BroadcastPromise, the stored report *)
(* follows the worker, no row is left running or pending, a cancellation   *)
(* takes effect, and the detail rows add up.                               *)
(***************************************************************************)
EXTENDS MCBroadcastJobs, FiniteSetTheorems, TLAPS

\* Counted from the left, the members of a finite set of naturals have one rank each, and take
\* every rank.
LEMMA Ranks ==
    ASSUME NEW K \in SUBSET Nat, IsFiniteSet(K)
    PROVE  /\ \A p \in K : Cardinality({q \in K : q <= p}) \in 1..Cardinality(K)
           /\ \A p, q \in K : p # q =>
                 Cardinality({o \in K : o <= p}) # Cardinality({o \in K : o <= q})
           /\ \A n \in 1..Cardinality(K) :
                 \E p \in K : Cardinality({q \in K : q <= p}) = n
<1> DEFINE Upto(p) == {q \in K : q <= p}
           rank == [p \in K |-> Cardinality(Upto(p))]
           C == Cardinality(K)
<1>1. C \in Nat /\ IsFiniteSet(1..C) /\ Cardinality(1..C) = C
  BY FS_CardinalityType, FS_Interval
<1>2. ASSUME NEW p \in K
      PROVE  IsFiniteSet(Upto(p)) /\ Cardinality(Upto(p)) \in 1..C
  <2>1. IsFiniteSet(Upto(p)) /\ Cardinality(Upto(p)) <= C
    BY FS_Subset
  <2>2. Cardinality(Upto(p)) \in Nat /\ Upto(p) # {}
    BY <2>1, FS_CardinalityType
  <2>3. Cardinality(Upto(p)) # 0
    BY <2>1, <2>2, FS_EmptySet
  <2> QED
    BY <1>1, <2>1, <2>2, <2>3
<1>3. ASSUME NEW p \in K, NEW q \in K, p < q
      PROVE  Cardinality(Upto(p)) # Cardinality(Upto(q))
  <2>1. Upto(p) \in SUBSET Upto(q)
    <3>1. p \in Nat /\ q \in Nat /\ \A x \in K : x \in Nat
      OBVIOUS
    <3>2. \A x \in K : x <= p => x <= q
      BY <1>3, <3>1
    <3> QED
      BY <3>2
  <2>2. q \in Upto(q) /\ q \notin Upto(p)
    BY <1>3
  <2>3. Upto(p) # Upto(q)
    BY <2>2
  <2> QED
    BY <1>2, <2>1, <2>3, FS_Subset
<1>4. ASSUME NEW p \in K, NEW q \in K, p # q
      PROVE  Cardinality(Upto(p)) # Cardinality(Upto(q))
  <2>1. p < q \/ q < p
    BY <1>4
  <2> QED
    BY <1>3, <2>1
<1>5. rank \in Injection(K, 1..C)
  <2>1. rank \in [K -> 1..C]
    BY <1>2
  <2>2. \A p, q \in K : rank[p] = rank[q] => p = q
    BY <1>4
  <2> QED
    BY <2>1, <2>2 DEF Injection, IsInjective
<1>6. rank \in Surjection(K, 1..C)
  <2> HIDE DEF rank
  <2> QED
    BY <1>1, <1>5, FS_Injection
<1>7. \A n \in 1..C : \E p \in K : rank[p] = n
  BY <1>6 DEF Surjection
<1> QED
  BY <1>2, <1>4, <1>7

\* The list of a request is as long as the positions kept, and its n-th recipient stands
\* at the n-th of them.
LEMMA StoredIs ==
    ASSUME NEW r \in Requests
    PROVE  /\ KeptPositions(r) \in SUBSET DOMAIN r.raw /\ IsFiniteSet(KeptPositions(r))
           /\ Cardinality(KeptPositions(r)) \in Nat
           /\ DOMAIN Stored(r) = 1..Cardinality(KeptPositions(r))
           /\ \A n \in DOMAIN Stored(r) : \E p \in KeptPositions(r) :
                 /\ Cardinality({q \in KeptPositions(r) : q <= p}) = n
                 /\ Stored(r)[n] = r.raw[p]
           /\ \A p \in KeptPositions(r) : \E n \in DOMAIN Stored(r) : Stored(r)[n] = r.raw[p]
<1> DEFINE kept == KeptPositions(r)
           Rank(p) == Cardinality({q \in kept : q <= p})
<1>1. r.raw \in Seq(Contact) /\ Len(r.raw) \in Nat /\ DOMAIN r.raw = 1..Len(r.raw)
  BY RequestsAssumption
<1>2. kept \in SUBSET DOMAIN r.raw /\ kept \in SUBSET Nat
  BY <1>1 DEF KeptPositions
<1>3. IsFiniteSet(kept) /\ Cardinality(kept) \in Nat
  <2>1. IsFiniteSet(1..Len(r.raw))
    BY <1>1, FS_Interval
  <2> QED
    BY <1>1, <1>2, <2>1, FS_Subset, FS_CardinalityType
<1>4. Stored(r) = [n \in 1..Cardinality(kept) |-> r.raw[CHOOSE p \in kept : Rank(p) = n]]
  BY DEF Stored
<1>5. ASSUME NEW n \in 1..Cardinality(kept)
      PROVE  \E p \in kept : Rank(p) = n /\ Stored(r)[n] = r.raw[p]
  <2>1. \E p \in kept : Rank(p) = n
    BY <1>2, <1>3, Ranks
  <2> HIDE DEF kept, Rank
  <2>2. PICK p : p = CHOOSE x \in kept : Rank(x) = n
    OBVIOUS
  <2>3. p \in kept /\ Rank(p) = n
    BY <2>1, <2>2
  <2> QED
    BY <1>4, <2>2, <2>3
<1>6. ASSUME NEW p \in kept
      PROVE  \E n \in 1..Cardinality(kept) : Stored(r)[n] = r.raw[p]
  <2>1. Rank(p) \in 1..Cardinality(kept) /\ \A q \in kept : Rank(q) = Rank(p) => q = p
    BY <1>2, <1>3, Ranks
  <2>2. PICK q \in kept : Rank(q) = Rank(p) /\ Stored(r)[Rank(p)] = r.raw[q]
    <3> HIDE DEF kept, Rank
    <3> QED
      BY <1>5, <2>1
  <2> HIDE DEF kept, Rank
  <2> QED
    BY <2>1, <2>2
<1> QED
  BY <1>2, <1>3, <1>4, <1>5, <1>6

\* What createJob stores is a list of contacts.
LEMMA StoredType ==
    ASSUME NEW r \in Requests
    PROVE  Stored(r) \in Seq(Contact)
<1>1. r.raw \in Seq(Contact)
  BY RequestsAssumption
<1>2. PICK c \in Nat : DOMAIN Stored(r) = 1..c
  BY StoredIs
<1>3. \A n \in 1..c : Stored(r)[n] \in Contact
  <2> TAKE n \in 1..c
  <2>1. PICK p \in DOMAIN r.raw : Stored(r)[n] = r.raw[p]
    BY <1>2, StoredIs
  <2> QED
    BY <1>1, <2>1
<1>4. Stored(r) = [n \in 1..c |-> Stored(r)[n]]
  BY <1>2 DEF Stored
<1> QED
  BY <1>3, <1>4

\* It has the type of a row's message.
LEMMA AcceptedType ==
    ASSUME NEW r \in Requests
    PROVE  [to |-> Stored(r), whatsapp |-> r.whatsapp, email |-> r.email]
              \in [to : Seq(Contact), whatsapp : BOOLEAN, email : BOOLEAN]
BY RequestsAssumption, StoredType

\* No two recipients of a list share a key (normalizeAndDedupeRecipients).
LEMMA KeysApart ==
    ASSUME NEW r \in Requests, NEW m \in DOMAIN Stored(r), NEW n \in DOMAIN Stored(r),
           RecipientKey(Stored(r)[m]) = RecipientKey(Stored(r)[n])
    PROVE  m = n
<1>1. PICK p \in KeptPositions(r) : /\ Cardinality({q \in KeptPositions(r) : q <= p}) = m
                                    /\ Stored(r)[m] = r.raw[p]
  BY StoredIs
<1>2. PICK o \in KeptPositions(r) : /\ Cardinality({q \in KeptPositions(r) : q <= o}) = n
                                    /\ Stored(r)[n] = r.raw[o]
  BY StoredIs
<1>3. p \in Nat /\ o \in Nat /\ p >= 1 /\ o >= 1
  BY StoredIs, RequestsAssumption
<1>4. ~(p < o) /\ ~(o < p)
  BY <1>1, <1>2, <1>3 DEF KeptPositions
<1>5. p = o
  BY <1>3, <1>4
<1> QED
  BY <1>1, <1>2, <1>5

(***************************************************************************)
(* The list of a job holds each recipient whom a channel can reach, under  *)
(* its key, and holds it once: deduplication loses nobody and repeats      *)
(* nobody (normalizeAndDedupePhones, normalizeAndDedupeRecipients).        *)
(***************************************************************************)
THEOREM RecipientsOnce ==
    \A r \in Requests :
        /\ {RecipientKey(Stored(r)[n]) : n \in DOMAIN Stored(r)} =
              {RecipientKey(r.raw[p]) : p \in AllUsable(r)}
        /\ \A m, n \in DOMAIN Stored(r) :
              RecipientKey(Stored(r)[m]) = RecipientKey(Stored(r)[n]) => m = n
<1> SUFFICES ASSUME NEW r \in Requests
             PROVE  {RecipientKey(Stored(r)[n]) : n \in DOMAIN Stored(r)} =
                       {RecipientKey(r.raw[p]) : p \in AllUsable(r)}
  BY KeysApart
<1>1. KeptPositions(r) \subseteq AllUsable(r)
  BY DEF KeptPositions, AllUsable
<1>2. ASSUME NEW p \in AllUsable(r)
      PROVE  \E o \in KeptPositions(r) : RecipientKey(r.raw[o]) = RecipientKey(r.raw[p])
  <2>1. PICK K : K = {q \in AllUsable(r) : RecipientKey(r.raw[q]) = RecipientKey(r.raw[p])}
    OBVIOUS
  <2>2. Len(r.raw) \in Nat /\ DOMAIN r.raw = 1..Len(r.raw)
    BY RequestsAssumption
  <2>3. K \in SUBSET (1..Len(r.raw)) /\ K \in SUBSET Nat /\ K # {}
    BY <2>1, <2>2 DEF AllUsable
  <2>4. IsFiniteSet(K) /\ Cardinality(K) \in Nat
    <3>1. IsFiniteSet(1..Len(r.raw))
      BY <2>2, FS_Interval
    <3> QED
      BY <2>3, <3>1, FS_Subset, FS_CardinalityType
  <2>5. 1 \in 1..Cardinality(K)
    BY <2>3, <2>4, FS_EmptySet
  <2>6. PICK o \in K : Cardinality({q \in K : q <= o}) = 1
    BY <2>3, <2>4, <2>5, Ranks
  <2>7. PICK L : L = {q \in K : q <= o}
    OBVIOUS
  <2>8. o \in L /\ IsFiniteSet(L) /\ Cardinality(L) = 1
    <3>1. L \in SUBSET K /\ o \in L
      BY <2>3, <2>7
    <3> QED
      BY <2>4, <2>6, <2>7, <3>1, FS_Subset
  <2>9. L = {o}
    BY <2>8, FS_Singleton
  <2>10. \A q \in 1..(o - 1) : q \notin K
    BY <2>3, <2>7, <2>9
  <2>11. o \in KeptPositions(r)
    <3>1. o \in DOMAIN r.raw /\ Usable(r, r.raw[o])
             /\ RecipientKey(r.raw[o]) = RecipientKey(r.raw[p])
      BY <2>1 DEF AllUsable
    <3>2. \A q \in 1..(o - 1) : q \in DOMAIN r.raw
      BY <2>2, <3>1
    <3> QED
      BY <2>1, <2>10, <3>1, <3>2 DEF KeptPositions, AllUsable
  <2> QED
    BY <2>1, <2>11
<1>3. \A n \in DOMAIN Stored(r) : \E p \in KeptPositions(r) : Stored(r)[n] = r.raw[p]
  BY StoredIs
<1>4. \A p \in KeptPositions(r) : \E n \in DOMAIN Stored(r) : Stored(r)[n] = r.raw[p]
  BY StoredIs
<1> QED
  BY <1>1, <1>2, <1>3, <1>4

\* Counting one more call keeps a table of calls a table of calls.
LEMMA CallCounted ==
    ASSUME NEW D, NEW f \in [D -> Nat], NEW k
    PROVE  [f EXCEPT ![k] = @ + 1] \in [D -> Nat]
<1> DEFINE g == [d \in D |-> IF d = k THEN f[d] + 1 ELSE f[d]]
<1>1. g \in [D -> Nat]
  OBVIOUS
<1>2. [f EXCEPT ![k] = @ + 1] = g
  OBVIOUS
<1> QED
  BY <1>1, <1>2

\* The type invariant holds when the process starts on an empty table.
LEMMA InitTypeOK == Init => TypeOK
<1> SUFFICES ASSUME Init PROVE TypeOK
  OBVIOUS
<1>1. RowsType
  BY DEF Init, RowsType, Statuses, NoMessage, ZeroTally, TallyType
<1>2. QueueType
  BY DEF Init, QueueType
<1>3. WorkerType
  BY DEF Init, WorkerType, ZeroTally, NotTried, TallyType, OutcomeType
<1>4. HistoryType
  BY DEF Init, HistoryType, Total, NoMessage
<1> QED
  BY <1>1, <1>2, <1>3, <1>4 DEF TypeOK

\* Every handler, worker step, crash and boot keeps the type invariant.
LEMMA NextTypeOK ==
    ASSUME TypeOK, [Next]_vars
    PROVE  TypeOK'
<1>1. RowsType
  BY DEF TypeOK
<1>2. QueueType
  BY DEF TypeOK
<1>3. WorkerType
  BY DEF TypeOK
<1>4. HistoryType
  BY DEF TypeOK
<1>5. ASSUME NEW j \in Jobs, NEW r \in Requests, CreateJob(j, r)
      PROVE  TypeOK'
  <2>1. RowsType'
    BY <1>5, <1>1, AcceptedType DEF RowsType, CreateJob, Statuses, TallyType
  <2>2. QueueType'
    BY <1>5, <1>2 DEF QueueType, CreateJob, bounds
  <2>3. WorkerType'
    BY <1>5, <1>3, JobsAssumption DEF WorkerType, CreateJob, InJob, TallyType,
       OutcomeType, worker
  <2>4. HistoryType'
    BY <1>5, <1>4, AcceptedType, <1>1 DEF HistoryType, RowsType, CreateJob, Total,
       Statuses, TallyType
  <2> QED
    BY <2>1, <2>2, <2>3, <2>4 DEF TypeOK
<1>6. ASSUME NEW j \in Jobs, CancelRead(j)
      PROVE  TypeOK'
  <2>1. RowsType'
    BY <1>6, <1>1 DEF RowsType, CancelRead, Statuses, TallyType, rows
  <2>2. QueueType'
    BY <1>6, <1>2 DEF QueueType, CancelRead, queue, bounds, Cancellable
  <2>3. WorkerType'
    BY <1>6, <1>3, JobsAssumption DEF WorkerType, CancelRead, InJob, TallyType,
       OutcomeType, worker
  <2>4. HistoryType'
    BY <1>6, <1>4 DEF HistoryType, CancelRead, Total, rows, history
  <2> QED
    BY <2>1, <2>2, <2>3, <2>4 DEF TypeOK
<1>7. ASSUME NEW j \in Jobs, NEW read \in {"pending", "running"}, CancelWrite(j, read)
      PROVE  TypeOK'
  <2>1. RowsType'
    BY <1>7, <1>1 DEF RowsType, CancelWrite, Statuses, TallyType, Cancellable,
       Answers, Fails
  <2>2. QueueType'
    <3>1. cancelling' \subseteq cancelling /\ (faults' = faults \/ faults' = faults + 1)
      BY <1>7 DEF CancelWrite, Answers, Fails
    <3>2. UNCHANGED <<service, kicks, tails, crashes>>
      BY <1>7 DEF CancelWrite, queue
    <3> QED
      BY <1>2, <3>1, <3>2 DEF QueueType
  <2>3. WorkerType'
    BY <1>7, <1>3, JobsAssumption DEF WorkerType, CancelWrite, InJob, TallyType,
       OutcomeType, worker
  <2>4. HistoryType'
    BY <1>7, <1>4 DEF HistoryType, CancelWrite, Total, history
  <2> QED
    BY <2>1, <2>2, <2>3, <2>4 DEF TypeOK
<1>8. ASSUME RunKick
      PROVE  TypeOK'
  <2>1. RowsType'
    BY <1>8, <1>1 DEF RowsType, RunKick, Statuses, TallyType, rows
  <2>2. QueueType'
    BY <1>8, <1>2 DEF QueueType, RunKick, bounds
  <2>3. WorkerType'
    BY <1>8, <1>3, JobsAssumption DEF WorkerType, RunKick, InJob, TallyType,
       OutcomeType
  <2>4. HistoryType'
    BY <1>8, <1>4 DEF HistoryType, RunKick, Total, rows, history
  <2> QED
    BY <2>1, <2>2, <2>3, <2>4 DEF TypeOK
<1>9. ASSUME CheckTail
      PROVE  TypeOK'
  <2>1. RowsType'
    BY <1>9, <1>1 DEF RowsType, CheckTail, Statuses, TallyType, rows
  <2>2. QueueType'
    BY <1>9, <1>2 DEF QueueType, CheckTail, Answers, Fails
  <2>3. WorkerType'
    BY <1>9, <1>3, JobsAssumption DEF WorkerType, CheckTail, InJob, TallyType,
       OutcomeType, worker
  <2>4. HistoryType'
    BY <1>9, <1>4 DEF HistoryType, CheckTail, Total, rows, history
  <2> QED
    BY <2>1, <2>2, <2>3, <2>4 DEF TypeOK
<1>10. ASSUME FindNext
      PROVE  TypeOK'
  <2>1. RowsType'
    BY <1>10, <1>1 DEF RowsType, FindNext, Statuses, TallyType, rows
  <2>2. QueueType'
    BY <1>10, <1>2 DEF QueueType, FindNext, Answers, Fails, LeaveLoop
  <2>3. WorkerType'
    BY <1>10, <1>3, JobsAssumption DEF WorkerType, FindNext, InJob, TallyType,
       OutcomeType, LeaveLoop, ZeroTally, NotTried
  <2>4. HistoryType'
    BY <1>10, <1>4 DEF HistoryType, FindNext, Total, rows, history
  <2> QED
    BY <2>1, <2>2, <2>3, <2>4 DEF TypeOK
<1>11. ASSUME Claim
      PROVE  TypeOK'
  <2>1. RowsType'
    BY <1>11, <1>1, <1>3 DEF RowsType, WorkerType, Claim, Statuses, TallyType
  <2>2. QueueType'
    BY <1>11, <1>2 DEF QueueType, Claim, Answers, Fails, LeaveLoop
  <2>3. WorkerType'
    <3>1. job \in Jobs /\ tally[job] \in TallyType /\ count \in TallyType /\ outcome \in OutcomeType
      BY <1>11, <1>1, <1>3 DEF RowsType, WorkerType, Claim
    <3>2. CASE pc' \in {"check", "finalize"} /\ job' = job /\ outcome' = outcome
               /\ count' = tally[job]
      BY <3>1, <3>2 DEF WorkerType, InJob
    <3>3. CASE LeaveLoop
      BY <3>3 DEF WorkerType, LeaveLoop, TallyType, OutcomeType, ZeroTally, NotTried
    <3> QED
      BY <1>11, <3>2, <3>3 DEF Claim
  <2>4. HistoryType'
    BY <1>11, <1>4 DEF HistoryType, Claim, Total, history
  <2> QED
    BY <2>1, <2>2, <2>3, <2>4 DEF TypeOK
<1>12. ASSUME CheckCancelled
      PROVE  TypeOK'
  <2>1. RowsType'
    BY <1>12, <1>1 DEF RowsType, CheckCancelled, Statuses, TallyType, rows
  <2>2. QueueType'
    BY <1>12, <1>2 DEF QueueType, CheckCancelled, queue, Answers, Fails
  <2>3. WorkerType'
    BY <1>12, <1>3, JobsAssumption DEF WorkerType, CheckCancelled, InJob, TallyType,
       OutcomeType
  <2>4. HistoryType'
    <3>1. job \in Jobs /\ Current \in Nat
      BY <1>12, <1>3 DEF WorkerType, CheckCancelled, Current, TallyType
    <3>2. begun' = begun \/ begun' = [begun EXCEPT ![job] = Current]
      BY <1>12 DEF CheckCancelled
    <3>3. begun' \in [Jobs -> Nat]
      BY <1>4, <3>1, <3>2 DEF HistoryType
    <3>4. UNCHANGED <<message, waCalls, emailCalls, late>>
      BY <1>12 DEF CheckCancelled, rows
    <3> QED
      BY <1>4, <3>3, <3>4 DEF HistoryType, Total
  <2> QED
    BY <2>1, <2>2, <2>3, <2>4 DEF TypeOK
<1>13. ASSUME StopJob
      PROVE  TypeOK'
  <2>1. RowsType'
    <3>1. job \in Jobs /\ count \in TallyType
      BY <1>13, <1>3 DEF WorkerType, StopJob
    <3> QED
      BY <1>13, <1>1, <3>1 DEF RowsType, StopJob, Closed, Statuses
  <2>2. QueueType'
    BY <1>13, <1>2 DEF QueueType, StopJob, queue, Answers, Fails
  <2>3. WorkerType'
    BY <1>13, <1>3, JobsAssumption DEF WorkerType, StopJob, InJob, TallyType,
       OutcomeType, ZeroTally
  <2>4. HistoryType'
    BY <1>13, <1>4 DEF HistoryType, StopJob, Total, history
  <2> QED
    BY <2>1, <2>2, <2>3, <2>4 DEF TypeOK
<1>14. ASSUME SendWhatsapp
      PROVE  TypeOK'
  <2>1. RowsType'
    BY <1>14, <1>1 DEF RowsType, SendWhatsapp, Statuses, TallyType, rows
  <2>2. QueueType'
    BY <1>14, <1>2 DEF QueueType, SendWhatsapp, queue, bounds
  <2>3. WorkerType'
    BY <1>14, <1>3, JobsAssumption DEF WorkerType, SendWhatsapp, InJob, TallyType,
       OutcomeType, CountFailure
  <2>4. HistoryType'
    <3>1. job \in Jobs /\ Current \in Nat
      BY <1>14, <1>3 DEF WorkerType, SendWhatsapp, Current, TallyType
    <3>2. message' = message /\ Total(job)' = Total(job)
      BY <1>14 DEF SendWhatsapp, rows, Total
    <3>3. late' \in [Jobs -> SUBSET Nat]
      BY <1>14, <1>4, <3>1 DEF HistoryType, SendWhatsapp, NoteLate
    <3>4. \A j \in Jobs : waCalls'[j] \in [1..Total(j) -> Nat]
      <4>1. waCalls[job] \in [1..Total(job) -> Nat]
        BY <1>4, <3>1 DEF HistoryType
      <4>2. [waCalls[job] EXCEPT ![Current] = @ + 1] \in [1..Total(job) -> Nat]
        BY <4>1, CallCounted
      <4>3. \/ waCalls' = waCalls
            \/ waCalls' = [waCalls EXCEPT ![job] = [waCalls[job] EXCEPT ![Current] = @ + 1]]
        BY <1>14 DEF SendWhatsapp
      <4> QED
        BY <1>4, <4>2, <4>3 DEF HistoryType
    <3> QED
      BY <1>14, <1>4, <3>2, <3>3, <3>4 DEF HistoryType, SendWhatsapp, Total
  <2> QED
    BY <2>1, <2>2, <2>3, <2>4 DEF TypeOK
<1>15. ASSUME SendEmail
      PROVE  TypeOK'
  <2>1. RowsType'
    BY <1>15, <1>1 DEF RowsType, SendEmail, Statuses, TallyType, rows
  <2>2. QueueType'
    BY <1>15, <1>2 DEF QueueType, SendEmail, queue, bounds
  <2>3. WorkerType'
    BY <1>15, <1>3, JobsAssumption DEF WorkerType, SendEmail, InJob, TallyType,
       OutcomeType
  <2>4. HistoryType'
    <3>1. job \in Jobs /\ Current \in Nat
      BY <1>15, <1>3 DEF WorkerType, SendEmail, Current, TallyType
    <3>2. message' = message /\ Total(job)' = Total(job)
      BY <1>15 DEF SendEmail, rows, Total
    <3>3. late' \in [Jobs -> SUBSET Nat]
      BY <1>15, <1>4, <3>1 DEF HistoryType, SendEmail, NoteLate
    <3>4. \A j \in Jobs : emailCalls'[j] \in [1..Total(j) -> Nat]
      <4>1. emailCalls[job] \in [1..Total(job) -> Nat]
        BY <1>4, <3>1 DEF HistoryType
      <4>2. [emailCalls[job] EXCEPT ![Current] = @ + 1] \in [1..Total(job) -> Nat]
        BY <4>1, CallCounted
      <4>3. \/ emailCalls' = emailCalls
            \/ emailCalls' =
                  [emailCalls EXCEPT ![job] = [emailCalls[job] EXCEPT ![Current] = @ + 1]]
        BY <1>15 DEF SendEmail
      <4> QED
        BY <1>4, <4>2, <4>3 DEF HistoryType
    <3> QED
      BY <1>15, <1>4, <3>2, <3>3, <3>4 DEF HistoryType, SendEmail, Total
  <2> QED
    BY <2>1, <2>2, <2>3, <2>4 DEF TypeOK
<1>16. ASSUME SaveResult
      PROVE  TypeOK'
  <2>1. RowsType'
    BY <1>16, <1>1 DEF RowsType, SaveResult, Statuses, TallyType
  <2>2. QueueType'
    BY <1>16, <1>2 DEF QueueType, SaveResult, queue, Answers, Fails
  <2>3. WorkerType'
    BY <1>16, <1>3, JobsAssumption DEF WorkerType, SaveResult, InJob, TallyType,
       OutcomeType, NotTried
  <2>4. HistoryType'
    BY <1>16, <1>4 DEF HistoryType, SaveResult, Total, history
  <2> QED
    BY <2>1, <2>2, <2>3, <2>4 DEF TypeOK
<1>17. ASSUME SaveProgress
      PROVE  TypeOK'
  <2>1. RowsType'
    <3>1. job \in Jobs /\ count \in TallyType
      BY <1>17, <1>3 DEF WorkerType, SaveProgress
    <3>2. ProgressPatch \in TallyType
      BY <3>1 DEF ProgressPatch, TallyType
    <3> QED
      BY <1>17, <1>1, <3>1, <3>2 DEF RowsType, SaveProgress
  <2>2. QueueType'
    BY <1>17, <1>2 DEF QueueType, SaveProgress, queue, Answers, Fails
  <2>3. WorkerType'
    BY <1>17, <1>3, JobsAssumption DEF WorkerType, SaveProgress, InJob, TallyType,
       OutcomeType
  <2>4. HistoryType'
    BY <1>17, <1>4 DEF HistoryType, SaveProgress, Total, history
  <2> QED
    BY <2>1, <2>2, <2>3, <2>4 DEF TypeOK
<1>18. ASSUME Finalize
      PROVE  TypeOK'
  <2>1. RowsType'
    <3>1. job \in Jobs /\ count \in TallyType
      BY <1>18, <1>3 DEF WorkerType, Finalize
    <3>2. CASE UNCHANGED <<status, tally, finished, error>>
      BY <1>18, <1>1, <3>2 DEF RowsType, Finalize
    <3>3. CASE ~UNCHANGED <<status, tally, finished, error>>
      <4>1. /\ status' = [status EXCEPT ![job] = "completed"]
            /\ tally' = [tally EXCEPT ![job] = count]
            /\ finished' = [finished EXCEPT ![job] = TRUE]
            /\ error' = [error EXCEPT ![job] = "null"]
            /\ message' = message
        BY <1>18, <3>3 DEF Finalize, Closed
      <4>2. status' \in [Jobs -> Statuses \cup {"absent"}] /\ tally' \in [Jobs -> TallyType]
        BY <1>1, <3>1, <4>1 DEF RowsType, Statuses
      <4>3. finished' \in [Jobs -> BOOLEAN]
        BY <1>1, <3>1, <4>1 DEF RowsType
      <4> QED
        BY <1>1, <3>1, <4>1, <4>2, <4>3 DEF RowsType
    <3> QED
      BY <3>2, <3>3
  <2>2. QueueType'
    BY <1>18, <1>2 DEF QueueType, Finalize, queue, Answers, Fails
  <2>3. WorkerType'
    BY <1>18, <1>3, JobsAssumption DEF WorkerType, Finalize, InJob, TallyType,
       OutcomeType, ZeroTally
  <2>4. HistoryType'
    BY <1>18, <1>4 DEF HistoryType, Finalize, Total, history
  <2> QED
    BY <2>1, <2>2, <2>3, <2>4 DEF TypeOK
<1>19. ASSUME Crash
      PROVE  TypeOK'
  <2>1. RowsType'
    BY <1>19, <1>1 DEF RowsType, Crash, Statuses, TallyType, rows
  <2>2. QueueType'
    BY <1>19, <1>2 DEF QueueType, Crash
  <2>3. WorkerType'
    BY <1>19, <1>3, JobsAssumption DEF WorkerType, Crash, InJob, TallyType,
       OutcomeType, ZeroTally, NotTried
  <2>4. HistoryType'
    BY <1>19, <1>4 DEF HistoryType, Crash, Total, rows, history
  <2> QED
    BY <2>1, <2>2, <2>3, <2>4 DEF TypeOK
<1>20. ASSUME Boot
      PROVE  TypeOK'
  <2>1. RowsType'
    BY <1>20, <1>1 DEF RowsType, Boot, Statuses, TallyType, AfterBoot
  <2>2. QueueType'
    <3>1. kicks' \in {kicks, kicks + 1} /\ (faults' = faults \/ faults' = faults + 1)
      BY <1>20 DEF Boot, Answers, Fails
    <3>2. service' = "up" /\ UNCHANGED <<tails, cancelling, crashes>>
      BY <1>20 DEF Boot
    <3> QED
      BY <1>2, <3>1, <3>2 DEF QueueType
  <2>3. WorkerType'
    BY <1>20, <1>3, JobsAssumption DEF WorkerType, Boot, InJob, TallyType,
       OutcomeType, worker
  <2>4. HistoryType'
    BY <1>20, <1>4 DEF HistoryType, Boot, Total, history
  <2> QED
    BY <2>1, <2>2, <2>3, <2>4 DEF TypeOK
<1>21. ASSUME UNCHANGED vars
      PROVE  TypeOK'
  <2>1. RowsType'
    BY <1>21, <1>1 DEF RowsType, Statuses, TallyType, vars, rows
  <2>2. QueueType'
    BY <1>21, <1>2 DEF QueueType, vars, queue, bounds
  <2>3. WorkerType'
    BY <1>21, <1>3, JobsAssumption DEF WorkerType, InJob, TallyType, OutcomeType,
       vars, worker
  <2>4. HistoryType'
    BY <1>21, <1>4 DEF HistoryType, Total, vars, rows, history
  <2> QED
    BY <2>1, <2>2, <2>3, <2>4 DEF TypeOK
<1> QED
  BY <1>5, <1>6, <1>7, <1>8, <1>9, <1>10, <1>11, <1>12, <1>13, <1>14, <1>15, <1>16,
     <1>17, <1>18, <1>19, <1>20, <1>21 DEF Next, Worker

(***************************************************************************)
(* The table, the worker and the history of BroadcastJobs are well typed   *)
(* in every state, whatever fails and however often the process restarts.  *)
(***************************************************************************)
THEOREM TypeCorrect == Spec => []TypeOK
BY InitTypeOK, NextTypeOK, PTL DEF Spec

----------------------------------------------------------------------------
(* At most one call per recipient, and counters that explain the cursor *)

\* Nothing has happened yet to a row that was never claimed.
Fresh(j) ==
    /\ tally[j] = ZeroTally
    /\ \A n \in 1..Total(j) : waCalls[j][n] = 0 /\ emailCalls[j][n] = 0

NeverClaimed == {"absent", "pending"}

\* Whether the current recipient already went through a channel.
DoneWa    == IF pc \in {"email", "result", "progress"} THEN 1 ELSE 0
DoneEmail == IF pc \in {"result", "progress"} THEN 1 ELSE 0

\* The recipients from n on have not been called.
Uncalled(calls, n) == \A k \in 1..Total(job) : k >= n => calls[job][k] = 0

\* The counters c have one outcome per recipient and channel in use, w and e
\* of them beyond the cursor.
Explained(c, j, w, e) ==
    /\ c.sent + c.failed = IF message[j].whatsapp THEN c.cursor + w ELSE 0
    /\ c.emailSent + c.emailFailed = IF message[j].email THEN c.cursor + e ELSE 0

FreshInv   == \A j \in Jobs : status[j] \in NeverClaimed => Fresh(j)
ClaimedInv == pc \in InJob => status[job] \notin NeverClaimed
UncalledInv ==
    pc \in InJob => /\ Uncalled(waCalls, Current + DoneWa)
                    /\ Uncalled(emailCalls, Current + DoneEmail)
TallyInv   == \A j \in Jobs : Explained(tally[j], j, 0, 0)
CountInv   == pc \in InJob => Explained(count, job, DoneWa, DoneEmail)

IInv == /\ TypeOK /\ FreshInv /\ ClaimedInv /\ UncalledInv /\ AtMostOncePerRecipient
        /\ TallyInv /\ CountInv

\* IInv holds before any job exists.
LEMMA InitIInv == Init => IInv
<1> SUFFICES ASSUME Init PROVE IInv
  OBVIOUS
<1>1. TypeOK
  BY InitTypeOK
<1>2. \A j \in Jobs : Total(j) = 0
  BY DEF Init, Total, NoMessage
<1>3. FreshInv
  BY <1>2 DEF Init, FreshInv, Fresh
<1>4. AtMostOncePerRecipient
  BY DEF Init, AtMostOncePerRecipient
<1>5. TallyInv
  BY DEF Init, TallyInv, Explained, ZeroTally, NoMessage
<1>6. ClaimedInv /\ UncalledInv /\ CountInv
  BY DEF Init, ClaimedInv, UncalledInv, CountInv, InJob
<1> QED
  BY <1>1, <1>3, <1>4, <1>5, <1>6 DEF IInv

\* A step that changes no counter and no call, gives no row back to the queue,
\* and leaves the worker where it is or out of runJob.
LEMMA Aside ==
    ASSUME IInv, TypeOK',
           UNCHANGED <<message, tally, waCalls, emailCalls>>,
           \A j \in Jobs : status'[j] = status[j] \/ status'[j] \notin NeverClaimed,
           pc' \notin InJob \/ UNCHANGED <<pc, job, count>>
    PROVE  IInv'
<1>1. FreshInv'
  BY DEF IInv, FreshInv, Fresh, Total
<1>2. AtMostOncePerRecipient'
  BY DEF IInv, AtMostOncePerRecipient
<1>3. TallyInv'
  BY DEF IInv, TallyInv, Explained
<1>4. ClaimedInv'
  <2>1. CASE pc' \notin InJob
    BY <2>1 DEF ClaimedInv, InJob
  <2>2. CASE pc' \in InJob
    <3>1. pc \in InJob /\ job' = job /\ job \in Jobs
      BY <2>2 DEF IInv, TypeOK, WorkerType, InJob
    <3> QED
      BY <3>1 DEF IInv, ClaimedInv
  <2> QED
    BY <2>1, <2>2
<1>5. UncalledInv'
  BY DEF IInv, UncalledInv, Uncalled, Current, DoneWa, DoneEmail, Total, InJob
<1>6. CountInv'
  BY DEF IInv, CountInv, Explained, DoneWa, DoneEmail, InJob
<1> QED
  BY <1>1, <1>2, <1>3, <1>4, <1>5, <1>6 DEF IInv

\* The end of runJob, after a cancellation or the last recipient.
LEMMA Leaving ==
    ASSUME IInv, TypeOK', pc \in {"stop", "finalize"}, pc' = "find",
           UNCHANGED <<message, waCalls, emailCalls>>,
           \A j \in Jobs : status'[j] = status[j] \/ status'[j] \notin NeverClaimed,
           tally' = tally \/ tally' = [tally EXCEPT ![job] = count]
    PROVE  IInv'
<1>1. job \in Jobs /\ pc \in InJob /\ DoneWa = 0 /\ DoneEmail = 0
  BY DEF IInv, TypeOK, WorkerType, InJob, DoneWa, DoneEmail
<1>2. status[job] \notin NeverClaimed /\ Explained(count, job, 0, 0)
  BY <1>1 DEF IInv, ClaimedInv, CountInv
<1>3. tally \in [Jobs -> TallyType]
  BY DEF IInv, TypeOK, RowsType
<1>4. \A j \in Jobs : tally'[j] = tally[j] \/ (j = job /\ tally'[j] = count)
  BY <1>1, <1>3
<1>5. FreshInv'
  <2>1. \A j \in Jobs : status'[j] \in NeverClaimed =>
           j # job /\ status[j] \in NeverClaimed /\ tally'[j] = tally[j]
    BY <1>2, <1>4
  <2> QED
    BY <2>1 DEF IInv, FreshInv, Fresh, Total
<1>6. AtMostOncePerRecipient'
  BY DEF IInv, AtMostOncePerRecipient
<1>7. TallyInv'
  BY <1>2, <1>4 DEF IInv, TallyInv, Explained
<1>8. ClaimedInv' /\ UncalledInv' /\ CountInv'
  BY DEF ClaimedInv, UncalledInv, CountInv, InJob
<1> QED
  BY <1>5, <1>6, <1>7, <1>8 DEF IInv

\* A new job has called nobody, and its counters and cursor are zero.
LEMMA CreateIInv ==
    ASSUME IInv, TypeOK', NEW j \in Jobs, NEW r \in Requests, CreateJob(j, r)
    PROVE  IInv'
<1>1. status[j] = "absent" /\ Fresh(j) /\ (pc \in InJob => job # j)
  BY DEF IInv, CreateJob, FreshInv, ClaimedInv, NeverClaimed
<1>2. UNCHANGED <<pc, job, count, tally>>
  BY DEF CreateJob, worker
<1>3. \A k \in Jobs \ {j} : /\ message'[k] = message[k] /\ status'[k] = status[k]
                           /\ waCalls'[k] = waCalls[k] /\ emailCalls'[k] = emailCalls[k]
                           /\ Total(k)' = Total(k)
  BY DEF CreateJob, IInv, TypeOK, RowsType, HistoryType, Total
<1>4. /\ waCalls'[j] = [n \in 1..Total(j)' |-> 0]
      /\ emailCalls'[j] = [n \in 1..Total(j)' |-> 0]
  BY DEF CreateJob, IInv, TypeOK, RowsType, HistoryType, Total
<1>5. FreshInv'
  <2>1. Fresh(j)'
    BY <1>1, <1>2, <1>4 DEF Fresh
  <2> QED
    BY <1>2, <1>3, <2>1 DEF IInv, FreshInv, Fresh
<1>6. AtMostOncePerRecipient'
  <2>1. /\ \A n \in DOMAIN waCalls'[j] : waCalls'[j][n] <= 1
        /\ \A n \in DOMAIN emailCalls'[j] : emailCalls'[j][n] <= 1
    BY <1>4
  <2>2. ASSUME NEW k \in Jobs \ {j}
        PROVE  /\ \A n \in DOMAIN waCalls'[k] : waCalls'[k][n] <= 1
               /\ \A n \in DOMAIN emailCalls'[k] : emailCalls'[k][n] <= 1
    BY <1>3, <2>2 DEF IInv, AtMostOncePerRecipient
  <2> QED
    BY <2>1, <2>2 DEF AtMostOncePerRecipient
<1>7. TallyInv'
  <2>1. Explained(tally[j], j, 0, 0)'
    BY <1>1, <1>2 DEF Fresh, Explained, ZeroTally
  <2> QED
    BY <1>2, <1>3, <2>1 DEF IInv, TallyInv, Explained
<1>8. ASSUME pc \in InJob
      PROVE  job \in Jobs \ {j}
  BY <1>1, <1>8 DEF IInv, TypeOK, WorkerType, InJob
<1>9. ClaimedInv'
  BY <1>2, <1>3, <1>8 DEF IInv, ClaimedInv
<1>10. UncalledInv'
  BY <1>2, <1>3, <1>8 DEF IInv, UncalledInv, Uncalled, Current, DoneWa, DoneEmail
<1>11. CountInv'
  BY <1>2, <1>3, <1>8 DEF IInv, CountInv, Explained, DoneWa, DoneEmail
<1> QED
  BY <1>5, <1>6, <1>7, <1>9, <1>10, <1>11 DEF IInv

\* The worker starts a job nobody of which was called, with counters and cursor at zero.
LEMMA ClaimIInv ==
    ASSUME IInv, TypeOK', Claim
    PROVE  IInv'
<1>1. UNCHANGED <<message, tally, waCalls, emailCalls>>
  BY DEF Claim, history
<1>2. CASE LeaveLoop /\ UNCHANGED status
  BY <1>1, <1>2, Aside DEF LeaveLoop, InJob
<1>3. CASE /\ status[job] = "pending" /\ status' = [status EXCEPT ![job] = "running"]
           /\ count' = tally[job] /\ pc' \in {"check", "finalize"} /\ job' = job
  <2>1. job \in Jobs /\ Fresh(job) /\ count' = ZeroTally
    BY <1>3 DEF IInv, TypeOK, WorkerType, Claim, InJob, FreshInv, Fresh, NeverClaimed
  <2>2. status' \in [Jobs -> Statuses \cup {"absent"}] /\ status'[job] = "running"
    BY <1>3, <2>1 DEF IInv, TypeOK, RowsType
  <2>3. FreshInv'
    <3>1. ASSUME NEW k \in Jobs, status'[k] \in NeverClaimed
          PROVE  status[k] \in NeverClaimed
      BY <1>3, <2>1, <2>2, <3>1 DEF IInv, TypeOK, RowsType, NeverClaimed
    <3> QED
      BY <1>1, <3>1 DEF IInv, FreshInv, Fresh, Total
  <2>4. AtMostOncePerRecipient' /\ TallyInv'
    BY <1>1 DEF IInv, AtMostOncePerRecipient, TallyInv, Explained
  <2>5. ClaimedInv'
    BY <1>3, <2>2 DEF ClaimedInv, NeverClaimed
  <2>6. UncalledInv'
    BY <1>1, <1>3, <2>1 DEF UncalledInv, Uncalled, Fresh, Total
  <2>7. CountInv'
    BY <1>1, <1>3, <2>1 DEF IInv, CountInv, TallyInv, Explained, DoneWa, DoneEmail
  <2> QED
    BY <2>3, <2>4, <2>5, <2>6, <2>7 DEF IInv
<1> QED
  BY <1>2, <1>3 DEF Claim

\* A step of the worker inside runJob that calls nobody and saves nothing.
LEMMA CheckIInv ==
    ASSUME IInv, TypeOK', CheckCancelled
    PROVE  IInv'
<1>1. /\ UNCHANGED <<message, status, tally, waCalls, emailCalls, job, count>>
      /\ pc = "check" /\ pc' \in {"stop", "whatsapp"}
  BY DEF CheckCancelled, rows
<1>2. FreshInv' /\ AtMostOncePerRecipient' /\ TallyInv'
  BY <1>1 DEF IInv, FreshInv, Fresh, Total, AtMostOncePerRecipient, TallyInv, Explained
<1>3. ClaimedInv' /\ CountInv'
  BY <1>1 DEF IInv, ClaimedInv, CountInv, Explained, DoneWa, DoneEmail, InJob
<1>4. UncalledInv'
  BY <1>1 DEF IInv, UncalledInv, Uncalled, Current, Total, DoneWa, DoneEmail, InJob
<1> QED
  BY <1>2, <1>3, <1>4 DEF IInv

\* upsertResult touches neither the counters nor the calls.
LEMMA SaveResultIInv ==
    ASSUME IInv, TypeOK', SaveResult
    PROVE  IInv'
<1>1. /\ UNCHANGED <<message, status, tally, waCalls, emailCalls, job, count>>
      /\ pc = "result" /\ pc' = "progress"
  BY DEF SaveResult, history
<1>2. FreshInv' /\ AtMostOncePerRecipient' /\ TallyInv'
  BY <1>1 DEF IInv, FreshInv, Fresh, Total, AtMostOncePerRecipient, TallyInv, Explained
<1>3. ClaimedInv' /\ CountInv'
  BY <1>1 DEF IInv, ClaimedInv, CountInv, Explained, DoneWa, DoneEmail, InJob
<1>4. UncalledInv'
  BY <1>1 DEF IInv, UncalledInv, Uncalled, Current, Total, DoneWa, DoneEmail, InJob
<1> QED
  BY <1>2, <1>3, <1>4 DEF IInv

\* What a send needs: the recipient at hand was not called on this channel.
LEMMA AtHand ==
    ASSUME IInv, pc \in {"whatsapp", "email", "progress"}
    PROVE  /\ job \in Jobs /\ status[job] \notin NeverClaimed
           /\ Current \in Nat /\ count \in TallyType
           /\ Uncalled(waCalls, Current + DoneWa)
           /\ Uncalled(emailCalls, Current + DoneEmail)
           /\ Explained(count, job, DoneWa, DoneEmail)
           /\ DOMAIN waCalls[job] = 1..Total(job)
           /\ DOMAIN emailCalls[job] = 1..Total(job)
<1>1. pc \in InJob /\ job \in Jobs /\ count \in TallyType /\ Current \in Nat
  BY DEF IInv, TypeOK, WorkerType, InJob, TallyType, Current
<1>2. waCalls[job] \in [1..Total(job) -> Nat] /\ emailCalls[job] \in [1..Total(job) -> Nat]
  BY <1>1 DEF IInv, TypeOK, HistoryType
<1> QED
  BY <1>1, <1>2 DEF IInv, ClaimedInv, UncalledInv, CountInv

\* A call to the recipient at hand is its first.
LEMMA FirstCall ==
    ASSUME NEW f, NEW N, f \in [1..N -> Nat], NEW c \in Nat,
           \A k \in 1..N : f[k] <= 1 /\ (k >= c => f[k] = 0)
    PROVE  LET g == [f EXCEPT ![c] = @ + 1]
           IN  /\ DOMAIN g = 1..N
               /\ \A k \in 1..N : g[k] <= 1 /\ (k >= c + 1 => g[k] = 0)
OBVIOUS

\* A WhatsApp attempt calls the recipient at the cursor, uncalled before, and adds one to
\* one counter.
LEMMA SendWhatsappIInv ==
    ASSUME IInv, TypeOK', SendWhatsapp
    PROVE  IInv'
<1>1. /\ pc = "whatsapp" /\ pc' = "email"
      /\ UNCHANGED <<message, status, tally, emailCalls, job>>
  BY DEF SendWhatsapp, rows
<1>2. count'.cursor = count.cursor /\ Current' = Current
  BY <1>1, AtHand DEF SendWhatsapp, CountFailure, Current, TallyType
<1>3. \A j \in Jobs : Total(j)' = Total(j)
  BY <1>1 DEF Total
<1>4. waCalls[job] \in [1..Total(job) -> Nat]
  BY <1>1, AtHand DEF IInv, TypeOK, HistoryType
<1>5. \A k \in 1..Total(job) : waCalls[job][k] <= 1 /\ (k >= Current => waCalls[job][k] = 0)
  <2>1. Current + DoneWa = Current
    BY <1>1, AtHand DEF DoneWa
  <2>2. \A k \in 1..Total(job) : k >= Current => waCalls[job][k] = 0
    BY <1>1, <2>1, AtHand DEF Uncalled
  <2>3. \A k \in 1..Total(job) : waCalls[job][k] <= 1
    BY <1>1, AtHand DEF IInv, AtMostOncePerRecipient
  <2> QED
    BY <2>2, <2>3
<1>6. \/ waCalls' = waCalls
      \/ waCalls' = [waCalls EXCEPT ![job] = [waCalls[job] EXCEPT ![Current] = @ + 1]]
  BY DEF SendWhatsapp
<1>7. /\ \A j \in Jobs \ {job} : waCalls'[j] = waCalls[j]
      /\ DOMAIN waCalls'[job] = 1..Total(job)
      /\ \A k \in 1..Total(job) :
            waCalls'[job][k] <= 1 /\ (k >= Current + 1 => waCalls'[job][k] = 0)
  <2>1. DOMAIN waCalls = Jobs /\ job \in Jobs /\ Current \in Nat
    BY <1>1, AtHand DEF IInv, TypeOK, HistoryType
  <2>2. CASE waCalls' = waCalls
    BY <1>4, <1>5, <2>1, <2>2
  <2>3. CASE waCalls' = [waCalls EXCEPT ![job] = [waCalls[job] EXCEPT ![Current] = @ + 1]]
    <3>1. waCalls'[job] = [waCalls[job] EXCEPT ![Current] = @ + 1]
      BY <2>1, <2>3
    <3> QED
      BY <1>4, <1>5, <2>1, <2>3, <3>1, FirstCall
  <2> QED
    BY <1>6, <2>2, <2>3
<1>8. FreshInv'
  BY <1>1, <1>3, <1>7, AtHand DEF IInv, FreshInv, Fresh
<1>9. AtMostOncePerRecipient'
  <2>1. ASSUME NEW j \in Jobs
        PROVE  \A n \in DOMAIN waCalls'[j] : waCalls'[j][n] <= 1
    BY <1>7, <2>1 DEF IInv, AtMostOncePerRecipient
  <2> QED
    BY <1>1, <2>1 DEF IInv, AtMostOncePerRecipient
<1>10. TallyInv' /\ ClaimedInv'
  BY <1>1, AtHand DEF IInv, TallyInv, Explained, ClaimedInv
<1>11. UncalledInv'
  BY <1>1, <1>2, <1>3, <1>7, AtHand DEF UncalledInv, Uncalled, DoneWa, DoneEmail
<1>12. CountInv'
  <2>1. /\ message[job].whatsapp = FALSE => count' = count
        /\ message[job].whatsapp =>
              count'.sent + count'.failed = count.sent + count.failed + 1
        /\ count'.emailSent = count.emailSent /\ count'.emailFailed = count.emailFailed
    BY <1>1, AtHand DEF SendWhatsapp, CountFailure, TallyType
  <2>2. message[job].whatsapp \in BOOLEAN
    BY <1>1, AtHand DEF IInv, TypeOK, RowsType
  <2> QED
    BY <1>1, <1>2, <2>1, <2>2, AtHand DEF CountInv, Explained, DoneWa, DoneEmail, TallyType
<1> QED
  BY <1>8, <1>9, <1>10, <1>11, <1>12 DEF IInv

\* An e-mail attempt calls the recipient at the cursor, uncalled before, and adds one to
\* one counter.
LEMMA SendEmailIInv ==
    ASSUME IInv, TypeOK', SendEmail
    PROVE  IInv'
<1>1. /\ pc = "email" /\ pc' = "result"
      /\ UNCHANGED <<message, status, tally, waCalls, job>>
  BY DEF SendEmail, rows
<1>2. count'.cursor = count.cursor /\ Current' = Current
  BY <1>1, AtHand DEF SendEmail, Current, TallyType
<1>3. \A j \in Jobs : Total(j)' = Total(j)
  BY <1>1 DEF Total
<1>4. emailCalls[job] \in [1..Total(job) -> Nat]
  BY <1>1, AtHand DEF IInv, TypeOK, HistoryType
<1>5. \A k \in 1..Total(job) : emailCalls[job][k] <= 1 /\ (k >= Current => emailCalls[job][k] = 0)
  <2>1. Current + DoneEmail = Current
    BY <1>1, AtHand DEF DoneEmail
  <2>2. \A k \in 1..Total(job) : k >= Current => emailCalls[job][k] = 0
    BY <1>1, <2>1, AtHand DEF Uncalled
  <2>3. \A k \in 1..Total(job) : emailCalls[job][k] <= 1
    BY <1>1, AtHand DEF IInv, AtMostOncePerRecipient
  <2> QED
    BY <2>2, <2>3
<1>6. \/ emailCalls' = emailCalls
      \/ emailCalls' = [emailCalls EXCEPT ![job] = [emailCalls[job] EXCEPT ![Current] = @ + 1]]
  BY DEF SendEmail
<1>7. /\ \A j \in Jobs \ {job} : emailCalls'[j] = emailCalls[j]
      /\ DOMAIN emailCalls'[job] = 1..Total(job)
      /\ \A k \in 1..Total(job) :
            emailCalls'[job][k] <= 1 /\ (k >= Current + 1 => emailCalls'[job][k] = 0)
  <2>1. DOMAIN emailCalls = Jobs /\ job \in Jobs /\ Current \in Nat
    BY <1>1, AtHand DEF IInv, TypeOK, HistoryType
  <2>2. CASE emailCalls' = emailCalls
    BY <1>4, <1>5, <2>1, <2>2
  <2>3. CASE emailCalls' = [emailCalls EXCEPT ![job] = [emailCalls[job] EXCEPT ![Current] = @ + 1]]
    <3>1. emailCalls'[job] = [emailCalls[job] EXCEPT ![Current] = @ + 1]
      BY <2>1, <2>3
    <3> QED
      BY <1>4, <1>5, <2>1, <2>3, <3>1, FirstCall
  <2> QED
    BY <1>6, <2>2, <2>3
<1>8. FreshInv'
  BY <1>1, <1>3, <1>7, AtHand DEF IInv, FreshInv, Fresh
<1>9. AtMostOncePerRecipient'
  <2>1. ASSUME NEW j \in Jobs
        PROVE  \A n \in DOMAIN emailCalls'[j] : emailCalls'[j][n] <= 1
    BY <1>7, <2>1 DEF IInv, AtMostOncePerRecipient
  <2> QED
    BY <1>1, <2>1 DEF IInv, AtMostOncePerRecipient
<1>10. TallyInv' /\ ClaimedInv'
  BY <1>1, AtHand DEF IInv, TallyInv, Explained, ClaimedInv
<1>11. UncalledInv'
  BY <1>1, <1>2, <1>3, <1>7, AtHand DEF UncalledInv, Uncalled, DoneWa, DoneEmail
<1>12. CountInv'
  <2>1. /\ message[job].email = FALSE => count' = count
        /\ message[job].email =>
              count'.emailSent + count'.emailFailed = count.emailSent + count.emailFailed + 1
        /\ count'.sent = count.sent /\ count'.failed = count.failed
    BY <1>1, AtHand DEF SendEmail, TallyType
  <2>2. message[job].email \in BOOLEAN
    BY <1>1, AtHand DEF IInv, TypeOK, RowsType
  <2> QED
    BY <1>1, <1>2, <2>1, <2>2, AtHand DEF CountInv, Explained, DoneWa, DoneEmail, TallyType
<1> QED
  BY <1>8, <1>9, <1>10, <1>11, <1>12 DEF IInv

\* updateProgress moves the cursor past the recipient called, and the row takes agreeing
\* counters or stays.
LEMMA SaveProgressIInv ==
    ASSUME IInv, TypeOK', SaveProgress
    PROVE  IInv'
<1>1. /\ pc = "progress" /\ pc' \in {"check", "finalize"}
      /\ UNCHANGED <<message, status, waCalls, emailCalls, job>>
      /\ count' = ProgressPatch
      /\ tally' = tally \/ tally' = [tally EXCEPT ![job] = ProgressPatch]
  BY DEF SaveProgress, history, ProgressPatch
<1>2. /\ count'.cursor = count.cursor + 1 /\ count'.sent = count.sent
      /\ count'.failed = count.failed /\ count'.emailSent = count.emailSent
      /\ count'.emailFailed = count.emailFailed
  BY <1>1, AtHand DEF ProgressPatch, TallyType
<1>3. /\ DoneWa = 1 /\ DoneEmail = 1 /\ DoneWa' = 0 /\ DoneEmail' = 0
      /\ Current' = Current + 1
  BY <1>1, <1>2 DEF DoneWa, DoneEmail, Current
<1>4. Explained(count, job, 0, 0)'
  BY <1>1, <1>2, <1>3, AtHand DEF Explained, TallyType
<1>5. \A j \in Jobs : tally'[j] = tally[j] \/ (j = job /\ tally'[j] = count')
  BY <1>1, AtHand DEF IInv, TypeOK, RowsType
<1>6. FreshInv'
  <2>1. \A j \in Jobs : status'[j] \in NeverClaimed =>
           status[j] \in NeverClaimed /\ tally'[j] = tally[j]
    BY <1>1, <1>5, AtHand
  <2> QED
    BY <1>1, <2>1 DEF IInv, FreshInv, Fresh, Total
<1>7. AtMostOncePerRecipient'
  BY <1>1 DEF IInv, AtMostOncePerRecipient
<1>8. TallyInv'
  BY <1>1, <1>4, <1>5 DEF IInv, TallyInv, Explained
<1>9. ClaimedInv'
  BY <1>1, AtHand DEF ClaimedInv
<1>10. UncalledInv'
  <2>1. Current' + DoneWa' = Current + DoneWa /\ Current' + DoneEmail' = Current + DoneEmail
    BY <1>1, <1>3, AtHand
  <2> QED
    BY <1>1, <2>1, AtHand DEF UncalledInv, Uncalled, Total
<1>11. CountInv'
  BY <1>3, <1>4 DEF CountInv
<1> QED
  BY <1>6, <1>7, <1>8, <1>9, <1>10, <1>11 DEF IInv

\* Every step keeps IInv.
LEMMA NextIInv ==
    ASSUME IInv, [Next]_vars
    PROVE  IInv'
<1>1. TypeOK'
  BY NextTypeOK DEF IInv
<1>2. ASSUME NEW j \in Jobs, NEW r \in Requests, CreateJob(j, r)
      PROVE  IInv'
  BY <1>1, <1>2, CreateIInv
<1>3. ASSUME NEW j \in Jobs, CancelRead(j)
      PROVE  IInv'
  BY <1>1, <1>3, Aside DEF CancelRead, rows, worker, history
<1>4. ASSUME NEW j \in Jobs, NEW read \in {"pending", "running"}, CancelWrite(j, read)
      PROVE  IInv'
  <2>1. \A k \in Jobs : status'[k] = status[k] \/ status'[k] \notin NeverClaimed
    BY <1>4 DEF CancelWrite, NeverClaimed, IInv, TypeOK, RowsType
  <2> QED
    BY <1>1, <1>4, <2>1, Aside DEF CancelWrite, worker, history
<1>5. CASE RunKick
  <2>1. pc' \notin InJob \/ pc' = pc
    BY <1>5 DEF RunKick, InJob
  <2> QED
    BY <1>1, <1>5, <2>1, Aside DEF RunKick, rows, history
<1>6. CASE CheckTail
  BY <1>1, <1>6, Aside DEF CheckTail, rows, worker, history
<1>7. CASE FindNext
  <2>1. pc' \notin InJob
    BY <1>7 DEF FindNext, LeaveLoop, InJob
  <2> QED
    BY <1>1, <1>7, <2>1, Aside DEF FindNext, rows, history
<1>8. CASE Claim
  BY <1>1, <1>8, ClaimIInv
<1>9. CASE CheckCancelled
  BY <1>1, <1>9, CheckIInv
<1>10. CASE StopJob
  <2>1. \A k \in Jobs : status'[k] = status[k] \/ status'[k] \notin NeverClaimed
    BY <1>10 DEF StopJob, NeverClaimed, IInv, TypeOK, RowsType
  <2> QED
    BY <1>1, <1>10, <2>1, Leaving DEF StopJob, history
<1>11. CASE SendWhatsapp
  BY <1>1, <1>11, SendWhatsappIInv
<1>12. CASE SendEmail
  BY <1>1, <1>12, SendEmailIInv
<1>13. CASE SaveResult
  BY <1>1, <1>13, SaveResultIInv
<1>14. CASE SaveProgress
  BY <1>1, <1>14, SaveProgressIInv
<1>15. CASE Finalize
  <2>1. \A k \in Jobs : status'[k] = status[k] \/ status'[k] \notin NeverClaimed
    BY <1>15 DEF Finalize, NeverClaimed, IInv, TypeOK, RowsType
  <2> QED
    BY <1>1, <1>15, <2>1, Leaving DEF Finalize, history
<1>16. CASE Crash
  <2>1. pc' \notin InJob
    BY <1>16 DEF Crash, InJob
  <2> QED
    BY <1>1, <1>16, <2>1, Aside DEF Crash, rows, history
<1>17. CASE Boot
  <2>1. \A k \in Jobs : status'[k] = status[k] \/ status'[k] \notin NeverClaimed
    BY <1>17 DEF Boot, AfterBoot, NeverClaimed
  <2> QED
    BY <1>1, <1>17, <2>1, Aside DEF Boot, worker, history
<1>18. CASE UNCHANGED vars
  BY <1>1, <1>18, Aside DEF vars, rows, worker, history
<1> QED
  BY <1>2, <1>3, <1>4, <1>5, <1>6, <1>7, <1>8, <1>9, <1>10, <1>11, <1>12, <1>13, <1>14,
     <1>15, <1>16, <1>17, <1>18 DEF Next, Worker

(***************************************************************************)
(* Nobody is contacted twice by a job on one channel: the worker calls the *)
(* recipient at its cursor, a row is claimed at most once in its life, and *)
(* neither cancel, boot nor a lost write makes it claimable again.         *)
(***************************************************************************)
THEOREM AtMostOnce == Spec => []AtMostOncePerRecipient
<1>1. IInv => AtMostOncePerRecipient
  BY DEF IInv
<1> QED
  BY <1>1, InitIInv, NextIInv, PTL DEF Spec

(***************************************************************************)
(* The counters of a row add up to its cursor on every channel in use, in  *)
(* every state and whatever writes are lost.                               *)
(***************************************************************************)
THEOREM CountersExact == Spec => []CountersMatchCursor
<1>1. IInv => CountersMatchCursor
  <2> SUFFICES ASSUME IInv, NEW j \in Jobs
               PROVE  /\ tally[j].sent + tally[j].failed =
                            IF message[j].whatsapp THEN tally[j].cursor ELSE 0
                      /\ tally[j].emailSent + tally[j].emailFailed =
                            IF message[j].email THEN tally[j].cursor ELSE 0
    BY DEF CountersMatchCursor
  <2>1. tally[j].cursor + 0 = tally[j].cursor
    <3>1. tally[j] \in TallyType
      BY DEF IInv, TypeOK, RowsType
    <3> QED
      BY <3>1 DEF TallyType
  <2> QED
    BY <2>1 DEF IInv, TallyInv, Explained
<1> QED
  BY <1>1, InitIInv, NextIInv, PTL DEF Spec

----------------------------------------------------------------------------
(* How far a job has gone, and the promise *)

Contacting == {"whatsapp", "email", "result", "progress"}

\* The row the worker holds is running, or was cancelled under it.
HeldInv ==
    /\ ~Up => pc = "idle"
    /\ pc \in InJob => status[job] \in {"running", "cancelled"}
    /\ pc = "stop" => status[job] = "cancelled"

\* The recipients turned to are those up to the worker's cursor, and the one at hand.
BegunInv ==
    /\ \A j \in Jobs : status[j] \in NeverClaimed => begun[j] = 0
    /\ pc \in {"check", "stop"} => begun[job] = count.cursor /\ count.cursor < Total(job)
    /\ pc \in Contacting => begun[job] = Current /\ count.cursor < Total(job)
    /\ pc = "finalize" => begun[job] = count.cursor /\ count.cursor = Total(job)

\* What is stored never runs ahead of the worker.
LagInv == \A j \in Jobs : tally[j].cursor <= begun[j]

PInv == IInv /\ HeldInv /\ BegunInv /\ LagInv

\* What is known of the job in hand.
LEMMA InHand ==
    ASSUME PInv, pc \in InJob
    PROVE  /\ job \in Jobs /\ status[job] \in {"running", "cancelled"}
           /\ count \in TallyType /\ count.cursor \in Nat /\ Current = count.cursor + 1
           /\ Total(job) \in Nat
           /\ tally \in [Jobs -> TallyType] /\ tally[job].cursor \in Nat
           /\ begun \in [Jobs -> Nat] /\ status \in [Jobs -> Statuses \cup {"absent"}]
           /\ message \in [Jobs -> [to : Seq(Contact), whatsapp : BOOLEAN, email : BOOLEAN]]
<1>1. /\ job \in Jobs /\ count \in TallyType /\ tally \in [Jobs -> TallyType]
      /\ begun \in [Jobs -> Nat] /\ status \in [Jobs -> Statuses \cup {"absent"}]
      /\ message \in [Jobs -> [to : Seq(Contact), whatsapp : BOOLEAN, email : BOOLEAN]]
  BY DEF PInv, IInv, TypeOK, RowsType, WorkerType, HistoryType, InJob
<1> QED
  BY <1>1 DEF PInv, HeldInv, TallyType, Current, Total

\* Every step keeps what is known of the progress of a job.
LEMMA NextPInv ==
    ASSUME PInv, [Next]_vars
    PROVE  PInv'
<1> USE DEF TypeOK, RowsType, WorkerType, InJob, Statuses
<1>1. IInv' /\ TypeOK' /\ TypeOK
  BY NextIInv DEF PInv, IInv
<1>10. ASSUME NEW j \in Jobs, NEW r \in Requests, CreateJob(j, r)
      PROVE  PInv'
  <2>1. HeldInv'
    BY <1>10, <1>1 DEF HeldInv, PInv, Up, CreateJob, worker, bounds
  <2>2. BegunInv'
    BY <1>10, <1>1 DEF BegunInv, PInv, HeldInv, IInv, ClaimedInv, FreshInv, Fresh,
       ZeroTally, NeverClaimed, Contacting, Current, Total, TallyType, HistoryType,
       CreateJob, worker, bounds
  <2>3. LagInv'
    BY <1>10, <1>1 DEF LagInv, PInv, BegunInv, TallyType, HistoryType, Current,
       Contacting, CreateJob, worker, bounds
  <2> QED
    BY <1>1, <2>1, <2>2, <2>3 DEF PInv
<1>11. ASSUME NEW j \in Jobs, CancelRead(j)
      PROVE  PInv'
  <2>1. HeldInv'
    BY <1>11, <1>1 DEF HeldInv, PInv, Up, CancelRead, rows, queue, worker, bounds,
       history
  <2>2. BegunInv'
    BY <1>11, <1>1 DEF BegunInv, PInv, HeldInv, IInv, ClaimedInv, FreshInv, Fresh,
       ZeroTally, NeverClaimed, Contacting, Current, Total, TallyType, HistoryType,
       CancelRead, rows, queue, worker, bounds, history
  <2>3. LagInv'
    BY <1>11, <1>1 DEF LagInv, PInv, BegunInv, TallyType, HistoryType, Current,
       Contacting, CancelRead, rows, queue, worker, bounds, history
  <2> QED
    BY <1>1, <2>1, <2>2, <2>3 DEF PInv
<1>12. ASSUME NEW j \in Jobs, NEW read \in {"pending", "running"}, CancelWrite(j, read)
      PROVE  PInv'
  <2>1. HeldInv'
    BY <1>12, <1>1 DEF HeldInv, PInv, Up, CancelWrite, queue, worker, history,
       Cancellable, Answers, Fails
  <2>2. BegunInv'
    BY <1>12, <1>1 DEF BegunInv, PInv, HeldInv, IInv, ClaimedInv, FreshInv, Fresh,
       ZeroTally, NeverClaimed, Contacting, Current, Total, TallyType, HistoryType,
       CancelWrite, queue, worker, history, Cancellable, Answers, Fails
  <2>3. LagInv'
    BY <1>12, <1>1 DEF LagInv, PInv, BegunInv, TallyType, HistoryType, Current,
       Contacting, CancelWrite, queue, worker, history, Cancellable, Answers, Fails
  <2> QED
    BY <1>1, <2>1, <2>2, <2>3 DEF PInv
<1>13. CASE RunKick
  <2>1. HeldInv'
    BY <1>13, <1>1 DEF HeldInv, PInv, Up, RunKick, rows, bounds, history
  <2>2. BegunInv'
    BY <1>13, <1>1 DEF BegunInv, PInv, HeldInv, IInv, ClaimedInv, FreshInv, Fresh,
       ZeroTally, NeverClaimed, Contacting, Current, Total, TallyType, HistoryType,
       RunKick, rows, bounds, history
  <2>3. LagInv'
    BY <1>13, <1>1 DEF LagInv, PInv, BegunInv, TallyType, HistoryType, Current,
       Contacting, RunKick, rows, bounds, history
  <2> QED
    BY <1>1, <2>1, <2>2, <2>3 DEF PInv
<1>14. CASE CheckTail
  <2>1. HeldInv'
    BY <1>14, <1>1 DEF HeldInv, PInv, Up, CheckTail, rows, worker, history, Answers,
       Fails
  <2>2. BegunInv'
    BY <1>14, <1>1 DEF BegunInv, PInv, HeldInv, IInv, ClaimedInv, FreshInv, Fresh,
       ZeroTally, NeverClaimed, Contacting, Current, Total, TallyType, HistoryType,
       CheckTail, rows, worker, history, Answers, Fails
  <2>3. LagInv'
    BY <1>14, <1>1 DEF LagInv, PInv, BegunInv, TallyType, HistoryType, Current,
       Contacting, CheckTail, rows, worker, history, Answers, Fails
  <2> QED
    BY <1>1, <2>1, <2>2, <2>3 DEF PInv
<1>15. CASE FindNext
  <2>1. HeldInv'
    BY <1>15, <1>1 DEF HeldInv, PInv, Up, FindNext, rows, history, LeaveLoop, Answers,
       Fails
  <2>2. BegunInv'
    BY <1>15, <1>1 DEF BegunInv, PInv, HeldInv, IInv, ClaimedInv, FreshInv, Fresh,
       ZeroTally, NeverClaimed, Contacting, Current, Total, TallyType, HistoryType,
       FindNext, rows, history, LeaveLoop, Answers, Fails
  <2>3. LagInv'
    BY <1>15, <1>1 DEF LagInv, PInv, BegunInv, TallyType, HistoryType, Current,
       Contacting, FindNext, rows, history, LeaveLoop, Answers, Fails
  <2> QED
    BY <1>1, <2>1, <2>2, <2>3 DEF PInv
<1>16. CASE Claim
  <2>1. HeldInv'
    BY <1>16, <1>1 DEF HeldInv, PInv, Up, Claim, history, LeaveLoop, Answers, Fails
  <2>2. BegunInv'
    <3>1. CASE LeaveLoop /\ UNCHANGED status
      BY <1>16, <3>1 DEF PInv, BegunInv, Claim, LeaveLoop, Contacting, history
    <3>2. CASE /\ status[job] = "pending" /\ status' = [status EXCEPT ![job] = "running"]
               /\ count' = tally[job] /\ job' = job
               /\ pc' = IF tally[job].cursor < Total(job) THEN "check" ELSE "finalize"
      <4>1. job \in Jobs /\ UNCHANGED <<message, begun>> /\ Total(job)' = Total(job)
        BY <1>16, <3>2, <1>1 DEF Claim, history, Total
      <4>2. tally[job] = ZeroTally /\ begun[job] = 0
        BY <3>2, <4>1 DEF PInv, BegunInv, IInv, FreshInv, Fresh, NeverClaimed
      <4>3. tally[job].cursor = 0
        BY <4>2 DEF ZeroTally
      <4>5. message[job] \in [to : Seq(Contact), whatsapp : BOOLEAN, email : BOOLEAN]
        BY <1>1, <4>1
      <4>6. Total(job) \in Nat
        BY <4>5 DEF Total
      <4>4. \A j \in Jobs : status'[j] \in NeverClaimed => status[j] \in NeverClaimed
        BY <1>1, <3>2, <4>1 DEF NeverClaimed
      <4> QED
        BY <3>2, <4>1, <4>2, <4>3, <4>4, <4>6 DEF PInv, BegunInv, Contacting, Current
    <3> QED
      BY <1>16, <3>1, <3>2 DEF Claim
  <2>3. LagInv'
    BY <1>16, <1>1 DEF LagInv, PInv, BegunInv, TallyType, HistoryType, Current,
       Contacting, Claim, history, LeaveLoop, Answers, Fails
  <2> QED
    BY <1>1, <2>1, <2>2, <2>3 DEF PInv
<1>17. CASE CheckCancelled
  <2>1. HeldInv'
    BY <1>17, <1>1 DEF HeldInv, PInv, Up, CheckCancelled, rows, queue, CancelSeen,
       Answers, Fails
  <2>2. BegunInv'
    <3>1. /\ UNCHANGED <<status, job, count, message>> /\ pc = "check"
          /\ \/ pc' = "stop" /\ UNCHANGED begun
             \/ pc' = "whatsapp" /\ begun' = [begun EXCEPT ![job] = Current]
      BY <1>17 DEF CheckCancelled, rows
    <3>2. begun[job] = count.cursor /\ count.cursor < Total(job)
      BY <3>1 DEF PInv, BegunInv
    <3>3. /\ job \in Jobs /\ status[job] \notin NeverClaimed
          /\ begun \in [Jobs -> Nat] /\ Total(job)' = Total(job) /\ Current' = Current
      BY <3>1, InHand DEF InJob, NeverClaimed, Total, Current
    <3>4. \A j \in Jobs : j # job => begun'[j] = begun[j]
      BY <3>1, <3>3
    <3>5. \A j \in Jobs : status'[j] \in NeverClaimed => begun'[j] = 0
      BY <3>1, <3>3, <3>4 DEF PInv, BegunInv
    <3>6. pc' = "stop" => begun'[job'] = count'.cursor /\ count'.cursor < Total(job)'
      BY <3>1, <3>2, <3>3
    <3>7. pc' = "whatsapp" => begun'[job'] = Current' /\ count'.cursor < Total(job)'
      BY <3>1, <3>2, <3>3
    <3> QED
      BY <3>1, <3>5, <3>6, <3>7 DEF BegunInv, Contacting, Total
  <2>3. LagInv'
    <3>1. /\ tally' = tally /\ pc = "check"
          /\ begun' = begun \/ begun' = [begun EXCEPT ![job] = Current]
      BY <1>17 DEF CheckCancelled, rows
    <3>2. begun[job] = count.cursor /\ Current = count.cursor + 1 /\ count.cursor \in Nat
      BY <3>1, InHand DEF PInv, BegunInv
    <3>3. \A j \in Jobs : begun'[j] = begun[j] \/ (j = job /\ begun'[j] = begun[j] + 1)
      BY <3>1, <3>2, InHand
    <3>4. \A j \in Jobs : tally[j].cursor \in Nat /\ begun[j] \in Nat
      BY <1>1 DEF HistoryType, TallyType
    <3> QED
      BY <3>1, <3>3, <3>4 DEF PInv, LagInv
  <2> QED
    BY <1>1, <2>1, <2>2, <2>3 DEF PInv
<1>18. CASE StopJob
  <2>1. HeldInv'
    BY <1>18, <1>1 DEF HeldInv, PInv, Up, StopJob, queue, history, Answers, Fails
  <2>2. BegunInv'
    BY <1>18, <1>1 DEF BegunInv, PInv, HeldInv, IInv, ClaimedInv, FreshInv, Fresh,
       ZeroTally, NeverClaimed, Contacting, Current, Total, TallyType, HistoryType,
       StopJob, queue, history, Answers, Fails
  <2>3. LagInv'
    <3>1. /\ begun' = begun /\ pc \in {"stop", "finalize"}
          /\ tally' = tally \/ tally' = [tally EXCEPT ![job] = count]
      BY <1>18 DEF StopJob, history
    <3>2. begun[job] = count.cursor /\ count.cursor \in Nat
      BY <3>1, InHand DEF PInv, BegunInv
    <3>3. \A j \in Jobs : tally'[j].cursor = tally[j].cursor
                         \/ (j = job /\ tally'[j].cursor = count.cursor)
      BY <1>1, <3>1
    <3> QED
      BY <3>1, <3>2, <3>3 DEF PInv, LagInv
  <2> QED
    BY <1>1, <2>1, <2>2, <2>3 DEF PInv
<1>19. CASE SendWhatsapp
  <2>1. HeldInv'
    BY <1>19, <1>1 DEF HeldInv, PInv, Up, SendWhatsapp, rows, queue, bounds,
       CountFailure
  <2>2. BegunInv'
    <3>1. /\ UNCHANGED <<status, message, begun, job>> /\ pc \in Contacting
          /\ pc' \in Contacting /\ count'.cursor = count.cursor
      BY <1>19, <1>1, InHand DEF SendWhatsapp, rows, bounds, CountFailure, Contacting,
         TallyType
    <3> QED
      BY <3>1, InHand DEF PInv, BegunInv, Contacting, Current, Total
  <2>3. LagInv'
    BY <1>19, <1>1 DEF LagInv, PInv, BegunInv, TallyType, HistoryType, Current,
       Contacting, SendWhatsapp, rows, queue, bounds, CountFailure
  <2> QED
    BY <1>1, <2>1, <2>2, <2>3 DEF PInv
<1>20. CASE SendEmail
  <2>1. HeldInv'
    BY <1>20, <1>1 DEF HeldInv, PInv, Up, SendEmail, rows, queue, bounds
  <2>2. BegunInv'
    <3>1. /\ UNCHANGED <<status, message, begun, job>> /\ pc \in Contacting
          /\ pc' \in Contacting /\ count'.cursor = count.cursor
      BY <1>20, <1>1, InHand DEF SendEmail, rows, bounds, CountFailure, Contacting,
         TallyType
    <3> QED
      BY <3>1, InHand DEF PInv, BegunInv, Contacting, Current, Total
  <2>3. LagInv'
    BY <1>20, <1>1 DEF LagInv, PInv, BegunInv, TallyType, HistoryType, Current,
       Contacting, SendEmail, rows, queue, bounds
  <2> QED
    BY <1>1, <2>1, <2>2, <2>3 DEF PInv
<1>21. CASE SaveResult
  <2>1. HeldInv'
    BY <1>21, <1>1 DEF HeldInv, PInv, Up, SaveResult, queue, history, Answers, Fails
  <2>2. BegunInv'
    BY <1>21, <1>1 DEF BegunInv, PInv, HeldInv, IInv, ClaimedInv, FreshInv, Fresh,
       ZeroTally, NeverClaimed, Contacting, Current, Total, TallyType, HistoryType,
       SaveResult, queue, history, Answers, Fails
  <2>3. LagInv'
    BY <1>21, <1>1 DEF LagInv, PInv, BegunInv, TallyType, HistoryType, Current,
       Contacting, SaveResult, queue, history, Answers, Fails
  <2> QED
    BY <1>1, <2>1, <2>2, <2>3 DEF PInv
<1>22. CASE SaveProgress
  <2>1. HeldInv'
    BY <1>22, <1>1 DEF HeldInv, PInv, Up, SaveProgress, queue, history, ProgressPatch,
       Answers, Fails
  <2>2. BegunInv'
    <3>1. /\ UNCHANGED <<status, message, begun, job>> /\ pc = "progress"
          /\ count'.cursor = count.cursor + 1
          /\ pc' = IF count.cursor + 1 < Total(job) THEN "check" ELSE "finalize"
      BY <1>22, InHand DEF SaveProgress, history, TallyType
    <3> QED
      BY <3>1, InHand DEF PInv, BegunInv, Contacting, Current, Total
  <2>3. LagInv'
    <3>1. /\ begun' = begun /\ pc = "progress"
          /\ tally' = tally \/ tally' = [tally EXCEPT ![job] = ProgressPatch]
          /\ ProgressPatch.cursor = count.cursor + 1
      BY <1>22, InHand DEF SaveProgress, history, ProgressPatch, TallyType
    <3>2. begun[job] = count.cursor + 1 /\ count.cursor \in Nat
      BY <3>1, InHand DEF PInv, BegunInv, Contacting
    <3>3. \A j \in Jobs : tally'[j].cursor = tally[j].cursor
                         \/ (j = job /\ tally'[j].cursor = count.cursor + 1)
      BY <1>1, <3>1
    <3> QED
      BY <3>1, <3>2, <3>3 DEF PInv, LagInv
  <2> QED
    BY <1>1, <2>1, <2>2, <2>3 DEF PInv
<1>23. CASE Finalize
  <2>1. HeldInv'
    BY <1>23, <1>1 DEF HeldInv, PInv, Up, Finalize, queue, history, Answers, Fails
  <2>2. BegunInv'
    BY <1>23, <1>1 DEF BegunInv, PInv, HeldInv, IInv, ClaimedInv, FreshInv, Fresh,
       ZeroTally, NeverClaimed, Contacting, Current, Total, TallyType, HistoryType,
       Finalize, queue, history, Answers, Fails
  <2>3. LagInv'
    <3>1. /\ begun' = begun /\ pc \in {"stop", "finalize"}
          /\ tally' = tally \/ tally' = [tally EXCEPT ![job] = count]
      BY <1>23 DEF Finalize, history
    <3>2. begun[job] = count.cursor /\ count.cursor \in Nat
      BY <3>1, InHand DEF PInv, BegunInv
    <3>3. \A j \in Jobs : tally'[j].cursor = tally[j].cursor
                         \/ (j = job /\ tally'[j].cursor = count.cursor)
      BY <1>1, <3>1
    <3> QED
      BY <3>1, <3>2, <3>3 DEF PInv, LagInv
  <2> QED
    BY <1>1, <2>1, <2>2, <2>3 DEF PInv
<1>24. CASE Crash
  <2>1. HeldInv'
    BY <1>24, <1>1 DEF HeldInv, PInv, Up, Crash, rows, history
  <2>2. BegunInv'
    BY <1>24, <1>1 DEF BegunInv, PInv, HeldInv, IInv, ClaimedInv, FreshInv, Fresh,
       ZeroTally, NeverClaimed, Contacting, Current, Total, TallyType, HistoryType,
       Crash, rows, history
  <2>3. LagInv'
    BY <1>24, <1>1 DEF LagInv, PInv, BegunInv, TallyType, HistoryType, Current,
       Contacting, Crash, rows, history
  <2> QED
    BY <1>1, <2>1, <2>2, <2>3 DEF PInv
<1>25. CASE Boot
  <2>1. HeldInv'
    BY <1>25, <1>1 DEF HeldInv, PInv, Up, Boot, worker, history, AfterBoot, Answers,
       Fails
  <2>2. BegunInv'
    <3>1. /\ pc' = "idle" /\ UNCHANGED <<begun, message>>
          /\ \A j \in Jobs : status'[j] \in NeverClaimed => status[j] \in NeverClaimed
      BY <1>25 DEF Boot, worker, history, AfterBoot, NeverClaimed, PInv, HeldInv, Up
    <3> QED
      BY <3>1 DEF PInv, BegunInv, Contacting
  <2>3. LagInv'
    BY <1>25, <1>1 DEF LagInv, PInv, BegunInv, TallyType, HistoryType, Current,
       Contacting, Boot, worker, history, AfterBoot, Answers, Fails
  <2> QED
    BY <1>1, <2>1, <2>2, <2>3 DEF PInv
<1>26. CASE UNCHANGED vars
  <2>1. HeldInv'
    BY <1>26, <1>1 DEF HeldInv, PInv, Up, vars, rows, queue, worker, bounds, history
  <2>2. BegunInv'
    BY <1>26, <1>1 DEF BegunInv, PInv, HeldInv, IInv, ClaimedInv, FreshInv, Fresh,
       ZeroTally, NeverClaimed, Contacting, Current, Total, TallyType, HistoryType,
       vars, rows, queue, worker, bounds, history
  <2>3. LagInv'
    BY <1>26, <1>1 DEF LagInv, PInv, BegunInv, TallyType, HistoryType, Current,
       Contacting, vars, rows, queue, worker, bounds, history
  <2> QED
    BY <1>1, <2>1, <2>2, <2>3 DEF PInv
<1> QED
  BY <1>10, <1>11, <1>12, <1>13, <1>14, <1>15, <1>16, <1>17, <1>18, <1>19, <1>20, <1>21,
     <1>22, <1>23, <1>24, <1>25, <1>26 DEF Next, Worker
\* Before any job exists nothing has been turned to.
LEMMA InitPInv == Init => PInv
<1> SUFFICES ASSUME Init PROVE PInv
  OBVIOUS
<1>1. HeldInv /\ BegunInv
  BY DEF Init, HeldInv, BegunInv, Contacting, InJob, Up
<1>2. LagInv
  BY DEF Init, LagInv, ZeroTally
<1> QED
  BY <1>1, <1>2, InitIInv DEF PInv

Sizes == [j \in Jobs |-> Total(j)]

\* A step that leaves status, progress and messages alone is a stutter of the promise.
LEMMA Stutters ==
    ASSUME UNCHANGED <<status, begun, message>>
    PROVE  UNCHANGED Promise!vars
BY DEF Promise!vars, Total

\* createJob is Accept: the list stored is not empty.
LEMMA CreateAccepts ==
    ASSUME PInv, NEW j \in Jobs, NEW r \in Requests, CreateJob(j, r)
    PROVE  Promise!Accept(j)
<1>1. message \in [Jobs -> [to : Seq(Contact), whatsapp : BOOLEAN, email : BOOLEAN]]
  BY DEF PInv, IInv, TypeOK, RowsType
<1>2. Stored(r) \in Seq(Contact) /\ Stored(r) # <<>>
  BY StoredType DEF CreateJob, Accepted
<1>3. Len(Stored(r)) \in Nat \ {0}
  BY <1>2
<1>4. message'[j].to = Stored(r) /\ \A k \in Jobs \ {j} : message'[k] = message[k]
  BY <1>1 DEF CreateJob
<1>5. Sizes'[j] \in Nat \ {0} /\ Sizes' = [Sizes EXCEPT ![j] = Sizes'[j]]
  BY <1>3, <1>4 DEF Sizes, Total
<1>6. /\ status[j] = "absent" /\ status' = [status EXCEPT ![j] = "pending"]
      /\ UNCHANGED begun
  BY DEF CreateJob
<1> QED
  BY <1>5, <1>6 DEF Promise!Accept, Sizes

\* A status read that does not show a cancellation turns to the next recipient: Reach.
LEMMA CheckReaches ==
    ASSUME PInv, CheckCancelled, pc' = "whatsapp"
    PROVE  Promise!Reach(job)
<1>1. /\ pc = "check" /\ begun' = [begun EXCEPT ![job] = Current]
      /\ UNCHANGED <<status, message>>
  BY DEF CheckCancelled, rows
<1>2. /\ job \in Jobs /\ status[job] \in {"running", "cancelled"}
      /\ Current = begun[job] + 1 /\ begun[job] < Total(job) /\ begun \in [Jobs -> Nat]
  BY <1>1, InHand DEF PInv, BegunInv, InJob
<1>3. begun' = [begun EXCEPT ![job] = begun[job] + 1]
  BY <1>1, <1>2
<1>4. UNCHANGED Sizes
  BY <1>1 DEF Sizes, Total
<1> QED
  BY <1>1, <1>2, <1>3, <1>4 DEF Promise!Reach, Sizes

\* Every step is a step of the promise, or a stutter.
LEMMA StepKeepsPromise ==
    ASSUME PInv, [Next]_vars
    PROVE  [Promise!Next]_(Promise!vars)
<1> USE DEF Promise!Next
<1>1. ASSUME NEW j \in Jobs, NEW r \in Requests, CreateJob(j, r)
      PROVE  Promise!Next
  BY <1>1, CreateAccepts
<1>2. ASSUME NEW j \in Jobs, CancelRead(j)
      PROVE  UNCHANGED Promise!vars
  BY <1>2, Stutters DEF CancelRead, rows, history
<1>3. ASSUME NEW j \in Jobs, NEW read \in {"pending", "running"}, CancelWrite(j, read)
      PROVE  [Promise!Next]_(Promise!vars)
  <2>1. CASE Cancellable(j) /\ status' = [status EXCEPT ![j] = "cancelled"]
    <3>1. UNCHANGED begun /\ UNCHANGED Sizes
      BY <1>3 DEF CancelWrite, history, Sizes, Total
    <3> QED
      BY <2>1, <3>1 DEF Cancellable, Promise!Cancel, Sizes
  <2>2. CASE UNCHANGED status
    BY <1>3, <2>2, Stutters DEF CancelWrite, history
  <2> QED
    BY <1>3, <2>1, <2>2 DEF CancelWrite
<1>4. CASE RunKick
  BY <1>4, Stutters DEF RunKick, rows, history
<1>5. CASE CheckTail
  BY <1>5, Stutters DEF CheckTail, rows, history
<1>6. CASE FindNext
  BY <1>6, Stutters DEF FindNext, rows, history
<1>7. CASE Claim
  <2>1. UNCHANGED <<begun, message>> /\ UNCHANGED Sizes /\ job \in Jobs
    BY <1>7 DEF Claim, history, Sizes, Total, PInv, IInv, TypeOK, WorkerType
  <2>2. CASE status[job] = "pending" /\ status' = [status EXCEPT ![job] = "running"]
    BY <2>1, <2>2 DEF Promise!Start, Sizes
  <2>3. CASE UNCHANGED status
    BY <2>1, <2>3, Stutters
  <2> QED
    BY <1>7, <2>2, <2>3 DEF Claim
<1>8. CASE CheckCancelled
  <2>1. CASE pc' = "whatsapp"
    <3>1. job \in Jobs
      BY <1>8 DEF CheckCancelled, PInv, IInv, TypeOK, WorkerType
    <3> QED
      BY <1>8, <2>1, <3>1, CheckReaches
  <2>2. CASE UNCHANGED begun
    BY <1>8, <2>2, Stutters DEF CheckCancelled, rows
  <2> QED
    BY <1>8, <2>1, <2>2 DEF CheckCancelled
<1>9. CASE StopJob
  <2>1. /\ job \in Jobs /\ status[job] = "cancelled"
        /\ status \in [Jobs -> Statuses \cup {"absent"}]
    BY <1>9, InHand DEF StopJob, InJob, PInv, HeldInv
  <2>2. status' = status
    BY <1>9, <2>1 DEF StopJob
  <2> QED
    BY <1>9, <2>2, Stutters DEF StopJob, history
<1>10. CASE SendWhatsapp
  BY <1>10, Stutters DEF SendWhatsapp, rows
<1>11. CASE SendEmail
  BY <1>11, Stutters DEF SendEmail, rows
<1>12. CASE SaveResult
  BY <1>12, Stutters DEF SaveResult, history
<1>13. CASE SaveProgress
  BY <1>13, Stutters DEF SaveProgress, history
<1>14. CASE Finalize
  <2>1. /\ job \in Jobs /\ status[job] \in {"running", "cancelled"}
        /\ begun[job] = Total(job)
    BY <1>14, InHand DEF Finalize, InJob, PInv, BegunInv
  <2>2. UNCHANGED <<begun, message>> /\ UNCHANGED Sizes
    BY <1>14 DEF Finalize, history, Sizes, Total
  <2>3. CASE status' = [status EXCEPT ![job] = "completed"]
    BY <2>1, <2>2, <2>3 DEF Promise!Complete, Sizes
  <2>4. CASE UNCHANGED status
    BY <2>2, <2>4, Stutters
  <2> QED
    BY <1>14, <2>3, <2>4 DEF Finalize
<1>15. CASE Crash
  BY <1>15, Stutters DEF Crash, rows, history
<1>16. CASE Boot
  <2>1. UNCHANGED <<begun, message>> /\ UNCHANGED Sizes
    BY <1>16 DEF Boot, history, Sizes, Total
  <2>2. CASE /\ \E j \in Jobs : status[j] = "running"
             /\ status' = [j \in Jobs |-> AfterBoot(j)]
    BY <2>1, <2>2 DEF Promise!Interrupt, AfterBoot, Sizes
  <2>3. CASE (\A j \in Jobs : status[j] # "running") \/ UNCHANGED status
    <3>1. status \in [Jobs -> Statuses \cup {"absent"}]
      BY DEF PInv, IInv, TypeOK, RowsType
    <3>2. UNCHANGED status
      BY <1>16, <2>3, <3>1 DEF Boot, AfterBoot
    <3> QED
      BY <2>1, <3>2, Stutters
  <2> QED
    BY <1>16, <2>2, <2>3 DEF Boot
<1>17. CASE UNCHANGED vars
  BY <1>17, Stutters DEF vars, rows, history
<1> QED
  BY <1>1, <1>2, <1>3, <1>4, <1>5, <1>6, <1>7, <1>8, <1>9, <1>10, <1>11, <1>12, <1>13,
     <1>14, <1>15, <1>16, <1>17 DEF Next, Worker

(***************************************************************************)
(* The queue with its worker, its failing statements and its restarts      *)
(* implements BroadcastPromise: a job lives the life promised, recipients  *)
(* are turned to one at a time and in order, none after the job is over,   *)
(* and "completed" says that all of them were.                             *)
(***************************************************************************)
THEOREM QueueKeepsPromise == Spec => KeepsPromise
<1>1. Init => Promise!Init
  BY DEF Init, Promise!Init, Total, NoMessage
<1> QED
  BY <1>1, InitPInv, NextPInv, StepKeepsPromise, PTL DEF Spec, KeepsPromise, Promise!Spec


----------------------------------------------------------------------------
(* What the rows say without faults, and what a cancellation stops *)

\* Without faults the row follows the worker write by write.
SavedInv ==
    faults = 0 =>
        /\ pc \in InJob => tally[job].cursor = count.cursor
        /\ \A j \in Jobs : begun[j] <= tally[j].cursor + 1
        /\ \A j \in Jobs : status[j] = "completed" => tally[j].cursor = Total(j)

\* Nobody is contacted late while the row is not cancelled; under a cancelled row
\* the recipient at hand is already paid for, by the last good read of the status
\* or by a read that failed.
LateInv ==
    /\ \A j \in Jobs : IsFiniteSet(late[j])
    /\ \A j \in Jobs : status[j] \in NeverClaimed \cup {"running"} => late[j] = {}
    /\ \A j \in Jobs : Cardinality(late[j]) <= 1 + faults
    /\ pc \in Contacting => Cardinality(late[job] \cup {Current}) <= 1 + faults

QInv == PInv /\ SavedInv /\ RunningIsOwned /\ PendingIsServed /\ LateInv

\* A statement either leaves the count of faults alone or adds one to it.
LEMMA FaultCount ==
    ASSUME TypeOK, Answers \/ Fails
    PROVE  /\ faults \in Nat /\ faults' \in Nat /\ faults <= faults'
           /\ (Answers => faults' = faults)
           /\ (Fails => faults' = faults + 1 /\ faults' # 0)
BY DEF TypeOK, QueueType, Answers, Fails

\* A step that contacts nobody and turns to nobody keeps the count of late contacts.
LEMMA LateFrame ==
    ASSUME TypeOK, LateInv, UNCHANGED late, faults \in Nat, faults' \in Nat, faults <= faults',
           \A j \in Jobs : status'[j] \in NeverClaimed \cup {"running"} =>
                              status[j] \in NeverClaimed \cup {"running"},
           pc' \in Contacting => pc \in Contacting /\ UNCHANGED job /\ Current' = Current
    PROVE  LateInv'
<1>1. \A j \in Jobs : Cardinality(late[j]) \in Nat
  BY FS_CardinalityType DEF LateInv
<1>2. \A j \in Jobs : Cardinality(late[j]) <= 1 + faults'
  BY <1>1 DEF LateInv
<1>3. CASE pc' \notin Contacting
  BY <1>2, <1>3 DEF LateInv
<1>4. CASE pc' \in Contacting
  <2>1. pc \in Contacting /\ job \in Jobs /\ job' = job /\ Current' = Current
    BY <1>4 DEF TypeOK, WorkerType, Contacting
  <2>2. Cardinality(late[job] \cup {Current}) <= 1 + faults
    BY <2>1 DEF LateInv
  <2>3. Cardinality(late[job] \cup {Current}) \in Nat
    BY <2>1, FS_AddElement, FS_CardinalityType DEF LateInv
  <2>4. Cardinality(late[job] \cup {Current}) <= 1 + faults'
    BY <2>2, <2>3
  <2>5. Cardinality(late'[job'] \cup {Current'}) <= 1 + faults'
    BY <2>1, <2>4
  <2> QED
    BY <1>2, <2>5 DEF LateInv
<1> QED
  BY <1>3, <1>4

\* Every step keeps the rows explained and the late contacts counted.
LEMMA NextQInv ==
    ASSUME QInv, [Next]_vars
    PROVE  QInv'
<1> USE DEF TypeOK, RowsType, WorkerType, InJob, Statuses
<1>1. PInv' /\ IInv' /\ IInv /\ TypeOK' /\ TypeOK
  BY NextPInv DEF QInv, PInv, IInv
<1>10. ASSUME NEW j \in Jobs, NEW r \in Requests, CreateJob(j, r)
      PROVE  QInv'
  <2>1. SavedInv'
    BY <1>10, <1>1, FaultCount DEF SavedInv, QInv, PInv, HeldInv, BegunInv, TallyType,
       HistoryType, Current, Contacting, Total, CreateJob, worker, bounds
  <2>2. RunningIsOwned'
    BY <1>10, <1>1, FaultCount DEF RunningIsOwned, QInv, PInv, HeldInv, Up, CreateJob,
       worker, bounds
  <2>3. PendingIsServed'
    <3>1. kicks \in Nat
      BY <1>1 DEF QueueType
    <3>2. kicks' = kicks + 1
      BY <1>10 DEF CreateJob
    <3> QED
      BY <3>1, <3>2 DEF PendingIsServed
  <2>4. LateInv'
    BY <1>10, <1>1, FaultCount DEF LateInv, QInv, PInv, HeldInv, Up, HistoryType,
       Current, Contacting, NeverClaimed, CreateJob, worker, bounds
  <2> QED
    BY <1>1, <2>1, <2>2, <2>3, <2>4 DEF QInv
<1>11. ASSUME NEW j \in Jobs, CancelRead(j)
      PROVE  QInv'
  <2>1. SavedInv'
    BY <1>11, <1>1, FaultCount DEF SavedInv, QInv, PInv, HeldInv, BegunInv, TallyType,
       HistoryType, Current, Contacting, Total, CancelRead, rows, queue, worker, bounds,
       history
  <2>2. RunningIsOwned'
    BY <1>11, <1>1, FaultCount DEF RunningIsOwned, QInv, PInv, HeldInv, Up, CancelRead,
       rows, queue, worker, bounds, history
  <2>3. PendingIsServed'
    BY <1>11, <1>1, FaultCount DEF PendingIsServed, QInv, PInv, HeldInv, Up, QueueType,
       HasPending, CancelRead, rows, queue, worker, bounds, history
  <2>4. LateInv'
    BY <1>11, <1>1, FaultCount DEF LateInv, QInv, PInv, HeldInv, Up, HistoryType,
       Current, Contacting, NeverClaimed, CancelRead, rows, queue, worker, bounds,
       history
  <2> QED
    BY <1>1, <2>1, <2>2, <2>3, <2>4 DEF QInv
<1>12. ASSUME NEW j \in Jobs, NEW read \in {"pending", "running"}, CancelWrite(j, read)
      PROVE  QInv'
  <2>1. SavedInv'
    BY <1>12, <1>1, FaultCount DEF SavedInv, QInv, PInv, HeldInv, BegunInv, TallyType,
       HistoryType, Current, Contacting, Total, CancelWrite, queue, worker, history,
       Cancellable
  <2>2. RunningIsOwned'
    <3>1. /\ UNCHANGED <<pc, job, service>>
          /\ UNCHANGED status \/ status' = [status EXCEPT ![j] = "cancelled"]
      BY <1>12 DEF CancelWrite, worker
    <3>2. \A k \in Jobs : status'[k] = "running" => status[k] = "running"
      BY <1>1, <3>1
    <3>3. faults' = 0 => faults = 0
      <4>1. (Answers \/ Fails) /\ faults \in Nat
        BY <1>12, <1>1 DEF CancelWrite, QueueType
      <4> QED
        BY <4>1 DEF Answers, Fails
    <3> QED
      BY <3>1, <3>2, <3>3 DEF RunningIsOwned, QInv, Up
  <2>3. PendingIsServed'
    BY <1>12, <1>1, FaultCount DEF PendingIsServed, QInv, PInv, HeldInv, Up, QueueType,
       HasPending, CancelWrite, queue, worker, history, Cancellable
  <2>4. LateInv'
    <3>1. (Answers \/ Fails) /\ UNCHANGED late
          /\ (pc' \in Contacting => pc \in Contacting /\ UNCHANGED job /\ Current' = Current)
      BY <1>12 DEF CancelWrite, queue, worker, history, Cancellable, Contacting, Current
    <3>2. \A k \in Jobs : status'[k] \in NeverClaimed \cup {"running"} =>
                              status[k] \in NeverClaimed \cup {"running"}
      BY <1>12, <1>1 DEF CancelWrite, queue, worker, history, Cancellable, NeverClaimed,
         QInv, PInv, HeldInv
    <3> QED
      BY <1>1, <3>1, <3>2, FaultCount, LateFrame DEF QInv
  <2> QED
    BY <1>1, <2>1, <2>2, <2>3, <2>4 DEF QInv
<1>13. CASE RunKick
  <2>1. SavedInv'
    BY <1>13, <1>1, FaultCount DEF SavedInv, QInv, PInv, HeldInv, BegunInv, TallyType,
       HistoryType, Current, Contacting, Total, RunKick, rows, bounds, history
  <2>2. RunningIsOwned'
    BY <1>13, <1>1, FaultCount DEF RunningIsOwned, QInv, PInv, HeldInv, Up, RunKick,
       rows, bounds, history
  <2>3. PendingIsServed'
    BY <1>13, <1>1, FaultCount DEF PendingIsServed, QInv, PInv, HeldInv, Up, QueueType,
       HasPending, RunKick, rows, bounds, history
  <2>4. LateInv'
    BY <1>13, <1>1, FaultCount DEF LateInv, QInv, PInv, HeldInv, Up, HistoryType,
       Current, Contacting, NeverClaimed, RunKick, rows, bounds, history
  <2> QED
    BY <1>1, <2>1, <2>2, <2>3, <2>4 DEF QInv
<1>14. CASE CheckTail
  <2>1. SavedInv'
    BY <1>14, <1>1, FaultCount DEF SavedInv, QInv, PInv, HeldInv, BegunInv, TallyType,
       HistoryType, Current, Contacting, Total, CheckTail, rows, worker, history
  <2>2. RunningIsOwned'
    BY <1>14, <1>1, FaultCount DEF RunningIsOwned, QInv, PInv, HeldInv, Up, CheckTail,
       rows, worker, history
  <2>3. PendingIsServed'
    <3>1. kicks \in Nat /\ UNCHANGED <<status, service, pc>>
      BY <1>14, <1>1 DEF CheckTail, QueueType, rows, worker
    <3>2. CASE kicks' = kicks + 1
      BY <3>1, <3>2 DEF PendingIsServed
    <3>3. CASE ~HasPending
      BY <3>1, <3>3 DEF PendingIsServed, HasPending
    <3>4. CASE Fails
      BY <1>1, <3>4, FaultCount DEF PendingIsServed
    <3> QED
      BY <1>14, <3>2, <3>3, <3>4 DEF CheckTail
  <2>4. LateInv'
    <3>1. (Answers \/ Fails) /\ UNCHANGED late
          /\ (pc' \in Contacting => pc \in Contacting /\ UNCHANGED job /\ Current' = Current)
      BY <1>14 DEF CheckTail, rows, worker, history, Contacting, Current
    <3>2. \A j \in Jobs : status'[j] \in NeverClaimed \cup {"running"} =>
                              status[j] \in NeverClaimed \cup {"running"}
      BY <1>14, <1>1 DEF CheckTail, rows, worker, history, NeverClaimed, QInv, PInv, HeldInv
    <3> QED
      BY <1>1, <3>1, <3>2, FaultCount, LateFrame DEF QInv
  <2> QED
    BY <1>1, <2>1, <2>2, <2>3, <2>4 DEF QInv
<1>15. CASE FindNext
  <2>1. SavedInv'
    BY <1>15, <1>1, FaultCount DEF SavedInv, QInv, PInv, HeldInv, BegunInv, TallyType,
       HistoryType, Current, Contacting, Total, FindNext, rows, history, LeaveLoop
  <2>2. RunningIsOwned'
    BY <1>15, <1>1, FaultCount DEF RunningIsOwned, QInv, PInv, HeldInv, Up, FindNext,
       rows, history, LeaveLoop
  <2>3. PendingIsServed'
    BY <1>15, <1>1, FaultCount DEF PendingIsServed, QInv, PInv, HeldInv, Up, QueueType,
       HasPending, FindNext, rows, history, LeaveLoop
  <2>4. LateInv'
    <3>1. (Answers \/ Fails) /\ UNCHANGED late
          /\ (pc' \in Contacting => pc \in Contacting /\ UNCHANGED job /\ Current' = Current)
      BY <1>15 DEF FindNext, rows, history, LeaveLoop, Contacting, Current
    <3>2. \A j \in Jobs : status'[j] \in NeverClaimed \cup {"running"} =>
                              status[j] \in NeverClaimed \cup {"running"}
      BY <1>15, <1>1 DEF FindNext, rows, history, LeaveLoop, NeverClaimed, QInv, PInv,
         HeldInv
    <3> QED
      BY <1>1, <3>1, <3>2, FaultCount, LateFrame DEF QInv
  <2> QED
    BY <1>1, <2>1, <2>2, <2>3, <2>4 DEF QInv
<1>16. CASE Claim
  <2>1. SavedInv'
    BY <1>16, <1>1, FaultCount DEF SavedInv, QInv, PInv, HeldInv, BegunInv, TallyType,
       HistoryType, Current, Contacting, Total, Claim, history, LeaveLoop
  <2>2. RunningIsOwned'
    <3>1. /\ service' = service /\ job \in Jobs /\ pc \notin InJob /\ (Answers \/ Fails)
          /\ \/ status' = status
             \/ /\ status' = [status EXCEPT ![job] = "running"]
                /\ job' = job /\ pc' \in InJob
      BY <1>16, <1>1 DEF Claim
    <3>2. \A j \in Jobs : status'[j] = status[j] \/ (j = job /\ job' = job /\ pc' \in InJob)
      BY <1>1, <3>1
    <3> QED
      BY <1>1, <3>1, <3>2, FaultCount DEF QInv, RunningIsOwned, Up
  <2>3. PendingIsServed'
    <3>1. tails \in Nat
      BY <1>1 DEF QueueType
    <3>2. tails' = tails + 1 \/ pc' # "idle"
      BY <1>16 DEF Claim, LeaveLoop
    <3> QED
      BY <3>1, <3>2 DEF PendingIsServed
  <2>4. LateInv'
    <3>1. (Answers \/ Fails) /\ UNCHANGED late
          /\ (pc' \in Contacting => pc \in Contacting /\ UNCHANGED job /\ Current' = Current)
      BY <1>16 DEF Claim, history, LeaveLoop, Contacting, Current
    <3>2. \A j \in Jobs : status'[j] \in NeverClaimed \cup {"running"} =>
                              status[j] \in NeverClaimed \cup {"running"}
      BY <1>16, <1>1 DEF Claim, history, LeaveLoop, NeverClaimed, QInv, PInv, HeldInv
    <3> QED
      BY <1>1, <3>1, <3>2, FaultCount, LateFrame DEF QInv
  <2> QED
    BY <1>1, <2>1, <2>2, <2>3, <2>4 DEF QInv
<1>17. CASE CheckCancelled
  <2>1. SavedInv'
    <3>1. /\ UNCHANGED <<status, tally, message, job, count>> /\ pc = "check"
          /\ begun' = begun \/ begun' = [begun EXCEPT ![job] = Current]
          /\ Answers \/ Fails
      BY <1>17 DEF CheckCancelled, rows
    <3>2. \A j \in Jobs : begun'[j] = begun[j] \/ (j = job /\ begun'[j] = count.cursor + 1)
      BY <3>1, InHand DEF QInv
    <3>3. faults' = 0 => faults = 0
      BY <1>1, <3>1, FaultCount
    <3>4. /\ job \in Jobs /\ tally[job].cursor \in Nat
          /\ faults = 0 => tally[job].cursor = count.cursor
      BY <3>1, InHand DEF QInv, SavedInv
    <3> QED
      BY <3>1, <3>2, <3>3, <3>4 DEF QInv, SavedInv, Total
  <2>2. RunningIsOwned'
    BY <1>17, <1>1, FaultCount DEF RunningIsOwned, QInv, PInv, HeldInv, Up,
       CheckCancelled, rows, queue, CancelSeen
  <2>3. PendingIsServed'
    BY <1>17, <1>1, FaultCount DEF PendingIsServed, QInv, PInv, HeldInv, Up, QueueType,
       HasPending, CheckCancelled, rows, queue, CancelSeen
  <2>4. LateInv'
    <3>1. /\ UNCHANGED <<status, late, job>> /\ Current' = Current /\ job \in Jobs
          /\ (Answers \/ Fails) /\ status[job] \in {"running", "cancelled"}
      BY <1>17, <1>1 DEF CheckCancelled, rows, Current, QInv, PInv, HeldInv
    <3>2. CASE pc' = "stop"
      BY <1>1, <3>1, <3>2, FaultCount, LateFrame DEF QInv, Contacting
    <3>3. CASE status[job] = "running" /\ faults' = faults
      <4>1. late[job] \cup {Current} = {Current}
        BY <3>1, <3>3 DEF QInv, LateInv
      <4>2. Cardinality(late[job] \cup {Current}) = 1
        BY <4>1, FS_Singleton
      <4>3. faults \in Nat
        BY <1>1, FaultCount, <3>1
      <4>4. Cardinality(late'[job'] \cup {Current'}) <= 1 + faults'
        BY <3>1, <3>3, <4>2, <4>3
      <4> QED
        BY <3>1, <3>3, <4>4 DEF QInv, LateInv
    <3>4. CASE Fails
      <4>1. Cardinality(late[job]) \in Nat /\ IsFiniteSet(late[job])
            /\ Cardinality(late[job]) <= 1 + faults
        BY <3>1, FS_CardinalityType DEF QInv, LateInv
      <4>2. Cardinality(late[job] \cup {Current}) <= Cardinality(late[job]) + 1
        <5>1. CASE Current \in late[job]
          <6>1. Cardinality(late[job] \cup {Current}) = Cardinality(late[job])
            BY <4>1, <5>1, FS_AddElement
          <6> QED
            BY <4>1, <6>1
        <5>2. CASE Current \notin late[job]
          BY <4>1, <5>2, FS_AddElement
        <5> QED
          BY <5>1, <5>2
      <4>3. Cardinality(late[job] \cup {Current}) \in Nat
        BY <4>1, FS_AddElement, FS_CardinalityType
      <4>4. faults \in Nat /\ faults' = faults + 1
        BY <1>1, <3>4, FaultCount
      <4>5. Cardinality(late[job] \cup {Current}) <= 1 + faults'
        BY <4>1, <4>2, <4>3, <4>4
      <4>6. \A j \in Jobs : Cardinality(late[j]) \in Nat
        BY FS_CardinalityType DEF QInv, LateInv
      <4>7. \A j \in Jobs : Cardinality(late[j]) <= 1 + faults'
        BY <4>4, <4>6 DEF QInv, LateInv
      <4> QED
        BY <3>1, <4>5, <4>7 DEF QInv, LateInv
    <3> QED
      BY <1>17, <1>1, <3>1, <3>2, <3>3, <3>4, FaultCount DEF CheckCancelled, CancelSeen
  <2> QED
    BY <1>1, <2>1, <2>2, <2>3, <2>4 DEF QInv
<1>18. CASE StopJob
  <2>1. SavedInv'
    <3>1. /\ UNCHANGED <<begun, message>> /\ pc = "stop" /\ pc' = "find"
          /\ \/ Answers /\ status' = [status EXCEPT ![job] = "cancelled"]
                /\ tally' = [tally EXCEPT ![job] = count]
             \/ Fails
      BY <1>18 DEF StopJob, queue, history
    <3>2. CASE Fails
      BY <1>1, <3>2, FaultCount DEF SavedInv
    <3>3. CASE Answers /\ status' = [status EXCEPT ![job] = "cancelled"]
               /\ tally' = [tally EXCEPT ![job] = count]
      <4>3. tally \in [Jobs -> TallyType] /\ status \in [Jobs -> Statuses \cup {"absent"}]
        BY <3>1, InHand DEF QInv
      <4>1. \A j \in Jobs : \/ tally'[j] = tally[j] /\ status'[j] = status[j]
                            \/ j = job /\ tally'[j] = count /\ status'[j] = "cancelled"
        BY <3>3, <4>3
      <4>2. begun[job] = count.cursor /\ count.cursor \in Nat
        BY <3>1, InHand DEF QInv, PInv, BegunInv
      <4> QED
        BY <1>1, <3>1, <3>3, <4>1, <4>2, FaultCount DEF QInv, SavedInv, Total
    <3> QED
      BY <3>1, <3>2, <3>3
  <2>2. RunningIsOwned'
    BY <1>18, <1>1, FaultCount DEF RunningIsOwned, QInv, PInv, HeldInv, Up, StopJob,
       queue, history
  <2>3. PendingIsServed'
    BY <1>18, <1>1, FaultCount DEF PendingIsServed, QInv, PInv, HeldInv, Up, QueueType,
       HasPending, StopJob, queue, history
  <2>4. LateInv'
    <3>1. (Answers \/ Fails) /\ UNCHANGED late
          /\ (pc' \in Contacting => pc \in Contacting /\ UNCHANGED job /\ Current' = Current)
      BY <1>18 DEF StopJob, queue, history, Contacting, Current
    <3>2. \A j \in Jobs : status'[j] \in NeverClaimed \cup {"running"} =>
                              status[j] \in NeverClaimed \cup {"running"}
      BY <1>18, <1>1 DEF StopJob, queue, history, NeverClaimed, QInv, PInv, HeldInv
    <3> QED
      BY <1>1, <3>1, <3>2, FaultCount, LateFrame DEF QInv
  <2> QED
    BY <1>1, <2>1, <2>2, <2>3, <2>4 DEF QInv
<1>19. CASE SendWhatsapp
  <2>1. SavedInv'
    BY <1>19, <1>1, FaultCount DEF SavedInv, QInv, PInv, HeldInv, BegunInv, TallyType,
       HistoryType, Current, Contacting, Total, SendWhatsapp, rows, queue, bounds,
       CountFailure
  <2>2. RunningIsOwned'
    BY <1>19, <1>1, FaultCount DEF RunningIsOwned, QInv, PInv, HeldInv, Up,
       SendWhatsapp, rows, queue, bounds, CountFailure
  <2>3. PendingIsServed'
    BY <1>19, <1>1, FaultCount DEF PendingIsServed, QInv, PInv, HeldInv, Up, QueueType,
       HasPending, SendWhatsapp, rows, queue, bounds, CountFailure
  <2>4. LateInv'
    <3>1. /\ UNCHANGED <<status, job, faults>> /\ pc \in Contacting /\ pc' \in Contacting
          /\ job \in Jobs /\ Current' = Current
          /\ \/ late' = late
             \/ /\ status[job] = "cancelled"
                /\ late' = [late EXCEPT ![job] = late[job] \cup {Current}]
      BY <1>19, <1>1 DEF SendWhatsapp, rows, queue, bounds, CountFailure, Current, NoteLate,
         Contacting, TallyType
    <3>2. CASE late' = late
      <4>1. faults \in Nat /\ faults' \in Nat /\ faults <= faults'
        <5>1. faults \in Nat
          BY <1>1 DEF QueueType
        <5> QED
          BY <3>1, <5>1
      <4> QED
        BY <1>1, <3>1, <3>2, <4>1, LateFrame DEF QInv
    <3>3. CASE /\ status[job] = "cancelled"
               /\ late' = [late EXCEPT ![job] = late[job] \cup {Current}]
      <4>1. late \in [Jobs -> SUBSET Nat] /\ IsFiniteSet(late[job] \cup {Current})
            /\ Cardinality(late[job] \cup {Current}) <= 1 + faults
        BY <1>1, <3>1, FS_AddElement DEF HistoryType, QInv, LateInv
      <4>2. \A j \in Jobs : late'[j] = late[j] \/ (j = job /\ late'[j] = late[j] \cup {Current})
        BY <3>3, <4>1
      <4>3. late'[job] \cup {Current} = late[job] \cup {Current}
        BY <3>1, <4>2
      <4>4. status[job] \notin NeverClaimed \cup {"running"}
        BY <3>3 DEF NeverClaimed
      <4>5. Cardinality(late'[job'] \cup {Current'}) <= 1 + faults'
        BY <3>1, <4>1, <4>3
      <4>6. \A j \in Jobs : IsFiniteSet(late'[j]) /\ Cardinality(late'[j]) <= 1 + faults'
        BY <3>1, <4>1, <4>2 DEF QInv, LateInv
      <4>7. \A j \in Jobs : status'[j] \in NeverClaimed \cup {"running"} => late'[j] = {}
        BY <3>1, <4>2, <4>4 DEF QInv, LateInv
      <4> QED
        BY <4>5, <4>6, <4>7 DEF LateInv
    <3> QED
      BY <3>1, <3>2, <3>3
  <2> QED
    BY <1>1, <2>1, <2>2, <2>3, <2>4 DEF QInv
<1>20. CASE SendEmail
  <2>1. SavedInv'
    BY <1>20, <1>1, FaultCount DEF SavedInv, QInv, PInv, HeldInv, BegunInv, TallyType,
       HistoryType, Current, Contacting, Total, SendEmail, rows, queue, bounds
  <2>2. RunningIsOwned'
    BY <1>20, <1>1, FaultCount DEF RunningIsOwned, QInv, PInv, HeldInv, Up, SendEmail,
       rows, queue, bounds
  <2>3. PendingIsServed'
    BY <1>20, <1>1, FaultCount DEF PendingIsServed, QInv, PInv, HeldInv, Up, QueueType,
       HasPending, SendEmail, rows, queue, bounds
  <2>4. LateInv'
    <3>1. /\ UNCHANGED <<status, job, faults>> /\ pc \in Contacting /\ pc' \in Contacting
          /\ job \in Jobs /\ Current' = Current
          /\ \/ late' = late
             \/ /\ status[job] = "cancelled"
                /\ late' = [late EXCEPT ![job] = late[job] \cup {Current}]
      BY <1>20, <1>1 DEF SendEmail, rows, queue, bounds, Current, CountFailure, NoteLate,
         Contacting, TallyType
    <3>2. CASE late' = late
      <4>1. faults \in Nat /\ faults' \in Nat /\ faults <= faults'
        <5>1. faults \in Nat
          BY <1>1 DEF QueueType
        <5> QED
          BY <3>1, <5>1
      <4> QED
        BY <1>1, <3>1, <3>2, <4>1, LateFrame DEF QInv
    <3>3. CASE /\ status[job] = "cancelled"
               /\ late' = [late EXCEPT ![job] = late[job] \cup {Current}]
      <4>1. late \in [Jobs -> SUBSET Nat] /\ IsFiniteSet(late[job] \cup {Current})
            /\ Cardinality(late[job] \cup {Current}) <= 1 + faults
        BY <1>1, <3>1, FS_AddElement DEF HistoryType, QInv, LateInv
      <4>2. \A j \in Jobs : late'[j] = late[j] \/ (j = job /\ late'[j] = late[j] \cup {Current})
        BY <3>3, <4>1
      <4>3. late'[job] \cup {Current} = late[job] \cup {Current}
        BY <3>1, <4>2
      <4>4. status[job] \notin NeverClaimed \cup {"running"}
        BY <3>3 DEF NeverClaimed
      <4>5. Cardinality(late'[job'] \cup {Current'}) <= 1 + faults'
        BY <3>1, <4>1, <4>3
      <4>6. \A j \in Jobs : IsFiniteSet(late'[j]) /\ Cardinality(late'[j]) <= 1 + faults'
        BY <3>1, <4>1, <4>2 DEF QInv, LateInv
      <4>7. \A j \in Jobs : status'[j] \in NeverClaimed \cup {"running"} => late'[j] = {}
        BY <3>1, <4>2, <4>4 DEF QInv, LateInv
      <4> QED
        BY <4>5, <4>6, <4>7 DEF LateInv
    <3> QED
      BY <3>1, <3>2, <3>3
  <2> QED
    BY <1>1, <2>1, <2>2, <2>3, <2>4 DEF QInv
<1>21. CASE SaveResult
  <2>1. SavedInv'
    BY <1>21, <1>1, FaultCount DEF SavedInv, QInv, PInv, HeldInv, BegunInv, TallyType,
       HistoryType, Current, Contacting, Total, SaveResult, queue, history
  <2>2. RunningIsOwned'
    BY <1>21, <1>1, FaultCount DEF RunningIsOwned, QInv, PInv, HeldInv, Up, SaveResult,
       queue, history
  <2>3. PendingIsServed'
    BY <1>21, <1>1, FaultCount DEF PendingIsServed, QInv, PInv, HeldInv, Up, QueueType,
       HasPending, SaveResult, queue, history
  <2>4. LateInv'
    <3>1. (Answers \/ Fails) /\ UNCHANGED late
          /\ (pc' \in Contacting => pc \in Contacting /\ UNCHANGED job /\ Current' = Current)
      BY <1>21 DEF SaveResult, queue, history, Contacting, Current
    <3>2. \A j \in Jobs : status'[j] \in NeverClaimed \cup {"running"} =>
                              status[j] \in NeverClaimed \cup {"running"}
      BY <1>21, <1>1 DEF SaveResult, queue, history, NeverClaimed, QInv, PInv, HeldInv
    <3> QED
      BY <1>1, <3>1, <3>2, FaultCount, LateFrame DEF QInv
  <2> QED
    BY <1>1, <2>1, <2>2, <2>3, <2>4 DEF QInv
<1>22. CASE SaveProgress
  <2>1. SavedInv'
    <3>1. /\ UNCHANGED <<status, begun, message, job>> /\ pc = "progress"
          /\ count' = ProgressPatch /\ ProgressPatch.cursor = count.cursor + 1
          /\ \/ Answers /\ tally' = [tally EXCEPT ![job] = ProgressPatch]
             \/ Fails
      BY <1>22, InHand DEF SaveProgress, history, ProgressPatch, TallyType, QInv
    <3>2. CASE Fails
      BY <1>1, <3>2, FaultCount DEF SavedInv
    <3>3. CASE Answers /\ tally' = [tally EXCEPT ![job] = ProgressPatch]
      <4>4. tally \in [Jobs -> TallyType]
        BY <3>1, InHand DEF QInv
      <4>1. \A j \in Jobs : \/ tally'[j] = tally[j]
                            \/ j = job /\ tally'[j] = ProgressPatch
        BY <3>3, <4>4
      <4>2. /\ begun[job] = count.cursor + 1 /\ count.cursor \in Nat
            /\ tally'[job] = ProgressPatch /\ job \in Jobs
            /\ status[job] \in {"running", "cancelled"}
        BY <1>1, <3>1, <3>3, InHand DEF QInv, PInv, BegunInv, Contacting
      <4>3. faults' = faults
        BY <1>1, <3>3, FaultCount
      <4> QED
        BY <3>1, <4>1, <4>2, <4>3 DEF QInv, SavedInv, Total
    <3> QED
      BY <3>1, <3>2, <3>3
  <2>2. RunningIsOwned'
    BY <1>22, <1>1, FaultCount DEF RunningIsOwned, QInv, PInv, HeldInv, Up,
       SaveProgress, queue, history, ProgressPatch
  <2>3. PendingIsServed'
    BY <1>22, <1>1, FaultCount DEF PendingIsServed, QInv, PInv, HeldInv, Up, QueueType,
       HasPending, SaveProgress, queue, history, ProgressPatch
  <2>4. LateInv'
    <3>1. (Answers \/ Fails) /\ UNCHANGED late
          /\ (pc' \in Contacting => pc \in Contacting /\ UNCHANGED job /\ Current' = Current)
      BY <1>22 DEF SaveProgress, queue, history, ProgressPatch, Contacting, Current
    <3>2. \A j \in Jobs : status'[j] \in NeverClaimed \cup {"running"} =>
                              status[j] \in NeverClaimed \cup {"running"}
      BY <1>22, <1>1 DEF SaveProgress, queue, history, ProgressPatch, NeverClaimed, QInv,
         PInv, HeldInv
    <3> QED
      BY <1>1, <3>1, <3>2, FaultCount, LateFrame DEF QInv
  <2> QED
    BY <1>1, <2>1, <2>2, <2>3, <2>4 DEF QInv
<1>23. CASE Finalize
  <2>1. SavedInv'
    <3>1. /\ UNCHANGED <<begun, message>> /\ pc = "finalize" /\ pc' = "find"
          /\ \/ Answers /\ status' = [status EXCEPT ![job] = "completed"]
                /\ tally' = [tally EXCEPT ![job] = count]
             \/ Fails
      BY <1>23 DEF Finalize, queue, history
    <3>2. CASE Fails
      BY <1>1, <3>2, FaultCount DEF SavedInv
    <3>3. CASE Answers /\ status' = [status EXCEPT ![job] = "completed"]
               /\ tally' = [tally EXCEPT ![job] = count]
      <4>3. tally \in [Jobs -> TallyType] /\ status \in [Jobs -> Statuses \cup {"absent"}]
        BY <3>1, InHand DEF QInv
      <4>1. \A j \in Jobs : \/ tally'[j] = tally[j] /\ status'[j] = status[j]
                            \/ j = job /\ tally'[j] = count /\ status'[j] = "completed"
        BY <3>3, <4>3
      <4>2. begun[job] = count.cursor /\ count.cursor \in Nat /\ count.cursor = Total(job)
        BY <3>1, InHand DEF QInv, PInv, BegunInv
      <4> QED
        BY <1>1, <3>1, <3>3, <4>1, <4>2, FaultCount DEF QInv, SavedInv, Total
    <3> QED
      BY <3>1, <3>2, <3>3
  <2>2. RunningIsOwned'
    BY <1>23, <1>1, FaultCount DEF RunningIsOwned, QInv, PInv, HeldInv, Up, Finalize,
       queue, history
  <2>3. PendingIsServed'
    BY <1>23, <1>1, FaultCount DEF PendingIsServed, QInv, PInv, HeldInv, Up, QueueType,
       HasPending, Finalize, queue, history
  <2>4. LateInv'
    <3>1. (Answers \/ Fails) /\ UNCHANGED late
          /\ (pc' \in Contacting => pc \in Contacting /\ UNCHANGED job /\ Current' = Current)
      BY <1>23 DEF Finalize, queue, history, Contacting, Current
    <3>2. \A j \in Jobs : status'[j] \in NeverClaimed \cup {"running"} =>
                              status[j] \in NeverClaimed \cup {"running"}
      BY <1>23, <1>1 DEF Finalize, queue, history, NeverClaimed, QInv, PInv, HeldInv
    <3> QED
      BY <1>1, <3>1, <3>2, FaultCount, LateFrame DEF QInv
  <2> QED
    BY <1>1, <2>1, <2>2, <2>3, <2>4 DEF QInv
<1>24. CASE Crash
  <2>1. SavedInv'
    BY <1>24, <1>1, FaultCount DEF SavedInv, QInv, PInv, HeldInv, BegunInv, TallyType,
       HistoryType, Current, Contacting, Total, Crash, rows, history
  <2>2. RunningIsOwned'
    BY <1>24, <1>1, FaultCount DEF RunningIsOwned, QInv, PInv, HeldInv, Up, Crash, rows,
       history
  <2>3. PendingIsServed'
    BY <1>24, <1>1, FaultCount DEF PendingIsServed, QInv, PInv, HeldInv, Up, QueueType,
       HasPending, Crash, rows, history
  <2>4. LateInv'
    BY <1>24, <1>1, FaultCount DEF LateInv, QInv, PInv, HeldInv, Up, HistoryType,
       Current, Contacting, NeverClaimed, Crash, rows, history
  <2> QED
    BY <1>1, <2>1, <2>2, <2>3, <2>4 DEF QInv
<1>25. CASE Boot
  <2>1. SavedInv'
    <3>1. /\ UNCHANGED <<begun, tally, message>> /\ pc' = "idle" /\ (Answers \/ Fails)
          /\ \A j \in Jobs : status'[j] = "completed" => status[j] = "completed"
      BY <1>25, <1>1 DEF Boot, worker, history, AfterBoot, QInv, PInv, HeldInv, Up
    <3> QED
      BY <1>1, <3>1, FaultCount DEF QInv, SavedInv, Total
  <2>2. RunningIsOwned'
    BY <1>25, <1>1, FaultCount DEF RunningIsOwned, QInv, PInv, HeldInv, Up, Boot,
       worker, history, AfterBoot
  <2>3. PendingIsServed'
    <3>1. kicks \in Nat
      BY <1>1 DEF QueueType
    <3>2. kicks' = kicks + 1 \/ Fails
      BY <1>25 DEF Boot
    <3>3. CASE Fails
      BY <1>1, <3>3, FaultCount DEF PendingIsServed
    <3>4. CASE kicks' = kicks + 1
      BY <3>1, <3>4 DEF PendingIsServed
    <3> QED
      BY <3>2, <3>3, <3>4
  <2>4. LateInv'
    <3>1. (Answers \/ Fails) /\ UNCHANGED late
          /\ (pc' \in Contacting => pc \in Contacting /\ UNCHANGED job /\ Current' = Current)
      BY <1>25 DEF Boot, worker, history, AfterBoot, Contacting, Current
    <3>2. \A j \in Jobs : status'[j] \in NeverClaimed \cup {"running"} =>
                              status[j] \in NeverClaimed \cup {"running"}
      BY <1>25, <1>1 DEF Boot, worker, history, AfterBoot, NeverClaimed, QInv, PInv, HeldInv
    <3> QED
      BY <1>1, <3>1, <3>2, FaultCount, LateFrame DEF QInv
  <2> QED
    BY <1>1, <2>1, <2>2, <2>3, <2>4 DEF QInv
<1>26. CASE UNCHANGED vars
  <2>1. SavedInv'
    BY <1>26, <1>1, FaultCount DEF SavedInv, QInv, PInv, HeldInv, BegunInv, TallyType,
       HistoryType, Current, Contacting, Total, vars, rows, queue, worker, bounds,
       history
  <2>2. RunningIsOwned'
    BY <1>26, <1>1, FaultCount DEF RunningIsOwned, QInv, PInv, HeldInv, Up, vars, rows,
       queue, worker, bounds, history
  <2>3. PendingIsServed'
    BY <1>26, <1>1, FaultCount DEF PendingIsServed, QInv, PInv, HeldInv, Up, QueueType,
       HasPending, vars, rows, queue, worker, bounds, history
  <2>4. LateInv'
    BY <1>26, <1>1, FaultCount DEF LateInv, QInv, PInv, HeldInv, Up, HistoryType,
       Current, Contacting, NeverClaimed, vars, rows, queue, worker, bounds, history
  <2> QED
    BY <1>1, <2>1, <2>2, <2>3, <2>4 DEF QInv
<1> QED
  BY <1>10, <1>11, <1>12, <1>13, <1>14, <1>15, <1>16, <1>17, <1>18, <1>19, <1>20, <1>21,
     <1>22, <1>23, <1>24, <1>25, <1>26 DEF Next, Worker

\* Before any job exists no row lags, none is stranded and nobody was contacted.
LEMMA InitQInv == Init => QInv
<1> SUFFICES ASSUME Init PROVE QInv
  OBVIOUS
<1>1. SavedInv /\ RunningIsOwned /\ PendingIsServed
  BY DEF Init, SavedInv, RunningIsOwned, PendingIsServed, InJob, ZeroTally, Up
<1>2. LateInv
  <2>1. faults = 0 /\ pc \notin Contacting /\ \A j \in Jobs : late[j] = {}
    BY DEF Init, Contacting
  <2> QED
    BY <2>1, FS_EmptySet DEF LateInv
<1> QED
  BY <1>1, <1>2, InitPInv DEF QInv

\* What is known of a job holds in every state the queue can reach.
LEMMA QueueQInv == Spec => []QInv
BY InitQInv, NextQInv, PTL DEF Spec

(***************************************************************************)
(* The report stored adds up to its cursor and never claims a recipient    *)
(* the worker has not turned to, whatever writes are lost; without failing *)
(* statements it is behind by at most the recipient in progress, whatever  *)
(* crashed or was cancelled, and a completed job's report is full          *)
(* (updateProgress and the last update of runJob).                         *)
(***************************************************************************)
THEOREM ReportStaysTrue == Spec => []ReportIsTrue
<1>1. QInv => ReportLagsByOne
  BY DEF QInv, PInv, LagInv, SavedInv, ReportLagsByOne
<1>2. CountersMatchCursor /\ ReportLagsByOne => ReportIsTrue
  BY DEF ReportIsTrue
<1> QED
  BY <1>1, <1>2, QueueQInv, CountersExact, PTL

(***************************************************************************)
(* Without failing statements a row that says running is the one the       *)
(* worker of this process holds: cancelJob, a crash and the boot cleanup   *)
(* leave no row running for ever.                                          *)
(***************************************************************************)
THEOREM RunningOwned == Spec => []RunningIsOwned
<1>1. QInv => RunningIsOwned
  BY DEF QInv
<1> QED
  BY <1>1, QueueQInv, PTL

(***************************************************************************)
(* Without failing statements a pending row always has somebody who will   *)
(* look at the queue: a queued kick, a hasPending under way, or the loop.  *)
(***************************************************************************)
THEOREM PendingServed == Spec => []PendingIsServed
<1>1. QInv => PendingIsServed
  BY DEF QInv
<1> QED
  BY <1>1, QueueQInv, PTL

(***************************************************************************)
(* After cancelJob was acknowledged at most the recipient in progress is   *)
(* contacted, and one more for each isCancelled that failed to read.       *)
(***************************************************************************)
THEOREM CancelBounded == Spec => []CancelTakesEffect
<1>1. QInv => CancelTakesEffect
  BY DEF QInv, LateInv, CancelTakesEffect
<1> QED
  BY <1>1, QueueQInv, PTL

----------------------------------------------------------------------------
(* The detail rows of a job, one per recipient *)

Yes(x) == IF x = "yes" THEN 1 ELSE 0

\* The keys of the first n recipients of j.
KeysOf(j, n) == {RecipientKey(message[j].to[i]) : i \in 1..n}

\* The rows that say "yes" to a channel.
WaRows(rs)   == {k \in DOMAIN rs : rs[k].wa = "yes"}
MailRows(rs) == {k \in DOMAIN rs : rs[k].email = "yes"}

\* The detail rows of j are those of its first n recipients, and say "yes" s times for
\* WhatsApp and e times for e-mail.
Filed(j, n, s, e) ==
    /\ DOMAIN results[j] = KeysOf(j, n)
    /\ Cardinality(WaRows(results[j])) = s /\ Cardinality(MailRows(results[j])) = e

KeysInv == \A j \in Jobs : \A m, n \in 1..Total(j) :
               RecipientKey(message[j].to[m]) = RecipientKey(message[j].to[n]) => m = n

\* The outcome in hand is that of the recipient in progress.
OutcomeInv ==
    /\ pc \notin {"email", "result"} => outcome = NotTried
    /\ pc = "email" => outcome.email = "null"

\* How many recipients of the job in hand have their detail row.
FiledSoFar == count.cursor + (IF pc = "progress" THEN 1 ELSE 0)

FiledInv ==
    faults = 0 =>
        /\ \A j \in Jobs : status[j] \in NeverClaimed => results[j] = <<>>
        /\ \A j \in Jobs : status[j] = "completed" =>
              Filed(j, Total(j), tally[j].sent, tally[j].emailSent)
        /\ pc \in InJob => Filed(job, FiledSoFar, count.sent - Yes(outcome.wa),
                                 count.emailSent - Yes(outcome.email))

RInv == PInv /\ KeysInv /\ OutcomeInv /\ FiledInv /\ DOMAIN results = Jobs

\* Without recipients there is no row.
LEMMA NothingFiled ==
    ASSUME NEW j, results[j] = <<>>
    PROVE  Filed(j, 0, 0, 0)
<1>1. DOMAIN results[j] = {} /\ KeysOf(j, 0) = {}
  BY DEF KeysOf
<1>2. \A k : k \notin DOMAIN results[j]
  BY <1>1
<1>3. WaRows(results[j]) = {} /\ MailRows(results[j]) = {}
  BY <1>2 DEF WaRows, MailRows
<1> QED
  BY <1>1, <1>3, FS_EmptySet DEF Filed

\* What was filed of a job stays as long as its recipients and its rows do.
LEMMA FiledStays ==
    ASSUME NEW j, NEW n, NEW s, NEW e, Filed(j, n, s, e),
           results'[j] = results[j], message'[j] = message[j]
    PROVE  Filed(j, n, s, e)'
BY DEF Filed, KeysOf

\* The job in hand is not over, nor was it completed.
LEMMA NotCompleted ==
    ASSUME PInv, pc \in InJob
    PROVE  job \in Jobs /\ status[job] \notin NeverClaimed \cup {"completed", "failed"}
BY InHand DEF NeverClaimed

\* The keys of the recipients of a job are as many as the recipients.
LEMMA KeysCounted ==
    ASSUME NEW j \in Jobs, NEW n \in Nat,
           \A a, b \in 1..n : RecipientKey(message[j].to[a]) = RecipientKey(message[j].to[b])
                                 => a = b
    PROVE  IsFiniteSet(KeysOf(j, n)) /\ Cardinality(KeysOf(j, n)) = n
<1> DEFINE f == [i \in 1..n |-> RecipientKey(message[j].to[i])]
<1>1. f \in [1..n -> KeysOf(j, n)] /\ \A k \in KeysOf(j, n) : \E i \in 1..n : f[i] = k
  BY DEF KeysOf
<1>2. \A a, b \in 1..n : f[a] = f[b] => a = b
  OBVIOUS
<1>3. f \in Bijection(1..n, KeysOf(j, n))
  <2> HIDE DEF f
  <2> QED
    BY <1>1, <1>2 DEF Bijection, Injection, Surjection, IsInjective
<1>4. IsFiniteSet(1..n) /\ Cardinality(1..n) = n
  BY FS_Interval
<1> QED
  BY <1>3, <1>4, FS_Bijection DEF ExistsBijection

\* A step that leaves lists and detail rows alone, completes nothing, and stays in the job
\* with the same count, or leaves it.
LEMMA ResultsKept ==
    ASSUME RInv, PInv', UNCHANGED <<message, results>>,
           faults' = 0 => faults = 0,
           \A j \in Jobs : status'[j] \in NeverClaimed => status[j] \in NeverClaimed,
           faults' = 0 => \A j \in Jobs : status'[j] = "completed" =>
                             \/ status[j] = "completed" /\ tally'[j] = tally[j]
                             \/ Filed(j, Total(j), tally'[j].sent, tally'[j].emailSent),
           \/ pc' \notin InJob /\ outcome' = NotTried
           \/ /\ pc \in InJob /\ UNCHANGED <<pc, job, count, outcome>>
    PROVE  RInv'
<1>1. KeysInv'
  BY DEF RInv, KeysInv, Total
<1>2. OutcomeInv'
  BY DEF RInv, OutcomeInv, InJob
<1>3. FiledInv'
  <2> SUFFICES ASSUME faults' = 0
               PROVE  /\ \A j \in Jobs : status'[j] \in NeverClaimed => results'[j] = <<>>
                      /\ \A j \in Jobs : status'[j] = "completed" =>
                            Filed(j, Total(j), tally[j].sent, tally[j].emailSent)'
                      /\ pc' \in InJob =>
                            Filed(job, FiledSoFar, count.sent - Yes(outcome.wa),
                                  count.emailSent - Yes(outcome.email))'
    BY DEF FiledInv
  <2>1. \A j \in Jobs : status'[j] \in NeverClaimed => results'[j] = <<>>
    BY DEF RInv, FiledInv
  <2>2. ASSUME NEW j \in Jobs, status'[j] = "completed"
        PROVE  Filed(j, Total(j), tally[j].sent, tally[j].emailSent)'
    <3>1. Filed(j, Total(j), tally'[j].sent, tally'[j].emailSent)
      BY <2>2 DEF RInv, FiledInv
    <3> QED
      BY <3>1 DEF Filed, KeysOf, Total
  <2>3. ASSUME pc' \in InJob
        PROVE  Filed(job, FiledSoFar, count.sent - Yes(outcome.wa),
                     count.emailSent - Yes(outcome.email))'
    <3>1. pc \in InJob /\ UNCHANGED <<pc, job, count, outcome>>
      BY <2>3
    <3>2. Filed(job, FiledSoFar, count.sent - Yes(outcome.wa),
                count.emailSent - Yes(outcome.email))
      BY <3>1 DEF RInv, FiledInv
    <3> QED
      BY <3>1, <3>2 DEF Filed, KeysOf, FiledSoFar, Yes
  <2> QED
    BY <2>1, <2>2, <2>3
<1> QED
  BY <1>1, <1>2, <1>3 DEF RInv

\* A new job has the list of a request, and no detail row yet.
LEMMA CreateRInv ==
    ASSUME RInv, PInv', NEW j \in Jobs, NEW r \in Requests, CreateJob(j, r)
    PROVE  RInv'
<1>1. /\ status[j] = "absent" /\ status' = [status EXCEPT ![j] = "pending"]
      /\ message' = [message EXCEPT ![j] =
            [to |-> Stored(r), whatsapp |-> r.whatsapp, email |-> r.email]]
      /\ UNCHANGED <<results, tally, pc, job, count, outcome, faults>>
  BY DEF CreateJob, worker, bounds
<1>2. /\ message \in [Jobs -> [to : Seq(Contact), whatsapp : BOOLEAN, email : BOOLEAN]]
      /\ status \in [Jobs -> Statuses \cup {"absent"}]
  BY DEF RInv, PInv, IInv, TypeOK, RowsType
<1>3. /\ message'[j].to = Stored(r) /\ status'[j] = "pending"
      /\ \A o \in Jobs \ {j} : message'[o] = message[o] /\ status'[o] = status[o]
  BY <1>1, <1>2
<1>4. pc \in InJob => job \in Jobs \ {j}
  BY <1>1, NotCompleted DEF RInv, NeverClaimed
<1>5. KeysInv'
  <2>1. DOMAIN Stored(r) = 1..Len(Stored(r))
    BY StoredType
  <2>2. \A m, n \in 1..Len(Stored(r)) :
           RecipientKey(Stored(r)[m]) = RecipientKey(Stored(r)[n]) => m = n
    BY <2>1, KeysApart
  <2> QED
    BY <1>3, <2>2 DEF RInv, KeysInv, Total
<1>6. OutcomeInv'
  BY <1>1 DEF RInv, OutcomeInv
<1>7. ASSUME faults' = 0
      PROVE  /\ \A o \in Jobs : status'[o] \in NeverClaimed => results'[o] = <<>>
             /\ \A o \in Jobs : status'[o] = "completed" =>
                   Filed(o, Total(o), tally[o].sent, tally[o].emailSent)'
             /\ pc' \in InJob => Filed(job, FiledSoFar, count.sent - Yes(outcome.wa),
                                       count.emailSent - Yes(outcome.email))'
  <2>1. \A o \in Jobs : status'[o] \in NeverClaimed => results'[o] = <<>>
    BY <1>1, <1>3, <1>7 DEF RInv, FiledInv, NeverClaimed
  <2>2. ASSUME NEW o \in Jobs, status'[o] = "completed"
        PROVE  Filed(o, Total(o), tally[o].sent, tally[o].emailSent)'
    <3>1. o # j /\ Filed(o, Total(o), tally[o].sent, tally[o].emailSent)
      BY <1>1, <1>3, <1>7, <2>2 DEF RInv, FiledInv
    <3> QED
      BY <1>1, <1>3, <3>1 DEF Filed, KeysOf, Total
  <2>3. ASSUME pc' \in InJob
        PROVE  Filed(job, FiledSoFar, count.sent - Yes(outcome.wa),
                     count.emailSent - Yes(outcome.email))'
    <3>1. Filed(job, FiledSoFar, count.sent - Yes(outcome.wa),
                count.emailSent - Yes(outcome.email))
      BY <1>1, <1>7, <2>3 DEF RInv, FiledInv
    <3> QED
      BY <1>1, <1>3, <1>4, <2>3, <3>1 DEF Filed, KeysOf, FiledSoFar, Yes
  <2> QED
    BY <2>1, <2>2, <2>3
<1> QED
  BY <1>1, <1>5, <1>6, <1>7 DEF RInv, FiledInv

\* The row claimed has no detail row, and counts from zero.
LEMMA ClaimRInv ==
    ASSUME RInv, PInv', Claim, status[job] = "pending",
           status' = [status EXCEPT ![job] = "running"],
           count' = tally[job], pc' \in {"check", "finalize"}, UNCHANGED <<job, outcome, faults>>
    PROVE  RInv'
<1>1. pc = "claim" /\ UNCHANGED <<message, results, tally>>
  BY DEF Claim
<1>2. job \in Jobs /\ status \in [Jobs -> Statuses \cup {"absent"}]
  BY <1>1 DEF RInv, PInv, IInv, TypeOK, RowsType, WorkerType
<1>3. tally[job] = ZeroTally /\ outcome = NotTried /\ status'[job] = "running"
  BY <1>1, <1>2 DEF RInv, PInv, IInv, FreshInv, Fresh, NeverClaimed, OutcomeInv
<1>4. KeysInv' /\ OutcomeInv'
  BY <1>1, <1>3 DEF RInv, KeysInv, OutcomeInv, Total
<1>5. ASSUME faults' = 0
      PROVE  /\ \A j \in Jobs : status'[j] \in NeverClaimed => results'[j] = <<>>
             /\ \A j \in Jobs : status'[j] = "completed" =>
                   Filed(j, Total(j), tally[j].sent, tally[j].emailSent)'
             /\ Filed(job, FiledSoFar, count.sent - Yes(outcome.wa),
                      count.emailSent - Yes(outcome.email))'
  <2>1. results[job] = <<>>
    BY <1>2, <1>5 DEF RInv, FiledInv, NeverClaimed
  <2>2. \A j \in Jobs : status'[j] = status[j] \/ status'[j] = "running"
    BY <1>2
  <2>3. \A j \in Jobs : status'[j] \in NeverClaimed => results'[j] = <<>>
    BY <1>1, <1>5, <2>2 DEF RInv, FiledInv, NeverClaimed
  <2>4. ASSUME NEW j \in Jobs, status'[j] = "completed"
        PROVE  Filed(j, Total(j), tally[j].sent, tally[j].emailSent)'
    <3>1. Filed(j, Total(j), tally[j].sent, tally[j].emailSent)
      BY <1>5, <2>2, <2>4 DEF RInv, FiledInv
    <3> QED
      BY <1>1, <3>1 DEF Filed, KeysOf, Total
  <2>5. Filed(job, 0, 0, 0)'
    BY <1>1, <2>1, NothingFiled, FiledStays
  <2>6. /\ FiledSoFar' = 0 /\ (count.sent - Yes(outcome.wa))' = 0
        /\ (count.emailSent - Yes(outcome.email))' = 0
    BY <1>3 DEF FiledSoFar, Yes, ZeroTally, NotTried
  <2>7. Filed(job, FiledSoFar, count.sent - Yes(outcome.wa),
              count.emailSent - Yes(outcome.email))'
    BY <2>5, <2>6 DEF Filed, KeysOf
  <2> QED
    BY <2>3, <2>4, <2>7
<1> QED
  BY <1>1, <1>4, <1>5 DEF RInv, FiledInv

\* A contact, a read of the status or the end of the progress write: the row of no
\* recipient changes, the count and the outcome move together.
LEMMA InHandRInv ==
    ASSUME RInv, PInv', pc \in InJob, UNCHANGED <<message, results, status, job>>,
           faults' = 0 => faults = 0, \A j \in Jobs \ {job} : tally'[j] = tally[j], OutcomeInv',
           FiledSoFar' = FiledSoFar,
           (count.sent - Yes(outcome.wa))' = count.sent - Yes(outcome.wa),
           (count.emailSent - Yes(outcome.email))' = count.emailSent - Yes(outcome.email)
    PROVE  RInv'
<1>1. KeysInv'
  BY DEF RInv, KeysInv, Total
<1>2. ASSUME faults' = 0
      PROVE  /\ \A j \in Jobs : status'[j] \in NeverClaimed => results'[j] = <<>>
             /\ \A j \in Jobs : status'[j] = "completed" =>
                   Filed(j, Total(j), tally[j].sent, tally[j].emailSent)'
             /\ Filed(job, FiledSoFar, count.sent - Yes(outcome.wa),
                      count.emailSent - Yes(outcome.email))'
  <2>1. \A j \in Jobs : status'[j] \in NeverClaimed => results'[j] = <<>>
    BY <1>2 DEF RInv, FiledInv
  <2>2. ASSUME NEW j \in Jobs, status'[j] = "completed"
        PROVE  Filed(j, Total(j), tally[j].sent, tally[j].emailSent)'
    <3>1. j # job /\ Filed(j, Total(j), tally[j].sent, tally[j].emailSent)
      BY <1>2, <2>2, NotCompleted DEF RInv, FiledInv
    <3> QED
      BY <3>1 DEF Filed, KeysOf, Total
  <2>3. Filed(job, FiledSoFar, count.sent - Yes(outcome.wa),
              count.emailSent - Yes(outcome.email))
    BY <1>2 DEF RInv, FiledInv
  <2> QED
    BY <2>1, <2>2, <2>3 DEF Filed, KeysOf
<1> QED
  BY <1>1, <1>2 DEF RInv, FiledInv

\* A WhatsApp contact adds a success to the count exactly when the outcome says so.
LEMMA WhatsappRInv == ASSUME RInv, PInv', SendWhatsapp PROVE RInv'
<1>1. /\ pc = "whatsapp" /\ pc' = "email" /\ outcome = NotTried /\ pc \in InJob
      /\ UNCHANGED <<message, results, status, tally, job, faults>>
  BY DEF SendWhatsapp, rows, bounds, RInv, OutcomeInv, InJob
<1>2. count \in TallyType /\ NotTried.wa = "null" /\ NotTried.email = "null"
  BY <1>1 DEF RInv, PInv, IInv, TypeOK, WorkerType, NotTried
<1>3. \/ UNCHANGED <<count, outcome>>
      \/ outcome' = [outcome EXCEPT !.wa = "no"] /\ count' = CountFailure
      \/ outcome' = [outcome EXCEPT !.wa = "yes"] /\ count' = [count EXCEPT !.sent = @ + 1]
  BY DEF SendWhatsapp
<1>4. OutcomeInv'
  BY <1>1, <1>2, <1>3 DEF OutcomeInv, NotTried
<1>5. /\ (count.sent - Yes(outcome.wa))' = count.sent - Yes(outcome.wa)
      /\ (count.emailSent - Yes(outcome.email))' = count.emailSent - Yes(outcome.email)
      /\ count'.cursor = count.cursor
  BY <1>1, <1>2, <1>3 DEF TallyType, CountFailure, Yes, NotTried
<1>6. FiledSoFar' = FiledSoFar
  BY <1>1, <1>5 DEF FiledSoFar
<1> QED
  BY <1>1, <1>4, <1>5, <1>6, InHandRInv

\* So does an e-mail.
LEMMA EmailRInv == ASSUME RInv, PInv', SendEmail PROVE RInv'
<1>1. /\ pc = "email" /\ pc' = "result" /\ outcome.email = "null" /\ pc \in InJob
      /\ UNCHANGED <<message, results, status, tally, job, faults>>
  BY DEF SendEmail, rows, bounds, RInv, OutcomeInv, InJob
<1>2. count \in TallyType /\ outcome \in OutcomeType
  BY <1>1 DEF RInv, PInv, IInv, TypeOK, WorkerType
<1>3. \/ UNCHANGED <<count, outcome>>
      \/ /\ outcome' = [outcome EXCEPT !.email = "no"]
         /\ count' = [count EXCEPT !.emailFailed = @ + 1]
      \/ /\ outcome' = [outcome EXCEPT !.email = "yes"]
         /\ count' = [count EXCEPT !.emailSent = @ + 1]
  BY DEF SendEmail
<1>4. OutcomeInv'
  BY <1>1 DEF OutcomeInv
<1>5. /\ (count.sent - Yes(outcome.wa))' = count.sent - Yes(outcome.wa)
      /\ (count.emailSent - Yes(outcome.email))' = count.emailSent - Yes(outcome.email)
      /\ count'.cursor = count.cursor
  BY <1>1, <1>2, <1>3 DEF TallyType, OutcomeType, Yes
<1>6. FiledSoFar' = FiledSoFar
  BY <1>1, <1>5 DEF FiledSoFar
<1> QED
  BY <1>1, <1>4, <1>5, <1>6, InHandRInv

\* The rows that say "yes", after one row more was inserted.
LEMMA YesCounted ==
    ASSUME NEW f, IsFiniteSet(DOMAIN f), NEW key, key \notin DOMAIN f, NEW o, NEW g,
           g = [k \in DOMAIN f \cup {key} |-> IF k = key THEN o ELSE f[k]]
    PROVE  /\ Cardinality(WaRows(g)) = Cardinality(WaRows(f)) + Yes(o.wa)
           /\ Cardinality(MailRows(g)) = Cardinality(MailRows(f)) + Yes(o.email)
<1>1. PICK W, M : W = WaRows(f) /\ M = MailRows(f)
  OBVIOUS
<1>2. IsFiniteSet(W) /\ IsFiniteSet(M) /\ key \notin W /\ key \notin M
  <2>1. W \in SUBSET DOMAIN f /\ M \in SUBSET DOMAIN f
    BY <1>1 DEF WaRows, MailRows
  <2> QED
    BY <2>1, FS_Subset
<1>3. PICK w, m : w = Cardinality(W) /\ m = Cardinality(M) /\ w \in Nat /\ m \in Nat
  BY <1>2, FS_CardinalityType
<1>4. Cardinality(W \cup {key}) = w + 1 /\ Cardinality(M \cup {key}) = m + 1
  BY <1>2, <1>3, FS_AddElement
<1>5. Cardinality(WaRows(g)) = w + Yes(o.wa)
  <2>1. CASE o.wa = "yes"
    <3>1. WaRows(g) = W \cup {key}
      BY <1>1, <2>1 DEF WaRows
    <3> QED
      BY <1>4, <2>1, <3>1 DEF Yes
  <2>2. CASE o.wa # "yes"
    <3>1. WaRows(g) = W
      BY <1>1, <2>2 DEF WaRows
    <3>2. Yes(o.wa) = 0
      BY <2>2 DEF Yes
    <3> QED
      BY <1>3, <3>1, <3>2
  <2> QED
    BY <2>1, <2>2
<1>6. Cardinality(MailRows(g)) = m + Yes(o.email)
  <2>1. CASE o.email = "yes"
    <3>1. MailRows(g) = M \cup {key}
      BY <1>1, <2>1 DEF MailRows
    <3> QED
      BY <1>4, <2>1, <3>1 DEF Yes
  <2>2. CASE o.email # "yes"
    <3>1. MailRows(g) = M
      BY <1>1, <2>2 DEF MailRows
    <3>2. Yes(o.email) = 0
      BY <2>2 DEF Yes
    <3> QED
      BY <1>3, <3>1, <3>2
  <2> QED
    BY <2>1, <2>2
<1> QED
  BY <1>1, <1>3, <1>5, <1>6

\* The detail row of the recipient in progress is a new one, with its outcome.
LEMMA ResultRInv == ASSUME RInv, PInv', SaveResult PROVE RInv'
<1>1. /\ pc = "result" /\ pc' = "progress" /\ pc \in InJob /\ outcome' = NotTried
      /\ UNCHANGED <<message, status, tally, job, count>>
  BY DEF SaveResult, InJob
<1>2. /\ job \in Jobs /\ count.cursor \in Nat /\ count.cursor < Total(job) /\ Total(job) \in Nat
      /\ Current = count.cursor + 1 /\ count \in TallyType /\ faults \in Nat
  BY <1>1, InHand DEF RInv, PInv, BegunInv, Contacting, IInv, TypeOK, QueueType
<1>3. PICK key : key = RecipientKey(message[job].to[count.cursor + 1])
  OBVIOUS
<1>4. \/ /\ UNCHANGED faults
         /\ results' = [results EXCEPT ![job] =
               [k \in DOMAIN @ \cup {key} |-> IF k = key THEN outcome ELSE @[k]]]
      \/ faults' = faults + 1 /\ UNCHANGED results
  BY <1>2, <1>3 DEF SaveResult, Answers, Fails, Recipient
<1>5. KeysInv' /\ OutcomeInv'
  BY <1>1 DEF RInv, KeysInv, OutcomeInv, Total
<1>6. DOMAIN results = Jobs /\ DOMAIN results' = Jobs
  BY <1>4 DEF RInv
<1>7. CASE faults' # 0
  BY <1>5, <1>7, <1>6 DEF RInv, FiledInv
<1>8. CASE faults' = 0
  <2>1. faults = 0 /\ results' = [results EXCEPT ![job] =
               [k \in DOMAIN @ \cup {key} |-> IF k = key THEN outcome ELSE @[k]]]
    BY <1>2, <1>4, <1>8
  <2>2. DOMAIN results = Jobs /\ DOMAIN results' = Jobs
    BY <1>6
  <2>3. PICK D, f, g : /\ f = results[job] /\ D = DOMAIN f
                       /\ g = [k \in D \cup {key} |-> IF k = key THEN outcome ELSE f[k]]
    OBVIOUS
  <2>4. results'[job] = g /\ \A j \in Jobs \ {job} : results'[j] = results[j]
    BY <1>2, <2>1, <2>2, <2>3
  <2>5. PICK n : n = count.cursor
    OBVIOUS
  <2>6. Filed(job, n, count.sent - Yes(outcome.wa), count.emailSent - Yes(outcome.email))
    BY <1>1, <1>2, <2>1, <2>5 DEF RInv, FiledInv, FiledSoFar
  <2>7. D = KeysOf(job, n) /\ IsFiniteSet(D) /\ key \notin D
    <3>1. D = KeysOf(job, n)
      BY <2>3, <2>6 DEF Filed
    <3>2. \A a, b \in 1..(n + 1) : RecipientKey(message[job].to[a]) =
                                     RecipientKey(message[job].to[b]) => a = b
      BY <1>2, <2>5 DEF RInv, KeysInv
    <3>3. IsFiniteSet(KeysOf(job, n))
      BY <1>2, <2>5, <3>2, KeysCounted
    <3>4. \A i \in 1..n : RecipientKey(message[job].to[i]) # key
      BY <1>2, <1>3, <2>5, <3>2
    <3> QED
      BY <3>1, <3>3, <3>4 DEF KeysOf
  <2>8. DOMAIN g = KeysOf(job, n + 1)'
    <3>1. 1..(n + 1) = (1..n) \cup {n + 1}
      BY <1>2, <2>5
    <3>2. KeysOf(job, n + 1)' = KeysOf(job, n) \cup {key}
      BY <1>1, <1>3, <2>5, <3>1 DEF KeysOf
    <3> QED
      BY <2>3, <2>7, <3>2
  <2>9. Cardinality(WaRows(g)) = count.sent /\ Cardinality(MailRows(g)) = count.emailSent
    <3>1. /\ Cardinality(WaRows(f)) = count.sent - Yes(outcome.wa)
          /\ Cardinality(MailRows(f)) = count.emailSent - Yes(outcome.email)
      BY <2>3, <2>6 DEF Filed
    <3>2. /\ Cardinality(WaRows(g)) = Cardinality(WaRows(f)) + Yes(outcome.wa)
          /\ Cardinality(MailRows(g)) = Cardinality(MailRows(f)) + Yes(outcome.email)
      <4>1. /\ IsFiniteSet(DOMAIN f) /\ key \notin DOMAIN f
            /\ g = [k \in DOMAIN f \cup {key} |-> IF k = key THEN outcome ELSE f[k]]
        BY <2>3, <2>7
      <4> QED
        BY <4>1, YesCounted
    <3>3. \A x : Yes(x) \in Nat
      BY DEF Yes
    <3>4. count.sent \in Nat /\ count.emailSent \in Nat
      BY <1>2 DEF TallyType
    <3> QED
      BY <3>1, <3>2, <3>3, <3>4
  <2>10. Filed(job, FiledSoFar, count.sent - Yes(outcome.wa),
               count.emailSent - Yes(outcome.email))'
    <3>1. count.sent \in Nat /\ count.emailSent \in Nat
      BY <1>2 DEF TallyType
    <3>2. /\ FiledSoFar' = n + 1 /\ (count.sent - Yes(outcome.wa))' = count.sent
          /\ (count.emailSent - Yes(outcome.email))' = count.emailSent
      BY <1>1, <2>5, <3>1 DEF FiledSoFar, Yes, NotTried
    <3>3. Filed(job, n + 1, count.sent, count.emailSent)'
      BY <1>1, <2>4, <2>5, <2>8, <2>9 DEF Filed
    <3> QED
      BY <1>1, <3>2, <3>3 DEF Filed
  <2>11. \A j \in Jobs : status'[j] \in NeverClaimed => results'[j] = <<>>
    BY <1>1, <2>1, <2>4, NotCompleted DEF RInv, FiledInv
  <2>12. ASSUME NEW j \in Jobs, status'[j] = "completed"
         PROVE  Filed(j, Total(j), tally[j].sent, tally[j].emailSent)'
    <3>1. j # job /\ Filed(j, Total(j), tally[j].sent, tally[j].emailSent)
      BY <1>1, <2>1, <2>12, NotCompleted DEF RInv, FiledInv
    <3> QED
      BY <1>1, <2>4, <3>1 DEF Filed, KeysOf, Total
  <2> QED
    BY <1>5, <2>2, <2>10, <2>11, <2>12 DEF RInv, FiledInv
<1> QED
  BY <1>7, <1>8

\* The progress write counts the recipient whose row is there.
LEMMA ProgressRInv == ASSUME RInv, PInv', SaveProgress PROVE RInv'
<1>1. /\ pc = "progress" /\ pc' \in {"check", "finalize"} /\ pc \in InJob
      /\ count' = [count EXCEPT !.cursor = @ + 1]
      /\ UNCHANGED <<message, results, status, job, outcome>>
  BY DEF SaveProgress, InJob
<1>2. tally' = [tally EXCEPT ![job] = ProgressPatch] \/ tally' = tally
  BY DEF SaveProgress
<1>3. /\ tally \in [Jobs -> TallyType] /\ job \in Jobs /\ count \in TallyType
      /\ faults' = 0 => faults = 0
  <2>1. TypeOK
    BY DEF RInv, PInv, IInv
  <2>2. faults' = 0 => faults = 0
    BY <2>1, FaultCount DEF SaveProgress
  <2> QED
    BY <1>1, <2>1, <2>2 DEF TypeOK, RowsType, WorkerType, InJob
<1>4. \A j \in Jobs \ {job} : tally'[j] = tally[j]
  BY <1>2, <1>3
<1>5. /\ FiledSoFar' = FiledSoFar /\ count'.sent = count.sent
      /\ count'.emailSent = count.emailSent
  BY <1>1, <1>3 DEF FiledSoFar, TallyType
<1>6. OutcomeInv'
  BY <1>1 DEF RInv, OutcomeInv
<1> QED
  BY <1>1, <1>3, <1>4, <1>5, <1>6, InHandRInv

\* The last write of runJob completes a job whose recipients all have their row.
LEMMA FinalizeRInv == ASSUME RInv, PInv', Finalize PROVE RInv'
<1>1. /\ pc = "finalize" /\ pc' = "find" /\ pc \in InJob /\ UNCHANGED <<message, results, outcome>>
  BY DEF Finalize, InJob
<1>2. TypeOK /\ job \in Jobs /\ tally \in [Jobs -> TallyType]
         /\ status \in [Jobs -> Statuses \cup {"absent"}] /\ count \in TallyType
  BY <1>1, InHand DEF RInv, PInv, IInv
<1>3. \/ Answers /\ status' = [status EXCEPT ![job] = "completed"]
                 /\ tally' = [tally EXCEPT ![job] = count]
      \/ Fails /\ UNCHANGED <<status, tally>>
  BY DEF Finalize
<1>4. faults' = 0 => faults = 0
  BY <1>2, <1>3, FaultCount
<1>5. \A j \in Jobs : status'[j] = status[j] \/ status'[j] = "completed"
  BY <1>2, <1>3
<1>6. ASSUME faults' = 0, NEW j \in Jobs, status'[j] = "completed"
      PROVE  \/ status[j] = "completed" /\ tally'[j] = tally[j]
             \/ Filed(j, Total(j), tally'[j].sent, tally'[j].emailSent)
  <2>1. CASE j # job \/ UNCHANGED <<status, tally>>
    BY <1>2, <1>3, <1>6, <2>1
  <2>2. CASE j = job /\ ~UNCHANGED <<status, tally>>
    <3>1. tally'[j] = count /\ faults = 0
      BY <1>2, <1>3, <1>4, <1>6, <2>2
    <3>2. outcome = NotTried /\ count.cursor = Total(job)
      BY <1>1 DEF RInv, OutcomeInv, PInv, BegunInv
    <3>3. count.sent \in Nat /\ count.emailSent \in Nat /\ count.cursor \in Nat
      BY <1>2 DEF TallyType
    <3>4. /\ FiledSoFar = Total(job) /\ count.sent - Yes(outcome.wa) = count.sent
          /\ count.emailSent - Yes(outcome.email) = count.emailSent
      BY <1>1, <3>2, <3>3 DEF FiledSoFar, Yes, NotTried
    <3>5. Filed(job, FiledSoFar, count.sent - Yes(outcome.wa),
                count.emailSent - Yes(outcome.email))
      BY <1>1, <3>1 DEF RInv, FiledInv
    <3> QED
      BY <2>2, <3>1, <3>4, <3>5
  <2> QED
    BY <2>1, <2>2
<1>7. pc' \notin InJob /\ outcome' = NotTried
  BY <1>1 DEF RInv, OutcomeInv, InJob
<1> QED
  BY <1>1, <1>4, <1>5, <1>6, <1>7, ResultsKept DEF NeverClaimed

\* Every step keeps the detail rows those of the recipients passed.
LEMMA NextRInv == ASSUME RInv, [Next]_vars PROVE RInv'
<1>1. PInv' /\ PInv /\ TypeOK
  BY NextPInv DEF RInv, PInv, IInv
<1>2. ASSUME NEW j \in Jobs, NEW r \in Requests, CreateJob(j, r)
      PROVE  RInv'
  BY <1>1, <1>2, CreateRInv
<1>3. ASSUME NEW j \in Jobs, CancelRead(j)
      PROVE  RInv'
  BY <1>1, <1>3, ResultsKept DEF CancelRead, rows, worker, bounds, RInv, OutcomeInv, InJob
<1>4. ASSUME NEW j \in Jobs, NEW read \in {"pending", "running"}, CancelWrite(j, read)
      PROVE  RInv'
  <2>1. status' = [status EXCEPT ![j] = "cancelled"] \/ status' = status
    BY <1>4 DEF CancelWrite
  <2>2. \A o \in Jobs : status'[o] = status[o] \/ status'[o] = "cancelled"
    BY <1>1, <2>1 DEF TypeOK, RowsType
  <2>3. faults' = 0 => faults = 0
    BY <1>1, <1>4, FaultCount DEF CancelWrite
  <2> QED
    BY <1>1, <1>4, <2>2, <2>3, ResultsKept
       DEF CancelWrite, worker, RInv, OutcomeInv, InJob, NeverClaimed
<1>5. CASE RunKick
  BY <1>1, <1>5, ResultsKept DEF RunKick, rows, bounds, RInv, OutcomeInv, InJob
<1>6. CASE CheckTail
  <2>1. faults' = 0 => faults = 0
    BY <1>1, <1>6, FaultCount DEF CheckTail
  <2> QED
    BY <1>1, <1>6, <2>1, ResultsKept DEF CheckTail, rows, worker, RInv, OutcomeInv, InJob
<1>7. CASE FindNext
  <2>1. faults' = 0 => faults = 0
    BY <1>1, <1>7, FaultCount DEF FindNext
  <2>2. pc' \notin InJob /\ outcome' = NotTried
    BY <1>7 DEF FindNext, LeaveLoop, RInv, OutcomeInv, InJob
  <2> QED
    BY <1>1, <1>7, <2>1, <2>2, ResultsKept DEF FindNext, rows
<1>8. CASE Claim
  <2>1. CASE /\ status[job] = "pending" /\ status' = [status EXCEPT ![job] = "running"]
             /\ count' = tally[job] /\ pc' \in {"check", "finalize"}
             /\ UNCHANGED <<job, outcome, faults>>
    BY <1>1, <1>8, <2>1, ClaimRInv
  <2>2. CASE LeaveLoop /\ UNCHANGED status /\ (Answers \/ Fails)
    <3>1. faults' = 0 => faults = 0
      BY <1>1, <2>2, FaultCount
    <3> QED
      BY <1>1, <1>8, <2>2, <3>1, ResultsKept DEF Claim, LeaveLoop, InJob
  <2> QED
    BY <1>8, <2>1, <2>2 DEF Claim, Answers
<1>9. CASE CheckCancelled
  <2>1. faults' = 0 => faults = 0
    BY <1>1, <1>9, FaultCount DEF CheckCancelled
  <2>2. /\ pc = "check" /\ pc' \in {"stop", "whatsapp"} /\ pc \in InJob
        /\ UNCHANGED <<message, results, status, tally, job, count, outcome>>
    BY <1>9 DEF CheckCancelled, rows, InJob
  <2>3. OutcomeInv' /\ FiledSoFar' = FiledSoFar
    BY <2>2 DEF RInv, OutcomeInv, FiledSoFar
  <2> QED
    BY <1>1, <2>1, <2>2, <2>3, InHandRInv DEF Yes
<1>10. CASE StopJob
  <2>1. /\ pc \in InJob /\ pc' \notin InJob /\ outcome' = NotTried
        /\ UNCHANGED <<message, results>>
    BY <1>10 DEF StopJob, RInv, OutcomeInv, InJob
  <2>2. faults' = 0 => faults = 0
    BY <1>1, <1>10, FaultCount DEF StopJob
  <2>3. \/ status' = [status EXCEPT ![job] = "cancelled"] /\ tally' = [tally EXCEPT ![job] = count]
        \/ UNCHANGED <<status, tally>>
    BY <1>10 DEF StopJob
  <2>4. /\ job \in Jobs /\ tally \in [Jobs -> TallyType]
        /\ status \in [Jobs -> Statuses \cup {"absent"}]
    BY <1>1, <2>1, InHand
  <2>5. \A j \in Jobs : \/ status'[j] = status[j] /\ tally'[j] = tally[j]
                        \/ status'[j] = "cancelled"
    BY <2>3, <2>4
  <2> QED
    BY <1>1, <2>1, <2>2, <2>5, ResultsKept DEF NeverClaimed
<1>11. CASE SendWhatsapp \/ SendEmail \/ SaveResult \/ SaveProgress \/ Finalize
  BY <1>1, <1>11, WhatsappRInv, EmailRInv, ResultRInv, ProgressRInv, FinalizeRInv
<1>12. CASE Crash
  BY <1>1, <1>12, ResultsKept DEF Crash, rows, InJob
<1>13. CASE Boot
  <2>1. faults' = 0 => faults = 0
    BY <1>1, <1>13, FaultCount DEF Boot
  <2>2. \A j \in Jobs : status'[j] = status[j] \/ status'[j] = "failed"
    BY <1>1, <1>13 DEF Boot, AfterBoot
  <2> QED
    BY <1>1, <1>13, <2>1, <2>2, ResultsKept
       DEF Boot, worker, RInv, OutcomeInv, InJob, NeverClaimed
<1>14. CASE UNCHANGED vars
  BY <1>1, <1>14, ResultsKept DEF vars, rows, worker, bounds, RInv, OutcomeInv, InJob
<1> QED
  BY <1>2, <1>3, <1>4, <1>5, <1>6, <1>7, <1>8, <1>9, <1>10, <1>11, <1>12, <1>13, <1>14
     DEF Next, Worker

\* There is no job and no detail row at first.
LEMMA InitRInv == Init => RInv
<1> SUFFICES ASSUME Init PROVE RInv
  OBVIOUS
<1>1. KeysInv /\ OutcomeInv /\ FiledInv /\ DOMAIN results = Jobs
  BY DEF Init, KeysInv, OutcomeInv, FiledInv, InJob, Total, NoMessage
<1> QED
  BY <1>1, InitPInv DEF RInv

(***************************************************************************)
(* Without failing statements a completed job has one detail row per       *)
(* recipient, and as many of them say "yes" as its counters: recipients    *)
(* are told apart by their key, and upsertResult never writes over the row *)
(* of another (createJob, runJob).                                         *)
(***************************************************************************)
THEOREM ResultsAddUp == Spec => []ResultsMatchReport
<1>1. RInv => ResultsMatchReport
  <2> SUFFICES ASSUME RInv, NEW j \in Jobs, faults = 0, status[j] = "completed"
               PROVE  /\ Cardinality(DOMAIN results[j]) = Total(j)
                      /\ Filed(j, Total(j), tally[j].sent, tally[j].emailSent)
    BY DEF ResultsMatchReport, Filed, WaRows, MailRows
  <2>1. Filed(j, Total(j), tally[j].sent, tally[j].emailSent)
    BY DEF RInv, FiledInv
  <2>2. Total(j) \in Nat
    <3>1. message \in [Jobs -> [to : Seq(Contact), whatsapp : BOOLEAN, email : BOOLEAN]]
      BY DEF RInv, PInv, IInv, TypeOK, RowsType
    <3> QED
      BY <3>1 DEF Total
  <2>3. \A a, b \in 1..Total(j) : RecipientKey(message[j].to[a]) =
                                     RecipientKey(message[j].to[b]) => a = b
    BY DEF RInv, KeysInv
  <2>4. Cardinality(KeysOf(j, Total(j))) = Total(j)
    BY <2>2, <2>3, KeysCounted
  <2> QED
    BY <2>1, <2>4 DEF Filed
<1> QED
  BY <1>1, InitRInv, NextRInv, PTL DEF Spec
=============================================================================
