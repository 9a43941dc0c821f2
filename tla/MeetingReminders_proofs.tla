---------------------- MODULE MeetingReminders_proofs ----------------------
(***************************************************************************)
(* Proofs about MeetingReminders, for any meetings, channels, offsets,     *)
(* edits, cron runs, requests, faults and crashes: types, the reminders    *)
(* sent after a meeting has ended, what waits and what was announced       *)
(* against the meeting as it stands, and how often a reminder goes out.    *)
(***************************************************************************)
EXTENDS MeetingReminders, FiniteSetTheorems, TLAPS

\* The steps at which a cron run holds a row of the snapshot.
Holding == {"link", "send", "mark"}

----------------------------------------------------------------------------
(* Writing one cron run or one request keeps their types. *)

\* One entry of batch is replaced by a well-typed run.
LEMMA BatchStep ==
    ASSUME BatchesType, NEW b \in Batches, NEW r \in BatchType,
           batch' = [batch EXCEPT ![b] = r], Consistent(r)
    PROVE  BatchesType'
<1>1. batch' \in [Batches -> BatchType]
  BY DEF BatchesType
<1>2. ASSUME NEW c \in Batches
      PROVE  Consistent(batch'[c])
  <2>1. batch'[c] = IF c = b THEN r ELSE batch[c]
    BY DEF BatchesType
  <2> QED
    BY <2>1 DEF BatchesType
<1>3. (\A c \in Batches : Consistent(batch[c]))'
  BY <1>2 DEF Consistent
<1> QED
  BY <1>1, <1>3 DEF BatchesType

\* One entry of request is replaced by a well-typed request.
LEMMA RequestStep ==
    ASSUME RequestsType, NEW h \in Handlers, NEW r \in RequestType,
           request' = [request EXCEPT ![h] = r],
           r.pc # "idle" <=> r.meeting # None
    PROVE  RequestsType'
<1> USE DEF RequestsType
<1>1. request' \in [Handlers -> RequestType]
  OBVIOUS
<1>2. ASSUME NEW g \in Handlers
      PROVE  request'[g].pc # "idle" <=> request'[g].meeting # None
  <2>1. CASE g = h
    BY <2>1
  <2>2. CASE g # h
    <3>1. request'[g] = request[g]
      BY <2>2
    <3> QED
      BY <3>1
  <2> QED
    BY <2>1, <2>2
<1> QED
  BY <1>1, <1>2

\* The run and the request that wait for work are well typed.
LEMMA IdleTypes ==
    /\ NoRow \in Row
    /\ IdleBatch \in BatchType /\ Consistent(IdleBatch)
    /\ IdleReq \in RequestType /\ IdleReq.pc = "idle" /\ IdleReq.meeting = None
<1>1. NoRow \in Row
  BY DEF NoRow, Row, Statuses
<1>2. IdleBatch \in BatchType /\ Consistent(IdleBatch)
  BY <1>1 DEF IdleBatch, BatchType, Consistent
<1>3. IdleReq \in RequestType /\ IdleReq.pc = "idle" /\ IdleReq.meeting = None
  BY <1>1 DEF IdleReq, RequestType
<1> QED
  BY <1>1, <1>2, <1>3

\* The columns a request changes keep the row well typed.
LEMMA PatchedType ==
    ASSUME NEW row \in Row, NEW dto \in Edits, row.status \in Statuses
    PROVE  Patched(row, dto) \in Row
<1>1. /\ Given(dto, row, "status") \in Statuses
      /\ Given(dto, row, "date") \in Nat
      /\ Given(dto, row, "contact") \in SUBSET Channels
      /\ Given(dto, row, "wanted") \in SUBSET Choices
  <2>1. /\ row.status \in Statuses /\ row.date \in Nat
        /\ row.contact \in SUBSET Channels /\ row.wanted \in SUBSET Choices
    BY DEF Row
  <2>2. /\ "status" \in DOMAIN dto => dto["status"] \in Statuses
        /\ "date" \in DOMAIN dto => dto["date"] \in Nat
        /\ "contact" \in DOMAIN dto => dto["contact"] \in SUBSET Channels
        /\ "wanted" \in DOMAIN dto => dto["wanted"] \in SUBSET Choices
    BY EditsAssumption
  <2> QED
    BY <2>1, <2>2 DEF Given
<1> QED
  BY <1>1 DEF Patched, Row

\* What follows a write of the row is a well-typed request.
LEMMA ThenType ==
    ASSUME RequestsType, NEW h \in Handlers, NEW m \in Meetings, NEW row \in Row,
           NEW refresh \in BOOLEAN, NEW reset \in BOOLEAN, Then(h, m, row, refresh, reset)
    PROVE  RequestsType'
<1>1. CASE ~refresh
  <2>1. request' = [request EXCEPT ![h] = IdleReq]
    BY <1>1 DEF Then
  <2> QED
    BY <2>1, IdleTypes, RequestStep
<1>2. CASE refresh
  <2> DEFINE r == [IdleReq EXCEPT !.pc = IF Keeps(row) THEN "list" ELSE "cancel",
                                  !.meeting = m, !.row = row, !.reset = reset]
  <2>1. request' = [request EXCEPT ![h] = r]
    BY <1>2 DEF Then
  <2>2. r \in RequestType /\ r.pc # "idle" /\ r.meeting # None
    BY NoneAssumption DEF IdleReq, RequestType
  <2> QED
    BY <2>1, <2>2, RequestStep
<1> QED
  BY <1>1, <1>2

----------------------------------------------------------------------------
(* Requests *)

\* Init puts every part in its idle, well-typed state.
LEMMA InitTypes == Init => TypeOK
<1> SUFFICES ASSUME Init PROVE TypeOK
  OBVIOUS
<1> USE DEF Init
<1>1. TableType
  BY IdleTypes DEF TableType
<1>2. CountType
  BY DEF CountType
<1>3. BatchesType
  BY IdleTypes DEF BatchesType
<1>4. RequestsType
  BY IdleTypes DEF RequestsType
<1>5. HistoryType
  BY DEF HistoryType
<1> QED
  BY <1>1, <1>2, <1>3, <1>4, <1>5 DEF TypeOK

\* create starts a handler that is well typed, with a well-typed row.
LEMMA CreateType ==
    ASSUME TypeOK, NEW h \in Handlers, NEW m \in Meetings, Create(h, m)
    PROVE  TypeOK'
<1> USE DEF TypeOK
<1>0. PICK row \in Inserts :
         /\ meeting' = [meeting EXCEPT ![m] = row]
         /\ Then(h, m, row, Keeps(row), FALSE) \/ UNCHANGED request
         /\ unplanned' \in {unplanned, unplanned \cup {m}} /\ (Answers \/ Fails)
  BY DEF Create
<1>1. row \in Row
  BY InsertsAssumption
<1>2. UNCHANGED <<table, now, batch, edits, crashes, sends, announced, raced, clash, movedOff,
                  after>>
  BY DEF Create
<1>3. TableType'
  BY <1>0, <1>1, <1>2 DEF TableType, table
<1>4. CountType'
  BY <1>0, <1>2 DEF CountType, Answers, Fails
<1>5. BatchesType'
  BY <1>2 DEF BatchesType
<1>6. RequestsType'
  <2>1. Keeps(row) \in BOOLEAN
    BY DEF Keeps
  <2>2. UNCHANGED request => RequestsType'
    BY DEF RequestsType
  <2> QED
    BY <1>0, <1>1, <2>1, <2>2, ThenType
<1>7. HistoryType'
  BY <1>0, <1>2 DEF HistoryType
<1> QED
  BY <1>3, <1>4, <1>5, <1>6, <1>7

\* The read of update copies a well-typed row.
LEMMA UpdateReadType ==
    ASSUME TypeOK, NEW h \in Handlers, NEW m \in Meetings, UpdateRead(h, m)
    PROVE  TypeOK'
<1> USE DEF TypeOK
<1> DEFINE r == [IdleReq EXCEPT !.pc = "patch", !.meeting = m, !.row = meeting[m]]
<1>1. TableType'
  BY DEF UpdateRead, TableType, table
<1>2. CountType'
  BY DEF UpdateRead, CountType
<1>3. BatchesType'
  BY DEF UpdateRead, BatchesType
<1>4. RequestsType'
  <2>1. meeting[m] \in Row
    BY DEF TableType
  <2>2. r \in RequestType /\ r.pc # "idle" /\ r.meeting # None
    BY <2>1, NoneAssumption DEF IdleReq, RequestType
  <2>3. request' = [request EXCEPT ![h] = r]
    BY DEF UpdateRead
  <2> QED
    BY <2>2, <2>3, RequestStep
<1>5. HistoryType'
  BY DEF UpdateRead, HistoryType
<1> QED
  BY <1>1, <1>2, <1>3, <1>4, <1>5

\* Starting the late-delivery count of a meeting again keeps its type.
LEMMA ForgetType ==
    ASSUME after \in [Meetings -> [Batches -> Nat]], NEW m \in Meetings,
           Forget(m) \/ UNCHANGED after
    PROVE  after' \in [Meetings -> [Batches -> Nat]]
  BY DEF Forget

\* The patch of update leaves a well-typed row and a well-typed next step.
LEMMA UpdatePatchType ==
    ASSUME TypeOK, NEW h \in Handlers, UpdatePatch(h)
    PROVE  TypeOK'
<1> USE DEF TypeOK
<1> DEFINE m == request[h].meeting
           old == request[h].row
<1>0. m \in Meetings
  BY DEF UpdatePatch, RequestsType, RequestType
<1>1. UNCHANGED <<table, now, batch, edits, crashes, sends, announced, raced, clash, unplanned>>
  BY DEF UpdatePatch
<1>2. BatchesType'
  BY <1>1 DEF BatchesType
<1>3. CountType'
  BY <1>1 DEF CountType, UpdatePatch, Answers, Fails
<1>4. CASE \E dto \in Edits :
              /\ Exists(m)
              /\ meeting' = [meeting EXCEPT ![m] = Patched(meeting[m], dto)]
              /\ \/ Then(h, m, Patched(meeting[m], dto), Reschedule(dto, old),
                         ResetSent(dto, old))
                 \/ request' = [request EXCEPT ![h] = IdleReq]
              /\ Forget(m) \/ UNCHANGED after
              /\ movedOff' \in {movedOff \cup {m}, movedOff}
  <2>1. PICK dto \in Edits :
              /\ Exists(m)
              /\ meeting' = [meeting EXCEPT ![m] = Patched(meeting[m], dto)]
              /\ \/ Then(h, m, Patched(meeting[m], dto), Reschedule(dto, old),
                         ResetSent(dto, old))
                 \/ request' = [request EXCEPT ![h] = IdleReq]
              /\ Forget(m) \/ UNCHANGED after
              /\ movedOff' \in {movedOff \cup {m}, movedOff}
    BY <1>4
  <2>2. Patched(meeting[m], dto) \in Row
    BY <1>0, <2>1, PatchedType DEF TableType, Exists
  <2>3. TableType'
    BY <1>0, <1>1, <2>1, <2>2 DEF TableType, table
  <2>4. RequestsType'
    <3>1. Reschedule(dto, old) \in BOOLEAN /\ ResetSent(dto, old) \in BOOLEAN
      BY DEF Reschedule, ResetSent, DateChanged
    <3>2. CASE request' = [request EXCEPT ![h] = IdleReq]
      BY <3>2, IdleTypes, RequestStep
    <3>3. CASE Then(h, m, Patched(meeting[m], dto), Reschedule(dto, old), ResetSent(dto, old))
      BY <1>0, <2>2, <3>1, <3>3, ThenType
    <3> QED
      BY <2>1, <3>2, <3>3
  <2>5. HistoryType'
    BY <1>0, <1>1, <2>1, ForgetType DEF HistoryType
  <2> QED
    BY <1>2, <1>3, <2>3, <2>4, <2>5
<1>5. CASE request' = [request EXCEPT ![h] = IdleReq] /\ UNCHANGED <<meeting, after, movedOff>>
  <2>1. RequestsType'
    BY <1>5, IdleTypes, RequestStep
  <2>2. TableType'
    BY <1>1, <1>5 DEF TableType, table
  <2>3. HistoryType'
    BY <1>1, <1>5 DEF HistoryType
  <2> QED
    BY <1>2, <1>3, <2>1, <2>2, <2>3
<1> QED
  BY <1>4, <1>5 DEF UpdatePatch

\* Listing the jobs copies the stored ones.
LEMMA ListJobsType ==
    ASSUME TypeOK, NEW h \in Handlers, ListJobs(h)
    PROVE  TypeOK'
<1> USE DEF TypeOK
<1>1. PICK found \in {TRUE, FALSE} :
         request' = [request EXCEPT
            ![h].pc = "upsert", ![h].at = now,
            ![h].keep = {k \in SlotsOf(request[h].meeting) :
                            found /\ Kept(k) /\ ~request[h].reset}]
  BY DEF ListJobs
<1> DEFINE K == {k \in SlotsOf(request[h].meeting) : found /\ Kept(k) /\ ~request[h].reset}
           r == [request[h] EXCEPT !.pc = "upsert", !.at = now, !.keep = K]
<1>2. RequestsType'
  <2>1. K \in SUBSET Slots
    BY DEF SlotsOf
  <2>2. request[h] \in RequestType /\ request[h].meeting # None
    BY DEF RequestsType, ListJobs
  <2>3. now \in Nat
    BY DEF CountType
  <2> HIDE DEF K
  <2>4. r \in RequestType /\ r.pc # "idle" /\ r.meeting # None
    BY <2>1, <2>2, <2>3 DEF RequestType
  <2>5. request' = [request EXCEPT ![h] = r]
    BY <1>1 DEF K, RequestsType
  <2> QED
    BY <2>4, <2>5, RequestStep
<1>3. TableType' /\ BatchesType' /\ HistoryType'
  BY DEF ListJobs, TableType, BatchesType, HistoryType, table, history
<1>4. CountType'
  BY DEF ListJobs, CountType, Answers, Fails
<1> QED
  BY <1>2, <1>3, <1>4

\* The jobs written by scheduleJobsForMeeting are well typed.
LEMMA UpsertJobsType ==
    ASSUME TypeOK, NEW h \in Handlers, UpsertJobs(h)
    PROVE  TypeOK'
<1> USE DEF TypeOK
<1>1. RequestsType'
  <2>1. request' = [request EXCEPT ![h] = IdleReq]
    BY DEF UpsertJobs
  <2> QED
    BY <2>1, IdleTypes, RequestStep
<1>2. BatchesType'
  BY DEF UpsertJobs, BatchesType
<1>3. CountType'
  BY DEF UpsertJobs, CountType, Answers, Fails
<1> DEFINE m == request[h].meeting
           row == request[h].row
           new == SlotsOf(m) \ request[h].keep
<1>4. row \in Row /\ new \subseteq Slots
  BY DEF RequestsType, RequestType, SlotsOf
<1>5. UNCHANGED <<meeting, announced, clash, after>>
  BY DEF UpsertJobs
<1>6. TableType'
  <2>1. \A k \in Slots : Planned(row, k, request[h].at) \in {"pending", "skipped"}
    BY DEF Planned
  <2>2. \A k \in Slots : SendAt(row, k) \in Int
    BY <1>4, LeadAssumption DEF SendAt, Row, Slots
  <2>3. CASE /\ status' = [k \in Slots |-> IF k \in new THEN Planned(row, k, request[h].at)
                                           ELSE status[k]]
             /\ sendAt' = [k \in Slots |-> IF k \in new THEN SendAt(row, k) ELSE sendAt[k]]
    <3> HIDE DEF new, row
    <3> QED
      BY <1>5, <2>1, <2>2, <2>3 DEF TableType
  <2>4. CASE UNCHANGED table
    BY <1>5, <2>4 DEF TableType, table
  <2> QED
    BY <2>3, <2>4 DEF UpsertJobs
<1>7. HistoryType'
  <2>1. sends' = sends \/ sends' = [k \in Slots |-> IF k \in new THEN 0 ELSE sends[k]]
    BY DEF UpsertJobs
  <2>2. /\ raced' \subseteq raced \cup new /\ movedOff' \subseteq movedOff
        /\ unplanned' \subseteq unplanned
    BY DEF UpsertJobs
  <2> HIDE DEF new
  <2> QED
    BY <1>4, <1>5, <2>1, <2>2 DEF HistoryType
<1> QED
  BY <1>1, <1>2, <1>3, <1>6, <1>7

\* cancelPendingJobs only turns pending jobs into cancelled ones.
LEMMA CancelJobsType ==
    ASSUME TypeOK, NEW h \in Handlers, CancelJobs(h)
    PROVE  TypeOK'
<1> USE DEF TypeOK
<1>1. RequestsType'
  <2>1. request' = [request EXCEPT ![h] = IdleReq]
    BY DEF CancelJobs
  <2> QED
    BY <2>1, IdleTypes, RequestStep
<1>2. TableType'
  BY DEF CancelJobs, TableType
<1>3. BatchesType' /\ HistoryType'
  BY DEF CancelJobs, BatchesType, HistoryType, history
<1>4. CountType'
  BY DEF CancelJobs, CountType, Answers, Fails
<1> QED
  BY <1>1, <1>2, <1>3, <1>4

\* Removing a meeting takes its jobs away with it.
LEMMA RemoveType ==
    ASSUME TypeOK, NEW m \in Meetings, Remove(m)
    PROVE  TypeOK'
<1> USE DEF TypeOK
<1>1. TableType'
  <2>1. [NoRow EXCEPT !.status = "deleted"] \in Row
    BY IdleTypes DEF Row
  <2>2. meeting' = [meeting EXCEPT ![m] = [NoRow EXCEPT !.status = "deleted"]]
    BY DEF Remove
  <2>3. meeting' \in [Meetings -> Row]
    BY <2>1, <2>2 DEF TableType
  <2> QED
    BY <2>3 DEF Remove, TableType
<1>2. BatchesType' /\ RequestsType'
  BY DEF Remove, BatchesType, RequestsType
<1>3. CountType'
  BY DEF Remove, CountType
<1>4. HistoryType'
  BY ForgetType DEF Remove, HistoryType
<1> QED
  BY <1>1, <1>2, <1>3, <1>4

----------------------------------------------------------------------------
(* Cron runs *)

\* A run takes rows that exist, and its own record keeps its type.
LEMMA FireType ==
    ASSUME TypeOK, NEW b \in Batches, Fire(b)
    PROVE  TypeOK'
<1> USE DEF TypeOK
<1>1. BatchesType'
  <2>1. CASE \E S \in SUBSET Due : batch' = [batch EXCEPT ![b] = [IdleBatch EXCEPT
                !.pc = "next", !.todo = {[slot |-> k, at |-> sendAt[k]] : k \in S}]]
    <3>1. PICK S \in SUBSET Due : batch' = [batch EXCEPT ![b] = [IdleBatch EXCEPT
                !.pc = "next", !.todo = {[slot |-> k, at |-> sendAt[k]] : k \in S}]]
      BY <2>1
    <3> DEFINE D == {[slot |-> k, at |-> sendAt[k]] : k \in S}
               r == [IdleBatch EXCEPT !.pc = "next", !.todo = D]
    <3>2. D \in SUBSET [slot : Slots, at : Int]
      BY DEF Due, TableType
    <3> HIDE DEF D
    <3>3. r \in BatchType /\ Consistent(r)
      BY <3>2, IdleTypes DEF BatchType, IdleBatch, Consistent
    <3>4. batch' = [batch EXCEPT ![b] = r]
      BY <3>1 DEF D
    <3> QED
      BY <3>3, <3>4, BatchStep
  <2>2. CASE UNCHANGED batch
    BY <2>2 DEF BatchesType
  <2> QED
    BY <2>1, <2>2 DEF Fire
<1>2. TableType' /\ RequestsType' /\ HistoryType'
  BY DEF Fire, TableType, RequestsType, HistoryType, table, history
<1>3. CountType'
  <2>1. UNCHANGED <<now, edits, crashes>> /\ faults' \in {faults, faults + 1}
    <3>1. UNCHANGED <<now, edits, crashes>>
      BY DEF Fire
    <3>2. Answers \/ Fails
      BY DEF Fire
    <3> QED
      BY <3>1, <3>2 DEF Answers, Fails
  <2> QED
    BY <2>1 DEF CountType
<1> QED
  BY <1>1, <1>2, <1>3

\* LoadNext moves one row of the snapshot into the run's hand: to be sent, with
\* an active meeting, or to be marked skipped.
LEMMA LoadNextStep ==
    ASSUME TypeOK, NEW b \in Batches, LoadNext(b)
    PROVE  \E r \in BatchType :
              /\ batch' = [batch EXCEPT ![b] = r]
              /\ r.pc \in {"link", "mark"} /\ r.slot \in Slots /\ Consistent(r)
              /\ r.pc = "link" => Keeps(meeting[r.slot.meeting])
<1> USE DEF TypeOK
<1>1. PICK t \in batch[b].todo :
         LET row == meeting[t.slot.meeting]
             left == [batch[b] EXCEPT !.todo = @ \ {t}, !.slot = t.slot]
         IN  \/ /\ Sendable(row)
                /\ batch' = [batch EXCEPT ![b] = [left EXCEPT !.pc = "link", !.held = row]]
             \/ batch' = [batch EXCEPT ![b] = [left EXCEPT !.pc = "mark", !.mark = "skipped"]]
  BY DEF LoadNext
<1> DEFINE row == meeting[t.slot.meeting]
           left == [batch[b] EXCEPT !.todo = @ \ {t}, !.slot = t.slot]
<1>2. batch[b] \in BatchType /\ batch[b].mark = "none"
  BY DEF BatchesType, Consistent, LoadNext
<1>3. t.slot \in Slots
  BY <1>2 DEF BatchType
<1>4. row \in Row
  BY <1>3 DEF TableType, Slots
<1>5. left \in BatchType /\ left.slot = t.slot /\ left.mark = "none"
  BY <1>2, <1>3 DEF BatchType
<1>6. CASE /\ Sendable(row)
           /\ batch' = [batch EXCEPT ![b] = [left EXCEPT !.pc = "link", !.held = row]]
  <2> DEFINE r == [left EXCEPT !.pc = "link", !.held = row]
  <2>1. r.slot = t.slot /\ r.pc = "link" /\ r.mark = "none"
    BY <1>5 DEF BatchType
  <2>2. Keeps(meeting[r.slot.meeting])
    BY <1>6, <2>1 DEF Sendable
  <2> HIDE DEF left, row
  <2>3. r \in BatchType
    BY <1>4, <1>5 DEF BatchType
  <2> HIDE DEF r
  <2>4. batch' = [batch EXCEPT ![b] = r]
    BY <1>6 DEF r
  <2>5. Consistent(r)
    BY <1>3, <2>1, NoneAssumption DEF Consistent
  <2> QED
    BY <1>3, <2>1, <2>2, <2>3, <2>4, <2>5
<1>7. CASE batch' = [batch EXCEPT ![b] = [left EXCEPT !.pc = "mark", !.mark = "skipped"]]
  <2> DEFINE r == [left EXCEPT !.pc = "mark", !.mark = "skipped"]
  <2>1. r.slot = t.slot /\ r.pc = "mark" /\ r.mark = "skipped"
    BY <1>5 DEF BatchType
  <2> HIDE DEF left
  <2>2. r \in BatchType
    BY <1>5 DEF BatchType
  <2> HIDE DEF r
  <2>3. batch' = [batch EXCEPT ![b] = r]
    BY <1>7 DEF r
  <2>4. Consistent(r)
    BY <1>3, <2>1, NoneAssumption DEF Consistent
  <2> QED
    BY <1>3, <2>1, <2>2, <2>3, <2>4
<1> QED
  BY <1>1, <1>6, <1>7

\* executeJob holds a stored meeting, or goes on to the next job.
LEMMA LoadNextType ==
    ASSUME TypeOK, NEW b \in Batches, LoadNext(b)
    PROVE  TypeOK'
<1> USE DEF TypeOK
<1>1. PICK r \in BatchType : batch' = [batch EXCEPT ![b] = r] /\ Consistent(r)
  BY LoadNextStep
<1>2. BatchesType'
  BY <1>1, BatchStep
<1>3. TableType' /\ RequestsType' /\ HistoryType'
  BY DEF LoadNext, TableType, RequestsType, HistoryType, table, history
<1>4. CountType'
  BY DEF LoadNext, CountType, Answers, Fails
<1> QED
  BY <1>2, <1>3, <1>4

\* A run that is past LoadNext has a row of the table in hand.
LEMMA InHandSlot ==
    ASSUME BatchesType, NEW b \in Batches, batch[b].pc \in Holding
    PROVE  batch[b] \in BatchType /\ batch[b].slot \in Slots /\ batch[b].slot.meeting \in Meetings
<1>1. batch[b] \in BatchType /\ batch[b].slot # None
  BY DEF BatchesType, Consistent, Holding
<1>2. batch[b].slot \in Slots
  BY <1>1 DEF BatchType
<1> QED
  BY <1>1, <1>2 DEF Slots

\* EnsureLink changes what the run holds and where it goes, never its row.
LEMMA EnsureLinkStep ==
    ASSUME TypeOK, NEW b \in Batches, EnsureLink(b)
    PROVE  \E r \in BatchType :
              /\ batch' = [batch EXCEPT ![b] = r]
              /\ r.slot = batch[b].slot /\ r.pc \in {"send", "mark"} /\ Consistent(r)
<1> USE DEF TypeOK
<1>1. batch[b] \in BatchType /\ batch[b].slot \in Slots /\ meeting[batch[b].slot.meeting] \in Row
  BY InHandSlot DEF EnsureLink, Holding, TableType
<1>2. PICK held \in {batch[b].held} \cup
                    {row \in {meeting[batch[b].slot.meeting]} : row.status \in Statuses} :
          batch' = [batch EXCEPT
             ![b].held = held,
             ![b].pc = IF batch[b].slot.channel \in held.contact THEN "send" ELSE "mark",
             ![b].mark = IF batch[b].slot.channel \in held.contact THEN "none"
                         ELSE NoRecipient]
  BY DEF EnsureLink
<1>3. held \in Row
  BY <1>1, <1>2 DEF BatchType
<1> DEFINE r == [batch[b] EXCEPT
             !.held = held,
             !.pc = IF batch[b].slot.channel \in held.contact THEN "send" ELSE "mark",
             !.mark = IF batch[b].slot.channel \in held.contact THEN "none" ELSE NoRecipient]
<1>4. r \in BatchType /\ r.slot = batch[b].slot /\ r.pc \in {"send", "mark"}
  BY <1>1, <1>3 DEF BatchType, NoRecipient
<1>5. batch' = [batch EXCEPT ![b] = r]
  BY <1>2 DEF BatchesType
<1>6. r.pc = "mark" <=> r.mark # "none"
  BY <1>1 DEF BatchType, NoRecipient
<1>7. Consistent(r)
  BY <1>1, <1>4, <1>6, NoneAssumption DEF Consistent
<1> QED
  BY <1>4, <1>5, <1>7

\* Whatever comes of the Meet link, the batch stays well typed.
LEMMA EnsureLinkType ==
    ASSUME TypeOK, NEW b \in Batches, EnsureLink(b)
    PROVE  TypeOK'
<1> USE DEF TypeOK
<1>1. PICK r \in BatchType : batch' = [batch EXCEPT ![b] = r] /\ Consistent(r)
  BY EnsureLinkStep
<1>2. BatchesType'
  BY <1>1, BatchStep
<1>3. TableType' /\ RequestsType' /\ HistoryType' /\ CountType'
  BY DEF EnsureLink, TableType, RequestsType, HistoryType, CountType, table, history, bounds
<1> QED
  BY <1>2, <1>3

\* Send leaves the row in hand for Mark, and counts a late delivery.
LEMMA SendStep ==
    ASSUME TypeOK, NEW b \in Batches, Send(b)
    PROVE  /\ \E r \in BatchType : /\ batch' = [batch EXCEPT ![b] = r]
                                   /\ r.pc = "mark" /\ Consistent(r)
           /\ LET m == batch[b].slot.meeting
              IN  \/ UNCHANGED after
                  \/ /\ ~Keeps(meeting[m])
                     /\ after' = [after EXCEPT ![m] = [after[m] EXCEPT ![b] = after[m][b] + 1]]
<1> USE DEF TypeOK
<1>1. batch[b] \in BatchType /\ batch[b].slot \in Slots
  BY InHandSlot DEF Send, Holding
<1>2. PICK mark \in {"sent", "failed"} :
          batch' = [batch EXCEPT ![b].pc = "mark", ![b].mark = mark]
  BY DEF Send
<1> DEFINE r == [batch[b] EXCEPT !.pc = "mark", !.mark = mark]
<1>3. r \in BatchType /\ r.slot = batch[b].slot /\ r.pc = "mark" /\ r.mark # "none"
  BY <1>1 DEF BatchType
<1>4. batch' = [batch EXCEPT ![b] = r]
  BY <1>2 DEF BatchesType
<1>5. Consistent(r)
  BY <1>1, <1>3, NoneAssumption DEF Consistent
<1> QED
  BY <1>3, <1>4, <1>5 DEF Send

\* A send records a well-typed announcement and leaves the row alone.
LEMMA SendType ==
    ASSUME TypeOK, NEW b \in Batches, Send(b)
    PROVE  TypeOK'
<1> USE DEF TypeOK
<1>1. batch[b] \in BatchType /\ batch[b].slot \in Slots /\ batch[b].slot.meeting \in Meetings
  BY InHandSlot DEF Send, Holding
<1>2. BatchesType'
  <2>1. PICK r \in BatchType : batch' = [batch EXCEPT ![b] = r] /\ Consistent(r)
    BY SendStep
  <2> QED
    BY <2>1, BatchStep
<1>3. TableType' /\ RequestsType' /\ CountType'
  BY DEF Send, TableType, RequestsType, CountType, table, bounds
<1>4. HistoryType'
  <2>1. sends' \in [Slots -> Nat]
    BY <1>1 DEF Send, HistoryType
  <2>2. announced' \in [Slots -> SUBSET Nat]
    <3>1. batch[b].held.date \in Nat
      BY <1>1 DEF BatchType, Row
    <3> QED
      BY <1>1, <3>1 DEF Send, HistoryType
  <2>3. after' \in [Meetings -> [Batches -> Nat]]
    <3> DEFINE m == batch[b].slot.meeting
    <3>1. CASE UNCHANGED after
      BY <3>1 DEF HistoryType
    <3>2. CASE after' = [after EXCEPT ![m] = [after[m] EXCEPT ![b] = after[m][b] + 1]]
      <4> DEFINE F == [after[m] EXCEPT ![b] = after[m][b] + 1]
      <4>1. after[m] \in [Batches -> Nat] /\ after[m][b] + 1 \in Nat
        BY <1>1 DEF HistoryType
      <4>2. F \in [Batches -> Nat]
        BY <4>1
      <4>3. after' = [after EXCEPT ![m] = F]
        BY <3>2 DEF F
      <4> HIDE DEF F
      <4> QED
        BY <4>2, <4>3 DEF HistoryType
    <3> QED
      BY <3>1, <3>2, SendStep
  <2> QED
    BY <2>1, <2>2, <2>3 DEF Send, HistoryType
<1> QED
  BY <1>2, <1>3, <1>4

\* Mark lets go of the row.
LEMMA MarkStep ==
    ASSUME TypeOK, NEW b \in Batches, Mark(b)
    PROVE  \E r \in BatchType : /\ batch' = [batch EXCEPT ![b] = r]
                                /\ r.pc \in {"idle", "next"} /\ Consistent(r)
<1> USE DEF TypeOK
<1>1. batch[b].todo \in SUBSET [slot : Slots, at : Int]
  BY DEF BatchesType, BatchType
<1> DEFINE r == IF batch[b].todo = {} THEN IdleBatch
                ELSE [IdleBatch EXCEPT !.pc = "next", !.todo = batch[b].todo]
<1>2. r \in BatchType /\ r.pc \in {"idle", "next"} /\ Consistent(r)
  BY <1>1, IdleTypes DEF BatchType, IdleBatch, Consistent
<1>3. batch' = [batch EXCEPT ![b] = r]
  BY DEF Mark
<1> QED
  BY <1>2, <1>3

\* markJob writes a status of the table and the batch goes on.
LEMMA MarkType ==
    ASSUME TypeOK, NEW b \in Batches, Mark(b)
    PROVE  TypeOK'
<1> USE DEF TypeOK
<1>1. BatchesType'
  <2>1. PICK r \in BatchType : batch' = [batch EXCEPT ![b] = r] /\ Consistent(r)
    BY MarkStep
  <2> QED
    BY <2>1, BatchStep
<1>2. TableType'
  <2>1. MarkOf(b) \in {"sent", "skipped", "failed"}
    BY DEF MarkOf, BatchesType, BatchType, Consistent, Mark
  <2> QED
    BY <2>1 DEF Mark, TableType
<1>3. RequestsType' /\ HistoryType'
  BY DEF Mark, RequestsType, HistoryType, history
<1>4. CountType'
  BY DEF Mark, CountType, Answers, Fails
<1> QED
  BY <1>1, <1>2, <1>3, <1>4

----------------------------------------------------------------------------
(* Type correctness *)

\* Every step keeps the types.
LEMMA NextTypes == TypeOK /\ [Next]_vars => TypeOK'
<1> SUFFICES ASSUME TypeOK, [Next]_vars
             PROVE  TypeOK'
  OBVIOUS
<1>1. CASE Tick
  BY <1>1 DEF TypeOK, Tick, TableType, CountType, BatchesType, RequestsType, HistoryType,
              table, bounds, history
<1>2. CASE Crash
  <2>1. BatchesType' /\ RequestsType'
    BY <1>2, IdleTypes DEF Crash, BatchesType, RequestsType, Consistent
  <2>2. TableType' /\ CountType' /\ HistoryType'
    BY <1>2 DEF TypeOK, Crash, TableType, CountType, HistoryType, table, history
  <2> QED
    BY <2>1, <2>2 DEF TypeOK
<1>3. CASE UNCHANGED vars
  BY <1>3 DEF TypeOK, vars, TableType, CountType, BatchesType, RequestsType, HistoryType,
              table, bounds, history
<1>4. CASE \E h \in Handlers, m \in Meetings : Create(h, m) \/ UpdateRead(h, m)
  BY <1>4, CreateType, UpdateReadType
<1>5. CASE \E h \in Handlers : UpdatePatch(h) \/ ListJobs(h) \/ UpsertJobs(h) \/ CancelJobs(h)
  BY <1>5, UpdatePatchType, ListJobsType, UpsertJobsType, CancelJobsType
<1>6. CASE \E m \in Meetings : Remove(m)
  BY <1>6, RemoveType
<1>7. CASE \E b \in Batches : Cron(b)
  BY <1>7, FireType, LoadNextType, EnsureLinkType, SendType, MarkType DEF Cron
<1> QED
  BY <1>1, <1>2, <1>3, <1>4, <1>5, <1>6, <1>7 DEF Next

\* The two tables, the cron runs, the requests and the history are well typed in
\* every behaviour of processDueReminders and the requests.
THEOREM TypeCorrect == Spec => []TypeOK
<1>1. Init => TypeOK
  BY InitTypes
<1>2. TypeOK /\ [Next]_vars => TypeOK'
  BY NextTypes
<1> QED
  BY <1>1, <1>2, PTL DEF Spec

----------------------------------------------------------------------------
(* At most one late reminder *)

\* A run that still has to send for a meeting that has ended read the meeting
\* before it ended, and has delivered nothing since.
LateInv ==
    \A m \in Meetings, b \in Batches :
        /\ after[m][b] <= 1
        /\ batch[b].pc \in {"link", "send"} /\ batch[b].slot.meeting = m /\ ~Keeps(meeting[m])
              => after[m][b] = 0

LateIInv == TypeOK /\ LateInv

\* Requests, the clock and the other runs: the runs keep their place, and a
\* meeting that ends starts its count again.
LEMMA LateAside ==
    ASSUME LateIInv, UNCHANGED batch,
           \A m \in Meetings :
              \/ /\ after'[m] = after[m]
                 /\ Keeps(meeting[m]) => Keeps(meeting'[m])
              \/ \A b \in Batches : after'[m][b] = 0
    PROVE  LateInv'
<1> SUFFICES ASSUME NEW m \in Meetings, NEW b \in Batches
             PROVE  /\ after'[m][b] <= 1
                    /\ batch[b].pc \in {"link", "send"} /\ batch[b].slot.meeting = m
                       /\ ~Keeps(meeting'[m]) => after'[m][b] = 0
  BY DEF LateInv, Keeps
<1>1. CASE after'[m] = after[m] /\ (Keeps(meeting[m]) => Keeps(meeting'[m]))
  BY <1>1 DEF LateIInv, LateInv
<1>2. CASE \A c \in Batches : after'[m][c] = 0
  BY <1>2
<1> QED
  BY <1>1, <1>2

\* A step of a run that leaves the counts alone keeps LateInv when the run gets
\* to "link" only with an active meeting, and to "send" only from "link".
LEMMA LateRun ==
    ASSUME LateIInv, NEW b \in Batches, NEW r \in BatchType,
           batch' = [batch EXCEPT ![b] = r], UNCHANGED <<after, meeting>>,
           \/ r.pc \notin {"link", "send"}
           \/ Keeps(meeting[r.slot.meeting])
           \/ batch[b].pc = "link" /\ r.slot = batch[b].slot
    PROVE  LateInv'
<1> SUFFICES ASSUME NEW m \in Meetings, NEW c \in Batches
             PROVE  /\ after[m][c] <= 1
                    /\ batch'[c].pc \in {"link", "send"} /\ batch'[c].slot.meeting = m
                       /\ ~Keeps(meeting[m]) => after[m][c] = 0
  BY DEF LateInv, Keeps
<1>1. batch'[c] = IF c = b THEN r ELSE batch[c]
  BY DEF LateIInv, TypeOK, BatchesType
<1>2. /\ after[m][c] <= 1
      /\ batch[c].pc \in {"link", "send"} /\ batch[c].slot.meeting = m /\ ~Keeps(meeting[m])
            => after[m][c] = 0
  BY DEF LateIInv, LateInv
<1> QED
  BY <1>1, <1>2

\* A send after the meeting was dropped is the first its batch makes: none was counted
\* while it held the job.
LEMMA LateSend ==
    ASSUME LateIInv, NEW b \in Batches, Send(b)
    PROVE  LateInv'
<1> DEFINE n == batch[b].slot.meeting
<1>1. PICK r \in BatchType : batch' = [batch EXCEPT ![b] = r] /\ r.pc = "mark"
  BY SendStep DEF LateIInv
<1>2. UNCHANGED meeting
  BY DEF Send
<1>3. CASE UNCHANGED after
  BY <1>1, <1>2, <1>3, LateRun
<1>4. CASE /\ ~Keeps(meeting[n])
           /\ after' = [after EXCEPT ![n] = [after[n] EXCEPT ![b] = after[n][b] + 1]]
  <2>1. batch[b].pc = "send" /\ n \in Meetings
    BY InHandSlot DEF Send, Holding, LateIInv, TypeOK
  <2>2. after[n][b] = 0
    BY <1>4, <2>1 DEF LateIInv, LateInv
  <2> SUFFICES ASSUME NEW m \in Meetings, NEW c \in Batches
               PROVE  /\ after'[m][c] <= 1
                      /\ batch'[c].pc \in {"link", "send"} /\ batch'[c].slot.meeting = m
                         /\ ~Keeps(meeting[m]) => after'[m][c] = 0
    BY <1>2 DEF LateInv, Keeps
  <2>3. batch'[c] = IF c = b THEN r ELSE batch[c]
    BY <1>1 DEF LateIInv, TypeOK, BatchesType
  <2>4. after'[m][c] = IF m = n /\ c = b THEN 1 ELSE after[m][c]
    <3>1. after \in [Meetings -> [Batches -> Nat]]
      BY DEF LateIInv, TypeOK, HistoryType
    <3>2. after'[m] = IF m = n THEN [after[n] EXCEPT ![b] = after[n][b] + 1] ELSE after[m]
      BY <1>4, <3>1
    <3>3. after[n][b] + 1 = 1
      BY <2>2
    <3> QED
      BY <2>1, <3>1, <3>2, <3>3
  <2>5. /\ after[m][c] <= 1
        /\ batch[c].pc \in {"link", "send"} /\ batch[c].slot.meeting = m /\ ~Keeps(meeting[m])
              => after[m][c] = 0
    BY DEF LateIInv, LateInv
  <2> QED
    BY <1>1, <2>3, <2>4, <2>5
<1> QED
  BY <1>3, <1>4, SendStep DEF LateIInv

\* Every step keeps the bound on reminders sent after their meeting was gone.
LEMMA LateNext == LateIInv /\ [Next]_vars => LateInv'
<1> SUFFICES ASSUME LateIInv, [Next]_vars
             PROVE  LateInv'
  OBVIOUS
<1>0. /\ meeting \in [Meetings -> Row]
      /\ after \in [Meetings -> [Batches -> Nat]]
  BY DEF LateIInv, TypeOK, TableType, HistoryType
<1>1. CASE \E h \in Handlers, m \in Meetings : Create(h, m)
  <2>1. PICK m \in Meetings : \E h \in Handlers : Create(h, m)
    BY <1>1
  <2>2. PICK row \in Inserts : meeting' = [meeting EXCEPT ![m] = row]
    BY <2>1 DEF Create
  <2>3. ~Keeps(meeting[m]) /\ UNCHANGED <<batch, after>>
    BY <2>1 DEF Create, Keeps, history
  <2> QED
    BY <1>0, <2>2, <2>3, LateAside
<1>2. CASE \E h \in Handlers, m \in Meetings : UpdateRead(h, m)
  BY <1>2, LateAside DEF UpdateRead
<1>3. CASE \E h \in Handlers : UpdatePatch(h)
  <2>1. PICK h \in Handlers : UpdatePatch(h)
    BY <1>3
  <2> DEFINE m == request[h].meeting
  <2>2. m \in Meetings
    BY <2>1 DEF UpdatePatch, LateIInv, TypeOK, RequestsType, RequestType
  <2>3. UNCHANGED batch
    BY <2>1 DEF UpdatePatch
  <2>4. CASE UNCHANGED <<meeting, after>>
    BY <2>3, <2>4, LateAside
  <2>5. CASE \E dto \in Edits :
                /\ meeting' = [meeting EXCEPT ![m] = Patched(meeting[m], dto)]
                /\ IF Keeps(meeting[m]) /\ ~Keeps(Patched(meeting[m], dto)) THEN Forget(m)
                   ELSE UNCHANGED after
    <3>1. PICK dto \in Edits :
                /\ meeting' = [meeting EXCEPT ![m] = Patched(meeting[m], dto)]
                /\ IF Keeps(meeting[m]) /\ ~Keeps(Patched(meeting[m], dto)) THEN Forget(m)
                   ELSE UNCHANGED after
      BY <2>5
    <3> DEFINE row == Patched(meeting[m], dto)
    <3> HIDE DEF row, m
    <3>2. /\ meeting' = [meeting EXCEPT ![m] = row]
          /\ IF Keeps(meeting[m]) /\ ~Keeps(row) THEN Forget(m) ELSE UNCHANGED after
      BY <3>1 DEF row
    <3>3. ASSUME NEW n \in Meetings
          PROVE  \/ after'[n] = after[n] /\ (Keeps(meeting[n]) => Keeps(meeting'[n]))
                 \/ \A b \in Batches : after'[n][b] = 0
      <4>1. meeting'[n] = IF n = m THEN row ELSE meeting[n]
        BY <1>0, <2>2, <3>2
      <4>2. CASE Forget(m)
        BY <1>0, <2>2, <4>1, <4>2 DEF Forget
      <4>3. CASE UNCHANGED after /\ (Keeps(meeting[m]) => Keeps(row))
        BY <4>1, <4>3
      <4> QED
        BY <3>2, <4>2, <4>3
    <3> QED
      BY <2>3, <3>3, LateAside
  <2> QED
    BY <2>1, <2>4, <2>5 DEF UpdatePatch
<1>4. CASE \E h \in Handlers : ListJobs(h) \/ UpsertJobs(h) \/ CancelJobs(h)
  BY <1>4, LateAside DEF ListJobs, UpsertJobs, CancelJobs, history
<1>5. CASE \E m \in Meetings : Remove(m)
  <2>1. PICK m \in Meetings : Remove(m)
    BY <1>5
  <2>2. UNCHANGED batch /\ IF Keeps(meeting[m]) THEN Forget(m) ELSE UNCHANGED after
    BY <2>1 DEF Remove
  <2>3. ASSUME NEW n \in Meetings
        PROVE  \/ after'[n] = after[n] /\ (Keeps(meeting[n]) => Keeps(meeting'[n]))
               \/ \A b \in Batches : after'[n][b] = 0
    <3>1. n # m => meeting'[n] = meeting[n]
      BY <1>0, <2>1 DEF Remove
    <3> QED
      BY <1>0, <2>2, <3>1 DEF Forget
  <2> QED
    BY <2>2, <2>3, LateAside
<1>6. CASE \E b \in Batches : Cron(b)
  <2>1. PICK b \in Batches : Cron(b)
    BY <1>6
  <2>2. CASE Fire(b)
    <3>1. CASE UNCHANGED batch
      BY <2>2, <3>1, LateAside DEF Fire, history
    <3>2. CASE \E S \in SUBSET Due : batch' = [batch EXCEPT ![b] = [IdleBatch EXCEPT
                !.pc = "next", !.todo = {[slot |-> k, at |-> sendAt[k]] : k \in S}]]
      <4>1. PICK S \in SUBSET Due : batch' = [batch EXCEPT ![b] = [IdleBatch EXCEPT
                !.pc = "next", !.todo = {[slot |-> k, at |-> sendAt[k]] : k \in S}]]
        BY <3>2
      <4> DEFINE D == {[slot |-> k, at |-> sendAt[k]] : k \in S}
                 r == [IdleBatch EXCEPT !.pc = "next", !.todo = D]
      <4> HIDE DEF D
      <4>2. D \in SUBSET [slot : Slots, at : Int]
        BY DEF D, Due, LateIInv, TypeOK, TableType
      <4>3. r \in BatchType /\ r.pc = "next"
        BY <4>2, IdleTypes DEF BatchType, IdleBatch
      <4>4. batch' = [batch EXCEPT ![b] = r]
        BY <4>1 DEF D
      <4> HIDE DEF r
      <4> QED
        BY <2>2, <4>3, <4>4, LateRun DEF Fire, history
    <3> QED
      BY <2>2, <3>1, <3>2 DEF Fire
  <2>3. CASE LoadNext(b)
    <3>1. PICK r \in BatchType : /\ batch' = [batch EXCEPT ![b] = r]
                                 /\ r.pc \in {"link", "mark"}
                                 /\ r.pc = "link" => Keeps(meeting[r.slot.meeting])
      BY <2>3, LoadNextStep DEF LateIInv
    <3> QED
      BY <2>3, <3>1, LateRun DEF LoadNext, history
  <2>4. CASE EnsureLink(b)
    <3>1. PICK r \in BatchType : /\ batch' = [batch EXCEPT ![b] = r]
                                 /\ r.slot = batch[b].slot
      BY <2>4, EnsureLinkStep DEF LateIInv
    <3> QED
      BY <2>4, <3>1, LateRun DEF EnsureLink, history
  <2>5. CASE Send(b)
    BY <2>5, LateSend
  <2>6. CASE Mark(b)
    <3>1. PICK r \in BatchType : /\ batch' = [batch EXCEPT ![b] = r]
                                 /\ r.pc \in {"idle", "next"}
      BY <2>6, MarkStep DEF LateIInv
    <3> QED
      BY <2>6, <3>1, LateRun DEF Mark, history
  <2> QED
    BY <2>1, <2>2, <2>3, <2>4, <2>5, <2>6 DEF Cron
<1>7. CASE Tick
  BY <1>7, LateAside DEF Tick, history
<1>8. CASE Crash
  <2>1. \A b \in Batches : batch'[b].pc = "idle"
    BY <1>8 DEF Crash, IdleBatch
  <2>2. UNCHANGED <<meeting, after>>
    BY <1>8 DEF Crash, history
  <2> QED
    BY <2>1, <2>2 DEF LateIInv, LateInv
<1>9. CASE UNCHANGED vars
  BY <1>9, LateAside DEF vars, history
<1> QED
  BY <1>1, <1>2, <1>3, <1>4, <1>5, <1>6, <1>7, <1>8, <1>9 DEF Next

\* No cron run ever delivers two reminders for a meeting after it was cancelled,
\* done or deleted: only the row it had in hand, whatever its snapshot holds.
THEOREM OneLate == Spec => []OneLateReminder
<1>1. Init => LateIInv
  <2>1. Init => LateInv
    BY DEF Init, LateInv, IdleBatch
  <2> QED
    BY <2>1, InitTypes DEF LateIInv
<1>2. LateIInv /\ [Next]_vars => LateIInv'
  BY LateNext, NextTypes DEF LateIInv
<1>3. LateIInv => OneLateReminder
  BY DEF LateIInv, LateInv, OneLateReminder
<1> QED
  BY <1>1, <1>2, <1>3, PTL DEF Spec

----------------------------------------------------------------------------
(* The reminders of a meeting follow it *)

\* The request is at work on the meeting; it is about to write its reminders anew.
At(h, m)        == request[h].pc # "idle" /\ request[h].meeting = m
Rescheduling(h) == request[h].pc \in {"list", "upsert"}

\* The reminders that wait are not being changed; no change of the date is under way.
Rests(m) == \A h \in Handlers : At(h, m) => request[h].pc = "patch"
Dated(m) == /\ m \notin movedOff
            /\ \A h \in Handlers : At(h, m) => ~(Rescheduling(h) /\ request[h].reset)

\* No two requests ever worked on the meeting together, nothing failed, nothing died.
Calm(m) == m \notin clash /\ faults = 0 /\ crashes = 0

\* A meeting that is not there has no reminders, one that is worked on is or was there.
GoneOK(m) == /\ ~Exists(m) => \A k \in SlotsOf(m) : status[k] = "absent"
             /\ meeting[m].status = "absent" => \A h \in Handlers : ~At(h, m)

\* What a run has in hand, and what was sent, was due.
DueOK(m) == /\ \A k \in SlotsOf(m) \ raced : InHand(k) \/ status[k] = "sent" =>
                   status[k] = "absent" \/ sendAt[k] <= now
            /\ \A h \in Handlers : At(h, m) /\ request[h].pc = "upsert" => request[h].at <= now

\* What the request keeps was sent, and so was due.
KeepOK(h, m) ==
    \A k \in request[h].keep :
        /\ k \in SlotsOf(m) /\ ~request[h].reset
        /\ Exists(m) => /\ status[k] \notin {"absent", "pending"}
                        /\ k \notin raced => sendAt[k] <= now

\* One request at a time, which knows the meeting as it is.
RequestOK(h, m) ==
    /\ \A o \in Handlers : At(o, m) => o = h
    /\ Exists(m) => request[h].row = meeting[m]
    /\ Rescheduling(h) => Keeps(request[h].row)
    /\ request[h].pc = "cancel" => ~Keeps(request[h].row)
    /\ request[h].pc = "upsert" => KeepOK(h, m)
RequestsOK(m) == Calm(m) => \A h \in Handlers : At(h, m) => RequestOK(h, m)

\* Between requests what waits is what the meeting asks for, and all of it waits.
WaitOK(k) ==
    /\ status[k] = "pending" => Intended(k) /\ sendAt[k] = SendAt(meeting[k.meeting], k)
    /\ k \notin raced /\ k.meeting \notin movedOff \cup unplanned /\ Intended(k)
       /\ SendAt(meeting[k.meeting], k) > now => status[k] = "pending"
WaitsOK(m) == Calm(m) /\ Rests(m) => \A k \in SlotsOf(m) : WaitOK(k)

\* What a run holds or has announced is of the date of the meeting.
RunOK(b, k) ==
    batch[b].slot = k =>
        /\ batch[b].pc \in {"link", "send"} => batch[b].held.date = meeting[k.meeting].date
        /\ batch[b].mark = "sent" => meeting[k.meeting].date \in announced[k]

\* The rows, what was announced and what the runs hold are of the date of the meeting.
DateOK(k) ==
    status[k] # "absent" =>
        /\ sendAt[k] = SendAt(meeting[k.meeting], k)
        /\ k \notin raced => SentFor(k) /\ \A b \in Batches : RunOK(b, k)
DatesOK(m) == Calm(m) /\ Dated(m) => \A k \in SlotsOf(m) : DateOK(k)

FollowOK(m) == GoneOK(m) /\ DueOK(m) /\ RequestsOK(m) /\ WaitsOK(m) /\ DatesOK(m)
FollowInv   == TypeOK /\ \A m \in Meetings : FollowOK(m)

\* The shape of the state.
LEMMA Shapes ==
    ASSUME TypeOK
    PROVE  /\ meeting \in [Meetings -> Row] /\ sendAt \in [Slots -> Int] /\ now \in Nat
           /\ status \in [Slots -> {"absent", "pending", "sent", "skipped", "failed"}]
           /\ batch \in [Batches -> BatchType] /\ request \in [Handlers -> RequestType]
           /\ announced \in [Slots -> SUBSET Nat] /\ faults \in Nat /\ crashes \in Nat
           /\ \A h \in Handlers : request[h].pc # "idle" => request[h].meeting \in Meetings
           /\ \A b \in Batches : Consistent(batch[b])
           /\ raced \subseteq Slots
<1>1. /\ TableType /\ CountType /\ BatchesType /\ RequestsType /\ HistoryType
  BY DEF TypeOK
<1>2. \A h \in Handlers : request[h].pc # "idle" => request[h].meeting \in Meetings
  BY <1>1 DEF RequestsType, RequestType
<1> QED
  BY <1>1, <1>2 DEF TableType, CountType, BatchesType, RequestsType, HistoryType

\* A slot is of one meeting.
LEMMA SlotMeeting ==
    /\ \A k \in Slots : k.meeting \in Meetings /\ k \in SlotsOf(k.meeting)
    /\ \A m \in Meetings : \A k \in SlotsOf(m) : k \in Slots /\ k.meeting = m
    /\ \A k \in Slots : k.offset \in Offsets /\ Lead[k.offset] \in Nat
BY LeadAssumption DEF Slots, SlotsOf

\* Nothing a step changes concerns the meeting.
Aside(n) ==
    /\ UNCHANGED <<batch, now>> /\ meeting'[n] = meeting[n]
    /\ Calm(n)' => Calm(n)
    /\ n \in movedOff' <=> n \in movedOff
    /\ n \in unplanned' <=> n \in unplanned
    /\ \A k \in SlotsOf(n) : /\ status'[k] = status[k] /\ sendAt'[k] = sendAt[k]
                             /\ announced'[k] = announced[k]
                             /\ k \in raced' <=> k \in raced
    /\ \A h \in Handlers : /\ At(h, n)' <=> At(h, n)
                           /\ At(h, n) => request'[h] = request[h]

\* Then it stays as it is.
LEMMA AsideOK ==
    ASSUME NEW n \in Meetings, FollowOK(n), Aside(n)
    PROVE  FollowOK(n)'
<1>0. \A k \in SlotsOf(n) : k.meeting = n
  BY DEF SlotsOf
<1>1. GoneOK(n)'
  BY DEF FollowOK, GoneOK, Aside, Exists
<1>2. DueOK(n)'
  BY DEF FollowOK, DueOK, Aside, InHand
<1>3. RequestsOK(n)'
  <2> SUFFICES ASSUME Calm(n), NEW h \in Handlers, At(h, n), request'[h] = request[h],
                      RequestOK(h, n)
               PROVE  RequestOK(h, n)'
    BY DEF FollowOK, RequestsOK, Aside
  <2>1. KeepOK(h, n) => KeepOK(h, n)'
    BY DEF KeepOK, Aside, Exists
  <2> QED
    BY <2>1 DEF RequestOK, Aside, Exists, Rescheduling
<1>4. WaitsOK(n)'
  <2> SUFFICES ASSUME Calm(n)', Rests(n)', NEW k \in SlotsOf(n) PROVE WaitOK(k)'
    BY DEF WaitsOK
  <2>1. Calm(n) /\ Rests(n)
    BY DEF Aside, Rests
  <2>2. WaitOK(k)
    BY <2>1 DEF FollowOK, WaitsOK
  <2> QED
    BY <1>0, <2>2 DEF WaitOK, Aside, Intended
<1>5. DatesOK(n)'
  <2> SUFFICES ASSUME Calm(n)', Dated(n)', NEW k \in SlotsOf(n) PROVE DateOK(k)'
    BY DEF DatesOK
  <2>1. Calm(n) /\ Dated(n)
    BY DEF Aside, Dated, Rescheduling
  <2>2. DateOK(k)
    BY <2>1 DEF FollowOK, DatesOK
  <2> QED
    BY <1>0, <2>2 DEF DateOK, RunOK, SentFor, Aside
<1> QED
  BY <1>1, <1>2, <1>3, <1>4, <1>5 DEF FollowOK

\* Where a request goes after the row was written.
LEMMA ThenFields ==
    ASSUME TypeOK, NEW h \in Handlers, NEW m \in Meetings, NEW row \in Row,
           NEW refresh \in BOOLEAN, NEW reset \in BOOLEAN, Then(h, m, row, refresh, reset)
    PROVE  /\ \A o \in Handlers \ {h} : request'[o] = request[o]
           /\ ~refresh => request'[h].pc = "idle"
           /\ refresh => /\ request'[h].pc = IF Keeps(row) THEN "list" ELSE "cancel"
                         /\ request'[h].meeting = m /\ request'[h].row = row
                         /\ request'[h].reset <=> reset
<1>1. request \in [Handlers -> RequestType]
  BY Shapes
<1> QED
  BY <1>1 DEF Then, IdleReq

\* A request that works on m leaves the others aside.
LEMMA RequestAside ==
    ASSUME TypeOK, NEW h \in Handlers, NEW m \in Meetings, NEW n \in Meetings \ {m},
           request[h].pc # "idle" => request[h].meeting = m,
           request'[h].pc # "idle" => request'[h].meeting = m,
           \A o \in Handlers \ {h} : request'[o] = request[o]
    PROVE  \A o \in Handlers : /\ At(o, n)' <=> At(o, n)
                               /\ At(o, n) => request'[o] = request[o]
BY DEF At

\* The counters of what failed and died only grow.
LEMMA CalmStays ==
    ASSUME TypeOK, clash \subseteq clash', Answers \/ Fails, UNCHANGED crashes,
           NEW m \in Meetings, Calm(m)'
    PROVE  Calm(m) /\ UNCHANGED faults
<1>1. faults \in Nat
  BY Shapes
<1> QED
  BY <1>1 DEF Calm, Answers, Fails

----------------------------------------------------------------------------
(* Requests *)

\* A new meeting has no reminders yet, and one request.
LEMMA CreateFollows ==
    ASSUME FollowInv, NEW h \in Handlers, NEW m \in Meetings, Create(h, m)
    PROVE  \A n \in Meetings : FollowOK(n)'
<1> USE Shapes, SlotMeeting DEF FollowInv
<1>1. /\ request[h].pc = "idle" /\ meeting[m].status = "absent" /\ (Answers \/ Fails)
      /\ UNCHANGED <<table, now, batch, crashes, announced, raced, clash, movedOff>>
  BY DEF Create, Free
<1>2. PICK row \in Inserts :
         /\ meeting' = [meeting EXCEPT ![m] = row]
         /\ \/ Then(h, m, row, Keeps(row), FALSE) /\ UNCHANGED unplanned
            \/ UNCHANGED request /\ unplanned' = unplanned \cup {m}
  BY DEF Create
<1>3. row \in Row /\ row.status \in Statuses /\ Keeps(row) \in BOOLEAN
  BY InsertsAssumption DEF Keeps
<1>4. /\ \A o \in Handlers \ {h} : request'[o] = request[o]
      /\ ~Keeps(row) => request'[h].pc = "idle"
      /\ request'[h].pc # "idle" => /\ request'[h].pc = "list" /\ request'[h].meeting = m
                                    /\ request'[h].row = row /\ ~request'[h].reset
      /\ Keeps(row) /\ request'[h].pc = "idle" => m \in unplanned'
      /\ \A n \in Meetings \ {m} : n \in unplanned' <=> n \in unplanned
  <2>1. CASE UNCHANGED request /\ unplanned' = unplanned \cup {m}
    BY <1>1, <2>1
  <2>2. CASE Then(h, m, row, Keeps(row), FALSE) /\ UNCHANGED unplanned
    BY <1>3, <2>2, Shapes DEF Then, IdleReq
  <2> QED
    BY <1>2, <2>1, <2>2
<1>5. /\ ~Exists(m) /\ \A o \in Handlers : ~At(o, m)
      /\ \A k \in SlotsOf(m) : status[k] = "absent"
  BY <1>1 DEF FollowOK, GoneOK, Exists, Statuses
<1>6. ASSUME NEW n \in Meetings \ {m} PROVE FollowOK(n)'
  <2>1. \A o \in Handlers : (At(o, n)' <=> At(o, n)) /\ (At(o, n) => request'[o] = request[o])
    BY <1>1, <1>4, RequestAside
  <2>2. Calm(n)' => Calm(n)
    BY <1>1, CalmStays
  <2>3. Aside(n)
    BY <1>1, <1>2, <1>4, <2>1, <2>2 DEF Aside, table
  <2> QED
    BY <2>3, AsideOK
<1>7. meeting'[m] = row
  BY <1>2
<1>8. \A o \in Handlers : At(o, m)' => o = h /\ Keeps(row)
  BY <1>4, <1>5 DEF At
<1>9. \A k \in SlotsOf(m) : status'[k] = "absent"
  BY <1>1, <1>5 DEF table
<1>10. GoneOK(m)'
  BY <1>3, <1>7 DEF GoneOK, Exists, Statuses
<1>11. DueOK(m)'
  BY <1>4, <1>8, <1>9 DEF DueOK
<1>12. RequestsOK(m)'
  <2> SUFFICES ASSUME NEW o \in Handlers, At(o, m)' PROVE RequestOK(o, m)'
    BY DEF RequestsOK
  <2>1. o = h /\ Keeps(row) /\ request'[h].pc = "list" /\ request'[h].row = row
    BY <1>4, <1>8 DEF At
  <2> QED
    BY <1>7, <1>8, <2>1 DEF RequestOK, Rescheduling
<1>13. WaitsOK(m)'
  <2> SUFFICES ASSUME Rests(m)', NEW k \in SlotsOf(m) PROVE WaitOK(k)'
    BY DEF WaitsOK
  <2>1. ~Keeps(row) \/ m \in unplanned'
    BY <1>4 DEF Rests, At
  <2>2. k.meeting = m
    OBVIOUS
  <2> QED
    BY <1>7, <1>9, <2>1, <2>2 DEF WaitOK, Intended
<1>14. DatesOK(m)'
  BY <1>9 DEF DatesOK, DateOK
<1> QED
  BY <1>6, <1>10, <1>11, <1>12, <1>13, <1>14 DEF FollowOK

\* An update knows the meeting as it is read; with another one under way it clashes.
LEMMA UpdateReadFollows ==
    ASSUME FollowInv, NEW h \in Handlers, NEW m \in Meetings, UpdateRead(h, m)
    PROVE  \A n \in Meetings : FollowOK(n)'
<1> USE Shapes, SlotMeeting DEF FollowInv
<1>1. /\ request[h].pc = "idle" /\ Exists(m)
      /\ UNCHANGED <<meeting, table, now, batch, faults, crashes, announced, raced, movedOff,
                     unplanned>>
      /\ clash' = IF Others(m) = {} THEN clash ELSE clash \cup {m}
  BY DEF UpdateRead, Free
<1>2. /\ \A o \in Handlers \ {h} : request'[o] = request[o]
      /\ request'[h].pc = "patch" /\ request'[h].meeting = m /\ request'[h].row = meeting[m]
  BY DEF UpdateRead, IdleReq
<1>3. ASSUME NEW n \in Meetings \ {m} PROVE FollowOK(n)'
  <2>1. \A o \in Handlers : (At(o, n)' <=> At(o, n)) /\ (At(o, n) => request'[o] = request[o])
    BY <1>1, <1>2, RequestAside
  <2>2. Aside(n)
    BY <1>1, <2>1 DEF Aside, Calm, table
  <2> QED
    BY <2>2, AsideOK
<1>4. Calm(m)' => Calm(m) /\ \A o \in Handlers : ~At(o, m)
  BY <1>1 DEF Calm, Others, At
<1>5. \A o \in Handlers \ {h} : At(o, m)' <=> At(o, m)
  BY <1>2 DEF At
<1>6. GoneOK(m)'
  BY <1>1 DEF FollowOK, GoneOK, Exists, Statuses, table
<1>7. DueOK(m)'
  BY <1>1, <1>2, <1>5 DEF FollowOK, DueOK, InHand, table
<1>8. RequestsOK(m)'
  BY <1>1, <1>2, <1>4, <1>5 DEF RequestsOK, RequestOK, Rescheduling
<1>9. WaitsOK(m)'
  <2> SUFFICES ASSUME Calm(m)', NEW k \in SlotsOf(m) PROVE WaitOK(k)'
    BY DEF WaitsOK
  <2>1. WaitOK(k)
    BY <1>4 DEF FollowOK, WaitsOK, Rests
  <2> QED
    BY <1>1, <2>1 DEF WaitOK, Intended, table
<1>10. DatesOK(m)'
  <2> SUFFICES ASSUME Calm(m)', Dated(m)', NEW k \in SlotsOf(m) PROVE DateOK(k)'
    BY DEF DatesOK
  <2>1. DateOK(k)
    BY <1>1, <1>4 DEF FollowOK, DatesOK, Dated
  <2> QED
    BY <1>1, <2>1 DEF DateOK, RunOK, SentFor, table
<1> QED
  BY <1>3, <1>6, <1>7, <1>8, <1>9, <1>10 DEF FollowOK

\* A body with a date counts as a change of it: the texts differ.
LEMMA DateCompared ==
    ASSUME NEW dto, NEW old
    PROVE  DateChanged(dto, old) <=> "date" \in DOMAIN dto
BY DEF DateChanged, IsoText, PgText

\* An update that does not reschedule leaves the row as it was, and one that leaves the
\* date alone leaves the date.
LEMMA PatchKeeps ==
    ASSUME NEW row \in Row, row.status \in Statuses, NEW dto \in Edits
    PROVE  /\ Patched(row, dto) \in Row /\ Patched(row, dto).status \in Statuses
           /\ ~DateChanged(dto, row) => Patched(row, dto).date = row.date
           /\ ~Reschedule(dto, row) => Patched(row, dto) = row
<1>1. Patched(row, dto) \in Row
  BY PatchedType
<1>2. Patched(row, dto).status \in Statuses
  BY EditsAssumption DEF Patched, Given
<1>3. ~DateChanged(dto, row) => Patched(row, dto).date = row.date
  BY DateCompared DEF Patched, Given
<1>4. ASSUME ~Reschedule(dto, row) PROVE Patched(row, dto) = row
  <2>1. /\ "date" \notin DOMAIN dto /\ "contact" \notin DOMAIN dto /\ "wanted" \notin DOMAIN dto
        /\ "status" \in DOMAIN dto => dto["status"] = row["status"]
    BY <1>4, DateCompared DEF Reschedule
  <2>2. /\ Given(dto, row, "status") = row.status /\ Given(dto, row, "date") = row.date
        /\ Given(dto, row, "contact") = row.contact /\ Given(dto, row, "wanted") = row.wanted
    BY <2>1 DEF Given
  <2> QED
    BY <2>2 DEF Patched, Row
<1> QED
  BY <1>1, <1>2, <1>3, <1>4

\* An update that fails, or comes too late, changes nothing.
LEMMA PatchEndsFollows ==
    ASSUME FollowInv, NEW h \in Handlers, UpdatePatch(h),
           request' = [request EXCEPT ![h] = IdleReq], UNCHANGED <<meeting, movedOff>>
    PROVE  \A n \in Meetings : FollowOK(n)'
<1> USE Shapes, SlotMeeting DEF FollowInv
<1>1. /\ request[h].pc = "patch"
      /\ UNCHANGED <<table, now, batch, crashes, announced, raced, clash, unplanned>>
  BY DEF UpdatePatch
<1>2. Answers \/ Fails
  BY DEF UpdatePatch
<1> SUFFICES ASSUME NEW n \in Meetings PROVE FollowOK(n)'
  OBVIOUS
<1>3. Calm(n)' => Calm(n)
  BY <1>1, <1>2, CalmStays
<1>4. /\ request'[h].pc = "idle" /\ \A o \in Handlers \ {h} : request'[o] = request[o]
  BY DEF IdleReq
<1>5. \A o \in Handlers : At(o, n)' <=> At(o, n) /\ o # h
  BY <1>4 DEF At
<1>6. Rests(n)' => Rests(n)
  BY <1>1, <1>4, <1>5 DEF Rests
<1>7. Dated(n)' => Dated(n)
  BY <1>1, <1>4, <1>5 DEF Dated, Rescheduling
<1>8. GoneOK(n)'
  BY <1>1, <1>5 DEF FollowOK, GoneOK, Exists, table
<1>9. DueOK(n)'
  BY <1>1, <1>4, <1>5 DEF FollowOK, DueOK, InHand, table
<1>10. RequestsOK(n)'
  <2> SUFFICES ASSUME Calm(n)', NEW o \in Handlers, At(o, n)' PROVE RequestOK(o, n)'
    BY DEF RequestsOK
  <2>1. RequestOK(o, n) /\ request'[o] = request[o]
    BY <1>3, <1>4, <1>5 DEF FollowOK, RequestsOK
  <2>2. KeepOK(o, n) => KeepOK(o, n)'
    BY <1>1, <2>1 DEF KeepOK, Exists, table
  <2> QED
    BY <1>5, <2>1, <2>2 DEF RequestOK, Rescheduling, Exists
<1>11. WaitsOK(n)'
  BY <1>1, <1>3, <1>6 DEF FollowOK, WaitsOK, WaitOK, Intended, table
<1>12. DatesOK(n)'
  BY <1>1, <1>3, <1>7 DEF FollowOK, DatesOK, DateOK, RunOK, SentFor, table
<1> QED
  BY <1>8, <1>9, <1>10, <1>11, <1>12 DEF FollowOK

\* An update that is written: a changed date resets the reminders or leaves the meeting
\* moved while it is off.
LEMMA PatchFollows ==
    ASSUME FollowInv, NEW h \in Handlers, UpdatePatch(h), NEW m \in Meetings,
           m = request[h].meeting, NEW dto \in Edits, NEW row, NEW old,
           old = request[h].row, row = Patched(meeting[m], dto), Exists(m), UNCHANGED faults,
           meeting' = [meeting EXCEPT ![m] = row],
           Then(h, m, row, Reschedule(dto, old), ResetSent(dto, old)),
           movedOff' = IF DateChanged(dto, old) /\ ~Keeps(row) THEN movedOff \cup {m}
                       ELSE movedOff
    PROVE  \A n \in Meetings : FollowOK(n)'
<1> USE Shapes, SlotMeeting DEF FollowInv
<1>1. /\ request[h].pc = "patch" /\ At(h, m)
      /\ UNCHANGED <<table, now, batch, crashes, announced, raced, clash, unplanned>>
  BY DEF UpdatePatch, At
<1>2. /\ row \in Row /\ row.status \in Statuses /\ Keeps(row) \in BOOLEAN
      /\ Reschedule(dto, old) \in BOOLEAN /\ ResetSent(dto, old) \in BOOLEAN
  BY PatchKeeps DEF Exists, Keeps, Reschedule, ResetSent, DateChanged
<1>3. /\ \A o \in Handlers \ {h} : request'[o] = request[o]
      /\ ~Reschedule(dto, old) => request'[h].pc = "idle"
      /\ Reschedule(dto, old) =>
            /\ request'[h].pc = IF Keeps(row) THEN "list" ELSE "cancel"
            /\ request'[h].meeting = m /\ request'[h].row = row
            /\ request'[h].reset <=> DateChanged(dto, old)
  <2>1. ResetSent(dto, old) <=> DateChanged(dto, old)
    BY DEF ResetSent
  <2> QED
    BY <1>2, <2>1, ThenFields
<1>4. ASSUME NEW n \in Meetings \ {m} PROVE FollowOK(n)'
  <2>1. \A o \in Handlers : (At(o, n)' <=> At(o, n)) /\ (At(o, n) => request'[o] = request[o])
    <3>1. request'[h].pc # "idle" => request'[h].meeting = m
      BY <1>3
    <3> QED
      BY <1>3, <3>1, RequestAside
  <2>2. Aside(n)
    BY <1>1, <2>1 DEF Aside, Calm, table
  <2> QED
    BY <2>2, AsideOK
<1>5. meeting'[m] = row /\ Exists(m)'
  BY <1>2 DEF Exists
<1>6. ASSUME Calm(m)'
      PROVE  /\ Calm(m) /\ old = meeting[m] /\ \A o \in Handlers : At(o, m) => o = h
             /\ Rests(m) /\ (m \notin movedOff => Dated(m))
  <2>1. Calm(m)
    BY <1>1, <1>6 DEF Calm
  <2>2. RequestOK(h, m)
    BY <1>1, <2>1 DEF FollowOK, RequestsOK
  <2>3. \A o \in Handlers : At(o, m) => o = h
    BY <2>2 DEF RequestOK
  <2> QED
    BY <1>1, <2>1, <2>2, <2>3 DEF RequestOK, Rests, Dated, Rescheduling
<1>7. \A o \in Handlers \ {h} : At(o, m)' <=> At(o, m)
  BY <1>3 DEF At
<1>8. GoneOK(m)'
  BY <1>2, <1>5 DEF GoneOK, Exists, Statuses
<1>9. DueOK(m)'
  BY <1>1, <1>3, <1>7 DEF FollowOK, DueOK, InHand, table
<1>10. RequestsOK(m)'
  <2> SUFFICES ASSUME Calm(m)', NEW o \in Handlers, At(o, m)' PROVE RequestOK(o, m)'
    BY DEF RequestsOK
  <2>1. o = h /\ Reschedule(dto, old)
    BY <1>3, <1>6, <1>7 DEF At
  <2>2. \A p \in Handlers : At(p, m)' => p = h
    BY <1>6, <1>7
  <2> QED
    BY <1>3, <1>5, <2>1, <2>2 DEF RequestOK, Rescheduling
<1>11. DateChanged(dto, old) => Reschedule(dto, old)
  BY DEF Reschedule
<1>12. Calm(m)' /\ ~DateChanged(dto, old) => row.date = meeting[m].date
  BY <1>6, PatchKeeps DEF Exists
<1>13. WaitsOK(m)'
  <2> SUFFICES ASSUME Calm(m)', Rests(m)', NEW k \in SlotsOf(m) PROVE WaitOK(k)'
    BY DEF WaitsOK
  <2>1. ~Reschedule(dto, old)
    BY <1>3 DEF Rests, At
  <2>2. row = meeting[m]
    BY <1>6, <2>1, PatchKeeps DEF Exists
  <2>3. WaitOK(k)
    BY <1>6 DEF FollowOK, WaitsOK
  <2>4. UNCHANGED movedOff
    BY <1>11, <2>1
  <2>5. meeting'[k.meeting] = meeting[k.meeting]
    BY <1>5, <2>2
  <2> QED
    BY <1>1, <2>3, <2>4, <2>5 DEF WaitOK, Intended, table
<1>14. DatesOK(m)'
  <2> SUFFICES ASSUME Calm(m)', Dated(m)', NEW k \in SlotsOf(m) PROVE DateOK(k)'
    BY DEF DatesOK
  <2>1. ~DateChanged(dto, old)
    <3>1. ASSUME DateChanged(dto, old) PROVE FALSE
      <4>1. CASE Keeps(row)
        BY <1>3, <1>11, <3>1, <4>1 DEF Dated, At, Rescheduling
      <4>2. CASE ~Keeps(row)
        BY <3>1, <4>2 DEF Dated
      <4> QED
        BY <4>1, <4>2
    <3> QED
      BY <3>1
  <2>2. Dated(m) /\ UNCHANGED movedOff
    BY <1>6, <2>1 DEF Dated
  <2>3. DateOK(k)
    BY <1>6, <2>2 DEF FollowOK, DatesOK
  <2>4. meeting'[k.meeting].date = meeting[k.meeting].date
    BY <1>5, <1>12, <2>1
  <2> QED
    BY <1>1, <2>3, <2>4 DEF DateOK, RunOK, SentFor, SendAt, table
<1> QED
  BY <1>4, <1>8, <1>9, <1>10, <1>13, <1>14 DEF FollowOK

\* An update that is written and then ends before its reminders: something failed, or
\* another request is at work on the meeting.
LEMMA PatchBreaksOffFollows ==
    ASSUME FollowInv, NEW h \in Handlers, UpdatePatch(h), NEW m \in Meetings,
           m = request[h].meeting, NEW row \in Row, row.status \in Statuses, Exists(m),
           Others(m) # {h} \/ Fails,
           meeting' = [meeting EXCEPT ![m] = row], request' = [request EXCEPT ![h] = IdleReq],
           movedOff \subseteq movedOff', movedOff' \subseteq movedOff \cup {m}
    PROVE  \A n \in Meetings : FollowOK(n)'
<1> USE Shapes, SlotMeeting DEF FollowInv
<1>1. /\ request[h].pc = "patch" /\ At(h, m) /\ (Answers \/ Fails)
      /\ UNCHANGED <<table, now, batch, crashes, announced, raced, clash, unplanned>>
  BY DEF UpdatePatch, At
<1>2. /\ request'[h].pc = "idle" /\ \A o \in Handlers \ {h} : request'[o] = request[o]
  BY DEF IdleReq
<1>3. ASSUME NEW n \in Meetings \ {m} PROVE FollowOK(n)'
  <2>1. \A o \in Handlers : (At(o, n)' <=> At(o, n)) /\ (At(o, n) => request'[o] = request[o])
    BY <1>1, <1>2, RequestAside
  <2>2. Calm(n)' => Calm(n)
    BY <1>1, CalmStays
  <2>3. Aside(n)
    BY <1>1, <2>1, <2>2 DEF Aside, table
  <2> QED
    BY <2>3, AsideOK
<1>4. ~Calm(m)'
  <2>1. CASE Fails
    BY <2>1 DEF Calm, Fails
  <2>2. CASE Others(m) # {h}
    <3>1. ASSUME Calm(m) PROVE Others(m) = {h}
      <4>1. RequestOK(h, m)
        BY <1>1, <3>1 DEF FollowOK, RequestsOK
      <4>2. \A o \in Handlers : At(o, m) => o = h
        BY <4>1 DEF RequestOK
      <4> QED
        BY <1>1, <4>2 DEF Others, At
    <3>2. Calm(m)' => Calm(m)
      BY <1>1, CalmStays
    <3> QED
      BY <2>2, <3>1, <3>2
  <2> QED
    BY <2>1, <2>2
<1>5. \A o \in Handlers : At(o, m)' <=> At(o, m) /\ o # h
  BY <1>2 DEF At
<1>6. meeting'[m] = row
  OBVIOUS
<1>7. GoneOK(m)'
  BY <1>6 DEF GoneOK, Exists, Statuses
<1>8. DueOK(m)'
  BY <1>1, <1>2, <1>5 DEF FollowOK, DueOK, InHand, table
<1> QED
  BY <1>3, <1>4, <1>7, <1>8 DEF FollowOK, RequestsOK, WaitsOK, DatesOK

\* An update, whatever becomes of it.
LEMMA UpdatePatchFollows ==
    ASSUME FollowInv, NEW h \in Handlers, UpdatePatch(h)
    PROVE  \A n \in Meetings : FollowOK(n)'
<1>1. PICK m \in Meetings, old \in {request[h].row} : m = request[h].meeting
  BY Shapes DEF FollowInv, UpdatePatch
<1>2. CASE request' = [request EXCEPT ![h] = IdleReq] /\ UNCHANGED <<meeting, movedOff>>
  BY <1>2, PatchEndsFollows
<1>3. CASE \E dto \in Edits :
              LET row == Patched(meeting[m], dto)
              IN  /\ Exists(m)
                  /\ meeting' = [meeting EXCEPT ![m] = row]
                  /\ \/ Answers /\ Then(h, m, row, Reschedule(dto, old), ResetSent(dto, old))
                     \/ /\ (Others(m) # {h} /\ Answers) \/ Fails
                        /\ request' = [request EXCEPT ![h] = IdleReq]
                  /\ movedOff' = IF DateChanged(dto, old) /\ ~Keeps(row)
                                 THEN movedOff \cup {m} ELSE movedOff
  <2>1. PICK dto, row :
              /\ dto \in Edits /\ row = Patched(meeting[m], dto) /\ Exists(m)
              /\ meeting' = [meeting EXCEPT ![m] = row]
              /\ \/ Answers /\ Then(h, m, row, Reschedule(dto, old), ResetSent(dto, old))
                 \/ /\ (Others(m) # {h} /\ Answers) \/ Fails
                    /\ request' = [request EXCEPT ![h] = IdleReq]
              /\ movedOff' = IF DateChanged(dto, old) /\ ~Keeps(row)
                             THEN movedOff \cup {m} ELSE movedOff
    <3>1. PICK dto \in Edits :
              LET row == Patched(meeting[m], dto)
              IN  /\ Exists(m)
                  /\ meeting' = [meeting EXCEPT ![m] = row]
                  /\ \/ Answers /\ Then(h, m, row, Reschedule(dto, old), ResetSent(dto, old))
                     \/ /\ (Others(m) # {h} /\ Answers) \/ Fails
                        /\ request' = [request EXCEPT ![h] = IdleReq]
                  /\ movedOff' = IF DateChanged(dto, old) /\ ~Keeps(row)
                                 THEN movedOff \cup {m} ELSE movedOff
      BY <1>3
    <3> QED
      BY <3>1
  <2>2. row \in Row /\ row.status \in Statuses
    BY <2>1, Shapes, PatchKeeps DEF FollowInv, Exists
  <2>3. CASE /\ (Others(m) # {h} /\ Answers) \/ Fails
             /\ request' = [request EXCEPT ![h] = IdleReq]
    <3>1. movedOff \subseteq movedOff' /\ movedOff' \subseteq movedOff \cup {m}
      BY <2>1
    <3> QED
      BY <1>1, <2>1, <2>2, <2>3, <3>1, PatchBreaksOffFollows
  <2>4. CASE Answers /\ Then(h, m, row, Reschedule(dto, old), ResetSent(dto, old))
    BY <1>1, <2>1, <2>4, PatchFollows DEF Answers
  <2> QED
    BY <2>1, <2>3, <2>4
<1>4. UpdatePatch(h)
  OBVIOUS
<1> QED
  BY <1>1, <1>2, <1>3, <1>4 DEF UpdatePatch

\* The list of jobs: what the request keeps was sent.
LEMMA ListJobsFollows ==
    ASSUME FollowInv, NEW h \in Handlers, ListJobs(h)
    PROVE  \A n \in Meetings : FollowOK(n)'
<1> USE Shapes, SlotMeeting DEF FollowInv
<1>0. PICK m \in Meetings : m = request[h].meeting
  BY DEF ListJobs, UpsertJobs, CancelJobs
<1>1. /\ request[h].pc = "list" /\ m \in Meetings /\ At(h, m)
      /\ UNCHANGED <<meeting, table, now, batch, crashes, history>>
  BY <1>0 DEF ListJobs, At
<1>2. PICK found \in {TRUE, FALSE} :
          /\ IF found THEN Answers ELSE Fails
          /\ request' = [request EXCEPT
                ![h].pc = "upsert", ![h].at = now,
                ![h].keep = {k \in SlotsOf(m) : found /\ Kept(k) /\ ~request[h].reset}]
  BY <1>0 DEF ListJobs
<1>3. /\ \A o \in Handlers \ {h} : request'[o] = request[o]
      /\ request'[h].pc = "upsert" /\ request'[h].meeting = m /\ request'[h].at = now
      /\ request'[h].row = request[h].row /\ (request'[h].reset <=> request[h].reset)
      /\ request'[h].keep = {k \in SlotsOf(m) : found /\ Kept(k) /\ ~request[h].reset}
  BY <1>0, <1>2 DEF RequestType
<1>4. ASSUME NEW n \in Meetings PROVE Calm(n)' => Calm(n)
  <2>1. clash \subseteq clash' /\ (Answers \/ Fails)
    BY <1>1, <1>2 DEF history
  <2> QED
    BY <1>1, <2>1, CalmStays
<1>5. ASSUME NEW n \in Meetings \ {m} PROVE FollowOK(n)'
  <2>1. \A o \in Handlers : (At(o, n)' <=> At(o, n)) /\ (At(o, n) => request'[o] = request[o])
    BY <1>1, <1>3, RequestAside DEF At
  <2>2. Aside(n)
    BY <1>1, <1>4, <2>1 DEF Aside, table, history
  <2> QED
    BY <2>2, AsideOK
<1>6. \A o \in Handlers : At(o, m)' <=> At(o, m)
  BY <1>1, <1>3 DEF At
<1>7. GoneOK(m)'
  BY <1>1, <1>6 DEF FollowOK, GoneOK, Exists, table
<1>8. DueOK(m)'
  BY <1>1, <1>3, <1>6 DEF FollowOK, DueOK, InHand, table, history
<1>9. RequestsOK(m)'
  <2> SUFFICES ASSUME Calm(m)', NEW o \in Handlers, At(o, m)' PROVE RequestOK(o, m)'
    BY DEF RequestsOK
  <2>1. RequestOK(h, m) /\ o = h
    BY <1>1, <1>4, <1>6 DEF FollowOK, RequestsOK, RequestOK
  <2>2. KeepOK(h, m)'
    <3> SUFFICES ASSUME NEW k \in SlotsOf(m), k \in request'[h].keep
                 PROVE  /\ ~request'[h].reset
                        /\ status[k] \notin {"absent", "pending"}
                        /\ k \notin raced => sendAt[k] <= now
      BY <1>1, <1>3 DEF KeepOK, Exists, table, history
    <3>1. Kept(k) /\ ~request[h].reset
      BY <1>3
    <3>2. status[k] = "sent"
      BY <3>1 DEF Kept
    <3> QED
      BY <1>3, <3>1, <3>2 DEF FollowOK, DueOK
  <2> QED
    BY <1>1, <1>3, <1>6, <2>1, <2>2 DEF RequestOK, Rescheduling, Exists
<1>10. WaitsOK(m)'
  BY <1>3 DEF WaitsOK, Rests, At
<1>11. DatesOK(m)'
  <2> SUFFICES ASSUME Calm(m)', Dated(m)', NEW k \in SlotsOf(m) PROVE DateOK(k)'
    BY DEF DatesOK
  <2>1. Dated(m)
    BY <1>1, <1>3, <1>6 DEF Dated, Rescheduling, history
  <2>2. DateOK(k)
    BY <1>4, <2>1, <1>1 DEF FollowOK, DatesOK
  <2> QED
    BY <1>1, <2>2 DEF DateOK, RunOK, SentFor, table, history
<1> QED
  BY <1>1, <1>5, <1>7, <1>8, <1>9, <1>10, <1>11 DEF FollowOK

\* The upsert that is refused or fails.
LEMMA UpsertEndsFollows ==
    ASSUME FollowInv, NEW h \in Handlers, UpsertJobs(h),
           UNCHANGED <<table, raced, movedOff, unplanned>>,
           ~Exists(request[h].meeting) \/ Fails
    PROVE  \A n \in Meetings : FollowOK(n)'
<1> USE Shapes, SlotMeeting DEF FollowInv
<1>0. PICK m \in Meetings : m = request[h].meeting
  BY DEF ListJobs, UpsertJobs, CancelJobs
<1>1. /\ request[h].pc = "upsert" /\ m \in Meetings /\ At(h, m) /\ (Answers \/ Fails)
      /\ UNCHANGED <<meeting, table, now, batch, crashes, announced, clash, raced, movedOff,
                     unplanned>>
  BY <1>0 DEF UpsertJobs, At
<1>2. request' = [request EXCEPT ![h] = IdleReq]
  BY DEF UpsertJobs
<1>3. /\ \A o \in Handlers \ {h} : request'[o] = request[o]
      /\ request'[h].pc = "idle"
  BY <1>2 DEF IdleReq
<1>4. ~Exists(m) \/ Fails
  BY <1>0
<1>5. ASSUME NEW n \in Meetings PROVE Calm(n)' => Calm(n) /\ ~Exists(m)
  BY <1>1, <1>4, CalmStays DEF Fails
<1>6. ASSUME NEW n \in Meetings \ {m} PROVE FollowOK(n)'
  <2>1. \A o \in Handlers : (At(o, n)' <=> At(o, n)) /\ (At(o, n) => request'[o] = request[o])
    BY <1>1, <1>3, RequestAside DEF At
  <2>2. Aside(n)
    BY <1>1, <1>5, <2>1 DEF Aside, table
  <2> QED
    BY <2>2, AsideOK
<1>7. \A o \in Handlers : At(o, m)' <=> At(o, m) /\ o # h
  BY <1>3 DEF At
<1>8. GoneOK(m)'
  BY <1>1, <1>7 DEF FollowOK, GoneOK, Exists, table
<1>9. DueOK(m)'
  BY <1>1, <1>3, <1>7 DEF FollowOK, DueOK, InHand, table
<1>10. ASSUME Calm(m)' PROVE \A k \in SlotsOf(m) : status'[k] = "absent"
  BY <1>1, <1>5, <1>10 DEF FollowOK, GoneOK, table
<1>11. RequestsOK(m)'
  <2>1. Calm(m)' => \A o \in Handlers : ~At(o, m)'
    BY <1>1, <1>5, <1>7 DEF FollowOK, RequestsOK, RequestOK
  <2> QED
    BY <2>1 DEF RequestsOK
<1>12. WaitsOK(m)'
  <2> SUFFICES ASSUME Calm(m)', NEW k \in SlotsOf(m) PROVE WaitOK(k)'
    BY DEF WaitsOK
  <2> QED
    BY <1>1, <1>5, <1>10 DEF WaitOK, Intended, Keeps, Exists, Statuses
<1>13. DatesOK(m)'
  BY <1>10 DEF DatesOK, DateOK
<1> QED
  BY <1>1, <1>6, <1>8, <1>9, <1>11, <1>12, <1>13 DEF FollowOK

\* The upsert writes the rows anew, as the meeting stands, and marks those a run has in
\* hand.
LEMMA UpsertFollows ==
    ASSUME FollowInv, NEW h \in Handlers, UpsertJobs(h), NEW m \in Meetings,
           m = request[h].meeting, NEW row, row = request[h].row, NEW new,
           new = SlotsOf(m) \ request[h].keep, Exists(m), UNCHANGED faults,
           status' = [k \in Slots |-> IF k \in new THEN Planned(row, k, request[h].at)
                                      ELSE status[k]],
           sendAt' = [k \in Slots |-> IF k \in new THEN SendAt(row, k) ELSE sendAt[k]],
           raced' = raced \cup {k \in new : InHand(k)},
           movedOff' = IF request[h].reset THEN movedOff \ {m} ELSE movedOff,
           unplanned' = unplanned \ {m}
    PROVE  \A n \in Meetings : FollowOK(n)'
<1> USE Shapes, SlotMeeting DEF FollowInv
<1>1. /\ request[h].pc = "upsert" /\ At(h, m)
      /\ UNCHANGED <<meeting, now, batch, crashes, announced, clash>>
      /\ request' = [request EXCEPT ![h] = IdleReq]
  BY DEF UpsertJobs, At
<1>2. /\ \A o \in Handlers \ {h} : request'[o] = request[o]
      /\ request'[h].pc = "idle"
  BY <1>1 DEF IdleReq
<1>3. \A k \in Slots : (InHand(k)' <=> InHand(k)) /\ (k \in raced => k \in raced')
  BY <1>1 DEF InHand
<1>4. \A k \in Slots \ new : /\ status'[k] = status[k] /\ sendAt'[k] = sendAt[k]
                             /\ (k \in raced' <=> k \in raced)
  OBVIOUS
<1>5. \A k \in new : /\ k \in Slots /\ k.meeting = m
                     /\ status'[k] = Planned(row, k, request[h].at)
                     /\ sendAt'[k] = SendAt(row, k) /\ (InHand(k) => k \in raced')
  OBVIOUS
<1>6. ASSUME NEW n \in Meetings \ {m} PROVE FollowOK(n)'
  <2>1. \A o \in Handlers : (At(o, n)' <=> At(o, n)) /\ (At(o, n) => request'[o] = request[o])
    BY <1>1, <1>2, RequestAside DEF At
  <2>2. \A k \in SlotsOf(n) : k \in Slots \ new
    OBVIOUS
  <2>3. (n \in movedOff' <=> n \in movedOff) /\ (n \in unplanned' <=> n \in unplanned)
    OBVIOUS
  <2>4. Calm(n)' => Calm(n)
    BY <1>1 DEF Calm
  <2>5. Aside(n)
    BY <1>1, <1>4, <2>1, <2>2, <2>3, <2>4 DEF Aside
  <2> QED
    BY <2>5, AsideOK
<1>7. \A o \in Handlers : At(o, m)' <=> At(o, m) /\ o # h
  BY <1>2 DEF At
<1>8. GoneOK(m)'
  BY <1>1 DEF GoneOK, Exists, Statuses
<1>9. DueOK(m)'
  <2>1. ASSUME NEW k \in SlotsOf(m), k \notin raced', InHand(k)' \/ status'[k] = "sent"
        PROVE  status'[k] = "absent" \/ sendAt'[k] <= now'
    <3>1. k \notin new
      <4>1. ASSUME k \in new PROVE FALSE
        <5>1. ~InHand(k)' /\ status'[k] \in {"pending", "skipped"}
          BY <1>3, <1>5, <2>1, <4>1 DEF Planned
        <5> QED
          BY <2>1, <5>1
      <4> QED
        BY <4>1
    <3>2. status'[k] = status[k] /\ sendAt'[k] = sendAt[k] /\ k \notin raced
      BY <1>4, <2>1, <3>1
    <3> QED
      BY <1>1, <1>3, <2>1, <3>2 DEF FollowOK, DueOK
  <2>2. \A o \in Handlers : At(o, m)' /\ request'[o].pc = "upsert" => request'[o].at <= now'
    BY <1>1, <1>2, <1>7 DEF FollowOK, DueOK
  <2> QED
    BY <2>1, <2>2 DEF DueOK
<1>10. ASSUME Calm(m)'
       PROVE  Calm(m) /\ RequestOK(h, m) /\ row = meeting[m] /\ Keeps(row) /\ KeepOK(h, m)
  <2>1. Calm(m)
    BY <1>1, <1>10 DEF Calm
  <2>2. RequestOK(h, m)
    BY <1>1, <2>1 DEF FollowOK, RequestsOK
  <2> QED
    BY <1>1, <2>1, <2>2 DEF RequestOK, Rescheduling
<1>11. RequestsOK(m)'
  BY <1>7, <1>10 DEF RequestsOK, RequestOK
<1>12. ASSUME Calm(m)', m \notin movedOff', ~request[h].reset
       PROVE  Dated(m) /\ \A k \in SlotsOf(m) : DateOK(k)
  <2>1. Dated(m)
    BY <1>10, <1>12 DEF RequestOK, Dated
  <2> QED
    BY <1>10, <1>12, <2>1 DEF FollowOK, DatesOK
<1>13. WaitsOK(m)'
  <2> SUFFICES ASSUME Calm(m)', NEW k \in SlotsOf(m) PROVE WaitOK(k)'
    BY DEF WaitsOK
  <2>1. CASE k \in new
    <3>1. /\ status'[k] = Planned(meeting[m], k, request[h].at) /\ k.meeting = m
          /\ sendAt'[k] = SendAt(meeting[m], k) /\ Keeps(meeting[m])
      BY <1>5, <1>10, <2>1
    <3>2. request[h].at <= now /\ request[h].at \in Nat
      BY <1>1 DEF FollowOK, DueOK, RequestType
    <3>3. SendAt(meeting[m], k) \in Int
      BY DEF SendAt, Row
    <3> QED
      BY <1>1, <3>1, <3>2, <3>3 DEF WaitOK, Planned, Intended
  <2>2. CASE k \notin new
    <3>1. k \in request[h].keep
      BY <2>2
    <3>2. /\ ~request[h].reset /\ status[k] \notin {"absent", "pending"}
          /\ k \notin raced => sendAt[k] <= now
      BY <1>10, <3>1 DEF KeepOK
    <3>3. status'[k] = status[k] /\ sendAt'[k] = sendAt[k] /\ (k \in raced' <=> k \in raced)
      BY <1>4, <2>2
    <3>4. m \notin movedOff' => sendAt[k] = SendAt(meeting[m], k)
      BY <1>12, <3>2 DEF DateOK
    <3>5. k.meeting = m /\ SendAt(meeting[m], k) \in Int /\ sendAt[k] \in Int
      BY DEF SendAt, Row
    <3> QED
      BY <1>1, <3>2, <3>3, <3>4, <3>5 DEF WaitOK
  <2> QED
    BY <2>1, <2>2
<1>14. DatesOK(m)'
  <2> SUFFICES ASSUME Calm(m)', Dated(m)', NEW k \in SlotsOf(m) PROVE DateOK(k)'
    BY DEF DatesOK
  <2>1. CASE k \in new
    <3>1. /\ status'[k] \in {"pending", "skipped"} /\ k.meeting = m
          /\ sendAt'[k] = SendAt(meeting[m], k) /\ (InHand(k) => k \in raced')
      BY <1>5, <1>10, <2>1 DEF Planned
    <3>2. k \notin raced' => \A b \in Batches : batch[b].slot # k
      BY <3>1 DEF InHand
    <3> QED
      BY <1>1, <3>1, <3>2 DEF DateOK, RunOK, SentFor
  <2>2. CASE k \notin new
    <3>1. k \in request[h].keep
      BY <2>2
    <3>2. ~request[h].reset /\ m \notin movedOff'
      BY <1>10, <3>1 DEF KeepOK, Dated
    <3>3. DateOK(k)
      BY <1>12, <3>2
    <3>4. status'[k] = status[k] /\ sendAt'[k] = sendAt[k] /\ (k \in raced' <=> k \in raced)
      BY <1>4, <2>2
    <3> QED
      BY <1>1, <3>3, <3>4 DEF DateOK, RunOK, SentFor
  <2> QED
    BY <2>1, <2>2
<1> QED
  BY <1>6, <1>8, <1>9, <1>11, <1>13, <1>14 DEF FollowOK

\* The upsert, whatever becomes of it.
LEMMA UpsertJobsFollows ==
    ASSUME FollowInv, NEW h \in Handlers, UpsertJobs(h)
    PROVE  \A n \in Meetings : FollowOK(n)'
<1>1. PICK m \in Meetings : m = request[h].meeting
  BY Shapes DEF FollowInv, UpsertJobs
<1>0. PICK row, new : row = request[h].row /\ new = SlotsOf(m) \ request[h].keep
  OBVIOUS
<1>2. \/ /\ Exists(m) /\ Answers
         /\ status' = [k \in Slots |-> IF k \in new THEN Planned(row, k, request[h].at)
                                       ELSE status[k]]
         /\ sendAt' = [k \in Slots |-> IF k \in new THEN SendAt(row, k) ELSE sendAt[k]]
         /\ raced' = raced \cup {k \in new : InHand(k)}
         /\ movedOff' = IF request[h].reset THEN movedOff \ {m} ELSE movedOff
         /\ unplanned' = unplanned \ {m}
      \/ (~Exists(m) \/ Fails) /\ UNCHANGED <<table, raced, movedOff, unplanned>>
  BY <1>0, <1>1 DEF UpsertJobs
<1>3. CASE (~Exists(m) \/ Fails) /\ UNCHANGED <<table, raced, movedOff, unplanned>>
  BY <1>1, <1>3, UpsertEndsFollows
<1>4. CASE ~((~Exists(m) \/ Fails) /\ UNCHANGED <<table, raced, movedOff, unplanned>>)
  BY <1>0, <1>1, <1>2, <1>4, UpsertFollows DEF Answers
<1> QED
  BY <1>3, <1>4

\* cancelPendingJobs: nothing waits for a meeting that asks for nothing any more.
LEMMA CancelJobsFollows ==
    ASSUME FollowInv, NEW h \in Handlers, CancelJobs(h)
    PROVE  \A n \in Meetings : FollowOK(n)'
<1> USE Shapes, SlotMeeting DEF FollowInv
<1>0. PICK m \in Meetings : m = request[h].meeting
  BY DEF ListJobs, UpsertJobs, CancelJobs
<1>1. /\ request[h].pc = "cancel" /\ m \in Meetings /\ At(h, m)
      /\ UNCHANGED <<meeting, sendAt, now, batch, crashes, announced, clash, raced, movedOff,
                     unplanned>>
      /\ request' = [request EXCEPT ![h] = IdleReq]
  BY <1>0 DEF CancelJobs, At, history
<1>2. /\ \A o \in Handlers \ {h} : request'[o] = request[o]
      /\ request'[h].pc = "idle"
  BY <1>1 DEF IdleReq
<1>3. \/ /\ UNCHANGED faults
         /\ status' = [k \in Slots |->
               IF k.meeting = m /\ status[k] = "pending" THEN "skipped" ELSE status[k]]
      \/ Fails /\ UNCHANGED status
  BY <1>0 DEF CancelJobs, Answers
<1>4. \A k \in Slots : \/ status'[k] = status[k]
                       \/ k.meeting = m /\ status[k] = "pending" /\ status'[k] = "skipped"
  BY <1>3
<1>5. ASSUME NEW n \in Meetings
      PROVE  Calm(n)' => Calm(n) /\ \A k \in SlotsOf(m) : status'[k] # "pending"
  BY <1>1, <1>3 DEF Calm, Fails
<1>6. ASSUME NEW n \in Meetings \ {m} PROVE FollowOK(n)'
  <2>1. \A o \in Handlers : (At(o, n)' <=> At(o, n)) /\ (At(o, n) => request'[o] = request[o])
    BY <1>1, <1>2, RequestAside DEF At
  <2>2. \A k \in SlotsOf(n) : status'[k] = status[k]
    BY <1>4
  <2>3. Aside(n)
    BY <1>1, <1>5, <2>1, <2>2 DEF Aside
  <2> QED
    BY <2>3, AsideOK
<1>7. \A o \in Handlers : At(o, m)' <=> At(o, m) /\ o # h
  BY <1>2 DEF At
<1>8. GoneOK(m)'
  BY <1>1, <1>4, <1>7 DEF FollowOK, GoneOK, Exists
<1>9. DueOK(m)'
  BY <1>1, <1>2, <1>4, <1>7 DEF FollowOK, DueOK, InHand
<1>10. ASSUME Calm(m)'
       PROVE  RequestOK(h, m) /\ ~Keeps(meeting[m])
  <2>1. RequestOK(h, m)
    BY <1>1, <1>5, <1>10 DEF FollowOK, RequestsOK
  <2> QED
    BY <1>1, <2>1 DEF RequestOK, Keeps, Exists, Statuses
<1>11. RequestsOK(m)'
  BY <1>7, <1>10 DEF RequestsOK, RequestOK
<1>12. WaitsOK(m)'
  BY <1>1, <1>5, <1>10 DEF WaitsOK, WaitOK, Intended
<1>13. DatesOK(m)'
  <2> SUFFICES ASSUME Calm(m)', Dated(m)', NEW k \in SlotsOf(m) PROVE DateOK(k)'
    BY DEF DatesOK
  <2>1. Dated(m)
    BY <1>1, <1>2, <1>7 DEF Dated, Rescheduling
  <2>2. DateOK(k)
    BY <1>1, <1>5, <2>1 DEF FollowOK, DatesOK
  <2>3. status'[k] = "absent" <=> status[k] = "absent"
    BY <1>4
  <2>4. status'[k] = "sent" <=> status[k] = "sent"
    BY <1>4
  <2> QED
    BY <1>1, <2>2, <2>3, <2>4 DEF DateOK, RunOK, SentFor
<1> QED
  BY <1>1, <1>6, <1>8, <1>9, <1>11, <1>12, <1>13 DEF FollowOK

\* A meeting that is removed takes its reminders with it.
LEMMA RemoveFollows ==
    ASSUME FollowInv, NEW m \in Meetings, Remove(m)
    PROVE  \A n \in Meetings : FollowOK(n)'
<1> USE Shapes, SlotMeeting DEF FollowInv
<1>1. /\ Exists(m)
      /\ UNCHANGED <<sendAt, now, batch, request, faults, crashes, announced, clash, raced,
                     movedOff, unplanned>>
      /\ meeting' = [meeting EXCEPT ![m] = [NoRow EXCEPT !.status = "deleted"]]
      /\ status' = [k \in Slots |-> IF k.meeting = m THEN "absent" ELSE status[k]]
  BY DEF Remove
<1>2. meeting'[m].status = "deleted" /\ \A k \in SlotsOf(m) : status'[k] = "absent"
  BY <1>1 DEF NoRow
<1>3. ASSUME NEW n \in Meetings \ {m} PROVE FollowOK(n)'
  <2>1. \A k \in SlotsOf(n) : status'[k] = status[k]
    BY <1>1
  <2>2. Aside(n)
    BY <1>1, <2>1 DEF Aside, At, Calm
  <2> QED
    BY <2>2, AsideOK
<1>4. GoneOK(m)'
  BY <1>2 DEF GoneOK
<1>5. DueOK(m)'
  BY <1>1, <1>2 DEF FollowOK, DueOK, At
<1>6. RequestsOK(m)'
  <2> SUFFICES ASSUME Calm(m)', NEW o \in Handlers, At(o, m)' PROVE RequestOK(o, m)'
    BY DEF RequestsOK
  <2>1. RequestOK(o, m) /\ ~Exists(m)'
    BY <1>1, <1>2 DEF FollowOK, RequestsOK, At, Calm, Exists, Statuses
  <2> QED
    BY <1>1, <2>1 DEF RequestOK, KeepOK, Rescheduling, At
<1>7. WaitsOK(m)'
  BY <1>2 DEF WaitsOK, WaitOK, Intended, Keeps
<1>8. DatesOK(m)'
  BY <1>2 DEF DatesOK, DateOK
<1> QED
  BY <1>3, <1>4, <1>5, <1>6, <1>7, <1>8 DEF FollowOK

----------------------------------------------------------------------------
(* Runs of the cron *)

\* A run b that takes nothing that is not due, writes verdicts on what it had in hand,
\* and holds and announces the date of the meeting.
LEMMA RunFollows ==
    ASSUME FollowInv, NEW b \in Batches, NEW r \in BatchType, batch' = [batch EXCEPT ![b] = r],
           UNCHANGED <<meeting, request, sendAt, now, crashes, raced, clash, movedOff, unplanned>>,
           Answers \/ Fails,
           \A k \in Slots \ raced : r.slot = k \/ (\E t \in r.todo : t.slot = k) =>
               InHand(k) \/ sendAt[k] <= now,
           \A k \in Slots : \/ status'[k] = status[k]
                            \/ /\ InHand(k) /\ status[k] # "absent"
                               /\ status'[k] \in {"sent", "failed", "skipped"},
           \A k \in Slots : announced[k] \subseteq announced'[k],
           \A k \in Slots \ raced :
               /\ Calm(k.meeting) /\ Dated(k.meeting) /\ DateOK(k) /\ status[k] # "absent"
               => RunOK(b, k)' /\ (status'[k] # status[k] => SentFor(k)')
    PROVE  \A n \in Meetings : FollowOK(n)'
<1> USE Shapes, SlotMeeting DEF FollowInv
<1> SUFFICES ASSUME NEW n \in Meetings PROVE FollowOK(n)'
  OBVIOUS
<1>1. Calm(n)' => Calm(n)
  BY CalmStays
<1>2. /\ \A h \in Handlers : At(h, n)' <=> At(h, n)
      /\ (Rests(n)' <=> Rests(n)) /\ (Dated(n)' <=> Dated(n))
  BY DEF At, Rests, Dated, Rescheduling
<1>3. /\ \A c \in Batches \ {b} : batch'[c] = batch[c]
      /\ batch'[b] = r
  OBVIOUS
<1>4. \A k \in SlotsOf(n) : status'[k] = "absent" <=> status[k] = "absent"
  OBVIOUS
<1>5. ASSUME NEW k \in SlotsOf(n), k \notin raced, InHand(k) \/ InHand(k)' \/ status'[k] = "sent"
      PROVE  status[k] = "absent" \/ sendAt[k] <= now
  <2>1. InHand(k)' => InHand(k) \/ sendAt[k] <= now
    BY <1>3, <1>5 DEF InHand
  <2>2. status'[k] = "sent" => status[k] = "sent" \/ InHand(k)
    BY <1>5
  <2> QED
    BY <1>5, <2>1, <2>2 DEF FollowOK, DueOK
<1>6. GoneOK(n)'
  BY <1>2, <1>4 DEF FollowOK, GoneOK, Exists
<1>7. DueOK(n)'
  BY <1>2, <1>4, <1>5 DEF FollowOK, DueOK
<1>8. RequestsOK(n)'
  <2> SUFFICES ASSUME Calm(n)', NEW h \in Handlers, At(h, n)' PROVE RequestOK(h, n)'
    BY DEF RequestsOK
  <2>1. RequestOK(h, n)
    BY <1>1, <1>2 DEF FollowOK, RequestsOK
  <2>2. KeepOK(h, n) => KeepOK(h, n)'
    BY DEF KeepOK, Exists
  <2> QED
    BY <1>2, <2>1, <2>2 DEF RequestOK, Rescheduling, Exists
<1>9. WaitsOK(n)'
  <2> SUFFICES ASSUME Calm(n)', Rests(n)', NEW k \in SlotsOf(n) PROVE WaitOK(k)'
    BY DEF WaitsOK
  <2>1. WaitOK(k) /\ k.meeting = n
    BY <1>1, <1>2 DEF FollowOK, WaitsOK
  <2>2. status'[k] = "pending" => status[k] = "pending"
    OBVIOUS
  <2>3. ASSUME status'[k] # status[k], k \notin raced, n \notin movedOff
        PROVE  SendAt(meeting[n], k) <= now
    <3>1. InHand(k) /\ status[k] # "absent"
      BY <2>3
    <3>2. Dated(n)
      BY <1>2, <2>3 DEF Rests, Dated, Rescheduling
    <3>3. DateOK(k)
      BY <1>1, <3>2 DEF FollowOK, DatesOK
    <3> QED
      BY <1>5, <2>1, <2>3, <3>1, <3>3 DEF DateOK
  <2>4. SendAt(meeting[n], k) \in Int
    BY DEF SendAt, Row
  <2> QED
    BY <2>1, <2>2, <2>3, <2>4 DEF WaitOK, Intended
<1>10. DatesOK(n)'
  <2> SUFFICES ASSUME Calm(n)', Dated(n)', NEW k \in SlotsOf(n), status[k] # "absent"
               PROVE  DateOK(k)'
    BY <1>4 DEF DatesOK, DateOK
  <2>1. DateOK(k) /\ k.meeting = n /\ Calm(n) /\ Dated(n)
    BY <1>1, <1>2 DEF FollowOK, DatesOK
  <2>2. ASSUME k \notin raced PROVE SentFor(k)' /\ \A c \in Batches : RunOK(c, k)'
    <3>1. RunOK(b, k)' /\ (status'[k] # status[k] => SentFor(k)')
      BY <2>1, <2>2
    <3>2. status'[k] = status[k] => SentFor(k)'
      BY <2>1, <2>2 DEF DateOK, SentFor
    <3>3. ASSUME NEW c \in Batches \ {b} PROVE RunOK(c, k)'
      BY <1>3, <2>1, <2>2 DEF DateOK, RunOK
    <3> QED
      BY <3>1, <3>2, <3>3
  <2> QED
    BY <2>1, <2>2 DEF DateOK
<1> QED
  BY <1>6, <1>7, <1>8, <1>9, <1>10 DEF FollowOK

\* What is selected is due.
LEMMA FireFollows ==
    ASSUME FollowInv, NEW b \in Batches, Fire(b)
    PROVE  \A n \in Meetings : FollowOK(n)'
<1> USE Shapes, SlotMeeting DEF FollowInv
<1>1. /\ UNCHANGED <<meeting, table, now, request, crashes, history>> /\ (Answers \/ Fails)
  BY DEF Fire
<1>2. PICK r \in BatchType :
          /\ batch' = [batch EXCEPT ![b] = r]
          /\ \A k \in Slots : (\E t \in r.todo : t.slot = k) => InHand(k) \/ sendAt[k] <= now
          /\ r = batch[b] \/ r.slot = None
  <2>1. CASE \E S \in SUBSET Due : batch' = [batch EXCEPT ![b] = [IdleBatch EXCEPT
                !.pc = "next", !.todo = {[slot |-> k, at |-> sendAt[k]] : k \in S}]]
    <3>1. PICK S \in SUBSET Due : batch' = [batch EXCEPT ![b] = [IdleBatch EXCEPT
                !.pc = "next", !.todo = {[slot |-> k, at |-> sendAt[k]] : k \in S}]]
      BY <2>1
    <3> DEFINE D == {[slot |-> k, at |-> sendAt[k]] : k \in S}
               r == [IdleBatch EXCEPT !.pc = "next", !.todo = D]
    <3>2. D \in SUBSET [slot : Slots, at : Int] /\ \A t \in D : t.slot \in Due
      BY DEF Due
    <3>3. batch' = [batch EXCEPT ![b] = r]
      BY <3>1
    <3> HIDE DEF D
    <3>4. r \in BatchType /\ r.todo = D /\ r.slot = None
      BY <3>2, IdleTypes DEF BatchType, IdleBatch
    <3> HIDE DEF r
    <3>5. \A k \in Slots : (\E t \in r.todo : t.slot = k) => sendAt[k] <= now
      BY <3>2, <3>4 DEF Due
    <3> QED
      BY <3>3, <3>4, <3>5
  <2>2. CASE UNCHANGED batch
    <3>1. batch' = [batch EXCEPT ![b] = batch[b]] /\ batch[b] \in BatchType
      BY <2>2
    <3> QED
      BY <3>1 DEF InHand
  <2> QED
    BY <2>1, <2>2 DEF Fire
<1>3. \A k \in Slots : r.slot = k => InHand(k)
  BY <1>2, NoneAssumption DEF InHand
<1>4. \A k \in Slots : DateOK(k) /\ status[k] # "absent" /\ k \notin raced => RunOK(b, k)'
  BY <1>1, <1>2, NoneAssumption DEF DateOK, RunOK, table, history
<1> QED
  BY <1>1, <1>2, <1>3, <1>4, RunFollows DEF table, history

\* A run reads the meeting as it is.
LEMMA LoadNextFollows ==
    ASSUME FollowInv, NEW b \in Batches, LoadNext(b)
    PROVE  \A n \in Meetings : FollowOK(n)'
<1> USE Shapes, SlotMeeting DEF FollowInv
<1>1. /\ UNCHANGED <<meeting, table, now, request, crashes, history>> /\ (Answers \/ Fails)
  BY DEF LoadNext
<1>2. PICK t \in batch[b].todo :
          LET row == meeting[t.slot.meeting]
              left == [batch[b] EXCEPT !.todo = @ \ {t}, !.slot = t.slot]
          IN  \/ /\ Sendable(row) /\ Answers
                 /\ batch' = [batch EXCEPT ![b] = [left EXCEPT !.pc = "link", !.held = row]]
              \/ /\ (~Sendable(row) /\ Answers) \/ Fails
                 /\ batch' = [batch EXCEPT ![b] = [left EXCEPT !.pc = "mark",
                                                              !.mark = "skipped"]]
  BY DEF LoadNext
<1>3. /\ batch[b] \in BatchType /\ batch[b].mark = "none" /\ t.slot \in Slots
      /\ meeting[t.slot.meeting] \in Row
  <2>1. batch[b].pc = "next"
    BY DEF LoadNext
  <2> QED
    BY <2>1 DEF BatchType, Consistent
<1>4. PICK r \in BatchType :
          /\ batch' = [batch EXCEPT ![b] = r]
          /\ r.slot = t.slot /\ r.todo = batch[b].todo \ {t} /\ r.mark # "sent"
          /\ r.pc \in {"link", "send"} => r.held = meeting[t.slot.meeting]
  <2> DEFINE row == meeting[t.slot.meeting]
             left == [batch[b] EXCEPT !.todo = @ \ {t}, !.slot = t.slot]
             r1 == [left EXCEPT !.pc = "link", !.held = row]
             r2 == [left EXCEPT !.pc = "mark", !.mark = "skipped"]
  <2>1. left \in BatchType /\ left.slot = t.slot /\ left.todo = batch[b].todo \ {t}
        /\ left.mark = "none"
    BY <1>3 DEF BatchType
  <2>2. batch' = [batch EXCEPT ![b] = r1] \/ batch' = [batch EXCEPT ![b] = r2]
    BY <1>2
  <2> HIDE DEF left
  <2>3. /\ r1 \in BatchType /\ r1.slot = t.slot /\ r1.todo = batch[b].todo \ {t}
        /\ r1.mark # "sent" /\ r1.held = row
    BY <1>3, <2>1 DEF BatchType
  <2>4. /\ r2 \in BatchType /\ r2.slot = t.slot /\ r2.todo = batch[b].todo \ {t}
        /\ r2.mark # "sent" /\ r2.pc = "mark"
    BY <1>3, <2>1 DEF BatchType
  <2> QED
    BY <2>2, <2>3, <2>4
<1>5. \A k \in Slots : r.slot = k \/ (\E u \in r.todo : u.slot = k) => InHand(k)
  BY <1>4 DEF InHand
<1>6. \A k \in Slots : RunOK(b, k)'
  BY <1>1, <1>4 DEF RunOK
<1> QED
  BY <1>1, <1>4, <1>5, <1>6, RunFollows DEF table, history

\* A meeting that is read again is the one of now.
LEMMA EnsureLinkFollows ==
    ASSUME FollowInv, NEW b \in Batches, EnsureLink(b)
    PROVE  \A n \in Meetings : FollowOK(n)'
<1> USE Shapes, SlotMeeting DEF FollowInv
<1>1. UNCHANGED <<meeting, table, now, request, bounds, history>> /\ batch[b].pc = "link"
  BY DEF EnsureLink
<1>2. PICK held \in {batch[b].held} \cup
                    {row \in {meeting[batch[b].slot.meeting]} : row.status \in Statuses} :
          batch' = [batch EXCEPT
             ![b].held = held,
             ![b].pc = IF batch[b].slot.channel \in held.contact THEN "send" ELSE "mark",
             ![b].mark = IF batch[b].slot.channel \in held.contact THEN "none"
                         ELSE NoRecipient]
  BY DEF EnsureLink
<1>3. batch[b] \in BatchType /\ batch[b].slot \in Slots /\ held \in Row
  BY <1>1, <1>2 DEF BatchType, Consistent
<1> DEFINE r == [batch[b] EXCEPT
             !.held = held,
             !.pc = IF batch[b].slot.channel \in held.contact THEN "send" ELSE "mark",
             !.mark = IF batch[b].slot.channel \in held.contact THEN "none" ELSE NoRecipient]
<1>4. /\ r \in BatchType /\ r.slot = batch[b].slot /\ r.todo = batch[b].todo
      /\ r.held = held /\ r.mark # "sent"
  BY <1>3 DEF BatchType, NoRecipient
<1>5. batch' = [batch EXCEPT ![b] = r]
  BY <1>2
<1> HIDE DEF r
<1>6. \A k \in Slots : r.slot = k \/ (\E u \in r.todo : u.slot = k) => InHand(k)
  BY <1>4 DEF InHand
<1>7. ASSUME NEW k \in Slots, DateOK(k), status[k] # "absent", k \notin raced
      PROVE  RunOK(b, k)'
  <2> SUFFICES ASSUME r.slot = k PROVE r.held.date = meeting[k.meeting].date
    BY <1>1, <1>4, <1>5 DEF RunOK
  <2>1. batch[b].held.date = meeting[k.meeting].date
    BY <1>1, <1>4, <1>7 DEF RunOK, DateOK
  <2>2. held = batch[b].held \/ held = meeting[k.meeting]
    BY <1>2, <1>4
  <2> QED
    BY <1>4, <2>1, <2>2
<1>8. Answers
  BY <1>1 DEF Answers, bounds
<1> QED
  BY <1>1, <1>4, <1>5, <1>6, <1>7, <1>8, RunFollows DEF table, history, bounds

\* A run announces the date it has read.
LEMMA SendFollows ==
    ASSUME FollowInv, NEW b \in Batches, Send(b)
    PROVE  \A n \in Meetings : FollowOK(n)'
<1> USE Shapes, SlotMeeting DEF FollowInv
<1>1. /\ UNCHANGED <<meeting, table, now, request, bounds, raced, clash, movedOff, unplanned>>
      /\ batch[b].pc = "send"
  BY DEF Send
<1>2. batch[b] \in BatchType /\ batch[b].slot \in Slots
  BY <1>1 DEF BatchType, Consistent
<1>3. PICK mark \in {"sent", "failed"} :
          /\ batch' = [batch EXCEPT ![b].pc = "mark", ![b].mark = mark]
          /\ mark = "sent" => announced' =
                [announced EXCEPT ![batch[b].slot] = @ \cup {batch[b].held.date}]
          /\ mark = "failed" => UNCHANGED announced
  BY DEF Send
<1> DEFINE r == [batch[b] EXCEPT !.pc = "mark", !.mark = mark]
<1>4. /\ r \in BatchType /\ r.slot = batch[b].slot /\ r.todo = batch[b].todo
      /\ r.pc = "mark" /\ r.mark = mark
  BY <1>2 DEF BatchType
<1>5. batch' = [batch EXCEPT ![b] = r]
  BY <1>3
<1> HIDE DEF r
<1>6. \A k \in Slots : r.slot = k \/ (\E u \in r.todo : u.slot = k) => InHand(k)
  BY <1>4 DEF InHand
<1>7. \A k \in Slots : announced[k] \subseteq announced'[k]
  BY <1>3
<1>8. mark = "sent" => batch[b].held.date \in announced'[batch[b].slot]
  BY <1>2, <1>3
<1>9. \A k \in Slots : DateOK(k) /\ status[k] # "absent" /\ k \notin raced => RunOK(b, k)'
  BY <1>1, <1>4, <1>5, <1>8 DEF RunOK, DateOK
<1>10. Answers
  BY <1>1 DEF Answers, bounds
<1> QED
  BY <1>1, <1>4, <1>5, <1>6, <1>7, <1>9, <1>10, RunFollows DEF table, bounds

\* A verdict is written on the row in hand.
LEMMA MarkFollows ==
    ASSUME FollowInv, NEW b \in Batches, Mark(b)
    PROVE  \A n \in Meetings : FollowOK(n)'
<1> USE Shapes, SlotMeeting DEF FollowInv
<1>1. /\ UNCHANGED <<meeting, sendAt, now, request, crashes, history>> /\ batch[b].pc = "mark"
      /\ (Answers \/ Fails)
  BY DEF Mark
<1>2. /\ batch[b] \in BatchType /\ batch[b].slot \in Slots
      /\ MarkOf(b) \in {"sent", "failed", "skipped"} /\ MarkOf(b) = batch[b].mark
  BY <1>1 DEF BatchType, Consistent, MarkOf
<1>3. \/ UNCHANGED status
      \/ /\ status[batch[b].slot] # "absent"
         /\ status' = [status EXCEPT ![batch[b].slot] = MarkOf(b)]
  BY DEF Mark
<1> DEFINE r == IF batch[b].todo = {} THEN IdleBatch
                ELSE [IdleBatch EXCEPT !.pc = "next", !.todo = batch[b].todo]
<1>4. r \in BatchType /\ r.slot = None /\ r.todo = batch[b].todo
  BY <1>2, IdleTypes DEF BatchType, IdleBatch
<1>5. batch' = [batch EXCEPT ![b] = r]
  BY DEF Mark
<1> HIDE DEF r
<1>6. \A k \in Slots : r.slot = k \/ (\E u \in r.todo : u.slot = k) => InHand(k)
  BY <1>4, NoneAssumption DEF InHand
<1>7. \A k \in Slots : RunOK(b, k)'
  BY <1>4, <1>5, NoneAssumption DEF RunOK
<1>8. \A k \in Slots : status'[k] = status[k] \/ (k = batch[b].slot /\ status'[k] = MarkOf(b)
                                                  /\ status[k] # "absent")
  BY <1>2, <1>3
<1>9. \A k \in Slots \ raced : DateOK(k) /\ status[k] # "absent" /\ status'[k] # status[k]
                                  => SentFor(k)'
  <2> SUFFICES ASSUME NEW k \in Slots \ raced, DateOK(k), status[k] # "absent",
                      status'[k] # status[k]
               PROVE  SentFor(k)'
    OBVIOUS
  <2>1. k = batch[b].slot /\ status'[k] = batch[b].mark /\ RunOK(b, k)
    BY <1>2, <1>8 DEF DateOK
  <2> QED
    BY <1>1, <2>1 DEF RunOK, SentFor, history
<1>10. \A k \in Slots : k = batch[b].slot => InHand(k)
  BY DEF InHand
<1>11. \A k \in Slots : \/ status'[k] = status[k]
                        \/ /\ InHand(k) /\ status[k] # "absent"
                           /\ status'[k] \in {"sent", "failed", "skipped"}
  BY <1>2, <1>8, <1>10
<1>12. UNCHANGED <<announced, raced, clash, movedOff, unplanned>>
  BY <1>1 DEF history
<1> QED
  BY <1>1, <1>4, <1>5, <1>6, <1>7, <1>9, <1>11, <1>12, RunFollows

----------------------------------------------------------------------------
(* Every step *)

\* Time only makes more of it due.
LEMMA TickFollows ==
    ASSUME FollowInv, Tick
    PROVE  \A n \in Meetings : FollowOK(n)'
<1> USE Shapes, SlotMeeting DEF FollowInv
<1>1. /\ UNCHANGED <<meeting, table, batch, request, bounds, history>> /\ now' = now + 1
  BY DEF Tick
<1> SUFFICES ASSUME NEW n \in Meetings PROVE FollowOK(n)'
  OBVIOUS
<1>2. /\ (Calm(n)' <=> Calm(n)) /\ (Rests(n)' <=> Rests(n)) /\ (Dated(n)' <=> Dated(n))
      /\ \A h \in Handlers : At(h, n)' <=> At(h, n)
  BY <1>1 DEF Calm, Rests, Dated, At, Rescheduling, bounds, history
<1>3. GoneOK(n)'
  BY <1>1, <1>2 DEF FollowOK, GoneOK, Exists, table
<1>4. DueOK(n)'
  BY <1>1, <1>2 DEF FollowOK, DueOK, InHand, RequestType, table, history
<1>5. RequestsOK(n)'
  <2> SUFFICES ASSUME Calm(n), NEW h \in Handlers, At(h, n), RequestOK(h, n)
               PROVE  RequestOK(h, n)'
    BY <1>2 DEF FollowOK, RequestsOK
  <2>1. KeepOK(h, n) => KeepOK(h, n)'
    BY <1>1 DEF KeepOK, Exists, table, history
  <2> QED
    BY <1>1, <1>2, <2>1 DEF RequestOK, Exists, Rescheduling
<1>6. WaitsOK(n)'
  <2> SUFFICES ASSUME NEW k \in SlotsOf(n), WaitOK(k) PROVE WaitOK(k)'
    BY <1>2 DEF FollowOK, WaitsOK
  <2>1. SendAt(meeting[k.meeting], k) \in Int
    BY DEF SendAt, Row
  <2> QED
    BY <1>1, <2>1 DEF WaitOK, Intended, table, history
<1>7. DatesOK(n)'
  BY <1>1, <1>2 DEF FollowOK, DatesOK, DateOK, RunOK, SentFor, table, history
<1> QED
  BY <1>3, <1>4, <1>5, <1>6, <1>7 DEF FollowOK

\* After a crash nothing is under way, and no meeting counts as calm.
LEMMA CrashFollows ==
    ASSUME FollowInv, Crash
    PROVE  \A n \in Meetings : FollowOK(n)'
<1> USE Shapes, SlotMeeting DEF FollowInv
<1>1. /\ UNCHANGED <<meeting, table, now, history>> /\ crashes' = crashes + 1
      /\ \A h \in Handlers : request'[h].pc = "idle"
      /\ \A b \in Batches : batch'[b].slot = None /\ batch'[b].todo = {}
  BY DEF Crash, IdleReq, IdleBatch
<1> SUFFICES ASSUME NEW n \in Meetings PROVE FollowOK(n)'
  OBVIOUS
<1>2. ~Calm(n)'
  BY <1>1 DEF Calm
<1>3. GoneOK(n)'
  BY <1>1 DEF FollowOK, GoneOK, Exists, At, table
<1>4. DueOK(n)'
  BY <1>1, NoneAssumption DEF FollowOK, DueOK, InHand, At, table, history
<1> QED
  BY <1>2, <1>3, <1>4 DEF FollowOK, RequestsOK, WaitsOK, DatesOK

\* Every step keeps the reminders in step with their meeting.
LEMMA FollowNext == FollowInv /\ [Next]_vars => FollowInv'
<1> SUFFICES ASSUME FollowInv, [Next]_vars
             PROVE  \A n \in Meetings : FollowOK(n)'
  BY NextTypes DEF FollowInv
<1>1. CASE \E h \in Handlers, m \in Meetings : Create(h, m) \/ UpdateRead(h, m)
  BY <1>1, CreateFollows, UpdateReadFollows
<1>2. CASE \E h \in Handlers : UpdatePatch(h) \/ ListJobs(h) \/ UpsertJobs(h) \/ CancelJobs(h)
  BY <1>2, UpdatePatchFollows, ListJobsFollows, UpsertJobsFollows, CancelJobsFollows
<1>3. CASE \E m \in Meetings : Remove(m)
  BY <1>3, RemoveFollows
<1>4. CASE \E b \in Batches : Cron(b)
  BY <1>4, FireFollows, LoadNextFollows, EnsureLinkFollows, SendFollows, MarkFollows DEF Cron
<1>5. CASE Tick
  BY <1>5, TickFollows
<1>6. CASE Crash
  BY <1>6, CrashFollows
<1>7. CASE UNCHANGED vars
  <2> SUFFICES ASSUME NEW n \in Meetings PROVE FollowOK(n)'
    OBVIOUS
  <2>1. Aside(n)
    BY <1>7 DEF Aside, Calm, At, vars, table, bounds, history
  <2> QED
    BY <2>1, AsideOK DEF FollowInv
<1> QED
  BY <1>1, <1>2, <1>3, <1>4, <1>5, <1>6, <1>7 DEF Next

\* At the start there is nothing to follow.
LEMMA FollowInit == Init => FollowInv
<1> SUFFICES ASSUME Init PROVE \A n \in Meetings : FollowOK(n)
  BY InitTypes DEF FollowInv
<1> SUFFICES ASSUME NEW n \in Meetings PROVE FollowOK(n)
  OBVIOUS
<1>1. /\ \A k \in SlotsOf(n) : k \in Slots /\ k.meeting = n /\ status[k] = "absent"
      /\ \A h \in Handlers : ~At(h, n)
      /\ \A b \in Batches : batch[b].slot = None /\ batch[b].todo = {}
      /\ meeting[n].status = "absent"
  BY SlotMeeting DEF Init, At, IdleReq, IdleBatch, NoRow
<1> QED
  BY <1>1 DEF FollowOK, GoneOK, DueOK, RequestsOK, WaitsOK, WaitOK, DatesOK, DateOK,
     Intended, Keeps

\* So it is from then on.
THEOREM Follows == Spec => []FollowInv
BY FollowInit, FollowNext, PTL DEF Spec

\* A meeting that is settled rests, and its date is not being changed.
LEMMA SettledRests ==
    ASSUME NEW m \in Meetings, Settled(m)
    PROVE  Calm(m) /\ Rests(m) /\ (m \notin movedOff => Dated(m))
BY DEF Settled, Calm, Rests, Dated, Others, At

\* Once a request is over, the reminders that wait are those the meeting as it now stands
\* asks for, at the time its date asks for, for any meetings, channels, offsets and edits.
THEOREM PendingMatches == Spec => []PendingMatchesMeeting
<1>1. FollowInv => PendingMatchesMeeting
  <2> SUFFICES ASSUME FollowInv, NEW k \in Slots, Settled(k.meeting)
               PROVE  WaitOK(k)
    BY DEF PendingMatchesMeeting, WaitOK
  <2> QED
    BY SlotMeeting, SettledRests DEF FollowInv, FollowOK, WaitsOK
<1> QED
  BY <1>1, Follows, PTL

\* No reminder is forgotten: what the meeting asks for and is still ahead waits.
THEOREM NoneForgotten == Spec => []NothingForgotten
<1>1. FollowInv => NothingForgotten
  <2> SUFFICES ASSUME FollowInv, NEW k \in Slots, Settled(k.meeting)
               PROVE  WaitOK(k)
    BY DEF NothingForgotten, WaitOK
  <2> QED
    BY SlotMeeting, SettledRests DEF FollowInv, FollowOK, WaitsOK
<1> QED
  BY <1>1, Follows, PTL

\* What shows as sent has announced the date the meeting has now.
THEOREM SentAnnounced == Spec => []SentAnnouncedTheDate
<1>1. FollowInv => SentAnnouncedTheDate
  <2> SUFFICES ASSUME FollowInv, NEW k \in Slots \ raced, Settled(k.meeting),
                      k.meeting \notin movedOff
               PROVE  SentFor(k)
    BY DEF SentAnnouncedTheDate
  <2>1. DateOK(k)
    BY SlotMeeting, SettledRests DEF FollowInv, FollowOK, DatesOK
  <2> QED
    BY <2>1 DEF DateOK, SentFor
<1> QED
  BY <1>1, Follows, PTL

----------------------------------------------------------------------------
(* How often a reminder goes out *)

\* A run that may yet send the reminder, and one that has its verdict on it.
MaySend(k, r) == (\E t \in r.todo : t.slot = k) \/ (r.slot = k /\ r.pc \in {"link", "send"})
Judges(k, r)  == r.slot = k /\ r.pc = "mark"

\* A run has a reminder in hand once.
SnapshotOK(r) == /\ r.pc = "idle" => r.todo = {}
                 /\ \A t \in r.todo : t.slot # r.slot
                 /\ \A t \in r.todo, u \in r.todo : t.slot = u.slot => t = u

\* Every run may send a reminder that waits, but for those that have their verdict on it;
\* once it does not wait, those that have it in hand.
Senders(k) == {b \in Batches : IF status[k] = "pending" THEN ~Judges(k, batch[b])
                               ELSE MaySend(k, batch[b])}

\* The sends there may be between two schedulings, and those made and to come.
Sendings   == Cardinality(Batches) * (1 + faults + crashes)
SendsOK(k) == sends[k] + Cardinality(Senders(k)) <= Sendings

OnceInv == /\ TypeOK /\ \A b \in Batches : SnapshotOK(batch[b])
           /\ \A k \in Slots : SendsOK(k)

\* The runs that send are finitely many.
LEMMA SendersFinite ==
    /\ Cardinality(Batches) \in Nat
    /\ \A S \in SUBSET Batches : /\ IsFiniteSet(S) /\ Cardinality(S) \in Nat
                                 /\ Cardinality(S) <= Cardinality(Batches)
                                 /\ \A b \in S : Cardinality(S \ {b}) = Cardinality(S) - 1
                                 /\ \A T \in SUBSET S : Cardinality(T) <= Cardinality(S)
<1>1. Cardinality(Batches) \in Nat
  BY FS_CardinalityType, BatchesAssumption
<1>2. ASSUME NEW S \in SUBSET Batches
      PROVE  /\ IsFiniteSet(S) /\ Cardinality(S) \in Nat
             /\ Cardinality(S) <= Cardinality(Batches)
             /\ \A b \in S : Cardinality(S \ {b}) = Cardinality(S) - 1
             /\ \A T \in SUBSET S : Cardinality(T) <= Cardinality(S)
  <2>1. IsFiniteSet(S) /\ Cardinality(S) <= Cardinality(Batches)
    BY FS_Subset, BatchesAssumption
  <2>2. Cardinality(S) \in Nat
    BY <2>1, FS_CardinalityType
  <2>3. \A b \in S : Cardinality(S \ {b}) = Cardinality(S) - 1
    BY <2>1, FS_RemoveElement
  <2>4. \A T \in SUBSET S : Cardinality(T) <= Cardinality(S)
    BY <2>1, FS_Subset
  <2> QED
    BY <2>1, <2>2, <2>3, <2>4
<1> QED
  BY <1>1, <1>2

\* A failure or a crash allows every run another send.
LEMMA SendingsGrow ==
    ASSUME TypeOK
    PROVE  /\ Sendings \in Nat /\ Cardinality(Batches) <= Sendings
           /\ UNCHANGED <<faults, crashes>> => Sendings' = Sendings
           /\ \/ faults' = faults + 1 /\ UNCHANGED crashes
              \/ crashes' = crashes + 1 /\ UNCHANGED faults
              => Sendings' = Sendings + Cardinality(Batches)
<1> DEFINE n == Cardinality(Batches)
<1>1. n \in Nat /\ faults \in Nat /\ crashes \in Nat
  BY SendersFinite, Shapes
<1>2. \A i \in Nat, c \in Nat : c * (1 + i) = c * i + c /\ c * i \in Nat
  OBVIOUS
<1> DEFINE x == faults + crashes
<1>3. x \in Nat /\ Sendings = n * (1 + x) /\ 1 + x \in Nat
  <2>1. 1 + faults + crashes = 1 + x
    BY <1>1
  <2> QED
    BY <1>1, <2>1 DEF Sendings
<1>4. Sendings = n * x + n /\ n * x \in Nat
  BY <1>1, <1>2, <1>3
<1>5. ASSUME \/ faults' = faults + 1 /\ UNCHANGED crashes
             \/ crashes' = crashes + 1 /\ UNCHANGED faults
      PROVE  Sendings' = Sendings + n
  <2>1. 1 + faults' + crashes' = 1 + (1 + x)
    BY <1>1, <1>5
  <2>2. Sendings' = n * (1 + (1 + x))
    BY <2>1 DEF Sendings
  <2>3. n * (1 + (1 + x)) = n * (1 + x) + n
    BY <1>1, <1>2, <1>3
  <2> QED
    BY <1>3, <2>2, <2>3
<1> QED
  BY <1>1, <1>4, <1>5 DEF Sendings

\* The senders are runs; those that have a reminder in hand have no verdict on it.
LEMMA SendersAre ==
    ASSUME OnceInv, NEW k \in Slots
    PROVE  /\ Senders(k) \in SUBSET Batches /\ sends[k] \in Nat
           /\ \A b \in Batches : MaySend(k, batch[b]) => b \in Senders(k)
<1>1. sends[k] \in Nat
  BY DEF OnceInv, TypeOK, HistoryType
<1>2. ASSUME NEW b \in Batches, MaySend(k, batch[b]) PROVE b \in Senders(k)
  BY <1>2 DEF OnceInv, SnapshotOK, MaySend, Judges, Senders
<1> QED
  BY <1>1, <1>2 DEF Senders

\* Nothing was sent, and no run may send that could not before.
LEMMA SendsKept ==
    ASSUME OnceInv, NEW k \in Slots, UNCHANGED crashes, Answers \/ Fails,
           sends'[k] = sends[k], Senders(k)' \subseteq Senders(k)
    PROVE  SendsOK(k)'
<1>1. /\ Sendings \in Nat /\ Cardinality(Batches) \in Nat
      /\ Sendings' = Sendings \/ Sendings' = Sendings + Cardinality(Batches)
  BY SendingsGrow, SendersFinite DEF OnceInv, Answers, Fails
<1>2. /\ Cardinality(Senders(k)') <= Cardinality(Senders(k))
      /\ Cardinality(Senders(k)') \in Nat /\ Cardinality(Senders(k)) \in Nat
  BY SendersAre, SendersFinite
<1>3. sends[k] + Cardinality(Senders(k)) <= Sendings /\ sends[k] \in Nat
  BY SendersAre DEF OnceInv, SendsOK
<1>4. sends'[k] + Cardinality(Senders(k)') <= Sendings'
  BY <1>1, <1>2, <1>3
<1> QED
  BY <1>4 DEF SendsOK

\* A statement failed or the process died: every run may send once more.
LEMMA SendsRenewed ==
    ASSUME OnceInv, NEW k \in Slots, sends'[k] = sends[k],
           \/ faults' = faults + 1 /\ UNCHANGED crashes
           \/ crashes' = crashes + 1 /\ UNCHANGED faults
    PROVE  SendsOK(k)'
<1>1. Sendings \in Nat /\ Sendings' = Sendings + Cardinality(Batches)
  BY SendingsGrow DEF OnceInv
<1>2. Senders(k)' \in SUBSET Batches
  BY DEF Senders
<1>3. /\ Cardinality(Senders(k)') <= Cardinality(Batches) /\ Cardinality(Batches) \in Nat
      /\ Cardinality(Senders(k)') \in Nat /\ Cardinality(Senders(k)) \in Nat
  BY <1>2, SendersAre, SendersFinite
<1>4. sends[k] + Cardinality(Senders(k)) <= Sendings /\ sends[k] \in Nat
  BY SendersAre DEF OnceInv, SendsOK
<1>5. sends'[k] + Cardinality(Senders(k)') <= Sendings'
  BY <1>1, <1>3, <1>4
<1> QED
  BY <1>5 DEF SendsOK

\* A reminder that is scheduled anew has not been sent.
LEMMA SendsAnew ==
    ASSUME OnceInv, NEW k \in Slots, sends'[k] = 0, UNCHANGED <<faults, crashes>>
    PROVE  SendsOK(k)'
<1>1. Sendings' = Sendings /\ Cardinality(Batches) <= Sendings /\ Sendings \in Nat
  BY SendingsGrow DEF OnceInv
<1>2. Senders(k)' \in SUBSET Batches
  BY DEF Senders
<1>3. /\ Cardinality(Senders(k)') <= Cardinality(Batches) /\ Cardinality(Batches) \in Nat
      /\ Cardinality(Senders(k)') \in Nat
  BY <1>2, SendersFinite
<1>4. sends'[k] + Cardinality(Senders(k)') <= Sendings'
  BY <1>1, <1>3
<1> QED
  BY <1>4 DEF SendsOK

\* A run that sends has no other send of it to come.
LEMMA SendsMade ==
    ASSUME OnceInv, NEW k \in Slots, NEW b \in Senders(k), sends'[k] = sends[k] + 1,
           UNCHANGED <<faults, crashes>>, Senders(k)' \subseteq Senders(k) \ {b}
    PROVE  SendsOK(k)'
<1>1. Sendings' = Sendings /\ Sendings \in Nat
  BY SendingsGrow DEF OnceInv
<1>2. Senders(k) \in SUBSET Batches /\ Senders(k) \ {b} \in SUBSET Batches /\ sends[k] \in Nat
  BY SendersAre
<1>3. /\ Cardinality(Senders(k)') <= Cardinality(Senders(k) \ {b})
      /\ Cardinality(Senders(k) \ {b}) = Cardinality(Senders(k)) - 1
      /\ Cardinality(Senders(k)') \in Nat /\ Cardinality(Senders(k)) \in Nat
  BY <1>2, SendersFinite
<1>4. sends[k] + Cardinality(Senders(k)) <= Sendings
  BY DEF OnceInv, SendsOK
<1>5. sends'[k] + Cardinality(Senders(k)') <= Sendings'
  BY <1>1, <1>2, <1>3, <1>4
<1> QED
  BY <1>5 DEF SendsOK

\* What holds after every step.
AfterOnce == (\A b \in Batches : SnapshotOK(batch'[b])) /\ \A k \in Slots : SendsOK(k)'

\* A step of no run, on rows that do not start to wait.
LEMMA OnceAside ==
    ASSUME OnceInv, UNCHANGED <<batch, crashes, sends>>, Answers \/ Fails,
           \A k \in Slots : status'[k] = status[k] \/ status'[k] # "pending"
    PROVE  AfterOnce
<1>1. ASSUME NEW k \in Slots PROVE Senders(k)' \subseteq Senders(k)
  BY SendersAre DEF Senders
<1>2. \A k \in Slots : SendsOK(k)'
  BY <1>1, SendsKept
<1> QED
  BY <1>2 DEF AfterOnce, OnceInv

\* A step of a run that sends nothing: it may send what it had in hand or what waits, and
\* keeps its verdict.
LEMMA OnceRun ==
    ASSUME OnceInv, NEW b \in Batches, NEW r \in BatchType, batch' = [batch EXCEPT ![b] = r],
           SnapshotOK(r), UNCHANGED <<status, sends, crashes>>, Answers \/ Fails,
           \A k \in Slots : /\ Judges(k, batch[b]) => Judges(k, r)
                            /\ MaySend(k, r) => MaySend(k, batch[b]) \/ status[k] = "pending"
    PROVE  AfterOnce
<1>1. \A c \in Batches : batch'[c] = IF c = b THEN r ELSE batch[c]
  BY Shapes DEF OnceInv
<1>2. ASSUME NEW k \in Slots PROVE Senders(k)' \subseteq Senders(k)
  BY <1>1 DEF Senders
<1>3. \A k \in Slots : SendsOK(k)'
  BY <1>2, SendsKept
<1> QED
  BY <1>1, <1>3 DEF AfterOnce, OnceInv

\* The snapshot has every row once, and only rows that wait.
LEMMA OnceFire ==
    ASSUME OnceInv, NEW b \in Batches, Fire(b)
    PROVE  AfterOnce
<1>1. /\ batch[b].pc = "idle" /\ UNCHANGED <<status, sends, crashes>> /\ (Answers \/ Fails)
  BY DEF Fire, table, history
<1>2. CASE UNCHANGED batch
  BY <1>1, <1>2, OnceAside
<1>3. CASE \E S \in SUBSET Due : batch' = [batch EXCEPT ![b] = [IdleBatch EXCEPT
                !.pc = "next", !.todo = {[slot |-> k, at |-> sendAt[k]] : k \in S}]]
  <2>1. PICK S \in SUBSET Due : batch' = [batch EXCEPT ![b] = [IdleBatch EXCEPT
                !.pc = "next", !.todo = {[slot |-> k, at |-> sendAt[k]] : k \in S}]]
    BY <1>3
  <2> DEFINE D == {[slot |-> k, at |-> sendAt[k]] : k \in S}
             r == [IdleBatch EXCEPT !.pc = "next", !.todo = D]
  <2>2. /\ D \in SUBSET [slot : Slots, at : Int]
        /\ \A t \in D : t.slot \in Due /\ t.slot \in Slots /\ t.at = sendAt[t.slot]
    BY Shapes DEF Due, OnceInv
  <2>3. batch' = [batch EXCEPT ![b] = r]
    BY <2>1
  <2> HIDE DEF D
  <2>4. r \in BatchType /\ r.todo = D /\ r.slot = None /\ r.pc = "next"
    BY <2>2, IdleTypes DEF BatchType, IdleBatch
  <2> HIDE DEF r
  <2>5. SnapshotOK(r)
    BY <2>2, <2>4, NoneAssumption DEF SnapshotOK
  <2>6. \A k \in Slots : /\ ~Judges(k, batch[b])
                         /\ MaySend(k, r) => status[k] = "pending"
    BY <1>1, <2>2, <2>4 DEF Judges, MaySend, Due
  <2> QED
    BY <1>1, <2>3, <2>4, <2>5, <2>6, OnceRun
<1> QED
  BY <1>2, <1>3 DEF Fire

\* The row taken in hand leaves the snapshot.
LEMMA OnceLoadNext ==
    ASSUME OnceInv, NEW b \in Batches, LoadNext(b)
    PROVE  AfterOnce
<1>1. /\ batch[b].pc = "next" /\ UNCHANGED <<status, sends, crashes>> /\ (Answers \/ Fails)
  BY DEF LoadNext, table, history
<1>2. PICK t \in batch[b].todo :
          LET row == meeting[t.slot.meeting]
              left == [batch[b] EXCEPT !.todo = @ \ {t}, !.slot = t.slot]
          IN  \/ /\ Sendable(row) /\ Answers
                 /\ batch' = [batch EXCEPT ![b] = [left EXCEPT !.pc = "link", !.held = row]]
              \/ /\ (~Sendable(row) /\ Answers) \/ Fails
                 /\ batch' = [batch EXCEPT ![b] = [left EXCEPT !.pc = "mark",
                                                              !.mark = "skipped"]]
  BY DEF LoadNext
<1>3. /\ batch[b] \in BatchType /\ t.slot \in Slots /\ meeting[t.slot.meeting] \in Row
      /\ t \in [slot : Slots, at : Int]
  BY Shapes, SlotMeeting DEF OnceInv, BatchType
<1>4. PICK r \in BatchType :
          /\ batch' = [batch EXCEPT ![b] = r]
          /\ r.slot = t.slot /\ r.todo = batch[b].todo \ {t} /\ r.pc \in {"link", "mark"}
  <2> DEFINE row == meeting[t.slot.meeting]
             left == [batch[b] EXCEPT !.todo = @ \ {t}, !.slot = t.slot]
             r1 == [left EXCEPT !.pc = "link", !.held = row]
             r2 == [left EXCEPT !.pc = "mark", !.mark = "skipped"]
  <2>1. left \in BatchType /\ left.slot = t.slot /\ left.todo = batch[b].todo \ {t}
    BY <1>3 DEF BatchType
  <2>2. batch' = [batch EXCEPT ![b] = r1] \/ batch' = [batch EXCEPT ![b] = r2]
    BY <1>2
  <2> HIDE DEF left
  <2>3. r1 \in BatchType /\ r1.slot = t.slot /\ r1.todo = batch[b].todo \ {t} /\ r1.pc = "link"
    BY <1>3, <2>1 DEF BatchType
  <2>4. r2 \in BatchType /\ r2.slot = t.slot /\ r2.todo = batch[b].todo \ {t} /\ r2.pc = "mark"
    BY <1>3, <2>1 DEF BatchType
  <2> QED
    BY <2>2, <2>3, <2>4
<1>5. SnapshotOK(batch[b])
  BY DEF OnceInv
<1>6. SnapshotOK(r)
  BY <1>4, <1>5 DEF SnapshotOK
<1>7. \A k \in Slots : ~Judges(k, batch[b]) /\ (MaySend(k, r) => MaySend(k, batch[b]))
  BY <1>1, <1>4 DEF Judges, MaySend
<1> QED
  BY <1>1, <1>4, <1>6, <1>7, OnceRun

\* The row in hand stays.
LEMMA OnceEnsureLink ==
    ASSUME OnceInv, NEW b \in Batches, EnsureLink(b)
    PROVE  AfterOnce
<1>1. /\ batch[b].pc = "link" /\ UNCHANGED <<status, sends, crashes, faults>>
  BY DEF EnsureLink, table, history, bounds
<1>2. PICK r \in BatchType : /\ batch' = [batch EXCEPT ![b] = r]
                             /\ r.slot = batch[b].slot /\ r.pc \in {"send", "mark"}
                             /\ r.todo = batch[b].todo
  <2>1. PICK held \in {batch[b].held} \cup
                      {row \in {meeting[batch[b].slot.meeting]} : row.status \in Statuses} :
          batch' = [batch EXCEPT
             ![b].held = held,
             ![b].pc = IF batch[b].slot.channel \in held.contact THEN "send" ELSE "mark",
             ![b].mark = IF batch[b].slot.channel \in held.contact THEN "none"
                         ELSE NoRecipient]
    BY DEF EnsureLink
  <2>2. batch[b] \in BatchType /\ batch[b].slot \in Slots /\ held \in Row
    BY <1>1, <2>1, Shapes, SlotMeeting DEF OnceInv, BatchType, Consistent
  <2> DEFINE r == [batch[b] EXCEPT
             !.held = held,
             !.pc = IF batch[b].slot.channel \in held.contact THEN "send" ELSE "mark",
             !.mark = IF batch[b].slot.channel \in held.contact THEN "none" ELSE NoRecipient]
  <2>3. /\ r \in BatchType /\ r.slot = batch[b].slot /\ r.todo = batch[b].todo
        /\ r.pc \in {"send", "mark"}
    BY <2>2 DEF BatchType, NoRecipient
  <2>4. batch' = [batch EXCEPT ![b] = r]
    BY <2>1
  <2> QED
    BY <2>3, <2>4
<1>3. SnapshotOK(r)
  BY <1>2 DEF OnceInv, SnapshotOK
<1>4. \A k \in Slots : ~Judges(k, batch[b]) /\ (MaySend(k, r) => MaySend(k, batch[b]))
  BY <1>1, <1>2 DEF Judges, MaySend
<1>5. Answers
  BY <1>1 DEF Answers
<1> QED
  BY <1>1, <1>2, <1>3, <1>4, <1>5, OnceRun

\* A send is one of those the run had to come.
LEMMA OnceSend ==
    ASSUME OnceInv, NEW b \in Batches, Send(b)
    PROVE  AfterOnce
<1> DEFINE s == batch[b].slot
<1>1. /\ batch[b].pc = "send" /\ UNCHANGED <<status, crashes, faults>>
  BY DEF Send, table, bounds
<1>2. batch[b] \in BatchType /\ s \in Slots /\ SnapshotOK(batch[b])
  BY <1>1, Shapes DEF OnceInv, BatchType, Consistent
<1>3. PICK mark \in {"sent", "failed"} :
          /\ batch' = [batch EXCEPT ![b].pc = "mark", ![b].mark = mark]
          /\ mark = "sent" => sends' = [sends EXCEPT ![s] = @ + 1]
          /\ mark = "failed" => UNCHANGED sends
  BY DEF Send
<1> DEFINE r == [batch[b] EXCEPT !.pc = "mark", !.mark = mark]
<1>4. /\ r \in BatchType /\ r.slot = s /\ r.todo = batch[b].todo /\ r.pc = "mark"
  BY <1>2 DEF BatchType
<1>5. batch' = [batch EXCEPT ![b] = r]
  BY <1>3
<1> HIDE DEF r
<1>6. SnapshotOK(r)
  BY <1>2, <1>4 DEF SnapshotOK
<1>7. \A k \in Slots : ~Judges(k, batch[b]) /\ (MaySend(k, r) => MaySend(k, batch[b]))
  BY <1>1, <1>4 DEF Judges, MaySend
<1>8. Answers
  BY <1>1 DEF Answers
<1>9. CASE UNCHANGED sends
  BY <1>1, <1>4, <1>5, <1>6, <1>7, <1>8, <1>9, OnceRun
<1>10. CASE sends' = [sends EXCEPT ![s] = @ + 1]
  <2>1. \A c \in Batches : batch'[c] = IF c = b THEN r ELSE batch[c]
    BY <1>5, Shapes DEF OnceInv
  <2>2. sends \in [Slots -> Nat]
    BY DEF OnceInv, TypeOK, HistoryType
  <2>3. ASSUME NEW k \in Slots PROVE SendsOK(k)'
    <3>1. Senders(k)' \subseteq Senders(k)
      BY <1>1, <1>7, <2>1 DEF Senders
    <3>2. CASE k # s
      BY <1>1, <1>8, <1>10, <2>2, <3>1, <3>2, SendsKept
    <3>3. CASE k = s
      <4>1. b \in Senders(k)
        BY <1>1, <3>3, SendersAre DEF MaySend
      <4>2. b \notin Senders(k)'
        <5>1. Judges(k, r) /\ ~MaySend(k, r)
          BY <1>2, <1>4, <3>3 DEF Judges, MaySend, SnapshotOK
        <5> QED
          BY <2>1, <5>1 DEF Senders
      <4>3. sends'[k] = sends[k] + 1
        BY <1>10, <2>2, <3>3
      <4> QED
        BY <1>1, <3>1, <4>1, <4>2, <4>3, SendsMade
    <3> QED
      BY <3>2, <3>3
  <2> QED
    BY <1>6, <2>1, <2>3 DEF AfterOnce, OnceInv
<1> QED
  BY <1>3, <1>9, <1>10

\* A verdict that is written ends the waiting, one that is lost counts as a failure.
LEMMA OnceMark ==
    ASSUME OnceInv, NEW b \in Batches, Mark(b)
    PROVE  AfterOnce
<1> DEFINE s == batch[b].slot
<1>1. /\ batch[b].pc = "mark" /\ UNCHANGED <<sends, crashes>>
      /\ \/ /\ UNCHANGED faults
            /\ \/ status[s] = "absent" /\ UNCHANGED status
               \/ status' = [status EXCEPT ![s] = MarkOf(b)]
         \/ Fails /\ UNCHANGED status
  BY DEF Mark, Answers, history
<1>2. /\ batch[b] \in BatchType /\ s \in Slots /\ SnapshotOK(batch[b])
      /\ MarkOf(b) \in {"sent", "failed", "skipped"}
  BY <1>1, Shapes DEF OnceInv, BatchType, Consistent, MarkOf
<1> DEFINE r == IF batch[b].todo = {} THEN IdleBatch
                ELSE [IdleBatch EXCEPT !.pc = "next", !.todo = batch[b].todo]
<1>3. /\ r.slot = None /\ r.todo = batch[b].todo /\ r.pc \in {"idle", "next"}
      /\ r.pc = "idle" => r.todo = {}
  BY DEF IdleBatch
<1>4. \A c \in Batches : batch'[c] = IF c = b THEN r ELSE batch[c]
  BY Shapes DEF Mark, OnceInv
<1> HIDE DEF r
<1>5. SnapshotOK(r)
  <2>1. batch[b].todo \in SUBSET [slot : Slots, at : Int]
    BY <1>2 DEF BatchType
  <2> QED
    BY <1>2, <1>3, <2>1, NoneAssumption DEF SnapshotOK
<1>6. \A k \in Slots : MaySend(k, r) => MaySend(k, batch[b])
  BY <1>3, NoneAssumption DEF MaySend
<1>7. \A k \in Slots : Judges(k, batch[b]) => k = s
  BY DEF Judges
<1>8. ASSUME NEW k \in Slots PROVE SendsOK(k)'
  <2>1. CASE Fails
    BY <1>1, <2>1, SendsRenewed DEF Fails
  <2>2. CASE UNCHANGED faults /\ status'[k] = status[k] /\ (k # s \/ status[k] # "pending")
    <3>1. Senders(k)' \subseteq Senders(k)
      BY <1>4, <1>6, <1>7, <2>2 DEF Senders
    <3> QED
      BY <1>1, <2>2, <3>1, SendsKept DEF Answers
  <2>3. CASE UNCHANGED faults /\ k = s /\ status'[k] # "pending"
    <3>1. \A c \in Batches : MaySend(k, batch'[c]) => MaySend(k, batch[c])
      BY <1>4, <1>6
    <3>2. Senders(k)' \subseteq Senders(k)
      BY <2>3, <3>1, SendersAre DEF Senders
    <3> QED
      BY <1>1, <2>3, <3>2, SendsKept DEF Answers
  <2>4. status \in [Slots -> {"absent", "pending", "sent", "skipped", "failed"}]
    BY Shapes DEF OnceInv
  <2> QED
    BY <1>1, <1>2, <2>1, <2>2, <2>3, <2>4
<1> QED
  BY <1>4, <1>5, <1>8 DEF AfterOnce, OnceInv

\* Rows that are scheduled anew start at none; the others are as they were.
LEMMA OnceUpsert ==
    ASSUME OnceInv, NEW h \in Handlers, UpsertJobs(h)
    PROVE  AfterOnce
<1>1. UNCHANGED <<batch, crashes>>
  BY DEF UpsertJobs
<1>2. CASE UNCHANGED <<status, sends>> /\ (Answers \/ Fails)
  BY <1>1, <1>2, OnceAside
<1>3. CASE /\ UNCHANGED faults
           /\ \E S : \A k \in Slots : IF k \in S THEN sends'[k] = 0
                                      ELSE sends'[k] = sends[k] /\ status'[k] = status[k]
  <2>1. PICK S : \A k \in Slots : IF k \in S THEN sends'[k] = 0
                                  ELSE sends'[k] = sends[k] /\ status'[k] = status[k]
    BY <1>3
  <2>2. ASSUME NEW k \in Slots PROVE SendsOK(k)'
    <3>1. CASE k \in S
      BY <1>1, <1>3, <2>1, <3>1, SendsAnew
    <3>2. CASE k \notin S
      <4>1. Senders(k)' \subseteq Senders(k)
        BY <1>1, <2>1, <3>2 DEF Senders
      <4> QED
        BY <1>1, <1>3, <2>1, <3>2, <4>1, SendsKept DEF Answers
    <3> QED
      BY <3>1, <3>2
  <2> QED
    BY <1>1, <2>2 DEF AfterOnce, OnceInv
<1> QED
  <2> DEFINE new == SlotsOf(request[h].meeting) \ request[h].keep
             row == request[h].row
             at  == request[h].at
  <2>1. \/ /\ Answers
           /\ status' = [k \in Slots |-> IF k \in new THEN Planned(row, k, at) ELSE status[k]]
           /\ sends' = [k \in Slots |-> IF k \in new THEN 0 ELSE sends[k]]
        \/ (Answers \/ Fails) /\ UNCHANGED <<status, sends>>
    BY DEF UpsertJobs, table
  <2> HIDE DEF new, row, at
  <2> QED
    BY <1>2, <1>3, <2>1 DEF Answers

\* Every step keeps the count.
LEMMA OnceNext == OnceInv /\ [Next]_vars => OnceInv'
<1> SUFFICES ASSUME OnceInv, [Next]_vars PROVE AfterOnce
  BY NextTypes DEF OnceInv, AfterOnce
<1>1. CASE \E h \in Handlers, m \in Meetings : Create(h, m) \/ UpdateRead(h, m)
  BY <1>1, OnceAside DEF Create, UpdateRead, table, bounds, history, Answers
<1>2. CASE \E h \in Handlers : UpdatePatch(h) \/ ListJobs(h)
  <2>1. Answers \/ Fails
    BY <1>2 DEF UpdatePatch, ListJobs
  <2>2. UNCHANGED <<batch, crashes, sends, status>>
    BY <1>2 DEF UpdatePatch, ListJobs, table, history
  <2> QED
    BY <2>1, <2>2, OnceAside
<1>3. CASE \E h \in Handlers : UpsertJobs(h)
  BY <1>3, OnceUpsert
<1>4. CASE \E h \in Handlers : CancelJobs(h)
  <2>1. PICK h \in Handlers : CancelJobs(h)
    BY <1>4
  <2>2. \A k \in Slots : status'[k] = status[k] \/ status'[k] # "pending"
    BY <2>1 DEF CancelJobs
  <2> QED
    BY <2>1, <2>2, OnceAside DEF CancelJobs, history
<1>5. CASE \E m \in Meetings : Remove(m)
  <2>1. \A k \in Slots : status'[k] = status[k] \/ status'[k] # "pending"
    BY <1>5 DEF Remove
  <2> QED
    BY <1>5, <2>1, OnceAside DEF Remove, Answers
<1>6. CASE \E b \in Batches : Cron(b)
  BY <1>6, OnceFire, OnceLoadNext, OnceEnsureLink, OnceSend, OnceMark DEF Cron
<1>7. CASE Tick
  BY <1>7, OnceAside DEF Tick, table, bounds, history, Answers
<1>8. CASE Crash
  <2>1. /\ crashes' = crashes + 1 /\ UNCHANGED <<faults, sends>>
        /\ \A b \in Batches : batch'[b] = IdleBatch
    BY <1>8 DEF Crash, history
  <2>2. SnapshotOK(IdleBatch)
    BY DEF SnapshotOK, IdleBatch
  <2>3. \A k \in Slots : SendsOK(k)'
    BY <2>1, SendsRenewed
  <2> QED
    BY <2>1, <2>2, <2>3 DEF AfterOnce
<1>9. CASE UNCHANGED vars
  BY <1>9, OnceAside DEF vars, table, bounds, history, Answers
<1> QED
  BY <1>1, <1>2, <1>3, <1>4, <1>5, <1>6, <1>7, <1>8, <1>9 DEF Next

\* In every reachable state each run has a reminder in hand once, and no more sends are to
\* come than there may be.
LEMMA OnceHolds == Spec => []OnceInv
<1>1. Init => OnceInv
  <2> SUFFICES ASSUME Init PROVE OnceInv
    OBVIOUS
  <2>1. TypeOK /\ Cardinality(Batches) <= Sendings /\ Sendings \in Nat
    BY InitTypes, SendingsGrow
  <2>2. ASSUME NEW k \in Slots PROVE SendsOK(k)
    <3>1. sends[k] = 0 /\ Senders(k) \in SUBSET Batches
      BY DEF Init, Senders
    <3>2. /\ Cardinality(Senders(k)) <= Cardinality(Batches)
          /\ Cardinality(Senders(k)) \in Nat /\ Cardinality(Batches) \in Nat
      BY <3>1, SendersFinite
    <3> QED
      BY <2>1, <3>1, <3>2 DEF SendsOK
  <2>3. \A b \in Batches : SnapshotOK(batch[b])
    BY DEF Init, IdleBatch, SnapshotOK
  <2> QED
    BY <2>1, <2>2, <2>3 DEF OnceInv
<1> QED
  BY <1>1, OnceNext, PTL DEF Spec

\* Between two schedulings a reminder goes out once per cron run at most, and again only
\* after a lost write or a crash, for any number of runs, rows and failures.
THEOREM OncePerRun == Spec => []OncePerScheduling
<1>1. OnceInv => OncePerScheduling
  <2> SUFFICES ASSUME OnceInv, NEW k \in Slots PROVE sends[k] <= Sendings
    BY DEF OncePerScheduling, Sendings
  <2>1. sends[k] \in Nat /\ Cardinality(Senders(k)) \in Nat /\ Sendings \in Nat
    BY SendersAre, SendersFinite, SendingsGrow DEF OnceInv
  <2> QED
    BY <2>1 DEF OnceInv, SendsOK
<1> QED
  BY <1>1, OnceHolds, PTL

----------------------------------------------------------------------------
(* The promise of the reminders is kept *)

\* What the promise sees of meetings and runs.
Life     == [m \in Meetings |-> LifeOf(meeting[m])]
Carried  == [b \in Batches |-> Left(batch[b])]
Hands    == [b \in Batches |-> batch[b].slot]
Verdicts == [b \in Batches |-> batch[b].mark]

\* A meeting of the table is live or over for its people.
LEMMA LifeIs ==
    ASSUME NEW row \in Row
    PROVE  /\ row.status \in Statuses => LifeOf(row) \in {"live", "over"}
           /\ row.status \in Statuses /\ Keeps(row) => LifeOf(row) = "live"
           /\ LifeOf(row) = "gone" => row.status = "deleted"
BY DEF LifeOf, Row, Statuses, Keeps

\* Writing one meeting, or one run, changes what is seen of that one.
LEMMA LifeSet ==
    ASSUME TypeOK, NEW m \in Meetings, NEW row, meeting' = [meeting EXCEPT ![m] = row]
    PROVE  Life' = [Life EXCEPT ![m] = LifeOf(row)]
BY DEF Life, TypeOK, TableType

\* One run written is what is seen of that run, and of no other.
LEMMA RunSet ==
    ASSUME TypeOK, NEW b \in Batches, NEW r, batch' = [batch EXCEPT ![b] = r]
    PROVE  /\ Carried' = [Carried EXCEPT ![b] = Left(r)]
           /\ Hands' = [Hands EXCEPT ![b] = r.slot]
           /\ Verdicts' = [Verdicts EXCEPT ![b] = r.mark]
BY DEF Carried, Hands, Verdicts, TypeOK, BatchesType

\* What no meeting, row, delivery or run sees of a step.
LEMMA PromiseRests ==
    ASSUME UNCHANGED <<meeting, status, sends, batch>>
    PROVE  UNCHANGED Promise!vars
BY DEF Promise!vars, Promise!table, Promise!runs, Life, Carried, Hands, Verdicts

\* create: a meeting appears, wanted or not.
LEMMA CreateBecomes ==
    ASSUME TypeOK, NEW h \in Handlers, NEW m \in Meetings, Create(h, m)
    PROVE  Promise!Become(m)
<1>1. PICK row \in Inserts : meeting' = [meeting EXCEPT ![m] = row]
  BY DEF Create
<1>2. /\ meeting[m].status = "absent" /\ meeting[m] \in Row
      /\ row \in Row /\ row.status \in Statuses
      /\ UNCHANGED <<status, sends, batch>>
  BY InsertsAssumption DEF Create, TypeOK, TableType, table, history
<1>3. Life' = [Life EXCEPT ![m] = LifeOf(row)] /\ LifeOf(row) \in {"live", "over"}
  BY <1>1, <1>2, LifeSet, LifeIs
<1>4. Life[m] # "gone"
  BY <1>2, LifeIs DEF Life
<1>5. UNCHANGED <<Carried, Hands, Verdicts>>
  BY <1>2 DEF Carried, Hands, Verdicts
<1> QED
  BY <1>2, <1>3, <1>4, <1>5 DEF Promise!Become, Promise!runs, Life, Carried, Hands, Verdicts

\* updateMeeting up to its write: the meeting becomes wanted or not, or stays as it is.
LEMMA PatchBecomes ==
    ASSUME TypeOK, NEW h \in Handlers, UpdatePatch(h)
    PROVE  \/ \E m \in Meetings : Promise!Become(m)
           \/ UNCHANGED Promise!vars
<1> DEFINE m == request[h].meeting
<1>1. UNCHANGED <<status, sends, batch>> /\ request[h].pc = "patch"
  BY DEF UpdatePatch, table
<1>2. CASE UNCHANGED meeting
  BY <1>1, <1>2, PromiseRests
<1>3. CASE \E dto \in Edits : /\ Exists(m)
                             /\ meeting' = [meeting EXCEPT ![m] = Patched(meeting[m], dto)]
  <2>1. PICK dto \in Edits : /\ Exists(m)
                            /\ meeting' = [meeting EXCEPT ![m] = Patched(meeting[m], dto)]
    BY <1>3
  <2> DEFINE new == Patched(meeting[m], dto)
  <2>2. m \in Meetings /\ meeting[m] \in Row /\ meeting[m].status \in Statuses
    BY <1>1, <2>1 DEF TypeOK, TableType, RequestsType, RequestType, Exists
  <2>3. new \in Row /\ new.status \in Statuses
    BY <2>2, PatchedType, EditsAssumption DEF Patched, Given
  <2>4. meeting' = [meeting EXCEPT ![m] = new]
    BY <2>1
  <2> HIDE DEF new
  <2>5. Life' = [Life EXCEPT ![m] = LifeOf(new)] /\ LifeOf(new) \in {"live", "over"}
    BY <2>2, <2>3, <2>4, LifeSet, LifeIs
  <2>6. Life[m] # "gone"
    BY <2>2, LifeIs DEF Life
  <2> QED
    BY <1>1, <2>2, <2>5, <2>6 DEF Promise!Become, Promise!runs, Life, Carried, Hands, Verdicts
<1> QED
  BY <1>2, <1>3 DEF UpdatePatch

\* syncMeetingReminders' upsert: rows of a meeting that is there wait anew, or are skipped.
LEMMA UpsertSchedules ==
    ASSUME TypeOK, NEW h \in Handlers, UpsertJobs(h)
    PROVE  \/ \E m \in Meetings : Promise!Schedule(m)
           \/ UNCHANGED Promise!vars
<1> DEFINE m == request[h].meeting
           new == SlotsOf(m) \ request[h].keep
           waiting == {k \in new : Planned(request[h].row, k, request[h].at) = "pending"}
<1>1. UNCHANGED <<meeting, batch>> /\ request[h].pc = "upsert"
  BY DEF UpsertJobs
<1>2. CASE UNCHANGED <<table, sends>>
  BY <1>1, <1>2, PromiseRests DEF table
<1>3. CASE /\ Exists(m)
           /\ status' = [k \in Slots |-> IF k \in new
                                         THEN Planned(request[h].row, k, request[h].at)
                                         ELSE status[k]]
           /\ sends' = [k \in Slots |-> IF k \in new THEN 0 ELSE sends[k]]
  <2>1. m \in Meetings /\ meeting[m] \in Row
    BY <1>1 DEF TypeOK, TableType, RequestsType, RequestType
  <2>2. Promise!There(m)
    BY <1>3, <2>1, LifeIs DEF Promise!There, Life, Exists
  <2>3. new \in SUBSET Promise!RowsOf(m) /\ waiting \in SUBSET new
    BY DEF Promise!RowsOf, SlotsOf
  <2>4. status' = [k \in Slots |-> IF k \notin new THEN status[k]
                                  ELSE IF k \in waiting THEN "pending" ELSE "skipped"]
    BY <1>3 DEF Planned
  <2>5. UNCHANGED <<Life, Promise!runs>>
    BY <1>1 DEF Promise!runs, Life, Carried, Hands, Verdicts
  <2> HIDE DEF new, waiting
  <2> QED
    BY <1>3, <2>1, <2>2, <2>3, <2>4, <2>5 DEF Promise!Schedule, Life
<1> QED
  BY <1>2, <1>3 DEF UpsertJobs

\* The update that cancels: rows of one meeting stop waiting.
LEMMA CancelCallsOff ==
    ASSUME TypeOK, NEW h \in Handlers, CancelJobs(h)
    PROVE  \/ \E m \in Meetings : Promise!CallOff(m)
           \/ UNCHANGED Promise!vars
<1> DEFINE m == request[h].meeting
<1>1. UNCHANGED <<meeting, batch, sends>> /\ request[h].pc = "cancel"
  BY DEF CancelJobs, history
<1>2. CASE UNCHANGED status
  BY <1>1, <1>2, PromiseRests
<1>3. CASE status' = [k \in Slots |-> IF k.meeting = m /\ status[k] = "pending"
                                     THEN "skipped" ELSE status[k]]
  <2>1. m \in Meetings
    BY <1>1 DEF TypeOK, RequestsType, RequestType
  <2>2. status' = [k \in Slots |-> IF k \in Promise!RowsOf(m) /\ status[k] = "pending"
                                  THEN "skipped" ELSE status[k]]
    BY <1>3 DEF Promise!RowsOf
  <2> QED
    BY <1>1, <2>1, <2>2 DEF Promise!CallOff, Promise!runs, Life, Carried, Hands, Verdicts
<1> QED
  BY <1>2, <1>3 DEF CancelJobs

\* remove: the meeting is gone, its waiting rows with it.
LEMMA RemoveRemoves ==
    ASSUME TypeOK, NEW m \in Meetings, Remove(m)
    PROVE  Promise!Remove(m)
<1> DEFINE row == [NoRow EXCEPT !.status = "deleted"]
<1>1. Life' = [Life EXCEPT ![m] = LifeOf(row)]
  BY LifeSet DEF Remove
<1>2. LifeOf(row) = "gone"
  BY DEF LifeOf, NoRow, Keeps
<1>3. Promise!There(m)
  BY LifeIs DEF Promise!There, Life, Remove, Exists, TypeOK, TableType
<1>4. status' = [k \in Slots |-> IF k \in Promise!RowsOf(m) THEN "absent" ELSE status[k]]
  BY DEF Remove, Promise!RowsOf
<1>5. UNCHANGED <<sends, batch>>
  BY DEF Remove
<1> QED
  BY <1>1, <1>2, <1>3, <1>4, <1>5
     DEF Promise!Remove, Promise!runs, Life, Carried, Hands, Verdicts

\* The rows a run selects wait; it may find none.
LEMMA FireTakes ==
    ASSUME OnceInv, NEW b \in Batches, Fire(b)
    PROVE  \/ Promise!Take(b)
           \/ UNCHANGED Promise!vars
<1>1. UNCHANGED <<meeting, status, sends>> /\ batch[b].pc = "idle"
  BY DEF Fire, table, history
<1>2. CASE UNCHANGED batch
  BY <1>1, <1>2, PromiseRests
<1>3. CASE \E S \in SUBSET Due : batch' = [batch EXCEPT ![b] = [IdleBatch EXCEPT
                !.pc = "next", !.todo = {[slot |-> k, at |-> sendAt[k]] : k \in S}]]
  <2>1. PICK S \in SUBSET Due : batch' = [batch EXCEPT ![b] = [IdleBatch EXCEPT
                !.pc = "next", !.todo = {[slot |-> k, at |-> sendAt[k]] : k \in S}]]
    BY <1>3
  <2> DEFINE D == {[slot |-> k, at |-> sendAt[k]] : k \in S}
             r == [IdleBatch EXCEPT !.pc = "next", !.todo = D]
  <2>2. Left(r) = S /\ r.slot = None /\ r.mark = "none"
    <3>1. r.todo = D /\ r.slot = None /\ r.mark = "none"
      BY DEF IdleBatch
    <3>2. {t.slot : t \in D} = S
      <4>1. \A t \in D : t.slot \in S
        OBVIOUS
      <4>2. ASSUME NEW k \in S PROVE \E t \in D : t.slot = k
        <5>1. [slot |-> k, at |-> sendAt[k]] \in D
          OBVIOUS
        <5>2. [slot |-> k, at |-> sendAt[k]].slot = k
          OBVIOUS
        <5> QED
          BY <5>1, <5>2
      <4> HIDE DEF D
      <4> QED
        BY <4>1, <4>2
    <3> QED
      BY <3>1, <3>2 DEF Left
  <2>3. batch[b].slot = None /\ batch[b].mark = "none" /\ batch[b].todo = {}
    BY <1>1, Shapes DEF OnceInv, SnapshotOK, TypeOK, BatchesType, Consistent
  <2>4. Carried[b] = {} /\ Hands[b] = None /\ Verdicts[b] = "none"
    BY <2>3 DEF Carried, Hands, Verdicts, Left
  <2>5. batch' = [batch EXCEPT ![b] = r]
    BY <2>1
  <2> HIDE DEF r
  <2>6. Carried' = [Carried EXCEPT ![b] = S] /\ UNCHANGED <<Hands, Verdicts>>
    <3>1. /\ Carried' = [Carried EXCEPT ![b] = Left(r)]
          /\ Hands' = [Hands EXCEPT ![b] = r.slot]
          /\ Verdicts' = [Verdicts EXCEPT ![b] = r.mark]
      BY <2>5, RunSet DEF OnceInv
    <3>2. [Hands EXCEPT ![b] = None] = Hands /\ [Verdicts EXCEPT ![b] = "none"] = Verdicts
      BY <2>4 DEF Hands, Verdicts
    <3> QED
      BY <2>2, <3>1, <3>2
  <2>7. S \in SUBSET {k \in Slots : status[k] = "pending"}
    BY DEF Due
  <2>8. UNCHANGED Promise!table
    BY <1>1 DEF Promise!table, Life
  <2> QED
    BY <2>4, <2>6, <2>7, <2>8 DEF Promise!Take, Carried, Hands, Verdicts
<1> QED
  BY <1>2, <1>3 DEF Fire

\* Reading the meeting of the next row: the run looks at it.
LEMMA LoadLooks ==
    ASSUME OnceInv, NEW b \in Batches, LoadNext(b)
    PROVE  \E k \in Slots : Promise!LookAt(b, k)
<1>1. UNCHANGED <<meeting, status, sends>> /\ batch[b].pc = "next"
  BY DEF LoadNext, table, history
<1>2. PICK t \in batch[b].todo :
          LET row == meeting[t.slot.meeting]
              left == [batch[b] EXCEPT !.todo = @ \ {t}, !.slot = t.slot]
          IN  \/ /\ Sendable(row)
                 /\ batch' = [batch EXCEPT ![b] = [left EXCEPT !.pc = "link", !.held = row]]
              \/ batch' = [batch EXCEPT ![b] = [left EXCEPT !.pc = "mark", !.mark = "skipped"]]
  BY DEF LoadNext
<1>3. /\ batch[b] \in BatchType /\ t.slot \in Slots /\ meeting[t.slot.meeting] \in Row
      /\ t.slot.meeting \in Meetings
  BY Shapes, SlotMeeting DEF OnceInv, BatchType
<1>4. batch[b].slot = None /\ batch[b].mark = "none"
  BY <1>1, Shapes DEF OnceInv, TypeOK, BatchesType, Consistent
<1>5. Hands[b] = None /\ Verdicts[b] = "none" /\ Carried[b] = Left(batch[b])
  BY <1>4 DEF Hands, Verdicts, Carried
<1>6. t.slot \in Left(batch[b])
  BY DEF Left
<1> DEFINE left == [batch[b] EXCEPT !.todo = @ \ {t}, !.slot = t.slot]
<1>7. PICK r : /\ batch' = [batch EXCEPT ![b] = r]
               /\ r.todo = batch[b].todo \ {t} /\ r.slot = t.slot
               /\ \/ r.mark = "none" /\ Sendable(meeting[t.slot.meeting])
                  \/ r.mark = "skipped"
  <2> DEFINE r1 == [left EXCEPT !.pc = "link", !.held = meeting[t.slot.meeting]]
             r2 == [left EXCEPT !.pc = "mark", !.mark = "skipped"]
  <2>1. /\ r1.todo = batch[b].todo \ {t} /\ r1.slot = t.slot /\ r1.mark = "none"
        /\ r2.todo = batch[b].todo \ {t} /\ r2.slot = t.slot /\ r2.mark = "skipped"
    BY <1>3, <1>4 DEF BatchType
  <2>2. \/ batch' = [batch EXCEPT ![b] = r1] /\ Sendable(meeting[t.slot.meeting])
        \/ batch' = [batch EXCEPT ![b] = r2]
    BY <1>2
  <2> HIDE DEF r1, r2
  <2> QED
    BY <2>1, <2>2
<1>8. Left(r) = Left(batch[b]) \ {t.slot}
  BY <1>7 DEF Left, OnceInv, SnapshotOK
<1>9. /\ Carried' = [Carried EXCEPT ![b] = @ \ {t.slot}]
      /\ Hands' = [Hands EXCEPT ![b] = t.slot]
      /\ Verdicts' = [Verdicts EXCEPT ![b] = r.mark]
  <2>1. /\ Carried' = [Carried EXCEPT ![b] = Left(r)]
        /\ Hands' = [Hands EXCEPT ![b] = r.slot]
        /\ Verdicts' = [Verdicts EXCEPT ![b] = r.mark]
    BY <1>7, RunSet DEF OnceInv
  <2> QED
    BY <1>5, <1>7, <1>8, <2>1
<1>10. \/ Life[t.slot.meeting] = "live" /\ UNCHANGED Verdicts
       \/ Verdicts' = [Verdicts EXCEPT ![b] = "skipped"]
  <2>1. CASE r.mark = "none" /\ Sendable(meeting[t.slot.meeting])
    <3>1. LifeOf(meeting[t.slot.meeting]) = "live"
      BY <1>3, <2>1, LifeIs DEF Sendable, Keeps, Statuses
    <3>2. [Verdicts EXCEPT ![b] = "none"] = Verdicts
      BY <1>5 DEF Verdicts
    <3> QED
      BY <1>3, <1>9, <2>1, <3>1, <3>2 DEF Life
  <2> QED
    BY <1>7, <1>9, <2>1
<1>11. UNCHANGED Promise!table
  BY <1>1 DEF Promise!table, Life
<1>12. Promise!LookAt(b, t.slot)
  BY <1>5, <1>6, <1>9, <1>10, <1>11 DEF Promise!LookAt, Carried, Hands, Verdicts, Life
<1> QED
  BY <1>3, <1>12

\* ensureMeetLink: nothing is seen, or the row is given up.
LEMMA LinkRestsOrGivesUp ==
    ASSUME OnceInv, NEW b \in Batches, EnsureLink(b)
    PROVE  \/ Promise!GiveUp(b)
           \/ UNCHANGED Promise!vars
<1>1. UNCHANGED <<meeting, status, sends>> /\ batch[b].pc = "link"
  BY DEF EnsureLink, table, history
<1>2. /\ batch[b] \in BatchType /\ batch[b].slot # None /\ batch[b].mark = "none"
  BY <1>1, Shapes DEF OnceInv, TypeOK, BatchesType, Consistent
<1>3. PICK r : /\ batch' = [batch EXCEPT ![b] = r]
               /\ r.todo = batch[b].todo /\ r.slot = batch[b].slot
               /\ r.mark \in {"none", "skipped"}
  <2>1. PICK held :
          batch' = [batch EXCEPT
             ![b].held = held,
             ![b].pc = IF batch[b].slot.channel \in held.contact THEN "send" ELSE "mark",
             ![b].mark = IF batch[b].slot.channel \in held.contact THEN "none"
                         ELSE NoRecipient]
    BY DEF EnsureLink
  <2> DEFINE r == [batch[b] EXCEPT
             !.held = held,
             !.pc = IF batch[b].slot.channel \in held.contact THEN "send" ELSE "mark",
             !.mark = IF batch[b].slot.channel \in held.contact THEN "none" ELSE NoRecipient]
  <2>2. r.todo = batch[b].todo /\ r.slot = batch[b].slot /\ r.mark \in {"none", "skipped"}
    BY <1>2 DEF BatchType, NoRecipient
  <2>3. batch' = [batch EXCEPT ![b] = r]
    BY <2>1
  <2> QED
    BY <2>2, <2>3
<1>4. /\ Carried' = [Carried EXCEPT ![b] = Left(r)]
      /\ Hands' = [Hands EXCEPT ![b] = r.slot]
      /\ Verdicts' = [Verdicts EXCEPT ![b] = r.mark]
  BY <1>3, RunSet DEF OnceInv
<1>5. Hands[b] # None /\ Verdicts[b] = "none" /\ UNCHANGED <<Carried, Hands>>
  BY <1>2, <1>3, <1>4 DEF Carried, Hands, Verdicts, Left
<1>6. UNCHANGED Promise!table
  BY <1>1 DEF Promise!table, Life
<1>7. CASE r.mark = "none"
  <2>1. UNCHANGED Verdicts
    BY <1>2, <1>4, <1>7 DEF Verdicts
  <2> QED
    BY <1>5, <1>6, <2>1
       DEF Promise!vars, Promise!table, Promise!runs, Life, Carried, Hands, Verdicts
<1>8. CASE r.mark = "skipped"
  BY <1>4, <1>5, <1>6, <1>8 DEF Promise!GiveUp, Life, Carried, Hands, Verdicts
<1> QED
  BY <1>3, <1>7, <1>8

\* The two deliveries: something went, or the row is given up.
LEMMA SendDelivers ==
    ASSUME OnceInv, NEW b \in Batches, Send(b)
    PROVE  Promise!Deliver(b) \/ Promise!GiveUp(b)
<1>1. UNCHANGED <<meeting, status>> /\ batch[b].pc = "send"
  BY DEF Send, table
<1>2. /\ batch[b] \in BatchType /\ batch[b].slot # None /\ batch[b].mark = "none"
  BY <1>1, Shapes DEF OnceInv, TypeOK, BatchesType, Consistent
<1>3. Hands[b] = batch[b].slot /\ Hands[b] # None /\ Verdicts[b] = "none"
  BY <1>2 DEF Hands, Verdicts
<1>4. ASSUME NEW v, batch' = [batch EXCEPT ![b].pc = "mark", ![b].mark = v]
      PROVE  Verdicts' = [Verdicts EXCEPT ![b] = v] /\ UNCHANGED <<Carried, Hands>>
  <2> DEFINE r == [batch[b] EXCEPT !.pc = "mark", !.mark = v]
  <2>1. r.todo = batch[b].todo /\ r.slot = batch[b].slot /\ r.mark = v
    BY <1>2 DEF BatchType
  <2>2. batch' = [batch EXCEPT ![b] = r]
    BY <1>4
  <2> HIDE DEF r
  <2>3. /\ Carried' = [Carried EXCEPT ![b] = Left(r)]
        /\ Hands' = [Hands EXCEPT ![b] = r.slot]
        /\ Verdicts' = [Verdicts EXCEPT ![b] = r.mark]
    BY <2>2, RunSet DEF OnceInv
  <2> QED
    BY <2>1, <2>3 DEF Carried, Hands, Left
<1>5. CASE /\ batch' = [batch EXCEPT ![b].pc = "mark", ![b].mark = "sent"]
           /\ sends' = [sends EXCEPT ![batch[b].slot] = @ + 1]
  BY <1>1, <1>3, <1>4, <1>5 DEF Promise!Deliver, Life, Carried, Hands, Verdicts
<1>6. CASE /\ batch' = [batch EXCEPT ![b].pc = "mark", ![b].mark = "failed"]
           /\ UNCHANGED sends
  BY <1>1, <1>3, <1>4, <1>6 DEF Promise!GiveUp, Promise!table, Life, Carried, Hands, Verdicts
<1> QED
  BY <1>5, <1>6 DEF Send

\* Writing the verdict: the row is concluded.
LEMMA MarkConcludes ==
    ASSUME OnceInv, NEW b \in Batches, Mark(b)
    PROVE  Promise!Conclude(b)
<1>1. UNCHANGED <<meeting, sends>> /\ batch[b].pc = "mark"
  BY DEF Mark, history
<1>2. batch[b] \in BatchType /\ batch[b].slot \in Slots /\ batch[b].mark # "none"
  BY <1>1, Shapes DEF OnceInv, TypeOK, BatchesType, BatchType, Consistent
<1>3. Hands[b] = batch[b].slot /\ Verdicts[b] = batch[b].mark
  BY DEF Hands, Verdicts
<1>4. /\ Hands' = [Hands EXCEPT ![b] = None]
      /\ Verdicts' = [Verdicts EXCEPT ![b] = "none"]
      /\ UNCHANGED Carried
  <2> DEFINE r == IF batch[b].todo = {} THEN IdleBatch
                  ELSE [IdleBatch EXCEPT !.pc = "next", !.todo = batch[b].todo]
  <2>1. r.todo = batch[b].todo /\ r.slot = None /\ r.mark = "none"
    BY DEF IdleBatch
  <2>2. batch' = [batch EXCEPT ![b] = r]
    BY DEF Mark
  <2> HIDE DEF r
  <2>3. /\ Carried' = [Carried EXCEPT ![b] = Left(r)]
        /\ Hands' = [Hands EXCEPT ![b] = r.slot]
        /\ Verdicts' = [Verdicts EXCEPT ![b] = r.mark]
    BY <2>2, RunSet DEF OnceInv
  <2> QED
    BY <2>1, <2>3 DEF Carried, Left
<1>5. \/ UNCHANGED status
      \/ /\ status[Hands[b]] # "absent"
         /\ status' = [status EXCEPT ![Hands[b]] = Verdicts[b]]
  BY <1>3 DEF Mark, MarkOf
<1> QED
  BY <1>1, <1>2, <1>3, <1>4, <1>5 DEF Promise!Conclude, Life, Carried, Hands, Verdicts

\* A crash: every run stops, and leaves its rows.
LEMMA CrashStops ==
    ASSUME Crash
    PROVE  Promise!Stop
<1>1. \A b \in Batches : batch'[b].slot = None /\ batch'[b].mark = "none" /\ Left(batch'[b]) = {}
  BY DEF Crash, IdleBatch, Left
<1>2. UNCHANGED <<meeting, status, sends>>
  BY DEF Crash, table, history
<1> QED
  BY <1>1, <1>2 DEF Promise!Stop, Promise!table

\* Every step of the reminders is a step of the promise, or a stutter.
LEMMA StepKeepsReminders ==
    ASSUME OnceInv, [Next]_vars
    PROVE  [Promise!Next]_(Promise!vars)
<1>1. TypeOK
  BY DEF OnceInv
<1>2. ASSUME NEW h \in Handlers, NEW m \in Meetings, Create(h, m) \/ UpdateRead(h, m)
      PROVE  [Promise!Next]_(Promise!vars)
  <2>1. CASE Create(h, m)
    BY <1>1, <2>1, CreateBecomes DEF Promise!Next
  <2>2. CASE UpdateRead(h, m)
    BY <2>2, PromiseRests DEF UpdateRead, table
  <2> QED
    BY <1>2, <2>1, <2>2
<1>3. ASSUME NEW h \in Handlers,
             UpdatePatch(h) \/ ListJobs(h) \/ UpsertJobs(h) \/ CancelJobs(h)
      PROVE  [Promise!Next]_(Promise!vars)
  <2>1. CASE ListJobs(h)
    BY <2>1, PromiseRests DEF ListJobs, table, history
  <2>2. CASE UpdatePatch(h)
    BY <1>1, <2>2, PatchBecomes DEF Promise!Next
  <2>3. CASE UpsertJobs(h)
    BY <1>1, <2>3, UpsertSchedules DEF Promise!Next
  <2>4. CASE CancelJobs(h)
    BY <1>1, <2>4, CancelCallsOff DEF Promise!Next
  <2> QED
    BY <1>3, <2>1, <2>2, <2>3, <2>4
<1>4. ASSUME NEW m \in Meetings, Remove(m)
      PROVE  [Promise!Next]_(Promise!vars)
  BY <1>1, <1>4, RemoveRemoves DEF Promise!Next
<1>5. ASSUME NEW b \in Batches, Cron(b)
      PROVE  [Promise!Next]_(Promise!vars)
  <2>1. CASE Fire(b)
    BY <2>1, FireTakes DEF Promise!Next
  <2>2. CASE LoadNext(b)
    BY <2>2, LoadLooks DEF Promise!Next
  <2>3. CASE EnsureLink(b)
    BY <2>3, LinkRestsOrGivesUp DEF Promise!Next
  <2>4. CASE Send(b)
    BY <2>4, SendDelivers DEF Promise!Next
  <2>5. CASE Mark(b)
    BY <2>5, MarkConcludes DEF Promise!Next
  <2> QED
    BY <1>5, <2>1, <2>2, <2>3, <2>4, <2>5 DEF Cron
<1>6. CASE Tick
  BY <1>6, PromiseRests DEF Tick, table, history
<1>7. CASE Crash
  BY <1>7, CrashStops DEF Promise!Next
<1>8. CASE UNCHANGED vars
  BY <1>8, PromiseRests DEF vars, table, history
<1> QED
  BY <1>2, <1>3, <1>4, <1>5, <1>6, <1>7, <1>8 DEF Next

\* The requests and the cron keep the promise of the reminders, for any number of meetings,
\* cron runs, requests, faults and restarts: a run looks at a reminder once and lets it out
\* only for an active meeting, "sent" is shown of nothing that did not go out, and the
\* reminders of a removed meeting never come back.
THEOREM CronKeepsPromise == Spec => KeepsReminders
<1>1. Init => Promise!Init
  <2> SUFFICES ASSUME Init PROVE Promise!Init
    OBVIOUS
  <2>1. \A m \in Meetings : LifeOf(meeting[m]) = "none"
    BY DEF Init, NoRow, LifeOf, Keeps
  <2>2. \A b \in Batches : /\ Left(batch[b]) = {} /\ batch[b].slot = None
                           /\ batch[b].mark = "none"
    BY DEF Init, IdleBatch, Left
  <2> QED
    BY <2>1, <2>2 DEF Promise!Init, Init
<1> QED
  BY <1>1, OnceHolds, StepKeepsReminders, PTL DEF Spec, KeepsReminders, Promise!Spec
=============================================================================
