-------------------------- MODULE MeetingReminders --------------------------
(***************************************************************************)
(* Automatic reminders of src/meetings/meetings-reminder.service.ts: every *)
(* meeting has one row of meeting_reminders per channel and offset, the    *)
(* HTTP requests of meetings.service.ts (create, update, remove) schedule  *)
(* and cancel the rows, and a cron sends the rows that are due.            *)
(*                                                                         *)
(* Grain: an action is one awaited call with the synchronous code that     *)
(* follows it.  A statement that fails returns {error}; each failure       *)
(* spends one unit of MaxFaults.  Nothing stops a cron run from starting   *)
(* while an earlier one still works: Batches are the runs under way.       *)
(*                                                                         *)
(* Left out: the Google event, the manual sends, the legacy flags, which   *)
(* never touch meeting_reminders.  Of members and assignees only this is   *)
(* kept: a request that cannot write them ends before the reminders.       *)
(***************************************************************************)
EXTENDS Integers, FiniteSets

CONSTANTS Meetings,     \* meeting ids
          Channels,     \* REMINDER_CHANNELS
          Offsets,      \* REMINDER_OFFSETS
          Lead,         \* OFFSET_MS, in clock ticks
          Inserts,      \* POST /meetings bodies: all columns
          Edits,        \* PATCH /meetings/:id bodies: the columns to change
          Batches,      \* cron runs that may be under way together
          None,         \* no meeting, no row
          Handlers,     \* HTTP requests that may be under way together
          BatchLimit,   \* limit(100)
          MaxTime,      \* bound: clock
          MaxEdits,     \* bound: updates and removals
          MaxFaults,    \* bound: failing SQL statements
          MaxCrashes    \* bound: process deaths

Slots    == [meeting : Meetings, channel : Channels, offset : Offsets]
Choices  == [channel : Channels, offset : Offsets]
Statuses == {"scheduled", "confirmed", "cancelled", "done"}
Columns  == {"status", "date", "contact", "wanted"}
Row      == [status : Statuses \cup {"absent", "deleted"}, date : Nat,
             contact : SUBSET Channels, wanted : SUBSET Choices]

ASSUME NoneAssumption == None \notin Meetings \cup Slots
ASSUME BatchesAssumption == IsFiniteSet(Batches)
ASSUME LeadAssumption == Lead \in [Offsets -> Nat]
ASSUME InsertsAssumption ==
    \A row \in Inserts : row \in Row /\ row.status \in Statuses /\ row.contact # {}
ASSUME EditsAssumption ==
    \A dto \in Edits :
        /\ DOMAIN dto \subseteq Columns
        /\ "status" \in DOMAIN dto => dto.status \in Statuses
        /\ "date" \in DOMAIN dto => dto.date \in Nat
        /\ "contact" \in DOMAIN dto => dto.contact \in SUBSET Channels /\ dto.contact # {}
        /\ "wanted" \in DOMAIN dto => dto.wanted \in SUBSET Choices
ASSUME BoundsAssumption ==
    BatchLimit \in Nat /\ MaxTime \in Nat /\ MaxEdits \in Nat /\ MaxFaults \in Nat
    /\ MaxCrashes \in Nat

VARIABLES
    meeting,   \* meeting[m]: the row of meetings
    status,    \* status[k]: status of a row of meeting_reminders, or "absent"
    sendAt,    \* sendAt[k]: its send_at
    now,       \* Date.now()
    batch,     \* batch[b]: a run of processDueReminders
    request,   \* request[h]: a create or update under way
    edits, faults, crashes,
    sends,     \* history: sends[k], deliveries since the row was last scheduled
    announced, \* history: announced[k], the meeting dates delivered
    raced,     \* history: rows scheduled while a batch had them in hand
    clash,     \* history: meetings two requests worked on at the same time
    movedOff,  \* history: meetings moved while not active, not rescheduled since
    unplanned, \* history: meetings whose create ended early, not scheduled since
    after      \* history: after[m][b], deliveries by b since m left the active statuses

table   == <<status, sendAt>>
bounds  == <<edits, faults, crashes>>
history == <<sends, announced, raced, clash, movedOff, unplanned, after>>
vars    == <<meeting, table, now, batch, request, bounds, history>>

NoRow     == [status |-> "absent", date |-> 0, contact |-> {}, wanted |-> {}]
IdleBatch == [pc |-> "idle", todo |-> {}, slot |-> None, held |-> NoRow, mark |-> "none"]
IdleReq   == [pc |-> "idle", meeting |-> None, row |-> NoRow, reset |-> FALSE,
              keep |-> {}, at |-> 0]

Exists(m) == meeting[m].status \in Statuses

\* keepsReminderJobs, with one status of each kind and one more that is active.
Keeps(row) == row.status \in {"scheduled", "confirmed"}

\* computeSendAt.
SendAt(row, k) == row.date - Lead[k.offset]

Init ==
    /\ meeting = [m \in Meetings |-> NoRow]
    /\ status = [k \in Slots |-> "absent"]
    /\ sendAt = [k \in Slots |-> 0]
    /\ now = 0
    /\ batch = [b \in Batches |-> IdleBatch]
    /\ request = [h \in Handlers |-> IdleReq]
    /\ edits = 0 /\ faults = 0 /\ crashes = 0
    /\ sends = [k \in Slots |-> 0]
    /\ announced = [k \in Slots |-> {}]
    /\ raced = {} /\ clash = {} /\ movedOff = {} /\ unplanned = {}
    /\ after = [m \in Meetings |-> [b \in Batches |-> 0]]

Answers == UNCHANGED faults
Fails   == faults < MaxFaults /\ faults' = faults + 1

----------------------------------------------------------------------------
(* Requests: create, update, remove and scheduleJobsForMeeting *)

Free(h)   == request[h].pc = "idle"
Others(m) == {h \in Handlers : request[h].pc # "idle" /\ request[h].meeting = m}

\* What comes after the row of m was written: the jobs are refreshed, cancelled
\* or left alone.
Then(h, m, row, refresh, reset) ==
    request' = [request EXCEPT ![h] =
        IF refresh THEN [IdleReq EXCEPT !.pc = IF Keeps(row) THEN "list" ELSE "cancel",
                                        !.meeting = m, !.row = row, !.reset = reset]
        ELSE IdleReq]

\* create: jobs are scheduled only for a meeting that keeps them.  The row is
\* inserted before the members are looked at: one without phone and mail
\* (BadRequest), or a statement that fails, ends the request there.
Create(h, m) ==
    /\ Free(h) /\ meeting[m].status = "absent"
    /\ \E row \in Inserts :
          /\ meeting' = [meeting EXCEPT ![m] = row]
          /\ \/ Answers /\ Then(h, m, row, Keeps(row), FALSE) /\ UNCHANGED unplanned
             \/ /\ Answers \/ Fails
                /\ unplanned' = unplanned \cup {m} /\ UNCHANGED request
    /\ UNCHANGED <<table, now, batch, edits, crashes, sends, announced, raced, clash, movedOff,
                   after>>

\* update up to its first await that matters: the row is read.
UpdateRead(h, m) ==
    /\ Free(h) /\ Exists(m) /\ edits < MaxEdits
    /\ edits' = edits + 1
    /\ request' = [request EXCEPT ![h] =
          [IdleReq EXCEPT !.pc = "patch", !.meeting = m, !.row = meeting[m]]]
    /\ clash' = IF Others(m) = {} THEN clash ELSE clash \cup {m}
    /\ UNCHANGED <<meeting, table, now, batch, faults, crashes, sends, announced, raced,
                   movedOff, unplanned, after>>

\* A timestamp read from the database has no milliseconds ("...T11:00:00Z"),
\* toISOString always writes them ("...T11:00:00.000Z").
PgText(date)  == [at |-> date, millis |-> ""]
IsoText(date) == [at |-> date, millis |-> "000"]

DateChanged(dto, old) == "date" \in DOMAIN dto /\ IsoText(dto.date) # PgText(old.date)

OnlyDate(dto, old)  == DateChanged(dto, old)        \* mutant: contact, status and choices forgotten
Reschedule(dto, old) ==
    \/ DateChanged(dto, old)
    \/ "contact" \in DOMAIN dto
    \/ "wanted" \in DOMAIN dto
    \/ "status" \in DOMAIN dto /\ dto.status # old.status

NeverReset(dto, old) == FALSE                       \* mutant: a moved meeting keeps its sent jobs
ResetSent(dto, old) == DateChanged(dto, old)

Given(dto, row, c) == IF c \in DOMAIN dto THEN dto[c] ELSE row[c]
Patched(row, dto) ==
    [status |-> Given(dto, row, "status"), date |-> Given(dto, row, "date"),
     contact |-> Given(dto, row, "contact"), wanted |-> Given(dto, row, "wanted")]

Forget(m) == after' = [after EXCEPT ![m] = [b \in Batches |-> 0]]

\* update: the patch, decided on the row read, applied to the row of now.  The
\* members and the assignees come next: a statement of theirs that fails, or
\* meets the rows of another request, ends the update before its reminders.
UpdatePatch(h) ==
    /\ request[h].pc = "patch"
    /\ LET m == request[h].meeting
           old == request[h].row
       IN  \/ \E dto \in Edits :
                 LET row == Patched(meeting[m], dto)
                 IN  /\ Exists(m)
                     /\ meeting' = [meeting EXCEPT ![m] = row]
                     /\ \/ Answers /\ Then(h, m, row, Reschedule(dto, old), ResetSent(dto, old))
                        \/ /\ (Others(m) # {h} /\ Answers) \/ Fails
                           /\ request' = [request EXCEPT ![h] = IdleReq]
                     /\ IF Keeps(meeting[m]) /\ ~Keeps(row) THEN Forget(m) ELSE UNCHANGED after
                     /\ movedOff' = IF DateChanged(dto, old) /\ ~Keeps(row)
                                    THEN movedOff \cup {m} ELSE movedOff
           \/ /\ (~Exists(m) /\ Answers) \/ Fails
              /\ request' = [request EXCEPT ![h] = IdleReq]
              /\ UNCHANGED <<meeting, after, movedOff>>
    /\ UNCHANGED <<table, now, batch, edits, crashes, sends, announced, raced, clash, unplanned>>

SlotsOf(m) == {k \in Slots : k.meeting = m}

KeptUnlessPending(k) == status[k] # "pending"       \* mutant: skipped rows are kept as well
Kept(k) == status[k] = "sent"

\* listJobsForMeeting: the clock is read first, and an error reads as "no jobs".
ListJobs(h) ==
    /\ request[h].pc = "list"
    /\ \E found \in {TRUE, FALSE} :
          /\ IF found THEN Answers ELSE Fails
          /\ request' = [request EXCEPT
                ![h].pc = "upsert", ![h].at = now,
                ![h].keep = {k \in SlotsOf(request[h].meeting) :
                                found /\ Kept(k) /\ ~request[h].reset}]
    /\ UNCHANGED <<meeting, table, now, batch, edits, crashes, history>>

\* The status a row is scheduled with.
Planned(row, k, at) ==
    IF /\ [channel |-> k.channel, offset |-> k.offset] \in row.wanted
       /\ k.channel \in row.contact
       /\ SendAt(row, k) > at
    THEN "pending" ELSE "skipped"

\* The rows a batch still works from a snapshot of.
InHand(k) == \E b \in Batches : batch[b].slot = k \/ \E t \in batch[b].todo : t.slot = k

\* The upsert of scheduleJobsForMeeting; for a deleted meeting the foreign key
\* refuses it.
UpsertJobs(h) ==
    /\ request[h].pc = "upsert"
    /\ LET m == request[h].meeting
           row == request[h].row
           new == SlotsOf(m) \ request[h].keep
       IN  \/ /\ Exists(m) /\ Answers
              /\ status' = [k \in Slots |-> IF k \in new THEN Planned(row, k, request[h].at)
                                            ELSE status[k]]
              /\ sendAt' = [k \in Slots |-> IF k \in new THEN SendAt(row, k) ELSE sendAt[k]]
              /\ sends' = [k \in Slots |-> IF k \in new THEN 0 ELSE sends[k]]
              /\ raced' = raced \cup {k \in new : InHand(k)}
              /\ movedOff' = IF request[h].reset THEN movedOff \ {m} ELSE movedOff
              /\ unplanned' = unplanned \ {m}
           \/ /\ (~Exists(m) /\ Answers) \/ Fails
              /\ UNCHANGED <<table, sends, raced, movedOff, unplanned>>
    /\ request' = [request EXCEPT ![h] = IdleReq]
    /\ UNCHANGED <<meeting, now, batch, edits, crashes, announced, clash, after>>

\* cancelPendingJobs.
CancelJobs(h) ==
    /\ request[h].pc = "cancel"
    /\ \/ /\ Answers
          /\ status' = [k \in Slots |->
                IF k.meeting = request[h].meeting /\ status[k] = "pending" THEN "skipped"
                ELSE status[k]]
       \/ Fails /\ UNCHANGED status
    /\ request' = [request EXCEPT ![h] = IdleReq]
    /\ UNCHANGED <<meeting, sendAt, now, batch, edits, crashes, history>>

\* remove: the rows of meeting_reminders go with the meeting (on delete cascade).
Remove(m) ==
    /\ Exists(m) /\ edits < MaxEdits
    /\ edits' = edits + 1
    /\ meeting' = [meeting EXCEPT ![m] = [NoRow EXCEPT !.status = "deleted"]]
    /\ status' = [k \in Slots |-> IF k.meeting = m THEN "absent" ELSE status[k]]
    /\ IF Keeps(meeting[m]) THEN Forget(m) ELSE UNCHANGED after
    /\ UNCHANGED <<sendAt, now, batch, request, faults, crashes, sends, announced, raced, clash,
                   movedOff, unplanned>>

----------------------------------------------------------------------------
(* The cron: processDueReminders and executeJob *)

Due == {k \in Slots : status[k] = "pending" /\ sendAt[k] <= now}

\* order by send_at limit BatchLimit.
Oldest(S) ==
    /\ S \subseteq Due
    /\ Cardinality(S) = IF Cardinality(Due) < BatchLimit THEN Cardinality(Due) ELSE BatchLimit
    /\ \A k \in S, l \in Due \ S : sendAt[k] <= sendAt[l]

\* handleCron: one select, whose rows are then executed one by one.  An error
\* ends the run.
Fire(b) ==
    /\ batch[b].pc = "idle"
    /\ \/ \E S \in SUBSET Due :
             /\ Oldest(S) /\ S # {} /\ Answers
             /\ batch' = [batch EXCEPT ![b] = [IdleBatch EXCEPT
                   !.pc = "next", !.todo = {[slot |-> k, at |-> sendAt[k]] : k \in S}]]
       \/ Fails /\ UNCHANGED batch
    /\ UNCHANGED <<meeting, table, now, request, edits, crashes, history>>

AnyMeeting(row) == row.status \in Statuses          \* mutant: the status is not looked at
Sendable(row)   == Keeps(row)

\* executeJob takes the next row of the snapshot and reads its meeting: missing
\* or unreadable, or no longer active, the row will be skipped.
LoadNext(b) ==
    /\ batch[b].pc = "next"
    /\ \E t \in batch[b].todo :
          /\ \A u \in batch[b].todo : t.at <= u.at
          /\ LET row == meeting[t.slot.meeting]
                 left == [batch[b] EXCEPT !.todo = @ \ {t}, !.slot = t.slot]
             IN  \/ /\ Sendable(row) /\ Answers
                    /\ batch' = [batch EXCEPT ![b] = [left EXCEPT !.pc = "link", !.held = row]]
                 \/ /\ (~Sendable(row) /\ Answers) \/ Fails
                    /\ batch' = [batch EXCEPT ![b] = [left EXCEPT !.pc = "mark",
                                                                 !.mark = "skipped"]]
    /\ UNCHANGED <<meeting, table, now, request, edits, crashes, history>>

NewStatus   == "no recipient"                        \* mutant: a status the table does not know
NoRecipient  == "skipped"

\* ensureMeetLink: a link that had to be generated and could be saved brings the
\* row of now with it; the status is not looked at again.
EnsureLink(b) ==
    /\ batch[b].pc = "link"
    /\ \E held \in {batch[b].held} \cup
                   {row \in {meeting[batch[b].slot.meeting]} : row.status \in Statuses} :
          batch' = [batch EXCEPT
             ![b].held = held,
             ![b].pc = IF batch[b].slot.channel \in held.contact THEN "send" ELSE "mark",
             ![b].mark = IF batch[b].slot.channel \in held.contact THEN "none"
                         ELSE NoRecipient]
    /\ UNCHANGED <<meeting, table, now, request, bounds, history>>

\* sendWhatsappReminder or sendEmailReminder: one recipient reached is "sent".
Send(b) ==
    /\ batch[b].pc = "send"
    /\ LET k == batch[b].slot
           m == k.meeting
       IN  \/ /\ batch' = [batch EXCEPT ![b].pc = "mark", ![b].mark = "sent"]
              /\ sends' = [sends EXCEPT ![k] = @ + 1]
              /\ announced' = [announced EXCEPT ![k] = @ \cup {batch[b].held.date}]
              /\ after' = IF Keeps(meeting[m]) THEN after
                          ELSE [after EXCEPT ![m] = [after[m] EXCEPT ![b] = after[m][b] + 1]]
           \/ /\ batch' = [batch EXCEPT ![b].pc = "mark", ![b].mark = "failed"]
              /\ UNCHANGED <<sends, announced, after>>
    /\ UNCHANGED <<meeting, table, now, request, bounds, raced, clash, movedOff, unplanned>>

MarkRetry(b) == IF batch[b].mark = "failed" THEN "pending" ELSE batch[b].mark   \* mutant
MarkLost(b)  == "pending"                            \* mutant: what was sent is not recorded
MarkOf(b)    == batch[b].mark

\* markJob: by id, whatever happened to the row since the snapshot.
Mark(b) ==
    /\ batch[b].pc = "mark"
    /\ LET k == batch[b].slot
       IN  \/ /\ Answers
              /\ status' = IF status[k] = "absent" THEN status
                           ELSE [status EXCEPT ![k] = MarkOf(b)]
           \/ Fails /\ UNCHANGED status
    /\ batch' = [batch EXCEPT ![b] =
          IF batch[b].todo = {} THEN IdleBatch
          ELSE [IdleBatch EXCEPT !.pc = "next", !.todo = batch[b].todo]]
    /\ UNCHANGED <<meeting, sendAt, now, request, edits, crashes, history>>

----------------------------------------------------------------------------
Tick ==
    /\ now < MaxTime /\ now' = now + 1
    /\ UNCHANGED <<meeting, table, batch, request, bounds, history>>

\* The process dies and is started again: what it held in memory is gone.
Crash ==
    /\ crashes < MaxCrashes /\ crashes' = crashes + 1
    /\ batch' = [b \in Batches |-> IdleBatch]
    /\ request' = [h \in Handlers |-> IdleReq]
    /\ UNCHANGED <<meeting, table, now, edits, faults, history>>

Cron(b) == Fire(b) \/ LoadNext(b) \/ EnsureLink(b) \/ Send(b) \/ Mark(b)

Next ==
    \/ \E h \in Handlers, m \in Meetings : Create(h, m) \/ UpdateRead(h, m)
    \/ \E h \in Handlers : UpdatePatch(h) \/ ListJobs(h) \/ UpsertJobs(h) \/ CancelJobs(h)
    \/ \E m \in Meetings : Remove(m)
    \/ \E b \in Batches : Cron(b)
    \/ Tick \/ Crash

Spec == Init /\ [][Next]_vars

\* The cron fires again and again and each of its awaits comes back; requests
\* and the clock owe nothing.
FairSpec == Spec /\ \A b \in Batches : WF_vars(Cron(b))

----------------------------------------------------------------------------
(* Properties *)

BatchType ==
    [pc : {"idle", "next", "link", "send", "mark"}, todo : SUBSET [slot : Slots, at : Int],
     slot : Slots \cup {None}, held : Row, mark : {"none", "sent", "failed", "skipped"}]
RequestType ==
    [pc : {"idle", "patch", "list", "upsert", "cancel"}, meeting : Meetings \cup {None},
     row : Row, reset : BOOLEAN, keep : SUBSET Slots, at : Nat]

TableType ==
    /\ meeting \in [Meetings -> Row]
    /\ status \in [Slots -> {"absent", "pending", "sent", "skipped", "failed"}]
    /\ sendAt \in [Slots -> Int]

CountType == now \in Nat /\ edits \in Nat /\ faults \in Nat /\ crashes \in Nat

\* A run past its snapshot has a row in hand, and a verdict when it is to be marked.
Consistent(r) ==
    /\ r.pc \in {"link", "send", "mark"} <=> r.slot # None
    /\ r.pc = "mark" <=> r.mark # "none"

BatchesType == batch \in [Batches -> BatchType] /\ \A b \in Batches : Consistent(batch[b])

RequestsType ==
    /\ request \in [Handlers -> RequestType]
    /\ \A h \in Handlers : request[h].pc # "idle" <=> request[h].meeting # None

HistoryType ==
    /\ sends \in [Slots -> Nat]
    /\ announced \in [Slots -> SUBSET Nat]
    /\ raced \subseteq Slots /\ clash \subseteq Meetings /\ movedOff \subseteq Meetings
    /\ unplanned \subseteq Meetings
    /\ after \in [Meetings -> [Batches -> Nat]]

\* Types of the tables, the cron runs and the requests; a run and a request under
\* way always know their row and their meeting.
TypeOK == TableType /\ CountType /\ BatchesType /\ RequestsType /\ HistoryType

\* No request is under way for m, none ever overlapped, and nothing was lost.
Settled(m) == Others(m) = {} /\ m \notin clash /\ faults = 0 /\ crashes = 0

Intended(k) ==
    LET row == meeting[k.meeting]
    IN  /\ Keeps(row) /\ k.channel \in row.contact
        /\ [channel |-> k.channel, offset |-> k.offset] \in row.wanted

\* Once a request is over, the reminders that wait are those the meeting as it
\* now stands asks for, at the time its date asks for.
PendingMatchesMeeting ==
    \A k \in Slots : Settled(k.meeting) /\ status[k] = "pending" =>
        Intended(k) /\ sendAt[k] = SendAt(meeting[k.meeting], k)

\* Conversely no reminder is forgotten: whatever was cancelled, re-activated or
\* moved, what the meeting asks for and is still ahead waits to be sent, unless
\* a batch had it in hand when it was scheduled, it was moved while cancelled, or
\* its create was refused after the insert and nothing scheduled it since.
NothingForgotten ==
    \A k \in Slots :
        /\ Settled(k.meeting) /\ k \notin raced
        /\ k.meeting \notin movedOff \cup unplanned
        /\ Intended(k) /\ SendAt(meeting[k.meeting], k) > now
        => status[k] = "pending"

SentFor(k) == status[k] = "sent" => meeting[k.meeting].date \in announced[k]

\* A reminder shown as sent has announced the date the meeting has now, unless
\* a batch had it in hand when it was scheduled or it was moved while cancelled.
SentAnnouncedTheDate ==
    \A k \in Slots :
        Settled(k.meeting) /\ k \notin raced /\ k.meeting \notin movedOff => SentFor(k)

\* "Keep already-sent jobs unless date/reminders force a full reset": a changed
\* date resets them, so what an active meeting shows as sent announced its date.
MovedIsRemindedAgain ==
    \A k \in Slots :
        Settled(k.meeting) /\ k \notin raced /\ Keeps(meeting[k.meeting]) => SentFor(k)

\* Between two schedulings a reminder goes out at most once per batch under way,
\* and again only after a lost write or a crash.
OncePerScheduling ==
    \A k \in Slots : sends[k] <= Cardinality(Batches) * (1 + faults + crashes)

\* After a meeting was cancelled, done or deleted no cron run delivers more than
\* the one reminder it had in hand.
OneLateReminder == \A m \in Meetings, b \in Batches : after[m][b] <= 1

\* What a user sees of a meeting, and what a run has left to look at.
LifeOf(row) == CASE row.status = "absent"  -> "none"
                 [] row.status = "deleted" -> "gone"
                 [] Keeps(row)             -> "live"
                 [] OTHER                  -> "over"
Left(run)   == {t.slot : t \in run.todo}

Promise == INSTANCE ReminderPromise
           WITH Runs    <- Batches,
                life    <- [m \in Meetings |-> LifeOf(meeting[m])],
                state   <- status,
                went    <- sends,
                carried <- [b \in Batches |-> Left(batch[b])],
                hand    <- [b \in Batches |-> batch[b].slot],
                verdict <- [b \in Batches |-> batch[b].mark]

\* The requests and the cron, with their clashes, faults and restarts, keep the
\* promise: a run looks at a reminder once and lets it out for an active meeting
\* only, "sent" is shown of nothing that did not go out, and the reminders of a
\* removed meeting are gone for good.
KeepsReminders == Promise!Spec

\* Liveness, without faults: what is due is dealt with, however many rows are due
\* and whatever the batches in front of it meet.
DueIsServed ==
    \A k \in Slots : k \in Due ~> (k \notin Due \/ faults > 0)

\* "Keeps already-sent jobs intact when rescheduling": a sent job stays sent as
\* long as its send time does not move.
SentStaysSent ==
    [][\A k \in Slots : status[k] = "sent" /\ status'[k] \notin {"sent", "absent"} =>
          sendAt'[k] # sendAt[k]]_vars
=============================================================================
