--------------------------- MODULE BroadcastJobs ---------------------------
(***************************************************************************)
(* The broadcast queue of src/whatsapp/whatsapp-broadcast-jobs.service.ts: *)
(* jobs are rows of whatsapp_broadcast_jobs, one in-process worker claims  *)
(* the oldest pending row and contacts its recipients one by one, HTTP     *)
(* requests create and cancel jobs meanwhile, and the process may die and  *)
(* boot again at any point.                                                *)
(*                                                                         *)
(* Grain: an action is one awaited call (a SQL statement, a call to Meta   *)
(* or to the mailer) with the synchronous code that follows it up to the   *)
(* next await.  A statement that fails returns {error}, it never throws;   *)
(* each failure spends one unit of MaxFaults.  Realtime events, the delay  *)
(* between recipients and the template's body parameters are left out.     *)
(***************************************************************************)
EXTENDS BroadcastRecipients

CONSTANTS Jobs,         \* job identifiers, in the order of created_at
          NoJob,        \* the worker holds none
          Requests,     \* POST /whatsapp/broadcast bodies, already validated
          MaxFaults,    \* bound: failing SQL statements
          MaxCrashes,   \* bound: process deaths
          MaxCancels    \* bound: cancelJob calls between their read and their write

ASSUME JobsAssumption == Jobs \subseteq Nat /\ NoJob \notin Jobs
ASSUME RequestsAssumption ==
    \A r \in Requests :
        /\ r.raw \in Seq(Contact)
        /\ r.form \in {"phones", "recipients"}
        /\ r.whatsapp \in BOOLEAN
        /\ r.email \in BOOLEAN
        /\ r.form = "phones" => \A p \in DOMAIN r.raw : r.raw[p].email = Absent
ASSUME BoundsAssumption == MaxFaults \in Nat /\ MaxCrashes \in Nat /\ MaxCancels \in Nat

VARIABLES
    message,    \* message[j]: phone_numbers and channels of the row
    status,     \* status[j], "absent" before the insert
    finished,   \* finished[j]: finished_at is set
    error,      \* error[j]: the error column
    tally,      \* tally[j]: cursor_index and the four counters of the row
    results,    \* results[j]: rows of whatsapp_broadcast_job_results, by key
    service,    \* "up" once the process has booted, "down" before
    kicks,      \* setImmediate callbacks that wait to run processQueue
    tails,      \* processQueue calls that await hasPending in their finally
    pc,         \* where the one looping processQueue is; "idle": running = false
    job,        \* the row claimNextPending found or runJob holds
    count,      \* runJob's local cursor and counters
    outcome,    \* waSuccess and emailSuccess of the current recipient
    cancelling, \* cancelJob calls under way: the job and the status they read
    faults,     \* failed statements so far
    crashes,    \* deaths so far
    waCalls,    \* history: waCalls[j][n], calls to Meta for recipient n
    emailCalls, \* history: the same for the mailer
    begun,      \* history: how many recipients of j the worker has turned to
    late        \* history: those contacted although the row was cancelled

rows     == <<message, status, finished, error, tally, results>>
queue    == <<kicks, tails>>
worker   == <<pc, job, count, outcome>>
bounds   == <<faults, crashes>>
history  == <<waCalls, emailCalls, begun, late>>
vars     == <<rows, service, queue, worker, cancelling, bounds, history>>

Statuses  == {"pending", "running", "completed", "failed", "cancelled"}
Terminal  == {"completed", "failed", "cancelled"}
InJob     == {"check", "stop", "whatsapp", "email", "result", "progress", "finalize"}
ZeroTally == [cursor |-> 0, sent |-> 0, failed |-> 0, emailSent |-> 0, emailFailed |-> 0]
NoMessage == [to |-> <<>>, whatsapp |-> FALSE, email |-> FALSE]
NotTried  == [wa |-> "null", email |-> "null"]

Up        == service = "up"
Total(j)  == Len(message[j].to)
Current   == count.cursor + 1           \* the recipient at the head of the loop
Recipient == message[job].to[Current]

Init ==
    /\ message = [j \in Jobs |-> NoMessage]
    /\ status = [j \in Jobs |-> "absent"]
    /\ finished = [j \in Jobs |-> FALSE]
    /\ error = [j \in Jobs |-> "null"]
    /\ tally = [j \in Jobs |-> ZeroTally]
    /\ results = [j \in Jobs |-> <<>>]
    /\ service = "down"
    /\ kicks = 0 /\ tails = 0
    /\ pc = "idle" /\ job = NoJob /\ count = ZeroTally /\ outcome = NotTried
    /\ cancelling = {}
    /\ faults = 0 /\ crashes = 0
    /\ waCalls = [j \in Jobs |-> <<>>]
    /\ emailCalls = [j \in Jobs |-> <<>>]
    /\ begun = [j \in Jobs |-> 0]
    /\ late = [j \in Jobs |-> {}]

\* A SQL statement succeeds, or comes back with {error}.
Answers == UNCHANGED faults
Fails   == faults < MaxFaults /\ faults' = faults + 1

----------------------------------------------------------------------------
(* HTTP requests *)

\* createJob: insert the row, then kick.
CreateJob(j, r) ==
    /\ Up /\ status[j] = "absent" /\ Accepted(r)
    /\ message' = [message EXCEPT ![j] =
          [to |-> Stored(r), whatsapp |-> r.whatsapp, email |-> r.email]]
    /\ status' = [status EXCEPT ![j] = "pending"]
    /\ waCalls' = [waCalls EXCEPT ![j] = [n \in 1..Len(Stored(r)) |-> 0]]
    /\ emailCalls' = [emailCalls EXCEPT ![j] = [n \in 1..Len(Stored(r)) |-> 0]]
    /\ kicks' = kicks + 1
    /\ UNCHANGED <<finished, error, tally, results, service, tails, worker, cancelling,
                   bounds, begun, late>>

\* The condition of cancelJob's update.
AnyStatus(j)   == status[j] # "absent"                  \* mutant: no status filter
Cancellable(j) == status[j] \in {"pending", "running"}

\* cancelJob up to its read: a row that is over is refused with 409.
CancelRead(j) ==
    /\ Up /\ Cancellable(j)
    /\ Cardinality(cancelling) < MaxCancels
    /\ cancelling' = cancelling \cup {[job |-> j, read |-> status[j]]}
    /\ UNCHANGED <<rows, service, queue, worker, bounds, history>>

\* cancelJob from its update on: guarded by the status of now, but finished_at
\* and error come from the status that was read.
CancelWrite(j, read) ==
    /\ Up /\ [job |-> j, read |-> read] \in cancelling
    /\ cancelling' = cancelling \ {[job |-> j, read |-> read]}
    /\ \/ /\ Cancellable(j) /\ Answers
          /\ status' = [status EXCEPT ![j] = "cancelled"]
          /\ finished' = [finished EXCEPT ![j] = (read = "pending")]
          /\ error' = [error EXCEPT ![j] =
                          IF read = "pending" THEN "Cancelled before start" ELSE "null"]
       \/ /\ ~Cancellable(j) /\ Answers
          /\ UNCHANGED <<status, finished, error>>
       \/ Fails /\ UNCHANGED <<status, finished, error>>
    /\ UNCHANGED <<message, tally, results, service, queue, worker, crashes, history>>

----------------------------------------------------------------------------
(* processQueue and claimNextPending *)

\* A callback of kick: processQueue returns at once when another one runs.
RunKick ==
    /\ Up /\ kicks > 0
    /\ kicks' = kicks - 1
    /\ pc' = IF pc = "idle" THEN "find" ELSE pc
    /\ UNCHANGED <<rows, service, tails, job, count, outcome, cancelling, bounds, history>>

\* The loop ends: running = false, then hasPending is asked.
LeaveLoop ==
    /\ pc' = "idle" /\ job' = NoJob /\ count' = ZeroTally /\ outcome' = NotTried
    /\ tails' = tails + 1

Oldest(j) == status[j] = "pending" /\ \A k \in Jobs : status[k] = "pending" => j <= k

FindNext ==
    /\ pc = "find"
    /\ \/ \E j \in Jobs :
            /\ Oldest(j) /\ Answers
            /\ pc' = "claim" /\ job' = j
            /\ UNCHANGED <<count, outcome, tails>>
       \/ (\A j \in Jobs : status[j] # "pending") /\ Answers /\ LeaveLoop
       \/ Fails /\ LeaveLoop
    /\ UNCHANGED <<rows, service, kicks, cancelling, crashes, history>>

\* update ... where status = 'pending': the row found may be cancelled by now.
Claim ==
    /\ pc = "claim"
    /\ \/ /\ status[job] = "pending" /\ Answers
          /\ status' = [status EXCEPT ![job] = "running"]
          /\ error' = [error EXCEPT ![job] = "null"]
          /\ count' = tally[job]
          /\ pc' = IF tally[job].cursor < Total(job) THEN "check" ELSE "finalize"
          /\ UNCHANGED <<job, outcome, tails>>
       \/ status[job] # "pending" /\ Answers /\ LeaveLoop /\ UNCHANGED <<status, error>>
       \/ Fails /\ LeaveLoop /\ UNCHANGED <<status, error>>
    /\ UNCHANGED <<message, finished, tally, results, service, kicks, cancelling, crashes,
                   history>>

NoRecheck  == FALSE                                      \* mutant: the finally forgets the queue
HasPending == \E j \in Jobs : status[j] = "pending"

\* hasPending, awaited after running went back to false; an error counts as "no".
CheckTail ==
    /\ Up /\ tails > 0
    /\ tails' = tails - 1
    /\ \/ HasPending /\ Answers /\ kicks' = kicks + 1
       \/ ~HasPending /\ Answers /\ UNCHANGED kicks
       \/ Fails /\ UNCHANGED kicks
    /\ UNCHANGED <<rows, service, worker, cancelling, crashes, history>>

----------------------------------------------------------------------------
(* runJob *)

CancelSeenOnce == status[job] = "cancelled" /\ count.cursor = 0   \* mutant: asked once per job
CancelSeen     == status[job] = "cancelled"

\* isCancelled: an error counts as "not cancelled".
CheckCancelled ==
    /\ pc = "check"
    /\ \/ CancelSeen /\ Answers /\ pc' = "stop" /\ UNCHANGED begun
       \/ /\ (~CancelSeen /\ Answers) \/ Fails
          /\ pc' = "whatsapp"
          /\ begun' = [begun EXCEPT ![job] = Current]
    /\ UNCHANGED <<rows, service, queue, job, count, outcome, cancelling, crashes, waCalls,
                   emailCalls, late>>

LeftOpen == finished                                     \* mutant: finished_at not set
Closed   == [finished EXCEPT ![job] = TRUE]

\* The cancellation was seen: save the counters and go on with the next job.
StopJob ==
    /\ pc = "stop"
    /\ \/ /\ Answers
          /\ status' = [status EXCEPT ![job] = "cancelled"]
          /\ tally' = [tally EXCEPT ![job] = count]
          /\ finished' = Closed
       \/ Fails /\ UNCHANGED <<status, tally, finished>>
    /\ pc' = "find" /\ job' = NoJob /\ count' = ZeroTally
    /\ UNCHANGED <<message, error, results, service, queue, outcome, cancelling, crashes,
                   history>>

\* What a contact leaves behind when the row was cancelled under the worker.
NoteLate ==
    late' = IF status[job] = "cancelled" THEN [late EXCEPT ![job] = @ \cup {Current}]
            ELSE late

CountFailure == [count EXCEPT !.failed = @ + 1]

\* sendBroadcastTemplateToPhone: a throw counts as failed.
SendWhatsapp ==
    /\ pc = "whatsapp" /\ pc' = "email"
    /\ \/ /\ ~message[job].whatsapp
          /\ UNCHANGED <<count, outcome, waCalls, late>>
       \/ /\ message[job].whatsapp /\ Recipient.phone = Absent
          /\ outcome' = [outcome EXCEPT !.wa = "no"]
          /\ count' = CountFailure
          /\ UNCHANGED <<waCalls, late>>
       \/ /\ message[job].whatsapp /\ Recipient.phone # Absent
          /\ waCalls' = [waCalls EXCEPT ![job][Current] = @ + 1]
          /\ NoteLate
          /\ \/ /\ outcome' = [outcome EXCEPT !.wa = "yes"]
                /\ count' = [count EXCEPT !.sent = @ + 1]
             \/ /\ outcome' = [outcome EXCEPT !.wa = "no"]
                /\ count' = CountFailure
    /\ UNCHANGED <<rows, service, queue, job, cancelling, bounds, emailCalls, begun>>

\* sendOneBroadcastEmail.
SendEmail ==
    /\ pc = "email" /\ pc' = "result"
    /\ \/ /\ ~message[job].email
          /\ UNCHANGED <<count, outcome, emailCalls, late>>
       \/ /\ message[job].email /\ Recipient.email = Absent
          /\ outcome' = [outcome EXCEPT !.email = "no"]
          /\ count' = [count EXCEPT !.emailFailed = @ + 1]
          /\ UNCHANGED <<emailCalls, late>>
       \/ /\ message[job].email /\ Recipient.email # Absent
          /\ emailCalls' = [emailCalls EXCEPT ![job][Current] = @ + 1]
          /\ NoteLate
          /\ \/ /\ outcome' = [outcome EXCEPT !.email = "yes"]
                /\ count' = [count EXCEPT !.emailSent = @ + 1]
             \/ /\ outcome' = [outcome EXCEPT !.email = "no"]
                /\ count' = [count EXCEPT !.emailFailed = @ + 1]
    /\ UNCHANGED <<rows, service, queue, job, cancelling, bounds, waCalls, begun>>

\* upsertResult, on conflict (job_id, recipient_key) do update.
SaveResult ==
    /\ pc = "result" /\ pc' = "progress"
    /\ LET key == RecipientKey(Recipient)
       IN  \/ /\ Answers
              /\ results' = [results EXCEPT ![job] =
                    [k \in DOMAIN @ \cup {key} |-> IF k = key THEN outcome ELSE @[k]]]
           \/ Fails /\ UNCHANGED results
    /\ outcome' = NotTried
    /\ UNCHANGED <<message, status, finished, error, tally, service, queue, job, count,
                   cancelling, crashes, history>>

NotSaved      == tally[job]                              \* mutant: progress stays in memory
ProgressPatch == [count EXCEPT !.cursor = @ + 1]

\* updateProgress: by id, whatever the status of the row.
SaveProgress ==
    /\ pc = "progress"
    /\ count' = [count EXCEPT !.cursor = @ + 1]
    /\ pc' = IF count.cursor + 1 < Total(job) THEN "check" ELSE "finalize"
    /\ \/ Answers /\ tally' = [tally EXCEPT ![job] = ProgressPatch]
       \/ Fails /\ UNCHANGED tally
    /\ UNCHANGED <<message, status, finished, error, results, service, queue, job, outcome,
                   cancelling, crashes, history>>

\* The end of runJob: by id, whatever the status of the row.
Finalize ==
    /\ pc = "finalize"
    /\ \/ /\ Answers
          /\ status' = [status EXCEPT ![job] = "completed"]
          /\ tally' = [tally EXCEPT ![job] = count]
          /\ finished' = Closed
          /\ error' = [error EXCEPT ![job] = "null"]
       \/ Fails /\ UNCHANGED <<status, tally, finished, error>>
    /\ pc' = "find" /\ job' = NoJob /\ count' = ZeroTally
    /\ UNCHANGED <<message, results, service, queue, outcome, cancelling, crashes, history>>

----------------------------------------------------------------------------
(* The process *)

\* Everything in memory is lost, requests under way with it.
Crash ==
    /\ Up /\ crashes < MaxCrashes
    /\ crashes' = crashes + 1
    /\ service' = "down"
    /\ kicks' = 0 /\ tails' = 0
    /\ pc' = "idle" /\ job' = NoJob /\ count' = ZeroTally /\ outcome' = NotTried
    /\ cancelling' = {}
    /\ UNCHANGED <<rows, faults, history>>

\* The status a row has after the boot cleanup.
Requeued(j)   == IF status[j] = "running" THEN "pending" ELSE status[j]       \* mutant
Interrupt(j)  == IF status[j] = "running" THEN "interrupted" ELSE status[j]   \* mutant
Untouched(j)  == status[j]                                                    \* mutant
AfterBoot(j)  == IF status[j] = "running" THEN "failed" ELSE status[j]

\* onModuleInit: running rows become failed and the queue is kicked; when the
\* update fails the service starts without a kick.
Boot ==
    /\ service = "down" /\ service' = "up"
    /\ \/ /\ Answers
          /\ status' = [j \in Jobs |-> AfterBoot(j)]
          /\ finished' = [j \in Jobs |-> finished[j] \/ status[j] = "running"]
          /\ error' = [j \in Jobs |-> IF status[j] = "running"
                                      THEN "Interrupted by server restart" ELSE error[j]]
          /\ kicks' = kicks + 1
       \/ Fails /\ UNCHANGED <<status, finished, error, kicks>>
    /\ UNCHANGED <<message, tally, results, tails, worker, cancelling, crashes, history>>

----------------------------------------------------------------------------
Worker == FindNext \/ Claim \/ CheckCancelled \/ StopJob \/ SendWhatsapp \/ SendEmail
          \/ SaveResult \/ SaveProgress \/ Finalize

Next ==
    \/ \E j \in Jobs, r \in Requests : CreateJob(j, r)
    \/ \E j \in Jobs : CancelRead(j)
    \/ \E j \in Jobs, read \in {"pending", "running"} : CancelWrite(j, read)
    \/ RunKick \/ CheckTail \/ Worker
    \/ Crash \/ Boot

Spec == Init /\ [][Next]_vars

\* The event loop runs every queued callback and every awaited call answers; a
\* process that died is started again.  Nobody has to create, cancel or crash.
Fairness == WF_vars(Worker) /\ WF_vars(RunKick) /\ WF_vars(CheckTail) /\ WF_vars(Boot)

FairSpec == Spec /\ Fairness

----------------------------------------------------------------------------
(* Properties *)

TallyType == [cursor : Nat, sent : Nat, failed : Nat, emailSent : Nat, emailFailed : Nat]
OutcomeType == [wa : {"null", "yes", "no"}, email : {"null", "yes", "no"}]

RowsType ==
    /\ message \in [Jobs -> [to : Seq(Contact), whatsapp : BOOLEAN, email : BOOLEAN]]
    /\ status \in [Jobs -> Statuses \cup {"absent"}]
    /\ finished \in [Jobs -> BOOLEAN]
    /\ error \in [Jobs -> {"null", "Cancelled before start", "Interrupted by server restart"}]
    /\ tally \in [Jobs -> TallyType]

QueueType ==
    /\ service \in {"up", "down"}
    /\ kicks \in Nat /\ tails \in Nat
    /\ cancelling \subseteq [job : Jobs, read : {"pending", "running"}]
    /\ faults \in Nat /\ crashes \in Nat

WorkerType ==
    /\ pc \in {"idle", "find", "claim"} \cup InJob
    /\ IF pc \in {"idle", "find"} THEN job = NoJob ELSE job \in Jobs
    /\ count \in TallyType
    /\ outcome \in OutcomeType

HistoryType ==
    /\ DOMAIN waCalls = Jobs /\ DOMAIN emailCalls = Jobs
    /\ \A j \in Jobs : /\ waCalls[j] \in [1..Total(j) -> Nat]
                      /\ emailCalls[j] \in [1..Total(j) -> Nat]
    /\ begun \in [Jobs -> Nat]
    /\ late \in [Jobs -> SUBSET Nat]

\* Types of the table, of the queue, of the worker and of the history; a worker
\* past claimNextPending holds a job, and nothing else does.
TypeOK == RowsType /\ QueueType /\ WorkerType /\ HistoryType

\* No recipient of a job is handed to Meta, or to the mailer, twice: not by
\* cancel, restart, re-kick or a lost write.
AtMostOncePerRecipient ==
    \A j \in Jobs :
        /\ \A n \in DOMAIN waCalls[j] : waCalls[j][n] <= 1
        /\ \A n \in DOMAIN emailCalls[j] : emailCalls[j][n] <= 1

\* The counters a client reads explain the cursor exactly, in every state and
\* whatever writes were lost: each channel in use has one outcome per recipient
\* passed, a channel not in use has none.
CountersMatchCursor ==
    \A j \in Jobs :
        /\ tally[j].sent + tally[j].failed =
              IF message[j].whatsapp THEN tally[j].cursor ELSE 0
        /\ tally[j].emailSent + tally[j].emailFailed =
              IF message[j].email THEN tally[j].cursor ELSE 0

\* Without database faults a row that says running is the one the worker holds:
\* no row is left running for ever by a cancel, a crash or a restart.
RunningIsOwned ==
    Up /\ faults = 0 =>
        \A j \in Jobs : status[j] = "running" => pc \in InJob /\ job = j

\* Without database faults a pending row is never stranded: a callback, a
\* pending re-check or the loop itself will still look at the queue.
PendingIsServed ==
    Up /\ faults = 0 /\ (\E j \in Jobs : status[j] = "pending")
        => kicks > 0 \/ tails > 0 \/ pc # "idle"

\* The stored report never claims a recipient the worker has not turned to, and
\* without faults it is behind by at most the recipient in progress: what a
\* restart or a late cancel leaves uncounted.
ReportLagsByOne ==
    \A j \in Jobs :
        /\ tally[j].cursor <= begun[j]
        /\ faults = 0 => begun[j] <= tally[j].cursor + 1
        /\ faults = 0 /\ status[j] = "completed" => tally[j].cursor = Total(j)

\* The report of a job, as a client reads it at any moment.
ReportIsTrue == CountersMatchCursor /\ ReportLagsByOne

\* A cancellation that was acknowledged reaches at most the recipient in
\* progress, plus one for each status read that failed.
CancelTakesEffect == \A j \in Jobs : Cardinality(late[j]) <= 1 + faults

\* Without faults the detail rows of a completed job are one per recipient and
\* add up to its counters: no two recipients share a key.
ResultsMatchReport ==
    \A j \in Jobs : faults = 0 /\ status[j] = "completed" =>
        /\ Cardinality(DOMAIN results[j]) = Total(j)
        /\ Cardinality({k \in DOMAIN results[j] : results[j][k].wa = "yes"}) = tally[j].sent
        /\ Cardinality({k \in DOMAIN results[j] : results[j][k].email = "yes"})
              = tally[j].emailSent

\* Liveness, without database faults: a job that was accepted is over some day.
EveryJobEnds ==
    \A j \in Jobs : status[j] = "pending" ~> status[j] \in Terminal

\* Liveness: a cancelled job gets its finished_at unless the process dies first.
CancelIsClosed ==
    \A j \in Jobs : status[j] = "cancelled" ~> (finished[j] \/ crashes > 0)

\* What the error text written by cancelJob says of a job: it was cancelled
\* before it started, so nobody was contacted.
CancelledBeforeStart ==
    \A j \in Jobs : error[j] = "Cancelled before start" =>
        \A n \in 1..Total(j) : waCalls[j][n] = 0 /\ emailCalls[j][n] = 0
=============================================================================
