--------------------------- MODULE ReminderPromise ---------------------------
(***************************************************************************)
(* What the automatic reminders promise to the people of a meeting,        *)
(* without the dates, the requests, the statements that fail or the        *)
(* restarts: what becomes of a reminder as its meeting lives and ends, and *)
(* what one run of the cron may do with the reminders it has taken.        *)
(***************************************************************************)
EXTENDS Naturals

CONSTANTS Meetings,
          Slots,     \* reminders; each has a field meeting
          Runs,      \* cron runs
          None       \* no reminder

VARIABLES life,      \* life[m]: what a user sees of a meeting
          state,     \* state[k]: what a user sees of a reminder
          went,      \* went[k]: times it went out since it was scheduled
          carried,   \* carried[b]: the reminders a run has still to look at
          hand,      \* hand[b]: the one it works on
          verdict    \* verdict[b]: what it has decided about that one

table == <<life, state, went>>
runs  == <<carried, hand, verdict>>
vars  == <<table, runs>>

Init ==
    /\ life = [m \in Meetings |-> "none"]
    /\ state = [k \in Slots |-> "absent"]
    /\ went = [k \in Slots |-> 0]
    /\ carried = [b \in Runs |-> {}]
    /\ hand = [b \in Runs |-> None]
    /\ verdict = [b \in Runs |-> "none"]

There(m)  == life[m] \in {"live", "over"}
RowsOf(m) == {k \in Slots : k.meeting = m}

----------------------------------------------------------------------------
(* The meeting *)

\* A meeting that was removed never comes back.
Become(m) ==
    /\ life[m] # "gone"
    /\ \E now \in {"live", "over"} : life' = [life EXCEPT ![m] = now]
    /\ UNCHANGED <<state, went, runs>>

\* The reminders of R are scheduled anew, whatever they were: each waits or is not
\* wanted, and may go out again.
Schedule(m) ==
    /\ There(m)
    /\ UNCHANGED <<life, runs>>
    /\ \E R \in SUBSET RowsOf(m) :
          /\ went' = [k \in Slots |-> IF k \in R THEN 0 ELSE went[k]]
          /\ \E waiting \in SUBSET R :
                state' = [k \in Slots |-> IF k \notin R THEN state[k]
                                         ELSE IF k \in waiting THEN "pending" ELSE "skipped"]

CallOff(m) ==
    /\ state' = [k \in Slots |-> IF k \in RowsOf(m) /\ state[k] = "pending" THEN "skipped"
                                 ELSE state[k]]
    /\ UNCHANGED <<life, went, runs>>

Remove(m) ==
    /\ There(m)
    /\ life' = [life EXCEPT ![m] = "gone"]
    /\ state' = [k \in Slots |-> IF k \in RowsOf(m) THEN "absent" ELSE state[k]]
    /\ UNCHANGED <<went, runs>>

----------------------------------------------------------------------------
(* The cron *)

\* A run that has nothing left takes reminders that wait.
Take(b) ==
    /\ carried[b] = {} /\ hand[b] = None
    /\ \E S \in SUBSET {k \in Slots : state[k] = "pending"} :
          carried' = [carried EXCEPT ![b] = S]
    /\ UNCHANGED <<table, hand, verdict>>

\* It looks at each of them once, and lets it go out only for a live meeting.
LookAt(b, k) ==
    /\ hand[b] = None /\ k \in carried[b]
    /\ carried' = [carried EXCEPT ![b] = @ \ {k}]
    /\ hand' = [hand EXCEPT ![b] = k]
    /\ \/ life[k.meeting] = "live" /\ UNCHANGED verdict
       \/ verdict' = [verdict EXCEPT ![b] = "skipped"]
    /\ UNCHANGED table

\* What it has in hand goes out, once, even when the meeting ends meanwhile.
Deliver(b) ==
    /\ hand[b] # None /\ verdict[b] = "none"
    /\ went' = [went EXCEPT ![hand[b]] = @ + 1]
    /\ verdict' = [verdict EXCEPT ![b] = "sent"]
    /\ UNCHANGED <<life, state, carried, hand>>

GiveUp(b) ==
    /\ hand[b] # None /\ verdict[b] = "none"
    /\ \E v \in {"skipped", "failed"} : verdict' = [verdict EXCEPT ![b] = v]
    /\ UNCHANGED <<table, carried, hand>>

\* The verdict is shown, or lost; a reminder that is gone is not brought back.
Conclude(b) ==
    /\ verdict[b] # "none"
    /\ \/ UNCHANGED state
       \/ /\ state[hand[b]] # "absent"
          /\ state' = [state EXCEPT ![hand[b]] = verdict[b]]
    /\ hand' = [hand EXCEPT ![b] = None]
    /\ verdict' = [verdict EXCEPT ![b] = "none"]
    /\ UNCHANGED <<life, went, carried>>

\* Runs end together, wherever they are, and are not resumed.
Stop ==
    /\ carried' = [b \in Runs |-> {}]
    /\ hand' = [b \in Runs |-> None]
    /\ verdict' = [b \in Runs |-> "none"]
    /\ UNCHANGED table

Next ==
    \/ \E m \in Meetings : Become(m) \/ Schedule(m) \/ CallOff(m) \/ Remove(m)
    \/ \E b \in Runs : \/ \E k \in Slots : LookAt(b, k)
                       \/ Take(b) \/ Deliver(b) \/ GiveUp(b) \/ Conclude(b)
    \/ Stop

Spec == Init /\ [][Next]_vars
=============================================================================
