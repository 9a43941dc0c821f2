-------------------------- MODULE BroadcastPromise --------------------------
(***************************************************************************)
(* What the broadcast queue promises to the people who use it, without the *)
(* queue, the worker, the failing statements or the restarts: the life of  *)
(* a job and how far it has gone through its recipients.                   *)
(***************************************************************************)
EXTENDS Naturals

CONSTANTS Jobs

VARIABLES phase,     \* phase[j]: the status a client reads
          reached,   \* reached[j]: recipients turned to, in order
          size       \* size[j]: how many recipients there are

vars == <<phase, reached, size>>

Init ==
    /\ phase = [j \in Jobs |-> "absent"]
    /\ reached = [j \in Jobs |-> 0]
    /\ size = [j \in Jobs |-> 0]

Accept(j) ==
    /\ phase[j] = "absent"
    /\ phase' = [phase EXCEPT ![j] = "pending"]
    /\ size'[j] \in Nat \ {0} /\ size' = [size EXCEPT ![j] = size'[j]]
    /\ UNCHANGED reached

Start(j) ==
    /\ phase[j] = "pending"
    /\ phase' = [phase EXCEPT ![j] = "running"]
    /\ UNCHANGED <<reached, size>>

\* Recipients are reached one at a time; a job that is cancelled may still
\* reach some, one that completed, failed or has not started may not.
Reach(j) ==
    /\ phase[j] \in {"running", "cancelled"}
    /\ reached[j] < size[j]
    /\ reached' = [reached EXCEPT ![j] = @ + 1]
    /\ UNCHANGED <<phase, size>>

\* Cancelling is for a job that is not over.
Cancel(j) ==
    /\ phase[j] \in {"pending", "running"}
    /\ phase' = [phase EXCEPT ![j] = "cancelled"]
    /\ UNCHANGED <<reached, size>>

\* Completed says that everybody was reached; a cancellation may come too late.
Complete(j) ==
    /\ phase[j] \in {"running", "cancelled"}
    /\ reached[j] = size[j]
    /\ phase' = [phase EXCEPT ![j] = "completed"]
    /\ UNCHANGED <<reached, size>>

\* A restart fails every job that was running, and resumes none.
Interrupt ==
    /\ \E j \in Jobs : phase[j] = "running"
    /\ phase' = [j \in Jobs |-> IF phase[j] = "running" THEN "failed" ELSE phase[j]]
    /\ UNCHANGED <<reached, size>>

Next ==
    \/ \E j \in Jobs : Accept(j) \/ Start(j) \/ Reach(j) \/ Cancel(j) \/ Complete(j)
    \/ Interrupt

Spec == Init /\ [][Next]_vars
=============================================================================
