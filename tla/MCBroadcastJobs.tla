-------------------------- MODULE MCBroadcastJobs --------------------------
(***************************************************************************)
(* Instances of BroadcastJobs for TLC, and the refinement of               *)
(* BroadcastPromise.                                                       *)
(***************************************************************************)
EXTENDS BroadcastJobs

CONSTANTS p1, p2, e1, n1, n2

Item(p, e, n) == [phone |-> p, email |-> e, name |-> n]

\* Form B on both channels: a duplicate, a recipient without e-mail and one
\* without phone.  Form A on both channels: a duplicated number, nobody has an
\* e-mail.
MCRequests == {
    [form |-> "recipients", whatsapp |-> TRUE, email |-> TRUE,
     raw |-> <<Item(p1, Absent, n1), Item(p1, Absent, n2), Item(Absent, e1, n2)>>],
    [form |-> "phones", whatsapp |-> TRUE, email |-> TRUE,
     raw |-> <<Item(p2, Absent, n1), Item(p2, Absent, n2), Item(Absent, Absent, n1)>>] }

\* E-mail only: two recipients, one of them without an address in form A.
LiveRequests == {
    [form |-> "recipients", whatsapp |-> FALSE, email |-> TRUE,
     raw |-> <<Item(p1, e1, n1), Item(p1, e1, n2)>>],
    [form |-> "phones", whatsapp |-> FALSE, email |-> TRUE,
     raw |-> <<Item(p1, Absent, n1), Item(p2, Absent, n1)>>] }

Promise == INSTANCE BroadcastPromise
           WITH phase <- status, reached <- begun, size <- [j \in Jobs |-> Total(j)]

\* The queue with its worker, faults and restarts keeps the promise: the life
\* of a job, in-order contacts, nobody contacted after the end, and "completed"
\* only when everybody was contacted.
KeepsPromise == Promise!Spec
=============================================================================
