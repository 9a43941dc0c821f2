---------------------------- MODULE InboxPromise ----------------------------
(***************************************************************************)
(* What the WhatsApp inbox promises to the people who use it, without the  *)
(* webhooks, the requests, the statements that fail or the restarts:       *)
(* which conversations and messages they see, how many messages wait, what *)
(* rings, and what they are told of the messages they send.                *)
(***************************************************************************)
EXTENDS Naturals, FiniteSets

CONSTANTS Phones, Inbound, Outbound,
          Party,     \* the phone of a message
          Statuses   \* what may be told of a message sent

VARIABLES known,     \* phones with a conversation
          inbox,     \* inbox[w]: a message received is "absent", "stored" or "counted"
          badge,     \* badge[p]: the messages said to wait
          bell,      \* bell[p]: the notification of a conversation
          sent,      \* messages that were sent
          shown      \* shown[w]: what is shown of a message sent

incoming == <<known, inbox, badge>>
outgoing == <<sent, shown>>
vars     == <<incoming, bell, outgoing>>

Init ==
    /\ known = {}
    /\ inbox = [w \in Inbound |-> "absent"]
    /\ badge = [p \in Phones |-> 0]
    /\ bell = [p \in Phones |-> "absent"]
    /\ sent = {}
    /\ shown = [w \in Outbound |-> "absent"]

CountedOf(p) == {w \in Inbound : Party[w] = p /\ inbox[w] = "counted"}

----------------------------------------------------------------------------
(* Messages received *)

Meet(p) ==
    /\ p \notin known
    /\ known' = known \cup {p}
    /\ UNCHANGED <<inbox, badge, bell, outgoing>>

\* A message is there once, in a conversation, however often it was delivered.
Arrive(w) ==
    /\ inbox[w] = "absent" /\ Party[w] \in known
    /\ inbox' = [inbox EXCEPT ![w] = "stored"]
    /\ UNCHANGED <<known, badge, bell, outgoing>>

\* It counts once: a message waits then, and never more than were counted.
Count(w) ==
    /\ inbox[w] = "stored"
    /\ inbox' = [inbox EXCEPT ![w] = "counted"]
    /\ \E n \in 1 .. Cardinality(CountedOf(Party[w])) + 1 :
          badge' = [badge EXCEPT ![Party[w]] = n]
    /\ UNCHANGED <<known, bell, outgoing>>

\* The badge is taken back, to nothing or to what it may have been.
TakeBack(p) ==
    /\ p \in known
    /\ \E n \in 0 .. Cardinality(CountedOf(p)) : badge' = [badge EXCEPT ![p] = n]
    /\ UNCHANGED <<known, inbox, bell, outgoing>>

\* What rings has a message behind it.
Ring(p) ==
    /\ CountedOf(p) # {}
    /\ bell' = [bell EXCEPT ![p] = "unread"]
    /\ UNCHANGED <<incoming, outgoing>>

Hush(S) ==
    /\ bell' = [p \in Phones |-> IF p \in S /\ bell[p] = "unread" THEN "read" ELSE bell[p]]
    /\ UNCHANGED <<incoming, outgoing>>

----------------------------------------------------------------------------
(* Messages sent *)

Submit(w) ==
    /\ w \notin sent
    /\ sent' = sent \cup {w}
    /\ UNCHANGED <<incoming, bell, shown>>

\* Nothing is shown that was not sent, and a message appears once.
Appear(w) ==
    /\ w \in sent /\ shown[w] = "absent"
    /\ shown' = [shown EXCEPT ![w] = "sent"]
    /\ UNCHANGED <<incoming, bell, sent>>

Tell(w) ==
    /\ shown[w] # "absent"
    /\ \E s \in Statuses : shown' = [shown EXCEPT ![w] = s]
    /\ UNCHANGED <<incoming, bell, sent>>

Next ==
    \/ \E p \in Phones : Meet(p) \/ TakeBack(p) \/ Ring(p)
    \/ \E S \in SUBSET Phones : Hush(S)
    \/ \E w \in Inbound : Arrive(w) \/ Count(w)
    \/ \E w \in Outbound : Submit(w) \/ Appear(w) \/ Tell(w)

Spec == Init /\ [][Next]_vars
=============================================================================
