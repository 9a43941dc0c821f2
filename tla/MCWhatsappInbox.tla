--------------------------- MODULE MCWhatsappInbox ---------------------------
(* Small instances of WhatsappInbox for TLC. *)
EXTENDS WhatsappInbox

CONSTANTS p1, p2, m1, m2, o1

MCPhones   == {p1}
MCInbound  == {m1, m2}
MCOutbound == {o1}
MCParty    == [w \in MCInbound \cup MCOutbound |-> p1]

Msg(w)     == [kind |-> "message", id |-> w]
St(w, s)   == [kind |-> "status", id |-> w, status |-> s]

\* Two messages of one phone, apart and together, and two statuses of a sent message
\* in one payload.
MCPayloads == {<<Msg(m1)>>, <<Msg(m1), Msg(m2)>>, <<St(o1, "delivered"), St(o1, "read")>>}

\* Two phones: the payload of one drags along a message of the other, to whom a message
\* is being sent.
TwoPhones  == {p1, p2}
TwoParty   == [w \in {m1, m2, o1} |-> IF w = m1 THEN p1 ELSE p2]
TwoPayload == {<<Msg(m1)>>, <<Msg(m1), Msg(m2)>>}
=============================================================================
