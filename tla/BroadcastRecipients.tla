------------------------ MODULE BroadcastRecipients ------------------------
(***************************************************************************)
(* How a broadcast request is turned into the list of recipients of a job: *)
(* normalizeAndDedupePhones, normalizeAndDedupeRecipients and              *)
(* buildRecipientKey (src/whatsapp).  Normalisation is abstracted: Absent  *)
(* stands for a phone without digits and for an e-mail that is missing or  *)
(* malformed, and two spellings of one number are the same model value.    *)
(***************************************************************************)
EXTENDS Naturals, Sequences, FiniteSets

CONSTANTS Phones, Emails, Names, Absent

ASSUME RecipientsAssumption == Absent \notin Phones /\ Absent \notin Emails

Contact == [phone : Phones \cup {Absent}, email : Emails \cup {Absent}, name : Names]

\* phone|email, phone alone or e:email.  The name is not part of the key.
RecipientKey(c) == <<c.phone, c.email>>

\* Form A ("phones") stores numbers and looks at no channel; form B
\* ("recipients") drops what no selected channel can reach.
Usable(r, c) ==
    \/ r.form = "phones" /\ c.phone # Absent
    \/ r.form = "recipients" /\ r.whatsapp /\ c.phone # Absent
    \/ r.form = "recipients" /\ r.email /\ c.email # Absent

AllUsable(r) == {p \in DOMAIN r.raw : Usable(r, r.raw[p])}   \* mutant: no deduplication

\* Positions of the request that are kept: usable, the first of their key.
KeptPositions(r) ==
    {p \in DOMAIN r.raw :
        /\ Usable(r, r.raw[p])
        /\ \A q \in 1..(p - 1) :
              Usable(r, r.raw[q]) => RecipientKey(r.raw[q]) # RecipientKey(r.raw[p])}

\* The list stored in phone_numbers: the kept positions in request order.
Stored(r) ==
    LET kept == KeptPositions(r)
        Rank(p) == Cardinality({q \in kept : q <= p})
    IN  [n \in 1..Cardinality(kept) |-> r.raw[CHOOSE p \in kept : Rank(p) = n]]

\* What createJob accepts: a channel, and at least one recipient left.
Accepted(r) == (r.whatsapp \/ r.email) /\ Stored(r) # <<>>
=============================================================================
