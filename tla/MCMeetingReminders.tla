------------------------- MODULE MCMeetingReminders -------------------------
(* Instances of MeetingReminders for TLC. *)
EXTENDS MeetingReminders, TLC

LeadTicks == [o \in Offsets |-> IF o = "24h" THEN 2 ELSE 1]

\* WhatsApp reminders are asked for; the e-mail rows are skipped throughout.
ByPhone == {c \in Choices : c.channel = "whatsapp"}

MCInserts ==
    {[status |-> "scheduled", date |-> 3, contact |-> Channels, wanted |-> ByPhone]}

\* Moving, re-posting the date, ending, re-activating, a move together with an
\* end, taking the phone number away, and asking for one reminder less.
MCEdits ==
    {[date |-> 4], [date |-> 3], [status |-> "cancelled"], [status |-> "confirmed"],
     [date |-> 4, status |-> "cancelled"], [contact |-> {"email"}],
     [wanted |-> {c \in ByPhone : c.offset = "2h"}]}

SameDate  == {[date |-> 3]}
LiveEdits == {[date |-> 4], [status |-> "cancelled"], [contact |-> {"email"}]}

Alike == Permutations(Batches) \cup Permutations(Handlers)
=============================================================================
