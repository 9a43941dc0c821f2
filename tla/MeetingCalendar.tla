--------------------------- MODULE MeetingCalendar ---------------------------
(***************************************************************************)
(* The meeting row, the Google Calendar event made for it, and the         *)
(* immediate confirmations (meetings.service.ts, google-meet.service.ts,   *)
(* the manual sends of meetings-reminder.service.ts).                      *)
(*                                                                         *)
(* The row holds the id of the event and its Meet link; the event shows    *)
(* the date the row had when it was made or patched.  Nothing ties the two *)
(* writes together: an action is one awaited call with the code that       *)
(* follows it, and requests interleave between them.                       *)
(*                                                                         *)
(* Left out: jobs of meeting_reminders (MeetingReminders), members and     *)
(* assignees (MeetingPeople); every meeting has a phone number and a mail  *)
(* address, and of the text columns only whether the title says            *)
(* "phone call" matters.                                                   *)
(***************************************************************************)
EXTENDS Statements

CONSTANTS Meetings,     \* meeting ids
          Events,       \* ids Google gives to calendar events
          Dates,        \* meeting dates
          CalendarEdits \* PATCH bodies: the columns to change

\* None stands for no meeting, no event and no date; a PATCH body has typed columns.
ASSUME CalendarAssumption ==
    /\ None \notin Meetings /\ None \notin Events
    /\ \A dto \in CalendarEdits :
          /\ "phone" \in DOMAIN dto => dto["phone"] \in BOOLEAN
          /\ "active" \in DOMAIN dto => dto["active"] \in BOOLEAN
          /\ "date" \in DOMAIN dto => dto["date"] \in Dates

VARIABLES
    meetings,   \* meetings[m]: the row
    google,     \* google[e]: the event in the calendar
    blocked,    \* meeting_blocked_days
    inFlight,   \* createConfirmInFlight
    call,       \* call[h]: a request under way
    told,       \* history: told[m][c], unforced confirmations since the last
                \*          date and the last five minutes
    lost,       \* history: events a failed statement or call has detached
    tangled,    \* history: meetings two requests have worked on at once
    unseen      \* history: meetings a request sent for although another had sent or
                \*          was sending: it had read the row before, unmarked

calendarHistory == <<told, lost, tangled, unseen>>
calendarVars ==
    <<meetings, google, blocked, inFlight, call, calendarHistory>>

Channels == {"whatsapp", "email"}
Rows     == [state : {"absent", "there", "gone"}, phone : BOOLEAN, active : BOOLEAN,
             date : Dates \cup {None}, link : BOOLEAN, event : Events \cup {None},
             sent : SUBSET Channels, recent : BOOLEAN]
NoMeeting == [state |-> "absent", phone |-> FALSE, active |-> FALSE, date |-> None,
              link |-> FALSE, event |-> None, sent |-> {}, recent |-> FALSE]
NoneTold  == [c \in Channels |-> 0]
NoEvent   == [state |-> "free", meeting |-> None, date |-> None]

\* What a request remembers between its calls: the row it read, the columns it
\* changes, the event and link it was given, and what it will send.
IdleCall == [pc |-> "idle", kind |-> "none", meeting |-> None, seen |-> NoMeeting,
             dto |-> <<>>, event |-> None, link |-> FALSE, channels |-> {},
             done |-> {}, force |-> FALSE, todo |-> {}]

CalendarInit ==
    /\ meetings = [m \in Meetings |-> NoMeeting]
    /\ google = [e \in Events |-> NoEvent]
    /\ blocked = {} /\ inFlight = {}
    /\ call = [h \in Handlers |-> IdleCall]
    /\ told = [m \in Meetings |-> NoneTold]
    /\ lost = {} /\ tangled = {} /\ unseen = {}

OnFile(m)  == meetings[m].state = "there"
Live(e)    == google[e].state = "live"
NewEvent   == LET free == {e \in Events : google[e].state = "free"}
              IN  IF free = {} THEN {} ELSE {AnyOf(free)}
Working(m) == {h \in Handlers : \/ call[h].pc # "idle" /\ call[h].meeting = m
                                \/ \E r \in call[h].todo : r.meeting = m}
Given(dto, column, otherwise) == IF column \in DOMAIN dto THEN dto[column] ELSE otherwise

\* A request starts; two at once on a meeting are remembered.
Starts(h, m, record) ==
    /\ call[h].pc = "idle" /\ Begins
    /\ call' = [call EXCEPT ![h] = [record EXCEPT !.meeting = m]]
    /\ tangled' = IF Working(m) = {} THEN tangled ELSE tangled \cup {m}

Proceeds(h, pc) == call' = [call EXCEPT ![h].pc = pc]
Closes(h)       == call' = [call EXCEPT ![h] = IdleCall]

----------------------------------------------------------------------------
(* Blocked days and availability guard a new date *)

\* create and remove of MeetingsBlockedDaysService.
BlockDay(d) ==
    /\ Begins /\ d \notin blocked /\ blocked' = blocked \cup {d}
    /\ UNCHANGED <<meetings, google, inFlight, call, calendarHistory, faults>>

UnblockDay(d) ==
    /\ Begins /\ d \in blocked /\ blocked' = blocked \ {d}
    /\ UNCHANGED <<meetings, google, inFlight, call, calendarHistory, faults>>

\* assertMeetingDateNotBlocked.
DateAllowed(date) == date \notin blocked

----------------------------------------------------------------------------
(* Google: createGoogleMeetForMeeting and createEventWithMeet *)

\* The event Google keeps for the row a request has in hand.
Shown(h) == [state |-> "live", meeting |-> call[h].meeting, date |-> call[h].seen.date]

\* An event with a link.
Conference(h, next) ==
    /\ \E e \in NewEvent :
          /\ google' = [google EXCEPT ![e] = Shown(h)]
          /\ call' = [call EXCEPT ![h].pc = next, ![h].event = e, ![h].link = TRUE]
    /\ Answers /\ UNCHANGED lost

\* events.insert answers with an event whose link events.get cannot read:
\* createEventWithMeet returns null and forgets the event, createSpace follows.
Unreadable(h, next) ==
    /\ \E e \in NewEvent, link \in BOOLEAN :
          /\ google' = [google EXCEPT ![e] = Shown(h)]
          /\ lost' = lost \cup {e}
          /\ call' = [call EXCEPT ![h].pc = next, ![h].event = None, ![h].link = link]
    /\ Fails

\* The calendar refuses: a bare space gives a link without event, or nothing.
NoCalendar(h, next) ==
    /\ \E link \in BOOLEAN :
          call' = [call EXCEPT ![h].pc = next, ![h].event = None, ![h].link = link]
    /\ Fails /\ UNCHANGED <<google, lost>>

AskGoogle(h) ==
    /\ call[h].pc = "google"
    /\ LET next == IF call[h].kind = "regenerate" THEN "drop" ELSE "store"
       IN  Conference(h, next) \/ Unreadable(h, next) \/ NoCalendar(h, next)
    /\ UNCHANGED <<meetings, blocked, inFlight, told, tangled, unseen, calls>>

\* patchEvent; Google answers 404 for an event that was deleted.  The result is
\* read only by regenerateMeetLink, which then makes a new event.
PatchEvent(h) ==
    /\ call[h].pc = "patchEvent"
    /\ LET e == call[h].event
           regenerate == call[h].kind = "regenerate"
       IN  \/ /\ Live(e) /\ Answers
              /\ google' = [google EXCEPT ![e].date = call[h].seen.date]
              /\ IF regenerate
                 THEN call' = [call EXCEPT ![h].pc = "store", ![h].link = TRUE]
                 ELSE Closes(h)
              /\ UNCHANGED lost
           \/ /\ IF Live(e) THEN Fails ELSE Answers
              /\ IF regenerate THEN Proceeds(h, "google") ELSE Closes(h)
              /\ lost' = lost \cup {e}
              /\ UNCHANGED google
    /\ UNCHANGED <<meetings, blocked, inFlight, told, tangled, unseen, calls>>

\* deleteEvent never throws: an error leaves the event in the calendar.
DeletesEvent(e) ==
    \/ /\ google' = [google EXCEPT ![e].state = "removed"] /\ Answers /\ UNCHANGED lost
    \/ /\ Live(e) /\ Fails /\ lost' = lost \cup {e} /\ UNCHANGED google

----------------------------------------------------------------------------
(* create *)

\* Validation and checks; a phone call gets no event.
Create(h, m) ==
    /\ meetings[m].state = "absent"
    /\ \E phone \in BOOLEAN, date \in Dates, notify \in BOOLEAN :
          /\ DateAllowed(date)
          /\ Starts(h, m, [IdleCall EXCEPT
                !.pc = IF phone THEN "store" ELSE "google", !.kind = "create",
                !.seen = [NoMeeting EXCEPT !.state = "there", !.phone = phone,
                                           !.date = date, !.active = TRUE],
                !.channels = IF notify THEN Channels ELSE {}])
    \* The id is the database's: no other request is making the same meeting.
    /\ Working(m) = {}
    /\ UNCHANGED <<meetings, google, blocked, inFlight, told, lost, unseen, faults>>

\* The insert comes after the event: a failure leaves the event behind.  A member
\* that is refused then ends the request before the confirmation.
InsertRow(h) ==
    /\ call[h].kind = "create" /\ call[h].pc = "store"
    /\ LET m == call[h].meeting
           row == [call[h].seen EXCEPT !.event = call[h].event, !.link = call[h].link]
       IN  \/ /\ Answers
              /\ meetings' = [meetings EXCEPT ![m] = row]
              /\ \/ Closes(h)
                 \/ /\ call[h].channels # {}
                    /\ call' = [call EXCEPT ![h].pc = "confirm", ![h].kind = "confirm",
                                            ![h].event = None, ![h].link = FALSE]
              /\ UNCHANGED lost
           \/ /\ Fails /\ Closes(h)
              /\ lost' = lost \cup ({call[h].event} \ {None})
              /\ UNCHANGED meetings
    /\ UNCHANGED <<google, blocked, inFlight, told, tangled, unseen, calls>>

----------------------------------------------------------------------------
(* update *)

\* The row is read and the new date checked.
UpdateMeeting(h, m) ==
    /\ OnFile(m)
    /\ \E dto \in CalendarEdits :
          /\ "date" \in DOMAIN dto => DateAllowed(dto.date)
          /\ Starts(h, m, [IdleCall EXCEPT !.pc = "patchRow", !.kind = "update",
                                           !.seen = meetings[m], !.dto = dto])
    /\ UNCHANGED <<meetings, google, blocked, inFlight, told, lost, unseen, faults>>

\* The columns of the patch: a phone call loses link and event; a posted date
\* clears what was sent, the same date too (DateChanged of MeetingReminders).
Moves(dto) == "date" \in DOMAIN dto

PatchedRow(row, dto) ==
    LET phone == Given(dto, "phone", FALSE)
    IN  [row EXCEPT !.phone  = Given(dto, "phone", row.phone),
                    !.active = Given(dto, "active", row.active),
                    !.date   = Given(dto, "date", row.date),
                    !.link   = @ /\ ~phone,
                    !.event  = IF phone THEN None ELSE @,
                    !.sent   = IF Moves(dto) THEN {} ELSE @,
                    !.recent = @ /\ ~Moves(dto)]

BecameOnline(seen, dto) == seen.phone /\ ~Given(dto, "phone", seen.phone)

\* mutant: a new date is not carried to the calendar.
RelevantButDate(seen, dto) == "phone" \in DOMAIN dto

\* calendarRelevantChanged.
CalendarRelevant(seen, dto) ==
    BecameOnline(seen, dto) \/ DOMAIN dto \cap {"phone", "date"} # {}

\* mutant: the event of a meeting that became a phone call is left alone.
OfflineLeavesEvent(seen) == "idle"
Offline(seen) == IF seen.event # None THEN "dropOld" ELSE "idle"

\* What follows the patch: the old event is deleted, patched or a new one made.
\* Whether the meeting is online is decided on the row that was read.
CalendarStep(row, seen, dto) ==
    LET event == IF row.event # None THEN row.event ELSE seen.event
    IN  CASE Given(dto, "phone", seen.phone) -> [pc |-> Offline(seen), event |-> seen.event]
          [] ~Given(dto, "phone", seen.phone) /\ ~CalendarRelevant(seen, dto)
                 /\ seen.event # None ->
                 [pc |-> "idle", event |-> None]
          [] ~Given(dto, "phone", seen.phone) /\ (CalendarRelevant(seen, dto) \/ seen.event = None)
                 /\ event # None /\ ~BecameOnline(seen, dto) ->
                 [pc |-> "patchEvent", event |-> event]
          [] OTHER -> [pc |-> "google", event |-> None]

\* After the row come its members and assignees: if they cannot be written or
\* read, beside another request too, the event is not looked at any more.
PatchRow(h) ==
    /\ call[h].pc = "patchRow"
    /\ LET m == call[h].meeting
           seen == call[h].seen
           row == PatchedRow(meetings[m], call[h].dto)
           step == CalendarStep(row, seen, call[h].dto)
       IN  \/ /\ OnFile(m)
              /\ meetings' = [meetings EXCEPT ![m] = row]
              /\ told' = IF Moves(call[h].dto) THEN [told EXCEPT ![m] = NoneTold] ELSE told
              /\ \/ /\ Answers /\ UNCHANGED lost
                    /\ IF step.pc = "idle" THEN Closes(h)
                       ELSE call' = [call EXCEPT ![h].pc = step.pc, ![h].event = step.event,
                                                 ![h].seen = row]
                 \/ /\ Fails \/ (Working(m) # {h} /\ Answers)
                    /\ Closes(h) /\ lost' = lost \cup ({row.event, seen.event} \ {None})
           \/ /\ IF OnFile(m) THEN Fails ELSE Answers
              /\ Closes(h) /\ UNCHANGED <<meetings, told, lost>>
    /\ UNCHANGED <<google, blocked, inFlight, tangled, unseen, calls>>

DropOld(h) ==
    /\ call[h].pc = "dropOld"
    /\ DeletesEvent(call[h].event) /\ Closes(h)
    /\ UNCHANGED <<meetings, blocked, inFlight, told, tangled, unseen, calls>>

\* The new event is written by id, whatever the row has become meanwhile.
SyncRow(h) ==
    /\ call[h].pc = "store" /\ call[h].kind \in {"update", "backfill"}
    /\ LET m == call[h].meeting
           c == call[h]
           rest == IF c.kind = "backfill" /\ c.todo # {} THEN "row" ELSE "idle"
       IN  /\ \/ /\ c.link /\ OnFile(m) /\ Answers
                 /\ meetings' = [meetings EXCEPT ![m].event = c.event, ![m].link = TRUE]
                 /\ UNCHANGED lost
              \/ /\ c.link /\ IF OnFile(m) THEN Fails ELSE Answers
                 /\ lost' = lost \cup ({c.event} \ {None})
                 /\ UNCHANGED meetings
              \/ /\ ~c.link /\ Answers /\ UNCHANGED <<meetings, lost>>
           /\ IF rest = "idle" THEN Closes(h) ELSE Proceeds(h, rest)
    /\ UNCHANGED <<google, blocked, inFlight, told, tangled, unseen, calls>>

----------------------------------------------------------------------------
(* remove, regenerateMeetLink, backfillMeetLinks, saveMeetLink *)

RemoveMeeting(h, m) ==
    /\ OnFile(m)
    /\ Starts(h, m, [IdleCall EXCEPT
          !.pc = IF meetings[m].event # None THEN "deleteEvent" ELSE "deleteRow",
          !.kind = "remove", !.seen = meetings[m], !.event = meetings[m].event])
    /\ UNCHANGED <<meetings, google, blocked, inFlight, told, lost, unseen, faults>>

RemoveEvent(h) ==
    /\ call[h].pc = "deleteEvent"
    /\ DeletesEvent(call[h].event) /\ Proceeds(h, "deleteRow")
    /\ UNCHANGED <<meetings, blocked, inFlight, told, tangled, unseen, calls>>

\* The event is gone when the row goes: a failure leaves a row with a dead event.
DeleteRow(h) ==
    /\ call[h].pc = "deleteRow"
    /\ LET m == call[h].meeting
       IN  \/ /\ meetings' = [meetings EXCEPT ![m] = [NoMeeting EXCEPT !.state = "gone"]]
              /\ Answers /\ UNCHANGED lost
           \/ /\ Fails /\ lost' = lost \cup ({call[h].event} \ {None})
              /\ UNCHANGED meetings
    /\ Closes(h)
    /\ UNCHANGED <<google, blocked, inFlight, told, tangled, unseen, calls>>

RegenerateMeetLink(h, m) ==
    /\ OnFile(m) /\ ~meetings[m].phone
    /\ Starts(h, m, [IdleCall EXCEPT
          !.pc = IF meetings[m].event # None THEN "patchEvent" ELSE "google",
          !.kind = "regenerate", !.seen = meetings[m], !.event = meetings[m].event])
    /\ UNCHANGED <<meetings, google, blocked, inFlight, told, lost, unseen, faults>>

\* The patch failed and a new event was made: without a link the request is
\* refused, with one the old event is deleted before the row is written.  A bare
\* space has no event id to compare: the old event is forgotten.
DropReplaced(h) ==
    /\ call[h].pc = "drop"
    /\ LET old == call[h].seen.event
       IN  \/ /\ ~call[h].link /\ Closes(h) /\ Answers /\ UNCHANGED <<google, lost>>
           \/ /\ call[h].link /\ old # None /\ call[h].event # None
              /\ DeletesEvent(old) /\ Proceeds(h, "store")
           \/ /\ call[h].link /\ (old = None \/ call[h].event = None)
              /\ Proceeds(h, "store") /\ Answers
              /\ UNCHANGED <<google, lost>>
    /\ UNCHANGED <<meetings, blocked, inFlight, told, tangled, unseen, calls>>

\* saveMeetLink: a row that is gone is an error.
SaveMeetLink(h) ==
    /\ call[h].pc = "store" /\ call[h].kind \in {"regenerate", "confirm", "remind"}
    /\ LET m == call[h].meeting
           c == call[h]
           sends == c.kind # "regenerate"
       IN  /\ \/ /\ c.link /\ OnFile(m) /\ Answers
                 /\ meetings' = [meetings EXCEPT
                       ![m].event = IF sends /\ c.event = None THEN c.seen.event ELSE c.event,
                       ![m].link = TRUE]
                 /\ UNCHANGED lost
              \/ /\ c.link /\ IF OnFile(m) THEN Fails ELSE Answers
                 /\ lost' = lost \cup ({c.event} \ {None})
                 /\ UNCHANGED meetings
              \/ /\ ~c.link /\ Answers /\ UNCHANGED <<meetings, lost>>
           /\ IF sends THEN Proceeds(h, "send") ELSE Closes(h)
    /\ UNCHANGED <<google, blocked, inFlight, told, tangled, unseen, calls>>

\* backfillMeetLinks reads all rows without a link at once and works them off
\* one by one, each as it was read; the phone calls are passed over.
Backfill(h) ==
    /\ LET rows == {m \in Meetings : OnFile(m) /\ ~meetings[m].link}
       IN  /\ rows # {} /\ call[h].pc = "idle" /\ Begins
           /\ call' = [call EXCEPT ![h] = [IdleCall EXCEPT !.pc = "row", !.kind = "backfill",
                 !.todo = {[meeting |-> m, row |-> meetings[m]] : m \in rows}]]
           /\ tangled' = tangled \cup {m \in rows : Working(m) # {}}
    /\ UNCHANGED <<meetings, google, blocked, inFlight, told, lost, unseen, faults>>

BackfillRow(h) ==
    /\ call[h].pc = "row"
    /\ \E r \in call[h].todo :
          call' = [call EXCEPT ![h].meeting = r.meeting, ![h].seen = r.row,
             ![h].todo = @ \ {r}, ![h].event = None, ![h].link = FALSE,
             ![h].pc = IF r.row.phone THEN "store" ELSE "google"]
    /\ UNCHANGED <<meetings, google, blocked, inFlight, calendarHistory, counters>>

----------------------------------------------------------------------------
(* Confirmations: sendCreateConfirmation, sendReminderForMeetingId *)

\* recentlyManualSent: one time stamp for both channels.
RecentlySent(row) == IF row.recent THEN row.sent ELSE {}

Sending(m) == {h \in Working(m) : /\ call[h].kind \in {"confirm", "remind"} /\ ~call[h].force
                                  /\ call[h].pc \in {"google", "store", "send", "mark"}}

\* ensureMeetLink comes first, from the row that was read.
Delivers(row, kind, channels, force) ==
    [IdleCall EXCEPT !.pc = IF row.link \/ row.phone THEN "send" ELSE "google",
                     !.kind = kind, !.seen = row, !.channels = channels, !.force = force]

\* After create: nothing while a confirmation of the meeting is in flight.
Confirm(h) ==
    /\ call[h].pc = "confirm"
    /\ IF call[h].meeting \in inFlight THEN Closes(h) ELSE Proceeds(h, "reread")
    /\ UNCHANGED <<meetings, google, blocked, inFlight, calendarHistory, counters>>

\* findById, because a reminder may have sent meanwhile.
ReadAgain(h) ==
    /\ call[h].pc = "reread"
    /\ LET m == call[h].meeting
       IN  \/ /\ OnFile(m) /\ Answers
              /\ call' = [call EXCEPT ![h].pc = "decide", ![h].seen = meetings[m]]
           \/ /\ IF OnFile(m) THEN Fails ELSE Answers
              /\ Closes(h)
    /\ UNCHANGED <<meetings, google, blocked, inFlight, calendarHistory, calls>>

\* Nobody sends, and what is due has not been sent, as far as the row tells now.
StillDue(m, due) == OnFile(m) /\ Sending(m) = {} /\ due \cap RecentlySent(meetings[m]) = {}

\* The channels that are due are sent for the row that was read.
SendsDue(h, due) ==
    LET c == call[h]
    IN  /\ due # {}
        /\ call' = [call EXCEPT
              ![h] = [Delivers(c.seen, c.kind, due, c.force) EXCEPT !.meeting = c.meeting]]
        /\ unseen' = IF c.force \/ c.meeting \in inFlight \/ StillDue(c.meeting, due)
                     THEN unseen ELSE unseen \cup {c.meeting}

\* The confirmation sends what the row it has read leaves to send.
EnterFlight(h) ==
    /\ call[h].pc = "decide" /\ call[h].kind = "confirm"
    /\ LET due == Channels \ RecentlySent(call[h].seen)
       IN  \/ SendsDue(h, due) /\ inFlight' = inFlight \cup {call[h].meeting}
           \/ due = {} /\ Closes(h) /\ UNCHANGED <<inFlight, unseen>>
    /\ UNCHANGED <<meetings, google, blocked, told, lost, tangled, counters>>

\* A manual reminder reads the row; it asks for one channel or both.
Remind(h, m) ==
    /\ OnFile(m) /\ meetings[m].active
    /\ \E channels \in SUBSET Channels \ {{}}, force \in BOOLEAN :
          Starts(h, m, [IdleCall EXCEPT !.pc = "decide", !.kind = "remind", !.seen = meetings[m],
                                        !.channels = channels, !.force = force])
    /\ UNCHANGED <<meetings, google, blocked, inFlight, told, lost, unseen, faults>>

\* mutant: the in-flight set is not looked at.
WantedInFlight(c) == IF c.force THEN c.channels ELSE c.channels \ RecentlySent(c.seen)

\* What a manual reminder sends: nothing while a confirmation is in flight,
\* nothing twice in five minutes, everything if forced.
Wanted(c) ==
    IF c.force THEN c.channels
    ELSE IF c.meeting \in inFlight THEN {} ELSE c.channels \ RecentlySent(c.seen)

\* The in-flight set is that of now, the row that of Remind.
DecideReminder(h) ==
    /\ call[h].pc = "decide" /\ call[h].kind = "remind"
    /\ \/ SendsDue(h, Wanted(call[h]))
       \/ Wanted(call[h]) = {} /\ Closes(h) /\ UNCHANGED unseen
    /\ UNCHANGED <<meetings, google, blocked, inFlight, told, lost, tangled, counters>>

\* WhatsApp, then e-mail.
Send(h) ==
    /\ call[h].pc = "send"
    /\ LET m == call[h].meeting
           c == call[h]
           channel == IF "whatsapp" \in c.channels THEN "whatsapp" ELSE "email"
           Sent(done) == call' = [call EXCEPT ![h].channels = @ \ {channel}, ![h].done = done,
               ![h].pc = IF c.channels # {channel} THEN "send" ELSE "mark"]
       IN  \/ /\ Answers /\ Sent(c.done \cup {channel})
              /\ told' = IF c.force THEN told ELSE [told EXCEPT ![m][channel] = @ + 1]
           \/ Fails /\ Sent(c.done) /\ UNCHANGED told
    /\ UNCHANGED <<meetings, google, blocked, inFlight, lost, tangled, unseen, calls>>

\* mutant: no finally.
NeverReleased(m, kind) == inFlight

\* finally: createConfirmInFlight.delete.
Released(m, kind) == IF kind = "confirm" THEN inFlight \ {m} ELSE inFlight

\* markManualReminderSent for the channels that were sent, if any.
MarkSent(h) ==
    /\ call[h].pc = "mark"
    /\ LET m == call[h].meeting
           done == call[h].done
       IN  /\ \/ /\ done = {} /\ Answers /\ UNCHANGED <<meetings, unseen>>
              \/ /\ done # {} /\ Answers
                 /\ meetings' = IF OnFile(m) THEN [meetings EXCEPT ![m].sent = @ \cup done,
                                                                 ![m].recent = TRUE]
                                ELSE meetings
                 /\ UNCHANGED unseen
              \/ /\ done # {} /\ Fails
                 /\ unseen' = unseen \cup {m} /\ UNCHANGED meetings
           /\ inFlight' = Released(m, call[h].kind)
    /\ Closes(h)
    /\ UNCHANGED <<google, blocked, told, lost, tangled, calls>>

\* Five minutes pass, also for a request that has read the time stamp and is
\* still to compare it.
Forget(m) ==
    /\ meetings[m].recent
    /\ meetings' = [meetings EXCEPT ![m].recent = FALSE]
    /\ call' = [h \in Handlers |-> IF call[h].pc = "decide" /\ call[h].meeting = m
                                   THEN [call[h] EXCEPT !.seen.recent = FALSE] ELSE call[h]]
    /\ told' = [told EXCEPT ![m] = NoneTold]
    /\ UNCHANGED <<google, blocked, inFlight, lost, tangled, unseen, counters>>

CalendarNext ==
    \/ \E d \in Dates : BlockDay(d) \/ UnblockDay(d)
    \/ \E m \in Meetings : Forget(m)
    \/ \E h \in Handlers, m \in Meetings :
          Create(h, m) \/ UpdateMeeting(h, m) \/ RemoveMeeting(h, m)
              \/ RegenerateMeetLink(h, m) \/ Remind(h, m)
    \/ \E h \in Handlers :
          Backfill(h) \/ BackfillRow(h) \/ AskGoogle(h) \/ PatchEvent(h) \/ InsertRow(h)
              \/ PatchRow(h) \/ DropOld(h) \/ SyncRow(h) \/ RemoveEvent(h) \/ DeleteRow(h)
              \/ DropReplaced(h) \/ SaveMeetLink(h) \/ Confirm(h) \/ ReadAgain(h)
              \/ EnterFlight(h) \/ DecideReminder(h) \/ Send(h) \/ MarkSent(h)

CalendarSpec ==
    CalendarInit /\ calls = 0 /\ faults = 0 /\ [][CalendarNext]_<<calendarVars, counters>>

----------------------------------------------------------------------------
(* Properties *)

Calls == [pc : {"idle", "google", "patchEvent", "store", "patchRow", "dropOld", "deleteEvent",
                "deleteRow", "drop", "row", "confirm", "reread", "decide", "send", "mark"},
          kind : {"none", "create", "update", "remove", "regenerate", "backfill", "confirm",
                  "remind"},
          meeting : Meetings \cup {None}, seen : Rows, dto : CalendarEdits \cup {<<>>},
          event : Events \cup {None}, link : BOOLEAN, channels : SUBSET Channels,
          done : SUBSET Channels, force : BOOLEAN,
          todo : SUBSET [meeting : Meetings, row : Rows]]

\* Types of the meeting rows, the calendar, the requests and the history.
CalendarTypeOK ==
    /\ meetings \in [Meetings -> Rows]
    /\ google \in [Events -> [state : {"free", "live", "removed"},
                              meeting : Meetings \cup {None}, date : Dates \cup {None}]]
    /\ blocked \in SUBSET Dates /\ inFlight \in SUBSET Meetings
    /\ call \in [Handlers -> Calls]
    /\ told \in [Meetings -> [Channels -> Nat]]
    /\ lost \in SUBSET Events /\ tangled \in SUBSET Meetings /\ unseen \in SUBSET Meetings

\* No event is left in the calendar without a meeting: a live event is the one
\* its row names, or a request still holds its id (create, update, remove,
\* regenerateMeetLink, backfillMeetLinks, ensureMeetLink).  Not so for events a
\* failed call detached, or for meetings two requests have worked on at once.
NoStrayEvent ==
    \A e \in Events : Live(e) /\ e \notin lost /\ google[e].meeting \notin tangled =>
        \/ meetings[google[e].meeting].event = e
        \/ \E h \in Handlers : e \in {call[h].event, call[h].seen.event}

\* Once nothing works on a meeting, the event its row names is in the calendar,
\* at the date of the row (update, PATCH of the event, remove).
EventAtDate ==
    \A m \in Meetings \ tangled :
        LET e == meetings[m].event
        IN  Working(m) = {} /\ e \notin {None} \cup lost =>
                Live(e) /\ google[e].date = meetings[m].date

\* A phone call has neither link nor event, through every change of title,
\* regenerateMeetLink, backfillMeetLinks and ensureMeetLink.
PhoneIsOffline ==
    \A m \in Meetings \ tangled :
        meetings[m].phone => ~meetings[m].link /\ meetings[m].event = None

\* The calendar and the link of a meeting follow its row.
EventShowsTheRow == EventAtDate /\ PhoneIsOffline

\* Between two dates and within five minutes, a meeting is confirmed once per
\* channel however the confirmation of create and manual reminders interleave,
\* but for two that read the row before either had marked it: a reminder that
\* looks at the in-flight set while the confirmation is in it sends nothing.
ConfirmedOnce ==
    \A m \in Meetings \ unseen, c \in Channels : told[m][c] <= 1

\* A confirmation under way is not doubled by send-reminder ("Pendant
\* create-confirm en cours : ne pas doubler"), whatever each has read when.
NeverDoubled == \A m \in Meetings, c \in Channels : told[m][c] <= 1

\* The in-flight set names the meetings being confirmed, no other: a stuck entry
\* would mute send-reminder for the meeting until the process restarts.
InFlightIsSending ==
    inFlight = {m \in Meetings : \E h \in Handlers :
        /\ call[h].meeting = m /\ call[h].kind = "confirm"
        /\ call[h].pc \in {"google", "store", "send", "mark"}}
=============================================================================
