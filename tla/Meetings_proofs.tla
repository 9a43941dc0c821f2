---------------------------- MODULE Meetings_proofs ----------------------------
(***************************************************************************)
(* Proofs about meetings, their events and their people, for every set of  *)
(* meetings, events, dates, edits and requests and every bound.            *)
(*                                                                         *)
(* A meeting that two requests have never worked on at once is described   *)
(* by its row, its events and the one request at work on it, which can     *)
(* rely on what it read (HandOK); from there no event is stray, every      *)
(* event shows its row and a phone call has none.  The confirmations are   *)
(* proved beside: of a meeting one request sends at a time, what it will   *)
(* send was not sent, and what was sent is marked or will be.              *)
(* Meetings are then counted: the days of Casablanca cut the hours, so     *)
(* that each meeting of a week falls on one of its days.                   *)
(***************************************************************************)
EXTENDS MeetingCalendar, MeetingPeople, Counting_proofs
----------------------------------------------------------------------------
(* The inductive invariant *)

\* The steps of each kind of request, and what it holds at each.
ShapeOK(w) ==
    /\ w.kind = "none" => w.pc = "idle"
    /\ w.kind = "create" => w.pc \in {"google", "store"}
    /\ w.kind = "update" => w.pc \in {"patchRow", "dropOld", "patchEvent", "google", "store"}
    /\ w.kind = "remove" => w.pc \in {"deleteEvent", "deleteRow"}
    /\ w.kind = "regenerate" => w.pc \in {"patchEvent", "google", "drop", "store"}
    /\ w.kind = "backfill" => w.pc \in {"row", "google", "store"}
    /\ w.kind = "confirm" => w.pc \in {"confirm", "reread", "decide", "google", "store",
                                         "send", "mark"}
    /\ w.kind = "remind" => w.pc \in {"decide", "google", "store", "send", "mark"}
    /\ w.pc \notin {"idle", "row"} => w.meeting \in Meetings
    /\ w.kind # "backfill" => w.todo = {}
    /\ w.kind = "create" => w.seen.state = "there"
    /\ w.kind \in {"create", "confirm"} => ~w.force
    /\ w.pc = "patchRow" => w.dto \in CalendarEdits
    /\ w.pc \in {"patchEvent", "dropOld", "deleteEvent"} => w.event # None
    /\ w.pc \in {"google", "store", "send"} /\ w.kind \in {"confirm", "remind"} => w.channels # {}
    /\ \A r \in w.todo : r.meeting # w.meeting
    /\ \A r \in w.todo, s \in w.todo : r.meeting = s.meeting => r = s

\* Every request has the shape of its kind.
ShapeInv == \A h \in Handlers : ShapeOK(call[h])

\* A meeting that is being made has no row, any other that is worked on has or had one.
MadeOK(w) ==
    /\ w.kind = "create" => meetings[w.meeting].state = "absent"
    /\ w.pc \notin {"idle", "row"} /\ w.kind # "create" => meetings[w.meeting].state # "absent"
    /\ \A r \in w.todo : meetings[r.meeting].state # "absent"

\* So it is for every request.
MadeInv == \A h \in Handlers : MadeOK(call[h])

\* No two requests make the same meeting, or confirm that they have made it.
MakerInv == \A h \in Handlers, o \in Handlers :
    h # o /\ call[h].kind \in {"create", "confirm"} =>
        ~(call[o].kind = call[h].kind /\ call[h].meeting = call[o].meeting)

\* An event belongs to one meeting from its insertion on.
Owned(m, e) == e # None => google[e].meeting = m /\ google[e].state # "free"

\* The events a request knows belong to the meetings it knows them from.
HoldsOwn(w) == /\ Owned(w.meeting, w.event)
              /\ Owned(w.meeting, w.seen.event)
              /\ \A r \in w.todo : Owned(r.meeting, r.row.event)

\* Rows and requests know events of their own meeting only.
OwnInv == /\ \A m \in Meetings : Owned(m, meetings[m].event)
          /\ \A h \in Handlers : HoldsOwn(call[h])
          /\ \A e \in Events : google[e].state # "free" => google[e].meeting \in Meetings

\* The request is at work on the meeting.
HandOn(m, w) == w.pc # "idle" /\ w.meeting = m

\* A phone call has neither link nor event, an event comes with a link, and a row that
\* is not there has neither.
RowOK(row) ==
    /\ row.phone => ~row.link /\ row.event = None
    /\ row.event # None => row.link
    /\ row.state # "there" => row.event = None /\ ~row.link

\* The calendar shows the event at the date.
Shows(e, date, cal) == cal[e].state = "live" /\ cal[e].date = date

\* The event of the row is in the calendar at its date, or the request is about to patch
\* it, or has deleted it and is about to delete the row.
LiveOK(m, row, w, cal, gone) ==
    row.event \notin {None} \cup gone =>
        \/ Shows(row.event, row.date, cal)
        \/ HandOn(m, w) /\ w.pc \in {"patchEvent", "deleteRow"} /\ w.event = row.event

\* A live event of the meeting is the one its row names, or the request has it in hand.
StrayOK(m, row, w, cal, gone) ==
    \A e \in Events : cal[e].meeting = m /\ cal[e].state = "live" /\ e \notin gone =>
        \/ row.event = e
        \/ HandOn(m, w) /\ w.pc \in {"store", "drop", "dropOld"} /\ w.event = e

\* A row backfillMeetLinks is still to work on is as it was read.
TodoOK(m, row, w) ==
    \A r \in w.todo : r.meeting = m =>
        /\ row.state = "there" /\ ~row.link /\ row.event = None
        /\ r.row.event = None /\ r.row.phone = row.phone /\ r.row.date = row.date

\* The row is as it was read, as far as the calendar is concerned.
Agrees(row, seen) ==
    /\ row.state = "there" /\ row.phone = seen.phone /\ row.date = seen.date
    /\ row.event = seen.event

\* What a request alone on its meeting can rely on, step by step: the row is as it read
\* it, and the event it holds shows the date of that row.
HandOK(m, row, w, cal, gone) ==
    HandOn(m, w) =>
        /\ w.pc \in {"patchRow", "patchEvent", "deleteEvent"} => Agrees(row, w.seen)
        /\ w.pc = "dropOld" => row.event = None
        /\ w.pc \in {"patchEvent", "deleteEvent", "deleteRow"} => w.event = row.event
        /\ w.pc = "patchEvent" => ~row.phone
        /\ w.pc = "deleteRow" /\ row.event \notin {None} \cup gone => cal[row.event].state # "live"
        /\ w.pc = "google" => w.event \in {None} \cup gone /\ ~w.seen.phone
        /\ w.pc \in {"store", "drop"} =>
              /\ w.event # None => w.link
              /\ w.link => ~w.seen.phone
              /\ w.event \notin {None} \cup gone => Shows(w.event, w.seen.date, cal)
        /\ w.pc = "google" \/ (w.pc \in {"store", "drop"} /\ w.link) =>
              /\ w.kind # "create" => Agrees(row, w.seen)
              /\ row.event \in {None} \cup gone \/ (w.pc = "store" /\ row.event = w.event)
        /\ w.pc = "drop" => w.event = None \/ w.event # w.seen.event
        /\ w.pc = "decide" => Agrees(row, w.seen) /\ RowOK(w.seen)

\* What holds of a meeting while no two requests work on it at once.
Good(m, row, w, cal, gone) ==
    /\ RowOK(row) /\ LiveOK(m, row, w, cal, gone) /\ StrayOK(m, row, w, cal, gone)
    /\ TodoOK(m, row, w) /\ HandOK(m, row, w, cal, gone)

\* A meeting two requests have never worked on at once is worked on by one, and good.
AloneInv ==
    \A m \in Meetings \ tangled :
        /\ \A h \in Working(m), o \in Working(m) : h = o
        /\ \A h \in Working(m) : Good(m, meetings[m], call[h], google, lost)
        /\ Working(m) = {} => Good(m, meetings[m], IdleCall, google, lost)

\* The empty request, the empty row and a step's columns are of their types.
LEMMA Empties ==
    /\ IdleCall \in Calls /\ NoMeeting \in Rows
    /\ IdleCall.pc = "idle" /\ IdleCall.kind = "none" /\ IdleCall.todo = {}
    /\ IdleCall.event = None /\ IdleCall.seen = NoMeeting /\ ~IdleCall.force
    /\ NoMeeting.event = None /\ ~NoMeeting.phone /\ ~NoMeeting.link
    /\ NoMeeting.state = "absent"
BY DEF IdleCall, Calls, NoMeeting, Rows

\* The column a body gives, or the one that is there.
LEMMA GivenTyped ==
    ASSUME NEW dto \in CalendarEdits \cup {<<>>}, NEW row \in Rows
    PROVE  /\ Given(dto, "phone", row.phone) \in BOOLEAN /\ Given(dto, "phone", FALSE) \in BOOLEAN
           /\ Given(dto, "active", row.active) \in BOOLEAN
           /\ Given(dto, "date", row.date) \in Dates \cup {None}
<1>1. row.phone \in BOOLEAN /\ row.active \in BOOLEAN /\ row.date \in Dates \cup {None}
  BY DEF Rows
<1>2. CASE dto \in CalendarEdits
  BY <1>1, <1>2, CalendarAssumption DEF Given
<1>3. CASE dto = <<>>
  BY <1>1, <1>3 DEF Given
<1> QED
  BY <1>2, <1>3

\* A patch of a row.
LEMMA PatchTyped ==
    ASSUME NEW dto \in CalendarEdits \cup {<<>>}, NEW row \in Rows
    PROVE  LET new == PatchedRow(row, dto)
           IN  /\ new \in Rows /\ new.state = row.state
               /\ new.phone = Given(dto, "phone", row.phone)
               /\ new.date = Given(dto, "date", row.date)
               /\ new.link = (row.link /\ ~Given(dto, "phone", FALSE))
               /\ new.event = IF Given(dto, "phone", FALSE) THEN None ELSE row.event
               /\ new.sent = IF Moves(dto) THEN {} ELSE row.sent
               /\ new.recent = (row.recent /\ ~Moves(dto))
<1> DEFINE p == Given(dto, "phone", row.phone)
           q == Given(dto, "phone", FALSE)
           a == Given(dto, "active", row.active)
           d == Given(dto, "date", row.date)
<1>1. p \in BOOLEAN /\ q \in BOOLEAN /\ a \in BOOLEAN /\ d \in Dates \cup {None}
  BY GivenTyped
<1>2. PatchedRow(row, dto) =
        [row EXCEPT !.phone = p, !.active = a, !.date = d, !.link = @ /\ ~q,
                    !.event = IF q THEN None ELSE @, !.sent = IF Moves(dto) THEN {} ELSE @,
                    !.recent = @ /\ ~Moves(dto)]
  BY DEF PatchedRow
<1> HIDE DEF p, q, a, d
<1>3. Moves(dto) \in BOOLEAN
  BY DEF Moves
<1> QED
  BY <1>1, <1>2, <1>3 DEF Rows, p, q, d

\* The steps of the requests.
Pcs == {"idle", "google", "patchEvent", "store", "patchRow", "dropOld", "deleteEvent",
        "deleteRow", "drop", "row", "confirm", "reread", "decide", "send", "mark"}

\* A request h is at c next, and no other one moves.
Turns(h, c) == /\ call' \in [Handlers -> Calls] /\ call'[h] = c
               /\ \A o \in Handlers \ {h} : call'[o] = call[o]

\* The same request, on the same meeting.
SameWork(w, c) == /\ c.kind = w.kind /\ c.meeting = w.meeting /\ c.todo = w.todo
                  /\ c.channels = w.channels /\ c.done = w.done /\ c.force = w.force

\* The four ways a request moves on its meeting.
LEMMA ClosesTurns ==
    ASSUME CalendarTypeOK, NEW h \in Handlers, Closes(h) PROVE Turns(h, IdleCall)
BY Empties DEF CalendarTypeOK, Closes, Turns

\* The request goes on to its next step.
LEMMA ProceedsTurns ==
    ASSUME CalendarTypeOK, NEW h \in Handlers, NEW pc \in Pcs, Proceeds(h, pc)
    PROVE  \E c \in Calls : /\ Turns(h, c) /\ SameWork(call[h], c) /\ c.pc = pc
                            /\ c.event = call[h].event /\ c.link = call[h].link
                            /\ c.seen = call[h].seen /\ c.dto = call[h].dto
<1> DEFINE w == call[h]
           c == [w EXCEPT !.pc = pc]
<1>1. w \in Calls /\ call \in [Handlers -> Calls] /\ call' = [call EXCEPT ![h] = c]
  BY DEF CalendarTypeOK, Proceeds
<1> HIDE DEF w
<1>2. /\ c \in Calls /\ SameWork(w, c) /\ c.pc = pc /\ c.event = w.event
      /\ c.link = w.link /\ c.seen = w.seen /\ c.dto = w.dto
  BY <1>1 DEF Calls, Pcs, SameWork
<1> HIDE DEF c
<1>3. Turns(h, c)
  BY <1>1, <1>2 DEF Turns
<1> QED
  BY <1>2, <1>3 DEF w

\* The request is given an event and a link, or neither.
Gets(h, pc, e, link) ==
    call' = [call EXCEPT ![h].pc = pc, ![h].event = e, ![h].link = link]

\* The request is given what Google answered.
LEMMA GetsTurns ==
    ASSUME CalendarTypeOK, NEW h \in Handlers, NEW pc \in Pcs,
           NEW e \in Events \cup {None}, NEW link \in BOOLEAN, Gets(h, pc, e, link)
    PROVE  \E c \in Calls : /\ Turns(h, c) /\ SameWork(call[h], c) /\ c.pc = pc
                            /\ c.event = e /\ c.link = link
                            /\ c.seen = call[h].seen /\ c.dto = call[h].dto
<1> DEFINE w == call[h]
           c == [w EXCEPT !.pc = pc, !.event = e, !.link = link]
<1>1. w \in Calls /\ call \in [Handlers -> Calls] /\ call' = [call EXCEPT ![h] = c]
  BY DEF CalendarTypeOK, Gets
<1> HIDE DEF w
<1>2. /\ c \in Calls /\ SameWork(w, c) /\ c.pc = pc /\ c.event = e
      /\ c.link = link /\ c.seen = w.seen /\ c.dto = w.dto
  <2>1. c \in Calls
    BY <1>1 DEF Calls, Pcs
  <2>2. SameWork(w, c) /\ c.pc = pc /\ c.event = e /\ c.link = link /\ c.seen = w.seen
        /\ c.dto = w.dto
    BY <1>1 DEF Calls, SameWork
  <2> QED
    BY <2>1, <2>2
<1> HIDE DEF c
<1>3. Turns(h, c)
  BY <1>1, <1>2 DEF Turns
<1> QED
  BY <1>2, <1>3 DEF w

\* The request keeps its event, which was patched.
LEMMA LinkedTurns ==
    ASSUME CalendarTypeOK, NEW h \in Handlers,
           call' = [call EXCEPT ![h].pc = "store", ![h].link = TRUE]
    PROVE  \E c \in Calls : /\ Turns(h, c) /\ SameWork(call[h], c) /\ c.pc = "store"
                            /\ c.event = call[h].event /\ c.link
                            /\ c.seen = call[h].seen /\ c.dto = call[h].dto
<1> DEFINE w == call[h]
           c == [w EXCEPT !.pc = "store", !.link = TRUE]
<1>1. w \in Calls /\ call \in [Handlers -> Calls] /\ call' = [call EXCEPT ![h] = c]
  BY DEF CalendarTypeOK
<1> HIDE DEF w
<1>2. /\ c \in Calls /\ SameWork(w, c) /\ c.pc = "store" /\ c.event = w.event
      /\ c.link /\ c.seen = w.seen /\ c.dto = w.dto
  BY <1>1 DEF Calls, SameWork
<1> HIDE DEF c
<1>3. Turns(h, c)
  BY <1>1, <1>2 DEF Turns
<1> QED
  BY <1>2, <1>3 DEF w

----------------------------------------------------------------------------
(* What a request does to its meeting leaves the others alone *)

\* What holds of a meeting goes on holding when neither its row nor its events change
\* and its request, if it has one, does not move on it.
LEMMA GoodElsewhere ==
    ASSUME NEW n \in Meetings, NEW row \in Rows, NEW w \in Calls, NEW v \in Calls,
           NEW cal, NEW cal2, NEW gone \in SUBSET Events, NEW gone2 \in SUBSET Events,
           v = w \/ (~HandOn(n, w) /\ ~HandOn(n, v) /\ v.todo \subseteq w.todo),
           \A e \in Events : cal2[e].meeting = n /\ cal2[e].state = "live" => cal2[e] = cal[e],
           \A e \in Events : cal[e].meeting = n /\ cal[e].state # "free" =>
                                cal2[e] = cal[e] /\ (e \in gone2 => e \in gone),
           gone \subseteq gone2,
           row.event # None => cal[row.event].meeting = n /\ cal[row.event].state # "free",
           HandOn(n, w) /\ w.event # None =>
              cal[w.event].meeting = n /\ cal[w.event].state # "free",
           Good(n, row, w, cal, gone)
    PROVE  Good(n, row, v, cal2, gone2)
<1>1. row.event \in Events \cup {None} /\ w.event \in Events \cup {None}
  BY DEF Rows, Calls
<1>2. LiveOK(n, row, v, cal2, gone2)
  BY <1>1 DEF Good, LiveOK, HandOn, Shows
<1>3. StrayOK(n, row, v, cal2, gone2)
  BY <1>1 DEF Good, StrayOK, HandOn
<1>4. TodoOK(n, row, v)
  BY DEF Good, TodoOK
<1>5. CASE ~HandOn(n, v)
  BY <1>2, <1>3, <1>4, <1>5 DEF Good, HandOK
<1>6. CASE HandOn(n, v) /\ v = w
  <2>1. HandOK(n, row, w, cal, gone) /\ HandOn(n, w)
    BY <1>6 DEF Good
  <2>2. HandOK(n, row, w, cal2, gone2)
    BY <1>1, <2>1 DEF HandOK, Shows
  <2> QED
    BY <1>2, <1>3, <1>4, <1>6, <2>2 DEF Good
<1> QED
  BY <1>5, <1>6

\* A step of a request on meeting m keeps to the row of m and to events that are of m or
\* new.
Within(m) ==
    /\ tangled' = tangled
    /\ \A n \in Meetings \ {m} : meetings'[n] = meetings[n]
    /\ \A e \in Events : \/ google'[e] = google[e]
                         \/ /\ google[e].state = "free" \/ google[e].meeting = m
                            /\ google'[e].state # "free" /\ google'[e].meeting = m
    /\ lost \subseteq lost' /\ \A e \in lost' \ lost : google'[e].meeting = m

\* Types, requests and events: what the calendar is proved from.
CalInv == /\ CalendarTypeOK /\ ShapeInv /\ MadeInv /\ MakerInv /\ OwnInv /\ AloneInv

\* Every step of a request on the meeting it has in hand: what must be shown of it.
LEMMA WorkerStep ==
    ASSUME CalInv, CalendarTypeOK', NEW h \in Handlers, NEW m \in Meetings, NEW c \in Calls,
           Turns(h, c), call[h].pc \notin {"idle", "row"}, call[h].meeting = m,
           c = IdleCall \/ (c.pc # "idle" /\ c.meeting = m), c.todo = call[h].todo,
           Within(m), ShapeOK(c),
           c.kind = "create" => call[h].kind = "create",
           c.kind = "confirm" => call[h].kind \in {"create", "confirm"},
           call[h].kind # "create" \/ c.kind \notin {"none", "create"} =>
              meetings'[m].state # "absent",
           c.kind = "create" => meetings'[m].state = "absent",
           \A e \in {meetings'[m].event, c.event, c.seen.event} :
              e # None => google'[e].meeting = m /\ google'[e].state # "free",
           m \notin tangled => Good(m, meetings'[m], c, google', lost')
    PROVE  CalInv'
<1>1. /\ call[h] \in Calls /\ meetings[m] \in Rows /\ ShapeOK(call[h])
      /\ IdleCall.todo = {} /\ IdleCall.pc = "idle" /\ IdleCall.kind = "none"
      /\ h \in Working(m)
  BY Empties DEF CalInv, CalendarTypeOK, ShapeInv, Working
<1>2. ShapeInv'
  BY DEF Turns, CalInv, ShapeInv, ShapeOK
<1>3. ASSUME NEW o \in Handlers \ {h}, call[h].kind = "create"
      PROVE  ~(call[o].pc \notin {"idle", "row"} /\ call[o].meeting = m)
             /\ \A r \in call[o].todo : r.meeting # m
  BY <1>1, <1>3 DEF CalInv, MadeInv, MadeOK, MakerInv
<1>4. MadeInv'
  <2>1. MadeOK(c)'
    BY <1>1 DEF CalInv, MadeInv, MadeOK, ShapeOK, Within, CalendarTypeOK, Calls
  <2>2. ASSUME NEW o \in Handlers \ {h} PROVE MadeOK(call[o])'
    <3>1. PICK v \in Calls : v = call[o] /\ call'[o] = v /\ MadeOK(v) /\ ShapeOK(v)
      BY DEF Turns, CalInv, MadeInv, ShapeInv, CalendarTypeOK
    <3>2. call[h].kind # "create" => meetings[m].state # "absent" /\ meetings'[m].state # "absent"
      BY <1>1 DEF CalInv, MadeInv, MadeOK
    <3>3. call[h].kind = "create" => ~(v.pc \notin {"idle", "row"} /\ v.meeting = m)
                                    /\ \A r \in v.todo : r.meeting # m
      BY <1>3, <3>1
    <3>4. v.pc \notin {"idle", "row"} => v.meeting \in Meetings
      BY <3>1 DEF ShapeOK
    <3>5. \A r \in v.todo : r.meeting \in Meetings
      BY <3>1 DEF Calls
    <3>6. \A n \in Meetings \ {m} : meetings'[n] = meetings[n]
      BY DEF Within
    <3>7. MadeOK(v)'
      BY <3>1, <3>2, <3>3, <3>4, <3>5, <3>6 DEF MadeOK, ShapeOK
    <3> QED
      BY <3>1, <3>7 DEF MadeOK
  <2> QED
    BY <2>1, <2>2 DEF Turns, MadeInv, MadeOK
<1>5. MakerInv'
  <2>1. ASSUME NEW o \in Handlers \ {h}, c.kind \in {"create", "confirm"}, call[o].kind = c.kind,
               call[o].meeting = c.meeting
        PROVE  FALSE
    <3>1. call[o].pc \notin {"idle", "row"} /\ call[o].meeting = m
      BY <1>1, <2>1 DEF CalInv, ShapeInv, ShapeOK
    <3>2. CASE call[h].kind = c.kind
      BY <2>1, <3>1, <3>2 DEF CalInv, MakerInv
    <3>3. CASE call[h].kind = "create"
      BY <1>3, <3>1, <3>3
    <3> QED
      BY <2>1, <3>2, <3>3
  <2> QED
    BY <2>1 DEF Turns, CalInv, MakerInv
<1>6. OwnInv'
  <2>1. ASSUME NEW k, NEW e, Owned(k, e), e = None \/ e \in Events
        PROVE  e # None => google'[e].meeting = k /\ google'[e].state # "free"
    BY <2>1 DEF Owned, Within
  <2>2. \A n \in Meetings : Owned(n, meetings[n].event)'
    <3>1. ASSUME NEW n \in Meetings \ {m}
          PROVE  /\ meetings'[n] = meetings[n] /\ Owned(n, meetings[n].event)
                 /\ meetings[n].event \in Events \cup {None}
      BY DEF CalInv, OwnInv, Within, CalendarTypeOK, Rows
    <3> QED
      BY <2>1, <3>1 DEF Owned
  <2>3. ASSUME NEW o \in Handlers PROVE HoldsOwn(call[o])'
    <3>1. call[o] \in Calls /\ HoldsOwn(call[o])
      BY DEF CalInv, OwnInv, CalendarTypeOK
    <3>2. \A r \in call[o].todo : Owned(r.meeting, r.row.event)'
      BY <2>1, <3>1 DEF HoldsOwn, Calls, Rows, Owned
    <3>3. CASE o # h
      <4>1. call'[o] = call[o] /\ call[o].event \in Events \cup {None}
            /\ call[o].seen.event \in Events \cup {None}
        BY <3>1, <3>3 DEF Turns, Calls, Rows
      <4>2. Owned(call[o].meeting, call[o].event) /\ Owned(call[o].meeting, call[o].seen.event)
        BY <3>1 DEF HoldsOwn
      <4>3. Owned(call[o].meeting, call[o].event)'
        BY <2>1, <4>1, <4>2 DEF Owned
      <4>4. Owned(call[o].meeting, call[o].seen.event)'
        BY <2>1, <4>1, <4>2 DEF Owned
      <4> QED
        BY <3>2, <4>1, <4>3, <4>4 DEF HoldsOwn
    <3>4. CASE o = h /\ c # IdleCall
      BY <3>2, <3>4 DEF HoldsOwn, Turns, Owned
    <3>5. CASE o = h /\ c = IdleCall
      BY <3>5, Empties DEF HoldsOwn, Turns, Owned
    <3> QED
      BY <3>3, <3>4, <3>5
  <2>4. \A e \in Events : google'[e].state # "free" => google'[e].meeting \in Meetings
    BY DEF Within, CalInv, OwnInv
  <2> QED
    BY <2>2, <2>3, <2>4 DEF OwnInv
<1>7. AloneInv'
  <2>1. ASSUME NEW n \in Meetings \ tangled, NEW o \in Handlers PROVE
          /\ o # h => (o \in Working(n)' <=> o \in Working(n))
          /\ n # m => (o \in Working(n)' <=> o \in Working(n))
          /\ h \in Working(m)' <=> c # IdleCall
    BY <1>1 DEF Turns, Working, ShapeOK
  <2>2. ASSUME NEW n \in Meetings \ tangled, n # m, NEW w \in Calls, NEW v \in Calls,
               Good(n, meetings[n], w, google, lost), HandOn(n, w) => HoldsOwn(w),
               v = w \/ (~HandOn(n, w) /\ ~HandOn(n, v) /\ v.todo \subseteq w.todo)
        PROVE  Good(n, meetings'[n], v, google', lost')
    <3>1. meetings'[n] = meetings[n] /\ meetings[n] \in Rows /\ lost \subseteq Events
          /\ lost' \subseteq Events
      BY <2>2 DEF Within, CalInv, CalendarTypeOK
    <3>2. Owned(n, meetings[n].event)
      BY DEF CalInv, OwnInv
    <3>3. HandOn(n, w) => Owned(n, w.event)
      BY <2>2 DEF HoldsOwn, HandOn
    <3>4. /\ \A e \in Events : google'[e].meeting = n /\ google'[e].state = "live" =>
                                google'[e] = google[e]
          /\ \A e \in Events : google[e].meeting = n /\ google[e].state # "free" =>
                                google'[e] = google[e] /\ (e \in lost' => e \in lost)
      BY <2>2 DEF Within
    <3> DEFINE row == meetings[n]
               cal == google
               cal2 == google'
               gone == lost
               gone2 == lost'
    <3>5. Good(n, row, w, cal, gone) /\ gone \subseteq gone2
      BY <2>2 DEF Within
    <3> HIDE DEF row, cal, cal2, gone, gone2
    <3>6. Good(n, row, v, cal2, gone2)
      BY <2>2, <3>1, <3>2, <3>3, <3>4, <3>5, GoodElsewhere DEF Owned, row, cal, cal2, gone,
         gone2
    <3> QED
      BY <3>1, <3>6 DEF row, cal2, gone2
  <2>3. ASSUME NEW n \in Meetings \ tangled, n # m
        PROVE  /\ \A a \in Working(n)', b \in Working(n)' : a = b
               /\ \A o \in Working(n)' : Good(n, meetings'[n], call'[o], google', lost')
               /\ Working(n)' = {} => Good(n, meetings'[n], IdleCall, google', lost')
    <3>1. Working(n)' = Working(n)
      BY <2>1, <2>3 DEF Working
    <3>2. ASSUME NEW o \in Working(n) PROVE Good(n, meetings'[n], call'[o], google', lost')
      <4>1. o \in Handlers /\ call[o] \in Calls /\ call'[o] \in Calls /\ HoldsOwn(call[o])
        BY DEF Working, CalInv, CalendarTypeOK, OwnInv, Turns
      <4>2. \/ call'[o] = call[o]
            \/ /\ ~HandOn(n, call[o]) /\ ~HandOn(n, call'[o])
               /\ call'[o].todo \subseteq call[o].todo
        BY <1>1, <2>3, <4>1 DEF HandOn, Turns
      <4>3. Good(n, meetings[n], call[o], google, lost)
        BY <2>3 DEF CalInv, AloneInv
      <4> QED
        BY <2>2, <2>3, <4>1, <4>2, <4>3
    <3>3. ASSUME Working(n) = {} PROVE Good(n, meetings'[n], IdleCall, google', lost')
      BY <2>2, <2>3, <3>3, Empties DEF CalInv, AloneInv, HandOn
    <3> QED
      BY <2>3, <3>1, <3>2, <3>3 DEF CalInv, AloneInv
  <2>4. ASSUME m \notin tangled
        PROVE  /\ \A a \in Working(m)', b \in Working(m)' : a = b
               /\ \A o \in Working(m)' : Good(m, meetings'[m], call'[o], google', lost')
               /\ Working(m)' = {} => Good(m, meetings'[m], IdleCall, google', lost')
    <3>1. \A o \in Working(m) : o = h
      BY <1>1, <2>4 DEF CalInv, AloneInv
    <3>2. \A o \in Working(m)' : o = h
      BY <2>1, <2>4, <3>1 DEF Working
    <3>3. c = IdleCall <=> Working(m)' = {}
      BY <2>1, <2>4, <3>2
    <3> QED
      BY <2>4, <3>2, <3>3 DEF Turns
  <2> QED
    BY <2>3, <2>4 DEF AloneInv, Within
<1> QED
  BY <1>2, <1>4, <1>5, <1>6, <1>7 DEF CalInv

\* A request that starts on a meeting.
LEMMA StartStep ==
    ASSUME CalInv, CalendarTypeOK', NEW h \in Handlers, NEW m \in Meetings, NEW c \in Calls,
           Turns(h, c), call[h].pc = "idle", c.pc \notin {"idle", "row"}, c.meeting = m,
           c.todo = {}, UNCHANGED <<meetings, google, lost>>,
           tangled' = IF Working(m) = {} THEN tangled ELSE tangled \cup {m},
           ShapeOK(c), Owned(m, c.event), Owned(m, c.seen.event),
           meetings[m].state = "absent" <=> c.kind = "create",
           c.kind = "create" => Working(m) = {}, c.kind # "confirm",
           RowOK(meetings[m]) => HandOK(m, meetings[m], c, google, lost)
    PROVE  CalInv'
<1>1. /\ call[h] \in Calls /\ ShapeOK(call[h]) /\ call[h].todo = {}
  BY DEF CalInv, CalendarTypeOK, ShapeInv, ShapeOK
<1>2. ShapeInv' /\ MadeInv'
  BY DEF Turns, CalInv, ShapeInv, ShapeOK, MadeInv, MadeOK
<1>3. MakerInv'
  <2>1. ASSUME NEW o \in Handlers \ {h}, c.kind = "create", call[o].kind = "create",
               call[o].meeting = m
        PROVE  FALSE
    BY <2>1 DEF CalInv, ShapeInv, ShapeOK, Working
  <2> QED
    BY <2>1 DEF Turns, CalInv, MakerInv
<1>4. OwnInv'
  BY DEF Turns, CalInv, OwnInv, HoldsOwn, Owned
<1>5. AloneInv'
  <2>1. ASSUME NEW n \in Meetings, NEW o \in Handlers PROVE
          /\ o # h => (o \in Working(n)' <=> o \in Working(n))
          /\ h \in Working(n)' <=> n = m
          /\ h \notin Working(n)
    BY <1>1 DEF Turns, Working
  <2>2. ASSUME NEW n \in Meetings \ tangled', n # m
        PROVE  /\ \A a \in Working(n)', b \in Working(n)' : a = b
               /\ \A o \in Working(n)' : Good(n, meetings'[n], call'[o], google', lost')
               /\ Working(n)' = {} => Good(n, meetings'[n], IdleCall, google', lost')
    <3>1. n \in Meetings \ tangled
      OBVIOUS
    <3>2. Working(n)' = Working(n) /\ \A o \in Working(n) : call'[o] = call[o]
      BY <2>1, <2>2 DEF Working, Turns
    <3> QED
      BY <3>1, <3>2 DEF CalInv, AloneInv
  <2>3. ASSUME m \notin tangled'
        PROVE  /\ \A a \in Working(m)', b \in Working(m)' : a = b
               /\ \A o \in Working(m)' : Good(m, meetings'[m], call'[o], google', lost')
               /\ Working(m)' # {}
    <3>1. Working(m) = {} /\ m \notin tangled
      BY <2>3
    <3>2. Good(m, meetings[m], IdleCall, google, lost)
      BY <3>1 DEF CalInv, AloneInv
    <3>3. Good(m, meetings[m], c, google, lost)
      BY <3>2, Empties DEF Good, LiveOK, StrayOK, TodoOK, HandOn
    <3>4. \A o \in Working(m)' : o = h
      BY <2>1, <3>1 DEF Working
    <3>5. h \in Working(m)'
      BY <2>1
    <3> QED
      BY <3>3, <3>4, <3>5 DEF Turns
  <2> QED
    BY <2>2, <2>3 DEF AloneInv
<1> QED
  BY <1>2, <1>3, <1>4, <1>5 DEF CalInv

----------------------------------------------------------------------------
(* Each step of a request on its meeting *)

\* What google ranges over.
Calendar == [Events -> [state : {"free", "live", "removed"},
                        meeting : Meetings \cup {None}, date : Dates \cup {None}]]

\* A request at work, with its meeting, the row there is and the row it read.
AtHand(h, w, m, row, seen) ==
    /\ w = call[h] /\ m = w.meeting /\ row = meetings[m] /\ seen = w.seen
    /\ w.event \in Events \cup {None} /\ seen.event \in Events \cup {None}
    /\ row.event \in Events \cup {None}
    /\ ShapeOK(w) /\ MadeOK(w) /\ HandOn(m, w)
    /\ Owned(m, w.event) /\ Owned(m, seen.event) /\ Owned(m, row.event)
    /\ m \notin tangled => Good(m, row, w, google, lost)
    /\ google \in Calendar /\ lost \subseteq Events

\* A request under way has a meeting, a row that it read, and what AtHand says.
LEMMA AtWork ==
    ASSUME CalInv, NEW h \in Handlers, call[h].pc \notin {"idle", "row"}
    PROVE  \E w \in Calls, m \in Meetings, row \in Rows, seen \in Rows : AtHand(h, w, m, row, seen)
<1>1. PICK w \in Calls : w = call[h] /\ ShapeOK(w)
  BY DEF CalInv, CalendarTypeOK, ShapeInv
<1>2. PICK m \in Meetings, seen \in Rows : m = w.meeting /\ seen = w.seen
  BY <1>1 DEF ShapeOK, Calls
<1>3. PICK row \in Rows : row = meetings[m]
  BY DEF CalInv, CalendarTypeOK
<1>4. /\ w.event \in Events \cup {None} /\ seen.event \in Events \cup {None}
      /\ row.event \in Events \cup {None}
  BY DEF Calls, Rows
<1>5. /\ MadeOK(w) /\ Owned(m, w.event) /\ Owned(m, seen.event) /\ Owned(m, row.event)
  BY <1>1, <1>2, <1>3 DEF CalInv, MadeInv, OwnInv, HoldsOwn
<1>6. h \in Working(m) /\ HandOn(m, w)
  BY <1>1, <1>2 DEF Working, HandOn
<1>7. m \notin tangled => Good(m, row, w, google, lost)
  BY <1>1, <1>3, <1>6 DEF CalInv, AloneInv
<1>8. google \in Calendar /\ lost \subseteq Events
  BY DEF CalInv, CalendarTypeOK, Calendar
<1>9. AtHand(h, w, m, row, seen)
  BY <1>1, <1>2, <1>3, <1>4, <1>5, <1>6, <1>7, <1>8 DEF AtHand
<1> QED
  BY <1>9

\* A request that ends.
LEMMA EndStep ==
    ASSUME CalInv, CalendarTypeOK', NEW h \in Handlers, NEW m \in Meetings,
           NEW w \in Calls, NEW row \in Rows, NEW seen \in Rows, AtHand(h, w, m, row, seen),
           call[h].pc \notin {"idle", "row"}, Closes(h), w.todo = {}, Within(m),
           w.kind # "create" => meetings'[m].state # "absent",
           meetings'[m].event # None => google'[meetings'[m].event].meeting = m
                                        /\ google'[meetings'[m].event].state # "free",
           m \notin tangled => /\ RowOK(meetings'[m])
                               /\ LiveOK(m, meetings'[m], IdleCall, google', lost')
                               /\ StrayOK(m, meetings'[m], IdleCall, google', lost')
    PROVE  CalInv'
<1>1. Turns(h, IdleCall)
  BY ClosesTurns DEF CalInv
<1>2. ShapeOK(IdleCall)
  BY Empties DEF ShapeOK
<1>3. m \notin tangled => Good(m, meetings'[m], IdleCall, google', lost')
  BY Empties DEF Good, TodoOK, HandOK, HandOn
<1>4. w = call[h] /\ call[h].meeting = m
  BY DEF AtHand
<1> QED
  BY <1>1, <1>2, <1>3, <1>4, Empties, WorkerStep

\* deleteEvent: the event is gone, or lost.
LEMMA Deleted ==
    ASSUME CalInv, NEW e \in Events, DeletesEvent(e)
    PROVE  /\ google' \in Calendar /\ lost \subseteq lost' /\ lost' \subseteq lost \cup {e}
           /\ \A f \in Events \ {e} : google'[f] = google[f]
           /\ google'[e].meeting = google[e].meeting /\ google'[e].date = google[e].date
           /\ \/ google'[e].state = "removed"
              \/ google'[e] = google[e] /\ e \in lost'
<1>1. google \in Calendar /\ lost \subseteq Events
  BY DEF CalInv, CalendarTypeOK, Calendar
<1>2. CASE google' = [google EXCEPT ![e].state = "removed"] /\ lost' = lost
  BY <1>1, <1>2 DEF Calendar
<1>3. CASE lost' = lost \cup {e} /\ google' = google
  BY <1>1, <1>3
<1> QED
  BY <1>2, <1>3 DEF DeletesEvent

\* An event Google gives is one that was free.
LEMMA NewEventFree == \A e \in NewEvent : e \in Events /\ google[e].state = "free"
<1> DEFINE free == {e \in Events : google[e].state = "free"}
<1>1. free # {} => AnyOf(free) \in free
  BY DEF AnyOf
<1> QED
  BY <1>1 DEF NewEvent

\* What the three answers of Google have in common: at most one event is new, and the
\* request holds it with a link, or it is lost.
Answered(h, c, e, seen, m) ==
    /\ Turns(h, c) /\ c.event = e
    /\ e # None => c.link
    /\ google' \in Calendar /\ lost \subseteq lost' /\ lost' \subseteq Events
    /\ \A f \in Events :
          \/ google'[f] = google[f] /\ (f \in lost' => f \in lost)
          \/ /\ google[f].state = "free" /\ google'[f].state = "live"
             /\ google'[f].meeting = m /\ google'[f].date = seen.date
             /\ f = e \/ f \in lost'
    /\ e # None => google[e].state = "free" /\ google'[e].state = "live"

\* Each of the three answers is one of them.
LEMMA GoogleAnswers ==
    ASSUME CalInv, NEW h \in Handlers, NEW next \in {"drop", "store"}, call[h].pc = "google",
           Conference(h, next) \/ Unreadable(h, next) \/ NoCalendar(h, next)
    PROVE  \E c \in Calls, e \in Events \cup {None} :
              /\ Answered(h, c, e, call[h].seen, call[h].meeting)
              /\ SameWork(call[h], c) /\ c.pc = next /\ c.seen = call[h].seen
              /\ c.dto = call[h].dto
<1>1. PICK w \in Calls, m \in Meetings, seen \in Rows :
        w = call[h] /\ m = w.meeting /\ seen = w.seen
  BY AtWork DEF AtHand
<1>2. next \in Pcs /\ CalendarTypeOK /\ google \in Calendar /\ lost \subseteq Events
  BY DEF Pcs, CalInv, CalendarTypeOK, Calendar
<1>3. ASSUME NEW e \in NewEvent, google' = [google EXCEPT ![e] = Shown(h)]
      PROVE  /\ e \in Events /\ google' \in Calendar
             /\ google[e].state = "free" /\ google'[e].state = "live"
             /\ google'[e].meeting = m /\ google'[e].date = seen.date
             /\ \A f \in Events \ {e} : google'[f] = google[f]
  <2>1. e \in Events /\ google[e].state = "free"
    BY NewEventFree
  <2> QED
    BY <1>1, <1>2, <1>3, <2>1 DEF Shown, Calendar, Rows
<1>4. CASE Conference(h, next)
  <2>1. PICK e \in Events \cup {None}, link \in BOOLEAN :
          /\ e \in NewEvent /\ google' = [google EXCEPT ![e] = Shown(h)]
          /\ link = TRUE /\ Gets(h, next, e, link)
    BY <1>4, NewEventFree DEF Conference, Gets
  <2>2. lost' = lost
    BY <1>4 DEF Conference
  <2>3. PICK c \in Calls : /\ Turns(h, c) /\ SameWork(call[h], c) /\ c.pc = next /\ c.event = e
                           /\ c.link = link /\ c.seen = call[h].seen /\ c.dto = call[h].dto
    <3>1. Gets(h, next, e, link)
      BY <2>1
    <3> QED
      BY <1>2, <3>1, GetsTurns
  <2>4. Answered(h, c, e, seen, m)
    BY <1>2, <1>3, <2>1, <2>2, <2>3 DEF Answered
  <2> QED
    BY <1>1, <2>1, <2>3, <2>4
<1>5. CASE Unreadable(h, next)
  <2>1. PICK e \in NewEvent, link \in BOOLEAN :
          /\ google' = [google EXCEPT ![e] = Shown(h)] /\ lost' = lost \cup {e}
          /\ Gets(h, next, None, link)
    BY <1>5 DEF Unreadable, Gets
  <2>2. PICK c \in Calls : /\ Turns(h, c) /\ SameWork(call[h], c) /\ c.pc = next
                           /\ c.event = None
                           /\ c.link = link /\ c.seen = call[h].seen /\ c.dto = call[h].dto
    BY <1>2, <2>1, GetsTurns
  <2>3. Answered(h, c, None, seen, m)
    BY <1>2, <1>3, <2>1, <2>2 DEF Answered
  <2> QED
    BY <1>1, <2>2, <2>3
<1>6. CASE NoCalendar(h, next)
  <2>1. PICK link \in BOOLEAN :
          Gets(h, next, None, link)
    BY <1>6 DEF NoCalendar, Gets
  <2>2. PICK c \in Calls : /\ Turns(h, c) /\ SameWork(call[h], c) /\ c.pc = next
                           /\ c.event = None
                           /\ c.link = link /\ c.seen = call[h].seen /\ c.dto = call[h].dto
    BY <1>2, <2>1, GetsTurns
  <2>3. Answered(h, c, None, seen, m)
    BY <1>2, <1>6, <2>2 DEF Answered, NoCalendar
  <2> QED
    BY <1>1, <2>2, <2>3
<1> QED
  BY <1>4, <1>5, <1>6

\* A request that asked Google holds a new event, or none: what it had is lost.
LEMMA AskGoogleStep == ASSUME CalInv, NEW h \in Handlers, AskGoogle(h) PROVE CalInv'
<1>1. call[h].pc = "google"
  BY DEF AskGoogle
<1>2. PICK w \in Calls, m \in Meetings, row \in Rows, seen \in Rows :
        AtHand(h, w, m, row, seen)
  BY <1>1, AtWork
<1>3. /\ w = call[h] /\ m = w.meeting /\ row = meetings[m] /\ seen = w.seen
      /\ w.pc = "google" /\ ShapeOK(w) /\ MadeOK(w)
  BY <1>1, <1>2 DEF AtHand
<1>4. UNCHANGED <<meetings, blocked, inFlight, told, tangled, unseen>>
  BY DEF AskGoogle
<1>5. PICK next \in {"drop", "store"} :
        /\ next = IF w.kind = "regenerate" THEN "drop" ELSE "store"
        /\ Conference(h, next) \/ Unreadable(h, next) \/ NoCalendar(h, next)
  BY <1>3 DEF AskGoogle
<1>6. PICK c \in Calls, e \in Events \cup {None} :
        Answered(h, c, e, seen, m) /\ SameWork(w, c) /\ c.pc = next /\ c.seen = seen
  BY <1>1, <1>3, <1>5, GoogleAnswers
<1>7. CalendarTypeOK'
  BY <1>4, <1>6 DEF CalInv, CalendarTypeOK, Calendar, Turns, Answered
<1>8. Within(m)
  BY <1>4, <1>6 DEF Within, Answered, Calendar
<1>9. ShapeOK(c) /\ c.pc # "idle" /\ c.meeting = m /\ c.todo = w.todo
  BY <1>3, <1>5, <1>6 DEF ShapeOK, SameWork
<1>10. ASSUME m \notin tangled PROVE Good(m, row, c, google', lost')
  <2>1. Good(m, row, w, google, lost) /\ HandOK(m, row, w, google, lost)
    BY <1>2, <1>10 DEF Good, AtHand
  <2>2. /\ ~seen.phone /\ row.event \in {None} \cup lost
        /\ w.kind # "create" => Agrees(row, seen)
    BY <1>2, <1>3, <2>1 DEF HandOK, AtHand
  <2>3. HandOK(m, row, c, google', lost')
    BY <1>2, <1>3, <1>5, <1>6, <2>2, CalendarAssumption
    DEF HandOK, SameWork, Shows, Owned, Answered, AtHand
  <2>4. StrayOK(m, row, c, google', lost')
    BY <1>2, <1>3, <1>5, <1>6, <1>9, <2>1, <2>2, CalendarAssumption
    DEF Good, StrayOK, HandOn, Answered, AtHand
  <2>5. LiveOK(m, row, c, google', lost') /\ TodoOK(m, row, c) /\ RowOK(row)
    BY <1>6, <2>1, <2>2 DEF Good, LiveOK, TodoOK, SameWork, Answered
  <2> QED
    BY <2>3, <2>4, <2>5 DEF Good
<1>11. \A f \in {row.event, c.event, c.seen.event} :
           f # None => google'[f].meeting = m /\ google'[f].state # "free"
  BY <1>2, <1>3, <1>6 DEF Owned, Answered, AtHand
<1> QED
  BY <1>1, <1>2, <1>3, <1>4, <1>6, <1>7, <1>8, <1>9, <1>10, <1>11, WorkerStep
  DEF MadeOK, SameWork, Answered

\* A request whose event was patched, or lost.
LEMMA PatchEventStep == ASSUME CalInv, NEW h \in Handlers, PatchEvent(h) PROVE CalInv'
<1>1. call[h].pc = "patchEvent"
  BY DEF PatchEvent
<1>2. PICK w \in Calls, m \in Meetings, row \in Rows, seen \in Rows :
        AtHand(h, w, m, row, seen)
  BY <1>1, AtWork
<1>3. /\ w = call[h] /\ m = w.meeting /\ row = meetings[m] /\ seen = w.seen
      /\ w.pc = "patchEvent" /\ ShapeOK(w) /\ MadeOK(w) /\ w.kind \in {"update", "regenerate"}
      /\ w.todo = {} /\ w.event \in Events /\ row.state # "absent"
      /\ google \in Calendar /\ lost \subseteq Events /\ row.event \in Events \cup {None}
  BY <1>1, <1>2 DEF AtHand, ShapeOK, MadeOK, Calls
<1>4. UNCHANGED <<meetings, blocked, inFlight, told, tangled, unseen>>
  BY DEF PatchEvent
<1>5. ASSUME m \notin tangled
      PROVE  /\ Good(m, row, w, google, lost)
             /\ Agrees(row, seen) /\ w.event = row.event /\ ~row.phone
  BY <1>2, <1>3, <1>5 DEF AtHand, Good, HandOK
<1>6. CASE /\ Live(w.event) /\ google' = [google EXCEPT ![w.event].date = seen.date]
           /\ lost' = lost
           /\ IF w.kind = "regenerate"
              THEN call' = [call EXCEPT ![h].pc = "store", ![h].link = TRUE] ELSE Closes(h)
  <2>1. /\ google' \in Calendar /\ google'[w.event].meeting = m
        /\ google'[w.event].state = "live" /\ google'[w.event].date = seen.date
        /\ \A f \in Events \ {w.event} : google'[f] = google[f]
        /\ \A f \in Events : google'[f].meeting = google[f].meeting
                             /\ google'[f].state = google[f].state
    <3>1. google[w.event].meeting = m /\ google[w.event].state = "live"
      BY <1>2, <1>3, <1>6, CalendarAssumption DEF AtHand, Owned, Live
    <3> QED
      BY <1>3, <1>6, <3>1 DEF Calendar, Rows
  <2>2. Within(m)
    BY <1>3, <1>4, <1>6, <2>1 DEF Within, Calendar
  <2>3. ASSUME m \notin tangled
        PROVE  /\ RowOK(row) /\ TodoOK(m, row, w)
               /\ \A v \in Calls : LiveOK(m, row, v, google', lost')
               /\ \A v \in Calls : StrayOK(m, row, v, google', lost')
    BY <1>3, <1>5, <1>6, <2>1, <2>3 DEF Good, LiveOK, StrayOK, Agrees, Shows
  <2>4. row.event # None => google'[row.event].meeting = m /\ google'[row.event].state # "free"
    BY <1>2, <1>3, <2>1 DEF AtHand, Owned
  <2>5. CASE w.kind # "regenerate" /\ Closes(h)
    <3>1. CalendarTypeOK'
      BY <1>4, <1>6, <2>1, <2>5, ClosesTurns, Empties
      DEF CalInv, CalendarTypeOK, Calendar, Turns
    <3> QED
      BY <1>1, <1>2, <1>3, <1>4, <2>2, <2>3, <2>4, <2>5, <3>1, Empties, EndStep
  <2>6. CASE w.kind = "regenerate" /\ call' = [call EXCEPT ![h].pc = "store", ![h].link = TRUE]
    <3>1. PICK c \in Calls : /\ Turns(h, c) /\ SameWork(w, c) /\ c.pc = "store"
                             /\ c.event = w.event /\ c.link /\ c.seen = seen
      BY <1>3, <2>6, LinkedTurns DEF CalInv
    <3>2. CalendarTypeOK'
      BY <1>4, <1>6, <2>1, <3>1 DEF CalInv, CalendarTypeOK, Calendar, Turns
    <3>3. ShapeOK(c) /\ c.pc # "idle" /\ c.meeting = m /\ c.todo = w.todo
      BY <1>3, <2>6, <3>1 DEF ShapeOK, SameWork
    <3>4. m \notin tangled => HandOK(m, row, c, google', lost')
      BY <1>3, <1>5, <1>6, <2>1, <2>6, <3>1 DEF HandOK, Agrees, Shows, SameWork
    <3>5. m \notin tangled => Good(m, row, c, google', lost')
      BY <1>3, <2>3, <3>1, <3>4 DEF Good, TodoOK, SameWork
    <3>6. \A f \in {row.event, c.event, c.seen.event} :
              f # None => google'[f].meeting = m /\ google'[f].state # "free"
      BY <1>2, <1>3, <2>1, <3>1, <2>4 DEF AtHand, Owned
    <3> QED
      BY <1>1, <1>2, <1>3, <1>4, <2>2, <2>6, <3>1, <3>2, <3>3, <3>5, <3>6, WorkerStep
      DEF SameWork
  <2> QED
    BY <1>6, <2>5, <2>6
<1>7. CASE /\ IF w.kind = "regenerate" THEN Proceeds(h, "google") ELSE Closes(h)
           /\ lost' = lost \cup {w.event} /\ google' = google
  <2>1. Within(m)
    BY <1>2, <1>3, <1>4, <1>7, CalendarAssumption DEF Within, AtHand, Owned
  <2>2. ASSUME m \notin tangled
        PROVE  /\ RowOK(row) /\ TodoOK(m, row, w)
               /\ \A v \in Calls : LiveOK(m, row, v, google', lost')
               /\ \A v \in Calls : StrayOK(m, row, v, google', lost')
    BY <1>3, <1>5, <1>7, <2>2 DEF Good, LiveOK, StrayOK
  <2>3. row.event # None => google'[row.event].meeting = m /\ google'[row.event].state # "free"
    BY <1>2, <1>3, <1>7 DEF AtHand, Owned
  <2>4. CASE w.kind # "regenerate" /\ Closes(h)
    <3>1. CalendarTypeOK'
      BY <1>3, <1>4, <1>7, <2>4, ClosesTurns, Empties
      DEF CalInv, CalendarTypeOK, Calendar, Turns
    <3> QED
      BY <1>1, <1>2, <1>3, <1>4, <2>1, <2>2, <2>3, <2>4, <3>1, Empties, EndStep
  <2>5. CASE w.kind = "regenerate" /\ Proceeds(h, "google")
    <3>1. PICK c \in Calls : /\ Turns(h, c) /\ SameWork(w, c) /\ c.pc = "google"
                             /\ c.event = w.event /\ c.seen = seen
      BY <1>3, <2>5, ProceedsTurns DEF CalInv, Pcs
    <3>2. CalendarTypeOK'
      BY <1>3, <1>4, <1>7, <3>1 DEF CalInv, CalendarTypeOK, Calendar, Turns
    <3>3. ShapeOK(c) /\ c.pc # "idle" /\ c.meeting = m /\ c.todo = w.todo
      BY <1>3, <2>5, <3>1 DEF ShapeOK, SameWork
    <3>4. m \notin tangled => HandOK(m, row, c, google', lost')
      BY <1>3, <1>5, <1>7, <2>5, <3>1 DEF HandOK, Agrees, Shows, SameWork
    <3>5. m \notin tangled => Good(m, row, c, google', lost')
      BY <1>3, <2>2, <3>1, <3>4 DEF Good, TodoOK, SameWork
    <3>6. \A f \in {row.event, c.event, c.seen.event} :
              f # None => google'[f].meeting = m /\ google'[f].state # "free"
      BY <1>2, <1>3, <1>7, <3>1, <2>3 DEF AtHand, Owned
    <3> QED
      BY <1>1, <1>2, <1>3, <1>4, <2>1, <2>5, <3>1, <3>2, <3>3, <3>5, <3>6, WorkerStep
      DEF SameWork
  <2> QED
    BY <1>7, <2>4, <2>5
<1> QED
  BY <1>3, <1>6, <1>7 DEF PatchEvent

\* A request that deletes the event of a row that lost it.
LEMMA DropOldStep == ASSUME CalInv, NEW h \in Handlers, DropOld(h) PROVE CalInv'
<1>1. call[h].pc = "dropOld"
  BY DEF DropOld
<1>2. PICK w \in Calls, m \in Meetings, row \in Rows, seen \in Rows :
        AtHand(h, w, m, row, seen)
  BY <1>1, AtWork
<1>3. /\ w = call[h] /\ m = w.meeting /\ row = meetings[m]
      /\ w.pc = "dropOld" /\ ShapeOK(w) /\ MadeOK(w) /\ w.kind = "update"
      /\ w.todo = {} /\ w.event \in Events /\ row.state # "absent"
      /\ row.event \in Events \cup {None}
  BY <1>1, <1>2 DEF AtHand, ShapeOK, MadeOK, Calls
<1>4. /\ UNCHANGED <<meetings, blocked, inFlight, told, tangled, unseen>> /\ Closes(h)
      /\ DeletesEvent(w.event)
  BY <1>3 DEF DropOld
<1>5. /\ google' \in Calendar /\ lost \subseteq lost' /\ lost' \subseteq lost \cup {w.event}
      /\ \A f \in Events \ {w.event} : google'[f] = google[f]
      /\ google'[w.event].meeting = m
      /\ \/ google'[w.event].state = "removed"
         \/ google'[w.event] = google[w.event] /\ w.event \in lost'
      /\ google[w.event].meeting = m /\ google[w.event].state # "free"
  BY <1>2, <1>3, <1>4, Deleted, CalendarAssumption DEF AtHand, Owned
<1>6. Within(m)
  BY <1>3, <1>4, <1>5 DEF Within, Calendar
<1>7. CalendarTypeOK'
  BY <1>3, <1>4, <1>5, ClosesTurns, Empties DEF CalInv, CalendarTypeOK, Calendar, Turns
<1>8. ASSUME m \notin tangled
      PROVE  /\ RowOK(row) /\ LiveOK(m, row, IdleCall, google', lost')
             /\ StrayOK(m, row, IdleCall, google', lost')
  <2>1. Good(m, row, w, google, lost) /\ row.event = None
    BY <1>2, <1>3, <1>8 DEF AtHand, Good, HandOK
  <2> QED
    BY <1>3, <1>5, <2>1 DEF Good, LiveOK, StrayOK
<1>9. row.event # None => google'[row.event].meeting = m /\ google'[row.event].state # "free"
  BY <1>2, <1>3, <1>5 DEF AtHand, Owned
<1> QED
  BY <1>1, <1>2, <1>3, <1>4, <1>6, <1>7, <1>8, <1>9, EndStep

\* remove: the event goes, the row follows.
LEMMA RemoveEventStep == ASSUME CalInv, NEW h \in Handlers, RemoveEvent(h) PROVE CalInv'
<1>1. call[h].pc = "deleteEvent"
  BY DEF RemoveEvent
<1>2. PICK w \in Calls, m \in Meetings, row \in Rows, seen \in Rows :
        AtHand(h, w, m, row, seen)
  BY <1>1, AtWork
<1>3. /\ w = call[h] /\ m = w.meeting /\ row = meetings[m] /\ seen = w.seen
      /\ w.pc = "deleteEvent" /\ ShapeOK(w) /\ MadeOK(w) /\ w.kind = "remove"
      /\ w.todo = {} /\ w.event \in Events /\ row.state # "absent"
      /\ row.event \in Events \cup {None}
  BY <1>1, <1>2 DEF AtHand, ShapeOK, MadeOK, Calls
<1>4. /\ UNCHANGED <<meetings, blocked, inFlight, told, tangled, unseen>>
      /\ DeletesEvent(w.event) /\ Proceeds(h, "deleteRow")
  BY <1>3 DEF RemoveEvent
<1>5. /\ google' \in Calendar /\ lost \subseteq lost' /\ lost' \subseteq lost \cup {w.event}
      /\ \A f \in Events \ {w.event} : google'[f] = google[f]
      /\ google'[w.event].meeting = m
      /\ \/ google'[w.event].state = "removed"
         \/ google'[w.event] = google[w.event] /\ w.event \in lost'
      /\ google[w.event].meeting = m /\ google[w.event].state # "free"
  BY <1>2, <1>3, <1>4, Deleted, CalendarAssumption DEF AtHand, Owned
<1>6. Within(m)
  BY <1>3, <1>4, <1>5 DEF Within, Calendar
<1>7. PICK c \in Calls : /\ Turns(h, c) /\ SameWork(w, c) /\ c.pc = "deleteRow"
                         /\ c.event = w.event /\ c.seen = seen
  BY <1>3, <1>4, ProceedsTurns DEF CalInv, Pcs
<1>8. CalendarTypeOK'
  BY <1>3, <1>4, <1>5, <1>7 DEF CalInv, CalendarTypeOK, Calendar, Turns
<1>9. ShapeOK(c) /\ c.pc # "idle" /\ c.meeting = m /\ c.todo = w.todo
  BY <1>3, <1>7 DEF ShapeOK, SameWork
<1>10. ASSUME m \notin tangled PROVE Good(m, row, c, google', lost')
  <2>1. Good(m, row, w, google, lost) /\ w.event = row.event
    BY <1>2, <1>3, <1>10 DEF AtHand, Good, HandOK
  <2>2. HandOK(m, row, c, google', lost')
    BY <1>3, <1>5, <1>7, <2>1 DEF HandOK, SameWork
  <2>3. LiveOK(m, row, c, google', lost')
    BY <1>3, <1>5, <1>7, <1>9, <2>1 DEF LiveOK, HandOn
  <2>4. StrayOK(m, row, c, google', lost')
    BY <1>3, <1>5, <1>7, <1>9, <2>1 DEF Good, StrayOK
  <2> QED
    BY <1>3, <1>7, <2>1, <2>2, <2>3, <2>4 DEF Good, TodoOK, SameWork
<1>11. \A f \in {row.event, c.event, c.seen.event} :
           f # None => google'[f].meeting = m /\ google'[f].state # "free"
  BY <1>2, <1>3, <1>5, <1>7 DEF AtHand, Owned
<1> QED
  BY <1>1, <1>2, <1>3, <1>4, <1>6, <1>7, <1>8, <1>9, <1>10, <1>11, WorkerStep
  DEF SameWork

\* remove: the row goes, or its dead event is lost.
LEMMA DeleteRowStep == ASSUME CalInv, NEW h \in Handlers, DeleteRow(h) PROVE CalInv'
<1>1. call[h].pc = "deleteRow"
  BY DEF DeleteRow
<1>2. PICK w \in Calls, m \in Meetings, row \in Rows, seen \in Rows :
        AtHand(h, w, m, row, seen)
  BY <1>1, AtWork
<1>3. /\ w = call[h] /\ m = w.meeting /\ row = meetings[m]
      /\ w.pc = "deleteRow" /\ ShapeOK(w) /\ MadeOK(w) /\ w.kind = "remove"
      /\ w.todo = {} /\ row.state # "absent"
      /\ row.event \in Events \cup {None} /\ w.event \in Events \cup {None}
      /\ meetings \in [Meetings -> Rows]
  <2>1. meetings \in [Meetings -> Rows]
    BY DEF CalInv, CalendarTypeOK
  <2> QED
    BY <1>1, <1>2, <2>1 DEF AtHand, ShapeOK, MadeOK, Calls
<1>4. UNCHANGED <<google, blocked, inFlight, told, tangled, unseen>> /\ Closes(h)
  BY DEF DeleteRow
<1>5. ASSUME m \notin tangled
      PROVE  /\ Good(m, row, w, google, lost) /\ w.event = row.event
             /\ row.event \notin {None} \cup lost => ~Live(row.event)
  BY <1>2, <1>3, <1>5 DEF AtHand, Good, HandOK, Live
<1>6. PICK empty \in Rows : /\ empty = [NoMeeting EXCEPT !.state = "gone"]
                            /\ empty.state = "gone" /\ empty.event = None /\ ~empty.link
                            /\ ~empty.phone
  <2> DEFINE empty == [NoMeeting EXCEPT !.state = "gone"]
  <2>1. /\ empty \in Rows /\ empty.state = "gone" /\ empty.event = None /\ ~empty.link
        /\ ~empty.phone
    BY DEF NoMeeting, Rows
  <2> QED
    BY <2>1
<1>7. CASE meetings' = [meetings EXCEPT ![m] = empty] /\ lost' = lost
  <2>1. meetings'[m] = empty /\ \A n \in Meetings \ {m} : meetings'[n] = meetings[n]
    BY <1>3, <1>7
  <2>2. CalendarTypeOK'
    BY <1>4, <1>7, ClosesTurns, Empties DEF CalInv, CalendarTypeOK, Turns
  <2>3. Within(m)
    BY <1>4, <1>7, <2>1 DEF Within
  <2>4. ASSUME m \notin tangled
        PROVE  /\ RowOK(empty) /\ LiveOK(m, empty, IdleCall, google', lost')
               /\ StrayOK(m, empty, IdleCall, google', lost')
    BY <1>3, <1>4, <1>5, <1>6, <1>7, <2>4, CalendarAssumption
    DEF Good, RowOK, LiveOK, StrayOK, Live
  <2> QED
    BY <1>1, <1>2, <1>3, <1>4, <1>6, <2>1, <2>2, <2>3, <2>4, EndStep
<1>8. CASE lost' = lost \cup ({w.event} \ {None}) /\ meetings' = meetings
  <2>1. CalendarTypeOK'
    BY <1>3, <1>4, <1>8, ClosesTurns, Empties DEF CalInv, CalendarTypeOK, Turns
  <2>2. Within(m)
    BY <1>2, <1>4, <1>8 DEF Within, AtHand, Owned
  <2>3. ASSUME m \notin tangled
        PROVE  /\ RowOK(row) /\ LiveOK(m, row, IdleCall, google', lost')
               /\ StrayOK(m, row, IdleCall, google', lost')
    BY <1>3, <1>4, <1>5, <1>8, <2>3 DEF Good, LiveOK, StrayOK
  <2>4. row.event # None => google'[row.event].meeting = m /\ google'[row.event].state # "free"
    BY <1>2, <1>4 DEF AtHand, Owned
  <2> QED
    BY <1>1, <1>2, <1>3, <1>4, <1>8, <2>1, <2>2, <2>3, <2>4, EndStep
<1> QED
  BY <1>3, <1>6, <1>7, <1>8 DEF DeleteRow

\* The row a link and an event are written to.
LEMMA WrittenTyped ==
    ASSUME NEW row \in Rows, NEW e \in Events \cup {None}, NEW link \in BOOLEAN
    PROVE  LET new == [row EXCEPT !.event = e, !.link = link]
           IN  /\ new \in Rows /\ new.event = e /\ new.link = link
               /\ new.state = row.state /\ new.phone = row.phone /\ new.date = row.date
               /\ new.sent = row.sent /\ new.recent = row.recent /\ new.active = row.active
BY DEF Rows

\* create: the row is written with its event, or the event is lost.
LEMMA InsertRowStep == ASSUME CalInv, NEW h \in Handlers, InsertRow(h) PROVE CalInv'
<1>1. call[h].pc = "store" /\ call[h].kind = "create"
  BY DEF InsertRow
<1>2. PICK w \in Calls, m \in Meetings, row \in Rows, seen \in Rows :
        AtHand(h, w, m, row, seen)
  BY <1>1, AtWork
<1>3. /\ w = call[h] /\ m = w.meeting /\ row = meetings[m] /\ seen = w.seen
      /\ w.pc = "store" /\ w.kind = "create" /\ ShapeOK(w) /\ MadeOK(w)
      /\ w.todo = {} /\ row.state = "absent" /\ seen.state = "there"
      /\ row.event \in Events \cup {None} /\ w.event \in Events \cup {None}
      /\ seen.event \in Events \cup {None}
      /\ w.link \in BOOLEAN /\ w.channels \subseteq Channels
  BY <1>1, <1>2 DEF AtHand, ShapeOK, MadeOK, Calls
<1>4. /\ UNCHANGED <<google, blocked, inFlight, told, tangled, unseen>>
      /\ call \in [Handlers -> Calls] /\ meetings \in [Meetings -> Rows] /\ lost \subseteq Events
  BY DEF InsertRow, CalInv, CalendarTypeOK
<1>5. ASSUME m \notin tangled
      PROVE  /\ Good(m, row, w, google, lost) /\ row.event = None
             /\ w.event # None => w.link
             /\ w.link => ~seen.phone
             /\ w.event \notin {None} \cup lost => Shows(w.event, seen.date, google)
  BY <1>2, <1>3, <1>5 DEF AtHand, Good, HandOK, RowOK
<1>6. PICK new \in Rows : /\ new = [seen EXCEPT !.event = w.event, !.link = w.link]
                          /\ new.event = w.event /\ new.link = w.link /\ new.state = "there"
                          /\ new.phone = seen.phone /\ new.date = seen.date
  <2> DEFINE new == [seen EXCEPT !.event = w.event, !.link = w.link]
  <2>1. /\ new \in Rows /\ new.event = w.event /\ new.link = w.link
        /\ new.state = seen.state /\ new.phone = seen.phone /\ new.date = seen.date
    BY <1>3 DEF Rows
  <2> HIDE DEF new
  <2> QED
    BY <1>3, <2>1 DEF new
<1>7. CASE /\ meetings' = [meetings EXCEPT ![m] = new] /\ lost' = lost
           /\ \/ Closes(h)
              \/ call' = [call EXCEPT ![h].pc = "confirm", ![h].kind = "confirm",
                                      ![h].event = None, ![h].link = FALSE]
  <2>1. meetings'[m] = new /\ \A n \in Meetings \ {m} : meetings'[n] = meetings[n]
    BY <1>4, <1>7
  <2>2. Within(m)
    BY <1>4, <1>7, <2>1 DEF Within
  <2>3. new.event # None => google'[new.event].meeting = m /\ google'[new.event].state # "free"
    BY <1>2, <1>3, <1>4, <1>6 DEF AtHand, Owned
  <2>4. ASSUME m \notin tangled, NEW v \in Calls
        PROVE  /\ RowOK(new) /\ LiveOK(m, new, v, google', lost')
               /\ StrayOK(m, new, v, google', lost')
    <3>1. StrayOK(m, row, w, google, lost)
      BY <1>5, <2>4 DEF Good
    <3>2. StrayOK(m, new, v, google, lost)
      BY <1>2, <1>3, <1>5, <1>6, <2>4, <3>1, CalendarAssumption DEF StrayOK, AtHand, HandOn
    <3>3. RowOK(new) /\ LiveOK(m, new, v, google, lost)
      BY <1>5, <1>6, <2>4 DEF RowOK, LiveOK, Shows
    <3> QED
      BY <1>4, <1>7, <3>2, <3>3
  <2>5. CASE Closes(h)
    <3>1. CalendarTypeOK'
      BY <1>4, <1>7, <2>5, ClosesTurns, Empties DEF CalInv, CalendarTypeOK, Turns
    <3>2. m \notin tangled => /\ RowOK(meetings'[m])
                              /\ LiveOK(m, meetings'[m], IdleCall, google', lost')
                              /\ StrayOK(m, meetings'[m], IdleCall, google', lost')
      BY <2>1, <2>4, Empties
    <3>3. /\ call[h].pc \notin {"idle", "row"} /\ w.todo = {}
          /\ w.kind # "create" => meetings'[m].state # "absent"
          /\ meetings'[m].event # None => google'[meetings'[m].event].meeting = m
                                          /\ google'[meetings'[m].event].state # "free"
      BY <1>1, <1>3, <2>1, <2>3
    <3> QED
      BY <1>2, <2>2, <2>5, <3>1, <3>2, <3>3, EndStep
  <2>6. CASE call' = [call EXCEPT ![h].pc = "confirm", ![h].kind = "confirm",
                                  ![h].event = None, ![h].link = FALSE]
    <3>1. PICK c \in Calls : /\ Turns(h, c) /\ c.pc = "confirm" /\ c.kind = "confirm"
                             /\ c.event = None /\ c.seen = seen /\ c.meeting = m
                             /\ c.todo = {} /\ c.force = w.force
      <4> DEFINE c == [w EXCEPT !.pc = "confirm", !.kind = "confirm", !.event = None,
                                !.link = FALSE]
      <4>1. c \in Calls
        BY DEF Calls
      <4>2. /\ c.pc = "confirm" /\ c.kind = "confirm" /\ c.event = None /\ c.seen = seen
            /\ c.meeting = m /\ c.todo = {} /\ c.force = w.force
        BY <1>3 DEF Calls
      <4>3. call' = [call EXCEPT ![h] = c]
        BY <1>3, <1>4, <2>6
      <4> HIDE DEF c
      <4>4. Turns(h, c)
        BY <1>4, <4>1, <4>3 DEF Turns
      <4> QED
        BY <4>1, <4>2, <4>4
    <3>2. CalendarTypeOK'
      BY <1>4, <1>7, <3>1 DEF CalInv, CalendarTypeOK, Turns
    <3>3. ShapeOK(c)
      BY <1>3, <3>1 DEF ShapeOK
    <3>4. m \notin tangled => Good(m, meetings'[m], c, google', lost')
      BY <2>1, <2>4, <3>1 DEF Good, TodoOK, HandOK
    <3>5. \A f \in {meetings'[m].event, c.event, c.seen.event} :
             f # None => google'[f].meeting = m /\ google'[f].state # "free"
      BY <1>2, <1>3, <1>4, <2>1, <2>3, <3>1 DEF AtHand, Owned
    <3>6. /\ call[h].meeting = m /\ c.pc # "idle" /\ c.todo = call[h].todo
          /\ c.kind # "create" /\ meetings'[m].state # "absent"
      BY <1>3, <1>6, <2>1, <3>1
    <3> QED
      BY <1>1, <2>2, <3>1, <3>2, <3>3, <3>4, <3>5, <3>6, WorkerStep
  <2> QED
    BY <1>7, <2>5, <2>6
<1>8. CASE Closes(h) /\ lost' = lost \cup ({w.event} \ {None}) /\ meetings' = meetings
  <2>1. CalendarTypeOK'
    BY <1>3, <1>4, <1>8, ClosesTurns, Empties DEF CalInv, CalendarTypeOK, Turns
  <2>2. Within(m)
    BY <1>2, <1>4, <1>8 DEF Within, AtHand, Owned
  <2>3. ASSUME m \notin tangled
        PROVE  /\ RowOK(row) /\ LiveOK(m, row, IdleCall, google', lost')
               /\ StrayOK(m, row, IdleCall, google', lost')
    BY <1>3, <1>4, <1>5, <1>8, <2>3 DEF Good, LiveOK, StrayOK
  <2>4. row.event # None => google'[row.event].meeting = m /\ google'[row.event].state # "free"
    BY <1>2, <1>4 DEF AtHand, Owned
  <2> QED
    BY <1>1, <1>2, <1>3, <1>4, <1>8, <2>1, <2>2, <2>3, <2>4, EndStep
<1> QED
  BY <1>3, <1>6, <1>7, <1>8 DEF InsertRow

\* What a request at "store" does to the row: the event and link it was given are
\* written, or they are lost, or there are none.
Stores(w, m, e) ==
    \/ /\ w.link /\ OnFile(m) /\ lost' = lost
       /\ meetings' = [meetings EXCEPT ![m].event = e, ![m].link = TRUE]
    \/ /\ w.link /\ lost' = lost \cup ({w.event} \ {None}) /\ meetings' = meetings
    \/ /\ ~w.link /\ UNCHANGED <<meetings, lost>>

\* A request that writes an event to its row goes on, or ends.
LEMMA StoreStep ==
    ASSUME CalInv, NEW h \in Handlers, NEW m \in Meetings, NEW w \in Calls,
           NEW row \in Rows, NEW seen \in Rows, AtHand(h, w, m, row, seen),
           w.pc = "store", w.kind # "create",
           NEW e \in Events \cup {None},
           e = w.event \/ (w.event = None /\ e = seen.event),
           UNCHANGED <<google, blocked, inFlight, told, tangled, unseen>>,
           Stores(w, m, e),
           NEW c \in Calls, Turns(h, c), ShapeOK(c),
           \/ c = IdleCall /\ w.todo = {}
           \/ SameWork(w, c) /\ c.pc \in {"row", "send"} /\ c.event = w.event /\ c.seen = seen
    PROVE  CalInv'
<1>1. /\ w = call[h] /\ m = w.meeting /\ row = meetings[m] /\ seen = w.seen
      /\ ShapeOK(w) /\ MadeOK(w) /\ row.state # "absent"
      /\ w.link \in BOOLEAN /\ w.event \in Events \cup {None} /\ row.event \in Events \cup {None}
      /\ lost \subseteq Events /\ meetings \in [Meetings -> Rows]
  BY DEF AtHand, MadeOK, Calls, CalInv, CalendarTypeOK
<1>2. PICK new \in Rows : /\ new = [row EXCEPT !.event = e, !.link = TRUE]
                          /\ new.event = e /\ new.link /\ new.state = row.state
                          /\ new.phone = row.phone /\ new.date = row.date
  <2> DEFINE new == [row EXCEPT !.event = e, !.link = TRUE]
  <2>1. /\ new \in Rows /\ new.event = e /\ new.link /\ new.state = row.state
        /\ new.phone = row.phone /\ new.date = row.date
    BY DEF Rows
  <2> HIDE DEF new
  <2> QED
    BY <2>1 DEF new
<1>3. PICK next \in Rows :
        /\ meetings' = [meetings EXCEPT ![m] = next]
        /\ \/ next = new /\ w.link /\ row.state = "there" /\ lost' = lost
           \/ next = row /\ w.link /\ lost' = lost \cup ({w.event} \ {None})
           \/ next = row /\ ~w.link /\ lost' = lost
  <2>1. [meetings EXCEPT ![m].event = e, ![m].link = TRUE] = [meetings EXCEPT ![m] = new]
    BY <1>1, <1>2
  <2>2. [meetings EXCEPT ![m] = row] = meetings
    BY <1>1
  <2> QED
    BY <1>1, <2>1, <2>2 DEF Stores, OnFile
<1>4. /\ meetings'[m] = next /\ \A n \in Meetings \ {m} : meetings'[n] = meetings[n]
      /\ meetings' \in [Meetings -> Rows] /\ next.state # "absent"
      /\ lost \subseteq lost' /\ lost' \subseteq Events
  BY <1>1, <1>2, <1>3
<1>5. CalendarTypeOK'
  BY <1>4 DEF CalInv, CalendarTypeOK, Turns
<1>6. Within(m)
  BY <1>1, <1>3, <1>4 DEF Within, AtHand, Owned
<1>7. ASSUME m \notin tangled PROVE Good(m, next, c, google', lost')
  <2>1. /\ Good(m, row, w, google, lost) /\ HandOK(m, row, w, google, lost) /\ HandOn(m, w)
        /\ RowOK(row) /\ LiveOK(m, row, w, google, lost) /\ StrayOK(m, row, w, google, lost)
    BY <1>7 DEF AtHand, Good
  <2>2. /\ w.event # None => w.link
        /\ w.link => ~seen.phone
        /\ w.event \notin {None} \cup lost => Shows(w.event, seen.date, google)
        /\ w.link => Agrees(row, seen)
        /\ w.link => row.event \in {None} \cup lost \/ row.event = w.event
    BY <1>1, <2>1 DEF HandOK
  <2>3. RowOK(next)
    BY <1>2, <1>3, <2>1, <2>2 DEF RowOK, Agrees
  <2>4. LiveOK(m, next, c, google', lost')
    <3>1. row.event \notin {None} \cup lost => Shows(row.event, row.date, google)
      BY <2>1 DEF LiveOK
    <3>2. google' = google /\ lost \subseteq lost'
      BY <1>4
    <3>3. CASE next = row
      BY <3>1, <3>2, <3>3 DEF LiveOK
    <3>4. CASE next = new /\ w.link /\ lost' = lost
      BY <1>2, <2>2, <3>1, <3>2, <3>4 DEF LiveOK, Agrees
    <3> QED
      BY <1>3, <3>3, <3>4
  <2>5. StrayOK(m, next, c, google', lost')
    <3>1. \A f \in Events : google[f].meeting = m /\ google[f].state = "live" /\ f \notin lost =>
            row.event = f \/ w.event = f
      BY <2>1 DEF StrayOK
    <3>2. google' = google /\ lost \subseteq lost'
      BY <1>4
    <3>3. CASE next = row /\ w.link /\ lost' = lost \cup ({w.event} \ {None})
      BY <3>1, <3>2, <3>3, CalendarAssumption DEF StrayOK
    <3>4. CASE next = row /\ ~w.link /\ lost' = lost
      BY <2>2, <3>1, <3>2, <3>4, CalendarAssumption DEF StrayOK
    <3>5. CASE next = new /\ w.link /\ lost' = lost
      BY <1>2, <2>2, <3>1, <3>2, <3>5, CalendarAssumption DEF StrayOK, Agrees
    <3> QED
      BY <1>3, <3>3, <3>4, <3>5
  <2>6. TodoOK(m, next, c)
    BY <1>1, Empties DEF TodoOK, ShapeOK, SameWork
  <2>7. HandOK(m, next, c, google', lost')
    BY Empties DEF HandOK
  <2> QED
    BY <2>3, <2>4, <2>5, <2>6, <2>7 DEF Good
<1>8. \A f \in {next.event, c.event, c.seen.event} :
           f # None => google'[f].meeting = m /\ google'[f].state # "free"
  <2>1. \A f \in {row.event, w.event, seen.event} :
           f # None => google'[f].meeting = m /\ google'[f].state # "free"
    BY DEF AtHand, Owned
  <2>2. next.event \in {row.event, w.event, seen.event}
    BY <1>2, <1>3
  <2>3. c.event \in {None, w.event} /\ c.seen.event \in {None, seen.event}
    BY Empties
  <2> QED
    BY <2>1, <2>2, <2>3
<1>9. /\ call[h].pc \notin {"idle", "row"} /\ call[h].meeting = m
      /\ c = IdleCall \/ (c.pc # "idle" /\ c.meeting = m)
      /\ c.todo = call[h].todo /\ c.kind # "create"
      /\ c.kind = "confirm" => call[h].kind \in {"create", "confirm"}
  BY <1>1, Empties DEF SameWork
<1> QED
  BY <1>4, <1>5, <1>6, <1>7, <1>8, <1>9, WorkerStep

\* update, backfillMeetLinks: the link is written by id.
LEMMA SyncRowStep == ASSUME CalInv, NEW h \in Handlers, SyncRow(h) PROVE CalInv'
<1>1. call[h].pc = "store" /\ call[h].kind \in {"update", "backfill"}
  BY DEF SyncRow
<1>2. PICK w \in Calls, m \in Meetings, row \in Rows, seen \in Rows :
        AtHand(h, w, m, row, seen)
  BY <1>1, AtWork
<1>3. /\ w = call[h] /\ m = w.meeting /\ seen = w.seen /\ ShapeOK(w)
      /\ w.pc = "store" /\ w.kind \in {"update", "backfill"}
      /\ w.event \in Events \cup {None} /\ CalendarTypeOK
  BY <1>1, <1>2 DEF AtHand, CalInv
<1>4. Stores(w, m, w.event) /\ UNCHANGED <<google, blocked, inFlight, told, tangled, unseen>>
  BY <1>3 DEF SyncRow, Stores
<1>5. CASE Closes(h) /\ w.todo = {}
  <2>1. Turns(h, IdleCall) /\ IdleCall \in Calls /\ ShapeOK(IdleCall)
    BY <1>3, <1>5, ClosesTurns, Empties DEF ShapeOK
  <2> QED
    BY <1>2, <1>3, <1>4, <1>5, <2>1, StoreStep
<1>6. CASE Proceeds(h, "row") /\ w.kind = "backfill"
  <2>1. PICK c \in Calls : /\ Turns(h, c) /\ SameWork(w, c) /\ c.pc = "row"
                           /\ c.event = w.event /\ c.seen = seen
    BY <1>3, <1>6, ProceedsTurns DEF Pcs
  <2>2. ShapeOK(c)
    BY <1>3, <1>6, <2>1 DEF ShapeOK, SameWork
  <2> QED
    BY <1>2, <1>3, <1>4, <2>1, <2>2, StoreStep
<1> QED
  BY <1>3, <1>5, <1>6 DEF SyncRow, ShapeOK

\* saveMeetLink: the link is written, and the messages follow.
LEMMA SaveMeetLinkStep == ASSUME CalInv, NEW h \in Handlers, SaveMeetLink(h) PROVE CalInv'
<1>1. call[h].pc = "store" /\ call[h].kind \in {"regenerate", "confirm", "remind"}
  BY DEF SaveMeetLink
<1>2. PICK w \in Calls, m \in Meetings, row \in Rows, seen \in Rows :
        AtHand(h, w, m, row, seen)
  BY <1>1, AtWork
<1>3. /\ w = call[h] /\ m = w.meeting /\ seen = w.seen /\ ShapeOK(w) /\ w.todo = {}
      /\ w.pc = "store" /\ w.kind \in {"regenerate", "confirm", "remind"}
      /\ w.event \in Events \cup {None} /\ seen.event \in Events \cup {None} /\ CalendarTypeOK
  BY <1>1, <1>2 DEF AtHand, CalInv, ShapeOK
<1>4. PICK e \in Events \cup {None} :
        e = IF w.kind # "regenerate" /\ w.event = None THEN seen.event ELSE w.event
  BY <1>3
<1>5. Stores(w, m, e) /\ UNCHANGED <<google, blocked, inFlight, told, tangled, unseen>>
  BY <1>3, <1>4 DEF SaveMeetLink, Stores
<1>6. CASE Closes(h)
  <2>1. Turns(h, IdleCall) /\ IdleCall \in Calls /\ ShapeOK(IdleCall)
    BY <1>3, <1>6, ClosesTurns, Empties DEF ShapeOK
  <2> QED
    BY <1>2, <1>3, <1>4, <1>5, <2>1, StoreStep
<1>7. CASE Proceeds(h, "send") /\ w.kind # "regenerate"
  <2>1. PICK c \in Calls : /\ Turns(h, c) /\ SameWork(w, c) /\ c.pc = "send"
                           /\ c.event = w.event /\ c.seen = seen
    BY <1>3, <1>7, ProceedsTurns DEF Pcs
  <2>2. ShapeOK(c)
    BY <1>3, <1>7, <2>1 DEF ShapeOK, SameWork
  <2> QED
    BY <1>2, <1>3, <1>4, <1>5, <2>1, <2>2, StoreStep
<1> QED
  BY <1>3, <1>6, <1>7 DEF SaveMeetLink

\* regenerateMeetLink: the event that could not be patched is deleted.
LEMMA DropReplacedStep == ASSUME CalInv, NEW h \in Handlers, DropReplaced(h) PROVE CalInv'
<1>1. call[h].pc = "drop"
  BY DEF DropReplaced
<1>2. PICK w \in Calls, m \in Meetings, row \in Rows, seen \in Rows :
        AtHand(h, w, m, row, seen)
  BY <1>1, AtWork
<1>3. /\ w = call[h] /\ m = w.meeting /\ row = meetings[m] /\ seen = w.seen
      /\ w.pc = "drop" /\ ShapeOK(w) /\ w.kind = "regenerate" /\ w.todo = {}
      /\ row.state # "absent" /\ w.link \in BOOLEAN
      /\ w.event \in Events \cup {None} /\ seen.event \in Events \cup {None}
      /\ row.event \in Events \cup {None} /\ CalendarTypeOK
      /\ lost \subseteq Events /\ google \in Calendar
  BY <1>1, <1>2 DEF AtHand, ShapeOK, MadeOK, Calls, CalInv
<1>4. UNCHANGED <<meetings, blocked, inFlight, told, tangled, unseen>>
  BY DEF DropReplaced
<1>5. ASSUME m \notin tangled
      PROVE  /\ RowOK(row) /\ TodoOK(m, row, w)
             /\ row.event \notin {None} \cup lost => Shows(row.event, row.date, google)
             /\ \A f \in Events : google[f].meeting = m /\ google[f].state = "live"
                                  /\ f \notin lost => row.event = f \/ w.event = f
             /\ w.event # None => w.link
             /\ w.link => ~seen.phone /\ Agrees(row, seen) /\ row.event \in {None} \cup lost
             /\ w.event \notin {None} \cup lost => Shows(w.event, seen.date, google)
             /\ w.event = None \/ w.event # seen.event
  <2>1. /\ HandOn(m, w) /\ RowOK(row) /\ LiveOK(m, row, w, google, lost)
        /\ StrayOK(m, row, w, google, lost) /\ TodoOK(m, row, w)
        /\ HandOK(m, row, w, google, lost)
    BY <1>2, <1>5 DEF AtHand, Good
  <2>2. /\ row.event \notin {None} \cup lost => Shows(row.event, row.date, google)
        /\ \A f \in Events : google[f].meeting = m /\ google[f].state = "live"
                             /\ f \notin lost => row.event = f \/ w.event = f
    BY <1>3, <2>1 DEF LiveOK, StrayOK
  <2>3. /\ w.event # None => w.link
        /\ w.link => ~seen.phone /\ Agrees(row, seen) /\ row.event \in {None} \cup lost
        /\ w.event \notin {None} \cup lost => Shows(w.event, seen.date, google)
        /\ w.event = None \/ w.event # seen.event
    BY <1>3, <2>1 DEF HandOK
  <2> QED
    BY <2>1, <2>2, <2>3
<1>6. CASE ~w.link /\ Closes(h) /\ UNCHANGED <<google, lost>>
  <2>1. CalendarTypeOK'
    BY <1>3, <1>4, <1>6, ClosesTurns, Empties DEF CalendarTypeOK, Turns
  <2>2. Within(m)
    BY <1>4, <1>6 DEF Within
  <2>3. m \notin tangled => /\ RowOK(row) /\ LiveOK(m, row, IdleCall, google', lost')
                            /\ StrayOK(m, row, IdleCall, google', lost')
    BY <1>5, <1>6, CalendarAssumption DEF LiveOK, StrayOK
  <2>4. row.event # None => google'[row.event].meeting = m /\ google'[row.event].state # "free"
    BY <1>2, <1>6 DEF AtHand, Owned
  <2> QED
    BY <1>1, <1>2, <1>3, <1>4, <1>6, <2>1, <2>2, <2>3, <2>4, EndStep
<1>7. CASE /\ w.link /\ Proceeds(h, "store")
           /\ \/ seen.event # None /\ w.event # None /\ DeletesEvent(seen.event)
              \/ UNCHANGED <<google, lost>>
  <2>1. PICK c \in Calls : /\ Turns(h, c) /\ SameWork(w, c) /\ c.pc = "store"
                           /\ c.event = w.event /\ c.seen = seen /\ c.link = w.link
    BY <1>3, <1>7, ProceedsTurns DEF Pcs
  <2>2. /\ google' \in Calendar /\ lost \subseteq lost' /\ lost' \subseteq Events
        /\ \A f \in Events :
              \/ google'[f] = google[f] /\ (f \in lost' => f \in lost \/ f = seen.event)
              \/ /\ f = seen.event /\ w.event # None
                 /\ google'[f].meeting = google[f].meeting
                 /\ google'[f].state = "removed"
    <3>1. CASE seen.event # None /\ w.event # None /\ DeletesEvent(seen.event)
      <4>1. seen.event \in Events
        BY <1>3, <3>1
      <4>2. /\ google' \in Calendar
            /\ lost \subseteq lost' /\ lost' \subseteq lost \cup {seen.event}
            /\ \A f \in Events \ {seen.event} : google'[f] = google[f]
            /\ google'[seen.event].meeting = google[seen.event].meeting
            /\ \/ google'[seen.event].state = "removed"
               \/ google'[seen.event] = google[seen.event]
        BY <3>1, <4>1, Deleted
      <4> QED
        BY <1>3, <3>1, <4>1, <4>2
    <3>2. CASE UNCHANGED <<google, lost>>
      BY <1>3, <3>2
    <3> QED
      BY <1>7, <3>1, <3>2
  <2>3. CalendarTypeOK'
    BY <1>3, <1>4, <2>1, <2>2 DEF CalendarTypeOK, Calendar, Turns
  <2>4. seen.event # None => google[seen.event].meeting = m /\ google[seen.event].state # "free"
    BY <1>2 DEF AtHand, Owned
  <2>5. Within(m)
    <3>1. ASSUME NEW f \in Events
          PROVE \/ google'[f] = google[f]
                \/ /\ google[f].meeting = m /\ google'[f].state # "free" /\ google'[f].meeting = m
      BY <1>3, <2>2, <2>4, CalendarAssumption
    <3>2. \A f \in lost' \ lost : google'[f].meeting = m
      BY <1>3, <2>2, <2>4, CalendarAssumption
    <3> QED
      BY <1>4, <2>2, <3>1, <3>2 DEF Within
  <2>6. /\ ShapeOK(c) /\ c.pc # "idle" /\ c.meeting = m /\ c.todo = w.todo
        /\ c.kind # "create" /\ (c.kind = "confirm" => w.kind \in {"create", "confirm"})
    BY <1>3, <2>1 DEF ShapeOK, SameWork
  <2>7. ASSUME m \notin tangled PROVE Good(m, row, c, google', lost')
    <3>1. LiveOK(m, row, c, google', lost')
      BY <1>5, <1>7, <2>2, <2>7 DEF LiveOK
    <3>2. ASSUME NEW f \in Events, google'[f].meeting = m, google'[f].state = "live",
                 f \notin lost'
          PROVE  row.event = f \/ w.event = f
      BY <1>5, <2>2, <2>7, <3>2
    <3>3. StrayOK(m, row, c, google', lost')
      BY <2>1, <2>6, <3>2 DEF StrayOK, HandOn
    <3>4. w.event \notin {None} \cup lost' => Shows(w.event, seen.date, google')
      BY <1>3, <1>5, <2>2, <2>7 DEF Shows
    <3>5. HandOK(m, row, c, google', lost')
      BY <1>5, <1>7, <2>1, <2>2, <2>6, <2>7, <3>4 DEF HandOK
    <3> QED
      BY <1>3, <1>5, <2>1, <2>6, <2>7, <3>1, <3>3, <3>5 DEF Good, TodoOK
  <2>8. \A f \in {row.event, c.event, c.seen.event} :
           f # None => google'[f].meeting = m /\ google'[f].state # "free"
    <3>1. \A f \in {row.event, w.event, seen.event} :
             f # None => f \in Events /\ google[f].meeting = m /\ google[f].state # "free"
      BY <1>2, <1>3 DEF AtHand, Owned
    <3> QED
      BY <2>1, <2>2, <3>1
  <2> QED
    BY <1>1, <1>3, <1>4, <2>1, <2>3, <2>5, <2>6, <2>7, <2>8, WorkerStep
<1> QED
  BY <1>3, <1>6, <1>7 DEF DropReplaced

\* The calendar columns of a row are left alone.
SameShown(row, next) ==
    /\ next.state = row.state /\ next.phone = row.phone /\ next.date = row.date
    /\ next.link = row.link /\ next.event = row.event

\* A request that holds no event of its own and makes none.
LEMMA QuietStep ==
    ASSUME CalInv, CalendarTypeOK', NEW h \in Handlers, NEW m \in Meetings, NEW w \in Calls,
           NEW row \in Rows, NEW seen \in Rows, AtHand(h, w, m, row, seen),
           w.pc \in {"confirm", "reread", "decide", "send", "mark"}, w.kind # "create",
           w.todo = {},
           UNCHANGED <<google, lost, tangled>>,
           NEW next \in Rows, SameShown(row, next), meetings' = [meetings EXCEPT ![m] = next],
           NEW c \in Calls, Turns(h, c), ShapeOK(c), c.todo = {}, c.kind # "create",
           c.kind = "confirm" => w.kind = "confirm",
           c = IdleCall \/ (c.pc # "idle" /\ c.meeting = m),
           c.event \in {None, row.event, w.event},
           c.seen.event \in {None, row.event, seen.event},
           RowOK(row) /\ HandOK(m, row, w, google, lost) => HandOK(m, next, c, google, lost)
    PROVE  CalInv'
<1>1. /\ w = call[h] /\ m = w.meeting /\ row = meetings[m] /\ seen = w.seen
      /\ row.state # "absent" /\ meetings \in [Meetings -> Rows]
  BY DEF AtHand, MadeOK, CalInv, CalendarTypeOK
<1>2. meetings'[m] = next /\ \A n \in Meetings \ {m} : meetings'[n] = meetings[n]
  BY <1>1
<1>3. Within(m)
  BY <1>2 DEF Within
<1>4. ASSUME m \notin tangled PROVE Good(m, next, c, google', lost')
  <2>1. Good(m, row, w, google, lost) /\ row.event \in Events \cup {None}
    BY <1>4 DEF AtHand
  <2>2. RowOK(next) /\ TodoOK(m, next, c)
    BY <2>1 DEF Good, RowOK, SameShown, TodoOK
  <2>3. LiveOK(m, next, c, google, lost)
    BY <2>1 DEF Good, LiveOK, SameShown, Shows
  <2>4. StrayOK(m, next, c, google, lost)
    BY <2>1 DEF Good, StrayOK, SameShown
  <2>5. HandOK(m, next, c, google, lost)
    BY <2>1 DEF Good
  <2>6. Good(m, next, c, google, lost)
    BY <2>2, <2>3, <2>4, <2>5 DEF Good
  <2> QED
    BY <2>6
<1>5. \A f \in {next.event, c.event, c.seen.event} :
           f # None => google'[f].meeting = m /\ google'[f].state # "free"
  BY DEF AtHand, Owned, SameShown
<1>6. /\ call[h].pc \notin {"idle", "row"} /\ call[h].meeting = m
      /\ c.todo = call[h].todo /\ meetings'[m].state # "absent"
      /\ c.kind = "confirm" => call[h].kind = "confirm"
  BY <1>1, <1>2 DEF SameShown
<1> QED
  BY <1>2, <1>3, <1>4, <1>5, <1>6, WorkerStep

\* A request that confirms a meeting.
Delivery(c, m, row, kind, due, force) ==
    /\ c = [Delivers(row, kind, due, force) EXCEPT !.meeting = m]
    /\ c.pc \in {"send", "google"}
    /\ c.pc = "google" => ~row.link /\ ~row.phone
    /\ c.kind = kind /\ c.meeting = m /\ c.seen = row /\ c.channels = due
    /\ c.force <=> force
    /\ c.event = None /\ c.todo = {} /\ c.done = {}

\* There is such a request.
LEMMA Delivering ==
    ASSUME NEW m \in Meetings, NEW row \in Rows, NEW kind \in {"confirm", "remind"},
           NEW due \in SUBSET Channels, NEW force \in BOOLEAN
    PROVE  \E c \in Calls : Delivery(c, m, row, kind, due, force)
<1> DEFINE c == [Delivers(row, kind, due, force) EXCEPT !.meeting = m]
<1>1. c \in Calls
  BY Empties DEF Delivers, Calls
<1>2. /\ c.pc \in {"send", "google"} /\ (c.pc = "google" => ~row.link /\ ~row.phone)
      /\ c.kind = kind /\ c.meeting = m /\ c.seen = row /\ c.channels = due
      /\ (c.force <=> force) /\ c.event = None /\ c.todo = {} /\ c.done = {}
  BY DEF Delivers, IdleCall, Rows
<1>3. Delivery(c, m, row, kind, due, force)
  BY <1>2 DEF Delivery
<1> HIDE DEF c
<1> QED
  BY <1>1, <1>3

\* A request that has yet to decide what it sends: the calendar is not concerned.
LEMMA DecidesStep ==
    ASSUME CalInv, NEW h \in Handlers, NEW m \in Meetings, NEW w \in Calls,
           NEW row \in Rows, NEW seen \in Rows, AtHand(h, w, m, row, seen),
           w.pc \in {"confirm", "reread", "decide"},
           UNCHANGED <<meetings, google, blocked, told, lost, tangled>>,
           inFlight' \in SUBSET Meetings, unseen' \in SUBSET Meetings,
           NEW c \in Calls, Turns(h, c), ShapeOK(c), c.todo = {}, c.kind # "create",
           c.kind = "confirm" => w.kind = "confirm",
           c = IdleCall \/ (c.pc # "idle" /\ c.meeting = m),
           c.event \in {None, w.event}, c.seen.event \in {None, row.event, seen.event},
           RowOK(row) /\ HandOK(m, row, w, google, lost) => HandOK(m, row, c, google, lost)
    PROVE  CalInv'
<1>1. CalendarTypeOK /\ row = meetings[m] /\ ShapeOK(w)
  BY DEF CalInv, AtHand
<1>2. CalendarTypeOK'
  BY <1>1 DEF CalendarTypeOK, Turns
<1>3. w.kind # "create" /\ w.todo = {} /\ UNCHANGED <<google, lost, tangled>>
  BY <1>1 DEF ShapeOK
<1>4. meetings' = [meetings EXCEPT ![m] = row] /\ SameShown(row, row)
  BY <1>1 DEF CalendarTypeOK, SameShown
<1>5. c.event \in {None, row.event, w.event}
  OBVIOUS
<1> QED
  BY <1>2, <1>3, <1>4, <1>5, QuietStep

\* Such a request ends.
LEMMA DecidesNothing ==
    ASSUME CalInv, NEW h \in Handlers, call[h].pc \in {"confirm", "reread", "decide"},
           UNCHANGED <<meetings, google, blocked, inFlight, told, lost, tangled, unseen>>,
           Closes(h)
    PROVE  CalInv'
<1>1. PICK w \in Calls, m \in Meetings, row \in Rows, seen \in Rows :
        AtHand(h, w, m, row, seen)
  BY AtWork
<1>2. w.pc \in {"confirm", "reread", "decide"}
  BY <1>1 DEF AtHand
<1>3. Turns(h, IdleCall) /\ ShapeOK(IdleCall) /\ HandOK(m, row, IdleCall, google, lost)
  BY ClosesTurns, Empties DEF CalInv, ShapeOK, HandOK, HandOn
<1>4. inFlight' \in SUBSET Meetings /\ unseen' \in SUBSET Meetings
  BY DEF CalInv, CalendarTypeOK
<1> QED
  BY <1>1, <1>2, <1>3, <1>4, Empties, DecidesStep

\* create: a confirmation is to be sent, or one is in flight.
LEMMA ConfirmStep == ASSUME CalInv, NEW h \in Handlers, Confirm(h) PROVE CalInv'
<1>1. /\ call[h].pc = "confirm"
      /\ UNCHANGED <<meetings, google, blocked, inFlight, told, lost, tangled, unseen>>
  BY DEF Confirm, calendarHistory
<1>2. PICK w \in Calls, m \in Meetings, row \in Rows, seen \in Rows :
        AtHand(h, w, m, row, seen)
  BY <1>1, AtWork
<1>3. /\ w = call[h] /\ m = w.meeting /\ seen = w.seen /\ w.pc = "confirm"
      /\ w.kind = "confirm" /\ w.todo = {} /\ ShapeOK(w)
      /\ inFlight \in SUBSET Meetings /\ unseen \in SUBSET Meetings
  BY <1>1, <1>2 DEF AtHand, ShapeOK, Calls, CalInv, CalendarTypeOK
<1>4. CASE Closes(h)
  BY <1>1, <1>4, DecidesNothing
<1>5. CASE Proceeds(h, "reread")
  <2>1. PICK c \in Calls : /\ Turns(h, c) /\ SameWork(w, c) /\ c.pc = "reread"
                           /\ c.event = w.event /\ c.seen = seen
    BY <1>3, <1>5, ProceedsTurns DEF CalInv, Pcs
  <2>2. ShapeOK(c) /\ c.kind = "confirm" /\ c.todo = {} /\ c.meeting = m
    BY <1>3, <2>1 DEF ShapeOK, SameWork
  <2>3. HandOK(m, row, c, google, lost)
    BY <2>1 DEF HandOK
  <2> QED
    BY <1>1, <1>2, <1>3, <2>1, <2>2, <2>3, DecidesStep
<1> QED
  BY <1>4, <1>5 DEF Confirm

\* The confirmation reads the row again.
LEMMA ReadAgainStep == ASSUME CalInv, NEW h \in Handlers, ReadAgain(h) PROVE CalInv'
<1>1. /\ call[h].pc = "reread"
      /\ UNCHANGED <<meetings, google, blocked, inFlight, told, lost, tangled, unseen>>
  BY DEF ReadAgain, calendarHistory
<1>2. PICK w \in Calls, m \in Meetings, row \in Rows, seen \in Rows :
        AtHand(h, w, m, row, seen)
  BY <1>1, AtWork
<1>3. /\ w = call[h] /\ m = w.meeting /\ row = meetings[m] /\ w.pc = "reread"
      /\ w.kind = "confirm" /\ w.todo = {} /\ ShapeOK(w) /\ call \in [Handlers -> Calls]
      /\ inFlight \in SUBSET Meetings /\ unseen \in SUBSET Meetings
  BY <1>1, <1>2 DEF AtHand, ShapeOK, Calls, CalInv, CalendarTypeOK
<1>4. CASE Closes(h)
  BY <1>1, <1>4, DecidesNothing
<1>5. CASE OnFile(m) /\ call' = [call EXCEPT ![h].pc = "decide", ![h].seen = row]
  <2>1. PICK c \in Calls : /\ Turns(h, c) /\ SameWork(w, c) /\ c.pc = "decide"
                           /\ c.event = w.event /\ c.seen = row
    <3> DEFINE c == [w EXCEPT !.pc = "decide", !.seen = row]
    <3>1. c \in Calls
      BY DEF Calls
    <3>2. /\ SameWork(w, c) /\ c.pc = "decide" /\ c.event = w.event /\ c.seen = row
      BY DEF Calls, SameWork
    <3>3. call' = [call EXCEPT ![h] = c]
      BY <1>3, <1>5
    <3> HIDE DEF c
    <3>4. Turns(h, c)
      BY <1>3, <3>1, <3>3 DEF Turns
    <3> QED
      BY <3>1, <3>2, <3>4
  <2>2. ShapeOK(c) /\ c.kind = "confirm" /\ c.todo = {} /\ c.meeting = m
    BY <1>3, <2>1 DEF ShapeOK, SameWork
  <2>3. RowOK(row) => HandOK(m, row, c, google, lost)
    BY <1>3, <1>5, <2>1 DEF HandOK, Agrees, OnFile
  <2> QED
    BY <1>1, <1>2, <1>3, <2>1, <2>2, <2>3, DecidesStep
<1> QED
  BY <1>3, <1>4, <1>5 DEF ReadAgain

\* A request starts to send.
LEMMA GoesStep ==
    ASSUME CalInv, NEW h \in Handlers, call[h].pc = "decide",
           NEW due \in SUBSET Channels, SendsDue(h, due),
           UNCHANGED <<meetings, google, blocked, told, lost, tangled>>,
           inFlight' \in SUBSET Meetings
    PROVE  CalInv'
<1>1. PICK w \in Calls, m \in Meetings, row \in Rows, seen \in Rows :
        AtHand(h, w, m, row, seen)
  BY AtWork
<1>2. /\ w = call[h] /\ m = w.meeting /\ row = meetings[m] /\ seen = w.seen
      /\ w.pc = "decide" /\ w.kind \in {"confirm", "remind"} /\ ShapeOK(w)
      /\ w.force \in BOOLEAN /\ HandOn(m, w) /\ call \in [Handlers -> Calls]
  BY <1>1 DEF AtHand, ShapeOK, Calls, CalInv, CalendarTypeOK
<1>3. PICK c \in Calls : Delivery(c, m, seen, w.kind, due, w.force)
  <2>1. PICK kind \in {"confirm", "remind"}, force \in BOOLEAN : kind = w.kind /\ force = w.force
    BY <1>2
  <2> QED
    BY <2>1, Delivering
<1>4. due # {} /\ call' = [call EXCEPT ![h] = c] /\ unseen' \in SUBSET Meetings
  BY <1>2, <1>3 DEF SendsDue, Delivery, CalInv, CalendarTypeOK
<1>5. Turns(h, c)
  BY <1>2, <1>4 DEF Turns
<1>6. ShapeOK(c)
  BY <1>2, <1>3, <1>4 DEF Delivery, ShapeOK
<1>7. RowOK(row) /\ HandOK(m, row, w, google, lost) => HandOK(m, row, c, google, lost)
  BY <1>2, <1>3 DEF Delivery, RowOK, HandOK, Agrees
<1>8. /\ c.todo = {} /\ c.kind = w.kind /\ c.pc # "idle" /\ c.meeting = m
      /\ c.event = None /\ c.seen.event = seen.event
  BY <1>3 DEF Delivery
<1> QED
  BY <1>1, <1>2, <1>4, <1>5, <1>6, <1>7, <1>8, DecidesStep

\* The confirmation enters the in-flight set, or nothing is left to send.
LEMMA EnterFlightStep == ASSUME CalInv, NEW h \in Handlers, EnterFlight(h) PROVE CalInv'
<1>1. /\ call[h].pc = "decide"
      /\ UNCHANGED <<meetings, google, blocked, told, lost, tangled>>
  BY DEF EnterFlight
<1>2. PICK m \in Meetings : m = call[h].meeting /\ inFlight \in SUBSET Meetings
  BY <1>1, AtWork DEF AtHand, CalInv, CalendarTypeOK
<1>3. PICK due \in SUBSET Channels : due = Channels \ RecentlySent(call[h].seen)
  OBVIOUS
<1>4. CASE SendsDue(h, due) /\ inFlight' = inFlight \cup {m}
  BY <1>1, <1>2, <1>4, GoesStep
<1>5. CASE Closes(h) /\ UNCHANGED <<inFlight, unseen>>
  BY <1>1, <1>5, DecidesNothing
<1> QED
  BY <1>2, <1>3, <1>4, <1>5 DEF EnterFlight

\* What a request wants to send are channels.
LEMMA WantedTyped == ASSUME NEW w \in Calls PROVE Wanted(w) \in SUBSET Channels
BY DEF Wanted, Calls

\* A manual reminder starts to send, or has nothing to send.
LEMMA DecideReminderStep == ASSUME CalInv, NEW h \in Handlers, DecideReminder(h) PROVE CalInv'
<1>1. /\ call[h].pc = "decide" /\ inFlight' = inFlight
      /\ UNCHANGED <<meetings, google, blocked, told, lost, tangled>>
  BY DEF DecideReminder
<1>2. PICK due \in SUBSET Channels : due = Wanted(call[h])
  BY WantedTyped DEF CalInv, CalendarTypeOK
<1>3. inFlight' \in SUBSET Meetings
  BY <1>1 DEF CalInv, CalendarTypeOK
<1>4. CASE SendsDue(h, due)
  BY <1>1, <1>3, <1>4, GoesStep
<1>5. CASE Closes(h) /\ UNCHANGED unseen
  BY <1>1, <1>5, DecidesNothing
<1> QED
  BY <1>2, <1>4, <1>5 DEF DecideReminder

\* A message goes out.
LEMMA SendStep == ASSUME CalInv, NEW h \in Handlers, Send(h) PROVE CalInv'
<1>1. call[h].pc = "send"
  BY DEF Send
<1>2. PICK w \in Calls, m \in Meetings, row \in Rows, seen \in Rows :
        AtHand(h, w, m, row, seen)
  BY <1>1, AtWork
<1>3. /\ w = call[h] /\ m = w.meeting /\ row = meetings[m] /\ seen = w.seen /\ ShapeOK(w)
      /\ w.pc = "send" /\ w.kind \in {"confirm", "remind"} /\ w.todo = {} /\ w.channels # {}
      /\ CalendarTypeOK /\ w.channels \subseteq Channels /\ w.done \subseteq Channels
      /\ [meetings EXCEPT ![m] = row] = meetings /\ SameShown(row, row)
      /\ call \in [Handlers -> Calls]
  BY <1>1, <1>2 DEF AtHand, CalInv, CalendarTypeOK, ShapeOK, SameShown, Calls
<1>4. UNCHANGED <<meetings, google, blocked, inFlight, lost, tangled, unseen>>
  BY DEF Send
<1>5. PICK channel \in Channels, done \in SUBSET Channels :
        /\ call' = [call EXCEPT ![h].channels = @ \ {channel}, ![h].done = done,
                                ![h].pc = IF w.channels # {channel} THEN "send" ELSE "mark"]
        /\ told' = told \/ told' = [told EXCEPT ![m][channel] = @ + 1]
  <2> DEFINE first == IF "whatsapp" \in w.channels THEN "whatsapp" ELSE "email"
  <2>1. first \in Channels /\ w.done \cup {first} \subseteq Channels
    BY <1>3 DEF Channels
  <2>2. PICK done \in {w.done \cup {first}, w.done} :
          /\ call' = [call EXCEPT ![h].channels = @ \ {first}, ![h].done = done,
                                ![h].pc = IF w.channels # {first} THEN "send" ELSE "mark"]
          /\ told' = told \/ told' = [told EXCEPT ![m][first] = @ + 1]
    BY <1>3 DEF Send
  <2> HIDE DEF first
  <2> QED
    BY <1>3, <2>1, <2>2
<1>6. PICK c \in Calls : /\ Turns(h, c) /\ SameShown(row, row) /\ c.kind = w.kind
                         /\ c.pc = IF w.channels # {channel} THEN "send" ELSE "mark"
                         /\ c.meeting = m /\ c.seen = seen /\ c.event = w.event /\ c.todo = {}
                         /\ c.channels = w.channels \ {channel} /\ (c.force <=> w.force)
  <2> DEFINE c == [w EXCEPT !.channels = @ \ {channel}, !.done = done,
                            !.pc = IF w.channels # {channel} THEN "send" ELSE "mark"]
  <2>1. c \in Calls
    BY DEF Calls
  <2>2. /\ c.kind = w.kind /\ c.pc = IF w.channels # {channel} THEN "send" ELSE "mark"
        /\ c.meeting = m /\ c.seen = seen /\ c.event = w.event /\ c.todo = {}
        /\ c.channels = w.channels \ {channel} /\ (c.force <=> w.force)
    BY <1>3 DEF Calls
  <2>3. call' = [call EXCEPT ![h] = c]
    BY <1>3, <1>5
  <2> HIDE DEF c
  <2>4. Turns(h, c)
    BY <1>3, <2>1, <2>3 DEF Turns
  <2> QED
    BY <1>3, <2>1, <2>2, <2>4
<1>7. CalendarTypeOK'
  <2>1. told' \in [Meetings -> [Channels -> Nat]]
    <3>1. told \in [Meetings -> [Channels -> Nat]]
      BY <1>3 DEF CalendarTypeOK
    <3>2. told[m] \in [Channels -> Nat] /\ told[m][channel] + 1 \in Nat
      BY <3>1
    <3>3. [told[m] EXCEPT ![channel] = @ + 1] \in [Channels -> Nat]
      BY <3>2
    <3>4. [told EXCEPT ![m][channel] = @ + 1]
            = [told EXCEPT ![m] = [told[m] EXCEPT ![channel] = @ + 1]]
      BY <3>1
    <3> QED
      BY <1>5, <3>1, <3>3, <3>4
  <2> QED
    BY <1>3, <1>4, <1>6, <2>1 DEF CalendarTypeOK, Turns
<1>8. ShapeOK(c)
  <2>1. c.pc = "send" => c.channels # {}
    BY <1>3, <1>6
  <2>2. c.pc \in {"send", "mark"} /\ c.kind \in {"confirm", "remind"} /\ c.todo = {}
        /\ c.meeting \in Meetings /\ (c.kind = "confirm" => ~c.force)
    BY <1>3, <1>6 DEF ShapeOK
  <2> QED
    BY <2>1, <2>2 DEF ShapeOK
<1>9. HandOK(m, row, c, google, lost)
  BY <1>6 DEF HandOK
<1>10. /\ c.todo = {} /\ c.kind # "create" /\ c.pc # "idle" /\ c.meeting = m
       /\ c.event = w.event /\ c.seen.event = seen.event
  BY <1>3, <1>6
<1> QED
  BY <1>2, <1>3, <1>4, <1>6, <1>7, <1>8, <1>9, <1>10, QuietStep

\* The messages are marked on the row.
LEMMA MarkSentStep == ASSUME CalInv, NEW h \in Handlers, MarkSent(h) PROVE CalInv'
<1>1. call[h].pc = "mark" /\ Closes(h)
  BY DEF MarkSent
<1>2. PICK w \in Calls, m \in Meetings, row \in Rows, seen \in Rows :
        AtHand(h, w, m, row, seen)
  BY <1>1, AtWork
<1>3. /\ w = call[h] /\ m = w.meeting /\ row = meetings[m] /\ ShapeOK(w)
      /\ w.pc = "mark" /\ w.kind \in {"confirm", "remind"} /\ w.todo = {} /\ CalendarTypeOK
      /\ [meetings EXCEPT ![m] = row] = meetings /\ w.done \subseteq Channels
      /\ meetings \in [Meetings -> Rows] /\ inFlight \subseteq Meetings
  BY <1>1, <1>2 DEF AtHand, CalInv, CalendarTypeOK, ShapeOK, Calls
<1>4. /\ UNCHANGED <<google, blocked, told, lost, tangled>>
      /\ inFlight' \subseteq Meetings /\ unseen' \in {unseen, unseen \cup {m}}
  BY <1>3 DEF MarkSent, Released
<1>5. PICK next \in Rows : meetings' = [meetings EXCEPT ![m] = next] /\ SameShown(row, next)
  <2> DEFINE marked == [row EXCEPT !.sent = @ \cup w.done, !.recent = TRUE]
  <2>1. marked \in Rows /\ SameShown(row, marked)
    BY <1>3 DEF Rows, SameShown
  <2>2. \/ meetings' = meetings
        \/ meetings' = [meetings EXCEPT ![m].sent = @ \cup w.done, ![m].recent = TRUE]
    BY <1>3 DEF MarkSent
  <2>3. [meetings EXCEPT ![m].sent = @ \cup w.done, ![m].recent = TRUE]
          = [meetings EXCEPT ![m] = marked]
    BY <1>3
  <2>4. SameShown(row, row)
    BY DEF SameShown
  <2> HIDE DEF marked
  <2> QED
    BY <1>3, <2>1, <2>2, <2>3, <2>4
<1>6. Turns(h, IdleCall) /\ ShapeOK(IdleCall)
  BY <1>1, <1>3, ClosesTurns, Empties DEF ShapeOK
<1>7. CalendarTypeOK'
  BY <1>3, <1>4, <1>5, <1>6 DEF CalendarTypeOK, Turns
<1>8. HandOK(m, next, IdleCall, google, lost)
  BY Empties DEF HandOK, HandOn
<1>9. /\ IdleCall \in Calls /\ IdleCall.todo = {} /\ IdleCall.kind \notin {"create", "confirm"}
      /\ IdleCall.event = None /\ IdleCall.seen.event = None
  BY Empties
<1>10. /\ w.pc \in {"confirm", "reread", "decide", "send", "mark"} /\ w.kind # "create"
       /\ w.todo = {} /\ UNCHANGED <<google, lost, tangled>>
  BY <1>3, <1>4
<1>11. IdleCall.kind = "confirm" => w.kind = "confirm"
  BY <1>9
<1>12. /\ IdleCall.event \in {None, row.event, w.event}
       /\ IdleCall.seen.event \in {None, row.event, seen.event}
  BY <1>9
<1> QED
  BY <1>2, <1>5, <1>6, <1>7, <1>8, <1>9, <1>10, <1>11, <1>12, QuietStep

\* What follows the patch of a row.
LEMMA StepChosen ==
    ASSUME NEW row \in Rows, NEW seen \in Rows, NEW dto \in CalendarEdits
    PROVE  LET step == CalendarStep(row, seen, dto)
               offline == Given(dto, "phone", seen.phone)
               event == IF row.event # None THEN row.event ELSE seen.event
           IN  \/ /\ offline /\ seen.event # None
                  /\ step.pc = "dropOld" /\ step.event = seen.event
               \/ /\ offline /\ seen.event = None
                  /\ step.pc = "idle"
               \/ /\ ~offline /\ ~CalendarRelevant(seen, dto) /\ seen.event # None
                  /\ step.pc = "idle"
               \/ /\ ~offline /\ event # None
                  /\ step.pc = "patchEvent" /\ step.event = event
               \/ /\ ~offline /\ (event = None \/ BecameOnline(seen, dto))
                  /\ step.pc = "google" /\ step.event = None
<1> DEFINE offline == Given(dto, "phone", seen.phone)
           event == IF row.event # None THEN row.event ELSE seen.event
           relevant == CalendarRelevant(seen, dto)
           online == BecameOnline(seen, dto)
<1>1. offline \in BOOLEAN /\ relevant \in BOOLEAN /\ online \in BOOLEAN
  BY GivenTyped DEF CalendarRelevant, BecameOnline
<1>2. CalendarStep(row, seen, dto) =
          CASE offline -> [pc |-> Offline(seen), event |-> seen.event]
            [] ~offline /\ ~relevant /\ seen.event # None -> [pc |-> "idle", event |-> None]
            [] ~offline /\ (relevant \/ seen.event = None) /\ event # None /\ ~online ->
                   [pc |-> "patchEvent", event |-> event]
            [] OTHER -> [pc |-> "google", event |-> None]
  BY DEF CalendarStep
<1> HIDE DEF offline, event, relevant, online
<1>3. CASE offline
  BY <1>2, <1>3 DEF Offline, offline
<1>4. CASE ~offline /\ ~relevant /\ seen.event # None
  BY <1>2, <1>4 DEF offline, relevant
<1>5. CASE ~offline /\ (relevant \/ seen.event = None) /\ event # None /\ ~online
  BY <1>2, <1>5 DEF offline, event
<1>6. CASE ~offline /\ (relevant \/ seen.event = None) /\ (event = None \/ online)
  BY <1>1, <1>2, <1>6 DEF offline, event, online
<1> QED
  BY <1>1, <1>3, <1>4, <1>5, <1>6

\* update: the row is patched, and what is left to do depends on the row that was read.
LEMMA PatchRowStep == ASSUME CalInv, NEW h \in Handlers, PatchRow(h) PROVE CalInv'
<1>1. call[h].pc = "patchRow"
  BY DEF PatchRow
<1>2. PICK w \in Calls, m \in Meetings, row \in Rows, seen \in Rows :
        AtHand(h, w, m, row, seen)
  BY <1>1, AtWork
<1>3. /\ w = call[h] /\ m = w.meeting /\ row = meetings[m] /\ seen = w.seen
      /\ w.pc = "patchRow" /\ ShapeOK(w) /\ w.kind = "update" /\ w.todo = {}
      /\ row.state # "absent" /\ w.dto \in CalendarEdits
      /\ row.event \in Events \cup {None} /\ seen.event \in Events \cup {None}
      /\ row.phone \in BOOLEAN /\ CalendarTypeOK
      /\ meetings \in [Meetings -> Rows] /\ call \in [Handlers -> Calls]
  BY <1>1, <1>2 DEF AtHand, ShapeOK, MadeOK, Calls, Rows, CalInv, CalendarTypeOK
<1>4. UNCHANGED <<google, blocked, inFlight, tangled, unseen>>
  BY DEF PatchRow
<1>5. ASSUME m \notin tangled
      PROVE  /\ Agrees(row, seen) /\ RowOK(row)
             /\ row.event \notin {None} \cup lost => Shows(row.event, row.date, google)
             /\ \A f \in Events : google[f].meeting = m /\ google[f].state = "live"
                                  /\ f \notin lost => row.event = f
  <2>1. /\ HandOn(m, w) /\ RowOK(row) /\ LiveOK(m, row, w, google, lost)
        /\ StrayOK(m, row, w, google, lost) /\ HandOK(m, row, w, google, lost)
    BY <1>2, <1>5 DEF AtHand, Good
  <2>2. Agrees(row, seen)
    BY <1>3, <2>1 DEF HandOK
  <2> QED
    BY <1>3, <2>1, <2>2 DEF LiveOK, StrayOK
<1>6. \A f \in {row.event, w.event, seen.event} :
         f # None => google'[f].meeting = m /\ google'[f].state # "free"
  BY <1>2, <1>4 DEF AtHand, Owned
<1>7. CASE Closes(h) /\ UNCHANGED <<meetings, told, lost>>
  <2>1. CalendarTypeOK'
    BY <1>3, <1>4, <1>7, ClosesTurns, Empties DEF CalendarTypeOK, Turns
  <2>2. Within(m)
    BY <1>4, <1>7 DEF Within
  <2>3. m \notin tangled => /\ RowOK(row) /\ LiveOK(m, row, IdleCall, google', lost')
                            /\ StrayOK(m, row, IdleCall, google', lost')
    BY <1>4, <1>5, <1>7 DEF LiveOK, StrayOK
  <2> QED
    BY <1>1, <1>2, <1>3, <1>4, <1>6, <1>7, <2>1, <2>2, <2>3, EndStep
<1> DEFINE dto == w.dto
           new == PatchedRow(row, dto)
           step == CalendarStep(new, seen, dto)
           offline == Given(dto, "phone", seen.phone)
<1>8. /\ new \in Rows /\ new.state = row.state
      /\ new.phone = Given(dto, "phone", row.phone)
      /\ new.date = Given(dto, "date", row.date)
      /\ new.link = (row.link /\ ~Given(dto, "phone", FALSE))
      /\ new.event = IF Given(dto, "phone", FALSE) THEN None ELSE row.event
      /\ offline \in BOOLEAN /\ Given(dto, "phone", row.phone) \in BOOLEAN
      /\ Given(dto, "phone", FALSE) \in BOOLEAN
  <2>1. dto \in CalendarEdits \cup {<<>>}
    BY <1>3
  <2>2. /\ new \in Rows /\ new.state = row.state
        /\ new.phone = Given(dto, "phone", row.phone)
        /\ new.date = Given(dto, "date", row.date)
        /\ new.link = (row.link /\ ~Given(dto, "phone", FALSE))
        /\ new.event = IF Given(dto, "phone", FALSE) THEN None ELSE row.event
    BY <2>1, PatchTyped
  <2>3. /\ offline \in BOOLEAN /\ Given(dto, "phone", row.phone) \in BOOLEAN
        /\ Given(dto, "phone", FALSE) \in BOOLEAN
    BY <2>1, GivenTyped
  <2> QED
    BY <2>2, <2>3
<1>9. /\ new.event \in {None, row.event}
      /\ Given(dto, "phone", FALSE) => Given(dto, "phone", row.phone)
      /\ Given(dto, "phone", row.phone) => Given(dto, "phone", FALSE) \/ row.phone
      /\ row.phone = seen.phone => offline = Given(dto, "phone", row.phone)
      /\ ~CalendarRelevant(seen, dto) => ~Given(dto, "phone", FALSE) /\ new.date = row.date
  BY <1>8 DEF Given, CalendarRelevant
<1>10. \/ /\ offline /\ seen.event # None
          /\ step.pc = "dropOld" /\ step.event = seen.event
       \/ /\ offline /\ seen.event = None
          /\ step.pc = "idle"
       \/ /\ ~offline /\ ~CalendarRelevant(seen, dto) /\ seen.event # None
          /\ step.pc = "idle"
       \/ /\ ~offline /\ (new.event # None \/ seen.event # None)
          /\ step.pc = "patchEvent"
          /\ step.event = IF new.event # None THEN new.event ELSE seen.event
       \/ /\ ~offline /\ ((new.event = None /\ seen.event = None) \/ BecameOnline(seen, dto))
          /\ step.pc = "google" /\ step.event = None
  <2> DEFINE event == IF new.event # None THEN new.event ELSE seen.event
  <2>1. new \in Rows /\ dto \in CalendarEdits
    BY <1>3, <1>8
  <2>2. \/ /\ offline /\ seen.event # None
           /\ step.pc = "dropOld" /\ step.event = seen.event
        \/ /\ offline /\ seen.event = None
           /\ step.pc = "idle"
        \/ /\ ~offline /\ ~CalendarRelevant(seen, dto) /\ seen.event # None
           /\ step.pc = "idle"
        \/ /\ ~offline /\ event # None
           /\ step.pc = "patchEvent" /\ step.event = event
        \/ /\ ~offline /\ (event = None \/ BecameOnline(seen, dto))
           /\ step.pc = "google" /\ step.event = None
    <3> HIDE DEF new, dto
    <3> QED
      BY <2>1, StepChosen
  <2> QED
    BY <2>2
<1> HIDE DEF new, step, offline, dto
<1>11. CASE /\ OnFile(m) /\ meetings' = [meetings EXCEPT ![m] = new]
            /\ told' = told \/ told' = [told EXCEPT ![m] = NoneTold]
            /\ lost' = lost
            /\ IF step.pc = "idle" THEN Closes(h)
               ELSE call' = [call EXCEPT ![h].pc = step.pc, ![h].event = step.event,
                                         ![h].seen = new]
  <2>1. /\ meetings'[m] = new /\ \A n \in Meetings \ {m} : meetings'[n] = meetings[n]
        /\ meetings' \in [Meetings -> Rows] /\ told' \in [Meetings -> [Channels -> Nat]]
        /\ row.state = "there" /\ lost' = lost
    <3>1. told \in [Meetings -> [Channels -> Nat]] /\ NoneTold \in [Channels -> Nat]
      BY <1>3 DEF CalendarTypeOK, NoneTold
    <3>2. told' \in [Meetings -> [Channels -> Nat]]
      BY <1>11, <3>1
    <3> QED
      BY <1>3, <1>8, <1>11, <3>2 DEF OnFile
  <2>2. Within(m)
    BY <1>4, <2>1 DEF Within
  <2>3. m \notin tangled => RowOK(new)
    BY <1>5, <1>8, <1>9, <2>1 DEF RowOK
  <2>4. new.event # None => google'[new.event].meeting = m /\ google'[new.event].state # "free"
    BY <1>6, <1>9
  <2>5. CASE step.pc = "idle"
    <3>1. CalendarTypeOK'
      BY <1>3, <1>4, <1>11, <2>1, <2>5, ClosesTurns, Empties DEF CalendarTypeOK, Turns
    <3>2. ASSUME m \notin tangled
          PROVE  /\ LiveOK(m, new, IdleCall, google', lost')
                 /\ StrayOK(m, new, IdleCall, google', lost')
      <4>1. CASE offline /\ seen.event = None
        <5>1. row.event = None /\ new.event = None
          BY <1>5, <1>9, <3>2, <4>1 DEF Agrees
        <5> QED
          BY <1>4, <1>5, <2>1, <3>2, <5>1, CalendarAssumption DEF LiveOK, StrayOK
      <4>2. CASE ~CalendarRelevant(seen, dto)
        <5>1. new.event = row.event /\ new.date = row.date
          BY <1>8, <1>9, <4>2
        <5> QED
          BY <1>4, <1>5, <2>1, <3>2, <5>1 DEF LiveOK, StrayOK
      <4> QED
        BY <1>10, <2>5, <4>1, <4>2
    <3>3. /\ call[h].pc \notin {"idle", "row"} /\ new.state # "absent" /\ Closes(h)
      BY <1>1, <1>3, <1>8, <1>11, <2>5
    <3> QED
      BY <1>2, <1>3, <2>1, <2>2, <2>3, <2>4, <3>1, <3>2, <3>3, EndStep
  <2>6. CASE step.pc # "idle"
    <3>1. step.pc \in {"dropOld", "patchEvent", "google"} /\ step.event \in Events \cup {None}
      BY <1>3, <1>9, <1>10, <2>6
    <3>2. PICK c \in Calls : /\ Turns(h, c) /\ SameWork(w, c) /\ c.pc = step.pc
                             /\ c.event = step.event /\ c.seen = new
      <4> DEFINE c == [w EXCEPT !.pc = step.pc, !.event = step.event, !.seen = new]
      <4>1. c \in Calls
        BY <1>8, <3>1 DEF Calls
      <4>2. /\ SameWork(w, c) /\ c.pc = step.pc /\ c.event = step.event /\ c.seen = new
        BY DEF Calls, SameWork
      <4>3. call' = [call EXCEPT ![h] = c]
        BY <1>3, <1>11, <2>6
      <4> HIDE DEF c
      <4>4. Turns(h, c)
        BY <1>3, <4>1, <4>3 DEF Turns
      <4> QED
        BY <4>1, <4>2, <4>4
    <3>3. CalendarTypeOK'
      BY <1>3, <1>4, <2>1, <3>2 DEF CalendarTypeOK, Turns
    <3>4. ShapeOK(c) /\ c.pc # "idle" /\ c.meeting = m /\ c.todo = w.todo /\ c.kind = "update"
      <4>1. c.pc \in {"patchEvent", "dropOld"} => c.event # None
        BY <1>10, <3>1, <3>2
      <4>2. /\ c.kind = "update" /\ c.meeting = m /\ c.todo = {} /\ w.todo = {}
            /\ c.pc \in {"dropOld", "patchEvent", "google"}
        BY <1>3, <3>1, <3>2 DEF SameWork
      <4> QED
        BY <1>3, <4>1, <4>2 DEF ShapeOK
    <3>5. ASSUME m \notin tangled PROVE Good(m, meetings'[m], c, google', lost')
      <4>1. TodoOK(m, new, c)
        BY <1>3, <3>4 DEF TodoOK
      <4>2. CASE offline /\ step.pc = "dropOld" /\ step.event = seen.event
        <5>1. new.event = None /\ row.event = c.event
          BY <1>5, <1>8, <1>9, <3>2, <3>5, <4>2 DEF Agrees, RowOK
        <5>2. HandOK(m, new, c, google', lost') /\ LiveOK(m, new, c, google', lost')
          BY <3>2, <4>2, <5>1 DEF HandOK, LiveOK
        <5>3. StrayOK(m, new, c, google', lost')
          BY <1>4, <1>5, <2>1, <3>2, <3>4, <3>5, <4>2, <5>1 DEF StrayOK, HandOn
        <5> QED
          BY <2>1, <2>3, <3>5, <4>1, <5>2, <5>3 DEF Good
      <4>3. CASE /\ ~offline /\ step.pc = "patchEvent"
                 /\ step.event = IF new.event # None THEN new.event ELSE seen.event
        <5>1. new.event = row.event /\ ~new.phone /\ c.event = row.event
          BY <1>5, <1>8, <1>9, <3>2, <3>5, <4>3 DEF Agrees
        <5>2. HandOK(m, new, c, google', lost') /\ LiveOK(m, new, c, google', lost')
          BY <1>8, <2>1, <3>2, <3>4, <4>3, <5>1 DEF HandOK, LiveOK, Agrees, HandOn
        <5>3. StrayOK(m, new, c, google', lost')
          BY <1>4, <1>5, <2>1, <3>5, <5>1 DEF StrayOK
        <5> QED
          BY <2>1, <2>3, <3>5, <4>1, <5>2, <5>3 DEF Good
      <4>4. CASE /\ ~offline /\ step.pc = "google" /\ step.event = None
                 /\ (new.event = None /\ seen.event = None) \/ BecameOnline(seen, dto)
        <5>1. row.event = None /\ new.event = None /\ ~new.phone /\ c.event = None
          BY <1>5, <1>8, <1>9, <3>2, <3>5, <4>4 DEF Agrees, RowOK, BecameOnline
        <5>2. HandOK(m, new, c, google', lost') /\ LiveOK(m, new, c, google', lost')
          BY <1>8, <2>1, <3>2, <3>4, <4>4, <5>1 DEF HandOK, LiveOK, Agrees
        <5>3. StrayOK(m, new, c, google', lost')
          BY <1>4, <1>5, <2>1, <3>5, <5>1, CalendarAssumption DEF StrayOK
        <5> QED
          BY <2>1, <2>3, <3>5, <4>1, <5>2, <5>3 DEF Good
      <4> QED
        BY <1>10, <2>6, <4>2, <4>3, <4>4
    <3>6. \A f \in {meetings'[m].event, c.event, c.seen.event} :
              f # None => google'[f].meeting = m /\ google'[f].state # "free"
      <4>1. c.event \in {None, new.event, seen.event} /\ c.seen.event = new.event
        BY <1>10, <2>6, <3>2
      <4> QED
        BY <1>6, <2>1, <2>4, <4>1
    <3>7. /\ call[h].pc \notin {"idle", "row"} /\ call[h].meeting = m
          /\ meetings'[m].state # "absent"
      BY <1>1, <1>3, <1>8, <2>1
    <3> QED
      BY <1>3, <2>1, <2>2, <3>2, <3>3, <3>4, <3>5, <3>6, <3>7, WorkerStep
  <2> QED
    BY <2>5, <2>6
<1>12. CASE /\ OnFile(m) /\ meetings' = [meetings EXCEPT ![m] = new]
            /\ told' = told \/ told' = [told EXCEPT ![m] = NoneTold]
            /\ Closes(h) /\ lost' = lost \cup ({new.event, seen.event} \ {None})
  <2>1. /\ meetings'[m] = new /\ \A n \in Meetings \ {m} : meetings'[n] = meetings[n]
        /\ meetings' \in [Meetings -> Rows] /\ told' \in [Meetings -> [Channels -> Nat]]
        /\ row.state = "there" /\ new.state # "absent"
    <3>1. told \in [Meetings -> [Channels -> Nat]] /\ NoneTold \in [Channels -> Nat]
      BY <1>3 DEF CalendarTypeOK, NoneTold
    <3>2. told' \in [Meetings -> [Channels -> Nat]]
      BY <1>12, <3>1
    <3> QED
      BY <1>3, <1>8, <1>12, <3>2 DEF OnFile
  <2>2. Within(m)
    BY <1>4, <1>6, <1>9, <1>12, <2>1 DEF Within
  <2>3. CalendarTypeOK'
    BY <1>3, <1>4, <1>9, <1>12, <2>1, ClosesTurns, Empties DEF CalendarTypeOK, Turns
  <2>4. new.event # None => google'[new.event].meeting = m /\ google'[new.event].state # "free"
    BY <1>6, <1>9
  <2>5. ASSUME m \notin tangled
        PROVE  /\ RowOK(new) /\ LiveOK(m, new, IdleCall, google', lost')
               /\ StrayOK(m, new, IdleCall, google', lost')
    <3>1. RowOK(new)
      BY <1>5, <1>8, <1>9, <2>1, <2>5 DEF RowOK
    <3>2. LiveOK(m, new, IdleCall, google', lost')
      BY <1>12 DEF LiveOK
    <3>3. StrayOK(m, new, IdleCall, google', lost')
      BY <1>4, <1>5, <1>12, <2>5, CalendarAssumption DEF StrayOK, Agrees
    <3> QED
      BY <3>1, <3>2, <3>3
  <2> QED
    BY <1>1, <1>2, <1>3, <1>12, <2>1, <2>2, <2>3, <2>4, <2>5, EndStep
<1> QED
  BY <1>3, <1>7, <1>11, <1>12 DEF PatchRow, dto, new, step

\* backfillMeetLinks: the next row is taken, as it was read.
LEMMA BackfillRowStep == ASSUME CalInv, NEW h \in Handlers, BackfillRow(h) PROVE CalInv'
<1>1. PICK w \in Calls : w = call[h] /\ w.pc = "row" /\ ShapeOK(w) /\ MadeOK(w) /\ HoldsOwn(w)
  BY DEF BackfillRow, CalInv, CalendarTypeOK, ShapeInv, MadeInv, OwnInv
<1>2. /\ w.kind = "backfill" /\ CalendarTypeOK /\ call \in [Handlers -> Calls]
      /\ UNCHANGED <<meetings, google, blocked, inFlight, calendarHistory>>
  BY <1>1 DEF ShapeOK, Calls, CalInv, CalendarTypeOK, BackfillRow
<1>3. PICK r \in w.todo : call' = [call EXCEPT ![h].meeting = r.meeting, ![h].seen = r.row,
             ![h].todo = @ \ {r}, ![h].event = None, ![h].link = FALSE,
             ![h].pc = IF r.row.phone THEN "store" ELSE "google"]
  BY <1>1 DEF BackfillRow
<1>4. PICK m \in Meetings, read \in Rows : m = r.meeting /\ read = r.row
  BY <1>1, <1>3 DEF Calls
<1>5. PICK c \in Calls :
        /\ Turns(h, c) /\ c.kind = "backfill" /\ c.meeting = m /\ c.seen = read
        /\ c.todo = w.todo \ {r} /\ c.event = None /\ ~c.link
        /\ c.pc \in {"store", "google"} /\ (c.pc = "google" => ~read.phone)
        /\ ~(c.pc \in {"store", "drop"} /\ c.link)
  <2> DEFINE c == [w EXCEPT !.meeting = m, !.seen = read, !.todo = @ \ {r}, !.event = None,
                            !.link = FALSE, !.pc = IF read.phone THEN "store" ELSE "google"]
  <2>1. c \in Calls
    BY DEF Calls
  <2>2. /\ c.kind = "backfill" /\ c.meeting = m /\ c.seen = read
        /\ c.todo = w.todo \ {r} /\ c.event = None /\ ~c.link
        /\ c.pc \in {"store", "google"} /\ (c.pc = "google" => ~read.phone)
    BY <1>2 DEF Calls, Rows
  <2>3. call' = [call EXCEPT ![h] = c]
    BY <1>1, <1>2, <1>3, <1>4
  <2> HIDE DEF c
  <2>4. Turns(h, c)
    BY <1>2, <2>1, <2>3 DEF Turns
  <2> QED
    BY <2>1, <2>2, <2>4
<1>6. CalendarTypeOK'
  BY <1>2, <1>5 DEF CalendarTypeOK, Turns, calendarHistory
<1>7. /\ m # w.meeting
      /\ \A s \in w.todo : s.meeting # w.meeting /\ (s.meeting = m => s = r)
  BY <1>1, <1>4 DEF ShapeOK
<1>8. ShapeInv'
  <2>1. ShapeOK(c)
    BY <1>1, <1>5, <1>7 DEF ShapeOK
  <2> QED
    BY <1>5, <2>1 DEF Turns, CalInv, ShapeInv
<1>9. MadeInv' /\ MakerInv'
  BY <1>1, <1>2, <1>4, <1>5 DEF Turns, CalInv, MadeInv, MadeOK, MakerInv
<1>10. OwnInv'
  <2>1. HoldsOwn(c)
    BY <1>1, <1>4, <1>5 DEF HoldsOwn, Owned
  <2> QED
    BY <1>2, <1>5, <2>1 DEF Turns, CalInv, OwnInv, HoldsOwn, Owned
<1>11. AloneInv'
  <2> SUFFICES ASSUME NEW n \in Meetings \ tangled
               PROVE  /\ \A a \in Working(n)', b \in Working(n)' : a = b
                      /\ \A o \in Working(n)' : Good(n, meetings[n], call'[o], google, lost)
                      /\ Working(n)' = {} => Good(n, meetings[n], IdleCall, google, lost)
    BY <1>2 DEF AloneInv, calendarHistory
  <2>1. /\ \A a \in Working(n), b \in Working(n) : a = b
        /\ \A o \in Working(n) : Good(n, meetings[n], call[o], google, lost)
        /\ Working(n) = {} => Good(n, meetings[n], IdleCall, google, lost)
    BY DEF CalInv, AloneInv
  <2>2. \A o \in Handlers \ {h} : call'[o] = call[o] /\ (o \in Working(n)' <=> o \in Working(n))
    BY <1>5 DEF Working, Turns
  <2>3. /\ h \in Working(n)' <=> n = m \/ \E s \in w.todo \ {r} : s.meeting = n
        /\ h \in Working(n) <=> n = w.meeting \/ n = m \/ \E s \in w.todo \ {r} : s.meeting = n
    BY <1>1, <1>4, <1>5 DEF Working, Turns
  <2>4. h \in Working(n) => Good(n, meetings[n], w, google, lost)
    BY <1>1, <2>1
  <2>5. CASE n = m
    <3>1. Good(n, meetings[n], w, google, lost) /\ h \in Working(n) /\ h \in Working(n)'
      BY <2>3, <2>4, <2>5
    <3>2. /\ meetings[n].state = "there" /\ ~meetings[n].link /\ meetings[n].event = None
          /\ read.event = None /\ read.phone = meetings[n].phone
          /\ read.date = meetings[n].date
      BY <1>4, <2>5, <3>1 DEF Good, TodoOK
    <3>3. TodoOK(n, meetings[n], c)
      BY <1>5, <1>7, <2>5 DEF TodoOK
    <3>4. LiveOK(n, meetings[n], c, google, lost) /\ RowOK(meetings[n])
      BY <3>1, <3>2 DEF LiveOK, Good
    <3>5. StrayOK(n, meetings[n], c, google, lost)
      BY <1>1, <3>1, <3>2, CalendarAssumption DEF StrayOK, Good, HandOn
    <3>6. HandOK(n, meetings[n], c, google, lost)
      BY <1>5, <3>2 DEF HandOK, Agrees
    <3>7. Good(n, meetings[n], c, google, lost)
      BY <3>3, <3>4, <3>5, <3>6 DEF Good
    <3> QED
      BY <1>5, <2>1, <2>2, <3>1, <3>7 DEF Turns, Working
  <2>6. CASE n = w.meeting
    <3>1. Good(n, meetings[n], w, google, lost) /\ h \in Working(n) /\ h \notin Working(n)'
      BY <1>7, <2>3, <2>4, <2>6
    <3>2. Working(n)' = {}
      BY <2>1, <2>2, <3>1 DEF Working
    <3>3. Good(n, meetings[n], IdleCall, google, lost)
      BY <1>1, <3>1, Empties DEF Good, LiveOK, StrayOK, TodoOK, HandOK, HandOn
    <3> QED
      BY <3>2, <3>3
  <2>7. CASE n # m /\ n # w.meeting
    <3>1. Working(n)' = Working(n)
      BY <2>2, <2>3, <2>7 DEF Working
    <3>2. h \in Working(n) => Good(n, meetings[n], c, google, lost)
      <4>1. ~HandOn(n, w) /\ ~HandOn(n, c) /\ c.todo \subseteq w.todo
        BY <1>5, <2>7 DEF HandOn
      <4> QED
        BY <2>4, <4>1 DEF Good, LiveOK, StrayOK, TodoOK, HandOK
    <3> QED
      BY <1>5, <2>1, <2>2, <3>1, <3>2 DEF Turns, Working
  <2> QED
    BY <2>5, <2>6, <2>7
<1> QED
  BY <1>6, <1>8, <1>9, <1>10, <1>11 DEF CalInv

\* backfillMeetLinks: all rows without a link are read at once.
LEMMA BackfillStep == ASSUME CalInv, NEW h \in Handlers, Backfill(h) PROVE CalInv'
<1> DEFINE rows == {m \in Meetings : OnFile(m) /\ ~meetings[m].link}
           list == {[meeting |-> m, row |-> meetings[m]] : m \in rows}
<1>1. /\ call[h].pc = "idle" /\ CalendarTypeOK /\ call \in [Handlers -> Calls]
      /\ meetings \in [Meetings -> Rows]
      /\ UNCHANGED <<meetings, google, blocked, inFlight, told, lost, unseen>>
      /\ call' = [call EXCEPT ![h] =
                   [IdleCall EXCEPT !.pc = "row", !.kind = "backfill", !.todo = list]]
      /\ tangled' = tangled \cup {m \in rows : Working(m) # {}}
  BY DEF Backfill, CalInv, CalendarTypeOK
<1>2. PICK c \in Calls :
        /\ Turns(h, c) /\ c.pc = "row" /\ c.kind = "backfill" /\ c.todo = list
        /\ c.meeting = None /\ c.event = None /\ c.seen = NoMeeting
  <2> DEFINE c == [IdleCall EXCEPT !.pc = "row", !.kind = "backfill", !.todo = list]
  <2>1. list \subseteq [meeting : Meetings, row : Rows]
    BY <1>1
  <2> HIDE DEF list
  <2>2. c \in Calls
    BY <2>1, Empties DEF Calls
  <2>3. /\ c.pc = "row" /\ c.kind = "backfill" /\ c.todo = list
        /\ c.meeting = None /\ c.event = None /\ c.seen = NoMeeting
    BY DEF IdleCall
  <2>4. call' = [call EXCEPT ![h] = c]
    BY <1>1
  <2> HIDE DEF c
  <2>5. Turns(h, c)
    BY <1>1, <2>2, <2>4 DEF Turns
  <2> QED
    BY <2>2, <2>3, <2>5
<1>3. \A r \in c.todo : /\ r.meeting \in rows /\ r.row = meetings[r.meeting]
                        /\ r = [meeting |-> r.meeting, row |-> meetings[r.meeting]]
  BY <1>2
<1>4. ASSUME NEW m \in rows PROVE \E r \in c.todo : r.meeting = m
  <2>1. [meeting |-> m, row |-> meetings[m]] \in c.todo
    BY <1>2
  <2> QED
    BY <2>1
<1> HIDE DEF list
<1>5. CalendarTypeOK'
  BY <1>1, <1>2 DEF CalendarTypeOK, Turns
<1>6. ShapeInv'
  <2>1. /\ \A r \in c.todo : r.meeting # c.meeting
        /\ \A r \in c.todo, s \in c.todo : r.meeting = s.meeting => r = s
    BY <1>2, <1>3, CalendarAssumption
  <2>2. ShapeOK(c)
    BY <1>2, <2>1 DEF ShapeOK
  <2> QED
    BY <1>2, <2>2 DEF Turns, CalInv, ShapeInv
<1>7. MadeInv' /\ MakerInv'
  BY <1>1, <1>2, <1>3 DEF Turns, CalInv, MadeInv, MadeOK, MakerInv, OnFile
<1>8. OwnInv'
  <2>1. HoldsOwn(c)
    BY <1>2, <1>3, Empties DEF HoldsOwn, Owned, CalInv, OwnInv
  <2> QED
    BY <1>1, <1>2, <2>1 DEF Turns, CalInv, OwnInv, HoldsOwn, Owned
<1>9. AloneInv'
  <2> SUFFICES ASSUME NEW n \in Meetings \ tangled'
               PROVE  /\ \A a \in Working(n)', b \in Working(n)' : a = b
                      /\ \A o \in Working(n)' : Good(n, meetings[n], call'[o], google, lost)
                      /\ Working(n)' = {} => Good(n, meetings[n], IdleCall, google, lost)
    BY <1>1 DEF AloneInv
  <2>1. n \notin tangled /\ (n \in rows => Working(n) = {})
    BY <1>1
  <2>2. /\ \A a \in Working(n), b \in Working(n) : a = b
        /\ \A o \in Working(n) : Good(n, meetings[n], call[o], google, lost)
        /\ Working(n) = {} => Good(n, meetings[n], IdleCall, google, lost)
    BY <2>1 DEF CalInv, AloneInv
  <2>3. \A o \in Handlers \ {h} : call'[o] = call[o] /\ (o \in Working(n)' <=> o \in Working(n))
    BY <1>2 DEF Working, Turns
  <2>4. call[h].todo = {} /\ h \notin Working(n)
    BY <1>1 DEF CalInv, ShapeInv, ShapeOK, Working, CalendarTypeOK, Calls
  <2>5. h \in Working(n)' <=> n \in rows
    <3>1. call'[h] = c /\ n # None
      BY <1>2, CalendarAssumption DEF Turns
    <3>2. h \in Working(n)' <=> \E r \in c.todo : r.meeting = n
      BY <1>2, <3>1 DEF Working
    <3> QED
      BY <1>3, <1>4, <3>2
  <2>6. CASE n \in rows
    <3>1. Good(n, meetings[n], IdleCall, google, lost)
      BY <2>1, <2>2, <2>6
    <3>2. ~HandOn(n, c)
      BY <1>2, CalendarAssumption DEF HandOn
    <3>3. meetings[n].state = "there" /\ ~meetings[n].link /\ meetings[n].event = None
      BY <2>6, <3>1 DEF Good, RowOK, OnFile
    <3>4. TodoOK(n, meetings[n], c)
      BY <1>3, <3>3 DEF TodoOK
    <3>5. Good(n, meetings[n], c, google, lost)
      BY <3>1, <3>2, <3>4, Empties DEF Good, LiveOK, StrayOK, HandOK, HandOn
    <3>6. \A o \in Working(n)' : o = h
      BY <2>1, <2>3, <2>6 DEF Working
    <3> QED
      BY <1>2, <2>5, <2>6, <3>5, <3>6 DEF Turns
  <2>7. CASE n \notin rows
    <3>1. Working(n)' = Working(n)
      BY <2>3, <2>4, <2>5, <2>7 DEF Working
    <3> QED
      BY <2>2, <2>3, <2>4, <3>1 DEF Working
  <2> QED
    BY <2>6, <2>7
<1> QED
  BY <1>5, <1>6, <1>7, <1>8, <1>9 DEF CalInv

\* A request that starts on a meeting, and what it starts with.
LEMMA StartTurns ==
    ASSUME CalInv, NEW h \in Handlers, NEW m \in Meetings, NEW record, NEW c \in Calls,
           Starts(h, m, record), c = [record EXCEPT !.meeting = m]
    PROVE  /\ Turns(h, c) /\ call[h].pc = "idle"
           /\ tangled' = IF Working(m) = {} THEN tangled ELSE tangled \cup {m}
BY DEF Starts, Turns, CalInv, CalendarTypeOK

\* create.
LEMMA CreateStep == ASSUME CalInv, NEW h \in Handlers, NEW m \in Meetings, Create(h, m)
                    PROVE  CalInv'
<1>1. /\ meetings[m].state = "absent" /\ Working(m) = {} /\ CalendarTypeOK
      /\ UNCHANGED <<meetings, google, blocked, inFlight, told, lost, unseen>>
  BY DEF Create, CalInv
<1> DEFINE Seen(phone, date) ==
             [NoMeeting EXCEPT !.state = "there", !.phone = phone, !.date = date, !.active = TRUE]
           Record(phone, date, channels) ==
             [IdleCall EXCEPT !.pc = IF phone THEN "store" ELSE "google", !.kind = "create",
                              !.seen = Seen(phone, date), !.channels = channels]
<1>2. PICK phone \in BOOLEAN, date \in Dates, channels \in SUBSET Channels :
        Starts(h, m, Record(phone, date, channels))
  <2>1. PICK phone \in BOOLEAN, date \in Dates, notify \in BOOLEAN :
          Starts(h, m, Record(phone, date, IF notify THEN Channels ELSE {}))
    BY DEF Create
  <2> HIDE DEF Record
  <2> QED
    BY <2>1
<1> DEFINE seen == Seen(phone, date)
           c == [Record(phone, date, channels) EXCEPT !.meeting = m]
<1>3. /\ seen \in Rows /\ seen.state = "there" /\ seen.event = None /\ (seen.phone <=> phone)
  BY DEF NoMeeting, Rows
<1> HIDE DEF seen, Seen
<1>4. c = [IdleCall EXCEPT !.pc = IF phone THEN "store" ELSE "google", !.kind = "create",
                           !.seen = seen, !.channels = channels, !.meeting = m]
  BY DEF IdleCall, seen
<1>5. c \in Calls
  BY <1>3, <1>4, Empties DEF Calls
<1>6. /\ c.pc \in {"store", "google"} /\ (c.pc = "google" => ~phone) /\ c.kind = "create"
      /\ c.meeting = m /\ c.seen = seen /\ c.todo = {} /\ c.event = None
      /\ ~c.link /\ ~c.force
  BY <1>4 DEF IdleCall
<1>7. /\ Turns(h, c) /\ call[h].pc = "idle"
      /\ tangled' = IF Working(m) = {} THEN tangled ELSE tangled \cup {m}
  BY <1>2, <1>5, StartTurns
<1> HIDE DEF c
<1>8. CalendarTypeOK'
  BY <1>1, <1>7 DEF CalendarTypeOK, Turns
<1>9. ShapeOK(c)
  BY <1>3, <1>6 DEF ShapeOK
<1>10. RowOK(meetings[m]) => HandOK(m, meetings[m], c, google, lost)
  BY <1>1, <1>3, <1>6 DEF RowOK, HandOK
<1>11. Owned(m, c.event) /\ Owned(m, c.seen.event)
  BY <1>3, <1>6 DEF Owned
<1> QED
  BY <1>1, <1>5, <1>6, <1>7, <1>8, <1>9, <1>10, <1>11, StartStep

\* A request that starts on the row it reads.
Reads(c, m, kind, row) ==
    /\ c.kind = kind /\ c.meeting = m /\ c.seen = row /\ c.todo = {} /\ ~c.link
    /\ c.event \in {None, row.event}

\* A request that starts on a row it read keeps the invariant.
LEMMA ReadStep ==
    ASSUME CalInv, NEW h \in Handlers, NEW m \in Meetings, NEW record, NEW c \in Calls,
           NEW kind \in {"update", "remove", "regenerate", "remind"}, OnFile(m),
           Starts(h, m, record), c = [record EXCEPT !.meeting = m],
           Reads(c, m, kind, meetings[m]), ShapeOK(c), c.pc \notin {"idle", "row"},
           UNCHANGED <<meetings, google, blocked, inFlight, told, lost>>,
           unseen' = unseen \/ unseen' = unseen \cup {m},
           RowOK(meetings[m]) => HandOK(m, meetings[m], c, google, lost)
    PROVE  CalInv'
<1>1. /\ Turns(h, c) /\ call[h].pc = "idle"
      /\ tangled' = IF Working(m) = {} THEN tangled ELSE tangled \cup {m}
  BY StartTurns
<1>2. CalendarTypeOK'
  BY <1>1 DEF CalInv, CalendarTypeOK, Turns
<1>3. Owned(m, meetings[m].event) /\ meetings[m].state = "there"
  BY DEF CalInv, OwnInv, OnFile
<1>4. /\ Owned(m, c.event) /\ Owned(m, c.seen.event)
      /\ c.kind \notin {"create", "confirm"} /\ c.meeting = m /\ c.todo = {}
  BY <1>3 DEF Reads, Owned
<1> QED
  BY <1>1, <1>2, <1>3, <1>4, StartStep

\* update.
LEMMA UpdateMeetingStep == ASSUME CalInv, NEW h \in Handlers, NEW m \in Meetings,
                                  UpdateMeeting(h, m)
                           PROVE  CalInv'
<1>1. /\ OnFile(m) /\ meetings[m] \in Rows
      /\ UNCHANGED <<meetings, google, blocked, inFlight, told, lost, unseen>>
  BY DEF UpdateMeeting, CalInv, CalendarTypeOK
<1> DEFINE row == meetings[m]
           Record(dto) == [IdleCall EXCEPT !.pc = "patchRow", !.kind = "update",
                                           !.seen = row, !.dto = dto]
<1>2. PICK dto \in CalendarEdits : Starts(h, m, Record(dto))
  BY DEF UpdateMeeting
<1> DEFINE c == [Record(dto) EXCEPT !.meeting = m]
<1>3. c \in Calls
  BY <1>1, Empties DEF Calls
<1>4. c.pc = "patchRow" /\ c.dto = dto /\ Reads(c, m, "update", row)
  BY DEF IdleCall, Reads
<1> HIDE DEF c, Record
<1>5. ShapeOK(c)
  BY <1>4 DEF ShapeOK, Reads
<1>6. RowOK(row) => HandOK(m, row, c, google, lost)
  BY <1>1, <1>4 DEF HandOK, Agrees, Reads, OnFile
<1> QED
  BY <1>1, <1>2, <1>3, <1>4, <1>5, <1>6, ReadStep DEF c

\* remove.
LEMMA RemoveMeetingStep == ASSUME CalInv, NEW h \in Handlers, NEW m \in Meetings,
                                  RemoveMeeting(h, m)
                           PROVE  CalInv'
<1> DEFINE row == meetings[m]
           record == [IdleCall EXCEPT
                        !.pc = IF row.event # None THEN "deleteEvent" ELSE "deleteRow",
                        !.kind = "remove", !.seen = row, !.event = row.event]
           c == [record EXCEPT !.meeting = m]
<1>1. /\ OnFile(m) /\ row \in Rows /\ row.event \in Events \cup {None} /\ Starts(h, m, record)
      /\ UNCHANGED <<meetings, google, blocked, inFlight, told, lost, unseen>>
  BY DEF RemoveMeeting, CalInv, CalendarTypeOK, Rows
<1>2. c \in Calls
  BY <1>1, Empties DEF Calls
<1>3. /\ c.pc = IF row.event # None THEN "deleteEvent" ELSE "deleteRow"
      /\ Reads(c, m, "remove", row) /\ c.event = row.event
  BY DEF IdleCall, Reads
<1> HIDE DEF c, record
<1>4. ShapeOK(c)
  BY <1>3 DEF ShapeOK, Reads
<1>5. RowOK(row) => HandOK(m, row, c, google, lost)
  BY <1>1, <1>3 DEF HandOK, Agrees, Reads, OnFile
<1>6. c.pc \notin {"idle", "row"} /\ c = [record EXCEPT !.meeting = m]
  BY <1>3 DEF c
<1> QED
  BY <1>1, <1>2, <1>3, <1>4, <1>5, <1>6, ReadStep

\* regenerateMeetLink.
LEMMA RegenerateMeetLinkStep == ASSUME CalInv, NEW h \in Handlers, NEW m \in Meetings,
                                       RegenerateMeetLink(h, m)
                                PROVE  CalInv'
<1> DEFINE row == meetings[m]
           record == [IdleCall EXCEPT
                        !.pc = IF row.event # None THEN "patchEvent" ELSE "google",
                        !.kind = "regenerate", !.seen = row, !.event = row.event]
           c == [record EXCEPT !.meeting = m]
<1>1. /\ OnFile(m) /\ row \in Rows /\ row.event \in Events \cup {None} /\ Starts(h, m, record)
      /\ ~row.phone
      /\ UNCHANGED <<meetings, google, blocked, inFlight, told, lost, unseen>>
  BY DEF RegenerateMeetLink, CalInv, CalendarTypeOK, Rows
<1>2. c \in Calls
  BY <1>1, Empties DEF Calls
<1>3. /\ c.pc = IF row.event # None THEN "patchEvent" ELSE "google"
      /\ Reads(c, m, "regenerate", row) /\ c.event = row.event
  BY DEF IdleCall, Reads
<1> HIDE DEF c, record
<1>4. ShapeOK(c)
  BY <1>3 DEF ShapeOK, Reads
<1>5. RowOK(row) => HandOK(m, row, c, google, lost)
  BY <1>1, <1>3 DEF HandOK, Agrees, Reads, OnFile
<1>6. c.pc \notin {"idle", "row"} /\ c = [record EXCEPT !.meeting = m]
  BY <1>3 DEF c
<1> QED
  BY <1>1, <1>2, <1>3, <1>4, <1>5, <1>6, ReadStep

\* sendReminderForMeetingId.
LEMMA RemindStep == ASSUME CalInv, NEW h \in Handlers, NEW m \in Meetings, Remind(h, m)
                    PROVE  CalInv'
<1> DEFINE row == meetings[m]
           Record(channels, force) ==
              [IdleCall EXCEPT !.pc = "decide", !.kind = "remind", !.seen = row,
                               !.channels = channels, !.force = force]
<1>1. /\ OnFile(m) /\ row \in Rows
      /\ UNCHANGED <<meetings, google, blocked, inFlight, told, lost, unseen>>
  BY DEF Remind, CalInv, CalendarTypeOK
<1>2. PICK channels \in SUBSET Channels, force \in BOOLEAN : Starts(h, m, Record(channels, force))
  BY DEF Remind
<1> DEFINE c == [Record(channels, force) EXCEPT !.meeting = m]
<1>3. c \in Calls
  BY <1>1, Empties DEF Calls
<1>4. c.pc = "decide" /\ Reads(c, m, "remind", row)
  BY DEF IdleCall, Reads
<1> HIDE DEF c, Record
<1>5. ShapeOK(c)
  BY <1>4 DEF ShapeOK, Reads
<1>6. RowOK(row) => HandOK(m, row, c, google, lost)
  BY <1>1, <1>4 DEF HandOK, Agrees, Reads, OnFile
<1> QED
  BY <1>1, <1>2, <1>3, <1>4, <1>5, <1>6, ReadStep DEF c

\* The request is as it was, but that the time stamp it has read has passed.
SameHand(w, v) ==
    /\ SameWork(w, v) /\ v.pc = w.pc /\ v.event = w.event /\ v.link = w.link
    /\ v.dto = w.dto /\ SameShown(w.seen, v.seen)

\* Five minutes pass for every request.
LEMMA ForgetTurns ==
    ASSUME CalendarTypeOK, NEW m \in Meetings, Forget(m)
    PROVE  /\ call' \in [Handlers -> Calls]
           /\ \A h \in Handlers : SameHand(call[h], call'[h])
<1>1. ASSUME NEW h \in Handlers
      PROVE  call'[h] \in Calls /\ SameHand(call[h], call'[h])
  <2>1. PICK w \in Calls : w = call[h] /\ w.seen \in Rows
    BY DEF CalendarTypeOK, Calls
  <2>2. PICK row \in Rows : row = [w.seen EXCEPT !.recent = FALSE] /\ SameShown(w.seen, row)
    <3> DEFINE row == [w.seen EXCEPT !.recent = FALSE]
    <3>1. row \in Rows /\ SameShown(w.seen, row)
      BY <2>1 DEF Rows, SameShown
    <3> HIDE DEF row
    <3>2. \E r \in Rows : r = row /\ SameShown(w.seen, r)
      BY <3>1
    <3> QED
      BY <3>2 DEF row
  <2>3. PICK v \in Calls : v = [w EXCEPT !.seen = row] /\ SameHand(w, v)
    <3> DEFINE v == [w EXCEPT !.seen = row]
    <3>1. v \in Calls /\ SameHand(w, v)
      BY <2>2 DEF Calls, SameHand, SameWork
    <3> QED
      BY <3>1
  <2>4. [w EXCEPT !.seen.recent = FALSE] = v
    BY <2>2, <2>3
  <2>5. call'[h] = w \/ call'[h] = v
    BY <2>1, <2>4 DEF Forget
  <2>6. SameHand(w, w)
    BY DEF SameHand, SameWork, SameShown
  <2> QED
    BY <2>1, <2>3, <2>5, <2>6
<1>2. call' = [h \in Handlers |-> call'[h]]
  BY DEF Forget
<1> QED
  BY <1>1, <1>2

\* Five minutes pass: the calendar is not concerned.
LEMMA ForgetStep == ASSUME CalInv, NEW m \in Meetings, Forget(m) PROVE CalInv'
<1>1. /\ CalendarTypeOK /\ meetings \in [Meetings -> Rows] /\ meetings[m] \in Rows
      /\ UNCHANGED <<google, blocked, inFlight, lost, tangled, unseen>>
      /\ meetings' = [meetings EXCEPT ![m].recent = FALSE]
      /\ told' = [told EXCEPT ![m] = NoneTold]
  BY DEF Forget, CalInv, CalendarTypeOK
<1>2. PICK next \in Rows : meetings' = [meetings EXCEPT ![m] = next]
                           /\ SameShown(meetings[m], next)
  <2> DEFINE next == [meetings[m] EXCEPT !.recent = FALSE]
  <2>1. next \in Rows /\ SameShown(meetings[m], next)
    BY <1>1 DEF Rows, SameShown
  <2>2. meetings' = [meetings EXCEPT ![m] = next]
    BY <1>1
  <2> HIDE DEF next
  <2> QED
    BY <2>1, <2>2
<1>3. \A n \in Meetings : meetings'[n] \in Rows /\ SameShown(meetings[n], meetings'[n])
  BY <1>1, <1>2 DEF SameShown
<1>4. /\ call' \in [Handlers -> Calls] /\ call \in [Handlers -> Calls]
      /\ \A h \in Handlers : SameHand(call[h], call'[h])
  BY <1>1, ForgetTurns DEF CalendarTypeOK
<1>5. CalendarTypeOK'
  <2>1. told' \in [Meetings -> [Channels -> Nat]]
    BY <1>1 DEF CalendarTypeOK, NoneTold
  <2> QED
    BY <1>1, <1>2, <1>4, <2>1 DEF CalendarTypeOK
<1>6. ShapeInv'
  <2>1. ASSUME NEW w \in Calls, NEW v \in Calls, SameHand(w, v), ShapeOK(w) PROVE ShapeOK(v)
    BY <2>1 DEF SameHand, SameWork, SameShown, ShapeOK
  <2> QED
    BY <1>4, <2>1 DEF CalInv, ShapeInv
<1>7. MakerInv'
  BY <1>4 DEF CalInv, MakerInv, SameHand, SameWork
<1>8. MadeInv'
  <2>1. ASSUME NEW h \in Handlers PROVE MadeOK(call[h])'
    <3>1. PICK w \in Calls, v \in Calls : /\ w = call[h] /\ v = call'[h] /\ SameHand(w, v)
                                          /\ ShapeOK(w) /\ MadeOK(w)
      BY <1>4 DEF CalInv, ShapeInv, MadeInv
    <3> QED
      BY <1>3, <3>1 DEF Calls, ShapeOK, MadeOK, SameShown, SameHand, SameWork
  <2> QED
    BY <2>1 DEF MadeInv
<1>9. OwnInv'
  <2>1. ASSUME NEW h \in Handlers PROVE HoldsOwn(call[h])'
    BY <1>1, <1>4 DEF CalInv, OwnInv, HoldsOwn, Owned, SameHand, SameWork, SameShown
  <2> QED
    BY <1>1, <1>3, <2>1 DEF CalInv, OwnInv, Owned, SameShown
<1>10. AloneInv'
  <2>1. ASSUME NEW n \in Meetings, NEW w, NEW v, SameHand(w, v) \/ v = w,
               Good(n, meetings[n], w, google, lost)
        PROVE  Good(n, meetings'[n], v, google, lost)
    <3>1. SameShown(meetings[n], meetings'[n])
      BY <1>3
    <3>2. /\ v.pc = w.pc /\ v.kind = w.kind /\ v.meeting = w.meeting /\ v.todo = w.todo
          /\ v.event = w.event /\ v.link = w.link /\ SameShown(w.seen, v.seen)
      BY <2>1 DEF SameHand, SameWork, SameShown
    <3> DEFINE row == meetings[n]
               new == meetings'[n]
    <3>3. RowOK(new) /\ TodoOK(n, new, v)
      BY <2>1, <3>1, <3>2 DEF Good, RowOK, TodoOK, SameShown
    <3>4. LiveOK(n, new, v, google, lost) /\ StrayOK(n, new, v, google, lost)
      BY <2>1, <3>1, <3>2 DEF Good, LiveOK, StrayOK, Shows, HandOn, SameShown
    <3>5. HandOK(n, new, v, google, lost)
      BY <2>1, <3>1, <3>2 DEF Good, HandOK, HandOn, Agrees, RowOK, Shows, SameShown
    <3> QED
      BY <3>3, <3>4, <3>5 DEF Good
  <2>2. ASSUME NEW n \in Meetings \ tangled
        PROVE  /\ \A h \in Working(n)', o \in Working(n)' : h = o
               /\ \A h \in Working(n)' : Good(n, meetings'[n], call'[h], google', lost')
               /\ Working(n)' = {} => Good(n, meetings'[n], IdleCall, google', lost')
    <3>1. Working(n)' = Working(n)
      BY <1>4 DEF Working, SameHand, SameWork
    <3>2. /\ \A h \in Working(n), o \in Working(n) : h = o
          /\ \A h \in Working(n) : Good(n, meetings[n], call[h], google, lost)
          /\ Working(n) = {} => Good(n, meetings[n], IdleCall, google, lost)
      BY DEF CalInv, AloneInv
    <3>3. \A h \in Working(n) : SameHand(call[h], call'[h])
      BY <1>4 DEF Working
    <3> QED
      BY <1>1, <2>1, <3>1, <3>2, <3>3
  <2> QED
    BY <1>1, <2>2 DEF AloneInv
<1> QED
  BY <1>5, <1>6, <1>7, <1>8, <1>9, <1>10 DEF CalInv

\* A step that leaves the meetings, the calendar and the requests alone.
LEMMA IdleStep ==
    ASSUME CalInv, blocked' \in SUBSET Dates,
           UNCHANGED <<meetings, google, inFlight, call, calendarHistory>>
    PROVE  CalInv'
BY DEF CalInv, CalendarTypeOK, ShapeInv, MadeInv, MadeOK, MakerInv, OwnInv, HoldsOwn, Owned,
       AloneInv, Working, calendarHistory

\* At first there is no meeting, no event and no request.
LEMMA CalInvInit == CalendarInit => CalInv
<1> SUFFICES ASSUME CalendarInit PROVE CalInv
  OBVIOUS
<1>1. /\ \A m \in Meetings : meetings[m] = NoMeeting
      /\ \A e \in Events : google[e] = NoEvent
      /\ \A h \in Handlers : call[h] = IdleCall
      /\ lost = {}
  BY DEF CalendarInit
<1>2. CalendarTypeOK
  BY Empties DEF CalendarInit, CalendarTypeOK, NoEvent, NoneTold
<1>3. ShapeInv /\ MadeInv /\ MakerInv
  BY <1>1, Empties DEF ShapeInv, ShapeOK, MadeInv, MadeOK, MakerInv
<1>4. OwnInv
  BY <1>1, Empties DEF OwnInv, HoldsOwn, Owned, NoEvent
<1>5. AloneInv
  <2>1. ASSUME NEW m \in Meetings PROVE Good(m, meetings[m], IdleCall, google, lost)
    BY <1>1, Empties DEF Good, RowOK, LiveOK, StrayOK, TodoOK, HandOK, HandOn, NoEvent
  <2>2. ASSUME NEW m \in Meetings PROVE Working(m) = {}
    BY <1>1, Empties DEF Working
  <2> QED
    BY <2>1, <2>2 DEF AloneInv
<1> QED
  BY <1>2, <1>3, <1>4, <1>5 DEF CalInv

\* Every step keeps the invariant.
LEMMA CalInvNext == CalInv /\ [CalendarNext]_<<calendarVars, counters>> => CalInv'
<1> SUFFICES ASSUME CalInv, [CalendarNext]_<<calendarVars, counters>> PROVE CalInv'
  OBVIOUS
<1>1. CASE UNCHANGED <<calendarVars, counters>>
  BY <1>1, IdleStep DEF calendarVars, CalInv, CalendarTypeOK
<1>2. ASSUME NEW d \in Dates, BlockDay(d) \/ UnblockDay(d) PROVE CalInv'
  BY <1>2, IdleStep DEF BlockDay, UnblockDay, CalInv, CalendarTypeOK
<1>3. ASSUME NEW m \in Meetings, Forget(m) PROVE CalInv'
  BY <1>3, ForgetStep
<1>4. ASSUME NEW h \in Handlers, NEW m \in Meetings,
             Create(h, m) \/ UpdateMeeting(h, m) \/ RemoveMeeting(h, m)
                \/ RegenerateMeetLink(h, m) \/ Remind(h, m)
      PROVE  CalInv'
  BY <1>4, CreateStep, UpdateMeetingStep, RemoveMeetingStep, RegenerateMeetLinkStep,
     RemindStep
<1>5. ASSUME NEW h \in Handlers,
             Backfill(h) \/ BackfillRow(h) \/ AskGoogle(h) \/ PatchEvent(h) \/ InsertRow(h)
                \/ PatchRow(h) \/ DropOld(h) \/ SyncRow(h)
      PROVE  CalInv'
  BY <1>5, BackfillStep, BackfillRowStep, AskGoogleStep, PatchEventStep, InsertRowStep,
     PatchRowStep, DropOldStep, SyncRowStep
<1>6. ASSUME NEW h \in Handlers,
             RemoveEvent(h) \/ DeleteRow(h) \/ DropReplaced(h) \/ SaveMeetLink(h)
                \/ Confirm(h) \/ ReadAgain(h) \/ EnterFlight(h) \/ DecideReminder(h)
                \/ Send(h) \/ MarkSent(h)
      PROVE  CalInv'
  BY <1>6, RemoveEventStep, DeleteRowStep, DropReplacedStep, SaveMeetLinkStep, ConfirmStep,
     ReadAgainStep, EnterFlightStep, DecideReminderStep, SendStep, MarkSentStep
<1> QED
  BY <1>1, <1>2, <1>3, <1>4, <1>5, <1>6 DEF CalendarNext

\* Every reachable state satisfies the invariant of the calendar.
LEMMA CalInvHolds == CalendarSpec => []CalInv
<1>1. CalendarInit => CalInv
  BY CalInvInit
<1>2. CalInv /\ [CalendarNext]_<<calendarVars, counters>> => CalInv'
  BY CalInvNext
<1> QED
  BY <1>1, <1>2, PTL DEF CalendarSpec

\* Rows, events, requests and history keep their types (meetings.service.ts,
\* google-meet.service.ts).
THEOREM CalendarTyped == CalendarSpec => []CalendarTypeOK
<1>1. CalInv => CalendarTypeOK
  BY DEF CalInv
<1> QED
  BY <1>1, CalInvHolds, PTL

\* The invariant has an owner for every event.
LEMMA EventsKept == CalInv => NoStrayEvent
<1> SUFFICES ASSUME CalInv, NEW e \in Events, Live(e), e \notin lost,
                    google[e].meeting \notin tangled
             PROVE  \/ meetings[google[e].meeting].event = e
                    \/ \E h \in Handlers : e \in {call[h].event, call[h].seen.event}
  BY DEF NoStrayEvent
<1> DEFINE m == google[e].meeting
<1>1. m \in Meetings
  BY DEF CalInv, OwnInv, Live
<1>2. CASE Working(m) = {}
  BY <1>1, <1>2, Empties DEF CalInv, AloneInv, Good, StrayOK, HandOn, Live
<1>3. ASSUME NEW h \in Working(m) PROVE
         meetings[m].event = e \/ e \in {call[h].event, call[h].seen.event}
  BY <1>1, <1>3 DEF CalInv, AloneInv, Good, StrayOK, HandOn, Live
<1> QED
  BY <1>2, <1>3 DEF Working

\* No event is left in the calendar without a meeting: the row names it or a request
\* holds it (create, update, remove, regenerateMeetLink, backfillMeetLinks).
THEOREM EventsAccounted == CalendarSpec => []NoStrayEvent
BY EventsKept, CalInvHolds, PTL

\* The invariant has the event of every row.
LEMMA RowsShown == CalInv => EventShowsTheRow
<1>1. CalInv => EventAtDate
  BY Empties DEF CalInv, AloneInv, Good, LiveOK, HandOn, Shows, EventAtDate, Live
<1>2. CalInv => PhoneIsOffline
  <2> SUFFICES ASSUME CalInv, NEW m \in Meetings \ tangled PROVE RowOK(meetings[m])
    BY DEF PhoneIsOffline, RowOK
  <2> QED
    BY DEF CalInv, AloneInv, Good
<1> QED
  BY <1>1, <1>2 DEF EventShowsTheRow

\* The event a row names is in the calendar at the date of the row once nothing works on
\* it, and a phone call has neither event nor link (update, remove, saveMeetLink).
THEOREM EventsShowRows == CalendarSpec => []EventShowsTheRow
BY RowsShown, CalInvHolds, PTL

----------------------------------------------------------------------------
(* The confirmations *)

\* A request that confirms the meeting, unforced, from the row it read on.
Sender(m, w) == /\ w.meeting = m /\ w.kind \in {"confirm", "remind"} /\ ~w.force
                /\ w.pc \in {"google", "store", "send", "mark"}

\* The row of the meeting, if it is still there, says what went out.
Marked(m, c) == OnFile(m) => meetings[m].recent /\ c \in meetings[m].sent

\* The confirmation of create, from the entry of the in-flight set on.
Confirming(m, w) == /\ w.meeting = m /\ w.kind = "confirm"
                    /\ w.pc \notin {"confirm", "reread", "decide"}

\* One confirmation of create at a time for a meeting.
SoloInv == \A m \in Meetings, h \in Handlers, o \in Handlers :
    Confirming(m, call[h]) /\ Confirming(m, call[o]) => h = o

\* The in-flight set names the meetings whose confirmation of create is under way.
FlightInv == \A m \in Meetings : m \in inFlight <=> \E h \in Handlers : Confirming(m, call[h])

\* Of a meeting no confirmation of which went unseen: one request sends, what it will
\* send was not sent, and what was sent is marked, or that request will mark it.
SendOK(m) ==
   /\ \A h \in Handlers, o \in Handlers : Sender(m, call[h]) /\ Sender(m, call[o]) => h = o
   /\ \A h \in Handlers : Sender(m, call[h]) =>
          \A c \in call[h].channels : told[m][c] = 0 /\ c \notin call[h].done
   /\ \A c \in Channels :
          \/ told[m][c] = 0
          \/ /\ told[m][c] = 1
             /\ \/ Marked(m, c)
                \/ \E h \in Handlers : Sender(m, call[h]) /\ c \in call[h].done
   /\ meetings[m].state = "absent" => \A c \in Channels : told[m][c] = 0

\* So it is for every meeting whose confirmations were all seen.
SendInv == \A m \in Meetings \ unseen : SendOK(m)

\* What the confirmations are proved from.
SendsInv == SoloInv /\ FlightInv /\ SendInv

\* A request that is not sending confirmations.
Mute(w) == w.kind \notin {"confirm", "remind"} \/ w.pc \in {"confirm", "reread", "decide"}

\* A step of a request that neither starts, ends nor sends a confirmation.
LEMMA MuteStep ==
    ASSUME CalInv, SendsInv, NEW h \in Handlers,
           \A o \in Handlers \ {h} : call'[o] = call[o],
           \A m \in Meetings : /\ Confirming(m, call'[h]) <=> Confirming(m, call[h])
                               /\ Sender(m, call'[h]) <=> Sender(m, call[h])
                               /\ Sender(m, call[h]) =>
                                     /\ call'[h].channels \subseteq call[h].channels
                                     /\ call'[h].done = call[h].done,
           inFlight' = inFlight, unseen \subseteq unseen',
           \A m \in Meetings : told'[m] = told[m] \/ told'[m] = NoneTold,
           \A m \in Meetings : meetings'[m].state = "absent" => meetings[m].state = "absent",
           \A m \in Meetings \ unseen', c \in Channels :
              told[m][c] # 0 /\ told'[m] = told[m] /\ Marked(m, c) => Marked(m, c)'
    PROVE  SendsInv'
<1>1. ASSUME NEW m \in Meetings, NEW o \in Handlers
      PROVE  /\ Confirming(m, call'[o]) <=> Confirming(m, call[o])
             /\ Sender(m, call'[o]) <=> Sender(m, call[o])
             /\ Sender(m, call[o]) => /\ call'[o].channels \subseteq call[o].channels
                                      /\ call'[o].done = call[o].done
  <2>1. CASE o = h
    BY <2>1
  <2>2. CASE o # h
    BY <2>2
  <2> QED
    BY <2>1, <2>2
<1>2. SoloInv'
  <2> SUFFICES ASSUME NEW m \in Meetings, NEW a \in Handlers, NEW b \in Handlers,
                      Confirming(m, call'[a]), Confirming(m, call'[b])
               PROVE  a = b
    BY DEF SoloInv, Confirming
  <2> QED
    BY <1>1 DEF SendsInv, SoloInv
<1>3. FlightInv'
  <2> SUFFICES ASSUME NEW m \in Meetings
               PROVE  m \in inFlight <=> \E o \in Handlers : Confirming(m, call'[o])
    BY DEF FlightInv, Confirming
  <2> QED
    BY <1>1 DEF SendsInv, FlightInv
<1>4. SendInv'
  <2> SUFFICES ASSUME NEW m \in Meetings \ unseen' PROVE SendOK(m)'
    BY DEF SendInv
  <2>1. SendOK(m)
    BY DEF SendsInv, SendInv
  <2>2. \A c \in Channels : NoneTold[c] = 0
    BY DEF NoneTold
  <2>3. ASSUME NEW a \in Handlers, NEW b \in Handlers, Sender(m, call'[a]), Sender(m, call'[b])
        PROVE  a = b
    BY <1>1, <2>1, <2>3 DEF SendOK
  <2>4. ASSUME NEW a \in Handlers, Sender(m, call'[a]), NEW c \in call'[a].channels
        PROVE  told'[m][c] = 0 /\ c \notin call'[a].done
    <3>1. c \in call[a].channels /\ Sender(m, call[a]) /\ call'[a].done = call[a].done
      BY <1>1, <2>4
    <3>2. c \in Channels
      BY <3>1 DEF CalInv, CalendarTypeOK, Calls
    <3> QED
      BY <2>1, <2>2, <3>1, <3>2 DEF SendOK
  <2>5. ASSUME NEW c \in Channels, told'[m][c] # 0
        PROVE  /\ told'[m][c] = 1
               /\ \/ Marked(m, c)'
                  \/ \E a \in Handlers : Sender(m, call'[a]) /\ c \in call'[a].done
    <3>1. told'[m] = told[m]
      BY <2>2, <2>5
    <3>2. told[m][c] = 1 /\ (Marked(m, c) \/ \E a \in Handlers : Sender(m, call[a])
                                                           /\ c \in call[a].done)
      BY <2>1, <2>5, <3>1 DEF SendOK
    <3>3. CASE Marked(m, c)
      BY <3>1, <3>2, <3>3
    <3>4. ASSUME NEW a \in Handlers, Sender(m, call[a]), c \in call[a].done
          PROVE  Sender(m, call'[a]) /\ c \in call'[a].done
      BY <1>1, <3>4
    <3> QED
      BY <3>1, <3>2, <3>3, <3>4
  <2>6. meetings'[m].state = "absent" => \A c \in Channels : told'[m][c] = 0
    BY <2>1, <2>2 DEF SendOK
  <2> QED
    BY <2>3, <2>4, <2>5, <2>6 DEF SendOK, Sender
<1> QED
  BY <1>2, <1>3, <1>4 DEF SendsInv

\* The confirmations of a meeting that a step does not concern.
LEMMA SendKept ==
    ASSUME NEW n \in Meetings, SendOK(n), told'[n] = told[n], meetings'[n] = meetings[n],
           \A o \in Handlers : call'[o] = call[o] \/ (~Sender(n, call[o]) /\ ~Sender(n, call'[o]))
    PROVE  SendOK(n)'
<1>1. \A o \in Handlers : /\ Sender(n, call'[o]) <=> Sender(n, call[o])
                          /\ Sender(n, call[o]) => call'[o] = call[o]
  OBVIOUS
<1>2. /\ \A a \in Handlers, b \in Handlers : Sender(n, call'[a]) /\ Sender(n, call'[b]) => a = b
      /\ \A a \in Handlers : Sender(n, call'[a]) =>
            \A k \in call'[a].channels : told[n][k] = 0 /\ k \notin call'[a].done
      /\ \A k \in Channels :
            \/ told[n][k] = 0
            \/ /\ told[n][k] = 1
               /\ \/ Marked(n, k)
                  \/ \E a \in Handlers : Sender(n, call'[a]) /\ k \in call'[a].done
  BY <1>1 DEF SendOK
<1>3. meetings[n].state = "absent" => \A k \in Channels : told[n][k] = 0
  BY DEF SendOK
<1> QED
  BY <1>2, <1>3 DEF SendOK, Sender, Marked, OnFile

\* A step of a request that sends nothing, before and after it, and leaves the marks.
LEMMA MuteRequest ==
    ASSUME CalInv, SendsInv, NEW h \in Handlers,
           \A o \in Handlers \ {h} : call'[o] = call[o],
           Mute(call[h]), Mute(call'[h]), UNCHANGED <<told, inFlight, unseen>>,
           \A m \in Meetings : \/ meetings'[m] = meetings[m]
                               \/ meetings[m].state = "absent" /\ meetings'[m].state = "there"
                               \/ /\ meetings[m].state # "absent" /\ meetings'[m].state # "absent"
                                  /\ \A c \in Channels : Marked(m, c) => Marked(m, c)'
    PROVE  SendsInv'
<1>1. \A m \in Meetings : /\ ~Confirming(m, call'[h]) /\ ~Confirming(m, call[h])
                          /\ ~Sender(m, call'[h]) /\ ~Sender(m, call[h])
  BY DEF Mute, Confirming, Sender
<1>2. \A m \in Meetings : meetings'[m].state = "absent" => meetings[m].state = "absent"
  OBVIOUS
<1>3. ASSUME NEW m \in Meetings \ unseen', NEW c \in Channels, told[m][c] # 0, told'[m] = told[m],
             Marked(m, c)
      PROVE  Marked(m, c)'
  <2>1. meetings[m].state # "absent"
    BY <1>3 DEF SendsInv, SendInv, SendOK
  <2> QED
    BY <1>3, <2>1 DEF Marked, OnFile
<1> QED
  BY <1>1, <1>2, <1>3, MuteStep

\* The steps that do not send: of create, update, remove, regenerateMeetLink and
\* backfillMeetLinks.
LEMMA MuteStarts ==
    ASSUME CalInv, SendsInv, NEW h \in Handlers, NEW m \in Meetings,
           Create(h, m) \/ UpdateMeeting(h, m) \/ RemoveMeeting(h, m) \/ RegenerateMeetLink(h, m)
              \/ Remind(h, m)
    PROVE  SendsInv'
<1>0. call \in [Handlers -> Calls]
  BY DEF CalInv, CalendarTypeOK
<1>1. /\ \A o \in Handlers \ {h} : call'[o] = call[o]
      /\ call'[h].kind \in {"create", "update", "remove", "regenerate"} \/ call'[h].pc = "decide"
  <2>1. CASE Create(h, m)
    BY <2>1, <1>0 DEF Create, Starts, IdleCall
  <2>2. CASE UpdateMeeting(h, m)
    BY <2>2, <1>0 DEF UpdateMeeting, Starts, IdleCall
  <2>3. CASE RemoveMeeting(h, m)
    BY <2>3, <1>0 DEF RemoveMeeting, Starts, IdleCall
  <2>4. CASE RegenerateMeetLink(h, m)
    BY <2>4, <1>0 DEF RegenerateMeetLink, Starts, IdleCall
  <2>5. CASE Remind(h, m)
    <3>1. PICK channels \in SUBSET Channels, force \in BOOLEAN :
            Starts(h, m, [IdleCall EXCEPT !.pc = "decide", !.kind = "remind",
                                          !.seen = meetings[m], !.channels = channels,
                                          !.force = force])
      BY <2>5 DEF Remind
    <3> QED
      BY <1>0, <3>1 DEF Starts, IdleCall
  <2> QED
    BY <2>1, <2>2, <2>3, <2>4, <2>5
<1>2. UNCHANGED <<meetings, told, inFlight, unseen>>
  BY DEF Create, UpdateMeeting, RemoveMeeting, RegenerateMeetLink, Remind
<1>3. Mute(call[h]) /\ Mute(call'[h])
  <2>1. call[h].pc = "idle"
    BY DEF Create, UpdateMeeting, RemoveMeeting, RegenerateMeetLink, Remind, Starts
  <2> QED
    BY <1>0, <1>1, <2>1 DEF Mute, ShapeOK, ShapeInv, CalInv
<1> QED
  BY <1>1, <1>2, <1>3, MuteRequest

\* Where a request of another kind than these goes on, it still sends nothing.
LEMMA StillMute ==
    ASSUME CalInv, NEW h \in Handlers, Mute(call[h]),
           \/ Closes(h)
           \/ \E pc \in Pcs : Proceeds(h, pc) /\ call[h].kind \notin {"confirm", "remind"}
    PROVE  Mute(call'[h]) /\ \A o \in Handlers \ {h} : call'[o] = call[o]
<1>1. CASE Closes(h)
  BY <1>1, ClosesTurns, Empties DEF CalInv, Turns, Mute
<1>2. ASSUME NEW pc \in Pcs, Proceeds(h, pc), call[h].kind \notin {"confirm", "remind"}
      PROVE  Mute(call'[h]) /\ \A o \in Handlers \ {h} : call'[o] = call[o]
  BY <1>2, ProceedsTurns DEF CalInv, Turns, Mute, SameWork
<1> QED
  BY <1>1, <1>2

\* The confirmation of create, before it has decided.
LEMMA ConfirmSends ==
    ASSUME CalInv, SendsInv, NEW h \in Handlers, Confirm(h) \/ ReadAgain(h)
    PROVE  SendsInv'
<1>1. /\ call[h].pc \in {"confirm", "reread"} /\ call \in [Handlers -> Calls]
      /\ UNCHANGED <<meetings, told, inFlight, unseen>> /\ "reread" \in Pcs
  BY DEF Confirm, ReadAgain, CalInv, CalendarTypeOK, calendarHistory, Pcs
<1>2. Mute(call'[h]) /\ \A o \in Handlers \ {h} : call'[o] = call[o]
  <2>1. CASE Closes(h)
    BY <1>1, <2>1, StillMute DEF Mute
  <2>2. CASE Proceeds(h, "reread")
    BY <1>1, <2>2, ProceedsTurns DEF CalInv, Turns, Mute
  <2>3. ASSUME NEW row, call' = [call EXCEPT ![h].pc = "decide", ![h].seen = row]
        PROVE  Mute(call'[h]) /\ \A o \in Handlers \ {h} : call'[o] = call[o]
    BY <1>1, <2>3 DEF Mute, Calls
  <2> QED
    BY <2>1, <2>2, <2>3 DEF Confirm, ReadAgain
<1>3. Mute(call[h])
  BY <1>1 DEF Mute
<1> QED
  BY <1>1, <1>2, <1>3, MuteRequest

\* The steps that change no row.
LEMMA MuteSteps ==
    ASSUME CalInv, SendsInv, NEW h \in Handlers,
           Backfill(h) \/ BackfillRow(h) \/ PatchEvent(h) \/ DropOld(h) \/ RemoveEvent(h)
              \/ DropReplaced(h)
    PROVE  SendsInv'
<1>1. /\ call[h] \in Calls /\ ShapeOK(call[h]) /\ call \in [Handlers -> Calls]
      /\ {"google", "deleteRow", "store"} \subseteq Pcs
  BY DEF CalInv, CalendarTypeOK, ShapeInv, Pcs
<1>2. UNCHANGED <<meetings, told, inFlight, unseen>>
  BY DEF Backfill, BackfillRow, PatchEvent, DropOld, RemoveEvent, DropReplaced,
     calendarHistory
<1>3. call[h].kind \notin {"confirm", "remind"} /\ Mute(call[h])
  BY <1>1 DEF ShapeOK, Mute, Calls, Backfill, BackfillRow, PatchEvent, DropOld, RemoveEvent,
              DropReplaced
<1>4. Mute(call'[h]) /\ \A o \in Handlers \ {h} : call'[o] = call[o]
  <2>1. CASE Backfill(h)
    BY <1>1, <2>1 DEF Backfill, Mute, IdleCall
  <2>2. CASE BackfillRow(h)
    <3>1. PICK r \in call[h].todo : call' = [call EXCEPT ![h].meeting = r.meeting,
             ![h].seen = r.row, ![h].todo = @ \ {r}, ![h].event = None, ![h].link = FALSE,
             ![h].pc = IF r.row.phone THEN "store" ELSE "google"]
      BY <2>2 DEF BackfillRow
    <3>2. call'[h].kind = call[h].kind /\ \A o \in Handlers \ {h} : call'[o] = call[o]
      BY <1>1, <3>1 DEF Calls
    <3> QED
      BY <1>3, <3>2 DEF Mute
  <2>3. CASE DropOld(h) \/ RemoveEvent(h) \/ DropReplaced(h)
    BY <1>1, <1>3, <2>3, StillMute DEF DropOld, RemoveEvent, DropReplaced
  <2>4. CASE PatchEvent(h)
    <3>1. \/ call' = [call EXCEPT ![h].pc = "store", ![h].link = TRUE]
          \/ Proceeds(h, "google")
          \/ Closes(h)
      BY <2>4 DEF PatchEvent
    <3>2. CASE call' = [call EXCEPT ![h].pc = "store", ![h].link = TRUE]
      BY <1>1, <1>3, <3>2 DEF Mute, Calls
    <3> QED
      BY <1>1, <1>3, <3>1, <3>2, StillMute
  <2> QED
    BY <2>1, <2>2, <2>3, <2>4
<1> QED
  BY <1>2, <1>3, <1>4, MuteRequest

\* The steps that write a row: its marks stay.
LEMMA MuteWrites ==
    ASSUME CalInv, SendsInv, NEW h \in Handlers, SyncRow(h) \/ DeleteRow(h) \/ InsertRow(h)
    PROVE  SendsInv'
<1>1. PICK w \in Calls : w = call[h] /\ ShapeOK(w) /\ MadeOK(w)
  BY DEF CalInv, CalendarTypeOK, ShapeInv, MadeInv
<1>2. /\ call \in [Handlers -> Calls] /\ meetings \in [Meetings -> Rows]
      /\ UNCHANGED <<told, inFlight, unseen>> /\ "row" \in Pcs
  BY DEF SyncRow, DeleteRow, InsertRow, CalInv, CalendarTypeOK, Pcs
<1>3. w.pc \in {"store", "deleteRow"} /\ w.kind \in {"create", "update", "backfill", "remove"}
      /\ Mute(w)
  BY <1>1 DEF SyncRow, DeleteRow, InsertRow, ShapeOK, Calls, Mute
<1>4. PICK m \in Meetings : m = w.meeting
  BY <1>1, <1>3 DEF ShapeOK
<1>5. Mute(call'[h]) /\ \A o \in Handlers \ {h} : call'[o] = call[o]
  <2>1. CASE SyncRow(h)
    BY <1>1, <1>2, <1>3, <2>1, StillMute DEF SyncRow
  <2>2. CASE DeleteRow(h)
    BY <1>1, <1>2, <1>3, <2>2, StillMute DEF DeleteRow
  <2>3. CASE InsertRow(h)
    <3>1. \/ Closes(h)
          \/ call' = [call EXCEPT ![h].pc = "confirm", ![h].kind = "confirm",
                                  ![h].event = None, ![h].link = FALSE]
      BY <2>3 DEF InsertRow
    <3>2. CASE call' = [call EXCEPT ![h].pc = "confirm", ![h].kind = "confirm",
                                    ![h].event = None, ![h].link = FALSE]
      BY <1>2, <3>2 DEF Mute, Calls
    <3> QED
      BY <1>1, <1>2, <1>3, <3>1, <3>2, StillMute
  <2> QED
    BY <2>1, <2>2, <2>3
<1>6. \A n \in Meetings \ {m} : meetings'[n] = meetings[n]
  BY <1>1, <1>2, <1>4 DEF SyncRow, DeleteRow, InsertRow
<1>7. \/ meetings'[m] = meetings[m]
      \/ meetings[m].state = "absent" /\ meetings'[m].state = "there"
      \/ /\ meetings[m].state # "absent" /\ meetings'[m].state # "absent"
         /\ \A c \in Channels : Marked(m, c) => Marked(m, c)'
  <2>1. CASE SyncRow(h)
    <3>1. meetings[m].state # "absent"
      BY <1>1, <1>3, <1>4, <2>1 DEF MadeOK, SyncRow
    <3>2. CASE meetings' = meetings
      BY <3>2
    <3>3. CASE meetings' = [meetings EXCEPT ![m].event = w.event, ![m].link = TRUE]
      <4>1. /\ meetings'[m].state = meetings[m].state /\ meetings'[m].sent = meetings[m].sent
            /\ meetings'[m].recent = meetings[m].recent
        BY <1>2, <3>3 DEF Rows
      <4> QED
        BY <3>1, <4>1 DEF Marked, OnFile
    <3> QED
      BY <1>1, <1>4, <2>1, <3>2, <3>3 DEF SyncRow
  <2>2. CASE DeleteRow(h)
    <3>1. meetings[m].state # "absent"
      BY <1>1, <1>3, <1>4, <2>2 DEF MadeOK, ShapeOK, DeleteRow
    <3>2. CASE meetings' = [meetings EXCEPT ![m] = [NoMeeting EXCEPT !.state = "gone"]]
      BY <1>2, <3>1, <3>2 DEF Marked, OnFile, NoMeeting
    <3> QED
      BY <1>1, <1>4, <2>2, <3>2 DEF DeleteRow
  <2>3. CASE InsertRow(h)
    <3>1. meetings[m].state = "absent" /\ w.seen.state = "there" /\ w.seen \in Rows
      BY <1>1, <1>4, <2>3 DEF MadeOK, ShapeOK, InsertRow, Calls
    <3>2. CASE meetings' =
                 [meetings EXCEPT ![m] = [w.seen EXCEPT !.event = w.event, !.link = w.link]]
      BY <1>2, <3>1, <3>2 DEF Rows
    <3> QED
      BY <1>1, <1>4, <2>3, <3>2 DEF InsertRow
  <2> QED
    BY <2>1, <2>2, <2>3
<1> QED
  BY <1>1, <1>2, <1>3, <1>5, <1>6, <1>7, MuteRequest

\* update: a new date starts the confirmations afresh.
LEMMA PatchRowSends == ASSUME CalInv, SendsInv, NEW h \in Handlers, PatchRow(h) PROVE SendsInv'
<1>1. PICK w \in Calls : w = call[h] /\ ShapeOK(w) /\ MadeOK(w)
  BY DEF CalInv, CalendarTypeOK, ShapeInv, MadeInv
<1>2. /\ call \in [Handlers -> Calls] /\ meetings \in [Meetings -> Rows]
      /\ told \in [Meetings -> [Channels -> Nat]]
      /\ UNCHANGED <<inFlight, unseen>> /\ w.pc = "patchRow"
  BY <1>1 DEF PatchRow, CalInv, CalendarTypeOK
<1>3. /\ w.kind = "update" /\ w.dto \in CalendarEdits /\ w.seen \in Rows
      /\ meetings[w.meeting].state # "absent"
  BY <1>1, <1>2 DEF ShapeOK, MadeOK, Calls
<1>4. PICK m \in Meetings, row \in Rows, dto \in CalendarEdits :
        m = w.meeting /\ row = meetings[m] /\ dto = w.dto
  BY <1>1, <1>2, <1>3 DEF ShapeOK
<1> DEFINE new == PatchedRow(row, dto)
           step == CalendarStep(new, w.seen, dto)
<1>5. /\ new.state = row.state
      /\ ~Moves(dto) => new.sent = row.sent /\ (new.recent <=> row.recent)
  <2>1. dto \in CalendarEdits \cup {<<>>}
    OBVIOUS
  <2>2. /\ new.state = row.state
        /\ new.sent = IF Moves(dto) THEN {} ELSE row.sent
        /\ new.recent = (row.recent /\ ~Moves(dto))
    BY <2>1, PatchTyped
  <2>3. row.recent \in BOOLEAN /\ Moves(dto) \in BOOLEAN
    BY DEF Rows, Moves
  <2> HIDE DEF new
  <2> QED
    BY <2>2, <2>3
<1> HIDE DEF new, step
<1>6. \/ /\ Closes(h) /\ UNCHANGED <<meetings, told>>
      \/ /\ meetings' = [meetings EXCEPT ![m] = new]
         /\ told' = IF Moves(dto) THEN [told EXCEPT ![m] = NoneTold] ELSE told
         /\ \/ Closes(h)
            \/ call' = [call EXCEPT ![h].pc = step.pc, ![h].event = step.event, ![h].seen = new]
  BY <1>1, <1>4 DEF PatchRow, new, step
<1>7. Mute(call'[h]) /\ Mute(w) /\ \A o \in Handlers \ {h} : call'[o] = call[o]
  <2>1. CASE Closes(h)
    BY <1>1, <1>3, <2>1, StillMute DEF Mute
  <2>2. CASE call' = [call EXCEPT ![h].pc = step.pc, ![h].event = step.event, ![h].seen = new]
    BY <1>1, <1>2, <1>3, <2>2 DEF Mute, Calls
  <2> QED
    BY <1>6, <2>1, <2>2
<1>8. /\ \A n \in Meetings : told'[n] = told[n] \/ told'[n] = NoneTold
      /\ \A n \in Meetings \ {m} : meetings'[n] = meetings[n]
      /\ meetings'[m].state = meetings[m].state
  BY <1>2, <1>4, <1>5, <1>6
<1>9. ASSUME NEW n \in Meetings, NEW c \in Channels, told[n][c] # 0, told'[n] = told[n],
             Marked(n, c)
      PROVE  Marked(n, c)'
  <2>1. CASE n # m
    BY <1>8, <1>9, <2>1 DEF Marked, OnFile
  <2>2. CASE n = m /\ meetings' = meetings
    BY <1>9, <2>2 DEF Marked, OnFile
  <2>3. CASE n = m /\ Moves(dto) /\ told' = [told EXCEPT ![m] = NoneTold]
    BY <1>2, <1>9, <2>3 DEF NoneTold
  <2>4. CASE n = m /\ ~Moves(dto) /\ meetings' = [meetings EXCEPT ![m] = new]
    BY <1>2, <1>4, <1>5, <1>9, <2>4 DEF Marked, OnFile
  <2> QED
    BY <1>6, <2>1, <2>2, <2>3, <2>4
<1>10. \A n \in Meetings : /\ ~Confirming(n, call'[h]) /\ ~Confirming(n, call[h])
                           /\ ~Sender(n, call'[h]) /\ ~Sender(n, call[h])
  BY <1>1, <1>7 DEF Mute, Confirming, Sender
<1>11. \A n \in Meetings : meetings'[n].state = "absent" => meetings[n].state = "absent"
  BY <1>8
<1> QED
  BY <1>2, <1>7, <1>8, <1>9, <1>10, <1>11, MuteStep

\* ensureMeetLink: a confirmation asks for a link and saves it.
LEMMA LinkSends ==
    ASSUME CalInv, SendsInv, NEW h \in Handlers, AskGoogle(h) \/ SaveMeetLink(h)
    PROVE  SendsInv'
<1>1. PICK w \in Calls : w = call[h] /\ ShapeOK(w) /\ MadeOK(w)
  BY DEF CalInv, CalendarTypeOK, ShapeInv, MadeInv
<1>2. /\ call \in [Handlers -> Calls] /\ meetings \in [Meetings -> Rows]
      /\ UNCHANGED <<told, inFlight, unseen>> /\ "send" \in Pcs
      /\ w.pc \in {"google", "store"} /\ w.kind # "none"
  BY <1>1 DEF AskGoogle, SaveMeetLink, CalInv, CalendarTypeOK, Pcs, ShapeOK
<1>3. PICK m \in Meetings : m = w.meeting
  BY <1>1, <1>2 DEF ShapeOK
<1>4. /\ \A o \in Handlers \ {h} : call'[o] = call[o]
      /\ \/ Mute(w) /\ Mute(call'[h])
         \/ SameWork(w, call'[h]) /\ call'[h].pc \in {"store", "send"} /\ ~Mute(w)
  <2>1. CASE AskGoogle(h)
    <3>1. PICK next \in {"drop", "store"} :
            /\ next = IF w.kind = "regenerate" THEN "drop" ELSE "store"
            /\ Conference(h, next) \/ Unreadable(h, next) \/ NoCalendar(h, next)
      BY <1>1, <2>1 DEF AskGoogle
    <3>2. PICK c \in Calls, e \in Events \cup {None} :
            Answered(h, c, e, w.seen, w.meeting) /\ SameWork(w, c) /\ c.pc = next
      BY <1>1, <2>1, <3>1, GoogleAnswers DEF AskGoogle
    <3> QED
      BY <1>2, <3>1, <3>2 DEF Answered, Turns, Mute, SameWork
  <2>2. CASE SaveMeetLink(h)
    <3>1. CASE Closes(h) /\ w.kind = "regenerate"
      BY <1>1, <3>1, StillMute DEF Mute
    <3>2. CASE Proceeds(h, "send") /\ w.kind # "regenerate"
      <4>1. PICK c \in Calls : Turns(h, c) /\ SameWork(w, c) /\ c.pc = "send"
        BY <1>1, <1>2, <3>2, ProceedsTurns DEF CalInv
      <4>2. ~Mute(w)
        BY <1>1, <1>2, <2>2, <3>2 DEF SaveMeetLink, Mute
      <4> QED
        BY <4>1, <4>2 DEF Turns
    <3> QED
      BY <1>1, <2>2, <3>1, <3>2 DEF SaveMeetLink
  <2> QED
    BY <2>1, <2>2
<1>5. \A n \in Meetings :
         /\ Confirming(n, call'[h]) <=> Confirming(n, call[h])
         /\ Sender(n, call'[h]) <=> Sender(n, call[h])
         /\ Sender(n, call[h]) => /\ call'[h].channels = call[h].channels
                                  /\ call'[h].done = call[h].done
  <2>1. CASE Mute(w) /\ Mute(call'[h])
    BY <1>1, <2>1 DEF Mute, Confirming, Sender
  <2>2. CASE SameWork(w, call'[h]) /\ call'[h].pc \in {"store", "send"} /\ ~Mute(w)
    BY <1>1, <1>2, <2>2 DEF SameWork, Confirming, Sender
  <2> QED
    BY <1>4, <2>1, <2>2
<1>6. \A n \in Meetings : /\ meetings'[n].state = meetings[n].state
                          /\ meetings'[n].sent = meetings[n].sent
                          /\ meetings'[n].recent = meetings[n].recent
  <2>1. CASE meetings' = meetings
    BY <2>1
  <2>2. ASSUME NEW e, meetings' = [meetings EXCEPT ![m].event = e, ![m].link = TRUE]
        PROVE  \A n \in Meetings : /\ meetings'[n].state = meetings[n].state
                                   /\ meetings'[n].sent = meetings[n].sent
                                   /\ meetings'[n].recent = meetings[n].recent
    BY <1>2, <2>2 DEF Rows
  <2>3. meetings' = meetings
        \/ \E e : meetings' = [meetings EXCEPT ![m].event = e, ![m].link = TRUE]
    BY <1>1, <1>3 DEF AskGoogle, SaveMeetLink
  <2> QED
    BY <2>1, <2>2, <2>3
<1>7. \A n \in Meetings, c \in Channels : Marked(n, c) => Marked(n, c)'
  BY <1>6 DEF Marked, OnFile
<1> QED
  BY <1>2, <1>4, <1>5, <1>6, <1>7, MuteStep

\* A request that starts to send what a meeting is still to be told.
LEMMA SenderStarts ==
    ASSUME CalInv, SendsInv, NEW h \in Handlers, NEW m \in Meetings, NEW c \in Calls,
           Turns(h, c), \A n \in Meetings : ~Sender(n, call[h]),
           \A n \in Meetings \ {m} : ~Sender(n, c),
           Sender(m, c) /\ m \notin unseen' => StillDue(m, c.channels),
           c.done = {}, UNCHANGED <<meetings, told>>, unseen \subseteq unseen'
    PROVE  SendInv'
<1>1. /\ call'[h] = c /\ \A o \in Handlers \ {h} : call'[o] = call[o]
      /\ call \in [Handlers -> Calls] /\ told \in [Meetings -> [Channels -> Nat]]
  BY DEF Turns, CalInv, CalendarTypeOK
<1> SUFFICES ASSUME NEW n \in Meetings \ unseen' PROVE SendOK(n)'
  BY DEF SendInv
<1>2. SendOK(n)
  BY DEF SendsInv, SendInv
<1>3. ASSUME ~Sender(n, c) PROVE SendOK(n)'
  <2>1. \A o \in Handlers : call'[o] = call[o] \/ (~Sender(n, call[o]) /\ ~Sender(n, call'[o]))
    BY <1>1, <1>3
  <2> QED
    BY <1>2, <2>1, SendKept
<1>4. ASSUME Sender(n, c) PROVE SendOK(n)'
  <2>1. /\ n = m /\ OnFile(n) /\ Sending(n) = {} /\ c.channels \subseteq Channels
        /\ c.channels \cap RecentlySent(meetings[n]) = {}
    BY <1>4 DEF StillDue, Calls
  <2>2. \A o \in Handlers : ~Sender(n, call[o])
    <3>1. ASSUME NEW o \in Handlers, Sender(n, call[o]) PROVE o \in Sending(n)
      BY <3>1 DEF Sender, Sending, Working
    <3> QED
      BY <2>1, <3>1
  <2>3. \A k \in Channels : told[n][k] = 0 \/ (told[n][k] = 1 /\ k \in RecentlySent(meetings[n]))
    BY <1>2, <2>1, <2>2 DEF SendOK, Marked, RecentlySent
  <2>4. \A k \in c.channels : told[n][k] = 0 /\ k \notin c.done
    BY <2>1, <2>3
  <2>5. \A k \in Channels : told[n][k] = 0 \/ (told[n][k] = 1 /\ Marked(n, k))
    BY <1>2, <2>2 DEF SendOK
  <2>6. \A o \in Handlers : Sender(n, call'[o]) <=> o = h
    BY <1>1, <1>4, <2>2
  <2>7. /\ \A a \in Handlers, b \in Handlers : Sender(n, call'[a]) /\ Sender(n, call'[b]) => a = b
        /\ \A a \in Handlers : Sender(n, call'[a]) =>
              \A k \in call'[a].channels : told[n][k] = 0 /\ k \notin call'[a].done
    BY <1>1, <2>4, <2>6
  <2> QED
    BY <1>2, <2>5, <2>7 DEF SendOK, Sender, Marked, OnFile
<1> QED
  BY <1>3, <1>4

\* A request that starts to send, while no confirmation it would double is in flight.
LEMMA GoesSends ==
    ASSUME CalInv, SendsInv, NEW h \in Handlers, call[h].pc = "decide",
           NEW due \in SUBSET Channels, SendsDue(h, due), UNCHANGED <<meetings, told>>,
           ~call[h].force => call[h].meeting \notin inFlight
    PROVE  /\ SendInv'
           /\ \E c \in Calls : /\ Turns(h, c) /\ c.pc \in {"google", "send"}
                               /\ c.kind = call[h].kind /\ c.meeting = call[h].meeting
<1>1. PICK w \in Calls, m \in Meetings, row \in Rows, seen \in Rows :
        AtHand(h, w, m, row, seen)
  BY AtWork
<1>2. /\ w = call[h] /\ m = w.meeting /\ seen = w.seen /\ w.pc = "decide"
      /\ w.kind \in {"confirm", "remind"} /\ w.force \in BOOLEAN
      /\ call \in [Handlers -> Calls]
  BY <1>1 DEF AtHand, ShapeOK, Calls, CalInv, CalendarTypeOK
<1>3. PICK c \in Calls : Delivery(c, m, seen, w.kind, due, w.force)
  <2>1. PICK kind \in {"confirm", "remind"}, force \in BOOLEAN : kind = w.kind /\ force = w.force
    BY <1>2
  <2> QED
    BY <2>1, Delivering
<1>4. /\ call' = [call EXCEPT ![h] = c]
      /\ unseen' = IF w.force \/ m \in inFlight \/ StillDue(m, due) THEN unseen
                   ELSE unseen \cup {m}
  BY <1>2, <1>3 DEF SendsDue, Delivery
<1>5. Turns(h, c)
  BY <1>2, <1>4 DEF Turns
<1>6. /\ \A n \in Meetings : ~Sender(n, call[h])
      /\ \A n \in Meetings \ {m} : ~Sender(n, c)
      /\ Sender(m, c) => ~w.force
      /\ c.done = {} /\ c.channels = due
  BY <1>2, <1>3 DEF Delivery, Sender
<1>7. Sender(m, c) /\ m \notin unseen' => StillDue(m, c.channels)
  BY <1>2, <1>4, <1>6
<1>8. unseen \subseteq unseen'
  BY <1>4
<1>9. SendInv'
  BY <1>5, <1>6, <1>7, <1>8, SenderStarts
<1> QED
  BY <1>2, <1>3, <1>5, <1>9 DEF Delivery

\* The confirmation of create: its meeting enters the in-flight set.
LEMMA FlightSends == ASSUME CalInv, SendsInv, NEW h \in Handlers, EnterFlight(h) PROVE SendsInv'
<1>1. PICK w \in Calls, m \in Meetings, row \in Rows, seen \in Rows :
        AtHand(h, w, m, row, seen)
  BY AtWork DEF EnterFlight
<1>2. /\ w = call[h] /\ m = w.meeting /\ w.pc = "decide" /\ w.kind = "confirm" /\ Mute(w)
      /\ ~w.force /\ UNCHANGED <<meetings, told>>
  BY <1>1 DEF AtHand, ShapeOK, Mute, EnterFlight
<1>3. CASE Closes(h) /\ UNCHANGED <<inFlight, unseen>>
  BY <1>2, <1>3, StillMute, MuteRequest
<1>4. ASSUME NEW due \in SUBSET Channels, SendsDue(h, due), inFlight' = inFlight \cup {m}
      PROVE  SendsInv'
  <2>1. \A o \in Handlers : ~Confirming(m, call[o])
    BY <1>2 DEF CalInv, MakerInv, Confirming
  <2>2. m \notin inFlight
    BY <2>1 DEF SendsInv, FlightInv
  <2>3. SendInv' /\ \E c \in Calls : /\ Turns(h, c) /\ c.pc \in {"google", "send"}
                                     /\ c.kind = w.kind /\ c.meeting = m
    BY <1>2, <1>4, <2>2, GoesSends
  <2>4. PICK c \in Calls : /\ Turns(h, c) /\ c.pc \in {"google", "send"}
                           /\ c.kind = w.kind /\ c.meeting = m
    BY <2>3
  <2>5. /\ \A n \in Meetings \ {m}, o \in Handlers :
              Confirming(n, call'[o]) <=> Confirming(n, call[o])
        /\ \A o \in Handlers : Confirming(m, call'[o]) <=> o = h
    BY <1>2, <2>1, <2>4 DEF Turns, Confirming
  <2>6. SoloInv'
    <3> SUFFICES ASSUME NEW n \in Meetings, NEW a \in Handlers, NEW b \in Handlers,
                        Confirming(n, call'[a]), Confirming(n, call'[b])
                 PROVE  a = b
      BY DEF SoloInv, Confirming
    <3> QED
      BY <2>5 DEF SendsInv, SoloInv
  <2>7. FlightInv'
    <3> SUFFICES ASSUME NEW n \in Meetings
                 PROVE  n \in inFlight' <=> \E o \in Handlers : Confirming(n, call'[o])
      BY DEF FlightInv, Confirming
    <3> QED
      BY <1>4, <2>5 DEF SendsInv, FlightInv
  <2> QED
    BY <2>3, <2>6, <2>7 DEF SendsInv
<1>5. PICK due \in SUBSET Channels : due = Channels \ RecentlySent(call[h].seen)
  OBVIOUS
<1> QED
  BY <1>2, <1>3, <1>4, <1>5 DEF EnterFlight

\* A manual reminder: nothing while a confirmation is in flight.
LEMMA RemindSends ==
    ASSUME CalInv, SendsInv, NEW h \in Handlers, DecideReminder(h) PROVE SendsInv'
<1>1. PICK w \in Calls : /\ w = call[h] /\ w.pc = "decide" /\ w.kind = "remind" /\ Mute(w)
                         /\ UNCHANGED <<meetings, told, inFlight>>
  BY DEF DecideReminder, Mute, CalInv, CalendarTypeOK
<1>2. PICK due \in SUBSET Channels : due = Wanted(w)
  BY WantedTyped
<1>3. CASE Closes(h) /\ UNCHANGED unseen
  BY <1>1, <1>3, StillMute, MuteRequest
<1>4. CASE SendsDue(h, due)
  <2>1. ~w.force => w.meeting \notin inFlight
    BY <1>2, <1>4 DEF SendsDue, Wanted
  <2>2. SendInv' /\ \E c \in Calls : Turns(h, c) /\ c.kind = "remind"
    BY <1>1, <1>4, <2>1, GoesSends
  <2>3. PICK c \in Calls : Turns(h, c) /\ c.kind = "remind"
    BY <2>2
  <2>4. \A n \in Meetings, o \in Handlers : Confirming(n, call'[o]) <=> Confirming(n, call[o])
    BY <1>1, <2>3 DEF Turns, Confirming
  <2>5. SoloInv'
    <3> SUFFICES ASSUME NEW n \in Meetings, NEW a \in Handlers, NEW b \in Handlers,
                        Confirming(n, call'[a]), Confirming(n, call'[b])
                 PROVE  a = b
      BY DEF SoloInv, Confirming
    <3> QED
      BY <2>4 DEF SendsInv, SoloInv
  <2>6. FlightInv'
    <3> SUFFICES ASSUME NEW n \in Meetings
                 PROVE  n \in inFlight <=> \E o \in Handlers : Confirming(n, call'[o])
      BY <1>1 DEF FlightInv, Confirming
    <3> QED
      BY <2>4 DEF SendsInv, FlightInv
  <2> QED
    BY <2>2, <2>5, <2>6 DEF SendsInv
<1> QED
  BY <1>1, <1>2, <1>3, <1>4 DEF DecideReminder

\* A message goes out: it was due, and the request remembers it.
LEMMA SendSends == ASSUME CalInv, SendsInv, NEW h \in Handlers, Send(h) PROVE SendsInv'
<1>1. PICK w \in Calls : w = call[h] /\ ShapeOK(w) /\ MadeOK(w) /\ w.pc = "send"
  BY DEF CalInv, CalendarTypeOK, ShapeInv, MadeInv, Send
<1>2. /\ call \in [Handlers -> Calls] /\ told \in [Meetings -> [Channels -> Nat]]
      /\ UNCHANGED <<meetings, inFlight, unseen>>
      /\ w.kind \in {"confirm", "remind"} /\ w.channels # {} /\ w.channels \subseteq Channels
      /\ w.done \subseteq Channels
  BY <1>1 DEF Send, CalInv, CalendarTypeOK, ShapeOK, Calls
<1>3. PICK m \in Meetings : m = w.meeting
  BY <1>1 DEF ShapeOK
<1>4. PICK channel \in w.channels, done \in SUBSET Channels :
        /\ call' = [call EXCEPT ![h].channels = @ \ {channel}, ![h].done = done,
                                ![h].pc = IF w.channels # {channel} THEN "send" ELSE "mark"]
        /\ \/ done = w.done /\ told' = told
           \/ w.force /\ told' = told
           \/ /\ ~w.force /\ done = w.done \cup {channel}
              /\ told' = [told EXCEPT ![m][channel] = @ + 1]
  <2> DEFINE first == IF "whatsapp" \in w.channels THEN "whatsapp" ELSE "email"
  <2>1. first \in w.channels /\ w.done \cup {first} \subseteq Channels
    BY <1>2 DEF Channels
  <2>2. PICK done \in {w.done \cup {first}, w.done} :
          /\ call' = [call EXCEPT ![h].channels = @ \ {first}, ![h].done = done,
                                ![h].pc = IF w.channels # {first} THEN "send" ELSE "mark"]
          /\ \/ done = w.done /\ told' = told
             \/ w.force /\ told' = told
             \/ /\ ~w.force /\ done = w.done \cup {first}
                /\ told' = [told EXCEPT ![m][first] = @ + 1]
    BY <1>1, <1>3 DEF Send
  <2> HIDE DEF first
  <2> QED
    BY <1>2, <2>1, <2>2
<1>5. PICK c \in Calls : /\ call'[h] = c /\ \A o \in Handlers \ {h} : call'[o] = call[o]
                         /\ c.kind = w.kind /\ c.pc \in {"send", "mark"} /\ c.meeting = m
                         /\ (c.force <=> w.force)
                         /\ c.channels = w.channels \ {channel} /\ c.done = done
  <2> DEFINE c == [w EXCEPT !.channels = @ \ {channel}, !.done = done,
                            !.pc = IF w.channels # {channel} THEN "send" ELSE "mark"]
  <2>1. c \in Calls
    BY <1>2 DEF Calls
  <2>2. /\ c.kind = w.kind /\ c.pc \in {"send", "mark"} /\ c.meeting = m
        /\ (c.force <=> w.force) /\ c.channels = w.channels \ {channel} /\ c.done = done
    BY <1>3 DEF Calls
  <2>3. call' = [call EXCEPT ![h] = c]
    BY <1>1, <1>2, <1>4
  <2> HIDE DEF c
  <2>4. call'[h] = c /\ \A o \in Handlers \ {h} : call'[o] = call[o]
    BY <1>2, <2>3
  <2> QED
    BY <2>1, <2>2, <2>4
<1>6. /\ \A n \in Meetings : /\ Confirming(n, c) <=> Confirming(n, w)
                             /\ Sender(n, c) <=> Sender(n, w)
      /\ Sender(m, w) <=> ~w.force
      /\ \A n \in Meetings \ {m} : ~Sender(n, w)
  BY <1>1, <1>2, <1>3, <1>5 DEF Confirming, Sender
<1>7. CASE told' = told /\ (done = w.done \/ w.force)
  <2>1. \A n \in Meetings : Sender(n, w) => c.channels \subseteq w.channels /\ c.done = w.done
    BY <1>5, <1>6, <1>7
  <2>2. \A n \in Meetings, k \in Channels : Marked(n, k) => Marked(n, k)'
    BY <1>2 DEF Marked, OnFile
  <2> QED
    BY <1>1, <1>2, <1>5, <1>6, <1>7, <2>1, <2>2, MuteStep
<1>8. CASE /\ ~w.force /\ done = w.done \cup {channel}
           /\ told' = [told EXCEPT ![m][channel] = @ + 1]
  <2>1. SoloInv' /\ FlightInv'
    <3>1. \A n \in Meetings, o \in Handlers : Confirming(n, call'[o]) <=> Confirming(n, call[o])
      BY <1>1, <1>5, <1>6
    <3>2. SoloInv'
      <4> SUFFICES ASSUME NEW n \in Meetings, NEW a \in Handlers, NEW b \in Handlers,
                          Confirming(n, call'[a]), Confirming(n, call'[b])
                   PROVE  a = b
        BY DEF SoloInv, Confirming
      <4> QED
        BY <3>1 DEF SendsInv, SoloInv
    <3>3. FlightInv'
      <4> SUFFICES ASSUME NEW n \in Meetings
                   PROVE  n \in inFlight <=> \E o \in Handlers : Confirming(n, call'[o])
        BY <1>2 DEF FlightInv, Confirming
      <4> QED
        BY <3>1 DEF SendsInv, FlightInv
    <3> QED
      BY <3>2, <3>3
  <2>2. ASSUME NEW n \in Meetings \ unseen, n # m PROVE SendOK(n)'
    <3>1. SendOK(n) /\ told'[n] = told[n]
      BY <1>2, <1>8, <2>2 DEF SendsInv, SendInv
    <3> QED
      BY <1>1, <1>2, <1>5, <1>6, <2>2, <3>1, SendKept
  <2>3. ASSUME m \notin unseen PROVE SendOK(m)'
    <3>1. SendOK(m) /\ Sender(m, call[h]) /\ Sender(m, c)
      BY <1>1, <1>6, <1>8, <2>3 DEF SendsInv, SendInv
    <3>2. /\ told[m][channel] = 0 /\ told'[m][channel] = 1 /\ channel \in Channels
          /\ \A k \in Channels \ {channel} : told'[m][k] = told[m][k]
      BY <1>1, <1>2, <1>8, <3>1 DEF SendOK
    <3>3. \A o \in Handlers : Sender(m, call'[o]) <=> o = h
      BY <1>5, <3>1 DEF SendOK
    <3>4. \A k \in c.channels : told'[m][k] = 0 /\ k \notin c.done
      BY <1>1, <1>2, <1>5, <1>8, <3>1, <3>2 DEF SendOK
    <3>5. ASSUME NEW k \in Channels, told'[m][k] # 0
          PROVE  told'[m][k] = 1 /\ (Marked(m, k)
                    \/ \E o \in Handlers : Sender(m, call'[o]) /\ k \in call'[o].done)
      <4>1. CASE k = channel
        BY <1>5, <1>8, <3>2, <3>3, <4>1
      <4>2. CASE k # channel
        <5>1. /\ told[m][k] = told'[m][k]
              /\ \A o \in Handlers : Sender(m, call[o]) => o = h
          BY <3>1, <3>2, <4>2 DEF SendOK
        <5>2. told[m][k] = 1 /\ (Marked(m, k) \/ k \in w.done)
          BY <1>1, <3>1, <3>5, <5>1 DEF SendOK
        <5> QED
          BY <1>5, <1>8, <3>3, <5>1, <5>2
      <4> QED
        BY <4>1, <4>2
    <3>6. meetings[m].state # "absent"
      BY <1>1, <1>3 DEF MadeOK, ShapeOK
    <3>7. /\ \A a \in Handlers, b \in Handlers : Sender(m, call'[a]) /\ Sender(m, call'[b]) => a = b
          /\ \A a \in Handlers : Sender(m, call'[a]) =>
                \A k \in call'[a].channels : told'[m][k] = 0 /\ k \notin call'[a].done
      BY <1>5, <3>3, <3>4
    <3> QED
      BY <1>2, <3>5, <3>6, <3>7 DEF SendOK, Sender, Marked, OnFile
  <2>4. SendInv'
    BY <1>2, <2>2, <2>3 DEF SendInv
  <2> QED
    BY <2>1, <2>4 DEF SendsInv
<1> QED
  BY <1>4, <1>7, <1>8

\* What was sent is marked, or the meeting's confirmation went unseen.
LEMMA MarkSends == ASSUME CalInv, SendsInv, NEW h \in Handlers, MarkSent(h) PROVE SendsInv'
<1>1. PICK w \in Calls : w = call[h] /\ ShapeOK(w) /\ MadeOK(w) /\ w.pc = "mark"
  BY DEF CalInv, CalendarTypeOK, ShapeInv, MadeInv, MarkSent
<1>2. /\ call \in [Handlers -> Calls] /\ meetings \in [Meetings -> Rows] /\ told' = told
      /\ w.kind \in {"confirm", "remind"}
      /\ call'[h] = IdleCall /\ \A o \in Handlers \ {h} : call'[o] = call[o]
  BY <1>1 DEF MarkSent, CalInv, CalendarTypeOK, ShapeOK, Calls, Closes
<1>3. PICK m \in Meetings : m = w.meeting
  BY <1>1 DEF ShapeOK
<1>4. /\ inFlight' = IF w.kind = "confirm" THEN inFlight \ {m} ELSE inFlight
      /\ unseen \subseteq unseen'
      /\ \/ w.done = {} /\ meetings' = meetings
         \/ m \in unseen' /\ meetings' = meetings
         \/ meetings' = IF OnFile(m) THEN [meetings EXCEPT ![m].sent = @ \cup w.done,
                                                         ![m].recent = TRUE]
                        ELSE meetings
  BY <1>1, <1>3 DEF MarkSent, Released
<1>5. \A n \in Meetings : /\ ~Confirming(n, IdleCall) /\ ~Sender(n, IdleCall)
                          /\ Confirming(n, w) <=> n = m /\ w.kind = "confirm"
                          /\ Sender(n, w) => n = m
  BY <1>1, <1>3, Empties DEF Confirming, Sender
<1>6. /\ SoloInv'
      /\ \A n \in Meetings : (\E o \in Handlers : Confirming(n, call'[o])) <=>
            \E o \in Handlers \ {h} : Confirming(n, call[o])
  <2>1. SoloInv'
    <3> SUFFICES ASSUME NEW n \in Meetings, NEW a \in Handlers, NEW b \in Handlers,
                        Confirming(n, call'[a]), Confirming(n, call'[b])
                 PROVE  a = b
      BY DEF SoloInv, Confirming
    <3> QED
      BY <1>2, <1>5 DEF SendsInv, SoloInv
  <2>2. \A n \in Meetings : (\E o \in Handlers : Confirming(n, call'[o])) <=>
            \E o \in Handlers \ {h} : Confirming(n, call[o])
    BY <1>2, <1>5
  <2> QED
    BY <2>1, <2>2
<1>7. FlightInv'
  <2> SUFFICES ASSUME NEW n \in Meetings
               PROVE  n \in inFlight' <=> \E o \in Handlers : Confirming(n, call'[o])
    BY DEF FlightInv, Confirming
  <2>1. n \in inFlight <=> \E o \in Handlers : Confirming(n, call[o])
    BY DEF SendsInv, FlightInv
  <2>2. CASE n = m /\ w.kind = "confirm"
    <3>1. \A o \in Handlers \ {h} : ~Confirming(n, call[o])
      BY <1>1, <1>5, <2>2 DEF SendsInv, SoloInv
    <3> QED
      BY <1>4, <1>6, <2>2, <3>1
  <2>3. CASE ~(n = m /\ w.kind = "confirm")
    <3>1. n \in inFlight' <=> n \in inFlight
      BY <1>4, <2>3
    <3>2. ~Confirming(n, call[h])
      BY <1>1, <1>5, <2>3
    <3> QED
      BY <1>6, <2>1, <3>1, <3>2
  <2> QED
    BY <2>2, <2>3
<1>8. ASSUME NEW n \in Meetings \ unseen', n # m PROVE SendOK(n)'
  <2>1. SendOK(n) /\ meetings'[n] = meetings[n]
    BY <1>2, <1>4, <1>8 DEF SendsInv, SendInv
  <2>2. \A o \in Handlers : call'[o] = call[o] \/ (~Sender(n, call[o]) /\ ~Sender(n, call'[o]))
    BY <1>1, <1>2, <1>5, <1>8
  <2> QED
    BY <1>2, <2>1, <2>2, SendKept
<1>9. ASSUME m \notin unseen' PROVE SendOK(m)'
  <2>1. SendOK(m) /\ meetings[m].state # "absent"
    BY <1>1, <1>2, <1>3, <1>4, <1>9 DEF SendsInv, SendInv, MadeOK
  <2>2. /\ meetings'[m].state = meetings[m].state
        /\ \A k \in Channels : Marked(m, k) => Marked(m, k)'
        /\ \A k \in w.done : Marked(m, k)'
    <3>1. CASE w.done = {} /\ meetings' = meetings
      BY <3>1 DEF Marked, OnFile
    <3>2. CASE OnFile(m) /\ meetings' = [meetings EXCEPT ![m].sent = @ \cup w.done,
                                                       ![m].recent = TRUE]
      <4>1. /\ meetings'[m].state = meetings[m].state /\ meetings'[m].recent
            /\ meetings'[m].sent = meetings[m].sent \cup w.done
        BY <1>2, <3>2 DEF Rows
      <4> QED
        BY <4>1 DEF Marked, OnFile
    <3>3. CASE ~OnFile(m) /\ meetings' = meetings
      BY <3>3 DEF Marked, OnFile
    <3> QED
      BY <1>4, <1>9, <3>1, <3>2, <3>3
  <2>3. \A o \in Handlers : Sender(m, call'[o]) => o # h /\ call'[o] = call[o]
    BY <1>2, <1>5
  <2>4. /\ \A a \in Handlers, b \in Handlers : Sender(m, call'[a]) /\ Sender(m, call'[b]) => a = b
        /\ \A a \in Handlers : Sender(m, call'[a]) =>
              \A k \in call'[a].channels : told[m][k] = 0 /\ k \notin call'[a].done
    BY <2>1, <2>3 DEF SendOK
  <2>5. ASSUME NEW k \in Channels, told[m][k] # 0
        PROVE  told[m][k] = 1 /\ (Marked(m, k)'
                  \/ \E o \in Handlers : Sender(m, call'[o]) /\ k \in call'[o].done)
    <3>1. told[m][k] = 1 /\ (Marked(m, k) \/ \E o \in Handlers : Sender(m, call[o])
                                                               /\ k \in call[o].done)
      BY <2>1, <2>5 DEF SendOK
    <3>2. ASSUME NEW o \in Handlers, Sender(m, call[o]), k \in call[o].done
          PROVE  Marked(m, k)' \/ (Sender(m, call'[o]) /\ k \in call'[o].done)
      BY <1>1, <1>2, <2>2, <3>2
    <3> QED
      BY <2>2, <3>1, <3>2
  <2> QED
    BY <1>2, <2>1, <2>2, <2>4, <2>5 DEF SendOK, Sender
<1>10. SendInv'
  BY <1>8, <1>9 DEF SendInv
<1> QED
  BY <1>6, <1>7, <1>10 DEF SendsInv

\* Five minutes pass: the confirmations of a meeting start afresh.
LEMMA ForgetSends == ASSUME CalInv, SendsInv, NEW m \in Meetings, Forget(m) PROVE SendsInv'
<1>1. /\ meetings \in [Meetings -> Rows] /\ told \in [Meetings -> [Channels -> Nat]]
      /\ UNCHANGED <<inFlight, unseen>>
      /\ meetings' = [meetings EXCEPT ![m].recent = FALSE]
      /\ told' = [told EXCEPT ![m] = NoneTold]
  BY DEF Forget, CalInv, CalendarTypeOK
<1>5. ASSUME NEW n \in Meetings, NEW h \in Handlers
      PROVE  /\ Confirming(n, call'[h]) <=> Confirming(n, call[h])
             /\ Sender(n, call'[h]) <=> Sender(n, call[h])
             /\ call'[h].channels = call[h].channels /\ call'[h].done = call[h].done
             /\ call'[h].channels \subseteq Channels
             /\ n # m => call'[h] = call[h] \/ (~Sender(n, call[h]) /\ ~Sender(n, call'[h]))
  <2>1. SameHand(call[h], call'[h]) /\ call'[h] \in Calls
    BY ForgetTurns DEF CalInv
  <2>2. call'[h] = call[h] \/ call[h].pc = "decide"
    BY DEF Forget
  <2> QED
    BY <2>1, <2>2 DEF SameHand, SameWork, Confirming, Sender, Calls
<1>2. SoloInv' /\ FlightInv'
  <2>1. SoloInv'
    <3> SUFFICES ASSUME NEW n \in Meetings, NEW a \in Handlers, NEW b \in Handlers,
                        Confirming(n, call'[a]), Confirming(n, call'[b])
                 PROVE  a = b
      BY DEF SoloInv, Confirming
    <3> QED
      BY <1>5 DEF SendsInv, SoloInv
  <2>2. FlightInv'
    <3> SUFFICES ASSUME NEW n \in Meetings
                 PROVE  n \in inFlight <=> \E o \in Handlers : Confirming(n, call'[o])
      BY <1>1 DEF FlightInv, Confirming
    <3> QED
      BY <1>5 DEF SendsInv, FlightInv
  <2> QED
    BY <2>1, <2>2
<1>3. ASSUME NEW n \in Meetings \ unseen, n # m PROVE SendOK(n)'
  <2>1. SendOK(n) /\ told'[n] = told[n] /\ meetings'[n] = meetings[n]
    BY <1>1, <1>3 DEF SendsInv, SendInv
  <2> QED
    BY <1>5, <1>3, <2>1, SendKept
<1>4. ASSUME m \notin unseen PROVE SendOK(m)'
  <2>1. SendOK(m)
    BY <1>4 DEF SendsInv, SendInv
  <2>2. \A k \in Channels : told'[m][k] = 0
    BY <1>1 DEF NoneTold
  <2>3. /\ \A a \in Handlers, b \in Handlers : Sender(m, call'[a]) /\ Sender(m, call'[b]) => a = b
        /\ \A a \in Handlers : Sender(m, call'[a]) =>
              \A k \in call'[a].channels : told'[m][k] = 0 /\ k \notin call'[a].done
    BY <1>5, <2>1, <2>2 DEF SendOK
  <2> QED
    BY <2>2, <2>3 DEF SendOK, Sender
<1> QED
  BY <1>1, <1>2, <1>3, <1>4 DEF SendsInv, SendInv

\* A step that leaves the meetings and the requests alone.
LEMMA IdleSends ==
    ASSUME SendsInv, UNCHANGED <<meetings, inFlight, call, told, unseen>>
    PROVE  SendsInv'
BY DEF SendsInv, SoloInv, FlightInv, SendInv, SendOK, Sender, Confirming, Marked, OnFile

\* No request is under way at the start.
LEMMA SendsInvInit == CalendarInit => SendsInv
<1> SUFFICES ASSUME CalendarInit PROVE SendsInv
  OBVIOUS
<1>1. /\ \A m \in Meetings, h \in Handlers : ~Confirming(m, call[h]) /\ ~Sender(m, call[h])
      /\ inFlight = {} /\ \A m \in Meetings, c \in Channels : told[m][c] = 0
  BY Empties DEF CalendarInit, Confirming, Sender, NoneTold
<1> QED
  BY <1>1 DEF SendsInv, SoloInv, FlightInv, SendInv, SendOK

\* Every step keeps the confirmations in order.
LEMMA SendsInvNext == CalInv /\ SendsInv /\ [CalendarNext]_<<calendarVars, counters>> => SendsInv'
<1> SUFFICES ASSUME CalInv, SendsInv, [CalendarNext]_<<calendarVars, counters>> PROVE SendsInv'
  OBVIOUS
<1>1. CASE UNCHANGED <<calendarVars, counters>>
  BY <1>1, IdleSends DEF calendarVars, calendarHistory
<1>2. ASSUME NEW d \in Dates, BlockDay(d) \/ UnblockDay(d) PROVE SendsInv'
  BY <1>2, IdleSends DEF BlockDay, UnblockDay, calendarHistory
<1>3. ASSUME NEW m \in Meetings, Forget(m) PROVE SendsInv'
  BY <1>3, ForgetSends
<1>4. ASSUME NEW h \in Handlers, NEW m \in Meetings,
             Create(h, m) \/ UpdateMeeting(h, m) \/ RemoveMeeting(h, m)
                \/ RegenerateMeetLink(h, m) \/ Remind(h, m)
      PROVE  SendsInv'
  BY <1>4, MuteStarts
<1>5. ASSUME NEW h \in Handlers,
             Backfill(h) \/ BackfillRow(h) \/ AskGoogle(h) \/ PatchEvent(h) \/ InsertRow(h)
                \/ PatchRow(h) \/ DropOld(h) \/ SyncRow(h)
      PROVE  SendsInv'
  BY <1>5, MuteSteps, MuteWrites, LinkSends, PatchRowSends
<1>6. ASSUME NEW h \in Handlers,
             RemoveEvent(h) \/ DeleteRow(h) \/ DropReplaced(h) \/ SaveMeetLink(h)
                \/ Confirm(h) \/ ReadAgain(h) \/ EnterFlight(h) \/ DecideReminder(h)
                \/ Send(h) \/ MarkSent(h)
      PROVE  SendsInv'
  BY <1>6, MuteSteps, MuteWrites, LinkSends, ConfirmSends, FlightSends, RemindSends, SendSends,
     MarkSends
<1> QED
  BY <1>1, <1>2, <1>3, <1>4, <1>5, <1>6 DEF CalendarNext

\* Every reachable state keeps the confirmations in order.
LEMMA SendsInvHolds == CalendarSpec => [](CalInv /\ SendsInv)
<1>1. CalendarInit => SendsInv
  BY SendsInvInit
<1>2. CalInv /\ SendsInv /\ [CalendarNext]_<<calendarVars, counters>> => SendsInv'
  BY SendsInvNext
<1> QED
  BY <1>1, <1>2, CalInvHolds, PTL DEF CalendarSpec

\* The invariants have who sends for every meeting in flight.
LEMMA InFlightKept == CalInv /\ SendsInv => InFlightIsSending
<1> SUFFICES ASSUME CalInv, SendsInv PROVE InFlightIsSending
  OBVIOUS
<1>1. \A m \in Meetings, h \in Handlers : Confirming(m, call[h]) <=>
        /\ call[h].meeting = m /\ call[h].kind = "confirm"
        /\ call[h].pc \in {"google", "store", "send", "mark"}
  BY DEF Confirming, CalInv, ShapeInv, ShapeOK
<1>2. inFlight \subseteq Meetings
  BY DEF CalInv, CalendarTypeOK
<1> QED
  BY <1>1, <1>2 DEF InFlightIsSending, SendsInv, FlightInv

\* The in-flight set of createConfirmInFlight names the meetings whose confirmation is
\* under way, for any number of meetings and requests: no entry is left behind.
THEOREM InFlightReleased == CalendarSpec => []InFlightIsSending
BY InFlightKept, SendsInvHolds, PTL

\* The invariant has one confirmation per channel.
LEMMA ConfirmedKept == SendsInv => ConfirmedOnce
<1> SUFFICES ASSUME SendsInv, NEW m \in Meetings \ unseen, NEW c \in Channels
             PROVE  told[m][c] <= 1
  BY DEF ConfirmedOnce
<1>1. told[m][c] = 0 \/ told[m][c] = 1
  BY DEF SendsInv, SendInv, SendOK
<1> QED
  BY <1>1

\* Between two dates and within five minutes a meeting is confirmed once per channel,
\* however create's confirmation and manual reminders interleave, but for two that read
\* the row before either had marked it.
THEOREM ConfirmedAtMostOnce == CalendarSpec => []ConfirmedOnce
BY ConfirmedKept, SendsInvHolds, PTL

----------------------------------------------------------------------------
(* Members and assignees: a meeting that stands and whose replacements     *)
(* neither failed nor overlapped is worked on by one request, whose two    *)
(* stages say what each table holds.                                       *)

\* A request at work on m since the last answer was given for it: it holds what was
\* asked, and each table is as the last request left it, empty between the delete and
\* the insert, or as asked.
Replaces(m, w) ==
    /\ w.names = asked[m].names
    /\ w.memberStage \in {"delete", "insert", "done"}
    /\ w.memberStage = "insert" => MembersOf(m) = {}
    /\ w.memberStage = "done" => MembersOf(m) = asked[m].names
    /\ w.userStage \in {"skip", "delete", "insert", "done"}
    /\ w.userStage # "skip" => w.users = asked[m].users
    /\ w.userStage = "insert" => AssignedTo(m) = {}
    /\ w.userStage \in {"skip", "done"} => AssignedTo(m) = asked[m].users

\* A meeting that stands and whose replacements neither failed nor overlapped.
Kept(m) ==
    /\ \A g, h \in Reading(m) : g = h
    /\ \A h \in Reading(m) : Replaces(m, work[h])
    /\ Reading(m) = {} => MembersOf(m) = asked[m].names /\ AssignedTo(m) = asked[m].users

MeetingInv(m) ==
    /\ Reading(m) # {} => rdv[m].state # "absent"
    /\ Stands(m) => rdv[m].creator \in asked[m].users
    /\ Stands(m) /\ m \notin torn => Kept(m)

\* Who works on no meeting has nothing to replace.
RestInv == \A h \in Handlers : work[h].meeting = None => work[h] = IdleWork

PeopleInv == PeopleTypeOK /\ RestInv /\ \A m \in Rdvs : MeetingInv(m)

\* What the lemmas use of the types: the rows of the tables and the requests.
LEMMA PeopleTypes ==
    ASSUME PeopleTypeOK, NEW h \in Handlers
    PROVE  /\ work[h].meeting \in Rdvs \cup {None} /\ work[h].names \in SUBSET Names
           /\ work[h].users \in SUBSET Staff /\ work[h].memberStage \in Stages
           /\ work[h].userStage \in Stages /\ work[h].together \in BOOLEAN
BY DEF PeopleTypeOK

Works == [meeting : Rdvs \cup {None}, names : SUBSET Names, users : SUBSET Staff,
          memberStage : Stages, userStage : Stages, together : BOOLEAN]

\* A request that has moved is over, or at the stage it moved to.
LEMMA MovedWhere ==
    ASSUME PeopleTypeOK, NEW h \in Handlers, NEW w \in Works, Moved(h, w)
    PROVE  /\ work' \in [Handlers -> Works]
           /\ \A g \in Handlers : g # h => work'[g] = work[g]
           /\ \/ work'[h] = w
              \/ /\ work'[h] = IdleWork
                 /\ \/ /\ w.memberStage \notin {"delete", "insert"}
                       /\ w.userStage \notin {"delete", "insert"}
                    \/ "failed" \in {w.memberStage, w.userStage}
<1>1. work \in [Handlers -> Works] /\ IdleWork \in Works
  BY DEF PeopleTypeOK, IdleWork, Stages, Works
<1> QED
  BY <1>1 DEF Moved

\* The users resolved are staff, and the creator is one of them.
LEMMA CreatorNamed ==
    ASSUME NEW given \in SUBSET Staff, NEW u \in Staff, NEW c \in Staff
    PROVE  ResolveAssigned(given, c, u) \in SUBSET Staff /\ c \in ResolveAssigned(given, c, u)
BY DEF ResolveAssigned

\* A meeting none of whose rows and requests move.
LEMMA MeetingAside ==
    ASSUME PeopleInv, NEW m \in Rdvs, rdv'[m].state = rdv[m].state,
           rdv'[m].creator = rdv[m].creator, asked'[m] = asked[m],
           MembersOf(m)' = MembersOf(m), AssignedTo(m)' = AssignedTo(m),
           torn \subseteq torn', Reading(m)' = Reading(m),
           \A h \in Reading(m) : work'[h] = work[h]
    PROVE  MeetingInv(m)'
<1>1. MeetingInv(m)
  BY DEF PeopleInv
<1>2. Stands(m)' <=> Stands(m)
  BY DEF Stands
<1>3. \A h \in Reading(m) : Replaces(m, work[h]) => Replaces(m, work[h])'
  BY DEF Replaces
<1>4. Kept(m) => Kept(m)'
  BY <1>3 DEF Kept
<1> QED
  BY <1>1, <1>2, <1>4 DEF MeetingInv

\* A step of one request that concerns one meeting leaves the requests of the others.
LEMMA ReadingElsewhere ==
    ASSUME PeopleTypeOK, NEW h \in Handlers, NEW m \in Rdvs, NEW k \in Rdvs, k # m,
           \A g \in Handlers : g # h => work'[g] = work[g],
           work[h].meeting \in {m, None}, work'[h].meeting \in {m, None}
    PROVE  Reading(k)' = Reading(k) /\ \A g \in Reading(k) : work'[g] = work[g]
BY PeopleAssumption DEF Reading

\* A meeting is created: the row, what was asked for, and a request that replaces.
LEMMA PlanKeeps ==
    ASSUME PeopleInv, NEW h \in Handlers, NEW m \in Rdvs, Plan(h, m)
    PROVE  PeopleInv'
<1>0. PeopleTypeOK /\ RestInv /\ \A k \in Rdvs : MeetingInv(k)
  BY DEF PeopleInv
<1>1. PICK u \in Staff, given \in SUBSET Staff, names \in SUBSET Names, valid \in BOOLEAN,
           at \in Instants, duration \in Durations :
        LET users == ResolveAssigned(given, u, u)
        IN  /\ \A a \in users : Available(a, at, at + duration)
            /\ rdv' = [rdv EXCEPT ![m] = [NoRdv EXCEPT !.state = "there", !.creator = u,
                                                       !.at = at, !.duration = duration]]
            /\ asked' = [asked EXCEPT ![m] = [names |-> names, users |-> users]]
            /\ work' = IF ~valid THEN work
                       ELSE [work EXCEPT ![h] = [meeting |-> m, names |-> names,
                               users |-> users, memberStage |-> "delete",
                               userStage |-> "delete", together |-> TRUE]]
            /\ torn' = IF valid THEN torn ELSE torn \cup {m}
  BY Zenon DEF Plan
<1>2. PICK users \in SUBSET Staff : users = ResolveAssigned(given, u, u) /\ u \in users
  BY CreatorNamed
<1>3. /\ work[h].meeting = None /\ rdv[m].state = "absent"
      /\ UNCHANGED <<members, assignees, slots>>
  BY DEF Plan
<1>4. Reading(m) = {}
  BY <1>0, <1>3 DEF MeetingInv
<1> DEFINE row == [NoRdv EXCEPT !.state = "there", !.creator = u, !.at = at, !.duration = duration]
           w == [meeting |-> m, names |-> names, users |-> users, memberStage |-> "delete",
                 userStage |-> "delete", together |-> TRUE]
<1>5. /\ rdv' = [rdv EXCEPT ![m] = row]
      /\ asked' = [asked EXCEPT ![m] = [names |-> names, users |-> users]]
      /\ work' = IF ~valid THEN work ELSE [work EXCEPT ![h] = w]
      /\ torn' = IF valid THEN torn ELSE torn \cup {m}
  BY <1>1, <1>2
<1>6. /\ row \in RdvRow /\ row.state = "there" /\ row.creator = u
      /\ w \in Works /\ w.meeting = m /\ w.names = names /\ w.users = users
      /\ w.memberStage = "delete" /\ w.userStage = "delete"
  BY DEF NoRdv, RdvRow, Works, Stages
<1>7. /\ rdv \in [Rdvs -> RdvRow] /\ work \in [Handlers -> Works] /\ torn \subseteq Rdvs
      /\ asked \in [Rdvs -> [names : SUBSET Names, users : SUBSET Staff]]
  BY <1>0 DEF PeopleTypeOK, Works
<1> HIDE DEF row, w
<1>8. PeopleTypeOK'
  <2>1. /\ rdv' \in [Rdvs -> RdvRow] /\ work' \in [Handlers -> Works] /\ torn' \subseteq Rdvs
        /\ asked' \in [Rdvs -> [names : SUBSET Names, users : SUBSET Staff]]
    BY <1>5, <1>6, <1>7
  <2> QED
    BY <1>0, <1>3, <2>1 DEF PeopleTypeOK, Works
<1>9. RestInv'
  BY <1>0, <1>5, <1>6, <1>7, PeopleAssumption DEF RestInv
<1>10. MeetingInv(m)'
  <2>1. /\ Stands(m)' /\ rdv'[m].creator = u /\ rdv'[m].state = "there"
        /\ asked'[m].names = names /\ asked'[m].users = users
    BY <1>5, <1>6, <1>7 DEF Stands
  <2>2. CASE valid
    <3>1. work'[h] = w /\ \A g \in Handlers : g # h => work'[g] = work[g]
      BY <1>5, <1>7, <2>2
    <3>2. Reading(m)' = {h}
      BY <1>4, <1>6, <3>1 DEF Reading
    <3>3. Replaces(m, work[h])'
      BY <1>6, <2>1, <3>1 DEF Replaces
    <3> QED
      BY <1>2, <2>1, <3>2, <3>3 DEF MeetingInv, Kept
  <2>3. CASE ~valid
    BY <1>2, <1>5, <2>1, <2>3 DEF MeetingInv
  <2> QED
    BY <2>2, <2>3
<1>11. ASSUME NEW k \in Rdvs, k # m
       PROVE  MeetingInv(k)'
  <2>1. rdv'[k] = rdv[k] /\ asked'[k] = asked[k] /\ torn \subseteq torn'
    BY <1>5, <1>7, <1>11
  <2>2. Reading(k)' = Reading(k) /\ \A g \in Reading(k) : work'[g] = work[g]
    <3>1. \A g \in Handlers : g # h => work'[g] = work[g]
      BY <1>5, <1>7
    <3>2. work'[h].meeting \in {m, None}
      BY <1>3, <1>5, <1>6, <1>7
    <3> QED
      BY <1>0, <1>3, <1>11, <3>1, <3>2, ReadingElsewhere
  <2>3. MembersOf(k)' = MembersOf(k) /\ AssignedTo(k)' = AssignedTo(k)
    BY <1>3 DEF MembersOf, AssignedTo
  <2> QED
    BY <2>1, <2>2, <2>3, MeetingAside
<1> QED
  BY <1>8, <1>9, <1>10, <1>11 DEF PeopleInv

\* A meeting is changed: nobody else is at work on it, or it is torn.
LEMMA ChangeKeeps ==
    ASSUME PeopleInv, NEW h \in Handlers, NEW m \in Rdvs, Change(h, m)
    PROVE  PeopleInv'
<1>0. PeopleTypeOK /\ RestInv /\ \A k \in Rdvs : MeetingInv(k)
  BY DEF PeopleInv
<1>1. PICK u \in Staff, names \in SUBSET Names, given \in SUBSET Staff, both \in BOOLEAN :
        LET users == ResolveAssigned(given, rdv[m].creator, u)
        IN  /\ CanView(u, m)
            /\ both => CanAssign(u)
                  /\ \A a \in users : Available(a, rdv[m].at, rdv[m].at + rdv[m].duration)
            /\ rdv' = [rdv EXCEPT ![m].status = "done", ![m].closer = u]
            /\ asked' = [asked EXCEPT ![m] = [names |-> names,
                            users |-> IF both THEN users ELSE @.users]]
            /\ work' = [work EXCEPT ![h] = [meeting |-> m, names |-> names,
                   users |-> users, memberStage |-> "delete", together |-> FALSE,
                   userStage |-> IF both THEN "delete" ELSE "skip"]]
  BY Zenon DEF Change
<1>2. /\ rdv \in [Rdvs -> RdvRow] /\ work \in [Handlers -> Works] /\ torn \subseteq Rdvs
      /\ asked \in [Rdvs -> [names : SUBSET Names, users : SUBSET Staff]]
  BY <1>0 DEF PeopleTypeOK, Works
<1>3. Stands(m)
  BY <1>1 DEF CanView
<1>4. rdv[m].creator \in asked[m].users /\ asked[m].users \subseteq Staff
  BY <1>0, <1>2, <1>3 DEF MeetingInv
<1>5. PICK users \in SUBSET Staff :
          users = ResolveAssigned(given, rdv[m].creator, u) /\ rdv[m].creator \in users
  BY <1>4, CreatorNamed
<1>6. /\ work[h].meeting = None /\ UNCHANGED <<members, assignees, slots>>
      /\ torn' = IF Reading(m) = {} THEN torn ELSE torn \cup {m}
  BY DEF Change
<1> DEFINE row == [rdv[m] EXCEPT !.status = "done", !.closer = u]
           wanted == [names |-> names, users |-> IF both THEN users ELSE asked[m].users]
           w == [meeting |-> m, names |-> names, users |-> users, memberStage |-> "delete",
                 together |-> FALSE, userStage |-> IF both THEN "delete" ELSE "skip"]
<1>7. /\ rdv' = [rdv EXCEPT ![m] = row] /\ asked' = [asked EXCEPT ![m] = wanted]
      /\ work' = [work EXCEPT ![h] = w]
  BY <1>1, <1>2, <1>5
<1>8. /\ row \in RdvRow /\ row.state = rdv[m].state /\ row.creator = rdv[m].creator
      /\ w \in Works /\ w.meeting = m /\ w.names = names /\ w.users = users
      /\ w.memberStage = "delete" /\ w.userStage = IF both THEN "delete" ELSE "skip"
      /\ wanted \in [names : SUBSET Names, users : SUBSET Staff] /\ wanted.names = names
      /\ wanted.users = IF both THEN users ELSE asked[m].users
  <2>1. row \in RdvRow /\ row.state = rdv[m].state /\ row.creator = rdv[m].creator
    BY <1>2 DEF RdvRow
  <2>2. /\ w \in Works /\ w.meeting = m /\ w.names = names /\ w.users = users
        /\ w.memberStage = "delete" /\ w.userStage = IF both THEN "delete" ELSE "skip"
    BY DEF Works, Stages
  <2>3. /\ wanted \in [names : SUBSET Names, users : SUBSET Staff] /\ wanted.names = names
        /\ wanted.users = IF both THEN users ELSE asked[m].users
    BY <1>4
  <2> QED
    BY <2>1, <2>2, <2>3
<1> HIDE DEF row, w, wanted
<1>9. PeopleTypeOK'
  <2>1. /\ rdv' \in [Rdvs -> RdvRow] /\ work' \in [Handlers -> Works] /\ torn' \subseteq Rdvs
        /\ asked' \in [Rdvs -> [names : SUBSET Names, users : SUBSET Staff]]
    BY <1>2, <1>6, <1>7, <1>8
  <2> QED
    BY <1>0, <1>6, <2>1 DEF PeopleTypeOK, Works
<1>10. RestInv'
  BY <1>0, <1>2, <1>7, <1>8, PeopleAssumption DEF RestInv
<1>11. work'[h] = w /\ \A g \in Handlers : g # h => work'[g] = work[g]
  BY <1>2, <1>7
<1>12. MeetingInv(m)'
  <2>1. /\ Stands(m)' /\ rdv'[m].creator = rdv[m].creator /\ rdv'[m].state = "there"
        /\ asked'[m] = wanted
    BY <1>2, <1>3, <1>7, <1>8 DEF Stands
  <2>2. rdv'[m].creator \in asked'[m].users
    BY <1>4, <1>5, <1>8, <2>1
  <2>3. ASSUME m \notin torn'
        PROVE  Kept(m)'
    <3>1. Reading(m) = {} /\ m \notin torn
      BY <1>6, <2>3
    <3>2. AssignedTo(m) = asked[m].users
      BY <1>0, <1>3, <3>1 DEF MeetingInv, Kept
    <3>3. AssignedTo(m)' = AssignedTo(m)
      BY <1>6 DEF AssignedTo
    <3>4. Reading(m)' = {h}
      BY <1>8, <1>11, <3>1 DEF Reading
    <3>5. Replaces(m, work[h])'
      BY <1>8, <1>11, <2>1, <3>2, <3>3 DEF Replaces
    <3> QED
      BY <3>4, <3>5 DEF Kept
  <2> QED
    BY <2>1, <2>2, <2>3 DEF MeetingInv
<1>13. ASSUME NEW k \in Rdvs, k # m
       PROVE  MeetingInv(k)'
  <2>1. rdv'[k] = rdv[k] /\ asked'[k] = asked[k] /\ torn \subseteq torn'
    BY <1>2, <1>6, <1>7, <1>13
  <2>2. Reading(k)' = Reading(k) /\ \A g \in Reading(k) : work'[g] = work[g]
    BY <1>0, <1>6, <1>8, <1>11, <1>13, ReadingElsewhere
  <2>3. MembersOf(k)' = MembersOf(k) /\ AssignedTo(k)' = AssignedTo(k)
    BY <1>6 DEF MembersOf, AssignedTo
  <2> QED
    BY <2>1, <2>2, <2>3, MeetingAside
<1> QED
  BY <1>9, <1>10, <1>12, <1>13 DEF PeopleInv

\* A meeting is removed with its rows; it never stands again.
LEMMA DropKeeps ==
    ASSUME PeopleInv, NEW m \in Rdvs, Drop(m)
    PROVE  PeopleInv'
<1>0. PeopleTypeOK /\ RestInv /\ \A k \in Rdvs : MeetingInv(k)
  BY DEF PeopleInv
<1>1. /\ rdv' = [rdv EXCEPT ![m] = [NoRdv EXCEPT !.state = "gone"]]
      /\ members' = {r \in members : r.meeting # m}
      /\ assignees' = {r \in assignees : r.meeting # m}
      /\ UNCHANGED <<slots, work, asked, torn>>
  BY DEF Drop
<1>2. rdv \in [Rdvs -> RdvRow]
  BY <1>0 DEF PeopleTypeOK
<1>3. rdv' \in [Rdvs -> RdvRow] /\ rdv'[m].state = "gone"
  BY <1>1, <1>2 DEF NoRdv, RdvRow
<1>4. PeopleTypeOK' /\ RestInv'
  BY <1>0, <1>1, <1>3 DEF PeopleTypeOK, RestInv
<1>5. MeetingInv(m)'
  BY <1>3 DEF MeetingInv, Stands
<1>6. ASSUME NEW k \in Rdvs, k # m
      PROVE  MeetingInv(k)'
  <2>1. rdv'[k] = rdv[k]
    BY <1>1, <1>2, <1>6
  <2>2. MembersOf(k)' = MembersOf(k) /\ AssignedTo(k)' = AssignedTo(k)
    BY <1>1, <1>6 DEF MembersOf, AssignedTo
  <2>3. Reading(k)' = Reading(k)
    BY <1>1 DEF Reading
  <2> QED
    BY <1>1, <2>1, <2>2, <2>3, MeetingAside
<1> QED
  BY <1>4, <1>5, <1>6 DEF PeopleInv

\* What a request that replaces leaves alone: every other request and meeting.
LEMMA ReplacingAside ==
    ASSUME PeopleInv, NEW h \in Handlers, NEW m \in Rdvs, work[h].meeting = m,
           NEW w \in Works, w.meeting = m, Moved(h, w), UNCHANGED <<rdv, slots, asked>>,
           members' \subseteq [meeting : Rdvs, name : Names],
           assignees' \subseteq [meeting : Rdvs, user : Staff],
           torn' \in {torn, torn \cup {m}},
           \A k \in Rdvs : k # m =>
               MembersOf(k)' = MembersOf(k) /\ AssignedTo(k)' = AssignedTo(k),
           MeetingInv(m)'
    PROVE  PeopleInv'
<1>0. PeopleTypeOK /\ RestInv
  BY DEF PeopleInv
<1>1. /\ work' \in [Handlers -> Works] /\ \A g \in Handlers : g # h => work'[g] = work[g]
      /\ work'[h] \in {w, IdleWork}
  BY <1>0, MovedWhere
<1>2. PeopleTypeOK'
  BY <1>0, <1>1 DEF PeopleTypeOK, Works
<1>3. RestInv'
  BY <1>0, <1>1, PeopleAssumption DEF RestInv
<1>4. ASSUME NEW k \in Rdvs, k # m
      PROVE  MeetingInv(k)'
  <2>1. work'[h].meeting \in {m, None}
    BY <1>1 DEF IdleWork
  <2>2. Reading(k)' = Reading(k) /\ \A g \in Reading(k) : work'[g] = work[g]
    BY <1>0, <1>1, <1>4, <2>1, ReadingElsewhere
  <2> QED
    BY <1>4, <2>2, MeetingAside
<1> QED
  BY <1>2, <1>3, <1>4 DEF PeopleInv

\* A request that replaces, and what holds of its meeting while it stands and is not torn.
LEMMA ReplacesAlone ==
    ASSUME PeopleInv, NEW h \in Handlers, NEW m \in Rdvs, work[h].meeting = m
    PROVE  /\ work[h] \in Works /\ rdv[m].state # "absent"
           /\ Stands(m) => rdv[m].creator \in asked[m].users
           /\ Stands(m) /\ m \notin torn => Reading(m) = {h} /\ Replaces(m, work[h])
<1>1. work[h] \in Works /\ MeetingInv(m)
  BY DEF PeopleInv, PeopleTypeOK, Works
<1>2. h \in Reading(m)
  BY DEF Reading
<1> QED
  BY <1>1, <1>2 DEF MeetingInv, Kept

\* The meeting of a request that replaces, after its step: the request goes on, or the
\* tables are as asked.
LEMMA MeetingReplaced ==
    ASSUME PeopleInv, NEW h \in Handlers, NEW m \in Rdvs, work[h].meeting = m,
           NEW w \in Works, w.meeting = m, Moved(h, w), UNCHANGED <<rdv, asked>>,
           torn' \in {torn, torn \cup {m}},
           Stands(m) /\ m \notin torn' => Replaces(m, w)'
    PROVE  MeetingInv(m)'
<1>0. PeopleTypeOK
  BY DEF PeopleInv
<1>1. /\ rdv[m].state # "absent" /\ (Stands(m) => rdv[m].creator \in asked[m].users)
      /\ Stands(m) /\ m \notin torn => Reading(m) = {h}
  BY ReplacesAlone
<1>2. /\ \A g \in Handlers : g # h => work'[g] = work[g]
      /\ \/ work'[h] = w
         \/ /\ work'[h] = IdleWork
            /\ \/ /\ w.memberStage \notin {"delete", "insert"}
                  /\ w.userStage \notin {"delete", "insert"}
               \/ "failed" \in {w.memberStage, w.userStage}
  BY <1>0, MovedWhere
<1>3. ASSUME Stands(m), m \notin torn'
      PROVE  Kept(m)'
  <2>1. m \notin torn /\ Reading(m) = {h} /\ Replaces(m, w)'
    BY <1>1, <1>3
  <2>2. \A g \in Handlers : g # h => work'[g].meeting # m
    BY <1>2, <2>1 DEF Reading
  <2>3. CASE work'[h] = w
    <3>1. Reading(m)' = {h}
      BY <2>2, <2>3 DEF Reading
    <3> QED
      BY <2>1, <2>3, <3>1 DEF Kept
  <2>4. CASE work'[h] # w
    <3>1. work'[h] = IdleWork
      BY <1>2, <2>4
    <3>2. Reading(m)' = {}
      BY <2>2, <3>1, PeopleAssumption DEF Reading, IdleWork
    <3>3. w.memberStage = "done" /\ w.userStage \in {"skip", "done"}
      BY <1>2, <2>1, <2>4 DEF Replaces
    <3>4. MembersOf(m)' = asked'[m].names /\ AssignedTo(m)' = asked'[m].users
      BY <2>1, <3>3 DEF Replaces
    <3> QED
      BY <3>2, <3>4 DEF Kept
  <2> QED
    BY <2>3, <2>4
<1> QED
  BY <1>1, <1>3 DEF MeetingInv, Stands

\* One statement on the members: the delete, the insert, or a failure.
LEMMA MembersKeep ==
    ASSUME PeopleInv, NEW h \in Handlers, ReplaceMembers(h)
    PROVE  PeopleInv'
<1>0. PeopleTypeOK /\ RestInv
  BY DEF PeopleInv
<1>1. work[h].memberStage \in {"delete", "insert"} /\ UNCHANGED <<rdv, assignees, slots, asked>>
  BY DEF ReplaceMembers
<1>2. work[h].meeting # None
  BY <1>0, <1>1 DEF RestInv, IdleWork
<1>3. PICK m \in Rdvs : work[h].meeting = m
  BY <1>0, <1>2, PeopleTypes
<1>4. PICK v \in Works : v = work[h]
  BY <1>3, ReplacesAlone
<1>5. /\ members \subseteq [meeting : Rdvs, name : Names]
      /\ assignees \subseteq [meeting : Rdvs, user : Staff]
  BY <1>0 DEF PeopleTypeOK
<1> DEFINE to(stage) == [v EXCEPT !.memberStage = stage]
<1>6. \A stage \in Stages : /\ to(stage) \in Works /\ to(stage).meeting = m
                            /\ to(stage).memberStage = stage /\ to(stage).names = v.names
                            /\ to(stage).users = v.users /\ to(stage).userStage = v.userStage
  BY <1>3, <1>4 DEF Works
<1>7. PICK stage \in {"insert", "done", "failed"} :
        /\ Moved(h, to(stage)) /\ torn' = IF stage = "failed" THEN torn \cup {m} ELSE torn
        /\ \/ /\ v.memberStage = "delete" /\ members' = {r \in members : r.meeting # m}
              /\ stage = IF v.names = {} THEN "done" ELSE "insert"
           \/ /\ v.memberStage = "insert" /\ stage = "done"
              /\ members' = members \cup {[meeting |-> m, name |-> n] : n \in v.names}
           \/ stage = "failed" /\ UNCHANGED members
  BY <1>3, <1>4 DEF ReplaceMembers
<1> DEFINE w == to(stage)
<1>8. /\ w \in Works /\ w.meeting = m /\ w.memberStage = stage /\ w.names = v.names
      /\ w.users = v.users /\ w.userStage = v.userStage
  BY <1>6 DEF Stages
<1> HIDE DEF to, w
<1>9. AssignedTo(m)' = AssignedTo(m) /\ \A k \in Rdvs : AssignedTo(k)' = AssignedTo(k)
  BY <1>1 DEF AssignedTo
<1>10. \A k \in Rdvs : k # m => MembersOf(k)' = MembersOf(k)
  BY <1>5, <1>7 DEF MembersOf
<1>11. /\ v.memberStage = "delete" /\ members' = {r \in members : r.meeting # m}
               => MembersOf(m)' = {}
       /\ members' = members \cup {[meeting |-> m, name |-> n] : n \in v.names}
               => MembersOf(m)' = MembersOf(m) \cup v.names
  <2>1. (\A r \in members' : r.meeting # m) => MembersOf(m)' = {}
    BY DEF MembersOf
  <2>2. ASSUME members' = members \cup {[meeting |-> m, name |-> n] : n \in v.names}
        PROVE  MembersOf(m)' = MembersOf(m) \cup v.names
    <3>1. \A x \in MembersOf(m)' : \E r \in members' : r.meeting = m /\ x = r.name
      BY DEF MembersOf
    <3>2. MembersOf(m)' \subseteq MembersOf(m) \cup v.names
      BY <2>2, <3>1 DEF MembersOf
    <3>3. \A x \in v.names : [meeting |-> m, name |-> x] \in members'
      BY <2>2
    <3>4. v.names \subseteq MembersOf(m)'
      <4>1. \A r : r \in members' /\ r.meeting = m => r.name \in MembersOf(m)'
        BY DEF MembersOf
      <4>2. \A x : LET r == [meeting |-> m, name |-> x] IN r.meeting = m /\ r.name = x
        OBVIOUS
      <4> QED
        BY <3>3, <4>1, <4>2
    <3>5. MembersOf(m) \subseteq MembersOf(m)'
      BY <2>2 DEF MembersOf
    <3> QED
      BY <3>2, <3>4, <3>5
  <2> QED
    BY <2>1, <2>2
<1>12. members' \subseteq [meeting : Rdvs, name : Names]
  BY <1>4, <1>5, <1>7 DEF Works
<1>13. ASSUME Stands(m), m \notin torn'
       PROVE  Replaces(m, w)'
  <2>1. m \notin torn /\ stage # "failed" /\ Replaces(m, v)
    BY <1>3, <1>4, <1>7, <1>13, ReplacesAlone
  <2>2. v.names = asked[m].names /\ (v.memberStage = "insert" => MembersOf(m) = {})
    BY <2>1 DEF Replaces
  <2>3. (stage = "insert" => MembersOf(m)' = {}) /\ (stage = "done" => MembersOf(m)' = v.names)
    BY <1>7, <1>11, <2>1, <2>2
  <2> QED
    BY <1>1, <1>7, <1>8, <1>9, <2>1, <2>2, <2>3 DEF Replaces
<1>14. torn' \in {torn, torn \cup {m}} /\ Moved(h, w)
  BY <1>7 DEF w
<1>15. MeetingInv(m)'
  BY <1>1, <1>3, <1>8, <1>13, <1>14, MeetingReplaced
<1> QED
  BY <1>1, <1>3, <1>5, <1>8, <1>9, <1>10, <1>12, <1>14, <1>15, ReplacingAside

\* One statement on the assignees: the delete, the insert, or a failure.
LEMMA AssigneesKeep ==
    ASSUME PeopleInv, NEW h \in Handlers, ReplaceAssignees(h)
    PROVE  PeopleInv'
<1>0. PeopleTypeOK /\ RestInv
  BY DEF PeopleInv
<1>1. work[h].userStage \in {"delete", "insert"} /\ UNCHANGED <<rdv, members, slots, asked>>
  BY DEF ReplaceAssignees
<1>2. work[h].meeting # None
  BY <1>0, <1>1 DEF RestInv, IdleWork
<1>3. PICK m \in Rdvs : work[h].meeting = m
  BY <1>0, <1>2, PeopleTypes
<1>4. PICK v \in Works : v = work[h]
  BY <1>3, ReplacesAlone
<1>5. /\ members \subseteq [meeting : Rdvs, name : Names]
      /\ assignees \subseteq [meeting : Rdvs, user : Staff]
  BY <1>0 DEF PeopleTypeOK
<1> DEFINE to(stage) == [v EXCEPT !.userStage = stage]
<1>6. \A stage \in Stages : /\ to(stage) \in Works /\ to(stage).meeting = m
                            /\ to(stage).userStage = stage /\ to(stage).names = v.names
                            /\ to(stage).users = v.users /\ to(stage).memberStage = v.memberStage
  BY <1>3, <1>4 DEF Works
<1>7. PICK stage \in {"insert", "done", "failed"} :
        /\ Moved(h, to(stage)) /\ torn' = IF stage = "failed" THEN torn \cup {m} ELSE torn
        /\ \/ /\ v.userStage = "delete" /\ stage = "insert" /\ assignees' = Cleared(m)
           \/ /\ v.userStage = "insert" /\ stage = "done"
              /\ assignees' = assignees \cup {[meeting |-> m, user |-> u] : u \in v.users}
           \/ stage = "failed" /\ UNCHANGED assignees
  BY <1>3, <1>4 DEF ReplaceAssignees
<1> DEFINE w == to(stage)
<1>8. /\ w \in Works /\ w.meeting = m /\ w.userStage = stage /\ w.names = v.names
      /\ w.users = v.users /\ w.memberStage = v.memberStage
  BY <1>6 DEF Stages
<1> HIDE DEF to, w
<1>9. MembersOf(m)' = MembersOf(m) /\ \A k \in Rdvs : MembersOf(k)' = MembersOf(k)
  BY <1>1 DEF MembersOf
<1>10. \A k \in Rdvs : k # m => AssignedTo(k)' = AssignedTo(k)
  BY <1>5, <1>7 DEF AssignedTo, Cleared
<1>11. /\ assignees' = Cleared(m)
               => AssignedTo(m)' = {}
       /\ assignees' = assignees \cup {[meeting |-> m, user |-> u] : u \in v.users}
               => AssignedTo(m)' = AssignedTo(m) \cup v.users
  <2>1. (\A r \in assignees' : r.meeting # m) => AssignedTo(m)' = {}
    BY DEF AssignedTo
  <2>2. ASSUME assignees' = assignees \cup {[meeting |-> m, user |-> u] : u \in v.users}
        PROVE  AssignedTo(m)' = AssignedTo(m) \cup v.users
    <3>1. \A x \in AssignedTo(m)' : \E r \in assignees' : r.meeting = m /\ x = r.user
      BY DEF AssignedTo
    <3>2. AssignedTo(m)' \subseteq AssignedTo(m) \cup v.users
      BY <2>2, <3>1 DEF AssignedTo
    <3>3. \A x \in v.users : [meeting |-> m, user |-> x] \in assignees'
      BY <2>2
    <3>4. v.users \subseteq AssignedTo(m)'
      <4>1. \A r : r \in assignees' /\ r.meeting = m => r.user \in AssignedTo(m)'
        BY DEF AssignedTo
      <4>2. \A x : LET r == [meeting |-> m, user |-> x] IN r.meeting = m /\ r.user = x
        OBVIOUS
      <4> QED
        BY <3>3, <4>1, <4>2
    <3>5. AssignedTo(m) \subseteq AssignedTo(m)'
      BY <2>2 DEF AssignedTo
    <3> QED
      BY <3>2, <3>4, <3>5
  <2> QED
    BY <2>1, <2>2 DEF Cleared
<1>12. assignees' \subseteq [meeting : Rdvs, user : Staff]
  BY <1>4, <1>5, <1>7 DEF Works, Cleared
<1>13. ASSUME Stands(m), m \notin torn'
       PROVE  Replaces(m, w)'
  <2>1. m \notin torn /\ stage # "failed" /\ Replaces(m, v)
    BY <1>3, <1>4, <1>7, <1>13, ReplacesAlone
  <2>2. v.users = asked[m].users /\ (v.userStage = "insert" => AssignedTo(m) = {})
    BY <1>1, <1>4, <2>1 DEF Replaces
  <2>3. (stage = "insert" => AssignedTo(m)' = {}) /\ (stage = "done" => AssignedTo(m)' = v.users)
    BY <1>7, <1>11, <2>1, <2>2
  <2> QED
    BY <1>1, <1>7, <1>8, <1>9, <2>1, <2>2, <2>3 DEF Replaces
<1>14. torn' \in {torn, torn \cup {m}} /\ Moved(h, w)
  BY <1>7 DEF w
<1>15. MeetingInv(m)'
  BY <1>1, <1>3, <1>8, <1>13, <1>14, MeetingReplaced
<1> QED
  BY <1>1, <1>3, <1>5, <1>8, <1>9, <1>10, <1>12, <1>14, <1>15, ReplacingAside

\* Availabilities touch no meeting.
LEMMA SlotsKeep ==
    ASSUME PeopleInv, NEW u \in Staff, UpsertSlots(u) \/ RemoveSlots(u)
    PROVE  PeopleInv'
<1>1. UNCHANGED <<rdv, members, assignees, work, asked, torn>>
  BY DEF UpsertSlots, RemoveSlots
<1>2. slots' \subseteq [user : Staff, date : Days, tz : Timezones, slots : SlotSets]
  <2>1. slots \subseteq [user : Staff, date : Days, tz : Timezones, slots : SlotSets]
    BY DEF PeopleInv, PeopleTypeOK
  <2> QED
    BY <2>1 DEF UpsertSlots, RemoveSlots
<1>3. PeopleTypeOK' /\ RestInv'
  BY <1>1, <1>2 DEF PeopleInv, PeopleTypeOK, RestInv
<1>4. \A m \in Rdvs : MeetingInv(m)'
  BY <1>1, MeetingAside DEF MembersOf, AssignedTo, Reading
<1> QED
  BY <1>3, <1>4 DEF PeopleInv

LEMMA InitPeopleInv == PeopleInit => PeopleInv
<1> SUFFICES ASSUME PeopleInit PROVE PeopleInv
  OBVIOUS
<1>1. PeopleTypeOK
  BY DEF PeopleInit, PeopleTypeOK, NoRdv, RdvRow, IdleWork, Stages
<1>2. RestInv /\ \A m \in Rdvs : Reading(m) = {}
  BY PeopleAssumption DEF PeopleInit, RestInv, Reading, IdleWork
<1>3. \A m \in Rdvs : ~Stands(m)
  BY DEF PeopleInit, Stands, NoRdv
<1> QED
  BY <1>1, <1>2, <1>3 DEF PeopleInv, MeetingInv

LEMMA NextPeopleInv == PeopleInv /\ [PeopleNext]_<<peopleVars, counters>> => PeopleInv'
<1> SUFFICES ASSUME PeopleInv, [PeopleNext]_<<peopleVars, counters>> PROVE PeopleInv'
  OBVIOUS
<1>1. CASE UNCHANGED <<peopleVars, counters>>
  <2>1. UNCHANGED <<rdv, members, assignees, slots, work, asked, torn>>
    BY <1>1 DEF peopleVars
  <2>2. PeopleTypeOK' /\ RestInv'
    BY <2>1 DEF PeopleInv, PeopleTypeOK, RestInv
  <2>3. \A m \in Rdvs : MeetingInv(m)'
    BY <2>1, MeetingAside DEF MembersOf, AssignedTo, Reading
  <2> QED
    BY <2>2, <2>3 DEF PeopleInv
<1> QED
  BY <1>1, PlanKeeps, ChangeKeeps, DropKeeps, MembersKeep, AssigneesKeep, SlotsKeep
  DEF PeopleNext

\* Every reachable state, for any staff, meetings and requests and any failures.
LEMMA PeopleInvHolds == PeopleSpec => []PeopleInv
BY InitPeopleInv, NextPeopleInv, PTL DEF PeopleSpec

\* The types of meetings, members, assignees and availabilities hold in every reachable
\* state.
THEOREM PeopleTyped == PeopleSpec => []PeopleTypeOK
<1>1. PeopleInv => PeopleTypeOK
  BY DEF PeopleInv
<1> QED
  BY <1>1, PeopleInvHolds, PTL

\* The invariant has the members and assignees of every meeting nothing works on.
LEMMA AskedKept == PeopleInv => PeopleAsAsked
BY DEF PeopleInv, MeetingInv, Kept, PeopleAsAsked

\* However the two halves of a create and the statements of updates interleave: once
\* nothing works on a meeting it has the members and assignees last asked for and its
\* creator among them, unless a replacement failed or two of them overlapped.
THEOREM PeopleAreAsAsked == PeopleSpec => []PeopleAsAsked
BY AskedKept, PeopleInvHolds, PTL

----------------------------------------------------------------------------
(* People: what is read of meetings agrees *)

\* An hour is in one day, and a day is one of seven.
LEMMA DayBounds ==
    ASSUME NEW x \in Int
    PROVE  /\ x \div 24 \in Int /\ 24 * (x \div 24) <= x /\ x < 24 * (x \div 24) + 24
           /\ x % 7 \in 0 .. 6
OBVIOUS

\* A day is cut at its start: whether the clock has changed or not.
LEMMA DayCut ==
    ASSUME NEW t \in Int, NEW d \in Int
    PROVE  CasaDay(t) \in Int /\ DayStart(d) \in Int /\ (DayStart(d) <= t <=> d <= CasaDay(t))
<1>1. ClockChange \in Int
  BY PeopleAssumption
<1> DEFINE s == IF t < ClockChange THEN t + 1 ELSE t
<1>2. s \in Int /\ CasaDay(t) = s \div 24
  BY <1>1 DEF CasaDay, Offset
<1>3. CasaDay(t) \in Int /\ 24 * CasaDay(t) <= s /\ s < 24 * CasaDay(t) + 24
  BY <1>2, DayBounds
<1>4. DayStart(d) = IF d * 24 - 1 < ClockChange THEN d * 24 - 1 ELSE d * 24
  BY DEF DayStart
<1>5. d <= CasaDay(t) <=> 24 * d <= s
  <2> HIDE DEF s
  <2> QED
    BY <1>2, <1>3
<1>6. CASE t < ClockChange
  BY <1>1, <1>3, <1>4, <1>5, <1>6
<1>7. CASE ~(t < ClockChange)
  BY <1>1, <1>3, <1>4, <1>5, <1>7
<1> QED
  BY <1>6, <1>7

\* A period is made of the instants of its days.
LEMMA PeriodDays ==
    ASSUME NEW from \in Int, NEW to \in Int
    PROVE  Period(from, to) = {x \in Instants : CasaDay(x) \in from .. to}
<1> SUFFICES ASSUME NEW x \in Instants
             PROVE  DayStart(from) <= x /\ x < DayStart(to + 1) <=> CasaDay(x) \in from .. to
  BY DEF Period
<1>1. x \in Int
  BY PeopleAssumption
<1>2. CasaDay(x) \in Int /\ (DayStart(from) <= x <=> from <= CasaDay(x))
  BY <1>1, DayCut
<1>3. DayStart(to + 1) \in Int /\ (DayStart(to + 1) <= x <=> to + 1 <= CasaDay(x))
  BY <1>1, DayCut
<1> QED
  BY <1>1, <1>2, <1>3

\* 24 hours from the start of a day are the day, unless the clock changes in it.
LEMMA TodayIsTheDay ==
    ASSUME NEW t \in Instants, CasaDay(t) # CasaDay(ClockChange)
    PROVE  Today(t) = Period(CasaDay(t), CasaDay(t))
<1>1. t \in Int /\ ClockChange \in Int
  BY PeopleAssumption
<1> DEFINE d == CasaDay(t)
<1>2. d \in Int
  BY <1>1, DayCut
<1>3. DayStart(d + 1) = DayStart(d) + 24
  <2>1. CasaDay(ClockChange) = ClockChange \div 24
    BY <1>1 DEF CasaDay, Offset
  <2>2. ~(24 * d <= ClockChange /\ ClockChange < 24 * d + 24)
    <3> SUFFICES ASSUME 24 * d <= ClockChange, ClockChange < 24 * d + 24
                 PROVE  ClockChange \div 24 = d
      BY <2>1
    <3>1. /\ ClockChange \div 24 \in Int /\ 24 * (ClockChange \div 24) <= ClockChange
          /\ ClockChange < 24 * (ClockChange \div 24) + 24
      BY <1>1, DayBounds
    <3> HIDE DEF d
    <3> QED
      BY <1>1, <1>2, <3>1
  <2> HIDE DEF d
  <2> QED
    BY <1>1, <1>2, <2>2 DEF DayStart
<1> QED
  BY <1>3 DEF Today, Period

\* The week of a day contains it.
LEMMA WeekOfDay ==
    ASSUME NEW t \in Instants
    PROVE  /\ CasaDay(t) \in Int /\ Monday(t) \in Int
           /\ CasaDay(t) \in Monday(t) .. Monday(t) + 6
<1>1. CasaDay(t) \in Int
  BY PeopleAssumption, DayCut
<1>2. CasaDay(t) % 7 \in 0 .. 6
  BY <1>1, DayBounds
<1> QED
  BY <1>1, <1>2 DEF Monday

\* statsByDay counts each meeting of the week on one day.
LEMMA WeekAddsUp ==
    ASSUME NEW u \in Staff, NEW now \in Instants
    PROVE  Cardinality(MeetingStats(u, now).thisWeek)
               = SumOf(StatsByDay(u, Monday(now), Monday(now) + 6))
<1> DEFINE K == Monday(now) .. Monday(now) + 6
           P == Period(Monday(now), Monday(now) + 6)
           L == {m \in Rdvs : CanView(u, m) /\ rdv[m].at \in P}
           day  == [m \in L |-> CasaDay(rdv[m].at)]
           week == StatsByDay(u, Monday(now), Monday(now) + 6)
<1>1. IsFiniteSet(L)
  <2>1. L \in SUBSET Rdvs
    OBVIOUS
  <2> HIDE DEF L
  <2> QED
    BY <2>1, FS_Subset, PeopleAssumption
<1>2. day \in [L -> K]
  <2>1. P = {x \in Instants : CasaDay(x) \in K}
    BY WeekOfDay, PeriodDays
  <2> QED
    BY <2>1
<1>3. DOMAIN week = K /\ \A d \in K : week[d] = Cardinality({m \in L : day[m] = d})
  <2>1. DOMAIN week = K
    BY DEF StatsByDay
  <2>2. ASSUME NEW d \in K
        PROVE  week[d] = Cardinality({m \in L : day[m] = d})
    <3>1. {m \in Rdvs : CanView(u, m) /\ rdv[m].at \in P /\ CasaDay(rdv[m].at) = d}
             = {m \in L : day[m] = d}
      OBVIOUS
    <3> QED
      BY <3>1 DEF StatsByDay
  <2> QED
    BY <2>1, <2>2
<1>4. MeetingStats(u, now).thisWeek = L
  BY DEF MeetingStats
<1>5. SumOf(week) = Cardinality(L)
  <2> HIDE DEF K, L, day, week
  <2> QED
    BY <1>1, <1>2, <1>3, CountsAddUp
<1> QED
  BY <1>4, <1>5

\* The entry of a day is the list of today, whatever the period.
LEMMA DayIsToday ==
    ASSUME NEW u \in Staff, NEW now \in Instants, CasaDay(now) # CasaDay(ClockChange),
           NEW from \in Int, NEW to \in Int, CasaDay(now) \in from .. to
    PROVE  StatsByDay(u, from, to)[CasaDay(now)] = Cardinality(MeetingStats(u, now).today)
<1> DEFINE d == CasaDay(now)
<1>1. d \in Int
  BY WeekOfDay
<1>2. /\ Period(from, to) = {x \in Instants : CasaDay(x) \in from .. to}
      /\ Today(now) = {x \in Instants : CasaDay(x) \in d .. d}
  BY <1>1, PeriodDays, TodayIsTheDay
<1>3. {m \in Rdvs : CanView(u, m) /\ rdv[m].at \in Period(from, to) /\ CasaDay(rdv[m].at) = d}
         = {m \in Rdvs : CanView(u, m) /\ rdv[m].at \in Today(now)}
  BY <1>1, <1>2
<1>4. StatsByDay(u, from, to)[d]
         = Cardinality({m \in Rdvs : /\ CanView(u, m) /\ rdv[m].at \in Period(from, to)
                                     /\ CasaDay(rdv[m].at) = d})
  BY DEF StatsByDay
<1> QED
  BY <1>3, <1>4 DEF MeetingStats

\* statsByMember counts under its closer, once, each meeting that has one.
LEMMA ClosersAddUp ==
    ASSUME NEW from, NEW to
    PROVE  LET report == StatsByMember(from, to)
               users  == DOMAIN report.users
           IN  /\ SumOf([u \in users |-> report.users[u].total]) <= report.total
               /\ SumOf([u \in users |-> report.users[u].done]) <= report.done
<1> DEFINE period == {m \in Rdvs : Stands(m) /\ rdv[m].at \in Period(from, to)}
           done   == {m \in period : rdv[m].status = "done"}
           L == {m \in period : rdv[m].closer # None}
           D == {m \in done : rdv[m].closer # None}
           K == {rdv[m].closer : m \in period} \ {None}
           report == StatsByMember(from, to)
           ofL == [m \in L |-> rdv[m].closer]
           ofD == [m \in D |-> rdv[m].closer]
           totals == [u \in K |-> report.users[u].total]
           dones  == [u \in K |-> report.users[u].done]
<1>1. /\ IsFiniteSet(L) /\ IsFiniteSet(D)
      /\ Cardinality(L) <= Cardinality(period) /\ Cardinality(D) <= Cardinality(done)
  <2>1. /\ period \in SUBSET Rdvs /\ done \in SUBSET Rdvs
        /\ L \in SUBSET period /\ D \in SUBSET done
    OBVIOUS
  <2> HIDE DEF period, done, L, D
  <2>2. IsFiniteSet(period) /\ IsFiniteSet(done)
    BY <2>1, FS_Subset, PeopleAssumption
  <2> QED
    BY <2>1, <2>2, FS_Subset
<1>2. ofL \in [L -> K] /\ ofD \in [D -> K]
  OBVIOUS
<1>3. /\ report.total = Cardinality(period) /\ report.done = Cardinality(done)
      /\ DOMAIN report.users = K
      /\ \A u \in K : /\ report.users[u].total = Cardinality({m \in period : rdv[m].closer = u})
                      /\ report.users[u].done
                            = Cardinality({m \in {x \in period : rdv[x].closer = u} :
                                              rdv[m].status = "done"})
  BY DEF StatsByMember
<1>4. /\ DOMAIN totals = K /\ DOMAIN dones = K
      /\ \A u \in K : totals[u] = Cardinality({m \in L : ofL[m] = u})
      /\ \A u \in K : dones[u] = Cardinality({m \in D : ofD[m] = u})
  <2>1. ASSUME NEW u \in K
        PROVE  /\ totals[u] = Cardinality({m \in L : ofL[m] = u})
               /\ dones[u] = Cardinality({m \in D : ofD[m] = u})
    <3>1. {m \in period : rdv[m].closer = u} = {m \in L : ofL[m] = u}
      OBVIOUS
    <3>2. {m \in {x \in period : rdv[x].closer = u} : rdv[m].status = "done"}
             = {m \in D : ofD[m] = u}
      OBVIOUS
    <3> QED
      BY <1>3, <3>1, <3>2
  <2> QED
    BY <2>1
<1>5. SumOf(totals) = Cardinality(L) /\ SumOf(dones) = Cardinality(D)
  <2> HIDE DEF period, done, L, D, K, ofL, ofD, totals, dones
  <2> QED
    BY <1>1, <1>2, <1>4, CountsAddUp
<1> QED
  BY <1>1, <1>3, <1>5

\* The days that a decision about availabilities depends on are among the three read.
LEMMA DaysRead ==
    ASSUME PeopleTypeOK, NEW u \in Staff, NEW at \in Instants, NEW duration \in Durations
    PROVE  Relevant(RowsRead(u, at), at, at + duration)
               = Relevant({r \in slots : r.user = u}, at, at + duration)
<1>1. /\ at \in Int /\ duration \in 0 .. 2 /\ ClockChange \in Int
  BY PeopleAssumption
<1> DEFINE s == at + Offset(at)
           d == CasaDay(at)
<1>2. /\ s \in Int /\ s \in at .. at + 1
      /\ d \in Int /\ 24 * d <= s /\ s < 24 * d + 24
  <2>1. s \in Int /\ s \in at .. at + 1
    BY <1>1 DEF Offset
  <2>2. d = s \div 24
    BY DEF CasaDay
  <2> QED
    BY <2>1, <2>2, DayBounds
<1>3. ASSUME NEW tz \in Timezones, NEW x \in at .. at + 2
      PROVE  LocalDay(x, tz) \in d - 1 .. d + 1
  <2>1. tz \in -12 .. 14 /\ x \in Int
    BY <1>1, <1>3, PeopleAssumption
  <2> DEFINE y == x + tz
             e == LocalDay(x, tz)
  <2>2. y \in Int /\ e \in Int /\ 24 * e <= y /\ y < 24 * e + 24
    <3>1. y \in Int /\ e = y \div 24
      BY <2>1 DEF LocalDay
    <3> QED
      BY <3>1, DayBounds
  <2>3. s - 13 <= y /\ y <= s + 16
    BY <1>1, <1>2, <1>3, <2>1
  <2> HIDE DEF s, d, y, e
  <2>4. e \in d - 1 .. d + 1
    BY <1>2, <2>2, <2>3
  <2> QED
    BY <2>4 DEF e
<1>4. ASSUME NEW r \in slots, r.date \in {LocalDay(at, r.tz), LocalDay(at + duration, r.tz)}
      PROVE  r.date \in d - 1 .. d + 1
  <2>1. r.tz \in Timezones
    BY DEF PeopleTypeOK
  <2>2. at \in at .. at + 2 /\ at + duration \in at .. at + 2
    BY <1>1
  <2> QED
    BY <1>3, <1>4, <2>1, <2>2
<1> QED
  BY <1>4 DEF Relevant, RowsRead

\* The lists and the statistics of meetings.service.ts agree, whatever the rows and
\* whenever the clock changes.
LEMMA MeetingsAddUp == PeopleTypeOK => MeetingReadsAgree
<1> SUFFICES ASSUME PeopleTypeOK PROVE MeetingReadsAgree
  OBVIOUS
<1>1. ASSUME NEW u \in Staff, NEW now \in Instants
      PROVE  LET week  == StatsByDay(u, Monday(now), Monday(now) + 6)
                 stats == MeetingStats(u, now)
                 day   == CasaDay(now)
             IN  /\ Cardinality(stats.thisWeek) = SumOf(week)
                 /\ day # CasaDay(ClockChange) =>
                       /\ StatsByDay(u, day, day)[day] = Cardinality(stats.today)
                       /\ week[day] = Cardinality(stats.today)
                 /\ UpcomingList(u, now) \subseteq stats.upcoming
                 /\ MeetingList(u, None, now, now + 7 * 24) \cap stats.pending
                       = UpcomingList(u, now)
  <2>1. /\ CasaDay(now) \in Int /\ Monday(now) \in Int /\ Monday(now) + 6 \in Int
        /\ CasaDay(now) \in Monday(now) .. Monday(now) + 6
        /\ CasaDay(now) \in CasaDay(now) .. CasaDay(now)
    BY WeekOfDay
  <2>2. CasaDay(now) # CasaDay(ClockChange) =>
            /\ StatsByDay(u, CasaDay(now), CasaDay(now))[CasaDay(now)]
                  = Cardinality(MeetingStats(u, now).today)
            /\ StatsByDay(u, Monday(now), Monday(now) + 6)[CasaDay(now)]
                  = Cardinality(MeetingStats(u, now).today)
    BY <2>1, DayIsToday
  <2>3. UpcomingList(u, now) \subseteq MeetingStats(u, now).upcoming
    <3>1. now \in Int
      BY PeopleAssumption
    <3> QED
      BY <3>1 DEF UpcomingList, MeetingStats
  <2>4. MeetingList(u, None, now, now + 7 * 24) \cap MeetingStats(u, now).pending
            = UpcomingList(u, now)
    BY DEF MeetingList, MeetingStats, UpcomingList
  <2> QED
    BY <2>2, <2>3, <2>4, WeekAddsUp
<1>2. ASSUME NEW d \in Days
      PROVE  LET report == StatsByMember(d, d + 6)
                 users  == DOMAIN report.users
             IN  /\ SumOf([u \in users |-> report.users[u].total]) <= report.total
                 /\ SumOf([u \in users |-> report.users[u].done]) <= report.done
  BY ClosersAddUp
<1> QED
  BY <1>1, <1>2, DaysRead DEF MeetingReadsAgree
=============================================================================
