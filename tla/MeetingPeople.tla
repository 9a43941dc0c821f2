---------------------------- MODULE MeetingPeople ----------------------------
(***************************************************************************)
(* Who a meeting is for and who sees it: members (client side), assignees  *)
(* (staff), availabilities, and the lists and statistics read from them    *)
(* (meetings.service.ts, meetings-availabilities.service.ts).              *)
(*                                                                         *)
(* Members and assignees are replaced by a delete and an insert, two       *)
(* statements each.  create runs both replacements side by side            *)
(* (Promise.all), update one after the other.                              *)
(*                                                                         *)
(* Time is in hours; the Casablanca clock is one hour ahead of UTC until   *)
(* ClockChange and equal to it afterwards (utils/meeting-datetime.ts).     *)
(***************************************************************************)
EXTENDS Statements, FiniteSetsExt

CONSTANTS Rdvs,         \* meeting ids
          Staff,        \* users
          RoleOf,       \* RoleOf[u]: normalizeApiRole
          Names,        \* people a client brings along
          Instants,     \* meeting dates
          Durations,    \* MEETING_DURATIONS
          Timezones,    \* offsets of the time zones of availabilities
          SlotSets,     \* slot lists of an availability: sets of <<start, end>>
          ClockChange   \* the instant the Casablanca offset falls to zero

\* MEETING_DURATIONS ends with two hours; IANA has offsets from -12 to 14.
ASSUME PeopleAssumption ==
    /\ None \notin Rdvs /\ IsFiniteSet(Rdvs)
    /\ Instants \subseteq Int /\ ClockChange \in Int
    /\ Durations \subseteq 0..2 /\ Timezones \subseteq -12..14

VARIABLES
    rdv,        \* rdv[m]: the row of meetings
    members,    \* meeting_members: rows [meeting, name]
    assignees,  \* meeting_assignees: rows [meeting, user], unique
    slots,      \* admin_availabilities: rows [user, date, tz, slots]
    work,       \* work[h]: a create or update under way
    asked,      \* history: asked[m], members and users last given for m
    torn        \* history: meetings with a failed or an overlapping replacement

peopleVars == <<rdv, members, assignees, slots, work, asked, torn>>

RdvRow == [state : {"absent", "there", "gone"}, creator : Staff \cup {None},
           at : Instants \cup {None}, duration : Durations \cup {None},
           status : {"scheduled", "done"}, closer : Staff \cup {None}]
NoRdv  == [state |-> "absent", creator |-> None, at |-> None, duration |-> None,
           status |-> "scheduled", closer |-> None]

\* What a request still has to do to the members and the assignees.
Stages   == {"skip", "delete", "insert", "done", "failed"}
IdleWork == [meeting |-> None, names |-> {}, users |-> {}, memberStage |-> "skip",
             userStage |-> "skip", together |-> FALSE]

PeopleInit ==
    /\ rdv = [m \in Rdvs |-> NoRdv]
    /\ members = {} /\ assignees = {} /\ slots = {} /\ torn = {}
    /\ work = [h \in Handlers |-> IdleWork]
    /\ asked = [m \in Rdvs |-> [names |-> {}, users |-> {}]]

Stands(m)     == rdv[m].state = "there"
MembersOf(m)  == {r.name : r \in {x \in members : x.meeting = m}}
AssignedTo(m) == {r.user : r \in {x \in assignees : x.meeting = m}}
Reading(m)    == {h \in Handlers : work[h].meeting = m}

----------------------------------------------------------------------------
(* Roles and visibility *)

CanAssign(u) == RoleOf[u] \in {"admin", "admin_whatsapp"}

\* fixed_meeting sees the meetings it is assigned to, the others see all.
CanView(u, m) == Stands(m) /\ (RoleOf[u] # "fixed_meeting" \/ u \in AssignedTo(m))

\* mutant: the creator must be named like everybody else.
ResolveAsGiven(given, creator, actor) == IF CanAssign(actor) THEN given ELSE {creator}

\* The creator is always among the assignees.
ResolveAssigned(given, creator, actor) ==
    IF CanAssign(actor) THEN given \cup {creator} ELSE {creator}

----------------------------------------------------------------------------
(* Casablanca days *)

Offset(t)   == IF t < ClockChange THEN 1 ELSE 0
CasaDay(t)  == (t + Offset(t)) \div 24
DayStart(d) == IF d * 24 - 1 < ClockChange THEN d * 24 - 1 ELSE d * 24

\* casablancaDayBounds adds 24 hours in UTC; casablancaWeekBounds and the
\* periods of the statistics add days in Casablanca.  Day 0 is a Monday.
Today(t)     == {x \in Instants : DayStart(CasaDay(t)) <= x /\ x < DayStart(CasaDay(t)) + 24}
\* mutant: to is taken as an instant, not as a day.
PeriodOpen(from, to) == {x \in Instants : DayStart(from) <= x /\ x < DayStart(to)}
Period(from, to) == {x \in Instants : DayStart(from) <= x /\ x < DayStart(to + 1)}
Monday(t)    == CasaDay(t) - (CasaDay(t) % 7)

----------------------------------------------------------------------------
(* Availabilities *)

LocalDay(t, tz) == (t + tz) \div 24
Days == {CasaDay(t) : t \in Instants}

\* filterRelevantDays: the local days of start and end.
Relevant(rows, start, end) ==
    {r \in rows : r.slots # {} /\ r.date \in {LocalDay(start, r.tz), LocalDay(end, r.tz)}}

\* The rows read are those of three Casablanca days.
RowsRead(u, start) ==
    {r \in slots : r.user = u /\ r.date \in CasaDay(start) - 1 .. CasaDay(start) + 1}

\* isIntervalContained, after localSlotToUtc.
Covers(r, slot, start, end) ==
    /\ r.date * 24 + slot[1] - r.tz <= start
    /\ end <= r.date * 24 + slot[2] - r.tz

Available(u, start, end) ==
    LET rows == Relevant(RowsRead(u, start), start, end)
    IN  RoleOf[u] = "admin" /\ rows # {} =>
            \E r \in rows : \E slot \in r.slots : Covers(r, slot, start, end)

\* normalizeAndValidateSlots: start before end, no overlap.
ValidSlots(list) ==
    \A s \in list : s[1] < s[2] /\ \A t \in list : s # t => s[2] <= t[1] \/ t[2] <= s[1]

\* upsertMine: one row per user and day.
UpsertSlots(u) ==
    /\ RoleOf[u] = "admin" /\ Begins
    /\ \E d \in Days, tz \in Timezones, list \in SlotSets :
          /\ ValidSlots(list)
          /\ slots' = {r \in slots : ~(r.user = u /\ r.date = d)}
                        \cup {[user |-> u, date |-> d, tz |-> tz, slots |-> list]}
    /\ UNCHANGED <<rdv, members, assignees, work, asked, torn, faults>>

RemoveSlots(u) ==
    /\ Begins
    /\ \E r \in slots : r.user = u /\ slots' = slots \ {r}
    /\ UNCHANGED <<rdv, members, assignees, work, asked, torn, faults>>

----------------------------------------------------------------------------
(* create, update, remove *)

\* The row is inserted before the members are validated: a member without phone
\* and mail ends the request with neither members nor assignees.
Plan(h, m) ==
    /\ work[h].meeting = None /\ rdv[m].state = "absent" /\ Begins
    /\ \E u \in Staff, given \in SUBSET Staff, names \in SUBSET Names, valid \in BOOLEAN,
          at \in Instants, duration \in Durations :
          LET users == ResolveAssigned(given, u, u)
          IN  /\ \A a \in users : Available(a, at, at + duration)
              /\ rdv' = [rdv EXCEPT ![m] = [NoRdv EXCEPT !.state = "there", !.creator = u,
                                                         !.at = at, !.duration = duration]]
              /\ asked' = [asked EXCEPT ![m] = [names |-> names, users |-> users]]
              /\ work' = IF ~valid THEN work
                         ELSE [work EXCEPT ![h] = [meeting |-> m, names |-> names,
                                 users |-> users, memberStage |-> "delete",
                                 userStage |-> "delete", together |-> TRUE]]
              /\ torn' = IF valid THEN torn ELSE torn \cup {m}
    /\ UNCHANGED <<members, assignees, slots, faults>>

\* members are validated before the patch here; assignees only by those who may
\* assign, and the creator of the meeting stays among them.
Change(h, m) ==
    /\ work[h].meeting = None /\ Begins
    /\ \E u \in Staff, names \in SUBSET Names, given \in SUBSET Staff, both \in BOOLEAN :
          LET users == ResolveAssigned(given, rdv[m].creator, u)
          IN  /\ CanView(u, m)
              /\ both => CanAssign(u)
                    /\ \A a \in users : Available(a, rdv[m].at, rdv[m].at + rdv[m].duration)
              /\ rdv' = [rdv EXCEPT ![m].status = "done", ![m].closer = u]
              /\ asked' = [asked EXCEPT ![m] = [names |-> names,
                              users |-> IF both THEN users ELSE @.users]]
              /\ work' = [work EXCEPT ![h] = [meeting |-> m, names |-> names,
                     users |-> users, memberStage |-> "delete", together |-> FALSE,
                     userStage |-> IF both THEN "delete" ELSE "skip"]]
    /\ torn' = IF Reading(m) = {} THEN torn ELSE torn \cup {m}
    /\ UNCHANGED <<members, assignees, slots, faults>>

\* Both tables cascade.
Drop(m) ==
    /\ Begins /\ \E u \in Staff : CanView(u, m)
    /\ rdv' = [rdv EXCEPT ![m] = [NoRdv EXCEPT !.state = "gone"]]
    /\ members' = {r \in members : r.meeting # m}
    /\ assignees' = {r \in assignees : r.meeting # m}
    /\ UNCHANGED <<slots, work, asked, torn, faults>>

\* A request is over when nothing is left; a failure ends an update at once, but
\* not the other half of a create.
Moved(h, w) ==
    LET over == \/ ~w.together /\ "failed" \in {w.memberStage, w.userStage}
                \/ {w.memberStage, w.userStage} \cap {"delete", "insert"} = {}
    IN  work' = [work EXCEPT ![h] = IF over THEN IdleWork ELSE w]

\* replaceMembers: delete, then insert unless the list is empty.
ReplaceMembers(h) ==
    LET m == work[h].meeting
        w == work[h]
        To(stage) == Moved(h, [w EXCEPT !.memberStage = stage])
    IN  /\ \/ /\ w.memberStage = "delete" /\ Answers
              /\ members' = {r \in members : r.meeting # m}
              /\ To(IF w.names = {} THEN "done" ELSE "insert") /\ UNCHANGED torn
           \/ /\ w.memberStage = "insert" /\ Stands(m) /\ Answers
              /\ members' = members \cup {[meeting |-> m, name |-> n] : n \in w.names}
              /\ To("done") /\ UNCHANGED torn
           \/ /\ w.memberStage \in {"delete", "insert"}
              /\ IF w.memberStage = "insert" /\ ~Stands(m) THEN Answers ELSE Fails
              /\ To("failed") /\ torn' = torn \cup {m} /\ UNCHANGED members
        /\ UNCHANGED <<rdv, assignees, slots, asked, calls>>

Cleared(m) == {r \in assignees : r.meeting # m}

\* replaceAssignees: the same, but one row per meeting and user: an insert that
\* meets rows of another request is refused as a whole.
ReplaceAssignees(h) ==
    LET m == work[h].meeting
        w == work[h]
        new == {[meeting |-> m, user |-> u] : u \in w.users}
        To(stage) == Moved(h, [w EXCEPT !.userStage = stage])
        clash == ~Stands(m) \/ new \cap assignees # {}
    IN  /\ w.together \/ w.memberStage = "done"
        /\ \/ /\ w.userStage = "delete" /\ Answers
              /\ assignees' = Cleared(m) /\ To("insert") /\ UNCHANGED torn
           \/ /\ w.userStage = "insert" /\ ~clash /\ Answers
              /\ assignees' = assignees \cup new /\ To("done") /\ UNCHANGED torn
           \/ /\ w.userStage \in {"delete", "insert"}
              /\ IF w.userStage = "insert" /\ clash THEN Answers ELSE Fails
              /\ To("failed") /\ torn' = torn \cup {m} /\ UNCHANGED assignees
        /\ UNCHANGED <<rdv, members, slots, asked, calls>>

PeopleNext ==
    \/ \E u \in Staff : UpsertSlots(u) \/ RemoveSlots(u)
    \/ \E m \in Rdvs : Drop(m) \/ \E h \in Handlers : Plan(h, m) \/ Change(h, m)
    \/ \E h \in Handlers : ReplaceMembers(h) \/ ReplaceAssignees(h)

PeopleSpec == PeopleInit /\ calls = 0 /\ faults = 0 /\ [][PeopleNext]_<<peopleVars, counters>>

----------------------------------------------------------------------------
(* Lists and statistics *)

\* list: visibility and the filter of the team, between two instants inclusive.
MeetingList(u, filter, from, to) ==
    {m \in Rdvs : /\ CanView(u, m) /\ rdv[m].at \in from .. to
                  /\ filter # None => CanAssign(u) /\ filter \in AssignedTo(m)}

\* upcoming: the scheduled meetings of the next seven days.
UpcomingList(u, now) ==
    {m \in Rdvs : /\ CanView(u, m) /\ rdv[m].status = "scheduled"
                  /\ rdv[m].at \in now .. now + 7 * 24}

TodayList(u, now) == {m \in Rdvs : CanView(u, m) /\ rdv[m].at \in Today(now)}

\* stats, with the meetings counted instead of their numbers.
MeetingStats(u, now) ==
    [today    |-> {m \in Rdvs : CanView(u, m) /\ rdv[m].at \in Today(now)},
     thisWeek |-> {m \in Rdvs : CanView(u, m)
                                /\ rdv[m].at \in Period(Monday(now), Monday(now) + 6)},
     pending  |-> {m \in Rdvs : CanView(u, m) /\ rdv[m].status = "scheduled"},
     upcoming |-> {m \in Rdvs : CanView(u, m) /\ rdv[m].status = "scheduled" /\ rdv[m].at >= now}]

\* statsByDay: the rows of the period grouped by Casablanca day, one entry for
\* each day of the period.
StatsByDay(u, from, to) ==
    [d \in from .. to |->
        Cardinality({m \in Rdvs : /\ CanView(u, m) /\ rdv[m].at \in Period(from, to)
                                  /\ CasaDay(rdv[m].at) = d})]

\* statsByMember: of each closer, the meetings and those done; and the totals.
StatsByMember(from, to) ==
    LET period == {m \in Rdvs : Stands(m) /\ rdv[m].at \in Period(from, to)}
        ofUser(u) == {m \in period : rdv[m].closer = u}
    IN  [total |-> Cardinality(period),
         done  |-> Cardinality({m \in period : rdv[m].status = "done"}),
         users |-> [u \in {rdv[m].closer : m \in period} \ {None} |->
                      [total |-> Cardinality(ofUser(u)),
                       done  |-> Cardinality({m \in ofUser(u) : rdv[m].status = "done"})]]]

----------------------------------------------------------------------------
(* Properties *)

\* Types of the tables, the requests and the history.
PeopleTypeOK ==
    /\ rdv \in [Rdvs -> RdvRow]
    /\ members \subseteq [meeting : Rdvs, name : Names]
    /\ assignees \subseteq [meeting : Rdvs, user : Staff]
    /\ slots \subseteq [user : Staff, date : Days, tz : Timezones, slots : SlotSets]
    /\ work \in [Handlers -> [meeting : Rdvs \cup {None}, names : SUBSET Names,
                    users : SUBSET Staff, memberStage : Stages, userStage : Stages,
                    together : BOOLEAN]]
    /\ asked \in [Rdvs -> [names : SUBSET Names, users : SUBSET Staff]]
    /\ torn \subseteq Rdvs

\* Once nothing works on a meeting it has exactly the members and the assignees
\* last given, and its creator among the assignees, unless a replacement failed
\* or two of them overlapped (replaceMembers, replaceAssignees).
PeopleAsAsked ==
    \A m \in Rdvs \ torn : Stands(m) /\ Reading(m) = {} =>
        /\ MembersOf(m) = asked[m].names
        /\ AssignedTo(m) = asked[m].users
        /\ rdv[m].creator \in AssignedTo(m)

\* The statistics of a user agree with each other and with the lists: the days of
\* a week add up to stats.thisWeek, the entry of a day is the list of today
\* (but on the day the clock changes, which casablancaDayBounds cuts after 24 of
\* its 25 hours), each day's entry does not depend on the period asked for, the
\* closers' numbers never exceed the totals; and the three days of availabilities
\* that are read contain every day the decision depends on.
MeetingReadsAgree ==
    /\ \A u \in Staff, now \in Instants :
          LET week  == StatsByDay(u, Monday(now), Monday(now) + 6)
              stats == MeetingStats(u, now)
              day   == CasaDay(now)
          IN  /\ Cardinality(stats.thisWeek) = SumOf(week)
              /\ day # CasaDay(ClockChange) =>
                    /\ StatsByDay(u, day, day)[day] = Cardinality(stats.today)
                    /\ week[day] = Cardinality(stats.today)
              /\ UpcomingList(u, now) \subseteq stats.upcoming
              /\ MeetingList(u, None, now, now + 7 * 24) \cap stats.pending = UpcomingList(u, now)
    /\ \A d \in Days :
          LET report == StatsByMember(d, d + 6)
              users  == DOMAIN report.users
          IN  /\ SumOf([u \in users |-> report.users[u].total]) <= report.total
              /\ SumOf([u \in users |-> report.users[u].done]) <= report.done
    /\ \A u \in Staff, at \in Instants, duration \in Durations :
          Relevant(RowsRead(u, at), at, at + duration)
              = Relevant({r \in slots : r.user = u}, at, at + duration)
=============================================================================
