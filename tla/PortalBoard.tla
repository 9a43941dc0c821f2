------------------------------ MODULE PortalBoard ------------------------------
(***************************************************************************)
(* The client portal: accounts (portal-clients.service.ts), pipelines,     *)
(* leads with their timeline, notes, tasks and team, and the statistics    *)
(* over them (portal-{pipelines,leads,tasks,team,stats}.service.ts).       *)
(*                                                                         *)
(* A request reads its account (client-jwt.strategy.ts), then runs one     *)
(* statement after the other.  Ownership is asserted by a read of its own, *)
(* the rows are written later, and the timeline is told last; whether a    *)
(* failure of that is passed on or swallowed changes no row unless a task  *)
(* follows.                                                                *)
(*                                                                         *)
(* Left out: names, phones and values of leads (update), colours and names *)
(* of pipelines, passwords, paging, the average time to first contact.     *)
(***************************************************************************)
EXTENDS Statements, FiniteSetsExt, Sequences

CONSTANTS Clients,       \* portal accounts
          Pipelines, PortalLeads, PortalTasks, Members,  \* row ids
          LeadStages,        \* PORTAL_LEAD_STAGES, or some of them
          OwnerNames,         \* names of owners and members
          MailOf,        \* MailOf[c]: the account's e-mail
          CompanyOf      \* CompanyOf[c]: its name, that of the owner in the team

\* The ids of rows differ, and from the lines of performance; None stands for no row; a
\* lead starts as "nouveau".
ASSUME BoardAssumption ==
    /\ None \notin Clients \cup Pipelines \cup PortalLeads \cup PortalTasks \cup Members
    /\ "gone" \notin Clients \cup {None} /\ "nouveau" \in LeadStages
    /\ PortalLeads \cap Pipelines = {} /\ PortalLeads \cap Members = {}
    /\ Pipelines \cap Members = {} /\ {"owner", "unassigned"} \cap Members = {}
    /\ "gagne" \in LeadStages
    /\ IsFiniteSet(PortalLeads) /\ IsFiniteSet(PortalTasks) /\ IsFiniteSet(Members)

VARIABLES
    active,      \* accounts with is_active
    pipeline,    \* pipeline[p]: the client of a row; None before, Gone after
    portalLead,  \* portalLead[l]: a row of portal.leads
    notes,       \* notes[l]: how many rows of lead_notes
    story,       \* story[l]: rows of lead_activity, oldest first
    portalTask,  \* portalTask[t]: a row of portal.tasks
    member,      \* member[m]: a row of team_members
    asking,      \* asking[h]: a request under way
    gaps         \* history: <<lead, kind>> not told, or told by requests that overlapped,
                 \* <<lead, "task">>: the insert of a task failed

boardVars == <<active, pipeline, portalLead, notes, story, portalTask, member, asking, gaps>>

Gone     == "gone"
TaskStatuses == {"pending", "done", "cancelled"}   \* PORTAL_TASK_STATUSES
NoPortalLead   == [client |-> None, pipe |-> None, stage |-> "nouveau", owner |-> None]
NoTask   == [client |-> None, lead |-> None, pipe |-> None, status |-> "pending", late |-> FALSE]
NoMember == [client |-> None, email |-> None, name |-> None]
Rest     == [pc |-> "idle", op |-> "none", client |-> None, lead |-> None, pipe |-> None,
             to |-> None, from |-> None, row |-> None, mail |-> None]

\* The clients may have pipelines before the first modelled request.
BoardInit == /\ active = Clients
             /\ pipeline \in [Pipelines -> Clients \cup {None}]
             /\ portalLead = [l \in PortalLeads |-> NoPortalLead]
             /\ notes = [l \in PortalLeads |-> 0]
             /\ story = [l \in PortalLeads |-> <<>>]
             /\ portalTask = [t \in PortalTasks |-> NoTask] /\ member = [m \in Members |-> NoMember]
             /\ asking = [h \in Handlers |-> Rest] /\ gaps = {}

Alive(l)    == portalLead[l].client \in Clients
InUse(p)    == pipeline[p] \in Clients
Fresh(S)    == LET free == {x \in S : \A o \in Handlers : asking[o].row # x /\ asking[o].lead # x}
               IN  IF free = {} THEN {} ELSE {AnyOf(free)}
LeadsOf(c)  == {l \in PortalLeads : portalLead[l].client = c}
TasksOf(c)  == {t \in PortalTasks : portalTask[t].client = c}
TeamOf(c)   == {m \in Members : member[m].client = c}
Leave(h)    == asking' = [asking EXCEPT ![h] = Rest]
Continue(h, pc) == asking' = [asking EXCEPT ![h].pc = pc]

----------------------------------------------------------------------------
(* A request of an account in use *)

Asks(h, r) == asking' = [asking EXCEPT ![h] = r]

Asked(h, c) ==
    \/ \E l \in Fresh({x \in PortalLeads : portalLead[x].client = None}), p \in Pipelines :
          Asks(h, [Rest EXCEPT !.client = c, !.op = "lead", !.pc = "pipe", !.lead = l, !.pipe = p])
    \/ \E l \in PortalLeads, s \in LeadStages :
          Asks(h, [Rest EXCEPT !.client = c, !.op = "stage_change", !.pc = "own", !.lead = l,
                               !.to = s])
    \/ \E l \in PortalLeads, n \in OwnerNames \cup {None} :     \* a blank name is null
          Asks(h, [Rest EXCEPT !.client = c, !.op = "owner_change", !.pc = "own", !.lead = l,
                               !.to = n])
    \/ \E l \in PortalLeads, op \in {"note", "reminder"} :
          Asks(h, [Rest EXCEPT !.client = c, !.op = op, !.pc = "own", !.lead = l])
    \/ \E l \in PortalLeads, p \in Pipelines :
          Asks(h, [Rest EXCEPT !.client = c, !.op = "task", !.pc = "own", !.lead = l, !.pipe = p])
    \/ \E m \in {x \in Members : member[x].client # None}
                    \cup Fresh({x \in Members : member[x].client = None}),
          op \in {"add", "edit"},
          e \in {MailOf[d] : d \in Clients} \ {MailOf[c]}, n \in OwnerNames :
          Asks(h, [Rest EXCEPT !.client = c, !.op = op, !.pc = "look", !.row = m,
                               !.to = n, !.mail = e])
    \/ \E r \in Pipelines \cup PortalLeads \cup Members :
          Asks(h, [Rest EXCEPT !.client = c, !.op = "remove", !.pc = "remove", !.row = r])
    \/ \E t \in PortalTasks, s \in TaskStatuses :
          Asks(h, [Rest EXCEPT !.client = c, !.op = "status", !.pc = "status", !.row = t, !.to = s])
    \/ \E t \in PortalTasks :
          Asks(h, [Rest EXCEPT !.client = c, !.op = "remind", !.pc = "status", !.row = t,
                               !.to = "pending"])
    \/ \E p \in Fresh({x \in Pipelines : pipeline[x] = None}) :
          Asks(h, [Rest EXCEPT !.client = c, !.op = "pipeline", !.pc = "pipeline", !.row = p])

\* client-jwt.strategy: the account is read afresh, an inactive one is refused.
Validate(h) ==
    /\ asking[h].pc = "idle" /\ Begins
    /\ \E c \in active : Asked(h, c)
    /\ UNCHANGED <<active, pipeline, portalLead, notes, story, portalTask, member, gaps, faults>>

\* setActive: an administrator turns an account off or on again.
SetActive ==
    /\ Begins
    /\ \E c \in Clients : active' = IF c \in active THEN active \ {c} ELSE active \cup {c}
    /\ UNCHANGED <<pipeline, portalLead, notes, story, portalTask, member, asking, gaps, faults>>

----------------------------------------------------------------------------
(* Ownership: read first *)

\* mutant: any client's pipeline will do.
OwnsSomePipeline(r) == InUse(r.pipe)
OwnsPipeline(r) == pipeline[r.pipe] = r.client
OwnsLead(r)     == portalLead[r.lead].client = r.client

\* listActivity, of one kind: the places of its entries in a timeline.
Kinds(s, k) == {i \in DOMAIN s : s[i].kind = k}

\* Changes of the stage of the same lead that have read it and not yet told.
Overlapping(h) == {o \in Handlers \ {h} : /\ asking[o].op = asking[h].op
                                          /\ asking[o].lead = asking[h].lead
                                          /\ asking[o].pc \in {"write", "tell"}}

\* What follows: the row is written, or the reminder is announced before its task.
AfterOwned(r) == CASE r.op \in {"stage_change", "owner_change", "note"} -> "write"
                   [] r.op = "reminder" -> "tell"
                   [] r.op = "task"     -> "pipe"

AssertLead(h) ==
    /\ asking[h].pc = "own"
    /\ LET r == asking[h]
       IN  \/ /\ OwnsLead(r) /\ Answers
              /\ asking' = [asking EXCEPT ![h] = [r EXCEPT
                    !.pc   = AfterOwned(r),
                    !.from = portalLead[r.lead].stage,
                    !.pipe = IF r.op = "reminder" THEN portalLead[r.lead].pipe ELSE @]]
              /\ gaps' = IF Overlapping(h) = {} THEN gaps ELSE gaps \cup {<<r.lead, r.op>>}
           \/ (IF OwnsLead(r) THEN Fails ELSE Answers) /\ Leave(h) /\ UNCHANGED gaps
    /\ UNCHANGED <<active, pipeline, portalLead, notes, story, portalTask, member, calls>>

AssertPipeline(h) ==
    /\ asking[h].pc = "pipe"
    /\ LET r == asking[h]
       IN  \/ /\ OwnsPipeline(r) /\ Answers
              /\ Continue(h, IF r.op = "lead" THEN "write" ELSE "task")
           \/ (IF OwnsPipeline(r) THEN Fails ELSE Answers) /\ Leave(h)
    /\ UNCHANGED <<active, pipeline, portalLead, notes, story, portalTask, member, gaps, calls>>

----------------------------------------------------------------------------
(* Rows *)

\* May the row still be written: foreign keys, and updates by id and client.
Writable(r) == IF r.op = "lead" THEN InUse(r.pipe) ELSE OwnsLead(r)

NewLead(r) == [NoPortalLead EXCEPT !.client = r.client, !.pipe = r.pipe]

Insert(r) == /\ r.op = "lead" /\ portalLead' = [portalLead EXCEPT ![r.lead] = NewLead(r)]
             /\ UNCHANGED notes

\* A stage that stays what it was is written, but not told.
UpdateStage(h, r) == /\ r.op = "stage_change"
                     /\ portalLead' = [portalLead EXCEPT ![r.lead].stage = r.to]
                     /\ IF r.from = r.to THEN Leave(h) ELSE Continue(h, "tell")
                     /\ UNCHANGED notes

UpdateOwner(r) == /\ r.op = "owner_change"
                  /\ portalLead' = [portalLead EXCEPT ![r.lead].owner = r.to]
                  /\ UNCHANGED notes

CreateNote(r) == /\ r.op = "note" /\ notes' = [notes EXCEPT ![r.lead] = @ + 1]
                 /\ UNCHANGED portalLead

WriteLead(h) ==
    /\ asking[h].pc = "write"
    /\ LET r == asking[h]
       IN  \/ /\ Writable(r) /\ Answers
              /\ \/ UpdateStage(h, r)
                 \/ (Insert(r) \/ UpdateOwner(r) \/ CreateNote(r)) /\ Continue(h, "tell")
           \/ /\ IF Writable(r) THEN Fails ELSE Answers
              /\ Leave(h) /\ UNCHANGED <<portalLead, notes>>
    /\ UNCHANGED <<active, pipeline, story, portalTask, member, gaps, calls>>

\* What the timeline keeps of a change.
Entry(r) == [kind |-> r.op, client |-> r.client, from |-> r.from, to |-> r.to]

\* insertActivity: a new lead gets its task also when it was not told.
Tell(h) ==
    /\ asking[h].pc = "tell"
    /\ LET r == asking[h]
       IN  \/ /\ Alive(r.lead) /\ Answers
              /\ story' = [story EXCEPT ![r.lead] = Append(@, Entry(r))]
              /\ IF r.op \in {"lead", "reminder"} THEN Continue(h, "task") ELSE Leave(h)
              /\ UNCHANGED gaps
           \/ /\ IF Alive(r.lead) THEN Fails ELSE Answers
              /\ gaps' = IF Alive(r.lead) THEN gaps \cup {<<r.lead, r.op>>} ELSE gaps
              /\ IF r.op = "lead" THEN Continue(h, "task") ELSE Leave(h)
              /\ UNCHANGED story
    /\ UNCHANGED <<active, pipeline, portalLead, notes, portalTask, member, calls>>

\* insertTask: its lead and its pipeline must still exist.
TaskHolds(r) == Alive(r.lead) /\ (r.pipe # None => InUse(r.pipe))

InsertTask(h) ==
    /\ asking[h].pc = "task"
    /\ LET r == asking[h]
       IN  \/ /\ TaskHolds(r) /\ Answers
              /\ \E t \in Fresh({x \in PortalTasks : portalTask[x].client = None}) :
                    portalTask' = [portalTask EXCEPT ![t] =
                        [NoTask EXCEPT !.client = r.client, !.lead = r.lead, !.pipe = r.pipe]]
              /\ UNCHANGED gaps
           \/ /\ IF TaskHolds(r) THEN Fails ELSE Answers
              /\ gaps' = gaps \cup {<<r.lead, "task">>}
              /\ UNCHANGED portalTask
    /\ Leave(h)
    /\ UNCHANGED <<active, pipeline, portalLead, notes, story, member, calls>>

\* updateStatus writes the status it is given; remind makes the task pending, and due now.
TouchTask(h) ==
    /\ asking[h].pc = "status"
    /\ LET r == asking[h]
           t == r.row
       IN  \/ /\ portalTask[t].client = r.client /\ Answers
              /\ portalTask' = [portalTask EXCEPT
                                  ![t].status = r.to, ![t].late = @ \/ r.op = "remind"]
           \/ (IF portalTask[t].client = r.client THEN Fails ELSE Answers) /\ UNCHANGED portalTask
    /\ Leave(h)
    /\ UNCHANGED <<active, pipeline, portalLead, notes, story, member, gaps, calls>>

\* remove of a lead (its notes and timeline follow, tasks lose it), of a pipeline
\* (leads and tasks lose it) or of a member; only the client's own.
Dropping(f, x, field) == [y \in DOMAIN f |->
                           IF f[y][field] = x THEN [f[y] EXCEPT ![field] = None] ELSE f[y]]

Mine(r) == \/ r.row \in PortalLeads /\ portalLead[r.row].client = r.client
           \/ r.row \in Pipelines /\ pipeline[r.row] = r.client
           \/ r.row \in Members /\ member[r.row].client = r.client

RemoveRow(h) ==
    /\ asking[h].pc = "remove"
    /\ LET r == asking[h]
           x == r.row
       IN  \/ /\ Mine(r) /\ x \in PortalLeads /\ Answers
              /\ portalLead'  = [portalLead EXCEPT ![x] = [NoPortalLead EXCEPT !.client = Gone]]
              /\ notes' = [notes EXCEPT ![x] = 0] /\ story' = [story EXCEPT ![x] = <<>>]
              /\ portalTask'  = Dropping(portalTask, x, "lead")
              /\ UNCHANGED <<pipeline, member>>
           \/ /\ Mine(r) /\ x \in Pipelines /\ Answers
              /\ pipeline' = [pipeline EXCEPT ![x] = Gone]
              /\ portalLead' = Dropping(portalLead, x, "pipe")
              /\ portalTask' = Dropping(portalTask, x, "pipe")
              /\ UNCHANGED <<notes, story, member>>
           \/ /\ Mine(r) /\ x \in Members /\ Answers
              /\ member' = [member EXCEPT ![x] = [NoMember EXCEPT !.client = Gone]]
              /\ UNCHANGED <<pipeline, portalLead, notes, story, portalTask>>
           \/ /\ IF Mine(r) THEN Fails ELSE Answers
              /\ UNCHANGED <<pipeline, portalLead, notes, story, portalTask, member>>
    /\ Leave(h) /\ UNCHANGED <<active, gaps, calls>>

\* create of a pipeline.
AddPipeline(h) ==
    /\ asking[h].pc = "pipeline"
    /\ \/ /\ Answers
          /\ pipeline' = [pipeline EXCEPT ![asking[h].row] = asking[h].client]
       \/ Fails /\ UNCHANGED pipeline
    /\ Leave(h)
    /\ UNCHANGED <<active, portalLead, notes, story, portalTask, member, gaps, calls>>

\* team create and update: the e-mail is looked up (an error counts as not found),
\* then the row is written; UNIQUE (client_id, email) refuses the second.
TakenMail(r) == \E m \in TeamOf(r.client) \ {r.row} : member[m].email = r.mail
Named(r)     == member[r.row].client = IF r.op = "add" THEN None ELSE r.client

LookUpMember(h) ==
    /\ asking[h].pc = "look"
    /\ LET r == asking[h]
       IN  \/ Named(r) /\ ~TakenMail(r) /\ Answers /\ Continue(h, "member")
           \/ Named(r) /\ Fails /\ Continue(h, "member")
           \/ (~Named(r) \/ TakenMail(r)) /\ Answers /\ Leave(h)
    /\ UNCHANGED <<active, pipeline, portalLead, notes, story, portalTask, member, gaps, calls>>

WriteMember(h) ==
    /\ asking[h].pc = "member"
    /\ LET r == asking[h]
       IN  \/ /\ Named(r) /\ ~TakenMail(r) /\ Answers
              /\ member' = [member EXCEPT ![r.row] =
                              [client |-> r.client, email |-> r.mail, name |-> r.to]]
           \/ /\ IF Named(r) /\ ~TakenMail(r) THEN Fails ELSE Answers
              /\ UNCHANGED member
    /\ Leave(h)
    /\ UNCHANGED <<active, pipeline, portalLead, notes, story, portalTask, gaps, calls>>

\* The due time of a task passes.
TaskFallsDue ==
    /\ \E t \in PortalTasks : /\ portalTask[t].client # None /\ ~portalTask[t].late
                              /\ portalTask' = [portalTask EXCEPT ![t].late = TRUE]
    /\ UNCHANGED <<active, pipeline, portalLead, notes, story, member, asking, gaps, counters>>

BoardNext ==
    \/ SetActive \/ TaskFallsDue
    \/ \E h \in Handlers : \/ Validate(h) \/ AssertLead(h) \/ AssertPipeline(h) \/ WriteLead(h)
                           \/ Tell(h) \/ InsertTask(h) \/ TouchTask(h) \/ RemoveRow(h)
                           \/ AddPipeline(h) \/ LookUpMember(h) \/ WriteMember(h)

BoardSpec == BoardInit /\ calls = 0 /\ faults = 0 /\ [][BoardNext]_<<boardVars, counters>>

----------------------------------------------------------------------------
(* Statistics; pipelines: one, or all of them and None *)

Won    == {"gagne"}
Lost   == {"perdu"}
LeadCount(c, pipes, stages) ==
    Cardinality({l \in LeadsOf(c) : portalLead[l].pipe \in pipes /\ portalLead[l].stage \in stages})
TaskCount(c, pipes, status) ==
    Cardinality({t \in TasksOf(c) : portalTask[t].pipe \in pipes /\ portalTask[t].status = status})
LateCount(c, pipes) ==
    Cardinality({t \in TasksOf(c) : portalTask[t].pipe \in pipes /\ portalTask[t].status = "pending"
                                                       /\ portalTask[t].late})

\* overview.
Overview(c, pipes) ==
    [total |-> LeadCount(c, pipes, LeadStages),
     byStage |-> [s \in LeadStages |-> LeadCount(c, pipes, {s})],
     pending |-> TaskCount(c, pipes, "pending"), overdue |-> LateCount(c, pipes)]

\* suivi: leads without an answer yet, late tasks, reminders of the last day.
Suivi(c, pipes) ==
    [waiting |-> LeadCount(c, pipes, {"nouveau"}), overdue |-> LateCount(c, pipes),
     reminders |-> SumOf([l \in LeadsOf(c) |-> Cardinality(Kinds(story[l], "reminder"))])]

\* performance: leads and tasks by the name of the owner of the lead.
OwnerKey(l)   == IF l # None /\ portalLead[l].owner # None THEN portalLead[l].owner ELSE ""
OwnedBy(c, k) == {l \in LeadsOf(c) : OwnerKey(l) = k}
WorkOf(c, k)  == {t \in TasksOf(c) : OwnerKey(portalTask[t].lead) = k}
Score(ls, ts) == [assigned |-> Cardinality(ls),
                  won      |-> Cardinality({l \in ls : portalLead[l].stage \in Won}),
                  lost     |-> Cardinality({l \in ls : portalLead[l].stage \in Lost}),
                  pending  |-> Cardinality({t \in ts : portalTask[t].status = "pending"}),
                  done     |-> Cardinality({t \in ts : portalTask[t].status = "done"})]
TeamNames(c)  == {CompanyOf[c]} \cup {member[m].name : m \in TeamOf(c)}

\* Owners that are blank or of nobody in the team.
Unassigned(c) == {OwnerKey(l) : l \in PortalLeads \cup {None}} \ TeamNames(c)
Performance(c) ==
    [k \in {"owner"} \cup TeamOf(c) \cup {"unassigned"} |->
        IF k = "unassigned"
        THEN Score(UNION {OwnedBy(c, n) : n \in Unassigned(c)},
                   UNION {WorkOf(c, n) : n \in Unassigned(c)})
        ELSE LET name == IF k = "owner" THEN CompanyOf[c] ELSE member[k].name
             IN  Score(OwnedBy(c, name), WorkOf(c, name))]

----------------------------------------------------------------------------
(* Properties *)

\* Types of the rows, the timelines and the requests.
BoardTypeOK ==
    /\ active \subseteq Clients /\ pipeline \in [Pipelines -> Clients \cup {None, Gone}]
    /\ \A l \in PortalLeads :
          /\ portalLead[l].client \in Clients \cup {None, Gone}
          /\ portalLead[l].stage \in LeadStages /\ portalLead[l].pipe \in Pipelines \cup {None}
          /\ portalLead[l].owner \in OwnerNames \cup {None}
          /\ \A i \in DOMAIN story[l] :
                story[l][i].kind \in {"lead", "stage_change", "owner_change", "note", "reminder"}
    /\ \A t \in PortalTasks : portalTask[t].status \in TaskStatuses
    /\ \A m \in Members : member[m].client \in Clients \cup {None, Gone}
    /\ \A h \in Handlers : asking[h].pc \in {"idle", "own", "pipe", "write", "tell", "task",
                                "status", "remove", "pipeline", "look", "member"}

Telling(l, k) == \E h \in Handlers : asking[h].pc = "tell" /\ asking[h].lead = l /\ asking[h].op = k
Told(l, k)  == Alive(l) /\ <<l, k>> \notin gaps /\ ~Telling(l, k)

\* What the entries of a kind before place i leave behind, v if there are none.
Before(s, k, i) == {j \in Kinds(s, k) : j < i}
LeftBy(s, k, i, v) == IF Before(s, k, i) = {} THEN v ELSE s[Max(Before(s, k, i))].to
LeftInAll(s, k, v) == LeftBy(s, k, Len(s) + 1, v)

\* Each entry of a kind goes on from where the last one left off.
Chained(s, k, v) == \A i \in Kinds(s, k) : s[i].from = LeftBy(s, k, i, v)

\* Once every request has answered, the timeline of a lead tells its story: its
\* changes of stage lead one from the other, from "nouveau" to the stage it has; there
\* is an entry for each note, one reception, the owner it has is the last one told, and
\* what was received or announced has its task; unless an entry or a task failed to
\* insert, or two changes of the same kind overlapped.
TimelineTellsTheLead ==
    \A l \in PortalLeads :
       /\ Told(l, "stage_change") =>
             /\ Chained(story[l], "stage_change", "nouveau")
             /\ portalLead[l].stage = LeftInAll(story[l], "stage_change", "nouveau")
       /\ Told(l, "note") => Cardinality(Kinds(story[l], "note")) = notes[l]
       /\ Told(l, "lead") => Cardinality(Kinds(story[l], "lead")) = 1
       /\ Told(l, "owner_change") =>
             portalLead[l].owner = LeftInAll(story[l], "owner_change", None)
       /\ (Told(l, "task") /\ \A h \in Handlers : asking[h].lead = l => asking[h].pc # "task") =>
             Cardinality(Kinds(story[l], "lead")) + Cardinality(Kinds(story[l], "reminder"))
                <= Cardinality({t \in PortalTasks : portalTask[t].lead = l})

\* Nothing of one client refers to another's: leads and tasks are in its own pipelines,
\* tasks about its own leads, entries its own; no two members of a client have the same
\* e-mail, and none has the owner's; though ownership was read statements before.
ClientsKeptApart ==
    \A c \in Clients :
       /\ \A l \in LeadsOf(c) :
             /\ portalLead[l].pipe # None => pipeline[portalLead[l].pipe] = c
             /\ \A i \in DOMAIN story[l] : story[l][i].client = c
       /\ \A t \in TasksOf(c) :
             /\ portalTask[t].lead # None => portalLead[portalTask[t].lead].client = c
             /\ portalTask[t].pipe # None => pipeline[portalTask[t].pipe] = c
       /\ \A m \in TeamOf(c) :
             /\ member[m].email # MailOf[c]
             /\ \A n \in TeamOf(c) \ {m} : member[m].email # member[n].email

\* What the board keeps of the clients' leads.
BoardKept == ClientsKeptApart /\ TimelineTellsTheLead

\* The statistics agree: stages sum up to the leads, pipelines to the whole, the two
\* counts of late tasks are one, and the rows of the team add up to all leads and tasks,
\* while no two of the team share a name.
PortalReadsAgree ==
    \A c \in Clients :
       LET all   == Pipelines \cup {None}
           whole == Overview(c, all)
           perf  == Performance(c)
           rows  == DOMAIN perf
       IN  /\ whole.total = SumOf(whole.byStage)
           /\ whole.total = SumOf([p \in all |-> Overview(c, {p}).total])
           /\ Suivi(c, all).overdue = whole.overdue /\ whole.overdue <= whole.pending
           /\ Suivi(c, all).waiting = whole.byStage["nouveau"]
           /\ Cardinality(TeamNames(c)) = Cardinality(TeamOf(c)) + 1 =>
                 /\ whole.total   = SumOf([k \in rows |-> perf[k].assigned])
                 /\ whole.pending = SumOf([k \in rows |-> perf[k].pending])
                 /\ whole.byStage["gagne"] = SumOf([k \in rows |-> perf[k].won])
=============================================================================
