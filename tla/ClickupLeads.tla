---------------------------- MODULE ClickupLeads ----------------------------
(***************************************************************************)
(* clickup_leads, the local copy of the tasks of ClickUp lists             *)
(* (clickup.service.ts, clickup-task-parser.ts).  ClickUp announces each   *)
(* change by a webhook that names the task only; the handler fetches the   *)
(* task and upserts it.  A synchronisation reads the pages of every        *)
(* configured list and upserts what it read, one task at a time; it never  *)
(* deletes.  Webhooks may be lost and arrive in any order.                 *)
(*                                                                         *)
(* Left out: webhooks that embed the task (ClickUp sends none), the        *)
(* signature, and of the columns all but status, list and e-mail.          *)
(***************************************************************************)
EXTENDS Statements, Sequences, FiniteSetsExt, SequencesExt

CONSTANTS Tasks,        \* ClickUp task ids
          Lists,        \* CLICKUP_LIST_IDS
          Addresses,    \* e-mail addresses
          LeadStatuses, \* statuses of a task
          PageSize      \* tasks per page of GET /list/:id/task

ASSUME LeadsAssumption ==
    /\ IsFiniteSet(Tasks) /\ None \notin Tasks \cup LeadStatuses
    /\ Lists # {} /\ PageSize \in Nat \ {0}

VARIABLES
    task,       \* task[t]: the task at ClickUp
    lead,       \* lead[t]: the row of clickup_leads, by clickup_task_id
    webhooks,   \* webhooks on their way: [event, task]
    sync,       \* sync[h]: a webhook handler or a synchronisation under way
    announced,  \* history: announced[t], lead:created less lead:deleted
    unheard,    \* history: tasks whose last change the program may have missed
    crossed     \* history: tasks two handlers have worked on at once

leadVars == <<task, lead, webhooks, sync, announced, unheard, crossed>>

Task    == [made : BOOLEAN, exists : BOOLEAN, status : LeadStatuses, list : Lists,
            field : Addresses \cup {None}, title : Addresses \cup {None}]
LeadRow == [exists : BOOLEAN, status : LeadStatuses \cup {None}, list : Lists \cup {None},
            email : Addresses \cup {None}]
NoLead   == [exists |-> FALSE, status |-> None, list |-> None, email |-> None]
IdleSync == [pc |-> "idle", task |-> None, read |-> <<>>, lists |-> {}, page |-> 0,
             existed |-> FALSE]

ClickupInit ==
    /\ task \in [Tasks -> {r \in Task : ~r.made /\ ~r.exists /\ r.title = None /\ r.field = None}]
    /\ \A t, s \in Tasks : task[t] = task[s]
    /\ lead = [t \in Tasks |-> NoLead]
    /\ webhooks = {} /\ unheard = {} /\ crossed = {}
    /\ sync = [h \in Handlers |-> IdleSync]
    /\ announced = [t \in Tasks |-> 0]

----------------------------------------------------------------------------
(* clickup-task-parser.ts *)

\* resolveLeadEmail: the custom field, else an address in the title.
ResolveEmail(r) == IF r.field # None THEN r.field ELSE r.title

\* mutant: an address the task has lost is kept.
MapKeepingEmail(r, row) ==
    [exists |-> TRUE, status |-> r.status, list |-> r.list,
     email |-> IF row.email # None THEN row.email ELSE ResolveEmail(r)]

\* mapClickUpTaskToLead, as the upsert writes it over a row.
MapTask(r, row) ==
    [exists |-> TRUE, status |-> r.status, list |-> r.list, email |-> ResolveEmail(r)]

----------------------------------------------------------------------------
(* ClickUp: the external service *)

Announce(event, t) == webhooks' = webhooks \cup {[event |-> event, task |-> t]}

CreateTask(t) ==
    /\ ~task[t].made /\ Begins
    /\ \E r \in Task : r.made /\ r.exists /\ task' = [task EXCEPT ![t] = r]
    /\ Announce("taskCreated", t)
    /\ UNCHANGED <<lead, sync, announced, unheard, crossed, faults>>

UpdateTask(t) ==
    /\ task[t].exists /\ Begins
    /\ \E r \in Task : r.made /\ r.exists /\ r # task[t] /\ task' = [task EXCEPT ![t] = r]
    /\ Announce("taskUpdated", t)
    /\ UNCHANGED <<lead, sync, announced, unheard, crossed, faults>>

DeleteTask(t) ==
    /\ task[t].exists /\ Begins
    /\ task' = [task EXCEPT ![t].exists = FALSE]
    /\ Announce("taskDeleted", t)
    /\ UNCHANGED <<lead, sync, announced, unheard, crossed, faults>>

LoseWebhook ==
    /\ Fails
    /\ \E w \in webhooks :
          webhooks' = webhooks \ {w} /\ unheard' = unheard \cup {w.task}
    /\ UNCHANGED <<task, lead, sync, announced, crossed, calls>>

----------------------------------------------------------------------------
(* handleWebhookEvent, saveOrUpdateLead, handleTaskDeleted *)

Concerns(h, t) == /\ sync[h].pc # "idle"
                  /\ sync[h].task = t \/ \E i \in DOMAIN sync[h].read : sync[h].read[i].id = t
Crossing(t) == IF \E h \in Handlers : Concerns(h, t) \/ sync[h].lists # {}
               THEN crossed \cup {t} ELSE crossed

\* taskDeleted fetches nothing, the others fetch the task.
ReceiveWebhook(h) ==
    /\ sync[h].pc = "idle"
    /\ \E w \in webhooks :
          /\ webhooks' = webhooks \ {w}
          /\ sync' = [sync EXCEPT ![h] = [IdleSync EXCEPT !.task = w.task,
                !.pc = IF w.event = "taskDeleted" THEN "lookUp" ELSE "fetch"]]
          /\ crossed' = Crossing(w.task)
    /\ UNCHANGED <<task, lead, announced, unheard, counters>>

\* resolveTaskFromWebhook: a task that is gone is an error, and the end.
FetchTask(h) ==
    /\ sync[h].pc = "fetch"
    /\ LET t == sync[h].task
       IN  \/ /\ task[t].exists /\ Answers
              /\ sync' = [sync EXCEPT ![h].pc = "exists", ![h].task = None,
                                      ![h].read = <<[id |-> t, as |-> task[t]]>>]
              /\ UNCHANGED unheard
           \/ /\ IF task[t].exists THEN Fails ELSE Answers
              /\ sync' = [sync EXCEPT ![h] = IdleSync]
              /\ unheard' = IF task[t].exists THEN unheard \cup {t} ELSE unheard
    /\ UNCHANGED <<task, lead, webhooks, announced, crossed, calls>>

\* leadExistsByClickupTaskId: a failed read counts as absent.
LeadExists(h) ==
    /\ sync[h].pc = "exists"
    /\ \/ /\ Answers
          /\ sync' = [sync EXCEPT ![h].pc = "save",
                                  ![h].existed = lead[sync[h].read[1].id].exists]
          /\ UNCHANGED crossed
       \/ /\ Fails
          /\ sync' = [sync EXCEPT ![h].pc = "save", ![h].existed = FALSE]
          /\ crossed' = crossed \cup {sync[h].read[1].id}
    /\ UNCHANGED <<task, lead, webhooks, announced, unheard, calls>>

\* What comes after a task was saved: the next one read, the next list, the end.
AfterSave(s) ==
    IF Len(s.read) > 1 THEN [s EXCEPT !.read = Tail(@), !.existed = FALSE, !.pc = "exists"]
    ELSE IF s.lists # {} THEN [IdleSync EXCEPT !.pc = "page", !.lists = s.lists]
    ELSE IdleSync

Created(existed) == IF existed THEN 0 ELSE 1

\* The upsert writes what was read, however old; then lead:created or :updated.
SaveLead(h) ==
    /\ sync[h].pc = "save"
    /\ LET t == sync[h].read[1].id
           r == sync[h].read[1].as
       IN  /\ \/ /\ Answers
                 /\ lead' = [lead EXCEPT ![t] = MapTask(r, lead[t])]
                 /\ announced' = [announced EXCEPT ![t] = @ + Created(sync[h].existed)]
                 /\ unheard' = IF \A i \in DOMAIN sync[h].read : sync[h].read[i].id = t =>
                                                     sync[h].read[i].as = task[t]
                               THEN unheard \ {t} ELSE unheard
              \/ /\ Fails /\ unheard' = unheard \cup {t}
                 /\ UNCHANGED <<lead, announced>>
           /\ sync' = [sync EXCEPT ![h] = AfterSave(sync[h])]
    /\ UNCHANGED <<task, webhooks, crossed, calls>>

\* handleTaskDeleted: look up, then delete; nothing to do without a row.
LookUpLead(h) ==
    /\ sync[h].pc = "lookUp"
    /\ LET t == sync[h].task
       IN  \/ /\ Answers /\ UNCHANGED unheard
              /\ sync' = [sync EXCEPT ![h] =
                            IF lead[t].exists THEN [@ EXCEPT !.pc = "delete"] ELSE IdleSync]
           \/ /\ Fails /\ unheard' = unheard \cup {t}
              /\ sync' = [sync EXCEPT ![h] = IdleSync]
    /\ UNCHANGED <<task, lead, webhooks, announced, crossed, calls>>

DeleteLead(h) ==
    /\ sync[h].pc = "delete"
    /\ LET t == sync[h].task
       IN  \/ /\ Answers /\ lead' = [lead EXCEPT ![t] = NoLead]
              /\ announced' = [announced EXCEPT ![t] = @ - 1]
              /\ UNCHANGED unheard
           \/ /\ Fails /\ unheard' = unheard \cup {t} /\ UNCHANGED <<lead, announced>>
    /\ sync' = [sync EXCEPT ![h] = IdleSync]
    /\ UNCHANGED <<task, webhooks, crossed, calls>>

----------------------------------------------------------------------------
(* syncAllLeads *)

StartSync(h) ==
    /\ sync[h].pc = "idle" /\ Begins
    /\ sync' = [sync EXCEPT ![h] = [IdleSync EXCEPT !.pc = "page", !.lists = Lists]]
    /\ crossed' = crossed \cup {t \in Tasks : \E o \in Handlers :
                                   Concerns(o, t) \/ sync[o].lists # {}}
    /\ UNCHANGED <<task, lead, webhooks, announced, unheard, faults>>

\* The order of a list; pages are cut from the list as it is when asked for.
InList(l) == SetToSeq({t \in Tasks : task[t].exists /\ task[t].list = l})
PageOf(l, p) ==
    LET from == p * PageSize
        left == Len(InList(l)) - from
    IN  [i \in 1 .. (IF left < PageSize THEN left ELSE PageSize) |-> InList(l)[from + i]]

\* fetchAllTasksFromList: pages until the last; a failing page ends the list with
\* nothing saved.
FetchPage(h) ==
    /\ sync[h].pc = "page"
    /\ LET s == sync[h]
           l == CHOOSE x \in s.lists : TRUE
           page == PageOf(l, s.page)
           read == s.read \o [i \in DOMAIN page |-> [id |-> page[i], as |-> task[page[i]]]]
           last == Len(InList(l)) <= (s.page + 1) * PageSize
           Rest(pc) == [s EXCEPT !.lists = @ \ {l}, !.page = 0, !.pc = pc]
       IN  \/ /\ ~last /\ Answers
              /\ sync' = [sync EXCEPT ![h].read = read, ![h].page = @ + 1]
           \/ /\ last /\ read # <<>> /\ Answers
              /\ sync' = [sync EXCEPT ![h] = [Rest("exists") EXCEPT !.read = read]]
           \/ /\ IF last /\ read = <<>> THEN Answers ELSE Fails
              /\ sync' = [sync EXCEPT ![h] = IF s.lists = {l} THEN IdleSync
                            ELSE [Rest("page") EXCEPT !.read = <<>>]]
    /\ UNCHANGED <<task, lead, webhooks, announced, unheard, crossed, calls>>

ClickupNext ==
    \/ LoseWebhook
    \/ \E t \in Tasks : CreateTask(t) \/ UpdateTask(t) \/ DeleteTask(t)
    \/ \E h \in Handlers :
          \/ ReceiveWebhook(h) \/ FetchTask(h) \/ LeadExists(h) \/ SaveLead(h)
          \/ LookUpLead(h) \/ DeleteLead(h) \/ StartSync(h) \/ FetchPage(h)

LeadsSpec == ClickupInit /\ calls = 0 /\ faults = 0 /\ [][ClickupNext]_<<leadVars, counters>>

----------------------------------------------------------------------------
(* Reads *)

LeadsThere == {t \in Tasks : lead[t].exists}

\* listLeads: the rows that match, and one page of them.
LeadPage(status, list, limit) ==
    LET rows == {t \in LeadsThere : /\ status # None => lead[t].status = status
                                    /\ list # None => lead[t].list = list}
    IN  [total |-> Cardinality(rows),
         items |-> IF Cardinality(rows) <= limit THEN Cardinality(rows) ELSE limit]

\* getLeadsStatsOverview: totals by status and by list.
LeadStats ==
    [total    |-> Cardinality(LeadsThere),
     byStatus |-> [s \in {lead[t].status : t \in LeadsThere} |->
                     Cardinality({t \in LeadsThere : lead[t].status = s})],
     byList   |-> [l \in {lead[t].list : t \in LeadsThere} |->
                     Cardinality({t \in LeadsThere : lead[t].list = l})]]

\* getLeadsMeta: the values the filters of the list offer.
LeadsMeta == [statuses |-> {lead[t].status : t \in LeadsThere},
              lists |-> {lead[t].list : t \in LeadsThere}]

----------------------------------------------------------------------------
(* Properties *)

Snapshots == [id : Tasks, as : Task]

\* Types of ClickUp, the table, the handlers and the history.
LeadsTypeOK ==
    /\ task \in [Tasks -> Task] /\ lead \in [Tasks -> LeadRow]
    /\ webhooks \subseteq [event : {"taskCreated", "taskUpdated", "taskDeleted"}, task : Tasks]
    /\ \A h \in Handlers :
          /\ sync[h].pc \in {"idle", "fetch", "exists", "save", "lookUp", "delete", "page"}
          /\ sync[h].task \in Tasks \cup {None} /\ sync[h].lists \subseteq Lists
          /\ sync[h].page \in Nat /\ sync[h].existed \in BOOLEAN
          /\ sync[h].read \in Seq(Snapshots)
    /\ announced \in [Tasks -> Int]
    /\ unheard \subseteq Tasks /\ crossed \subseteq Tasks

\* Once no webhook of a task is on its way and no handler works on it, the lead is
\* what ClickUp has, or absent like the task, and the browsers have been told of
\* its creation exactly once; a lost webhook is made good by the next
\* synchronisation that reads the task (saveOrUpdateLead, handleTaskDeleted,
\* syncAllLeads), unless a failing statement or two handlers at once came between.
MirrorFollowsClickup ==
    \A t \in Tasks \ (unheard \cup crossed) :
        /\ \A w \in webhooks : w.task # t
        /\ \A h \in Handlers : ~Concerns(h, t) /\ sync[h].lists = {}
        => /\ lead[t] = IF task[t].exists THEN MapTask(task[t], NoLead) ELSE NoLead
           /\ announced[t] = IF lead[t].exists THEN 1 ELSE 0

\* The statistics, the filters and the pages of the leads agree.
LeadReadsAgree ==
    /\ LeadStats.total = SumOf([s \in LeadsMeta.statuses |-> LeadStats.byStatus[s]])
    /\ LeadStats.total = SumOf([l \in LeadsMeta.lists |-> LeadStats.byList[l]])
    /\ \A s \in LeadsMeta.statuses : LeadPage(s, None, 1).total = LeadStats.byStatus[s]
=============================================================================
