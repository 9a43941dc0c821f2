---------------------------- MODULE WhatsappInbox ----------------------------
(***************************************************************************)
(* The WhatsApp inbox of src/whatsapp/whatsapp.service.ts: Meta posts      *)
(* messages and statuses to a webhook that answers at once and works on    *)
(* without being awaited, so several payloads are processed together;      *)
(* meanwhile users read conversations and messages are sent.  A message is *)
(* known by its wamid, unique in whatsapp_messages, and a conversation by  *)
(* its phone number, unique in whatsapp_conversations.                     *)
(*                                                                         *)
(* Grain: an action is one awaited call that writes, or whose answer is    *)
(* used, with the synchronous code that follows it.  Awaited calls that    *)
(* only carry data (media, quotes, contact name) are folded into the next. *)
(* A statement that fails spends one unit of MaxFailures.                  *)
(*                                                                         *)
(* Left out: text, media, quotes, contact names, the preview               *)
(* (last_message_text, last_message_at) of a conversation, messages        *)
(* without a wamid, and sends that Meta refuses (nothing is stored).       *)
(***************************************************************************)
EXTENDS Integers, Sequences, FiniteSets

CONSTANTS Phones,
          Inbound,        \* wamids of messages received
          Outbound,       \* wamids of messages sent
          Party,          \* the phone a message comes from or goes to
          Payloads,       \* webhook bodies: sequences of items
          Webhooks,       \* payloads that may be processed together
          Agents,         \* requests of users and senders under way together
          None,           \* no phone, no message
          MaxDeliveries,  \* bound: webhook posts, first ones and repeats
          MaxReads,       \* bound: PATCH /whatsapp/conversations/:id/read
          MaxFailures     \* bound: failing SQL statements and process deaths

Told  == {"sent", "delivered", "read", "failed"}
Items == [kind : {"message"}, id : Inbound] \cup
         [kind : {"status"}, id : Outbound, status : Told]

ASSUME IdsAssumption == Inbound \cap Outbound = {} /\ None \notin Phones \cup Outbound
ASSUME PartyAssumption == Party \in [Inbound \cup Outbound -> Phones]
ASSUME PayloadsAssumption == Payloads \subseteq Seq(Items)
ASSUME BoundsAssumption ==
    MaxDeliveries \in Nat /\ MaxReads \in Nat /\ MaxFailures \in Nat

VARIABLES
    unread,     \* unread[p]: unread_count, or -1 without a conversation
    row,        \* row[w]: status of a row of whatsapp_messages, or "absent"
    note,       \* note[p]: the notification of a conversation
    accepted,   \* outbound messages Meta has accepted
    hook,       \* hook[h]: a payload under way
    agent,      \* agent[a]: a request under way
    deliveries, reads, faults, crashes,
    waiting,    \* history: waiting[p], messages counted since p was read
    counted,    \* history: counted[w], times w was added to an unread_count
    stale,      \* history: phones whose unread_count was written from an old value
    crossed,    \* history: phones read between the count of a message and its notification
    early,      \* history: messages a status was told of before their row was there
    told,       \* history: told[w], the status of w processed last
    expected    \* history: messages delivered when all phones of their payload were known

bounds  == <<deliveries, reads, faults, crashes>>
history == <<waiting, counted, stale, crossed, early, told, expected>>
vars    == <<unread, row, note, accepted, hook, agent, bounds, history>>

IdleHook  == [pc |-> "idle", todo |-> <<>>, seen |-> 0]
IdleAgent == [pc |-> "idle", phone |-> None, out |-> None, seen |-> 0]

Known(p)  == unread[p] >= 0
Stored(w) == row[w] # "absent"

Init ==
    /\ unread = [p \in Phones |-> -1]
    /\ row = [w \in Inbound \cup Outbound |-> "absent"]
    /\ note = [p \in Phones |-> "absent"]
    /\ accepted = {}
    /\ hook = [h \in Webhooks |-> IdleHook]
    /\ agent = [a \in Agents |-> IdleAgent]
    /\ deliveries = 0 /\ reads = 0 /\ faults = 0 /\ crashes = 0
    /\ waiting = [p \in Phones |-> {}]
    /\ counted = [w \in Inbound |-> 0]
    /\ stale = {} /\ crossed = {} /\ early = {} /\ expected = {}
    /\ told = [w \in Outbound |-> "absent"]

Answers == UNCHANGED faults
Fails   == faults + crashes < MaxFailures /\ faults' = faults + 1

----------------------------------------------------------------------------
(* The webhook: receiveMeta, handleMetaWebhook, processMetaWebhookValue *)

Item(h)  == Head(hook[h].todo)
Phone(h) == Party[Item(h).id]

\* A payload under way goes on at pc.
At(h, pc) == hook' = [hook EXCEPT ![h].pc = pc]

\* continue: the next item of the payload.
NextItem(h) ==
    hook' = [hook EXCEPT ![h] =
        IF Len(hook[h].todo) = 1 THEN IdleHook
        ELSE [pc |-> "item", todo |-> Tail(hook[h].todo), seen |-> 0]]

\* An exception leaves the loop: receiveMeta logs it, Meta has its answer already.
Abort(h) == hook' = [hook EXCEPT ![h] = IdleHook]

Messages(payload) == {payload[i].id : i \in {j \in DOMAIN payload : payload[j].kind = "message"}}
Reports(payload)  == {payload[i].id : i \in {j \in DOMAIN payload : payload[j].kind = "status"}}

\* A payload arrives, for the first time or again, in any order.
Receive(h) ==
    /\ hook[h].pc = "idle" /\ deliveries < MaxDeliveries
    /\ deliveries' = deliveries + 1
    /\ \E payload \in Payloads :
          /\ payload # <<>> /\ Reports(payload) \subseteq accepted
          /\ hook' = [hook EXCEPT ![h] = [pc |-> "item", todo |-> payload, seen |-> 0]]
          /\ expected' = IF \A w \in Messages(payload) : Known(Party[w])
                         THEN expected \cup Messages(payload) ELSE expected
    /\ UNCHANGED <<unread, row, note, accepted, agent, reads, faults, crashes, waiting, counted,
                   stale, crossed, early, told>>

StillSent(w) == row[w] = "sent"                      \* mutant: only the first status counts
HasRow(w)    == Stored(w)

\* updateMessageStatus: one update by wamid, whatever the status was.  An error is
\* only logged.
UpdateStatus(h) ==
    /\ hook[h].pc = "item" /\ Item(h).kind = "status"
    /\ LET w == Item(h).id
       IN  \/ /\ Answers
              /\ row' = IF HasRow(w) THEN [row EXCEPT ![w] = Item(h).status] ELSE row
              /\ told' = [told EXCEPT ![w] = Item(h).status]
              /\ early' = IF Stored(w) THEN early ELSE early \cup {w}
           \/ Fails /\ UNCHANGED <<row, told, early>>
    /\ NextItem(h)
    /\ UNCHANGED <<unread, note, accepted, agent, deliveries, reads, crashes, waiting, counted,
                   stale, crossed, expected>>

StopAtDuplicate(h) == Abort(h)                       \* mutant: return instead of continue
OnDuplicate(h)     == NextItem(h)

\* findMessageByWamid: a message already stored is skipped; an error reads as "not
\* found".
FindDuplicate(h) ==
    /\ hook[h].pc = "item" /\ Item(h).kind = "message"
    /\ \/ Stored(Item(h).id) /\ Answers /\ OnDuplicate(h)
       \/ ~Stored(Item(h).id) /\ Answers /\ At(h, "find")
       \/ Fails /\ At(h, "find")
    /\ UNCHANGED <<unread, row, note, accepted, agent, deliveries, reads, crashes, history>>

NoInsert(p)  == "persist"                            \* mutant: nothing is created
AfterFind(p) == IF Known(p) THEN "persist" ELSE "insert"

\* ensureConversation, the select.
FindConversation(h) ==
    /\ hook[h].pc = "find"
    /\ \/ Answers /\ At(h, AfterFind(Phone(h)))
       \/ Fails /\ Abort(h)
    /\ UNCHANGED <<unread, row, note, accepted, agent, deliveries, reads, crashes, history>>

\* ensureConversation, the insert: the unique index on phone_number refuses it when
\* someone else was faster, and the exception ends the payload.
InsertConversation(h) ==
    /\ hook[h].pc = "insert"
    /\ \/ /\ ~Known(Phone(h)) /\ Answers
          /\ unread' = [unread EXCEPT ![Phone(h)] = 0]
          /\ At(h, "persist")
       \/ /\ (Known(Phone(h)) /\ Answers) \/ Fails
          /\ Abort(h) /\ UNCHANGED unread
    /\ UNCHANGED <<row, note, accepted, agent, deliveries, reads, crashes, history>>

AlwaysCreated(w) == TRUE                             \* mutant: created is not looked at
Created(w)       == ~Stored(w)

\* persistMessage: of two inserts of one wamid the unique index lets one through;
\* the other finds the row and has no further effect.
Persist(h) ==
    /\ hook[h].pc = "persist"
    /\ \/ /\ Answers
          /\ row' = IF Stored(Item(h).id) THEN row ELSE [row EXCEPT ![Item(h).id] = "delivered"]
          /\ IF Created(Item(h).id) THEN At(h, "read") ELSE NextItem(h)
       \/ Fails /\ Abort(h) /\ UNCHANGED row
    /\ UNCHANGED <<unread, note, accepted, agent, deliveries, reads, crashes, history>>

\* applyInboundConversationUpdate, the select.
ReadUnread(h) ==
    /\ hook[h].pc = "read"
    /\ \/ /\ Answers
          /\ hook' = [hook EXCEPT ![h].pc = "count", ![h].seen = unread[Phone(h)]]
       \/ Fails /\ Abort(h)
    /\ UNCHANGED <<unread, row, note, accepted, agent, deliveries, reads, crashes, history>>

\* unread_count is written by p's request as next, from the value seen.
WriteUnread(p, seen, next) ==
    /\ unread' = [unread EXCEPT ![p] = next]
    /\ stale' = IF unread[p] = seen THEN stale ELSE stale \cup {p}

NotCounted(seen)  == seen                            \* mutant: incrementUnread is false
Incremented(seen) == seen + 1

\* applyInboundConversationUpdate, the update.
Count(h) ==
    /\ hook[h].pc = "count"
    /\ LET w == Item(h).id
           p == Phone(h)
       IN  \/ /\ Answers
              /\ WriteUnread(p, hook[h].seen, Incremented(hook[h].seen))
              /\ waiting' = [waiting EXCEPT ![p] = @ \cup {w}]
              /\ counted' = [counted EXCEPT ![w] = @ + 1]
              /\ crossed' = IF \E a \in Agents : agent[a].pc = "notes" /\ agent[a].phone = p
                            THEN crossed \cup {p} ELSE crossed
              /\ hook' = [hook EXCEPT ![h].pc = "notify", ![h].seen = 0]
           \/ Fails /\ Abort(h) /\ UNCHANGED <<unread, stale, waiting, counted, crossed>>
    /\ UNCHANGED <<row, note, accepted, agent, deliveries, reads, crashes, early, told, expected>>

\* upsertWhatsappMessageNotification: update, or insert, or update after a refused
\* insert; an error is only logged.
Notify(h) ==
    /\ hook[h].pc = "notify"
    /\ \/ Answers /\ note' = [note EXCEPT ![Phone(h)] = "unread"]
       \/ Fails /\ UNCHANGED note
    /\ NextItem(h)
    /\ UNCHANGED <<unread, row, accepted, agent, deliveries, reads, crashes, history>>

Webhook(h) ==
    \/ UpdateStatus(h) \/ FindDuplicate(h) \/ FindConversation(h) \/ InsertConversation(h)
    \/ Persist(h) \/ ReadUnread(h) \/ Count(h) \/ Notify(h)

----------------------------------------------------------------------------
(* Users and senders *)

Done(a) == agent' = [agent EXCEPT ![a] = IdleAgent]

\* A webhook that has counted a message of p and not yet notified.
Notifying(p) == \E h \in Webhooks : hook[h].pc = "notify" /\ Phone(h) = p

\* markRead: the conversation, then its notification.
MarkRead(a, p) ==
    /\ agent[a].pc = "idle" /\ Known(p) /\ reads < MaxReads
    /\ reads' = reads + 1
    /\ \/ /\ Answers
          /\ unread' = [unread EXCEPT ![p] = 0]
          /\ waiting' = [waiting EXCEPT ![p] = {}]
          /\ crossed' = IF Notifying(p) THEN crossed \cup {p} ELSE crossed
          /\ agent' = [agent EXCEPT ![a] = [IdleAgent EXCEPT !.pc = "notes", !.phone = p]]
       \/ Fails /\ UNCHANGED <<unread, waiting, crossed, agent>>
    /\ UNCHANGED <<row, note, accepted, hook, deliveries, crashes, counted, stale, early, told,
                   expected>>

Untouched(p) == note[p]                              \* mutant: the notification is forgotten
NotedRead(p) == IF note[p] = "unread" THEN "read" ELSE note[p]

\* markReadByConversationId: an error is only logged.
ReadNotes(a) ==
    /\ agent[a].pc = "notes"
    /\ \/ Answers /\ note' = [note EXCEPT ![agent[a].phone] = NotedRead(agent[a].phone)]
       \/ Fails /\ UNCHANGED note
    /\ Done(a)
    /\ UNCHANGED <<unread, row, accepted, hook, deliveries, reads, crashes, history>>

\* PATCH /notifications/:id/read and read-all.
ReadNotifications(S) ==
    /\ \E p \in S : note[p] = "unread"
    /\ reads < MaxReads /\ reads' = reads + 1
    /\ note' = [p \in Phones |-> IF p \in S THEN NotedRead(p) ELSE note[p]]
    /\ UNCHANGED <<unread, row, accepted, hook, agent, deliveries, faults, crashes, history>>

\* Meta accepts a message.  One sent from an open conversation (sendMessage,
\* sendTemplateToConversation) is stored next, one sent to a phone number
\* (persistSentTemplateMessage) needs its conversation first.
SendToMeta(a, w) ==
    /\ agent[a].pc = "idle" /\ w \notin accepted
    /\ accepted' = accepted \cup {w}
    /\ \E pc \in {"find"} \cup {q \in {"store"} : Known(Party[w])} :
          agent' = [agent EXCEPT ![a] =
             [IdleAgent EXCEPT !.pc = pc, !.phone = Party[w], !.out = w]]
    /\ UNCHANGED <<unread, row, note, hook, bounds, history>>

\* findOrCreateConversation, the select: the row is kept for the update.
FindForSend(a) ==
    /\ agent[a].pc = "find"
    /\ LET p == agent[a].phone
       IN  \/ Known(p) /\ Answers
              /\ agent' = [agent EXCEPT ![a].pc = "touch", ![a].seen = unread[p]]
           \/ ~Known(p) /\ Answers /\ agent' = [agent EXCEPT ![a].pc = "create"]
           \/ Fails /\ Done(a)
    /\ UNCHANGED <<unread, row, note, accepted, hook, deliveries, reads, crashes, history>>

\* findOrCreateConversation, the update: it writes back the unread_count it read.
TouchForSend(a) ==
    /\ agent[a].pc = "touch"
    /\ \/ /\ Answers
          /\ WriteUnread(agent[a].phone, agent[a].seen, agent[a].seen)
          /\ agent' = [agent EXCEPT ![a].pc = "store", ![a].seen = 0]
       \/ Fails /\ Done(a) /\ UNCHANGED <<unread, stale>>
    /\ UNCHANGED <<row, note, accepted, hook, deliveries, reads, crashes, waiting, counted,
                   crossed, early, told, expected>>

Counting  == 1                                       \* mutant: incrementUnread is true
NewUnread == 0

\* findOrCreateConversation, the insert: refused when the conversation is there by now,
\* and what Meta has sent is never stored.
CreateForSend(a) ==
    /\ agent[a].pc = "create"
    /\ LET p == agent[a].phone
       IN  \/ /\ ~Known(p) /\ Answers
              /\ unread' = [unread EXCEPT ![p] = NewUnread]
              /\ agent' = [agent EXCEPT ![a].pc = "store"]
           \/ /\ (Known(p) /\ Answers) \/ Fails
              /\ Done(a) /\ UNCHANGED unread
    /\ UNCHANGED <<row, note, accepted, hook, deliveries, reads, crashes, history>>

\* persistMessage of an outbound message.
StoreSent(a) ==
    /\ agent[a].pc = "store"
    /\ \/ Answers /\ row' = [row EXCEPT ![agent[a].out] = "sent"]
       \/ Fails /\ UNCHANGED row
    /\ Done(a)
    /\ UNCHANGED <<unread, note, accepted, hook, deliveries, reads, crashes, history>>

\* The process dies and is started again: what it held in memory is gone.
Crash ==
    /\ faults + crashes < MaxFailures /\ crashes' = crashes + 1
    /\ hook' = [h \in Webhooks |-> IdleHook]
    /\ agent' = [a \in Agents |-> IdleAgent]
    /\ UNCHANGED <<unread, row, note, accepted, deliveries, reads, faults, history>>

Next ==
    \/ \E h \in Webhooks : Receive(h) \/ Webhook(h)
    \/ \E a \in Agents : \/ \E p \in Phones : MarkRead(a, p)
                         \/ \E w \in Outbound : SendToMeta(a, w)
                         \/ ReadNotes(a) \/ FindForSend(a) \/ TouchForSend(a)
                         \/ CreateForSend(a) \/ StoreSent(a)
    \/ \E S \in {{p} : p \in Phones} \cup {Phones} : ReadNotifications(S)
    \/ Crash

Spec == Init /\ [][Next]_vars

\* The awaits of a payload under way come back; nobody owes a payload or a request.
FairSpec == Spec /\ \A h \in Webhooks : WF_vars(Webhook(h))

----------------------------------------------------------------------------
(* Properties *)

HookType  == [pc : {"idle", "item", "find", "insert", "persist", "read", "count", "notify"},
              todo : Seq(Items), seen : Nat]
AgentType == [pc : {"idle", "notes", "find", "touch", "create", "store"},
              phone : Phones \cup {None}, out : Outbound \cup {None}, seen : Nat]

TableType ==
    /\ unread \in [Phones -> Nat \cup {-1}]
    /\ row \in [Inbound \cup Outbound -> {"absent"} \cup Told]
    /\ note \in [Phones -> {"absent", "unread", "read"}]
    /\ accepted \subseteq Outbound
HooksType ==
    /\ hook \in [Webhooks -> HookType]
    /\ \A h \in Webhooks : hook[h].pc # "idle" =>
          /\ hook[h].todo # <<>>
          /\ hook[h].pc # "item" => Item(h).kind = "message"
          /\ hook[h].pc \in {"persist", "read", "count", "notify"} => Known(Phone(h))
          /\ hook[h].pc \in {"read", "count", "notify"} => Stored(Item(h).id)
AgentsType ==
    /\ agent \in [Agents -> AgentType]
    /\ \A a \in Agents : /\ agent[a].pc # "idle" => agent[a].phone # None
                         /\ agent[a].pc \in {"find", "touch", "create", "store"} =>
                               agent[a].out # None
                         /\ agent[a].pc \in {"notes", "touch", "store"} => Known(agent[a].phone)
CountType == deliveries \in Nat /\ reads \in Nat /\ faults \in Nat /\ crashes \in Nat
HistoryType ==
    /\ waiting \in [Phones -> SUBSET Inbound]
    /\ counted \in [Inbound -> Nat]
    /\ stale \subseteq Phones /\ crossed \subseteq Phones
    /\ early \subseteq Outbound /\ expected \subseteq Inbound
    /\ told \in [Outbound -> {"absent"} \cup Told]

\* Types of the tables, payloads and requests; a payload that got past the lookup of
\* its conversation has one, and past the insert its message is stored.
TypeOK == TableType /\ HooksType /\ AgentsType /\ CountType /\ HistoryType

\* However often and however closely together a message is delivered, it adds to the
\* unread count once at most, and never without its row.
SideEffectsOnce ==
    \A w \in Inbound : counted[w] <= 1 /\ (counted[w] = 1 => Stored(w))

CountedFrom(p) == {w \in Inbound : Party[w] = p /\ counted[w] > 0}

\* Whatever overwrites whatever, through faults and crashes: an unread count never
\* exceeds the number of messages received from that phone.
UnreadBounded == \A p \in Phones : unread[p] <= Cardinality(CountedFrom(p))

\* Nothing failed and the process did not die.
Sound == faults = 0 /\ crashes = 0

\* Nobody works on the conversation of p.
Settled(p) ==
    /\ \A h \in Webhooks : hook[h].pc # "idle" => Phone(h) # p
    /\ \A a \in Agents : agent[a].phone # p

\* The unread count of a conversation is the number of messages counted since it was
\* read, unless it was written back from a value that was no longer current: neither a
\* fault nor a crash separates the two.
UnreadExact ==
    \A p \in Phones : Known(p) /\ p \notin stale => unread[p] = Cardinality(waiting[p])

\* A notification that asks for attention has a message behind it that nobody has
\* read, unless the conversation was read while it was being notified.
NoteMeansWaiting ==
    \A p \in Phones : Sound /\ Settled(p) /\ p \notin crossed /\ note[p] = "unread" =>
        waiting[p] # {}

\* A sent message shows the status that was processed last, whatever else failed, unless
\* a status came before the row was there: that one is lost.
ToldIsShown ==
    \A w \in Outbound : w \notin early /\ told[w] # "absent" => row[w] = told[w]

\* What a user sees of a message received.
InboxOf(w) == IF counted[w] > 0 THEN "counted" ELSE IF Stored(w) THEN "stored" ELSE "absent"

Promise == INSTANCE InboxPromise
           WITH Statuses <- Told,
                known    <- {p \in Phones : Known(p)},
                inbox    <- [w \in Inbound |-> InboxOf(w)],
                badge    <- [p \in Phones |-> IF Known(p) THEN unread[p] ELSE 0],
                bell     <- note,
                sent     <- accepted,
                shown    <- [w \in Outbound |-> row[w]]

\* Payloads that come again, together or out of order, senders, readers, faults and
\* crashes keep the promise: a message is stored and counted once, a badge never says
\* more than were counted, what rings has a message behind it, and a message sent
\* appears once and shows what was told of it.
KeepsInbox == Promise!Spec

\* A message delivered for conversations that exist is stored in the end, whatever
\* else is delivered, read and sent meanwhile.
DeliveredIsStored ==
    \A w \in Inbound : w \in expected ~> (Stored(w) \/ ~Sound)

\* "messages -> conversation + message inbound": when no payload is under way, nothing
\* failed and the process did not die, each message delivered is stored.
EveryMessageStored == [][\A h \in Webhooks :
    Sound' /\ hook[h].pc # "idle" /\ hook'[h].pc = "idle" =>
        \A w \in Messages(hook[h].todo) : row'[w] # "absent"]_vars
=============================================================================
