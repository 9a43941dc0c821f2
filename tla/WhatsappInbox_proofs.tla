------------------------- MODULE WhatsappInbox_proofs -------------------------
(***************************************************************************)
(* Proofs about WhatsappInbox, for any number of payloads and requests     *)
(* under way: type correctness, that a message has its side effects once,  *)
(* that unread counts never exceed the messages received and are exact     *)
(* until one is overwritten, that notifications have messages behind them, *)
(* and that sent messages show the status told last.                       *)
(***************************************************************************)
EXTENDS WhatsappInbox, FiniteSetTheorems, TLAPS

\* What Head and Tail give of a payload that has items left.
LEMMA HeadTail ==
    ASSUME NEW s \in Seq(Items), s # <<>>
    PROVE  /\ Head(s) \in Items /\ Tail(s) \in Seq(Items)
           /\ Len(s) # 1 => Tail(s) # <<>>
<1>1. Head(s) \in Items /\ Tail(s) \in Seq(Items)
  OBVIOUS
<1>2. Len(s) # 1 => Tail(s) # <<>>
  <2>1. Len(Tail(s)) = Len(s) - 1
    OBVIOUS
  <2>2. Len(s) \in Nat /\ Len(<<>>) = 0
    OBVIOUS
  <2>3. Tail(s) = <<>> => Len(s) = 1
    BY <2>1, <2>2
  <2> QED
    BY <2>3
<1> QED
  BY <1>1, <1>2

\* What a payload may hold when it goes on, in the state it goes on to.
Fits(r) ==
    r.pc # "idle" =>
        /\ r.todo # <<>>
        /\ r.pc # "item" => Head(r.todo).kind = "message"
        /\ r.pc \in {"persist", "read", "count", "notify"} =>
              unread'[Party[Head(r.todo).id]] >= 0
        /\ r.pc \in {"read", "count", "notify"} => row'[Head(r.todo).id] # "absent"

\* The item at hand is one of Items, and a message past its lookup.
LEMMA AtHand ==
    ASSUME TypeOK, NEW h \in Webhooks, hook[h].pc # "idle"
    PROVE  /\ hook[h] \in HookType /\ hook[h].todo \in Seq(Items) /\ hook[h].todo # <<>>
           /\ Item(h) \in Items /\ Item(h).id \in Inbound \cup Outbound
           /\ Phone(h) \in Phones
           /\ Item(h).kind = "message" => Item(h).id \in Inbound
           /\ Item(h).kind = "status" => Item(h).id \in Outbound /\ Item(h).status \in Told
           /\ hook[h].pc # "item" => Item(h).kind = "message"
<1>1. /\ hook[h] \in HookType /\ hook[h].todo \in Seq(Items) /\ hook[h].todo # <<>>
      /\ hook[h].pc # "item" => Item(h).kind = "message"
  BY DEF TypeOK, HooksType, HookType
<1>2. Item(h) \in Items
  BY <1>1, HeadTail DEF Item
<1>3. /\ Item(h).id \in Inbound \cup Outbound
      /\ Item(h).kind = "message" => Item(h).id \in Inbound
      /\ Item(h).kind = "status" => Item(h).id \in Outbound /\ Item(h).status \in Told
  BY <1>2 DEF Items
<1> QED
  BY <1>1, <1>2, <1>3, PartyAssumption DEF Phone

\* Conversations and rows are never taken away.
Grows == /\ \A p \in Phones : Known(p) => Known(p)'
         /\ \A w \in Inbound \cup Outbound : Stored(w) => Stored(w)'

\* One payload goes on with a record that fits; the others lose nothing.
LEMMA HookStep ==
    ASSUME TypeOK, Grows, NEW h \in Webhooks, NEW r \in HookType,
           hook' = [hook EXCEPT ![h] = r], Fits(r)
    PROVE  HooksType'
<1>1. hook' \in [Webhooks -> HookType]
  BY DEF TypeOK, HooksType
<1>2. ASSUME NEW g \in Webhooks, hook'[g].pc # "idle"
      PROVE  /\ hook'[g].todo # <<>>
             /\ hook'[g].pc # "item" => Item(g)'.kind = "message"
             /\ hook'[g].pc \in {"persist", "read", "count", "notify"} => Known(Phone(g))'
             /\ hook'[g].pc \in {"read", "count", "notify"} => Stored(Item(g).id)'
  <2>1. CASE g = h
    <3>1. hook'[g] = r
      BY <2>1 DEF TypeOK, HooksType
    <3> QED
      BY <1>2, <3>1 DEF Fits, Item, Phone, Known, Stored
  <2>2. CASE g # h
    <3>1. hook'[g] = hook[g] /\ hook[g].pc # "idle"
      BY <1>2, <2>2 DEF TypeOK, HooksType
    <3>2. Item(g)' = Item(g) /\ Phone(g)' = Phone(g)
      BY <3>1 DEF Item, Phone
    <3>3. Item(g).id \in Inbound \cup Outbound /\ Phone(g) \in Phones
      BY <3>1, AtHand
    <3> QED
      BY <3>1, <3>2, <3>3 DEF Grows, TypeOK, HooksType, Known, Stored
  <2> QED
    BY <2>1, <2>2
<1> QED
  BY <1>1, <1>2 DEF HooksType

\* The records a payload goes on with: the same item at another place, the next item,
\* or nothing.
LEMMA Continues ==
    ASSUME TypeOK, NEW h \in Webhooks, hook[h].pc # "idle"
    PROVE  /\ NextItem(h) => \E r \in HookType :
                 hook' = [hook EXCEPT ![h] = r] /\ r.pc \in {"idle", "item"} /\ Fits(r)
           /\ Abort(h) => \E r \in HookType :
                 hook' = [hook EXCEPT ![h] = r] /\ r.pc = "idle" /\ Fits(r)
<1>1. hook[h].todo \in Seq(Items) /\ hook[h].todo # <<>>
  BY AtHand
<1>2. IdleHook \in HookType /\ IdleHook.pc = "idle" /\ Fits(IdleHook)
  BY DEF IdleHook, HookType, Fits
<1> DEFINE rest == [pc |-> "item", todo |-> Tail(hook[h].todo), seen |-> 0]
<1>3. Len(hook[h].todo) # 1 => rest \in HookType /\ rest.pc = "item" /\ Fits(rest)
  <2> SUFFICES ASSUME Len(hook[h].todo) # 1
               PROVE  rest \in HookType /\ rest.pc = "item" /\ Fits(rest)
    OBVIOUS
  <2>1. Tail(hook[h].todo) \in Seq(Items) /\ Tail(hook[h].todo) # <<>>
    BY <1>1, HeadTail
  <2> QED
    BY <2>1 DEF HookType, Fits
<1>4. NextItem(h) => hook' = [hook EXCEPT ![h] = IF Len(hook[h].todo) = 1 THEN IdleHook ELSE rest]
  BY DEF NextItem
<1>5. Abort(h) => hook' = [hook EXCEPT ![h] = IdleHook]
  BY DEF Abort
<1> HIDE DEF rest
<1> QED
  BY <1>2, <1>3, <1>4, <1>5

\* h goes on with r: at another place of the same item, at the next item, or nowhere.
Goes(h, r) ==
    /\ hook' = [hook EXCEPT ![h] = r] /\ Fits(r)
    /\ r.pc \in {"idle", "item"} \/ r.todo = hook[h].todo

\* A step of a payload keeps conversations and rows, and goes on to a well-formed place:
\* to "read" only from an insert that stored the message, to "count" only from "read".
Proceeds(h) ==
    \E r \in HookType :
        /\ Goes(h, r)
        /\ r.pc = "read" => hook[h].pc = "persist" /\ ~Stored(Item(h).id)
        /\ r.pc = "count" => hook[h].pc = "read"

\* A payload that goes on to its next item, or is dropped, stays well typed.
LEMMA Ends ==
    ASSUME TypeOK, NEW h \in Webhooks, hook[h].pc # "idle", NextItem(h) \/ Abort(h)
    PROVE  Proceeds(h)
<1>1. PICK r \in HookType :
          hook' = [hook EXCEPT ![h] = r] /\ r.pc \in {"idle", "item"} /\ Fits(r)
  BY Continues
<1> QED
  BY <1>1 DEF Proceeds, Goes

\* The same item at another place.
LEMMA Advances ==
    ASSUME TypeOK, NEW h \in Webhooks, hook[h].pc # "idle", Item(h).kind = "message",
           NEW pc \in {"find", "insert", "persist", "read", "count", "notify"}, NEW n \in Nat,
           hook' = [hook EXCEPT ![h].pc = pc, ![h].seen = n],
           pc \in {"persist", "read", "count", "notify"} => unread'[Phone(h)] >= 0,
           pc \in {"read", "count", "notify"} => row'[Item(h).id] # "absent",
           pc = "read" => hook[h].pc = "persist" /\ ~Stored(Item(h).id),
           pc = "count" => hook[h].pc = "read"
    PROVE  Proceeds(h)
<1> DEFINE r == [hook[h] EXCEPT !.pc = pc, !.seen = n]
<1>1. hook[h] \in HookType /\ hook[h].todo # <<>>
  BY AtHand
<1>2. r \in HookType /\ r.pc = pc /\ r.todo = hook[h].todo
  BY <1>1 DEF HookType
<1>3. hook' = [hook EXCEPT ![h] = r]
  BY DEF TypeOK, HooksType
<1>4. Fits(r)
  BY <1>1, <1>2 DEF Fits, Item, Phone
<1> QED
  BY <1>2, <1>3, <1>4 DEF Proceeds, Goes

\* A payload that goes on with the message at hand stays well typed.
LEMMA AdvancesAt ==
    ASSUME TypeOK, NEW h \in Webhooks, hook[h].pc # "idle", Item(h).kind = "message",
           NEW pc \in {"find", "insert", "persist", "read", "count", "notify"},
           At(h, pc),
           pc \in {"persist", "read", "count", "notify"} => unread'[Phone(h)] >= 0,
           pc \in {"read", "count", "notify"} => row'[Item(h).id] # "absent",
           pc = "read" => hook[h].pc = "persist" /\ ~Stored(Item(h).id),
           pc = "count" => hook[h].pc = "read"
    PROVE  Proceeds(h)
<1>1. hook[h] \in HookType /\ hook \in [Webhooks -> HookType]
  BY AtHand DEF TypeOK, HooksType
<1>2. hook[h].seen \in Nat
  BY <1>1 DEF HookType
<1>3. hook' = [hook EXCEPT ![h].pc = pc, ![h].seen = hook[h].seen]
  <2>1. [hook[h] EXCEPT !.pc = pc] = [hook[h] EXCEPT !.pc = pc, !.seen = hook[h].seen]
    BY <1>1 DEF HookType
  <2> QED
    BY <2>1 DEF At
<1> QED
  BY <1>2, <1>3, Advances

\* The places that promise nothing of the tables.
LEMMA AdvancesEarly ==
    ASSUME TypeOK, NEW h \in Webhooks, hook[h].pc # "idle", Item(h).kind = "message",
           NEW pc \in {"find", "insert"}, At(h, pc)
    PROVE  Proceeds(h)
<1>1. pc \notin {"persist", "read", "count", "notify"} /\ pc # "read" /\ pc # "count"
  OBVIOUS
<1> QED
  BY <1>1, AdvancesAt

\* Every step of a payload proceeds, and takes no conversation and no row away.
LEMMA WebhookStep ==
    ASSUME TypeOK, NEW h \in Webhooks, Webhook(h)
    PROVE  hook[h].pc # "idle" /\ Grows /\ Proceeds(h)
<1>0. hook[h].pc # "idle"
  BY DEF Webhook, UpdateStatus, FindDuplicate, FindConversation, InsertConversation, Persist,
         ReadUnread, Count, Notify
<1>1. /\ Phone(h) \in Phones /\ Item(h).id \in Inbound \cup Outbound
      /\ hook[h].pc # "item" => Item(h).kind = "message"
      /\ Item(h).kind = "status" => Item(h).status \in Told
  BY <1>0, AtHand
<1>2. /\ unread \in [Phones -> Nat \cup {-1}]
      /\ row \in [Inbound \cup Outbound -> {"absent"} \cup Told]
  BY DEF TypeOK, TableType
<1>3. /\ hook[h].pc \in {"persist", "read", "count", "notify"} => Known(Phone(h))
      /\ hook[h].pc \in {"read", "count", "notify"} => Stored(Item(h).id)
  BY <1>0 DEF TypeOK, HooksType
<1>4. CASE UpdateStatus(h)
  <2>1. row' \in [Inbound \cup Outbound -> {"absent"} \cup Told] /\ Grows
    BY <1>1, <1>2, <1>4 DEF UpdateStatus, Grows, Known, Stored, Told
  <2> QED
    BY <1>0, <1>4, <2>1, Ends DEF UpdateStatus
<1>5. CASE FindDuplicate(h)
  <2>1. Grows
    BY <1>5 DEF FindDuplicate, Grows, Known, Stored
  <2>2. NextItem(h) \/ At(h, "find")
    BY <1>5 DEF FindDuplicate, OnDuplicate
  <2>3. CASE At(h, "find")
    BY <1>0, <1>5, <2>1, <2>3, AdvancesEarly DEF FindDuplicate
  <2> QED
    BY <1>0, <2>1, <2>2, <2>3, Ends
<1>6. CASE FindConversation(h)
  <2>1. Grows /\ UNCHANGED unread
    BY <1>6 DEF FindConversation, Grows, Known, Stored
  <2>2. At(h, AfterFind(Phone(h))) \/ Abort(h)
    BY <1>6 DEF FindConversation
  <2>3. CASE At(h, "persist") /\ Known(Phone(h))
    BY <1>0, <1>1, <1>6, <2>1, <2>3, AdvancesAt DEF FindConversation, Known
  <2>4. CASE At(h, "insert")
    BY <1>0, <1>1, <1>6, <2>1, <2>4, AdvancesEarly DEF FindConversation
  <2> QED
    BY <1>0, <2>1, <2>2, <2>3, <2>4, Ends DEF AfterFind
<1>7. CASE InsertConversation(h)
  <2>1. CASE unread' = [unread EXCEPT ![Phone(h)] = 0] /\ At(h, "persist")
    <3>1. unread'[Phone(h)] >= 0
      BY <1>1, <1>2, <2>1
    <3>2. Grows
      BY <1>1, <1>2, <1>7, <2>1 DEF InsertConversation, Grows, Known, Stored
    <3> QED
      BY <1>0, <1>1, <1>7, <2>1, <3>1, <3>2, AdvancesAt DEF InsertConversation
  <2>2. CASE UNCHANGED unread /\ Abort(h)
    <3>1. Grows
      BY <1>7, <2>2 DEF InsertConversation, Grows, Known, Stored
    <3> QED
      BY <1>0, <2>2, <3>1, Ends
  <2> QED
    BY <1>7, <2>1, <2>2 DEF InsertConversation
<1>8. CASE Persist(h)
  <2> DEFINE w == Item(h).id
  <2>1. Grows /\ UNCHANGED unread /\ hook[h].pc = "persist"
    BY <1>1, <1>2, <1>8 DEF Persist, Grows, Known, Stored
  <2>2. CASE /\ row' = IF Stored(w) THEN row ELSE [row EXCEPT ![w] = "delivered"]
             /\ IF Created(w) THEN At(h, "read") ELSE NextItem(h)
    <3>1. row'[w] # "absent"
      BY <1>1, <1>2, <2>2 DEF Stored
    <3>2. CASE Created(w) /\ At(h, "read")
      BY <1>0, <1>1, <1>3, <2>1, <3>1, <3>2, AdvancesAt DEF Known, Created
    <3> QED
      BY <1>0, <2>1, <2>2, <3>2, Ends
  <2>3. CASE Abort(h)
    BY <1>0, <2>1, <2>3, Ends
  <2> QED
    BY <1>8, <2>2, <2>3 DEF Persist
<1>9. CASE ReadUnread(h)
  <2>1. Grows /\ UNCHANGED <<unread, row>> /\ hook[h].pc = "read"
    BY <1>9 DEF ReadUnread, Grows, Known, Stored
  <2>2. CASE hook' = [hook EXCEPT ![h].pc = "count", ![h].seen = unread[Phone(h)]]
    <3>1. unread[Phone(h)] \in Nat
      BY <1>1, <1>2, <1>3, <2>1 DEF Known
    <3> QED
      BY <1>0, <1>1, <1>3, <2>1, <2>2, <3>1, Advances DEF Known, Stored
  <2> QED
    BY <1>0, <1>9, <2>1, <2>2, Ends DEF ReadUnread
<1>10. CASE Count(h)
  <2>1. hook[h].seen \in Nat
    BY <1>0, AtHand DEF HookType
  <2>2. /\ Grows /\ UNCHANGED row /\ hook[h].pc = "count"
        /\ unread'[Phone(h)] >= 0
    BY <1>1, <1>2, <1>3, <1>10, <2>1
       DEF Count, WriteUnread, Incremented, Grows, Known, Stored
  <2>3. CASE hook' = [hook EXCEPT ![h].pc = "notify", ![h].seen = 0]
    BY <1>0, <1>1, <1>3, <2>2, <2>3, Advances DEF Stored
  <2> QED
    BY <1>0, <1>10, <2>2, <2>3, Ends DEF Count
<1>11. CASE Notify(h)
  <2>1. Grows /\ NextItem(h)
    BY <1>11 DEF Notify, Grows, Known, Stored
  <2> QED
    BY <1>0, <2>1, Ends
<1> QED
  BY <1>4, <1>5, <1>6, <1>7, <1>8, <1>9, <1>10, <1>11 DEF Webhook

\* An agent's request goes on with a record that fits; the others lose nothing.
FitsAgent(r) ==
    /\ r.pc # "idle" => r.phone # None
    /\ r.pc \in {"find", "touch", "create", "store"} => r.out # None
    /\ r.pc \in {"notes", "touch", "store"} => unread'[r.phone] >= 0

\* Replacing the request of one agent by a well-typed one keeps the agents well typed.
LEMMA AgentStep ==
    ASSUME TypeOK, Grows, NEW a \in Agents, NEW r \in AgentType,
           agent' = [agent EXCEPT ![a] = r], FitsAgent(r)
    PROVE  AgentsType'
<1>1. agent' \in [Agents -> AgentType]
  BY DEF TypeOK, AgentsType
<1>2. ASSUME NEW b \in Agents
      PROVE  /\ agent'[b].pc # "idle" => agent'[b].phone # None
             /\ agent'[b].pc \in {"find", "touch", "create", "store"} => agent'[b].out # None
             /\ agent'[b].pc \in {"notes", "touch", "store"} => Known(agent[b].phone)'
  <2>1. CASE b = a
    <3>1. agent'[b] = r
      BY <2>1 DEF TypeOK, AgentsType
    <3> QED
      BY <3>1 DEF FitsAgent, Known
  <2>2. CASE b # a
    <3>1. agent'[b] = agent[b] /\ agent[b] \in AgentType
      BY <2>2 DEF TypeOK, AgentsType
    <3>2. agent[b].pc # "idle" => agent[b].phone \in Phones
      BY <3>1 DEF TypeOK, AgentsType, AgentType
    <3> QED
      BY <3>1, <3>2 DEF Grows, TypeOK, AgentsType, Known
  <2> QED
    BY <2>1, <2>2
<1> QED
  BY <1>1, <1>2 DEF AgentsType

\* What nobody moved stays well-formed while conversations and rows only grow.
LEMMA Undisturbed ==
    ASSUME TypeOK, Grows
    PROVE  /\ UNCHANGED hook => HooksType'
           /\ UNCHANGED agent => AgentsType'
<1>1. ASSUME UNCHANGED agent
      PROVE  AgentsType'
  <2>1. ASSUME NEW b \in Agents, agent[b].pc # "idle"
        PROVE  agent[b].phone \in Phones
    BY <2>1 DEF TypeOK, AgentsType, AgentType
  <2> QED
    BY <1>1, <2>1 DEF Grows, TypeOK, AgentsType, Known
<1>2. ASSUME UNCHANGED hook
      PROVE  HooksType'
  <2>1. hook' \in [Webhooks -> HookType]
    BY <1>2 DEF TypeOK, HooksType
  <2>2. ASSUME NEW g \in Webhooks, hook'[g].pc # "idle"
        PROVE  /\ hook'[g].todo # <<>>
               /\ hook'[g].pc # "item" => Item(g)'.kind = "message"
               /\ hook'[g].pc \in {"persist", "read", "count", "notify"} => Known(Phone(g))'
               /\ hook'[g].pc \in {"read", "count", "notify"} => Stored(Item(g).id)'
    <3>1. hook'[g] = hook[g] /\ hook[g].pc # "idle"
      BY <1>2, <2>2
    <3>2. Item(g)' = Item(g) /\ Phone(g)' = Phone(g)
      BY <3>1 DEF Item, Phone
    <3>3. Item(g).id \in Inbound \cup Outbound /\ Phone(g) \in Phones
      BY <3>1, AtHand
    <3> QED
      BY <3>1, <3>2, <3>3 DEF Grows, TypeOK, HooksType, Known, Stored
  <2> QED
    BY <2>1, <2>2 DEF HooksType
<1> QED
  BY <1>1, <1>2

\* A step of a payload keeps the types.
LEMMA WebhookType ==
    ASSUME TypeOK, NEW h \in Webhooks, Webhook(h)
    PROVE  TypeOK'
<1>1. hook[h].pc # "idle" /\ Grows /\ Proceeds(h)
  BY WebhookStep
<1>2. HooksType'
  <2>1. PICK r \in HookType : Goes(h, r)
    BY <1>1 DEF Proceeds
  <2> QED
    BY <1>1, <2>1, HookStep DEF Goes
<1>3. UNCHANGED <<agent, deliveries, reads, crashes, accepted, expected>>
  BY DEF Webhook, UpdateStatus, FindDuplicate, FindConversation, InsertConversation, Persist,
         ReadUnread, Count, Notify, history
<1>4. AgentsType'
  BY <1>1, <1>3, Undisturbed
<1>5. CountType'
  <2>1. Answers \/ Fails
    BY DEF Webhook, UpdateStatus, FindDuplicate, FindConversation, InsertConversation, Persist,
           ReadUnread, Count, Notify
  <2>2. faults' \in Nat
    BY <2>1 DEF Answers, Fails, TypeOK, CountType
  <2> QED
    BY <1>3, <2>2 DEF TypeOK, CountType
<1>6. /\ Phone(h) \in Phones /\ Item(h).id \in Inbound \cup Outbound
      /\ Item(h).kind = "message" => Item(h).id \in Inbound
      /\ Item(h).kind = "status" => Item(h).id \in Outbound /\ Item(h).status \in Told
      /\ hook[h].pc # "item" => Item(h).kind = "message"
  BY <1>1, AtHand
<1>7. TableType'
  <2>1. unread' \in [Phones -> Nat \cup {-1}]
    <3>1. CASE InsertConversation(h)
      BY <1>6, <3>1 DEF InsertConversation, TypeOK, TableType
    <3>2. CASE Count(h)
      <4>1. hook[h].seen \in Nat
        BY <1>1, AtHand DEF HookType
      <4> QED
        BY <1>6, <3>2, <4>1 DEF Count, WriteUnread, Incremented, TypeOK, TableType
    <3>3. CASE ~InsertConversation(h) /\ ~Count(h)
      BY <3>3 DEF Webhook, UpdateStatus, FindDuplicate, FindConversation, Persist, ReadUnread,
                  Notify, TypeOK, TableType
    <3> QED
      BY <3>1, <3>2, <3>3
  <2>2. row' \in [Inbound \cup Outbound -> {"absent"} \cup Told]
    <3>1. CASE UpdateStatus(h)
      BY <1>6, <3>1 DEF UpdateStatus, TypeOK, TableType
    <3>2. CASE Persist(h)
      BY <1>6, <3>2 DEF Persist, TypeOK, TableType, Told
    <3>3. CASE ~UpdateStatus(h) /\ ~Persist(h)
      BY <3>3 DEF Webhook, InsertConversation, FindDuplicate, FindConversation, Count, ReadUnread,
                  Notify, TypeOK, TableType
    <3> QED
      BY <3>1, <3>2, <3>3
  <2>3. note' \in [Phones -> {"absent", "unread", "read"}]
    BY <1>6 DEF Webhook, UpdateStatus, FindDuplicate, FindConversation, InsertConversation,
                Persist, ReadUnread, Count, Notify, TypeOK, TableType
  <2> QED
    BY <1>3, <2>1, <2>2, <2>3 DEF TypeOK, TableType
<1>8. HistoryType'
  <2>1. CASE UpdateStatus(h)
    BY <1>6, <2>1 DEF UpdateStatus, TypeOK, HistoryType
  <2>2. CASE Count(h)
    <3>1. Item(h).id \in Inbound
      BY <1>6, <2>2 DEF Count
    <3> QED
      BY <1>6, <2>2, <3>1 DEF Count, WriteUnread, TypeOK, HistoryType
  <2>3. CASE ~UpdateStatus(h) /\ ~Count(h)
    BY <2>3 DEF Webhook, InsertConversation, FindDuplicate, FindConversation, Persist, ReadUnread,
                Notify, TypeOK, HistoryType, history
  <2> QED
    BY <2>1, <2>2, <2>3
<1> QED
  BY <1>2, <1>4, <1>5, <1>7, <1>8 DEF TypeOK

\* A payload starts with the items it was delivered with.
LEMMA ReceiveType ==
    ASSUME TypeOK, NEW h \in Webhooks, Receive(h)
    PROVE  TypeOK'
<1>1. Grows
  BY DEF Receive, Grows, Known, Stored
<1>2. PICK payload \in Payloads :
          /\ payload # <<>>
          /\ hook' = [hook EXCEPT ![h] = [pc |-> "item", todo |-> payload, seen |-> 0]]
          /\ expected' = IF \A w \in Messages(payload) : Known(Party[w])
                         THEN expected \cup Messages(payload) ELSE expected
  BY DEF Receive
<1>3. payload \in Seq(Items)
  BY PayloadsAssumption
<1>4. HooksType'
  <2> DEFINE r == [pc |-> "item", todo |-> payload, seen |-> 0]
  <2>1. r \in HookType /\ Fits(r)
    BY <1>2, <1>3 DEF HookType, Fits
  <2>2. hook' = [hook EXCEPT ![h] = r]
    BY <1>2
  <2> HIDE DEF r
  <2> QED
    BY <1>1, <2>1, <2>2, HookStep
<1>5. AgentsType'
  BY <1>1, Undisturbed DEF Receive
<1>6. HistoryType'
  <2>1. Messages(payload) \subseteq Inbound
    <3> SUFFICES ASSUME NEW j \in DOMAIN payload, payload[j].kind = "message"
                 PROVE  payload[j].id \in Inbound
      BY DEF Messages
    <3>1. payload[j] \in Items
      BY <1>3
    <3> QED
      BY <3>1 DEF Items
  <2> QED
    BY <1>2, <2>1 DEF Receive, TypeOK, HistoryType
<1>7. TableType' /\ CountType'
  BY DEF Receive, TypeOK, TableType, CountType
<1> QED
  BY <1>4, <1>5, <1>6, <1>7 DEF TypeOK

\* The steps of a user or a sender.
AgentSteps(a) ==
    \/ \E p \in Phones : MarkRead(a, p)
    \/ \E w \in Outbound : SendToMeta(a, w)
    \/ ReadNotes(a) \/ FindForSend(a) \/ TouchForSend(a) \/ CreateForSend(a) \/ StoreSent(a)

\* What a request has in hand.
LEMMA InHand ==
    ASSUME TypeOK, NEW a \in Agents
    PROVE  /\ agent[a] \in AgentType /\ agent \in [Agents -> AgentType]
           /\ agent[a].pc # "idle" => agent[a].phone \in Phones
           /\ agent[a].pc \in {"find", "touch", "create", "store"} => agent[a].out \in Outbound
           /\ agent[a].pc \in {"notes", "touch", "store"} => Known(agent[a].phone)
BY DEF TypeOK, AgentsType, AgentType

\* They take no conversation and no row away, and go on with a record that fits.
LEMMA AgentGrows ==
    ASSUME TypeOK, NEW a \in Agents, AgentSteps(a)
    PROVE  /\ Grows
           /\ \A w \in Inbound : row'[w] = row[w]
           /\ unread' \in [Phones -> Nat \cup {-1}]
           /\ row' \in [Inbound \cup Outbound -> {"absent"} \cup Told]
<1>1. /\ unread \in [Phones -> Nat \cup {-1}]
      /\ row \in [Inbound \cup Outbound -> {"absent"} \cup Told]
  BY DEF TypeOK, TableType
<1>2. CASE \E p \in Phones : MarkRead(a, p)
  BY <1>1, <1>2 DEF MarkRead, Grows, Known, Stored
<1>3. CASE (\E w \in Outbound : SendToMeta(a, w)) \/ ReadNotes(a) \/ FindForSend(a)
  BY <1>1, <1>3 DEF SendToMeta, ReadNotes, FindForSend, Grows, Known, Stored
<1>4. CASE TouchForSend(a)
  <2>1. agent[a].phone \in Phones /\ agent[a].seen \in Nat
    BY <1>4, InHand DEF TouchForSend, AgentType
  <2> QED
    BY <1>1, <1>4, <2>1 DEF TouchForSend, WriteUnread, Grows, Known, Stored
<1>5. CASE CreateForSend(a)
  <2>1. agent[a].phone \in Phones
    BY <1>5, InHand DEF CreateForSend
  <2> QED
    BY <1>1, <1>5, <2>1 DEF CreateForSend, NewUnread, Grows, Known, Stored
<1>6. CASE StoreSent(a)
  <2>1. agent[a].out \in Outbound
    BY <1>6, InHand DEF StoreSent
  <2> QED
    BY <1>1, <1>6, <2>1, IdsAssumption DEF StoreSent, Grows, Known, Stored, Told
<1> QED
  BY <1>2, <1>3, <1>4, <1>5, <1>6 DEF AgentSteps

\* Every step of an agent leaves that agent with a well-typed request.
LEMMA AgentProceeds ==
    ASSUME TypeOK, NEW a \in Agents, AgentSteps(a)
    PROVE  UNCHANGED agent
           \/ \E r \in AgentType : agent' = [agent EXCEPT ![a] = r] /\ FitsAgent(r)
<1>0. /\ agent[a] \in AgentType /\ agent \in [Agents -> AgentType]
      /\ agent[a].pc # "idle" => agent[a].phone \in Phones
      /\ agent[a].pc \in {"find", "touch", "create", "store"} => agent[a].out \in Outbound
      /\ agent[a].pc \in {"notes", "touch", "store"} => Known(agent[a].phone)
  BY InHand
<1>1. unread \in [Phones -> Nat \cup {-1}]
  BY DEF TypeOK, TableType
<1>2. IdleAgent \in AgentType /\ FitsAgent(IdleAgent)
  BY DEF IdleAgent, AgentType, FitsAgent
<1>3. ASSUME Done(a)
      PROVE  agent' = [agent EXCEPT ![a] = IdleAgent]
  BY <1>3 DEF Done
<1>4. CASE \E p \in Phones : MarkRead(a, p)
  <2>1. PICK p \in Phones : MarkRead(a, p)
    BY <1>4
  <2> DEFINE r == [IdleAgent EXCEPT !.pc = "notes", !.phone = p]
  <2>2. r \in AgentType /\ r.phone # None /\ r.phone = p /\ r.pc = "notes"
    BY IdsAssumption DEF IdleAgent, AgentType
  <2>3. CASE UNCHANGED agent
    BY <2>3
  <2>4. CASE unread' = [unread EXCEPT ![p] = 0] /\ agent' = [agent EXCEPT ![a] = r]
    <3>1. unread'[p] >= 0
      BY <1>1, <2>4
    <3> QED
      BY <2>2, <2>4, <3>1 DEF FitsAgent
  <2> QED
    BY <2>1, <2>3, <2>4 DEF MarkRead
<1>5. CASE \E w \in Outbound : SendToMeta(a, w)
  <2>1. PICK w \in Outbound : SendToMeta(a, w)
    BY <1>5
  <2>2. PICK pc \in {"find", "store"} :
            /\ agent' = [agent EXCEPT ![a] =
                            [IdleAgent EXCEPT !.pc = pc, !.phone = Party[w], !.out = w]]
            /\ pc = "store" => Known(Party[w])
    BY <2>1 DEF SendToMeta
  <2> DEFINE r == [IdleAgent EXCEPT !.pc = pc, !.phone = Party[w], !.out = w]
  <2>3. Party[w] \in Phones /\ w # None /\ Party[w] # None /\ UNCHANGED unread
    BY <2>1, PartyAssumption, IdsAssumption DEF SendToMeta
  <2>4. r \in AgentType /\ r.phone = Party[w] /\ r.out = w /\ r.pc = pc
    BY <2>3 DEF IdleAgent, AgentType
  <2> QED
    BY <2>2, <2>3, <2>4 DEF FitsAgent, Known
<1>6. CASE ReadNotes(a) \/ StoreSent(a)
  BY <1>2, <1>3, <1>6 DEF ReadNotes, StoreSent
<1>7. CASE FindForSend(a)
  <2> DEFINE p == agent[a].phone
             r == [agent[a] EXCEPT !.pc = "touch", !.seen = unread[p]]
             q == [agent[a] EXCEPT !.pc = "create"]
  <2>1. p \in Phones /\ p # None /\ agent[a].out # None /\ UNCHANGED unread
    BY <1>0, <1>7, IdsAssumption DEF FindForSend
  <2>2. CASE Known(p) /\ agent' = [agent EXCEPT ![a] = r]
    <3>1. unread[p] \in Nat
      BY <1>1, <2>1, <2>2 DEF Known
    <3>2. r \in AgentType /\ r.pc = "touch" /\ r.phone = p /\ r.out = agent[a].out
      BY <1>0, <3>1 DEF AgentType
    <3>3. unread'[p] >= 0
      BY <2>1, <3>1
    <3>4. FitsAgent(r)
      BY <2>1, <3>2, <3>3 DEF FitsAgent
    <3> QED
      BY <2>2, <3>2, <3>4
  <2>3. CASE agent' = [agent EXCEPT ![a] = q]
    <3>1. q \in AgentType /\ q.pc = "create" /\ q.phone = p /\ q.out = agent[a].out
      BY <1>0 DEF AgentType
    <3> QED
      BY <2>1, <2>3, <3>1 DEF FitsAgent
  <2>4. CASE Done(a)
    BY <1>2, <1>3, <2>4
  <2> QED
    BY <1>7, <2>2, <2>3, <2>4, <1>0 DEF FindForSend
<1>8. CASE TouchForSend(a) \/ CreateForSend(a)
  <2> DEFINE p == agent[a].phone
  <2>1. p \in Phones /\ p # None /\ agent[a].out # None /\ agent[a].seen \in Nat
    BY <1>0, <1>8, IdsAssumption DEF TouchForSend, CreateForSend, AgentType
  <2>2. CASE Done(a)
    BY <1>2, <1>3, <2>2
  <2>3. CASE ~Done(a)
    <3>1. unread'[p] >= 0
      BY <1>1, <1>8, <2>1, <2>3 DEF TouchForSend, CreateForSend, WriteUnread, NewUnread
    <3>2. PICK n \in Nat :
              agent' = [agent EXCEPT ![a] = [agent[a] EXCEPT !.pc = "store", !.seen = n]]
      <4>1. [agent[a] EXCEPT !.pc = "store"]
                = [agent[a] EXCEPT !.pc = "store", !.seen = agent[a].seen]
        BY <1>0 DEF AgentType
      <4> QED
        BY <1>8, <2>1, <2>3, <4>1 DEF TouchForSend, CreateForSend
    <3> DEFINE r == [agent[a] EXCEPT !.pc = "store", !.seen = n]
    <3>3. r \in AgentType /\ r.pc = "store" /\ r.phone = p /\ r.out = agent[a].out
      BY <1>0 DEF AgentType
    <3> QED
      BY <2>1, <3>1, <3>2, <3>3 DEF FitsAgent
  <2> QED
    BY <2>2, <2>3
<1> QED
  BY <1>4, <1>5, <1>6, <1>7, <1>8 DEF AgentSteps

\* Every step of an agent keeps all types.
LEMMA AgentsTypes ==
    ASSUME TypeOK, NEW a \in Agents, AgentSteps(a)
    PROVE  TypeOK'
<1>1. Grows
  BY AgentGrows
<1>2. AgentsType'
  <2>1. CASE UNCHANGED agent
    BY <1>1, <2>1, Undisturbed
  <2>2. CASE \E r \in AgentType : agent' = [agent EXCEPT ![a] = r] /\ FitsAgent(r)
    BY <1>1, <2>2, AgentStep
  <2> QED
    BY <2>1, <2>2, AgentProceeds
<1>3. HooksType'
  <2>1. UNCHANGED hook
    BY DEF AgentSteps, MarkRead, SendToMeta, ReadNotes, FindForSend, TouchForSend, CreateForSend,
           StoreSent
  <2> QED
    BY <1>1, <2>1, Undisturbed
<1>4. UNCHANGED <<deliveries, crashes>> /\ reads' \in Nat
  <2>1. UNCHANGED <<deliveries, crashes>>
    BY DEF AgentSteps, MarkRead, SendToMeta, ReadNotes, FindForSend, TouchForSend, CreateForSend,
           StoreSent, bounds
  <2>2. reads' = reads \/ reads' = reads + 1
    BY DEF AgentSteps, MarkRead, SendToMeta, ReadNotes, FindForSend, TouchForSend, CreateForSend,
           StoreSent, bounds
  <2> QED
    BY <2>1, <2>2 DEF TypeOK, CountType
<1>5. faults' \in Nat
  <2>1. Answers \/ Fails
    BY DEF AgentSteps, MarkRead, SendToMeta, ReadNotes, FindForSend, TouchForSend, CreateForSend,
           StoreSent, bounds, Answers
  <2> QED
    BY <2>1 DEF Answers, Fails, TypeOK, CountType
<1>6. TableType'
  <2>1. note' \in [Phones -> {"absent", "unread", "read"}]
    BY DEF AgentSteps, MarkRead, SendToMeta, ReadNotes, FindForSend, TouchForSend, CreateForSend,
           StoreSent, NotedRead, TypeOK, TableType
  <2>2. accepted' \subseteq Outbound
    BY DEF AgentSteps, MarkRead, SendToMeta, ReadNotes, FindForSend, TouchForSend, CreateForSend,
           StoreSent, TypeOK, TableType
  <2> QED
    BY <2>1, <2>2, AgentGrows DEF TableType
<1>7. HistoryType'
  <2>1. CASE \E p \in Phones : MarkRead(a, p)
    BY <2>1 DEF MarkRead, TypeOK, HistoryType
  <2>2. CASE TouchForSend(a)
    <3>1. agent[a].phone \in Phones
      BY <2>2, InHand DEF TouchForSend
    <3> QED
      BY <2>2, <3>1 DEF TouchForSend, WriteUnread, TypeOK, HistoryType
  <2>3. CASE ~TouchForSend(a) /\ ~\E p \in Phones : MarkRead(a, p)
    BY <2>3 DEF AgentSteps, SendToMeta, ReadNotes, FindForSend, CreateForSend, StoreSent, history,
                TypeOK, HistoryType
  <2> QED
    BY <2>1, <2>2, <2>3
<1> QED
  BY <1>2, <1>3, <1>4, <1>5, <1>6, <1>7 DEF TypeOK, CountType

\* A notification read by itself and a crash keep the types.
LEMMA OthersType ==
    ASSUME TypeOK, (\E S \in SUBSET Phones : ReadNotifications(S)) \/ Crash
    PROVE  TypeOK'
<1>1. Grows
  BY DEF ReadNotifications, Crash, Grows, Known, Stored
<1>2. CASE \E S \in SUBSET Phones : ReadNotifications(S)
  <2>1. HooksType' /\ AgentsType'
    BY <1>1, <1>2, Undisturbed DEF ReadNotifications
  <2>2. TableType'
    BY <1>2 DEF ReadNotifications, NotedRead, TypeOK, TableType
  <2>3. CountType' /\ HistoryType'
    BY <1>2 DEF ReadNotifications, TypeOK, CountType, HistoryType, history
  <2> QED
    BY <2>1, <2>2, <2>3 DEF TypeOK
<1>3. CASE Crash
  <2>1. HooksType'
    BY <1>3 DEF Crash, IdleHook, HooksType, HookType
  <2>2. AgentsType'
    BY <1>3 DEF Crash, IdleAgent, AgentsType, AgentType
  <2>3. TableType' /\ CountType' /\ HistoryType'
    BY <1>3 DEF Crash, TypeOK, TableType, CountType, HistoryType, history
  <2> QED
    BY <2>1, <2>2, <2>3 DEF TypeOK
<1> QED
  BY <1>2, <1>3

\* Empty tables and idle requests are well typed.
LEMMA InitType == Init => TypeOK
<1> SUFFICES ASSUME Init
             PROVE  TypeOK
  OBVIOUS
<1>1. HooksType
  BY DEF Init, IdleHook, HooksType, HookType
<1>2. AgentsType
  BY DEF Init, IdleAgent, AgentsType, AgentType
<1>3. TableType /\ CountType /\ HistoryType
  BY DEF Init, TableType, CountType, HistoryType, Told
<1> QED
  BY <1>1, <1>2, <1>3 DEF TypeOK

\* Next, sorted by who moves.
LEMMA WhoMoves ==
    ASSUME Next
    PROVE  \/ \E h \in Webhooks : Receive(h)
           \/ \E h \in Webhooks : Webhook(h)
           \/ \E a \in Agents : AgentSteps(a)
           \/ (\E S \in SUBSET Phones : ReadNotifications(S)) \/ Crash
<1>1. CASE \E S \in {{p} : p \in Phones} \cup {Phones} : ReadNotifications(S)
  BY <1>1
<1>2. CASE ~\E S \in {{p} : p \in Phones} \cup {Phones} : ReadNotifications(S)
  BY <1>2 DEF Next, AgentSteps
<1> QED
  BY <1>1, <1>2

\* The types hold in every reachable state, for any phones, messages and payloads and
\* any number of them under way.
THEOREM TypeCorrect == Spec => []TypeOK
<1>1. TypeOK /\ [Next]_vars => TypeOK'
  <2> SUFFICES ASSUME TypeOK, [Next]_vars
               PROVE  TypeOK'
    OBVIOUS
  <2>1. CASE Next
    BY <2>1, WhoMoves, ReceiveType, WebhookType, AgentsTypes, OthersType
  <2>2. CASE UNCHANGED vars
    <3>1. Grows
      BY <2>2 DEF vars, Grows, Known, Stored
    <3>2. HooksType' /\ AgentsType'
      BY <2>2, <3>1, Undisturbed DEF vars
    <3>3. TableType' /\ CountType' /\ HistoryType'
      BY <2>2 DEF vars, bounds, history, TypeOK, TableType, CountType, HistoryType
    <3> QED
      BY <3>2, <3>3 DEF TypeOK
  <2> QED
    BY <2>1, <2>2
<1> QED
  BY <1>1, InitType, PTL DEF Spec

----------------------------------------------------------------------------
(* Side effects once *)

\* A payload that has stored its message and not yet counted it.
Owes(h) == hook[h].pc \in {"read", "count"}

\* Why a message is counted once: who is about to count it has stored it and is alone
\* in that, and it was not counted before.
OnceInv ==
    /\ SideEffectsOnce
    /\ \A h \in Webhooks : Owes(h) => counted[Item(h).id] = 0
    /\ \A g, h \in Webhooks : Owes(g) /\ Owes(h) /\ g # h => Item(g).id # Item(h).id

OnceIInv == TypeOK /\ OnceInv

\* A step that counts nothing and where nobody newly owes a count.
LEMMA OnceAside ==
    ASSUME OnceIInv, Grows, UNCHANGED counted,
           \A g \in Webhooks : Owes(g)' => Owes(g) /\ Item(g)' = Item(g)
    PROVE  OnceInv'
<1>1. SideEffectsOnce'
  BY DEF OnceIInv, OnceInv, SideEffectsOnce, Grows
<1> QED
  BY <1>1 DEF OnceIInv, OnceInv

\* Every step of a payload keeps OnceInv.
LEMMA OnceWebhook ==
    ASSUME OnceIInv, NEW h \in Webhooks, Webhook(h)
    PROVE  OnceInv'
<1>0. TypeOK /\ OnceInv
  BY DEF OnceIInv
<1>1. hook[h].pc # "idle" /\ Grows /\ Proceeds(h)
  BY <1>0, WebhookStep
<1>2. PICK r \in HookType :
          /\ Goes(h, r)
          /\ r.pc = "read" => hook[h].pc = "persist" /\ ~Stored(Item(h).id)
          /\ r.pc = "count" => hook[h].pc = "read"
  BY <1>1 DEF Proceeds
<1>3. \A g \in Webhooks : hook'[g] = IF g = h THEN r ELSE hook[g]
  BY <1>0, <1>2 DEF Goes, TypeOK, HooksType
<1>4. \A g \in Webhooks : g # h => (Owes(g)' <=> Owes(g)) /\ Item(g)' = Item(g)
  BY <1>3 DEF Owes, Item
<1>5. \A g \in Webhooks : Owes(g) => Stored(Item(g).id)
  BY <1>0 DEF Owes, TypeOK, HooksType
<1>6. (r.pc = "read" \/ r.pc = "count") => Item(h)' = Item(h)
  BY <1>2, <1>3 DEF Goes, Item
<1>7. Item(h).id \in Inbound \cup Outbound /\ (hook[h].pc # "item" => Item(h).id \in Inbound)
  BY <1>0, <1>1, AtHand
<1>8. counted \in [Inbound -> Nat]
  BY <1>0 DEF TypeOK, HistoryType
<1>9. CASE r.pc = "read"
  <2>1. UNCHANGED counted /\ hook[h].pc = "persist" /\ ~Stored(Item(h).id)
    <3>1. hook[h].pc = "persist"
      BY <1>2, <1>9
    <3> QED
      BY <1>2, <1>9, <3>1 DEF Webhook, UpdateStatus, FindDuplicate, FindConversation,
         InsertConversation, Persist, ReadUnread, Count, Notify, history
  <2>2. SideEffectsOnce'
    BY <1>0, <1>1, <2>1 DEF OnceInv, SideEffectsOnce, Grows
  <2>3. counted[Item(h).id] = 0
    BY <1>0, <1>7, <1>8, <2>1 DEF OnceInv, SideEffectsOnce
  <2>4. \A g \in Webhooks : g # h /\ Owes(g)' =>
            counted'[Item(g)'.id] = 0 /\ Item(g)'.id # Item(h)'.id
    BY <1>0, <1>4, <1>5, <1>6, <1>9, <2>1 DEF OnceInv
  <2> QED
    BY <1>0, <1>4, <1>6, <1>9, <2>1, <2>2, <2>3, <2>4 DEF OnceInv
<1>10. CASE r.pc # "read" /\ ~Count(h)
  <2>1. UNCHANGED counted
    BY <1>10 DEF Webhook, UpdateStatus, FindDuplicate, FindConversation, InsertConversation,
                 Persist, ReadUnread, Notify, history
  <2>2. Owes(h)' => Owes(h) /\ Item(h)' = Item(h)
    BY <1>2, <1>3, <1>6, <1>10 DEF Owes
  <2> QED
    BY <1>1, <1>4, <2>1, <2>2, OnceAside
<1>11. CASE r.pc # "read" /\ Count(h)
  <2>1. hook[h].pc = "count" /\ Owes(h)
    BY <1>11 DEF Count, Owes
  <2>2. ~Owes(h)'
    BY <1>2, <1>3, <1>11, <2>1 DEF Owes
  <2>3. \/ UNCHANGED counted
        \/ counted' = [counted EXCEPT ![Item(h).id] = counted[Item(h).id] + 1]
    BY <1>11 DEF Count
  <2>4. counted[Item(h).id] = 0 /\ Stored(Item(h).id) /\ UNCHANGED row
    BY <1>0, <1>5, <1>11, <2>1 DEF OnceInv, Count
  <2>5. \A w \in Inbound : w # Item(h).id => counted'[w] = counted[w]
    BY <1>8, <2>3
  <2>6. counted'[Item(h).id] <= 1
    BY <1>7, <1>8, <2>1, <2>3, <2>4
  <2>7. SideEffectsOnce'
    BY <1>0, <2>4, <2>5, <2>6 DEF OnceInv, SideEffectsOnce, Stored
  <2>8. \A g \in Webhooks : Owes(g)' => g # h /\ Owes(g) /\ Item(g)' = Item(g)
    BY <1>4, <2>2
  <2>9. ASSUME NEW g \in Webhooks, Owes(g)'
        PROVE  counted'[Item(g)'.id] = 0
    <3>1. Owes(g) /\ Item(g)' = Item(g) /\ Item(g).id # Item(h).id
      BY <1>0, <2>1, <2>8, <2>9 DEF OnceInv
    <3>2. Item(g).id \in Inbound
      BY <1>0, <3>1, AtHand DEF Owes
    <3> QED
      BY <1>0, <2>5, <3>1, <3>2 DEF OnceInv
  <2>10. \A f, g \in Webhooks : Owes(f)' /\ Owes(g)' /\ f # g => Item(f)'.id # Item(g)'.id
    BY <1>0, <2>8 DEF OnceInv
  <2> QED
    BY <2>7, <2>9, <2>10 DEF OnceInv
<1> QED
  BY <1>9, <1>10, <1>11

\* Every step keeps OnceInv.
LEMMA OnceNext == OnceIInv /\ [Next]_vars => OnceInv'
<1> SUFFICES ASSUME OnceIInv, [Next]_vars
             PROVE  OnceInv'
  OBVIOUS
<1>0. TypeOK
  BY DEF OnceIInv
<1>1. CASE \E h \in Webhooks : Receive(h)
  <2>1. PICK h \in Webhooks : Receive(h)
    BY <1>1
  <2>2. Grows /\ UNCHANGED counted
    BY <2>1 DEF Receive, Grows, Known, Stored
  <2>3. ASSUME NEW g \in Webhooks, Owes(g)'
        PROVE  Owes(g) /\ Item(g)' = Item(g)
    <3>1. PICK payload :
              hook' = [hook EXCEPT ![h] = [pc |-> "item", todo |-> payload, seen |-> 0]]
      BY <2>1 DEF Receive
    <3>2. hook'[g] = hook[g]
      BY <1>0, <2>3, <3>1 DEF Owes, TypeOK, HooksType
    <3> QED
      BY <2>3, <3>2 DEF Owes, Item
  <2> QED
    BY <2>2, <2>3, OnceAside
<1>2. CASE \E h \in Webhooks : Webhook(h)
  BY <1>2, OnceWebhook
<1>3. CASE \E a \in Agents : AgentSteps(a)
  <2>1. PICK a \in Agents : AgentSteps(a)
    BY <1>3
  <2>2. UNCHANGED <<hook, counted>>
    BY <2>1 DEF AgentSteps, MarkRead, SendToMeta, ReadNotes, FindForSend, TouchForSend,
                CreateForSend, StoreSent, history
  <2> QED
    BY <1>0, <2>1, <2>2, AgentGrows, OnceAside DEF Owes, Item
<1>4. CASE \E S \in SUBSET Phones : ReadNotifications(S)
  <2>1. Grows /\ UNCHANGED <<hook, counted>>
    BY <1>4 DEF ReadNotifications, Grows, Known, Stored, history
  <2> QED
    BY <2>1, OnceAside DEF Owes, Item
<1>5. CASE Crash
  <2>1. Grows /\ UNCHANGED counted /\ \A g \in Webhooks : ~Owes(g)'
    BY <1>5 DEF Crash, Grows, Known, Stored, Owes, IdleHook, history
  <2> QED
    BY <2>1, OnceAside
<1>6. CASE UNCHANGED vars
  <2>1. Grows /\ UNCHANGED <<hook, counted>>
    BY <1>6 DEF vars, history, Grows, Known, Stored
  <2> QED
    BY <2>1, OnceAside DEF Owes, Item
<1> QED
  BY <1>1, <1>2, <1>3, <1>4, <1>5, <1>6, WhoMoves

\* Nothing has been counted at first.
LEMMA OnceInit == Init => OnceInv
<1> SUFFICES ASSUME Init
             PROVE  OnceInv
  OBVIOUS
<1>1. \A w \in Inbound : counted[w] = 0
  BY DEF Init
<1>2. \A h \in Webhooks : ~Owes(h)
  BY DEF Init, Owes, IdleHook
<1> QED
  BY <1>1, <1>2 DEF OnceInv, SideEffectsOnce

\* Whatever is delivered again, together or out of order, and whoever dies meanwhile: a
\* message adds to the unread count of its conversation once at most.
THEOREM Once == Spec => []SideEffectsOnce
<1>1. Init => OnceInv
  BY OnceInit
<1>2. TypeOK /\ OnceInv /\ [Next]_vars => OnceInv'
  BY OnceNext DEF OnceIInv
<1>3. OnceInv => SideEffectsOnce
  BY DEF OnceInv
<1> QED
  BY <1>1, <1>2, <1>3, TypeCorrect, PTL DEF Spec

----------------------------------------------------------------------------
(* Unread counts are bounded *)

Total(p) == Cardinality(CountedFrom(p))

\* A value of unread_count somebody holds, and will write back or increment, is bounded
\* as well: that is why a stale write cannot break the bound.
HookBound(r)  == r.pc = "count" => r.seen <= Total(Party[Head(r.todo).id])
AgentBound(r) == r.pc = "touch" => r.seen <= Total(r.phone)

BoundInv ==
    /\ \A p \in Phones : IsFiniteSet(CountedFrom(p)) /\ unread[p] <= Total(p)
    /\ \A h \in Webhooks : HookBound(hook[h])
    /\ \A a \in Agents : AgentBound(agent[a])

BoundIInv == TypeOK /\ OnceInv /\ BoundInv

\* The messages of a phone are finitely many.
LEMMA TotalType ==
    ASSUME BoundInv, NEW p \in Phones
    PROVE  Total(p) \in Nat
BY FS_CardinalityType DEF BoundInv, Total

\* A step that counts nothing.
LEMMA BoundAside ==
    ASSUME BoundIInv, UNCHANGED counted,
           \A p \in Phones : unread'[p] <= Total(p),
           \A h \in Webhooks : HookBound(hook'[h]),
           \A a \in Agents : AgentBound(agent'[a])
    PROVE  BoundInv'
<1>1. \A p : CountedFrom(p)' = CountedFrom(p)
  BY DEF CountedFrom
<1>2. \A p : Total(p)' = Total(p)
  BY <1>1 DEF Total
<1> QED
  BY <1>1, <1>2 DEF BoundIInv, BoundInv, HookBound, AgentBound

\* A message is counted: the total of its phone grows by one.
LEMMA TotalGrows ==
    ASSUME BoundIInv, NEW w \in Inbound, counted[w] = 0,
           counted' = [counted EXCEPT ![w] = counted[w] + 1]
    PROVE  \A p \in Phones :
              /\ IsFiniteSet(CountedFrom(p)') /\ Total(p)' \in Nat
              /\ Total(p)' = IF p = Party[w] THEN Total(p) + 1 ELSE Total(p)
<1> SUFFICES ASSUME NEW p \in Phones
             PROVE  /\ IsFiniteSet(CountedFrom(p)') /\ Total(p)' \in Nat
                    /\ Total(p)' = IF p = Party[w] THEN Total(p) + 1 ELSE Total(p)
  OBVIOUS
<1>1. counted \in [Inbound -> Nat]
  BY DEF BoundIInv, TypeOK, HistoryType
<1>2. IsFiniteSet(CountedFrom(p)) /\ Total(p) \in Nat
  BY TotalType DEF BoundIInv, BoundInv
<1>3. CASE p = Party[w]
  <2>1. CountedFrom(p)' = CountedFrom(p) \cup {w} /\ w \notin CountedFrom(p)
    BY <1>1, <1>3 DEF CountedFrom
  <2>2. /\ IsFiniteSet(CountedFrom(p)')
        /\ Cardinality(CountedFrom(p)') = Cardinality(CountedFrom(p)) + 1
    BY <1>2, <2>1, FS_AddElement
  <2> QED
    BY <1>2, <1>3, <2>2 DEF Total
<1>4. CASE p # Party[w]
  <2>1. CountedFrom(p)' = CountedFrom(p)
    BY <1>1, <1>4 DEF CountedFrom
  <2> QED
    BY <1>2, <1>4, <2>1 DEF Total
<1> QED
  BY <1>3, <1>4

\* Every step of a payload keeps the bound, on the table and on what readers hold.
LEMMA BoundWebhook ==
    ASSUME BoundIInv, NEW h \in Webhooks, Webhook(h)
    PROVE  BoundInv'
<1>0. TypeOK /\ OnceInv /\ BoundInv
  BY DEF BoundIInv
<1>1. hook[h].pc # "idle" /\ Proceeds(h)
  BY <1>0, WebhookStep
<1>2. PICK r \in HookType : Goes(h, r) /\ (r.pc = "count" => hook[h].pc = "read")
  BY <1>1 DEF Proceeds
<1>3. \A g \in Webhooks : hook'[g] = IF g = h THEN r ELSE hook[g]
  BY <1>0, <1>2 DEF Goes, TypeOK, HooksType
<1>4. /\ Phone(h) \in Phones /\ Item(h).id \in Inbound \cup Outbound
      /\ hook[h].pc # "item" => Item(h).id \in Inbound
  BY <1>0, <1>1, AtHand
<1>5. /\ unread \in [Phones -> Nat \cup {-1}] /\ counted \in [Inbound -> Nat]
      /\ \A p \in Phones : Total(p) \in Nat
  BY <1>0, TotalType DEF TypeOK, TableType, HistoryType
<1>6. UNCHANGED agent
  BY DEF Webhook, UpdateStatus, FindDuplicate, FindConversation, InsertConversation, Persist,
         ReadUnread, Count, Notify
<1>7. CASE /\ counted' = [counted EXCEPT ![Item(h).id] = counted[Item(h).id] + 1]
           /\ Count(h) /\ unread' = [unread EXCEPT ![Phone(h)] = hook[h].seen + 1]
  <2>1. hook[h].pc = "count" /\ Item(h).id \in Inbound /\ counted[Item(h).id] = 0
    BY <1>0, <1>4, <1>7 DEF Count, OnceInv, Owes
  <2>2. hook[h].seen <= Total(Phone(h)) /\ hook[h].seen \in Nat
    BY <1>0, <1>1, <2>1, AtHand DEF BoundInv, HookBound, Phone, Item, HookType
  <2>3. \A p \in Phones :
            /\ IsFiniteSet(CountedFrom(p)') /\ Total(p)' \in Nat
            /\ Total(p)' = IF p = Phone(h) THEN Total(p) + 1 ELSE Total(p)
    BY <1>7, <2>1, TotalGrows DEF Phone
  <2>4. \A p \in Phones : Total(p) <= Total(p)'
    BY <1>5, <2>3
  <2>5. \A p \in Phones : unread'[p] <= Total(p)'
    BY <1>0, <1>4, <1>5, <1>7, <2>2, <2>3 DEF BoundInv
  <2>6. ASSUME NEW g \in Webhooks
        PROVE  HookBound(hook[g])'
    <3>1. SUFFICES ASSUME hook'[g].pc = "count"
                   PROVE  hook'[g].seen <= Total(Party[Head(hook[g].todo).id])'
      BY DEF HookBound
    <3>2. hook'[g] = hook[g]
      BY <1>2, <1>3, <2>1, <3>1
    <3>3. hook[g].pc = "count" /\ Phone(g) \in Phones /\ hook[g].seen \in Nat
      BY <1>0, <3>1, <3>2, AtHand DEF HookType
    <3>4. PICK p \in Phones : p = Phone(g)
      BY <3>3
    <3>5. hook[g].seen <= Total(p)
      BY <1>0, <3>3, <3>4 DEF BoundInv, HookBound, Phone, Item
    <3>6. hook[g].seen <= Total(p)'
      BY <1>5, <2>3, <2>4, <3>3, <3>5
    <3> QED
      BY <3>2, <3>4, <3>6 DEF Total, CountedFrom, Phone, Item
  <2>7. ASSUME NEW a \in Agents
        PROVE  AgentBound(agent[a])'
    <3>1. SUFFICES ASSUME agent[a].pc = "touch"
                   PROVE  agent[a].seen <= Total(agent[a].phone)'
      BY <1>6 DEF AgentBound
    <3>2. agent[a].phone \in Phones /\ agent[a].seen \in Nat
      BY <1>0, <3>1, InHand DEF AgentType
    <3>3. PICK p \in Phones : p = agent[a].phone
      BY <3>2
    <3>4. agent[a].seen <= Total(p)
      BY <1>0, <3>1, <3>3 DEF BoundInv, AgentBound
    <3>5. agent[a].seen <= Total(p)'
      BY <1>5, <2>3, <2>4, <3>2, <3>4
    <3> QED
      BY <1>6, <3>3, <3>5 DEF Total, CountedFrom
  <2> QED
    BY <2>3, <2>5, <2>6, <2>7 DEF BoundInv
<1>8. CASE UNCHANGED counted
  <2>1. \A p \in Phones : unread'[p] <= Total(p)
    <3>1. UNCHANGED unread \/ unread' = [unread EXCEPT ![Phone(h)] = 0]
      BY <1>4, <1>5, <1>8, <1>1 DEF Webhook, UpdateStatus, FindDuplicate, FindConversation,
         InsertConversation, Persist, ReadUnread, Notify, Count
    <3> QED
      BY <1>0, <1>4, <1>5, <3>1 DEF BoundInv
  <2>2. HookBound(r)
    <3> SUFFICES ASSUME r.pc = "count"
                 PROVE  r.seen <= Total(Phone(h))
      BY <1>2 DEF HookBound, Goes, Phone, Item
    <3>1. ReadUnread(h)
      BY <1>2 DEF Webhook, UpdateStatus, FindDuplicate, FindConversation, InsertConversation,
                  Persist, Count, Notify
    <3>2. hook'[h] = r
      BY <1>3
    <3>3. r.seen = unread[Phone(h)]
      BY <1>0, <3>1, <3>2 DEF ReadUnread, Abort, IdleHook, TypeOK, HooksType, HookType
    <3> QED
      BY <1>0, <1>4, <3>3 DEF BoundInv
  <2> QED
    BY <1>0, <1>3, <1>6, <1>8, <2>1, <2>2, BoundAside DEF BoundIInv, BoundInv
<1> QED
  BY <1>7, <1>8 DEF Webhook, UpdateStatus, FindDuplicate, FindConversation, InsertConversation,
     Persist, ReadUnread, Count, Notify, WriteUnread, Incremented, history

\* Every step keeps the bound, on the table and on what readers hold.
LEMMA BoundNext == BoundIInv /\ [Next]_vars => BoundInv'
<1> SUFFICES ASSUME BoundIInv, [Next]_vars
             PROVE  BoundInv'
  OBVIOUS
<1>0. TypeOK /\ BoundInv
  BY DEF BoundIInv
<1>1. unread \in [Phones -> Nat \cup {-1}] /\ \A p \in Phones : Total(p) \in Nat
  BY <1>0, TotalType DEF TypeOK, TableType
<1>2. CASE \E h \in Webhooks : Receive(h)
  <2>1. PICK h \in Webhooks : Receive(h)
    BY <1>2
  <2>2. UNCHANGED <<unread, agent, counted>>
    BY <2>1 DEF Receive
  <2>3. ASSUME NEW g \in Webhooks
        PROVE  HookBound(hook'[g])
    <3>1. PICK payload :
              hook' = [hook EXCEPT ![h] = [pc |-> "item", todo |-> payload, seen |-> 0]]
      BY <2>1 DEF Receive
    <3>2. hook'[g] = hook[g] \/ hook'[g].pc = "item"
      BY <1>0, <3>1 DEF TypeOK, HooksType
    <3> QED
      BY <1>0, <3>2 DEF BoundInv, HookBound
  <2> QED
    BY <1>0, <2>2, <2>3, BoundAside DEF BoundInv
<1>3. CASE \E h \in Webhooks : Webhook(h)
  BY <1>3, BoundWebhook
<1>4. CASE \E a \in Agents : AgentSteps(a)
  <2>1. PICK a \in Agents : AgentSteps(a)
    BY <1>4
  <2>2. UNCHANGED <<hook, counted>>
    BY <2>1 DEF AgentSteps, MarkRead, SendToMeta, ReadNotes, FindForSend, TouchForSend,
                CreateForSend, StoreSent, history
  <2>3. \A p \in Phones : unread'[p] <= Total(p)
    <3>1. CASE \E p \in Phones : MarkRead(a, p)
      BY <1>0, <1>1, <3>1 DEF MarkRead, BoundInv
    <3>2. CASE TouchForSend(a)
      <4>1. agent[a].phone \in Phones /\ agent[a].seen <= Total(agent[a].phone)
        BY <1>0, <3>2, InHand DEF TouchForSend, BoundInv, AgentBound
      <4> QED
        BY <1>0, <1>1, <3>2, <4>1 DEF TouchForSend, WriteUnread, BoundInv
    <3>3. CASE CreateForSend(a)
      <4>1. agent[a].phone \in Phones
        BY <1>0, <3>3, InHand DEF CreateForSend
      <4> QED
        BY <1>0, <1>1, <3>3, <4>1 DEF CreateForSend, NewUnread, BoundInv
    <3>4. CASE \/ \E w \in Outbound : SendToMeta(a, w)
               \/ ReadNotes(a) \/ FindForSend(a) \/ StoreSent(a)
      <4>1. UNCHANGED unread
        BY <3>4 DEF SendToMeta, ReadNotes, FindForSend, StoreSent
      <4> QED
        BY <1>0, <4>1 DEF BoundInv
    <3> QED
      BY <2>1, <3>1, <3>2, <3>3, <3>4 DEF AgentSteps
  <2>4. ASSUME NEW b \in Agents
        PROVE  AgentBound(agent'[b])
    <3>1. CASE FindForSend(a) /\ b = a
      <4>1. agent[a].phone \in Phones /\ agent[a] \in AgentType /\ agent \in [Agents -> AgentType]
        BY <1>0, <3>1, InHand DEF FindForSend
      <4>2. unread[agent[a].phone] <= Total(agent[a].phone)
        BY <1>0, <4>1 DEF BoundInv
      <4> QED
        BY <3>1, <4>1, <4>2 DEF FindForSend, Done, IdleAgent, AgentBound, AgentType
    <3>2. CASE ~(FindForSend(a) /\ b = a)
      <4>1. agent'[b] = agent[b] \/ agent'[b].pc # "touch"
        <5>1. agent[a] \in AgentType /\ agent \in [Agents -> AgentType]
          BY <1>0, InHand
        <5>2. CASE b = a /\ ~FindForSend(a)
          <6>1. CASE \E p \in Phones : MarkRead(a, p)
            <7>1. PICK p \in Phones : MarkRead(a, p)
              BY <6>1
            <7>2. \/ UNCHANGED agent
                  \/ agent' = [agent EXCEPT ![a] = [IdleAgent EXCEPT !.pc = "notes", !.phone = p]]
              BY <7>1 DEF MarkRead
            <7> QED
              BY <5>1, <5>2, <7>2 DEF IdleAgent
          <6>4. CASE ReadNotes(a) \/ StoreSent(a)
            BY <5>1, <5>2, <6>4 DEF ReadNotes, StoreSent, Done, IdleAgent
          <6>2. CASE \E w \in Outbound : SendToMeta(a, w)
            BY <5>1, <5>2, <6>2 DEF SendToMeta, IdleAgent
          <6>3. CASE TouchForSend(a) \/ CreateForSend(a)
            BY <5>1, <5>2, <6>3 DEF TouchForSend, CreateForSend, Done, IdleAgent, AgentType
          <6> QED
            BY <2>1, <5>2, <6>1, <6>2, <6>3, <6>4 DEF AgentSteps
        <5>3. CASE b # a
          BY <2>1, <5>1, <5>3 DEF AgentSteps, MarkRead, SendToMeta, ReadNotes, FindForSend,
             TouchForSend, CreateForSend, StoreSent, Done
        <5> QED
          BY <3>2, <5>2, <5>3
      <4> QED
        BY <1>0, <4>1 DEF BoundInv, AgentBound
    <3> QED
      BY <3>1, <3>2
  <2> QED
    BY <1>0, <2>2, <2>3, <2>4, BoundAside DEF BoundInv
<1>5. CASE \E S \in SUBSET Phones : ReadNotifications(S)
  BY <1>0, <1>5, BoundAside DEF ReadNotifications, BoundInv, history
<1>6. CASE Crash
  <2>1. UNCHANGED <<unread, counted>>
    BY <1>6 DEF Crash, history
  <2>2. /\ \A g \in Webhooks : HookBound(hook'[g])
        /\ \A a \in Agents : AgentBound(agent'[a])
    BY <1>6 DEF Crash, HookBound, AgentBound, IdleHook, IdleAgent
  <2> QED
    BY <1>0, <2>1, <2>2, BoundAside DEF BoundInv
<1>7. CASE UNCHANGED vars
  BY <1>0, <1>7, BoundAside DEF vars, history, BoundInv
<1> QED
  BY <1>2, <1>3, <1>4, <1>5, <1>6, <1>7, WhoMoves

\* Nobody holds an unread count at first.
LEMMA BoundInit == Init => BoundInv
<1> SUFFICES ASSUME Init
             PROVE  BoundInv
  OBVIOUS
<1>1. \A p : CountedFrom(p) = {}
  BY DEF Init, CountedFrom
<1>2. \A p : IsFiniteSet(CountedFrom(p)) /\ Total(p) = 0
  BY <1>1, FS_EmptySet DEF Total
<1>3. \A p \in Phones : unread[p] = -1
  BY DEF Init
<1>4. \A p \in Phones : unread[p] <= Total(p)
  BY <1>2, <1>3
<1>5. /\ \A h \in Webhooks : HookBound(hook[h])
      /\ \A a \in Agents : AgentBound(agent[a])
  BY DEF Init, HookBound, AgentBound, IdleHook, IdleAgent
<1> QED
  BY <1>2, <1>4, <1>5 DEF BoundInv

\* Through lost updates, stale writes, failing statements and crashes: the unread count
\* of a conversation never exceeds the number of messages received from its phone.
THEOREM Bounded == Spec => []UnreadBounded
<1>1. Init => BoundInv
  BY BoundInit
<1>2. TypeOK /\ OnceInv /\ BoundInv /\ [Next]_vars => BoundInv'
  BY BoundNext DEF BoundIInv
<1>3. Init => OnceInv
  BY OnceInit
<1>4. TypeOK /\ OnceInv /\ [Next]_vars => OnceInv'
  BY OnceNext DEF OnceIInv
<1>5. BoundInv => UnreadBounded
  BY DEF BoundInv, UnreadBounded, Total
<1> QED
  BY <1>1, <1>2, <1>3, <1>4, <1>5, TypeCorrect, PTL DEF Spec

----------------------------------------------------------------------------
(* Unread counts are exact until one is written back from an old value *)

\* The messages waiting are messages counted, none without a conversation, and an
\* unread_count that was never overwritten is their number.
ExactInv ==
    \A p \in Phones :
        /\ waiting[p] \subseteq CountedFrom(p)
        /\ ~Known(p) => waiting[p] = {}
        /\ Known(p) /\ p \notin stale => unread[p] = Cardinality(waiting[p])

\* The ways an unread_count is written: a message counted, a conversation read, created,
\* or touched by a sender.
Counts(h) ==
    /\ hook[h].pc = "count"
    /\ WriteUnread(Phone(h), hook[h].seen, hook[h].seen + 1)
    /\ waiting' = [waiting EXCEPT ![Phone(h)] = @ \cup {Item(h).id}]
    /\ counted' = [counted EXCEPT ![Item(h).id] = @ + 1]
Reads(p) ==
    /\ unread' = [unread EXCEPT ![p] = 0] /\ waiting' = [waiting EXCEPT ![p] = {}]
    /\ UNCHANGED <<counted, stale>>
Creates(p) ==
    /\ ~Known(p) /\ unread' = [unread EXCEPT ![p] = 0]
    /\ UNCHANGED <<waiting, counted, stale>>
Touches(a) ==
    /\ agent[a].pc = "touch" /\ WriteUnread(agent[a].phone, agent[a].seen, agent[a].seen)
    /\ UNCHANGED <<waiting, counted>>

\* No step writes an unread_count in another way.
LEMMA WhoWrites ==
    ASSUME TypeOK, [Next]_vars
    PROVE  \/ UNCHANGED <<unread, waiting, counted, stale>>
           \/ \E h \in Webhooks : Counts(h)
           \/ \E p \in Phones : Reads(p) \/ Creates(p)
           \/ \E a \in Agents : Touches(a)
<1>1. ASSUME NEW h \in Webhooks, Webhook(h)
      PROVE  \/ UNCHANGED <<unread, waiting, counted, stale>>
             \/ Counts(h) \/ \E p \in Phones : Creates(p)
  <2>1. Phone(h) \in Phones
    BY <1>1, WebhookStep, AtHand
  <2>2. CASE Count(h)
    BY <2>2 DEF Count, Counts, Incremented
  <2>3. CASE InsertConversation(h)
    BY <2>1, <2>3 DEF InsertConversation, Creates, history
  <2> QED
    BY <1>1, <2>2, <2>3 DEF Webhook, UpdateStatus, FindDuplicate, FindConversation, Persist,
       ReadUnread, Notify, history
<1>2. ASSUME NEW a \in Agents, AgentSteps(a)
      PROVE  \/ UNCHANGED <<unread, waiting, counted, stale>>
             \/ Touches(a) \/ \E p \in Phones : Reads(p) \/ Creates(p)
  <2>1. CASE \E p \in Phones : MarkRead(a, p)
    BY <2>1 DEF MarkRead, Reads
  <2>2. CASE TouchForSend(a)
    BY <2>2 DEF TouchForSend, Touches
  <2>3. CASE CreateForSend(a)
    <3>1. agent[a].phone \in Phones
      BY <2>3, InHand DEF CreateForSend
    <3> QED
      BY <2>3, <3>1 DEF CreateForSend, Creates, NewUnread, history
  <2> QED
    BY <1>2, <2>1, <2>2, <2>3 DEF AgentSteps, SendToMeta, ReadNotes, FindForSend, StoreSent,
       history
<1>3. CASE \E h \in Webhooks : Receive(h)
  BY <1>3 DEF Receive
<1>4. CASE (\E S \in SUBSET Phones : ReadNotifications(S)) \/ Crash \/ UNCHANGED vars
  BY <1>4 DEF ReadNotifications, Crash, vars, history
<1> QED
  BY <1>1, <1>2, <1>3, <1>4, WhoMoves

\* A message that is counted was not waiting: it adds one to those who wait.
LEMMA OneMore ==
    ASSUME BoundIInv, ExactInv, NEW h \in Webhooks, Counts(h)
    PROVE  ExactInv'
<1>0. TypeOK /\ OnceInv /\ BoundInv
  BY DEF BoundIInv
<1>1. hook[h].pc = "count"
  BY DEF Counts
<1>2. /\ Phone(h) \in Phones /\ Item(h).id \in Inbound /\ hook[h].seen \in Nat
      /\ Known(Phone(h)) /\ counted[Item(h).id] = 0
  BY <1>0, <1>1, AtHand DEF HookType, TypeOK, HooksType, OnceInv, Owes
<1>3. PICK q \in Phones, w \in Inbound : q = Phone(h) /\ w = Item(h).id
  BY <1>2
<1>4. /\ unread \in [Phones -> Nat \cup {-1}] /\ counted \in [Inbound -> Nat]
      /\ waiting \in [Phones -> SUBSET Inbound]
  BY <1>0 DEF TypeOK, TableType, HistoryType
<1>5. /\ unread' = [unread EXCEPT ![q] = hook[h].seen + 1]
      /\ stale' = IF unread[q] = hook[h].seen THEN stale ELSE stale \cup {q}
      /\ waiting' = [waiting EXCEPT ![q] = @ \cup {w}]
      /\ counted' = [counted EXCEPT ![w] = @ + 1]
  BY <1>3 DEF Counts, WriteUnread
<1>6. w \notin waiting[q] /\ IsFiniteSet(waiting[q])
  <2>1. w \notin CountedFrom(q)
    BY <1>2, <1>3 DEF CountedFrom
  <2> QED
    BY <1>0, <2>1, FS_Subset DEF ExactInv, BoundInv
<1>7. w \in CountedFrom(q)'
  BY <1>2, <1>3, <1>4, <1>5 DEF CountedFrom, Phone
<1>8. \A p \in Phones : CountedFrom(p) \subseteq CountedFrom(p)'
  BY <1>2, <1>4, <1>5 DEF CountedFrom
<1>9. ASSUME NEW p \in Phones
      PROVE  /\ waiting'[p] \subseteq CountedFrom(p)'
             /\ ~Known(p)' => waiting'[p] = {}
             /\ Known(p)' /\ p \notin stale' => unread'[p] = Cardinality(waiting'[p])
  <2>1. CASE p # q
    BY <1>2, <1>4, <1>5, <1>8, <2>1 DEF ExactInv, Known
  <2>2. CASE p = q
    <3>1. unread'[p] = hook[h].seen + 1 /\ waiting'[p] = waiting[q] \cup {w}
      BY <1>2, <1>4, <1>5, <2>2
    <3>2. Cardinality(waiting[q] \cup {w}) = Cardinality(waiting[q]) + 1
      BY <1>6, FS_AddElement
    <3>3. p \notin stale' => unread[q] = hook[h].seen /\ q \notin stale
      BY <1>5, <2>2
    <3>4. p \notin stale' => unread'[p] = Cardinality(waiting'[p])
      BY <1>2, <1>3, <3>1, <3>2, <3>3 DEF ExactInv
    <3>5. waiting'[p] \subseteq CountedFrom(p)'
      BY <1>3, <1>7, <1>8, <2>2, <3>1 DEF ExactInv
    <3> QED
      BY <1>2, <1>3, <3>1, <3>4, <3>5 DEF Known
  <2> QED
    BY <2>1, <2>2
<1> QED
  BY <1>9 DEF ExactInv

\* Every step keeps unread counts exact, or marks them stale.
LEMMA ExactNext == BoundIInv /\ ExactInv /\ [Next]_vars => ExactInv'
<1> SUFFICES ASSUME BoundIInv, ExactInv, [Next]_vars
             PROVE  ExactInv'
  OBVIOUS
<1>0. TypeOK
  BY DEF BoundIInv
<1>1. /\ unread \in [Phones -> Nat \cup {-1}] /\ waiting \in [Phones -> SUBSET Inbound]
      /\ Cardinality({}) = 0
  BY <1>0, FS_EmptySet DEF TypeOK, TableType, HistoryType
<1>2. CASE UNCHANGED <<unread, waiting, counted, stale>>
  BY <1>2 DEF ExactInv, Known, CountedFrom
<1>3. CASE \E h \in Webhooks : Counts(h)
  BY <1>3, OneMore
<1>4. CASE \E p \in Phones : Reads(p)
  BY <1>1, <1>4 DEF Reads, ExactInv, Known, CountedFrom
<1>5. CASE \E p \in Phones : Creates(p)
  BY <1>1, <1>5 DEF Creates, ExactInv, Known, CountedFrom
<1>6. CASE \E a \in Agents : Touches(a)
  <2>1. PICK a \in Agents : Touches(a)
    BY <1>6
  <2>2. agent[a].phone \in Phones /\ agent[a].seen \in Nat /\ Known(agent[a].phone)
    BY <1>0, <2>1, InHand DEF Touches, AgentType
  <2> QED
    BY <1>1, <2>1, <2>2 DEF Touches, WriteUnread, ExactInv, Known, CountedFrom
<1> QED
  BY <1>0, <1>2, <1>3, <1>4, <1>5, <1>6, WhoWrites

\* However messages are delivered, read and answered together, and whatever fails: the
\* unread count of a conversation is the number of messages counted since it was read,
\* until it is once written back from a value that was no longer current.
THEOREM CountIsExact == Spec => []UnreadExact
<1>1. Init => OnceInv /\ BoundInv
  BY OnceInit, BoundInit
<1>2. TypeOK /\ OnceInv /\ BoundInv /\ [Next]_vars => OnceInv' /\ BoundInv'
  BY OnceNext, BoundNext DEF OnceIInv, BoundIInv
<1>3. Init => ExactInv
  BY DEF Init, ExactInv, Known
<1>4. TypeOK /\ OnceInv /\ BoundInv /\ ExactInv /\ [Next]_vars => ExactInv'
  BY ExactNext DEF BoundIInv
<1>5. ExactInv => UnreadExact
  BY DEF ExactInv, UnreadExact
<1> QED
  BY <1>1, <1>2, <1>3, <1>4, <1>5, TypeCorrect, PTL DEF Spec

----------------------------------------------------------------------------
(* A notification has a message behind it *)

\* Somebody has read the conversation of p and is about to read its notification.
Attending(p) == \E a \in Agents : agent[a].pc = "notes" /\ agent[a].phone = p

\* A payload about to notify has its message waiting, unless the conversation was read
\* in between.
NotifyInv ==
    \A h \in Webhooks :
        hook[h].pc = "notify" /\ Phone(h) \notin crossed => waiting[Phone(h)] # {}

\* A notification that asks for attention has a message behind it, or somebody at work
\* on it.
NoteInv ==
    \A p \in Phones : Sound /\ note[p] = "unread" /\ p \notin crossed =>
        waiting[p] # {} \/ Attending(p)

NotesIInv == TypeOK /\ NotifyInv /\ NoteInv

\* A payload comes to notify by counting its message.
LEMMA NotifiesByCounting ==
    ASSUME TypeOK, NEW h \in Webhooks, Webhook(h), hook'[h].pc = "notify"
    PROVE  Count(h) /\ ~Abort(h)
<1>1. hook \in [Webhooks -> HookType]
  BY DEF TypeOK, HooksType
<1>2. ~NextItem(h) /\ ~Abort(h)
  BY <1>1 DEF NextItem, Abort, IdleHook
<1>3. /\ hook' # [hook EXCEPT ![h].pc = "find"] /\ hook' # [hook EXCEPT ![h].pc = "persist"]
      /\ hook' # [hook EXCEPT ![h].pc = "insert"] /\ hook' # [hook EXCEPT ![h].pc = "read"]
  BY <1>1 DEF HookType
<1>4. ~ReadUnread(h)
  BY <1>1, <1>2 DEF ReadUnread, HookType
<1> QED
  BY <1>2, <1>3, <1>4
     DEF Webhook, UpdateStatus, FindDuplicate, OnDuplicate, At, AfterFind, FindConversation,
         InsertConversation, Persist, Notify

\* Messages go on waiting while their conversation is not read, and a payload that
\* notifies has just counted one.
LEMMA NotifyWebhook ==
    ASSUME TypeOK, NotifyInv, NEW h \in Webhooks, Webhook(h)
    PROVE  /\ NotifyInv'
           /\ crossed \subseteq crossed' /\ \A p \in Phones : waiting[p] \subseteq waiting'[p]
<1>1. hook[h].pc # "idle" /\ Proceeds(h) /\ Phone(h) \in Phones
  BY WebhookStep, AtHand
<1>2. PICK r \in HookType : Goes(h, r)
  BY <1>1 DEF Proceeds
<1>3. \A g \in Webhooks : hook'[g] = IF g = h THEN r ELSE hook[g]
  BY <1>2 DEF Goes, TypeOK, HooksType
<1>4. waiting \in [Phones -> SUBSET Inbound]
  BY DEF TypeOK, HistoryType
<1>5. crossed \subseteq crossed' /\ \A p \in Phones : waiting[p] \subseteq waiting'[p]
  <2>1. CASE Count(h)
    BY <1>1, <1>4, <2>1 DEF Count
  <2>2. CASE ~Count(h)
    BY <2>2 DEF Webhook, UpdateStatus, FindDuplicate, FindConversation, InsertConversation,
       Persist, ReadUnread, Notify, history
  <2> QED
    BY <2>1, <2>2
<1>6. ASSUME NEW g \in Webhooks, g # h, hook'[g].pc = "notify", Phone(g)' \notin crossed'
      PROVE  waiting'[Phone(g)'] # {}
  <2>1. hook'[g] = hook[g]
    BY <1>3, <1>6
  <2>2. Phone(g)' = Phone(g) /\ Phone(g) \in Phones
    BY <1>6, <2>1, AtHand DEF Phone, Item
  <2> QED
    BY <1>5, <1>6, <2>1, <2>2 DEF NotifyInv
<1>7. ASSUME hook'[h].pc = "notify"
      PROVE  waiting'[Phone(h)'] # {}
  <2>1. r.pc = "notify" /\ hook' = [hook EXCEPT ![h] = r]
    BY <1>2, <1>3, <1>7 DEF Goes
  <2>2. Count(h) /\ waiting' = [waiting EXCEPT ![Phone(h)] = @ \cup {Item(h).id}]
    BY <1>7, NotifiesByCounting DEF Count
  <2>3. Phone(h)' = Phone(h)
    BY <1>2, <1>3, <2>1 DEF Goes, Phone, Item
  <2> QED
    BY <1>1, <1>4, <2>2, <2>3
<1> QED
  BY <1>5, <1>6, <1>7 DEF NotifyInv

\* Every step keeps NotifyInv.
LEMMA NotifyNext == TypeOK /\ NotifyInv /\ [Next]_vars => NotifyInv'
<1> SUFFICES ASSUME TypeOK, NotifyInv, [Next]_vars
             PROVE  NotifyInv'
  OBVIOUS
<1>1. CASE \E h \in Webhooks : Receive(h)
  <2>1. PICK h \in Webhooks : Receive(h)
    BY <1>1
  <2>2. PICK payload :
            hook' = [hook EXCEPT ![h] = [pc |-> "item", todo |-> payload, seen |-> 0]]
    BY <2>1 DEF Receive
  <2>3. \A g \in Webhooks : hook'[g] = hook[g] \/ hook'[g].pc = "item"
    BY <2>2 DEF TypeOK, HooksType
  <2>4. UNCHANGED <<waiting, crossed>>
    BY <2>1 DEF Receive
  <2> QED
    BY <2>3, <2>4 DEF NotifyInv, Phone, Item
<1>2. CASE \E h \in Webhooks : Webhook(h)
  BY <1>2, NotifyWebhook
<1>3. CASE \E a \in Agents : AgentSteps(a)
  <2>1. CASE \E a \in Agents, p \in Phones : MarkRead(a, p)
    <3>1. PICK a \in Agents, p \in Phones : MarkRead(a, p)
      BY <2>1
    <3>2. waiting \in [Phones -> SUBSET Inbound] /\ UNCHANGED hook
      BY <3>1 DEF TypeOK, HistoryType, MarkRead
    <3>3. ASSUME NEW g \in Webhooks, hook[g].pc = "notify", Phone(g) \notin crossed'
          PROVE  waiting'[Phone(g)] # {}
      <4>1. Phone(g) \in Phones
        BY <3>3, AtHand
      <4>2. crossed \subseteq crossed' /\ (Phone(g) = p => UNCHANGED waiting)
        BY <3>1, <3>3 DEF MarkRead, Notifying
      <4>3. waiting'[Phone(g)] = waiting[Phone(g)]
        BY <3>1, <3>2, <4>1, <4>2 DEF MarkRead
      <4> QED
        BY <3>3, <4>2, <4>3 DEF NotifyInv
    <3> QED
      BY <3>2, <3>3 DEF NotifyInv, Phone, Item
  <2>2. CASE ~\E a \in Agents, p \in Phones : MarkRead(a, p)
    <3>1. UNCHANGED <<hook, waiting, crossed>>
      BY <1>3, <2>2 DEF AgentSteps, SendToMeta, ReadNotes, FindForSend, TouchForSend,
         CreateForSend, StoreSent, history
    <3> QED
      BY <3>1 DEF NotifyInv, Phone, Item
  <2> QED
    BY <2>1, <2>2
<1>4. CASE \E S \in SUBSET Phones : ReadNotifications(S)
  BY <1>4 DEF ReadNotifications, history, NotifyInv, Phone, Item
<1>5. CASE Crash
  BY <1>5 DEF Crash, IdleHook, NotifyInv
<1>6. CASE UNCHANGED vars
  BY <1>6 DEF vars, history, NotifyInv, Phone, Item
<1> QED
  BY <1>1, <1>2, <1>3, <1>4, <1>5, <1>6, WhoMoves

\* A step that neither notifies nor reads anything: those who wait go on waiting.
LEMMA NoteAside ==
    ASSUME NoteInv, Sound' => Sound, crossed \subseteq crossed',
           \A p \in Phones : note'[p] = "unread" => note[p] = "unread",
           \A p \in Phones : waiting[p] \subseteq waiting'[p],
           \A p \in Phones : Sound' /\ note'[p] = "unread" /\ Attending(p) => Attending(p)'
    PROVE  NoteInv'
<1> SUFFICES ASSUME NEW p \in Phones, Sound', note'[p] = "unread", p \notin crossed'
             PROVE  waiting'[p] # {} \/ Attending(p)'
  BY DEF NoteInv
<1>1. Sound /\ note[p] = "unread" /\ p \notin crossed
  OBVIOUS
<1>2. waiting[p] # {} \/ Attending(p)
  BY <1>1 DEF NoteInv
<1> QED
  BY <1>2

\* Failures are never forgotten.
LEMMA SoundBefore ==
    ASSUME TypeOK, [Next]_vars, Sound'
    PROVE  Sound /\ UNCHANGED <<faults, crashes>>
<1>1. faults \in Nat /\ crashes \in Nat
  BY DEF TypeOK, CountType
<1>2. faults' \in {faults, faults + 1} /\ crashes' \in {crashes, crashes + 1}
  <2>1. CASE \E h \in Webhooks : Receive(h)
    BY <2>1 DEF Receive
  <2>2. CASE \E h \in Webhooks : Webhook(h)
    BY <2>2 DEF Webhook, UpdateStatus, FindDuplicate, FindConversation, InsertConversation,
       Persist, ReadUnread, Count, Notify, Answers, Fails
  <2>3. CASE \E a \in Agents : AgentSteps(a)
    BY <2>3 DEF AgentSteps, MarkRead, SendToMeta, ReadNotes, FindForSend, TouchForSend,
       CreateForSend, StoreSent, Answers, Fails, bounds
  <2>4. CASE (\E S \in SUBSET Phones : ReadNotifications(S)) \/ Crash \/ UNCHANGED vars
    BY <2>4 DEF ReadNotifications, Crash, vars, bounds
  <2> QED
    BY <2>1, <2>2, <2>3, <2>4, WhoMoves
<1> QED
  BY <1>1, <1>2 DEF Sound

\* Every step of a payload keeps NoteInv.
LEMMA NoteWebhook ==
    ASSUME NotesIInv, [Next]_vars, NEW h \in Webhooks, Webhook(h)
    PROVE  NoteInv'
<1>0. TypeOK /\ NotifyInv /\ NoteInv
  BY DEF NotesIInv
<1>1. /\ hook[h].pc # "idle" /\ Phone(h) \in Phones
      /\ note \in [Phones -> {"absent", "unread", "read"}]
  BY <1>0, WebhookStep, AtHand DEF TypeOK, TableType
<1>2. crossed \subseteq crossed' /\ \A p \in Phones : waiting[p] \subseteq waiting'[p]
  BY <1>0, NotifyWebhook
<1>3. UNCHANGED agent
  BY DEF Webhook, UpdateStatus, FindDuplicate, FindConversation, InsertConversation, Persist,
         ReadUnread, Count, Notify
<1>4. CASE Notify(h)
  <2> SUFFICES ASSUME NEW p \in Phones, Sound', note'[p] = "unread", p \notin crossed'
               PROVE  waiting'[p] # {} \/ Attending(p)'
    BY DEF NoteInv
  <2>1. UNCHANGED <<waiting, crossed>> /\ hook[h].pc = "notify" /\ Sound
    BY <1>0, <1>4, SoundBefore DEF Notify, history
  <2>2. CASE p = Phone(h)
    BY <1>0, <2>1, <2>2 DEF NotifyInv
  <2>3. CASE p # Phone(h)
    <3>1. note'[p] = note[p]
      BY <1>1, <1>4, <2>3 DEF Notify
    <3> QED
      BY <1>0, <1>3, <2>1, <3>1 DEF NoteInv, Attending
  <2> QED
    BY <2>2, <2>3
<1>5. CASE ~Notify(h)
  <2>1. UNCHANGED note
    BY <1>5 DEF Webhook, UpdateStatus, FindDuplicate, FindConversation, InsertConversation,
       Persist, ReadUnread, Count
  <2> QED
    BY <1>0, <1>2, <1>3, <2>1, SoundBefore, NoteAside DEF Attending
<1> QED
  BY <1>4, <1>5

\* Every step of a user or a sender keeps NoteInv.
LEMMA NoteAgents ==
    ASSUME NotesIInv, [Next]_vars, NEW a \in Agents, AgentSteps(a)
    PROVE  NoteInv'
<1>0. TypeOK /\ NoteInv /\ (Sound' => Sound /\ UNCHANGED <<faults, crashes>>)
  BY SoundBefore DEF NotesIInv
<1>1. /\ agent \in [Agents -> AgentType] /\ note \in [Phones -> {"absent", "unread", "read"}]
      /\ waiting \in [Phones -> SUBSET Inbound] /\ faults \in Nat
  BY <1>0 DEF TypeOK, AgentsType, TableType, HistoryType, CountType
<1>2. \A b \in Agents : b # a => agent'[b] = agent[b]
  BY <1>1 DEF AgentSteps, MarkRead, SendToMeta, ReadNotes, FindForSend, TouchForSend,
     CreateForSend, StoreSent, Done
<1>3. CASE \E p \in Phones : MarkRead(a, p)
  <2>1. PICK q \in Phones : MarkRead(a, q)
    BY <1>3
  <2>2. agent[a].pc = "idle" /\ UNCHANGED note
    BY <2>1 DEF MarkRead
  <2>3. \A p \in Phones : Attending(p) => Attending(p)'
    BY <1>2, <2>2 DEF Attending
  <2>4. Sound' => /\ waiting' = [waiting EXCEPT ![q] = {}] /\ crossed \subseteq crossed'
                  /\ agent' = [agent EXCEPT ![a] = [IdleAgent EXCEPT !.pc = "notes", !.phone = q]]
    BY <1>0, <1>1, <2>1 DEF MarkRead, Fails
  <2>5. Sound' => Attending(q)'
    <3>1. Sound' => agent'[a].pc = "notes" /\ agent'[a].phone = q
      BY <1>1, <2>4 DEF IdleAgent
    <3> QED
      BY <3>1 DEF Attending
  <2>6. Sound' => \A p \in Phones : p # q => waiting'[p] = waiting[p]
    BY <1>1, <2>4
  <2> QED
    BY <1>0, <2>2, <2>3, <2>4, <2>5, <2>6 DEF NoteInv
<1>4. CASE ReadNotes(a)
  <2>1. UNCHANGED <<waiting, crossed>>
    BY <1>4 DEF ReadNotes, history
  <2>2. agent[a].phone \in Phones
    BY <1>0, <1>4, InHand DEF ReadNotes
  <2>3. ASSUME Sound'
        PROVE  \A p \in Phones : note'[p] = "unread" => note[p] = "unread" /\ p # agent[a].phone
    BY <1>0, <1>1, <1>4, <2>2, <2>3 DEF ReadNotes, Fails, NotedRead
  <2>4. ASSUME NEW p \in Phones, Attending(p), p # agent[a].phone
        PROVE  Attending(p)'
    BY <1>2, <2>4 DEF Attending
  <2> QED
    BY <1>0, <2>1, <2>3, <2>4 DEF NoteInv
<1>5. CASE \/ \E w \in Outbound : SendToMeta(a, w)
           \/ FindForSend(a) \/ TouchForSend(a) \/ CreateForSend(a) \/ StoreSent(a)
  <2>1. UNCHANGED <<note, waiting, crossed>> /\ agent[a].pc # "notes"
    BY <1>5 DEF SendToMeta, FindForSend, TouchForSend, CreateForSend, StoreSent, history
  <2>2. \A p \in Phones : Attending(p) => Attending(p)'
    BY <1>2, <2>1 DEF Attending
  <2> QED
    BY <1>0, <2>1, <2>2, NoteAside
<1> QED
  BY <1>3, <1>4, <1>5 DEF AgentSteps

\* Every step keeps NoteInv.
LEMMA NoteNext == NotesIInv /\ [Next]_vars => NoteInv'
<1> SUFFICES ASSUME NotesIInv, [Next]_vars
             PROVE  NoteInv'
  OBVIOUS
<1>0. TypeOK /\ NoteInv
  BY DEF NotesIInv
<1>1. CASE \E h \in Webhooks : Receive(h)
  <2>1. UNCHANGED <<note, waiting, crossed, agent>>
    BY <1>1 DEF Receive
  <2> QED
    BY <1>0, <2>1, SoundBefore, NoteAside DEF Attending
<1>2. CASE \E S \in SUBSET Phones : ReadNotifications(S)
  <2>1. \A p \in Phones : note'[p] = "unread" => note[p] = "unread"
    BY <1>2 DEF ReadNotifications, NotedRead
  <2>2. UNCHANGED <<waiting, crossed, agent>>
    BY <1>2 DEF ReadNotifications, history
  <2> QED
    BY <1>0, <2>1, <2>2, SoundBefore, NoteAside DEF Attending
<1>3. CASE Crash
  <2>1. ~Sound'
    BY <1>0, <1>3 DEF Crash, Sound, TypeOK, CountType
  <2> QED
    BY <2>1 DEF NoteInv
<1>4. CASE UNCHANGED vars
  <2>1. UNCHANGED <<note, waiting, crossed, agent>>
    BY <1>4 DEF vars, history
  <2> QED
    BY <1>0, <2>1, SoundBefore, NoteAside DEF Attending
<1> QED
  BY <1>1, <1>2, <1>3, <1>4, NoteWebhook, NoteAgents, WhoMoves

\* However reads and notifications of one conversation overlap: when nothing failed and
\* nobody is at work on it, a notification that asks for attention has a message behind
\* it that nobody has read, unless the conversation was read while it was notified.
THEOREM NotesMeanMessages == Spec => []NoteMeansWaiting
<1>1. Init => NotifyInv /\ NoteInv
  BY DEF Init, IdleHook, NotifyInv, NoteInv
<1>2. TypeOK /\ NotifyInv /\ NoteInv /\ [Next]_vars => NotifyInv' /\ NoteInv'
  BY NotifyNext, NoteNext DEF NotesIInv
<1>3. NoteInv => NoteMeansWaiting
  BY DEF NoteInv, NoteMeansWaiting, Settled, Attending
<1> QED
  BY <1>1, <1>2, <1>3, TypeCorrect, PTL DEF Spec

----------------------------------------------------------------------------
(* A sent message shows the status told last *)

\* What one sender holds was accepted and has no row yet, and nobody else holds it; a
\* row of a sent message was accepted before, and shows the status processed last.
HeldOnce ==
    /\ \A a \in Agents : agent[a].out # None =>
          agent[a].out \in accepted /\ ~Stored(agent[a].out)
    /\ \A a, b \in Agents : agent[a].out # None /\ agent[a].out = agent[b].out => a = b
RowsAccepted == \A w \in Outbound : Stored(w) => w \in accepted

ShowIInv == TypeOK /\ HeldOnce /\ RowsAccepted /\ ToldIsShown

\* What a sender holds, when it holds something.
LEMMA HeldIsSent ==
    ASSUME TypeOK, NEW a \in Agents
    PROVE  agent[a].out \in Outbound \cup {None}
BY DEF TypeOK, AgentsType, AgentType

\* A step that stores no sent message, holds no new one and tells no status.
LEMMA ShowAside ==
    ASSUME ShowIInv, UNCHANGED <<told, early, accepted>>,
           \A w \in Outbound : row'[w] = row[w],
           \A a \in Agents : agent'[a].out \in {agent[a].out, None}
    PROVE  HeldOnce' /\ RowsAccepted' /\ ToldIsShown'
<1>0. TypeOK /\ HeldOnce /\ RowsAccepted /\ ToldIsShown
  BY DEF ShowIInv
<1>1. ASSUME NEW a \in Agents, agent'[a].out # None
      PROVE  agent'[a].out = agent[a].out /\ agent[a].out \in Outbound
  BY <1>0, <1>1, HeldIsSent
<1>2. HeldOnce'
  BY <1>0, <1>1 DEF HeldOnce, Stored
<1>3. RowsAccepted' /\ ToldIsShown'
  BY <1>0 DEF RowsAccepted, ToldIsShown, Stored
<1> QED
  BY <1>2, <1>3

\* Every step of a payload: it moves the rows of sent messages only with the status it
\* tells.
LEMMA ShowWebhook ==
    ASSUME ShowIInv, NEW h \in Webhooks, Webhook(h)
    PROVE  HeldOnce' /\ RowsAccepted' /\ ToldIsShown'
<1>0. TypeOK /\ HeldOnce /\ RowsAccepted /\ ToldIsShown
  BY DEF ShowIInv
<1>1. UNCHANGED <<agent, accepted>>
  BY DEF Webhook, UpdateStatus, FindDuplicate, FindConversation, InsertConversation, Persist,
         ReadUnread, Count, Notify
<1>2. /\ row \in [Inbound \cup Outbound -> {"absent"} \cup Told]
      /\ told \in [Outbound -> {"absent"} \cup Told]
  BY <1>0 DEF TypeOK, TableType, HistoryType
<1>3. CASE UpdateStatus(h)
  <2>1. Item(h).id \in Outbound /\ Item(h).status \in Told
    BY <1>0, <1>3, AtHand DEF UpdateStatus
  <2>2. PICK w \in Outbound, s \in Told : w = Item(h).id /\ s = Item(h).status
    BY <2>1
  <2>3. CASE UNCHANGED <<row, told, early>>
    BY <1>1, <2>3, ShowAside
  <2>4. CASE /\ row' = IF Stored(w) THEN [row EXCEPT ![w] = s] ELSE row
             /\ told' = [told EXCEPT ![w] = s]
             /\ early' = IF Stored(w) THEN early ELSE early \cup {w}
    <3>1. s # "absent"
      BY DEF Told
    <3>2. \A v \in Inbound \cup Outbound : Stored(v)' <=> Stored(v)
      BY <1>2, <2>4, <3>1 DEF Stored
    <3>3. HeldOnce' /\ RowsAccepted'
      BY <1>0, <1>1, <3>2, HeldIsSent DEF HeldOnce, RowsAccepted
    <3>4. ASSUME NEW v \in Outbound, v \notin early', told'[v] # "absent"
          PROVE  row'[v] = told'[v]
      <4>1. CASE v = w
        BY <1>2, <2>4, <3>4, <4>1
      <4>2. CASE v # w
        <5>1. v \notin early /\ told'[v] = told[v] /\ row'[v] = row[v]
          BY <1>2, <2>4, <3>4, <4>2
        <5> QED
          BY <1>0, <3>4, <5>1 DEF ToldIsShown
      <4> QED
        BY <4>1, <4>2
    <3> QED
      BY <3>3, <3>4 DEF ToldIsShown
  <2> QED
    BY <1>3, <2>2, <2>3, <2>4 DEF UpdateStatus, HasRow
<1>4. CASE Persist(h)
  <2>1. Item(h).id \in Inbound
    BY <1>0, <1>4, AtHand DEF Persist
  <2>2. \A w \in Outbound : row'[w] = row[w]
    BY <1>2, <1>4, <2>1, IdsAssumption DEF Persist
  <2> QED
    BY <1>1, <1>4, <2>2, ShowAside DEF Persist, history
<1>5. CASE \/ FindDuplicate(h) \/ FindConversation(h) \/ InsertConversation(h)
           \/ ReadUnread(h) \/ Count(h) \/ Notify(h)
  <2>1. UNCHANGED <<row, told, early>>
    BY <1>5 DEF FindDuplicate, FindConversation, InsertConversation, ReadUnread, Count, Notify,
       history
  <2> QED
    BY <1>1, <2>1, ShowAside
<1> QED
  BY <1>3, <1>4, <1>5 DEF Webhook

\* Every step of a user or a sender: a message is taken up once, when Meta accepts it,
\* and its row appears when it is put down.
LEMMA ShowAgents ==
    ASSUME ShowIInv, NEW a \in Agents, AgentSteps(a)
    PROVE  HeldOnce' /\ RowsAccepted' /\ ToldIsShown'
<1>0. TypeOK /\ HeldOnce /\ RowsAccepted /\ ToldIsShown
  BY DEF ShowIInv
<1>1. /\ agent \in [Agents -> AgentType] /\ accepted \subseteq Outbound
      /\ row \in [Inbound \cup Outbound -> {"absent"} \cup Told]
  BY <1>0 DEF TypeOK, AgentsType, TableType
<1>2. \A b \in Agents : b # a => agent'[b] = agent[b]
  BY <1>1 DEF AgentSteps, MarkRead, SendToMeta, ReadNotes, FindForSend, TouchForSend,
     CreateForSend, StoreSent, Done
<1>3. UNCHANGED <<told, early>>
  BY DEF AgentSteps, MarkRead, SendToMeta, ReadNotes, FindForSend, TouchForSend,
         CreateForSend, StoreSent, history
<1>4. CASE \E w \in Outbound : SendToMeta(a, w)
  <2>1. PICK w \in Outbound : SendToMeta(a, w)
    BY <1>4
  <2>2. UNCHANGED row /\ w \notin accepted /\ accepted' = accepted \cup {w}
    BY <2>1 DEF SendToMeta
  <2>3. agent'[a].out = w /\ w # None
    BY <1>1, <2>1, IdsAssumption DEF SendToMeta, IdleAgent
  <2>4. ~Stored(w)
    BY <1>0, <2>2 DEF RowsAccepted
  <2>5. \A b \in Agents : b # a /\ agent[b].out # None => agent[b].out # w
    BY <1>0, <2>2 DEF HeldOnce
  <2>6. HeldOnce'
    BY <1>0, <1>2, <2>2, <2>3, <2>4, <2>5 DEF HeldOnce, Stored
  <2>7. RowsAccepted' /\ ToldIsShown'
    BY <1>0, <1>3, <2>2 DEF RowsAccepted, ToldIsShown, Stored
  <2> QED
    BY <2>6, <2>7
<1>5. CASE StoreSent(a)
  <2>1. PICK w \in Outbound : w = agent[a].out /\ w # None /\ ~Stored(w) /\ w \in accepted
    <3>1. agent[a].out \in Outbound
      BY <1>0, <1>5, InHand DEF StoreSent
    <3>2. agent[a].out # None
      BY <3>1, IdsAssumption
    <3> QED
      BY <1>0, <3>1, <3>2 DEF HeldOnce
  <2>2. agent'[a].out = None /\ UNCHANGED accepted
    BY <1>1, <1>5 DEF StoreSent, Done, IdleAgent
  <2>3. UNCHANGED row \/ row' = [row EXCEPT ![w] = "sent"]
    BY <1>5, <2>1 DEF StoreSent
  <2>4. \A v \in Outbound : v # w => row'[v] = row[v]
    BY <1>1, <2>3
  <2>5. ASSUME NEW b \in Agents, agent'[b].out # None
        PROVE  agent'[b] = agent[b] /\ agent[b].out \in Outbound /\ agent[b].out # w
    <3>1. b # a /\ agent'[b] = agent[b]
      BY <1>2, <2>2, <2>5
    <3>2. agent[b].out # w
      BY <1>0, <2>1, <2>5, <3>1 DEF HeldOnce
    <3> QED
      BY <1>0, <2>5, <3>1, <3>2, HeldIsSent
  <2>6. HeldOnce'
    BY <1>0, <2>2, <2>4, <2>5 DEF HeldOnce, Stored
  <2>7. RowsAccepted'
    BY <1>0, <2>1, <2>2, <2>4 DEF RowsAccepted, Stored
  <2>8. w \in early \/ told[w] = "absent"
    <3>1. row[w] = "absent"
      BY <2>1 DEF Stored
    <3> QED
      BY <1>0, <3>1 DEF ToldIsShown
  <2>9. ToldIsShown'
    BY <1>0, <1>3, <2>4, <2>8 DEF ToldIsShown
  <2> QED
    BY <2>6, <2>7, <2>9
<1>6. CASE \/ \E p \in Phones : MarkRead(a, p)
           \/ ReadNotes(a) \/ FindForSend(a) \/ TouchForSend(a) \/ CreateForSend(a)
  <2>1. UNCHANGED <<row, accepted>>
    BY <1>6 DEF MarkRead, ReadNotes, FindForSend, TouchForSend, CreateForSend
  <2>2. agent'[a].out \in {agent[a].out, None}
    <3>1. CASE \E p \in Phones : MarkRead(a, p)
      <4>1. \/ UNCHANGED agent
            \/ \E p \in Phones :
                  agent' = [agent EXCEPT ![a] = [IdleAgent EXCEPT !.pc = "notes", !.phone = p]]
        BY <3>1 DEF MarkRead
      <4> QED
        BY <1>1, <4>1 DEF IdleAgent
    <3>2. CASE ReadNotes(a)
      BY <1>1, <3>2 DEF ReadNotes, Done, IdleAgent
    <3>3. CASE FindForSend(a)
      BY <1>1, <3>3 DEF FindForSend, Done, IdleAgent, AgentType
    <3>4. CASE TouchForSend(a) \/ CreateForSend(a)
      BY <1>1, <3>4 DEF TouchForSend, CreateForSend, Done, IdleAgent, AgentType
    <3> QED
      BY <1>6, <3>1, <3>2, <3>3, <3>4
  <2> QED
    BY <1>2, <1>3, <2>1, <2>2, ShowAside
<1> QED
  BY <1>4, <1>5, <1>6 DEF AgentSteps

\* Every step keeps the statuses shown.
LEMMA ShowNext == ShowIInv /\ [Next]_vars => HeldOnce' /\ RowsAccepted' /\ ToldIsShown'
<1> SUFFICES ASSUME ShowIInv, [Next]_vars
             PROVE  HeldOnce' /\ RowsAccepted' /\ ToldIsShown'
  OBVIOUS
<1>1. CASE (\E h \in Webhooks : Receive(h)) \/ (\E S \in SUBSET Phones : ReadNotifications(S))
  <2>1. UNCHANGED <<row, accepted, agent, told, early>>
    BY <1>1 DEF Receive, ReadNotifications, history
  <2> QED
    BY <2>1, ShowAside
<1>2. CASE Crash
  <2>1. UNCHANGED <<row, accepted, told, early>> /\ \A a \in Agents : agent'[a].out = None
    BY <1>2 DEF Crash, IdleAgent, history
  <2> QED
    BY <2>1, ShowAside
<1>3. CASE UNCHANGED vars
  BY <1>3, ShowAside DEF vars, history
<1> QED
  BY <1>1, <1>2, <1>3, ShowWebhook, ShowAgents, WhoMoves

\* However a send and the statuses of its message overlap, and whatever fails: the row of
\* a sent message shows the status that was processed last, unless one was processed
\* before the row was there.
THEOREM LastStatusShown == Spec => []ToldIsShown
<1>1. Init => HeldOnce /\ RowsAccepted /\ ToldIsShown
  BY DEF Init, IdleAgent, Stored, HeldOnce, RowsAccepted, ToldIsShown
<1>2. TypeOK /\ HeldOnce /\ RowsAccepted /\ ToldIsShown /\ [Next]_vars
          => HeldOnce' /\ RowsAccepted' /\ ToldIsShown'
  BY ShowNext DEF ShowIInv
<1> QED
  BY <1>1, <1>2, TypeCorrect, PTL DEF Spec

----------------------------------------------------------------------------
(* The promise of the inbox is kept *)

\* What the promise sees of the tables.
KnownPhones == {p \in Phones : Known(p)}
Arrived     == [w \in Inbound |-> InboxOf(w)]
Badges      == [p \in Phones |-> IF Known(p) THEN unread[p] ELSE 0]
Shown       == [w \in Outbound |-> row[w]]

\* A payload about to notify has counted its message.
NotedInv == \A h \in Webhooks : hook[h].pc = "notify" => counted[Item(h).id] > 0

PromiseInv == BoundIInv /\ ShowIInv /\ NotedInv

\* Every step keeps NotedInv: a payload comes to notify by counting, and nothing that was
\* counted is taken back.
LEMMA NotedNext == TypeOK /\ NotedInv /\ [Next]_vars => NotedInv'
<1> SUFFICES ASSUME TypeOK, NotedInv, [Next]_vars
             PROVE  NotedInv'
  OBVIOUS
<1>1. /\ hook \in [Webhooks -> HookType] /\ counted \in [Inbound -> Nat]
      /\ \A w \in Inbound : counted'[w] \in Nat /\ counted'[w] >= counted[w]
  <2>1. hook \in [Webhooks -> HookType] /\ counted \in [Inbound -> Nat]
    BY DEF TypeOK, HooksType, HistoryType
  <2>2. UNCHANGED counted \/ \E w : counted' = [counted EXCEPT ![w] = counted[w] + 1]
    BY WhoWrites DEF Counts, Reads, Creates, Touches
  <2>3. ASSUME NEW w, counted' = [counted EXCEPT ![w] = counted[w] + 1], NEW v \in Inbound
        PROVE  counted'[v] \in Nat /\ counted'[v] >= counted[v]
    BY <2>1, <2>3
  <2> QED
    BY <2>1, <2>2, <2>3
<1>2. ASSUME NEW g \in Webhooks, hook'[g] = hook[g], hook'[g].pc = "notify"
      PROVE  counted'[Item(g)'.id] > 0
  <2>1. Item(g)' = Item(g) /\ Item(g).id \in Inbound
    BY <1>2, AtHand DEF Item
  <2>2. counted[Item(g).id] > 0
    BY <1>2 DEF NotedInv
  <2> QED
    BY <1>1, <2>1, <2>2
<1>3. CASE \E h \in Webhooks : Receive(h)
  <2>1. PICK h \in Webhooks : \E payload :
            hook' = [hook EXCEPT ![h] = [pc |-> "item", todo |-> payload, seen |-> 0]]
    BY <1>3 DEF Receive
  <2>2. \A g \in Webhooks : hook'[g] = hook[g] \/ hook'[g].pc = "item"
    BY <1>1, <2>1
  <2> QED
    BY <1>2, <2>2 DEF NotedInv
<1>4. CASE \E h \in Webhooks : Webhook(h)
  <2>1. PICK h \in Webhooks : Webhook(h)
    BY <1>4
  <2>2. hook[h].pc # "idle" /\ Proceeds(h)
    BY <2>1, WebhookStep
  <2>3. PICK r \in HookType : Goes(h, r)
    BY <2>2 DEF Proceeds
  <2>4. \A g \in Webhooks : hook'[g] = IF g = h THEN r ELSE hook[g]
    BY <1>1, <2>3 DEF Goes
  <2>5. ASSUME hook'[h].pc = "notify"
        PROVE  counted'[Item(h)'.id] > 0
    <3>1. /\ Count(h) /\ counted' = [counted EXCEPT ![Item(h).id] = @ + 1]
          /\ Item(h).id \in Inbound
      BY <2>1, <2>2, <2>5, NotifiesByCounting, AtHand DEF Count
    <3>2. Item(h)' = Item(h)
      BY <2>3, <2>4, <2>5 DEF Goes, Item
    <3> QED
      BY <1>1, <3>1, <3>2
  <2>6. ASSUME NEW g \in Webhooks, hook'[g].pc = "notify"
        PROVE  counted'[Item(g)'.id] > 0
    <3>1. CASE g = h
      BY <2>5, <2>6, <3>1
    <3>2. CASE g # h
      BY <1>2, <2>4, <2>6, <3>2
    <3> QED
      BY <3>1, <3>2
  <2> QED
    BY <2>6 DEF NotedInv
<1>5. CASE (\E a \in Agents : AgentSteps(a)) \/ (\E S \in SUBSET Phones : ReadNotifications(S))
           \/ UNCHANGED vars
  <2>1. UNCHANGED hook
    BY <1>5 DEF AgentSteps, MarkRead, SendToMeta, ReadNotes, FindForSend, TouchForSend,
                CreateForSend, StoreSent, ReadNotifications, vars
  <2> QED
    BY <1>2, <2>1 DEF NotedInv
<1>6. CASE Crash
  BY <1>6 DEF Crash, IdleHook, NotedInv
<1> QED
  BY <1>3, <1>4, <1>5, <1>6, WhoMoves

\* Types, counts, senders and notifications, in every reachable state.
LEMMA PromiseHolds == Spec => []PromiseInv
<1>1. Init => /\ OnceInv /\ BoundInv /\ NotedInv
              /\ HeldOnce /\ RowsAccepted /\ ToldIsShown
  BY OnceInit, BoundInit
     DEF Init, IdleAgent, IdleHook, Stored, HeldOnce, RowsAccepted, ToldIsShown, NotedInv
<1>2. TypeOK /\ OnceInv /\ [Next]_vars => OnceInv'
  BY OnceNext DEF OnceIInv
<1>3. TypeOK /\ OnceInv /\ BoundInv /\ [Next]_vars => BoundInv'
  BY BoundNext DEF BoundIInv
<1>4. TypeOK /\ HeldOnce /\ RowsAccepted /\ ToldIsShown /\ [Next]_vars
          => HeldOnce' /\ RowsAccepted' /\ ToldIsShown'
  BY ShowNext DEF ShowIInv
<1> QED
  BY <1>1, <1>2, <1>3, <1>4, NotedNext, TypeCorrect, PTL
     DEF Spec, PromiseInv, BoundIInv, ShowIInv

\* What nobody sees of a step.
LEMMA InboxRests ==
    ASSUME UNCHANGED <<unread, row, note, accepted, counted>>
    PROVE  UNCHANGED Promise!vars
BY DEF Promise!vars, Promise!incoming, Promise!outgoing, Known, InboxOf, Stored

\* The messages the promise counts are those counted.
LEMMA SameCount ==
    ASSUME NEW p \in Phones
    PROVE  /\ Promise!CountedOf(p) = CountedFrom(p)
           /\ Promise!Cardinality(Promise!CountedOf(p)) = Total(p)
<1>1. Promise!CountedOf(p) = CountedFrom(p)
  BY DEF Promise!CountedOf, CountedFrom, InboxOf
<1>2. \A S : Promise!Cardinality(S) = Cardinality(S)
  BY DEF Promise!Cardinality, Cardinality
<1> QED
  BY <1>1, <1>2 DEF Total

\* What is told of a sent message.
LEMMA StatusTells ==
    ASSUME PromiseInv, NEW h \in Webhooks, UpdateStatus(h)
    PROVE  (\E w \in Outbound : Promise!Tell(w)) \/ UNCHANGED Promise!vars
<1>1. /\ Item(h).id \in Outbound /\ Item(h).status \in Told
      /\ row \in [Inbound \cup Outbound -> {"absent"} \cup Told]
  BY AtHand DEF UpdateStatus, PromiseInv, ShowIInv, TypeOK, TableType
<1>2. PICK w \in Outbound, s \in Told : w = Item(h).id /\ s = Item(h).status
  BY <1>1
<1>3. UNCHANGED <<unread, note, accepted, counted>>
  BY DEF UpdateStatus
<1>4. CASE UNCHANGED row
  BY <1>3, <1>4, InboxRests
<1>5. CASE Stored(w) /\ row' = [row EXCEPT ![w] = s]
  <2>1. Shown' = [Shown EXCEPT ![w] = s] /\ Shown[w] # "absent"
    BY <1>1, <1>5 DEF Shown, Stored
  <2>2. \A v \in Inbound : row'[v] = row[v]
    BY <1>1, <1>5, IdsAssumption
  <2>3. UNCHANGED <<KnownPhones, Arrived, Badges>>
    BY <1>3, <2>2 DEF KnownPhones, Arrived, Badges, Known, InboxOf, Stored
  <2> QED
    BY <1>3, <2>1, <2>3 DEF Promise!Tell, Promise!incoming, KnownPhones, Arrived, Badges, Shown
<1> QED
  BY <1>2, <1>4, <1>5 DEF UpdateStatus, HasRow

\* A conversation appears with an empty badge.
LEMMA ConversationMeets ==
    ASSUME TypeOK, NEW p \in Phones, ~Known(p), unread' = [unread EXCEPT ![p] = 0],
           UNCHANGED <<row, note, accepted, counted>>
    PROVE  Promise!Meet(p)
<1>1. unread \in [Phones -> Nat \cup {-1}]
  BY DEF TypeOK, TableType
<1>2. p \notin KnownPhones /\ KnownPhones' = KnownPhones \cup {p}
  BY <1>1 DEF KnownPhones, Known
<1>3. Badges' = Badges
  BY <1>1 DEF Badges, Known
<1>4. UNCHANGED <<Arrived, Shown>>
  BY DEF Arrived, Shown, InboxOf, Stored
<1> QED
  BY <1>2, <1>3, <1>4 DEF Promise!Meet, Promise!outgoing, KnownPhones, Arrived, Badges, Shown

\* A message whose row was not there arrives, once and uncounted.
LEMMA RowArrives ==
    ASSUME PromiseInv, NEW h \in Webhooks, Persist(h)
    PROVE  (\E w \in Inbound : Promise!Arrive(w)) \/ UNCHANGED Promise!vars
<1>1. TypeOK /\ SideEffectsOnce /\ hook[h].pc = "persist"
  BY DEF PromiseInv, BoundIInv, OnceInv, Persist
<1>2. /\ Item(h).id \in Inbound /\ Phone(h) \in Phones /\ Known(Phone(h))
      /\ row \in [Inbound \cup Outbound -> {"absent"} \cup Told]
      /\ counted \in [Inbound -> Nat]
  BY <1>1, AtHand DEF TypeOK, TableType, HooksType, HistoryType
<1>3. PICK w \in Inbound : w = Item(h).id
  BY <1>2
<1>4. UNCHANGED <<unread, note, accepted, counted>>
  BY DEF Persist, history
<1>5. CASE UNCHANGED row
  BY <1>4, <1>5, InboxRests
<1>6. CASE ~Stored(w) /\ row' = [row EXCEPT ![w] = "delivered"]
  <2>1. counted[w] = 0
    BY <1>1, <1>2, <1>6 DEF SideEffectsOnce
  <2>2. InboxOf(w) = "absent"
    BY <1>6, <2>1 DEF InboxOf
  <2>3. Arrived' = [Arrived EXCEPT ![w] = "stored"]
    <3>1. ASSUME NEW v \in Inbound
          PROVE  InboxOf(v)' = IF v = w THEN "stored" ELSE InboxOf(v)
      BY <1>2, <1>4, <1>6, <2>1 DEF InboxOf, Stored
    <3> QED
      BY <3>1 DEF Arrived
  <2>4. UNCHANGED <<KnownPhones, Badges, Shown>>
    <3>1. \A v \in Outbound : row'[v] = row[v]
      BY <1>2, <1>6, IdsAssumption
    <3> QED
      BY <1>4, <3>1 DEF KnownPhones, Badges, Shown, Known
  <2>5. Party[w] \in KnownPhones
    BY <1>2, <1>3 DEF KnownPhones, Phone
  <2> QED
    BY <1>4, <2>2, <2>3, <2>4, <2>5
       DEF Promise!Arrive, Promise!outgoing, KnownPhones, Arrived, Badges, Shown
<1> QED
  BY <1>3, <1>5, <1>6 DEF Persist

\* The unread count written is the badge said.
LEMMA BadgeSays ==
    ASSUME TypeOK, NEW p \in Phones, Known(p), NEW n \in Nat,
           unread' = [unread EXCEPT ![p] = n]
    PROVE  Badges' = [Badges EXCEPT ![p] = n] /\ UNCHANGED KnownPhones
<1>1. unread \in [Phones -> Nat \cup {-1}]
  BY DEF TypeOK, TableType
<1>2. ASSUME NEW q \in Phones
      PROVE  /\ unread'[q] = IF q = p THEN n ELSE unread[q]
             /\ Known(q)' <=> Known(q)
  BY <1>1 DEF Known
<1>3. ASSUME NEW q \in Phones
      PROVE  (IF Known(q) THEN unread[q] ELSE 0)' =
                IF q = p THEN n ELSE IF Known(q) THEN unread[q] ELSE 0
  BY <1>2
<1>4. Badges' = [q \in Phones |-> IF q = p THEN n ELSE IF Known(q) THEN unread[q] ELSE 0]
  BY <1>3 DEF Badges
<1>5. Badges' = [Badges EXCEPT ![p] = n]
  BY <1>4 DEF Badges
<1>6. UNCHANGED KnownPhones
  BY <1>2 DEF KnownPhones
<1> QED
  BY <1>5, <1>6

\* A message that is counted was there and uncounted, and the badge stays within the count.
LEMMA CountCounts ==
    ASSUME PromiseInv, NEW h \in Webhooks, Count(h)
    PROVE  (\E w \in Inbound : Promise!Count(w)) \/ UNCHANGED Promise!vars
<1>1. TypeOK /\ OnceInv /\ BoundInv /\ hook[h].pc = "count"
  BY DEF PromiseInv, BoundIInv, Count
<1>2. /\ Item(h).id \in Inbound /\ Phone(h) \in Phones /\ Known(Phone(h))
      /\ Stored(Item(h).id) /\ counted[Item(h).id] = 0 /\ hook[h].seen \in Nat
      /\ hook[h].seen <= Total(Phone(h))
  BY <1>1, AtHand
     DEF TypeOK, HooksType, HookType, OnceInv, Owes, BoundInv, HookBound, Phone, Item
<1>3. PICK w \in Inbound, p \in Phones : w = Item(h).id /\ p = Phone(h)
  BY <1>2
<1>4. /\ unread \in [Phones -> Nat \cup {-1}] /\ counted \in [Inbound -> Nat]
      /\ Total(p) \in Nat /\ Party[w] = p
  BY <1>1, <1>3, TotalType DEF TypeOK, TableType, HistoryType, Phone
<1>5. UNCHANGED <<row, note, accepted>>
  BY DEF Count
<1>6. CASE UNCHANGED <<unread, counted>>
  BY <1>5, <1>6, InboxRests
<1>7. CASE /\ unread' = [unread EXCEPT ![p] = hook[h].seen + 1]
           /\ counted' = [counted EXCEPT ![w] = @ + 1]
  <2>1. InboxOf(w) = "stored"
    BY <1>2, <1>3 DEF InboxOf
  <2>2. Arrived' = [Arrived EXCEPT ![w] = "counted"]
    <3>1. ASSUME NEW v \in Inbound
          PROVE  InboxOf(v)' = IF v = w THEN "counted" ELSE InboxOf(v)
      BY <1>2, <1>3, <1>4, <1>5, <1>7 DEF InboxOf, Stored
    <3> QED
      BY <3>1 DEF Arrived
  <2>3. Badges' = [Badges EXCEPT ![Party[w]] = hook[h].seen + 1]
    <3>1. Known(p) /\ hook[h].seen + 1 \in Nat
      BY <1>2, <1>3 DEF Known
    <3>2. Badges' = [Badges EXCEPT ![p] = hook[h].seen + 1]
      BY <1>1, <1>7, <3>1, BadgeSays
    <3> QED
      BY <1>4, <3>2
  <2>4. UNCHANGED <<KnownPhones, Shown>>
    BY <1>2, <1>3, <1>4, <1>5, <1>7 DEF KnownPhones, Shown, Known
  <2>5. hook[h].seen + 1 \in 1 .. Promise!Cardinality(Promise!CountedOf(Party[w])) + 1
    BY <1>2, <1>3, <1>4, SameCount
  <2>6. \E n \in 1 .. Promise!Cardinality(Promise!CountedOf(Party[w])) + 1 :
            Badges' = [Badges EXCEPT ![Party[w]] = n]
    BY <2>3, <2>5
  <2> QED
    BY <1>5, <2>1, <2>2, <2>4, <2>6
       DEF Promise!Count, Promise!outgoing, KnownPhones, Arrived, Badges, Shown
<1> QED
  BY <1>3, <1>6, <1>7 DEF Count, WriteUnread, Incremented

\* A badge is written back within the count.
LEMMA BadgeTakenBack ==
    ASSUME TypeOK, BoundInv, NEW p \in Phones, Known(p), NEW n \in Nat, n <= Total(p),
           unread' = [unread EXCEPT ![p] = n], UNCHANGED <<row, note, accepted, counted>>
    PROVE  Promise!TakeBack(p)
<1>1. unread \in [Phones -> Nat \cup {-1}] /\ Total(p) \in Nat
  BY TotalType DEF TypeOK, TableType
<1>2. UNCHANGED <<KnownPhones, Arrived, Shown>>
  BY <1>1 DEF KnownPhones, Arrived, Shown, Known, InboxOf, Stored
<1>3. Badges' = [Badges EXCEPT ![p] = n]
  BY BadgeSays
<1>4. n \in 0 .. Promise!Cardinality(Promise!CountedOf(p))
  BY <1>1, SameCount
<1>5. p \in KnownPhones
  BY DEF KnownPhones
<1>6. \E m \in 0 .. Promise!Cardinality(Promise!CountedOf(p)) : Badges' = [Badges EXCEPT ![p] = m]
  BY <1>3, <1>4
<1> QED
  BY <1>2, <1>5, <1>6
     DEF Promise!TakeBack, Promise!outgoing, KnownPhones, Arrived, Badges, Shown

\* What rings has been counted.
LEMMA NoteRings ==
    ASSUME PromiseInv, NEW h \in Webhooks, Notify(h)
    PROVE  (\E p \in Phones : Promise!Ring(p)) \/ UNCHANGED Promise!vars
<1>1. TypeOK /\ hook[h].pc = "notify" /\ UNCHANGED <<unread, row, accepted, counted>>
  BY DEF PromiseInv, BoundIInv, Notify, history
<1>2. Item(h).id \in Inbound /\ Phone(h) \in Phones /\ counted[Item(h).id] > 0
  BY <1>1, AtHand DEF PromiseInv, NotedInv
<1>3. Item(h).id \in Promise!CountedOf(Phone(h))
  BY <1>2, SameCount DEF CountedFrom, Phone
<1>4. UNCHANGED <<KnownPhones, Arrived, Badges, Shown>>
  BY <1>1 DEF KnownPhones, Arrived, Badges, Shown, Known, InboxOf, Stored
<1>5. CASE UNCHANGED note
  BY <1>1, <1>5, InboxRests
<1>6. CASE note' = [note EXCEPT ![Phone(h)] = "unread"]
  <2>1. UNCHANGED <<Promise!incoming, Promise!outgoing>>
    BY <1>1, <1>4
       DEF Promise!incoming, Promise!outgoing, KnownPhones, Arrived, Badges, Shown
  <2>2. Promise!CountedOf(Phone(h)) # {}
    BY <1>3
  <2>3. Promise!Ring(Phone(h))
    BY <1>6, <2>1, <2>2 DEF Promise!Ring
  <2> QED
    BY <1>2, <2>3
<1> QED
  BY <1>5, <1>6 DEF Notify

\* Notifications that are read ring no more.
LEMMA NotesHushed ==
    ASSUME NEW S \in SUBSET Phones, UNCHANGED <<unread, row, accepted, counted>>,
           note' = [p \in Phones |-> IF p \in S THEN NotedRead(p) ELSE note[p]]
    PROVE  Promise!Hush(S)
<1>1. note' = [p \in Phones |-> IF p \in S /\ note[p] = "unread" THEN "read" ELSE note[p]]
  BY DEF NotedRead
<1>2. UNCHANGED <<KnownPhones, Arrived, Badges, Shown>>
  BY DEF KnownPhones, Arrived, Badges, Shown, Known, InboxOf, Stored
<1> QED
  BY <1>1, <1>2
     DEF Promise!Hush, Promise!incoming, Promise!outgoing, KnownPhones, Arrived, Badges, Shown

\* Every step of a payload.
LEMMA WebhookKeepsPromise ==
    ASSUME PromiseInv, NEW h \in Webhooks, Webhook(h)
    PROVE  [Promise!Next]_(Promise!vars)
<1>1. TypeOK
  BY DEF PromiseInv, BoundIInv
<1>2. CASE UpdateStatus(h)
  BY <1>2, StatusTells DEF Promise!Next
<1>3. CASE FindDuplicate(h) \/ FindConversation(h) \/ ReadUnread(h)
  BY <1>3, InboxRests DEF FindDuplicate, FindConversation, ReadUnread, history
<1>4. CASE InsertConversation(h)
  <2>1. Phone(h) \in Phones /\ UNCHANGED <<row, note, accepted, counted>>
    BY <1>1, <1>4, AtHand DEF InsertConversation, history
  <2>2. PICK p \in Phones : p = Phone(h)
    BY <2>1
  <2>3. CASE ~Known(p) /\ unread' = [unread EXCEPT ![p] = 0]
    BY <1>1, <2>1, <2>3, ConversationMeets DEF Promise!Next
  <2>4. CASE UNCHANGED unread
    BY <2>1, <2>4, InboxRests
  <2> QED
    BY <1>4, <2>2, <2>3, <2>4 DEF InsertConversation
<1>5. CASE Persist(h)
  BY <1>5, RowArrives DEF Promise!Next
<1>6. CASE Count(h)
  BY <1>6, CountCounts DEF Promise!Next
<1>7. CASE Notify(h)
  BY <1>7, NoteRings DEF Promise!Next
<1> QED
  BY <1>2, <1>3, <1>4, <1>5, <1>6, <1>7 DEF Webhook

\* Every step of a user or a sender.
LEMMA AgentKeepsPromise ==
    ASSUME PromiseInv, NEW a \in Agents, AgentSteps(a)
    PROVE  [Promise!Next]_(Promise!vars)
<1>1. TypeOK /\ BoundInv /\ HeldOnce /\ RowsAccepted
  BY DEF PromiseInv, BoundIInv, ShowIInv
<1>2. /\ row \in [Inbound \cup Outbound -> {"absent"} \cup Told]
      /\ \A p \in Phones : Total(p) \in Nat
  BY <1>1, TotalType DEF TypeOK, TableType
<1>3. CASE \E p \in Phones : MarkRead(a, p)
  <2>1. PICK p \in Phones : MarkRead(a, p)
    BY <1>3
  <2>2. Known(p) /\ UNCHANGED <<row, note, accepted, counted>> /\ 0 <= Total(p)
    BY <1>2, <2>1 DEF MarkRead
  <2>3. CASE unread' = [unread EXCEPT ![p] = 0]
    BY <1>1, <2>2, <2>3, BadgeTakenBack DEF Promise!Next
  <2>4. CASE UNCHANGED unread
    BY <2>2, <2>4, InboxRests
  <2> QED
    BY <2>1, <2>3, <2>4 DEF MarkRead
<1>4. CASE \E w \in Outbound : SendToMeta(a, w)
  <2>1. PICK w \in Outbound : SendToMeta(a, w)
    BY <1>4
  <2>2. /\ w \notin accepted /\ accepted' = accepted \cup {w}
        /\ UNCHANGED <<unread, row, note, counted>>
    BY <2>1 DEF SendToMeta, history
  <2>3. UNCHANGED <<KnownPhones, Arrived, Badges, Shown>>
    BY <2>2 DEF KnownPhones, Arrived, Badges, Shown, Known, InboxOf, Stored
  <2>4. Promise!Submit(w)
    BY <2>2, <2>3 DEF Promise!Submit, Promise!incoming, KnownPhones, Arrived, Badges, Shown
  <2> QED
    BY <2>4 DEF Promise!Next
<1>5. CASE ReadNotes(a)
  <2>1. agent[a].phone \in Phones /\ UNCHANGED <<unread, row, accepted, counted>>
    BY <1>1, <1>5, InHand DEF ReadNotes, history
  <2>2. PICK p \in Phones : p = agent[a].phone
    BY <2>1
  <2>3. CASE UNCHANGED note
    BY <2>1, <2>3, InboxRests
  <2>4. CASE note' = [note EXCEPT ![p] = NotedRead(p)]
    <3>1. note' = [q \in Phones |-> IF q \in {p} THEN NotedRead(q) ELSE note[q]]
      BY <1>1, <2>4 DEF TypeOK, TableType
    <3> QED
      BY <2>1, <3>1, NotesHushed DEF Promise!Next
  <2> QED
    BY <1>5, <2>2, <2>3, <2>4 DEF ReadNotes
<1>6. CASE FindForSend(a)
  BY <1>6, InboxRests DEF FindForSend, history
<1>7. CASE TouchForSend(a)
  <2>1. /\ agent[a].phone \in Phones /\ Known(agent[a].phone) /\ agent[a].seen \in Nat
        /\ agent[a].seen <= Total(agent[a].phone)
    BY <1>1, <1>7, InHand DEF TouchForSend, AgentType, BoundInv, AgentBound
  <2>2. UNCHANGED <<row, note, accepted, counted>>
    BY <1>7 DEF TouchForSend
  <2>3. CASE UNCHANGED unread
    BY <2>2, <2>3, InboxRests
  <2>4. CASE unread' = [unread EXCEPT ![agent[a].phone] = agent[a].seen]
    BY <1>1, <2>1, <2>2, <2>4, BadgeTakenBack DEF Promise!Next
  <2> QED
    BY <1>7, <2>3, <2>4 DEF TouchForSend, WriteUnread
<1>8. CASE CreateForSend(a)
  <2>1. agent[a].phone \in Phones /\ UNCHANGED <<row, note, accepted, counted>>
    BY <1>1, <1>8, InHand DEF CreateForSend, history
  <2>2. PICK p \in Phones : p = agent[a].phone
    BY <2>1
  <2>3. CASE ~Known(p) /\ unread' = [unread EXCEPT ![p] = 0]
    BY <1>1, <2>1, <2>3, ConversationMeets DEF Promise!Next
  <2>4. CASE UNCHANGED unread
    BY <2>1, <2>4, InboxRests
  <2> QED
    BY <1>8, <2>2, <2>3, <2>4 DEF CreateForSend, NewUnread
<1>9. CASE StoreSent(a)
  <2>1. UNCHANGED <<unread, note, accepted, counted>> /\ agent[a].out \in Outbound
    BY <1>1, <1>9, InHand DEF StoreSent, history
  <2>2. PICK w \in Outbound : w = agent[a].out
    BY <2>1
  <2>3. w \in accepted /\ ~Stored(w)
    BY <1>1, <2>2, IdsAssumption DEF HeldOnce
  <2>4. CASE UNCHANGED row
    BY <2>1, <2>4, InboxRests
  <2>5. CASE row' = [row EXCEPT ![w] = "sent"]
    <3>1. Shown[w] = "absent" /\ Shown' = [Shown EXCEPT ![w] = "sent"]
      BY <1>2, <2>3, <2>5 DEF Shown, Stored
    <3>2. \A v \in Inbound : row'[v] = row[v]
      BY <1>2, <2>5, IdsAssumption
    <3>3. UNCHANGED <<KnownPhones, Arrived, Badges>>
      BY <2>1, <3>2 DEF KnownPhones, Arrived, Badges, Known, InboxOf, Stored
    <3>4. Promise!Appear(w)
      BY <2>1, <2>3, <3>1, <3>3
         DEF Promise!Appear, Promise!incoming, KnownPhones, Arrived, Badges, Shown
    <3> QED
      BY <3>4 DEF Promise!Next
  <2> QED
    BY <1>9, <2>2, <2>4, <2>5 DEF StoreSent
<1> QED
  BY <1>3, <1>4, <1>5, <1>6, <1>7, <1>8, <1>9 DEF AgentSteps

\* Every step of the inbox is a step of the promise, or a stutter.
LEMMA StepKeepsPromise ==
    ASSUME PromiseInv, [Next]_vars
    PROVE  [Promise!Next]_(Promise!vars)
<1>1. CASE \E h \in Webhooks : Receive(h)
  BY <1>1, InboxRests DEF Receive
<1>2. CASE \E h \in Webhooks : Webhook(h)
  BY <1>2, WebhookKeepsPromise
<1>3. CASE \E a \in Agents : AgentSteps(a)
  BY <1>3, AgentKeepsPromise
<1>4. CASE \E S \in SUBSET Phones : ReadNotifications(S)
  BY <1>4, NotesHushed DEF ReadNotifications, history, Promise!Next
<1>5. CASE Crash \/ UNCHANGED vars
  BY <1>5, InboxRests DEF Crash, vars, history
<1> QED
  BY <1>1, <1>2, <1>3, <1>4, <1>5, WhoMoves

\* Whatever is delivered again, together or out of order, whoever reads or writes meanwhile
\* and whatever fails, the inbox keeps its promise: a message received is stored and
\* counted once, a badge never says more than were counted, what rings has a message
\* behind it, and a message sent appears once and shows what was told of it.
THEOREM InboxKeepsPromise == Spec => KeepsInbox
<1>1. Init => Promise!Init
  BY DEF Init, Promise!Init, Known, InboxOf, Stored
<1> QED
  BY <1>1, PromiseHolds, StepKeepsPromise, PTL DEF Spec, KeepsInbox, Promise!Spec
=============================================================================
