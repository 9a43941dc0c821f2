------------------------------- MODULE PortalMeta -------------------------------
(***************************************************************************)
(* The Facebook connection of a portal account (portal-meta.service.ts):   *)
(* the OAuth state kept in memory (meta-oauth-state.store.ts), the         *)
(* callback that stores the connection, its pages and their forms, the     *)
(* choice of forms, and the disconnection.                                 *)
(*                                                                         *)
(* A row is looked for, then updated or inserted in a second statement; an *)
(* error of the look-up counts as not found.  The three Graph calls that   *)
(* exchange the code store nothing and are one step.                       *)
(*                                                                         *)
(* Left out: tokens and their encryption, names, the connect URL.          *)
(***************************************************************************)
EXTENDS Statements, SequencesExt

CONSTANTS Owners,       \* portal accounts
          States,       \* OAuth states, random and never drawn twice
          Links,        \* ids of rows of meta_connections
          FbPages,      \* Facebook pages
          FormsOn       \* FormsOn[p]: the lead forms of a page

\* None stands for no row: it is neither an account nor an id.
ASSUME MetaAssumption == None \notin Owners \cup Links

VARIABLES
    issued,     \* issued[s]: [owner, old], an entry of the store; None without one
    link,       \* link[o]: the id of the row of meta_connections, or None
    page,       \* page[o][p]: the connection_id of the row of meta_pages, or None
    form,       \* form[o][f]: is_linked of the row of meta_forms, or None
    calling,    \* calling[h]: a request under way
    bearers,    \* history: bearers[s], the account s was drawn for, then those whose
                \* callback passed with s
    drawn,      \* history: states drawn and ids inserted
    chosen,     \* history: chosen[o][f], the last choice since the row exists
    cutOff      \* history: accounts with a disconnection amid a callback

metaVars == <<issued, link, page, form, calling, bearers, drawn, chosen, cutOff>>

FbForms == UNION {FormsOn[p] : p \in FbPages}
Quiet   == [pc |-> "idle", owner |-> None, id |-> None, known |-> FALSE,
            pages |-> <<>>, forms |-> <<>>]

MetaInit == /\ issued = [s \in States |-> None] /\ bearers = [s \in States |-> <<>>]
            /\ link = [o \in Owners |-> None]
            /\ page = [o \in Owners |-> [p \in FbPages |-> None]]
            /\ form = [o \in Owners |-> [f \in FbForms |-> None]]
            /\ chosen = form /\ calling = [h \in Handlers |-> Quiet]
            /\ drawn = {} /\ cutOff = {}

AtMeta(h, pc) == calling[h].pc = pc
Now(h, r)     == calling' = [calling EXCEPT ![h] = r]
At(h, pc)     == Now(h, [calling[h] EXCEPT !.pc = pc])
Quits(h)      == Now(h, Quiet)
rows          == <<link, page, form, chosen, cutOff>>

----------------------------------------------------------------------------
(* connect-url and callback *)

Purged(entries) == [s \in States |-> IF entries[s] = None THEN None
                                     ELSE IF entries[s].old THEN None ELSE entries[s]]

\* getConnectUrl: expired entries are purged, a new one is kept.
ConnectUrl ==
    /\ Begins
    /\ States \ drawn # {}
    /\ \E o \in Owners, s \in {AnyOf(States \ drawn)} :
          /\ issued' = [Purged(issued) EXCEPT ![s] = [owner |-> o, old |-> FALSE]]
          /\ drawn' = drawn \cup {s} /\ bearers' = [bearers EXCEPT ![s] = <<o>>]
    /\ UNCHANGED <<rows, calling, faults>>

\* Ten minutes pass.
StateExpires ==
    /\ \E s \in States : /\ issued[s] # None
                         /\ issued' = [issued EXCEPT ![s].old = TRUE]
    /\ UNCHANGED <<rows, calling, bearers, drawn, counters>>

CallingBack(o) == \E h \in Handlers : calling[h].owner = o /\ calling[h].pc # "unlink"
Unlinking(o)   == \E h \in Handlers : calling[h].owner = o /\ calling[h].pc = "unlink"

\* mutant: the entry stays.
ConsumedNever(s) == Purged(issued)
\* consume: the entry goes whoever brings it.
Consumed(s) == [Purged(issued) EXCEPT ![s] = None]

\* mutant: the account of the entry is not compared.
PassesAnyone(s, o) == Purged(issued)[s] # None
\* consume: it passes for the account of the entry.
Passes(s, o) == Purged(issued)[s] # None /\ Purged(issued)[s].owner = o

Callback(h) ==
    /\ AtMeta(h, "idle") /\ Begins
    /\ \E o \in Owners, s \in States :
          /\ issued' = Consumed(s)
          /\ IF Passes(s, o)
             THEN /\ Now(h, [Quiet EXCEPT !.pc = "exchange", !.owner = o])
                  /\ bearers' = [bearers EXCEPT ![s] = Append(@, o)]
                  /\ cutOff' = IF Unlinking(o) THEN cutOff \cup {o} ELSE cutOff
             ELSE UNCHANGED <<calling, bearers, cutOff>>
    /\ UNCHANGED <<link, page, form, chosen, drawn, faults>>

\* exchangeCodeForUserToken, exchangeForLongLivedToken, getMeId.
Exchange(h) ==
    /\ AtMeta(h, "exchange")
    /\ \/ Answers /\ At(h, "findLink")
       \/ Fails /\ Quits(h)
    /\ UNCHANGED <<issued, bearers, drawn, rows, calls>>

\* upsertConnection.
FindLink(h) ==
    /\ AtMeta(h, "findLink")
    /\ \/ /\ Answers
          /\ Now(h, [calling[h] EXCEPT !.pc = "writeLink", !.id = link[calling[h].owner]])
       \/ Fails /\ At(h, "writeLink")
    /\ UNCHANGED <<issued, bearers, drawn, rows, calls>>

\* An update needs the row it found; an insert, that there is none yet.
WriteLink(h) ==
    /\ AtMeta(h, "writeLink")
    /\ LET r == calling[h]
           o == r.owner
       IN  \/ /\ r.id # None /\ link[o] = r.id /\ Answers
              /\ At(h, "list") /\ UNCHANGED <<link, drawn>>
           \/ /\ r.id = None /\ link[o] = None /\ Answers /\ Links \ drawn # {}
              /\ \E i \in {AnyOf(Links \ drawn)} :
                    /\ link' = [link EXCEPT ![o] = i] /\ drawn' = drawn \cup {i}
                    /\ Now(h, [r EXCEPT !.pc = "list", !.id = i])
           \/ /\ IF link[o] = r.id THEN Fails ELSE Answers
              /\ Quits(h) /\ UNCHANGED <<link, drawn>>
    /\ UNCHANGED <<issued, bearers, page, form, chosen, cutOff, calls>>

----------------------------------------------------------------------------
(* Pages and forms: a page that fails is skipped *)

\* listPages: whatever pages the Facebook account shows now.
ListPages(h) ==
    /\ AtMeta(h, "list")
    /\ \/ /\ Answers
          /\ \E ps \in SUBSET FbPages :
                Now(h, [calling[h] EXCEPT !.pc = "page", !.pages = SetToSeq(ps)])
       \/ Fails /\ Quits(h)
    /\ UNCHANGED <<issued, bearers, drawn, rows, calls>>

ThisPage(r) == Head(r.pages)
ThisForm(r) == Head(r.forms)
SkipPage(r) == [r EXCEPT !.pc = "page", !.pages = Tail(@), !.forms = <<>>]

\* upsertPage, its look-up; the loop ends without a page.
FindPage(h) ==
    /\ AtMeta(h, "page")
    /\ LET r == calling[h]
       IN  \/ r.pages = <<>> /\ Answers /\ Quits(h)
           \/ /\ r.pages # <<>> /\ Answers
              /\ Now(h, [r EXCEPT !.pc = "writePage",
                                  !.known = page[r.owner][ThisPage(r)] # None])
           \/ /\ r.pages # <<>> /\ Fails
              /\ Now(h, [r EXCEPT !.pc = "writePage", !.known = FALSE])
    /\ UNCHANGED <<issued, bearers, drawn, rows, calls>>

\* The connection must still exist; an update of a row that went changes none.
PageInserts(r) == ~r.known /\ page[r.owner][ThisPage(r)] = None /\ link[r.owner] = r.id
PageUpdates(r) == r.known /\ (page[r.owner][ThisPage(r)] # None => link[r.owner] = r.id)

WritePage(h) ==
    /\ AtMeta(h, "writePage")
    /\ LET r == calling[h]
           there == page[r.owner][ThisPage(r)] # None
       IN  \/ /\ PageInserts(r) \/ PageUpdates(r)
              /\ Answers /\ At(h, "forms")
              /\ page' = IF there \/ ~r.known
                         THEN [page EXCEPT ![r.owner][ThisPage(r)] = r.id] ELSE page
           \/ /\ IF PageInserts(r) \/ PageUpdates(r) THEN Fails ELSE Answers
              /\ Now(h, SkipPage(r)) /\ UNCHANGED page
    /\ UNCHANGED <<issued, bearers, drawn, link, form, chosen, cutOff, calls>>

\* listLeadForms: an error Facebook reports reads as no forms.
ListForms(h) ==
    /\ AtMeta(h, "forms")
    /\ LET r == calling[h]
       IN  \/ Answers /\ Now(h, [r EXCEPT !.pc = "form", !.forms = SetToSeq(FormsOn[ThisPage(r)])])
           \/ Fails /\ Now(h, SkipPage(r))
    /\ UNCHANGED <<issued, bearers, drawn, rows, calls>>

FindForm(h) ==
    /\ AtMeta(h, "form")
    /\ LET r == calling[h]
       IN  \/ r.forms = <<>> /\ Answers /\ Now(h, SkipPage(r))
           \/ /\ r.forms # <<>> /\ Answers
              /\ Now(h, [r EXCEPT !.pc = "writeForm",
                                  !.known = form[r.owner][ThisForm(r)] # None])
           \/ /\ r.forms # <<>> /\ Fails
              /\ Now(h, [r EXCEPT !.pc = "writeForm", !.known = FALSE])
    /\ UNCHANGED <<issued, bearers, drawn, rows, calls>>

\* upsertForm: an update leaves is_linked, an insert starts with false.
FormKept(r) == IF r.known THEN form[r.owner][ThisForm(r)] ELSE FALSE

WriteForm(h) ==
    /\ AtMeta(h, "writeForm")
    /\ LET r == calling[h]
           o == r.owner
           f == ThisForm(r)
           fits == r.known <=> form[o][f] # None
       IN  \/ /\ fits /\ Answers
              /\ form' = [form EXCEPT ![o][f] = FormKept(r)]
              /\ chosen' = IF r.known THEN chosen ELSE [chosen EXCEPT ![o][f] = FALSE]
              /\ Now(h, [r EXCEPT !.pc = "form", !.forms = Tail(@)])
           \/ /\ IF fits THEN Fails ELSE Answers
              /\ Now(h, SkipPage(r)) /\ UNCHANGED <<form, chosen>>
    /\ UNCHANGED <<issued, bearers, drawn, link, page, cutOff, calls>>

----------------------------------------------------------------------------
(* setFormLinked, disconnect, restart *)

SetFormLinked ==
    /\ Begins
    /\ \E o \in Owners, f \in FbForms, b \in BOOLEAN :
          /\ form[o][f] # None
          /\ form' = [form EXCEPT ![o][f] = b] /\ chosen' = [chosen EXCEPT ![o][f] = b]
    /\ UNCHANGED <<issued, bearers, drawn, link, page, calling, cutOff, faults>>

\* disconnect: the forms go first, then the connection and with it the pages.
DropForms(h) ==
    /\ AtMeta(h, "idle") /\ Begins
    /\ \E o \in Owners :
          \/ /\ Answers
             /\ form' = [form EXCEPT ![o] = [f \in FbForms |-> None]]
             /\ chosen' = [chosen EXCEPT ![o] = [f \in FbForms |-> None]]
             /\ cutOff' = IF CallingBack(o) THEN cutOff \cup {o} ELSE cutOff
             /\ Now(h, [Quiet EXCEPT !.pc = "unlink", !.owner = o])
          \/ Fails /\ UNCHANGED <<form, chosen, cutOff, calling>>
    /\ UNCHANGED <<issued, bearers, drawn, link, page>>

PagesAfter(o) == [page EXCEPT ![o] = [p \in FbPages |-> None]]

DropLink(h) ==
    /\ AtMeta(h, "unlink")
    /\ LET o == calling[h].owner
       IN  \/ /\ Answers
              /\ link' = [link EXCEPT ![o] = None] /\ page' = PagesAfter(o)
              /\ cutOff' = IF CallingBack(o) THEN cutOff \cup {o} ELSE cutOff
           \/ Fails /\ UNCHANGED <<link, page, cutOff>>
    /\ Quits(h) /\ UNCHANGED <<issued, bearers, drawn, form, chosen, calls>>

\* A restart forgets the states and every request.
Restart ==
    /\ Fails
    /\ issued' = [s \in States |-> None] /\ calling' = [h \in Handlers |-> Quiet]
    /\ UNCHANGED <<bearers, drawn, rows, calls>>

MetaNext ==
    \/ ConnectUrl \/ StateExpires \/ SetFormLinked \/ Restart
    \/ \E h \in Handlers : \/ Callback(h) \/ Exchange(h) \/ FindLink(h) \/ WriteLink(h)
                           \/ ListPages(h) \/ FindPage(h) \/ WritePage(h) \/ ListForms(h)
                           \/ FindForm(h) \/ WriteForm(h) \/ DropForms(h) \/ DropLink(h)

MetaSpec == MetaInit /\ calls = 0 /\ faults = 0 /\ [][MetaNext]_<<metaVars, counters>>

----------------------------------------------------------------------------
(* Properties *)

\* Types of the store, the rows and the requests.
MetaTypeOK ==
    /\ \A s \in States : issued[s] # None => issued[s].owner \in Owners /\ issued[s].old \in BOOLEAN
    /\ link \in [Owners -> Links \cup {None}]
    /\ page \in [Owners -> [FbPages -> Links \cup {None}]]
    /\ form \in [Owners -> [FbForms -> BOOLEAN \cup {None}]]
    /\ \A h \in Handlers : calling[h].owner \in Owners \cup {None}
    /\ cutOff \subseteq Owners /\ drawn \subseteq States \cup Links

\* An OAuth state that was drawn, and no other, lets one callback through, and only of the
\* account it was drawn for.  Pages belong to the connection their account has now; without
\* one there are no pages, and no forms either unless the disconnection crossed a callback.
\* A reconnection keeps what was chosen for a form.
FormsFollowConnection ==
    /\ \A s \in States : /\ bearers[s] # <<>> => s \in drawn
                         /\ Len(bearers[s]) <= 2
                         /\ \A i \in DOMAIN bearers[s] : bearers[s][i] = bearers[s][1]
    /\ \A o \in Owners :
          /\ \A p \in FbPages : page[o][p] \in {None, link[o]}
          /\ link[o] = None /\ o \notin cutOff => \A f \in FbForms : form[o][f] = None
          /\ form[o] = chosen[o]
=============================================================================
