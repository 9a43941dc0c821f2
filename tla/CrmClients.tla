------------------------------ MODULE CrmClients ------------------------------
(***************************************************************************)
(* Clients of the office (clients.service.ts): create, update, remove.     *)
(*                                                                         *)
(* Another client of the same owner with the e-mail or the ICE is looked   *)
(* for in two statements, then the row is written; two unique indexes      *)
(* (sql/008) refuse what a concurrent request put in between.  A look-up   *)
(* that fails counts as no duplicate.  The look-up compares an ICE as it   *)
(* is written, the index in upper case.                                    *)
(*                                                                         *)
(* Left out: names and telephones, the dates; e-mails are in lower case.   *)
(***************************************************************************)
EXTENDS Statements

CONSTANTS CrmIds, CrmOwners,
          CrmEmails,            \* addresses
          Ices, UpperOf         \* identifiers, and UpperOf[i] in upper case

\* None stands for a field without a value.
ASSUME CrmAssumption == None \notin CrmIds

VARIABLES
    crm,        \* crm[c]: a row of clients, or NoClient
    filing,     \* filing[h]: a create or update under way
    duplicates  \* history: <<of, rivals>> of requests refused as duplicates

crmVars == <<crm, filing, duplicates>>

NoClient == [owner |-> None, email |-> None, ice |-> None]
NoFiling == [pc |-> "idle", id |-> None, creates |-> FALSE, row |-> NoClient]

CrmInit == /\ crm = [c \in CrmIds |-> NoClient]
           /\ filing = [h \in Handlers |-> NoFiling] /\ duplicates = {}

Registered == {c \in CrmIds : crm[c] # NoClient}
FilingAt(h, pc)    == filing[h].pc = pc
FilingGoes(h, w)   == filing' = [filing EXCEPT ![h] = w]
FilingMoves(h, pc) == FilingGoes(h, [filing[h] EXCEPT !.pc = pc])

\* Rows the unique indexes set against a row.
Rivals(id, row) ==
    {c \in Registered \ {id} :
        /\ crm[c].owner = row.owner
        /\ \/ row.email # None /\ crm[c].email = row.email
           \/ row.ice # None /\ crm[c].ice # None /\ UpperOf[crm[c].ice] = UpperOf[row.ice]}

----------------------------------------------------------------------------
\* create, and update of a client that byIdOr404 finds: both go on with the e-mail.
FileClient(h) ==
    /\ FilingAt(h, "idle") /\ Begins
    /\ \E c \in CrmIds, e \in CrmEmails \cup {None}, i \in Ices \cup {None} :
          LET w == [NoFiling EXCEPT !.pc = "email", !.id = c, !.row.email = e, !.row.ice = i]
          IN  \/ /\ c \notin Registered /\ \A o \in Handlers : filing[o].id # c
                 /\ \E owner \in CrmOwners :
                       FilingGoes(h, [w EXCEPT !.creates = TRUE, !.row.owner = owner])
              \/ c \in Registered /\ FilingGoes(h, [w EXCEPT !.row.owner = crm[c].owner])
    /\ UNCHANGED <<crm, duplicates, faults>>

\* The rows a look-up goes through: .neq('id', id) in update.
Others(w) == {c \in Registered : crm[c].owner = w.row.owner /\ (w.creates \/ c # w.id)}

\* A look-up: refused with a duplicate, on without one or when it fails.
LookUp(h, found, next) ==
    \/ /\ Answers /\ found /\ FilingGoes(h, NoFiling)
       /\ duplicates' = duplicates \cup {<<filing[h].id, Rivals(filing[h].id, filing[h].row)>>}
    \/ Answers /\ ~found /\ FilingMoves(h, next) /\ UNCHANGED duplicates
    \/ Fails /\ FilingMoves(h, next) /\ UNCHANGED duplicates

EmailLookUp(h) ==
    /\ FilingAt(h, "email")
    /\ LET w == filing[h]
       IN  IF w.row.email = None THEN LookUp(h, FALSE, "ice")
           ELSE LookUp(h, \E c \in Others(w) : crm[c].email = w.row.email, "ice")
    /\ UNCHANGED <<crm, calls>>

IceLookUp(h) ==
    /\ FilingAt(h, "ice")
    /\ LET w == filing[h]
       IN  IF w.row.ice = None THEN LookUp(h, FALSE, "write")
           ELSE LookUp(h, \E c \in Others(w) : crm[c].ice = w.row.ice, "write")
    /\ UNCHANGED <<crm, calls>>

\* mutant: the look-ups alone keep clients apart.
RefusedNever(w) == FALSE
\* The unique indexes.
RefusedByIndex(w) == Rivals(w.id, w.row) # {}

\* The row is inserted or updated; an update of a client that is gone finds no row.
WriteClient(h) ==
    /\ FilingAt(h, "write")
    /\ LET w == filing[h]
           missing == ~w.creates /\ w.id \notin Registered
       IN  \/ /\ Answers /\ ~missing /\ ~RefusedByIndex(w)
              /\ crm' = [crm EXCEPT ![w.id] = w.row] /\ UNCHANGED duplicates
           \/ /\ Answers /\ ~missing /\ RefusedByIndex(w)
              /\ duplicates' = duplicates \cup {<<w.id, Rivals(w.id, w.row)>>}
              /\ UNCHANGED crm
           \/ (Fails \/ (Answers /\ missing)) /\ UNCHANGED <<crm, duplicates>>
    /\ FilingGoes(h, NoFiling)
    /\ UNCHANGED calls

\* remove.
RemoveClient ==
    /\ Begins
    /\ \E c \in Registered : crm' = [crm EXCEPT ![c] = NoClient]
    /\ UNCHANGED <<filing, duplicates, faults>>

CrmNext == \/ RemoveClient
           \/ \E h \in Handlers : FileClient(h) \/ EmailLookUp(h) \/ IceLookUp(h) \/ WriteClient(h)

CrmSpec == CrmInit /\ calls = 0 /\ faults = 0 /\ [][CrmNext]_<<crmVars, counters>>

----------------------------------------------------------------------------
(* Properties *)

\* Types of the rows.
CrmTypeOK ==
    \A c \in CrmIds : crm[c] # NoClient =>
        /\ crm[c].owner \in CrmOwners /\ crm[c].email \in CrmEmails \cup {None}
        /\ crm[c].ice \in Ices \cup {None}

\* Two clients of an owner never share an e-mail or an ICE, however their requests
\* interleave, and a request refused as a duplicate really had a rival, another client.
ClientsApart ==
    /\ \A c \in Registered : Rivals(c, crm[c]) = {}
    /\ \A d \in duplicates : d[2] # {}
================================================================================
