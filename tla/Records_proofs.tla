---------------------------- MODULE Records_proofs ----------------------------
(***************************************************************************)
(* Proofs about what the office keeps: accounts, clients, files, mails,    *)
(* documents and leads.  An administrator remains and the browsers show    *)
(* who is connected; the rest agrees with the indexes, with Cloudinary,    *)
(* with the mail servers, with its lines and with ClickUp, and what is     *)
(* listed of leads and mails agrees with itself.                           *)
(* For every set of rows, users, sockets and requests and every bound.     *)
(***************************************************************************)
EXTENDS StaffAccounts, CrmClients, MediaLibrary, OwnMail, CommercialDocs, ClickupLeads,
        Counting_proofs
----------------------------------------------------------------------------
(* Accounts of the office, and who is connected *)

\* Requests that rely on a role they have read.
Relies(d) ==
    /\ d.pc \in {"email", "count", "write"}
    /\ d.kind = "remove" \/ (d.kind = "update" /\ d.role # None)

\* A request has its target; a creation is alone with an id that is not used yet.
DeedInv ==
    \A h \in Handlers :
        /\ deed[h].pc # "idle" => deed[h].target \in Users /\ deed[h].kind # "none"
        /\ deed[h].pc = "idle" => deed[h] = IdleDeed
        /\ deed[h].kind = "create" =>
              /\ account[deed[h].target].state = "absent" /\ deed[h].email \in Emails
              /\ deed[h].was = None /\ deed[h].role \in Roles
              /\ \A o \in Handlers \ {h} : deed[o].target # deed[h].target
        /\ deed[h].kind \in {"update", "remove"} => account[deed[h].target].state # "absent"

\* While no change crossed another, the role a request has read is the role, and one
\* that takes the rights of an administrator away has counted another.
GuardInv ==
    ~raced =>
        /\ Admins # {}
        /\ \A h \in Handlers : Relies(deed[h]) =>
              /\ There(deed[h].target) /\ account[deed[h].target].role = deed[h].was
              /\ deed[h].pc = "write" /\ Losing(deed[h]) => Admins \ {deed[h].target} # {}

\* An account there is has an address, and no other account has it.
AddressInv ==
    /\ \A u \in Users : There(u) => account[u].email \in Emails
    /\ \A u, v \in Users : There(u) /\ There(v) /\ u # v => account[u].email # account[v].email

\* The sockets of a user are those the gateway authenticated for him.
SockInv ==
    /\ \A s \in Sockets : sock[s].state # "new" => sock[s].user \in Users
    /\ \A s \in Sockets, u \in Users :
          s \in presence[u] <=> sock[s].user = u /\ sock[s].state \in {"open", "ghost"}

\* Of a user whose events never waited together one event waits at most, and it says
\* what holds; when none waits the browsers know what holds.
WaitingInv ==
    \A u \in Users \ muddled :
        /\ \A e, f \in touching : e.user = u /\ f.user = u => e = f
        /\ \A e \in touching : e.user = u => e.online = IsOnline(u)
        /\ (\A e \in touching : e.user # u) => toldOnline[u] = IsOnline(u)

SInv == StaffTypeOK /\ DeedInv /\ GuardInv /\ AddressInv /\ SockInv /\ WaitingInv

\* The founders administer, each with an address of his own, and nobody is connected.
LEMMA InitSInv == StaffInit => SInv
<1> SUFFICES ASSUME StaffInit PROVE SInv
  OBVIOUS
<1> USE StaffAssumption
<1>1. StaffTypeOK
  <2>1. account \in [Users -> Account] /\ raced \in BOOLEAN
    <3>1. PICK mail \in [Founders -> Emails] :
             account = [u \in Users |->
                IF u \in Founders
                THEN [state |-> "there", role |-> "admin", email |-> mail[u]] ELSE NoAccount]
      BY DEF StaffInit
    <3>2. \A u \in Founders :
             [state |-> "there", role |-> "admin", email |-> mail[u]] \in Account
      BY DEF Account, Roles
    <3>3. NoAccount \in Account
      BY DEF Account, NoAccount
    <3> QED
      BY <3>1, <3>2, <3>3 DEF StaffInit
  <2>2. IdleDeed \in Deed
    BY DEF IdleDeed, Deed
  <2>3. deed \in [Handlers -> Deed] /\ sock \in [Sockets -> Sock]
    BY <2>2 DEF StaffInit, Sock
  <2> QED
    BY <2>1, <2>3 DEF StaffInit, StaffTypeOK
<1>2. DeedInv
  BY DEF StaffInit, DeedInv, IdleDeed
<1>3. GuardInv
  BY DEF StaffInit, GuardInv, Admins, There, Relies, IdleDeed
<1>4. AddressInv
  BY DEF StaffInit, AddressInv, There, NoAccount
<1>5. SockInv /\ WaitingInv
  BY DEF StaffInit, SockInv, WaitingInv, IsOnline
<1> QED
  BY <1>1, <1>2, <1>3, <1>4, <1>5 DEF SInv

\* What is known of the request in hand.
LEMMA InHand ==
    ASSUME SInv, NEW h \in Handlers, deed[h].pc # "idle"
    PROVE  /\ deed \in [Handlers -> Deed] /\ deed[h] \in Deed /\ IdleDeed \in Deed
           /\ account \in [Users -> Account] /\ deed[h].target \in Users
           /\ account[deed[h].target] \in Account
           /\ deed[h].kind \in {"create", "update", "remove"}
BY DEF SInv, StaffTypeOK, DeedInv, Deed, IdleDeed

\* FindAccount gives up, or goes on with the role it has read, an administrator's
\* loss to be counted.
LEMMA FindMoves ==
    ASSUME SInv, NEW h \in Handlers, FindAccount(h)
    PROVE  /\ UNCHANGED <<account, raced>>
           /\ \A o \in Handlers \ {h} : deed'[o] = deed[o]
           /\ \/ deed'[h] = IdleDeed
              \/ /\ There(deed[h].target) /\ deed'[h].was = account[deed[h].target].role
                 /\ deed'[h].kind = deed[h].kind /\ deed'[h].target = deed[h].target
                 /\ deed'[h].role = deed[h].role /\ deed'[h].email = deed[h].email
                 /\ deed'[h].pc \in {"email", "count", "write"}
                 /\ deed'[h].pc = "write" => ~Losing(deed'[h])
<1> DEFINE d == [deed[h] EXCEPT !.was = account[deed[h].target].role]
<1>1. deed \in [Handlers -> Deed] /\ deed[h] \in Deed
  BY InHand DEF FindAccount
<1>2. /\ UNCHANGED <<account, raced>>
      /\ \/ deed' = [deed EXCEPT ![h] = IdleDeed]
         \/ There(deed[h].target) /\ deed' = [deed EXCEPT ![h] = [d EXCEPT !.pc = "email"]]
         \/ There(deed[h].target) /\ deed' = [deed EXCEPT ![h] = Guarded(d)]
  BY <1>1 DEF FindAccount, Step, GivesUp, TouchesNothing, Deed
<1>3. \A pc \in {"email", "count", "write"} :
        LET e == [d EXCEPT !.pc = pc]
        IN  /\ e.was = account[deed[h].target].role /\ e.kind = deed[h].kind
            /\ e.target = deed[h].target /\ e.role = deed[h].role /\ e.email = deed[h].email
            /\ e.pc = pc /\ (Losing(e) <=> Losing(d))
  BY <1>1 DEF Deed, Losing
<1>4. Guarded(d) = [d EXCEPT !.pc = IF Losing(d) THEN "count" ELSE "write"]
  BY DEF Guarded
<1> HIDE DEF d
<1> QED
  BY <1>1, <1>2, <1>3, <1>4

\* CheckEmail gives up, or goes on with what it has; an administrator's loss is counted.
LEMMA CheckMoves ==
    ASSUME SInv, NEW h \in Handlers, CheckEmail(h)
    PROVE  /\ UNCHANGED <<account, raced>>
           /\ \A o \in Handlers \ {h} : deed'[o] = deed[o]
           /\ \/ deed'[h] = IdleDeed
              \/ /\ deed'[h].was = deed[h].was
                 /\ deed'[h].kind = deed[h].kind /\ deed'[h].target = deed[h].target
                 /\ deed'[h].role = deed[h].role /\ deed'[h].email = deed[h].email
                 /\ deed'[h].pc \in {"count", "write"}
                 /\ deed'[h].pc = "write" /\ deed[h].kind # "create" => ~Losing(deed'[h])
<1>1. deed \in [Handlers -> Deed] /\ deed[h] \in Deed
  BY InHand DEF CheckEmail
<1>2. /\ UNCHANGED <<account, raced>>
      /\ \/ deed' = [deed EXCEPT ![h] = IdleDeed]
         \/ deed[h].kind = "create" /\ deed' = [deed EXCEPT ![h] = [deed[h] EXCEPT !.pc = "write"]]
         \/ deed[h].kind # "create" /\ deed' = [deed EXCEPT ![h] = Guarded(deed[h])]
  BY <1>1 DEF CheckEmail, Step, GivesUp, TouchesNothing
<1>3. \A pc \in {"count", "write"} :
        LET e == [deed[h] EXCEPT !.pc = pc]
        IN  /\ e.was = deed[h].was /\ e.kind = deed[h].kind
            /\ e.target = deed[h].target /\ e.role = deed[h].role /\ e.email = deed[h].email
            /\ e.pc = pc /\ (Losing(e) <=> Losing(deed[h]))
  BY <1>1 DEF Deed, Losing
<1>4. Guarded(deed[h]) = [deed[h] EXCEPT !.pc = IF Losing(deed[h]) THEN "count" ELSE "write"]
  BY DEF Guarded
<1> QED
  BY <1>1, <1>2, <1>3, <1>4

\* The row a write leaves.
LEMMA WrittenRow ==
    ASSUME SInv, NEW h \in Handlers, deed[h].pc = "write", ~Refused(deed[h])
    PROVE  LET d == deed[h]
               r == Written(d)
           IN  /\ r \in Account
               /\ d.kind = "create" => r.state = "there" /\ r.role = d.role /\ r.email = d.email
               /\ d.kind = "remove" => r.state = "gone"
               /\ d.kind = "update" =>
                     /\ There(d.target) /\ r.state = "there"
                     /\ r.role = IF d.role = None THEN account[d.target].role ELSE d.role
                     /\ r.email = IF d.email = None THEN account[d.target].email ELSE d.email
<1>1. /\ deed[h] \in Deed /\ deed[h].target \in Users /\ account[deed[h].target] \in Account
      /\ deed[h].kind \in {"create", "update", "remove"}
  BY InHand
<1>2. CASE deed[h].kind = "create"
  BY <1>1, <1>2 DEF Written, Account, Deed
<1>3. CASE deed[h].kind = "remove"
  BY <1>1, <1>3 DEF Written, Account, NoAccount
<1>4. CASE deed[h].kind = "update"
  BY <1>1, <1>4 DEF Written, Account, Deed, Refused, There
<1> QED
  BY <1>1, <1>2, <1>3, <1>4

\* WriteAccount ends the request and writes the row of its target, or nothing.
LEMMA WriteMoves ==
    ASSUME SInv, NEW h \in Handlers, WriteAccount(h)
    PROVE  /\ deed[h].pc = "write" /\ deed'[h] = IdleDeed
           /\ \A o \in Handlers \ {h} : deed'[o] = deed[o]
           /\ \/ UNCHANGED <<account, raced>>
              \/ /\ ~Refused(deed[h]) /\ raced' = (raced \/ Relying(h) # {})
                 /\ account'[deed[h].target] = Written(deed[h])
                 /\ \A u \in Users \ {deed[h].target} : account'[u] = account[u]
<1>1. /\ deed[h].pc = "write" /\ deed \in [Handlers -> Deed]
      /\ account \in [Users -> Account] /\ deed[h].target \in Users
  BY InHand DEF WriteAccount
<1>2. deed' = [deed EXCEPT ![h] = IdleDeed]
  BY DEF WriteAccount, GivesUp, Step
<1>3. \/ UNCHANGED <<account, raced>>
      \/ /\ ~Refused(deed[h]) /\ raced' = (raced \/ Relying(h) # {})
         /\ account' = [account EXCEPT ![deed[h].target] = Written(deed[h])]
  BY DEF WriteAccount
<1> QED
  BY <1>1, <1>2, <1>3

\* Every request, socket and event keeps it.
LEMMA NextSInv ==
    ASSUME SInv, [StaffNext]_staffVars
    PROVE  SInv'
<1>1. ASSUME NEW h \in Handlers, CreateAccount(h)
      PROVE  SInv'
  <2>1. StaffTypeOK'
    <3>1. UNCHANGED <<account, raced, socketVars>>
      BY <1>1 DEF CreateAccount, TouchesNothing
    <3>2. \E d \in Deed : deed' = [deed EXCEPT ![h] = d]
      <4>1. PICK u \in Users, e \in Emails, r \in GivenRoles :
                 deed' = [deed EXCEPT ![h] = [IdleDeed EXCEPT !.pc = "email",
                             !.kind = "create", !.target = u, !.role = r, !.email = e]]
        BY <1>1 DEF CreateAccount, Enter
      <4>2. [IdleDeed EXCEPT !.pc = "email", !.kind = "create", !.target = u, !.role = r,
                             !.email = e] \in Deed
        BY StaffAssumption DEF Deed, IdleDeed
      <4> QED
        BY <4>1, <4>2
    <3> QED
      BY <3>1, <3>2 DEF SInv, StaffTypeOK, socketVars
  <2>2. DeedInv'
    BY <1>1, StaffAssumption DEF DeedInv, SInv, StaffTypeOK, Account, Deed, There,
       CreateAccount, Enter, socketVars, IdleDeed
  <2>3. GuardInv'
    BY <1>1, StaffAssumption DEF GuardInv, SInv, StaffTypeOK, DeedInv, Account, Deed,
       There, Admins, Relies, Losing, CreateAccount, Enter, socketVars, IdleDeed
  <2>4. AddressInv'
    BY <1>1, StaffAssumption DEF AddressInv, SInv, StaffTypeOK, DeedInv, Account, Deed,
       There, CreateAccount, Enter, socketVars, IdleDeed
  <2>5. SockInv'
    BY <1>1, StaffAssumption DEF SockInv, SInv, StaffTypeOK, Sock, CreateAccount, Enter,
       socketVars, IdleDeed
  <2>6. WaitingInv'
    BY <1>1, StaffAssumption DEF WaitingInv, SInv, StaffTypeOK, SockInv, Sock, IsOnline,
       CreateAccount, Enter, socketVars, IdleDeed
  <2> QED
    BY <2>1, <2>2, <2>3, <2>4, <2>5, <2>6 DEF SInv
<1>2. ASSUME NEW h \in Handlers, UpdateAccount(h)
      PROVE  SInv'
  <2>1. StaffTypeOK'
    <3>1. UNCHANGED <<account, raced, socketVars>>
      BY <1>2 DEF UpdateAccount, TouchesNothing
    <3>2. \E d \in Deed : deed' = [deed EXCEPT ![h] = d]
      <4>1. PICK u \in Users, r \in GivenRoles \cup {None}, e \in Emails \cup {None} :
                 deed' = [deed EXCEPT ![h] = [IdleDeed EXCEPT !.pc = "find",
                             !.kind = "update", !.target = u, !.role = r, !.email = e]]
        BY <1>2 DEF UpdateAccount, Enter
      <4>2. [IdleDeed EXCEPT !.pc = "find", !.kind = "update", !.target = u, !.role = r,
                             !.email = e] \in Deed
        BY StaffAssumption DEF Deed, IdleDeed
      <4> QED
        BY <4>1, <4>2
    <3> QED
      BY <3>1, <3>2 DEF SInv, StaffTypeOK, socketVars
  <2>2. DeedInv'
    BY <1>2, StaffAssumption DEF DeedInv, SInv, StaffTypeOK, Account, Deed, There,
       UpdateAccount, Enter, socketVars, IdleDeed
  <2>3. GuardInv'
    BY <1>2, StaffAssumption DEF GuardInv, SInv, StaffTypeOK, DeedInv, Account, Deed,
       There, Admins, Relies, Losing, UpdateAccount, Enter, socketVars, IdleDeed
  <2>4. AddressInv'
    BY <1>2, StaffAssumption DEF AddressInv, SInv, StaffTypeOK, DeedInv, Account, Deed,
       There, UpdateAccount, Enter, socketVars, IdleDeed
  <2>5. SockInv'
    BY <1>2, StaffAssumption DEF SockInv, SInv, StaffTypeOK, Sock, UpdateAccount, Enter,
       socketVars, IdleDeed
  <2>6. WaitingInv'
    BY <1>2, StaffAssumption DEF WaitingInv, SInv, StaffTypeOK, SockInv, Sock, IsOnline,
       UpdateAccount, Enter, socketVars, IdleDeed
  <2> QED
    BY <2>1, <2>2, <2>3, <2>4, <2>5, <2>6 DEF SInv
<1>3. ASSUME NEW h \in Handlers, RemoveAccount(h)
      PROVE  SInv'
  <2>1. StaffTypeOK'
    <3>1. UNCHANGED <<account, raced, socketVars>>
      BY <1>3 DEF RemoveAccount, TouchesNothing
    <3>2. \E d \in Deed : deed' = [deed EXCEPT ![h] = d]
      <4>1. PICK u \in Users :
                 deed' = [deed EXCEPT ![h] = [IdleDeed EXCEPT !.pc = "find",
                             !.kind = "remove", !.target = u]]
        BY <1>3 DEF RemoveAccount, Enter
      <4>2. [IdleDeed EXCEPT !.pc = "find", !.kind = "remove", !.target = u] \in Deed
        BY DEF Deed, IdleDeed
      <4> QED
        BY <4>1, <4>2
    <3> QED
      BY <3>1, <3>2 DEF SInv, StaffTypeOK, socketVars
  <2>2. DeedInv'
    BY <1>3, StaffAssumption DEF DeedInv, SInv, StaffTypeOK, Account, Deed, There,
       RemoveAccount, Enter, socketVars, IdleDeed
  <2>3. GuardInv'
    BY <1>3, StaffAssumption DEF GuardInv, SInv, StaffTypeOK, DeedInv, Account, Deed,
       There, Admins, Relies, Losing, RemoveAccount, Enter, socketVars, IdleDeed
  <2>4. AddressInv'
    BY <1>3, StaffAssumption DEF AddressInv, SInv, StaffTypeOK, DeedInv, Account, Deed,
       There, RemoveAccount, Enter, socketVars, IdleDeed
  <2>5. SockInv'
    BY <1>3, StaffAssumption DEF SockInv, SInv, StaffTypeOK, Sock, RemoveAccount, Enter,
       socketVars, IdleDeed
  <2>6. WaitingInv'
    BY <1>3, StaffAssumption DEF WaitingInv, SInv, StaffTypeOK, SockInv, Sock, IsOnline,
       RemoveAccount, Enter, socketVars, IdleDeed
  <2> QED
    BY <2>1, <2>2, <2>3, <2>4, <2>5, <2>6 DEF SInv
<1>4. ASSUME NEW h \in Handlers, FindAccount(h)
      PROVE  SInv'
  <2>1. StaffTypeOK'
    <3>1. UNCHANGED <<account, raced, socketVars>>
      BY <1>4 DEF FindAccount, TouchesNothing
    <3>2. \E d \in Deed : deed' = [deed EXCEPT ![h] = d]
      <4>1. deed[h] \in Deed /\ IdleDeed \in Deed /\ account \in [Users -> Account]
            /\ deed[h].target \in Users
        BY <1>4 DEF SInv, StaffTypeOK, DeedInv, Deed, IdleDeed, FindAccount
      <4>2. account[deed[h].target].role \in Roles \cup {None}
        BY <4>1 DEF Account
      <4> DEFINE d == [deed[h] EXCEPT !.was = account[deed[h].target].role]
      <4>3. d \in Deed
        BY <4>1, <4>2 DEF Deed
      <4>4. \A pc \in {"email", "count", "write"} : [d EXCEPT !.pc = pc] \in Deed
        BY <4>3 DEF Deed
      <4>5. Guarded(d) \in Deed
        BY <4>4 DEF Guarded
      <4>6. \/ deed' = [deed EXCEPT ![h] = [d EXCEPT !.pc = "email"]]
            \/ deed' = [deed EXCEPT ![h] = Guarded(d)]
            \/ deed' = [deed EXCEPT ![h] = IdleDeed]
        BY <1>4 DEF FindAccount, Step, GivesUp
      <4> QED
        BY <4>1, <4>4, <4>5, <4>6
    <3> QED
      BY <3>1, <3>2 DEF SInv, StaffTypeOK, socketVars
  <2>2. DeedInv'
    <3>1. /\ UNCHANGED account /\ deed[h].pc = "find"
          /\ \A o \in Handlers \ {h} : deed'[o] = deed[o]
          /\ \/ deed'[h] = IdleDeed
             \/ /\ deed'[h].pc # "idle" /\ deed'[h].kind = deed[h].kind
                /\ deed'[h].target = deed[h].target /\ deed'[h].email = deed[h].email
                /\ deed'[h].role = deed[h].role
                /\ deed[h].kind = "create" => deed'[h].was = deed[h].was
      BY <1>4, FindMoves, InHand DEF SInv, DeedInv, There, FindAccount
    <3>2. deed[h].target \in Users /\ deed[h].kind # "none"
      BY <3>1 DEF SInv, DeedInv
    <3>3. ASSUME NEW o \in Handlers \ {h}, deed[o].kind = "create"
          PROVE  deed'[h].target # deed[o].target
      BY <3>1, <3>3, StaffAssumption DEF SInv, DeedInv, IdleDeed
    <3>4. ASSUME deed'[h].kind = "create", NEW o \in Handlers \ {h}
          PROVE  deed'[o].target # deed'[h].target
      BY <3>1, <3>4 DEF SInv, DeedInv, IdleDeed
    <3> QED
      BY <3>1, <3>2, <3>3, <3>4 DEF SInv, DeedInv, IdleDeed
  <2>3. GuardInv'
    <3>1. Admins' = Admins
      BY <1>4, FindMoves DEF Admins, There
    <3> QED
      BY <1>4, <3>1, FindMoves DEF SInv, GuardInv, IdleDeed, There, Relies
  <2>4. AddressInv'
    BY <1>4, StaffAssumption DEF AddressInv, SInv, StaffTypeOK, DeedInv, Account, Deed,
       There, FindAccount, TouchesNothing, GivesUp, Step, Guarded, socketVars, IdleDeed
  <2>5. SockInv'
    BY <1>4, StaffAssumption DEF SockInv, SInv, StaffTypeOK, Sock, FindAccount,
       TouchesNothing, GivesUp, Step, Guarded, socketVars, IdleDeed
  <2>6. WaitingInv'
    BY <1>4, StaffAssumption DEF WaitingInv, SInv, StaffTypeOK, SockInv, Sock, IsOnline,
       FindAccount, TouchesNothing, GivesUp, Step, Guarded, socketVars, IdleDeed
  <2> QED
    BY <2>1, <2>2, <2>3, <2>4, <2>5, <2>6 DEF SInv
<1>5. ASSUME NEW h \in Handlers, CheckEmail(h)
      PROVE  SInv'
  <2>1. StaffTypeOK'
    <3>1. UNCHANGED <<account, raced, socketVars>>
      BY <1>5 DEF CheckEmail, TouchesNothing
    <3>2. \E d \in Deed : deed' = [deed EXCEPT ![h] = d]
      <4>1. deed[h] \in Deed /\ IdleDeed \in Deed /\ account \in [Users -> Account]
            /\ deed[h].target \in Users
        BY <1>5 DEF SInv, StaffTypeOK, DeedInv, Deed, IdleDeed, CheckEmail
      <4>4. \A pc \in {"count", "write"} : [deed[h] EXCEPT !.pc = pc] \in Deed
        BY <4>1 DEF Deed
      <4>5. Guarded(deed[h]) \in Deed
        BY <4>4 DEF Guarded
      <4>6. \/ deed' = [deed EXCEPT ![h] = [deed[h] EXCEPT !.pc = "write"]]
            \/ deed' = [deed EXCEPT ![h] = Guarded(deed[h])]
            \/ deed' = [deed EXCEPT ![h] = IdleDeed]
        BY <1>5 DEF CheckEmail, Step, GivesUp
      <4> QED
        BY <4>1, <4>4, <4>5, <4>6
    <3> QED
      BY <3>1, <3>2 DEF SInv, StaffTypeOK, socketVars
  <2>2. DeedInv'
    <3>1. /\ UNCHANGED account /\ deed[h].pc = "email"
          /\ \A o \in Handlers \ {h} : deed'[o] = deed[o]
          /\ \/ deed'[h] = IdleDeed
             \/ /\ deed'[h].pc # "idle" /\ deed'[h].kind = deed[h].kind
                /\ deed'[h].target = deed[h].target /\ deed'[h].email = deed[h].email
                /\ deed'[h].role = deed[h].role
                /\ deed[h].kind = "create" => deed'[h].was = deed[h].was
      BY <1>5, CheckMoves, InHand DEF SInv, DeedInv, There, CheckEmail
    <3>2. deed[h].target \in Users /\ deed[h].kind # "none"
      BY <3>1 DEF SInv, DeedInv
    <3>3. ASSUME NEW o \in Handlers \ {h}, deed[o].kind = "create"
          PROVE  deed'[h].target # deed[o].target
      BY <3>1, <3>3, StaffAssumption DEF SInv, DeedInv, IdleDeed
    <3>4. ASSUME deed'[h].kind = "create", NEW o \in Handlers \ {h}
          PROVE  deed'[o].target # deed'[h].target
      BY <3>1, <3>4 DEF SInv, DeedInv, IdleDeed
    <3> QED
      BY <3>1, <3>2, <3>3, <3>4 DEF SInv, DeedInv, IdleDeed
  <2>3. GuardInv'
    <3>1. Admins' = Admins
      BY <1>5, CheckMoves DEF Admins, There
    <3>2. deed[h].pc = "email"
      BY <1>5 DEF CheckEmail
    <3> QED
      BY <1>5, <3>1, <3>2, CheckMoves DEF SInv, GuardInv, IdleDeed, There, Relies
  <2>4. AddressInv'
    BY <1>5, StaffAssumption DEF AddressInv, SInv, StaffTypeOK, DeedInv, Account, Deed,
       There, CheckEmail, TouchesNothing, GivesUp, Step, Guarded, socketVars, IdleDeed
  <2>5. SockInv'
    BY <1>5, StaffAssumption DEF SockInv, SInv, StaffTypeOK, Sock, CheckEmail,
       TouchesNothing, GivesUp, Step, Guarded, socketVars, IdleDeed
  <2>6. WaitingInv'
    BY <1>5, StaffAssumption DEF WaitingInv, SInv, StaffTypeOK, SockInv, Sock, IsOnline,
       CheckEmail, TouchesNothing, GivesUp, Step, Guarded, socketVars, IdleDeed
  <2> QED
    BY <2>1, <2>2, <2>3, <2>4, <2>5, <2>6 DEF SInv
<1>6. ASSUME NEW h \in Handlers, CountAdmins(h)
      PROVE  SInv'
  <2>1. StaffTypeOK'
    BY <1>6, StaffAssumption DEF StaffTypeOK, SInv, Account, Deed, Sock, Roles, DeedInv,
       SockInv, CountAdmins, Counted, TouchesNothing, GivesUp, Step, socketVars,
       IdleDeed
  <2>2. DeedInv'
    BY <1>6, StaffAssumption DEF DeedInv, SInv, StaffTypeOK, Account, Deed, There,
       CountAdmins, Counted, TouchesNothing, GivesUp, Step, socketVars, IdleDeed
  <2>3. GuardInv'
    <3>1. /\ deed[h].pc = "count" /\ UNCHANGED <<account, raced>>
          /\ \/ /\ Admins \ {deed[h].target} # {}
                /\ deed' = [deed EXCEPT ![h] = [deed[h] EXCEPT !.pc = "write"]]
             \/ deed' = [deed EXCEPT ![h] = IdleDeed]
      BY <1>6 DEF CountAdmins, Counted, TouchesNothing, GivesUp, Step
    <3>2. deed \in [Handlers -> Deed]
      BY DEF SInv, StaffTypeOK
    <3>3. Admins' = Admins /\ \A u \in Users : There(u)' = There(u)
      BY <3>1 DEF Admins, There
    <3>4. \A o \in Handlers \ {h} : deed'[o] = deed[o]
      BY <3>1, <3>2
    <3>5. \/ deed'[h] = IdleDeed
          \/ /\ Admins \ {deed[h].target} # {} /\ deed'[h].target = deed[h].target
             /\ deed'[h].kind = deed[h].kind /\ deed'[h].role = deed[h].role
             /\ deed'[h].was = deed[h].was
      BY <3>1, <3>2 DEF Deed
    <3>6. ~Relies(IdleDeed)
      BY DEF Relies, IdleDeed
    <3>7. ASSUME ~raced, Relies(deed[h])'
          PROVE  /\ There(deed[h].target)' /\ account'[deed'[h].target].role = deed'[h].was
                 /\ Admins' \ {deed'[h].target} # {}
      <4>1. Relies(deed[h])
        BY <3>1, <3>5, <3>6, <3>7 DEF Relies
      <4> QED
        BY <3>1, <3>3, <3>5, <3>6, <3>7, <4>1 DEF SInv, GuardInv, There
    <3>8. ASSUME ~raced, NEW o \in Handlers \ {h}, Relies(deed[o])'
          PROVE  /\ There(deed[o].target)' /\ account'[deed'[o].target].role = deed'[o].was
                 /\ deed'[o].pc = "write" /\ Losing(deed'[o])
                        => Admins' \ {deed'[o].target} # {}
      BY <3>1, <3>3, <3>4, <3>8 DEF SInv, GuardInv, There
    <3> QED
      BY <3>1, <3>3, <3>7, <3>8 DEF SInv, GuardInv
  <2>4. AddressInv'
    BY <1>6, StaffAssumption DEF AddressInv, SInv, StaffTypeOK, DeedInv, Account, Deed,
       There, CountAdmins, Counted, TouchesNothing, GivesUp, Step, socketVars, IdleDeed
  <2>5. SockInv'
    BY <1>6, StaffAssumption DEF SockInv, SInv, StaffTypeOK, Sock, CountAdmins, Counted,
       TouchesNothing, GivesUp, Step, socketVars, IdleDeed
  <2>6. WaitingInv'
    BY <1>6, StaffAssumption DEF WaitingInv, SInv, StaffTypeOK, SockInv, Sock, IsOnline,
       CountAdmins, Counted, TouchesNothing, GivesUp, Step, socketVars, IdleDeed
  <2> QED
    BY <2>1, <2>2, <2>3, <2>4, <2>5, <2>6 DEF SInv
<1>7. ASSUME NEW h \in Handlers, WriteAccount(h)
      PROVE  SInv'
  <2>1. StaffTypeOK'
    <3>1. UNCHANGED socketVars /\ IdleDeed \in Deed /\ raced' \in BOOLEAN
      BY <1>7 DEF WriteAccount, Deed, IdleDeed, SInv, StaffTypeOK
    <3>2. deed' \in [Handlers -> Deed]
      BY <1>7, <3>1 DEF WriteAccount, GivesUp, Step, SInv, StaffTypeOK
    <3>3. account' \in [Users -> Account]
      BY <1>7, WrittenRow DEF WriteAccount, SInv, StaffTypeOK
    <3> QED
      BY <3>1, <3>2, <3>3 DEF SInv, StaffTypeOK, socketVars
  <2>2. DeedInv'
    <3>1. \A u \in Users : \/ account'[u] = account[u]
                           \/ u = deed[h].target /\ account'[u].state # "absent"
      BY <1>7, WriteMoves, WrittenRow, InHand
    <3>2. \A o \in Handlers : deed[o].kind = "create" =>
              account'[deed[o].target] = account[deed[o].target] \/ o = h
      BY <1>7, <3>1, WriteMoves, InHand DEF SInv, DeedInv, IdleDeed
    <3> QED
      BY <1>7, <3>1, <3>2, WriteMoves, StaffAssumption DEF SInv, DeedInv, IdleDeed
  <2>3. GuardInv'
    <3> SUFFICES ASSUME ~raced' PROVE GuardInv'
      BY DEF GuardInv
    <3> DEFINE d == deed[h]
               t == deed[h].target
    <3>1. CASE UNCHANGED <<account, raced>>
      BY <1>7, <3>1, WriteMoves DEF SInv, GuardInv, Relies, IdleDeed, Admins, There
    <3>2. CASE /\ ~Refused(d) /\ raced' = (raced \/ Relying(h) # {})
               /\ account'[t] = Written(d) /\ \A u \in Users \ {t} : account'[u] = account[u]
      <4>1. ~raced /\ Relying(h) = {} /\ d.pc = "write" /\ t \in Users
        BY <1>7, <3>2, WriteMoves, InHand
      <4>2. \A o \in Handlers : ~Relies(deed'[o])
        BY <1>7, <4>1, WriteMoves DEF Relying, Relies, IdleDeed
      <4>3. Admins # {} /\ \A u \in Users \ {t} : u \in Admins' <=> u \in Admins
        BY <3>2, <4>1 DEF SInv, GuardInv, Admins, There
      <4>4. ASSUME Admins \ {t} # {} PROVE Admins' # {}
        <5>1. Admins \subseteq Users
          BY DEF Admins
        <5> QED
          BY <4>3, <4>4, <5>1
      <4>5. ASSUME Admins \ {t} = {} PROVE Admins' # {}
        <5>1. t \in Admins /\ There(t) /\ account[t].role = "admin"
          BY <4>3, <4>5 DEF Admins
        <5>2. d.kind # "create"
          BY <5>1 DEF SInv, DeedInv, There
        <5>3. Relies(d) => ~Losing(d) /\ d.was = "admin"
          BY <4>1, <4>5, <5>1 DEF SInv, GuardInv
        <5>4. d.kind = "update" /\ d.role \in {None, "admin"}
          BY <4>1, <5>2, <5>3, InHand DEF Relies, Losing
        <5>5. account'[t].state = "there" /\ account'[t].role = "admin"
          BY <3>2, <4>1, <5>1, <5>4, WrittenRow
        <5> QED
          BY <4>1, <5>5 DEF Admins, There
      <4> QED
        BY <4>2, <4>4, <4>5 DEF GuardInv
    <3> QED
      BY <1>7, <3>1, <3>2, WriteMoves
  <2>4. AddressInv'
    <3> DEFINE d == deed[h]
               t == deed[h].target
    <3>1. CASE UNCHANGED account
      BY <3>1 DEF SInv, AddressInv, There
    <3>2. CASE /\ ~Refused(d) /\ account'[t] = Written(d)
               /\ \A u \in Users \ {t} : account'[u] = account[u]
      <4>1. d.pc = "write" /\ t \in Users /\ d \in Deed
        BY <1>7, WriteMoves, InHand
      <4>2. account'[t].state = "there" =>
               \/ account'[t].email = d.email /\ d.email \in Emails
               \/ There(t) /\ account'[t].email = account[t].email
        BY <3>2, <4>1, InHand, WrittenRow DEF SInv, DeedInv, Deed
      <4>3. d.email \in Emails => \A u \in Users \ {t} : There(u) => account[u].email # d.email
        BY <3>2, StaffAssumption DEF Refused, Holds
      <4> QED
        BY <3>2, <4>1, <4>2, <4>3 DEF SInv, AddressInv, There
    <3> QED
      BY <1>7, <3>1, <3>2, WriteMoves
  <2>5. SockInv'
    BY <1>7, StaffAssumption DEF SockInv, SInv, StaffTypeOK, Sock, WriteAccount,
       Written, Refused, Holds, Relying, GivesUp, Step, socketVars, IdleDeed, NoAccount
  <2>6. WaitingInv'
    BY <1>7, StaffAssumption DEF WaitingInv, SInv, StaffTypeOK, SockInv, Sock, IsOnline,
       WriteAccount, Written, Refused, Holds, Relying, GivesUp, Step, socketVars,
       IdleDeed, NoAccount
  <2> QED
    BY <2>1, <2>2, <2>3, <2>4, <2>5, <2>6 DEF SInv
<1>8. CASE TellPresence
  <2>1. StaffTypeOK'
    BY <1>8, StaffAssumption DEF StaffTypeOK, SInv, Account, Deed, Sock, Roles, DeedInv,
       SockInv, TellPresence, accountVars
  <2>2. DeedInv'
    BY <1>8, StaffAssumption DEF DeedInv, SInv, StaffTypeOK, Account, Deed, There,
       TellPresence, accountVars
  <2>3. GuardInv'
    BY <1>8, StaffAssumption DEF GuardInv, SInv, StaffTypeOK, DeedInv, Account, Deed,
       There, Admins, Relies, Losing, TellPresence, accountVars
  <2>4. AddressInv'
    BY <1>8, StaffAssumption DEF AddressInv, SInv, StaffTypeOK, DeedInv, Account, Deed,
       There, TellPresence, accountVars
  <2>5. SockInv'
    BY <1>8, StaffAssumption DEF SockInv, SInv, StaffTypeOK, Sock, TellPresence,
       accountVars
  <2>6. WaitingInv'
    BY <1>8, StaffAssumption DEF WaitingInv, SInv, StaffTypeOK, SockInv, Sock, IsOnline,
       TellPresence, accountVars
  <2> QED
    BY <2>1, <2>2, <2>3, <2>4, <2>5, <2>6 DEF SInv
<1>9. ASSUME NEW s \in Sockets, Connect(s)
      PROVE  SInv'
  <2>1. StaffTypeOK'
    BY <1>9, StaffAssumption DEF StaffTypeOK, SInv, Account, Deed, Sock, Roles, DeedInv,
       SockInv, Connect, accountVars
  <2>2. DeedInv'
    BY <1>9, StaffAssumption DEF DeedInv, SInv, StaffTypeOK, Account, Deed, There,
       Connect, accountVars
  <2>3. GuardInv'
    BY <1>9, StaffAssumption DEF GuardInv, SInv, StaffTypeOK, DeedInv, Account, Deed,
       There, Admins, Relies, Losing, Connect, accountVars
  <2>4. AddressInv'
    BY <1>9, StaffAssumption DEF AddressInv, SInv, StaffTypeOK, DeedInv, Account, Deed,
       There, Connect, accountVars
  <2>5. SockInv'
    BY <1>9, StaffAssumption DEF SockInv, SInv, StaffTypeOK, Sock, Connect, accountVars
  <2>6. WaitingInv'
    BY <1>9, StaffAssumption DEF WaitingInv, SInv, StaffTypeOK, SockInv, Sock, IsOnline,
       Connect, accountVars
  <2> QED
    BY <2>1, <2>2, <2>3, <2>4, <2>5, <2>6 DEF SInv
<1>10. ASSUME NEW s \in Sockets, Authenticated(s)
      PROVE  SInv'
  <2>1. StaffTypeOK'
    <3>1. UNCHANGED <<account, deed, raced, toldOnline>>
      BY <1>10 DEF Authenticated, accountVars
    <3>2. sock[s] \in Sock /\ sock \in [Sockets -> Sock]
      BY DEF SInv, StaffTypeOK
    <3>3. sock[s].user \in Users
      BY <1>10 DEF Authenticated, SInv, SockInv
    <3>4. \A state \in {"left", "open", "ghost", "closed"} :
             [sock[s] EXCEPT !.state = state] \in Sock
      BY <3>2 DEF Sock
    <3>5. \E state \in {"left", "open", "ghost", "closed"} :
             sock' = [sock EXCEPT ![s] = [sock[s] EXCEPT !.state = state]]
      BY <1>10 DEF Authenticated
    <3>6. sock' \in [Sockets -> Sock]
      BY <3>2, <3>4, <3>5
    <3>7. presence' \in [Users -> SUBSET Sockets]
      <4>1. presence \in [Users -> SUBSET Sockets]
        BY DEF SInv, StaffTypeOK
      <4>2. presence' = presence \/ \E S \in SUBSET Sockets :
                                       presence' = [presence EXCEPT ![sock[s].user] = S]
        BY <1>10, <3>3, <4>1 DEF Authenticated, TrackDisconnect
      <4> QED
        BY <4>1, <4>2
    <3>8. /\ touching \subseteq [user : Users, online : BOOLEAN] /\ muddled \subseteq Users
          /\ \/ UNCHANGED <<touching, muddled>>
             \/ Waits(sock[s].user, TRUE)
      BY <1>10 DEF Authenticated, SInv, StaffTypeOK
    <3>9. touching' \subseteq [user : Users, online : BOOLEAN] /\ muddled' \subseteq Users
      <4>1. [user |-> sock[s].user, online |-> TRUE] \in [user : Users, online : BOOLEAN]
        BY <3>3
      <4> QED
        BY <3>3, <3>8, <4>1 DEF Waits
    <3> QED
      BY <3>1, <3>6, <3>7, <3>9 DEF SInv, StaffTypeOK
  <2>2. DeedInv'
    BY <1>10, StaffAssumption DEF DeedInv, SInv, StaffTypeOK, Account, Deed, There,
       Authenticated, Waits, accountVars
  <2>3. GuardInv'
    BY <1>10, StaffAssumption DEF GuardInv, SInv, StaffTypeOK, DeedInv, Account, Deed,
       There, Admins, Relies, Losing, Authenticated, Waits, accountVars
  <2>4. AddressInv'
    BY <1>10, StaffAssumption DEF AddressInv, SInv, StaffTypeOK, DeedInv, Account, Deed,
       There, Authenticated, Waits, accountVars
  <2>5. SockInv'
    BY <1>10, StaffAssumption DEF SockInv, SInv, StaffTypeOK, Sock, Authenticated,
       Waits, accountVars
  <2>6. WaitingInv'
    <3> DEFINE u == sock[s].user
    <3>1. u \in Users /\ toldOnline' = toldOnline
      BY <1>10 DEF Authenticated, SInv, SockInv
    <3>2. CASE /\ presence' = [presence EXCEPT ![u] = presence[u] \cup {s}]
               /\ IF IsOnline(u) THEN UNCHANGED <<touching, muddled>> ELSE Waits(u, TRUE)
      <4>1. \A v \in Users \ {u} : presence'[v] = presence[v]
        BY <3>2 DEF SInv, StaffTypeOK
      <4>2. presence'[u] = presence[u] \cup {s}
        BY <3>1, <3>2 DEF SInv, StaffTypeOK
      <4>3. CASE IsOnline(u)
        <5>1. /\ UNCHANGED <<touching, muddled>>
              /\ \A v \in Users : presence'[v] = {} <=> presence[v] = {}
          BY <3>1, <3>2, <4>1, <4>2, <4>3 DEF IsOnline
        <5> QED
          BY <3>1, <5>1 DEF SInv, WaitingInv, IsOnline
      <4>4. CASE ~(IsOnline(u))
        <5> DEFINE e == [user |-> u, online |-> TRUE]
        <5>1. /\ e.user = u /\ e.online = TRUE /\ touching' = touching \cup {e}
              /\ muddled' = IF \E x \in touching : x.user = u THEN muddled \cup {u}
                            ELSE muddled
          BY <3>2, <4>4 DEF Waits
        <5>2. (presence'[u] # {}) = TRUE
          BY <3>1, <4>2, <4>4 DEF IsOnline
        <5> HIDE DEF e
        <5>3. ASSUME NEW v \in Users \ muddled', v # u
              PROVE  /\ \A x, y \in touching' : x.user = v /\ y.user = v => x = y
                     /\ \A x \in touching' : x.user = v => x.online = (presence'[v] # {})
                     /\ (\A x \in touching' : x.user # v) =>
                           toldOnline'[v] = (presence'[v] # {})
          <6>1. v \in Users \ muddled /\ presence'[v] = presence[v]
            BY <5>1, <5>3, <4>1
          <6>2. \A x \in touching' : x.user = v => x \in touching
            BY <5>1, <5>3
          <6> QED
            BY <3>1, <5>1, <6>1, <6>2 DEF SInv, WaitingInv, IsOnline
        <5>4. ASSUME u \notin muddled'
              PROVE  \A x \in touching' : x.user = u => x = e
          BY <3>1, <5>1, <5>4
        <5> QED
          BY <3>1, <5>1, <5>2, <5>3, <5>4 DEF WaitingInv, IsOnline
      <4> QED
        BY <4>3, <4>4
    <3>3. CASE UNCHANGED <<presence, touching, muddled>>
      BY <3>1, <3>3 DEF SInv, WaitingInv, IsOnline
    <3> QED
      BY <1>10, <3>2, <3>3 DEF Authenticated
  <2> QED
    BY <2>1, <2>2, <2>3, <2>4, <2>5, <2>6 DEF SInv
<1>11. ASSUME NEW s \in Sockets, Disconnect(s)
      PROVE  SInv'
  <2>1. StaffTypeOK'
    <3>1. UNCHANGED <<account, deed, raced, toldOnline>>
      BY <1>11 DEF Disconnect, accountVars
    <3>2. sock[s] \in Sock /\ sock \in [Sockets -> Sock]
      BY DEF SInv, StaffTypeOK
    <3>3. sock[s].user \in Users
      BY <1>11 DEF Disconnect, SInv, SockInv
    <3>4. \A state \in {"left", "open", "ghost", "closed"} :
             [sock[s] EXCEPT !.state = state] \in Sock
      BY <3>2 DEF Sock
    <3>5. \E state \in {"left", "open", "ghost", "closed"} :
             sock' = [sock EXCEPT ![s] = [sock[s] EXCEPT !.state = state]]
      BY <1>11 DEF Disconnect
    <3>6. sock' \in [Sockets -> Sock]
      BY <3>2, <3>4, <3>5
    <3>7. presence' \in [Users -> SUBSET Sockets]
      <4>1. presence \in [Users -> SUBSET Sockets]
        BY DEF SInv, StaffTypeOK
      <4>2. presence' = presence \/ \E S \in SUBSET Sockets :
                                       presence' = [presence EXCEPT ![sock[s].user] = S]
        BY <1>11, <3>3, <4>1 DEF Disconnect, TrackDisconnect
      <4> QED
        BY <4>1, <4>2
    <3>8. /\ touching \subseteq [user : Users, online : BOOLEAN] /\ muddled \subseteq Users
          /\ \/ UNCHANGED <<touching, muddled>>
             \/ Waits(sock[s].user, FALSE)
      BY <1>11 DEF Disconnect, SInv, StaffTypeOK
    <3>9. touching' \subseteq [user : Users, online : BOOLEAN] /\ muddled' \subseteq Users
      <4>1. [user |-> sock[s].user, online |-> FALSE] \in [user : Users, online : BOOLEAN]
        BY <3>3
      <4> QED
        BY <3>3, <3>8, <4>1 DEF Waits
    <3> QED
      BY <3>1, <3>6, <3>7, <3>9 DEF SInv, StaffTypeOK
  <2>2. DeedInv'
    BY <1>11, StaffAssumption DEF DeedInv, SInv, StaffTypeOK, Account, Deed, There,
       Disconnect, TrackDisconnect, Waits, accountVars
  <2>3. GuardInv'
    BY <1>11, StaffAssumption DEF GuardInv, SInv, StaffTypeOK, DeedInv, Account, Deed,
       There, Admins, Relies, Losing, Disconnect, TrackDisconnect, Waits, accountVars
  <2>4. AddressInv'
    BY <1>11, StaffAssumption DEF AddressInv, SInv, StaffTypeOK, DeedInv, Account, Deed,
       There, Disconnect, TrackDisconnect, Waits, accountVars
  <2>5. SockInv'
    BY <1>11, StaffAssumption DEF SockInv, SInv, StaffTypeOK, Sock, Disconnect,
       TrackDisconnect, Waits, accountVars
  <2>6. WaitingInv'
    <3> DEFINE u == sock[s].user
    <3>1. u \in Users /\ toldOnline' = toldOnline
      BY <1>11 DEF Disconnect, SInv, SockInv
    <3>2. CASE /\ sock[s].state = "open"
               /\ presence' = [presence EXCEPT ![u] = TrackDisconnect(u, s)]
               /\ IF presence'[u] = {} THEN Waits(u, FALSE) ELSE UNCHANGED <<touching, muddled>>
      <4>1. \A v \in Users \ {u} : presence'[v] = presence[v]
        BY <3>2 DEF SInv, StaffTypeOK
      <4>2. presence'[u] = presence[u] \ {s} /\ s \in presence[u]
        BY <3>1, <3>2 DEF SInv, StaffTypeOK, SockInv, TrackDisconnect
      <4>3. CASE presence'[u] # {}
        <5>1. /\ UNCHANGED <<touching, muddled>>
              /\ \A v \in Users : presence'[v] = {} <=> presence[v] = {}
          BY <3>1, <3>2, <4>1, <4>2, <4>3 DEF IsOnline
        <5> QED
          BY <3>1, <5>1 DEF SInv, WaitingInv, IsOnline
      <4>4. CASE ~(presence'[u] # {})
        <5> DEFINE e == [user |-> u, online |-> FALSE]
        <5>1. /\ e.user = u /\ e.online = FALSE /\ touching' = touching \cup {e}
              /\ muddled' = IF \E x \in touching : x.user = u THEN muddled \cup {u}
                            ELSE muddled
          BY <3>2, <4>4 DEF Waits
        <5>2. (presence'[u] # {}) = FALSE
          BY <3>1, <4>2, <4>4 DEF IsOnline
        <5> HIDE DEF e
        <5>3. ASSUME NEW v \in Users \ muddled', v # u
              PROVE  /\ \A x, y \in touching' : x.user = v /\ y.user = v => x = y
                     /\ \A x \in touching' : x.user = v => x.online = (presence'[v] # {})
                     /\ (\A x \in touching' : x.user # v) =>
                           toldOnline'[v] = (presence'[v] # {})
          <6>1. v \in Users \ muddled /\ presence'[v] = presence[v]
            BY <5>1, <5>3, <4>1
          <6>2. \A x \in touching' : x.user = v => x \in touching
            BY <5>1, <5>3
          <6> QED
            BY <3>1, <5>1, <6>1, <6>2 DEF SInv, WaitingInv, IsOnline
        <5>4. ASSUME u \notin muddled'
              PROVE  \A x \in touching' : x.user = u => x = e
          BY <3>1, <5>1, <5>4
        <5> QED
          BY <3>1, <5>1, <5>2, <5>3, <5>4 DEF WaitingInv, IsOnline
      <4> QED
        BY <4>3, <4>4
    <3>3. CASE UNCHANGED <<presence, touching, muddled>>
      BY <3>1, <3>3 DEF SInv, WaitingInv, IsOnline
    <3> QED
      BY <1>11, <3>2, <3>3 DEF Disconnect
  <2> QED
    BY <2>1, <2>2, <2>3, <2>4, <2>5, <2>6 DEF SInv
<1>12. CASE UNCHANGED staffVars
  <2>1. StaffTypeOK'
    BY <1>12, StaffAssumption DEF StaffTypeOK, SInv, Account, Deed, Sock, Roles,
       DeedInv, SockInv, staffVars, accountVars, socketVars
  <2>2. DeedInv'
    BY <1>12, StaffAssumption DEF DeedInv, SInv, StaffTypeOK, Account, Deed, There,
       staffVars, accountVars, socketVars
  <2>3. GuardInv'
    BY <1>12, StaffAssumption DEF GuardInv, SInv, StaffTypeOK, DeedInv, Account, Deed,
       There, Admins, Relies, Losing, staffVars, accountVars, socketVars
  <2>4. AddressInv'
    BY <1>12, StaffAssumption DEF AddressInv, SInv, StaffTypeOK, DeedInv, Account, Deed,
       There, staffVars, accountVars, socketVars
  <2>5. SockInv'
    BY <1>12, StaffAssumption DEF SockInv, SInv, StaffTypeOK, Sock, staffVars,
       accountVars, socketVars
  <2>6. WaitingInv'
    BY <1>12, StaffAssumption DEF WaitingInv, SInv, StaffTypeOK, SockInv, Sock,
       IsOnline, staffVars, accountVars, socketVars
  <2> QED
    BY <2>1, <2>2, <2>3, <2>4, <2>5, <2>6 DEF SInv
<1> QED
  BY <1>1, <1>2, <1>3, <1>4, <1>5, <1>6, <1>7, <1>8, <1>9, <1>10, <1>11, <1>12 DEF
     StaffNext, AccountNext, SocketNext

\* It holds in every state the accounts and the sockets can reach.
LEMMA StaffSInv == StaffSpec => []SInv
<1>1. SInv /\ [StaffNext]_<<staffVars, counters>> => SInv'
  BY NextSInv
<1> QED
  BY <1>1, InitSInv, PTL DEF StaffSpec

\* Accounts, requests, sockets, presence and what browsers were told keep their types.
THEOREM StaffTyped == StaffSpec => []StaffTypeOK
<1>1. SInv => StaffTypeOK
  BY DEF SInv
<1> QED
  BY <1>1, StaffSInv, PTL

\* The invariant keeps an administrator and the addresses apart.
LEMMA AdminKept == SInv => AdminRemains
<1> SUFFICES ASSUME SInv, NEW e \in Emails
             PROVE  (raced \/ Admins # {}) /\ Cardinality(Holds(e)) <= 1
  BY DEF AdminRemains, SInv, GuardInv
<1>1. raced \/ Admins # {}
  BY DEF SInv, GuardInv
<1>2. CASE Holds(e) = {}
  BY <1>1, <1>2, FS_EmptySet
<1>3. CASE Holds(e) # {}
  <2>1. PICK u \in Users : Holds(e) = {u}
    BY <1>3 DEF Holds, SInv, AddressInv
  <2> QED
    BY <1>1, <2>1, FS_Singleton
<1> QED
  BY <1>2, <1>3

(***************************************************************************)
(* The office keeps an administrator as long as no change of an account    *)
(* crosses another that relies on a role it has read (assertNotLastAdmin), *)
(* and two accounts never share an address, failed look-ups or not: the    *)
(* unique index refuses what they let through.                             *)
(***************************************************************************)
THEOREM AdminStays == StaffSpec => []AdminRemains
BY AdminKept, StaffSInv, PTL

\* The invariant shows online who is connected.
LEMMA OnlineKept == SInv => OnlineIsConnected
<1> SUFFICES ASSUME SInv, NEW u \in Users,
                    \A s \in Sockets : sock[s].user = u => sock[s].state \notin {"left", "ghost"}
             PROVE  LET mine == {s \in Sockets : sock[s].user = u}
                    IN  /\ IsOnline(u) <=> \E s \in mine : sock[s].state = "open"
                        /\ u \notin muddled /\ (\A e \in touching : e.user # u) =>
                              toldOnline[u] = \E s \in mine : sock[s].state = "open"
  BY DEF OnlineIsConnected
<1>1. IsOnline(u) <=> \E s \in Sockets : sock[s].user = u /\ sock[s].state = "open"
  BY DEF SInv, SockInv, IsOnline, StaffTypeOK
<1>2. CASE u \notin muddled /\ \A e \in touching : e.user # u
  <2>1. toldOnline[u] = IsOnline(u)
    BY <1>2 DEF SInv, WaitingInv
  <2>2. IsOnline(u) = \E s \in {x \in Sockets : sock[x].user = u} : sock[s].state = "open"
    BY <1>1 DEF IsOnline
  <2> QED
    BY <1>1, <2>1, <2>2
<1> QED
  BY <1>1, <1>2

(***************************************************************************)
(* A user shows as online exactly while a socket of his is open, and the   *)
(* browsers are told what holds, for any tabs, in any order, but for       *)
(* sockets that closed before they were authenticated and events that      *)
(* waited together (handleConnection, handleDisconnect).                   *)
(***************************************************************************)
THEOREM OnlineTold == StaffSpec => []OnlineIsConnected
BY OnlineKept, StaffSInv, PTL

\* Areas, requests, rooms and pages of a role agree, and the team list shows who is
\* connected (permissions.ts, whatsapp-admin-api.util.ts, handleConnection).
LEMMA AccessKept == SInv => AccessAgrees
<1> SUFFICES ASSUME SInv PROVE AccessAgrees
  OBVIOUS
<1>1. ASSUME NEW r \in Roles
      PROVE  /\ \A area \in Permissions("admin") \ {"dashboard"} :
                   area \in Permissions(r) <=> Allowed(r, "POST", area)
             /\ RecommendedRoute(r) \in Pages(r)
             /\ \A area \in {"leads", "whatsapp"} : area \in Permissions(r) <=> area \in Rooms(r)
             /\ "presence" \in Rooms(r) <=> "users" \in Permissions(r)
  <2>1. CASE r = "admin"
    BY <2>1 DEF Permissions, Allowed, RecommendedRoute, Pages, Rooms
  <2>2. CASE r = "admin_whatsapp"
    BY <2>2 DEF Permissions, Allowed, ApiPrefixes, RecommendedRoute, Pages, Rooms
  <2>3. CASE r = "fixed_meeting"
    BY <2>3 DEF Permissions, Allowed, ApiPrefixes, RecommendedRoute, Pages, Rooms
  <2> QED
    BY <2>1, <2>2, <2>3 DEF Roles
<1>2. ASSUME NEW u \in Admins
      PROVE  {x.id : x \in {y \in TeamList(u) : y.online}}
                 = {v \in Users : There(v) /\ presence[v] # {}}
  <2>1. TeamList(u) = {[id |-> v, online |-> IsOnline(v)] : v \in {x \in Users : There(x)}}
    BY <1>2 DEF Admins, TeamList
  <2> DEFINE on == {v \in Users : There(v) /\ presence[v] # {}}
             row(v) == [id |-> v, online |-> IsOnline(v)]
  <2>2. \A v : row(v).id = v /\ (row(v).online <=> presence[v] # {})
    BY DEF IsOnline
  <2>3. \A x : x \in TeamList(u) /\ x.online <=> \E v \in on : x = row(v)
    BY <2>1, <2>2
  <2>4. \A v \in on : row(v).id = v
    BY <2>2
  <2> HIDE DEF row, on
  <2>5. {x.id : x \in {y \in TeamList(u) : y.online}} = on
    BY <2>3, <2>4
  <2> QED
    BY <2>5 DEF on
<1> QED
  BY <1>1, <1>2 DEF AccessAgrees

----------------------------------------------------------------------------
(* Clients of the office *)

CrmRow    == [owner : CrmOwners \cup {None}, email : CrmEmails \cup {None}, ice : Ices \cup {None}]
FilingRec == [pc : {"idle", "email", "ice", "write"}, id : CrmIds \cup {None}, creates : BOOLEAN,
              row : CrmRow]

CrmTypes == crm \in [CrmIds -> CrmRow] /\ filing \in [Handlers -> FilingRec]

\* An id that was drawn is not in use yet, and no other request has it.
DrawnInv == \A h \in Handlers : filing[h].creates =>
               /\ filing[h].id \in CrmIds \ Registered
               /\ \A o \in Handlers \ {h} : filing[o].id # filing[h].id

FilingInv == \A h \in Handlers : filing[h].pc # "idle" => filing[h].id \in CrmIds

RivalsInv == \A c \in Registered : Rivals(c, crm[c]) = {}
RefusedInv == \A d \in duplicates : d[2] # {}

CInv == CrmTypes /\ DrawnInv /\ FilingInv /\ RivalsInv /\ RefusedInv

\* There is no client at first, and no request.
LEMMA InitCInv == CrmInit => CInv
<1> SUFFICES ASSUME CrmInit PROVE CInv
  OBVIOUS
<1>1. CrmTypes
  BY DEF CrmInit, CrmTypes, CrmRow, FilingRec, NoClient, NoFiling
<1>2. DrawnInv /\ FilingInv
  BY DEF CrmInit, DrawnInv, FilingInv, NoFiling
<1>3. RivalsInv /\ RefusedInv
  BY DEF CrmInit, RivalsInv, RefusedInv, Registered
<1> QED
  BY <1>1, <1>2, <1>3 DEF CInv

\* A request under way that ends, or goes on with what it files, as long as its row is not
\* written.
LEMMA FilingStep ==
    ASSUME CInv, NEW h \in Handlers, NEW w \in FilingRec, FilingGoes(h, w), crm' = crm, RefusedInv',
           \/ w = NoFiling
           \/ /\ filing[h].pc # "idle"
              /\ w.id = filing[h].id /\ w.creates = filing[h].creates
    PROVE  CInv'
<1>1. /\ filing' \in [Handlers -> FilingRec] /\ filing'[h] = w
      /\ \A o \in Handlers \ {h} : filing'[o] = filing[o]
  BY DEF FilingGoes, CInv, CrmTypes
<1>2. CrmTypes' /\ RivalsInv'
  BY <1>1 DEF CInv, CrmTypes, RivalsInv, Registered, Rivals
<1>3. FilingInv'
  BY <1>1 DEF CInv, FilingInv, NoFiling
<1>4. \A o \in Handlers :
         /\ filing'[o].creates => filing[o].creates /\ filing'[o].id = filing[o].id
         /\ filing'[o].id \in {filing[o].id, None}
  BY <1>1 DEF NoFiling
<1>5. DrawnInv'
  BY <1>4, CrmAssumption DEF CInv, DrawnInv, Registered
<1> QED
  BY <1>2, <1>3, <1>5 DEF CInv

\* A client is filed, under an id of his own when he is new.
LEMMA FileClientStep == ASSUME CInv, NEW h \in Handlers, FileClient(h) PROVE CInv'
<1>1. PICK c \in CrmIds, e \in CrmEmails \cup {None}, i \in Ices \cup {None} :
        LET w == [NoFiling EXCEPT !.pc = "email", !.id = c, !.row.email = e, !.row.ice = i]
        IN  \/ /\ c \notin Registered /\ \A o \in Handlers : filing[o].id # c
               /\ \E owner \in CrmOwners :
                     FilingGoes(h, [w EXCEPT !.creates = TRUE, !.row.owner = owner])
            \/ c \in Registered /\ FilingGoes(h, [w EXCEPT !.row.owner = crm[c].owner])
  BY DEF FileClient
<1> DEFINE w == [NoFiling EXCEPT !.pc = "email", !.id = c, !.row.email = e, !.row.ice = i]
<1>3. /\ DOMAIN w = DOMAIN NoFiling /\ DOMAIN w.row = DOMAIN NoClient
      /\ w \in FilingRec /\ w.id = c /\ ~w.creates /\ w.pc = "email"
  BY DEF NoFiling, NoClient, FilingRec, CrmRow
<1> HIDE DEF w
<1>4. \A owner \in CrmOwners \cup {None} :
        /\ [w EXCEPT !.creates = TRUE, !.row.owner = owner] \in FilingRec
        /\ [w EXCEPT !.row.owner = owner] \in FilingRec
        /\ [w EXCEPT !.creates = TRUE, !.row.owner = owner].id = c
        /\ [w EXCEPT !.row.owner = owner].id = c
        /\ ~[w EXCEPT !.row.owner = owner].creates
  BY <1>3 DEF FilingRec, CrmRow
<1>5. PICK v \in FilingRec : /\ FilingGoes(h, v) /\ v.id = c
                             /\ \/ c \notin Registered /\ \A o \in Handlers : filing[o].id # c
                                \/ c \in Registered /\ ~v.creates
  <2>1. crm[c].owner \in CrmOwners \cup {None}
    BY DEF CInv, CrmTypes, CrmRow
  <2> QED
    BY <1>1, <1>4, <2>1 DEF w
<1>6. /\ filing' \in [Handlers -> FilingRec] /\ filing'[h] = v
      /\ \A o \in Handlers \ {h} : filing'[o] = filing[o]
  BY <1>5 DEF FilingGoes, CInv, CrmTypes
<1>7. UNCHANGED <<crm, duplicates>>
  BY DEF FileClient
<1>8. CrmTypes' /\ RivalsInv' /\ RefusedInv'
  BY <1>6, <1>7 DEF CInv, CrmTypes, RivalsInv, RefusedInv, Registered, Rivals
<1>9. FilingInv'
  BY <1>5, <1>6 DEF CInv, FilingInv
<1>10. DrawnInv'
  BY <1>5, <1>6, <1>7 DEF CInv, DrawnInv, Registered
<1> QED
  BY <1>8, <1>9, <1>10 DEF CInv

\* A look-up that finds a row found a rival.
LEMMA LookUpStep ==
    ASSUME CInv, NEW h \in Handlers, NEW found \in BOOLEAN, NEW next \in {"ice", "write"},
           filing[h].pc \in {"email", "ice"}, LookUp(h, found, next), crm' = crm,
           found => Rivals(filing[h].id, filing[h].row) # {}
    PROVE  CInv'
<1>1. filing[h] \in FilingRec
  BY DEF CInv, CrmTypes
<1>2. CASE FilingGoes(h, NoFiling)
  <2>1. NoFiling \in FilingRec
    BY DEF FilingRec, CrmRow, NoFiling, NoClient
  <2>2. RefusedInv'
    BY DEF LookUp, CInv, RefusedInv
  <2> QED
    BY <1>2, <2>1, <2>2, FilingStep
<1>3. CASE FilingMoves(h, next) /\ duplicates' = duplicates
  <2> DEFINE w == [filing[h] EXCEPT !.pc = next]
  <2>1. w \in FilingRec /\ w.id = filing[h].id /\ w.creates = filing[h].creates
    BY <1>1 DEF FilingRec
  <2>2. FilingGoes(h, w)
    BY <1>3 DEF FilingMoves
  <2> HIDE DEF w
  <2>3. RefusedInv'
    BY <1>3 DEF CInv, RefusedInv
  <2> QED
    BY <2>1, <2>2, <2>3, FilingStep
<1> QED
  BY <1>2, <1>3 DEF LookUp

\* The e-mail is looked for.
LEMMA EmailLookUpStep == ASSUME CInv, NEW h \in Handlers, EmailLookUp(h) PROVE CInv'
<1> DEFINE w == filing[h]
           found == w.row.email # None /\ \E c \in Others(w) : crm[c].email = w.row.email
<1>1. filing[h].pc = "email" /\ crm' = crm /\ LookUp(h, found, "ice")
  <2>1. CASE w.row.email = None
    BY <2>1 DEF EmailLookUp, FilingAt
  <2>2. CASE w.row.email # None
    <3>1. found = (\E c \in Others(w) : crm[c].email = w.row.email)
      BY <2>2
    <3> QED
      BY <2>2, <3>1 DEF EmailLookUp, FilingAt
  <2> QED
    BY <2>1, <2>2
<1>2. found => Rivals(w.id, w.row) # {}
  <2> SUFFICES ASSUME w.row.email # None, NEW c \in Others(w), crm[c].email = w.row.email
               PROVE  c \in Rivals(w.id, w.row)
    OBVIOUS
  <2>1. c \in Registered /\ crm[c].owner = w.row.owner /\ c # w.id
    BY DEF Others, CInv, DrawnInv
  <2> QED
    BY <2>1 DEF Rivals
<1> HIDE DEF found
<1>3. found \in BOOLEAN
  BY DEF found
<1> QED
  BY <1>1, <1>2, <1>3, LookUpStep

\* The ICE is looked for.
LEMMA IceLookUpStep == ASSUME CInv, NEW h \in Handlers, IceLookUp(h) PROVE CInv'
<1> DEFINE w == filing[h]
           found == w.row.ice # None /\ \E c \in Others(w) : crm[c].ice = w.row.ice
<1>1. filing[h].pc = "ice" /\ crm' = crm /\ LookUp(h, found, "write")
  <2>1. CASE w.row.ice = None
    BY <2>1 DEF IceLookUp, FilingAt
  <2>2. CASE w.row.ice # None
    <3>1. found = (\E c \in Others(w) : crm[c].ice = w.row.ice)
      BY <2>2
    <3> QED
      BY <2>2, <3>1 DEF IceLookUp, FilingAt
  <2> QED
    BY <2>1, <2>2
<1>2. found => Rivals(w.id, w.row) # {}
  <2> SUFFICES ASSUME w.row.ice # None, NEW c \in Others(w), crm[c].ice = w.row.ice
               PROVE  c \in Rivals(w.id, w.row)
    OBVIOUS
  <2>1. c \in Registered /\ crm[c].owner = w.row.owner /\ c # w.id
    BY DEF Others, CInv, DrawnInv
  <2> QED
    BY <2>1 DEF Rivals
<1> HIDE DEF found
<1>3. found \in BOOLEAN
  BY DEF found
<1> QED
  BY <1>1, <1>2, <1>3, LookUpStep

\* Being a rival goes both ways: a row that has none gives none to the others.
LEMMA RowWritten ==
    ASSUME CInv, NEW id \in CrmIds, NEW row \in CrmRow, Rivals(id, row) = {},
           crm' = [crm EXCEPT ![id] = row]
    PROVE  /\ crm' \in [CrmIds -> CrmRow] /\ Registered' \subseteq Registered \cup {id}
           /\ RivalsInv'
<1>1. /\ crm' \in [CrmIds -> CrmRow] /\ crm'[id] = row
      /\ \A c \in CrmIds \ {id} : crm'[c] = crm[c]
  BY DEF CInv, CrmTypes
<1>2. /\ Registered' \subseteq Registered \cup {id} /\ Registered \subseteq CrmIds
      /\ Registered' \ {id} \subseteq Registered
  BY <1>1 DEF Registered
<1>3. RivalsInv'
  <2> SUFFICES ASSUME NEW c \in Registered', NEW d \in Registered' \ {c},
                      crm'[d].owner = crm'[c].owner,
                      \/ crm'[c].email # None /\ crm'[d].email = crm'[c].email
                      \/ /\ crm'[c].ice # None /\ crm'[d].ice # None
                         /\ UpperOf[crm'[d].ice] = UpperOf[crm'[c].ice]
               PROVE  FALSE
    BY DEF RivalsInv, Rivals
  <2>1. CASE c = id
    <3>1. d \in Registered \ {id} /\ crm'[d] = crm[d]
      BY <1>1, <1>2, <2>1
    <3> QED
      BY <1>1, <2>1, <3>1 DEF Rivals
  <2>2. CASE d = id
    <3>1. c \in Registered \ {id} /\ crm'[c] = crm[c]
      BY <1>1, <1>2, <2>2
    <3> QED
      BY <1>1, <2>2, <3>1 DEF Rivals
  <2>3. CASE c # id /\ d # id
    <3>1. c \in Registered /\ crm'[c] = crm[c] /\ d \in Registered /\ crm'[d] = crm[d]
      BY <1>1, <1>2, <2>3
    <3> QED
      BY <3>1 DEF CInv, RivalsInv, Rivals
  <2> QED
    BY <2>1, <2>2, <2>3
<1> QED
  BY <1>1, <1>2, <1>3

\* A row is written when the indexes set nothing against it.
LEMMA WriteClientStep == ASSUME CInv, NEW h \in Handlers, WriteClient(h) PROVE CInv'
<1>0. NoFiling \in FilingRec
  BY DEF FilingRec, CrmRow, NoFiling, NoClient
<1>1. /\ FilingGoes(h, NoFiling) /\ filing[h].id \in CrmIds /\ filing[h].row \in CrmRow
  BY DEF WriteClient, FilingAt, CInv, CrmTypes, FilingInv, FilingRec
<1>2. CASE crm' = crm
  <2>1. RefusedInv'
    BY DEF WriteClient, RefusedByIndex, CInv, RefusedInv
  <2> QED
    BY <1>0, <1>1, <1>2, <2>1, FilingStep
<1>3. ASSUME NEW id \in CrmIds, NEW row \in CrmRow, id = filing[h].id, row = filing[h].row,
             filing[h].creates \/ id \in Registered, Rivals(id, row) = {},
             crm' = [crm EXCEPT ![id] = row], UNCHANGED duplicates
      PROVE  CInv'
  <2>1. /\ filing' \in [Handlers -> FilingRec] /\ filing'[h] = NoFiling
        /\ \A o \in Handlers \ {h} : filing'[o] = filing[o]
    BY <1>0, <1>1 DEF FilingGoes, CInv, CrmTypes
  <2>2. /\ crm' \in [CrmIds -> CrmRow] /\ Registered' \subseteq Registered \cup {id}
        /\ RivalsInv'
    BY <1>3, RowWritten
  <2>3. CrmTypes' /\ FilingInv' /\ RefusedInv'
    BY <1>3, <2>1, <2>2 DEF CInv, CrmTypes, FilingInv, RefusedInv, NoFiling
  <2>4. \A o \in Handlers :
           /\ filing'[o].creates => filing[o].creates /\ filing'[o].id = filing[o].id
           /\ filing'[o].id \in {filing[o].id, None}
           /\ filing'[o].creates => filing[o].id # id
    <3>1. \A o \in Handlers \ {h} : filing[o].creates => filing[o].id # id
      BY <1>3 DEF CInv, DrawnInv
    <3> QED
      BY <2>1, <3>1 DEF NoFiling
  <2>5. DrawnInv'
    <3> SUFFICES ASSUME NEW k \in Handlers, filing'[k].creates
                 PROVE  /\ filing'[k].id \in CrmIds \ Registered'
                        /\ \A o \in Handlers \ {k} : filing'[o].id # filing'[k].id
      BY DEF DrawnInv
    <3>1. /\ filing[k].creates /\ filing'[k].id = filing[k].id /\ filing[k].id # id
      BY <2>4
    <3>2. /\ filing[k].id \in CrmIds \ Registered
          /\ \A o \in Handlers \ {k} : filing[o].id # filing[k].id
      BY <3>1 DEF CInv, DrawnInv
    <3>3. filing'[k].id \in CrmIds \ Registered'
      BY <2>2, <3>1, <3>2
    <3>4. ASSUME NEW o \in Handlers \ {k} PROVE filing'[o].id # filing'[k].id
      BY <2>4, <3>1, <3>2, CrmAssumption
    <3> QED
      BY <3>3, <3>4
  <2> QED
    BY <2>2, <2>3, <2>5 DEF CInv
<1> QED
  BY <1>1, <1>2, <1>3 DEF WriteClient, RefusedByIndex

\* A client goes.
LEMMA RemoveClientStep == ASSUME CInv, RemoveClient PROVE CInv'
<1>1. PICK c \in CrmIds : crm' = [crm EXCEPT ![c] = NoClient]
  BY DEF RemoveClient, Registered
<1>2. UNCHANGED <<filing, duplicates>>
  BY DEF RemoveClient
<1>3. /\ crm' \in [CrmIds -> CrmRow] /\ crm'[c] = NoClient
      /\ \A d \in CrmIds \ {c} : crm'[d] = crm[d]
  BY <1>1 DEF CInv, CrmTypes, CrmRow, NoClient
<1>4. Registered' \subseteq Registered /\ \A d \in Registered' : crm'[d] = crm[d]
  BY <1>3 DEF Registered
<1>5. RivalsInv'
  BY <1>4 DEF CInv, RivalsInv, Rivals
<1>6. CrmTypes' /\ DrawnInv' /\ FilingInv' /\ RefusedInv'
  BY <1>2, <1>3, <1>4 DEF CInv, CrmTypes, DrawnInv, FilingInv, RefusedInv
<1> QED
  BY <1>5, <1>6 DEF CInv

\* Every step of the clients preserves the invariant.
LEMMA NextCInv == ASSUME CInv, [CrmNext]_<<crmVars, counters>> PROVE CInv'
<1>1. CASE CrmNext
  BY <1>1, RemoveClientStep, FileClientStep, EmailLookUpStep, IceLookUpStep, WriteClientStep
     DEF CrmNext
<1>2. CASE UNCHANGED <<crmVars, counters>>
  BY <1>2 DEF crmVars, CInv, CrmTypes, DrawnInv, FilingInv, RivalsInv, RefusedInv,
     Registered, Rivals
<1> QED
  BY <1>1, <1>2

\* The invariant keeps the clients of an owner apart.
LEMMA ClientsKept == CInv => ClientsApart
BY DEF CInv, RivalsInv, RefusedInv, ClientsApart

\* The unique indexes behind clients.service.ts: two clients of an owner never share an
\* e-mail or an ICE, however look-ups and writes interleave and whatever look-up fails, and
\* a request that is refused as a duplicate had another client against it.
THEOREM OwnersClientsApart == CrmSpec => []ClientsApart
BY ClientsKept, InitCInv, NextCInv, PTL DEF CrmSpec

\* A client has an owner, and so has the row a request files.
OwnerInv ==
    /\ \A c \in CrmIds : crm[c] # NoClient => crm[c].owner \in CrmOwners
    /\ \A h \in Handlers : filing[h].pc # "idle" => filing[h].row.owner \in CrmOwners

\* A look-up ends a request or takes it on with its row, and no client is touched.
LEMMA LookUpKeepsOwner ==
    ASSUME CInv, OwnerInv, NEW h \in Handlers, filing[h].pc # "idle", crm' = crm,
           NEW p \in {"ice", "write"}, FilingGoes(h, NoFiling) \/ FilingMoves(h, p)
    PROVE  OwnerInv'
<1>1. ASSUME NEW o \in Handlers, filing'[o].pc # "idle"
      PROVE  filing[o].pc # "idle" /\ filing'[o].row = filing[o].row
  BY <1>1 DEF CInv, CrmTypes, FilingRec, FilingGoes, FilingMoves, NoFiling
<1> QED
  BY <1>1 DEF OwnerInv

\* Every step leaves each client its owner.
LEMMA NextOwnerInv ==
    ASSUME CInv, OwnerInv, [CrmNext]_<<crmVars, counters>>
    PROVE  OwnerInv'
<1>1. ASSUME NEW h \in Handlers, FileClient(h)
      PROVE  OwnerInv'
  <2>1. PICK c \in CrmIds, e \in CrmEmails \cup {None}, i \in Ices \cup {None} :
          LET w == [NoFiling EXCEPT !.pc = "email", !.id = c, !.row.email = e, !.row.ice = i]
          IN  \/ /\ c \notin Registered /\ \A o \in Handlers : filing[o].id # c
                 /\ \E owner \in CrmOwners :
                       FilingGoes(h, [w EXCEPT !.creates = TRUE, !.row.owner = owner])
              \/ c \in Registered /\ FilingGoes(h, [w EXCEPT !.row.owner = crm[c].owner])
    BY <1>1 DEF FileClient
  <2> DEFINE w == [NoFiling EXCEPT !.pc = "email", !.id = c, !.row.email = e, !.row.ice = i]
  <2>2. DOMAIN w = DOMAIN NoFiling /\ DOMAIN w.row = DOMAIN NoClient /\ w \in FilingRec
    BY DEF NoFiling, NoClient, FilingRec, CrmRow
  <2> HIDE DEF w
  <2>3. \A owner \in CrmOwners :
          /\ [w EXCEPT !.creates = TRUE, !.row.owner = owner].row.owner = owner
          /\ [w EXCEPT !.row.owner = owner].row.owner = owner
    BY <2>2 DEF FilingRec, CrmRow
  <2>4. c \in Registered => crm[c].owner \in CrmOwners
    BY DEF OwnerInv, Registered
  <2>5. PICK v : FilingGoes(h, v) /\ v.row.owner \in CrmOwners
    BY <2>1, <2>3, <2>4 DEF w
  <2>6. crm' = crm
    BY <1>1 DEF FileClient
  <2> QED
    BY <2>5, <2>6 DEF OwnerInv, FilingGoes, CInv, CrmTypes
<1>2. ASSUME NEW h \in Handlers, EmailLookUp(h) \/ IceLookUp(h)
      PROVE  OwnerInv'
  <2>1. /\ filing[h].pc # "idle" /\ crm' = crm
        /\ \E p \in {"ice", "write"} : FilingGoes(h, NoFiling) \/ FilingMoves(h, p)
    BY <1>2 DEF EmailLookUp, IceLookUp, FilingAt, LookUp
  <2> QED
    BY <2>1, LookUpKeepsOwner
<1>3. ASSUME NEW h \in Handlers, WriteClient(h)
      PROVE  OwnerInv'
  <2>1. /\ filing[h].pc = "write" /\ filing' = [filing EXCEPT ![h] = NoFiling]
        /\ crm' \in {crm, [crm EXCEPT ![filing[h].id] = filing[h].row]}
    BY <1>3 DEF WriteClient, FilingAt, FilingGoes
  <2> QED
    BY <2>1 DEF OwnerInv, CInv, CrmTypes, FilingInv, NoFiling
<1>4. ASSUME RemoveClient
      PROVE  OwnerInv'
  <2>1. PICK c \in Registered : crm' = [crm EXCEPT ![c] = NoClient]
    BY <1>4 DEF RemoveClient
  <2>2. filing' = filing
    BY <1>4 DEF RemoveClient
  <2> QED
    BY <2>1, <2>2 DEF OwnerInv, CInv, CrmTypes
<1>5. CASE UNCHANGED <<crmVars, counters>>
  BY <1>5 DEF OwnerInv, crmVars
<1> QED
  BY <1>1, <1>2, <1>3, <1>4, <1>5 DEF CrmNext

LEMMA InitOwnerInv == CrmInit => OwnerInv
BY DEF CrmInit, OwnerInv, NoFiling

LEMMA CrmTypesHold == CInv /\ OwnerInv => CrmTypeOK
BY DEF CInv, CrmTypes, CrmRow, OwnerInv, CrmTypeOK

\* A client of the office has an owner, and an e-mail and an ICE of those given or none.
THEOREM CrmTyped == CrmSpec => []CrmTypeOK
BY CrmTypesHold, InitOwnerInv, InitCInv, NextCInv, NextOwnerInv, PTL DEF CrmSpec

----------------------------------------------------------------------------
(* Files a user uploads *)

AssetTypes       == {"image", "video", "raw"}
HandlingRec == [pc : {"idle", "upload", "persist", "destroy", "delete"},
                user : Uploaders \cup {None}, file : Files \cup {None},
                kinds : Seq(AssetTypes), kind : AssetTypes \cup {None}]

MediaTypes ==
    /\ asset \in [Files -> AssetTypes \cup {None}]
    /\ mediaRow \in [Files -> [kind : AssetTypes, owner : Uploaders] \cup {None}]
    /\ mediaTold \in [Files -> {None, "stored", "refused", "removed"}]
    /\ handling \in [Handlers -> HandlingRec]

\* What a request knows of its file: an upload has it to itself, a deletion shares it.
MayPersist(h) ==
    LET w == handling[h]
    IN  /\ w.file \in Files /\ w.kind \in AssetTypes /\ asset[w.file] = w.kind
        /\ mediaTold[w.file] = None
        /\ \A o \in Handlers \ {h} : handling[o].file # w.file
MayRemove(h) ==
    LET w == handling[h]
    IN  /\ w.file \in Files /\ mediaTold[w.file] # None
        /\ mediaRow[w.file] # None => w.kind = mediaRow[w.file].kind
        /\ mediaTold[w.file] = "stored" /\ mediaRow[w.file] = None => w.kind = "image"
        /\ w.pc = "delete" /\ mediaRow[w.file] # None => asset[w.file] = None

HandlerInv(h) ==
    /\ handling[h].pc \in {"upload", "persist"} =>
          handling[h].user \in Uploaders /\ handling[h].kinds # <<>>
    /\ handling[h].pc = "persist" => MayPersist(h)
    /\ handling[h].pc \in {"destroy", "delete"} => MayRemove(h)

FileInv(f) ==
    /\ mediaTold[f] = None => mediaRow[f] = None
    /\ mediaRow[f] # None =>
          /\ mediaTold[f] = "stored" /\ asset[f] \in {mediaRow[f].kind, None}
          /\ asset[f] = None => f \in halfDone \cup taken \/ Removing(f)
    /\ mediaTold[f] = "removed" => asset[f] = None
    /\ mediaTold[f] = "stored" /\ mediaRow[f] = None => asset[f] = "raw"

LInv == /\ MediaTypes
        /\ \A h \in Handlers : HandlerInv(h)
        /\ \A f \in Files : FileInv(f)

\* There is no file at first, and no request.
LEMMA InitLInv == MediaInit => LInv
<1> SUFFICES ASSUME MediaInit PROVE LInv
  OBVIOUS
<1>1. NoHandling \in HandlingRec
  BY DEF NoHandling, HandlingRec
<1>2. MediaTypes
  BY <1>1 DEF MediaInit, MediaTypes
<1>3. \A h \in Handlers : HandlerInv(h)
  BY DEF MediaInit, HandlerInv, NoHandling
<1>4. \A f \in Files : FileInv(f)
  BY MediaAssumption DEF MediaInit, FileInv
<1> QED
  BY <1>2, <1>3, <1>4 DEF LInv

\* A step that leaves the files alone, for a request that goes on with w.
LEMMA RequestStep ==
    ASSUME LInv, NEW h \in Handlers, NEW w \in HandlingRec, MediaGoes(h, w),
           UNCHANGED <<asset, mediaRow, mediaTold, taken>>, halfDone \subseteq halfDone',
           HandlerInv(h)', w.file \in {handling[h].file, None} \/ mediaTold[w.file] # None,
           handling[h].pc = "delete" => \/ ~Owns(handling[h].user, handling[h].file)
                                        \/ handling[h].file \in halfDone'
    PROVE  LInv'
<1>1. /\ handling' \in [Handlers -> HandlingRec] /\ handling'[h] = w
      /\ \A o \in Handlers \ {h} : handling'[o] = handling[o]
  BY DEF MediaGoes, LInv, MediaTypes
<1>2. MediaTypes'
  BY <1>1 DEF LInv, MediaTypes
<1>3. ASSUME NEW o \in Handlers \ {h} PROVE HandlerInv(o)'
  <2>1. HandlerInv(o) /\ handling'[o] = handling[o]
    BY <1>1 DEF LInv
  <2>2. CASE handling[o].pc = "persist"
    <3>1. MayPersist(o)
      BY <2>1, <2>2 DEF HandlerInv
    <3>2. w.file # handling[o].file
      BY <3>1, MediaAssumption DEF MayPersist
    <3>3. MayPersist(o)'
      BY <1>1, <2>1, <3>1, <3>2 DEF MayPersist
    <3> QED
      BY <2>1, <2>2, <3>3 DEF HandlerInv
  <2>3. CASE handling[o].pc # "persist"
    BY <2>1, <2>3 DEF HandlerInv, MayRemove
  <2> QED
    BY <2>2, <2>3
<1>4. ASSUME NEW f \in Files PROVE FileInv(f)'
  <2>1. FileInv(f)
    BY DEF LInv
  <2>2. ASSUME mediaRow[f] # None, Removing(f) PROVE f \in halfDone' \/ Removing(f)'
    BY <1>1, <2>2 DEF Removing, Owns, MediaAt
  <2> QED
    BY <2>1, <2>2 DEF FileInv
<1> QED
  BY <1>2, <1>3, <1>4 DEF LInv

\* A request that ends.
LEMMA EndOfRequest ==
    /\ NoHandling \in HandlingRec /\ NoHandling.file = None
    /\ NoHandling.pc = "idle" /\ NoHandling.kinds = <<>>
  BY DEF NoHandling, HandlingRec

\* An upload begins, with a batch of files.
LEMMA BeginUploadStep == ASSUME LInv, NEW h \in Handlers, BeginUpload(h) PROVE LInv'
<1>1. PICK u \in Uploaders, kinds \in Batches :
        MediaGoes(h, [NoHandling EXCEPT !.pc = "upload", !.user = u, !.kinds = kinds])
  BY DEF BeginUpload
<1> DEFINE w == [NoHandling EXCEPT !.pc = "upload", !.user = u, !.kinds = kinds]
<1>2. kinds \in Seq(AssetTypes) /\ kinds # <<>>
  <2>1. \A k \in AssetTypes : <<k>> \in Seq(AssetTypes) /\ <<k>> # <<>>
    OBVIOUS
  <2>2. <<"image", "video">> \in Seq(AssetTypes) /\ <<"image", "video">> # <<>>
    BY DEF AssetTypes
  <2> QED
    BY <2>1, <2>2 DEF Batches, AssetKinds, AssetTypes
<1>3. /\ w \in HandlingRec /\ w.file = None
      /\ w.pc = "upload" /\ w.user = u /\ w.kinds = kinds
  BY <1>2 DEF NoHandling, HandlingRec
<1>4. MediaGoes(h, w) /\ UNCHANGED <<asset, mediaRow, mediaTold, halfDone, taken>>
      /\ handling[h].pc = "idle"
  BY <1>1 DEF BeginUpload, MediaAt
<1> HIDE DEF w
<1>5. handling'[h] = w
  BY <1>4 DEF MediaGoes, LInv, MediaTypes
<1>6. HandlerInv(h)'
  BY <1>2, <1>3, <1>5 DEF HandlerInv
<1> QED
  BY <1>3, <1>4, <1>6, RequestStep

\* A deletion begins: the row says which type the file has.
LEMMA BeginRemoveStep == ASSUME LInv, NEW h \in Handlers, BeginRemove(h) PROVE LInv'
<1>1. PICK f \in Files, u \in Uploaders :
        /\ mediaTold[f] # None
        /\ MediaGoes(h, [NoHandling EXCEPT !.pc = "destroy", !.user = u, !.file = f,
                                           !.kind = KindOf(f)])
  BY DEF BeginRemove
<1> DEFINE w == [NoHandling EXCEPT !.pc = "destroy", !.user = u, !.file = f, !.kind = KindOf(f)]
<1>2. KindOf(f) \in AssetTypes
  BY DEF KindOf, AssetTypes, LInv, MediaTypes
<1>3. /\ w \in HandlingRec /\ w.file = f
      /\ w.pc = "destroy" /\ w.user = u /\ w.kind = KindOf(f)
  BY <1>2, EndOfRequest DEF HandlingRec
<1>4. MediaGoes(h, w) /\ UNCHANGED <<asset, mediaRow, mediaTold, halfDone, taken>>
      /\ handling[h].pc = "idle"
  BY <1>1 DEF BeginRemove, MediaAt
<1> HIDE DEF w
<1>5. handling'[h] = w
  BY <1>4 DEF MediaGoes, LInv, MediaTypes
<1>6. MayRemove(h)'
  BY <1>1, <1>3, <1>4, <1>5 DEF MayRemove, KindOf
<1>7. HandlerInv(h)'
  BY <1>3, <1>5, <1>6 DEF HandlerInv
<1> QED
  BY <1>1, <1>3, <1>4, <1>7, RequestStep

\* A file is uploaded: it is new, no other request has it.
LEMMA UploadBufferStep == ASSUME LInv, NEW h \in Handlers, UploadBuffer(h) PROVE LInv'
<1> DEFINE w == handling[h]
           f == AnyOf(NewFiles)
           v == [w EXCEPT !.pc = "persist", !.file = f, !.kind = Head(w.kinds)]
<1>1. /\ handling[h].pc = "upload" /\ w \in HandlingRec
      /\ UNCHANGED <<mediaRow, mediaTold, halfDone, taken>>
  BY DEF UploadBuffer, MediaAt, LInv, MediaTypes
<1>2. f \in NewFiles
  BY DEF UploadBuffer, AnyOf
<1>3. /\ f \in Files /\ mediaTold[f] = None /\ \A o \in Handlers : handling[o].file # f
  BY <1>2 DEF NewFiles
<1>4. CASE MediaEnds(h) /\ UNCHANGED asset
  <2>1. handling'[h] = NoHandling
    BY <1>4 DEF MediaEnds, MediaGoes, LInv, MediaTypes
  <2>2. HandlerInv(h)'
    BY <2>1, EndOfRequest DEF HandlerInv
  <2> QED
    BY <1>1, <1>4, <2>2, EndOfRequest, RequestStep DEF MediaEnds
<1>5. CASE asset' = [asset EXCEPT ![f] = Head(w.kinds)] /\ MediaGoes(h, v)
  <2>1. w.kinds \in Seq(AssetTypes) /\ w.kinds # <<>> /\ w.user \in Uploaders
    BY <1>1 DEF LInv, HandlerInv, HandlingRec
  <2>2. Head(w.kinds) \in AssetTypes
    BY <2>1
  <2> HIDE DEF f
  <2>3. /\ v \in HandlingRec /\ v.pc = "persist" /\ v.user = w.user /\ v.file = f
        /\ v.kind = Head(w.kinds) /\ v.kinds = w.kinds
    BY <1>1, <1>3, <2>2 DEF HandlingRec
  <2>4. /\ handling' \in [Handlers -> HandlingRec] /\ handling'[h] = v
        /\ \A o \in Handlers \ {h} : handling'[o] = handling[o]
    BY <1>5, <2>3 DEF MediaGoes, LInv, MediaTypes
  <2>5. /\ asset' \in [Files -> AssetTypes \cup {None}] /\ asset'[f] = Head(w.kinds)
        /\ \A g \in Files \ {f} : asset'[g] = asset[g]
    BY <1>3, <1>5, <2>2 DEF LInv, MediaTypes
  <2> HIDE DEF v
  <2>6. MediaTypes'
    BY <1>1, <2>4, <2>5 DEF LInv, MediaTypes
  <2>7. HandlerInv(h)'
    <3>1. MayPersist(h)'
      BY <1>1, <1>3, <2>2, <2>3, <2>4, <2>5 DEF MayPersist
    <3> QED
      BY <2>1, <2>3, <2>4, <3>1 DEF HandlerInv
  <2>8. ASSUME NEW o \in Handlers \ {h} PROVE HandlerInv(o)'
    <3>1. HandlerInv(o) /\ handling'[o] = handling[o] /\ handling[o].file # f
      BY <1>3, <2>4 DEF LInv
    <3>2. CASE handling[o].pc = "persist"
      <4>1. MayPersist(o)
        BY <3>1, <3>2 DEF HandlerInv
      <4>2. MayPersist(o)'
        BY <1>1, <2>3, <2>4, <2>5, <3>1, <4>1 DEF MayPersist
      <4> QED
        BY <3>1, <3>2, <4>2 DEF HandlerInv
    <3>3. CASE handling[o].pc \in {"destroy", "delete"}
      <4>1. MayRemove(o)
        BY <3>1, <3>3 DEF HandlerInv
      <4>2. MayRemove(o)'
        BY <1>1, <2>5, <3>1, <4>1 DEF MayRemove
      <4> QED
        BY <3>1, <3>3, <4>2 DEF HandlerInv
    <3> QED
      BY <3>1, <3>2, <3>3 DEF HandlerInv
  <2>9. ASSUME NEW g \in Files PROVE FileInv(g)'
    <3>1. FileInv(g)
      BY DEF LInv
    <3>2. Removing(g) => Removing(g)'
      BY <1>1, <2>4 DEF Removing, Owns, MediaAt
    <3>3. CASE g = f
      BY <1>1, <1>3, <3>1, <3>3, MediaAssumption DEF FileInv
    <3>4. CASE g # f
      BY <1>1, <2>5, <3>1, <3>2, <3>4 DEF FileInv
    <3> QED
      BY <3>3, <3>4
  <2> QED
    BY <2>6, <2>7, <2>8, <2>9 DEF LInv
<1> QED
  BY <1>4, <1>5 DEF UploadBuffer

\* After a file the request goes on with the rest of its batch, or ends.
LEMMA NextFileGoes ==
    ASSUME LInv, NEW h \in Handlers, handling[h].pc = "persist", NextFile(h) \/ MediaEnds(h)
    PROVE  \E v \in HandlingRec :
              /\ MediaGoes(h, v) /\ v.file = None
              /\ \/ v.pc = "idle"
                 \/ v.pc = "upload" /\ v.user \in Uploaders /\ v.kinds # <<>>
<1> DEFINE w == handling[h]
           v == [w EXCEPT !.pc = "upload", !.kinds = Tail(@), !.file = None]
<1>1. w \in HandlingRec /\ w.user \in Uploaders /\ w.kinds # <<>>
  BY DEF LInv, MediaTypes, HandlerInv
<1>2. CASE MediaEnds(h)
  BY <1>2, EndOfRequest DEF MediaEnds
<1>3. CASE Len(w.kinds) # 1 /\ MediaGoes(h, v)
  <2>1. w.kinds \in Seq(AssetTypes)
    BY <1>1 DEF HandlingRec
  <2>2. Tail(w.kinds) \in Seq(AssetTypes) /\ Tail(w.kinds) # <<>>
    <3> DEFINE s == w.kinds
    <3>1. s \in Seq(AssetTypes) /\ s # <<>> /\ Len(s) # 1
      BY <1>1, <1>3, <2>1
    <3> HIDE DEF s
    <3>2. Tail(s) \in Seq(AssetTypes) /\ Len(Tail(s)) = Len(s) - 1 /\ Len(s) \in Nat
      BY <3>1
    <3>3. Len(Tail(s)) # 0
      BY <3>1, <3>2
    <3>4. Len(<<>>) = 0
      OBVIOUS
    <3>5. Tail(s) # <<>>
      BY <3>3, <3>4, Zenon
    <3> QED
      BY <3>2, <3>5 DEF s
  <2>3. /\ v \in HandlingRec /\ v.pc = "upload" /\ v.user = w.user /\ v.file = None
        /\ v.kinds = Tail(w.kinds)
    BY <1>1, <2>2 DEF HandlingRec
  <2> QED
    BY <1>1, <1>3, <2>2, <2>3
<1> QED
  BY <1>2, <1>3 DEF NextFile

\* The row of an uploaded file is written, or not.
LEMMA PersistUploadStep == ASSUME LInv, NEW h \in Handlers, PersistUpload(h) PROVE LInv'
<1> DEFINE w == handling[h]
           f == w.file
<1>1. /\ w.pc = "persist" /\ w \in HandlingRec /\ UNCHANGED <<asset, halfDone, taken>>
      /\ w.user \in Uploaders
  BY DEF PersistUpload, MediaAt, LInv, MediaTypes, HandlerInv
<1>2. MayPersist(h)
  BY <1>1 DEF LInv, HandlerInv
<1>3. /\ f \in Files /\ w.kind \in AssetTypes /\ asset[f] = w.kind /\ mediaTold[f] = None
      /\ \A o \in Handlers \ {h} : handling[o].file # f
  BY <1>2 DEF MayPersist
<1>4. PICK v \in HandlingRec :
         /\ MediaGoes(h, v) /\ v.file = None
         /\ \/ v.pc = "idle"
            \/ v.pc = "upload" /\ v.user \in Uploaders /\ v.kinds # <<>>
  BY <1>1, NextFileGoes DEF PersistUpload
<1>5. /\ handling' \in [Handlers -> HandlingRec] /\ handling'[h] = v
      /\ \A o \in Handlers \ {h} : handling'[o] = handling[o]
  BY <1>4 DEF MediaGoes, LInv, MediaTypes
\* What becomes of the file.
<1>6. /\ mediaRow' \in [Files -> [kind : AssetTypes, owner : Uploaders] \cup {None}]
      /\ mediaTold' \in [Files -> {None, "stored", "refused", "removed"}]
      /\ \A g \in Files \ {f} : mediaRow'[g] = mediaRow[g] /\ mediaTold'[g] = mediaTold[g]
      /\ \/ /\ mediaTold'[f] = "stored" /\ mediaRow'[f] # None
            /\ mediaRow'[f].kind = asset[f]
         \/ mediaTold'[f] = "stored" /\ mediaRow'[f] = None /\ asset[f] = "raw"
         \/ mediaTold'[f] = "refused" /\ mediaRow'[f] = None
  <2> HIDE DEF f
  <2>1. mediaRow[f] = None
    BY <1>3 DEF LInv, FileInv
  <2>2. CASE TellUser(f, "stored") /\ mediaRow' = [mediaRow EXCEPT ![f] = RowOf(w)]
    <3>1. /\ RowOf(w) \in [kind : AssetTypes, owner : Uploaders] /\ RowOf(w).kind = w.kind
          /\ RowOf(w) # None
      BY <1>1, <1>3, MediaAssumption DEF RowOf, AssetTypes
    <3> QED
      BY <1>3, <2>2, <3>1 DEF TellUser, LInv, MediaTypes
  <2>3. CASE TellUser(f, ToldWithoutRow(w)) /\ UNCHANGED mediaRow
    BY <1>3, <2>1, <2>3 DEF TellUser, ToldWithoutRow, LInv, MediaTypes
  <2> QED
    BY <2>2, <2>3 DEF PersistUpload, f
<1> HIDE DEF f
<1>7. MediaTypes'
  BY <1>1, <1>5, <1>6 DEF LInv, MediaTypes
<1>8. HandlerInv(h)'
  BY <1>4, <1>5 DEF HandlerInv
<1>9. ASSUME NEW o \in Handlers \ {h} PROVE HandlerInv(o)'
  <2>1. HandlerInv(o) /\ handling'[o] = handling[o] /\ handling[o].file # f
    BY <1>3, <1>5 DEF LInv
  <2>2. CASE handling[o].pc = "persist"
    <3>1. MayPersist(o)
      BY <2>1, <2>2 DEF HandlerInv
    <3>2. MayPersist(o)'
      BY <1>1, <1>3, <1>4, <1>5, <1>6, <2>1, <3>1, MediaAssumption DEF MayPersist
    <3> QED
      BY <2>1, <2>2, <3>2 DEF HandlerInv
  <2>3. CASE handling[o].pc \in {"destroy", "delete"}
    <3>1. MayRemove(o)
      BY <2>1, <2>3 DEF HandlerInv
    <3>2. MayRemove(o)'
      BY <1>1, <1>6, <2>1, <3>1 DEF MayRemove
    <3> QED
      BY <2>1, <2>3, <3>2 DEF HandlerInv
  <2> QED
    BY <2>1, <2>2, <2>3 DEF HandlerInv
<1>10. ASSUME NEW g \in Files PROVE FileInv(g)'
  <2>1. FileInv(g) /\ (mediaRow'[g] = mediaRow[g] => (Removing(g) => Removing(g)'))
    BY <1>1, <1>5 DEF LInv, Removing, Owns, MediaAt
  <2>2. CASE g = f
    BY <1>1, <1>3, <1>6, <2>2, MediaAssumption DEF FileInv, AssetTypes
  <2>3. CASE g # f
    BY <1>1, <1>6, <2>1, <2>3 DEF FileInv
  <2> QED
    BY <2>2, <2>3
<1> QED
  BY <1>7, <1>8, <1>9, <1>10 DEF LInv

\* What Cloudinary destroys was to go, and goes for good.
LEMMA DestroyStep == ASSUME LInv, NEW h \in Handlers, Destroy(h) PROVE LInv'
<1> DEFINE w == handling[h]
           f == w.file
           destroyed == [asset EXCEPT ![f] = IF @ = w.kind THEN None ELSE @]
<1>1. /\ w.pc = "destroy" /\ w \in HandlingRec /\ UNCHANGED <<mediaRow, mediaTold>>
      /\ halfDone \subseteq halfDone' /\ taken \subseteq taken'
      /\ asset' = asset \/ Owns(w.user, f) \/ f \in taken'
  BY DEF Destroy, MediaAt, LInv, MediaTypes
<1>2. MayRemove(h)
  BY <1>1 DEF LInv, HandlerInv
<1>3. f \in Files /\ mediaTold[f] # None
  BY <1>2 DEF MayRemove
<1>4. PICK v \in HandlingRec :
         /\ handling' = [handling EXCEPT ![h] = v]
         /\ \/ v.pc = "idle" /\ v.file = None /\ f \in halfDone' /\ asset' \in {asset, destroyed}
            \/ /\ v.pc = "delete" /\ v.file = f /\ v.user = w.user /\ v.kind = w.kind
               /\ asset' = destroyed
  <2>1. CASE asset' = destroyed /\ MediaGoes(h, [w EXCEPT !.pc = "delete"])
    <3> DEFINE v == [w EXCEPT !.pc = "delete"]
    <3>1. /\ v \in HandlingRec /\ v.pc = "delete" /\ v.file = f /\ v.user = w.user
          /\ v.kind = w.kind
      BY <1>1 DEF HandlingRec
    <3>2. handling' = [handling EXCEPT ![h] = v]
      BY <2>1 DEF MediaGoes
    <3> HIDE DEF v, destroyed
    <3> QED
      BY <2>1, <3>1, <3>2
  <2>2. CASE asset' \in {asset, destroyed} /\ MediaEnds(h) /\ f \in halfDone'
    <3> HIDE DEF destroyed
    <3> QED
      BY <2>2, EndOfRequest DEF MediaEnds, MediaGoes
  <2> QED
    BY <2>1, <2>2 DEF Destroy
<1>5. /\ handling' \in [Handlers -> HandlingRec] /\ handling'[h] = v
      /\ \A o \in Handlers \ {h} : handling'[o] = handling[o]
  BY <1>4 DEF LInv, MediaTypes
<1>6. /\ asset' \in [Files -> AssetTypes \cup {None}]
      /\ \A g \in Files \ {f} : asset'[g] = asset[g]
      /\ asset'[f] \in {asset[f], None} /\ (asset'[f] # asset[f] => asset[f] = w.kind)
      /\ v.pc = "delete" /\ asset[f] = w.kind => asset'[f] = None
  <2>1. asset' \in {asset, destroyed} /\ (v.pc = "delete" => asset' = destroyed)
    BY <1>4
  <2>2. /\ destroyed \in [Files -> AssetTypes \cup {None}]
        /\ \A g \in Files \ {f} : destroyed[g] = asset[g]
        /\ destroyed[f] = IF asset[f] = w.kind THEN None ELSE asset[f]
    BY <1>3 DEF LInv, MediaTypes
  <2>3. asset \in [Files -> AssetTypes \cup {None}]
    BY DEF LInv, MediaTypes
  <2> HIDE DEF destroyed, f
  <2> QED
    BY <2>1, <2>2, <2>3
<1>7. /\ FileInv(f)
      /\ mediaRow[f] # None => w.kind = mediaRow[f].kind
      /\ mediaTold[f] = "stored" /\ mediaRow[f] = None => w.kind = "image"
  BY <1>2, <1>3 DEF MayRemove, LInv
<1> HIDE DEF f
<1>8. MediaTypes'
  BY <1>1, <1>5, <1>6 DEF LInv, MediaTypes
<1>9. HandlerInv(h)'
  <2>1. CASE v.pc = "idle"
    BY <1>5, <2>1 DEF HandlerInv
  <2>2. CASE v.pc = "delete"
    <3>1. v.file = f /\ v.user = w.user /\ v.kind = w.kind
      BY <1>4, <2>2
    <3>2. mediaRow[f] # None => asset'[f] = None
      BY <1>3, <1>6, <1>7, <2>2 DEF FileInv
    <3>3. MayRemove(h)'
      BY <1>1, <1>2, <1>3, <1>5, <3>1, <3>2 DEF MayRemove, f
    <3> QED
      BY <1>5, <2>2, <3>3 DEF HandlerInv
  <2> QED
    BY <1>4, <2>1, <2>2
<1>10. ASSUME NEW o \in Handlers \ {h} PROVE HandlerInv(o)'
  <2>1. HandlerInv(o) /\ handling'[o] = handling[o]
    BY <1>5 DEF LInv
  <2>2. CASE handling[o].pc = "persist"
    <3>1. MayPersist(o)
      BY <2>1, <2>2 DEF HandlerInv
    <3>2. handling[o].file # f /\ handling'[h].file # handling[o].file
      BY <1>3, <1>4, <1>5, <3>1, MediaAssumption DEF MayPersist
    <3>3. MayPersist(o)'
      BY <1>1, <1>5, <1>6, <2>1, <3>1, <3>2 DEF MayPersist
    <3> QED
      BY <2>1, <2>2, <3>3 DEF HandlerInv
  <2>3. CASE handling[o].pc \in {"destroy", "delete"}
    <3>1. MayRemove(o)
      BY <2>1, <2>3 DEF HandlerInv
    <3>2. handling[o].file \in Files /\ (asset[handling[o].file] = None
                                         => asset'[handling[o].file] = None)
      BY <1>6, <3>1 DEF MayRemove
    <3>3. MayRemove(o)'
      BY <1>1, <2>1, <3>1, <3>2 DEF MayRemove
    <3> QED
      BY <2>1, <2>3, <3>3 DEF HandlerInv
  <2> QED
    BY <2>1, <2>2, <2>3 DEF HandlerInv
<1>11. ASSUME NEW g \in Files PROVE FileInv(g)'
  <2>1. FileInv(g) /\ (mediaRow'[g] = mediaRow[g] => (Removing(g) => Removing(g)'))
    BY <1>1, <1>5 DEF LInv, Removing, Owns, MediaAt
  <2>2. CASE g # f
    BY <1>1, <1>6, <2>1, <2>2 DEF FileInv
  <2>3. CASE g = f
    <3>1. mediaRow[g] # None => \/ g \in halfDone' \cup taken' \/ Removing(g)'
                                \/ asset'[g] = asset[g] /\ ~Removing(g)
      BY <1>1, <1>4, <1>5, <2>3 DEF Removing, Owns, MediaAt
    <3>2. mediaTold[f] = "stored" /\ mediaRow[f] = None => asset'[f] = "raw"
      BY <1>6, <1>7 DEF FileInv
    <3> QED
      BY <1>1, <1>6, <1>7, <2>3, <3>1, <3>2 DEF FileInv
  <2> QED
    BY <2>2, <2>3
<1> QED
  BY <1>8, <1>9, <1>10, <1>11 DEF LInv

\* The row goes after the file.
LEMMA DeleteByPublicIdStep == ASSUME LInv, NEW h \in Handlers, DeleteByPublicId(h) PROVE LInv'
<1> DEFINE w == handling[h]
           f == w.file
<1>1. /\ w.pc = "delete" /\ MediaEnds(h) /\ UNCHANGED <<asset, taken>>
      /\ halfDone \subseteq halfDone'
  BY DEF DeleteByPublicId, MediaAt
<1>2. /\ f \in Files /\ mediaTold[f] # None
      /\ mediaRow[f] # None => asset[f] = None
  BY <1>1 DEF LInv, HandlerInv, MayRemove
<1>3. handling'[h] = NoHandling
  BY <1>1 DEF MediaEnds, MediaGoes, LInv, MediaTypes
<1>4. HandlerInv(h)'
  BY <1>3, EndOfRequest DEF HandlerInv
<1>5. CASE UNCHANGED <<mediaRow, mediaTold>> /\ (~Owns(w.user, f) \/ f \in halfDone')
  BY <1>1, <1>4, <1>5, EndOfRequest, RequestStep DEF MediaEnds
<1>6. CASE /\ mediaRow[f] # None /\ TellUser(f, "removed")
           /\ mediaRow' = [mediaRow EXCEPT ![f] = None] /\ UNCHANGED halfDone
  <2> HIDE DEF f
  <2>1. /\ mediaRow' \in [Files -> [kind : AssetTypes, owner : Uploaders] \cup {None}]
        /\ mediaTold' \in [Files -> {None, "stored", "refused", "removed"}]
        /\ \A g \in Files \ {f} : mediaRow'[g] = mediaRow[g] /\ mediaTold'[g] = mediaTold[g]
        /\ mediaRow'[f] = None /\ mediaTold'[f] = "removed"
    BY <1>2, <1>6 DEF TellUser, LInv, MediaTypes
  <2>2. /\ handling' \in [Handlers -> HandlingRec] /\ handling'[h] = NoHandling
        /\ \A o \in Handlers \ {h} : handling'[o] = handling[o]
    BY <1>1, EndOfRequest DEF MediaEnds, MediaGoes, LInv, MediaTypes
  <2>3. MediaTypes'
    BY <1>1, <2>1, <2>2 DEF LInv, MediaTypes
  <2>4. ASSUME NEW o \in Handlers \ {h} PROVE HandlerInv(o)'
    <3>1. HandlerInv(o) /\ handling'[o] = handling[o]
      BY <2>2 DEF LInv
    <3>2. CASE handling[o].pc = "persist"
      <4>1. MayPersist(o)
        BY <3>1, <3>2 DEF HandlerInv
      <4>2. handling[o].file # f /\ NoHandling.file # handling[o].file
        BY <1>2, <4>1, EndOfRequest, MediaAssumption DEF MayPersist
      <4>3. MayPersist(o)'
        BY <1>1, <2>1, <2>2, <3>1, <4>1, <4>2 DEF MayPersist
      <4> QED
        BY <3>1, <3>2, <4>3 DEF HandlerInv
    <3>3. CASE handling[o].pc \in {"destroy", "delete"}
      <4>1. MayRemove(o)
        BY <3>1, <3>3 DEF HandlerInv
      <4>2. MayRemove(o)'
        BY <1>1, <2>1, <3>1, <4>1, MediaAssumption DEF MayRemove
      <4> QED
        BY <3>1, <3>3, <4>2 DEF HandlerInv
    <3> QED
      BY <3>1, <3>2, <3>3 DEF HandlerInv
  <2>5. ASSUME NEW g \in Files PROVE FileInv(g)'
    <3>1. FileInv(g)
      BY DEF LInv
    <3>2. CASE g = f
      BY <1>1, <1>2, <1>6, <2>1, <3>2, MediaAssumption DEF FileInv
    <3>3. CASE g # f
      <4>1. Removing(g) => Removing(g)'
        BY <2>1, <2>2, <3>3 DEF Removing, Owns, MediaAt, f
      <4> QED
        BY <1>1, <1>6, <2>1, <3>1, <3>3, <4>1 DEF FileInv
    <3> QED
      BY <3>2, <3>3
  <2> QED
    BY <1>4, <2>3, <2>4, <2>5 DEF LInv
<1> QED
  BY <1>2, <1>5, <1>6 DEF DeleteByPublicId, Owns

\* Every step of the library preserves the invariant.
LEMMA NextLInv == ASSUME LInv, [MediaNext]_<<mediaVars, counters>> PROVE LInv'
<1>1. CASE MediaNext
  BY <1>1, BeginUploadStep, UploadBufferStep, PersistUploadStep, BeginRemoveStep,
     DestroyStep,
     DeleteByPublicIdStep DEF MediaNext
<1>2. CASE UNCHANGED <<mediaVars, counters>>
  BY <1>2 DEF mediaVars, LInv, MediaTypes, HandlerInv, MayPersist, MayRemove, FileInv,
     Removing, Owns, MediaAt
<1> QED
  BY <1>1, <1>2

\* The invariant has the types of files, rows and requests.
LEMMA MediaTypesHold == LInv => MediaTypeOK
<1> SUFFICES ASSUME LInv, NEW f \in Files
             PROVE  /\ asset[f] \in AssetKinds \cup {None}
                    /\ mediaRow[f] # None => mediaRow[f].owner \in Uploaders
                    /\ mediaTold[f] \in {None, "stored", "refused", "removed"}
  BY DEF MediaTypeOK
<1> QED
  BY DEF LInv, MediaTypes, AssetTypes, AssetKinds

\* Files, their rows and what users were told keep their types.
THEOREM MediaTyped == MediaSpec => []MediaTypeOK
BY MediaTypesHold, InitLInv, NextLInv, PTL DEF MediaSpec

\* The invariant has the file of every row.
LEMMA FilesKept == LInv => FilesFollowRows
<1> SUFFICES ASSUME LInv PROVE FilesFollowRows
  OBVIOUS
<1>1. ASSUME NEW u \in Uploaders, NEW f \in Files, f \in ListMedia(u)
      PROVE  asset[f] = mediaRow[f].kind \/ f \in halfDone \cup taken \/ Removing(f)
  BY <1>1 DEF LInv, FileInv, ListMedia, Owns
<1>2. ASSUME NEW f \in Files
      PROVE  /\ mediaTold[f] = "removed" => asset[f] = None /\ mediaRow[f] = None
             /\ mediaTold[f] = "stored" /\ mediaRow[f] = None => asset[f] \in {"raw"}
  BY DEF LInv, FileInv
<1> QED
  BY <1>1, <1>2 DEF FilesFollowRows

\* Uploads and deletions of cloudinary.service.ts and media-files.service.ts: a row of the
\* library has its file, of its type, unless its owner's deletion is past Cloudinary, or a
\* deletion stopped there or came from another user, and a file that was removed is nowhere,
\* for any number of files, users and requests.
THEOREM LibraryFollowed == MediaSpec => []FilesFollowRows
BY FilesKept, InitLInv, NextLInv, PTL DEF MediaSpec

----------------------------------------------------------------------------
(* Mail from the user's own account *)

AccountRec == [box : Boxes, key : Boxes \cup {None}]
MailingRec == [pc : {"idle", "upsert", "transport", "smtp", "append", "sent", "failed"},
               user : MailUsers \cup {None}, kind : {None, "lead", "send", "reply"},
               mail : Mails \cup {None}, account : AccountRec \cup {None},
               origin : Boxes \cup {None}, key : Boxes \cup {None}]

PostTypes == /\ left \in [Mails -> Boxes \cup {None}] /\ filed \in [Mails -> SUBSET Boxes]
             /\ mailRow \in [Mails -> {None, "sent", "failed"}]
             /\ mailTold \in [Mails -> {None, "sent", "copied", "refused"}]
MailTypes == /\ PostTypes
             /\ mailbox \in [MailUsers -> AccountRec \cup {None}]
             /\ given \in [MailUsers -> Boxes \cup {None}]
             /\ mailing \in [Handlers -> MailingRec]

\* The stored password is the last one given, and the row an upsert will write keeps it.
AccountInv(u) == mailbox[u] # None => mailbox[u].key = given[u] \/ Excused("overtaken", u)
UpsertInv(h) ==
    LET w == mailing[h]
    IN  /\ w.user \in MailUsers /\ w.mail = None /\ w.account \in AccountRec
        /\ w.key # None => w.account.key = w.key
        /\ w.key = None => \/ mailbox[w.user] # None /\ w.account.key = mailbox[w.user].key
                           \/ Excused("overtaken", w.user)

\* A mail that a request carries is its own, and has no answer, row or copy yet.
OwnMailInv(h) ==
    LET w == mailing[h]
    IN  /\ w.user \in MailUsers /\ w.mail \in Mails
        /\ mailTold[w.mail] = None /\ mailRow[w.mail] = None /\ filed[w.mail] = {}
        /\ \A o \in Handlers \ {h} : mailing[o].mail # w.mail

\* The account a mail is carried with is the user's, unless that was switched, and a reply
\* is carried with the account its original is in.
WithAccount(h) ==
    LET w == mailing[h]
    IN  /\ w.account = mailbox[w.user] \/ Excused("switched", w.mail)
        /\ w.kind = "reply" => /\ w.account # None
                               /\ w.account.box = w.origin \/ Excused("switched", w.mail)
CarryInv(h) ==
    LET w == mailing[h]
    IN  /\ w.pc = "idle" => w.mail = None
        /\ w.pc = "upsert" => UpsertInv(h)
        /\ w.pc \notin {"idle", "upsert"} => OwnMailInv(h)
        /\ w.pc \in {"transport", "smtp"} => left[w.mail] = None
        /\ w.pc = "transport" => \/ mailbox[w.user] # None /\ mailbox[w.user].box = w.origin
                                 \/ Excused("switched", w.mail)
        /\ w.pc \in {"smtp", "append"} => WithAccount(h)
        /\ w.pc = "append" => w.account # None /\ left[w.mail] = w.account.box
        /\ w.pc = "sent" => left[w.mail] # None
        /\ w.pc = "failed" => left[w.mail] = None \/ Excused("answer lost", w.mail)

\* A mail nobody has asked for has not left.
UnsentInv(x) ==
    mailTold[x] = None /\ (\A h \in Handlers : mailing[h].mail # x) =>
       left[x] = None /\ mailRow[x] = None /\ filed[x] = {}

FateInv(x) ==
    /\ mailTold[x] \in {"sent", "copied"} \/ mailRow[x] = "sent" => left[x] # None
    /\ mailTold[x] = "refused" \/ mailRow[x] = "failed" =>
          \/ left[x] = None
          \/ Excused("answer lost", x) \/ Excused("unrecorded", x)
    /\ filed[x] # {} => left[x] # None
    /\ mailTold[x] = "copied" => left[x] \in filed[x] \/ Excused("switched", x)

MailInv == /\ MailTypes
           /\ \A u \in MailUsers : AccountInv(u)
           /\ \A h \in Handlers : CarryInv(h)
           /\ \A x \in Mails : UnsentInv(x) /\ FateInv(x)

\* There is no account at first, no mail and no request.
LEMMA InitMailInv == MailInit => MailInv
<1> SUFFICES ASSUME MailInit PROVE MailInv
  OBVIOUS
<1>1. NoMailing \in MailingRec /\ NoMailing.pc = "idle" /\ NoMailing.mail = None
  BY DEF NoMailing, MailingRec
<1>2. MailTypes
  BY <1>1 DEF MailInit, MailTypes, PostTypes
<1>3. \A u \in MailUsers : AccountInv(u)
  BY DEF MailInit, AccountInv
<1>4. \A h \in Handlers : CarryInv(h)
  BY <1>1 DEF MailInit, CarryInv
<1>5. \A x \in Mails : UnsentInv(x) /\ FateInv(x)
  BY MailAssumption DEF MailInit, UnsentInv, FateInv
<1> QED
  BY <1>2, <1>3, <1>4, <1>5 DEF MailInv

\* What a request knows stays true while others act, or it is excused.
LEMMA CarryKept ==
    ASSUME NEW o \in Handlers, CarryInv(o), mailing'[o] = mailing[o], mishaps \subseteq mishaps',
           \/ mailbox'[mailing[o].user] = mailbox[mailing[o].user]
           \/ mailing[o].pc = "upsert" /\ Excused("overtaken", mailing[o].user)'
           \/ mailing[o].pc # "upsert" /\ Excused("switched", mailing[o].mail)',
           mailing[o].mail \in Mails =>
              /\ left'[mailing[o].mail] = left[mailing[o].mail]
              /\ filed'[mailing[o].mail] = filed[mailing[o].mail]
              /\ mailRow'[mailing[o].mail] = mailRow[mailing[o].mail]
              /\ mailTold'[mailing[o].mail] = mailTold[mailing[o].mail]
              /\ \A k \in Handlers \ {o} : \/ mailing'[k].mail \in {mailing[k].mail, None}
                                           \/ mailing'[k].mail # mailing[o].mail
    PROVE  CarryInv(o)'
<1> DEFINE w == mailing[o]
<1>1. \A what, whom : <<what, whom>> \in mishaps => <<what, whom>> \in mishaps'
  OBVIOUS
<1>2. CASE w.pc = "idle"
  BY <1>2 DEF CarryInv
<1>3. CASE w.pc = "upsert"
  <2>1. UpsertInv(o)
    BY <1>3 DEF CarryInv
  <2>2. UpsertInv(o)'
    BY <1>1, <1>3, <2>1 DEF UpsertInv, Excused
  <2> QED
    BY <1>3, <2>2 DEF CarryInv
<1>4. CASE w.pc \notin {"idle", "upsert"}
  <2>1. OwnMailInv(o)
    BY <1>4 DEF CarryInv
  <2>2. w.mail \in Mails
    BY <2>1 DEF OwnMailInv
  <2>3. OwnMailInv(o)'
    <3>1. ASSUME NEW k \in Handlers \ {o} PROVE mailing'[k].mail # w.mail
      <4>1. mailing[k].mail # w.mail
        BY <2>1 DEF OwnMailInv
      <4> QED
        BY <2>2, <4>1, MailAssumption
    <3> QED
      BY <2>1, <2>2, <3>1 DEF OwnMailInv
  <2>4. mailbox'[w.user] = mailbox[w.user] \/ <<"switched", w.mail>> \in mishaps'
    BY <1>4 DEF Excused
  <2>5. WithAccount(o) => WithAccount(o)'
    BY <1>1, <2>4 DEF WithAccount, Excused
  <2> QED
    BY <1>1, <1>4, <2>2, <2>3, <2>4, <2>5 DEF CarryInv, Excused
<1> QED
  BY <1>2, <1>3, <1>4

\* A step of one request and its mail x.
LEMMA PostStep ==
    ASSUME MailInv, NEW h \in Handlers, NEW x \in Mails, NEW v \in MailingRec,
           mailing' = [mailing EXCEPT ![h] = v], UNCHANGED <<mailbox, given>>,
           mishaps \subseteq mishaps', PostTypes',
           \A y \in Mails \ {x} : /\ left'[y] = left[y] /\ filed'[y] = filed[y]
                                  /\ mailRow'[y] = mailRow[y] /\ mailTold'[y] = mailTold[y],
           mailing[h].mail \in {x, None}, v.mail \in {x, None},
           \A o \in Handlers \ {h} : mailing[o].mail # x,
           CarryInv(h)', UnsentInv(x)', FateInv(x)'
    PROVE  MailInv'
<1>1. /\ mailing' \in [Handlers -> MailingRec] /\ mailing'[h] = v
      /\ \A o \in Handlers \ {h} : mailing'[o] = mailing[o]
  BY DEF MailInv, MailTypes
<1>2. \A what, whom : <<what, whom>> \in mishaps => <<what, whom>> \in mishaps'
  OBVIOUS
<1>3. MailTypes'
  BY <1>1 DEF MailInv, MailTypes
<1>4. \A u \in MailUsers : AccountInv(u)'
  BY <1>2 DEF MailInv, AccountInv, Excused
<1>5. ASSUME NEW o \in Handlers \ {h} PROVE CarryInv(o)'
  <2>1. CarryInv(o) /\ mailing'[o] = mailing[o] /\ mailing[o].mail # x
    BY <1>1 DEF MailInv
  <2>2. \A k \in Handlers \ {o} : mailing'[k].mail \in {mailing[k].mail, None}
                                  \/ mailing'[k].mail # mailing[o].mail
    BY <1>1, <2>1
  <2> QED
    BY <2>1, <2>2, CarryKept
<1>6. ASSUME NEW y \in Mails \ {x} PROVE UnsentInv(y)' /\ FateInv(y)'
  <2>1. UnsentInv(y) /\ FateInv(y)
    BY DEF MailInv
  <2>2. (\A k \in Handlers : mailing'[k].mail # y) => \A k \in Handlers : mailing[k].mail # y
    BY <1>1, MailAssumption
  <2> QED
    BY <1>2, <2>1, <2>2 DEF UnsentInv, FateInv, Excused
<1> QED
  BY <1>3, <1>4, <1>5, <1>6 DEF MailInv

\* A request that ends.
LEMMA EndOfMailing ==
    /\ NoMailing \in MailingRec /\ NoMailing.pc = "idle" /\ NoMailing.mail = None
    /\ NoMailing.account = None /\ NoMailing.key = None
  BY DEF NoMailing, MailingRec

\* A step of the accounts: the mails stay as they are.
LEMMA AccountStep ==
    ASSUME MailInv, UNCHANGED posted, mishaps \subseteq mishaps',
           mailbox' \in [MailUsers -> AccountRec \cup {None}],
           given' \in [MailUsers -> Boxes \cup {None}], mailing' \in [Handlers -> MailingRec],
           \A h \in Handlers : mailing'[h].mail = mailing[h].mail,
           \A u \in MailUsers : AccountInv(u)', \A h \in Handlers : CarryInv(h)'
    PROVE  MailInv'
<1>1. MailTypes'
  BY DEF MailInv, MailTypes, PostTypes, posted
<1>2. \A what, whom : <<what, whom>> \in mishaps => <<what, whom>> \in mishaps'
  OBVIOUS
<1>3. ASSUME NEW x \in Mails PROVE UnsentInv(x)' /\ FateInv(x)'
  <2>1. UnsentInv(x) /\ FateInv(x)
    BY DEF MailInv
  <2> QED
    BY <1>2, <2>1 DEF UnsentInv, FateInv, Excused, posted
<1> QED
  BY <1>1, <1>3 DEF MailInv

\* An upsert reads the account.
LEMMA ReadForUpsertStep == ASSUME MailInv, NEW h \in Handlers, ReadForUpsert(h) PROVE MailInv'
<1>1. PICK u \in MailUsers, b \in Boxes, k \in Boxes \cup {None} :
        /\ k # None \/ mailbox[u] # None
        /\ MailGoes(h, [NoMailing EXCEPT !.pc = "upsert", !.user = u, !.key = k,
                          !.account = [box |-> b, key |-> IF k # None THEN k
                                                          ELSE mailbox[u].key]])
  BY DEF ReadForUpsert
<1>2. /\ mailing[h].pc = "idle" /\ UNCHANGED <<mailbox, posted, given, mishaps>>
      /\ mailing[h].mail = None
  BY DEF ReadForUpsert, MailAt, MailInv, CarryInv
<1> DEFINE a == [box |-> b, key |-> IF k # None THEN k ELSE mailbox[u].key]
           v == [NoMailing EXCEPT !.pc = "upsert", !.user = u, !.key = k, !.account = a]
<1>3. /\ a \in AccountRec /\ a.key = IF k # None THEN k ELSE mailbox[u].key
  BY <1>1 DEF AccountRec, MailInv, MailTypes
<1>4. MailGoes(h, v)
  BY <1>1
<1> HIDE DEF a
<1>5. /\ v \in MailingRec /\ v.pc = "upsert" /\ v.user = u /\ v.key = k /\ v.account = a
      /\ v.mail = None
  BY <1>3, EndOfMailing DEF MailingRec
<1> HIDE DEF v
<1>6. /\ mailing' \in [Handlers -> MailingRec] /\ mailing'[h] = v
      /\ \A o \in Handlers \ {h} : mailing'[o] = mailing[o]
  BY <1>4, <1>5 DEF MailGoes, MailInv, MailTypes
<1>7. UpsertInv(h)'
  BY <1>1, <1>2, <1>3, <1>5, <1>6 DEF UpsertInv
<1>8. CarryInv(h)'
  BY <1>5, <1>6, <1>7 DEF CarryInv
<1>9. ASSUME NEW o \in Handlers \ {h} PROVE CarryInv(o)'
  <2>1. CarryInv(o)
    BY DEF MailInv
  <2> QED
    BY <1>2, <1>5, <1>6, <2>1, CarryKept DEF posted
<1>10. \A u2 \in MailUsers : AccountInv(u2)'
  BY <1>2 DEF MailInv, AccountInv, Excused
<1>11. \A o \in Handlers : mailing'[o].mail = mailing[o].mail
  BY <1>2, <1>5, <1>6
<1> QED
  BY <1>2, <1>6, <1>8, <1>9, <1>10, <1>11, AccountStep DEF MailInv, MailTypes

\* Every other request of the user is excused.
LEMMA OvertakenAreExcused ==
    ASSUME NEW h, NEW u, NEW o \in Handlers \ {h}, mailing[o].user = u
    PROVE  /\ mailing[o].pc = "upsert" => <<"overtaken", u>> \in Overtaken(h, u)
           /\ mailing[o].pc # "upsert" => <<"switched", mailing[o].mail>> \in Overtaken(h, u)
<1>1. o \in {x \in Handlers \ {h} : mailing[x].user = u}
  OBVIOUS
<1> QED
  BY <1>1 DEF Overtaken

\* An account is written, or goes: h is the request that writes it.
LEMMA SwitchStep ==
    ASSUME MailInv, NEW h, NEW u \in MailUsers, NEW a \in AccountRec \cup {None},
           NEW g \in Boxes \cup {None},
           mailbox' = [mailbox EXCEPT ![u] = a], given' = [given EXCEPT ![u] = g],
           mishaps' = mishaps \cup Overtaken(h, u), UNCHANGED posted,
           mailing' \in [Handlers -> MailingRec],
           \A o \in Handlers \ {h} : mailing'[o] = mailing[o],
           h \in Handlers => mailing'[h] = NoMailing /\ mailing[h].mail = None,
           a # None => a.key = g \/ Excused("overtaken", u)
    PROVE  MailInv'
<1>1. /\ mailbox' \in [MailUsers -> AccountRec \cup {None}] /\ mailbox'[u] = a
      /\ given' \in [MailUsers -> Boxes \cup {None}] /\ given'[u] = g
      /\ \A t \in MailUsers \ {u} : mailbox'[t] = mailbox[t] /\ given'[t] = given[t]
  BY DEF MailInv, MailTypes
<1>2. mishaps \subseteq mishaps'
  OBVIOUS
<1>3. \A o \in Handlers : mailing'[o].mail = mailing[o].mail
  BY EndOfMailing
<1>4. ASSUME NEW t \in MailUsers PROVE AccountInv(t)'
  <2>1. AccountInv(t)
    BY DEF MailInv
  <2> QED
    BY <1>1, <1>2, <2>1 DEF AccountInv, Excused
<1>5. ASSUME NEW o \in Handlers PROVE CarryInv(o)'
  <2>1. CASE o = h
    BY <2>1, EndOfMailing DEF CarryInv
  <2>2. CASE o # h
    <3>1. CarryInv(o) /\ mailing'[o] = mailing[o]
      BY <2>2 DEF MailInv
    <3>2. CASE mailing[o].pc = "idle"
      BY <3>1, <3>2 DEF CarryInv
    <3>3. mailing[o].pc # "idle" => mailing[o].user \in MailUsers
      BY <3>1 DEF CarryInv, UpsertInv, OwnMailInv
    <3>4. CASE mailing[o].pc # "idle" /\ mailing[o].user # u
      <4>1. mailbox'[mailing[o].user] = mailbox[mailing[o].user]
        BY <1>1, <3>3, <3>4
      <4> QED
        BY <1>2, <1>3, <3>1, <4>1, CarryKept DEF posted
    <3>5. CASE mailing[o].user = u
      <4>1. \/ mailing[o].pc = "upsert" /\ Excused("overtaken", mailing[o].user)'
            \/ mailing[o].pc # "upsert" /\ Excused("switched", mailing[o].mail)'
        BY <2>2, <3>1, <3>5, OvertakenAreExcused DEF Excused
      <4> QED
        BY <1>2, <1>3, <3>1, <4>1, CarryKept DEF posted
    <3> QED
      BY <3>2, <3>4, <3>5
  <2> QED
    BY <2>1, <2>2
<1> QED
  BY <1>1, <1>2, <1>3, <1>4, <1>5, AccountStep

\* The upsert writes the row; its password is the new one, or the one that was stored.
LEMMA UpsertMineStep == ASSUME MailInv, NEW h \in Handlers, UpsertMine(h) PROVE MailInv'
<1> DEFINE w == mailing[h]
<1>1. w.pc = "upsert" /\ MailGoes(h, NoMailing) /\ UNCHANGED posted
  BY DEF UpsertMine, MailAt
<1>2. UpsertInv(h) /\ w \in MailingRec /\ w.mail = None
  BY <1>1 DEF MailInv, MailTypes, CarryInv, UpsertInv
<1>3. /\ mailing' \in [Handlers -> MailingRec] /\ mailing'[h] = NoMailing
      /\ \A o \in Handlers \ {h} : mailing'[o] = mailing[o]
  BY <1>1, EndOfMailing DEF MailGoes, MailInv, MailTypes
<1>4. CASE UNCHANGED <<mailbox, given, mishaps>>
  <2>1. CarryInv(h)'
    BY <1>3, EndOfMailing DEF CarryInv
  <2>2. ASSUME NEW o \in Handlers \ {h} PROVE CarryInv(o)'
    <3>1. CarryInv(o)
      BY DEF MailInv
    <3> QED
      BY <1>1, <1>3, <1>4, <3>1, CarryKept, EndOfMailing DEF posted
  <2>3. \A u \in MailUsers : AccountInv(u)'
    BY <1>4 DEF MailInv, AccountInv, Excused
  <2>4. \A o \in Handlers : mailing'[o].mail = mailing[o].mail
    BY <1>2, <1>3, EndOfMailing
  <2> QED
    BY <1>1, <1>3, <1>4, <2>1, <2>2, <2>3, <2>4, AccountStep DEF MailInv, MailTypes
<1>5. CASE /\ mailbox' = [mailbox EXCEPT ![w.user] = w.account]
           /\ given' = IF w.key = None THEN given ELSE [given EXCEPT ![w.user] = w.key]
           /\ mishaps' = mishaps \cup Overtaken(h, w.user)
  <2>1. PICK u \in MailUsers, a \in AccountRec : u = w.user /\ a = w.account
    BY <1>2 DEF UpsertInv
  <2> DEFINE g == IF w.key = None THEN given[u] ELSE w.key
  <2>2. g \in Boxes \cup {None}
    BY <1>2 DEF MailingRec, MailInv, MailTypes
  <2>3. given' = [given EXCEPT ![u] = g]
    <3>1. given = [given EXCEPT ![u] = given[u]]
      BY DEF MailInv, MailTypes
    <3> QED
      BY <1>5, <2>1, <3>1
  <2>4. a.key = g \/ Excused("overtaken", u)
    BY <1>2, <2>1 DEF UpsertInv, MailInv, AccountInv
  <2> HIDE DEF g
  <2> QED
    BY <1>1, <1>2, <1>3, <1>5, <2>1, <2>2, <2>3, <2>4, SwitchStep
<1> QED
  BY <1>4, <1>5 DEF UpsertMine, Saved

\* The account goes.
LEMMA DeleteMineStep == ASSUME MailInv, DeleteMine PROVE MailInv'
<1>1. PICK u \in MailUsers :
        /\ mailbox' = [mailbox EXCEPT ![u] = None] /\ given' = [given EXCEPT ![u] = None]
        /\ mishaps' = mishaps \cup Overtaken(None, u)
  BY DEF DeleteMine
<1>2. UNCHANGED <<posted, mailing>> /\ None \notin Handlers
  BY MailAssumption DEF DeleteMine
<1> QED
  BY <1>1, <1>2, SwitchStep DEF MailInv, MailTypes

\* A mail begins, with the account its user has.
LEMMA ComposeStep == ASSUME MailInv, NEW h \in Handlers, Compose(h) PROVE MailInv'
<1> DEFINE x == AnyOf(Unsent)
<1>1. /\ mailing[h].pc = "idle" /\ UNCHANGED <<mailbox, posted, given, mishaps>>
      /\ mailing[h].mail = None
  BY DEF Compose, MailAt, MailInv, CarryInv
<1>2. x \in Unsent
  BY DEF Compose, AnyOf
<1> HIDE DEF x
<1>3. /\ x \in Mails /\ mailTold[x] = None /\ \A o \in Handlers : mailing[o].mail # x
      /\ left[x] = None /\ mailRow[x] = None /\ filed[x] = {}
  BY <1>2 DEF Unsent, MailInv, UnsentInv
<1>4. PICK u \in MailUsers : mailbox[u] # None /\
        LET w == [NoMailing EXCEPT !.user = u, !.mail = x]
        IN  \/ MailGoes(h, ToLead(w)) \/ MailGoes(h, FromPage(w))
            \/ Opens(mailbox[u]) /\ MailGoes(h, OriginalRead(w))
  BY DEF Compose, x
<1> DEFINE w == [NoMailing EXCEPT !.user = u, !.mail = x]
<1>5. /\ w \in MailingRec /\ w.user = u /\ w.mail = x
  BY <1>3, EndOfMailing DEF MailingRec
<1>6. mailbox[u] \in AccountRec
  BY <1>4 DEF MailInv, MailTypes
<1> HIDE DEF w
<1>7. PICK v \in MailingRec :
        /\ mailing' = [mailing EXCEPT ![h] = v] /\ v.user = u /\ v.mail = x
        /\ \/ v.pc = "smtp" /\ v.account = mailbox[u] /\ v.kind # "reply"
           \/ v.pc = "transport" /\ mailbox[u].box = v.origin
  <2>1. CASE MailGoes(h, ToLead(w))
    <3>1. /\ ToLead(w) \in MailingRec /\ ToLead(w).user = u /\ ToLead(w).mail = x
          /\ ToLead(w).pc = "smtp" /\ ToLead(w).account = mailbox[u] /\ ToLead(w).kind = "lead"
      BY <1>5, <1>6 DEF ToLead, Carried, MailingRec
    <3> QED
      BY <2>1, <3>1 DEF MailGoes
  <2>2. CASE MailGoes(h, FromPage(w))
    <3>1. /\ FromPage(w) \in MailingRec /\ FromPage(w).user = u /\ FromPage(w).mail = x
          /\ FromPage(w).pc = "smtp" /\ FromPage(w).account = mailbox[u]
          /\ FromPage(w).kind = "send"
      BY <1>5, <1>6 DEF FromPage, Carried, MailingRec
    <3> QED
      BY <2>2, <3>1 DEF MailGoes
  <2>3. CASE MailGoes(h, OriginalRead(w))
    <3>1. mailbox[u].box \in Boxes
      BY <1>6 DEF AccountRec
    <3>2. /\ OriginalRead(w) \in MailingRec /\ OriginalRead(w).user = u
          /\ OriginalRead(w).mail = x /\ OriginalRead(w).pc = "transport"
          /\ OriginalRead(w).origin = mailbox[u].box
      BY <1>5, <3>1 DEF OriginalRead, MailingRec
    <3> QED
      BY <2>3, <3>2 DEF MailGoes
  <2> QED
    BY <1>4, <2>1, <2>2, <2>3 DEF w
<1>8. mailing'[h] = v /\ \A o \in Handlers \ {h} : mailing'[o] = mailing[o]
  BY <1>7 DEF MailInv, MailTypes
<1>9. CarryInv(h)'
  <2>1. OwnMailInv(h)'
    BY <1>1, <1>3, <1>7, <1>8 DEF OwnMailInv, posted
  <2>2. v.pc = "smtp" => WithAccount(h)'
    BY <1>1, <1>7, <1>8 DEF WithAccount
  <2> QED
    BY <1>1, <1>3, <1>4, <1>7, <1>8, <2>1, <2>2 DEF CarryInv, posted
<1>10. \A y \in Mails : FateInv(y)'
  BY <1>1 DEF MailInv, FateInv, posted, Excused
<1>11. \A y \in Mails \ {x} : UnsentInv(y)'
  BY <1>1, <1>7, <1>8, MailAssumption DEF MailInv, UnsentInv, posted
<1>12. \A y \in Mails : y = x => UnsentInv(y)'
  BY <1>1, <1>3 DEF UnsentInv, posted
<1>13. PostTypes'
  BY <1>1 DEF MailInv, MailTypes, PostTypes, posted
<1>14. \A y \in Mails : /\ left'[y] = left[y] /\ filed'[y] = filed[y]
                        /\ mailRow'[y] = mailRow[y] /\ mailTold'[y] = mailTold[y]
  BY <1>1 DEF posted
<1>15. PICK z \in Mails : z = x
  BY <1>3
<1> QED
  BY <1>1, <1>3, <1>7, <1>9, <1>10, <1>12, <1>13, <1>14, <1>15, PostStep

\* What a step of a request and its mail has to establish.
LEMMA MailStep ==
    ASSUME MailInv, NEW h \in Handlers, NEW x \in Mails, NEW v \in MailingRec,
           mailing[h].pc \notin {"idle", "upsert"}, mailing[h].mail = x,
           mailing' = [mailing EXCEPT ![h] = v], UNCHANGED <<mailbox, given>>,
           mishaps \subseteq mishaps', PostTypes',
           \A y \in Mails \ {x} : /\ left'[y] = left[y] /\ filed'[y] = filed[y]
                                  /\ mailRow'[y] = mailRow[y] /\ mailTold'[y] = mailTold[y],
           FateInv(x)',
           \/ v = NoMailing /\ mailTold'[x] # None
           \/ /\ v.mail = x /\ CarryInv(h)'
    PROVE  MailInv'
<1>1. OwnMailInv(h)
  BY DEF MailInv, CarryInv
<1>2. \A o \in Handlers \ {h} : mailing[o].mail # x
  BY <1>1 DEF OwnMailInv
<1>3. mailing'[h] = v
  BY DEF MailInv, MailTypes
<1>4. CASE v = NoMailing /\ mailTold'[x] # None
  <2>1. CarryInv(h)'
    BY <1>3, <1>4, EndOfMailing DEF CarryInv
  <2>2. UnsentInv(x)'
    BY <1>4 DEF UnsentInv
  <2> QED
    BY <1>2, <1>4, <2>1, <2>2, EndOfMailing, PostStep
<1>5. CASE v.mail = x /\ CarryInv(h)'
  <2>1. UnsentInv(x)'
    BY <1>3, <1>5 DEF UnsentInv
  <2> QED
    BY <1>2, <1>5, <2>1, PostStep
<1> QED
  BY <1>4, <1>5

\* The answer of a request.
LEMMA RepliesTell ==
    ASSUME MailInv, NEW h \in Handlers, NEW x \in Mails, mailing[h].mail = x,
           NEW what \in {"sent", "copied", "refused"}, Replies(h, what)
    PROVE  /\ mailing' = [mailing EXCEPT ![h] = NoMailing]
           /\ mailTold' \in [Mails -> {None, "sent", "copied", "refused"}]
           /\ mailTold'[x] = what /\ what # None
           /\ \A y \in Mails \ {x} : mailTold'[y] = mailTold[y]
BY MailAssumption DEF Replies, MailGoes, MailInv, MailTypes, PostTypes

\* A reply gets its transport, with the account as it is by now.
LEMMA GetTransporterStep == ASSUME MailInv, NEW h \in Handlers, GetTransporter(h) PROVE MailInv'
<1> DEFINE w == mailing[h]
<1>1. /\ w.pc = "transport" /\ w \in MailingRec
      /\ UNCHANGED <<mailbox, left, filed, mailRow, given, mishaps>>
  BY DEF GetTransporter, MailAt, MailInv, MailTypes
<1>2. CarryInv(h) /\ OwnMailInv(h)
  BY <1>1 DEF MailInv, CarryInv
<1>3. PICK x \in Mails : x = w.mail
  BY <1>2 DEF OwnMailInv
<1>4. left[x] = None /\ mailTold[x] = None /\ mailRow[x] = None /\ filed[x] = {}
  BY <1>1, <1>2, <1>3 DEF CarryInv, OwnMailInv
<1>5. CASE Replies(h, "refused")
  <2>1. /\ mailing' = [mailing EXCEPT ![h] = NoMailing]
        /\ mailTold' \in [Mails -> {None, "sent", "copied", "refused"}]
        /\ mailTold'[x] = "refused" /\ mailTold'[x] # None
        /\ \A y \in Mails \ {x} : mailTold'[y] = mailTold[y]
    BY <1>3, <1>5, RepliesTell
  <2>2. PostTypes'
    BY <1>1, <2>1 DEF MailInv, MailTypes, PostTypes
  <2>3. FateInv(x)'
    BY <1>1, <1>4, <2>1, MailAssumption DEF FateInv
  <2> QED
    BY <1>1, <1>3, <2>1, <2>2, <2>3, EndOfMailing, MailStep
<1>6. CASE /\ mailbox[w.user] # None /\ UNCHANGED mailTold
           /\ MailGoes(h, Carried(w, "reply", mailbox[w.user]))
  <2> DEFINE v == Carried(w, "reply", mailbox[w.user])
  <2>1. mailbox[w.user] \in AccountRec
    BY <1>2, <1>6 DEF OwnMailInv, MailInv, MailTypes
  <2>2. /\ v \in MailingRec /\ v.pc = "smtp" /\ v.kind = "reply" /\ v.account = mailbox[w.user]
        /\ v.user = w.user /\ v.mail = x /\ v.origin = w.origin
    BY <1>1, <1>3, <2>1 DEF Carried, MailingRec
  <2>3. mailing' = [mailing EXCEPT ![h] = v]
    BY <1>6 DEF MailGoes
  <2> HIDE DEF v
  <2>4. mailing'[h] = v /\ \A o \in Handlers \ {h} : mailing'[o] = mailing[o]
    BY <2>2, <2>3 DEF MailInv, MailTypes
  <2>5. OwnMailInv(h)'
    BY <1>1, <1>2, <1>3, <1>6, <2>2, <2>4 DEF OwnMailInv
  <2>6. mailbox[w.user].box = w.origin \/ <<"switched", x>> \in mishaps
    BY <1>1, <1>2, <1>3 DEF CarryInv, Excused
  <2>7. WithAccount(h)'
    BY <1>1, <1>6, <2>2, <2>4, <2>6 DEF WithAccount, Excused
  <2>8. CarryInv(h)'
    BY <1>1, <1>4, <2>2, <2>4, <2>5, <2>7 DEF CarryInv
  <2>9. PostTypes' /\ FateInv(x)'
    BY <1>1, <1>6 DEF MailInv, MailTypes, PostTypes, FateInv, Excused
  <2> QED
    BY <1>1, <1>3, <1>6, <2>2, <2>3, <2>8, <2>9, MailStep
<1> QED
  BY <1>5, <1>6 DEF GetTransporter

\* The mail leaves, or fails; an answer that is lost leaves a mail that is told to have failed.
LEMMA SendMailStep == ASSUME MailInv, NEW h \in Handlers, SendMail(h) PROVE MailInv'
<1> DEFINE w == mailing[h]
<1>1. /\ w.pc = "smtp" /\ w \in MailingRec
      /\ UNCHANGED <<mailbox, filed, mailRow, given>> /\ mishaps \subseteq mishaps'
  BY DEF SendMail, MailAt, MailInv, MailTypes
<1>2. CarryInv(h) /\ OwnMailInv(h) /\ WithAccount(h)
  BY <1>1 DEF MailInv, CarryInv
<1>3. PICK x \in Mails : x = w.mail
  BY <1>2 DEF OwnMailInv
<1>4. left[x] = None /\ mailTold[x] = None /\ mailRow[x] = None /\ filed[x] = {}
  BY <1>1, <1>2, <1>3 DEF CarryInv, OwnMailInv
<1>5. \A what, whom : <<what, whom>> \in mishaps => <<what, whom>> \in mishaps'
  BY <1>1
<1>6. ASSUME Opens(w.account), left' = [left EXCEPT ![x] = w.account.box]
      PROVE  /\ w.account \in AccountRec /\ left' \in [Mails -> Boxes \cup {None}]
             /\ left'[x] = w.account.box /\ left'[x] # None
             /\ \A y \in Mails \ {x} : left'[y] = left[y]
  <2>1. w.account \in AccountRec /\ w.account.box \in Boxes
    BY <1>1, <1>6 DEF Opens, MailingRec, AccountRec
  <2> QED
    BY <1>6, <2>1, MailAssumption DEF MailInv, MailTypes, PostTypes
\* What a mail that goes on keeps.
<1>7. ASSUME NEW pc \in {"sent", "append", "failed"},
             MailGoes(h, [w EXCEPT !.pc = pc]), mailTold' = mailTold
      PROVE  \E v \in MailingRec :
                /\ mailing' = [mailing EXCEPT ![h] = v] /\ mailing'[h] = v
                /\ v.pc = pc /\ v.mail = x /\ v.account = w.account /\ v.kind = w.kind
                /\ OwnMailInv(h)' /\ WithAccount(h)'
  <2> DEFINE v == [w EXCEPT !.pc = pc]
  <2>1. /\ v \in MailingRec /\ v.pc = pc /\ v.mail = x /\ v.account = w.account
        /\ v.kind = w.kind /\ v.user = w.user /\ v.origin = w.origin
    BY <1>1, <1>3 DEF MailingRec
  <2>2. mailing' = [mailing EXCEPT ![h] = v]
    BY <1>7 DEF MailGoes
  <2> HIDE DEF v
  <2>3. mailing'[h] = v /\ \A o \in Handlers \ {h} : mailing'[o] = mailing[o]
    BY <2>1, <2>2 DEF MailInv, MailTypes
  <2>4. OwnMailInv(h)'
    BY <1>1, <1>2, <1>3, <1>7, <2>1, <2>3 DEF OwnMailInv
  <2>5. WithAccount(h)'
    BY <1>1, <1>2, <1>3, <1>5, <2>1, <2>3 DEF WithAccount, Excused
  <2> QED
    BY <2>1, <2>2, <2>3, <2>4, <2>5
<1>8. CASE /\ Opens(w.account) /\ left' = [left EXCEPT ![x] = w.account.box]
           /\ MailGoes(h, [w EXCEPT !.pc = IF w.kind = "lead" THEN "sent" ELSE "append"])
           /\ UNCHANGED <<mailTold, mishaps>>
  <2>1. PICK pc \in {"sent", "append"} : MailGoes(h, [w EXCEPT !.pc = pc])
    BY <1>8
  <2>2. PICK v \in MailingRec :
            /\ mailing' = [mailing EXCEPT ![h] = v] /\ mailing'[h] = v
            /\ v.pc = pc /\ v.mail = x /\ v.account = w.account /\ v.kind = w.kind
            /\ OwnMailInv(h)' /\ WithAccount(h)'
    BY <1>7, <1>8, <2>1
  <2>3. CarryInv(h)'
    BY <1>6, <1>8, <2>1, <2>2 DEF CarryInv, Opens
  <2>4. PostTypes'
    BY <1>1, <1>6, <1>8 DEF MailInv, MailTypes, PostTypes
  <2>5. FateInv(x)'
    BY <1>1, <1>4, <1>8, MailAssumption DEF FateInv
  <2> QED
    BY <1>1, <1>3, <1>6, <1>8, <2>2, <2>3, <2>4, <2>5, MailStep
<1>9. CASE /\ Failed(h)
           /\ \/ UNCHANGED <<left, mishaps>>
              \/ /\ Opens(w.account) /\ left' = [left EXCEPT ![x] = w.account.box]
                 /\ Excused("answer lost", x)'
  <2>1. /\ left' \in [Mails -> Boxes \cup {None}] /\ \A y \in Mails \ {x} : left'[y] = left[y]
        /\ left'[x] = None \/ <<"answer lost", x>> \in mishaps'
    <3>1. CASE UNCHANGED left
      BY <1>4, <3>1 DEF MailInv, MailTypes, PostTypes
    <3> QED
      BY <1>6, <1>9, <3>1 DEF Excused
  <2>2. CASE MailGoes(h, [w EXCEPT !.pc = "failed"]) /\ UNCHANGED mailTold
    <3>1. PICK v \in MailingRec :
              /\ mailing' = [mailing EXCEPT ![h] = v] /\ mailing'[h] = v
              /\ v.pc = "failed" /\ v.mail = x /\ v.account = w.account /\ v.kind = w.kind
              /\ OwnMailInv(h)' /\ WithAccount(h)'
      BY <1>7, <2>2
    <3>2. CarryInv(h)'
      BY <2>1, <3>1 DEF CarryInv, Excused
    <3>3. PostTypes'
      BY <1>1, <2>1, <2>2 DEF MailInv, MailTypes, PostTypes
    <3>4. FateInv(x)'
      BY <1>1, <1>4, <2>1, <2>2, MailAssumption DEF FateInv, Excused
    <3> QED
      BY <1>1, <1>3, <2>1, <2>2, <3>1, <3>2, <3>3, <3>4, MailStep
  <2>3. CASE Replies(h, "refused")
    <3>1. /\ mailing' = [mailing EXCEPT ![h] = NoMailing]
          /\ mailTold' \in [Mails -> {None, "sent", "copied", "refused"}]
          /\ mailTold'[x] = "refused" /\ mailTold'[x] # None
          /\ \A y \in Mails \ {x} : mailTold'[y] = mailTold[y]
      BY <1>3, <2>3, RepliesTell
    <3>2. PostTypes'
      BY <1>1, <2>1, <3>1 DEF MailInv, MailTypes, PostTypes
    <3>3. FateInv(x)'
      BY <1>1, <1>4, <2>1, <3>1, MailAssumption DEF FateInv, Excused
    <3> QED
      BY <1>1, <1>3, <2>1, <3>1, <3>2, <3>3, EndOfMailing, MailStep
  <2> QED
    BY <1>9, <2>2, <2>3 DEF Failed
<1> QED
  BY <1>3, <1>8, <1>9 DEF SendMail, Excused

\* The row of a mail to a lead.
LEMMA InsertEmailMessageStep ==
    ASSUME MailInv, NEW h \in Handlers, InsertEmailMessage(h) PROVE MailInv'
<1> DEFINE w == mailing[h]
<1>1. /\ w.pc \in {"sent", "failed"} /\ UNCHANGED <<mailbox, left, filed, given>>
      /\ mishaps \subseteq mishaps'
  BY DEF InsertEmailMessage
<1>2. CarryInv(h) /\ OwnMailInv(h)
  BY <1>1 DEF MailInv, CarryInv
<1>3. PICK x \in Mails : x = w.mail
  BY <1>2 DEF OwnMailInv
<1>4. mailTold[x] = None /\ mailRow[x] = None /\ filed[x] = {}
  BY <1>2, <1>3 DEF OwnMailInv
<1>5. /\ w.pc = "sent" => left[x] # None
      /\ w.pc = "failed" => left[x] = None \/ Excused("answer lost", x)'
  BY <1>1, <1>2, <1>3 DEF CarryInv, Excused
<1>6. PICK what \in {"sent", "refused"} :
        /\ Replies(h, what)
        /\ what = "sent" => w.pc = "sent"
        /\ mailRow' \in [Mails -> {None, "sent", "failed"}]
        /\ \A y \in Mails \ {x} : mailRow'[y] = mailRow[y]
        /\ mailRow'[x] \in {None, w.pc}
        /\ what = "refused" => w.pc = "failed" \/ Excused("unrecorded", x)'
        /\ mailRow'[x] = "failed" => w.pc = "failed"
  <2>1. CASE /\ mailRow' = [mailRow EXCEPT ![w.mail] = w.pc]
             /\ Replies(h, IF w.pc = "sent" THEN "sent" ELSE "refused")
    BY <1>1, <1>3, <2>1 DEF MailInv, MailTypes, PostTypes
  <2>2. CASE Replies(h, "refused") /\ UNCHANGED mailRow /\ Excused("unrecorded", x)'
    BY <1>3, <1>4, <2>2, MailAssumption DEF MailInv, MailTypes, PostTypes
  <2> QED
    BY <1>3, <2>1, <2>2 DEF InsertEmailMessage, Excused
<1>7. /\ mailing' = [mailing EXCEPT ![h] = NoMailing]
      /\ mailTold' \in [Mails -> {None, "sent", "copied", "refused"}]
      /\ mailTold'[x] = what /\ mailTold'[x] # None
      /\ \A y \in Mails \ {x} : mailTold'[y] = mailTold[y]
  BY <1>3, <1>6, RepliesTell
<1>8. PostTypes'
  BY <1>1, <1>6, <1>7 DEF MailInv, MailTypes, PostTypes
<1>9. FateInv(x)'
  BY <1>1, <1>4, <1>5, <1>6, <1>7, MailAssumption DEF FateInv
<1> QED
  BY <1>1, <1>3, <1>6, <1>7, <1>8, <1>9, EndOfMailing, MailStep

\* The copy in the Sent folder: of the account the mail left from, unless it was switched.
LEMMA AppendToSentStep == ASSUME MailInv, NEW h \in Handlers, AppendToSent(h) PROVE MailInv'
<1> DEFINE w == mailing[h]
           mine == mailbox[w.user]
<1>1. w.pc = "append" /\ UNCHANGED <<mailbox, left, mailRow, given, mishaps>>
  BY DEF AppendToSent, MailAt
<1>2. CarryInv(h) /\ OwnMailInv(h) /\ WithAccount(h) /\ w \in MailingRec
  BY <1>1 DEF MailInv, CarryInv, MailTypes
<1>3. PICK x \in Mails : x = w.mail
  BY <1>2 DEF OwnMailInv
<1>4. /\ mailTold[x] = None /\ mailRow[x] = None /\ filed[x] = {}
      /\ w.account \in AccountRec /\ left[x] = w.account.box /\ left[x] # None
  BY <1>1, <1>2, <1>3, MailAssumption DEF OwnMailInv, CarryInv, MailingRec, AccountRec
<1>5. mine = w.account \/ Excused("switched", x)
  BY <1>2, <1>3 DEF WithAccount
<1>6. PICK what \in {"sent", "copied"} :
        /\ Replies(h, what)
        /\ filed' \in [Mails -> SUBSET Boxes]
        /\ \A y \in Mails \ {x} : filed'[y] = filed[y]
        /\ what = "copied" => mine.box \in filed'[x]
  <2>1. CASE /\ Opens(mine) /\ Replies(h, Appended(TRUE))
             /\ filed' = [filed EXCEPT ![w.mail] = @ \cup {mine.box}]
    <3>1. mine.box \in Boxes
      BY <1>2, <2>1 DEF Opens, OwnMailInv, MailInv, MailTypes, AccountRec
    <3> QED
      BY <1>3, <2>1, <3>1 DEF Appended, MailInv, MailTypes, PostTypes
  <2>2. CASE Replies(h, Appended(FALSE)) /\ UNCHANGED filed
    BY <2>2 DEF Appended, MailInv, MailTypes, PostTypes
  <2>3. CASE /\ Opens(mine) /\ Replies(h, Appended(FALSE))
             /\ filed' = [filed EXCEPT ![w.mail] = @ \cup {mine.box}]
    <3>1. mine.box \in Boxes
      BY <1>2, <2>3 DEF Opens, OwnMailInv, MailInv, MailTypes, AccountRec
    <3> QED
      BY <1>3, <2>3, <3>1 DEF Appended, MailInv, MailTypes, PostTypes
  <2> QED
    BY <2>1, <2>2, <2>3 DEF AppendToSent
<1>7. /\ mailing' = [mailing EXCEPT ![h] = NoMailing]
      /\ mailTold' \in [Mails -> {None, "sent", "copied", "refused"}]
      /\ mailTold'[x] = what /\ mailTold'[x] # None
      /\ \A y \in Mails \ {x} : mailTold'[y] = mailTold[y]
  BY <1>3, <1>6, RepliesTell
<1>8. PostTypes'
  BY <1>1, <1>6, <1>7 DEF MailInv, MailTypes, PostTypes
<1>9. FateInv(x)'
  BY <1>1, <1>4, <1>5, <1>6, <1>7, MailAssumption DEF FateInv, Excused
<1> QED
  BY <1>1, <1>3, <1>6, <1>7, <1>8, <1>9, EndOfMailing, MailStep

\* Every step of the mailboxes preserves the invariant.
LEMMA NextMailInv == ASSUME MailInv, [MailNext]_<<mailVars, counters>> PROVE MailInv'
<1>1. CASE MailNext
  BY <1>1, DeleteMineStep, ReadForUpsertStep, UpsertMineStep, ComposeStep,
     GetTransporterStep,
     SendMailStep, InsertEmailMessageStep, AppendToSentStep DEF MailNext
<1>2. CASE UNCHANGED <<mailVars, counters>>
  <2>1. UNCHANGED <<mailbox, left, filed, mailRow, mailTold, mailing, given, mishaps>>
    BY <1>2 DEF mailVars
  <2>2. MailTypes'
    BY <2>1 DEF MailInv, MailTypes, PostTypes
  <2>3. \A u \in MailUsers : AccountInv(u)'
    BY <2>1 DEF MailInv, AccountInv, Excused
  <2>4. \A h \in Handlers : CarryInv(h)'
    BY <2>1, CarryKept DEF MailInv
  <2>5. \A x \in Mails : UnsentInv(x)' /\ FateInv(x)'
    BY <2>1 DEF MailInv, UnsentInv, FateInv, Excused
  <2> QED
    BY <2>2, <2>3, <2>4, <2>5 DEF MailInv
<1> QED
  BY <1>1, <1>2

\* The invariant has the types of accounts and mails.
LEMMA MailTypesHold == MailInv => MailTypeOK
<1> SUFFICES ASSUME MailInv PROVE MailTypeOK
  OBVIOUS
<1>1. ASSUME NEW u \in MailUsers
      PROVE  /\ mailbox[u] = None \/ mailbox[u].box \in Boxes
             /\ given[u] \in Boxes \cup {None}
  BY DEF MailInv, MailTypes, AccountRec
<1>2. ASSUME NEW x \in Mails
      PROVE  /\ left[x] \in Boxes \cup {None} /\ filed[x] \subseteq Boxes
             /\ mailRow[x] \in {None, "sent", "failed"}
             /\ mailTold[x] \in {None, "sent", "copied", "refused"}
  BY DEF MailInv, MailTypes, PostTypes
<1> QED
  BY <1>1, <1>2 DEF MailTypeOK

\* Accounts, mails, their rows and copies keep their types.
THEOREM MailTyped == MailSpec => []MailTypeOK
BY MailTypesHold, InitMailInv, NextMailInv, PTL DEF MailSpec

\* The invariant has what became of every mail, and the account it left from.
LEMMA MailKept == MailInv => OwnMailToldTrue
<1>1. MailInv => MailFateIsTold
  BY DEF MailInv, FateInv, MailFateIsTold
<1>2. MailInv => AccountHolds
  <2> SUFFICES ASSUME MailInv PROVE AccountHolds
    OBVIOUS
  <2>1. ASSUME NEW h \in Handlers, MailAt(h, "append"), mailing[h].kind = "reply"
        PROVE  left[mailing[h].mail] = mailing[h].origin \/ Excused("switched", mailing[h].mail)
    BY <2>1 DEF MailInv, CarryInv, WithAccount, MailAt
  <2> QED
    BY <2>1 DEF MailInv, AccountInv, AccountHolds
<1> QED
  BY <1>1, <1>2 DEF OwnMailToldTrue

\* sendEmail, send and reply: what is told of a mail, and what its row says, is what became
\* of it, for any number of mails, users and requests, but for the two mishaps of
\* OwnMail.tla.  upsertMine and reply: an account whose row is written keeps the last
\* password given, and a reply leaves from the box its original is in, unless another
\* request of the user changed the account in between.
THEOREM MailToldTrue == MailSpec => []OwnMailToldTrue
BY MailKept, InitMailInv, NextMailInv, PTL DEF MailSpec

----------------------------------------------------------------------------
(* Quotes, invoices, propositions: until one is removed or proposed the    *)
(* numbers of a kind and year are 1 .. N and nobody is about to insert one *)
(* beyond the next; every lost attempt was lost to a rival.                *)

Sums       == {TotalsOf(c) : c \in Contents} \cup FreeTotals
DocRow     == [state : {"absent", "there", "gone"}, kind : DocKinds \cup {None},
               year : DocYears \cup {None}, n : (Nat \ {0}) \cup {None},
               date : DocYears \cup {None}, content : Contents \cup {None},
               totals : Sums \cup {None}, status : {"draft", "sent"}, free : BOOLEAN]
WritingRec == [pc : {"idle", "number", "insert", "patch", "status", "delete"},
               target : Docs \cup {None}, row : DocRow, tries : 0 .. Attempts - 1,
               rivals : Nat, full : BOOLEAN]
DocRowsInv == doc \in [Docs -> DocRow] /\ writing \in [Handlers -> WritingRec]
              /\ removed \subseteq DocKinds \X DocYears

\* A row that says what it is of, with the totals of its lines unless a conversion gave
\* bare ones.
WellWritten(r) ==
    /\ r.state = "there" /\ r.kind \in DocKinds /\ r.year \in DocYears /\ r.date \in DocYears
    /\ r.content \in Contents
    /\ ~(r.kind = "facture" /\ r.free) => r.totals = TotalsOf(r.content)

Creating(w) == w.pc \in {"number", "insert"}
Proposes(r) == r.kind = "proposition" /\ r.free

SameNumber(r, s) == r.kind = s.kind /\ r.year = s.year /\ r.n = s.n

\* The documents: well written and apart by their numbers.
ApartInv ==
    /\ \A d \in Docs : Drawn(d) => WellWritten(doc[d]) /\ doc[d].n \in Nat \ {0}
    /\ \A d, e \in Docs : Drawn(d) /\ Drawn(e) /\ SameNumber(doc[d], doc[e]) => d = e

\* What a request has in hand: a row that is not there yet, or the draft of a patch.
HoldsRow(w) ==
    /\ w.pc # "idle" => w.target \in Docs
    /\ Creating(w) => WellWritten(w.row) /\ doc[w.target].state = "absent"
    /\ w.pc = "insert" => w.row.n \in Nat \ {0}
    /\ w.pc = "patch" => WellWritten(w.row) /\ w.row.totals = TotalsOf(w.row.content)

WritingInv ==
    /\ \A h \in Handlers : HoldsRow(writing[h])
    /\ \A g, h \in Handlers :
          (Creating(writing[g]) /\ Creating(writing[h])
             /\ writing[g].target = writing[h].target) => g = h

Numbers(k, y) == {doc[d].n : d \in Of(k, y)}

\* Nobody is about to insert a number beyond the next one.
Close(w, k, y, N) ==
    w.pc = "insert" /\ w.row.kind = k /\ w.row.year = y /\ ~Proposes(w.row) => w.row.n <= N + 1

GaplessUpTo(k, y, N) ==
    Numbers(k, y) = 1 .. N /\ \A h \in Handlers : Close(writing[h], k, y, N)

GapInv == \A k \in DocKinds, y \in DocYears :
              <<k, y>> \notin removed => \E N \in Nat : GaplessUpTo(k, y, N)

\* Every lost attempt of a creation that was not out of digits was lost to a rival.
LostToRivals(w) ==
    Creating(w) /\ ~Proposes(w.row) /\ ~w.full =>
        /\ w.rivals >= w.tries
        /\ w.pc = "insert" /\ w.row.n < NumberLimit /\ TakenNo(w.row) => w.rivals >= w.tries + 1

LostInv == "unexplained" \notin refusals /\ \A h \in Handlers : LostToRivals(writing[h])

DocsInv == DocRowsInv /\ ApartInv /\ WritingInv /\ GapInv /\ LostInv

\* No row at first: the numbers up to 0.
LEMMA InitDocsInv == DocsInit => DocsInv
<1> SUFFICES ASSUME DocsInit PROVE DocsInv
  OBVIOUS
<1>0. Attempts \in Nat \ {0}
  BY DocsAssumption
<1>1. NoDoc \in DocRow /\ NoDoc.state = "absent"
  BY DEF NoDoc, DocRow
<1>2. IdleWriting \in WritingRec /\ IdleWriting.pc = "idle"
  BY <1>0, <1>1 DEF IdleWriting, WritingRec
<1>3. DocRowsInv /\ \A d \in Docs : doc[d].state = "absent"
  BY <1>1, <1>2 DEF DocsInit, DocRowsInv
<1>4. \A h \in Handlers : writing[h].pc = "idle"
  BY <1>2 DEF DocsInit
<1>5. ApartInv /\ WritingInv
  <2>1. ApartInv
    BY <1>3 DEF ApartInv, Drawn
  <2>2. \A h \in Handlers : HoldsRow(writing[h]) /\ ~Creating(writing[h])
    BY <1>4 DEF HoldsRow, Creating
  <2> QED
    BY <2>1, <2>2 DEF WritingInv
<1>6. GapInv
  <2> SUFFICES ASSUME NEW k \in DocKinds, NEW y \in DocYears
               PROVE  \E N \in Nat : GaplessUpTo(k, y, N)
    BY DEF GapInv
  <2>1. Numbers(k, y) = {} /\ 1 .. 0 = {}
    BY <1>3 DEF Numbers, Of, Drawn
  <2>2. \A h \in Handlers : Close(writing[h], k, y, 0)
    BY <1>4 DEF Close
  <2> QED
    BY <2>1, <2>2 DEF GaplessUpTo
<1>7. LostInv
  BY <1>4 DEF LostInv, LostToRivals, Creating, DocsInit
<1> QED
  BY <1>3, <1>5, <1>6, <1>7 DEF DocsInv

\* A request that touches no row keeps the invariant when what it now has in hand does.
LEMMA WritingStep ==
    ASSUME DocsInv, NEW h \in Handlers, NEW w \in WritingRec,
           writing' = [writing EXCEPT ![h] = w], UNCHANGED <<doc, removed>>,
           "unexplained" \notin refusals', HoldsRow(w), LostToRivals(w),
           \A g \in Handlers \ {h} : Creating(w) /\ Creating(writing[g]) =>
                                         writing[g].target # w.target,
           \A k \in DocKinds, y \in DocYears, N \in Nat :
               GaplessUpTo(k, y, N) => Close(w, k, y, N)
    PROVE  DocsInv'
<1>1. DocRowsInv' /\ ApartInv'
  BY DEF DocsInv, DocRowsInv, ApartInv, Drawn
<1>2. writing'[h] = w /\ \A g \in Handlers : g # h => writing'[g] = writing[g]
  BY DEF DocsInv, DocRowsInv
<1>3. WritingInv'
  <2>1. \A g \in Handlers : HoldsRow(writing[g])'
    BY <1>2 DEF DocsInv, WritingInv, HoldsRow, Creating
  <2>2. ASSUME NEW g \in Handlers, NEW o \in Handlers, Creating(writing'[g]),
               Creating(writing'[o]), writing'[g].target = writing'[o].target
        PROVE  g = o
    BY <1>2, <2>2 DEF DocsInv, WritingInv
  <2>3. \A g, o \in Handlers :
           (Creating(writing[g])' /\ Creating(writing[o])'
              /\ writing'[g].target = writing'[o].target) => g = o
    BY <2>2 DEF Creating
  <2> QED
    BY <2>1, <2>3 DEF WritingInv
<1>4. GapInv'
  <2> SUFFICES ASSUME NEW k \in DocKinds, NEW y \in DocYears, <<k, y>> \notin removed'
               PROVE  \E N \in Nat : GaplessUpTo(k, y, N)'
    BY DEF GapInv
  <2>1. PICK N \in Nat : GaplessUpTo(k, y, N)
    BY DEF DocsInv, GapInv
  <2>2. Numbers(k, y)' = Numbers(k, y)
    BY DEF Numbers, Of, Drawn
  <2>3. \A g \in Handlers : Close(writing[g], k, y, N)'
    BY <1>2, <2>1 DEF GaplessUpTo, Close
  <2> QED
    BY <2>1, <2>2, <2>3 DEF GaplessUpTo
<1>5. LostInv'
  <2>1. \A g \in Handlers : LostToRivals(writing[g])'
    BY <1>2 DEF DocsInv, LostInv, LostToRivals, TakenNo, Of, Drawn, Creating
  <2> QED
    BY <2>1 DEF LostInv
<1> QED
  BY <1>1, <1>3, <1>4, <1>5 DEF DocsInv

\* A set of natural numbers has a least one.
LEMMA Smallest ==
    ASSUME NEW T \in SUBSET Nat, T # {}
    PROVE  \E x \in T : \A y \in T : x <= y
<1> DEFINE F == {0 .. x : x \in T}
<1>1. F \subseteq FiniteSubsetsOf(Nat) /\ F # {}
  <2>1. \A x \in T : 0 .. x \subseteq Nat /\ IsFiniteSet(0 .. x)
    BY FS_Interval
  <2> QED
    BY <2>1 DEF FiniteSubsetsOf
<1>2. PICK I \in F : \A J \in F : <<J, I>> \notin StrictSubsetOrdering(Nat)
  <2> HIDE DEF F
  <2> QED
    BY <1>1, FS_StrictSubsetOrderingWellFounded, WFMin
<1>3. PICK x \in T : I = 0 .. x
  OBVIOUS
<1>4. ASSUME NEW y \in T
      PROVE  x <= y
  <2>1. 0 .. y \in F
    OBVIOUS
  <2>2. 0 .. y \in SUBSET Nat /\ 0 .. x \in SUBSET Nat
    OBVIOUS
  <2>3. <<0 .. y, 0 .. x>> \notin StrictSubsetOrdering(Nat)
    BY <1>2, <1>3, <2>1
  <2>4. ~(0 .. y \subseteq 0 .. x /\ 0 .. y # 0 .. x)
    BY <2>2, <2>3 DEF StrictSubsetOrdering
  <2>5. y < x => 0 .. y \subseteq 0 .. x /\ x \notin 0 .. y /\ x \in 0 .. x
    OBVIOUS
  <2> QED
    BY <2>4, <2>5
<1> QED
  BY <1>4

\* Max is the greatest of a bounded set of natural numbers.
LEMMA Largest ==
    ASSUME NEW T \in SUBSET Nat, T # {}, NEW b \in Nat, \A x \in T : x <= b
    PROVE  Max(T) \in T /\ \A y \in T : y <= Max(T)
<1> DEFINE U == {b - x : x \in T}
<1>1. U \in SUBSET Nat /\ U # {}
  <2>1. \A x \in T : b - x \in Nat
    OBVIOUS
  <2> QED
    BY <2>1
<1>2. PICK u \in U : \A v \in U : u <= v
  <2> HIDE DEF U
  <2> QED
    BY <1>1, Smallest
<1>3. PICK x \in T : u = b - x
  OBVIOUS
<1>4. \A y \in T : x >= y
  <2> TAKE y \in T
  <2>1. b - y \in U
    OBVIOUS
  <2> QED
    BY <1>2, <1>3, <2>1
<1> QED
  BY <1>4 DEF Max

\* The highest number of a kind and year, by its last digits: a natural number, no higher
\* than a gapless row goes, and below no number that fits in the digits.
LEMMA HighestIs ==
    ASSUME DocsInv, NEW k \in DocKinds, NEW y \in DocYears
    PROVE  /\ Highest(k, y) \in Nat
           /\ \A d \in Of(k, y) : doc[d].n < NumberLimit => doc[d].n <= Highest(k, y)
           /\ \A N \in Nat : Numbers(k, y) = 1 .. N => Highest(k, y) <= N
<1> DEFINE T == {0} \cup {doc[d].n % NumberLimit : d \in Of(k, y)}
<1>1. \A d \in Of(k, y) : doc[d].n \in Nat \ {0}
  BY DEF DocsInv, ApartInv, Of
<1>2. NumberLimit \in Nat \ {0}
  BY DocsAssumption
<1>3. \A n \in Nat : /\ n % NumberLimit \in Nat /\ n % NumberLimit <= NumberLimit
                     /\ n % NumberLimit <= n /\ (n < NumberLimit => n % NumberLimit = n)
  BY <1>2
<1>4. T \in SUBSET Nat /\ 0 \in T /\ \A x \in T : x <= NumberLimit
  BY <1>1, <1>2, <1>3
<1>5. Highest(k, y) = Max(T)
  BY DEF Highest
<1>6. Max(T) \in T /\ \A x \in T : x <= Max(T)
  <2> HIDE DEF T
  <2> QED
    BY <1>2, <1>4, Largest
<1>7. ASSUME NEW d \in Of(k, y), doc[d].n < NumberLimit
      PROVE  doc[d].n <= Highest(k, y)
  <2>1. doc[d].n % NumberLimit \in T /\ doc[d].n % NumberLimit = doc[d].n
    BY <1>1, <1>3, <1>7
  <2> QED
    BY <2>1, <1>5, <1>6
<1>8. ASSUME NEW N \in Nat, Numbers(k, y) = 1 .. N
      PROVE  Highest(k, y) <= N
  <2>1. \A d \in Of(k, y) : doc[d].n <= N
    BY <1>8 DEF Numbers
  <2>2. \A x \in T : x <= N
    BY <1>1, <1>3, <2>1, <1>2
  <2> QED
    BY <2>2, <1>5, <1>6
<1> QED
  BY <1>4, <1>5, <1>6, <1>7, <1>8

\* An idle request holds nothing.
LEMMA IdleIs ==
    /\ IdleWriting \in WritingRec /\ IdleWriting.pc = "idle" /\ IdleWriting.tries = 0
    /\ IdleWriting.rivals = 0 /\ IdleWriting.full = FALSE
<1>1. NoDoc \in DocRow
  BY DEF NoDoc, DocRow
<1>2. 0 \in 0 .. Attempts - 1
  BY DocsAssumption
<1> QED
  BY <1>1, <1>2 DEF IdleWriting, WritingRec

\* An id nobody has, there or in hand.
LEMMA UnclaimedIs ==
    ASSUME NEW d, Unclaimed(d)
    PROVE  d \in Docs /\ doc[d].state = "absent" /\ \A o \in Handlers : writing[o].target # d
<1> DEFINE free == {x \in Docs : doc[x].state = "absent"
                                    /\ \A o \in Handlers : writing[o].target # x}
<1>1. free # {} /\ d = AnyOf(free)
  BY DEF Unclaimed
<1>2. d \in free
  BY <1>1 DEF AnyOf
<1> QED
  BY <1>2

\* A draft is well written, whatever its contents.
LEMMA DraftIs ==
    ASSUME NEW k \in DocKinds, NEW y \in DocYears, NEW c \in Contents
    PROVE  /\ Draft(k, y, c) \in DocRow /\ WellWritten(Draft(k, y, c))
           /\ Draft(k, y, c).kind = k /\ ~Draft(k, y, c).free
           /\ Draft(k, y, c).totals = TotalsOf(Draft(k, y, c).content)
<1>1. TotalsOf(c) \in Sums
  BY DEF Sums
<1> QED
  BY <1>1 DEF Draft, NoDoc, DocRow, WellWritten

\* Creation holds an id of its own and draws a number, or proposes one.
LEMMA BeginsStep ==
    ASSUME DocsInv, NEW h \in Handlers, NEW d, Unclaimed(d), NEW row \in DocRow,
           WellWritten(row), NEW w \in WritingRec, w.target = d, w.row = row,
           w.tries = 0, w.pc = "number" \/ (w.pc = "insert" /\ Proposes(row)
                                              /\ row.n \in Nat \ {0}),
           Start(h, w), UNCHANGED <<doc, removed, refusals>>
    PROVE  DocsInv'
<1>1. d \in Docs /\ doc[d].state = "absent" /\ \A o \in Handlers : writing[o].target # d
  BY UnclaimedIs
<1>2. HoldsRow(w)
  BY <1>1 DEF HoldsRow, Creating
<1>3. LostToRivals(w)
  BY DEF LostToRivals, WritingRec
<1>4. \A k \in DocKinds, y \in DocYears, N \in Nat : Close(w, k, y, N)
  BY DEF Close
<1>5. "unexplained" \notin refusals'
  BY DEF DocsInv, LostInv
<1> QED
  BY <1>1, <1>2, <1>3, <1>4, <1>5, WritingStep DEF Start

LEMMA CreateDocStep == ASSUME DocsInv, NEW h \in Handlers, CreateDoc(h) PROVE DocsInv'
<1>1. PICK d \in Docs, k \in DocKinds, y \in DocYears, c \in Contents :
          LET w == [IdleWriting EXCEPT !.pc = "number", !.target = d, !.row = Draft(k, y, c)]
          IN  /\ Unclaimed(d)
              /\ \/ Start(h, w)
                 \/ k = "proposition" /\ \E n \in Proposed : Start(h, Numbered(w, n))
  BY Zenon DEF CreateDoc
<1>2. UNCHANGED <<doc, removed, refusals>>
  BY DEF CreateDoc
<1> DEFINE w == [IdleWriting EXCEPT !.pc = "number", !.target = d, !.row = Draft(k, y, c)]
<1>3. /\ Draft(k, y, c) \in DocRow /\ WellWritten(Draft(k, y, c))
      /\ Draft(k, y, c).kind = k /\ ~Draft(k, y, c).free
  BY DraftIs
<1>4. Attempts \in Nat \ {0} /\ Proposed \subseteq Nat \ {0}
  BY DocsAssumption
<1>5. w \in WritingRec /\ w.target = d /\ w.row = Draft(k, y, c) /\ w.tries = 0
         /\ w.pc = "number"
  BY <1>3, IdleIs DEF WritingRec
<1>6. CASE Start(h, w)
  <2> HIDE DEF w
  <2> QED
    BY <1>1, <1>2, <1>3, <1>5, <1>6, BeginsStep
<1>7. CASE k = "proposition" /\ \E n \in Proposed : Start(h, Numbered(w, n))
  <2>1. PICK n \in Proposed : Start(h, Numbered(w, n))
    BY <1>7
  <2> DEFINE v   == Numbered(w, n)
             row == [Draft(k, y, c) EXCEPT !.n = n, !.free = TRUE]
  <2>2. n \in Nat \ {0}
    BY <1>4
  <2>3. row \in DocRow /\ WellWritten(row) /\ row.n = n /\ Proposes(row)
    BY <1>3, <1>7, <2>2 DEF DocRow, WellWritten, Proposes
  <2>4. v \in WritingRec /\ v.target = d /\ v.row = row /\ v.tries = 0 /\ v.pc = "insert"
    <3>1. v = [w EXCEPT !.pc = "insert", !.row = row]
      BY <1>5 DEF Numbered, WritingRec
    <3> HIDE DEF v, w, row
    <3> QED
      BY <1>5, <2>3, <3>1 DEF WritingRec
  <2> HIDE DEF v, w, row
  <2>5. Start(h, v)
    BY <2>1 DEF v
  <2> QED
    BY <1>1, <1>2, <2>2, <2>3, <2>4, <2>5, BeginsStep
<1> QED
  BY <1>1, <1>6, <1>7

LEMMA ConvertQuoteStep == ASSUME DocsInv, NEW h \in Handlers, ConvertQuote(h) PROVE DocsInv'
<1>1. PICK q \in Docs, d \in Docs :
          /\ Drawn(q) /\ doc[q].kind = "devis" /\ Unclaimed(d)
          /\ \E row \in {[doc[q] EXCEPT !.kind = "facture"]}
                          \cup {Draft("facture", doc[q].date, c) : c \in Contents}
                          \cup {[doc[q] EXCEPT !.kind = "facture", !.free = TRUE, !.totals = t]
                                  : t \in FreeTotals} :
                Start(h, [IdleWriting EXCEPT !.pc = "number", !.target = d,
                            !.row = [row EXCEPT !.year = doc[q].date, !.date = doc[q].date,
                                                !.status = "draft", !.n = None]])
  BY Zenon DEF ConvertQuote
<1>2. UNCHANGED <<doc, removed, refusals>>
  BY DEF ConvertQuote
<1>3. PICK row \in {[doc[q] EXCEPT !.kind = "facture"]}
                     \cup {Draft("facture", doc[q].date, c) : c \in Contents}
                     \cup {[doc[q] EXCEPT !.kind = "facture", !.free = TRUE, !.totals = t]
                             : t \in FreeTotals} :
          Start(h, [IdleWriting EXCEPT !.pc = "number", !.target = d,
                      !.row = [row EXCEPT !.year = doc[q].date, !.date = doc[q].date,
                                          !.status = "draft", !.n = None]])
  BY <1>1
<1>4. doc[q] \in DocRow /\ WellWritten(doc[q]) /\ doc[q].kind = "devis"
  BY <1>1 DEF DocsInv, DocRowsInv, ApartInv
<1>5. row \in DocRow /\ WellWritten(row) /\ row.kind = "facture"
  <2>1. CASE row = [doc[q] EXCEPT !.kind = "facture"]
    BY <1>4, <2>1 DEF DocRow, DocKinds, WellWritten
  <2>2. CASE \E c \in Contents : row = Draft("facture", doc[q].date, c)
    <3>1. PICK y : y = doc[q].date
      OBVIOUS
    <3>2. "facture" \in DocKinds /\ y \in DocYears
      BY <1>4, <3>1 DEF DocKinds, WellWritten
    <3>3. PICK c \in Contents : row = Draft("facture", y, c)
      BY <2>2, <3>1
    <3> QED
      BY <3>2, <3>3, DraftIs
  <2>3. CASE \E t \in FreeTotals :
               row = [doc[q] EXCEPT !.kind = "facture", !.free = TRUE, !.totals = t]
    BY <1>4, <2>3 DEF DocRow, DocKinds, WellWritten, Sums
  <2> QED
    BY <1>3, <2>1, <2>2, <2>3
<1> DEFINE new == [row EXCEPT !.year = doc[q].date, !.date = doc[q].date,
                              !.status = "draft", !.n = None]
           w   == [IdleWriting EXCEPT !.pc = "number", !.target = d, !.row = new]
<1>6. new \in DocRow /\ WellWritten(new)
  <2>1. doc[q].date \in DocYears
    BY <1>4 DEF WellWritten
  <2> QED
    BY <1>5, <2>1 DEF DocRow, WellWritten
<1>7. w \in WritingRec /\ w.target = d /\ w.row = new /\ w.tries = 0 /\ w.pc = "number"
  <2> HIDE DEF new
  <2> QED
    BY <1>6, IdleIs DEF WritingRec
<1>8. Start(h, w)
  BY <1>3
<1> HIDE DEF new, w
<1> QED
  BY <1>1, <1>2, <1>6, <1>7, <1>8, BeginsStep

\* A request that is over holds nothing.
LEMMA EndsStep ==
    ASSUME DocsInv, NEW h \in Handlers, Ends(h), UNCHANGED <<doc, removed>>,
           "unexplained" \notin refusals'
    PROVE  DocsInv'
<1>1. IdleWriting \in WritingRec /\ IdleWriting.pc = "idle"
  BY IdleIs
<1>2. ~Creating(IdleWriting) /\ HoldsRow(IdleWriting) /\ LostToRivals(IdleWriting)
  BY <1>1 DEF Creating, HoldsRow, LostToRivals
<1>3. \A k \in DocKinds, y \in DocYears, N \in Nat : Close(IdleWriting, k, y, N)
  BY <1>1 DEF Close
<1> QED
  BY <1>1, <1>2, <1>3, WritingStep DEF Ends, Goes

\* The number after the highest is not taken while it fits in the digits, and not beyond
\* the next one of a gapless row.
LEMMA NextNumeroStep == ASSUME DocsInv, NEW h \in Handlers, NextNumero(h) PROVE DocsInv'
<1>1. /\ writing[h].pc = "number" /\ UNCHANGED <<doc, removed, refusals>>
      /\ \/ Goes(h, [writing[h] EXCEPT !.pc = "insert",
                        !.row.n = Highest(writing[h].row.kind, writing[h].row.year) + 1])
         \/ Ends(h)
  BY DEF NextNumero
<1>2. "unexplained" \notin refusals'
  BY <1>1 DEF DocsInv, LostInv
<1>3. CASE Ends(h)
  BY <1>1, <1>2, <1>3, EndsStep
<1>4. CASE Goes(h, [writing[h] EXCEPT !.pc = "insert",
                       !.row.n = Highest(writing[h].row.kind, writing[h].row.year) + 1])
  <2>1. PICK v : v = writing[h]
    OBVIOUS
  <2>2. /\ v \in WritingRec /\ v.pc = "number" /\ HoldsRow(v) /\ Creating(v)
        /\ WellWritten(v.row) /\ LostToRivals(v)
    BY <1>1, <2>1 DEF DocsInv, DocRowsInv, WritingInv, LostInv, HoldsRow, Creating
  <2>3. v.row \in DocRow /\ v.row.kind \in DocKinds /\ v.row.year \in DocYears
    BY <2>2 DEF WritingRec, WellWritten
  <2>4. PICK n : n = Highest(v.row.kind, v.row.year) + 1
    OBVIOUS
  <2>5. /\ n \in Nat \ {0}
        /\ \A d \in Of(v.row.kind, v.row.year) : doc[d].n < NumberLimit => doc[d].n < n
        /\ \A N \in Nat : Numbers(v.row.kind, v.row.year) = 1 .. N => n <= N + 1
    <3>1. /\ Highest(v.row.kind, v.row.year) \in Nat
          /\ \A d \in Of(v.row.kind, v.row.year) :
                doc[d].n < NumberLimit => doc[d].n <= Highest(v.row.kind, v.row.year)
          /\ \A N \in Nat : Numbers(v.row.kind, v.row.year) = 1 .. N =>
                                Highest(v.row.kind, v.row.year) <= N
      BY <2>3, HighestIs
    <3>2. \A d \in Of(v.row.kind, v.row.year) : doc[d].n \in Nat
      BY DEF DocsInv, ApartInv, Of
    <3> QED
      BY <2>4, <3>1, <3>2
  <2>6. PICK row : row = [v.row EXCEPT !.n = n]
    OBVIOUS
  <2>7. /\ row \in DocRow /\ WellWritten(row) /\ row.n = n /\ row.kind = v.row.kind
        /\ row.year = v.row.year /\ Proposes(row) = Proposes(v.row)
    BY <2>2, <2>3, <2>5, <2>6 DEF DocRow, WellWritten, Proposes
  <2>8. PICK w : w = [v EXCEPT !.pc = "insert", !.row = row]
    OBVIOUS
  <2>9. /\ w \in WritingRec /\ w.pc = "insert" /\ w.row = row /\ w.target = v.target
        /\ w.tries = v.tries /\ w.rivals = v.rivals /\ w.full = v.full
    BY <2>2, <2>7, <2>8 DEF WritingRec
  <2>10. Goes(h, w)
    <3>1. w = [v EXCEPT !.pc = "insert", !.row.n = n]
      BY <2>2, <2>6, <2>8 DEF WritingRec
    <3> QED
      BY <1>4, <2>1, <2>4, <3>1
  <2>11. HoldsRow(w) /\ Creating(w)
    BY <2>2, <2>5, <2>7, <2>9 DEF HoldsRow, Creating
  <2>12. LostToRivals(w)
    <3>1. n < NumberLimit => ~TakenNo(row)
      <4>1. \A d \in Of(v.row.kind, v.row.year) : doc[d].n \in Nat
        BY DEF DocsInv, ApartInv, Of
      <4> QED
        BY <2>5, <2>7, <4>1 DEF TakenNo
    <3> QED
      BY <2>2, <2>7, <2>9, <3>1 DEF LostToRivals, Creating
  <2>13. \A g \in Handlers \ {h} : Creating(writing[g]) => writing[g].target # w.target
    BY <2>1, <2>2, <2>9 DEF DocsInv, WritingInv
  <2>14. ASSUME NEW k \in DocKinds, NEW y \in DocYears, NEW N \in Nat, GaplessUpTo(k, y, N)
         PROVE  Close(w, k, y, N)
    BY <2>5, <2>7, <2>9, <2>14 DEF GaplessUpTo, Close
  <2> QED
    BY <1>1, <1>2, <2>9, <2>10, <2>11, <2>12, <2>13, <2>14, WritingStep DEF Goes
<1> QED
  BY <1>1, <1>3, <1>4

\* A number not taken is drawn: its document joins the others, and every other creation
\* of its kind and year has one more rival.
LEMMA DrawnStep ==
    ASSUME DocsInv, NEW h \in Handlers, writing[h].pc = "insert", ~TakenNo(writing[h].row),
           doc' = [doc EXCEPT ![writing[h].target] = writing[h].row],
           writing' = [Passed(h, writing[h].row) EXCEPT ![h] = IdleWriting],
           removed' = IF writing[h].row.kind = "proposition" /\ writing[h].row.free
                      THEN removed \cup {<<writing[h].row.kind, writing[h].row.year>>}
                      ELSE removed,
           UNCHANGED refusals
    PROVE  DocsInv'
<1>1. PICK w, t, row : w = writing[h] /\ t = w.target /\ row = w.row
  OBVIOUS
<1>2. /\ w \in WritingRec /\ t \in Docs /\ row \in DocRow /\ WellWritten(row)
      /\ row.n \in Nat \ {0} /\ doc[t].state = "absent" /\ w.pc = "insert" /\ Creating(w)
  BY <1>1 DEF DocsInv, DocRowsInv, WritingInv, HoldsRow, Creating, WritingRec
<1>3. /\ row.kind \in DocKinds /\ row.year \in DocYears /\ row.state = "there"
      /\ ~TakenNo(row)
  BY <1>1, <1>2 DEF WellWritten
<1>4. /\ doc' \in [Docs -> DocRow] /\ doc'[t] = row
      /\ \A d \in Docs : d # t => doc'[d] = doc[d]
  BY <1>1, <1>2 DEF DocsInv, DocRowsInv
<1>5. /\ writing'[h] = IdleWriting /\ ~Creating(IdleWriting) /\ IdleWriting.pc = "idle"
      /\ \A g \in Handlers \ {h} :
            \/ writing'[g] = writing[g]
                 /\ (Creating(writing[g]) => writing[g].row.kind # row.kind
                                             \/ writing[g].row.year # row.year)
            \/ writing'[g] = [writing[g] EXCEPT !.rivals = @ + 1] /\ Creating(writing[g])
  BY <1>1, IdleIs DEF Passed, Creating
<1>6. \A g \in Handlers \ {h} :
         /\ writing'[g] \in WritingRec /\ writing'[g].row = writing[g].row
         /\ writing'[g].pc = writing[g].pc /\ writing'[g].target = writing[g].target
         /\ writing'[g].tries = writing[g].tries /\ writing'[g].full = writing[g].full
  <2> TAKE g \in Handlers \ {h}
  <2>1. PICK v : v = writing[g] /\ v \in WritingRec
    BY DEF DocsInv, DocRowsInv
  <2>2. [v EXCEPT !.rivals = @ + 1] \in WritingRec
    BY <2>1 DEF WritingRec
  <2>3. writing'[g] = v \/ writing'[g] = [v EXCEPT !.rivals = @ + 1]
    BY <1>5, <2>1
  <2> QED
    BY <2>1, <2>2, <2>3 DEF WritingRec
<1>7. \A d \in Docs : Drawn(d)' <=> Drawn(d) \/ d = t
  BY <1>2, <1>3, <1>4 DEF Drawn
<1>8. \A k, y : Of(k, y)' = IF k = row.kind /\ y = row.year THEN Of(k, y) \cup {t}
                            ELSE Of(k, y)
  <2> TAKE k, y
  <2>1. ~Drawn(t)
    BY <1>2 DEF Drawn
  <2> QED
    BY <1>2, <1>4, <1>7, <2>1 DEF Of
<1>9. DocRowsInv'
  <2>1. writing' \in [Handlers -> WritingRec]
    BY <1>5, <1>6, IdleIs DEF Passed
  <2>2. removed' \subseteq DocKinds \X DocYears
    BY <1>1, <1>3 DEF DocsInv, DocRowsInv
  <2> QED
    BY <1>4, <2>1, <2>2 DEF DocRowsInv
<1>10. ApartInv'
  <2>1. \A d \in Docs : Drawn(d)' => WellWritten(doc'[d]) /\ doc'[d].n \in Nat \ {0}
    BY <1>2, <1>4, <1>7 DEF DocsInv, ApartInv
  <2>2. ASSUME NEW d \in Docs, NEW e \in Docs, Drawn(d)', Drawn(e)',
               SameNumber(doc'[d], doc'[e])
        PROVE  d = e
    <3>1. \A x \in Docs : x # t /\ Drawn(x) => ~SameNumber(doc[x], row)
      BY <1>3 DEF TakenNo, Of, SameNumber
    <3>2. \A x \in Docs : x # t /\ Drawn(x) => ~SameNumber(row, doc[x])
      BY <3>1 DEF SameNumber
    <3> QED
      BY <1>4, <1>7, <2>2, <3>1, <3>2 DEF DocsInv, ApartInv
  <2> QED
    BY <2>1, <2>2 DEF ApartInv, SameNumber
<1>11. WritingInv'
  <2>1. ASSUME NEW g \in Handlers
        PROVE  HoldsRow(writing[g])'
    <3>1. CASE g = h
      BY <1>5, <3>1 DEF HoldsRow, Creating
    <3>2. CASE g # h
      <4>1. Creating(writing[g]) => writing[g].target # t
        BY <1>1, <1>2, <3>2 DEF DocsInv, WritingInv
      <4>2. HoldsRow(writing[g])
        BY DEF DocsInv, WritingInv
      <4> QED
        BY <1>4, <1>6, <3>2, <4>1, <4>2 DEF HoldsRow, Creating
    <3> QED
      BY <3>1, <3>2
  <2>2. ASSUME NEW g \in Handlers, NEW o \in Handlers, Creating(writing[g])',
               Creating(writing[o])', writing'[g].target = writing'[o].target
        PROVE  g = o
    <3>1. g # h /\ o # h
      BY <1>5, <2>2 DEF Creating
    <3>2. Creating(writing[g]) /\ Creating(writing[o])
             /\ writing[g].target = writing[o].target
      BY <1>6, <2>2, <3>1 DEF Creating
    <3> QED
      BY <3>2 DEF DocsInv, WritingInv
  <2> QED
    BY <2>1, <2>2 DEF WritingInv
<1>12. GapInv'
  <2> SUFFICES ASSUME NEW k \in DocKinds, NEW y \in DocYears, <<k, y>> \notin removed'
               PROVE  \E N \in Nat : GaplessUpTo(k, y, N)'
    BY DEF GapInv
  <2>1. PICK N \in Nat : GaplessUpTo(k, y, N)
    <3>1. <<k, y>> \notin removed
      OBVIOUS
    <3> QED
      BY <3>1 DEF DocsInv, GapInv
  <2>2. CASE k = row.kind /\ y = row.year
    <3>1. ~Proposes(row)
      BY <1>1, <2>2 DEF Proposes
    <3>2. row.n <= N + 1
      BY <1>1, <1>2, <2>1, <2>2, <3>1 DEF GaplessUpTo, Close
    <3>3. row.n \notin 1 .. N
      BY <1>3, <2>1, <2>2 DEF GaplessUpTo, Numbers, TakenNo
    <3>4. row.n = N + 1 /\ 1 .. N + 1 = (1 .. N) \cup {row.n}
      BY <1>2, <3>2, <3>3
    <3>5. Numbers(k, y)' = Numbers(k, y) \cup {row.n}
      <4>1. Of(k, y)' = Of(k, y) \cup {t} /\ Of(k, y) \subseteq Docs \ {t}
        BY <1>2, <1>8, <2>2 DEF Of, Drawn
      <4> QED
        BY <1>4, <4>1 DEF Numbers
    <3>6. \A g \in Handlers : Close(writing[g], k, y, N + 1)'
      <4>1. \A g \in Handlers \ {h} : Close(writing[g], k, y, N) /\ HoldsRow(writing[g])
        BY <2>1 DEF GaplessUpTo, DocsInv, WritingInv
      <4> QED
        BY <1>5, <1>6, <4>1 DEF Close, HoldsRow
    <3> QED
      BY <2>1, <3>4, <3>5, <3>6 DEF GaplessUpTo
  <2>3. CASE ~(k = row.kind /\ y = row.year)
    <3>1. Of(k, y)' = Of(k, y) /\ Of(k, y) \subseteq Docs \ {t}
      BY <1>2, <1>8, <2>3 DEF Of, Drawn
    <3>2. Numbers(k, y)' = Numbers(k, y)
      BY <1>4, <3>1 DEF Numbers
    <3>3. \A g \in Handlers : Close(writing[g], k, y, N)'
      BY <1>5, <1>6, <2>1 DEF GaplessUpTo, Close
    <3> QED
      BY <2>1, <3>2, <3>3 DEF GaplessUpTo
  <2> QED
    BY <2>2, <2>3
<1>13. LostInv'
  <2> SUFFICES ASSUME NEW g \in Handlers PROVE LostToRivals(writing[g])'
    BY DEF LostInv, DocsInv
  <2>1. CASE g = h
    BY <1>5, <2>1 DEF LostToRivals, Creating
  <2>2. CASE g # h /\ writing'[g] = [writing[g] EXCEPT !.rivals = @ + 1]
    <3>1. writing[g] \in WritingRec /\ LostToRivals(writing[g]) /\ Attempts \in Nat
      BY DocsAssumption DEF DocsInv, DocRowsInv, LostInv
    <3>2. writing'[g].rivals = writing[g].rivals + 1 /\ writing[g].rivals \in Nat
             /\ writing[g].tries \in Nat
      BY <2>2, <3>1 DEF WritingRec
    <3> QED
      BY <1>6, <2>2, <3>1, <3>2 DEF LostToRivals, Creating
  <2>3. CASE /\ g # h /\ writing'[g] = writing[g]
             /\ (Creating(writing[g]) => writing[g].row.kind # row.kind
                                             \/ writing[g].row.year # row.year)
    <3>1. LostToRivals(writing[g])
      BY DEF DocsInv, LostInv
    <3>2. Creating(writing[g]) => (TakenNo(writing[g].row)' <=> TakenNo(writing[g].row))
      <4>1. SUFFICES ASSUME Creating(writing[g])
                     PROVE  TakenNo(writing[g].row)' <=> TakenNo(writing[g].row)
        OBVIOUS
      <4>2. PICK k, y, n : k = writing[g].row.kind /\ y = writing[g].row.year
                              /\ n = writing[g].row.n
        OBVIOUS
      <4>3. Of(k, y)' = Of(k, y) /\ Of(k, y) \subseteq Docs \ {t}
        BY <1>2, <1>8, <2>3, <4>1, <4>2 DEF Of, Drawn
      <4>4. TakenNo(writing[g].row) <=> \E d \in Of(k, y) : doc[d].n = n
        BY <4>2 DEF TakenNo
      <4>5. TakenNo(writing[g].row)' <=> \E d \in Of(k, y)' : doc'[d].n = n
        BY <2>3, <4>2 DEF TakenNo
      <4> QED
        BY <1>4, <4>3, <4>4, <4>5
    <3> QED
      BY <2>3, <3>1, <3>2 DEF LostToRivals, Creating
  <2> QED
    BY <1>5, <2>1, <2>2, <2>3
<1> QED
  BY <1>9, <1>10, <1>11, <1>12, <1>13 DEF DocsInv

\* Trying again, one attempt was lost, to a rival unless the digits had run out.
LEMMA RetryStep ==
    ASSUME DocsInv, NEW h \in Handlers, writing[h].pc = "insert", TakenNo(writing[h].row),
           writing[h].tries + 1 < Attempts, UNCHANGED <<doc, removed, refusals>>,
           Goes(h, [writing[h] EXCEPT
                      !.tries = @ + 1, !.full = @ \/ writing[h].row.n >= NumberLimit,
                      !.pc = IF Reason(writing[h]) = "proposed number taken" THEN "insert"
                             ELSE "number"])
    PROVE  DocsInv'
<1>1. PICK v : v = writing[h]
  OBVIOUS
<1>2. /\ v \in WritingRec /\ v.pc = "insert" /\ HoldsRow(v) /\ Creating(v)
      /\ LostToRivals(v) /\ WellWritten(v.row) /\ v.row.n \in Nat \ {0} /\ TakenNo(v.row)
  BY <1>1 DEF DocsInv, DocRowsInv, WritingInv, LostInv, HoldsRow, Creating
<1>3. NumberLimit \in Nat /\ Attempts \in Nat
  BY DocsAssumption
<1>4. PICK full, pc : /\ full = (v.full \/ v.row.n >= NumberLimit)
                      /\ pc = IF Reason(v) = "proposed number taken" THEN "insert" ELSE "number"
  OBVIOUS
<1>5. full \in BOOLEAN /\ pc \in {"insert", "number"} /\ v.tries + 1 \in 0 .. Attempts - 1
  <2>1. full \in BOOLEAN
    BY <1>4
  <2>2. v.tries + 1 \in 0 .. Attempts - 1
    <3>1. v.tries \in 0 .. Attempts - 1 /\ v.tries + 1 < Attempts
      BY <1>1, <1>2 DEF WritingRec
    <3> QED
      BY <1>3, <3>1
  <2>3. pc \in {"insert", "number"}
    BY <1>4
  <2> QED
    BY <2>1, <2>2, <2>3
<1>6. PICK w : w = [v EXCEPT !.tries = v.tries + 1, !.full = full, !.pc = pc]
  OBVIOUS
<1>7. /\ w \in WritingRec /\ w.pc = pc /\ w.row = v.row /\ w.target = v.target
      /\ w.tries = v.tries + 1 /\ w.rivals = v.rivals /\ w.full = full
  BY <1>2, <1>5, <1>6 DEF WritingRec
<1>8. Goes(h, w)
  <2>1. Goes(h, [v EXCEPT !.tries = @ + 1, !.full = @ \/ v.row.n >= NumberLimit,
                   !.pc = IF Reason(v) = "proposed number taken" THEN "insert" ELSE "number"])
    BY <1>1
  <2>2. w = [v EXCEPT !.tries = @ + 1, !.full = @ \/ v.row.n >= NumberLimit,
               !.pc = IF Reason(v) = "proposed number taken" THEN "insert" ELSE "number"]
    BY <1>4, <1>6
  <2> QED
    BY <2>1, <2>2
<1>9. HoldsRow(w) /\ Creating(w)
  BY <1>2, <1>5, <1>7 DEF HoldsRow, Creating
<1>10. ~Proposes(v.row) => pc = "number"
  <2>1. ~Proposes(v.row) => Reason(v) # "proposed number taken"
    BY DEF Reason, Proposes
  <2> QED
    BY <1>4, <2>1
<1>11. LostToRivals(w)
  <2>1. ~full => ~v.full /\ ~(v.row.n >= NumberLimit)
    BY <1>4, Zenon
  <2>2. ~full /\ ~Proposes(v.row) => v.rivals >= v.tries + 1
    BY <1>2, <1>3, <2>1 DEF LostToRivals
  <2> QED
    BY <1>7, <1>10, <2>2 DEF LostToRivals
<1>12. \A g \in Handlers \ {h} : Creating(writing[g]) => writing[g].target # w.target
  BY <1>1, <1>2, <1>7 DEF DocsInv, WritingInv
<1>13. \A k \in DocKinds, y \in DocYears, N \in Nat : Close(w, k, y, N)
  BY <1>7, <1>10 DEF Close
<1>14. "unexplained" \notin refusals'
  BY DEF DocsInv, LostInv
<1> QED
  BY <1>7, <1>8, <1>9, <1>11, <1>12, <1>13, <1>14, WritingStep DEF Goes

\* The last attempt is lost for a reason.
LEMMA RefusalExplained ==
    ASSUME DocsInv, NEW h \in Handlers, writing[h].pc = "insert", TakenNo(writing[h].row),
           writing[h].tries + 1 = Attempts
    PROVE  Reason(writing[h]) # "unexplained"
<1>1. PICK v : v = writing[h]
  OBVIOUS
<1>2. /\ v \in WritingRec /\ v.pc = "insert" /\ Creating(v) /\ LostToRivals(v)
      /\ v.row.n \in Nat \ {0} /\ TakenNo(v.row) /\ v.tries + 1 = Attempts
  BY <1>1 DEF DocsInv, DocRowsInv, WritingInv, LostInv, HoldsRow, Creating
<1>3. NumberLimit \in Nat /\ Attempts \in Nat /\ v.rivals \in Nat
  BY <1>2, DocsAssumption DEF WritingRec
<1>4. ~Proposes(v.row) /\ ~v.full /\ ~(v.row.n >= NumberLimit) => v.rivals >= Attempts
  BY <1>2, <1>3 DEF LostToRivals
<1> QED
  BY <1>1, <1>4 DEF Reason, Proposes

LEMMA InsertDocStep == ASSUME DocsInv, NEW h \in Handlers, InsertDoc(h) PROVE DocsInv'
<1>1. writing[h].pc = "insert"
  BY DEF InsertDoc
<1>2. CASE /\ ~TakenNo(writing[h].row)
           /\ doc' = [doc EXCEPT ![writing[h].target] = writing[h].row]
           /\ writing' = [Passed(h, writing[h].row) EXCEPT ![h] = IdleWriting]
           /\ removed' = IF writing[h].row.kind = "proposition" /\ writing[h].row.free
                         THEN removed \cup {<<writing[h].row.kind, writing[h].row.year>>}
                         ELSE removed
           /\ UNCHANGED refusals
  BY <1>1, <1>2, DrawnStep
<1>3. CASE /\ TakenNo(writing[h].row) /\ writing[h].tries + 1 < Attempts
           /\ Goes(h, [writing[h] EXCEPT
                         !.tries = @ + 1, !.full = @ \/ writing[h].row.n >= NumberLimit,
                         !.pc = IF Reason(writing[h]) = "proposed number taken" THEN "insert"
                                ELSE "number"])
           /\ UNCHANGED <<doc, removed, refusals>>
  BY <1>1, <1>3, RetryStep
<1>4. CASE /\ TakenNo(writing[h].row) /\ writing[h].tries + 1 = Attempts /\ Ends(h)
           /\ refusals' = refusals \cup {Reason(writing[h])} /\ UNCHANGED <<doc, removed>>
  <2>1. "unexplained" \notin refusals'
    BY <1>1, <1>4, RefusalExplained DEF DocsInv, LostInv
  <2> QED
    BY <1>4, <2>1, EndsStep
<1>5. CASE Ends(h) /\ UNCHANGED <<doc, removed, refusals>>
  <2>1. "unexplained" \notin refusals'
    BY <1>5 DEF DocsInv, LostInv
  <2> QED
    BY <1>5, <2>1, EndsStep
<1> QED
  BY <1>2, <1>3, <1>4, <1>5 DEF InsertDoc

LEMMA EditDocStep == ASSUME DocsInv, NEW h \in Handlers, EditDoc(h) PROVE DocsInv'
<1>1. PICK d \in Docs, pc \in {"patch", "status", "delete"}, y \in DocYears, c \in Contents :
          /\ Drawn(d)
          /\ Start(h, [IdleWriting EXCEPT !.pc = pc, !.target = d,
                         !.row = IF pc = "patch" THEN Draft(doc[d].kind, y, c) ELSE doc[d]])
  BY Zenon DEF EditDoc
<1>2. UNCHANGED <<doc, removed, refusals>>
  BY DEF EditDoc
<1>3. PICK k, row : k = doc[d].kind /\ row = IF pc = "patch" THEN Draft(k, y, c) ELSE doc[d]
  OBVIOUS
<1>4. k \in DocKinds /\ doc[d] \in DocRow
  BY <1>1, <1>3 DEF DocsInv, DocRowsInv, ApartInv, WellWritten
<1>5. row \in DocRow
         /\ (pc = "patch" => WellWritten(row) /\ row.totals = TotalsOf(row.content))
  BY <1>3, <1>4, DraftIs
<1>6. PICK w : w = [IdleWriting EXCEPT !.pc = pc, !.target = d, !.row = row]
  OBVIOUS
<1>7. w \in WritingRec /\ w.pc = pc /\ w.target = d /\ w.row = row
  BY <1>5, <1>6, IdleIs DEF WritingRec
<1>8. Start(h, w)
  BY <1>1, <1>3, <1>6
<1>9. HoldsRow(w) /\ ~Creating(w) /\ LostToRivals(w)
  BY <1>5, <1>7 DEF HoldsRow, Creating, LostToRivals
<1>10. \A m \in DocKinds, x \in DocYears, N \in Nat : Close(w, m, x, N)
  BY <1>7 DEF Close
<1>11. "unexplained" \notin refusals'
  BY <1>2 DEF DocsInv, LostInv
<1> QED
  BY <1>2, <1>7, <1>8, <1>9, <1>10, <1>11, WritingStep DEF Start

\* A document is written in place with its number, or removed for good.
LEMMA WrittenStep ==
    ASSUME DocsInv, NEW h \in Handlers, NEW t \in Docs, Drawn(t), NEW row \in DocRow,
           doc' = [doc EXCEPT ![t] = row], Ends(h), UNCHANGED refusals,
           \/ /\ WellWritten(row) /\ row.n = doc[t].n /\ row.kind = doc[t].kind
              /\ row.year = doc[t].year /\ UNCHANGED removed
           \/ row.state = "gone" /\ removed' = removed \cup {<<doc[t].kind, doc[t].year>>}
    PROVE  DocsInv'
<1>1. /\ doc' \in [Docs -> DocRow] /\ doc'[t] = row
      /\ \A d \in Docs : d # t => doc'[d] = doc[d]
  BY DEF DocsInv, DocRowsInv
<1>2. /\ writing' \in [Handlers -> WritingRec] /\ writing'[h] = IdleWriting
      /\ ~Creating(IdleWriting) /\ IdleWriting.pc = "idle"
      /\ \A g \in Handlers : g # h => writing'[g] = writing[g]
  BY IdleIs DEF DocsInv, DocRowsInv, Ends, Goes, Creating
<1>3. WellWritten(doc[t]) /\ doc[t].n \in Nat \ {0} /\ doc[t].state = "there"
  BY DEF DocsInv, ApartInv, Drawn
<1>4. \A d \in Docs : Drawn(d)' =>
          /\ Drawn(d) /\ WellWritten(doc'[d]) /\ doc'[d].n \in Nat \ {0}
          /\ doc'[d].n = doc[d].n /\ doc'[d].kind = doc[d].kind /\ doc'[d].year = doc[d].year
  BY <1>1, <1>3 DEF DocsInv, ApartInv, Drawn
<1>5. ASSUME NEW k \in DocKinds, NEW y \in DocYears
      PROVE  /\ Of(k, y)' \subseteq Of(k, y)
             /\ \A d \in Of(k, y)' : doc'[d].n = doc[d].n
             /\ <<k, y>> \notin removed' => <<k, y>> \notin removed /\ Of(k, y)' = Of(k, y)
  <2>1. /\ Of(k, y)' \subseteq Of(k, y)
        /\ \A d \in Of(k, y)' : doc'[d].n = doc[d].n
    BY <1>4 DEF Of
  <2>2. ASSUME <<k, y>> \notin removed'
        PROVE  <<k, y>> \notin removed /\ Of(k, y) \subseteq Of(k, y)'
    <3>1. CASE /\ WellWritten(row) /\ row.n = doc[t].n /\ row.kind = doc[t].kind
               /\ row.year = doc[t].year /\ UNCHANGED removed
      BY <1>1, <2>2, <3>1 DEF Of, Drawn, WellWritten
    <3>2. CASE row.state = "gone" /\ removed' = removed \cup {<<doc[t].kind, doc[t].year>>}
      <4>1. <<k, y>> # <<doc[t].kind, doc[t].year>> /\ <<k, y>> \notin removed
        BY <2>2, <3>2
      <4>2. t \notin Of(k, y)
        BY <4>1 DEF Of
      <4> QED
        BY <1>1, <4>1, <4>2 DEF Of, Drawn
    <3> QED
      BY <3>1, <3>2
  <2> QED
    BY <2>1, <2>2
<1>6. DocRowsInv'
  <2>1. removed' \subseteq DocKinds \X DocYears
    BY <1>3 DEF DocsInv, DocRowsInv, WellWritten
  <2> QED
    BY <1>1, <1>2, <2>1 DEF DocRowsInv
<1>7. ApartInv'
  <2>1. ASSUME NEW d \in Docs, NEW e \in Docs, Drawn(d)', Drawn(e)',
               SameNumber(doc'[d], doc'[e])
        PROVE  d = e
    <3>1. Drawn(d) /\ Drawn(e) /\ SameNumber(doc[d], doc[e])
      BY <1>4, <2>1 DEF SameNumber
    <3> QED
      BY <3>1 DEF DocsInv, ApartInv
  <2> QED
    BY <1>4, <2>1 DEF ApartInv, SameNumber
<1>8. WritingInv'
  <2>1. ASSUME NEW g \in Handlers
        PROVE  HoldsRow(writing[g])'
    <3>1. CASE g = h
      BY <1>2, <3>1 DEF HoldsRow, Creating
    <3>2. CASE g # h
      <4>1. HoldsRow(writing[g]) /\ writing'[g] = writing[g]
        BY <1>2, <3>2 DEF DocsInv, WritingInv
      <4> QED
        BY <1>1, <1>3, <4>1 DEF HoldsRow, Creating
    <3> QED
      BY <3>1, <3>2
  <2>2. ASSUME NEW g \in Handlers, NEW o \in Handlers, Creating(writing[g])',
               Creating(writing[o])', writing'[g].target = writing'[o].target
        PROVE  g = o
    <3>1. g # h /\ o # h
      BY <1>2, <2>2 DEF Creating
    <3>2. Creating(writing[g]) /\ Creating(writing[o])
             /\ writing[g].target = writing[o].target
      BY <1>2, <2>2, <3>1 DEF Creating
    <3> QED
      BY <3>2 DEF DocsInv, WritingInv
  <2> QED
    BY <2>1, <2>2 DEF WritingInv
<1>9. GapInv'
  <2> SUFFICES ASSUME NEW k \in DocKinds, NEW y \in DocYears, <<k, y>> \notin removed'
               PROVE  \E N \in Nat : GaplessUpTo(k, y, N)'
    BY DEF GapInv
  <2>1. PICK N \in Nat : GaplessUpTo(k, y, N)
    BY <1>5 DEF DocsInv, GapInv
  <2>2. Numbers(k, y)' = Numbers(k, y)
    BY <1>5 DEF Numbers
  <2>3. \A g \in Handlers : Close(writing[g], k, y, N)'
    BY <1>2, <2>1 DEF GaplessUpTo, Close
  <2> QED
    BY <2>1, <2>2, <2>3 DEF GaplessUpTo
<1>10. LostInv'
  <2> SUFFICES ASSUME NEW g \in Handlers PROVE LostToRivals(writing[g])'
    BY DEF LostInv, DocsInv
  <2>1. CASE g = h
    BY <1>2, <2>1 DEF LostToRivals, Creating
  <2>2. CASE g # h
    <3>1. LostToRivals(writing[g]) /\ writing'[g] = writing[g]
      BY <1>2, <2>2 DEF DocsInv, LostInv
    <3>2. Creating(writing[g]) /\ TakenNo(writing[g].row)' => TakenNo(writing[g].row)
      <4>1. Creating(writing[g]) => WellWritten(writing[g].row)
        BY DEF DocsInv, WritingInv, HoldsRow
      <4>2. PICK r : r = writing[g].row
        OBVIOUS
      <4>3. Creating(writing[g]) => r.kind \in DocKinds /\ r.year \in DocYears
        BY <4>1, <4>2 DEF WellWritten
      <4>4. TakenNo(writing[g].row)' = TakenNo(r)'
        BY <3>1, <4>2 DEF TakenNo
      <4>5. r.kind \in DocKinds /\ r.year \in DocYears /\ TakenNo(r)' => TakenNo(r)
        BY <1>5 DEF TakenNo
      <4> QED
        BY <4>2, <4>3, <4>4, <4>5
    <3> QED
      BY <3>1, <3>2 DEF LostToRivals, Creating
  <2> QED
    BY <2>1, <2>2
<1> QED
  BY <1>6, <1>7, <1>8, <1>9, <1>10 DEF DocsInv

LEMMA WriteDocStep == ASSUME DocsInv, NEW h \in Handlers, WriteDoc(h) PROVE DocsInv'
<1>1. PICK v, t : v = writing[h] /\ t = v.target
  OBVIOUS
<1>2. /\ v.pc \in {"patch", "status", "delete"} /\ Ends(h) /\ UNCHANGED refusals
      /\ \/ Drawn(t) /\ (PatchDoc(v) \/ UpdateStatus(v) \/ RemoveDoc(v))
         \/ UNCHANGED <<doc, removed>>
  BY <1>1, Zenon DEF WriteDoc
<1>3. v \in WritingRec /\ HoldsRow(v) /\ t \in Docs
  BY <1>1, <1>2 DEF DocsInv, DocRowsInv, WritingInv, HoldsRow
<1>4. CASE UNCHANGED <<doc, removed>>
  <2>1. "unexplained" \notin refusals'
    BY <1>2 DEF DocsInv, LostInv
  <2> QED
    BY <1>2, <1>4, <2>1, EndsStep
<1>5. ASSUME Drawn(t)
      PROVE  /\ doc \in [Docs -> DocRow] /\ doc[t] \in DocRow /\ WellWritten(doc[t])
             /\ doc[t].n \in Nat \ {0}
  BY <1>3, <1>5 DEF DocsInv, DocRowsInv, ApartInv
<1>6. CASE Drawn(t) /\ PatchDoc(v)
  <2>1. PICK row : row = Patched(doc[t], v.row)
    OBVIOUS
  <2>2. WellWritten(v.row) /\ v.row.totals = TotalsOf(v.row.content) /\ v.row \in DocRow
    BY <1>3, <1>6 DEF PatchDoc, HoldsRow, WritingRec
  <2>3. /\ row \in DocRow /\ WellWritten(row) /\ row.n = doc[t].n /\ row.kind = doc[t].kind
        /\ row.year = doc[t].year
    BY <1>5, <1>6, <2>1, <2>2 DEF Patched, DocRow, WellWritten
  <2>4. doc' = [doc EXCEPT ![t] = row] /\ UNCHANGED removed
    BY <1>1, <1>6, <2>1 DEF PatchDoc
  <2> QED
    BY <1>2, <1>3, <1>6, <2>3, <2>4, WrittenStep
<1>7. CASE Drawn(t) /\ UpdateStatus(v)
  <2>1. PICK row : row = [doc[t] EXCEPT !.status = "sent"]
    OBVIOUS
  <2>2. /\ row \in DocRow /\ WellWritten(row) /\ row.n = doc[t].n /\ row.kind = doc[t].kind
        /\ row.year = doc[t].year
    BY <1>5, <1>7, <2>1 DEF DocRow, WellWritten
  <2>3. doc' = [doc EXCEPT ![t] = row] /\ UNCHANGED removed
    BY <1>1, <1>7, <2>1 DEF UpdateStatus
  <2> QED
    BY <1>2, <1>3, <1>7, <2>2, <2>3, WrittenStep
<1>8. CASE Drawn(t) /\ RemoveDoc(v)
  <2>1. PICK row : row = [NoDoc EXCEPT !.state = "gone"]
    OBVIOUS
  <2>2. row \in DocRow /\ row.state = "gone"
    BY <2>1 DEF NoDoc, DocRow
  <2>3. /\ doc' = [doc EXCEPT ![t] = row]
        /\ removed' = removed \cup {<<doc[t].kind, doc[t].year>>}
    BY <1>1, <1>8, <2>1 DEF RemoveDoc
  <2> QED
    BY <1>2, <1>3, <1>8, <2>2, <2>3, WrittenStep
<1> QED
  BY <1>2, <1>4, <1>6, <1>7, <1>8

LEMMA NextDocsInv == ASSUME DocsInv, [DocsNext]_<<docVars, counters>> PROVE DocsInv'
<1>1. CASE DocsNext
  <2>1. PICK h \in Handlers : \/ CreateDoc(h) \/ ConvertQuote(h) \/ NextNumero(h)
                              \/ InsertDoc(h) \/ EditDoc(h) \/ WriteDoc(h)
    BY <1>1 DEF DocsNext
  <2> QED
    BY <2>1, CreateDocStep, ConvertQuoteStep, NextNumeroStep, InsertDocStep, EditDocStep,
       WriteDocStep
<1>2. CASE UNCHANGED <<docVars, counters>>
  <2>1. UNCHANGED <<doc, writing, removed, refusals>>
    BY <1>2 DEF docVars
  <2>2. DocRowsInv' /\ ApartInv' /\ LostInv'
    BY <2>1 DEF DocsInv, DocRowsInv, ApartInv, LostInv, LostToRivals, Creating, TakenNo, Of,
                Drawn
  <2>3. WritingInv'
    BY <2>1 DEF DocsInv, WritingInv, HoldsRow, Creating
  <2>4. GapInv'
    <3> SUFFICES ASSUME NEW k \in DocKinds, NEW y \in DocYears, <<k, y>> \notin removed'
                 PROVE  \E N \in Nat : GaplessUpTo(k, y, N)'
      BY DEF GapInv
    <3>1. PICK N \in Nat : GaplessUpTo(k, y, N)
      BY <2>1 DEF DocsInv, GapInv
    <3>2. Numbers(k, y)' = Numbers(k, y) /\ \A h \in Handlers : Close(writing[h], k, y, N)'
      BY <2>1, <3>1 DEF GaplessUpTo, Numbers, Close, Of, Drawn
    <3> QED
      BY <3>1, <3>2 DEF GaplessUpTo
  <2> QED
    BY <2>2, <2>3, <2>4 DEF DocsInv
<1> QED
  BY <1>1, <1>2

\* As many numbers as documents of a kind and year, and 1 .. N is N numbers.
LEMMA NumbersCounted ==
    ASSUME DocsInv, NEW k \in DocKinds, NEW y \in DocYears
    PROVE  /\ Cardinality(Numbers(k, y)) = Cardinality(Of(k, y))
           /\ <<k, y>> \notin removed => Numbers(k, y) = 1 .. Cardinality(Numbers(k, y))
<1>1. IsFiniteSet(Of(k, y))
  <2>1. Of(k, y) \subseteq Docs
    BY DEF Of
  <2> QED
    BY <2>1, DocsAssumption, FS_Subset
<1> DEFINE f == [d \in Of(k, y) |-> doc[d].n]
<1>2. f \in Bijection(Of(k, y), Numbers(k, y))
  <2>1. f \in Surjection(Of(k, y), Numbers(k, y))
    BY DEF Surjection, Numbers
  <2>2. \A d, e \in Of(k, y) : doc[d].n = doc[e].n => d = e
    BY DEF DocsInv, ApartInv, SameNumber, Of
  <2>3. f \in Injection(Of(k, y), Numbers(k, y))
    BY <2>1, <2>2 DEF Injection, IsInjective, Surjection
  <2> QED
    BY <2>1, <2>3 DEF Bijection
<1>3. Cardinality(Numbers(k, y)) = Cardinality(Of(k, y))
  <2> HIDE DEF f
  <2>1. ExistsBijection(Of(k, y), Numbers(k, y))
    BY <1>2 DEF ExistsBijection
  <2> QED
    BY <1>1, <2>1, FS_Bijection
<1>4. ASSUME <<k, y>> \notin removed
      PROVE  Numbers(k, y) = 1 .. Cardinality(Numbers(k, y))
  <2>1. PICK N \in Nat : Numbers(k, y) = 1 .. N
    BY <1>4 DEF DocsInv, GapInv, GaplessUpTo
  <2>2. Cardinality(1 .. N) = N
    BY FS_Interval
  <2> QED
    BY <2>1, <2>2
<1> QED
  BY <1>3, <1>4

\* The invariant has the types of the rows and of the requests.
LEMMA DocsTypesHold == DocsInv => DocsTypeOK
<1> SUFFICES ASSUME DocsInv PROVE DocsTypeOK
  OBVIOUS
<1>1. \A d \in Docs : Drawn(d) =>
         /\ doc[d] \in DocRow /\ WellWritten(doc[d]) /\ doc[d].n \in Nat \ {0}
  BY DEF DocsInv, DocRowsInv, ApartInv
<1>2. \A h \in Handlers : writing[h] \in WritingRec
  BY DEF DocsInv, DocRowsInv
<1>3. \A h \in Handlers :
         /\ writing[h].pc \in {"idle", "number", "insert", "patch", "status", "delete"}
         /\ writing[h].target \in Docs \cup {None}
         /\ writing[h].tries \in 0 .. Attempts - 1
  BY <1>2 DEF WritingRec
<1>4. \A d \in Docs : Drawn(d) =>
         /\ doc[d].kind \in DocKinds /\ doc[d].year \in DocYears /\ doc[d].date \in DocYears
         /\ doc[d].n \in Nat \ {0} /\ doc[d].status \in {"draft", "sent"}
         /\ doc[d].content \in Contents /\ doc[d].free \in BOOLEAN
  BY <1>1 DEF DocRow, WellWritten
<1> QED
  BY <1>3, <1>4 DEF DocsTypeOK, DocsInv, DocRowsInv

\* Types of the rows, of the requests and of the history, for any documents, years,
\* contents, numbers, attempts and requests.
THEOREM DocsTyped == DocsSpec => []DocsTypeOK
BY DocsTypesHold, InitDocsInv, NextDocsInv, PTL DEF DocsSpec

\* The invariant has the numbers and the totals of documents.
LEMMA DocumentsKept == DocsInv => DocumentsAddUp
<1> SUFFICES ASSUME DocsInv PROVE DocumentsAddUp
  OBVIOUS
<1>1. \A d \in Docs : Drawn(d) /\ ~(doc[d].kind = "facture" /\ doc[d].free) =>
                          doc[d].totals = TotalsOf(doc[d].content)
  BY DEF DocsInv, ApartInv, WellWritten
<1>2. "unexplained" \notin refusals
  BY DEF DocsInv, LostInv
<1>3. ASSUME NEW k \in DocKinds, NEW y \in DocYears
      PROVE  LET numbers == {doc[d].n : d \in Of(k, y)}
             IN  /\ Cardinality(numbers) = Cardinality(Of(k, y))
                 /\ <<k, y>> \notin removed => numbers = 1 .. Cardinality(numbers)
  BY NumbersCounted DEF Numbers
<1> QED
  BY <1>1, <1>2, <1>3, Zenon DEF DocumentsAddUp

\* The numbers of a kind and year have no gap until one is removed or proposed, none is
\* given twice, every refusal has its reason, and the totals are those of the lines: for
\* any documents, however many requests read and insert numbers at once.
THEOREM DocumentsAreRight == DocsSpec => []DocumentsAddUp
BY DocumentsKept, InitDocsInv, NextDocsInv, PTL DEF DocsSpec

----------------------------------------------------------------------------
(* Leads of ClickUp *)

SyncRec == [pc : {"idle", "fetch", "exists", "save", "lookUp", "delete", "page"},
            task : Tasks \cup {None}, read : Seq(Snapshots), lists : SUBSET Lists,
            page : Nat, existed : BOOLEAN]

LeadTypes ==
    /\ task \in [Tasks -> Task] /\ lead \in [Tasks -> LeadRow]
    /\ webhooks \subseteq [event : {"taskCreated", "taskUpdated", "taskDeleted"}, task : Tasks]
    /\ sync \in [Handlers -> SyncRec] /\ announced \in [Tasks -> Int]
    /\ unheard \subseteq Tasks /\ crossed \subseteq Tasks

\* The rows a handler has read of t.
Seen(read, t) == {read[i].as : i \in {j \in DOMAIN read : read[j].id = t}}

\* It works on t, and may come to work on it.
Handles(s, t) == s.task = t \/ Seen(s.read, t) # {}
Near(s, t)    == Handles(s, t) \/ s.lists # {}

\* What a handler has in hand at each step.
StepOK(s) ==
    /\ s.pc = "idle" => s.lists = {} /\ s.read = <<>>
    /\ s.pc = "page" => s.lists # {}
    /\ s.pc \in {"exists", "save"} => s.read # <<>>
    /\ s.pc \in {"fetch", "lookUp", "delete"} =>
          s.task \in Tasks /\ s.lists = {} /\ s.read = <<>>
    /\ s.pc \notin {"fetch", "lookUp", "delete"} => s.task = None

SyncAt(s, pcs, t) == s.pc \in pcs /\ s.task = t
OnItsWay(t)       == \E w \in webhooks : w.task = t
DeletionSent(t)    == [event |-> "taskDeleted", task |-> t] \in webhooks

\* A task that was not made is nowhere, and one that was deleted stays so.
TaskMadeInv(t) ==
    /\ task[t].exists => task[t].made
    /\ ~task[t].made =>
          lead[t] = NoLead /\ ~OnItsWay(t) /\ \A h \in Handlers : ~Handles(sync[h], t)
    /\ DeletionSent(t) => ~task[t].exists
    /\ \A h \in Handlers : SyncAt(sync[h], {"lookUp", "delete"}, t) => ~task[t].exists
    /\ \A h \in Handlers : \A r \in Seen(sync[h].read, t) : r.exists
    /\ ~lead[t].exists => lead[t] = NoLead

\* What one handler alone knows of the row, and the browsers of its creation.
SingleInv(t) ==
    t \notin crossed =>
        /\ \A g, h \in Handlers : Near(sync[g], t) /\ Near(sync[h], t) => g = h
        /\ announced[t] = IF lead[t].exists THEN 1 ELSE 0
        /\ \A h \in Handlers :
              /\ (sync[h].pc = "save" /\ sync[h].read[1].id = t) =>
                    sync[h].existed = lead[t].exists
              /\ SyncAt(sync[h], {"delete"}, t) => lead[t].exists

\* A task deleted at ClickUp whose webhook was handled: the row is gone or going.
GoneInv(t) ==
    (/\ t \notin unheard \cup crossed /\ task[t].made /\ ~task[t].exists /\ ~DeletionSent(t)) =>
        /\ \A h \in Handlers : Seen(sync[h].read, t) = {}
        /\ lead[t] = NoLead \/ \E h \in Handlers : SyncAt(sync[h], {"lookUp", "delete"}, t)

\* A task whose webhooks were all handled: the row shows it, or a handler will see to it.
MirroredInv(t) ==
    (/\ t \notin unheard \cup crossed /\ task[t].exists /\ ~OnItsWay(t)) =>
        /\ \A h \in Handlers : \A r \in Seen(sync[h].read, t) : r = task[t]
        /\ \/ lead[t] = MapTask(task[t], NoLead)
           \/ \E h \in Handlers : SyncAt(sync[h], {"fetch"}, t)
           \/ \E h \in Handlers : sync[h].pc \in {"exists", "save"} /\ Seen(sync[h].read, t) # {}

TaskInv(t) == TaskMadeInv(t) /\ SingleInv(t) /\ GoneInv(t) /\ MirroredInv(t)

LeadsInv == LeadTypes /\ (\A h \in Handlers : StepOK(sync[h])) /\ \A t \in Tasks : TaskInv(t)

\* Nothing was seen in an empty sequence.
LEMMA SeenNone == \A t : Seen(<<>>, t) = {}
BY DEF Seen

LEMMA SeenOne == \A t, e : Seen(<<e>>, t) = IF e.id = t THEN {e.as} ELSE {}
BY DEF Seen

\* The first row read and the others.
LEMMA SeenTail ==
    ASSUME NEW read \in Seq(Snapshots), read # <<>>, NEW t
    PROVE  /\ read[1] \in Snapshots /\ Tail(read) \in Seq(Snapshots)
           /\ Seen(read, t) = Seen(Tail(read), t)
                                \cup (IF read[1].id = t THEN {read[1].as} ELSE {})
<1>1. /\ Len(read) \in Nat \ {0} /\ DOMAIN read = 1 .. Len(read) /\ read[1] \in Snapshots
      /\ Tail(read) \in Seq(Snapshots) /\ DOMAIN Tail(read) = 1 .. Len(read) - 1
      /\ \A i \in 1 .. Len(read) - 1 : Tail(read)[i] = read[i + 1]
  OBVIOUS
<1>2. Seen(Tail(read), t) \subseteq Seen(read, t)
  <2> SUFFICES ASSUME NEW i \in 1 .. Len(read) - 1, Tail(read)[i].id = t
               PROVE  Tail(read)[i].as \in Seen(read, t)
    BY <1>1 DEF Seen
  <2>1. i + 1 \in DOMAIN read /\ read[i + 1] = Tail(read)[i]
    BY <1>1
  <2> QED
    BY <2>1 DEF Seen
<1>3. read[1].id = t => read[1].as \in Seen(read, t)
  BY <1>1 DEF Seen
<1>4. ASSUME NEW i \in DOMAIN read, read[i].id = t, ~(i = 1)
      PROVE  read[i].as \in Seen(Tail(read), t)
  <2>1. i - 1 \in 1 .. Len(read) - 1 /\ Tail(read)[i - 1] = read[i]
    BY <1>1, <1>4
  <2> QED
    BY <1>1, <1>4, <2>1 DEF Seen
<1>5. Seen(read, t) \subseteq Seen(Tail(read), t)
                                \cup (IF read[1].id = t THEN {read[1].as} ELSE {})
  <2> SUFFICES ASSUME NEW i \in DOMAIN read, read[i].id = t
               PROVE  read[i].as \in Seen(Tail(read), t)
                                       \cup (IF read[1].id = t THEN {read[1].as} ELSE {})
    BY DEF Seen
  <2> QED
    BY <1>4
<1> QED
  BY <1>1, <1>2, <1>3, <1>5

\* What is read twice over is seen in one of the two.
LEMMA SeenConcat ==
    ASSUME NEW a \in Seq(Snapshots), NEW b \in Seq(Snapshots), NEW t
    PROVE  a \o b \in Seq(Snapshots) /\ Seen(a \o b, t) = Seen(a, t) \cup Seen(b, t)
<1>1. /\ Len(a) \in Nat /\ Len(b) \in Nat /\ DOMAIN a = 1 .. Len(a) /\ DOMAIN b = 1 .. Len(b)
      /\ a \o b \in Seq(Snapshots) /\ DOMAIN (a \o b) = 1 .. Len(a) + Len(b)
      /\ \A i \in 1 .. Len(a) + Len(b) :
            (a \o b)[i] = IF i <= Len(a) THEN a[i] ELSE b[i - Len(a)]
  OBVIOUS
<1>2. Seen(a, t) \subseteq Seen(a \o b, t)
  <2> SUFFICES ASSUME NEW i \in DOMAIN a, a[i].id = t
               PROVE  a[i].as \in Seen(a \o b, t)
    BY DEF Seen
  <2>1. i \in DOMAIN (a \o b) /\ (a \o b)[i] = a[i]
    BY <1>1
  <2> QED
    BY <2>1 DEF Seen
<1>3. Seen(b, t) \subseteq Seen(a \o b, t)
  <2> SUFFICES ASSUME NEW i \in DOMAIN b, b[i].id = t
               PROVE  b[i].as \in Seen(a \o b, t)
    BY DEF Seen
  <2>1. i + Len(a) \in DOMAIN (a \o b) /\ (a \o b)[i + Len(a)] = b[i]
    BY <1>1
  <2> QED
    BY <2>1 DEF Seen
<1>4. Seen(a \o b, t) \subseteq Seen(a, t) \cup Seen(b, t)
  <2> SUFFICES ASSUME NEW i \in DOMAIN (a \o b), (a \o b)[i].id = t
               PROVE  (a \o b)[i].as \in Seen(a, t) \cup Seen(b, t)
    BY DEF Seen
  <2>1. CASE i <= Len(a)
    <3>1. i \in DOMAIN a /\ (a \o b)[i] = a[i]
      BY <1>1, <2>1
    <3> QED
      BY <3>1 DEF Seen
  <2>2. CASE ~(i <= Len(a))
    <3>1. i - Len(a) \in DOMAIN b /\ (a \o b)[i] = b[i - Len(a)]
      BY <1>1, <2>2
    <3> QED
      BY <3>1 DEF Seen
  <2> QED
    BY <2>1, <2>2
<1> QED
  BY <1>1, <1>2, <1>3, <1>4

\* No task, no row, nobody at work.
LEMMA InitLeadsInv == ClickupInit => LeadsInv
<1> SUFFICES ASSUME ClickupInit PROVE LeadsInv
  OBVIOUS
<1>1. /\ task \in [Tasks -> {r \in Task : ~r.made /\ ~r.exists /\ r.title = None /\ r.field = None}]
      /\ lead = [t \in Tasks |-> NoLead] /\ webhooks = {} /\ unheard = {} /\ crossed = {}
      /\ sync = [h \in Handlers |-> IdleSync] /\ announced = [t \in Tasks |-> 0]
  BY DEF ClickupInit
<1>2. IdleSync \in SyncRec /\ StepOK(IdleSync) /\ IdleSync.pc = "idle"
  BY DEF IdleSync, SyncRec, StepOK
<1>3. LeadTypes
  BY <1>1, <1>2 DEF LeadTypes, NoLead, LeadRow
<1>4. ASSUME NEW t \in Tasks
      PROVE  TaskInv(t)
  <2>1. ~task[t].made /\ ~task[t].exists /\ lead[t] = NoLead /\ ~lead[t].exists
    BY <1>1 DEF NoLead
  <2>2. ~OnItsWay(t) /\ ~DeletionSent(t)
    BY <1>1 DEF OnItsWay, DeletionSent
  <2>3. ASSUME NEW h \in Handlers
        PROVE  /\ ~Near(sync[h], t) /\ ~Handles(sync[h], t) /\ Seen(sync[h].read, t) = {}
               /\ sync[h].pc = "idle"
    <3>1. sync[h].read = <<>> /\ sync[h].task = None /\ sync[h].lists = {}
             /\ sync[h].pc = "idle"
      BY <1>1 DEF IdleSync
    <3> QED
      BY <3>1, SeenNone, LeadsAssumption DEF Near, Handles
  <2>4. TaskMadeInv(t)
    BY <2>1, <2>2, <2>3 DEF TaskMadeInv, SyncAt
  <2>5. SingleInv(t)
    BY <1>1, <2>1, <2>3 DEF SingleInv, SyncAt
  <2>6. GoneInv(t) /\ MirroredInv(t)
    BY <2>1 DEF GoneInv, MirroredInv
  <2> QED
    BY <2>4, <2>5, <2>6 DEF TaskInv
<1> QED
  BY <1>1, <1>2, <1>3, <1>4 DEF LeadsInv

\* What the step from s to v means to a task it is not about.
SameFor(s, v, t) ==
    /\ Handles(v, t) => Handles(s, t)
    /\ v.lists # {} => s.lists # {}
    /\ \A p \in {"fetch", "lookUp", "delete"} : SyncAt(v, {p}, t) <=> SyncAt(s, {p}, t)
    /\ Seen(v.read, t) = Seen(s.read, t)
    /\ s.pc \in {"exists", "save"} /\ Seen(s.read, t) # {} => v.pc \in {"exists", "save"}
    /\ (v.pc = "save" /\ v.read[1].id = t) =>
          s.pc = "save" /\ s.read[1].id = t /\ v.existed = s.existed

LEMMA SameForItself == \A s, t : SameFor(s, s, t)
BY DEF SameFor

\* A task a step is not about keeps its invariant.
LEMMA UntouchedStep ==
    ASSUME NEW t \in Tasks, TaskInv(t), task'[t] = task[t], lead'[t] = lead[t],
           announced'[t] = announced[t], OnItsWay(t)' <=> OnItsWay(t),
           DeletionSent(t)' <=> DeletionSent(t),
           t \in unheard <=> t \in unheard', t \in crossed => t \in crossed',
           \A h \in Handlers : SameFor(sync[h], sync'[h], t)
    PROVE  TaskInv(t)'
<1>1. ASSUME NEW h \in Handlers
      PROVE  /\ Handles(sync'[h], t) => Handles(sync[h], t)
             /\ Near(sync'[h], t) => Near(sync[h], t)
             /\ \A p \in {"fetch", "lookUp", "delete"} :
                   SyncAt(sync'[h], {p}, t) <=> SyncAt(sync[h], {p}, t)
             /\ SyncAt(sync'[h], {"lookUp", "delete"}, t)
                   <=> SyncAt(sync[h], {"lookUp", "delete"}, t)
             /\ Seen(sync'[h].read, t) = Seen(sync[h].read, t)
             /\ sync[h].pc \in {"exists", "save"} /\ Seen(sync[h].read, t) # {} =>
                   sync'[h].pc \in {"exists", "save"}
             /\ (sync'[h].pc = "save" /\ sync'[h].read[1].id = t) =>
                   sync[h].pc = "save" /\ sync[h].read[1].id = t
                     /\ sync'[h].existed = sync[h].existed
  <2>1. SameFor(sync[h], sync'[h], t)
    OBVIOUS
  <2>2. SyncAt(sync'[h], {"lookUp", "delete"}, t) <=> SyncAt(sync[h], {"lookUp", "delete"}, t)
    BY <2>1 DEF SameFor, SyncAt
  <2>3. Near(sync'[h], t) => Near(sync[h], t)
    BY <2>1 DEF SameFor, Near
  <2> QED
    BY <2>1, <2>2, <2>3 DEF SameFor
<1>2. TaskMadeInv(t)'
  <2>1. TaskMadeInv(t)
    BY DEF TaskInv
  <2> QED
    BY <1>1, <2>1 DEF TaskMadeInv
<1>3. SingleInv(t)'
  <2>1. SingleInv(t)
    BY DEF TaskInv
  <2> QED
    BY <1>1, <2>1 DEF SingleInv
<1>4. GoneInv(t)'
  <2>1. GoneInv(t)
    BY DEF TaskInv
  <2> QED
    BY <1>1, <2>1 DEF GoneInv
<1>5. MirroredInv(t)'
  <2>1. MirroredInv(t)
    BY DEF TaskInv
  <2> QED
    BY <1>1, <2>1 DEF MirroredInv, MapTask, ResolveEmail
<1> QED
  BY <1>2, <1>3, <1>4, <1>5 DEF TaskInv

\* ClickUp changes a task and announces it: until the webhook is handled nothing is
\* said of the row.
LEMMA ChangeStep ==
    ASSUME LeadsInv, NEW t \in Tasks, NEW r \in Task, r.made, task' = [task EXCEPT ![t] = r],
           NEW e \in {"taskCreated", "taskUpdated", "taskDeleted"}, Announce(e, t),
           UNCHANGED <<lead, sync, announced, unheard, crossed>>,
           r.exists => /\ e # "taskDeleted" /\ ~DeletionSent(t)
                       /\ \A h \in Handlers : ~SyncAt(sync[h], {"lookUp", "delete"}, t),
           ~r.exists => e = "taskDeleted"
    PROVE  LeadsInv'
<1>1. LeadTypes' /\ \A h \in Handlers : StepOK(sync[h])'
  BY DEF LeadsInv, LeadTypes, StepOK, Announce
<1>2. webhooks' = webhooks \cup {[event |-> e, task |-> t]}
  BY DEF Announce
<1>3. TaskInv(t)'
  <2>1. task'[t] = r /\ TaskInv(t)
    BY DEF LeadsInv, LeadTypes
  <2>2. OnItsWay(t)' /\ (~r.exists => DeletionSent(t)') /\ (r.exists => ~DeletionSent(t)')
    <3>1. ~r.exists => [event |-> "taskDeleted", task |-> t] \in webhooks'
      BY <1>2
    <3>2. [event |-> e, task |-> t] \in webhooks' /\ [event |-> e, task |-> t].task = t
      BY <1>2
    <3>3. e # "taskDeleted" => [event |-> e, task |-> t] # [event |-> "taskDeleted", task |-> t]
      OBVIOUS
    <3> QED
      BY <1>2, <3>1, <3>2, <3>3 DEF OnItsWay, DeletionSent
  <2>3. TaskMadeInv(t)'
    BY <2>1, <2>2 DEF TaskInv, TaskMadeInv, SyncAt, Seen, Handles
  <2>4. SingleInv(t)'
    <3>1. SingleInv(t)
      BY <2>1 DEF TaskInv
    <3> QED
      BY <3>1 DEF SingleInv
  <2>5. GoneInv(t)' /\ MirroredInv(t)'
    BY <2>1, <2>2 DEF GoneInv, MirroredInv
  <2> QED
    BY <2>3, <2>4, <2>5 DEF TaskInv
<1>4. ASSUME NEW u \in Tasks, u # t
      PROVE  TaskInv(u)'
  <2>1. task'[u] = task[u]
    BY <1>4 DEF LeadsInv, LeadTypes
  <2>2. (OnItsWay(u)' <=> OnItsWay(u)) /\ (DeletionSent(u)' <=> DeletionSent(u))
    <3>1. [event |-> "taskDeleted", task |-> u] # [event |-> e, task |-> t]
             /\ [event |-> e, task |-> t].task = t
      BY <1>4
    <3> QED
      BY <1>2, <1>4, <3>1 DEF OnItsWay, DeletionSent
  <2> QED
    BY <2>1, <2>2, SameForItself, UntouchedStep DEF LeadsInv
<1> QED
  BY <1>1, <1>3, <1>4 DEF LeadsInv

LEMMA CreateTaskStep == ASSUME LeadsInv, NEW t \in Tasks, CreateTask(t) PROVE LeadsInv'
<1>1. PICK r \in Task : r.made /\ r.exists /\ task' = [task EXCEPT ![t] = r]
  BY DEF CreateTask
<1>2. ~DeletionSent(t) /\ \A h \in Handlers : ~SyncAt(sync[h], {"lookUp", "delete"}, t)
  <2>1. ~OnItsWay(t) /\ \A h \in Handlers : ~Handles(sync[h], t)
    BY DEF LeadsInv, TaskInv, TaskMadeInv, CreateTask
  <2> QED
    BY <2>1 DEF OnItsWay, DeletionSent, Handles, SyncAt
<1> QED
  BY <1>1, <1>2, ChangeStep DEF CreateTask

LEMMA UpdateTaskStep == ASSUME LeadsInv, NEW t \in Tasks, UpdateTask(t) PROVE LeadsInv'
<1>1. PICK r \in Task : r.made /\ r.exists /\ task' = [task EXCEPT ![t] = r]
  BY DEF UpdateTask
<1>2. ~DeletionSent(t) /\ \A h \in Handlers : ~SyncAt(sync[h], {"lookUp", "delete"}, t)
  BY DEF LeadsInv, TaskInv, TaskMadeInv, UpdateTask
<1> QED
  BY <1>1, <1>2, ChangeStep DEF UpdateTask

LEMMA DeleteTaskStep == ASSUME LeadsInv, NEW t \in Tasks, DeleteTask(t) PROVE LeadsInv'
<1>1. PICK r : r = [task[t] EXCEPT !.exists = FALSE]
  OBVIOUS
<1>2. task[t] \in Task /\ task[t].made
  BY DEF LeadsInv, LeadTypes, TaskInv, TaskMadeInv, DeleteTask
<1>3. r \in Task /\ r.made /\ ~r.exists
  BY <1>1, <1>2 DEF Task
<1>4. task' = [task EXCEPT ![t] = r]
  BY <1>1 DEF DeleteTask
<1> QED
  BY <1>3, <1>4, ChangeStep DEF DeleteTask

\* A lost webhook leaves its task unheard.
LEMMA LoseWebhookStep == ASSUME LeadsInv, LoseWebhook PROVE LeadsInv'
<1>1. PICK w \in webhooks : webhooks' = webhooks \ {w} /\ unheard' = unheard \cup {w.task}
  BY DEF LoseWebhook
<1>2. UNCHANGED <<task, lead, sync, announced, crossed>>
  BY DEF LoseWebhook
<1>3. /\ w \in [event : {"taskCreated", "taskUpdated", "taskDeleted"}, task : Tasks]
      /\ w.task \in Tasks
  BY DEF LeadsInv, LeadTypes
<1>4. LeadTypes' /\ \A h \in Handlers : StepOK(sync[h])'
  BY <1>1, <1>2, <1>3 DEF LeadsInv, LeadTypes, StepOK
<1>5. TaskInv(w.task)'
  <2>1. TaskInv(w.task) /\ w.task \in unheard'
    BY <1>1, <1>3 DEF LeadsInv
  <2>2. (OnItsWay(w.task)' => OnItsWay(w.task)) /\ (DeletionSent(w.task)' => DeletionSent(w.task))
    BY <1>1 DEF OnItsWay, DeletionSent
  <2>3. TaskMadeInv(w.task)'
    BY <1>2, <2>1, <2>2 DEF TaskInv, TaskMadeInv, SyncAt, Seen, Handles
  <2>4. SingleInv(w.task)'
    <3>1. SingleInv(w.task)
      BY <2>1 DEF TaskInv
    <3> QED
      BY <1>2, <3>1 DEF SingleInv
  <2>5. GoneInv(w.task)' /\ MirroredInv(w.task)'
    BY <2>1 DEF GoneInv, MirroredInv
  <2> QED
    BY <2>3, <2>4, <2>5 DEF TaskInv
<1>6. ASSUME NEW u \in Tasks, u # w.task
      PROVE  TaskInv(u)'
  <2>1. (OnItsWay(u)' <=> OnItsWay(u)) /\ (DeletionSent(u)' <=> DeletionSent(u))
    BY <1>1, <1>6 DEF OnItsWay, DeletionSent
  <2> QED
    BY <1>1, <1>2, <1>6, <2>1, SameForItself, UntouchedStep DEF LeadsInv
<1> QED
  BY <1>4, <1>5, <1>6 DEF LeadsInv

\* A handler that moves, seen by the tasks its step is not about.
LEMMA OthersKept ==
    ASSUME LeadsInv, NEW h \in Handlers, NEW v \in SyncRec, sync' = [sync EXCEPT ![h] = v],
           NEW u \in Tasks, UNCHANGED <<task, webhooks>>, lead'[u] = lead[u],
           announced'[u] = announced[u], u \in unheard <=> u \in unheard',
           u \in crossed => u \in crossed', SameFor(sync[h], v, u)
    PROVE  TaskInv(u)'
<1>1. \A g \in Handlers : SameFor(sync[g], sync'[g], u)
  <2>1. sync'[h] = v /\ \A g \in Handlers : g # h => sync'[g] = sync[g]
    BY DEF LeadsInv, LeadTypes
  <2> QED
    BY <2>1, SameForItself
<1>2. (OnItsWay(u)' <=> OnItsWay(u)) /\ (DeletionSent(u)' <=> DeletionSent(u))
  BY DEF OnItsWay, DeletionSent
<1>3. TaskInv(u) /\ task'[u] = task[u]
  BY DEF LeadsInv
<1> QED
  BY <1>1, <1>2, <1>3, UntouchedStep

\* The handlers after one of them moved.
LEMMA MovedHandler ==
    ASSUME LeadsInv, NEW h \in Handlers, NEW v \in SyncRec, StepOK(v),
           sync' = [sync EXCEPT ![h] = v]
    PROVE  /\ sync' \in [Handlers -> SyncRec] /\ sync'[h] = v
           /\ \A g \in Handlers : g # h => sync'[g] = sync[g]
           /\ \A g \in Handlers : StepOK(sync[g])'
<1>1. /\ sync' \in [Handlers -> SyncRec] /\ sync'[h] = v
      /\ \A g \in Handlers : g # h => sync'[g] = sync[g]
  BY DEF LeadsInv, LeadTypes
<1>2. \A g \in Handlers : StepOK(sync'[g])
  BY <1>1 DEF LeadsInv
<1> QED
  BY <1>1, <1>2 DEF StepOK

\* A handler at rest.
LEMMA IdleSyncIs ==
    /\ IdleSync \in SyncRec /\ StepOK(IdleSync) /\ IdleSync.pc = "idle"
    /\ IdleSync.task = None /\ IdleSync.read = <<>> /\ IdleSync.lists = {}
BY DEF IdleSync, SyncRec, StepOK

\* Working on a task, as the invariant and as the model say it.
LEMMA ConcernsIs ==
    ASSUME LeadsInv, NEW h \in Handlers, NEW t \in Tasks
    PROVE  (Concerns(h, t) <=> Handles(sync[h], t))
<1>1. StepOK(sync[h]) /\ sync[h] \in SyncRec
  BY DEF LeadsInv, LeadTypes
<1>2. (\E i \in DOMAIN sync[h].read : sync[h].read[i].id = t) <=> Seen(sync[h].read, t) # {}
  BY DEF Seen
<1>3. sync[h].pc = "idle" => ~Handles(sync[h], t)
  BY <1>1, SeenNone, LeadsAssumption DEF StepOK, Handles
<1> QED
  BY <1>2, <1>3 DEF Concerns, Handles

\* The handler of a webhook: alone on its task, or the task is crossed.
LEMMA ReceiveWebhookStep ==
    ASSUME LeadsInv, NEW h \in Handlers, ReceiveWebhook(h) PROVE LeadsInv'
<1>1. PICK w \in webhooks :
          /\ webhooks' = webhooks \ {w}
          /\ sync' = [sync EXCEPT ![h] = [IdleSync EXCEPT !.task = w.task,
                !.pc = IF w.event = "taskDeleted" THEN "lookUp" ELSE "fetch"]]
          /\ crossed' = Crossing(w.task)
  BY DEF ReceiveWebhook
<1>2. sync[h].pc = "idle" /\ UNCHANGED <<task, lead, announced, unheard>>
  BY DEF ReceiveWebhook
<1>3. PICK t : t = w.task
  OBVIOUS
<1>4. w \in [event : {"taskCreated", "taskUpdated", "taskDeleted"}, task : Tasks] /\ t \in Tasks
  BY <1>3 DEF LeadsInv, LeadTypes
<1>5. PICK v : v = [IdleSync EXCEPT !.task = w.task,
                      !.pc = IF w.event = "taskDeleted" THEN "lookUp" ELSE "fetch"]
  OBVIOUS
<1>6. /\ v \in SyncRec /\ v.task = t /\ v.lists = {} /\ v.read = <<>>
      /\ v.pc = IF w.event = "taskDeleted" THEN "lookUp" ELSE "fetch"
  BY <1>3, <1>4, <1>5, IdleSyncIs DEF SyncRec
<1>7. StepOK(v)
  BY <1>4, <1>6 DEF StepOK
<1>8. /\ sync' \in [Handlers -> SyncRec] /\ sync'[h] = v
      /\ \A g \in Handlers : g # h => sync'[g] = sync[g]
      /\ \A g \in Handlers : StepOK(sync[g])'
  BY <1>1, <1>5, <1>6, <1>7, MovedHandler
<1>9. crossed \subseteq crossed' /\ crossed' \subseteq crossed \cup {t}
         /\ (t \notin crossed' => \A g \in Handlers : ~Near(sync[g], t))
  <2>1. crossed' = Crossing(t)
    BY <1>1, <1>3
  <2>2. \A g \in Handlers : Near(sync[g], t) <=> Concerns(g, t) \/ sync[g].lists # {}
    BY <1>4, ConcernsIs DEF Near
  <2> QED
    BY <2>1, <2>2 DEF Crossing
<1>10. LeadTypes'
  BY <1>1, <1>2, <1>4, <1>8, <1>9 DEF LeadsInv, LeadTypes
<1>11. sync[h].read = <<>> /\ sync[h].lists = {} /\ sync[h].task = None
  BY <1>2 DEF LeadsInv, StepOK
<1>12. ASSUME NEW u \in Tasks, u # t
       PROVE  TaskInv(u)'
  <2>1. \A g \in Handlers : SameFor(sync[g], sync'[g], u)
    <3>1. SameFor(sync[h], v, u)
      BY <1>2, <1>6, <1>11, <1>12, SeenNone, LeadsAssumption DEF SameFor, Handles, SyncAt
    <3> QED
      BY <1>8, <3>1, SameForItself
  <2>2. (OnItsWay(u)' <=> OnItsWay(u)) /\ (DeletionSent(u)' <=> DeletionSent(u))
    BY <1>1, <1>3, <1>12 DEF OnItsWay, DeletionSent
  <2> QED
    BY <1>2, <1>9, <2>1, <2>2, UntouchedStep DEF LeadsInv
<1>13. TaskInv(t)'
  <2>1. TaskInv(t) /\ OnItsWay(t) /\ (w.event = "taskDeleted" => DeletionSent(t))
    <3>1. w.event = "taskDeleted" => w = [event |-> "taskDeleted", task |-> t]
      BY <1>3, <1>4
    <3> QED
      BY <1>3, <1>4, <3>1 DEF LeadsInv, OnItsWay, DeletionSent
  <2>2. (OnItsWay(t)' => OnItsWay(t)) /\ (DeletionSent(t)' => DeletionSent(t))
    BY <1>1 DEF OnItsWay, DeletionSent
  <2>3. Seen(v.read, t) = {} /\ Handles(v, t) /\ (SyncAt(v, {"delete"}, t) <=> FALSE)
           /\ (SyncAt(v, {"lookUp", "delete"}, t) <=> w.event = "taskDeleted")
           /\ (SyncAt(v, {"fetch"}, t) <=> w.event # "taskDeleted") /\ v.pc # "save"
    BY <1>6, SeenNone DEF Handles, SyncAt
  <2>4. TaskMadeInv(t)'
    BY <1>2, <1>8, <2>1, <2>2, <2>3 DEF TaskInv, TaskMadeInv
  <2>5. SingleInv(t)'
    BY <1>2, <1>8, <1>9, <2>1, <2>3 DEF TaskInv, SingleInv
  <2>6. GoneInv(t)'
    <3> SUFFICES ASSUME t \notin unheard' \cup crossed', task'[t].made, ~task'[t].exists,
                        ~DeletionSent(t)'
                 PROVE  /\ \A g \in Handlers : Seen(sync'[g].read, t) = {}
                        /\ lead'[t] = NoLead
                             \/ \E g \in Handlers : SyncAt(sync'[g], {"lookUp", "delete"}, t)
      BY DEF GoneInv
    <3>1. \A g \in Handlers : Seen(sync'[g].read, t) = {}
      BY <1>8, <1>9, <2>3 DEF Near, Handles
    <3>2. CASE w.event = "taskDeleted"
      BY <1>8, <2>3, <3>1, <3>2
    <3>3. CASE w.event # "taskDeleted"
      <4>1. ~DeletionSent(t)
        BY <1>1, <3>3 DEF DeletionSent
      <4> QED
        BY <1>2, <1>8, <1>9, <2>1, <3>1, <4>1 DEF TaskInv, GoneInv, Near, Handles, SyncAt
    <3> QED
      BY <3>2, <3>3
  <2>7. MirroredInv(t)'
    <3> SUFFICES ASSUME t \notin unheard' \cup crossed', task'[t].exists, ~OnItsWay(t)'
                 PROVE  /\ \A g \in Handlers : \A r \in Seen(sync'[g].read, t) : r = task'[t]
                        /\ \E g \in Handlers : SyncAt(sync'[g], {"fetch"}, t)
      BY DEF MirroredInv
    <3>1. w.event # "taskDeleted"
      BY <1>2, <2>1 DEF TaskInv, TaskMadeInv
    <3> QED
      BY <1>8, <1>9, <2>3, <3>1 DEF Near, Handles
  <2> QED
    BY <2>4, <2>5, <2>6, <2>7 DEF TaskInv
<1> QED
  BY <1>8, <1>10, <1>12, <1>13 DEF LeadsInv

\* The task is read as it is, or it is gone and the row goes with its own webhook.
LEMMA FetchTaskStep == ASSUME LeadsInv, NEW h \in Handlers, FetchTask(h) PROVE LeadsInv'
<1>1. PICK s, t : s = sync[h] /\ t = s.task
  OBVIOUS
<1>2. /\ s \in SyncRec /\ s.pc = "fetch" /\ t \in Tasks /\ s.lists = {} /\ s.read = <<>>
      /\ UNCHANGED <<task, lead, webhooks, announced, crossed>>
  BY <1>1 DEF FetchTask, LeadsInv, LeadTypes, StepOK
<1>3. /\ Seen(s.read, t) = {} /\ Handles(s, t) /\ TaskInv(t) /\ task[t] \in Task
      /\ SyncAt(s, {"fetch"}, t)
  BY <1>1, <1>2, SeenNone DEF LeadsInv, LeadTypes, Handles, SyncAt
<1>4. CASE /\ task[t].exists
           /\ sync' = [sync EXCEPT ![h].pc = "exists", ![h].task = None,
                                   ![h].read = <<[id |-> t, as |-> task[t]]>>]
           /\ UNCHANGED unheard
  <2>1. PICK e, v : /\ e = [id |-> t, as |-> task[t]]
                    /\ v = [s EXCEPT !.pc = "exists", !.task = None, !.read = <<e>>]
    OBVIOUS
  <2>2. e \in Snapshots /\ e.id = t /\ e.as = task[t]
    BY <1>2, <1>3, <2>1 DEF Snapshots
  <2>3. /\ v \in SyncRec /\ v.pc = "exists" /\ v.task = None /\ v.read = <<e>> /\ v.lists = {}
        /\ StepOK(v)
    <3>1. <<e>> \in Seq(Snapshots) /\ <<e>> # <<>>
      BY <2>2
    <3> QED
      BY <1>2, <2>1, <3>1 DEF SyncRec, StepOK
  <2>4. sync' = [sync EXCEPT ![h] = v]
    BY <1>1, <1>2, <1>4, <2>1 DEF LeadsInv, LeadTypes
  <2>5. /\ sync' \in [Handlers -> SyncRec] /\ sync'[h] = v
        /\ \A g \in Handlers : g # h => sync'[g] = sync[g]
        /\ \A g \in Handlers : StepOK(sync[g])'
    BY <2>3, <2>4, MovedHandler
  <2>6. LeadTypes'
    BY <1>2, <1>4, <2>5 DEF LeadsInv, LeadTypes
  <2>7. ASSUME NEW u \in Tasks, u # t
        PROVE  TaskInv(u)'
    <3>1. Seen(v.read, u) = {} /\ Seen(s.read, u) = {}
      BY <1>2, <2>2, <2>3, <2>7, SeenOne, SeenNone
    <3>2. SameFor(s, v, u)
      BY <1>1, <1>2, <2>3, <2>7, <3>1, LeadsAssumption DEF SameFor, Handles, SyncAt
    <3> QED
      BY <1>1, <1>2, <1>4, <2>3, <2>4, <3>2, OthersKept
  <2>8. TaskInv(t)'
    <3>1. Seen(v.read, t) = {task[t]} /\ Near(v, t) /\ Near(s, t) /\ v.pc = "exists"
             /\ \A pcs : ~SyncAt(v, pcs, t)
      <4>1. Seen(v.read, t) = {task[t]}
        BY <2>2, <2>3, SeenOne
      <4>2. \A pcs : ~SyncAt(v, pcs, t)
        BY <1>2, <2>3, LeadsAssumption DEF SyncAt
      <4> QED
        BY <1>3, <2>3, <4>1, <4>2 DEF Near, Handles
    <3>2. TaskMadeInv(t)'
      BY <1>2, <1>3, <1>4, <2>5, <3>1 DEF TaskInv, TaskMadeInv, OnItsWay, DeletionSent
    <3>3. SingleInv(t)'
      BY <1>1, <1>2, <1>3, <2>5, <3>1 DEF TaskInv, SingleInv
    <3>4. GoneInv(t)'
      BY <1>2, <1>4 DEF GoneInv
    <3>5. MirroredInv(t)'
      BY <1>2, <1>3, <1>4, <2>5, <3>1 DEF TaskInv, MirroredInv, OnItsWay
    <3> QED
      BY <3>2, <3>3, <3>4, <3>5 DEF TaskInv
  <2> QED
    BY <2>5, <2>6, <2>7, <2>8 DEF LeadsInv
<1>5. CASE /\ sync' = [sync EXCEPT ![h] = IdleSync]
           /\ unheard' = IF task[t].exists THEN unheard \cup {t} ELSE unheard
  <2>1. /\ sync' \in [Handlers -> SyncRec] /\ sync'[h] = IdleSync
        /\ \A g \in Handlers : g # h => sync'[g] = sync[g]
        /\ \A g \in Handlers : StepOK(sync[g])'
    BY <1>5, IdleSyncIs, MovedHandler
  <2>2. LeadTypes'
    BY <1>2, <1>5, <2>1 DEF LeadsInv, LeadTypes
  <2>3. ASSUME NEW u \in Tasks, u # t
        PROVE  TaskInv(u)'
    <3>1. SameFor(s, IdleSync, u)
      BY <1>1, <1>2, <2>3, IdleSyncIs, SeenNone, LeadsAssumption DEF SameFor, Handles, SyncAt
    <3> QED
      BY <1>1, <1>2, <1>5, <2>3, <3>1, IdleSyncIs, OthersKept
  <2>4. TaskInv(t)'
    <3>1. Seen(IdleSync.read, t) = {} /\ ~Near(IdleSync, t) /\ ~Handles(IdleSync, t)
             /\ \A pcs : ~SyncAt(IdleSync, pcs, t)
      BY <1>2, IdleSyncIs, SeenNone, LeadsAssumption DEF Near, Handles, SyncAt
    <3>2. TaskMadeInv(t)'
      BY <1>2, <1>3, <2>1, <3>1 DEF TaskInv, TaskMadeInv, OnItsWay, DeletionSent
    <3>3. SingleInv(t)'
      BY <1>2, <1>3, <2>1, <3>1, IdleSyncIs DEF TaskInv, SingleInv
    <3>4. GoneInv(t)'
      BY <1>1, <1>2, <1>3, <1>5, <2>1, <3>1 DEF TaskInv, GoneInv, DeletionSent, SyncAt
    <3>5. MirroredInv(t)'
      BY <1>2, <1>5 DEF MirroredInv
    <3> QED
      BY <3>2, <3>3, <3>4, <3>5 DEF TaskInv
  <2> QED
    BY <2>1, <2>2, <2>3, <2>4 DEF LeadsInv
<1> QED
  BY <1>1, <1>2, <1>4, <1>5 DEF FetchTask

\* What the first row read is about.
LEMMA FirstRead ==
    ASSUME LeadsInv, NEW h \in Handlers, sync[h].pc \in {"exists", "save"}
    PROVE  /\ sync[h] \in SyncRec /\ sync[h].read \in Seq(Snapshots) /\ sync[h].read # <<>>
           /\ sync[h].read[1].id \in Tasks /\ sync[h].read[1].as \in Task
           /\ sync[h].read[1].as \in Seen(sync[h].read, sync[h].read[1].id)
           /\ sync[h].task = None
<1>1. sync[h] \in SyncRec /\ sync[h].read # <<>> /\ sync[h].task = None
  BY DEF LeadsInv, LeadTypes, StepOK
<1>2. sync[h].read \in Seq(Snapshots)
  BY <1>1 DEF SyncRec
<1>3. /\ sync[h].read[1] \in Snapshots
      /\ sync[h].read[1].as \in Seen(sync[h].read, sync[h].read[1].id)
  BY <1>1, <1>2, SeenTail
<1> QED
  BY <1>1, <1>2, <1>3 DEF Snapshots

\* Whether the row was there is read by the one handler of its task.
LEMMA LeadExistsStep == ASSUME LeadsInv, NEW h \in Handlers, LeadExists(h) PROVE LeadsInv'
<1>1. PICK s, t : s = sync[h] /\ t = s.read[1].id
  OBVIOUS
<1>2. /\ s \in SyncRec /\ s.pc = "exists" /\ t \in Tasks /\ s.task = None /\ s.read # <<>>
      /\ UNCHANGED <<task, lead, webhooks, announced, unheard>>
  BY <1>1, FirstRead DEF LeadExists
<1>3. PICK b \in BOOLEAN :
         /\ sync' = [sync EXCEPT ![h].pc = "save", ![h].existed = b]
         /\ \/ b = lead[t].exists /\ crossed' = crossed
            \/ crossed' = crossed \cup {t}
  <2>1. lead[t].exists \in BOOLEAN
    BY <1>2 DEF LeadsInv, LeadTypes, LeadRow
  <2> QED
    BY <1>1, <2>1 DEF LeadExists
<1>4. PICK v : v = [s EXCEPT !.pc = "save", !.existed = b]
  OBVIOUS
<1>5. /\ v \in SyncRec /\ v.pc = "save" /\ v.existed = b /\ v.task = None /\ v.read = s.read
      /\ v.lists = s.lists /\ StepOK(v)
  BY <1>2, <1>4 DEF SyncRec, StepOK
<1>6. sync' = [sync EXCEPT ![h] = v]
  BY <1>1, <1>3, <1>4 DEF LeadsInv, LeadTypes
<1>7. /\ sync' \in [Handlers -> SyncRec] /\ sync'[h] = v
      /\ \A g \in Handlers : g # h => sync'[g] = sync[g]
      /\ \A g \in Handlers : StepOK(sync[g])'
  BY <1>5, <1>6, MovedHandler
<1>8. LeadTypes' /\ crossed \subseteq crossed'
  BY <1>2, <1>3, <1>7 DEF LeadsInv, LeadTypes
<1>9. ASSUME NEW u \in Tasks, u # t
      PROVE  TaskInv(u)'
  <2>1. SameFor(s, v, u)
    BY <1>1, <1>2, <1>5, <1>9, LeadsAssumption DEF SameFor, Handles, SyncAt
  <2> QED
    BY <1>1, <1>2, <1>5, <1>6, <1>8, <2>1, OthersKept
<1>10. TaskInv(t)'
  <2>1. /\ Handles(v, t) <=> Handles(s, t)
        /\ Near(v, t) <=> Near(s, t)
        /\ \A pcs : ~SyncAt(v, pcs, t) /\ ~SyncAt(s, pcs, t)
    BY <1>2, <1>5, LeadsAssumption DEF Handles, Near, SyncAt
  <2>2. TaskInv(t)
    BY <1>2 DEF LeadsInv
  <2>3. TaskMadeInv(t)'
    BY <1>1, <1>2, <1>5, <1>7, <2>1, <2>2 DEF TaskInv, TaskMadeInv, OnItsWay, DeletionSent
  <2>4. SingleInv(t)'
    BY <1>1, <1>2, <1>3, <1>5, <1>7, <1>8, <2>1, <2>2 DEF TaskInv, SingleInv
  <2>5. GoneInv(t)'
    BY <1>1, <1>2, <1>5, <1>7, <1>8, <2>1, <2>2 DEF TaskInv, GoneInv, DeletionSent
  <2>6. MirroredInv(t)'
    BY <1>1, <1>2, <1>5, <1>7, <1>8, <2>1, <2>2 DEF TaskInv, MirroredInv, OnItsWay
  <2> QED
    BY <2>3, <2>4, <2>5, <2>6 DEF TaskInv
<1> QED
  BY <1>7, <1>8, <1>9, <1>10 DEF LeadsInv

\* The look-up of a row to delete.
LEMMA LookUpLeadStep == ASSUME LeadsInv, NEW h \in Handlers, LookUpLead(h) PROVE LeadsInv'
<1>1. PICK s, t : s = sync[h] /\ t = s.task
  OBVIOUS
<1>2. /\ s \in SyncRec /\ s.pc = "lookUp" /\ t \in Tasks /\ s.lists = {} /\ s.read = <<>>
      /\ UNCHANGED <<task, lead, webhooks, announced, crossed>>
  BY <1>1 DEF LookUpLead, LeadsInv, LeadTypes, StepOK
<1>3. /\ TaskInv(t) /\ SyncAt(s, {"lookUp", "delete"}, t) /\ ~task[t].exists /\ Handles(s, t)
      /\ Seen(s.read, t) = {} /\ (~lead[t].exists => lead[t] = NoLead)
  BY <1>1, <1>2, SeenNone DEF LeadsInv, TaskInv, TaskMadeInv, SyncAt, Handles
<1>4. PICK v : /\ sync' = [sync EXCEPT ![h] = v]
               /\ \/ /\ lead[t].exists /\ v = [s EXCEPT !.pc = "delete"] /\ unheard' = unheard
                  \/ ~lead[t].exists /\ v = IdleSync /\ unheard' = unheard
                  \/ v = IdleSync /\ unheard' = unheard \cup {t}
  <2>1. \/ /\ unheard' = unheard
           /\ sync' = [sync EXCEPT ![h] =
                         IF lead[t].exists THEN [@ EXCEPT !.pc = "delete"] ELSE IdleSync]
        \/ unheard' = unheard \cup {t} /\ sync' = [sync EXCEPT ![h] = IdleSync]
    BY <1>1 DEF LookUpLead
  <2>2. sync \in [Handlers -> SyncRec]
    BY DEF LeadsInv, LeadTypes
  <2> QED
    BY <1>1, <2>1, <2>2
<1>5. /\ v \in SyncRec /\ StepOK(v) /\ v.lists = {} /\ v.read = <<>>
      /\ v.pc \in {"delete", "idle"} /\ (v.pc = "delete" => v.task = t /\ lead[t].exists)
      /\ (v.pc = "idle" => v.task = None)
  <2>1. CASE v = IdleSync
    BY <2>1, IdleSyncIs
  <2>2. CASE lead[t].exists /\ v = [s EXCEPT !.pc = "delete"]
    BY <1>1, <1>2, <2>2 DEF SyncRec, StepOK
  <2> QED
    BY <1>4, <2>1, <2>2
<1>6. /\ sync' \in [Handlers -> SyncRec] /\ sync'[h] = v
      /\ \A g \in Handlers : g # h => sync'[g] = sync[g]
      /\ \A g \in Handlers : StepOK(sync[g])'
  BY <1>4, <1>5, MovedHandler
<1>7. LeadTypes' /\ unheard \subseteq unheard'
  BY <1>2, <1>4, <1>6 DEF LeadsInv, LeadTypes
<1>8. ASSUME NEW u \in Tasks, u # t
      PROVE  TaskInv(u)'
  <2>1. SameFor(s, v, u)
    <3>1. u # None
      BY LeadsAssumption
    <3> QED
      BY <1>1, <1>2, <1>5, <1>8, <3>1, SeenNone DEF SameFor, Handles, SyncAt
  <2> QED
    BY <1>1, <1>2, <1>4, <1>5, <1>8, <2>1, OthersKept
<1>9. TaskInv(t)'
  <2>1. Seen(v.read, t) = {} /\ ~SyncAt(v, {"fetch"}, t) /\ (Near(v, t) => Near(s, t))
           /\ (SyncAt(v, {"delete"}, t) => lead[t].exists)
    BY <1>3, <1>5, SeenNone DEF SyncAt, Near
  <2>2. TaskMadeInv(t)'
    BY <1>1, <1>2, <1>3, <1>6, <2>1 DEF TaskInv, TaskMadeInv, OnItsWay, DeletionSent
  <2>3. SingleInv(t)'
    BY <1>1, <1>2, <1>3, <1>5, <1>6, <2>1 DEF TaskInv, SingleInv
  <2>4. GoneInv(t)'
    <3> SUFFICES ASSUME t \notin unheard' \cup crossed', task'[t].made, ~task'[t].exists,
                        ~DeletionSent(t)'
                 PROVE  /\ \A g \in Handlers : Seen(sync'[g].read, t) = {}
                        /\ lead'[t] = NoLead
                             \/ \E g \in Handlers : SyncAt(sync'[g], {"lookUp", "delete"}, t)
      BY DEF GoneInv
    <3>1. \A g \in Handlers : Seen(sync[g].read, t) = {}
      BY <1>2, <1>3, <1>7 DEF TaskInv, GoneInv, DeletionSent
    <3>2. lead[t] = NoLead \/ SyncAt(v, {"lookUp", "delete"}, t)
      <4>1. t \notin unheard'
        OBVIOUS
      <4>2. lead[t].exists /\ v = [s EXCEPT !.pc = "delete"] => SyncAt(v, {"lookUp", "delete"}, t)
        BY <1>1, <1>2 DEF SyncAt, SyncRec
      <4> QED
        BY <1>3, <1>4, <4>1, <4>2
    <3> QED
      BY <1>2, <1>6, <2>1, <3>1, <3>2
  <2>5. MirroredInv(t)'
    BY <1>2, <1>3 DEF MirroredInv
  <2> QED
    BY <2>2, <2>3, <2>4, <2>5 DEF TaskInv
<1> QED
  BY <1>6, <1>7, <1>8, <1>9 DEF LeadsInv

\* The row of a task that is gone is deleted, and the browsers are told.
LEMMA DeleteLeadStep == ASSUME LeadsInv, NEW h \in Handlers, DeleteLead(h) PROVE LeadsInv'
<1>1. PICK s, t : s = sync[h] /\ t = s.task
  OBVIOUS
<1>2. /\ s \in SyncRec /\ s.pc = "delete" /\ t \in Tasks /\ s.lists = {} /\ s.read = <<>>
      /\ sync' = [sync EXCEPT ![h] = IdleSync] /\ UNCHANGED <<task, webhooks, crossed>>
  BY <1>1 DEF DeleteLead, LeadsInv, LeadTypes, StepOK
<1>3. /\ TaskInv(t) /\ SyncAt(s, {"lookUp", "delete"}, t) /\ SyncAt(s, {"delete"}, t)
      /\ ~task[t].exists /\ Near(s, t) /\ Seen(s.read, t) = {}
  BY <1>1, <1>2, SeenNone DEF LeadsInv, TaskInv, TaskMadeInv, SyncAt, Near, Handles
<1>4. \/ /\ lead' = [lead EXCEPT ![t] = NoLead] /\ announced' = [announced EXCEPT ![t] = @ - 1]
         /\ UNCHANGED unheard
      \/ unheard' = unheard \cup {t} /\ UNCHANGED <<lead, announced>>
  BY <1>1 DEF DeleteLead
<1>5. /\ sync' \in [Handlers -> SyncRec] /\ sync'[h] = IdleSync
      /\ \A g \in Handlers : g # h => sync'[g] = sync[g]
      /\ \A g \in Handlers : StepOK(sync[g])'
  BY <1>2, IdleSyncIs, MovedHandler
<1>6. NoLead \in LeadRow /\ ~NoLead.exists
  BY DEF NoLead, LeadRow
<1>7. LeadTypes'
  BY <1>2, <1>4, <1>5, <1>6 DEF LeadsInv, LeadTypes
<1>8. ASSUME NEW u \in Tasks, u # t
      PROVE  TaskInv(u)'
  <2>1. SameFor(s, IdleSync, u)
    BY <1>1, <1>2, <1>8, IdleSyncIs, SeenNone, LeadsAssumption DEF SameFor, Handles, SyncAt
  <2>2. lead'[u] = lead[u] /\ announced'[u] = announced[u] /\ (u \in unheard <=> u \in unheard')
    BY <1>4, <1>8 DEF LeadsInv, LeadTypes
  <2> QED
    BY <1>1, <1>2, <2>1, <2>2, IdleSyncIs, OthersKept
<1>9. TaskInv(t)'
  <2>1. Seen(IdleSync.read, t) = {} /\ ~Near(IdleSync, t) /\ ~Handles(IdleSync, t)
           /\ \A pcs : ~SyncAt(IdleSync, pcs, t)
    BY <1>2, IdleSyncIs, SeenNone, LeadsAssumption DEF Near, Handles, SyncAt
  <2>2. (lead'[t] = lead[t] /\ announced'[t] = announced[t] /\ t \in unheard')
           \/ (lead'[t] = NoLead /\ announced'[t] = announced[t] - 1 /\ unheard' = unheard)
    BY <1>2, <1>4 DEF LeadsInv, LeadTypes
  <2>3. TaskMadeInv(t)'
    BY <1>2, <1>3, <1>5, <1>6, <2>1, <2>2 DEF TaskInv, TaskMadeInv, OnItsWay, DeletionSent
  <2>4. SingleInv(t)'
    <3> SUFFICES ASSUME t \notin crossed'
                 PROVE  /\ \A g, o \in Handlers : Near(sync'[g], t) /\ Near(sync'[o], t) => g = o
                        /\ announced'[t] = IF lead'[t].exists THEN 1 ELSE 0
                        /\ \A g \in Handlers :
                              /\ (sync'[g].pc = "save" /\ sync'[g].read[1].id = t) =>
                                    sync'[g].existed = lead'[t].exists
                              /\ SyncAt(sync'[g], {"delete"}, t) => lead'[t].exists
      BY DEF SingleInv
    <3>1. /\ \A g, o \in Handlers : Near(sync[g], t) /\ Near(sync[o], t) => g = o
          /\ announced[t] = IF lead[t].exists THEN 1 ELSE 0
          /\ lead[t].exists
      BY <1>1, <1>2, <1>3 DEF TaskInv, SingleInv
    <3>2. \A g \in Handlers : ~Near(sync'[g], t)
      BY <1>1, <1>3, <1>5, <2>1, <3>1
    <3>3. announced'[t] = IF lead'[t].exists THEN 1 ELSE 0
      BY <1>6, <2>2, <3>1
    <3>4. ASSUME NEW g \in Handlers
          PROVE  /\ ~(sync'[g].pc = "save" /\ sync'[g].read[1].id = t)
                 /\ ~SyncAt(sync'[g], {"delete"}, t)
      <4>1. ~Handles(sync'[g], t) /\ sync'[g] \in SyncRec /\ StepOK(sync'[g])
        <5>1. StepOK(sync[g])'
          BY <1>5
        <5> QED
          BY <1>5, <3>2, <5>1 DEF Near, StepOK
      <4>2. sync'[g].pc = "save" => sync'[g].read # <<>> /\ sync'[g].read \in Seq(Snapshots)
        BY <4>1 DEF StepOK, SyncRec
      <4>3. sync'[g].pc = "save" /\ sync'[g].read[1].id = t => Seen(sync'[g].read, t) # {}
        BY <4>2, SeenTail
      <4> QED
        BY <4>1, <4>3 DEF Handles, SyncAt
    <3> QED
      BY <3>2, <3>3, <3>4
  <2>5. GoneInv(t)'
    BY <1>2, <1>3, <1>5, <2>1, <2>2 DEF TaskInv, GoneInv, DeletionSent
  <2>6. MirroredInv(t)'
    BY <1>2, <1>3 DEF MirroredInv
  <2> QED
    BY <2>3, <2>4, <2>5, <2>6 DEF TaskInv
<1> QED
  BY <1>5, <1>7, <1>8, <1>9 DEF LeadsInv

\* The handler after a row was saved: it has the other rows, or none.
LEMMA AfterSaveIs ==
    ASSUME NEW s \in SyncRec, StepOK(s), s.pc = "save", NEW v, v = AfterSave(s)
    PROVE  /\ v \in SyncRec /\ StepOK(v) /\ v.pc \in {"exists", "page", "idle"}
           /\ v.task = None /\ v.read = Tail(s.read) /\ (v.lists # {} => s.lists # {})
           /\ (v.read # <<>> => v.pc = "exists")
<1>1. s.read \in Seq(Snapshots) /\ s.read # <<>> /\ s.task = None /\ s.lists \in SUBSET Lists
  BY DEF SyncRec, StepOK
<1>2. /\ Tail(s.read) \in Seq(Snapshots)
      /\ Len(s.read) > 1 => Tail(s.read) # <<>>
      /\ ~(Len(s.read) > 1) => Tail(s.read) = <<>>
  <2>1. /\ Tail(s.read) \in Seq(Snapshots) /\ Len(s.read) \in Nat \ {0}
        /\ Len(Tail(s.read)) = Len(s.read) - 1
    BY <1>1
  <2>2. \A q \in Seq(Snapshots) : q = <<>> <=> Len(q) = 0
    OBVIOUS
  <2>3. Tail(s.read) = <<>> <=> Len(Tail(s.read)) = 0
    BY <2>1, <2>2
  <2>4. \A n \in Nat \ {0} : ~(n > 1) <=> n - 1 = 0
    OBVIOUS
  <2> QED
    BY <2>1, <2>3, <2>4
<1>3. CASE Len(s.read) > 1
  <2>1. v = [s EXCEPT !.read = Tail(@), !.existed = FALSE, !.pc = "exists"]
    BY <1>3 DEF AfterSave
  <2> QED
    BY <1>1, <1>2, <1>3, <2>1 DEF SyncRec, StepOK
<1>4. CASE ~(Len(s.read) > 1) /\ s.lists # {}
  <2>1. v = [IdleSync EXCEPT !.pc = "page", !.lists = s.lists]
    BY <1>4 DEF AfterSave
  <2> QED
    BY <1>1, <1>2, <1>4, <2>1, IdleSyncIs DEF SyncRec, StepOK
<1>5. CASE ~(Len(s.read) > 1) /\ s.lists = {}
  <2>1. v = IdleSync
    BY <1>5 DEF AfterSave
  <2> QED
    BY <1>2, <1>5, <2>1, IdleSyncIs
<1> QED
  BY <1>3, <1>4, <1>5

\* The upsert of what was read: the row shows the task when all that is read of it does.
LEMMA SaveLeadStep == ASSUME LeadsInv, NEW h \in Handlers, SaveLead(h) PROVE LeadsInv'
<1>1. PICK s, t, r, v : /\ s = sync[h] /\ t = s.read[1].id /\ r = s.read[1].as
                        /\ v = AfterSave(s)
  OBVIOUS
<1>2. /\ s \in SyncRec /\ StepOK(s) /\ s.pc = "save" /\ t \in Tasks /\ r \in Task
      /\ s.read \in Seq(Snapshots) /\ s.read # <<>> /\ s.task = None /\ r \in Seen(s.read, t)
  BY <1>1, FirstRead DEF SaveLead, LeadsInv
<1>3. /\ sync' = [sync EXCEPT ![h] = v] /\ UNCHANGED <<task, webhooks, crossed>>
      /\ \/ /\ lead' = [lead EXCEPT ![t] = MapTask(r, lead[t])]
            /\ announced' = [announced EXCEPT ![t] = @ + Created(s.existed)]
            /\ unheard' = IF \A i \in DOMAIN s.read : s.read[i].id = t => s.read[i].as = task[t]
                          THEN unheard \ {t} ELSE unheard
         \/ unheard' = unheard \cup {t} /\ UNCHANGED <<lead, announced>>
  BY <1>1 DEF SaveLead
<1>4. /\ v \in SyncRec /\ StepOK(v) /\ v.pc \in {"exists", "page", "idle"} /\ v.task = None
      /\ v.read = Tail(s.read) /\ (v.lists # {} => s.lists # {})
      /\ (v.read # <<>> => v.pc = "exists")
  BY <1>1, <1>2, AfterSaveIs
<1>5. /\ sync' \in [Handlers -> SyncRec] /\ sync'[h] = v
      /\ \A g \in Handlers : g # h => sync'[g] = sync[g]
      /\ \A g \in Handlers : StepOK(sync[g])'
  BY <1>3, <1>4, MovedHandler
<1>6. MapTask(r, lead[t]) \in LeadRow /\ MapTask(r, lead[t]).exists
  BY <1>2 DEF MapTask, ResolveEmail, LeadRow, Task
<1>7. LeadTypes'
  <2>1. Created(s.existed) \in Int
    BY DEF Created
  <2>2. lead' \in [Tasks -> LeadRow] /\ announced' \in [Tasks -> Int]
    BY <1>2, <1>3, <1>6, <2>1 DEF LeadsInv, LeadTypes
  <2>3. unheard' \subseteq Tasks
    BY <1>2, <1>3 DEF LeadsInv, LeadTypes
  <2> QED
    BY <1>3, <1>5, <2>2, <2>3 DEF LeadsInv, LeadTypes
<1>8. \A u : Seen(s.read, u) = Seen(v.read, u) \cup (IF t = u THEN {r} ELSE {})
  BY <1>1, <1>2, <1>4, SeenTail
<1>9. ASSUME NEW u \in Tasks, u # t
      PROVE  TaskInv(u)'
  <2>1. Seen(v.read, u) = Seen(s.read, u)
    BY <1>8, <1>9
  <2>2. Seen(s.read, u) # {} => v.pc = "exists"
    BY <1>4, <2>1, SeenNone
  <2>3. SameFor(s, v, u)
    BY <1>2, <1>4, <2>1, <2>2, LeadsAssumption DEF SameFor, Handles, SyncAt
  <2>4. lead'[u] = lead[u] /\ announced'[u] = announced[u] /\ (u \in unheard <=> u \in unheard')
    BY <1>3, <1>9 DEF LeadsInv, LeadTypes
  <2> QED
    BY <1>1, <1>3, <1>4, <2>3, <2>4, OthersKept
<1>10. TaskInv(t)'
  <2>1. /\ TaskInv(t) /\ Handles(s, t) /\ Near(s, t) /\ Seen(v.read, t) \subseteq Seen(s.read, t)
        /\ \A pcs : ~SyncAt(v, pcs, t) /\ ~SyncAt(s, pcs, t)
    BY <1>2, <1>4, <1>8, LeadsAssumption DEF LeadsInv, Handles, Near, SyncAt
  <2>2. (Handles(v, t) => Handles(s, t)) /\ (Near(v, t) => Near(s, t)) /\ v.pc # "save"
    BY <1>4, <2>1 DEF Handles, Near
  <2>3. task[t].made /\ \A x \in Seen(s.read, t) : x.exists
    BY <1>1, <2>1 DEF TaskInv, TaskMadeInv
  <2>4. \/ /\ lead'[t] = MapTask(r, lead[t]) /\ announced'[t] = announced[t] + Created(s.existed)
           /\ unheard' = IF \A x \in Seen(s.read, t) : x = task[t]
                         THEN unheard \ {t} ELSE unheard
        \/ t \in unheard' /\ lead'[t] = lead[t] /\ announced'[t] = announced[t]
    <3>1. (\A i \in DOMAIN s.read : s.read[i].id = t => s.read[i].as = task[t])
             <=> \A x \in Seen(s.read, t) : x = task[t]
      BY DEF Seen
    <3> QED
      BY <1>2, <1>3, <3>1 DEF LeadsInv, LeadTypes
  <2>5. TaskMadeInv(t)'
    BY <1>1, <1>3, <1>5, <1>6, <2>1, <2>2, <2>3, <2>4
       DEF TaskInv, TaskMadeInv, OnItsWay, DeletionSent
  <2>6. SingleInv(t)'
    <3> SUFFICES ASSUME t \notin crossed'
                 PROVE  /\ \A g, o \in Handlers : Near(sync'[g], t) /\ Near(sync'[o], t) => g = o
                        /\ announced'[t] = IF lead'[t].exists THEN 1 ELSE 0
                        /\ \A g \in Handlers :
                              /\ (sync'[g].pc = "save" /\ sync'[g].read[1].id = t) =>
                                    sync'[g].existed = lead'[t].exists
                              /\ SyncAt(sync'[g], {"delete"}, t) => lead'[t].exists
      BY DEF SingleInv
    <3>1. /\ \A g, o \in Handlers : Near(sync[g], t) /\ Near(sync[o], t) => g = o
          /\ announced[t] = IF lead[t].exists THEN 1 ELSE 0
          /\ s.existed = lead[t].exists
      BY <1>1, <1>2, <1>3, <2>1 DEF TaskInv, SingleInv
    <3>2. announced'[t] = IF lead'[t].exists THEN 1 ELSE 0
      BY <1>6, <2>4, <3>1 DEF Created
    <3>3. ASSUME NEW g \in Handlers, g # h
          PROVE  /\ ~(sync'[g].pc = "save" /\ sync'[g].read[1].id = t)
                 /\ ~SyncAt(sync'[g], {"delete"}, t)
      <4>1. ~Handles(sync[g], t) /\ sync'[g] = sync[g]
        BY <1>1, <1>5, <2>1, <3>1, <3>3 DEF Near
      <4>2. sync[g].pc = "save" /\ sync[g].read[1].id = t => Seen(sync[g].read, t) # {}
        BY FirstRead
      <4> QED
        BY <4>1, <4>2 DEF Handles, SyncAt
    <3>4. \A g, o \in Handlers : Near(sync'[g], t) /\ Near(sync'[o], t) => g = o
      BY <1>1, <1>5, <2>2, <3>1
    <3> QED
      BY <1>5, <2>1, <2>2, <3>2, <3>3, <3>4
  <2>7. GoneInv(t)'
    <3> SUFFICES ASSUME t \notin unheard' \cup crossed', task'[t].made, ~task'[t].exists,
                        ~DeletionSent(t)'
                 PROVE  FALSE
      BY DEF GoneInv
    <3>1. ~task[t].exists /\ ~DeletionSent(t) /\ t \notin crossed
      BY <1>3 DEF DeletionSent
    <3>2. CASE \A x \in Seen(s.read, t) : x = task[t]
      BY <1>2, <2>3, <3>1, <3>2
    <3>3. CASE ~(\A x \in Seen(s.read, t) : x = task[t])
      <4>1. t \notin unheard
        BY <2>4, <3>3
      <4> QED
        BY <1>1, <1>2, <2>1, <2>3, <3>1, <4>1 DEF TaskInv, GoneInv
    <3> QED
      BY <3>2, <3>3
  <2>8. MirroredInv(t)'
    <3> SUFFICES ASSUME t \notin unheard' \cup crossed', task'[t].exists, ~OnItsWay(t)'
                 PROVE  /\ \A g \in Handlers : \A x \in Seen(sync'[g].read, t) : x = task'[t]
                        /\ lead'[t] = MapTask(task'[t], NoLead)
      BY DEF MirroredInv
    <3>1. task[t].exists /\ ~OnItsWay(t) /\ t \notin crossed /\ task'[t] = task[t]
      BY <1>3 DEF OnItsWay
    <3>2. \A x \in Seen(s.read, t) : x = task[t]
      <4>1. CASE t \notin unheard
        BY <1>1, <2>1, <3>1, <4>1 DEF TaskInv, MirroredInv
      <4>2. CASE t \in unheard
        BY <2>4, <4>2
      <4> QED
        BY <4>1, <4>2
    <3>3. lead'[t] = MapTask(task[t], NoLead)
      <4>1. lead'[t] = MapTask(r, lead[t]) /\ r = task[t]
        BY <1>2, <2>4, <3>2
      <4> QED
        BY <4>1 DEF MapTask
    <3>4. ASSUME NEW g \in Handlers, g # h
          PROVE  Seen(sync'[g].read, t) = {}
      BY <1>1, <1>5, <2>1, <3>1, <3>4 DEF TaskInv, SingleInv, Near, Handles
    <3> QED
      BY <1>5, <2>1, <3>1, <3>2, <3>3, <3>4
  <2> QED
    BY <2>5, <2>6, <2>7, <2>8 DEF TaskInv
<1> QED
  BY <1>5, <1>7, <1>9, <1>10 DEF LeadsInv

\* A synchronisation may come to any task: those somebody works on are crossed.
LEMMA StartSyncStep == ASSUME LeadsInv, NEW h \in Handlers, StartSync(h) PROVE LeadsInv'
<1>1. PICK s, v : s = sync[h] /\ v = [IdleSync EXCEPT !.pc = "page", !.lists = Lists]
  OBVIOUS
<1>2. /\ s.pc = "idle" /\ s.read = <<>> /\ s.lists = {} /\ s.task = None
      /\ sync' = [sync EXCEPT ![h] = v] /\ UNCHANGED <<task, lead, webhooks, announced, unheard>>
      /\ crossed' = crossed \cup {t \in Tasks : \E o \in Handlers :
                                     Concerns(o, t) \/ sync[o].lists # {}}
  BY <1>1 DEF StartSync, LeadsInv, StepOK
<1>3. /\ v \in SyncRec /\ v.pc = "page" /\ v.task = None /\ v.read = <<>> /\ StepOK(v)
  BY <1>1, IdleSyncIs, LeadsAssumption DEF SyncRec, StepOK
<1>4. /\ sync' \in [Handlers -> SyncRec] /\ sync'[h] = v
      /\ \A g \in Handlers : g # h => sync'[g] = sync[g]
      /\ \A g \in Handlers : StepOK(sync[g])'
  BY <1>2, <1>3, MovedHandler
<1>5. LeadTypes'
  BY <1>2, <1>4 DEF LeadsInv, LeadTypes
<1>6. ASSUME NEW t \in Tasks
      PROVE  TaskInv(t)'
  <2>1. TaskInv(t) /\ (t \in crossed => t \in crossed')
    BY <1>2 DEF LeadsInv
  <2>2. t \notin crossed' => \A o \in Handlers : ~Near(sync[o], t)
    BY <1>2, ConcernsIs DEF Near
  <2>3. Seen(v.read, t) = {} /\ ~Handles(v, t) /\ \A pcs : ~SyncAt(v, pcs, t) /\ ~SyncAt(s, pcs, t)
    BY <1>2, <1>3, SeenNone, LeadsAssumption DEF Handles, SyncAt
  <2>4. TaskMadeInv(t)'
    BY <1>2, <1>4, <2>1, <2>3 DEF TaskInv, TaskMadeInv, OnItsWay, DeletionSent
  <2>5. SingleInv(t)'
    <3>1. v.pc # "save"
      BY <1>3
    <3> QED
      BY <1>2, <1>4, <2>1, <2>2, <2>3, <3>1 DEF TaskInv, SingleInv
  <2>6. GoneInv(t)'
    BY <1>1, <1>2, <1>4, <2>1, <2>3 DEF TaskInv, GoneInv, DeletionSent
  <2>7. MirroredInv(t)'
    BY <1>1, <1>2, <1>4, <2>1, <2>3 DEF TaskInv, MirroredInv, OnItsWay
  <2> QED
    BY <2>4, <2>5, <2>6, <2>7 DEF TaskInv
<1> QED
  BY <1>4, <1>5, <1>6 DEF LeadsInv

\* A page holds tasks of the list, as they are.
LEMMA PageOfIs ==
    ASSUME NEW l, NEW p \in Nat
    PROVE  /\ PageOf(l, p) \in Seq(Tasks)
           /\ \A i \in DOMAIN PageOf(l, p) : task[PageOf(l, p)[i]].exists
<1> DEFINE S == {t \in Tasks : task[t].exists /\ task[t].list = l}
<1>1. IsFiniteSet(S)
  BY LeadsAssumption, FS_Subset
<1>2. Cardinality(S) \in Nat /\ ExistsBijection(1 .. Cardinality(S), S)
  <2> HIDE DEF S
  <2> QED
    BY <1>1, FS_CardinalityType
<1>3. InList(l) \in [1 .. Cardinality(S) -> S]
  <2>1. \E f \in [1 .. Cardinality(S) -> S] : IsInjective(f)
    <3> HIDE DEF S
    <3> QED
      BY <1>2 DEF ExistsBijection, Bijection, Injection
  <2> QED
    BY <2>1 DEF InList, SetToSeq
<1>4. p * PageSize \in Nat /\ PageSize \in Nat /\ Len(InList(l)) = Cardinality(S)
  <2> HIDE DEF S
  <2> QED
    BY <1>2, <1>3, LeadsAssumption
<1>5. PICK from, over, m : /\ from = p * PageSize /\ over = Len(InList(l)) - from
                           /\ m = IF over < PageSize THEN over ELSE PageSize
  OBVIOUS
<1>6. PageOf(l, p) = [i \in 1 .. m |-> InList(l)[from + i]]
  BY <1>5 DEF PageOf
<1>7. m \in Int /\ from \in Nat /\ over \in Int /\ m <= over
  BY <1>2, <1>4, <1>5
<1>8. \A i \in 1 .. m : InList(l)[from + i] \in S
  <2> TAKE i \in 1 .. m
  <2>1. from + i \in 1 .. Cardinality(S)
    BY <1>2, <1>4, <1>5, <1>7
  <2> QED
    BY <1>3, <2>1
<1>9. PageOf(l, p) \in Seq(Tasks)
  <2>1. CASE m \in Nat
    BY <1>6, <1>8, <2>1
  <2>2. CASE m \notin Nat
    <3>1. 1 .. m = 1 .. 0
      BY <1>7, <2>2
    <3>2. PageOf(l, p) = <<>>
      BY <1>6, <3>1
    <3> QED
      BY <3>2
  <2> QED
    BY <2>1, <2>2
<1> QED
  BY <1>6, <1>8, <1>9

\* A synchronisation that reads on, or gives a list up, has rows as they are.
LEMMA PageStep ==
    ASSUME LeadsInv, NEW h \in Handlers, sync[h].pc = "page", NEW v \in SyncRec, StepOK(v),
           sync' = [sync EXCEPT ![h] = v], v.pc \in {"page", "exists", "idle"},
           UNCHANGED <<task, lead, webhooks, announced, unheard, crossed>>,
           \A t \in Tasks : \A r \in Seen(v.read, t) :
               r \in Seen(sync[h].read, t) \/ (r = task[t] /\ task[t].exists)
    PROVE  LeadsInv'
<1>1. PICK s : s = sync[h]
  OBVIOUS
<1>2. s.pc = "page" /\ s.lists # {} /\ s.task = None /\ v.task = None
  BY <1>1 DEF LeadsInv, StepOK
<1>3. /\ sync' \in [Handlers -> SyncRec] /\ sync'[h] = v
      /\ \A g \in Handlers : g # h => sync'[g] = sync[g]
      /\ \A g \in Handlers : StepOK(sync[g])'
  BY MovedHandler
<1>4. LeadTypes'
  BY <1>3 DEF LeadsInv, LeadTypes
<1>5. ASSUME NEW t \in Tasks
      PROVE  TaskInv(t)'
  <2>1. TaskInv(t) /\ Near(s, t) /\ \A pcs : ~SyncAt(v, pcs, t) /\ ~SyncAt(s, pcs, t)
    BY <1>2, LeadsAssumption DEF LeadsInv, Near, SyncAt
  <2>2. \A r \in Seen(v.read, t) : r \in Seen(s.read, t) \/ (r = task[t] /\ task[t].exists)
    BY <1>1
  <2>3. TaskMadeInv(t)'
    <3>1. TaskMadeInv(t)
      BY <2>1 DEF TaskInv
    <3>2. \A r \in Seen(v.read, t) : r.exists
      BY <1>1, <2>2, <3>1 DEF TaskMadeInv
    <3>3. ~task[t].made => ~Handles(v, t)
      BY <1>1, <1>2, <2>2, <3>1, LeadsAssumption DEF TaskMadeInv, Handles
    <3> QED
      BY <1>3, <2>1, <3>1, <3>2, <3>3 DEF TaskMadeInv, OnItsWay, DeletionSent
  <2>4. SingleInv(t)'
    <3>1. v.pc # "save"
      OBVIOUS
    <3> QED
      BY <1>1, <1>3, <2>1, <3>1 DEF TaskInv, SingleInv
  <2>5. GoneInv(t)'
    BY <1>1, <1>3, <2>1, <2>2 DEF TaskInv, GoneInv, DeletionSent
  <2>6. MirroredInv(t)'
    BY <1>1, <1>2, <1>3, <2>1, <2>2 DEF TaskInv, MirroredInv, OnItsWay
  <2> QED
    BY <2>3, <2>4, <2>5, <2>6 DEF TaskInv
<1> QED
  BY <1>3, <1>4, <1>5 DEF LeadsInv

LEMMA FetchPageStep == ASSUME LeadsInv, NEW h \in Handlers, FetchPage(h) PROVE LeadsInv'
<1>1. PICK s, l : s = sync[h] /\ l = (CHOOSE x \in s.lists : TRUE)
  OBVIOUS
<1>2. /\ s \in SyncRec /\ s.pc = "page" /\ s.lists # {} /\ s.task = None
      /\ UNCHANGED <<task, lead, webhooks, announced, unheard, crossed>>
  BY <1>1 DEF FetchPage, LeadsInv, LeadTypes, StepOK
<1>3. s.read \in Seq(Snapshots) /\ s.page \in Nat /\ s.lists \in SUBSET Lists /\ l \in s.lists
  BY <1>1, <1>2 DEF SyncRec
<1>4. PICK page : page = PageOf(l, s.page)
  OBVIOUS
<1>5. page \in Seq(Tasks) /\ \A i \in DOMAIN page : task[page[i]].exists
  BY <1>3, <1>4, PageOfIs
<1>6. PICK rows : rows = [i \in DOMAIN page |-> [id |-> page[i], as |-> task[page[i]]]]
  OBVIOUS
<1>7. rows \in Seq(Snapshots) /\ \A t \in Tasks : \A r \in Seen(rows, t) :
                                    r = task[t] /\ task[t].exists
  <2>1. task \in [Tasks -> Task] /\ Len(page) \in Nat /\ DOMAIN page = 1 .. Len(page)
           /\ \A i \in DOMAIN page : page[i] \in Tasks
    BY <1>5 DEF LeadsInv, LeadTypes
  <2>2. \A i \in DOMAIN page : rows[i] \in Snapshots /\ rows[i].id = page[i]
                                  /\ rows[i].as = task[page[i]]
    BY <1>6, <2>1 DEF Snapshots
  <2>3. rows \in Seq(Snapshots)
    BY <1>6, <2>1, <2>2
  <2> QED
    BY <1>5, <1>6, <2>2, <2>3 DEF Seen
<1>8. PICK read : read = s.read \o rows
  OBVIOUS
<1>9. read \in Seq(Snapshots) /\ \A t \in Tasks : \A r \in Seen(read, t) :
                                    r \in Seen(s.read, t) \/ (r = task[t] /\ task[t].exists)
  <2>1. read \in Seq(Snapshots) /\ \A t : Seen(read, t) = Seen(s.read, t) \cup Seen(rows, t)
    BY <1>3, <1>7, <1>8, SeenConcat
  <2> QED
    BY <1>7, <2>1
<1>10. PICK v : /\ sync' = [sync EXCEPT ![h] = v]
                /\ \/ v = [s EXCEPT !.read = read, !.page = s.page + 1]
                   \/ /\ read # <<>>
                      /\ v = [s EXCEPT !.lists = s.lists \ {l}, !.page = 0, !.pc = "exists",
                                       !.read = read]
                   \/ v = IdleSync
                   \/ /\ s.lists # {l}
                      /\ v = [s EXCEPT !.lists = s.lists \ {l}, !.page = 0, !.pc = "page",
                                       !.read = <<>>]
  <2>1. \/ sync' = [sync EXCEPT ![h].read = read, ![h].page = @ + 1]
        \/ /\ read # <<>>
           /\ sync' = [sync EXCEPT ![h] = [[s EXCEPT !.lists = @ \ {l}, !.page = 0,
                                                     !.pc = "exists"] EXCEPT !.read = read]]
        \/ sync' = [sync EXCEPT ![h] = IF s.lists = {l} THEN IdleSync
                      ELSE [[s EXCEPT !.lists = @ \ {l}, !.page = 0, !.pc = "page"]
                              EXCEPT !.read = <<>>]]
    <3> DEFINE s0 == sync[h]
               l0 == CHOOSE x \in s0.lists : TRUE
               page0 == PageOf(l0, s0.page)
               rows0 == [i \in DOMAIN page0 |-> [id |-> page0[i], as |-> task[page0[i]]]]
               read0 == s0.read \o rows0
    <3>1. \/ sync' = [sync EXCEPT ![h].read = read0, ![h].page = @ + 1]
          \/ /\ read0 # <<>>
             /\ sync' = [sync EXCEPT ![h] = [[s0 EXCEPT !.lists = @ \ {l0}, !.page = 0,
                                                       !.pc = "exists"] EXCEPT !.read = read0]]
          \/ sync' = [sync EXCEPT ![h] = IF s0.lists = {l0} THEN IdleSync
                        ELSE [[s0 EXCEPT !.lists = @ \ {l0}, !.page = 0, !.pc = "page"]
                                EXCEPT !.read = <<>>]]
      BY Zenon DEF FetchPage
    <3>2. s0 = s /\ l0 = l
      BY <1>1
    <3>3. page0 = page
      BY <1>4, <3>2
    <3>4. rows0 = rows
      BY <1>6, <3>3
    <3>5. read0 = read
      BY <1>8, <3>2, <3>4
    <3> HIDE DEF s0, l0, page0, rows0, read0
    <3> QED
      BY <3>1, <3>2, <3>5
  <2>2. sync \in [Handlers -> SyncRec]
    BY DEF LeadsInv, LeadTypes
  <2>3. CASE sync' = [sync EXCEPT ![h].read = read, ![h].page = @ + 1]
    <3>1. sync' = [sync EXCEPT ![h] = [s EXCEPT !.read = read, !.page = s.page + 1]]
      BY <1>1, <1>2, <2>2, <2>3
    <3> QED
      BY <3>1
  <2>4. ASSUME NEW pc, NEW q
        PROVE  [[s EXCEPT !.lists = @ \ {l}, !.page = 0, !.pc = pc] EXCEPT !.read = q]
                 = [s EXCEPT !.lists = s.lists \ {l}, !.page = 0, !.pc = pc, !.read = q]
    BY <1>2 DEF SyncRec
  <2>5. CASE /\ read # <<>>
             /\ sync' = [sync EXCEPT ![h] = [[s EXCEPT !.lists = @ \ {l}, !.page = 0,
                                                     !.pc = "exists"] EXCEPT !.read = read]]
    BY <2>4, <2>5
  <2>6. CASE sync' = [sync EXCEPT ![h] = IF s.lists = {l} THEN IdleSync
                      ELSE [[s EXCEPT !.lists = @ \ {l}, !.page = 0, !.pc = "page"]
                              EXCEPT !.read = <<>>]]
    BY <2>4, <2>6
  <2> QED
    BY <2>1, <2>3, <2>5, <2>6
<1>11. /\ v \in SyncRec /\ StepOK(v) /\ v.pc \in {"page", "exists", "idle"}
       /\ v.read = read \/ v.read = <<>>
  <2>1. <<>> \in Seq(Snapshots) /\ s.page + 1 \in Nat /\ 0 \in Nat
           /\ s.lists \ {l} \in SUBSET Lists /\ (s.lists # {l} => s.lists \ {l} # {})
    BY <1>3
  <2>2. CASE v = [s EXCEPT !.read = read, !.page = s.page + 1]
    BY <1>2, <1>3, <1>9, <2>1, <2>2 DEF SyncRec, StepOK
  <2>3. CASE /\ read # <<>>
             /\ v = [s EXCEPT !.lists = s.lists \ {l}, !.page = 0, !.pc = "exists",
                              !.read = read]
    BY <1>2, <1>3, <1>9, <2>1, <2>3 DEF SyncRec, StepOK
  <2>4. CASE v = IdleSync
    BY <2>4, IdleSyncIs
  <2>5. CASE /\ s.lists # {l}
             /\ v = [s EXCEPT !.lists = s.lists \ {l}, !.page = 0, !.pc = "page",
                              !.read = <<>>]
    BY <1>2, <1>3, <2>1, <2>5 DEF SyncRec, StepOK
  <2> QED
    BY <1>10, <2>2, <2>3, <2>4, <2>5
<1>12. \A t \in Tasks : \A r \in Seen(v.read, t) :
           r \in Seen(sync[h].read, t) \/ (r = task[t] /\ task[t].exists)
  BY <1>1, <1>9, <1>11, SeenNone
<1> QED
  BY <1>1, <1>2, <1>10, <1>11, <1>12, PageStep

LEMMA NextLeadsInv == ASSUME LeadsInv, [ClickupNext]_<<leadVars, counters>> PROVE LeadsInv'
<1>1. CASE LoseWebhook
  BY <1>1, LoseWebhookStep
<1>2. CASE \E t \in Tasks : CreateTask(t) \/ UpdateTask(t) \/ DeleteTask(t)
  BY <1>2, CreateTaskStep, UpdateTaskStep, DeleteTaskStep
<1>3. CASE \E h \in Handlers :
              \/ ReceiveWebhook(h) \/ FetchTask(h) \/ LeadExists(h) \/ SaveLead(h)
              \/ LookUpLead(h) \/ DeleteLead(h) \/ StartSync(h) \/ FetchPage(h)
  BY <1>3, ReceiveWebhookStep, FetchTaskStep, LeadExistsStep, SaveLeadStep, LookUpLeadStep,
     DeleteLeadStep, StartSyncStep, FetchPageStep
<1>4. CASE UNCHANGED <<leadVars, counters>>
  <2>1. UNCHANGED <<task, lead, webhooks, sync, announced, unheard, crossed>>
    BY <1>4 DEF leadVars
  <2>2. LeadTypes' /\ \A h \in Handlers : StepOK(sync[h])'
    BY <2>1 DEF LeadsInv, LeadTypes, StepOK
  <2>3. ASSUME NEW t \in Tasks
        PROVE  TaskInv(t)'
    <3>1. (OnItsWay(t)' <=> OnItsWay(t)) /\ (DeletionSent(t)' <=> DeletionSent(t)) /\ TaskInv(t)
      BY <2>1 DEF OnItsWay, DeletionSent, LeadsInv
    <3> QED
      BY <2>1, <3>1, SameForItself, UntouchedStep
  <2> QED
    BY <2>2, <2>3 DEF LeadsInv
<1> QED
  BY <1>1, <1>2, <1>3, <1>4 DEF ClickupNext

LEMMA LeadsTypesHold == LeadsInv => LeadsTypeOK
BY DEF LeadsInv, LeadTypes, SyncRec, LeadsTypeOK

\* Types of ClickUp, the table, the handlers and the history, for any tasks, lists,
\* statuses, pages and requests.
THEOREM LeadsTyped == LeadsSpec => []LeadsTypeOK
BY LeadsTypesHold, InitLeadsInv, NextLeadsInv, PTL DEF LeadsSpec

\* The invariant has the row of every task.
LEMMA MirrorShown == LeadsInv => MirrorFollowsClickup
<1> SUFFICES ASSUME LeadsInv, NEW t \in Tasks \ (unheard \cup crossed),
                    \A w \in webhooks : w.task # t,
                    \A h \in Handlers : ~Concerns(h, t) /\ sync[h].lists = {}
             PROVE  /\ lead[t] = IF task[t].exists THEN MapTask(task[t], NoLead) ELSE NoLead
                    /\ announced[t] = IF lead[t].exists THEN 1 ELSE 0
  BY DEF MirrorFollowsClickup
<1>1. ~OnItsWay(t) /\ ~DeletionSent(t) /\ TaskInv(t)
  <2>1. DeletionSent(t) => OnItsWay(t)
    BY DEF DeletionSent, OnItsWay
  <2> QED
    BY <2>1 DEF OnItsWay, LeadsInv
<1>2. \A h \in Handlers : Seen(sync[h].read, t) = {} /\ \A pcs : ~SyncAt(sync[h], pcs, t)
  BY ConcernsIs DEF Handles, SyncAt
<1>3. announced[t] = IF lead[t].exists THEN 1 ELSE 0
  BY <1>1 DEF TaskInv, SingleInv
<1>4. task[t].exists => lead[t] = MapTask(task[t], NoLead)
  BY <1>1, <1>2 DEF TaskInv, MirroredInv
<1>5. ~task[t].exists => lead[t] = NoLead
  BY <1>1, <1>2 DEF TaskInv, TaskMadeInv, GoneInv
<1> QED
  BY <1>3, <1>4, <1>5

\* The row of a task is what ClickUp has once its webhooks are handled, and its creation
\* was told once: for any tasks and lists, however webhooks, fetches, saves, deletions
\* and synchronisations interleave.
THEOREM MirrorKept == LeadsSpec => []MirrorFollowsClickup
BY MirrorShown, InitLeadsInv, NextLeadsInv, PTL DEF LeadsSpec

----------------------------------------------------------------------------
(* What the office reads of its leads and of its mailboxes *)

\* A lead has a status of ClickUp's.
StatusInv == \A t \in Tasks : lead[t].exists => lead[t].status \in LeadStatuses

LEMMA InitStatusInv == ClickupInit => StatusInv
BY DEF ClickupInit, StatusInv, NoLead

LEMMA NextStatusInv ==
    ASSUME LeadsInv, StatusInv, [ClickupNext]_<<leadVars, counters>>
    PROVE  StatusInv'
<1>1. ASSUME NEW h \in Handlers, SaveLead(h)
      PROVE  StatusInv'
  <2>1. CASE UNCHANGED lead
    BY <2>1 DEF StatusInv
  <2>2. CASE \E t \in Tasks, r \in Task : lead' = [lead EXCEPT ![t] = MapTask(r, lead[t])]
    BY <2>2 DEF StatusInv, MapTask, Task, LeadsInv, LeadTypes
  <2>3. sync[h] \in SyncRec /\ StepOK(sync[h]) /\ sync[h].pc = "save"
    BY <1>1 DEF SaveLead, LeadsInv, LeadTypes
  <2>4. sync[h].read[1].id \in Tasks /\ sync[h].read[1].as \in Task
    BY <2>3, FirstRead DEF Snapshots
  <2> QED
    BY <1>1, <2>1, <2>2, <2>4 DEF SaveLead
<1>2. ASSUME NEW h \in Handlers, DeleteLead(h)
      PROVE  StatusInv'
  BY <1>2 DEF DeleteLead, StatusInv, NoLead, LeadsInv, LeadTypes
<1>3. CASE UNCHANGED lead
  BY <1>3 DEF StatusInv
<1> QED
  BY <1>1, <1>2, <1>3 DEF ClickupNext, LoseWebhook, CreateTask, UpdateTask, DeleteTask,
     ReceiveWebhook, FetchTask, LeadExists, LookUpLead, StartSync, FetchPage, leadVars

\* Every lead is counted under its status and under its list, and a page filtered by a
\* status has the leads counted under it.
LEMMA LeadsAreCounted ==
    ASSUME LeadsInv, StatusInv
    PROVE  LeadReadsAgree
<1> DEFINE L        == LeadsThere
           statuses == LeadsMeta.statuses
           lists    == LeadsMeta.lists
           status   == [t \in L |-> lead[t].status]
           list     == [t \in L |-> lead[t].list]
           perStatus == [s \in statuses |-> LeadStats.byStatus[s]]
           perList   == [l \in lists |-> LeadStats.byList[l]]
<1>1. IsFiniteSet(L)
  BY LeadsAssumption, FS_Subset DEF LeadsThere
<1>2. status \in [L -> statuses] /\ list \in [L -> lists]
  BY DEF LeadsMeta
<1>3. \A s \in statuses : perStatus[s] = Cardinality({t \in L : status[t] = s})
  <2> SUFFICES ASSUME NEW s \in statuses
               PROVE  perStatus[s] = Cardinality({t \in L : status[t] = s})
    OBVIOUS
  <2>1. {t \in L : status[t] = s} = {t \in L : lead[t].status = s}
    OBVIOUS
  <2> QED
    BY <2>1 DEF LeadStats, LeadsMeta
<1>4. \A l \in lists : perList[l] = Cardinality({t \in L : list[t] = l})
  <2> SUFFICES ASSUME NEW l \in lists
               PROVE  perList[l] = Cardinality({t \in L : list[t] = l})
    OBVIOUS
  <2>1. {t \in L : list[t] = l} = {t \in L : lead[t].list = l}
    OBVIOUS
  <2> QED
    BY <2>1 DEF LeadStats, LeadsMeta
<1>5. LeadStats.total = Cardinality(L)
  BY DEF LeadStats
<1>6. SumOf(perStatus) = Cardinality(L) /\ SumOf(perList) = Cardinality(L)
  <2>1. DOMAIN perStatus = statuses /\ DOMAIN perList = lists
    OBVIOUS
  <2> HIDE DEF L, statuses, lists, status, list, perStatus, perList
  <2> QED
    BY <1>1, <1>2, <1>3, <1>4, <2>1, CountsAddUp
<1>7. ASSUME NEW s \in statuses
      PROVE  LeadPage(s, None, 1).total = LeadStats.byStatus[s]
  <2>1. s # None
    BY LeadsAssumption DEF LeadsMeta, LeadsThere, StatusInv
  <2>2. {t \in L : (s # None => lead[t].status = s) /\ (None # None => lead[t].list = None)}
           = {t \in L : lead[t].status = s}
    BY <2>1
  <2>3. LeadPage(s, None, 1).total = Cardinality({t \in L : lead[t].status = s})
    BY <2>2 DEF LeadPage
  <2> QED
    BY <2>3 DEF LeadStats, LeadsMeta
<1> QED
  BY <1>5, <1>6, <1>7 DEF LeadReadsAgree

\* The copies in a Sent folder, the last first: every one is the row of one page of one.
LEMMA CopiesAreListed ==
    ASSUME MailInv
    PROVE  MailReadsAgree
<1>1. ASSUME NEW u \in MailUsers, mailbox[u] # None
      PROVE  ProbeCreds(u, [box |-> None, key |-> None]) = mailbox[u]
  <2>1. mailbox[u] \in AccountRec
    BY <1>1 DEF MailInv, MailTypes
  <2> QED
    BY <1>1, <2>1 DEF ProbeCreds, AccountRec
<1>2. ASSUME NEW b \in Boxes, NEW x \in Mails
      PROVE  b \in filed[x] <=>
                \E n \in 1 .. Cardinality(Mails) : MailboxPage(b, n, 1) = <<x>>
  <2> DEFINE kept == {y \in Mails : b \in filed[y]}
             R    == {p \in kept \X kept : p[1] > p[2]}
             uids == Ordered(kept, R)
  <2>1. /\ IsFiniteSet(kept) /\ Cardinality(kept) <= Cardinality(Mails)
        /\ Cardinality(kept) \in Nat /\ Cardinality(Mails) \in Nat
    BY MailAssumption, FS_Subset, FS_CardinalityType
  <2>2. Orders(R, kept)
    BY MailAssumption DEF Orders
  <2> HIDE DEF kept, R
  <2>3. /\ uids \in Seq(kept) /\ Len(uids) = Cardinality(kept)
        /\ \A y \in kept : \E i \in 1 .. Cardinality(kept) : uids[i] = y
    BY <2>1, <2>2, OrderedRows
  <2> HIDE DEF uids
  <2>4. ASSUME NEW n \in 1 .. Len(uids)
        PROVE  SubSeq(uids, n, n) = <<uids[n]>>
    <3>1. SubSeq(uids, n, n) \in Seq(kept) /\ Len(SubSeq(uids, n, n)) = 1
      BY <2>1, <2>3
    <3>2. SubSeq(uids, n, n)[1] = uids[n]
      BY <2>1, <2>3
    <3> QED
      BY <3>1, <3>2, OneRow
  <2>5. ASSUME NEW n \in 1 .. Cardinality(Mails)
        PROVE  MailboxPage(b, n, 1) = IF n <= Len(uids) THEN <<uids[n]>> ELSE <<>>
    <3>0. (n - 1) * 1 + 1 = n /\ n * 1 = n
      OBVIOUS
    <3>1. MailboxPage(b, n, 1) = SubSeq(uids, n, IF n < Len(uids) THEN n ELSE Len(uids))
      BY <3>0, Zenon DEF MailboxPage, kept, R, uids
    <3>2. CASE n <= Len(uids)
      <4>1. n \in 1 .. Len(uids) /\ (IF n < Len(uids) THEN n ELSE Len(uids)) = n
        BY <2>1, <2>3, <3>2
      <4> QED
        BY <2>4, <3>1, <3>2, <4>1
    <3>3. CASE n > Len(uids)
      BY <2>1, <2>3, <3>1, <3>3
    <3> QED
      BY <2>1, <2>3, <3>2, <3>3
  <2>6. x \in kept <=> \E n \in 1 .. Cardinality(Mails) : n <= Len(uids) /\ uids[n] = x
    BY <2>1, <2>3
  <2> QED
    BY <2>1, <2>3, <2>5, <2>6 DEF kept
<1> QED
  BY <1>1, <1>2 DEF MailReadsAgree
=============================================================================
