---------------------------- MODULE StaffAccounts ----------------------------
(***************************************************************************)
(* The users of the program and who of them is connected: users.service.ts *)
(* and auth.service.ts (creation, update, removal, the last administrator), *)
(* realtime.gateway.ts and presence.service.ts (sockets by user), and what *)
(* a role may reach (roles.ts, permissions.ts, access.ts).                 *)
(*                                                                         *)
(* A request of the API is let in with the role its account has at that    *)
(* moment (jwt.strategy.ts); every statement after it is a step.  A socket *)
(* is authenticated with a statement too, and may close before its answer. *)
(*                                                                         *)
(* Left out: passwords and tokens, the columns of the profile, last_seen.  *)
(***************************************************************************)
EXTENDS Statements

CONSTANTS Users,        \* user ids
          Founders,     \* the administrators of the first day
          Emails,       \* normalised addresses
          GivenRoles,   \* bound: the roles requests give
          Sockets       \* socket ids

Roles   == {"admin", "admin_whatsapp", "fixed_meeting"}

\* Somebody administers the program on the first day.
ASSUME StaffAssumption ==
    /\ None \notin Users /\ None \notin Emails /\ None \notin Roles
    /\ Founders \subseteq Users /\ Founders # {} /\ GivenRoles \subseteq Roles

VARIABLES
    account,    \* account[u]: the row of users
    deed,       \* deed[h]: a request on an account under way
    sock,       \* sock[s]: a socket, as seen by its browser and by the gateway
    presence,   \* presence[u]: socketsByUser
    touching,   \* presence:update events waiting for touchLastSeen
    toldOnline, \* history: toldOnline[u], the last presence:update of u
    raced,      \* history: an administrator changed under another request
    muddled     \* history: users with two events waiting at once

accountVars == <<account, deed, raced>>
socketVars  == <<sock, presence, touching, toldOnline, muddled>>
staffVars   == <<accountVars, socketVars>>

Account == [state : {"absent", "there", "gone"}, role : Roles \cup {None},
            email : Emails \cup {None}]
NoAccount == [state |-> "absent", role |-> None, email |-> None]
Deed     == [pc : {"idle", "find", "email", "count", "write"},
             kind : {"none", "create", "update", "remove"}, target : Users \cup {None},
             role : Roles \cup {None}, email : Emails \cup {None}, was : Roles \cup {None}]
IdleDeed == [pc |-> "idle", kind |-> "none", target |-> None, role |-> None,
             email |-> None, was |-> None]
Sock     == [state : {"new", "authenticating", "left", "open", "ghost", "closed"},
             user : Users \cup {None}]

StaffInit ==
    /\ \E mail \in [Founders -> Emails] :
          /\ \A u, v \in Founders : u # v => mail[u] # mail[v]
          /\ account = [u \in Users |->
                IF u \in Founders
                THEN [state |-> "there", role |-> "admin", email |-> mail[u]] ELSE NoAccount]
    /\ deed = [h \in Handlers |-> IdleDeed] /\ raced = FALSE
    /\ sock = [s \in Sockets |-> [state |-> "new", user |-> None]]
    /\ presence = [u \in Users |-> {}] /\ touching = {}
    /\ toldOnline = [u \in Users |-> FALSE] /\ muddled = {}

There(u)  == account[u].state = "there"
Admins    == {u \in Users : There(u) /\ account[u].role = "admin"}
Holds(e)  == {u \in Users : There(u) /\ account[u].email = e}

----------------------------------------------------------------------------
(* Requests on accounts *)

Enter(h, d) == Begins /\ deed[h].pc = "idle" /\ deed' = [deed EXCEPT ![h] = d]

\* create by an administrator, with any role; register by anybody.
CreateAccount(h) ==
    /\ \E u \in Users, e \in Emails, r \in GivenRoles :
          /\ account[u].state = "absent" /\ \A o \in Handlers : deed[o].target # u
          /\ Admins # {} \/ r = "admin_whatsapp"
          /\ Enter(h, [IdleDeed EXCEPT !.pc = "email", !.kind = "create", !.target = u,
                                       !.role = r, !.email = e])
    /\ UNCHANGED <<account, raced, socketVars, faults>>

UpdateAccount(h) ==
    /\ Admins # {}
    /\ \E u \in Users, r \in GivenRoles \cup {None}, e \in Emails \cup {None} :
          /\ account[u].state # "absent"
          /\ Enter(h, [IdleDeed EXCEPT !.pc = "find", !.kind = "update", !.target = u,
                                       !.role = r, !.email = e])
    /\ UNCHANGED <<account, raced, socketVars, faults>>

\* Nobody removes himself.
RemoveAccount(h) ==
    /\ \E a \in Admins : \E u \in Users \ {a} :
          /\ account[u].state # "absent"
          /\ Enter(h, [IdleDeed EXCEPT !.pc = "find", !.kind = "remove", !.target = u])
    /\ UNCHANGED <<account, raced, socketVars, faults>>

Step(h, d)    == deed' = [deed EXCEPT ![h] = d]
GivesUp(h)    == Step(h, IdleDeed)
TouchesNothing == UNCHANGED <<account, raced, socketVars, calls>>

\* Where an administrator is lost, the others are counted first.
Losing(d)     == d.was = "admin" /\ (d.kind = "remove" \/ d.role \notin {None, "admin"})
Guarded(d)    == [d EXCEPT !.pc = IF Losing(d) THEN "count" ELSE "write"]

FindAccount(h) ==
    /\ deed[h].pc = "find"
    /\ LET d == [deed[h] EXCEPT !.was = account[deed[h].target].role]
       IN  \/ /\ There(d.target) /\ Answers
              /\ Step(h, IF d.email \notin {None, account[d.target].email}
                         THEN [d EXCEPT !.pc = "email"] ELSE Guarded(d))
           \/ /\ IF There(d.target) THEN Fails ELSE Answers
              /\ GivesUp(h)
    /\ TouchesNothing

\* A failed look-up counts as a free address.
CheckEmail(h) ==
    /\ deed[h].pc = "email"
    /\ LET d == deed[h]
           Free == Step(h, IF d.kind = "create" THEN [d EXCEPT !.pc = "write"] ELSE Guarded(d))
       IN  \/ Holds(d.email) = {} /\ Answers /\ Free
           \/ Holds(d.email) # {} /\ Answers /\ GivesUp(h)
           \/ Fails /\ Free
    /\ TouchesNothing

\* mutant: the one who goes is counted.
CountedAll(target) == Admins
\* assertNotLastAdmin: the administrators that would be left.
Counted(target) == Admins \ {target}

CountAdmins(h) ==
    /\ deed[h].pc = "count"
    /\ \/ /\ Counted(deed[h].target) # {} /\ Answers
          /\ Step(h, [deed[h] EXCEPT !.pc = "write"])
       \/ /\ IF Counted(deed[h].target) = {} THEN Answers ELSE Fails
          /\ GivesUp(h)
    /\ TouchesNothing

\* Requests that rely on a role they have read.
Relying(h) == {o \in Handlers \ {h} :
                  /\ deed[o].pc \in {"email", "count", "write"}
                  /\ deed[o].kind = "remove" \/ (deed[o].kind = "update" /\ deed[o].role # None)}

Written(d) ==
    CASE d.kind = "create" -> [state |-> "there", role |-> d.role, email |-> d.email]
      [] d.kind = "remove" -> [NoAccount EXCEPT !.state = "gone"]
      [] OTHER -> [account[d.target] EXCEPT !.role = IF d.role = None THEN @ ELSE d.role,
                                            !.email = IF d.email = None THEN @ ELSE d.email]

\* users_email_key refuses an address that is taken; an update of a row that is
\* gone returns no row.
Refused(d) == \/ d.email # None /\ Holds(d.email) \ {d.target} # {}
              \/ d.kind = "update" /\ ~There(d.target)

WriteAccount(h) ==
    /\ deed[h].pc = "write"
    /\ LET d == deed[h]
       IN  \/ /\ ~Refused(d) /\ Answers
              /\ account' = [account EXCEPT ![d.target] = Written(d)]
              /\ raced' = (raced \/ Relying(h) # {})
           \/ /\ IF Refused(d) THEN Answers ELSE Fails
              /\ UNCHANGED <<account, raced>>
    /\ GivesUp(h) /\ UNCHANGED <<socketVars, calls>>

AccountNext ==
    \E h \in Handlers :
        \/ CreateAccount(h) \/ UpdateAccount(h) \/ RemoveAccount(h)
        \/ FindAccount(h) \/ CheckEmail(h) \/ CountAdmins(h) \/ WriteAccount(h)

----------------------------------------------------------------------------
(* Sockets *)

IsOnline(u) == presence[u] # {}

\* The event is emitted once touchLastSeen has answered, in whatever order.
Waits(u, online) ==
    /\ touching' = touching \cup {[user |-> u, online |-> online]}
    /\ muddled' = IF \E e \in touching : e.user = u THEN muddled \cup {u} ELSE muddled

Connect(s) ==
    /\ sock[s].state = "new" /\ s = AnyOf({x \in Sockets : sock[x].state = "new"}) /\ Begins
    /\ \E u \in Users :
          /\ account[u].state # "absent"
          /\ sock' = [sock EXCEPT ![s] = [state |-> "authenticating", user |-> u]]
    /\ UNCHANGED <<accountVars, presence, touching, toldOnline, muddled, faults>>

\* handleConnection after authenticateSocket: joins and trackConnect, whether or
\* not the socket is still there; a rejected one is disconnected.
Authenticated(s) ==
    /\ sock[s].state \in {"authenticating", "left"}
    /\ LET u == sock[s].user
       IN  \/ /\ There(u) /\ Answers
              /\ sock' = [sock EXCEPT ![s].state = IF @ = "left" THEN "ghost" ELSE "open"]
              /\ presence' = [presence EXCEPT ![u] = @ \cup {s}]
              /\ IF IsOnline(u) THEN UNCHANGED <<touching, muddled>> ELSE Waits(u, TRUE)
           \/ /\ IF There(u) THEN Fails ELSE Answers
              /\ sock' = [sock EXCEPT ![s].state = "closed"]
              /\ UNCHANGED <<presence, touching, muddled>>
    /\ UNCHANGED <<accountVars, toldOnline, calls>>

\* mutant: one tab closed is the user gone.
TrackDisconnectAll(u, s) == {}
TrackDisconnect(u, s) == presence[u] \ {s}

\* handleDisconnect: a socket without user leaves no trace.
Disconnect(s) ==
    LET u == sock[s].user
    IN  /\ \/ /\ sock[s].state = "authenticating"
              /\ sock' = [sock EXCEPT ![s].state = "left"]
              /\ UNCHANGED <<presence, touching, muddled>>
           \/ /\ sock[s].state = "open"
              /\ sock' = [sock EXCEPT ![s].state = "closed"]
              /\ presence' = [presence EXCEPT ![u] = TrackDisconnect(u, s)]
              /\ IF presence'[u] = {} THEN Waits(u, FALSE) ELSE UNCHANGED <<touching, muddled>>
        /\ UNCHANGED <<accountVars, toldOnline, counters>>

\* touchLastSeen has answered, well or not, and the event goes out.
TellPresence ==
    /\ \E e \in touching :
          /\ touching' = touching \ {e}
          /\ toldOnline' = [toldOnline EXCEPT ![e.user] = e.online]
    /\ UNCHANGED <<accountVars, sock, presence, muddled, counters>>

SocketNext ==
    \/ TellPresence
    \/ \E s \in Sockets : Connect(s) \/ Authenticated(s) \/ Disconnect(s)

StaffNext == AccountNext \/ SocketNext

\* The accounts and the sockets alone.
StaffSpec == StaffInit /\ calls = 0 /\ faults = 0 /\ [][StaffNext]_<<staffVars, counters>>

----------------------------------------------------------------------------
(* What a role may reach *)

\* getRolePermissions: the areas and the pages the browser is shown.
Permissions(r) ==
    CASE r = "admin"         -> {"whatsapp", "leads", "meetings", "dashboard", "clients",
                                 "devis", "factures", "propositions", "users", "upload"}
      [] r = "fixed_meeting" -> {"meetings"}
      [] OTHER               -> {"whatsapp", "leads", "meetings"}

Pages(r) ==
    CASE r = "admin"         -> {"dashboard", "conversations", "leads", "calendrier"}
      [] r = "fixed_meeting" -> {"calendrier"}
      [] OTHER               -> {"conversations", "leads", "calendrier"}

RecommendedRoute(r) ==
    CASE r = "fixed_meeting"  -> "calendrier"
      [] r = "admin_whatsapp" -> "conversations"
      [] OTHER                -> "dashboard"

\* assertWhatsappAdminApiAccess, assertFixedMeetingApiAccess: first path segments.
ApiPrefixes(r) ==
    IF r = "admin_whatsapp"
    THEN {"whatsapp", "notifications", "leads", "meetings", "dashboard", "email",
          "clickup/sync", "auth/me", "auth/change-password"}
    ELSE {"meetings", "auth/me", "auth/change-password"}

Allowed(r, verb, path) ==
    \/ r = "admin"
    \/ path = "me/mail"
    \/ path = "users/me" /\ verb \in {"GET", "PATCH"}
    \/ r = "admin_whatsapp" /\ path = "users" /\ verb = "GET"
    \/ path \in ApiPrefixes(r)

\* The rooms a socket joins (handleConnection).
Rooms(r) ==
    (IF r \in {"admin", "admin_whatsapp"} THEN {"leads", "whatsapp", "notifications"} ELSE {})
        \cup (IF r = "admin" THEN {"presence"} ELSE {})

\* list of the team, for those who may read it, with who is online.
TeamList(u) == IF There(u) /\ account[u].role \in {"admin", "admin_whatsapp"}
               THEN {[id |-> v, online |-> IsOnline(v)] : v \in {x \in Users : There(x)}}
               ELSE {}

----------------------------------------------------------------------------
(* Properties *)

\* Types of the table, the requests, the sockets and the history.
StaffTypeOK ==
    /\ account \in [Users -> Account] /\ deed \in [Handlers -> Deed] /\ raced \in BOOLEAN
    /\ sock \in [Sockets -> Sock] /\ presence \in [Users -> SUBSET Sockets]
    /\ touching \subseteq [user : Users, online : BOOLEAN]
    /\ toldOnline \in [Users -> BOOLEAN] /\ muddled \subseteq Users

\* Removals and demotions never leave the program without an administrator
\* (assertNotLastAdmin), unless a role was changed while another removal or change
\* of role relied on the one it had read; and two accounts never share an address,
\* although a failed look-up counts as a free one.
AdminRemains ==
    /\ raced \/ Admins # {}
    /\ \A e \in Emails : Cardinality(Holds(e)) <= 1

\* A user is online exactly while one of his sockets is, whatever the number of tabs
\* and their order, unless a socket closed before it was authenticated; and once no
\* event waits, the browsers have last been told what holds, unless two events of
\* the user waited together (handleConnection, handleDisconnect, presence.service).
OnlineIsConnected ==
    \A u \in Users :
        LET mine == {s \in Sockets : sock[s].user = u}
        IN  (\A s \in mine : sock[s].state \notin {"left", "ghost"}) =>
                /\ IsOnline(u) <=> \E s \in mine : sock[s].state = "open"
                /\ u \notin muddled /\ (\A e \in touching : e.user # u) =>
                        toldOnline[u] = \E s \in mine : sock[s].state = "open"

\* What a role is shown it may also reach, and hears of: the areas of its permissions
\* are those its requests are let into, its rooms those of its areas, its first page
\* one of its pages; and the team list shows everybody to those who may read it.
AccessAgrees ==
    /\ \A r \in Roles :
          /\ \A area \in Permissions("admin") \ {"dashboard"} :
                area \in Permissions(r) <=> Allowed(r, "POST", area)
          /\ RecommendedRoute(r) \in Pages(r)
          /\ \A area \in {"leads", "whatsapp"} : area \in Permissions(r) <=> area \in Rooms(r)
          /\ "presence" \in Rooms(r) <=> "users" \in Permissions(r)
    /\ \A u \in Admins : {x.id : x \in {y \in TeamList(u) : y.online}}
                            = {v \in Users : There(v) /\ presence[v] # {}}
=============================================================================
