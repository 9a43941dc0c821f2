----------------------------- MODULE Portal_proofs -----------------------------
(***************************************************************************)
(* Proofs about the client portal: what is kept of a Facebook connection   *)
(* follows it, nothing of one client refers to another's, and the timeline *)
(* of a lead tells what became of it, and the statistics add up.  For      *)
(* every set of clients, rows and requests and every bound.                *)
(***************************************************************************)
EXTENDS PortalMeta, PortalBoard, Counting_proofs
----------------------------------------------------------------------------
(* The inductive invariant *)

Storing == {"list", "page", "writePage", "forms", "form", "writeForm"}

\* A request belongs to an account as long as it is under way.
CallInv ==
    /\ calling = [h \in Handlers |-> calling[h]]
    /\ \A h \in Handlers :
          /\ DOMAIN calling[h] = DOMAIN Quiet
          /\ calling[h].owner \in Owners \cup {None}
          /\ calling[h].pc = "idle" <=> calling[h].owner = None

\* A state in the store has let none through yet; one that let a callback through let that of
\* its account through, once.
StoreInv ==
    /\ issued \in [States -> [owner : Owners, old : BOOLEAN] \cup {None}]
    /\ bearers \in [States -> Seq(Owners)]
    /\ \A s \in States :
          /\ s \notin drawn => bearers[s] = <<>> /\ issued[s] = None
          /\ issued[s] # None => Len(bearers[s]) = 1 /\ bearers[s][1] = issued[s].owner
          /\ Len(bearers[s]) <= 2
          /\ \A i \in DOMAIN bearers[s] : bearers[s][i] = bearers[s][1]

\* A page belongs to the connection of its account.
PageInv == \A o \in Owners, p \in FbPages : page[o][p] \in {None, link[o]}

\* Unless a disconnection crossed a callback, no callback is under way while the
\* connection is being removed, there are no forms then or without a connection, and a
\* callback that stores pages and forms has its connection.
FormInv ==
    \A o \in Owners \ cutOff :
        /\ Unlinking(o) => ~CallingBack(o)
        /\ Unlinking(o) \/ link[o] = None => \A f \in FbForms : form[o][f] = None
        /\ \A h \in Handlers : calling[h].owner = o /\ calling[h].pc \in Storing => link[o] # None

\* What is kept of a form is what was chosen for it.
ChosenInv ==
    /\ chosen \in [Owners -> [FbForms -> BOOLEAN \cup {None}]]
    /\ \A o \in Owners, f \in FbForms : form[o][f] = chosen[o][f]

MInv == MetaTypeOK /\ CallInv /\ StoreInv /\ PageInv /\ FormInv /\ ChosenInv

\* Nothing is kept and nothing runs at first.
LEMMA InitMInv == MetaInit => MInv
<1> SUFFICES ASSUME MetaInit PROVE MInv
  OBVIOUS
<1>0. \A h \in Handlers : calling[h] = Quiet
  BY DEF MetaInit
<1>1. MetaTypeOK
  BY <1>0 DEF MetaInit, MetaTypeOK, Quiet
<1>2. CallInv
  BY <1>0 DEF MetaInit, CallInv, Quiet
<1>3. StoreInv
  BY DEF MetaInit, StoreInv
<1>4. PageInv
  BY DEF MetaInit, PageInv
<1>5. FormInv
  BY <1>0, MetaAssumption DEF MetaInit, FormInv, Unlinking, CallingBack, Quiet, Storing
<1>6. ChosenInv
  BY DEF MetaInit, ChosenInv
<1> QED
  BY <1>1, <1>2, <1>3, <1>4, <1>5, <1>6 DEF MInv

----------------------------------------------------------------------------
(* How the requests move *)

\* A callback under way ends, or goes on for its account.
LEMMA Turn ==
    ASSUME MInv, NEW h \in Handlers, calling[h].pc \notin {"idle", "unlink"}, NEW r, Now(h, r),
           \/ r = Quiet
           \/ /\ DOMAIN r = DOMAIN Quiet /\ r.owner = calling[h].owner
              /\ r.pc \notin {"idle", "unlink"}
    PROVE  /\ CallInv' /\ calling'[h] = r
           /\ \A g \in Handlers \ {h} : calling'[g] = calling[g]
           /\ \A o \in Owners : /\ Unlinking(o)' => Unlinking(o)
                                /\ CallingBack(o)' => CallingBack(o)
           /\ \A g \in Handlers : calling'[g].owner \in Owners \cup {None}
<1>1. /\ calling'[h] = r
      /\ \A g \in Handlers \ {h} : calling'[g] = calling[g]
      /\ calling' = [g \in Handlers |-> calling'[g]]
  BY DEF MInv, CallInv, Now
<1>2. /\ DOMAIN r = DOMAIN Quiet
      /\ r.owner \in Owners \cup {None}
      /\ r.pc = "idle" <=> r.owner = None
  BY DEF MInv, CallInv, Quiet
<1>3. CallInv'
  BY <1>1, <1>2 DEF MInv, CallInv, Quiet
<1>4. \A o \in Owners : /\ Unlinking(o)' => Unlinking(o)
                        /\ CallingBack(o)' => CallingBack(o)
  <2> SUFFICES ASSUME NEW o \in Owners
               PROVE  /\ Unlinking(o)' => Unlinking(o)
                      /\ CallingBack(o)' => CallingBack(o)
    OBVIOUS
  <2>1. r.pc # "unlink"
    BY DEF Quiet
  <2>2. r.owner = o => calling[h].owner = o
    BY MetaAssumption DEF Quiet
  <2> QED
    BY <1>1, <2>1, <2>2 DEF Unlinking, CallingBack
<1> QED
  BY <1>1, <1>3, <1>4 DEF CallInv

\* What a callback may do to the forms of its account leaves the others alone.
LEMMA TurnForms ==
    ASSUME MInv, NEW h \in Handlers, calling[h].pc \notin {"idle", "unlink"}, NEW r, Now(h, r),
           \/ r = Quiet
           \/ /\ DOMAIN r = DOMAIN Quiet /\ r.owner = calling[h].owner
              /\ r.pc \notin {"idle", "unlink"},
           cutOff' = cutOff,
           \A o \in Owners : link[o] # None => link'[o] # None,
           \A o \in Owners : link'[o] = link[o] \/ o = calling[h].owner,
           \A o \in Owners \ {calling[h].owner} : form'[o] = form[o],
           form' = form \/ calling[h].pc \in Storing,
           r.pc \in Storing => link'[calling[h].owner] # None \/ calling[h].pc \in Storing
    PROVE  FormInv'
<1> SUFFICES ASSUME NEW o \in Owners, o \notin cutOff
             PROVE  /\ Unlinking(o)' => ~CallingBack(o)'
                    /\ Unlinking(o)' \/ link'[o] = None => \A f \in FbForms : form'[o][f] = None
                    /\ \A g \in Handlers : calling'[g].owner = o /\ calling'[g].pc \in Storing
                           => link'[o] # None
  BY DEF FormInv, Unlinking, CallingBack
<1>1. /\ calling'[h] = r
      /\ \A g \in Handlers \ {h} : calling'[g] = calling[g]
      /\ Unlinking(o)' => Unlinking(o)
      /\ CallingBack(o)' => CallingBack(o)
  BY Turn
<1>2. /\ Unlinking(o) => ~CallingBack(o)
      /\ Unlinking(o) \/ link[o] = None => \A f \in FbForms : form[o][f] = None
      /\ \A g \in Handlers : calling[g].owner = o /\ calling[g].pc \in Storing => link[o] # None
  BY DEF MInv, FormInv
<1>3. calling[h].owner = o => CallingBack(o)
  BY DEF CallingBack
<1>4. Unlinking(o)' \/ link'[o] = None => \A f \in FbForms : form'[o][f] = None
  BY <1>1, <1>2, <1>3
<1>5. ASSUME NEW g \in Handlers, calling'[g].owner = o, calling'[g].pc \in Storing
      PROVE  link'[o] # None
  <2>1. CASE g # h
    BY <1>1, <1>2, <1>5, <2>1
  <2>2. CASE g = h
    <3>1. r.owner = o /\ r.pc \in Storing
      BY <1>1, <1>5, <2>2
    <3>2. calling[h].owner = o
      BY <3>1, MetaAssumption DEF Quiet
    <3> QED
      BY <1>2, <3>1, <3>2
  <2> QED
    BY <2>1, <2>2
<1> QED
  BY <1>1, <1>2, <1>4, <1>5

----------------------------------------------------------------------------
(* Each action preserves it *)

\* A callback that has begun.
Underway(h) == calling[h].pc \notin {"idle", "unlink"}

\* A page that is skipped leaves the request with its account, at the next page.
LEMMA SkipShape ==
    ASSUME NEW r, DOMAIN r = DOMAIN Quiet
    PROVE  /\ DOMAIN SkipPage(r) = DOMAIN Quiet
           /\ SkipPage(r).owner = r.owner /\ SkipPage(r).pc = "page"
<1>1. DOMAIN r = {"pc", "owner", "id", "known", "pages", "forms"}
  BY DEF Quiet
<1> QED
  BY <1>1 DEF SkipPage, Quiet

\* A callback that reads, or asks Facebook, leaves every row as it is; what it does next
\* needs a connection only if it had one to do that.
LEMMA ReadSteps ==
    ASSUME MInv, NEW h \in Handlers,
           Exchange(h) \/ FindLink(h) \/ ListPages(h) \/ FindPage(h) \/ ListForms(h) \/ FindForm(h)
    PROVE  MInv'
<1> DEFINE next == calling'[h]
           Good == /\ Now(h, next)
                   /\ \/ next = Quiet
                      \/ /\ DOMAIN next = DOMAIN Quiet /\ next.owner = calling[h].owner
                         /\ next.pc \notin {"idle", "unlink"}
                         /\ next.pc \in Storing => calling[h].pc \in Storing
<1>1. Good
  <2>0. DOMAIN calling[h] = {"pc", "owner", "id", "known", "pages", "forms"}
    BY DEF MInv, CallInv, Quiet
  <2>1. CASE Exchange(h)
    BY <2>0, <2>1 DEF Exchange, MInv, CallInv, Now, Quits, At, AtMeta, Quiet, Storing
  <2>2. CASE FindLink(h)
    <3> DEFINE w == [calling[h] EXCEPT !.pc = "writeLink", !.id = link[calling[h].owner]]
               v == [calling[h] EXCEPT !.pc = "writeLink"]
    <3>1. Now(h, w) \/ Now(h, v)
      BY <2>2 DEF FindLink, At
    <3>2. /\ DOMAIN w = DOMAIN Quiet /\ w.owner = calling[h].owner /\ w.pc = "writeLink"
          /\ DOMAIN v = DOMAIN Quiet /\ v.owner = calling[h].owner /\ v.pc = "writeLink"
      BY <2>0 DEF Quiet
    <3> HIDE DEF w, v
    <3>3. \A x : Now(h, x) => next = x
      BY DEF MInv, CallInv, Now
    <3> QED
      BY <3>1, <3>2, <3>3 DEF Storing
  <2>3. CASE ListPages(h)
    BY <2>0, <2>3 DEF ListPages, MInv, CallInv, Now, Quits, At, AtMeta, Quiet, Storing
  <2>4. CASE FindPage(h)
    BY <2>0, <2>4 DEF FindPage, MInv, CallInv, Now, Quits, At, AtMeta, Quiet, Storing
  <2>5. CASE ListForms(h)
    <3> DEFINE w == [calling[h] EXCEPT !.pc = "form",
                                        !.forms = SetToSeq(FormsOn[ThisPage(calling[h])])]
    <3>1. calling[h].pc \in Storing /\ (Now(h, w) \/ Now(h, SkipPage(calling[h])))
      BY <2>5 DEF ListForms, AtMeta, Storing
    <3>2. DOMAIN w = DOMAIN Quiet /\ w.owner = calling[h].owner /\ w.pc = "form"
      BY <2>0 DEF Quiet
    <3>3. calling[h] = calling[h] /\ \A x : Now(h, x) => next = x
      BY DEF MInv, CallInv, Now
    <3> HIDE DEF w
    <3> QED
      BY <2>0, <3>1, <3>2, <3>3, SkipShape DEF Quiet
  <2>6. CASE FindForm(h)
    <3> DEFINE w(k) == [calling[h] EXCEPT !.pc = "writeForm", !.known = k]
    <3>1. /\ calling[h].pc \in Storing
          /\ Now(h, SkipPage(calling[h])) \/ \E k : Now(h, w(k))
      BY <2>6 DEF FindForm, AtMeta, Storing
    <3>2. \A k : DOMAIN w(k) = DOMAIN Quiet /\ w(k).owner = calling[h].owner
                 /\ w(k).pc = "writeForm"
      BY <2>0 DEF Quiet
    <3>3. \A x : Now(h, x) => next = x
      BY DEF MInv, CallInv, Now
    <3>4. /\ DOMAIN SkipPage(calling[h]) = DOMAIN Quiet
          /\ SkipPage(calling[h]).owner = calling[h].owner /\ SkipPage(calling[h]).pc = "page"
      BY <2>0, SkipShape DEF Quiet
    <3> HIDE DEF w
    <3> QED
      BY <3>1, <3>2, <3>3, <3>4
  <2> QED
    BY <2>1, <2>2, <2>3, <2>4, <2>5, <2>6
<1>2. /\ Underway(h)
      /\ UNCHANGED <<issued, bearers, drawn, link, page, form, chosen, cutOff>>
  BY DEF Exchange, FindLink, ListPages, FindPage, ListForms, FindForm, AtMeta, rows,
     Underway
<1>3. PICK r : /\ Now(h, r)
               /\ \/ r = Quiet
                  \/ /\ DOMAIN r = DOMAIN Quiet /\ r.owner = calling[h].owner
                     /\ r.pc \notin {"idle", "unlink"}
                     /\ r.pc \in Storing => calling[h].pc \in Storing
  BY <1>1
<1>4. CallInv'
  BY <1>2, <1>3, Turn DEF Underway
<1>5. FormInv'
  <2>1. r.pc \in Storing => calling[h].pc \in Storing
    BY <1>3 DEF Quiet, Storing
  <2> QED
    BY <1>2, <1>3, <2>1, TurnForms DEF Underway
<1>6. MetaTypeOK' /\ StoreInv' /\ PageInv' /\ ChosenInv'
  BY <1>2, <1>4 DEF MInv, MetaTypeOK, StoreInv, PageInv, ChosenInv, CallInv
<1> QED
  BY <1>4, <1>5, <1>6 DEF MInv

\* A callback finds its connection or makes it.
LEMMA WriteLinkStep == ASSUME MInv, NEW h \in Handlers, WriteLink(h) PROVE MInv'
<1> DEFINE o == calling[h].owner
<1>1. /\ Underway(h) /\ o \in Owners /\ DOMAIN calling[h] = DOMAIN Quiet
      /\ calling[h].pc \notin Storing
      /\ UNCHANGED <<issued, bearers, page, form, chosen, cutOff>>
  BY DEF WriteLink, AtMeta, Underway, MInv, CallInv, Storing
<1>2. CASE /\ calling[h].id # None /\ link[o] = calling[h].id /\ At(h, "list")
           /\ UNCHANGED <<link, drawn>>
  <2> DEFINE r == [calling[h] EXCEPT !.pc = "list"]
  <2>1. Now(h, r) /\ DOMAIN r = DOMAIN Quiet /\ r.owner = o /\ r.pc = "list"
    BY <1>1, <1>2 DEF At, Quiet
  <2> HIDE DEF r
  <2>2. CallInv'
    BY <1>1, <2>1, Turn DEF Underway
  <2>3. FormInv'
    BY <1>1, <1>2, <2>1, TurnForms DEF Underway
  <2> QED
    BY <1>1, <1>2, <2>2, <2>3 DEF MInv, MetaTypeOK, StoreInv, PageInv, ChosenInv, CallInv
<1>3. ASSUME link[o] = None, NEW i \in Links, i \notin drawn,
             link' = [link EXCEPT ![o] = i], drawn' = drawn \cup {i},
             Now(h, [calling[h] EXCEPT !.pc = "list", !.id = i])
      PROVE  MInv'
  <2> DEFINE r == [calling[h] EXCEPT !.pc = "list", !.id = i]
  <2>1. Now(h, r) /\ DOMAIN r = DOMAIN Quiet /\ r.owner = o /\ r.pc = "list"
    BY <1>1, <1>3 DEF Quiet
  <2>2. /\ link' \in [Owners -> Links \cup {None}] /\ link'[o] = i /\ i # None
        /\ \A x \in Owners \ {o} : link'[x] = link[x]
    BY <1>1, <1>3, MetaAssumption DEF MInv, MetaTypeOK
  <2> HIDE DEF r
  <2>3. CallInv'
    BY <1>1, <2>1, Turn DEF Underway
  <2>4. FormInv'
    BY <1>1, <2>1, <2>2, TurnForms DEF Underway
  <2>5. MetaTypeOK'
    BY <1>1, <1>3, <2>2, <2>3 DEF MInv, MetaTypeOK, CallInv
  <2>6. StoreInv' /\ ChosenInv'
    BY <1>1, <1>3 DEF MInv, StoreInv, ChosenInv
  <2>7. PageInv'
    BY <1>1, <1>3, <2>2 DEF MInv, PageInv
  <2> QED
    BY <2>3, <2>4, <2>5, <2>6, <2>7 DEF MInv
<1>4. CASE Quits(h) /\ UNCHANGED <<link, drawn>>
  <2>1. Now(h, Quiet) /\ Quiet.pc \notin Storing
    BY <1>4 DEF Quits, Quiet, Storing
  <2>2. CallInv'
    BY <1>1, <2>1, Turn DEF Underway
  <2>3. FormInv'
    BY <1>1, <1>4, <2>1, TurnForms DEF Underway
  <2> QED
    BY <1>1, <1>4, <2>2, <2>3 DEF MInv, MetaTypeOK, StoreInv, PageInv, ChosenInv, CallInv
<1>5. ASSUME Links \ drawn # {} PROVE AnyOf(Links \ drawn) \in Links \ drawn
  BY <1>5 DEF AnyOf
<1> QED
  BY <1>2, <1>3, <1>4, <1>5 DEF WriteLink

\* A page is stored under the connection its account has.
LEMMA WritePageStep == ASSUME MInv, NEW h \in Handlers, WritePage(h) PROVE MInv'
<1> DEFINE o == calling[h].owner
           p == ThisPage(calling[h])
<1>1. /\ Underway(h) /\ o \in Owners /\ DOMAIN calling[h] = DOMAIN Quiet
      /\ calling[h].pc \in Storing
      /\ UNCHANGED <<issued, bearers, drawn, link, form, chosen, cutOff>>
  BY DEF WritePage, AtMeta, Underway, MInv, CallInv, Storing
<1>2. \E r : /\ Now(h, r) /\ DOMAIN r = DOMAIN Quiet /\ r.owner = o
             /\ r.pc \notin {"idle", "unlink"}
  <2>1. Now(h, [calling[h] EXCEPT !.pc = "forms"]) \/ Now(h, SkipPage(calling[h]))
    BY DEF WritePage, At
  <2> QED
    BY <1>1, <2>1, SkipShape DEF Quiet
<1>3. CallInv' /\ FormInv'
  BY <1>1, <1>2, Turn, TurnForms DEF Underway
<1>4. page' = page \/ page' = [page EXCEPT ![o][p] = link[o]]
  BY DEF WritePage, PageInserts, PageUpdates
<1>5. page' \in [Owners -> [FbPages -> Links \cup {None}]] /\ PageInv'
  <2>1. CASE page' = page
    BY <1>1, <2>1 DEF MInv, MetaTypeOK, PageInv
  <2>2. CASE page' = [page EXCEPT ![o][p] = link[o]]
    <3>1. link[o] \in Links \cup {None} /\ page \in [Owners -> [FbPages -> Links \cup {None}]]
      BY <1>1 DEF MInv, MetaTypeOK
    <3>2. page' \in [Owners -> [FbPages -> Links \cup {None}]]
      BY <2>2, <3>1, <1>1
    <3>3. \A x \in Owners, y \in FbPages :
              page'[x][y] = IF x = o /\ y = p THEN link[o] ELSE page[x][y]
      BY <2>2, <3>1, <1>1
    <3> HIDE DEF o, p
    <3>4. PageInv'
      BY <1>1, <3>3 DEF MInv, PageInv
    <3> QED
      BY <3>2, <3>4
  <2> QED
    BY <1>4, <2>1, <2>2
<1> HIDE DEF o, p
<1>6. MetaTypeOK' /\ StoreInv' /\ ChosenInv'
  BY <1>1, <1>3, <1>5 DEF MInv, MetaTypeOK, StoreInv, ChosenInv, CallInv
<1> QED
  BY <1>3, <1>5, <1>6 DEF MInv

\* The choice of a form goes with its row, into the row and into the history.
LEMMA ChoiceKept ==
    ASSUME MInv, NEW o \in Owners, NEW f, NEW b \in BOOLEAN \cup {None},
           form' = [form EXCEPT ![o][f] = b],
           \/ chosen' = [chosen EXCEPT ![o][f] = b]
           \/ chosen' = chosen /\ (f \in FbForms => b = form[o][f])
    PROVE  /\ form' \in [Owners -> [FbForms -> BOOLEAN \cup {None}]] /\ ChosenInv'
           /\ \A x \in Owners \ {o} : form'[x] = form[x]
<1>1. /\ form \in [Owners -> [FbForms -> BOOLEAN \cup {None}]]
      /\ chosen \in [Owners -> [FbForms -> BOOLEAN \cup {None}]]
      /\ \A x \in Owners, y \in FbForms : form[x][y] = chosen[x][y]
  BY DEF MInv, MetaTypeOK, ChosenInv
<1>2. /\ form' \in [Owners -> [FbForms -> BOOLEAN \cup {None}]]
      /\ \A x \in Owners \ {o} : form'[x] = form[x]
      /\ \A x \in Owners, y \in FbForms :
            form'[x][y] = IF x = o /\ y = f THEN b ELSE form[x][y]
  BY <1>1
<1>3. CASE chosen' = [chosen EXCEPT ![o][f] = b]
  <2>1. /\ chosen' \in [Owners -> [FbForms -> BOOLEAN \cup {None}]]
        /\ \A x \in Owners, y \in FbForms :
              chosen'[x][y] = IF x = o /\ y = f THEN b ELSE chosen[x][y]
    BY <1>1, <1>3
  <2> QED
    BY <1>1, <1>2, <2>1 DEF ChosenInv
<1>4. CASE chosen' = chosen /\ (f \in FbForms => b = form[o][f])
  BY <1>1, <1>2, <1>4 DEF ChosenInv
<1> QED
  BY <1>2, <1>3, <1>4

\* A form is updated or inserted, or its page is skipped.
LEMMA WriteFormStep == ASSUME MInv, NEW h \in Handlers, WriteForm(h) PROVE MInv'
<1> DEFINE o == calling[h].owner
           f == ThisForm(calling[h])
           b == FormKept(calling[h])
<1>1. /\ Underway(h) /\ o \in Owners /\ DOMAIN calling[h] = DOMAIN Quiet
      /\ calling[h].pc \in Storing
      /\ UNCHANGED <<issued, bearers, drawn, link, page, cutOff>>
  BY DEF WriteForm, AtMeta, Underway, MInv, CallInv, Storing
<1>2. \E r : /\ Now(h, r) /\ DOMAIN r = DOMAIN Quiet /\ r.owner = o
             /\ r.pc \notin {"idle", "unlink"}
  <2> DEFINE w == [calling[h] EXCEPT !.pc = "form", !.forms = Tail(calling[h].forms)]
  <2>1. Now(h, w) \/ Now(h, SkipPage(calling[h]))
    BY DEF WriteForm
  <2>2. DOMAIN w = DOMAIN Quiet /\ w.owner = o /\ w.pc = "form"
    BY <1>1 DEF Quiet
  <2> HIDE DEF w
  <2> QED
    BY <1>1, <2>1, <2>2, SkipShape DEF Quiet
<1>3. \/ UNCHANGED <<form, chosen>>
      \/ /\ form' = [form EXCEPT ![o][f] = b]
         /\ \/ calling[h].known /\ chosen' = chosen
            \/ ~calling[h].known /\ chosen' = [chosen EXCEPT ![o][f] = FALSE]
  BY DEF WriteForm
<1>4. /\ form' \in [Owners -> [FbForms -> BOOLEAN \cup {None}]] /\ ChosenInv'
      /\ \A x \in Owners \ {o} : form'[x] = form[x]
  <2>1. CASE UNCHANGED <<form, chosen>>
    BY <2>1 DEF MInv, MetaTypeOK, ChosenInv
  <2>2. CASE /\ form' = [form EXCEPT ![o][f] = b]
             /\ calling[h].known /\ chosen' = chosen
    <3>1. b = form[o][f]
      BY <2>2 DEF FormKept
    <3>2. CASE f \in FbForms
      <4>1. b \in BOOLEAN \cup {None}
        BY <1>1, <3>1, <3>2 DEF MInv, MetaTypeOK
      <4> HIDE DEF o, f, b
      <4> QED
        BY <1>1, <2>2, <3>1, <4>1, ChoiceKept
    <3>3. CASE f \notin FbForms
      <4>1. form' = [form EXCEPT ![o][f] = None] /\ (f \in FbForms => None = form[o][f])
        <5>1. form \in [Owners -> [FbForms -> BOOLEAN \cup {None}]]
          BY DEF MInv, MetaTypeOK
        <5>2. form[o] \in [FbForms -> BOOLEAN \cup {None}]
          BY <1>1, <5>1
        <5> HIDE DEF o, f, b
        <5>3. [form[o] EXCEPT ![f] = b] = [form[o] EXCEPT ![f] = None]
          BY <3>3, <5>2
        <5> QED
          BY <2>2, <3>3, <5>3
      <4> HIDE DEF o, f, b
      <4> QED
        BY <1>1, <2>2, <4>1, ChoiceKept
    <3> QED
      BY <3>2, <3>3
  <2>3. CASE /\ form' = [form EXCEPT ![o][f] = b]
             /\ ~calling[h].known /\ chosen' = [chosen EXCEPT ![o][f] = FALSE]
    <3>1. b = FALSE
      BY <2>3 DEF FormKept
    <3> HIDE DEF o, f, b
    <3> QED
      BY <1>1, <2>3, <3>1, ChoiceKept
  <2> QED
    BY <1>3, <2>1, <2>2, <2>3
<1>5. CallInv' /\ FormInv'
  BY <1>1, <1>2, <1>4, Turn, TurnForms DEF Underway
<1>6. MetaTypeOK' /\ StoreInv' /\ PageInv'
  BY <1>1, <1>4, <1>5 DEF MInv, MetaTypeOK, StoreInv, PageInv, CallInv
<1> QED
  BY <1>4, <1>5, <1>6 DEF MInv

\* Purged entries are entries.
LEMMA PurgedStore ==
    ASSUME MInv
    PROVE  /\ Purged(issued) \in [States -> [owner : Owners, old : BOOLEAN] \cup {None}]
           /\ \A s \in States : Purged(issued)[s] \in {issued[s], None}
  BY DEF MInv, StoreInv, Purged

\* A state is drawn for an account.
LEMMA ConnectUrlStep == ASSUME MInv, ConnectUrl PROVE MInv'
<1>1. PICK o \in Owners, s \in States \ drawn :
          /\ issued' = [Purged(issued) EXCEPT ![s] = [owner |-> o, old |-> FALSE]]
          /\ drawn' = drawn \cup {s} /\ bearers' = [bearers EXCEPT ![s] = <<o>>]
  BY DEF ConnectUrl, AnyOf
<1>2. UNCHANGED <<link, page, form, chosen, cutOff, calling>>
  BY DEF ConnectUrl, rows
<1>3. /\ issued' \in [States -> [owner : Owners, old : BOOLEAN] \cup {None}]
      /\ \A t \in States \ {s} : issued'[t] \in {issued[t], None}
      /\ issued'[s] # None => issued'[s].owner = o
  BY <1>1, PurgedStore
<1>4. StoreInv'
  <2>1. /\ bearers' \in [States -> Seq(Owners)] /\ bearers'[s] = <<o>>
        /\ \A t \in States \ {s} : bearers'[t] = bearers[t]
    BY <1>1 DEF MInv, StoreInv
  <2> QED
    BY <1>1, <1>3, <2>1 DEF MInv, StoreInv
<1>5. MetaTypeOK'
  BY <1>1, <1>2, <1>3 DEF MInv, MetaTypeOK
<1> QED
  BY <1>2, <1>4, <1>5 DEF MInv, CallInv, PageInv, FormInv, ChosenInv, Unlinking, CallingBack

\* An entry grows old.
LEMMA StateExpiresStep == ASSUME MInv, StateExpires PROVE MInv'
<1>1. PICK s \in States : issued[s] # None /\ issued' = [issued EXCEPT ![s].old = TRUE]
  BY DEF StateExpires
<1>2. UNCHANGED <<link, page, form, chosen, cutOff, calling, bearers, drawn>>
  BY DEF StateExpires, rows
<1>3. /\ issued' \in [States -> [owner : Owners, old : BOOLEAN] \cup {None}]
      /\ \A t \in States \ {s} : issued'[t] = issued[t]
  BY <1>1 DEF MInv, StoreInv
<1>4. StoreInv'
  BY <1>1, <1>2, <1>3 DEF MInv, StoreInv
<1>5. MetaTypeOK'
  BY <1>1, <1>2, <1>3 DEF MInv, MetaTypeOK
<1> QED
  BY <1>2, <1>4, <1>5 DEF MInv, CallInv, PageInv, FormInv, ChosenInv, Unlinking, CallingBack

\* A form is chosen or left out.
LEMMA SetFormLinkedStep == ASSUME MInv, SetFormLinked PROVE MInv'
<1>1. PICK o \in Owners, f \in FbForms, b \in BOOLEAN :
          /\ form[o][f] # None
          /\ form' = [form EXCEPT ![o][f] = b] /\ chosen' = [chosen EXCEPT ![o][f] = b]
  BY DEF SetFormLinked
<1>2. UNCHANGED <<issued, bearers, drawn, link, page, calling, cutOff>>
  BY DEF SetFormLinked
<1>3. /\ form' \in [Owners -> [FbForms -> BOOLEAN \cup {None}]] /\ ChosenInv'
      /\ \A x \in Owners \ {o} : form'[x] = form[x]
  BY <1>1, ChoiceKept
<1>4. FormInv'
  BY <1>1, <1>2, <1>3 DEF MInv, FormInv, Unlinking, CallingBack
<1>5. MetaTypeOK' /\ CallInv' /\ StoreInv' /\ PageInv'
  BY <1>2, <1>3 DEF MInv, MetaTypeOK, CallInv, StoreInv, PageInv
<1> QED
  BY <1>3, <1>4, <1>5 DEF MInv

\* What an account adds to those that a state was drawn for or passed for.
LEMMA Borne ==
    ASSUME NEW b \in Seq(Owners), NEW o \in Owners
    PROVE  LET t == Append(b, o)
           IN  /\ t \in Seq(Owners) /\ Len(t) = Len(b) + 1 /\ t[Len(t)] = o
               /\ DOMAIN t = 1 .. Len(b) + 1
               /\ \A i \in 1 .. Len(b) : t[i] = b[i]
OBVIOUS

\* An account that passes with its own state.
LEMMA Bears ==
    ASSUME NEW b \in Seq(Owners), NEW o \in Owners, Len(b) = 1, b[1] = o
    PROVE  /\ Append(b, o) \in Seq(Owners) /\ Len(Append(b, o)) = 2
           /\ \A i \in DOMAIN Append(b, o) : Append(b, o)[i] = o
<1> DEFINE t == Append(b, o)
<1>1. /\ t \in Seq(Owners) /\ Len(t) = Len(b) + 1 /\ t[Len(t)] = o
      /\ DOMAIN t = 1 .. Len(b) + 1
      /\ \A i \in 1 .. Len(b) : t[i] = b[i]
  BY Borne
<1> HIDE DEF t
<1>2. Len(t) = 2 /\ DOMAIN t = 1 .. 2 /\ t[1] = o /\ t[2] = o
  BY <1>1
<1>3. \A i \in DOMAIN t : t[i] = o
  BY <1>2
<1> QED
  BY <1>1, <1>2, <1>3 DEF t

\* A state lets one callback through, of its account.
LEMMA CallbackStep == ASSUME MInv, NEW h \in Handlers, Callback(h) PROVE MInv'
<1>1. PICK o \in Owners, s \in States :
          /\ issued' = Consumed(s)
          /\ IF Passes(s, o)
             THEN /\ Now(h, [Quiet EXCEPT !.pc = "exchange", !.owner = o])
                  /\ bearers' = [bearers EXCEPT ![s] = Append(bearers[s], o)]
                  /\ cutOff' = IF Unlinking(o) THEN cutOff \cup {o} ELSE cutOff
             ELSE UNCHANGED <<calling, bearers, cutOff>>
  BY DEF Callback
<1>2. /\ UNCHANGED <<link, page, form, chosen, drawn>> /\ calling[h].pc = "idle"
      /\ calling[h].owner = None
  BY DEF Callback, AtMeta, MInv, CallInv
<1>3. /\ issued' \in [States -> [owner : Owners, old : BOOLEAN] \cup {None}] /\ issued'[s] = None
      /\ \A t \in States \ {s} : issued'[t] \in {issued[t], None}
  BY <1>1, PurgedStore DEF Consumed
<1>4. CASE UNCHANGED <<calling, bearers, cutOff>>
  <2>1. StoreInv' /\ MetaTypeOK'
    BY <1>2, <1>3, <1>4 DEF MInv, StoreInv, MetaTypeOK
  <2> QED
    BY <1>2, <1>4, <2>1 DEF MInv, CallInv, PageInv, FormInv, ChosenInv, Unlinking,
       CallingBack
<1>5. CASE /\ issued[s] # None /\ issued[s].owner = o
           /\ Now(h, [Quiet EXCEPT !.pc = "exchange", !.owner = o])
           /\ bearers' = [bearers EXCEPT ![s] = Append(bearers[s], o)]
           /\ cutOff' = IF Unlinking(o) THEN cutOff \cup {o} ELSE cutOff
  <2>1. /\ calling'[h].owner = o /\ calling'[h].pc = "exchange"
        /\ DOMAIN calling'[h] = DOMAIN Quiet
        /\ \A g \in Handlers \ {h} : calling'[g] = calling[g]
        /\ calling' = [g \in Handlers |-> calling'[g]]
    BY <1>5 DEF Now, Quiet, MInv, CallInv
  <2>2. CallInv'
    BY <2>1, MetaAssumption DEF MInv, CallInv, Quiet
  <2>3. /\ bearers[s] \in Seq(Owners) /\ Len(bearers[s]) = 1 /\ bearers[s][1] = o
        /\ s \in drawn /\ bearers \in [States -> Seq(Owners)]
    BY <1>5 DEF MInv, StoreInv
  <2>4. /\ bearers' \in [States -> Seq(Owners)] /\ Len(bearers'[s]) = 2
        /\ \A i \in DOMAIN bearers'[s] : bearers'[s][i] = o
        /\ \A t \in States \ {s} : bearers'[t] = bearers[t]
    <3> DEFINE carried == Append(bearers[s], o)
    <3>1. /\ carried \in Seq(Owners) /\ Len(carried) = 2
          /\ \A i \in DOMAIN carried : carried[i] = o
      BY <2>3, Bears
    <3>2. bearers' = [bearers EXCEPT ![s] = carried]
      BY <1>5
    <3> HIDE DEF carried
    <3> QED
      BY <2>3, <3>1, <3>2
  <2>5. StoreInv'
    <3> SUFFICES ASSUME NEW t \in States
                 PROVE  /\ t \notin drawn' => bearers'[t] = <<>> /\ issued'[t] = None
                        /\ issued'[t] # None => /\ Len(bearers'[t]) = 1
                                                /\ bearers'[t][1] = issued'[t].owner
                        /\ Len(bearers'[t]) <= 2
                        /\ \A i \in DOMAIN bearers'[t] : bearers'[t][i] = bearers'[t][1]
      BY <1>3, <2>4 DEF StoreInv
    <3>1. CASE t = s
      <4>1. t \in drawn' /\ issued'[t] = None
        BY <1>2, <1>3, <2>3, <3>1
      <4>2. PICK b \in Seq(Owners) : b = bearers'[s] /\ b = bearers'[t]
        BY <2>4, <3>1
      <4>3. Len(b) = 2 /\ \A i \in DOMAIN b : b[i] = o
        BY <2>4, <4>2
      <4>4. DOMAIN b = 1 .. 2
        BY <4>3
      <4>5. b[1] = o
        BY <4>3, <4>4
      <4> QED
        BY <4>1, <4>2, <4>3, <4>5
    <3>2. CASE t # s
      BY <1>2, <1>3, <2>4, <3>2 DEF MInv, StoreInv
    <3> QED
      BY <3>1, <3>2
  <2>6. MetaTypeOK'
    BY <1>2, <1>3, <1>5, <2>2 DEF MInv, MetaTypeOK, CallInv
  <2>7. FormInv'
    <3> SUFFICES ASSUME NEW x \in Owners, x \notin cutOff'
                 PROVE  /\ Unlinking(x)' => ~CallingBack(x)'
                        /\ Unlinking(x)' \/ link'[x] = None
                              => \A f \in FbForms : form'[x][f] = None
                        /\ \A g \in Handlers : /\ calling'[g].owner = x
                                               /\ calling'[g].pc \in Storing
                                               => link'[x] # None
      BY DEF FormInv, Unlinking, CallingBack
    <3>1. x \notin cutOff /\ (x = o => ~Unlinking(o))
      BY <1>5
    <3>2. Unlinking(x)' => Unlinking(x)
      BY <2>1 DEF Unlinking
    <3>3. x # o => (CallingBack(x)' => CallingBack(x))
      BY <2>1 DEF CallingBack
    <3>4. \A g \in Handlers : calling'[g].pc \in Storing => g # h
      BY <2>1 DEF Storing
    <3> QED
      BY <1>2, <2>1, <3>1, <3>2, <3>3, <3>4 DEF MInv, FormInv
  <2> QED
    BY <1>2, <2>2, <2>5, <2>6, <2>7 DEF MInv, PageInv, ChosenInv
<1> QED
  BY <1>1, <1>4, <1>5, PurgedStore DEF Passes

\* The forms of an account go; a callback of his that is under way is remembered.
LEMMA DropFormsStep == ASSUME MInv, NEW h \in Handlers, DropForms(h) PROVE MInv'
<1>1. UNCHANGED <<issued, bearers, drawn, link, page>> /\ calling[h].pc = "idle"
  BY DEF DropForms, AtMeta
<1>2. CASE UNCHANGED <<form, chosen, cutOff, calling>>
  <2>1. StoreInv'
    BY <1>1 DEF MInv, StoreInv
  <2>2. MetaTypeOK' /\ CallInv' /\ PageInv' /\ ChosenInv'
    BY <1>1, <1>2 DEF MInv, MetaTypeOK, CallInv, PageInv, ChosenInv
  <2>3. FormInv'
    BY <1>1, <1>2 DEF MInv, FormInv, Unlinking, CallingBack
  <2> QED
    BY <2>1, <2>2, <2>3 DEF MInv
<1>3. ASSUME NEW o \in Owners,
             form' = [form EXCEPT ![o] = [f \in FbForms |-> None]],
             chosen' = [chosen EXCEPT ![o] = [f \in FbForms |-> None]],
             cutOff' = IF CallingBack(o) THEN cutOff \cup {o} ELSE cutOff,
             Now(h, [Quiet EXCEPT !.pc = "unlink", !.owner = o])
      PROVE  MInv'
  <2>1. /\ calling'[h].owner = o /\ calling'[h].pc = "unlink"
        /\ DOMAIN calling'[h] = DOMAIN Quiet
        /\ \A g \in Handlers \ {h} : calling'[g] = calling[g]
        /\ calling' = [g \in Handlers |-> calling'[g]]
    BY <1>3 DEF Now, Quiet, MInv, CallInv
  <2>2. CallInv'
    BY <2>1, MetaAssumption DEF MInv, CallInv, Quiet
  <2>3. /\ form' \in [Owners -> [FbForms -> BOOLEAN \cup {None}]]
        /\ \A f \in FbForms : form'[o][f] = None
        /\ \A x \in Owners \ {o} : form'[x] = form[x]
    BY <1>3 DEF MInv, MetaTypeOK
  <2>4. ChosenInv'
    BY <1>3 DEF MInv, MetaTypeOK, ChosenInv
  <2>5. MetaTypeOK'
    BY <1>1, <1>3, <2>2, <2>3 DEF MInv, MetaTypeOK, CallInv
  <2>6. FormInv'
    <3> SUFFICES ASSUME NEW x \in Owners, x \notin cutOff'
                 PROVE  /\ Unlinking(x)' => ~CallingBack(x)'
                        /\ Unlinking(x)' \/ link'[x] = None
                              => \A f \in FbForms : form'[x][f] = None
                        /\ \A g \in Handlers : /\ calling'[g].owner = x
                                               /\ calling'[g].pc \in Storing
                                               => link'[x] # None
      BY DEF FormInv, Unlinking, CallingBack
    <3>1. x \notin cutOff /\ (x = o => ~CallingBack(o))
      BY <1>3
    <3>2. CallingBack(x)' => CallingBack(x)
      BY <2>1 DEF CallingBack
    <3>3. x # o => (Unlinking(x)' => Unlinking(x))
      BY <2>1 DEF Unlinking
    <3>4. \A g \in Handlers : calling'[g].pc \in Storing => g # h
      BY <2>1 DEF Storing
    <3> QED
      BY <1>1, <2>1, <2>3, <3>1, <3>2, <3>3, <3>4 DEF MInv, FormInv
  <2> QED
    BY <1>1, <2>2, <2>4, <2>5, <2>6 DEF MInv, StoreInv, PageInv
<1> QED
  BY <1>2, <1>3 DEF DropForms

\* The connection goes with its pages.
LEMMA DropLinkStep == ASSUME MInv, NEW h \in Handlers, DropLink(h) PROVE MInv'
<1> DEFINE o == calling[h].owner
<1>1. /\ UNCHANGED <<issued, bearers, drawn, form, chosen>> /\ calling[h].pc = "unlink"
      /\ o \in Owners /\ Now(h, Quiet)
  BY DEF DropLink, AtMeta, Quits, MInv, CallInv
<1>2. /\ calling'[h] = Quiet
      /\ \A g \in Handlers \ {h} : calling'[g] = calling[g]
      /\ calling' = [g \in Handlers |-> calling'[g]]
  BY <1>1 DEF Now, MInv, CallInv
<1>3. CallInv'
  BY <1>2 DEF MInv, CallInv, Quiet
<1>4. \/ UNCHANGED <<link, page, cutOff>>
      \/ /\ link' = [link EXCEPT ![o] = None] /\ page' = PagesAfter(o)
         /\ cutOff' = IF CallingBack(o) THEN cutOff \cup {o} ELSE cutOff
  BY DEF DropLink
<1>5. /\ link' \in [Owners -> Links \cup {None}]
      /\ page' \in [Owners -> [FbPages -> Links \cup {None}]]
      /\ PageInv' /\ cutOff' \subseteq Owners
      /\ \A x \in Owners \ {o} : link'[x] = link[x]
  <2>1. CASE UNCHANGED <<link, page, cutOff>>
    BY <2>1 DEF MInv, MetaTypeOK, PageInv
  <2>2. CASE /\ link' = [link EXCEPT ![o] = None] /\ page' = PagesAfter(o)
             /\ cutOff' = IF CallingBack(o) THEN cutOff \cup {o} ELSE cutOff
    <3> HIDE DEF o
    <3>1. /\ link' \in [Owners -> Links \cup {None}] /\ link'[o] = None
          /\ \A x \in Owners \ {o} : link'[x] = link[x]
      BY <1>1, <2>2 DEF MInv, MetaTypeOK
    <3>2. /\ page' \in [Owners -> [FbPages -> Links \cup {None}]]
          /\ \A p \in FbPages : page'[o][p] = None
          /\ \A x \in Owners \ {o} : page'[x] = page[x]
      BY <1>1, <2>2 DEF MInv, MetaTypeOK, PagesAfter
    <3>3. PageInv'
      BY <3>1, <3>2 DEF MInv, PageInv
    <3>4. cutOff' \subseteq Owners
      BY <1>1, <2>2 DEF MInv, MetaTypeOK
    <3> QED
      BY <3>1, <3>2, <3>3, <3>4
  <2> QED
    BY <1>4, <2>1, <2>2
<1>6. FormInv'
  <2> SUFFICES ASSUME NEW x \in Owners, x \notin cutOff'
               PROVE  /\ Unlinking(x)' => ~CallingBack(x)'
                      /\ Unlinking(x)' \/ link'[x] = None
                            => \A f \in FbForms : form'[x][f] = None
                      /\ \A g \in Handlers : /\ calling'[g].owner = x
                                             /\ calling'[g].pc \in Storing
                                             => link'[x] # None
    BY DEF FormInv, Unlinking, CallingBack
  <2>1. x \notin cutOff
    BY <1>4
  <2>2. /\ CallingBack(x)' => CallingBack(x)
        /\ Unlinking(x)' => Unlinking(x)
    BY <1>2, MetaAssumption DEF CallingBack, Unlinking, Quiet
  <2>3. x = o => Unlinking(x)
    BY <1>1 DEF Unlinking
  <2>4. \A g \in Handlers : calling'[g].owner = x /\ calling'[g].pc \in Storing
            => g # h /\ CallingBack(x)
    BY <1>2 DEF Storing, Quiet, CallingBack
  <2> HIDE DEF o
  <2> QED
    BY <1>1, <1>2, <1>5, <2>1, <2>2, <2>3, <2>4 DEF MInv, FormInv
<1>7. MetaTypeOK'
  BY <1>1, <1>3, <1>5 DEF MInv, MetaTypeOK, CallInv
<1> QED
  BY <1>1, <1>3, <1>5, <1>6, <1>7 DEF MInv, StoreInv, ChosenInv

\* A restart leaves the rows.
LEMMA RestartStep == ASSUME MInv, Restart PROVE MInv'
<1>1. /\ \A s \in States : issued'[s] = None
      /\ issued' \in [States -> [owner : Owners, old : BOOLEAN] \cup {None}]
      /\ \A h \in Handlers : calling'[h] = Quiet
      /\ calling' = [h \in Handlers |-> calling'[h]]
      /\ UNCHANGED <<bearers, drawn, link, page, form, chosen, cutOff>>
  BY DEF Restart, rows
<1>2. CallInv'
  BY <1>1 DEF CallInv, Quiet
<1>3. StoreInv'
  BY <1>1 DEF MInv, StoreInv
<1>4. MetaTypeOK'
  BY <1>1, <1>2 DEF MInv, MetaTypeOK, CallInv
<1>5. FormInv'
  BY <1>1, MetaAssumption DEF MInv, FormInv, Unlinking, CallingBack, Quiet, Storing
<1> QED
  BY <1>1, <1>2, <1>3, <1>4, <1>5 DEF MInv, PageInv, ChosenInv

\* Every step of the connections preserves the invariant.
LEMMA NextMInv == ASSUME MInv, [MetaNext]_<<metaVars, counters>> PROVE MInv'
<1>1. ASSUME NEW h \in Handlers, \/ Callback(h) \/ Exchange(h) \/ FindLink(h) \/ WriteLink(h)
                                 \/ ListPages(h) \/ FindPage(h) \/ WritePage(h) \/ ListForms(h)
                                 \/ FindForm(h) \/ WriteForm(h) \/ DropForms(h) \/ DropLink(h)
      PROVE  MInv'
  BY <1>1, CallbackStep, ReadSteps, WriteLinkStep, WritePageStep, WriteFormStep,
     DropFormsStep, DropLinkStep
<1>2. CASE ConnectUrl \/ StateExpires \/ SetFormLinked \/ Restart
  BY <1>2, ConnectUrlStep, StateExpiresStep, SetFormLinkedStep, RestartStep
<1>3. CASE UNCHANGED <<metaVars, counters>>
  BY <1>3 DEF metaVars, MInv, MetaTypeOK, CallInv, StoreInv, PageInv, FormInv, ChosenInv,
     Unlinking, CallingBack
<1> QED
  BY <1>1, <1>2, <1>3 DEF MetaNext

\* States, connections, pages, forms and the requests about them keep their types.
THEOREM MetaTyped == MetaSpec => []MetaTypeOK
<1>1. MInv => MetaTypeOK
  BY DEF MInv
<1> QED
  BY <1>1, InitMInv, NextMInv, PTL DEF MetaSpec

\* The invariant has the forms of a connection.
LEMMA FormsKept == MInv => FormsFollowConnection
<1> SUFFICES ASSUME MInv PROVE FormsFollowConnection
  OBVIOUS
<1>1. \A o \in Owners : form[o] = chosen[o]
  BY DEF MInv, MetaTypeOK, ChosenInv
<1>2. ASSUME NEW s \in States
      PROVE  /\ bearers[s] # <<>> => s \in drawn
             /\ Len(bearers[s]) <= 2
             /\ \A i \in DOMAIN bearers[s] : bearers[s][i] = bearers[s][1]
  BY DEF MInv, StoreInv
<1> QED
  BY <1>1, <1>2 DEF MInv, PageInv, FormInv, FormsFollowConnection

\* The connection of portal-meta.service.ts: an OAuth state lets one callback through,
\* of the account it was drawn for, pages belong to the connection their account has now, a
\* disconnected account keeps no form unless the disconnection crossed a callback, and a
\* reconnection keeps what was chosen for each form, whatever fails and however callbacks and
\* disconnections interleave.
THEOREM ConnectionFollowed == MetaSpec => []FormsFollowConnection
BY FormsKept, InitMInv, NextMInv, PTL DEF MetaSpec

----------------------------------------------------------------------------
(* The board: its rows *)

BoardPcs  == {"idle", "own", "pipe", "write", "tell", "task", "status", "remove", "pipeline",
              "look", "member"}
LeadOps   == {"lead", "stage_change", "owner_change", "note", "reminder"}
BoardOps  == LeadOps \cup {"task", "add", "edit", "remove", "status", "remind", "pipeline",
                           "none"}
Mailboxes == {MailOf[d] : d \in Clients}
Targets   == LeadStages \cup OwnerNames \cup TaskStatuses \cup {None}
Entries   == [kind : LeadOps, client : Clients, from : LeadStages \cup {None}, to : Targets]
Requests  == [pc : BoardPcs, op : BoardOps, client : Clients \cup {None},
              lead : PortalLeads \cup {None}, pipe : Pipelines \cup {None}, to : Targets,
              from : LeadStages \cup {None},
              row : Pipelines \cup PortalLeads \cup Members \cup PortalTasks \cup {None},
              mail : Mailboxes \cup {None}]

PipelineType == pipeline \in [Pipelines -> Clients \cup {None, Gone}]
LeadType     == portalLead \in [PortalLeads -> [client : Clients \cup {None, Gone},
                                                pipe : Pipelines \cup {None},
                                                stage : LeadStages,
                                                owner : OwnerNames \cup {None}]]
StoryType    == story \in [PortalLeads -> Seq(Entries)]
TaskType     == portalTask \in [PortalTasks -> [client : Clients \cup {None},
                                                lead : PortalLeads \cup {None},
                                                pipe : Pipelines \cup {None},
                                                status : TaskStatuses,
                                                late : BOOLEAN]]
MemberType   == member \in [Members -> [client : Clients \cup {None, Gone},
                                        email : Mailboxes \cup {None},
                                        name : OwnerNames \cup {None}]]
AskType      == active \subseteq Clients /\ asking \in [Handlers -> Requests]

\* A lead that is not there yet, or no longer, has no timeline and no pipeline.
EmptyInv == \A l \in PortalLeads : ~Alive(l) => story[l] = <<>> /\ portalLead[l].pipe = None

\* Nothing of one client refers to another's, table by table.
LeadsApart == \A l \in PortalLeads : portalLead[l].pipe # None =>
                  pipeline[portalLead[l].pipe] = portalLead[l].client
TalesApart == \A l \in PortalLeads : \A i \in DOMAIN story[l] :
                  story[l][i].client = portalLead[l].client
TasksApart == \A t \in PortalTasks :
                  /\ portalTask[t].client \notin Clients =>
                        portalTask[t].lead = None /\ portalTask[t].pipe = None
                  /\ portalTask[t].lead # None =>
                        portalLead[portalTask[t].lead].client = portalTask[t].client
                  /\ portalTask[t].pipe # None =>
                        pipeline[portalTask[t].pipe] = portalTask[t].client
TeamApart  == \A m \in Members : member[m].client \in Clients =>
                  /\ member[m].email # MailOf[member[m].client]
                  /\ \A n \in Members \ {m} : member[n].client = member[m].client
                                                => member[n].email # member[m].email

RowsInv == /\ PipelineType /\ LeadType /\ StoryType /\ TaskType /\ MemberType
           /\ EmptyInv /\ LeadsApart /\ TalesApart /\ TasksApart /\ TeamApart

----------------------------------------------------------------------------
(* The board: what its requests hold *)

\* Where a request is, and what it carries there.
FlowOK(r) ==
    /\ r.pc = "idle" => r.op = "none"
    /\ r.pc # "idle" => r.client \in Clients
    /\ r.pc \in {"own", "pipe", "write", "tell", "task"} => r.lead \in PortalLeads
    /\ r.pc = "own" => r.op \in {"stage_change", "owner_change", "note", "reminder", "task"}
    /\ r.pc = "pipe" => r.op \in {"lead", "task"} /\ r.pipe \in Pipelines
    /\ r.pc = "write" => r.op \in {"lead", "stage_change", "owner_change", "note"}
    /\ r.pc = "tell" => r.op \in LeadOps
    /\ r.pc = "task" => r.op \in {"lead", "reminder", "task"}
    /\ r.op \in {"lead", "task"} => r.pipe \in Pipelines
    /\ r.op \in {"stage_change", "owner_change", "note"} => r.pipe = None
    /\ r.op = "stage_change" => r.to \in LeadStages
    /\ r.op = "owner_change" => r.to \in OwnerNames \cup {None}
    /\ r.pc \in {"look", "member"} =>
          /\ r.op \in {"add", "edit"} /\ r.row \in Members /\ r.to \in OwnerNames
          /\ r.mail \in Mailboxes \ {MailOf[r.client]}
    /\ r.pc = "status" => r.row \in PortalTasks /\ r.to \in TaskStatuses
    /\ r.pc = "pipeline" => r.op = "pipeline" /\ r.row \in Pipelines

\* A lead or a pipeline whose ownership was read is still the client's, or gone.
HoldsLead(r) == \/ r.pc \in {"tell", "task"}
                \/ r.pc = "write" /\ r.op # "lead"
                \/ r.pc = "pipe" /\ r.op = "task"
HoldsPipe(r) == r.pc \in {"write", "tell", "task"} /\ r.pipe # None
HoldOK(r)    == /\ HoldsLead(r) => portalLead[r.lead].client \in {r.client, Gone}
                /\ HoldsPipe(r) => pipeline[r.pipe] \in {r.client, Gone}

\* An id that was drawn is not in use yet, and nobody else drew it.
Drawing(r) == r.op = "lead" /\ r.pc \in {"pipe", "write"}

FlowInv == \A h \in Handlers : FlowOK(asking[h])
HoldInv == \A h \in Handlers : HoldOK(asking[h])
FreshInv ==
    \A h \in Handlers :
        /\ Drawing(asking[h]) =>
              /\ portalLead[asking[h].lead].client = None
              /\ \A g \in Handlers \ {h} : asking[g].op = "lead" => asking[g].lead # asking[h].lead
        /\ asking[h].pc = "pipeline" =>
              /\ pipeline[asking[h].row] = None
              /\ \A g \in Handlers \ {h} :
                    asking[g].pc = "pipeline" => asking[g].row # asking[h].row

AskInv == AskType /\ FlowInv /\ HoldInv /\ FreshInv

BInv == RowsInv /\ AskInv

\* No row is there but pipelines of the clients; no request is under way.
LEMMA InitBInv == BoardInit => BInv
<1> SUFFICES ASSUME BoardInit PROVE BInv
  OBVIOUS
<1> USE BoardAssumption
<1>1. \A h \in Handlers : asking[h] = Rest
  BY DEF BoardInit
<1>2. AskType
  <2>1. Rest \in Requests
    BY DEF Rest, Requests, BoardPcs, BoardOps, Targets
  <2> QED
    BY <2>1 DEF BoardInit, AskType
<1>3. FlowInv
  BY <1>1 DEF FlowInv, FlowOK, Rest
<1>4. HoldInv /\ FreshInv
  BY <1>1 DEF HoldInv, HoldOK, HoldsLead, HoldsPipe, FreshInv, Drawing, Rest
<1>5. PipelineType /\ LeadType /\ StoryType /\ TaskType /\ MemberType
  BY DEF BoardInit, PipelineType, LeadType, StoryType, TaskType, MemberType, NoPortalLead,
     NoTask, TaskStatuses, NoMember, Gone
<1>6. EmptyInv /\ LeadsApart /\ TasksApart
  BY DEF BoardInit, EmptyInv, LeadsApart, TasksApart, NoPortalLead, NoTask
<1>7. TalesApart /\ TeamApart
  BY DEF BoardInit, TalesApart, TeamApart, NoMember
<1> QED
  BY <1>2, <1>3, <1>4, <1>5, <1>6, <1>7 DEF BInv, RowsInv, AskInv

\* A request that ends, or goes on for its client, leaves what the others hold as it is,
\* whatever rows go meanwhile; a row that comes has the id this request drew.
LEMMA ClaimsKept ==
    ASSUME BInv, NEW h \in Handlers, NEW r \in Requests, asking' = [asking EXCEPT ![h] = r],
           active' = active,
           \/ r = Rest
           \/ /\ r.op = asking[h].op /\ r.lead = asking[h].lead /\ r.row = asking[h].row
              /\ Drawing(r) => Drawing(asking[h])
              /\ r.pc = "pipeline" => asking[h].pc = "pipeline",
           FlowOK(r), HoldOK(r)',
           \A l \in PortalLeads :
              /\ portalLead[l].client # None =>
                    portalLead'[l].client \in {portalLead[l].client, Gone}
              /\ portalLead[l].client = None =>
                    \/ portalLead'[l].client = None
                    \/ asking[h].op = "lead" /\ asking[h].lead = l /\ ~Drawing(r),
           \A p \in Pipelines :
              /\ pipeline[p] # None => pipeline'[p] \in {pipeline[p], Gone}
              /\ pipeline[p] = None =>
                    \/ pipeline'[p] = None
                    \/ asking[h].pc = "pipeline" /\ asking[h].row = p /\ r.pc # "pipeline"
    PROVE  AskInv'
<1>1. /\ asking' \in [Handlers -> Requests] /\ asking'[h] = r
      /\ \A g \in Handlers \ {h} : asking'[g] = asking[g]
  BY DEF BInv, AskInv, AskType
<1>2. AskType' /\ FlowInv'
  BY <1>1 DEF BInv, AskInv, AskType, FlowInv
<1>3. ASSUME NEW g \in Handlers \ {h} PROVE HoldOK(asking[g])'
  <2>1. /\ asking[g] \in Requests /\ FlowOK(asking[g]) /\ HoldOK(asking[g])
        /\ asking'[g] = asking[g]
    BY <1>1, <1>3 DEF BInv, AskInv, AskType, FlowInv, HoldInv
  <2>2. HoldsLead(asking[g]) => asking[g].lead \in PortalLeads /\ asking[g].client \in Clients
    BY <2>1 DEF FlowOK, HoldsLead
  <2>3. HoldsPipe(asking[g]) => asking[g].pipe \in Pipelines /\ asking[g].client \in Clients
    BY <2>1 DEF FlowOK, HoldsPipe, Requests
  <2>4. HoldsLead(asking[g]) => portalLead'[asking[g].lead].client \in {asking[g].client, Gone}
    BY <2>1, <2>2, BoardAssumption DEF HoldOK, Gone
  <2>5. HoldsPipe(asking[g]) => pipeline'[asking[g].pipe] \in {asking[g].client, Gone}
    BY <2>1, <2>3, BoardAssumption DEF HoldOK, Gone
  <2> QED
    BY <2>1, <2>4, <2>5 DEF HoldOK, HoldsLead, HoldsPipe
<1>4. HoldInv'
  BY <1>1, <1>3 DEF HoldInv, HoldOK, HoldsLead, HoldsPipe
<1>5. FreshInv'
  <2>1. ASSUME NEW g \in Handlers, Drawing(asking'[g])
        PROVE  /\ portalLead'[asking'[g].lead].client = None
               /\ \A k \in Handlers \ {g} :
                     asking'[k].op = "lead" => asking'[k].lead # asking'[g].lead
    <3>1. Drawing(asking[g]) /\ asking'[g].lead = asking[g].lead
      BY <1>1, <2>1 DEF Drawing, Rest
    <3>2. /\ portalLead[asking[g].lead].client = None /\ asking[g].lead \in PortalLeads
          /\ \A k \in Handlers \ {g} : asking[k].op = "lead" => asking[k].lead # asking[g].lead
      BY <3>1 DEF BInv, AskInv, FreshInv, FlowInv, FlowOK, Drawing
    <3>3. portalLead'[asking[g].lead].client = None
      BY <1>1, <2>1, <3>1, <3>2 DEF Drawing
    <3>4. \A k \in Handlers : asking'[k].op = "lead" =>
              asking[k].op = "lead" /\ asking'[k].lead = asking[k].lead
      BY <1>1 DEF Rest
    <3> QED
      BY <3>1, <3>2, <3>3, <3>4
  <2>2. ASSUME NEW g \in Handlers, asking'[g].pc = "pipeline"
        PROVE  /\ pipeline'[asking'[g].row] = None
               /\ \A k \in Handlers \ {g} :
                     asking'[k].pc = "pipeline" => asking'[k].row # asking'[g].row
    <3>1. asking[g].pc = "pipeline" /\ asking'[g].row = asking[g].row
      BY <1>1, <2>2 DEF Rest
    <3>2. /\ pipeline[asking[g].row] = None /\ asking[g].row \in Pipelines
          /\ \A k \in Handlers \ {g} : asking[k].pc = "pipeline" => asking[k].row # asking[g].row
      BY <3>1 DEF BInv, AskInv, FreshInv, FlowInv, FlowOK
    <3>3. pipeline'[asking[g].row] = None
      BY <1>1, <2>2, <3>1, <3>2
    <3>4. \A k \in Handlers : asking'[k].pc = "pipeline" =>
              asking[k].pc = "pipeline" /\ asking'[k].row = asking[k].row
      BY <1>1 DEF Rest
    <3> QED
      BY <3>1, <3>2, <3>3, <3>4
  <2> QED
    BY <2>1, <2>2 DEF FreshInv, Drawing
<1> QED
  BY <1>2, <1>4, <1>5 DEF AskInv

----------------------------------------------------------------------------
(* The board: each action preserves it *)

\* What is known of a request.
LEMMA Holding ==
    ASSUME BInv, NEW h \in Handlers
    PROVE  asking[h] \in Requests /\ FlowOK(asking[h]) /\ HoldOK(asking[h])
BY DEF BInv, AskInv, AskType, FlowInv, HoldInv

\* A request at rest holds nothing.
LEMMA RestHolds ==
    /\ Rest \in Requests /\ FlowOK(Rest) /\ ~HoldsLead(Rest) /\ ~HoldsPipe(Rest) /\ ~Drawing(Rest)
    /\ Rest.pc = "idle"
BY DEF Rest, Requests, BoardPcs, BoardOps, Targets, FlowOK, HoldsLead, HoldsPipe, Drawing

\* A request that changed no row of the properties.
LEMMA RowsSame ==
    ASSUME BInv, UNCHANGED <<pipeline, portalLead, story, portalTask, member>>
    PROVE  RowsInv'
BY DEF BInv, RowsInv, PipelineType, LeadType, StoryType, TaskType, MemberType, EmptyInv,
   Alive,
       LeadsApart, TalesApart, TasksApart, TeamApart

\* A request that ends, whatever leads and pipelines go meanwhile, or the pipeline it drew comes.
LEMMA RequestEnds ==
    ASSUME BInv, NEW h \in Handlers, Leave(h), active' = active,
           \A l \in PortalLeads :
              /\ portalLead[l].client # None =>
                    portalLead'[l].client \in {portalLead[l].client, Gone}
              /\ portalLead[l].client = None => portalLead'[l].client = None,
           \A p \in Pipelines :
              /\ pipeline[p] # None => pipeline'[p] \in {pipeline[p], Gone}
              /\ pipeline[p] = None =>
                    \/ pipeline'[p] = None
                    \/ asking[h].pc = "pipeline" /\ asking[h].row = p
    PROVE  AskInv'
<1>1. HoldOK(Rest)'
  BY RestHolds DEF HoldOK, HoldsLead, HoldsPipe
<1>2. asking' = [asking EXCEPT ![h] = Rest] /\ Rest.pc # "pipeline"
  BY RestHolds DEF Leave
<1> QED
  BY <1>1, <1>2, RestHolds, ClaimsKept

\* A request that goes on and changed neither the client of a lead nor a pipeline.
LEMMA GoesOn ==
    ASSUME BInv, NEW h \in Handlers, NEW r \in Requests, asking' = [asking EXCEPT ![h] = r],
           active' = active,
           r.op = asking[h].op, r.lead = asking[h].lead, r.row = asking[h].row,
           Drawing(r) => Drawing(asking[h]), r.pc # "pipeline",
           FlowOK(r), HoldOK(r), pipeline' = pipeline,
           \A l \in PortalLeads : portalLead'[l].client = portalLead[l].client
    PROVE  AskInv'
<1>1. HoldOK(r)'
  BY DEF HoldOK, HoldsLead, HoldsPipe, FlowOK
<1> QED
  BY <1>1, ClaimsKept

\* What a request may ask.
LEMMA AskedOK ==
    ASSUME NEW h \in Handlers, NEW c \in Clients, Asked(h, c)
    PROVE  \E r : /\ Asks(h, r)
                  /\ r \in Requests /\ FlowOK(r) /\ ~HoldsLead(r) /\ ~HoldsPipe(r)
                  /\ r.pc \notin {"write", "tell", "task"}
                  /\ r.op = "lead" =>
                        r.lead \in Fresh({x \in PortalLeads : portalLead[x].client = None})
                  /\ r.pc = "pipeline" => r.row \in Fresh({x \in Pipelines : pipeline[x] = None})
<1> DEFINE Good(q) ==
             /\ q \in Requests /\ FlowOK(q) /\ ~HoldsLead(q) /\ ~HoldsPipe(q)
             /\ q.pc \notin {"write", "tell", "task"}
             /\ q.op = "lead" => q.lead \in Fresh({x \in PortalLeads : portalLead[x].client = None})
             /\ q.pc = "pipeline" => q.row \in Fresh({x \in Pipelines : pipeline[x] = None})
<1> USE RestHolds
<1>0. \A S : Fresh(S) \subseteq S
  BY DEF Fresh, AnyOf
<1>1. ASSUME NEW l \in Fresh({x \in PortalLeads : portalLead[x].client = None}),
             NEW p \in Pipelines,
             NEW r, r = [Rest EXCEPT !.client = c, !.op = "lead", !.pc = "pipe", !.lead = l,
                               !.pipe = p]
      PROVE  Good(r)
  <2>1. l \in PortalLeads
    BY <1>0
  <2> QED
    BY <1>1, <2>1 DEF Requests, BoardOps, BoardPcs, LeadOps, FlowOK, HoldsLead, HoldsPipe,
       Rest
<1>2. ASSUME NEW l \in PortalLeads, NEW s \in LeadStages,
             NEW r, r = [Rest EXCEPT !.client = c, !.op = "stage_change", !.pc = "own",
                               !.lead = l, !.to = s]
      PROVE  Good(r)
  BY <1>2 DEF Requests, BoardOps, BoardPcs, LeadOps, Targets, FlowOK, HoldsLead, HoldsPipe,
     Rest
<1>3. ASSUME NEW l \in PortalLeads, NEW n \in OwnerNames \cup {None},
             NEW r, r = [Rest EXCEPT !.client = c, !.op = "owner_change", !.pc = "own",
                               !.lead = l, !.to = n]
      PROVE  Good(r)
  BY <1>3 DEF Requests, BoardOps, BoardPcs, LeadOps, Targets, FlowOK, HoldsLead, HoldsPipe,
     Rest
<1>4. ASSUME NEW l \in PortalLeads, NEW op \in {"note", "reminder"},
             NEW r, r = [Rest EXCEPT !.client = c, !.op = op, !.pc = "own", !.lead = l]
      PROVE  Good(r)
  BY <1>4 DEF Requests, BoardOps, BoardPcs, LeadOps, FlowOK, HoldsLead, HoldsPipe, Rest
<1>5. ASSUME NEW l \in PortalLeads, NEW p \in Pipelines,
             NEW r, r = [Rest EXCEPT !.client = c, !.op = "task", !.pc = "own", !.lead = l,
                               !.pipe = p]
      PROVE  Good(r)
  BY <1>5 DEF Requests, BoardOps, BoardPcs, FlowOK, HoldsLead, HoldsPipe, Rest
<1>6. ASSUME NEW m \in {x \in Members : member[x].client # None}
                          \cup Fresh({x \in Members : member[x].client = None}),
             NEW op \in {"add", "edit"}, NEW e \in Mailboxes \ {MailOf[c]}, NEW n \in OwnerNames,
             NEW r, r = [Rest EXCEPT !.client = c, !.op = op, !.pc = "look", !.row = m,
                              !.to = n, !.mail = e]
      PROVE  Good(r)
  <2>1. m \in Members
    BY <1>0
  <2> QED
    BY <1>6, <2>1 DEF Requests, BoardOps, BoardPcs, Targets, FlowOK, HoldsLead, HoldsPipe,
       Rest
<1>7. ASSUME NEW x \in Pipelines \cup PortalLeads \cup Members,
             NEW r, r = [Rest EXCEPT !.client = c, !.op = "remove", !.pc = "remove", !.row = x]
      PROVE  Good(r)
  BY <1>7 DEF Requests, BoardOps, BoardPcs, FlowOK, HoldsLead, HoldsPipe, Rest
<1>8. ASSUME NEW t \in PortalTasks, NEW s \in TaskStatuses,
             NEW r, r = [Rest EXCEPT !.client = c, !.op = "status", !.pc = "status", !.row = t,
                               !.to = s]
      PROVE  Good(r)
  BY <1>8 DEF Requests, BoardOps, BoardPcs, Targets, FlowOK, HoldsLead, HoldsPipe, Rest
<1>9. ASSUME NEW p \in Fresh({x \in Pipelines : pipeline[x] = None}),
             NEW r, r = [Rest EXCEPT !.client = c, !.op = "pipeline", !.pc = "pipeline", !.row = p]
      PROVE  Good(r)
  <2>1. p \in Pipelines
    BY <1>0
  <2> QED
    BY <1>9, <2>1 DEF Requests, BoardOps, BoardPcs, FlowOK, HoldsLead, HoldsPipe, Rest
<1>10. ASSUME NEW t \in PortalTasks,
              NEW r, r = [Rest EXCEPT !.client = c, !.op = "remind", !.pc = "status", !.row = t,
                                !.to = "pending"]
       PROVE  Good(r)
  BY <1>10 DEF Requests, BoardOps, BoardPcs, Targets, TaskStatuses, FlowOK, HoldsLead, HoldsPipe,
     Rest
<1> HIDE DEF Good
<1>11. \E r : Asks(h, r) /\ Good(r)
  BY <1>1, <1>2, <1>3, <1>4, <1>5, <1>6, <1>7, <1>8, <1>9, <1>10 DEF Asked, Mailboxes
<1> QED
  BY <1>11 DEF Good

\* An account that is in use asks for something.
LEMMA ValidateStep == ASSUME BInv, NEW h \in Handlers, Validate(h) PROVE BInv'
<1>1. PICK c \in Clients : Asked(h, c)
  BY DEF Validate, BInv, AskInv, AskType
<1>2. PICK r : /\ asking' = [asking EXCEPT ![h] = r]
               /\ r \in Requests /\ FlowOK(r) /\ ~HoldsLead(r) /\ ~HoldsPipe(r)
               /\ r.op = "lead" =>
                     r.lead \in Fresh({x \in PortalLeads : portalLead[x].client = None})
               /\ r.pc = "pipeline" => r.row \in Fresh({x \in Pipelines : pipeline[x] = None})
  BY <1>1, AskedOK DEF Asks
<1>3. UNCHANGED <<active, pipeline, portalLead, story, portalTask, member>>
  BY DEF Validate
<1>4. /\ asking' \in [Handlers -> Requests] /\ asking'[h] = r
      /\ \A g \in Handlers \ {h} : asking'[g] = asking[g]
  BY <1>2 DEF BInv, AskInv, AskType
<1>5. AskType' /\ FlowInv'
  BY <1>2, <1>3, <1>4 DEF BInv, AskInv, AskType, FlowInv
<1>6. HoldInv'
  BY <1>2, <1>3, <1>4 DEF BInv, AskInv, HoldInv, HoldOK, HoldsLead, HoldsPipe
<1>7. \A S : \A x \in Fresh(S) :
          x \in S /\ \A o \in Handlers : asking[o].row # x /\ asking[o].lead # x
  BY DEF Fresh, AnyOf
<1>8. FreshInv'
  <2>1. r.op = "lead" => /\ portalLead[r.lead].client = None
                         /\ \A o \in Handlers : asking[o].lead # r.lead
    BY <1>2, <1>7
  <2>2. r.pc = "pipeline" => /\ pipeline[r.row] = None
                             /\ \A o \in Handlers : asking[o].row # r.row
    BY <1>2, <1>7
  <2> QED
    BY <1>3, <1>4, <2>1, <2>2 DEF BInv, AskInv, FreshInv, Drawing
<1> QED
  BY <1>3, <1>5, <1>6, <1>8, RowsSame DEF BInv, AskInv

\* A lead of the client is turned to, with the pipeline it is in.
LEMMA AssertLeadStep == ASSUME BInv, NEW h \in Handlers, AssertLead(h) PROVE BInv'
<1>1. UNCHANGED <<active, pipeline, portalLead, story, portalTask, member>> /\ asking[h].pc = "own"
  BY DEF AssertLead
<1>2. CASE Leave(h)
  <2>1. AskInv'
    BY <1>1, <1>2, RequestEnds
  <2> QED
    BY <1>1, <2>1, RowsSame DEF BInv
<1>3. CASE /\ OwnsLead(asking[h])
           /\ asking' = [asking EXCEPT ![h] = [asking[h] EXCEPT
                 !.pc   = AfterOwned(asking[h]),
                 !.from = portalLead[asking[h].lead].stage,
                 !.pipe = IF asking[h].op = "reminder" THEN portalLead[asking[h].lead].pipe
                                                       ELSE asking[h].pipe]]
  <2> DEFINE q == asking[h]
             r == [q EXCEPT !.pc = AfterOwned(q), !.from = portalLead[q.lead].stage,
                            !.pipe = IF q.op = "reminder" THEN portalLead[q.lead].pipe ELSE q.pipe]
  <2>1. /\ q \in Requests /\ FlowOK(q) /\ q.lead \in PortalLeads /\ q.client \in Clients
        /\ q.op \in {"stage_change", "owner_change", "note", "reminder", "task"}
        /\ portalLead[q.lead].client = q.client
    BY <1>1, <1>3, Holding DEF FlowOK, OwnsLead
  <2>2. /\ portalLead[q.lead].stage \in LeadStages
        /\ portalLead[q.lead].pipe \in Pipelines \cup {None}
        /\ portalLead[q.lead].pipe # None => pipeline[portalLead[q.lead].pipe] = q.client
    BY <2>1 DEF BInv, RowsInv, LeadType, LeadsApart
  <2>3. AfterOwned(q) = CASE q.op \in {"stage_change", "owner_change", "note"} -> "write"
                          [] q.op = "reminder" -> "tell"
                          [] q.op = "task" -> "pipe"
    BY DEF AfterOwned
  <2>4. /\ q.op \in {"stage_change", "owner_change", "note"} => AfterOwned(q) = "write"
        /\ q.op = "reminder" => AfterOwned(q) = "tell"
        /\ q.op = "task" => AfterOwned(q) = "pipe"
    BY <2>1, <2>3
  <2>5. /\ r.pc = AfterOwned(q) /\ r.op = q.op /\ r.client = q.client /\ r.lead = q.lead
        /\ r.row = q.row /\ r.to = q.to /\ r.mail = q.mail
        /\ r.pipe = IF q.op = "reminder" THEN portalLead[q.lead].pipe ELSE q.pipe
    BY <2>1 DEF Requests
  <2>10. r \in Requests
    <3>1. AfterOwned(q) \in BoardPcs
      BY <2>1, <2>4 DEF BoardPcs
    <3>2. (IF q.op = "reminder" THEN portalLead[q.lead].pipe ELSE q.pipe) \in Pipelines \cup {None}
      BY <2>1, <2>2 DEF Requests
    <3> QED
      BY <2>1, <2>2, <3>1, <3>2 DEF Requests
  <2>6. asking' = [asking EXCEPT ![h] = r]
    BY <1>3
  <2> HIDE DEF q, r
  <2>7. FlowOK(r)
    BY <2>1, <2>4, <2>5 DEF FlowOK, LeadOps
  <2>8. HoldOK(r)
    BY <2>1, <2>2, <2>4, <2>5 DEF HoldOK, HoldsLead, HoldsPipe, FlowOK
  <2>9. AskInv'
    <3>1. ~Drawing(r) /\ r.pc # "pipeline"
      BY <2>1, <2>4, <2>5 DEF Drawing
    <3> QED
      BY <1>1, <2>5, <2>6, <2>7, <2>8, <2>10, <3>1, GoesOn DEF q
  <2> QED
    BY <1>1, <2>9, RowsSame DEF BInv
<1> QED
  BY <1>2, <1>3 DEF AssertLead

\* The pipeline of the client a lead or a task is made in.
LEMMA AssertPipelineStep == ASSUME BInv, NEW h \in Handlers, AssertPipeline(h) PROVE BInv'
<1>1. UNCHANGED <<active, pipeline, portalLead, story, portalTask, member>> /\ asking[h].pc = "pipe"
  BY DEF AssertPipeline
<1>2. CASE Leave(h)
  <2>1. AskInv'
    BY <1>1, <1>2, RequestEnds
  <2> QED
    BY <1>1, <2>1, RowsSame DEF BInv
<1>3. CASE OwnsPipeline(asking[h]) /\ Continue(h, IF asking[h].op = "lead" THEN "write" ELSE "task")
  <2> DEFINE q == asking[h]
             r == [q EXCEPT !.pc = IF q.op = "lead" THEN "write" ELSE "task"]
  <2>1. /\ q \in Requests /\ FlowOK(q) /\ q.lead \in PortalLeads /\ q.client \in Clients
        /\ q.op \in {"lead", "task"} /\ HoldOK(q) /\ pipeline[q.pipe] = q.client
    BY <1>1, <1>3, Holding DEF FlowOK, OwnsPipeline
  <2>2. /\ r.pc = IF q.op = "lead" THEN "write" ELSE "task"
        /\ r.op = q.op /\ r.client = q.client /\ r.lead = q.lead /\ r.row = q.row /\ r.to = q.to
        /\ r.pipe = q.pipe /\ r \in Requests
    BY <2>1 DEF Requests, BoardPcs
  <2>3. asking' = [asking EXCEPT ![h] = r]
    BY <1>3, <2>1 DEF Continue, Requests, BInv, AskInv, AskType
  <2>4. q.pc = "pipe"
    BY <1>1
  <2> HIDE DEF q, r
  <2>5. FlowOK(r)
    BY <2>1, <2>2 DEF FlowOK
  <2>6. HoldOK(r)
    BY <2>1, <2>2, <2>4 DEF HoldOK, HoldsLead, HoldsPipe
  <2>7. Drawing(r) => Drawing(q)
    BY <2>2, <2>4 DEF Drawing
  <2>8. AskInv'
    BY <1>1, <2>2, <2>3, <2>5, <2>6, <2>7, GoesOn DEF q
  <2> QED
    BY <1>1, <2>8, RowsSame DEF BInv
<1> QED
  BY <1>2, <1>3 DEF AssertPipeline

\* A member is looked up.
LEMMA LookUpMemberStep == ASSUME BInv, NEW h \in Handlers, LookUpMember(h) PROVE BInv'
<1>1. UNCHANGED <<active, pipeline, portalLead, story, portalTask, member>> /\ asking[h].pc = "look"
  BY DEF LookUpMember
<1>2. CASE Leave(h)
  <2>1. AskInv'
    BY <1>1, <1>2, RequestEnds
  <2> QED
    BY <1>1, <2>1, RowsSame DEF BInv
<1>3. CASE Continue(h, "member")
  <2> DEFINE q == asking[h]
             r == [q EXCEPT !.pc = "member"]
  <2>1. q \in Requests /\ FlowOK(q)
    BY Holding
  <2>2. /\ r.pc = "member" /\ r.op = q.op /\ r.client = q.client /\ r.lead = q.lead
        /\ r.row = q.row /\ r.to = q.to /\ r.pipe = q.pipe /\ r.mail = q.mail /\ r \in Requests
    BY <2>1 DEF Requests, BoardPcs
  <2>3. asking' = [asking EXCEPT ![h] = r]
    BY <1>3, <2>1 DEF Continue, Requests, BInv, AskInv, AskType
  <2>4. q.pc = "look"
    BY <1>1
  <2> HIDE DEF q, r
  <2>5. FlowOK(r) /\ HoldOK(r) /\ ~Drawing(r)
    BY <2>1, <2>2, <2>4 DEF FlowOK, HoldOK, HoldsLead, HoldsPipe, Drawing
  <2>6. AskInv'
    BY <1>1, <2>2, <2>3, <2>5, GoesOn DEF q
  <2> QED
    BY <1>1, <2>6, RowsSame DEF BInv
<1> QED
  BY <1>2, <1>3 DEF LookUpMember

\* A lead is made, moved, given to somebody, or noted.
LEMMA WriteLeadStep == ASSUME BInv, NEW h \in Handlers, WriteLead(h) PROVE BInv'
<1> DEFINE q == asking[h]
           l == q.lead
<1>1. /\ UNCHANGED <<active, pipeline, story, portalTask, member>> /\ q.pc = "write"
      /\ q \in Requests /\ FlowOK(q) /\ HoldOK(q) /\ l \in PortalLeads /\ q.client \in Clients
  BY Holding DEF WriteLead, FlowOK
<1>2. CASE Leave(h) /\ portalLead' = portalLead
  <2>1. AskInv'
    BY <1>1, <1>2, RequestEnds
  <2> QED
    BY <1>1, <1>2, <2>1, RowsSame DEF BInv
<1>3. ASSUME Continue(h, "tell")
      PROVE  \E r \in Requests :
                /\ asking' = [asking EXCEPT ![h] = r] /\ r.pc = "tell" /\ r.op = q.op
                /\ r.client = q.client /\ r.lead = l /\ r.row = q.row /\ r.to = q.to
                /\ r.pipe = q.pipe /\ FlowOK(r)
  <2> DEFINE r == [q EXCEPT !.pc = "tell"]
  <2>1. /\ r \in Requests /\ r.pc = "tell" /\ r.op = q.op /\ r.client = q.client /\ r.lead = l
        /\ r.row = q.row /\ r.to = q.to /\ r.pipe = q.pipe
    BY <1>1 DEF Requests, BoardPcs
  <2>2. asking' = [asking EXCEPT ![h] = r]
    BY <1>1, <1>3 DEF Continue, BInv, AskInv, AskType, Requests
  <2> HIDE DEF r
  <2>3. FlowOK(r)
    BY <1>1, <2>1 DEF FlowOK, LeadOps
  <2> QED
    BY <2>1, <2>2, <2>3
<1>4. CASE q.op = "lead" /\ Writable(q) /\ Insert(q) /\ Continue(h, "tell")
  <2>1. PICK r \in Requests :
            /\ asking' = [asking EXCEPT ![h] = r] /\ r.pc = "tell" /\ r.op = q.op
            /\ r.client = q.client /\ r.lead = l /\ r.row = q.row /\ r.to = q.to
            /\ r.pipe = q.pipe /\ FlowOK(r)
    BY <1>3, <1>4
  <2>2. /\ q.pipe \in Pipelines /\ pipeline[q.pipe] = q.client /\ portalLead[l].client = None
    BY <1>1, <1>4, BoardAssumption DEF FlowOK, HoldOK, HoldsPipe, Writable, InUse, Gone,
       BInv,
       AskInv, FreshInv, Drawing
  <2>3. /\ NewLead(q).client = q.client /\ NewLead(q).pipe = q.pipe
        /\ NewLead(q) \in [client : Clients \cup {None, Gone}, pipe : Pipelines \cup {None},
                            stage : LeadStages, owner : OwnerNames \cup {None}]
    BY <1>1, <2>2, BoardAssumption DEF NewLead, NoPortalLead
  <2>4. /\ LeadType' /\ portalLead'[l] = NewLead(q)
        /\ \A x \in PortalLeads \ {l} : portalLead'[x] = portalLead[x]
    BY <1>1, <1>4, <2>3 DEF Insert, BInv, RowsInv, LeadType
  <2>5. portalLead'[l].client = q.client /\ portalLead'[l].pipe = q.pipe
    BY <2>3, <2>4
  <2> HIDE DEF q, l
  <2>6. HoldOK(r)'
    BY <1>1, <2>1, <2>2, <2>5 DEF HoldOK, HoldsLead, HoldsPipe
  <2>7. AskInv'
    <3>1. ~Drawing(r)
      BY <2>1 DEF Drawing
    <3> QED
      BY <1>1, <1>4, <2>1, <2>2, <2>4, <2>6, <3>1, ClaimsKept DEF q, l
  <2>8. ~Alive(l) /\ story[l] = <<>>
    BY <1>1, <2>2, BoardAssumption DEF Alive, BInv, RowsInv, EmptyInv
  <2>9. EmptyInv' /\ LeadsApart' /\ TalesApart'
    BY <1>1, <2>2, <2>4, <2>5, <2>8 DEF BInv, RowsInv, EmptyInv, LeadsApart, TalesApart,
       Alive
  <2>10. TasksApart'
    <3> SUFFICES ASSUME NEW t \in PortalTasks, portalTask[t].lead # None
                 PROVE  portalLead'[portalTask[t].lead].client = portalTask[t].client
      BY <1>1 DEF BInv, RowsInv, TasksApart
    <3>1. portalTask[t].lead \in PortalLeads
      BY DEF BInv, RowsInv, TaskType
    <3>2. portalTask[t].lead # l
      BY <2>2, BoardAssumption DEF BInv, RowsInv, TasksApart
    <3> QED
      BY <2>4, <3>1, <3>2 DEF BInv, RowsInv, TasksApart
  <2> QED
    BY <1>1, <2>4, <2>7, <2>9, <2>10 DEF BInv, RowsInv, PipelineType, StoryType, TaskType,
       MemberType, TeamApart
<1>5. ASSUME q.op # "lead", portalLead[l].client = q.client,
             \/ Leave(h) \/ Continue(h, "tell"),
             LeadType',
             \A x \in PortalLeads : /\ portalLead'[x].client = portalLead[x].client
                                    /\ portalLead'[x].pipe = portalLead[x].pipe
      PROVE  BInv'
  <2>1. AskInv'
    <3>1. CASE Leave(h)
      BY <1>1, <1>5, <3>1, RequestEnds
    <3>2. CASE Continue(h, "tell")
      <4>1. PICK r \in Requests :
                /\ asking' = [asking EXCEPT ![h] = r] /\ r.pc = "tell" /\ r.op = q.op
                /\ r.client = q.client /\ r.lead = l /\ r.row = q.row /\ r.to = q.to
                /\ r.pipe = q.pipe /\ FlowOK(r)
        BY <1>3, <3>2
      <4> HIDE DEF q, l
      <4>2. HoldOK(r) /\ ~Drawing(r)
        BY <1>1, <1>5, <4>1 DEF HoldOK, HoldsLead, HoldsPipe, Drawing
      <4> QED
        BY <1>1, <1>5, <4>1, <4>2, GoesOn DEF q, l
    <3> QED
      BY <1>5, <3>1, <3>2
  <2>2. EmptyInv' /\ LeadsApart' /\ TalesApart'
    BY <1>1, <1>5 DEF BInv, RowsInv, EmptyInv, LeadsApart, TalesApart, Alive
  <2>3. TasksApart'
    BY <1>1, <1>5 DEF BInv, RowsInv, TasksApart, TaskType
  <2> QED
    BY <1>1, <1>5, <2>1, <2>2, <2>3 DEF BInv, RowsInv, PipelineType, StoryType, TaskType,
       MemberType, TeamApart
<1>6. CASE Writable(q) /\ UpdateStage(h, q)
  <2>1. q.op = "stage_change" /\ portalLead[l].client = q.client /\ q.to \in LeadStages
    BY <1>1, <1>6 DEF UpdateStage, Writable, OwnsLead, FlowOK
  <2>2. portalLead' = [portalLead EXCEPT ![l].stage = q.to] /\ (Leave(h) \/ Continue(h, "tell"))
    BY <1>6 DEF UpdateStage
  <2> HIDE DEF q, l
  <2>3. /\ LeadType'
        /\ \A x \in PortalLeads : /\ portalLead'[x].client = portalLead[x].client
                                  /\ portalLead'[x].pipe = portalLead[x].pipe
    BY <1>1, <2>1, <2>2 DEF BInv, RowsInv, LeadType
  <2> QED
    BY <1>5, <2>1, <2>2, <2>3
<1>7. CASE Writable(q) /\ UpdateOwner(q) /\ Continue(h, "tell")
  <2>1. q.op = "owner_change" /\ portalLead[l].client = q.client /\ q.to \in OwnerNames \cup {None}
    BY <1>1, <1>7 DEF UpdateOwner, Writable, OwnsLead, FlowOK
  <2>2. portalLead' = [portalLead EXCEPT ![l].owner = q.to]
    BY <1>7 DEF UpdateOwner
  <2> HIDE DEF q, l
  <2>3. /\ LeadType'
        /\ \A x \in PortalLeads : /\ portalLead'[x].client = portalLead[x].client
                                  /\ portalLead'[x].pipe = portalLead[x].pipe
    BY <1>1, <2>1, <2>2 DEF BInv, RowsInv, LeadType
  <2> QED
    BY <1>5, <1>7, <2>1, <2>3
<1>8. CASE Writable(q) /\ CreateNote(q) /\ Continue(h, "tell")
  <2>1. q.op = "note" /\ portalLead[l].client = q.client /\ portalLead' = portalLead
    BY <1>1, <1>8 DEF CreateNote, Writable, OwnsLead
  <2>2. LeadType'
    BY <2>1 DEF BInv, RowsInv, LeadType
  <2> QED
    BY <1>5, <1>8, <2>1, <2>2
<1> QED
  BY <1>2, <1>4, <1>6, <1>7, <1>8 DEF WriteLead, Insert

\* What happened is told on the timeline of a lead the client still has.
LEMMA TellStep == ASSUME BInv, NEW h \in Handlers, Tell(h) PROVE BInv'
<1> DEFINE q == asking[h]
           l == q.lead
<1>1. /\ UNCHANGED <<active, pipeline, portalLead, portalTask, member>> /\ q.pc = "tell"
      /\ q \in Requests /\ FlowOK(q) /\ HoldOK(q) /\ l \in PortalLeads /\ q.client \in Clients
      /\ q.op \in LeadOps
  BY Holding DEF Tell, FlowOK
<1>2. AskInv'
  <2>1. CASE Leave(h)
    BY <1>1, <2>1, RequestEnds
  <2>2. CASE Continue(h, "task") /\ q.op \in {"lead", "reminder"}
    <3> DEFINE r == [q EXCEPT !.pc = "task"]
    <3>1. /\ r \in Requests /\ r.pc = "task" /\ r.op = q.op /\ r.client = q.client /\ r.lead = l
          /\ r.row = q.row /\ r.to = q.to /\ r.pipe = q.pipe
      BY <1>1 DEF Requests, BoardPcs
    <3>2. asking' = [asking EXCEPT ![h] = r]
      BY <1>1, <2>2 DEF Continue, BInv, AskInv, AskType, Requests
    <3> HIDE DEF r, q
    <3>3. FlowOK(r) /\ HoldOK(r) /\ ~Drawing(r)
      BY <1>1, <2>2, <3>1 DEF FlowOK, HoldOK, HoldsLead, HoldsPipe, Drawing
    <3> QED
      BY <1>1, <3>1, <3>2, <3>3, GoesOn DEF q, l
  <2> QED
    BY <2>1, <2>2 DEF Tell
<1>3. CASE story' = story
  BY <1>1, <1>2, <1>3, RowsSame DEF BInv
<1>4. CASE Alive(l) /\ story' = [story EXCEPT ![l] = Append(story[l], Entry(q))]
  <2>1. Entry(q) \in Entries /\ Entry(q).client = q.client
    BY <1>1 DEF Entry, Entries, Requests
  <2>2. portalLead[l].client = q.client
    BY <1>1, <1>4, BoardAssumption DEF HoldOK, HoldsLead, Alive, Gone
  <2> HIDE DEF q, l
  <2>3. /\ StoryType' /\ story'[l] = Append(story[l], Entry(q)) /\ story[l] \in Seq(Entries)
        /\ \A x \in PortalLeads \ {l} : story'[x] = story[x]
    BY <1>1, <1>4, <2>1 DEF BInv, RowsInv, StoryType
  <2>4. TalesApart'
    <3> SUFFICES ASSUME NEW x \in PortalLeads, NEW i \in DOMAIN story'[x]
                 PROVE  story'[x][i].client = portalLead[x].client
      BY <1>1 DEF TalesApart
    <3>1. CASE x # l
      BY <2>3, <3>1 DEF BInv, RowsInv, TalesApart
    <3>2. CASE x = l
      <4>1. /\ i \in 1 .. Len(story[l]) + 1
            /\ story'[l][i] = IF i = Len(story[l]) + 1 THEN Entry(q) ELSE story[l][i]
        BY <2>1, <2>3, <3>2
      <4>2. i \in 1 .. Len(story[l]) => story[l][i].client = portalLead[l].client
        BY <1>1, <2>3 DEF BInv, RowsInv, TalesApart
      <4> QED
        BY <2>1, <2>2, <2>3, <3>2, <4>1, <4>2
    <3> QED
      BY <3>1, <3>2
  <2>5. EmptyInv'
    BY <1>1, <1>4, <2>3 DEF BInv, RowsInv, EmptyInv, Alive
  <2> QED
    BY <1>1, <1>2, <2>3, <2>4, <2>5 DEF BInv, RowsInv, PipelineType, LeadType, TaskType,
       MemberType, LeadsApart, TasksApart, TeamApart
<1> QED
  BY <1>3, <1>4 DEF Tell

\* A task is made about a lead and in a pipeline the client still has.
LEMMA InsertTaskStep == ASSUME BInv, NEW h \in Handlers, InsertTask(h) PROVE BInv'
<1> DEFINE q == asking[h]
<1>1. /\ UNCHANGED <<active, pipeline, portalLead, story, member>> /\ q.pc = "task"
      /\ q \in Requests /\ FlowOK(q) /\ HoldOK(q) /\ q.lead \in PortalLeads /\ q.client \in Clients
      /\ Leave(h)
  BY Holding DEF InsertTask, FlowOK
<1>2. AskInv'
  BY <1>1, RequestEnds
<1>3. CASE portalTask' = portalTask
  BY <1>1, <1>2, <1>3, RowsSame DEF BInv
<1>4. ASSUME TaskHolds(q), NEW t,
             portalTask' = [portalTask EXCEPT ![t] =
                              [NoTask EXCEPT !.client = q.client, !.lead = q.lead, !.pipe = q.pipe]]
      PROVE  BInv'
  <2>1. /\ portalLead[q.lead].client = q.client
        /\ q.pipe # None => pipeline[q.pipe] = q.client
    BY <1>1, <1>4, BoardAssumption DEF TaskHolds, HoldOK, HoldsLead, HoldsPipe, Alive,
       InUse, Gone
  <2> DEFINE new == [NoTask EXCEPT !.client = q.client, !.lead = q.lead, !.pipe = q.pipe]
  <2>2. /\ new.client = q.client /\ new.lead = q.lead /\ new.pipe = q.pipe
        /\ new \in [client : Clients \cup {None}, lead : PortalLeads \cup {None},
                    pipe : Pipelines \cup {None}, status : TaskStatuses, late : BOOLEAN]
    BY <1>1 DEF NoTask, Requests, TaskStatuses
  <2> HIDE DEF q, new
  <2>3. TaskType' /\ \A x \in PortalTasks : portalTask'[x] \in {new, portalTask[x]}
    BY <1>4, <2>2 DEF BInv, RowsInv, TaskType, new
  <2>4. TasksApart'
    BY <1>1, <2>1, <2>2, <2>3 DEF BInv, RowsInv, TasksApart
  <2> QED
    BY <1>1, <1>2, <2>3, <2>4 DEF BInv, RowsInv, PipelineType, LeadType, StoryType,
       MemberType,
       EmptyInv, Alive, LeadsApart, TalesApart, TeamApart
<1> QED
  BY <1>3, <1>4 DEF InsertTask

\* The status and the due time of tasks say nothing of clients.
LEMMA TasksKept ==
    ASSUME BInv, UNCHANGED <<pipeline, portalLead, story, member>>, TaskType',
           \A t \in PortalTasks : /\ portalTask'[t].client = portalTask[t].client
                                  /\ portalTask'[t].lead = portalTask[t].lead
                                  /\ portalTask'[t].pipe = portalTask[t].pipe
    PROVE  RowsInv'
<1>1. TasksApart'
  BY DEF BInv, RowsInv, TasksApart
<1> QED
  BY <1>1 DEF BInv, RowsInv, PipelineType, LeadType, StoryType, MemberType, EmptyInv, Alive,
     LeadsApart, TalesApart, TeamApart

\* A task of another status, or due again, is about what it was about.
LEMMA TouchedTasks ==
    ASSUME BInv, NEW h \in Handlers, TouchTask(h)
    PROVE  /\ TaskType'
           /\ \A x \in PortalTasks : /\ portalTask'[x].client = portalTask[x].client
                                     /\ portalTask'[x].lead = portalTask[x].lead
                                     /\ portalTask'[x].pipe = portalTask[x].pipe
<1> DEFINE q == asking[h]
           t == q.row
<1>1. t \in PortalTasks /\ q.to \in TaskStatuses
  BY Holding DEF TouchTask, FlowOK
<1>2. CASE portalTask' = portalTask
  BY <1>2 DEF BInv, RowsInv, TaskType
<1>3. CASE portalTask' = [portalTask EXCEPT ![t].status = q.to,
                                            ![t].late = portalTask[t].late \/ q.op = "remind"]
  <2> DEFINE b == portalTask[t].late \/ q.op = "remind"
             new == [portalTask[t] EXCEPT !.status = q.to, !.late = b]
  <2>1. b \in BOOLEAN
    OBVIOUS
  <2>2. portalTask' = [portalTask EXCEPT ![t] = new]
    BY <1>1, <1>3 DEF BInv, RowsInv, TaskType
  <2> HIDE DEF b, q
  <2> QED
    BY <1>1, <2>1, <2>2 DEF BInv, RowsInv, TaskType
<1> QED
  BY <1>2, <1>3 DEF TouchTask

\* A task is done, cancelled or due again.
LEMMA TouchTaskStep == ASSUME BInv, NEW h \in Handlers, TouchTask(h) PROVE BInv'
<1>1. UNCHANGED <<active, pipeline, portalLead, story, member>> /\ Leave(h)
  BY DEF TouchTask
<1>2. AskInv'
  BY <1>1, RequestEnds
<1> QED
  BY <1>1, <1>2, TouchedTasks, TasksKept DEF BInv

\* The due time of a task passes.
LEMMA TaskFallsDueStep == ASSUME BInv, TaskFallsDue PROVE BInv'
<1>1. PICK t \in PortalTasks : portalTask' = [portalTask EXCEPT ![t].late = TRUE]
  BY DEF TaskFallsDue
<1>2. UNCHANGED <<active, pipeline, portalLead, story, member, asking>>
  BY DEF TaskFallsDue
<1>3. /\ TaskType'
      /\ \A x \in PortalTasks : /\ portalTask'[x].client = portalTask[x].client
                                /\ portalTask'[x].lead = portalTask[x].lead
                                /\ portalTask'[x].pipe = portalTask[x].pipe
  BY <1>1 DEF BInv, RowsInv, TaskType
<1>4. AskInv'
  BY <1>2 DEF BInv, AskInv, AskType, FlowInv, HoldInv, HoldOK, HoldsLead, HoldsPipe,
     FreshInv, Drawing
<1> QED
  BY <1>2, <1>3, <1>4, TasksKept DEF BInv

\* A lead goes with its timeline; its tasks lose it.
LEMMA RemoveLead ==
    ASSUME BInv, NEW x \in PortalLeads, portalLead[x].client \in Clients,
           portalLead'  = [portalLead EXCEPT ![x] = [NoPortalLead EXCEPT !.client = Gone]],
           story' = [story EXCEPT ![x] = <<>>], portalTask'  = Dropping(portalTask, x, "lead"),
           UNCHANGED <<pipeline, member>>
    PROVE  /\ RowsInv'
           /\ \A l \in PortalLeads :
                /\ portalLead[l].client # None =>
                      portalLead'[l].client \in {portalLead[l].client, Gone}
                /\ portalLead[l].client = None => portalLead'[l].client = None
<1> DEFINE old == [NoPortalLead EXCEPT !.client = Gone]
<1>1. /\ old.client = Gone /\ old.pipe = None
      /\ old \in [client : Clients \cup {None, Gone}, pipe : Pipelines \cup {None},
                  stage : LeadStages, owner : OwnerNames \cup {None}]
  BY BoardAssumption DEF NoPortalLead
<1>2. portalLead' = [portalLead EXCEPT ![x] = old]
  OBVIOUS
<1> HIDE DEF old
<1>3. /\ LeadType' /\ portalLead'[x].client = Gone /\ portalLead'[x].pipe = None
      /\ \A l \in PortalLeads \ {x} : portalLead'[l] = portalLead[l]
  BY <1>1, <1>2 DEF BInv, RowsInv, LeadType
<1>4. /\ StoryType' /\ story'[x] = <<>> /\ \A l \in PortalLeads \ {x} : story'[l] = story[l]
  BY DEF BInv, RowsInv, StoryType
<1>5. /\ TaskType'
      /\ \A t \in PortalTasks :
            /\ portalTask'[t].client = portalTask[t].client
            /\ portalTask'[t].pipe = portalTask[t].pipe
            /\ portalTask'[t].lead = IF portalTask[t].lead = x THEN None ELSE portalTask[t].lead
  BY DEF BInv, RowsInv, TaskType, Dropping
<1>6. EmptyInv' /\ LeadsApart' /\ TalesApart'
  BY <1>3, <1>4, BoardAssumption DEF BInv, RowsInv, EmptyInv, LeadsApart, TalesApart, Alive,
     Gone
<1>7. TasksApart'
  <2> SUFFICES ASSUME NEW t \in PortalTasks
               PROVE  /\ portalTask'[t].client \notin Clients =>
                            portalTask'[t].lead = None /\ portalTask'[t].pipe = None
                      /\ portalTask'[t].lead # None =>
                            portalLead'[portalTask'[t].lead].client = portalTask'[t].client
                      /\ portalTask'[t].pipe # None =>
                            pipeline[portalTask'[t].pipe] = portalTask'[t].client
    BY DEF TasksApart
  <2>1. portalTask[t].lead \in PortalLeads \cup {None}
    BY DEF BInv, RowsInv, TaskType
  <2> QED
    BY <1>3, <1>5, <2>1 DEF BInv, RowsInv, TasksApart
<1> QED
  BY <1>3, <1>4, <1>5, <1>6, <1>7, BoardAssumption DEF BInv, RowsInv, PipelineType,
     MemberType,
     TeamApart

\* A pipeline goes; leads and tasks lose it.
LEMMA RemovePipeline ==
    ASSUME BInv, NEW x \in Pipelines, pipeline[x] \in Clients,
           pipeline' = [pipeline EXCEPT ![x] = Gone],
           portalLead' = Dropping(portalLead, x, "pipe"),
           portalTask' = Dropping(portalTask, x, "pipe"),
           UNCHANGED <<story, member>>
    PROVE  /\ RowsInv'
           /\ \A l \in PortalLeads : portalLead'[l].client = portalLead[l].client
           /\ \A p \in Pipelines : /\ pipeline[p] # None => pipeline'[p] \in {pipeline[p], Gone}
                                   /\ pipeline[p] = None => pipeline'[p] = None
<1>1. /\ PipelineType' /\ pipeline'[x] = Gone
      /\ \A p \in Pipelines \ {x} : pipeline'[p] = pipeline[p]
  BY DEF BInv, RowsInv, PipelineType
<1>2. /\ LeadType'
      /\ \A l \in PortalLeads :
            /\ portalLead'[l].client = portalLead[l].client
            /\ portalLead'[l].pipe = IF portalLead[l].pipe = x THEN None ELSE portalLead[l].pipe
  BY DEF BInv, RowsInv, LeadType, Dropping
<1>3. /\ TaskType'
      /\ \A t \in PortalTasks :
            /\ portalTask'[t].client = portalTask[t].client
            /\ portalTask'[t].lead = portalTask[t].lead
            /\ portalTask'[t].pipe = IF portalTask[t].pipe = x THEN None ELSE portalTask[t].pipe
  BY DEF BInv, RowsInv, TaskType, Dropping
<1>4. EmptyInv' /\ TalesApart'
  BY <1>2 DEF BInv, RowsInv, EmptyInv, TalesApart, Alive
<1>5. LeadsApart'
  <2> SUFFICES ASSUME NEW l \in PortalLeads, portalLead'[l].pipe # None
               PROVE  pipeline'[portalLead'[l].pipe] = portalLead'[l].client
    BY DEF LeadsApart
  <2>1. portalLead[l].pipe \in Pipelines \cup {None}
    BY DEF BInv, RowsInv, LeadType
  <2> QED
    BY <1>1, <1>2, <2>1 DEF BInv, RowsInv, LeadsApart
<1>6. TasksApart'
  <2> SUFFICES ASSUME NEW t \in PortalTasks
               PROVE  /\ portalTask'[t].client \notin Clients =>
                            portalTask'[t].lead = None /\ portalTask'[t].pipe = None
                      /\ portalTask'[t].lead # None =>
                            portalLead'[portalTask'[t].lead].client = portalTask'[t].client
                      /\ portalTask'[t].pipe # None =>
                            pipeline'[portalTask'[t].pipe] = portalTask'[t].client
    BY DEF TasksApart
  <2>1. /\ portalTask[t].lead \in PortalLeads \cup {None}
        /\ portalTask[t].pipe \in Pipelines \cup {None}
    BY DEF BInv, RowsInv, TaskType
  <2> QED
    BY <1>1, <1>2, <1>3, <2>1 DEF BInv, RowsInv, TasksApart
<1>7. \A p \in Pipelines : /\ pipeline[p] # None => pipeline'[p] \in {pipeline[p], Gone}
                           /\ pipeline[p] = None => pipeline'[p] = None
  BY <1>1, BoardAssumption
<1> QED
  BY <1>1, <1>2, <1>3, <1>4, <1>5, <1>6, <1>7 DEF BInv, RowsInv, StoryType, MemberType,
     TeamApart

\* Members change one at a time; the one that changes keeps his e-mail his own.
LEMMA TeamKept ==
    ASSUME BInv, UNCHANGED <<pipeline, portalLead, story, portalTask>>,
           NEW x \in Members, NEW new \in [client : Clients \cup {None, Gone},
                                           email : Mailboxes \cup {None},
                                           name : OwnerNames \cup {None}],
           member' = [member EXCEPT ![x] = new],
           new.client \in Clients =>
              /\ new.email # MailOf[new.client]
              /\ \A n \in Members \ {x} :
                    member[n].client = new.client => member[n].email # new.email
    PROVE  RowsInv'
<1>1. MemberType' /\ member'[x] = new /\ \A n \in Members \ {x} : member'[n] = member[n]
  BY DEF BInv, RowsInv, MemberType
<1>2. TeamApart'
  BY <1>1 DEF BInv, RowsInv, TeamApart
<1> QED
  BY <1>1, <1>2 DEF BInv, RowsInv, PipelineType, LeadType, StoryType, TaskType, EmptyInv,
     Alive,
     LeadsApart, TalesApart, TasksApart

\* A row of the client's own is removed.
LEMMA RemoveRowStep == ASSUME BInv, NEW h \in Handlers, RemoveRow(h) PROVE BInv'
<1> DEFINE x == asking[h].row
<1>1. Leave(h) /\ active' = active /\ asking[h] \in Requests
      /\ asking[h].client \in Clients
  BY Holding DEF RemoveRow, FlowOK
<1>2. CASE UNCHANGED <<pipeline, portalLead, story, portalTask, member>>
  BY <1>1, <1>2, RequestEnds, RowsSame DEF BInv
<1>3. CASE /\ Mine(asking[h]) /\ x \in PortalLeads
           /\ portalLead'  = [portalLead EXCEPT ![x] = [NoPortalLead EXCEPT !.client = Gone]]
           /\ story' = [story EXCEPT ![x] = <<>>]
           /\ portalTask'  = Dropping(portalTask, x, "lead")
           /\ UNCHANGED <<pipeline, member>>
  <2>1. portalLead[x].client \in Clients
    BY <1>1, <1>3, BoardAssumption DEF Mine
  <2> HIDE DEF x
  <2>2. /\ RowsInv'
        /\ \A l \in PortalLeads :
             /\ portalLead[l].client # None =>
                   portalLead'[l].client \in {portalLead[l].client, Gone}
             /\ portalLead[l].client = None => portalLead'[l].client = None
    BY <1>3, <2>1, RemoveLead
  <2> QED
    BY <1>1, <1>3, <2>2, RequestEnds DEF BInv
<1>4. CASE /\ Mine(asking[h]) /\ x \in Pipelines
           /\ pipeline' = [pipeline EXCEPT ![x] = Gone]
           /\ portalLead' = Dropping(portalLead, x, "pipe")
           /\ portalTask' = Dropping(portalTask, x, "pipe")
           /\ UNCHANGED <<story, member>>
  <2>1. pipeline[x] \in Clients
    BY <1>1, <1>4, BoardAssumption DEF Mine
  <2> HIDE DEF x
  <2>2. /\ RowsInv'
        /\ \A l \in PortalLeads : portalLead'[l].client = portalLead[l].client
        /\ \A p \in Pipelines : /\ pipeline[p] # None => pipeline'[p] \in {pipeline[p], Gone}
                                /\ pipeline[p] = None => pipeline'[p] = None
    BY <1>4, <2>1, RemovePipeline
  <2> QED
    BY <1>1, <2>2, RequestEnds DEF BInv
<1>5. CASE /\ x \in Members
           /\ member' = [member EXCEPT ![x] = [NoMember EXCEPT !.client = Gone]]
           /\ UNCHANGED <<pipeline, portalLead, story, portalTask>>
  <2> DEFINE new == [NoMember EXCEPT !.client = Gone]
  <2>1. member' = [member EXCEPT ![x] = new]
    BY <1>5
  <2>2. new.client \notin Clients
    BY BoardAssumption DEF Gone, NoMember
  <2> HIDE DEF x
  <2>3. new \in [client : Clients \cup {None, Gone}, email : Mailboxes \cup {None},
                 name : OwnerNames \cup {None}]
    BY DEF NoMember
  <2> HIDE DEF new
  <2>4. RowsInv'
    BY <1>5, <2>1, <2>2, <2>3, TeamKept
  <2> QED
    BY <1>1, <1>5, <2>4, RequestEnds DEF BInv
<1> QED
  BY <1>2, <1>3, <1>4, <1>5 DEF RemoveRow

\* A client makes a pipeline of his own.
LEMMA AddPipelineStep == ASSUME BInv, NEW h \in Handlers, AddPipeline(h) PROVE BInv'
<1> DEFINE q == asking[h]
           x == q.row
<1>1. /\ UNCHANGED <<active, portalLead, story, portalTask, member>> /\ q.pc = "pipeline"
      /\ Leave(h) /\ x \in Pipelines /\ q.client \in Clients /\ pipeline[x] = None
  BY Holding DEF AddPipeline, FlowOK, BInv, AskInv, FreshInv
<1>2. CASE pipeline' = pipeline
  BY <1>1, <1>2, RequestEnds, RowsSame DEF BInv
<1>3. CASE pipeline' = [pipeline EXCEPT ![x] = q.client]
  <2> HIDE DEF q, x
  <2>1. /\ PipelineType' /\ pipeline'[x] = q.client
        /\ \A p \in Pipelines \ {x} : pipeline'[p] = pipeline[p]
    BY <1>1, <1>3 DEF BInv, RowsInv, PipelineType
  <2>2. AskInv'
    BY <1>1, <2>1, RequestEnds DEF q, x
  <2>3. LeadsApart'
    <3> SUFFICES ASSUME NEW l \in PortalLeads, portalLead[l].pipe # None
                 PROVE  pipeline'[portalLead[l].pipe] = portalLead[l].client
      BY <1>1 DEF LeadsApart
    <3>1. portalLead[l].pipe \in Pipelines /\ Alive(l)
      BY DEF BInv, RowsInv, LeadType, EmptyInv
    <3>2. portalLead[l].pipe # x
      BY <1>1, <3>1, BoardAssumption DEF BInv, RowsInv, LeadsApart, Alive
    <3> QED
      BY <2>1, <3>1, <3>2 DEF BInv, RowsInv, LeadsApart
  <2>4. TasksApart'
    <3> SUFFICES ASSUME NEW t \in PortalTasks, portalTask[t].pipe # None
                 PROVE  pipeline'[portalTask[t].pipe] = portalTask[t].client
      BY <1>1 DEF BInv, RowsInv, TasksApart
    <3>1. portalTask[t].pipe \in Pipelines /\ portalTask[t].client \in Clients
      BY DEF BInv, RowsInv, TaskType, TasksApart
    <3>2. portalTask[t].pipe # x
      BY <1>1, <3>1, BoardAssumption DEF BInv, RowsInv, TasksApart
    <3> QED
      BY <2>1, <3>1, <3>2 DEF BInv, RowsInv, TasksApart
  <2> QED
    BY <1>1, <2>1, <2>2, <2>3, <2>4 DEF BInv, RowsInv, LeadType, StoryType, TaskType,
       MemberType,
       EmptyInv, Alive, TalesApart, TeamApart
<1> QED
  BY <1>2, <1>3 DEF AddPipeline

\* A member is written under an e-mail nobody else of the team has.
LEMMA WriteMemberStep == ASSUME BInv, NEW h \in Handlers, WriteMember(h) PROVE BInv'
<1> DEFINE q == asking[h]
           x == q.row
<1>1. /\ UNCHANGED <<active, pipeline, portalLead, story, portalTask>> /\ Leave(h) /\ x \in Members
      /\ q.client \in Clients /\ q.to \in OwnerNames /\ q.mail \in Mailboxes \ {MailOf[q.client]}
  BY Holding DEF WriteMember, FlowOK
<1>2. AskInv'
  BY <1>1, RequestEnds
<1>3. CASE member' = member
  BY <1>1, <1>2, <1>3, RowsSame DEF BInv
<1>4. CASE /\ ~TakenMail(q)
           /\ member' = [member EXCEPT ![x] =
                           [client |-> q.client, email |-> q.mail, name |-> q.to]]
  <2> DEFINE new == [client |-> q.client, email |-> q.mail, name |-> q.to]
  <2>1. /\ new \in [client : Clients \cup {None, Gone}, email : Mailboxes \cup {None},
                    name : OwnerNames \cup {None}]
        /\ new.client = q.client /\ new.email = q.mail
    BY <1>1
  <2>2. member' = [member EXCEPT ![x] = new]
    BY <1>4
  <2>3. \A n \in Members \ {x} : member[n].client = q.client => member[n].email # q.mail
    BY <1>4 DEF TakenMail, TeamOf
  <2> HIDE DEF new, q, x
  <2>4. RowsInv'
    BY <1>1, <2>1, <2>2, <2>3, TeamKept
  <2> QED
    BY <1>2, <2>4 DEF BInv
<1> QED
  BY <1>3, <1>4 DEF WriteMember

\* An account is turned off or on again.
LEMMA SetActiveStep == ASSUME BInv, SetActive PROVE BInv'
<1>1. /\ UNCHANGED <<pipeline, portalLead, story, portalTask, member, asking>>
      /\ active' \subseteq Clients
  BY DEF SetActive, BInv, AskInv, AskType
<1>2. AskInv'
  BY <1>1 DEF BInv, AskInv, AskType, FlowInv, HoldInv, HoldOK, HoldsLead, HoldsPipe,
     FreshInv, Drawing
<1> QED
  BY <1>1, <1>2, RowsSame DEF BInv

\* Every step of the portal preserves the invariant.
LEMMA NextBInv == ASSUME BInv, [BoardNext]_<<boardVars, counters>> PROVE BInv'
<1>1. ASSUME NEW h \in Handlers,
             \/ Validate(h) \/ AssertLead(h) \/ AssertPipeline(h) \/ WriteLead(h)
             \/ Tell(h) \/ InsertTask(h) \/ TouchTask(h) \/ RemoveRow(h)
             \/ AddPipeline(h) \/ LookUpMember(h) \/ WriteMember(h)
      PROVE  BInv'
  BY <1>1, ValidateStep, AssertLeadStep, AssertPipelineStep, WriteLeadStep, TellStep,
     InsertTaskStep, TouchTaskStep, RemoveRowStep, AddPipelineStep, LookUpMemberStep,
     WriteMemberStep
<1>2. CASE SetActive \/ TaskFallsDue
  BY <1>2, SetActiveStep, TaskFallsDueStep
<1>3. CASE UNCHANGED <<boardVars, counters>>
  <2>1. UNCHANGED <<active, pipeline, portalLead, story, portalTask, member, asking>>
    BY <1>3 DEF boardVars
  <2>2. AskInv'
    BY <2>1 DEF BInv, AskInv, AskType, FlowInv, HoldInv, HoldOK, HoldsLead, HoldsPipe,
       FreshInv,
       Drawing
  <2> QED
    BY <2>1, <2>2, RowsSame DEF BInv
<1> QED
  BY <1>1, <1>2, <1>3 DEF BoardNext

\* The invariant has the types of the board.
LEMMA BoardTypesHold == BInv => BoardTypeOK
<1> SUFFICES ASSUME BInv PROVE BoardTypeOK
  OBVIOUS
<1>1. active \subseteq Clients /\ pipeline \in [Pipelines -> Clients \cup {None, Gone}]
  BY DEF BInv, RowsInv, AskInv, PipelineType, AskType
<1>2. ASSUME NEW l \in PortalLeads
      PROVE  /\ portalLead[l].client \in Clients \cup {None, Gone}
             /\ portalLead[l].stage \in LeadStages
             /\ portalLead[l].pipe \in Pipelines \cup {None}
             /\ portalLead[l].owner \in OwnerNames \cup {None}
  BY DEF BInv, RowsInv, LeadType
<1>3. ASSUME NEW l \in PortalLeads, NEW i \in DOMAIN story[l]
      PROVE  story[l][i].kind \in LeadOps
  <2>1. story[l] \in Seq(Entries)
    BY DEF BInv, RowsInv, StoryType
  <2>2. story[l][i] \in Entries
    BY <2>1
  <2> QED
    BY <2>2 DEF Entries
<1>4. \A t \in PortalTasks : portalTask[t].status \in TaskStatuses
  BY DEF BInv, RowsInv, TaskType
<1>5. \A m \in Members : member[m].client \in Clients \cup {None, Gone}
  BY DEF BInv, RowsInv, MemberType
<1>6. \A h \in Handlers : asking[h].pc \in BoardPcs
  BY DEF BInv, AskInv, AskType, Requests
<1> QED
  BY <1>1, <1>2, <1>3, <1>4, <1>5, <1>6 DEF BoardTypeOK, LeadOps, BoardPcs

\* Pipelines, leads, timelines, tasks, team and requests keep their types, and a lead has a
\* stage of the board whatever was asked of it.
THEOREM BoardTyped == BoardSpec => []BoardTypeOK
BY BoardTypesHold, InitBInv, NextBInv, PTL DEF BoardSpec

\* The invariant keeps what is of different clients apart.
LEMMA ApartKept == BInv => ClientsKeptApart
<1> SUFFICES ASSUME BInv, NEW c \in Clients
             PROVE  /\ \A l \in LeadsOf(c) :
                          /\ portalLead[l].pipe # None => pipeline[portalLead[l].pipe] = c
                          /\ \A i \in DOMAIN story[l] : story[l][i].client = c
                    /\ \A t \in TasksOf(c) :
                          /\ portalTask[t].lead # None =>
                                portalLead[portalTask[t].lead].client = c
                          /\ portalTask[t].pipe # None => pipeline[portalTask[t].pipe] = c
                    /\ \A m \in TeamOf(c) :
                          /\ member[m].email # MailOf[c]
                          /\ \A n \in TeamOf(c) \ {m} : member[m].email # member[n].email
  BY DEF ClientsKeptApart
<1>1. \A l \in LeadsOf(c) : /\ portalLead[l].pipe # None => pipeline[portalLead[l].pipe] = c
                            /\ \A i \in DOMAIN story[l] : story[l][i].client = c
  BY DEF LeadsOf, BInv, RowsInv, LeadsApart, TalesApart
<1>2. \A t \in TasksOf(c) :
          /\ portalTask[t].lead # None => portalLead[portalTask[t].lead].client = c
          /\ portalTask[t].pipe # None => pipeline[portalTask[t].pipe] = c
  BY DEF TasksOf, BInv, RowsInv, TasksApart
<1>3. \A m \in TeamOf(c) : /\ member[m].email # MailOf[c]
                           /\ \A n \in TeamOf(c) \ {m} : member[m].email # member[n].email
  BY DEF TeamOf, BInv, RowsInv, TeamApart
<1> QED
  BY <1>1, <1>2, <1>3

\* The ownership checks of the portal services: although a request reads who owns a lead
\* or a pipeline statements before it writes, no lead, task or timeline entry of one client
\* ever refers to another's, and no two members of a team have the same e-mail, nor the
\* owner's.
THEOREM KeptApart == BoardSpec => []ClientsKeptApart
BY ApartKept, InitBInv, NextBInv, PTL DEF BoardSpec

----------------------------------------------------------------------------
(* The timeline of a lead *)

Shared == {"stage_change", "owner_change", "note"}
Spoken == Shared \cup {"lead"}
Moving == {"write", "tell", "task"}

\* Requests that have read the lead and not yet told, that tell, that owe it a task;
\* and the tasks it has.
Changing(h, l, k) == /\ asking[h].lead = l /\ asking[h].op = k
                     /\ asking[h].pc \in {"write", "tell"}
TellingOf(h, l, k) == asking[h].pc = "tell" /\ asking[h].lead = l /\ asking[h].op = k
Owing(l) == {h \in Handlers : /\ asking[h].pc = "task" /\ asking[h].lead = l
                              /\ asking[h].op \in {"lead", "reminder"}}
TasksAbout(l) == {t \in PortalTasks : portalTask[t].lead = l}
Count(l, k)   == Cardinality(Kinds(story[l], k))
Clear(l, k)   == Alive(l) /\ <<l, k>> \notin gaps

\* One request at a time changes the stage, the owner or the notes.
SoloOK(l) == \A k \in Shared : Clear(l, k) =>
                \A g, h \in Handlers : Changing(g, l, k) /\ Changing(h, l, k) => g = h

\* The stage is where the timeline left off, or where the entry about to be told leads.
StageOK(l) == Clear(l, "stage_change") =>
    LET left == LeftInAll(story[l], "stage_change", "nouveau")
    IN  /\ Chained(story[l], "stage_change", "nouveau")
        /\ \A h \in Handlers : /\ Changing(h, l, "stage_change") => asking[h].from = left
                               /\ TellingOf(h, l, "stage_change") =>
                                     asking[h].to = portalLead[l].stage
        /\ ~Telling(l, "stage_change") => portalLead[l].stage = left

\* So is the owner.
OwnerOK(l) == Clear(l, "owner_change") =>
    /\ \A h \in Handlers : TellingOf(h, l, "owner_change") => asking[h].to = portalLead[l].owner
    /\ ~Telling(l, "owner_change") =>
          portalLead[l].owner = LeftInAll(story[l], "owner_change", None)

\* The notes are as many as the entries, but for one about to be told.
NoteOK(l) == /\ notes[l] \in Nat /\ (~Alive(l) => notes[l] = 0)
             /\ Clear(l, "note") =>
                   notes[l] = Count(l, "note") + IF Telling(l, "note") THEN 1 ELSE 0

\* A lead that is there has been told once, or is about to be by one request.
ReceivedOK(l) ==
    /\ \A g, h \in Handlers : TellingOf(g, l, "lead") /\ TellingOf(h, l, "lead") => g = h
    /\ Clear(l, "lead") => Count(l, "lead") = IF Telling(l, "lead") THEN 0 ELSE 1

\* What was received or announced has its task, or a request owes it one.
TasksOK(l) ==
    /\ IsFiniteSet(TasksAbout(l)) /\ IsFiniteSet(Owing(l))
    /\ Clear(l, "task") => Count(l, "lead") + Count(l, "reminder")
                              <= Cardinality(TasksAbout(l)) + Cardinality(Owing(l))

LeadOK(l) == /\ SoloOK(l) /\ StageOK(l) /\ OwnerOK(l)
             /\ NoteOK(l) /\ ReceivedOK(l) /\ TasksOK(l)
TInv == \A l \in PortalLeads : LeadOK(l)

NotesType == notes \in [PortalLeads -> Nat]

\* Nobody new is changing the lead; nobody began or ceased to tell.
Fewer(l, k) ==
    \A h \in Handlers : Changing(h, l, k)' => Changing(h, l, k) /\ asking'[h].from = asking[h].from
Silent(l, k) ==
    \A h \in Handlers : /\ TellingOf(h, l, k)' <=> TellingOf(h, l, k)
                        /\ TellingOf(h, l, k) => asking'[h].to = asking[h].to

\* The board's invariant is at hand wherever its rows are spoken of.
LEMMA BoardTypes ==
    ASSUME BInv
    PROVE  /\ story \in [PortalLeads -> Seq(Entries)] /\ asking \in [Handlers -> Requests]
           /\ \A l \in PortalLeads : ~Alive(l) => story[l] = <<>>
           /\ LeadType /\ TaskType
BY DEF BInv, RowsInv, AskInv, AskType, StoryType, EmptyInv

\* The places of a kind are finitely many.
LEMMA KindsFinite ==
    ASSUME NEW s \in Seq(Entries), NEW k
    PROVE  /\ Kinds(s, k) \subseteq 1 .. Len(s) /\ IsFiniteSet(Kinds(s, k))
           /\ Cardinality(Kinds(s, k)) \in Nat
<1>1. Kinds(s, k) \subseteq 1 .. Len(s) /\ Len(s) \in Nat
  BY DEF Kinds
<1>2. IsFiniteSet(1 .. Len(s))
  BY <1>1, FS_Interval
<1>3. Kinds(s, k) \in SUBSET (1 .. Len(s))
  BY <1>1
<1>4. IsFiniteSet(Kinds(s, k))
  BY <1>2, <1>3, FS_Subset
<1> QED
  BY <1>1, <1>4, FS_CardinalityType

\* What an entry at the end changes of the places of a kind.
LEMMA KindsGrow ==
    ASSUME NEW s \in Seq(Entries), NEW e \in Entries, NEW k
    PROVE  LET t == Append(s, e)
           IN  /\ t \in Seq(Entries) /\ Len(t) = Len(s) + 1 /\ t[Len(t)] = e
               /\ \A i \in 1 .. Len(s) : t[i] = s[i]
               /\ Kinds(t, k) = IF e.kind = k THEN Kinds(s, k) \cup {Len(s) + 1} ELSE Kinds(s, k)
               /\ Cardinality(Kinds(t, k)) =
                     Cardinality(Kinds(s, k)) + IF e.kind = k THEN 1 ELSE 0
<1> DEFINE t == Append(s, e)
<1>1. /\ t \in Seq(Entries) /\ Len(t) = Len(s) + 1 /\ t[Len(t)] = e /\ Len(s) \in Nat
      /\ \A i \in 1 .. Len(s) : t[i] = s[i]
      /\ DOMAIN t = 1 .. Len(s) + 1 /\ DOMAIN s = 1 .. Len(s)
  OBVIOUS
<1> HIDE DEF t
<1>2. Kinds(t, k) = IF e.kind = k THEN Kinds(s, k) \cup {Len(s) + 1} ELSE Kinds(s, k)
  BY <1>1 DEF Kinds
<1>3. Len(s) + 1 \notin Kinds(s, k)
  BY <1>1 DEF Kinds
<1>4. Cardinality(Kinds(t, k)) = Cardinality(Kinds(s, k)) + IF e.kind = k THEN 1 ELSE 0
  <2>1. IsFiniteSet(Kinds(s, k)) /\ Cardinality(Kinds(s, k)) \in Nat
    BY KindsFinite
  <2>2. Cardinality(Kinds(s, k) \cup {Len(s) + 1}) = Cardinality(Kinds(s, k)) + 1
    BY <1>3, <2>1, FS_AddElement
  <2> QED
    BY <1>2, <2>1, <2>2
<1> QED
  BY <1>1, <1>2, <1>4 DEF t

\* Every set of naturals has a least element: they are well founded.
Smaller == {p \in Nat \X Nat : p[1] < p[2]}
LEMMA Least == ASSUME NEW T, T \subseteq Nat, T # {} PROVE \E m \in T : \A x \in T : m <= x
<1>1. Smaller = OpToRel(<, Nat)
  BY Zenon DEF Smaller, OpToRel
<1>2. IsWellFoundedOn(Smaller, Nat)
  BY Zenon, <1>1, NatLessThanWellFounded
<1>3. PICK m \in T : \A x \in T : ~(<<x, m>> \in Smaller)
  BY <1>2, WFMin
<1>4. ASSUME NEW x \in T PROVE m <= x
  <2>1. <<x, m>> \notin Smaller /\ x \in Nat /\ m \in Nat
    BY <1>3
  <2>2. ~(x < m)
    BY <2>1 DEF Smaller
  <2> QED
    BY <2>1, <2>2
<1> QED
  BY <1>4

\* Of finitely many places, one is the last.
LEMMA LastPlace ==
    ASSUME NEW n \in Nat, NEW S, S \subseteq 1 .. n, S # {}
    PROVE  /\ Max(S) \in S /\ \A x \in S : x <= Max(S)
           /\ \A m \in S : (\A x \in S : x <= m) => m = Max(S)
<1> DEFINE T == {n - x : x \in S}
<1>1. T \subseteq Nat /\ T # {}
  <2>1. \A x \in S : x \in 1 .. n /\ n - x \in Nat
    OBVIOUS
  <2> QED
    BY <2>1
<1> HIDE DEF T
<1>2. PICK m \in T : \A x \in T : m <= x
  BY <1>1, Least
<1>3. \E y \in S : \A x \in S : x <= y
  <2>1. PICK y \in S : m = n - y
    BY DEF T
  <2>2. ASSUME NEW x \in S PROVE x <= y
    <3>1. n - x \in T /\ x \in Nat /\ y \in Nat
      BY DEF T
    <3> QED
      BY <1>2, <2>1, <3>1
  <2> QED
    BY <2>2
<1>4. Max(S) \in S /\ \A x \in S : x <= Max(S)
  BY <1>3 DEF Max
<1>5. ASSUME NEW z \in S, \A x \in S : x <= z PROVE z = Max(S)
  <2>1. z <= Max(S) /\ Max(S) <= z /\ z \in 1 .. n /\ Max(S) \in 1 .. n
    BY <1>4, <1>5
  <2> QED
    BY <2>1
<1> QED
  BY <1>4, <1>5

\* An entry at the end changes nothing of what earlier ones left.
LEMMA LeftBefore ==
    ASSUME NEW s \in Seq(Entries), NEW e \in Entries, NEW k, NEW v, NEW i \in 1 .. Len(s) + 1
    PROVE  LeftBy(Append(s, e), k, i, v) = LeftBy(s, k, i, v)
<1> DEFINE t == Append(s, e)
           B == Before(s, k, i)
<1>1. Kinds(s, k) \subseteq 1 .. Len(s) /\ Len(s) \in Nat
  BY KindsFinite
<1>2. /\ \A j \in 1 .. Len(s) : t[j] = s[j]
      /\ Kinds(t, k) = IF e.kind = k THEN Kinds(s, k) \cup {Len(s) + 1} ELSE Kinds(s, k)
  BY KindsGrow
<1> HIDE DEF t
<1>3. Before(t, k, i) = B /\ B \subseteq 1 .. Len(s)
  BY <1>1, <1>2 DEF Before
<1>4. B # {} => Max(B) \in 1 .. Len(s)
  BY <1>1, <1>3, LastPlace
<1> HIDE DEF B
<1> QED
  BY <1>2, <1>3, <1>4 DEF LeftBy, t, B

\* An entry of another kind says nothing new.
LEMMA SaysNothing ==
    ASSUME NEW s \in Seq(Entries), NEW e \in Entries, NEW k, NEW v, e.kind # k
    PROVE  LET t == Append(s, e)
           IN  /\ LeftInAll(t, k, v) = LeftInAll(s, k, v)
               /\ Chained(s, k, v) => Chained(t, k, v)
<1> DEFINE t == Append(s, e)
           n == Len(s) + 1
<1>1. /\ Kinds(s, k) \subseteq 1 .. Len(s) /\ Len(s) \in Nat /\ Kinds(t, k) = Kinds(s, k)
      /\ Len(t) = n /\ \A j \in 1 .. Len(s) : t[j] = s[j]
  BY KindsFinite, KindsGrow
<1>2. \A i \in 1 .. n : LeftBy(t, k, i, v) = LeftBy(s, k, i, v)
  BY LeftBefore
<1> HIDE DEF t
<1>3. Before(t, k, n + 1) = Before(t, k, n)
  BY <1>1 DEF Before
<1>4. LeftBy(t, k, n + 1, v) = LeftBy(t, k, n, v)
  BY <1>3 DEF LeftBy
<1>5. LeftInAll(t, k, v) = LeftInAll(s, k, v)
  BY <1>1, <1>2, <1>4 DEF LeftInAll
<1>6. ASSUME Chained(s, k, v) PROVE Chained(t, k, v)
  BY <1>1, <1>2, <1>6 DEF Chained
<1> QED
  BY <1>5, <1>6 DEF t

\* An entry of this kind, that goes on from where the timeline left off, has the last word.
LEMMA LastWord ==
    ASSUME NEW s \in Seq(Entries), NEW e \in Entries, NEW v
    PROVE  LET t == Append(s, e)
           IN  /\ LeftInAll(t, e.kind, v) = e.to
               /\ Chained(s, e.kind, v) /\ e.from = LeftInAll(s, e.kind, v) =>
                     Chained(t, e.kind, v)
<1> DEFINE t == Append(s, e)
           n == Len(s) + 1
           k == e.kind
<1>1. /\ Kinds(s, k) \subseteq 1 .. Len(s) /\ Len(s) \in Nat
      /\ Kinds(t, k) = Kinds(s, k) \cup {n}
      /\ Len(t) = n /\ t[n] = e /\ \A j \in 1 .. Len(s) : t[j] = s[j]
  BY KindsFinite, KindsGrow
<1>2. \A i \in 1 .. n : LeftBy(t, k, i, v) = LeftBy(s, k, i, v)
  BY LeftBefore
<1> HIDE DEF t
<1>3. LeftInAll(t, k, v) = e.to
  <2>1. /\ Before(t, k, n + 1) \subseteq 1 .. n /\ n \in Before(t, k, n + 1)
        /\ \A j \in Before(t, k, n + 1) : j <= n
    BY <1>1 DEF Before
  <2>2. Max(Before(t, k, n + 1)) = n
    BY <1>1, <2>1, LastPlace
  <2> QED
    BY <1>1, <2>1, <2>2 DEF LeftInAll, LeftBy
<1>4. ASSUME Chained(s, k, v), e.from = LeftInAll(s, k, v) PROVE Chained(t, k, v)
  <2> SUFFICES ASSUME NEW i \in Kinds(t, k) PROVE t[i].from = LeftBy(t, k, i, v)
    BY DEF Chained
  <2>1. CASE i = n
    BY <1>1, <1>2, <1>4, <2>1 DEF LeftInAll
  <2>2. CASE i \in Kinds(s, k)
    BY <1>1, <1>2, <1>4, <2>2 DEF Chained
  <2> QED
    BY <1>1, <2>1, <2>2
<1> QED
  BY <1>3, <1>4 DEF t

\* What a lead says of itself holds on while its rows, its timeline and the requests
\* of the kind stay; one lemma for each part.
LEMMA SoloKept ==
    ASSUME NEW l \in PortalLeads, SoloOK(l), gaps \subseteq gaps', Alive(l)' => Alive(l),
           \A k \in Shared : Fewer(l, k)
    PROVE  SoloOK(l)'
BY DEF SoloOK, Clear, Fewer

LEMMA StageKept ==
    ASSUME NEW l \in PortalLeads, StageOK(l), gaps \subseteq gaps', Alive(l)' => Alive(l),
           Fewer(l, "stage_change"), Silent(l, "stage_change"),
           portalLead'[l].stage = portalLead[l].stage,
           LeftInAll(story'[l], "stage_change", "nouveau") =
              LeftInAll(story[l], "stage_change", "nouveau"),
           Chained(story[l], "stage_change", "nouveau") =>
              Chained(story'[l], "stage_change", "nouveau")
    PROVE  StageOK(l)'
<1> SUFFICES ASSUME Clear(l, "stage_change")' PROVE StageOK(l)'
  BY DEF StageOK
<1>1. Clear(l, "stage_change")
  BY DEF Clear
<1>2. Telling(l, "stage_change") => Telling(l, "stage_change")'
  BY DEF Telling, Silent, TellingOf
<1> QED
  BY <1>1, <1>2 DEF StageOK, Fewer, Silent

LEMMA OwnerKept ==
    ASSUME NEW l \in PortalLeads, OwnerOK(l), gaps \subseteq gaps', Alive(l)' => Alive(l),
           Silent(l, "owner_change"), portalLead'[l].owner = portalLead[l].owner,
           LeftInAll(story'[l], "owner_change", None) = LeftInAll(story[l], "owner_change", None)
    PROVE  OwnerOK(l)'
<1> SUFFICES ASSUME Clear(l, "owner_change")' PROVE OwnerOK(l)'
  BY DEF OwnerOK
<1>1. Clear(l, "owner_change")
  BY DEF Clear
<1>2. Telling(l, "owner_change") => Telling(l, "owner_change")'
  BY DEF Telling, Silent, TellingOf
<1> QED
  BY <1>1, <1>2 DEF OwnerOK, Silent

LEMMA NoteKept ==
    ASSUME NEW l \in PortalLeads, NoteOK(l), gaps \subseteq gaps', Alive(l)' <=> Alive(l),
           Silent(l, "note"), notes'[l] = notes[l],
           Cardinality(Kinds(story'[l], "note")) = Cardinality(Kinds(story[l], "note"))
    PROVE  NoteOK(l)'
<1>1. Clear(l, "note")' => Clear(l, "note")
  BY DEF Clear
<1>2. Telling(l, "note")' <=> Telling(l, "note")
  BY DEF Telling, Silent, TellingOf
<1> QED
  BY <1>1, <1>2 DEF NoteOK, Count

LEMMA ReceivedKept ==
    ASSUME NEW l \in PortalLeads, ReceivedOK(l), gaps \subseteq gaps', Alive(l)' => Alive(l),
           Silent(l, "lead"),
           Cardinality(Kinds(story'[l], "lead")) = Cardinality(Kinds(story[l], "lead"))
    PROVE  ReceivedOK(l)'
<1>1. Clear(l, "lead")' => Clear(l, "lead")
  BY DEF Clear
<1>2. Telling(l, "lead")' <=> Telling(l, "lead")
  BY DEF Telling, Silent, TellingOf
<1>3. \A h \in Handlers : TellingOf(h, l, "lead")' => TellingOf(h, l, "lead")
  BY DEF Silent
<1> QED
  BY <1>1, <1>2, <1>3 DEF ReceivedOK, Count

LEMMA TasksStay ==
    ASSUME NEW l \in PortalLeads, TasksOK(l), gaps \subseteq gaps', Alive(l)' => Alive(l),
           TasksAbout(l)' = TasksAbout(l), Owing(l)' = Owing(l),
           \A k \in {"lead", "reminder"} :
              Cardinality(Kinds(story'[l], k)) = Cardinality(Kinds(story[l], k))
    PROVE  TasksOK(l)'
<1>1. Clear(l, "task")' => Clear(l, "task")
  BY DEF Clear
<1> QED
  BY <1>1 DEF TasksOK, Count

\* A lead nobody writes or speaks of.
LEMMA Unspoken ==
    ASSUME NEW l \in PortalLeads, LeadOK(l), gaps \subseteq gaps',
           Alive(l)' <=> Alive(l), portalLead'[l].stage = portalLead[l].stage,
           portalLead'[l].owner = portalLead[l].owner, notes'[l] = notes[l],
           story'[l] = story[l], \A k \in Shared : Fewer(l, k), \A k \in Spoken : Silent(l, k),
           TasksAbout(l)' = TasksAbout(l), Owing(l)' = Owing(l)
    PROVE  LeadOK(l)'
<1>1. /\ Fewer(l, "stage_change") /\ Silent(l, "stage_change") /\ Silent(l, "owner_change")
      /\ Silent(l, "note") /\ Silent(l, "lead")
  BY DEF Spoken, Shared
<1> QED
  BY <1>1, SoloKept, StageKept, OwnerKept, NoteKept, ReceivedKept, TasksStay DEF LeadOK

\* A lead that is gone, or not there yet, has little to say.
LEMMA GoneOK ==
    ASSUME NEW l \in PortalLeads, ~Alive(l)', notes'[l] = 0,
           \A g, h \in Handlers : TellingOf(g, l, "lead")' /\ TellingOf(h, l, "lead")' => g = h,
           IsFiniteSet(TasksAbout(l)'), IsFiniteSet(Owing(l)')
    PROVE  LeadOK(l)'
BY DEF LeadOK, SoloOK, StageOK, OwnerOK, NoteOK, ReceivedOK, TasksOK, Clear

\* A request that neither was nor is between the writing, the telling and the task of the lead.
LEMMA Elsewhere ==
    ASSUME BInv, NEW h \in Handlers, NEW r, asking' = [asking EXCEPT ![h] = r], NEW l,
           asking[h].lead # l \/ asking[h].pc \notin Moving,
           r.lead # l \/ r.pc \notin Moving
    PROVE  /\ \A k \in Shared : Fewer(l, k)
           /\ \A k \in Spoken : Silent(l, k)
           /\ Owing(l)' = Owing(l)
<1>1. asking'[h] = r /\ \A g \in Handlers \ {h} : asking'[g] = asking[g]
  BY BoardTypes
<1>2. (\A k \in Shared : Fewer(l, k)) /\ (\A k \in Spoken : Silent(l, k))
  BY <1>1 DEF Fewer, Silent, Changing, TellingOf, Moving
<1>3. Owing(l)' = Owing(l)
  BY <1>1 DEF Owing, Moving
<1> QED
  BY <1>2, <1>3

\* So a step of a request leaves a lead alone when it is about another, or ends there.
LEMMA NotThisLead ==
    ASSUME BInv, TInv, NEW h \in Handlers, NEW r, asking' = [asking EXCEPT ![h] = r],
           gaps \subseteq gaps', NEW l \in PortalLeads,
           asking[h].lead # l \/ asking[h].pc \notin Moving, r.lead # l \/ r.pc \notin Moving,
           Alive(l)' <=> Alive(l), portalLead'[l].stage = portalLead[l].stage,
           portalLead'[l].owner = portalLead[l].owner, notes'[l] = notes[l],
           story'[l] = story[l], TasksAbout(l)' = TasksAbout(l)
    PROVE  LeadOK(l)'
BY Elsewhere, Unspoken DEF TInv

\* At rest a request speaks of no lead.
LEMMA RestElsewhere == Rest.pc \notin Moving /\ Rest.lead = None
BY DEF Rest, Moving

\* No lead is there, and nobody speaks of one.
LEMMA InitTInv == BoardInit => TInv
<1> SUFFICES ASSUME BoardInit, NEW l \in PortalLeads PROVE LeadOK(l)
  BY DEF TInv
<1> USE BoardAssumption
<1>1. ~Alive(l) /\ notes[l] = 0
  BY DEF BoardInit, Alive, NoPortalLead
<1>2. \A h \in Handlers : asking[h] = Rest
  BY DEF BoardInit
<1>3. TasksAbout(l) = {} /\ Owing(l) = {}
  BY <1>2, RestElsewhere DEF BoardInit, TasksAbout, NoTask, Owing
<1>4. \A h \in Handlers : ~TellingOf(h, l, "lead")
  BY <1>2, RestElsewhere DEF TellingOf
<1>5. IsFiniteSet(TasksAbout(l)) /\ IsFiniteSet(Owing(l))
  BY <1>3, FS_EmptySet
<1> QED
  BY <1>1, <1>4, <1>5 DEF LeadOK, SoloOK, StageOK, OwnerOK, NoteOK, ReceivedOK, TasksOK, Clear

\* A request that speaks of no lead, before or after its step, and leaves the leads as they are.
LEMMA SilentStep ==
    ASSUME BInv, TInv, NEW h \in Handlers, NEW r, asking' = [asking EXCEPT ![h] = r],
           asking[h].pc \notin Moving, r.pc \notin Moving,
           UNCHANGED <<portalLead, notes, story, gaps>>,
           \A t \in PortalTasks : portalTask'[t].lead = portalTask[t].lead
    PROVE  TInv'
<1> SUFFICES ASSUME NEW l \in PortalLeads PROVE LeadOK(l)'
  BY DEF TInv
<1>1. TasksAbout(l)' = TasksAbout(l)
  BY DEF TasksAbout
<1> QED
  BY <1>1, NotThisLead DEF Alive

\* The steps of requests that concern other rows.
LEMMA SilentSteps ==
    ASSUME BInv, TInv, NEW h \in Handlers,
           \/ Validate(h) \/ TouchTask(h) \/ AddPipeline(h) \/ LookUpMember(h) \/ WriteMember(h)
    PROVE  TInv'
<1>1. CASE Validate(h)
  <2>1. PICK c \in Clients : Asked(h, c)
    BY <1>1 DEF Validate, BInv, AskInv, AskType
  <2>2. PICK r : Asks(h, r) /\ r.pc \notin {"write", "tell", "task"}
    BY <2>1, AskedOK
  <2>3. asking[h].pc \notin Moving /\ r.pc \notin Moving
    BY <1>1, <2>2 DEF Validate, Moving
  <2> QED
    BY <1>1, <2>2, <2>3, SilentStep DEF Validate, Asks
<1>2. CASE TouchTask(h)
  <2>1. /\ asking[h].pc \notin Moving /\ asking' = [asking EXCEPT ![h] = Rest]
        /\ UNCHANGED <<portalLead, notes, story, gaps>>
    BY <1>2 DEF TouchTask, Leave, Moving
  <2>2. \A t \in PortalTasks : portalTask'[t].lead = portalTask[t].lead
    BY <1>2, TouchedTasks
  <2> QED
    BY <2>1, <2>2, RestElsewhere, SilentStep
<1>3. CASE AddPipeline(h) \/ WriteMember(h)
  <2>1. /\ asking[h].pc \notin Moving /\ asking' = [asking EXCEPT ![h] = Rest]
        /\ UNCHANGED <<portalLead, notes, story, gaps, portalTask>>
    BY <1>3 DEF AddPipeline, WriteMember, Leave, Moving
  <2> QED
    BY <2>1, RestElsewhere, SilentStep
<1>4. CASE LookUpMember(h)
  <2>1. /\ asking[h].pc \notin Moving /\ UNCHANGED <<portalLead, notes, story, gaps, portalTask>>
        /\ Leave(h) \/ Continue(h, "member")
    BY <1>4 DEF LookUpMember, Moving
  <2>2. CASE Leave(h)
    BY <2>1, <2>2, RestElsewhere, SilentStep DEF Leave
  <2>3. CASE Continue(h, "member")
    <3> DEFINE r == [asking[h] EXCEPT !.pc = "member"]
    <3>1. asking' = [asking EXCEPT ![h] = r]
      BY <2>3, BoardTypes DEF Continue, Requests
    <3>2. r.pc \notin Moving
      BY BoardTypes DEF Requests, Moving
    <3> QED
      BY <2>1, <3>1, <3>2, SilentStep
  <2> QED
    BY <2>1, <2>2, <2>3
<1> QED
  BY <1>1, <1>2, <1>3, <1>4

\* An account turned on or off, a task fallen due, or nothing at all.
LEMMA IdleSteps ==
    ASSUME BInv, TInv, SetActive \/ TaskFallsDue \/ UNCHANGED <<boardVars, counters>>
    PROVE  TInv'
<1>1. UNCHANGED <<portalLead, notes, story, gaps, asking>>
  BY DEF SetActive, TaskFallsDue, boardVars
<1>2. \A t \in PortalTasks : portalTask'[t].lead = portalTask[t].lead
  BY BoardTypes DEF SetActive, TaskFallsDue, boardVars, TaskType
<1> SUFFICES ASSUME NEW l \in PortalLeads PROVE LeadOK(l)'
  BY DEF TInv
<1>3. TasksAbout(l)' = TasksAbout(l) /\ Owing(l)' = Owing(l)
  BY <1>1, <1>2 DEF TasksAbout, Owing
<1>4. (\A k \in Shared : Fewer(l, k)) /\ (\A k \in Spoken : Silent(l, k))
  BY <1>1 DEF Fewer, Silent, Changing, TellingOf
<1> QED
  BY <1>1, <1>3, <1>4, Unspoken DEF TInv, Alive

\* A pipeline that was looked at for a lead or for a task says nothing of a lead yet.
LEMMA AssertPipelineTale ==
    ASSUME BInv, TInv, NEW h \in Handlers, AssertPipeline(h)
    PROVE  TInv'
<1>1. /\ asking[h].pc = "pipe" /\ asking[h].op \in {"lead", "task"}
      /\ UNCHANGED <<portalLead, notes, story, gaps, portalTask>>
  BY Holding DEF AssertPipeline, FlowOK
<1>2. CASE Leave(h)
  BY <1>1, <1>2, RestElsewhere, SilentStep DEF Leave, Moving
<1>3. CASE Continue(h, IF asking[h].op = "lead" THEN "write" ELSE "task")
  <2> SUFFICES ASSUME NEW l \in PortalLeads PROVE LeadOK(l)'
    BY DEF TInv
  <2>1. /\ asking'[h].op = asking[h].op
        /\ asking'[h].pc = IF asking[h].op = "lead" THEN "write" ELSE "task"
        /\ \A g \in Handlers \ {h} : asking'[g] = asking[g]
    BY <1>3, BoardTypes DEF Continue, Requests
  <2>2. (\A k \in Shared : Fewer(l, k)) /\ (\A k \in Spoken : Silent(l, k))
    BY <1>1, <2>1 DEF Fewer, Silent, Changing, TellingOf, Shared
  <2>3. TasksAbout(l)' = TasksAbout(l) /\ Owing(l)' = Owing(l)
    BY <1>1, <2>1 DEF TasksAbout, Owing
  <2> QED
    BY <1>1, <2>2, <2>3, Unspoken DEF TInv, Alive
<1> QED
  BY <1>2, <1>3 DEF AssertPipeline

\* A request that read the lead it will change; another one that had read it makes a gap.
LEMMA AssertLeadTale ==
    ASSUME BInv, TInv, NEW h \in Handlers, AssertLead(h)
    PROVE  TInv'
<1> DEFINE q == asking[h]
           x == q.lead
<1>1. /\ q.pc = "own" /\ q \in Requests /\ FlowOK(q) /\ x \in PortalLeads
      /\ q.op \in {"stage_change", "owner_change", "note", "reminder", "task"}
      /\ UNCHANGED <<portalLead, notes, story, portalTask>>
  BY Holding DEF AssertLead, FlowOK
<1>2. CASE Leave(h) /\ UNCHANGED gaps
  BY <1>1, <1>2, RestElsewhere, SilentStep DEF Leave, Moving
<1>3. ASSUME OwnsLead(q),
             asking' = [asking EXCEPT ![h] = [q EXCEPT
                          !.pc   = AfterOwned(q), !.from = portalLead[x].stage,
                          !.pipe = IF q.op = "reminder" THEN portalLead[x].pipe ELSE @]],
             gaps' = IF Overlapping(h) = {} THEN gaps ELSE gaps \cup {<<x, q.op>>}
      PROVE  TInv'
  <2>1. /\ asking'[h].lead = x /\ asking'[h].op = q.op /\ asking'[h].to = q.to
        /\ asking'[h].from = portalLead[x].stage /\ asking'[h].pc = AfterOwned(q)
        /\ \A g \in Handlers \ {h} : asking'[g] = asking[g]
    BY <1>1, <1>3, BoardTypes DEF Requests
  <2>2. asking'[h].pc = IF q.op \in Shared THEN "write" ELSE IF q.op = "reminder" THEN "tell"
                                                                              ELSE "pipe"
    BY <1>1, <2>1 DEF AfterOwned, Shared
  <2>3. gaps \subseteq gaps'
    BY <1>3
  <2> HIDE DEF q, x
  <2>0. PICK o : o = q.op
    OBVIOUS
  <2> SUFFICES ASSUME NEW l \in PortalLeads PROVE LeadOK(l)'
    BY DEF TInv
  <2>4. TasksAbout(l)' = TasksAbout(l) /\ Owing(l)' = Owing(l) /\ LeadOK(l)
        /\ (Alive(l)' <=> Alive(l))
    BY <1>1, <2>1, <2>2 DEF TasksAbout, Owing, TInv, Alive, q
  <2>5. \A k \in Spoken : Silent(l, k)
    BY <1>1, <2>1, <2>2 DEF Silent, TellingOf, Spoken, Shared, q
  <2>6. \A k \in Shared : (l # x \/ k # q.op) => Fewer(l, k)
    BY <1>1, <2>1, <2>2 DEF Fewer, Changing, q, x
  <2>7. CASE l # x \/ q.op \notin Shared
    BY <1>1, <2>3, <2>4, <2>5, <2>6, <2>7, Unspoken
  <2>8. CASE l = x /\ o \in Shared
    <3>1. Clear(l, o)' => /\ Clear(l, o)
                            /\ \A g \in Handlers : ~Changing(g, l, o)
                            /\ ~Telling(l, o)
      <4> SUFFICES ASSUME Clear(l, o)'
                   PROVE  /\ Clear(l, o) /\ \A g \in Handlers : ~Changing(g, l, o)
                          /\ ~Telling(l, o)
        OBVIOUS
      <4>1. Overlapping(h) = {} /\ Clear(l, o)
        BY <1>3, <2>0, <2>3, <2>4, <2>8 DEF Clear
      <4>2. \A g \in Handlers : ~Changing(g, l, o)
        BY <1>1, <2>0, <2>8, <4>1 DEF Overlapping, Changing, q, x
      <4> QED
        BY <4>1, <4>2 DEF Telling, Changing
    <3>2. SoloOK(l)'
      <4> SUFFICES ASSUME NEW k \in Shared, Clear(l, k)', NEW f \in Handlers, NEW g \in Handlers,
                          Changing(f, l, k)', Changing(g, l, k)'
                   PROVE  f = g
        BY DEF SoloOK
      <4>1. CASE k = o
        BY <2>1, <3>1, <4>1 DEF Changing
      <4>2. CASE k # o
        <5>1. Clear(l, k) /\ Changing(f, l, k) /\ Changing(g, l, k)
          BY <2>0, <2>3, <2>4, <2>6, <4>2 DEF Clear, Fewer
        <5> QED
          BY <2>4, <5>1 DEF LeadOK, SoloOK
      <4> QED
        BY <4>1, <4>2
    <3>3. StageOK(l)'
      <4>1. CASE o # "stage_change"
        <5>1. Fewer(l, "stage_change") /\ Silent(l, "stage_change")
          BY <2>0, <2>5, <2>6, <4>1 DEF Spoken, Shared
        <5> QED
          BY <1>1, <2>3, <2>4, <5>1, StageKept DEF LeadOK
      <4>2. CASE o = "stage_change"
        <5> SUFFICES ASSUME Clear(l, "stage_change")' PROVE StageOK(l)'
          BY DEF StageOK
        <5>1. /\ Clear(l, "stage_change") /\ ~Telling(l, "stage_change")
              /\ \A g \in Handlers : ~Changing(g, l, "stage_change")
          BY <3>1, <4>2
        <5>2. /\ portalLead[l].stage = LeftInAll(story[l], "stage_change", "nouveau")
              /\ Chained(story[l], "stage_change", "nouveau")
          BY <2>4, <5>1 DEF LeadOK, StageOK
        <5>3. \A g \in Handlers : /\ Changing(g, l, "stage_change")' => g = h
                                  /\ ~TellingOf(g, l, "stage_change")'
          BY <2>0, <2>1, <2>2, <2>8, <4>2, <5>1 DEF Changing, TellingOf
        <5> QED
          BY <1>1, <2>1, <2>8, <5>2, <5>3 DEF StageOK
      <4> QED
        BY <4>1, <4>2
    <3>4. OwnerOK(l)' /\ NoteOK(l)' /\ ReceivedOK(l)'
      <4>1. Silent(l, "owner_change") /\ Silent(l, "note") /\ Silent(l, "lead")
        BY <2>5 DEF Spoken, Shared
      <4> QED
        BY <1>1, <2>3, <2>4, <4>1, OwnerKept, NoteKept, ReceivedKept DEF LeadOK
    <3>5. TasksOK(l)'
      BY <1>1, <2>3, <2>4, TasksStay DEF LeadOK
    <3> QED
      BY <3>2, <3>3, <3>4, <3>5 DEF LeadOK
  <2> QED
    BY <2>0, <2>7, <2>8
<1> QED
  BY <1>2, <1>3 DEF AssertLead

\* A lead that comes has everything before it; nobody had asked about it.
LEMMA InsertTale ==
    ASSUME BInv, TInv, NEW h \in Handlers, WriteLead(h), Insert(asking[h]), Continue(h, "tell")
    PROVE  TInv'
<1> DEFINE q == asking[h]
<1>0. PICK x : x = q.lead
  OBVIOUS
<1>1. /\ q.pc = "write" /\ q.op = "lead" /\ q \in Requests /\ FlowOK(q) /\ x \in PortalLeads
      /\ q.client \in Clients /\ UNCHANGED <<notes, story, portalTask, gaps>>
      /\ portalLead' = [portalLead EXCEPT ![x] = NewLead(q)]
  BY <1>0, Holding DEF WriteLead, Insert, FlowOK
<1>2. /\ portalLead'[x] = NewLead(q) /\ \A l \in PortalLeads \ {x} : portalLead'[l] = portalLead[l]
  BY <1>1, BoardTypes DEF LeadType
<1>3. /\ asking'[h].pc = "tell" /\ asking'[h].lead = x /\ asking'[h].op = "lead"
      /\ asking' = [asking EXCEPT ![h] = [q EXCEPT !.pc = "tell"]]
      /\ \A g \in Handlers \ {h} : asking'[g] = asking[g]
  BY <1>0, <1>1, BoardTypes DEF Continue, Requests
<1>4. portalLead[x].client = None /\ ~Alive(x) /\ story[x] = <<>> /\ notes[x] = 0
  <2>1. portalLead[x].client = None
    BY <1>0, <1>1 DEF BInv, AskInv, FreshInv, Drawing
  <2>2. ~Alive(x)
    BY <2>1, BoardAssumption DEF Alive
  <2> QED
    BY <1>1, <2>1, <2>2, BoardTypes DEF TInv, LeadOK, NoteOK
<1>5. \A g \in Handlers \ {h} :
          asking[g].lead = x => /\ asking[g].pc \notin {"tell", "task"}
                                /\ asking[g].pc = "write" => asking[g].op = "lead"
  <2> SUFFICES ASSUME NEW g \in Handlers \ {h}, asking[g].lead = x, HoldsLead(asking[g])
               PROVE  FALSE
    BY DEF HoldsLead
  <2>1. portalLead[x].client \in {asking[g].client, Gone} /\ asking[g].client \in Clients
    BY Holding DEF HoldOK, FlowOK, HoldsLead
  <2> QED
    BY <1>4, <2>1, BoardAssumption DEF Gone
<1> SUFFICES ASSUME NEW l \in PortalLeads PROVE LeadOK(l)'
  BY DEF TInv
<1>6. CASE l # x
  <2>1. TasksAbout(l)' = TasksAbout(l) /\ portalLead'[l] = portalLead[l]
    BY <1>1, <1>2, <1>6 DEF TasksAbout
  <2>2. asking[h].lead # l /\ [q EXCEPT !.pc = "tell"].lead # l
    BY <1>0, <1>1, <1>6 DEF Requests
  <2> QED
    BY <1>1, <1>3, <2>1, <2>2, NotThisLead DEF Alive
<1>7. CASE l = x
  <2>1. Kinds(<<>>, "lead") = {} /\ Kinds(<<>>, "note") = {} /\ Kinds(<<>>, "stage_change") = {}
        /\ Kinds(<<>>, "reminder") = {} /\ Kinds(<<>>, "owner_change") = {}
    BY DEF Kinds
  <2>2. /\ \A g \in Handlers, k \in Shared : ~Changing(g, x, k)'
        /\ \A g \in Handlers : TellingOf(g, x, "lead")' <=> g = h
    BY <1>3, <1>5 DEF Changing, TellingOf, Shared
  <2>3. \A k \in Shared : ~Telling(x, k)' /\ \A g \in Handlers : ~TellingOf(g, x, k)'
    BY <2>2 DEF Telling, TellingOf, Changing
  <2>4. portalLead'[x].stage = "nouveau" /\ portalLead'[x].owner = None /\ story'[x] = <<>>
        /\ notes'[x] = 0 /\ Alive(x)'
    <3>1. /\ portalLead'[x].stage = "nouveau" /\ portalLead'[x].owner = None
          /\ portalLead'[x].client = q.client
      BY <1>2 DEF NewLead, NoPortalLead
    <3> QED
      BY <1>1, <1>4, <3>1 DEF Alive
  <2>5. SoloOK(x)'
    BY <2>2 DEF SoloOK
  <2>6. StageOK(x)'
    BY <2>1, <2>2, <2>3, <2>4 DEF StageOK, Chained, LeftInAll, LeftBy, Before, Shared
  <2>7. OwnerOK(x)'
    BY <2>1, <2>3, <2>4 DEF OwnerOK, LeftInAll, LeftBy, Before, Shared
  <2>8. NoteOK(x)'
    <3>1. Count(x, "note")' = 0 /\ ~Telling(x, "note")'
      BY <2>1, <2>3, <2>4, FS_EmptySet DEF Count, Shared
    <3> QED
      BY <2>4, <3>1 DEF NoteOK
  <2>9. ReceivedOK(x)'
    BY <2>1, <2>2, <2>4, FS_EmptySet DEF ReceivedOK, Count, Telling, TellingOf
  <2>10. TasksOK(x)'
    <3>1. TasksAbout(x)' = TasksAbout(x) /\ Owing(x)' = Owing(x)
      BY <1>1, <1>3 DEF TasksAbout, Owing
    <3>2. IsFiniteSet(TasksAbout(x)) /\ IsFiniteSet(Owing(x))
      BY <1>1 DEF TInv, LeadOK, TasksOK
    <3>3. Count(x, "lead")' = 0 /\ Count(x, "reminder")' = 0
      BY <2>1, <2>4, FS_EmptySet DEF Count
    <3>4. Cardinality(TasksAbout(x)) \in Nat /\ Cardinality(Owing(x)) \in Nat
      BY <3>2, FS_CardinalityType
    <3> QED
      BY <3>1, <3>2, <3>3, <3>4 DEF TasksOK
  <2> QED
    BY <1>7, <2>5, <2>6, <2>7, <2>8, <2>9, <2>10 DEF LeadOK
<1> QED
  BY <1>6, <1>7

\* A change that is written and about to be told; or, of the stage to itself, not told.
LEMMA ChangeTale ==
    ASSUME BInv, TInv, NotesType, NEW h \in Handlers, WriteLead(h), Writable(asking[h]),
           \/ UpdateStage(h, asking[h])
           \/ (UpdateOwner(asking[h]) \/ CreateNote(asking[h])) /\ Continue(h, "tell")
    PROVE  TInv'
<1> DEFINE q == asking[h]
           x == q.lead
<1>0. PICK o : o = q.op
  OBVIOUS
<1>1. /\ q.pc = "write" /\ o \in Shared /\ q \in Requests /\ FlowOK(q) /\ x \in PortalLeads
      /\ UNCHANGED <<story, portalTask, gaps>>
  BY <1>0, Holding DEF WriteLead, UpdateStage, UpdateOwner, CreateNote, Shared, FlowOK
<1>2. PICK r : /\ asking' = [asking EXCEPT ![h] = r]
               /\ r = Rest \/ r = [q EXCEPT !.pc = "tell"]
               /\ r = Rest => o = "stage_change" /\ q.from = q.to
  <2>1. Leave(h) \/ Continue(h, "tell")
    BY DEF UpdateStage
  <2>2. Continue(h, "tell") => asking' = [asking EXCEPT ![h] = [q EXCEPT !.pc = "tell"]]
    BY BoardTypes DEF Continue, Requests
  <2>3. [q EXCEPT !.pc = "tell"] # Rest
    BY <1>1, RestElsewhere DEF Requests, Moving
  <2>4. CASE Leave(h) /\ UpdateStage(h, q)
    <3>1. o = "stage_change" /\ (q.from = q.to \/ Continue(h, "tell"))
      BY <1>0, <2>4 DEF UpdateStage
    <3> QED
      BY <2>2, <2>3, <2>4, <3>1 DEF Leave
  <2>5. CASE Continue(h, "tell")
    BY <2>2, <2>3, <2>5
  <2> QED
    BY <2>1, <2>4, <2>5 DEF UpdateStage
<1>3. /\ asking'[h] = r /\ \A g \in Handlers \ {h} : asking'[g] = asking[g]
      /\ r # Rest => r.pc = "tell" /\ r.lead = x /\ r.op = o /\ r.from = q.from /\ r.to = q.to
  BY <1>0, <1>1, <1>2, BoardTypes DEF Requests
<1>4. LeadType
  BY BoardTypes
<1>5. /\ \A l \in PortalLeads \ {x} : portalLead'[l] = portalLead[l] /\ notes'[l] = notes[l]
      /\ \A l \in PortalLeads : Alive(l)' <=> Alive(l)
  <2>1. CASE UpdateStage(h, q)
    BY <1>1, <1>4, <2>1 DEF LeadType, UpdateStage, Alive
  <2>2. CASE UpdateOwner(q)
    BY <1>1, <1>4, <2>2 DEF LeadType, UpdateOwner, Alive
  <2>3. CASE CreateNote(q)
    BY <1>1, <1>4, <2>3 DEF NotesType, CreateNote, Alive
  <2> QED
    BY <2>1, <2>2, <2>3
<1>6. /\ portalLead'[x].stage = IF o = "stage_change" THEN q.to ELSE portalLead[x].stage
      /\ portalLead'[x].owner = IF o = "owner_change" THEN q.to ELSE portalLead[x].owner
      /\ notes'[x] = IF o = "note" THEN notes[x] + 1 ELSE notes[x]
  <2>1. CASE UpdateStage(h, q)
    BY <1>0, <1>1, <1>4, <2>1 DEF LeadType, UpdateStage
  <2>2. CASE UpdateOwner(q)
    BY <1>0, <1>1, <1>4, <2>2 DEF LeadType, UpdateOwner
  <2>3. CASE CreateNote(q)
    BY <1>0, <1>1, <1>4, <2>3 DEF NotesType, CreateNote
  <2> QED
    BY <2>1, <2>2, <2>3
<1> HIDE DEF q, x
<1> SUFFICES ASSUME NEW l \in PortalLeads PROVE LeadOK(l)'
  BY DEF TInv
<1>7. TasksAbout(l)' = TasksAbout(l) /\ LeadOK(l)
  BY <1>1 DEF TasksAbout, TInv
<1>8. CASE l # x
  <2>1. asking[h].lead # l /\ (r.lead # l \/ r.pc \notin Moving)
    BY <1>1, <1>2, <1>3, <1>8, RestElsewhere DEF x, q
  <2> QED
    BY <1>1, <1>2, <1>5, <1>7, <1>8, <2>1, NotThisLead
<1>9. CASE l = x
  <2>1. Owing(l)' = Owing(l)
    BY <1>1, <1>3, RestElsewhere DEF Owing, Moving, q
  <2>2. \A k \in Shared : Fewer(l, k)
    BY <1>0, <1>1, <1>3, <1>9, RestElsewhere DEF Fewer, Changing, Moving, q, x
  <2>3. \A k \in Spoken : k # o => Silent(l, k)
    BY <1>0, <1>1, <1>3, RestElsewhere DEF Silent, TellingOf, Moving, q
  <2>4. \A g \in Handlers \ {h} : Clear(l, o) => ~Changing(g, l, o) /\ ~TellingOf(g, l, o)
    <3>1. Changing(h, l, o)
      BY <1>0, <1>1, <1>9 DEF Changing, q, x
    <3> QED
      BY <1>1, <1>7, <3>1 DEF LeadOK, SoloOK, Changing, TellingOf
  <2>5. ~TellingOf(h, l, o) /\ (TellingOf(h, l, o)' <=> r # Rest)
    BY <1>1, <1>3, <1>9, RestElsewhere DEF TellingOf, Moving, q
  <2>6. \A g \in Handlers \ {h} : (Changing(g, l, o)' <=> Changing(g, l, o))
                                  /\ (TellingOf(g, l, o)' <=> TellingOf(g, l, o))
    BY <1>3 DEF Changing, TellingOf
  <2>7. Clear(l, o)' <=> Clear(l, o)
    BY <1>1, <1>5 DEF Clear
  <2>8. SoloOK(l)'
    BY <1>1, <1>5, <1>7, <2>2, SoloKept DEF LeadOK
  <2>9. StageOK(l)'
    <3>1. CASE o # "stage_change"
      <4>1. Fewer(l, "stage_change") /\ Silent(l, "stage_change")
        BY <2>2, <2>3, <3>1 DEF Spoken, Shared
      <4> QED
        BY <1>1, <1>5, <1>6, <1>7, <1>9, <3>1, <4>1, StageKept DEF LeadOK
    <3>2. CASE o = "stage_change"
      <4> SUFFICES ASSUME Clear(l, "stage_change") PROVE StageOK(l)'
        BY <2>7, <3>2 DEF StageOK
      <4>1. Changing(h, l, "stage_change") /\ ~Telling(l, "stage_change")
        BY <1>0, <1>1, <1>9, <2>4, <2>5, <3>2 DEF Changing, Telling, TellingOf, q, x
      <4>2. /\ Chained(story[l], "stage_change", "nouveau")
            /\ q.from = LeftInAll(story[l], "stage_change", "nouveau")
        BY <1>7, <4>1 DEF LeadOK, StageOK, q
      <4>3. \A g \in Handlers \ {h} : /\ ~Changing(g, l, "stage_change")'
                                      /\ ~TellingOf(g, l, "stage_change")'
        BY <2>4, <2>6, <3>2
      <4>4. Telling(l, "stage_change")' <=> r # Rest
        BY <2>5, <3>2, <4>3 DEF Telling, TellingOf
      <4>5. Changing(h, l, "stage_change")' => r # Rest
        BY <1>3, RestElsewhere DEF Changing, Moving
      <4>6. portalLead'[l].stage = q.to
        BY <1>6, <1>9, <3>2
      <4> QED
        BY <1>1, <1>2, <1>3, <2>5, <3>2, <4>2, <4>3, <4>4, <4>5, <4>6 DEF StageOK
    <3> QED
      BY <3>1, <3>2
  <2>10. OwnerOK(l)'
    <3>1. CASE o # "owner_change"
      <4>1. Silent(l, "owner_change")
        BY <2>3, <3>1 DEF Spoken, Shared
      <4> QED
        BY <1>1, <1>5, <1>6, <1>7, <1>9, <3>1, <4>1, OwnerKept DEF LeadOK
    <3>2. CASE o = "owner_change"
      <4> SUFFICES ASSUME Clear(l, "owner_change") PROVE OwnerOK(l)'
        BY <2>7, <3>2 DEF OwnerOK
      <4>1. r # Rest /\ portalLead'[l].owner = q.to
        BY <1>2, <1>6, <1>9, <3>2
      <4>2. Telling(l, "owner_change")'
        BY <2>5, <3>2, <4>1 DEF Telling, TellingOf
      <4>3. \A g \in Handlers \ {h} : ~TellingOf(g, l, "owner_change")'
        BY <2>4, <2>6, <3>2
      <4> QED
        BY <1>3, <4>1, <4>2, <4>3 DEF OwnerOK
    <3> QED
      BY <3>1, <3>2
  <2>11. NoteOK(l)'
    <3>1. CASE o # "note"
      <4>1. Silent(l, "note")
        BY <2>3, <3>1 DEF Spoken, Shared
      <4> QED
        BY <1>1, <1>5, <1>6, <1>7, <1>9, <3>1, <4>1, NoteKept DEF LeadOK
    <3>2. CASE o = "note"
      <4>1. r # Rest /\ notes'[l] = notes[l] + 1 /\ notes[l] \in Nat
        BY <1>2, <1>6, <1>7, <1>9, <3>2 DEF LeadOK, NoteOK
      <4>2. Alive(l)
        BY <1>0, <1>1, <1>9, <3>2 DEF Writable, OwnsLead, Alive, FlowOK, q, x
      <4>3. Telling(l, "note")'
        BY <2>5, <3>2, <4>1 DEF Telling, TellingOf
      <4>4. Clear(l, "note") => ~Telling(l, "note")
        BY <2>4, <2>5, <3>2 DEF Telling, TellingOf
      <4>5. Count(l, "note")' = Count(l, "note")
        BY <1>1 DEF Count
      <4>6. Clear(l, "note") => notes[l] = Count(l, "note")
        <5>1. Count(l, "note") \in Nat
          BY BoardTypes, KindsFinite DEF Count
        <5> QED
          BY <1>7, <4>4, <5>1 DEF LeadOK, NoteOK
      <4>7. Alive(l)' /\ (Clear(l, "note")' <=> Clear(l, "note"))
        BY <1>5, <2>7, <3>2, <4>2
      <4> QED
        BY <4>1, <4>3, <4>5, <4>6, <4>7 DEF NoteOK
    <3> QED
      BY <3>1, <3>2
  <2>12. ReceivedOK(l)' /\ TasksOK(l)'
    <3>1. Silent(l, "lead")
      BY <1>1, <2>3 DEF Spoken, Shared
    <3> QED
      BY <1>1, <1>5, <1>7, <2>1, <3>1, ReceivedKept, TasksStay DEF LeadOK
  <2> QED
    BY <2>8, <2>9, <2>10, <2>11, <2>12 DEF LeadOK
<1> QED
  BY <1>8, <1>9

\* The notes of a lead are a number.
LEMMA NotesTyped ==
    ASSUME BInv, NotesType, [BoardNext]_<<boardVars, counters>>
    PROVE  NotesType'
<1>1. ASSUME NEW h \in Handlers, WriteLead(h) PROVE NotesType'
  <2>1. CASE UNCHANGED notes
    BY <2>1 DEF NotesType
  <2>2. CASE CreateNote(asking[h])
    <3> DEFINE x == asking[h].lead
    <3>1. notes' = [notes EXCEPT ![x] = notes[x] + 1]
      BY <2>2 DEF CreateNote
    <3> HIDE DEF x
    <3>2. CASE x \in PortalLeads
      BY <3>1, <3>2 DEF NotesType
    <3>3. CASE x \notin PortalLeads
      BY <3>1, <3>3 DEF NotesType
    <3> QED
      BY <3>2, <3>3
  <2> QED
    BY <1>1, <2>1, <2>2 DEF WriteLead, UpdateStage, Insert, UpdateOwner
<1>2. ASSUME NEW h \in Handlers, RemoveRow(h) PROVE NotesType'
  <2>1. UNCHANGED notes \/ notes' = [notes EXCEPT ![asking[h].row] = 0]
    BY <1>2 DEF RemoveRow
  <2> QED
    BY <2>1 DEF NotesType
<1>3. CASE UNCHANGED notes
  BY <1>3 DEF NotesType
<1> QED
  BY <1>1, <1>2, <1>3 DEF BoardNext, boardVars, SetActive, TaskFallsDue, Validate, AssertLead,
     AssertPipeline, Tell, InsertTask, TouchTask, AddPipeline, LookUpMember, WriteMember

\* A change that was not written ends there; one that was is about to be told.
LEMMA WriteLeadTale ==
    ASSUME BInv, TInv, NotesType, NEW h \in Handlers, WriteLead(h)
    PROVE  TInv'
<1>1. CASE Leave(h) /\ UNCHANGED <<portalLead, notes>>
  <2> SUFFICES ASSUME NEW l \in PortalLeads PROVE LeadOK(l)'
    BY DEF TInv
  <2>1. /\ asking[h].pc = "write" /\ asking'[h] = Rest
        /\ \A g \in Handlers \ {h} : asking'[g] = asking[g]
        /\ UNCHANGED <<portalLead, notes, story, portalTask, gaps>>
    BY <1>1, BoardTypes DEF WriteLead, Leave
  <2>2. (\A k \in Shared : Fewer(l, k)) /\ (\A k \in Spoken : Silent(l, k))
    BY <2>1, RestElsewhere DEF Fewer, Silent, Changing, TellingOf, Moving
  <2>3. TasksAbout(l)' = TasksAbout(l) /\ Owing(l)' = Owing(l)
    BY <2>1, RestElsewhere DEF TasksAbout, Owing, Moving
  <2> QED
    BY <2>1, <2>2, <2>3, Unspoken DEF TInv, Alive
<1>2. CASE /\ Writable(asking[h])
           /\ \/ UpdateStage(h, asking[h])
              \/ (UpdateOwner(asking[h]) \/ CreateNote(asking[h])) /\ Continue(h, "tell")
  BY <1>2, ChangeTale
<1>3. CASE Insert(asking[h]) /\ Continue(h, "tell")
  BY <1>3, InsertTale
<1> QED
  BY <1>1, <1>2, <1>3 DEF WriteLead

\* A change is told, or makes a gap.
LEMMA TellTale ==
    ASSUME BInv, TInv, NEW h \in Handlers, Tell(h)
    PROVE  TInv'
<1> DEFINE q == asking[h]
           x == q.lead
<1>0. PICK o : o = q.op
  OBVIOUS
<1>1. /\ q.pc = "tell" /\ o \in LeadOps /\ q \in Requests /\ x \in PortalLeads
      /\ UNCHANGED <<portalLead, notes, portalTask>>
  BY <1>0, Holding DEF Tell, FlowOK
<1>2. PICK r : /\ asking' = [asking EXCEPT ![h] = r]
               /\ r = Rest \/ r = [q EXCEPT !.pc = "task"]
               /\ r = Rest => o # "lead"
               /\ r # Rest => o \in {"lead", "reminder"}
               /\ \/ /\ Alive(x) /\ gaps' = gaps /\ (o = "reminder" => r # Rest)
                     /\ story' = [story EXCEPT ![x] = Append(story[x], Entry(q))]
                  \/ Alive(x) /\ gaps' = gaps \cup {<<x, o>>} /\ story' = story
                  \/ ~Alive(x) /\ gaps' = gaps /\ story' = story
  <2>1. Continue(h, "task") => asking' = [asking EXCEPT ![h] = [q EXCEPT !.pc = "task"]]
    BY BoardTypes DEF Continue, Requests
  <2>2. [q EXCEPT !.pc = "task"] # Rest
    BY <1>1, RestElsewhere DEF Requests, Moving
  <2>3. \/ Leave(h) /\ o # "lead"
        \/ Continue(h, "task") /\ o \in {"lead", "reminder"}
    BY <1>0 DEF Tell
  <2>4. \/ /\ Alive(x) /\ gaps' = gaps /\ (o = "reminder" => Continue(h, "task"))
           /\ story' = [story EXCEPT ![x] = Append(story[x], Entry(q))]
        \/ Alive(x) /\ gaps' = gaps \cup {<<x, o>>} /\ story' = story
        \/ ~Alive(x) /\ gaps' = gaps /\ story' = story
    BY <1>0 DEF Tell
  <2>5. CASE Continue(h, "task") /\ o \in {"lead", "reminder"}
    BY <2>1, <2>2, <2>4, <2>5
  <2>6. CASE Leave(h) /\ o # "lead"
    <3>1. ~Continue(h, "task")
      BY <2>1, <2>2, <2>6, BoardTypes DEF Leave
    <3> QED
      BY <2>4, <2>6, <3>1 DEF Leave
  <2> QED
    BY <2>3, <2>5, <2>6
<1>3. /\ asking'[h] = r /\ \A g \in Handlers \ {h} : asking'[g] = asking[g]
      /\ r.pc # "tell" /\ r.pc # "write" /\ (r # Rest => r.pc = "task" /\ r.lead = x /\ r.op = o)
  BY <1>0, <1>1, <1>2, RestElsewhere, BoardTypes DEF Requests, Moving
<1>4. PICK e \in Entries : e = Entry(q) /\ e.kind = o /\ e.from = q.from /\ e.to = q.to
  <2>1. Entry(q) \in Entries
    BY <1>0, <1>1, Holding DEF Entry, Entries, Requests, FlowOK
  <2> QED
    BY <1>0, <2>1 DEF Entry
<1>5. /\ gaps \subseteq gaps' /\ \A l \in PortalLeads \ {x} : story'[l] = story[l]
      /\ \A l \in PortalLeads : (Alive(l)' <=> Alive(l)) /\ TasksAbout(l)' = TasksAbout(l)
                                /\ story[l] \in Seq(Entries)
  BY <1>1, <1>2, BoardTypes DEF Alive, TasksAbout
<1> HIDE DEF q, x
<1> SUFFICES ASSUME NEW l \in PortalLeads PROVE LeadOK(l)'
  BY DEF TInv
<1>6. LeadOK(l)
  BY DEF TInv
<1>7. CASE l # x
  <2>1. asking[h].lead # l /\ (r.lead # l \/ r.pc \notin Moving)
    BY <1>1, <1>2, <1>3, <1>7, RestElsewhere DEF x, q
  <2> QED
    BY <1>1, <1>2, <1>5, <1>7, <2>1, NotThisLead
<1>8. CASE l = x
  <2>1. IsFiniteSet(Owing(l)') /\ Cardinality(Owing(l)') \in Nat
        /\ Cardinality(Owing(l)') = Cardinality(Owing(l)) + IF r # Rest THEN 1 ELSE 0
    <3>1. Owing(l)' = IF r # Rest THEN Owing(l) \cup {h} ELSE Owing(l)
      BY <1>2, <1>3, <1>8, RestElsewhere, <1>1 DEF Owing, Moving, q
    <3>2. h \notin Owing(l) /\ IsFiniteSet(Owing(l)) /\ Cardinality(Owing(l)) \in Nat
      BY <1>1, <1>6, FS_CardinalityType DEF Owing, LeadOK, TasksOK, q
    <3>3. CASE r # Rest
      BY <3>1, <3>2, <3>3, FS_AddElement, FS_CardinalityType
    <3>4. CASE r = Rest
      BY <3>1, <3>2, <3>4
    <3> QED
      BY <3>3, <3>4
  <2>2. /\ \A k \in Shared : Fewer(l, k)
        /\ \A k \in Spoken : k # o => Silent(l, k)
    BY <1>0, <1>1, <1>3 DEF Fewer, Silent, Changing, TellingOf, q
  <2>3. TellingOf(h, l, o) /\ Telling(l, o) /\ (o \in Shared => Changing(h, l, o))
    BY <1>0, <1>1, <1>8 DEF TellingOf, Telling, Changing, q, x
  <2>4. (o \in Spoken /\ Clear(l, o)) => ~Telling(l, o)'
    <3> SUFFICES ASSUME o \in Spoken, Clear(l, o), NEW g \in Handlers, TellingOf(g, l, o)'
                 PROVE  FALSE
      BY DEF Telling, TellingOf
    <3>1. g # h /\ TellingOf(g, l, o)
      BY <1>3 DEF TellingOf
    <3>2. CASE o \in Shared
      BY <1>6, <2>3, <3>1, <3>2 DEF LeadOK, SoloOK, Changing, TellingOf
    <3>3. CASE o = "lead"
      BY <1>6, <2>3, <3>1, <3>3 DEF LeadOK, ReceivedOK
    <3> QED
      BY <3>2, <3>3 DEF Spoken
  <2>5. SoloOK(l)'
    BY <1>5, <1>6, <2>2, SoloKept DEF LeadOK
  <2>6. \A g, f \in Handlers : TellingOf(g, l, "lead")' /\ TellingOf(f, l, "lead")' => g = f
    BY <1>3, <1>6 DEF TellingOf, LeadOK, ReceivedOK
  <2>7. CASE ~Alive(l)
    BY <1>1, <1>5, <1>6, <2>1, <2>6, <2>7, GoneOK DEF LeadOK, NoteOK, TasksOK
  <2>8. CASE Alive(l) /\ gaps' = gaps \cup {<<l, o>>} /\ story' = story
    <3>1. ~Clear(l, o)'
      BY <2>8 DEF Clear
    <3>2. StageOK(l)'
      <4>1. CASE o = "stage_change"
        BY <3>1, <4>1 DEF StageOK
      <4>2. CASE o # "stage_change"
        <5>1. Fewer(l, "stage_change") /\ Silent(l, "stage_change")
          BY <2>2, <4>2 DEF Spoken, Shared
        <5> QED
          BY <1>1, <1>5, <1>6, <2>8, <5>1, StageKept DEF LeadOK
      <4> QED
        BY <4>1, <4>2
    <3>3. OwnerOK(l)'
      <4>1. CASE o = "owner_change"
        BY <3>1, <4>1 DEF OwnerOK
      <4>2. CASE o # "owner_change"
        <5>1. Silent(l, "owner_change")
          BY <2>2, <4>2 DEF Spoken, Shared
        <5> QED
          BY <1>1, <1>5, <1>6, <2>8, <5>1, OwnerKept DEF LeadOK
      <4> QED
        BY <4>1, <4>2
    <3>4. NoteOK(l)'
      <4>1. CASE o = "note"
        BY <1>1, <1>5, <1>6, <2>8, <3>1, <4>1 DEF NoteOK, LeadOK
      <4>2. CASE o # "note"
        <5>1. Silent(l, "note")
          BY <2>2, <4>2 DEF Spoken, Shared
        <5> QED
          BY <1>1, <1>5, <1>6, <2>8, <5>1, NoteKept DEF LeadOK
      <4> QED
        BY <4>1, <4>2
    <3>5. ReceivedOK(l)'
      <4>1. CASE o = "lead"
        BY <2>6, <3>1, <4>1 DEF ReceivedOK
      <4>2. CASE o # "lead"
        <5>1. Silent(l, "lead")
          BY <2>2, <4>2 DEF Spoken
        <5> QED
          BY <1>1, <1>5, <1>6, <2>8, <5>1, ReceivedKept DEF LeadOK
      <4> QED
        BY <4>1, <4>2
    <3>6. TasksOK(l)'
      <4>1. Clear(l, "task")' => Clear(l, "task")
        BY <1>5 DEF Clear
      <4>2. Count(l, "lead")' = Count(l, "lead") /\ Count(l, "reminder")' = Count(l, "reminder")
            /\ Count(l, "lead") \in Nat /\ Count(l, "reminder") \in Nat
        BY <1>5, <2>8, KindsFinite DEF Count
      <4>3. Cardinality(TasksAbout(l)) \in Nat /\ Cardinality(Owing(l)) \in Nat
        BY <1>6, FS_CardinalityType DEF LeadOK, TasksOK
      <4> QED
        BY <1>5, <1>6, <2>1, <4>1, <4>2, <4>3 DEF LeadOK, TasksOK
    <3> QED
      BY <2>5, <3>2, <3>3, <3>4, <3>5, <3>6 DEF LeadOK
  <2>9. CASE /\ Alive(l) /\ gaps' = gaps /\ (o = "reminder" => r # Rest)
             /\ story'[l] = Append(story[l], e)
    <3>1. /\ \A k : k # o =>
                /\ LeftInAll(story'[l], k, None) = LeftInAll(story[l], k, None)
                /\ LeftInAll(story'[l], k, "nouveau") = LeftInAll(story[l], k, "nouveau")
                /\ Chained(story[l], k, "nouveau") => Chained(story'[l], k, "nouveau")
          /\ \A k : Count(l, k)' = Count(l, k) + IF k = o THEN 1 ELSE 0
          /\ \A k : Count(l, k) \in Nat
      BY <1>4, <1>5, <2>9, SaysNothing, KindsGrow, KindsFinite DEF Count
    <3>2. Clear(l, o)' <=> Clear(l, o)
      BY <1>5, <2>9 DEF Clear
    <3>3. StageOK(l)'
      <4>1. CASE o = "stage_change"
        <5> SUFFICES ASSUME Clear(l, "stage_change") PROVE StageOK(l)'
          BY <3>2, <4>1 DEF StageOK
        <5>1. /\ Chained(story[l], o, "nouveau") /\ q.from = LeftInAll(story[l], o, "nouveau")
              /\ q.to = portalLead[l].stage
          BY <1>6, <2>3, <4>1 DEF LeadOK, StageOK, Shared, q
        <5>2. /\ Chained(story'[l], o, "nouveau")
              /\ portalLead[l].stage = LeftInAll(story'[l], o, "nouveau")
          BY <1>4, <1>5, <2>9, <5>1, LastWord
        <5>3. \A g \in Handlers : ~Changing(g, l, o)' /\ ~TellingOf(g, l, o)'
          BY <1>3, <1>6, <2>3, <4>1 DEF LeadOK, SoloOK, Changing, TellingOf, Shared
        <5> QED
          BY <1>1, <4>1, <5>2, <5>3 DEF StageOK
      <4>2. CASE o # "stage_change"
        <5>1. Fewer(l, "stage_change") /\ Silent(l, "stage_change")
          BY <2>2, <4>2 DEF Spoken, Shared
        <5> QED
          BY <1>1, <1>5, <1>6, <2>9, <3>1, <4>2, <5>1, StageKept DEF LeadOK
      <4> QED
        BY <4>1, <4>2
    <3>4. OwnerOK(l)'
      <4>1. CASE o = "owner_change"
        <5> SUFFICES ASSUME Clear(l, "owner_change") PROVE OwnerOK(l)'
          BY <3>2, <4>1 DEF OwnerOK
        <5>1. q.to = portalLead[l].owner
          BY <1>6, <2>3, <4>1 DEF LeadOK, OwnerOK, q
        <5>2. portalLead[l].owner = LeftInAll(story'[l], o, None)
          BY <1>4, <1>5, <2>9, <5>1, LastWord
        <5>3. \A g \in Handlers : ~TellingOf(g, l, o)'
          BY <2>4, <4>1 DEF Telling, TellingOf, Spoken, Shared
        <5> QED
          BY <1>1, <4>1, <5>2, <5>3 DEF OwnerOK
      <4>2. CASE o # "owner_change"
        <5>1. Silent(l, "owner_change")
          BY <2>2, <4>2 DEF Spoken, Shared
        <5> QED
          BY <1>1, <1>5, <1>6, <2>9, <3>1, <4>2, <5>1, OwnerKept DEF LeadOK
      <4> QED
        BY <4>1, <4>2
    <3>5. NoteOK(l)'
      <4>1. CASE o = "note"
        <5>1. Clear(l, "note") => notes[l] = Count(l, "note") + 1 /\ ~Telling(l, "note")'
          BY <1>6, <2>3, <2>4, <4>1 DEF LeadOK, NoteOK, Spoken, Shared
        <5> QED
          BY <1>1, <1>5, <1>6, <2>9, <3>1, <3>2, <4>1, <5>1 DEF LeadOK, NoteOK
      <4>2. CASE o # "note"
        <5>1. Silent(l, "note")
          BY <2>2, <4>2 DEF Spoken, Shared
        <5>2. Count(l, "note")' = Count(l, "note")
          BY <3>1, <4>2
        <5> QED
          BY <1>1, <1>5, <1>6, <2>9, <5>1, <5>2, NoteKept DEF LeadOK, Count
      <4> QED
        BY <4>1, <4>2
    <3>6. ReceivedOK(l)'
      <4>1. CASE o = "lead"
        <5>1. Clear(l, "lead") => Count(l, "lead") = 0 /\ ~Telling(l, "lead")'
          BY <1>6, <2>3, <2>4, <4>1 DEF LeadOK, ReceivedOK, Spoken
        <5> QED
          BY <2>6, <3>1, <3>2, <4>1, <5>1 DEF ReceivedOK
      <4>2. CASE o # "lead"
        <5>1. Silent(l, "lead")
          BY <2>2, <4>2 DEF Spoken
        <5>2. Count(l, "lead")' = Count(l, "lead")
          BY <3>1, <4>2
        <5> QED
          BY <1>1, <1>5, <1>6, <2>9, <5>1, <5>2, ReceivedKept DEF LeadOK, Count
      <4> QED
        BY <4>1, <4>2
    <3>7. TasksOK(l)'
      <4>1. Clear(l, "task")' => Clear(l, "task")
        BY <1>5 DEF Clear
      <4>2. o \in {"lead", "reminder"} => r # Rest
        BY <1>2, <2>9
      <4>3. Cardinality(TasksAbout(l)) \in Nat /\ Cardinality(Owing(l)) \in Nat
        BY <1>6, FS_CardinalityType DEF LeadOK, TasksOK
      <4>4. Count(l, "lead")' + Count(l, "reminder")'
               <= Count(l, "lead") + Count(l, "reminder") + IF r # Rest THEN 1 ELSE 0
        BY <3>1, <4>2
      <4>5. Count(l, "lead") \in Nat /\ Count(l, "reminder") \in Nat
            /\ Count(l, "lead")' \in Nat /\ Count(l, "reminder")' \in Nat
        BY <3>1
      <4> QED
        BY <1>5, <1>6, <2>1, <4>1, <4>3, <4>4, <4>5 DEF LeadOK, TasksOK
    <3> QED
      BY <2>5, <3>3, <3>4, <3>5, <3>6, <3>7 DEF LeadOK
  <2>10. Alive(l) => \/ gaps' = gaps \cup {<<l, o>>} /\ story' = story
                     \/ /\ gaps' = gaps /\ (o = "reminder" => r # Rest)
                        /\ story'[l] = Append(story[l], e)
    BY <1>2, <1>4, <1>8, BoardTypes
  <2> QED
    BY <2>7, <2>8, <2>9, <2>10
<1> QED
  BY <1>7, <1>8

\* The task of a lead is made, under an id of its own, or makes a gap.
LEMMA InsertTaskTale ==
    ASSUME BInv, TInv, NEW h \in Handlers, InsertTask(h)
    PROVE  TInv'
<1> DEFINE q == asking[h]
           x == q.lead
<1>1. /\ q.pc = "task" /\ x \in PortalLeads /\ q.op \in {"lead", "reminder", "task"}
      /\ UNCHANGED <<portalLead, notes, story>> /\ asking' = [asking EXCEPT ![h] = Rest]
  BY Holding DEF InsertTask, FlowOK, Leave
<1>2. /\ asking'[h] = Rest /\ \A g \in Handlers \ {h} : asking'[g] = asking[g]
  BY <1>1, BoardTypes
<1>3. \/ gaps' = gaps \cup {<<x, "task">>} /\ portalTask' = portalTask
      \/ /\ gaps' = gaps
         /\ \E t \in PortalTasks : /\ portalTask[t].client = None /\ portalTask'[t].lead = x
                                   /\ \A y \in PortalTasks \ {t} : portalTask'[y] = portalTask[y]
  <2>1. CASE gaps' = gaps \cup {<<x, "task">>} /\ portalTask' = portalTask
    BY <2>1
  <2>2. ASSUME NEW t \in Fresh({y \in PortalTasks : portalTask[y].client = None}), gaps' = gaps,
               portalTask' = [portalTask EXCEPT ![t] =
                                [NoTask EXCEPT !.client = q.client, !.lead = q.lead,
                                               !.pipe = q.pipe]]
        PROVE  \E z \in PortalTasks : /\ portalTask[z].client = None /\ portalTask'[z].lead = x
                                     /\ \A y \in PortalTasks \ {z} : portalTask'[y] = portalTask[y]
    <3>1. t \in PortalTasks /\ portalTask[t].client = None
      BY DEF Fresh, AnyOf
    <3>2. portalTask'[t].lead = x
      BY <2>2, <3>1, BoardTypes DEF TaskType, NoTask
    <3>3. \A y \in PortalTasks \ {t} : portalTask'[y] = portalTask[y]
      BY <2>2, <3>1, BoardTypes DEF TaskType
    <3> QED
      BY <3>1, <3>2, <3>3
  <2> QED
    BY <2>1, <2>2 DEF InsertTask
<1>4. \A t \in PortalTasks : portalTask[t].client = None => portalTask[t].lead = None
  BY BoardAssumption DEF BInv, RowsInv, TasksApart
<1> HIDE DEF q, x
<1> SUFFICES ASSUME NEW l \in PortalLeads PROVE LeadOK(l)'
  BY DEF TInv
<1>5. /\ LeadOK(l) /\ gaps \subseteq gaps' /\ l # None /\ (Alive(l)' <=> Alive(l))
  BY <1>1, <1>3, BoardAssumption DEF TInv, Alive
<1>6. CASE l # x
  <2>1. TasksAbout(l)' = TasksAbout(l)
    BY <1>3, <1>4, <1>5, <1>6 DEF TasksAbout
  <2>2. asking[h].lead # l
    BY <1>6 DEF x, q
  <2> QED
    BY <1>1, <1>5, <2>1, <2>2, RestElsewhere, NotThisLead
<1>7. CASE l = x
  <2>1. /\ \A k \in Shared : Fewer(l, k)
        /\ \A k \in Spoken : Silent(l, k)
    BY <1>1, <1>2, RestElsewhere DEF Fewer, Silent, Changing, TellingOf, Moving, q
  <2>2. SoloOK(l)' /\ StageOK(l)' /\ OwnerOK(l)' /\ NoteOK(l)' /\ ReceivedOK(l)'
    <3>1. /\ Fewer(l, "stage_change") /\ Silent(l, "stage_change") /\ Silent(l, "owner_change")
          /\ Silent(l, "note") /\ Silent(l, "lead")
      BY <2>1 DEF Spoken, Shared
    <3> QED
      BY <1>1, <1>5, <2>1, <3>1, SoloKept, StageKept, OwnerKept, NoteKept, ReceivedKept DEF LeadOK
  <2>3. Owing(l)' = Owing(l) \ {h}
    BY <1>1, <1>2, RestElsewhere DEF Owing, Moving
  <2>4. /\ IsFiniteSet(Owing(l)) /\ IsFiniteSet(TasksAbout(l)) /\ IsFiniteSet(Owing(l)')
        /\ Cardinality(Owing(l)) \in Nat /\ Cardinality(TasksAbout(l)) \in Nat
        /\ Cardinality(Owing(l)') \in Nat
        /\ Cardinality(Owing(l)) <= Cardinality(Owing(l)') + 1
    <3>1. IsFiniteSet(Owing(l)) /\ IsFiniteSet(TasksAbout(l))
      BY <1>5 DEF LeadOK, TasksOK
    <3>2. /\ IsFiniteSet(Owing(l) \ {h})
          /\ Cardinality(Owing(l) \ {h}) = IF h \in Owing(l) THEN Cardinality(Owing(l)) - 1
                                                            ELSE Cardinality(Owing(l))
      BY <3>1, FS_RemoveElement
    <3>3. /\ Cardinality(Owing(l)) \in Nat /\ Cardinality(TasksAbout(l)) \in Nat
          /\ Cardinality(Owing(l) \ {h}) \in Nat
      BY <3>1, <3>2, FS_CardinalityType
    <3> QED
      BY <2>3, <3>1, <3>2, <3>3
  <2>5. CASE gaps' = gaps \cup {<<x, "task">>} /\ portalTask' = portalTask
    <3>1. ~Clear(l, "task")' /\ TasksAbout(l)' = TasksAbout(l)
      BY <1>7, <2>5 DEF Clear, TasksAbout
    <3> QED
      BY <2>2, <2>4, <3>1 DEF LeadOK, TasksOK
  <2>6. ASSUME gaps' = gaps,
               NEW t \in PortalTasks, portalTask[t].client = None, portalTask'[t].lead = x,
               \A y \in PortalTasks \ {t} : portalTask'[y] = portalTask[y]
        PROVE  LeadOK(l)'
    <3>1. t \notin TasksAbout(l) /\ TasksAbout(l)' = TasksAbout(l) \cup {t}
      BY <1>4, <1>5, <1>7, <2>6 DEF TasksAbout
    <3>2. /\ IsFiniteSet(TasksAbout(l)')
          /\ Cardinality(TasksAbout(l)') = Cardinality(TasksAbout(l)) + 1
      BY <2>4, <3>1, FS_AddElement
    <3>3. /\ Clear(l, "task")' => Clear(l, "task")
          /\ Count(l, "lead")' = Count(l, "lead") /\ Count(l, "reminder")' = Count(l, "reminder")
      BY <1>1, <1>5 DEF Clear, Count
    <3>4. Count(l, "lead") \in Nat /\ Count(l, "reminder") \in Nat
      BY BoardTypes, KindsFinite DEF Count
    <3>5. TasksOK(l)'
      BY <1>5, <2>4, <3>2, <3>3, <3>4 DEF LeadOK, TasksOK
    <3> QED
      BY <2>2, <3>5 DEF LeadOK
  <2> QED
    BY <1>3, <2>5, <2>6
<1> QED
  BY <1>6, <1>7

\* A lead that is removed takes its notes and its timeline along, and leaves its tasks.
LEMMA RemoveRowTale ==
    ASSUME BInv, TInv, NotesType, NEW h \in Handlers, RemoveRow(h)
    PROVE  TInv'
<1>1. /\ asking[h].pc = "remove" /\ asking[h].pc \notin Moving /\ UNCHANGED gaps
      /\ asking' = [asking EXCEPT ![h] = Rest]
  BY DEF RemoveRow, Leave, Moving
<1>2. PICK x : x = asking[h].row
  OBVIOUS
<1> SUFFICES ASSUME NEW l \in PortalLeads PROVE LeadOK(l)'
  BY DEF TInv
<1>3. \/ UNCHANGED <<portalLead, notes, story, portalTask>>
      \/ /\ x \in PortalLeads
         /\ portalLead'  = [portalLead EXCEPT ![x] = [NoPortalLead EXCEPT !.client = Gone]]
         /\ notes' = [notes EXCEPT ![x] = 0] /\ story' = [story EXCEPT ![x] = <<>>]
         /\ portalTask' = Dropping(portalTask, x, "lead")
      \/ /\ UNCHANGED <<notes, story>>
         /\ portalLead' = Dropping(portalLead, x, "pipe")
         /\ portalTask' = Dropping(portalTask, x, "pipe")
  BY <1>2 DEF RemoveRow
<1>4. CASE UNCHANGED <<portalLead, notes, story, portalTask>>
  <2>1. TasksAbout(l)' = TasksAbout(l)
    BY <1>4 DEF TasksAbout
  <2> QED
    BY <1>1, <1>4, <2>1, RestElsewhere, NotThisLead DEF Alive
<1>5. CASE /\ x \in PortalLeads
           /\ portalLead'  = [portalLead EXCEPT ![x] = [NoPortalLead EXCEPT !.client = Gone]]
           /\ notes' = [notes EXCEPT ![x] = 0] /\ story' = [story EXCEPT ![x] = <<>>]
           /\ portalTask' = Dropping(portalTask, x, "lead")
  <2>1. \A t \in PortalTasks : portalTask'[t].lead =
            IF portalTask[t].lead = x THEN None ELSE portalTask[t].lead
    BY <1>5, BoardTypes DEF TaskType, Dropping
  <2>2. CASE l # x
    <3>1. TasksAbout(l)' = TasksAbout(l)
      BY <2>1, <2>2, BoardAssumption DEF TasksAbout
    <3>2. portalLead'[l] = portalLead[l] /\ notes'[l] = notes[l] /\ story'[l] = story[l]
      BY <1>5, <2>2, BoardTypes DEF LeadType, NotesType
    <3> QED
      BY <1>1, <3>1, <3>2, RestElsewhere, NotThisLead DEF Alive
  <2>3. CASE l = x
    <3>1. ~Alive(l)' /\ notes'[l] = 0
      BY <1>5, <2>3, BoardTypes, BoardAssumption DEF LeadType, NotesType, Alive, Gone, NoPortalLead
    <3>2. TasksAbout(l)' = {}
      BY <2>1, <2>3, BoardAssumption DEF TasksAbout
    <3>3. Silent(l, "lead") /\ Owing(l)' = Owing(l)
      BY <1>1, RestElsewhere, Elsewhere DEF Spoken
    <3>4. \A g, f \in Handlers : TellingOf(g, l, "lead")' /\ TellingOf(f, l, "lead")' => g = f
      BY <3>3 DEF TInv, LeadOK, ReceivedOK, Silent
    <3> QED
      BY <3>1, <3>2, <3>3, <3>4, FS_EmptySet, GoneOK DEF TInv, LeadOK, TasksOK
  <2> QED
    BY <2>2, <2>3
<1>6. CASE /\ UNCHANGED <<notes, story>>
           /\ portalLead' = Dropping(portalLead, x, "pipe")
           /\ portalTask' = Dropping(portalTask, x, "pipe")
  <2>1. /\ \A t \in PortalTasks : portalTask'[t].lead = portalTask[t].lead
        /\ portalLead'[l].client = portalLead[l].client
        /\ portalLead'[l].stage = portalLead[l].stage
        /\ portalLead'[l].owner = portalLead[l].owner
    BY <1>6, BoardTypes DEF TaskType, LeadType, Dropping
  <2>2. TasksAbout(l)' = TasksAbout(l)
    BY <2>1 DEF TasksAbout
  <2> QED
    BY <1>1, <1>6, <2>1, <2>2, RestElsewhere, NotThisLead DEF Alive
<1> QED
  BY <1>3, <1>4, <1>5, <1>6

\* Every step of the portal keeps the timelines.
LEMMA NextTInv ==
    ASSUME BInv, TInv, NotesType, [BoardNext]_<<boardVars, counters>>
    PROVE  TInv'
<1>1. ASSUME NEW h \in Handlers,
             \/ Validate(h) \/ AssertLead(h) \/ AssertPipeline(h) \/ WriteLead(h)
             \/ Tell(h) \/ InsertTask(h) \/ TouchTask(h) \/ RemoveRow(h)
             \/ AddPipeline(h) \/ LookUpMember(h) \/ WriteMember(h)
      PROVE  TInv'
  BY <1>1, SilentSteps, AssertLeadTale, AssertPipelineTale, WriteLeadTale, TellTale,
     InsertTaskTale, RemoveRowTale
<1> QED
  BY <1>1, IdleSteps DEF BoardNext

\* The invariants have the timeline of every lead.
LEMMA TimelineKept == BInv /\ TInv => TimelineTellsTheLead
<1> SUFFICES ASSUME BInv, TInv PROVE TimelineTellsTheLead
  OBVIOUS
<1>1. ASSUME NEW l \in PortalLeads
      PROVE  /\ Told(l, "stage_change") =>
                   /\ Chained(story[l], "stage_change", "nouveau")
                   /\ portalLead[l].stage = LeftInAll(story[l], "stage_change", "nouveau")
             /\ Told(l, "note") => Cardinality(Kinds(story[l], "note")) = notes[l]
             /\ Told(l, "lead") => Cardinality(Kinds(story[l], "lead")) = 1
             /\ Told(l, "owner_change") =>
                   portalLead[l].owner = LeftInAll(story[l], "owner_change", None)
             /\ (Told(l, "task") /\ \A h \in Handlers :
                                        asking[h].lead = l => asking[h].pc # "task") =>
                   Cardinality(Kinds(story[l], "lead")) + Cardinality(Kinds(story[l], "reminder"))
                      <= Cardinality({t \in PortalTasks : portalTask[t].lead = l})
  <2>1. LeadOK(l) /\ Count(l, "note") \in Nat
    BY BoardTypes, KindsFinite DEF TInv, Count
  <2>2. \A k : Told(l, k) => Clear(l, k) /\ ~Telling(l, k)
    BY DEF Told, Clear
  <2>3. Told(l, "stage_change") =>
            /\ Chained(story[l], "stage_change", "nouveau")
            /\ portalLead[l].stage = LeftInAll(story[l], "stage_change", "nouveau")
    BY <2>1, <2>2 DEF LeadOK, StageOK
  <2>4. Told(l, "note") => Cardinality(Kinds(story[l], "note")) = notes[l]
    BY <2>1, <2>2 DEF LeadOK, NoteOK, Count
  <2>5. Told(l, "lead") => Cardinality(Kinds(story[l], "lead")) = 1
    BY <2>1, <2>2 DEF LeadOK, ReceivedOK, Count
  <2>6. Told(l, "owner_change") =>
            portalLead[l].owner = LeftInAll(story[l], "owner_change", None)
    BY <2>1, <2>2 DEF LeadOK, OwnerOK
  <2>7. ASSUME Told(l, "task"), \A h \in Handlers : asking[h].lead = l => asking[h].pc # "task"
        PROVE  Cardinality(Kinds(story[l], "lead")) + Cardinality(Kinds(story[l], "reminder"))
                  <= Cardinality({t \in PortalTasks : portalTask[t].lead = l})
    <3>1. Owing(l) = {}
      BY <2>7 DEF Owing
    <3>2. Cardinality(Owing(l)) = 0 /\ Cardinality(TasksAbout(l)) \in Nat
      BY <2>1, <3>1, FS_EmptySet, FS_CardinalityType DEF LeadOK, TasksOK
    <3> QED
      BY <2>1, <2>2, <2>7, <3>2 DEF LeadOK, TasksOK, Count, TasksAbout
  <2> QED
    BY <2>3, <2>4, <2>5, <2>6, <2>7
<1> QED
  BY <1>1 DEF TimelineTellsTheLead

LEMMA InitNotesType == BoardInit => NotesType
BY DEF BoardInit, NotesType

\* The activity log of portal-leads.service.ts: although it is told in a statement after the
\* change, the entries of a lead explain its stage, its owner, its notes and its tasks, unless
\* an entry or a task failed to insert, or two changes of one kind overlapped.
THEOREM TimelineTold == BoardSpec => []TimelineTellsTheLead
BY TimelineKept, InitNotesType, InitBInv, InitTInv, NextBInv, NextTInv, NotesTyped, PTL
DEF BoardSpec

\* What the board keeps of the clients' leads: theirs, and told.
THEOREM BoardHolds == BoardSpec => []BoardKept
<1>1. ClientsKeptApart /\ TimelineTellsTheLead => BoardKept
  BY DEF BoardKept
<1> QED
  BY <1>1, KeptApart, TimelineTold, PTL

----------------------------------------------------------------------------
(* The board: its statistics add up *)

AllPipes == Pipelines \cup {None}

\* The rows of a client are finitely many, and its leads are all in the overview.
LEMMA BoardRows ==
    ASSUME BInv, NEW c \in Clients
    PROVE  /\ IsFiniteSet(LeadsOf(c)) /\ IsFiniteSet(TasksOf(c)) /\ IsFiniteSet(TeamOf(c))
           /\ \A l \in LeadsOf(c) : /\ portalLead[l].pipe \in AllPipes
                                    /\ portalLead[l].stage \in LeadStages
           /\ \A t \in TasksOf(c) : /\ portalTask[t].pipe \in AllPipes
                                    /\ portalTask[t].lead \in PortalLeads \cup {None}
<1>1. LeadsOf(c) \subseteq PortalLeads /\ TasksOf(c) \subseteq PortalTasks
  BY DEF LeadsOf, TasksOf
<1>2. TeamOf(c) \subseteq Members
  BY DEF TeamOf
<1>3. LeadType /\ TaskType
  BY DEF BInv, RowsInv
<1> QED
  BY <1>1, <1>2, <1>3, FS_Subset, BoardAssumption DEF LeadType, TaskType, AllPipes

\* Each lead of a client has one stage and one pipeline, or none.
LEMMA OverviewAddsUp ==
    ASSUME BInv, NEW c \in Clients
    PROVE  /\ Overview(c, AllPipes).total = Cardinality(LeadsOf(c))
           /\ Overview(c, AllPipes).total = SumOf(Overview(c, AllPipes).byStage)
           /\ Overview(c, AllPipes).total = SumOf([p \in AllPipes |-> Overview(c, {p}).total])
           /\ Overview(c, AllPipes).overdue <= Overview(c, AllPipes).pending
<1> DEFINE L == LeadsOf(c)
           stages == [l \in L |-> portalLead[l].stage]
           pipes  == [l \in L |-> portalLead[l].pipe]
           byStage == [s \in LeadStages |-> LeadCount(c, AllPipes, {s})]
           byPipe  == [p \in AllPipes |-> LeadCount(c, {p}, LeadStages)]
<1>1. stages \in [L -> LeadStages] /\ pipes \in [L -> AllPipes] /\ IsFiniteSet(L)
  BY BoardRows
<1>2. LeadCount(c, AllPipes, LeadStages) = Cardinality(L)
  <2>1. {l \in L : portalLead[l].pipe \in AllPipes /\ portalLead[l].stage \in LeadStages} = L
    BY BoardRows
  <2> QED
    BY <2>1 DEF LeadCount
<1>3. \A s \in LeadStages : byStage[s] = Cardinality({l \in L : stages[l] = s})
  <2> SUFFICES ASSUME NEW s \in LeadStages
               PROVE  byStage[s] = Cardinality({l \in L : stages[l] = s})
    OBVIOUS
  <2>1. {l \in L : portalLead[l].pipe \in AllPipes /\ portalLead[l].stage \in {s}}
           = {l \in L : stages[l] = s}
    BY BoardRows
  <2> QED
    BY <2>1 DEF LeadCount
<1>4. \A p \in AllPipes : byPipe[p] = Cardinality({l \in L : pipes[l] = p})
  <2> SUFFICES ASSUME NEW p \in AllPipes
               PROVE  byPipe[p] = Cardinality({l \in L : pipes[l] = p})
    OBVIOUS
  <2>1. {l \in L : portalLead[l].pipe \in {p} /\ portalLead[l].stage \in LeadStages}
           = {l \in L : pipes[l] = p}
    BY BoardRows
  <2> QED
    BY <2>1 DEF LeadCount
<1>5. DOMAIN byStage = LeadStages /\ DOMAIN byPipe = AllPipes
  OBVIOUS
<1>6. SumOf(byStage) = Cardinality(L) /\ SumOf(byPipe) = Cardinality(L)
  <2> HIDE DEF L, stages, pipes, byStage, byPipe
  <2>1. SumOf(byStage) = Cardinality(L)
    BY <1>1, <1>3, <1>5, CountsAddUp
  <2>2. SumOf(byPipe) = Cardinality(L)
    BY <1>1, <1>4, <1>5, CountsAddUp
  <2> QED
    BY <2>1, <2>2
<1>7. LateCount(c, AllPipes) <= TaskCount(c, AllPipes, "pending")
  <2> DEFINE late    == {t \in TasksOf(c) : /\ portalTask[t].pipe \in AllPipes
                                            /\ portalTask[t].status = "pending"
                                            /\ portalTask[t].late}
             pending == {t \in TasksOf(c) : /\ portalTask[t].pipe \in AllPipes
                                            /\ portalTask[t].status = "pending"}
  <2>1. late \in SUBSET pending /\ pending \in SUBSET TasksOf(c)
    OBVIOUS
  <2>2. Cardinality(late) <= Cardinality(pending)
    <3> HIDE DEF late, pending
    <3> QED
      BY <2>1, BoardRows, FS_Subset
  <2> QED
    BY <2>2 DEF LateCount, TaskCount
<1>8. byPipe = [p \in AllPipes |-> Overview(c, {p}).total]
  BY DEF Overview
<1>9. /\ Overview(c, AllPipes).total = LeadCount(c, AllPipes, LeadStages)
      /\ Overview(c, AllPipes).byStage = byStage
      /\ Overview(c, AllPipes).overdue = LateCount(c, AllPipes)
      /\ Overview(c, AllPipes).pending = TaskCount(c, AllPipes, "pending")
  BY DEF Overview
<1> QED
  BY <1>2, <1>6, <1>7, <1>8, <1>9

\* The names of the owner and of the members of a team differ.
NamesApart(c) ==
    /\ \A m \in TeamOf(c) : member[m].name # CompanyOf[c]
    /\ \A m, n \in TeamOf(c) : member[m].name = member[n].name => m = n

\* They do when there are as many names as people.
LEMMA CountedApart ==
    ASSUME BInv, NEW c \in Clients, Cardinality(TeamNames(c)) = Cardinality(TeamOf(c)) + 1
    PROVE  NamesApart(c)
<1> DEFINE T == TeamOf(c)
           N == {member[m].name : m \in T}
           name == [m \in T |-> member[m].name]
<1>1. name \in Surjection(T, N) /\ IsFiniteSet(T)
  BY BoardRows, Fun_IsSurj
<1>2. TeamNames(c) = N \cup {CompanyOf[c]}
  BY DEF TeamNames
<1>3. /\ IsFiniteSet(N) /\ Cardinality(N) <= Cardinality(T)
      /\ Cardinality(N) = Cardinality(T) => name \in Injection(T, N)
  <2> HIDE DEF T, N, name
  <2> QED
    BY <1>1, FS_Surjection
<1>4. Cardinality(N \cup {CompanyOf[c]})
         = IF CompanyOf[c] \in N THEN Cardinality(N) ELSE Cardinality(N) + 1
  <2> HIDE DEF N
  <2> QED
    BY <1>3, FS_AddElement
<1>5. Cardinality(N) \in Nat /\ Cardinality(T) \in Nat
  <2> HIDE DEF N, T
  <2> QED
    BY <1>1, <1>3, FS_CardinalityType
<1>6. CompanyOf[c] \notin N /\ Cardinality(N) = Cardinality(T)
  <2> HIDE DEF N
  <2> QED
    BY <1>2, <1>3, <1>4, <1>5
<1>7. \A m, n \in T : name[m] = name[n] => m = n
  <2>1. name \in Injection(T, N)
    <3> HIDE DEF T, N, name
    <3> QED
      BY <1>3, <1>6
  <2> QED
    BY <2>1 DEF Injection, IsInjective
<1> QED
  BY <1>6, <1>7 DEF NamesApart

\* The line of performance a name falls under.
Lines(c) == {"owner"} \cup TeamOf(c) \cup {"unassigned"}
LineOf(c, n) == IF n = CompanyOf[c] THEN "owner"
                ELSE IF n \in TeamNames(c) THEN CHOOSE m \in TeamOf(c) : member[m].name = n
                ELSE "unassigned"
LeadsUnder(c, k) == {l \in LeadsOf(c) : LineOf(c, OwnerKey(l)) = k}
TasksUnder(c, k) == {t \in TasksOf(c) : LineOf(c, OwnerKey(portalTask[t].lead)) = k}

\* A name has one line, and a member's line is that of its name only.
LEMMA LineOfName ==
    ASSUME NEW c \in Clients, NamesApart(c), NEW n
    PROVE  /\ LineOf(c, n) \in Lines(c)
           /\ LineOf(c, n) = "owner" <=> n = CompanyOf[c]
           /\ LineOf(c, n) = "unassigned" <=> n \notin TeamNames(c)
           /\ \A m \in TeamOf(c) : LineOf(c, n) = m <=> n = member[m].name
<1>1. "owner" \notin TeamOf(c) /\ "unassigned" \notin TeamOf(c)
  BY BoardAssumption DEF TeamOf
<1>2. CASE n = CompanyOf[c]
  <2>1. LineOf(c, n) = "owner" /\ n \in TeamNames(c)
    BY <1>2 DEF LineOf, TeamNames
  <2> QED
    BY <1>1, <1>2, <2>1 DEF Lines, NamesApart
<1>3. CASE n # CompanyOf[c] /\ n \in TeamNames(c)
  <2> DEFINE k == CHOOSE m \in TeamOf(c) : member[m].name = n
  <2>1. \E m \in TeamOf(c) : member[m].name = n
    BY <1>3 DEF TeamNames
  <2>2. k \in TeamOf(c) /\ member[k].name = n
    BY <2>1
  <2>3. LineOf(c, n) = k
    BY <1>3 DEF LineOf
  <2> HIDE DEF k
  <2> QED
    BY <1>1, <1>3, <2>2, <2>3 DEF Lines, NamesApart
<1>4. CASE n \notin TeamNames(c)
  <2>1. n # CompanyOf[c] /\ \A m \in TeamOf(c) : n # member[m].name
    BY <1>4 DEF TeamNames
  <2>2. LineOf(c, n) = "unassigned"
    BY <1>4, <2>1 DEF LineOf
  <2> QED
    BY <1>1, <1>4, <2>1, <2>2 DEF Lines
<1> QED
  BY <1>2, <1>3, <1>4

\* Each line counts the leads and the tasks that fall under it.
LEMMA LinesCount ==
    ASSUME BInv, NEW c \in Clients, NamesApart(c), NEW k \in Lines(c)
    PROVE  Performance(c)[k] = Score(LeadsUnder(c, k), TasksUnder(c, k))
<1>1. "owner" \notin TeamOf(c) /\ "unassigned" \notin TeamOf(c)
  BY BoardAssumption DEF TeamOf
<1>2. CASE k = "unassigned"
  <2>1. UNION {OwnedBy(c, n) : n \in Unassigned(c)} = LeadsUnder(c, k)
    <3>1. \A l \in LeadsOf(c) : /\ OwnerKey(l) \in {OwnerKey(x) : x \in PortalLeads \cup {None}}
                                /\ LineOf(c, OwnerKey(l)) = k <=> OwnerKey(l) \notin TeamNames(c)
      BY <1>2, LineOfName DEF LeadsOf
    <3> QED
      BY <3>1 DEF OwnedBy, Unassigned, LeadsUnder
  <2>2. UNION {WorkOf(c, n) : n \in Unassigned(c)} = TasksUnder(c, k)
    <3>1. \A t \in TasksOf(c) :
             /\ OwnerKey(portalTask[t].lead) \in {OwnerKey(x) : x \in PortalLeads \cup {None}}
             /\ LineOf(c, OwnerKey(portalTask[t].lead)) = k
                   <=> OwnerKey(portalTask[t].lead) \notin TeamNames(c)
      BY <1>2, LineOfName, BoardRows
    <3> QED
      BY <3>1 DEF WorkOf, Unassigned, TasksUnder
  <2> QED
    BY <1>2, <2>1, <2>2 DEF Performance
<1>3. CASE k # "unassigned"
  <2> DEFINE n == IF k = "owner" THEN CompanyOf[c] ELSE member[k].name
  <2>1. \A x : LineOf(c, x) = k <=> x = n
    BY <1>1, <1>3, LineOfName DEF Lines
  <2>2. Performance(c)[k] = Score(OwnedBy(c, n), WorkOf(c, n))
    BY <1>3 DEF Performance, Lines
  <2> HIDE DEF n
  <2>3. OwnedBy(c, n) = LeadsUnder(c, k)
    BY <2>1 DEF OwnedBy, LeadsUnder
  <2>4. WorkOf(c, n) = TasksUnder(c, k)
    BY <2>1 DEF WorkOf, TasksUnder
  <2> QED
    BY <2>2, <2>3, <2>4
<1> QED
  BY <1>2, <1>3

\* What a line counts.
LEMMA ScoreCounts ==
    ASSUME NEW ls, NEW ts
    PROVE  /\ Score(ls, ts).assigned = Cardinality(ls)
           /\ Score(ls, ts).pending
                 = Cardinality({t \in ts : portalTask[t].status = "pending"})
           /\ Score(ls, ts).won = Cardinality({l \in ls : portalLead[l].stage \in Won})
BY DEF Score

\* The lines add up to the client's leads and tasks.
LEMMA PerformanceAddsUp ==
    ASSUME BInv, NEW c \in Clients, NamesApart(c)
    PROVE  /\ SumOf([k \in Lines(c) |-> Performance(c)[k].assigned]) = Cardinality(LeadsOf(c))
           /\ SumOf([k \in Lines(c) |-> Performance(c)[k].pending])
                 = TaskCount(c, AllPipes, "pending")
           /\ SumOf([k \in Lines(c) |-> Performance(c)[k].won])
                 = LeadCount(c, AllPipes, {"gagne"})
<1> DEFINE K == Lines(c)
           L == LeadsOf(c)
           P == {t \in TasksOf(c) : portalTask[t].status = "pending"}
           W == {l \in LeadsOf(c) : portalLead[l].stage = "gagne"}
           lineL == [l \in L |-> LineOf(c, OwnerKey(l))]
           lineP == [t \in P |-> LineOf(c, OwnerKey(portalTask[t].lead))]
           lineW == [l \in W |-> LineOf(c, OwnerKey(l))]
           assigned == [k \in K |-> Performance(c)[k].assigned]
           pending  == [k \in K |-> Performance(c)[k].pending]
           won      == [k \in K |-> Performance(c)[k].won]
<1>1. lineL \in [L -> K] /\ lineP \in [P -> K] /\ lineW \in [W -> K]
  BY LineOfName
<1>2. IsFiniteSet(L) /\ IsFiniteSet(P) /\ IsFiniteSet(W)
  <2>1. P \in SUBSET TasksOf(c) /\ W \in SUBSET LeadsOf(c)
    OBVIOUS
  <2> HIDE DEF P, W
  <2> QED
    BY <2>1, BoardRows, FS_Subset
<1>3. DOMAIN assigned = K /\ DOMAIN pending = K /\ DOMAIN won = K
  OBVIOUS
<1>4. ASSUME NEW k \in K
      PROVE  /\ assigned[k] = Cardinality({l \in L : lineL[l] = k})
             /\ pending[k] = Cardinality({t \in P : lineP[t] = k})
             /\ won[k] = Cardinality({l \in W : lineW[l] = k})
  <2>1. /\ assigned[k] = Cardinality(LeadsUnder(c, k))
        /\ pending[k] = Cardinality({t \in TasksUnder(c, k) : portalTask[t].status = "pending"})
        /\ won[k] = Cardinality({l \in LeadsUnder(c, k) : portalLead[l].stage \in Won})
    <3>1. Performance(c)[k] = Score(LeadsUnder(c, k), TasksUnder(c, k))
      BY LinesCount
    <3>2. /\ Performance(c)[k].assigned = Cardinality(LeadsUnder(c, k))
          /\ Performance(c)[k].pending
                = Cardinality({t \in TasksUnder(c, k) : portalTask[t].status = "pending"})
          /\ Performance(c)[k].won
                = Cardinality({l \in LeadsUnder(c, k) : portalLead[l].stage \in Won})
      BY <3>1, ScoreCounts
    <3> QED
      BY <3>2
  <2>2. LeadsUnder(c, k) = {l \in L : lineL[l] = k}
    BY DEF LeadsUnder
  <2>3. {t \in TasksUnder(c, k) : portalTask[t].status = "pending"} = {t \in P : lineP[t] = k}
    BY DEF TasksUnder
  <2>4. {l \in LeadsUnder(c, k) : portalLead[l].stage \in Won} = {l \in W : lineW[l] = k}
    BY DEF LeadsUnder, Won
  <2> QED
    BY <2>1, <2>2, <2>3, <2>4
<1>5. /\ SumOf(assigned) = Cardinality(L) /\ SumOf(pending) = Cardinality(P)
      /\ SumOf(won) = Cardinality(W)
  <2> HIDE DEF K, L, P, W, lineL, lineP, lineW, assigned, pending, won
  <2>4. /\ \A k \in K : assigned[k] = Cardinality({l \in L : lineL[l] = k})
        /\ \A k \in K : pending[k] = Cardinality({t \in P : lineP[t] = k})
        /\ \A k \in K : won[k] = Cardinality({l \in W : lineW[l] = k})
    BY <1>4
  <2>1. SumOf(assigned) = Cardinality(L)
    BY <1>1, <1>2, <1>3, <2>4, CountsAddUp
  <2>2. SumOf(pending) = Cardinality(P)
    BY <1>1, <1>2, <1>3, <2>4, CountsAddUp
  <2>3. SumOf(won) = Cardinality(W)
    BY <1>1, <1>2, <1>3, <2>4, CountsAddUp
  <2> QED
    BY <2>1, <2>2, <2>3
<1>6. TaskCount(c, AllPipes, "pending") = Cardinality(P)
  <2>1. P = {t \in TasksOf(c) : /\ portalTask[t].pipe \in AllPipes
                                /\ portalTask[t].status = "pending"}
    BY BoardRows
  <2> QED
    BY <2>1 DEF TaskCount
<1>7. LeadCount(c, AllPipes, {"gagne"}) = Cardinality(W)
  <2>1. W = {l \in LeadsOf(c) : /\ portalLead[l].pipe \in AllPipes
                                /\ portalLead[l].stage \in {"gagne"}}
    BY BoardRows
  <2> QED
    BY <2>1 DEF LeadCount
<1> QED
  BY <1>5, <1>6, <1>7

\* The statistics of portal-stats.service.ts agree, whatever the rows: they count each lead
\* and each task of a client once.
LEMMA BoardAddsUp ==
    ASSUME BInv
    PROVE  PortalReadsAgree
<1> SUFFICES ASSUME NEW c \in Clients
             PROVE  LET whole == Overview(c, AllPipes)
                        perf  == Performance(c)
                        lines == DOMAIN perf
                    IN  /\ whole.total = SumOf(whole.byStage)
                        /\ whole.total = SumOf([p \in AllPipes |-> Overview(c, {p}).total])
                        /\ Suivi(c, AllPipes).overdue = whole.overdue
                        /\ whole.overdue <= whole.pending
                        /\ Suivi(c, AllPipes).waiting = whole.byStage["nouveau"]
                        /\ Cardinality(TeamNames(c)) = Cardinality(TeamOf(c)) + 1 =>
                              /\ whole.total   = SumOf([k \in lines |-> perf[k].assigned])
                              /\ whole.pending = SumOf([k \in lines |-> perf[k].pending])
                              /\ whole.byStage["gagne"] = SumOf([k \in lines |-> perf[k].won])
  BY DEF PortalReadsAgree, AllPipes
<1>1. Suivi(c, AllPipes).overdue = Overview(c, AllPipes).overdue
  BY DEF Suivi, Overview
<1>2. Suivi(c, AllPipes).waiting = Overview(c, AllPipes).byStage["nouveau"]
  BY BoardAssumption DEF Suivi, Overview
<1>3. Overview(c, AllPipes).byStage["gagne"] = LeadCount(c, AllPipes, {"gagne"})
  BY BoardAssumption DEF Overview
<1>4. Overview(c, AllPipes).pending = TaskCount(c, AllPipes, "pending")
  BY DEF Overview
<1>5. DOMAIN Performance(c) = Lines(c)
  BY DEF Performance, Lines
<1> QED
  BY <1>1, <1>2, <1>3, <1>4, <1>5, OverviewAddsUp, CountedApart, PerformanceAddsUp
=============================================================================
