-------------------------------- MODULE OwnMail --------------------------------
(***************************************************************************)
(* Mail from the user's own account (mail-accounts.service.ts): to a lead  *)
(* (leads.service.ts, sendEmail), and from the mailbox page                *)
(* (imap-mailbox.service.ts, send and reply), with a copy in the Sent      *)
(* folder.                                                                 *)
(*                                                                         *)
(* The account is read anew for the SMTP transport and for every IMAP      *)
(* session.  A password that does not open the box is refused by both      *)
(* servers.  A failing mail server may have done what it was asked: the    *)
(* answer is lost, or comes after OP_TIMEOUT_MS.                           *)
(*                                                                         *)
(* Left out: what a mail says, hosts and ports, encryption, attachments,   *)
(* the \Seen flag; the look-up of the lead, which only refuses.            *)
(***************************************************************************)
EXTENDS Statements, Sequences

CONSTANTS MailUsers, Boxes,     \* users, and mail accounts at some provider
          Mails                 \* mails a request may send: numbers

\* None stands for no account, no box, no mail, no answer and no request.
ASSUME MailAssumption ==
    /\ None \notin MailUsers /\ None \notin Boxes /\ None \notin Mails /\ None \notin Handlers
    /\ None \notin {"sent", "copied", "refused", "failed"}
    /\ IsFiniteSet(Mails) /\ Mails \subseteq Int

VARIABLES
    mailbox,    \* mailbox[u]: row of user_mail_accounts, [box, key]; None without one.
                \* A key is named for the box it opens.
    left,       \* left[x]: the box a mail left from, or None
    filed,      \* filed[x]: boxes whose Sent folder has a copy
    mailRow,    \* mailRow[x]: status of the row of email_messages, or None
    mailTold,   \* mailTold[x]: what its request answered, or None
    mailing,    \* mailing[h]: a request under way
    given,      \* history: given[u], the last password that was given and stored
    mishaps     \* history: <<what, whom>>, see Excused

mailVars == <<mailbox, left, filed, mailRow, mailTold, mailing, given, mishaps>>
posted   == <<left, filed, mailRow, mailTold>>

NoMailing == [pc |-> "idle", user |-> None, kind |-> None, mail |-> None,
              account |-> None, origin |-> None, key |-> None]

MailInit ==
    /\ mailbox = [u \in MailUsers |-> None] /\ given = mailbox
    /\ left = [x \in Mails |-> None] /\ mailRow = left /\ mailTold = left
    /\ filed = [x \in Mails |-> {}]
    /\ mailing = [h \in Handlers |-> NoMailing] /\ mishaps = {}

MailAt(h, pc)    == mailing[h].pc = pc
MailGoes(h, r)   == mailing' = [mailing EXCEPT ![h] = r]
Replies(h, what) == /\ MailGoes(h, NoMailing)
                    /\ mailTold' = [mailTold EXCEPT ![mailing[h].mail] = what]
Excused(what, whom) == <<what, whom>> \in mishaps

----------------------------------------------------------------------------
(* The account *)

\* findRowByUserId in upsertMine.  Without a password the stored one is kept; without
\* either the request is refused.
ReadForUpsert(h) ==
    /\ MailAt(h, "idle") /\ Begins
    /\ \E u \in MailUsers, b \in Boxes, k \in Boxes \cup {None} :
          /\ k # None \/ mailbox[u] # None
          /\ MailGoes(h, [NoMailing EXCEPT !.pc = "upsert", !.user = u, !.key = k,
                            !.account = [box |-> b, key |-> IF k # None THEN k
                                                            ELSE mailbox[u].key]])
    /\ UNCHANGED <<mailbox, posted, given, mishaps, faults>>

\* Requests of the user that have read the account as it was.
Overtaken(h, u) ==
    {<<IF mailing[o].pc = "upsert" THEN "overtaken" ELSE "switched",
       IF mailing[o].pc = "upsert" THEN u ELSE mailing[o].mail>> :
        o \in {x \in Handlers \ {h} : mailing[x].user = u}}

\* The row of the upsert.
Saved(w) == w.account

UpsertMine(h) ==
    /\ MailAt(h, "upsert")
    /\ LET w == mailing[h]
       IN  \/ /\ Answers
              /\ mailbox' = [mailbox EXCEPT ![w.user] = Saved(w)]
              /\ given' = IF w.key = None THEN given ELSE [given EXCEPT ![w.user] = w.key]
              /\ mishaps' = mishaps \cup Overtaken(h, w.user)
           \/ Fails /\ UNCHANGED <<mailbox, given, mishaps>>
    /\ MailGoes(h, NoMailing)
    /\ UNCHANGED <<posted, calls>>

DeleteMine ==
    /\ Begins
    /\ \E u \in MailUsers :
          /\ mailbox[u] # None
          /\ mailbox' = [mailbox EXCEPT ![u] = None] /\ given' = [given EXCEPT ![u] = None]
          /\ mishaps' = mishaps \cup Overtaken(None, u)
    /\ UNCHANGED <<posted, mailing, faults>>

\* resolveProbeCreds: what testMine tries, the fields left empty being the stored ones.
ProbeCreds(u, dto) ==
    LET stored == IF mailbox[u] = None THEN [box |-> None, key |-> None] ELSE mailbox[u]
    IN  [f \in DOMAIN stored |-> IF dto[f] # None THEN dto[f] ELSE stored[f]]

----------------------------------------------------------------------------
(* Sending *)

Opens(account) == account # None /\ account.key = account.box

Unsent == {x \in Mails : mailTold[x] = None /\ \A o \in Handlers : mailing[o].mail # x}

\* The account of the transport is read.
Carried(w, kind, account) == [w EXCEPT !.pc = "smtp", !.kind = kind, !.account = account]

\* The mail of sendEmail, which keeps a row of it.
ToLead(w) == Carried(w, "lead", mailbox[w.user])
\* The mail of send.
FromPage(w) == Carried(w, "send", mailbox[w.user])
\* reply first reads the original, in the mailbox.
OriginalRead(w) == [w EXCEPT !.pc = "transport", !.kind = "reply", !.origin = mailbox[w.user].box]

Compose(h) ==
    /\ MailAt(h, "idle") /\ Begins /\ Unsent # {}
    /\ \E u \in {x \in MailUsers : mailbox[x] # None} :
          LET w == [NoMailing EXCEPT !.user = u, !.mail = AnyOf(Unsent)]
          IN  \/ MailGoes(h, ToLead(w)) \/ MailGoes(h, FromPage(w))
              \/ Opens(mailbox[u]) /\ MailGoes(h, OriginalRead(w))
    /\ UNCHANGED <<mailbox, posted, given, mishaps, faults>>

\* getTransporterForUser, of a reply.
GetTransporter(h) ==
    /\ MailAt(h, "transport")
    /\ LET account == mailbox[mailing[h].user]
       IN  \/ /\ Answers /\ account # None
              /\ MailGoes(h, Carried(mailing[h], "reply", account))
              /\ UNCHANGED mailTold
           \/ Answers /\ account = None /\ Replies(h, "refused")
           \/ Fails /\ Replies(h, "refused")
    /\ UNCHANGED <<mailbox, left, filed, mailRow, given, mishaps, calls>>

\* A mail that failed: to a lead it is recorded, another is answered 502.
Failed(h) ==
    IF mailing[h].kind = "lead"
    THEN MailGoes(h, [mailing[h] EXCEPT !.pc = "failed"]) /\ UNCHANGED mailTold
    ELSE Replies(h, "refused")

SendMail(h) ==
    /\ MailAt(h, "smtp")
    /\ LET w == mailing[h]
       IN  \/ /\ Opens(w.account) /\ Answers
              /\ left' = [left EXCEPT ![w.mail] = w.account.box]
              /\ MailGoes(h, [w EXCEPT !.pc = IF w.kind = "lead" THEN "sent" ELSE "append"])
              /\ UNCHANGED <<mailTold, mishaps>>
           \/ ~Opens(w.account) /\ Answers /\ Failed(h) /\ UNCHANGED <<left, mishaps>>
           \/ Opens(w.account) /\ Fails /\ Failed(h) /\ UNCHANGED <<left, mishaps>>
           \/ /\ Opens(w.account) /\ Fails /\ Failed(h)
              /\ left' = [left EXCEPT ![w.mail] = w.account.box]
              /\ mishaps' = mishaps \cup {<<"answer lost", w.mail>>}
    /\ UNCHANGED <<mailbox, filed, mailRow, given, calls>>

\* insertEmailMessage.  The mail is out already when the row of a sent one is refused;
\* a failed one without a row is answered all the same.
InsertEmailMessage(h) ==
    /\ mailing[h].pc \in {"sent", "failed"}
    /\ LET w == mailing[h]
       IN  \/ /\ Answers /\ mailRow' = [mailRow EXCEPT ![w.mail] = w.pc]
              /\ Replies(h, IF w.pc = "sent" THEN "sent" ELSE "refused")
              /\ UNCHANGED mishaps
           \/ /\ Fails /\ Replies(h, "refused") /\ UNCHANGED mailRow
              /\ mishaps' = mishaps \cup {<<"unrecorded", w.mail>>}
    /\ UNCHANGED <<mailbox, left, filed, given, calls>>

----------------------------------------------------------------------------
(* The Sent folder *)

\* mutant: a copy that fails is told as one that stands.
AppendedAnyway(done) == "copied"
\* What send answers: appendedToSent.
Appended(done) == IF done THEN "copied" ELSE "sent"

\* appendToSent: the account is read again; a timeout leaves the copy or not.
AppendToSent(h) ==
    /\ MailAt(h, "append")
    /\ LET x == mailing[h].mail
           account == mailbox[mailing[h].user]
       IN  \/ /\ Opens(account) /\ Answers
              /\ filed' = [filed EXCEPT ![x] = @ \cup {account.box}]
              /\ Replies(h, Appended(TRUE))
           \/ ~Opens(account) /\ Answers /\ Replies(h, Appended(FALSE)) /\ UNCHANGED filed
           \/ Opens(account) /\ Fails /\ Replies(h, Appended(FALSE)) /\ UNCHANGED filed
           \/ /\ Opens(account) /\ Fails
              /\ filed' = [filed EXCEPT ![x] = @ \cup {account.box}]
              /\ Replies(h, Appended(FALSE))
    /\ UNCHANGED <<mailbox, left, mailRow, given, mishaps, calls>>

\* listMessages of a Sent folder: pages of the copies, the last one first.
MailboxPage(b, n, limit) ==
    LET kept  == {x \in Mails : b \in filed[x]}
        uids  == Ordered(kept, {p \in kept \X kept : p[1] > p[2]})
        first == (n - 1) * limit + 1
        last  == IF n * limit < Len(uids) THEN n * limit ELSE Len(uids)
    IN  SubSeq(uids, first, last)

MailNext == \/ DeleteMine
            \/ \E h \in Handlers : \/ ReadForUpsert(h) \/ UpsertMine(h) \/ Compose(h)
                                   \/ GetTransporter(h) \/ SendMail(h)
                                   \/ InsertEmailMessage(h) \/ AppendToSent(h)

MailSpec == MailInit /\ calls = 0 /\ faults = 0 /\ [][MailNext]_<<mailVars, counters>>

----------------------------------------------------------------------------
(* Properties *)

\* Types of the rows and of the mails.
MailTypeOK ==
    /\ \A u \in MailUsers : /\ mailbox[u] = None \/ mailbox[u].box \in Boxes
                            /\ given[u] \in Boxes \cup {None}
    /\ \A x \in Mails : /\ left[x] \in Boxes \cup {None} /\ filed[x] \subseteq Boxes
                        /\ mailRow[x] \in {None, "sent", "failed"}
                        /\ mailTold[x] \in {None, "sent", "copied", "refused"}

\* What the user is told of a mail, and what its row says, is what became of it, but
\* for a lost answer and a mail that left and could not be recorded (sendEmail answers
\* 409 then, and the mail is sent again if the user repeats).
MailFateIsTold ==
    \A x \in Mails :
        /\ mailTold[x] \in {"sent", "copied"} \/ mailRow[x] = "sent" => left[x] # None
        /\ mailTold[x] = "refused" \/ mailRow[x] = "failed" =>
              \/ left[x] = None
              \/ Excused("answer lost", x) \/ Excused("unrecorded", x)
        /\ filed[x] # {} => left[x] # None
        /\ mailTold[x] = "copied" => left[x] \in filed[x] \/ Excused("switched", x)

\* A reply leaves from the box its original is in, the stored password is the last one
\* given, unless another request of the user changed the account meanwhile.
AccountHolds ==
    /\ \A h \in Handlers : MailAt(h, "append") /\ mailing[h].kind = "reply" =>
          left[mailing[h].mail] = mailing[h].origin \/ Excused("switched", mailing[h].mail)
    /\ \A u \in MailUsers : mailbox[u] # None =>
          mailbox[u].key = given[u] \/ Excused("overtaken", u)

\* What the user is told, what his account holds and what left are one story.
OwnMailToldTrue == MailFateIsTold /\ AccountHolds

\* The test of an account without a form tries what sending will use, and the pages of a
\* Sent folder show every copy once.
MailReadsAgree ==
    /\ \A u \in MailUsers : mailbox[u] # None =>
          ProbeCreds(u, [box |-> None, key |-> None]) = mailbox[u]
    /\ \A b \in Boxes, x \in Mails :
          b \in filed[x] <=> \E n \in 1..Cardinality(Mails) : MailboxPage(b, n, 1) = <<x>>
================================================================================
