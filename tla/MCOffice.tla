-------------------------------- MODULE MCOffice --------------------------------
\* One run for the parts of the office that share nothing but the database and the
\* users: in a behaviour one part moves, the others keep their first state.
EXTENDS MeetingCalendar, MeetingPeople, ClickupLeads, StaffAccounts, CommercialDocs,
        PortalBoard, PortalMeta, MessagePages, OwnMail, CrmClients, MediaLibrary, TLC

CONSTANT Budget     \* Budget[part]: how many of MaxCalls requests a part may use

VARIABLE part

Parts == {"calendar", "people", "leads", "staff", "docs", "board", "meta",
          "pages", "mail", "clients", "media"}

\* The first client has a pipeline.
OfficePipelines == [p \in Pipelines |-> IF p = "p1" THEN "acme" ELSE None]

OfficeInit ==
    /\ CalendarInit /\ PeopleInit /\ ClickupInit /\ StaffInit /\ DocsInit /\ BoardInit /\ MetaInit
    /\ PagesInit /\ MailInit /\ CrmInit /\ MediaInit
    /\ part \in Parts /\ calls = MaxCalls - Budget[part] /\ faults = 0
    /\ pipeline = OfficePipelines /\ account["a"].email = "x1"

OthersStay ==
    /\ UNCHANGED part
    /\ IF part = "calendar" THEN TRUE ELSE UNCHANGED calendarVars
    /\ IF part = "people"   THEN TRUE ELSE UNCHANGED peopleVars
    /\ IF part = "leads"    THEN TRUE ELSE UNCHANGED leadVars
    /\ IF part = "staff"    THEN TRUE ELSE UNCHANGED staffVars
    /\ IF part = "docs"     THEN TRUE ELSE UNCHANGED docVars
    /\ IF part = "board"    THEN TRUE ELSE UNCHANGED boardVars
    /\ IF part = "meta"     THEN TRUE ELSE UNCHANGED metaVars
    /\ IF part = "pages"    THEN TRUE ELSE UNCHANGED pageVars
    /\ IF part = "mail"     THEN TRUE ELSE UNCHANGED mailVars
    /\ IF part = "clients"  THEN TRUE ELSE UNCHANGED crmVars
    /\ IF part = "media"    THEN TRUE ELSE UNCHANGED mediaVars

OfficeNext ==
    \/ part = "calendar" /\ CalendarNext /\ OthersStay
    \/ part = "people" /\ PeopleNext /\ OthersStay
    \/ part = "leads" /\ ClickupNext /\ OthersStay
    \/ part = "staff" /\ StaffNext /\ OthersStay
    \/ part = "docs" /\ DocsNext /\ OthersStay
    \/ part = "board" /\ BoardNext /\ OthersStay
    \/ part = "meta" /\ MetaNext /\ OthersStay
    \/ part = "pages" /\ PagesNext /\ OthersStay
    \/ part = "mail" /\ MailNext /\ OthersStay
    \/ part = "clients" /\ CrmNext /\ OthersStay
    \/ part = "media" /\ MediaNext /\ OthersStay

OfficeSpec ==
    OfficeInit /\ [][OfficeNext]_<<part, calendarVars, peopleVars, leadVars, staffVars, docVars,
                                  boardVars, metaVars, pageVars, mailVars, crmVars,
                                  mediaVars, counters>>

----------------------------------------------------------------------------
(* Values *)

OfficeSymmetry == Permutations(Handlers)

OfficeBudget  == [p \in Parts |-> IF p \in {"meta", "pages"} THEN 5
                              ELSE IF p = "mail" THEN 4 ELSE 3]
OfficeEdits   == {[date |-> 2], [phone |-> TRUE], [phone |-> FALSE], [active |-> FALSE],
                  [date |-> 2, phone |-> FALSE]}
OfficeRoles   == [u \in Staff |-> IF u = "ana" THEN "admin" ELSE "fixed_meeting"]
OfficeSlots   == {{<<21, 24>>}, {<<8, 12>>, <<10, 14>>}}
OfficeZones   == {-11}
OfficeLines   == {[lines |-> <<[q |-> 1, p |-> 1250]>>, rate |-> 20],
                  [lines |-> <<[q |-> 3, p |-> 333], [q |-> 1, p |-> 1]>>, rate |-> 7]}
OfficeTotals  == {[ht |-> 1, tva |-> 1, ttc |-> 5]}
OfficeMail    == [c \in Clients |-> c]
OfficeNames   == {"acme", "ana"}
OfficeUpper   == [i \in Ices |-> "AB"]
OfficeForms   == [p \in FbPages |-> {p}]

----------------------------------------------------------------------------
(* Properties of all parts; one that does not move keeps its first state *)

\* Types of the state of every part.
OfficeTypeOK ==
    /\ part = "calendar" => CalendarTypeOK
    /\ part = "people" => PeopleTypeOK
    /\ part = "leads"  => LeadsTypeOK
    /\ part = "staff"  => StaffTypeOK
    /\ part = "docs"   => DocsTypeOK
    /\ part = "board"  => BoardTypeOK
    /\ part = "meta"   => MetaTypeOK
    /\ part = "pages"  => PagesTypeOK
    /\ part = "mail"   => MailTypeOK
    /\ part = "clients" => CrmTypeOK
    /\ part = "media"  => MediaTypeOK

\* What the program counts and lists agrees with itself: meetings, leads, the pages a
\* role may open, the statistics of the portal, the pages of a conversation and of a
\* mailbox.
ReportsAgree ==
    /\ part = "people" => MeetingReadsAgree
    /\ part = "leads"  => LeadReadsAgree
    /\ part = "staff"  => AccessAgrees
    /\ part = "board"  => PortalReadsAgree
    /\ part = "pages"  => PagesAgree
    /\ part = "mail"   => MailReadsAgree
=============================================================================
