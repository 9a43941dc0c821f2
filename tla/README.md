# TLA+ models of the 63 Solution back end

The repository is a NestJS back end (`src/src`) over PostgreSQL, with SQL migrations in
`src/sql` and notes in `src/docs`. This directory holds TLA+ modules for the parts of it
in which order, concurrency and failure matter, the TLC configurations that check them on
small instances, and proofs of their most important properties for every instance, checked
by TLAPS.

    tlc -config broadcast_safety.cfg MCBroadcastJobs     # any run: PROJECT.json names its module
    tlapm BroadcastJobs_proofs.tla                       # any *_proofs module

`PROJECT.json` maps every definition that models code to the lines it models, lists the
hazards of the code with the properties aimed at them, and gives for each property a small
change of the model (a plausible bug) that the run detects.

## 1. The system

One Node process serves HTTP requests, a websocket gateway, a cron and two kinds of work
nobody awaits. JavaScript interleaves only at `await`, and almost every `await` is a SQL
statement sent through `supabase.service.ts`: one atomic statement, outside any
transaction, that returns `{ data, error }` and does not throw. **No operation of this
code uses a transaction**: a request that needs two statements can be overtaken by any
other request between the two, and can fail or die there. That is the source of nearly
every hazard below.

External parties: Meta (WhatsApp Cloud API and its webhooks), SMTP/IMAP servers, Google
Calendar/Meet, ClickUp, Cloudinary, browsers.

| Component | State | Operations | Talks to | What is hard | What makes it correct |
|---|---|---|---|---|---|
| **Broadcast jobs** `whatsapp/whatsapp-broadcast-jobs.service.ts` | `whatsapp_broadcast_jobs` (status, cursor, counters), `..._job_results`; in memory `running` | `createJob`, `cancelJob`, `kick`/`processQueue`, `claimNextPending`, `runJob`, `onModuleInit` | Meta, mailer, realtime | a worker beside the requests, woken by `setImmediate`; process death in mid-job; writes by id only | nobody contacted twice, report right, no job lost or left running, a cancel takes effect |
| **Meeting reminders** `meetings/meetings-reminder.service.ts`, requests of `meetings.service.ts` | `meetings`, `meeting_reminders` | `create`/`update`/`remove` → `scheduleJobsForMeeting`, `cancelPendingJobs`; cron `processDueReminders` → `executeJob` → `markJob` | Meta, mailer, Google | the cron works from a snapshot, overlaps itself and the requests | what waits is what the meeting asks for; what shows as sent announced its date; no reminders for a dead meeting |
| **WhatsApp inbox** `whatsapp/whatsapp.service.ts` | `whatsapp_conversations` (`unread_count`), `whatsapp_messages` (unique `wamid`) | `handleMetaWebhook`, `updateMessageStatus`, `markRead`, `sendMessage`, `sendTemplateToConversation`, `persistSentTemplateMessage` | Meta, notifications, realtime | Meta repeats and reorders; the webhook answers before it works; read–modify–write of counts | a message is stored and counted once, the unread count and the status shown are right |
| **Notifications** `notifications/notifications.service.ts` | `notifications`, one per conversation | upsert, `markReadByConversationId`, `markRead`, `markAllRead` | inbox | two tables, two statements | an unread notification has an unread message |
| **Meeting calendar** `meetings.service.ts`, `google-meet.service.ts`, `ensureMeetLink` | `meetings`, Google events, blocked days, in-memory in-flight set | create, update, remove, regenerate, backfill, manual confirmation and reminder | Google, Meta, mailer | effects outside the database before or after the row; the in-flight set is filled after an `await` | no stray event, the event shows the row, one confirmation |
| **Meeting people** `meetings.service.ts`, `meetings-stats`, `meeting-availabilities` | `meeting_members`, `meeting_assignees`, `admin_availabilities` | replace members and assignees, availabilities, lists, statistics | – | delete + insert, twice; days of Casablanca | members of the last update; figures that agree |
| **ClickUp leads** `clickup/clickup.service.ts` | `clickup_leads` | full synchronisation, webhooks | ClickUp | a synchronisation of many pages against single webhooks | no lead resurrected, announced once |
| **Users, roles, realtime** `users`, `auth`, `realtime` | `users`; in memory the sockets of each user | create, change role, remove; connect, disconnect | browsers | count, then remove; a socket that closes during its authentication | an administrator remains; online exactly while connected |
| **Quotes, invoices, propositions** `devis`, `factures`, `propositions` | one table each | number, create, convert, patch, remove | – | the number is read, then inserted | numbers unique and without gaps, totals add up |
| **Client portal** `portal-*` | rows by client: pipelines, leads, notes, activity, tasks, team, account | CRUD, moves, activity log, statistics | – | ownership read first, rows written later; two-statement operations | rows of one client never reach another; the activity log tells what happened |
| **Portal: Meta connection** `portal-meta` | in-memory OAuth states; `meta_connections`, `meta_pages`, `meta_forms` | start, callback, choose forms, disconnect | Meta Graph | callback against disconnect, restart | a state is used once, no forms without a connection |
| **Message pages, query builder** `whatsapp.service.ts` lists, `supabase.service.ts` | – | pages forward, last, older | PostgreSQL | the text parser of `or(...)`; ties of a second | a filter means what was asked; nothing missed or repeated |
| **User mail** `mail-accounts`, lead threads | `user_mail_accounts`, `email_messages` | account, mail to a lead, mail and replies, copy in Sent | SMTP, IMAP | lost answers, timeouts, an account changed meanwhile | what is told of a mail is what became of it |
| **CRM clients** `clients` | `clients` | create, update, remove | – | duplicates looked for, then written | no two with one e-mail or ICE |
| **Media** `cloudinary` | `media_files`, files at Cloudinary | upload, remove | Cloudinary | file and row in two steps | a row has its file |
| Not modelled: Meta API client, dashboard, PDFs, proposals, immediate bulk e-mail, mailer, contact form, bootstrap | none, or single rows | reads, I/O, layout | SMTP, Meta, ClickUp | – | – |

Interactions that the models keep: broadcast worker and HTTP requests share the job table
and the `running` flag; requests and cron share `meetings` and `meeting_reminders`; webhook
payloads, users and senders share conversations, messages and notifications. Worker and cron
also send through the inbox (`sendBroadcastTemplateToPhone`, `persistSentTemplateMessage`).
That is the only point where the three groups meet, and it is one-way: neither the job table
nor the reminders depend on conversations. So these are three specifications: in
`WhatsappInbox` worker and cron are senders among the `Agents`, and in the other two a send
is one step that is counted as a success or a failure.

The other components share nothing with each other but the database client and the table of
users, whose rows they only refer to. Each has a module of its own and all use `Statements`.
Where the same rows are looked at for two questions, they are two modules: `MeetingReminders`
(what is announced, and when), `MeetingCalendar` (events, links, confirmations) and
`MeetingPeople` (who takes part, and what is counted); a request of one is the same request
in the others, with the statements that the question does not depend on left out.

## 2. The modules

| Module | What it is |
|---|---|
| `BroadcastRecipients` | pure: a request becomes a list of recipients (normalise, filter, deduplicate by key) |
| `BroadcastJobs` | the queue, its worker, requests, faults, crash and boot |
| `BroadcastPromise` | abstract: what a user of the queue may rely on |
| `MCBroadcastJobs` | instances, and `BroadcastJobs` ⇒ `BroadcastPromise` |
| `BroadcastJobs_proofs` | theorems: calls and counters; the promise, the report and the ends of jobs |
| `MeetingReminders`, `MCMeetingReminders`, `MeetingReminders_proofs` | meetings, their reminder rows, requests and cron runs |
| `ReminderPromise` | abstract: what becomes of a reminder as its meeting lives and ends, and what a run may do with it |
| `WhatsappInbox`, `MCWhatsappInbox`, `WhatsappInbox_proofs` | webhook payloads, users and senders over conversations, messages and notifications |
| `InboxPromise` | abstract: the messages, badges and notifications that a user of the inbox sees |
| `Statements` | what the modules below share: a statement that answers or fails, requests, their bounds; rows in an order, sums of counts |
| `MeetingCalendar` | meetings beside their Google events, blocked days, confirmations |
| `MeetingPeople` | members, assignees, availabilities; lists and statistics |
| `ClickupLeads` | ClickUp, its webhooks, synchronisations, the table of leads |
| `StaffAccounts` | users and the last administrator; sockets and presence; what a role may reach |
| `CommercialDocs` | quotes, invoices, propositions: numbers, conversion, totals |
| `PortalBoard` | pipelines, leads, timeline, tasks, team and statistics of portal clients |
| `PortalMeta` | OAuth states and the connection, pages and forms of a portal client |
| `MessagePages` | the pages of a conversation, as the query builder asks for them |
| `OwnMail` | the mail account of a user and the mails sent with it |
| `CrmClients` | clients and their unique columns |
| `MediaLibrary` | files at Cloudinary and their rows |
| `MCOffice` | the eleven modules from `MeetingCalendar` on in one specification |
| `Meetings_proofs` | theorems about `MeetingCalendar` and `MeetingPeople` |
| `Portal_proofs` | theorems about `PortalMeta` and `PortalBoard` |
| `Records_proofs` | theorems about `StaffAccounts`, `CrmClients`, `MediaLibrary`, `OwnMail`, `CommercialDocs`, `ClickupLeads` |
| `Counting_proofs` | lemmas about rows in an order and counts that add up |
| `Office_proofs` | theorems about `MessagePages`, and about the office as `MCOffice` composes it |

Conventions of all specifications:

- **Grain.** An action is one awaited call that changes or reads shared state, with the
  synchronous code up to the next `await`. A `pc` field names the call that is awaited.
- **Failing statements.** `Answers` and `Fails` are the two outcomes of a statement;
  each action says what the code does with `{ error }`, which differs from place to place
  (return, throw, ignore, read as "no"). `MaxFaults`/`MaxFailures` bounds how many fail.
- **Crash** drops what the process holds in memory; tables and history stay. In the modules
  over `Statements` a failing statement stands for it too where the code stops there; only
  `PortalMeta`, whose OAuth states are in memory, has an action for it (`Restart`).
- **Rows.** A SQL row is a function of its key with `"absent"` (or -1) for "no row"; a
  unique index is a guard of the insert.
- **History variables** (marked as such) record what happened in the world: calls to Meta
  and to the mailer, dates announced, messages counted. No guard reads one.
- Definitions commented `mutant` are what a bug would make of the definition below them;
  they are not part of the specification.

### Broadcast jobs

`status`, `message`, `tally`, `finished`, `error` are columns of the job row, `results` its
detail rows. `pc = "idle"` is `running === false`. `kicks` counts `setImmediate` callbacks,
`tails` the `processQueue` calls that have set `running = false` and await `hasPending`:
several can, since the next kick may start a loop meanwhile. `count` and `outcome` are
locals of `runJob`. `cancelling` holds the `cancelJob` calls between their read and their
write, with the status they read, from which line 370/371 takes `finished_at` and `error`.

`CreateJob`, `CancelRead`, `CancelWrite` are the requests; `RunKick`, `FindNext`, `Claim`,
`CheckTail` are `processQueue`/`claimNextPending`; `CheckCancelled`, `StopJob`,
`SendWhatsapp`, `SendEmail`, `SaveResult`, `SaveProgress`, `Finalize` the awaits of `runJob`;
`Boot` is `onModuleInit`. Phones and e-mails are model values: `Absent` is one that
normalisation refuses, two spellings of one number are the same value, and so deduplication
is what it is in the code: by key, ignoring names, keeping the first.

`BroadcastPromise` has only a phase, how far a job has gone and its size. `KeepsPromise`
maps `phase <- status`, `reached <- begun`, `size <- Total`. It permits what the code really
does and nobody would guess: a job may become `completed` after it was cancelled (the final
update is by id), but only if everybody was reached; one recipient or more may be reached
after the cancel; a restart fails every running job and resumes none.

### Meeting reminders

`meeting[m]` has the four columns reminders depend on: status, date, the channels a contact
exists for, and the reminders wanted. `status[k]`/`sendAt[k]` is the row of a slot
`k = (meeting, channel, offset)`. `batch[b]` is one run of the cron: a snapshot `todo`, the
row in hand, the meeting it has read, the verdict to be written. Nothing in the code stops
a run from starting while another works, so there are several. `request[h]` is a create or
an update between its awaits: it carries the row *it* wrote and the list of sent jobs it
read, and may be overtaken.

Members and assignees are not modelled here, but that a request may end at them is: `create`
looks at its members after the insert (`meetings.service.ts:1326`), so one without phone and
mail leaves a meeting that has no reminders (`unplanned`), and an update whose members or
assignees fail does not reach its reminders.

`Create`, `UpdateRead`, `UpdatePatch`, `Remove` are the meeting requests; `ListJobs`,
`UpsertJobs` are `scheduleJobsForMeeting`, `CancelJobs` is `cancelPendingJobs`; `Fire`,
`LoadNext`, `EnsureLink`, `Send`, `Mark` the cron. Dates are clock ticks; two *texts* of a
date are kept apart (`PgText` without, `IsoText` with milliseconds) since the code compares
texts.

`ReminderPromise` knows neither dates nor requests. `KeepsReminders` maps `life` to what a
user sees of a meeting (none, live, over, gone), `state <- status`, `went <- sends`, and of
a run the rows it has still to look at (`carried`), the one in hand and its verdict. It
permits what the code does and a user may not expect: a reminder rescheduled under a run is
still sent by it; two runs may carry one reminder; a verdict may be lost, and then the
reminder waits although it went out; a meeting that ends while its reminder is in hand gets
that one. It forbids that a run looks at a row twice or lets one out for a meeting that was
not active when it looked, that "sent" shows without a send, and that a reminder, or the
meeting, is back after its removal. `OneLateReminder` is no property of a run any more: it
is what the promise says of runs, told by a history variable, and stays a theorem (`OneLate`).

### WhatsApp inbox and notifications

`unread[p]` is the conversation of a phone (-1: none), `row[w]` the status of a message,
`note[p]` the notification of the conversation. `hook[h]` is a payload under way, processed
item by item; an exception leaves the loop and drops the rest (`Abort`), which is not the
same as `continue` (`NextItem`). `agent[a]` is a request of a user or sender. `Receive`
may deliver any payload at any time, again and in any order.

`UpdateStatus`, `FindDuplicate`, `FindConversation`, `InsertConversation`, `Persist`,
`ReadUnread`, `Count`, `Notify` are the awaits of `processMetaWebhookValue`; `MarkRead` +
`ReadNotes` is `markRead`; `ReadNotifications` the notification requests; `SendToMeta`,
`FindForSend`, `TouchForSend`, `CreateForSend`, `StoreSent` the sends.

`InboxPromise` has no payloads and no requests. `KeepsInbox` maps a message received to
absent, stored or counted (`InboxOf`), `badge` to the unread count, `bell <- note`,
`sent <- accepted` and `shown <- row`. It forbids that a message is stored or counted a
second time, however its deliveries repeat and interleave; that a badge says more than were
counted; that a notification rings without a counted message; that a message shows which was
not sent, or appears twice. It permits a badge to be taken back to any lower number, which
is what the reads and writes of `unread_count` that overlap amount to. It replaces
`SideEffectsOnce` among the properties of the run, which stays a theorem (`Once`).

### The office

*`MeetingCalendar`.* `meetings[m]` has the columns that decide about the event: phone call,
active, date, link, event, and which confirmations are marked sent (`recent`: within five
minutes). `google[e]` is an event: free, live with its meeting and date, or removed.
`call[h]` holds the row a request has read (`seen`), the event it has just made and where it
is. `Create` → `AskGoogle` → `InsertRow` is `create`; `UpdateMeeting` → `PatchEvent` or
`AskGoogle` → `PatchRow` → `DropOld` → `SyncRow` is `update` with its calendar branches;
`RemoveMeeting` → `RemoveEvent` → `DeleteRow`; `RegenerateMeetLink` → `DropReplaced` →
`SaveMeetLink`; `Backfill`/`BackfillRow` from a list read once. A confirmation is `Confirm`
(the test of the in-flight set) → `ReadAgain` → `EnterFlight`, a manual reminder is `Remind`
(the read of the row) → `DecideReminder` (the test of the set, against the row read before),
both then `Send` → `MarkSent`; any other request may come in between each two. `InsertRow`
and `PatchRow` may end the request at its members, as above.

*`MeetingPeople`.* A request carries two small programs, one for the members and one for the
assignees, which `create` runs side by side (`Promise.all`) and `update` in turn:
`ReplaceMembers` and `ReplaceAssignees` are one step of them each. Times are hours, days are
days of Casablanca with one change of clock, so that the bounds of a day, a week and a
period are computed as the code computes them.

*`ClickupLeads`.* `task` is ClickUp, `webhooks` what is on its way (unordered, may be lost),
`lead` the table. `FetchTask` → `LeadExists` → `SaveLead` is a webhook of a created or
updated task, `LookUpLead` → `DeleteLead` of a deleted one; `StartSync`, `FetchPage` and the
same saves are a synchronisation, which keeps the pages it has read.

*`StaffAccounts`.* `FindAccount`, `CheckEmail`, `CountAdmins`, `WriteAccount` are the
statements of `create`, `update` and `remove`. `Connect`, `Authenticated`, `Disconnect` are
the gateway, `TellPresence` the event sent after `touchLastSeen` was awaited.
`Permissions`, `Pages`, `ApiPrefixes`, `Rooms` are the tables of the role files.

*`CommercialDocs`.* `NextNumero` reads the highest number, `InsertDoc` inserts under the
unique index and goes back to `NextNumero` on its refusal as often as the code does;
`NumberLimit` is what the digits read back can hold. Amounts are in cents, rounded as the
code rounds.

*`PortalBoard`.* `Validate` is the guard that reads the account at each request. `AssertLead`
and `AssertPipeline` are the reads of ownership, `WriteLead`, `Tell`, `InsertTask`,
`TouchTask` (to any of the three `TaskStatuses`, or back to pending by a reminder), `RemoveRow`, `AddPipeline`, `LookUpMember`, `WriteMember` the statements that
follow, with what the foreign keys do on a removal. `Overview`, `Suivi`, `Performance` are
the statistics.

*`PortalMeta`.* `ConnectUrl` draws a state for an account, `Callback` consumes it, whoever
brings it, and goes on only for that account (`Passes`); everything after
that is one look-up or write per page and form (`FindLink` … `WriteForm`), or the two
statements of `disconnect` (`DropForms`, `DropLink`).

*`MessagePages`.* `Query`, `Or` and the three kinds of page build the statement as the code
does; a clause that the parser garbles is not readable and PostgreSQL refuses it. The one
browser keeps what it was given.

*`OwnMail`, `CrmClients`, `MediaLibrary`.* One action per statement or call: in `OwnMail`
the two reads of the account (for sending and for the copy) are separate, since it may have
been changed in between; in `CrmClients` the two look-ups of duplicates come before the
write; in `MediaLibrary` several files of an upload are handled one after the other and a
failure ends the request with what was done left in place. `BeginRemove` lets any user name
any file, as `removeForUser` does: the type of the file is looked up without regard to the
user and the file destroyed, and only the row is deleted for its owner alone.

## 3. What the runs check

| Run | Instance | Shows | States |
|---|---|---|---|
| `broadcast_safety` | 2 jobs, 2 request forms with duplicates and missing contacts, 1 cancel, 1 fault, 1 crash | `TypeOK`; nobody contacted twice; a running row is owned; a pending row will be looked at; counters explain the cursor and lag by one recipient at most (`ReportIsTrue`); a cancel costs one late recipient plus one per failed status read; detail rows add up; `KeepsPromise` | 2.7 M |
| `broadcast_live` | e-mail jobs, 1 cancel, 1 crash, no faults, fair | every accepted job ends (`EveryJobEnds`); a cancelled job gets `finished_at` unless the process dies (`CancelIsClosed`) | 111 k |
| `broadcast_cancel` | as above, no fault, no crash | finding 1 | – |
| `reminders_edits` | 1 meeting, 2 channels × 2 offsets, 2 requests and 1 cron run, 2 edits, 1 crash | `TypeOK`; `PendingMatchesMeeting`, `NothingForgotten`, `SentAnnouncedTheDate`; `KeepsReminders` | 1.5 M |
| `reminders_cron` | 2 cron runs of 1 row each, 1 request, 1 edit, 1 fault, fair | how often a reminder can go out (`OncePerScheduling`); all that is due is dealt with although the limit is smaller than the queue (`DueIsServed`) | 279 k |
| `reminders_moved` | 1 run, 1 request, 2 edits | finding 2 | – |
| `reminders_samedate` | the same, edits that re-post the date | finding 3 | – |
| `inbox_webhooks` | 1 phone, 2 messages in, 1 out, 2 payloads under way, 1 user or sender, 3 deliveries, 1 read, 1 fault or crash, fair | `TypeOK`; `KeepsInbox`; count bounded, and exact unless written from an old value; an unread notification has a message behind it; the status told last is shown; a message delivered when the conversations of its payload exist is stored in the end (`DeliveredIsStored`) | 1.1 M |
| `inbox_first` | 2 phones sharing a payload, a sender, no fault | finding 4 | – |
| `office` | eleven parts, of which one moves in a behaviour: 2 requests under way, 3 in all (4 in `OwnMail`, 5 in `PortalMeta` and `MessagePages`), 1 failing statement or call | the types of all, and the properties below | 1.3 M |
| `calendar_doubled` | 1 meeting, 2 requests, no fault | finding 5 | – |
| `library_owners` | 2 users, 2 files, 2 requests, no fault | finding 6 | – |

| Property of `office` | What it says |
|---|---|
| `NoStrayEvent`, `EventShowsTheRow` | every event in the calendar is that of a meeting; it is at the date of its meeting (`EventAtDate`) and a phone call has none (`PhoneIsOffline`) |
| `ConfirmedOnce`, `InFlightIsSending` | one confirmation per date and channel within five minutes, but for two senders of which one read the row before the other marked it; no entry of the in-flight set outlives its send |
| `PeopleAsAsked` | members and assignees are those last asked for, the creator among the assignees |
| `MirrorFollowsClickup` | when nothing is under way a lead is what ClickUp has, and was announced once |
| `AdminRemains`, `OnlineIsConnected` | an administrator remains, addresses are unique; online means connected, and is what browsers were told |
| `DocumentsAddUp` | numbers 1, 2, 3, …, once each; refusals have a reason; totals are those of the lines |
| `BoardKept` | nothing of one client refers to another (`ClientsKeptApart`); stages, owners, notes and announcements of a lead match its timeline and its tasks (`TimelineTellsTheLead`) |
| `FormsFollowConnection` | a state that was drawn lets one callback through, of the account it was drawn for; pages and forms belong to the connection |
| `OwnMailToldTrue` | what is told of a mail is what became of it (`MailFateIsTold`); an account keeps the last password given and answers from the box the original is in (`AccountHolds`) |
| `ClientsApart` | no two clients of an owner share an e-mail or an ICE; a refusal had a rival |
| `FilesFollowRows` | a row of the library has its file, of its type, unless a removal failed or came from another user |
| `ReportsAgree` | lists, counts and pages agree: meetings, leads, roles, portal statistics, pages of messages and of a mailbox |

`CHECK_DEADLOCK FALSE` everywhere: a system with no request left to serve, or whose bounded
environment is used up, may stop.

**Why these bounds are enough to meet the interesting cases.** Races in this code are
between a statement and one other writer, so two writers of each kind meet them all: two
cron runs, two requests, two payloads, a cancel against the worker. Two jobs are needed for
the queue to be found empty while the second is inserted; three raw recipients for a
duplicate beside two usable ones. Limit 1 with four rows makes `limit(100)` bite; limit 2
makes a run hold a row while a request rewrites it. Three ticks with leads of 2 and 1 let
each offset fall before, at and after an edit. One fault or crash at any point covers every
single failure; combinations of failures are covered by the proofs only.

In `office` one part moves in a behaviour (`part`), which loses nothing: no action of one
part reads a variable of another, so an interleaving of parts reaches only combinations of
states each reaches alone. Three requests, two of them under way together, are a first one
that sets the stage and two that meet on it; the connection of a portal client needs two to
exist before it can be lost, a page needs two messages before it can end in a second that
has more. `NumberLimit` 3 makes the digits of a number run out after three documents, two
attempts make the retries fail, the two `Instants` are an hour before a midnight and after
the change of clock. `Handlers` are interchangeable here and, with the cron runs
(`Batches`), in `reminders_edits`; no run that checks liveness uses symmetry.

**Exemptions.** Some properties except a state from which the code really loses something;
each exemption is a history set, and each is a hazard of its own in `PROJECT.json`:

- `raced` – a row was rescheduled while a cron run had it in hand: the run sends early or
  overwrites the fresh row with its old verdict;
- `clash` – two requests worked on one meeting: the one that patched first may schedule last;
- `movedOff` – the meeting was moved in a request that also deactivates it (finding 2);
- `unplanned` – a create was refused after its insert, and no update has scheduled the
  meeting since (section 4, end);
- `stale` – an `unread_count` was written back from a value no longer current;
- `crossed` – a conversation was read between the count and the notification of a message;
- `early` – Meta reported a status before the row of the message was there;
- `lost`, `tangled`, `unseen` (calendar) – an event that a failed call or statement detached,
  or that an update did not come to because its members failed; a meeting two requests
  worked on at once; a meeting for which a request sends although another one has sent, or
  is sending, since it read the row (finding 5), or whose mark failed;
- `torn` (people) – replacements of one meeting overlapped, or failed half-way, or were never
  begun because the members were refused after the insert;
- `unheard`, `crossed` (leads) – a webhook or a statement was lost; two handlers worked on
  one task;
- `raced`, `muddled` and the sockets closed during authentication (staff) – a role changed
  under a request that relied on it; two presence events of a user waited together;
- `removed`, `refusals` (documents) – a removed document frees its number; why creations
  were refused;
- `gaps` (portal) – an entry of the timeline or a task failed to insert, or two changes of
  the same kind overlapped;
- `cutOff` (portal connection) – a disconnection amid a callback;
- `behind` (pages) – a message stored with an older second than one already read;
- `mishaps` (mail) – an answer lost, a mail that left and was not recorded, an account
  switched during a request, a password overtaken by another request;
- `halfDone`, `taken` (media) – a removal that stopped between its steps; one that another
  user than the owner asked for (finding 6).

Without them the properties fail, with them they show that nothing *else* goes wrong.

**Fairness.** Weak fairness of the worker's steps, of queued callbacks and of `Boot`
(broadcast): the event loop runs every callback, `await` comes back, and the service is
restarted by its supervisor. Weak fairness of each cron run (reminders): `@Cron` fires every
five minutes. Weak fairness of each payload under way (inbox). `office` checks safety
only and assumes no fairness. Users, requests, Meta, the
clock, faults and crashes owe nothing. Liveness holds only up to a failed statement, and the
properties say so: a failed `hasPending` or a failed boot cleanup strands a pending job
until the next kick, a failed final update leaves a job `running` until the next boot.

## 4. Findings

1. `broadcast_cancel` – a cancel that read `pending` and updates after the worker's claim
   labels a job that contacts people as `Cancelled before start`
   (`whatsapp-broadcast-jobs.service.ts:371`).
2. `reminders_moved` – a PATCH that moves *and* cancels a meeting does not reset its sent
   reminders, nor does the later re-activation: the new date is never announced at that
   offset (`meetings.service.ts:1865`).
3. `reminders_samedate` – a PATCH with the unchanged date counts as a move, because a text
   with milliseconds is compared with one without: sent reminders are reset
   (`meetings.service.ts:1608`).
4. `inbox_first` – two payloads, or a payload and a template send, that create the
   conversation of a new phone together: the loser drops its message and the rest of the
   payload, which Meta does not repeat (`whatsapp.service.ts:1457`).
5. `calendar_doubled` – a manual reminder reads the row before it tests the in-flight set
   (`meetings-reminder.service.ts:496`, `:519`): with its row read before the confirmation
   marked it and the test made before the confirmation enters the set, or after it has left
   it, both send.
6. `library_owners` – a removal destroys the file of whoever has it and is refused only when
   it comes to the row (`cloudinary.service.ts:388`): the library of the owner keeps a row
   without a file.
Two more are in the model without a run of their own, the passing runs saying what follows
from them. A page of messages *older* than a cursor is always refused: the nested `and(...)`
of its filter is cut at its comma by `QueryBuilder.or`, and what is left is not an identifier
(`whatsapp.service.ts:540`, `supabase.service.ts:300`; `OrClauses` and `IsRefused` of
`MessagePages`). And a create whose member has neither phone nor mail answers 400 after the
insert (`meetings.service.ts:1326`): the meeting stays, without its creator among the
assignees, without reminders and without confirmation (`unplanned`, `torn`).

## 5. What is proved

All for every value of the constants, assuming only the named `ASSUME`s of the modules:
types of the constants, bounds that are naturals, finite sets of rows, distinct
identifiers. Those that say more are of the code: a request of a broadcast has one of the
two forms of the DTO; what a PATCH carries has the type its DTO validates; `Lists` of
`ClickupLeads` is not empty, since `clickup.service.ts:126` falls back to a default list; a
document has a limit of digits and of attempts, at least one; a new portal lead starts in
`nouveau`, and `gagne` is one of the stages; the ids of team members differ from the two
keys `performance` adds to them; a page takes one message at least; a meeting lasts two
hours at most (`MEETING_DURATIONS`) and time zones are those of IANA, from -12 to 14. The
clock of Casablanca changes once, at any hour.

**Broadcast** (`BroadcastJobs_proofs`)

- `TypeCorrect`: `Spec => []TypeOK`. `TypeOK` is inductive as it stands, since it says which
  steps of the worker hold a job.
- `RecipientsOnce`: the list stored for a request has every key of its usable recipients and
  none twice. A recipient is kept when its key has no earlier place, so a kept recipient is
  found by its rank among the kept, and two places of the list are two ranks.
- `AtMostOnce` and `CountersExact`. "At most one call" is not inductive: a call is safe only
  because none was made before, that is because the worker's cursor is right. `IInv` adds
  `FreshInv` (a row never claimed has called nobody and has an empty tally), `ClaimedInv`
  (the row the worker holds is past `pending`, so a second claim is impossible),
  `UncalledInv` (recipients from the cursor on are uncalled, minus the channel just done),
  `TallyInv` and `CountInv` (the stored counters, and the worker's own, are explained by
  the cursor and the channels done). That no status leads back to `pending` carries the
  argument across cancels, lost writes and restarts: there is no bound on any of them.
- `QueueKeepsPromise`: `Spec => KeepsPromise`, one lemma per action, each a step of
  `BroadcastPromise` or a stutter. `PInv` adds to `IInv` that the row in hand is running or
  was cancelled under the worker (`HeldInv`), how far the worker has turned (`BegunInv`) and
  that what is stored is never ahead of it (`LagInv`).
- `ReportStaysTrue`, `RunningOwned`, `PendingServed`, `CancelBounded` from one invariant,
  `QInv`: without faults the row follows the worker write by write (`SavedInv`);
  `RunningIsOwned` and `PendingIsServed` are inductive together with it; a late recipient
  is paid for by the last good read of the status or by one that failed (`LateInv`).
- `ResultsAddUp`: `RInv` says that the detail rows of the job in hand are those of its first
  recipients, and count what the worker counts (`FiledInv`); keys of a message are distinct
  (`KeysInv`, from `RecipientsOnce`), which is why no detail row overwrites another.

**Reminders** (`MeetingReminders_proofs`)

- `TypeCorrect`, with the consistency of a run's program counter, row and verdict.
- `OneLate`. Strengthened by `LateInv`: a run that is about to send for a meeting that has
  left the active statuses has sent nothing for it since; sending takes it to `Mark`, and
  the next row of that meeting is skipped by `LoadNext`.
- `CronKeepsPromise`: `Spec => KeepsReminders`, one lemma per action, each a step of
  `ReminderPromise` or a stutter. Most of it is how one write changes what is seen of one
  meeting or one run (`LifeSet`, `RunSet`). That a run looks at a row *once* is the part that
  needs an invariant, `SnapshotOK` of `OnceInv`: the rows of a run's snapshot are different
  slots, and none of them is the one in hand. That a verdict is never written to a row that
  is gone is the guard of `markJob`'s update by id.
- `PendingMatches`, `NoneForgotten`, `SentAnnounced` from `FollowInv`, stated meeting by
  meeting: outside a clash one request works on a meeting and carries the row that is in the
  table, so what it will upsert is what the meeting asks for; a row in hand that was not
  rescheduled was due; a run holds the date of the meeting or the row was rescheduled
  under it (`raced`). A meeting whose create ended before its reminders has none and claims
  none until a request schedules it: `unplanned` is cleared by that upsert only.
- `OncePerRun` by counting. `Senders` is the set of runs that may still send a row; sends
  made plus senders left never exceed the runs times one more than the failures. A send
  takes its run out of the set; only a scheduling, a failure or a crash can put runs back.

**Inbox** (`WhatsappInbox_proofs`)

- `TypeCorrect`, including that a payload past its lookup has a conversation and, past the
  insert, a stored message.
- `Once`. Strengthened by `OnceInv`: the one payload that saw its insert succeed is the only
  one that may count the message, and until then nobody has.
- `Bounded`. Strengthened by `BoundInv`: a value *held* by a reader that will write it back
  is bounded too. This is what makes lost updates harmless in one direction: a count may be
  too small or come back after a read, but is never larger than what was received.
- `CountIsExact`. `WhoWrites` shows that an unread count is written in four ways only;
  `ExactInv` then follows a write at a time, the message counted being new by `OnceInv`.
- `NotesMeanMessages`: a payload about to notify has counted a message nobody has read since
  (`NotifyInv`), unless the conversation was read under it (`crossed`).
- `LastStatusShown`: what a sender holds was accepted and is held by nobody else
  (`HeldOnce`, `RowsAccepted`), so the first row of a message is written once, and every
  later status goes to a row that is there.
- `InboxKeepsPromise`: `Spec => KeepsInbox`, one lemma per action, each a step of
  `InboxPromise` or a stutter. Counting is a step of the promise because the message is
  stored and not counted (`OnceInv`) and the number written back is bounded (`BoundInv`);
  ringing, because a payload about to notify has counted its message (`NotedInv`); a message
  sent appears once because nobody else holds it (`HeldOnce`).

**Meetings** (`Meetings_proofs`)

- `CalendarTyped`, `EventsAccounted`, `EventsShowRows` from `CalInv`: what a request carries
  at each step (`ShapeInv`), that an event just made is held by its maker alone (`MadeInv`,
  `MakerInv`) and belongs to its meeting (`OwnInv`), and, for a meeting that two requests
  never worked on at once, that the request at work can rely on what it has read
  (`AloneInv`). `lost` and `tangled` are exactly what breaks it.
- `InFlightReleased`, `ConfirmedAtMostOnce` from `SendsInv` beside it: one request sends for
  a meeting at a time (`SoloInv`), the in-flight set names it (`FlightInv`), what it will
  send was not sent and what was sent is marked or will be (`SendInv`). A request between the
  row it read and its decision is not one that sends, and nothing is claimed of what it read:
  what it decides is compared with the table at that moment, or its meeting is `unseen`.
- `PeopleTyped`, `PeopleAreAsAsked` from `PeopleInv`: what is left of the two small programs
  of a request turns the rows there are into the rows asked for (`MeetingInv`).
- `MeetingsAddUp`: the statistics agree. A day starts where the day of an hour becomes that
  day (`DayCut`), also across the change of clock; so a meeting of a period falls on one day
  of it, and a day of the week is the day that `today` asks for.

**Records** (`Records_proofs`)

- `StaffTyped`, `AdminStays`, `OnlineTold` from `SInv`: a request past its count has seen
  another administrator, who is one still unless `raced` (`GuardInv`); the unique index
  stands behind the look-up (`AddressInv`); a socket is in the set of its user as long as it
  is open (`SockInv`), and an event that waits tells what holds (`WaitingInv`).
- `CrmTyped`, `OwnersClientsApart` from `CInv`: the indexes keep rows apart (`RivalsInv`) and
  a row is inserted under an id that was drawn for it (`DrawnInv`); the look-ups before are
  not needed for it, and one that fails only lets the index refuse instead.
- `MediaTyped`, `LibraryFollowed` from `LInv`: a file belongs to one upload until its row is
  there; removals come later, from anybody, with the type of the row while it is there and as
  an image otherwise, which spares the raw files stored without a row; a file that is missing
  was destroyed for its owner or is `taken`.
- `MailTyped`, `MailToldTrue` from `MailInv`: a request owns its mail, of which nothing is told
  or filed before it left (`OwnMailInv`, `UnsentInv`); the account it carries is the user's
  unless `switched` (`CarryInv`), and an upsert carries the password it will keep
  (`UpsertInv`).
- `DocsTyped`, `DocumentsAreRight` from `DocsInv`: until one is removed the numbers of a kind
  and year are 1 … N (`GapInv`) and no request is about to insert beyond N + 1
  (`WritingInv`); no two rows share a number (`ApartInv`); every attempt that was lost was
  lost to a document inserted since it read (`LostInv`), so a creation that gives up had
  rivals or met the limit of digits. The attempt to prove this found the first statement
  false: with 4 documents and a limit of 2 the digits may have run out at an *earlier*
  attempt than the last, so the history now remembers that they did (`full`).
- `LeadsTyped`, `MirrorKept` from `LeadsInv`: for a task that no two handlers worked on at
  once, a webhook is on its way, a handler will save what ClickUp has now, or the lead is
  right already (`TaskMadeInv`, `SingleInv`, `GoneInv`, `MirroredInv`). It showed that a statement of
  the mirror that excepted every task with an outdated read was weaker than what holds.
- `AccessKept`, `LeadsAreCounted`, `CopiesAreListed`: a role is shown what it may reach; the
  leads of each status and of each list add up to all; a copy filed in Sent is on one page.

**Portal** (`Portal_proofs`)

- `MetaTyped`, `ConnectionFollowed` from `MInv`: a state in the store knows the account it was
  drawn for, and no callback has passed with it yet (`StoreInv`); a request between its
  look-up and its write holds the connection of its account, or the account is `cutOff`.
- `BoardTyped`, `KeptApart` from `BInv`: every row carries its client and refers to rows of
  that client; a lead or pipeline whose ownership was read is the client's still, or is gone
  (`HoldInv`), since a client never changes on a row and foreign keys clear what is removed;
  an id drawn is nobody else's (`FreshInv`).
- `TimelineTold`, with `BoardHolds` for both, from `TInv` over `BInv`: of one kind of change
  one request is under way unless `gaps` (`SoloOK`); the stage is where the entries left off
  or where the entry about to be told leads (`StageOK`, `OwnerOK`, `NoteOK`); a lead has one
  entry of its arrival (`ReceivedOK`); tasks are announced or owed (`TasksOK`).
  The entries of a kind chain to the *last* one, which a proof has to find: the induction
  over places this takes is had from the least counterexample, with `WFMin` on the naturals.
- `BoardAddsUp`: each lead of a client has one stage, one pipeline or none, and one line of
  `performance` (`LineOf`), so stages, pipelines and lines add up to the same leads.

**Lists and sums** (`Counting_proofs`)

- A list in the order of a query (`Ordered`) is chosen among all lists in that order, and a
  sum of counts (`SumOf`) is the size of a set of pairs. Neither goes through the elements,
  so nothing has to be proved of a recursive definition: that a finite set *has* a list in
  order (`OrderedRows`) and that counts by key add up (`CountsAddUp`) are shown for the
  smallest subset they could fail for (`SmallestSubset`).

**The office** (`Office_proofs`)

- `PagesTyped`, `PagesHold` from `PagesInv`: two messages are in one order, by time and then
  by id, and a message stored later leaves that order as it was; a browser that reads on
  does so from the last row it has (`WayInv`). What a page leaves out is then later than all
  it has, or of the second at which it ended, or was stored behind it.
- `OfficeTyped`, `OfficeReports`, `OfficeKeeps`: every property of the run `office`, in the
  specification that the run checks. `OfficeInv` has the invariant of the part that moves
  and the first state of the others; a step of the office is one of that part
  (`StepOfAPart`). Invariants of a part never speak of `calls` and `faults`, which is why the
  budget a part starts with does not matter.

**Only model-checked.**

- Liveness (`EveryJobEnds`, `CancelIsClosed`, `DueIsServed`, `DeliveredIsStored`): fairness
  needs `ENABLED`, which is out of the prover's reach.

No module uses `RECURSIVE`.

## 6. What is not modelled

Components with status `not_modelled` in `PROJECT.json` are listed with their reason: the
Meta API client (a call that succeeds or fails, which its callers model), the dashboard and
the activity of administrators (aggregate reads), PDFs, proposals (nothing is stored),
immediate bulk e-mail and templates, mailer and signatures, the contact form, bootstrap,
filters and cryptography.

Inside the modelled components: message texts, templates and their parameters, media,
quotes, names and previews; realtime events, where no state depends on them; the delay
between recipients; titles and attendees of a Google event; messages without a `wamid`;
passwords, tokens and their encryption; texts of documents; amounts and rates in the portal
statistics; what a mail says, its attachments and its `\Seen` flag; folders, formats and
thumbnails of media. A call to Meta, to the mailer or to Google succeeds or fails and is
never delivered twice by itself.

Seen while reading and outside the models, since it is about SQL text and not about state:
`performance` of the portal statistics, asked for one pipeline, passes the three parameters
of its first statement also to two that use two of them (`portal-stats.service.ts:226` and
`:315`), which PostgreSQL refuses. `Performance` models the request without that filter.

## 7. What is left

Every safety property of the passing runs, the three abstract specifications among them, is a
theorem. Left for later: an abstract specification of the ClickUp mirror with the liveness
of a synchronisation, by TLC, and the components listed under 6.
