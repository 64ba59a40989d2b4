# Verification of the platform

TLA+ models, TLC configurations and TLAPS proofs for the backend of the
platform (`backend/src`, an Express API over PostgreSQL through Prisma) and for
the part of the dashboard (`frontend/src`, React) that decides what a user is
shown, offered and told. The modules sit beside the code; every definition that models code is listed with
its file and lines in `PROJECT.json` ("map").

Contents

1. The system
2. How the code is turned into actions
3. Modules
4. Runs: what is checked, the bounds, and what each run shows
5. Fairness
6. Proofs
7. What the code does not keep
8. What is not modelled
9. Plan

## 1. The system

The repository is a monorepo: `backend` (the API), `packages/shared` (Zod
schemas and constants), `frontend` (staff and client portal, React) and `web`
(public site, Astro). All state that lasts lives in PostgreSQL
(`backend/prisma/schema.prisma`); Redis holds cached lists and replayed
answers. The dashboard keeps no state that lasts: it caches answers of the API
in each tab (react-query), decides by them what to draw, and commands the API.
The public site only reads, and posts forms.

Several API processes may run side by side. Each answers HTTP requests, every
request running an `async` handler of its own, and each has two timers
(`server.ts`): every 30 seconds one drains the e-mail queue, every 15 minutes
one escalates broken service levels. There are no row locks and no serialisable
transactions: a handler reads, decides in JavaScript, and writes, and other
handlers run at every `await` between. What protects the data is, in the order
of how much it is used: checks on the row that was read; unique indexes
(idempotency keys, dedupe keys, delivery ids, codes); `updateMany` with the
expected state in its `where` (compare-and-set); and `$transaction`, which makes
several statements commit together but isolates none of the reads before it,
and, at READ COMMITTED, not even its own reads from another transaction's
commit.

### Components

| Component | State | Operations | Interacts with | What is hard |
|---|---|---|---|---|
| Billing | invoices (status, total, paidAmount), payments (status, key, gatewayRef) | create, send, void, overdue marking, charge by bank transfer or EVC Plus, provider webhook | the mobile-money provider (calls and webhooks), mail | read–decide–write on one row from four places; webhooks that overtake, repeat or come late; a key used twice |
| Notification delivery queue | notifications, delivery rows per channel (status, attempts, nextAttemptAt), preferences | emit, poll, claim, send, record, set preference, deactivate a user | every component that emits; SMTP | several processes on one queue, leases, crashes, duplicates, an e-mail that must eventually settle |
| Task workflow | tasks (status, approval, reviewer, QA sign-off), dependencies, checklists | create, submit, review, update, verify, checklist items, dependencies, delete | membership (who may), notifications | two services write one row; gates are read before the write; cycles between dependencies |
| GitHub App | installations, repositories, links, webhook deliveries | connect, disconnect, map, link, receive a webhook | GitHub, tasks, notifications | redelivery of what failed half way, disconnection during a delivery |
| Engineering operations | system updates, bugs, maintenance requests, releases, deployment records | one status machine each, approvals, recurrence, recording of deployments | tasks, GitHub links, the escalation | two writes that belong together, rows written by id over a concurrent move |
| SLA escalation | none of its own (dedupe keys of notifications) | a bounded scan every 15 minutes | operations, notifications | starvation of rows behind the window, alerts from rows read long ago |
| Sessions and two-factor | refresh tokens, TOTP secret, backup codes, reset tokens | login, refresh with rotation, logout, enrol, confirm, disable, reset, deactivate | the cookie jar of each browser | rotation racing with itself, reuse detection, answers lost or late |
| Project documentation | documents, versions, task links | create, edit, review, approve, archive, delete, propose tasks | tasks | concurrent editors, a review of one version and the approval of another |
| Project membership | members, roles, the lead | add, change, remove, choose the lead | tasks, operations | two choices of a lead at once |
| Human resources | employees, attendance, leave requests | record, check in and out, request, decide | users | two decisions of one request |
| Support tickets, milestones | tickets and replies, milestones and their completion date | create, update, reply, delete | projects | codes from a count, a date that follows a status |
| Careers, leads, inquiries | openings, applications, inquiries, replayed answers in Redis | apply, inquire, publish, delete an opening | the public site | a deletion that cascades, a key used twice |
| Public content | posts, cover images (object and asset row), the cached list | create, edit, publish, upload, delete; list | Redis, object storage, the public site | a cache filled after it was cleared, an image released while another post takes it |
| Users, roles and permissions | users, roles, rights of roles | edit a user's roles, deactivate | every route | the browser decides by an account it read minutes ago |
| Dashboards, portal and analytics | none of its own; answers cached in each tab | read, follow a link, use a button | all services | two caches of different age decide what is drawn |
| HTTP layer | none | the right a route asks for | all services | the rights of about 200 routes and the pages that call them are written apart |
| Web applications | the query cache of each tab, forms, lists that were loaded | read, command, invalidate, click on what was shown | the API | an old list on the screen after a save; a click on a row that moved on |
| Storage and media, shared schemas | objects, schemas | upload, validate | | section 8 |

### What makes each component correct

- **Billing.** An invoice is never credited beyond its total; PAID means paid
  in full; a draft has no money and no mail on it; one key asks the provider
  for money once; a payment ends once; credit comes from a completed payment;
  and where credits of one invoice do not cross, billing is a ledger.
- **Queue.** Each e-mail comes to rest; what rows say of the mail is true up to
  lost answers of the mail server, leases that ran out and faults; nothing is
  forgotten.
- **Notifications.** A notification has a delivery of its own and a repeated
  event is ignored.
- **Tasks.** Work starts on approved proposals only; the approver is not the
  author; done means signed off by QA in this round; prerequisites and
  checklist gate the moves; prerequisites have no cycle.
- **GitHub.** A delivery is applied by one handler at a time and never again
  after PROCESSED; one that failed can be retried; an installation appears only
  because an administrator connected it, and once disconnected it stays so
  unless an administrator connects it again, or a handler that was at work for
  it writes late.
- **Operations.** Nothing reaches production unapproved; a completed recurring
  request recurs once; statuses follow their tables except where a stale write
  landed; rows behave as the escalation assumes.
- **Escalation.** Managers are told of deadlines that were really missed, and
  of every one that stays missed within the window.
- **Sessions.** A session is one chain of tokens; a user is signed out for a
  reason; after a reset or a deactivation no session lives; a backup code opens
  one login and a second factor is one that was confirmed.
- **Documentation.** Each version is what it was edited to be and by whom; what
  is approved was reviewed in that version; no title is proposed that a linked
  task has.
- **Public content.** The cached list is the published one, or one of three
  stated things has happened, and it catches up; a cover can be read.
- **Careers.** An application is not lost; a key makes one submission.
- **Dashboard.** Nobody is led to what they are refused, except for a stated
  reason; a page shows what it said was saved; the commands a page offers are
  those the service accepts, and a click on an outdated page moves the row in
  the direction it offered or is refused, except in known ways.
- **The rest.** One lead engineer; a milestone has a date when it is completed
  and only then; a request is decided once; ticket codes never collide without
  a race.

Many of these hold up to a race that the code does not exclude. Such a property
is stated with its exception, the exception being a history variable that
records exactly that race (`hasty`, `doubtful`, `mislaid`, `removing`,
`doubted`, `doubled`, `unheard`, `overlapped`, `overtaken`, `disturbed`, `excuse`, the `why` of a `refusal`): the
property then says that nothing else breaks the promise, and its negation in the presence of the history is reachable.

## 2. How the code is turned into actions

*One action is one awaited call, with the synchronous code up to the next
await.* `handler[w]` (`process[p]` in the queue and the scan, `emitter[e]` in
Notifications, `editor[e]` and `visitor[v]` in Content, `request[r]`, `call[c]`,
`desk[d]`, `agent[a]`, `clerk[c]` in the small modules) holds the locals the
code keeps over that await, so a value that may be stale in the code is a field
of that record and a value that is read afresh is not. Every handler slot can
stop between two steps (`Abort`, `Die`, `...Aborts`): the call threw, or the
process died. A `$transaction` is one action, except where its own reads decide
what it writes (choosing a lead, proposing tasks): there the read and the
commit are two. A unique index is a guard of the insert, with a second action
or disjunct for what the code does with the error (`KeyTaken`).

*What decides is kept, what is only stored is not.* Line items, dates, names,
comments and texts have no counterpart. A date that is compared is the result
of the comparison: an invoice is `pastDue` or not, a `nextAttemptAt` is `due`
or not, a service level is `overdue` or not; each turns true by an action of
its own, at any moment. A document is the set of its lines that make a task
title.

*The browser.* One action is one step of the user (open a page, follow a link,
press a button), one request reaching the API, or one answer reaching the tab.
The cache is react-query's, modelled from how the dashboard configures and
calls it: entries with a time of freshness, requests that are joined, retried or
cancelled, invalidation by a prefix of the key. Pages, links, hooks and routes
are data: each page is the set of queries it shows and of commands it offers,
with the right it asks for first, and one set of actions runs over all of them.

*Identity.* An invoice is its number, a payment its idempotency key (unique in
the schema), a delivery its dedupe key, a refresh token its place in the order
of creation.

*The outside.* `ProviderDecides` (the provider), `TimePasses`, `DueDatePasses`,
`DeadlinePasses`, `Expire` (clocks), `Configure` (a restart with SMTP settings),
`Forget` (Redis), the jar of a browser, and `Abort`, `Die`, `RunFault`,
`RecordFault`, `EmitFails` (failures) model what the code is exposed to; they
are marked external in the map where no code stands for them.

## 3. Modules

| Module | Models | State and actions |
|---|---|---|
| `Billing` | `invoice.service.ts`, `payment.service.ts`, `payments/` | `invoice`, `payment` are the tables, `provider` what EVC Plus knows, `mailed` the invoices mailed. `CreateCount`/`CreateInsert`, `SendRead`/`SendWrite`/`SendMail`, `VoidRead`/`VoidWrite`, `markOverdue`; `ChargeLookup`, `ChargeLoad`, then `BankCommit`, or `EvcCreate`, `EvcInitiate`, `EvcStoreRef`; `WebhookFind`, then `WebhookFail`, or `WebhookRead`, `WebhookSettle` |
| `Ledger` | the promise: bills, amounts due, receipts by key | `Open`, `Collect` |
| `BillingLedger` | Billing seen as a `Ledger` | the refinement mapping (`L`), `ImplementsLedger`, `Reconciled` |
| `EmailQueue` | `processPendingNotificationEmails`, the timer, the mailer | `email` rows in `queue` order; a run is a batch of snapshots in `process[p]`: `Poll`, then per row `Claim` (compare-and-set), `Skip` or `Send`, `Record`. `sendMail` answers "failed" to every error, so `Send` may fail with the e-mail accepted: `unheard` counts those |
| `Notifications` | `emitNotification`, preferences | extends `EmailQueue`: `EmitRead`, `EmitWrite` (the transaction), `setNotificationPreference`; `NotificationsNext` composes both |
| `TaskGraph` | which tasks exist, dependency rows | `Insert`, `SoftDelete`, `DependencyRead`/`DependencyWrite`, `removeTaskDependency` |
| `Tasks` | `task.service.ts`, the workflow of `engineering.service.ts` | extends `TaskGraph` with the rows: `createTask`, `createEngineeringTask`, submit, review, `UpdateRead` with `CheckPrerequisites`, `CheckChecklist` and `Move` (compare-and-set) or `Overwrite` (by id), `VerifyRead`/`VerifyWrite`, checklist. What a call asks of its user is both the service's check (membership, `Managers`) and the route's permission: `tasks.update` (`Updaters`), `engineering.tasks.create` (`Proposers`: file, submit, checklist), `engineering.tasks.review` (`Reviewers`: review, sign off) |
| `GitHub` | `github.service.ts` | `installation`, `repository`, `link` are the tables, `told` the dedupe keys of notifications, `delivery` and `event` the webhook deliveries. `ConnectStart`/`ConnectWrite`/`ConnectRefresh`/`ConnectPrune`, `DisconnectRead`/`DisconnectWrite`, `MapRead`/`MapWrite`, `LinkRead`/`LinkWrite`, `removeTaskLink`; a delivery is taken up by `Receive` or `Claim`, applied from `Apply` on by the writes its event calls for, and ends in `Close`, or in `Throw` and `MarkFailed`; `overtaken` are the handlers at work for an installation when it was disconnected |
| `Operations` | `engineering-operations.service.ts` | `update`, `bug`, `request`, `release` are the tables; each has the transitions of the code as a table, a call that reads and checks, and a write: compare-and-set for most, by id for `updateBug` and `approveRelease`; completion of a recurring request creates the next one in its transaction; a deployment is recorded in two writes |
| `ServiceLevel` | what the escalation may assume of a bug or request | `File`, `Work` on abstract rows; the interface between `Operations`, which implements it (`AsServiceLevels`), and `SlaEscalation`, which is built on it |
| `SlaEscalation` | `sla-escalation.service.ts`, its timer | `ScanRead` takes the window, `Emit` goes through rows, stages and managers one dedupe key at a time, `EmitFails`, `Die` |
| `Sessions` | `auth.service.ts`, `user.service.ts`, the cookies of the dashboard | `token` in order of creation, `jar` the cookie of each browser, the second factor; a call reads, may read more, writes, and its answer reaches the jar later or never |
| `Documentation` | `project-documentation.service.ts` | the row, its versions, the tasks proposed; a caller opens a version and sends it back with the edit; compare-and-set on the version in a transaction; `propose` reads the titles of the linked tasks and commits in two steps; a task has the `line` it came from (history) and the `title` it has now, which `RenameTask` (`updateTask`) changes |
| `Content` | `post.service.ts`, `articleImage.service.ts`, the public list | `posts`, `images` (object, asset row), `list` (the key in Redis); an editor goes step by step through upload, cover resolution, write, cache invalidation and the release of the old image; a visitor misses, reads and fills |
| `Careers` | `job.service.ts`, `inquiry.service.ts`, `lib/idempotency.ts` | openings, submissions, `answers` (the replayed answers in Redis, of applications and of inquiries under keys of their own), requests |
| `OperationsScreen` | `EngineeringOperationsPage.tsx`, the bugs of `EngineeringWorkspacePage.tsx` | extends `Operations`: `shown` is what a page loaded; a click sends the status that the page's own tables offer for it |
| `TaskScreens` | `TasksPage.tsx`, the task lists of the engineering pages | extends `Tasks`: lists loaded earlier, a form that sends every field, a board that sends its column; `Offered`, the commands each page offers to a user with the permissions it asks for, and `Accepts`, the whole of what the service and the route ask of the command, prerequisites and checklist included |
| `ConsoleRights`, `ConsoleRoutes` | `permissions.ts`, `seed.ts`; `routes/*.ts`, `middleware/rbac.ts` | rights of the seeded roles, the rights that each call asks for |
| `ConsoleHooks`, `ConsolePages`, `ConsoleEngineering` | `features/*/api.ts`, `hooks.ts`, the pages | queries with their keys, commands with what they invalidate, pages |
| `ConsoleApp` | `App.tsx`, `AppShell`, `DashboardPage.tsx`, `dashboard.service.ts` | guarded pages, links, the widgets of the overview and the links they carry |
| `ConsoleAccess` | one browser and the API | `signedIn` is the account in the database, `me` and `overview` what the tab has cached of it; `ReadAccount`, `ReadOverview`, `Load`, `Follow`, `Ask`, `updateUser`, `SignInAgain`, `Enrol` |
| `ConsoleRows` | the services, by call | which rows a call reads or writes |
| `ConsoleCache` | one cache entry and the page that shows it | `entry`, `fetch`, `command`; `ShowPage`, `HidePage`, `Read`, `Arrive`, `Fail`, `Send`, `Perform`, `Succeed` with `invalidate` or `setQueryData`, `NotSucceed`, `WriteElsewhere` |
| `MC_Dashboard` | `Sessions`, `ConsoleAccess`, `ConsoleCache` | an initial state chooses which of the three takes steps |
| `Membership` | members and lead of `engineering.service.ts` | `Demote` reads the leads the transaction sees, `Commit` writes |
| `Milestones`, `Tickets`, `Workforce` | `milestone.service.ts`, `ticket.service.ts`, `hr.service.ts` | rows, and calls that read, decide and write by id |
| `MC_Offices` | the eight components that share no rows | an initial state chooses the one that works, so the state spaces add up instead of multiplying |
| `BillingProofs`, `QueueProofs`, `TasksProofs`, `GitHubProofs`, `OperationsProofs`, `SessionsProofs`, `DocumentationProofs`, `OfficeProofs` | theorems | section 6 |
| `MC_*` | instances for TLC | constants and symmetry |

Definitions marked "Mutant" are variants of a definition with a plausible
mistake. They are not part of any specification: `PROJECT.json` ("mutants")
pairs each property with one that breaks it, so that no property holds for want
of trying.

`Tasks` composes with `TaskGraph` by extension: each of its actions is one of
`TaskGraph`'s or leaves the graph alone, which theorem `TasksImplementsGraph`
proves and from which cycle freedom carries over. `Operations` and
`SlaEscalation` compose through `ServiceLevel`: the one is proved to implement
it, the other is built on its actions, so that what is found of escalations
holds of the rows that operations really make.

## 4. Runs

| Run | Instance | Distinct states | Shows |
|---|---|---|---|
| BillingConcurrent | 2 handlers, 2 keys, 1 invoice of total -1 (rejected) or 2, amounts 0–2 | 212,792 | what holds of billing at every interleaving |
| BillingSerial | 1 handler, 2 invoices of total -1 (rejected), 0 or 2, 2 keys | 648,593 | refinement of `Ledger`; the last payment closes |
| BillingVoid, BillingLostUpdate | 1 handler; 2 handlers | counterexamples | section 7 |
| EmailQueue | 2 processes, 1 e-mail, 3 attempts, any number of lost answers, 1 fault, 2 overrun leases | 652,438 | rows tell the truth; the queue drains |
| Tasks | a proposal and a plain task, 2 managers of whom one is an engineer, 1 call in flight, 1 open page | 247,318 | review, QA and gates; saves without a change; pages that offer a way on |
| GitHub | 2 handlers, 1 delivery, 1 installation, 1 repository, 1 item, 1 project | 501,688 | who may apply a delivery; that a processed delivery and a disconnected installation stay so |
| Operations | 1 filed row of any table, up to 2 next occurrences, 2 calls in flight, one of them from a page | 235,876 | production gate, recurrence, dates, status tables, refinement of `ServiceLevel`; pages fit the service, outdated clicks |
| SlaEscalation | 2 bugs, window of 1, 1 manager, 1 process, 1 fault | 111,817 | alerts are true; a breach is told |
| Dashboard | sessions: 2 browsers, 2 calls in flight, 5 calls in all; access: every role, 3 pairs of roles and none, 1 switch; cache: each of the 138 queries of pages, 3 writes | 989,265 | chains, sign-outs, revocation, second factor; refusals; own writes read |
| Documentation | 2 lines (also the titles), 2 tasks, 2 callers, 4 versions | 1,208,747 | history, approval, proposals |
| Offices | content: 2 posts, 1 image, 2 editors, 1 visitor, 3 edits; careers: 1 opening, 2 submissions, 1 header key (2 keys in Redis), 2 requests; membership: 2 users, 2 calls; milestones: 1 row, 2 calls; tickets: 3 codes, 2 calls; workforce: 1 person, 3 calls; notices: 2 callers, 1 event, 1 process; graph: 4 tasks, 1 call | 617,780 | one office at work in each behaviour |

Bounds, and why they are enough:

- *Handlers.* A race in this code is between a read and a write of one row by
  another handler's write; two handlers show every pair. Workforce has three:
  two that decide and one that comes after. The proofs remove the bound where
  the property is proved.
- *`MaxInvoices`, `Keys`.* Rows only meet through keys and through the invoice
  a payment names: two keys on one invoice give the lost updates, two invoices
  the mix-ups between rows. `CreateCount` compares the count with the bound.
- *`Totals`, `Amounts`.* The code compares amounts with 0 and with the balance
  and takes the difference. Amounts of 0, 1 and 2 on a total of 2 give no, part
  and full payment, and excess after a part. A negative total is rejected, and
  is tried; a total of 0 is tried in BillingSerial.
- *`MaxAttempts`, `BatchSize`.* Three attempts pass through a first, a middle
  and a last one (five in the code); a batch of one with one e-mail is the
  race of two processes for one row.
- *`MaxFaults`, `MaxOverruns`.* The faults and leases run out under a live
  holder are finite, since with infinitely many no queue drains; one fault and
  two overruns let the late outcome of each process land on the other's. One
  fault of the scan is a failed emission or a death between two rows.
- *Task rows.* `Requests` gives one field at a time: the code decides on status
  and assignee separately. Tasks that need no review take the statuses in
  `PlainStatus` only: as prerequisites they count as done or not done. A
  checklist is empty, open or complete.
- *One of each in GitHub.* Deliveries and rows of different installations meet
  nowhere: every write names its own row. The events of the one delivery are
  all those of `Event`, and it can be repeated for ever; two handlers are the
  delivery against its repetition, or against an administrator. The proofs
  remove the bound.
- *Operations: one filed row (`MaxFiled`).* The tables meet only in a release's
  tasks and pull requests, which are flags of the release; the instance files a
  row of any table, so each machine is explored with two calls on one row.
  Three request rows are the filed one and two successors: one more than a
  correct code creates.
- *Window of one, two bugs.* The older bug can hold the window against the
  younger one, which is the starvation that `BreachIsTold` excepts.
- *Sessions: five calls.* A rotation with a lost answer, its retry, the reuse
  that it is taken for, a login and one more. Two browsers are the two cookie
  jars that one user's reset, reuse or deactivation must reach.
- *Access: one switch (`MaxSwitches`).* What the browser caches differs from
  what the database holds after one change of roles or of the user; a second
  change is a first one from another pair of accounts, and every pair of the
  holdings is tried. `Given` has each role alone, pairs whose roles open
  different pages, and the empty set. No page compares two rights in a way
  that a third role could change: rights are joined.
- *Cache: three writes (`MaxWrites`).* Rows begin with one write; a read takes
  one value, a command writes the next, and another tab one more between them.
  Entries are independent, so one entry at a time shows all; which one is an
  initial choice of every query of every page.
- *Documentation: four versions.* Create, review, approve, and one edit or
  archive on top (or an edit before the review), by two callers who each may
  hold any older version. Two lines and two tasks are the smallest document of
  which a part was proposed; a line that the document does not have serves as
  any other title that a task may be given.
- *Graph.* Four tasks give chains of three edges and cycles of two to four.
- *One call at a time.* `FullBalanceCloses` and `ImplementsLedger`
  (BillingSerial), `ReviewRespected` and `GatesHold` (Tasks) and `Acyclic` (the
  graph office) are checked with one call in flight, since the code keeps them
  only so. These runs cannot show the races on the same rows: an invoice that is
  credited, sent or voided under another handler, a task that moves on or a gate
  that changes under a call that has read it, two managers who add opposite
  edges. Those are covered by the theorems alone, which name each race as the
  step that must not happen (table in section 6), and are listed in section 7.
- *Permissions of task pages.* Both users hold all three permissions of the
  routes; membership, management and who is author or assignee differ. The
  theorem is for any sets that satisfy its hypothesis.

Deadlock is checked wherever a state without successor would be a fault
(billing, GitHub). The queue, the tasks, the escalation, the offices and the
rest may really come to rest (all settled; all deleted; all calls made) and
their configurations say so.

## 5. Fairness

Three specifications claim liveness.

- `EmailQueue`: weak fairness of each process's run (`Run(p)`: `setInterval`
  fires every 30 seconds while the process lives, and its loop goes on through
  every row) and of the clock (`TimePasses`). Nobody has to emit, to configure
  SMTP, or to bring the mail server up; a process without settings hands rows
  back as `WAITING_CONFIG` for ever. `QueueDrains` needs exactly this: an
  unlucky e-mail ends FAILED after its attempts, one of a deactivated user
  SKIPPED. A process that dies is started again by its supervisor: the fault
  empties its slot and the timer polls anew.
- `SlaEscalation` (`SlaFairness`): weak fairness of each process's scan and of
  the emissions of a scan under way, for the same two reasons. Work on bugs and
  the passing of deadlines are not fair. `BreachIsTold` claims nothing of rows
  that fall out of the window again and again: the code does not either.
- `Content` (`ContentFairness`): a call in flight goes on (the event loop
  resumes every promise that settles; a call that dies is `EditorAborts`), and
  Redis removes a key when its time to live ends. Nobody has to edit or visit.
  `ListCatchesUp` needs the last of these: a list filled too late is cleared by
  nothing else.

## 6. Proofs

`tlapm` proves each theorem for all values of the constants that satisfy the
assumption named beside them in the module. All rest on an inductive invariant,
`Init => I`, `I /\ [Next]_vars => I'`, with one step per action; a property of
states follows by `I => P`, a property of steps and a refinement by
`I /\ [Next]_vars => [A]_vars`.

The invariants have one shape, because the code has one: a handler reads, waits
and writes, so the invariant says of every call in flight what it knows and why
that is still true (`HandlerOK`, `UpdateKnows`, `AgentKnows`, `RevokeKnows`,
`FactorKnows`, `CallTrue`, `Fits`, ...). Three reasons occur. The knowledge is
of something that only grows. Or the history says that somebody wrote since,
and then the property excuses it. Or nobody wrote since, because the theorem
says which writes it supposes not to cross.

No theorem needs that calls do not overlap. Those of the third kind have the
form `Spec /\ [][A]_vars => ...`, where the action `A` is the one race that
breaks the promise, ruled out: no step writes what another handler in flight
has read in order to decide. Section 7 shows each of these races in the code.

| Ruled out | Of what | Theorems |
|---|---|---|
| `ClosedAlone` | an invoice is closed under a handler about to send or void it | `ClosedAloneCloses` |
| `CreditedAlone` | an invoice is credited, or a payment completed, under another credit of it | `CreditedAloneImplements` |
| `EdgesAlone` | an edge is added while another call searches for a path | `EdgesAloneAcyclic`, `TasksEdgesAloneAcyclic` |
| `NotOvertaken(Q)` | status, approval or sign-off of a task in `Q` is written while another call on it is in flight | `NotOvertakenReviews`, `UntouchedSavesAreHarmless` |
| `GatesUntouched(Q)` | what a gate saw of a task in `Q` changes while its call is in flight | `UntouchedGatesHold` |

One call at a time is a case of each, proved as a corollary (`BalanceCloses`,
`BillingImplementsLedger`, `GraphAcyclic`, `TasksAcyclic`, `TasksSerial`,
`GatesStayClosed`, `StaleSavesAreHarmless`); this is the instance that TLC
checks in `BillingSerial`, `Tasks` and `Offices`. Where such a call breaks off
is open in all of them.

**Billing, any number of handlers, keys and invoices** (`BillingAssumption`:
`MaxInvoices` is a natural number, totals and amounts are integers).

- `TypeCorrect`, `NeverOverpaid` (`PaidWithinTotal`), `PaidIsSettled`
  (`PaidMeansSettled`), `DraftIsUntouched`, and their conjunction
  `InvoiceStaysSound` (`InvoiceIsSound`, which the run checks). None of these is
  inductive: a handler in flight may write what it computed long ago. `IInv`
  joins `TablesOK` (the properties themselves, of the rows) and, for each
  handler, `HandlerOK`: what it holds is still true of the row it was read from.
  `nextPaid` is at most the total, and a handler about to credit or to mail
  holds an invoice that was issued. Lemma `Grow` says that rows only grow (an issued invoice keeps its
  total and never turns back into a draft, a payment keeps its invoice), so
  `HandlerOK` survives the steps of the others. Staleness can lose a credit but
  not exceed a total: that is why the property survives the race of
  `BillingLostUpdate`.
- `ChargedOnce` (`ChargedOncePerKey`), `CreditIsBacked` (`CreditHasPayment`),
  their conjunction `MoneyStaysReal` (`MoneyIsReal`, which the run checks), and
  `EndsOnce` (`PaymentEndsOnce`). `KInv` adds that between the creation of a
  key's payment and the end of its charge there is at most one handler, that a
  reference is stored only after the charge, and that a verdict exists only of
  a charge.
- `ClosedAloneCloses` (`FullBalanceCloses`) by `ClosingInv`: a credit that
  reaches the total writes PAID, also with a stale amount, so that only a
  status written over it can break the promise; nobody about to write SENT or
  VOID holds an invoice that is PAID (`Closing`).
- `CreditedAloneImplements` (`ImplementsLedger`) by `BooksInv`: what a credit
  read is still so when it writes (`Fresh`), so that the paid amount it writes
  is the one in the row and the amount of its payment. A handler that waits
  keeps that while others step (`WaitingIsFresh`), for which `KInv` is needed:
  a payment that the provider confirmed is not refused meanwhile
  (`PendingStep`). Each step opens a bill, collects a receipt or leaves the
  books as they are (`LedgerOpens`, `LedgerCollects`, `BooksUnmoved`). Sends
  and voids may cross at will.

**The queue, any number of rows, processes, faults and overrun leases**
(`EmailQueueAssumption`). `RowsAreExplained` (`RowsExplained`) by `IInv`, an
argument about copies. A process that is about to send or will hand its row
back, and a row that somebody may claim, can each lead to one e-mail more
(`MayStillMail`). A claim turns the row into such a process, a result turns the
process into an e-mail or back, and only a fault, a lease that runs out under
its holder, or an e-mail that was accepted and is handed back as failed
(`unheard`) makes two of one (`CopiesOK`). That a claim takes a row that may be
claimed rests on `Fits`: what a run remembers of a row is out of date or due,
because a claim writes a `nextAttemptAt` that nobody has seen (`RetriesOK`).
`NoticesAreDelivered` (`NoticeHasDelivery`) by `NoticesInv`, for any number of
emitters: the transaction of an event inserts a notification with its rows, or
none of them.

**TaskGraph** (`NoEdgeAssumption`). `GraphTypeCorrect` at any concurrency.
`EdgesAloneAcyclic` (`Acyclic`) for any number of dependency calls of which none
adds an edge between the search and the write of another: the edge that a call
is about to add closes no cycle (`CheckedEdgeSafe`), because edges that go and
edges from a task filed meanwhile open no path back to it. Reachability is
defined by closed sets (b is reachable from a when every set that contains a
and is closed under the edges contains b), so that no recursion is needed: a
cycle through a new edge is refuted by exhibiting a closed set, the one from
which the search found no path. Two managers adding opposite edges at once do
make a cycle.

**Tasks** (`TasksAssumption`).

- `TasksTypeCorrect`, `TasksImplementsGraph` at any concurrency;
  `TasksEdgesAloneAcyclic` follows.
- `ProposalsApprovedByAnother` (`ApprovedByAnother`) at any concurrency, by
  `ReviewInv`: the author of a row never changes and every handler that is
  about to approve was a manager other than the author when it read the row.
- `NotOvertakenReviews` (`ReviewRespected`) by `SerialInv`: where no call is
  overtaken on its task, what it remembers equals the row (`Fresh`), whatever
  goes on at other tasks.
- `UntouchedGatesHold` (`GatesHold`) by `GatesInv`: what the gates of
  `updateTask` saw is so when the status is written. Meanwhile other calls work
  on other tasks, tasks are filed and deleted and edges removed; a prerequisite
  can only become done or deleted, and a new edge leads from a new task.
- With the pages of `TaskScreens`: `ScreensImplementTasks`, each of their steps
  is a step of `Tasks`, so that all of the above holds with the pages too;
  `UntouchedSavesAreHarmless` (`UntouchedSaves`) for any number of pages and
  calls, by `PagesInv`: a status that a page shows is one that the task had,
  and the table of transitions leads from it to the present one only along
  `After`; `ProposalsGoOn` (`ProposalsMoveOn`) at any concurrency, where
  beside each user there is somebody else who manages the project and holds the
  three permissions: as long as a proposal is neither closed, rejected, under
  review nor sent back, and does not wait for a prerequisite, somebody is
  offered a step that brings it nearer to its end, with the permissions the
  pages ask for, and nothing refuses it: not the route, not the checks of the
  service, not its gates (`Accepts` is all of these, so that the property needs
  no `ENABLED`). The step out of an open checklist is to tick its next item. The
  lemma `ApprovedMovesOn` goes through the statuses.

**GitHub, any number of handlers, deliveries, installations, repositories**
(`GitHubAssumption`: `None` is neither a project nor an installation).

- `GitHubTypeCorrect`, `AppliedByOne` (`OneHandler`), `OnlyCrashesOrphan`
  (`OrphansExplained`), and the last two joined in `DeliveriesAreExplained`
  (`DeliveriesExplained`, which the run checks), by `Inv`. A handler gets hold of a delivery by the
  insert, which needs that there is no row, or by the claim, which needs a
  FAILED one; `OneHandler` says that neither is the case while somebody else
  holds it. `Knows` adds that a handler works on the event its delivery came
  with: the fields a step reads are there.
- `EndsAreKept` (`EndsHold`) joins two theorems. `ProcessedStays`
  (`ProcessedIsFinal`): whoever writes the status of a delivery holds it, or
  found it absent or FAILED. `DisconnectsHold` (`StaysDisconnected`) by
  `Current`: a handler at work for an installation that is disconnected is in
  the history `overtaken`, because a webhook that reads it afterwards ignores
  it. The code lets those handlers finish (section 7); the theorem says that
  nobody else but an administrator brings anything back.
- `ConnectionNeedsAdmin` (`ConnectedByAdmin`, proved and not a run's property),
  by `Connected`: a webhook writes the status of an installation some time after
  it read the row, and rows are not deleted meanwhile.

**Operations, any number of rows, people and calls** (`OperationsAssumption`:
rows of different tables have different names, and "nobody" and "unchanged" are
the name of no person). `IInv` has a part for each table
(`UpdatesOK`, `BugsOK`, `RequestsOK`, `ReleasesOK`): the types, what is claimed
of its rows, and what the calls on it know. A step on one table only ends calls
of the others or makes them stale (`OnlyEnds`), so the parts are proved one by
one.

- `ProductionIsGated` (`ProductionGate`). An approval that was read stays:
  nothing takes it back. A success on record without the status that belongs to
  it is between the two writes of `recordDeployment`, or `disturbed`
  (`RecordsExplained`).
- `BugDatesAreExplained` (`BugDatesExplained`): `fresh` is all that says the
  status a call of `updateBug` writes over is the one it read.
- `RecursExactlyOnce` (`OneNextOccurrence`), without an excuse: a request only
  moves forward (`Progress`), so a stale call finds it further on than it read
  it and its compare-and-set fails.
- `StatusesMoveByTable` (`StatusMoves`) and `OperationsImplementServiceLevel`
  (`AsServiceLevels`), from `IInv` and the list of what writes which table
  (`Writers`).
- With the pages of `OperationsScreen`, any number of them:
  `PagesImplementOperations`, a click is a call that any user might make, so
  that all of the above holds with the pages too; `OutdatedClicksAreKnown`
  (`OutdatedClicks`) by `ScreenInv`: what a page shows are rows, and an update
  or release that it shows begun is begun for ever (`NeverBack`), which leaves
  of all pairs of a shown and a present status the listed exceptions;
  `PagesFitTheService` (`PagesFit`), where there is an administrator and an
  engineer at all (without them nobody can approve, or take a bug), with the
  further invariant that a recurring request has a date (`RecurringDated`).
- `AlertsAreTrue` (`AlertsTrue`) of `SlaEscalation`, for any number of scans:
  what a scan took into its window was overdue, and what is overdue stays so or
  is answered.

**Sessions, any number of browsers and calls, sessions of any length**
(`SessionsAssumption`). `IInv` joins three arguments.

- `SessionsEndTogether` (`RevokeAllHolds`) by `RevokeOK`: a call that began
  since all sessions were ended is not about to refresh a token of before.
- `SecondFactorAgrees` (`SecondFactorExplained`) by `FactorOK`: what a call
  knows of the second factor as long as nobody wrote it since.
- `SignOutsHaveACause` (`SessionsExplained`) by `SessionOK`: who holds which
  token. A token on its way to a browser is held by nobody else, so that nobody
  can end it before it arrives (`HoldsOK`).

**The query cache, any number of writes, any tables of pages and hooks**
(`WritesAreBounded`). `PagesReadTheirWrites`: a query each of whose writers on
the page names its key (`TellsWrites`) is shown at least as young as the page
promised (`ReadsOwnWrites`). By `CacheInv`: an answer under way that no write
overtook is as young as the promise (`AnswerIsYoung`), and an entry behind the
promise is being read, or is out of date and not shown (`BehindIsKnown`). That
the pages of the dashboard are such is a fact about their tables, which the run
`Dashboard` enumerates: it begins in every query of every page.

**Rights and links, any sets of roles and any number of switches**
(`TablesAgree`). `RefusalsAreExplained` (`RefusalsExplained`) by `AccessInv`. The
tables of some hundred pages, links, routes and roles enter the proof by three
statements only, which TLC evaluates (`TablesAgree`): what a page shows or offers
asks for rights that open its route (`PagesAskFirst`), a link leads no further
than the list it stands in, a card to the page its readers may see
(`LinksLead`), and who may create may read (`CreatorsRead`). From these the proof
follows every link of the frame, the overview, the cards and the first page
(`FrameLinks`, `OverviewLinks`, `CardLinks`, `FirstPageLinks`) to the right that
it was drawn for, and from there to why that right is gone.

**Documentation, any number of callers, versions, lines and tasks**
(`DocumentationAssumption`). `HistoryIsTrue` (`HistoryTrue`),
`ApprovalsWereReviewed` (`ApprovedAsReviewed`) and `ProposalsAreExplained`
(`ProposalsExplained`) by `IInv`: a call that has the newest version open knows
the newest state, because only a write changes it and a write makes a version
(`CallTrue`); the titles that `propose` found missing are missing still, or another
call proposed since, or somebody gave one to a linked task, by a rename or a link
(`InsertTrue`).

**The offices, any number of rows and calls** (`OfficeProofs`).

- `LeadIsOne` (`OneLead`) by `MembershipInv`: a transaction that has read the
  leads (`ChoiceSeesLeads`) has seen all there are unless a choice overlapped
  it, in which case the commit leaves `doubtful`.
- `DateFollowsStatus` (`CompletionTracked`) by `MilestonesInv`, which needs no
  more than the types: whoever writes a status it had not read leaves `mislaid`.
- `DecisionIsOne` (`DecidedOnce`) by `WorkforceInv`: a clerk about to write has
  read a row nobody has decided, or a write came since and the second one will
  be `hasty`.
- `SubmissionsAreKept` (`LostExplained`, `OncePerKey`) by `CareersInv`: a
  request past the lookup of its key in Redis is the only one on it or the key is
  in doubt, and an opening about to be deleted has no application that was not
  sent while the deletion was under way.
- `CodesStayFree` (`CodesFree`) by `TicketsInv`: the codes in use are the first
  ones, so that the code after the count is free, unless somebody took it
  between the count and the insert, which the call then carries as `late`.

**Content, any number of posts, images, editors and visitors**
(`ContentAssumption`). `ContentIsExplained` (`StaleExplained`,
`CoverExplained`) by `ContentInv`. For the list: what a visitor has read is the
public list unless a write came since (`ReadIsPublic`). For the covers: an
editor about to save a cover holds an image that is stored (`SavedIsCovered`),
one about to release an image holds one no post uses (`DroppedIsUnused`), and
if two of them hold the same image it is in `overlapped` (`OverlapIsSeen`).

Model-checked only:

- liveness under fairness (`QueueDrains`, `BreachIsTold`, `ListCatchesUp`):
  outside what the prover does;
- that the pages of the dashboard satisfy `TellsWrites`: a fact about their
  tables, which the run enumerates;
- the two properties that the code does not keep (section 7).

## 7. What the code does not keep

Two of these are runs that end in a counterexample ("findings" in
`PROJECT.json` quotes the lines).

- **BillingVoid.** A provider's SUCCESS that arrives after `voidInvoice` turns
  the VOID invoice into PARTIAL or PAID: `applyEvcWebhook` does not look at the
  invoice's status, while a charge of a VOID invoice is refused.
- **BillingLostUpdate.** Two payments recorded at once are both COMPLETED and
  one of them is missing from `paidAmount`, which is written as the absolute
  value computed from an earlier read.

Seen in the models, and stated as the exception of a property or bounded by it:

- *Notifications.* Dedupe keys are per channel: an event emitted again after
  the recipient changed the preference makes a second notification.
- *Queue.* `sendMail` catches every error and answers "failed", also when the
  mail server has taken the e-mail and only its answer was lost: the row goes to
  RETRY and the recipient gets the e-mail again, or to FAILED although it was
  sent (`unheard`). A lease that runs out under a slow mail server makes a second
  copy too, and so does a fault between the e-mail and its SENT.
- *Tasks.* An update that repeats the task's status skips the workflow and
  writes the status by id: over a task reopened meanwhile it leaves DONE
  without a sign-off. The compare-and-set of the other branch compares the
  status only and has the same hole after one more round. A checklist item of a
  DONE task can be reopened, although items can no longer be added to it. The
  gates are read before the status is written: a prerequisite reopened or an
  item added in between is not seen. Two managers
  who add opposite dependencies at once make a cycle. A proposal that is TODO or
  BLOCKED stays there while a prerequisite is not DONE (`Waits`): a cancelled one
  holds it for good, unless that task is deleted, or the dependency is removed,
  which no page offers. The sign-off asks for `engineering.tasks.review`, which
  the seeded role QA_ENGINEER does not have: by the seeded roles it is refused to
  a QA engineer whom the service would let sign.
- *GitHub.* A webhook that has read the installation as ACTIVE or SUSPENDED
  updates it by id: over a disconnection in between it writes ACTIVE, and the
  repositories it goes on to write one by one come back too (`overtaken`). A
  delivery whose handler died stays RECEIVED and its repetitions are answered
  as duplicates (`OrphansExplained` says that this is the only way). A
  notification that fails after the link was created is not sent by the retry
  (`Link`). Deliveries of one item have no order: a retried older one writes
  its older state over that of a younger one.
- *Billing.* The slower of two sends can put a voided invoice back to SENT
  (`SendWrite`), and a void or a second send that read the row before the last
  payment writes over PAID (`ClosedAlone` is that race). If the process ends between SENT and the mail, sending again
  is refused and the client is never mailed.
- *Operations.* `updateBug` moves a bug to ASSIGNED also when the assignee is
  null; `approveRelease` writes APPROVED over a cancellation that came between;
  a deployment that is recorded without its second write leaves a release that
  can still be cancelled.
- *Escalation.* Behind a window full of rows that stay breached a younger row
  is never seen, told or not.
- *Documentation.* A line is compared with the titles that the linked tasks have
  now: after a task that was proposed is renamed, unlinked or deleted, its line
  is proposed a second time, without any overlap; two calls at once propose
  every line twice (`doubled`).
- *Sessions.* Two tabs with one cookie: the second refresh is taken for theft
  and signs the user out everywhere; or, when it reads before the first has
  written, one login goes on as two sessions. A refresh under way during a
  reset, logout or deactivation leaves a live session.
- *Content.* A cache filled after its invalidation shows an old list until its
  time to live ends. A cover found by one save is released by another.
- *Dashboard.* The frames of the first page draw their "View all" links while
  the overview is loading, to users whom the page behind refuses. An overview
  of five minutes ago, or of the user before in the same tab, draws links that
  the account no longer has: signing in sets the account and drops nothing else.
  Engineering pages offer some calls without asking for the right the route asks
  for (`Unasked`). Ten more queries and commands are sent without asking (the
  list of projects on the pages of milestones and tasks, of employees on those
  of attendance and leave, of roles on that of users, of clients where an
  invoice is made, of milestones in documentation and planning, of engineering
  projects on that of GitHub, and the update of a task on the overview of
  engineering): they are admitted only because each seeded role that may enter
  the page has that right as well (`Along`). A role that an administrator edits
  need not. A document saved in a new folder does not refresh the list of
  folders, proposing tasks does not refresh the list of tasks beside it, and
  editing the roles of one's own account does not refresh the account
  (`Unrefreshed`). An invalidation that finds an entry in its first read does
  not read again: the older answer arrives and counts as fresh.
- *Pages of tasks and operations.* A form sends the status it was opened with:
  saved after the task moved on, it can move the task back (`Slips` in `TaskScreens` are all
  such moves). A click on an outdated page is decided by the status of the row
  as it is, so it can move a row back that it offered to move forward, and the
  other way round (`TakesBack` and `TakesForward` in `OperationsScreen` are all
  such clicks).
- *Careers, membership, milestones, human resources.* The races named at
  `LostExplained`, `OncePerKey`, `OneLead`, `CompletionTracked`, `DecidedOnce`.

## 8. What is not modelled, and why

- *Single rows without rules between them*: status of leads and applications,
  clients, timesheets (any status over any other), the rights of a role (the
  seeded ones are a table of `ConsoleRights`), engineer profiles, comments, hours, progress
  reports, folders: the last write wins and no rule that is checked reads them.
- *Siblings of a modelled component*: services, portfolio, team, testimonials
  and FAQ keep a cached list as posts do; openings too.
- *Reads*: of the overview it is modelled which widgets and links a user gets,
  and of every list which rows it rests on; numbers, series, rankings, filters,
  pages of lists and searches are left out.
- *The dashboard* apart from rights, links, queries, commands and what pages of
  tasks and operations send: layout, fields, validation, texts, uploads in the
  browser. That expired access tokens are renewed by one shared refresh
  (`lib/apiClient.ts`) is left out: `Sessions` lets refreshes race at will.
- *The public site* (`web`) and its forms, beyond what `Content` and `Careers`
  receive from it.
- *Input and output*: storage and media (apart from article images), validation,
  rate limits, GitHub's REST API and signatures. The replay of answers by
  `Idempotency-Key` in Redis is best effort
  (it lets requests through when Redis is down): it is modelled in `Careers`,
  where nothing else protects the insert, and left out elsewhere on purpose,
  because what is checked of the services must hold without it.
- *Parts of modelled components*: totals of line items and tax (a total is an
  input), reading and marking of notifications, texts, dates and attachments.
- *Wrong passwords and codes* change nothing but rate limits; token formats and
  hashing are the identity of a token.
- *Isolation below read committed, replicas, clock skew between processes*:
  one database with atomic statements is assumed, as the code does.

## 9. Plan

Done, in the order of importance:

1. `Billing`, `Ledger`, `BillingLedger`, with proofs for any number of handlers,
   the refinement where credits do not cross.
2. `EmailQueue` and `Notifications`, with proofs of their safety.
3. `TaskGraph` and `Tasks`, with proofs.
4. `GitHub`, with proofs for any number of handlers and deliveries.
5. `Operations`, `ServiceLevel`, `SlaEscalation`, composed, with proofs.
6. `Sessions`: rotation, reuse, second factor and reset, with proofs.
7. `Documentation`: versions, the approval machine, proposals, with proofs.
8. The offices: `Content`, `Careers`, `Membership`, `Milestones`, `Tickets`,
   `Workforce`, with proofs.
9. The dashboard: pages over `Operations` and `Tasks`, with proofs; rights and
   links (`ConsoleAccess`) and the query cache (`ConsoleCache`), with proofs.

Left:

10. `Membership` composed with `Tasks` in place of its constants.
11. Roles whose rights an administrator edits, in place of the seeded ones of
    `ConsoleRights`.
