# Builders Stream in TLA+

A verification project for Builders Stream, a multi-tenant back end (FastAPI, SQLAlchemy,
PostgreSQL, Dramatiq) and its Next.js front end, for the office side of a construction
business: leads, estimates, projects, change orders, invoices, bills, accounting sync,
subscriptions, members, and a crew that writes without a signal. The modules model the
system's *decisions under concurrency and failure*: what each request, job, tab or device
read, what it locked, what it wrote, what another could do in between, and what is left
when one of them stops half-way. Field formats, wording and rendering are left out.

Contents: [1 the system](#1-the-system) · [2 how code becomes TLA+](#2-how-code-becomes-tla) ·
[3 the modules](#3-the-modules) · [4 the runs](#4-the-runs) · [5 the proofs](#5-the-proofs) ·
[6 what was found](#6-what-was-found) · [7 what is not modelled](#7-what-is-not-modelled) ·
[8 the plan](#8-the-plan)

Paths below are relative to the repository; `app/` stands for `src/backend/app/`, `web/` for
`src/frontend/`.

## 1 The system

### Components, their state and what makes them correct

| Component | State | Operations | Correct when | Module |
|---|---|---|---|---|
| Invoices (`app/routers/invoices.py`, `services/invoicing.py`, `tasks/flag_overdue_financial_records.py`) | `invoices`, `invoice_payments`; the company's advisory lock | create, send, pay, void; the overdue job; two handlers that draft invoices | payments never exceed the amount; `paid` means paid; numbers are 1, 2, 3, … per company; settled or void is final; what is past due is flagged | `Invoices`, `Ledger` |
| Estimates, bill of materials (`routers/estimates.py`, `services/estimate_*`, `bom_generation_handler.py`, `esignature.py`) | `estimates`, lines, signatures, deposits, BOM lines | create, update, delete, replace lines, calculate, send, approve, reject | each signature has its deposit; lines are of one request; what was signed stays, and is not deleted with its deposit; the BOM adds up | `Estimates` |
| Estimate PDF (`tasks/estimate_pdf.py`) | `pdf_status`, the file, the queue | export, generate, retry, mark failed | no export stays `pending` | `PdfExports` |
| Leads, projects, change orders (`routers/leads.py`, `projects.py`, `change_orders.py` and their handlers) | their `status` columns | the status machines; project drafted on a win; final invoice on completion | a won lead has one project; the final invoice bills the rest and not more | `Pipeline` |
| Transaction and event bus (`core/deps.py`, `events.py`) | one session per request | commit after the handler, rollback on any exception; handlers run inline | an event's effects are committed with their cause, or not at all | every module |
| Accounting sync (`core/after_commit.py`, `tasks/accounting_sync.py`, `routers/integrations.py`, `services/quickbooks_client.py`, `freshbooks_client.py`) | messages, `integration_*` rows, the provider's books and grants | enqueue after commit, push with retries, resolve names, refresh tokens, reconnect | nothing is posted twice; `synced` is true; every message ends visibly; the grant survives | `AccountingSync` |
| Sessions (`routers/auth.py`, `services/refresh_tokens.py`, `web/contexts/AuthContext.tsx`, `web/app/(app)/api/auth`) | `refresh_tokens`, the cookie, the tabs | login, rotate, detect reuse, switch company, log out | one chain per login; a revoked one is dead; a steady user is not logged out | `Sessions` |
| Credentials (`routers/auth.py`, `services/password_reset.py`, `mfa.py`) | password, TOTP secret, last step, reset links | login, change, reset, enroll, activate, disable | links and codes are spent once; old sessions end; nobody is locked out | `Credentials` |
| Bills (`routers/bills.py`) | `bills`, `bill_payments` | create, pay, void, flag overdue | as invoices | `Payables` |
| Members (`routers/companies.py`, `invitations.py`, `services/client_access.py`) | `company_users`, `invitations`, client access | change role, remove, invite, accept, revoke, grant | an admin is left; an invitation admits once; no stray access | `Members` |
| Subscriptions (`routers/webhooks.py`, `platform_tenants.py`, `tasks/seat_usage.py`, `services/stripe_client.py`) | `subscriptions`, and Stripe's | register, mirror events, overrule, report seats | one trial; an override stands; the row mirrors Stripe; overage is billed where there is an item for it | `Subscriptions` |
| Entitlements (`core/tier_gating.py`, `core/deps.py`, `platform_tenants.py`) | overrides, deactivated companies, audit | the gates of a writing request; the console | admitted is entitled; the audit tells | `Entitlements` |
| Compliance (`tasks/compliance_expiry.py`, `routers/subcontractor*.py`) | documents, notifications, mails | upload, scan, mail, assign | each threshold is mailed once | `Compliance` |
| Documents (`routers/projects.py`, `services/document_storage.py`) | rows and files | upload | versions are 1, 2, 3, … and hold their own content | `Documents` |
| Cost catalogue (`routers/catalogs.py`, `services/catalog_resolution.py`) | items and overrides in a tree of companies | create, override, delete, resolve | each item is seen once, in its closest version | `Catalogs` |
| Lists (`core/pagination.py`, `web/lib/use-cursor-list.ts`) | pages shown, calls under way | select, reload, load more, walk | what is shown was asked for, once, in order | `Lists` |
| Team directory (`routers/team.py`, `services/concurrency.py`) | `member_profiles`, `member_phones`, `professions`, the photo files | edit with an expected `updated_at`, replace the phones, upload a photo, remove the member or the profession | a save replaces what its client was shown, unless another overlapped it; the phones are one list; a photo announced is there; no record outlives its member | `Team` |
| Offline (`web/lib/offline`, `my-tasks/page.tsx`, `CaptureScreen.tsx`; the routes they call) | IndexedDB, the pages, calls under way | write, send, park, adopt, discard, resume | nothing written is lost or made twice | `Offline` |

`PROJECT.json` lists every component, those that only read or format included.

### How they interact

A request runs in one transaction. `get_current_user` opens the session, yields, and commits after the
handler has returned, or rolls back on any exception (`core/deps.py:133-155`). A handler that publishes an
event (`LEAD_WON`, `ESTIMATE_APPROVED`, `PROJECT_COMPLETED`) runs the subscribers *inside* that transaction:
the approval of an estimate drafts its deposit invoice and writes the bill of materials, and a failure of
any of them undoes the approval. Jobs for Dramatiq are enqueued after the commit, except the PDF export. The
front end's route handlers keep the refresh token in a cookie that all tabs share; the tabs serialise their
refreshes with a Web Lock where the browser has them, but nothing serialises a refresh with what the user
does. The offline queue lives in one IndexedDB that all pages share, each working on the copy it last
listed.

PostgreSQL runs at READ COMMITTED. Rows are mostly read **without** a lock; payments and
voids, token rotation and the acceptance of an invitation use `SELECT … FOR UPDATE`, and only
invoice numbering an advisory lock.

### What is hard here

1. **Guards on rows read without a lock.** Nearly every handler loads a row, tests its status
   and updates it later. An UPDATE waits for the row's holder, but nobody tests again.
2. **The identity map.** A second `SELECT … FOR UPDATE` of a row the session has loaded waits for
   the lock and then returns the object with the attributes of the *first* read, because
   `populate_existing` is not given: in invoices, bills, and the company switch.
3. **READ COMMITTED sums and gates.** Each query has a snapshot of its own: three sums, or the four
   gates of a writing request, are of different moments.
4. **Locks doing somebody else's work.** The bill of materials adds up only because the deposit
   handler happens to take the company's advisory lock first.
5. **Two systems, one intent.** Stripe, the accounting provider, the file system and the mailer do
   not roll back: what keeps them in step is idempotency keys, tags, exclusive creation, and the
   order of the commit and the call.
6. **Crashes and lost calls**: a process that dies between commit and enqueue, a provider whose
   answer is lost, a device that loses the answer to its POST, a page closed in the middle.

`PROJECT.json` "hazards" has every such place, with its line and the property that covers it.

## 2 How code becomes TLA+

*A request is a record.* `req[r]` (`call[c]`, `job[w]`, `ask[c]`, …) is idle or a record with the
operation, the row it is about, how far it has come and **what it has read so far**. A handler is
cut only where another party can come between: at the load of its row, at a wait for a lock,
between two queries whose results both matter, at a call to another system, and at the commit.
Guards that test the loaded object are conjuncts of the load step (a request they refuse changes
nothing and is not started) or, where the code tests after a wait, of the later step on the
*remembered* value.

*A write is its commit.* What a transaction has written is invisible to the others until it
commits, so the primed rows appear in the last step. The row lock an UPDATE takes earlier is
modelled where something can wait for it in between (`FlushApproval`, `FlushRole`, `LockBill`).

*A lock* is a variable that names its holder; ending a request releases all it holds.

*A rollback* may happen at any point of any request: an exception, a broken connection, a
deadlock that PostgreSQL resolves, a crashed worker. It changes nothing in the database and frees
the locks; a file written or a call made stays.

*The ORM writes what changed.* SQLAlchemy issues no UPDATE for an attribute set to the value it
was loaded with; `CommitCalculate`, `CommitExport`, `CommitPdf` and `SetModuleOverride` are where
that matters.

*Other systems* (Stripe, QuickBooks, FreshBooks, the broker, the browser's IndexedDB and Web
Locks) are modelled by what the code relies on: a key honoured, a redelivery possible, a lock
exclusive. Those definitions are marked external in the map.

*History variables* (`raced`, `crossed`, `calm`, `overtaken`, …) record which parties have
overlapped, so that a property can say "unless these two raced". They guard nothing.

*Mutants.* Each test a handler makes that a property depends on is an operator of its own,
preceded by a variant (`Voidable_Paid`, `RowFree_NoWait`, `AlreadyPosted_NoKey`, …) that forgets it
the way a slip would. `PROJECT.json` "mutants" says which property notices which.

*Type invariants.* Each module states one (`TypeOK`, `…TypeOK`). Those of `Invoices`, `Estimates`,
`Pipeline`, `Sessions`, `Offline`, `AccountingSync` and `Members` are theorems, and those of `Subscriptions`
and of the parts of `MCOffice` that section 5 lists are conjuncts of proved invariants; the others were
checked on the instances below by adding them to the configuration. All are kept out of the runs, which ask
only what could be wrong.

## 3 The modules

| Module | Models |
|---|---|
| `Ledger` | what a bookkeeper is promised, without requests or statuses (abstract) |
| `Invoices` | accounts receivable, with a `Scanner` for the overdue job and `DueDatePasses` for the calendar |
| `Estimates` | every route that changes an estimate or its lines, and both handlers of `ESTIMATE_APPROVED` |
| `Pipeline` | lead → project → completion, with change orders and the final invoice |
| `Sessions` | one user's refresh tokens, from the rows to the cookie and the tabs |
| `AccountingSync` | from a committed record to the provider's books |
| `Members` | roles, removals, invitations and client access of one company |
| `Subscriptions` | one tenant's subscription between registration, webhook, console and nightly report |
| `Offline` | one device's queue and captured drafts, with the routes they are sent to |
| `Documents`, `PdfExports`, `Compliance`, `Credentials`, `Payables`, `Entitlements`, `Team`, `Lists`, `Catalogs` | the smaller components, one module each |
| `MCInvoices`, `MCEstimates`, `MCPipeline`, `MCSessions`, `MCAccountingSync`, `MCMembers`, `MCSubscriptions`, `MCOffline` | the instances and their symmetries |
| `MCOffice` | the nine smaller components composed |
| `Estimates_proof`, `Pipeline_proof`, `Sessions_proof`, `Offline_proof` | theorems about the module of that name, for all constants |
| `Members_proof` | theorems about `Members`, `Catalogs` and `Lists`, each on its own |
| `Accounting_proof` | theorems about the accounting, `Invoices` and `AccountingSync` |
| `Office_proof` | theorems about `Documents`, `PdfExports`, `Compliance`, `Credentials`, `Payables`, `Entitlements`, `Team` and `Subscriptions` |
| `Sums` | lemmas about sums over finite sets, for the two proofs that add up money |

**Invoices.** `status`, `amount`, `number`, `due` are columns of `invoices`; `paid` is the sum of
its `invoice_payments`. `CreateInvoice` → `NextInvoiceNumber` → `InsertInvoice` is `create_invoice`
and stands as well for the two handlers that draft an invoice, which call the same
`next_invoice_number` under the same lock. `SendInvoice` → `CommitSend` is `send_invoice`, which
takes no lock. `RecordInvoicePayment`/`VoidInvoice` → `LockInvoice` → `CommitPayment`/`CommitVoid`
are the two handlers that lock the row: `seen` keeps the status of the first read, `already` is
the sum of payments, read under the lock. `FlagRow` … `FlagOverdue` is the overdue UPDATE, which
locks rows one at a time and commits them together. Money is in cents; bodies carry tenths of a
cent, so that `Quantize` (ROUND_HALF_UP) can differ from what was sent, zero included.

**Estimates.** `lines` holds, per estimate, records of a position, a quantity and the *batch* (the
request that inserted it). The replacement is cut in two: the DELETE removes the rows its snapshot
shows (`old`), the INSERT meets what others committed since, and `SlotsFree` is
`UNIQUE (estimate_id, position)`. The price of a line is 1, so a total is quantity times markup.
`signed` is history: the total and quantity of each signature. `CommitDelete` needs the estimate
`Unreferenced`: `invoices.estimate_id` has no ON DELETE, so a deletion whose status check is stale is
stopped by the deposit of the signature, if one was drafted. `bom` is the sequence of BOM
rows of one catalogue item on the project. Two locks on rows are kept apart: `rowLock` of the
estimate, `lineLock` of its lines.

**Pipeline.** The transition tables are `LEAD_TRANSITIONS` and `PROJECT_TRANSITIONS`. A completion is
`UpdateProjectStatus` → `CountPending` → `FlushCompletion` → `SumEstimates` → `SumChangeOrders` →
`SumInvoices` → `CommitCompletion`, one step per query of `update_project_status` and
`handle_project_completed`. `finals` gives each project `MaxFinals` slots for the final invoices its
completions draft, 0 where none is live: a completion fills a free slot, a void empties one. The project's
estimate and its ordinary invoices appear as what the sums see; their own protocols are the other two
modules.

**Sessions.** `tokens` is the table, in the order of minting, each row with its family, successor
and company; `rowLock` is the FOR UPDATE of `rotate_refresh_token`. A tab has two lanes: its timer,
which refreshes under the Web Lock, and its user, who logs in, switches, logs out, disables the second
factor or resets the password without it; the last two revoke every session of the user, and a reset, made
on the page of a mailed link, ends `calm`. (`change_password` has no form in this front end; at the
tokens it does what the reset does.) `webLock = NoLocks` is a browser without Web Locks, whose timers
refresh at once. `LoadToken` is the unlocked read of `switch_company`, whose guard
`Rotate` later decides on; `NewGeneration` is the generation counter that makes a late answer of a
timer stale. `BackendFails` and `AnswerLost` are the faults; `RefreshAnswered` deletes the cookie
on any refusal, as the route handler does.

**AccountingSync.** `CommitRecord` → `Enqueue` (or `EnqueueLost`) is the after-commit list; a
message is worked on in the steps of `_sync_financial_record`: `Start`, `Prepare`, `Search`/`Make`/
`Remember` a customer, `Find` (FreshBooks) and `Push`, then `Succeed` or `Rejected` → `Refresh` →
`Persist` → `Push` again, or `Fail` → `Nack`, which retries or gives up. `books` and `people` are
the provider's; `grant` is the latest token pair it will accept. `WorkerCrashes`, `ProviderFails`
(before or after the effect), `Redelivered`, `AccessTokenExpires` and `Reconnect` come anywhere.

**Members.** One step per query that reads (`LoadMember`, `RequireAnotherAdminRemains`,
`DropAccess`, `FindAccount`, …), one per flush that takes a row lock, one per commit. Rows of
`company_users`, `users` and `invitations` are locked by name, since an INSERT of the same key waits
too. `joins` counts the memberships an invitation has made.

**Subscriptions.** `Register` → `CreateTrial` → `CommitTenant` creates at Stripe first and in the database
last; `trials.keyed` is what Stripe remembers under the idempotency key. `Deliver` → `Acknowledge` is the
webhook, cut at its read; an event stays in `events` until it is acknowledged and may be delivered again and
in any order. `StartScan` → `ReportSeatUsage`/`ReportFails` is one night. `priced` says whether the
deployment has a Price for the overage, which `ConfigurePrice` may bring later, and `trials.items` which
subscriptions were created with an item for it: where either is missing the report returns silently
(`Billable`, `stripe_client.py:400-405`, `419-424`). A retry with the old key after the Price has come is a
different request, which Stripe refuses (`SameRequest`, `TrialRefused`).

**Offline.** An item is a status change, a daily log or a captured estimate; `store` is IndexedDB,
`page[p].list` the page's copy, `page[p].batch` what its sending loop started with. A `request` goes on at
the server after the page is closed. `Send`, `NextStep` and `SavedId` are the three steps of
`flushDraft`; `Dial` and `Settle` those of `sendQueueItem`. `Commit` is the route: the 409 of
`expected_status`, the lookup by `client_reference` and the unique index behind it, the three
estimate routes. `FetchTasks` is the server's answer to the page's GET and `ShowTasks` the moment the page
shows it: in between the answer is in `fresh`, and what happens meanwhile is not in it.

**The nine of `MCOffice`.** `Documents`: an upload reads the highest version (`CountVersions`), creates the
file exclusively (`WriteFile`) and inserts the row. `PdfExports`: the export enqueues inside its
transaction, so `TakeJob` may see the row before `CommitExport`. `Compliance`: two reads, one commit with
the unique key `Insertable`, then the mails one by one. `Credentials`: each request reads and commits only
its own columns, without a lock on what it read; `RevokeAllForUser` is the UPDATE of the tokens, which holds
the user's row from then on (`hold`) and knows only the sessions that are committed, so that
`CommitPassword` and `CommitDisable` end those and not the ones opened in between (`late`). `Payables`: as
`Invoices`, without drafts and numbers. `Entitlements`: the four reads of a writing request, and the
console's four operations. `Team`: one person's record; an edit is `OpenRecord` at the client, `Compare` in
the first lookup with `guard_stale_write`, `LoadRecord` in the second, which may find a row the guard never
saw, and `CommitEdit`, which writes the columns that differ from those it loaded and replaces the phones it
loaded; a photo is a file first (`UploadPhoto`) and a column after (`CommitPhoto`). `Lists`: the server's
cursor and the two list hooks, with late, lost and superseded answers; a list that is enabled when it is
mounted spins from the start (`cold`), nothing is asked before the access token is there (`SelectUnready`,
`TokenArrives`), and the token may go again (`TokenLost`). `Catalogs`: overrides in any tree of companies
(`Above`), the rows that row-level security shows a company (`Visible`: its own, its ancestors' and its
descendants', never a sibling's), `RootIdentity`, which follows a chain of overrides only through rows it
sees, and `HopDistance` as `catalog_resolution.py` computes them, and deletions that look for overrides
first, among the rows they see. `MCOffice` puts them side by side: they share no state that a property tells
apart, so `part` picks the one that moves, and one run covers them all.

## 4 The runs

| Run | Asks | Instance | States |
|---|---|---|---|
| `invoices` | `PaidWithinAmount`, `PaidMeansSettled`, `NumbersSequential`, `FinalWhenAlone`, refinement of `Ledger` | 2 requests, 2 invoices of one company, amounts 0, 1, 2 cents | 2.4 M |
| `invoices_live` | `PastDueIsFlagged` under `FairSpec` | 2 requests, 1 invoice, no symmetry | 19 k |
| `invoices_void_race` | `SettledIsNeverVoided` | as `invoices` | *violated* |
| `estimates` | `DepositPerSignature`, `LinesOfOneRequest`, `BomAddsUp`, `SignedSurvives`, `FrozenWhenAlone` | 2 requests; one estimate with 2 markups, lists of 0 to 2 lines and 2 signatures, or two plain ones of one project | 917 k |
| `pipeline` | `FinalsWithinSigned`, `WonDraftsOneProject`, `CompletionSettles` | 2 requests, 1 lead, 1 project, 1 change order of −1 or +2, contract 3, invoices of 2 | 1.9 M |
| `sessions` | `ForkOnlyBySwitch`, `EndedForGood`, `SteadySession` | 2 tabs with or without Web Locks, 2 companies, 3 tokens, 1 fault | 2.6 M |
| `sync` | `PostedOnce`, `SyncedIsPosted`, `ConnectionAlive`, `EndsVisibly` under `FairSyncSpec` | an invoice and its payment, 2 workers, 2 files, either provider, 1 retry, 1 expiry, 1 fault | 299 k |
| `sync_expiry` | `ExpiryIsHarmless` | one invoice, 1 worker | *violated* |
| `members` | `AdminUnlessRace`, `AdmitsOnce`, `NoStrayAccess` | 2 requests, 2 users, 2 invitations | 1.6 M |
| `subscriptions` | `OneTrialPerAddress`, `OverrideHolds`, `MirrorsInOrder`, `OverageIsBilled` under `FairSubscriptionsSpec` | 2 requests, 2 events, 2 seats of which 1 included, 1 console request, 2 trials, a Price of the overage or none or late, 1 fault | 920 k |
| `offline` | `ArrivesOnce` (a log, an estimate), `NothingLost`, `NoFalseConflict` | 2 pages, 2 calls, 2 items, 1 change by the office, 1 decision, 1 mishap, at most 2 of the three, 1 answer of the task list on its way | 1.4 M |
| `office` | `VersionsInOrder`, `PendingIsTemporary`, `WarnedOnce`, `OnlyRacesHarm`, `BooksAgree`, `EntitlementsHold`, `DirectoryHolds`, `ListsHold`, `CatalogHolds` | two of whatever overlaps (four uploads, two names; a root, a branch and two branches of it with 3 items of the catalogue, one with an estimate line; 3 rows in pages of 1), see `MCOffice` | 525 k |

Deadlock is checked for the invoices; elsewhere it is off, because the system really may stop: every
estimate deleted, the books at their bounds, every message dead, every page closed.

### What they show

* **Money.** Payments serialise on the row lock and test a sum read under it, so the books stay
  right although the *status* guard is stale: `PaidWithinAmount`, `PaidMeansSettled` and `BooksAgree`
  hold with any interleaving of payments, voids, sends and the overdue job. What the stale guard
  does break is the status (`invoices_void_race`).
* **Numbers.** The count of invoices is read under the advisory lock, which is held to the commit;
  a rollback gives the number back. Counting void invoices is essential (`Counted_Live`).
* **Signatures.** However approvals, rejections, re-sends and rollbacks interleave, each signature
  has one deposit, for the total that was signed, rounded half up; two replacements of lines cannot
  both take effect; and the bill of materials adds up, because the deposit has taken the advisory
  lock. An estimate that was signed while its deletion waited is kept by the reference of its deposit, not by
the status check. With `Accounting = FALSE` the deposit handler returns before that lock, and two approvals of
  one project lose an update.
* **Completion.** Two completions of one project do race, but the second UPDATE waits for the first
  to commit and then sums up its final invoice: what is live of the final invoices never exceeds
  the contract and the signed extras.
* **Sessions.** Refreshes of any number of tabs stay one chain, thanks to the row lock; a chain that was
  revoked stays dead once requests at work on it are done; and a user who does one thing at a time is never
  taken for a thief, which needs the Web Lock: without it, two timers are enough. Only the company switch,
  whose guard is the identity map's, can fork a chain.
* **Accounting.** QuickBooks is safe by its request id even under redelivery; FreshBooks, which
  searches for its own tag and then creates, is safe unless two workers hold one message. The
  connection survives concurrent refreshes, because the refused one stores nothing and retries with
  the pair the other has saved. Each message ends visibly.
* **Members.** With overlap a company can lose its last admin; without, never. Acceptance is single
  by the lock on the invitation.
* **Subscriptions.** The trial is single by its idempotency key although the database learns of it
  last; the override survives every webhook that starts after it; in-order events leave the row
  equal to Stripe; and an overage that lasts is billed however many nights fail, where the deployment has a
  Price for it and the subscription was created with the item.
* **Offline.** Nothing written is lost by any closing, cutting or restart; a log is single by its
  unique index, an estimate by the id saved before its lines, except where the creating call itself
  is cut off; and the crew's changes, sent oldest first, do not conflict with themselves.
* **Office.** One paragraph per property stands in the modules. The most telling conditions:
  versions are gapless without any key in the database, by exclusive creation alone; a `pending` PDF
  that stays is always a worker that overtook a commit; compliance mails are single by the unique
  key *and* by coming after the commit; a session outlives its password only if its own login committed
  after the revocation had begun, a link is spent twice only by two confirmations that brought that
  very link, and for the rest credentials are harmed by three named races (two issues, two codes, two
  changes of the factor) and nothing else; a save of the directory replaces what its client was not shown
  only if another save overlapped it; a list spins exactly while an answer is awaited, its first token
  included; and a company sees each item once, unless an override hangs on a row it cannot see.

### Why the bounds are enough

Nearly every hazard concerns two parties that meet on one row, lock, message or page; a third would wait
behind one of the two, or meet the result of a pair. Two invoices of one company are the least that can
collide on a number, two lines the least that can half collide on positions, two signatures the least that
can bill twice. Amounts are the smallest that tell a partial payment, an exact one, one too many and a
rounded-off zero apart; 50 % of 1 is a half cent. Three tokens are a login, a rotation and the one that
races with it, or a switch between two. A payment that depends on an invoice is the shortest chain of
records; one retry is a failure that ends and a failure that does not. Two events are the least that can
come in the wrong order. Two items are the least with an order, and two pages the least that disagree. A
root, a branch and two branches of that are the least in which an override can be passed over and a
sibling's is invisible; three keys and pages of one the least in which a row can move between two pages.
`MaxFaults` (crashes, lost answers, redeliveries) is 1: each fault's own consequences are explored to the
end from every state; two independent faults are not.

Bounds are guards of the actions they bound (`MaxTokens`, `MaxRetries`, `MaxEvents`, `MaxTogether`, …) or,
in five instances, a state constraint. `OneRichOrTwoPlain` (`MCEstimates`) lets the second estimate exist
only while both are plain (one line, one signature). `LeadsFirst` (`MCPipeline`) goes no further where a
project has begun while a request is still at work on the lead: the two share no row from then on.
`FewEvents` and `OneAnswer` (`MCOffline`) allow two of the three disturbances of `Offline` in one behaviour,
in any order, and one answer of the task list on its way. `OlderTrialsAreQuiet` (`MCSubscriptions`): the
report has nothing to do for a subscription without the item, so that one sees one event or one fault, and
no console. `OneRace` (`MCOffice`) follows `Credentials` up to the first race: one kind, one late session or
one shared link. Each part of `OnlyRacesHarm` is excused by races of its own, so every part is judged after
every other one. `MCOffice` bounds a few of its parts in the actions as well: a line refers to the only item
there is (`OneLine`), requests about the catalogue are about one item (`SameItem`), an edit sets contact
columns or a profession (`OneKind`), and a list's token goes before its table changes. The proofs of section
5 have none of these bounds. Symmetry permutes names only, and never in a run with a liveness property.

### Fairness

`Invoices`: `WF(Handle(r))`: a request that has started is driven by the event loop until it ends, or
is rolled back when its connection is given up; nothing is assumed of callers or the calendar. For the
overdue job, `SF(FlagRow(i))`: PostgreSQL queues waiters for a row and passes none over for ever;
`SF(FlagOverdue)`: the job runs every night with three retries, so it does not fail every time.

`AccountingSync`: `WF(Enqueue(r) ∨ EnqueueLost(r))`: the process that committed goes on to the next line
or dies there; `WF(Works(w))`: a worker process is restarted and takes the next step of its message,
failures included. No message is assumed to succeed: `EndsVisibly` counts a visible failure.

`Subscriptions`: `WF(StartScan)`, the cron entry of the nightly report, and `SF(ReportSeatUsage)`, Stripe is
not down every night for ever. Nothing is assumed of webhooks.

`Estimates` and `Pipeline` state fairness of their requests so that a counterexample of a run on them
is not a system that merely stopped.

### Counterexample configurations kept beside the runs

Each checks one statement of a document or comment, or one natural wish, that the code does not
meet. `tlc -continue -config <cfg> <module>` shows the traces; a configuration of two statements shows both.

| Configuration (module) | Violated | Says so | The code |
|---|---|---|---|
| `MCEstimatesClaims` (`MCEstimates`) | `OnlyDraftsAreDeleted` | `estimates.py:325` "Draft-only" | the guard at 334 tests a row read before a send and an approval committed; without a project or the accounting module nothing else stops the DELETE |
| the same | `RejectedIsNeverResent` | `docs/superpowers/specs/2026-07-20-estimation-esignature-frontend-design.md:55` | `routers/estimates.py:910-916` sends any estimate with a total |
| the same | `SnapshotIsImmutable` | `docs/superpowers/plans/2026-07-09-phase-2-estimation-esignature.md:93` | guards of `estimates.py:531`, `638`, `759`, `781` on rows read before an approval committed |
| `MCPipelinePending` (`MCPipeline`) | `NeverCompletedWithPending` | `docs/02-functional-requirements.md:103` | `projects.py:340-353` counts, `change_orders.py:268` creates in between |
| `MCSessionsClaims` (`MCSessions`) | `OneSuccessor` | `refresh_tokens.py:119-126` | `switch_company` has loaded the row before the locking select |
| the same | `OutageKeepsCookie` | `AuthContext.tsx:254-262` | `api/auth/refresh/route.ts:42-50` deletes the cookie on any error |
| `MCAccountingSyncReconnect` (`MCAccountingSync`) | `MappingFollowsFile` | `accounting_sync.py:239-241` | `integrations.py:90-112` keeps the connection's row, and with it the old file's names |
| `MCMembersClaims` (`MCMembers`) | `AlwaysAnAdmin` | `companies.py:52-59` | two overlapping demotions or removals |
| the same | `NoStrayBranchAccess` | `companies.py:336-339` | `companies.py:350-359` drops access of the company only, not of its branches |
| `MCSubscriptionsPhantom` (`MCSubscriptions`) | `NoPhantomSeats` | `stripe_client.py:393-398` | `seat_usage.py:93-98` reports nothing when the overage is over |
| `MCSubscriptionsMirror` (`MCSubscriptions`) | `MirrorsStripe` | `webhooks.py:11-13` | events applied in the order they arrive |
| `MCOfflineClaims` (`MCOffline`) | `OwnChangesAgree` | `my-tasks/page.tsx:128-131` | a list loaded while a change is unsent becomes the next change's expectation |
| the same | `AdoptedWaitsForSend` | `CaptureScreen.tsx:316-319` | the effect that flushes also sees the adopted draft |
| `MCListsPages` (`Lists`) | `PagesOfOneFilter` | `use-cursor-list.ts:46-52` | after a failed load of another filter, "Load more" appends its page to the old list |
| the same | `WaitingSpins` | `use-cursor-list.ts:255-256`, `115-119` | `loading` starts as `enabled`; a list enabled after it was mounted, with no token yet, is not loading |
| `MCOfficeClaims` (`MCOffice`) | `EverySessionEnds` | `auth.py:692-697` | a login that read the old hash commits after `revoke_all_for_user` has run |
| the same | `GuardAdvances` | `mfa.py`, "NEVER a timestep at or before the last successfully used one" | of two requests with codes the one with the earlier step commits last, and sets the guard back |
| the same | `OneRowEach` | `catalog_resolution.py:138-144` | the override of a descendant's row is visible to that descendant's sibling, the row is not: the item has two roots |
| the same | `NoneTornOff` | `catalogs.py:256-263` | a sibling's override is not visible to the check, and `ON DELETE SET NULL` tears it off |
| the same | `NeverClobbers` | `services/concurrency.py:32-34` | two overlapping guarded saves both pass `guard_stale_write`, and the second replaces what its client never saw |
| the same | `PhonesLoadedAsShown` | `schemas/team.py:102-104` | an edit of the phones alone leaves `updated_at`, so the next save passes the guard and replaces phones nobody showed it |

## 5 The proofs

They hold for any number of requests, records, tabs, workers, people and files and any amounts, under the
named assumptions of the modules and nothing else: sets that the code only ever has finitely many of are
finite, amounts in bodies are positive where the schema says `gt=0`, bounds are numbers, and the
values that mean "nobody" are none of the parties. Where a property excuses a race, so does the theorem.

| Module | Theorem | States |
|---|---|---|
| `Accounting_proof` | `TypeCorrect` | `Spec => []TypeOK` |
| | `PaymentsFit`, `PaidIsSettled` | `[]PaidWithinAmount`, `[]PaidMeansSettled` |
| | `IssuedWithDate` | `[]IssuedProperly`: what was sent has a due date, a draft no money |
| | `SequentialNumbers` | `[]NumbersSequential` |
| | `FinalWithoutRace` | `FinalWhenAlone`, an action property |
| | `ImplementsLedger` | `Spec => LedgerSpec` |
| | `SyncTyped` | `SyncSpec => []SyncTypeOK` |
| | `NothingTwice`, `SyncedIsTrue`, `GrantSurvives` | `SyncSpec => []PostedOnce`, `[]SyncedIsPosted`, `[]ConnectionAlive` |
| `Estimates_proof` | `EstimatesTyped` | `[]TypeOK` |
| | `NoMixture`, `DepositDrafted` | `[]LinesOfOneRequest`, `[]DepositPerSignature` |
| | `SignedStays`, `FrozenStays` | `SignedSurvives`, `FrozenWhenAlone`, action properties |
| | `BillComplete` | `Accounting => (Spec => []BomAddsUp)` |
| `Pipeline_proof` | `PipelineTyped` | `[]TypeOK` |
| | `NeverOverbilled`, `WonOnce` | `[]FinalsWithinSigned`, `[]WonDraftsOneProject` |
| | `CompletedIsSettled` | `CompletionSettles`, an action property |
| `Sessions_proof` | `SessionsTyped` | `[]TypeOK` |
| | `OneChain`, `EndedStaysDead`, `SessionIsSteady` | `[]ForkOnlyBySwitch`, `[]EndedForGood`, `[]SteadySession` |
| `Offline_proof` | `OfflineInvariant`, `OfflineTypes` | `OfflineSpec => []OInv`, `[]OfflineTypeOK` |
| | `NothingIsLost`, `WritingsArriveOnce`, `ChangesAgree` | `[]NothingLost`, `[]ArrivesOnce`, `[]NoFalseConflict` |
| `Members_proof` | `MembersTyped` | `[]TypeOK` |
| | `AdmittedOnce`, `AdminRemains`, `AccessEnds` | `[]AdmitsOnce`, `[]AdminUnlessRace`, `[]NoStrayAccess` |
| | `CatalogsResolve`, `ListsStayTrue` | `CatalogsSpec => []CatalogHolds`, `ListsSpec => []ListsHold` |
| `Office_proof` | `GaplessVersions`, `PendingHasReason` | `DocumentsSpec => []VersionsInOrder`, `PdfExportsSpec => []PendingIsTemporary` |
| | `MailedOnce`, `AccountsKept` | `ComplianceSpec => []WarnedOnce`, `CredentialsSpec => []OnlyRacesHarm` |
| | `BillsAddUp`, `AdmittedIsEntitled` | `PayablesSpec => []BooksAgree`, `EntitlementsSpec => []EntitlementsHold` |
| | `DirectoryIsSound` | `TeamSpec => []DirectoryHolds` |
| | `OneTrial`, `OverrideStands`, `RowMirrorsStripe` | `SubscriptionsSpec => []OneTrialPerAddress`, `[]OverrideHolds`, `[]MirrorsInOrder` |

Hardly any of these properties is inductive. What each proof adds is the reason why it holds:

**Invoices.** A payment commits against the sum it read when it got the lock, so `IInv` adds
`LockedSumIsCurrent` (who is "locked" holds the row, and its sum is still the sum). It commits under a
status it saw before the lock; `LoadedRowsRemain` says what of that is stable: a row stays a row, and one
seen as no draft is no draft again, which is why the stale guard does no harm to money. `NInv` adds
`CountIsCurrent`: who has counted holds the company's lock. In the refinement, `amount` maps to
`billed` and `paid` to `collected`; an insertion is an `Issue`, a payment a `Collect`, all else a stutter.
`Alone` carries the action property: before the first race, what a request saw is still there.

**Estimates.** `ListsApart`: the rows of a PUT have one batch and position 1 among them, and each estimate,
and each PUT that has deleted, holds the whole list of a batch or nothing of it; so two lists never meet on
one estimate, because the unique position would collide. `RowsHeld`: an approval that has flushed holds
the row, and no deletion gets past it; so a deletion that was let through by an earlier look at the status
meets the signature's deposit, whose reference forbids it, and `SignedSurvives` follows from
`DepositPerSignature`. `Totalled`: what was sent keeps a total, so a signature always has
something to bill. The bill of materials is `OnTheBill`: an approval between its read of the BOM and its
commit holds the invoice number's lock. That is the whole argument, and it is why `Accounting` is a
hypothesis: without the deposit nothing takes that lock, and the property is false.

**Pipeline.** `HoldRows` makes one completion at a time add final invoices to a project; what the client has
signed (`Signed`: the contract and the positive change orders that were ever approved) only grows. So the
running sum of a completion, which reads at three moments, stays at most what is signed, less what is
billed (`SumsBounded`), and the commit keeps `FinalsWithinSigned`. `SumsExact` is the same with
equality for a project no second request has touched.

**Sessions.** `RoomLeft` counts the calls that may still mint a token, so that the table never runs out
(`Cardinality` of a set of calls). `Tree`: each family is a chain of parents and successors, and two
tokens without a successor in one family mean a switch has forked it. `AllOver`: once a family is dead and
no call holds one of its live tokens, none will. `Steady`: while the user does one thing at a time, at most
one call of all tabs is busy, who is busy has the cookie's token, and the timers among them hold the
Web Lock.

**Offline.** The invariant `OInv` speaks of three things no single step sees. *Copies*: an item is in the
store, in the list and the batch of every page, and in the requests; all copies carry the same writing, and
one that names an estimate names the one made of its draft (`Copies`, `RequestsFit`). Hence an answer,
however late, saves the right id, and what is taken off the device is complete at the server
(`NothingLost`). *Calls*: unless two pages have sent at once or from old copies, an item has one request
(`Single`), and unless a creating call was cut off as well, a call to create an estimate finds none of its
draft (`OneEach`). *Order*: while nothing disturbs the changes of a status (`Calm`), the loop of a page
takes them from the oldest on and leaves none out, only the oldest is under way, it was made over the status
the task has, and each other one over the change before it (`Order`); so the route finds the status each of
them expects. TLC has checked `OInv` on the instance of the run `offline`.

**AccountingSync.** `OneHolder`: unless the broker delivered twice, a record is in one hand.
`StillUntagged`: what the FreshBooks client did not find is still not there when it creates it. `OneFile`:
without a reconnection all workers post to the connected file, and payments to their own invoices.
`PairsInOrder`: of all workers at most one holds the latest pair, the one that has spent the refresh token
and not saved the next; everybody else's is older, and is refused.

**Members.** `HoldsRows`: a request that has come to its commit holds the rows it writes and found them as it
needs them. `AdminSafe` and `AccessSafe` cover the two checks no row protects: as long as nothing has
overlapped them, what they have read is still so.

**Catalogs.** The tree is any tree: of `Above` the proof knows that a company is in its own line of
ancestors, that two ancestors of one company are in line, and nothing of its depth or breadth. `UpwardRows`:
a row comes after the row it overrides, so that the chain of overrides ends and `RootIdentity`, which
follows it as far as the company can see, is well defined (`TopsExist`, by a smallest row for which it is
not). `OneRoot`: of the rows made of one original item a single one overrides no other. `ParentsSeen` is
where row-level security enters: a row that a company sees and that overrides an ancestor's or its own
company's has its parent in sight too, so unless a row is `Raised` over a descendant's the walk never stops
early, and the visible rows of one item have one root. `LowerIsLonger` turns hop distances into positions in
the tree, for `ClosestShown`. `NoneUnseen`: a deletion that has looked for overrides and found none still
has none, or is marked `unseen`; that is what `torn` excuses.

**Lists.** The proof needs three facts: an answer is a run of rows in order, bounded by the cursor it was read
from and the one it returns (`InOrder`); at most one load will be used (`OneIsCurrent`); and that load covers
every expected row which is not beyond its cursor or on screen already (`Useful`). A row that leaves the
filter between two pages leaves `expected` with it (`ExpectedMatch`). That a page exists at all, a sorted
sequence of the rows after the cursor, is a lemma of its own (`RowsHaveAnOrder`). The spinner needs one more:
a list that has asked for nothing since it was mounted awaits no answer (`ColdIsFirst`).

**Office.** Documents: who has written a file has it until its row is there. PDF exports: while a row is
`pending`, a job or a worker still attends to it, or `overtaken` has happened. Compliance: a committed scan
owns the pairs it has still to mail. Credentials: one clause per race (`SessionsInOrder`, `IssuesInOrder`,
`LinksInOrder`, `CodesInOrder`, `FactorInOrder`), each saying what is so until that race happens; for the
sessions, a revocation that is under way has marked every session but the `late` ones. Bills: as the
invoices. Entitlements: a request that was entitled at no moment so far is turned away by a gate to come,
unless two changes fell in between (`OneMoment`). Team: an `updated_at` stands for the contact columns
written with it (`StampTellsContact`), and what the guard has compared stays so until another save overtakes
this one (`ShownStands`).

**Subscriptions.** `TrialsInOrder`: the only trial is the one the idempotency key remembers, and a request that
has paid has that one. `OverrideInOrder`: as long as no console request has met another request, what it and
the webhooks have loaded of the override is still so. `EventsInOrder`: while events come in order, Stripe
still holds its latest event unless it is the one applied, and at most one webhook is at work, on an event
that is no older and on the row as it is.

**Sums.** The modules add money with the folds of the community modules. `Sums` proves what a step
needs of them (the sum of the empty set, of one element more, of one term changed, of smaller terms), by
taking a smallest set for which the lemma fails: that a fold may take its elements in any order is
proved there too, since it is defined with `CHOOSE`.

**Only model-checked.** The liveness properties (`PastDueIsFlagged`, `EndsVisibly`, `OverageIsBilled`), which
are out of the prover's reach. Every other property of a passing run is a theorem.

## 6 What was found

Disagreements between the code and what its comments promise, shown by a run:

* **A paid invoice can be voided** (`invoices_void_race`, `routers/invoices.py:321`). The void loads the
  invoice as `sent`, waits for a payment that settles it, and then tests the status it loaded: the
  locked SELECT returns the identity-mapped object unrefreshed. The comments at 193-198 and 314-321
  describe the opposite. `.execution_options(populate_existing=True)` would do. Bills share the code.
* **An expired token fails a record** (`sync_expiry`, `tasks/accounting_sync.py:479`). The comment at
  506-511 calls expiry "the normal steady state"; the refresh is in the handler of the push alone,
  and the search for the customer before it fails with the same token on every retry.

The table of counterexample configurations lists the others. Further observations, met while
modelling and consistent with the properties as they are stated:

* A file left by an upload that rolled back blocks its version for ever with 409, though
  `projects.py:467-473` says the caller "can simply retry".
* A worker that loaded the estimate as `ready` before an export committed writes nothing over the
  `pending` it never saw, and the export stays `pending` (`estimate_pdf.py:213-217`).
* Two overlapping confirmations redeem a reset link twice, and two overlapping requests leave two
  live; a login that overlaps a password change keeps its session (`EverySessionEnds`); of two codes the
  earlier step may be recorded last, and sets the replay guard back (`GuardAdvances`); overlapping enrolment and
  activation can leave a secret nobody has.
* An estimate that was sent and signed after a deletion had read it as a draft is deleted all the same, unless its
  deposit refers to it (`OnlyDraftsAreDeleted`).
* The overage of a subscription created before the Price was configured is never billed, by design
  (`stripe_client.py:419-424`).
* A worker that dies after a compliance scan commits loses its mails: the rows say they were sent.
* Clearing a status override does not ask Stripe for the status (`webhooks.py:175-176`,
  `platform_tenants.py:383-386`); the row stays as it was set until the next event.
* The second of two overlapping module overrides may find nothing to write and still be audited
  (`platform_tenants.py:414-465`).
* A list that is enabled after it was mounted, while the token is not there yet, shows neither rows nor a
  spinner (`WaitingSpins`).
* `useCursorAll` keeps the rows of the previous parent when it is deselected.
* A deletion that races with an override, or that cannot see a sibling's, orphans it (`catalogs.py:277`),
  and one item is then shown as two (`NoneTornOff`); so it is where an override was made of a descendant's
  row (`OneRowEach`); the docstring's "no FK at all" from estimate lines is not so
  (`estimate_line_item.py`).
* A save of the phones alone leaves `updated_at` as it was, so that the next save replaces phones its client
  was never shown (`PhonesLoadedAsShown`); two overlapping saves that both send `updated_at` both pass, and
  the second wins (`NeverClobbers`); the first save of a record has no `updated_at` to expect, and two first
  saves with phones are told apart by the primary key only.
* The photo file of a member who was removed, or of an upload that rolled back, stays on the volume; the
  next photo of that extension overwrites it.
* A crash between commit and enqueue loses a message, which `after_commit.py` accepts.

## 7 What is not modelled

* *Components without a module*: row-level security (policies of PostgreSQL, tested by the repository's
  isolation tests; `Catalogs` models the one its rules depend on), e-mail and branding (output only),
  reports and dashboard (read only), take-off (an external service nothing calls yet), rate limits and
  metrics (they fail open), migrations and deployment.
* *In the modelled components*: reading; recommending catalogue rates; `expected_updated_at` of an
  update, an optional precondition that only turns more requests away at their load; audit rows, but
  for the module override's; who may call a route, where no property depends on it; expenses and
  vendors, single inserts; the `PATCH` of rates and names; dismissing a notification; manual BOM lines.
* *PostgreSQL deadlocks* end in the rollback of one party, which every request may do at any time.
* *Overflow of `NUMERIC(12,2)`* is an error at the write, hence also a rollback.
* *Stripe, the providers, the broker and the browser* beyond what section 2 says of them.

## 8 The plan

1. **Done**: the modules and runs above; the proofs of section 5.
2. **Theorems next**: the safety half of each liveness property, for instance that whatever is past due is in
   the set the next pass of the overdue job selects.
3. **Larger instances** by hand: two faults, three tabs, three records.
