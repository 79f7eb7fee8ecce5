# worthline, verified

TLA+ models of what is hard in worthline — the durable job queue, the sync of connected
sources, the daily capture, sign-up, billing and its mails, the assistant's proposals, the
store's transactions, history under backdated facts and the push to prod — with the TLC runs that check them and the
TLAPS proofs about them. Paths are relative to the repository (`src/`).

## The system and its parts

worthline is a net-worth tracker: a Next.js application (`apps/web`), a store
layer over libSQL (`packages/db`), pure finance (`packages/domain`) and price and
account providers (`packages/pricing`). Each workspace has a database of its own;
one **control plane** database coordinates all of them. Most code is a render or a
pure function. What is hard is the work that happens behind the render, on
serverless invocations that may be killed, run twice or overlap.

| Component | State | Operations | Correct when | Module |
|---|---|---|---|---|
| Durable job queue (`control-plane/job-store.ts`, `job-queue.ts`) | the `job` table | enqueue, lease, renew, complete, fail; the worker's `drainOnce` | single flight per key; one delivery acks; no live lease stolen; every job settles | `JobQueue` refining `DeliveryQueue` |
| Source sync (`connected-source-seams.ts`, `sync-run-store.ts`, `sync-job.ts`, `sync-queue.ts`) | `sync_run`, positions, `last_sync_at` | begin, persist, finish or fail a run | one pass writes a source; positions and `last_sync_at` agree; an acked job was mirrored or skipped | `SourceSync` refining `SourceMirror` |
| Owning-source sync (`connected-source-sync-state.ts`, `myinvestor-sync.ts`, `myinvestor-connect.ts`) | `connected_source_sync_state`, attempt log, credentials | a pass by cron or button; re-enter, save or forget the password | one pass per connection; login cap; outcome and log agree | `OwningSync` |
| Daily capture (`run-daily-capture.ts`, `daily-capture-gap.ts`, the snapshot cron) | snapshots, `daily_capture_runs`, alerts | detect skipped passes, capture each workspace, finalize | a finalized pass left no hole; the queue and the ledger agree; gaps are reported | `DailyCapture` |
| Store transactions (`store-context.ts`) | one store's depth, gate, client and joins | `transaction`: open, join, drain, flush, commit, roll back | the outer call is all or nothing; who joined in time is kept; nobody waits for ever | `StoreTransaction` refining `UnitOfWork` |
| Local/prod sync (`sync-engine.ts`) | two workspaces, a baseline, backups, keys and tokens | pull; push with guard, backup, replace, keys put back | of the document, nothing unseen or not backed up is overwritten; no connection is severed | `SyncPush` |
| Assistant proposals (`assistant-proposal-store.ts`, `commands/assistant-proposal-apply.ts`, `app/asistente/*`) | proposals, their documents, the ledger, a debt's balance | draft, append, amend, confirm, discard | written once, over what the card showed; an import leaves one operation a date | `Proposals` refining `Resolution` |
| Provisioning and tenancy (`provisioner.ts`, `viewer-sharing.ts`, `control-plane/tenancy-directory.ts`, `daily-provisioning-cap.ts`) | users, workspaces, grants, tokens, the day's count | sign in, share, revoke, open as a viewer | first logins converge; the cap is never looser; no orphan database; a viewer has a read-only token | `Provisioning` |
| Entitlements and billing (`billing.ts`, `entitlements.ts`, `entitlement-directory.ts`, `app/billing`) | the entitlement row, the events seen, the trial marker | start the trial, grant, revoke, apply an event, re-sync | an event is applied once; what was paid for is kept | `Entitlements` |
| Trial e-mails (`app/trial-emails`, `trial-email-ledger.ts`) | marks per kind, the opt-out | welcome, daily pass: claim, send, confirm, release | a mark has one holder; nobody is mailed twice | `TrialEmails` |
| Historical ripples (`commands/ripple-engine.ts`, `ripple-band.ts`, `orphan-backfill-prune.ts`, `investment-operations.ts`, `investment-transfer.ts`) | operations, snapshots and their rows | record, delete and transfer with their ripple; the capture's read and save | every row shows what the book holds on its day; a day is dropped only when nothing is held | `History` |
| Usage limits and provider cooldown (`usage-limits.ts`) | counters | one guarded upsert each | a limit holds | left out |
| Domain, pricing, web surfaces, relay | — | pure functions, I/O, rendering | — | left out (see the end) |

**How they interact.** The cron route and the connect/refresh actions enqueue jobs in
the control plane. Whoever is there drains the queue (`runToIdle`): the request that
enqueued, the push consumer, or the cron. A job of kind `source-sync` opens its
workspace and runs the source-sync handler; one of kind `daily-capture` runs the fleet
capture, which syncs each workspace's sources **inline**, without the queue. So one
source may be synced by a redelivered job and by the capture at the same time, and only
rows in the workspace's own database (`sync_run`, the sync lease) keep them apart. No
transaction spans two databases.

Around them, a request of the app opens a workspace's store and works inside its
`transaction`; two refreshes of one store in the same process join one transaction. A
sign-in writes the control plane and the database platform; a webhook, the maintainer and
the cron write the control plane with no transaction at all. The assistant's proposals are
drafted in one request and confirmed in another, from a card the user may leave open, press
twice or have on two devices. The push runs from a script on the developer's machine
against a prod that goes on serving.

**What is hard.** A lease that lapses while its holder is still working (the application
turns the heartbeat off, `sync-queue.ts:215`); an ack or a failure that arrives after its
job was redelivered; reads and writes of one decision in two statements; kills between
two transactions; midnight in the middle of a login; a form the user leaves open for
minutes while a pass runs; one workspace of the fleet failing; two calls in one unit of
work, one of which throws; a cleanup that deletes what a failed answer hid; a provider that
accepts a message and answers with an error. `PROJECT.json` lists these as hazards, each at
its line, with the properties that cover it. Seven have none, and say why: a job longer than its
lease is delivered again (`sync-queue.ts:215`); an enqueue that loses the active row it collided
with (`job-store.ts:251`); a retried job that persists the older payload it was enqueued with
(`connected-source-seams.ts:465`); gates read before the lease (`myinvestor-sync.ts:194`);
credentials written whole from an earlier read (`myinvestor-connect.ts:458`); the keys a push
that died left out (`sync-engine.ts:188`); two bands in one transaction (`snapshot-store.ts:203`),
which no module has. That a push empties prod tables nobody backs up (`workspace-tables.ts:10`)
is named in `OverwritesWhatWasSeen` as lost. Of the window of a creation between its write and its mark
(`holding-creation-proposal-action.ts:44`), `CreationWritesOnce` checks only what lies outside it.

## The modules

### JobQueue and DeliveryQueue

`job` is the table, a row per id; `worker` is where each draining invocation is in
`drainOnce`; `producer` where each caller is in `enqueueJob`. Every SQL statement is one
atomic action and every `await` between two statements is a place where others may step
in: `leaseJob` is `LeaseSelect`, then `LeaseClaim` and `LeaseRead`, the read-back of the row
just won, or `LeaseLost`; `failJob` is `FailRead` then `FailRetry` or `FailDead`; an enqueue that trips the index is `EnqueueConflict` then
`EnqueueCollapse`. `FailRetry` changes nothing when another job of the key is active: the
partial unique index rejects the UPDATE. Time is two flags per row, `due` (`run_after` has
passed) and `lapsed` (`lease_expires_at` has passed), so no bound on the clock is needed.
The payload and the error text are left out; the order candidates are picked in is left
open, which allows more than the code does.

`LeaseRead` selects by id alone. A worker whose lease lapses right after its claim may read
the row another worker has claimed since, and then both hold one attempt. `named` keeps
whether the row a worker read still named it the owner, and `Delivered` the workers of whom
it did: those are the ones an attempt tells apart.

`DeliveryQueue` is the abstract specification, what whoever enqueues or handles a job may
rely on: a delivery and its answer are one step each, on the table and on `hands`, the
workers that owe an answer for each job. Only the owner acks; a failure may come late, from
hands the job was taken from since, and kills or reopens it all the same, which is what
`failJob` does. The mapping (`Hands`) puts a job in the hands of each busy worker that holds
its id: the SELECTs, the collapsed enqueues and the lost claims are stutters.

### SourceSync and SourceMirror

`SourceSync` instantiates `JobQueue` and adds the handler. `pass` is where each actor — a
queue worker, or an inline caller — is between `beginRun` and the run's finalization;
`runs` are the source's run rows, `mirrored` whose positions the store holds, `lastSync`
the column. `Deliver` is the queue's `LeaseRead`, with which `leaseJob` returns, together with the start
of the handler, and leaving the handler is the queue's `HandlerReturns`; all other steps of the queue
leave the handler alone. Positions are abstracted to the pass that fetched them, which is
all the properties tell apart.

`SourceMirror` is the abstract specification: a source is free or held; only its holder
writes, positions and `last_sync_at` together; a holder may be lost for good. The mapping
(`Mirror`) takes the open run as the lock: `Free` when no run is open, the pass that
opened it, or `Lost` when that pass is gone.

### OwningSync

One connection. `state` is the row of `connected_source_sync_state`, `conn` the kept
credentials (a password or none, and a device), `pass` the cron's and the button's passes,
`flow` the user's form. An instant is half a day: the lock of a day ends with the day, the
pause of 24 hours is two instants. A pass reads the source, then the state, then claims the
lease, in steps of their own, as the code does; the day it counts its login on is the day
it got the lease. `asked` counts the logins of a calendar day that were reserved for it, and
`late` those a pass had reserved on an earlier one. What MyInvestor answers is any answer,
except that a device it does not trust gets no tokens; it may forget a device at any time
(`Distrust`), between a login and its reads too, which then ask for the SMS. The log keeps
ninety days: `QuietMonths` is the passing of that long without an attempt, and the cron's
purge before each pass (`PurgeSyncAttempts`) then takes the newest row. `LeaseExpires` waits
for the holder to be gone: the lease is documented as longer than any pass
(`MYINVESTOR_LEASE_MINUTES`). Left out: the first connection, the pending-login row and its
code attempts, what a good pass writes to the ledger, and a push from the local copy, which
deletes the state row with the rest of prod (`SyncPush` has it as a row of `apart`).

### DailyCapture

Passes are numbered as in `daily-capture-gap.ts`, two per UTC day. `job` is the newest job of
each pass — its deliveries, and the runner of the latest — as far as `JobQueue` lets it be
seen; `run` is where each runner is in `runDailyCapture`; `snapshot` keeps, for each scope
and day, the pass whose figures it holds. A job may be redelivered while its runner works,
so two runs of one pass overlap. `OpenStores` takes any set of unreachable workspaces;
`WorkspaceFails` stops a workspace with some scopes saved; `Throws` is a control-plane or
price call that nothing catches. An invocation reads the clock and inserts its job in one
step: the cron fires hours away from the boundary at 15:00 UTC.

### StoreTransaction and UnitOfWork

`depth`, `gate`, `client` and `joins` are the variables of `createStoreContext`; `call` is
where each caller of `transaction` is, `pending` what the open transaction holds, `durable`
what is committed. The first call opens, redirects the client and lets the waiting joiners
in; it drains the joins in flight, runs the before-commit hooks, commits or rolls back,
restores the client. A call's work is a few statements, each to the client in force when it
is made, so a statement can land in somebody's transaction, on the base client, or on a
transaction already settled (it throws). Any call may throw at any statement, and so may
the opening. A COMMIT may be refused, or take effect and lose its answer (`lost`): the catch
then asks for a rollback that finds nothing, its error is swallowed, and the caller is thrown
an error over durable statements.

`UnitOfWork` is the abstract specification: one unit at a time, in which every statement of
every call waits; it ends by making all of that durable at once, or none of it, and a unit that
was kept may be reported to its caller as failed (`unheard`). The gate,
the client, the joins and the hooks are not there. The mapping takes the database's open
transaction as the unit, and a call's fate as decided once its transaction is at the
database, whatever it has still to clean up (`Fates`).

### SyncPush

A document is a set of items, a connected source an item with a key and perhaps a token
besides; a fingerprint is the document. `apart` is what prod holds in tables the export leaves
out (incomes, the audit log, the state of each sync): the replace empties those too, and no
guard and no backup sees them. `script` is the one sync script and its place in `syncPull` or
`syncPush`, one step per statement over prod, `ResealKey` and `ResealToken` for each source
among them; it may die in any of them. The hosted app saves, logs in and re-enters keys in
between, the local app saves and drops. The rest is history: `seen`, `typed`, `signed`; the two
windows of a push, `between` (since its guard's export of prod until its import; the next push
begins with none) and `absorbed` (since the import until the baseline is read); `rekeyed` and
`severed`. An export is one instant here: the code reads table by
table.

### Proposals and Resolution

A proposal is a draft, then applied or discarded for good; each `request` reads it
outside the transaction, plans, and applies through the gate of
`createApplyAssistantProposal`, or persists and marks (the creation). `ops` is the ledger
of one investment, with one operation a date or several; `MergePlan` is what
`planStatementMerge` decides for a date; `live` is the balance of one debt as the gate compares
it, by value: the one the cards show, or another. A repayment may leave it as it was, one dated
after today or before the last declared balance. An amendment creates its successor, gives it
its document and discards what it amends, in three writes that fail one by one; a card may be
amended by two requests, each with a successor of its own. The user edits the ledger
and the debt by hand. Left out: the kinds that share the gate and add nothing to it, and
what a correction revalidates itself.

`Resolution` is the abstract specification: a proposal takes documents while it is open and
is settled by one step, which writes it and marks it applied, or discards it unwritten; no
request, plan or card is in it. The mapping keeps the proposals of the gate (`Gated`): a
creation is written and marked in two steps, outside a transaction, and is in
`CreationWritesOnce` instead.

### History

One scope and the operations of investments. `book` is `assetOperations` — the purchases
made, of one unit each, and the units each transfer moved — and `Held` folds it up to a day
as `derivePosition` does. `snapshots` has a snapshot for each day, with the units of each
holding's row, or none. A command and its band are one step, because `StoreTransaction`
shows that a transaction is one: `Ripple` mints the missing past days in record mode, prunes
in delete mode the backfilled days nothing justifies, and refolds the operated holdings one
after the other in the others, stopping where one leaves no row (`Rewritten`). The daily
capture is two steps, `CaptureReads` and `CaptureSaves`, with commands and midnight between
them. Facts may be dated after today: no day is minted for them, and the capture reads each
holding by its whole ledger, with no date cut, as the code does. A capture has in `doubt` the
holdings with a fact after its day when it reads, and those a command ripples on its day before
it saves; `astray` keeps these rows from the save on, until they are rippled or captured again.
Neither looks at the figures, so every other row of a capture has to be right. Left out: prices, the other
families of facts, the operations of one day in the order of their ids, several scopes, two
bands in one transaction.

### Provisioning

One step per statement of `provisionWorkspaceForUser` and `shareWorkspaceReadOnly`, over
the tables of the control plane and the databases of the platform. A statement of a sign-in
may fail before or after its effect, and the request may be killed anywhere; the cleanups
are those of the code, in its order. `excused` and `unread` remember the two losses the
code accepts. A place is counted for whoever is let in or still being made
(`HoldsPlace`); a workspace left behind by a failure or a kill after its grant is not, and
`CapNeverLooser` says nothing of it.

### Entitlements and TrialEmails

`row` is the entitlement row of a workspace; a webhook call records its event, reads the
row, applies the transition to what it read and writes it whole; the re-sync of the
maintainer does the same with what the merchant answers; grants and the trial write over
the row in one statement. `owed` is how far the access reaches by everything written since
the last write meant to shorten it, `raced` that a write was computed over a row that had
changed. `TrialEmails` follows the three messages of one trial by half days: a delivery
claims the mark, sends, confirms or releases; the provider may accept and answer with an
error, and drops a message whose key it took less than a day ago.

## The runs

| Run | Instance | Question | Result |
|---|---|---|---|
| `control` | `queue`: 2 jobs, 1 key, 2 workers, 1 producer, cap 2, 2 faults, heartbeat on; `signup`: 3 sign-ins of 2 identities, cap 2, 2 days, 2 faults; `sharing`: an owner, 2 viewers, viewer cap 1; `billing`: 5 events, 2 webhook calls, 1 re-sync, 1 grant; `mail`: 2 passes and the welcome, 2 mishaps | what runs over the control plane's database | holds |
| `queue_stale_fail` | the queue of `control` | is a failure applied only by the owner, as documented? | violated |
| `queue_attempts` | the same | do redeliveries stay within the cap, as documented? | violated |
| `sync` | 2 jobs, 1 key, 2 workers, 1 inline caller, retention 1, 1 fault, heartbeat off | fencing, acks, refinement of `SourceMirror` | holds |
| `sync_wedge` | 1 worker | is an open run always closed, as documented? | violated |
| `owning` | 1 cron pass, 1 button, 1 device, cap 2, lock after 2, 2 days | lease, logins, counts, log and its purge | holds |
| `owning_stop` | 2 devices | is a stop never written over a verified device, as documented? | violated |
| `daily` | 2 workspaces, 1 scope, 2 runners, 4 passes of which 2 invoked, report limit 1, 2 deliveries, 3 faults | holes, ledger against queue, gaps | holds |
| `daily_outage` | the same, 2 passes | does a control-plane outage retry, as documented? | violated |
| `billing_race` | 3 events, 2 webhook calls, no grants | can a late delivery take paid access back, against the documentation? | violated |
| `workspace` | `store`: 3 calls of 2 statements, 2 throws; `imports`: 2 files over 2 dates, 3 requests, 1 edit; `repayments`: 2 of one debt, 3 requests, 1 edit, 1 failure; `cards`: a correction with 2 ids for its amendments and a creation, 3 requests, 1 failure; `push`: a source and an item, 2 runs, 4 entries; `history`: 2 funds, 2 purchases, a transfer, 3 days | what runs over one workspace's database | holds |
| `history_drop` | 2 funds, 3 purchases, 1 transfer, 3 days | is a past day dropped only when nothing is held on it, as documented? | violated |

`MCControlPlane` and `MCWorkspace` hold several state spaces that do not interact: `part`,
chosen in the initial state, says which component moves, the others stay at their initial
state. They extend their components, whose initial predicates, next-state relations and type
invariants have names of their own for that (`BillingInit`, `MailNext`, `StoreTypeOK`…), so
what the run checks is the very definition the theorems prove; the run's `TypeOK` asks of
each part its component's. The parts `signup` and `sharing` are both `Provisioning`, with the
requests confined to sign-ins, or to shares, a sign-in to open the owner's workspace and one
outage; `imports`, `repayments` and `cards` are all `Proposals`, with the requests confined to
the imports, to the repayments or to the rest.

**What each property says.**

- `control`, the queue. `SingleFlight`: no two active jobs share a key, even when a late failure
  revives an old job. `DeliveriesDistinct`: of two workers on one job whose rows name them the
  owner the attempts differ, and the owner holds the row's. `ImplementsDeliveryQueue`: the refinement, which says
  among the rest that only the owner can make a job done and that a live lease never changes
  hands.
  `DeadOnlyWhenSpent`: no interleaving kills a job that had attempts left and no final
  error — this holds in spite of the unguarded UPDATE of `failJob`, since a stale failure
  can only shorten a delivery, never the count. `EveryJobSettles`: no job stays pending or
  leased for ever.
- `control`, the accounts. `CapNeverLooser`: every workspace a day let in is counted, whatever was given
  back. `LoginsConverge`: who is let in holds the one workspace its identity owns, with row
  and database in place, and one trial and one welcome. `NoOrphanDatabase`: no database
  outlives its sign-in unowned. `SharedReadOnly`: a viewer grant has a sealed token, the cap
  of viewers holds and no viewer passes for an owner. `AppliedOnce`, `PaidAccessKept`: an
  event is written once, and while no two writes overlap nothing that was paid for is lost,
  in any order of events. `ClaimHeldByOne`, `MailedAtMostOnce`: a mark has one holder, and a
  second mail needs an answer that lied and a key that was forgotten.
- `sync`. `RunFencesPersist`: at most one pass is between its `beginRun` and its end, its
  row is open and retention never prunes it. `DoneWasFinishedOrSkipped`: an acked job was
  mirrored with its `last_sync_at`, or met an open run. `ImplementsMirror`: the refinement.
- `owning`. `OnePassPerConnection`; `LoginsWithinCap`, counted at MyInvestor on the day it is
  asked, not in the row: at most the cap of those reserved for the day, and at most one more
  reserved before midnight, so a calendar day may see one login more than the cap;
  `CountsNeverGoBack` (days and counts, across midnight); `OutcomeMatchesLog` (the band's
  outcome and the health rule's log tell the same, unless ninety quiet days purged the log).
- `daily`. `FinalizedHasNoHole`, `DoneMeansFinalized`, `GapsReported` (every skipped pass
  within the limit is reported once detection answered, and no pass that came is).
- `workspace`. `OuterAllOrNothing`, `JoinedInTimeIsKept`, `EveryCallEnds`,
  `ImplementsUnitOfWork`: the unit of work; a call that threw left nothing, or all of it when
  the answer of its commit was lost. `CreationWritesOnce`, `ImportMergesByDate`,
  `ImplementsResolution`: the proposals. `RepaidAsShown`: a repayment is written over the
  balance its card shows, and of those drafted over it at most one moves it, unless the user
  put it back; two that leave it may both be applied. `AmendmentLeavesOne`: what was amended is
  discarded and has its successor, and a card and its amendments are one open proposal unless
  two requests met on it or one died. `OverwritesWhatWasSeen`: of prod's document, a push
  overwrites only what is backed up and local had seen, but for its two windows.
  `KeysSurvivePush`: a source keeps the key and the token prod had.
  `HistoryFollowsBook`: every row of every snapshot shows what the book holds on its day, in
  any order of commands and captures.
  Where the code accepts a window, the property names it: two requests creating at once, a
  ledger that moved after the plan was made, what the hosted app saved between two statements of
  a push, the keys a push that died did not put back, a row a capture saved of a holding with
  facts it could not know or of a later day, the answer of a commit that was lost, a grant
  written and not read back.

**The disagreements.** Each of the seven violated properties quotes a sentence of the
repository; `PROJECT.json` gives the quotation under `findings`. In short: `failJob` reads
the owner and writes without it; only `failJob` looks at the delivery cap, so a job that
kills its worker is redelivered for ever; a run left open is never closed, and the queue
acks the jobs it blocks; the re-entry form checks for a pass before its login and not when
it ends; the daily branch of the resolver catches nothing, so an outage is a dead job; a
webhook reads the entitlement row and writes it back whole, so of two at once the later write
wins with the older window; the fold of a ripple stops at the first holding it empties, so a
transfer of a whole position drops the past days that showed only its origin, although the
destination is held on them.

Seen while modelling and stated here only, because the properties name them as windows:

- `sync-engine.ts:11-12` says a concurrent prod write is never silently clobbered; what is
  saved between the guard's export and the import is overwritten without a backup
  (`between`), and what is saved between the import and the new baseline is absorbed into the
  baseline and overwritten, backed up, by the next push (`absorbed`). What the export leaves
  out (incomes, the audit log, the state of each sync) goes with every push (`apart`).
- `reconstruction-proposals.ts:278-279` says a chain of amendments leaves one open proposal; two
  requests that amend one card at a time leave a successor each, and so does one that dies
  before it discards the card and is asked again (the `crossed` of `AmendmentLeavesOne`).
- The daily cap of logins is kept by the day a login is reserved; one reserved before midnight
  and asked after it is on top of the new day's (the `late` of `LoginsWithinCap`).
- `job-store.ts:303-306` reads the claimed row back by id, so a claim whose lease lapses at
  once may answer with the attempt of another worker's delivery (`LeaseRead`).
- `store-context.ts:243-252` reports a commit whose answer was lost as a failure, over durable
  statements (the `lost` of `OuterAllOrNothing`).
- `investment-valuation.ts:233` folds the whole ledger for the live capture: an operation dated
  after today is in today's row until the day is rippled or captured again (`CaptureReads`).
- `provisioner.ts:425-426` says an error other than the lost race must not trigger the
  cleanup; lines 305-331 clean up on every error. When the grant was written and its answer
  lost, the owner keeps a grant on a deleted workspace (the `unread` of `LoginsConverge`).
- `entitlement-directory.ts:176-189` uses the trial's marker up before the row is written: a
  login that dies in between has no trial and no second try (`LoseTrial`).
- A document appended twice to one import makes its dates duplicates, and the confirm then
  imports none of them (`AppendDocument`, `MergePlan`).

**Why the bounds are enough.** Every race modelled is between two actors over one row, and
each instance has two, three where a third can join. Two jobs of one key give a job and its
successor, which is what a late failure needs. A cap of 2 gives a first, a last and (by
redelivery) an excess attempt. Retention 1 makes every finalization prune. Two days with a
cap of 2 give a pass that crosses midnight on either side of the cap. Four passes with two
invoked give gaps of zero, one and two with a report limit of one. Two sign-ins of one
identity race for the grant while another identity takes the last place. Three calls of a
store give an opener, one that joins in time and one that joins late; two statements each
give a half-done unit of work. Two imports that share a date give the plan that was
overtaken. Two ids for amendments give two successors of one card, and a chain of two. Two runs of
the script give a pull or a push, dead or finished, and the push after it.
Two events in a behaviour give every order of two deliveries. Three days, two purchases on
different ones and a transfer on the day of the later give a snapshot before, on and after
each fact, a day that shows one fund or both, and a capture saved a day late; `history_drop`
adds a purchase of the destination. `MaxFaults`, `MaxOutages`, `MaxMishaps` and `MaxThrows` bound
kills, slow runs, throws and failed calls; `MaxDeliveries`, `MaxJobs`, `LastPass`, `MaxRounds`,
`MaxNow`, `LastDay`, `Horizon`, `MaxEvents`, `MaxGrants`, `MaxEdits`, `MaxKey` and `MaxRuns`
are the other bounds (`MaxKey` counts what people enter on either side of a push), each named where it is declared. Symmetry is used only in runs
without liveness, `sync` and `daily`; `owning` has a view, under which states are one that differ
only in what no step reads (`MCView`); in `control` the two webhook calls are interchangeable,
and of two idle ones the first takes the next event; in `workspace` the assistant's requests
are, and are made in order, and so are the ids of amendments. Once two writes of the entitlement row overlapped, which
`PaidAccessKept` excuses for good, only webhook calls go on. An import starts over a ledger
of one opening, whose date no plan looks at. In `history` the fund only the transfer brings
anything to is not opened before the other (`FundsNext`).

**Fairness.** `JobQueue!QueueFairness` asks weak fairness of each worker's own steps, because
some invocation always drains (each trigger drains in-process and the cron twice a day),
and of the two clock steps, because time passes. Nothing is asked of crashes, slow runs or
producers. `EveryJobSettles` holds once the bounded faults are spent; without the bound
`queue_attempts` shows that it would not. In `control` it is asked in the
queue's part alone. `SourceSync!FairSpec` adds an inline caller's own
steps, and its run is a refutation: it shows that even a fair system stays wedged.
`StoreTransaction` asks weak fairness of each call's `Progress`, the awaits of a running
process that answer; calls need never be made and nothing need throw. Other safety runs use
no fairness, and deadlock is not checked where the system may simply be idle.

## The proofs

Eight modules prove what the runs check, for every value of the constants: every invariant,
every action property and all four refinements.

| Module | Proved of its component | From |
|---|---|---|
| `JobQueueProofs` | `QueueTypeOK`, `SingleFlight`, `DeliveriesDistinct`, `AckByLatestDelivery`, `NoStealing`, `DeadOnlyWhenSpent`, and `ImplementsDeliveryQueue`: the refinement of `DeliveryQueue`; of that, `OneActivePerKey` | `QueueAssumption` |
| `SourceSyncProofs` | `TypeOK`, `RunFencesPersist`, `DoneWasFinishedOrSkipped`, and `ImplementsMirror`: the refinement of `SourceMirror`; that the queue inside is `JobQueue` | `SyncAssumption` |
| `OwningSyncProofs` | `TypeOK`, `OnePassPerConnection`, `LoginsWithinCap`, `CountsNeverGoBack`, `OutcomeMatchesLog` | `OwningAssumption` |
| `DailyCaptureProofs` | `TypeOK`, `FinalizedHasNoHole`, `DoneMeansFinalized`, `GapsReported` | `DailyAssumption` |
| `AccountsProofs` | of `Entitlements`: `BillingTypeOK`, `AppliedOnce`, `PaidAccessKept`; of `TrialEmails`: `MailTypeOK`, `ClaimHeldByOne`, `MailedAtMostOnce`; of `Provisioning`: `SignUpTypeOK`, `CapNeverLooser`, `LoginsConverge`, `NoOrphanDatabase`, `SharedReadOnly`; of `MCControlPlane`: `TypeOK` | `EntitlementsAssumption`, `TrialEmailsAssumption`, `ProvisioningAssumption` |
| `ProposalsProofs` | `ProposalTypeOK`, `GateWritesOnce`, `CreationWritesOnce`, `AmendmentLeavesOne`, `RepaidAsShown`, `ImportMergesByDate`, and `ImplementsResolution`: the refinement of `Resolution`; of that, `WrittenOnce` and `SettledForGood` | `ProposalAssumption` |
| `WorkspaceProofs` | of `SyncPush`: `PushTypeOK`, `KeysSurvivePush`, `OverwritesWhatWasSeen`; of `History`: `HistoryTypeOK`, `HistoryFollowsBook`; of `MCWorkspace`: `TypeOK` | `SyncAssumption`, `HistoryAssumption` |
| `StoreTransactionProofs` | `StoreTypeOK`, `OuterAllOrNothing`, `JoinedInTimeIsKept`, and `ImplementsUnitOfWork`: the refinement of `UnitOfWork`; of that, `AllOrNothing` | `StoreAssumption` |

The assumptions say that bounds and caps are naturals (the cap of deliveries positive), that
null values are no members of their sets, and what a well-formed instance is: an event
`activated` has a date, a proposal is of a kind, both sides of a sync start with their keys
entered. `SourceSync` also assumes finitely many callers, so that a fresh run id exists; `History`
that holdings, purchases and transfers are finitely many, so that they can be counted. The queue,
the source sync, the owning sync, the daily capture and provisioning assume them with `ASSUME`;
the others define them and their theorems take them as hypotheses, which `MCControlPlane` and `MCWorkspace` assume of their instances. TLC
evaluates all of them.

Hardly an invariant is inductive alone. What each proof adds, and why:

- `JobQueueProofs`. `DeliveriesDistinct` needs that a busy worker's attempt is at most the
  row's, so that a claim, which takes the next number, is new, and that the attempt of a
  worker whose row named it is the row's only while nobody else owns the row; `DeadOnlyWhenSpent` that a
  worker which decided against a retry saw a final failure or a spent cap and neither is
  undone. `WorkerInv` says both of each worker. The refinement goes worker by worker: a
  busy worker's row is not its own any more once the lease lapsed, so each answer is either
  the owner's (`Ack`), or a failure that the row suffers (`Kill`, `Reopen`), or nothing the row
  sees (`Drop`); `IndexAdmits` turns the partial index into the abstract condition.
  `QueueOnePerKey` shows that `DeliveryQueue` keeps one active job a key by itself. That the
  acked attempt is the one the row counts (`AckByLatestDelivery`) is finer than the abstract
  table and has a theorem of its own.
- `SourceSyncProofs`. `Places` ties a pass to its run: inside exactly while it has one, with
  the stamp of its payload, and the last to have written once it mirrored. `Table` and
  `Workplaces` are what the handler must know of the queue's rows. `Pruned` says that the
  limit is exceeded by the open run only, without which retention could take it. The
  refinement maps the holder to the open run's pass; each step of the handler is a step of
  `SourceMirror` or a stutter, and no step of the queue moves it. `QueueInside` looks the other
  way: each step is one of the queue or a stutter of it, so the theorems about `JobQueue` are
  about the queue the handler runs in too, where `QueueAssumption` is met.
- `OwningSyncProofs`. `Reserved`: the day a pass claimed is not after today, no later day was
  reserved, and a pass that is asking has a reservation counted and not yet spent. So the
  logins of a day reserved for it never exceed those counted; only a pass that holds the lease
  asks, and one that claims after midnight reserves for the new day, so a day has one late
  login at most.
- `DailyCaptureProofs`. `Covered`: a run without a failure has captured, of each workspace it
  has begun, the scopes that are not left, and that survives an overlapping run of the same
  pass because a snapshot is never taken away. `Acknowledged`: a run that will ack has seen its
  pass finalized, and finalized passes stay so. `Past`: what was invoked, detected or reported
  lies before the clock, so a later invocation cannot make an old report false; which passes a
  detection reports is found from the latest one invoked before it (`LatestInvokedIs`).
- `AccountsProofs`, entitlements. `RecordedFirst`: a delivery holds only an event already
  recorded, so a second delivery of it never gets past the record. `PaidAccessKept` is inductive
  with the types: each transition of `billing.ts` only reaches further, or lowers what is owed.
- `AccountsProofs`, mails. `Mailed` relates mark, inbox and the provider's memory of a key;
  `WelcomeInTime` keeps the welcome inside the key's day.
- `AccountsProofs`, provisioning. `PlacesCounted`: the count of a day is at least the sign-ins
  that hold a place in it, so giving one back never takes another's; it needs that the holders
  are finitely many, which a step keeps because it lets in at most one. `SignInAgrees` says, for
  each place a sign-in can be in, what its identity's grant is and which of its row and database
  exist; the cleanup may delete only what no grant points to, unless the grant was not read
  back. `UserAgrees`, `ShareAgrees` and `WorkspaceAgrees` say the like of trials and mails, of a
  share under way and of viewers and tokens. A sign-in touches nothing of another
  (`OthersAgree`), which leaves its own step to check.
- `ProposalsProofs`. `Alone`: outside the accepted window a creation has one request;
  `Succeeded`: a built successor stays; `Chained`: a card has one successor outside the window;
  `Repaid`: who moves the balance ends the repayments until the user puts it back, counted over
  a finite set; `PlansCurrent`: a plan nothing moved is still
  `MergePlan` of what is there, which is all `ImportMergesByDate` needs. In the refinement a
  request's read and plan are stutters, because nothing of them is trusted: the step that
  applies reads the status again in the transaction that writes. `ResolvedOnce` draws from
  `Resolution` alone that a proposal is settled for good and written once; `GateWritesOnce` says
  it of the concrete module.
- `WorkspaceProofs`, the push. `KeysCaptured` and `TokensCaptured`: what a push captured is what
  was typed, and the tokens of the logins since; `WhatWasSeen`: what passed the guard was seen,
  absorbed or came in between, and is backed up before the import.
- `WorkspaceProofs`, history. `HistoryFollowsBook` needs two facts more: `Booked`, an operation
  in the book is of a holding that was opened, and `CaptureKnows`, what a capture in flight read of
  a holding not in doubt is what the book holds on its day. `NothingLater` gives the second when it
  reads: with no fact after the day, the fold of the whole ledger is the fold up to the day. The
  rest of the work is in `Held`, a recursion over the days. `BalanceExists` and `BalanceTyped` show that it is defined
  and a natural, `HeldLocal` that what is held on a day follows from what arrives and departs
  until then. A command changes facts of the holdings it refolds only, and none before its floor
  (`Within`), so the rows the band leaves alone still show the book (`RippleFollows`). From it,
  `OneHoldingDropsHold` confines the disagreement of `history_drop`: a command about the
  operations of one holding drops a captured day only when the book holds nothing on it, so
  the fold over several holdings is what loses days.
- `StoreTransactionProofs`. `Control`: at most one call holds the transaction, and client,
  gate and depth are its own; `Roles`: a joiner is in the joins in flight until it settles;
  `OuterData` and `JoinData`: where the statements of each are, at each place. The refinement
  adds nothing to the invariant: a statement goes where the client points, into the open
  unit while there is one and nowhere once it is settled, and only its own call can end it. `UnitAllOrNothing`
  draws the promise from `UnitOfWork` alone.
- The runs with parts. `ControlParts` and `WorkspaceParts` show that a behaviour of the run's
  specification, whatever its part, is one of every component's (of the store's without its
  fairness): the part that moves takes a step of its own, the others stand still. So each
  theorem about a component is about the run, and the run's `TypeOK` follows. The proofs come
  last in `AccountsProofs` and `WorkspaceProofs`, which extend the run's module for that; they
  are the only ones that use its assumptions (`MCControlAssumption`, `MCWorkspaceAssumption`).

Each module has a lemma per conjunct or per action, an invariant theorem
(`InductiveInvariant`, `StoreInvariant`, `SignUpInvariant`…) puts them together, and the action
properties start from it. Where a proof needs induction over numbers, over the days of `Held`
or the passes of `DailyCapture`, it argues on a set of naturals by its least member
(`LeastNat`, `DayByDay`): the library's induction theorems take an operator, which none of the
provers can instantiate.

Only model-checked: `EveryJobSettles` and `EveryCallEnds`, because liveness under fairness and
`ENABLED` are out of the prover's reach. Only proved, no run checks them by name:
`AckByLatestDelivery`, `NoStealing` and `GateWritesOnce`, which the refinements TLC checks took
the place of, `OneHoldingDropsOnlyTheEmpty`, and what the abstract specifications promise by
themselves. Anything that uses a `RECURSIVE`
operator would be out of reach too; no module here declares one.

## The plan

Done: queue, source sync, owning sync and daily capture first, because the rest of the
background work rests on them; then the components that write the control plane and those
that write one workspace, history last; proofs for all eleven.

Done since: the abstract specifications of the queue, of a unit of work and of a proposal,
with the proofs that `JobQueue`, `StoreTransaction` and `Proposals` implement them.

Next, in this order:

1. `DailyCapture` over `DeliveryQueue`. It keeps one row a pass, the newest job's, so the
   refinement needs a history of the jobs a pass had before; that it sees no more of the queue than
   `DeliveryQueue` shows is said in its header and not proved.
2. Two bands in one transaction (a correction of a debt and of the asset it bought), which
   read past the rows the first one queued, and the other families of dated facts.
3. Pure algorithms against a definition: transfer plans, amortization schedules.

## Not modelled

The finance of `packages/domain`, and what a ripple computes beyond the units of a row, are
arithmetic over ledgers, covered by the repository's own example tests; the providers of `packages/pricing` and the
relay are I/O; the web surfaces, the chat and MCP read what the stores hold; the migrations of
`migrate.ts` run once, in order, before a store is used; usage limits are one guarded upsert
each, the same statement as the day's cap of `Provisioning`. Secrets, encryption and
authorization are out of scope. Of the modelled components, what is left out is said with
each, and `PROJECT.json` lists every component with its reason. Most of the repository's lines
are of these kinds, which is why the map covers a small share of them.
