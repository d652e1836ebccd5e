# Staylayer in TLA+

Models of the parts of Staylayer whose correctness depends on the order in which
requests, timers and processes touch the database. The reference is the source
under `src/`; every definition that models code is tied to its lines in
`PROJECT.json` (`map`).

* [The system](#the-system)
* [Modules](#modules)
* [Runs](#runs)
* [Proofs](#proofs)
* [Modelling decisions](#modelling-decisions)
* [Disagreements found](#disagreements-found)
* [Not modelled](#not-modelled)
* [Plan](#plan)

To repeat the checks, inside this directory:

    tlc -workers 2 -config PublishPipeline.cfg PublishPipeline.tla
    tlc -workers 2 -config StripeBilling.cfg MCStripeBilling.tla
    tlapm PublishPipelineProofs.tla
    tlapm HostCacheProofs.tla
    tlapm StripeBillingProofs.tla
    tlapm DomainVerificationProofs.tla
    tlapm SiteErasureProofs.tla
    tlapm FormDeliveryProofs.tla
    tlapm SeoCrawlProofs.tla
    tlapm BillingApprovalsProofs.tla

## The system

Staylayer hosts multi-tenant marketing sites. Four applications share one
PostgreSQL database:

| Application | Role |
| --- | --- |
| `apps/api` | NestJS API: all writes, cron runners, webhooks, the public runtime payloads |
| `apps/website` | Next.js runtime that serves every site from the API's payloads, with its own data cache |
| `apps/dashboard`, `apps/operator-console`, `apps/marketing` | user interfaces of the API |

The API runs as several processes. What they share is the database (Prisma over
PostgreSQL, READ COMMITTED, no `SELECT ... FOR UPDATE` anywhere in the modelled
code) and optionally an Upstash cache. Timers, crons and "already running" flags
belong to one process each. Nothing in the code elects a leader, so everything a
timer does may be done by two processes at once.

### Inventory

**Publish pipeline** (`deployments/deployments.service.ts`).
State: the `deployments` rows of a site, with status and metadata
(`publishedRevision`, `rollbackOfRevision`). Operations: `provisionSite`,
`retryDeployment`, `rollbackSiteDeployment`, each a chain of awaited statements
that creates an active row, calls the website's revalidation endpoint, records or
restores a revision and settles the row. Hard: the check for an active row and
the creation of the next are two statements, two handlers of a site overlap, the
process may die anywhere, a rollback commits before it revalidates. Correct when:
history stays linear, every event owns exactly what it recorded, settled rows are
final, live handlers settle their row.

**Published revisions** (`site-published-revisions/`). State:
`site_published_revisions`, `Site.publishedRevision`. Operations:
`captureSnapshot`, `restoreToRevision`, both transactions of several statements.
Hard: READ COMMITTED reads in between editors' writes; row locks of a restore.
Correct when: numbers are gapless, a restore records what its target held.

**Page editing and site settings** (`pages/`, `site-settings/`). State: page rows
(published, trashed, content), one settings row. They write while a publish reads
and a rollback writes. Correct when: no draft is lost to a rollback.

**Inquiry delivery** (`forms/submission-operations.service.ts`, queue call in
`forms.service.ts`). State: `form_deliveries` rows, two operational alerts.
Operations: `queueSubmissionDelivery`, `processDueDeliveries` (timer, start-up,
kick of a fresh inquiry, replay), `requeueDelivery`. Hard: the lock has no
condition, a batch outlives the reclaim timeout, the DELIVERED write may fail
after the send, a replay acts on a status read earlier, a dropped kick. Correct
when: every send was counted, duplicates have a cause, every row ends, an alert
tells the truth.

**Site life cycle** (`tenant-workspace/`: archive, restore), **permanent site
deletion** (`site-deletion/`), **permanent workspace deletion**
(`tenant-deletion/`), beside the writers of **translation** and **notifications**. State:
site status, job rows, all content: rows with a foreign key, and notifications,
preferences, translation usage and onboarding without one. Operations: the
check-then-create requests, crons that claim jobs with a conditional update,
`runJob` in separately committed steps, rows written meanwhile. Hard: jobs created
beside each other, the tenant cascade under a running site job, rows no cascade reaches,
a restore while a job waits, crashes. Correct when: one runner per job, COMPLETED is true
of everything the job swept, nothing with a foreign key outlives its site or the
workspace, jobs end.

**Public runtime and caches** (`public-runtime/`, website fetch layer). State: a
map per process, Upstash, the Next.js data cache. Operations: `resolveHost`
(read-through), the services that change who serves a host and delete its key,
page payloads (60 s, never deleted), `revalidateTag`. Hard: a lookup that read before
the deletion stores after it; the deletion reaches one process's memory and
Upstash, and may fail; some changes delete nothing. Correct when: a stale copy has a
known cause and does not outlive its TTL.

**SEO crawler** (`seo/crawler/`). State: job rows with their result, issue and
link rows, a flag map per process, the engine's visited set, queue and pages in
flight, three row buffers. Operations: start, cancel, run, start-up recovery. Hard:
several pages in flight share the limits and the buffers, buffers are flushed at
different sizes although their rows refer to each other, a cancellation finds pages
in flight, a starting process fails other processes' jobs. Correct when: the budget
is kept and used, a finished crawl has its rows, every job ends.

**Stripe billing** (`billing/billing.service.ts`). State: event receipts, subscription
rows (a checkout's intent is one without a Stripe id), their pending plan change;
at Stripe the subscription and its schedule. Operations: checkout, webhook, replay,
sync on read and by operators, upgrade, scheduled downgrade and its cancellation. Hard:
delayed, repeated and reordered events; a receipt stored before the event took
effect; reads and writes by id with awaits between; Stripe's schedule and the row
that knows of it change in separate calls. Correct when: nothing is lost where nobody
finds it, and the row follows Stripe.

**Operator billing approvals** (`operator-billing/operator-billing.service.ts`,
`operatorRefundInvoice`). State: action requests with status and approver, entitlement
overrides (which no service reads yet), refunds at Stripe. Operations: four requests,
approve, reject, execution. Hard: a verdict checks and then writes by id, so verdicts
cross; an approval carries the action out after its write and records it with another
one; Stripe's answer may be lost. Correct when: nobody carries out an action of their
own, a refund is made once, EXECUTED is true.

**Custom domains** (`domains/`). State: domain rows with a verification status, an alert
per domain, host keys of the caches. Operations: add, remove, set primary, retry,
verification (attachment, DNS, HTTPS probe), scheduled batch. Hard: verdicts are
written by id after slow probes, the alert by another statement; checks overlap, rows
are removed and added anew meanwhile; statuses the batch never takes up. Correct
when: a verdict stays with its row, the alert catches up, a live host is found.

**Dedicated Vercel deployments, accounts and operator sessions, the translator,
audits and search-console sync, support cases, operator console API, user
interfaces**: see `components` in `PROJECT.json` for why each is left out or
partly covered.

### How they interact

* A publish calls the website's `/api/revalidate`; the website then fetches
  payloads from the API (through the caches).
* A rollback writes the page and settings rows editors write.
* A visitor's submission is stored by `FormsService.submit`, queued by
  `SubmissionOperationsService`; the operator console replays deliveries.
* Archive, restore, the site runner and the tenant runner write the same site row;
  the tenant's delete cascades to sites and site jobs. Translations and notifications
  write rows while they work.
* Archive, restore and every operation on domains change who serves a host, which the
  public runtime reads through its caches: each of them has to delete the host's key.
* A verification of a domain turns its claim on a host on and off under those caches.
* An approved refund is made at Stripe by the billing service, which stores the invoice.
* Stripe calls the webhook; every read of a tenant's plan may ask Stripe in turn.

The hazards this leads to, each at its line, are `hazards` in `PROJECT.json`, with
the properties that guard against them.

## Modules

| Module | Models |
| --- | --- |
| `PublishPipeline` | publish, retry, rollback, capture and restore of one site, with editors, faults |
| `PublishLedger` | abstract: publish events and a linear history of revisions |
| `PublishHistory` | `PublishPipeline` with a history variable: the published surfaces in their order |
| `PublishPipelineProofs` | TLAPS proofs about `PublishPipeline` and `PublishHistory` |
| `FormDelivery` | inquiry delivery of one site |
| `FormDeliveryProofs` | TLAPS proofs about `FormDelivery` |
| `SiteErasure` | archive, restore and permanent deletion of the sites of one workspace, and of the workspace |
| `SiteErasureProofs` | TLAPS proofs about `SiteErasure` |
| `SeoCrawl` | one SEO crawl: job row, breadth-first engine, row buffers, cancellation, start-up recovery |
| `MCSeoCrawl` | the site map the crawl is checked on |
| `SeoCrawlProofs` | TLAPS proofs about `SeoCrawl` |
| `HostHolder` | abstract: which site claims a host name, and whether it is served |
| `HostCache` | host resolution over the two-level cache, composed with `HostHolder` |
| `HostCacheProofs` | TLAPS proofs about `HostCache` |
| `DomainVerification` | verification of one custom host, shown to implement `HostHolder` |
| `DomainVerificationProofs` | TLAPS proofs about `DomainVerification` |
| `StripeBilling` | one tenant's subscription between Stripe, webhooks, requests and operators |
| `MCStripeBilling` | symmetry of handlers for TLC |
| `StripeBillingProofs` | TLAPS proofs about `StripeBilling` |
| `BillingApprovals` | operators' refunds, credits and entitlement overrides, and their approval by another operator |
| `BillingApprovalsProofs` | TLAPS proofs about `BillingApprovals` |

### PublishPipeline

| Variable | Code |
| --- | --- |
| `rows`, `settings` | page rows by (slug, locale), the SiteSettings row; a version number stands for all columns a snapshot copies |
| `deployments` | the site's deployments: status, `metadata.rollbackOfRevision`, `metadata.publishedRevision` |
| `revisions`, `publishedRevision` | `site_published_revisions`, `Site.publishedRevision` |
| `req` | the local variables of each request's handler and the statement it awaits (`pc`) |
| `faults` | crashes and failed status writes so far |

Chain of a publish: `ProvisionSite` or `RetryDeployment`, `CreatePublish`,
`RevalidatePublish`, `CapturePages`, `CaptureSettings`, `CaptureCommit`,
`CompleteDeployment`, with `FailDeployment` from every place the code throws.
Chain of a rollback: `RollbackSiteDeployment`, `CreateRollback`, `RestoreRead`,
`RestoreWrite`, `RestorePages`, `RestoreSettings`, `RestoreCommit`,
`RevalidateRollback`, `CompleteDeployment`. `AbortTransaction` is a failing
statement inside a transaction. `Crash` is the death of the process, and the
rejection of the last write, which no `catch` sees because its promise is
returned without `await`.

`unpublished` of a revision is history: the pages its restore took off the surface.
The writes of a restore are private to it until `RestoreCommit`; from
`RestoreWrite` on the rows it wrote are locked (`LockedPages`,
`SettingsLocked`), and an editor or another restore waits for them. Whether a
page will be unpublished was decided earlier (`RestoreRead`), so editors do act in
between.

### PublishLedger

Events are opened, record at most one revision, and end once, live or failed. A
failed publish has recorded nothing; a rollback may fail after recording.
`PublishPipeline` maps its active rows to "open" and forgets requests, pages and
SQL; `ImplementsLedger` is the refinement.

### FormDelivery

`rows` is the table in `createdAt` order, `inquiry` the queueing of each
submission, `worker` the run of each process with its remaining `due` list,
`replay` the operator's call, `alerts` the routing and the failure alert of the site,
`sent` what recipients received. `Lock` counts the attempt before the send;
`DeliverAccepted`, `DeliverRefused` and `DeliverUnanswered` are the outcomes of a
send; `RecordDeliveredFails` is the failing DELIVERED write inside the try of the
send; `RunFails` is a failing statement outside of it, or a crash. Time is one bit
per row, `ripe`: its wait (the backoff, or the five minutes of a PROCESSING row) is
over. `Elapse` may set it at any moment, also while a run still holds the row.

### SiteErasure

| Variable | Code |
| --- | --- |
| `tenant`, `site` | the tenant row, the sites' status |
| `linked` | which kinds of rows with a foreign key each site has |
| `loose` | notifications and `translation_usage`, rows without one: the site they name or the workspace |
| `jobs` | `site_deletion_jobs` and `tenant_deletion_jobs` |
| `request` | the local variables of each archive, restore or deletion request |
| `runner` | the `runJob` call of each cron service |
| `translation` | the end of each `processJob`: the usage it still has to record |

`Claim` is the `updateMany` on QUEUED. A site's run is `ReadSite`, `DeleteLinked` once for
each kind of linked rows (steps 1 to 9), `SweepSite` (step 10: the loose rows that name the
site), `EraseSite` (step 11, with its cascade), `CompleteSiteJob` and `ReportSiteJob`; a
tenant's is `ReadSites`, `SweepSites` (step 2), `SweepWorkspace` (step 3), `EraseWorkspace`
(step 4, with its cascade) and `CompleteTenantJob`. Each commits on its own, may fail or be
the last before a crash, and others act between any two of them. Every step starts with an
update of the job row, so after the tenant's cascade a site's run ends (`RunVanishes`).

Meanwhile `AddRows` writes linked rows, which needs the site; `RecordUsage`, `NotifyQueued`
and `ReportSiteJob` write loose rows, which needs nothing, whatever their writers had
looked at before. `swept` of a job and `after` of a loose row are history: the job has
deleted the loose rows it covers, and the jobs that had done so when the row was written.

### SeoCrawl

`status` is the job row, `stored` which pages have their result, issue and link rows
in the database. `runner` is the statement `runJob` awaits; `cancelled` the flag in
`activeJobs`; `canceller` the two statements of `cancelCrawl`. Of the engine, `depth`
is the visited map, `queue` what waits and `task` what is in flight: each page is
being fetched, or waits for the insert of a batch it has spliced off (`buffer` holds
the rest). `pages` is what `onPage` has recorded.

`PageFetched` is all that happens between the end of a fetch and the next `await`:
rows are pushed, a full buffer is spliced off, or else the page's new links are
queued in their order (`Fresh`: the first ones the limit leaves room for), the page
leaves and the loop launches the next ones (`Launched`).
`Insert` is a `createMany`; `MayInsert` is the foreign key from issues and links to
result rows. The engine drops what `onPage` throws (`InsertFails`). After it,
`FlushRest`, `BrokenLinkPass` and one of `WriteCompleted`, `WriteCanceled` and
`WriteFailed`. `Recover` is the restart of the process that died,
`OtherProcessStarts` that of another, which fails a job that is alive.

### HostHolder and HostCache

`HostHolder` is what the tables promise of one host: unique keys give it to one site at
a time, and the claim is served or not. `HostCache` takes its variables and moves them
by its actions only (`Tables == INSTANCE HostHolder`): `AddDomain`, `RestoreSite` and
`CreateSite` are `Claim`, `Remove` is `Release`, `ChooseVariant` and `Verify` are
`Judge`. To each it adds what the service does to the caches: all but `CreateSite` and
`Verify` owe a deletion (`bust`).

`shared` is the key in Upstash, `memory` the key in each process's map, `fill` the
lookup of each process: `Query` reads the tables, `Store` writes its own map, `Send`
is the SET. `BustMemory` and `BustShared` are `deleteKeys`. Upstash commands may fail;
`PublicRuntimeCacheService` swallows the error. `blamed` and `late` are history
variables: they record that a copy, or the value a lookup carries, may be stale for a
cause other than a deletion on its way.

### DomainVerification

`row` is the domain's row, `check` a verification with the local variables of
`verifyDomain`, `world` what provider, DNS and certificate authority answer at the
moment. `Request`, `Read`, `Attach`, `ResolveDns`, `ProbeHttps`, `Write` and `SyncAlert`
are its awaited statements and calls in order. `own` says that the row it was started
for is still there: an update by id of a removed row throws, also when the host has a
new row. `TakeUp` is the scheduled batch, `Add` and `Retry` are requests. Row and host
map to `HostHolder`: `ImplementsHolder` is the link to `HostCache`, whose tables may
therefore be moved by verifications without knowing what they probe.

### StripeBilling

| Variable | Code |
| --- | --- |
| `log`, `schedules`, `scheduled`, `session`, `event` | Stripe: the subscription's states, its schedules, the checkout session, the delivery of each event |
| `receipt` | `billing_webhook_events` by event |
| `rows` | the tenant's `subscriptions`: `linked` (has a Stripe id), status (`mapStripeStatus`: a trial is ACTIVE here, an unpaid or paused subscription PAST_DUE as there), plan, pending schedule, and the state of the log the row was last written from |
| `handler` | the local variables of each request or delivery and the statement it awaits |
| `applied`, `outdated`, `mislaid` | history: events whose payload was written, and whether one of the listed causes of a row behind Stripe has occurred |

A delivery: `StoreReceipt` (or `AnswerDuplicate`), then for a checkout `FindIntent`,
`KeepIntent`, for a subscription `FindLinked`, perhaps `FindUnlinked`, `WriteRow`, and
`Mark`. `RefuseRow` is the unique key on the Stripe id, `Failed` the catch that stores
the message. `Replay` is the operator's, `Refresh` and `OperatorSync` run the same sync
with what Stripe answers at that moment. `Upgrade`, `Downgrade` and `CancelPending` start
a request; `Release`, `Change`, `Schedule` are its calls of Stripe, `Record` and `Clear`
its own writes. Stripe moves a subscription by `StatusChanges`: a first payment arrives, a later one fails
and may arrive after all, the subscription ends. Of the row a sync writes, what it decides from the earlier read
(`ClearsPending`) is kept apart from what it finds when it writes.

### BillingApprovals

| Variable | Code |
| --- | --- |
| `requests` | `billing_action_requests`: what was asked, by whom, status, `approverUserId` |
| `overrides` | `billing_entitlement_overrides`: the request each comes from, `revokedAt` |
| `stripe` | Stripe's answer to the idempotency key of each request, and the refunds made with it |
| `handler` | the local variables of each `approveActionRequest` or `rejectActionRequest` and its next statement |
| `trail` | history: which operators passed the check of a request, and which carried it out |

An approval: `CheckApproval`, `WriteApproved`, then by kind `RefuseInvoice`, `Refund` and
`PersistInvoice`, `IssueCredit` (which is its own record), `CreateOverride` or
`RevokeOverride`, and `WriteExecuted`; or `WriteFailed` from every place the code throws.
A rejection: `CheckRejection`, `WriteRejected`. `StepFails` is a failing statement inside
the try, `Crash` the death of the process or a failing statement outside of it,
`RefundUnanswered` a refund that is made while its answer is lost. Stripe is external: it
answers a repeated key with what it answered first.

## Runs

| Run | Question | Bounds |
| --- | --- | --- |
| `publish_pipeline` | Do history, rows and content stay consistent whatever overlaps? Does every deployment settle unless its handler died? Is the pipeline a ledger? | 2 requests, 2 pages (one live, one in the trash or not yet created), 3 deployments, 1 edit, 1 fault, no settings at first |
| `capture_atomic` (violated) | Is a snapshot a state the site was in? | 2 deployments, 2 edits, no fault |
| `form_delivery` | Is every inquiry delivered or reported, with duplicates only for a cause? | 1 process, 1 submission, 2 targets, 2 attempts, 1 incident |
| `form_replay` (violated) | Does a replay spare delivered rows? | 1 target |
| `site_erasure` | Do overlapping deletions, archives and restores stay consistent and end? | 1 site, 2 requests, 2 runners, 2 jobs, 1 translation, 1 kind of linked rows, 1 fault |
| `site_restore_race` (violated) | Is a restored site spared by a queued deletion? | 1 request, 1 runner, 1 job |
| `seo_crawl` | Does a crawl keep and use its budget, stop when cancelled, store its pages and end? | 4 pages, 2 in flight, limits 2 and 4, depths 1 and 2, 2 faults |
| `crawl_rows` (violated) | Has a COMPLETED crawl all its rows? | the same pages, limit 4, depth 2, no fault |
| `host_cache` | Is a stale host answer always explained, and never for good? | 2 sites, 2 processes; failures and deaths unbounded |
| `domain_verification` | Do overlapping verifications stay with their row, and find a live host? | 2 checks, 1 fault; the world moves without bound |
| `billing_approvals` | Do approvals that cross keep to two operators and one refund? | 2 operators, 2 calls at a time, 2 requests, 1 fault |
| `billing` | Does the subscription follow Stripe, and is what was lost found again? | 2 handlers (symmetric), 3 states at Stripe, 2 schedules, 1 incident, 4 of these together, a third state only by itself |

Deadlock is checked in `host_cache` and `domain_verification`, whose steps nothing
bounds. In the other runs the system stops for good where it really may: jobs, crawls
and deliveries have ended, or a bound (deployments, edits, states at Stripe, requests) is
used up.

### Why the bounds are enough

* Three deployments allow a publish, a second event that overlaps it or follows
  it, and a rollback or a retry of one of them, two of the three at the same time.
  Two requests are the smallest number that overlap; a third adds no new pair.
* Two pages, of which one starts in the trash or does not exist, allow a target that lacks a published
  page and a page that is created, trashed or deleted between the statements of a
  rollback. The edit makes a second content of a page, or the first settings, so that
  snapshots with and without settings occur.
* One incident in `form_delivery` is one crash, one failed write, one lost answer
  or one replay, in each place. Two attempts are one retry.
* Two jobs and two runners in `site_erasure` allow two jobs of one site, or a job of a
  site beside one of the workspace, running at once. One kind of linked rows stands for
  nine: the deletions differ in nothing but their table, and rows may be added before,
  between and after the steps. One translation writes a loose row after the last of
  them, as do the two requests and the runs themselves. The theorems have no such bounds.
* The four pages of `seo_crawl` have a page that two others link to, two pages that
  link to each other, and a page at depth 2. The smaller limit and depth cut the crawl
  off in the middle of a page's links and between its levels. Chunks are scaled with
  the pages (`ResultChunk` : `IssueChunk` : `LinkChunk` = 2 : 5 : 10 as 200 : 500 :
  1000); in `seo_crawl` a page adds 2 issues and 5 links, the densities at which the
  buffers fill together, in `crawl_rows` twice as many links and 5 issues. Two faults
  are a crash after a lost batch, or a job failed by another process and then
  crashed.
* `host_cache` bounds no event, only the number of sites and processes. Two sites let
  a host pass from one to the other; two processes let one delete what the other has
  just looked up, or keep in its memory what the first deleted.
* Two checks in `domain_verification` overlap each other and the removal and re-adding
  of the host; the bound on faults matters only to liveness, where a third fault
  repeats the first.
* Three states at Stripe are enough for one event to be older than another, for a plan
  change, for the end of a subscription, for a first payment that fails, and for active,
  past_due, active, where the late past_due is the one that hurts; two schedules for one
  that is replaced. To keep the run short there are at most four of states, schedules and
  incidents together, and the third state comes without the other two. Two handlers are
  a webhook beside a request, two webhooks, or two requests. The incident is a handler
  cut short anywhere, a replay or an operator's sync.
* Two operators are who asks and who decides, or two who both decide what a third one
  could have asked; two calls are an approval beside an approval or a rejection. Two
  requests are the creation of an override and its revocation. The fault is a crash, a
  failed statement or a lost answer anywhere.

The theorems below remove the bounds for every invariant and every action property that
a passing run checks, and for both refinements. What remains bounded is liveness.

### What each property says

*Publish pipeline.* `HistoryIsLinear`: numbers are 1, 2, 3, ... in commit order and
a rollback names an older one. `LiveOwnsItsRevision`: the number a LIVE row carries is
that of its own revision, although it was read back after other requests
committed. `RollbackRestoresTarget`: the new
revision holds the target's pages and settings under concurrent writes, and of other pages
none that the restore found on the surface, unless it was deleted and created again. It
is not the equality the code's comment promises, see
[Disagreements found](#disagreements-found).
`DraftsSurviveRollback`: outside the target a rollback only unpublishes.
`SettlesUnlessOrphaned`: no lock,
refusal or abort keeps an event open while its handler lives. `ImplementsLedger`: see
above. It has three consequences the module names, which are proved and no longer run by
themselves: a failed publish leaves no revision (`NoRevisionForFailedPublish`), an event
records one revision at most, so that a revision can be looked up by its deployment
(`OneRevisionPerEvent`), and ended events are never rewritten (`SettledIsFinal`).
`CaptureIsOrdered` of `PublishHistory` is proved as well. `capture_atomic` shows what
a capture does not guarantee; this is what it does: the pages of a publish were all live
at one moment, and its settings were live at that moment or a later one, never an earlier.

*Inquiry delivery.* `AttemptsCoverSends`: no unrecorded send.
`ExcessIsExplained`: one process sends once, within the attempt limit, but for faults and
replays. `AlertTellsFailures`: while no run is under way and without faults the alert is
open if a row FAILED, and not when all are delivered, also between the two statements of
a replay. `SettledStays`, which is proved and not run: one process changes a row that was
DELIVERED or FAILED, or sends it again, only by a replay.
`InquiriesAreRouted`: each target got a row, or the routing alert was raised.
`DeliveriesSettle`: rows end, also those a dead process left in PROCESSING.

*Site erasure.* `ClaimsAreExclusive`. `CompletedMeansErased`: of what a COMPLETED job
says has gone, the row and every row with a foreign key to it are gone, and of the loose
rows only those exist that were written after this job's own sweep.
`NothingOutlivesWorkspace`: with the workspace go its sites, their linked rows and their
jobs; a loose row that is left was written after a sweep of the whole workspace. Both say
exactly what the code leaves behind, not that it leaves nothing, which is false (see
[Disagreements found](#disagreements-found)). `JobsSettle`: a queued job ends unless the
process that runs it dies. Two more are proved and not run: `NothingOrphaned`, an erased
site, by however many runs cut short at any step, has left no linked row, and no loose one older
than the first sweep for it; and `ErasureIsFinal`, what is erased stays erased,
although a restore or another job may have read the site before, and once the translations
that had found the site are over, no further loose row names it.

*SEO crawl.* `WithinBudget`: the plan's limit, the depth and the concurrency hold, and
no address is fetched twice, whichever pages add links together.
`CrawlIsExhaustive`: an engine that returns has followed every link it had to.
`EngineIsDrained`: nothing is in flight that would push to a buffer after its last
flush. `ResultsAreStored`: without faults a COMPLETED crawl has a result row per page.
`CancelStopsFetching`: after the flag is set nothing is launched or recorded.
`VerdictIsFinal`, proved and not run: no process and no later cancellation takes up a job
whose end was written; only a `cancelCrawl` that had read the row before overwrites it.
`JobSettles`: the job ends, also when its process dies.

*Host resolution.* `StaleCopyHasCause`: Upstash holds a site that does not serve the host
only while a deletion is on its way, or because a verification changed the status, a
DEL failed, a process died before its DEL, or a lookup that read before a DEL stored
after it. `CopiesConverge`: when the tables stop changing every copy, also the ones no
deletion reached, follows them.

*Domain verification.* `ActiveIsEarned`: no row is ACTIVE on the strength of a check of
another row of the same host. `AlertCatchesUp`: status and alert, written by separate
statements of overlapping checks, agree again and again. `LiveIsFound`: a host that
stays live is found ACTIVE although older verdicts may overwrite newer ones. Both
except the two statuses no batch takes up. `ImplementsHolder`: see above.

*Billing.* `NothingIsLostSilently`: an event Stripe stopped repeating was written, or has
a receipt that is not PROCESSED. `RowFollowsStripe`: when all is quiet the row is the
latest state at Stripe, unless one of three causes occurred (an older state written
over a newer one, a failed processing, the intent of an ended checkout written over a
linked row). `ScheduleIsKnown`: the same for a scheduled downgrade and the pending
change that makes it cancelable. `PayingIsServed`: when all is quiet, a tenant whose
subscription is active has an ACTIVE row, or the next read of its plan asks Stripe, or one
of those causes has left the row PAST_DUE. This last end has no way out of its own: nothing
compares the time of an event with the row's (`billing.service.ts:1096-1203`), so a late
past_due is written over active; a read of the plan refreshes rows that are INACTIVE or
unlinked only (1556-1558); and publishing is blocked when the grace period is over
(1612-1615), until another event, a replay or an operator's sync writes the row. No row says
CANCELED while the subscription lives (`LifeOK`, proved). Each
cause is an interleaving the code allows; the history variables record them, so that the
properties say nothing else puts a row behind Stripe.

*Approvals.* `FourEyes`: no action is carried out under the approval of the operator who
asked for it, and no row names that operator as approver, unless their own rejection
passed the check. `RefundedOnce`: one refund per request, whatever approvals cross and
whatever answer is lost. `ExecutedIsTrue`: a request that says EXECUTED was approved and
what it asks for has happened, although statuses are written over each other.
`EffectsAreApproved`, proved and not run, is the other direction: every refund, override
and revocation that exists goes back to a request of its kind that an operator other than
its author took up, also where the row says FAILED or REJECTED by now.

### Fairness

* `PublishPipeline`: weak fairness of the steps of a started handler. Node resumes a
  handler when its awaited call answers, and every statement or fetch is answered or
  rejected in the end. Starts, editors and faults are not fair. Handlers waiting for
  a row lock proceed once the holder ends, which its own fairness ensures.
* `FormDelivery`: weak fairness of the timer (`setInterval`), of a run's steps, and of
  time passing. Fairness is stated of the run's steps together, so nothing forces a
  send to be accepted: a target may refuse every attempt. Kicks of inquiries and
  replays are not fair; a row whose kick was dropped waits for the timer.
* `SiteErasure`: weak fairness of each runner: crons tick every minute and claimed runs
  are carried on.
* `SeoCrawl`: weak fairness of the runner's steps together, and of the restart of the
  process that died. A fetch has a timeout up to its headers. The body that follows is
  read without one; that it ends is an assumption. Cancellations, faults and starts
  of other processes are not fair.
* `HostCache`: weak fairness of each process's handlers (statements and commands return)
  and of the two expiries. Nobody has to ask for the host, to change it, or to let a
  command succeed.
* `DomainVerification`: weak fairness of each verification's steps (the probes have
  timeouts), of the scheduled batch and of the end of the grace period. Requests, faults
  and the world are not fair.
* `BillingApprovals` has safety properties only: nothing resumes a request whose approval
  died, so nothing has to end.
* `StripeBilling` has safety properties only: what must happen in the end is stated of
  the states in which nothing is under way.

## Proofs

### Publish pipeline

`PublishPipelineProofs` proves, for every set of requests and pages and for every
bound, from `SiteAssumption` (the live pages are pages, `FirstSettings` is 0 or 1)
and `BoundsAssumption` (the bounds are naturals):

| Theorem | Statement |
| --- | --- |
| `TypeCorrect` | `Spec => []TypeOK` |
| `LinearHistory` | `Spec => []HistoryIsLinear` |
| `LiveRevision` | `Spec => []LiveOwnsItsRevision` |
| `FailedPublish` | `Spec => []NoRevisionForFailedPublish` |
| `OneRevision` | `Spec => []OneRevisionPerEvent` |
| `RollbackFidelity` | `Spec => []RollbackRestoresTarget`: the target whole, and none of the pages taken off the surface |
| `TerminalStatuses` | `Spec => SettledIsFinal` |
| `DraftsSurvive` | `Spec => DraftsSurviveRollback` |
| `LedgerRefinement` | `Spec => ImplementsLedger` |
| `OrderedCapture` | `HistorySpec => []CaptureIsOrdered` |

None of the invariants but the type invariant is inductive. That a LIVE row owns its
revision depends on what the handler that wrote the row had in its local variables;
that a failed publish has no revision depends on where its handler was when it
failed. The inductive invariant `IInv` therefore adds

* `RequestsOK`: for each value of `pc`, what the handler knows: its row exists and is
  active, the row's rollback target is the handler's, no revision is linked to it
  before the commit, its own is after it; a restore past its read of the pages has
  the target's content in its variables and none of the pages it unpublishes;
* `OwnersDistinct`: two handlers never work on one row, which holds because each
  creates its own;
* `RevisionsOK`: a revision belongs to a row and agrees with it on the target.

`InitIInv` is the base. The step is split by what an action disturbs: `LocalStep`
(only one handler's variables and no table), used by `StartInv` and
`LocalHandlerInv`; `EditorInv`, with `EditorTouches` for what an editor does to the handlers
(a page that is deleted for good is no longer among those a restore will unpublish);
`CreateInv` (a row is appended); `SettleInv` (a row ends); `CommitInv` (a revision is
appended: the only step that has to re-establish `HistoryIsLinear` and
`RollbackRestoresTarget`). `SnapshotType`, `RestoredRowsType`
and `RowUpdates` type the table operators. `NextIInv` combines them, `Invariance`
is the temporal step, and each theorem follows from `IInv`. `TerminalStatuses` uses
`SettledStep`: the only actions that change an existing row are those of a handler
whose row is active by `RequestsOK`. `DraftsSurvive` uses `CommitKeepsDrafts`: only a
commit lengthens the history (`OnlyCommitsRecord`), and what it writes is `RestoredRows`.

`OrderedCapture` is about what was published in the past, so it needs the history
variable. `HistoryOK` adds to `IInv` that the last surface seen is the present one
(`SeenOK`) and that a handler between its reads and its commit holds pages that were seen,
then pages and settings that were seen in this order (`CaptureOK`). `SeenGrows` says that
a surface once seen keeps its place; `OnlyReadsCapture`, that a handler comes to hold a
capture by its own two reads. A restore writes a revision too, but one that names its
target, which the property excludes: that is where `RequestsOK` is used.

`LedgerRefinement` maps the two tables to the ledger's variables (`EventsOf`,
`HistoryOf`). `OpenStep`, `RecordStep` and `EndStep` show that the three kinds of action
that change a table are an `Open`, a `Record` and a `Succeed` or `Fail`; the guards of
the ledger come from `RequestsOK` (the row is open, nothing is recorded for it yet, its
own revision is recorded when it completes). `LedgerStep` adds that every other action
is a stutter.

### Host resolution

`HostCacheProofs` proves `TypeCorrect` (`Spec => []TypeOK`) and `StaleCopiesExplained`
(`Spec => []StaleCopyHasCause`) for every set of sites and processes, from
`NoneAssumption`. `StaleCopyHasCause` is not inductive: a lookup may store tomorrow what
it has read today. The inductive invariant adds `LookupsHaveCause`, the same statement
about the value each lookup carries between its read and its SET.

### Billing

`StripeBillingProofs` proves, for every set of handlers and every bound, from
`BoundsAssumption`:

| Theorem | Statement |
| --- | --- |
| `TypeCorrect` | `Spec => []TypeOK` |
| `NothingLost` | `Spec => []NothingIsLostSilently` |
| `EndIsFinal` | `Spec => []LifeOK` |
| `PayingServed` | `Spec => []PayingIsServed` |
| `SchedulesTracked` | `Spec => []ScheduleOK` |
| `SchedulesKnown` | `Spec => []ScheduleIsKnown` |
| `LatestIsUnderway` | `Spec => []FreshOK` |
| `RowsFollow` | `Spec => []RowFollowsStripe` |

The invariant that is inductive has two further parts:

* `TablesOK`: only announced events have receipts, only those with a receipt are
  acknowledged, a processed one was applied, and announced events, schedules and linked
  rows mean that the subscription exists at Stripe;
* `HandlersOK`: what a handler holds at each statement: the event it processes is
  announced, the state it will write is in the log, the row it read exists, and at
  `mark` the event was applied.

A handler keeps these facts while others move because nothing they rely on is taken
back (`Grows`). `StepInv` turns that into the one lemma every action is proved with;
`HandlerStepInv`, `WritingStepInv` and `EndingStepInv` are its forms for an action that
writes no table, that writes some, and that ends its handler's job. The lemmas
`...Typed` type the updates of a handler's record.

The three properties of the quiet system say nothing while something is under way, so none
of them is inductive. Two follow from an invariant that says where the thing they ask for
is in the meantime, proved on top of `IInv` and of the ones before it:

* `LifeOK`: an ended subscription has no later state, no active schedule
  and, before its end, no row that says CANCELED;
* `ScheduleOK` (`SchedulesKnown`): unless a cause was recorded, an active schedule is on a
  linked row, or the request that created it is at the statement that records it. What
  keeps it there is that a linked row stays linked (`LinkedStays`) and that whatever else
  takes the pending change off a row while its schedule is active is one of the causes;
* `FreshOK` (`RowsFollow`): unless a cause was recorded, every linked row shows the state
  of the log it claims, and the latest state is in a row, in an event that is still to be
  delivered for the first time, or carried by a handler that will write it. When all is
  quiet only the first is left.

`PayingServed` follows from `LifeOK` and `RowFollowsStripe`: without a cause the row is ACTIVE
as Stripe says; with one, a linked row may say INACTIVE or PAST_DUE but not CANCELED, and an
INACTIVE or unlinked one is refreshed.

The history variables `outdated` and `mislaid` are set by the interleavings the properties
name, and the proofs show that the list is complete: no other step of any number of
handlers puts a row behind Stripe.

### Approvals

`BillingApprovalsProofs` proves, for every set of operators and calls and for every bound,
from `NobodyAssumption` (the absent approver is no operator) and `BoundsAssumption`:

| Theorem | Statement |
| --- | --- |
| `TypeCorrect` | `Spec => []TypeOK` |
| `OtherOperator` | `Spec => []FourEyes` |
| `RefundOnce` | `Spec => []RefundedOnce` |
| `ExecutedTruth` | `Spec => []ExecutedIsTrue` |
| `EffectsApproved` | `Spec => []EffectsAreApproved` |

`ExecutedIsTrue` speaks of the row, but what makes it true happens between two statements
of a call. `HandlersOK` adds what a call knows of its request: its operator passed the
check; one that approves is not who asked; past the action, the action took effect.
`RevocationsOK` says that a revocation names an override that exists. Calls keep what they
know while others move because nothing of it is taken back: requests keep kind and author,
a trail, a refund and a revocation stay (`Grows`, `EffectStays`). `StepInv` turns this into
the lemma that all actions are proved with, and `RequestStepInv`, `WriteInv` and
`CarryOutInv` are its forms for a step on one request, a write of its row, and an action
that is carried out. `EffectsApproved` needs no further invariant: `EffectStep` names the
three steps that make an effect, each by a call whose operator is not the author by
`HandlersOK`, and `BackingStays` says that what backs an effect is never taken back.

### Custom domains

`DomainVerificationProofs` proves, for every set of verifications, from
`MaxFaultsAssumption` and `NoneAssumption` (no row is the absent row):

| Theorem | Statement |
| --- | --- |
| `TypeCorrect` | `Spec => []TypeOK` |
| `Earned` | `Spec => []ActiveIsEarned` |
| `Refinement` | `Spec => ImplementsHolder` |

`ActiveIsEarned` speaks of the row; a verification may be about to write ACTIVE to it, so
the inductive invariant adds `ChecksOK`: a verification whose row is still there has a row
to write to, and one that found the host live has marked that row as earned. For the
refinement, `Appears` shows that a row never appears ACTIVE, since a verification of a
removed row writes nothing; what is left of a step is to claim the host, to release it, to
switch the claim, or to leave it alone (`HolderStep`).

### Site and workspace deletion

`SiteErasureProofs` proves, for every set of sites, requests, runners and translations and
for any number of kinds of linked rows, from `SitesAssumption` (there is a site),
`WorkspaceAssumption` (the workspace is no site), `StepsAssumption` and `BoundsAssumption`:

| Theorem | Statement |
| --- | --- |
| `TypeCorrect` | `Spec => []TypeOK` |
| `ExclusiveClaims` | `Spec => []ClaimsAreExclusive` |
| `CompletedJobs` | `Spec => []CompletedMeansErased` |
| `WorkspaceErasure` | `Spec => []NothingOutlivesWorkspace` |
| `NoOrphans` | `Spec => []NothingOrphaned` |
| `FinalErasure` | `Spec => ErasureIsFinal` |

The properties speak of the tables, and a runner writes COMPLETED on the strength of what it
read and did several statements earlier, while others write. The inductive invariant has,
besides `TypeOK` and `ClaimsAreExclusive`,

* `RunnersOK`: what each run knows of its job: the job is no longer QUEUED, which is why no
  second runner can claim it; a site it did not find, or whose row it has removed, is
  erased; past its sweep the job is marked as swept; at `ws_complete` the tenant is gone;
* `LooseOK`, which carries the proof: no loose row has outlived a sweep that covers it.
  A row written later has that sweep in its `after`, a row written before was deleted;
* `SitesOK`: with an erased site its linked rows are gone, and some job had swept it;
* `WorkspaceOK`: the same of the workspace, its sites and their jobs;
* `CompletedOK`: a COMPLETED job has swept, and its site or tenant is erased.

Nothing in it says that linked rows stay deleted after steps 1 to 9, which is false: what
removes the rows added since is the cascade of `EraseSite` and `EraseWorkspace`, and the
foreign key keeps new ones out after it. A run that did not find the row sweeps and
completes its job all the same; that it tells the truth about linked rows is `SitesOK`.
The facts are stable because what is erased stays erased and no job is queued or unswept
again (`RunnerStepInv`): a restore that was read before the erasure updates no row.
`Consequences` gives the properties from the invariant. `ErasedStays` and `UnattendedStays`
turn it into the step of `FinalErasure`: a translation can only find a site that is there.

### Inquiry delivery

`FormDeliveryProofs` proves, from `SetsAssumption` (finitely many processes and targets)
and `SettingsAssumption`:

| Theorem | Statement |
| --- | --- |
| `TypeCorrect` | `Spec => []TypeOK` |
| `AttemptsCovered` | `Spec => []AttemptsCoverSends` |
| `InquiriesRouted` | `Spec => []InquiriesAreRouted` |
| `ExcessExplained` | `OneProcess` gives `Spec => []ExcessIsExplained` |
| `AlertTellsTruth` | `OneProcess` gives `Spec => []AlertTellsFailures` |
| `SettledRowsStay` | `OneProcess` gives `Spec => SettledStays` |

For the first three the proof reaches what TLC does not: any number of processes, which may take a row
from each other without end. `AttemptsCoverSends` becomes inductive by counting the
processes that have locked the row and not sent yet (`AttemptsOK`): each of them has
counted an attempt of its own, so sent messages and sends to come together do not
exceed `attempts`. `InquiryOK` says, for each statement of the queueing handler, which
targets and rows exist; a row's submission and target never change (`RunsOK` and
`ReplayOK` keep what runs and replays hold within the table).

The last three are true of one process only, as the module says where it states them, and
their hypothesis is just that (`OneProcess`: `Workers` has one element). Inquiries, targets,
replays and faults remain unbounded.

* `AlertOK`: between two runs the alert is right; a run that is about to write it has read
  what is still so when it writes. Nothing but the run's own steps makes a row FAILED, and
  a replay between its query and its write only takes failures away (`AlertKept`).
* `ExcessOK`: every row is within its bounds (`Spent`), and every row that is still to be
  sent and that the run does not hold can be tried once more without leaving them
  (`Spare`). A row is held from the counting of its attempt to the write of its outcome,
  and its local `attempt` is then the row's; rows that wait in the batch that was read are
  all still open (`BatchOpen`), since a replay leaves an open row open. That last part is
  why no run takes up a settled row, which is `SettledNext`.

### SEO crawl

`SeoCrawlProofs` proves, for every site, plan and number of pages in flight, from
`SiteAssumption` (the start and all links are addresses, the links of a page are
deduplicated) and `OptionsAssumption` (positive limit and concurrency):

| Theorem | Statement |
| --- | --- |
| `TypeCorrect` | `Spec => []TypeOK` |
| `Budget` | `Spec => []WithinBudget` |
| `Exhaustive` | `Spec => []CrawlIsExhaustive` |
| `Drains` | `Spec => []EngineIsDrained` |
| `ResultRows` | `Spec => []ResultsAreStored` |
| `CancelStops` | `Spec => CancelStopsFetching` |
| `VerdictStands` | `Spec => VerdictIsFinal` |

* `EngineOK`: the visited set is finite and within the limit, what is queued is visited,
  neither recorded nor in flight, and queued once;
* `TasksOK`: a page is recorded after its fetch and before its insert;
* `ExploredOK`: until it is cancelled the engine forgets nothing: a visited page is
  recorded, in flight or queued, and a recorded page that has left has followed its links
  or found the limit used up. With `EngineIsDrained` this gives `CrawlIsExhaustive`;
* `RowsOK`: without faults the result row of a recorded page is stored, in the buffer, or
  in a batch some page is inserting. The last flush empties the second, `EngineIsDrained`
  the third;
* `EndOK`: a runner that has ended left a job that is over.

The list of links a page queues is characterised by `FreshFacts` (distinct, unvisited,
no longer than the room left, and shorter only if it has all), from lemmas about
sequences and the sets of their elements. `LeaveInv` is the one step that visits pages,
shared by a page without rows to insert and by one whose batch is in.

### Only model-checked

* Liveness everywhere (`SettlesUnlessOrphaned`, `JobsSettle`, `DeliveriesSettle`,
  `JobSettles`, `CopiesConverge`, `AlertCatchesUp`, `LiveIsFound`): out of the prover's
  reach.

## Modelling decisions

* One action per awaited statement. Two synchronous statements with no `await`
  between them are one action.
* PostgreSQL at READ COMMITTED: each statement reads what is committed when it
  runs; a row written by an open transaction is locked. `Site.publishedRevision` is
  incremented by the statement before the insert and its row stays locked until the
  commit, so increment, insert and commit are one step (`WriteRevision`).
* A read and the write that follows it in an editor's handler are merged where no
  modelled property tells a stale read from a fresh one; the writes of a restore are
  one step (`RestoreWrite`), their locks are taken together.
* A commit whose acknowledgement is lost is not modelled: a transaction either
  commits and its caller goes on, or aborts and its caller sees the error. A crash
  right after the commit is.
* In `SiteErasure`, `ACTIVE` stands for every status but ARCHIVED. A step's work is merged with
  the updates of the job row around it, and the two or three `deleteMany` of one
  `Promise.all` with each other. The runtime cache step, the optional deletion of the owner's
  account (step 6 of a tenant) and the audit records are left out; the reads of members and
  preferences are merged with the notifications they lead to, which may therefore come at
  any time after the workspace has gone. Usage and the deletions' own notifications stand for
  every writer of loose rows: audit tasks, archive and restore, onboarding and preferences
  write rows without a foreign key in the same way. A translation is followed from its last
  update of a linked row on.
* In `PublishPipeline` a page is known by its slug and locale. The restore unpublishes by id,
  so a page that is deleted for good leaves its list, and one created again is not on it.
* In `FormDelivery` the runs have one process. With two, each can find the row of
  the other ripe and lock it again without end, so `attempts` has no bound and the
  state space is infinite; the module itself takes any number of processes, and
  `AttemptsCoverSends` is the property that does not depend on it.
* `SeoCrawl` follows one job. Two crawls of a site share no row but the check in
  `startCrawl`, which two requests can pass together. The depth of an address is the
  one the engine records (its check of the host is part of the site map's links), which is not the length of a shortest path when several
  pages are in flight.
* `HostCache` has no time: a copy may expire at any moment and, under fairness, does. A
  hit changes nothing and is no action. It follows one host: the lookup of a companion host
  (with or without `www.`) is left out. `bustHostCache` reads the hosts of the site before
  it deletes keys (`domains.service.ts:748-775`); if that read fails no key is deleted, which
  for Upstash is the model's death of a process before its DEL and no cause of its own.
* In `BillingApprovals` the status of a refund in Stripe's answer (pending, failed) is not
  looked at, as in the code. The module leaves out who may do what: every operator has the permission to ask
  and to approve. A request may be refused by Stripe or be about another tenant's
  invoice, whatever it says.
* `DomainVerification` leaves intervals to time as well: the batch may take a row up
  whenever its status is one it lists. `add` and `setPrimary` start a verification with
  `void` and no catch; an error there ends the process, which is `Die`.
* `TakeUp` is fair, which assumes that the batch, 25 rows by `updatedAt`, reaches every row it
  lists: each verdict updates its row, so the others move forward.
* `StripeBilling` follows one checkout and one subscription with two plans, which the code
  takes from `metadata.planKey` before it looks at the price (1958-1996). The exits that write
  nothing because no tenant is found (1122-1127, 1264-1280) cannot be taken for the tenant
  that is modelled. `Schedule` is the creation of a schedule (545) and the update of its
  phases (550): one without phases lowers nothing. The grace period has no length. Two
  deliveries of an event at once are one after the other: the second fails on the unique
  key and is repeated. A sync merges Stripe's answer with the read that starts it, and
  a call that changes the plan announces the new state before its own answer is
  written.
* `faults` and `MaxIncidents` bound how many things go wrong, never which or where.

## Disagreements found

Four are runs that TLC must find violated; details and quotes are in `findings`.

* `capture_atomic`: `captureSnapshot` "atomically captures" pages and settings with
  two READ COMMITTED reads.
* `form_replay`: a replay can put a row back that was delivered after it was read.
* `site_restore_race`: a site restored while its deletion job waits is erased while
  active.
* `crawl_rows`: "persistence errors are surfaced via the runner's own try/catch". The
  engine drops them, and issue or link buffers that fill before the result buffer are
  rejected by their foreign key: the crawl is COMPLETED without those rows.

Others are built into properties that hold.

`site-published-revisions.service.ts:250-252` says of a rollback's unpublishing: "This keeps
the published surface exactly equal to the snapshot." A page published or created between
the read of the published pages (253) and the snapshot of the restored state (413) is not
unpublished: it stays up, and the new revision records it. `RollbackRestoresTarget`
asks for what does hold.

The deletions promise more than they do of rows without a foreign key.
`site-deletion.service.ts:688` calls step 10 the "true-erasure path", and the notification says
"All ... site records were erased" (759); `tenant-deletion.service.ts:715-717` says "Clean
them up before we drop the parent tenant so we do not leak orphaned rows". Rows written after
these steps are left for good: the usage of a translation (`translation.service.ts:539`),
and, of a workspace, what its own deletion and the site runs notify (591, 754). The queue
request of a workspace says of its notification that members "will only see this
notification before the cascade runs" (588-590): the cascade does not reach it.
`CompletedMeansErased` and `NothingOutlivesWorkspace` say which rows these are.

"Wait for SSL issuance to complete" (`domains.service.ts:706`) is what a customer in
SSL_PROVISIONING is told, a status no batch takes up: waiting does not end it, which
`LiveIsFound` excepts.

The runbook (`docs/WEBSITE_RUNTIME_RUNBOOK.md:117`) says to wait for an in-flight deployment or to
cancel it; one whose process died does neither, which is the exception
`SettlesUnlessOrphaned` makes. It says (line 118) that a rollback whose revalidation fails
leaves the database untouched; the restore has committed by then, and the ledger allows a
failed rollback to have recorded its revision. "The original operator cannot self-approve"
(`operator-billing.service.ts:669`), and "Only pending action requests can be rejected"
(line 1031): that holds of the check and not of the write. A rejection by the original
operator that crosses an approval makes a row whose action was carried out end REJECTED,
or EXECUTED with its author as `approverUserId`, which is the exception `FourEyes` makes.

## Not modelled

* Content: HTML, SEO fields, form fields, prices. A version number or a set
  membership stands for them.
* The dedicated Vercel mode of the deployment service; its states live at the
  provider and the shared runtime replaced it.
* `createSite` and subdomain reservation, previews, plan limits, bulk page forms.
* The content of alerts, the spam scan, the readiness report.
* The user interfaces.
* Of a crawl: progress counters, link targets, image findings, robots and sitemap
  audits; their errors are caught on the spot or they run elsewhere.
* Page payloads, previews and the website's data cache: no code deletes a payload key, so
  only the TTLs bound their age. The suspension of a workspace changes what a host lookup
  answers and is left out of `HostCache`.
* Of billing: invoices, the length and extensions of the grace period, a second subscription, entitlement and
  usage checks. Of approvals: the content of the stored invoice, which was read before the
  refund, and the payment event, of which an invoice has one however often it is refunded.
* Of domains: limits of `add`, what the customer is told, a missing
  `WEBSITE_VERCEL_PROJECT_ID` (which leaves the status PENDING), and the alert of a removed
  domain, which stays open (`domains.service.ts:330`).

## Plan

1. Done, most important behaviour first: `PublishPipeline` with its ledger and history;
   `FormDelivery`; `SiteErasure`; `SeoCrawl`; `HostHolder` and `HostCache`;
   `DomainVerification`; `StripeBilling`; `BillingApprovals`; the proofs of each.
   What the passing runs check for safety is proved for every value of the constants.
2. `WorkspaceMembership`: roles, ownership and invitations of a workspace.
3. Abstract specifications of the parts that have none yet, with refinement proofs: the
   erasure of a site (rows, then the site, then the job) for `SiteErasure`, and the two-operator
   rule for `BillingApprovals`.
