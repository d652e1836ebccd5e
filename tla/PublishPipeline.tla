-------------------------- MODULE PublishPipeline --------------------------
(***************************************************************************)
(* The shared-runtime publish pipeline of the API: DeploymentsService      *)
(* (publish, retry, rollback of one site) on top of                        *)
(* SitePublishedRevisionsService (capture and restore of content           *)
(* snapshots), with the editors that change pages and settings meanwhile.  *)
(*                                                                         *)
(* Every `await` of a handler is a point where another request may run, so *)
(* a handler is a chain of actions, one per awaited statement, and req[r]  *)
(* holds what the handler of request r keeps in its local variables.  The  *)
(* database is PostgreSQL at its default READ COMMITTED: each statement    *)
(* reads what is committed at that moment, a row a transaction has written *)
(* is locked until the transaction ends.                                   *)
(***************************************************************************)
EXTENDS Integers, Sequences, FiniteSets

CONSTANTS
  Requests,        \* API requests that may be in flight for the site
  Pages,           \* keys <<slug, locale>> of the site's pages
  LivePages,       \* the pages already published when the site is first used
  FirstSettings,   \* the SiteSettings row by then: 0 without one, else 1
  MaxDeployments,  \* bound: rows of the deployments table
  MaxVersion,      \* bound: versions of page content and settings
  MaxFaults        \* bound: crashes and failed status writes

ASSUME SiteAssumption == LivePages \subseteq Pages /\ FirstSettings \in {0, 1}

ASSUME BoundsAssumption ==
  MaxDeployments \in Nat /\ MaxVersion \in Nat /\ MaxFaults \in Nat

VARIABLES
  rows,               \* the page table: one row per key
  settings,           \* version in the SiteSettings row, NoSettings without one
  version,            \* number of versions written so far
  deployments,        \* the deployments table of the site, by creation order
  revisions,          \* the site_published_revisions table, by creation order
  publishedRevision,  \* Site.publishedRevision
  req,                \* local state of each request's handler
  faults              \* crashes and failed status writes so far

db == <<rows, settings, version>>
ledger == <<revisions, publishedRevision>>
vars == <<rows, settings, version, deployments, revisions, publishedRevision,
          req, faults>>

-----------------------------------------------------------------------------
(* Pages and snapshots.  A version number stands for all the columns a     *)
(* snapshot copies.                                                        *)

NoSettings == 0
NotIncluded == -1

Row == [exists : BOOLEAN, published : BOOLEAN, trashed : BOOLEAN, content : Nat]

NoRow == [exists |-> FALSE, published |-> FALSE, trashed |-> FALSE, content |-> 0]

PageRow(pub, c) ==
  [exists |-> TRUE, published |-> pub, trashed |-> FALSE, content |-> c]

\* where: { siteId, published: true, deletedAt: null }
Visible(table) ==
  {p \in Pages : table[p].exists /\ table[p].published /\ ~table[p].trashed}

\* pageRows.map(...): the content of every published page, by key
PagesSnapshot(table) ==
  [p \in Pages |-> IF p \in Visible(table) THEN table[p].content ELSE NotIncluded]

Snapshot == [Pages -> Nat \cup {NotIncluded}]

EmptySnapshot == [p \in Pages |-> NotIncluded]

\* restoredSlugLocaleKeys: the keys a snapshot includes
Keys(snapshot) == {p \in Pages : snapshot[p] # NotIncluded}

-----------------------------------------------------------------------------
(* Deployment rows.                                                        *)

ActiveStatuses == {"PENDING", "CREATING_PROJECT", "SYNCING_ENV", "DEPLOYING", "RETRYING"}

Statuses == ActiveStatuses \cup {"LIVE", "FAILED"}

\* rollbackOf: metadata.rollbackOfRevision, 0 on a publish.
\* revision:   metadata.publishedRevision, 0 while there is none.
Deployment == [status : Statuses, rollbackOf : Nat, revision : Nat]

\* unpublished: history, the pages its restore took off the surface.
Revision == [revision : Nat, pages : Snapshot, settings : Nat,
             deployment : Nat, rolledBackFrom : Nat, unpublished : SUBSET Pages]

Active == {d \in DOMAIN deployments : deployments[d].status \in ActiveStatuses}

LinkedTo(d) == {i \in DOMAIN revisions : revisions[i].deployment = d}

-----------------------------------------------------------------------------
(* Handlers.                                                               *)

PublishPCs == {"publish_create", "publish_revalidate", "capture_pages",
               "capture_settings", "capture_commit"}

RestorePCs == {"restore_read", "restore_write", "restore_pages",
               "restore_settings", "restore_commit"}

RollbackPCs == {"rollback_create", "rollback_revalidate"} \cup RestorePCs

PCs == {"idle", "complete", "fail"} \cup PublishPCs \cup RollbackPCs

Request == [pc : PCs,
            initial : Statuses,       \* input.initialStatus
            dep : Nat,                \* deployment.id
            target : Nat,             \* targetRevision, 0 on a publish
            unpublish : SUBSET Pages, \* toUnpublishIds: those with a row still
            pages : Snapshot,         \* pageRows, restoredPages
            settings : Nat,           \* settings, restoredSettings
            revision : Nat]           \* snapshot.revision

Idle == [pc |-> "idle", initial |-> "PENDING", dep |-> 0, target |-> 0,
         unpublish |-> {}, pages |-> EmptySnapshot, settings |-> NoSettings,
         revision |-> 0]

Goto(r, label) == req' = [req EXCEPT ![r].pc = label]

-----------------------------------------------------------------------------
(* The restore transaction: rows it has written stay locked, and its       *)
(* writes private, until it commits.                                       *)

InRestoreTx(r) == req[r].pc \in {"restore_pages", "restore_settings", "restore_commit"}

TargetOf(r) == revisions[req[r].target]

LockedPages ==
  UNION {Keys(TargetOf(r).pages) \cup req[r].unpublish :
           r \in {q \in Requests : InRestoreTx(q)}}

SettingsLocked ==
  \E r \in Requests : InRestoreTx(r) /\ TargetOf(r).settings # NoSettings

\* Mutant: the upsert does not reset deletedAt.
RestoredRowsKeepTrash(r) ==
  [p \in Pages |->
     IF p \in Keys(TargetOf(r).pages)
     THEN [PageRow(TRUE, TargetOf(r).pages[p]) EXCEPT !.trashed = rows[p].trashed]
     ELSE IF p \in req[r].unpublish THEN [rows[p] EXCEPT !.published = FALSE]
     ELSE rows[p]]

\* Mutant: pages outside the target are deleted instead of unpublished.
RestoredRowsDelete(r) ==
  [p \in Pages |->
     IF p \in Keys(TargetOf(r).pages) THEN PageRow(TRUE, TargetOf(r).pages[p])
     ELSE IF p \in req[r].unpublish THEN NoRow
     ELSE rows[p]]

\* The page table as the restore transaction of r sees it after its writes:
\* pages of the target upserted, the others it listed unpublished.
RestoredRows(r) ==
  [p \in Pages |->
     IF p \in Keys(TargetOf(r).pages)
     THEN PageRow(TRUE, TargetOf(r).pages[p])
     ELSE IF p \in req[r].unpublish
          THEN [rows[p] EXCEPT !.published = FALSE]
          ELSE rows[p]]

\* if (settings) { upsert }: a snapshot without settings leaves the row alone.
RestoredSettings(r) ==
  IF TargetOf(r).settings # NoSettings THEN TargetOf(r).settings ELSE settings

-----------------------------------------------------------------------------
\* At first a page is live, in the trash or not there.
Init ==
  /\ rows \in [Pages -> {NoRow, PageRow(TRUE, 0), [PageRow(FALSE, 0) EXCEPT !.trashed = TRUE]}]
  /\ LivePages = Visible(rows)
  /\ settings = FirstSettings
  /\ version = 1
  /\ deployments = <<>>
  /\ revisions = <<>>
  /\ publishedRevision = 0
  /\ req = [r \in Requests |-> Idle]
  /\ faults = 0

-----------------------------------------------------------------------------
(* Editors: one SQL statement each, which waits for a locked row.          *)

WriteRow(p, row) ==
  /\ version < MaxVersion
  /\ p \notin LockedPages
  /\ rows' = [rows EXCEPT ![p] = row]
  /\ version' = version + 1
  /\ UNCHANGED <<settings, deployments, revisions, publishedRevision, faults>>

Edit(p, row) == WriteRow(p, row) /\ UNCHANGED req

CreatePage(p, pub) == ~rows[p].exists /\ Edit(p, PageRow(pub, version + 1))

UpdatePage(p) ==
  rows[p].exists /\ Edit(p, [rows[p] EXCEPT !.content = version + 1])

\* publishPage and unpublishPage: neither looks at deletedAt.
SetPublished(p, pub) ==
  /\ rows[p].exists /\ rows[p].published # pub
  /\ Edit(p, [rows[p] EXCEPT !.published = pub])

DeletePage(p) ==
  rows[p].exists /\ Edit(p, [rows[p] EXCEPT !.trashed = TRUE, !.published = FALSE])

RestorePage(p) ==
  rows[p].exists /\ rows[p].trashed /\ Edit(p, [rows[p] EXCEPT !.trashed = FALSE])

\* The id is gone: a page created again under the key is none of those that a
\* restore has listed.
PermanentlyDeletePage(p) ==
  /\ rows[p].exists
  /\ WriteRow(p, NoRow)
  /\ req' = [r \in Requests |-> [req[r] EXCEPT !.unpublish = @ \ {p}]]

UpdateSettings ==
  /\ version < MaxVersion
  /\ ~SettingsLocked
  /\ settings' = version + 1
  /\ version' = version + 1
  /\ UNCHANGED <<rows, deployments, revisions, publishedRevision, req, faults>>

-----------------------------------------------------------------------------
(* Publish and retry: runSharedRuntimePublish.                             *)

\* provisionSite: with an active deployment the handler answers that row
\* and changes nothing.
ProvisionSite(r) ==
  /\ req[r].pc = "idle"
  /\ Active = {}
  /\ Goto(r, "publish_create")
  /\ UNCHANGED <<db, deployments, ledger, faults>>

\* retryDeployment of a FAILED row: a new row, created RETRYING.
RetryDeployment(r, d) ==
  /\ req[r].pc = "idle"
  /\ deployments[d].status = "FAILED"
  /\ Active = {}
  /\ req' = [req EXCEPT ![r].pc = "publish_create", ![r].initial = "RETRYING"]
  /\ UNCHANGED <<db, deployments, ledger, faults>>

\* The row is created before hosts and configuration are looked at: without
\* either the handler goes straight to failDeployment.
CreateDeployment(r, status, usable, next) ==
  /\ Len(deployments) < MaxDeployments
  /\ deployments' = Append(deployments,
       [status |-> status, rollbackOf |-> req[r].target, revision |-> 0])
  /\ req' = [req EXCEPT ![r].pc = IF usable THEN next ELSE "fail",
                        ![r].dep = Len(deployments) + 1]
  /\ UNCHANGED <<db, ledger, faults>>

CreatePublish(r, usable) ==
  /\ req[r].pc = "publish_create"
  /\ CreateDeployment(r, req[r].initial, usable, "publish_revalidate")

\* POST /api/revalidate: a rejected fetch or a status that is not ok throws.
RevalidatePublish(r, ok) ==
  /\ req[r].pc = "publish_revalidate"
  /\ Goto(r, IF ok THEN "capture_pages" ELSE "fail")
  /\ UNCHANGED <<db, deployments, ledger, faults>>

-----------------------------------------------------------------------------
(* captureSnapshot: a transaction whose two reads are two statements.      *)

CapturePages(r) ==
  /\ req[r].pc = "capture_pages"
  /\ req' = [req EXCEPT ![r].pc = "capture_settings", ![r].pages = PagesSnapshot(rows)]
  /\ UNCHANGED <<db, deployments, ledger, faults>>

CaptureSettings(r) ==
  /\ req[r].pc = "capture_settings"
  /\ req' = [req EXCEPT ![r].pc = "capture_commit", ![r].settings = settings]
  /\ UNCHANGED <<db, deployments, ledger, faults>>

\* Mutant: a rollback keeps the number of the revision it restores.
WriteRevisionReusingNumber(r, next) ==
  /\ publishedRevision' = publishedRevision + 1
  /\ revisions' = Append(revisions,
       [revision |-> IF req[r].target # 0 THEN req[r].target ELSE publishedRevision',
        pages |-> req[r].pages, settings |-> req[r].settings,
        deployment |-> req[r].dep, rolledBackFrom |-> req[r].target,
        unpublished |-> req[r].unpublish])
  /\ req' = [req EXCEPT ![r].pc = next, ![r].revision = publishedRevision']

\* Mutant: the counter is decremented.
WriteRevisionDecrementing(r, next) ==
  /\ publishedRevision' = publishedRevision - 1
  /\ UNCHANGED revisions
  /\ req' = [req EXCEPT ![r].pc = next, ![r].revision = publishedRevision']

\* publishedRevision: { increment: 1 } locks the site row until the commit,
\* so increment, insert and commit are one step.
WriteRevision(r, next) ==
  /\ publishedRevision' = publishedRevision + 1
  /\ revisions' = Append(revisions,
       [revision |-> publishedRevision', pages |-> req[r].pages,
        settings |-> req[r].settings, deployment |-> req[r].dep,
        rolledBackFrom |-> req[r].target, unpublished |-> req[r].unpublish])
  /\ req' = [req EXCEPT ![r].pc = next, ![r].revision = publishedRevision']

CaptureCommit(r) ==
  /\ req[r].pc = "capture_commit"
  /\ WriteRevision(r, "complete")
  /\ UNCHANGED <<db, deployments, faults>>

-----------------------------------------------------------------------------
(* Rollback: rollbackSiteDeployment, runSharedRuntimeRollback,             *)
(* executeSharedRuntimeRollback.                                           *)

\* metadata.publishedRevision, or the snapshot linked by deployment id.  The
\* status of the target is not looked at.
RollbackSiteDeployment(r, d) ==
  /\ req[r].pc = "idle"
  /\ Active = {}
  /\ \E n \in (IF deployments[d].revision # 0
               THEN {deployments[d].revision}
               ELSE {revisions[i].revision : i \in LinkedTo(d)}) :
       req' = [req EXCEPT ![r].pc = "rollback_create", ![r].target = n]
  /\ UNCHANGED <<db, deployments, ledger, faults>>

CreateRollback(r, usable) ==
  /\ req[r].pc = "rollback_create"
  /\ CreateDeployment(r, "DEPLOYING", usable, "restore_read")

\* restoreToRevision: what is published now and not in the target ...
RestoreRead(r) ==
  /\ req[r].pc = "restore_read"
  /\ req' = [req EXCEPT ![r].pc = "restore_write",
                        ![r].unpublish = Visible(rows) \ Keys(TargetOf(r).pages)]
  /\ UNCHANGED <<db, deployments, ledger, faults>>

\* ... is unpublished, and the target's pages and settings upserted, once
\* no other transaction holds one of those rows.
RestoreWrite(r) ==
  /\ req[r].pc = "restore_write"
  /\ (Keys(TargetOf(r).pages) \cup req[r].unpublish) \cap LockedPages = {}
  /\ TargetOf(r).settings # NoSettings => ~SettingsLocked
  /\ Goto(r, "restore_pages")
  /\ UNCHANGED <<db, deployments, ledger, faults>>

RestorePages(r) ==
  /\ req[r].pc = "restore_pages"
  /\ req' = [req EXCEPT ![r].pc = "restore_settings",
                        ![r].pages = PagesSnapshot(RestoredRows(r))]
  /\ UNCHANGED <<db, deployments, ledger, faults>>

RestoreSettings(r) ==
  /\ req[r].pc = "restore_settings"
  /\ req' = [req EXCEPT ![r].pc = "restore_commit",
                        ![r].settings = RestoredSettings(r)]
  /\ UNCHANGED <<db, deployments, ledger, faults>>

RestoreCommit(r) ==
  /\ req[r].pc = "restore_commit"
  /\ WriteRevision(r, "rollback_revalidate")
  /\ rows' = RestoredRows(r)
  /\ settings' = RestoredSettings(r)
  /\ UNCHANGED <<version, deployments, faults>>

RevalidateRollback(r, ok) ==
  /\ req[r].pc = "rollback_revalidate"
  /\ Goto(r, IF ok THEN "complete" ELSE "fail")
  /\ UNCHANGED <<db, deployments, ledger, faults>>

\* Mutant: the snapshot is written outside the transaction that fails.
AbortKeepingRevision(r) ==
  /\ req[r].pc = "capture_commit"
  /\ WriteRevision(r, "fail")
  /\ UNCHANGED <<db, deployments, faults>>

\* A statement of either transaction fails (timeout, deadlock, connection):
\* nothing of it is written and the handler goes to failDeployment.
AbortTransaction(r) ==
  /\ req[r].pc \in RestorePCs \cup {"capture_pages", "capture_settings", "capture_commit"}
  /\ Goto(r, "fail")
  /\ UNCHANGED <<db, deployments, ledger, faults>>

-----------------------------------------------------------------------------
(* The last write of a handler: updateDeployment or failDeployment.        *)

SettleDeployment(r, status, revision) ==
  /\ deployments' = [deployments EXCEPT
       ![req[r].dep] = [@ EXCEPT !.status = status, !.revision = revision]]
  /\ req' = [req EXCEPT ![r] = Idle]
  /\ UNCHANGED <<db, ledger, faults>>

\* Mutant: the metadata takes the site's current revision.
CompleteWithSiteRevision(r) ==
  req[r].pc = "complete" /\ SettleDeployment(r, "LIVE", publishedRevision)

\* Mutant: events of a site are completed one after the other.
CompleteWhenAlone(r) ==
  /\ req[r].pc = "complete" /\ Active = {req[r].dep}
  /\ SettleDeployment(r, "LIVE", req[r].revision)

CompleteDeployment(r) ==
  req[r].pc = "complete" /\ SettleDeployment(r, "LIVE", req[r].revision)

FailDeployment(r) ==
  req[r].pc = "fail" /\ SettleDeployment(r, "FAILED", 0)

\* The process dies, or the last write itself is rejected: the promise of
\* `return this.updateDeployment(...)` is not awaited inside the try, so no
\* handler catches it.  An open transaction rolls back; the row stays.
Crash(r) ==
  /\ req[r].pc # "idle"
  /\ faults < MaxFaults
  /\ faults' = faults + 1
  /\ req' = [req EXCEPT ![r] = Idle]
  /\ UNCHANGED <<db, deployments, ledger>>

-----------------------------------------------------------------------------
EditorStep ==
  \/ \E p \in Pages, pub \in BOOLEAN : CreatePage(p, pub) \/ SetPublished(p, pub)
  \/ \E p \in Pages : UpdatePage(p) \/ DeletePage(p) \/ RestorePage(p)
                        \/ PermanentlyDeletePage(p)
  \/ UpdateSettings

\* Steps of a handler that has started.
HandlerStep(r) ==
  \/ \E usable \in BOOLEAN : CreatePublish(r, usable) \/ CreateRollback(r, usable)
  \/ \E ok \in BOOLEAN : RevalidatePublish(r, ok) \/ RevalidateRollback(r, ok)
  \/ CapturePages(r) \/ CaptureSettings(r) \/ CaptureCommit(r)
  \/ RestoreRead(r) \/ RestoreWrite(r) \/ RestorePages(r) \/ RestoreSettings(r)
  \/ RestoreCommit(r) \/ AbortTransaction(r)
  \/ CompleteDeployment(r) \/ FailDeployment(r)

StartStep(r) ==
  \/ ProvisionSite(r)
  \/ \E d \in DOMAIN deployments : RetryDeployment(r, d) \/ RollbackSiteDeployment(r, d)

Next ==
  \/ EditorStep
  \/ \E r \in Requests : StartStep(r) \/ HandlerStep(r) \/ Crash(r)

Spec == Init /\ [][Next]_vars

\* A handler that has started is resumed whenever its awaited call answers.
FairSpec == Spec /\ \A r \in Requests : WF_vars(HandlerStep(r))

-----------------------------------------------------------------------------
(* Properties.                                                             *)

\* Every row and every local variable keeps its type.
TypeOK ==
  /\ rows \in [Pages -> Row]
  /\ settings \in Nat
  /\ version \in Nat
  /\ deployments \in Seq(Deployment)
  /\ revisions \in Seq(Revision)
  /\ publishedRevision \in Nat
  /\ req \in [Requests -> Request]
  /\ faults \in Nat

\* The revision numbers of a site are 1, 2, 3, ... in commit order, the last
\* one is Site.publishedRevision, and a rollback names an older revision,
\* whatever publishes and rollbacks run at the same time.
HistoryIsLinear ==
  /\ publishedRevision = Len(revisions)
  /\ \A i \in DOMAIN revisions :
       revisions[i].revision = i /\ revisions[i].rolledBackFrom < i

\* A LIVE deployment carries in its metadata the revision its own request
\* recorded, not one of a request that ran beside it: restoring "rev N" from
\* its row restores what that event published.
LiveOwnsItsRevision ==
  \A d \in DOMAIN deployments :
    deployments[d].status = "LIVE" =>
      /\ deployments[d].revision \in DOMAIN revisions
      /\ revisions[deployments[d].revision].deployment = d
      /\ revisions[deployments[d].revision].rolledBackFrom = deployments[d].rollbackOf

\* A publish that ended FAILED left no revision behind, although its row is
\* written after the snapshot has committed.
NoRevisionForFailedPublish ==
  \A d \in DOMAIN deployments :
    deployments[d].status = "FAILED" /\ deployments[d].rollbackOf = 0 => LinkedTo(d) = {}

\* No event records two revisions, so the lookup by deployment id, which
\* takes the first row it finds, is unambiguous.
OneRevisionPerEvent ==
  \A i, j \in DOMAIN revisions :
    revisions[i].deployment = revisions[j].deployment => i = j

\* "This keeps the published surface exactly equal to the snapshot": not
\* exactly, as pages published after the read are not unpublished.  What a
\* rollback records is every page of the target with the target's content, its
\* settings if it has any, and besides only pages that were not on the surface
\* when the restore looked, or were created again since: although editors and
\* other rollbacks write the same rows while the transaction runs.
RollbackRestoresTarget ==
  \A i \in DOMAIN revisions :
    revisions[i].rolledBackFrom # 0 =>
      LET target == revisions[revisions[i].rolledBackFrom] IN
      /\ \A p \in Keys(target.pages) :
           revisions[i].pages[p] = target.pages[p]
      /\ target.settings # NoSettings => revisions[i].settings = target.settings
      /\ Keys(revisions[i].pages) \cap revisions[i].unpublished = {}

\* A rollback that commits changes the content, the existence or the trash
\* state of no page outside its target: what editors drafted survives it.
DraftsSurviveRollback ==
  [][Len(revisions') > Len(revisions) =>
       \A p \in Pages :
         LET new == revisions'[Len(revisions')] IN
         \/ rows'[p] = rows[p]
         \/ /\ new.rolledBackFrom # 0
            /\ \/ p \in Keys(revisions[new.rolledBackFrom].pages)
               \/ rows'[p] = [rows[p] EXCEPT !.published = FALSE]]_vars

\* LIVE and FAILED are final: a retry, a late answer or another request never
\* rewrites the row of an event that has ended.
SettledIsFinal ==
  [][\A d \in DOMAIN deployments :
       deployments[d].status \notin ActiveStatuses => deployments'[d] = deployments[d]]_vars

\* No handler works on the row any more: it crashed, or its last write failed.
Orphaned(d) == \A r \in Requests : req[r].pc = "idle" \/ req[r].dep # d

\* An active deployment ends LIVE or FAILED as long as its handler lives:
\* no lock, refused revalidation or aborted transaction leaves it in flight.
SettlesUnlessOrphaned ==
  \A d \in 1..MaxDeployments :
    d \in Active ~> d \notin Active \/ Orphaned(d)

\* Requests, SQL statements and faults implement the abstract ledger: each
\* step of the pipeline is a step of it or changes nothing it sees.
Ledger == INSTANCE PublishLedger WITH
  events <- [d \in DOMAIN deployments |->
    [state |-> IF deployments[d].status \in ActiveStatuses THEN "open"
               ELSE IF deployments[d].status = "LIVE" THEN "live" ELSE "failed",
     from |-> deployments[d].rollbackOf,
     revision |-> deployments[d].revision]],
  history <- [n \in DOMAIN revisions |->
    [event |-> revisions[n].deployment, from |-> revisions[n].rolledBackFrom]]

ImplementsLedger == Ledger!Spec

=============================================================================
