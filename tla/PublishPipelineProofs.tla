----------------------- MODULE PublishPipelineProofs -----------------------
(* Proofs about PublishPipeline and PublishHistory, for any number of      *)
(* requests, pages, deployments and faults.                                *)
EXTENDS PublishHistory, SequenceTheorems, TLAPS

\* Handlers that have created their deployment row.
Working(q) == q.pc \notin {"idle", "publish_create", "rollback_create"}

\* Handlers that have a row and have not recorded their revision yet.
Recording == {"publish_revalidate", "capture_pages", "capture_settings",
              "capture_commit"} \cup RestorePCs

\* What the local state of a handler says about the tables.
RequestOK(q) ==
  /\ q.initial \in ActiveStatuses
  /\ q.pc \in {"idle"} \cup PublishPCs => q.target = 0
  /\ q.pc \in RollbackPCs => q.target \in DOMAIN revisions
  /\ Working(q) => /\ q.dep \in DOMAIN deployments
                   /\ deployments[q.dep].status \in ActiveStatuses
                   /\ deployments[q.dep].rollbackOf = q.target
  /\ q.pc \in Recording => LinkedTo(q.dep) = {}
  /\ q.pc \in {"complete", "rollback_revalidate"} =>
       /\ q.revision \in DOMAIN revisions
       /\ revisions[q.revision].deployment = q.dep
  /\ q.pc = "fail" /\ q.target = 0 => LinkedTo(q.dep) = {}
  /\ q.pc \in RestorePCs \ {"restore_read"} =>
       Keys(revisions[q.target].pages) \cap q.unpublish = {}
  /\ q.pc \in {"restore_settings", "restore_commit"} =>
       /\ \A p \in Keys(revisions[q.target].pages) :
            q.pages[p] = revisions[q.target].pages[p]
       /\ Keys(q.pages) \cap q.unpublish = {}
  /\ q.pc = "restore_commit" =>
       (revisions[q.target].settings # NoSettings =>
          q.settings = revisions[q.target].settings)

RequestsOK == \A r \in Requests : RequestOK(req[r])

\* Each row is worked on by one handler.
OwnersDistinct ==
  \A r, s \in Requests :
    Working(req[r]) /\ Working(req[s]) /\ req[r].dep = req[s].dep => r = s

\* A revision belongs to a row and agrees with it on what was rolled back;
\* only a LIVE row names a revision in its metadata.
RevisionsOK ==
  /\ \A i \in DOMAIN revisions :
       /\ revisions[i].deployment \in DOMAIN deployments
       /\ revisions[i].rolledBackFrom = deployments[revisions[i].deployment].rollbackOf
  /\ \A d \in DOMAIN deployments :
       deployments[d].revision # 0 => deployments[d].status = "LIVE"

RowsOK == /\ LiveOwnsItsRevision
          /\ NoRevisionForFailedPublish
          /\ OneRevisionPerEvent
          /\ RevisionsOK

IInv == /\ TypeOK
        /\ HistoryIsLinear
        /\ RequestsOK
        /\ OwnersDistinct
        /\ RowsOK
        /\ RollbackRestoresTarget

-----------------------------------------------------------------------------
\* The initial state satisfies the inductive invariant.
LEMMA InitIInv == Init => IInv
<1> SUFFICES ASSUME Init PROVE IInv
  OBVIOUS
<1>1. TypeOK
  <2>1. rows \in [Pages -> Row]
    <3>1. NoRow \in Row /\ PageRow(TRUE, 0) \in Row
      BY DEF Row, PageRow, NoRow
    <3>2. [PageRow(FALSE, 0) EXCEPT !.trashed = TRUE] \in Row
      BY DEF Row, PageRow
    <3> QED
      BY <3>1, <3>2 DEF Init
  <2>2. settings \in Nat
    BY SiteAssumption DEF Init
  <2>3. Idle \in Request
    BY DEF Idle, Request, PCs, Statuses, ActiveStatuses, EmptySnapshot, Snapshot,
           NotIncluded, NoSettings
  <2>4. req \in [Requests -> Request]
    BY <2>3 DEF Init
  <2> QED
    BY <2>1, <2>2, <2>4 DEF Init, TypeOK
<1>2. HistoryIsLinear
  BY DEF Init, HistoryIsLinear
<1>3. RequestOK(Idle)
  BY DEF RequestOK, Idle, Working, Recording, PublishPCs, RollbackPCs, RestorePCs,
         ActiveStatuses
<1>4. RequestsOK
  BY <1>3 DEF Init, RequestsOK
<1>5. OwnersDistinct
  BY DEF Init, OwnersDistinct, Working, Idle
<1>6. RowsOK /\ RollbackRestoresTarget
  BY DEF Init, RowsOK, LiveOwnsItsRevision, NoRevisionForFailedPublish,
         OneRevisionPerEvent, RevisionsOK, RollbackRestoresTarget
<1> QED
  BY <1>1, <1>2, <1>4, <1>5, <1>6 DEF IInv

\* A step that only moves one handler on, leaving the tables alone, preserves
\* the invariant if the handler's new state fits the tables and its row is
\* the one it had.
LEMMA LocalStep ==
  ASSUME IInv, NEW r \in Requests,
         req' \in [Requests -> Request],
         \A s \in Requests \ {r} : req'[s] = req[s],
         RequestOK(req[r])',
         Working(req'[r]) => Working(req[r]) /\ req'[r].dep = req[r].dep,
         UNCHANGED <<db, deployments, ledger>>,
         faults' \in Nat
  PROVE  IInv'
<1> USE DEF db, ledger
<1>1. TypeOK'
  BY DEF IInv, TypeOK
<1>2. \A s \in Requests \ {r} : RequestOK(req[s])'
  BY DEF IInv, RequestsOK, RequestOK, Working, LinkedTo
<1>3. RequestsOK'
  BY <1>2 DEF RequestsOK
<1>4. OwnersDistinct'
  BY DEF IInv, OwnersDistinct, Working
<1>5. HistoryIsLinear' /\ RowsOK' /\ RollbackRestoresTarget'
  BY DEF IInv, HistoryIsLinear, RowsOK, LiveOwnsItsRevision,
         NoRevisionForFailedPublish, OneRevisionPerEvent, RevisionsOK, LinkedTo,
         RollbackRestoresTarget, Keys
<1> QED
  BY <1>1, <1>3, <1>4, <1>5 DEF IInv

-----------------------------------------------------------------------------
\* Types of what the pages of a site turn into.
LEMMA SnapshotType ==
  ASSUME NEW table \in [Pages -> Row] PROVE PagesSnapshot(table) \in Snapshot
BY DEF PagesSnapshot, Snapshot, Row, NotIncluded

\* After the writes of its transaction a restore sees rows, and among them
\* every page of its target, published with the target's content, and none of
\* those it unpublished.
LEMMA RestoredRowsType ==
  ASSUME TypeOK, NEW r \in Requests, req[r].target \in DOMAIN revisions
  PROVE  /\ RestoredRows(r) \in [Pages -> Row]
         /\ RestoredSettings(r) \in Nat
         /\ \A p \in Keys(TargetOf(r).pages) :
              PagesSnapshot(RestoredRows(r))[p] = TargetOf(r).pages[p]
         /\ Keys(TargetOf(r).pages) \cap req[r].unpublish = {} =>
              Keys(PagesSnapshot(RestoredRows(r))) \cap req[r].unpublish = {}
<1>1. TargetOf(r) \in Revision
  BY DEF TypeOK, TargetOf
<1>2. \A p \in Pages : RestoredRows(r)[p] \in Row
  BY <1>1 DEF TypeOK, RestoredRows, Keys, Revision, Snapshot, PageRow, Row, NotIncluded
<1>3. RestoredRows(r) \in [Pages -> Row]
  BY <1>2 DEF RestoredRows
<1>4. RestoredSettings(r) \in Nat
  BY <1>1 DEF TypeOK, RestoredSettings, Revision
<1>5. ASSUME NEW p \in Keys(TargetOf(r).pages)
      PROVE  PagesSnapshot(RestoredRows(r))[p] = TargetOf(r).pages[p]
  BY DEF PagesSnapshot, RestoredRows, Visible, PageRow, Keys
<1>6. ASSUME Keys(TargetOf(r).pages) \cap req[r].unpublish = {}, NEW p \in req[r].unpublish
      PROVE  p \notin Keys(PagesSnapshot(RestoredRows(r)))
  <2>1. CASE p \notin Pages
    BY <2>1 DEF Keys
  <2>2. CASE p \in Pages
    <3>1. p \notin Keys(TargetOf(r).pages)
      BY <1>6
    <3>2. RestoredRows(r)[p] = [rows[p] EXCEPT !.published = FALSE] /\ rows[p] \in Row
      BY <2>2, <3>1 DEF RestoredRows, TypeOK
    <3>3. ~RestoredRows(r)[p].published
      BY <3>2 DEF Row
    <3> QED
      BY <2>2, <3>3 DEF Visible, PagesSnapshot, Keys
  <2> QED
    BY <2>1, <2>2
<1> QED
  BY <1>3, <1>4, <1>5, <1>6

\* What editors make of a row is a row.
LEMMA RowUpdates ==
  ASSUME NEW row \in Row, NEW pub \in BOOLEAN, NEW c \in Nat
  PROVE  /\ PageRow(pub, c) \in Row
         /\ NoRow \in Row
         /\ [row EXCEPT !.published = pub] \in Row
         /\ [row EXCEPT !.content = c] \in Row
         /\ [row EXCEPT !.trashed = TRUE, !.published = FALSE] \in Row
         /\ [row EXCEPT !.trashed = FALSE] \in Row
BY DEF PageRow, NoRow, Row

\* Two local states that differ in nothing but what is left to unpublish.
SameBut(q, r) ==
  /\ r.pc = q.pc /\ r.initial = q.initial /\ r.dep = q.dep /\ r.target = q.target
  /\ r.pages = q.pages /\ r.settings = q.settings /\ r.revision = q.revision
  /\ r.unpublish \subseteq q.unpublish

\* Editors touch pages and settings only; the permanent deletion of a page is
\* one page less to unpublish.
LEMMA EditorTouches ==
  ASSUME TypeOK, EditorStep
  PROVE  /\ UNCHANGED <<deployments, revisions, publishedRevision, faults>>
         /\ req' \in [Requests -> Request]
         /\ \A r \in Requests : SameBut(req[r], req'[r])
<1>1. req \in [Requests -> Request]
  BY DEF TypeOK
<1>2. CASE UNCHANGED <<deployments, revisions, publishedRevision, req, faults>>
  BY <1>1, <1>2 DEF SameBut
<1>3. ASSUME NEW p \in Pages, PermanentlyDeletePage(p)
      PROVE  /\ UNCHANGED <<deployments, revisions, publishedRevision, faults>>
             /\ req' \in [Requests -> Request]
             /\ \A r \in Requests : SameBut(req[r], req'[r])
  <2>1. req' = [r \in Requests |-> [req[r] EXCEPT !.unpublish = @ \ {p}]]
    BY <1>3 DEF PermanentlyDeletePage
  <2>2. ASSUME NEW r \in Requests
        PROVE  /\ [req[r] EXCEPT !.unpublish = @ \ {p}] \in Request
               /\ SameBut(req[r], [req[r] EXCEPT !.unpublish = @ \ {p}])
    <3>1. req[r] \in Request
      BY <1>1
    <3> QED
      BY <3>1 DEF Request, SameBut
  <2> QED
    BY <1>3, <2>1, <2>2 DEF PermanentlyDeletePage, WriteRow
<1> QED
  BY <1>2, <1>3 DEF EditorStep, CreatePage, SetPublished, UpdatePage, DeletePage, RestorePage,
         UpdateSettings, Edit, WriteRow

LEMMA EditorInv == IInv /\ EditorStep => IInv'
<1> SUFFICES ASSUME IInv, EditorStep PROVE IInv'
  OBVIOUS
<1>1. /\ UNCHANGED <<deployments, revisions, publishedRevision, faults>>
      /\ req' \in [Requests -> Request]
      /\ \A r \in Requests : SameBut(req[r], req'[r])
  BY EditorTouches DEF IInv
<1>2. rows' \in [Pages -> Row] /\ settings' \in Nat /\ version' \in Nat
  <2>1. CASE UpdateSettings
    BY <2>1 DEF UpdateSettings, IInv, TypeOK
  <2>2. ASSUME NEW p \in Pages, NEW row \in Row, WriteRow(p, row)
        PROVE  rows' \in [Pages -> Row] /\ settings' \in Nat /\ version' \in Nat
    BY <2>2 DEF WriteRow, IInv, TypeOK
  <2>3. ASSUME NEW p \in Pages, NEW pub \in BOOLEAN
        PROVE  /\ PageRow(pub, version + 1) \in Row
               /\ [rows[p] EXCEPT !.published = pub] \in Row
               /\ [rows[p] EXCEPT !.content = version + 1] \in Row
               /\ [rows[p] EXCEPT !.trashed = TRUE, !.published = FALSE] \in Row
               /\ [rows[p] EXCEPT !.trashed = FALSE] \in Row
               /\ NoRow \in Row
    <3>1. rows[p] \in Row /\ version + 1 \in Nat
      BY DEF IInv, TypeOK
    <3> QED
      BY <3>1, RowUpdates
  <2>4. ASSUME NEW p \in Pages, NEW pub \in BOOLEAN, CreatePage(p, pub) \/ SetPublished(p, pub)
        PROVE  \E row \in Row : WriteRow(p, row)
    BY <2>3, <2>4 DEF CreatePage, SetPublished, Edit
  <2>5. ASSUME NEW p \in Pages,
               UpdatePage(p) \/ DeletePage(p) \/ RestorePage(p) \/ PermanentlyDeletePage(p)
        PROVE  \E row \in Row : WriteRow(p, row)
    BY <2>3, <2>5 DEF UpdatePage, DeletePage, RestorePage, PermanentlyDeletePage, Edit
  <2> QED
    BY <2>1, <2>2, <2>4, <2>5 DEF EditorStep
<1>3. TypeOK'
  BY <1>1, <1>2 DEF IInv, TypeOK
<1>4. RequestsOK'
  <2>1. ASSUME NEW r \in Requests PROVE RequestOK(req[r])'
    <3>1. RequestOK(req[r]) /\ SameBut(req[r], req'[r])
      BY <1>1 DEF IInv, RequestsOK
    <3> QED
      BY <1>1, <3>1 DEF RequestOK, SameBut, Working, LinkedTo, Keys
  <2> QED
    BY <2>1 DEF RequestsOK
<1>6. OwnersDistinct'
  BY <1>1 DEF IInv, Working, OwnersDistinct, SameBut
<1>5. HistoryIsLinear' /\ RowsOK' /\ RollbackRestoresTarget'
  BY <1>1 DEF IInv, HistoryIsLinear, RowsOK, LiveOwnsItsRevision,
         NoRevisionForFailedPublish, OneRevisionPerEvent, RevisionsOK, LinkedTo,
         RollbackRestoresTarget, Keys
<1> QED
  BY <1>3, <1>4, <1>5, <1>6 DEF IInv

\* Crashes and the steps that start a handler.
LEMMA StartInv ==
  ASSUME IInv, NEW r \in Requests, StartStep(r) \/ Crash(r) PROVE IInv'
<1> USE DEF PublishPCs, RollbackPCs, RestorePCs
<1>1. TypeOK /\ req[r] \in Request /\ RequestOK(req[r]) /\ faults \in Nat
  BY DEF IInv, TypeOK, RequestsOK
<1>2. UNCHANGED <<db, deployments, ledger>> /\ faults' \in Nat
  BY <1>1 DEF StartStep, Crash, ProvisionSite, RetryDeployment, RollbackSiteDeployment
<1>3. \A s \in Requests \ {r} : req'[s] = req[s]
  BY <1>1 DEF StartStep, Crash, ProvisionSite, RetryDeployment, RollbackSiteDeployment,
              Goto, TypeOK
<1>4. CASE Crash(r)
  <2>1. Idle \in Request
    BY DEF Idle, Request, PCs, Statuses, ActiveStatuses, EmptySnapshot, Snapshot,
           NotIncluded, NoSettings
  <2>2. req' \in [Requests -> Request] /\ req'[r] = Idle
    BY <1>1, <1>4, <2>1 DEF Crash, TypeOK
  <2>3. RequestOK(req[r])' /\ ~Working(req'[r])
    BY <2>2 DEF RequestOK, Working, Idle, Recording, ActiveStatuses
  <2> QED
    BY <1>2, <1>3, <2>2, <2>3, LocalStep
<1>5. CASE ProvisionSite(r)
  <2>1. req' \in [Requests -> Request] /\ req'[r] = [req[r] EXCEPT !.pc = "publish_create"]
    BY <1>1, <1>5 DEF ProvisionSite, Goto, Request, PCs, TypeOK
  <2>2. RequestOK(req[r])' /\ ~Working(req'[r])
    BY <1>1, <1>5, <2>1 DEF ProvisionSite, RequestOK, Working, Recording, Request
  <2> QED
    BY <1>2, <1>3, <2>1, <2>2, LocalStep
<1>6. ASSUME NEW d \in DOMAIN deployments, RetryDeployment(r, d) PROVE IInv'
  <2>1. req' \in [Requests -> Request]
        /\ req'[r] = [req[r] EXCEPT !.pc = "publish_create", !.initial = "RETRYING"]
    BY <1>1, <1>6 DEF RetryDeployment, Request, PCs, Statuses, ActiveStatuses, TypeOK
  <2>2. RequestOK(req[r])' /\ ~Working(req'[r])
    BY <1>1, <1>6, <2>1
       DEF RetryDeployment, RequestOK, Working, Recording, Request, ActiveStatuses
  <2> QED
    BY <1>2, <1>3, <2>1, <2>2, LocalStep
<1>7. ASSUME NEW d \in DOMAIN deployments, RollbackSiteDeployment(r, d) PROVE IInv'
  <2>1. PICK n : /\ n \in (IF deployments[d].revision # 0
                           THEN {deployments[d].revision}
                           ELSE {revisions[i].revision : i \in LinkedTo(d)})
                 /\ req' = [req EXCEPT ![r].pc = "rollback_create", ![r].target = n]
    BY <1>7 DEF RollbackSiteDeployment
  <2>2. n \in DOMAIN revisions /\ n \in Nat
    <3>1. revisions \in Seq(Revision) /\ deployments \in Seq(Deployment)
      BY <1>1 DEF TypeOK
    <3>2. CASE deployments[d].revision # 0
      BY <2>1, <3>1, <3>2 DEF IInv, RowsOK, LiveOwnsItsRevision, RevisionsOK
    <3>3. CASE deployments[d].revision = 0
      BY <2>1, <3>1, <3>3 DEF IInv, HistoryIsLinear, LinkedTo
    <3> QED
      BY <3>2, <3>3
  <2>3. req' \in [Requests -> Request]
        /\ req'[r] = [req[r] EXCEPT !.pc = "rollback_create", !.target = n]
    BY <1>1, <2>1, <2>2 DEF Request, PCs, TypeOK
  <2>4. RequestOK(req[r])' /\ ~Working(req'[r])
    BY <1>1, <1>2, <2>2, <2>3 DEF RequestOK, Working, Recording, Request, ledger
  <2> QED
    BY <1>2, <1>3, <2>3, <2>4, LocalStep
<1> QED
  BY <1>4, <1>5, <1>6, <1>7 DEF StartStep

-----------------------------------------------------------------------------
\* Steps of a handler that leave the tables alone.
LocalHandlerStep(r) ==
  \/ \E ok \in BOOLEAN : RevalidatePublish(r, ok) \/ RevalidateRollback(r, ok)
  \/ CapturePages(r) \/ CaptureSettings(r)
  \/ RestoreRead(r) \/ RestoreWrite(r) \/ RestorePages(r) \/ RestoreSettings(r)
  \/ AbortTransaction(r)

LEMMA LocalHandlerInv ==
  ASSUME IInv, NEW r \in Requests, LocalHandlerStep(r) PROVE IInv'
<1> USE DEF PublishPCs, RollbackPCs, RestorePCs
<1>1. TypeOK /\ req[r] \in Request /\ RequestOK(req[r])
  BY DEF IInv, TypeOK, RequestsOK
<1>2. UNCHANGED <<db, deployments, ledger, faults>> /\ faults' \in Nat
  BY <1>1 DEF LocalHandlerStep, RevalidatePublish, RevalidateRollback, CapturePages,
              CaptureSettings, RestoreRead, RestoreWrite, RestorePages, RestoreSettings,
              AbortTransaction, TypeOK
<1>3. \A s \in Requests \ {r} : req'[s] = req[s]
  BY <1>1 DEF LocalHandlerStep, RevalidatePublish, RevalidateRollback, CapturePages,
              CaptureSettings, RestoreRead, RestoreWrite, RestorePages, RestoreSettings,
              AbortTransaction, Goto, TypeOK
<1>4. ASSUME NEW q \in Request, req' = [req EXCEPT ![r] = q], RequestOK(q),
             Working(req[r]), q.dep = req[r].dep
      PROVE  IInv'
  <2>1. req' \in [Requests -> Request] /\ req'[r] = q
    BY <1>1, <1>4 DEF TypeOK
  <2>2. RequestOK(req[r])'
    BY <1>2, <1>4, <2>1 DEF RequestOK, Working, LinkedTo, ledger
  <2> QED
    BY <1>2, <1>3, <1>4, <2>1, <2>2, LocalStep
<1>5. CASE RestoreRead(r)
  <2> DEFINE q == [req[r] EXCEPT !.pc = "restore_write",
                                 !.unpublish = Visible(rows) \ Keys(TargetOf(r).pages)]
  <2>1. q \in Request /\ req' = [req EXCEPT ![r] = q]
    BY <1>1, <1>5 DEF RestoreRead, Request, PCs, Visible, TypeOK
  <2>2. RequestOK(q) /\ Working(req[r]) /\ q.dep = req[r].dep
    BY <1>1, <1>5 DEF RestoreRead, RequestOK, Working, Recording, Request, TargetOf
  <2> QED
    BY <1>4, <2>1, <2>2
<1>6. CASE CapturePages(r)
  <2> DEFINE q == [req[r] EXCEPT !.pc = "capture_settings", !.pages = PagesSnapshot(rows)]
  <2>1. q \in Request /\ req' = [req EXCEPT ![r] = q]
    BY <1>1, <1>6, SnapshotType DEF CapturePages, Request, PCs, TypeOK
  <2>2. RequestOK(q) /\ Working(req[r]) /\ q.dep = req[r].dep
    BY <1>1, <1>6 DEF CapturePages, RequestOK, Working, Recording, Request
  <2> QED
    BY <1>4, <2>1, <2>2
<1>7. CASE CaptureSettings(r)
  <2> DEFINE q == [req[r] EXCEPT !.pc = "capture_commit", !.settings = settings]
  <2>1. q \in Request /\ req' = [req EXCEPT ![r] = q]
    BY <1>1, <1>7 DEF CaptureSettings, Request, PCs, TypeOK
  <2>2. RequestOK(q) /\ Working(req[r]) /\ q.dep = req[r].dep
    BY <1>1, <1>7 DEF CaptureSettings, RequestOK, Working, Recording, Request
  <2> QED
    BY <1>4, <2>1, <2>2
<1>8. CASE RestorePages(r)
  <2> DEFINE q == [req[r] EXCEPT !.pc = "restore_settings",
                                 !.pages = PagesSnapshot(RestoredRows(r))]
  <2>1. req[r].target \in DOMAIN revisions
    BY <1>1, <1>8 DEF RestorePages, RequestOK
  <2>2. q \in Request /\ req' = [req EXCEPT ![r] = q]
    BY <1>1, <1>8, <2>1, SnapshotType, RestoredRowsType DEF RestorePages, Request, PCs, TypeOK
  <2>3. /\ \A p \in Keys(revisions[req[r].target].pages) :
             q.pages[p] = revisions[req[r].target].pages[p]
        /\ Keys(q.pages) \cap req[r].unpublish = {}
    <3>1. q.pages = PagesSnapshot(RestoredRows(r))
      BY <1>1 DEF Request
    <3>2. Keys(TargetOf(r).pages) \cap req[r].unpublish = {}
      BY <1>1, <1>8 DEF RestorePages, RequestOK, TargetOf
    <3> QED
      BY <1>1, <2>1, <3>1, <3>2, RestoredRowsType DEF TargetOf
  <2>4. RequestOK(q) /\ Working(req[r]) /\ q.dep = req[r].dep
    BY <1>1, <1>8, <2>3 DEF RestorePages, RequestOK, Working, Recording, Request
  <2> QED
    BY <1>4, <2>2, <2>4
<1>9. CASE RestoreSettings(r)
  <2> DEFINE q == [req[r] EXCEPT !.pc = "restore_commit", !.settings = RestoredSettings(r)]
  <2>1. req[r].target \in DOMAIN revisions
    BY <1>1, <1>9 DEF RestoreSettings, RequestOK
  <2>2. q \in Request /\ req' = [req EXCEPT ![r] = q]
    BY <1>1, <1>9, <2>1, RestoredRowsType DEF RestoreSettings, Request, PCs, TypeOK
  <2>3. RequestOK(q) /\ Working(req[r]) /\ q.dep = req[r].dep
    BY <1>1, <1>9 DEF RestoreSettings, RestoredSettings, TargetOf, RequestOK, Working,
                      Recording, Request
  <2> QED
    BY <1>4, <2>2, <2>3
<1>10. ASSUME NEW ok \in BOOLEAN, RevalidatePublish(r, ok) PROVE IInv'
  <2> DEFINE q == [req[r] EXCEPT !.pc = IF ok THEN "capture_pages" ELSE "fail"]
  <2>1. q \in Request /\ req' = [req EXCEPT ![r] = q]
    BY <1>1, <1>10 DEF RevalidatePublish, Goto, Request, PCs, TypeOK
  <2>2. RequestOK(q) /\ Working(req[r]) /\ q.dep = req[r].dep
    BY <1>1, <1>10 DEF RevalidatePublish, RequestOK, Working, Recording, Request
  <2> QED
    BY <1>4, <2>1, <2>2
<1>11. ASSUME NEW ok \in BOOLEAN, RevalidateRollback(r, ok) PROVE IInv'
  <2> DEFINE q == [req[r] EXCEPT !.pc = IF ok THEN "complete" ELSE "fail"]
  <2>1. q \in Request /\ req' = [req EXCEPT ![r] = q]
    BY <1>1, <1>11 DEF RevalidateRollback, Goto, Request, PCs, TypeOK
  <2>2. req[r].target # 0
    BY <1>1, <1>11 DEF RevalidateRollback, RequestOK, TypeOK
  <2>3. RequestOK(q) /\ Working(req[r]) /\ q.dep = req[r].dep
    BY <1>1, <1>11, <2>2 DEF RevalidateRollback, RequestOK, Working, Recording, Request
  <2> QED
    BY <1>4, <2>1, <2>3
<1>12. CASE RestoreWrite(r)
  <2> DEFINE q == [req[r] EXCEPT !.pc = "restore_pages"]
  <2>1. q \in Request /\ req' = [req EXCEPT ![r] = q]
    BY <1>1, <1>12 DEF RestoreWrite, Goto, Request, PCs, TypeOK
  <2>2. RequestOK(q) /\ Working(req[r]) /\ q.dep = req[r].dep
    BY <1>1, <1>12 DEF RestoreWrite, RequestOK, Working, Recording, Request
  <2> QED
    BY <1>4, <2>1, <2>2
<1>13. CASE AbortTransaction(r)
  <2> DEFINE q == [req[r] EXCEPT !.pc = "fail"]
  <2>1. q \in Request /\ req' = [req EXCEPT ![r] = q]
    BY <1>1, <1>13 DEF AbortTransaction, Goto, Request, PCs, TypeOK
  <2>2. RequestOK(q) /\ Working(req[r]) /\ q.dep = req[r].dep
    BY <1>1, <1>13 DEF AbortTransaction, RequestOK, Working, Recording, Request
  <2> QED
    BY <1>4, <2>1, <2>2
<1> QED
  BY <1>5, <1>6, <1>7, <1>8, <1>9, <1>10, <1>11, <1>12, <1>13 DEF LocalHandlerStep

-----------------------------------------------------------------------------
\* A new deployment row is active, has no revision and is its creator's only.
LEMMA CreateInv ==
  ASSUME IInv, NEW r \in Requests, NEW usable \in BOOLEAN,
         CreatePublish(r, usable) \/ CreateRollback(r, usable)
  PROVE  IInv'
<1> DEFINE new == Len(deployments) + 1
<1>1. TypeOK /\ req[r] \in Request /\ RequestOK(req[r]) /\ deployments \in Seq(Deployment)
  BY DEF IInv, TypeOK, RequestsOK
<1>2. PICK status \in ActiveStatuses, next \in {"publish_revalidate", "restore_read"} :
        /\ CreateDeployment(r, status, usable, next)
        /\ next = "publish_revalidate" => req[r].pc = "publish_create"
        /\ next = "restore_read" => req[r].pc = "rollback_create"
  BY <1>1 DEF CreatePublish, CreateRollback, RequestOK, ActiveStatuses
<1> DEFINE q == [req[r] EXCEPT !.pc = IF usable THEN next ELSE "fail", !.dep = new]
           row == [status |-> status, rollbackOf |-> req[r].target, revision |-> 0]
<1>3. UNCHANGED <<db, ledger, faults>> /\ deployments' = Append(deployments, row)
  BY <1>2 DEF CreateDeployment
<1>4. row \in Deployment /\ new \in Nat
  BY <1>1 DEF Deployment, Request, Statuses
<1>5. /\ deployments' \in Seq(Deployment)
      /\ DOMAIN deployments' = DOMAIN deployments \cup {new}
      /\ new \notin DOMAIN deployments
      /\ deployments'[new] = row
      /\ \A d \in DOMAIN deployments : deployments'[d] = deployments[d]
  BY <1>1, <1>3, <1>4
<1>6. q \in Request /\ q.dep = new /\ q.target = req[r].target /\ q.initial = req[r].initial
      /\ q.pc = IF usable THEN next ELSE "fail"
  BY <1>1, <1>4 DEF Request, PCs, PublishPCs, RollbackPCs, RestorePCs
<1>7. /\ req' = [req EXCEPT ![r] = q]
      /\ req' \in [Requests -> Request]
      /\ \A s \in Requests : req'[s] = IF s = r THEN q ELSE req[s]
  <2>1. req' = [req EXCEPT ![r].pc = IF usable THEN next ELSE "fail", ![r].dep = new]
    BY <1>2 DEF CreateDeployment
  <2>2. req \in [Requests -> Request]
    BY <1>1 DEF TypeOK
  <2>3. req' = [req EXCEPT ![r] = q]
    BY <2>1, <2>2
  <2> QED
    BY <2>2, <2>3, <1>6
<1>8. TypeOK'
  BY <1>1, <1>3, <1>5, <1>7 DEF TypeOK, db, ledger
<1>9. \A i \in DOMAIN revisions : revisions[i].deployment # new
  BY <1>5 DEF IInv, RowsOK, RevisionsOK
<1>10. RequestOK(req[r])'
  BY <1>1, <1>2, <1>3, <1>5, <1>6, <1>7, <1>9
     DEF RequestOK, Working, Recording, PublishPCs, RollbackPCs, RestorePCs, LinkedTo, ledger
<1>11. ASSUME NEW s \in Requests \ {r} PROVE RequestOK(req[s])'
  BY <1>3, <1>5, <1>7 DEF IInv, RequestsOK, RequestOK, Working, LinkedTo, ledger
<1>12. OwnersDistinct'
  BY <1>5, <1>6, <1>7 DEF IInv, OwnersDistinct, RequestsOK, RequestOK, Working
<1>13. HistoryIsLinear' /\ RollbackRestoresTarget'
  BY <1>3 DEF IInv, HistoryIsLinear, RollbackRestoresTarget, Keys, ledger
<1>14. RowsOK'
  <2>1. LiveOwnsItsRevision'
    BY <1>2, <1>3, <1>5 DEF IInv, RowsOK, LiveOwnsItsRevision, ledger, ActiveStatuses
  <2>2. NoRevisionForFailedPublish'
    BY <1>2, <1>3, <1>5 DEF IInv, RowsOK, NoRevisionForFailedPublish, LinkedTo, ledger,
                            ActiveStatuses
  <2>3. OneRevisionPerEvent'
    BY <1>3 DEF IInv, RowsOK, OneRevisionPerEvent, ledger
  <2>4. RevisionsOK'
    BY <1>3, <1>5 DEF IInv, RowsOK, RevisionsOK, ledger
  <2> QED
    BY <2>1, <2>2, <2>3, <2>4 DEF RowsOK
<1> QED
  BY <1>8, <1>10, <1>11, <1>12, <1>13, <1>14 DEF IInv, RequestsOK

-----------------------------------------------------------------------------
\* The last write of a handler: LIVE with its revision, or FAILED, which a
\* publish only is when it has recorded none.
LEMMA SettleInv ==
  ASSUME IInv, NEW r \in Requests, CompleteDeployment(r) \/ FailDeployment(r) PROVE IInv'
<1> DEFINE d == req[r].dep
<1>1. TypeOK /\ req[r] \in Request /\ RequestOK(req[r]) /\ deployments \in Seq(Deployment)
  BY DEF IInv, TypeOK, RequestsOK
<1>2. Working(req[r]) /\ d \in DOMAIN deployments /\ deployments[d].rollbackOf = req[r].target
      /\ deployments[d] \in Deployment
  BY <1>1 DEF CompleteDeployment, FailDeployment, RequestOK, Working
<1>3. PICK status \in {"LIVE", "FAILED"}, revision \in Nat :
        /\ SettleDeployment(r, status, revision)
        /\ status = "LIVE" => req[r].pc = "complete" /\ revision = req[r].revision
        /\ status = "FAILED" => req[r].pc = "fail" /\ revision = 0
  BY <1>1 DEF CompleteDeployment, FailDeployment, Request
<1> DEFINE row == [deployments[d] EXCEPT !.status = status, !.revision = revision]
<1>4. /\ row \in Deployment /\ row.status = status /\ row.revision = revision
      /\ row.rollbackOf = req[r].target
  BY <1>2, <1>3 DEF Deployment, Statuses
<1>5. /\ UNCHANGED <<db, ledger, faults>>
      /\ deployments' = [deployments EXCEPT ![d] = row]
      /\ req' = [req EXCEPT ![r] = Idle]
  BY <1>3 DEF SettleDeployment
<1>6. /\ deployments' \in Seq(Deployment)
      /\ DOMAIN deployments' = DOMAIN deployments
      /\ \A e \in DOMAIN deployments : deployments'[e] = IF e = d THEN row ELSE deployments[e]
  BY <1>1, <1>2, <1>4, <1>5
<1>7. Idle \in Request /\ ~Working(Idle)
  BY DEF Idle, Request, PCs, Statuses, ActiveStatuses, EmptySnapshot, Snapshot,
         NotIncluded, NoSettings, Working
<1>8. /\ req' \in [Requests -> Request]
      /\ \A s \in Requests : req'[s] = IF s = r THEN Idle ELSE req[s]
  BY <1>1, <1>5, <1>7 DEF TypeOK
<1>9. TypeOK'
  BY <1>1, <1>5, <1>6, <1>8 DEF TypeOK, db, ledger
<1>10. RequestOK(req[r])'
  BY <1>8 DEF RequestOK, Working, Idle, Recording, PublishPCs, RollbackPCs, RestorePCs,
              ActiveStatuses
<1>11. ASSUME NEW s \in Requests \ {r} PROVE RequestOK(req[s])'
  <2>1. Working(req[s]) => req[s].dep # d
    BY <1>2 DEF IInv, OwnersDistinct
  <2>2. RequestOK(req[s]) /\ req'[s] = req[s]
    BY <1>8 DEF IInv, RequestsOK
  <2> QED
    BY <1>5, <1>6, <2>1, <2>2 DEF RequestOK, Working, LinkedTo, ledger
<1>12. OwnersDistinct'
  BY <1>7, <1>8 DEF IInv, OwnersDistinct, Working
<1>13. HistoryIsLinear' /\ RollbackRestoresTarget'
  BY <1>5 DEF IInv, HistoryIsLinear, RollbackRestoresTarget, Keys, ledger
<1>14. RowsOK'
  <2>1. status = "LIVE" =>
          /\ revision \in DOMAIN revisions /\ revisions[revision].deployment = d
          /\ revisions[revision].rolledBackFrom = req[r].target
    BY <1>1, <1>2, <1>3 DEF IInv, RowsOK, RevisionsOK, RequestOK
  <2>2. LiveOwnsItsRevision'
    BY <1>3, <1>4, <1>5, <1>6, <2>1 DEF IInv, RowsOK, LiveOwnsItsRevision, ledger
  <2>3. status = "FAILED" /\ req[r].target = 0 => LinkedTo(d) = {}
    BY <1>1, <1>3 DEF RequestOK
  <2>4. NoRevisionForFailedPublish'
    BY <1>3, <1>4, <1>5, <1>6, <2>3 DEF IInv, RowsOK, NoRevisionForFailedPublish, LinkedTo, ledger
  <2>5. OneRevisionPerEvent'
    BY <1>5 DEF IInv, RowsOK, OneRevisionPerEvent, ledger
  <2>6. RevisionsOK'
    BY <1>2, <1>3, <1>4, <1>5, <1>6 DEF IInv, RowsOK, RevisionsOK, ledger
  <2> QED
    BY <2>2, <2>4, <2>5, <2>6 DEF RowsOK
<1> QED
  BY <1>9, <1>10, <1>11, <1>12, <1>13, <1>14 DEF IInv, RequestsOK

-----------------------------------------------------------------------------
\* The commit of a capture or a restore appends the next revision, of a row
\* that had none.
LEMMA CommitInv ==
  ASSUME IInv, NEW r \in Requests, CaptureCommit(r) \/ RestoreCommit(r) PROVE IInv'
<1> DEFINE n == Len(revisions) + 1
           d == req[r].dep
           t == req[r].target
           row == [revision |-> n, pages |-> req[r].pages, settings |-> req[r].settings,
                   deployment |-> d, rolledBackFrom |-> t,
                   unpublished |-> req[r].unpublish]
<1>1. TypeOK /\ req[r] \in Request /\ RequestOK(req[r])
      /\ revisions \in Seq(Revision) /\ publishedRevision = Len(revisions)
  BY DEF IInv, TypeOK, RequestsOK, HistoryIsLinear
<1>2. PICK next \in {"complete", "rollback_revalidate"} :
        /\ WriteRevision(r, next)
        /\ next = "complete" => req[r].pc = "capture_commit"
        /\ next = "rollback_revalidate" => req[r].pc = "restore_commit"
  BY DEF CaptureCommit, RestoreCommit
<1> DEFINE q == [req[r] EXCEPT !.pc = next, !.revision = n]
<1>3. Working(req[r]) /\ d \in DOMAIN deployments /\ deployments[d].rollbackOf = t
      /\ LinkedTo(d) = {} /\ deployments[d].status \in ActiveStatuses
  BY <1>1, <1>2 DEF RequestOK, Working, Recording, RestorePCs
<1>4. t = 0 \/ t \in DOMAIN revisions
  BY <1>1, <1>2 DEF RequestOK, PublishPCs, RollbackPCs, RestorePCs
<1>5. revisions' = Append(revisions, row) /\ publishedRevision' = n
  BY <1>1, <1>2 DEF WriteRevision
<1>6. row \in Revision /\ n \in Nat
  BY <1>1 DEF Revision, Request
<1>7. /\ revisions' \in Seq(Revision) /\ Len(revisions') = n
      /\ DOMAIN revisions' = DOMAIN revisions \cup {n} /\ n \notin DOMAIN revisions
      /\ revisions'[n] = row
      /\ \A i \in DOMAIN revisions : revisions'[i] = revisions[i]
  BY <1>1, <1>5, <1>6
<1>8. q \in Request /\ q.pc = next /\ q.dep = d /\ q.target = t /\ q.revision = n
      /\ q.initial = req[r].initial
  BY <1>1, <1>6 DEF Request, PCs, RollbackPCs
<1>9. req' \in [Requests -> Request]
      /\ \A s \in Requests : req'[s] = IF s = r THEN q ELSE req[s]
  <2>1. req' = [req EXCEPT ![r].pc = next, ![r].revision = n]
    BY <1>1, <1>2, <1>5 DEF WriteRevision
  <2>2. req \in [Requests -> Request]
    BY <1>1 DEF TypeOK
  <2>3. req' = [req EXCEPT ![r] = q]
    BY <2>1, <2>2
  <2> QED
    BY <1>8, <2>2, <2>3
<1>10. rows' \in [Pages -> Row] /\ settings' \in Nat
       /\ UNCHANGED <<version, deployments, faults>>
  <2>1. CASE CaptureCommit(r)
    BY <1>1, <2>1 DEF CaptureCommit, db, TypeOK
  <2>2. CASE RestoreCommit(r)
    <3>1. t \in DOMAIN revisions
      BY <1>1, <2>2 DEF RestoreCommit, RequestOK, RollbackPCs, RestorePCs
    <3> QED
      BY <1>1, <2>2, <3>1, RestoredRowsType DEF RestoreCommit
  <2> QED
    BY <2>1, <2>2
<1>11. TypeOK'
  BY <1>1, <1>5, <1>6, <1>7, <1>9, <1>10 DEF TypeOK
<1>12. HistoryIsLinear'
  BY <1>1, <1>4, <1>5, <1>7 DEF IInv, HistoryIsLinear
<1>13. RequestOK(req[r])'
  <2>1. req'[r] = q
    BY <1>9
  <2>2. next = "rollback_revalidate" => t \in DOMAIN revisions'
    BY <1>1, <1>2, <1>7 DEF RequestOK, RollbackPCs, RestorePCs
  <2>3. req[r].initial \in ActiveStatuses
    BY <1>1 DEF RequestOK
  <2>4. n \in DOMAIN revisions' /\ revisions'[n].deployment = d
    BY <1>7
  <2> HIDE DEF q, n, d, t, row
  <2> QED
    BY <1>3, <1>8, <1>10, <2>1, <2>2, <2>3, <2>4
       DEF RequestOK, Working, Recording, PublishPCs, RollbackPCs, RestorePCs
<1>14. ASSUME NEW s \in Requests \ {r} PROVE RequestOK(req[s])'
  <2>1. Working(req[s]) => req[s].dep # d
    BY <1>3 DEF IInv, OwnersDistinct
  <2>2. RequestOK(req[s]) /\ req'[s] = req[s]
    BY <1>9 DEF IInv, RequestsOK
  <2>3. Working(req[s]) => (LinkedTo(req[s].dep) = {} => LinkedTo(req[s].dep)' = {})
    BY <1>7, <2>1, <2>2 DEF LinkedTo
  <2>4. req[s].pc \in Recording \cup {"fail"} => Working(req[s])
    BY DEF Recording, RestorePCs, Working
  <2>5. /\ RestorePCs \ {"restore_read"} \subseteq RollbackPCs
        /\ {"restore_settings", "restore_commit"} \subseteq RollbackPCs
    BY DEF RollbackPCs, RestorePCs
  <2>6. \A i \in DOMAIN revisions : i \in DOMAIN revisions' /\ revisions'[i] = revisions[i]
    BY <1>7
  <2> QED
    BY <1>10, <2>2, <2>3, <2>4, <2>5, <2>6 DEF RequestOK, Working, Keys
<1>15. OwnersDistinct'
  <2>1. \A s \in Requests : req'[s].dep = req[s].dep
                             /\ (Working(req'[s]) => Working(req[s]))
    BY <1>3, <1>8, <1>9
  <2> QED
    BY <2>1 DEF IInv, OwnersDistinct, Working
<1>16. RowsOK'
  <2>1. LiveOwnsItsRevision'
    BY <1>7, <1>10 DEF IInv, RowsOK, LiveOwnsItsRevision
  <2>2. NoRevisionForFailedPublish'
    BY <1>3, <1>7, <1>10
       DEF IInv, RowsOK, NoRevisionForFailedPublish, LinkedTo, ActiveStatuses
  <2>3. OneRevisionPerEvent'
    BY <1>3, <1>7 DEF IInv, RowsOK, OneRevisionPerEvent, LinkedTo
  <2>4. RevisionsOK'
    BY <1>3, <1>7, <1>10 DEF IInv, RowsOK, RevisionsOK
  <2> QED
    BY <2>1, <2>2, <2>3, <2>4 DEF RowsOK
<1>17. RollbackRestoresTarget'
  <2> SUFFICES ASSUME NEW i \in DOMAIN revisions', revisions'[i].rolledBackFrom # 0
               PROVE  LET target == revisions'[revisions'[i].rolledBackFrom] IN
                      /\ \A p \in Keys(target.pages) :
                           revisions'[i].pages[p] = target.pages[p]
                      /\ target.settings # NoSettings =>
                           revisions'[i].settings = target.settings
                      /\ Keys(revisions'[i].pages) \cap revisions'[i].unpublished = {}
    BY DEF RollbackRestoresTarget, Keys
  <2>1. CASE i \in DOMAIN revisions
    <3>1. revisions[i].rolledBackFrom \in DOMAIN revisions
      <4>1. revisions[i] \in Revision /\ revisions[i].rolledBackFrom # 0
        BY <1>1, <1>7, <2>1
      <4>2. revisions[i].rolledBackFrom < i /\ revisions[i].rolledBackFrom \in Nat
        BY <2>1, <4>1 DEF IInv, HistoryIsLinear, Revision
      <4> QED
        BY <1>1, <2>1, <4>1, <4>2
    <3> QED
      BY <1>7, <2>1, <3>1 DEF IInv, RollbackRestoresTarget
  <2>2. CASE i = n
    <3>1. t \in DOMAIN revisions /\ req[r].pc = "restore_commit"
      BY <1>1, <1>2, <1>4, <1>7, <2>2 DEF RequestOK, PublishPCs
    <3> QED
      BY <1>1, <1>7, <2>2, <3>1 DEF RequestOK
  <2> QED
    BY <1>7, <2>1, <2>2
<1> QED
  BY <1>11, <1>12, <1>13, <1>14, <1>15, <1>16, <1>17 DEF IInv, RequestsOK

-----------------------------------------------------------------------------
\* Every step of the pipeline preserves the inductive invariant.
LEMMA NextIInv == IInv /\ [Next]_vars => IInv'
<1> SUFFICES ASSUME IInv, [Next]_vars PROVE IInv'
  OBVIOUS
<1>1. CASE EditorStep
  BY <1>1, EditorInv
<1>2. ASSUME NEW r \in Requests, StartStep(r) \/ Crash(r) PROVE IInv'
  BY <1>2, StartInv
<1>3. ASSUME NEW r \in Requests, HandlerStep(r) PROVE IInv'
  <2>1. CASE LocalHandlerStep(r)
    BY <2>1, LocalHandlerInv
  <2>2. CASE \E usable \in BOOLEAN : CreatePublish(r, usable) \/ CreateRollback(r, usable)
    BY <2>2, CreateInv
  <2>3. CASE CaptureCommit(r) \/ RestoreCommit(r)
    BY <2>3, CommitInv
  <2>4. CASE CompleteDeployment(r) \/ FailDeployment(r)
    BY <2>4, SettleInv
  <2> QED
    BY <1>3, <2>1, <2>2, <2>3, <2>4 DEF HandlerStep, LocalHandlerStep
<1>4. CASE UNCHANGED vars
  BY <1>4 DEF vars, IInv, TypeOK, HistoryIsLinear, RequestsOK, RequestOK, Working,
     OwnersDistinct, RowsOK, LiveOwnsItsRevision, NoRevisionForFailedPublish,
     OneRevisionPerEvent, RevisionsOK, LinkedTo, RollbackRestoresTarget, Keys
<1> QED
  BY <1>1, <1>2, <1>3, <1>4 DEF Next

LEMMA Invariance == Spec => []IInv
<1>1. Init => IInv
  BY InitIInv
<1>2. IInv /\ [Next]_vars => IInv'
  BY NextIInv
<1> QED
  BY <1>1, <1>2, PTL DEF Spec

\* Rows and local variables keep their types.
THEOREM TypeCorrect == Spec => []TypeOK
<1>1. IInv => TypeOK
  BY DEF IInv
<1> QED
  BY <1>1, Invariance, PTL

\* The revision history of a site is linear, however requests interleave.
THEOREM LinearHistory == Spec => []HistoryIsLinear
<1>1. IInv => HistoryIsLinear
  BY DEF IInv
<1> QED
  BY <1>1, Invariance, PTL

\* A LIVE deployment names the revision its own request recorded.
THEOREM LiveRevision == Spec => []LiveOwnsItsRevision
<1>1. IInv => LiveOwnsItsRevision
  BY DEF IInv, RowsOK
<1> QED
  BY <1>1, Invariance, PTL

\* A publish that ended FAILED left no revision.
THEOREM FailedPublish == Spec => []NoRevisionForFailedPublish
<1>1. IInv => NoRevisionForFailedPublish
  BY DEF IInv, RowsOK
<1> QED
  BY <1>1, Invariance, PTL

\* No event left two revisions: the lookup by deployment id is unambiguous.
THEOREM OneRevision == Spec => []OneRevisionPerEvent
<1>1. IInv => OneRevisionPerEvent
  BY DEF IInv, RowsOK
<1> QED
  BY <1>1, Invariance, PTL

\* A rollback records the pages and settings of its target, and of the pages
\* that were on the surface besides none that it found there.
THEOREM RollbackFidelity == Spec => []RollbackRestoresTarget
<1>1. IInv => RollbackRestoresTarget
  BY DEF IInv
<1> QED
  BY <1>1, Invariance, PTL

-----------------------------------------------------------------------------
\* A step leaves every row that has ended as it is.
LEMMA SettledStep ==
  ASSUME IInv, [Next]_vars, NEW d \in DOMAIN deployments,
         deployments[d].status \notin ActiveStatuses
  PROVE  deployments'[d] = deployments[d]
<1>1. CASE UNCHANGED deployments
  BY <1>1
<1>2. ASSUME NEW r \in Requests, NEW status \in Statuses, NEW usable \in BOOLEAN,
             NEW next \in PCs, CreateDeployment(r, status, usable, next)
      PROVE  deployments'[d] = deployments[d]
  <2>1. deployments \in Seq(Deployment) /\ req[r].target \in Nat
    BY DEF IInv, TypeOK, Request
  <2> QED
    BY <1>2, <2>1 DEF CreateDeployment, Deployment
<1>3. ASSUME NEW r \in Requests, CompleteDeployment(r) \/ FailDeployment(r)
      PROVE  deployments'[d] = deployments[d]
  <2>1. req[r].dep # d
    BY <1>3 DEF IInv, RequestsOK, RequestOK, Working, CompleteDeployment, FailDeployment
  <2> QED
    BY <1>3, <2>1 DEF CompleteDeployment, FailDeployment, SettleDeployment
<1>4. ASSUME NEW r \in Requests, NEW usable \in BOOLEAN,
             CreatePublish(r, usable) \/ CreateRollback(r, usable)
      PROVE  deployments'[d] = deployments[d]
  <2>1. req[r].initial \in Statuses /\ "DEPLOYING" \in Statuses
    BY DEF IInv, TypeOK, Request, Statuses, ActiveStatuses
  <2>2. {"publish_revalidate", "restore_read"} \subseteq PCs
    BY DEF PCs, PublishPCs, RollbackPCs, RestorePCs
  <2> QED
    BY <1>2, <1>4, <2>1, <2>2 DEF CreatePublish, CreateRollback
<1>5. CASE EditorStep \/ UNCHANGED vars
  BY <1>1, <1>5 DEF EditorStep, CreatePage, SetPublished, UpdatePage, DeletePage, RestorePage,
         PermanentlyDeletePage, UpdateSettings, Edit, WriteRow, vars
<1>6. ASSUME NEW r \in Requests, StartStep(r) \/ Crash(r) \/ LocalHandlerStep(r)
                                 \/ CaptureCommit(r) \/ RestoreCommit(r)
      PROVE  UNCHANGED deployments
  BY <1>6 DEF StartStep, Crash, ProvisionSite, RetryDeployment, RollbackSiteDeployment,
     LocalHandlerStep, RevalidatePublish, RevalidateRollback, CapturePages, CaptureSettings,
     RestoreRead, RestoreWrite, RestorePages, RestoreSettings, AbortTransaction,
     CaptureCommit, RestoreCommit
<1> QED
  BY <1>1, <1>3, <1>4, <1>5, <1>6 DEF Next, HandlerStep, LocalHandlerStep

\* LIVE and FAILED are final.
THEOREM TerminalStatuses == Spec => SettledIsFinal
<1> DEFINE Final == \A d \in DOMAIN deployments :
             deployments[d].status \notin ActiveStatuses => deployments'[d] = deployments[d]
<1>1. IInv /\ [Next]_vars => Final
  BY SettledStep
<1>2. SettledIsFinal <=> [][Final]_vars
  BY DEF SettledIsFinal
<1>3. IInv /\ [Next]_vars => [Final]_vars
  BY <1>1
<1> QED
  BY <1>2, <1>3, Invariance, PTL DEF Spec

-----------------------------------------------------------------------------
(* The refinement.  Events and History are what the ledger sees of the two *)
(* tables.                                                                 *)

Shown(row) ==
  [state |-> IF row.status \in ActiveStatuses THEN "open"
             ELSE IF row.status = "LIVE" THEN "live" ELSE "failed",
   from |-> row.rollbackOf,
   revision |-> row.revision]

Noted(rev) == [event |-> rev.deployment, from |-> rev.rolledBackFrom]

EventsOf(ds) == [d \in DOMAIN ds |-> Shown(ds[d])]

HistoryOf(revs) == [n \in DOMAIN revs |-> Noted(revs[n])]

Events == EventsOf(deployments)

History == HistoryOf(revisions)

EventRow == [state : {"open", "live", "failed"}, from : Nat, revision : Nat]

Entry == [event : Nat, from : Nat]

\* A function on 1..n is a sequence of length n.
LEMMA FunctionIsSeq ==
  ASSUME NEW S, NEW n \in Nat, NEW f \in [1..n -> S]
  PROVE  f \in Seq(S) /\ Len(f) = n
<1>1. f = [i \in 1..n |-> f[i]]
  OBVIOUS
<1>2. [i \in 1..n |-> f[i]] \in Seq(S)
  OBVIOUS
<1>3. f \in Seq(S)
  BY <1>1, <1>2
<1>4. DOMAIN f = 1..n /\ DOMAIN f = 1..Len(f) /\ Len(f) \in Nat
  BY <1>3, LenProperties
<1> QED
  BY <1>3, <1>4

\* A sequence that is one longer than another and agrees with it is an Append.
LEMMA IsAppend ==
  ASSUME NEW S, NEW s \in Seq(S), NEW e \in S, NEW t \in Seq(S),
         Len(t) = Len(s) + 1, \A i \in 1..Len(s) : t[i] = s[i], t[Len(s) + 1] = e
  PROVE  t = Append(s, e)
<1>1. Append(s, e) \in Seq(S) /\ Len(Append(s, e)) = Len(s) + 1 /\ Len(s) \in Nat
  OBVIOUS
<1>2. \A i \in 1..Len(t) : t[i] = Append(s, e)[i]
  BY <1>1
<1> QED
  BY <1>1, <1>2, SeqEqual

\* Both views are sequences, as long as their tables.
LEMMA EventsType ==
  ASSUME NEW ds \in Seq(Deployment)
  PROVE  EventsOf(ds) \in Seq(EventRow) /\ Len(EventsOf(ds)) = Len(ds)
<1>1. ASSUME NEW d \in DOMAIN ds PROVE Shown(ds[d]) \in EventRow
  <2>1. ds[d] \in Deployment
    OBVIOUS
  <2> QED
    BY <2>1 DEF Shown, EventRow, Deployment
<1>2. DOMAIN ds = 1..Len(ds) /\ Len(ds) \in Nat
  OBVIOUS
<1>3. EventsOf(ds) \in [1..Len(ds) -> EventRow]
  BY <1>1, <1>2 DEF EventsOf
<1> QED
  BY <1>2, <1>3, FunctionIsSeq

LEMMA HistoryType ==
  ASSUME NEW revs \in Seq(Revision)
  PROVE  HistoryOf(revs) \in Seq(Entry) /\ Len(HistoryOf(revs)) = Len(revs)
<1>1. ASSUME NEW n \in DOMAIN revs PROVE Noted(revs[n]) \in Entry
  <2>1. revs[n] \in Revision
    OBVIOUS
  <2> QED
    BY <2>1 DEF Noted, Entry, Revision
<1>2. DOMAIN revs = 1..Len(revs) /\ Len(revs) \in Nat
  OBVIOUS
<1>3. HistoryOf(revs) \in [1..Len(revs) -> Entry]
  BY <1>1, <1>2 DEF HistoryOf
<1> QED
  BY <1>2, <1>3, FunctionIsSeq

\* What the ledger's operators say of the two tables.
LEMMA Seen ==
  ASSUME TypeOK, NEW d \in DOMAIN deployments
  PROVE  /\ Events[d] = Shown(deployments[d])
         /\ Ledger!Recorded(d) = LinkedTo(d)
         /\ Ledger!IsOpen(d) <=> deployments[d].status \in ActiveStatuses
<1>1. Ledger!Recorded(d) = LinkedTo(d)
  BY DEF Ledger!Recorded, LinkedTo
<1>2. Ledger!IsOpen(d) <=> deployments[d].status \in ActiveStatuses
  BY DEF Ledger!IsOpen
<1> QED
  BY <1>1, <1>2 DEF Events, EventsOf

\* Creating a deployment row opens an event.
LEMMA OpenStep ==
  ASSUME IInv, NEW r \in Requests, NEW usable \in BOOLEAN,
         CreatePublish(r, usable) \/ CreateRollback(r, usable)
  PROVE  req[r].target \in 0..Len(History) /\ Ledger!Open(req[r].target)
<1> DEFINE from == req[r].target
           new == Len(deployments) + 1
           event == [state |-> "open", from |-> from, revision |-> 0]
<1>1. TypeOK /\ TypeOK' /\ req[r] \in Request /\ RequestOK(req[r])
      /\ deployments \in Seq(Deployment)
  BY CreateInv DEF IInv, TypeOK, RequestsOK
<1>2. PICK status \in ActiveStatuses :
        /\ deployments' = Append(deployments,
             [status |-> status, rollbackOf |-> from, revision |-> 0])
        /\ UNCHANGED revisions
  BY <1>1 DEF CreatePublish, CreateRollback, CreateDeployment, RequestOK, ActiveStatuses, ledger
<1>3. from \in 0..Len(History)
  <2>1. from = 0 \/ from \in DOMAIN revisions
    BY <1>1 DEF CreatePublish, CreateRollback, RequestOK, PublishPCs, RollbackPCs
  <2>2. DOMAIN revisions = 1..Len(revisions) /\ Len(revisions) \in Nat
    BY <1>1 DEF TypeOK
  <2> QED
    BY <1>1, <2>1, <2>2, HistoryType DEF TypeOK, History
<1>4. event \in EventRow
  BY <1>1 DEF EventRow, Request
<1>5. /\ Len(deployments) \in Nat /\ DOMAIN deployments = 1..Len(deployments)
      /\ DOMAIN deployments' = 1..new
      /\ deployments'[new] = [status |-> status, rollbackOf |-> from, revision |-> 0]
      /\ \A d \in DOMAIN deployments : deployments'[d] = deployments[d]
      /\ Len(deployments') = new
  BY <1>1, <1>2
<1>6. /\ EventsOf(deployments')[new] = event
      /\ \A d \in 1..Len(deployments) : EventsOf(deployments')[d] = EventsOf(deployments)[d]
  <2>1. Shown(deployments'[new]) = event
    BY <1>5 DEF Shown
  <2> QED
    BY <1>5, <2>1 DEF EventsOf
<1>7. EventsOf(deployments') = Append(EventsOf(deployments), event)
  <2>1. /\ EventsOf(deployments) \in Seq(EventRow)
        /\ Len(EventsOf(deployments)) = Len(deployments)
    BY <1>1, EventsType
  <2>2. /\ EventsOf(deployments') \in Seq(EventRow)
        /\ Len(EventsOf(deployments')) = Len(deployments')
    BY <1>1, EventsType DEF TypeOK
  <2> HIDE DEF event
  <2> QED
    BY <1>4, <1>5, <1>6, <2>1, <2>2, IsAppend
<1>8. Ledger!Open(from)
  BY <1>2, <1>7 DEF Ledger!Open, EventsOf, Shown
<1> QED
  BY <1>3, <1>8

\* The commit of a capture or a restore records the event's revision.
LEMMA RecordStep ==
  ASSUME IInv, NEW r \in Requests, CaptureCommit(r) \/ RestoreCommit(r)
  PROVE  req[r].dep \in DOMAIN deployments /\ Ledger!Record(req[r].dep)
<1> DEFINE d == req[r].dep
           n == Len(revisions) + 1
           entry == [event |-> d, from |-> deployments[d].rollbackOf]
<1>1. TypeOK /\ TypeOK' /\ req[r] \in Request /\ RequestOK(req[r])
      /\ deployments \in Seq(Deployment) /\ revisions \in Seq(Revision)
  BY CommitInv DEF IInv, TypeOK, RequestsOK
<1>2. d \in DOMAIN deployments /\ deployments[d].status \in ActiveStatuses
      /\ deployments[d].rollbackOf = req[r].target /\ LinkedTo(d) = {}
  BY <1>1 DEF CaptureCommit, RestoreCommit, RequestOK, Working, Recording, RestorePCs
<1>3. Ledger!IsOpen(d) /\ Ledger!Recorded(d) = {}
  BY <1>1, <1>2, Seen
<1>4. PICK row : /\ revisions' = Append(revisions, row)
                 /\ row.deployment = d /\ row.rolledBackFrom = req[r].target
  BY DEF CaptureCommit, RestoreCommit, WriteRevision
<1>5. UNCHANGED deployments
  BY DEF CaptureCommit, RestoreCommit
<1>6. /\ Len(revisions) \in Nat /\ DOMAIN revisions = 1..Len(revisions)
      /\ DOMAIN revisions' = 1..n /\ Len(revisions') = n
      /\ revisions'[n] = row
      /\ \A i \in DOMAIN revisions : revisions'[i] = revisions[i]
  BY <1>1, <1>4
<1>7. entry \in Entry
  BY <1>1, <1>2 DEF Entry, Request
<1>8. /\ HistoryOf(revisions')[n] = entry
      /\ \A i \in 1..Len(revisions) : HistoryOf(revisions')[i] = HistoryOf(revisions)[i]
  <2>1. Noted(revisions'[n]) = entry
    BY <1>2, <1>4, <1>6 DEF Noted
  <2> QED
    BY <1>6, <2>1 DEF HistoryOf
<1>9. HistoryOf(revisions') = Append(HistoryOf(revisions), entry)
  <2>1. /\ HistoryOf(revisions) \in Seq(Entry)
        /\ Len(HistoryOf(revisions)) = Len(revisions)
    BY <1>1, HistoryType
  <2>2. /\ HistoryOf(revisions') \in Seq(Entry)
        /\ Len(HistoryOf(revisions')) = Len(revisions')
    BY <1>1, HistoryType DEF TypeOK
  <2> HIDE DEF entry
  <2> QED
    BY <1>6, <1>7, <1>8, <2>1, <2>2, IsAppend
<1>10. EventsOf(deployments)[d].from = deployments[d].rollbackOf
  BY <1>2 DEF EventsOf, Shown
<1>11. Ledger!Record(d)
  BY <1>3, <1>5, <1>9, <1>10 DEF Ledger!Record, HistoryOf, Noted, EventsOf, Shown
<1> QED
  BY <1>2, <1>11

\* An open event that succeeds.
LEMMA LiveEvent ==
  ASSUME NEW e \in EventRow, NEW n \in Nat
  PROVE  [state |-> "live", from |-> e.from, revision |-> n] =
           [e EXCEPT !.state = "live", !.revision = n]
<1> DEFINE f == [e EXCEPT !.state = "live", !.revision = n]
<1>1. f \in EventRow /\ f.state = "live" /\ f.from = e.from /\ f.revision = n
  BY DEF EventRow
<1>2. f = [state |-> f.state, from |-> f.from, revision |-> f.revision]
  <2> HIDE DEF f
  <2> QED
    BY <1>1 DEF EventRow
<1> QED
  BY <1>1, <1>2

\* The last write of a handler lets its event succeed with the revision it
\* recorded, or fail.
LEMMA EndStep ==
  ASSUME IInv, NEW r \in Requests, CompleteDeployment(r) \/ FailDeployment(r)
  PROVE  /\ req[r].dep \in DOMAIN deployments
         /\ Ledger!Succeed(req[r].dep) \/ Ledger!Fail(req[r].dep)
<1> DEFINE d == req[r].dep
<1>1. TypeOK /\ req[r] \in Request /\ RequestOK(req[r]) /\ deployments \in Seq(Deployment)
  BY DEF IInv, TypeOK, RequestsOK
<1>2. d \in DOMAIN deployments /\ deployments[d].status \in ActiveStatuses
      /\ deployments[d].rollbackOf = req[r].target /\ deployments[d] \in Deployment
  BY <1>1 DEF CompleteDeployment, FailDeployment, RequestOK, Working
<1>3. Ledger!IsOpen(d) /\ Ledger!Recorded(d) = LinkedTo(d)
      /\ EventsOf(deployments)[d] = Shown(deployments[d])
  BY <1>1, <1>2, Seen DEF Events
<1>4. UNCHANGED revisions
  BY DEF CompleteDeployment, FailDeployment, SettleDeployment, ledger
<1>5. ASSUME NEW status \in Statuses, NEW n, SettleDeployment(r, status, n)
      PROVE  EventsOf(deployments') =
               [EventsOf(deployments) EXCEPT
                  ![d] = Shown([status |-> status, rollbackOf |-> req[r].target, revision |-> n])]
  <2> DEFINE old == deployments[d]
             row == [status |-> status, rollbackOf |-> req[r].target, revision |-> n]
             new == [old EXCEPT !.status = status, !.revision = n]
  <2>1. deployments' = [deployments EXCEPT ![d] = new]
    BY <1>5 DEF SettleDeployment
  <2>2. new.status = status /\ new.rollbackOf = req[r].target /\ new.revision = n
    BY <1>2 DEF Deployment
  <2>3. Shown(new) = Shown(row)
    BY <2>2 DEF Shown
  <2> HIDE DEF new, row
  <2>4. EventsOf(deployments') = [EventsOf(deployments) EXCEPT ![d] = Shown(new)]
    BY <1>2, <2>1 DEF EventsOf
  <2> QED
    BY <2>3, <2>4 DEF row
<1>6. CASE CompleteDeployment(r)
  <2> DEFINE n == req[r].revision
  <2>1. n \in LinkedTo(d)
    BY <1>1, <1>6 DEF CompleteDeployment, RequestOK, LinkedTo
  <2>2. EventsOf(deployments') =
          [EventsOf(deployments) EXCEPT
             ![d] = [state |-> "live", from |-> req[r].target, revision |-> n]]
    BY <1>5, <1>6 DEF CompleteDeployment, Shown, Statuses, ActiveStatuses
  <2>3. [state |-> "live", from |-> req[r].target, revision |-> n] =
          [EventsOf(deployments)[d] EXCEPT !.state = "live", !.revision = n]
    <3>1. EventsOf(deployments)[d] \in EventRow /\ EventsOf(deployments)[d].from = req[r].target
      BY <1>1, <1>2, <1>3 DEF Shown, EventRow, Deployment, Request
    <3>2. n \in Nat
      BY <1>1 DEF Request
    <3> HIDE DEF n
    <3> QED
      BY <3>1, <3>2, LiveEvent
  <2>4. EventsOf(deployments') =
          [EventsOf(deployments) EXCEPT ![d].state = "live", ![d].revision = n]
    BY <2>2, <2>3
  <2>5. Ledger!Succeed(d)
    BY <1>3, <1>4, <2>1, <2>4 DEF Ledger!Succeed, EventsOf, Shown
  <2> QED
    BY <1>2, <2>5
<1>7. CASE FailDeployment(r)
  <2>1. req[r].target = 0 => LinkedTo(d) = {}
    BY <1>1, <1>7 DEF FailDeployment, RequestOK
  <2>2. EventsOf(deployments') =
          [EventsOf(deployments) EXCEPT
             ![d] = [state |-> "failed", from |-> req[r].target, revision |-> 0]]
    BY <1>5, <1>7 DEF FailDeployment, Shown, Statuses, ActiveStatuses
  <2>3. deployments[d].revision = 0
    BY <1>2 DEF IInv, RowsOK, RevisionsOK, ActiveStatuses
  <2>4. [state |-> "failed", from |-> req[r].target, revision |-> 0] =
          [EventsOf(deployments)[d] EXCEPT !.state = "failed"]
    BY <1>2, <1>3, <2>3 DEF Shown
  <2>5. EventsOf(deployments') = [EventsOf(deployments) EXCEPT ![d].state = "failed"]
    BY <2>2, <2>4
  <2>6. EventsOf(deployments)[d].from = req[r].target
    BY <1>2, <1>3 DEF Shown
  <2>7. Ledger!Fail(d)
    BY <1>3, <1>4, <2>1, <2>5, <2>6 DEF Ledger!Fail, EventsOf, Shown
  <2> QED
    BY <1>2, <2>7
<1> QED
  BY <1>6, <1>7

\* So a step of the pipeline is a step of the ledger or leaves it as it is.
LEMMA LedgerStep ==
  ASSUME IInv, [Next]_vars
  PROVE  [Ledger!Next]_<<Events, History>>
<1>1. ASSUME NEW r \in Requests, NEW usable \in BOOLEAN,
             CreatePublish(r, usable) \/ CreateRollback(r, usable)
      PROVE  Ledger!Next
  <2>1. req[r].target \in 0..Len(HistoryOf(revisions)) /\ Ledger!Open(req[r].target)
    BY <1>1, OpenStep DEF History
  <2> QED
    BY <2>1 DEF Ledger!Next, Ledger!Open, HistoryOf, Noted
<1>2. ASSUME NEW r \in Requests, CaptureCommit(r) \/ RestoreCommit(r)
      PROVE  Ledger!Next
  <2>1. req[r].dep \in DOMAIN EventsOf(deployments) /\ Ledger!Record(req[r].dep)
    BY <1>2, RecordStep DEF EventsOf
  <2> QED
    BY <2>1 DEF Ledger!Next, Ledger!Record, EventsOf, Shown
<1>3. ASSUME NEW r \in Requests, CompleteDeployment(r) \/ FailDeployment(r)
      PROVE  Ledger!Next
  <2>1. /\ req[r].dep \in DOMAIN EventsOf(deployments)
        /\ Ledger!Succeed(req[r].dep) \/ Ledger!Fail(req[r].dep)
    BY <1>3, EndStep DEF EventsOf
  <2> QED
    BY <2>1 DEF Ledger!Next, Ledger!Succeed, Ledger!Fail, EventsOf, Shown
<1>4. ASSUME UNCHANGED <<deployments, revisions>> PROVE UNCHANGED <<Events, History>>
  BY <1>4 DEF Events, History, EventsOf, HistoryOf, Shown, Noted
<1>5. CASE EditorStep \/ UNCHANGED vars
  BY <1>4, <1>5 DEF EditorStep, CreatePage, SetPublished, UpdatePage, DeletePage, RestorePage,
         PermanentlyDeletePage, UpdateSettings, Edit, WriteRow, vars
<1>6. ASSUME NEW r \in Requests, StartStep(r) \/ Crash(r) \/ LocalHandlerStep(r)
      PROVE  UNCHANGED <<deployments, revisions>>
  BY <1>6 DEF StartStep, Crash, ProvisionSite, RetryDeployment, RollbackSiteDeployment,
     LocalHandlerStep, RevalidatePublish, RevalidateRollback, CapturePages, CaptureSettings,
     RestoreRead, RestoreWrite, RestorePages, RestoreSettings, AbortTransaction, ledger
<1> QED
  BY <1>1, <1>2, <1>3, <1>4, <1>5, <1>6 DEF Next, HandlerStep, LocalHandlerStep

\* Requests, SQL statements and faults implement the ledger of publish events,
\* for any number of them.
THEOREM LedgerRefinement == Spec => ImplementsLedger
<1>1. Init => Ledger!Init
  BY DEF Init, Ledger!Init
<1>2. IInv /\ [Next]_vars => [Ledger!Next]_<<Events, History>>
  BY LedgerStep
<1> QED
  BY <1>1, <1>2, Invariance, PTL
     DEF Spec, ImplementsLedger, Ledger!Spec, Ledger!vars, Events, History, EventsOf,
         HistoryOf, Shown, Noted

-----------------------------------------------------------------------------
\* Only the commits of the two transactions write revisions.
LEMMA OnlyCommitsRecord ==
  ASSUME [Next]_vars, revisions' # revisions
  PROVE  \E r \in Requests : CaptureCommit(r) \/ RestoreCommit(r)
<1>1. ASSUME NEW r \in Requests, StartStep(r) \/ Crash(r) \/ LocalHandlerStep(r)
                                 \/ CompleteDeployment(r) \/ FailDeployment(r)
      PROVE  UNCHANGED revisions
  BY <1>1 DEF StartStep, Crash, ProvisionSite, RetryDeployment, RollbackSiteDeployment,
     LocalHandlerStep, RevalidatePublish, RevalidateRollback, CapturePages, CaptureSettings,
     RestoreRead, RestoreWrite, RestorePages, RestoreSettings, AbortTransaction,
     CompleteDeployment, FailDeployment, SettleDeployment, ledger
<1>2. ASSUME NEW r \in Requests, NEW usable \in BOOLEAN,
             CreatePublish(r, usable) \/ CreateRollback(r, usable)
      PROVE  UNCHANGED revisions
  BY <1>2 DEF CreatePublish, CreateRollback, CreateDeployment, ledger
<1>3. EditorStep \/ UNCHANGED vars => UNCHANGED revisions
  BY DEF EditorStep, CreatePage, SetPublished, UpdatePage, DeletePage, RestorePage,
         PermanentlyDeletePage, UpdateSettings, Edit, WriteRow, vars
<1> QED
  BY <1>1, <1>2, <1>3 DEF Next, HandlerStep, LocalHandlerStep

\* A commit changes no page outside the target but by unpublishing it.
LEMMA CommitKeepsDrafts ==
  ASSUME IInv, [Next]_vars, Len(revisions') > Len(revisions), NEW p \in Pages
  PROVE  LET new == revisions'[Len(revisions')] IN
         \/ rows'[p] = rows[p]
         \/ /\ new.rolledBackFrom # 0
            /\ \/ p \in Keys(revisions[new.rolledBackFrom].pages)
               \/ rows'[p] = [rows[p] EXCEPT !.published = FALSE]
<1>1. revisions \in Seq(Revision) /\ Len(revisions) \in Nat
  BY DEF IInv, TypeOK
<1>2. revisions' # revisions
  BY <1>1
<1>3. PICK r \in Requests : CaptureCommit(r) \/ RestoreCommit(r)
  BY <1>2, OnlyCommitsRecord
<1>4. CASE CaptureCommit(r)
  BY <1>4 DEF CaptureCommit, db
<1>5. CASE RestoreCommit(r)
  <2>1. revisions'[Len(revisions')].rolledBackFrom = req[r].target
    BY <1>1, <1>5 DEF RestoreCommit, WriteRevision
  <2>2. req[r].target \in DOMAIN revisions
    BY <1>5 DEF RestoreCommit, IInv, RequestsOK, RequestOK, RollbackPCs, RestorePCs
  <2>3. req[r].target # 0
    BY <1>1, <2>2
  <2>4. rows' = RestoredRows(r)
    BY <1>5 DEF RestoreCommit
  <2> QED
    BY <2>1, <2>3, <2>4 DEF RestoredRows, TargetOf
<1> QED
  BY <1>3, <1>4, <1>5

\* What editors drafted survives every rollback of however many run at once.
THEOREM DraftsSurvive == Spec => DraftsSurviveRollback
<1> DEFINE Kept == Len(revisions') > Len(revisions) =>
             \A p \in Pages :
               LET new == revisions'[Len(revisions')] IN
               \/ rows'[p] = rows[p]
               \/ /\ new.rolledBackFrom # 0
                  /\ \/ p \in Keys(revisions[new.rolledBackFrom].pages)
                     \/ rows'[p] = [rows[p] EXCEPT !.published = FALSE]
<1>1. IInv /\ [Next]_vars => Kept
  BY CommitKeepsDrafts
<1>2. DraftsSurviveRollback <=> [][Kept]_vars
  BY DEF DraftsSurviveRollback
<1>3. IInv /\ [Next]_vars => [Kept]_vars
  BY <1>1
<1> QED
  BY <1>2, <1>3, Invariance, PTL DEF Spec

-----------------------------------------------------------------------------
(* What a capture reads.  The inductive invariant of PublishHistory: the   *)
(* last surface seen is the present one, and a handler between its reads   *)
(* and its commit holds pages, then pages and settings, that were seen.    *)

SeenOK ==
  /\ seen \in Seq([pages : Snapshot, settings : Nat])
  /\ seen # <<>>
  /\ seen[Len(seen)] = Surface

CaptureOK(q) ==
  /\ q.pc = "capture_settings" => \E m \in DOMAIN seen : seen[m].pages = q.pages
  /\ q.pc = "capture_commit" => ReadInOrder(q.pages, q.settings)

HistoryOK == /\ SeenOK
             /\ \A r \in Requests : CaptureOK(req[r])
             /\ CaptureIsOrdered

\* What was seen stays seen, at its place, and the present surface is last.
LEMMA SeenGrows ==
  ASSUME TypeOK', SeenOK, Remember \/ UNCHANGED <<vars, seen>>
  PROVE  /\ SeenOK'
         /\ \A m \in DOMAIN seen : m \in DOMAIN seen' /\ seen'[m] = seen[m]
<1> DEFINE Pair == [pages : Snapshot, settings : Nat]
<1>1. Surface' \in Pair
  <2>1. PagesSnapshot(rows)' \in Snapshot
    BY SnapshotType DEF TypeOK
  <2> QED
    BY <2>1 DEF TypeOK, Surface
<1>2. seen \in Seq(Pair) /\ seen # <<>> /\ seen[Len(seen)] = Surface
  BY DEF SeenOK
<1>3. CASE seen' = seen /\ Surface' = Surface
  BY <1>2, <1>3 DEF SeenOK
<1>4. CASE seen' = Append(seen, Surface')
  <2> HIDE DEF Pair
  <2>1. /\ seen' \in Seq(Pair) /\ Len(seen') = Len(seen) + 1 /\ Len(seen) \in Nat
        /\ seen'[Len(seen) + 1] = Surface'
        /\ \A m \in 1..Len(seen) : seen'[m] = seen[m]
    BY <1>1, <1>2, <1>4
  <2>2. seen' # <<>> /\ DOMAIN seen = 1..Len(seen) /\ DOMAIN seen' = 1..Len(seen')
    BY <1>2, <2>1
  <2> QED
    BY <2>1, <2>2 DEF SeenOK, Pair
<1>5. UNCHANGED vars => Surface' = Surface
  BY DEF vars, Surface, PagesSnapshot, Visible
<1> QED
  BY <1>3, <1>4, <1>5 DEF Remember

\* A handler comes to hold what it captures by its own two reads only.
LEMMA OnlyReadsCapture ==
  ASSUME TypeOK, [Next]_vars, NEW s \in Requests,
         req'[s].pc \in {"capture_settings", "capture_commit"}
  PROVE  SameBut(req[s], req'[s]) \/ CapturePages(s) \/ CaptureSettings(s)
<1>1. req \in [Requests -> Request]
  BY DEF TypeOK
<1>2. ASSUME NEW r \in Requests, StartStep(r) \/ Crash(r)
                                 \/ CompleteDeployment(r) \/ FailDeployment(r)
      PROVE  req'[s] = req[s]
  BY <1>1, <1>2 DEF StartStep, Crash, ProvisionSite, RetryDeployment, RollbackSiteDeployment,
     CompleteDeployment, FailDeployment, SettleDeployment, Goto, Idle, Request
<1>3. ASSUME NEW r \in Requests, NEW usable \in BOOLEAN,
             CreatePublish(r, usable) \/ CreateRollback(r, usable)
      PROVE  req'[s] = req[s]
  BY <1>1, <1>3 DEF CreatePublish, CreateRollback, CreateDeployment, Request
<1>4. ASSUME NEW r \in Requests, LocalHandlerStep(r),
             ~CapturePages(r), ~CaptureSettings(r)
      PROVE  req'[s] = req[s]
  BY <1>1, <1>4 DEF LocalHandlerStep, RevalidatePublish, RevalidateRollback, RestoreRead,
     RestoreWrite, RestorePages, RestoreSettings, AbortTransaction, Goto, Request
<1>5. ASSUME NEW r \in Requests, CapturePages(r) \/ CaptureSettings(r), r # s
      PROVE  req'[s] = req[s]
  BY <1>1, <1>5 DEF CapturePages, CaptureSettings
<1>6. ASSUME NEW r \in Requests, CaptureCommit(r) \/ RestoreCommit(r)
      PROVE  req'[s] = req[s]
  BY <1>1, <1>6 DEF CaptureCommit, RestoreCommit, WriteRevision, Request
<1>7. EditorStep => SameBut(req[s], req'[s])
  BY EditorTouches
<1>8. req'[s] = req[s] => SameBut(req[s], req'[s])
  BY DEF SameBut
<1> QED
  BY <1>2, <1>3, <1>4, <1>5, <1>6, <1>7, <1>8 DEF Next, HandlerStep, LocalHandlerStep, vars

\* Each step keeps what captures hold, and a commit records what was read.
LEMMA NextHistoryOK ==
  ASSUME IInv, IInv', HistoryOK, [Next /\ Remember]_<<vars, seen>>
  PROVE  HistoryOK'
<1>1. [Next]_vars
  BY DEF vars
<1>2. TypeOK /\ TypeOK' /\ SeenOK
  BY DEF IInv, HistoryOK
<1>3. SeenOK' /\ \A m \in DOMAIN seen : m \in DOMAIN seen' /\ seen'[m] = seen[m]
  BY <1>2, SeenGrows
<1>4. Len(seen) \in DOMAIN seen /\ seen[Len(seen)] = Surface
      /\ DOMAIN seen = 1..Len(seen) /\ Len(seen) \in Nat
  BY <1>2 DEF SeenOK
<1>5. ASSUME NEW pages, NEW set, ReadInOrder(pages, set)
      PROVE  \E m, n \in DOMAIN seen' :
               m <= n /\ seen'[m].pages = pages /\ seen'[n].settings = set
  BY <1>3, <1>5 DEF ReadInOrder
<1>6. ASSUME NEW s \in Requests PROVE CaptureOK(req[s])'
  <2>1. req \in [Requests -> Request]
    BY <1>2 DEF TypeOK
  <2>2. CaptureOK(req[s])
    BY DEF HistoryOK
  <2>3. CASE SameBut(req[s], req'[s])
    BY <1>3, <1>5, <2>2, <2>3 DEF CaptureOK, ReadInOrder, SameBut
  <2>4. CASE CapturePages(s)
    <3>1. req'[s].pc = "capture_settings" /\ req'[s].pages = PagesSnapshot(rows)
      BY <2>1, <2>4 DEF CapturePages, Request
    <3>2. seen[Len(seen)].pages = PagesSnapshot(rows)
      BY <1>4 DEF Surface
    <3> QED
      BY <1>3, <1>4, <3>1, <3>2 DEF CaptureOK
  <2>5. CASE CaptureSettings(s)
    <3>1. /\ req[s].pc = "capture_settings" /\ req'[s].pc = "capture_commit"
          /\ req'[s].pages = req[s].pages /\ req'[s].settings = settings
      BY <2>1, <2>5 DEF CaptureSettings, Request
    <3>2. PICK m \in DOMAIN seen : seen[m].pages = req[s].pages
      BY <2>2, <3>1 DEF CaptureOK
    <3>3. m <= Len(seen) /\ seen[Len(seen)].settings = settings
      BY <1>4 DEF Surface
    <3> QED
      BY <1>3, <1>4, <3>1, <3>2, <3>3 DEF CaptureOK, ReadInOrder
  <2>6. CASE req'[s].pc \notin {"capture_settings", "capture_commit"}
    BY <2>6 DEF CaptureOK
  <2> QED
    BY <1>1, <1>2, <2>3, <2>4, <2>5, <2>6, OnlyReadsCapture
<1>7. CaptureIsOrdered'
  <2>1. revisions \in Seq(Revision)
    BY <1>2 DEF TypeOK
  <2>2. CASE UNCHANGED revisions
    BY <1>5, <2>2 DEF HistoryOK, CaptureIsOrdered, ReadInOrder
  <2>3. ASSUME NEW r \in Requests, CaptureCommit(r) \/ RestoreCommit(r)
        PROVE  CaptureIsOrdered'
    <3> DEFINE new == [revision |-> publishedRevision', pages |-> req[r].pages,
                       settings |-> req[r].settings, deployment |-> req[r].dep,
                       rolledBackFrom |-> req[r].target,
                       unpublished |-> req[r].unpublish]
    <3>1. revisions' = Append(revisions, new)
      BY <2>3 DEF CaptureCommit, RestoreCommit, WriteRevision
    <3>2. new.rolledBackFrom = 0 => ReadInOrder(new.pages, new.settings)
      <4>1. CASE CaptureCommit(r)
        BY <4>1 DEF HistoryOK, CaptureOK, CaptureCommit
      <4>2. CASE RestoreCommit(r)
        <5>1. req[r].target \in DOMAIN revisions
          BY <4>2 DEF RestoreCommit, IInv, RequestsOK, RequestOK, RollbackPCs, RestorePCs
        <5> QED
          BY <2>1, <5>1
      <4> QED
        BY <2>3, <4>1, <4>2
    <3> HIDE DEF new
    <3>3. ASSUME NEW i \in DOMAIN revisions'
          PROVE  \/ i \in DOMAIN revisions /\ revisions'[i] = revisions[i]
                 \/ revisions'[i] = new
      BY <2>1, <3>1
    <3>4. ASSUME NEW i \in DOMAIN revisions', revisions'[i].rolledBackFrom = 0
          PROVE  ReadInOrder(revisions'[i].pages, revisions'[i].settings)
      BY <3>2, <3>3, <3>4 DEF HistoryOK, CaptureIsOrdered
    <3>5. ASSUME NEW i \in DOMAIN revisions', revisions'[i].rolledBackFrom = 0
          PROVE  \E m, n \in DOMAIN seen' :
                   m <= n /\ seen'[m].pages = revisions'[i].pages
                          /\ seen'[n].settings = revisions'[i].settings
      BY <1>5, <3>4, <3>5
    <3> QED
      BY <3>5 DEF CaptureIsOrdered, ReadInOrder
  <2> QED
    BY <1>1, <2>2, <2>3, OnlyCommitsRecord
<1> QED
  BY <1>3, <1>6, <1>7 DEF HistoryOK

\* The first surface is seen, and nothing is captured yet.
LEMMA InitHistoryOK == Init /\ seen = <<Surface>> => HistoryOK
<1> SUFFICES ASSUME Init, seen = <<Surface>> PROVE HistoryOK
  OBVIOUS
<1>1. Surface \in [pages : Snapshot, settings : Nat]
  BY InitIInv, SnapshotType DEF IInv, TypeOK, Surface
<1>2. SeenOK
  BY <1>1 DEF SeenOK
<1>3. ASSUME NEW r \in Requests PROVE CaptureOK(req[r])
  BY DEF Init, Idle, CaptureOK
<1>4. CaptureIsOrdered
  BY DEF Init, CaptureIsOrdered
<1> QED
  BY <1>2, <1>3, <1>4 DEF HistoryOK

\* A publish records pages that were all live together, with settings of that
\* moment or a later one, however many editors and restores commit meanwhile:
\* the two reads of captureSnapshot come apart in this order only.
THEOREM OrderedCapture == HistorySpec => []CaptureIsOrdered
<1>1. Init /\ seen = <<Surface>> => IInv /\ HistoryOK
  BY InitIInv, InitHistoryOK
<1>2. IInv /\ HistoryOK /\ [Next /\ Remember]_<<vars, seen>> => IInv' /\ HistoryOK'
  <2> SUFFICES ASSUME IInv, HistoryOK, [Next /\ Remember]_<<vars, seen>>
               PROVE  IInv' /\ HistoryOK'
    OBVIOUS
  <2>1. IInv'
    BY NextIInv DEF vars
  <2> QED
    BY <2>1, NextHistoryOK
<1>3. HistoryOK => CaptureIsOrdered
  BY DEF HistoryOK
<1> QED
  BY <1>1, <1>2, <1>3, PTL DEF HistorySpec

=============================================================================
