---------------------------- MODULE SiteErasure ----------------------------
(***************************************************************************)
(* Archiving, restoring and permanently deleting the sites of one          *)
(* workspace, and the workspace itself: TenantWorkspaceService,            *)
(* SiteDeletionService and TenantDeletionService with their cron runners.  *)
(*                                                                         *)
(* Requests check and then write in separate statements; a deletion is a   *)
(* job row that a runner of some API process claims with a conditional     *)
(* update and works off in steps, each committed on its own.  Meanwhile    *)
(* translations and notifications write: rows with a foreign key go with   *)
(* the row they point to, rows without one only in a step that names them. *)
(***************************************************************************)
EXTENDS Naturals, Sequences

CONSTANTS
  Sites,      \* sites of the workspace
  Requests,   \* API requests in flight
  Runners,    \* cron services: each process has one for sites, one for tenants
  Translations, \* processJob calls of TranslationService
  Workspace,  \* where rows that belong to no site are
  LinkedSteps, \* steps 1 to 9: a kind of rows with a foreign key is deleted in each
  MaxJobs,    \* bound: deletion jobs
  MaxFaults   \* bound: crashes and failed statements

ASSUME SitesAssumption == Sites # {}

ASSUME WorkspaceAssumption == Workspace \notin Sites

\* Kind 1 is the pages.
ASSUME StepsAssumption == LinkedSteps \in Nat \ {0}

ASSUME BoundsAssumption == MaxJobs \in Nat /\ MaxFaults \in Nat

VARIABLES
  tenant,   \* the tenant row: "present" or "erased"
  site,     \* Site.status, "ERASED" once the row is gone
  linked,   \* the kinds of rows with a foreign key that each site has
  loose,    \* notifications and translation usage: rows without a foreign key
  jobs,     \* site_deletion_jobs and tenant_deletion_jobs, by creation order
  request,  \* the handler of each request
  runner,   \* the runJob call of each cron service
  translation, \* the processJob calls
  faults    \* crashes and failed statements so far

content == <<linked, loose>>

vars == <<tenant, site, content, jobs, request, runner, translation, faults>>

-----------------------------------------------------------------------------
Kinds == 1..LinkedSteps

Places == Sites \cup {Workspace}

\* A site job has a foreign key on the tenant and is "ERASED" with it; a
\* tenant job has none and survives.  swept (history): its run has deleted the
\* rows without a foreign key.
Job == [kind : {"site", "tenant"}, of : Sites,
        status : {"QUEUED", "RUNNING", "COMPLETED", "FAILED", "ERASED"},
        swept : BOOLEAN]

\* after (history): the jobs that had swept the place when the row was written.
LooseRow == [of : Places, after : SUBSET Nat]

Handler == [pc : {"idle", "archive", "restore", "site_jobs", "tenant_jobs", "create",
                  "ws_tenant_jobs", "ws_site_jobs", "ws_create", "notify"},
            of : Sites]

\* found: the site, or the sites of the workspace, that runJob has read before
\* its deletions; step: the deletion of linked rows that comes next.
Runner == [pc : {"idle", "read", "linked", "sweep", "row", "complete", "report", "fail",
                 "ws_read", "ws_sites", "ws_sweep", "ws_erase", "ws_complete"},
           job : Nat, found : SUBSET Sites, step : Nat]

Idle == [pc |-> "idle", job |-> 0, found |-> {}, step |-> 0]

\* The end of a processJob call: its usage is still to be recorded.
Translation == [pc : {"idle", "usage"}, of : Sites]

\* Fills the `of` of what is not about one site.
AnySite == CHOOSE s \in Sites : TRUE

Answered == [pc |-> "idle", of |-> AnySite]

Untranslated == [pc |-> "idle", of |-> AnySite]

InFlight(kind) ==
  {j \in DOMAIN jobs : jobs[j].kind = kind /\ jobs[j].status \in {"QUEUED", "RUNNING"}}

\* The site a runner works on; the `of` of a tenant job means nothing.
SiteOf(w) == jobs[runner[w].job].of

RowGone(w) == jobs[runner[w].job].status = "ERASED"

Answer(r) == request' = [request EXCEPT ![r] = Answered]

Proceed(r, label) == request' = [request EXCEPT ![r].pc = label]

Advance(w, label) == runner' = [runner EXCEPT ![w].pc = label]

\* A site job deletes the loose rows of its site, a tenant job those of all.
Covers(j, place) == jobs[j].kind = "tenant" \/ jobs[j].of = place

\* No key is checked: the row is written wherever it belongs.
WriteLoose(place) ==
  loose' = loose \cup
    {[of |-> place, after |-> {j \in DOMAIN jobs : jobs[j].swept /\ Covers(j, place)}]}

SetStatus(w, status) == jobs' = [jobs EXCEPT ![runner[w].job].status = status]

-----------------------------------------------------------------------------
Init ==
  /\ tenant = "present"
  /\ site = [s \in Sites |-> "ACTIVE"]
  /\ linked = [s \in Sites |-> Kinds]
  /\ loose = [of : Places, after : {{}}]
  /\ jobs = <<>>
  /\ request = [r \in Requests |-> Answered]
  /\ runner = [w \in Runners |-> Idle]
  /\ translation = [t \in Translations |-> Untranslated]
  /\ faults = 0

-----------------------------------------------------------------------------
(* deleteSite (archive) and restoreSite: a read, then a write by id only.  *)

Start(r, s, label) ==
  /\ request[r].pc = "idle"
  /\ request' = [request EXCEPT ![r] = [pc |-> label, of |-> s]]
  /\ UNCHANGED <<tenant, site, content, jobs, runner, translation, faults>>

ReadArchive(r, s) == site[s] = "ACTIVE" /\ Start(r, s, "archive")

ReadRestore(r, s) == site[s] = "ARCHIVED" /\ Start(r, s, "restore")

SetSite(r, label, status) ==
  /\ request[r].pc = label
  /\ site' = IF site[request[r].of] = "ERASED" THEN site
             ELSE [site EXCEPT ![request[r].of] = status]
  /\ Answer(r)
  /\ UNCHANGED <<tenant, content, jobs, runner, translation, faults>>

\* Mutant: a status the enum does not have.
WriteDeleted(r) == SetSite(r, "archive", "DELETED")

WriteArchive(r) == SetSite(r, "archive", "ARCHIVED")

WriteRestore(r) == SetSite(r, "restore", "ACTIVE")

-----------------------------------------------------------------------------
(* SiteDeletionService.queuePermanentDeletion: three reads and an insert.  *)

\* computeDeletionImpact: only an archived site has no blocking reason.
ReadImpact(r, s) ==
  Len(jobs) < MaxJobs /\ site[s] = "ARCHIVED" /\ Start(r, s, "site_jobs")

Check(r, here, free, next) ==
  /\ request[r].pc = here
  /\ IF free THEN Proceed(r, next) ELSE Answer(r)
  /\ UNCHANGED <<tenant, site, content, jobs, runner, translation, faults>>

CheckSiteJobs(r) ==
  Check(r, "site_jobs", \A j \in InFlight("site") : jobs[j].of # request[r].of, "tenant_jobs")

CheckTenantJobs(r) == Check(r, "tenant_jobs", InFlight("tenant") = {}, "create")

Insert(r, kind) ==
  /\ Len(jobs) < MaxJobs
  /\ jobs' = Append(jobs, [kind |-> kind, of |-> request[r].of, status |-> "QUEUED",
                           swept |-> FALSE])
  /\ Proceed(r, "notify")
  /\ UNCHANGED <<tenant, site, content, runner, translation, faults>>

\* The foreign key rejects a job of a workspace that is gone.
CreateSiteJob(r) ==
  /\ request[r].pc = "create"
  /\ IF tenant = "present" THEN Insert(r, "site")
     ELSE Answer(r) /\ UNCHANGED <<tenant, site, content, jobs, runner, translation, faults>>

\* createForTenantRoles writes for the members it has read in a statement of its
\* own: if the workspace has gone since the job was queued, that was before or
\* after the read, and there may be none.
NotifyQueued(r) ==
  /\ request[r].pc = "notify"
  /\ \/ WriteLoose(Workspace)
     \/ tenant = "erased" /\ UNCHANGED loose
  /\ Answer(r)
  /\ UNCHANGED <<tenant, site, linked, jobs, runner, translation, faults>>

(* TenantDeletionService.queuePermanentDeletion.                           *)

ReadWorkspace(r) ==
  Len(jobs) < MaxJobs /\ tenant = "present" /\ Start(r, AnySite, "ws_tenant_jobs")

CheckWorkspaceJobs(r) == Check(r, "ws_tenant_jobs", InFlight("tenant") = {}, "ws_site_jobs")

CheckWorkspaceSites(r) == Check(r, "ws_site_jobs", InFlight("site") = {}, "ws_create")

CreateTenantJob(r) == request[r].pc = "ws_create" /\ Insert(r, "tenant")

-----------------------------------------------------------------------------
(* Other handlers and jobs write content of both sorts.                    *)

\* Rows of some kind, as translatePage adds pages.  Whenever their writer has
\* looked for the site, the foreign key asks for it as they are inserted.
AddRows(s, k) ==
  /\ site[s] # "ERASED"
  /\ linked' = [linked EXCEPT ![s] = @ \cup {k}]
  /\ UNCHANGED <<tenant, site, loose, jobs, request, runner, translation, faults>>

\* The update of the translation's own row, a linked row: it throws if that
\* went with the site, and nothing is written then.
FinishTranslation(t, s) ==
  /\ translation[t].pc = "idle" /\ site[s] # "ERASED"
  /\ translation' = [translation EXCEPT ![t] = [pc |-> "usage", of |-> s]]
  /\ UNCHANGED <<tenant, site, content, jobs, request, runner, faults>>

\* A statement later, and whatever has become of the site: the usage.
RecordUsage(t) ==
  /\ translation[t].pc = "usage"
  /\ WriteLoose(translation[t].of)
  /\ translation' = [translation EXCEPT ![t] = Untranslated]
  /\ UNCHANGED <<tenant, site, linked, jobs, request, runner, faults>>

-----------------------------------------------------------------------------
(* SiteDeletionService.runJob and TenantDeletionService.runJob.            *)

\* The run of job j begins.
Begin(j) == [pc |-> IF jobs[j].kind = "site" THEN "read" ELSE "ws_read",
             job |-> j, found |-> {}, step |-> 1]

\* Mutant: a job that is already RUNNING is taken over.
ClaimRunning(w, j) ==
  /\ runner[w].pc = "idle"
  /\ jobs[j].status \in {"QUEUED", "RUNNING"}
  /\ jobs' = [jobs EXCEPT ![j].status = "RUNNING"]
  /\ runner' = [runner EXCEPT ![w] = Begin(j)]
  /\ UNCHANGED <<tenant, site, content, request, translation, faults>>

\* updateMany where status QUEUED: of several runners one changes the row.
Claim(w, j) ==
  /\ runner[w].pc = "idle"
  /\ jobs[j].status = "QUEUED"
  /\ jobs' = [jobs EXCEPT ![j].status = "RUNNING"]
  /\ runner' = [runner EXCEPT ![w] = Begin(j)]
  /\ UNCHANGED <<tenant, site, content, request, translation, faults>>

Stop(w) == runner' = [runner EXCEPT ![w] = Idle]

\* Every step of a site job begins with an update of its row.  Once the row is
\* gone it throws, and so does the update of the catch: the run is over.  A
\* tenant job's row is never gone.
RunVanishes(w) ==
  /\ runner[w].pc # "idle" /\ RowGone(w)
  /\ Stop(w)
  /\ UNCHANGED <<tenant, site, content, jobs, request, translation, faults>>

\* The site is read whatever its status.
ReadSite(w) ==
  /\ runner[w].pc = "read" /\ ~RowGone(w)
  /\ runner' = [runner EXCEPT ![w] =
       [@ EXCEPT !.pc = "linked", !.found = {s \in {SiteOf(w)} : site[s] # "ERASED"}]]
  /\ UNCHANGED <<tenant, site, content, jobs, request, translation, faults>>

\* Steps 1 to 9: the rows of one kind after the other.
DeleteLinked(w) ==
  /\ runner[w].pc = "linked" /\ ~RowGone(w)
  /\ linked' = [linked EXCEPT ![SiteOf(w)] = @ \ {runner[w].step}]
  /\ runner' = [runner EXCEPT ![w] =
       [@ EXCEPT !.step = runner[w].step + 1,
                 !.pc = IF runner[w].step < LinkedSteps THEN "linked" ELSE "sweep"]]
  /\ UNCHANGED <<tenant, site, loose, jobs, request, translation, faults>>

SweptBy(w) == jobs' = [jobs EXCEPT ![runner[w].job].swept = TRUE]

\* Mutant: without a site there is nothing to do here either.
SweepSiteFound(w) ==
  /\ runner[w].pc = "sweep" /\ ~RowGone(w)
  /\ loose' = {row \in loose : row.of \notin runner[w].found}
  /\ SweptBy(w)
  /\ Advance(w, "row")
  /\ UNCHANGED <<tenant, site, linked, request, translation, faults>>

\* Step 10: the rows without a foreign key that name the site.
SweepSite(w) ==
  /\ runner[w].pc = "sweep" /\ ~RowGone(w)
  /\ loose' = {row \in loose : row.of # SiteOf(w)}
  /\ SweptBy(w)
  /\ Advance(w, "row")
  /\ UNCHANGED <<tenant, site, linked, request, translation, faults>>

\* Step 11, which cascades to the rows written since: nothing to do without a
\* site, an error if it has gone since.
EraseSite(w) ==
  /\ runner[w].pc = "row" /\ ~RowGone(w)
  /\ Advance(w, IF runner[w].found = {} \/ site[SiteOf(w)] # "ERASED" THEN "complete" ELSE "fail")
  /\ site' = [s \in Sites |-> IF s \in runner[w].found THEN "ERASED" ELSE site[s]]
  /\ linked' = [s \in Sites |-> IF s \in runner[w].found THEN {} ELSE linked[s]]
  /\ UNCHANGED <<tenant, loose, jobs, request, translation, faults>>

CompleteSiteJob(w) ==
  /\ runner[w].pc = "complete" /\ ~RowGone(w)
  /\ SetStatus(w, "COMPLETED")
  /\ Advance(w, "report")
  /\ UNCHANGED <<tenant, site, content, request, translation, faults>>

\* The audit record, the memberships and the notifications, still inside the
\* try.  If the workspace goes meanwhile this was before the first two, which
\* end the run then (RunVanishes), or after them.
ReportSiteJob(w) ==
  /\ runner[w].pc = "report"
  /\ WriteLoose(Workspace)
  /\ Stop(w)
  /\ UNCHANGED <<tenant, site, linked, jobs, request, translation, faults>>

\* Steps 1 and 2 of a tenant job: the sites, and the loose rows that name them.
ReadSites(w) ==
  /\ runner[w].pc = "ws_read"
  /\ runner' = [runner EXCEPT ![w] =
       [@ EXCEPT !.pc = "ws_sites", !.found = {s \in Sites : site[s] # "ERASED"}]]
  /\ UNCHANGED <<tenant, site, content, jobs, request, translation, faults>>

SweepSites(w) ==
  /\ runner[w].pc = "ws_sites"
  /\ loose' = {row \in loose : row.of \notin runner[w].found}
  /\ Advance(w, "ws_sweep")
  /\ UNCHANGED <<tenant, site, linked, jobs, request, translation, faults>>

\* Mutant: the rows of the sites are taken as deleted by step 2.
SweepWorkspaceRest(w) ==
  /\ runner[w].pc = "ws_sweep"
  /\ loose' = {row \in loose : row.of # Workspace}
  /\ SweptBy(w)
  /\ Advance(w, "ws_erase")
  /\ UNCHANGED <<tenant, site, linked, request, translation, faults>>

\* Step 3: by tenantId, which each of them carries.
SweepWorkspace(w) ==
  /\ runner[w].pc = "ws_sweep"
  /\ loose' = {}
  /\ SweptBy(w)
  /\ Advance(w, "ws_erase")
  /\ UNCHANGED <<tenant, site, linked, request, translation, faults>>

\* Mutant: the tenant runner lets the site runners finish first.
EraseWorkspaceWaiting(w) ==
  /\ runner[w].pc = "ws_erase" /\ tenant = "present" /\ InFlight("site") = {}
  /\ tenant' = "erased"
  /\ site' = [s \in Sites |-> "ERASED"]
  /\ linked' = [s \in Sites |-> {}]
  /\ jobs' = [j \in DOMAIN jobs |->
       IF jobs[j].kind = "site" THEN [jobs[j] EXCEPT !.status = "ERASED"] ELSE jobs[j]]
  /\ Advance(w, "ws_complete")
  /\ UNCHANGED <<loose, request, translation, faults>>

\* Step 4: cascades to the sites and the site jobs, running or not, and not to
\* the loose rows.
EraseWorkspace(w) ==
  /\ runner[w].pc = "ws_erase" /\ tenant = "present"
  /\ tenant' = "erased"
  /\ site' = [s \in Sites |-> "ERASED"]
  /\ linked' = [s \in Sites |-> {}]
  /\ jobs' = [j \in DOMAIN jobs |->
       IF jobs[j].kind = "site" THEN [jobs[j] EXCEPT !.status = "ERASED"] ELSE jobs[j]]
  /\ Advance(w, "ws_complete")
  /\ UNCHANGED <<loose, request, translation, faults>>

\* The tenant is already gone: the delete throws.
EraseWorkspaceFails(w) ==
  /\ runner[w].pc = "ws_erase" /\ tenant = "erased"
  /\ Advance(w, "fail")
  /\ UNCHANGED <<tenant, site, content, jobs, request, translation, faults>>

CompleteTenantJob(w) ==
  /\ runner[w].pc = "ws_complete"
  /\ SetStatus(w, "COMPLETED")
  /\ Stop(w)
  /\ UNCHANGED <<tenant, site, content, request, translation, faults>>

\* Any statement inside the try may fail, the report of a completed job too.
StepFails(w) ==
  /\ runner[w].pc \notin {"idle", "fail"}
  /\ faults < MaxFaults /\ faults' = faults + 1
  /\ Advance(w, "fail")
  /\ UNCHANGED <<tenant, site, content, jobs, request, translation>>

FailJob(w) ==
  /\ runner[w].pc = "fail" /\ ~RowGone(w)
  /\ SetStatus(w, "FAILED")
  /\ Stop(w)
  /\ UNCHANGED <<tenant, site, content, request, translation, faults>>

\* The process dies: the job stays RUNNING and no cron lists it again.
Crash(w) ==
  /\ runner[w].pc # "idle"
  /\ faults < MaxFaults /\ faults' = faults + 1
  /\ Stop(w)
  /\ UNCHANGED <<tenant, site, content, jobs, request, translation>>

-----------------------------------------------------------------------------
RequestStep(r) ==
  \/ \E s \in Sites : ReadArchive(r, s) \/ ReadRestore(r, s) \/ ReadImpact(r, s)
  \/ ReadWorkspace(r) \/ WriteArchive(r) \/ WriteRestore(r)
  \/ CheckSiteJobs(r) \/ CheckTenantJobs(r) \/ CreateSiteJob(r)
  \/ CheckWorkspaceJobs(r) \/ CheckWorkspaceSites(r) \/ CreateTenantJob(r)
  \/ NotifyQueued(r)

RunnerStep(w) ==
  \/ \E j \in DOMAIN jobs : Claim(w, j)
  \/ RunVanishes(w)
  \/ ReadSite(w) \/ DeleteLinked(w) \/ SweepSite(w) \/ EraseSite(w)
  \/ CompleteSiteJob(w) \/ ReportSiteJob(w)
  \/ ReadSites(w) \/ SweepSites(w) \/ SweepWorkspace(w)
  \/ EraseWorkspace(w) \/ EraseWorkspaceFails(w) \/ CompleteTenantJob(w)
  \/ FailJob(w)

TranslationStep(t) ==
  (\E s \in Sites : FinishTranslation(t, s)) \/ RecordUsage(t)

Next ==
  \/ \E r \in Requests : RequestStep(r)
  \/ \E w \in Runners : RunnerStep(w) \/ StepFails(w) \/ Crash(w)
  \/ \E t \in Translations : TranslationStep(t)
  \/ \E s \in Sites, k \in Kinds : AddRows(s, k)

Spec == Init /\ [][Next]_vars

\* The crons keep ticking and a claimed run is carried on.
FairSpec == Spec /\ \A w \in Runners : WF_vars(RunnerStep(w))

-----------------------------------------------------------------------------
(* Properties.                                                             *)

TypeOK ==
  /\ tenant \in {"present", "erased"}
  /\ site \in [Sites -> {"ACTIVE", "ARCHIVED", "ERASED"}]
  /\ linked \in [Sites -> SUBSET Kinds]
  /\ loose \subseteq LooseRow
  /\ jobs \in Seq(Job)
  /\ request \in [Requests -> Handler]
  /\ runner \in [Runners -> Runner]
  /\ translation \in [Translations -> Translation]
  /\ faults \in Nat

\* No two cron services of any processes work off the same job.
ClaimsAreExclusive ==
  \A w, v \in Runners :
    w # v /\ runner[w].pc # "idle" /\ runner[v].pc # "idle" =>
      runner[w].job # runner[v].job

\* The row of the site is gone, and what hung on it.
Erased(s) == site[s] = "ERASED" /\ linked[s] = {}

LooseRows(s) == {row \in loose : row.of = s}

\* What a COMPLETED job says has gone is gone, although content is written,
\* sites are restored and other jobs run between its steps: the row with every
\* row that points to it, and every loose row but those that were written
\* after this job's own sweep.  Those it leaves.
CompletedMeansErased ==
  \A j \in DOMAIN jobs :
    jobs[j].status = "COMPLETED" =>
      /\ IF jobs[j].kind = "site" THEN Erased(jobs[j].of) ELSE tenant = "erased"
      /\ \A row \in loose : Covers(j, row.of) => j \in row.after

\* What outlives the workspace: no site that a restore wrote back, no content
\* added between the steps, no site job that a request queued while the tenant
\* runner was at work, and of the loose rows only those written after a sweep
\* of the whole workspace.
NothingOutlivesWorkspace ==
  tenant = "erased" =>
    /\ \A s \in Sites : Erased(s)
    /\ \A j \in DOMAIN jobs : jobs[j].kind = "site" => jobs[j].status = "ERASED"
    /\ \A row \in loose : \E j \in row.after : jobs[j].kind = "tenant"

\* However many runs, each cut short or repeated at any step, erase one site,
\* and whoever adds rows meanwhile: no linked row is left without its site,
\* and no loose row that was there before somebody swept for it.
NothingOrphaned ==
  \A s \in Sites :
    site[s] = "ERASED" => linked[s] = {} /\ \A row \in LooseRows(s) : row.after # {}

\* Nobody who found the site is still under way.
Unattended(s) ==
  \A t \in Translations : translation[t].pc # "idle" => translation[t].of # s

\* What is erased stays erased: a restore or an archive that has read the row
\* before updates none, no key accepts a row of it, and once the translations
\* that found it are over, no loose row of it is written either.
ErasureIsFinal ==
  [][\A s \in Sites :
       /\ Erased(s) => Erased(s)'
       /\ Erased(s) /\ Unattended(s) => Unattended(s)' /\ LooseRows(s)' \subseteq LooseRows(s)]_vars

\* Some run still works on the job.
Attended(j) == \E w \in Runners : runner[w].pc # "idle" /\ runner[w].job = j

\* Every queued job is worked off, unless the process running it dies: no
\* order of site and tenant runners makes them wait for each other.
JobsSettle ==
  \A j \in 1..MaxJobs :
    j \in InFlight("site") \cup InFlight("tenant") ~>
      \/ j \notin InFlight("site") \cup InFlight("tenant")
      \/ jobs[j].status = "RUNNING" /\ ~Attended(j)

\* "Only archived sites can be permanently deleted": a site job never erases
\* a site, or its content, while it is active.
ActiveSitesAreSpared ==
  [][\A s \in Sites :
       site[s] = "ACTIVE" /\ tenant' = "present" =>
         site'[s] # "ERASED" /\ linked[s] \subseteq linked'[s]]_vars

=============================================================================
