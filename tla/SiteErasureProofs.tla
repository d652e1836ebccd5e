------------------------- MODULE SiteErasureProofs -------------------------
(* Proofs about SiteErasure, for any number of sites, requests, runners,   *)
(* translations, kinds of rows and jobs.                                   *)
EXTENDS SiteErasure, SequenceTheorems, TLAPS

SitePCs == {"read", "linked", "sweep", "row", "complete", "report"}

TenantPCs == {"ws_read", "ws_sites", "ws_sweep", "ws_erase", "ws_complete"}

\* What the local state of a run says about the tables.
RunnerOK(q) ==
  q.pc # "idle" =>
    /\ q.job \in DOMAIN jobs
    /\ jobs[q.job].status # "QUEUED"
    /\ q.pc \in SitePCs => jobs[q.job].kind = "site"
    /\ q.pc \in TenantPCs => jobs[q.job].kind = "tenant"
    /\ q.pc \in {"linked", "sweep", "row"} =>
         /\ q.found \subseteq {jobs[q.job].of}
         /\ q.found = {} => site[jobs[q.job].of] = "ERASED"
    /\ q.pc = "complete" => site[jobs[q.job].of] = "ERASED"
    /\ q.pc = "ws_complete" => tenant = "erased"
    /\ q.pc \in {"row", "complete", "ws_erase", "ws_complete"} => jobs[q.job].swept

RunnersOK == \A w \in Runners : RunnerOK(runner[w])

\* A job is COMPLETED after its sweep and after its last deletion.
CompletedOK ==
  \A j \in DOMAIN jobs :
    jobs[j].status = "COMPLETED" =>
      /\ jobs[j].swept
      /\ IF jobs[j].kind = "site" THEN site[jobs[j].of] = "ERASED" ELSE tenant = "erased"

\* The workspace goes with its sites and their jobs, after a sweep of it.
WorkspaceOK ==
  tenant = "erased" =>
    /\ \A s \in Sites : site[s] = "ERASED"
    /\ \A j \in DOMAIN jobs : jobs[j].kind = "site" => jobs[j].status = "ERASED"
    /\ \E j \in DOMAIN jobs : jobs[j].kind = "tenant" /\ jobs[j].swept

\* A site goes with its linked rows, after a sweep of its loose ones.
SitesOK ==
  \A s \in Sites :
    site[s] = "ERASED" =>
      /\ linked[s] = {}
      /\ \E j \in DOMAIN jobs : jobs[j].swept /\ Covers(j, s)

\* A loose row has outlived no sweep.
LooseOK ==
  \A row \in loose, j \in DOMAIN jobs : jobs[j].swept /\ Covers(j, row.of) => j \in row.after

IInv == /\ TypeOK
        /\ RunnersOK
        /\ ClaimsAreExclusive
        /\ CompletedOK
        /\ WorkspaceOK
        /\ SitesOK
        /\ LooseOK

\* The invariant gives the properties.
LEMMA Consequences ==
  ASSUME IInv PROVE CompletedMeansErased /\ NothingOutlivesWorkspace /\ NothingOrphaned
<1>1. \A j \in DOMAIN jobs : jobs[j] \in Job /\ jobs[j].of \in Sites
  <2>1. \A j \in DOMAIN jobs : jobs[j] \in Job
    BY DEF IInv, TypeOK
  <2> QED
    BY <2>1 DEF Job
<1>2. \A row \in loose : row.of \in Places
  BY DEF IInv, TypeOK, LooseRow
<1>3. CompletedMeansErased
  BY <1>1 DEF IInv, CompletedOK, SitesOK, LooseOK, CompletedMeansErased, Erased
<1>4. NothingOutlivesWorkspace
  <2>1. SUFFICES ASSUME tenant = "erased"
                 PROVE  /\ \A s \in Sites : Erased(s)
                        /\ \A j \in DOMAIN jobs : jobs[j].kind = "site" => jobs[j].status = "ERASED"
                        /\ \A row \in loose : \E j \in row.after : jobs[j].kind = "tenant"
    BY DEF NothingOutlivesWorkspace
  <2>2. PICK j \in DOMAIN jobs : jobs[j].kind = "tenant" /\ jobs[j].swept
    BY <2>1 DEF IInv, WorkspaceOK
  <2>3. \A row \in loose : j \in row.after
    BY <2>2 DEF IInv, LooseOK, Covers
  <2> QED
    BY <2>1, <2>2, <2>3 DEF IInv, WorkspaceOK, SitesOK, Erased
<1>5. NothingOrphaned
  BY DEF IInv, SitesOK, LooseOK, NothingOrphaned, LooseRows
<1> QED
  BY <1>3, <1>4, <1>5

-----------------------------------------------------------------------------
\* The rows and local variables that actions write have the right types.
LEMMA IdleTypes ==
  /\ Answered \in Handler /\ Idle \in Runner /\ AnySite \in Sites /\ Untranslated \in Translation
<1>1. AnySite \in Sites
  BY SitesAssumption DEF AnySite
<1> QED
  BY <1>1 DEF Answered, Handler, Idle, Runner, Untranslated, Translation

Labels == {"idle", "read", "linked", "sweep", "row", "complete", "report", "fail", "ws_read",
           "ws_sites", "ws_sweep", "ws_erase", "ws_complete"}

LEMMA RunnerTyped ==
  ASSUME NEW q \in Runner, NEW label \in Labels
  PROVE  /\ [q EXCEPT !.pc = label] \in Runner
         /\ [q EXCEPT !.pc = label].pc = label
         /\ [q EXCEPT !.pc = label].job = q.job
         /\ [q EXCEPT !.pc = label].found = q.found
BY DEF Runner, Labels

LEMMA JobTyped ==
  ASSUME TypeOK, NEW j \in DOMAIN jobs PROVE jobs[j] \in Job /\ jobs[j].of \in Sites
<1>1. jobs[j] \in Job
  BY DEF TypeOK
<1> QED
  BY <1>1 DEF Job

\* Changing the status of a job leaves the list of jobs a list of jobs.
LEMMA StatusTyped ==
  ASSUME TypeOK, NEW j \in DOMAIN jobs,
         NEW status \in {"QUEUED", "RUNNING", "COMPLETED", "FAILED", "ERASED"},
         jobs' = [jobs EXCEPT ![j].status = status]
  PROVE  /\ jobs' \in Seq(Job)
         /\ DOMAIN jobs' = DOMAIN jobs
         /\ \A i \in DOMAIN jobs :
              /\ jobs'[i].kind = jobs[i].kind
              /\ jobs'[i].of = jobs[i].of
              /\ jobs'[i].swept = jobs[i].swept
              /\ jobs'[i].status = IF i = j THEN status ELSE jobs[i].status
<1> DEFINE row == [jobs[j] EXCEPT !.status = status]
<1>1. jobs \in Seq(Job) /\ jobs[j] \in Job
  BY DEF TypeOK
<1>2. /\ row \in Job /\ row.kind = jobs[j].kind /\ row.of = jobs[j].of
      /\ row.swept = jobs[j].swept /\ row.status = status
  BY <1>1 DEF Job
<1>3. jobs' = [jobs EXCEPT ![j] = row]
  OBVIOUS
<1> HIDE DEF row
<1> QED
  BY <1>1, <1>2, <1>3

LEMMA RowReplaced ==
  ASSUME NEW list \in Seq(Job), NEW j \in DOMAIN list, NEW row \in Job
  PROVE  /\ [list EXCEPT ![j] = row] \in Seq(Job)
         /\ DOMAIN [list EXCEPT ![j] = row] = DOMAIN list
         /\ [list EXCEPT ![j] = row][j] = row
         /\ \A i \in DOMAIN list : i # j => [list EXCEPT ![j] = row][i] = list[i]
  OBVIOUS

\* So does recording its sweep.
LEMMA SweptTyped ==
  ASSUME TypeOK, NEW j \in DOMAIN jobs, jobs' = [jobs EXCEPT ![j].swept = TRUE]
  PROVE  /\ jobs' \in Seq(Job)
         /\ DOMAIN jobs' = DOMAIN jobs
         /\ \A i \in DOMAIN jobs :
              /\ jobs'[i].kind = jobs[i].kind
              /\ jobs'[i].of = jobs[i].of
              /\ jobs'[i].status = jobs[i].status
              /\ jobs'[i].swept = (i = j \/ jobs[i].swept)
<1> DEFINE row == [jobs[j] EXCEPT !.swept = TRUE]
<1>1. jobs \in Seq(Job) /\ jobs[j] \in Job
  BY DEF TypeOK
<1>2. /\ row \in Job /\ row.kind = jobs[j].kind /\ row.of = jobs[j].of
      /\ row.status = jobs[j].status /\ row.swept = TRUE
  BY <1>1 DEF Job
<1>3. jobs' = [jobs EXCEPT ![j] = row]
  OBVIOUS
<1>4. \A i \in DOMAIN jobs : jobs[i].swept \in BOOLEAN
  <2>1. \A i \in DOMAIN jobs : jobs[i] \in Job
    BY DEF TypeOK
  <2> QED
    BY <2>1 DEF Job
<1> HIDE DEF row
<1>5. /\ jobs' \in Seq(Job) /\ DOMAIN jobs' = DOMAIN jobs /\ jobs'[j] = row
      /\ \A i \in DOMAIN jobs : i # j => jobs'[i] = jobs[i]
  <2>1. row \in Job
    BY <1>2
  <2>2. /\ [jobs EXCEPT ![j] = row] \in Seq(Job)
        /\ DOMAIN [jobs EXCEPT ![j] = row] = DOMAIN jobs
        /\ [jobs EXCEPT ![j] = row][j] = row
        /\ \A i \in DOMAIN jobs : i # j => [jobs EXCEPT ![j] = row][i] = jobs[i]
    BY <1>1, <2>1, RowReplaced
  <2> QED
    BY <1>3, <2>2, Zenon
<1>6. ASSUME NEW i \in DOMAIN jobs
      PROVE  /\ jobs'[i].kind = jobs[i].kind
             /\ jobs'[i].of = jobs[i].of
             /\ jobs'[i].status = jobs[i].status
             /\ jobs'[i].swept = (i = j \/ jobs[i].swept)
  BY <1>2, <1>4, <1>5, Zenon
<1> QED
  BY <1>5, <1>6

\* A loose row is written after every sweep that there has been.
LEMMA WriteLooseOK ==
  ASSUME IInv, NEW place \in Places, WriteLoose(place), jobs' = jobs
  PROVE  loose' \in SUBSET LooseRow /\ LooseOK'
<1> DEFINE new == [of |-> place, after |-> {j \in DOMAIN jobs : jobs[j].swept /\ Covers(j, place)}]
<1>1. loose' = loose \cup {new}
  BY DEF WriteLoose
<1>2. new \in LooseRow /\ loose \in SUBSET LooseRow
  <2>1. DOMAIN jobs \subseteq Nat
    BY DEF IInv, TypeOK
  <2>2. {j \in DOMAIN jobs : jobs[j].swept /\ Covers(j, place)} \in SUBSET Nat
    BY <2>1
  <2> QED
    BY <2>2 DEF IInv, TypeOK, LooseRow
<1>3. ASSUME NEW row \in loose', NEW j \in DOMAIN jobs, jobs[j].swept, Covers(j, row.of)
      PROVE  j \in row.after
  <2>1. CASE row \in loose
    BY <1>3, <2>1 DEF IInv, LooseOK
  <2>2. CASE row = new
    BY <1>3, <2>2
  <2> QED
    BY <1>1, <2>1, <2>2
<1> QED
  BY <1>1, <1>2, <1>3 DEF LooseOK, Covers

\* The initial state satisfies the inductive invariant.
LEMMA InitIInv == Init => IInv
<1> SUFFICES ASSUME Init PROVE IInv
  OBVIOUS
<1>1. TypeOK
  <2>1. /\ request \in [Requests -> Handler] /\ runner \in [Runners -> Runner]
        /\ translation \in [Translations -> Translation]
    BY IdleTypes DEF Init
  <2>2. loose \subseteq LooseRow
    BY DEF Init, LooseRow
  <2> QED
    BY <2>1, <2>2 DEF Init, TypeOK
<1>2. RunnersOK /\ ClaimsAreExclusive
  BY DEF Init, RunnersOK, RunnerOK, ClaimsAreExclusive, Idle
<1>3. CompletedOK /\ WorkspaceOK /\ SitesOK /\ LooseOK
  BY DEF Init, CompletedOK, WorkspaceOK, SitesOK, LooseOK
<1> QED
  BY <1>1, <1>2, <1>3 DEF IInv

-----------------------------------------------------------------------------
\* Steps that touch neither the tables of sites and jobs nor a run.
LEMMA LocalInv ==
  ASSUME IInv, TypeOK', LooseOK', UNCHANGED <<tenant, site, linked, jobs, runner>>
  PROVE  IInv'
<1>1. RunnersOK' /\ ClaimsAreExclusive'
  BY DEF IInv, RunnersOK, RunnerOK, ClaimsAreExclusive
<1>2. CompletedOK' /\ WorkspaceOK'
  BY DEF IInv, CompletedOK, WorkspaceOK
<1>3. SitesOK'
  BY DEF IInv, SitesOK, Covers
<1> QED
  BY <1>1, <1>2, <1>3 DEF IInv

\* Its form for a request that leaves the loose rows alone too.
LEMMA LocalRequestInv ==
  ASSUME IInv, request' \in [Requests -> Handler],
         UNCHANGED <<tenant, site, content, jobs, runner, translation, faults>>
  PROVE  IInv'
<1>1. TypeOK'
  BY DEF IInv, TypeOK, content
<1>2. LooseOK'
  BY DEF IInv, LooseOK, Covers, content
<1> QED
  BY <1>1, <1>2, LocalInv DEF content

\* What a handler of a request becomes has its type.
LEMMA RequestTyped ==
  ASSUME TypeOK, NEW r \in Requests
  PROVE  /\ Answer(r) => request' \in [Requests -> Handler]
         /\ \A label \in {"archive", "restore", "site_jobs", "tenant_jobs", "create",
                          "ws_tenant_jobs", "ws_site_jobs", "ws_create", "notify"} :
              /\ Proceed(r, label) => request' \in [Requests -> Handler]
              /\ \A s \in Sites : request' = [request EXCEPT ![r] = [pc |-> label, of |-> s]]
                                    => request' \in [Requests -> Handler]
<1>1. request \in [Requests -> Handler] /\ request[r] \in Handler
  BY DEF TypeOK
<1>2. Answer(r) => request' \in [Requests -> Handler]
  BY <1>1, IdleTypes DEF Answer
<1>3. ASSUME NEW label \in {"archive", "restore", "site_jobs", "tenant_jobs", "create",
                            "ws_tenant_jobs", "ws_site_jobs", "ws_create", "notify"}
      PROVE  /\ Proceed(r, label) => request' \in [Requests -> Handler]
             /\ \A s \in Sites : request' = [request EXCEPT ![r] = [pc |-> label, of |-> s]]
                                   => request' \in [Requests -> Handler]
  <2>1. [request[r] EXCEPT !.pc = label] \in Handler
    BY <1>1 DEF Handler
  <2>2. \A s \in Sites : [pc |-> label, of |-> s] \in Handler
    BY DEF Handler
  <2> QED
    BY <1>1, <2>1, <2>2 DEF Proceed
<1> QED
  BY <1>2, <1>3

\* An archive or a restore writes a row that still exists.
LEMMA SetSiteInv ==
  ASSUME IInv, NEW r \in Requests, WriteArchive(r) \/ WriteRestore(r) PROVE IInv'
<1>1. TypeOK /\ request[r] \in Handler /\ request[r].of \in Sites
  BY DEF IInv, TypeOK, Handler
<1>2. PICK status \in {"ACTIVE", "ARCHIVED"} :
        site' = IF site[request[r].of] = "ERASED" THEN site
                ELSE [site EXCEPT ![request[r].of] = status]
  BY DEF WriteArchive, WriteRestore, SetSite
<1>3. Answer(r) /\ UNCHANGED <<tenant, linked, loose, jobs, runner, translation, faults>>
  BY DEF WriteArchive, WriteRestore, SetSite, content
<1>4. site' \in [Sites -> {"ACTIVE", "ARCHIVED", "ERASED"}]
  BY <1>1, <1>2 DEF TypeOK
<1>5. \A s \in Sites : site'[s] = "ERASED" <=> site[s] = "ERASED"
  BY <1>1, <1>2 DEF TypeOK
<1>6. \A j \in DOMAIN jobs : jobs[j].of \in Sites
  BY <1>1, JobTyped
<1>7. TypeOK'
  BY <1>1, <1>3, <1>4, RequestTyped DEF TypeOK
<1>8. RunnersOK' /\ ClaimsAreExclusive'
  BY <1>3, <1>5, <1>6 DEF IInv, RunnersOK, RunnerOK, ClaimsAreExclusive
<1>9. CompletedOK' /\ WorkspaceOK'
  BY <1>3, <1>5, <1>6 DEF IInv, CompletedOK, WorkspaceOK
<1>10. SitesOK' /\ LooseOK'
  BY <1>3, <1>5 DEF IInv, SitesOK, LooseOK, Covers
<1> QED
  BY <1>7, <1>8, <1>9, <1>10 DEF IInv

\* A new job is QUEUED, and one of a site needs the workspace's row.
LEMMA InsertInv ==
  ASSUME IInv, NEW r \in Requests, NEW kind \in {"site", "tenant"}, Insert(r, kind),
         kind = "site" => tenant = "present"
  PROVE  IInv'
<1> DEFINE row == [kind |-> kind, of |-> request[r].of, status |-> "QUEUED", swept |-> FALSE]
           new == Len(jobs) + 1
<1>1. TypeOK /\ request[r] \in Handler /\ jobs \in Seq(Job)
  BY DEF IInv, TypeOK
<1>2. row \in Job
  BY <1>1 DEF Handler, Job
<1>3. jobs' = Append(jobs, row) /\ Proceed(r, "notify")
      /\ UNCHANGED <<tenant, site, linked, loose, runner, translation, faults>>
  BY DEF Insert, content
<1>4. /\ row.kind = kind /\ row.status = "QUEUED" /\ ~row.swept
  OBVIOUS
<1> HIDE DEF row
<1>5. /\ jobs' \in Seq(Job)
      /\ DOMAIN jobs' = DOMAIN jobs \cup {new}
      /\ jobs'[new] = row
      /\ \A j \in DOMAIN jobs : jobs'[j] = jobs[j]
  BY <1>1, <1>2, <1>3
<1>6. TypeOK'
  BY <1>1, <1>3, <1>5, RequestTyped DEF TypeOK
<1> HIDE DEF new
<1>7. RunnersOK' /\ ClaimsAreExclusive'
  BY <1>3, <1>5 DEF IInv, RunnersOK, RunnerOK, ClaimsAreExclusive
<1>8. CompletedOK' /\ WorkspaceOK'
  BY <1>3, <1>4, <1>5 DEF IInv, CompletedOK, WorkspaceOK
<1>9. SitesOK' /\ LooseOK'
  BY <1>3, <1>4, <1>5 DEF IInv, SitesOK, LooseOK, Covers
<1> QED
  BY <1>6, <1>7, <1>8, <1>9 DEF IInv

\* The notice of a queued deletion is a loose row.
LEMMA NotifyInv == ASSUME IInv, NEW r \in Requests, NotifyQueued(r) PROVE IInv'
<1>1. Answer(r) /\ UNCHANGED <<tenant, site, linked, jobs, runner, translation, faults>>
  BY DEF NotifyQueued
<1>2. loose' \in SUBSET LooseRow /\ LooseOK'
  <2>1. CASE WriteLoose(Workspace)
    BY <1>1, <2>1, WriteLooseOK DEF Places
  <2>2. CASE loose' = loose
    BY <1>1, <2>2 DEF IInv, TypeOK, LooseOK, Covers
  <2> QED
    BY <2>1, <2>2 DEF NotifyQueued
<1>3. TypeOK'
  BY <1>1, <1>2, RequestTyped DEF IInv, TypeOK
<1> QED
  BY <1>1, <1>2, <1>3, LocalInv

\* Every step of a request preserves the invariant.
LEMMA RequestInv == ASSUME IInv, NEW r \in Requests, RequestStep(r) PROVE IInv'
<1>1. TypeOK
  BY DEF IInv
<1>2. ASSUME NEW s \in Sites,
             NEW label \in {"archive", "restore", "site_jobs", "ws_tenant_jobs"},
             Start(r, s, label)
      PROVE  IInv'
  BY <1>1, <1>2, RequestTyped, LocalRequestInv DEF Start
<1>3. ASSUME NEW here, NEW free, NEW next \in {"tenant_jobs", "create", "ws_site_jobs", "ws_create"},
             Check(r, here, free, next)
      PROVE  IInv'
  BY <1>1, <1>3, RequestTyped, LocalRequestInv DEF Check
<1>4. ASSUME CreateSiteJob(r) PROVE IInv'
  BY <1>1, <1>4, RequestTyped, LocalRequestInv, InsertInv DEF CreateSiteJob
<1>5. ASSUME CreateTenantJob(r) PROVE IInv'
  BY <1>5, InsertInv DEF CreateTenantJob
<1>6. ASSUME NEW s \in Sites, ReadArchive(r, s) \/ ReadRestore(r, s) \/ ReadImpact(r, s) PROVE IInv'
  BY <1>2, <1>6 DEF ReadArchive, ReadRestore, ReadImpact
<1>7. ASSUME ReadWorkspace(r) PROVE IInv'
  BY <1>2, <1>7, IdleTypes DEF ReadWorkspace
<1>8. ASSUME CheckSiteJobs(r) \/ CheckTenantJobs(r) \/ CheckWorkspaceJobs(r) \/ CheckWorkspaceSites(r)
      PROVE  IInv'
  BY <1>3, <1>8 DEF CheckSiteJobs, CheckTenantJobs, CheckWorkspaceJobs, CheckWorkspaceSites
<1> QED
  BY <1>4, <1>5, <1>6, <1>7, <1>8, SetSiteInv, NotifyInv DEF RequestStep

\* Translations write loose rows for whatever site, linked ones for a site
\* that exists.
LEMMA WriterInv ==
  ASSUME IInv,
         \/ \E t \in Translations : TranslationStep(t)
         \/ \E s \in Sites, k \in Kinds : AddRows(s, k)
  PROVE  IInv'
<1>1. TypeOK
  BY DEF IInv
<1>2. ASSUME NEW t \in Translations, NEW s \in Sites, FinishTranslation(t, s) PROVE IInv'
  <2>1. [pc |-> "usage", of |-> s] \in Translation
    BY DEF Translation
  <2>2. translation' \in [Translations -> Translation]
    BY <1>1, <1>2, <2>1 DEF FinishTranslation, TypeOK
  <2>3. TypeOK' /\ LooseOK'
    BY <1>1, <1>2, <2>2 DEF FinishTranslation, TypeOK, IInv, LooseOK, Covers, content
  <2> QED
    BY <1>2, <2>3, LocalInv DEF FinishTranslation, content
<1>3. ASSUME NEW t \in Translations, RecordUsage(t) PROVE IInv'
  <2>1. translation[t].of \in Places
    BY <1>1 DEF TypeOK, Translation, Places
  <2>2. loose' \in SUBSET LooseRow /\ LooseOK'
    BY <1>3, <2>1, WriteLooseOK DEF RecordUsage
  <2>3. translation' \in [Translations -> Translation]
    BY <1>1, <1>3, IdleTypes DEF RecordUsage, TypeOK
  <2>4. TypeOK'
    BY <1>1, <1>3, <2>2, <2>3 DEF RecordUsage, TypeOK
  <2> QED
    BY <1>3, <2>2, <2>4, LocalInv DEF RecordUsage
<1>4. ASSUME NEW s \in Sites, NEW k \in Kinds, AddRows(s, k) PROVE IInv'
  <2>1. /\ site[s] # "ERASED" /\ linked' = [linked EXCEPT ![s] = linked[s] \cup {k}]
        /\ UNCHANGED <<tenant, site, loose, jobs, request, runner, translation, faults>>
    BY <1>4 DEF AddRows
  <2>2. linked' \in [Sites -> SUBSET Kinds] /\ \A i \in Sites : i # s => linked'[i] = linked[i]
    BY <1>1, <2>1 DEF TypeOK
  <2>3. TypeOK'
    BY <1>1, <2>1, <2>2 DEF TypeOK
  <2>4. RunnersOK' /\ ClaimsAreExclusive'
    BY <2>1 DEF IInv, RunnersOK, RunnerOK, ClaimsAreExclusive
  <2>5. CompletedOK' /\ WorkspaceOK'
    BY <2>1 DEF IInv, CompletedOK, WorkspaceOK
  <2>6. SitesOK' /\ LooseOK'
    BY <2>1, <2>2 DEF IInv, SitesOK, LooseOK, Covers
  <2> QED
    BY <2>3, <2>4, <2>5, <2>6 DEF IInv
<1> QED
  BY <1>2, <1>3, <1>4 DEF TranslationStep

-----------------------------------------------------------------------------
\* What runners rely on is not taken back: jobs keep their kind, site and
\* sweep and are not queued again, what is erased stays erased.
Grows ==
  /\ DOMAIN jobs' = DOMAIN jobs
  /\ \A j \in DOMAIN jobs :
       /\ jobs'[j].kind = jobs[j].kind /\ jobs'[j].of = jobs[j].of
       /\ jobs'[j].status = "QUEUED" => jobs[j].status = "QUEUED"
       /\ jobs[j].swept => jobs'[j].swept
  /\ \A s \in Sites : site[s] = "ERASED" => site'[s] = "ERASED"
  /\ tenant = "erased" => tenant' = "erased"

TablesOK == CompletedOK /\ WorkspaceOK /\ SitesOK /\ LooseOK

\* A step of one runner preserves the invariant if the runner keeps its job,
\* its new state fits the tables, and the tables stay consistent.
LEMMA RunnerStepInv ==
  ASSUME IInv, TypeOK', Grows, NEW w \in Runners,
         \A v \in Runners \ {w} : runner'[v] = runner[v],
         RunnerOK(runner[w])',
         runner'[w].pc # "idle" => runner[w].pc # "idle" /\ runner'[w].job = runner[w].job,
         TablesOK'
  PROVE  IInv'
<1>1. \A j \in DOMAIN jobs : jobs[j].of \in Sites
  BY JobTyped DEF IInv
<1>2. ASSUME NEW v \in Runners \ {w} PROVE RunnerOK(runner[v])'
  <2>1. runner'[v] = runner[v] /\ RunnerOK(runner[v])
    BY DEF IInv, RunnersOK
  <2> QED
    BY <1>1, <2>1 DEF RunnerOK, Grows
<1>3. RunnersOK'
  BY <1>2 DEF RunnersOK
<1>4. ClaimsAreExclusive'
  BY DEF IInv, ClaimsAreExclusive
<1> QED
  BY <1>3, <1>4 DEF IInv, TablesOK

\* Its form for a step that leaves the sites and jobs alone.
LEMMA LocalRunnerInv ==
  ASSUME IInv, NEW w \in Runners, NEW q \in Runner,
         runner' = [runner EXCEPT ![w] = q],
         q.pc # "idle" => runner[w].pc # "idle" /\ q.job = runner[w].job,
         RunnerOK(q),
         UNCHANGED <<tenant, site, linked, jobs, request, translation>>, faults' \in Nat,
         loose' \in SUBSET LooseRow, LooseOK'
  PROVE  IInv'
<1>1. runner \in [Runners -> Runner]
  BY DEF IInv, TypeOK
<1>2. runner' \in [Runners -> Runner] /\ runner'[w] = q
      /\ \A v \in Runners \ {w} : runner'[v] = runner[v]
  BY <1>1
<1>3. TypeOK'
  BY <1>2 DEF IInv, TypeOK
<1>4. Grows
  BY DEF Grows
<1>5. RunnerOK(runner[w])'
  BY <1>2 DEF RunnerOK
<1>6. CompletedOK' /\ WorkspaceOK'
  BY DEF IInv, CompletedOK, WorkspaceOK
<1>7. SitesOK'
  BY DEF IInv, SitesOK, Covers
<1> QED
  BY <1>2, <1>3, <1>4, <1>5, <1>6, <1>7, RunnerStepInv DEF TablesOK

\* Fewer loose rows, or the same, and no new sweep.
LEMMA LooseKept ==
  ASSUME IInv, loose' \subseteq loose, jobs' = jobs
  PROVE  loose' \in SUBSET LooseRow /\ LooseOK'
BY DEF IInv, TypeOK, LooseOK, Covers

\* What the invariant says of a runner at work.
LEMMA RunnerHere ==
  ASSUME IInv, NEW w \in Runners
  PROVE  /\ TypeOK /\ runner \in [Runners -> Runner] /\ runner[w] \in Runner
         /\ RunnerOK(runner[w]) /\ RunnerOK(Idle) /\ Idle \in Runner /\ Idle.pc = "idle"
         /\ runner[w].pc # "idle" =>
              /\ runner[w].job \in DOMAIN jobs
              /\ jobs[runner[w].job] \in Job
              /\ SiteOf(w) \in Sites
<1>1. TypeOK /\ jobs \in Seq(Job) /\ runner \in [Runners -> Runner] /\ RunnerOK(runner[w])
  BY DEF IInv, TypeOK, RunnersOK
<1>2. Idle \in Runner /\ Idle.pc = "idle" /\ RunnerOK(Idle)
  BY IdleTypes DEF Idle, RunnerOK
<1>3. runner[w].pc # "idle" => runner[w].job \in DOMAIN jobs
  BY <1>1 DEF RunnerOK
<1>4. \A j \in DOMAIN jobs : jobs[j] \in Job /\ jobs[j].of \in Sites
  BY <1>1, JobTyped
<1> QED
  BY <1>1, <1>2, <1>3, <1>4 DEF SiteOf

\* A run that ends without a further write to its job, is cut short, or goes
\* to its catch.
LEMMA EndInv ==
  ASSUME IInv, NEW w \in Runners,
         RunVanishes(w) \/ ReportSiteJob(w) \/ EraseWorkspaceFails(w) \/ StepFails(w) \/ Crash(w)
  PROVE  IInv'
<1>1. UNCHANGED <<tenant, site, linked, jobs, request, translation>> /\ faults' \in Nat
  BY DEF RunVanishes, ReportSiteJob, EraseWorkspaceFails, StepFails, Crash, IInv, TypeOK, content
<1>2. loose' \in SUBSET LooseRow /\ LooseOK'
  <2>1. CASE WriteLoose(Workspace)
    BY <1>1, <2>1, WriteLooseOK DEF Places
  <2>2. CASE loose' = loose
    BY <1>1, <2>2, LooseKept
  <2> QED
    BY <2>1, <2>2 DEF RunVanishes, ReportSiteJob, EraseWorkspaceFails, StepFails, Crash, content
<1>3. CASE Stop(w)
  BY <1>1, <1>2, <1>3, RunnerHere, LocalRunnerInv DEF Stop
<1>4. CASE Advance(w, "fail") /\ runner[w].pc # "idle"
  <2> DEFINE q == [runner[w] EXCEPT !.pc = "fail"]
  <2> HIDE DEF q
  <2>0. runner[w] \in Runner /\ "fail" \in Labels
    BY RunnerHere DEF Labels
  <2>1. q \in Runner /\ q.pc = "fail" /\ q.job = runner[w].job
    BY <2>0, RunnerTyped DEF q
  <2>2. runner' = [runner EXCEPT ![w] = q]
    BY <1>4 DEF Advance, q
  <2>3. RunnerOK(q)
    BY <1>4, <2>1, RunnerHere DEF RunnerOK, SitePCs, TenantPCs
  <2> QED
    BY <1>1, <1>2, <1>4, <2>1, <2>2, <2>3, LocalRunnerInv
<1> QED
  BY <1>3, <1>4 DEF RunVanishes, ReportSiteJob, EraseWorkspaceFails, StepFails, Crash

\* The conditional update gives a QUEUED job to one runner.
LEMMA ClaimInv ==
  ASSUME IInv, NEW w \in Runners, NEW j \in DOMAIN jobs, Claim(w, j) PROVE IInv'
<1> DEFINE q == Begin(j)
<1>1. TypeOK /\ runner \in [Runners -> Runner] /\ jobs \in Seq(Job) /\ jobs[j] \in Job
      /\ runner[w].pc = "idle" /\ jobs[j].status = "QUEUED"
  BY DEF IInv, TypeOK, Claim
<1>2. UNCHANGED <<tenant, site, linked, loose, request, translation, faults>>
      /\ jobs' = [jobs EXCEPT ![j].status = "RUNNING"]
      /\ runner' = [runner EXCEPT ![w] = q]
  BY DEF Claim, content
<1>3. /\ jobs' \in Seq(Job)
      /\ DOMAIN jobs' = DOMAIN jobs
      /\ \A i \in DOMAIN jobs :
           /\ jobs'[i].kind = jobs[i].kind
           /\ jobs'[i].of = jobs[i].of
           /\ jobs'[i].swept = jobs[i].swept
           /\ jobs'[i].status = IF i = j THEN "RUNNING" ELSE jobs[i].status
  BY <1>1, <1>2, StatusTyped
<1>4. /\ q \in Runner /\ q.job = j
      /\ \/ q.pc = "read" /\ jobs[j].kind = "site"
         \/ q.pc = "ws_read" /\ jobs[j].kind = "tenant"
  <2>1. j \in Nat /\ jobs[j].kind \in {"site", "tenant"}
    BY <1>1 DEF Job
  <2> QED
    BY <2>1 DEF Begin, Runner
<1> HIDE DEF q
<1>5. runner' \in [Runners -> Runner]
      /\ \A v \in Runners : runner'[v] = IF v = w THEN q ELSE runner[v]
  BY <1>1, <1>2, <1>4
<1>6. TypeOK'
  BY <1>1, <1>2, <1>3, <1>5 DEF TypeOK
<1>7. \A v \in Runners : runner[v].pc # "idle" => runner[v].job # j
  BY <1>1 DEF IInv, RunnersOK, RunnerOK
<1>8. ClaimsAreExclusive'
  BY <1>4, <1>5, <1>7 DEF IInv, ClaimsAreExclusive
<1>9. RunnerOK(runner[w])'
  BY <1>3, <1>4, <1>5 DEF RunnerOK, SitePCs, TenantPCs
<1>10. ASSUME NEW v \in Runners \ {w} PROVE RunnerOK(runner[v])'
  <2>1. runner'[v] = runner[v] /\ RunnerOK(runner[v])
    BY <1>5 DEF IInv, RunnersOK
  <2> QED
    BY <1>2, <1>3, <2>1 DEF RunnerOK
<1>11. CompletedOK' /\ WorkspaceOK'
  BY <1>1, <1>2, <1>3 DEF IInv, CompletedOK, WorkspaceOK
<1>12. SitesOK' /\ LooseOK'
  BY <1>2, <1>3 DEF IInv, SitesOK, LooseOK, Covers
<1> QED
  BY <1>6, <1>8, <1>9, <1>10, <1>11, <1>12 DEF IInv, RunnersOK

\* The sites are read once: what the run does not find then is gone for good.
LEMMA ReadSiteInv == ASSUME IInv, NEW w \in Runners, ReadSite(w) \/ ReadSites(w) PROVE IInv'
<1>1. UNCHANGED <<tenant, site, linked, loose, jobs, request, translation, faults>>
      /\ runner[w].pc # "idle"
  BY DEF ReadSite, ReadSites, content
<1>2. runner[w] \in Runner /\ RunnerOK(runner[w])
  BY RunnerHere
<1>3. PICK label \in {"linked", "ws_sites"}, found \in SUBSET Sites :
        /\ runner' = [runner EXCEPT ![w] = [runner[w] EXCEPT !.pc = label, !.found = found]]
        /\ label = "linked" =>
             runner[w].pc = "read" /\ found = {s \in {SiteOf(w)} : site[s] # "ERASED"}
        /\ label = "ws_sites" => runner[w].pc = "ws_read"
  <2>1. CASE ReadSite(w)
    <3>1. {s \in {SiteOf(w)} : site[s] # "ERASED"} \in SUBSET Sites
      BY <1>1, RunnerHere
    <3> QED
      BY <2>1, <3>1 DEF ReadSite
  <2>2. CASE ReadSites(w)
    <3>1. {s \in Sites : site[s] # "ERASED"} \in SUBSET Sites
      OBVIOUS
    <3> QED
      BY <2>2, <3>1 DEF ReadSites
  <2> QED
    BY <2>1, <2>2
<1> DEFINE q == [runner[w] EXCEPT !.pc = label, !.found = found]
<1>4. q \in Runner /\ q.pc = label /\ q.job = runner[w].job /\ q.found = found
  BY <1>2 DEF Runner
<1>5. runner' = [runner EXCEPT ![w] = q]
  BY <1>3
<1> HIDE DEF q
<1>6. RunnerOK(q)
  <2>1. CASE label = "linked"
    BY <1>2, <1>3, <1>4, <2>1 DEF RunnerOK, SitePCs, TenantPCs, SiteOf
  <2>2. CASE label = "ws_sites"
    BY <1>2, <1>3, <1>4, <2>2 DEF RunnerOK, SitePCs, TenantPCs
  <2> QED
    BY <2>1, <2>2
<1>7. faults' \in Nat /\ loose' \in SUBSET LooseRow /\ LooseOK'
  BY <1>1, LooseKept DEF IInv, TypeOK
<1> QED
  BY <1>1, <1>4, <1>5, <1>6, <1>7, LocalRunnerInv

LEMMA DeleteLinkedInv == ASSUME IInv, NEW w \in Runners, DeleteLinked(w) PROVE IInv'
<1>1. /\ runner[w].pc = "linked"
      /\ linked' = [linked EXCEPT ![SiteOf(w)] = linked[SiteOf(w)] \ {runner[w].step}]
      /\ UNCHANGED <<tenant, site, loose, jobs, request, translation, faults>>
  BY DEF DeleteLinked
<1> DEFINE label == IF runner[w].step < LinkedSteps THEN "linked" ELSE "sweep"
           q == [runner[w] EXCEPT !.step = runner[w].step + 1, !.pc = label]
<1>2. runner' = [runner EXCEPT ![w] = q]
  BY <1>1 DEF DeleteLinked
<1>3. runner[w] \in Runner /\ RunnerOK(runner[w]) /\ SiteOf(w) \in Sites /\ TypeOK
  BY <1>1, RunnerHere
<1>4. label \in {"linked", "sweep"}
  OBVIOUS
<1> HIDE DEF label
<1>5. q \in Runner /\ q.pc = label /\ q.job = runner[w].job /\ q.found = runner[w].found
  <2>1. runner[w].step + 1 \in Nat
    BY <1>3 DEF Runner
  <2> QED
    BY <1>3, <1>4, <2>1 DEF Runner
<1> HIDE DEF q
<1>6. runner' \in [Runners -> Runner] /\ runner'[w] = q
      /\ \A v \in Runners \ {w} : runner'[v] = runner[v]
  BY <1>2, <1>5, RunnerHere
<1>7. linked' \in [Sites -> SUBSET Kinds] /\ \A s \in Sites : linked'[s] \subseteq linked[s]
  BY <1>1, <1>3 DEF TypeOK
<1>8. TypeOK'
  BY <1>1, <1>3, <1>6, <1>7 DEF TypeOK
<1>9. RunnerOK(runner[w])'
  BY <1>1, <1>3, <1>4, <1>5, <1>6 DEF RunnerOK, SitePCs, TenantPCs
<1>10. Grows
  BY <1>1 DEF Grows
<1>11. CompletedOK' /\ WorkspaceOK'
  BY <1>1 DEF IInv, CompletedOK, WorkspaceOK
<1>12. SitesOK' /\ LooseOK'
  BY <1>1, <1>7 DEF IInv, SitesOK, LooseOK, Covers
<1> QED
  BY <1>1, <1>5, <1>6, <1>8, <1>9, <1>10, <1>11, <1>12, RunnerStepInv DEF TablesOK

\* A sweep leaves none of the rows that its job covers.
LEMMA SweepInv == ASSUME IInv, NEW w \in Runners, SweepSite(w) \/ SweepWorkspace(w) PROVE IInv'
<1> DEFINE j == runner[w].job
<1>1. PICK label \in {"row", "ws_erase"} :
        /\ runner' = [runner EXCEPT ![w].pc = label]
        /\ label = "row" => runner[w].pc = "sweep"
        /\ label = "ws_erase" => runner[w].pc = "ws_sweep"
  BY DEF SweepSite, SweepWorkspace, Advance
<1>2. /\ jobs' = [jobs EXCEPT ![j].swept = TRUE]
      /\ UNCHANGED <<tenant, site, linked, request, translation, faults>>
      /\ runner[w].pc # "idle"
  BY DEF SweepSite, SweepWorkspace, SweptBy
<1>3. runner[w] \in Runner /\ RunnerOK(runner[w]) /\ j \in DOMAIN jobs /\ TypeOK
  BY <1>2, RunnerHere
<1>4. /\ jobs' \in Seq(Job)
      /\ DOMAIN jobs' = DOMAIN jobs
      /\ \A i \in DOMAIN jobs :
           /\ jobs'[i].kind = jobs[i].kind
           /\ jobs'[i].of = jobs[i].of
           /\ jobs'[i].status = jobs[i].status
           /\ jobs'[i].swept = (i = j \/ jobs[i].swept)
  <2> HIDE DEF j
  <2> QED
    BY <1>2, <1>3, SweptTyped
<1>5. loose' \subseteq loose /\ \A row \in loose' : ~Covers(j, row.of)
  <2>1. CASE SweepSite(w)
    <3>1. jobs[j].kind = "site"
      BY <1>3, <2>1 DEF SweepSite, RunnerOK, SitePCs
    <3> QED
      BY <2>1, <3>1 DEF SweepSite, Covers, SiteOf
  <2>2. CASE SweepWorkspace(w)
    BY <2>2 DEF SweepWorkspace
  <2> QED
    BY <2>1, <2>2
<1> DEFINE q == [runner[w] EXCEPT !.pc = label]
<1> HIDE DEF q
<1>6. q \in Runner /\ q.pc = label /\ q.job = j /\ q.found = runner[w].found
  <2>1. label \in Labels
    BY DEF Labels
  <2> QED
    BY <1>3, <2>1, RunnerTyped DEF q
<1>7. runner' = [runner EXCEPT ![w] = q]
  BY <1>1 DEF q
<1>8. runner' \in [Runners -> Runner] /\ runner'[w] = q
      /\ \A v \in Runners \ {w} : runner'[v] = runner[v]
  BY <1>6, <1>7, RunnerHere
<1>9. TypeOK'
  BY <1>2, <1>3, <1>4, <1>5, <1>8 DEF TypeOK
<1>10. RunnerOK(runner[w])'
  <2>1. jobs'[j].swept /\ j \in DOMAIN jobs'
    BY <1>3, <1>4
  <2>2. RunnerOK(runner[w]) /\ jobs'[j].kind = jobs[j].kind /\ jobs'[j].of = jobs[j].of
        /\ jobs'[j].status = jobs[j].status
    BY <1>3, <1>4
  <2> QED
    BY <1>1, <1>2, <1>6, <1>8, <2>1, <2>2 DEF RunnerOK, SitePCs, TenantPCs
<1> HIDE DEF j
<1>11. Grows
  BY <1>2, <1>4 DEF Grows
<1>12. CompletedOK' /\ WorkspaceOK' /\ SitesOK'
  BY <1>2, <1>4 DEF IInv, CompletedOK, WorkspaceOK, SitesOK, Covers
<1>13. LooseOK'
  BY <1>4, <1>5 DEF IInv, LooseOK, Covers
<1> QED
  BY <1>2, <1>6, <1>8, <1>9, <1>10, <1>11, <1>12, <1>13, RunnerStepInv DEF TablesOK, j

LEMMA SweepSitesInv == ASSUME IInv, NEW w \in Runners, SweepSites(w) PROVE IInv'
<1> DEFINE q == [runner[w] EXCEPT !.pc = "ws_sweep"]
<1>1. runner[w].pc = "ws_sites" /\ runner' = [runner EXCEPT ![w] = q]
      /\ loose' \subseteq loose
      /\ UNCHANGED <<tenant, site, linked, jobs, request, translation, faults>>
  BY DEF SweepSites, Advance
<1>2. q \in Runner /\ q.pc = "ws_sweep" /\ q.job = runner[w].job
  BY RunnerHere, RunnerTyped DEF Labels
<1>3. RunnerOK(q)
  BY <1>1, <1>2, RunnerHere DEF RunnerOK, SitePCs, TenantPCs
<1>4. faults' \in Nat /\ loose' \in SUBSET LooseRow /\ LooseOK'
  BY <1>1, LooseKept DEF IInv, TypeOK
<1> HIDE DEF q
<1> QED
  BY <1>1, <1>2, <1>3, <1>4, LocalRunnerInv

\* After step 11 the site is gone, found or not, and its linked rows with it.
LEMMA EraseSiteInv == ASSUME IInv, NEW w \in Runners, EraseSite(w) PROVE IInv'
<1> DEFINE label == IF runner[w].found = {} \/ site[SiteOf(w)] # "ERASED" THEN "complete" ELSE "fail"
           q == [runner[w] EXCEPT !.pc = label]
<1>1. /\ runner[w].pc = "row"
      /\ site' = [s \in Sites |-> IF s \in runner[w].found THEN "ERASED" ELSE site[s]]
      /\ linked' = [s \in Sites |-> IF s \in runner[w].found THEN {} ELSE linked[s]]
      /\ runner' = [runner EXCEPT ![w] = q]
      /\ UNCHANGED <<tenant, loose, jobs, request, translation, faults>>
  BY DEF EraseSite, Advance
<1>2. label \in {"fail", "complete"} /\ label \in Labels
  BY DEF Labels
<1> HIDE DEF label, q
<1>3. q \in Runner /\ q.pc = label /\ q.job = runner[w].job
  BY <1>2, RunnerHere, RunnerTyped DEF q
<1>4. runner' \in [Runners -> Runner] /\ runner'[w] = q
      /\ \A v \in Runners \ {w} : runner'[v] = runner[v]
  BY <1>1, <1>3, RunnerHere
<1>5. TypeOK /\ SiteOf(w) \in Sites /\ RunnerOK(runner[w]) /\ runner[w].job \in DOMAIN jobs
  BY <1>1, RunnerHere
<1>6. runner[w].found \subseteq {SiteOf(w)} /\ jobs[runner[w].job].swept
      /\ jobs[runner[w].job].kind = "site" /\ jobs[runner[w].job].status # "QUEUED"
      /\ (runner[w].found = {} => site[SiteOf(w)] = "ERASED")
  BY <1>1, <1>5 DEF RunnerOK, SitePCs, SiteOf
<1>7. /\ site' \in [Sites -> {"ACTIVE", "ARCHIVED", "ERASED"}]
      /\ linked' \in [Sites -> SUBSET Kinds]
      /\ \A s \in Sites :
           /\ site[s] = "ERASED" => site'[s] = "ERASED"
           /\ s \notin runner[w].found => site'[s] = site[s] /\ linked'[s] = linked[s]
           /\ s \in runner[w].found => site'[s] = "ERASED" /\ linked'[s] = {}
  BY <1>1, <1>5 DEF TypeOK
<1>8. site'[SiteOf(w)] = "ERASED"
  BY <1>5, <1>6, <1>7
<1>9. TypeOK'
  BY <1>1, <1>4, <1>5, <1>7 DEF TypeOK
<1>10. RunnerOK(runner[w])'
  BY <1>1, <1>2, <1>3, <1>4, <1>5, <1>6, <1>8 DEF RunnerOK, SitePCs, TenantPCs, SiteOf
<1>11. Grows
  BY <1>1, <1>7 DEF Grows
<1>12. CompletedOK' /\ WorkspaceOK'
  BY <1>1, <1>7, JobTyped DEF IInv, CompletedOK, WorkspaceOK
<1>13. SitesOK'
  <2>1. \A s \in runner[w].found :
          jobs[runner[w].job].swept /\ Covers(runner[w].job, s)
    BY <1>6 DEF Covers, SiteOf
  <2> QED
    BY <1>1, <1>5, <1>7, <2>1 DEF IInv, SitesOK, Covers
<1>14. LooseOK'
  BY <1>1 DEF IInv, LooseOK, Covers
<1> QED
  BY <1>1, <1>3, <1>4, <1>9, <1>10, <1>11, <1>12, <1>13, <1>14, RunnerStepInv DEF TablesOK

\* A run that writes the last status of its job.
LEMMA SetStatusInv ==
  ASSUME IInv, NEW w \in Runners, NEW status \in {"COMPLETED", "FAILED"}, NEW q \in Runner,
         runner[w].pc # "idle",
         SetStatus(w, status), runner' = [runner EXCEPT ![w] = q],
         UNCHANGED <<tenant, site, linked, loose, request, translation, faults>>,
         q.pc \in {"idle", "report"}, q.job = runner[w].job \/ q.pc = "idle",
         q.pc = "report" => runner[w].pc \in SitePCs,
         tenant = "erased" => jobs[runner[w].job].kind = "tenant",
         status = "COMPLETED" => runner[w].pc \in {"complete", "ws_complete"}
  PROVE  IInv'
<1> DEFINE j == runner[w].job
<1>1. TypeOK /\ runner \in [Runners -> Runner] /\ j \in DOMAIN jobs /\ RunnerOK(runner[w])
  BY RunnerHere
<1>2. jobs' = [jobs EXCEPT ![j].status = status]
  BY DEF SetStatus
<1>3. /\ jobs' \in Seq(Job)
      /\ DOMAIN jobs' = DOMAIN jobs
      /\ \A i \in DOMAIN jobs :
           /\ jobs'[i].kind = jobs[i].kind
           /\ jobs'[i].of = jobs[i].of
           /\ jobs'[i].swept = jobs[i].swept
           /\ jobs'[i].status = IF i = j THEN status ELSE jobs[i].status
  <2>1. status \in {"QUEUED", "RUNNING", "COMPLETED", "FAILED", "ERASED"}
    OBVIOUS
  <2>2. TypeOK
    BY <1>1
  <2>3. j \in DOMAIN jobs
    BY <1>1
  <2> HIDE DEF j
  <2> QED
    BY <1>2, <2>1, <2>2, <2>3, StatusTyped, ZenonT(60)
<1> HIDE DEF j
<1>4. runner' \in [Runners -> Runner] /\ runner'[w] = q
      /\ \A v \in Runners \ {w} : runner'[v] = runner[v]
  BY <1>1
<1>5. TypeOK'
  BY <1>1, <1>3, <1>4 DEF TypeOK
<1>6. Grows
  BY <1>3 DEF Grows
<1>7. RunnerOK(runner[w])'
  BY <1>1, <1>3, <1>4 DEF RunnerOK, SitePCs, TenantPCs, j
<1>8. status = "COMPLETED" =>
        /\ jobs[j].swept
        /\ IF jobs[j].kind = "site" THEN site[jobs[j].of] = "ERASED" ELSE tenant = "erased"
  BY <1>1 DEF RunnerOK, SitePCs, TenantPCs, j
<1>9. CompletedOK'
  BY <1>3, <1>8 DEF IInv, CompletedOK
<1>10. WorkspaceOK'
  BY <1>3 DEF IInv, WorkspaceOK, j
<1>11. SitesOK' /\ LooseOK'
  BY <1>3 DEF IInv, SitesOK, LooseOK, Covers
<1> QED
  BY <1>4, <1>5, <1>6, <1>7, <1>9, <1>10, <1>11, RunnerStepInv DEF TablesOK

LEMMA FinishInv ==
  ASSUME IInv, NEW w \in Runners, CompleteSiteJob(w) \/ CompleteTenantJob(w) \/ FailJob(w)
  PROVE  IInv'
<1>1. TypeOK /\ RunnerOK(runner[w]) /\ runner[w] \in Runner /\ Idle \in Runner /\ Idle.pc = "idle"
  BY RunnerHere
<1>2. runner[w].pc # "idle" => jobs[runner[w].job].kind \in {"site", "tenant"}
  BY RunnerHere DEF Job
<1>3. tenant = "erased" /\ runner[w].pc # "idle" /\ ~RowGone(w)
        => jobs[runner[w].job].kind = "tenant"
  BY <1>1, <1>2 DEF RunnerOK, RowGone, IInv, WorkspaceOK
<1>4. UNCHANGED <<tenant, site, linked, loose, request, translation, faults>>
  BY DEF CompleteSiteJob, CompleteTenantJob, FailJob, content
<1>5. CASE CompleteSiteJob(w)
  <2> DEFINE q == [runner[w] EXCEPT !.pc = "report"]
  <2>1. q \in Runner /\ q.pc = "report" /\ q.job = runner[w].job
    <3>1. "report" \in Labels
      BY DEF Labels
    <3> QED
      BY <1>1, <3>1, RunnerTyped
  <2>2. /\ runner[w].pc = "complete" /\ ~RowGone(w)
        /\ SetStatus(w, "COMPLETED") /\ runner' = [runner EXCEPT ![w] = q]
    BY <1>5 DEF CompleteSiteJob, Advance
  <2> HIDE DEF q
  <2> QED
    BY <1>3, <1>4, <2>1, <2>2, SetStatusInv DEF SitePCs
<1>6. CASE CompleteTenantJob(w)
  BY <1>1, <1>4, <1>6, SetStatusInv DEF CompleteTenantJob, Stop, RunnerOK, TenantPCs
<1>7. CASE FailJob(w)
  BY <1>1, <1>3, <1>4, <1>7, SetStatusInv DEF FailJob, Stop
<1> QED
  BY <1>5, <1>6, <1>7

\* Erasing the workspace takes its sites and their jobs along.
LEMMA EraseWorkspaceInv == ASSUME IInv, NEW w \in Runners, EraseWorkspace(w) PROVE IInv'
<1> DEFINE q == [runner[w] EXCEPT !.pc = "ws_complete"]
           erased == [j \in DOMAIN jobs |->
             IF jobs[j].kind = "site" THEN [jobs[j] EXCEPT !.status = "ERASED"] ELSE jobs[j]]
<1>1. /\ runner[w].pc = "ws_erase" /\ tenant = "present" /\ tenant' = "erased"
      /\ site' = [s \in Sites |-> "ERASED"] /\ linked' = [s \in Sites |-> {}]
      /\ jobs' = erased /\ runner' = [runner EXCEPT ![w] = q]
      /\ UNCHANGED <<loose, request, translation, faults>>
  BY DEF EraseWorkspace, Advance
<1> HIDE DEF q
<1>2. q \in Runner /\ q.pc = "ws_complete" /\ q.job = runner[w].job
  <2>1. runner[w] \in Runner /\ "ws_complete" \in Labels
    BY RunnerHere DEF Labels
  <2> QED
    BY <2>1, RunnerTyped DEF q
<1>3. runner' \in [Runners -> Runner] /\ runner'[w] = q
      /\ \A v \in Runners \ {w} : runner'[v] = runner[v]
  BY <1>1, <1>2, RunnerHere
<1>4. ASSUME NEW j \in DOMAIN jobs
      PROVE  /\ erased[j] \in Job
             /\ erased[j].kind = jobs[j].kind /\ erased[j].of = jobs[j].of
             /\ erased[j].swept = jobs[j].swept
             /\ erased[j].status = IF jobs[j].kind = "site" THEN "ERASED" ELSE jobs[j].status
  <2>1. jobs[j] \in Job
    BY JobTyped DEF IInv
  <2>2. CASE jobs[j].kind = "site"
    <3>1. erased[j] = [jobs[j] EXCEPT !.status = "ERASED"]
      BY <2>2
    <3> QED
      BY <2>1, <2>2, <3>1 DEF Job
  <2>3. CASE jobs[j].kind # "site"
    BY <2>1, <2>3
  <2> QED
    BY <2>2, <2>3
<1>5. DOMAIN erased = DOMAIN jobs
  OBVIOUS
<1>6. erased \in Seq(Job)
  <2>1. jobs \in Seq(Job)
    BY DEF IInv, TypeOK
  <2>2. DOMAIN jobs = 1..Len(jobs) /\ Len(jobs) \in Nat
    BY <2>1, LenProperties
  <2>3. erased = [j \in 1..Len(jobs) |-> erased[j]]
    BY <2>2
  <2>4. \A j \in 1..Len(jobs) : erased[j] \in Job
    BY <1>4, <2>2
  <2> HIDE DEF erased
  <2>5. [j \in 1..Len(jobs) |-> erased[j]] \in Seq(Job)
    BY <2>2, <2>4
  <2> QED
    BY <2>3, <2>5
<1> HIDE DEF erased
<1>7. TypeOK'
  <2>1. site' \in [Sites -> {"ACTIVE", "ARCHIVED", "ERASED"}] /\ linked' \in [Sites -> SUBSET Kinds]
    BY <1>1
  <2> QED
    BY <1>1, <1>3, <1>6, <2>1 DEF IInv, TypeOK
<1>8. Grows
  BY <1>1, <1>4, <1>5 DEF Grows
<1>9. runner[w].job \in DOMAIN jobs /\ jobs[runner[w].job].kind = "tenant"
      /\ jobs[runner[w].job].swept /\ jobs[runner[w].job].status # "QUEUED"
  BY <1>1, RunnerHere DEF RunnerOK, SitePCs, TenantPCs
<1>10. RunnerOK(runner[w])'
  BY <1>1, <1>2, <1>3, <1>4, <1>5, <1>9 DEF RunnerOK, SitePCs, TenantPCs
<1>11. CompletedOK' /\ WorkspaceOK'
  BY <1>1, <1>4, <1>5, <1>9 DEF IInv, CompletedOK, WorkspaceOK
<1>12. SitesOK'
  <2>1. erased[runner[w].job].swept /\ erased[runner[w].job].kind = "tenant"
        /\ runner[w].job \in DOMAIN erased
    BY <1>4, <1>5, <1>9
  <2> QED
    BY <1>1, <2>1 DEF SitesOK, Covers
<1>13. LooseOK'
  BY <1>1, <1>4, <1>5 DEF IInv, LooseOK, Covers
<1> QED
  BY <1>1, <1>2, <1>3, <1>7, <1>8, <1>10, <1>11, <1>12, <1>13, RunnerStepInv DEF TablesOK

-----------------------------------------------------------------------------
\* Every step preserves the inductive invariant.
LEMMA NextIInv == IInv /\ [Next]_vars => IInv'
<1> SUFFICES ASSUME IInv, [Next]_vars PROVE IInv'
  OBVIOUS
<1>1. ASSUME NEW r \in Requests, RequestStep(r) PROVE IInv'
  BY <1>1, RequestInv
<1>2. ASSUME NEW w \in Runners, RunnerStep(w) \/ StepFails(w) \/ Crash(w) PROVE IInv'
  BY <1>2, ClaimInv, EndInv, ReadSiteInv, DeleteLinkedInv, SweepInv, SweepSitesInv,
     EraseSiteInv, FinishInv, EraseWorkspaceInv DEF RunnerStep
<1>3. CASE UNCHANGED vars
  <2>1. TypeOK' /\ LooseOK'
    BY <1>3 DEF vars, content, IInv, TypeOK, LooseOK, Covers
  <2> QED
    BY <1>3, <2>1, LocalInv DEF vars, content
<1> QED
  BY <1>1, <1>2, <1>3, WriterInv DEF Next

LEMMA Invariance == Spec => []IInv
BY InitIInv, NextIInv, PTL DEF Spec

\* Rows, jobs, handlers and runs keep their types.
THEOREM TypeCorrect == Spec => []TypeOK
<1>1. IInv => TypeOK
  BY DEF IInv
<1> QED
  BY <1>1, Invariance, PTL

\* However many cron services tick at once, a job is worked off by one.
THEOREM ExclusiveClaims == Spec => []ClaimsAreExclusive
<1>1. IInv => ClaimsAreExclusive
  BY DEF IInv
<1> QED
  BY <1>1, Invariance, PTL

\* Whoever writes content, restores sites or deletes beside its separately
\* committed steps, a COMPLETED job has left none of the rows it names but
\* loose ones that were written after its own sweep.
THEOREM CompletedJobs == Spec => []CompletedMeansErased
<1>1. IInv => CompletedMeansErased
  BY Consequences
<1> QED
  BY <1>1, Invariance, PTL

\* No site, linked row or site job outlives the workspace, and no loose row
\* that was there before a sweep of the whole workspace.
THEOREM WorkspaceErasure == Spec => []NothingOutlivesWorkspace
<1>1. IInv => NothingOutlivesWorkspace
  BY Consequences
<1> QED
  BY <1>1, Invariance, PTL

\* Linked rows go with their site at the latest, in every order of runs,
\* faults, restores and writers; a loose row that stays is younger than some
\* sweep for it.
THEOREM NoOrphans == Spec => []NothingOrphaned
<1>1. IInv => NothingOrphaned
  BY Consequences
<1> QED
  BY <1>1, Invariance, PTL

\* No step writes a row that is gone, or a linked row of one.
LEMMA ErasedStays ==
  ASSUME TypeOK, [Next]_vars, NEW s \in Sites, Erased(s) PROVE Erased(s)'
<1>1. site \in [Sites -> {"ACTIVE", "ARCHIVED", "ERASED"}] /\ linked \in [Sites -> SUBSET Kinds]
  BY DEF TypeOK
<1>2. ASSUME NEW r \in Requests, NEW label, NEW status, SetSite(r, label, status)
      PROVE  Erased(s)'
  <2>1. site'[s] = "ERASED"
    BY <1>1, <1>2 DEF SetSite, Erased
  <2> QED
    BY <1>2, <2>1 DEF SetSite, Erased, content
<1>3. ASSUME NEW r \in Requests, RequestStep(r)
      PROVE  UNCHANGED <<site, linked>> \/ WriteArchive(r) \/ WriteRestore(r)
  BY <1>3 DEF RequestStep, ReadArchive, ReadRestore, ReadImpact, ReadWorkspace, Start,
     CheckSiteJobs, CheckTenantJobs, CheckWorkspaceJobs, CheckWorkspaceSites, Check,
     CreateSiteJob, CreateTenantJob, Insert, NotifyQueued, content
<1>4. ASSUME NEW w \in Runners, DeleteLinked(w) \/ EraseSite(w) \/ EraseWorkspace(w)
      PROVE  Erased(s)'
  BY <1>1, <1>4 DEF DeleteLinked, EraseSite, EraseWorkspace, Erased
<1>5. ASSUME NEW w \in Runners, RunnerStep(w) \/ StepFails(w) \/ Crash(w)
      PROVE  \/ UNCHANGED <<site, linked>>
             \/ DeleteLinked(w) \/ EraseSite(w) \/ EraseWorkspace(w)
  BY <1>5 DEF RunnerStep, Claim, RunVanishes, ReadSite, SweepSite, CompleteSiteJob,
     ReportSiteJob, ReadSites, SweepSites, SweepWorkspace, EraseWorkspaceFails,
     CompleteTenantJob, FailJob, StepFails, Crash, content
<1>6. ASSUME NEW t \in Translations, TranslationStep(t) PROVE UNCHANGED <<site, linked>>
  BY <1>6 DEF TranslationStep, FinishTranslation, RecordUsage, content
<1>7. ASSUME NEW i \in Sites, NEW k \in Kinds, AddRows(i, k) PROVE Erased(s)'
  BY <1>1, <1>7 DEF AddRows, Erased
<1> QED
  BY <1>2, <1>3, <1>4, <1>5, <1>6, <1>7 DEF Next, vars, content, WriteArchive, WriteRestore, Erased

\* Nobody finds a site that is gone, and only who has found it writes for it.
LEMMA UnattendedStays ==
  ASSUME TypeOK, [Next]_vars, NEW s \in Sites, Erased(s), Unattended(s)
  PROVE  Unattended(s)' /\ LooseRows(s)' \subseteq LooseRows(s)
<1> USE DEF Unattended, LooseRows
<1>1. s # Workspace
  BY WorkspaceAssumption
<1>2. WriteLoose(Workspace) => LooseRows(s)' \subseteq LooseRows(s)
  BY <1>1 DEF WriteLoose
<1>3. ASSUME NEW r \in Requests, RequestStep(r) PROVE translation' = translation
  BY <1>3 DEF RequestStep, ReadArchive, ReadRestore, ReadImpact, ReadWorkspace, Start,
     WriteArchive, WriteRestore, SetSite, CheckSiteJobs, CheckTenantJobs, CheckWorkspaceJobs,
     CheckWorkspaceSites, Check, CreateSiteJob, CreateTenantJob, Insert, NotifyQueued
<1>4. ASSUME NEW r \in Requests, RequestStep(r) PROVE loose' = loose \/ WriteLoose(Workspace)
  BY <1>4 DEF RequestStep, ReadArchive, ReadRestore, ReadImpact, ReadWorkspace, Start,
     WriteArchive, WriteRestore, SetSite, CheckSiteJobs, CheckTenantJobs, CheckWorkspaceJobs,
     CheckWorkspaceSites, Check, CreateSiteJob, CreateTenantJob, Insert, NotifyQueued, content
<1>5. ASSUME NEW w \in Runners, RunnerStep(w) \/ StepFails(w) \/ Crash(w)
      PROVE  translation' = translation
  BY <1>5 DEF RunnerStep, Claim, RunVanishes, ReadSite, DeleteLinked, SweepSite, EraseSite,
     CompleteSiteJob, ReportSiteJob, ReadSites, SweepSites, SweepWorkspace, EraseWorkspace,
     EraseWorkspaceFails, CompleteTenantJob, FailJob, StepFails, Crash
<1>6. ASSUME NEW w \in Runners, RunnerStep(w) \/ StepFails(w) \/ Crash(w)
      PROVE  loose' \subseteq loose \/ WriteLoose(Workspace)
  BY <1>6 DEF RunnerStep, Claim, RunVanishes, ReadSite, DeleteLinked, SweepSite, EraseSite,
     CompleteSiteJob, ReportSiteJob, ReadSites, SweepSites, SweepWorkspace, EraseWorkspace,
     EraseWorkspaceFails, CompleteTenantJob, FailJob, StepFails, Crash, content
<1>7. ASSUME NEW t \in Translations, NEW i \in Sites, FinishTranslation(t, i)
      PROVE  Unattended(s)' /\ loose' = loose
  <2>1. i # s
    BY <1>7 DEF FinishTranslation, Erased
  <2> QED
    BY <1>7, <2>1 DEF FinishTranslation, content, TypeOK
<1>8. ASSUME NEW t \in Translations, RecordUsage(t)
      PROVE  Unattended(s)' /\ LooseRows(s)' \subseteq LooseRows(s)
  <2>1. translation[t].of # s
    BY <1>8 DEF RecordUsage
  <2>2. LooseRows(s)' \subseteq LooseRows(s)
    BY <1>8, <2>1 DEF RecordUsage, WriteLoose
  <2>3. translation' = [translation EXCEPT ![t] = Untranslated] /\ Untranslated.pc = "idle"
    BY <1>8 DEF RecordUsage, Untranslated
  <2> QED
    BY <2>2, <2>3 DEF TypeOK
<1>9. ASSUME NEW i \in Sites, NEW k \in Kinds, AddRows(i, k)
      PROVE  translation' = translation /\ loose' = loose
  BY <1>9 DEF AddRows
<1>10. ASSUME translation' = translation, loose' \subseteq loose \/ WriteLoose(Workspace)
       PROVE  Unattended(s)' /\ LooseRows(s)' \subseteq LooseRows(s)
  BY <1>2, <1>10
<1>11. CASE UNCHANGED vars
  BY <1>10, <1>11 DEF vars, content
<1> QED
  BY <1>3, <1>4, <1>5, <1>6, <1>7, <1>8, <1>9, <1>10, <1>11 DEF Next, TranslationStep

\* A permanent deletion is permanent, whatever was read before it; the loose
\* rows that come after it end with the translations that found the site.
THEOREM FinalErasure == Spec => ErasureIsFinal
<1>1. TypeOK /\ [Next]_vars =>
        [\A s \in Sites :
           /\ Erased(s) => Erased(s)'
           /\ Erased(s) /\ Unattended(s) =>
                Unattended(s)' /\ LooseRows(s)' \subseteq LooseRows(s)]_vars
  BY ErasedStays, UnattendedStays
<1> QED
  BY <1>1, TypeCorrect, PTL DEF Spec, ErasureIsFinal

=============================================================================
