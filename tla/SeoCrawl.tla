------------------------------ MODULE SeoCrawl ------------------------------
(***************************************************************************)
(* One SEO crawl: the job row, CrawlerService.runJob with the breadth-     *)
(* first engine it drives (crawler-engine.ts), cancellation, and the       *)
(* start-up of API processes, which fails jobs it takes for stranded.      *)
(*                                                                         *)
(* The engine keeps up to Concurrency pages in flight.  A page is fetched, *)
(* its rows are pushed to three shared buffers, and a buffer that is full  *)
(* is spliced off and inserted.  Tasks interleave at each await; what lies *)
(* between two awaits is one action, the loop's next launches included.    *)
(* Progress counters, link targets and image findings are left out: their  *)
(* errors are caught on the spot and nothing here reads them.              *)
(***************************************************************************)
EXTENDS Integers, Sequences, FiniteSets

CONSTANTS
  Urls,            \* addresses of the site
  Start,           \* startUrl
  Links,           \* outboundInternalUrls of each page, in order
  UrlLimits,       \* values of job.urlLimit
  Depths,          \* values of job.maxDepth
  Concurrency,     \* DEFAULT_CONCURRENCY
  ResultChunk, IssueChunk, LinkChunk,   \* sizes at which a buffer is flushed
  IssuesPerPage, LinksPerPage,          \* rows a page contributes
  MaxFaults        \* bound: crashes, failed statements, other processes' starts

\* fetchOne returns the links of a page without repeats (dedupe).
ASSUME SiteAssumption ==
  /\ Start \in Urls /\ Links \in [Urls -> Seq(Urls)]
  /\ \A u \in Urls : \A i, j \in DOMAIN Links[u] : Links[u][i] = Links[u][j] => i = j

ASSUME OptionsAssumption ==
  /\ UrlLimits \subseteq Nat \ {0} /\ Depths \subseteq Nat
  /\ Concurrency \in Nat \ {0}

ASSUME CountsAssumption ==
  /\ ResultChunk \in Nat /\ IssueChunk \in Nat /\ LinkChunk \in Nat
  /\ IssuesPerPage \in Nat /\ LinksPerPage \in Nat /\ MaxFaults \in Nat

VARIABLES
  status,     \* SeoCrawlJob.status
  stored,     \* pages whose result, issue and link rows are in the database
  options,    \* job.urlLimit and job.maxDepth
  runner,     \* where runJob is
  cancelled,  \* state.cancelled of the entry in activeJobs
  canceller,  \* where cancelCrawl is
  depth,      \* visited: the depth of each address, NotVisited without one
  queue,      \* addresses to fetch
  task,       \* the pages in flight
  buffer,     \* resultBuffer, issueBuffer, linkBuffer, by page
  pages,      \* what onPage has recorded: the outcome of each page
  faults      \* faults so far

engine == <<depth, queue, task, buffer, pages>>
vars == <<status, stored, options, runner, cancelled, canceller, depth, queue,
          task, buffer, pages, faults>>

-----------------------------------------------------------------------------
Active == {"PENDING", "RUNNING"}

RunnerPCs == {"scheduled", "read", "mark", "begin", "engine", "flush", "broken",
              "complete", "cancel", "fail", "done", "dead", "unreported"}

\* runJob has put the job into activeJobs and not taken it out again.
Registered == runner \notin {"scheduled", "done", "dead", "unreported"}

\* Stages of flushBuffers, in order.
Results == 1
Issues == 2
PageLinks == 3
Stages == 1..3

NotVisited == -1

\* followed: 2xx or 3xx and indexable; noindex: answered, not followed;
\* broken: no answer, or a status of 400 and more.
Outcomes == {"followed", "noindex", "broken"}

NoTask == [pc |-> "none", outcome |-> "none", stage |-> Results, batch |-> {}]

InFlight == {u \in Urls : task[u].pc # "none"}

Visited == {u \in Urls : depth[u] # NotVisited}

Recorded == {u \in Urls : pages[u] # "none"}

RowsOf(stage, batch) ==
  Cardinality(batch) * (CASE stage = Results -> 1
                          [] stage = Issues -> IssuesPerPage
                          [] stage = PageLinks -> LinksPerPage)

ChunkOf(stage) ==
  CASE stage = Results -> ResultChunk
    [] stage = Issues -> IssueChunk
    [] stage = PageLinks -> LinkChunk

Full(buf) == {k \in Stages : buf[k] # {} /\ RowsOf(k, buf[k]) >= ChunkOf(k)}

\* The foreign keys of issues and links: their page has a result row.
MayInsert(stage, batch) == stage = Results \/ batch \subseteq stored[Results]

First(S) == CHOOSE k \in S : \A j \in S : k <= j

Lesser(m, n) == IF m < n THEN m ELSE n

-----------------------------------------------------------------------------
Init ==
  /\ status = "PENDING"
  /\ stored = [k \in Stages |-> {}]
  /\ options \in [urlLimit : UrlLimits, maxDepth : Depths]
  /\ runner = "scheduled"
  /\ cancelled = FALSE
  /\ canceller = "idle"
  /\ depth = [u \in Urls |-> NotVisited]
  /\ queue = <<>>
  /\ task = [u \in Urls |-> NoTask]
  /\ buffer = [k \in Stages |-> {}]
  /\ pages = [u \in Urls |-> "none"]
  /\ faults = 0

Fault == faults < MaxFaults /\ faults' = faults + 1

Move(pc, next) ==
  /\ runner = pc /\ runner' = next
  /\ UNCHANGED <<options, cancelled, canceller, engine>>

-----------------------------------------------------------------------------
(* runJob up to the engine.                                                *)

Register == Move("scheduled", "read") /\ UNCHANGED <<status, stored, faults>>

ReadJob ==
  /\ Move("read", IF status \in {"CANCELED", "FAILED"} THEN "done" ELSE "mark")
  /\ UNCHANGED <<status, stored, faults>>

\* By id only: what happened to the row since it was read is overwritten.
MarkRunning ==
  /\ Move("mark", "begin")
  /\ status' = "RUNNING"
  /\ UNCHANGED <<stored, faults>>

\* runCrawlEngine: a crawl that is cancelled by now launches nothing.
Begin ==
  /\ runner = "begin"
  /\ depth' = [depth EXCEPT ![Start] = 0]
  /\ IF cancelled
     THEN runner' = "flush" /\ queue' = <<Start>> /\ UNCHANGED task
     ELSE runner' = "engine" /\ task' = [task EXCEPT ![Start].pc = "fetch"] /\ UNCHANGED queue
  /\ UNCHANGED <<status, stored, options, cancelled, canceller, buffer, pages, faults>>

-----------------------------------------------------------------------------
(* The engine.                                                             *)

Elements(q) == {q[i] : i \in DOMAIN q}

Unvisited(u) == Elements(Links[u]) \ Visited

Precedes(u, v, w) ==
  \E i, j \in DOMAIN Links[u] : i < j /\ Links[u][i] = v /\ Links[u][j] = w

\* The first n links of u that are not visited yet.  There is one such list.
FirstLinks(u, n) ==
  {list \in [1..n -> Unvisited(u)] :
     /\ \A i, j \in 1..n : i < j => Precedes(u, list[i], list[j])
     /\ \A v \in Unvisited(u) :
          (\E i \in 1..n : list[i] = v) \/ \A i \in 1..n : Precedes(u, list[i], v)}

Followed(u, outcome) == outcome = "followed" /\ depth[u] < options.maxDepth

\* Mutant: the limit is compared once per page, not once per link.
FreshPerPage(u, outcome) ==
  FirstLinks(u, IF Followed(u, outcome) /\ Cardinality(Visited) < options.urlLimit
                THEN Cardinality(Unvisited(u)) ELSE 0)

\* Mutant: one level of links too few.
FreshShallow(u, outcome) ==
  FirstLinks(u, IF outcome = "followed" /\ depth[u] + 1 < options.maxDepth
                THEN Lesser(Cardinality(Unvisited(u)),
                            options.urlLimit - Cardinality(Visited))
                ELSE 0)

\* The links of u that are queued: one by one until urlLimit is reached.
Fresh(u, outcome) ==
  FirstLinks(u, IF Followed(u, outcome)
                THEN Lesser(Cardinality(Unvisited(u)),
                            options.urlLimit - Cardinality(Visited))
                ELSE 0)

\* Mutant: a cancelled engine works off what is queued.
LaunchedRegardless(u, q) ==
  SubSeq(q, 1, Lesser(Len(q), Concurrency - Cardinality(InFlight \ {u})))

\* What the loop launches once u is no longer in flight.
Launched(u, q) ==
  IF cancelled THEN <<>>
  ELSE SubSeq(q, 1, Lesser(Len(q), Concurrency - Cardinality(InFlight \ {u})))

\* Mutant: pages in flight are not waited for.
EngineOverEarly(flying, q) == q = <<>> \/ cancelled

\* The loop has ended and what it left in flight has settled.
EngineOver(flying, q) == flying = {} /\ (q = <<>> \/ cancelled)

\* onPage has returned, or has thrown, which the engine ignores.
Leave(u, outcome) ==
  \E fresh \in Fresh(u, outcome) :
    LET all  == queue \o fresh
        next == Launched(u, all)
        rest == SubSeq(all, Len(next) + 1, Len(all))
    IN  /\ depth' = [v \in Urls |->
             IF v \in Elements(fresh) THEN depth[u] + 1 ELSE depth[v]]
        /\ queue' = rest
        /\ task' = [v \in Urls |->
             IF v \in Elements(next) THEN [NoTask EXCEPT !.pc = "fetch"]
             ELSE IF v = u THEN NoTask ELSE task[v]]
        /\ runner' = IF EngineOver((InFlight \ {u}) \cup Elements(next), rest)
                     THEN "flush" ELSE runner

\* flushBuffers from a stage on: the first full buffer is spliced off and its
\* insert awaited, without one onPage returns.
FlushFrom(stage, u, outcome, buf) ==
  LET full == {k \in Full(buf) : k >= stage} IN
  IF full = {} THEN buffer' = buf /\ Leave(u, outcome)
  ELSE /\ buffer' = [buf EXCEPT ![First(full)] = {}]
       /\ task' = [task EXCEPT ![u] = [pc |-> "insert", outcome |-> outcome,
                                       stage |-> First(full), batch |-> buf[First(full)]]]
       /\ UNCHANGED <<depth, queue, runner>>

\* What a page adds: a page without an answer has no links.
Pushed(u, outcome) ==
  [k \in Stages |->
     IF k = PageLinks /\ outcome = "broken" THEN buffer[k] ELSE buffer[k] \cup {u}]

\* The fetch of u ends, by an answer or by its timeout.
PageFetched(u, outcome) ==
  /\ runner = "engine" /\ task[u].pc = "fetch"
  /\ IF cancelled
     THEN Leave(u, outcome) /\ UNCHANGED <<buffer, pages>>
     ELSE /\ pages' = [pages EXCEPT ![u] = outcome]
          /\ FlushFrom(Results, u, outcome, Pushed(u, outcome))
  /\ UNCHANGED <<status, stored, options, cancelled, canceller, faults>>

\* createMany of the batch task u has spliced off.
Insert(u) ==
  /\ runner = "engine" /\ task[u].pc = "insert"
  /\ LET t == task[u] IN
     IF MayInsert(t.stage, t.batch)
     THEN /\ stored' = [stored EXCEPT ![t.stage] = @ \cup t.batch]
          /\ FlushFrom(t.stage + 1, u, t.outcome, buffer)
     ELSE /\ Leave(u, t.outcome)
          /\ UNCHANGED <<stored, buffer>>
  /\ UNCHANGED <<status, options, cancelled, canceller, pages, faults>>

\* The insert fails: onPage throws, its batch is lost.
InsertFails(u) ==
  /\ runner = "engine" /\ task[u].pc = "insert"
  /\ Fault
  /\ Leave(u, task[u].outcome)
  /\ UNCHANGED <<status, stored, options, cancelled, canceller, buffer, pages>>

-----------------------------------------------------------------------------
(* runJob after the engine.                                                *)

\* Mutant: the last flush keeps to the chunk sizes.
FlushRestChunked ==
  /\ runner = "flush"
  /\ IF Full(buffer) = {}
     THEN runner' = "broken" /\ UNCHANGED <<stored, buffer>>
     ELSE LET k == First(Full(buffer)) IN
          IF MayInsert(k, buffer[k])
          THEN /\ stored' = [stored EXCEPT ![k] = @ \cup buffer[k]]
               /\ buffer' = [buffer EXCEPT ![k] = {}]
               /\ UNCHANGED runner
          ELSE runner' = "fail" /\ UNCHANGED <<stored, buffer>>
  /\ UNCHANGED <<status, options, cancelled, canceller, depth, queue, task, pages, faults>>

\* flushBuffers(..., true): what is left, one buffer after the other.
FlushRest ==
  /\ runner = "flush"
  /\ LET left == {k \in Stages : buffer[k] # {}} IN
     IF left = {}
     THEN runner' = "broken" /\ UNCHANGED <<stored, buffer>>
     ELSE LET k == First(left) IN
          IF MayInsert(k, buffer[k])
          THEN /\ stored' = [stored EXCEPT ![k] = @ \cup buffer[k]]
               /\ buffer' = [buffer EXCEPT ![k] = {}]
               /\ UNCHANGED runner
          ELSE runner' = "fail" /\ UNCHANGED <<stored, buffer>>
  /\ UNCHANGED <<status, options, cancelled, canceller, depth, queue, task, pages, faults>>

\* Pages that link to a broken one: their result rows are updated.
Referrers ==
  {u \in Recorded : pages[u] # "broken"
     /\ \E v \in Elements(Links[u]) : pages[v] = "broken"}

\* applyBrokenLinkPass throws without one of those rows; then the flag decides.
BrokenLinkPass ==
  /\ Move("broken", IF ~(Referrers \subseteq stored[Results]) THEN "fail"
                    ELSE IF cancelled THEN "cancel" ELSE "complete")
  /\ UNCHANGED <<status, stored, faults>>

WriteCompleted ==
  Move("complete", "done") /\ status' = "COMPLETED" /\ UNCHANGED <<stored, faults>>

\* Mutant: a status the enum does not have.
WriteCancelled ==
  Move("cancel", "done") /\ status' = "CANCELLED" /\ UNCHANGED <<stored, faults>>

WriteCanceled ==
  Move("cancel", "done") /\ status' = "CANCELED" /\ UNCHANGED <<stored, faults>>

WriteFailed ==
  Move("fail", "done") /\ status' = "FAILED" /\ UNCHANGED <<stored, faults>>

\* A statement inside the try fails ...
StatementFails ==
  /\ Fault
  /\ \E pc \in {"read", "mark", "flush", "broken", "complete", "cancel"} : Move(pc, "fail")
  /\ UNCHANGED <<status, stored>>

\* ... or the write of the catch, which is swallowed.
WriteFailedFails == Fault /\ Move("fail", "unreported") /\ UNCHANGED <<status, stored>>

-----------------------------------------------------------------------------
(* cancelCrawl in the runner's process (here) or another; crashes, starts. *)

\* The status is read; the flag is set if this process runs the job.
CancelRead(here) ==
  /\ canceller = "idle" /\ status \in Active
  /\ canceller' = "write"
  /\ cancelled' = (cancelled \/ (here /\ Registered))
  /\ UNCHANGED <<status, stored, options, runner, engine, faults>>

CancelWrite ==
  /\ canceller = "write"
  /\ canceller' = "idle"
  /\ status' = "CANCELED"
  /\ UNCHANGED <<stored, options, runner, cancelled, engine, faults>>

Crash ==
  /\ Fault
  /\ runner \notin {"done", "dead", "unreported"}
  /\ runner' = "dead"
  /\ UNCHANGED <<status, stored, options, cancelled, canceller, engine>>

\* Mutant: jobs that are still PENDING are not taken for stranded.
RecoverRunning ==
  /\ runner = "dead" /\ status = "RUNNING"
  /\ status' = "FAILED"
  /\ UNCHANGED <<stored, options, runner, cancelled, canceller, engine, faults>>

\* onModuleInit of the process that died, once it is back ...
Recover ==
  /\ runner = "dead" /\ status \in Active
  /\ status' = "FAILED"
  /\ UNCHANGED <<stored, options, runner, cancelled, canceller, engine, faults>>

\* ... and of any other process: the job need not be stranded.
OtherProcessStarts ==
  /\ Fault
  /\ status \in Active
  /\ status' = "FAILED"
  /\ UNCHANGED <<stored, options, runner, cancelled, canceller, engine>>

-----------------------------------------------------------------------------
RunnerStep ==
  \/ Register \/ ReadJob \/ MarkRunning \/ Begin
  \/ \E u \in Urls : Insert(u) \/ \E outcome \in Outcomes : PageFetched(u, outcome)
  \/ FlushRest \/ BrokenLinkPass \/ WriteCompleted \/ WriteCanceled \/ WriteFailed

Next ==
  \/ RunnerStep
  \/ \E u \in Urls : InsertFails(u)
  \/ StatementFails \/ WriteFailedFails \/ Crash \/ Recover \/ OtherProcessStarts
  \/ CancelWrite \/ \E here \in BOOLEAN : CancelRead(here)

Spec == Init /\ [][Next]_vars

\* Fetches time out and statements are answered; a dead process is restarted.
FairSpec == Spec /\ WF_vars(RunnerStep) /\ WF_vars(Recover)

-----------------------------------------------------------------------------
(* Properties.                                                             *)

TypeOK ==
  /\ status \in {"PENDING", "RUNNING", "COMPLETED", "CANCELED", "FAILED"}
  /\ stored \in [Stages -> SUBSET Urls]
  /\ options \in [urlLimit : UrlLimits, maxDepth : Depths]
  /\ runner \in RunnerPCs
  /\ cancelled \in BOOLEAN
  /\ canceller \in {"idle", "write"}
  /\ depth \in [Urls -> Nat \cup {NotVisited}]
  /\ queue \in Seq(Urls)
  /\ task \in [Urls -> [pc : {"none", "fetch", "insert"}, outcome : Outcomes \cup {"none"},
                        stage : Stages, batch : SUBSET Urls]]
  /\ buffer \in [Stages -> SUBSET Urls]
  /\ pages \in [Urls -> Outcomes \cup {"none"}]
  /\ faults \in Nat

\* The crawl keeps to its plan's urlLimit and to maxDepth, although several
\* pages add links at the same time, and fetches no address twice.
WithinBudget ==
  /\ Cardinality(Visited) <= options.urlLimit
  /\ Cardinality(InFlight) <= Concurrency
  /\ \A u \in Visited : depth[u] <= options.maxDepth
  /\ \A i \in DOMAIN queue :
       /\ queue[i] \in Visited \ (Recorded \cup InFlight)
       /\ \A j \in DOMAIN queue : queue[i] = queue[j] => i = j

\* An engine that returns uncancelled has recorded every address it visited,
\* and visited every link it had to follow or used up the limit.
CrawlIsExhaustive ==
  runner \in {"flush", "broken", "complete"} /\ ~cancelled =>
    /\ Visited = Recorded
    /\ \A u \in Recorded :
         pages[u] = "followed" /\ depth[u] < options.maxDepth =>
           \/ Elements(Links[u]) \subseteq Visited
           \/ Cardinality(Visited) = options.urlLimit

\* Nothing is in flight when the runner writes its last rows and the verdict:
\* no task pushes to a buffer that is not flushed again.
EngineIsDrained ==
  runner \in {"flush", "broken", "complete", "cancel"} => InFlight = {}

\* Without faults a COMPLETED crawl has a result row for every page it counts.
ResultsAreStored ==
  faults = 0 /\ status = "COMPLETED" => stored[Results] = Recorded

\* "when true the engine stops the BFS gracefully": once the flag is set no
\* fetch is launched and no page recorded.
CancelStopsFetching ==
  [][cancelled => pages' = pages
                  /\ \A u \in Urls : task'[u].pc = "fetch" => task[u].pc = "fetch"]_vars

\* Once runJob has ended, its verdict stands: no start of a process and no
\* new cancellation takes the job up again.  Only a cancelCrawl that had read
\* the row before may still write CANCELED over it.
VerdictIsFinal ==
  [][runner = "done" =>
       /\ runner' = "done" /\ status' \notin Active
       /\ status' # status => canceller = "write" /\ status' = "CANCELED"]_vars

\* A job ends COMPLETED, CANCELED or FAILED, also when its process dies, as
\* long as the FAILED of a caught error is not itself lost.
JobSettles ==
  status \in Active ~> status \notin Active \/ runner = "unreported"

\* "Persistence errors are surfaced via the runner's own try/catch": a crawl
\* that ends COMPLETED has lost no row of any kind.
CompletedIsComplete ==
  status = "COMPLETED" =>
    /\ stored[Results] = Recorded
    /\ stored[Issues] = Recorded
    /\ stored[PageLinks] = {u \in Recorded : pages[u] # "broken"}
=============================================================================
