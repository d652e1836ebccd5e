--------------------------- MODULE SeoCrawlProofs ---------------------------
(* Proofs about SeoCrawl, for any site, any limits, any concurrency and    *)
(* any sizes of the buffers.                                               *)
EXTENDS SeoCrawl, SequenceTheorems, FiniteSetTheorems, TLAPS

Distinct(q) == \A i, j \in DOMAIN q : q[i] = q[j] => i = j

Early == {"scheduled", "read", "mark", "begin"}
Drained == {"flush", "broken", "complete", "cancel"}
Working == {"engine", "flush", "broken", "complete"}

\* The visited set, the queue and the pages in flight fit together and keep
\* to the limits of the job.
EngineOK ==
  /\ IsFiniteSet(Visited) /\ Cardinality(Visited) <= options.urlLimit
  /\ InFlight \subseteq Visited /\ Recorded \subseteq Visited
  /\ Cardinality(InFlight) <= Concurrency
  /\ \A u \in Visited : depth[u] <= options.maxDepth
  /\ Elements(queue) \subseteq Visited \ (Recorded \cup InFlight)
  /\ Distinct(queue)
  /\ runner \in Early => Visited = {}

\* A page is recorded between its fetch and its insert.
TasksOK ==
  \A u \in Urls :
    /\ task[u].pc = "fetch" => pages[u] = "none"
    /\ task[u].pc = "insert" => pages[u] = task[u].outcome /\ pages[u] # "none"

\* The links of u were followed as far as the limit allowed.
Explored(u) ==
  pages[u] = "followed" /\ depth[u] < options.maxDepth =>
    Elements(Links[u]) \subseteq Visited \/ Cardinality(Visited) = options.urlLimit

\* Until it is cancelled the engine forgets nothing it has visited.
ExploredOK ==
  ~cancelled /\ runner \in Working =>
    /\ Visited = Recorded \cup InFlight \cup Elements(queue)
    /\ \A u \in Recorded \ InFlight : Explored(u)
    /\ runner # "engine" => queue = <<>>

\* Result rows spliced off by the tasks of other pages than u, by any task.
BatchedBut(u) ==
  {v \in Urls : \E w \in Urls \ {u} :
     task[w].pc = "insert" /\ task[w].stage = Results /\ v \in task[w].batch}

Batched ==
  {v \in Urls : \E w \in Urls :
     task[w].pc = "insert" /\ task[w].stage = Results /\ v \in task[w].batch}

\* Without faults the result row of a recorded page is stored or on its way.
RowsOK ==
  /\ runner \in Early => stored[Results] = {} /\ buffer[Results] = {}
  /\ faults = 0 /\ runner \in Working =>
       Recorded = stored[Results] \cup buffer[Results] \cup Batched
  /\ faults = 0 /\ runner \in {"broken", "complete"} => buffer[Results] = {}
  /\ status = "COMPLETED" => runner = "done"

IInv == /\ TypeOK /\ EngineOK /\ TasksOK /\ EngineIsDrained
        /\ ExploredOK /\ RowsOK /\ ResultsAreStored

-----------------------------------------------------------------------------
(* Sequences as the sets of their elements.                                *)

LEMMA ElementsCount ==
  ASSUME NEW S, NEW q \in Seq(S)
  PROVE  /\ Elements(q) \subseteq S /\ IsFiniteSet(Elements(q))
         /\ Cardinality(Elements(q)) \in Nat /\ Len(q) \in Nat
         /\ Cardinality(Elements(q)) <= Len(q)
<1>1. q \in [1..Len(q) -> S] /\ DOMAIN q = 1..Len(q) /\ Len(q) \in Nat
  BY LenProperties
<1>2. Elements(q) = {q[i] : i \in 1..Len(q)}
  BY <1>1 DEF Elements
<1>3. q \in Surjection(1..Len(q), Elements(q))
  BY <1>1, <1>2 DEF Surjection
<1>4. IsFiniteSet(1..Len(q)) /\ Cardinality(1..Len(q)) = Len(q)
  <2>1. /\ IsFiniteSet(1..Len(q))
        /\ Cardinality(1..Len(q)) = IF 1 > Len(q) THEN 0 ELSE Len(q) - 1 + 1
    BY <1>1, FS_Interval
  <2> QED
    BY <1>1, <2>1
<1>5. IsFiniteSet(Elements(q)) /\ Cardinality(Elements(q)) <= Cardinality(1..Len(q))
  BY <1>3, <1>4, FS_Surjection
<1>6. Cardinality(Elements(q)) \in Nat
  BY <1>5, FS_CardinalityType
<1> QED
  BY <1>1, <1>2, <1>4, <1>5, <1>6

LEMMA ElementsConcat ==
  ASSUME NEW S, NEW s \in Seq(S), NEW t \in Seq(S)
  PROVE  /\ s \o t \in Seq(S) /\ Len(s \o t) = Len(s) + Len(t)
         /\ Elements(s \o t) = Elements(s) \cup Elements(t)
         /\ Distinct(s) /\ Distinct(t) /\ Elements(s) \cap Elements(t) = {} => Distinct(s \o t)
<1> DEFINE st == s \o t
           m == Len(s)
           n == Len(t)
<1>1. m \in Nat /\ n \in Nat /\ DOMAIN s = 1..m /\ DOMAIN t = 1..n
  BY LenProperties
<1>2. /\ st \in Seq(S) /\ Len(st) = m + n
      /\ \A i \in 1..m + n : st[i] = IF i <= m THEN s[i] ELSE t[i - m]
  BY ConcatProperties
<1>3. DOMAIN st = 1..m + n
  BY <1>2, LenProperties
<1> HIDE DEF st, m, n
<1>4. Elements(st) \subseteq Elements(s) \cup Elements(t)
  <2> SUFFICES ASSUME NEW i \in 1..m + n PROVE st[i] \in Elements(s) \cup Elements(t)
    BY <1>3 DEF Elements
  <2>1. CASE i <= m
    <3>1. i \in DOMAIN s /\ st[i] = s[i]
      BY <1>1, <1>2, <2>1
    <3> QED
      BY <3>1 DEF Elements
  <2>2. CASE ~(i <= m)
    <3>1. i - m \in 1..n
      BY <1>1, <2>2
    <3> QED
      BY <1>1, <1>2, <2>2, <3>1 DEF Elements
  <2> QED
    BY <2>1, <2>2
<1>5. Elements(s) \subseteq Elements(st)
  <2> SUFFICES ASSUME NEW i \in 1..m PROVE s[i] \in Elements(st)
    BY <1>1 DEF Elements
  <2>1. i \in 1..m + n /\ st[i] = s[i]
    BY <1>1, <1>2
  <2> QED
    BY <1>3, <2>1 DEF Elements
<1>6. Elements(t) \subseteq Elements(st)
  <2> SUFFICES ASSUME NEW i \in 1..n PROVE t[i] \in Elements(st)
    BY <1>1 DEF Elements
  <2>1. i + m \in 1..m + n /\ ~(i + m <= m) /\ (i + m) - m = i
    BY <1>1
  <2>2. st[i + m] = t[i]
    BY <1>2, <2>1
  <2> QED
    BY <1>3, <2>1, <2>2 DEF Elements
<1>7. ASSUME Distinct(s), Distinct(t), Elements(s) \cap Elements(t) = {} PROVE Distinct(st)
  <2> SUFFICES ASSUME NEW i \in 1..m + n, NEW j \in 1..m + n, st[i] = st[j] PROVE i = j
    BY <1>3 DEF Distinct
  <2>1. CASE i <= m /\ j <= m
    BY <1>1, <1>2, <1>7, <2>1 DEF Distinct
  <2>2. CASE ~(i <= m) /\ ~(j <= m)
    <3>1. i - m \in 1..n /\ j - m \in 1..n /\ st[i] = t[i - m] /\ st[j] = t[j - m]
      BY <1>1, <1>2, <2>2
    <3>2. i - m = j - m
      BY <1>1, <1>7, <3>1 DEF Distinct
    <3> QED
      BY <1>1, <3>2
  <2>3. \A k, l \in 1..m + n : k <= m /\ ~(l <= m) => st[k] # st[l]
    <3> SUFFICES ASSUME NEW k \in 1..m + n, NEW l \in 1..m + n, k <= m, ~(l <= m)
                 PROVE  st[k] # st[l]
      OBVIOUS
    <3>1. k \in 1..m /\ l - m \in 1..n /\ st[k] = s[k] /\ st[l] = t[l - m]
      BY <1>1, <1>2
    <3>2. s[k] \in Elements(s) /\ t[l - m] \in Elements(t)
      BY <1>1, <3>1 DEF Elements
    <3> QED
      BY <1>7, <3>1, <3>2
  <2> QED
    BY <2>1, <2>2, <2>3
<1> QED
  BY <1>2, <1>4, <1>5, <1>6, <1>7 DEF st, m, n

\* Cutting a sequence in two.
LEMMA ElementsSplit ==
  ASSUME NEW S, NEW s \in Seq(S), NEW m \in 0..Len(s)
  PROVE  LET a == SubSeq(s, 1, m)
             b == SubSeq(s, m + 1, Len(s))
         IN  /\ a \in Seq(S) /\ b \in Seq(S) /\ Len(a) = m /\ Len(b) = Len(s) - m
             /\ Elements(s) = Elements(a) \cup Elements(b)
             /\ Distinct(s) => Distinct(b) /\ Elements(a) \cap Elements(b) = {}
<1> DEFINE a == SubSeq(s, 1, m)
           b == SubSeq(s, m + 1, Len(s))
           n == Len(s)
<1>1. n \in Nat /\ m \in Nat /\ m <= n /\ DOMAIN s = 1..n /\ \A i \in 1..n : s[i] \in S
  BY LenProperties
<1>2. /\ a \in Seq(S) /\ Len(a) = IF 1 <= m THEN m - 1 + 1 ELSE 0
      /\ \A i \in 1..m - 1 + 1 : a[i] = s[1 + i - 1]
  <2>1. \A i \in 1..m : s[i] \in S
    BY <1>1
  <2> QED
    BY <1>1, <2>1, SubSeqProperties
<1>3. /\ b \in Seq(S) /\ Len(b) = IF m + 1 <= n THEN n - (m + 1) + 1 ELSE 0
      /\ \A i \in 1..n - (m + 1) + 1 : b[i] = s[(m + 1) + i - 1]
  <2>1. \A i \in m + 1..n : s[i] \in S
    BY <1>1
  <2>2. m + 1 \in Int /\ n \in Int
    BY <1>1
  <2> QED
    BY <2>1, <2>2, SubSeqProperties
<1> HIDE DEF a, b, n
<1>4. Len(a) = m /\ DOMAIN a = 1..m /\ \A i \in 1..m : a[i] = s[i]
  <2>1. Len(a) = m /\ \A i \in 1..m : a[i] = s[i]
    BY <1>1, <1>2
  <2> QED
    BY <1>2, <2>1, LenProperties
<1>5. Len(b) = n - m /\ DOMAIN b = 1..n - m /\ \A i \in 1..n - m : b[i] = s[m + i]
  <2>1. Len(b) = n - m /\ \A i \in 1..n - m : b[i] = s[m + i]
    BY <1>1, <1>3
  <2> QED
    BY <1>3, <2>1, LenProperties
<1>6. Elements(s) \subseteq Elements(a) \cup Elements(b)
  <2> SUFFICES ASSUME NEW i \in 1..n PROVE s[i] \in Elements(a) \cup Elements(b)
    BY <1>1 DEF Elements
  <2>1. CASE i <= m
    <3>1. i \in DOMAIN a /\ a[i] = s[i]
      BY <1>1, <1>4, <2>1
    <3> QED
      BY <3>1 DEF Elements
  <2>2. CASE ~(i <= m)
    <3>1. i - m \in 1..n - m /\ m + (i - m) = i
      BY <1>1, <2>2
    <3>2. b[i - m] = s[i]
      BY <1>5, <3>1
    <3> QED
      BY <1>5, <3>1, <3>2 DEF Elements
  <2> QED
    BY <2>1, <2>2
<1>7. Elements(a) \subseteq Elements(s)
  <2> SUFFICES ASSUME NEW i \in 1..m PROVE a[i] \in Elements(s)
    BY <1>4 DEF Elements
  <2>1. i \in DOMAIN s /\ a[i] = s[i]
    BY <1>1, <1>4
  <2> QED
    BY <2>1 DEF Elements
<1>8. Elements(b) \subseteq Elements(s)
  <2> SUFFICES ASSUME NEW i \in 1..n - m PROVE b[i] \in Elements(s)
    BY <1>5 DEF Elements
  <2>1. m + i \in DOMAIN s /\ b[i] = s[m + i]
    BY <1>1, <1>5
  <2> QED
    BY <2>1 DEF Elements
<1>9. ASSUME Distinct(s) PROVE Distinct(b) /\ Elements(a) \cap Elements(b) = {}
  <2>1. Distinct(b)
    <3> SUFFICES ASSUME NEW i \in 1..n - m, NEW j \in 1..n - m, b[i] = b[j] PROVE i = j
      BY <1>5 DEF Distinct
    <3>1. m + i \in DOMAIN s /\ m + j \in DOMAIN s /\ s[m + i] = s[m + j]
      BY <1>1, <1>5
    <3>2. m + i = m + j
      BY <1>9, <3>1 DEF Distinct
    <3> QED
      BY <1>1, <3>2
  <2>2. Elements(a) \cap Elements(b) = {}
    <3> SUFFICES ASSUME NEW i \in 1..m, NEW j \in 1..n - m, a[i] = b[j] PROVE FALSE
      BY <1>4, <1>5 DEF Elements
    <3>1. i \in DOMAIN s /\ m + j \in DOMAIN s /\ s[i] = s[m + j] /\ i # m + j
      BY <1>1, <1>4, <1>5
    <3> QED
      BY <1>9, <3>1 DEF Distinct
  <2> QED
    BY <2>1, <2>2
<1> QED
  BY <1>2, <1>3, <1>4, <1>5, <1>6, <1>7, <1>8, <1>9 DEF a, b, n

-----------------------------------------------------------------------------
LEMMA FirstInStages == ASSUME NEW S \in SUBSET Stages, S # {} PROVE First(S) \in S
<1>1. \E k \in S : \A j \in S : k <= j
  <2>1. CASE 1 \in S
    BY <2>1 DEF Stages
  <2>2. CASE 1 \notin S /\ 2 \in S
    BY <2>2 DEF Stages
  <2>3. CASE 1 \notin S /\ 2 \notin S
    <3>1. \A j \in S : j = 3
      BY <2>3 DEF Stages
    <3> QED
      BY <3>1
  <2> QED
    BY <2>1, <2>2, <2>3
<1> QED
  BY <1>1 DEF First

\* What the invariant says of one page, in the terms of its variables.
LEMMA Here ==
  ASSUME IInv
  PROVE  /\ IsFiniteSet(Visited) /\ Cardinality(Visited) \in Nat
         /\ options.urlLimit \in Nat /\ options.maxDepth \in Nat
         /\ Cardinality(Visited) <= options.urlLimit
         /\ IsFiniteSet(InFlight) /\ Cardinality(InFlight) \in Nat
         /\ \A u \in Visited : depth[u] \in Nat
         /\ \A u \in Urls : /\ task[u].pc \in {"none", "fetch", "insert"}
                            /\ task[u].outcome \in Outcomes \cup {"none"}
                            /\ task[u].stage \in Stages /\ task[u].batch \subseteq Urls
<1>1. IsFiniteSet(Visited) /\ Cardinality(Visited) \in Nat
      /\ Cardinality(Visited) <= options.urlLimit /\ InFlight \in SUBSET Visited
  BY FS_CardinalityType DEF IInv, EngineOK
<1>2. IsFiniteSet(InFlight) /\ Cardinality(InFlight) \in Nat
  <2>1. IsFiniteSet(InFlight)
    BY <1>1, FS_Subset
  <2> QED
    BY <2>1, FS_CardinalityType
<1>3. options.urlLimit \in Nat /\ options.maxDepth \in Nat
  BY OptionsAssumption DEF IInv, TypeOK
<1>4. \A u \in Visited : depth[u] \in Nat
  BY DEF IInv, TypeOK, Visited
<1>5. \A u \in Urls : /\ task[u].pc \in {"none", "fetch", "insert"}
                      /\ task[u].outcome \in Outcomes \cup {"none"}
                      /\ task[u].stage \in Stages /\ task[u].batch \subseteq Urls
  BY DEF IInv, TypeOK
<1> QED
  BY <1>1, <1>2, <1>3, <1>4, <1>5

\* The links a page adds are new, fit into the limit, and are all it has to
\* add unless the limit is used up.
LEMMA FreshFacts ==
  ASSUME IInv, NEW u \in Urls, NEW outcome, NEW list \in Fresh(u, outcome)
  PROVE  /\ list \in Seq(Urls) /\ Distinct(list)
         /\ Elements(list) \cap Visited = {}
         /\ IsFiniteSet(Elements(list)) /\ Cardinality(Elements(list)) \in Nat
         /\ Cardinality(Visited) + Cardinality(Elements(list)) <= options.urlLimit
         /\ Elements(list) # {} => depth[u] < options.maxDepth
         /\ Followed(u, outcome) =>
              \/ Elements(Links[u]) \subseteq Visited \cup Elements(list)
              \/ Cardinality(Visited) + Cardinality(Elements(list)) = options.urlLimit
<1> DEFINE new == Unvisited(u)
           left == options.urlLimit - Cardinality(Visited)
           n == IF Followed(u, outcome) THEN Lesser(Cardinality(new), left) ELSE 0
<1>1. left \in Nat
  BY Here
<1>2. Links[u] \in Seq(Urls)
  BY SiteAssumption
<1>3. IsFiniteSet(new) /\ Cardinality(new) \in Nat /\ new \subseteq Urls
  <2>1. IsFiniteSet(Elements(Links[u])) /\ Elements(Links[u]) \subseteq Urls
    BY <1>2, ElementsCount
  <2>2. new \in SUBSET Elements(Links[u])
    BY DEF Unvisited
  <2>3. IsFiniteSet(new)
    BY <2>1, <2>2, FS_Subset
  <2> QED
    BY <2>1, <2>2, <2>3, FS_CardinalityType
<1>4. n \in Nat /\ n <= left /\ (Followed(u, outcome) => n = Cardinality(new) \/ n = left)
  BY <1>1, <1>3 DEF Lesser
<1>5. /\ list \in [1..n -> new]
      /\ \A i, j \in 1..n : i < j => Precedes(u, list[i], list[j])
  BY DEF Fresh, FirstLinks
<1>6. new \cap Visited = {} /\ Elements(Links[u]) \subseteq new \cup Visited
  BY DEF Unvisited
<1> HIDE DEF n, new, left
<1>7. list \in Seq(Urls) /\ DOMAIN list = 1..n /\ Len(list) = n
  <2>1. list = [i \in 1..n |-> list[i]] /\ \A i \in 1..n : list[i] \in Urls
    BY <1>3, <1>5
  <2>2. [i \in 1..n |-> list[i]] \in Seq(Urls)
    BY <1>4, <2>1
  <2>3. list \in Seq(Urls)
    BY <2>1, <2>2
  <2> QED
    BY <1>4, <1>5, <2>3
<1>8. Elements(list) \subseteq new
  BY <1>5, <1>7 DEF Elements
<1>9. \A i, j \in 1..n : i < j => list[i] # list[j]
  <2> SUFFICES ASSUME NEW i \in 1..n, NEW j \in 1..n, i < j, list[i] = list[j] PROVE FALSE
    OBVIOUS
  <2>1. PICK k, l \in DOMAIN Links[u] : k < l /\ Links[u][k] = list[i] /\ Links[u][l] = list[j]
    BY <1>5 DEF Precedes
  <2>2. k = l
    BY <2>1, SiteAssumption
  <2>3. k \in Nat
    BY <1>2, <2>1
  <2> QED
    BY <2>1, <2>2, <2>3
<1>10. \A i, j \in 1..n : list[i] = list[j] => i = j
  <2> SUFFICES ASSUME NEW i \in 1..n, NEW j \in 1..n, list[i] = list[j] PROVE i = j
    OBVIOUS
  <2>1. ~(i < j) /\ ~(j < i)
    BY <1>9
  <2> QED
    BY <1>4, <2>1
<1>11. Distinct(list)
  BY <1>7, <1>10 DEF Distinct
<1>12. IsFiniteSet(1..n) /\ Cardinality(1..n) = n
  <2>1. IsFiniteSet(1..n) /\ Cardinality(1..n) = IF 1 > n THEN 0 ELSE n - 1 + 1
    BY <1>4, FS_Interval
  <2> QED
    BY <1>4, <2>1
<1>13. IsFiniteSet(Elements(list)) /\ Cardinality(Elements(list)) = n
  <2>1. list \in Surjection(1..n, Elements(list)) /\ list \in Injection(1..n, Elements(list))
    <3>1. Elements(list) = {list[i] : i \in 1..n}
      BY <1>7 DEF Elements
    <3> QED
      BY <1>5, <1>10, <3>1 DEF Surjection, Injection, IsInjective
  <2> QED
    BY <1>12, <2>1, FS_Surjection
<1>14. n = Cardinality(new) => Elements(list) = new
  BY <1>3, <1>8, <1>13, FS_Subset
<1>15. Cardinality(Visited) + n <= options.urlLimit
       /\ (n = left => Cardinality(Visited) + n = options.urlLimit)
  BY <1>1, <1>4, Here DEF left
<1>16. Elements(list) # {} => depth[u] < options.maxDepth
  <2> SUFFICES ASSUME ~(depth[u] < options.maxDepth) PROVE Elements(list) = {}
    OBVIOUS
  <2>1. n = 0
    BY DEF n, Followed
  <2> QED
    BY <1>7, <2>1 DEF Elements
<1>17. Followed(u, outcome) =>
         \/ Elements(Links[u]) \subseteq Visited \cup Elements(list)
         \/ Cardinality(Visited) + n = options.urlLimit
  BY <1>4, <1>6, <1>14, <1>15
<1> QED
  BY <1>4, <1>6, <1>7, <1>8, <1>11, <1>13, <1>15, <1>16, <1>17

-----------------------------------------------------------------------------
Task == [pc : {"none", "fetch", "insert"}, outcome : Outcomes \cup {"none"},
         stage : Stages, batch : SUBSET Urls]

LEMMA NoTaskTyped ==
  /\ NoTask \in Task /\ NoTask.pc = "none"
  /\ [NoTask EXCEPT !.pc = "fetch"] \in Task
  /\ [NoTask EXCEPT !.pc = "fetch"].pc = "fetch"
<1>1. Results \in Stages
  BY DEF Results, Stages
<1> QED
  BY <1>1 DEF NoTask, Task

\* The initial state satisfies the inductive invariant.
LEMMA InitIInv == Init => IInv
<1> SUFFICES ASSUME Init PROVE IInv
  OBVIOUS
<1>1. Visited = {} /\ InFlight = {} /\ Recorded = {} /\ Elements(queue) = {}
  BY DEF Init, Visited, InFlight, Recorded, Elements, NotVisited, NoTask
<1>2. TypeOK
  <2>1. task \in [Urls -> Task]
    BY NoTaskTyped DEF Init
  <2>2. queue \in Seq(Urls) /\ depth \in [Urls -> Nat \cup {NotVisited}]
    BY DEF Init
  <2> QED
    BY <2>1, <2>2 DEF Init, TypeOK, RunnerPCs, Task
<1>3. EngineOK
  <2>1. IsFiniteSet(Visited) /\ Cardinality(Visited) = 0 /\ Cardinality(InFlight) = 0
    BY <1>1, FS_EmptySet
  <2>2. options.urlLimit \in Nat /\ Concurrency \in Nat
    BY OptionsAssumption DEF Init
  <2>3. Distinct(queue)
    BY DEF Init, Distinct
  <2> QED
    BY <1>1, <2>1, <2>2, <2>3 DEF EngineOK
<1>4. TasksOK /\ EngineIsDrained /\ ExploredOK /\ ResultsAreStored
  BY <1>1 DEF Init, TasksOK, EngineIsDrained, ExploredOK, ResultsAreStored, NoTask, Working
<1>5. RowsOK
  BY DEF Init, RowsOK, Working, Stages, Results
<1> QED
  BY <1>2, <1>3, <1>4, <1>5 DEF IInv

\* A step that leaves the engine and the rows alone and moves the runner on,
\* cancels the job or rewrites its status.
LEMMA SameEngine ==
  ASSUME IInv, UNCHANGED <<engine, options, stored>>,
         runner' \in RunnerPCs, cancelled' \in BOOLEAN, canceller' \in {"idle", "write"},
         status' \in {"PENDING", "RUNNING", "COMPLETED", "CANCELED", "FAILED"},
         faults' \in Nat, faults' = 0 => faults = 0, cancelled => cancelled',
         runner' \in Early => runner \in Early,
         runner' \in Drained => runner \in Drained,
         runner' \in Working => runner \in Working /\ (runner = "engine" => runner' = "engine"),
         faults' = 0 /\ runner' \in {"broken", "complete"} => buffer[Results] = {},
         status' = "COMPLETED" =>
           runner' = "done" /\ (status = "COMPLETED" \/ runner = "complete")
  PROVE  IInv'
<1>1. /\ Visited' = Visited /\ InFlight' = InFlight /\ Recorded' = Recorded
      /\ Batched' = Batched /\ \A u : Explored(u)' <=> Explored(u)
  BY DEF engine, Visited, InFlight, Recorded, Batched, Explored
<1>2. TypeOK'
  BY DEF IInv, TypeOK, engine
<1>3. EngineOK'
  BY <1>1 DEF IInv, EngineOK, engine, Distinct
<1>4. TasksOK' /\ EngineIsDrained'
  BY <1>1 DEF IInv, TasksOK, EngineIsDrained, engine, Drained
<1>5. ExploredOK'
  BY <1>1 DEF IInv, ExploredOK, engine
<1>6. RowsOK'
  BY <1>1 DEF IInv, RowsOK, engine
<1>7. ResultsAreStored'
  <2>1. CASE runner = "complete" /\ faults = 0
    <3>1. InFlight = {} /\ Recorded = stored[Results] \cup buffer[Results] \cup Batched
          /\ buffer[Results] = {}
      BY <2>1 DEF IInv, EngineIsDrained, RowsOK, Working
    <3>2. Batched = {}
      BY <3>1 DEF Batched, InFlight
    <3> QED
      BY <1>1, <3>1, <3>2 DEF ResultsAreStored
  <2>2. CASE ~(runner = "complete" /\ faults = 0)
    BY <1>1, <2>2 DEF IInv, ResultsAreStored
  <2> QED
    BY <2>1, <2>2
<1> QED
  BY <1>2, <1>3, <1>4, <1>5, <1>6, <1>7 DEF IInv

\* The statements of runJob before and after the engine.
LEMMA MoveInv ==
  ASSUME IInv,
         \/ Register \/ ReadJob \/ MarkRunning \/ BrokenLinkPass
         \/ WriteCompleted \/ WriteCanceled \/ WriteFailed
         \/ StatementFails \/ WriteFailedFails
  PROVE  IInv'
<1> USE DEF RunnerPCs, Early, Drained, Working
<1>1. /\ UNCHANGED <<engine, options, stored, cancelled, canceller>>
      /\ faults' \in Nat /\ (faults' = 0 => faults = 0)
  BY DEF Register, ReadJob, MarkRunning, BrokenLinkPass, WriteCompleted, WriteCanceled,
         WriteFailed, StatementFails, WriteFailedFails, Move, Fault, IInv, TypeOK
<1>2. TypeOK /\ RowsOK
  BY DEF IInv
<1>3. CASE Register \/ ReadJob \/ MarkRunning
  BY <1>1, <1>2, <1>3, SameEngine DEF Register, ReadJob, MarkRunning, Move, TypeOK, RowsOK
<1>4. CASE BrokenLinkPass
  BY <1>1, <1>2, <1>4, SameEngine DEF BrokenLinkPass, Move, TypeOK, RowsOK
<1>5. CASE WriteCompleted \/ WriteCanceled \/ WriteFailed
  BY <1>1, <1>2, <1>5, SameEngine
     DEF WriteCompleted, WriteCanceled, WriteFailed, Move, TypeOK, RowsOK
<1>6. CASE StatementFails \/ WriteFailedFails
  BY <1>1, <1>2, <1>6, SameEngine DEF StatementFails, WriteFailedFails, Move, TypeOK, RowsOK
<1> QED
  BY <1>3, <1>4, <1>5, <1>6

\* Cancellations, crashes and starts of processes.
LEMMA OutsideInv ==
  ASSUME IInv,
         \/ CancelWrite \/ Crash \/ Recover \/ OtherProcessStarts
         \/ \E here \in BOOLEAN : CancelRead(here)
  PROVE  IInv'
<1> USE DEF RunnerPCs, Early, Drained, Working
<1>1. /\ UNCHANGED <<engine, options, stored>> /\ (runner' = runner \/ runner' = "dead")
      /\ faults' \in Nat /\ (faults' = 0 => faults = 0)
      /\ cancelled' \in BOOLEAN /\ (cancelled => cancelled')
      /\ canceller' \in {"idle", "write"}
  BY DEF CancelWrite, Crash, Recover, OtherProcessStarts, CancelRead, Registered, Fault,
         IInv, TypeOK
<1>2. /\ status' \in {"PENDING", "RUNNING", "COMPLETED", "CANCELED", "FAILED"}
      /\ status' = "COMPLETED" => status = "COMPLETED" /\ runner' = runner
  BY DEF CancelWrite, Crash, Recover, OtherProcessStarts, CancelRead, Active, IInv, TypeOK, RowsOK
<1>3. TypeOK /\ RowsOK
  BY DEF IInv
<1> QED
  BY <1>1, <1>2, <1>3, SameEngine DEF TypeOK, RowsOK

-----------------------------------------------------------------------------
\* What the engine's record of the job starts with.
LEMMA BeginInv == ASSUME IInv, Begin PROVE IInv'
<1>1. /\ runner = "begin" /\ Visited = {} /\ Start \in Urls
      /\ UNCHANGED <<status, stored, options, cancelled, canceller, buffer, pages, faults>>
      /\ depth' = [depth EXCEPT ![Start] = 0]
  BY SiteAssumption DEF Begin, IInv, EngineOK, Early
<1>2. InFlight = {} /\ Recorded = {} /\ Recorded' = {}
  BY <1>1 DEF IInv, EngineOK, Recorded
<1>3. depth' \in [Urls -> Nat \cup {NotVisited}] /\ depth'[Start] = 0
      /\ \A u \in Urls \ {Start} : depth'[u] = depth[u]
  BY <1>1 DEF IInv, TypeOK
<1>4. Visited' = {Start}
  BY <1>1, <1>3 DEF Visited, NotVisited
<1>5. IsFiniteSet({Start}) /\ Cardinality({Start}) = 1
  BY FS_Singleton
<1>6. 1 <= options.urlLimit /\ 0 <= options.maxDepth /\ 1 <= Concurrency /\ Concurrency \in Nat
  <2>1. options.urlLimit \in UrlLimits /\ options.maxDepth \in Depths
    BY DEF IInv, TypeOK
  <2>2. options.urlLimit \in Nat \ {0} /\ options.maxDepth \in Nat
    BY <2>1, OptionsAssumption
  <2> QED
    BY <2>2, OptionsAssumption
<1>7. stored[Results] = {} /\ buffer[Results] = {} /\ Batched = {} /\ status # "COMPLETED"
  BY <1>1, <1>2 DEF IInv, RowsOK, Early, Batched, InFlight
<1>8. CASE cancelled
  <2>1. runner' = "flush" /\ queue' = <<Start>> /\ task' = task
    BY <1>8 DEF Begin
  <2>2. DOMAIN queue' = 1..1 /\ queue'[1] = Start /\ queue' \in Seq(Urls)
    BY <1>1, <2>1
  <2>3. Elements(queue') = {Start} /\ Distinct(queue')
    BY <2>2 DEF Elements, Distinct
  <2>4. InFlight' = {} /\ Batched' = Batched
    BY <1>2, <2>1 DEF InFlight, Batched
  <2>5. Cardinality(InFlight') = 0
    BY <2>4, FS_EmptySet
  <2>6. TypeOK'
    BY <1>1, <1>3, <2>1, <2>2 DEF IInv, TypeOK, RunnerPCs
  <2>7. EngineOK'
    <3>1. Elements(queue)' = {Start} /\ Distinct(queue)'
      BY <2>3 DEF Elements, Distinct
    <3>2. Cardinality(InFlight') <= Concurrency
      BY <1>6, <2>5
    <3> QED
      BY <1>1, <1>2, <1>3, <1>4, <1>5, <1>6, <2>1, <2>4, <3>1, <3>2 DEF EngineOK, Early
  <2>8. TasksOK' /\ EngineIsDrained' /\ ExploredOK'
    BY <1>1, <1>8, <2>1, <2>4 DEF IInv, TasksOK, EngineIsDrained, ExploredOK
  <2>9. RowsOK' /\ ResultsAreStored'
    BY <1>1, <1>2, <1>7, <2>1, <2>4 DEF RowsOK, ResultsAreStored, Early, Working
  <2> QED
    BY <2>6, <2>7, <2>8, <2>9 DEF IInv
<1>9. CASE ~cancelled
  <2>1. runner' = "engine" /\ queue' = queue /\ task' = [task EXCEPT ![Start].pc = "fetch"]
    BY <1>9 DEF Begin
  <2>2. task \in [Urls -> Task]
    BY DEF IInv, TypeOK, Task
  <2>3. task' \in [Urls -> Task] /\ task'[Start].pc = "fetch"
        /\ \A u \in Urls \ {Start} : task'[u] = task[u]
    <3> DEFINE t == [task[Start] EXCEPT !.pc = "fetch"]
    <3>1. t \in Task /\ t.pc = "fetch"
      BY <1>1, <2>2 DEF Task
    <3>2. task' = [task EXCEPT ![Start] = t]
      BY <2>1
    <3> HIDE DEF t
    <3> QED
      BY <1>1, <2>2, <3>1, <3>2
  <2>4. InFlight' = {Start}
    BY <1>1, <1>2, <2>3 DEF InFlight
  <2>5. Batched' = {}
    BY <1>2, <2>3 DEF Batched, InFlight
  <2>6. Elements(queue) = {}
    BY <1>1 DEF IInv, EngineOK
  <2>7. Elements(queue)' = {} /\ Distinct(queue)' /\ queue' \in Seq(Urls)
    BY <2>1, <2>6 DEF Elements, Distinct, IInv, EngineOK, TypeOK
  <2>8. TypeOK'
    BY <1>1, <1>3, <2>1, <2>3, <2>7 DEF IInv, TypeOK, RunnerPCs, Task
  <2>9. EngineOK'
    BY <1>1, <1>2, <1>3, <1>4, <1>5, <1>6, <2>1, <2>4, <2>7 DEF EngineOK, Early
  <2>10. TasksOK' /\ EngineIsDrained' /\ ExploredOK'
    <3>1. pages[Start] = "none"
      BY <1>1, <1>2 DEF Recorded
    <3>2. TasksOK'
      BY <1>1, <1>2, <2>3, <3>1 DEF IInv, TasksOK
    <3>3. ExploredOK'
      BY <1>2, <1>4, <2>1, <2>4, <2>7 DEF ExploredOK
    <3> QED
      BY <2>1, <3>2, <3>3 DEF EngineIsDrained
  <2>11. RowsOK' /\ ResultsAreStored'
    BY <1>1, <1>2, <1>7, <2>1, <2>5 DEF RowsOK, ResultsAreStored, Early, Working
  <2> QED
    BY <2>8, <2>9, <2>10, <2>11 DEF IInv
<1> QED
  BY <1>8, <1>9

\* The last flush: a buffer becomes rows.
LEMMA FlushRestInv == ASSUME IInv, FlushRest PROVE IInv'
<1> USE DEF RunnerPCs, Early, Drained, Working
<1> DEFINE left == {k \in Stages : buffer[k] # {}}
           k == First(left)
<1>1. /\ runner = "flush"
      /\ UNCHANGED <<status, options, cancelled, canceller, depth, queue, task, pages, faults>>
      /\ TypeOK /\ RowsOK /\ Results \in Stages
  BY DEF FlushRest, IInv, Results, Stages
<1>2. CASE left = {}
  <2>1. runner' = "broken" /\ UNCHANGED <<stored, buffer>> /\ buffer[Results] = {}
    BY <1>1, <1>2 DEF FlushRest
  <2> QED
    BY <1>1, <2>1, SameEngine DEF TypeOK, RowsOK, engine
<1>3. CASE left # {} /\ ~MayInsert(k, buffer[k])
  <2>1. runner' = "fail" /\ UNCHANGED <<stored, buffer>>
    BY <1>3 DEF FlushRest
  <2> QED
    BY <1>1, <2>1, SameEngine DEF TypeOK, RowsOK, engine
<1>4. CASE left # {} /\ MayInsert(k, buffer[k])
  <2>1. /\ stored' = [stored EXCEPT ![k] = stored[k] \cup buffer[k]]
        /\ buffer' = [buffer EXCEPT ![k] = {}] /\ runner' = runner
    BY <1>4 DEF FlushRest
  <2>2. k \in Stages
    BY <1>4, FirstInStages
  <2> HIDE DEF k
  <2>3. stored' \in [Stages -> SUBSET Urls] /\ buffer' \in [Stages -> SUBSET Urls]
        /\ stored'[Results] \cup buffer'[Results] = stored[Results] \cup buffer[Results]
    BY <1>1, <2>1, <2>2 DEF TypeOK
  <2>4. /\ Visited' = Visited /\ InFlight' = InFlight /\ Recorded' = Recorded
        /\ Batched' = Batched /\ \A u : Explored(u)' <=> Explored(u)
    BY <1>1 DEF Visited, InFlight, Recorded, Batched, Explored
  <2>5. TypeOK'
    BY <1>1, <2>1, <2>3 DEF TypeOK
  <2>6. EngineOK'
    BY <1>1, <2>1, <2>4 DEF IInv, EngineOK, Distinct
  <2>7. TasksOK' /\ EngineIsDrained' /\ ExploredOK'
    BY <1>1, <2>1, <2>4 DEF IInv, TasksOK, EngineIsDrained, ExploredOK
  <2>8. RowsOK' /\ ResultsAreStored'
    BY <1>1, <2>1, <2>3, <2>4 DEF RowsOK, ResultsAreStored
  <2> QED
    BY <2>5, <2>6, <2>7, <2>8 DEF IInv
<1> QED
  BY <1>2, <1>3, <1>4

-----------------------------------------------------------------------------
\* A page leaves: its links are queued and the loop launches the next pages.
LEMMA LeaveInv ==
  ASSUME IInv, NEW u \in Urls, NEW outcome, runner = "engine", task[u].pc # "none",
         Leave(u, outcome),
         UNCHANGED <<status, options, cancelled, canceller>>,
         pages' \in [Urls -> Outcomes \cup {"none"}],
         \A v \in Urls \ {u} : pages'[v] = pages[v],
         pages[u] # "none" => pages'[u] = pages[u],
         ~cancelled => pages'[u] = outcome /\ outcome # "none",
         stored' \in [Stages -> SUBSET Urls], buffer' \in [Stages -> SUBSET Urls],
         faults' \in Nat, faults' = 0 => faults = 0,
         faults' = 0 =>
           Recorded' = stored'[Results] \cup buffer'[Results] \cup BatchedBut(u)
  PROVE  IInv'
<1>1. PICK fresh \in Fresh(u, outcome) :
        LET all  == queue \o fresh
            next == Launched(u, all)
            rest == SubSeq(all, Len(next) + 1, Len(all))
        IN  /\ depth' = [v \in Urls |->
                 IF v \in Elements(fresh) THEN depth[u] + 1 ELSE depth[v]]
            /\ queue' = rest
            /\ task' = [v \in Urls |->
                 IF v \in Elements(next) THEN [NoTask EXCEPT !.pc = "fetch"]
                 ELSE IF v = u THEN NoTask ELSE task[v]]
            /\ runner' = IF EngineOver((InFlight \ {u}) \cup Elements(next), rest)
                         THEN "flush" ELSE runner
  BY DEF Leave
<1> DEFINE all == queue \o fresh
           next == Launched(u, all)
           rest == SubSeq(all, Len(next) + 1, Len(all))
           F == Elements(fresh)
           N == Elements(next)
           R == Elements(rest)
<1>2. /\ TypeOK /\ EngineOK /\ TasksOK /\ ExploredOK /\ RowsOK
      /\ u \in InFlight /\ u \in Visited /\ u \notin Elements(queue) /\ depth[u] \in Nat
  BY Here DEF IInv, EngineOK, InFlight
<1>3. /\ fresh \in Seq(Urls) /\ Distinct(fresh) /\ F \cap Visited = {}
      /\ IsFiniteSet(F) /\ Cardinality(F) \in Nat /\ F \subseteq Urls
      /\ Cardinality(Visited) + Cardinality(F) <= options.urlLimit
      /\ F # {} => depth[u] < options.maxDepth
      /\ Followed(u, outcome) =>
           \/ Elements(Links[u]) \subseteq Visited \cup F
           \/ Cardinality(Visited) + Cardinality(F) = options.urlLimit
  BY FreshFacts, ElementsCount
<1>4. /\ queue \in Seq(Urls) /\ Distinct(queue)
      /\ Elements(queue) \subseteq Visited \ (Recorded \cup InFlight)
  BY <1>2 DEF TypeOK, EngineOK
<1>5. /\ all \in Seq(Urls) /\ Elements(all) = Elements(queue) \cup F /\ Distinct(all)
  BY <1>3, <1>4, ElementsConcat
<1> DEFINE others == Cardinality(InFlight \ {u})
           m == IF cancelled THEN 0 ELSE Lesser(Len(all), Concurrency - others)
<1>6. others \in Nat /\ others < Concurrency /\ IsFiniteSet(InFlight \ {u})
  <2>1. IsFiniteSet(InFlight \ {u}) /\ others = Cardinality(InFlight) - 1
    BY <1>2, Here, FS_RemoveElement
  <2>2. others \in Nat
    BY <2>1, FS_CardinalityType
  <2>3. Cardinality(InFlight) <= Concurrency /\ Cardinality(InFlight) \in Nat /\ Concurrency \in Nat
    BY <1>2, Here, OptionsAssumption DEF EngineOK
  <2> QED
    BY <2>1, <2>2, <2>3
<1>7. m \in 0..Len(all) /\ m <= Concurrency - others /\ m \in Nat
  <2>1. Len(all) \in Nat /\ Concurrency \in Nat
    BY <1>5, LenProperties, OptionsAssumption
  <2> HIDE DEF others, all
  <2> QED
    BY <1>6, <2>1 DEF Lesser
<1>8. next = SubSeq(all, 1, m)
  <2>1. CASE cancelled
    BY <2>1, SubSeqEmpty DEF Launched
  <2>2. CASE ~cancelled
    BY <2>2 DEF Launched
  <2> QED
    BY <2>1, <2>2
<1>9. /\ next \in Seq(Urls) /\ rest \in Seq(Urls) /\ Len(next) = m
      /\ N \cup R = Elements(queue) \cup F /\ N \cap R = {} /\ Distinct(rest)
  <2> HIDE DEF all, next, m
  <2>1. /\ next \in Seq(Urls) /\ Len(next) = m
        /\ SubSeq(all, m + 1, Len(all)) \in Seq(Urls)
        /\ Elements(all) = Elements(next) \cup Elements(SubSeq(all, m + 1, Len(all)))
        /\ Distinct(SubSeq(all, m + 1, Len(all)))
        /\ Elements(next) \cap Elements(SubSeq(all, m + 1, Len(all))) = {}
    BY <1>5, <1>7, <1>8, ElementsSplit
  <2> QED
    BY <1>5, <2>1
<1>10. /\ IsFiniteSet(N) /\ Cardinality(N) \in Nat /\ Cardinality(N) <= Concurrency - others
       /\ N \subseteq Urls /\ R \subseteq Urls
  <2>1. /\ IsFiniteSet(N) /\ Cardinality(N) \in Nat /\ Cardinality(N) <= m
        /\ N \subseteq Urls /\ R \subseteq Urls
    <3> HIDE DEF next, rest, m
    <3> QED
      BY <1>9, ElementsCount
  <2> HIDE DEF m, N, others
  <2> QED
    BY <1>6, <1>7, <2>1, OptionsAssumption
<1>11. /\ depth' = [v \in Urls |-> IF v \in F THEN depth[u] + 1 ELSE depth[v]]
       /\ queue' = rest
       /\ task' = [v \in Urls |->
            IF v \in N THEN [NoTask EXCEPT !.pc = "fetch"] ELSE IF v = u THEN NoTask ELSE task[v]]
       /\ runner' = IF EngineOver((InFlight \ {u}) \cup N, rest) THEN "flush" ELSE "engine"
  BY <1>1
<1>12. Elements(queue)' = R /\ Distinct(queue)'
  <2> HIDE DEF next, rest
  <2> QED
    BY <1>9, <1>11 DEF Elements, Distinct
<1> HIDE DEF F, N, R, next, rest, all, m, others
<1>13. Visited' = Visited \cup F /\ depth' \in [Urls -> Nat \cup {NotVisited}]
       /\ \A v \in Visited : depth'[v] = depth[v]
  <2>1. \A v \in Urls : depth'[v] = IF v \in F THEN depth[u] + 1 ELSE depth[v]
    BY <1>11
  <2>2. depth[u] + 1 \in Nat
    BY <1>2
  <2>3. depth[u] + 1 # NotVisited
    BY <1>2 DEF NotVisited
  <2> QED
    BY <1>2, <1>3, <1>11, <2>1, <2>2, <2>3 DEF Visited, TypeOK
<1>14. /\ u \notin N \cup R /\ (N \cup R) \cap InFlight = {} /\ (N \cup R) \cap Recorded = {}
       /\ N \cup R \subseteq Visited \cup F
  BY <1>2, <1>3, <1>4, <1>9 DEF EngineOK
<1>15. InFlight' = (InFlight \ {u}) \cup N
  BY <1>2, <1>10, <1>11, <1>14, NoTaskTyped DEF InFlight
<1>16. /\ Recorded \subseteq Recorded' /\ Recorded' \subseteq Recorded \cup {u}
       /\ ~cancelled => u \in Recorded'
  BY DEF Recorded
<1>17. IsFiniteSet(Visited') /\ Cardinality(Visited') = Cardinality(Visited) + Cardinality(F)
       /\ Cardinality(Visited') <= options.urlLimit
  <2>1. Visited \cap F = {}
    BY <1>3
  <2>2. IsFiniteSet(Visited \cup F) /\ Cardinality(Visited \cup F)
          = Cardinality(Visited) + Cardinality(F) - Cardinality(Visited \cap F)
    BY <1>3, Here, FS_Union
  <2>3. Cardinality(Visited \cap F) = 0
    BY <2>1, FS_EmptySet
  <2> QED
    BY <1>3, <1>13, <2>2, <2>3, Here
<1>18. Cardinality(InFlight') <= Concurrency
  <2>1. (InFlight \ {u}) \cap N = {}
    BY <1>14
  <2>2. Cardinality((InFlight \ {u}) \cup N) = others + Cardinality(N) - Cardinality({})
    BY <1>6, <1>10, <2>1, FS_Union DEF others
  <2>3. Cardinality({}) = 0
    BY FS_EmptySet
  <2> QED
    BY <1>6, <1>10, <1>15, <2>2, <2>3, OptionsAssumption
<1>19. TypeOK'
  <2>1. task' \in [Urls -> Task]
    BY <1>2, <1>11, NoTaskTyped DEF TypeOK, Task
  <2> QED
    BY <1>2, <1>9, <1>11, <1>13, <2>1 DEF TypeOK, Task, RunnerPCs
<1>20. EngineOK'
  <2>1. \A v \in Visited' : depth'[v] <= options.maxDepth
    <3>1. \A v \in Visited : depth'[v] <= options.maxDepth
      BY <1>2, <1>13 DEF EngineOK
    <3>2. \A v \in F : depth'[v] <= options.maxDepth
      <4> SUFFICES ASSUME NEW v \in F PROVE depth'[v] <= options.maxDepth
        OBVIOUS
      <4>1. depth'[v] = depth[u] + 1 /\ depth[u] < options.maxDepth
        BY <1>3, <1>11
      <4> QED
        BY <1>2, <4>1, Here
    <3> QED
      BY <1>13, <3>1, <3>2
  <2>2. R \subseteq Visited' \ (Recorded' \cup InFlight')
    BY <1>9, <1>13, <1>14, <1>15, <1>16
  <2>3. InFlight' \subseteq Visited' /\ Recorded' \subseteq Visited'
    BY <1>2, <1>13, <1>14, <1>15, <1>16 DEF EngineOK
  <2>4. runner' \notin Early
    BY <1>11 DEF Early
  <2> QED
    BY <1>12, <1>17, <1>18, <2>1, <2>2, <2>3, <2>4 DEF EngineOK
<1>21. TasksOK'
  <2> SUFFICES ASSUME NEW v \in Urls
               PROVE  /\ task'[v].pc = "fetch" => pages'[v] = "none"
                      /\ task'[v].pc = "insert" => pages'[v] = task'[v].outcome /\ pages'[v] # "none"
    BY DEF TasksOK
  <2>1. CASE v \in N
    <3>1. task'[v].pc = "fetch" /\ v # u /\ pages[v] = "none"
      BY <1>11, <1>14, <2>1, NoTaskTyped DEF Recorded
    <3> QED
      BY <3>1
  <2>2. CASE v = u
    BY <1>11, <1>14, <2>2, NoTaskTyped
  <2>3. CASE v \notin N /\ v # u
    BY <1>2, <1>11, <2>3 DEF TasksOK
  <2> QED
    BY <2>1, <2>2, <2>3
<1>22. runner' # "engine" => runner' = "flush" /\ InFlight' = {} /\ (rest = <<>> \/ cancelled)
  BY <1>11, <1>15 DEF EngineOver
<1>23. EngineIsDrained'
  BY <1>22 DEF EngineIsDrained
<1>24. ExploredOK'
  <2> SUFFICES ASSUME ~cancelled
               PROVE  /\ Visited' = Recorded' \cup InFlight' \cup Elements(queue)'
                      /\ \A v \in Recorded' \ InFlight' : Explored(v)'
                      /\ runner' # "engine" => queue' = <<>>
    BY DEF ExploredOK
  <2>1. /\ Visited = Recorded \cup InFlight \cup Elements(queue)
        /\ \A v \in Recorded \ InFlight : Explored(v)
    BY <1>2 DEF ExploredOK, Working
  <2>2. Visited' = Recorded' \cup InFlight' \cup Elements(queue)'
    <3>1. Visited \cup F \subseteq Recorded' \cup InFlight' \cup R
      <4>1. F \subseteq InFlight' \cup R
        BY <1>9, <1>15
      <4>2. Elements(queue) \subseteq InFlight' \cup R
        BY <1>9, <1>15
      <4>3. Recorded \cup InFlight \subseteq Recorded' \cup InFlight'
        BY <1>15, <1>16
      <4> QED
        BY <2>1, <4>1, <4>2, <4>3
    <3>2. Recorded' \cup InFlight' \cup R \subseteq Visited \cup F
      <4>1. Recorded' \cup InFlight' \subseteq Visited \cup F
        BY <1>2, <1>14, <1>15, <1>16, <2>1
      <4> QED
        BY <1>14, <4>1
    <3> QED
      BY <1>12, <1>13, <3>1, <3>2
  <2>3. ASSUME NEW v \in Recorded' \ InFlight' PROVE Explored(v)'
    <3> SUFFICES ASSUME pages'[v] = "followed", depth'[v] < options.maxDepth
                 PROVE  \/ Elements(Links[v]) \subseteq Visited'
                        \/ Cardinality(Visited') = options.urlLimit
      BY DEF Explored, Elements
    <3>1. CASE v = u
      <4>1. depth'[u] = depth[u]
        BY <1>2, <1>13
      <4>2. Followed(u, outcome)
        BY <3>1, <4>1 DEF Followed
      <4> QED
        BY <1>3, <1>13, <1>17, <3>1, <4>2
    <3>2. CASE v # u
      <4>1. v \in Recorded /\ v \notin InFlight /\ v \in Urls /\ v \in Visited
        BY <1>2, <1>15, <1>16, <3>2 DEF Recorded, EngineOK
      <4>2. Explored(v) /\ pages[v] = "followed" /\ depth[v] < options.maxDepth
        BY <1>13, <2>1, <3>2, <4>1
      <4>3. CASE Elements(Links[v]) \subseteq Visited
        BY <1>13, <4>3
      <4>4. CASE Cardinality(Visited) = options.urlLimit
        BY <1>3, <1>17, <4>4, Here
      <4> QED
        BY <4>2, <4>3, <4>4 DEF Explored
    <3> QED
      BY <3>1, <3>2
  <2> QED
    BY <1>11, <1>22, <2>2, <2>3
<1>25. Batched' = BatchedBut(u)
  <2>1. \A w \in Urls : task'[w].pc = "insert" => w # u /\ task'[w] = task[w]
    BY <1>11, NoTaskTyped
  <2>2. \A w \in Urls \ {u} : task[w].pc = "insert" => task'[w] = task[w]
    BY <1>11, <1>14 DEF InFlight
  <2>3. Batched' \subseteq BatchedBut(u)
    BY <2>1 DEF Batched, BatchedBut
  <2>4. BatchedBut(u) \subseteq Batched'
    BY <2>2 DEF Batched, BatchedBut
  <2> QED
    BY <2>3, <2>4
<1>26. status # "COMPLETED" /\ runner' \in {"engine", "flush"}
  BY <1>2, <1>11 DEF RowsOK
<1>27. RowsOK' /\ ResultsAreStored'
  BY <1>25, <1>26 DEF RowsOK, ResultsAreStored, Early
<1> QED
  BY <1>19, <1>20, <1>21, <1>23, <1>24, <1>27 DEF IInv

\* A page has pushed its rows or has inserted some: it waits for the insert of
\* a further buffer that is full, or leaves.
LEMMA FlushFromInv ==
  ASSUME IInv, NEW u \in Urls, NEW stage, NEW outcome \in Outcomes,
         NEW buf \in [Stages -> SUBSET Urls],
         runner = "engine", task[u].pc # "none", FlushFrom(stage, u, outcome, buf),
         UNCHANGED <<status, options, cancelled, canceller, faults>>,
         pages' = [pages EXCEPT ![u] = outcome], pages[u] # "none" => pages[u] = outcome,
         stored' \in [Stages -> SUBSET Urls],
         faults = 0 => Recorded' = stored'[Results] \cup buf[Results] \cup BatchedBut(u)
  PROVE  IInv'
<1> DEFINE full == {k \in Full(buf) : k >= stage}
           k == First(full)
           t == [pc |-> "insert", outcome |-> outcome, stage |-> k, batch |-> buf[k]]
<1>1. /\ TypeOK /\ EngineOK /\ TasksOK /\ ExploredOK /\ RowsOK /\ outcome # "none"
      /\ task \in [Urls -> Task]
  BY DEF IInv, Outcomes, TypeOK, Task
<1>2. /\ pages' \in [Urls -> Outcomes \cup {"none"}] /\ pages'[u] = outcome
      /\ \A v \in Urls \ {u} : pages'[v] = pages[v]
  BY <1>1 DEF TypeOK
<1>3. CASE full = {}
  <2>1. buffer' = buf /\ Leave(u, outcome)
    BY <1>3 DEF FlushFrom
  <2>2. faults' \in Nat
    BY <1>1 DEF TypeOK
  <2> QED
    BY <1>1, <1>2, <2>1, <2>2, LeaveInv
<1>4. CASE full # {}
  <2>1. /\ buffer' = [buf EXCEPT ![k] = {}] /\ task' = [task EXCEPT ![u] = t]
        /\ UNCHANGED <<depth, queue, runner>>
    BY <1>4 DEF FlushFrom
  <2>2. k \in Stages
    <3>1. full \in SUBSET Stages
      BY DEF Full
    <3>2. k \in full
      BY <1>4, <3>1, FirstInStages
    <3> QED
      BY <3>1, <3>2
  <2> HIDE DEF k
  <2>3. t \in Task /\ t.pc = "insert" /\ t.outcome = outcome /\ t.stage = k /\ t.batch = buf[k]
    BY <2>2 DEF Task
  <2> HIDE DEF t
  <2>4. task' \in [Urls -> Task] /\ task'[u] = t /\ \A v \in Urls \ {u} : task'[v] = task[v]
    BY <1>1, <2>1, <2>3
  <2>5. /\ buffer' \in [Stages -> SUBSET Urls]
        /\ buffer'[Results] = IF k = Results THEN {} ELSE buf[Results]
    BY <2>1, <2>2 DEF Results, Stages
  <2>6. /\ Visited' = Visited /\ InFlight' = InFlight
        /\ Recorded' = Recorded \cup {u} /\ u \in InFlight
    <3>1. InFlight' = InFlight /\ u \in InFlight
      BY <2>3, <2>4 DEF InFlight
    <3> QED
      BY <1>1, <1>2, <2>1, <3>1 DEF Visited, Recorded
  <2>7. TypeOK'
    BY <1>1, <1>2, <2>1, <2>4, <2>5 DEF TypeOK, Task
  <2>8. EngineOK'
    BY <1>1, <2>1, <2>6 DEF EngineOK, Distinct
  <2>9. TasksOK'
    BY <1>1, <1>2, <2>3, <2>4 DEF TasksOK
  <2>10. EngineIsDrained'
    BY <2>1 DEF EngineIsDrained
  <2>11. ExploredOK'
    <3>1. \A v \in Recorded' \ InFlight' : v \in Recorded \ InFlight /\ v \in Urls /\ v # u
      BY <2>6 DEF Recorded
    <3>2. \A v \in Urls \ {u} : Explored(v) => Explored(v)'
      BY <1>2, <2>1, <2>6 DEF Explored
    <3> QED
      BY <1>1, <2>1, <2>6, <3>1, <3>2 DEF ExploredOK
  <2>12. Batched' = BatchedBut(u) \cup (IF k = Results THEN buf[Results] ELSE {})
    <3>1. Batched' \subseteq BatchedBut(u) \cup (IF k = Results THEN buf[Results] ELSE {})
      BY <2>3, <2>4 DEF Batched, BatchedBut
    <3>2. BatchedBut(u) \subseteq Batched'
      BY <2>4 DEF Batched, BatchedBut
    <3>3. k = Results => buf[Results] \subseteq Batched'
      <4>1. Results \in Stages
        BY DEF Results, Stages
      <4> QED
        BY <2>3, <2>4, <4>1 DEF Batched
    <3> QED
      BY <3>1, <3>2, <3>3
  <2>13. status # "COMPLETED"
    BY <1>1 DEF RowsOK
  <2>14. RowsOK' /\ ResultsAreStored'
    BY <2>1, <2>5, <2>12, <2>13 DEF RowsOK, ResultsAreStored, Early
  <2> QED
    BY <2>7, <2>8, <2>9, <2>10, <2>11, <2>14 DEF IInv
<1> QED
  BY <1>3, <1>4

\* What the tasks of other pages hold, if this one is at a fetch or an insert.
LEMMA BatchedSplit ==
  ASSUME NEW u \in Urls
  PROVE  Batched = BatchedBut(u) \cup
           (IF task[u].pc = "insert" /\ task[u].stage = Results
            THEN task[u].batch \cap Urls ELSE {})
BY DEF Batched, BatchedBut

LEMMA PageFetchedInv ==
  ASSUME IInv, NEW u \in Urls, NEW outcome \in Outcomes, PageFetched(u, outcome) PROVE IInv'
<1>1. /\ runner = "engine" /\ task[u].pc = "fetch" /\ pages[u] = "none"
      /\ UNCHANGED <<status, stored, options, cancelled, canceller, faults>>
      /\ TypeOK /\ RowsOK
  BY DEF PageFetched, IInv, TasksOK
<1>2. faults = 0 => Recorded = stored[Results] \cup buffer[Results] \cup BatchedBut(u)
  BY <1>1, BatchedSplit DEF RowsOK, Working
<1>3. CASE cancelled
  <2>1. Leave(u, outcome) /\ UNCHANGED <<buffer, pages>>
    BY <1>3 DEF PageFetched
  <2>2. Recorded' = Recorded
    BY <2>1 DEF Recorded
  <2> QED
    BY <1>1, <1>2, <1>3, <2>1, <2>2, LeaveInv DEF TypeOK
<1>4. CASE ~cancelled
  <2>1. pages' = [pages EXCEPT ![u] = outcome]
        /\ FlushFrom(Results, u, outcome, Pushed(u, outcome))
    BY <1>4 DEF PageFetched
  <2>2. Pushed(u, outcome) \in [Stages -> SUBSET Urls]
        /\ Pushed(u, outcome)[Results] = buffer[Results] \cup {u}
    BY <1>1 DEF Pushed, TypeOK, Results, PageLinks, Stages
  <2>3. Recorded' = Recorded \cup {u}
    BY <1>1, <2>1 DEF Recorded, TypeOK, Outcomes
  <2>4. stored' \in [Stages -> SUBSET Urls]
    BY <1>1 DEF TypeOK
  <2>5. faults = 0 => Recorded' = stored'[Results] \cup Pushed(u, outcome)[Results]
                                    \cup BatchedBut(u)
    BY <1>1, <1>2, <2>2, <2>3
  <2> QED
    BY <1>1, <2>1, <2>2, <2>4, <2>5, FlushFromInv
<1> QED
  BY <1>3, <1>4

LEMMA InsertInv == ASSUME IInv, NEW u \in Urls, Insert(u) PROVE IInv'
<1> DEFINE t == task[u]
<1>1. /\ runner = "engine" /\ t.pc = "insert"
      /\ UNCHANGED <<status, options, cancelled, canceller, pages, faults>>
      /\ TypeOK /\ RowsOK
  BY DEF Insert, IInv
<1>2. /\ t.outcome = pages[u] /\ t.outcome \in Outcomes /\ t.stage \in Stages
      /\ t.batch \subseteq Urls
  <2>1. pages[u] = t.outcome /\ pages[u] # "none"
    BY <1>1 DEF IInv, TasksOK
  <2> QED
    BY <2>1, Here
<1>3. faults = 0 => Recorded = stored[Results] \cup buffer[Results] \cup Batched
  BY <1>1 DEF RowsOK, Working
<1>4. Recorded' = Recorded
  BY <1>1 DEF Recorded
<1>5. CASE MayInsert(t.stage, t.batch)
  <2>1. /\ stored' = [stored EXCEPT ![t.stage] = stored[t.stage] \cup t.batch]
        /\ FlushFrom(t.stage + 1, u, t.outcome, buffer)
    BY <1>5 DEF Insert
  <2>2. stored' \in [Stages -> SUBSET Urls]
        /\ stored'[Results] = stored[Results] \cup (IF t.stage = Results THEN t.batch ELSE {})
    BY <1>1, <1>2, <2>1 DEF TypeOK, Results, Stages
  <2>3. Batched = BatchedBut(u) \cup (IF t.stage = Results THEN t.batch ELSE {})
    BY <1>1, <1>2, BatchedSplit
  <2>4. faults = 0 => Recorded' = stored'[Results] \cup buffer[Results] \cup BatchedBut(u)
    BY <1>3, <1>4, <2>2, <2>3
  <2>5. pages' = [pages EXCEPT ![u] = t.outcome] /\ buffer \in [Stages -> SUBSET Urls]
    BY <1>1, <1>2 DEF TypeOK
  <2> HIDE DEF t
  <2>6. task[u].pc # "none"
    BY <1>1 DEF t
  <2> QED
    BY <1>1, <1>2, <2>1, <2>2, <2>4, <2>5, <2>6, FlushFromInv
<1>6. CASE ~MayInsert(t.stage, t.batch)
  <2>1. Leave(u, t.outcome) /\ UNCHANGED <<stored, buffer>> /\ t.stage # Results
    BY <1>6 DEF Insert, MayInsert
  <2>2. Batched = BatchedBut(u)
    BY <2>1, BatchedSplit
  <2>3. t.outcome # "none"
    BY <1>2 DEF Outcomes
  <2> QED
    BY <1>1, <1>2, <1>3, <1>4, <2>1, <2>2, <2>3, LeaveInv DEF TypeOK
<1> QED
  BY <1>5, <1>6

LEMMA InsertFailsInv == ASSUME IInv, NEW u \in Urls, InsertFails(u) PROVE IInv'
<1>1. /\ runner = "engine" /\ task[u].pc = "insert" /\ Leave(u, task[u].outcome)
      /\ UNCHANGED <<status, stored, options, cancelled, canceller, buffer, pages>>
      /\ TypeOK
  BY DEF InsertFails, IInv
<1>2. pages[u] = task[u].outcome /\ pages[u] # "none"
  BY <1>1 DEF IInv, TasksOK
<1>3. faults' \in Nat /\ faults' # 0
  BY <1>1 DEF InsertFails, Fault, TypeOK
<1> QED
  BY <1>1, <1>2, <1>3, LeaveInv DEF TypeOK

-----------------------------------------------------------------------------
\* The invariant is inductive.
LEMMA NextIInv == IInv /\ [Next]_vars => IInv'
<1> SUFFICES ASSUME IInv, [Next]_vars PROVE IInv'
  OBVIOUS
<1>1. CASE UNCHANGED vars
  <2>1. UNCHANGED <<engine, options, stored, status, runner, cancelled, canceller, faults>>
    BY <1>1 DEF vars, engine
  <2>2. TypeOK /\ RowsOK
    BY DEF IInv
  <2> QED
    BY <2>1, <2>2, SameEngine DEF TypeOK, RowsOK
<1>2. CASE RunnerStep
  BY <1>2, MoveInv, BeginInv, PageFetchedInv, InsertInv, FlushRestInv DEF RunnerStep
<1>3. CASE \E u \in Urls : InsertFails(u)
  BY <1>3, InsertFailsInv
<1>4. CASE StatementFails \/ WriteFailedFails
  BY <1>4, MoveInv
<1>5. CASE \/ CancelWrite \/ Crash \/ Recover \/ OtherProcessStarts
           \/ \E here \in BOOLEAN : CancelRead(here)
  BY <1>5, OutsideInv
<1> QED
  BY <1>1, <1>2, <1>3, <1>4, <1>5 DEF Next

LEMMA Invariance == Spec => []IInv
BY InitIInv, NextIInv, PTL DEF Spec

\* Every variable keeps its type: the job row, the maps and buffers of runJob
\* and of the engine.
THEOREM TypeCorrect == Spec => []TypeOK
<1>1. IInv => TypeOK
  BY DEF IInv
<1> QED
  BY <1>1, Invariance, PTL

\* runCrawlEngine keeps to urlLimit, maxDepth and the concurrency, and
\* fetches no address twice, on any site.
THEOREM Budget == Spec => []WithinBudget
<1>1. IInv => WithinBudget
  <2> SUFFICES ASSUME IInv PROVE WithinBudget
    OBVIOUS
  <2>1. EngineOK
    BY DEF IInv
  <2>2. \A i \in DOMAIN queue : queue[i] \in Elements(queue)
    BY DEF Elements
  <2> QED
    BY <2>1, <2>2 DEF EngineOK, WithinBudget, Distinct
<1> QED
  BY <1>1, Invariance, PTL

\* An engine that returns uncancelled has followed every link it had to.
THEOREM Exhaustive == Spec => []CrawlIsExhaustive
<1>1. IInv => CrawlIsExhaustive
  <2> SUFFICES ASSUME IInv, runner \in {"flush", "broken", "complete"}, ~cancelled
               PROVE  /\ Visited = Recorded
                      /\ \A u \in Recorded : Explored(u)
    BY DEF CrawlIsExhaustive, Explored
  <2>1. InFlight = {} /\ queue = <<>>
    BY DEF IInv, EngineIsDrained, ExploredOK, Working
  <2>2. Elements(queue) = {}
    BY <2>1 DEF Elements
  <2> QED
    BY <2>1, <2>2 DEF IInv, ExploredOK, Working
<1> QED
  BY <1>1, Invariance, PTL

\* When runCrawlEngine returns no task is left that would push a row.
THEOREM Drains == Spec => []EngineIsDrained
<1>1. IInv => EngineIsDrained
  BY DEF IInv
<1> QED
  BY <1>1, Invariance, PTL

\* Without faults, the flushes of runJob store the result row of each page.
THEOREM ResultRows == Spec => []ResultsAreStored
<1>1. IInv => ResultsAreStored
  BY DEF IInv
<1> QED
  BY <1>1, Invariance, PTL

-----------------------------------------------------------------------------
(* Cancellation.                                                           *)

\* The addresses whose fetch is under way.
Fetching == {u \in Urls : task[u].pc = "fetch"}

\* Once the flag is set, the loop launches nothing for the place of a page.
LEMMA LeaveCancelled ==
  ASSUME TypeOK, cancelled, NEW u \in Urls, NEW outcome, Leave(u, outcome)
  PROVE  Fetching' \subseteq Fetching
<1>1. PICK fresh \in Fresh(u, outcome) :
        task' = [v \in Urls |->
             IF v \in Elements(Launched(u, queue \o fresh)) THEN [NoTask EXCEPT !.pc = "fetch"]
             ELSE IF v = u THEN NoTask ELSE task[v]]
  BY DEF Leave
<1>2. Elements(Launched(u, queue \o fresh)) = {}
  BY DEF Launched, Elements
<1>3. \A v \in Urls : task'[v] = IF v = u THEN NoTask ELSE task[v]
  BY <1>1, <1>2
<1> QED
  BY <1>3 DEF Fetching, NoTask

\* A page whose buffers are flushed goes on with inserts, not with a fetch.
LEMMA FlushCancelled ==
  ASSUME TypeOK, cancelled, NEW u \in Urls, NEW stage, NEW outcome, NEW buf,
         FlushFrom(stage, u, outcome, buf)
  PROVE  Fetching' \subseteq Fetching
<1> DEFINE full == {k \in Full(buf) : k >= stage}
           inserting == [pc |-> "insert", outcome |-> outcome,
                         stage |-> First(full), batch |-> buf[First(full)]]
<1>1. CASE full = {}
  <2>1. Leave(u, outcome)
    BY <1>1 DEF FlushFrom
  <2> QED
    BY <2>1, LeaveCancelled
<1>2. CASE full # {}
  <2>1. task' = [task EXCEPT ![u] = inserting] /\ inserting.pc = "insert"
    BY <1>2 DEF FlushFrom
  <2> HIDE DEF inserting
  <2>2. task'[u].pc = "insert" /\ \A v \in Urls \ {u} : task'[v] = task[v]
    BY <2>1 DEF TypeOK
  <2> QED
    BY <2>2 DEF Fetching
<1> QED
  BY <1>1, <1>2

\* Nothing of a crawl that cancelCrawl has flagged starts another fetch.
LEMMA CancelledNext ==
  ASSUME TypeOK, cancelled, [Next]_vars PROVE pages' = pages /\ Fetching' \subseteq Fetching
<1>1. CASE Begin
  BY <1>1 DEF Begin, Fetching
<1>2. ASSUME NEW u \in Urls, NEW outcome \in Outcomes, PageFetched(u, outcome)
      PROVE  pages' = pages /\ Fetching' \subseteq Fetching
  BY <1>2, LeaveCancelled DEF PageFetched
<1>3. ASSUME NEW u \in Urls, Insert(u)
      PROVE  pages' = pages /\ Fetching' \subseteq Fetching
  BY <1>3, LeaveCancelled, FlushCancelled DEF Insert
<1>4. ASSUME NEW u \in Urls, InsertFails(u)
      PROVE  pages' = pages /\ Fetching' \subseteq Fetching
  BY <1>4, LeaveCancelled DEF InsertFails
<1>5. CASE UNCHANGED <<task, pages>>
  BY <1>5 DEF Fetching
<1>6. CASE Register \/ ReadJob \/ MarkRunning \/ FlushRest \/ BrokenLinkPass
           \/ WriteCompleted \/ WriteCanceled \/ WriteFailed
           \/ StatementFails \/ WriteFailedFails \/ Crash \/ Recover \/ OtherProcessStarts
           \/ CancelWrite \/ \E here \in BOOLEAN : CancelRead(here)
  <2>1. UNCHANGED <<task, pages>>
    BY <1>6 DEF Register, ReadJob, MarkRunning, FlushRest, BrokenLinkPass, WriteCompleted,
       WriteCanceled, WriteFailed, StatementFails, WriteFailedFails, Crash, Recover,
       OtherProcessStarts, CancelWrite, CancelRead, Move, engine
  <2> QED
    BY <1>5, <2>1
<1>7. CASE UNCHANGED vars
  BY <1>5, <1>7 DEF vars
<1> QED
  BY <1>1, <1>2, <1>3, <1>4, <1>6, <1>7 DEF Next, RunnerStep

\* runCrawlEngine stops gracefully: whatever was being fetched, flushed or
\* inserted when cancelCrawl set the flag, no fetch is launched and no page
\* recorded after it, for any site, limits and number of pages in flight.
THEOREM CancelStops == Spec => CancelStopsFetching
<1>1. TypeOK /\ [Next]_vars =>
        [cancelled => pages' = pages
                      /\ \A u \in Urls : task'[u].pc = "fetch" => task[u].pc = "fetch"]_vars
  <2> SUFFICES ASSUME TypeOK, [Next]_vars, cancelled
               PROVE  /\ pages' = pages
                      /\ \A u \in Urls : task'[u].pc = "fetch" => task[u].pc = "fetch"
    OBVIOUS
  <2> QED
    BY CancelledNext DEF Fetching
<1> QED
  BY <1>1, TypeCorrect, PTL DEF Spec, CancelStopsFetching

-----------------------------------------------------------------------------
(* The verdict.                                                            *)

\* A run that has ended has left a verdict.
EndOK == runner = "done" => status \notin Active

\* The steps of the runner that move it, and those of others on the row.
LEMMA EndNext ==
  ASSUME EndOK, [Next]_vars
  PROVE  /\ EndOK'
         /\ runner = "done" =>
              /\ runner' = "done"
              /\ status' # status => canceller = "write" /\ status' = "CANCELED"
<1> USE DEF EndOK, Active
<1>1. CASE Register \/ ReadJob \/ MarkRunning \/ Begin \/ BrokenLinkPass
           \/ WriteCompleted \/ WriteCanceled \/ WriteFailed
           \/ StatementFails \/ WriteFailedFails
  BY <1>1 DEF Register, ReadJob, MarkRunning, Begin, BrokenLinkPass, WriteCompleted,
     WriteCanceled, WriteFailed, StatementFails, WriteFailedFails, Move
<1>2. ASSUME NEW u \in Urls,
             Insert(u) \/ InsertFails(u) \/ \E outcome \in Outcomes : PageFetched(u, outcome)
      PROVE  runner = "engine" /\ runner' # "done"
  <2>1. ASSUME NEW outcome, Leave(u, outcome) PROVE runner' \in {"flush", runner}
    BY <2>1 DEF Leave
  <2>2. ASSUME NEW stage, NEW outcome, NEW buf, FlushFrom(stage, u, outcome, buf)
        PROVE  runner' \in {"flush", runner}
    BY <2>1, <2>2 DEF FlushFrom
  <2> QED
    BY <1>2, <2>1, <2>2 DEF Insert, InsertFails, PageFetched
<1>3. CASE FlushRest
  BY <1>3 DEF FlushRest
<1>4. CASE Crash \/ Recover \/ OtherProcessStarts
           \/ CancelWrite \/ \E here \in BOOLEAN : CancelRead(here)
  BY <1>4 DEF Crash, Recover, OtherProcessStarts, CancelWrite, CancelRead
<1>5. CASE UNCHANGED vars
  BY <1>5 DEF vars
<1> QED
  BY <1>1, <1>2, <1>3, <1>4, <1>5 DEF Next, RunnerStep

\* What runJob has written last stays, but for a cancellation that read the
\* job while it was running and writes by its id alone.
THEOREM VerdictStands == Spec => VerdictIsFinal
<1>1. Init => EndOK
  BY DEF Init, EndOK
<1>2. EndOK /\ [Next]_vars => EndOK'
  BY EndNext
<1>3. EndOK /\ EndOK' /\ [Next]_vars =>
        [runner = "done" =>
           /\ runner' = "done" /\ status' \notin Active
           /\ status' # status => canceller = "write" /\ status' = "CANCELED"]_vars
  BY EndNext DEF EndOK
<1> QED
  BY <1>1, <1>2, <1>3, PTL DEF Spec, VerdictIsFinal

=============================================================================
