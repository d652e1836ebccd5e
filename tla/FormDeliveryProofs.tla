------------------------- MODULE FormDeliveryProofs -------------------------
(* Proofs about FormDelivery, for any number of processes, submissions,    *)
(* targets and incidents.                                                  *)
EXTENDS FormDelivery, SequenceTheorems, FiniteSetTheorems, TLAPS

Inquiry == [pc : {"none", "unrouted", "routed", "create", "kick", "queued"},
            targets : SUBSET Targets]

\* A run works on rows of the table, and has one while it sends or records.
RunOK(q) ==
  /\ \A n \in DOMAIN q.due : q.due[n] \in DOMAIN rows
  /\ q.pc \in {"lock", "deliver", "delivered", "failed"} => q.due # <<>>

RunsOK == \A w \in Workers : RunOK(worker[w])

ReplayOK == replay.pc # "idle" => replay.row \in DOMAIN rows

\* The processes that have locked row i and not sent its message yet.
Sending(i) == {w \in Workers : worker[w].pc = "deliver" /\ Current(w) = i}

\* Each of them has counted an attempt of its own.
AttemptsOK ==
  \A i \in DOMAIN rows : sent[i] + Cardinality(Sending(i)) <= rows[i].attempts

\* What is known of an inquiry at each statement of its handler.
InquiryOK(s) ==
  /\ inquiry[s].pc = "unrouted" => inquiry[s].targets = {}
  /\ inquiry[s].pc \in {"routed", "create", "kick"} => inquiry[s].targets # {}
  /\ inquiry[s].pc \in {"none", "unrouted", "routed", "create"} => RowsOf(s) = {}
  /\ inquiry[s].pc = "kick" => inquiry[s].targets = {rows[i].target : i \in RowsOf(s)}

InquiriesOK == (\A s \in Submissions : InquiryOK(s)) /\ InquiriesAreRouted

IInv == TypeOK /\ RunsOK /\ ReplayOK /\ AttemptsOK /\ InquiriesOK

-----------------------------------------------------------------------------
LEMMA StoppedOK == Stopped \in Run /\ RunOK(Stopped) /\ Stopped.pc = "idle"
<1>1. <<>> \in Seq(Nat \ {0})
  OBVIOUS
<1> QED
  BY <1>1 DEF Stopped, Run, RunOK

\* The processes sending a row are finitely many.
LEMMA SendingFinite ==
  ASSUME NEW S \in SUBSET Workers
  PROVE  IsFiniteSet(S) /\ Cardinality(S) \in Nat
BY SetsAssumption, FS_Subset, FS_CardinalityType

\* The initial state satisfies the inductive invariant.
LEMMA InitIInv == Init => IInv
<1> SUFFICES ASSUME Init PROVE IInv
  OBVIOUS
<1>1. worker \in [Workers -> Run] /\ RunsOK
  BY StoppedOK DEF Init, RunsOK
<1>2. inquiry \in [Submissions -> Inquiry]
  BY DEF Init, Inquiry
<1>3. rows \in Seq(DeliveryRow) /\ sent \in Seq(Nat) /\ Len(sent) = Len(rows) /\ DOMAIN rows = {}
  BY DEF Init
<1>4. TypeOK
  BY <1>1, <1>2, <1>3 DEF Init, TypeOK, Inquiry, NoReplay
<1>5. ReplayOK /\ AttemptsOK
  BY <1>3 DEF Init, ReplayOK, NoReplay, AttemptsOK
<1>6. InquiriesOK
  BY <1>3 DEF Init, InquiriesOK, InquiryOK, InquiriesAreRouted, RowsOf
<1> QED
  BY <1>1, <1>4, <1>5, <1>6 DEF IInv

-----------------------------------------------------------------------------
\* What the invariant says of one process and of one row.
LEMMA Here ==
  ASSUME IInv
  PROVE  /\ rows \in Seq(DeliveryRow) /\ sent \in Seq(Nat)
         /\ DOMAIN rows = 1..Len(rows) /\ DOMAIN sent = DOMAIN rows /\ Len(rows) \in Nat
         /\ worker \in [Workers -> Run] /\ inquiry \in [Submissions -> Inquiry]
         /\ \A w \in Workers : worker[w] \in Run /\ RunOK(worker[w])
         /\ \A i \in DOMAIN rows : rows[i] \in DeliveryRow /\ sent[i] \in Nat
         /\ \A s \in Submissions : inquiry[s] \in Inquiry /\ InquiryOK(s)
<1>1. rows \in Seq(DeliveryRow) /\ sent \in Seq(Nat) /\ Len(sent) = Len(rows)
      /\ worker \in [Workers -> Run] /\ inquiry \in [Submissions -> Inquiry]
  BY DEF IInv, TypeOK, Inquiry
<1>2. DOMAIN rows = 1..Len(rows) /\ DOMAIN sent = DOMAIN rows /\ Len(rows) \in Nat
  BY <1>1
<1>3. \A i \in DOMAIN rows : rows[i] \in DeliveryRow /\ sent[i] \in Nat
  BY <1>1, <1>2
<1> QED
  BY <1>1, <1>2, <1>3 DEF IInv, RunsOK, InquiriesOK

\* Rows keep their submission and target, and no new row appears.
SameRows ==
  /\ DOMAIN rows' = DOMAIN rows
  /\ \A i \in DOMAIN rows : rows'[i].submission = rows[i].submission
                             /\ rows'[i].target = rows[i].target

\* A step that leaves the inquiries alone preserves what is known of them if
\* rows stay the same and the routing alert is not withdrawn.
LEMMA SameInquiries ==
  ASSUME IInv, SameRows, inquiry' = inquiry, faults' \in Nat, faults' = 0 => faults = 0,
         alerts.routing # "none" => alerts'.routing # "none"
  PROVE  InquiriesOK'
<1>1. ASSUME NEW s \in Submissions
      PROVE  /\ RowsOf(s)' = RowsOf(s)
             /\ {rows'[i].target : i \in RowsOf(s)'} = {rows[i].target : i \in RowsOf(s)}
  <2>1. RowsOf(s)' = RowsOf(s)
    BY DEF RowsOf, SameRows
  <2>2. \A i \in RowsOf(s) : rows'[i].target = rows[i].target
    BY DEF RowsOf, SameRows
  <2> QED
    BY <2>1, <2>2
<1>2. \A s \in Submissions : InquiryOK(s)'
  BY <1>1 DEF IInv, InquiriesOK, InquiryOK
<1>3. InquiriesAreRouted'
  BY <1>1 DEF IInv, InquiriesOK, InquiriesAreRouted
<1> QED
  BY <1>2, <1>3 DEF InquiriesOK

\* Attempts cover the sends as long as they only grow and nobody starts one.
LEMMA NoNewSends ==
  ASSUME IInv, DOMAIN rows' = DOMAIN rows, sent' = sent,
         \A i \in DOMAIN rows : rows'[i].attempts \in Nat /\ rows'[i].attempts >= rows[i].attempts,
         \A w \in Workers : worker'[w].pc = "deliver" =>
                              worker[w].pc = "deliver" /\ worker'[w].due = worker[w].due
  PROVE  AttemptsOK'
<1> SUFFICES ASSUME NEW i \in DOMAIN rows
             PROVE  sent[i] + Cardinality(Sending(i)') <= rows'[i].attempts
  BY DEF AttemptsOK
<1>1. Sending(i)' \subseteq Sending(i) /\ Sending(i) \subseteq Workers
  BY DEF Sending, Current
<1>2. /\ Cardinality(Sending(i)') <= Cardinality(Sending(i))
      /\ Cardinality(Sending(i)) \in Nat /\ Cardinality(Sending(i)') \in Nat
  <2>1. IsFiniteSet(Sending(i)) /\ Cardinality(Sending(i)) \in Nat
    BY <1>1, SendingFinite
  <2>2. Cardinality(Sending(i)') \in Nat
    BY <1>1, SendingFinite
  <2>3. Cardinality(Sending(i)') <= Cardinality(Sending(i))
    BY <1>1, <2>1, FS_Subset
  <2> QED
    BY <2>1, <2>2, <2>3
<1>3. sent[i] \in Nat /\ rows[i].attempts \in Nat
  BY Here DEF DeliveryRow
<1>4. sent[i] + Cardinality(Sending(i)) <= rows[i].attempts
  BY DEF IInv, AttemptsOK
<1> QED
  BY <1>2, <1>3, <1>4

-----------------------------------------------------------------------------
\* A step of one process, with what else it may change.
LEMMA ProcessStep ==
  ASSUME IInv, NEW w \in Workers, NEW q \in Run,
         worker' = [worker EXCEPT ![w] = q], RunOK(q),
         rows' \in Seq(DeliveryRow), SameRows, inquiry' = inquiry,
         sent' \in Seq(Nat), Len(sent') = Len(rows'),
         replay' = replay \/ replay' = NoReplay,
         alerts' \in [failure : {"none", "open", "resolved"},
                      routing : {"none", "open", "resolved"}],
         alerts'.routing = alerts.routing,
         faults' \in Nat, faults' = 0 => faults = 0, replays' = replays,
         AttemptsOK'
  PROVE  IInv'
<1>1. worker' \in [Workers -> Run] /\ worker'[w] = q
      /\ \A v \in Workers \ {w} : worker'[v] = worker[v]
  BY Here
<1>2. TypeOK'
  BY <1>1 DEF IInv, TypeOK, NoReplay
<1>3. RunsOK'
  <2>1. \A v \in Workers : RunOK(worker'[v])
    BY <1>1, Here
  <2> QED
    BY <2>1 DEF RunsOK, RunOK, SameRows
<1>4. ReplayOK'
  BY DEF IInv, ReplayOK, NoReplay, SameRows
<1>5. InquiriesOK'
  BY SameInquiries
<1> QED
  BY <1>2, <1>3, <1>4, <1>5 DEF IInv

\* Its form for a step that leaves the rows and what was sent alone.
LEMMA LocalProcessStep ==
  ASSUME IInv, NEW w \in Workers, NEW q \in Run,
         worker' = [worker EXCEPT ![w] = q], RunOK(q),
         q.pc = "deliver" => worker[w].pc = "deliver" /\ q.due = worker[w].due,
         UNCHANGED <<rows, inquiry, sent, replays>>,
         replay' = replay \/ replay' = NoReplay,
         alerts' = alerts
           \/ \E a \in {"open", "resolved", "none"} : alerts' = [alerts EXCEPT !.failure = a],
         faults' = faults \/ faults' = faults + 1
  PROVE  IInv'
<1>1. SameRows
  BY DEF SameRows
<1>2. /\ alerts' \in [failure : {"none", "open", "resolved"},
                      routing : {"none", "open", "resolved"}]
      /\ alerts'.routing = alerts.routing
  BY DEF IInv, TypeOK
<1>3. faults' \in Nat /\ (faults' = 0 => faults = 0)
  BY DEF IInv, TypeOK
<1>4. worker'[w] = q /\ \A v \in Workers \ {w} : worker'[v] = worker[v]
  BY Here
<1>5. \A i \in DOMAIN rows : rows[i].attempts \in Nat
  <2>1. \A i \in DOMAIN rows : rows[i] \in DeliveryRow
    BY Here
  <2> QED
    BY <2>1 DEF DeliveryRow
<1>6. AttemptsOK'
  BY <1>4, <1>5, NoNewSends
<1>7. rows' \in Seq(DeliveryRow) /\ sent' \in Seq(Nat) /\ Len(sent') = Len(rows')
  BY DEF IInv, TypeOK
<1> QED
  BY <1>1, <1>2, <1>3, <1>6, <1>7, ProcessStep

\* What starting a run makes of its process.
LEMMA StartRunTyped ==
  ASSUME IInv, NEW w \in Workers, NEW scope \in SUBSET Submissions, StartRun(w, scope)
  PROVE  \E q \in Run :
           /\ worker' = [worker EXCEPT ![w] = q] /\ RunOK(q)
           /\ q.pc = "deliver" => worker[w].pc = "deliver" /\ q.due = worker[w].due
<1> DEFINE fresh == [Stopped EXCEPT !.pc = "read", !.scope = scope]
<1>1. fresh \in Run /\ fresh.pc = "read" /\ fresh.due = <<>> /\ RunOK(fresh)
  BY StoppedOK DEF Stopped, Run, RunOK
<1>2. CASE worker[w].pc = "idle"
  BY <1>1, <1>2 DEF StartRun
<1>3. CASE worker[w].pc # "idle"
  <2>1. worker' = worker
    BY <1>3 DEF StartRun
  <2>2. worker' = [worker EXCEPT ![w] = worker[w]]
    BY <2>1, Here
  <2> QED
    BY <2>2, Here
<1> QED
  BY <1>2, <1>3

LEMMA StartInv ==
  ASSUME IInv, NEW w \in Workers, Poll(w) \/ KickReplayed(w) PROVE IInv'
<1>1. PICK scope \in SUBSET Submissions : StartRun(w, scope)
  <2>1. CASE Poll(w)
    BY <2>1 DEF Poll
  <2>2. CASE KickReplayed(w)
    <3>1. rows[replay.row] \in DeliveryRow
      BY <2>2, Here DEF KickReplayed, IInv, ReplayOK
    <3> QED
      BY <2>2, <3>1 DEF KickReplayed, DeliveryRow
  <2> QED
    BY <2>1, <2>2
<1>2. UNCHANGED <<rows, inquiry, sent, replays, alerts, faults>>
      /\ (replay' = replay \/ replay' = NoReplay)
  BY DEF Poll, KickReplayed, table, history
<1> QED
  BY <1>1, <1>2, StartRunTyped, LocalProcessStep

\* The batch a run reads consists of rows of the table.
LEMMA ReadDueInv == ASSUME IInv, NEW w \in Workers, ReadDue(w) PROVE IInv'
<1>1. PICK batch \in Batches(worker[w].scope) :
        worker' = [worker EXCEPT ![w] =
          IF batch = <<>> THEN Stopped ELSE [@ EXCEPT !.pc = "lock", !.due = batch]]
  BY DEF ReadDue
<1>2. UNCHANGED <<rows, inquiry, sent, replays, alerts, replay, faults>>
  BY DEF ReadDue, table, history
<1>3. batch \in Seq(Nat \ {0}) /\ \A n \in DOMAIN batch : batch[n] \in DOMAIN rows
  <2> DEFINE due == {i \in DOMAIN rows : IsDue(i) /\ rows[i].submission \in worker[w].scope}
             n == IF Cardinality(due) < BatchSize THEN Cardinality(due) ELSE BatchSize
  <2>1. DOMAIN rows = 1..Len(rows) /\ Len(rows) \in Nat
    BY Here
  <2>2. IsFiniteSet(1..Len(rows)) /\ due \in SUBSET (1..Len(rows))
    BY <2>1, FS_Interval
  <2>3. Cardinality(due) \in Nat
    BY <2>2, FS_Subset, FS_CardinalityType
  <2>4. n \in Nat
    BY <2>3, SettingsAssumption
  <2>5. batch \in [1..n -> due]
    BY <1>1 DEF Batches
  <2>6. due \subseteq Nat \ {0}
    BY <2>2
  <2> HIDE DEF n, due
  <2>7. batch = [k \in 1..n |-> batch[k]] /\ \A k \in 1..n : batch[k] \in Nat \ {0}
    BY <2>5, <2>6
  <2>8. batch \in Seq(Nat \ {0})
    <3>1. [k \in 1..n |-> batch[k]] \in Seq(Nat \ {0})
      BY <2>4, <2>7
    <3> QED
      BY <2>7, <3>1
  <2> QED
    BY <2>5, <2>8 DEF due
<1>4. CASE batch = <<>>
  BY <1>1, <1>2, <1>4, StoppedOK, LocalProcessStep
<1>5. CASE batch # <<>>
  <2> DEFINE q == [worker[w] EXCEPT !.pc = "lock", !.due = batch]
  <2>1. q \in Run /\ q.pc = "lock" /\ q.due = batch
    BY <1>3, Here DEF Run
  <2>2. worker' = [worker EXCEPT ![w] = q]
    BY <1>1, <1>5
  <2> HIDE DEF q
  <2>3. RunOK(q)
    BY <1>3, <1>5, <2>1 DEF RunOK
  <2> QED
    BY <1>2, <2>1, <2>2, <2>3, LocalProcessStep
<1> QED
  BY <1>4, <1>5

\* Refusals, failing statements, the two statements of the alert.
LEMMA LocalRunInv ==
  ASSUME IInv, NEW w \in Workers,
         \/ DeliverRefused(w, TRUE) \/ DeliverRefused(w, FALSE) \/ RecordDeliveredFails(w)
         \/ RefreshRead(w) \/ RefreshWrite(w) \/ RunFails(w)
  PROVE  IInv'
<1>1. worker[w] \in Run /\ RunOK(worker[w])
  BY Here
<1>2. UNCHANGED <<rows, inquiry, sent, replays, replay>>
      /\ (faults' = faults \/ faults' = faults + 1)
  BY DEF DeliverRefused, RecordDeliveredFails, RefreshRead, RefreshWrite, RunFails, Fault,
         table, history
<1>3. alerts' = alerts
        \/ \E a \in {"open", "resolved", "none"} : alerts' = [alerts EXCEPT !.failure = a]
  <2>1. alerts.failure \in {"none", "open", "resolved"}
    BY DEF IInv, TypeOK
  <2> QED
    BY <2>1 DEF DeliverRefused, RecordDeliveredFails, RefreshRead, RefreshWrite, RunFails,
                Resolved, table
<1>4. CASE \E retryable \in BOOLEAN : Failing(w, retryable) /\ worker[w].pc \in {"deliver", "delivered"}
  <2>1. PICK retryable \in BOOLEAN : Failing(w, retryable) /\ worker[w].pc \in {"deliver", "delivered"}
    BY <1>4
  <2> DEFINE q == [worker[w] EXCEPT !.pc = "failed", !.retryable = retryable]
  <2>2. q \in Run /\ q.pc = "failed" /\ q.due = worker[w].due
    BY <1>1 DEF Run
  <2>3. worker' = [worker EXCEPT ![w] = q]
    BY <2>1 DEF Failing
  <2> HIDE DEF q
  <2>4. RunOK(q)
    BY <1>1, <2>1, <2>2 DEF RunOK
  <2> QED
    BY <1>2, <1>3, <2>2, <2>3, <2>4, LocalProcessStep
<1>5. CASE RefreshRead(w)
  <2> DEFINE q == [worker[w] EXCEPT !.pc = "alert", !.sawFailed = HasFailed]
  <2>1. HasFailed \in BOOLEAN
    BY DEF HasFailed
  <2>2. q \in Run /\ q.pc = "alert" /\ q.due = worker[w].due
    BY <1>1, <2>1 DEF Run
  <2>3. worker' = [worker EXCEPT ![w] = q]
    BY <1>5 DEF RefreshRead
  <2> HIDE DEF q
  <2>4. RunOK(q)
    BY <1>1, <2>2 DEF RunOK
  <2> QED
    BY <1>2, <1>3, <2>2, <2>3, <2>4, LocalProcessStep
<1>6. CASE RefreshWrite(w) \/ RunFails(w)
  <2>1. worker' = [worker EXCEPT ![w] = Stopped]
    BY <1>6 DEF RefreshWrite, RunFails
  <2> QED
    BY <1>2, <1>3, <2>1, StoppedOK, LocalProcessStep
<1> QED
  BY <1>4, <1>5, <1>6 DEF DeliverRefused, RecordDeliveredFails

-----------------------------------------------------------------------------
\* Writing one row of the table.
LEMMA RowWritten ==
  ASSUME IInv, NEW i \in DOMAIN rows, NEW row \in DeliveryRow,
         row.submission = rows[i].submission, row.target = rows[i].target,
         rows' = [rows EXCEPT ![i] = row]
  PROVE  /\ rows' \in Seq(DeliveryRow) /\ Len(rows') = Len(rows) /\ SameRows
         /\ \A j \in DOMAIN rows : rows'[j] = IF j = i THEN row ELSE rows[j]
<1>1. rows \in Seq(DeliveryRow)
  BY Here
<1> QED
  BY <1>1 DEF SameRows

\* The row a run is at.
LEMMA CurrentRow ==
  ASSUME IInv, NEW w \in Workers,
         worker[w].pc \in {"lock", "deliver", "delivered", "failed"}
  PROVE  /\ Current(w) \in DOMAIN rows
         /\ rows[Current(w)] \in DeliveryRow
         /\ worker[w].due \in Seq(Nat \ {0}) /\ worker[w].due # <<>>
<1>1. worker[w].due \in Seq(Nat \ {0}) /\ worker[w].due # <<>>
  BY Here DEF Run, RunOK
<1>2. 1 \in DOMAIN worker[w].due /\ Current(w) = worker[w].due[1]
  BY <1>1 DEF Current
<1>3. Current(w) \in DOMAIN rows
  BY <1>2, Here DEF RunOK
<1> QED
  BY <1>1, <1>3, Here

\* An attempt is on record before the message leaves.
LEMMA LockInv == ASSUME IInv, NEW w \in Workers, Lock(w) PROVE IInv'
<1> DEFINE c == Current(w)
           n == rows[c].attempts + 1
           row == [rows[c] EXCEPT !.status = "PROCESSING", !.attempts = n, !.ripe = FALSE]
           q == [worker[w] EXCEPT !.pc = "deliver", !.attempt = n]
<1>1. /\ worker[w].pc = "lock" /\ rows' = [rows EXCEPT ![c] = row]
      /\ worker' = [worker EXCEPT ![w] = q]
      /\ UNCHANGED <<inquiry, alerts, replay, sent, replays, faults>>
  BY DEF Lock
<1>2. c \in DOMAIN rows /\ rows[c] \in DeliveryRow /\ n \in Nat
  <2>1. c \in DOMAIN rows /\ rows[c] \in DeliveryRow
    BY <1>1, CurrentRow
  <2> QED
    BY <2>1 DEF DeliveryRow
<1>3. /\ row \in DeliveryRow /\ row.attempts = n
      /\ row.submission = rows[c].submission /\ row.target = rows[c].target
  <2> HIDE DEF n, c
  <2> QED
    BY <1>2 DEF DeliveryRow
<1>4. q \in Run /\ q.pc = "deliver" /\ q.due = worker[w].due
  <2>1. worker[w] \in Run
    BY Here
  <2> HIDE DEF n
  <2> QED
    BY <1>2, <2>1 DEF Run
<1>5. RunOK(q)
  <2> HIDE DEF q
  <2> QED
    BY <1>1, <1>4, Here DEF RunOK
<1> HIDE DEF q, row
<1>6. /\ rows' \in Seq(DeliveryRow) /\ Len(rows') = Len(rows) /\ SameRows
      /\ \A j \in DOMAIN rows : rows'[j] = IF j = c THEN row ELSE rows[j]
  BY <1>1, <1>2, <1>3, RowWritten
<1>7. worker'[w] = q /\ \A v \in Workers \ {w} : worker'[v] = worker[v]
  BY <1>1, Here
<1>8. AttemptsOK'
  <2> SUFFICES ASSUME NEW i \in DOMAIN rows
               PROVE  sent[i] + Cardinality(Sending(i)') <= rows'[i].attempts
    BY <1>1, <1>6 DEF AttemptsOK, SameRows
  <2>1. sent[i] \in Nat /\ rows[i].attempts \in Nat
    BY Here DEF DeliveryRow
  <2>2. sent[i] + Cardinality(Sending(i)) <= rows[i].attempts
    BY DEF IInv, AttemptsOK
  <2>3. Sending(i) \subseteq Workers /\ Sending(i)' \subseteq Workers
    BY DEF Sending
  <2>4. IsFiniteSet(Sending(i)) /\ Cardinality(Sending(i)) \in Nat
        /\ Cardinality(Sending(i)') \in Nat
    BY <2>3, SendingFinite
  <2>5. CASE i = c
    <3>1. Sending(i)' \subseteq Sending(i) \cup {w}
      BY <1>7 DEF Sending, Current
    <3>2. IsFiniteSet(Sending(i) \cup {w})
          /\ Cardinality(Sending(i) \cup {w}) <= Cardinality(Sending(i)) + 1
          /\ Cardinality(Sending(i) \cup {w}) \in Nat
      BY <2>4, FS_AddElement
    <3>3. Cardinality(Sending(i)') <= Cardinality(Sending(i) \cup {w})
      BY <3>1, <3>2, FS_Subset
    <3>4. rows'[i].attempts = rows[i].attempts + 1
      BY <1>3, <1>6, <2>5 DEF n
    <3> QED
      BY <2>1, <2>2, <2>4, <3>2, <3>3, <3>4
  <2>6. CASE i # c
    <3>1. Sending(i)' \subseteq Sending(i)
      BY <1>4, <1>7, <2>6 DEF Sending, Current
    <3>2. Cardinality(Sending(i)') <= Cardinality(Sending(i))
      BY <2>4, <3>1, FS_Subset
    <3>3. rows'[i] = rows[i]
      BY <1>6, <2>6
    <3> QED
      BY <2>1, <2>2, <2>4, <3>2, <3>3
  <2> QED
    BY <2>5, <2>6
<1>9. /\ sent' \in Seq(Nat) /\ Len(sent') = Len(rows')
      /\ alerts' \in [failure : {"none", "open", "resolved"},
                      routing : {"none", "open", "resolved"}]
      /\ faults' \in Nat
  BY <1>1, <1>6 DEF IInv, TypeOK
<1> QED
  BY <1>1, <1>4, <1>5, <1>6, <1>8, <1>9, ProcessStep

\* A message that left uses up the attempt of its process.
LEMMA SendInv ==
  ASSUME IInv, NEW w \in Workers, DeliverAccepted(w) \/ DeliverUnanswered(w) PROVE IInv'
<1> DEFINE c == Current(w)
<1>1. /\ worker[w].pc = "deliver" /\ sent' = [sent EXCEPT ![c] = sent[c] + 1]
      /\ UNCHANGED <<rows, inquiry, alerts, replay, replays>>
      /\ faults' = faults \/ faults' = faults + 1
  BY DEF DeliverAccepted, DeliverUnanswered, Fault, table
<1>2. PICK q \in Run : /\ worker' = [worker EXCEPT ![w] = q] /\ RunOK(q)
                       /\ q.pc \in {"delivered", "failed"}
  <2>1. worker[w] \in Run /\ RunOK(worker[w])
    BY Here
  <2>2. CASE DeliverAccepted(w)
    <3> DEFINE q == [worker[w] EXCEPT !.pc = "delivered"]
    <3>1. q \in Run /\ q.pc = "delivered" /\ q.due = worker[w].due
      BY <2>1 DEF Run
    <3>2. worker' = [worker EXCEPT ![w] = q]
      BY <2>2 DEF DeliverAccepted, Goto
    <3> HIDE DEF q
    <3>3. RunOK(q)
      BY <1>1, <2>1, <3>1 DEF RunOK
    <3> QED
      BY <3>1, <3>2, <3>3
  <2>3. CASE DeliverUnanswered(w)
    <3> DEFINE q == [worker[w] EXCEPT !.pc = "failed", !.retryable = TRUE]
    <3>1. q \in Run /\ q.pc = "failed" /\ q.due = worker[w].due
      BY <2>1 DEF Run
    <3>2. worker' = [worker EXCEPT ![w] = q]
      BY <2>3 DEF DeliverUnanswered, Failing
    <3> HIDE DEF q
    <3>3. RunOK(q)
      BY <1>1, <2>1, <3>1 DEF RunOK
    <3> QED
      BY <3>1, <3>2, <3>3
  <2> QED
    BY <2>2, <2>3
<1>3. c \in DOMAIN rows /\ sent \in Seq(Nat) /\ c \in DOMAIN sent /\ sent[c] \in Nat
  BY <1>1, CurrentRow, Here
<1>4. /\ sent' \in Seq(Nat) /\ Len(sent') = Len(sent) /\ DOMAIN sent' = DOMAIN sent
      /\ \A i \in DOMAIN rows : sent'[i] = IF i = c THEN sent[c] + 1 ELSE sent[i]
  BY <1>1, <1>3, Here
<1>5. worker'[w] = q /\ \A v \in Workers \ {w} : worker'[v] = worker[v]
  BY <1>2, Here
<1>6. AttemptsOK'
  <2> SUFFICES ASSUME NEW i \in DOMAIN rows
               PROVE  sent'[i] + Cardinality(Sending(i)') <= rows[i].attempts
    BY <1>1 DEF AttemptsOK
  <2>1. sent[i] \in Nat /\ rows[i].attempts \in Nat
    BY Here DEF DeliveryRow
  <2>2. sent[i] + Cardinality(Sending(i)) <= rows[i].attempts
    BY DEF IInv, AttemptsOK
  <2>3. Sending(i) \subseteq Workers /\ Sending(i)' \subseteq Workers
    BY DEF Sending
  <2>4. IsFiniteSet(Sending(i)) /\ Cardinality(Sending(i)) \in Nat
        /\ Cardinality(Sending(i)') \in Nat
    BY <2>3, SendingFinite
  <2>5. Sending(i)' \subseteq Sending(i) \ {w}
    BY <1>2, <1>5 DEF Sending, Current
  <2>6. CASE i = c
    <3>1. w \in Sending(i)
      BY <1>1, <2>6 DEF Sending
    <3>2. IsFiniteSet(Sending(i) \ {w})
          /\ Cardinality(Sending(i) \ {w}) = Cardinality(Sending(i)) - 1
      BY <2>4, <3>1, FS_RemoveElement
    <3>3. Cardinality(Sending(i)') <= Cardinality(Sending(i) \ {w})
      BY <2>5, <3>2, FS_Subset
    <3>4. sent'[i] = sent[i] + 1
      BY <1>4, <2>6
    <3> HIDE DEF c
    <3> QED
      BY <2>1, <2>2, <2>4, <3>2, <3>3, <3>4
  <2>7. CASE i # c
    <3>1. Cardinality(Sending(i)') <= Cardinality(Sending(i))
      BY <2>4, <2>5, FS_Subset
    <3>2. sent'[i] = sent[i]
      BY <1>4, <2>7
    <3> QED
      BY <2>1, <2>2, <2>4, <3>1, <3>2
  <2> QED
    BY <2>6, <2>7
<1>7. /\ SameRows /\ rows' \in Seq(DeliveryRow) /\ Len(sent') = Len(rows')
      /\ alerts' \in [failure : {"none", "open", "resolved"},
                      routing : {"none", "open", "resolved"}]
      /\ faults' \in Nat /\ (faults' = 0 => faults = 0)
  BY <1>1, <1>4 DEF IInv, TypeOK, SameRows
<1> QED
  BY <1>1, <1>2, <1>4, <1>6, <1>7, ProcessStep

\* The outcome of a send is written and the run goes on to the next row.
LEMMA RecordInv ==
  ASSUME IInv, NEW w \in Workers, RecordDelivered(w) \/ RecordFailure(w) PROVE IInv'
<1> DEFINE c == Current(w)
           rest == Tail(worker[w].due)
           label == IF rest = <<>> THEN "refresh" ELSE "lock"
           q == [worker[w] EXCEPT !.due = rest, !.pc = label]
<1>1. /\ worker[w].pc \in {"delivered", "failed"} /\ worker' = [worker EXCEPT ![w] = q]
      /\ UNCHANGED <<inquiry, alerts, replay, sent, replays, faults>>
  BY DEF RecordDelivered, RecordFailure, NextDelivery, history
<1>2. PICK status \in {"DELIVERED", "FAILED", "PENDING"} :
        rows' = [rows EXCEPT ![c] = [rows[c] EXCEPT !.status = status, !.ripe = FALSE]]
  BY DEF RecordDelivered, RecordFailure
<1> DEFINE row == [rows[c] EXCEPT !.status = status, !.ripe = FALSE]
<1>3. /\ c \in DOMAIN rows /\ rows[c] \in DeliveryRow
      /\ worker[w].due \in Seq(Nat \ {0}) /\ worker[w].due # <<>>
      /\ worker[w] \in Run /\ RunOK(worker[w])
  BY <1>1, CurrentRow, Here
<1>4. /\ row \in DeliveryRow /\ row.attempts = rows[c].attempts
      /\ row.submission = rows[c].submission /\ row.target = rows[c].target
  <2> HIDE DEF c
  <2> QED
    BY <1>3 DEF DeliveryRow
<1>5. /\ rest \in Seq(Nat \ {0}) /\ Len(rest) = Len(worker[w].due) - 1
      /\ \A n \in 1..Len(rest) : rest[n] = worker[w].due[n + 1]
  BY <1>3, HeadTailProperties
<1>6. \A n \in DOMAIN rest : rest[n] \in DOMAIN rows
  <2>1. DOMAIN rest = 1..Len(rest) /\ Len(rest) \in Nat
        /\ DOMAIN worker[w].due = 1..Len(worker[w].due) /\ Len(worker[w].due) \in Nat
    BY <1>3, <1>5, LenProperties
  <2>2. \A n \in 1..Len(rest) : n + 1 \in DOMAIN worker[w].due
    BY <1>5, <2>1
  <2> HIDE DEF rest
  <2> QED
    BY <1>3, <1>5, <2>1, <2>2 DEF RunOK
<1>7. q \in Run /\ q.pc = label /\ q.due = rest
  <2> HIDE DEF rest
  <2> QED
    BY <1>3, <1>5 DEF Run
<1> HIDE DEF q, rest, row
<1>8. RunOK(q) /\ q.pc # "deliver"
  BY <1>6, <1>7 DEF RunOK
<1>9. /\ rows' \in Seq(DeliveryRow) /\ Len(rows') = Len(rows) /\ SameRows
      /\ \A j \in DOMAIN rows : rows'[j] = IF j = c THEN row ELSE rows[j]
  BY <1>2, <1>3, <1>4, RowWritten DEF row
<1>10. worker'[w] = q /\ \A v \in Workers \ {w} : worker'[v] = worker[v]
  BY <1>1, Here
<1>11. \A i \in DOMAIN rows : rows'[i].attempts = rows[i].attempts /\ rows[i].attempts \in Nat
  <2>1. \A i \in DOMAIN rows : rows[i].attempts \in Nat
    BY Here DEF DeliveryRow
  <2> QED
    BY <1>4, <1>9, <2>1
<1>12. AttemptsOK'
  <2>1. \A i \in DOMAIN rows : rows'[i].attempts \in Nat /\ rows'[i].attempts >= rows[i].attempts
    BY <1>11
  <2> QED
    BY <1>1, <1>8, <1>9, <1>10, <2>1, NoNewSends DEF SameRows
<1>13. /\ sent' \in Seq(Nat) /\ Len(sent') = Len(rows')
       /\ alerts' \in [failure : {"none", "open", "resolved"},
                       routing : {"none", "open", "resolved"}]
       /\ faults' \in Nat
  BY <1>1, <1>9 DEF IInv, TypeOK
<1> QED
  BY <1>1, <1>7, <1>8, <1>9, <1>12, <1>13, ProcessStep

-----------------------------------------------------------------------------
\* Time and the operator write rows that exist.
LEMMA OutsideInv ==
  ASSUME IInv,
         \/ \E i \in DOMAIN rows : Elapse(i) \/ ReplayRead(i)
         \/ ReplayUpdate
  PROVE  IInv'
<1>1. UNCHANGED <<inquiry, worker, alerts, sent, faults>>
      /\ (replays' = replays \/ replays' = replays + 1)
  BY DEF Elapse, ReplayRead, ReplayUpdate, table, history
<1>2. /\ rows' \in Seq(DeliveryRow) /\ Len(rows') = Len(rows) /\ SameRows
      /\ \A i \in DOMAIN rows : rows'[i].attempts = rows[i].attempts
  <2>1. CASE \E i \in DOMAIN rows : Elapse(i)
    <3>1. PICK i \in DOMAIN rows : Elapse(i)
      BY <2>1
    <3> DEFINE row == [rows[i] EXCEPT !.ripe = TRUE]
    <3>2. rows[i] \in DeliveryRow
      BY Here
    <3>3. /\ row \in DeliveryRow /\ row.attempts = rows[i].attempts
          /\ row.submission = rows[i].submission /\ row.target = rows[i].target
      BY <3>2 DEF DeliveryRow
    <3>4. rows' = [rows EXCEPT ![i] = row]
      BY <3>1 DEF Elapse
    <3> HIDE DEF row
    <3> QED
      BY <3>3, <3>4, RowWritten
  <2>2. CASE \E i \in DOMAIN rows : ReplayRead(i)
    BY <2>2, Here DEF ReplayRead, table, SameRows
  <2>3. CASE ReplayUpdate
    <3> DEFINE i == replay.row
               row == [rows[i] EXCEPT !.status = "PENDING", !.ripe = TRUE]
    <3>1. i \in DOMAIN rows /\ rows[i] \in DeliveryRow
      BY <2>3, Here DEF ReplayUpdate, IInv, ReplayOK
    <3>2. rows' = [rows EXCEPT ![i] = row]
      BY <2>3 DEF ReplayUpdate
    <3> HIDE DEF i
    <3>3. /\ row \in DeliveryRow /\ row.attempts = rows[i].attempts
          /\ row.submission = rows[i].submission /\ row.target = rows[i].target
      BY <3>1 DEF DeliveryRow
    <3> HIDE DEF row
    <3> QED
      BY <3>1, <3>2, <3>3, RowWritten
  <2> QED
    BY <2>1, <2>2, <2>3
<1>3. /\ replay' \in [pc : {"idle", "update", "kick"}, row : Nat]
      /\ replay'.pc # "idle" => replay'.row \in DOMAIN rows
  <2>1. replay \in [pc : {"idle", "update", "kick"}, row : Nat]
    BY DEF IInv, TypeOK
  <2>2. CASE \E i \in DOMAIN rows : Elapse(i)
    BY <2>1, <2>2 DEF Elapse, IInv, ReplayOK
  <2>3. CASE \E i \in DOMAIN rows : ReplayRead(i)
    BY <2>3, Here DEF ReplayRead
  <2>4. CASE ReplayUpdate
    BY <2>1, <2>4 DEF ReplayUpdate, IInv, ReplayOK
  <2> QED
    BY <2>2, <2>3, <2>4
<1>4. TypeOK'
  BY <1>1, <1>2, <1>3 DEF IInv, TypeOK
<1>5. RunsOK' /\ ReplayOK'
  BY <1>1, <1>2, <1>3 DEF IInv, RunsOK, RunOK, ReplayOK, SameRows
<1>6. AttemptsOK'
  <2>1. \A i \in DOMAIN rows : rows[i].attempts \in Nat
    BY Here DEF DeliveryRow
  <2> QED
    BY <1>1, <1>2, <2>1, NoNewSends DEF SameRows
<1>7. InquiriesOK'
  BY <1>1, <1>2, SameInquiries DEF IInv, TypeOK
<1> QED
  BY <1>4, <1>5, <1>6, <1>7 DEF IInv

-----------------------------------------------------------------------------
\* A step of one inquiry that leaves the rows alone.
LEMMA InquiryStep ==
  ASSUME IInv, NEW s \in Submissions, NEW x \in Inquiry,
         inquiry' = [inquiry EXCEPT ![s] = x],
         UNCHANGED <<rows, sent, replay, replays>>, TypeOK', RunsOK',
         \A w \in Workers : worker'[w].pc = "deliver" =>
                              worker[w].pc = "deliver" /\ worker'[w].due = worker[w].due,
         faults' = 0 => faults = 0,
         alerts.routing # "none" => alerts'.routing # "none",
         x.pc = "unrouted" => x.targets = {},
         x.pc \in {"routed", "create", "kick"} => x.targets # {},
         x.pc \in {"none", "unrouted", "routed", "create"} => RowsOf(s) = {},
         x.pc = "kick" => x.targets = {rows[i].target : i \in RowsOf(s)},
         faults' = 0 /\ x.pc = "queued" =>
           IF x.targets = {} THEN alerts'.routing # "none"
           ELSE x.targets = {rows[i].target : i \in RowsOf(s)}
  PROVE  IInv'
<1>1. inquiry'[s] = x /\ \A t \in Submissions \ {s} : inquiry'[t] = inquiry[t]
  BY Here
<1>2. \A t \in Submissions : RowsOf(t)' = RowsOf(t)
  BY DEF RowsOf
<1>3. \A t \in Submissions : InquiryOK(t)'
  <2>1. InquiryOK(s)'
    BY <1>1, <1>2 DEF InquiryOK
  <2>2. ASSUME NEW t \in Submissions \ {s} PROVE InquiryOK(t)'
    BY <1>1, <1>2 DEF IInv, InquiriesOK, InquiryOK
  <2> QED
    BY <2>1, <2>2
<1>4. InquiriesAreRouted'
  BY <1>1, <1>2 DEF IInv, InquiriesOK, InquiriesAreRouted
<1>5. AttemptsOK'
  <2>1. \A i \in DOMAIN rows : rows[i].attempts \in Nat
    BY Here DEF DeliveryRow
  <2> QED
    BY <2>1, NoNewSends
<1>6. ReplayOK'
  BY DEF IInv, ReplayOK
<1> QED
  BY <1>3, <1>4, <1>5, <1>6 DEF IInv, InquiriesOK

\* What an inquiry becomes has its type.
LEMMA InquiryTyped ==
  ASSUME NEW x \in Inquiry, NEW label \in {"unrouted", "routed", "create", "kick", "queued"}
  PROVE  /\ [x EXCEPT !.pc = label] \in Inquiry
         /\ [x EXCEPT !.pc = label].pc = label
         /\ [x EXCEPT !.pc = label].targets = x.targets
BY DEF Inquiry

\* The statements before the rows are created, and the handler cut short.
LEMMA RoutingInv ==
  ASSUME IInv, NEW s \in Submissions,
         \/ \E targets \in SUBSET Targets : ResolveTargets(s, targets)
         \/ OpenRoutingAlert(s) \/ ResolveRoutingAlert(s) \/ QueueFails(s)
  PROVE  IInv'
<1>1. /\ inquiry \in [Submissions -> Inquiry] /\ inquiry[s] \in Inquiry /\ InquiryOK(s)
      /\ alerts.routing \in {"none", "open", "resolved"}
      /\ faults \in Nat
  BY Here DEF IInv, TypeOK
<1>2. UNCHANGED <<rows, sent, replay, replays, worker>>
  BY DEF ResolveTargets, OpenRoutingAlert, ResolveRoutingAlert, QueueFails, history
<1>3. PICK x \in Inquiry :
        /\ inquiry' = [inquiry EXCEPT ![s] = x]
        /\ x.pc = "unrouted" => x.targets = {}
        /\ x.pc \in {"routed", "create"} => x.targets # {}
        /\ x.pc # "kick"
        /\ x.pc # "queued" => RowsOf(s) = {}
        /\ x.pc = "queued" /\ faults' = 0 => x.targets = {} /\ alerts'.routing # "none"
  <2>1. ASSUME NEW targets \in SUBSET Targets, ResolveTargets(s, targets)
        PROVE  \E x \in Inquiry :
                 /\ inquiry' = [inquiry EXCEPT ![s] = x]
                 /\ x.pc = "unrouted" => x.targets = {}
                 /\ x.pc \in {"routed", "create"} => x.targets # {}
                 /\ x.pc \in {"unrouted", "routed"} /\ RowsOf(s) = {}
    <3> DEFINE x == [pc |-> IF targets = {} THEN "unrouted" ELSE "routed", targets |-> targets]
    <3>1. x \in Inquiry
      BY DEF Inquiry
    <3> QED
      BY <1>1, <2>1, <3>1 DEF ResolveTargets, InquiryOK
  <2>2. CASE OpenRoutingAlert(s)
    <3> DEFINE x == [inquiry[s] EXCEPT !.pc = "queued"]
    <3>1. x \in Inquiry /\ x.pc = "queued" /\ x.targets = inquiry[s].targets
      BY <1>1, InquiryTyped
    <3>2. inquiry' = [inquiry EXCEPT ![s] = x]
      BY <2>2 DEF OpenRoutingAlert
    <3>3. inquiry[s].targets = {}
      BY <1>1, <2>2 DEF OpenRoutingAlert, InquiryOK
    <3>4. alerts'.routing # "none"
      BY <2>2 DEF OpenRoutingAlert, IInv, TypeOK
    <3> HIDE DEF x
    <3> QED
      BY <3>1, <3>2, <3>3, <3>4
  <2>3. CASE ResolveRoutingAlert(s)
    <3> DEFINE x == [inquiry[s] EXCEPT !.pc = "create"]
    <3>1. x \in Inquiry /\ x.pc = "create" /\ x.targets = inquiry[s].targets
      BY <1>1, InquiryTyped
    <3>2. inquiry' = [inquiry EXCEPT ![s] = x]
      BY <2>3 DEF ResolveRoutingAlert
    <3>3. inquiry[s].targets # {} /\ RowsOf(s) = {}
      BY <1>1, <2>3 DEF ResolveRoutingAlert, InquiryOK
    <3> HIDE DEF x
    <3> QED
      BY <3>1, <3>2, <3>3
  <2>4. CASE QueueFails(s)
    <3> DEFINE x == [inquiry[s] EXCEPT !.pc = "queued"]
    <3>1. x \in Inquiry /\ x.pc = "queued"
      BY <1>1, InquiryTyped
    <3>2. inquiry' = [inquiry EXCEPT ![s] = x] /\ faults' # 0
      BY <1>1, <2>4 DEF QueueFails, Fault
    <3> HIDE DEF x
    <3> QED
      BY <3>1, <3>2
  <2> QED
    BY <2>1, <2>2, <2>3, <2>4
<1>4. /\ alerts' \in [failure : {"none", "open", "resolved"},
                      routing : {"none", "open", "resolved"}]
      /\ alerts.routing # "none" => alerts'.routing # "none"
  BY DEF ResolveTargets, OpenRoutingAlert, ResolveRoutingAlert, QueueFails, Resolved,
         IInv, TypeOK
<1>5. faults' \in Nat /\ (faults' = 0 => faults = 0)
  BY <1>1 DEF ResolveTargets, OpenRoutingAlert, ResolveRoutingAlert, QueueFails, Fault, history
<1>6. inquiry' \in [Submissions -> Inquiry]
  BY <1>1, <1>3
<1>7. TypeOK'
  BY <1>2, <1>4, <1>5, <1>6 DEF IInv, TypeOK, Inquiry
<1>8. RunsOK'
  BY <1>2 DEF IInv, RunsOK, RunOK
<1>9. x.pc = "none" => RowsOf(s) = {}
  BY <1>3
<1> QED
  BY <1>2, <1>3, <1>4, <1>5, <1>7, <1>8, <1>9, InquiryStep

\* The scoped run is started, or not if one is on, and the handler is over.
LEMMA KickInv ==
  ASSUME IInv, NEW s \in Submissions, NEW w \in Workers, KickQueued(s, w) PROVE IInv'
<1> DEFINE x == [inquiry[s] EXCEPT !.pc = "queued"]
<1>1. /\ StartRun(w, {s}) /\ inquiry[s].pc = "kick" /\ inquiry' = [inquiry EXCEPT ![s] = x]
      /\ UNCHANGED <<rows, alerts, replay, sent, replays, faults>>
  BY DEF KickQueued, history
<1>2. inquiry[s] \in Inquiry /\ InquiryOK(s) /\ inquiry \in [Submissions -> Inquiry]
  BY Here
<1>3. x \in Inquiry /\ x.pc = "queued" /\ x.targets = inquiry[s].targets
  BY <1>2, InquiryTyped
<1> HIDE DEF x
<1>4. x.targets # {} /\ x.targets = {rows[i].target : i \in RowsOf(s)}
  BY <1>1, <1>2, <1>3 DEF InquiryOK
<1>5. PICK q \in Run :
        /\ worker' = [worker EXCEPT ![w] = q] /\ RunOK(q)
        /\ q.pc = "deliver" => worker[w].pc = "deliver" /\ q.due = worker[w].due
  <2>1. {s} \in SUBSET Submissions
    OBVIOUS
  <2> QED
    BY <1>1, <2>1, StartRunTyped
<1>6. worker' \in [Workers -> Run] /\ worker'[w] = q
      /\ \A v \in Workers \ {w} : worker'[v] = worker[v]
  BY <1>5, Here
<1>7. TypeOK'
  <2>1. inquiry' \in [Submissions -> Inquiry]
    BY <1>1, <1>2, <1>3
  <2> QED
    BY <1>1, <1>6, <2>1 DEF IInv, TypeOK, Inquiry
<1>8. RunsOK'
  BY <1>1, <1>5, <1>6, Here DEF RunsOK, RunOK
<1>9. \A v \in Workers : worker'[v].pc = "deliver" =>
                           worker[v].pc = "deliver" /\ worker'[v].due = worker[v].due
  BY <1>5, <1>6
<1> QED
  BY <1>1, <1>3, <1>4, <1>7, <1>8, <1>9, InquiryStep

\* createMany appends a row for each target: nothing has been tried or sent.
LEMMA NewRows ==
  ASSUME IInv, NEW s \in Submissions, CreateDeliveries(s)
  PROVE  \E added \in Seq(DeliveryRow) :
           /\ inquiry[s].targets = {added[i].target : i \in 1..Len(added)}
           /\ \A i \in 1..Len(added) :
                added[i].submission = s /\ added[i].attempts = 0 /\ added[i].status = "PENDING"
           /\ rows' \in Seq(DeliveryRow) /\ sent' \in Seq(Nat)
           /\ DOMAIN rows' = 1..Len(rows) + Len(added) /\ Len(sent') = Len(rows')
           /\ \A i \in DOMAIN rows :
                i \in DOMAIN rows' /\ rows'[i] = rows[i] /\ sent'[i] = sent[i]
           /\ \A i \in DOMAIN rows' \ DOMAIN rows :
                /\ i - Len(rows) \in 1..Len(added)
                /\ rows'[i] = added[i - Len(rows)] /\ sent'[i] = 0
<1> DEFINE new == inquiry[s].targets
           n == Cardinality(new)
           len == Len(rows)
<1>1. inquiry[s].pc = "create"
  BY DEF CreateDeliveries
<1>2. inquiry[s] \in Inquiry /\ InquiryOK(s)
  BY Here
<1>3. new \in SUBSET Targets /\ new # {} /\ RowsOf(s) = {}
  BY <1>1, <1>2 DEF InquiryOK, Inquiry
<1>4. n \in Nat
  BY <1>3, SetsAssumption, FS_Subset, FS_CardinalityType
<1>5. new \ {rows[i].target : i \in RowsOf(s)} = new
  BY <1>3
<1>6. PICK order \in [1..n -> new] :
        /\ new = {order[i] : i \in 1..n}
        /\ rows' = rows \o [i \in DOMAIN order |->
             [submission |-> s, target |-> order[i], attempts |-> 0,
              ripe |-> TRUE, status |-> "PENDING"]]
        /\ sent' = sent \o [i \in DOMAIN order |-> 0]
  BY <1>5 DEF CreateDeliveries
<1>8. /\ rows \in Seq(DeliveryRow) /\ sent \in Seq(Nat) /\ len \in Nat /\ Len(sent) = len
      /\ DOMAIN rows = 1..len
  BY Here DEF IInv, TypeOK
<1> DEFINE added == [i \in 1..n |->
             [submission |-> s, target |-> order[i], attempts |-> 0,
              ripe |-> TRUE, status |-> "PENDING"]]
           zeros == [i \in 1..n |-> 0]
<1>9. rows' = rows \o added /\ sent' = sent \o zeros
  BY <1>6
<1> HIDE DEF n, new
<1>10. \A i \in 1..n :
         /\ added[i] \in DeliveryRow /\ added[i].submission = s
         /\ added[i].target = order[i] /\ added[i].attempts = 0
         /\ added[i].status = "PENDING"
  BY <1>3, <1>6 DEF DeliveryRow
<1>11. added \in Seq(DeliveryRow) /\ Len(added) = n /\ zeros \in Seq(Nat) /\ Len(zeros) = n
       /\ \A i \in 1..n : zeros[i] = 0
  BY <1>4, <1>10
<1> HIDE DEF added, zeros
<1>12. /\ rows' \in Seq(DeliveryRow) /\ Len(rows') = len + n
       /\ \A i \in 1..len + n : rows'[i] = IF i <= len THEN rows[i] ELSE added[i - len]
  <2>1. /\ rows \o added \in Seq(DeliveryRow) /\ Len(rows \o added) = Len(rows) + Len(added)
        /\ \A i \in 1..Len(rows) + Len(added) :
             (rows \o added)[i] = IF i <= Len(rows) THEN rows[i] ELSE added[i - Len(rows)]
    BY <1>8, <1>11, ConcatProperties
  <2> QED
    BY <1>9, <1>11, <2>1
<1>13. /\ sent' \in Seq(Nat) /\ Len(sent') = len + n
       /\ \A i \in 1..len + n : sent'[i] = IF i <= len THEN sent[i] ELSE zeros[i - len]
  <2>1. /\ sent \o zeros \in Seq(Nat) /\ Len(sent \o zeros) = Len(sent) + Len(zeros)
        /\ \A i \in 1..Len(sent) + Len(zeros) :
             (sent \o zeros)[i] = IF i <= Len(sent) THEN sent[i] ELSE zeros[i - Len(sent)]
    BY <1>8, <1>11, ConcatProperties
  <2> QED
    BY <1>8, <1>9, <1>11, <2>1
<1> HIDE DEF len
<1>14. /\ DOMAIN rows' = 1..len + n /\ Len(sent') = Len(rows')
       /\ \A i \in DOMAIN rows :
            i \in DOMAIN rows' /\ rows'[i] = rows[i] /\ sent'[i] = sent[i]
  BY <1>4, <1>8, <1>12, <1>13
<1>15. \A i \in DOMAIN rows' \ DOMAIN rows :
         i - len \in 1..n /\ rows'[i] = added[i - len] /\ sent'[i] = 0
  BY <1>4, <1>8, <1>11, <1>12, <1>13, <1>14
<1>16. new = {added[i].target : i \in 1..n}
  BY <1>6, <1>10
<1>17. Len(added) = n /\ Len(rows) = len
  BY <1>11 DEF len
<1> QED
  BY <1>10, <1>11, <1>12, <1>13, <1>14, <1>15, <1>16, <1>17 DEF new

\* The rows of a submission are those of its targets, and they start at zero.
LEMMA CreateInv == ASSUME IInv, NEW s \in Submissions, CreateDeliveries(s) PROVE IInv'
<1> DEFINE new == inquiry[s].targets
           len == Len(rows)
           x == [inquiry[s] EXCEPT !.pc = "kick"]
<1>1. /\ inquiry[s].pc = "create" /\ inquiry' = [inquiry EXCEPT ![s] = x]
      /\ UNCHANGED <<worker, replay, alerts, replays, faults>>
  BY DEF CreateDeliveries
<1>2. inquiry[s] \in Inquiry /\ InquiryOK(s) /\ inquiry \in [Submissions -> Inquiry]
  BY Here
<1>3. new # {} /\ RowsOf(s) = {}
  BY <1>1, <1>2 DEF InquiryOK
<1>4. x \in Inquiry /\ x.pc = "kick" /\ x.targets = new
  BY <1>2, InquiryTyped
<1>5. len \in Nat /\ DOMAIN rows = 1..len
  BY Here
<1>6. PICK added \in Seq(DeliveryRow) :
         /\ new = {added[i].target : i \in 1..Len(added)}
         /\ \A i \in 1..Len(added) :
              added[i].submission = s /\ added[i].attempts = 0 /\ added[i].status = "PENDING"
         /\ rows' \in Seq(DeliveryRow) /\ sent' \in Seq(Nat)
         /\ DOMAIN rows' = 1..len + Len(added) /\ Len(sent') = Len(rows')
         /\ \A i \in DOMAIN rows :
              i \in DOMAIN rows' /\ rows'[i] = rows[i] /\ sent'[i] = sent[i]
         /\ \A i \in DOMAIN rows' \ DOMAIN rows :
              /\ i - len \in 1..Len(added)
              /\ rows'[i] = added[i - len] /\ sent'[i] = 0
  BY NewRows
<1> DEFINE n == Len(added)
<1>7. n \in Nat
  OBVIOUS
<1> HIDE DEF n, x, new, len
<1>8. DOMAIN rows' = 1..len + n /\ DOMAIN rows \subseteq DOMAIN rows'
       /\ \A i \in DOMAIN rows : rows'[i] = rows[i] /\ sent'[i] = sent[i]
  BY <1>6 DEF n
<1>9. \A i \in DOMAIN rows' \ DOMAIN rows :
         /\ i - len \in 1..n /\ rows'[i] = added[i - len] /\ sent'[i] = 0
         /\ rows'[i].submission = s /\ rows'[i].attempts = 0
  BY <1>6 DEF n
<1>10. \A t \in Submissions \ {s} : RowsOf(t)' = RowsOf(t)
  BY <1>8, <1>9 DEF RowsOf
<1>11. new = {rows'[i].target : i \in RowsOf(s)'}
  <2>1. ASSUME NEW i \in 1..n
        PROVE  i + len \in RowsOf(s)' /\ rows'[i + len].target = added[i].target
    <3>1. i + len \in DOMAIN rows' \ DOMAIN rows /\ (i + len) - len = i
      BY <1>7, <1>5, <1>8
    <3> QED
      BY <1>9, <3>1 DEF RowsOf
  <2>2. ASSUME NEW i \in RowsOf(s)'
        PROVE  \E k \in 1..n : rows'[i].target = added[k].target
    <3>1. i \in DOMAIN rows' \ DOMAIN rows
      BY <1>3, <1>8 DEF RowsOf
    <3> QED
      BY <1>9, <3>1
  <2>3. new = {added[i].target : i \in 1..n}
    BY <1>6 DEF n
  <2> QED
    BY <2>1, <2>2, <2>3
<1>12. inquiry'[s] = x /\ inquiry' \in [Submissions -> Inquiry]
       /\ \A t \in Submissions \ {s} : inquiry'[t] = inquiry[t]
  BY <1>1, <1>2, <1>4
<1>13. TypeOK'
  BY <1>1, <1>6, <1>12 DEF IInv, TypeOK, Inquiry
<1>14. RunsOK' /\ ReplayOK'
  <2>1. \A w \in Workers : RunOK(worker[w])
    BY Here
  <2>2. \A w \in Workers : RunOK(worker[w])'
    BY <1>1, <1>8, <2>1 DEF RunOK
  <2> QED
    BY <1>1, <1>8, <2>2 DEF IInv, RunsOK, ReplayOK
<1>15. AttemptsOK'
  <2> SUFFICES ASSUME NEW i \in DOMAIN rows'
               PROVE  sent'[i] + Cardinality(Sending(i)') <= rows'[i].attempts
    BY DEF AttemptsOK
  <2>1. Sending(i)' = Sending(i)
    BY <1>1 DEF Sending, Current
  <2>2. CASE i \in DOMAIN rows
    <3>1. sent[i] + Cardinality(Sending(i)) <= rows[i].attempts
      BY <2>2 DEF IInv, AttemptsOK
    <3> QED
      BY <1>8, <2>1, <2>2, <3>1
  <2>3. CASE i \notin DOMAIN rows
    <3>1. Sending(i) = {}
      <4> SUFFICES ASSUME NEW w \in Workers, worker[w].pc = "deliver", Current(w) = i PROVE FALSE
        BY DEF Sending
      <4> QED
        BY <2>3, CurrentRow
    <3>2. Cardinality(Sending(i)') = 0
      BY <2>1, <3>1, FS_EmptySet
    <3>3. sent'[i] = 0 /\ rows'[i].attempts = 0
      BY <1>9, <2>3
    <3> QED
      BY <3>2, <3>3
  <2> QED
    BY <2>2, <2>3
<1>16. \A t \in Submissions : InquiryOK(t)'
  <2>1. InquiryOK(s)'
    BY <1>3, <1>4, <1>11, <1>12 DEF InquiryOK
  <2>2. ASSUME NEW t \in Submissions \ {s} PROVE InquiryOK(t)'
    <3>1. {rows'[i].target : i \in RowsOf(t)'} = {rows[i].target : i \in RowsOf(t)}
      BY <1>8, <1>10 DEF RowsOf
    <3>2. InquiryOK(t)
      BY Here
    <3> QED
      BY <1>10, <1>12, <3>1, <3>2 DEF InquiryOK
  <2> QED
    BY <2>1, <2>2
<1>17. InquiriesAreRouted'
  <2> SUFFICES ASSUME NEW t \in Submissions, faults = 0, inquiry'[t].pc = "queued"
               PROVE  IF inquiry'[t].targets = {} THEN alerts.routing # "none"
                      ELSE inquiry'[t].targets = {rows'[i].target : i \in RowsOf(t)'}
    BY <1>1 DEF InquiriesAreRouted
  <2>1. t # s
    BY <1>4, <1>12
  <2>2. {rows'[i].target : i \in RowsOf(t)'} = {rows[i].target : i \in RowsOf(t)}
    BY <1>8, <1>10, <2>1 DEF RowsOf
  <2> QED
    BY <1>12, <2>1, <2>2 DEF IInv, InquiriesOK, InquiriesAreRouted
<1> QED
  BY <1>13, <1>14, <1>15, <1>16, <1>17 DEF IInv, InquiriesOK

-----------------------------------------------------------------------------
LEMMA RunStepInv == ASSUME IInv, NEW w \in Workers, RunStep(w) PROVE IInv'
BY ReadDueInv, LockInv, SendInv, LocalRunInv, RecordInv DEF RunStep

\* The invariant is inductive.
LEMMA NextIInv == IInv /\ [Next]_vars => IInv'
<1> SUFFICES ASSUME IInv, [Next]_vars PROVE IInv'
  OBVIOUS
<1>1. ASSUME NEW s \in Submissions,
             \/ \E targets \in SUBSET Targets : ResolveTargets(s, targets)
             \/ OpenRoutingAlert(s) \/ ResolveRoutingAlert(s) \/ QueueFails(s)
      PROVE  IInv'
  BY <1>1, RoutingInv
<1>2. ASSUME NEW s \in Submissions, CreateDeliveries(s) PROVE IInv'
  BY <1>2, CreateInv
<1>3. ASSUME NEW s \in Submissions, NEW w \in Workers, KickQueued(s, w) PROVE IInv'
  BY <1>3, KickInv
<1>4. ASSUME NEW w \in Workers, Poll(w) \/ KickReplayed(w) PROVE IInv'
  BY <1>4, StartInv
<1>5. ASSUME NEW w \in Workers, RunStep(w) PROVE IInv'
  BY <1>5, RunStepInv
<1>6. ASSUME NEW w \in Workers, RunFails(w) PROVE IInv'
  BY <1>6, LocalRunInv
<1>7. CASE (\E i \in DOMAIN rows : Elapse(i) \/ ReplayRead(i)) \/ ReplayUpdate
  BY <1>7, OutsideInv
<1>8. CASE UNCHANGED vars
  <2>1. TypeOK' /\ RunsOK' /\ ReplayOK'
    BY <1>8 DEF vars, IInv, TypeOK, RunsOK, RunOK, ReplayOK
  <2>2. AttemptsOK'
    BY <1>8 DEF vars, IInv, AttemptsOK, Sending, Current
  <2>3. InquiriesOK'
    BY <1>8 DEF vars, IInv, InquiriesOK, InquiryOK, InquiriesAreRouted, RowsOf
  <2> QED
    BY <2>1, <2>2, <2>3 DEF IInv
<1> QED
  BY <1>1, <1>2, <1>3, <1>4, <1>5, <1>6, <1>7, <1>8 DEF Next

LEMMA Invariance == Spec => []IInv
BY InitIInv, NextIInv, PTL DEF Spec

\* Every variable keeps its type: the rows, the inquiries, the runs of all
\* processes and the alerts of SubmissionOperationsService.
THEOREM TypeCorrect == Spec => []TypeOK
<1>1. IInv => TypeOK
  BY DEF IInv
<1> QED
  BY <1>1, Invariance, PTL

\* The attempts of a row, counted by the lock of processDueDeliveries, bound
\* what its recipient was sent, for any number of processes and crashes.
THEOREM AttemptsCovered == Spec => []AttemptsCoverSends
<1>1. IInv => AttemptsCoverSends
  <2> SUFFICES ASSUME IInv, NEW i \in DOMAIN rows PROVE sent[i] <= rows[i].attempts
    BY DEF AttemptsCoverSends
  <2>1. Cardinality(Sending(i)) \in Nat
    BY SendingFinite DEF Sending
  <2>2. sent[i] \in Nat /\ rows[i].attempts \in Nat
    BY Here DEF DeliveryRow
  <2> QED
    BY <2>1, <2>2 DEF IInv, AttemptsOK
<1> QED
  BY <1>1, Invariance, PTL

\* Without faults, queueSubmissionDelivery ends with a row for each target
\* of the site's routing, or with the routing alert.
THEOREM InquiriesRouted == Spec => []InquiriesAreRouted
<1>1. IInv => InquiriesAreRouted
  BY DEF IInv, InquiriesOK
<1> QED
  BY <1>1, Invariance, PTL

-----------------------------------------------------------------------------
(* What the steps of a run write, and what time and the operator write.    *)

\* A run begins with nothing, or is already on.
LEMMA RunBegins ==
  ASSUME IInv, NEW w \in Workers,
         Poll(w) \/ KickReplayed(w) \/ \E s \in Submissions : KickQueued(s, w)
  PROVE  /\ UNCHANGED <<rows, sent, alerts, replays, faults>>
         /\ \/ worker' = worker
            \/ /\ worker[w].pc = "idle"
               /\ worker'[w].pc = "read" /\ worker'[w].due = <<>>
<1>1. UNCHANGED <<rows, sent, alerts, replays, faults>>
  BY DEF Poll, KickReplayed, KickQueued, table, history
<1>2. PICK scope : StartRun(w, scope)
  BY DEF Poll, KickReplayed, KickQueued
<1> DEFINE fresh == [Stopped EXCEPT !.pc = "read", !.scope = scope]
<1>3. fresh.pc = "read" /\ fresh.due = <<>>
  BY DEF Stopped
<1>4. worker' = worker \/ (worker[w].pc = "idle" /\ worker' = [worker EXCEPT ![w] = fresh])
  BY <1>2 DEF StartRun
<1> HIDE DEF fresh
<1>5. worker \in [Workers -> Run]
  BY Here
<1> QED
  BY <1>1, <1>3, <1>4, <1>5

\* The batch is in the order of the table: no row is in it twice.
LEMMA BatchRead ==
  ASSUME IInv, NEW w \in Workers, ReadDue(w)
  PROVE  /\ worker[w].pc = "read"
         /\ UNCHANGED <<rows, sent, alerts, replays, faults>>
         /\ \/ worker'[w] = Stopped
            \/ /\ worker'[w].pc = "lock"
               /\ \A m, n \in DOMAIN worker'[w].due :
                    m < n => worker'[w].due[m] # worker'[w].due[n]
               /\ \A n \in DOMAIN worker'[w].due : IsDue(worker'[w].due[n])
<1>1. PICK batch \in Batches(worker[w].scope) :
        worker' = [worker EXCEPT ![w] =
          IF batch = <<>> THEN Stopped ELSE [@ EXCEPT !.pc = "lock", !.due = batch]]
  BY DEF ReadDue
<1>2. worker[w].pc = "read" /\ UNCHANGED <<rows, sent, alerts, replays, faults>>
  BY DEF ReadDue, table, history
<1>3. worker \in [Workers -> Run] /\ worker[w] \in Run
  BY Here
<1> DEFINE due == {i \in DOMAIN rows : IsDue(i) /\ rows[i].submission \in worker[w].scope}
           n == IF Cardinality(due) < BatchSize THEN Cardinality(due) ELSE BatchSize
<1>4. DOMAIN rows \subseteq Nat
  BY Here
<1>5. batch \in [1..n -> due] /\ \A i, j \in 1..n : i < j => batch[i] < batch[j]
  BY <1>1 DEF Batches
<1>6. \A i \in due : i \in Nat /\ IsDue(i)
  BY <1>4
<1> HIDE DEF n, due
<1>7. /\ \A i, j \in DOMAIN batch : i < j => batch[i] # batch[j]
      /\ \A i \in DOMAIN batch : IsDue(batch[i])
  BY <1>5, <1>6
<1>8. CASE batch = <<>>
  BY <1>1, <1>2, <1>3, <1>8
<1>9. CASE batch # <<>>
  <2> DEFINE q == [worker[w] EXCEPT !.pc = "lock", !.due = batch]
  <2>1. q.pc = "lock" /\ q.due = batch
    BY <1>3 DEF Run
  <2>2. worker' = [worker EXCEPT ![w] = q]
    BY <1>1, <1>9
  <2> HIDE DEF q
  <2>3. worker'[w] = q
    BY <1>3, <2>2
  <2> QED
    BY <1>2, <1>7, <2>1, <2>3
<1> QED
  BY <1>8, <1>9

\* The lock counts an attempt of its row and leaves the others alone.
LEMMA RowLocked ==
  ASSUME IInv, NEW w \in Workers, Lock(w)
  PROVE  /\ worker[w].pc = "lock" /\ UNCHANGED <<sent, alerts, replays, faults>>
         /\ DOMAIN rows' = DOMAIN rows
         /\ \A i \in DOMAIN rows \ {Current(w)} : rows'[i] = rows[i]
         /\ rows'[Current(w)].attempts = rows[Current(w)].attempts + 1
         /\ rows'[Current(w)].status = "PROCESSING"
         /\ worker'[w].pc = "deliver" /\ worker'[w].due = worker[w].due
         /\ worker'[w].attempt = rows[Current(w)].attempts + 1
<1> DEFINE c == Current(w)
           n == rows[c].attempts + 1
           row == [rows[c] EXCEPT !.status = "PROCESSING", !.attempts = n, !.ripe = FALSE]
           q == [worker[w] EXCEPT !.pc = "deliver", !.attempt = n]
<1>1. /\ worker[w].pc = "lock" /\ rows' = [rows EXCEPT ![c] = row]
      /\ worker' = [worker EXCEPT ![w] = q] /\ UNCHANGED <<sent, alerts, replays, faults>>
  BY DEF Lock
<1>2. c \in DOMAIN rows /\ rows[c] \in DeliveryRow /\ rows \in Seq(DeliveryRow)
  BY <1>1, CurrentRow, Here
<1>3. worker \in [Workers -> Run] /\ worker[w] \in Run
  BY Here
<1>4. row.attempts = n /\ row.status = "PROCESSING"
  <2> HIDE DEF n, c
  <2> QED
    BY <1>2 DEF DeliveryRow
<1>5. q.pc = "deliver" /\ q.due = worker[w].due /\ q.attempt = n
  <2> HIDE DEF n
  <2> QED
    BY <1>3 DEF Run
<1> HIDE DEF row, q
<1>6. /\ DOMAIN rows' = DOMAIN rows /\ rows'[c] = row
      /\ \A i \in DOMAIN rows \ {c} : rows'[i] = rows[i]
  BY <1>1, <1>2
<1>7. worker'[w] = q
  BY <1>1, <1>3
<1> QED
  BY <1>1, <1>4, <1>5, <1>6, <1>7

\* A send, or the statement behind it, ends: the run keeps its row.
LEMMA SendEnds ==
  ASSUME IInv, NEW w \in Workers,
         \/ DeliverAccepted(w) \/ DeliverRefused(w, TRUE) \/ DeliverRefused(w, FALSE)
         \/ DeliverUnanswered(w) \/ RecordDeliveredFails(w)
  PROVE  /\ UNCHANGED <<rows, alerts, replays>>
         /\ worker'[w].due = worker[w].due /\ worker'[w].attempt = worker[w].attempt
         /\ \/ /\ worker[w].pc = "deliver" /\ worker'[w].pc \in {"delivered", "failed"}
               /\ sent' = [sent EXCEPT ![Current(w)] = sent[Current(w)] + 1]
               /\ faults' = IF worker'[w].pc = "delivered" THEN faults ELSE faults + 1
            \/ /\ worker[w].pc = "deliver" /\ worker'[w].pc = "failed"
               /\ sent' = sent /\ faults' = faults
            \/ /\ worker[w].pc = "delivered" /\ worker'[w].pc = "failed"
               /\ sent' = sent /\ faults' = faults + 1
<1>1. worker \in [Workers -> Run] /\ worker[w] \in Run
  BY Here
<1>2. CASE DeliverAccepted(w)
  <2> DEFINE q == [worker[w] EXCEPT !.pc = "delivered"]
  <2>1. q.pc = "delivered" /\ q.due = worker[w].due /\ q.attempt = worker[w].attempt
    BY <1>1 DEF Run
  <2>2. worker' = [worker EXCEPT ![w] = q]
    BY <1>2 DEF DeliverAccepted, Goto
  <2> HIDE DEF q
  <2>3. worker'[w] = q
    BY <1>1, <2>2
  <2> QED
    BY <1>2, <2>1, <2>3 DEF DeliverAccepted, table
<1>3. ASSUME NEW retryable \in BOOLEAN, Failing(w, retryable)
      PROVE  /\ worker'[w].pc = "failed" /\ worker'[w].due = worker[w].due
             /\ worker'[w].attempt = worker[w].attempt
  <2> DEFINE q == [worker[w] EXCEPT !.pc = "failed", !.retryable = retryable]
  <2>1. q.pc = "failed" /\ q.due = worker[w].due /\ q.attempt = worker[w].attempt
    BY <1>1 DEF Run
  <2>2. worker' = [worker EXCEPT ![w] = q]
    BY <1>3 DEF Failing
  <2> HIDE DEF q
  <2> QED
    BY <1>1, <2>1, <2>2
<1> QED
  BY <1>2, <1>3 DEF DeliverRefused, DeliverUnanswered, RecordDeliveredFails, Fault, table, history

\* The outcome is written to the row and the run drops it.
LEMMA OutcomeRecorded ==
  ASSUME IInv, NEW w \in Workers, RecordDelivered(w) \/ RecordFailure(w)
  PROVE  /\ worker[w].pc \in {"delivered", "failed"}
         /\ UNCHANGED <<sent, alerts, replays, faults>>
         /\ DOMAIN rows' = DOMAIN rows
         /\ \A i \in DOMAIN rows \ {Current(w)} : rows'[i] = rows[i]
         /\ rows'[Current(w)].attempts = rows[Current(w)].attempts
         /\ rows'[Current(w)].status \in {"DELIVERED", "FAILED", "PENDING"}
         /\ rows'[Current(w)].status = "PENDING" =>
              worker[w].pc = "failed" /\ worker[w].attempt < MaxAttempts
         /\ worker'[w].pc \in {"lock", "refresh"} /\ worker'[w].due = Tail(worker[w].due)
<1> DEFINE c == Current(w)
           rest == Tail(worker[w].due)
           label == IF rest = <<>> THEN "refresh" ELSE "lock"
           q == [worker[w] EXCEPT !.due = rest, !.pc = label]
<1>1. /\ worker[w].pc \in {"delivered", "failed"} /\ worker' = [worker EXCEPT ![w] = q]
      /\ UNCHANGED <<sent, alerts, replays, faults>>
  BY DEF RecordDelivered, RecordFailure, NextDelivery, history
<1>2. worker \in [Workers -> Run] /\ worker[w] \in Run /\ worker[w].attempt \in Nat
  BY Here DEF Run
<1>3. PICK status \in {"DELIVERED", "FAILED", "PENDING"} :
        /\ rows' = [rows EXCEPT ![c] = [rows[c] EXCEPT !.status = status, !.ripe = FALSE]]
        /\ status = "PENDING" => worker[w].pc = "failed" /\ worker[w].attempt < MaxAttempts
  <2>1. CASE RecordDelivered(w)
    BY <2>1 DEF RecordDelivered
  <2>2. CASE RecordFailure(w)
    <3>1. CASE ~worker[w].retryable \/ worker[w].attempt >= MaxAttempts
      BY <2>2, <3>1 DEF RecordFailure
    <3>2. CASE ~(~worker[w].retryable \/ worker[w].attempt >= MaxAttempts)
      <4>1. worker[w].attempt < MaxAttempts
        BY <1>2, <3>2, SettingsAssumption
      <4> QED
        BY <2>2, <3>2, <4>1 DEF RecordFailure
    <3> QED
      BY <3>1, <3>2
  <2> QED
    BY <2>1, <2>2
<1> DEFINE row == [rows[c] EXCEPT !.status = status, !.ripe = FALSE]
<1>4. c \in DOMAIN rows /\ rows[c] \in DeliveryRow /\ rows \in Seq(DeliveryRow)
  BY <1>1, CurrentRow, Here
<1>5. row.attempts = rows[c].attempts /\ row.status = status
  <2> HIDE DEF c
  <2> QED
    BY <1>4 DEF DeliveryRow
<1>6. q.pc \in {"lock", "refresh"} /\ q.due = rest
  <2> HIDE DEF rest
  <2> QED
    BY <1>2 DEF Run
<1> HIDE DEF row, q
<1>7. /\ DOMAIN rows' = DOMAIN rows /\ rows'[c] = row
      /\ \A i \in DOMAIN rows \ {c} : rows'[i] = rows[i]
  BY <1>3, <1>4 DEF row
<1>8. worker'[w] = q
  BY <1>1, <1>2
<1> QED
  BY <1>1, <1>3, <1>5, <1>6, <1>7, <1>8

\* The alert follows what the run has read, and a run that fails just stops.
LEMMA RunEnds ==
  ASSUME IInv, NEW w \in Workers, RefreshRead(w) \/ RefreshWrite(w) \/ RunFails(w)
  PROVE  /\ UNCHANGED <<rows, sent, replays>>
         /\ \/ /\ worker[w].pc = "refresh" /\ UNCHANGED <<alerts, faults>>
               /\ worker'[w].pc = "alert" /\ worker'[w].due = worker[w].due
               /\ worker'[w].sawFailed = HasFailed
            \/ /\ worker[w].pc = "alert" /\ worker'[w] = Stopped /\ faults' = faults
               /\ alerts'.failure = "open" <=> worker[w].sawFailed
            \/ worker'[w] = Stopped /\ alerts' = alerts /\ faults' = faults + 1
<1>1. worker \in [Workers -> Run] /\ worker[w] \in Run
  BY Here
<1>2. CASE RefreshRead(w)
  <2> DEFINE q == [worker[w] EXCEPT !.pc = "alert", !.sawFailed = HasFailed]
  <2>1. q.pc = "alert" /\ q.due = worker[w].due /\ q.sawFailed = HasFailed
    BY <1>1 DEF Run
  <2>2. worker' = [worker EXCEPT ![w] = q]
    BY <1>2 DEF RefreshRead
  <2> HIDE DEF q
  <2>3. worker'[w] = q
    BY <1>1, <2>2
  <2> QED
    BY <1>2, <2>1, <2>3 DEF RefreshRead, table
<1>3. CASE RefreshWrite(w)
  <2>1. worker'[w] = Stopped
    BY <1>1, <1>3 DEF RefreshWrite
  <2>2. alerts'.failure = IF worker[w].sawFailed THEN "open" ELSE Resolved(alerts.failure)
    BY <1>3 DEF RefreshWrite, IInv, TypeOK
  <2>3. alerts'.failure = "open" <=> worker[w].sawFailed
    BY <2>2 DEF Resolved
  <2> QED
    BY <1>3, <2>1, <2>3 DEF RefreshWrite, history
<1>4. CASE RunFails(w)
  BY <1>1, <1>4 DEF RunFails, Fault, table
<1> QED
  BY <1>2, <1>3, <1>4

\* Time makes a row ripe, the operator makes one PENDING and is counted.
LEMMA RowTouched ==
  ASSUME IInv,
         \/ \E i \in DOMAIN rows : Elapse(i) \/ ReplayRead(i)
         \/ ReplayUpdate
  PROVE  /\ UNCHANGED <<worker, alerts, sent, faults>>
         /\ DOMAIN rows' = DOMAIN rows
         /\ \A i \in DOMAIN rows :
              /\ rows'[i].attempts = rows[i].attempts
              /\ Settled(i) /\ replays' = replays => rows'[i] = rows[i]
         /\ \/ /\ replays' = replays
               /\ \A i \in DOMAIN rows : rows'[i].status = rows[i].status
            \/ /\ replays' = replays + 1
               /\ \A i \in DOMAIN rows : rows'[i].status \in {rows[i].status, "PENDING"}
<1>1. rows \in Seq(DeliveryRow) /\ \A i \in DOMAIN rows : rows[i] \in DeliveryRow
  BY Here
<1>2. CASE \E i \in DOMAIN rows : Elapse(i)
  <2>1. PICK i \in DOMAIN rows : Elapse(i)
    BY <1>2
  <2> DEFINE row == [rows[i] EXCEPT !.ripe = TRUE]
  <2>2. row.attempts = rows[i].attempts /\ row.status = rows[i].status
    BY <1>1 DEF DeliveryRow
  <2>3. /\ rows' = [rows EXCEPT ![i] = row] /\ ~Settled(i)
        /\ UNCHANGED <<worker, alerts, sent, replays, faults>>
    BY <2>1 DEF Elapse, Settled, history
  <2> HIDE DEF row
  <2>4. DOMAIN rows' = DOMAIN rows
        /\ \A j \in DOMAIN rows : rows'[j] = IF j = i THEN row ELSE rows[j]
    BY <1>1, <2>3
  <2> QED
    BY <2>2, <2>3, <2>4
<1>3. CASE \E i \in DOMAIN rows : ReplayRead(i)
  BY <1>3 DEF ReplayRead, table, history
<1>4. CASE ReplayUpdate
  <2> DEFINE i == replay.row
             row == [rows[i] EXCEPT !.status = "PENDING", !.ripe = TRUE]
  <2>1. i \in DOMAIN rows
    BY <1>4 DEF ReplayUpdate, IInv, ReplayOK
  <2>2. replays' # replays
    BY <1>4 DEF ReplayUpdate, IInv, TypeOK
  <2>3. rows' = [rows EXCEPT ![i] = row] /\ replays' = replays + 1
        /\ UNCHANGED <<worker, alerts, sent, faults>>
    BY <1>4 DEF ReplayUpdate
  <2> HIDE DEF i
  <2>4. row.attempts = rows[i].attempts /\ row.status = "PENDING"
    BY <1>1, <2>1 DEF DeliveryRow
  <2> HIDE DEF row
  <2>5. DOMAIN rows' = DOMAIN rows
        /\ \A j \in DOMAIN rows : rows'[j] = IF j = i THEN row ELSE rows[j]
    BY <1>1, <2>3
  <2> QED
    BY <2>2, <2>3, <2>4, <2>5
<1> QED
  BY <1>2, <1>3, <1>4

\* Who acts: a handler of an inquiry, a process, time or the operator.
LEMMA StepsOf ==
  ASSUME NEW w, Workers = {w}, [Next]_vars
  PROVE  \/ \E s \in Submissions :
              \/ \E targets \in SUBSET Targets : ResolveTargets(s, targets)
              \/ OpenRoutingAlert(s) \/ ResolveRoutingAlert(s) \/ QueueFails(s)
         \/ \E s \in Submissions : CreateDeliveries(s)
         \/ Poll(w) \/ KickReplayed(w) \/ \E s \in Submissions : KickQueued(s, w)
         \/ ReadDue(w)
         \/ Lock(w)
         \/ DeliverAccepted(w) \/ DeliverRefused(w, TRUE) \/ DeliverRefused(w, FALSE)
         \/ DeliverUnanswered(w) \/ RecordDeliveredFails(w)
         \/ RecordDelivered(w) \/ RecordFailure(w)
         \/ RefreshRead(w) \/ RefreshWrite(w) \/ RunFails(w)
         \/ (\E i \in DOMAIN rows : Elapse(i) \/ ReplayRead(i)) \/ ReplayUpdate
         \/ UNCHANGED vars
BY DEF Next, RunStep

\* An inquiry whose rows are not created touches neither rows nor runs.
LEMMA InquiryOnly ==
  ASSUME IInv, NEW s \in Submissions,
         \/ \E targets \in SUBSET Targets : ResolveTargets(s, targets)
         \/ OpenRoutingAlert(s) \/ ResolveRoutingAlert(s) \/ QueueFails(s)
  PROVE  /\ UNCHANGED <<rows, worker, sent, replays>> /\ alerts'.failure = alerts.failure
         /\ faults' = faults \/ faults' = faults + 1
<1>1. alerts \in [failure : {"none", "open", "resolved"}, routing : {"none", "open", "resolved"}]
  BY DEF IInv, TypeOK
<1> QED
  BY <1>1 DEF ResolveTargets, OpenRoutingAlert, ResolveRoutingAlert, QueueFails, Fault, history

-----------------------------------------------------------------------------
(* The alert of a site with one process.                                   *)

Undelivered == \E i \in DOMAIN rows : rows[i].status # "DELIVERED"

\* Between two runs the alert is right; a run that is about to write it has
\* read what is still so when it writes: rows fail by its own steps only.
AlertOK ==
  faults = 0 => \A w \in Workers :
    /\ worker[w].pc \in {"idle", "read"} =>
         /\ HasFailed => alerts.failure = "open"
         /\ alerts.failure = "open" => Undelivered
    /\ worker[w].pc = "alert" =>
         /\ HasFailed => worker[w].sawFailed
         /\ worker[w].sawFailed => Undelivered

\* What any step may do outside the two statements that refresh the alert.
LEMMA AlertKept ==
  ASSUME AlertOK, NEW w, Workers = {w}, faults' = 0 => faults = 0,
         HasFailed' => HasFailed, Undelivered => Undelivered',
         alerts'.failure = alerts.failure,
         worker'[w].pc \in {"idle", "read"} => worker[w].pc \in {"idle", "read"},
         worker'[w].pc = "alert" =>
           worker[w].pc = "alert" /\ worker'[w].sawFailed = worker[w].sawFailed
  PROVE  AlertOK'
BY DEF AlertOK

LEMMA AlertNext ==
  ASSUME IInv, AlertOK, NEW w, Workers = {w}, [Next]_vars PROVE AlertOK'
<1>1. faults \in Nat /\ w \in Workers
  BY DEF IInv, TypeOK
<1>2. ASSUME NEW s \in Submissions,
             \/ \E targets \in SUBSET Targets : ResolveTargets(s, targets)
             \/ OpenRoutingAlert(s) \/ ResolveRoutingAlert(s) \/ QueueFails(s)
      PROVE  AlertOK'
  <2>1. UNCHANGED <<rows, worker>> /\ alerts'.failure = alerts.failure
        /\ (faults' = 0 => faults = 0)
    BY <1>1, <1>2, InquiryOnly
  <2> QED
    BY <2>1, AlertKept DEF HasFailed, Undelivered
<1>3. ASSUME NEW s \in Submissions, CreateDeliveries(s) PROVE AlertOK'
  <2>1. UNCHANGED <<worker, alerts, faults>>
    BY <1>3 DEF CreateDeliveries
  <2>2. /\ \A i \in DOMAIN rows : i \in DOMAIN rows' /\ rows'[i] = rows[i]
        /\ \A i \in DOMAIN rows' \ DOMAIN rows : rows'[i].status = "PENDING"
    BY <1>3, NewRows
  <2>3. (HasFailed' => HasFailed) /\ (Undelivered => Undelivered')
    BY <2>2 DEF HasFailed, Undelivered
  <2> QED
    BY <2>1, <2>3, AlertKept
<1>4. CASE Poll(w) \/ KickReplayed(w) \/ \E s \in Submissions : KickQueued(s, w)
  <2>1. UNCHANGED <<rows, alerts, faults>>
        /\ (worker' = worker \/ (worker[w].pc = "idle" /\ worker'[w].pc = "read"))
    BY <1>1, <1>4, RunBegins
  <2> QED
    BY <2>1, AlertKept DEF HasFailed, Undelivered
<1>5. CASE ReadDue(w)
  <2>1. UNCHANGED <<rows, alerts, faults>> /\ worker[w].pc = "read"
        /\ (worker'[w] = Stopped \/ worker'[w].pc = "lock")
    BY <1>1, <1>5, BatchRead
  <2>2. worker'[w].pc # "alert"
    BY <2>1, StoppedOK
  <2> QED
    BY <2>1, <2>2, AlertKept DEF HasFailed, Undelivered
<1>6. CASE \/ Lock(w)
           \/ DeliverAccepted(w) \/ DeliverRefused(w, TRUE) \/ DeliverRefused(w, FALSE)
           \/ DeliverUnanswered(w) \/ RecordDeliveredFails(w)
           \/ RecordDelivered(w) \/ RecordFailure(w)
  <2>1. worker'[w].pc \in {"lock", "deliver", "delivered", "failed", "refresh"}
    BY <1>1, <1>6, RowLocked, SendEnds, OutcomeRecorded
  <2> QED
    BY <2>1 DEF AlertOK
<1>7. CASE RefreshRead(w) \/ RefreshWrite(w) \/ RunFails(w)
  <2>1. UNCHANGED rows
        /\ \/ worker'[w].pc = "alert" /\ worker'[w].sawFailed = HasFailed
           \/ /\ worker[w].pc = "alert" /\ worker'[w] = Stopped /\ faults' = faults
              /\ alerts'.failure = "open" <=> worker[w].sawFailed
           \/ faults' = faults + 1
    BY <1>1, <1>7, RunEnds
  <2>2. HasFailed' = HasFailed /\ Undelivered' = Undelivered /\ (HasFailed => Undelivered)
    BY <2>1 DEF HasFailed, Undelivered
  <2>3. CASE worker'[w].pc = "alert" /\ worker'[w].sawFailed = HasFailed
    BY <2>2, <2>3 DEF AlertOK
  <2>4. CASE /\ worker[w].pc = "alert" /\ worker'[w] = Stopped /\ faults' = faults
             /\ alerts'.failure = "open" <=> worker[w].sawFailed
    BY <1>1, <2>2, <2>4, StoppedOK DEF AlertOK
  <2>5. CASE faults' = faults + 1
    BY <1>1, <2>5 DEF AlertOK
  <2> QED
    BY <2>1, <2>3, <2>4, <2>5
<1>8. CASE (\E i \in DOMAIN rows : Elapse(i) \/ ReplayRead(i)) \/ ReplayUpdate
  <2>1. /\ UNCHANGED <<worker, alerts, faults>> /\ DOMAIN rows' = DOMAIN rows
        /\ \A i \in DOMAIN rows : rows'[i].status \in {rows[i].status, "PENDING"}
    BY <1>8, RowTouched
  <2>2. (HasFailed' => HasFailed) /\ (Undelivered => Undelivered')
    BY <2>1 DEF HasFailed, Undelivered
  <2> QED
    BY <2>1, <2>2, AlertKept
<1>9. CASE UNCHANGED vars
  BY <1>9, AlertKept DEF vars, HasFailed, Undelivered
<1> QED
  BY <1>2, <1>3, <1>4, <1>5, <1>6, <1>7, <1>8, <1>9, StepsOf

\* One process, as in the property's statement.
OneProcess == \E w : Workers = {w}

\* With one process and no fault, refreshDeliveryFailureAlert leaves the
\* alert open when a row FAILED and never when all are delivered, whatever
\* the operator replays between its query and its write.
THEOREM AlertTellsTruth == ASSUME OneProcess PROVE Spec => []AlertTellsFailures
<1>1. Init => AlertOK
  BY StoppedOK DEF Init, AlertOK, HasFailed, Undelivered
<1>2. IInv /\ AlertOK /\ [Next]_vars => AlertOK'
  BY AlertNext DEF OneProcess
<1>3. AlertOK => AlertTellsFailures
  <2>1. PICK w : Workers = {w}
    BY DEF OneProcess
  <2> QED
    BY <2>1 DEF AlertOK, AlertTellsFailures, Undelivered
<1> QED
  BY <1>1, <1>2, <1>3, Invariance, PTL DEF Spec

-----------------------------------------------------------------------------
(* Messages and attempts beyond what retries explain.                      *)

Excess == replays + faults

Open(i) == rows[i].status \in {"PENDING", "PROCESSING"}

\* The row a process has locked and not recorded.
Engaged(w) == worker[w].pc \in {"deliver", "delivered", "failed"}
Holds(w, i) == Engaged(w) /\ Current(w) = i

\* The row may be tried once more.
Spare(i) == sent[i] <= Excess /\ rows[i].attempts < MaxAttempts + Excess

Spent(i) == sent[i] <= Excess + 1 /\ rows[i].attempts <= MaxAttempts + Excess

\* What is left of a batch are different rows, none of them settled.
BatchOpen(w) ==
  /\ \A m, n \in DOMAIN worker[w].due : m < n => worker[w].due[m] # worker[w].due[n]
  /\ \A n \in DOMAIN worker[w].due : Open(worker[w].due[n])

\* The run knows the attempt its row has on record, and has not sent it yet
\* or has been told that it failed.
AttemptKnown(w) ==
  /\ Engaged(w) => worker[w].attempt = rows[Current(w)].attempts
  /\ worker[w].pc \in {"deliver", "failed"} => sent[Current(w)] <= Excess

\* Every row that is still to be sent and that no run holds can be tried
\* again within the bounds.
ExcessOK ==
  /\ \A i \in DOMAIN rows : Spent(i)
  /\ \A w \in Workers :
       /\ \A i \in DOMAIN rows : Open(i) /\ ~Holds(w, i) => Spare(i)
       /\ BatchOpen(w) /\ AttemptKnown(w)

\* The counts of the table are numbers.
LEMMA Numbers ==
  ASSUME IInv
  PROVE  /\ replays \in Nat /\ faults \in Nat /\ Excess \in Nat /\ MaxAttempts \in Nat \ {0}
         /\ \A i \in DOMAIN rows : sent[i] \in Nat /\ rows[i].attempts \in Nat
<1>1. \A i \in DOMAIN rows : rows[i] \in DeliveryRow /\ sent[i] \in Nat
  BY Here
<1> QED
  BY <1>1, SettingsAssumption DEF IInv, TypeOK, Excess, DeliveryRow

\* The row a run is at is the first of its batch.
LEMMA FirstOfBatch ==
  ASSUME IInv, NEW w \in Workers,
         worker[w].pc \in {"lock", "deliver", "delivered", "failed"}
  PROVE  /\ Current(w) \in DOMAIN rows /\ Current(w) = worker[w].due[1]
         /\ 1 \in DOMAIN worker[w].due /\ DOMAIN worker[w].due \subseteq Nat
<1>1. worker[w].due \in Seq(Nat \ {0}) /\ worker[w].due # <<>> /\ Current(w) \in DOMAIN rows
  BY CurrentRow
<1> QED
  BY <1>1 DEF Current

\* A step that leaves the table and the run of the process alone.
LEMMA ExcessQuiet ==
  ASSUME IInv, ExcessOK, NEW w, Workers = {w}, UNCHANGED <<rows, sent, worker>>,
         Excess' \in Nat, Excess' >= Excess
  PROVE  ExcessOK'
<1>1. Excess \in Nat /\ MaxAttempts \in Nat
      /\ \A i \in DOMAIN rows : sent[i] \in Nat /\ rows[i].attempts \in Nat
  BY Numbers
<1>2. \A i \in DOMAIN rows : Spent(i)' /\ (Spare(i) => Spare(i)')
  BY <1>1 DEF ExcessOK, Spent, Spare
<1>3. \A i \in DOMAIN rows : Open(i)' = Open(i) /\ Holds(w, i)' = Holds(w, i)
  BY DEF Open, Holds, Engaged, Current
<1>4. BatchOpen(w)'
  BY DEF ExcessOK, BatchOpen, Engaged, Open
<1>5. AttemptKnown(w)'
  <2>1. worker[w].pc \in {"deliver", "failed"} => Current(w) \in DOMAIN rows
    BY FirstOfBatch
  <2> QED
    BY <1>1, <2>1 DEF ExcessOK, AttemptKnown, Engaged, Current
<1> QED
  BY <1>2, <1>3, <1>4, <1>5 DEF ExcessOK

\* A run that holds no row before and after the step.
LEMMA ExcessFree ==
  ASSUME IInv, ExcessOK, NEW w, Workers = {w}, UNCHANGED <<rows, sent, Excess>>,
         ~Engaged(w), ~Engaged(w)', BatchOpen(w)'
  PROVE  ExcessOK'
<1>1. \A i \in DOMAIN rows :
        /\ Spent(i)' = Spent(i) /\ Spare(i)' = Spare(i) /\ Open(i)' = Open(i)
        /\ ~Holds(w, i)
  BY DEF Spent, Spare, Open, Holds
<1>2. AttemptKnown(w)'
  BY DEF AttemptKnown, Engaged
<1> QED
  BY <1>1, <1>2 DEF ExcessOK

\* New rows were neither tried nor sent.
LEMMA ExcessCreate ==
  ASSUME IInv, ExcessOK, NEW w, Workers = {w}, NEW s \in Submissions, CreateDeliveries(s)
  PROVE  ExcessOK'
<1>1. UNCHANGED <<worker, replays, faults>>
  BY DEF CreateDeliveries
<1>2. /\ \A i \in DOMAIN rows : i \in DOMAIN rows' /\ rows'[i] = rows[i] /\ sent'[i] = sent[i]
      /\ \A i \in DOMAIN rows' \ DOMAIN rows : rows'[i].attempts = 0 /\ sent'[i] = 0
  BY NewRows
<1>3. Excess' = Excess /\ Excess \in Nat /\ MaxAttempts \in Nat \ {0}
  BY <1>1, Numbers DEF Excess
<1>4. \A i \in DOMAIN rows :
        /\ Spent(i)' = Spent(i) /\ Spare(i)' = Spare(i) /\ Open(i)' = Open(i)
        /\ Holds(w, i)' = Holds(w, i)
  BY <1>1, <1>2, <1>3 DEF Spent, Spare, Open, Holds, Engaged, Current
<1>5. \A i \in DOMAIN rows' \ DOMAIN rows : Spent(i)' /\ Spare(i)'
  BY <1>2, <1>3 DEF Spent, Spare
<1>6. BatchOpen(w)'
  <2>1. \A n \in DOMAIN worker[w].due : worker[w].due[n] \in DOMAIN rows
    BY Here DEF RunOK
  <2> QED
    BY <1>1, <1>4, <2>1 DEF ExcessOK, BatchOpen, Engaged
<1>7. AttemptKnown(w)'
  <2>1. Engaged(w) => Current(w) \in DOMAIN rows
    BY FirstOfBatch DEF Engaged
  <2>2. worker[w].pc \in {"deliver", "failed"} => Engaged(w)
    BY DEF Engaged
  <2> QED
    BY <1>1, <1>2, <1>3, <2>1, <2>2 DEF ExcessOK, AttemptKnown, Engaged, Current
<1> QED
  BY <1>4, <1>5, <1>6, <1>7 DEF ExcessOK

\* The lock takes a row that may be tried once more.
LEMMA ExcessLock ==
  ASSUME IInv, ExcessOK, NEW w, Workers = {w}, Lock(w) PROVE ExcessOK'
<1>1. worker[w].pc = "lock"
  BY DEF Lock
<1>2. PICK c \in DOMAIN rows :
        /\ c = Current(w) /\ c = worker[w].due[1]
        /\ 1 \in DOMAIN worker[w].due /\ DOMAIN worker[w].due \subseteq Nat
  BY <1>1, FirstOfBatch
<1>3. /\ UNCHANGED <<sent, replays, faults>>
      /\ DOMAIN rows' = DOMAIN rows
      /\ \A i \in DOMAIN rows \ {c} : rows'[i] = rows[i]
      /\ rows'[c].attempts = rows[c].attempts + 1 /\ rows'[c].status = "PROCESSING"
      /\ worker'[w].pc = "deliver" /\ worker'[w].due = worker[w].due
      /\ worker'[w].attempt = rows[c].attempts + 1
  BY <1>2, RowLocked
<1>4. /\ Excess' = Excess /\ Excess \in Nat /\ MaxAttempts \in Nat
      /\ \A i \in DOMAIN rows : sent[i] \in Nat /\ rows[i].attempts \in Nat
  BY <1>3, Numbers DEF Excess
<1>5. ~Engaged(w) /\ Engaged(w)' /\ Current(w)' = c
  BY <1>1, <1>2, <1>3 DEF Engaged, Current
<1>6. Spare(c)
  <2>1. Open(c)
    BY <1>2, <1>5 DEF ExcessOK, BatchOpen
  <2> QED
    BY <1>2, <1>5, <2>1 DEF ExcessOK, Holds
<1>7. \A i \in DOMAIN rows \ {c} :
        Spent(i)' = Spent(i) /\ Spare(i)' = Spare(i) /\ Open(i)' = Open(i)
  BY <1>3, <1>4 DEF Spent, Spare, Open
<1>8. Spent(c)' /\ sent'[c] <= Excess'
  BY <1>3, <1>2, <1>4, <1>6 DEF Spent, Spare
<1>9. \A i \in DOMAIN rows \ {c} : Open(i)' => Spare(i)'
  BY <1>5, <1>7 DEF ExcessOK, Holds
<1>10. Holds(w, c)'
  BY <1>5 DEF Holds
<1>11. BatchOpen(w)'
  <2>1. \A n \in DOMAIN worker[w].due :
          Open(worker[w].due[n]) /\ worker[w].due[n] \in DOMAIN rows
    BY Here DEF ExcessOK, BatchOpen, RunOK
  <2>2. \A n \in DOMAIN worker[w].due : Open(worker[w].due[n])'
    BY <1>3, <2>1 DEF Open
  <2> QED
    BY <1>3, <2>2 DEF ExcessOK, BatchOpen
<1>12. AttemptKnown(w)'
  BY <1>3, <1>5, <1>8 DEF AttemptKnown
<1> QED
  BY <1>3, <1>7, <1>8, <1>9, <1>10, <1>11, <1>12 DEF ExcessOK

\* A run begins, or reads rows that are still to be sent.
LEMMA ExcessRead ==
  ASSUME IInv, ExcessOK, NEW w, Workers = {w},
         \/ Poll(w) \/ KickReplayed(w) \/ \E s \in Submissions : KickQueued(s, w)
         \/ ReadDue(w)
  PROVE  ExcessOK'
<1>1. CASE Poll(w) \/ KickReplayed(w) \/ \E s \in Submissions : KickQueued(s, w)
  <2>1. /\ UNCHANGED <<rows, sent, replays, faults>>
        /\ \/ worker' = worker
           \/ /\ worker[w].pc = "idle"
              /\ worker'[w].pc = "read" /\ worker'[w].due = <<>>
    BY <1>1, RunBegins
  <2>2. Excess' = Excess /\ Excess \in Nat
    BY <2>1, Numbers DEF Excess
  <2>3. CASE worker' = worker
    BY <2>1, <2>2, <2>3, ExcessQuiet
  <2>4. CASE worker[w].pc = "idle" /\ worker'[w].pc = "read" /\ worker'[w].due = <<>>
    <3>1. ~Engaged(w) /\ ~Engaged(w)' /\ BatchOpen(w)'
      BY <2>4 DEF Engaged, BatchOpen
    <3> QED
      BY <2>1, <2>2, <3>1, ExcessFree
  <2> QED
    BY <2>1, <2>3, <2>4
<1>2. CASE ReadDue(w)
  <2>1. /\ worker[w].pc = "read" /\ UNCHANGED <<rows, sent, replays, faults>>
        /\ \/ worker'[w] = Stopped
           \/ /\ worker'[w].pc = "lock"
              /\ \A m, n \in DOMAIN worker'[w].due :
                   m < n => worker'[w].due[m] # worker'[w].due[n]
              /\ \A n \in DOMAIN worker'[w].due : IsDue(worker'[w].due[n])
    BY <1>2, BatchRead
  <2>2. Excess' = Excess
    BY <2>1 DEF Excess
  <2>3. ~Engaged(w) /\ ~Engaged(w)'
    BY <2>1 DEF Engaged, Stopped
  <2>4. BatchOpen(w)'
    <3>1. CASE worker'[w] = Stopped
      BY <3>1 DEF Stopped, BatchOpen
    <3>2. CASE worker'[w] # Stopped
      BY <2>1, <3>2 DEF BatchOpen, Open, IsDue
    <3> QED
      BY <3>1, <3>2
  <2> QED
    BY <2>1, <2>2, <2>3, <2>4, ExcessFree
<1> QED
  BY <1>1, <1>2

\* A message leaves a row that had no more than its excess; the one that is
\* lost, or sent and not recorded, is paid for by its fault.
LEMMA ExcessSend ==
  ASSUME IInv, ExcessOK, NEW w, Workers = {w},
         \/ DeliverAccepted(w) \/ DeliverRefused(w, TRUE) \/ DeliverRefused(w, FALSE)
         \/ DeliverUnanswered(w) \/ RecordDeliveredFails(w)
  PROVE  ExcessOK'
<1>1. /\ UNCHANGED <<rows, replays>>
      /\ worker'[w].due = worker[w].due /\ worker'[w].attempt = worker[w].attempt
      /\ \/ /\ worker[w].pc = "deliver" /\ worker'[w].pc \in {"delivered", "failed"}
            /\ sent' = [sent EXCEPT ![Current(w)] = sent[Current(w)] + 1]
            /\ faults' = IF worker'[w].pc = "delivered" THEN faults ELSE faults + 1
         \/ /\ worker[w].pc = "deliver" /\ worker'[w].pc = "failed"
            /\ sent' = sent /\ faults' = faults
         \/ /\ worker[w].pc = "delivered" /\ worker'[w].pc = "failed"
            /\ sent' = sent /\ faults' = faults + 1
  BY SendEnds
<1>2. PICK c \in DOMAIN rows : c = Current(w)
  BY <1>1, FirstOfBatch
<1>3. /\ Excess \in Nat /\ MaxAttempts \in Nat
      /\ \A i \in DOMAIN rows : sent[i] \in Nat /\ rows[i].attempts \in Nat
      /\ Excess' \in {Excess, Excess + 1}
  BY <1>1, Numbers DEF Excess
<1>4. Engaged(w) /\ Engaged(w)' /\ Current(w)' = c
  BY <1>1, <1>2 DEF Engaged, Current
<1>5. \A i \in DOMAIN rows : Holds(w, i) = (i = c) /\ Holds(w, i)' = (i = c)
  BY <1>2, <1>4 DEF Holds
<1>6. \A i \in DOMAIN rows \ {c} : sent'[i] = sent[i]
  BY <1>1, <1>2, Here
<1>7. \A i \in DOMAIN rows \ {c} : Spent(i)' /\ (Open(i)' => Spare(i)')
  <2>1. \A i \in DOMAIN rows \ {c} : Spent(i) /\ (Open(i) => Spare(i))
    BY <1>5 DEF ExcessOK
  <2> QED
    BY <1>1, <1>3, <1>6, <2>1 DEF Spent, Spare, Open
<1>8. Spent(c) /\ (worker[w].pc = "deliver" => sent[c] <= Excess)
  BY <1>2 DEF ExcessOK, AttemptKnown
<1>9. Spent(c)' /\ (worker'[w].pc = "failed" => sent'[c] <= Excess')
  <2>1. CASE /\ worker[w].pc = "deliver" /\ worker'[w].pc \in {"delivered", "failed"}
             /\ sent' = [sent EXCEPT ![Current(w)] = sent[Current(w)] + 1]
             /\ faults' = IF worker'[w].pc = "delivered" THEN faults ELSE faults + 1
    <3>1. sent'[c] = sent[c] + 1
      BY <1>2, <2>1, Here
    <3>2. worker'[w].pc = "failed" => Excess' = Excess + 1
      BY <1>1, <2>1, Numbers DEF Excess
    <3> QED
      BY <1>1, <1>3, <1>8, <2>1, <3>1, <3>2 DEF Spent
  <2>2. CASE worker[w].pc = "deliver" /\ worker'[w].pc = "failed" /\ sent' = sent /\ faults' = faults
    BY <1>1, <1>3, <1>8, <2>2 DEF Spent
  <2>3. CASE worker[w].pc = "delivered" /\ sent' = sent /\ faults' = faults + 1
    <3>1. Excess' = Excess + 1
      BY <1>1, <2>3, Numbers DEF Excess
    <3> QED
      BY <1>1, <1>3, <1>8, <2>3, <3>1 DEF Spent
  <2> QED
    BY <1>1, <2>1, <2>2, <2>3
<1>10. BatchOpen(w)'
  BY <1>1, <1>4 DEF ExcessOK, BatchOpen, Open
<1>11. AttemptKnown(w)'
  <2>1. worker[w].attempt = rows[c].attempts
    BY <1>2, <1>4 DEF ExcessOK, AttemptKnown
  <2>2. worker'[w].pc # "deliver"
    BY <1>1
  <2> QED
    BY <1>1, <1>4, <1>9, <2>1, <2>2 DEF AttemptKnown
<1> QED
  BY <1>1, <1>5, <1>7, <1>9, <1>10, <1>11 DEF ExcessOK

\* A row that goes back to PENDING has an attempt left.
LEMMA ExcessRecord ==
  ASSUME IInv, ExcessOK, NEW w, Workers = {w}, RecordDelivered(w) \/ RecordFailure(w)
  PROVE  ExcessOK'
<1>1. worker[w].pc \in {"delivered", "failed"}
  BY DEF RecordDelivered, RecordFailure
<1>2. PICK c \in DOMAIN rows :
        /\ c = Current(w) /\ c = worker[w].due[1]
        /\ 1 \in DOMAIN worker[w].due /\ DOMAIN worker[w].due \subseteq Nat
  BY <1>1, FirstOfBatch
<1>3. /\ UNCHANGED <<sent, replays, faults>>
      /\ DOMAIN rows' = DOMAIN rows
      /\ \A i \in DOMAIN rows \ {c} : rows'[i] = rows[i]
      /\ rows'[c].attempts = rows[c].attempts
      /\ rows'[c].status \in {"DELIVERED", "FAILED", "PENDING"}
      /\ rows'[c].status = "PENDING" =>
           worker[w].pc = "failed" /\ worker[w].attempt < MaxAttempts
      /\ worker'[w].pc \in {"lock", "refresh"} /\ worker'[w].due = Tail(worker[w].due)
  BY <1>2, OutcomeRecorded
<1>4. /\ Excess' = Excess /\ Excess \in Nat /\ MaxAttempts \in Nat
      /\ \A i \in DOMAIN rows : sent[i] \in Nat /\ rows[i].attempts \in Nat
  BY <1>3, Numbers DEF Excess
<1>5. Engaged(w) /\ ~Engaged(w)' /\ \A i \in DOMAIN rows : Holds(w, i) = (i = c)
  BY <1>1, <1>2, <1>3 DEF Engaged, Holds
<1>6. \A i \in DOMAIN rows : Spent(i)'
  BY <1>3, <1>4 DEF ExcessOK, Spent
<1>7. \A i \in DOMAIN rows \ {c} : Open(i)' => Spare(i)'
  <2>1. \A i \in DOMAIN rows \ {c} : Open(i) => Spare(i)
    BY <1>5 DEF ExcessOK
  <2> QED
    BY <1>3, <1>4, <2>1 DEF Open, Spare
<1>8. Open(c)' => Spare(c)'
  <2>1. /\ worker[w].attempt = rows[c].attempts
        /\ worker[w].pc = "failed" => sent[c] <= Excess
    BY <1>2, <1>5 DEF ExcessOK, AttemptKnown
  <2> QED
    BY <1>3, <1>4, <2>1 DEF Open, Spare
<1>9. BatchOpen(w)'
  <2>1. PICK due \in Seq(Nat \ {0}) : due = worker[w].due /\ due # <<>>
    BY <1>1, CurrentRow
  <2>2. /\ DOMAIN Tail(due) = 1..Len(due) - 1 /\ Len(due) \in Nat /\ DOMAIN due = 1..Len(due)
        /\ \A n \in 1..Len(due) - 1 : Tail(due)[n] = due[n + 1]
    BY <2>1
  <2>3. \A n \in 1..Len(due) - 1 : n + 1 \in DOMAIN due /\ n + 1 > 1
    BY <2>2
  <2>4. /\ \A m, n \in DOMAIN due : m < n => due[m] # due[n]
        /\ \A n \in DOMAIN due : Open(due[n])
        /\ \A n \in DOMAIN due : due[n] \in DOMAIN rows
    BY <2>1, Here DEF ExcessOK, BatchOpen, RunOK
  <2>5. \A n \in DOMAIN due : n > 1 => due[n] # c /\ Open(due[n])'
    <3>1. \A n \in DOMAIN due : n > 1 => due[n] # c
      BY <1>2, <2>1, <2>4
    <3> QED
      BY <1>3, <2>4, <3>1 DEF Open
  <2>6. \A n \in DOMAIN Tail(due) : Open(Tail(due)[n])'
    BY <2>2, <2>3, <2>5
  <2>7. \A m, n \in DOMAIN Tail(due) : m < n => Tail(due)[m] # Tail(due)[n]
    <3> SUFFICES ASSUME NEW m \in 1..Len(due) - 1, NEW n \in 1..Len(due) - 1, m < n
                 PROVE  Tail(due)[m] # Tail(due)[n]
      BY <2>2
    <3>1. m + 1 \in DOMAIN due /\ n + 1 \in DOMAIN due /\ m + 1 < n + 1
      BY <2>2, <2>3
    <3> QED
      BY <2>2, <2>4, <3>1
  <2>8. worker'[w].due = Tail(due)
    BY <1>3, <2>1
  <2> QED
    BY <2>6, <2>7, <2>8 DEF BatchOpen
<1>10. AttemptKnown(w)'
  BY <1>3, <1>5 DEF AttemptKnown
<1> QED
  BY <1>3, <1>6, <1>7, <1>8, <1>9, <1>10 DEF ExcessOK

\* A run that stops in the middle of an attempt pays for it with a fault.
LEMMA ExcessEnds ==
  ASSUME IInv, ExcessOK, NEW w, Workers = {w}, RefreshRead(w) \/ RefreshWrite(w) \/ RunFails(w)
  PROVE  ExcessOK'
<1>1. /\ UNCHANGED <<rows, sent, replays>>
      /\ \/ /\ worker[w].pc = "refresh" /\ faults' = faults
            /\ worker'[w].pc = "alert" /\ worker'[w].due = worker[w].due
         \/ worker[w].pc = "alert" /\ worker'[w] = Stopped /\ faults' = faults
         \/ worker'[w] = Stopped /\ faults' = faults + 1
  BY RunEnds
<1>2. ~Engaged(w)'
  BY <1>1 DEF Engaged, Stopped
<1>3. BatchOpen(w)'
  <2>1. CASE worker'[w] = Stopped
    BY <2>1 DEF BatchOpen, Stopped
  <2>2. CASE worker[w].pc = "refresh" /\ worker'[w].due = worker[w].due
    BY <1>1, <2>2 DEF ExcessOK, BatchOpen, Engaged, Open
  <2> QED
    BY <1>1, <2>1, <2>2
<1>4. CASE faults' = faults
  <2>1. ~Engaged(w) \/ faults' = faults + 1
    BY <1>1 DEF Engaged
  <2>2. faults' # faults + 1
    BY <1>4, Numbers
  <2> QED
    BY <1>1, <1>2, <1>3, <1>4, <2>1, <2>2, ExcessFree DEF Excess
<1>5. CASE faults' = faults + 1
  <2>1. /\ Excess' = Excess + 1 /\ Excess \in Nat /\ MaxAttempts \in Nat
        /\ \A i \in DOMAIN rows : sent[i] \in Nat /\ rows[i].attempts \in Nat
    BY <1>1, <1>5, Numbers DEF Excess
  <2>2. \A i \in DOMAIN rows : Spent(i)
    BY DEF ExcessOK
  <2>3. \A i \in DOMAIN rows : Spent(i)' /\ Spare(i)'
    BY <1>1, <2>1, <2>2 DEF Spent, Spare
  <2>4. AttemptKnown(w)'
    BY <1>2 DEF AttemptKnown, Engaged
  <2> QED
    BY <1>1, <1>3, <2>3, <2>4 DEF ExcessOK
<1> QED
  BY <1>1, <1>4, <1>5

\* A replay gives its row one more attempt and one more message.
LEMMA ExcessTouched ==
  ASSUME IInv, ExcessOK, NEW w, Workers = {w},
         (\E i \in DOMAIN rows : Elapse(i) \/ ReplayRead(i)) \/ ReplayUpdate
  PROVE  ExcessOK'
<1>1. /\ UNCHANGED <<worker, sent, faults>> /\ DOMAIN rows' = DOMAIN rows
      /\ \A i \in DOMAIN rows : rows'[i].attempts = rows[i].attempts
      /\ \/ /\ replays' = replays
            /\ \A i \in DOMAIN rows : rows'[i].status = rows[i].status
         \/ /\ replays' = replays + 1
            /\ \A i \in DOMAIN rows : rows'[i].status \in {rows[i].status, "PENDING"}
  BY RowTouched
<1>2. /\ Excess \in Nat /\ MaxAttempts \in Nat
      /\ \A i \in DOMAIN rows : sent[i] \in Nat /\ rows[i].attempts \in Nat
      /\ Excess' = IF replays' = replays THEN Excess ELSE Excess + 1
  BY <1>1, Numbers DEF Excess
<1>3. \A i \in DOMAIN rows : Spent(i)' /\ Holds(w, i)' = Holds(w, i) /\ (Open(i) => Open(i)')
  BY <1>1, <1>2 DEF ExcessOK, Spent, Holds, Engaged, Current, Open
<1>4. \A i \in DOMAIN rows : Open(i)' /\ ~Holds(w, i)' => Spare(i)'
  <2>1. CASE replays' = replays
    <3>1. \A i \in DOMAIN rows : rows'[i].status = rows[i].status
      BY <1>1, <2>1, Numbers
    <3>2. \A i \in DOMAIN rows : Open(i)' = Open(i) /\ (Spare(i) => Spare(i)')
      BY <1>1, <1>2, <2>1, <3>1 DEF Open, Spare
    <3> QED
      BY <1>3, <3>2 DEF ExcessOK
  <2>2. CASE replays' # replays
    <3>1. Excess' = Excess + 1 /\ \A i \in DOMAIN rows : Spent(i)
      BY <1>2, <2>2 DEF ExcessOK
    <3> QED
      BY <1>1, <1>2, <3>1 DEF Spent, Spare
  <2> QED
    BY <2>1, <2>2
<1>5. BatchOpen(w)'
  <2>1. \A n \in DOMAIN worker[w].due : worker[w].due[n] \in DOMAIN rows
    BY Here DEF RunOK
  <2> QED
    BY <1>1, <1>3, <2>1 DEF ExcessOK, BatchOpen, Engaged
<1>6. AttemptKnown(w)'
  <2>1. Engaged(w) => Current(w) \in DOMAIN rows
    BY FirstOfBatch DEF Engaged
  <2>2. worker[w].pc \in {"deliver", "failed"} => Engaged(w)
    BY DEF Engaged
  <2>3. AttemptKnown(w)
    BY DEF ExcessOK
  <2> QED
    BY <1>1, <1>2, <2>1, <2>2, <2>3 DEF AttemptKnown, Engaged, Current
<1> QED
  BY <1>1, <1>3, <1>4, <1>5, <1>6 DEF ExcessOK

LEMMA ExcessNext ==
  ASSUME IInv, ExcessOK, NEW w, Workers = {w}, [Next]_vars PROVE ExcessOK'
<1>1. Excess \in Nat /\ faults \in Nat /\ replays \in Nat
  BY Numbers
<1>2. ASSUME NEW s \in Submissions,
             \/ \E targets \in SUBSET Targets : ResolveTargets(s, targets)
             \/ OpenRoutingAlert(s) \/ ResolveRoutingAlert(s) \/ QueueFails(s)
      PROVE  ExcessOK'
  <2>1. UNCHANGED <<rows, sent, worker, replays>> /\ (faults' = faults \/ faults' = faults + 1)
    BY <1>2, InquiryOnly
  <2>2. Excess' \in Nat /\ Excess' >= Excess
    BY <1>1, <2>1 DEF Excess
  <2> QED
    BY <2>1, <2>2, ExcessQuiet
<1>3. ASSUME NEW s \in Submissions, CreateDeliveries(s) PROVE ExcessOK'
  BY <1>3, ExcessCreate
<1>4. CASE \/ Poll(w) \/ KickReplayed(w) \/ \E s \in Submissions : KickQueued(s, w)
           \/ ReadDue(w)
  BY <1>4, ExcessRead
<1>5. CASE Lock(w)
  BY <1>5, ExcessLock
<1>6. CASE \/ DeliverAccepted(w) \/ DeliverRefused(w, TRUE) \/ DeliverRefused(w, FALSE)
           \/ DeliverUnanswered(w) \/ RecordDeliveredFails(w)
  BY <1>6, ExcessSend
<1>7. CASE RecordDelivered(w) \/ RecordFailure(w)
  BY <1>7, ExcessRecord
<1>8. CASE RefreshRead(w) \/ RefreshWrite(w) \/ RunFails(w)
  BY <1>8, ExcessEnds
<1>9. CASE (\E i \in DOMAIN rows : Elapse(i) \/ ReplayRead(i)) \/ ReplayUpdate
  BY <1>9, ExcessTouched
<1>10. CASE UNCHANGED vars
  <2>1. UNCHANGED <<rows, sent, worker>> /\ Excess' = Excess
    BY <1>10 DEF vars, Excess
  <2> QED
    BY <1>1, <2>1, ExcessQuiet
<1> QED
  BY <1>2, <1>3, <1>4, <1>5, <1>6, <1>7, <1>8, <1>9, <1>10, StepsOf

\* What a row can still be tried stays within the bounds.
LEMMA ExcessInvariance == ASSUME OneProcess PROVE Spec => []ExcessOK
<1>1. Init => ExcessOK
  BY DEF Init, ExcessOK, BatchOpen, AttemptKnown, Engaged, Stopped
<1>2. IInv /\ ExcessOK /\ [Next]_vars => ExcessOK'
  BY ExcessNext DEF OneProcess
<1> QED
  BY <1>1, <1>2, Invariance, PTL DEF Spec

\* With one process, processDueDeliveries sends a message once and tries it
\* FORM_DELIVERY_MAX_ATTEMPTS times at most, and a row has no more messages
\* or attempts beyond that than there were crashes, failed statements, lost
\* answers and replays, for any batch size, attempt limit and number of rows.
THEOREM ExcessExplained == ASSUME OneProcess PROVE Spec => []ExcessIsExplained
<1>1. IInv /\ ExcessOK => ExcessIsExplained
  <2> SUFFICES ASSUME IInv, ExcessOK, NEW i \in DOMAIN rows
               PROVE  /\ sent[i] <= 1 + faults + replays
                      /\ rows[i].attempts <= MaxAttempts + faults + replays
    BY DEF ExcessIsExplained
  <2>1. Spent(i)
    BY DEF ExcessOK
  <2>2. sent[i] \in Nat /\ rows[i].attempts \in Nat /\ MaxAttempts \in Nat
        /\ replays \in Nat /\ faults \in Nat
    BY Numbers
  <2> QED
    BY <2>1, <2>2 DEF Spent, Excess
<1> QED
  BY <1>1, Invariance, ExcessInvariance, PTL

\* A step that is no replay leaves settled rows and their messages alone.
LEMMA SettledNext ==
  ASSUME IInv, ExcessOK, NEW w, Workers = {w}, [Next]_vars, replays' = replays,
         NEW i \in DOMAIN rows, Settled(i)
  PROVE  rows'[i] = rows[i] /\ sent'[i] = sent[i]
<1>1. worker[w].pc \in {"lock", "deliver", "delivered", "failed"} => i # Current(w)
  BY FirstOfBatch DEF ExcessOK, BatchOpen, Open, Settled
<1>2. UNCHANGED <<rows, sent>> => rows'[i] = rows[i] /\ sent'[i] = sent[i]
  OBVIOUS
<1>3. ASSUME NEW s \in Submissions,
             \/ \E targets \in SUBSET Targets : ResolveTargets(s, targets)
             \/ OpenRoutingAlert(s) \/ ResolveRoutingAlert(s) \/ QueueFails(s)
      PROVE  UNCHANGED <<rows, sent>>
  BY <1>3, InquiryOnly
<1>4. ASSUME NEW s \in Submissions, CreateDeliveries(s)
      PROVE  rows'[i] = rows[i] /\ sent'[i] = sent[i]
  BY <1>4, NewRows
<1>5. CASE Poll(w) \/ KickReplayed(w) \/ \E s \in Submissions : KickQueued(s, w)
  BY <1>2, <1>5, RunBegins
<1>6. CASE ReadDue(w)
  BY <1>2, <1>6, BatchRead
<1>7. CASE Lock(w)
  BY <1>1, <1>7, RowLocked
<1>8. CASE \/ DeliverAccepted(w) \/ DeliverRefused(w, TRUE) \/ DeliverRefused(w, FALSE)
           \/ DeliverUnanswered(w) \/ RecordDeliveredFails(w)
  <2>1. /\ rows' = rows
        /\ \/ sent' = sent
           \/ /\ worker[w].pc = "deliver"
              /\ sent' = [sent EXCEPT ![Current(w)] = sent[Current(w)] + 1]
    BY <1>8, SendEnds
  <2>2. sent[i] = sent'[i]
    BY <1>1, <2>1, Here
  <2> QED
    BY <2>1, <2>2
<1>9. CASE RecordDelivered(w) \/ RecordFailure(w)
  BY <1>1, <1>9, OutcomeRecorded
<1>10. CASE RefreshRead(w) \/ RefreshWrite(w) \/ RunFails(w)
  BY <1>2, <1>10, RunEnds
<1>11. CASE (\E j \in DOMAIN rows : Elapse(j) \/ ReplayRead(j)) \/ ReplayUpdate
  BY <1>11, RowTouched
<1>12. CASE UNCHANGED vars
  BY <1>2, <1>12 DEF vars
<1> QED
  BY <1>2, <1>3, <1>4, <1>5, <1>6, <1>7, <1>8, <1>9, <1>10, <1>11, <1>12, StepsOf

\* With one process, a row that was delivered, or has failed for good, is not
\* locked, sent or counted again by any run, not even one that read its batch
\* before: only requeueDelivery takes it up.
SettledStays ==
  [][replays' = replays =>
       \A i \in DOMAIN rows :
         Settled(i) => rows'[i] = rows[i] /\ sent'[i] = sent[i]]_vars

\* The row a run is at is never a settled one.
THEOREM SettledRowsStay == ASSUME OneProcess PROVE Spec => SettledStays
<1>1. IInv /\ ExcessOK /\ [Next]_vars =>
        [replays' = replays =>
           \A i \in DOMAIN rows :
             Settled(i) => rows'[i] = rows[i] /\ sent'[i] = sent[i]]_vars
  BY SettledNext DEF OneProcess
<1> QED
  BY <1>1, Invariance, ExcessInvariance, PTL DEF Spec, SettledStays

=============================================================================
