------------------------ MODULE StripeBillingProofs -------------------------
(* Proofs about StripeBilling, for any number of handlers, events,         *)
(* schedules and incidents.                                                *)
EXTENDS StripeBilling, SequenceTheorems, TLAPS

\* What the tables say of each other.
TablesOK ==
  /\ \A e \in Events :
       /\ receipt[e] # "none" => event[e] # "none"
       /\ event[e] = "acked" => receipt[e] # "none"
       /\ event[e] # "none" => IF e = 0 THEN session # NoPlan ELSE e <= Len(log)
       /\ receipt[e] = "processed" => e \in applied
  /\ scheduled => Len(log) > 0
  /\ \A i \in 1..Len(rows) : rows[i].linked => Len(log) > 0

\* What the local state of a handler says about the tables.
HandlerOK(q) ==
  /\ q.kind \in {"event", "replay"} => event[q.event] # "none"
  /\ q.pc \in {"intent", "keep"} =>
       /\ q.kind \in {"event", "replay", "checkout"}
       /\ q.kind # "checkout" => q.event = 0
  /\ q.pc \in {"linked", "unlinked", "write"} =>
       q.kind \in {"event", "replay", "sync", "upgrade"} /\ q.version \in 1..Len(log)
  /\ q.pc = "mark" => q.kind \in {"event", "replay"} /\ q.event \in applied
  /\ q.pc = "release" => q.kind \in {"upgrade", "downgrade", "cancel"}
  /\ q.pc = "change" => q.kind = "upgrade"
  /\ q.pc = "schedule" => q.kind = "downgrade"
  /\ q.pc \in {"release", "change", "schedule"} /\ q.kind # "cancel" => Len(log) > 0
  /\ q.pc \in {"keep", "write"} => q.row \in 0..Len(rows)

HandlersOK == \A h \in Handlers : HandlerOK(handler[h])

IInv == TypeOK /\ TablesOK /\ HandlersOK

\* Nothing a handler relies on is ever taken back.
Grows ==
  /\ session # NoPlan => session' # NoPlan
  /\ Len(log) <= Len(log')
  /\ Len(rows) <= Len(rows')
  /\ applied \subseteq applied'
  /\ \A e \in Events : event[e] # "none" => event'[e] # "none"

-----------------------------------------------------------------------------
\* An idle handler is in order.
LEMMA IdleOK ==
  /\ Idle \in Handler /\ HandlerOK(Idle) /\ HandlerOK(Idle)'
  /\ Idle.event = 0 /\ Idle.version = 0 /\ Idle.row = 0
BY BoundsAssumption DEF Idle, Handler, Events, Schedules, HandlerOK

\* The initial state satisfies the inductive invariant.
LEMMA InitIInv == Init => IInv
<1> SUFFICES ASSUME Init PROVE IInv
  OBVIOUS
<1>1. Len(log) = 0 /\ Len(rows) = 0
  BY EmptySeq DEF Init
<1>2. handler \in [Handlers -> Handler] /\ HandlersOK
  BY IdleOK DEF Init, HandlersOK
<1>3. TypeOK
  <2>1. <<>> \in Seq(Snapshot) /\ <<>> \in Seq(Row)
    BY EmptySeq
  <2> QED
    BY <1>1, <1>2, <2>1, BoundsAssumption DEF Init, TypeOK, Events, Schedules, NoPlan
<1>4. TablesOK
  BY <1>1 DEF Init, TablesOK
<1> QED
  BY <1>2, <1>3, <1>4 DEF IInv

\* A step preserves the invariant if the handlers it moves are in order, what
\* it writes is typed and consistent, and it takes nothing back.
LEMMA StepInv ==
  ASSUME IInv, TypeOK', TablesOK', Grows,
         \A g \in Handlers : handler'[g] = handler[g] \/ HandlerOK(handler[g])'
  PROVE  IInv'
<1>1. ASSUME NEW g \in Handlers, handler'[g] = handler[g] PROVE HandlerOK(handler[g])'
  <2>1. handler[g] \in Handler
    BY DEF IInv, TypeOK
  <2>2. HandlerOK(handler[g])
    BY DEF IInv, HandlersOK
  <2>3. Len(log) \in Nat /\ Len(log') \in Nat /\ Len(rows) \in Nat /\ Len(rows') \in Nat
    BY LenProperties DEF IInv, TypeOK
  <2>4. handler[g].event \in Events /\ handler[g].version \in Nat /\ handler[g].row \in Nat
    BY <2>1, BoundsAssumption DEF Handler, Events
  <2> QED
    BY <1>1, <2>2, <2>3, <2>4 DEF HandlerOK, Grows
<1>2. HandlersOK'
  BY <1>1 DEF HandlersOK
<1> QED
  BY <1>2 DEF IInv

\* The two sequences: their lengths, their entries, and the latest state.
LEMMA SequencesOK ==
  ASSUME TypeOK
  PROVE  /\ Len(log) \in Nat /\ Len(rows) \in Nat
         /\ DOMAIN rows = 1..Len(rows)
         /\ \A v \in 1..Len(log) : log[v] \in Snapshot
         /\ \A i \in 1..Len(rows) : rows[i] \in Row
         /\ log # <<>> => Len(log) > 0
         /\ Len(log) > 0 => Latest \in Snapshot
<1>1. Len(log) \in Nat /\ Len(rows) \in Nat /\ DOMAIN rows = 1..Len(rows)
  BY LenProperties DEF TypeOK
<1>2. /\ \A v \in 1..Len(log) : log[v] \in Snapshot
      /\ \A i \in 1..Len(rows) : rows[i] \in Row
  BY ElementOfSeq DEF TypeOK
<1>3. log # <<>> => Len(log) > 0
  BY <1>1, EmptySeq DEF TypeOK
<1>4. Len(log) > 0 => Latest \in Snapshot
  BY <1>1, <1>2 DEF Latest
<1> QED
  BY <1>1, <1>2, <1>3, <1>4

\* What a handler is set to, and that no other moves.
LEMMA HandlerSet ==
  ASSUME TypeOK, NEW h \in Handlers, NEW q \in Handler,
         handler' = [handler EXCEPT ![h] = q]
  PROVE  /\ handler' \in [Handlers -> Handler]
         /\ handler'[h] = q
         /\ \A g \in Handlers \ {h} : handler'[g] = handler[g]
BY DEF TypeOK

-----------------------------------------------------------------------------
(* The steps of Stripe.                                                    *)

\* A subscription that is not over takes a status of its own; one with a status
\* to take is not over.
LEMMA NextStatus ==
  ASSUME NEW now \in Snapshot, NEW status \in StatusesAfter(now.status)
  PROVE  /\ status \in {"ACTIVE", "PAST_DUE", "CANCELED"}
         /\ now.status # "CANCELED"
         /\ [now EXCEPT !.status = status] \in Snapshot
         /\ [now EXCEPT !.status = status].status = status
         /\ [now EXCEPT !.status = status].plan = now.plan
<1>1. now.status \in {"INACTIVE", "ACTIVE", "PAST_DUE", "CANCELED"}
  BY DEF Snapshot, Statuses
<1>2. status \in {"ACTIVE", "PAST_DUE", "CANCELED"} /\ now.status # "CANCELED"
  BY <1>1 DEF StatusesAfter
<1> QED
  BY <1>2 DEF Snapshot, Statuses

\* A new state of the subscription, and its event.
LEMMA Announced ==
  ASSUME IInv, NEW snapshot \in Snapshot, Announce(snapshot)
  PROVE  /\ log' \in Seq(Snapshot)
         /\ Len(log') = Len(log) + 1
         /\ Len(log') <= MaxChanges
         /\ Len(log') \in Events
<1>1. log \in Seq(Snapshot) /\ Len(log) \in Nat
  BY SequencesOK DEF IInv, TypeOK
<1>2. log' \in Seq(Snapshot) /\ Len(log') = Len(log) + 1
  BY <1>1, AppendProperties DEF Announce
<1> QED
  BY <1>1, <1>2, BoundsAssumption DEF Announce, WithinTotal, Events

\* The checkout completes.
LEMMA CompleteCheckoutInv == IInv /\ CompleteCheckout => IInv'
<1> SUFFICES ASSUME IInv, CompleteCheckout PROVE IInv'
  OBVIOUS
<1>1. PICK status \in {"INACTIVE", "ACTIVE"} :
        Announce([status |-> status, plan |-> session])
  BY DEF CompleteCheckout
<1>2. [status |-> status, plan |-> session] \in Snapshot
  BY <1>1 DEF CompleteCheckout, IInv, TypeOK, Snapshot, Statuses
<1>3. log' \in Seq(Snapshot) /\ Len(log') = Len(log) + 1 /\ Len(log') <= MaxChanges
  BY <1>1, <1>2, Announced
<1>4. Len(log) = 0 /\ 0 \in Events /\ 1 \in Events
  BY EmptySeq, BoundsAssumption DEF CompleteCheckout, Events
<1>5. event' \in [Events -> {"none", "pending", "acked"}]
  BY <1>4 DEF CompleteCheckout, IInv, TypeOK
<1>6. TypeOK'
  BY <1>3, <1>5 DEF CompleteCheckout, IInv, TypeOK, history
<1>7. TablesOK'
  BY <1>3, <1>4 DEF CompleteCheckout, IInv, TypeOK, TablesOK, history
<1>8. Grows
  BY <1>3, <1>4, <1>5, SequencesOK DEF CompleteCheckout, IInv, TypeOK, Grows, history
<1> QED
  BY <1>6, <1>7, <1>8, StepInv DEF CompleteCheckout

\* A payment arrives or fails, or the subscription ends.
LEMMA StatusChangesInv == IInv /\ StatusChanges => IInv'
<1> SUFFICES ASSUME IInv, StatusChanges PROVE IInv'
  OBVIOUS
<1>1. Len(log) \in Nat /\ Len(log) > 0 /\ Latest \in Snapshot
  BY SequencesOK DEF StatusChanges, IInv
<1>2. PICK snapshot \in Snapshot : Announce(snapshot)
  <2>1. PICK status \in StatusesAfter(Latest.status) :
          Announce([Latest EXCEPT !.status = status])
    BY DEF StatusChanges
  <2> QED
    BY <1>1, <2>1, NextStatus
<1>3. Announce(snapshot)
  BY <1>2
<1>4. /\ log' \in Seq(Snapshot) /\ Len(log') = Len(log) + 1 /\ Len(log') <= MaxChanges
      /\ Len(log') \in Events
  BY <1>2, <1>3, Announced
<1>5. event' \in [Events -> {"none", "pending", "acked"}]
  BY <1>4 DEF StatusChanges, IInv, TypeOK
<1>6. scheduled' \in BOOLEAN
  BY DEF StatusChanges
<1>7. TypeOK'
  BY <1>4, <1>5, <1>6 DEF StatusChanges, IInv, TypeOK, history
<1>8. TablesOK'
  BY <1>1, <1>4 DEF StatusChanges, IInv, TypeOK, TablesOK, Events, history
<1>9. Grows
  BY <1>1, <1>4, SequencesOK DEF StatusChanges, IInv, TypeOK, Grows, history
<1> QED
  BY <1>7, <1>8, <1>9, StepInv DEF StatusChanges

\* The scheduled plan starts.
LEMMA ScheduleRunsInv == IInv /\ ScheduleRuns => IInv'
<1> SUFFICES ASSUME IInv, ScheduleRuns PROVE IInv'
  OBVIOUS
<1> DEFINE snapshot == [Latest EXCEPT !.plan = "low"]
<1>1. Len(log) \in Nat /\ Len(log) > 0 /\ Latest \in Snapshot
  BY SequencesOK DEF ScheduleRuns, IInv, TablesOK
<1>2. snapshot \in Snapshot
  BY <1>1 DEF Snapshot, Plans
<1>3. Announce(snapshot)
  BY DEF ScheduleRuns
<1>4. /\ log' \in Seq(Snapshot) /\ Len(log') = Len(log) + 1 /\ Len(log') <= MaxChanges
      /\ Len(log') \in Events
  BY <1>2, <1>3, Announced
<1>5. event' \in [Events -> {"none", "pending", "acked"}]
  BY <1>4 DEF ScheduleRuns, IInv, TypeOK
<1>6. TypeOK'
  BY <1>4, <1>5 DEF ScheduleRuns, IInv, TypeOK, history
<1>7. TablesOK'
  BY <1>1, <1>4 DEF ScheduleRuns, IInv, TypeOK, TablesOK, Events, history
<1>8. Grows
  BY <1>1, <1>4, SequencesOK DEF ScheduleRuns, IInv, TypeOK, Grows, history
<1> QED
  BY <1>6, <1>7, <1>8, StepInv DEF ScheduleRuns

-----------------------------------------------------------------------------
(* The steps of a handler.                                                 *)

\* Most steps move one handler and leave the tables alone.
LEMMA HandlerStepInv ==
  ASSUME IInv, NEW h \in Handlers, NEW q \in Handler,
         handler' = [handler EXCEPT ![h] = q],
         HandlerOK(q),
         incidents' \in 0..MaxIncidents,
         UNCHANGED <<external, receipt, rows, history>>
  PROVE  IInv'
<1>1. /\ handler' \in [Handlers -> Handler]
      /\ handler'[h] = q
      /\ \A g \in Handlers \ {h} : handler'[g] = handler[g]
  BY HandlerSet DEF IInv
<1>2. TypeOK'
  BY <1>1 DEF IInv, TypeOK, external, history
<1>3. TablesOK'
  BY DEF IInv, TablesOK, external, history
<1>4. Grows
  BY SequencesOK DEF IInv, Grows, external, history
<1>5. HandlerOK(handler[h])'
  BY <1>1 DEF HandlerOK, external, history
<1> QED
  BY <1>1, <1>2, <1>3, <1>4, <1>5, StepInv

\* An idle handler takes up a checkout.
LEMMA CheckoutInv == ASSUME IInv, NEW h \in Handlers, Checkout(h) PROVE IInv'
<1> DEFINE q == [Idle EXCEPT !.pc = "intent", !.kind = "checkout"]
<1>1. q \in Handler
  BY IdleOK DEF Handler
<1>2. q.pc = "intent" /\ q.kind = "checkout"
  BY IdleOK DEF Handler
<1>3. HandlerOK(q)
  BY <1>2 DEF HandlerOK
<1>4. handler' = [handler EXCEPT ![h] = q] /\ incidents' \in 0..MaxIncidents
  BY DEF Checkout, Begin, IInv, TypeOK
<1> HIDE DEF q
<1> QED
  BY <1>1, <1>3, <1>4, HandlerStepInv DEF Checkout

\* The handler h of the invariant.
LEMMA HandlerHere ==
  ASSUME IInv, NEW h \in Handlers
  PROVE  handler[h] \in Handler /\ HandlerOK(handler[h])
BY DEF IInv, TypeOK, HandlersOK

Labels == {"idle", "intent", "keep", "linked", "unlinked", "write", "mark", "release",
           "change", "schedule", "record", "clear"}

Kinds == {"event", "replay", "checkout", "sync", "upgrade", "downgrade", "cancel"}

\* The changes that the steps make to the local state of a handler are typed.
LEMMA MovesTyped ==
  ASSUME NEW r \in Handler, NEW p \in Labels
  PROVE  [r EXCEPT !.pc = p] \in Handler
BY DEF Handler, Labels

LEMMA RowTyped ==
  ASSUME NEW r \in Handler, NEW p \in Labels, NEW i \in Nat
  PROVE  [r EXCEPT !.pc = p, !.row = i] \in Handler
BY DEF Handler, Labels

LEMMA RowSeenTyped ==
  ASSUME NEW r \in Handler, NEW p \in Labels, NEW i \in Nat, NEW s \in Schedules
  PROVE  [r EXCEPT !.pc = p, !.row = i, !.seen = s] \in Handler
BY DEF Handler, Labels

LEMMA VersionTyped ==
  ASSUME NEW r \in Handler, NEW p \in Labels, NEW v \in Events
  PROVE  [r EXCEPT !.pc = p, !.version = v] \in Handler
BY DEF Handler, Labels

LEMMA SeenTyped ==
  ASSUME NEW r \in Handler, NEW p \in Labels, NEW s \in Schedules
  PROVE  [r EXCEPT !.pc = p, !.seen = s] \in Handler
BY DEF Handler, Labels

\* The local states a handler starts with, or answers Stripe with, are typed.
LEMMA AnswerTyped ==
  ASSUME NEW r \in Handler, NEW p \in Labels, NEW k \in Kinds, NEW e \in Events
  PROVE  [r EXCEPT !.pc = p, !.kind = k, !.event = e] \in Handler
BY DEF Handler, Labels, Kinds

LEMMA ProcessingTyped ==
  ASSUME NEW r \in Handler, NEW p \in Labels, NEW k \in Kinds, NEW e \in Events, NEW v \in Events
  PROVE  [r EXCEPT !.pc = p, !.kind = k, !.event = e, !.version = v] \in Handler
BY DEF Handler, Labels, Kinds

LEMMA RequestTyped ==
  ASSUME NEW r \in Handler, NEW p \in Labels, NEW k \in Kinds, NEW i \in Nat, NEW s \in Schedules
  PROVE  [r EXCEPT !.pc = p, !.kind = k, !.row = i, !.seen = s] \in Handler
BY DEF Handler, Labels, Kinds

\* The row of an intent is looked up.
LEMMA FindIntentInv == ASSUME IInv, NEW h \in Handlers, FindIntent(h) PROVE IInv'
<1>1. Len(rows) \in Nat /\ DOMAIN rows = 1..Len(rows)
  BY SequencesOK DEF IInv
<1>2. PICK i \in IF Unlinked = {} THEN {0} ELSE Unlinked :
        handler' = [handler EXCEPT ![h].pc = "keep", ![h].row = i]
  BY DEF FindIntent
<1> DEFINE q == [handler[h] EXCEPT !.pc = "keep", !.row = i]
<1>3. handler[h] \in Handler /\ HandlerOK(handler[h]) /\ i \in Nat /\ i \in 0..Len(rows)
  BY <1>1, <1>2, HandlerHere DEF Unlinked
<1>4. q \in Handler
  BY <1>3, RowTyped DEF Labels
<1>5. /\ q.pc = "keep" /\ q.row = i
      /\ q.kind = handler[h].kind /\ q.event = handler[h].event
  BY <1>3 DEF Handler
<1>6. HandlerOK(q)
  BY <1>3, <1>5 DEF HandlerOK, FindIntent
<1>7. handler' = [handler EXCEPT ![h] = q]
  BY <1>2 DEF IInv, TypeOK
<1>8. incidents' \in 0..MaxIncidents
  BY DEF FindIntent, IInv, TypeOK
<1> HIDE DEF q
<1> QED
  BY <1>4, <1>6, <1>7, <1>8, HandlerStepInv DEF FindIntent

\* The linked row is looked up.
LEMMA FindLinkedInv == ASSUME IInv, NEW h \in Handlers, FindLinked(h) PROVE IInv'
<1>1. handler[h] \in Handler /\ HandlerOK(handler[h]) /\ handler[h].pc = "linked"
  BY HandlerHere DEF FindLinked
<1>2. incidents' \in 0..MaxIncidents
  BY DEF FindLinked, IInv, TypeOK
<1>3. CASE Linked = {}
  <2> DEFINE q == [handler[h] EXCEPT !.pc = "unlinked"]
  <2>1. q \in Handler
    BY <1>1, MovesTyped DEF Labels
  <2>2. q.pc = "unlinked" /\ q.kind = handler[h].kind /\ q.event = handler[h].event
        /\ q.version = handler[h].version
    BY <1>1 DEF Handler
  <2>3. HandlerOK(q)
    BY <1>1, <2>2 DEF HandlerOK
  <2>4. handler' = [handler EXCEPT ![h] = q]
    BY <1>3 DEF FindLinked, Proceed, IInv, TypeOK
  <2> HIDE DEF q
  <2> QED
    BY <1>2, <2>1, <2>3, <2>4, HandlerStepInv DEF FindLinked
<1>4. CASE Linked # {}
  <2>1. PICK i \in Linked :
          handler' = [handler EXCEPT ![h].pc = "write", ![h].row = i,
                                     ![h].seen = rows[i].pending]
    BY <1>4 DEF FindLinked
  <2>2. i \in Nat /\ i \in 0..Len(rows) /\ rows[i].pending \in Schedules
    BY SequencesOK DEF IInv, Linked, Row
  <2> DEFINE q == [handler[h] EXCEPT !.pc = "write", !.row = i, !.seen = rows[i].pending]
  <2>3. q \in Handler
    BY <1>1, <2>2, RowSeenTyped DEF Labels
  <2>4. q.pc = "write" /\ q.kind = handler[h].kind /\ q.event = handler[h].event
        /\ q.version = handler[h].version /\ q.row = i
    BY <1>1, <2>2 DEF Handler
  <2>5. HandlerOK(q)
    BY <1>1, <2>2, <2>4 DEF HandlerOK
  <2>6. handler' = [handler EXCEPT ![h] = q]
    BY <2>1 DEF IInv, TypeOK
  <2> HIDE DEF q
  <2> QED
    BY <1>2, <2>3, <2>5, <2>6, HandlerStepInv DEF FindLinked
<1> QED
  BY <1>3, <1>4

\* An intent is looked up instead.
LEMMA FindUnlinkedInv == ASSUME IInv, NEW h \in Handlers, FindUnlinked(h) PROVE IInv'
<1>1. Len(rows) \in Nat /\ DOMAIN rows = 1..Len(rows)
  BY SequencesOK DEF IInv
<1>2. PICK i \in IF Unlinked = {} THEN {0} ELSE Unlinked :
        handler' = [handler EXCEPT ![h].pc = "write", ![h].row = i]
  BY DEF FindUnlinked
<1> DEFINE q == [handler[h] EXCEPT !.pc = "write", !.row = i]
<1>3. handler[h] \in Handler /\ HandlerOK(handler[h]) /\ i \in Nat /\ i \in 0..Len(rows)
  BY <1>1, <1>2, HandlerHere DEF Unlinked
<1>4. q \in Handler
  BY <1>3, RowTyped DEF Labels
<1>5. /\ q.pc = "write" /\ q.row = i /\ q.version = handler[h].version
      /\ q.kind = handler[h].kind /\ q.event = handler[h].event
  BY <1>3 DEF Handler
<1>6. HandlerOK(q)
  BY <1>3, <1>5 DEF HandlerOK, FindUnlinked
<1>7. handler' = [handler EXCEPT ![h] = q]
  BY <1>2 DEF IInv, TypeOK
<1>8. incidents' \in 0..MaxIncidents
  BY DEF FindUnlinked, IInv, TypeOK
<1> HIDE DEF q
<1> QED
  BY <1>4, <1>6, <1>7, <1>8, HandlerStepInv DEF FindUnlinked

\* A sync begins with what Stripe answers.
LEMMA SyncInv ==
  ASSUME IInv, NEW h \in Handlers, Sync(h), incidents' \in 0..MaxIncidents
  PROVE  IInv'
<1> DEFINE q == [Idle EXCEPT !.pc = "linked", !.version = Len(log)]
<1>1. Len(log) \in 1..Len(log) /\ Len(log) \in Events
  BY SequencesOK, BoundsAssumption DEF Sync, IInv, TypeOK, Events
<1>2. q \in Handler
  BY <1>1, IdleOK, VersionTyped DEF Labels
<1>3. q.pc = "linked" /\ q.kind = "sync" /\ q.version = Len(log)
  BY <1>1, IdleOK DEF Idle, Handler
<1>4. HandlerOK(q)
  BY <1>1, <1>3 DEF HandlerOK
<1>5. handler' = [handler EXCEPT ![h] = q]
  BY DEF Sync, Begin
<1> HIDE DEF q
<1> QED
  BY <1>2, <1>4, <1>5, HandlerStepInv DEF Sync

\* A change of the plan begins with its first step, or with the release of a
\* pending change.
LEMMA RequestInv ==
  ASSUME IInv, NEW h \in Handlers, NEW i \in 1..Len(rows), NEW s \in Schedules,
         NEW k \in {"upgrade", "downgrade", "cancel"},
         NEW p \in {"release", "change", "schedule"},
         p = "change" => k = "upgrade", p = "schedule" => k = "downgrade",
         k # "cancel" => rows[i].linked,
         Begin(h, [Idle EXCEPT !.pc = p, !.kind = k, !.row = i, !.seen = s]),
         UNCHANGED <<external, receipt, rows, incidents, history>>
  PROVE  IInv'
<1> DEFINE q == [Idle EXCEPT !.pc = p, !.kind = k, !.row = i, !.seen = s]
<1>1. Len(rows) \in Nat /\ i \in Nat
  BY SequencesOK DEF IInv
<1>2. q \in Handler
  BY <1>1, IdleOK, RequestTyped DEF Labels, Kinds
<1>3. q.pc = p /\ q.kind = k
  BY IdleOK DEF Handler
<1>4. HandlerOK(q)
  BY <1>1, <1>3 DEF HandlerOK, IInv, TablesOK
<1>5. handler' = [handler EXCEPT ![h] = q]
  BY DEF Begin
<1>6. incidents' \in 0..MaxIncidents
  BY DEF IInv, TypeOK
<1> HIDE DEF q
<1> QED
  BY <1>2, <1>4, <1>5, <1>6, HandlerStepInv

\* The requests of the dashboard.
LEMMA RequestsInv ==
  ASSUME IInv, NEW h \in Handlers, Upgrade(h) \/ Downgrade(h) \/ CancelPending(h)
  PROVE  IInv'
<1>1. DOMAIN rows = 1..Len(rows) /\ \A i \in 1..Len(rows) : rows[i] \in Row
  BY SequencesOK DEF IInv
<1>2. ASSUME NEW k \in {"upgrade", "downgrade"}, NEW first \in {"change", "schedule"},
             first = IF k = "upgrade" THEN "change" ELSE "schedule",
             ChangePlan(h, k, first)
      PROVE  IInv'
  <2>1. PICK i \in Linked :
          Begin(h, [Idle EXCEPT !.pc = IF rows[i].pending # 0 THEN "release" ELSE first,
                                !.kind = k, !.row = i, !.seen = rows[i].pending])
    BY <1>2 DEF ChangePlan
  <2> DEFINE p == IF rows[i].pending # 0 THEN "release" ELSE first
  <2>2. i \in 1..Len(rows) /\ rows[i].linked
    BY <1>1 DEF Linked
  <2>3. rows[i].pending \in Schedules
    BY <1>1, <2>2 DEF Row
  <2>4. /\ p \in {"release", "change", "schedule"}
        /\ p = "change" => k = "upgrade"
        /\ p = "schedule" => k = "downgrade"
    BY <1>2
  <2>5. Begin(h, [Idle EXCEPT !.pc = p, !.kind = k, !.row = i, !.seen = rows[i].pending])
    BY <2>1
  <2>6. k \in {"upgrade", "downgrade", "cancel"}
    OBVIOUS
  <2>7. UNCHANGED <<external, receipt, rows, incidents, history>>
    BY <1>2 DEF ChangePlan
  <2> HIDE DEF p
  <2> QED
    BY <2>2, <2>3, <2>4, <2>5, <2>6, <2>7, RequestInv
<1>3. ASSUME CancelPending(h) PROVE IInv'
  <2>1. PICK i \in Current :
          Begin(h, [Idle EXCEPT !.pc = "release", !.kind = "cancel", !.row = i,
                                !.seen = rows[i].pending])
    BY <1>3 DEF CancelPending
  <2>2. i \in 1..Len(rows)
    BY <1>1 DEF Current
  <2>3. rows[i].pending \in Schedules
    BY <1>1, <2>2 DEF Row
  <2>4. UNCHANGED <<external, receipt, rows, incidents, history>>
    BY <1>3 DEF CancelPending
  <2> QED
    BY <2>1, <2>2, <2>3, <2>4, RequestInv
<1> QED
  BY <1>2, <1>3 DEF Upgrade, Downgrade

\* The local state that processing an event starts with.
LEMMA ProcessingOK ==
  ASSUME IInv, NEW e \in Events, NEW k \in {"event", "replay"}, event[e] # "none"
  PROVE  Processing(k, e) \in Handler /\ HandlerOK(Processing(k, e))
<1> DEFINE p == IF e = 0 THEN "intent" ELSE "linked"
<1>1. p \in Labels /\ k \in Kinds /\ p \in {"intent", "linked"}
  BY DEF Labels, Kinds
<1>2. Processing(k, e) = [Idle EXCEPT !.pc = p, !.kind = k, !.event = e, !.version = e]
  BY DEF Processing
<1>3. (p = "intent" => e = 0) /\ (p = "linked" => e # 0)
  OBVIOUS
<1> HIDE DEF p
<1> DEFINE q == [Idle EXCEPT !.pc = p, !.kind = k, !.event = e, !.version = e]
<1>4. q \in Handler
  BY <1>1, IdleOK, ProcessingTyped
<1>5. q.pc = p /\ q.kind = k /\ q.event = e /\ q.version = e
  BY IdleOK DEF Handler
<1>6. p = "linked" => e \in 1..Len(log)
  BY <1>3, SequencesOK, BoundsAssumption DEF IInv, TablesOK, Events
<1>7. HandlerOK(q)
  BY <1>1, <1>3, <1>5, <1>6 DEF HandlerOK
<1> HIDE DEF q
<1> QED
  BY <1>2, <1>4, <1>7 DEF q

\* An operator replays an event.
LEMMA ReplayInv ==
  ASSUME IInv, NEW h \in Handlers, NEW e \in Events, Replay(h, e)
  PROVE  IInv'
<1>1. event[e] # "none"
  BY DEF Replay, IInv, TablesOK
<1>2. Processing("replay", e) \in Handler /\ HandlerOK(Processing("replay", e))
  BY <1>1, ProcessingOK
<1>3. handler' = [handler EXCEPT ![h] = Processing("replay", e)]
  BY DEF Replay, Begin
<1>4. incidents' \in 0..MaxIncidents
  BY BoundsAssumption DEF Replay, IInv, TypeOK
<1> QED
  BY <1>2, <1>3, <1>4, HandlerStepInv DEF Replay

\* A refused change ends its request.
LEMMA RefuseChangeInv == ASSUME IInv, NEW h \in Handlers, RefuseChange(h) PROVE IInv'
<1>1. handler' = [handler EXCEPT ![h] = Idle]
  BY DEF RefuseChange, End
<1>2. incidents' \in 0..MaxIncidents
  BY DEF RefuseChange, IInv, TypeOK
<1> QED
  BY <1>1, <1>2, IdleOK, HandlerStepInv DEF RefuseChange

-----------------------------------------------------------------------------
(* The steps of a handler that write.                                      *)

\* What a step that moves one handler leaves to show.
LEMMA WritingStepInv ==
  ASSUME IInv, NEW h \in Handlers, NEW q \in Handler,
         handler' = [handler EXCEPT ![h] = q],
         HandlerOK(handler[h])',
         handler' \in [Handlers -> Handler] => TypeOK',
         TablesOK', Grows
  PROVE  IInv'
<1>1. /\ handler' \in [Handlers -> Handler]
      /\ \A g \in Handlers \ {h} : handler'[g] = handler[g]
  BY HandlerSet DEF IInv
<1> QED
  BY <1>1, StepInv

\* The same for a step that ends its handler's job.
LEMMA EndingStepInv ==
  ASSUME IInv, NEW h \in Handlers, End(h),
         handler' \in [Handlers -> Handler] => TypeOK',
         TablesOK', Grows
  PROVE  IInv'
<1>1. handler' = [handler EXCEPT ![h] = Idle] /\ Idle \in Handler
  BY IdleOK DEF End
<1>2. handler'[h] = Idle
  BY <1>1, HandlerSet DEF IInv
<1>3. HandlerOK(handler[h])'
  BY <1>2, IdleOK DEF HandlerOK
<1> QED
  BY <1>1, <1>3, WritingStepInv

\* A duplicate is answered.
LEMMA AnswerDuplicateInv ==
  ASSUME IInv, NEW h \in Handlers, NEW e \in Events, AnswerDuplicate(h, e)
  PROVE  IInv'
<1>1. event' \in [Events -> {"none", "pending", "acked"}]
  BY DEF AnswerDuplicate, IInv, TypeOK
<1>2. TypeOK'
  BY <1>1 DEF AnswerDuplicate, IInv, TypeOK, history
<1>3. TablesOK'
  BY DEF AnswerDuplicate, IInv, TypeOK, TablesOK, history
<1>4. Grows
  BY SequencesOK DEF AnswerDuplicate, IInv, TypeOK, Grows, history
<1> QED
  BY <1>2, <1>3, <1>4, StepInv DEF AnswerDuplicate

\* A receipt is stored before the event is processed.
LEMMA StoreReceiptInv ==
  ASSUME IInv, NEW h \in Handlers, NEW e \in Events, StoreReceipt(h, e)
  PROVE  IInv'
<1> DEFINE q == Processing("event", e)
<1>1. event[e] # "none"
  BY DEF StoreReceipt
<1>2. q \in Handler /\ HandlerOK(q)
  BY <1>1, ProcessingOK
<1> HIDE DEF q
<1>3. handler' = [handler EXCEPT ![h] = q]
  BY DEF StoreReceipt, Begin, q
<1>4. handler'[h] = q
  BY <1>2, <1>3, HandlerSet DEF IInv
<1>5. HandlerOK(handler[h])'
  BY <1>2, <1>4 DEF HandlerOK, StoreReceipt, external, history
<1>6. receipt' \in [Events -> {"none", "stored", "failed", "processed"}]
  BY DEF StoreReceipt, IInv, TypeOK
<1>7. handler' \in [Handlers -> Handler] => TypeOK'
  BY <1>6 DEF StoreReceipt, IInv, TypeOK, external, history
<1>8. TablesOK'
  BY <1>1 DEF StoreReceipt, IInv, TypeOK, TablesOK, external, history
<1>9. Grows
  BY SequencesOK DEF StoreReceipt, IInv, Grows, external, history
<1> QED
  BY <1>2, <1>3, <1>5, <1>7, <1>8, <1>9, WritingStepInv

\* A processed event is marked and answered.
LEMMA MarkInv == ASSUME IInv, NEW h \in Handlers, Mark(h) PROVE IInv'
<1> DEFINE e == handler[h].event
<1>1. handler[h] \in Handler /\ HandlerOK(handler[h]) /\ handler[h].pc = "mark"
  BY HandlerHere DEF Mark
<1>2. e \in Events /\ e \in applied /\ event[e] # "none"
  BY <1>1 DEF HandlerOK, Handler
<1> HIDE DEF e
<1>3. receipt' = [receipt EXCEPT ![e] = "processed"]
  BY DEF Mark, e
<1>4. event' = event \/ event' = [event EXCEPT ![e] = "acked"]
  BY DEF Mark, e
<1>5. /\ receipt' \in [Events -> {"none", "stored", "failed", "processed"}]
      /\ event' \in [Events -> {"none", "pending", "acked"}]
  BY <1>2, <1>3, <1>4 DEF IInv, TypeOK
<1>6. handler' \in [Handlers -> Handler] => TypeOK'
  BY <1>5 DEF Mark, IInv, TypeOK, history
<1>7. TablesOK'
  BY <1>2, <1>3, <1>4 DEF Mark, IInv, TypeOK, TablesOK, history
<1>8. Grows
  BY <1>2, <1>4, SequencesOK DEF Mark, IInv, TypeOK, Grows, history
<1> QED
  BY <1>6, <1>7, <1>8, EndingStepInv DEF Mark

\* A failed event leaves its receipt, or marks it.
LEMMA FailedOK ==
  ASSUME IInv, NEW h \in Handlers, Failed(h) \/ UNCHANGED receipt
  PROVE  /\ receipt' \in [Events -> {"none", "stored", "failed", "processed"}]
         /\ \A e \in Events : /\ receipt'[e] = "none" <=> receipt[e] = "none"
                              /\ receipt'[e] = "processed" => receipt[e] = "processed"
<1>1. handler[h].event \in Events
  BY HandlerHere DEF Handler
<1> QED
  BY <1>1 DEF Failed, IInv, TypeOK

\* A refused write ends the job.
LEMMA RefuseRowInv == ASSUME IInv, NEW h \in Handlers, RefuseRow(h) PROVE IInv'
<1>1. /\ receipt' \in [Events -> {"none", "stored", "failed", "processed"}]
      /\ \A e \in Events : /\ receipt'[e] = "none" <=> receipt[e] = "none"
                           /\ receipt'[e] = "processed" => receipt[e] = "processed"
  BY FailedOK DEF RefuseRow
<1>2. handler' \in [Handlers -> Handler] => TypeOK'
  BY <1>1 DEF RefuseRow, IInv, TypeOK, external
<1>3. TablesOK'
  BY <1>1 DEF RefuseRow, IInv, TablesOK, external
<1>4. Grows
  BY SequencesOK DEF RefuseRow, IInv, Grows, external
<1> QED
  BY <1>2, <1>3, <1>4, EndingStepInv DEF RefuseRow

\* A job is cut short.
LEMMA CutShortInv == ASSUME IInv, NEW h \in Handlers, CutShort(h) PROVE IInv'
<1>1. /\ receipt' \in [Events -> {"none", "stored", "failed", "processed"}]
      /\ \A e \in Events : /\ receipt'[e] = "none" <=> receipt[e] = "none"
                           /\ receipt'[e] = "processed" => receipt[e] = "processed"
  BY FailedOK DEF CutShort
<1>2. incidents' \in 0..MaxIncidents
  BY BoundsAssumption DEF CutShort, IInv, TypeOK
<1>3. outdated' \in BOOLEAN /\ mislaid' \in BOOLEAN
  BY DEF CutShort
<1>4. handler' \in [Handlers -> Handler] => TypeOK'
  BY <1>1, <1>2, <1>3 DEF CutShort, IInv, TypeOK, external
<1>5. TablesOK'
  BY <1>1 DEF CutShort, IInv, TablesOK, external
<1>6. Grows
  BY SequencesOK DEF CutShort, IInv, Grows, external
<1> QED
  BY <1>4, <1>5, <1>6, EndingStepInv DEF CutShort

\* A schedule is released, or the request fails.
LEMMA ReleaseInv == ASSUME IInv, NEW h \in Handlers, Release(h) PROVE IInv'
<1>1. handler[h] \in Handler /\ HandlerOK(handler[h]) /\ handler[h].pc = "release"
  BY HandlerHere DEF Release
<1>2. scheduled' \in BOOLEAN /\ (scheduled' => scheduled)
  BY DEF Release, IInv, TypeOK
<1>3. handler' \in [Handlers -> Handler] => TypeOK'
  BY <1>2 DEF Release, IInv, TypeOK, history
<1>4. TablesOK'
  BY <1>2 DEF Release, IInv, TablesOK, history
<1>5. Grows
  BY SequencesOK DEF Release, IInv, Grows, history
<1>6. CASE End(h)
  BY <1>3, <1>4, <1>5, <1>6, EndingStepInv
<1>7. CASE ~End(h)
  <2> DEFINE p == CASE handler[h].kind = "upgrade"   -> "change"
                    [] handler[h].kind = "downgrade" -> "schedule"
                    [] handler[h].kind = "cancel"    -> "clear"
  <2> DEFINE q == [handler[h] EXCEPT !.pc = p]
  <2>1. handler[h].kind \in {"upgrade", "downgrade", "cancel"}
    BY <1>1 DEF HandlerOK
  <2>2. /\ p \in {"change", "schedule", "clear"}
        /\ p = "change" => handler[h].kind = "upgrade"
        /\ p = "schedule" => handler[h].kind = "downgrade"
    BY <2>1
  <2>3. handler' = [handler EXCEPT ![h].pc = p]
    BY <1>7 DEF Release, Proceed
  <2> HIDE DEF p
  <2>4. q \in Handler
    BY <1>1, <2>2, MovesTyped DEF Labels
  <2>5. q.pc = p /\ q.kind = handler[h].kind
    BY <1>1 DEF Handler
  <2>6. handler' = [handler EXCEPT ![h] = q]
    BY <2>3 DEF IInv, TypeOK
  <2> HIDE DEF q
  <2>7. handler'[h] = q
    BY <2>4, <2>6, HandlerSet DEF IInv
  <2>8. HandlerOK(handler[h])'
    BY <1>1, <2>1, <2>2, <2>5, <2>7 DEF HandlerOK, Release
  <2> QED
    BY <1>3, <1>4, <1>5, <2>4, <2>6, <2>8, WritingStepInv
<1> QED
  BY <1>6, <1>7

\* Stripe changes the plan.
LEMMA ChangeInv == ASSUME IInv, NEW h \in Handlers, Change(h) PROVE IInv'
<1> DEFINE snapshot == [Latest EXCEPT !.plan = "high"]
<1>1. handler[h] \in Handler /\ HandlerOK(handler[h]) /\ handler[h].pc = "change"
  BY HandlerHere DEF Change
<1>2. Announce(snapshot)
  BY DEF Change
<1>3. /\ Len(log) \in Nat /\ Len(log) > 0 /\ Latest \in Snapshot
      /\ handler[h].kind = "upgrade"
  BY <1>1, SequencesOK DEF IInv, HandlerOK
<1>4. snapshot \in Snapshot
  BY <1>3 DEF Snapshot, Plans
<1>5. /\ log' \in Seq(Snapshot) /\ Len(log') = Len(log) + 1 /\ Len(log') <= MaxChanges
      /\ Len(log') \in Events
  BY <1>2, <1>4, Announced
<1> DEFINE q == [handler[h] EXCEPT !.pc = "linked", !.version = Len(log')]
<1>6. q \in Handler
  BY <1>1, <1>5, VersionTyped DEF Labels
<1>7. q.pc = "linked" /\ q.kind = "upgrade" /\ q.version = Len(log')
  BY <1>1, <1>3, <1>5 DEF Handler
<1>8. handler' = [handler EXCEPT ![h] = q]
  BY DEF Change, IInv, TypeOK
<1> HIDE DEF q
<1>9. handler'[h] = q
  BY <1>6, <1>8, HandlerSet DEF IInv
<1>10. HandlerOK(handler[h])'
  BY <1>3, <1>5, <1>7, <1>9 DEF HandlerOK
<1>11. event' \in [Events -> {"none", "pending", "acked"}]
  BY <1>5 DEF Change, IInv, TypeOK
<1>12. handler' \in [Handlers -> Handler] => TypeOK'
  BY <1>5, <1>11 DEF Change, IInv, TypeOK, history
<1>13. TablesOK'
  BY <1>3, <1>5 DEF Change, IInv, TypeOK, TablesOK, Events, history
<1>14. Grows
  BY <1>3, <1>5, SequencesOK DEF Change, IInv, TypeOK, Grows, history
<1> QED
  BY <1>6, <1>8, <1>10, <1>12, <1>13, <1>14, WritingStepInv

\* A downgrade is scheduled.
LEMMA ScheduleInv == ASSUME IInv, NEW h \in Handlers, Schedule(h) PROVE IInv'
<1>1. handler[h] \in Handler /\ HandlerOK(handler[h]) /\ handler[h].pc = "schedule"
  BY HandlerHere DEF Schedule
<1>2. schedules' \in Schedules
  BY BoundsAssumption DEF Schedule, IInv, TypeOK, Schedules
<1> DEFINE q == [handler[h] EXCEPT !.pc = "record", !.seen = schedules']
<1>3. q \in Handler
  BY <1>1, <1>2, SeenTyped DEF Labels
<1>4. q.pc = "record" /\ q.kind = handler[h].kind /\ q.event = handler[h].event
  BY <1>1 DEF Handler
<1>5. handler' = [handler EXCEPT ![h] = q]
  BY DEF Schedule, IInv, TypeOK
<1> HIDE DEF q
<1>6. handler'[h] = q
  BY <1>3, <1>5, HandlerSet DEF IInv
<1>7. HandlerOK(handler[h])'
  BY <1>1, <1>4, <1>6 DEF HandlerOK, Schedule
<1>8. mislaid' \in BOOLEAN
  BY DEF Schedule
<1>9. handler' \in [Handlers -> Handler] => TypeOK'
  BY <1>2, <1>8 DEF Schedule, IInv, TypeOK
<1>10. TablesOK'
  BY <1>1 DEF Schedule, IInv, TablesOK, HandlerOK
<1>11. Grows
  BY SequencesOK DEF Schedule, IInv, Grows
<1> QED
  BY <1>3, <1>5, <1>7, <1>9, <1>10, <1>11, WritingStepInv

\* The pending change of a row is set or cleared.
LEMMA PendingWritten ==
  ASSUME IInv, NEW i \in Nat, NEW s \in Schedules,
         rows' = [rows EXCEPT ![i].pending = s]
  PROVE  /\ rows' \in Seq(Row)
         /\ Len(rows') = Len(rows)
         /\ \A j \in 1..Len(rows) : rows'[j].linked = rows[j].linked
<1>1. /\ rows \in Seq(Row) /\ Len(rows) \in Nat /\ rows \in [1..Len(rows) -> Row]
  BY LenProperties DEF IInv, TypeOK
<1>2. CASE i \in 1..Len(rows)
  <2> DEFINE r == [rows[i] EXCEPT !.pending = s]
  <2>1. rows[i] \in Row
    BY <1>1, <1>2
  <2>2. r \in Row /\ r.linked = rows[i].linked
    BY <2>1 DEF Row
  <2>3. rows' = [rows EXCEPT ![i] = r]
    BY <1>1
  <2> HIDE DEF r
  <2> QED
    BY <1>1, <1>2, <2>2, <2>3, ExceptSeq
<1>3. CASE i \notin 1..Len(rows)
  <2>1. rows' = rows
    BY <1>1, <1>3
  <2> QED
    BY <1>1, <2>1
<1> QED
  BY <1>2, <1>3

\* What follows for the invariant.
LEMMA PendingInv ==
  ASSUME IInv, NEW h \in Handlers, NEW i \in Nat, NEW s \in Schedules,
         rows' = [rows EXCEPT ![i].pending = s],
         mislaid' \in BOOLEAN, End(h),
         UNCHANGED <<external, receipt, incidents, applied, outdated>>
  PROVE  IInv'
<1>1. /\ rows' \in Seq(Row)
      /\ Len(rows') = Len(rows)
      /\ \A j \in 1..Len(rows) : rows'[j].linked = rows[j].linked
  BY PendingWritten
<1>2. handler' \in [Handlers -> Handler] => TypeOK'
  BY <1>1 DEF IInv, TypeOK, external
<1>3. TablesOK'
  BY <1>1 DEF IInv, TablesOK, external
<1>4. Grows
  BY <1>1, SequencesOK DEF IInv, Grows, external
<1> QED
  BY <1>2, <1>3, <1>4, EndingStepInv

\* A schedule is recorded, or the record of one removed.
LEMMA RecordsInv ==
  ASSUME IInv, NEW h \in Handlers, Record(h) \/ Clear(h)
  PROVE  IInv'
<1>1. handler[h].row \in Nat /\ handler[h].seen \in Schedules /\ 0 \in Schedules
  BY HandlerHere, BoundsAssumption DEF Handler, Schedules
<1>2. CASE Record(h)
  <2>1. mislaid' \in BOOLEAN
    BY <1>2 DEF Record
  <2> QED
    BY <1>1, <1>2, <2>1, PendingInv DEF Record
<1>3. CASE Clear(h)
  <2>1. mislaid' \in BOOLEAN
    BY <1>3 DEF Clear
  <2> QED
    BY <1>1, <1>3, <2>1, PendingInv DEF Clear
<1> QED
  BY <1>2, <1>3

\* A row is added, or one is replaced.
LEMMA RowPut ==
  ASSUME IInv, NEW i \in 0..Len(rows), NEW r \in Row,
         rows' = IF i = 0 THEN Append(rows, r) ELSE [rows EXCEPT ![i] = r]
  PROVE  /\ rows' \in Seq(Row)
         /\ Len(rows) <= Len(rows')
         /\ \A j \in 1..Len(rows') :
              rows'[j].linked => r.linked \/ (j \in 1..Len(rows) /\ rows[j].linked)
<1>1. rows \in Seq(Row) /\ Len(rows) \in Nat
  BY SequencesOK DEF IInv, TypeOK
<1>2. CASE i = 0
  <2>1. rows' \in Seq(Row) /\ Len(rows') = Len(rows) + 1
    BY <1>1, <1>2, AppendProperties
  <2>2. \A j \in 1..Len(rows') : rows'[j] = IF j = Len(rows) + 1 THEN r ELSE rows[j]
    BY <1>1, <1>2, <2>1, AppendProperties
  <2> QED
    BY <1>1, <2>1, <2>2
<1>3. CASE i # 0
  <2>1. i \in 1..Len(rows) /\ rows' = [rows EXCEPT ![i] = r]
    BY <1>1, <1>3
  <2> QED
    BY <1>1, <2>1, ExceptSeq
<1> QED
  BY <1>2, <1>3

\* The answer of a processed event.
LEMMA AnswerOK ==
  ASSUME IInv, NEW h \in Handlers, Answer(h), FromStripe(h),
         applied' = applied \union {handler[h].event}, UNCHANGED event
  PROVE  /\ HandlerOK(handler[h])'
         /\ \E q \in Handler : handler' = [handler EXCEPT ![h] = q]
<1> DEFINE k == handler[h].kind
<1> DEFINE e == handler[h].event
<1>1. handler[h] \in Handler /\ HandlerOK(handler[h])
  BY HandlerHere
<1>2. k \in Kinds /\ e \in Events /\ k \in {"event", "replay"} /\ event[e] # "none"
  BY <1>1 DEF Handler, Kinds, FromStripe, HandlerOK
<1>3. handler' = [handler EXCEPT ![h] = [Idle EXCEPT !.pc = "mark", !.kind = k, !.event = e]]
  BY DEF Answer
<1> HIDE DEF k, e
<1> DEFINE q == [Idle EXCEPT !.pc = "mark", !.kind = k, !.event = e]
<1>4. q \in Handler
  BY <1>2, IdleOK, AnswerTyped DEF Labels
<1>5. q.pc = "mark" /\ q.kind = k /\ q.event = e
  BY IdleOK DEF Handler
<1> HIDE DEF q
<1>6. handler' = [handler EXCEPT ![h] = q]
  BY <1>3 DEF q
<1>7. handler'[h] = q
  BY <1>4, <1>6, HandlerSet DEF IInv
<1>8. e \in applied'
  BY DEF e
<1>9. HandlerOK(handler[h])'
  BY <1>2, <1>5, <1>7, <1>8 DEF HandlerOK
<1> QED
  BY <1>4, <1>6, <1>9

\* An intent is kept: a new row, or the row that was read.
LEMMA KeepIntentInv == ASSUME IInv, NEW h \in Handlers, KeepIntent(h) PROVE IInv'
<1> DEFINE i == handler[h].row
<1>1. /\ handler[h] \in Handler /\ HandlerOK(handler[h]) /\ handler[h].pc = "keep"
      /\ i \in 0..Len(rows)
  BY HandlerHere DEF KeepIntent, HandlerOK
<1>2. PICK plan \in IF FromStripe(h) THEN {session} ELSE Plans :
        /\ rows' = IF i = 0
                   THEN Append(rows, [linked |-> FALSE, status |-> "INACTIVE", plan |-> plan,
                                      pending |-> 0, version |-> 0])
                   ELSE [rows EXCEPT ![i].status = "INACTIVE", ![i].plan = plan]
        /\ session' = plan
  BY DEF KeepIntent
<1>3. FromStripe(h) => handler[h].event = 0 /\ session # NoPlan
  BY <1>1, BoundsAssumption DEF HandlerOK, FromStripe, IInv, TablesOK, Events
<1>4. plan \in Plans /\ plan # NoPlan
  BY <1>2, <1>3 DEF IInv, TypeOK, Plans, NoPlan
<1>5. /\ rows' \in Seq(Row)
      /\ Len(rows) <= Len(rows')
      /\ \A j \in 1..Len(rows') : rows'[j].linked => Len(log) > 0
  <2>1. CASE i = 0
    <3> DEFINE r == [linked |-> FALSE, status |-> "INACTIVE", plan |-> plan,
                     pending |-> 0, version |-> 0]
    <3>1. r \in Row /\ ~r.linked
      BY <1>4, BoundsAssumption DEF Row, Statuses, Schedules, Events
    <3>2. rows' = Append(rows, r)
      BY <1>2, <2>1
    <3> HIDE DEF r
    <3> QED
      BY <1>1, <2>1, <3>1, <3>2, RowPut DEF IInv, TablesOK
  <2>2. CASE i # 0
    <3> DEFINE r == [rows[i] EXCEPT !.status = "INACTIVE", !.plan = plan]
    <3>1. i \in 1..Len(rows) /\ rows[i] \in Row /\ rows \in [1..Len(rows) -> Row]
      BY <1>1, <2>2, SequencesOK, LenProperties DEF IInv, TypeOK
    <3>2. r \in Row /\ r.linked = rows[i].linked
      BY <1>4, <3>1 DEF Row, Statuses
    <3>3. rows' = [rows EXCEPT ![i] = r]
      BY <1>2, <2>2, <3>1
    <3> HIDE DEF r
    <3> QED
      BY <1>1, <2>2, <3>1, <3>2, <3>3, RowPut DEF IInv, TablesOK
  <2> QED
    BY <2>1, <2>2
<1>6. /\ applied \subseteq applied' /\ applied' \subseteq Events
      /\ outdated' \in BOOLEAN
  BY <1>3, BoundsAssumption DEF KeepIntent, IInv, TypeOK, Events
<1>7. handler' \in [Handlers -> Handler] => TypeOK'
  BY <1>2, <1>4, <1>5, <1>6 DEF KeepIntent, IInv, TypeOK
<1>8. TablesOK'
  BY <1>2, <1>4, <1>5, <1>6 DEF KeepIntent, IInv, TablesOK
<1>9. Grows
  BY <1>2, <1>4, <1>5, <1>6, SequencesOK DEF KeepIntent, IInv, Grows
<1>10. CASE FromStripe(h)
  <2>1. Answer(h) /\ applied' = applied \union {handler[h].event} /\ UNCHANGED event
    BY <1>3, <1>10 DEF KeepIntent
  <2> QED
    BY <1>7, <1>8, <1>9, <1>10, <2>1, AnswerOK, WritingStepInv
<1>11. CASE ~FromStripe(h)
  BY <1>7, <1>8, <1>9, <1>11, EndingStepInv DEF KeepIntent
<1> QED
  BY <1>10, <1>11

\* The state that was read is written.
LEMMA WriteRowInv == ASSUME IInv, NEW h \in Handlers, WriteRow(h) PROVE IInv'
<1> DEFINE i == handler[h].row
<1> DEFINE v == handler[h].version
<1>1. /\ handler[h] \in Handler /\ HandlerOK(handler[h]) /\ handler[h].pc = "write"
      /\ i \in 0..Len(rows) /\ v \in 1..Len(log) /\ v \in Events
      /\ handler[h].kind \in {"event", "replay", "sync", "upgrade"}
  BY HandlerHere DEF WriteRow, HandlerOK, Handler
<1>2. log[v] \in Snapshot
  BY <1>1, SequencesOK DEF IInv
<1>3. Len(log) > 0
  BY <1>1, SequencesOK DEF IInv
<1> DEFINE r == Written(h, IF i = 0 THEN 0 ELSE PendingKept(h))
<1>4. r \in Row
  <2>1. 0 \in Schedules /\ (i # 0 => rows[i].pending \in Schedules)
    BY <1>1, SequencesOK, BoundsAssumption DEF IInv, Row, Schedules
  <2>2. (IF i = 0 THEN 0 ELSE PendingKept(h)) \in Schedules
    BY <2>1 DEF PendingKept
  <2> QED
    BY <1>1, <1>2, <2>2 DEF Written, Row, Snapshot
<1>5. rows' = IF i = 0 THEN Append(rows, r) ELSE [rows EXCEPT ![i] = r]
  BY DEF WriteRow, RowsWritten
<1> HIDE DEF r
<1>6. rows' \in Seq(Row) /\ Len(rows) <= Len(rows')
  BY <1>1, <1>4, <1>5, RowPut
<1>7. applied \subseteq applied' /\ applied' \subseteq Events
  BY <1>1 DEF WriteRow, IInv, TypeOK, Handler
<1>8. outdated' \in BOOLEAN /\ mislaid' \in BOOLEAN
  BY DEF WriteRow, WriteHistory
<1>9. handler' \in [Handlers -> Handler] => TypeOK'
  BY <1>6, <1>7, <1>8 DEF WriteRow, IInv, TypeOK, external
<1>10. TablesOK'
  BY <1>3, <1>7 DEF WriteRow, IInv, TablesOK, external
<1>11. Grows
  BY <1>6, <1>7, SequencesOK DEF WriteRow, IInv, Grows, external
<1>12. CASE FromStripe(h)
  <2>1. Answer(h) /\ applied' = applied \union {handler[h].event} /\ UNCHANGED event
    BY <1>12 DEF WriteRow, FromStripe, external
  <2> QED
    BY <1>9, <1>10, <1>11, <1>12, <2>1, AnswerOK, WritingStepInv
<1>13. CASE handler[h].kind = "sync"
  <2>1. End(h)
    BY <1>13 DEF WriteRow, FromStripe
  <2> QED
    BY <1>9, <1>10, <1>11, <2>1, EndingStepInv
<1>14. CASE handler[h].kind = "upgrade"
  <2>1. handler' = [handler EXCEPT ![h].pc = "clear"]
    BY <1>14 DEF WriteRow, FromStripe, Proceed
  <2> DEFINE q == [handler[h] EXCEPT !.pc = "clear"]
  <2>2. q \in Handler
    BY <1>1, MovesTyped DEF Labels
  <2>3. q.pc = "clear" /\ q.kind = "upgrade"
    BY <1>1, <1>14 DEF Handler
  <2>4. handler' = [handler EXCEPT ![h] = q]
    BY <2>1 DEF IInv, TypeOK
  <2> HIDE DEF q
  <2>5. handler'[h] = q
    BY <2>2, <2>4, HandlerSet DEF IInv
  <2>6. HandlerOK(handler[h])'
    BY <2>3, <2>5 DEF HandlerOK
  <2> QED
    BY <1>9, <1>10, <1>11, <2>2, <2>4, <2>6, WritingStepInv
<1> QED
  BY <1>1, <1>12, <1>13, <1>14 DEF FromStripe

-----------------------------------------------------------------------------
\* Every step preserves the inductive invariant.
LEMMA NextIInv == IInv /\ [Next]_vars => IInv'
<1> SUFFICES ASSUME IInv, [Next]_vars PROVE IInv'
  OBVIOUS
<1>1. CASE CompleteCheckout
  BY <1>1, CompleteCheckoutInv
<1>2. CASE StatusChanges
  BY <1>2, StatusChangesInv
<1>3. CASE ScheduleRuns
  BY <1>3, ScheduleRunsInv
<1>4. ASSUME NEW h \in Handlers, Checkout(h) PROVE IInv'
  BY <1>4, CheckoutInv
<1>5. ASSUME NEW h \in Handlers, Upgrade(h) \/ Downgrade(h) \/ CancelPending(h) PROVE IInv'
  BY <1>5, RequestsInv
<1>6. ASSUME NEW h \in Handlers, Refresh(h) \/ OperatorSync(h) PROVE IInv'
  <2>1. Sync(h) /\ incidents' \in 0..MaxIncidents
    BY <1>6, BoundsAssumption DEF Refresh, OperatorSync, IInv, TypeOK
  <2> QED
    BY <2>1, SyncInv
<1>7. ASSUME NEW h \in Handlers, Handle(h) PROVE IInv'
  BY <1>7, FindIntentInv, KeepIntentInv, MarkInv, FindLinkedInv, FindUnlinkedInv, WriteRowInv,
     RefuseRowInv, ReleaseInv, ChangeInv, RefuseChangeInv, ScheduleInv, RecordsInv
     DEF Handle
<1>8. ASSUME NEW h \in Handlers, CutShort(h) PROVE IInv'
  BY <1>8, CutShortInv
<1>9. ASSUME NEW h \in Handlers, NEW e \in Events, Deliver(h, e) \/ Replay(h, e) PROVE IInv'
  BY <1>9, AnswerDuplicateInv, StoreReceiptInv, ReplayInv DEF Deliver
<1>10. CASE UNCHANGED vars
  <2>1. TypeOK'
    BY <1>10 DEF IInv, TypeOK, vars, external, history
  <2>2. TablesOK'
    BY <1>10 DEF IInv, TablesOK, vars, external, history
  <2>3. Grows
    BY <1>10, SequencesOK DEF IInv, Grows, vars, external, history
  <2> QED
    BY <1>10, <2>1, <2>2, <2>3, StepInv DEF vars
<1> QED
  BY <1>1, <1>2, <1>3, <1>4, <1>5, <1>6, <1>7, <1>8, <1>9, <1>10 DEF Next

\* The inductive invariant holds in every reachable state.
THEOREM Invariant == Spec => []IInv
BY InitIInv, NextIInv, PTL DEF Spec

\* The tables and the handlers have their types: in particular a subscription
\* never takes more states, nor a schedule a higher id, than Stripe has given.
THEOREM TypeCorrect == Spec => []TypeOK
<1>1. IInv => TypeOK
  BY DEF IInv
<1> QED
  BY <1>1, Invariant, PTL

\* An event that Stripe stops repeating was written, or its receipt is still
\* stored or failed, where an operator finds it.
THEOREM NothingLost == Spec => []NothingIsLostSilently
<1>1. IInv => NothingIsLostSilently
  BY DEF IInv, TypeOK, TablesOK, NothingIsLostSilently
<1> QED
  BY <1>1, Invariant, PTL

-----------------------------------------------------------------------------
(* What a step does to the log, the rows and the other handlers.           *)

\* The steps of one handler.
Acts(h) ==
  \/ Checkout(h) \/ Upgrade(h) \/ Downgrade(h) \/ CancelPending(h)
  \/ Refresh(h) \/ OperatorSync(h)
  \/ Handle(h) \/ CutShort(h)
  \/ \E e \in Events : Deliver(h, e) \/ Replay(h, e)

\* A handler moves no other.
LEMMA OthersStay ==
  ASSUME IInv, NEW h \in Handlers, Acts(h), NEW g \in Handlers, g # h
  PROVE  handler'[g] = handler[g]
<1>1. CASE Checkout(h)
  BY <1>1 DEF IInv, TypeOK, Checkout, Begin
<1>2. CASE Upgrade(h) \/ Downgrade(h) \/ CancelPending(h)
  BY <1>2 DEF IInv, TypeOK, Upgrade, Downgrade, CancelPending, ChangePlan, Begin
<1>3. CASE Refresh(h) \/ OperatorSync(h)
  BY <1>3 DEF IInv, TypeOK, Refresh, OperatorSync, Sync, Begin
<1>4. CASE FindIntent(h) \/ KeepIntent(h) \/ Mark(h)
  BY <1>4 DEF IInv, TypeOK, FindIntent, KeepIntent, Mark, Answer, End
<1>5. CASE FindLinked(h) \/ FindUnlinked(h)
  BY <1>5 DEF IInv, TypeOK, FindLinked, FindUnlinked, Proceed
<1>6. CASE WriteRow(h)
  <2>1. Answer(h) \/ End(h) \/ Proceed(h, "clear")
    BY <1>6, HandlerHere DEF WriteRow, HandlerOK, FromStripe
  <2> QED
    BY <2>1 DEF IInv, TypeOK, Answer, End, Proceed
<1>7. CASE RefuseRow(h) \/ RefuseChange(h) \/ Record(h) \/ Clear(h) \/ CutShort(h)
  BY <1>7 DEF IInv, TypeOK, RefuseRow, RefuseChange, Record, Clear, CutShort, End
<1>8. CASE Release(h)
  BY <1>8 DEF IInv, TypeOK, Release, Proceed, End
<1>9. CASE Change(h) \/ Schedule(h)
  BY <1>9 DEF IInv, TypeOK, Change, Schedule
<1>10. CASE \E e \in Events : Deliver(h, e) \/ Replay(h, e)
  BY <1>10 DEF IInv, TypeOK, Deliver, AnswerDuplicate, StoreReceipt, Replay, Begin
<1> QED
  BY <1>1, <1>2, <1>3, <1>4, <1>5, <1>6, <1>7, <1>8, <1>9, <1>10 DEF Acts, Handle

\* A new state is appended; the others stay.
LEMMA LogGrows ==
  ASSUME IInv, NEW snapshot \in Snapshot, Announce(snapshot)
  PROVE  /\ Len(log) \in Nat
         /\ Len(log') = Len(log) + 1
         /\ \A v \in 1..Len(log) : log'[v] = log[v]
         /\ log'[Len(log')] = snapshot
         /\ Latest' = snapshot
<1>1. log \in Seq(Snapshot) /\ Len(log) \in Nat
  BY SequencesOK DEF IInv, TypeOK
<1>2. /\ Len(log') = Len(log) + 1
      /\ \A v \in 1..Len(log) : log'[v] = log[v]
      /\ log'[Len(log')] = snapshot
  BY <1>1, AppendProperties DEF Announce
<1> QED
  BY <1>1, <1>2 DEF Latest

\* A row is added, or one is replaced: the place k that is written.
LEMMA RowPlaced ==
  ASSUME IInv, NEW i \in 0..Len(rows), NEW r \in Row,
         rows' = IF i = 0 THEN Append(rows, r) ELSE [rows EXCEPT ![i] = r]
  PROVE  \E k \in 1..Len(rows') :
           /\ k = IF i = 0 THEN Len(rows) + 1 ELSE i
           /\ rows'[k] = r
           /\ \A j \in 1..Len(rows') : j # k => j \in 1..Len(rows) /\ rows'[j] = rows[j]
           /\ \A j \in 1..Len(rows) : j \in 1..Len(rows') /\ (j # k => rows'[j] = rows[j])
<1>1. rows \in Seq(Row) /\ Len(rows) \in Nat
  BY SequencesOK DEF IInv, TypeOK
<1>2. CASE i = 0
  <2>1. rows' \in Seq(Row) /\ Len(rows') = Len(rows) + 1
    BY <1>1, <1>2, AppendProperties
  <2>2. \A j \in 1..Len(rows') : rows'[j] = IF j = Len(rows) + 1 THEN r ELSE rows[j]
    BY <1>1, <1>2, <2>1, AppendProperties
  <2> QED
    BY <1>1, <1>2, <2>1, <2>2
<1>3. CASE i # 0
  <2>1. i \in 1..Len(rows) /\ rows' = [rows EXCEPT ![i] = r]
    BY <1>1, <1>3
  <2> QED
    BY <1>1, <1>3, <2>1, ExceptSeq
<1> QED
  BY <1>2, <1>3

\* A sync writes one row, the only linked one from now on.
LEMMA RowOfSync ==
  ASSUME IInv, NEW h \in Handlers, WriteRow(h)
  PROVE  \E k \in 1..Len(rows') :
           /\ k = IF handler[h].row = 0 THEN Len(rows) + 1 ELSE handler[h].row
           /\ rows'[k] = Written(h, IF handler[h].row = 0 THEN 0 ELSE PendingKept(h))
           /\ \A j \in 1..Len(rows') : j # k => j \in 1..Len(rows) /\ rows'[j] = rows[j]
           /\ \A j \in 1..Len(rows) : j \in 1..Len(rows') /\ (j # k => rows'[j] = rows[j])
           /\ \A j \in 1..Len(rows') : j # k => ~rows'[j].linked
<1> DEFINE i == handler[h].row
<1> DEFINE v == handler[h].version
<1>1. /\ handler[h] \in Handler /\ i \in 0..Len(rows) /\ v \in 1..Len(log) /\ v \in Events
  BY HandlerHere DEF WriteRow, HandlerOK, Handler
<1>2. log[v] \in Snapshot
  BY <1>1, SequencesOK DEF IInv
<1> DEFINE r == Written(h, IF i = 0 THEN 0 ELSE PendingKept(h))
<1>3. r \in Row
  <2>1. 0 \in Schedules /\ (i # 0 => rows[i].pending \in Schedules)
    BY <1>1, SequencesOK, BoundsAssumption DEF IInv, Row, Schedules
  <2>2. (IF i = 0 THEN 0 ELSE PendingKept(h)) \in Schedules
    BY <2>1 DEF PendingKept
  <2> QED
    BY <1>1, <1>2, <2>2 DEF Written, Row, Snapshot
<1>4. rows' = IF i = 0 THEN Append(rows, r) ELSE [rows EXCEPT ![i] = r]
  BY DEF WriteRow, RowsWritten
<1>5. \A j \in 1..Len(rows) : j # i => ~rows[j].linked
  BY SequencesOK DEF WriteRow, Linked, IInv
<1> HIDE DEF r
<1>6. PICK k \in 1..Len(rows') :
        /\ k = IF i = 0 THEN Len(rows) + 1 ELSE i
        /\ rows'[k] = r
        /\ \A j \in 1..Len(rows') : j # k => j \in 1..Len(rows) /\ rows'[j] = rows[j]
        /\ \A j \in 1..Len(rows) : j \in 1..Len(rows') /\ (j # k => rows'[j] = rows[j])
  BY <1>1, <1>3, <1>4, RowPlaced
<1>7. \A j \in 1..Len(rows') : j # k => ~rows'[j].linked
  BY <1>5, <1>6, SequencesOK DEF IInv
<1> QED
  BY <1>6, <1>7 DEF r

\* The end of a checkout writes one row: a new intent, or the row it read,
\* which stays linked or unlinked and keeps its pending change.
LEMMA RowOfIntent ==
  ASSUME IInv, NEW h \in Handlers, KeepIntent(h)
  PROVE  \E k \in 1..Len(rows') :
           /\ k = IF handler[h].row = 0 THEN Len(rows) + 1 ELSE handler[h].row
           /\ rows'[k].status = "INACTIVE"
           /\ IF k \in 1..Len(rows)
              THEN rows'[k].linked = rows[k].linked /\ rows'[k].pending = rows[k].pending
              ELSE ~rows'[k].linked
           /\ \A j \in 1..Len(rows') : j # k => j \in 1..Len(rows) /\ rows'[j] = rows[j]
           /\ \A j \in 1..Len(rows) : j \in 1..Len(rows') /\ (j # k => rows'[j] = rows[j])
<1> DEFINE i == handler[h].row
<1>1. handler[h] \in Handler /\ HandlerOK(handler[h]) /\ handler[h].pc = "keep" /\ i \in 0..Len(rows)
  BY HandlerHere DEF KeepIntent, HandlerOK
<1>2. PICK plan \in IF FromStripe(h) THEN {session} ELSE Plans :
        rows' = IF i = 0
                THEN Append(rows, [linked |-> FALSE, status |-> "INACTIVE", plan |-> plan,
                                   pending |-> 0, version |-> 0])
                ELSE [rows EXCEPT ![i].status = "INACTIVE", ![i].plan = plan]
  BY DEF KeepIntent
<1>3. FromStripe(h) => session # NoPlan
  BY <1>1, BoundsAssumption DEF HandlerOK, FromStripe, IInv, TablesOK, Events
<1>4. plan \in Plans
  BY <1>2, <1>3 DEF IInv, TypeOK
<1>5. Len(rows) \in Nat
  BY SequencesOK DEF IInv
<1>6. CASE i = 0
  <2> DEFINE r == [linked |-> FALSE, status |-> "INACTIVE", plan |-> plan,
                   pending |-> 0, version |-> 0]
  <2>1. r \in Row /\ ~r.linked /\ r.status = "INACTIVE"
    BY <1>4, BoundsAssumption DEF Row, Statuses, Schedules, Events
  <2>2. rows' = IF i = 0 THEN Append(rows, r) ELSE [rows EXCEPT ![i] = r]
    BY <1>2, <1>6
  <2> HIDE DEF r
  <2> QED
    BY <1>1, <1>5, <1>6, <2>1, <2>2, RowPlaced
<1>7. CASE i # 0
  <2> DEFINE r == [rows[i] EXCEPT !.status = "INACTIVE", !.plan = plan]
  <2>1. i \in 1..Len(rows) /\ rows[i] \in Row /\ rows \in [1..Len(rows) -> Row]
    BY <1>1, <1>7, SequencesOK, LenProperties DEF IInv, TypeOK
  <2>2. /\ r \in Row /\ r.linked = rows[i].linked /\ r.status = "INACTIVE"
        /\ r.pending = rows[i].pending
    BY <1>4, <2>1 DEF Row, Statuses
  <2>3. rows' = IF i = 0 THEN Append(rows, r) ELSE [rows EXCEPT ![i] = r]
    BY <1>2, <1>7, <2>1
  <2> HIDE DEF r
  <2>4. PICK k \in 1..Len(rows') :
          /\ k = IF i = 0 THEN Len(rows) + 1 ELSE i
          /\ rows'[k] = r
          /\ \A j \in 1..Len(rows') : j # k => j \in 1..Len(rows) /\ rows'[j] = rows[j]
          /\ \A j \in 1..Len(rows) : j \in 1..Len(rows') /\ (j # k => rows'[j] = rows[j])
    BY <1>1, <2>2, <2>3, RowPlaced
  <2>5. k = i
    BY <1>7, <2>4
  <2> QED
    BY <1>7, <2>1, <2>2, <2>4, <2>5
<1> QED
  BY <1>6, <1>7

\* A recorded or cleared schedule changes the pending change of one row.
LEMMA RowOfRecord ==
  ASSUME IInv, NEW i \in Nat, NEW s \in Schedules,
         rows' = [rows EXCEPT ![i].pending = s]
  PROVE  /\ Len(rows') = Len(rows)
         /\ \A j \in 1..Len(rows) :
              /\ rows'[j].linked = rows[j].linked
              /\ rows'[j].status = rows[j].status
              /\ rows'[j].plan = rows[j].plan
              /\ rows'[j].version = rows[j].version
              /\ rows'[j].pending = IF j = i THEN s ELSE rows[j].pending
<1>1. /\ rows \in Seq(Row) /\ Len(rows) \in Nat /\ rows \in [1..Len(rows) -> Row]
  BY LenProperties DEF IInv, TypeOK
<1>2. CASE i \in 1..Len(rows)
  <2> DEFINE r == [rows[i] EXCEPT !.pending = s]
  <2>1. rows[i] \in Row
    BY <1>1, <1>2
  <2>2. /\ r \in Row /\ r.linked = rows[i].linked /\ r.status = rows[i].status
        /\ r.plan = rows[i].plan /\ r.version = rows[i].version /\ r.pending = s
    BY <2>1 DEF Row
  <2>3. rows' = [rows EXCEPT ![i] = r]
    BY <1>1
  <2> HIDE DEF r
  <2> QED
    BY <1>1, <1>2, <2>2, <2>3, ExceptSeq
<1>3. CASE i \notin 1..Len(rows)
  <2>1. rows' = rows
    BY <1>1, <1>3
  <2> QED
    BY <1>1, <1>3, <2>1
<1> QED
  BY <1>2, <1>3

\* The two steps that set or clear a pending change.
LEMMA RecordRows ==
  ASSUME IInv, NEW h \in Handlers, Record(h) \/ Clear(h)
  PROVE  /\ Len(rows') = Len(rows)
         /\ \A j \in 1..Len(rows) :
              /\ rows'[j].linked = rows[j].linked
              /\ rows'[j].status = rows[j].status
              /\ rows'[j].plan = rows[j].plan
              /\ rows'[j].version = rows[j].version
              /\ rows'[j].pending =
                   IF j = handler[h].row
                   THEN IF Record(h) THEN handler[h].seen ELSE 0
                   ELSE rows[j].pending
<1>1. handler[h].row \in Nat /\ handler[h].seen \in Schedules /\ 0 \in Schedules
  BY HandlerHere, BoundsAssumption DEF Handler, Schedules
<1>2. CASE Record(h)
  BY <1>1, <1>2, RowOfRecord DEF Record
<1>3. CASE Clear(h)
  <2>1. ~Record(h)
    BY <1>3 DEF Clear, Record
  <2> QED
    BY <1>1, <1>3, <2>1, RowOfRecord DEF Clear
<1> QED
  BY <1>2, <1>3

-----------------------------------------------------------------------------
(* A subscription that lives at Stripe is served.                          *)

\* An ended subscription stays ended, and no row says CANCELED before that.
LifeOK ==
  /\ \A v \in 1..Len(log) : log[v].status = "CANCELED" => v = Len(log)
  /\ scheduled => schedules > 0 /\ Latest.status \in Live
  /\ \A i \in 1..Len(rows) :
       /\ rows[i].status # "INACTIVE" => rows[i].linked
       /\ rows[i].status = "CANCELED" => Latest.status = "CANCELED"

\* The steps in which the subscription takes a new state.
StateStep ==
  CompleteCheckout \/ StatusChanges \/ ScheduleRuns \/ \E h \in Handlers : Change(h)

\* The new state: never after an end; where a schedule stays active the
\* subscription is live, on the plan it had or on the high one.
LEMMA StateAnnounced ==
  ASSUME IInv, LifeOK, StateStep
  PROVE  \E snapshot \in Snapshot :
           /\ Announce(snapshot)
           /\ \/ event' = [event EXCEPT ![Len(log')] = "pending"]
              \/ event' = [event EXCEPT ![0] = "pending", ![Len(log')] = "pending"]
           /\ Len(log) > 0 => Latest.status # "CANCELED"
           /\ scheduled' => /\ scheduled /\ snapshot.status \in Live
                            /\ snapshot.plan \in {Latest.plan, "high"}
           /\ UNCHANGED <<schedules, receipt, rows, incidents, history>>
           /\ \A g \in Handlers :
                handler'[g] = handler[g] \/ (handler[g].pc = "change" /\ handler'[g].pc = "linked")
<1>1. CASE CompleteCheckout
  <2>1. PICK status \in {"INACTIVE", "ACTIVE"} :
          Announce([status |-> status, plan |-> session])
    BY <1>1 DEF CompleteCheckout
  <2> DEFINE snapshot == [status |-> status, plan |-> session]
  <2>2. snapshot \in Snapshot
    BY <1>1 DEF CompleteCheckout, IInv, TypeOK, Snapshot, Statuses
  <2>3. Len(log) = 0 /\ ~scheduled
    BY <1>1, EmptySeq DEF CompleteCheckout, IInv, TablesOK
  <2>4. Len(log') = 1
    BY <2>1, <2>2, <2>3, Announced
  <2> HIDE DEF snapshot
  <2>5. Announce(snapshot)
    BY <2>1 DEF snapshot
  <2> QED
    BY <1>1, <2>2, <2>3, <2>4, <2>5 DEF CompleteCheckout
<1>2. CASE StatusChanges
  <2>1. Len(log) > 0 /\ Latest \in Snapshot
    BY <1>2, SequencesOK DEF StatusChanges, IInv
  <2>2. PICK status \in StatusesAfter(Latest.status) :
          /\ Announce([Latest EXCEPT !.status = status])
          /\ scheduled' = (scheduled /\ status # "CANCELED")
    BY <1>2 DEF StatusChanges
  <2> DEFINE snapshot == [Latest EXCEPT !.status = status]
  <2>3. /\ snapshot \in Snapshot /\ snapshot.status = status /\ snapshot.plan = Latest.plan
        /\ status \in {"ACTIVE", "PAST_DUE", "CANCELED"} /\ Latest.status # "CANCELED"
    BY <2>1, <2>2, NextStatus
  <2>4. Announce(snapshot)
    BY <2>2
  <2> HIDE DEF snapshot
  <2>5. scheduled' => /\ scheduled /\ snapshot.status \in Live
                      /\ snapshot.plan \in {Latest.plan, "high"}
    BY <2>2, <2>3 DEF Live
  <2>6. /\ UNCHANGED <<schedules, receipt, rows, incidents, history>>
        /\ event' = [event EXCEPT ![Len(log')] = "pending"]
        /\ handler' = handler
    BY <1>2 DEF StatusChanges
  <2> QED
    BY <2>3, <2>4, <2>5, <2>6
<1>3. CASE ScheduleRuns
  <2> DEFINE snapshot == [Latest EXCEPT !.plan = "low"]
  <2>1. Len(log) > 0 /\ Latest \in Snapshot
    BY <1>3, SequencesOK DEF ScheduleRuns, IInv, TablesOK
  <2>2. snapshot \in Snapshot
    BY <2>1 DEF Snapshot, Plans
  <2>3. Announce(snapshot) /\ ~scheduled' /\ Latest.status # "CANCELED"
    BY <1>3 DEF ScheduleRuns, LifeOK, Live
  <2> HIDE DEF snapshot
  <2> QED
    BY <1>3, <2>2, <2>3 DEF ScheduleRuns
<1>4. ASSUME NEW h \in Handlers, Change(h)
      PROVE  \E snapshot \in Snapshot :
           /\ Announce(snapshot)
           /\ event' = [event EXCEPT ![Len(log')] = "pending"]
           /\ Latest.status # "CANCELED"
           /\ scheduled' => /\ scheduled /\ snapshot.status \in Live
                            /\ snapshot.plan \in {Latest.plan, "high"}
           /\ UNCHANGED <<schedules, receipt, rows, incidents, history>>
           /\ \A g \in Handlers :
                handler'[g] = handler[g] \/ (handler[g].pc = "change" /\ handler'[g].pc = "linked")
  <2> DEFINE snapshot == [Latest EXCEPT !.plan = "high"]
  <2>1. handler[h] \in Handler /\ HandlerOK(handler[h]) /\ handler[h].pc = "change"
    BY <1>4, HandlerHere DEF Change
  <2>2. Len(log) > 0 /\ Latest \in Snapshot
    BY <2>1, SequencesOK DEF IInv, HandlerOK
  <2>3. /\ snapshot \in Snapshot
        /\ snapshot.status = Latest.status /\ snapshot.plan = "high"
    BY <2>2 DEF Snapshot, Plans
  <2>4. Announce(snapshot) /\ Latest.status \in Live /\ scheduled' = scheduled
    BY <1>4 DEF Change
  <2>5. Len(log') \in Events
    BY <2>3, <2>4, Announced
  <2> HIDE DEF snapshot
  <2>6. \A g \in Handlers :
          handler'[g] = handler[g] \/ (handler[g].pc = "change" /\ handler'[g].pc = "linked")
    BY <1>4, <2>1, <2>5 DEF Change, IInv, TypeOK, Handler
  <2>7. /\ scheduled' => /\ scheduled /\ snapshot.status \in Live
                         /\ snapshot.plan \in {Latest.plan, "high"}
        /\ Latest.status # "CANCELED"
    BY <2>3, <2>4 DEF Live
  <2>8. UNCHANGED <<schedules, receipt, rows, incidents, history>>
    BY <1>4 DEF Change
  <2>9. event' = [event EXCEPT ![Len(log')] = "pending"]
    BY <1>4 DEF Change
  <2> QED
    BY <2>3, <2>4, <2>6, <2>7, <2>8, <2>9
<1> QED
  BY <1>1, <1>2, <1>3, <1>4 DEF StateStep

\* A state that says CANCELED is the last one.
LEMMA LifeState == IInv /\ IInv' /\ LifeOK /\ StateStep => LifeOK'
<1> SUFFICES ASSUME IInv, IInv', LifeOK, StateStep PROVE LifeOK'
  OBVIOUS
<1>1. PICK snapshot \in Snapshot :
           /\ Announce(snapshot)
           /\ Len(log) > 0 => Latest.status # "CANCELED"
           /\ scheduled' => /\ scheduled /\ snapshot.status \in Live
                            /\ snapshot.plan \in {Latest.plan, "high"}
           /\ UNCHANGED <<schedules, receipt, rows, incidents, history>>
  BY StateAnnounced
<1>2. /\ Len(log) \in Nat
      /\ Len(log') = Len(log) + 1
      /\ \A v \in 1..Len(log) : log'[v] = log[v]
      /\ log'[Len(log')] = snapshot
      /\ Latest' = snapshot
  BY <1>1, LogGrows
<1>3. \A v \in 1..Len(log) : log[v].status # "CANCELED"
  BY <1>1, <1>2 DEF LifeOK, Latest
<1>4. \A v \in 1..Len(log') : log'[v].status = "CANCELED" => v = Len(log')
  BY <1>2, <1>3
<1>5. \A i \in 1..Len(rows) : rows[i].status # "CANCELED"
  BY <1>1 DEF LifeOK, IInv, TablesOK
<1>6. scheduled' => schedules' > 0 /\ Latest'.status \in Live
  BY <1>1, <1>2 DEF LifeOK
<1> QED
  BY <1>1, <1>4, <1>5, <1>6 DEF LifeOK

\* The writes of rows: an unlinked row has no status but INACTIVE, and a row
\* that a sync writes has the status of a state Stripe reported.
LEMMA LifeRows ==
  ASSUME IInv, IInv', LifeOK, NEW h \in Handlers,
         KeepIntent(h) \/ WriteRow(h) \/ Record(h) \/ Clear(h)
  PROVE  LifeOK'
<1>1. UNCHANGED <<log, schedules, scheduled>>
  BY DEF KeepIntent, WriteRow, Record, Clear, external
<1>2. \A i \in 1..Len(rows') :
        /\ rows'[i].status # "INACTIVE" => rows'[i].linked
        /\ rows'[i].status = "CANCELED" => Latest.status = "CANCELED"
  <2>1. CASE KeepIntent(h)
    BY <2>1, RowOfIntent DEF LifeOK
  <2>2. CASE WriteRow(h)
    <3>1. PICK k \in 1..Len(rows') :
            /\ rows'[k] = Written(h, IF handler[h].row = 0 THEN 0 ELSE PendingKept(h))
            /\ \A j \in 1..Len(rows') : j # k => j \in 1..Len(rows) /\ rows'[j] = rows[j]
      BY <2>2, RowOfSync
    <3>2. handler[h].version \in 1..Len(log)
      BY <2>2, HandlerHere DEF WriteRow, HandlerOK
    <3>3. rows'[k].linked /\ rows'[k].status = log[handler[h].version].status
      BY <3>1 DEF Written
    <3>4. rows'[k].status = "CANCELED" => Latest.status = "CANCELED"
      BY <3>2, <3>3 DEF LifeOK, Latest
    <3> QED
      BY <3>1, <3>3, <3>4 DEF LifeOK
  <2>3. CASE Record(h) \/ Clear(h)
    BY <2>3, RecordRows DEF LifeOK
  <2> QED
    BY <2>1, <2>2, <2>3
<1> QED
  BY <1>1, <1>2 DEF LifeOK, Latest

\* The steps that neither announce a state nor write a row leave the log and
\* the rows alone.
LEMMA Untouched ==
  ASSUME NEW h \in Handlers, Acts(h),
         ~(KeepIntent(h) \/ WriteRow(h) \/ Record(h) \/ Clear(h) \/ Change(h))
  PROVE  /\ UNCHANGED <<log, rows>>
         /\ UNCHANGED <<schedules, scheduled>> \/ Release(h) \/ Schedule(h)
<1>1. CASE Upgrade(h) \/ Downgrade(h) \/ CancelPending(h)
  BY <1>1 DEF Upgrade, Downgrade, CancelPending, ChangePlan, external
<1>2. CASE Checkout(h) \/ Refresh(h) \/ OperatorSync(h)
  BY <1>2 DEF Checkout, Refresh, OperatorSync, Sync, external
<1>3. CASE Handle(h)
  BY <1>3 DEF Handle, FindIntent, Mark, FindLinked, FindUnlinked, RefuseRow, Release,
     RefuseChange, Schedule, external
<1>4. CASE CutShort(h) \/ \E e \in Events : Deliver(h, e) \/ Replay(h, e)
  BY <1>4 DEF CutShort, Deliver, AnswerDuplicate, StoreReceipt, Replay, external
<1> QED
  BY <1>1, <1>2, <1>3, <1>4 DEF Acts

\* Every step.
LEMMA LifeNext == IInv /\ IInv' /\ LifeOK /\ [Next]_vars => LifeOK'
<1> SUFFICES ASSUME IInv, IInv', LifeOK, [Next]_vars PROVE LifeOK'
  OBVIOUS
<1>1. CASE StateStep
  BY <1>1, LifeState
<1>2. ASSUME NEW h \in Handlers, Acts(h), ~Change(h) PROVE LifeOK'
  <2>1. CASE KeepIntent(h) \/ WriteRow(h) \/ Record(h) \/ Clear(h)
    BY <2>1, LifeRows
  <2>2. CASE ~(KeepIntent(h) \/ WriteRow(h) \/ Record(h) \/ Clear(h))
    <3>1. /\ UNCHANGED <<log, rows>>
          /\ UNCHANGED <<schedules, scheduled>> \/ Release(h) \/ Schedule(h)
      BY <1>2, <2>2, Untouched
    <3>2. scheduled' => schedules' > 0 /\ Latest.status \in Live
      <4>1. CASE UNCHANGED <<schedules, scheduled>>
        BY <4>1 DEF LifeOK
      <4>2. CASE Release(h)
        BY <4>2 DEF LifeOK, Release
      <4>3. CASE Schedule(h)
        <5>1. schedules \in Nat
          BY BoundsAssumption DEF IInv, TypeOK, Schedules
        <5> QED
          BY <4>3, <5>1 DEF Schedule
      <4> QED
        BY <3>1, <4>1, <4>2, <4>3
    <3> QED
      BY <3>1, <3>2 DEF LifeOK, Latest
  <2> QED
    BY <2>1, <2>2
<1>3. CASE UNCHANGED vars
  BY <1>3 DEF vars, external, LifeOK, Latest
<1> QED
  BY <1>1, <1>2, <1>3 DEF Next, StateStep, Acts

\* An ended subscription stays ended, and so no row is canceled while the
\* subscription lives.
THEOREM EndIsFinal == Spec => []LifeOK
<1>1. Init => LifeOK
  <2>1. Init => Len(log) = 0 /\ Len(rows) = 0
    BY EmptySeq DEF Init
  <2> QED
    BY <2>1 DEF Init, LifeOK
<1> QED
  BY <1>1, LifeNext, Invariant, PTL DEF Spec

-----------------------------------------------------------------------------
(* A scheduled downgrade is known here.                                    *)

\* A handler that is about to schedule a downgrade or to record one has read
\* a linked row.
RowLinked(q) ==
  (q.pc \in {"schedule", "record"} \/ (q.pc = "release" /\ q.kind = "downgrade")) =>
    q.row \in Linked

AwaitsRecord(q) == q.pc = "record" /\ q.seen = schedules

\* The active schedule is on a linked row or about to be recorded; the
\* subscription is on the plan that it lowers.
ScheduleKnown ==
  scheduled /\ ~mislaid =>
    /\ Latest.plan = "high"
    /\ \/ \E i \in Linked : rows[i].pending = schedules
       \/ \E h \in Handlers : AwaitsRecord(handler[h])

ScheduleOK ==
  /\ \A h \in Handlers : RowLinked(handler[h])
  /\ ScheduleKnown

\* A linked row stays linked.
LEMMA LinkedStays ==
  ASSUME IInv, LifeOK, [Next]_vars
  PROVE  Linked \subseteq Linked'
<1>1. DOMAIN rows = 1..Len(rows)
  BY SequencesOK DEF IInv
<1>2. CASE UNCHANGED rows
  BY <1>2 DEF Linked
<1>3. ASSUME NEW h \in Handlers, KeepIntent(h) PROVE Linked \subseteq Linked'
  <2>1. rows' \in Seq(Row)
    BY <1>3, KeepIntentInv DEF IInv, TypeOK
  <2>2. DOMAIN rows' = 1..Len(rows')
    BY <2>1, LenProperties
  <2> QED
    BY <1>1, <1>3, <2>2, RowOfIntent DEF Linked
<1>4. ASSUME NEW h \in Handlers, WriteRow(h) PROVE Linked \subseteq Linked'
  <2>1. rows' \in Seq(Row)
    BY <1>4, WriteRowInv DEF IInv, TypeOK
  <2>2. DOMAIN rows' = 1..Len(rows')
    BY <2>1, LenProperties
  <2>3. PICK k \in 1..Len(rows') :
          /\ rows'[k] = Written(h, IF handler[h].row = 0 THEN 0 ELSE PendingKept(h))
          /\ \A j \in 1..Len(rows) : j \in 1..Len(rows') /\ (j # k => rows'[j] = rows[j])
    BY <1>4, RowOfSync
  <2>4. rows'[k].linked
    BY <2>3 DEF Written
  <2> QED
    BY <1>1, <2>2, <2>3, <2>4 DEF Linked
<1>5. ASSUME NEW h \in Handlers, Record(h) \/ Clear(h) PROVE Linked \subseteq Linked'
  <2>1. rows' \in Seq(Row)
    BY <1>5, RecordsInv DEF IInv, TypeOK
  <2>2. DOMAIN rows' = 1..Len(rows')
    BY <2>1, LenProperties
  <2> QED
    BY <1>1, <1>5, <2>2, RecordRows DEF Linked
<1>6. CASE StateStep
  BY <1>2, <1>6, StateAnnounced
<1>7. CASE UNCHANGED vars
  BY <1>2, <1>7 DEF vars
<1>8. ASSUME NEW h \in Handlers, Acts(h),
             ~(KeepIntent(h) \/ WriteRow(h) \/ Record(h) \/ Clear(h) \/ Change(h))
      PROVE  Linked \subseteq Linked'
  BY <1>2, <1>8, Untouched
<1> QED
  BY <1>3, <1>4, <1>5, <1>6, <1>7, <1>8 DEF Next, Acts, StateStep

\* The handler that moves still has a linked row where it needs one.
LEMMA MoverLinked ==
  ASSUME IInv, NEW h \in Handlers, Acts(h), RowLinked(handler[h])
  PROVE  RowLinked(handler'[h])
<1>1. handler[h] \in Handler /\ HandlerOK(handler[h])
  BY HandlerHere
<1>2. CASE End(h)
  BY <1>2 DEF End, Idle, RowLinked, IInv, TypeOK
<1>3. CASE Answer(h)
  BY <1>3 DEF Answer, Idle, RowLinked, IInv, TypeOK
<1>4. CASE Checkout(h) \/ Refresh(h) \/ OperatorSync(h)
  BY <1>4 DEF Checkout, Refresh, OperatorSync, Sync, Begin, Idle, RowLinked, IInv, TypeOK
<1>5. CASE Upgrade(h) \/ Downgrade(h) \/ CancelPending(h)
  BY <1>5 DEF Upgrade, Downgrade, CancelPending, ChangePlan, Begin, Idle, RowLinked, IInv, TypeOK
<1>6. CASE \E e \in Events : Deliver(h, e) \/ Replay(h, e)
  <2>1. PICK e \in Events : Deliver(h, e) \/ Replay(h, e)
    BY <1>6
  <2>2. CASE AnswerDuplicate(h, e)
    BY <2>2 DEF AnswerDuplicate, RowLinked
  <2>3. CASE StoreReceipt(h, e) \/ Replay(h, e)
    <3>1. PICK k \in Kinds : handler'[h] = Processing(k, e)
      BY <2>3 DEF StoreReceipt, Replay, Begin, Kinds, IInv, TypeOK
    <3>2. Processing(k, e).pc \in {"intent", "linked"}
      BY DEF Processing, Idle
    <3> QED
      BY <3>1, <3>2 DEF RowLinked
  <2> QED
    BY <2>1, <2>2, <2>3 DEF Deliver
<1>7. CASE FindIntent(h) \/ FindUnlinked(h)
  BY <1>1, <1>7 DEF FindIntent, FindUnlinked, Handler, RowLinked, IInv, TypeOK
<1>8. CASE FindLinked(h)
  <2>1. handler'[h].pc \in {"unlinked", "write"}
    <3>1. CASE Linked = {}
      BY <1>1, <1>8, <3>1 DEF FindLinked, Proceed, Handler, IInv, TypeOK
    <3>2. CASE Linked # {}
      <4>1. PICK i \in Linked :
              handler' = [handler EXCEPT ![h].pc = "write", ![h].row = i,
                                         ![h].seen = rows[i].pending]
        BY <1>8, <3>2 DEF FindLinked
      <4> DEFINE s == rows[i].pending
      <4>2. handler' = [handler EXCEPT ![h].pc = "write", ![h].row = i, ![h].seen = s]
        BY <4>1
      <4> HIDE DEF s
      <4> QED
        BY <1>1, <4>2 DEF Handler, IInv, TypeOK
    <3> QED
      BY <3>1, <3>2
  <2> QED
    BY <2>1 DEF RowLinked
<1>9. CASE KeepIntent(h) \/ Mark(h) \/ RefuseRow(h) \/ RefuseChange(h) \/ Record(h) \/ Clear(h)
           \/ CutShort(h)
  BY <1>2, <1>3, <1>9 DEF KeepIntent, Mark, RefuseRow, RefuseChange, Record, Clear, CutShort
<1>10. CASE WriteRow(h)
  <2>1. Answer(h) \/ End(h) \/ Proceed(h, "clear")
    BY <1>1, <1>10 DEF WriteRow, HandlerOK, FromStripe
  <2>2. CASE Proceed(h, "clear")
    BY <1>1, <2>2 DEF Proceed, Handler, RowLinked, IInv, TypeOK
  <2> QED
    BY <1>2, <1>3, <2>1, <2>2
<1>11. CASE Release(h)
  <2>1. handler[h].pc = "release" /\ handler[h].kind \in {"upgrade", "downgrade", "cancel"}
    BY <1>1, <1>11 DEF Release, HandlerOK
  <2>2. CASE Proceed(h, "change") \/ Proceed(h, "clear")
    BY <1>1, <2>2 DEF Proceed, Handler, RowLinked, IInv, TypeOK
  <2>3. CASE Proceed(h, "schedule") /\ handler[h].kind = "downgrade"
    BY <1>1, <2>1, <2>3 DEF Proceed, Handler, RowLinked, IInv, TypeOK
  <2> QED
    BY <1>2, <1>11, <2>1, <2>2, <2>3 DEF Release
<1>12. CASE Change(h)
  BY <1>1, <1>12 DEF Change, Handler, RowLinked, IInv, TypeOK
<1>13. CASE Schedule(h)
  BY <1>1, <1>13 DEF Schedule, Handler, RowLinked, IInv, TypeOK
<1> QED
  BY <1>4, <1>5, <1>6, <1>7, <1>8, <1>9, <1>10, <1>11, <1>12, <1>13 DEF Acts, Handle

\* The known schedule stays known when the plan, the linked rows that carry it
\* and the handlers that will record it stay, or when the step owns up to it.
LEMMA KnownKept ==
  ASSUME ScheduleKnown, UNCHANGED schedules, scheduled' => scheduled, mislaid => mislaid',
         scheduled' => Latest'.plan \in {Latest.plan, "high"},
         scheduled' /\ ~mislaid' =>
           /\ \A i \in Linked :
                rows[i].pending = schedules => i \in Linked' /\ rows'[i].pending = schedules
           /\ \A g \in Handlers :
                AwaitsRecord(handler[g]) =>
                  handler'[g] = handler[g] \/ \E i \in Linked' : rows'[i].pending = schedules
  PROVE  ScheduleKnown'
<1> SUFFICES ASSUME scheduled', ~mislaid'
             PROVE  /\ Latest'.plan = "high"
                    /\ \/ \E i \in Linked' : rows'[i].pending = schedules'
                       \/ \E h \in Handlers : AwaitsRecord(handler[h])'
  BY DEF ScheduleKnown
<1>1. scheduled /\ ~mislaid
  OBVIOUS
<1>2. Latest'.plan = "high"
  BY <1>1 DEF ScheduleKnown
<1>3. CASE \E i \in Linked : rows[i].pending = schedules
  BY <1>2, <1>3
<1>4. ASSUME NEW g \in Handlers, AwaitsRecord(handler[g])
      PROVE  \/ \E i \in Linked' : rows'[i].pending = schedules'
             \/ \E h \in Handlers : AwaitsRecord(handler[h])'
  <2>1. CASE handler'[g] = handler[g]
    BY <1>4, <2>1 DEF AwaitsRecord
  <2> QED
    BY <1>4, <2>1
<1> QED
  BY <1>1, <1>2, <1>3, <1>4 DEF ScheduleKnown

\* An announced state that leaves the schedule active stays on the high plan.
LEMMA KnownState ==
  ASSUME IInv, LifeOK, ScheduleKnown, StateStep
  PROVE  ScheduleKnown'
<1>1. PICK snapshot \in Snapshot :
           /\ Announce(snapshot)
           /\ scheduled' => /\ scheduled /\ snapshot.status \in Live
                            /\ snapshot.plan \in {Latest.plan, "high"}
           /\ UNCHANGED <<schedules, receipt, rows, incidents, history>>
           /\ \A g \in Handlers :
                handler'[g] = handler[g] \/ (handler[g].pc = "change" /\ handler'[g].pc = "linked")
  BY StateAnnounced
<1>2. Latest' = snapshot
  BY <1>1, LogGrows
<1>3. Linked' = Linked /\ rows' = rows /\ schedules' = schedules /\ mislaid' = mislaid
  BY <1>1 DEF Linked, history
<1>4. \A g \in Handlers : AwaitsRecord(handler[g]) => handler'[g] = handler[g]
  BY <1>1 DEF AwaitsRecord
<1>5. scheduled' => scheduled /\ Latest'.plan \in {Latest.plan, "high"}
  BY <1>1, <1>2
<1> QED
  BY <1>3, <1>4, <1>5, KnownKept

\* A sync that clears the recorded change either knew less than Stripe, which
\* mislaid tells, or saw the plan that the schedule lowers to: not while it is
\* active.
LEMMA KnownSync ==
  ASSUME IInv, LifeOK, ScheduleKnown, NEW h \in Handlers, WriteRow(h), Linked \subseteq Linked'
  PROVE  ScheduleKnown'
<1> DEFINE i == handler[h].row
<1> DEFINE v == handler[h].version
<1>1. /\ handler[h] \in Handler /\ handler[h].pc = "write"
      /\ i \in 0..Len(rows) /\ v \in 1..Len(log)
  BY HandlerHere DEF WriteRow, HandlerOK
<1>2. UNCHANGED <<log, schedules, scheduled>> /\ Latest' = Latest
  BY DEF WriteRow, external, Latest
<1>3. mislaid => mislaid'
  BY DEF WriteRow, WriteHistory
<1>4. \A g \in Handlers : AwaitsRecord(handler[g]) => handler'[g] = handler[g]
  <2>1. \A g \in Handlers : g # h => handler'[g] = handler[g]
    BY OthersStay DEF Acts, Handle
  <2> QED
    BY <1>1, <2>1 DEF AwaitsRecord
<1>5. DOMAIN rows = 1..Len(rows)
  BY SequencesOK DEF IInv
<1>6. PICK k \in 1..Len(rows') :
           /\ k = IF i = 0 THEN Len(rows) + 1 ELSE i
           /\ rows'[k] = Written(h, IF i = 0 THEN 0 ELSE PendingKept(h))
           /\ \A j \in 1..Len(rows) : j \in 1..Len(rows') /\ (j # k => rows'[j] = rows[j])
  BY RowOfSync
<1>7. rows'[k].pending = IF i = 0 THEN 0 ELSE PendingKept(h)
  BY <1>6 DEF Written
<1>8. ASSUME scheduled, ~mislaid', NEW j \in Linked, rows[j].pending = schedules
      PROVE  rows'[j].pending = schedules
  <2>1. CASE j # k
    BY <1>5, <1>6, <1>8, <2>1 DEF Linked
  <2>2. CASE j = k
    <3>1. i # 0 /\ j = i
      BY <1>1, <1>5, <1>6, <2>2, SequencesOK DEF Linked, IInv
    <3>2. schedules # 0 /\ Latest.status \in Live /\ Latest.plan = "high"
      BY <1>3, <1>8, SequencesOK, BoundsAssumption
      DEF LifeOK, ScheduleKnown, IInv, TypeOK, Schedules
    <3>3. ~ClearsPending(h)
      <4>1. ~(ClearsPending(h) /\ (handler[h].seen # rows[i].pending \/ v # Len(log)))
        BY <1>8, <3>1, <3>2 DEF WriteRow, WriteHistory
      <4>2. ASSUME ClearsPending(h) PROVE FALSE
        <5>1. handler[h].seen = schedules /\ log[v] = Latest
          BY <1>8, <3>1, <4>1, <4>2 DEF Latest
        <5> QED
          BY <3>2, <4>2, <5>1 DEF ClearsPending
      <4> QED
        BY <4>2
    <3> QED
      BY <1>7, <1>8, <2>2, <3>1, <3>3 DEF PendingKept
  <2> QED
    BY <2>1, <2>2
<1> QED
  BY <1>2, <1>3, <1>4, <1>8, KnownKept

\* A recorded schedule is the active one, or mislaid tells; so it is with the
\* cleared one.
LEMMA KnownRecords ==
  ASSUME IInv, ScheduleOK, NEW h \in Handlers, Record(h) \/ Clear(h), Linked \subseteq Linked'
  PROVE  ScheduleKnown'
<1> DEFINE i == handler[h].row
<1>1. UNCHANGED <<log, schedules, scheduled>> /\ Latest' = Latest
  BY DEF Record, Clear, external, Latest
<1>2. mislaid => mislaid'
  BY DEF Record, Clear
<1>3. \A g \in Handlers : g # h => handler'[g] = handler[g]
  BY OthersStay DEF Acts, Handle
<1>4. DOMAIN rows = 1..Len(rows)
  BY SequencesOK DEF IInv
<1>5. CASE Record(h)
  <2>1. handler[h].pc = "record" /\ i \in Linked
    BY <1>5 DEF Record, ScheduleOK, RowLinked
  <2>2. \A j \in 1..Len(rows) :
          rows'[j].pending = IF j = i THEN handler[h].seen ELSE rows[j].pending
    BY <1>5, RecordRows
  <2>3. ~mislaid' => handler[h].seen = schedules
    BY <1>5 DEF Record
  <2>4. ~mislaid' => rows'[i].pending = schedules
    BY <1>4, <2>1, <2>2, <2>3 DEF Linked
  <2>5. ~mislaid' => \A j \in Linked : rows[j].pending = schedules => rows'[j].pending = schedules
    BY <1>4, <2>2, <2>3 DEF Linked
  <2>6. \A g \in Handlers :
          ~mislaid' => handler'[g] = handler[g] \/ \E j \in Linked' : rows'[j].pending = schedules
    BY <1>3, <2>1, <2>4
  <2> QED
    BY <1>1, <1>2, <2>5, <2>6, KnownKept DEF ScheduleOK
<1>6. CASE Clear(h)
  <2>1. handler[h].pc = "clear" /\ ~Record(h)
    BY <1>6 DEF Clear, Record
  <2>2. \A j \in 1..Len(rows) :
          rows'[j].pending = IF j = i THEN 0 ELSE rows[j].pending
    BY <1>6, <2>1, RecordRows
  <2>3. scheduled /\ ~mislaid' => rows[i].pending # schedules
    BY <1>6 DEF Clear
  <2>4. scheduled /\ ~mislaid' =>
          \A j \in Linked : rows[j].pending = schedules => rows'[j].pending = schedules
    BY <1>4, <2>2, <2>3 DEF Linked
  <2>5. \A g \in Handlers : AwaitsRecord(handler[g]) => handler'[g] = handler[g]
    BY <1>3, <2>1 DEF AwaitsRecord
  <2> QED
    BY <1>1, <1>2, <2>4, <2>5, KnownKept DEF ScheduleOK
<1> QED
  BY <1>5, <1>6

\* The end of a checkout leaves the pending changes.
LEMMA KnownIntent ==
  ASSUME IInv, ScheduleKnown, NEW h \in Handlers, KeepIntent(h), Linked \subseteq Linked'
  PROVE  ScheduleKnown'
<1>1. UNCHANGED <<log, schedules, scheduled, mislaid>> /\ Latest' = Latest
  BY DEF KeepIntent, Latest
<1>2. DOMAIN rows = 1..Len(rows)
  BY SequencesOK DEF IInv
<1>3. \A j \in Linked : rows'[j].pending = rows[j].pending
  BY <1>2, RowOfIntent DEF Linked
<1>4. handler[h].pc # "record"
  BY DEF KeepIntent
<1>5. \A g \in Handlers : AwaitsRecord(handler[g]) => handler'[g] = handler[g]
  BY <1>4, OthersStay DEF Acts, Handle, AwaitsRecord
<1> QED
  BY <1>1, <1>3, <1>5, KnownKept

\* A new schedule waits to be recorded by the handler that created it; if the
\* plan was low already, mislaid tells.
LEMMA KnownSchedule ==
  ASSUME IInv, LifeOK, NEW h \in Handlers, Schedule(h)
  PROVE  ScheduleKnown'
<1>1. handler[h] \in Handler /\ HandlerOK(handler[h]) /\ handler[h].pc = "schedule"
  BY HandlerHere DEF Schedule
<1>2. handler' = [handler EXCEPT ![h].pc = "record", ![h].seen = schedules']
  BY DEF Schedule
<1> DEFINE s == schedules'
<1>3. handler'[h].pc = "record" /\ handler'[h].seen = s
  <2>1. handler' = [handler EXCEPT ![h].pc = "record", ![h].seen = s]
    BY <1>2
  <2> HIDE DEF s
  <2> QED
    BY <1>1, <2>1 DEF Handler, IInv, TypeOK
<1>4. Len(log) > 0
  BY <1>1 DEF HandlerOK
<1>5. Latest \in Snapshot
  BY <1>4, SequencesOK DEF IInv
<1>6. ~mislaid' => Latest.plan = "high"
  BY <1>5 DEF Schedule, Snapshot, Plans
<1>7. Latest' = Latest
  BY DEF Schedule, Latest
<1> QED
  BY <1>3, <1>6, <1>7 DEF ScheduleKnown, AwaitsRecord

\* The other steps of a handler: a released schedule is not active any more,
\* and a handler cut short before it records is told by mislaid.
LEMMA KnownOther ==
  ASSUME IInv, ScheduleKnown, NEW h \in Handlers, Acts(h),
         ~(KeepIntent(h) \/ WriteRow(h) \/ Record(h) \/ Clear(h) \/ Change(h) \/ Schedule(h))
  PROVE  ScheduleKnown'
<1>1. UNCHANGED <<log, rows>> /\ (UNCHANGED <<schedules, scheduled>> \/ Release(h))
  BY Untouched
<1>2. UNCHANGED schedules /\ (scheduled' => scheduled) /\ Linked' = Linked /\ Latest' = Latest
  BY <1>1 DEF Release, Linked, Latest
<1>3. (mislaid' = mislaid /\ handler[h].pc # "record") \/ CutShort(h)
  <2>1. CASE Upgrade(h) \/ Downgrade(h) \/ CancelPending(h)
    BY <2>1 DEF Upgrade, Downgrade, CancelPending, ChangePlan, Begin, history
  <2>2. CASE Checkout(h) \/ Refresh(h) \/ OperatorSync(h)
    BY <2>2 DEF Checkout, Refresh, OperatorSync, Sync, Begin, history
  <2>3. CASE Handle(h)
    BY <2>3 DEF Handle, FindIntent, Mark, FindLinked, FindUnlinked, RefuseRow, Release,
       RefuseChange, history
  <2>4. CASE \E e \in Events : Deliver(h, e) \/ Replay(h, e)
    BY <2>4 DEF Deliver, AnswerDuplicate, StoreReceipt, Replay, Begin, history
  <2> QED
    BY <2>1, <2>2, <2>3, <2>4 DEF Acts
<1>4. \A g \in Handlers : g # h => handler'[g] = handler[g]
  BY OthersStay
<1>5. CASE mislaid' = mislaid /\ handler[h].pc # "record"
  <2>1. \A g \in Handlers : AwaitsRecord(handler[g]) => handler'[g] = handler[g]
    BY <1>4, <1>5 DEF AwaitsRecord
  <2> QED
    BY <1>1, <1>2, <1>5, <2>1, KnownKept
<1>6. CASE CutShort(h)
  <2>1. mislaid' = (mislaid \/ handler[h].pc = "record")
    BY <1>6 DEF CutShort
  <2>2. ~mislaid' => \A g \in Handlers : AwaitsRecord(handler[g]) => handler'[g] = handler[g]
    BY <1>4, <2>1 DEF AwaitsRecord
  <2> QED
    BY <1>1, <1>2, <2>1, <2>2, KnownKept
<1> QED
  BY <1>3, <1>5, <1>6

\* Every step.
LEMMA ScheduleNext ==
  IInv /\ IInv' /\ LifeOK /\ ScheduleOK /\ [Next]_vars => ScheduleOK'
<1> SUFFICES ASSUME IInv, IInv', LifeOK, ScheduleOK, [Next]_vars PROVE ScheduleOK'
  OBVIOUS
<1>1. Linked \subseteq Linked'
  BY LinkedStays
<1>2. ASSUME NEW g \in Handlers, RowLinked(handler'[g]) PROVE RowLinked(handler[g])'
  BY <1>1, <1>2 DEF RowLinked
<1>3. CASE StateStep
  <2>1. ScheduleKnown'
    BY <1>3, KnownState DEF ScheduleOK
  <2>2. \A g \in Handlers : handler'[g] = handler[g] \/ handler'[g].pc = "linked"
    BY <1>3, StateAnnounced
  <2>3. \A g \in Handlers : RowLinked(handler'[g])
    BY <2>2 DEF ScheduleOK, RowLinked
  <2> QED
    BY <1>2, <2>1, <2>3 DEF ScheduleOK
<1>4. ASSUME NEW h \in Handlers, Acts(h), ~Change(h) PROVE ScheduleOK'
  <2>1. \A g \in Handlers : RowLinked(handler'[g])
    <3>1. RowLinked(handler'[h])
      BY <1>4, MoverLinked DEF ScheduleOK
    <3>2. \A g \in Handlers : g # h => handler'[g] = handler[g]
      BY <1>4, OthersStay
    <3> QED
      BY <3>1, <3>2 DEF ScheduleOK
  <2>2. ScheduleKnown'
    BY <1>1, <1>4, KnownIntent, KnownSync, KnownRecords, KnownSchedule, KnownOther
    DEF ScheduleOK
  <2> QED
    BY <1>2, <2>1, <2>2 DEF ScheduleOK
<1>5. CASE UNCHANGED vars
  BY <1>5 DEF vars, external, history, ScheduleOK, RowLinked, ScheduleKnown, AwaitsRecord,
     Linked, Latest
<1> QED
  BY <1>3, <1>4, <1>5 DEF Next, StateStep, Acts

\* The active schedule is on a linked row, or a handler is about to record it.
THEOREM SchedulesTracked == Spec => []ScheduleOK
<1>1. Init => ScheduleOK
  BY DEF Init, ScheduleOK, ScheduleKnown, RowLinked, Idle
<1> QED
  BY <1>1, ScheduleNext, EndIsFinal, Invariant, PTL DEF Spec

\* Once all is quiet a downgrade scheduled at Stripe is on the tenant's row,
\* unless one of the four accidents that mislaid records has happened.
THEOREM SchedulesKnown == Spec => []ScheduleIsKnown
<1>1. ScheduleOK => ScheduleIsKnown
  BY DEF ScheduleOK, ScheduleKnown, AwaitsRecord, ScheduleIsKnown, Quiet
<1> QED
  BY <1>1, SchedulesTracked, PTL

-----------------------------------------------------------------------------
(* The row follows Stripe.                                                 *)

\* A handler that will write the latest state, and owns up if it fails to.
Carries(q) ==
  /\ q.kind \in {"event", "replay"} /\ q.pc \in {"linked", "unlinked", "write"}
  /\ q.event = Len(log) /\ q.version = Len(log)

\* Linked rows say what the state they were written from said.
RowsFaithful ==
  \A i \in 1..Len(rows) :
    rows[i].linked =>
      /\ rows[i].version \in 1..Len(log)
      /\ rows[i].status = log[rows[i].version].status
      /\ rows[i].plan = log[rows[i].version].plan

\* The latest state is in a row, still to be delivered, or with a handler.
LatestUnderway ==
  \/ \E i \in 1..Len(rows) : rows[i].linked /\ rows[i].version = Len(log)
  \/ event[Len(log)] = "pending" /\ receipt[Len(log)] = "none"
  \/ \E h \in Handlers : Carries(handler[h])


FreshOK ==
  /\ \A h \in Handlers :
       handler[h].kind \in {"event", "replay"} => receipt[handler[h].event] # "none"
  /\ ~outdated => RowsFaithful /\ (Len(log) > 0 => LatestUnderway)

\* Receipts are never deleted.
LEMMA ReceiptsStay ==
  ASSUME IInv, LifeOK, [Next]_vars, NEW e \in Events, receipt[e] # "none"
  PROVE  receipt'[e] # "none"
<1>1. CASE StateStep
  BY <1>1, StateAnnounced
<1>2. ASSUME NEW h \in Handlers, Acts(h), ~Change(h) PROVE receipt'[e] # "none"
  <2>1. CASE UNCHANGED receipt
    BY <2>1
  <2>2. CASE Failed(h)
    BY <2>2 DEF Failed, IInv, TypeOK
  <2>3. CASE Mark(h)
    BY <2>3 DEF Mark, IInv, TypeOK
  <2>4. ASSUME NEW f \in Events, StoreReceipt(h, f) PROVE receipt'[e] # "none"
    BY <2>4 DEF StoreReceipt, IInv, TypeOK
  <2>5. CASE Upgrade(h) \/ Downgrade(h) \/ CancelPending(h)
    BY <2>1, <2>5 DEF Upgrade, Downgrade, CancelPending, ChangePlan
  <2>6. CASE Checkout(h) \/ Refresh(h) \/ OperatorSync(h)
    BY <2>1, <2>6 DEF Checkout, Refresh, OperatorSync, Sync
  <2>7. CASE Handle(h)
    BY <1>2, <2>1, <2>2, <2>3, <2>7 DEF Handle, FindIntent, KeepIntent, FindLinked,
       FindUnlinked, WriteRow, RefuseRow, Release, RefuseChange, Schedule, Record, Clear
  <2>8. CASE CutShort(h)
    BY <2>1, <2>2, <2>8 DEF CutShort
  <2>9. ASSUME NEW f \in Events, Deliver(h, f) \/ Replay(h, f) PROVE receipt'[e] # "none"
    BY <2>1, <2>4, <2>9 DEF Deliver, AnswerDuplicate, Replay
  <2> QED
    BY <1>2, <2>5, <2>6, <2>7, <2>8, <2>9 DEF Acts
<1>3. CASE UNCHANGED vars
  BY <1>3 DEF vars
<1> QED
  BY <1>1, <1>2, <1>3 DEF Next, StateStep, Acts

\* A handler takes up an event with its receipt, and keeps to it until it ends.
LEMMA MoverReceipted ==
  ASSUME IInv, NEW h \in Handlers, Acts(h),
         handler'[h].kind \in {"event", "replay"}
  PROVE  \/ handler'[h].kind = handler[h].kind /\ handler'[h].event = handler[h].event
         \/ handler'[h].event \in Events /\ receipt'[handler'[h].event] # "none"
<1>1. handler[h] \in Handler /\ HandlerOK(handler[h])
  BY HandlerHere
<1>2. CASE End(h)
  BY <1>2 DEF End, Idle, IInv, TypeOK
<1>3. CASE Answer(h)
  BY <1>3 DEF Answer, Idle, IInv, TypeOK
<1>4. CASE Checkout(h) \/ Refresh(h) \/ OperatorSync(h)
  BY <1>4 DEF Checkout, Refresh, OperatorSync, Sync, Begin, Idle, IInv, TypeOK
<1>5. CASE Upgrade(h) \/ Downgrade(h) \/ CancelPending(h)
  <2>1. ASSUME NEW k, NEW first, ChangePlan(h, k, first) PROVE handler'[h].kind = k
    BY <2>1 DEF ChangePlan, Begin, Idle, IInv, TypeOK
  <2>2. ASSUME CancelPending(h) PROVE handler'[h].kind = "cancel"
    BY <2>2 DEF CancelPending, Begin, Idle, IInv, TypeOK
  <2> QED
    BY <1>5, <2>1, <2>2 DEF Upgrade, Downgrade
<1>6. CASE \E e \in Events : Deliver(h, e) \/ Replay(h, e)
  <2>1. PICK e \in Events : Deliver(h, e) \/ Replay(h, e)
    BY <1>6
  <2>2. CASE AnswerDuplicate(h, e)
    BY <2>2 DEF AnswerDuplicate
  <2>3. CASE StoreReceipt(h, e) \/ Replay(h, e)
    <3>1. PICK k \in Kinds : handler'[h] = Processing(k, e)
      BY <2>3 DEF StoreReceipt, Replay, Begin, Kinds, IInv, TypeOK
    <3>2. Processing(k, e).event = e
      BY DEF Processing, Idle
    <3>3. receipt'[e] # "none"
      BY <2>3 DEF StoreReceipt, Replay, IInv, TypeOK
    <3> QED
      BY <3>1, <3>2, <3>3
  <2> QED
    BY <2>1, <2>2, <2>3 DEF Deliver
<1>7. ASSUME NEW p \in Labels, Proceed(h, p)
      PROVE  handler'[h].kind = handler[h].kind /\ handler'[h].event = handler[h].event
  BY <1>1, <1>7 DEF Proceed, Handler, IInv, TypeOK
<1>8. CASE FindIntent(h) \/ FindUnlinked(h)
  BY <1>1, <1>8 DEF FindIntent, FindUnlinked, Handler, IInv, TypeOK
<1>9. CASE FindLinked(h)
  <2>1. CASE Linked = {}
    BY <1>7, <1>9, <2>1 DEF FindLinked, Labels
  <2>2. CASE Linked # {}
    <3>1. PICK i \in Linked :
            handler' = [handler EXCEPT ![h].pc = "write", ![h].row = i,
                                       ![h].seen = rows[i].pending]
      BY <1>9, <2>2 DEF FindLinked
    <3> DEFINE s == rows[i].pending
    <3>2. handler' = [handler EXCEPT ![h].pc = "write", ![h].row = i, ![h].seen = s]
      BY <3>1
    <3> HIDE DEF s
    <3> QED
      BY <1>1, <3>2 DEF Handler, IInv, TypeOK
  <2> QED
    BY <2>1, <2>2
<1>10. CASE KeepIntent(h) \/ Mark(h) \/ RefuseRow(h) \/ RefuseChange(h) \/ Record(h) \/ Clear(h)
            \/ CutShort(h)
  BY <1>2, <1>3, <1>10 DEF KeepIntent, Mark, RefuseRow, RefuseChange, Record, Clear, CutShort
<1>11. CASE WriteRow(h)
  <2>1. Answer(h) \/ End(h) \/ Proceed(h, "clear")
    BY <1>1, <1>11 DEF WriteRow, HandlerOK, FromStripe
  <2> QED
    BY <1>2, <1>3, <1>7, <2>1 DEF Labels
<1>12. CASE Release(h)
  <2>1. End(h) \/ Proceed(h, "change") \/ Proceed(h, "schedule") \/ Proceed(h, "clear")
    BY <1>1, <1>12 DEF Release, HandlerOK
  <2> QED
    BY <1>2, <1>7, <2>1 DEF Labels
<1>13. CASE Change(h)
  <2> DEFINE v == Len(log')
  <2>1. handler' = [handler EXCEPT ![h].pc = "linked", ![h].version = v]
    BY <1>13 DEF Change
  <2> HIDE DEF v
  <2> QED
    BY <1>1, <2>1 DEF Handler, IInv, TypeOK
<1>14. CASE Schedule(h)
  <2> DEFINE s == schedules'
  <2>1. handler' = [handler EXCEPT ![h].pc = "record", ![h].seen = s]
    BY <1>14 DEF Schedule
  <2> HIDE DEF s
  <2> QED
    BY <1>1, <2>1 DEF Handler, IInv, TypeOK
<1> QED
  BY <1>4, <1>5, <1>6, <1>8, <1>9, <1>10, <1>11, <1>12, <1>13, <1>14 DEF Acts, Handle

\* A new state waits for its delivery.
LEMMA FreshState ==
  ASSUME IInv, IInv', LifeOK, FreshOK, StateStep
  PROVE  ~outdated' => RowsFaithful' /\ LatestUnderway'
<1>1. PICK snapshot \in Snapshot :
           /\ Announce(snapshot)
           /\ \/ event' = [event EXCEPT ![Len(log')] = "pending"]
              \/ event' = [event EXCEPT ![0] = "pending", ![Len(log')] = "pending"]
           /\ UNCHANGED <<schedules, receipt, rows, incidents, history>>
  BY StateAnnounced
<1>2. /\ Len(log) \in Nat
      /\ Len(log') = Len(log) + 1
      /\ \A v \in 1..Len(log) : log'[v] = log[v]
      /\ Len(log') \in Events
  BY <1>1, LogGrows, Announced
<1>3. receipt'[Len(log')] = "none"
  BY <1>1, <1>2, BoundsAssumption DEF IInv, TablesOK, Events
<1>4. event'[Len(log')] = "pending"
  BY <1>1, <1>2 DEF IInv, TypeOK
<1>5. outdated' = outdated /\ rows' = rows
  BY <1>1 DEF history
<1>6. ~outdated => RowsFaithful'
  BY <1>2, <1>5 DEF FreshOK, RowsFaithful
<1> QED
  BY <1>3, <1>4, <1>5, <1>6 DEF LatestUnderway

\* A sync that is not outdated has written the latest state, or an older one
\* while the latest is still to come.
LEMMA FreshSync ==
  ASSUME IInv, FreshOK, NEW h \in Handlers, WriteRow(h)
  PROVE  ~outdated' => RowsFaithful' /\ LatestUnderway'
<1> DEFINE i == handler[h].row
<1> DEFINE v == handler[h].version
<1>1. i \in 0..Len(rows) /\ v \in 1..Len(log) /\ Len(log) \in Nat /\ Len(rows) \in Nat
  BY HandlerHere, SequencesOK DEF WriteRow, HandlerOK, IInv
<1>2. UNCHANGED <<log, event, receipt>>
  BY DEF WriteRow, external
<1>3. PICK k \in 1..Len(rows') :
           /\ k = IF i = 0 THEN Len(rows) + 1 ELSE i
           /\ rows'[k] = Written(h, IF i = 0 THEN 0 ELSE PendingKept(h))
           /\ \A j \in 1..Len(rows') : j # k => ~rows'[j].linked
  BY RowOfSync
<1>4. /\ rows'[k].linked /\ rows'[k].version = v
      /\ rows'[k].status = log[v].status /\ rows'[k].plan = log[v].plan
  BY <1>3 DEF Written
<1>5. RowsFaithful'
  BY <1>1, <1>2, <1>3, <1>4 DEF RowsFaithful
<1>6. CASE v = Len(log)
  BY <1>2, <1>4, <1>5, <1>6 DEF LatestUnderway
<1>7. CASE v # Len(log) /\ ~outdated'
  <2>1. ~outdated /\ ~(i # 0 /\ rows[i].version > v)
    BY <1>7 DEF WriteRow, WriteHistory
  <2>2. LatestUnderway
    BY <1>1, <2>1 DEF FreshOK
  <2>3. ~\E j \in 1..Len(rows) : rows[j].linked /\ rows[j].version = Len(log)
    <3> SUFFICES ASSUME NEW j \in 1..Len(rows), rows[j].linked, rows[j].version = Len(log)
                 PROVE  FALSE
      OBVIOUS
    <3>1. j = i
      BY SequencesOK DEF WriteRow, Linked, IInv
    <3>2. rows[i].version > v
      BY <1>1, <1>7, <3>1
    <3> QED
      BY <2>1, <3>1, <3>2
  <2>4. \A g \in Handlers : Carries(handler[g]) => handler'[g] = handler[g]
    <3>1. \A g \in Handlers : g # h => handler'[g] = handler[g]
      BY OthersStay DEF Acts, Handle
    <3> QED
      BY <1>7, <3>1 DEF Carries
  <2> QED
    BY <1>2, <1>5, <2>2, <2>3, <2>4 DEF LatestUnderway, Carries
<1> QED
  BY <1>6, <1>7, <1>5

\* The handler that carries the latest state carries on, or it writes, or it
\* fails and outdated tells.
LEMMA CarrierMoves ==
  ASSUME IInv, NEW h \in Handlers, Acts(h), ~Change(h), Carries(handler[h])
  PROVE  \/ Carries(handler[h])'
         \/ WriteRow(h)
         \/ outdated'
<1>1. /\ handler[h] \in Handler
      /\ handler[h].pc \in {"linked", "unlinked", "write"}
      /\ FromStripe(h)
  BY HandlerHere DEF Carries, FromStripe
<1>2. CASE FindLinked(h)
  <2>1. UNCHANGED log
    BY <1>2 DEF FindLinked, external
  <2>2. CASE Linked = {}
    <3>1. handler' = [handler EXCEPT ![h].pc = "unlinked"]
      BY <1>2, <2>2 DEF FindLinked, Proceed
    <3> QED
      BY <1>1, <2>1, <3>1 DEF Carries, Handler, IInv, TypeOK
  <2>3. CASE Linked # {}
    <3>1. PICK i \in Linked :
            handler' = [handler EXCEPT ![h].pc = "write", ![h].row = i,
                                       ![h].seen = rows[i].pending]
      BY <1>2, <2>3 DEF FindLinked
    <3> DEFINE s == rows[i].pending
    <3>2. handler' = [handler EXCEPT ![h].pc = "write", ![h].row = i, ![h].seen = s]
      BY <3>1
    <3> HIDE DEF s
    <3> QED
      BY <1>1, <2>1, <3>2 DEF Carries, Handler, IInv, TypeOK
  <2> QED
    BY <2>2, <2>3
<1>3. CASE FindUnlinked(h)
  <2>1. UNCHANGED log
    BY <1>3 DEF FindUnlinked, external
  <2> QED
    BY <1>1, <1>3, <2>1 DEF FindUnlinked, Carries, Handler, IInv, TypeOK
<1>4. CASE RefuseRow(h) \/ CutShort(h)
  BY <1>1, <1>4 DEF RefuseRow, CutShort
<1>5. CASE Handle(h)
  BY <1>1, <1>2, <1>3, <1>4, <1>5 DEF Handle, FindIntent, KeepIntent, Mark, Release,
     RefuseChange, Schedule, Record, Clear
<1>6. ASSUME NEW e \in Events, AnswerDuplicate(h, e) \/ StoreReceipt(h, e) \/ Replay(h, e)
      PROVE  FALSE
  BY <1>1, <1>6 DEF AnswerDuplicate, StoreReceipt, Replay, Begin
<1>7. ~(Checkout(h) \/ Refresh(h) \/ OperatorSync(h) \/ Upgrade(h) \/ Downgrade(h)
        \/ CancelPending(h))
  BY <1>1 DEF Checkout, Refresh, OperatorSync, Sync, Upgrade, Downgrade, CancelPending,
     ChangePlan, Begin
<1> QED
  BY <1>4, <1>5, <1>6, <1>7 DEF Acts, Deliver

\* The other steps of a handler leave the log and what the linked rows say, or
\* outdated tells; a delivery of the latest state is taken up by its handler.
LEMMA FreshOther ==
  ASSUME IInv, FreshOK, NEW h \in Handlers, Acts(h), ~Change(h), ~WriteRow(h)
  PROVE  ~outdated' => RowsFaithful' /\ (Len(log') > 0 => LatestUnderway')
<1> SUFFICES ASSUME ~outdated'
             PROVE  RowsFaithful' /\ (Len(log') > 0 => LatestUnderway')
  OBVIOUS
<1>1. log' = log
  BY Untouched DEF KeepIntent, Record, Clear, external
<1>2. ~outdated
  <2>1. CASE Upgrade(h) \/ Downgrade(h) \/ CancelPending(h)
    BY <2>1 DEF Upgrade, Downgrade, CancelPending, ChangePlan, history
  <2>2. CASE Checkout(h) \/ Refresh(h) \/ OperatorSync(h)
    BY <2>2 DEF Checkout, Refresh, OperatorSync, Sync, history
  <2>3. CASE Handle(h)
    BY <2>3 DEF Handle, FindIntent, KeepIntent, Mark, FindLinked, FindUnlinked, RefuseRow,
       Release, RefuseChange, Schedule, Record, Clear, history
  <2>4. CASE CutShort(h)
    BY <2>4 DEF CutShort
  <2>5. CASE \E e \in Events : Deliver(h, e) \/ Replay(h, e)
    BY <2>5 DEF Deliver, AnswerDuplicate, StoreReceipt, Replay, history
  <2> QED
    BY <2>1, <2>2, <2>3, <2>4, <2>5 DEF Acts
<1>3. Len(rows) \in Nat /\ DOMAIN rows = 1..Len(rows)
  BY SequencesOK DEF IInv
<1>4. /\ \A j \in 1..Len(rows') : rows'[j].linked =>
           /\ j \in 1..Len(rows) /\ rows[j].linked
           /\ rows'[j].status = rows[j].status
           /\ rows'[j].plan = rows[j].plan
           /\ rows'[j].version = rows[j].version
      /\ \A j \in 1..Len(rows) : rows[j].linked =>
           j \in 1..Len(rows') /\ rows'[j].linked /\ rows'[j].version = rows[j].version
  <2>1. CASE KeepIntent(h)
    <3>1. PICK k \in 1..Len(rows') :
           /\ k = IF handler[h].row = 0 THEN Len(rows) + 1 ELSE handler[h].row
           /\ IF k \in 1..Len(rows) THEN rows'[k].linked = rows[k].linked ELSE ~rows'[k].linked
           /\ \A j \in 1..Len(rows') : j # k => j \in 1..Len(rows) /\ rows'[j] = rows[j]
           /\ \A j \in 1..Len(rows) : j \in 1..Len(rows') /\ (j # k => rows'[j] = rows[j])
      BY <2>1, RowOfIntent
    <3>2. handler[h].row \notin Linked
      BY <2>1 DEF KeepIntent
    <3>3. k \in 1..Len(rows) => ~rows[k].linked
      BY <1>3, <3>1, <3>2 DEF Linked
    <3>4. ~rows'[k].linked
      BY <3>1, <3>3
    <3> QED
      BY <3>1, <3>3, <3>4
  <2>2. CASE Record(h) \/ Clear(h)
    BY <2>2, RecordRows
  <2>3. CASE ~(KeepIntent(h) \/ Record(h) \/ Clear(h))
    BY <2>3, Untouched
  <2> QED
    BY <2>1, <2>2, <2>3
<1>5. RowsFaithful'
  BY <1>1, <1>2, <1>4 DEF FreshOK, RowsFaithful
<1>6. ASSUME Len(log) > 0, event[Len(log)] = "pending", receipt[Len(log)] = "none"
      PROVE  LatestUnderway'
  <2> DEFINE n == Len(log)
  <2>1. n \in Events /\ n # 0
    BY <1>6, SequencesOK, BoundsAssumption DEF IInv, TypeOK, Events
  <2>2. ASSUME NEW e \in Events, StoreReceipt(h, e), e = n PROVE LatestUnderway'
    <3>1. handler'[h] = Processing("event", n)
      BY <2>2 DEF StoreReceipt, Begin, IInv, TypeOK
    <3>2. /\ handler'[h].kind = "event" /\ handler'[h].pc = "linked"
          /\ handler'[h].event = n /\ handler'[h].version = n
      BY <2>1, <3>1 DEF Processing, Idle
    <3> QED
      BY <1>1, <3>2 DEF LatestUnderway, Carries
  <2>3. ASSUME NEW e \in Events, StoreReceipt(h, e), e # n PROVE LatestUnderway'
    BY <1>1, <1>6, <2>1, <2>3 DEF StoreReceipt, LatestUnderway, IInv, TypeOK, external
  <2>4. ASSUME NEW e \in Events, AnswerDuplicate(h, e) PROVE LatestUnderway'
    BY <1>1, <1>6, <2>1, <2>4 DEF AnswerDuplicate, LatestUnderway, IInv, TypeOK
  <2>5. CASE UNCHANGED <<event, receipt>>
    BY <1>1, <1>6, <2>5 DEF LatestUnderway
  <2>6. CASE Mark(h)
    <3>1. handler[h].event \in Events /\ handler[h].kind \in {"event", "replay"}
      BY <2>6, HandlerHere DEF Mark, HandlerOK, Handler
    <3>2. handler[h].event # n
      BY <1>6, <3>1 DEF FreshOK
    <3> QED
      BY <1>1, <1>6, <2>1, <2>6, <3>1, <3>2 DEF Mark, LatestUnderway, IInv, TypeOK
  <2>7. CASE UNCHANGED event /\ Failed(h)
    <3>1. FromStripe(h) => handler[h].event # n
      BY <1>6 DEF FreshOK, FromStripe
    <3>2. handler[h].event \in Events
      BY HandlerHere DEF Handler
    <3> QED
      BY <1>1, <1>6, <2>1, <2>7, <3>1, <3>2 DEF Failed, LatestUnderway, IInv, TypeOK
  <2>8. CASE Upgrade(h) \/ Downgrade(h) \/ CancelPending(h)
    BY <2>5, <2>8 DEF Upgrade, Downgrade, CancelPending, ChangePlan, external
  <2>9. CASE Checkout(h) \/ Refresh(h) \/ OperatorSync(h)
    BY <2>5, <2>9 DEF Checkout, Refresh, OperatorSync, Sync, external
  <2>10. CASE Handle(h)
    <3>1. CASE FindIntent(h) \/ KeepIntent(h) \/ FindLinked(h) \/ FindUnlinked(h)
      BY <2>5, <3>1 DEF FindIntent, KeepIntent, FindLinked, FindUnlinked, external
    <3>2. CASE Release(h) \/ RefuseChange(h) \/ Schedule(h) \/ Record(h) \/ Clear(h)
      BY <2>5, <3>2 DEF Release, RefuseChange, Schedule, Record, Clear, external
    <3>3. CASE RefuseRow(h)
      BY <3>3 DEF RefuseRow
    <3> QED
      BY <2>6, <2>10, <3>1, <3>2, <3>3 DEF Handle
  <2>11. CASE CutShort(h)
    BY <2>5, <2>7, <2>11 DEF CutShort, external
  <2>12. ASSUME NEW e \in Events, Replay(h, e) PROVE LatestUnderway'
    BY <2>5, <2>12 DEF Replay, external
  <2> QED
    BY <2>2, <2>3, <2>4, <2>8, <2>9, <2>10, <2>11, <2>12 DEF Acts, Deliver
<1>7. ASSUME NEW g \in Handlers, Carries(handler[g]) PROVE Carries(handler[g])'
  <2>1. CASE g = h
    BY <1>7, <2>1, CarrierMoves
  <2>2. CASE g # h
    BY <1>1, <1>7, <2>2, OthersStay DEF Carries
  <2> QED
    BY <2>1, <2>2
<1>8. ASSUME Len(log) > 0 PROVE LatestUnderway'
  <2>1. LatestUnderway
    BY <1>2, <1>8 DEF FreshOK
  <2>2. CASE \E i \in 1..Len(rows) : rows[i].linked /\ rows[i].version = Len(log)
    BY <1>1, <1>4, <2>2 DEF LatestUnderway
  <2>3. CASE \E g \in Handlers : Carries(handler[g])
    BY <1>7, <2>3 DEF LatestUnderway
  <2> QED
    BY <1>6, <1>8, <2>1, <2>2, <2>3 DEF LatestUnderway
<1> QED
  BY <1>1, <1>5, <1>8

\* Every step.
LEMMA FreshNext == IInv /\ IInv' /\ LifeOK /\ FreshOK /\ [Next]_vars => FreshOK'
<1> SUFFICES ASSUME IInv, IInv', LifeOK, FreshOK, [Next]_vars PROVE FreshOK'
  OBVIOUS
<1>1. \A e \in Events : receipt[e] # "none" => receipt'[e] # "none"
  BY ReceiptsStay
<1>2. \A g \in Handlers : handler[g].event \in Events
  BY HandlerHere DEF Handler
<1>3. CASE StateStep
  <2>1. \A g \in Handlers : handler'[g] = handler[g]
                            \/ (handler'[g].kind = handler[g].kind
                                /\ handler'[g].event = handler[g].event)
    <3>1. CASE CompleteCheckout \/ StatusChanges \/ ScheduleRuns
      BY <3>1 DEF CompleteCheckout, StatusChanges, ScheduleRuns
    <3>2. ASSUME NEW h \in Handlers, Change(h), NEW g \in Handlers
          PROVE  handler'[g].kind = handler[g].kind /\ handler'[g].event = handler[g].event
      <4> DEFINE v == Len(log')
      <4>1. handler' = [handler EXCEPT ![h].pc = "linked", ![h].version = v]
        BY <3>2 DEF Change
      <4>2. handler[h] \in Handler
        BY HandlerHere
      <4> HIDE DEF v
      <4> QED
        BY <4>1, <4>2 DEF Handler, IInv, TypeOK
    <3> QED
      BY <1>3, <3>1, <3>2 DEF StateStep
  <2> QED
    BY <1>1, <1>2, <1>3, <2>1, FreshState DEF FreshOK
<1>4. ASSUME NEW h \in Handlers, Acts(h), ~Change(h) PROVE FreshOK'
  <2>1. ASSUME NEW g \in Handlers, handler'[g].kind \in {"event", "replay"}
        PROVE  receipt'[handler'[g].event] # "none"
    <3>1. CASE g = h
      BY <1>1, <1>2, <1>4, <2>1, <3>1, MoverReceipted DEF FreshOK
    <3>2. CASE g # h
      BY <1>1, <1>2, <1>4, <2>1, <3>2, OthersStay DEF FreshOK
    <3> QED
      BY <3>1, <3>2
  <2>2. ~outdated' => RowsFaithful' /\ (Len(log') > 0 => LatestUnderway')
    BY <1>4, FreshSync, FreshOther
  <2> QED
    BY <2>1, <2>2 DEF FreshOK
<1>5. CASE UNCHANGED vars
  BY <1>5 DEF vars, external, history, FreshOK, RowsFaithful, LatestUnderway, Carries
<1> QED
  BY <1>3, <1>4, <1>5 DEF Next, StateStep, Acts

\* Unless the rows are outdated, every linked row says what Stripe said in one
\* of the subscription's states, and the latest of them is in a row, waits for
\* its delivery or is with a handler.
THEOREM LatestIsUnderway == Spec => []FreshOK
<1>1. Init => FreshOK
  <2>1. Init => Len(log) = 0 /\ Len(rows) = 0
    BY EmptySeq DEF Init
  <2> QED
    BY <2>1 DEF Init, FreshOK, RowsFaithful, Idle
<1> QED
  BY <1>1, FreshNext, EndIsFinal, Invariant, PTL DEF Spec

\* Once all is quiet the tenant's row is the latest state at Stripe, unless one
\* of the three accidents that outdated records has happened since the last
\* write of a latest state.
THEOREM RowsFollow == Spec => []RowFollowsStripe
<1>1. IInv /\ FreshOK => RowFollowsStripe
  <2> SUFFICES ASSUME IInv, FreshOK, Quiet, log # <<>>, ~outdated
               PROVE  \E i \in Linked : rows[i].status = Latest.status /\ rows[i].plan = Latest.plan
    BY DEF RowFollowsStripe
  <2>1. Len(log) > 0 /\ DOMAIN rows = 1..Len(rows) /\ Len(log) \in Events
    BY SequencesOK, BoundsAssumption DEF IInv, TypeOK, Events
  <2>2. LatestUnderway /\ RowsFaithful
    BY <2>1 DEF FreshOK
  <2>3. PICK i \in 1..Len(rows) : rows[i].linked /\ rows[i].version = Len(log)
    BY <2>1, <2>2 DEF LatestUnderway, Quiet, Carries
  <2> QED
    BY <2>1, <2>2, <2>3 DEF RowsFaithful, Linked, Latest
<1> QED
  BY <1>1, LatestIsUnderway, Invariant, PTL

\* A tenant whose subscription is active at Stripe is served once all is quiet,
\* or the next read of its plan asks Stripe again, or its row is PAST_DUE and
\* outdated: a row that says less than ACTIVE is then a row that no accident
\* but those of outdated can leave behind, and it never says CANCELED.
THEOREM PayingServed == Spec => []PayingIsServed
<1>1. IInv /\ LifeOK /\ RowFollowsStripe => PayingIsServed
  <2> SUFFICES ASSUME IInv, LifeOK, RowFollowsStripe, Quiet, log # <<>>,
                      Latest.status = "ACTIVE",
                      ~\E i \in Linked : rows[i].status = "ACTIVE",
                      ~(outdated /\ \E i \in Linked : rows[i].status = "PAST_DUE")
               PROVE  \A i \in Current : NeedsRefresh(i)
    BY DEF PayingIsServed
  <2>1. DOMAIN rows = 1..Len(rows) /\ \A i \in 1..Len(rows) : rows[i] \in Row
    BY SequencesOK DEF IInv
  <2>2. outdated
    BY DEF RowFollowsStripe
  <2>3. \A i \in 1..Len(rows) : rows[i].status \notin {"ACTIVE", "PAST_DUE", "CANCELED"}
    BY <2>1, <2>2 DEF LifeOK, Linked
  <2>4. Current = DOMAIN rows
    BY <2>1, <2>3 DEF Current, Live
  <2>5. \A i \in 1..Len(rows) : rows[i].status = "INACTIVE"
    BY <2>1, <2>3 DEF Row, Statuses
  <2> QED
    BY <2>1, <2>4, <2>5 DEF NeedsRefresh
<1> QED
  BY <1>1, EndIsFinal, RowsFollow, Invariant, PTL

=============================================================================
