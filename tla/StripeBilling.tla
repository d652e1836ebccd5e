--------------------------- MODULE StripeBilling ----------------------------
(***************************************************************************)
(* BillingService: one tenant's subscription, from checkout over plan      *)
(* changes to its end, kept in step with Stripe by webhooks.               *)
(*                                                                         *)
(* Stripe delivers an event until it is answered with success, in no       *)
(* particular order, and each event carries the subscription as it was     *)
(* then.  Handlers of events, dashboard requests and operator calls read   *)
(* and write the same rows in separate statements.                         *)
(***************************************************************************)
EXTENDS Naturals, Sequences

CONSTANTS
  Handlers,     \* requests and webhook deliveries in flight
  MaxChanges,   \* bound: states of the subscription at Stripe
  MaxSchedules, \* bound: schedules created
  MaxIncidents, \* bound: handlers cut short, and replays and syncs by operators
  MaxTotal      \* bound: changes, schedules and incidents together; the last of
                \* MaxChanges states is reached without the other two

ASSUME BoundsAssumption ==
  /\ MaxChanges \in Nat \ {0} /\ MaxSchedules \in Nat /\ MaxIncidents \in Nat
  /\ MaxTotal \in Nat

VARIABLES
  log,        \* external: the states the subscription has had at Stripe
  schedules,  \* external: schedules created so far, which are their ids
  scheduled,  \* external: the last of them is active and will lower the plan
  session,    \* external: the plan of the checkout session, once one is open
  event,      \* external: delivery of event e; 0 is checkout.session.completed,
              \* e > 0 announces log[e]
  receipt,    \* the billing_webhook_events row of each event
  rows,       \* the tenant's subscription rows
  handler,    \* what each handler is doing
  incidents,  \* handlers cut short, replays and syncs by operators so far
  applied,    \* history: events whose payload was written
  outdated,   \* history: the rows may be behind Stripe, see RowFollowsStripe
  mislaid     \* history: a schedule may be unknown here, see ScheduleIsKnown

external == <<log, schedules, scheduled, session, event>>
history == <<applied, outdated, mislaid>>
vars == <<external, receipt, rows, handler, incidents, history>>

-----------------------------------------------------------------------------
\* mapStripeStatus: a trial counts as ACTIVE, an unpaid or paused subscription
\* as PAST_DUE.
Statuses == {"INACTIVE", "ACTIVE", "PAST_DUE", "CANCELED"}

Live == {"ACTIVE", "PAST_DUE"}

Plans == {"low", "high"}

NoPlan == "none"

Snapshot == [status : Statuses, plan : Plans]

Events == 0..MaxChanges

Schedules == 0..MaxSchedules

\* linked: providerSubscriptionId is set (a row without it is the intent of a
\* checkout); pending: providerScheduleId of the pending change, 0 for none;
\* version: the state of the log the row was last written from.
Row == [linked : BOOLEAN, status : Statuses, plan : Plans, pending : Schedules,
        version : Events]

\* row: the id a handler has read (0: none); seen: its pending change then.
Handler == [pc : {"idle", "intent", "keep", "linked", "unlinked",
                  "write", "mark", "release", "change", "schedule", "record", "clear"},
            kind : {"event", "replay", "checkout", "sync", "upgrade", "downgrade", "cancel"},
            event : Events, version : Events, row : Nat, seen : Schedules]

Idle == [pc |-> "idle", kind |-> "sync", event |-> 0, version |-> 0, row |-> 0, seen |-> 0]

Latest == log[Len(log)]

WithinTotal == Len(log) < MaxChanges /\ Len(log) + schedules + incidents < MaxTotal

Linked == {i \in DOMAIN rows : rows[i].linked}

Unlinked == DOMAIN rows \ Linked

\* findCurrentSubscription: a live row, else the one updated last (any, here).
Current ==
  LET serving == {i \in DOMAIN rows : rows[i].status \in Live}
  IN  IF serving # {} THEN serving ELSE DOMAIN rows

FromStripe(h) == handler[h].kind \in {"event", "replay"}

Proceed(h, label) == handler' = [handler EXCEPT ![h].pc = label]

End(h) == handler' = [handler EXCEPT ![h] = Idle]

Answer(h) ==
  handler' = [handler EXCEPT ![h] = [Idle EXCEPT !.pc = "mark", !.kind = handler[h].kind,
                                                 !.event = handler[h].event]]

Begin(h, job) == handler[h].pc = "idle" /\ handler' = [handler EXCEPT ![h] = job]

Init ==
  /\ log = <<>>
  /\ schedules = 0
  /\ scheduled = FALSE
  /\ session = NoPlan
  /\ event = [e \in Events |-> "none"]
  /\ receipt = [e \in Events |-> "none"]
  /\ rows = <<>>
  /\ handler = [h \in Handlers |-> Idle]
  /\ incidents = 0
  /\ applied = {}
  /\ outdated = FALSE
  /\ mislaid = FALSE

-----------------------------------------------------------------------------
(* External: Stripe.                                                       *)

\* The subscription takes a new state, which an event announces.
Announce(snapshot) ==
  /\ WithinTotal /\ (Len(log) + 1 = MaxChanges => schedules + incidents = 0)
  /\ log' = Append(log, snapshot)

\* The customer pays, at once or after an incomplete first attempt.
CompleteCheckout ==
  /\ session # NoPlan
  /\ log = <<>>
  /\ \E status \in {"INACTIVE", "ACTIVE"} : Announce([status |-> status, plan |-> session])
  /\ event' = [event EXCEPT ![0] = "pending", ![1] = "pending"]
  /\ UNCHANGED <<schedules, scheduled, session, receipt, rows, handler, incidents, history>>

\* What may become of a subscription that is not over.
StatusesAfter(status) ==
  CASE status = "INACTIVE" -> {"ACTIVE"}
    [] status = "ACTIVE"   -> {"PAST_DUE", "CANCELED"}
    [] status = "PAST_DUE" -> {"ACTIVE", "CANCELED"}
    [] status = "CANCELED" -> {}

\* A payment arrives or fails, or the subscription ends and its schedule with it.
StatusChanges ==
  /\ log # <<>>
  /\ \E status \in StatusesAfter(Latest.status) :
       /\ Announce([Latest EXCEPT !.status = status])
       /\ scheduled' = (scheduled /\ status # "CANCELED")
  /\ event' = [event EXCEPT ![Len(log')] = "pending"]
  /\ UNCHANGED <<schedules, session, receipt, rows, handler, incidents, history>>

\* The period ends: the scheduled plan starts and the schedule is released.
ScheduleRuns ==
  /\ scheduled
  /\ Announce([Latest EXCEPT !.plan = "low"])
  /\ scheduled' = FALSE
  /\ event' = [event EXCEPT ![Len(log')] = "pending"]
  /\ UNCHANGED <<schedules, session, receipt, rows, handler, incidents, history>>

-----------------------------------------------------------------------------
(* createCheckoutSession, and the event that ends a checkout: both keep an *)
(* intent by persistCheckoutIntent, a read and a write by id.              *)

Checkout(h) ==
  /\ session = NoPlan
  /\ \A g \in Handlers : handler[g].kind # "checkout"
  /\ Begin(h, [Idle EXCEPT !.pc = "intent", !.kind = "checkout"])
  /\ UNCHANGED <<external, receipt, rows, incidents, history>>

FindIntent(h) ==
  /\ handler[h].pc = "intent"
  /\ \E i \in IF Unlinked = {} THEN {0} ELSE Unlinked :
       handler' = [handler EXCEPT ![h].pc = "keep", ![h].row = i]
  /\ UNCHANGED <<external, receipt, rows, incidents, history>>

\* A webhook may have linked the row since it was read.
KeepIntent(h) ==
  LET i == handler[h].row IN
  /\ handler[h].pc = "keep"
  /\ \E plan \in IF FromStripe(h) THEN {session} ELSE Plans :
       /\ rows' = IF i = 0
                  THEN Append(rows, [linked |-> FALSE, status |-> "INACTIVE", plan |-> plan,
                                     pending |-> 0, version |-> 0])
                  ELSE [rows EXCEPT ![i].status = "INACTIVE", ![i].plan = plan]
       /\ session' = plan
  /\ outdated' = (outdated \/ i \in Linked)
  /\ IF FromStripe(h)
     THEN applied' = applied \union {0} /\ Answer(h)
     ELSE UNCHANGED applied /\ End(h)
  /\ UNCHANGED <<log, schedules, scheduled, event, receipt, incidents, mislaid>>

-----------------------------------------------------------------------------
(* handleStripeWebhook and replayStoredWebhookEvent                        *)

Processing(kind, e) ==
  [Idle EXCEPT !.pc = IF e = 0 THEN "intent" ELSE "linked",
               !.kind = kind, !.event = e, !.version = e]

\* A delivery.  An event with a receipt is answered as a duplicate, whatever
\* became of it.
AnswerDuplicate(h, e) ==
  /\ event[e] = "pending"
  /\ receipt[e] # "none"
  /\ handler[h].pc = "idle"
  /\ event' = [event EXCEPT ![e] = "acked"]
  /\ UNCHANGED <<log, schedules, scheduled, session, receipt, rows, handler, incidents, history>>

\* Mutant: the receipt says processed from the start.
StoreProcessed(h, e) ==
  /\ event[e] = "pending"
  /\ receipt[e] = "none"
  /\ receipt' = [receipt EXCEPT ![e] = "processed"]
  /\ Begin(h, Processing("event", e))
  /\ UNCHANGED <<external, rows, incidents, history>>

\* providerEventId is unique: of two deliveries at once the second fails and
\* is repeated, as if it had come later.
StoreReceipt(h, e) ==
  /\ event[e] = "pending"
  /\ receipt[e] = "none"
  /\ receipt' = [receipt EXCEPT ![e] = "stored"]
  /\ Begin(h, Processing("event", e))
  /\ UNCHANGED <<external, rows, incidents, history>>

\* A success answers Stripe; a replay only marks the receipt.
Mark(h) ==
  LET e == handler[h].event IN
  /\ handler[h].pc = "mark"
  /\ receipt' = [receipt EXCEPT ![e] = "processed"]
  /\ event' = IF handler[h].kind = "event" THEN [event EXCEPT ![e] = "acked"] ELSE event
  /\ End(h)
  /\ UNCHANGED <<log, schedules, scheduled, session, rows, incidents, history>>

Replay(h, e) ==
  /\ receipt[e] # "none"
  /\ incidents < MaxIncidents /\ WithinTotal
  /\ incidents' = incidents + 1
  /\ Begin(h, Processing("replay", e))
  /\ UNCHANGED <<external, receipt, rows, history>>

-----------------------------------------------------------------------------
(* syncSubscriptionFromStripe: two reads and a write by id.                *)

FindLinked(h) ==
  /\ handler[h].pc = "linked"
  /\ IF Linked = {}
     THEN Proceed(h, "unlinked")
     ELSE \E i \in Linked :
            handler' = [handler EXCEPT ![h].pc = "write", ![h].row = i,
                                       ![h].seen = rows[i].pending]
  /\ UNCHANGED <<external, receipt, rows, incidents, history>>

FindUnlinked(h) ==
  /\ handler[h].pc = "unlinked"
  /\ \E i \in IF Unlinked = {} THEN {0} ELSE Unlinked :
       handler' = [handler EXCEPT ![h].pc = "write", ![h].row = i]
  /\ UNCHANGED <<external, receipt, rows, incidents, history>>

\* Mutant: every sync clears the pending change.
AlwaysClear(h) == TRUE

\* shouldClearPendingPlanChange, decided on what was read.
ClearsPending(h) ==
  LET snapshot == log[handler[h].version]
  IN  handler[h].seen = 0 \/ snapshot.plan = "low" \/ snapshot.status \notin Live

PendingKept(h) == IF ClearsPending(h) THEN 0 ELSE rows[handler[h].row].pending

Written(h, pending) ==
  [linked |-> TRUE, status |-> log[handler[h].version].status,
   plan |-> log[handler[h].version].plan, pending |-> pending,
   version |-> handler[h].version]

\* Mutant: an existing row keeps its plan.
KeepPlan(h) ==
  LET i == handler[h].row IN
  IF i = 0 THEN Append(rows, Written(h, 0))
  ELSE [rows EXCEPT ![i] = [Written(h, PendingKept(h)) EXCEPT !.plan = rows[i].plan]]

RowsWritten(h) ==
  LET i == handler[h].row IN
  IF i = 0 THEN Append(rows, Written(h, 0))
  ELSE [rows EXCEPT ![i] = Written(h, PendingKept(h))]

\* What the write does to the two histories: an older state over a newer one,
\* and the clearing of a change that was recorded after the read or that is
\* still ahead at Stripe.
WriteHistory(h) ==
  LET i == handler[h].row  v == handler[h].version IN
  /\ outdated' = (v # Len(log) /\ (outdated \/ (i # 0 /\ rows[i].version > v)))
  /\ mislaid' = (\/ mislaid
                 \/ /\ i # 0
                    /\ rows[i].pending # 0 /\ ClearsPending(h)
                    /\ handler[h].seen # rows[i].pending \/ v # Len(log))

WriteRow(h) ==
  LET i == handler[h].row
      e == handler[h].event
      taken == Linked \ {i} # {}  \* providerSubscriptionId is unique
  IN
  /\ handler[h].pc = "write"
  /\ ~taken
  /\ rows' = RowsWritten(h)
  /\ WriteHistory(h)
  /\ applied' = IF FromStripe(h) THEN applied \union {e} ELSE applied
  /\ CASE FromStripe(h)               -> Answer(h)
       [] handler[h].kind = "sync"    -> End(h)
       [] handler[h].kind = "upgrade" -> Proceed(h, "clear")
  /\ UNCHANGED <<external, receipt, incidents>>

\* The catch of a webhook or a replay stores the message and answers an error.
Failed(h) ==
  LET e == handler[h].event IN
  IF FromStripe(h) /\ receipt[e] = "stored"
  THEN receipt' = [receipt EXCEPT ![e] = "failed"]
  ELSE UNCHANGED receipt

RefuseRow(h) ==
  /\ handler[h].pc = "write"
  /\ Linked \ {handler[h].row} # {}
  /\ Failed(h)
  /\ End(h)
  /\ outdated' = TRUE
  /\ UNCHANGED <<external, rows, incidents, applied, mislaid>>

-----------------------------------------------------------------------------
(* getTenantPlanSnapshot and syncTenantFromStripe: the same sync with what *)
(* Stripe answers now.                                                     *)

Sync(h) ==
  /\ log # <<>>
  /\ Begin(h, [Idle EXCEPT !.pc = "linked", !.version = Len(log)])
  /\ UNCHANGED <<external, receipt, rows, history>>

\* Mutant: only an intent is refreshed.
RefreshesIntent(i) == ~rows[i].linked

\* refreshStripeSubscriptionIfNeeded: the rows for which Stripe is asked.
NeedsRefresh(i) == ~rows[i].linked \/ rows[i].status = "INACTIVE"

\* On every read of the tenant's plan.
Refresh(h) ==
  /\ \E i \in Current : NeedsRefresh(i)
  /\ Sync(h)
  /\ UNCHANGED incidents

\* The operator's sync, also after a cancellation or a reactivation.
OperatorSync(h) ==
  /\ rows # <<>>
  /\ incidents < MaxIncidents /\ WithinTotal
  /\ incidents' = incidents + 1
  /\ Sync(h)

-----------------------------------------------------------------------------
(* updateSubscriptionPlan up and down, cancelPendingSubscriptionPlanChange *)

\* A pending change is released at Stripe before anything else.
ChangePlan(h, kind, first) ==
  /\ \E i \in Linked :
       /\ rows[i].status = "ACTIVE"
       /\ rows[i].plan = IF kind = "upgrade" THEN "low" ELSE "high"
       /\ Begin(h, [Idle EXCEPT !.pc = IF rows[i].pending # 0 THEN "release" ELSE first,
                                !.kind = kind, !.row = i, !.seen = rows[i].pending])
  /\ UNCHANGED <<external, receipt, rows, incidents, history>>

Upgrade(h) == ChangePlan(h, "upgrade", "change")

Downgrade(h) == ChangePlan(h, "downgrade", "schedule")

CancelPending(h) ==
  /\ \E i \in Current :
       /\ rows[i].pending # 0
       /\ Begin(h, [Idle EXCEPT !.pc = "release", !.kind = "cancel", !.row = i,
                                !.seen = rows[i].pending])
  /\ UNCHANGED <<external, receipt, rows, incidents, history>>

\* Fails closed: if the schedule that was read is not active any more, the
\* request ends.
Release(h) ==
  /\ handler[h].pc = "release"
  /\ IF scheduled /\ handler[h].seen = schedules
     THEN /\ scheduled' = FALSE
          /\ Proceed(h, CASE handler[h].kind = "upgrade"   -> "change"
                          [] handler[h].kind = "downgrade" -> "schedule"
                          [] handler[h].kind = "cancel"    -> "clear")
     ELSE UNCHANGED scheduled /\ End(h)
  /\ UNCHANGED <<log, schedules, session, event, receipt, rows, incidents, history>>

\* Stripe changes the plan, and its answer is synced like an event; or it
\* refuses (the invoice is not paid, the subscription is over).
Change(h) ==
  /\ handler[h].pc = "change"
  /\ Latest.status \in Live
  /\ Announce([Latest EXCEPT !.plan = "high"])
  /\ event' = [event EXCEPT ![Len(log')] = "pending"]
  /\ handler' = [handler EXCEPT ![h].pc = "linked", ![h].version = Len(log')]
  /\ UNCHANGED <<schedules, scheduled, session, receipt, rows, incidents, history>>

RefuseChange(h) ==
  /\ handler[h].pc \in {"change", "schedule"}
  /\ End(h)
  /\ UNCHANGED <<external, receipt, rows, incidents, history>>

\* scheduleSubscriptionDowngrade: Stripe allows one schedule at a time.  A
\* tenant whose row is behind may schedule the plan Stripe has already.
Schedule(h) ==
  /\ handler[h].pc = "schedule"
  /\ schedules < MaxSchedules /\ WithinTotal
  /\ ~scheduled
  /\ Latest.status \in Live
  /\ scheduled' = TRUE
  /\ schedules' = schedules + 1
  /\ handler' = [handler EXCEPT ![h].pc = "record", ![h].seen = schedules']
  /\ mislaid' = (mislaid \/ Latest.plan = "low")
  /\ UNCHANGED <<log, session, event, receipt, rows, incidents, applied, outdated>>

Record(h) ==
  /\ handler[h].pc = "record"
  /\ rows' = [rows EXCEPT ![handler[h].row].pending = handler[h].seen]
  /\ mislaid' = (mislaid \/ handler[h].seen # schedules)
  /\ End(h)
  /\ UNCHANGED <<external, receipt, incidents, applied, outdated>>

Clear(h) ==
  LET i == handler[h].row IN
  /\ handler[h].pc = "clear"
  /\ rows' = [rows EXCEPT ![i].pending = 0]
  /\ mislaid' = (mislaid \/ (scheduled /\ rows[i].pending = schedules))
  /\ End(h)
  /\ UNCHANGED <<external, receipt, incidents, applied, outdated>>

-----------------------------------------------------------------------------
\* A statement or a call to Stripe fails, or the process dies: then nothing
\* is stored.  What was to be recorded of a schedule is lost.
CutShort(h) ==
  /\ handler[h].pc # "idle"
  /\ incidents < MaxIncidents /\ WithinTotal
  /\ incidents' = incidents + 1
  /\ Failed(h) \/ UNCHANGED receipt
  /\ outdated' = (outdated \/ FromStripe(h))
  /\ mislaid' = (mislaid \/ handler[h].pc = "record")
  /\ End(h)
  /\ UNCHANGED <<external, rows, applied>>

Deliver(h, e) == AnswerDuplicate(h, e) \/ StoreReceipt(h, e)

Handle(h) ==
  \/ FindIntent(h) \/ KeepIntent(h) \/ Mark(h)
  \/ FindLinked(h) \/ FindUnlinked(h) \/ WriteRow(h) \/ RefuseRow(h)
  \/ Release(h) \/ Change(h) \/ RefuseChange(h) \/ Schedule(h) \/ Record(h) \/ Clear(h)

Next ==
  \/ CompleteCheckout \/ StatusChanges \/ ScheduleRuns
  \/ \E h \in Handlers :
       \/ Checkout(h) \/ Upgrade(h) \/ Downgrade(h) \/ CancelPending(h)
       \/ Refresh(h) \/ OperatorSync(h)
       \/ Handle(h) \/ CutShort(h)
       \/ \E e \in Events : Deliver(h, e) \/ Replay(h, e)

Spec == Init /\ [][Next]_vars

-----------------------------------------------------------------------------
TypeOK ==
  /\ log \in Seq(Snapshot) /\ Len(log) <= MaxChanges
  /\ schedules \in Schedules /\ scheduled \in BOOLEAN /\ session \in Plans \union {NoPlan}
  /\ event \in [Events -> {"none", "pending", "acked"}]
  /\ receipt \in [Events -> {"none", "stored", "failed", "processed"}]
  /\ rows \in Seq(Row)
  /\ handler \in [Handlers -> Handler]
  /\ incidents \in 0..MaxIncidents
  /\ applied \subseteq Events
  /\ outdated \in BOOLEAN /\ mislaid \in BOOLEAN

\* Nothing is under way: no handler, no event still to be delivered.
Quiet ==
  /\ \A h \in Handlers : handler[h].pc = "idle"
  /\ \A e \in Events : event[e] # "pending"

\* Stripe never stops repeating an event that was neither written nor left
\* behind with an unprocessed receipt an operator can find and replay: the
\* receipt is stored first, and a repetition is answered by it unread.
NothingIsLostSilently ==
  \A e \in Events :
    event[e] = "acked" /\ e \notin applied => receipt[e] \in {"stored", "failed"}

\* Once all is quiet the tenant's row is the latest state at Stripe, unless
\* an older state was written over a newer one, the processing of an event
\* failed, or the end of a checkout wrote its intent over a linked row.
RowFollowsStripe ==
  Quiet /\ log # <<>> /\ ~outdated =>
    \E i \in Linked : rows[i].status = Latest.status /\ rows[i].plan = Latest.plan

\* A downgrade scheduled at Stripe is known here and can be canceled, unless
\* its recording was cut off, an older state or a sync that had read the row
\* before cleared it, a request wrote over what another had just scheduled, or
\* it was scheduled by a row that did not know the plan was low already.
ScheduleIsKnown ==
  Quiet /\ scheduled /\ ~mislaid => \E i \in Linked : rows[i].pending = schedules

\* A subscription that is active at Stripe is served once all is quiet, or the
\* next read of the tenant's plan asks Stripe again.  One other end is left, as
\* nothing compares the age of a state with that of the row it is written to:
\* a late past_due leaves a row that no read of the plan refreshes, and whose
\* publishing is blocked after the grace period.  Then an older state was
\* written over a newer one or an event failed, and the row says PAST_DUE,
\* never CANCELED.
PayingIsServed ==
  Quiet /\ log # <<>> /\ Latest.status = "ACTIVE" =>
    \/ \E i \in Linked : rows[i].status = "ACTIVE"
    \/ \A i \in Current : NeedsRefresh(i)
    \/ outdated /\ \E i \in Linked : rows[i].status = "PAST_DUE"

=============================================================================
