---------------------------- MODULE FormDelivery ----------------------------
(***************************************************************************)
(* Inquiry delivery of one site: SubmissionOperationsService.  A visitor's *)
(* submission is turned into form_deliveries rows, a worker in every API   *)
(* process sends the rows that are due, failures are retried with a        *)
(* backoff and flagged by an operational alert, an operator may replay a   *)
(* row.                                                                    *)
(*                                                                         *)
(* A run's guard, deliveryRunInProgress, is a field of one process: runs   *)
(* of two processes overlap.  One action per awaited statement or send.    *)
(*                                                                         *)
(* Wall-clock time is one bit of a row.  A row is ripe when its wait is    *)
(* over: nextAttemptAt reached for a PENDING row, lastAttemptAt five       *)
(* minutes old for a PROCESSING one; a ripe row stays so until rewritten.  *)
(***************************************************************************)
EXTENDS Naturals, Sequences, FiniteSets

CONSTANTS
  Workers,       \* API processes
  Submissions,   \* visitor submissions
  Targets,       \* email recipients and the webhook or CRM integration
  MaxAttempts,   \* FORM_DELIVERY_MAX_ATTEMPTS
  BatchSize,     \* FORM_DELIVERY_BATCH_SIZE
  MaxIncidents   \* bound: operator replays and faults (crashes, failed
                 \* statements, lost answers), counted together

ASSUME SetsAssumption == IsFiniteSet(Workers) /\ IsFiniteSet(Targets)

\* getNumber accepts positive values only.
ASSUME SettingsAssumption ==
  MaxAttempts \in Nat \ {0} /\ BatchSize \in Nat \ {0} /\ MaxIncidents \in Nat

VARIABLES
  rows,      \* the form_deliveries table, in createdAt order
  inquiry,   \* queueSubmissionDelivery of each submission
  worker,    \* processDueDeliveries of each process
  replay,    \* requeueDelivery: the operator's call
  alerts,    \* the two FORM_DELIVERY_FAILURE alerts of the site
  sent,      \* what recipients received: messages per row
  replays,   \* history: rows put back by an operator
  faults     \* history: crashes, failed statements and lost answers

table == <<rows, inquiry, alerts>>
history == <<sent, replays, faults>>
vars == <<rows, inquiry, worker, replay, alerts, sent, replays, faults>>

-----------------------------------------------------------------------------
DeliveryRow ==
  [submission : Submissions, target : Targets, attempts : Nat, ripe : BOOLEAN,
   status : {"PENDING", "PROCESSING", "DELIVERED", "FAILED"}]

Run == [pc : {"idle", "read", "lock", "deliver", "delivered", "failed", "refresh", "alert"},
        scope : SUBSET Submissions,  \* options.submissionId, or all
        due : Seq(Nat \ {0}),        \* what is left of `due`
        attempt : Nat,               \* locked.attempts
        retryable : BOOLEAN,         \* failure.retryable
        sawFailed : BOOLEAN]         \* latestFailed is not null

Stopped == [pc |-> "idle", scope |-> {}, due |-> <<>>, attempt |-> 0,
            retryable |-> TRUE, sawFailed |-> FALSE]

NoReplay == [pc |-> "idle", row |-> 0]

Settled(i) == rows[i].status \in {"DELIVERED", "FAILED"}

RowsOf(s) == {i \in DOMAIN rows : rows[i].submission = s}

HasFailed == \E i \in DOMAIN rows : rows[i].status = "FAILED"

Goto(w, label) == worker' = [worker EXCEPT ![w].pc = label]

\* Mutant: rows left in PROCESSING are not reclaimed.
IsDueUnlessProcessing(i) == rows[i].status = "PENDING" /\ rows[i].ripe

\* where: { OR: [PENDING and nextAttemptAt reached, PROCESSING and stale] }
IsDue(i) == rows[i].status \in {"PENDING", "PROCESSING"} /\ rows[i].ripe

\* orderBy createdAt, take BatchSize: the first of the due rows, in order.
\* There is one such list.
Batches(scope) ==
  LET due == {i \in DOMAIN rows : IsDue(i) /\ rows[i].submission \in scope}
      n   == IF Cardinality(due) < BatchSize THEN Cardinality(due) ELSE BatchSize
  IN  {batch \in [1..n -> due] :
         /\ \A i, j \in 1..n : i < j => batch[i] < batch[j]
         /\ \A d \in due : (\E i \in 1..n : batch[i] = d) \/ \A i \in 1..n : batch[i] < d}

-----------------------------------------------------------------------------
Init ==
  /\ rows = <<>>
  /\ inquiry = [s \in Submissions |-> [pc |-> "none", targets |-> {}]]
  /\ worker = [w \in Workers |-> Stopped]
  /\ replay = NoReplay
  /\ alerts = [failure |-> "none", routing |-> "none"]
  /\ sent = <<>>
  /\ replays = 0 /\ faults = 0

-----------------------------------------------------------------------------
(* queueSubmissionDelivery.                                                *)

Fault == replays + faults < MaxIncidents /\ faults' = faults + 1

\* The submission is stored and its targets resolved from the site's
\* routing, which may name none.
ResolveTargets(s, targets) ==
  /\ inquiry[s].pc = "none"
  /\ inquiry' = [inquiry EXCEPT ![s] =
       [pc |-> IF targets = {} THEN "unrouted" ELSE "routed", targets |-> targets]]
  /\ UNCHANGED <<rows, worker, replay, alerts, history>>

OpenRoutingAlert(s) ==
  /\ inquiry[s].pc = "unrouted"
  /\ alerts' = [alerts EXCEPT !.routing = "open"]
  /\ inquiry' = [inquiry EXCEPT ![s].pc = "queued"]
  /\ UNCHANGED <<rows, worker, replay, history>>

Resolved(alert) == IF alert = "open" THEN "resolved" ELSE alert

ResolveRoutingAlert(s) ==
  /\ inquiry[s].pc = "routed"
  /\ alerts' = [alerts EXCEPT !.routing = Resolved(@)]
  /\ inquiry' = [inquiry EXCEPT ![s].pc = "create"]
  /\ UNCHANGED <<rows, worker, replay, history>>

\* Mutant: the first target only.
CreateOneDelivery(s) ==
  /\ inquiry[s].pc = "create"
  /\ \E t \in inquiry[s].targets :
       rows' = Append(rows, [submission |-> s, target |-> t, attempts |-> 0,
                             ripe |-> TRUE, status |-> "PENDING"])
  /\ sent' = Append(sent, 0)
  /\ inquiry' = [inquiry EXCEPT ![s].pc = "kick"]
  /\ UNCHANGED <<worker, replay, alerts, replays, faults>>

\* createMany: the targets without a row yet, in any order.
CreateDeliveries(s) ==
  /\ inquiry[s].pc = "create"
  /\ LET new == inquiry[s].targets \ {rows[i].target : i \in RowsOf(s)} IN
     \E order \in {f \in [1..Cardinality(new) -> new] :
                     new = {f[i] : i \in 1..Cardinality(new)}} :
       /\ rows' = rows \o [i \in DOMAIN order |->
            [submission |-> s, target |-> order[i], attempts |-> 0,
             ripe |-> TRUE, status |-> "PENDING"]]
       /\ sent' = sent \o [i \in DOMAIN order |-> 0]
  /\ inquiry' = [inquiry EXCEPT ![s].pc = "kick"]
  /\ UNCHANGED <<worker, replay, alerts, replays, faults>>

\* The handler is over before its end: submit logs the error, or the process
\* is gone.  Nothing queues the submission again.
QueueFails(s) ==
  /\ inquiry[s].pc \in {"unrouted", "routed", "create"}
  /\ Fault
  /\ inquiry' = [inquiry EXCEPT ![s].pc = "queued"]
  /\ UNCHANGED <<rows, worker, replay, alerts, sent, replays>>

-----------------------------------------------------------------------------
(* processDueDeliveries.                                                   *)

\* A run that finds deliveryRunInProgress set returns.
StartRun(w, scope) ==
  worker' = IF worker[w].pc = "idle"
            THEN [worker EXCEPT ![w] = [Stopped EXCEPT !.pc = "read", !.scope = scope]]
            ELSE worker

\* The interval timer, and the microtask of a process that has started.
Poll(w) ==
  /\ worker[w].pc = "idle"
  /\ StartRun(w, Submissions)
  /\ UNCHANGED <<table, replay, history>>

\* The scoped run queueSubmissionDelivery starts and does not wait for.
KickQueued(s, w) ==
  /\ inquiry[s].pc = "kick"
  /\ StartRun(w, {s})
  /\ inquiry' = [inquiry EXCEPT ![s].pc = "queued"]
  /\ UNCHANGED <<rows, alerts, replay, history>>

ReadDue(w) ==
  /\ worker[w].pc = "read"
  /\ \E due \in Batches(worker[w].scope) :
       worker' = [worker EXCEPT ![w] =
         IF due = <<>> THEN Stopped ELSE [@ EXCEPT !.pc = "lock", !.due = due]]
  /\ UNCHANGED <<table, replay, history>>

Current(w) == Head(worker[w].due)

\* Mutant: the attempt is counted when it is recorded as failed.
LockUncounted(w) ==
  /\ worker[w].pc = "lock"
  /\ rows' = [rows EXCEPT ![Current(w)] = [@ EXCEPT !.status = "PROCESSING", !.ripe = FALSE]]
  /\ worker' = [worker EXCEPT ![w] =
       [@ EXCEPT !.pc = "deliver", !.attempt = rows[Current(w)].attempts + 1]]
  /\ UNCHANGED <<inquiry, alerts, replay, sent, replays, faults>>

\* The update has no condition on the row's status.
Lock(w) ==
  /\ worker[w].pc = "lock"
  /\ LET attempts == rows[Current(w)].attempts + 1 IN
     /\ rows' = [rows EXCEPT ![Current(w)] =
          [@ EXCEPT !.status = "PROCESSING", !.attempts = attempts, !.ripe = FALSE]]
     /\ worker' = [worker EXCEPT ![w] = [@ EXCEPT !.pc = "deliver", !.attempt = attempts]]
  /\ UNCHANGED <<inquiry, alerts, replay, sent, replays, faults>>

Failing(w, retryable) ==
  worker' = [worker EXCEPT ![w] = [@ EXCEPT !.pc = "failed", !.retryable = retryable]]

\* Mutant: an accepted message with another code than 200 counts as failed.
DeliverAcceptedAsFailed(w) ==
  /\ worker[w].pc = "deliver"
  /\ Failing(w, TRUE)
  /\ sent' = [sent EXCEPT ![Current(w)] = @ + 1]
  /\ UNCHANGED <<table, replay, replays, faults>>

\* deliver: SMTP or the integration takes the message ...
DeliverAccepted(w) ==
  /\ worker[w].pc = "deliver"
  /\ Goto(w, "delivered")
  /\ sent' = [sent EXCEPT ![Current(w)] = @ + 1]
  /\ UNCHANGED <<table, replay, replays, faults>>

\* ... refuses it ...
DeliverRefused(w, retryable) ==
  /\ worker[w].pc = "deliver"
  /\ Failing(w, retryable)
  /\ UNCHANGED <<table, replay, history>>

\* ... or takes it and its answer is lost: a timeout is retryable.
DeliverUnanswered(w) ==
  /\ worker[w].pc = "deliver"
  /\ Fault
  /\ Failing(w, TRUE)
  /\ sent' = [sent EXCEPT ![Current(w)] = @ + 1]
  /\ UNCHANGED <<table, replay, replays>>

\* The rest of the batch, or the alert of the touched site.
NextDelivery(w) ==
  LET rest == Tail(worker[w].due) IN
  worker' = [worker EXCEPT ![w] = [@ EXCEPT
    !.due = rest, !.pc = IF rest = <<>> THEN "refresh" ELSE "lock"]]

\* Mutant: a status the enum does not have.
RecordSent(w) ==
  /\ worker[w].pc = "delivered"
  /\ rows' = [rows EXCEPT ![Current(w)] = [@ EXCEPT !.status = "SENT", !.ripe = FALSE]]
  /\ NextDelivery(w)
  /\ UNCHANGED <<inquiry, alerts, replay, history>>

RecordDelivered(w) ==
  /\ worker[w].pc = "delivered"
  /\ rows' = [rows EXCEPT ![Current(w)] = [@ EXCEPT !.status = "DELIVERED", !.ripe = FALSE]]
  /\ NextDelivery(w)
  /\ UNCHANGED <<inquiry, alerts, replay, history>>

\* The update is in the same try as the send: its failure is a failed send.
RecordDeliveredFails(w) ==
  /\ worker[w].pc = "delivered"
  /\ Fault
  /\ Failing(w, TRUE)
  /\ UNCHANGED <<table, replay, sent, replays>>

RecordFailure(w) ==
  /\ worker[w].pc = "failed"
  /\ LET terminal == ~worker[w].retryable \/ worker[w].attempt >= MaxAttempts IN
     rows' = [rows EXCEPT ![Current(w)] = [@ EXCEPT
       !.status = IF terminal THEN "FAILED" ELSE "PENDING", !.ripe = FALSE]]
  /\ NextDelivery(w)
  /\ UNCHANGED <<inquiry, alerts, replay, history>>

\* refreshDeliveryFailureAlert: the query ...
RefreshRead(w) ==
  /\ worker[w].pc = "refresh"
  /\ worker' = [worker EXCEPT ![w] = [@ EXCEPT !.pc = "alert", !.sawFailed = HasFailed]]
  /\ UNCHANGED <<table, replay, sent, replays, faults>>

\* Mutant: the alert is only ever resolved by the operator.
RefreshWriteOpening(w) ==
  /\ worker[w].pc = "alert"
  /\ alerts' = [alerts EXCEPT !.failure = IF worker[w].sawFailed THEN "open" ELSE @]
  /\ worker' = [worker EXCEPT ![w] = Stopped]
  /\ UNCHANGED <<rows, inquiry, replay, history>>

\* ... and what follows from it: openAlert or resolveAlert.
RefreshWrite(w) ==
  /\ worker[w].pc = "alert"
  /\ alerts' = [alerts EXCEPT !.failure =
       IF worker[w].sawFailed THEN "open" ELSE Resolved(@)]
  /\ worker' = [worker EXCEPT ![w] = Stopped]
  /\ UNCHANGED <<rows, inquiry, replay, history>>

\* The process dies, or a statement outside the try fails: `finally` resets
\* the flag and the rows stay as they are.
RunFails(w) ==
  /\ worker[w].pc # "idle"
  /\ Fault
  /\ worker' = [worker EXCEPT ![w] = Stopped]
  /\ UNCHANGED <<table, replay, sent, replays>>

\* A wait ends: the backoff of a PENDING row, the five minutes after which a
\* PROCESSING row counts as abandoned, whether or not a run still has it.
Elapse(i) ==
  /\ rows[i].status \in {"PENDING", "PROCESSING"} /\ ~rows[i].ripe
  /\ rows' = [rows EXCEPT ![i].ripe = TRUE]
  /\ UNCHANGED <<inquiry, worker, replay, alerts, history>>

-----------------------------------------------------------------------------
(* requeueDelivery.                                                        *)

ReplayRead(i) ==
  /\ replay.pc = "idle" /\ replays + faults < MaxIncidents
  /\ rows[i].status # "DELIVERED"
  /\ replay' = [pc |-> "update", row |-> i]
  /\ UNCHANGED <<table, worker, history>>

ReplayUpdate ==
  /\ replay.pc = "update"
  /\ rows' = [rows EXCEPT ![replay.row] = [@ EXCEPT !.status = "PENDING", !.ripe = TRUE]]
  /\ replay' = [replay EXCEPT !.pc = "kick"]
  /\ replays' = replays + 1
  /\ UNCHANGED <<inquiry, worker, alerts, sent, faults>>

\* `await this.processDueDeliveries({ submissionId })` in one of the processes.
KickReplayed(w) ==
  /\ replay.pc = "kick"
  /\ StartRun(w, {rows[replay.row].submission})
  /\ replay' = NoReplay
  /\ UNCHANGED <<table, history>>

-----------------------------------------------------------------------------
RunStep(w) ==
  \/ ReadDue(w) \/ Lock(w) \/ DeliverAccepted(w) \/ DeliverRefused(w, TRUE)
  \/ DeliverRefused(w, FALSE) \/ DeliverUnanswered(w) \/ RecordDelivered(w)
  \/ RecordDeliveredFails(w) \/ RecordFailure(w) \/ RefreshRead(w) \/ RefreshWrite(w)

Next ==
  \/ \E s \in Submissions :
       \/ \E targets \in SUBSET Targets : ResolveTargets(s, targets)
       \/ OpenRoutingAlert(s) \/ ResolveRoutingAlert(s) \/ CreateDeliveries(s)
       \/ QueueFails(s) \/ \E w \in Workers : KickQueued(s, w)
  \/ \E w \in Workers : Poll(w) \/ RunStep(w) \/ RunFails(w) \/ KickReplayed(w)
  \/ \E i \in DOMAIN rows : Elapse(i) \/ ReplayRead(i)
  \/ ReplayUpdate

Spec == Init /\ [][Next]_vars

\* Every process keeps its timer, a send is answered or times out, time passes.
FairSpec ==
  /\ Spec
  /\ \A w \in Workers : WF_vars(Poll(w)) /\ WF_vars(RunStep(w))
  /\ WF_vars(\E i \in DOMAIN rows : Elapse(i))

-----------------------------------------------------------------------------
(* Properties.                                                             *)

TypeOK ==
  /\ rows \in Seq(DeliveryRow)
  /\ inquiry \in [Submissions -> [pc : {"none", "unrouted", "routed", "create", "kick", "queued"},
                                  targets : SUBSET Targets]]
  /\ worker \in [Workers -> Run]
  /\ replay \in [pc : {"idle", "update", "kick"}, row : Nat]
  /\ alerts \in [failure : {"none", "open", "resolved"},
                 routing : {"none", "open", "resolved"}]
  /\ sent \in Seq(Nat) /\ Len(sent) = Len(rows)
  /\ replays \in Nat /\ faults \in Nat

\* No message leaves without an attempt on record, whatever crashes and
\* whichever processes send the same row: `attempts` is counted before the
\* send, so it bounds what a recipient can receive.
AttemptsCoverSends ==
  \A i \in DOMAIN rows : sent[i] <= rows[i].attempts

\* With one process, a recipient gets a message twice, and a row an attempt
\* beyond FORM_DELIVERY_MAX_ATTEMPTS, only by a fault or an operator's
\* replay: retries alone never duplicate.
ExcessIsExplained ==
  \A i \in DOMAIN rows :
    /\ sent[i] <= 1 + faults + replays
    /\ rows[i].attempts <= MaxAttempts + faults + replays

\* With one process and no fault, the alert of a site at rest tells the
\* truth: open if a row FAILED, and open only if one did or is tried again.
AlertTellsFailures ==
  faults = 0 /\ (\A w \in Workers : worker[w].pc = "idle") =>
    /\ HasFailed => alerts.failure = "open"
    /\ alerts.failure = "open" => \E i \in DOMAIN rows : rows[i].status # "DELIVERED"

\* Without faults, a queued inquiry has a row for each of its targets or has
\* raised the routing alert.
InquiriesAreRouted ==
  \A s \in Submissions :
    faults = 0 /\ inquiry[s].pc = "queued" =>
      IF inquiry[s].targets = {} THEN alerts.routing # "none"
      ELSE inquiry[s].targets = {rows[i].target : i \in RowsOf(s)}

\* Every delivery ends DELIVERED or FAILED, also when the process that had
\* it died in the middle of an attempt.
DeliveriesSettle ==
  \A i \in 1..(Cardinality(Submissions) * Cardinality(Targets)) :
    i \in DOMAIN rows ~> i \in DOMAIN rows /\ Settled(i)

\* requeueDelivery: "Throws when the row is missing or already delivered": a
\* replay never puts a DELIVERED row back.
ReplaysSpareDelivered ==
  [][\A i \in DOMAIN rows :
       rows[i].status = "DELIVERED" /\ replays' # replays => rows'[i].status = "DELIVERED"]_vars
=============================================================================
