------------------------- MODULE BillingApprovals --------------------------
(***************************************************************************)
(* The two-operator approval of refunds, credits and entitlement           *)
(* overrides: OperatorBillingService with operatorRefundInvoice.           *)
(*                                                                         *)
(* A verdict reads the request, checks that it is pending, and writes it   *)
(* by id in a later statement; an approval then carries the action out and *)
(* writes the request again. Verdicts on one request may cross.            *)
(***************************************************************************)
EXTENDS Naturals, Sequences

CONSTANTS
  Operators,     \* operators of the platform
  Handlers,      \* calls of approveActionRequest and rejectActionRequest
  Nobody,        \* no operator (approverUserId is null)
  MaxRequests,   \* bound: action requests
  MaxFaults      \* bound: crashes, failed statements and unanswered calls

ASSUME NobodyAssumption == Nobody \notin Operators

ASSUME BoundsAssumption == MaxRequests \in Nat /\ MaxFaults \in Nat

VARIABLES
  requests,    \* billing_action_requests, by creation order
  overrides,   \* billing_entitlement_overrides, by creation order
  stripe,      \* Stripe's answer to the idempotency key of each request
  handler,     \* the local variables of each call and its next statement
  trail,       \* history: who passed the check, who carried an action out
  faults       \* crashes, failed statements and unanswered calls so far

tables == <<requests, overrides, stripe>>

vars == <<requests, overrides, stripe, handler, trail, faults>>

-----------------------------------------------------------------------------
Kinds == {"refund", "credit", "override", "revoke"}

\* of: the override a "revoke" is about.
Request == [kind : Kinds, by : Operators, of : Nat,
            status : {"PENDING_APPROVAL", "APPROVED", "REJECTED", "EXECUTED", "FAILED"},
            approver : Operators \cup {Nobody}]

Override == [request : Nat, revoked : BOOLEAN]

\* What Stripe keeps for an idempotency key, and the refunds made with it.
Answer == [kept : {"none", "refunded", "refused"}, refunds : Nat]

Handler == [pc : {"idle", "approve", "reject", "execute", "persist", "record", "fail"},
            operator : Operators \cup {Nobody}, request : Nat]

Idle == [pc |-> "idle", operator |-> Nobody, request |-> 0]

Mine(h) == handler[h].request

Goto(h, label) == handler' = [handler EXCEPT ![h].pc = label]

End(h) == handler' = [handler EXCEPT ![h] = Idle]

\* At a statement of executeApprovedAction's case for this kind.
Executing(h, kind) == handler[h].pc = "execute" /\ requests[Mine(h)].kind = kind

-----------------------------------------------------------------------------
Init ==
  /\ requests = <<>> /\ overrides = <<>> /\ stripe = <<>> /\ trail = <<>>
  /\ handler = [h \in Handlers |-> Idle]
  /\ faults = 0

\* Each request has a random idempotency key of its own.
Open(o, kind, v) ==
  /\ Len(requests) < MaxRequests
  /\ requests' = Append(requests,
       [kind |-> kind, by |-> o, of |-> v, status |-> "PENDING_APPROVAL", approver |-> Nobody])
  /\ stripe' = Append(stripe, [kept |-> "none", refunds |-> 0])
  /\ trail' = Append(trail, [heard |-> {}, agents |-> {}])
  /\ UNCHANGED <<overrides, handler, faults>>

RequestRefund(o) == Open(o, "refund", 0)

RequestIssueCredit(o) == Open(o, "credit", 0)

RequestOverrideCreate(o) == Open(o, "override", 0)

RequestOverrideRevoke(o, v) ==
  /\ ~overrides[v].revoked
  /\ Open(o, "revoke", v)

-----------------------------------------------------------------------------
(* The verdict of an operator: the check, and the write by id.             *)

Check(h, o, i, label) ==
  /\ handler[h].pc = "idle"
  /\ requests[i].status = "PENDING_APPROVAL"
  /\ handler' = [handler EXCEPT ![h] = [pc |-> label, operator |-> o, request |-> i]]
  /\ trail' = [trail EXCEPT ![i].heard = @ \cup {o}]
  /\ UNCHANGED <<requests, overrides, stripe, faults>>

\* Mutant: no check of who asked for the action.
CheckAnyApproval(h, o, i) == Check(h, o, i, "approve")

CheckApproval(h, o, i) ==
  /\ requests[i].by # o
  /\ Check(h, o, i, "approve")

CheckRejection(h, o, i) == Check(h, o, i, "reject")

Decide(h, status) ==
  /\ requests' = [requests EXCEPT ![Mine(h)].status = status,
                                  ![Mine(h)].approver = handler[h].operator]
  /\ UNCHANGED <<overrides, stripe, trail, faults>>

\* Mutant: the row says EXECUTED before the action is carried out.
WriteApprovedAsExecuted(h) ==
  /\ handler[h].pc = "approve"
  /\ Decide(h, "EXECUTED")
  /\ Goto(h, "execute")

WriteApproved(h) ==
  /\ handler[h].pc = "approve"
  /\ Decide(h, "APPROVED")
  /\ Goto(h, "execute")

WriteRejected(h) ==
  /\ handler[h].pc = "reject"
  /\ Decide(h, "REJECTED")
  /\ End(h)

-----------------------------------------------------------------------------
(* executeApprovedAction, under the approval of the handler's operator.    *)

Trace(h) == trail' = [trail EXCEPT ![Mine(h)].agents = @ \cup {handler[h].operator}]

CarryOut(h, label) == Trace(h) /\ Goto(h, label)

\* The invoice is another tenant's, or has no payment.
RefuseInvoice(h) ==
  /\ Executing(h, "refund")
  /\ Goto(h, "fail")
  /\ UNCHANGED <<tables, trail, faults>>

\* Mutant: each call has a key of its own.
RefundUnkeyed(h) ==
  /\ Executing(h, "refund")
  /\ stripe' = [stripe EXCEPT ![Mine(h)] = [kept |-> "refunded", refunds |-> @.refunds + 1]]
  /\ CarryOut(h, "persist")
  /\ UNCHANGED <<requests, overrides, faults>>

\* refunds.create with the request's key: the first call makes the refund or
\* is refused, and Stripe answers every later one with what it answered then.
Refund(h) ==
  /\ Executing(h, "refund")
  /\ \/ /\ stripe[Mine(h)].kept \in {"none", "refunded"}
        /\ stripe' = [stripe EXCEPT ![Mine(h)] = [kept |-> "refunded", refunds |-> 1]]
        /\ CarryOut(h, "persist")
     \/ /\ stripe[Mine(h)].kept \in {"none", "refused"}
        /\ stripe' = [stripe EXCEPT ![Mine(h)].kept = "refused"]
        /\ Goto(h, "fail")
        /\ UNCHANGED trail
  /\ UNCHANGED <<requests, overrides, faults>>

\* The refund is made, its answer lost.
RefundUnanswered(h) ==
  /\ Executing(h, "refund")
  /\ stripe[Mine(h)].kept \in {"none", "refunded"}
  /\ faults < MaxFaults /\ faults' = faults + 1
  /\ stripe' = [stripe EXCEPT ![Mine(h)] = [kept |-> "refunded", refunds |-> 1]]
  /\ CarryOut(h, "fail")
  /\ UNCHANGED <<requests, overrides>>

\* persistInvoiceSnapshot and recordInvoicePaymentEvent.
PersistInvoice(h) ==
  /\ handler[h].pc = "persist"
  /\ Goto(h, "record")
  /\ UNCHANGED <<tables, trail, faults>>

\* The credit note itself is left to finance: the approval is the action.
IssueCredit(h) ==
  /\ Executing(h, "credit")
  /\ requests' = [requests EXCEPT ![Mine(h)].status = "EXECUTED"]
  /\ Trace(h)
  /\ End(h)
  /\ UNCHANGED <<overrides, stripe, faults>>

\* Mutant: the override names who approved it in place of the request.
CreateOverrideByOperator(h) ==
  /\ Executing(h, "override")
  /\ overrides' = Append(overrides, [request |-> handler[h].operator, revoked |-> FALSE])
  /\ CarryOut(h, "record")
  /\ UNCHANGED <<requests, stripe, faults>>

CreateOverride(h) ==
  /\ Executing(h, "override")
  /\ overrides' = Append(overrides, [request |-> Mine(h), revoked |-> FALSE])
  /\ CarryOut(h, "record")
  /\ UNCHANGED <<requests, stripe, faults>>

RevokeOverride(h) ==
  /\ Executing(h, "revoke")
  /\ overrides' = [overrides EXCEPT ![requests[Mine(h)].of].revoked = TRUE]
  /\ CarryOut(h, "record")
  /\ UNCHANGED <<requests, stripe, faults>>

Finish(h, label, status) ==
  /\ handler[h].pc = label
  /\ requests' = [requests EXCEPT ![Mine(h)].status = status]
  /\ End(h)
  /\ UNCHANGED <<overrides, stripe, trail, faults>>

WriteExecuted(h) == Finish(h, "record", "EXECUTED")

WriteFailed(h) == Finish(h, "fail", "FAILED")

-----------------------------------------------------------------------------
\* A statement throws inside the try around executeApprovedAction.
StepFails(h) ==
  /\ handler[h].pc \in {"execute", "persist", "record"}
  /\ faults < MaxFaults /\ faults' = faults + 1
  /\ Goto(h, "fail")
  /\ UNCHANGED <<tables, trail>>

\* The process dies, or a statement outside of the try throws.
Crash(h) ==
  /\ handler[h].pc # "idle"
  /\ faults < MaxFaults /\ faults' = faults + 1
  /\ End(h)
  /\ UNCHANGED <<tables, trail>>

OperatorAsks ==
  \E o \in Operators :
    \/ RequestRefund(o)
    \/ RequestIssueCredit(o)
    \/ RequestOverrideCreate(o)
    \/ \E v \in DOMAIN overrides : RequestOverrideRevoke(o, v)

OperatorDecides ==
  \E h \in Handlers, o \in Operators, i \in DOMAIN requests :
    CheckApproval(h, o, i) \/ CheckRejection(h, o, i)

HandlerStep(h) ==
  \/ WriteApproved(h)
  \/ WriteRejected(h)
  \/ RefuseInvoice(h)
  \/ Refund(h)
  \/ PersistInvoice(h)
  \/ IssueCredit(h)
  \/ CreateOverride(h)
  \/ RevokeOverride(h)
  \/ WriteExecuted(h)
  \/ WriteFailed(h)

Next ==
  \/ OperatorAsks
  \/ OperatorDecides
  \/ \E h \in Handlers : HandlerStep(h) \/ RefundUnanswered(h) \/ StepFails(h) \/ Crash(h)

Spec == Init /\ [][Next]_vars

-----------------------------------------------------------------------------
\* Requests, overrides, Stripe's answers and handlers keep their types.
TypeOK ==
  /\ requests \in Seq(Request)
  /\ overrides \in Seq(Override)
  /\ stripe \in Seq(Answer) /\ Len(stripe) = Len(requests)
  /\ handler \in [Handlers -> Handler]
  /\ trail \in Seq([heard : SUBSET Operators, agents : SUBSET Operators])
  /\ Len(trail) = Len(requests)
  /\ faults \in Nat

\* "The original operator cannot self-approve": no action is carried out
\* under the approval of the operator who asked for it, and no row names
\* that operator as its approver, unless their own rejection passed the
\* check (rejectActionRequest lets them, and overwrites what it crosses).
FourEyes ==
  \A i \in DOMAIN requests :
    /\ requests[i].by \notin trail[i].agents
    /\ requests[i].approver = requests[i].by => requests[i].by \in trail[i].heard

\* "so retries don't double charge / double refund": a request is refunded
\* once, although several operators may approve it at the same time and the
\* answer of the first call may be lost.
RefundedOnce == \A i \in DOMAIN requests : stripe[i].refunds <= 1

\* What the request asks for has happened; a credit asks for nothing else
\* than the approval.
TookEffect(i) ==
  /\ trail[i].agents # {}
  /\ requests[i].kind = "refund" => stripe[i].refunds > 0
  /\ requests[i].kind = "override" => \E v \in DOMAIN overrides : overrides[v].request = i
  /\ requests[i].kind = "revoke" => overrides[requests[i].of].revoked

\* EXECUTED tells the truth, although verdicts that cross write the status
\* over each other: somebody approved the request, and it took effect.
ExecutedIsTrue ==
  \A i \in DOMAIN requests : requests[i].status = "EXECUTED" => TookEffect(i)

\* An operator other than who asked for the action has passed the check.
Backed(i) == \E o \in trail[i].heard : o # requests[i].by

\* The other direction: what has happened was asked for and seen by two. Every
\* refund, override and revocation goes back to a request of its kind that an
\* operator other than its author took up, whatever the rows say by now.
EffectsAreApproved ==
  /\ \A i \in DOMAIN requests :
       stripe[i].refunds > 0 => requests[i].kind = "refund" /\ Backed(i)
  /\ \A v \in DOMAIN overrides :
       /\ \E i \in DOMAIN requests :
            overrides[v].request = i /\ requests[i].kind = "override" /\ Backed(i)
       /\ overrides[v].revoked =>
            \E i \in DOMAIN requests :
              requests[i].kind = "revoke" /\ requests[i].of = v /\ Backed(i)

=============================================================================
