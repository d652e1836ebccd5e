----------------------- MODULE BillingApprovalsProofs -----------------------
(* Proofs about BillingApprovals, for any number of operators, calls,      *)
(* requests and faults.                                                    *)
EXTENDS BillingApprovals, SequenceTheorems, TLAPS

\* The statements of an approval, and those behind the action itself.
Approving == {"approve", "execute", "persist", "record"}

\* What a call knows of its request at each statement.
HandlerOK(q) ==
  q.pc # "idle" =>
    /\ q.request \in DOMAIN requests
    /\ q.operator \in trail[q.request].heard
    /\ q.pc \in Approving => q.operator # requests[q.request].by
    /\ q.pc \in {"persist", "record"} => TookEffect(q.request)

HandlersOK == \A h \in Handlers : HandlerOK(handler[h])

\* A revocation names an override that exists.
RevocationsOK ==
  \A i \in DOMAIN requests :
    requests[i].kind = "revoke" => requests[i].of \in DOMAIN overrides

IInv == /\ TypeOK
        /\ HandlersOK
        /\ RevocationsOK
        /\ FourEyes
        /\ RefundedOnce
        /\ ExecutedIsTrue

Trail == [heard : SUBSET Operators, agents : SUBSET Operators]

-----------------------------------------------------------------------------
LEMMA InitIInv == Init => IInv
<1> SUFFICES ASSUME Init PROVE IInv
  OBVIOUS
<1>1. <<>> \in Seq(Request) /\ <<>> \in Seq(Override) /\ <<>> \in Seq(Answer)
      /\ <<>> \in Seq(Trail) /\ Len(<<>>) = 0 /\ DOMAIN <<>> = {}
  OBVIOUS
<1>2. TypeOK
  BY <1>1 DEF Init, TypeOK, Idle, Handler, Trail
<1> QED
  BY <1>1, <1>2 DEF Init, IInv, HandlersOK, HandlerOK, Idle, RevocationsOK, FourEyes,
       RefundedOnce, ExecutedIsTrue

LEMMA ElementType ==
  ASSUME NEW S, NEW q \in Seq(S), NEW i \in DOMAIN q PROVE q[i] \in S /\ i \in Nat
OBVIOUS

\* The rows of a request, by its number.
LEMMA RowTypes ==
  ASSUME TypeOK, NEW i \in DOMAIN requests
  PROVE  /\ requests[i] \in Request /\ stripe[i] \in Answer /\ trail[i] \in Trail
         /\ i \in DOMAIN stripe /\ i \in DOMAIN trail /\ i \in Nat
<1>1. requests \in Seq(Request) /\ stripe \in Seq(Answer) /\ trail \in Seq(Trail)
  BY DEF TypeOK, Trail
<1>2. i \in DOMAIN stripe /\ i \in DOMAIN trail
  <2> HIDE DEF Trail
  <2> QED
    BY <1>1 DEF TypeOK
<1> HIDE DEF Trail
<1>3. requests[i] \in Request /\ i \in Nat
  BY <1>1, ElementType
<1>4. stripe[i] \in Answer
  BY <1>1, <1>2, ElementType
<1>5. trail[i] \in Trail
  BY <1>1, <1>2, ElementType
<1> QED
  BY <1>2, <1>3, <1>4, <1>5

-----------------------------------------------------------------------------
\* What calls and rows rely on is not taken back.
Grows ==
  /\ DOMAIN requests \subseteq DOMAIN requests'
  /\ \A i \in DOMAIN requests :
       /\ requests'[i].kind = requests[i].kind
       /\ requests'[i].by = requests[i].by
       /\ requests'[i].of = requests[i].of
       /\ trail[i].heard \subseteq trail'[i].heard
       /\ trail[i].agents \subseteq trail'[i].agents
       /\ stripe[i].refunds <= stripe'[i].refunds
  /\ DOMAIN overrides \subseteq DOMAIN overrides'
  /\ \A v \in DOMAIN overrides :
       /\ overrides'[v].request = overrides[v].request
       /\ overrides[v].revoked => overrides'[v].revoked

LEMMA EffectStays ==
  ASSUME IInv, TypeOK', Grows, NEW i \in DOMAIN requests, TookEffect(i)
  PROVE  TookEffect(i)'
<1>1. i \in DOMAIN requests'
  BY DEF Grows
<1>2. trail'[i].agents # {}
  BY DEF Grows, TookEffect
<1>3. ASSUME requests'[i].kind = "refund" PROVE stripe'[i].refunds > 0
  <2>1. requests[i].kind = "refund" /\ stripe[i].refunds <= stripe'[i].refunds
    BY <1>3 DEF Grows
  <2>2. stripe[i].refunds \in Nat
    BY RowTypes DEF IInv, Answer
  <2>3. stripe'[i].refunds \in Nat
    <3>1. stripe' \in Seq(Answer)
      BY DEF TypeOK
    <3>2. i \in DOMAIN stripe'
      BY <1>1 DEF TypeOK
    <3>3. stripe'[i] \in Answer
      BY <3>1, <3>2, ElementType
    <3> QED
      BY <3>3 DEF Answer
  <2> QED
    BY <2>1, <2>2, <2>3 DEF TookEffect
<1>4. ASSUME requests'[i].kind = "override"
      PROVE  \E v \in DOMAIN overrides' : overrides'[v].request = i
  BY <1>4 DEF Grows, TookEffect
<1>5. ASSUME requests'[i].kind = "revoke" PROVE overrides'[requests'[i].of].revoked
  BY <1>5 DEF Grows, TookEffect, IInv, RevocationsOK
<1> QED
  BY <1>2, <1>3, <1>4, <1>5 DEF TookEffect

\* A step preserves the invariant if what others rely on stays, the new state
\* of the call that makes it fits, and so do the rows that changed.
LEMMA StepInv ==
  ASSUME IInv, TypeOK', Grows,
         \A g \in Handlers : handler'[g] = handler[g] \/ HandlerOK(handler[g])',
         RevocationsOK', FourEyes', RefundedOnce',
         \A i \in DOMAIN requests' :
           requests'[i].status = "EXECUTED" =>
             \/ i \in DOMAIN requests /\ requests[i].status = "EXECUTED"
             \/ TookEffect(i)'
  PROVE  IInv'
<1>1. HandlersOK'
  <2> SUFFICES ASSUME NEW g \in Handlers PROVE HandlerOK(handler[g])'
    BY DEF HandlersOK
  <2>1. CASE handler'[g] = handler[g]
    <3>1. handler'[g] = handler[g] /\ HandlerOK(handler[g])
      BY <2>1 DEF IInv, HandlersOK
    <3>2. \A j \in DOMAIN requests : TookEffect(j) => TookEffect(j)'
      BY EffectStays
    <3> QED
      BY <3>1, <3>2 DEF HandlerOK, Grows, TookEffect
  <2> QED
    BY <2>1
<1>2. ExecutedIsTrue'
  <2> SUFFICES ASSUME NEW i \in DOMAIN requests', requests'[i].status = "EXECUTED"
               PROVE  TookEffect(i)'
    BY DEF ExecutedIsTrue
  <2>1. CASE i \in DOMAIN requests /\ requests[i].status = "EXECUTED"
    <3>1. TookEffect(i)
      BY <2>1 DEF IInv, ExecutedIsTrue
    <3> QED
      BY <3>1, <2>1, EffectStays
  <2> QED
    BY <2>1
<1> QED
  BY <1>1, <1>2 DEF IInv

-----------------------------------------------------------------------------
\* Sequences that grow by a row, or have one replaced.
LEMMA Appended ==
  ASSUME NEW S, NEW q \in Seq(S), NEW x \in S
  PROVE  /\ Append(q, x) \in Seq(S) /\ Len(Append(q, x)) = Len(q) + 1
         /\ DOMAIN Append(q, x) = DOMAIN q \cup {Len(q) + 1} /\ Len(q) + 1 \notin DOMAIN q
         /\ \A i \in DOMAIN q : Append(q, x)[i] = q[i]
         /\ Append(q, x)[Len(q) + 1] = x
OBVIOUS

LEMMA Replaced ==
  ASSUME NEW S, NEW q \in Seq(S), NEW i \in DOMAIN q, NEW x \in S
  PROVE  /\ [q EXCEPT ![i] = x] \in Seq(S) /\ Len([q EXCEPT ![i] = x]) = Len(q)
         /\ DOMAIN [q EXCEPT ![i] = x] = DOMAIN q
         /\ [q EXCEPT ![i] = x][i] = x
         /\ \A j \in DOMAIN q : j # i => [q EXCEPT ![i] = x][j] = q[j]
OBVIOUS

\* What is known of the call that makes a step.
LEMMA Here ==
  ASSUME IInv, NEW h \in Handlers
  PROVE  /\ TypeOK /\ handler[h] \in Handler /\ HandlerOK(handler[h])
         /\ Idle \in Handler /\ Idle.pc = "idle"
         /\ handler[h].pc # "idle" =>
              /\ Mine(h) \in DOMAIN requests
              /\ handler[h].operator \in Operators
              /\ handler[h].operator \in trail[Mine(h)].heard
<1>1. TypeOK /\ HandlerOK(handler[h])
  BY DEF IInv, HandlersOK
<1>2. handler[h] \in Handler /\ Idle \in Handler /\ Idle.pc = "idle"
  BY <1>1 DEF TypeOK, Idle, Handler
<1>3. ASSUME handler[h].pc # "idle"
      PROVE  /\ Mine(h) \in DOMAIN requests
             /\ handler[h].operator \in trail[Mine(h)].heard
  BY <1>1, <1>3 DEF HandlerOK, Mine
<1>4. ASSUME handler[h].pc # "idle" PROVE handler[h].operator \in Operators
  BY <1>1, <1>3, <1>4, RowTypes DEF Trail
<1> QED
  BY <1>1, <1>2, <1>3, <1>4

\* A call moves to a statement that asks for no new knowledge; no row changes.
LEMMA MoveInv ==
  ASSUME IInv, NEW h \in Handlers, NEW q \in Handler,
         handler' = [handler EXCEPT ![h] = q], faults' \in Nat, HandlerOK(q),
         UNCHANGED <<requests, overrides, trail>>,
         UNCHANGED stripe
  PROVE  IInv'
<1>1. TypeOK'
  BY DEF IInv, TypeOK
<1>2. Grows
  <2>1. \A i \in DOMAIN requests : stripe[i].refunds \in Nat
    BY RowTypes DEF IInv, Answer
  <2> QED
    BY <2>1 DEF Grows
<1>3. \A g \in Handlers : handler'[g] = handler[g] \/ handler'[g] = q
  BY DEF IInv, TypeOK
<1>4. \A g \in Handlers : handler'[g] = handler[g] \/ HandlerOK(handler[g])'
  BY <1>3 DEF HandlerOK, TookEffect
<1>5. RevocationsOK' /\ FourEyes' /\ RefundedOnce'
  BY DEF IInv, RevocationsOK, FourEyes, RefundedOnce
<1> QED
  BY <1>1, <1>2, <1>4, <1>5, StepInv

\* A new request: nothing is known of it and nothing has happened for it.
LEMMA OpenInv ==
  ASSUME IInv, NEW o \in Operators, NEW kind \in Kinds, NEW v \in Nat,
         kind = "revoke" => v \in DOMAIN overrides,
         Open(o, kind, v)
  PROVE  IInv'
<1> DEFINE row == [kind |-> kind, by |-> o, of |-> v, status |-> "PENDING_APPROVAL",
                   approver |-> Nobody]
           answer == [kept |-> "none", refunds |-> 0]
           new == [heard |-> {}, agents |-> {}]
           n == Len(requests) + 1
<1>1. /\ requests' = Append(requests, row) /\ stripe' = Append(stripe, answer)
      /\ trail' = Append(trail, new) /\ UNCHANGED <<overrides, handler, faults>>
  BY DEF Open
<1>2. row \in Request /\ answer \in Answer /\ new \in Trail
  BY DEF Request, Answer, Trail
<1>3. /\ requests \in Seq(Request) /\ stripe \in Seq(Answer) /\ trail \in Seq(Trail)
      /\ Len(stripe) = Len(requests) /\ Len(trail) = Len(requests)
  BY DEF IInv, TypeOK, Trail
<1>4. /\ row.by = o /\ row.approver = Nobody /\ row.status = "PENDING_APPROVAL"
      /\ row.kind = kind /\ row.of = v /\ answer.refunds = 0
      /\ new.heard = {} /\ new.agents = {}
  OBVIOUS
<1> HIDE DEF row, answer, new
<1>5. /\ requests' \in Seq(Request) /\ Len(requests') = n
      /\ DOMAIN requests' = DOMAIN requests \cup {n} /\ n \notin DOMAIN requests
      /\ requests'[n] = row /\ \A i \in DOMAIN requests : requests'[i] = requests[i]
  BY <1>1, <1>2, <1>3, Appended
<1>6. /\ stripe' \in Seq(Answer) /\ Len(stripe') = n
      /\ stripe'[n] = answer /\ \A i \in DOMAIN stripe : stripe'[i] = stripe[i]
  BY <1>1, <1>2, <1>3, Appended
<1>7. /\ trail' \in Seq(Trail) /\ Len(trail') = n
      /\ trail'[n] = new /\ \A i \in DOMAIN trail : trail'[i] = trail[i]
  BY <1>1, <1>2, <1>3, Appended
<1>8. TypeOK'
  BY <1>1, <1>5, <1>6, <1>7 DEF IInv, TypeOK, Trail
<1>9. \A i \in DOMAIN requests :
        /\ i \in DOMAIN stripe /\ i \in DOMAIN trail /\ stripe[i].refunds \in Nat
  BY RowTypes DEF IInv, Answer
<1>10. Grows
  BY <1>1, <1>5, <1>6, <1>7, <1>9 DEF Grows
<1>11. RevocationsOK'
  BY <1>1, <1>4, <1>5 DEF IInv, RevocationsOK
<1>12. FourEyes'
  BY <1>4, <1>5, <1>7, <1>9, NobodyAssumption DEF IInv, FourEyes
<1>13. RefundedOnce'
  BY <1>4, <1>5, <1>6, <1>9 DEF IInv, RefundedOnce
<1>14. \A i \in DOMAIN requests' :
         requests'[i].status = "EXECUTED" =>
           i \in DOMAIN requests /\ requests[i].status = "EXECUTED"
  BY <1>4, <1>5
<1>15. \A g \in Handlers : handler'[g] = handler[g]
  BY <1>1
<1> QED
  BY <1>8, <1>10, <1>11, <1>12, <1>13, <1>14, <1>15, StepInv

\* A step that touches one request, its trail and what Stripe keeps for it.
LEMMA RequestStepInv ==
  ASSUME IInv, NEW h \in Handlers, NEW i \in DOMAIN requests, NEW q \in Handler,
         NEW row \in Request, NEW answer \in Answer, NEW new \in Trail,
         requests' = [requests EXCEPT ![i] = row], stripe' = [stripe EXCEPT ![i] = answer],
         trail' = [trail EXCEPT ![i] = new], handler' = [handler EXCEPT ![h] = q],
         overrides' \in Seq(Override), DOMAIN overrides \subseteq DOMAIN overrides',
         \A v \in DOMAIN overrides :
           /\ overrides'[v].request = overrides[v].request
           /\ overrides[v].revoked => overrides'[v].revoked,
         faults' \in Nat,
         row.kind = requests[i].kind, row.by = requests[i].by, row.of = requests[i].of,
         trail[i].heard \subseteq new.heard, trail[i].agents \subseteq new.agents,
         stripe[i].refunds <= answer.refunds, answer.refunds <= 1,
         row.by \notin new.agents, row.approver = row.by => row.by \in new.heard,
         HandlerOK(handler[h])',
         row.status = "EXECUTED" => requests[i].status = "EXECUTED" \/ TookEffect(i)'
  PROVE  IInv'
<1>1. /\ requests \in Seq(Request) /\ stripe \in Seq(Answer) /\ trail \in Seq(Trail)
      /\ Len(stripe) = Len(requests) /\ Len(trail) = Len(requests)
  BY DEF IInv, TypeOK, Trail
<1>2. i \in DOMAIN stripe /\ i \in DOMAIN trail
  BY RowTypes DEF IInv
<1> HIDE DEF Trail
<1>3. /\ requests' \in Seq(Request) /\ Len(requests') = Len(requests)
      /\ DOMAIN requests' = DOMAIN requests /\ requests'[i] = row
      /\ \A j \in DOMAIN requests : j # i => requests'[j] = requests[j]
  BY <1>1, Replaced
<1>4. /\ stripe' \in Seq(Answer) /\ Len(stripe') = Len(stripe) /\ stripe'[i] = answer
      /\ \A j \in DOMAIN stripe : j # i => stripe'[j] = stripe[j]
  BY <1>1, <1>2, Replaced
<1>5. /\ trail' \in Seq(Trail) /\ Len(trail') = Len(trail) /\ trail'[i] = new
      /\ \A j \in DOMAIN trail : j # i => trail'[j] = trail[j]
  BY <1>1, <1>2, Replaced
<1>6. \A j \in DOMAIN requests :
        j \in DOMAIN stripe /\ j \in DOMAIN trail /\ stripe[j].refunds \in Nat
  BY RowTypes DEF IInv, Answer
<1>7. TypeOK'
  <2>1. handler' \in [Handlers -> Handler]
    BY DEF IInv, TypeOK
  <2> QED
    BY <1>1, <1>3, <1>4, <1>5, <2>1 DEF TypeOK, Trail
<1>8. Grows
  BY <1>3, <1>4, <1>5, <1>6 DEF Grows
<1>9. RevocationsOK'
  BY <1>3 DEF IInv, RevocationsOK
<1>10. FourEyes'
  BY <1>3, <1>5, <1>6 DEF IInv, FourEyes
<1>11. RefundedOnce'
  BY <1>3, <1>4, <1>6 DEF IInv, RefundedOnce
<1>12. \A j \in DOMAIN requests' :
         requests'[j].status = "EXECUTED" =>
           (j \in DOMAIN requests /\ requests[j].status = "EXECUTED") \/ TookEffect(j)'
  BY <1>3
<1>13. \A g \in Handlers : handler'[g] = handler[g] \/ HandlerOK(handler[g])'
  <2> SUFFICES ASSUME NEW g \in Handlers, g # h PROVE handler'[g] = handler[g]
    OBVIOUS
  <2> QED
    BY DEF IInv, TypeOK
<1> QED
  BY <1>7, <1>8, <1>9, <1>10, <1>11, <1>12, <1>13, StepInv

-----------------------------------------------------------------------------
\* Rows written as they were.
LEMMA Unchanged ==
  ASSUME IInv, NEW i \in DOMAIN requests
  PROVE  /\ [requests EXCEPT ![i] = requests[i]] = requests
         /\ [stripe EXCEPT ![i] = stripe[i]] = stripe
         /\ [trail EXCEPT ![i] = trail[i]] = trail
<1>1. requests \in Seq(Request) /\ stripe \in Seq(Answer) /\ trail \in Seq(Trail)
  BY DEF IInv, TypeOK, Trail
<1> HIDE DEF Trail
<1> QED
  BY <1>1

\* What the invariant says of one request.
LEMMA RowFacts ==
  ASSUME IInv, NEW i \in DOMAIN requests
  PROVE  /\ TypeOK /\ requests[i] \in Request /\ stripe[i] \in Answer /\ trail[i] \in Trail
         /\ i \in DOMAIN stripe /\ i \in DOMAIN trail
         /\ stripe[i].refunds \in Nat /\ stripe[i].refunds <= 1
         /\ requests[i].by \notin trail[i].agents
         /\ requests[i].approver = requests[i].by => requests[i].by \in trail[i].heard
         /\ requests[i].status = "EXECUTED" => TookEffect(i)
         /\ requests[i].kind = "revoke" => requests[i].of \in DOMAIN overrides
         /\ requests[i].by \in Operators
BY RowTypes DEF IInv, Answer, Request, FourEyes, RefundedOnce, ExecutedIsTrue, RevocationsOK

LEMMA CheckInv ==
  ASSUME IInv, NEW h \in Handlers, NEW o \in Operators, NEW i \in DOMAIN requests,
         NEW label \in {"approve", "reject"}, label = "approve" => requests[i].by # o,
         Check(h, o, i, label)
  PROVE  IInv'
<1> DEFINE q == [pc |-> label, operator |-> o, request |-> i]
           new == [trail[i] EXCEPT !.heard = trail[i].heard \cup {o}]
<1>1. /\ requests[i] \in Request /\ stripe[i] \in Answer /\ trail[i] \in Trail
      /\ i \in DOMAIN trail /\ i \in Nat /\ stripe[i].refunds \in Nat
  BY RowFacts, RowTypes DEF IInv
<1>2. new \in Trail /\ new.heard = trail[i].heard \cup {o} /\ new.agents = trail[i].agents
  BY <1>1 DEF Trail
<1>3. q \in Handler /\ q.pc = label /\ q.operator = o /\ q.request = i
  BY <1>1 DEF Handler
<1>4. [trail EXCEPT ![i].heard = trail[i].heard \cup {o}] = [trail EXCEPT ![i] = new]
  BY <1>1
<1>5. /\ trail' = [trail EXCEPT ![i] = new] /\ handler' = [handler EXCEPT ![h] = q]
      /\ UNCHANGED <<requests, overrides, stripe, faults>>
  BY <1>4 DEF Check
<1> HIDE DEF q, new
<1>6. requests' = [requests EXCEPT ![i] = requests[i]] /\ stripe' = [stripe EXCEPT ![i] = stripe[i]]
  BY <1>5, Unchanged
<1>7. handler'[h] = q /\ trail'[i] = new
  BY <1>1, <1>5 DEF IInv, TypeOK
<1>8. HandlerOK(handler[h])'
  BY <1>2, <1>3, <1>5, <1>7 DEF HandlerOK, Approving
<1>9. /\ overrides' \in Seq(Override) /\ overrides' = overrides /\ faults' \in Nat
  BY <1>5 DEF IInv, TypeOK
<1>10. /\ requests[i].by \notin new.agents
       /\ requests[i].approver = requests[i].by => requests[i].by \in new.heard
       /\ stripe[i].refunds <= 1 /\ stripe[i].refunds <= stripe[i].refunds
       /\ trail[i].heard \subseteq new.heard /\ trail[i].agents \subseteq new.agents
  BY <1>1, <1>2, RowFacts
<1> QED
  BY <1>1, <1>2, <1>3, <1>5, <1>6, <1>8, <1>9, <1>10, RequestStepInv

\* A call writes the row of its request, and may enter itself in the trail.
LEMMA WriteInv ==
  ASSUME IInv, NEW h \in Handlers, handler[h].pc # "idle",
         NEW i \in DOMAIN requests, i = Mine(h),
         NEW row \in Request, NEW new \in Trail, NEW q \in Handler,
         q.pc \notin {"persist", "record"}, HandlerOK(q),
         requests' = [requests EXCEPT ![i] = row], trail' = [trail EXCEPT ![i] = new],
         handler' = [handler EXCEPT ![h] = q], UNCHANGED <<overrides, stripe, faults>>,
         row.kind = requests[i].kind, row.by = requests[i].by, row.of = requests[i].of,
         row.approver \in {requests[i].approver, handler[h].operator},
         new.heard = trail[i].heard, trail[i].agents \subseteq new.agents,
         row.by \notin new.agents, row.status = "EXECUTED" => TookEffect(i)'
  PROVE  IInv'
<1>1. handler[h].operator \in trail[i].heard
  BY Here
<1>2. /\ stripe[i] \in Answer /\ stripe[i].refunds \in Nat /\ stripe[i].refunds <= 1
      /\ requests[i].approver = requests[i].by => requests[i].by \in trail[i].heard
      /\ i \in DOMAIN trail
  BY RowFacts
<1>3. row.approver = row.by => row.by \in new.heard
  BY <1>1, <1>2
<1>4. stripe' = [stripe EXCEPT ![i] = stripe[i]]
  BY Unchanged
<1>5. /\ handler'[h] = q /\ DOMAIN requests' = DOMAIN requests
      /\ \A j \in DOMAIN requests : requests'[j].by = requests[j].by
      /\ \A j \in DOMAIN requests : trail'[j].heard = trail[j].heard
  <2>1. \A j \in DOMAIN requests : j \in DOMAIN trail
    BY RowFacts
  <2>2. handler'[h] = q
    BY DEF IInv, TypeOK
  <2> QED
    BY <2>1, <2>2
<1>6. HandlerOK(handler[h])'
  BY <1>5 DEF HandlerOK
<1>7. /\ overrides' \in Seq(Override) /\ overrides' = overrides /\ faults' \in Nat
  BY DEF IInv, TypeOK
<1>8. stripe[i].refunds <= stripe[i].refunds /\ trail[i].heard \subseteq new.heard
  BY <1>2
<1> QED
  BY <1>2, <1>3, <1>4, <1>6, <1>7, <1>8, RequestStepInv

\* The same with the trail as it was.
LEMMA WriteStatusInv ==
  ASSUME IInv, NEW h \in Handlers, handler[h].pc # "idle",
         NEW i \in DOMAIN requests, i = Mine(h), NEW row \in Request, NEW q \in Handler,
         q.pc \notin {"persist", "record"}, HandlerOK(q),
         requests' = [requests EXCEPT ![i] = row], handler' = [handler EXCEPT ![h] = q],
         UNCHANGED <<overrides, stripe, trail, faults>>,
         row.kind = requests[i].kind, row.by = requests[i].by, row.of = requests[i].of,
         row.approver \in {requests[i].approver, handler[h].operator},
         row.status = "EXECUTED" => TookEffect(i)'
  PROVE  IInv'
<1>1. /\ trail[i] \in Trail /\ trail' = [trail EXCEPT ![i] = trail[i]]
      /\ row.by \notin trail[i].agents
  BY RowFacts, Unchanged
<1> QED
  BY <1>1, WriteInv, ZenonT(60)

LEMMA DecideInv ==
  ASSUME IInv, NEW h \in Handlers, handler[h].pc # "idle",
         NEW status \in {"APPROVED", "REJECTED"}, NEW q \in Handler,
         q.pc \notin {"persist", "record"}, HandlerOK(q),
         Decide(h, status), handler' = [handler EXCEPT ![h] = q]
  PROVE  IInv'
<1>1. PICK i \in DOMAIN requests : i = Mine(h)
  BY Here
<1> DEFINE row == [requests[i] EXCEPT !.status = status, !.approver = handler[h].operator]
<1>2. requests[i] \in Request /\ handler[h].operator \in Operators
  BY RowFacts, Here
<1>3. /\ row \in Request /\ row.kind = requests[i].kind /\ row.by = requests[i].by
      /\ row.of = requests[i].of
      /\ row.approver = handler[h].operator /\ row.status = status
  BY <1>2 DEF Request
<1>4. requests' = [requests EXCEPT ![i] = row]
  BY <1>1 DEF Decide
<1>5. UNCHANGED <<overrides, stripe, trail, faults>>
  BY DEF Decide
<1> HIDE DEF row
<1> QED
  BY <1>1, <1>3, <1>4, <1>5, WriteStatusInv

LEMMA WriteApprovedInv ==
  ASSUME IInv, NEW h \in Handlers, WriteApproved(h) PROVE IInv'
<1> DEFINE q == [handler[h] EXCEPT !.pc = "execute"]
<1>1. handler[h] \in Handler /\ HandlerOK(handler[h]) /\ handler[h].pc = "approve"
  BY Here DEF WriteApproved
<1>2. /\ q \in Handler /\ q.pc = "execute" /\ q.operator = handler[h].operator
      /\ q.request = handler[h].request
  BY <1>1 DEF Handler
<1>3. handler' = [handler EXCEPT ![h] = q] /\ Decide(h, "APPROVED")
  BY DEF WriteApproved, Goto
<1> HIDE DEF q
<1>4. HandlerOK(q)
  BY <1>1, <1>2 DEF HandlerOK, Approving
<1> QED
  BY <1>1, <1>2, <1>3, <1>4, DecideInv

LEMMA WriteRejectedInv ==
  ASSUME IInv, NEW h \in Handlers, WriteRejected(h) PROVE IInv'
<1>1. Idle \in Handler /\ Idle.pc = "idle" /\ HandlerOK(Idle)
  BY Here DEF HandlerOK
<1>2. handler' = [handler EXCEPT ![h] = Idle] /\ Decide(h, "REJECTED") /\ handler[h].pc # "idle"
  BY DEF WriteRejected, End
<1> QED
  BY <1>1, <1>2, DecideInv

LEMMA FinishInv ==
  ASSUME IInv, NEW h \in Handlers, NEW label \in {"record", "fail"},
         NEW status \in {"EXECUTED", "FAILED"}, Finish(h, label, status),
         status = "EXECUTED" => label = "record"
  PROVE  IInv'
<1>1. /\ handler[h].pc = label /\ HandlerOK(handler[h])
      /\ Idle \in Handler /\ Idle.pc = "idle" /\ HandlerOK(Idle)
  BY Here DEF Finish, HandlerOK
<1>2. PICK i \in DOMAIN requests : i = Mine(h)
  BY <1>1, Here
<1> DEFINE row == [requests[i] EXCEPT !.status = status]
<1>3. requests[i] \in Request
  BY RowFacts
<1>4. /\ row \in Request /\ row.kind = requests[i].kind /\ row.by = requests[i].by
      /\ row.of = requests[i].of /\ row.approver = requests[i].approver /\ row.status = status
  BY <1>3 DEF Request
<1>5. requests' = [requests EXCEPT ![i] = row]
  BY <1>2 DEF Finish
<1>6. /\ handler' = [handler EXCEPT ![h] = Idle] /\ UNCHANGED <<overrides, stripe, trail, faults>>
  BY DEF Finish, End
<1> HIDE DEF row
<1>7. ASSUME row.status = "EXECUTED" PROVE TookEffect(i)'
  <2>1. TookEffect(i)
    BY <1>1, <1>2, <1>4, <1>7 DEF HandlerOK, Mine
  <2> QED
    BY <2>1, <1>4, <1>5, <1>6 DEF TookEffect
<1> QED
  BY <1>1, <1>2, <1>4, <1>5, <1>6, <1>7, WriteStatusInv

LEMMA IssueCreditInv ==
  ASSUME IInv, NEW h \in Handlers, IssueCredit(h) PROVE IInv'
<1>1. /\ handler[h].pc = "execute" /\ requests[Mine(h)].kind = "credit" /\ HandlerOK(handler[h])
      /\ Idle \in Handler /\ Idle.pc = "idle" /\ HandlerOK(Idle)
      /\ handler[h].operator \in Operators
  BY Here DEF IssueCredit, Executing, HandlerOK
<1>2. PICK i \in DOMAIN requests : i = Mine(h)
  BY <1>1, Here
<1> DEFINE row == [requests[i] EXCEPT !.status = "EXECUTED"]
           new == [trail[i] EXCEPT !.agents = trail[i].agents \cup {handler[h].operator}]
<1>3. /\ requests[i] \in Request /\ trail[i] \in Trail /\ i \in DOMAIN trail
      /\ requests[i].by \notin trail[i].agents
  BY RowFacts
<1>4. /\ row \in Request /\ row.kind = requests[i].kind /\ row.by = requests[i].by
      /\ row.of = requests[i].of /\ row.approver = requests[i].approver
  BY <1>3 DEF Request
<1>5. /\ new \in Trail /\ new.heard = trail[i].heard
      /\ new.agents = trail[i].agents \cup {handler[h].operator}
  BY <1>1, <1>3 DEF Trail
<1>6. handler[h].operator # requests[i].by
  BY <1>1, <1>2 DEF HandlerOK, Approving, Mine
<1>7. requests' = [requests EXCEPT ![i] = row] /\ trail' = [trail EXCEPT ![i] = new]
  BY <1>2, <1>3 DEF IssueCredit, Trace
<1>8. /\ handler' = [handler EXCEPT ![h] = Idle] /\ UNCHANGED <<overrides, stripe, faults>>
  BY DEF IssueCredit, End
<1> HIDE DEF row, new
<1>9. TookEffect(i)'
  BY <1>1, <1>2, <1>3, <1>4, <1>5, <1>7 DEF TookEffect
<1> QED
  BY <1>1, <1>2, <1>3, <1>4, <1>5, <1>6, <1>7, <1>8, <1>9, WriteInv

\* An action is carried out: it took effect, and the call enters itself.
LEMMA CarryOutInv ==
  ASSUME IInv, NEW h \in Handlers, handler[h].pc = "execute",
         NEW i \in DOMAIN requests, i = Mine(h), NEW answer \in Answer,
         NEW label \in {"persist", "record", "fail"}, CarryOut(h, label),
         UNCHANGED requests, stripe' = [stripe EXCEPT ![i] = answer],
         stripe[i].refunds <= answer.refunds, answer.refunds <= 1,
         overrides' \in Seq(Override), DOMAIN overrides \subseteq DOMAIN overrides',
         \A v \in DOMAIN overrides :
           /\ overrides'[v].request = overrides[v].request
           /\ overrides[v].revoked => overrides'[v].revoked,
         faults' \in Nat,
         requests[i].kind = "refund" => answer.refunds > 0,
         requests[i].kind = "override" =>
           \E v \in DOMAIN overrides' : overrides'[v].request = i,
         requests[i].kind = "revoke" => overrides'[requests[i].of].revoked
  PROVE  IInv'
<1> DEFINE q == [handler[h] EXCEPT !.pc = label]
           new == [trail[i] EXCEPT !.agents = trail[i].agents \cup {handler[h].operator}]
<1>1. /\ handler[h] \in Handler /\ HandlerOK(handler[h])
      /\ handler[h].operator \in Operators /\ handler[h].operator \in trail[i].heard
  BY Here
<1>2. /\ requests[i] \in Request /\ trail[i] \in Trail /\ i \in DOMAIN trail /\ i \in DOMAIN stripe
      /\ requests[i].by \notin trail[i].agents
      /\ requests[i].approver = requests[i].by => requests[i].by \in trail[i].heard
  BY RowFacts
<1>3. /\ q \in Handler /\ q.pc = label /\ q.operator = handler[h].operator /\ q.request = i
  BY <1>1 DEF Handler, Mine
<1>4. /\ new \in Trail /\ new.heard = trail[i].heard
      /\ new.agents = trail[i].agents \cup {handler[h].operator}
  BY <1>1, <1>2 DEF Trail
<1>5. handler[h].operator # requests[i].by
  BY <1>1 DEF HandlerOK, Approving, Mine
<1>6. /\ trail' = [trail EXCEPT ![i] = new] /\ handler' = [handler EXCEPT ![h] = q]
  BY <1>2 DEF CarryOut, Trace, Goto
<1>7. requests' = [requests EXCEPT ![i] = requests[i]]
  BY Unchanged
<1> HIDE DEF q, new
<1>8. handler'[h] = q /\ trail'[i] = new /\ stripe'[i] = answer
  <2>1. handler'[h] = q
    BY <1>6 DEF IInv, TypeOK
  <2> QED
    BY <1>2, <1>6, <2>1
<1>9. TookEffect(i)'
  BY <1>4, <1>8 DEF TookEffect
<1>10. HandlerOK(handler[h])'
  BY <1>1, <1>3, <1>4, <1>5, <1>8, <1>9 DEF HandlerOK
<1>11. /\ requests[i].by \notin new.agents
       /\ requests[i].approver = requests[i].by => requests[i].by \in new.heard
       /\ trail[i].heard \subseteq new.heard /\ trail[i].agents \subseteq new.agents
  BY <1>2, <1>4, <1>5
<1> QED
  BY <1>2, <1>3, <1>4, <1>6, <1>7, <1>9, <1>10, <1>11, RequestStepInv

\* A refund by the key of the request, its answer received or lost.
LEMMA RefundMadeInv ==
  ASSUME IInv, NEW h \in Handlers, handler[h].pc = "execute",
         NEW i \in DOMAIN requests, i = Mine(h), requests[i].kind = "refund",
         NEW answer \in Answer, answer.refunds = 1, stripe' = [stripe EXCEPT ![i] = answer],
         NEW label \in {"persist", "fail"}, CarryOut(h, label),
         UNCHANGED <<requests, overrides>>, faults' \in Nat
  PROVE  IInv'
<1>1. stripe[i].refunds \in Nat /\ stripe[i].refunds <= 1
  BY RowFacts
<1>2. overrides' \in Seq(Override)
  BY DEF IInv, TypeOK
<1>3. stripe[i].refunds <= answer.refunds /\ answer.refunds <= 1 /\ answer.refunds > 0
  BY <1>1
<1> QED
  BY <1>2, <1>3, CarryOutInv

\* Stripe refuses the refund.
LEMMA RefundRefusedInv ==
  ASSUME IInv, NEW h \in Handlers, handler[h].pc = "execute",
         NEW i \in DOMAIN requests, i = Mine(h),
         NEW answer \in Answer, answer.refunds = stripe[i].refunds,
         stripe' = [stripe EXCEPT ![i] = answer],
         requests' = [requests EXCEPT ![i] = requests[i]],
         trail' = [trail EXCEPT ![i] = trail[i]],
         Goto(h, "fail"), UNCHANGED <<overrides, faults>>
  PROVE  IInv'
<1> DEFINE q == [handler[h] EXCEPT !.pc = "fail"]
<1>1. /\ handler[h] \in Handler /\ HandlerOK(handler[h])
      /\ handler[h].operator \in trail[i].heard
  BY Here
<1>2. /\ requests[i] \in Request /\ trail[i] \in Trail
      /\ stripe[i].refunds \in Nat /\ stripe[i].refunds <= 1
      /\ requests[i].by \notin trail[i].agents
      /\ requests[i].approver = requests[i].by => requests[i].by \in trail[i].heard
      /\ requests[i].status = "EXECUTED" => requests[i].status = "EXECUTED"
  BY RowFacts
<1>3. /\ q \in Handler /\ q.pc = "fail" /\ q.operator = handler[h].operator /\ q.request = i
  BY <1>1 DEF Handler, Mine
<1>4. handler' = [handler EXCEPT ![h] = q]
  BY DEF Goto
<1>5. requests' = requests /\ trail' = trail
  BY Unchanged
<1> HIDE DEF q
<1>6. handler'[h] = q
  BY <1>4 DEF IInv, TypeOK
<1>7. HandlerOK(handler[h])'
  BY <1>1, <1>3, <1>5, <1>6 DEF HandlerOK, Approving
<1>8. overrides' \in Seq(Override) /\ faults' \in Nat
  BY DEF IInv, TypeOK
<1>9. stripe[i].refunds <= answer.refunds /\ answer.refunds <= 1
  BY <1>2
<1> QED
  BY <1>2, <1>3, <1>4, <1>7, <1>8, <1>9, RequestStepInv

LEMMA RefundInv ==
  ASSUME IInv, NEW h \in Handlers, Refund(h) PROVE IInv'
<1>1. /\ handler[h].pc = "execute" /\ requests[Mine(h)].kind = "refund"
      /\ UNCHANGED <<requests, overrides, faults>>
  BY DEF Refund, Executing
<1>2. PICK i \in DOMAIN requests : i = Mine(h)
  BY <1>1, Here
<1>3. stripe[i] \in Answer /\ i \in DOMAIN stripe /\ faults' \in Nat
  BY <1>1, RowFacts DEF TypeOK
<1>4. CASE /\ stripe' = [stripe EXCEPT ![Mine(h)] = [kept |-> "refunded", refunds |-> 1]]
           /\ CarryOut(h, "persist")
  <2> DEFINE answer == [kept |-> "refunded", refunds |-> 1]
  <2>1. answer \in Answer /\ answer.refunds = 1
    BY DEF Answer
  <2>2. stripe' = [stripe EXCEPT ![i] = answer]
    BY <1>2, <1>4
  <2> HIDE DEF answer
  <2> QED
    BY <1>1, <1>2, <1>3, <1>4, <2>1, <2>2, RefundMadeInv
<1>5. CASE /\ stripe' = [stripe EXCEPT ![Mine(h)].kept = "refused"]
           /\ Goto(h, "fail") /\ UNCHANGED trail
  <2> DEFINE answer == [stripe[i] EXCEPT !.kept = "refused"]
  <2>1. answer \in Answer /\ answer.refunds = stripe[i].refunds
    BY <1>3 DEF Answer
  <2>2. stripe' = [stripe EXCEPT ![i] = answer]
    BY <1>2, <1>3, <1>5
  <2>3. /\ requests' = [requests EXCEPT ![i] = requests[i]]
        /\ trail' = [trail EXCEPT ![i] = trail[i]]
    BY <1>1, <1>5, Unchanged
  <2>4. Goto(h, "fail") /\ UNCHANGED <<overrides, faults>>
    BY <1>1, <1>5
  <2> HIDE DEF answer
  <2> QED
    BY <1>1, <1>2, <2>1, <2>2, <2>3, <2>4, RefundRefusedInv
<1> QED
  BY <1>4, <1>5 DEF Refund

LEMMA RefundUnansweredInv ==
  ASSUME IInv, NEW h \in Handlers, RefundUnanswered(h) PROVE IInv'
<1>1. /\ handler[h].pc = "execute" /\ requests[Mine(h)].kind = "refund"
      /\ UNCHANGED <<requests, overrides>> /\ faults' = faults + 1 /\ CarryOut(h, "fail")
  BY DEF RefundUnanswered, Executing
<1>2. PICK i \in DOMAIN requests : i = Mine(h)
  BY <1>1, Here
<1>3. faults' \in Nat
  BY <1>1 DEF IInv, TypeOK
<1> DEFINE answer == [kept |-> "refunded", refunds |-> 1]
<1>4. answer \in Answer /\ answer.refunds = 1
  BY DEF Answer
<1>5. stripe' = [stripe EXCEPT ![i] = answer]
  BY <1>2 DEF RefundUnanswered
<1> HIDE DEF answer
<1> QED
  BY <1>1, <1>2, <1>3, <1>4, <1>5, RefundMadeInv

\* The two actions on overrides leave Stripe alone.
LEMMA OverrideInv ==
  ASSUME IInv, NEW h \in Handlers, handler[h].pc = "execute",
         NEW i \in DOMAIN requests, i = Mine(h), requests[i].kind # "refund",
         CarryOut(h, "record"), UNCHANGED <<requests, stripe, faults>>,
         overrides' \in Seq(Override), DOMAIN overrides \subseteq DOMAIN overrides',
         \A v \in DOMAIN overrides :
           /\ overrides'[v].request = overrides[v].request
           /\ overrides[v].revoked => overrides'[v].revoked,
         requests[i].kind = "override" =>
           \E v \in DOMAIN overrides' : overrides'[v].request = i,
         requests[i].kind = "revoke" => overrides'[requests[i].of].revoked
  PROVE  IInv'
<1>1. stripe[i] \in Answer /\ stripe[i].refunds \in Nat /\ stripe[i].refunds <= 1
  BY RowFacts
<1>2. stripe' = [stripe EXCEPT ![i] = stripe[i]]
  BY Unchanged
<1>3. faults' \in Nat /\ stripe[i].refunds <= stripe[i].refunds
  BY <1>1 DEF IInv, TypeOK
<1> QED
  BY <1>1, <1>2, <1>3, CarryOutInv

LEMMA CreateOverrideInv ==
  ASSUME IInv, NEW h \in Handlers, CreateOverride(h) PROVE IInv'
<1>1. /\ handler[h].pc = "execute" /\ requests[Mine(h)].kind = "override"
      /\ CarryOut(h, "record") /\ UNCHANGED <<requests, stripe, faults>>
  BY DEF CreateOverride, Executing
<1>2. PICK i \in DOMAIN requests : i = Mine(h)
  BY <1>1, Here
<1> DEFINE row == [request |-> i, revoked |-> FALSE]
           n == Len(overrides) + 1
<1>3. i \in Nat /\ overrides \in Seq(Override)
  BY RowTypes DEF IInv, TypeOK
<1>4. row \in Override /\ row.request = i
  BY <1>3 DEF Override
<1>5. overrides' = Append(overrides, row)
  BY <1>2 DEF CreateOverride
<1> HIDE DEF row
<1>6. /\ overrides' \in Seq(Override) /\ DOMAIN overrides' = DOMAIN overrides \cup {n}
      /\ \A v \in DOMAIN overrides : overrides'[v] = overrides[v]
      /\ overrides'[n] = row
  BY <1>3, <1>4, <1>5, Appended
<1>7. /\ DOMAIN overrides \subseteq DOMAIN overrides'
      /\ \A v \in DOMAIN overrides :
           /\ overrides'[v].request = overrides[v].request
           /\ overrides[v].revoked => overrides'[v].revoked
      /\ \E v \in DOMAIN overrides' : overrides'[v].request = i
  BY <1>4, <1>6
<1>8. requests[i].kind = "override"
  BY <1>1, <1>2
<1> HIDE DEF n
<1> QED
  BY <1>1, <1>2, <1>6, <1>7, <1>8, OverrideInv

LEMMA RevokeOverrideInv ==
  ASSUME IInv, NEW h \in Handlers, RevokeOverride(h) PROVE IInv'
<1>1. /\ handler[h].pc = "execute" /\ requests[Mine(h)].kind = "revoke"
      /\ CarryOut(h, "record") /\ UNCHANGED <<requests, stripe, faults>>
  BY DEF RevokeOverride, Executing
<1>2. PICK i \in DOMAIN requests : i = Mine(h)
  BY <1>1, Here
<1>3. requests[i].kind = "revoke"
  BY <1>1, <1>2
<1>4. PICK w \in DOMAIN overrides : w = requests[i].of
  BY <1>3, RowFacts
<1> DEFINE row == [overrides[w] EXCEPT !.revoked = TRUE]
<1>5. overrides \in Seq(Override)
  BY DEF IInv, TypeOK
<1>6. overrides[w] \in Override
  BY <1>5, ElementType
<1>7. row \in Override /\ row.request = overrides[w].request /\ row.revoked
  BY <1>6 DEF Override
<1>8. overrides' = [overrides EXCEPT ![w] = row]
  BY <1>2, <1>4, <1>6 DEF RevokeOverride
<1> HIDE DEF row
<1>9. /\ overrides' \in Seq(Override) /\ DOMAIN overrides' = DOMAIN overrides
      /\ overrides'[w] = row /\ \A v \in DOMAIN overrides : v # w => overrides'[v] = overrides[v]
  BY <1>5, <1>7, <1>8, Replaced
<1>10. /\ DOMAIN overrides \subseteq DOMAIN overrides'
       /\ \A v \in DOMAIN overrides :
            /\ overrides'[v].request = overrides[v].request
            /\ overrides[v].revoked => overrides'[v].revoked
       /\ overrides'[requests[i].of].revoked
  BY <1>4, <1>7, <1>9
<1> QED
  BY <1>1, <1>2, <1>3, <1>9, <1>10, OverrideInv

\* The steps that change no row.
LEMMA GotoInv ==
  ASSUME IInv, NEW h \in Handlers, NEW label \in {"record", "fail"}, handler[h].pc # "idle",
         label = "record" => handler[h].pc = "persist",
         Goto(h, label), UNCHANGED <<tables, trail>>, faults' \in Nat
  PROVE  IInv'
<1> DEFINE q == [handler[h] EXCEPT !.pc = label]
<1>1. handler[h] \in Handler /\ HandlerOK(handler[h])
  BY Here
<1>2. /\ q \in Handler /\ q.pc = label /\ q.operator = handler[h].operator
      /\ q.request = handler[h].request
  BY <1>1 DEF Handler
<1>3. handler' = [handler EXCEPT ![h] = q]
  BY DEF Goto
<1> HIDE DEF q
<1>4. HandlerOK(q)
  BY <1>1, <1>2 DEF HandlerOK, Approving
<1>5. UNCHANGED <<requests, overrides, trail>> /\ UNCHANGED stripe
  BY DEF tables
<1> QED
  BY <1>2, <1>3, <1>4, <1>5, MoveInv

LEMMA CrashInv ==
  ASSUME IInv, NEW h \in Handlers, Crash(h) PROVE IInv'
<1>1. Idle \in Handler /\ HandlerOK(Idle)
  BY Here DEF HandlerOK
<1>2. /\ handler' = [handler EXCEPT ![h] = Idle]
      /\ UNCHANGED <<requests, overrides, trail>> /\ UNCHANGED stripe
  BY DEF Crash, End, tables
<1>3. faults' \in Nat
  BY DEF Crash, IInv, TypeOK
<1> QED
  BY <1>1, <1>2, <1>3, MoveInv

LEMMA StayInv ==
  ASSUME IInv, NEW h \in Handlers, RefuseInvoice(h) \/ PersistInvoice(h) \/ StepFails(h)
  PROVE  IInv'
<1>1. faults \in Nat
  BY DEF IInv, TypeOK
<1>2. CASE RefuseInvoice(h)
  BY <1>1, <1>2, GotoInv DEF RefuseInvoice, Executing
<1>3. CASE PersistInvoice(h)
  BY <1>1, <1>3, GotoInv DEF PersistInvoice
<1>4. CASE StepFails(h)
  BY <1>1, <1>4, GotoInv DEF StepFails
<1> QED
  BY <1>2, <1>3, <1>4

LEMMA OperatorAsksInv ==
  ASSUME IInv, OperatorAsks PROVE IInv'
<1>1. PICK o \in Operators :
        \/ RequestRefund(o) \/ RequestIssueCredit(o) \/ RequestOverrideCreate(o)
        \/ \E v \in DOMAIN overrides : RequestOverrideRevoke(o, v)
  BY DEF OperatorAsks
<1>2. {"refund", "credit", "override", "revoke"} = Kinds /\ 0 \in Nat
  BY DEF Kinds
<1>3. CASE RequestRefund(o)
  BY <1>2, <1>3, OpenInv DEF RequestRefund
<1>4. CASE RequestIssueCredit(o)
  BY <1>2, <1>4, OpenInv DEF RequestIssueCredit
<1>5. CASE RequestOverrideCreate(o)
  BY <1>2, <1>5, OpenInv DEF RequestOverrideCreate
<1>6. ASSUME NEW v \in DOMAIN overrides, RequestOverrideRevoke(o, v) PROVE IInv'
  <2>1. overrides \in Seq(Override)
    BY DEF IInv, TypeOK
  <2>2. v \in Nat
    BY <2>1, ElementType
  <2> QED
    BY <1>2, <1>6, <2>2, OpenInv DEF RequestOverrideRevoke
<1> QED
  BY <1>1, <1>3, <1>4, <1>5, <1>6

LEMMA NextIInv ==
  ASSUME IInv, Next PROVE IInv'
<1>1. CASE OperatorAsks
  BY <1>1, OperatorAsksInv
<1>2. ASSUME NEW h \in Handlers, NEW o \in Operators, NEW i \in DOMAIN requests,
             CheckApproval(h, o, i) \/ CheckRejection(h, o, i)
      PROVE  IInv'
  BY <1>2, CheckInv DEF CheckApproval, CheckRejection
<1>3. ASSUME NEW h \in Handlers, HandlerStep(h) PROVE IInv'
  <2>1. CASE WriteApproved(h)
    BY <2>1, WriteApprovedInv
  <2>2. CASE WriteRejected(h)
    BY <2>2, WriteRejectedInv
  <2>3. CASE RefuseInvoice(h) \/ PersistInvoice(h)
    BY <2>3, StayInv
  <2>4. CASE Refund(h)
    BY <2>4, RefundInv
  <2>5. CASE IssueCredit(h)
    BY <2>5, IssueCreditInv
  <2>6. CASE CreateOverride(h)
    BY <2>6, CreateOverrideInv
  <2>7. CASE RevokeOverride(h)
    BY <2>7, RevokeOverrideInv
  <2>8. CASE WriteExecuted(h) \/ WriteFailed(h)
    BY <2>8, FinishInv DEF WriteExecuted, WriteFailed
  <2> QED
    BY <1>3, <2>1, <2>2, <2>3, <2>4, <2>5, <2>6, <2>7, <2>8 DEF HandlerStep
<1>4. ASSUME NEW h \in Handlers, RefundUnanswered(h) PROVE IInv'
  BY <1>4, RefundUnansweredInv
<1>5. ASSUME NEW h \in Handlers, StepFails(h) \/ Crash(h) PROVE IInv'
  BY <1>5, StayInv, CrashInv
<1> QED
  BY <1>1, <1>2, <1>3, <1>4, <1>5 DEF Next, OperatorDecides

LEMMA StutterIInv ==
  ASSUME IInv, UNCHANGED vars PROVE IInv'
BY DEF IInv, vars, TypeOK, HandlersOK, HandlerOK, TookEffect, RevocationsOK, FourEyes,
       RefundedOnce, ExecutedIsTrue

\* The inductive invariant holds in every reachable state.
THEOREM Invariance == Spec => []IInv
<1>1. IInv /\ [Next]_vars => IInv'
  BY NextIInv, StutterIInv
<1> QED
  BY <1>1, InitIInv, PTL DEF Spec

\* Requests, overrides, answers and calls keep their types.
THEOREM TypeCorrect == Spec => []TypeOK
<1>1. IInv => TypeOK
  BY DEF IInv
<1> QED
  BY <1>1, Invariance, PTL

\* No operator carries out an action of their own by approving it.
THEOREM OtherOperator == Spec => []FourEyes
<1>1. IInv => FourEyes
  BY DEF IInv
<1> QED
  BY <1>1, Invariance, PTL

\* No request is refunded twice, however many operators approve it at once.
THEOREM RefundOnce == Spec => []RefundedOnce
<1>1. IInv => RefundedOnce
  BY DEF IInv
<1> QED
  BY <1>1, Invariance, PTL

\* A request that says EXECUTED was approved and took effect.
THEOREM ExecutedTruth == Spec => []ExecutedIsTrue
<1>1. IInv => ExecutedIsTrue
  BY DEF IInv
<1> QED
  BY <1>1, Invariance, PTL

-----------------------------------------------------------------------------
(* What has happened was approved.                                         *)

\* A new request comes with a key nobody has used.
LEMMA AsksOpen ==
  ASSUME OperatorAsks
  PROVE  /\ \E row, new : requests' = Append(requests, row) /\ trail' = Append(trail, new)
         /\ stripe' = Append(stripe, [kept |-> "none", refunds |-> 0])
         /\ UNCHANGED overrides
<1>1. PICK o \in Operators, kind \in Kinds, v \in DOMAIN overrides \cup {0} : Open(o, kind, v)
  BY DEF OperatorAsks, RequestRefund, RequestIssueCredit, RequestOverrideCreate,
     RequestOverrideRevoke, Kinds
<1> QED
  BY <1>1 DEF Open

\* A request keeps what it asks for, and who passed the check.
LEMMA BackingStays ==
  ASSUME IInv, IInv', [Next]_vars
  PROVE  /\ DOMAIN requests \subseteq DOMAIN requests'
         /\ \A i \in DOMAIN requests :
              /\ requests'[i].kind = requests[i].kind
              /\ requests'[i].by = requests[i].by
              /\ requests'[i].of = requests[i].of
              /\ Backed(i) => Backed(i)'
<1> DEFINE Kept == /\ DOMAIN requests \subseteq DOMAIN requests'
                   /\ \A i \in DOMAIN requests :
                        /\ requests'[i].kind = requests[i].kind
                        /\ requests'[i].by = requests[i].by
                        /\ requests'[i].of = requests[i].of
                        /\ trail[i].heard \subseteq trail'[i].heard
<1>1. /\ requests \in Seq(Request) /\ trail \in Seq(Trail) /\ Len(trail) = Len(requests)
      /\ handler \in [Handlers -> Handler]
      /\ DOMAIN requests = 1..Len(requests) /\ DOMAIN trail = 1..Len(requests)
      /\ Len(requests) \in Nat
  BY DEF IInv, TypeOK, Trail
<1>2. \A i \in DOMAIN requests : requests[i] \in Request /\ trail[i] \in Trail
  BY RowTypes DEF IInv
<1>3. ASSUME OperatorAsks PROVE Kept
  <2>1. PICK row, new : requests' = Append(requests, row) /\ trail' = Append(trail, new)
    BY <1>3, AsksOpen
  <2> HIDE DEF Trail
  <2>2. \A i \in DOMAIN requests : requests'[i] = requests[i] /\ trail'[i] = trail[i]
    BY <1>1, <2>1
  <2>3. DOMAIN requests' = 1..(Len(requests) + 1)
    BY <1>1, <2>1
  <2> QED
    BY <1>1, <2>2, <2>3
<1>4. ASSUME NEW h \in Handlers, NEW o \in Operators, NEW j \in DOMAIN requests,
             CheckApproval(h, o, j) \/ CheckRejection(h, o, j)
      PROVE  Kept
  <2>1. UNCHANGED requests /\ trail' = [trail EXCEPT ![j].heard = @ \cup {o}]
    BY <1>4 DEF CheckApproval, CheckRejection, Check
  <2> QED
    BY <1>1, <1>2, <2>1 DEF Trail
<1>5. ASSUME NEW h \in Handlers, NEW status, UNCHANGED trail,
             \/ requests' = [requests EXCEPT ![Mine(h)].status = status]
             \/ requests' = [requests EXCEPT ![Mine(h)].status = status,
                                             ![Mine(h)].approver = handler[h].operator]
      PROVE  Kept
  <2>1. ASSUME NEW i \in DOMAIN requests
        PROVE  /\ requests'[i].kind = requests[i].kind
               /\ requests'[i].by = requests[i].by /\ requests'[i].of = requests[i].of
    BY <1>2, <1>5 DEF Request
  <2>2. DOMAIN requests' = DOMAIN requests
    BY <1>5
  <2> QED
    BY <1>5, <2>1, <2>2
<1>6. ASSUME NEW h \in Handlers,
             WriteApproved(h) \/ WriteRejected(h) \/ WriteExecuted(h) \/ WriteFailed(h)
      PROVE  Kept
  BY <1>5, <1>6 DEF WriteApproved, WriteRejected, WriteExecuted, WriteFailed, Decide, Finish
<1>7. ASSUME NEW h \in Handlers,
              trail' = [trail EXCEPT ![Mine(h)].agents = @ \cup {handler[h].operator}]
       PROVE  \A i \in DOMAIN requests : trail'[i].heard = trail[i].heard
  BY <1>1, <1>2, <1>7 DEF Trail
<1>8. ASSUME NEW h \in Handlers, IssueCredit(h) PROVE Kept
  <2>1. \A i \in DOMAIN requests : trail'[i].heard = trail[i].heard
    BY <1>7, <1>8 DEF IssueCredit, Trace
  <2>2. requests' = [requests EXCEPT ![Mine(h)].status = "EXECUTED"]
    BY <1>8 DEF IssueCredit
  <2>3. ASSUME NEW i \in DOMAIN requests
        PROVE  /\ requests'[i].kind = requests[i].kind
               /\ requests'[i].by = requests[i].by /\ requests'[i].of = requests[i].of
    BY <1>2, <2>2 DEF Request
  <2>4. DOMAIN requests' = DOMAIN requests
    BY <2>2
  <2> QED
    BY <2>1, <2>3, <2>4
<1>9. ASSUME NEW h \in Handlers,
              Refund(h) \/ CreateOverride(h) \/ RevokeOverride(h) \/ RefundUnanswered(h)
       PROVE  Kept
  <2>1. \A i \in DOMAIN requests : trail'[i].heard = trail[i].heard
    BY <1>7, <1>9 DEF Refund, CreateOverride, RevokeOverride, RefundUnanswered, CarryOut,
       Trace
  <2>2. UNCHANGED requests
    BY <1>9 DEF Refund, CreateOverride, RevokeOverride, RefundUnanswered
  <2> QED
    BY <2>1, <2>2
<1>10. ASSUME NEW h \in Handlers,
             RefuseInvoice(h) \/ PersistInvoice(h) \/ StepFails(h) \/ Crash(h)
      PROVE  Kept
  BY <1>10 DEF RefuseInvoice, PersistInvoice, StepFails, Crash, tables
<1>11. UNCHANGED vars => Kept
  BY DEF vars
<1>12. Kept
  <2> HIDE DEF Kept
  <2> QED
    BY <1>3, <1>4, <1>6, <1>10, <1>11, <1>8, <1>9 DEF Next, OperatorDecides, HandlerStep
<1> QED
  BY <1>12 DEF Backed

\* The step that makes an effect: at most one, by a call whose operator passed
\* the check and did not ask.
LEMMA EffectStep ==
  ASSUME IInv, [Next]_vars
  PROVE  \/ /\ \A i \in DOMAIN requests : stripe'[i].refunds = stripe[i].refunds
            /\ \A i \in DOMAIN requests' \ DOMAIN requests : stripe'[i].refunds = 0
            /\ UNCHANGED overrides
         \/ \E i \in DOMAIN requests :
              /\ Backed(i)
              /\ \/ /\ requests[i].kind = "refund"
                    /\ UNCHANGED overrides
                    /\ \A j \in DOMAIN requests \ {i} : stripe'[j].refunds = stripe[j].refunds
                 \/ /\ requests[i].kind = "override"
                    /\ overrides' = Append(overrides, [request |-> i, revoked |-> FALSE])
                    /\ UNCHANGED stripe
                 \/ /\ requests[i].kind = "revoke"
                    /\ overrides' = [overrides EXCEPT ![requests[i].of].revoked = TRUE]
                    /\ UNCHANGED stripe
              /\ UNCHANGED requests
<1>1. /\ stripe \in Seq(Answer) /\ Len(stripe) = Len(requests)
      /\ requests \in Seq(Request) /\ Len(requests) \in Nat
      /\ DOMAIN requests = 1..Len(requests) /\ DOMAIN stripe = 1..Len(requests)
  BY DEF IInv, TypeOK
<1>2. \A i \in DOMAIN requests : stripe[i] \in Answer
  BY RowTypes DEF IInv
<1>3. ASSUME NEW h \in Handlers, handler[h].pc = "execute"
      PROVE  Mine(h) \in DOMAIN requests /\ Backed(Mine(h))
  <2>1. HandlerOK(handler[h])
    BY DEF IInv, HandlersOK
  <2> QED
    BY <1>3, <2>1, Here DEF HandlerOK, Approving, Mine, Backed
<1>4. CASE OperatorAsks
  <2>1. PICK row : requests' = Append(requests, row)
    BY <1>4, AsksOpen
  <2>2. stripe' = Append(stripe, [kept |-> "none", refunds |-> 0]) /\ UNCHANGED overrides
    BY <1>4, AsksOpen
  <2>3. DOMAIN requests' = 1..(Len(requests) + 1)
    BY <1>1, <2>1
  <2>4. [kept |-> "none", refunds |-> 0] \in Answer
    BY DEF Answer
  <2>5. /\ \A i \in DOMAIN requests : stripe'[i] = stripe[i]
        /\ stripe'[Len(requests) + 1] = [kept |-> "none", refunds |-> 0]
    BY <1>1, <2>2, <2>4, Appended
  <2>6. \A i \in DOMAIN requests' \ DOMAIN requests : i = Len(requests) + 1
    BY <1>1, <2>3
  <2>7. /\ \A i \in DOMAIN requests : stripe'[i].refunds = stripe[i].refunds
        /\ \A i \in DOMAIN requests' \ DOMAIN requests : stripe'[i].refunds = 0
        /\ UNCHANGED overrides
    <3>1. \A i \in DOMAIN requests : stripe'[i].refunds = stripe[i].refunds
      BY <2>5
    <3>2. stripe'[Len(requests) + 1].refunds = 0
      BY <2>5
    <3>3. \A i \in DOMAIN requests' \ DOMAIN requests : stripe'[i].refunds = 0
      BY <2>6, <3>2
    <3> QED
      BY <2>2, <3>1, <3>3
  <2> QED
    BY <2>7
<1>5. ASSUME NEW h \in Handlers, Refund(h) \/ RefundUnanswered(h), ~UNCHANGED stripe
      PROVE  /\ handler[h].pc = "execute" /\ requests[Mine(h)].kind = "refund"
             /\ UNCHANGED <<requests, overrides>>
             /\ \A j \in DOMAIN requests \ {Mine(h)} : stripe'[j].refunds = stripe[j].refunds
  BY <1>1, <1>5 DEF Refund, RefundUnanswered, Executing
<1>6. ASSUME NEW h \in Handlers, CreateOverride(h) \/ RevokeOverride(h)
      PROVE  /\ handler[h].pc = "execute" /\ UNCHANGED <<requests, stripe>>
             /\ \/ /\ requests[Mine(h)].kind = "override"
                   /\ overrides' = Append(overrides, [request |-> Mine(h), revoked |-> FALSE])
                \/ /\ requests[Mine(h)].kind = "revoke"
                   /\ overrides' = [overrides EXCEPT ![requests[Mine(h)].of].revoked = TRUE]
  BY <1>6 DEF CreateOverride, RevokeOverride, Executing
<1>7. ASSUME NEW h \in Handlers,
             \/ WriteApproved(h) \/ WriteRejected(h) \/ WriteExecuted(h) \/ WriteFailed(h)
             \/ IssueCredit(h) \/ RefuseInvoice(h) \/ PersistInvoice(h)
             \/ StepFails(h) \/ Crash(h)
      PROVE  UNCHANGED <<stripe, overrides>> /\ DOMAIN requests' = DOMAIN requests
  BY <1>1, <1>7 DEF WriteApproved, WriteRejected, WriteExecuted, WriteFailed, Decide, Finish,
     IssueCredit, RefuseInvoice, PersistInvoice, StepFails, Crash, tables
<1>8. ASSUME NEW h \in Handlers, NEW o \in Operators, NEW j \in DOMAIN requests,
             CheckApproval(h, o, j) \/ CheckRejection(h, o, j)
      PROVE  UNCHANGED <<stripe, overrides, requests>>
  BY <1>8 DEF CheckApproval, CheckRejection, Check
<1>9. ASSUME NEW h \in Handlers, Refund(h) \/ RefundUnanswered(h), UNCHANGED stripe
      PROVE  UNCHANGED <<stripe, overrides, requests>>
  BY <1>9 DEF Refund, RefundUnanswered
<1>10. UNCHANGED vars => UNCHANGED <<stripe, overrides, requests>>
  BY DEF vars
<1> QED
  BY <1>3, <1>4, <1>5, <1>6, <1>7, <1>8, <1>9, <1>10 DEF Next, OperatorDecides, HandlerStep

\* Effects keep their approvals, and a new one comes with its own.
LEMMA EffectsNext ==
  ASSUME IInv, IInv', EffectsAreApproved, [Next]_vars
  PROVE  EffectsAreApproved'
<1>1. /\ DOMAIN requests \subseteq DOMAIN requests'
      /\ \A i \in DOMAIN requests :
           /\ requests'[i].kind = requests[i].kind
           /\ requests'[i].by = requests[i].by
           /\ requests'[i].of = requests[i].of
           /\ Backed(i) => Backed(i)'
  BY BackingStays
<1>2. ASSUME \A i \in DOMAIN requests : stripe'[i].refunds = stripe[i].refunds,
             \A i \in DOMAIN requests' \ DOMAIN requests : stripe'[i].refunds = 0
      PROVE  \A i \in DOMAIN requests' :
               stripe'[i].refunds > 0 => requests'[i].kind = "refund" /\ Backed(i)'
  BY <1>1, <1>2 DEF EffectsAreApproved
<1>3. ASSUME NEW v \in DOMAIN overrides
      PROVE  /\ \E i \in DOMAIN requests' :
                  overrides[v].request = i /\ requests'[i].kind = "override" /\ Backed(i)'
             /\ overrides[v].revoked =>
                  \E i \in DOMAIN requests' :
                    requests'[i].kind = "revoke" /\ requests'[i].of = v /\ Backed(i)'
  <2>1. PICK i \in DOMAIN requests :
          overrides[v].request = i /\ requests[i].kind = "override" /\ Backed(i)
    BY DEF EffectsAreApproved
  <2>2. ASSUME overrides[v].revoked
        PROVE  \E j \in DOMAIN requests' :
                 requests'[j].kind = "revoke" /\ requests'[j].of = v /\ Backed(j)'
    <3>1. PICK j \in DOMAIN requests :
            requests[j].kind = "revoke" /\ requests[j].of = v /\ Backed(j)
      BY <2>2 DEF EffectsAreApproved
    <3> QED
      BY <1>1, <3>1
  <2> QED
    BY <1>1, <2>1, <2>2
<1>4. overrides \in Seq(Override)
  BY DEF IInv, TypeOK
<1>5. CASE /\ \A i \in DOMAIN requests : stripe'[i].refunds = stripe[i].refunds
           /\ \A i \in DOMAIN requests' \ DOMAIN requests : stripe'[i].refunds = 0
           /\ UNCHANGED overrides
  BY <1>2, <1>3, <1>5 DEF EffectsAreApproved
<1>6. ASSUME NEW i \in DOMAIN requests, Backed(i), UNCHANGED requests,
             requests[i].kind = "refund", UNCHANGED overrides,
             \A j \in DOMAIN requests \ {i} : stripe'[j].refunds = stripe[j].refunds
      PROVE  EffectsAreApproved'
  <2>1. \A j \in DOMAIN requests' :
          stripe'[j].refunds > 0 => requests'[j].kind = "refund" /\ Backed(j)'
    BY <1>1, <1>6 DEF EffectsAreApproved
  <2> QED
    BY <1>3, <1>6, <2>1 DEF EffectsAreApproved
<1>7. ASSUME NEW i \in DOMAIN requests, Backed(i), UNCHANGED <<requests, stripe>>,
             requests[i].kind = "override",
             overrides' = Append(overrides, [request |-> i, revoked |-> FALSE])
      PROVE  EffectsAreApproved'
  <2>1. \A j \in DOMAIN requests' :
          stripe'[j].refunds > 0 => requests'[j].kind = "refund" /\ Backed(j)'
    BY <1>2, <1>7
  <2>2. ASSUME NEW v \in DOMAIN overrides'
        PROVE  \/ v \in DOMAIN overrides /\ overrides'[v] = overrides[v]
               \/ overrides'[v] = [request |-> i, revoked |-> FALSE]
    BY <1>4, <1>7
  <2> QED
    BY <1>1, <1>3, <1>7, <2>1, <2>2 DEF EffectsAreApproved
<1>8. ASSUME NEW i \in DOMAIN requests, Backed(i), UNCHANGED <<requests, stripe>>,
             requests[i].kind = "revoke",
             overrides' = [overrides EXCEPT ![requests[i].of].revoked = TRUE]
      PROVE  EffectsAreApproved'
  <2>1. \A j \in DOMAIN requests' :
          stripe'[j].refunds > 0 => requests'[j].kind = "refund" /\ Backed(j)'
    BY <1>2, <1>8
  <2>2. \A v \in DOMAIN overrides : overrides[v] \in Override
    BY <1>4, ElementType
  <2>3. ASSUME NEW v \in DOMAIN overrides'
        PROVE  /\ v \in DOMAIN overrides
               /\ overrides'[v].request = overrides[v].request
               /\ v # requests[i].of => overrides'[v] = overrides[v]
    BY <1>4, <1>8, <2>2 DEF Override
  <2> QED
    BY <1>1, <1>3, <1>8, <2>1, <2>3 DEF EffectsAreApproved
<1> QED
  BY <1>5, <1>6, <1>7, <1>8, EffectStep

\* Whatever calls, verdicts and failures cross: every refund, override and
\* revocation goes back to a request of its kind that somebody other than its
\* author took up.
THEOREM EffectsApproved == Spec => []EffectsAreApproved
<1>1. Init => EffectsAreApproved
  BY DEF Init, EffectsAreApproved
<1>2. IInv /\ EffectsAreApproved /\ [Next]_vars => EffectsAreApproved'
  BY EffectsNext, NextIInv, StutterIInv
<1> QED
  BY <1>1, <1>2, Invariance, PTL DEF Spec

=============================================================================
