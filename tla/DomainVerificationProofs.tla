---------------------- MODULE DomainVerificationProofs ----------------------
(* Proofs about DomainVerification, for any number of verifications and    *)
(* faults.                                                                 *)
EXTENDS DomainVerification, TLAPS

\* What a verification says of the row it was started for: the row is still
\* there, and if the verdict is ACTIVE it has been found live.
CheckOK(q) ==
  q.own => /\ row # None
           /\ q.pc \in {"write", "alert"} /\ q.verdict = "ACTIVE" => row.earned

ChecksOK == \A c \in Checks : CheckOK(check[c])

IInv == TypeOK /\ ActiveIsEarned /\ ChecksOK

-----------------------------------------------------------------------------
\* An idle slot says nothing.
LEMMA IdleOK == Idle \in Check /\ ~Idle.own /\ Idle.pc = "idle"
BY DEF Idle, Check, Statuses, Attended

\* The initial state satisfies the inductive invariant.
LEMMA InitIInv == Init => IInv
<1> SUFFICES ASSUME Init PROVE IInv
  OBVIOUS
<1>1. check \in [Checks -> Check] /\ ChecksOK
  BY IdleOK DEF Init, ChecksOK, CheckOK
<1>2. faults \in 0..MaxFaults
  BY MaxFaultsAssumption DEF Init
<1>3. TypeOK
  BY <1>1, <1>2 DEF Init, TypeOK
<1>4. ActiveIsEarned
  BY DEF Init, ActiveIsEarned
<1> QED
  BY <1>1, <1>3, <1>4 DEF IInv

\* A step that moves one verification, or none, and does not make its row less
\* than it was.
LEMMA StepInv ==
  ASSUME IInv, TypeOK', ActiveIsEarned',
         row # None => row' # None /\ (row.earned => row'.earned),
         \A c \in Checks : check'[c] = check[c] \/ CheckOK(check[c])'
  PROVE  IInv'
<1>1. ASSUME NEW c \in Checks PROVE CheckOK(check[c])'
  BY DEF IInv, ChecksOK, CheckOK
<1> QED
  BY <1>1 DEF IInv, ChecksOK

\* What a slot is set to, and that no other moves.
LEMMA CheckSet ==
  ASSUME TypeOK, NEW c \in Checks, NEW q \in Check,
         check' = [check EXCEPT ![c] = q]
  PROVE  /\ check' \in [Checks -> Check]
         /\ check'[c] = q
         /\ \A d \in Checks \ {c} : check'[d] = check[d]
BY DEF TypeOK

\* The slot c of the invariant.
LEMMA CheckHere ==
  ASSUME IInv, NEW c \in Checks
  PROVE  check[c] \in Check /\ CheckOK(check[c])
BY DEF IInv, TypeOK, ChecksOK

\* Steps that leave the row alone.
LEMMA LocalInv ==
  ASSUME IInv, NEW c \in Checks, NEW q \in Check,
         check' = [check EXCEPT ![c] = q], CheckOK(q),
         alert' \in BOOLEAN, world' \in World, faults' \in 0..MaxFaults,
         UNCHANGED row
  PROVE  IInv'
<1>1. /\ check' \in [Checks -> Check]
      /\ check'[c] = q
      /\ \A d \in Checks \ {c} : check'[d] = check[d]
  BY CheckSet DEF IInv
<1>2. TypeOK' /\ ActiveIsEarned'
  BY <1>1 DEF IInv, TypeOK, ActiveIsEarned
<1>3. CheckOK(check[c])'
  BY <1>1 DEF CheckOK
<1> QED
  BY <1>1, <1>2, <1>3, StepInv

\* The same for a slot that becomes idle.
LEMMA EndInv ==
  ASSUME IInv, NEW c \in Checks, End(c),
         alert' \in BOOLEAN, faults' \in 0..MaxFaults, UNCHANGED <<row, world>>
  PROVE  IInv'
BY IdleOK, LocalInv DEF End, CheckOK, IInv, TypeOK

Labels == {"idle", "request", "read", "attach", "dns", "https", "write", "alert"}

\* The changes that the steps make to a slot are typed.
LEMMA MoveTyped ==
  ASSUME NEW r \in Check, NEW p \in Labels
  PROVE  [r EXCEPT !.pc = p] \in Check
BY DEF Check, Labels

LEMMA BeginTyped ==
  ASSUME NEW r \in Check, NEW p \in Labels, NEW o \in BOOLEAN
  PROVE  [r EXCEPT !.pc = p, !.own = o] \in Check
BY DEF Check, Labels

LEMMA GraceTyped ==
  ASSUME NEW r \in Check, NEW p \in Labels, NEW g \in BOOLEAN
  PROVE  [r EXCEPT !.pc = p, !.grace = g] \in Check
BY DEF Check, Labels

LEMMA AttachTyped ==
  ASSUME NEW r \in Check, NEW p \in Labels, NEW a \in BOOLEAN
  PROVE  [r EXCEPT !.pc = p, !.attached = a] \in Check
BY DEF Check, Labels

LEMMA DnsTyped ==
  ASSUME NEW r \in Check, NEW p \in Labels, NEW d \in {"missing", "wrong", "right"}
  PROVE  [r EXCEPT !.pc = p, !.dns = d] \in Check
BY DEF Check, Labels

LEMMA VerdictTyped ==
  ASSUME NEW r \in Check, NEW p \in Labels, NEW o \in BOOLEAN, NEW v \in Statuses
  PROVE  [r EXCEPT !.pc = p, !.own = o, !.verdict = v] \in Check
BY DEF Check, Labels

-----------------------------------------------------------------------------
\* A verification begins for the row that is there.
LEMMA BeginInv ==
  ASSUME IInv, NEW c \in Checks, NEW p \in {"request", "read"}, Begin(c, p), row # None,
         UNCHANGED <<row, alert, world, faults>>
  PROVE  IInv'
<1> DEFINE q == [Idle EXCEPT !.pc = p, !.own = TRUE]
<1>1. q \in Check
  BY IdleOK, BeginTyped DEF Labels
<1>2. q.pc = p /\ q.own
  BY IdleOK DEF Check
<1>3. CheckOK(q)
  BY <1>2 DEF CheckOK
<1>4. check' = [check EXCEPT ![c] = q]
  BY DEF Begin
<1> HIDE DEF q
<1> QED
  BY <1>1, <1>3, <1>4, LocalInv DEF IInv, TypeOK

\* A domain is added: no verification in flight was started for its row.
LEMMA AddInv == ASSUME IInv, NEW c \in Checks, Add(c) PROVE IInv'
<1> DEFINE q == [Idle EXCEPT !.pc = "request", !.own = TRUE]
<1>1. q \in Check
  BY IdleOK, BeginTyped DEF Labels
<1>2. q.pc = "request" /\ q.own
  BY IdleOK DEF Check
<1>3. check' = [check EXCEPT ![c] = q]
  BY DEF Add, Begin
<1> HIDE DEF q
<1>4. /\ check' \in [Checks -> Check]
      /\ check'[c] = q
      /\ \A d \in Checks \ {c} : check'[d] = check[d]
  BY <1>1, <1>3, CheckSet DEF IInv
<1>5. row' \in Row /\ row'.status = "PENDING" /\ row' # None
  <2>1. row' \in Row /\ row'.status = "PENDING"
    BY DEF Add, Row, Statuses, Attended
  <2> QED
    BY <2>1, NoneAssumption
<1>6. TypeOK' /\ ActiveIsEarned'
  BY <1>4, <1>5 DEF Add, IInv, TypeOK, ActiveIsEarned
<1>7. CheckOK(check[c])'
  BY <1>2, <1>4, <1>5 DEF CheckOK
<1> QED
  BY <1>4, <1>6, <1>7, StepInv DEF Add

\* A domain is removed: every verification loses its row.
LEMMA RemoveInv == IInv /\ Remove => IInv'
<1> SUFFICES ASSUME IInv, Remove PROVE IInv'
  OBVIOUS
<1>1. ASSUME NEW c \in Checks
      PROVE  check'[c] \in Check /\ ~check'[c].own
  <2>1. check[c] \in Check
    BY CheckHere
  <2>2. check'[c] = [check[c] EXCEPT !.own = FALSE]
    BY DEF Remove
  <2> QED
    BY <2>1, <2>2 DEF Check
<1>2. check' \in [Checks -> Check]
  BY <1>1 DEF Remove
<1>3. TypeOK' /\ ActiveIsEarned'
  BY <1>2 DEF Remove, IInv, TypeOK, ActiveIsEarned
<1>4. ChecksOK'
  BY <1>1 DEF ChecksOK, CheckOK
<1> QED
  BY <1>3, <1>4 DEF IInv

-----------------------------------------------------------------------------
(* The steps of a verification.                                            *)

\* A row that is there is a record, and what is written to it another.
LEMMA RowHere ==
  ASSUME IInv, row # None
  PROVE  /\ row \in Row
         /\ \A v \in Statuses : /\ [row EXCEPT !.status = v] \in Row
                                /\ [row EXCEPT !.status = v].earned = row.earned
                                /\ [row EXCEPT !.status = v].status = v
<1>1. row \in Row
  BY DEF IInv, TypeOK
<1> QED
  BY <1>1 DEF Row

\* The owner's request is noted.
LEMMA RequestInv == ASSUME IInv, NEW c \in Checks, Request(c) PROVE IInv'
<1>1. check[c] \in Check /\ CheckOK(check[c])
  BY CheckHere
<1>2. CASE ~check[c].own
  BY <1>2, EndInv DEF Request, IInv, TypeOK
<1>3. CASE check[c].own
  <2> DEFINE q == [check[c] EXCEPT !.pc = "read"]
  <2>1. row # None /\ row \in Row
    BY <1>1, <1>3, RowHere DEF CheckOK
  <2>2. row' = [row EXCEPT !.status = "VERIFYING", !.recent = TRUE]
    BY <1>3 DEF Request
  <2>3. row' \in Row /\ row'.status = "VERIFYING" /\ row'.earned = row.earned
    BY <2>1, <2>2 DEF Row, Statuses, Attended
  <2>4. row' # None
    BY <2>3, NoneAssumption
  <2>5. q \in Check
    BY <1>1, MoveTyped DEF Labels
  <2>6. q.pc = "read"
    BY <1>1 DEF Check
  <2>7. check' = [check EXCEPT ![c] = q]
    BY <1>3 DEF Request, Proceed, IInv, TypeOK
  <2> HIDE DEF q
  <2>8. /\ check' \in [Checks -> Check]
        /\ check'[c] = q
        /\ \A d \in Checks \ {c} : check'[d] = check[d]
    BY <2>5, <2>7, CheckSet DEF IInv
  <2>9. TypeOK' /\ ActiveIsEarned'
    BY <2>3, <2>8 DEF Request, IInv, TypeOK, ActiveIsEarned
  <2>10. CheckOK(check[c])'
    BY <2>4, <2>6, <2>8 DEF CheckOK
  <2> QED
    BY <2>3, <2>4, <2>8, <2>9, <2>10, StepInv
<1> QED
  BY <1>2, <1>3

\* The row is read.
LEMMA ReadInv == ASSUME IInv, NEW c \in Checks, Read(c) PROVE IInv'
<1>1. check[c] \in Check /\ CheckOK(check[c])
  BY CheckHere
<1>2. CASE ~check[c].own
  BY <1>2, EndInv DEF Read, IInv, TypeOK
<1>3. CASE check[c].own
  <2> DEFINE q == [check[c] EXCEPT !.pc = "attach", !.grace = row.recent]
  <2>1. row # None /\ row \in Row /\ row.recent \in BOOLEAN
    BY <1>1, <1>3, RowHere DEF CheckOK, Row
  <2>2. q \in Check
    BY <1>1, <2>1, GraceTyped DEF Labels
  <2>3. q.pc = "attach"
    BY <1>1 DEF Check
  <2>4. CheckOK(q)
    BY <2>1, <2>3 DEF CheckOK
  <2>5. check' = [check EXCEPT ![c] = q]
    BY <1>3 DEF Read, IInv, TypeOK
  <2> HIDE DEF q
  <2> QED
    BY <2>2, <2>4, <2>5, LocalInv DEF Read, IInv, TypeOK
<1> QED
  BY <1>2, <1>3

\* The provider answers.
LEMMA AttachInv == ASSUME IInv, NEW c \in Checks, Attach(c) PROVE IInv'
<1> DEFINE q == [check[c] EXCEPT !.pc = "dns", !.attached = world.attached]
<1>1. check[c] \in Check /\ CheckOK(check[c]) /\ world.attached \in BOOLEAN
  BY CheckHere DEF IInv, TypeOK, World
<1>2. q \in Check
  BY <1>1, AttachTyped DEF Labels
<1>3. q.pc = "dns" /\ q.own = check[c].own
  BY <1>1 DEF Check
<1>4. CheckOK(q)
  BY <1>1, <1>3 DEF CheckOK
<1>5. check' = [check EXCEPT ![c] = q]
  BY DEF Attach, IInv, TypeOK
<1> HIDE DEF q
<1> QED
  BY <1>2, <1>4, <1>5, LocalInv DEF Attach, IInv, TypeOK

\* What a decision leaves in the slot.
LEMMA Decided ==
  ASSUME IInv, NEW c \in Checks, NEW v \in Statuses, Decide(c, v)
  PROVE  \E q \in Check : /\ check' = [check EXCEPT ![c] = q]
                          /\ q.pc = "write" /\ q.own = check[c].own /\ q.verdict = v
<1> DEFINE o == check[c].own
<1>1. o \in BOOLEAN
  BY CheckHere DEF Check
<1>2. check' = [check EXCEPT ![c] = [Idle EXCEPT !.pc = "write", !.own = o, !.verdict = v]]
  BY DEF Decide
<1> HIDE DEF o
<1> DEFINE q == [Idle EXCEPT !.pc = "write", !.own = o, !.verdict = v]
<1>3. q \in Check
  BY <1>1, IdleOK, VerdictTyped DEF Labels
<1>4. q.pc = "write" /\ q.own = o /\ q.verdict = v
  BY IdleOK DEF Check
<1> HIDE DEF q
<1> QED
  BY <1>2, <1>3, <1>4 DEF q, o

\* DNS answers, and decides the verification or not.
LEMMA ResolveDnsInv == ASSUME IInv, NEW c \in Checks, ResolveDns(c) PROVE IInv'
<1>1. check[c] \in Check /\ CheckOK(check[c]) /\ world.dns \in {"missing", "wrong", "right"}
  BY CheckHere DEF IInv, TypeOK, World
<1>2. CASE check[c].attached
  <2> DEFINE q == [check[c] EXCEPT !.pc = "https", !.dns = world.dns]
  <2>1. q \in Check
    BY <1>1, DnsTyped DEF Labels
  <2>2. q.pc = "https" /\ q.own = check[c].own
    BY <1>1 DEF Check
  <2>3. CheckOK(q)
    BY <1>1, <2>2 DEF CheckOK
  <2>4. check' = [check EXCEPT ![c] = q]
    BY <1>2 DEF ResolveDns, IInv, TypeOK
  <2> HIDE DEF q
  <2> QED
    BY <2>1, <2>3, <2>4, LocalInv DEF ResolveDns, IInv, TypeOK
<1>3. CASE ~check[c].attached
  <2> DEFINE v == IF world.dns = "right" THEN "PROVIDER_ATTACH_PENDING" ELSE "DNS_REQUIRED"
  <2>1. v \in Statuses /\ v # "ACTIVE"
    BY DEF Statuses, Attended, Unattended
  <2>2. Decide(c, v)
    BY <1>3 DEF ResolveDns
  <2> HIDE DEF v
  <2>3. PICK q \in Check : /\ check' = [check EXCEPT ![c] = q]
                           /\ q.pc = "write" /\ q.own = check[c].own /\ q.verdict = v
    BY <2>1, <2>2, Decided
  <2>4. CheckOK(q)
    BY <1>1, <2>1, <2>3 DEF CheckOK
  <2> QED
    BY <2>3, <2>4, LocalInv DEF ResolveDns, IInv, TypeOK
<1> QED
  BY <1>2, <1>3

\* The host is probed, which decides the verification.
LEMMA ProbeHttpsInv == ASSUME IInv, NEW c \in Checks, ProbeHttps(c) PROVE IInv'
<1> DEFINE v == IF world.tls THEN "ACTIVE"
                ELSE IF check[c].dns = "missing" THEN "DNS_REQUIRED"
                ELSE IF check[c].grace THEN "SSL_PROVISIONING"
                ELSE "FAILED"
<1>1. check[c] \in Check /\ CheckOK(check[c])
  BY CheckHere
<1>2. v \in Statuses /\ (v = "ACTIVE" => world.tls)
  BY DEF Statuses, Attended, Unattended
<1>3. Decide(c, v)
  BY DEF ProbeHttps
<1> HIDE DEF v
<1>4. PICK q \in Check : /\ check' = [check EXCEPT ![c] = q]
                         /\ q.pc = "write" /\ q.own = check[c].own /\ q.verdict = v
  BY <1>2, <1>3, Decided
<1>5. /\ check' \in [Checks -> Check]
      /\ check'[c] = q
      /\ \A d \in Checks \ {c} : check'[d] = check[d]
  BY <1>4, CheckSet DEF IInv
<1>6. CASE world.tls /\ check[c].own
  <2>1. row # None /\ row \in Row
    BY <1>1, <1>6, RowHere DEF CheckOK
  <2>2. row' = [row EXCEPT !.earned = TRUE]
    BY <1>6 DEF ProbeHttps
  <2>3. row' \in Row /\ row'.earned
    BY <2>1, <2>2 DEF Row
  <2>4. row' # None
    BY <2>3, NoneAssumption
  <2>5. TypeOK' /\ ActiveIsEarned'
    BY <1>5, <2>3 DEF ProbeHttps, IInv, TypeOK, ActiveIsEarned
  <2>6. CheckOK(check[c])'
    BY <1>5, <2>3, <2>4 DEF CheckOK
  <2> QED
    BY <1>5, <2>3, <2>4, <2>5, <2>6, StepInv
<1>7. CASE ~(world.tls /\ check[c].own)
  <2>1. row' = row
    BY <1>7 DEF ProbeHttps
  <2>2. CheckOK(q)
    BY <1>1, <1>2, <1>4, <1>7 DEF CheckOK
  <2> QED
    BY <1>4, <2>1, <2>2, LocalInv DEF ProbeHttps, IInv, TypeOK
<1> QED
  BY <1>6, <1>7

\* The verdict is written to the row it was reached for, or to none.
LEMMA WriteInv == ASSUME IInv, NEW c \in Checks, Write(c) PROVE IInv'
<1>1. check[c] \in Check /\ CheckOK(check[c]) /\ check[c].pc = "write"
  BY CheckHere DEF Write
<1>2. CASE ~check[c].own
  BY <1>2, EndInv DEF Write, IInv, TypeOK
<1>3. CASE check[c].own
  <2> DEFINE v == check[c].verdict
  <2> DEFINE q == [check[c] EXCEPT !.pc = "alert"]
  <2>1. row # None /\ row \in Row /\ v \in Statuses /\ (v = "ACTIVE" => row.earned)
    BY <1>1, <1>3, RowHere DEF CheckOK, Check
  <2>2. row' = [row EXCEPT !.status = v]
    BY <1>3 DEF Write
  <2>3. row' \in Row /\ row'.status = v /\ row'.earned = row.earned
    BY <2>1, <2>2, RowHere
  <2>4. row' # None
    BY <2>3, NoneAssumption
  <2>5. q \in Check
    BY <1>1, MoveTyped DEF Labels
  <2>6. q.pc = "alert" /\ q.own /\ q.verdict = v
    BY <1>1, <1>3 DEF Check
  <2>7. check' = [check EXCEPT ![c] = q]
    BY <1>3 DEF Write, Proceed, IInv, TypeOK
  <2> HIDE DEF q, v
  <2>8. /\ check' \in [Checks -> Check]
        /\ check'[c] = q
        /\ \A d \in Checks \ {c} : check'[d] = check[d]
    BY <2>5, <2>7, CheckSet DEF IInv
  <2>9. TypeOK' /\ ActiveIsEarned'
    BY <2>1, <2>3, <2>8 DEF Write, IInv, TypeOK, ActiveIsEarned
  <2>10. CheckOK(check[c])'
    BY <2>1, <2>3, <2>4, <2>6, <2>8 DEF CheckOK
  <2> QED
    BY <2>3, <2>4, <2>8, <2>9, <2>10, StepInv
<1> QED
  BY <1>2, <1>3

\* The alert is brought in line, or the verification is cut short.
LEMMA LastStepInv ==
  ASSUME IInv, NEW c \in Checks, SyncAlert(c) \/ CutShort(c)
  PROVE  IInv'
<1>1. CASE SyncAlert(c)
  BY <1>1, EndInv DEF SyncAlert, IInv, TypeOK
<1>2. CASE CutShort(c)
  <2>1. faults' \in 0..MaxFaults
    BY <1>2, MaxFaultsAssumption DEF CutShort, IInv, TypeOK
  <2> QED
    BY <1>2, <2>1, EndInv DEF CutShort, IInv, TypeOK
<1> QED
  BY <1>1, <1>2

\* What is no step of a verification: a process dies, the world moves, the
\* grace period ends.
LEMMA DieInv == IInv /\ Die => IInv'
<1> SUFFICES ASSUME IInv, Die PROVE IInv'
  OBVIOUS
<1>1. faults' \in 0..MaxFaults
  BY MaxFaultsAssumption DEF Die, IInv, TypeOK
<1>2. check' \in [Checks -> Check] /\ \A c \in Checks : ~check'[c].own
  BY IdleOK DEF Die
<1>3. TypeOK' /\ ActiveIsEarned'
  BY <1>1, <1>2 DEF Die, IInv, TypeOK, ActiveIsEarned
<1>4. ChecksOK'
  BY <1>2 DEF ChecksOK, CheckOK
<1> QED
  BY <1>3, <1>4 DEF IInv

LEMMA SurroundingsInv == IInv /\ (WorldMoves \/ GraceEnds) => IInv'
<1>1. ASSUME IInv, WorldMoves PROVE IInv'
  <2>1. TypeOK' /\ ActiveIsEarned'
    BY <1>1 DEF WorldMoves, IInv, TypeOK, ActiveIsEarned
  <2> QED
    BY <1>1, <2>1, StepInv DEF WorldMoves
<1>2. ASSUME IInv, GraceEnds PROVE IInv'
  <2>1. row \in Row /\ row' = [row EXCEPT !.recent = FALSE]
    BY <1>2, RowHere DEF GraceEnds
  <2>2. row' \in Row /\ row'.status = row.status /\ row'.earned = row.earned
    BY <2>1 DEF Row
  <2>3. row' # None
    BY <2>2, NoneAssumption
  <2>4. TypeOK' /\ ActiveIsEarned'
    BY <1>2, <2>2 DEF GraceEnds, IInv, TypeOK, ActiveIsEarned
  <2> QED
    BY <1>2, <2>2, <2>3, <2>4, StepInv DEF GraceEnds
<1> QED
  BY <1>1, <1>2

-----------------------------------------------------------------------------
\* Every step preserves the inductive invariant.
LEMMA NextIInv == IInv /\ [Next]_vars => IInv'
<1> SUFFICES ASSUME IInv, [Next]_vars PROVE IInv'
  OBVIOUS
<1>1. ASSUME NEW c \in Checks, Add(c) PROVE IInv'
  BY <1>1, AddInv
<1>2. ASSUME NEW c \in Checks, Retry(c) \/ TakeUp(c) PROVE IInv'
  BY <1>2, BeginInv DEF Retry, TakeUp
<1>3. ASSUME NEW c \in Checks, Verify(c) PROVE IInv'
  BY <1>3, RequestInv, ReadInv, AttachInv, ResolveDnsInv, ProbeHttpsInv, WriteInv, LastStepInv
     DEF Verify
<1>4. ASSUME NEW c \in Checks, CutShort(c) PROVE IInv'
  BY <1>4, LastStepInv
<1>5. CASE UNCHANGED vars
  <2>1. TypeOK' /\ ActiveIsEarned'
    BY <1>5 DEF IInv, TypeOK, ActiveIsEarned, vars
  <2> QED
    BY <1>5, <2>1, StepInv DEF vars
<1> QED
  BY <1>1, <1>2, <1>3, <1>4, <1>5, RemoveInv, DieInv, SurroundingsInv DEF Next

\* The inductive invariant holds in every reachable state.
THEOREM Invariant == Spec => []IInv
BY InitIInv, NextIInv, PTL DEF Spec

\* The row, the alert and the verifications keep their types.
THEOREM TypeCorrect == Spec => []TypeOK
<1>1. IInv => TypeOK
  BY DEF IInv
<1> QED
  BY <1>1, Invariant, PTL

\* However many verifications of however many successive rows of the host
\* overlap, a row is ACTIVE only if one of its own found the host live.
THEOREM Earned == Spec => []ActiveIsEarned
<1>1. IInv => ActiveIsEarned
  BY DEF IInv
<1> QED
  BY <1>1, Invariant, PTL

-----------------------------------------------------------------------------
(* The refinement.                                                         *)

Served == row # None /\ row.status = "ACTIVE"

Claimant == IF row = None THEN 0 ELSE 1

\* A row appears only as a domain that is not served yet.
LEMMA Appears ==
  ASSUME IInv, [Next]_vars, row = None, row' # None
  PROVE  row'.status # "ACTIVE"
<1>1. ASSUME NEW c \in Checks, Verify(c) PROVE row' = row
  <2>1. ~check[c].own
    BY CheckHere DEF CheckOK
  <2> QED
    BY <1>1, <2>1 DEF Verify, Request, Read, Attach, ResolveDns, ProbeHttps, Write, SyncAlert
<1>2. ASSUME NEW c \in Checks, Add(c) PROVE row'.status # "ACTIVE"
  BY <1>2 DEF Add
<1>3. row' = row \/ \E c \in Checks : Add(c)
  BY <1>1 DEF Next, Retry, TakeUp, CutShort, Remove, Die, WorldMoves, GraceEnds, vars
<1> QED
  BY <1>2, <1>3

\* So a step claims the host, releases it, switches the claim, or does nothing
\* to it.
LEMMA HolderStep ==
  ASSUME IInv, [Next]_vars
  PROVE  [Holder!Next]_<<"custom", Claimant, Served>>
<1>1. CASE row = None /\ row' = None
  BY <1>1 DEF Claimant, Served
<1>2. CASE row = None /\ row' # None
  <2>1. Claimant = 0 /\ Claimant' = 1 /\ Served' = FALSE
    BY <1>2, Appears DEF Claimant, Served
  <2>2. Holder!Claim(1)
    BY <2>1 DEF Holder!Claim, Claimant, Served
  <2> QED
    BY <2>2 DEF Holder!Next
<1>3. CASE row # None /\ row' = None
  <2>1. Holder!Release
    BY <1>3 DEF Holder!Release
  <2> QED
    BY <2>1 DEF Holder!Next
<1>4. CASE row # None /\ row' # None
  <2>1. CASE Served' = Served
    BY <1>4, <2>1 DEF Claimant
  <2>2. CASE Served' # Served
    <3>1. Holder!Judge
      BY <1>4, <2>2 DEF Holder!Judge, Served
    <3> QED
      BY <3>1 DEF Holder!Next
  <2> QED
    BY <2>1, <2>2
<1> QED
  BY <1>1, <1>2, <1>3, <1>4

\* The tables that host resolution reads move as HostHolder allows: whatever
\* verifications overlap, the claim on a host is taken, switched and released,
\* never moved or revived.
THEOREM Refinement == Spec => ImplementsHolder
<1>1. Init => Holder!Init
  BY DEF Init, Holder!Init
<1>2. IInv /\ [Next]_vars => [Holder!Next]_<<"custom", Claimant, Served>>
  BY HolderStep
<1> QED
  BY <1>1, <1>2, Invariant, PTL DEF Spec, ImplementsHolder, Holder!Spec, Claimant, Served

=============================================================================
