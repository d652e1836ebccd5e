-------------------------- MODULE HostCacheProofs ---------------------------
(* Proofs about HostCache, for any number of sites and processes.          *)
EXTENDS HostCache, TLAPS

\* Some process has still to delete the key.
BustPending == \E p \in Processes : bust[p] # "idle"

\* A lookup stores a site, and what it is about to store obeys the rule of
\* the stored copy.
LookupsHaveCause ==
  \A p \in Processes :
    fill[p].pc \in {"store", "send"} =>
      /\ fill[p].site # None
      /\ fill[p].site # Holder => fill[p].late \/ BustPending

IInv == TypeOK /\ StaleCopyHasCause /\ LookupsHaveCause

-----------------------------------------------------------------------------
\* At first nobody claims the host and nothing is stored.
LEMMA InitIInv == Init => IInv
<1> SUFFICES ASSUME Init PROVE IInv
  OBVIOUS
<1>1. TypeOK
  BY DEF Init, Tables!Init, TypeOK, Copy, Lookup, Absent, Idle
<1>2. StaleCopyHasCause
  BY DEF Init, StaleCopyHasCause, Absent
<1>3. LookupsHaveCause
  BY DEF Init, LookupsHaveCause, Idle
<1> QED
  BY <1>1, <1>2, <1>3 DEF IInv

\* The tables move within their types.
LEMMA TablesStep ==
  ASSUME TypeOK,
         (\E s \in Sites : Tables!Claim(s)) \/ Tables!Judge \/ Tables!Release
  PROVE  /\ kind' \in {"custom", "subdomain"}
         /\ site' \in Sites \union {None}
         /\ live' \in BOOLEAN
         /\ site' = None => ~live'
BY NoneAssumption DEF TypeOK, Tables!Claim, Tables!Judge, Tables!Release

\* A change that owes its deletion explains whatever is out of date.
LEMMA CommittedStep ==
  ASSUME IInv, NEW p \in Processes, Committed(p),
         (\E s \in Sites : Tables!Claim(s)) \/ Tables!Judge \/ Tables!Release
  PROVE  IInv'
<1>1. TypeOK'
  BY TablesStep DEF IInv, TypeOK, Committed
<1>2. bust'[p] # "idle"
  BY DEF IInv, TypeOK, Committed
<1>3. StaleCopyHasCause' /\ LookupsHaveCause'
  BY <1>2 DEF IInv, Committed, StaleCopyHasCause, LookupsHaveCause, BustPending
<1> QED
  BY <1>1, <1>3 DEF IInv

\* Blaming the copy and the lookups keeps their types and explains them.
LEMMA BlameTypes ==
  ASSUME TypeOK
  PROVE  /\ [shared EXCEPT !.blamed = TRUE] \in Copy
         /\ [shared EXCEPT !.blamed = TRUE].blamed
         /\ AllLate \in [Processes -> Lookup]
         /\ \A q \in Processes : /\ AllLate[q].late
                                 /\ AllLate[q].pc = fill[q].pc
                                 /\ AllLate[q].site = fill[q].site
<1>1. [shared EXCEPT !.blamed = TRUE] \in Copy /\ [shared EXCEPT !.blamed = TRUE].blamed
  BY DEF TypeOK, Copy
<1>2. ASSUME NEW q \in Processes
      PROVE  /\ [fill[q] EXCEPT !.late = TRUE] \in Lookup
             /\ [fill[q] EXCEPT !.late = TRUE].late
             /\ [fill[q] EXCEPT !.late = TRUE].pc = fill[q].pc
             /\ [fill[q] EXCEPT !.late = TRUE].site = fill[q].site
  BY DEF TypeOK, Lookup
<1> QED
  BY <1>1, <1>2 DEF AllLate

\* Every action preserves the invariant.
LEMMA NextIInv == IInv /\ [Next]_vars => IInv'
<1> SUFFICES ASSUME IInv, [Next]_vars PROVE IInv'
  OBVIOUS
<1> USE DEF IInv
<1>1. ASSUME NEW p \in Processes, StartFill(p) PROVE IInv'
  <2>1. TypeOK'
    BY <1>1 DEF StartFill, TypeOK, Lookup, Idle, tables
  <2>2. StaleCopyHasCause'
    BY <1>1 DEF StartFill, StaleCopyHasCause, Holder, tables
  <2>3. LookupsHaveCause'
    BY <1>1 DEF StartFill, TypeOK, Idle, LookupsHaveCause, BustPending, Holder, tables
  <2> QED
    BY <2>1, <2>2, <2>3
<1>2. ASSUME NEW p \in Processes, Query(p) PROVE IInv'
  <2>1. TypeOK'
    BY <1>2 DEF Query, TypeOK, Lookup, Idle, Holder, tables
  <2>2. StaleCopyHasCause'
    BY <1>2 DEF Query, StaleCopyHasCause, Holder, tables
  <2>3. LookupsHaveCause'
    BY <1>2 DEF Query, TypeOK, Idle, LookupsHaveCause, BustPending, Holder, tables
  <2> QED
    BY <2>1, <2>2, <2>3
<1>3. ASSUME NEW p \in Processes, Store(p) PROVE IInv'
  <2>1. TypeOK'
    BY <1>3 DEF Store, TypeOK, Lookup, tables
  <2>2. StaleCopyHasCause'
    BY <1>3 DEF Store, StaleCopyHasCause, Holder, tables
  <2>3. LookupsHaveCause'
    BY <1>3 DEF Store, TypeOK, LookupsHaveCause, BustPending, Holder, tables
  <2> QED
    BY <2>1, <2>2, <2>3
<1>4. ASSUME NEW p \in Processes, Send(p) PROVE IInv'
  <2>1. TypeOK'
    BY <1>4 DEF Send, TypeOK, Lookup, Copy, Idle, tables
  <2>2. StaleCopyHasCause'
    BY <1>4 DEF Send, StaleCopyHasCause, LookupsHaveCause, BustPending, Holder, tables
  <2>3. LookupsHaveCause'
    BY <1>4 DEF Send, TypeOK, Idle, LookupsHaveCause, BustPending, Holder, tables
  <2> QED
    BY <2>1, <2>2, <2>3
<1>5. ASSUME NEW p \in Processes, NEW s \in Sites, AddDomain(p, s) \/ RestoreSite(p, s)
      PROVE  IInv'
  BY <1>5, CommittedStep DEF AddDomain, RestoreSite
<1>6. ASSUME NEW s \in Sites, CreateSite(s) PROVE IInv'
  <2>1. TypeOK'
    BY <1>6, TablesStep DEF CreateSite, TypeOK
  <2>2. Holder = None
    BY <1>6 DEF CreateSite, TypeOK, Tables!Claim, Holder
  <2>3. StaleCopyHasCause'
    BY <1>6, <2>2 DEF CreateSite, StaleCopyHasCause
  <2>4. LookupsHaveCause'
    BY <1>6, <2>2 DEF CreateSite, LookupsHaveCause, BustPending
  <2> QED
    BY <2>1, <2>3, <2>4
<1>7. ASSUME NEW p \in Processes, Remove(p) \/ ChooseVariant(p) PROVE IInv'
  BY <1>7, CommittedStep DEF Remove, ChooseVariant
<1>8. CASE Verify
  <2>1. TypeOK'
    BY <1>8, TablesStep, BlameTypes DEF Verify, Blame, TypeOK
  <2>2. StaleCopyHasCause' /\ LookupsHaveCause'
    BY <1>8, BlameTypes DEF Verify, Blame, StaleCopyHasCause, LookupsHaveCause, TypeOK
  <2> QED
    BY <2>1, <2>2
<1>9. ASSUME NEW p \in Processes, BustMemory(p) PROVE IInv'
  <2>1. TypeOK'
    BY <1>9 DEF BustMemory, TypeOK, tables
  <2>2. bust'[p] # "idle"
    BY <1>9 DEF BustMemory, TypeOK
  <2> QED
    BY <1>9, <2>1, <2>2 DEF BustMemory, StaleCopyHasCause, LookupsHaveCause, BustPending
<1>10. ASSUME NEW p \in Processes, BustShared(p) PROVE IInv'
  <2>1. fill' = AllLate /\ (shared' = Absent \/ shared' = [shared EXCEPT !.blamed = TRUE])
    BY <1>10 DEF BustShared, Blame
  <2>2. Absent \in Copy /\ Absent.site = None
    BY DEF Absent, Copy
  <2>3. shared' \in Copy /\ fill' \in [Processes -> Lookup]
    BY <2>1, <2>2, BlameTypes
  <2>4. TypeOK'
    BY <1>10, <2>3 DEF BustShared, TypeOK, tables
  <2>5. StaleCopyHasCause'
    BY <2>1, <2>2, BlameTypes DEF StaleCopyHasCause
  <2>6. LookupsHaveCause'
    BY <2>1, BlameTypes DEF LookupsHaveCause
  <2> QED
    BY <2>4, <2>5, <2>6
<1>11. ASSUME NEW p \in Processes, Die(p) PROVE IInv'
  <2>1. CASE bust[p] = "idle"
    <3>1. Idle \in Lookup
      BY DEF Idle, Lookup
    <3>2. bust' = bust /\ fill' \in [Processes -> Lookup]
      BY <1>11, <2>1, <3>1 DEF Die, TypeOK
    <3>5. TypeOK'
      BY <1>11, <2>1, <3>2 DEF Die, TypeOK, tables
    <3>3. StaleCopyHasCause'
      BY <1>11, <2>1, <3>2 DEF Die, StaleCopyHasCause, Holder, tables
    <3>4. LookupsHaveCause'
      BY <1>11, <2>1, <3>2
         DEF Die, TypeOK, LookupsHaveCause, BustPending, Holder, tables, Idle
    <3> QED
      BY <3>3, <3>4, <3>5
  <2>2. CASE bust[p] # "idle"
    <3>1. /\ fill' = [AllLate EXCEPT ![p] = Idle]
          /\ shared' = [shared EXCEPT !.blamed = TRUE]
      BY <1>11, <2>2 DEF Die
    <3>2. TypeOK'
      BY <1>11, <3>1, BlameTypes DEF Die, TypeOK, tables, Lookup, Idle
    <3>3. \A q \in Processes : fill'[q] = Idle \/ fill'[q] = AllLate[q]
      BY <3>1, BlameTypes
    <3>4. StaleCopyHasCause' /\ LookupsHaveCause'
      BY <3>1, <3>3, BlameTypes DEF StaleCopyHasCause, LookupsHaveCause, Idle
    <3> QED
      BY <3>2, <3>4
  <2> QED
    BY <2>1, <2>2
<1>12. CASE ExpireShared
  <2>1. TypeOK'
    BY <1>12 DEF ExpireShared, TypeOK, tables, Absent, Copy
  <2>2. StaleCopyHasCause' /\ LookupsHaveCause'
    BY <1>12 DEF ExpireShared, StaleCopyHasCause, LookupsHaveCause, BustPending, Holder,
                 tables, Absent
  <2> QED
    BY <2>1, <2>2
<1>13. ASSUME NEW p \in Processes, ExpireMemory(p) PROVE IInv'
  <2>1. TypeOK'
    BY <1>13 DEF ExpireMemory, TypeOK, tables
  <2>2. StaleCopyHasCause' /\ LookupsHaveCause'
    BY <1>13 DEF ExpireMemory, StaleCopyHasCause, LookupsHaveCause, BustPending, Holder,
                 tables
  <2> QED
    BY <2>1, <2>2
<1>14. CASE UNCHANGED vars
  BY <1>14 DEF vars, TypeOK, StaleCopyHasCause, LookupsHaveCause, BustPending, Holder
<1> QED
  BY <1>1, <1>2, <1>3, <1>4, <1>5, <1>6, <1>7, <1>8, <1>9, <1>10, <1>11, <1>12, <1>13,
     <1>14 DEF Next, Handle

-----------------------------------------------------------------------------
\* Tables, copies, lookups and deletions keep their types.
THEOREM TypeCorrect == Spec => []TypeOK
<1>1. IInv => TypeOK
  BY DEF IInv
<1> QED
  BY InitIInv, NextIInv, <1>1, PTL DEF Spec

\* However many processes look the host up, change it and delete its key,
\* Upstash is out of date only while a deletion is on its way or for a cause
\* that is on record.
THEOREM StaleCopiesExplained == Spec => []StaleCopyHasCause
<1>1. IInv => StaleCopyHasCause
  BY DEF IInv
<1> QED
  BY InitIInv, NextIInv, <1>1, PTL DEF Spec

=============================================================================
