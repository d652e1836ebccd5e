------------------------- MODULE DomainVerification -------------------------
(***************************************************************************)
(* DomainVerificationService and the operations of DomainsService that     *)
(* start a verification, for one custom host.                              *)
(*                                                                         *)
(* verifyDomain reads the row, asks the provider, DNS and the host itself, *)
(* writes the verdict by id and then brings the failure alert in line.     *)
(* Requests and the scheduled batches of several processes run it beside   *)
(* each other, and nothing orders their writes.                            *)
(***************************************************************************)
EXTENDS Naturals

CONSTANTS
  Checks,     \* verifications in flight
  MaxFaults,  \* bound: verifications cut short
  None

ASSUME MaxFaultsAssumption == MaxFaults \in Nat

VARIABLES
  row,     \* the Domain row that holds the host, or None
  alert,   \* whether the row's DOMAIN_FAILURE alert is OPEN
  check,   \* the verification in each slot
  world,   \* what provider, DNS and host answer at present
  faults   \* verifications cut short so far

vars == <<row, alert, check, world, faults>>

-----------------------------------------------------------------------------
\* The statuses processScheduledBatch takes up, and those it never does.
Attended == {"PENDING", "VERIFYING", "DNS_REQUIRED", "FAILED", "ACTIVE"}

Unattended == {"PROVIDER_ATTACH_PENDING", "SSL_PROVISIONING"}

Statuses == Attended \union Unattended

\* recent: verificationRequestedAt is within the grace period for SSL.
\* earned: history, some verification of this row found the host live.
Row == [status : Statuses, recent : BOOLEAN, earned : BOOLEAN]

ASSUME NoneAssumption == None \notin Row

\* own: the row the verification was started for is still there.  The rest
\* is what it has found so far; dns keeps its last value once it is decided.
Check == [pc : {"idle", "request", "read", "attach", "dns", "https", "write", "alert"},
          own : BOOLEAN, grace : BOOLEAN, attached : BOOLEAN,
          dns : {"missing", "wrong", "right"}, verdict : Statuses]

Idle == [pc |-> "idle", own |-> FALSE, grace |-> FALSE, attached |-> FALSE,
         dns |-> "missing", verdict |-> "PENDING"]

\* The certificate follows once the provider has the domain and DNS is right.
World == {w \in [attached : BOOLEAN, dns : {"missing", "wrong", "right"}, tls : BOOLEAN] :
            w.tls => w.attached /\ w.dns = "right"}

Live == [attached |-> TRUE, dns |-> "right", tls |-> TRUE]

Proceed(c, label) == check' = [check EXCEPT ![c].pc = label]

End(c) == check' = [check EXCEPT ![c] = Idle]

\* A decided verification keeps only its verdict.
Decide(c, verdict) ==
  check' = [check EXCEPT ![c] =
              [Idle EXCEPT !.pc = "write", !.own = check[c].own, !.verdict = verdict]]

Begin(c, label) ==
  /\ check[c].pc = "idle"
  /\ check' = [check EXCEPT ![c] = [Idle EXCEPT !.pc = label, !.own = TRUE]]

Init ==
  /\ row = None
  /\ alert = FALSE
  /\ check = [c \in Checks |-> Idle]
  /\ world \in World
  /\ faults = 0

-----------------------------------------------------------------------------
(* DomainsService                                                          *)

\* add: the row, then requestVerification without waiting for it.
Add(c) ==
  /\ row = None
  /\ row' = [status |-> "PENDING", recent |-> TRUE, earned |-> FALSE]
  /\ alert' = FALSE
  /\ Begin(c, "request")
  /\ UNCHANGED <<world, faults>>

\* setPrimary, retryForSite, adminRetryVerification: the row was found.
Retry(c) ==
  /\ row # None
  /\ Begin(c, "request")
  /\ UNCHANGED <<row, alert, world, faults>>

\* remove, or deleteSite detaching the site's domains.  The alert row of a
\* removed domain stays as it is; the next row has an id and alert of its own.
Remove ==
  /\ row # None
  /\ row' = None
  /\ alert' = FALSE
  /\ check' = [c \in Checks |-> [check[c] EXCEPT !.own = FALSE]]
  /\ UNCHANGED <<world, faults>>

-----------------------------------------------------------------------------
(* DomainVerificationService                                               *)

\* Mutant: a FAILED domain waits for its owner, too.
TakeUpPending(c) ==
  /\ row # None
  /\ row.status \in Attended \ {"FAILED"}
  /\ Begin(c, "read")
  /\ UNCHANGED <<row, alert, world, faults>>

\* processScheduledBatch: the list is read before any of its rows is checked.
\* The intervals are left to time.
TakeUp(c) ==
  /\ row # None
  /\ row.status \in Attended
  /\ Begin(c, "read")
  /\ UNCHANGED <<row, alert, world, faults>>

\* Mutant: a status the enum does not have.
RequestCheck(c) ==
  /\ check[c].pc = "request"
  /\ check[c].own
  /\ row' = [row EXCEPT !.status = "CHECKING", !.recent = TRUE]
  /\ Proceed(c, "read")
  /\ UNCHANGED <<alert, world, faults>>

\* requestVerification: an update by id, which throws if the row is gone.
Request(c) ==
  /\ check[c].pc = "request"
  /\ IF check[c].own
     THEN /\ row' = [row EXCEPT !.status = "VERIFYING", !.recent = TRUE]
          /\ Proceed(c, "read")
     ELSE End(c) /\ UNCHANGED row
  /\ UNCHANGED <<alert, world, faults>>

Read(c) ==
  /\ check[c].pc = "read"
  /\ IF check[c].own
     THEN check' = [check EXCEPT ![c].pc = "attach", ![c].grace = row.recent]
     ELSE End(c)
  /\ UNCHANGED <<row, alert, world, faults>>

\* ensureDomainAttachment
Attach(c) ==
  /\ check[c].pc = "attach"
  /\ check' = [check EXCEPT ![c].pc = "dns", ![c].attached = world.attached]
  /\ UNCHANGED <<row, alert, world, faults>>

\* resolveDnsState.  Unless the provider has the domain this decides; the
\* FAILED of a failed attachment is always overwritten here.
ResolveDns(c) ==
  /\ check[c].pc = "dns"
  /\ IF check[c].attached
     THEN check' = [check EXCEPT ![c].pc = "https", ![c].dns = world.dns]
     ELSE Decide(c, IF world.dns = "right" THEN "PROVIDER_ATTACH_PENDING"
                                           ELSE "DNS_REQUIRED")
  /\ UNCHANGED <<row, alert, world, faults>>

\* probeHttps
ProbeHttps(c) ==
  /\ check[c].pc = "https"
  /\ Decide(c, IF world.tls THEN "ACTIVE"
               ELSE IF check[c].dns = "missing" THEN "DNS_REQUIRED"
               ELSE IF check[c].grace THEN "SSL_PROVISIONING"
               ELSE "FAILED")
  /\ row' = IF world.tls /\ check[c].own THEN [row EXCEPT !.earned = TRUE] ELSE row
  /\ UNCHANGED <<alert, world, faults>>

\* Mutant: the verdict is written to whatever row has the host by now.
WriteByHost(c) ==
  /\ check[c].pc = "write"
  /\ IF row # None
     THEN row' = [row EXCEPT !.status = check[c].verdict] /\ Proceed(c, "alert")
     ELSE End(c) /\ UNCHANGED row
  /\ UNCHANGED <<alert, world, faults>>

\* Mutant: the verdict is written with an upsert.
WriteUpsert(c) ==
  /\ check[c].pc = "write"
  /\ row' = IF row = None
            THEN [status |-> check[c].verdict, recent |-> FALSE, earned |-> TRUE]
            ELSE [row EXCEPT !.status = check[c].verdict]
  /\ Proceed(c, "alert")
  /\ UNCHANGED <<alert, world, faults>>

\* The update by id throws if the row is gone: no alert then.
Write(c) ==
  /\ check[c].pc = "write"
  /\ IF check[c].own
     THEN row' = [row EXCEPT !.status = check[c].verdict] /\ Proceed(c, "alert")
     ELSE End(c) /\ UNCHANGED row
  /\ UNCHANGED <<alert, world, faults>>

\* Mutant: a verdict that is no failure leaves the alert alone.
RaiseOnly(c) ==
  /\ check[c].pc = "alert"
  /\ alert' = IF check[c].own THEN alert \/ check[c].verdict = "FAILED" ELSE alert
  /\ End(c)
  /\ UNCHANGED <<row, world, faults>>

\* syncFailureAlert: opens or resolves by this verification's own verdict.
SyncAlert(c) ==
  /\ check[c].pc = "alert"
  /\ alert' = IF check[c].own THEN check[c].verdict = "FAILED" ELSE alert
  /\ End(c)
  /\ UNCHANGED <<row, world, faults>>

\* The provider's API or a statement throws: the batch logs it, a request
\* answers an error.
CutShort(c) ==
  /\ check[c].pc # "idle"
  /\ faults < MaxFaults
  /\ faults' = faults + 1
  /\ End(c)
  /\ UNCHANGED <<row, alert, world>>

\* A process dies with every verification it runs.  add and setPrimary do not
\* wait for theirs nor catch its error: that ends the process too.
Die ==
  /\ faults < MaxFaults
  /\ \E c \in Checks : check[c].pc # "idle"
  /\ faults' = faults + 1
  /\ check' = [c \in Checks |-> Idle]
  /\ UNCHANGED <<row, alert, world>>

-----------------------------------------------------------------------------
\* External: owner, provider and certificate authority.
WorldMoves ==
  /\ world' \in World \ {world}
  /\ UNCHANGED <<row, alert, check, faults>>

GraceEnds ==
  /\ row # None
  /\ row.recent
  /\ row' = [row EXCEPT !.recent = FALSE]
  /\ UNCHANGED <<alert, check, world, faults>>

Verify(c) ==
  \/ Request(c) \/ Read(c) \/ Attach(c) \/ ResolveDns(c) \/ ProbeHttps(c)
  \/ Write(c) \/ SyncAlert(c)

Next ==
  \/ \E c \in Checks : Add(c) \/ Retry(c) \/ TakeUp(c) \/ Verify(c) \/ CutShort(c)
  \/ Remove \/ Die \/ WorldMoves \/ GraceEnds

Spec == Init /\ [][Next]_vars

\* The batch's timer keeps firing, calls return (the probes have timeouts) and
\* time passes.  Nobody has to press retry.
Fairness ==
  /\ \A c \in Checks : WF_vars(Verify(c))
  /\ WF_vars(\E c \in Checks : TakeUp(c))
  /\ WF_vars(GraceEnds)

FairSpec == Spec /\ Fairness

-----------------------------------------------------------------------------
TypeOK ==
  /\ row \in Row \union {None}
  /\ alert \in BOOLEAN
  /\ check \in [Checks -> Check]
  /\ world \in World
  /\ faults \in 0..MaxFaults

\* No row is ACTIVE on the strength of a verification of another row: a slow
\* check of a removed domain never marks the domain that took its host.
ActiveIsEarned ==
  row # None /\ row.status = "ACTIVE" => row.earned

\* Overlapping verifications may leave the alert of one beside the status of
\* another, a crash the alert of yesterday; never for good, except in the two
\* statuses no batch takes up.
AlertCatchesUp ==
  []<>(\/ row = None
       \/ row.status \in Unattended
       \/ alert <=> row.status = "FAILED")

\* A host that is live for good is found ACTIVE, whatever older verdicts were
\* written over newer ones, unless it was parked in one of those statuses.
LiveIsFound ==
  <>[](world = Live) =>
    []<>(row = None \/ row.status \in Unattended \union {"ACTIVE"})

\* For the tables HostCache reads, a verification only ever switches the one
\* claim there is: it revives none and moves none to another row.
Holder == INSTANCE HostHolder WITH
  Sites <- {1}, None <- 0, kind <- "custom",
  site <- IF row = None THEN 0 ELSE 1,
  live <- row # None /\ row.status = "ACTIVE"

ImplementsHolder == Holder!Spec

=============================================================================
