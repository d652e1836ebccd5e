----------------------------- MODULE HostCache ------------------------------
(***************************************************************************)
(* HostResolutionService.resolveHost over PublicRuntimeCacheService, and   *)
(* the services that change who serves a host and then delete its key.     *)
(*                                                                         *)
(* An answer is kept for 60 seconds in Upstash, shared by all processes of *)
(* the API, and in the memory of the process that looked it up, which is   *)
(* read only when an Upstash command fails.  Lookups, changes and          *)
(* deletions of the key interleave at every await.                         *)
(***************************************************************************)
CONSTANTS
  Sites,
  Processes,  \* processes of the API; each runs one lookup and one change at a time
  None

ASSUME NoneAssumption == None \notin Sites

VARIABLES
  kind, site, live,  \* the tables, see HostHolder
  shared,  \* the key in Upstash; blamed: see below
  memory,  \* the key in the memory of each process
  fill,    \* the lookup each process has in flight
  bust     \* what is left of the change each process has committed

\* The composition: the tables move by the actions of HostHolder only.
Tables == INSTANCE HostHolder

tables == <<kind, site, live>>

vars == <<kind, site, live, shared, memory, fill, bust>>

-----------------------------------------------------------------------------
\* The answer resolveCustomDomain or resolvePlatformSubdomain reads.
Holder == IF live THEN site ELSE None

\* `blamed` and `late` are history: the copy, or the value a lookup carries,
\* may be out of date for a reason other than a deletion still to come.
Copy == [site : Sites \union {None}, blamed : BOOLEAN]

Lookup == [pc : {"idle", "query", "store", "send"},
           site : Sites \union {None}, late : BOOLEAN]

Absent == [site |-> None, blamed |-> FALSE]

Idle == [pc |-> "idle", site |-> None, late |-> FALSE]

AllLate == [p \in Processes |-> [fill[p] EXCEPT !.late = TRUE]]

Blame == shared' = [shared EXCEPT !.blamed = TRUE] /\ fill' = AllLate

Init ==
  /\ Tables!Init
  /\ shared = Absent
  /\ memory = [p \in Processes |-> None]
  /\ fill = [p \in Processes |-> Idle]
  /\ bust = [p \in Processes |-> "idle"]

-----------------------------------------------------------------------------
(* resolveHost.  A hit changes nothing and is no action.                   *)

\* GET finds no value, or fails and the process has no copy of its own.
StartFill(p) ==
  /\ fill[p].pc = "idle"
  /\ shared.site = None \/ memory[p] = None
  /\ fill' = [fill EXCEPT ![p] = [Idle EXCEPT !.pc = "query"]]
  /\ UNCHANGED <<tables, shared, memory, bust>>

\* "not found" is never cached.
Query(p) ==
  /\ fill[p].pc = "query"
  /\ fill' = [fill EXCEPT ![p] =
                IF Holder = None THEN Idle
                ELSE [pc |-> "store", site |-> Holder, late |-> FALSE]]
  /\ UNCHANGED <<tables, shared, memory, bust>>

\* setJson: the process's memory at once, then SET.
Store(p) ==
  /\ fill[p].pc = "store"
  /\ memory' = [memory EXCEPT ![p] = fill[p].site]
  /\ fill' = [fill EXCEPT ![p].pc = "send"]
  /\ UNCHANGED <<tables, shared, bust>>

Send(p) ==
  /\ fill[p].pc = "send"
  /\ \/ shared' = [site |-> fill[p].site, blamed |-> fill[p].late]
     \/ UNCHANGED shared
  /\ fill' = [fill EXCEPT ![p] = Idle]
  /\ UNCHANGED <<tables, memory, bust>>

-----------------------------------------------------------------------------
(* Changes of the tables.  Each process that made one deletes the key.     *)

Committed(p) ==
  /\ bust[p] = "idle"
  /\ bust' = [bust EXCEPT ![p] = "memory"]
  /\ UNCHANGED <<shared, memory, fill>>

\* DomainsService.add
AddDomain(p, s) == kind = "custom" /\ Tables!Claim(s) /\ Committed(p)

\* restoreSite with the subdomain the site had
RestoreSite(p, s) == kind = "subdomain" /\ Tables!Claim(s) /\ Committed(p)

\* createSite may take a released subdomain and deletes no key.
CreateSite(s) ==
  /\ kind = "subdomain"
  /\ Tables!Claim(s)
  /\ UNCHANGED <<shared, memory, fill, bust>>

\* Mutant: the removal does not delete the key.
RemoveQuietly(p) ==
  /\ bust[p] = "idle"
  /\ Tables!Release
  /\ UNCHANGED <<shared, memory, fill, bust>>

\* DomainsService.remove, and deleteSite, which detaches what the site has
Remove(p) == Tables!Release /\ Committed(p)

\* setPrimary, setPreferredHostVariant: the host becomes canonical or only
\* redirects, which is not cached.
ChooseVariant(p) == Tables!Judge /\ Committed(p)

\* verifyDomain writes the status and deletes no key.
Verify ==
  /\ Tables!Judge
  /\ Blame
  /\ UNCHANGED <<memory, bust>>

-----------------------------------------------------------------------------
(* deleteKeys: this process's memory at once, then DEL, which may fail.    *)

BustMemory(p) ==
  /\ bust[p] = "memory"
  /\ memory' = [memory EXCEPT ![p] = None]
  /\ bust' = [bust EXCEPT ![p] = "shared"]
  /\ UNCHANGED <<tables, shared, fill>>

BustShared(p) ==
  /\ bust[p] = "shared"
  /\ \/ shared' = Absent /\ fill' = AllLate
     \/ Blame
  /\ bust' = [bust EXCEPT ![p] = "idle"]
  /\ UNCHANGED <<tables, memory>>

\* A process dies: its memory, its lookup and the deletion it owes are lost.
Die(p) ==
  /\ memory' = [memory EXCEPT ![p] = None]
  /\ IF bust[p] = "idle"
     THEN /\ fill' = [fill EXCEPT ![p] = Idle]
          /\ UNCHANGED shared
     ELSE /\ fill' = [AllLate EXCEPT ![p] = Idle]
          /\ shared' = [shared EXCEPT !.blamed = TRUE]
  /\ bust' = [bust EXCEPT ![p] = "idle"]
  /\ UNCHANGED tables

\* The sixty seconds are over.
ExpireShared ==
  /\ shared.site # None
  /\ shared' = Absent
  /\ UNCHANGED <<tables, memory, fill, bust>>

\* Mutant: getJson does not look at expiresAt.
KeepMemory(p) ==
  /\ memory[p] # None
  /\ memory' = memory
  /\ UNCHANGED <<tables, shared, fill, bust>>

ExpireMemory(p) ==
  /\ memory[p] # None
  /\ memory' = [memory EXCEPT ![p] = None]
  /\ UNCHANGED <<tables, shared, fill, bust>>

-----------------------------------------------------------------------------
Handle(p) ==
  Query(p) \/ Store(p) \/ Send(p) \/ BustMemory(p) \/ BustShared(p)

Next ==
  \/ \E p \in Processes :
       \/ StartFill(p) \/ Handle(p) \/ ExpireMemory(p) \/ Die(p)
       \/ Remove(p) \/ ChooseVariant(p)
       \/ \E s \in Sites : AddDomain(p, s) \/ RestoreSite(p, s)
  \/ \E s \in Sites : CreateSite(s)
  \/ Verify
  \/ ExpireShared

Spec == Init /\ [][Next]_vars

\* Statements and commands return, and time passes.  Nobody has to ask for
\* the host or to change it.
Fairness ==
  /\ WF_vars(ExpireShared)
  /\ \A p \in Processes : WF_vars(Handle(p)) /\ WF_vars(ExpireMemory(p))

FairSpec == Spec /\ Fairness

-----------------------------------------------------------------------------
TypeOK ==
  /\ kind \in {"custom", "subdomain"}
  /\ site \in Sites \union {None}
  /\ live \in BOOLEAN
  /\ site = None => ~live
  /\ shared \in Copy
  /\ memory \in [Processes -> Sites \union {None}]
  /\ fill \in [Processes -> Lookup]
  /\ bust \in [Processes -> {"idle", "memory", "shared"}]

\* Upstash holds a site that does not serve the host only while a deletion
\* of the key is on its way, or for one of four causes: a verification
\* changed the status (it deletes nothing), a DEL failed, a process died
\* before its DEL, or a lookup that had read before a DEL stored after it.
StaleCopyHasCause ==
  shared.site \notin {None, Holder} =>
    shared.blamed \/ \E p \in Processes : bust[p] # "idle"

\* Once the tables stop changing, every copy follows them, whatever was
\* stored late, left behind by a failed command or kept by another process.
CopiesConverge ==
  \A s \in Sites \union {None} :
    <>[](Holder = s) =>
      <>[](/\ shared.site \in {None, s}
           /\ \A p \in Processes : memory[p] \in {None, s})

=============================================================================
