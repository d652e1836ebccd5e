----------------------------- MODULE HostHolder -----------------------------
(***************************************************************************)
(* What the domain and site tables say of one public host name: at most    *)
(* one site claims it (Domain.host and Site.publicSubdomain are unique),   *)
(* and the claim is served or not.  A custom domain is served once a       *)
(* verification found it live; a platform subdomain from its first moment. *)
(***************************************************************************)
CONSTANTS Sites, None

VARIABLES
  kind,  \* which of the two kinds of host this is
  site,  \* the site that claims the host, or None
  live   \* whether the claim is served

Init ==
  /\ kind \in {"custom", "subdomain"}
  /\ site = None
  /\ live = FALSE

\* A host is claimed by nobody before: there is no take-over.
Claim(s) ==
  /\ site = None
  /\ site' = s
  /\ live' = (kind = "subdomain")
  /\ UNCHANGED kind

\* A verification, or the choice of another canonical host, changes whether
\* the claim is served and never whose it is.
Judge ==
  /\ kind = "custom"
  /\ site # None
  /\ live' = ~live
  /\ UNCHANGED <<kind, site>>

\* Mutant: the claim goes and its status stays.
DropClaim ==
  /\ site # None
  /\ site' = None
  /\ UNCHANGED <<kind, live>>

Release ==
  /\ site # None
  /\ site' = None
  /\ live' = FALSE
  /\ UNCHANGED kind

Next == (\E s \in Sites : Claim(s)) \/ Judge \/ Release

Spec == Init /\ [][Next]_<<kind, site, live>>

=============================================================================
