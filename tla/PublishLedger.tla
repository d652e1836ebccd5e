--------------------------- MODULE PublishLedger ---------------------------
(***************************************************************************)
(* What the publish pipeline promises, without requests, pages or SQL: a   *)
(* list of publish events and a linear history of revisions.  An event is  *)
(* opened, may record at most one revision, and ends exactly once.  A      *)
(* publish that fails has recorded nothing; a rollback names an older      *)
(* revision, and may fail after it has recorded its own.                   *)
(***************************************************************************)
EXTENDS Naturals, Sequences

VARIABLES
  events,   \* [state, from, revision]: from is the revision rolled back to, or 0
  history   \* [event, from]: history[n] is revision n

vars == <<events, history>>

Recorded(e) == {n \in DOMAIN history : history[n].event = e}

IsOpen(e) == e \in DOMAIN events /\ events[e].state = "open"

Init == events = <<>> /\ history = <<>>

Open(from) ==
  /\ events' = Append(events, [state |-> "open", from |-> from, revision |-> 0])
  /\ UNCHANGED history

Record(e) ==
  /\ IsOpen(e)
  /\ Recorded(e) = {}
  /\ history' = Append(history, [event |-> e, from |-> events[e].from])
  /\ UNCHANGED events

Succeed(e) ==
  /\ IsOpen(e)
  /\ \E n \in Recorded(e) :
       events' = [events EXCEPT ![e].state = "live", ![e].revision = n]
  /\ UNCHANGED history

Fail(e) ==
  /\ IsOpen(e)
  /\ events[e].from = 0 => Recorded(e) = {}
  /\ events' = [events EXCEPT ![e].state = "failed"]
  /\ UNCHANGED history

Next ==
  \/ \E from \in 0..Len(history) : Open(from)
  \/ \E e \in DOMAIN events : Record(e) \/ Succeed(e) \/ Fail(e)

Spec == Init /\ [][Next]_vars
=============================================================================
