--------------------------- MODULE MCBoundedQueue ---------------------------
(***************************************************************************)
(* What the threads of the native core meet in, for TLC, one of which      *)
(* moves: a queue, and the diagnostic events.  They share no state.        *)
(***************************************************************************)
EXTENDS BoundedQueue, DiagnosticEvents

VARIABLE part \* "queue" or "events"

PartsInit ==
  /\ Init /\ EventsInit /\ part \in {"queue", "events"}
  /\ part = "events" => queue.capacity = 1 /\ queue.policy = "Block"

PartsNext ==
  \/ part = "queue" /\ Next /\ UNCHANGED <<part, eventsVars>>
  \/ part = "events" /\ EventsNext /\ UNCHANGED <<part, vars>>

(* Of a part that does not move only StartPoll could be owed.              *)
PartsSpec ==
  /\ PartsInit /\ [][PartsNext]_<<part, vars, eventsVars>> /\ Fairness
  /\ \A t \in Emitters : WF_eventsVars(Emitting(t))
  /\ WF_eventsVars(Polling)
  /\ WF_eventsVars(part = "events" /\ StartPoll)
=============================================================================
