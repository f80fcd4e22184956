------------------------------ MODULE MCDesktop ------------------------------
(***************************************************************************)
(* Two parts of the desktop programs for TLC, of which each behaviour has  *)
(* one: the offline workspace and the live page.  They share no state, and *)
(* the one that does not move is left as it began.                         *)
(***************************************************************************)
EXTENDS OfflineWorkspace, MonitorLive

VARIABLES part \* "offline" or "live"

TwoRates == <<2, 10>>
OneRate == <<4>>

-----------------------------------------------------------------------------
PartsInit ==
  /\ Init /\ LiveInit /\ part \in {"offline", "live"}
  /\ part = "offline" => ~service.native

PartsNext ==
  \/ part = "live" /\ LiveNext /\ UNCHANGED <<part, vars>>
  \/ part = "offline" /\ Next /\ UNCHANGED <<part, liveVars>>

(* In a part that does not move nothing is owed.                           *)
PartsSpec == PartsInit /\ [][PartsNext]_<<part, vars, liveVars>> /\ Fairness
=============================================================================
