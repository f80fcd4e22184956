-------------------------- MODULE MCSyntheticEngine --------------------------
(***************************************************************************)
(* Two programs that run without a radio, for TLC, of which each behaviour *)
(* has one: the reference pipeline of the native core and the sweep page of*)
(* sdr_monitor.  They share no state, and the one that does not move is    *)
(* left as it began.                                                       *)
(***************************************************************************)
EXTENDS SyntheticEngine, MonitorSweep
CONSTANTS owner
OneCaller == {owner}

VARIABLES part \* "pipeline" or "sweep"

Engine(max, blocks, policy, recorder, recorderPolicy, stopOnOverflow) ==
  [max |-> max, pool |-> blocks, acquisition |-> 1, acquisitionPolicy |-> policy,
   dsp |-> 1, dspPolicy |-> policy, recorder |-> 1, recorderEnabled |-> recorder,
   recorderPolicy |-> recorderPolicy, stopOnOverflow |-> stopOnOverflow,
   paced |-> max = 0]

(* Finite and paced unlimited runs, blocking and lossy queues, pools of    *)
(* one and of several blocks, with and without a recorder.                 *)
TransportConfigs ==
  {Engine(3, 1, "Block", FALSE, "Block", FALSE),
   Engine(2, 2, "Block", TRUE, "Block", FALSE),
   Engine(2, 3, "DropOldest", TRUE, "DropNewest", FALSE),
   Engine(0, 2, "LatestWins", FALSE, "Block", FALSE),
   Engine(2, 2, "Block", TRUE, "Block", TRUE)}

(* A sweep of one segment that is not full, and one of two.                *)
SweepOf(upto, width, overlap, margin) ==
  [start |-> 0, stop |-> upto, width |-> width, overlap |-> overlap, margin |-> margin]
TwoSweeps == {SweepOf(40, 50, 10, 1), SweepOf(600, 500, 40, 1)}

-----------------------------------------------------------------------------
PartsInit ==
  /\ Init /\ SweepInit /\ part \in {"pipeline", "sweep"}
  /\ part = "pipeline" => page.config = SweepOf(40, 50, 10, 1)
  /\ part = "sweep" => config = Engine(3, 1, "Block", FALSE, "Block", FALSE)

PartsNext ==
  \/ part = "pipeline" /\ Next /\ UNCHANGED <<part, monitorSweepVars>>
  \/ part = "sweep" /\ SweepNext /\ UNCHANGED <<part, vars>>

(* An engine that does not move was never called: it owes nothing.         *)
PartsSpec == PartsInit /\ [][PartsNext]_<<part, vars, monitorSweepVars>> /\ Fairness
=============================================================================
