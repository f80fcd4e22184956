------------------------------ MODULE MCServices ------------------------------
(***************************************************************************)
(* Three services for TLC, one of which moves: the recording service of    *)
(* esw_dfl, the recording of sdr_monitor and the wideband sweep.  They     *)
(* share no state, so a behaviour of one is a behaviour of each alone.     *)
(***************************************************************************)
EXTENDS RecordingService, MonitorRecording, WidebandSweep

VARIABLE part \* "service", "monitor" or "sweep"

(* Each policy, with and without stop_on_overflow, on queues of one and    *)
(* of two items.                                                           *)
SmallQueues ==
  [capacity : {1, 2}, policy : RecordingPolicies, stopOnOverflow : BOOLEAN]

(* The default policy on a queue of one item.                              *)
DefaultPolicy == {[capacity |-> 1, policy |-> "DropNewest", stopOnOverflow |-> FALSE]}

(* One segment, two and three; with and without an overlap that leaves the *)
(* last one short, with a DC window of its own; and one that has no plan.  *)
SweepOf(low, high, rate, bandwidth, overlap, margin, dc) ==
  [start |-> low, stop |-> high, rate |-> rate, bandwidth |-> bandwidth,
   overlap |-> overlap, margin |-> margin, dc |-> dc]
Sweeps ==
  {SweepOf(0, 12, 14, 16, 2, 1, 4), SweepOf(0, 14, 12, 14, 2, 0, 2),
   SweepOf(0, 40, 18, 20, 2, 0, 2), SweepOf(0, 4, 12, 12, 2, 0, 6)}

-----------------------------------------------------------------------------
PartsInit ==
  /\ Init /\ MonitorInit /\ SweepInit /\ part \in {"service", "monitor", "sweep"}
  /\ part # "service" => /\ options.capacity = 1 /\ options.policy = "Block"
                         /\ ~options.stopOnOverflow

PartsNext ==
  \/ part = "service" /\ Next /\ UNCHANGED <<part, recordingVars, sweepVars>>
  \/ part = "monitor" /\ MonitorNext /\ UNCHANGED <<part, vars, sweepVars>>
  \/ part = "sweep" /\ SweepNext /\ UNCHANGED <<part, vars, recordingVars>>

(* A part that does not move is in its first state, where nothing is owed. *)
PartsSpec ==
  /\ PartsInit /\ [][PartsNext]_<<part, vars, recordingVars, sweepVars>>
  /\ Fairness /\ MonitorFairness /\ SweepFairness

-----------------------------------------------------------------------------
(* RecordingService, WidebandSweep: every call on the recording returns but*)
(* for one case, and every sweep ends and lets its service go.             *)
CallsAndRunsEnd == CallsReturn /\ RunsEnd
=============================================================================
