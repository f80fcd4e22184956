------------------------------- MODULE MCHeatmap -------------------------------
(***************************************************************************)
(* The analyses of recordings for TLC, in four parts of which one moves:   *)
(* the heatmap, over two sessions, one without timestamps, with three      *)
(* frames and a window of two; the requests for channel power over time;   *)
(* their figures; and the requests and edits of the main window.           *)
(***************************************************************************)
EXTENDS HeatmapPresenter

CONSTANTS s1, s2

VARIABLES
  part, \* "heatmap", "requests", "figures" or "edits"
  opened, sessions, hidden, active, generation, pending, worker, owner, results, tasks,
  posts, timers, asked, ended, switches, closed,       \* of TimeGatedRequests
  recording, config, request, override, answer,         \* of TimeGatedPower
  window, saved, done                                   \* of AnalysisWindow

(* Four frames, one frame a second or with pauses between; thresholds that *)
(* a level can meet exactly; rules on frames, on times and on both.        *)
RecordedAt == {<<10, 20, 30, 40>>, <<10, 20, 50, 80>>}
Plain ==
  [enabled |-> TRUE, mode |-> "ABSOLUTE", absolute |-> 60, onOffset |-> 40, offOffset |-> 10,
   percentile |-> 20, noise |-> <<>>, smoothing |-> "NONE", window |-> 3, hysteresis |-> TRUE,
   minActive |-> 1, minInactive |-> 1, maxGap |-> 0, mergeGap |-> 0,
   minActiveTime |-> 0, maxGapTime |-> 0, minInactiveTime |-> 0]
Long == [Plain EXCEPT !.minActive = 2, !.minInactive = 2]
Timed == [Plain EXCEPT !.minActiveTime = 20, !.maxGapTime = 10, !.minInactiveTime = 20]
Detections ==
  {Plain, Long, Timed,
   [Plain EXCEPT !.enabled = FALSE], [Plain EXCEPT !.mode = "PERCENTILE"],
   [Plain EXCEPT !.mode = "AUTO", !.noise = <<10, 20>>],
   [Plain EXCEPT !.mode = "AUTO", !.onOffset = 10, !.offOffset = 20],
   [Long EXCEPT !.smoothing = "MEDIAN"], [Long EXCEPT !.maxGap = 1],
   [Long EXCEPT !.hysteresis = FALSE, !.mergeGap = 1],
   [Timed EXCEPT !.maxGapTime = 0, !.minInactive = 2]}
Asked ==
  {[range |-> <<>>, frame |-> 0, inclusion |-> i] : i \in {"all", "active_only", "manual_mask"}}
    \cup {[range |-> <<20, 30>>, frame |-> 0, inclusion |-> "inactive_only"],
          [range |-> <<>>, frame |-> 1, inclusion |-> "all"],
          [range |-> <<>>, frame |-> 3, inclusion |-> "all"]}
Edits == {<<"auto", "auto", "auto", "auto">>, <<"active", "auto", "inactive", "auto">>}

Power == INSTANCE TimeGatedRequests WITH MaxRequests <- 2, MaxSwitches <- 2
Figures ==
  INSTANCE TimeGatedPower WITH Levels <- {0, 40, 60}, Times <- RecordedAt,
    Configs <- Detections, Requests <- Asked, Manual <- Edits

(* Two waterfalls in one recording and one in the other.                   *)
Overrides ==
  {[value |-> "active", first |-> 1, last |-> 2], [value |-> "inactive", first |-> 2, last |-> 2]}
Analysis ==
  INSTANCE AnalysisWindow WITH Waterfalls <- (s1 :> {"w1", "w2"}) @@ (s2 :> {"w1"}),
    First <- (s1 :> "w1") @@ (s2 :> "w1"), Frames <- 3, Edits <- Overrides,
    Entered <- {0, 2}, Visible <- <<0, 2>>, MaxCommands <- 5, MaxFailures <- 1,
    workspace <- saved, moves <- done

powerVars ==
  <<opened, sessions, hidden, active, generation, pending, worker, owner, results, tasks,
    posts, timers, asked, ended, switches, closed>>
figureVars == <<recording, config, request, override, answer>>
editVars == <<window, saved, done>>

-----------------------------------------------------------------------------
PartsInit ==
  /\ Init /\ Power!RequestsInit /\ Figures!GatedInit /\ Analysis!AnalysisInit
  /\ part \in {"heatmap", "requests", "figures", "edits"}
  /\ part # "heatmap" => on = FALSE
  /\ part # "figures" => /\ config = Plain /\ recording.time = <<10, 20, 30, 40>>
                         /\ recording.level = <<0, 0, 0, 0>>

PartsNext ==
  \/ part = "heatmap" /\ Next /\ UNCHANGED <<part, powerVars, figureVars, editVars>>
  \/ part = "requests" /\ Power!RequestsNext /\ UNCHANGED <<part, vars, figureVars, editVars>>
  \/ part = "figures" /\ Figures!Measure /\ UNCHANGED <<part, vars, powerVars, editVars>>
  \/ part = "edits" /\ Analysis!AnalysisNext /\ UNCHANGED <<part, vars, powerVars, figureVars>>

(* A part that does not move is in its first state, where nothing is owed. *)
PartsSpec ==
  /\ PartsInit /\ [][PartsNext]_<<part, vars, powerVars, figureVars, editVars>>
  /\ Fairness /\ Power!RequestsFairness

-----------------------------------------------------------------------------
(* The properties of the instances, stated where they are defined.         *)

(* TimeGatedRequests: one worker, newer answers, and every request served. *)
RequestsAreServed == Power!RequestsAreServed

(* TimeGatedPower and AnalysisWindow: bursts are those of a detector that  *)
(* sees frame by frame and their figures add up; no edit of the user is    *)
(* lost unnoticed, and what is called calculated is of what is in front of *)
(* the user.                                                               *)
FiguresAreTrue ==
  /\ part = "figures" => Figures!FiguresAreExact
  /\ Analysis!EditsAreKept /\ Analysis!FiguresAreOfNow
=============================================================================
