------------------------------ MODULE MCRecords ------------------------------
(***************************************************************************)
(* What the programs keep on the disk, for TLC, in six parts of which one  *)
(* moves: one recording and its workspace; two takes, with fewer commands; *)
(* the activity log; calibration profiles in the program for monitoring,   *)
(* in the workspace of the analysis program, and applied to spectra.       *)
(***************************************************************************)
EXTENDS RecordingPresenter, ActivityLog

CONSTANTS take, take2, rx1, rx2, Nothing, Unreadable
TwoTargets == {take, take2}

VARIABLES
  part, \* "recording", "takes", "log", "service", "workspace" or "profiles"
  disk, lock, current, active, waived, pending, doing, posted, listed, shut, tasks, exits,
  now,                                                         \* of CalibrationService
  profileFiles, settings, profiles, selected, chosen, preview, view,
  changes,                                                     \* of CalibrationPresenter
  cache, asked, applied                                        \* of CalibrationProfiles

serviceVars ==
  <<disk, lock, current, active, waived, pending, doing, posted, listed, shut, tasks, exits, now>>
workspaceVars == <<profileFiles, settings, profiles, selected, chosen, preview, view, changes>>
profileVars == <<cache, asked, applied>>

Point(f, c, u) == [f |-> f, c |-> c, u |-> u]
Measured(version, points, start, stop) ==
  [id |-> "lab", version |-> version, signature |-> rx1, points |-> points, start |-> start, stop |-> stop]

(* Two contents under one name; a range that is narrower than the points   *)
(* at one end and wider at the other.                                      *)
Profiles ==
  {Measured(1, <<Point(10, 0, 2), Point(20, 10, 2)>>, 0, 0),
   Measured(1, <<Point(10, 4, 0), Point(20, -6, 10), Point(40, 14, 0)>>, 0, 0),
   Measured(2, <<Point(20, 5, 1), Point(30, 5, 1)>>, 15, 40)}

Service ==
  INSTANCE CalibrationService WITH Threads <- {"t1", "t2"}, Versions <- {"v1"}, Points <- {"a", "b"},
    Signatures <- {rx1}, Unset <- rx2, MaxTasks <- 3, MaxEnds <- 1, MaxTime <- 1, ends <- exits
Workspace ==
  INSTANCE CalibrationPresenter WITH Keys <- {"k1", "k2"}, Contents <- {"a", "b"},
    Signatures <- {rx1, rx2}, MaxChanges <- 2, files <- profileFiles
Spectra ==
  INSTANCE CalibrationProfiles WITH Settings <- {rx1, rx2}, NoSettings <- Nothing,
    Grids <- {<<10, 20>>, <<15, 20>>, <<5, 45>>, <<15, 40>>}, Capacity <- 2

-----------------------------------------------------------------------------
PartsInit ==
  /\ Init /\ LogInit /\ Service!ServiceInit /\ Workspace!WorkspaceInit /\ Spectra!ProfilesInit
  /\ part \in {"recording", "takes", "log", "service", "workspace", "profiles"}

(* One take: six commands and troubles in all.  Two takes: four commands,  *)
(* no replay, one block each, and no trouble but one on the disk; the      *)
(* first that is configured is called take.                                *)
Used(s) == s.commands + s.crashes + s.timeouts + s.faults
OneTake ==
  /\ part = "recording"
  /\ Runs \/ (Used(spent) < 6 /\ Crash)
  /\ take2 \notin {ui'.setup, gui'.target} /\ Used(spent') <= 6
TwoTakes ==
  /\ part = "takes" /\ Runs
  /\ spent'.commands <= 4 /\ spent'.timeouts = 0 /\ replay'.state = "empty"
  /\ ui'.setup = take2 => recorder'[take].at # "none"
  /\ \A t \in Targets : recorder'[t].offered <= 1

PartsNext ==
  \/ (OneTake \/ TwoTakes) /\ UNCHANGED <<part, logVars, serviceVars, workspaceVars, profileVars>>
  \/ part = "log" /\ LogNext /\ UNCHANGED <<part, vars, serviceVars, workspaceVars, profileVars>>
  \/ part = "service" /\ Service!ServiceNext /\ UNCHANGED <<part, vars, logVars, workspaceVars, profileVars>>
  \/ part = "workspace" /\ Workspace!WorkspaceNext /\ UNCHANGED <<part, vars, logVars, serviceVars, profileVars>>
  \/ part = "profiles" /\ Spectra!ProfilesNext /\ UNCHANGED <<part, vars, logVars, serviceVars, workspaceVars>>

(* A part that does not move is in its first state, where nothing is owed. *)
PartsSpec ==
  /\ PartsInit /\ [][PartsNext]_<<part, vars, logVars, serviceVars, workspaceVars, profileVars>>
  /\ Fairness

-----------------------------------------------------------------------------
(* The properties of the instances, stated where they are defined.         *)

(* CalibrationProfiles: dBm and corrections are those of the profile asked *)
(* for, whatever is cached; CalibrationService: a finalized version is     *)
(* never replaced, and what is active applies; CalibrationPresenter: what  *)
(* is saved is what was shown.                                             *)
CalibrationIsSound ==
  [](Spectra!CalibrationIsExact) /\ Service!VersionsAreKept /\ Workspace!SavedAsShown
=============================================================================
