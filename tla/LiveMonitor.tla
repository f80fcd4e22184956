------------------------------ MODULE LiveMonitor ------------------------------
(***************************************************************************)
(* The live workspace of the AppShell: LiveMonitorPresenter, which owns    *)
(* one controller at a time, and the buttons and the timer that call it    *)
(* (esw_dfl/ui/live_presenter.py, live_workspace.py).                      *)
(***************************************************************************)
EXTENDS LiveControllers

VARIABLES
  own,       \* _controller: its number, or 0
  requested, \* _requested: the controller it was given to, 0 for None
  expected,  \* _expected_generation, 0 for None
  shown      \* _snapshot

presenter == <<own, requested, expected, shown>>

(* of: the controller whose update the snapshot was built from, cal: the   *)
(* one whose frame carried the calibration badge shown, asOf: history, the *)
(* generation the session had when the snapshot was built.                 *)
NoRows == [requested |-> 0, applied |-> 0]

IdleSnapshot ==
  [of |-> 0, generation |-> 0, asOf |-> 0, state |-> "created", rows |-> NoRows,
   error |-> FALSE, stale |-> FALSE, cal |-> 0]

InitMonitor ==
  /\ own = 0 /\ requested = 0 /\ expected = 0
  /\ shown = IdleSnapshot

-----------------------------------------------------------------------------
(* _build_requested_applied: the requested values beside the applied ones; *)
(* values that differ, or are not known yet, are pending.                  *)
RequestedApplied(asked, applied) == [requested |-> asked, applied |-> applied]

(* connect, validation passed: a controller, not started yet.  The ones    *)
(* before it are in known.                                                 *)
Connected(known) ==
  /\ Len(known) < MaxControllers
  /\ ctl' = Append(known, Created)
  /\ own' = Len(known) + 1
  /\ requested' = Len(known) + 1 /\ expected' = 0
  /\ shown' = [IdleSnapshot EXCEPT !.rows = RequestedApplied(Len(known) + 1, 0)]

(* The configuration is refused, or the capabilities cannot be read: only  *)
(* a message is shown.                                                     *)
Connect ==
  /\ gui = IdleGui /\ own = 0
  /\ Connected(ctl)
  /\ UNCHANGED <<gui, late>>

(* The start button, and what it does while the session runs.  A start     *)
(* that is refused shows its error in the workspace, not in the snapshot.  *)
Start ==
  /\ gui = IdleGui /\ own # 0
  /\ ctl[own].state \notin {"starting", "running"}
  /\ Startable(own) /\ MayStartAgain
  /\ ctl' = [ctl EXCEPT ![own] = Started(@)]
  /\ expected' = ctl[own].generation + 1
  /\ UNCHANGED <<gui, late, own, requested, shown>>

Stop ==
  /\ own # 0 /\ ctl[own].state \in {"starting", "running"}
  /\ CallStop(own, "return")
  /\ UNCHANGED presenter

(* disconnect, close                                                       *)
BeginDisconnect ==
  /\ own # 0 /\ CallStop(own, "disconnect")
  /\ UNCHANGED presenter

EndDisconnect ==
  /\ gui.at = "closing" /\ gui.after = "disconnect"
  /\ ctl' = [ctl EXCEPT ![own] = Closed(@)]
  /\ gui' = IdleGui
  /\ own' = 0 /\ requested' = 0 /\ expected' = 0 /\ shown' = IdleSnapshot
  /\ UNCHANGED <<late>>

(* apply_requested: the first validation comes before close(), the one in  *)
(* connect after it.  was_running is read before close().                  *)
WasRunning(c) == ctl[c].state \in {"starting", "running"}

BeginApply ==
  /\ own # 0
  /\ CallStop(own, IF WasRunning(own) THEN "restart" ELSE "reconnect")
  /\ UNCHANGED presenter

Applying == gui.at = "closing" /\ gui.after \in {"restart", "reconnect"}

EndApply ==
  LET known == [ctl EXCEPT ![own] = Closed(@)]
      new == Len(ctl) + 1
  IN  /\ Applying
      /\ Connected(known)
      /\ gui' = IF gui.after = "restart"
                THEN [IdleGui EXCEPT !.at = "starting", !.ctl = new] ELSE IdleGui
      /\ UNCHANGED <<late>>

(* The rest of a restart: nobody else can have touched the new controller. *)
Restart ==
  /\ gui.at = "starting"
  /\ ctl' = [ctl EXCEPT ![own] = Started(@)]
  /\ expected' = ctl[own].generation + 1
  /\ gui' = IdleGui
  /\ UNCHANGED <<late, own, requested, shown>>

(* The second validation fails: the errors are shown, the session is gone  *)
(* and its last snapshot stays.                                            *)
EndApplyRefused ==
  /\ Applying
  /\ ctl' = [ctl EXCEPT ![own] = Closed(@)]
  /\ gui' = IdleGui /\ own' = 0
  /\ UNCHANGED <<late, requested, expected, shown>>

(* An update without a frame keeps the calibration shown.                  *)
Calibration(update) == IF update.frame > 0 THEN update.by ELSE shown.cal

(* _build_snapshot                                                         *)
BuiltFrom(update) ==
  [of |-> update.by, generation |-> update.generation, asOf |-> ctl[own].generation,
   state |-> update.state,
   rows |-> RequestedApplied(requested, update.applied), error |-> update.error,
   stale |-> FALSE, cal |-> Calibration(update)]

(* Mutant: poll takes an update of any generation for one of its session.  *)
PollUnguarded ==
  /\ gui = IdleGui /\ own # 0 /\ ctl[own].updates # <<>>
  /\ shown' = BuiltFrom(Last(ctl[own].updates))
  /\ ctl' = [ctl EXCEPT ![own].updates = <<>>]
  /\ UNCHANGED <<gui, late, own, requested, expected>>

(* poll, from the workspace's timer                                        *)
PollPresenter ==
  /\ gui = IdleGui /\ own # 0 /\ ctl[own].updates # <<>>
  /\ LET latest == Last(ctl[own].updates)
     IN  shown' = IF latest.generation # expected
                  THEN [shown EXCEPT !.generation = latest.generation, !.state = latest.state,
                                     !.error = latest.error \/ @, !.stale = TRUE]
                  ELSE BuiltFrom(latest)
  /\ ctl' = [ctl EXCEPT ![own].updates = <<>>]
  /\ UNCHANGED <<gui, late, own, requested, expected>>

-----------------------------------------------------------------------------
(* The workspace's buttons and timer; the rest of a call that closes the   *)
(* session follows when close() returns.                                   *)
ConnectClicked == Connect \/ BeginDisconnect
ApplyClicked == BeginApply
StartStopClicked == Start \/ Stop
TimerFires == PollPresenter
CallReturns == EndDisconnect \/ EndApply \/ Restart \/ EndApplyRefused

Monitor ==
  ConnectClicked \/ ApplyClicked \/ StartStopClicked \/ TimerFires \/ CallReturns
=============================================================================
