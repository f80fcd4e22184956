--------------------------- MODULE OfflineWorkspace ---------------------------
(***************************************************************************)
(* The offline workspace: recordings are opened, previewed, activated and   *)
(* closed, frames are sought and played (OfflineDflPresenter,               *)
(* ui/offline_presenter.py, and the repository of sessions).                *)
(***************************************************************************)
EXTENDS FrameNavigation, TLC

CONSTANTS
  MaxCommands,  \* bound: sessions activated or removed, playback switched
  MaxMoves,     \* bound: frames sought or played
  MaxFailures   \* bound: reads that fail

VARIABLES
  w,         \* the workspace
  commands, moves, failures

vars == <<w, commands, moves, failures>>

(* session: active_session_id; context: the scheduler's active context;    *)
(* current: current_frame of each session; shown: the row drawn last.      *)
(* timer, settling, playback: the timers that run.                         *)
Init ==
  /\ commands = 0 /\ moves = 0 /\ failures = 0
  /\ w = [opened |-> {}, open |-> {}, indexed |-> {}, session |-> None, context |-> None,
          current |-> [s \in Sources |-> 0], shown |-> None,
          count |-> 0, requested |-> 0, displayed |-> 0, scroll |-> "idle", reason |-> "api", gen |-> 0,
          lastGen |-> -1, lastFrame |-> -1, sequential |-> FALSE, noSkip |-> FALSE, playing |-> FALSE, floor |-> 0,
          timer |-> FALSE, settling |-> FALSE, playback |-> FALSE, closed |-> FALSE,
          cache |-> << >>, active |-> None, pending |-> None, worker |-> None]

(* The read of a small row may fail.                                       *)
Handler(Step(_)) ==
  \E well \in BOOLEAN :
    /\ w' = Step(well)
    /\ failures' = IF well THEN failures ELSE failures + 1
    /\ well \/ (failures < MaxFailures /\ Step(FALSE) # Step(TRUE))

Command == ~w.closed /\ commands < MaxCommands /\ commands' = commands + 1 /\ UNCHANGED moves
Move == ~w.closed /\ moves < MaxMoves /\ moves' = moves + 1 /\ UNCHANGED commands
Event == UNCHANGED <<commands, moves>>

-----------------------------------------------------------------------------
(* set_active_session, over a session with a waterfall or without one.     *)
Activated(v, s, well) ==
  LET d == [v EXCEPT !.session = s, !.shown = None]
  IN IF s \in v.indexed
     THEN Schedule(Seek(SetFrameCount([d EXCEPT !.context = s], LastFrame + 1), v.current[s], "api"), well)
     ELSE SetFrameCount(d, 0)

(* _session_loaded                                                         *)
SessionLoaded(s) ==
  /\ s \notin w.opened /\ ~w.closed
  /\ Event /\ UNCHANGED failures
  /\ w' = Activated([w EXCEPT !.opened = @ \cup {s}, !.open = @ \cup {s}], s, TRUE)

(* _preview_loaded: for the active session, its frame is sought twice.     *)
PreviewLoaded(s) ==
  LET d == [w EXCEPT !.indexed = @ \cup {s}]
      sought == Seek(SetFrameCount([d EXCEPT !.context = s], LastFrame + 1), w.current[s], "api")
  IN /\ s \in w.open \ w.indexed /\ ~w.closed
     /\ Event
     /\ Handler(LAMBDA well : IF s # w.session THEN d
                              ELSE Schedule(Seek(sought, sought.requested, "frame_input"), well))

ActivateSession(s) ==
  /\ Command /\ s \in w.open
  /\ Handler(LAMBDA well : Activated(w, s, well))

(* What remains after a session is gone: another one, or an empty window.  *)
Remaining(v, well) ==
  IF v.open = {} THEN [v EXCEPT !.session = None, !.shown = None]
  ELSE Activated(v, CHOOSE s \in v.open : TRUE, well)

Without(v, s) == [v EXCEPT !.open = @ \ {s}, !.indexed = @ \ {s}]

(* close_active_session: the loader is not told.                           *)
CloseSession ==
  /\ Command /\ w.session # None
  /\ Handler(LAMBDA well : Remaining(Without(w, w.session), well))

(* remove_session: its reads are cancelled.                                *)
RemoveSession(s) ==
  LET told == IF w.active # None /\ w.active.session = s THEN CancelAll(w)
              ELSE IF w.pending # None /\ w.pending.session = s THEN [w EXCEPT !.pending = None] ELSE w
  IN /\ Command /\ s \in w.open
     /\ Handler(LAMBDA well : IF s = w.session THEN Remaining(Without(told, s), well) ELSE Without(told, s))

-----------------------------------------------------------------------------
(* show_frame                                                              *)
ShowFrame(frame) ==
  /\ Move /\ w.session \in w.indexed
  /\ Handler(LAMBDA well : Schedule(Seek(w, frame, "frame_input"), well))

(* handle_waterfall_wheel, one step: the scheduler is started even when    *)
(* there are no frames.                                                    *)
Wheel(step) ==
  LET clipped == IF w.requested + step \in Frames THEN w.requested + step ELSE w.requested
  IN /\ Move
     /\ Handler(LAMBDA well : Schedule(Seek(w, clipped, "wheel"), well))

(* play                                                                    *)
Play ==
  /\ Command /\ w.count > 0
  /\ UNCHANGED failures
  /\ w' = PlaybackActive([w EXCEPT !.sequential = w.noSkip, !.playback = TRUE])

Paused(v) == CancelAndInvalidate([v EXCEPT !.playback = FALSE])

(* pause, toggle_play                                                      *)
Pause ==
  /\ w.playback /\ ~w.closed /\ Event
  /\ UNCHANGED failures
  /\ w' = Paused(w)

(* stop: back to the first frame.                                          *)
Stop ==
  /\ w.playback /\ ~w.closed /\ Event
  /\ Handler(LAMBDA well : IF w.session \in w.indexed
                           THEN Schedule(Seek(Paused(w), 0, "frame_input"), well) ELSE Paused(w))

(* set_playback_no_skip                                                    *)
SetNoSkip ==
  /\ Command /\ ~w.noSkip
  /\ UNCHANGED failures
  /\ w' = [w EXCEPT !.noSkip = TRUE, !.sequential = TRUE]

(* _advance_frame: every frame, or where the recorded time has got to; at  *)
(* the end playback loops or pauses.                                       *)
AdvanceFrame(target, loop) ==
  LET atEnd == w.requested = w.count - 1
  IN /\ Move /\ w.playback /\ w.count > 0
     /\ IF loop /\ atEnd THEN target = 0 ELSE w.noSkip => target = w.requested + 1
     /\ Handler(LAMBDA well :
          IF loop /\ atEnd THEN Schedule(Seek(ResetProgress(w), 0, "playback"), well)
          ELSE IF target < w.count THEN Schedule(Seek(w, target, "playback"), well)
          ELSE IF loop THEN Schedule(Seek(w, 0, "playback"), well)
          ELSE Paused(w))

(* close                                                                   *)
Close ==
  /\ Command
  /\ UNCHANGED failures
  /\ w' = [CloseLoader(w) EXCEPT !.playback = FALSE]

-----------------------------------------------------------------------------
TimerTicks ==
  /\ w.timer /\ ~w.closed /\ Event
  /\ Handler(LAMBDA well : Tick(w, well))

SettleFires ==
  /\ w.settling /\ ~w.closed /\ Event
  /\ Handler(LAMBDA well : Settle(w, well))

(* run of the TaskWorker: a row, an error, or nothing when cancelled.      *)
WorkerReads ==
  /\ w.worker # None /\ w.worker.stage = "running" /\ Event
  /\ \/ ~w.worker.cancelled /\ w' = [w EXCEPT !.worker.stage = "result"] /\ UNCHANGED failures
     \/ /\ ~w.worker.cancelled /\ failures < MaxFailures
        /\ w' = [w EXCEPT !.worker.stage = "finished"] /\ failures' = failures + 1
     \/ w.worker.cancelled /\ w' = [w EXCEPT !.worker.stage = "finished"] /\ UNCHANGED failures

(* The row, and then the end of the worker, reach the GUI thread.          *)
ResultArrives ==
  /\ w.worker # None /\ w.worker.stage = "result" /\ Event /\ UNCHANGED failures
  /\ w' = OnResult([w EXCEPT !.worker.stage = "finished"], w.worker.read)

FinishArrives ==
  /\ w.worker # None /\ w.worker.stage = "finished" /\ Event
  /\ Handler(LAMBDA well : FinishActive(w, well))

Next ==
  \/ \E s \in Sources : SessionLoaded(s) \/ PreviewLoaded(s) \/ ActivateSession(s) \/ RemoveSession(s)
  \/ CloseSession \/ Play \/ Pause \/ Stop \/ SetNoSkip \/ Close
  \/ \E f \in Frames : ShowFrame(f)
  \/ \E step \in {-1, 1} : Wheel(step)
  \/ \E f \in 0 .. LastFrame + 1, loop \in BOOLEAN : AdvanceFrame(f, loop)
  \/ TimerTicks \/ SettleFires \/ WorkerReads \/ ResultArrives \/ FinishArrives

(* Timers fire, pool threads run, the event loop delivers.                 *)
Fairness ==
  /\ WF_vars(TimerTicks) /\ WF_vars(SettleFires)
  /\ WF_vars(WorkerReads) /\ WF_vars(ResultArrives) /\ WF_vars(FinishArrives)

Spec == Init /\ [][Next]_vars /\ Fairness

-----------------------------------------------------------------------------
(* During playback what is shown goes back only to the target itself, or   *)
(* to a frame of the next loop, though reads lag and are overtaken by      *)
(* frames that come from the cache.                                        *)
PlaybackGoesForward ==
  [][w.playing /\ w'.playing /\ ~w.sequential /\ w'.session = w.session /\ w.shown # None /\ w'.shown # None
       => \/ w'.shown.frame >= w.shown.frame \/ w'.shown.frame = w'.requested
          \/ w.lastFrame = -1]_vars

(* When the user pauses and the scheduler runs, the frame that is wanted   *)
(* is taken by the scheduler, unless the loader is wedged on a request of  *)
(* a session that is gone.                                                 *)
TargetIsReached ==
  <>[](w.timer /\ w.session \in w.indexed /\ ~w.sequential /\ ~w.closed
         => Wedged(w) \/ (w.lastFrame = w.requested /\ w.displayed = w.requested))

(* Both of them: the display goes on, and it arrives.                      *)
PlaybackArrives == PlaybackGoesForward /\ TargetIsReached
=============================================================================
