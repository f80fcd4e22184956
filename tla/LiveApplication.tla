---------------------------- MODULE LiveApplication ----------------------------
(***************************************************************************)
(* The desktop program with live sessions (esw_dfl/gui.py, main): either   *)
(* the AppShell with its live workspace or the legacy MainWindow, on one   *)
(* GUI thread, above the controllers and their workers.                    *)
(*                                                                         *)
(* The MainWindow has a controller and a LiveSessionAdapter                *)
(* (esw_dfl/sdr/session_adapter.py) for each source, and a timer that takes*)
(* the latest update of each controller.  Closing a session or the window  *)
(* does not wait for the worker.                                           *)
(***************************************************************************)
EXTENDS LiveMonitor

CONSTANTS Sources, \* values of the panel's source_id field
          MaxRows  \* max_waterfall_rows

VARIABLES
  live, \* _live_controllers and _live_adapters: from sources to adapters
  shell \* the window main() created

window == <<live>>

-----------------------------------------------------------------------------
(* The legacy MainWindow                                                   *)

InitWindow ==
  /\ live = [s \in {} |-> 0]

(* LiveSessionAdapter.__init__; it belongs to the controller made with it. *)
NewAdapter(c) == [ctl |-> c, accepted |-> 0, rows |-> <<>>, latest |-> <<>>]

(* open_live_sdr: a source that has a controller is only selected, even    *)
(* when that controller has stopped or failed.                             *)
OpenLive(s) ==
  /\ gui = IdleGui /\ s \notin DOMAIN live /\ Len(ctl) < MaxControllers /\ MayStartAgain
  /\ ctl' = Append(ctl, Started(Created))
  /\ live' = [t \in DOMAIN live \cup {s} |->
               IF t = s THEN NewAdapter(Len(ctl) + 1) ELSE live[t]]
  /\ UNCHANGED <<gui, late>>

(* stop_active_live_session: any session may be the active one.            *)
StopActive(s) ==
  /\ s \in DOMAIN live /\ CallStop(live[s].ctl, "return")
  /\ UNCHANGED window

(* apply: rows, newest last, of the accepted generation                    *)
Applied(adapter, update) ==
  LET accepted == IF adapter.accepted = 0 THEN update.generation ELSE adapter.accepted
      frame == <<update.by, update.frame>>
      rows == Append(adapter.rows, frame)
  IN  IF update.generation # accepted \/ update.frame = 0
      THEN [adapter EXCEPT !.accepted = accepted]
      ELSE [adapter EXCEPT !.accepted = accepted, !.latest = frame,
                           !.rows = IF Len(rows) > MaxRows THEN Tail(rows) ELSE rows]

(* _poll_live_updates, for one of the controllers it visits: poll_latest   *)
(* drops every update but the last, the frames they carry included.        *)
PollLive(s) ==
  /\ gui = IdleGui /\ s \in DOMAIN live
  /\ LET c == live[s].ctl
     IN  /\ ctl[c].updates # <<>>
         /\ live' = [live EXCEPT ![s] = Applied(@, Last(ctl[c].updates))]
         /\ ctl' = [ctl EXCEPT ![c].updates = <<>>]
  /\ UNCHANGED <<gui, late>>

(* close_active_session and _close_session, for the live part: the maps    *)
(* forget the controller first, then it is closed without waiting.         *)
CloseSession(s) ==
  /\ s \in DOMAIN live /\ CallStop(live[s].ctl, "forget")
  /\ live' = [t \in DOMAIN live \ {s} |-> live[t]]

EndClose ==
  /\ gui.at = "closing" /\ gui.after = "forget"
  /\ ctl' = [ctl EXCEPT ![gui.ctl] = Closed(@)]
  /\ gui' = IdleGui
  /\ UNCHANGED <<late, window>>

Window ==
  \/ \E s \in Sources : OpenLive(s) \/ StopActive(s) \/ PollLive(s) \/ CloseSession(s)
  \/ EndClose

-----------------------------------------------------------------------------
(* main() and its two windows                                              *)

vars == <<ctl, gui, late, presenter, window, shell>>

Init ==
  /\ InitControllers /\ InitMonitor /\ InitWindow
  /\ shell \in {"AppShell", "MainWindow"}

InAppShell == shell = "AppShell" /\ Monitor /\ UNCHANGED <<window, shell>>
InMainWindow == shell = "MainWindow" /\ Window /\ UNCHANGED <<presenter, shell>>

(* The GUI thread inside request_stop and close.                           *)
InCall == (StopLocked \/ Join) /\ UNCHANGED <<presenter, window, shell>>

AWorker(c) == Worker(c) /\ UNCHANGED <<presenter, window, shell>>

Next ==
  \/ InAppShell \/ InMainWindow \/ InCall
  \/ \E c \in DOMAIN ctl : AWorker(c)

(* Threads run, service calls return, and the timers of the GUI thread     *)
(* fire; nobody has to press a button.                                     *)
Timer ==
  \/ TimerFires /\ UNCHANGED <<window, shell>>
  \/ \E s \in Sources : PollLive(s) /\ UNCHANGED <<presenter, shell>>

CallGoesOn ==
  \/ InCall
  \/ CallReturns /\ UNCHANGED <<window, shell>>
  \/ EndClose /\ UNCHANGED <<presenter, shell>>

Fairness ==
  /\ \A c \in Controllers : WF_vars(c \in DOMAIN ctl /\ AWorker(c))
  /\ WF_vars(CallGoesOn) /\ WF_vars(Timer)

Spec == Init /\ [][Next]_vars
FairSpec == Spec /\ Fairness

-----------------------------------------------------------------------------
(* A snapshot that is not marked stale was built for the session on        *)
(* display: its configuration, applied values and calibration are that     *)
(* session's, and its generation is the one the controller had when the    *)
(* snapshot was built, whatever the sessions before it still publish, and  *)
(* though an update of the generation before a second start may lie in the *)
(* queue (poll, start, connect, apply_requested). Only an apply_requested  *)
(* that failed half way leaves the snapshot and the request of a session   *)
(* that is gone.                                                           *)
SnapshotIsOwn ==
  IF own = 0
  THEN shown = IdleSnapshot \/ requested # 0
  ELSE /\ shown.cal \in {0, own}
       /\ shown.rows.requested = own
       /\ shown.rows.applied \in {0, own}
       /\ shown.of \in {0, own} /\ shown.generation <= ctl[own].generation
       /\ shown.generation > 0 /\ ~shown.stale =>
            shown.of = own /\ shown.generation = shown.asOf

(* Two workers hold the device at once only if the close() between them    *)
(* gave up waiting: a restart is bounded, not exclusive (apply_requested). *)
DeviceIsExclusive ==
  shell = "AppShell" =>
    \A c, d \in DOMAIN ctl : c < d /\ ctl[c].open /\ ctl[d].open => c \in late

(* In the main window a source's adapter and controller stay a pair: its   *)
(* waterfall holds frames of that controller only, also when the source is *)
(* opened again while its old worker still runs, and a controller no       *)
(* source refers to was told to stop.                                      *)
WaterfallIsOwn ==
  shell = "MainWindow" =>
    /\ \A s \in DOMAIN live :
         LET rows == live[s].rows
         IN  /\ \A i \in DOMAIN rows : rows[i][1] = live[s].ctl
             /\ rows # <<>> => live[s].latest = Last(rows)
    /\ \A c \in DOMAIN ctl :
         (\A s \in DOMAIN live : live[s].ctl # c) => ctl[c].stop

(* Each session is shown what is its own, in either shell.                 *)
OnlyOwnIsShown == SnapshotIsOwn /\ WaterfallIsOwn

(* A session told to stop lets go of the device and its worker ends,       *)
(* also when the request arrives during configure and is overwritten by    *)
(* RUNNING (controller.py, _run).                                          *)
StopEndsTheWorker ==
  \A c \in Controllers :
    (c \in DOMAIN ctl /\ ctl[c].stop) ~>
      (c \in DOMAIN ctl /\ ctl[c].worker = "none" /\ ~ctl[c].open)

(* A session that ended is shown in its final state, however few updates   *)
(* the queue keeps and however many the timer missed.                      *)
TheEndIsShown ==
  \A c \in Controllers :
    (own = c /\ ctl[c].generation > 0 /\ ctl[c].worker = "none") ~>
      \/ own # c \/ ctl[c].worker # "none"
      \/ ~shown.stale /\ shown.state = ctl[c].state

(* A session that is to end does, and the user sees it end.                *)
SessionsEnd == StopEndsTheWorker /\ TheEndIsShown
=============================================================================
