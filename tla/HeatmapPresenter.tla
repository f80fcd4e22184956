--------------------------- MODULE HeatmapPresenter ---------------------------
(***************************************************************************)
(* The offline workspace around the heatmap: sessions are activated and     *)
(* removed, frames sought and played, the layer is switched on and off      *)
(* (the heatmap part of OfflineDflPresenter, ui/offline_presenter.py).      *)
(***************************************************************************)
EXTENDS HeatmapController

CONSTANTS
  Opened,        \* the session that was opened last
  MaxCommands,   \* bound: commands of the user
  MaxMoves,      \* bound: frames sought or played
  RemoveOthers   \* whether sessions that are not active are removed too

ASSUME OpenedAssumption == Opened \in Sources

VARIABLES
  open,     \* the sessions of the repository
  indexed,  \* those whose preview and index are there
  session,  \* active_session_id
  identity, \* _heatmap_last_context_identity
  on,       \* _heatmap_enabled
  nav,      \* requested_frame and navigation_reason of FrameNavigationController
  overlay,  \* the snapshot the layer shows
  commands, \* what the user did so far
  moves

workspace == <<open, indexed, session, identity, on, nav, commands, moves>>
vars == <<heatmap, workspace, overlay>>

(* A recording was just opened besides others; the layer may be switched   *)
(* on before its preview is there.                                         *)
Init ==
  /\ InitHeatmap
  /\ open = Sources /\ indexed = Sources \ {Opened} /\ session = Opened
  /\ identity = session /\ on \in BOOLEAN /\ nav = [frame |-> 0, reason |-> "api"]
  /\ overlay = None /\ commands = 0 /\ moves = 0

TypeOK ==
  /\ session \in open \cup {None} /\ indexed \subseteq open
  /\ hc.ctx \in Sources \cup {None}
  /\ hc.state # None => hc.state \in DOMAIN heap
  /\ \A g \in DOMAIN hc.streams : hc.streams[g].over \in DOMAIN heap

-----------------------------------------------------------------------------
(* _apply_persistence_snapshot: of the active session only.                *)
Shown(c, layer) == IF c.out # None /\ c.out.source = session' THEN c.out ELSE layer

(* A handler left the controller as c, over the accumulators h, and the    *)
(* layer as it is given.                                                   *)
HandledOver(c, h, layer) ==
  /\ hc' = [c EXCEPT !.out = None]
  /\ heap' = Kept(c, h)
  /\ overlay' = Shown(c, layer)

Handled(c, layer) == HandledOver(c, heap, layer)

(* _heatmap_controller_context: a source needs its index.                  *)
ContextOf(s) == IF s \in indexed' THEN s ELSE None

(* seek and _on_heatmap_frame_span: an unchanged target says nothing, and  *)
(* only the context's own session is followed.                             *)
Sought(c, from, to, s) ==
  IF on /\ s # None /\ c.ctx = s /\ to # from
  THEN OnFrameSpan(c, heap, from.frame, to.frame, to.reason) ELSE c

(* _heatmap_context_changed: a new source, and its heatmap when it is on.  *)
ContextChanged(c, s) ==
  IF s = identity THEN c
  ELSE IF on /\ ContextOf(s) # None THEN Enable(SetContext(c, s), "rolling", 0)
  ELSE SetContext(c, ContextOf(s))

(* set_active_session: the layer is wiped; a session without a waterfall   *)
(* has no frames to seek.  Sessions are left at their first frame here.    *)
Activated(c, s) ==
  LET to == [frame |-> 0, reason |-> "api"]
      d == ContextChanged(c, s)
  IN /\ session' = s /\ identity' = s
     /\ nav' = to
     /\ Handled(IF s \in indexed' THEN Sought(d, nav, to, s) ELSE d, None)

(* _clear_ui: nothing is left to show.                                     *)
Emptied(c) ==
  /\ session' = None /\ identity' = None /\ UNCHANGED nav
  /\ Handled(Clear(SetContext(c, None)), None)

-----------------------------------------------------------------------------
(* The window takes commands until it is closed.                           *)
Command == ~hc.down /\ commands < MaxCommands /\ commands' = commands + 1 /\ UNCHANGED <<moves, failed>>
Move == ~hc.down /\ moves < MaxMoves /\ moves' = moves + 1 /\ UNCHANGED <<commands, failed>>

(* _preview_loaded of the active session: its frame is sought twice, with  *)
(* two reasons, and the heatmap is started over it.                        *)
PreviewLoaded(s) ==
  LET entered == [frame |-> nav.frame, reason |-> "seek"]
  IN /\ s \in open \ indexed /\ indexed' = indexed \cup {s}
     /\ UNCHANGED <<open, session, identity, on, inbox, commands, moves, failed>>
     /\ IF s # session THEN UNCHANGED <<hc, heap, overlay, nav>>
        ELSE /\ nav' = entered
             /\ Handled(IF ~on THEN hc ELSE Enable(SetContext(hc, s), "rolling", nav.frame), overlay)

ActivateSession(s) ==
  /\ Command /\ s \in open
  /\ UNCHANGED <<open, indexed, on, inbox>>
  /\ Activated(hc, s)

(* remove_session: the first that remains becomes active.                  *)
RemoveSession(s) ==
  LET invalid == InvalidateSession(hc, heap, s)
      layer == IF overlay # None /\ overlay.source = s THEN None ELSE overlay
  IN /\ Command /\ s \in open /\ (RemoveOthers \/ s = session)
     /\ open' = open \ {s} /\ indexed' = indexed \ {s} /\ UNCHANGED <<on, inbox>>
     /\ IF s # session THEN UNCHANGED <<session, identity, nav>> /\ Handled(invalid, layer)
        ELSE IF open' = {} THEN Emptied(invalid)
        ELSE \E next \in open' : Activated(invalid, next)

(* heatmap_enable, in a live mode or as a fixed range.                     *)
EnableHeatmap(mode) ==
  LET c == SetContext(hc, ContextOf(session))
  IN /\ Command /\ on' = TRUE
     /\ UNCHANGED <<open, indexed, session, identity, nav, inbox>>
     /\ Handled(IF c.ctx = None THEN c
                ELSE IF mode = "fixed" THEN RequestFixed(c, nav.frame) ELSE Enable(c, mode, nav.frame), overlay)

DisableHeatmap ==
  /\ Command /\ on' = FALSE
  /\ UNCHANGED <<open, indexed, session, identity, nav, inbox>>
  /\ Handled(Disable(hc), None)

(* heatmap_recalculate, of the live layer or of a fixed range.             *)
RecalculateHeatmap(fixed) ==
  /\ Command
  /\ UNCHANGED <<open, indexed, session, identity, on, nav, inbox>>
  /\ Handled(IF fixed THEN RequestFixed(hc, nav.frame) ELSE Recalculate(hc), overlay)

(* heatmap_cancel: a reader alone is no calculation to cancel.             *)
CancelHeatmap ==
  /\ Command /\ (hc.active # None \/ hc.pending # None)
  /\ UNCHANGED <<open, indexed, session, identity, on, nav, inbox>>
  /\ Handled(Cancel(hc), overlay)

ClearHeatmap ==
  /\ Command
  /\ UNCHANGED <<open, indexed, session, identity, on, nav, inbox>>
  /\ Handled(Clear(hc), None)

(* show_frame and the wheel; _advance_frame: playback goes forward by any  *)
(* number of frames and loops from the last one.                           *)
Navigate(frame, reason) ==
  LET to == [frame |-> frame, reason |-> reason]
  IN /\ Move /\ session \in indexed
     /\ reason = "playback" => frame > nav.frame \/ (frame = 0 /\ nav.frame = LastFrame)
     /\ nav' = to
     /\ UNCHANGED <<open, indexed, session, identity, on, inbox>>
     /\ Handled(Sought(hc, nav, to, session), overlay)

(* stop: the first frame, and the window of the first frame.               *)
StopPlayback ==
  LET first == [frame |-> 0, reason |-> "seek"]
  IN /\ Move /\ session \in indexed
     /\ nav' = first
     /\ UNCHANGED <<open, indexed, session, identity, on, inbox>>
     /\ Handled(StopAt(Sought(hc, nav, first, session), 0), overlay)

(* close                                                                   *)
Close ==
  /\ Command
  /\ UNCHANGED <<open, indexed, session, identity, on, nav, inbox>>
  /\ Handled(Shutdown(hc), overlay)

-----------------------------------------------------------------------------
(* The GUI thread handles the signal posted first.                         *)
HandleMessage ==
  /\ inbox # << >> /\ inbox' = Tail(inbox)
  /\ UNCHANGED <<workspace, failed>>
  /\ \E c \in OnMessage(hc, heap, Head(inbox)) :
       HandledOver(c, Delivered(hc, Head(inbox), heap), overlay)

(* _render_timeout                                                         *)
RenderTimeout ==
  /\ hc.toRender # None
  /\ UNCHANGED <<workspace, inbox, failed>>
  /\ Handled([hc EXCEPT !.toRender = None, !.out = IF hc.down THEN None ELSE hc.toRender], overlay)

WorkStep == Work /\ UNCHANGED <<workspace, overlay>>

Next ==
  \/ \E s \in Sources : PreviewLoaded(s)
  \/ \E s \in Sources : ActivateSession(s) \/ RemoveSession(s)
  \/ \E mode \in {"rolling", "decay", "fixed"} : EnableHeatmap(mode)
  \/ DisableHeatmap \/ CancelHeatmap \/ ClearHeatmap \/ StopPlayback \/ Close
  \/ \E fixed \in BOOLEAN : RecalculateHeatmap(fixed)
  \/ \E f \in Frames, reason \in {"seek", "playback"} : Navigate(f, reason)
  \/ HandleMessage \/ RenderTimeout \/ WorkStep

(* The pool runs what it was given, the event loop delivers signals and    *)
(* the render timer fires; nothing is assumed of the user.                 *)
Fairness == WF_vars(HandleMessage) /\ WF_vars(RenderTimeout) /\ WF_vars(WorkStep)

Spec == Init /\ [][Next]_vars /\ Fairness

-----------------------------------------------------------------------------
Snapshots == {hc.applied, hc.toRender, overlay} \ {None}

(* A density computed for an earlier generation or another source, and     *)
(* delivered late, is never taken for the one that is wanted; and the      *)
(* layer lies over the waterfall it was computed from, though a render may *)
(* be waiting for its timer while sessions are switched and removed.       *)
AppliedIsCurrent == hc'.applied.gen = hc'.gen /\ hc'.applied.source = hc'.ctx
LayerIsCurrent ==
  /\ [](overlay # None => overlay.source = session)
  /\ [][hc'.applied \notin {hc.applied, None} => AppliedIsCurrent]_vars

(* A rolling density counts every frame of its window exactly once, though *)
(* targets are coalesced and readers are cancelled half way; unless its    *)
(* accumulator was given to two readers (README).                          *)
RollingIsExact ==
  \A s \in Snapshots : s.mode = "rolling" /\ ~s.shared => s.rows = ExactWindow(s.frame)

(* A reader that cannot deliver: it goes on from what an earlier           *)
(* generation built, as a rebuild was pending, failed or cancelled when    *)
(* playback went on; or a fixed range took the generation and left it.     *)
Orphaned == hc.stream # None /\ (hc.stream # hc.gen \/ hc.state # hc.stream)

(* A stop of playback over a fixed range alone raised, and moved the       *)
(* generation before it did.                                               *)
StopRaised == hc.mode = None /\ hc.desired # None

(* When the user pauses, a calculation that is announced comes to an end,  *)
(* unless a reader is orphaned or a stop raised; and a reader that fails   *)
(* may take a target with it, as its mailbox is open until its end is      *)
(* handled.                                                                *)
Settles ==
  <>[](hc.phase \in Busy => hc.ctx = None \/ Orphaned \/ StopRaised \/ "reader" \in failed)
=============================================================================
