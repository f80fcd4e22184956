--------------------------- MODULE FrameNavigation ---------------------------
(***************************************************************************)
(* Showing frames of a recording: the navigation that holds the target,     *)
(* the loader with one active and one pending read, and the scheduler that  *)
(* decides which frames read are shown (esw_dfl/frame_navigation.py).       *)
(* All of it runs on the GUI thread, but for the reads of large rows: each  *)
(* method is an operator from the workspace w to the next one.             *)
(***************************************************************************)
EXTENDS Integers, Sequences, FiniteSets

CONSTANTS
  Sources,    \* recordings, each a session with one waterfall
  Large,      \* those whose rows are read by a worker
  LastFrame,  \* frame_count - 1
  MaxCache,   \* max_cache of the loader
  None

ASSUME NavigationAssumption ==
  LastFrame \in Nat /\ MaxCache \in Nat \ {0} /\ Large \subseteq Sources /\ None \notin Sources

Frames == 0 .. LastFrame

Request(w, session, frame, reason) ==
  [session |-> session, frame |-> frame, gen |-> w.gen, reason |-> reason]

-----------------------------------------------------------------------------
(* The navigation.                                                          *)

(* set_frame_count, and the clip it does: no frames, or all of them.       *)
SetFrameCount(w, count) ==
  [w EXCEPT !.count = count,
            !.requested = IF count = 0 THEN 0 ELSE @, !.displayed = IF count = 0 THEN 0 ELSE @]

(* _on_target_changed of the scheduler: a seek by the user supersedes      *)
(* every read of the playback.                                             *)
TargetChanged(w) ==
  IF w.reason = "playback" THEN w ELSE [w EXCEPT !.floor = w.gen, !.lastFrame = w.displayed]

(* seek and _set_target: a target that is there already is not a new one.  *)
Seek(w, frame, reason) ==
  IF w.count = 0 THEN w
  ELSE IF frame = w.requested /\ reason = w.reason THEN TargetChanged([w EXCEPT !.scroll = "active"])
  ELSE TargetChanged([w EXCEPT !.requested = frame, !.reason = reason, !.scroll = "active", !.gen = @ + 1])

-----------------------------------------------------------------------------
(* The scheduler, when a frame is there.                                    *)

(* _apply_frame_snapshot: the row is drawn over whatever is active; the    *)
(* slot raises for a session that is gone.                                 *)
Drawn(w, s) ==
  IF s.session \notin w.open THEN w
  ELSE [w EXCEPT !.shown = [session |-> s.session, frame |-> s.frame], !.current[s.session] = s.frame]

(* A read of the running playback may lag behind its target, not precede   *)
(* what was shown or what is wanted.                                       *)
LagsAcceptably(w, s) ==
  /\ w.playing /\ s.reason = "playback" /\ s.gen >= w.floor
  /\ s.frame <= w.requested /\ s.frame >= w.lastFrame

Wanted(w, s) ==
  /\ IF s.gen < w.gen THEN LagsAcceptably(w, s) ELSE w.sequential \/ s.frame = w.requested
  /\ ~(s.gen = w.lastGen /\ s.frame = w.lastFrame)

(* _on_snapshot_ready: set_displayed_frame already says SETTLING, so       *)
(* _enter_settle that follows does not start its timer.                    *)
Ready(w, s) ==
  IF ~Wanted(w, s) THEN w
  ELSE Drawn([w EXCEPT !.lastGen = s.gen, !.lastFrame = s.frame, !.displayed = s.frame,
                       !.scroll = IF s.frame = w.requested THEN "settling" ELSE "active"], s)

-----------------------------------------------------------------------------
(* The loader.                                                              *)

Key(s) == <<s.session, s.frame>>

IsCached(w, key) == \E i \in DOMAIN w.cache : w.cache[i] = key

(* _on_result: the oldest row is dropped when there are too many.          *)
Cached(cache, key) ==
  LET added == Append(cache, key)
  IN IF \E i \in DOMAIN cache : cache[i] = key THEN cache
     ELSE IF Len(added) > MaxCache THEN Tail(added) ELSE added

OnResult(w, s) ==
  IF w.closed THEN w ELSE Ready([w EXCEPT !.cache = Cached(@, Key(s))], s)

(* _launch: a small row is read at once, well or not, a large one by a     *)
(* worker.  The session of the request may be gone: the callback raises    *)
(* when the request is active already.                                     *)
Launch(w, s, well) ==
  IF w.closed THEN w
  ELSE IF s.session \notin w.open THEN [w EXCEPT !.active = s]
  ELSE IF s.session \notin w.indexed THEN [w EXCEPT !.active = None]
  ELSE IF s.session \in Large
       THEN [w EXCEPT !.active = s, !.worker = [read |-> s, cancelled |-> FALSE, stage |-> "running"]]
  ELSE IF well THEN OnResult([w EXCEPT !.active = None], s) ELSE [w EXCEPT !.active = None]

(* A request of a session that is gone, which no worker will ever finish.  *)
Wedged(w) == w.active # None /\ w.worker = None /\ w.active.session \notin w.open

(* request: the latest one waits.                                          *)
Load(w, s, well) ==
  IF w.closed THEN w
  ELSE IF IsCached(w, Key(s)) THEN Ready(w, s)
  ELSE IF w.active = None THEN Launch(w, s, well) ELSE [w EXCEPT !.pending = s]

(* cancel_all: the active read is left to end by itself.                   *)
CancelAll(w) ==
  [w EXCEPT !.pending = None, !.worker = IF @ = None THEN None ELSE [@ EXCEPT !.cancelled = TRUE]]

(* Mutant: the active request is kept when nothing waits.                  *)
FinishKeepingActive(w, well) ==
  LET done == [w EXCEPT !.worker = None, !.pending = None]
  IN IF w.pending = None THEN done ELSE Launch(done, w.pending, well)

(* _on_finished and _finish_active                                         *)
FinishActive(w, well) ==
  LET done == [w EXCEPT !.worker = None, !.active = None, !.pending = None]
  IN IF w.pending = None THEN done ELSE Launch(done, w.pending, well)

(* close of the loader                                                     *)
CloseLoader(w) == [w EXCEPT !.closed = TRUE, !.worker = None, !.active = None, !.pending = None]

-----------------------------------------------------------------------------
(* The scheduler, at its rate.                                              *)

(* _enter_settle                                                           *)
EnterSettle(w) == IF w.scroll = "settling" THEN w ELSE [w EXCEPT !.scroll = "settling", !.settling = TRUE]

(* _tick: one frame towards the target in sequential mode.                 *)
Tick(w, well) ==
  LET d == [w EXCEPT !.settling = FALSE]
      towards == IF w.requested > w.displayed THEN w.displayed + 1 ELSE w.displayed - 1
      next == IF w.sequential THEN towards ELSE w.requested
  IN IF w.requested = w.displayed /\ (w.scroll # "active" \/ w.sequential) THEN EnterSettle(w)
     ELSE Load(d, Request(w, w.context, next, w.reason), well)

(* schedule(immediate): when the tick raises, the timer is not started.    *)
Schedule(w, well) ==
  LET d == Tick(w, well)
  IN IF Wedged(d) /\ ~Wedged(w) THEN d ELSE [d EXCEPT !.timer = TRUE]

(* cancel_and_invalidate                                                   *)
CancelAndInvalidate(w) ==
  [CancelAll(w) EXCEPT !.timer = FALSE, !.settling = FALSE, !.gen = @ + 1, !.floor = w.gen + 1,
                       !.sequential = FALSE, !.playing = FALSE]

(* set_playback_active(True), reset_playback_progress                      *)
PlaybackActive(w) ==
  IF w.playing THEN w ELSE [w EXCEPT !.playing = TRUE, !.floor = w.gen, !.lastFrame = w.displayed]

ResetProgress(w) == [w EXCEPT !.floor = w.gen, !.lastFrame = -1]

(* _on_settle, and _on_frame_settled of the presenter: the neighbours of   *)
(* the frame are read ahead, through the same request.                     *)
Settle(w, well) ==
  LET still == w.displayed = w.requested
      idle == [w EXCEPT !.settling = FALSE, !.scroll = IF still THEN "idle" ELSE @]
      Ahead(v, offset) ==
        IF w.session \in w.indexed /\ idle.scroll = "idle" /\ w.requested + offset \in 0 .. w.count - 1
        THEN Load(v, Request(w, w.session, w.requested + offset, "api"), well) ELSE v
      read == Ahead(Ahead(idle, 1), -1)
  IN IF read.displayed = read.requested THEN [read EXCEPT !.timer = FALSE] ELSE read
=============================================================================
