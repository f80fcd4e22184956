-------------------------- MODULE HeatmapController --------------------------
(***************************************************************************)
(* HeatmapPersistenceController: one active and one pending ticket, a      *)
(* stream reader that owns the rolling accumulator, and the generation     *)
(* that decides which results count                                        *)
(* (esw_dfl/heatmap_persistence_controller.py).                            *)
(*                                                                         *)
(* Its methods run on the GUI thread, one at a time, and call each other:  *)
(* each is an operator from the controller's state to the next one.        *)
(*                                                                         *)
(* Of PersistenceEngine (esw_dfl/heatmap_persistence.py) it has what is    *)
(* done to an accumulator: the frames counted in it, as rolling windows and*)
(* as decaying histories.                                                  *)
(***************************************************************************)
EXTENDS Integers, Sequences, SequencesExt, FiniteSets, TLC

CONSTANTS
  LastFrame, \* frame_count - 1
  Window,    \* window_frames of the configuration
  Sources,   \* sessions that own a waterfall
  Untimed,   \* those without timestamps or period
  Chunk,     \* frames of a batch of the stream reader, at most a window
  Failing,   \* bound: each kind in it fails once, of "job" and "reader"
  None

Names == Sources \cup {None}
Modes == {"rolling", "decay", None}

(* The kinds of values that the controller keeps about its work.           *)
Tickets ==
  [kind : {"rebuild", "advance", "fixed", "stream"}, gen : Nat, source : Names, frame : Nat, mode : Modes]
Tasks == [ticket : Tickets, over : Nat \cup {None}, cancelled : BOOLEAN, done : BOOLEAN]
Readers ==
  [over : Nat, high : Nat, cancelled : BOOLEAN, first : Nat, end : Nat, reading : BOOLEAN]

ASSUME HeatmapAssumption ==
  /\ LastFrame \in Nat /\ Window \in Nat \ {0} /\ Chunk \in 1 .. Window
  /\ Failing \subseteq {"job", "reader"} /\ Untimed \subseteq Sources
  /\ None \notin Sources \cup Nat \cup Tasks

VARIABLES
  failed,  \* the kinds of calculation that failed so far
  hc,      \* the controller: its attributes, and what it was given to run
  heap,    \* the accumulators, by the generation that built them
  inbox    \* results the workers posted to the GUI thread

heatmap == <<hc, heap, inbox, failed>>

-----------------------------------------------------------------------------
(* PersistenceEngine                                                       *)

Frames == 0 .. LastFrame

(* resolve_persistence_bounds, LAST_N: where the window of a target starts *)
WindowStart(target) == IF target < Window THEN 0 ELSE target - Window + 1

FramesFrom(first, last) == [i \in 1 .. (last - first + 1) |-> first + i - 1]

(* The reference: the frames a window counts, each once.                   *)
ExactWindow(target) == FramesFrom(WindowStart(target), target)

(* rebuild_exact and rebuild_decay: a new accumulator over the window.  at *)
(* is target_frame; shared says that a second worker was given it.         *)
Rebuilt(ticket) ==
  [source |-> ticket.source, mode |-> ticket.mode, at |-> ticket.frame,
   rows |-> IF ticket.mode = "rolling" THEN ExactWindow(ticket.frame) ELSE << >>, shared |-> FALSE]

(* The contributions left after those at the front that the window has     *)
(* passed are subtracted.                                                  *)
Evicted(rows, end) ==
  LET kept == {i \in 1 .. Len(rows) : rows[i] >= WindowStart(end)}
  IN IF kept = {} THEN << >> ELSE SubSeq(rows, Min(kept), Len(rows))

(* _take_exact_ring_storage raises when the ring has no free row.          *)
RingHasRoom(rows, first, end) == Len(Evicted(rows, end)) + (end - first + 1) <= Window

(* One batch of _advance_exact_frame_range: the decoded frames first .. end*)
(* enter, the ones before the window leave.                                *)
Advanced(state, first, end) ==
  [state EXCEPT !.rows = Evicted(@, end) \o FramesFrom(first, end), !.at = end]

(* advance_decay: every frame after current_end decays what is there.      *)
Decayed(state, target) == [state EXCEPT !.at = target]

-----------------------------------------------------------------------------
(* HeatmapPersistenceController                                            *)

(* active: _active with its TaskWorker, done when it has posted its end.   *)
(* streams: the readers alive, by generation; stream is _stream_worker.    *)
(* toRender: _pending_render.  out: what snapshot_ready emitted last.      *)
NewController ==
  [ctx |-> None, gen |-> 0, enabled |-> FALSE, down |-> FALSE, mode |-> None,
   state |-> None, active |-> None, pending |-> None, stream |-> None,
   streams |-> << >>, desired |-> None, applied |-> None, phase |-> "disabled",
   cancelAsked |-> FALSE, toRender |-> None, cached |-> {}, out |-> None]

Busy == {"updating", "rebuilding"}

Ticket(kind, c, frame) ==
  [kind |-> kind, gen |-> c.gen, source |-> c.ctx, frame |-> frame, mode |-> c.mode]

-----------------------------------------------------------------------------
(* _stop_rolling_stream: the reader is cancelled and its mailbox closed;   *)
(* nobody waits for it.                                                    *)
StopStream(c) ==
  [c EXCEPT !.stream = None,
            !.streams = [g \in DOMAIN @ |-> IF g = c.stream THEN [@[g] EXCEPT !.cancelled = TRUE] ELSE @[g]]]

CancelTask(c) == IF c.active = None THEN c ELSE [c EXCEPT !.active.cancelled = TRUE]

(* _start_ticket of a bounded job: it becomes the active ticket.           *)
Launched(c, ticket) ==
  [c EXCEPT !.active = [ticket |-> ticket, over |-> c.state, cancelled |-> FALSE, done |-> FALSE]]

(* _route_rebuild: a new generation whose one pending ticket replaces the  *)
(* work under way.  Its own ticket is current, so it starts at once when   *)
(* nothing is active.  Without the configuration of a live mode the        *)
(* assertion of _make_rebuild_ticket raises half way.                      *)
RouteRebuild(c, frame) ==
  LET moved == [StopStream(c) EXCEPT !.gen = @ + 1, !.desired = frame]
      d == [moved EXCEPT !.phase = "rebuilding"]
      ticket == Ticket("rebuild", d, frame)
  IN IF c.mode = None THEN moved
     ELSE IF d.active = None THEN Launched([d EXCEPT !.pending = None], ticket)
     ELSE CancelTask([d EXCEPT !.pending = ticket])

WithReader(streams, gen, reader) ==
  [g \in DOMAIN streams \cup {gen} |-> IF g = gen THEN reader ELSE streams[g]]

(* Mutant: the reader starts at the target it was given.                   *)
StreamStartedAtTarget(c, frame) ==
  [c EXCEPT !.stream = c.gen,
            !.streams = WithReader(@, c.gen, [over |-> c.state, high |-> frame, cancelled |-> FALSE,
                                              first |-> frame, end |-> frame, reading |-> TRUE])]

(* _start_rolling_stream: the reader takes the accumulator over.           *)
StreamStarted(c, frame) ==
  [c EXCEPT !.stream = c.gen,
            !.streams = WithReader(@, c.gen, [over |-> c.state, high |-> frame, cancelled |-> FALSE,
                                              first |-> 0, end |-> 0, reading |-> FALSE])]

CanStream(c, h) == c.ctx # None /\ c.stream = None /\ c.state # None /\ h[c.state].mode = "rolling"

(* _start_next_pending and _start_ticket: a ticket of an older generation, *)
(* or of another source, is dropped without a word.                        *)
StartPending(c, h) ==
  LET ticket == c.pending
      d == [c EXCEPT !.pending = None]
  IN IF c.down \/ ticket.gen # c.gen \/ c.ctx = None \/ ticket.source # c.ctx THEN d
     ELSE IF ticket.kind # "stream" THEN Launched(d, ticket)
     ELSE IF CanStream(d, h) THEN StreamStarted(d, ticket.frame)
     ELSE RouteRebuild(d, ticket.frame)

-----------------------------------------------------------------------------
(* set_context: the new source starts from nothing.                        *)
SetContext(c, source) ==
  [CancelTask(StopStream(c)) EXCEPT
     !.gen = @ + 1, !.pending = None, !.state = None, !.ctx = source, !.applied = None, !.desired = None]

(* enable, the two live modes: decay needs a timeline.                     *)
Enable(c, mode, frame) ==
  LET d == [StopStream(c) EXCEPT !.enabled = TRUE, !.mode = mode, !.state = None, !.gen = @ + 1]
  IN IF c.down THEN c
     ELSE IF mode = "decay" /\ c.ctx \in Untimed THEN [d EXCEPT !.phase = "error"]
     ELSE RouteRebuild(d, frame)

Disable(c) ==
  [CancelTask(StopStream(c)) EXCEPT
     !.enabled = FALSE, !.gen = @ + 1, !.pending = None, !.state = None, !.applied = None, !.phase = "disabled"]

(* stop: the window of the first frame, after playback was stopped.        *)
StopAt(c, frame) == IF ~c.enabled \/ c.ctx = None THEN c ELSE RouteRebuild(c, frame)

Shutdown(c) ==
  [CancelTask(StopStream(c)) EXCEPT !.down = TRUE, !.phase = "down", !.pending = None, !.gen = @ + 1]

(* invalidate_session: its work and its cached densities go; the           *)
(* generation moves whichever session it was.                              *)
InvalidateSession(c, h, source) ==
  LET stopped == IF c.ctx = source THEN StopStream(c) ELSE c
      cut == IF c.active # None /\ c.active.ticket.source = source THEN CancelTask(stopped) ELSE stopped
  IN [cut EXCEPT
        !.gen = @ + 1, !.cached = @ \ {source},
        !.pending = IF @ # None /\ @.source = source THEN None ELSE @,
        !.applied = IF @ # None /\ @.source = source THEN None ELSE @,
        !.state = IF @ # None /\ h[@].source = source THEN None ELSE @]

(* cancel: the user drops what is under way and keeps what is applied.     *)
Cancel(c) ==
  IF c.active = None /\ c.pending = None /\ c.stream = None THEN c
  ELSE [CancelTask(StopStream(c)) EXCEPT !.gen = @ + 1, !.cancelAsked = TRUE, !.pending = None]

(* clear: the active job is left to finish, its generation is gone.        *)
Clear(c) ==
  [StopStream(c) EXCEPT !.gen = @ + 1, !.pending = None, !.state = None, !.applied = None, !.phase = "empty"]

-----------------------------------------------------------------------------
(* publish of the mailbox, for the current reader: the highest target.     *)
Publish(c, frame) ==
  [c EXCEPT !.phase = "updating", !.desired = frame,
            !.streams = [g \in DOMAIN @ |->
               IF g = c.stream /\ frame > @[g].high THEN [@[g] EXCEPT !.high = frame] ELSE @[g]]]

(* _route_advance and _route_playback_gap of decay, behind an active job:  *)
(* the latest target waits in the one pending slot.                        *)
Wait(c, kind, frame) == [c EXCEPT !.pending = Ticket(kind, c, frame), !.phase = "updating"]

(* on_frame_span, forward playback of Rolling Exact: every frame is read,  *)
(* by one reader.                                                          *)
StreamSpan(c, h, frame) ==
  IF c.stream # None THEN Publish(c, frame)
  ELSE IF c.active # None THEN Wait(c, "stream", frame)
  ELSE IF CanStream(c, h) THEN [StreamStarted(c, frame) EXCEPT !.phase = "updating"]
  ELSE RouteRebuild(c, frame)

(* on_frame_span, forward playback of Exponential Decay.                   *)
DecaySpan(c, h, frame) ==
  LET kind == IF c.state # None /\ frame > h[c.state].at THEN "advance" ELSE "rebuild"
  IN IF c.active # None THEN Wait(c, kind, frame)
     ELSE IF kind = "rebuild" THEN RouteRebuild(c, frame)
     ELSE [Launched(c, Ticket("advance", c, frame)) EXCEPT !.phase = "updating"]

(* on_frame_span: a seek, a step back or a loop is a rebuild.              *)
OnFrameSpan(c, h, previous, frame, reason) ==
  LET d == [c EXCEPT !.desired = frame]
  IN IF c.down \/ ~c.enabled \/ c.ctx = None \/ c.mode = None THEN c
     ELSE IF reason # "playback" \/ frame <= previous THEN RouteRebuild(d, frame)
     ELSE IF c.mode = "rolling" THEN StreamSpan(d, h, frame)
     ELSE DecaySpan(d, h, frame)

(* The snapshot of a whole recording, from the cache or from a fixed job.  *)
FixedSnapshot(source, gen, frame) ==
  [source |-> source, gen |-> gen, frame |-> frame, rows |-> << >>, shared |-> FALSE, mode |-> "fixed"]

(* request_fixed and _start_fixed_request: a cached density is applied on  *)
(* the spot, otherwise a job replaces the work under way.                  *)
RequestFixed(c, frame) ==
  LET d == [c EXCEPT !.enabled = TRUE, !.gen = @ + 1]
      hit == FixedSnapshot(d.ctx, d.gen, frame)
      ticket == Ticket("fixed", d, frame)
  IN IF c.down \/ c.ctx = None THEN c
     ELSE IF c.ctx \in c.cached THEN [d EXCEPT !.applied = hit, !.phase = "current", !.out = hit]
     ELSE IF d.active = None THEN [Launched([d EXCEPT !.pending = None], ticket) EXCEPT !.phase = "rebuilding"]
     ELSE CancelTask([d EXCEPT !.pending = ticket, !.phase = "rebuilding"])

(* recalculate: rebuild what is wanted, or the fixed layer.                *)
Recalculate(c) ==
  LET frame == IF c.desired = None THEN LastFrame ELSE c.desired
  IN IF c.down \/ ~c.enabled \/ c.ctx = None THEN c
     ELSE IF c.mode = None THEN RequestFixed(c, frame)
     ELSE RouteRebuild(c, frame)

-----------------------------------------------------------------------------
(* A snapshot of an accumulator, taken by the worker that owns it.         *)
SnapshotOf(state, gen) ==
  [source |-> state.source, gen |-> gen, frame |-> state.at, rows |-> state.rows,
   shared |-> state.shared, mode |-> state.mode]

(* _queue_render, _flush_render: at once when the last one is old enough,  *)
(* else when the timer fires; the newest snapshot replaces the one waiting. *)
QueueRender(c, snapshot) ==
  {[c EXCEPT !.toRender = None, !.out = snapshot], [c EXCEPT !.toRender = snapshot]}

Applied(c, snapshot) ==
  QueueRender(
    [c EXCEPT !.applied = snapshot,
              !.phase = IF c.desired = None \/ snapshot.frame >= c.desired THEN "current" ELSE "updating"],
    snapshot)

(* Mutant: a result is not asked for its generation.                       *)
ResultCountsForSource(c, ticket) == ~c.down /\ ticket.source = c.ctx

(* The condition under which _on_result looks at a result.                 *)
ResultCounts(c, ticket) ==
  ~c.down /\ ticket.gen = c.gen /\ (c.ctx # None => ticket.source = c.ctx)

(* _on_result: the states the controller may go to.                        *)
OnResult(c, ticket, value) ==
  IF ~ResultCounts(c, ticket) THEN {c}
  ELSE IF ticket.kind = "fixed"
       THEN Applied([c EXCEPT !.cached = @ \cup {ticket.source}], FixedSnapshot(ticket.source, ticket.gen, ticket.frame))
  ELSE IF value = None THEN {RouteRebuild(c, ticket.frame)}
  ELSE IF ticket.kind = "advance" THEN Applied(c, value)
  ELSE Applied([c EXCEPT !.state = ticket.gen], SnapshotOf(value, ticket.gen))

(* _on_error, _on_stream_error.                                            *)
OnError(c, gen) == IF gen = c.gen THEN [c EXCEPT !.phase = "error"] ELSE c

(* Mutant: a cancelled job does not give way to the pending ticket.        *)
OnFinishedCancelledOnly(c, h) ==
  LET d == [c EXCEPT !.active = None]
  IN IF c.pending # None /\ ~c.active.cancelled THEN StartPending(d, h)
     ELSE IF c.cancelAsked THEN [d EXCEPT !.cancelAsked = FALSE, !.phase = "cancelled"] ELSE d

(* _on_finished: the pending ticket starts, or the user's cancel is shown. *)
OnFinished(c, h) ==
  LET d == [c EXCEPT !.active = None]
  IN IF c.pending # None THEN StartPending(d, h)
     ELSE IF c.cancelAsked THEN [d EXCEPT !.cancelAsked = FALSE, !.phase = "cancelled"] ELSE d

(* _on_stream_snapshot: only the current reader, of this generation.       *)
OnStreamSnapshot(c, stream, over, snapshot) ==
  IF c.down \/ stream # c.stream \/ stream # c.gen \/ c.ctx = None \/ snapshot.source # c.ctx THEN {c}
  ELSE Applied([c EXCEPT !.state = over], snapshot)

(* _on_stream_finished: of a reader that was replaced, nothing.            *)
OnStreamFinished(c, stream) == IF stream = c.stream THEN [c EXCEPT !.stream = None] ELSE c

(* One posted signal, in the order they were posted.                       *)
OnMessage(c, h, m) ==
  CASE m.type = "result" -> OnResult(c, m.ticket, m.value)
    [] m.type = "error" -> {OnError(c, m.ticket.gen)}
    [] m.type = "finished" -> {OnFinished(c, h)}
    [] m.type = "snapshot" -> OnStreamSnapshot(c, m.stream, m.over, m.value)
    [] m.type = "stream_error" -> {IF m.stream = c.stream THEN OnError(c, m.stream) ELSE c}
    [] m.type = "stream_finished" -> {OnStreamFinished(c, m.stream)}

(* The accumulator that comes with the result of a rebuild that counts.    *)
Delivered(c, m, h) ==
  IF m.type = "result" /\ m.ticket.kind = "rebuild" /\ ResultCounts(c, m.ticket)
  THEN [g \in DOMAIN h \cup {m.ticket.gen} |-> IF g = m.ticket.gen THEN m.value ELSE h[g]] ELSE h

(* The accumulators after a step: a rebuild that counts brings a new one,  *)
(* and one that nobody refers to is gone.                                  *)
Kept(c, h) ==
  [g \in {x \in DOMAIN h : \/ x = c.state
                           \/ c.active # None /\ c.active.over = x
                           \/ \E s \in DOMAIN c.streams : c.streams[s].over = x} |-> h[g]]

-----------------------------------------------------------------------------
(* The workers, on pool threads.                                           *)

TaskFinished == [type |-> "finished"]

(* TaskWorker.run of a bounded job: a cancelled one posts no result.       *)
JobCancelled ==
  /\ hc.active.cancelled
  /\ inbox' = Append(inbox, TaskFinished)
  /\ UNCHANGED heap

(* _run_rebuild_job, _run_fixed_job                                        *)
JobBuilds ==
  /\ ~hc.active.cancelled /\ hc.active.ticket.kind # "advance"
  /\ inbox' = inbox \o <<[type |-> "result", ticket |-> hc.active.ticket,
                          value |-> IF hc.active.ticket.kind = "fixed" THEN None
                                    ELSE Rebuilt(hc.active.ticket)], TaskFinished>>
  /\ UNCHANGED heap

(* _run_advance_job, forward only                                          *)
JobAdvances ==
  /\ ~hc.active.cancelled /\ hc.active.ticket.kind = "advance"
  /\ LET frame == hc.active.ticket.frame
         behind == frame < heap[hc.active.over].at
     IN /\ heap' = [heap EXCEPT ![hc.active.over] = IF behind THEN @ ELSE Decayed(@, frame)]
        /\ inbox' = inbox \o <<[type |-> "result", ticket |-> hc.active.ticket,
                                value |-> IF behind THEN None
                                          ELSE SnapshotOf(heap'[hc.active.over], hc.active.ticket.gen)],
                               TaskFinished>>

Fail(kind) == kind \in Failing \ failed /\ failed' = failed \cup {kind}

(* The recording cannot be read, or no frame falls into the window.        *)
JobFails ==
  /\ Fail("job")
  /\ ~hc.active.cancelled
  /\ inbox' = inbox \o <<[type |-> "error", ticket |-> hc.active.ticket], TaskFinished>>
  /\ UNCHANGED heap

RunJob ==
  /\ hc.active # None /\ ~hc.active.done
  /\ \/ (JobCancelled \/ JobBuilds \/ JobAdvances) /\ UNCHANGED failed
     \/ JobFails
  /\ hc' = [hc EXCEPT !.active.done = TRUE]

(* run of the stream reader: the chunk up to the newest target is derived  *)
(* from the accumulator.  Somebody may be reading into it already.         *)
ReadChunk(g) ==
  LET w == hc.streams[g]
      first == heap[w.over].at + 1
  IN /\ ~w.reading /\ ~w.cancelled /\ w.high >= first
     /\ hc' = [hc EXCEPT !.streams[g] =
                 [@ EXCEPT !.reading = TRUE, !.first = first,
                           !.end = IF w.high < first + Chunk THEN w.high ELSE first + Chunk - 1]]
     /\ heap' = [heap EXCEPT ![w.over].shared =
                   @ \/ \E o \in DOMAIN hc.streams \ {g} : hc.streams[o].over = w.over /\ hc.streams[o].reading]
     /\ UNCHANGED inbox

(* advance_exact_range: the chunk is committed, and a snapshot of the      *)
(* target, or of a prefix when it is time for one, is posted.              *)
CommitChunk(g) ==
  LET w == hc.streams[g]
      advanced == Advanced(heap[w.over], w.first, w.end)
  IN /\ w.reading /\ ~w.cancelled /\ RingHasRoom(heap[w.over].rows, w.first, w.end)
     /\ heap' = [heap EXCEPT ![w.over] = advanced]
     /\ hc' = [hc EXCEPT !.streams[g].reading = FALSE]
     /\ \/ w.end < w.high /\ UNCHANGED inbox
        \/ inbox' = Append(inbox, [type |-> "snapshot", stream |-> g, over |-> w.over,
                                     value |-> SnapshotOf(advanced, g)])

(* A cancelled reader keeps the exact prefix it has consumed.              *)
AbandonChunk(g) ==
  LET w == hc.streams[g]
  IN /\ w.reading /\ w.cancelled
     /\ \/ UNCHANGED heap
        \/ \E upto \in w.first .. w.end :
             /\ RingHasRoom(heap[w.over].rows, w.first, upto)
             /\ heap' = [heap EXCEPT ![w.over] = Advanced(@, w.first, upto)]
     /\ hc' = [hc EXCEPT !.streams[g].reading = FALSE]
     /\ UNCHANGED inbox

WithoutStream(g) == [hc EXCEPT !.streams = [o \in DOMAIN @ \ {g} |-> @[o]]]

(* A frame cannot be read, or the ring has no room: the reader ends.       *)
FailChunk(g) ==
  /\ Fail("reader")
  /\ hc.streams[g].reading /\ ~hc.streams[g].cancelled
  /\ inbox' = inbox \o <<[type |-> "stream_error", stream |-> g], [type |-> "stream_finished", stream |-> g]>>
  /\ hc' = WithoutStream(g) /\ heap' = Kept(hc', heap)

EndStream(g) ==
  /\ ~hc.streams[g].reading /\ hc.streams[g].cancelled
  /\ inbox' = Append(inbox, [type |-> "stream_finished", stream |-> g])
  /\ hc' = WithoutStream(g) /\ heap' = Kept(hc', heap)

RunStream(g) ==
  \/ (ReadChunk(g) \/ CommitChunk(g) \/ AbandonChunk(g) \/ EndStream(g)) /\ UNCHANGED failed
  \/ FailChunk(g)

Work == RunJob \/ \E g \in DOMAIN hc.streams : RunStream(g)

InitHeatmap == hc = NewController /\ heap = << >> /\ inbox = << >> /\ failed = {}
=============================================================================
