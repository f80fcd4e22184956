---------------------------- MODULE HeatmapProofs ----------------------------
(***************************************************************************)
(* A rolling density counts every frame of its window once, and the layer  *)
(* lies over the waterfall it was computed from: for every set of sessions *)
(* and those without timestamps, every number of frames, every window, and *)
(* any commands, moves and failures.                                       *)
(*                                                                         *)
(* The invariant (Fits) is about a controller, its accumulators and the    *)
(* messages on their way to it, as a handler makes several calls of the    *)
(* controller before the step is over.  An accumulator counts the window   *)
(* of the frame it has reached; a reader that is inside a batch is alone   *)
(* with its accumulator and starts where that one ends, unless the         *)
(* accumulator is shared (ReadersFit).  What makes it so is that an        *)
(* accumulator comes into being once: of the rebuild that a generation     *)
(* asks for there is one ticket, one job and one result, and no reader     *)
(* before it (Once), because the results of a job come in order and before *)
(* its end (JobInOrder), and the next one starts after it.                 *)
(*                                                                         *)
(* First what a batch of frames does to a window; then every method of the *)
(* controller, every message and every step of a worker, each keeping Fits *)
(* and applying nothing that is not current; then the steps of the         *)
(* workspace, with what the layer shows.                                   *)
(***************************************************************************)
EXTENDS HeatmapPresenter, SequenceTheorems, TLAPS

(* A snapshot whose rolling density counts its window.                     *)
IsExact(s) == s.mode = "rolling" /\ ~s.shared => s.rows = ExactWindow(s.frame)

(* An accumulator, as a rebuild makes it and as readers leave it.          *)
IsAccumulator(a) ==
  /\ a = [source |-> a.source, mode |-> a.mode, at |-> a.at, rows |-> a.rows, shared |-> a.shared]
  /\ a.source \in Names /\ a.mode \in Modes /\ a.at \in Nat /\ a.shared \in BOOLEAN
  /\ a.mode = "rolling" /\ ~a.shared => a.rows = ExactWindow(a.at)

Fields ==
  {"ctx", "gen", "enabled", "down", "mode", "state", "active", "pending", "stream", "streams",
   "desired", "applied", "phase", "cancelAsked", "toRender", "cached", "out"}

IsRecord(c) == c = [x \in Fields |-> c[x]]

(* Two controllers that differ in the fields of a set at most.             *)
Keeps(c, d, changed) == \A x \in Fields \ changed : d[x] = c[x]

AreStreams(streams) ==
  /\ streams = [g \in DOMAIN streams |-> streams[g]]
  /\ DOMAIN streams \subseteq Nat
  /\ \A g \in DOMAIN streams : streams[g] \in Readers

IsController(c) ==
  /\ IsRecord(c)
  /\ c.ctx \in Names /\ c.gen \in Nat /\ c.mode \in Modes /\ c.state \in Nat \cup {None}
  /\ c.active \in Tasks \cup {None} /\ c.pending \in Tickets \cup {None}
  /\ c.stream \in Nat \cup {None} /\ c.desired \in Nat \cup {None}
  /\ AreStreams(c.streams)

-----------------------------------------------------------------------------
(* The window of the accumulator.                                          *)

(* Where a window starts: at its target or before.                         *)
LEMMA WindowStarts ==
  ASSUME NEW t \in Nat
  PROVE  WindowStart(t) \in 0 .. t /\ (t >= Window => WindowStart(t) = t - Window + 1)
         /\ (t < Window => WindowStart(t) = 0) /\ Window \in Nat \ {0}
  BY HeatmapAssumption DEF WindowStart

(* The k numbers from m on.                                                *)
IsRun(f, m, k) == f \in Seq(Nat) /\ Len(f) = k /\ \A i \in 1 .. k : f[i] = m + i - 1

LEMMA FramesAre ==
  ASSUME NEW m \in Nat, NEW n \in Int, NEW k \in Nat, k = n - m + 1,
         NEW f, f = FramesFrom(m, n)
  PROVE  IsRun(f, m, k)
  <1>1. f = [i \in 1 .. k |-> m + i - 1] BY DEF FramesFrom
  <1>2. f \in [1 .. k -> Nat] BY <1>1
  <1> QED BY <1>1, <1>2 DEF IsRun

(* What is left of a window at its target, when frames up to end come in.  *)
LEMMA WindowEvicts ==
  ASSUME NEW t \in Nat, NEW end \in Nat, t < end,
         NEW rows, rows = ExactWindow(t)
  PROVE  Evicted(rows, end) =
           FramesFrom(IF WindowStart(end) <= t THEN WindowStart(end) ELSE t + 1, t)
  <1> DEFINE ws == WindowStart(t)
             new == WindowStart(end)
             kept == {i \in 1 .. Len(rows) : rows[i] >= new}
  <1>1. ws \in 0 .. t /\ new \in 0 .. end /\ ws <= new BY WindowStarts
  <1>2. /\ rows \in Seq(Nat) /\ Len(rows) = t - ws + 1
        /\ \A i \in 1 .. (t - ws + 1) : rows[i] = ws + i - 1
    <2>1. ws \in Nat /\ t \in Int /\ t - ws + 1 \in Nat /\ rows = FramesFrom(ws, t)
      BY <1>1 DEF ExactWindow
    <2> HIDE DEF ws
    <2>2. IsRun(rows, ws, t - ws + 1) BY <2>1, FramesAre
    <2> QED BY <2>2 DEF IsRun
  <1>3. kept = {i \in 1 .. (t - ws + 1) : ws + i - 1 >= new} BY <1>2
  <1>4. Evicted(rows, end) = IF kept = {} THEN << >> ELSE SubSeq(rows, Min(kept), Len(rows))
    BY DEF Evicted
  <1> HIDE DEF kept
  <1>5. CASE new <= t
    <2> DEFINE k == new - ws + 1
    <2>1. k \in 1 .. (t - ws + 1) /\ k \in kept BY <1>1, <1>3, <1>5
    <2>2. \A i \in kept : k <= i BY <1>1, <1>3
    <2>3. \A m \in kept : (\A i \in kept : m <= i) => m = k
      <3>1. TAKE m \in kept
      <3>2. HAVE \A i \in kept : m <= i
      <3>3. m <= k /\ k <= m BY <2>1, <2>2, <3>2
      <3>4. m \in Nat /\ k \in Nat BY <1>1, <1>3, <2>1
      <3> QED BY <3>3, <3>4
    <2>4. Min(kept) = k BY <2>1, <2>2, <2>3 DEF Min
    <2>5. Evicted(rows, end) = SubSeq(rows, k, t - ws + 1)
      BY <1>2, <1>4, <2>1, <2>4
    <2>6. /\ SubSeq(rows, k, t - ws + 1) \in Seq(Nat)
          /\ Len(SubSeq(rows, k, t - ws + 1)) = t - new + 1
          /\ \A i \in 1 .. (t - new + 1) : SubSeq(rows, k, t - ws + 1)[i] = rows[k + i - 1]
      <3>1. k \in Int /\ t - ws + 1 \in Int /\ \A i \in k .. (t - ws + 1) : rows[i] \in Nat
        <4>1. k \in Int /\ 1 <= k /\ t - ws + 1 \in Int BY <1>1, <2>1
        <4>2. \A i \in 1 .. (t - ws + 1) : rows[i] \in Nat BY <1>2
        <4> HIDE DEF k, ws
        <4> QED BY <4>1, <4>2
      <3>2. (t - ws + 1) - k + 1 = t - new + 1 /\ k <= t - ws + 1 BY <1>1, <2>1
      <3> QED BY <3>1, <3>2, SubSeqProperties
    <2>7. /\ FramesFrom(new, t) \in Seq(Nat) /\ Len(FramesFrom(new, t)) = t - new + 1
          /\ \A i \in 1 .. (t - new + 1) : FramesFrom(new, t)[i] = new + i - 1
      <3>1. new \in Nat /\ t \in Int /\ t - new + 1 \in Nat BY <1>1, <1>5
      <3> HIDE DEF new
      <3>2. IsRun(FramesFrom(new, t), new, t - new + 1) BY <3>1, FramesAre
      <3> QED BY <3>2 DEF IsRun
    <2>8. \A i \in 1 .. (t - new + 1) : rows[k + i - 1] = new + i - 1
      <3>1. TAKE i \in 1 .. (t - new + 1)
      <3>2. k + i - 1 \in 1 .. (t - ws + 1) /\ ws + (k + i - 1) - 1 = new + i - 1
        BY <1>1
      <3> QED BY <1>2, <3>2
    <2>9. SubSeq(rows, k, t - ws + 1) = FramesFrom(new, t)
      <3> DEFINE left == SubSeq(rows, k, t - ws + 1)
                 wanted == FramesFrom(new, t)
      <3>1. /\ left \in Seq(Nat) /\ wanted \in Seq(Nat) /\ Len(left) = Len(wanted)
            /\ \A i \in 1 .. Len(left) : left[i] = wanted[i]
        BY <2>6, <2>7, <2>8
      <3> HIDE DEF left, wanted
      <3>2. left = wanted BY <3>1, SeqEqual
      <3> QED BY <3>2 DEF left, wanted
    <2> QED BY <1>5, <2>5, <2>9
  <1>6. CASE ~(new <= t)
    <2>1. kept = {} BY <1>1, <1>3, <1>6
    <2>2. t + 1 \in Nat /\ t \in Int /\ 0 = t - (t + 1) + 1 /\ 0 \in Nat
      OBVIOUS
    <2>3. IsRun(FramesFrom(t + 1, t), t + 1, 0) BY <2>2, FramesAre
    <2>4. FramesFrom(t + 1, t) = << >> BY <2>3, EmptySeq DEF IsRun
    <2> QED BY <1>4, <1>6, <2>1, <2>4
  <1> QED BY <1>5, <1>6

(* A batch that follows the window it enters leaves the window of its end. *)
LEMMA WindowMoves ==
  ASSUME NEW t \in Nat, NEW end \in Nat, t < end, NEW rows, rows = ExactWindow(t),
         RingHasRoom(rows, t + 1, end)
  PROVE  Evicted(rows, end) \o FramesFrom(t + 1, end) = ExactWindow(end)
  <1> DEFINE new == WindowStart(end)
             m == IF new <= t THEN new ELSE t + 1
             e == Evicted(rows, end)
             f == FramesFrom(t + 1, end)
  <1>1. new \in 0 .. end /\ (end >= Window => new = end - Window + 1) /\ (end < Window => new = 0)
        /\ Window \in Nat \ {0}
    BY WindowStarts
  <1>2. e = FramesFrom(m, t) BY WindowEvicts
  <1>3. m \in Nat /\ m <= t + 1 BY <1>1
  <1>4. /\ e \in Seq(Nat) /\ Len(e) = t - m + 1
        /\ \A i \in 1 .. (t - m + 1) : e[i] = m + i - 1
    <2>1. t \in Int /\ t - m + 1 \in Nat BY <1>3
    <2> HIDE DEF m, e
    <2>2. IsRun(e, m, t - m + 1) BY <1>2, <1>3, <2>1, FramesAre
    <2> QED BY <2>2 DEF IsRun
  <1>5. /\ f \in Seq(Nat) /\ Len(f) = end - t
        /\ \A i \in 1 .. (end - t) : f[i] = t + i
    <2>1. t + 1 \in Nat /\ end \in Int /\ end - t \in Nat /\ end - t = end - (t + 1) + 1
      OBVIOUS
    <2> HIDE DEF f
    <2>2. f = FramesFrom(t + 1, end) BY DEF f
    <2>3. IsRun(f, t + 1, end - t) BY <2>1, <2>2, FramesAre
    <2>4. \A i \in 1 .. (end - t) : (t + 1) + i - 1 = t + i OBVIOUS
    <2> QED BY <2>3, <2>4 DEF IsRun
  <1>6. (t - m + 1) + (end - t) <= Window
    <2>1. Len(e) + (end - (t + 1) + 1) <= Window BY DEF RingHasRoom
    <2> HIDE DEF e, m
    <2> QED BY <1>1, <1>3, <1>4, <2>1
  <1>7. m = new BY <1>1, <1>3, <1>6
  <1> HIDE DEF m, e, f
  <1>8. /\ ExactWindow(end) \in Seq(Nat) /\ Len(ExactWindow(end)) = end - new + 1
        /\ \A i \in 1 .. (end - new + 1) : ExactWindow(end)[i] = new + i - 1
    <2>1. new \in Nat /\ end \in Int /\ end - new + 1 \in Nat /\ ExactWindow(end) = FramesFrom(new, end)
      BY <1>1 DEF ExactWindow
    <2> HIDE DEF new
    <2>2. IsRun(ExactWindow(end), new, end - new + 1) BY <2>1, FramesAre
    <2> QED BY <2>2 DEF IsRun
  <1>9. /\ e \o f \in Seq(Nat) /\ Len(e \o f) = Len(e) + Len(f)
        /\ \A i \in 1 .. Len(e) + Len(f) : (e \o f)[i] = IF i <= Len(e) THEN e[i] ELSE f[i - Len(e)]
    BY <1>4, <1>5, ConcatProperties
  <1>10. Len(e) + Len(f) = end - new + 1 BY <1>1, <1>3, <1>4, <1>5, <1>7
  <1>11. \A i \in 1 .. (end - new + 1) : (e \o f)[i] = new + i - 1
    <2>1. TAKE i \in 1 .. (end - new + 1)
    <2>2. CASE i <= Len(e) BY <1>3, <1>4, <1>7, <1>9, <1>10, <2>2
    <2>3. CASE ~(i <= Len(e))
      <3>1. i - Len(e) \in 1 .. (end - t) /\ t + (i - Len(e)) = new + i - 1
        <4>1. Len(e) = t - new + 1 /\ new \in Nat /\ i \in Int /\ i <= end - new + 1
          BY <1>1, <1>4, <1>7
        <4> HIDE DEF new
        <4>2. i - (t - new + 1) \in 1 .. (end - t) /\ t + (i - (t - new + 1)) = new + i - 1
          BY <2>3, <4>1
        <4> QED BY <4>1, <4>2
      <3> QED BY <1>5, <1>9, <1>10, <2>3, <3>1
    <2> QED BY <2>2, <2>3
  <1>12. e \o f = ExactWindow(end) BY <1>8, <1>9, <1>10, <1>11, SeqEqual
  <1> QED BY <1>12 DEF e, f

-----------------------------------------------------------------------------
(* What holds of a controller c, the accumulators h and the messages b.    *)

(* A ticket of this generation is of this source and mode.                 *)
TicketFits(c, t) ==
  /\ t.gen <= c.gen
  /\ t.gen = c.gen => c.ctx # None /\ t.source = c.ctx /\ (t.kind = "rebuild" => t.mode = c.mode)

StateFits(c, h) ==
  c.state # None =>
    /\ c.state \in DOMAIN h
    /\ h[c.state].mode = c.mode /\ h[c.state].source = c.ctx /\ c.ctx # None

ActiveFits(c, h) ==
  c.active # None =>
    /\ TicketFits(c, c.active.ticket)
    /\ c.active.ticket.kind # "stream"
    /\ c.active.ticket.kind = "advance" =>
         /\ c.active.over \in DOMAIN h /\ h[c.active.over].mode = "decay"
         /\ c.active.ticket.gen = c.gen => h[c.active.over].source = c.ctx

PendingFits(c) ==
  c.pending # None =>
    /\ c.active # None
    /\ TicketFits(c, c.pending)
    /\ c.pending.kind = "advance" /\ c.pending.gen = c.gen => c.state # None /\ c.mode = "decay"

ReadersFit(c, h) ==
  \A g \in DOMAIN c.streams :
    /\ g <= c.gen
    /\ g = c.gen => c.stream = g /\ c.streams[g].over = c.state /\ c.mode = "rolling"
    /\ c.streams[g].over \in DOMAIN h /\ h[c.streams[g].over].mode = "rolling"
    /\ c.streams[g].reading =>
         /\ c.streams[g].first <= c.streams[g].end
         /\ ~h[c.streams[g].over].shared =>
              /\ c.streams[g].first = h[c.streams[g].over].at + 1
              /\ \A o \in DOMAIN c.streams :
                   c.streams[o].reading /\ c.streams[o].over = c.streams[g].over => o = g

HeapFits(c, h) ==
  /\ h = [g \in DOMAIN h |-> h[g]] /\ DOMAIN h \subseteq Nat
  /\ \A g \in DOMAIN h : g <= c.gen /\ IsAccumulator(h[g])
  /\ c.gen \in DOMAIN h => h[c.gen].mode = c.mode

JobTypes == {"result", "error", "finished"}

(* The messages of the one job: its end is the last of them.               *)
JobInOrder(c, b) ==
  /\ (\E i \in DOMAIN b : b[i].type \in JobTypes) => c.active # None /\ c.active.done
  /\ \A i \in DOMAIN b : b[i].type \in {"result", "error"} =>
       /\ b[i].ticket = c.active.ticket
       /\ \E j \in DOMAIN b : i < j /\ b[j].type = "finished"
  /\ \A i, j \in DOMAIN b : b[i].type = "finished" /\ b[j].type \in JobTypes => j <= i
  /\ \A i, j \in DOMAIN b : b[i].type = "result" /\ b[j].type = "result" => i = j

MessageFits(c, m) ==
  /\ m.type \in JobTypes \cup {"snapshot", "stream_error", "stream_finished"}
  /\ m.type = "result" =>
       /\ m.ticket \in Tickets /\ TicketFits(c, m.ticket)
       /\ m.ticket.kind = "rebuild" =>
            IsAccumulator(m.value) /\ m.value.source = m.ticket.source /\ m.value.mode = m.ticket.mode
       /\ m.ticket.kind = "advance" /\ m.value # None =>
            /\ m.value.mode = "decay" /\ m.value.gen = m.ticket.gen
            /\ m.ticket.gen = c.gen => m.value.source = c.ctx
  /\ m.type = "snapshot" =>
       /\ m.stream \in Nat /\ m.stream <= c.gen /\ IsExact(m.value) /\ m.value.gen = m.stream
       /\ m.stream = c.gen => c.state # None /\ m.over = c.state /\ c.mode = "rolling"
  /\ m.type = "stream_finished" =>
       /\ m.stream \in Nat /\ m.stream <= c.gen /\ m.stream \notin DOMAIN c.streams
       /\ m.stream = c.gen => c.stream = c.gen

(* A reader ends once.                                                     *)
EndsOnce(b) ==
  \A i, j \in DOMAIN b :
    b[i].type = "stream_finished" /\ b[j].type = "stream_finished" /\ b[i].stream = b[j].stream => i = j

(* What was never delivered of the rebuild of this generation.             *)
Rebuilding(c, b) ==
  \/ c.pending # None /\ c.pending.kind = "rebuild" /\ c.pending.gen = c.gen
  \/ /\ c.active # None /\ c.active.ticket.kind = "rebuild" /\ c.active.ticket.gen = c.gen
     /\ ~c.active.done \/ \E i \in DOMAIN b : b[i].type = "result"

Once(c, h, b) ==
  c.mode = "rolling" /\ Rebuilding(c, b) =>
    /\ c.gen \notin DOMAIN h
    /\ c.gen \notin DOMAIN c.streams
    /\ \A i \in DOMAIN b : b[i].type = "snapshot" => b[i].stream # c.gen
    /\ ~(/\ c.pending # None /\ c.pending.kind = "rebuild" /\ c.pending.gen = c.gen
         /\ c.active.ticket.kind = "rebuild" /\ c.active.ticket.gen = c.gen)

Values(b) == {b[i] : i \in DOMAIN b}

Fits(c, h, b) ==
  /\ b \in Seq(Values(b)) /\ EndsOnce(b)
  /\ IsController(c) /\ HeapFits(c, h)
  /\ StateFits(c, h) /\ ActiveFits(c, h) /\ PendingFits(c) /\ ReadersFit(c, h)
  /\ JobInOrder(c, b) /\ (\A i \in DOMAIN b : MessageFits(c, b[i])) /\ Once(c, h, b)
  /\ \A s \in {c.applied, c.toRender, c.out} : s # None => IsExact(s)

-----------------------------------------------------------------------------
(* The methods that cut back what the controller does.                     *)

(* d does what c did, or less of it, with readers and jobs cancelled.      *)
CutBack(c, d) ==
  /\ d.active = c.active \/ (c.active # None /\ d.active = [c.active EXCEPT !.cancelled = TRUE])
  /\ d.pending \in {c.pending, None} /\ d.stream \in {c.stream, None}
  /\ DOMAIN d.streams = DOMAIN c.streams
  /\ \A g \in DOMAIN c.streams :
       d.streams[g] \in {c.streams[g], [c.streams[g] EXCEPT !.cancelled = TRUE]}
  /\ d.state = None \/ (d.state = c.state /\ d.mode = c.mode /\ d.ctx = c.ctx)
  /\ \A s \in {d.applied, d.toRender, d.out} : s \in {c.applied, c.toRender, c.out, None}

LEMMA StopStreamIs ==
  ASSUME NEW c, IsController(c), NEW d, d = StopStream(c)
  PROVE  /\ IsController(d) /\ Keeps(c, d, {"stream", "streams"}) /\ CutBack(c, d)
         /\ d.stream = None
  <1> DEFINE new == [g \in DOMAIN c.streams |->
                       IF g = c.stream THEN [c.streams[g] EXCEPT !.cancelled = TRUE] ELSE c.streams[g]]
  <1>1. d = [c EXCEPT !.stream = None, !.streams = new] BY DEF StopStream
  <1>2. /\ DOMAIN new = DOMAIN c.streams /\ AreStreams(new)
        /\ \A g \in DOMAIN c.streams : new[g] \in {c.streams[g], [c.streams[g] EXCEPT !.cancelled = TRUE]}
    BY DEF IsController, AreStreams, Readers
  <1> HIDE DEF new
  <1>3. IsRecord(d) /\ Keeps(c, d, {"stream", "streams"}) /\ d.stream = None /\ d.streams = new
    BY <1>1 DEF IsController, IsRecord, Keeps, Fields
  <1>4. IsController(d) BY <1>2, <1>3 DEF IsController, Keeps, Fields
  <1>5. CutBack(c, d) BY <1>2, <1>3 DEF CutBack, Keeps, Fields
  <1> QED BY <1>3, <1>4, <1>5

LEMMA CancelTaskIs ==
  ASSUME NEW c, IsController(c), NEW d, d = CancelTask(c)
  PROVE  /\ IsController(d) /\ Keeps(c, d, {"active"}) /\ CutBack(c, d)
  <1>1. CASE c.active = None BY <1>1 DEF CancelTask, Keeps, CutBack
  <1>2. CASE c.active # None
    <2>1. c.active \in Tasks BY <1>2 DEF IsController
    <2>2. [c.active EXCEPT !.cancelled = TRUE] \in Tasks BY <2>1 DEF Tasks
    <2>3. d = [c EXCEPT !.active = [c.active EXCEPT !.cancelled = TRUE]]
      BY <1>2 DEF CancelTask
    <2>4. IsRecord(d) /\ Keeps(c, d, {"active"}) /\ d.active = [c.active EXCEPT !.cancelled = TRUE]
      BY <2>3 DEF IsController, IsRecord, Keeps, Fields
    <2>5. IsController(d) BY <2>2, <2>4 DEF IsController, Keeps, Fields
    <2>6. CutBack(c, d) BY <1>2, <2>4 DEF CutBack, Keeps, Fields
    <2> QED BY <2>4, <2>5, <2>6
  <1> QED BY <1>1, <1>2

LEMMA CutBackTwice ==
  ASSUME NEW c, NEW d, NEW e, IsController(c), IsController(d), IsController(e), CutBack(c, d), CutBack(d, e)
  PROVE  CutBack(c, e)
  <1>1. /\ e.active = c.active \/ (c.active # None /\ e.active = [c.active EXCEPT !.cancelled = TRUE])
    <2>1. c.active \in Tasks \cup {None} BY DEF IsController
    <2> QED BY <2>1 DEF CutBack, Tasks
  <1>2. \A g \in DOMAIN c.streams :
          e.streams[g] \in {c.streams[g], [c.streams[g] EXCEPT !.cancelled = TRUE]}
    <2>1. \A g \in DOMAIN c.streams : c.streams[g] \in Readers
      BY DEF IsController, AreStreams
    <2> QED BY <2>1 DEF CutBack, Readers
  <1>3. /\ e.pending \in {c.pending, None} /\ e.stream \in {c.stream, None}
        /\ DOMAIN e.streams = DOMAIN c.streams
        /\ e.state = None \/ (e.state = c.state /\ e.mode = c.mode /\ e.ctx = c.ctx)
        /\ \A s \in {e.applied, e.toRender, e.out} : s \in {c.applied, c.toRender, c.out, None}
    BY DEF CutBack
  <1> QED BY <1>1, <1>2, <1>3 DEF CutBack

(* Of the generation there is nothing yet.                                 *)
NothingYet(c, h, b) ==
  /\ c.gen \notin DOMAIN h /\ c.gen \notin DOMAIN c.streams
  /\ \A i \in DOMAIN b : b[i].type = "snapshot" => b[i].stream # c.gen

Fresh(c, h, b) ==
  NothingYet(c, h, b) /\ (c.active # None => c.active.ticket.gen # c.gen)

(* The work that is cut back belongs to earlier generations.               *)
LEMMA CutBackFits ==
  ASSUME NEW c, NEW d, NEW h, NEW b, Fits(c, h, b), IsController(d), CutBack(c, d), c.gen < d.gen
  PROVE  Fits(d, h, b) /\ Fresh(d, h, b)
  <1>1. /\ IsController(c) /\ c.gen \in Nat /\ d.gen \in Nat
        /\ c.active # None => c.active \in Tasks
        /\ d.active # None => d.active \in Tasks
        /\ c.pending # None => c.pending \in Tickets
    BY DEF Fits, IsController
  <1>2. /\ d.active = None <=> c.active = None
        /\ c.active # None => /\ d.active.ticket = c.active.ticket /\ d.active.over = c.active.over
                              /\ d.active.done = c.active.done
                              /\ c.active.ticket \in Tickets
    <2>1. CASE d.active = c.active BY <1>1, <2>1 DEF Tasks
    <2>2. CASE c.active # None /\ d.active = [c.active EXCEPT !.cancelled = TRUE]
      <3>1. c.active \in Tasks BY <1>1, <2>2
      <3>2. d.active \in Tasks BY <2>2, <3>1 DEF Tasks
      <3>3. None \notin Tasks BY HeatmapAssumption
      <3> QED BY <2>2, <3>1, <3>2, <3>3 DEF Tasks
    <2> QED BY <2>1, <2>2 DEF CutBack
  <1>3. \A t \in Tickets : TicketFits(c, t) => TicketFits(d, t) /\ t.gen # d.gen
    BY <1>1 DEF TicketFits, Tickets
  <1>4. HeapFits(d, h) /\ d.gen \notin DOMAIN h
    <2>1. \A g \in DOMAIN h : g \in Nat /\ g <= c.gen BY DEF Fits, HeapFits
    <2>2. \A g \in DOMAIN h : g <= d.gen /\ g # d.gen BY <1>1, <2>1
    <2> QED BY <2>2 DEF Fits, HeapFits
  <1>5. StateFits(d, h) BY DEF Fits, StateFits, CutBack
  <1>6. ActiveFits(d, h) /\ (d.active # None => d.active.ticket.gen # d.gen)
    <2>1. ActiveFits(c, h) BY DEF Fits
    <2> QED BY <1>2, <1>3, <2>1 DEF ActiveFits
  <1>7. PendingFits(d) /\ (d.pending # None => d.pending.gen # d.gen)
    <2>1. PendingFits(c) BY DEF Fits
    <2>2. d.pending \in {c.pending, None} BY DEF CutBack
    <2> QED BY <1>1, <1>2, <1>3, <2>1, <2>2 DEF PendingFits
  <1>8. /\ DOMAIN d.streams = DOMAIN c.streams
        /\ \A g \in DOMAIN c.streams :
             /\ d.streams[g].over = c.streams[g].over /\ d.streams[g].first = c.streams[g].first
             /\ d.streams[g].end = c.streams[g].end /\ d.streams[g].reading = c.streams[g].reading
    <2>1. \A g \in DOMAIN c.streams : c.streams[g] \in Readers
      BY <1>1 DEF IsController, AreStreams
    <2> QED BY <2>1 DEF CutBack, Readers
  <1>9. ReadersFit(d, h) /\ d.gen \notin DOMAIN d.streams
    <2>1. ReadersFit(c, h) /\ DOMAIN c.streams \subseteq Nat
      BY <1>1 DEF Fits, IsController, AreStreams
    <2>2. \A g \in DOMAIN c.streams : g \in Nat /\ g <= d.gen /\ g # d.gen
      BY <1>1, <2>1 DEF ReadersFit
    <2> QED BY <1>8, <2>1, <2>2 DEF ReadersFit
  <1>10. JobInOrder(d, b)
    <2>1. JobInOrder(c, b) BY DEF Fits
    <2> QED BY <1>2, <2>1 DEF JobInOrder
  <1>11. \A i \in DOMAIN b : MessageFits(d, b[i]) /\ (b[i].type = "snapshot" => b[i].stream # d.gen)
    <2>1. TAKE i \in DOMAIN b
    <2>2. MessageFits(c, b[i]) BY DEF Fits
    <2>3. CASE b[i].type = "result" BY <1>3, <2>2, <2>3 DEF MessageFits
    <2>4. CASE b[i].type = "snapshot"
      <3>1. b[i].stream \in Nat /\ b[i].stream <= c.gen
        BY <2>2, <2>4 DEF MessageFits
      <3>2. b[i].stream <= d.gen /\ b[i].stream # d.gen BY <1>1, <3>1
      <3> QED BY <2>2, <2>4, <3>2 DEF MessageFits
    <2>5. CASE b[i].type = "stream_finished"
      <3>1. /\ b[i].stream \in Nat /\ b[i].stream <= c.gen
            /\ b[i].stream \notin DOMAIN c.streams
        BY <2>2, <2>5 DEF MessageFits
      <3>2. b[i].stream <= d.gen /\ b[i].stream # d.gen /\ b[i].stream \notin DOMAIN d.streams
        BY <1>1, <1>8, <3>1
      <3> QED BY <2>5, <3>1, <3>2 DEF MessageFits, JobTypes
    <2>6. CASE b[i].type \notin {"result", "snapshot", "stream_finished"}
      BY <2>2, <2>6 DEF MessageFits
    <2> QED BY <2>3, <2>4, <2>5, <2>6
  <1>12. Once(d, h, b) BY <1>4, <1>6, <1>7, <1>9, <1>11 DEF Once, Rebuilding
  <1>13. \A s \in {d.applied, d.toRender, d.out} : s # None => IsExact(s)
    BY DEF Fits, CutBack
  <1>14. Fresh(d, h, b) BY <1>4, <1>6, <1>9, <1>11 DEF Fresh, NothingYet
  <1> QED
    BY <1>4, <1>5, <1>6, <1>7, <1>9, <1>10, <1>11, <1>12, <1>13, <1>14 DEF Fits

-----------------------------------------------------------------------------
(* One field or two of the controller are given new values.                *)

Aside == {"enabled", "down", "desired", "phase", "cancelAsked", "cached"}

LEMMA AsideFits ==
  ASSUME NEW c, NEW d, NEW h, NEW b, Fits(c, h, b), IsRecord(d), Keeps(c, d, Aside),
         d.desired \in Nat \cup {None}
  PROVE  Fits(d, h, b) /\ (Fresh(c, h, b) => Fresh(d, h, b))
  <1>1. /\ d.ctx = c.ctx /\ d.gen = c.gen /\ d.mode = c.mode /\ d.state = c.state
        /\ d.active = c.active /\ d.pending = c.pending /\ d.stream = c.stream
        /\ d.streams = c.streams /\ d.applied = c.applied /\ d.toRender = c.toRender /\ d.out = c.out
    BY DEF Keeps, Fields, Aside
  <1>2. IsController(d) BY <1>1 DEF Fits, IsController
  <1>3. HeapFits(d, h) /\ StateFits(d, h) /\ ActiveFits(d, h) /\ PendingFits(d) /\ ReadersFit(d, h)
    BY <1>1 DEF Fits, HeapFits, StateFits, ActiveFits, PendingFits, ReadersFit, TicketFits
  <1>4. JobInOrder(d, b) /\ Once(d, h, b)
    BY <1>1 DEF Fits, JobInOrder, Once, Rebuilding
  <1>5. \A i \in DOMAIN b : MessageFits(d, b[i])
    BY <1>1 DEF Fits, MessageFits, TicketFits
  <1>6. \A s \in {d.applied, d.toRender, d.out} : s # None => IsExact(s)
    BY <1>1 DEF Fits
  <1>7. Fresh(c, h, b) => Fresh(d, h, b) BY <1>1 DEF Fresh, NothingYet
  <1> QED BY <1>2, <1>3, <1>4, <1>5, <1>6, <1>7 DEF Fits

LEMMA DroppedFits ==
  ASSUME NEW c, NEW d, NEW h, NEW b, Fits(c, h, b), d = [c EXCEPT !.pending = None]
  PROVE  /\ Fits(d, h, b) /\ Keeps(c, d, {"pending"}) /\ d.pending = None
         /\ Fresh(c, h, b) => Fresh(d, h, b)
  <1>1. IsRecord(d) /\ Keeps(c, d, {"pending"}) /\ d.pending = None
    BY DEF Fits, IsController, IsRecord, Keeps, Fields
  <1>2. /\ d.ctx = c.ctx /\ d.gen = c.gen /\ d.mode = c.mode /\ d.state = c.state
        /\ d.active = c.active /\ d.stream = c.stream /\ d.desired = c.desired
        /\ d.streams = c.streams /\ d.applied = c.applied /\ d.toRender = c.toRender /\ d.out = c.out
    BY <1>1 DEF Keeps, Fields
  <1>3. IsController(d) BY <1>1, <1>2 DEF Fits, IsController
  <1>4. HeapFits(d, h) /\ StateFits(d, h) /\ ActiveFits(d, h) /\ PendingFits(d) /\ ReadersFit(d, h)
    BY <1>1, <1>2 DEF Fits, HeapFits, StateFits, ActiveFits, PendingFits, ReadersFit, TicketFits
  <1>5. JobInOrder(d, b) /\ Once(d, h, b)
    BY <1>1, <1>2 DEF Fits, JobInOrder, Once, Rebuilding
  <1>6. \A i \in DOMAIN b : MessageFits(d, b[i])
    BY <1>2 DEF Fits, MessageFits, TicketFits
  <1>7. \A s \in {d.applied, d.toRender, d.out} : s # None => IsExact(s)
    BY <1>2 DEF Fits
  <1>8. Fresh(c, h, b) => Fresh(d, h, b) BY <1>2 DEF Fresh, NothingYet
  <1> QED BY <1>1, <1>3, <1>4, <1>5, <1>6, <1>7, <1>8 DEF Fits

(* A ticket that the controller may wait with, or run.                     *)
MayRun(c, h, b, t) ==
  /\ t \in Tickets /\ TicketFits(c, t)
  /\ t.kind = "advance" /\ t.gen = c.gen => c.state # None /\ c.mode = "decay"
  /\ t.kind = "rebuild" /\ t.gen = c.gen /\ c.mode = "rolling" => NothingYet(c, h, b)

LEMMA LaunchedFits ==
  ASSUME NEW c, NEW d, NEW h, NEW b, NEW t, Fits(c, h, b), c.active = None, MayRun(c, h, b, t),
         t.kind # "stream", t.kind = "advance" => t.gen = c.gen, d = Launched(c, t)
  PROVE  Fits(d, h, b) /\ Keeps(c, d, {"active"}) /\ d.active # None
  <1> DEFINE a == [ticket |-> t, over |-> c.state, cancelled |-> FALSE, done |-> FALSE]
  <1>1. a \in Tasks /\ a # None
    <2>1. t \in Tickets /\ c.state \in Nat \cup {None}
      BY DEF MayRun, Fits, IsController
    <2>2. a \in Tasks BY <2>1 DEF Tasks
    <2>3. None \notin Tasks BY HeatmapAssumption
    <2> HIDE DEF a
    <2> QED BY <2>2, <2>3
  <1>2. a.ticket = t /\ a.over = c.state /\ a.done = FALSE OBVIOUS
  <1>3. d = [c EXCEPT !.active = a] BY DEF Launched
  <1> HIDE DEF a
  <1>4. IsRecord(d) /\ Keeps(c, d, {"active"}) /\ d.active = a
    BY <1>3 DEF Fits, IsController, IsRecord, Keeps, Fields
  <1>5. /\ d.ctx = c.ctx /\ d.gen = c.gen /\ d.mode = c.mode /\ d.state = c.state
        /\ d.pending = c.pending /\ d.stream = c.stream /\ d.desired = c.desired
        /\ d.streams = c.streams /\ d.applied = c.applied /\ d.toRender = c.toRender /\ d.out = c.out
    BY <1>4 DEF Keeps, Fields
  <1>6. IsController(d) BY <1>1, <1>4, <1>5 DEF Fits, IsController
  <1>7. c.pending = None BY DEF Fits, PendingFits
  <1>8. HeapFits(d, h) /\ StateFits(d, h) /\ PendingFits(d) /\ ReadersFit(d, h)
    BY <1>5, <1>7 DEF Fits, HeapFits, StateFits, PendingFits, ReadersFit
  <1>9. ActiveFits(d, h)
    BY <1>2, <1>4, <1>5 DEF Fits, ActiveFits, StateFits, MayRun, TicketFits
  <1>10. \A i \in DOMAIN b : b[i].type \notin JobTypes BY DEF Fits, JobInOrder
  <1>11. JobInOrder(d, b) BY <1>10 DEF JobInOrder, JobTypes
  <1>12. Once(d, h, b)
    <2>1. CASE t.kind = "rebuild" /\ t.gen = c.gen /\ c.mode = "rolling"
      BY <1>5, <1>7, <2>1 DEF MayRun, NothingYet, Once
    <2>2. CASE ~(t.kind = "rebuild" /\ t.gen = c.gen /\ c.mode = "rolling")
      BY <1>2, <1>4, <1>5, <1>7, <2>2 DEF Once, Rebuilding
    <2> QED BY <2>1, <2>2
  <1>13. \A i \in DOMAIN b : MessageFits(d, b[i])
    BY <1>5 DEF Fits, MessageFits, TicketFits
  <1>14. \A s \in {d.applied, d.toRender, d.out} : s # None => IsExact(s)
    BY <1>5 DEF Fits
  <1> QED BY <1>1, <1>4, <1>6, <1>8, <1>9, <1>11, <1>12, <1>13, <1>14 DEF Fits

LEMMA WaitsFits ==
  ASSUME NEW c, NEW d, NEW h, NEW b, NEW t, Fits(c, h, b), c.active # None, MayRun(c, h, b, t),
         ~(/\ t.kind = "rebuild" /\ t.gen = c.gen /\ c.mode = "rolling"
           /\ c.active.ticket.kind = "rebuild" /\ c.active.ticket.gen = c.gen),
         d = [c EXCEPT !.pending = t]
  PROVE  Fits(d, h, b) /\ Keeps(c, d, {"pending"})
  <1>1. IsRecord(d) /\ Keeps(c, d, {"pending"}) /\ d.pending = t
    BY DEF Fits, IsController, IsRecord, Keeps, Fields
  <1>2. /\ d.ctx = c.ctx /\ d.gen = c.gen /\ d.mode = c.mode /\ d.state = c.state
        /\ d.active = c.active /\ d.stream = c.stream /\ d.desired = c.desired
        /\ d.streams = c.streams /\ d.applied = c.applied /\ d.toRender = c.toRender /\ d.out = c.out
    BY <1>1 DEF Keeps, Fields
  <1>3. IsController(d) BY <1>1, <1>2 DEF Fits, IsController, MayRun
  <1>4. HeapFits(d, h) /\ StateFits(d, h) /\ ActiveFits(d, h) /\ ReadersFit(d, h)
    BY <1>2 DEF Fits, HeapFits, StateFits, ActiveFits, ReadersFit, TicketFits
  <1>5. PendingFits(d) BY <1>1, <1>2 DEF PendingFits, MayRun, TicketFits
  <1>6. JobInOrder(d, b) BY <1>2 DEF Fits, JobInOrder
  <1>7. Once(d, h, b)
    <2>1. CASE t.kind = "rebuild" /\ t.gen = c.gen /\ c.mode = "rolling"
      BY <1>1, <1>2, <2>1 DEF MayRun, NothingYet, Once
    <2>2. CASE ~(t.kind = "rebuild" /\ t.gen = c.gen /\ c.mode = "rolling")
      BY <1>1, <1>2, <2>2 DEF Fits, Once, Rebuilding
    <2> QED BY <2>1, <2>2
  <1>8. \A i \in DOMAIN b : MessageFits(d, b[i])
    BY <1>2 DEF Fits, MessageFits, TicketFits
  <1>9. \A s \in {d.applied, d.toRender, d.out} : s # None => IsExact(s)
    BY <1>2 DEF Fits
  <1> QED BY <1>1, <1>3, <1>4, <1>5, <1>6, <1>7, <1>8, <1>9 DEF Fits

LEMMA CancelledFits ==
  ASSUME NEW c, NEW d, NEW h, NEW b, Fits(c, h, b), d = CancelTask(c)
  PROVE  Fits(d, h, b) /\ Keeps(c, d, {"active"})
  <1>1. IsController(c) BY DEF Fits
  <1>2. IsController(d) /\ Keeps(c, d, {"active"}) /\ CutBack(c, d)
    BY <1>1, CancelTaskIs
  <1>3. /\ d.ctx = c.ctx /\ d.gen = c.gen /\ d.mode = c.mode /\ d.state = c.state
        /\ d.pending = c.pending /\ d.stream = c.stream /\ d.desired = c.desired
        /\ d.streams = c.streams /\ d.applied = c.applied /\ d.toRender = c.toRender /\ d.out = c.out
    BY <1>2 DEF Keeps, Fields
  <1>4. /\ d.active = None <=> c.active = None
        /\ c.active # None => /\ d.active.ticket = c.active.ticket /\ d.active.over = c.active.over
                              /\ d.active.done = c.active.done
    <2>1. CASE c.active = None BY <2>1 DEF CancelTask
    <2>2. CASE c.active # None
      <3>1. c.active \in Tasks BY <1>1, <2>2 DEF IsController
      <3>2. d.active = [c.active EXCEPT !.cancelled = TRUE]
        BY <2>2 DEF CancelTask, Fits, IsController, IsRecord, Fields
      <3>3. d.active \in Tasks /\ None \notin Tasks
        BY <3>1, <3>2, HeatmapAssumption DEF Tasks
      <3> QED BY <2>2, <3>1, <3>2, <3>3 DEF Tasks
    <2> QED BY <2>1, <2>2
  <1>5. HeapFits(d, h) /\ StateFits(d, h) /\ ReadersFit(d, h)
    BY <1>3 DEF Fits, HeapFits, StateFits, ReadersFit
  <1>6. ActiveFits(d, h) /\ PendingFits(d)
    BY <1>3, <1>4 DEF Fits, ActiveFits, PendingFits, TicketFits
  <1>7. JobInOrder(d, b) BY <1>4 DEF Fits, JobInOrder
  <1>8. Once(d, h, b)
    <2>1. PendingFits(c) /\ Once(c, h, b) BY DEF Fits
    <2> QED BY <1>3, <1>4, <2>1 DEF Once, Rebuilding, PendingFits
  <1>9. \A i \in DOMAIN b : MessageFits(d, b[i])
    BY <1>3 DEF Fits, MessageFits, TicketFits
  <1>10. \A s \in {d.applied, d.toRender, d.out} : s # None => IsExact(s)
    BY <1>3 DEF Fits
  <1> QED BY <1>2, <1>5, <1>6, <1>7, <1>8, <1>9, <1>10 DEF Fits

LEMMA KeepsTwice ==
  ASSUME NEW c, NEW d, NEW e, NEW S, NEW T, NEW U, Keeps(c, d, S), Keeps(d, e, T), S \cup T \subseteq U
  PROVE  Keeps(c, e, U)
  BY DEF Keeps

-----------------------------------------------------------------------------
(* The methods of the controller.                                          *)

WorkFields == {"gen", "desired", "phase", "stream", "streams", "active", "pending"}

(* _route_rebuild                                                          *)
LEMMA RouteRebuildFits ==
  ASSUME NEW c, NEW d, NEW h, NEW b, NEW frame \in Nat, Fits(c, h, b), c.ctx # None,
         d = RouteRebuild(c, frame)
  PROVE  Fits(d, h, b) /\ Keeps(c, d, WorkFields)
  <1> DEFINE s == StopStream(c)
             moved == [s EXCEPT !.gen = @ + 1, !.desired = frame]
             e == [moved EXCEPT !.phase = "rebuilding"]
             ticket == Ticket("rebuild", e, frame)
             empty == [e EXCEPT !.pending = None]
             waiting == [e EXCEPT !.pending = ticket]
  <1>1. d = IF c.mode = None THEN moved
            ELSE IF e.active = None THEN Launched(empty, ticket) ELSE CancelTask(waiting)
    BY DEF RouteRebuild
  <1>2. IsController(c) BY DEF Fits
  <1>3. IsController(s) /\ Keeps(c, s, {"stream", "streams"}) /\ CutBack(c, s)
    BY <1>2, StopStreamIs
  <1>4. /\ IsRecord(moved) /\ Keeps(s, moved, {"gen", "desired"})
        /\ moved.gen = s.gen + 1 /\ moved.desired = frame
    <2> HIDE DEF s
    <2> QED BY <1>3 DEF IsController, IsRecord, Keeps, Fields
  <1> HIDE DEF s, moved
  <1>5. IsController(moved) /\ moved.gen > c.gen /\ CutBack(c, moved) /\ moved.ctx = c.ctx
        /\ moved.mode = c.mode
    <2>1. s.gen = c.gen /\ c.gen \in Nat
      BY <1>2, <1>3 DEF Keeps, Fields, IsController
    <2> QED BY <1>3, <1>4, <2>1 DEF IsController, Keeps, Fields, CutBack
  <1>6. Fits(moved, h, b) /\ Fresh(moved, h, b) /\ Keeps(c, moved, WorkFields)
    <2>1. Fits(moved, h, b) /\ Fresh(moved, h, b) BY <1>5, CutBackFits
    <2>2. {"stream", "streams"} \cup {"gen", "desired"} \subseteq WorkFields
      BY DEF WorkFields
    <2> QED BY <2>1, <2>2, <1>3, <1>4, KeepsTwice
  <1>7. IsRecord(e) /\ Keeps(moved, e, {"phase"})
    BY <1>5 DEF IsController, IsRecord, Keeps, Fields
  <1> HIDE DEF e
  <1>8. Fits(e, h, b) /\ Fresh(e, h, b) /\ Keeps(c, e, WorkFields)
        /\ e.ctx = c.ctx /\ e.mode = c.mode /\ e.gen \in Nat
    <2>1. Keeps(moved, e, Aside) /\ e.desired = moved.desired /\ e.ctx = moved.ctx /\ e.mode = moved.mode
          /\ e.gen = moved.gen
      BY <1>7 DEF Keeps, Fields, Aside
    <2>2. e.desired \in Nat \cup {None} /\ e.gen \in Nat
      BY <1>5, <2>1 DEF IsController
    <2>3. WorkFields \cup {"phase"} \subseteq WorkFields BY DEF WorkFields
    <2>4. Fits(e, h, b) /\ Fresh(e, h, b) BY <1>6, <1>7, <2>1, <2>2, AsideFits
    <2>5. Keeps(c, e, WorkFields) BY <1>6, <1>7, <2>3, KeepsTwice
    <2> QED BY <1>5, <2>1, <2>2, <2>4, <2>5
  <1>9. ticket \in Tickets /\ ticket.kind = "rebuild" /\ ticket.gen = e.gen /\ ticket.source = e.ctx
        /\ ticket.mode = e.mode
    <2>1. e.ctx \in Names /\ e.mode \in Modes BY <1>2, <1>8 DEF IsController
    <2> QED BY <1>8, <2>1 DEF Ticket, Tickets
  <1>10. MayRun(e, h, b, ticket)
    <2>1. TicketFits(e, ticket) BY <1>8, <1>9 DEF TicketFits
    <2>2. NothingYet(e, h, b) BY <1>8 DEF Fresh
    <2> QED BY <1>9, <2>1, <2>2 DEF MayRun
  <1> HIDE DEF ticket
  <1>11. CASE c.mode = None BY <1>1, <1>6, <1>11
  <1>12. CASE c.mode # None /\ e.active = None
    <2>1. /\ Fits(empty, h, b) /\ Keeps(e, empty, {"pending"}) /\ Fresh(empty, h, b)
          /\ empty.active = None /\ empty.ctx = e.ctx /\ empty.gen = e.gen /\ empty.mode = e.mode
      <3>1. Fits(empty, h, b) /\ Keeps(e, empty, {"pending"}) /\ Fresh(empty, h, b)
        BY <1>8, DroppedFits
      <3> HIDE DEF empty
      <3> QED BY <1>12, <3>1 DEF Keeps, Fields
    <2> HIDE DEF empty
    <2>2. MayRun(empty, h, b, ticket)
      BY <1>9, <1>10, <2>1 DEF MayRun, TicketFits, Fresh
    <2>3. Fits(d, h, b) /\ Keeps(empty, d, {"active"})
      BY <1>1, <1>9, <1>12, <2>1, <2>2, LaunchedFits
    <2>4. Keeps(c, d, WorkFields)
      <3>1. WorkFields \cup {"pending"} \subseteq WorkFields /\ WorkFields \cup {"active"} \subseteq WorkFields
        BY DEF WorkFields
      <3>2. Keeps(c, empty, WorkFields) BY <1>8, <2>1, <3>1, KeepsTwice
      <3> QED BY <2>3, <3>1, <3>2, KeepsTwice
    <2> QED BY <2>3, <2>4
  <1>13. CASE c.mode # None /\ e.active # None
    <2>1. e.active.ticket.gen # e.gen BY <1>8, <1>13 DEF Fresh
    <2>2. Fits(waiting, h, b) /\ Keeps(e, waiting, {"pending"})
      BY <1>8, <1>10, <1>13, <2>1, WaitsFits
    <2> HIDE DEF waiting
    <2>3. Fits(d, h, b) /\ Keeps(waiting, d, {"active"})
      BY <1>1, <1>13, <2>2, CancelledFits
    <2>4. Keeps(c, d, WorkFields)
      <3>1. WorkFields \cup {"pending"} \subseteq WorkFields /\ WorkFields \cup {"active"} \subseteq WorkFields
        BY DEF WorkFields
      <3>2. Keeps(c, waiting, WorkFields) BY <1>8, <2>2, <3>1, KeepsTwice
      <3> QED BY <2>3, <3>1, <3>2, KeepsTwice
    <2> QED BY <2>3, <2>4
  <1> QED BY <1>11, <1>12, <1>13

(* _start_rolling_stream                                                   *)
LEMMA StreamStartedFits ==
  ASSUME NEW c, NEW d, NEW h, NEW b, NEW frame \in Nat, Fits(c, h, b), c.active = None,
         CanStream(c, h), d = StreamStarted(c, frame)
  PROVE  Fits(d, h, b) /\ Keeps(c, d, {"stream", "streams"})
  <1> DEFINE r == [over |-> c.state, high |-> frame, cancelled |-> FALSE, first |-> 0, end |-> 0,
                   reading |-> FALSE]
             new == WithReader(c.streams, c.gen, r)
  <1>1. /\ IsController(c) /\ c.gen \in Nat /\ c.state \in Nat /\ c.stream = None
        /\ c.state # None /\ h[c.state].mode = "rolling" /\ c.state \in DOMAIN h /\ c.mode = "rolling"
    BY DEF Fits, IsController, CanStream, StateFits
  <1>2. c.gen \notin DOMAIN c.streams
    <2>1. c.stream # c.gen BY <1>1, HeatmapAssumption
    <2> QED BY <2>1 DEF Fits, ReadersFit
  <1>3. r \in Readers /\ r.over = c.state /\ r.reading = FALSE
    BY <1>1 DEF Readers
  <1>4. d = [c EXCEPT !.stream = c.gen, !.streams = new] BY DEF StreamStarted
  <1> HIDE DEF r
  <1>5. /\ DOMAIN new = DOMAIN c.streams \cup {c.gen} /\ new[c.gen] = r
        /\ \A g \in DOMAIN c.streams : new[g] = c.streams[g]
        /\ AreStreams(new)
    BY <1>1, <1>2, <1>3 DEF WithReader, IsController, AreStreams
  <1> HIDE DEF new
  <1>6. IsRecord(d) /\ Keeps(c, d, {"stream", "streams"}) /\ d.stream = c.gen /\ d.streams = new
    BY <1>1, <1>4 DEF IsController, IsRecord, Keeps, Fields
  <1>7. /\ d.ctx = c.ctx /\ d.gen = c.gen /\ d.mode = c.mode /\ d.state = c.state
        /\ d.active = c.active /\ d.pending = c.pending /\ d.desired = c.desired
        /\ d.applied = c.applied /\ d.toRender = c.toRender /\ d.out = c.out
    BY <1>6 DEF Keeps, Fields
  <1>8. IsController(d) BY <1>1, <1>5, <1>6, <1>7 DEF IsController
  <1>9. HeapFits(d, h) /\ StateFits(d, h) /\ ActiveFits(d, h) /\ PendingFits(d)
    BY <1>7 DEF Fits, HeapFits, StateFits, ActiveFits, PendingFits, TicketFits
  <1>10. ReadersFit(d, h)
    <2>1. ReadersFit(c, h) BY DEF Fits
    <2>2. c.gen <= c.gen BY <1>1
    <2>3. \A g \in DOMAIN new : new[g].reading => g \in DOMAIN c.streams /\ new[g] = c.streams[g]
      BY <1>3, <1>5
    <2>4. \A g \in DOMAIN new :
            /\ g <= c.gen /\ (g = c.gen => new[g].over = c.state)
            /\ new[g].over \in DOMAIN h /\ h[new[g].over].mode = "rolling"
      BY <1>1, <1>2, <1>3, <1>5, <2>1, <2>2 DEF ReadersFit
    <2> QED BY <1>1, <1>6, <1>7, <2>1, <2>3, <2>4 DEF ReadersFit
  <1>11. JobInOrder(d, b) BY <1>7 DEF Fits, JobInOrder
  <1>12. Once(d, h, b)
    <2>1. c.pending = None BY DEF Fits, PendingFits
    <2> QED BY <1>7, <2>1 DEF Once, Rebuilding
  <1>13. \A i \in DOMAIN b : MessageFits(d, b[i])
    <2>1. TAKE i \in DOMAIN b
    <2>2. MessageFits(c, b[i]) /\ c.gen # None
      BY <1>1, HeatmapAssumption DEF Fits
    <2>3. CASE b[i].type = "stream_finished"
      <3>1. /\ b[i].stream \in Nat /\ b[i].stream <= c.gen /\ b[i].stream # c.gen
            /\ b[i].stream \notin DOMAIN c.streams
        BY <1>1, <2>2, <2>3 DEF MessageFits
      <3> QED BY <1>5, <1>6, <1>7, <2>3, <3>1 DEF MessageFits, JobTypes
    <2>4. CASE b[i].type # "stream_finished"
      BY <1>7, <2>2, <2>4 DEF MessageFits, TicketFits
    <2> QED BY <2>3, <2>4
  <1>14. \A s \in {d.applied, d.toRender, d.out} : s # None => IsExact(s)
    BY <1>7 DEF Fits
  <1> QED BY <1>6, <1>8, <1>9, <1>10, <1>11, <1>12, <1>13, <1>14 DEF Fits

(* _start_next_pending, with the ticket t that was taken from its slot.    *)
LEMMA StartPendingFits ==
  ASSUME NEW c, NEW d, NEW e, NEW h, NEW b, NEW t, Fits(e, h, b), e.active = None,
         MayRun(e, h, b, t), c.pending = t, e = [c EXCEPT !.pending = None], Keeps(c, e, {"pending"}),
         d = StartPending(c, h)
  PROVE  Fits(d, h, b) /\ Keeps(e, d, WorkFields)
  <1>1. c.down = e.down /\ c.gen = e.gen /\ c.ctx = e.ctx BY DEF Keeps, Fields
  <1>2. d = IF e.down \/ t.gen # e.gen \/ e.ctx = None \/ t.source # e.ctx THEN e
            ELSE IF t.kind # "stream" THEN Launched(e, t)
            ELSE IF CanStream(e, h) THEN StreamStarted(e, t.frame)
            ELSE RouteRebuild(e, t.frame)
    BY <1>1 DEF StartPending
  <1>3. t.frame \in Nat BY DEF MayRun, Tickets
  <1>4. CASE e.down \/ t.gen # e.gen \/ e.ctx = None \/ t.source # e.ctx
    BY <1>2, <1>4 DEF Keeps
  <1>5. CASE t.gen = e.gen /\ e.ctx # None /\ t.kind # "stream" /\ d = Launched(e, t)
    <2>1. Fits(d, h, b) /\ Keeps(e, d, {"active"}) BY <1>5, LaunchedFits
    <2> QED BY <2>1 DEF Keeps, WorkFields
  <1>6. CASE CanStream(e, h) /\ d = StreamStarted(e, t.frame)
    <2>1. Fits(d, h, b) /\ Keeps(e, d, {"stream", "streams"})
      BY <1>3, <1>6, StreamStartedFits
    <2> QED BY <2>1 DEF Keeps, WorkFields
  <1>7. CASE e.ctx # None /\ d = RouteRebuild(e, t.frame)
    BY <1>3, <1>7, RouteRebuildFits
  <1>8. CASE ~(e.down \/ t.gen # e.gen \/ e.ctx = None \/ t.source # e.ctx)
    <2>1. t.gen = e.gen /\ e.ctx # None BY <1>8
    <2>2. d = IF t.kind # "stream" THEN Launched(e, t)
              ELSE IF CanStream(e, h) THEN StreamStarted(e, t.frame) ELSE RouteRebuild(e, t.frame)
      BY <1>2, <1>8
    <2>3. CASE t.kind # "stream" BY <1>5, <2>1, <2>2, <2>3
    <2>4. CASE t.kind = "stream" /\ CanStream(e, h) BY <1>6, <2>2, <2>4
    <2>5. CASE t.kind = "stream" /\ ~CanStream(e, h) BY <1>7, <2>1, <2>2, <2>5
    <2> QED BY <2>3, <2>4, <2>5
  <1> QED BY <1>4, <1>8

-----------------------------------------------------------------------------
(* The methods that leave the work to a new generation.                    *)

(* Whatever the fields that no other refers to, and with an applied        *)
(* snapshot that is the old one or none.                                   *)
Quiet(c, d) == d.applied \in {c.applied, None} /\ d.out = c.out

LEMMA KeptIsQuiet ==
  ASSUME NEW c, NEW d, Keeps(c, d, WorkFields)
  PROVE  Quiet(c, d) /\ d.ctx = c.ctx /\ d.mode = c.mode /\ d.state = c.state /\ d.enabled = c.enabled
         /\ d.down = c.down /\ d.applied = c.applied
  BY DEF Keeps, Fields, WorkFields, Quiet

(* set_context                                                             *)
LEMMA SetContextFits ==
  ASSUME NEW c, NEW d, NEW h, NEW b, NEW source \in Names, Fits(c, h, b), d = SetContext(c, source)
  PROVE  Fits(d, h, b) /\ Quiet(c, d) /\ d.ctx = source /\ d.mode = c.mode /\ d.enabled = c.enabled
         /\ d.applied = None
  <1> DEFINE s == StopStream(c)
             e == CancelTask(s)
  <1>1. IsController(c) BY DEF Fits
  <1>2. IsController(s) /\ Keeps(c, s, {"stream", "streams"}) /\ CutBack(c, s)
    BY <1>1, StopStreamIs
  <1> HIDE DEF s
  <1>3. IsController(e) /\ Keeps(s, e, {"active"}) /\ CutBack(s, e)
    BY <1>2, CancelTaskIs
  <1> HIDE DEF e
  <1>4. CutBack(c, e) /\ Keeps(c, e, {"stream", "streams", "active"})
    BY <1>1, <1>2, <1>3, CutBackTwice, KeepsTwice
  <1>5. d = [e EXCEPT !.gen = @ + 1, !.pending = None, !.state = None, !.ctx = source,
                      !.applied = None, !.desired = None]
    <2>1. e = CancelTask(StopStream(c)) BY DEF e, s
    <2> QED BY ONLY <2>1, d = SetContext(c, source) DEF SetContext
  <1>6. /\ IsRecord(d) /\ Keeps(e, d, {"gen", "pending", "state", "ctx", "applied", "desired"})
        /\ d.gen = e.gen + 1 /\ d.pending = None /\ d.state = None /\ d.ctx = source
        /\ d.applied = None /\ d.desired = None
    <2>1. IsRecord(e) BY <1>3 DEF IsController
    <2> QED BY ONLY <1>5, <2>1 DEF IsRecord, Keeps, Fields
  <1>7. IsController(d) BY <1>3, <1>6 DEF IsController, Keeps, Fields
  <1>8. CutBack(c, d) /\ d.gen > c.gen
    <2>1. e.gen = c.gen /\ c.gen \in Nat
      BY <1>1, <1>4 DEF IsController, Keeps, Fields
    <2> QED BY <1>4, <1>6, <2>1 DEF CutBack, Keeps, Fields
  <1>9. Fits(d, h, b) BY <1>7, <1>8, CutBackFits
  <1>10. d.mode = c.mode /\ d.enabled = c.enabled /\ d.out = c.out
    BY <1>4, <1>6 DEF Keeps, Fields
  <1> QED BY <1>6, <1>9, <1>10 DEF Quiet

(* disable                                                                 *)
LEMMA DisableFits ==
  ASSUME NEW c, NEW d, NEW h, NEW b, Fits(c, h, b), d = Disable(c)
  PROVE  Fits(d, h, b) /\ Quiet(c, d)
  <1> DEFINE s == StopStream(c)
             e == CancelTask(s)
  <1>1. IsController(c) BY DEF Fits
  <1>2. IsController(s) /\ Keeps(c, s, {"stream", "streams"}) /\ CutBack(c, s)
    BY <1>1, StopStreamIs
  <1> HIDE DEF s
  <1>3. IsController(e) /\ Keeps(s, e, {"active"}) /\ CutBack(s, e)
    BY <1>2, CancelTaskIs
  <1> HIDE DEF e
  <1>4. CutBack(c, e) /\ Keeps(c, e, {"stream", "streams", "active"})
    BY <1>1, <1>2, <1>3, CutBackTwice, KeepsTwice
  <1>5. d = [e EXCEPT !.enabled = FALSE, !.gen = @ + 1, !.pending = None, !.state = None,
                      !.applied = None, !.phase = "disabled"]
    <2>1. e = CancelTask(StopStream(c)) BY DEF e, s
    <2> QED BY ONLY <2>1, d = Disable(c) DEF Disable
  <1>6. /\ IsRecord(d) /\ Keeps(e, d, {"enabled", "gen", "pending", "state", "applied", "phase"})
        /\ d.gen = e.gen + 1 /\ d.pending = None /\ d.state = None /\ d.applied = None
    BY <1>3, <1>5 DEF IsController, IsRecord, Keeps, Fields
  <1>7. IsController(d) BY <1>3, <1>6 DEF IsController, Keeps, Fields
  <1>8. CutBack(c, d) /\ d.gen > c.gen
    <2>1. e.gen = c.gen /\ c.gen \in Nat
      BY <1>1, <1>4 DEF IsController, Keeps, Fields
    <2> QED BY <1>4, <1>6, <2>1 DEF CutBack, Keeps, Fields
  <1>9. Fits(d, h, b) BY <1>7, <1>8, CutBackFits
  <1>10. d.out = c.out BY <1>4, <1>6 DEF Keeps, Fields
  <1> QED BY <1>6, <1>9, <1>10 DEF Quiet

(* shutdown                                                                *)
LEMMA ShutdownFits ==
  ASSUME NEW c, NEW d, NEW h, NEW b, Fits(c, h, b), d = Shutdown(c)
  PROVE  Fits(d, h, b) /\ Quiet(c, d)
  <1> DEFINE s == StopStream(c)
             e == CancelTask(s)
  <1>1. IsController(c) BY DEF Fits
  <1>2. IsController(s) /\ Keeps(c, s, {"stream", "streams"}) /\ CutBack(c, s)
    BY <1>1, StopStreamIs
  <1> HIDE DEF s
  <1>3. IsController(e) /\ Keeps(s, e, {"active"}) /\ CutBack(s, e)
    BY <1>2, CancelTaskIs
  <1> HIDE DEF e
  <1>4. CutBack(c, e) /\ Keeps(c, e, {"stream", "streams", "active"})
    BY <1>1, <1>2, <1>3, CutBackTwice, KeepsTwice
  <1>5. d = [e EXCEPT !.down = TRUE, !.phase = "down", !.pending = None, !.gen = @ + 1]
    BY DEF Shutdown, e, s
  <1>6. /\ IsRecord(d) /\ Keeps(e, d, {"down", "gen", "pending", "phase"})
        /\ d.gen = e.gen + 1 /\ d.pending = None
    BY <1>3, <1>5 DEF IsController, IsRecord, Keeps, Fields
  <1>7. IsController(d) BY <1>3, <1>6 DEF IsController, Keeps, Fields
  <1>8. CutBack(c, d) /\ d.gen > c.gen
    <2>1. e.gen = c.gen /\ c.gen \in Nat
      BY <1>1, <1>4 DEF IsController, Keeps, Fields
    <2> QED BY <1>4, <1>6, <2>1 DEF CutBack, Keeps, Fields
  <1>9. Fits(d, h, b) BY <1>7, <1>8, CutBackFits
  <1>10. d.out = c.out /\ d.applied = c.applied BY <1>4, <1>6 DEF Keeps, Fields
  <1> QED BY <1>9, <1>10 DEF Quiet

(* cancel                                                                  *)
LEMMA CancelFits ==
  ASSUME NEW c, NEW d, NEW h, NEW b, Fits(c, h, b), d = Cancel(c)
  PROVE  Fits(d, h, b) /\ Quiet(c, d)
  <1> DEFINE s == StopStream(c)
             e == CancelTask(s)
             f == [e EXCEPT !.gen = @ + 1, !.cancelAsked = TRUE, !.pending = None]
  <1>1. IsController(c) BY DEF Fits
  <1>2. IsController(s) /\ Keeps(c, s, {"stream", "streams"}) /\ CutBack(c, s)
    BY <1>1, StopStreamIs
  <1> HIDE DEF s
  <1>3. IsController(e) /\ Keeps(s, e, {"active"}) /\ CutBack(s, e)
    BY <1>2, CancelTaskIs
  <1> HIDE DEF e
  <1>4. CutBack(c, e) /\ Keeps(c, e, {"stream", "streams", "active"})
    BY <1>1, <1>2, <1>3, CutBackTwice, KeepsTwice
  <1>5. d = c \/ d = f BY DEF Cancel, e, s
  <1>6. /\ IsRecord(f) /\ Keeps(e, f, {"cancelAsked", "gen", "pending"})
        /\ f.gen = e.gen + 1 /\ f.pending = None
    BY <1>3 DEF IsController, IsRecord, Keeps, Fields
  <1> HIDE DEF f
  <1>7. IsController(f) BY <1>3, <1>6 DEF IsController, Keeps, Fields
  <1>8. CutBack(c, f) /\ f.gen > c.gen
    <2>1. e.gen = c.gen /\ c.gen \in Nat
      BY <1>1, <1>4 DEF IsController, Keeps, Fields
    <2> QED BY <1>4, <1>6, <2>1 DEF CutBack, Keeps, Fields
  <1>9. Fits(f, h, b) BY <1>7, <1>8, CutBackFits
  <1>10. f.out = c.out /\ f.applied = c.applied BY <1>4, <1>6 DEF Keeps, Fields
  <1> QED BY <1>5, <1>9, <1>10 DEF Quiet

(* clear                                                                   *)
LEMMA ClearFits ==
  ASSUME NEW c, NEW d, NEW h, NEW b, Fits(c, h, b), d = Clear(c)
  PROVE  Fits(d, h, b) /\ Quiet(c, d)
  <1> DEFINE s == StopStream(c)
  <1>1. IsController(c) BY DEF Fits
  <1>2. IsController(s) /\ Keeps(c, s, {"stream", "streams"}) /\ CutBack(c, s)
    BY <1>1, StopStreamIs
  <1>3. d = [s EXCEPT !.gen = @ + 1, !.pending = None, !.state = None, !.applied = None,
                      !.phase = "empty"]
    BY DEF Clear
  <1> HIDE DEF s
  <1>4. /\ IsRecord(d) /\ Keeps(s, d, {"gen", "pending", "state", "applied", "phase"})
        /\ d.gen = s.gen + 1 /\ d.pending = None /\ d.state = None /\ d.applied = None
    BY <1>2, <1>3 DEF IsController, IsRecord, Keeps, Fields
  <1>5. IsController(d) BY <1>2, <1>4 DEF IsController, Keeps, Fields
  <1>6. CutBack(c, d) /\ d.gen > c.gen
    <2>1. s.gen = c.gen /\ c.gen \in Nat
      BY <1>1, <1>2 DEF IsController, Keeps, Fields
    <2> QED BY <1>2, <1>4, <2>1 DEF CutBack, Keeps, Fields
  <1>7. Fits(d, h, b) BY <1>5, <1>6, CutBackFits
  <1>8. d.out = c.out BY <1>2, <1>4 DEF Keeps, Fields
  <1> QED BY <1>4, <1>7, <1>8 DEF Quiet

(* enable                                                                  *)
LEMMA EnableFits ==
  ASSUME NEW c, NEW d, NEW h, NEW b, NEW mode \in {"rolling", "decay"}, NEW frame \in Nat,
         Fits(c, h, b), c.ctx # None, d = Enable(c, mode, frame)
  PROVE  Fits(d, h, b) /\ Quiet(c, d) /\ d.ctx = c.ctx
  <1> DEFINE s == StopStream(c)
             e == [s EXCEPT !.enabled = TRUE, !.mode = mode, !.state = None, !.gen = @ + 1]
             f == [e EXCEPT !.phase = "error"]
  <1>1. IsController(c) BY DEF Fits
  <1>2. IsController(s) /\ Keeps(c, s, {"stream", "streams"}) /\ CutBack(c, s)
    BY <1>1, StopStreamIs
  <1>3. d = IF c.down THEN c ELSE IF mode = "decay" /\ c.ctx \in Untimed THEN f ELSE RouteRebuild(e, frame)
    BY DEF Enable
  <1> HIDE DEF s
  <1>4. /\ IsRecord(e) /\ Keeps(s, e, {"enabled", "mode", "state", "gen"})
        /\ e.gen = s.gen + 1 /\ e.mode = mode /\ e.state = None
    BY <1>2 DEF IsController, IsRecord, Keeps, Fields
  <1> HIDE DEF e
  <1>5. IsController(e) BY <1>2, <1>4 DEF IsController, Keeps, Fields, Modes
  <1>6. CutBack(c, e) /\ e.gen > c.gen
    <2>1. s.gen = c.gen /\ c.gen \in Nat
      BY <1>1, <1>2 DEF IsController, Keeps, Fields
    <2> QED BY <1>2, <1>4, <2>1 DEF CutBack, Keeps, Fields
  <1>7. Fits(e, h, b) BY <1>5, <1>6, CutBackFits
  <1>8. e.out = c.out /\ e.applied = c.applied /\ e.ctx = c.ctx
    BY <1>2, <1>4 DEF Keeps, Fields
  <1>9. IsRecord(f) /\ Keeps(e, f, {"phase"})
    BY <1>5 DEF IsController, IsRecord, Keeps, Fields
  <1> HIDE DEF f
  <1>10. CASE d = f
    <2>1. Keeps(e, f, Aside) /\ f.desired = e.desired /\ f.applied = e.applied /\ f.out = e.out
          /\ f.ctx = e.ctx
      BY <1>9 DEF Keeps, Fields, Aside
    <2>2. f.desired \in Nat \cup {None} BY <1>5, <2>1 DEF IsController
    <2>3. Fits(f, h, b) BY <1>7, <1>9, <2>1, <2>2, AsideFits
    <2> QED BY <1>8, <1>10, <2>1, <2>3 DEF Quiet
  <1>11. CASE d = RouteRebuild(e, frame)
    <2>1. Fits(d, h, b) /\ Keeps(e, d, WorkFields)
      BY <1>7, <1>8, <1>11, RouteRebuildFits
    <2>2. Quiet(e, d) /\ d.ctx = e.ctx BY <2>1, KeptIsQuiet
    <2> QED BY <1>8, <2>1, <2>2 DEF Quiet
  <1>12. CASE d = c BY <1>12 DEF Quiet
  <1> QED BY <1>3, <1>10, <1>11, <1>12

(* stop                                                                    *)
LEMMA StopAtFits ==
  ASSUME NEW c, NEW d, NEW h, NEW b, NEW frame \in Nat, Fits(c, h, b), d = StopAt(c, frame)
  PROVE  Fits(d, h, b) /\ Quiet(c, d)
  <1>1. CASE d = c BY <1>1 DEF Quiet
  <1>2. CASE c.ctx # None /\ d = RouteRebuild(c, frame)
    BY <1>2, RouteRebuildFits, KeptIsQuiet
  <1> QED BY <1>1, <1>2 DEF StopAt

(* invalidate_session                                                      *)
LEMMA InvalidateSessionFits ==
  ASSUME NEW c, NEW d, NEW h, NEW b, NEW source, Fits(c, h, b), d = InvalidateSession(c, h, source)
  PROVE  Fits(d, h, b) /\ Quiet(c, d)
  <1> DEFINE stopped == IF c.ctx = source THEN StopStream(c) ELSE c
             e == IF c.active # None /\ c.active.ticket.source = source THEN CancelTask(stopped) ELSE stopped
             pending == IF e.pending # None /\ e.pending.source = source THEN None ELSE e.pending
             applied == IF e.applied # None /\ e.applied.source = source THEN None ELSE e.applied
             state == IF e.state # None /\ h[e.state].source = source THEN None ELSE e.state
  <1>1. IsController(c) BY DEF Fits
  <1>2. IsController(stopped) /\ Keeps(c, stopped, {"stream", "streams"}) /\ CutBack(c, stopped)
    <2>1. CASE c.ctx = source BY <1>1, <2>1, StopStreamIs
    <2>2. CASE c.ctx # source BY <1>1, <2>2 DEF Keeps, CutBack
    <2> QED BY <2>1, <2>2
  <1>3. d = [e EXCEPT !.gen = e.gen + 1, !.cached = e.cached \ {source}, !.pending = pending,
                      !.applied = applied, !.state = state]
    BY DEF InvalidateSession
  <1> HIDE DEF stopped
  <1>4. IsController(e) /\ Keeps(stopped, e, {"active"}) /\ CutBack(stopped, e)
    <2>1. CASE e = CancelTask(stopped)
      <3> HIDE DEF e
      <3> QED BY <1>2, <2>1, CancelTaskIs
    <2>2. CASE e = stopped
      <3> HIDE DEF e
      <3> QED BY <1>2, <2>2 DEF Keeps, CutBack
    <2> QED BY <2>1, <2>2
  <1>5. /\ pending \in {e.pending, None} /\ applied \in {e.applied, None} /\ state \in {e.state, None}
    OBVIOUS
  <1> HIDE DEF e, pending, applied, state
  <1>6. CutBack(c, e) /\ Keeps(c, e, {"stream", "streams", "active"})
    BY <1>1, <1>2, <1>4, CutBackTwice, KeepsTwice
  <1>7. /\ IsRecord(d) /\ Keeps(e, d, {"gen", "cached", "pending", "applied", "state"})
        /\ d.gen = e.gen + 1 /\ d.pending = pending /\ d.applied = applied /\ d.state = state
    BY <1>3, <1>4 DEF IsController, IsRecord, Keeps, Fields
  <1>8. IsController(d) BY <1>4, <1>5, <1>7 DEF IsController, Keeps, Fields
  <1>9. CutBack(c, d) /\ d.gen > c.gen
    <2>1. e.gen = c.gen /\ c.gen \in Nat
      BY <1>1, <1>6 DEF IsController, Keeps, Fields
    <2>2. /\ d.active = e.active /\ d.stream = e.stream /\ d.streams = e.streams /\ d.mode = e.mode
          /\ d.ctx = e.ctx /\ d.toRender = e.toRender /\ d.out = e.out
      BY <1>7 DEF Keeps, Fields
    <2> QED BY <1>5, <1>6, <1>7, <2>1, <2>2 DEF CutBack
  <1>10. Fits(d, h, b) BY <1>8, <1>9, CutBackFits
  <1>11. d.out = c.out /\ e.applied = c.applied BY <1>6, <1>7 DEF Keeps, Fields
  <1> QED BY <1>5, <1>7, <1>10, <1>11 DEF Quiet

-----------------------------------------------------------------------------
(* The methods that go on in the generation.                               *)

(* What is applied after a method is what was before it, or is of the      *)
(* generation and source that it leaves.                                   *)
Current(c, d) ==
  d.applied \in {c.applied, None} \/ (d.applied.gen = d.gen /\ d.applied.source = d.ctx)

LEMMA ShownFits ==
  ASSUME NEW c, NEW d, NEW h, NEW b, Fits(c, h, b), IsRecord(d),
         Keeps(c, d, {"applied", "toRender", "out"}),
         \A s \in {d.applied, d.toRender, d.out} : s # None => IsExact(s)
  PROVE  Fits(d, h, b) /\ (Fresh(c, h, b) => Fresh(d, h, b))
  <1>1. /\ d.ctx = c.ctx /\ d.gen = c.gen /\ d.mode = c.mode /\ d.state = c.state
        /\ d.active = c.active /\ d.pending = c.pending /\ d.stream = c.stream
        /\ d.streams = c.streams /\ d.desired = c.desired
    BY DEF Keeps, Fields
  <1>2. IsController(d) BY <1>1 DEF Fits, IsController
  <1>3. HeapFits(d, h) /\ StateFits(d, h) /\ ActiveFits(d, h) /\ PendingFits(d) /\ ReadersFit(d, h)
    BY <1>1 DEF Fits, HeapFits, StateFits, ActiveFits, PendingFits, ReadersFit, TicketFits
  <1>4. JobInOrder(d, b) /\ Once(d, h, b)
    BY <1>1 DEF Fits, JobInOrder, Once, Rebuilding
  <1>5. \A i \in DOMAIN b : MessageFits(d, b[i])
    BY <1>1 DEF Fits, MessageFits, TicketFits
  <1>6. Fresh(c, h, b) => Fresh(d, h, b) BY <1>1 DEF Fresh, NothingYet
  <1> QED BY <1>2, <1>3, <1>4, <1>5, <1>6 DEF Fits

(* publish                                                                 *)
LEMMA PublishFits ==
  ASSUME NEW c, NEW d, NEW h, NEW b, NEW frame \in Nat, Fits(c, h, b), d = Publish(c, frame)
  PROVE  Fits(d, h, b) /\ Keeps(c, d, WorkFields)
  <1> DEFINE new == [g \in DOMAIN c.streams |->
                       IF g = c.stream /\ frame > c.streams[g].high
                       THEN [c.streams[g] EXCEPT !.high = frame] ELSE c.streams[g]]
             e == [c EXCEPT !.phase = "updating", !.desired = frame]
  <1>1. IsController(c) BY DEF Fits
  <1>2. d = [e EXCEPT !.streams = new]
    BY <1>1 DEF Publish, IsController, IsRecord, Fields
  <1>3. /\ DOMAIN new = DOMAIN c.streams /\ AreStreams(new)
        /\ \A g \in DOMAIN c.streams :
             /\ new[g].over = c.streams[g].over /\ new[g].first = c.streams[g].first
             /\ new[g].end = c.streams[g].end /\ new[g].reading = c.streams[g].reading
    BY <1>1 DEF IsController, AreStreams, Readers
  <1>4. IsRecord(e) /\ Keeps(c, e, {"phase", "desired"}) /\ e.desired = frame
    BY <1>1 DEF IsController, IsRecord, Keeps, Fields
  <1> HIDE DEF e, new
  <1>5. Fits(e, h, b)
    <2>1. Keeps(c, e, Aside) BY <1>4 DEF Keeps, Aside
    <2> QED BY <1>4, <2>1, AsideFits
  <1>6. IsController(e) BY <1>5 DEF Fits
  <1>7. IsRecord(d) /\ Keeps(e, d, {"streams"}) /\ d.streams = new
    BY <1>2, <1>4 DEF IsRecord, Keeps, Fields
  <1>8. /\ d.ctx = e.ctx /\ d.gen = e.gen /\ d.mode = e.mode /\ d.state = e.state /\ d.desired = e.desired
        /\ d.active = e.active /\ d.pending = e.pending /\ d.stream = e.stream
        /\ d.applied = e.applied /\ d.toRender = e.toRender /\ d.out = e.out
        /\ e.streams = c.streams
    BY <1>4, <1>7 DEF Keeps, Fields
  <1>9. IsController(d) BY <1>3, <1>6, <1>7, <1>8 DEF IsController
  <1>10. HeapFits(d, h) /\ StateFits(d, h) /\ ActiveFits(d, h) /\ PendingFits(d)
    BY <1>5, <1>8 DEF Fits, HeapFits, StateFits, ActiveFits, PendingFits, TicketFits
  <1>11. ReadersFit(d, h)
    <2>1. ReadersFit(e, h) BY <1>5 DEF Fits
    <2> QED BY <1>3, <1>7, <1>8, <2>1 DEF ReadersFit
  <1>12. JobInOrder(d, b) /\ Once(d, h, b)
    BY <1>3, <1>5, <1>7, <1>8 DEF Fits, JobInOrder, Once, Rebuilding
  <1>13. \A i \in DOMAIN b : MessageFits(d, b[i])
    BY <1>3, <1>5, <1>7, <1>8 DEF Fits, MessageFits, TicketFits
  <1>14. \A s \in {d.applied, d.toRender, d.out} : s # None => IsExact(s)
    BY <1>5, <1>8 DEF Fits
  <1>15. Keeps(c, d, WorkFields)
    <2>1. {"phase", "desired"} \cup {"streams"} \subseteq WorkFields
      BY DEF WorkFields
    <2> QED BY <1>4, <1>7, <2>1, KeepsTwice
  <1> QED BY <1>5, <1>9, <1>10, <1>11, <1>12, <1>13, <1>14, <1>15 DEF Fits

(* A step that shows a phase of the work after another.                    *)
LEMMA PhaseFits ==
  ASSUME NEW c, NEW d, NEW e, NEW h, NEW b, NEW S, Fits(d, h, b), Keeps(c, d, S), S \subseteq WorkFields,
         NEW phase, e = [d EXCEPT !.phase = phase]
  PROVE  Fits(e, h, b) /\ Keeps(c, e, WorkFields)
  <1>1. IsController(d) BY DEF Fits
  <1>2. IsRecord(e) /\ Keeps(d, e, {"phase"})
    BY <1>1 DEF IsController, IsRecord, Keeps, Fields
  <1>3. Keeps(d, e, Aside) /\ e.desired \in Nat \cup {None}
    BY <1>1, <1>2 DEF Keeps, Fields, Aside, IsController
  <1>4. Fits(e, h, b) BY <1>2, <1>3, AsideFits
  <1>5. S \cup {"phase"} \subseteq WorkFields BY DEF WorkFields
  <1> QED BY <1>2, <1>4, <1>5, KeepsTwice

(* A ticket of the state it is made in.                                    *)
LEMMA TicketIs ==
  ASSUME NEW c, NEW frame \in Nat, IsController(c), c.ctx # None,
         NEW kind \in {"rebuild", "advance", "fixed", "stream"}, NEW t, t = Ticket(kind, c, frame)
  PROVE  /\ t \in Tickets /\ t.kind = kind /\ t.gen = c.gen /\ t.source = c.ctx /\ t.frame = frame
         /\ TicketFits(c, t)
  BY DEF Ticket, Tickets, TicketFits, IsController

(* The latest target waits behind the active job.                          *)
LEMMA WaitFits ==
  ASSUME NEW c, NEW d, NEW h, NEW b, NEW frame \in Nat, NEW kind \in {"rebuild", "advance", "stream"},
         Fits(c, h, b), c.ctx # None, c.active # None,
         kind = "rebuild" => c.mode # "rolling", kind = "advance" => c.state # None /\ c.mode = "decay",
         d = Wait(c, kind, frame)
  PROVE  Fits(d, h, b) /\ Keeps(c, d, WorkFields)
  <1> DEFINE t == Ticket(kind, c, frame)
             e == [c EXCEPT !.pending = t]
  <1>1. IsController(c) BY DEF Fits
  <1>2. t \in Tickets /\ t.kind = kind /\ t.gen = c.gen /\ TicketFits(c, t)
    BY <1>1, TicketIs
  <1>3. d = [e EXCEPT !.phase = "updating"]
    BY <1>1 DEF Wait, IsController, IsRecord, Fields
  <1> HIDE DEF t
  <1>4. MayRun(c, h, b, t) BY <1>2 DEF MayRun
  <1>5. Fits(e, h, b) /\ Keeps(c, e, {"pending"}) BY <1>2, <1>4, WaitsFits
  <1>6. {"pending"} \subseteq WorkFields BY DEF WorkFields
  <1> HIDE DEF e
  <1> QED BY <1>3, <1>5, <1>6, PhaseFits

(* Forward playback of Rolling Exact.                                      *)
LEMMA StreamSpanFits ==
  ASSUME NEW c, NEW d, NEW h, NEW b, NEW frame \in Nat, Fits(c, h, b), c.ctx # None,
         d = StreamSpan(c, h, frame)
  PROVE  Fits(d, h, b) /\ Keeps(c, d, WorkFields)
  <1>1. CASE d = Publish(c, frame) BY <1>1, PublishFits
  <1>2. CASE c.active # None /\ d = Wait(c, "stream", frame) BY <1>2, WaitFits
  <1>3. CASE c.active = None /\ CanStream(c, h) /\ d = [StreamStarted(c, frame) EXCEPT !.phase = "updating"]
    <2> DEFINE e == StreamStarted(c, frame)
    <2>1. d = [e EXCEPT !.phase = "updating"] BY <1>3
    <2>2. Fits(e, h, b) /\ Keeps(c, e, {"stream", "streams"})
      BY <1>3, StreamStartedFits
    <2>3. {"stream", "streams"} \subseteq WorkFields BY DEF WorkFields
    <2> HIDE DEF e
    <2> QED BY <2>1, <2>2, <2>3, PhaseFits
  <1>4. CASE d = RouteRebuild(c, frame) BY <1>4, RouteRebuildFits
  <1> QED BY <1>1, <1>2, <1>3, <1>4 DEF StreamSpan

(* Forward playback of Exponential Decay.                                  *)
LEMMA DecaySpanFits ==
  ASSUME NEW c, NEW d, NEW h, NEW b, NEW frame \in Nat, Fits(c, h, b), c.ctx # None, c.mode = "decay",
         d = DecaySpan(c, h, frame)
  PROVE  Fits(d, h, b) /\ Keeps(c, d, WorkFields)
  <1> DEFINE kind == IF c.state # None /\ frame > h[c.state].at THEN "advance" ELSE "rebuild"
             t == Ticket("advance", c, frame)
             e == Launched(c, t)
  <1>1. d = IF c.active # None THEN Wait(c, kind, frame)
            ELSE IF kind = "rebuild" THEN RouteRebuild(c, frame)
            ELSE [e EXCEPT !.phase = "updating"]
    BY DEF DecaySpan
  <1>2. kind \in {"rebuild", "advance"} /\ (kind = "advance" => c.state # None)
    OBVIOUS
  <1> HIDE DEF kind
  <1>3. CASE c.active # None BY <1>1, <1>2, <1>3, WaitFits
  <1>4. CASE c.active = None /\ kind = "rebuild"
    BY <1>1, <1>4, RouteRebuildFits
  <1>5. CASE c.active = None /\ kind = "advance"
    <2>1. IsController(c) BY DEF Fits
    <2>2. t \in Tickets /\ t.kind = "advance" /\ t.gen = c.gen /\ TicketFits(c, t)
      BY <2>1, TicketIs
    <2> HIDE DEF t
    <2>3. MayRun(c, h, b, t) BY <1>2, <1>5, <2>2 DEF MayRun
    <2>4. Fits(e, h, b) /\ Keeps(c, e, {"active"})
      BY <1>5, <2>2, <2>3, LaunchedFits
    <2>5. {"active"} \subseteq WorkFields /\ d = [e EXCEPT !.phase = "updating"]
      BY <1>1, <1>5 DEF WorkFields
    <2> HIDE DEF e
    <2> QED BY <2>4, <2>5, PhaseFits
  <1> QED BY <1>2, <1>3, <1>4, <1>5

(* on_frame_span                                                           *)
LEMMA OnFrameSpanFits ==
  ASSUME NEW c, NEW d, NEW h, NEW b, NEW previous, NEW frame \in Nat, NEW reason, Fits(c, h, b),
         d = OnFrameSpan(c, h, previous, frame, reason)
  PROVE  Fits(d, h, b) /\ Quiet(c, d)
  <1> DEFINE e == [c EXCEPT !.desired = frame]
  <1>1. IsController(c) BY DEF Fits
  <1>2. IsRecord(e) /\ Keeps(c, e, {"desired"}) /\ e.desired = frame
    BY <1>1 DEF IsController, IsRecord, Keeps, Fields
  <1>3. d = IF c.down \/ ~c.enabled \/ c.ctx = None \/ c.mode = None THEN c
            ELSE IF reason # "playback" \/ frame <= previous THEN RouteRebuild(e, frame)
            ELSE IF c.mode = "rolling" THEN StreamSpan(e, h, frame) ELSE DecaySpan(e, h, frame)
    BY DEF OnFrameSpan
  <1> HIDE DEF e
  <1>4. Fits(e, h, b) /\ e.ctx = c.ctx /\ e.mode = c.mode /\ Quiet(c, e) /\ e.applied = c.applied
    <2>1. Keeps(c, e, Aside) BY <1>2 DEF Keeps, Aside
    <2>2. Fits(e, h, b) BY <1>2, <2>1, AsideFits
    <2> QED BY <1>2, <2>2 DEF Keeps, Fields, Quiet
  <1>5. CASE d = c BY <1>5 DEF Quiet
  <1>6. CASE c.ctx # None /\ d = RouteRebuild(e, frame)
    BY <1>4, <1>6, RouteRebuildFits, KeptIsQuiet DEF Quiet
  <1>7. CASE c.ctx # None /\ d = StreamSpan(e, h, frame)
    BY <1>4, <1>7, StreamSpanFits, KeptIsQuiet DEF Quiet
  <1>8. CASE c.ctx # None /\ c.mode = "decay" /\ d = DecaySpan(e, h, frame)
    BY <1>4, <1>8, DecaySpanFits, KeptIsQuiet DEF Quiet
  <1>9. c.mode \in {"rolling", "decay", None} BY <1>1 DEF IsController, Modes
  <1> QED BY <1>3, <1>5, <1>6, <1>7, <1>8, <1>9

(* request_fixed                                                           *)
LEMMA RequestFixedFits ==
  ASSUME NEW c, NEW d, NEW h, NEW b, NEW frame \in Nat, Fits(c, h, b), d = RequestFixed(c, frame)
  PROVE  Fits(d, h, b) /\ Current(c, d)
  <1> DEFINE e == [c EXCEPT !.enabled = TRUE, !.gen = @ + 1]
             hit == FixedSnapshot(e.ctx, e.gen, frame)
             shown == [e EXCEPT !.applied = hit, !.phase = "current", !.out = hit]
             t == Ticket("fixed", e, frame)
             empty == [e EXCEPT !.pending = None]
             waiting == [e EXCEPT !.pending = t, !.phase = "rebuilding"]
  <1>1. IsController(c) BY DEF Fits
  <1>2. d = IF c.down \/ c.ctx = None THEN c
            ELSE IF c.ctx \in c.cached THEN shown
            ELSE IF e.active = None THEN [Launched(empty, t) EXCEPT !.phase = "rebuilding"]
            ELSE CancelTask(waiting)
    BY DEF RequestFixed
  <1>3. IsRecord(e) /\ Keeps(c, e, {"enabled", "gen"}) /\ e.gen = c.gen + 1
    BY <1>1 DEF IsController, IsRecord, Keeps, Fields
  <1>4. hit.mode = "fixed" /\ hit.gen = e.gen /\ hit.source = e.ctx
    BY DEF FixedSnapshot
  <1> HIDE DEF e
  <1>5. Fits(e, h, b) /\ Fresh(e, h, b) /\ e.applied = c.applied /\ e.ctx = c.ctx
    <2>1. IsController(e) BY <1>1, <1>3 DEF IsController, Keeps, Fields
    <2>2. CutBack(c, e) BY <1>1, <1>3 DEF CutBack, Keeps, Fields
    <2>3. c.gen < e.gen BY <1>1, <1>3 DEF IsController
    <2> QED BY <1>3, <2>1, <2>2, <2>3, CutBackFits DEF Keeps, Fields
  <1>6. IsController(e) BY <1>5 DEF Fits
  <1>7. CASE d = c BY <1>7 DEF Current
  <1>8. CASE d = shown
    <2> HIDE DEF hit
    <2> DEFINE f == [e EXCEPT !.applied = hit, !.out = hit]
    <2>1. IsRecord(f) /\ Keeps(e, f, {"applied", "out"}) /\ f.applied = hit /\ f.out = hit
      BY <1>6 DEF IsController, IsRecord, Keeps, Fields
    <2>2. d = [f EXCEPT !.phase = "current"]
      BY <1>6, <1>8 DEF IsController, IsRecord, Fields
    <2> HIDE DEF f
    <2>3. Fits(f, h, b)
      <3>1. IsExact(hit) BY <1>4 DEF IsExact
      <3>2. f.toRender = e.toRender /\ (e.toRender # None => IsExact(e.toRender))
        BY <1>5, <2>1 DEF Keeps, Fields, Fits
      <3>3. Keeps(e, f, {"applied", "toRender", "out"}) BY <2>1 DEF Keeps
      <3> QED BY <1>5, <2>1, <3>1, <3>2, <3>3, ShownFits
    <2>4. IsRecord(d) /\ Keeps(f, d, {"phase"})
      BY <2>1, <2>2 DEF IsRecord, Keeps, Fields
    <2>5. Keeps(f, d, Aside) /\ d.desired \in Nat \cup {None}
      BY <2>3, <2>4 DEF Keeps, Fields, Aside, IsController, Fits
    <2>6. Fits(d, h, b) BY <2>3, <2>4, <2>5, AsideFits
    <2>7. d.applied = hit /\ d.gen = e.gen /\ d.ctx = e.ctx
      BY <2>1, <2>4 DEF Keeps, Fields
    <2> QED BY <1>4, <2>6, <2>7 DEF Current
  <1>9. CASE c.ctx # None /\ d # shown /\ d # c
    <2>1. /\ t \in Tickets /\ t.kind = "fixed" /\ t.gen = e.gen /\ TicketFits(e, t)
      BY <1>5, <1>6, <1>9, TicketIs
    <2> HIDE DEF t, shown
    <2>2. MayRun(e, h, b, t) BY <2>1 DEF MayRun
    <2>3. CASE e.active = None
      <3>1. /\ Fits(empty, h, b) /\ Keeps(e, empty, {"pending"})
        BY <1>5, DroppedFits
      <3> DEFINE f == Launched(empty, t)
      <3>2. d = [f EXCEPT !.phase = "rebuilding"] BY <1>2, <1>9, <2>3
      <3> HIDE DEF empty
      <3>3. MayRun(empty, h, b, t) /\ empty.active = None
        BY <2>1, <2>2, <2>3, <3>1 DEF MayRun, TicketFits, Keeps, Fields
      <3>4. Fits(f, h, b) /\ Keeps(empty, f, {"active"})
        BY <2>1, <3>1, <3>3, LaunchedFits
      <3> HIDE DEF f
      <3>5. Keeps(e, f, {"pending", "active"}) /\ {"pending", "active"} \subseteq WorkFields
        BY <3>1, <3>4, KeepsTwice DEF WorkFields
      <3>6. Fits(d, h, b) /\ Keeps(e, d, WorkFields)
        BY <3>2, <3>4, <3>5, PhaseFits
      <3> QED BY <1>5, <3>6, KeptIsQuiet DEF Current, Quiet
    <2>4. CASE e.active # None
      <3> DEFINE f == [e EXCEPT !.pending = t]
      <3>1. Fits(f, h, b) /\ Keeps(e, f, {"pending"})
        BY <2>1, <2>2, <2>4, <1>5, WaitsFits
      <3>2. waiting = [f EXCEPT !.phase = "rebuilding"]
        BY <1>6 DEF IsController, IsRecord, Fields
      <3> HIDE DEF f, waiting
      <3>3. {"pending"} \subseteq WorkFields BY DEF WorkFields
      <3>4. Fits(waiting, h, b) /\ Keeps(e, waiting, WorkFields)
        BY <3>1, <3>2, <3>3, PhaseFits
      <3>5. d = CancelTask(waiting) BY <1>2, <1>9, <2>4
      <3>6. Fits(d, h, b) /\ Keeps(waiting, d, {"active"})
        BY <3>4, <3>5, CancelledFits
      <3>7. d.applied = waiting.applied BY <3>6 DEF Keeps, Fields
      <3> QED BY <1>5, <3>4, <3>6, <3>7, KeptIsQuiet DEF Current, Quiet
    <2> QED BY <2>3, <2>4
  <1> QED BY <1>2, <1>7, <1>8, <1>9

(* recalculate                                                             *)
LEMMA RecalculateFits ==
  ASSUME NEW c, NEW d, NEW h, NEW b, Fits(c, h, b), d = Recalculate(c)
  PROVE  Fits(d, h, b) /\ Current(c, d)
  <1> DEFINE frame == IF c.desired = None THEN LastFrame ELSE c.desired
  <1>1. frame \in Nat BY HeatmapAssumption DEF Fits, IsController
  <1>2. d = IF c.down \/ ~c.enabled \/ c.ctx = None THEN c
            ELSE IF c.mode = None THEN RequestFixed(c, frame) ELSE RouteRebuild(c, frame)
    BY DEF Recalculate
  <1> HIDE DEF frame
  <1>3. CASE d = c BY <1>3 DEF Current
  <1>4. CASE d = RequestFixed(c, frame) BY <1>1, <1>4, RequestFixedFits
  <1>5. CASE c.ctx # None /\ d = RouteRebuild(c, frame)
    BY <1>1, <1>5, RouteRebuildFits, KeptIsQuiet DEF Current
  <1> QED BY <1>2, <1>3, <1>4, <1>5

(* A snapshot that is applied, now or when the timer fires.                *)
LEMMA AppliedFits ==
  ASSUME NEW c, NEW h, NEW b, NEW snapshot, Fits(c, h, b), IsExact(snapshot),
         snapshot.gen = c.gen, snapshot.source = c.ctx, NEW d \in Applied(c, snapshot)
  PROVE  Fits(d, h, b) /\ d.applied = snapshot /\ d.gen = c.gen /\ d.ctx = c.ctx
  <1> DEFINE phase == IF c.desired = None \/ snapshot.frame >= c.desired THEN "current" ELSE "updating"
             e == [c EXCEPT !.applied = snapshot, !.phase = phase]
             now == [e EXCEPT !.toRender = None, !.out = snapshot]
             later == [e EXCEPT !.toRender = snapshot]
             f == [c EXCEPT !.phase = phase]
  <1>1. IsController(c) BY DEF Fits
  <1>2. d \in {now, later} BY DEF Applied, QueueRender
  <1> HIDE DEF phase
  <1>3. IsRecord(f) /\ Keeps(c, f, {"phase"})
    BY <1>1 DEF IsController, IsRecord, Keeps, Fields
  <1>4. /\ IsRecord(now) /\ Keeps(f, now, {"applied", "toRender", "out"})
        /\ now.applied = snapshot /\ now.toRender = None /\ now.out = snapshot
    BY <1>1 DEF IsController, IsRecord, Keeps, Fields
  <1>5. /\ IsRecord(later) /\ Keeps(f, later, {"applied", "toRender", "out"})
        /\ later.applied = snapshot /\ later.toRender = snapshot /\ later.out = c.out
    BY <1>1 DEF IsController, IsRecord, Keeps, Fields
  <1> HIDE DEF e, f, now, later
  <1>6. Fits(f, h, b) /\ f.gen = c.gen /\ f.ctx = c.ctx
    <2>1. Keeps(c, f, Aside) /\ f.desired \in Nat \cup {None} /\ f.gen = c.gen /\ f.ctx = c.ctx
      BY <1>1, <1>3 DEF Keeps, Fields, Aside, IsController
    <2> QED BY <1>3, <2>1, AsideFits
  <1>7. c.out # None => IsExact(c.out) BY DEF Fits
  <1>8. CASE d = now BY <1>4, <1>6, <1>8, ShownFits DEF Keeps, Fields
  <1>9. CASE d = later BY <1>5, <1>6, <1>7, <1>9, ShownFits DEF Keeps, Fields
  <1> QED BY <1>2, <1>8, <1>9

-----------------------------------------------------------------------------
(* The messages, one at a time.                                            *)

IsRest(b, m, r) ==
  /\ r \in Seq(Values(r)) /\ 1 \in DOMAIN b /\ m = b[1]
  /\ \A i \in DOMAIN r : i \in Nat /\ i + 1 \in DOMAIN b /\ r[i] = b[i + 1] /\ i + 1 # 1
  /\ \A i \in DOMAIN b : i \in Nat /\ (i # 1 => i - 1 \in DOMAIN r /\ b[i] = r[i - 1])

LEMMA Taken ==
  ASSUME NEW b, b \in Seq(Values(b)), b # << >>, NEW m, m = Head(b), NEW r, r = Tail(b)
  PROVE  IsRest(b, m, r)
  <1>1. /\ Len(b) \in Nat /\ Len(b) # 0 /\ DOMAIN b = 1 .. Len(b)
        /\ r \in Seq(Values(b)) /\ Len(r) = Len(b) - 1 /\ DOMAIN r = 1 .. Len(r)
        /\ \A i \in 1 .. Len(r) : r[i] = b[i + 1]
    BY EmptySeq, HeadTailProperties
  <1>2. r \in Seq(Values(r))
    <2>1. r \in Seq(Range(r)) BY <1>1, SeqOfRange
    <2>2. Range(r) = Values(r) BY DEF Range, Values
    <2> QED BY <2>1, <2>2
  <1>3. m = b[1] BY <1>1, HeadTailProperties
  <1> QED BY <1>1, <1>2, <1>3 DEF IsRest

(* What is known of a message that is taken, and of those left.            *)
Takes(c, h, m, r) ==
  /\ MessageFits(c, m)
  /\ m.type \in JobTypes => c.active # None /\ c.active.done
  /\ m.type = "finished" => \A i \in DOMAIN r : r[i].type \notin JobTypes
  /\ m.type = "result" =>
       /\ m.ticket = c.active.ticket /\ \A i \in DOMAIN r : r[i].type # "result"
       /\ c.mode = "rolling" /\ m.ticket.kind = "rebuild" /\ m.ticket.gen = c.gen =>
            /\ NothingYet(c, h, r)
            /\ ~(c.pending # None /\ c.pending.kind = "rebuild" /\ c.pending.gen = c.gen)
  /\ m.type = "stream_finished" =>
       \A i \in DOMAIN r : r[i].type = "stream_finished" => r[i].stream # m.stream

LEMMA RestFits ==
  ASSUME NEW c, NEW h, NEW b, NEW m, NEW r, Fits(c, h, b), b # << >>, m = Head(b), r = Tail(b)
  PROVE  Fits(c, h, r) /\ Takes(c, h, m, r)
  <1>1. /\ r \in Seq(Values(r)) /\ 1 \in DOMAIN b /\ m = b[1]
        /\ \A i \in DOMAIN r : i \in Nat /\ i + 1 \in DOMAIN b /\ r[i] = b[i + 1] /\ i + 1 # 1
        /\ \A i \in DOMAIN b : i \in Nat /\ (i # 1 => i - 1 \in DOMAIN r /\ b[i] = r[i - 1])
    <2>1. b \in Seq(Values(b)) BY DEF Fits
    <2>2. IsRest(b, m, r) BY <2>1, Taken
    <2> QED BY <2>2 DEF IsRest
  <1>2. JobInOrder(c, b) /\ (\A i \in DOMAIN b : MessageFits(c, b[i])) /\ Once(c, h, b) /\ EndsOnce(b)
    BY DEF Fits
  <1>3. JobInOrder(c, r)
    <2>1. (\E i \in DOMAIN r : r[i].type \in JobTypes) => c.active # None /\ c.active.done
      BY <1>1, <1>2 DEF JobInOrder
    <2>2. \A i \in DOMAIN r : r[i].type \in {"result", "error"} =>
            /\ r[i].ticket = c.active.ticket
            /\ \E j \in DOMAIN r : i < j /\ r[j].type = "finished"
      <3>1. TAKE i \in DOMAIN r
      <3>2. HAVE r[i].type \in {"result", "error"}
      <3>3. i \in Nat /\ i + 1 \in DOMAIN b /\ r[i] = b[i + 1] BY <1>1
      <3>4. PICK j \in DOMAIN b : i + 1 < j /\ b[j].type = "finished"
        BY <1>2, <3>2, <3>3 DEF JobInOrder
      <3>5. j \in Nat /\ j # 1 /\ j - 1 \in DOMAIN r /\ b[j] = r[j - 1]
        BY <1>1, <3>3, <3>4
      <3>6. i < j - 1 BY <3>3, <3>4, <3>5
      <3>7. r[i].ticket = c.active.ticket BY <1>2, <3>2, <3>3 DEF JobInOrder
      <3> QED BY <3>4, <3>5, <3>6, <3>7
    <2>3. \A i, j \in DOMAIN r : r[i].type = "finished" /\ r[j].type \in JobTypes => j <= i
      BY <1>1, <1>2 DEF JobInOrder
    <2>4. \A i, j \in DOMAIN r : r[i].type = "result" /\ r[j].type = "result" => i = j
      BY <1>1, <1>2 DEF JobInOrder
    <2> QED BY <2>1, <2>2, <2>3, <2>4 DEF JobInOrder
  <1>4. EndsOnce(r) BY <1>1, <1>2 DEF EndsOnce
  <1>5. \A i \in DOMAIN r : MessageFits(c, r[i]) BY <1>1, <1>2
  <1>6. Rebuilding(c, r) => Rebuilding(c, b) BY <1>1 DEF Rebuilding
  <1>7. Once(c, h, r) BY <1>1, <1>2, <1>6 DEF Once
  <1>8. Fits(c, h, r) BY <1>1, <1>3, <1>4, <1>5, <1>7 DEF Fits
  <1>9. MessageFits(c, m) /\ (m.type \in JobTypes => c.active # None /\ c.active.done)
    BY <1>1, <1>2 DEF JobInOrder
  <1>10. m.type = "finished" => \A i \in DOMAIN r : r[i].type \notin JobTypes
    <2>1. HAVE m.type = "finished"
    <2>2. TAKE i \in DOMAIN r
    <2>3. i \in Nat /\ i + 1 \in DOMAIN b /\ r[i] = b[i + 1] /\ i + 1 # 1
      BY <1>1
    <2>4. b[i + 1].type \in JobTypes => i + 1 <= 1
      BY <1>1, <1>2, <2>1, <2>3 DEF JobInOrder
    <2>5. ~(i + 1 <= 1) BY <2>3
    <2> QED BY <2>3, <2>4, <2>5
  <1>11. m.type = "result" =>
           /\ m.ticket = c.active.ticket /\ (\A i \in DOMAIN r : r[i].type # "result")
           /\ c.mode = "rolling" /\ m.ticket.kind = "rebuild" /\ m.ticket.gen = c.gen =>
                /\ NothingYet(c, h, r)
                /\ ~(c.pending # None /\ c.pending.kind = "rebuild" /\ c.pending.gen = c.gen)
    <2>1. HAVE m.type = "result"
    <2>2. m.ticket = c.active.ticket /\ c.active # None /\ c.active.done
      BY <1>1, <1>2, <1>9, <2>1 DEF JobInOrder, JobTypes
    <2>3. \A i \in DOMAIN r : r[i].type # "result"
      BY <1>1, <1>2, <2>1 DEF JobInOrder
    <2>4. ASSUME c.mode = "rolling" /\ m.ticket.kind = "rebuild" /\ m.ticket.gen = c.gen
          PROVE  /\ NothingYet(c, h, r)
                 /\ ~(c.pending # None /\ c.pending.kind = "rebuild" /\ c.pending.gen = c.gen)
      <3>1. Rebuilding(c, b) BY <1>1, <2>1, <2>2, <2>4 DEF Rebuilding
      <3>2. /\ c.gen \notin DOMAIN h /\ c.gen \notin DOMAIN c.streams
            /\ \A i \in DOMAIN b : b[i].type = "snapshot" => b[i].stream # c.gen
            /\ ~(c.pending # None /\ c.pending.kind = "rebuild" /\ c.pending.gen = c.gen)
        BY <1>2, <2>2, <2>4, <3>1 DEF Once
      <3> QED BY <1>1, <3>2 DEF NothingYet
    <2> QED BY <2>2, <2>3, <2>4
  <1>12. m.type = "stream_finished" =>
           \A i \in DOMAIN r : r[i].type = "stream_finished" => r[i].stream # m.stream
    BY <1>1, <1>2 DEF EndsOnce
  <1> QED BY <1>8, <1>9, <1>10, <1>11, <1>12 DEF Takes

(* A rebuild that counts brings its accumulator, and nothing of the        *)
(* generation depends on another.                                          *)
LEMMA DeliveredFits ==
  ASSUME NEW c, NEW d, NEW h, NEW h2, NEW m, NEW r, Fits(c, h, r), Takes(c, h, m, r),
         m.type = "result", m.ticket.kind = "rebuild", ResultCounts(c, m.ticket), h2 = Delivered(c, m, h),
         IsRecord(d), Keeps(c, d, {"state"}), d.state \in {c.state, m.ticket.gen}
  PROVE  Fits(d, h2, r)
  <1> DEFINE t == m.ticket
             g0 == c.gen
  <1>1. /\ IsController(c) /\ g0 \in Nat /\ t.gen = g0 /\ t.kind = "rebuild" /\ t \in Tickets
        /\ c.ctx # None /\ t.source = c.ctx /\ t.mode = c.mode
        /\ IsAccumulator(m.value) /\ m.value.source = c.ctx /\ m.value.mode = c.mode
        /\ c.active # None /\ c.active.done /\ c.active.ticket = t
    BY DEF Takes, Fits, IsController, MessageFits, TicketFits, ResultCounts, JobTypes
  <1>2. /\ DOMAIN h2 = DOMAIN h \cup {g0} /\ h2[g0] = m.value
        /\ h2 = [g \in DOMAIN h2 |-> h2[g]]
        /\ \A g \in DOMAIN h : g # g0 => h2[g] = h[g]
    BY <1>1 DEF Delivered
  <1>3. /\ d.ctx = c.ctx /\ d.gen = g0 /\ d.mode = c.mode /\ d.desired = c.desired
        /\ d.active = c.active /\ d.pending = c.pending /\ d.stream = c.stream
        /\ d.streams = c.streams /\ d.applied = c.applied /\ d.toRender = c.toRender /\ d.out = c.out
    BY DEF Keeps, Fields
  <1> HIDE DEF g0
  <1>4. g0 = c.gen BY DEF g0
  <1>5. IsController(d) BY <1>1, <1>3, <1>4 DEF IsController
  <1>6. HeapFits(d, h2)
    <2>1. HeapFits(c, h) BY DEF Fits
    <2>2. g0 <= g0 BY <1>1
    <2> QED BY <1>1, <1>2, <1>3, <1>4, <2>1, <2>2 DEF HeapFits
  <1>7. StateFits(d, h2)
    <2>1. StateFits(c, h) BY DEF Fits
    <2> QED BY <1>1, <1>2, <1>3, <1>4, <2>1 DEF StateFits
  <1>8. ActiveFits(d, h2) /\ PendingFits(d)
    <2>1. TicketFits(d, t) BY <1>1, <1>3, <1>4 DEF TicketFits
    <2>2. PendingFits(c) BY DEF Fits
    <2>3. g0 # None BY <1>1, HeatmapAssumption
    <2> QED
      BY <1>1, <1>3, <1>4, <2>1, <2>2, <2>3 DEF ActiveFits, PendingFits, TicketFits
  <1>9. \A g \in DOMAIN c.streams : g # g0 /\ c.streams[g].over # g0
    <2>1. ReadersFit(c, h) /\ HeapFits(c, h) BY DEF Fits
    <2>2. CASE c.mode = "rolling"
      BY <1>1, <1>4, <2>1, <2>2 DEF Takes, NothingYet, ReadersFit
    <2>3. CASE c.mode # "rolling" BY <1>4, <2>1, <2>3 DEF HeapFits, ReadersFit
    <2> QED BY <2>2, <2>3
  <1>10. ReadersFit(d, h2)
    <2>1. ReadersFit(c, h) BY DEF Fits
    <2>2. \A g \in DOMAIN c.streams :
            c.streams[g].over \in DOMAIN h2 /\ h2[c.streams[g].over] = h[c.streams[g].over]
      BY <1>2, <1>9, <2>1 DEF ReadersFit
    <2> QED BY <1>3, <1>4, <1>9, <2>1, <2>2 DEF ReadersFit
  <1>11. JobInOrder(d, r) BY <1>3 DEF Fits, JobInOrder
  <1>12. \A i \in DOMAIN r : MessageFits(d, r[i])
    <2>1. TAKE i \in DOMAIN r
    <2>2. MessageFits(c, r[i]) BY DEF Fits
    <2>3. CASE r[i].type = "snapshot"
      <3>1. r[i].stream # g0
        <4>1. CASE c.mode = "rolling"
          BY <1>1, <1>4, <2>3, <4>1 DEF Takes, NothingYet
        <4>2. CASE c.mode # "rolling" BY <1>4, <2>2, <2>3, <4>2 DEF MessageFits
        <4> QED BY <4>1, <4>2
      <3> QED BY <1>3, <1>4, <2>2, <2>3, <3>1 DEF MessageFits
    <2>4. CASE r[i].type # "snapshot"
      BY <1>3, <1>4, <2>2, <2>4 DEF MessageFits, TicketFits
    <2> QED BY <2>3, <2>4
  <1>13. Once(d, h2, r)
    <2>1. CASE c.mode = "rolling"
      BY <1>1, <1>3, <1>4, <2>1 DEF Takes, Once, Rebuilding
    <2>2. CASE c.mode # "rolling" BY <1>3, <2>2 DEF Once
    <2> QED BY <2>1, <2>2
  <1>14. \A s \in {d.applied, d.toRender, d.out} : s # None => IsExact(s)
    BY <1>3 DEF Fits
  <1> QED BY <1>5, <1>6, <1>7, <1>8, <1>10, <1>11, <1>12, <1>13, <1>14 DEF Fits

(* _on_result                                                              *)
LEMMA OnResultFits ==
  ASSUME NEW c, NEW d, NEW h, NEW h2, NEW m, NEW r, Fits(c, h, r), Takes(c, h, m, r),
         m.type = "result", h2 = Delivered(c, m, h), d \in OnResult(c, m.ticket, m.value)
  PROVE  Fits(d, h2, r) /\ Current(c, d)
  <1> DEFINE t == m.ticket
  <1>1. /\ IsController(c) /\ t \in Tickets /\ t.frame \in Nat /\ t.kind # "stream" /\ TicketFits(c, t)
        /\ c.active.ticket = t
    BY DEF Takes, Fits, IsController, MessageFits, ActiveFits, JobTypes, Tickets
  <1>2. CASE ~ResultCounts(c, t)
    <2>1. d = c /\ h2 = h BY <1>2 DEF OnResult, Delivered
    <2> QED BY <2>1 DEF Current
  <1>3. CASE ResultCounts(c, t)
    <2>1. t.gen = c.gen /\ c.ctx # None /\ t.source = c.ctx
      BY <1>1, <1>3 DEF ResultCounts, TicketFits
    <2>2. t.kind # "rebuild" => h2 = h BY DEF Delivered
    <2>3. t.kind = "rebuild" =>
            Fits(c, h2, r) /\ IsAccumulator(m.value) /\ m.value.source = c.ctx /\ m.value.mode = c.mode
      <3>1. IsRecord(c) /\ Keeps(c, c, {"state"})
        BY <1>1 DEF IsController, Keeps
      <3>2. t.kind = "rebuild" => Fits(c, h2, r) BY <1>3, <3>1, DeliveredFits
      <3> QED BY <1>1, <2>1, <3>2 DEF Takes, MessageFits, TicketFits
    <2>4. Fits(c, h2, r) BY <2>2, <2>3
    <2>5. CASE t.kind = "fixed"
      <3> DEFINE e == [c EXCEPT !.cached = @ \cup {t.source}]
                 s == FixedSnapshot(t.source, t.gen, t.frame)
      <3>1. d \in Applied(e, s) BY <1>3, <2>5 DEF OnResult
      <3>2. IsRecord(e) /\ Keeps(c, e, {"cached"})
        BY <1>1 DEF IsController, IsRecord, Keeps, Fields
      <3>3. IsExact(s) /\ s.gen = t.gen /\ s.source = t.source
        BY DEF FixedSnapshot, IsExact
      <3> HIDE DEF e, s
      <3>4. Keeps(c, e, Aside) /\ e.desired \in Nat \cup {None} /\ e.gen = c.gen /\ e.ctx = c.ctx
        BY <1>1, <3>2 DEF Keeps, Fields, Aside, IsController
      <3>5. Fits(e, h2, r) BY <2>4, <3>2, <3>4, AsideFits
      <3>6. Fits(d, h2, r) /\ d.applied = s /\ d.gen = e.gen /\ d.ctx = e.ctx
        BY <2>1, <3>1, <3>3, <3>4, <3>5, AppliedFits
      <3> QED BY <2>1, <3>3, <3>4, <3>6 DEF Current
    <2>6. CASE t.kind # "fixed" /\ m.value = None
      <3>1. d = RouteRebuild(c, t.frame) BY <1>3, <2>6 DEF OnResult
      <3> QED
        BY <1>1, <2>1, <2>4, <3>1, RouteRebuildFits, KeptIsQuiet DEF Current
    <2>7. CASE t.kind = "advance" /\ m.value # None
      <3>1. d \in Applied(c, m.value) BY <1>3, <2>7 DEF OnResult
      <3>2. m.value.mode = "decay" /\ m.value.gen = c.gen /\ m.value.source = c.ctx
        BY <2>1, <2>7 DEF Takes, MessageFits
      <3>3. IsExact(m.value) BY <3>2 DEF IsExact
      <3>4. Fits(d, h2, r) /\ d.applied = m.value /\ d.gen = c.gen /\ d.ctx = c.ctx
        BY <2>4, <3>1, <3>2, <3>3, AppliedFits
      <3> QED BY <3>2, <3>4 DEF Current
    <2>8. CASE t.kind = "rebuild" /\ m.value # None
      <3> DEFINE e == [c EXCEPT !.state = t.gen]
                 s == SnapshotOf(m.value, t.gen)
      <3>1. d \in Applied(e, s) BY <1>3, <2>8 DEF OnResult
      <3>2. IsRecord(e) /\ Keeps(c, e, {"state"}) /\ e.state = t.gen
        BY <1>1 DEF IsController, IsRecord, Keeps, Fields
      <3>3. IsExact(s) /\ s.gen = t.gen /\ s.source = c.ctx
        BY <2>3, <2>8 DEF SnapshotOf, IsExact, IsAccumulator
      <3> HIDE DEF e, s
      <3>4. Fits(e, h2, r) /\ e.gen = c.gen /\ e.ctx = c.ctx
        BY <1>3, <2>8, <3>2, DeliveredFits DEF Keeps, Fields
      <3>5. Fits(d, h2, r) /\ d.applied = s /\ d.gen = e.gen /\ d.ctx = e.ctx
        BY <2>1, <3>1, <3>3, <3>4, AppliedFits
      <3> QED BY <2>1, <3>3, <3>4, <3>5 DEF Current
    <2>9. t.kind \in {"fixed", "advance", "rebuild"} BY <1>1 DEF Tickets
    <2> QED BY <2>5, <2>6, <2>7, <2>8, <2>9
  <1> QED BY <1>2, <1>3

(* _on_error, _on_stream_error                                             *)
LEMMA OnErrorFits ==
  ASSUME NEW c, NEW d, NEW h, NEW b, NEW gen, Fits(c, h, b), d = OnError(c, gen)
  PROVE  Fits(d, h, b) /\ Current(c, d)
  <1>1. CASE d = c BY <1>1 DEF Current
  <1>2. CASE d = [c EXCEPT !.phase = "error"]
    <2>1. Keeps(c, c, {}) BY DEF Keeps
    <2>2. Fits(d, h, b) /\ Keeps(c, d, WorkFields) BY <1>2, <2>1, PhaseFits
    <2> QED BY <2>2, KeptIsQuiet DEF Current
  <1> QED BY <1>1, <1>2 DEF OnError

(* The job is over: nothing of it is left to be handled.                   *)
LEMMA IdleFits ==
  ASSUME NEW c, NEW e, NEW h, NEW r, Fits(c, h, r), \A i \in DOMAIN r : r[i].type \notin JobTypes,
         IsRecord(e), Keeps(c, e, {"active", "pending"}), e.active = None, e.pending = None
  PROVE  /\ Fits(e, h, r)
         /\ c.pending # None /\ (c.pending.kind = "rebuild" /\ c.pending.gen = c.gen /\ c.mode = "rolling"
                                   => NothingYet(c, h, r)) => MayRun(e, h, r, c.pending)
  <1>1. /\ e.ctx = c.ctx /\ e.gen = c.gen /\ e.mode = c.mode /\ e.state = c.state
        /\ e.stream = c.stream /\ e.desired = c.desired
        /\ e.streams = c.streams /\ e.applied = c.applied /\ e.toRender = c.toRender /\ e.out = c.out
    BY DEF Keeps, Fields
  <1>2. IsController(e) BY <1>1 DEF Fits, IsController
  <1>3. HeapFits(e, h) /\ StateFits(e, h) /\ ActiveFits(e, h) /\ PendingFits(e) /\ ReadersFit(e, h)
    BY <1>1 DEF Fits, HeapFits, StateFits, ActiveFits, PendingFits, ReadersFit
  <1>4. JobInOrder(e, r) BY DEF JobInOrder, JobTypes
  <1>5. Once(e, h, r) BY DEF Once, Rebuilding
  <1>6. \A i \in DOMAIN r : MessageFits(e, r[i])
    BY <1>1 DEF Fits, MessageFits, TicketFits
  <1>7. \A s \in {e.applied, e.toRender, e.out} : s # None => IsExact(s)
    BY <1>1 DEF Fits
  <1>8. c.pending # None => c.pending \in Tickets BY DEF Fits, IsController
  <1>9. c.pending # None /\ (c.pending.kind = "rebuild" /\ c.pending.gen = c.gen /\ c.mode = "rolling"
                               => NothingYet(c, h, r)) => MayRun(e, h, r, c.pending)
    <2>1. PendingFits(c) BY DEF Fits
    <2> QED BY <1>1, <1>8, <2>1 DEF PendingFits, MayRun, NothingYet, TicketFits
  <1> QED BY <1>2, <1>3, <1>4, <1>5, <1>6, <1>7, <1>9 DEF Fits

(* _on_finished                                                            *)
LEMMA OnFinishedFits ==
  ASSUME NEW c, NEW d, NEW h, NEW r, Fits(c, h, r), \A i \in DOMAIN r : r[i].type \notin JobTypes,
         d = OnFinished(c, h)
  PROVE  Fits(d, h, r) /\ Current(c, d)
  <1> DEFINE f == [c EXCEPT !.active = None]
             e == [f EXCEPT !.pending = None]
             shown == [f EXCEPT !.cancelAsked = FALSE, !.phase = "cancelled"]
  <1>1. IsController(c) BY DEF Fits
  <1>2. d = IF c.pending # None THEN StartPending(f, h) ELSE IF c.cancelAsked THEN shown ELSE f
    BY DEF OnFinished
  <1>3. IsRecord(f) /\ Keeps(c, f, {"active"}) /\ f.active = None
    BY <1>1 DEF IsController, IsRecord, Keeps, Fields
  <1> HIDE DEF f
  <1>4. IsRecord(e) /\ Keeps(f, e, {"pending"}) /\ e.pending = None
    BY <1>3 DEF IsRecord, Keeps, Fields
  <1>5. f.pending = c.pending /\ f.applied = c.applied
    BY <1>3 DEF Keeps, Fields
  <1>6. e = [f EXCEPT !.pending = None] OBVIOUS
  <1> HIDE DEF e
  <1>7. Keeps(c, e, {"active", "pending"}) /\ e.active = None /\ e.applied = c.applied
    BY <1>3, <1>4, KeepsTwice DEF Keeps, Fields
  <1>8. Fits(e, h, r) BY <1>4, <1>7, IdleFits
  <1>9. CASE c.pending # None
    <2>1. c.pending.kind = "rebuild" /\ c.pending.gen = c.gen /\ c.mode = "rolling" => NothingYet(c, h, r)
      BY <1>9 DEF Fits, Once, Rebuilding, NothingYet
    <2>2. MayRun(e, h, r, c.pending) BY <1>4, <1>7, <1>9, <2>1, IdleFits
    <2>3. Fits(d, h, r) /\ Keeps(e, d, WorkFields)
      BY <1>2, <1>4, <1>5, <1>6, <1>7, <1>8, <1>9, <2>2, StartPendingFits
    <2> QED BY <1>7, <2>3, KeptIsQuiet DEF Current
  <1>10. CASE c.pending = None
    <2>1. e = f
      <3>1. \A x \in Fields : e[x] = f[x]
        BY <1>4, <1>5, <1>10 DEF Keeps, Fields
      <3> QED BY <1>3, <1>4, <3>1 DEF IsRecord
    <2>2. CASE d = f BY <1>5, <1>8, <2>1, <2>2 DEF Current
    <2>3. CASE d = shown
      <3>1. IsRecord(shown) /\ Keeps(f, shown, {"cancelAsked", "phase"})
        BY <1>3 DEF IsRecord, Keeps, Fields
      <3> HIDE DEF shown
      <3>2. IsController(f) BY <1>8, <2>1 DEF Fits
      <3>3. Keeps(f, shown, Aside) /\ shown.desired \in Nat \cup {None} /\ shown.applied = f.applied
        BY <3>1, <3>2 DEF Keeps, Fields, Aside, IsController
      <3>4. Fits(shown, h, r) BY <1>8, <2>1, <3>1, <3>3, AsideFits
      <3> QED BY <1>5, <2>3, <3>3, <3>4 DEF Current
    <2> QED BY <1>2, <1>10, <2>2, <2>3
  <1> QED BY <1>9, <1>10

(* _on_stream_snapshot                                                     *)
LEMMA OnStreamSnapshotFits ==
  ASSUME NEW c, NEW d, NEW h, NEW m, NEW r, Fits(c, h, r), MessageFits(c, m), m.type = "snapshot",
         d \in OnStreamSnapshot(c, m.stream, m.over, m.value)
  PROVE  Fits(d, h, r) /\ Current(c, d)
  <1>1. IsController(c) /\ IsExact(m.value) /\ m.value.gen = m.stream
    BY DEF Fits, MessageFits
  <1>2. CASE d = c BY <1>2 DEF Current
  <1>3. CASE m.stream = c.gen /\ m.value.source = c.ctx /\ d \in Applied([c EXCEPT !.state = m.over], m.value)
    <2>1. m.over = c.state BY <1>3 DEF MessageFits
    <2>2. [c EXCEPT !.state = m.over] = c
      BY <1>1, <2>1 DEF IsController, IsRecord, Fields
    <2>3. Fits(d, h, r) /\ d.applied = m.value /\ d.gen = c.gen /\ d.ctx = c.ctx
      BY <1>1, <1>3, <2>2, AppliedFits
    <2> QED BY <1>1, <1>3, <2>3 DEF Current
  <1> QED BY <1>2, <1>3 DEF OnStreamSnapshot

(* _on_stream_finished                                                     *)
LEMMA OnStreamFinishedFits ==
  ASSUME NEW c, NEW d, NEW h, NEW m, NEW r, Fits(c, h, r), Takes(c, h, m, r), m.type = "stream_finished",
         d = OnStreamFinished(c, m.stream)
  PROVE  Fits(d, h, r) /\ Current(c, d)
  <1>1. CASE d = c BY <1>1 DEF Current
  <1>2. CASE m.stream = c.stream /\ d = [c EXCEPT !.stream = None]
    <2>1. IsController(c) /\ c.stream \in Nat /\ c.stream \notin DOMAIN c.streams
      BY <1>2 DEF Fits, Takes, MessageFits
    <2>2. IsRecord(d) /\ Keeps(c, d, {"stream"}) /\ d.stream = None
      BY <1>2, <2>1 DEF IsController, IsRecord, Keeps, Fields
    <2>3. /\ d.ctx = c.ctx /\ d.gen = c.gen /\ d.mode = c.mode /\ d.state = c.state
          /\ d.active = c.active /\ d.pending = c.pending /\ d.desired = c.desired
          /\ d.streams = c.streams /\ d.applied = c.applied /\ d.toRender = c.toRender /\ d.out = c.out
      BY <2>2 DEF Keeps, Fields
    <2>4. IsController(d) BY <2>1, <2>2, <2>3 DEF IsController
    <2>5. HeapFits(d, h) /\ StateFits(d, h) /\ ActiveFits(d, h) /\ PendingFits(d)
      BY <2>3 DEF Fits, HeapFits, StateFits, ActiveFits, PendingFits, TicketFits
    <2>6. ReadersFit(d, h)
      <3>1. ReadersFit(c, h) BY DEF Fits
      <3>2. \A g \in DOMAIN c.streams : g # c.gen BY <2>1, <3>1 DEF ReadersFit
      <3> QED BY <2>3, <3>1, <3>2 DEF ReadersFit
    <2>7. JobInOrder(d, r) /\ Once(d, h, r)
      BY <2>3 DEF Fits, JobInOrder, Once, Rebuilding
    <2>8. \A i \in DOMAIN r : MessageFits(d, r[i])
      <3>1. TAKE i \in DOMAIN r
      <3>2. MessageFits(c, r[i]) BY DEF Fits
      <3>3. CASE r[i].type = "stream_finished"
        <4>1. r[i].stream # c.stream BY <1>2, <3>3 DEF Takes
        <4> QED BY <2>3, <3>2, <3>3, <4>1 DEF MessageFits, JobTypes
      <3>4. CASE r[i].type # "stream_finished"
        BY <2>3, <3>2, <3>4 DEF MessageFits, TicketFits
      <3> QED BY <3>3, <3>4
    <2>9. \A s \in {d.applied, d.toRender, d.out} : s # None => IsExact(s)
      BY <2>3 DEF Fits
    <2> QED BY <2>3, <2>4, <2>5, <2>6, <2>7, <2>8, <2>9 DEF Fits, Current
  <1> QED BY <1>1, <1>2 DEF OnStreamFinished

(* One posted signal.                                                      *)
LEMMA OnMessageFits ==
  ASSUME NEW c, NEW d, NEW h, NEW h2, NEW b, NEW m, NEW r, Fits(c, h, b), b # << >>, m = Head(b),
         r = Tail(b), h2 = Delivered(c, m, h), d \in OnMessage(c, h, m)
  PROVE  Fits(d, h2, r) /\ Current(c, d)
  <1>1. Fits(c, h, r) /\ Takes(c, h, m, r) BY RestFits
  <1>2. m.type # "result" => h2 = h BY DEF Delivered
  <1>3. CASE m.type = "result" BY <1>1, <1>3, OnResultFits DEF OnMessage
  <1>4. CASE m.type = "error"
    <2>1. d = OnError(c, m.ticket.gen) BY <1>4 DEF OnMessage
    <2> QED BY <1>1, <1>2, <1>4, <2>1, OnErrorFits
  <1>5. CASE m.type = "finished"
    <2>1. d = OnFinished(c, h) /\ \A i \in DOMAIN r : r[i].type \notin JobTypes
      BY <1>1, <1>5 DEF OnMessage, Takes
    <2>2. h2 = h /\ Fits(c, h, r) BY <1>1, <1>2, <1>5
    <2>3. Fits(d, h, r) /\ Current(c, d) BY ONLY <2>1, <2>2, OnFinishedFits
    <2> QED BY <2>2, <2>3
  <1>6. CASE m.type = "snapshot"
    <2>1. d \in OnStreamSnapshot(c, m.stream, m.over, m.value) /\ MessageFits(c, m)
      BY <1>1, <1>6 DEF OnMessage, Takes
    <2> QED BY <1>1, <1>2, <1>6, <2>1, OnStreamSnapshotFits
  <1>7. CASE m.type = "stream_error"
    <2>1. d = OnError(c, m.stream) \/ d = c BY <1>7 DEF OnMessage
    <2> QED BY <1>1, <1>2, <1>7, <2>1, OnErrorFits DEF Current
  <1>8. CASE m.type = "stream_finished"
    <2>1. d = OnStreamFinished(c, m.stream) BY <1>8 DEF OnMessage
    <2> QED BY <1>1, <1>2, <1>8, <2>1, OnStreamFinishedFits
  <1>9. m.type \in JobTypes \cup {"snapshot", "stream_error", "stream_finished"}
    BY <1>1 DEF Takes, MessageFits
  <1> QED BY <1>3, <1>4, <1>5, <1>6, <1>7, <1>8, <1>9 DEF JobTypes

-----------------------------------------------------------------------------
(* After a handler.                                                        *)

(* What nobody refers to may go.                                           *)
LEMMA KeptFits ==
  ASSUME NEW c, NEW h, NEW h2, NEW b, Fits(c, h, b), h2 = Kept(c, h)
  PROVE  Fits(c, h2, b)
  <1> DEFINE K == {x \in DOMAIN h : \/ x = c.state
                                    \/ c.active # None /\ c.active.over = x
                                    \/ \E s \in DOMAIN c.streams : c.streams[s].over = x}
  <1>1. DOMAIN h2 = K /\ K \subseteq DOMAIN h /\ h2 = [g \in K |-> h[g]] /\ \A g \in K : h2[g] = h[g]
    BY DEF Kept
  <1>2. /\ c.state \in DOMAIN h => c.state \in K
        /\ c.active # None /\ c.active.over \in DOMAIN h => c.active.over \in K
        /\ \A s \in DOMAIN c.streams : c.streams[s].over \in DOMAIN h => c.streams[s].over \in K
    OBVIOUS
  <1> HIDE DEF K
  <1>3. HeapFits(c, h2) BY <1>1 DEF Fits, HeapFits
  <1>4. StateFits(c, h2) BY <1>1, <1>2 DEF Fits, StateFits
  <1>5. ActiveFits(c, h2) BY <1>1, <1>2 DEF Fits, ActiveFits
  <1>6. ReadersFit(c, h2) BY <1>1, <1>2 DEF Fits, ReadersFit
  <1>7. Once(c, h2, b) BY <1>1 DEF Fits, Once
  <1> QED BY <1>3, <1>4, <1>5, <1>6, <1>7 DEF Fits

(* What was emitted is handed over.                                        *)
LEMMA OutFits ==
  ASSUME NEW c, NEW d, NEW h, NEW b, Fits(c, h, b), d = [c EXCEPT !.out = None]
  PROVE  Fits(d, h, b) /\ d.out = None /\ Keeps(c, d, {"out"})
  <1>1. IsController(c) BY DEF Fits
  <1>2. IsRecord(d) /\ Keeps(c, d, {"out"}) /\ d.out = None
    BY <1>1 DEF IsController, IsRecord, Keeps, Fields
  <1>3. Keeps(c, d, {"applied", "toRender", "out"}) /\ d.applied = c.applied /\ d.toRender = c.toRender
    BY <1>2 DEF Keeps, Fields
  <1>4. Fits(d, h, b) BY <1>2, <1>3, ShownFits DEF Fits
  <1> QED BY <1>2, <1>4

-----------------------------------------------------------------------------
(* The workers post.                                                       *)

(* b2 is b, of length n, with x at its end; or with x and y.               *)
AreOneMore(b, b2, n, x) ==
  /\ b2 \in Seq(Values(b2)) /\ n \in Nat /\ DOMAIN b = 1 .. n /\ DOMAIN b2 = 1 .. n + 1
  /\ (\A i \in 1 .. n : b2[i] = b[i]) /\ b2[n + 1] = x

AreTwoMore(b, b2, n, x, y) ==
  /\ b2 \in Seq(Values(b2)) /\ n \in Nat /\ DOMAIN b = 1 .. n /\ DOMAIN b2 = 1 .. n + 2
  /\ (\A i \in 1 .. n : b2[i] = b[i]) /\ b2[n + 1] = x /\ b2[n + 2] = y

LEMMA OnePosted ==
  ASSUME NEW b, b \in Seq(Values(b)), NEW x, NEW b2, b2 = Append(b, x), NEW n, n = Len(b)
  PROVE  AreOneMore(b, b2, n, x)
  <1> DEFINE V == Values(b) \cup {x}
  <1>1. b \in Seq(V) /\ x \in V BY SeqMonotonic
  <1> HIDE DEF V
  <1>2. /\ Append(b, x) \in Seq(V) /\ Len(b) \in Nat /\ DOMAIN b = 1 .. Len(b)
        /\ Len(Append(b, x)) = Len(b) + 1 /\ DOMAIN Append(b, x) = 1 .. Len(b) + 1
        /\ Append(b, x)[Len(b) + 1] = x /\ \A i \in 1 .. Len(b) : Append(b, x)[i] = b[i]
    BY <1>1
  <1>3. b2 \in Seq(Range(b2)) /\ Range(b2) = Values(b2)
    <2>1. b2 \in Seq(Range(b2)) BY <1>2, SeqOfRange
    <2>2. Range(b2) = Values(b2) BY DEF Range, Values
    <2> QED BY <2>1, <2>2
  <1> QED BY <1>2, <1>3 DEF AreOneMore

LEMMA TwoPosted ==
  ASSUME NEW b, b \in Seq(Values(b)), NEW x, NEW y, NEW b2, b2 = b \o <<x, y>>, NEW n, n = Len(b)
  PROVE  AreTwoMore(b, b2, n, x, y)
  <1> DEFINE V == Values(b) \cup {x, y}
             p == <<x, y>>
  <1>1. b \in Seq(V) /\ p \in Seq(V) /\ Len(p) = 2 /\ p[1] = x /\ p[2] = y
    BY SeqMonotonic
  <1>2. n \in Nat /\ DOMAIN b = 1 .. n BY LenProperties
  <1>3. b2 = b \o p OBVIOUS
  <1> HIDE DEF V, p
  <1>4. /\ b2 \in Seq(V) /\ Len(b2) = n + 2
        /\ \A i \in 1 .. n + 2 : b2[i] = IF i <= n THEN b[i] ELSE p[i - n]
    BY <1>1, <1>3, ConcatProperties
  <1>5. DOMAIN b2 = 1 .. n + 2 BY <1>4, LenProperties
  <1>6. (\A i \in 1 .. n : b2[i] = b[i]) /\ b2[n + 1] = x /\ b2[n + 2] = y
    <2>1. \A i \in 1 .. n : b2[i] = b[i] BY <1>2, <1>4
    <2>2. b2[n + 1] = p[1]
      <3>1. n + 1 \in 1 .. n + 2 /\ ~(n + 1 <= n) /\ (n + 1) - n = 1 BY <1>2
      <3> QED BY <1>4, <3>1
    <2>3. b2[n + 2] = p[2]
      <3>1. n + 2 \in 1 .. n + 2 /\ ~(n + 2 <= n) /\ (n + 2) - n = 2 BY <1>2
      <3> QED BY <1>4, <3>1
    <2> QED BY <1>1, <2>1, <2>2, <2>3
  <1>7. b2 \in Seq(Range(b2)) /\ Range(b2) = Values(b2)
    <2>1. b2 \in Seq(Range(b2)) BY <1>4, SeqOfRange
    <2>2. Range(b2) = Values(b2) BY DEF Range, Values
    <2> QED BY <2>1, <2>2
  <1> QED BY <1>2, <1>5, <1>6, <1>7 DEF AreTwoMore

(* A message of a reader.                                                  *)
LEMMA ReaderPostsFits ==
  ASSUME NEW c, NEW h, NEW b, NEW b2, NEW m, Fits(c, h, b), b2 = Append(b, m), MessageFits(c, m),
         m.type \notin JobTypes, m.type = "snapshot" => m.stream \in DOMAIN c.streams,
         m.type = "stream_finished" =>
           \A i \in DOMAIN b : b[i].type = "stream_finished" => b[i].stream # m.stream
  PROVE  Fits(c, h, b2)
  <1> DEFINE n == Len(b)
  <1>1. /\ b2 \in Seq(Values(b2)) /\ n \in Nat /\ DOMAIN b = 1 .. n /\ DOMAIN b2 = 1 .. n + 1
        /\ (\A i \in 1 .. n : b2[i] = b[i]) /\ b2[n + 1] = m
    <2>1. b \in Seq(Values(b)) /\ n = Len(b) BY DEF Fits
    <2> HIDE DEF n
    <2>2. AreOneMore(b, b2, n, m) BY <2>1, OnePosted
    <2> QED BY <2>2 DEF AreOneMore
  <1> HIDE DEF n
  <1>2. \A i \in DOMAIN b2 : i \in DOMAIN b \/ i = n + 1 BY <1>1
  <1>3. JobInOrder(c, b) /\ (\A i \in DOMAIN b : MessageFits(c, b[i])) /\ Once(c, h, b) /\ EndsOnce(b)
    BY DEF Fits
  <1>4. EndsOnce(b2) BY <1>1, <1>2, <1>3 DEF EndsOnce
  <1>5. \A i \in DOMAIN b2 : MessageFits(c, b2[i]) BY <1>1, <1>2, <1>3
  <1>6. \A i \in DOMAIN b2 : b2[i].type \in JobTypes => i \in DOMAIN b /\ b2[i] = b[i]
    BY <1>1, <1>2
  <1>7. \A i \in DOMAIN b : i \in DOMAIN b2 /\ b2[i] = b[i] BY <1>1
  <1>8. JobInOrder(c, b2) BY <1>3, <1>6, <1>7 DEF JobInOrder, JobTypes
  <1>9. Once(c, h, b2)
    <2>1. Rebuilding(c, b2) => Rebuilding(c, b)
      BY <1>6 DEF Rebuilding, JobTypes
    <2> QED BY <1>1, <1>2, <1>3, <2>1 DEF Once
  <1> QED BY <1>1, <1>4, <1>5, <1>8, <1>9 DEF Fits

(* The controller with its job's end posted.                               *)
Ended(c) == [c EXCEPT !.active.done = TRUE]

LEMMA DoneIs ==
  ASSUME NEW c, NEW d, IsController(c), c.active # None, d = Ended(c)
  PROVE  /\ IsController(d) /\ Keeps(c, d, {"active"}) /\ d.active # None /\ d.active.done
         /\ d.active.ticket = c.active.ticket /\ d.active.over = c.active.over
  <1> DEFINE a == [c.active EXCEPT !.done = TRUE]
  <1>1. c.active \in Tasks BY DEF IsController
  <1>2. a \in Tasks /\ a # None /\ a.done = TRUE /\ a.ticket = c.active.ticket /\ a.over = c.active.over
    BY <1>1, HeatmapAssumption DEF Tasks
  <1>3. d = [c EXCEPT !.active = a] BY DEF Ended
  <1> HIDE DEF a
  <1>4. IsRecord(d) /\ Keeps(c, d, {"active"}) /\ d.active = a
    BY <1>3 DEF IsController, IsRecord, Keeps, Fields
  <1>5. IsController(d) BY <1>2, <1>4 DEF IsController, Keeps, Fields
  <1> QED BY <1>2, <1>4, <1>5

(* The end of the job, with a result or an error before it, or alone.      *)
LEMMA JobPostsFits ==
  ASSUME NEW c, NEW d, NEW h, NEW b, NEW b2, NEW x, Fits(c, h, b), c.active # None, ~c.active.done,
         d = Ended(c),
         \/ b2 = Append(b, TaskFinished)
         \/ /\ b2 = b \o <<x, TaskFinished>> /\ MessageFits(c, x) /\ x.type \in {"result", "error"}
            /\ x.ticket = c.active.ticket
  PROVE  Fits(d, h, b2)
  <1> DEFINE n == Len(b)
             k == IF b2 = Append(b, TaskFinished) THEN n + 1 ELSE n + 2
  <1>1. IsController(c) /\ b \in Seq(Values(b)) BY DEF Fits
  <1>2. /\ IsController(d) /\ Keeps(c, d, {"active"}) /\ d.active # None /\ d.active.done
        /\ d.active.ticket = c.active.ticket /\ d.active.over = c.active.over
    BY <1>1, DoneIs
  <1>3. /\ d.ctx = c.ctx /\ d.gen = c.gen /\ d.mode = c.mode /\ d.state = c.state
        /\ d.pending = c.pending /\ d.stream = c.stream /\ d.desired = c.desired
        /\ d.streams = c.streams /\ d.applied = c.applied /\ d.toRender = c.toRender /\ d.out = c.out
    BY <1>2 DEF Keeps, Fields
  <1>4. /\ b2 \in Seq(Values(b2)) /\ n \in Nat /\ k \in Nat /\ n < k
        /\ DOMAIN b = 1 .. n /\ DOMAIN b2 = 1 .. k
        /\ (\A i \in 1 .. n : b2[i] = b[i]) /\ b2[k] = TaskFinished
        /\ \A i \in DOMAIN b2 :
             \/ i \in DOMAIN b
             \/ i = k
             \/ /\ i = n + 1 /\ i < k /\ b2[i] = x /\ MessageFits(c, x) /\ x.type \in {"result", "error"}
                /\ x.ticket = c.active.ticket
    <2>1. CASE b2 = Append(b, TaskFinished)
      <3>1. /\ b2 \in Seq(Values(b2)) /\ n \in Nat /\ DOMAIN b = 1 .. n /\ DOMAIN b2 = 1 .. n + 1
            /\ (\A i \in 1 .. n : b2[i] = b[i]) /\ b2[n + 1] = TaskFinished
        <4>1. b \in Seq(Values(b)) /\ n = Len(b) BY <1>1
        <4> HIDE DEF n, k
        <4>2. AreOneMore(b, b2, n, TaskFinished) BY <2>1, <4>1, OnePosted
        <4> QED BY <4>2 DEF AreOneMore
      <3>2. k = n + 1 BY <2>1
      <3> HIDE DEF n, k
      <3> QED BY <3>1, <3>2
    <2>2. CASE b2 # Append(b, TaskFinished)
      <3>1. b2 = b \o <<x, TaskFinished>> BY <2>2
      <3>2. /\ b2 \in Seq(Values(b2)) /\ n \in Nat /\ DOMAIN b = 1 .. n /\ DOMAIN b2 = 1 .. n + 2
            /\ (\A i \in 1 .. n : b2[i] = b[i]) /\ b2[n + 1] = x /\ b2[n + 2] = TaskFinished
        <4>1. b \in Seq(Values(b)) /\ n = Len(b) BY <1>1
        <4> HIDE DEF n, k
        <4>2. AreTwoMore(b, b2, n, x, TaskFinished) BY <3>1, <4>1, TwoPosted
        <4> QED BY <4>2 DEF AreTwoMore
      <3>3. k = n + 2 BY <2>2
      <3>4. MessageFits(c, x) /\ x.type \in {"result", "error"} /\ x.ticket = c.active.ticket
        BY <2>2
      <3> HIDE DEF n, k
      <3> QED BY <3>2, <3>3, <3>4
    <2> QED BY <2>1, <2>2
  <1> HIDE DEF n, k
  <1>5. \A i \in DOMAIN b : b[i].type \notin JobTypes BY DEF Fits, JobInOrder
  <1>6. TaskFinished.type = "finished" BY DEF TaskFinished
  <1>7. HeapFits(d, h) /\ StateFits(d, h) /\ PendingFits(d) /\ ReadersFit(d, h)
    BY <1>2, <1>3 DEF Fits, HeapFits, StateFits, PendingFits, ReadersFit, TicketFits
  <1>8. ActiveFits(d, h) BY <1>2, <1>3 DEF Fits, ActiveFits, TicketFits
  <1>9. JobInOrder(d, b2)
    <2>1. \A i \in DOMAIN b2 : b2[i].type \in JobTypes => i = k \/ (i = n + 1 /\ i < k)
      BY <1>4, <1>5
    <2>2. \A i \in DOMAIN b2 : b2[i].type \in {"result", "error"} =>
            /\ b2[i].ticket = d.active.ticket
            /\ \E j \in DOMAIN b2 : i < j /\ b2[j].type = "finished"
      <3>1. TAKE i \in DOMAIN b2
      <3>2. HAVE b2[i].type \in {"result", "error"}
      <3>3. i # k BY <1>4, <1>6, <3>2
      <3>4. i < k /\ b2[i].ticket = c.active.ticket
        BY <1>4, <1>5, <3>2, <3>3 DEF JobTypes
      <3>5. k \in DOMAIN b2 /\ b2[k].type = "finished" BY <1>4, <1>6
      <3> QED BY <1>2, <3>4, <3>5
    <2>3. \A i, j \in DOMAIN b2 : b2[i].type = "finished" /\ b2[j].type \in JobTypes => j <= i
      <3>1. \A i \in DOMAIN b2 : b2[i].type = "finished" => i = k
        BY <1>4, <1>5 DEF JobTypes
      <3>2. \A j \in DOMAIN b2 : j <= k BY <1>4
      <3> QED BY <3>1, <3>2
    <2>4. \A i, j \in DOMAIN b2 : b2[i].type = "result" /\ b2[j].type = "result" => i = j
      <3>1. \A i \in DOMAIN b2 : b2[i].type = "result" => i = n + 1
        BY <1>4, <1>5, <1>6 DEF JobTypes
      <3> QED BY <3>1
    <2> QED BY <1>2, <2>2, <2>3, <2>4 DEF JobInOrder
  <1>10. \A i \in DOMAIN b2 : MessageFits(d, b2[i])
    <2>1. MessageFits(c, TaskFinished) BY <1>6 DEF MessageFits, JobTypes
    <2>2. \A i \in DOMAIN b2 : MessageFits(c, b2[i]) BY <1>4, <2>1 DEF Fits
    <2> QED BY <1>3, <2>2 DEF MessageFits, TicketFits
  <1>11. EndsOnce(b2)
    <2>1. \A i \in DOMAIN b2 : b2[i].type = "stream_finished" => i \in DOMAIN b /\ b2[i] = b[i]
      BY <1>4, <1>6
    <2> QED BY <2>1 DEF Fits, EndsOnce
  <1>12. Once(d, h, b2)
    <2>1. Rebuilding(d, b2) => Rebuilding(c, b) BY <1>2, <1>3 DEF Rebuilding
    <2>2. \A i \in DOMAIN b2 : b2[i].type = "snapshot" => i \in DOMAIN b /\ b2[i] = b[i]
      BY <1>4, <1>6
    <2> QED BY <1>2, <1>3, <2>1, <2>2 DEF Fits, Once
  <1>13. \A s \in {d.applied, d.toRender, d.out} : s # None => IsExact(s)
    BY <1>3 DEF Fits
  <1> QED BY <1>2, <1>4, <1>7, <1>8, <1>9, <1>10, <1>11, <1>12, <1>13 DEF Fits

-----------------------------------------------------------------------------
(* The workers calculate.                                                  *)

(* Accumulators that go on, each of its source and mode.                   *)
GoOn(h, h2) ==
  /\ h2 = [g \in DOMAIN h |-> h2[g]] /\ DOMAIN h2 = DOMAIN h
  /\ \A g \in DOMAIN h : IsAccumulator(h2[g]) /\ h2[g].mode = h[g].mode /\ h2[g].source = h[g].source

LEMMA WorkFits ==
  ASSUME NEW c, NEW d, NEW h, NEW h2, NEW b, Fits(c, h, b), IsRecord(d), Keeps(c, d, {"streams"}),
         AreStreams(d.streams), DOMAIN d.streams \subseteq DOMAIN c.streams, GoOn(h, h2), ReadersFit(d, h2)
  PROVE  Fits(d, h2, b)
  <1>1. /\ d.ctx = c.ctx /\ d.gen = c.gen /\ d.mode = c.mode /\ d.state = c.state
        /\ d.active = c.active /\ d.pending = c.pending /\ d.stream = c.stream /\ d.desired = c.desired
        /\ d.applied = c.applied /\ d.toRender = c.toRender /\ d.out = c.out
    BY DEF Keeps, Fields
  <1>2. IsController(d) BY <1>1 DEF Fits, IsController
  <1>3. HeapFits(d, h2) BY <1>1 DEF Fits, HeapFits, GoOn
  <1>4. StateFits(d, h2) /\ ActiveFits(d, h2) /\ PendingFits(d)
    BY <1>1 DEF Fits, StateFits, ActiveFits, PendingFits, TicketFits, GoOn
  <1>5. JobInOrder(d, b) /\ Once(d, h2, b)
    BY <1>1 DEF Fits, JobInOrder, Once, Rebuilding, GoOn
  <1>6. \A i \in DOMAIN b : MessageFits(d, b[i])
    BY <1>1 DEF Fits, MessageFits, TicketFits
  <1>7. \A s \in {d.applied, d.toRender, d.out} : s # None => IsExact(s)
    BY <1>1 DEF Fits
  <1> QED BY <1>2, <1>3, <1>4, <1>5, <1>6, <1>7 DEF Fits

(* One accumulator is given new values.                                    *)
Changed(h, h2, over, a) == h2 = [h EXCEPT ![over] = a]

LEMMA OneGoesOn ==
  ASSUME NEW c, NEW h, HeapFits(c, h), NEW over \in DOMAIN h, NEW a, IsAccumulator(a),
         a.mode = h[over].mode, a.source = h[over].source, NEW h2, Changed(h, h2, over, a)
  PROVE  GoOn(h, h2) /\ h2[over] = a /\ \A g \in DOMAIN h : g # over => h2[g] = h[g]
  <1>1. h = [g \in DOMAIN h |-> h[g]] /\ \A g \in DOMAIN h : IsAccumulator(h[g])
    BY DEF HeapFits
  <1>2. h2 = [g \in DOMAIN h |-> IF g = over THEN a ELSE h[g]]
    BY <1>1 DEF Changed
  <1> QED BY <1>1, <1>2 DEF GoOn

LEMMA DecayedFits ==
  ASSUME NEW c, NEW h, NEW h2, NEW b, NEW over, NEW frame, NEW a, Fits(c, h, b), over \in DOMAIN h,
         h[over].mode = "decay", frame \in Nat, a = Decayed(h[over], frame), Changed(h, h2, over, a)
  PROVE  /\ Fits(c, h2, b) /\ over \in DOMAIN h2
         /\ h2[over].mode = h[over].mode /\ h2[over].source = h[over].source
  <1>1. IsController(c) /\ HeapFits(c, h) /\ ReadersFit(c, h) BY DEF Fits
  <1>2. IsAccumulator(h[over]) BY <1>1 DEF HeapFits
  <1>3. IsAccumulator(a) /\ a.mode = h[over].mode /\ a.source = h[over].source
    BY <1>2 DEF Decayed, IsAccumulator
  <1>4. GoOn(h, h2) /\ h2[over] = a /\ \A g \in DOMAIN h : g # over => h2[g] = h[g]
    BY <1>1, <1>3, OneGoesOn
  <1>5. ReadersFit(c, h2) BY <1>1, <1>4 DEF ReadersFit, GoOn
  <1>6. IsRecord(c) /\ Keeps(c, c, {"streams"}) /\ AreStreams(c.streams)
    BY <1>1 DEF IsController, Keeps
  <1>7. Fits(c, h2, b) BY <1>4, <1>5, <1>6, WorkFits
  <1> QED BY <1>3, <1>4, <1>7 DEF GoOn

(* TaskWorker.run of a bounded job.                                        *)
LEMMA RunJobFits ==
  ASSUME Fits(hc, heap, inbox), RunJob
  PROVE  Fits(hc', heap', inbox') /\ Keeps(hc, hc', {"active"})
  <1> DEFINE t == hc.active.ticket
             over == hc.active.over
  <1>1. /\ IsController(hc) /\ hc.active # None /\ ~hc.active.done /\ hc' = Ended(hc)
        /\ t \in Tickets /\ t.frame \in Nat /\ TicketFits(hc, t) /\ t.kind # "stream"
        /\ t.kind = "advance" =>
             /\ over \in DOMAIN heap /\ heap[over].mode = "decay"
             /\ t.gen = hc.gen => heap[over].source = hc.ctx
    <2>1. IsController(hc) /\ hc.active # None /\ ~hc.active.done /\ hc' = Ended(hc)
      BY DEF Fits, RunJob, Ended
    <2>2. hc.active \in Tasks BY <2>1 DEF IsController
    <2> QED BY <2>1, <2>2 DEF Fits, ActiveFits, Tasks, Tickets
  <1>2. Keeps(hc, hc', {"active"}) BY <1>1, DoneIs
  <1>3. CASE JobCancelled BY <1>1, <1>2, <1>3, JobPostsFits DEF JobCancelled
  <1>4. CASE JobBuilds
    <2> DEFINE v == IF t.kind = "fixed" THEN None ELSE Rebuilt(t)
               x == [type |-> "result", ticket |-> t, value |-> v]
    <2>1. inbox' = inbox \o <<x, TaskFinished>> /\ heap' = heap /\ t.kind # "advance"
      BY <1>4 DEF JobBuilds
    <2>2. t.kind = "rebuild" => IsAccumulator(v) /\ v.source = t.source /\ v.mode = t.mode
      BY <1>1 DEF Rebuilt, IsAccumulator, Tickets
    <2>3. x.type = "result" /\ x.ticket = t /\ x.value = v OBVIOUS
    <2> HIDE DEF v, x
    <2>4. MessageFits(hc, x)
      BY <1>1, <2>1, <2>2, <2>3 DEF MessageFits, JobTypes
    <2> QED BY <1>1, <1>2, <2>1, <2>3, <2>4, JobPostsFits
  <1>5. CASE JobAdvances
    <2> DEFINE behind == t.frame < heap[over].at
               v == IF behind THEN None ELSE SnapshotOf(heap'[over], t.gen)
               x == [type |-> "result", ticket |-> t, value |-> v]
    <2>1. /\ inbox' = inbox \o <<x, TaskFinished>> /\ t.kind = "advance"
          /\ heap' = [heap EXCEPT ![over] = IF behind THEN heap[over] ELSE Decayed(heap[over], t.frame)]
      BY <1>5 DEF JobAdvances
    <2>2. /\ Fits(hc, heap', inbox) /\ over \in DOMAIN heap'
          /\ heap'[over].mode = "decay" /\ heap'[over].source = heap[over].source
      <3>1. CASE behind
        <4>1. heap' = heap BY <2>1, <3>1 DEF Fits, HeapFits
        <4> QED BY <1>1, <2>1, <4>1
      <3>2. CASE ~behind
        <4> DEFINE frame == t.frame
                   a == Decayed(heap[over], frame)
        <4>1. Changed(heap, heap', over, a) BY <2>1, <3>2 DEF Changed
        <4>2. over \in DOMAIN heap /\ heap[over].mode = "decay" /\ frame \in Nat
              /\ a = Decayed(heap[over], frame) /\ Fits(hc, heap, inbox)
          BY <1>1, <2>1
        <4> HIDE DEF over, t, a, frame
        <4>3. /\ Fits(hc, heap', inbox) /\ over \in DOMAIN heap'
              /\ heap'[over].mode = heap[over].mode /\ heap'[over].source = heap[over].source
          BY ONLY <4>1, <4>2, DecayedFits
        <4> QED BY <4>2, <4>3
      <3> QED BY <3>1, <3>2
    <2>3. v # None => v.mode = "decay" /\ v.gen = t.gen /\ (t.gen = hc.gen => v.source = hc.ctx)
      BY <1>1, <2>1, <2>2 DEF SnapshotOf
    <2>4. x.type = "result" /\ x.ticket = t /\ x.value = v OBVIOUS
    <2> HIDE DEF v, x
    <2>5. MessageFits(hc, x)
      BY <1>1, <2>1, <2>3, <2>4 DEF MessageFits, JobTypes
    <2> QED BY <1>1, <1>2, <2>1, <2>2, <2>4, <2>5, JobPostsFits
  <1>6. CASE JobFails
    <2> DEFINE x == [type |-> "error", ticket |-> t]
    <2>1. inbox' = inbox \o <<x, TaskFinished>> /\ heap' = heap
      BY <1>6 DEF JobFails
    <2>2. x.type = "error" /\ x.ticket = t OBVIOUS
    <2> HIDE DEF x
    <2>3. MessageFits(hc, x) BY <2>2 DEF MessageFits, JobTypes
    <2> QED BY <1>1, <1>2, <2>1, <2>2, <2>3, JobPostsFits
  <1> QED BY <1>3, <1>4, <1>5, <1>6 DEF RunJob

(* One reader is given new values.                                         *)
Moved(c, d, g, w) == d = [c EXCEPT !.streams[g] = w]

LEMMA OneMoves ==
  ASSUME NEW c, NEW d, NEW g, NEW w, IsController(c), g \in DOMAIN c.streams, w \in Readers, Moved(c, d, g, w)
  PROVE  /\ IsRecord(d) /\ Keeps(c, d, {"streams"}) /\ AreStreams(d.streams)
         /\ DOMAIN d.streams = DOMAIN c.streams /\ d.streams[g] = w
         /\ \A o \in DOMAIN c.streams : o # g => d.streams[o] = c.streams[o]
  <1> DEFINE new == [o \in DOMAIN c.streams |-> IF o = g THEN w ELSE c.streams[o]]
  <1>1. c.streams = [o \in DOMAIN c.streams |-> c.streams[o]]
    BY DEF IsController, AreStreams
  <1>2. [c.streams EXCEPT ![g] = w] = new BY <1>1
  <1>3. d = [c EXCEPT !.streams = new] BY <1>2 DEF Moved
  <1>4. /\ AreStreams(new) /\ DOMAIN new = DOMAIN c.streams /\ new[g] = w
        /\ \A o \in DOMAIN c.streams : o # g => new[o] = c.streams[o]
    BY DEF IsController, AreStreams
  <1> HIDE DEF new
  <1>5. IsRecord(d) /\ Keeps(c, d, {"streams"}) /\ d.streams = new
    BY <1>3 DEF IsController, IsRecord, Keeps, Fields
  <1> QED BY <1>4, <1>5

(* The reader takes a chunk that follows the accumulator.                  *)
LEMMA ChunkFits ==
  ASSUME NEW c, NEW d, NEW h, NEW h2, NEW b, NEW g, NEW w, NEW w2, NEW a, NEW busy, Fits(c, h, b),
         g \in DOMAIN c.streams, w = c.streams[g], w2 \in Readers, w2.over = w.over, w2.reading,
         w2.first = h[w.over].at + 1, w2.first <= w2.end, Moved(c, d, g, w2),
         busy <=> \E o \in DOMAIN c.streams \ {g} : c.streams[o].over = w.over /\ c.streams[o].reading,
         a = [h[w.over] EXCEPT !.shared = h[w.over].shared \/ busy], busy \in BOOLEAN,
         Changed(h, h2, w.over, a)
  PROVE  Fits(d, h2, b)
  <1> DEFINE x == w.over
  <1>1. IsController(c) /\ HeapFits(c, h) /\ ReadersFit(c, h) /\ x \in DOMAIN h /\ h[x].mode = "rolling"
    BY DEF Fits, ReadersFit
  <1>2. /\ IsRecord(d) /\ Keeps(c, d, {"streams"}) /\ AreStreams(d.streams)
        /\ DOMAIN d.streams = DOMAIN c.streams /\ d.streams[g] = w2
        /\ \A o \in DOMAIN c.streams : o # g => d.streams[o] = c.streams[o]
    BY <1>1, OneMoves
  <1>3. IsAccumulator(h[x]) BY <1>1 DEF HeapFits
  <1>4. /\ IsAccumulator(a) /\ a.mode = h[x].mode /\ a.source = h[x].source /\ a.at = h[x].at
        /\ a.shared = (h[x].shared \/ busy)
    <2>1. /\ a = [source |-> h[x].source, mode |-> h[x].mode, at |-> h[x].at, rows |-> h[x].rows,
                  shared |-> h[x].shared \/ busy]
      <3>1. h[x] = [source |-> h[x].source, mode |-> h[x].mode, at |-> h[x].at, rows |-> h[x].rows,
                    shared |-> h[x].shared]
        BY <1>3 DEF IsAccumulator
      <3> QED BY <3>1
    <2>2. (h[x].shared \/ busy) \in BOOLEAN OBVIOUS
    <2>3. /\ a.source = h[x].source /\ a.mode = h[x].mode /\ a.at = h[x].at /\ a.rows = h[x].rows
          /\ a.shared = (h[x].shared \/ busy)
      BY <2>1
    <2>4. (~a.shared => ~h[x].shared) /\ a.shared \in BOOLEAN
      BY <2>2, <2>3, Zenon
    <2>5. a = [source |-> a.source, mode |-> a.mode, at |-> a.at, rows |-> a.rows, shared |-> a.shared]
      BY <2>1, <2>3, Zenon
    <2> HIDE DEF x
    <2>6. IsAccumulator(a) BY ONLY <1>3, <2>3, <2>4, <2>5 DEF IsAccumulator
    <2> QED BY <2>3, <2>6, Zenon
  <1> HIDE DEF x
  <1>5. x = w.over /\ x = w2.over BY DEF x
  <1>6. GoOn(h, h2) /\ h2[x] = a /\ \A y \in DOMAIN h : y # x => h2[y] = h[y]
    <2>1. HeapFits(c, h) /\ x \in DOMAIN h BY <1>1
    <2>2. IsAccumulator(a) /\ a.mode = h[x].mode /\ a.source = h[x].source
      BY <1>4
    <2>3. Changed(h, h2, x, a) BY <1>5
    <2> QED BY ONLY <2>1, <2>2, <2>3, OneGoesOn
  <1>7. d.gen = c.gen /\ d.stream = c.stream /\ d.state = c.state /\ d.mode = c.mode
    BY <1>2 DEF Keeps, Fields
  <1>8. \A o \in DOMAIN c.streams : d.streams[o].over = c.streams[o].over
    BY <1>2, <1>5
  <1>9. ReadersFit(d, h2)
    <2>1. \A o \in DOMAIN d.streams :
            /\ o <= d.gen
            /\ o = d.gen => d.stream = o /\ d.streams[o].over = d.state /\ d.mode = "rolling"
            /\ d.streams[o].over \in DOMAIN h2 /\ h2[d.streams[o].over].mode = "rolling"
      BY <1>1, <1>2, <1>6, <1>7, <1>8 DEF ReadersFit, GoOn
    <2>2. \A o \in DOMAIN d.streams : d.streams[o].reading =>
            /\ d.streams[o].first <= d.streams[o].end
            /\ ~h2[d.streams[o].over].shared =>
                 /\ d.streams[o].first = h2[d.streams[o].over].at + 1
                 /\ \A p \in DOMAIN d.streams :
                      d.streams[p].reading /\ d.streams[p].over = d.streams[o].over => p = o
      <3>1. TAKE o \in DOMAIN d.streams
      <3>2. HAVE d.streams[o].reading
      <3>3. CASE o = g
        <4>1. ~a.shared => \A p \in DOMAIN c.streams : c.streams[p].over = x /\ c.streams[p].reading => p = g
          BY <1>4, <1>5
        <4>2. d.streams[o] = w2 /\ d.streams[o].over = x /\ h2[d.streams[o].over] = a
          BY <1>2, <1>5, <1>6, <3>3
        <4>3. w2.first <= w2.end /\ w2.first = a.at + 1 BY <1>4, <1>5
        <4>4. ~a.shared => \A p \in DOMAIN d.streams : d.streams[p].over = x /\ d.streams[p].reading => p = g
          <5>1. \A p \in DOMAIN d.streams : p \in DOMAIN c.streams /\ (p # g => d.streams[p] = c.streams[p])
            BY <1>2
          <5> QED BY <4>1, <5>1
        <4> QED BY <3>3, <4>2, <4>3, <4>4
      <3>4. CASE o # g /\ c.streams[o].over = x
        <4>1. busy BY <1>2, <1>5, <3>1, <3>2, <3>4
        <4>2. a.shared BY <1>4, <4>1
        <4>3. d.streams[o] = c.streams[o] /\ o \in DOMAIN c.streams
          BY <1>2, <3>1, <3>4
        <4>4. h2[d.streams[o].over].shared BY <1>6, <3>4, <4>2, <4>3
        <4>5. d.streams[o].first <= d.streams[o].end
          BY <1>1, <3>2, <4>3 DEF ReadersFit
        <4> QED BY <4>4, <4>5
      <3>5. CASE o # g /\ c.streams[o].over # x
        <4>1. d.streams[o] = c.streams[o] /\ h2[c.streams[o].over] = h[c.streams[o].over]
          BY <1>1, <1>2, <1>6, <3>1, <3>5 DEF ReadersFit
        <4>2. \A p \in DOMAIN d.streams : d.streams[p].over = c.streams[o].over => d.streams[p] = c.streams[p]
          BY <1>2, <1>5, <3>5
        <4> QED BY <1>1, <1>2, <3>1, <3>2, <4>1, <4>2 DEF ReadersFit
      <3> QED BY <3>3, <3>4, <3>5
    <2> QED BY ONLY <2>1, <2>2 DEF ReadersFit
  <1>10. DOMAIN d.streams \subseteq DOMAIN c.streams BY <1>2
  <1> QED BY ONLY Fits(c, h, b), <1>2, <1>6, <1>9, <1>10, WorkFits

(* The accumulator of a reader is where it was or, if it was reading, at   *)
(* the end of what entered.                                                *)
MovedOn(h, h2, w) ==
  /\ GoOn(h, h2) /\ \A y \in DOMAIN h : y # w.over => h2[y] = h[y]
  /\ h2[w.over].shared = h[w.over].shared /\ (h2[w.over] = h[w.over] \/ w.reading)

(* The reader has done with its chunk.                                     *)
LEMMA StoppedFits ==
  ASSUME NEW c, NEW d, NEW h, NEW h2, NEW b, NEW g, NEW w, NEW w2, Fits(c, h, b),
         g \in DOMAIN c.streams, w = c.streams[g], w2 \in Readers, w2.over = w.over, ~w2.reading,
         Moved(c, d, g, w2), MovedOn(h, h2, w)
  PROVE  Fits(d, h2, b) /\ Keeps(c, d, {"streams"}) /\ DOMAIN d.streams = DOMAIN c.streams
  <1>1. IsController(c) /\ ReadersFit(c, h) BY DEF Fits
  <1>0. /\ GoOn(h, h2) /\ \A y \in DOMAIN h : y # w.over => h2[y] = h[y]
        /\ h2[w.over].shared = h[w.over].shared /\ (h2[w.over] = h[w.over] \/ w.reading)
    BY DEF MovedOn
  <1>2. /\ IsRecord(d) /\ Keeps(c, d, {"streams"}) /\ AreStreams(d.streams)
        /\ DOMAIN d.streams = DOMAIN c.streams /\ d.streams[g] = w2
        /\ \A o \in DOMAIN c.streams : o # g => d.streams[o] = c.streams[o]
    BY <1>1, OneMoves
  <1>3. d.gen = c.gen /\ d.stream = c.stream /\ d.state = c.state /\ d.mode = c.mode
    BY <1>2 DEF Keeps, Fields
  <1>4. \A o \in DOMAIN c.streams : d.streams[o].over = c.streams[o].over
    BY <1>2
  <1>5. ReadersFit(d, h2)
    <2>1. \A o \in DOMAIN d.streams :
            /\ o <= d.gen
            /\ o = d.gen => d.stream = o /\ d.streams[o].over = d.state /\ d.mode = "rolling"
            /\ d.streams[o].over \in DOMAIN h2 /\ h2[d.streams[o].over].mode = "rolling"
      BY <1>0, <1>1, <1>2, <1>3, <1>4 DEF ReadersFit, GoOn
    <2>2. \A o \in DOMAIN d.streams : d.streams[o].reading =>
            /\ d.streams[o].first <= d.streams[o].end
            /\ ~h2[d.streams[o].over].shared =>
                 /\ d.streams[o].first = h2[d.streams[o].over].at + 1
                 /\ \A p \in DOMAIN d.streams :
                      d.streams[p].reading /\ d.streams[p].over = d.streams[o].over => p = o
      <3>1. TAKE o \in DOMAIN d.streams
      <3>2. HAVE d.streams[o].reading
      <3>3. o # g /\ o \in DOMAIN c.streams /\ d.streams[o] = c.streams[o]
        BY <1>2, <3>1, <3>2
      <3>4. /\ c.streams[o].first <= c.streams[o].end
            /\ ~h[c.streams[o].over].shared =>
                 /\ c.streams[o].first = h[c.streams[o].over].at + 1
                 /\ \A p \in DOMAIN c.streams :
                      c.streams[p].reading /\ c.streams[p].over = c.streams[o].over => p = o
        BY <1>1, <3>2, <3>3 DEF ReadersFit
      <3>5. \A p \in DOMAIN d.streams : d.streams[p].reading => d.streams[p] = c.streams[p]
        BY <1>2
      <3>6. CASE h2[c.streams[o].over] = h[c.streams[o].over]
        BY <1>2, <3>3, <3>4, <3>5, <3>6
      <3>7. CASE h2[c.streams[o].over] # h[c.streams[o].over]
        <4>1. c.streams[o].over = w.over /\ w.reading
          BY <1>0, <1>1, <3>3, <3>7 DEF ReadersFit
        <4>2. h[w.over].shared BY <3>3, <3>4, <4>1
        <4> QED BY <1>0, <3>3, <3>4, <4>1, <4>2
      <3> QED BY <3>6, <3>7
    <2> QED BY <2>1, <2>2 DEF ReadersFit
  <1>6. Fits(d, h2, b) BY <1>0, <1>2, <1>5, WorkFits
  <1> QED BY <1>2, <1>6

(* What enters follows the window it enters.                               *)
LEMMA AdvancedIs ==
  ASSUME NEW c, NEW h, NEW b, NEW g, NEW w, NEW upto, NEW a, Fits(c, h, b), g \in DOMAIN c.streams,
         w = c.streams[g], w.reading, upto \in Nat, w.first <= upto,
         RingHasRoom(h[w.over].rows, w.first, upto), a = Advanced(h[w.over], w.first, upto)
  PROVE  /\ IsAccumulator(a) /\ a.mode = "rolling" /\ a.mode = h[w.over].mode /\ a.source = h[w.over].source
         /\ a.shared = h[w.over].shared /\ w.over \in DOMAIN h
  <1> DEFINE s == h[w.over]
  <1>1. /\ w.over \in DOMAIN h /\ s.mode = "rolling" /\ IsAccumulator(s)
        /\ ~s.shared => w.first = s.at + 1
    BY DEF Fits, ReadersFit, HeapFits
  <1>2. s = [source |-> s.source, mode |-> s.mode, at |-> s.at, rows |-> s.rows, shared |-> s.shared]
    BY <1>1 DEF IsAccumulator
  <1>3. s = h[w.over] BY Zenon
  <1> HIDE DEF s
  <1> DEFINE rows == Evicted(s.rows, upto) \o FramesFrom(w.first, upto)
  <1>4. a = [source |-> s.source, mode |-> s.mode, at |-> upto, rows |-> rows, shared |-> s.shared]
    BY <1>2, <1>3 DEF Advanced
  <1>5. ~s.shared => rows = ExactWindow(upto)
    <2>1. HAVE ~s.shared
    <2>2. s.rows = ExactWindow(s.at) /\ s.at \in Nat /\ w.first = s.at + 1
      BY <1>1, <1>3, <2>1 DEF IsAccumulator
    <2>3. s.at < upto /\ RingHasRoom(s.rows, s.at + 1, upto) BY <1>3, <2>2
    <2>4. Evicted(s.rows, upto) \o FramesFrom(s.at + 1, upto) = ExactWindow(upto)
      BY <2>2, <2>3, WindowMoves
    <2> QED BY <2>2, <2>4
  <1> HIDE DEF rows
  <1> QED BY <1>1, <1>3, <1>4, <1>5 DEF IsAccumulator

LEMMA ReadChunkFits ==
  ASSUME Fits(hc, heap, inbox), NEW g \in DOMAIN hc.streams, ReadChunk(g)
  PROVE  Fits(hc', heap', inbox') /\ Keeps(hc, hc', {"streams"})
  <1> DEFINE w == hc.streams[g]
             first == heap[w.over].at + 1
             end == IF w.high < first + Chunk THEN w.high ELSE first + Chunk - 1
             w2 == [w EXCEPT !.reading = TRUE, !.first = first, !.end = end]
             busy == \E o \in DOMAIN hc.streams \ {g} :
                       hc.streams[o].over = w.over /\ hc.streams[o].reading
             a == [heap[w.over] EXCEPT !.shared = heap[w.over].shared \/ busy]
  <1>1. IsController(hc) /\ w \in Readers /\ w.high \in Nat /\ w.over \in DOMAIN heap
        /\ IsAccumulator(heap[w.over]) /\ heap = [x \in DOMAIN heap |-> heap[x]]
    BY DEF Fits, IsController, AreStreams, Readers, ReadersFit, HeapFits
  <1>2. first \in Nat /\ end \in Nat /\ first <= end
    <2>1. heap[w.over].at \in Nat BY <1>1 DEF IsAccumulator
    <2>2. w.high >= first /\ w.high \in Nat BY <1>1 DEF ReadChunk
    <2>3. Chunk \in Nat /\ Chunk >= 1 BY HeatmapAssumption
    <2> QED BY <2>1, <2>2, <2>3
  <1>3. w2 \in Readers /\ w2.over = w.over /\ w2.reading /\ w2.first = first /\ w2.end = end
    <2> HIDE DEF first, end
    <2> QED BY <1>1, <1>2 DEF Readers
  <1>4. Moved(hc, hc', g, w2) BY DEF ReadChunk, Moved
  <1>5. Changed(heap, heap', w.over, a)
    <2>1. heap' = [heap EXCEPT ![w.over] = [heap[w.over] EXCEPT !.shared = heap[w.over].shared \/ busy]]
      BY DEF ReadChunk
    <2> QED BY <2>1 DEF Changed
  <1>6. busy \in BOOLEAN /\ inbox' = inbox BY DEF ReadChunk
  <1>7. IsController(hc) BY <1>1
  <1>8. Keeps(hc, hc', {"streams"})
    <2> HIDE DEF w2
    <2> QED BY <1>3, <1>4, <1>7, OneMoves
  <1>9. /\ busy <=> \E o \in DOMAIN hc.streams \ {g} : hc.streams[o].over = w.over /\ hc.streams[o].reading
        /\ a = [heap[w.over] EXCEPT !.shared = heap[w.over].shared \/ busy]
        /\ w = hc.streams[g] /\ first = heap[w.over].at + 1
    OBVIOUS
  <1> HIDE DEF w, first, end, w2, busy, a
  <1>10. w2.first = heap[w.over].at + 1 /\ w2.first <= w2.end
    BY <1>2, <1>3, <1>9
  <1>11. Fits(hc', heap', inbox)
    BY ONLY Fits(hc, heap, inbox), g \in DOMAIN hc.streams, <1>3, <1>4, <1>5, <1>6, <1>9, <1>10, ChunkFits
  <1> QED BY <1>6, <1>8, <1>11

(* A reader that has done with its chunk, over the accumulator a.          *)
LEMMA LeftFits ==
  ASSUME NEW c, NEW d, NEW h, NEW h2, NEW b, NEW g, NEW w, NEW w2, NEW upto, NEW a, Fits(c, h, b),
         g \in DOMAIN c.streams, w = c.streams[g], w.reading, upto \in Nat, w.first <= upto,
         RingHasRoom(h[w.over].rows, w.first, upto), a = Advanced(h[w.over], w.first, upto),
         w2 = [w EXCEPT !.reading = FALSE], Moved(c, d, g, w2), Changed(h, h2, w.over, a)
  PROVE  Fits(d, h2, b) /\ Keeps(c, d, {"streams"}) /\ DOMAIN d.streams = DOMAIN c.streams
  <1> DEFINE x == w.over
  <1>1. w \in Readers /\ HeapFits(c, h) BY DEF Fits, IsController, AreStreams
  <1>2. w2 \in Readers /\ w2.over = x /\ ~w2.reading BY <1>1 DEF Readers
  <1>3. /\ IsAccumulator(a) /\ a.mode = h[x].mode /\ a.source = h[x].source
        /\ a.shared = h[x].shared /\ x \in DOMAIN h
    BY AdvancedIs
  <1>4. Changed(h, h2, x, a) OBVIOUS
  <1>5. x = w.over OBVIOUS
  <1> HIDE DEF x
  <1>6. GoOn(h, h2) /\ h2[x] = a /\ \A y \in DOMAIN h : y # x => h2[y] = h[y]
    BY ONLY <1>1, <1>3, <1>4, OneGoesOn
  <1>7. MovedOn(h, h2, w) /\ w2.over = w.over /\ w2 \in Readers /\ ~w2.reading
    BY <1>2, <1>3, <1>5, <1>6 DEF MovedOn
  <1> QED
    BY ONLY <1>7, Fits(c, h, b), g \in DOMAIN c.streams, w = c.streams[g], Moved(c, d, g, w2), StoppedFits

LEMMA CommitChunkFits ==
  ASSUME Fits(hc, heap, inbox), NEW g \in DOMAIN hc.streams, CommitChunk(g)
  PROVE  Fits(hc', heap', inbox') /\ Keeps(hc, hc', {"streams"})
  <1> DEFINE w == hc.streams[g]
             w2 == [w EXCEPT !.reading = FALSE]
             a == Advanced(heap[w.over], w.first, w.end)
             m == [type |-> "snapshot", stream |-> g, over |-> w.over, value |-> SnapshotOf(a, g)]
  <1>1. IsController(hc) /\ w \in Readers /\ ReadersFit(hc, heap)
    BY DEF Fits, IsController, AreStreams
  <1>2. /\ w.reading /\ w.end \in Nat /\ w.first <= w.end
        /\ RingHasRoom(heap[w.over].rows, w.first, w.end)
    BY <1>1 DEF CommitChunk, Readers, ReadersFit
  <1>3. Changed(heap, heap', w.over, a) BY DEF CommitChunk, Changed
  <1>4. Moved(hc, hc', g, w2)
    <2>1. hc' = [hc EXCEPT !.streams = [hc.streams EXCEPT ![g] = [hc.streams[g] EXCEPT !.reading = FALSE]]]
      BY DEF CommitChunk
    <2> QED BY <2>1 DEF Moved
  <1>5. inbox' = inbox \/ inbox' = Append(inbox, m) BY DEF CommitChunk
  <1>6. a = Advanced(heap[w.over], w.first, w.end) /\ w2 = [w EXCEPT !.reading = FALSE] /\ w = hc.streams[g]
        /\ g \in DOMAIN hc.streams /\ Fits(hc, heap, inbox)
    OBVIOUS
  <1>7. /\ m.type = "snapshot" /\ m.stream = g /\ m.over = w.over
        /\ m.value.mode = a.mode /\ m.value.shared = a.shared /\ m.value.rows = a.rows
        /\ m.value.frame = a.at /\ m.value.gen = g
    BY DEF SnapshotOf
  <1> HIDE DEF w2, a, m
  <1>8. IsAccumulator(a)
    <2> HIDE DEF w
    <2> QED BY ONLY <1>2, <1>6, AdvancedIs
  <1>9. Fits(hc', heap', inbox) /\ Keeps(hc, hc', {"streams"}) /\ DOMAIN hc'.streams = DOMAIN hc.streams
    <2> HIDE DEF w
    <2> QED BY ONLY <1>2, <1>3, <1>4, <1>6, LeftFits
  <1>10. MessageFits(hc', m)
    <2>1. IsExact(m.value) BY <1>7, <1>8 DEF IsAccumulator, IsExact
    <2>2. /\ hc'.gen = hc.gen /\ hc'.state = hc.state /\ hc'.mode = hc.mode
      BY <1>9 DEF Keeps, Fields
    <2>3. g \in Nat /\ g <= hc.gen /\ (g = hc.gen => w.over = hc.state /\ hc.mode = "rolling")
      BY <1>1 DEF IsController, AreStreams, ReadersFit
    <2>4. w.over \in Nat /\ w.over # None
      BY <1>1, HeatmapAssumption DEF Readers
    <2> QED BY <1>7, <2>1, <2>2, <2>3, <2>4 DEF MessageFits, JobTypes
  <1>11. m.type \notin JobTypes /\ m.stream \in DOMAIN hc'.streams
    BY <1>7, <1>9 DEF JobTypes
  <1>12. CASE inbox' = Append(inbox, m)
    BY <1>7, <1>9, <1>10, <1>11, <1>12, ReaderPostsFits
  <1> QED BY <1>5, <1>9, <1>12

LEMMA AbandonChunkFits ==
  ASSUME Fits(hc, heap, inbox), NEW g \in DOMAIN hc.streams, AbandonChunk(g)
  PROVE  Fits(hc', heap', inbox') /\ Keeps(hc, hc', {"streams"})
  <1> DEFINE w == hc.streams[g]
             w2 == [w EXCEPT !.reading = FALSE]
  <1>1. IsController(hc) /\ w \in Readers /\ HeapFits(hc, heap)
    BY DEF Fits, IsController, AreStreams
  <1>2. w.reading /\ w.first \in Nat /\ w.end \in Nat /\ inbox' = inbox
    BY <1>1 DEF AbandonChunk, Readers
  <1>3. Moved(hc, hc', g, w2)
    <2>1. hc' = [hc EXCEPT !.streams = [hc.streams EXCEPT ![g] = [hc.streams[g] EXCEPT !.reading = FALSE]]]
      BY DEF AbandonChunk
    <2> QED BY <2>1 DEF Moved
  <1>4. w2 = [w EXCEPT !.reading = FALSE] /\ w = hc.streams[g]
        /\ g \in DOMAIN hc.streams /\ Fits(hc, heap, inbox)
    OBVIOUS
  <1>5. CASE heap' = heap
    <2>1. w2 \in Readers /\ w2.over = w.over /\ ~w2.reading BY <1>1 DEF Readers
    <2>2. MovedOn(heap, heap', w) BY <1>1, <1>5 DEF GoOn, HeapFits, MovedOn
    <2> HIDE DEF w, w2
    <2>3. Fits(hc', heap', inbox) /\ Keeps(hc, hc', {"streams"})
      BY ONLY <1>3, <1>4, <2>1, <2>2, StoppedFits
    <2> QED BY <1>2, <2>3
  <1>6. CASE \E upto \in w.first .. w.end :
               /\ RingHasRoom(heap[w.over].rows, w.first, upto)
               /\ heap' = [heap EXCEPT ![w.over] = Advanced(heap[w.over], w.first, upto)]
    <2>1. PICK upto \in w.first .. w.end :
               /\ RingHasRoom(heap[w.over].rows, w.first, upto)
               /\ heap' = [heap EXCEPT ![w.over] = Advanced(heap[w.over], w.first, upto)]
      BY <1>6
    <2> DEFINE a == Advanced(heap[w.over], w.first, upto)
    <2>2. upto \in Nat /\ w.first <= upto /\ a = Advanced(heap[w.over], w.first, upto)
      BY <1>2
    <2>3. Changed(heap, heap', w.over, a) /\ RingHasRoom(heap[w.over].rows, w.first, upto)
      BY <2>1 DEF Changed
    <2> HIDE DEF w, w2, a
    <2>4. Fits(hc', heap', inbox) /\ Keeps(hc, hc', {"streams"})
      BY ONLY <1>2, <1>3, <1>4, <2>2, <2>3, LeftFits
    <2> QED BY <1>2, <2>4
  <1> QED BY <1>5, <1>6 DEF AbandonChunk

(* A reader that is gone.                                                  *)
Removed(c, d, g) == d = [c EXCEPT !.streams = [o \in DOMAIN c.streams \ {g} |-> c.streams[o]]]
EndOf(g) == [type |-> "stream_finished", stream |-> g]

LEMMA RemovedFits ==
  ASSUME NEW c, NEW d, NEW h, NEW b, NEW g, Fits(c, h, b), g \in DOMAIN c.streams, Removed(c, d, g)
  PROVE  /\ Fits(d, h, b) /\ Keeps(c, d, {"streams"}) /\ DOMAIN d.streams = DOMAIN c.streams \ {g}
  <1> DEFINE new == [o \in DOMAIN c.streams \ {g} |-> c.streams[o]]
  <1>1. IsController(c) /\ HeapFits(c, h) /\ ReadersFit(c, h) BY DEF Fits
  <1>2. /\ AreStreams(new) /\ DOMAIN new = DOMAIN c.streams \ {g}
        /\ \A o \in DOMAIN new : new[o] = c.streams[o]
    BY <1>1 DEF IsController, AreStreams
  <1>3. d = [c EXCEPT !.streams = new] BY DEF Removed
  <1> HIDE DEF new
  <1>4. IsRecord(d) /\ Keeps(c, d, {"streams"}) /\ d.streams = new
    BY <1>1, <1>3 DEF IsController, IsRecord, Keeps, Fields
  <1>5. d.gen = c.gen /\ d.stream = c.stream /\ d.state = c.state /\ d.mode = c.mode
    BY <1>4 DEF Keeps, Fields
  <1>6. ReadersFit(d, h) BY <1>1, <1>2, <1>4, <1>5 DEF ReadersFit
  <1>7. GoOn(h, h) BY <1>1 DEF GoOn, HeapFits
  <1>8. AreStreams(d.streams) /\ DOMAIN d.streams \subseteq DOMAIN c.streams
    BY <1>2, <1>4
  <1>9. Fits(d, h, b) BY ONLY Fits(c, h, b), <1>4, <1>6, <1>7, <1>8, WorkFits
  <1> QED BY <1>2, <1>4, <1>9

(* What it posts last.                                                     *)
LEMMA GoneFits ==
  ASSUME NEW c, NEW d, NEW h, NEW b, NEW b2, NEW g, NEW m, Fits(c, h, b),
         g \in DOMAIN c.streams, Fits(d, h, b),
         Keeps(c, d, {"streams"}), DOMAIN d.streams = DOMAIN c.streams \ {g},
         m = EndOf(g), b2 = Append(b, m)
  PROVE  Fits(d, h, b2)
  <1>1. m.type = "stream_finished" /\ m.stream = g BY DEF EndOf
  <1>2. d.gen = c.gen /\ d.stream = c.stream BY DEF Keeps, Fields
  <1>3. g \in Nat /\ g <= c.gen /\ (g = c.gen => c.stream = g)
    BY DEF Fits, IsController, AreStreams, ReadersFit
  <1>4. MessageFits(d, m) BY <1>1, <1>2, <1>3 DEF MessageFits, JobTypes
  <1>5. \A i \in DOMAIN b : b[i].type = "stream_finished" => b[i].stream # m.stream
    BY <1>1 DEF Fits, MessageFits
  <1>6. m.type \notin JobTypes /\ m.type # "snapshot" BY <1>1 DEF JobTypes
  <1> QED BY <1>4, <1>5, <1>6, ReaderPostsFits

LEMMA EndStreamFits ==
  ASSUME Fits(hc, heap, inbox), NEW g \in DOMAIN hc.streams, EndStream(g)
  PROVE  Fits(hc', heap', inbox') /\ Keeps(hc, hc', {"streams"})
  <1> DEFINE m == EndOf(g)
  <1>1. Removed(hc, hc', g) /\ inbox' = Append(inbox, m) /\ heap' = Kept(hc', heap)
    BY DEF EndStream, WithoutStream, Removed, EndOf
  <1> HIDE DEF m
  <1>2. Fits(hc', heap, inbox) /\ Keeps(hc, hc', {"streams"}) /\ DOMAIN hc'.streams = DOMAIN hc.streams \ {g}
    BY <1>1, RemovedFits
  <1>3. Fits(hc', heap, inbox') BY <1>1, <1>2, GoneFits DEF m
  <1> QED BY <1>1, <1>2, <1>3, KeptFits

LEMMA FailChunkFits ==
  ASSUME Fits(hc, heap, inbox), NEW g \in DOMAIN hc.streams, FailChunk(g)
  PROVE  Fits(hc', heap', inbox') /\ Keeps(hc, hc', {"streams"})
  <1> DEFINE e == [type |-> "stream_error", stream |-> g]
             m == EndOf(g)
             b == Append(inbox, e)
  <1>1. Removed(hc, hc', g) /\ inbox' = inbox \o <<e, m>> /\ heap' = Kept(hc', heap)
    BY DEF FailChunk, WithoutStream, Removed, EndOf
  <1>2. inbox' = Append(b, m)
    <2>1. inbox \in Seq(Values(inbox)) BY DEF Fits
    <2> HIDE DEF e, m
    <2> QED BY <1>1, <2>1
  <1>3. e.type = "stream_error" /\ m = EndOf(g) OBVIOUS
  <1>4. b = Append(inbox, e) OBVIOUS
  <1> HIDE DEF e, b, m
  <1>5. MessageFits(hc, e) /\ e.type \notin JobTypes
    BY <1>3 DEF MessageFits, JobTypes
  <1>6. Fits(hc, heap, b) BY <1>3, <1>4, <1>5, ReaderPostsFits
  <1>7. Fits(hc', heap, b) /\ Keeps(hc, hc', {"streams"}) /\ DOMAIN hc'.streams = DOMAIN hc.streams \ {g}
    BY <1>1, <1>6, RemovedFits
  <1>8. Fits(hc', heap, inbox') BY <1>2, <1>3, <1>6, <1>7, GoneFits
  <1> QED BY <1>1, <1>7, <1>8, KeptFits

(* The workers apply nothing.                                              *)
LEMMA WorkStepFits ==
  ASSUME Fits(hc, heap, inbox), Work
  PROVE  Fits(hc', heap', inbox') /\ hc'.applied = hc.applied /\ hc'.out = hc.out
  <1>1. CASE RunJob BY <1>1, RunJobFits DEF Keeps, Fields
  <1>2. CASE \E g \in DOMAIN hc.streams : RunStream(g)
    <2>1. PICK g \in DOMAIN hc.streams : RunStream(g)
      BY <1>2
    <2>2. Fits(hc', heap', inbox') /\ Keeps(hc, hc', {"streams"})
      BY <2>1, ReadChunkFits, CommitChunkFits, AbandonChunkFits, EndStreamFits, FailChunkFits DEF RunStream
    <2> QED BY <2>2 DEF Keeps, Fields
  <1> QED BY <1>1, <1>2 DEF Work

-----------------------------------------------------------------------------
(* The workspace.                                                          *)

LEMMA QuietTwice ==
  ASSUME NEW c, NEW d, NEW e, Quiet(c, d)
  PROVE  /\ Quiet(c, c) /\ Current(c, d)
         /\ Quiet(d, e) => Quiet(c, e)
         /\ Current(d, e) => Current(c, e)
  BY DEF Quiet, Current

(* A layer that may be shown in a session.                                 *)
Shows(layer, s) == layer # None => IsExact(layer) /\ layer.source = s

Applies(c, d) ==
  d.applied \notin {c.applied, None} => d.applied.gen = d.gen /\ d.applied.source = d.ctx

LEMMA HandledFits ==
  ASSUME NEW c, NEW h, NEW layer, Fits(c, h, inbox'), Current(hc, c), Shows(layer, session'),
         HandledOver(c, h, layer)
  PROVE  Fits(hc', heap', inbox') /\ Shows(overlay', session') /\ Applies(hc, hc')
  <1>1. hc' = [c EXCEPT !.out = None] /\ heap' = Kept(c, h) /\ overlay' = Shown(c, layer)
    BY DEF HandledOver
  <1>2. Fits(c, heap', inbox') BY <1>1, KeptFits
  <1>3. Fits(hc', heap', inbox') /\ Keeps(c, hc', {"out"})
    BY <1>1, <1>2, OutFits
  <1>4. Applies(hc, hc') BY <1>3 DEF Keeps, Fields, Current, Applies
  <1>5. c.out # None => IsExact(c.out) BY DEF Fits
  <1>6. Shows(overlay', session') BY <1>1, <1>5 DEF Shown, Shows
  <1> QED BY <1>3, <1>4, <1>6

(* seek                                                                    *)
LEMMA SoughtFits ==
  ASSUME NEW c, NEW d, NEW b, NEW from, NEW to, NEW s, Fits(c, heap, b), to.frame \in Nat,
         d = Sought(c, from, to, s)
  PROVE  Fits(d, heap, b) /\ Quiet(c, d)
  <1>1. CASE d = c BY <1>1 DEF Quiet
  <1>2. CASE d = OnFrameSpan(c, heap, from.frame, to.frame, to.reason)
    BY <1>2, OnFrameSpanFits
  <1> QED BY <1>1, <1>2 DEF Sought

(* The new source, with its heatmap or without.                            *)
LEMMA RestartFits ==
  ASSUME NEW c, NEW d, NEW h, NEW b,
         NEW source \in Names, NEW mode \in {"rolling", "decay"}, NEW frame \in Nat,
         Fits(c, h, b), source # None, d = Enable(SetContext(c, source), mode, frame)
  PROVE  Fits(d, h, b) /\ Quiet(c, d)
  <1> DEFINE e == SetContext(c, source)
  <1>1. Fits(e, h, b) /\ Quiet(c, e) /\ e.ctx = source BY SetContextFits
  <1>2. d = Enable(e, mode, frame) OBVIOUS
  <1> HIDE DEF e
  <1>3. Fits(d, h, b) /\ Quiet(e, d) BY <1>1, <1>2, EnableFits
  <1> QED BY <1>1, <1>3, QuietTwice

(* _heatmap_context_changed                                                *)
LEMMA ContextChangedFits ==
  ASSUME NEW c, NEW d, NEW b, NEW s \in Names, Fits(c, heap, b), d = ContextChanged(c, s)
  PROVE  Fits(d, heap, b) /\ Quiet(c, d)
  <1> DEFINE source == ContextOf(s)
  <1>1. source \in Names /\ (source # None => source = s)
    BY DEF ContextOf, Names
  <1>2. CASE d = c BY <1>2 DEF Quiet
  <1>3. CASE source # None /\ d = Enable(SetContext(c, s), "rolling", 0)
    <2>1. s # None /\ 0 \in Nat BY <1>1, <1>3
    <2> QED BY <1>3, <2>1, RestartFits
  <1>4. CASE d = SetContext(c, source)
    <2> HIDE DEF source
    <2> QED BY <1>1, <1>4, SetContextFits
  <1> QED BY <1>2, <1>3, <1>4 DEF ContextChanged

(* What a step leaves, of the controller and of the layer.                 *)
After == Fits(hc', heap', inbox') /\ Shows(overlay', session') /\ Applies(hc, hc')

(* set_active_session                                                      *)
LEMMA ActivatedFits ==
  ASSUME NEW c, NEW s \in Names, Fits(c, heap, inbox'), Quiet(hc, c), Activated(c, s)
  PROVE  After /\ nav'.frame \in Nat /\ session' \in Names
  <1> DEFINE to == [frame |-> 0, reason |-> "api"]
             d == ContextChanged(c, s)
             e == IF s \in indexed' THEN Sought(d, nav, to, s) ELSE d
  <1>1. session' = s /\ nav' = to /\ HandledOver(e, heap, None)
    BY DEF Activated, Handled
  <1>2. to.frame = 0 OBVIOUS
  <1>3. Fits(d, heap, inbox') /\ Quiet(c, d) BY ContextChangedFits
  <1> HIDE DEF to, d
  <1>4. Fits(e, heap, inbox') /\ Quiet(d, e)
    <2>1. CASE e = d BY <1>3, <2>1 DEF Quiet
    <2>2. CASE e = Sought(d, nav, to, s)
      <3>1. to.frame \in Nat BY <1>2
      <3> HIDE DEF e
      <3> QED BY <1>3, <2>2, <3>1, SoughtFits
    <2> QED BY <2>1, <2>2
  <1> HIDE DEF e
  <1>5. Current(hc, e) BY <1>3, <1>4, QuietTwice
  <1>6. Shows(None, session') BY DEF Shows
  <1>7. After BY <1>1, <1>4, <1>5, <1>6, HandledFits DEF After
  <1> QED BY <1>1, <1>2, <1>7

-----------------------------------------------------------------------------
(* What holds in every state.                                              *)
IInv ==
  /\ Fits(hc, heap, inbox) /\ Shows(overlay, session)
  /\ nav.frame \in Nat /\ session \in Names /\ open \subseteq Sources

Step == After /\ nav'.frame \in Nat /\ session' \in Names /\ open' \subseteq Sources

(* A handler that leaves the session alone.                                *)
LEMMA QuietStep ==
  ASSUME NEW c, NEW layer, IInv, Fits(c, heap, inbox), Quiet(hc, c), layer \in {overlay, None},
         inbox' = inbox, session' = session, open' \subseteq Sources, nav'.frame \in Nat, Handled(c, layer)
  PROVE  Step
  <1>1. Shows(layer, session') /\ HandledOver(c, heap, layer) /\ Fits(c, heap, inbox')
    BY DEF IInv, Shows, Handled
  <1>2. Current(hc, c) BY QuietTwice
  <1>3. After BY <1>1, <1>2, HandledFits DEF After
  <1> QED BY <1>3 DEF Step, IInv

LEMMA CurrentStep ==
  ASSUME NEW c, IInv, Fits(c, heap, inbox), Current(hc, c),
         inbox' = inbox, session' = session, open' = open, nav' = nav, Handled(c, overlay)
  PROVE  Step
  <1>1. Shows(overlay, session') /\ HandledOver(c, heap, overlay) /\ Fits(c, heap, inbox')
    BY DEF IInv, Handled
  <1>2. After BY <1>1, HandledFits DEF After
  <1> QED BY <1>2 DEF Step, IInv

LEMMA PreviewLoadedStep ==
  ASSUME IInv, NEW s \in Sources, PreviewLoaded(s)
  PROVE  Step
  <1>1. /\ Fits(hc, heap, inbox) /\ inbox' = inbox /\ session' = session /\ open' \subseteq Sources
    BY DEF IInv, PreviewLoaded
  <1>2. CASE s # session
    <2>1. hc' = hc /\ heap' = heap /\ overlay' = overlay /\ nav' = nav
      BY <1>2 DEF PreviewLoaded
    <2> QED BY <1>1, <2>1 DEF IInv, Step, After, Applies
  <1>3. CASE s = session
    <2> DEFINE c == IF ~on THEN hc ELSE Enable(SetContext(hc, s), "rolling", nav.frame)
    <2>1. Handled(c, overlay) /\ nav'.frame = nav.frame
      BY <1>3 DEF PreviewLoaded
    <2>2. Fits(c, heap, inbox) /\ Quiet(hc, c)
      <3>1. CASE c = hc BY <1>1, <3>1 DEF Quiet
      <3>2. CASE c = Enable(SetContext(hc, s), "rolling", nav.frame)
        <4>1. nav.frame \in Nat /\ s \in Names /\ s # None
          BY HeatmapAssumption DEF IInv, Names
        <4> HIDE DEF c
        <4> QED BY <1>1, <3>2, <4>1, RestartFits
      <3> QED BY <3>1, <3>2
    <2> HIDE DEF c
    <2> QED BY <1>1, <2>1, <2>2, QuietStep DEF IInv
  <1> QED BY <1>2, <1>3

LEMMA ActivateSessionStep ==
  ASSUME IInv, NEW s \in Sources, ActivateSession(s)
  PROVE  Step
  <1>1. Fits(hc, heap, inbox') /\ Quiet(hc, hc) /\ s \in Names /\ open' \subseteq Sources
    BY DEF IInv, ActivateSession, Quiet, Names
  <1>2. Activated(hc, s) BY DEF ActivateSession
  <1> QED BY <1>1, <1>2, ActivatedFits DEF Step

LEMMA RemoveSessionStep ==
  ASSUME IInv, NEW s \in Sources, RemoveSession(s)
  PROVE  Step
  <1> DEFINE invalid == InvalidateSession(hc, heap, s)
             layer == IF overlay # None /\ overlay.source = s THEN None ELSE overlay
  <1>1. /\ Fits(hc, heap, inbox) /\ inbox' = inbox /\ open' = open \ {s} /\ open' \subseteq Sources
    BY DEF IInv, RemoveSession
  <1>2. Fits(invalid, heap, inbox) /\ Quiet(hc, invalid)
    BY <1>1, InvalidateSessionFits
  <1>3. layer \in {overlay, None} OBVIOUS
  <1>4. CASE s # session
    <2>1. session' = session /\ nav' = nav /\ Handled(invalid, layer)
      BY <1>4 DEF RemoveSession
    <2> HIDE DEF invalid, layer
    <2> QED BY <1>1, <1>2, <1>3, <2>1, QuietStep DEF IInv
  <1>5. CASE Emptied(invalid)
    <2> DEFINE c == SetContext(invalid, None)
               d == Clear(c)
    <2>1. session' = None /\ nav' = nav /\ Handled(d, None) BY <1>5 DEF Emptied
    <2> HIDE DEF invalid
    <2>2. Fits(c, heap, inbox) /\ Quiet(invalid, c)
      <3>1. None \in Names BY DEF Names
      <3> QED BY <1>2, <3>1, SetContextFits
    <2> HIDE DEF c
    <2>3. Fits(d, heap, inbox) /\ Quiet(c, d) BY <2>2, ClearFits
    <2> HIDE DEF d
    <2>4. Current(hc, d) BY <1>2, <2>2, <2>3, QuietTwice
    <2>5. Shows(None, session') /\ HandledOver(d, heap, None) /\ Fits(d, heap, inbox')
      BY <1>1, <2>1, <2>3 DEF Shows, Handled
    <2>6. After BY <2>4, <2>5, HandledFits DEF After
    <2> QED BY <1>1, <2>1, <2>6 DEF IInv, Step, Names
  <1>6. CASE \E next \in open' : Activated(invalid, next)
    <2>1. PICK next \in open' : Activated(invalid, next)
      BY <1>6
    <2>2. next \in Names BY <1>1 DEF Names
    <2> HIDE DEF invalid
    <2>3. Fits(invalid, heap, inbox') BY <1>1, <1>2
    <2> QED BY <1>1, <1>2, <2>1, <2>2, <2>3, ActivatedFits DEF Step
  <1> QED BY <1>4, <1>5, <1>6 DEF RemoveSession

LEMMA EnableHeatmapStep ==
  ASSUME IInv, NEW mode \in {"rolling", "decay", "fixed"}, EnableHeatmap(mode)
  PROVE  Step
  <1> DEFINE source == ContextOf(session)
             c == SetContext(hc, source)
             d == IF c.ctx = None THEN c
                  ELSE IF mode = "fixed" THEN RequestFixed(c, nav.frame) ELSE Enable(c, mode, nav.frame)
  <1>1. /\ Fits(hc, heap, inbox) /\ inbox' = inbox /\ session' = session /\ open' = open /\ nav' = nav
        /\ nav.frame \in Nat /\ Handled(d, overlay)
    BY DEF IInv, EnableHeatmap
  <1>2. source \in Names BY DEF IInv, ContextOf, Names
  <1> HIDE DEF source
  <1>3. Fits(c, heap, inbox) /\ Quiet(hc, c) /\ c.ctx = source
    BY <1>1, <1>2, SetContextFits
  <1> HIDE DEF c
  <1>4. Fits(d, heap, inbox) /\ Current(c, d)
    <2>1. CASE d = c BY <1>3, <2>1 DEF Current
    <2>2. CASE d = RequestFixed(c, nav.frame)
      <3> HIDE DEF d
      <3> QED BY <1>1, <1>3, <2>2, RequestFixedFits
    <2>3. CASE c.ctx # None /\ mode \in {"rolling", "decay"} /\ d = Enable(c, mode, nav.frame)
      <3> HIDE DEF d
      <3> QED BY <1>1, <1>3, <2>3, EnableFits, QuietTwice
    <2> QED BY <2>1, <2>2, <2>3
  <1> HIDE DEF d
  <1>5. Current(hc, d) BY <1>3, <1>4, QuietTwice
  <1> QED BY <1>1, <1>4, <1>5, CurrentStep

LEMMA CommandStep ==
  ASSUME IInv, \/ DisableHeatmap \/ CancelHeatmap \/ ClearHeatmap \/ Close
               \/ \E fixed \in BOOLEAN : RecalculateHeatmap(fixed)
  PROVE  Step
  <1>1. /\ Fits(hc, heap, inbox) /\ inbox' = inbox /\ session' = session /\ open' = open /\ nav' = nav
        /\ nav.frame \in Nat /\ open' \subseteq Sources /\ nav'.frame \in Nat
    BY DEF IInv, DisableHeatmap, CancelHeatmap, ClearHeatmap, Close, RecalculateHeatmap
  <1>2. CASE DisableHeatmap
    <2>1. Handled(Disable(hc), None) BY <1>2 DEF DisableHeatmap
    <2> QED BY <1>1, <2>1, DisableFits, QuietStep
  <1>3. CASE CancelHeatmap
    <2>1. Handled(Cancel(hc), overlay) BY <1>3 DEF CancelHeatmap
    <2> QED BY <1>1, <2>1, CancelFits, QuietStep
  <1>4. CASE ClearHeatmap
    <2>1. Handled(Clear(hc), None) BY <1>4 DEF ClearHeatmap
    <2> QED BY <1>1, <2>1, ClearFits, QuietStep
  <1>5. CASE Close
    <2>1. Handled(Shutdown(hc), overlay) BY <1>5 DEF Close
    <2> QED BY <1>1, <2>1, ShutdownFits, QuietStep
  <1>6. CASE \E fixed \in BOOLEAN : RecalculateHeatmap(fixed)
    <2>1. Handled(RequestFixed(hc, nav.frame), overlay) \/ Handled(Recalculate(hc), overlay)
      BY <1>6 DEF RecalculateHeatmap
    <2>2. CASE Handled(RequestFixed(hc, nav.frame), overlay)
      BY <1>1, <2>2, RequestFixedFits, CurrentStep
    <2>3. CASE Handled(Recalculate(hc), overlay)
      BY <1>1, <2>3, RecalculateFits, CurrentStep
    <2> QED BY <2>1, <2>2, <2>3
  <1> QED BY <1>2, <1>3, <1>4, <1>5, <1>6

LEMMA NavigateStep ==
  ASSUME IInv, NEW f \in Frames, NEW reason, Navigate(f, reason)
  PROVE  Step
  <1> DEFINE to == [frame |-> f, reason |-> reason]
             c == Sought(hc, nav, to, session)
  <1>1. /\ Fits(hc, heap, inbox) /\ inbox' = inbox /\ session' = session /\ open' \subseteq Sources
        /\ nav' = to /\ Handled(c, overlay)
    BY DEF IInv, Navigate
  <1>2. to.frame \in Nat BY HeatmapAssumption DEF Frames
  <1> HIDE DEF to
  <1>3. Fits(c, heap, inbox) /\ Quiet(hc, c) BY <1>1, <1>2, SoughtFits
  <1> HIDE DEF c
  <1> QED BY <1>1, <1>2, <1>3, QuietStep

LEMMA StopPlaybackStep ==
  ASSUME IInv, StopPlayback
  PROVE  Step
  <1> DEFINE to == [frame |-> 0, reason |-> "seek"]
             c == Sought(hc, nav, to, session)
             d == StopAt(c, 0)
  <1>1. /\ Fits(hc, heap, inbox) /\ inbox' = inbox /\ session' = session /\ open' \subseteq Sources
        /\ nav' = to /\ Handled(d, overlay)
    BY DEF IInv, StopPlayback
  <1>2. to.frame \in Nat OBVIOUS
  <1> HIDE DEF to
  <1>3. Fits(c, heap, inbox) /\ Quiet(hc, c) BY <1>1, <1>2, SoughtFits
  <1> HIDE DEF c
  <1>4. Fits(d, heap, inbox) /\ Quiet(c, d) BY <1>3, StopAtFits
  <1> HIDE DEF d
  <1>5. Quiet(hc, d) BY <1>3, <1>4, QuietTwice
  <1> QED BY <1>1, <1>2, <1>4, <1>5, QuietStep

LEMMA HandleMessageStep ==
  ASSUME IInv, HandleMessage
  PROVE  Step
  <1> DEFINE m == Head(inbox)
             h == Delivered(hc, m, heap)
  <1>1. /\ Fits(hc, heap, inbox) /\ inbox # << >> /\ inbox' = Tail(inbox)
        /\ session' = session /\ open' = open /\ nav' = nav
    BY DEF IInv, HandleMessage, workspace
  <1>2. PICK c \in OnMessage(hc, heap, m) : HandledOver(c, h, overlay)
    BY DEF HandleMessage
  <1> HIDE DEF m, h
  <1>3. Fits(c, h, inbox') /\ Current(hc, c)
    BY <1>1, <1>2, OnMessageFits DEF m, h
  <1>4. Shows(overlay, session') BY <1>1 DEF IInv
  <1>5. After BY <1>2, <1>3, <1>4, HandledFits DEF After
  <1> QED BY <1>1, <1>5 DEF Step, IInv

LEMMA RenderTimeoutStep ==
  ASSUME IInv, RenderTimeout
  PROVE  Step
  <1> DEFINE c == [hc EXCEPT !.toRender = None, !.out = IF hc.down THEN None ELSE hc.toRender]
  <1>1. /\ Fits(hc, heap, inbox) /\ inbox' = inbox /\ session' = session /\ open' = open /\ nav' = nav
        /\ Handled(c, overlay)
    BY DEF IInv, RenderTimeout, workspace
  <1>2. IsController(hc) BY <1>1 DEF Fits
  <1>3. /\ IsRecord(c) /\ Keeps(hc, c, {"applied", "toRender", "out"})
        /\ c.applied = hc.applied /\ c.toRender = None /\ c.out \in {None, hc.toRender}
    BY <1>2 DEF IsController, IsRecord, Keeps, Fields
  <1> HIDE DEF c
  <1>4. \A s \in {c.applied, c.toRender, c.out} : s # None => IsExact(s)
    BY <1>1, <1>3 DEF Fits
  <1>5. Fits(c, heap, inbox) /\ Current(hc, c)
    BY <1>1, <1>3, <1>4, ShownFits DEF Current
  <1> QED BY <1>1, <1>5, CurrentStep

LEMMA WorkStepStep ==
  ASSUME IInv, WorkStep
  PROVE  Step
  <1>1. /\ Fits(hc, heap, inbox) /\ Work /\ overlay' = overlay
        /\ session' = session /\ open' = open /\ nav' = nav
    BY DEF IInv, WorkStep, workspace
  <1>2. Fits(hc', heap', inbox') /\ hc'.applied = hc.applied
    BY <1>1, WorkStepFits
  <1> QED BY <1>1, <1>2 DEF IInv, Step, After, Applies

LEMMA NextKeeps ==
  ASSUME IInv, [Next]_vars
  PROVE  IInv' /\ Applies(hc, hc')
  <1>1. CASE \E s \in Sources : PreviewLoaded(s)
    BY <1>1, PreviewLoadedStep DEF Step, After, IInv
  <1>2. CASE \E s \in Sources : ActivateSession(s) \/ RemoveSession(s)
    BY <1>2, ActivateSessionStep, RemoveSessionStep DEF Step, After, IInv
  <1>3. CASE \E mode \in {"rolling", "decay", "fixed"} : EnableHeatmap(mode)
    BY <1>3, EnableHeatmapStep DEF Step, After, IInv
  <1>4. CASE \/ DisableHeatmap \/ CancelHeatmap \/ ClearHeatmap \/ Close
             \/ \E fixed \in BOOLEAN : RecalculateHeatmap(fixed)
    BY <1>4, CommandStep DEF Step, After, IInv
  <1>5. CASE StopPlayback BY <1>5, StopPlaybackStep DEF Step, After, IInv
  <1>6. CASE \E f \in Frames, reason \in {"seek", "playback"} : Navigate(f, reason)
    BY <1>6, NavigateStep DEF Step, After, IInv
  <1>7. CASE HandleMessage \/ RenderTimeout \/ WorkStep
    BY <1>7, HandleMessageStep, RenderTimeoutStep, WorkStepStep DEF Step, After, IInv
  <1>8. CASE UNCHANGED vars BY <1>8 DEF IInv, Applies, vars, heatmap, workspace
  <1> QED BY <1>1, <1>2, <1>3, <1>4, <1>5, <1>6, <1>7, <1>8 DEF Next

LEMMA InitFits ==
  ASSUME Init
  PROVE  IInv
  <1>1. hc = NewController /\ heap = << >> /\ inbox = << >> /\ overlay = None /\ nav.frame = 0
        /\ session = Opened /\ open = Sources
    BY DEF Init, InitHeatmap
  <1>2. /\ IsRecord(hc) /\ hc.ctx = None /\ hc.gen = 0 /\ hc.mode = None /\ hc.state = None
        /\ hc.active = None /\ hc.pending = None /\ hc.stream = None /\ hc.streams = << >>
        /\ hc.desired = None /\ hc.applied = None /\ hc.toRender = None /\ hc.out = None
    BY <1>1 DEF NewController, IsRecord, Fields
  <1>3. DOMAIN hc.streams = {} /\ DOMAIN heap = {} /\ DOMAIN inbox = {}
    BY <1>1, <1>2
  <1>4. AreStreams(hc.streams) /\ heap = [g \in DOMAIN heap |-> heap[g]] /\ inbox \in Seq(Values(inbox))
    <2>1. << >> = [g \in {} |-> << >>[g]] OBVIOUS
    <2> QED BY <1>1, <1>2, <1>3, <2>1 DEF AreStreams
  <1>5. IsController(hc) BY <1>2, <1>4 DEF IsController, Names, Modes
  <1>6. /\ HeapFits(hc, heap) /\ StateFits(hc, heap) /\ ActiveFits(hc, heap)
        /\ PendingFits(hc) /\ ReadersFit(hc, heap)
    BY <1>2, <1>3, <1>4 DEF HeapFits, StateFits, ActiveFits, PendingFits, ReadersFit
  <1>7. EndsOnce(inbox) /\ JobInOrder(hc, inbox) /\ Once(hc, heap, inbox)
    BY <1>2, <1>3 DEF EndsOnce, JobInOrder, Once, Rebuilding
  <1>8. Fits(hc, heap, inbox) BY <1>2, <1>3, <1>4, <1>5, <1>6, <1>7 DEF Fits
  <1> QED BY <1>1, <1>8, OpenedAssumption DEF IInv, Shows, Names

-----------------------------------------------------------------------------
LEMMA InvariantHolds == Spec => []IInv
  <1>1. Init => IInv BY InitFits
  <1>2. IInv /\ [Next]_vars => IInv' BY NextKeeps
  <1> QED BY <1>1, <1>2, PTL DEF Spec

(* RollingIsExact: a density of the last N frames, shown, applied or       *)
(* waiting for its render, counts every frame of its window exactly once,  *)
(* whatever was coalesced, cancelled or lost on the way, unless its        *)
(* accumulator was given to two readers.                                   *)
THEOREM RollingIsExactCorrect == Spec => []RollingIsExact
  <1>1. IInv => RollingIsExact
    BY DEF IInv, Fits, Shows, RollingIsExact, Snapshots, IsExact
  <1> QED BY <1>1, InvariantHolds, PTL

(* LayerIsCurrent: the layer lies over the waterfall it was computed from, *)
(* and no density that is applied is of another generation or source than  *)
(* the controller wants at that moment.                                    *)
THEOREM LayerIsCurrentCorrect == Spec => LayerIsCurrent
  <1>1. IInv => (overlay # None => overlay.source = session) BY DEF IInv, Shows
  <1>2. IInv /\ [Next]_vars => [hc'.applied \notin {hc.applied, None} => AppliedIsCurrent]_vars
    BY NextKeeps DEF Applies, AppliedIsCurrent
  <1> QED BY <1>1, <1>2, InvariantHolds, PTL DEF Spec, LayerIsCurrent
=============================================================================
