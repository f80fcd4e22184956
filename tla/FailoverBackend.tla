--------------------------- MODULE FailoverBackend ---------------------------
(***************************************************************************)
(* FailoverDspBackend (native/sdr_core/src/dsp/dsp_backend_selector.cpp):  *)
(* a GPU backend with a CPU standby.  The active child is the pipeline of  *)
(* CpuDspBackend, for the GPU backend keeps the same contract; it may fail *)
(* in any call.  Then a CPU child takes over: the blocks kept for a replay *)
(* are pushed into it, and what was published already is left out.  All    *)
(* calls are under one mutex: each is a step.                              *)
(***************************************************************************)
EXTENDS CpuDspBackend

CONSTANTS MaxReplayBlock, \* max_replay_block_samples
          MaxFailures     \* bound: failures of the GPU backend

VARIABLES
  active,    \* the kind of active_: "gpu" or "cpu"
  replay,    \* [blocks, exact]: replay_, replay_exact_possible_
  pending,   \* [fallback, discontinuity]: fallback_pending_, discontinuity_pending_
  committed, \* committed_output_
  last,      \* last_committed_: [generation, first]
  metrics,   \* [fallbacks, dropped] of metrics_
  grid       \* history: [first, told, shifted, trimmed, restart] of the present stream

Least(a, b) == IF a < b THEN a ELSE b

failoverVars == <<active, replay, pending, committed, last, metrics, grid>>

Nothing == [generation |-> 0, first |-> -1]
Whole == [blocks |-> <<>>, exact |-> TRUE]
Unmarked == [fallback |-> FALSE, discontinuity |-> FALSE]
NoGrid == [first |-> 0, told |-> <<>>, shifted |-> FALSE, trimmed |-> FALSE, restart |-> TRUE]

(* A child that has just been configured.                                  *)
Fresh ==
  [ring |-> [i \in 0..(dspConfig.fft - 1) |-> NoSample], ringPos |-> 0, base |-> -1,
   streamPos |-> 0, nextEnd |-> dspConfig.fft, current |-> NoSettings, clippedUntil |-> 0,
   staged |-> <<>>, accum |-> <<>>, output |-> <<>>, dropped |-> 0, windows |-> 0, evicted |-> 0]

Pushed(p, block) == Absorbed(Prepared(p, block), block)

-----------------------------------------------------------------------------
(* append_replay                                                           *)

ReplayLimit ==
  LET groups == dspConfig.average + dspConfig.batch
  IN dspConfig.fft + (IF groups > 2 THEN groups - 2 ELSE 0) * dspConfig.hop + MaxReplayBlock

Samples(blocks) ==
  LET upTo[i \in 0..Len(blocks)] == IF i = 0 THEN 0 ELSE upTo[i - 1] + blocks[i].length
  IN upTo[Len(blocks)]

SameEpoch(left, right) ==
  left.settings = right.settings /\ left.first + left.length = right.first

(* Blocks are dropped at the front while there are too many samples.       *)
Trimmed(blocks) ==
  LET from == CHOOSE i \in DOMAIN blocks :
                /\ i = Len(blocks) \/ Samples(SubSeq(blocks, i, Len(blocks))) <= ReplayLimit
                /\ \A k \in 1..(i - 1) : Samples(SubSeq(blocks, k, Len(blocks))) > ReplayLimit
  IN SubSeq(blocks, from, Len(blocks))

(* A block of another epoch starts over; one that is too long is kept in   *)
(* part, and rules an exact replay out.                                    *)
Appended(r, block) ==
  LET same == r.blocks = <<>> \/ SameEpoch(r.blocks[Len(r.blocks)], block)
      old  == IF same THEN r ELSE Whole
      keep == Least(block.length, MaxReplayBlock)
      cut  == block.length - keep
      copy == [block EXCEPT !.first = @ + cut, !.length = keep]
      kept == IF cut = 0 THEN Append(old.blocks, copy) ELSE <<copy>>
  IN [blocks |-> Trimmed(kept), exact |-> old.exact /\ cut = 0]

-----------------------------------------------------------------------------
(* commit_child_output: frames of the child, in order, that are newer than *)
(* the last one published.  c is [last, pending, committed, dropped, told].*)

State == [last |-> last, pending |-> pending, committed |-> committed,
          dropped |-> metrics.dropped, told |-> grid.told]

(* Mutant: the last frame published is published again.                    *)
KnownBefore(c, frame) ==
  frame.generation = c.last.generation /\ frame.first < c.last.first

Known(c, frame) ==
  frame.generation = c.last.generation /\ frame.first <= c.last.first

Committed(c, frame, by) ==
  LET full == Len(c.committed) >= OutputCapacity
      out  == [first |-> frame.first, fallback |-> c.pending.fallback,
               discontinuity |-> c.pending.discontinuity]
  IN IF Known(c, frame) THEN c
     ELSE [last |-> [generation |-> frame.generation, first |-> frame.first], pending |-> Unmarked,
           committed |-> Append(IF full THEN Tail(c.committed) ELSE c.committed, out),
           dropped |-> IF full THEN c.dropped + 1 ELSE c.dropped,
           told |-> Append(c.told, [frame |-> out, by |-> by,
                                    windows |-> [i \in DOMAIN frame.windows |-> frame.windows[i].first]])]

AllCommitted(c, frames, by) ==
  LET after[i \in 0..Len(frames)] ==
        IF i = 0 THEN c ELSE Committed(after[i - 1], frames[i], by)
  IN after[Len(frames)]

(* poll_spectrum(0, flush) of the child, what it had is published, and the *)
(* caller takes some.                                                      *)
CommitChild(c, p, flush, by, g, taken) ==
  LET q == IF flush /\ p.staged # <<>> THEN RunBatch(p) ELSE p
      d == AllCommitted(c, q.output, by)
  IN /\ Install([q EXCEPT !.output = <<>>])
     /\ last' = d.last /\ pending' = d.pending
     /\ committed' = SubSeq(d.committed, taken + 1, Len(d.committed))
     /\ metrics' = [fallbacks |-> metrics.fallbacks + (IF by = active THEN 0 ELSE 1),
                    dropped |-> d.dropped]
     /\ grid' = [g EXCEPT !.told = d.told] /\ active' = by

(* rebuild_cpu_after_failure: replay, or go on from the next block.        *)
Rebuild(r, c, g, taken) ==
  LET blocks == r.blocks
      after[i \in 0..Len(blocks)] == IF i = 0 THEN Fresh ELSE Pushed(after[i - 1], blocks[i])
      marked == [c EXCEPT !.pending.fallback = TRUE]
  IN IF blocks = <<>> \/ ~r.exact
     THEN CommitChild([marked EXCEPT !.pending.discontinuity = TRUE, !.dropped = @ + 1],
                      Fresh, FALSE, "cpu", [g EXCEPT !.restart = TRUE], taken)
     ELSE CommitChild(marked, after[Len(blocks)], TRUE, "cpu", [g EXCEPT !.shifted = g.trimmed],
                      taken)

MayFail == active = "gpu" /\ metrics.fallbacks < MaxFailures

-----------------------------------------------------------------------------
(* The stream a block belongs to: it goes on, or the block starts a new one*)
GridWith(block) ==
  LET goes == /\ ~grid.restart /\ epoch.settings = block.settings
              /\ epoch.first + epoch.length = block.first
      g == IF goes THEN grid ELSE [NoGrid EXCEPT !.first = block.first, !.restart = FALSE]
      r == Appended(replay, block)
  IN [g EXCEPT !.trimmed = Samples(r.blocks) < block.first + block.length - g.first]

Push(block) ==
  LET r == Appended(replay, block) g == GridWith(block)
      c == [State EXCEPT !.told = g.told]
  IN /\ replay' = r
     /\ epoch' = [epoch EXCEPT !.first = block.first, !.length = block.length,
                               !.settings = block.settings]
     /\ \/ CommitChild(c, Pushed(Pipeline, block), FALSE, active, g, 0)
        \/ MayFail /\ Rebuild(r, c, g, 0)

PushBlock ==
  /\ source.pushed < MaxBlocks
  /\ \E length \in Lengths, gap \in {0, 1}, settings \in Settings :
       LET odd == gap # 0 \/ settings # source.settings
           block == [first |-> source.first + gap, length |-> length, settings |-> settings,
                     clipped |-> FALSE]
       IN /\ odd => source.odd < MaxOdd
          /\ settings.generation >= source.settings.generation
          /\ source' = [first |-> block.first + length, settings |-> settings,
                        pushed |-> source.pushed + 1,
                        odd |-> source.odd + (IF odd THEN 1 ELSE 0)]
          /\ Push(block)
  /\ UNCHANGED <<dspConfig, format, tally>>

(* poll_spectrum: a failure is answered in the same way, then one frame or *)
(* all of them are handed out.                                             *)
PollFrames(flush) ==
  /\ \E taken \in {1, OutputCapacity} :
       \/ CommitChild(State, Pipeline, flush, active, grid, taken)
       \/ MayFail /\ Rebuild(replay, State, grid, taken)
  /\ UNCHANGED <<dspConfig, format, source, epoch, tally, replay>>

(* reset(), and configure(), which tries the GPU again: it works, cannot be*)
(* made, or fails after all.                                               *)
ResetTo(kind) ==
  /\ source.odd < MaxOdd /\ source' = [source EXCEPT !.odd = @ + 1]
  /\ active' = kind /\ Install(Fresh) /\ replay' = Whole /\ committed' = <<>> /\ last' = Nothing
  /\ grid' = NoGrid
  /\ UNCHANGED <<dspConfig, format, epoch, tally>>

ResetAll == ResetTo(active) /\ pending' = Unmarked /\ UNCHANGED metrics

Configure ==
  \/ \E kind \in {active, "gpu"} : ResetTo(kind) /\ pending' = Unmarked /\ UNCHANGED metrics
  \/ /\ metrics.fallbacks < MaxFailures /\ ResetTo("cpu") /\ pending' = [Unmarked EXCEPT !.fallback = TRUE]
     /\ metrics' = [metrics EXCEPT !.fallbacks = @ + 1]

FailoverInit ==
  /\ Init /\ active = "gpu" /\ replay = Whole /\ pending = Unmarked /\ committed = <<>>
  /\ last = Nothing /\ metrics = [fallbacks |-> 0, dropped |-> 0] /\ grid = NoGrid

FailoverNext ==
  PushBlock \/ (\E flush \in BOOLEAN : PollFrames(flush)) \/ ResetAll \/ Configure

-----------------------------------------------------------------------------
(* Wherever the GPU fails, what is published of a stream are the frames of *)
(* a backend that never failed: each once, in order, none left out, on the *)
(* same hops and of the same windows.  (Unless the replay had lost the     *)
(* beginning of the stream: then the frames are at least newer each.)      *)
Replayed ==
  \A j \in DOMAIN grid.told :
    LET windows == grid.told[j].windows
        place(i) == grid.first + ((j - 1) * dspConfig.average + i - 1) * dspConfig.hop
    IN IF grid.shifted
       THEN j > 1 => grid.told[j - 1].frame.first < grid.told[j].frame.first
       ELSE windows = [i \in 1..dspConfig.average |-> place(i)]

(* The first frame of the CPU after those of the GPU says so, and no other *)
(* one after a frame of the CPU does.                                      *)
FallbackIsMarked ==
  \A j \in DOMAIN grid.told : j > 1 =>
    (grid.told[j].frame.fallback <=>
       grid.told[j].by = "cpu" /\ grid.told[j - 1].by = "gpu")

FailoverIsExact == Replayed /\ FallbackIsMarked
=============================================================================
