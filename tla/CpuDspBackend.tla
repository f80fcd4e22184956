---------------------------- MODULE CpuDspBackend ----------------------------
(***************************************************************************)
(* sdr_core::CpuDspBackend: the assembly of overlapping FFT windows out of *)
(* I/Q blocks of any length, batching, averaging and the frames that come  *)
(* out (native/sdr_core/src/dsp/cpu_dsp_backend.cpp).  One thread calls    *)
(* it.  The arithmetic is left out: a sample is where it came from, a      *)
(* computed FFT is the samples it was computed from.                       *)
(***************************************************************************)
EXTENDS Integers, Sequences, FiniteSets

CONSTANTS Configs,    \* DspConfig: [fft, hop, batch, average] sizes
          OutputCapacity,
          Lengths,    \* block lengths in samples
          Settings,   \* radio settings: [rate, center, generation]
          MaxBlocks,  \* bound: blocks pushed
          MaxOdd      \* bound: blocks that are not just the next samples

VARIABLES
  dspConfig, \* config_
  format,   \* sample format of the stream: "float" or "integer"
  ring,     \* ring_d_ / ring_f_: a sample per place
  ringPos,  \* ring_pos_
  base,     \* base_sample_index_
  streamPos,\* stream_pos_
  nextEnd,  \* next_frame_end_
  current,  \* current_fs_, current_fc_, current_generation_
  clippedUntil, \* clipped_until_pos_
  staged,   \* the windows staged for the next FFT batch, with their FrameMeta
  accum,    \* the windows accumulated for the next frame
  output,   \* output_
  dropped,  \* metrics_.fft_frames_dropped
  source,   \* the block the receiver delivers next: [first, settings, pushed, odd]
  epoch,    \* history: [first, length, windows, settings] of the current stream
  tally     \* history: [windows, rejected, evicted, delivered]

assembler == <<ring, ringPos, base, streamPos, nextEnd, current, clippedUntil>>
vars == <<dspConfig, format, assembler, staged, accum, output, dropped, source, epoch, tally>>

NoSettings == [rate |-> 0, center |-> 0, generation |-> 0]
NoSample == [index |-> -1, settings |-> NoSettings, clipped |-> FALSE]

-----------------------------------------------------------------------------
(* The pipeline as one record, so that a whole block is one step.          *)
Pipeline ==
  [ring |-> ring, ringPos |-> ringPos, base |-> base, streamPos |-> streamPos,
   nextEnd |-> nextEnd, current |-> current, clippedUntil |-> clippedUntil,
   staged |-> staged, accum |-> accum, output |-> output, dropped |-> dropped,
   windows |-> 0, evicted |-> 0]

(* flush_pipeline()                                                        *)
Flush(p) ==
  [p EXCEPT !.dropped = @ + Len(p.staged) + Len(p.accum),
            !.ringPos = 0, !.staged = <<>>, !.accum = <<>>,
            !.clippedUntil = 0, !.nextEnd = dspConfig.fft]

(* emit_frame(): the frame is labelled with the last window of the average *)
(* and with the settings of the moment; the oldest output gives way.       *)
EmitFrame(p, windows) ==
  LET last  == windows[Len(windows)]
      frame == [first |-> last.first, generation |-> last.generation,
                rate |-> p.current.rate, center |-> p.current.center,
                windows |-> windows,
                clipped |-> \E i \in DOMAIN windows : windows[i].clipped]
      full  == Len(p.output) >= OutputCapacity
  IN  [p EXCEPT !.output  = Append(IF full THEN Tail(@) ELSE @, frame),
                !.dropped = IF full THEN @ + 1 ELSE @,
                !.evicted = IF full THEN @ + 1 ELSE @,
                !.accum   = <<>>]

(* accumulate_frame() for one window of the batch.                         *)
Accumulate(p, window) ==
  LET windows == Append(p.accum, window)
  IN  IF Len(windows) = dspConfig.average THEN EmitFrame(p, windows)
                                       ELSE [p EXCEPT !.accum = windows]

(* run_fft_batch()                                                         *)
RunBatch(p) ==
  LET after[i \in 0..Len(p.staged)] ==
        IF i = 0 THEN p ELSE Accumulate(after[i - 1], p.staged[i])
  IN  [after[Len(p.staged)] EXCEPT !.staged = <<>>]

(* stage_frame(): the window is read from the ring, oldest sample first.   *)
Window(p, block) ==
  [samples |-> [k \in 1..dspConfig.fft |-> p.ring[(p.ringPos + k - 1) % dspConfig.fft]],
   first   |-> p.base + (p.streamPos - dspConfig.fft),
   generation |-> block.settings.generation,
   clipped |-> p.streamPos - dspConfig.fft < p.clippedUntil]

(* A window is staged and the next one scheduled; a full batch is run.     *)
Stage(p, block) ==
  LET s == [p EXCEPT !.staged = Append(@, Window(p, block)),
                     !.nextEnd = @ + dspConfig.hop, !.windows = @ + 1]
  IN  IF Len(s.staged) = dspConfig.batch THEN RunBatch(s) ELSE s

(* One turn of the sample loop of push_iq.                                 *)
Feed(p, block, k) ==
  LET sample == [index |-> block.first + k, settings |-> block.settings,
                 clipped |-> block.clipped]
      q == [p EXCEPT !.ring[p.ringPos] = sample,
                     !.ringPos = (@ + 1) % dspConfig.fft,
                     !.streamPos = @ + 1,
                     !.clippedUntil = IF block.clipped THEN p.streamPos + 1 ELSE @]
  IN  IF q.streamPos = q.nextEnd THEN Stage(q, block) ELSE q

-----------------------------------------------------------------------------
(* The checks at the head of push_iq, in their order.                      *)

CheckGap(p, block) ==
  IF p.base < 0 THEN [p EXCEPT !.base = block.first]
  ELSE IF p.base + p.streamPos # block.first
    THEN [Flush(p) EXCEPT !.base = block.first, !.streamPos = 0]
  ELSE p

Rebase(p) == [Flush(p) EXCEPT !.base = @ + p.streamPos, !.streamPos = 0]

CheckRate(p, block) ==
  IF block.settings.rate # p.current.rate
    THEN [Rebase(p) EXCEPT !.current.rate = block.settings.rate] ELSE p

CheckGeneration(p, block) ==
  IF p.current.generation # 0 /\ block.settings.generation # p.current.generation
    THEN Rebase(p) ELSE p

(* Mutant: a retune does not flush the pipeline.                           *)
CheckCenterNoFlush(p, block) == p

CheckCenter(p, block) ==
  IF p.current.center # 0 /\ block.settings.center # p.current.center
    THEN Rebase(p) ELSE p

Prepared(p, block) ==
  LET checked == CheckCenter(CheckGeneration(CheckRate(CheckGap(p, block), block), block), block)
  IN  [checked EXCEPT !.current = block.settings]

Absorbed(p, block) ==
  LET after[k \in 0..block.length] ==
        IF k = 0 THEN p ELSE Feed(after[k - 1], block, k - 1)
  IN  after[block.length]

Install(p) ==
  /\ ring' = p.ring /\ ringPos' = p.ringPos /\ base' = p.base
  /\ streamPos' = p.streamPos /\ nextEnd' = p.nextEnd /\ current' = p.current
  /\ clippedUntil' = p.clippedUntil /\ staged' = p.staged /\ accum' = p.accum
  /\ output' = p.output /\ dropped' = p.dropped

-----------------------------------------------------------------------------
(* The stream the reference definition speaks of: samples that follow each *)
(* other under the same settings, one window every hop.                    *)
NextEpoch(block) ==
  IF epoch.length > 0 /\ epoch.first + epoch.length = block.first
     /\ epoch.settings = block.settings
  THEN [epoch EXCEPT !.length = @ + block.length]
  ELSE [first |-> block.first, length |-> block.length,
        windows |-> 0, settings |-> block.settings]

(* push_iq of a block that is accepted.                                    *)
PushIq(block) ==
  LET p == Absorbed(Prepared(Pipeline, block), block)
      e == NextEpoch(block)
  IN  /\ Install(p)
      /\ epoch' = [e EXCEPT !.windows = @ + p.windows]
      /\ tally' = [tally EXCEPT !.windows = @ + p.windows, !.evicted = @ + p.evicted]

(* A block that holds a non-finite sample never enters the pipeline.       *)
RejectIq ==
  /\ dropped' = dropped + 1
  /\ tally' = [tally EXCEPT !.rejected = @ + 1]
  /\ UNCHANGED <<assembler, staged, accum, output, epoch>>

(* What the receiver delivers: the next samples, samples after a gap, of   *)
(* other settings, clipped or not finite.                                  *)
Deliver ==
  /\ source.pushed < MaxBlocks
  /\ \E length \in Lengths, odd \in BOOLEAN, gap \in {0, 1},
        settings \in Settings, clipped, finite \in BOOLEAN :
       LET block == [first |-> source.first + gap, length |-> length, settings |-> settings,
                     clipped |-> clipped]
       IN  /\ odd => source.odd < MaxOdd
           /\ ~odd => gap = 0 /\ settings = source.settings /\ ~clipped /\ finite
           /\ clipped => format = "integer"
           /\ ~finite => format = "float"
           /\ settings.generation >= source.settings.generation
           /\ source' = [first |-> block.first + length, settings |-> settings,
                         pushed |-> source.pushed + 1,
                         odd |-> source.odd + (IF odd THEN 1 ELSE 0)]
           /\ IF finite THEN PushIq(block) ELSE RejectIq
  /\ UNCHANGED <<dspConfig, format>>

(* poll_spectrum(0, flush): everything ready is handed out.                *)
Poll(flush) ==
  LET p == IF flush /\ staged # <<>> THEN RunBatch(Pipeline) ELSE Pipeline
  IN  /\ Install([p EXCEPT !.output = <<>>])
      /\ tally' = [tally EXCEPT !.evicted = @ + p.evicted, !.delivered = @ + Len(p.output)]
      /\ UNCHANGED <<dspConfig, format, source, epoch>>

(* reset(): nothing of the stream is left; the loss counter stays.         *)
Reset ==
  /\ source.odd < MaxOdd
  /\ ring' = [i \in 0..(dspConfig.fft - 1) |-> NoSample] /\ ringPos' = 0
  /\ base' = -1 /\ streamPos' = 0 /\ nextEnd' = dspConfig.fft
  /\ current' = NoSettings /\ clippedUntil' = 0
  /\ staged' = <<>> /\ accum' = <<>> /\ output' = <<>>
  /\ epoch' = [epoch EXCEPT !.length = 0, !.windows = 0]
  /\ tally' = [windows |-> 0, rejected |-> dropped, evicted |-> 0, delivered |-> 0]
  /\ source' = [source EXCEPT !.odd = @ + 1]
  /\ UNCHANGED <<dspConfig, format, dropped>>

(* configure()                                                             *)
Init ==
  /\ dspConfig \in Configs /\ format \in {"float", "integer"}
  /\ ring = [i \in 0..(dspConfig.fft - 1) |-> NoSample] /\ ringPos = 0
  /\ base = -1 /\ streamPos = 0 /\ nextEnd = dspConfig.fft
  /\ current = NoSettings /\ clippedUntil = 0
  /\ staged = <<>> /\ accum = <<>> /\ output = <<>> /\ dropped = 0
  /\ \E settings \in Settings :
       source = [first |-> 0, settings |-> settings, pushed |-> 0, odd |-> 0]
  /\ epoch = [first |-> 0, length |-> 0, windows |-> 0, settings |-> NoSettings]
  /\ tally = [windows |-> 0, rejected |-> 0, evicted |-> 0, delivered |-> 0]

Next == Deliver \/ (\E flush \in BOOLEAN : Poll(flush)) \/ Reset
Spec == Init /\ [][Next]_vars

-----------------------------------------------------------------------------
AllWindows ==
  {staged[i] : i \in DOMAIN staged} \cup {accum[i] : i \in DOMAIN accum}
    \cup UNION {{output[j].windows[i] : i \in DOMAIN output[j].windows} : j \in DOMAIN output}

(* A window holds consecutive samples from its first_sample_index on, all  *)
(* received under one generation, rate and center.                         *)
Pure(w) ==
  \A k \in 1..dspConfig.fft :
    /\ w.samples[k].index = w.first + k - 1
    /\ w.samples[k].settings = w.samples[1].settings
    /\ w.samples[k].settings.generation = w.generation

(* A frame is marked as clipped exactly if a block that contributed to it  *)
(* was, however many blocks ago its samples came.                          *)
ClippingIsMarked ==
  \A w \in AllWindows : w.clipped <=> \E k \in 1..dspConfig.fft : w.samples[k].clipped

(* No FFT is computed from stale or stitched samples, and no frame averages*)
(* windows of different settings or is published under others: whatever    *)
(* gap, retune, rate or generation change came in between, reset or not;   *)
(* and clipping is reported for all of the samples, no more and no less.   *)
NothingStitched ==
  /\ \A w \in AllWindows : Pure(w)
  /\ ClippingIsMarked
  /\ \A j \in DOMAIN output : \A i \in DOMAIN output[j].windows :
       output[j].windows[i].samples[1].settings =
         [rate |-> output[j].rate, center |-> output[j].center,
          generation |-> output[j].generation]

(* The reference definition of overlap assembly: of L consecutive samples  *)
(* exactly the windows at multiples of hop that fit are formed, whatever   *)
(* the block boundaries, also when hop does not divide the FFT size.       *)
OneWindowPerHop ==
  epoch.windows =
    IF epoch.length < dspConfig.fft THEN 0
    ELSE 1 + (epoch.length - dspConfig.fft) \div dspConfig.hop

(* Those windows are formed, and each is staged, accumulated, in a frame   *)
(* that is pending or was handed out, or in the loss counter (which counts *)
(* an evicted frame and a rejected block once): none disappears silently   *)
(* across a gap, a retune or a generation change.                          *)
WindowsConserved ==
  /\ OneWindowPerHop
  /\ tally.windows =
       Len(staged) + Len(accum) + dspConfig.average * (Len(output) + tally.delivered)
         + dspConfig.average * tally.evicted
         + (dropped - tally.rejected - tally.evicted)

(* The windows are those of the reference definition, of the samples they  *)
(* name and of one radio setting, and each has one fate.                   *)
WindowsAreExact == NothingStitched /\ WindowsConserved
=============================================================================
