---------------------------- MODULE TimeGatedPower ----------------------------
(* The channel power of a recording over time: which frames are a burst,   *)
(* the events they make, and the figures of a request                      *)
(* (esw_dfl/time_gated_power.py). A level is a number of tenths of a dB;   *)
(* levels and times are multiples of ten, so every median and percentile   *)
(* below is a whole number. NaN is a frame without a finite value.         *)
EXTENDS Integers, FiniteSetsExt, SequencesExt

CONSTANTS Levels,  \* the levels a frame may have, in tenths of a dB
          Times,   \* the times a recording may have, frame by frame
          Configs, \* the configurations of the detection
          Requests, \* [range, frame, inclusion]: a time range, the whole recording if
                   \* it is <<>>, or one frame if that is not 0; which frames count
          Manual    \* the manual overrides, frame by frame

VARIABLES recording, \* [level, time]: the series of the channel, frame by frame
          config,    \* the ActivityDetectionConfig of the request
          request,   \* the request answered
          override,  \* per frame: "auto", "active" or "inactive"
          answer     \* what was measured, or Unmeasured

NaN == -1
Unmeasured == [measured |-> FALSE]
Valid(s) == {i \in DOMAIN s.level : s.level[i] # NaN}

-----------------------------------------------------------------------------
(* numpy: sorted values, median, linear percentile.                        *)
Sorted(values) == SortSeq(values, LAMBDA a, b : a < b)
MiddleOf(v, n) == IF n % 2 = 1 THEN v[(n + 1) \div 2] ELSE (v[n \div 2] + v[(n \div 2) + 1]) \div 2
Middle(values) == IF values = <<>> THEN NaN ELSE MiddleOf(Sorted(values), Len(values))
Between(v, k, rest) == IF rest = 0 THEN v[k] ELSE v[k] + (((v[k + 1] - v[k]) * rest) \div 100)
Percentile(values, at) == Between(Sorted(values), (at \div 100) + 1, at % 100)

Values(level, frames) == LET seq == SetToSeq(frames) IN [k \in DOMAIN seq |-> level[seq[k]]]

(* smooth: the median of a window around each frame, whose edges repeat    *)
(* the first and last value; NaN is left out of a median.                  *)
Clipped(i, s) == Min({Max({i, 1}), Len(s.level)})
Smoothed(s, c) ==
  LET pad == IF c.smoothing = "NONE" THEN 0 ELSE c.window \div 2
  IN  [i \in DOMAIN s.level |->
         Middle(SelectSeq([k \in 1..(2 * pad) + 1 |-> s.level[Clipped(i + k - pad - 1, s)]],
                          LAMBDA v : v # NaN))]

(* estimate_idle: the median of the frames not above the percentile. The   *)
(* percentile lies between two values, so those not above it are those not *)
(* above the lower of the two.                                             *)
NoiseFrames(s, c) ==
  IF c.noise = <<>> THEN Valid(s)
  ELSE {i \in Valid(s) : c.noise[1] <= s.time[i] /\ s.time[i] <= c.noise[2]}
IdlePercentile(c) == Min({Max({c.percentile, 1}), 80})
NotAbove(v, k) == IF v = <<>> THEN <<>> ELSE SelectSeq(v, LAMBDA x : x <= v[k])
Idle(s, c) ==
  Middle(NotAbove(Sorted(Values(s.level, NoiseFrames(s, c))),
                  ((IdlePercentile(c) * (Cardinality(NoiseFrames(s, c)) - 1)) \div 100) + 1))

(* The two thresholds of detect(); <<>> when there is none.                *)
Gap(c) == Max({1, c.onOffset - c.offOffset})
Relative(idle, c) == IF idle = NaN THEN <<>> ELSE <<idle + c.onOffset, idle + c.offOffset>>
Upper(on, c) == <<on, on - Gap(c)>>
OnPercentile(c) == Min({Max({100 - c.percentile, 50}), 99})
RawThresholds(s, c) ==
  CASE c.mode = "ABSOLUTE" -> Upper(c.absolute, c)
    [] c.mode = "PERCENTILE" /\ Valid(s) = {} -> <<>>
    [] c.mode = "PERCENTILE" /\ Valid(s) # {} ->
         Upper(Percentile(Values(Smoothed(s, c), Valid(s)),
                          OnPercentile(c) * (Cardinality(Valid(s)) - 1)), c)
    [] OTHER -> Relative(Idle(s, c), c)
InOrder(t) == IF t # <<>> /\ t[1] <= t[2] THEN <<t[2] + 1, t[2]>> ELSE t
Thresholds(s, c) == InOrder(RawThresholds(s, c))

-----------------------------------------------------------------------------
(* _hysteresis_mask. A frame confirms the end of a run when it and the     *)
(* frames before it are as many as the minimum and all of the kind.        *)
Confirmed(frames, minimum) == {i \in frames : i >= minimum /\ (i - minimum + 1)..i \subseteq frames}

On(s, c, t) ==
  LET smoothed == Smoothed(s, c) IN {i \in Valid(s) : smoothed[i] >= t[1]}
Off(s, c, t) ==
  LET smoothed == Smoothed(s, c)
  IN  {i \in DOMAIN s.level : i \in Valid(s) => smoothed[i] <= t[IF c.hysteresis THEN 2 ELSE 1]}

Least(minimum) == Max({1, minimum})

(* The loop that searches the next confirmed start, then the next          *)
(* confirmed end after it; a burst is [start, stop).                       *)
BurstsBetween(onEnds, offEnds, c, n) ==
  LET From(frames, i) == {k \in frames : k >= i}
      search[cursor \in 1..n + 1] ==
        IF From(onEnds, cursor) = {} THEN {}
        ELSE LET onEnd == Min(From(onEnds, cursor))
                 start == onEnd - Least(c.minActive) + 1
             IN  IF From(offEnds, onEnd + 1) = {} THEN {<<start, n + 1>>}
                 ELSE LET offEnd == Min(From(offEnds, onEnd + 1))
                      IN  {<<start, Max({start, offEnd - Least(c.minInactive) + 1})>>}
                          \cup search[offEnd + 1]
  IN  search[1]
Bursts(s, c, t) ==
  BurstsBetween(Confirmed(On(s, c, t), Least(c.minActive)),
                Confirmed(Off(s, c, t), Least(c.minInactive)), c, Len(s.level))

Hysteresis(s, c, t) == UNION {b[1]..b[2] - 1 : b \in Bursts(s, c, t)}

(* The maximal runs of a set of frames, and the rules on their lengths.    *)
Runs(frames) ==
  {r \in frames \X frames :
     /\ r[1] <= r[2] /\ r[1]..r[2] \subseteq frames
     /\ r[1] - 1 \notin frames /\ r[2] + 1 \notin frames}
Length(r) == r[2] - r[1] + 1
Inner(r, n) == 1 < r[1] /\ r[2] < n
Joined(runs) == UNION {r[1]..r[2] : r \in runs}

FillShortGaps(mask, n, maximum) ==
  mask \cup Joined({r \in Runs((1..n) \ mask) : Inner(r, n) /\ Length(r) <= maximum})
FilterShortRuns(mask, minimum) == Joined({r \in Runs(mask) : Length(r) >= Least(minimum)})

(* _run_duration: from the first to the last frame; the usual step for a   *)
(* run of one frame.                                                       *)
Gaps(s) == SelectSeq([i \in 1..Len(s.time) - 1 |-> s.time[i + 1] - s.time[i]], LAMBDA d : d > 0)
OrElse(step, otherwise) == IF step = NaN THEN otherwise ELSE step
UsualStep(s, otherwise) == OrElse(Middle(Gaps(s)), otherwise)
RunDuration(s, r) == IF r[1] = r[2] THEN UsualStep(s, 0) ELSE s.time[r[2]] - s.time[r[1]]

(* _apply_duration_rules; a rule that is not set has the value 0.          *)
LongEnough(mask, s, c) == Joined({r \in Runs(mask) : RunDuration(s, r) >= c.minActiveTime})
PausesFilled(mask, s, c) ==
  mask \cup Joined({r \in Runs(DOMAIN s.level \ mask) : /\ c.maxGapTime > 0 /\ Inner(r, Len(s.level))
                                                        /\ RunDuration(s, r) <= c.maxGapTime})
ShortIdleFilled(mask, s, c) ==
  mask \cup Joined({r \in Runs(DOMAIN s.level \ mask) : RunDuration(s, r) < c.minInactiveTime})
DurationRules(mask, s, c) == ShortIdleFilled(PausesFilled(LongEnough(mask, s, c), s, c), s, c)

Detected(t, s, c) ==
  LET filled == FillShortGaps(Hysteresis(s, c, t), Len(s.level), Max({c.maxGap, c.mergeGap}))
  IN  IF t = <<>> THEN {} ELSE DurationRules(FilterShortRuns(filled, c.minActive), s, c)
Automatic(s, c) == IF c.enabled THEN Detected(Thresholds(s, c), s, c) ELSE Valid(s)

Overridden(mask, s, o) == {i \in Valid(s) : o[i] = "active" \/ (o[i] = "auto" /\ i \in mask)}
Effective(s, c, o) == Overridden(Automatic(s, c), s, o)

-----------------------------------------------------------------------------
(* _durations: the time to the next frame, the usual step where there is   *)
(* none; a second where no step is known.                                  *)
Second == 10
Duration(s) ==
  [i \in DOMAIN s.time |->
     IF i < Len(s.time) /\ s.time[i + 1] > s.time[i] THEN s.time[i + 1] - s.time[i]
     ELSE UsualStep(s, Second)]

(* The power of a level in linear units: any increasing function.          *)
Linear(level) == 1 + (level \div 10)
Energy(s, i) == Linear(s.level[i]) * Duration(s)[i]

Time(s, frames) == SumFunctionOnSet(Duration(s), frames)
EnergyOf(s, frames) == SumFunctionOnSet([i \in frames |-> Energy(s, i)], frames)
Highest(s, frames) == Max({s.level[i] : i \in frames})
PeakFrame(s, frames) == Min({i \in frames : s.level[i] = Highest(s, frames)})

(* BurstAnalysisService.events: one event per run of active frames. Its    *)
(* mean is energy by duration.                                             *)
ActivityEventOf(s, o, r) ==
  [first |-> r[1], last |-> r[2], frames |-> Length(r),
   duration |-> Time(s, r[1]..r[2]), energy |-> EnergyOf(s, r[1]..r[2]),
   peak |-> PeakFrame(s, r[1]..r[2]), edited |-> \E i \in r[1]..r[2] : o[i] # "auto"]
ActivityEvents(s, mask, o) == {ActivityEventOf(s, o, r) : r \in Runs(mask)}

Mean(s, frames) == [energy |-> EnergyOf(s, frames), time |-> Time(s, frames)]
Above(a, b) == a.time > 0 /\ b.time > 0 /\ a.energy * b.time > b.energy * a.time

Included(s, r, active, selection, o) ==
  CASE r.inclusion = "active_only" -> selection \cap active
    [] r.inclusion = "inactive_only" -> selection \ active
    [] r.inclusion = "manual_mask" -> {i \in selection : o[i] # "auto"}
    [] OTHER -> selection

(* summarize, for the frames selected of the series s; mask are those      *)
(* active.                                                                 *)
Summary(s, mask, r, selection, measured, o) ==
  [measured |-> TRUE,
   active |-> Mean(s, selection \cap mask), inactive |-> Mean(s, selection \ mask),
   all |-> Mean(s, measured),
   frames |-> <<Cardinality(measured), Cardinality(selection \cap mask), Cardinality(selection \ mask)>>,
   corrected |-> Above(Mean(s, selection \cap mask), Mean(s, selection \ mask)),
   peak |-> IF measured = {} THEN 0 ELSE PeakFrame(s, measured),
   events |-> ActivityEvents(s, mask, o), limited |-> selection = {}]

-----------------------------------------------------------------------------
InRange(s, range) ==
  IF range = <<>> THEN Valid(s)
  ELSE {i \in Valid(s) : range[1] <= s.time[i] /\ s.time[i] <= range[2]}

(* _analyze_time_gated_waterfall and analyze: a request for one frame      *)
(* measures a series of that frame alone, of which summarize selects the   *)
(* frame only when it is the first of the recording.                       *)
Alone(s, i) == [level |-> <<s.level[i]>>, time |-> <<s.time[i]>>]
MeasuredIn(s, mask, r, selection, o) ==
  Summary(s, mask, r, selection, Included(s, r, mask, selection, o), o)
Measured(s, c, r, o) == MeasuredIn(s, Effective(s, c, o), r, InRange(s, r.range), o)
MeasuredAlone(s, c, r, o) ==
  MeasuredIn(s, Effective(s, c, o), r, IF r.frame = 1 THEN Valid(s) ELSE {}, o)

GatedInit ==
  /\ recording \in UNION {[level : [DOMAIN time -> Levels \cup {NaN}], time : {time}] : time \in Times}
  /\ config \in Configs
  /\ request = Unmeasured /\ override = <<>> /\ answer = Unmeasured

Measure ==
  /\ answer = Unmeasured /\ UNCHANGED <<recording, config>>
  /\ request' \in {r \in Requests : r.frame <= Len(recording.time)} /\ override' \in {o \in Manual : DOMAIN o = DOMAIN recording.time}
  /\ answer' = IF request'.frame = 0 THEN Measured(recording, config, request', override')
               ELSE MeasuredAlone(Alone(recording, request'.frame), config, request',
                                  <<override'[request'.frame]>>)

-----------------------------------------------------------------------------
(* The detection frame by frame: a burst begins when as many frames in a   *)
(* row as the minimum are on, and ends when as many in a row are off.      *)
Detector(on, off, c, n) ==
  LET step[i \in 0..n] ==
        IF i = 0 THEN [active |-> FALSE, run |-> 0, mask |-> {}]
        ELSE LET p == step[i - 1]
                 turns == i \in IF p.active THEN off ELSE on
                 need == Least(IF p.active THEN c.minInactive ELSE c.minActive)
                 run == IF turns THEN p.run + 1 ELSE 0
                 these == (i - need + 1)..i
             IN  IF run = need
                 THEN [active |-> ~p.active, run |-> 0,
                       mask |-> IF p.active THEN p.mask \ these ELSE p.mask \cup these]
                 ELSE [p EXCEPT !.run = run, !.mask = IF p.active THEN @ \cup {i} ELSE @]
  IN  step[n].mask
SeenAlike(t, on, off) ==
  on \cap off = {} => Hysteresis(recording, config, t) = Detector(on, off, config, Len(recording.level))
FrameByFrame ==
  \A t \in {Thresholds(recording, config)} \ {<<>>} :
    SeenAlike(t, On(recording, config, t), Off(recording, config, t))

Regular(s) == \A i, j \in 1..Len(s.time) - 1 : s.time[i + 1] - s.time[i] = s.time[j + 1] - s.time[j]
RulesHoldFor(mask, pauses) ==
  /\ \A r \in Runs(mask) : Length(r) >= config.minActive /\ RunDuration(recording, r) >= config.minActiveTime
  /\ \A r \in pauses :
       Inner(r, Len(recording.level)) =>
         /\ Length(r) >= config.minInactive /\ Length(r) > config.maxGap
         /\ RunDuration(recording, r) >= config.minInactiveTime
         /\ config.maxGapTime > 0 => RunDuration(recording, r) > config.maxGapTime
RulesHold ==
  config.enabled /\ Regular(recording) =>
    \A mask \in {Automatic(recording, config)} :
      RulesHoldFor(mask, Runs(DOMAIN recording.level \ mask))

StrongerIsNeverLost ==
  config.mode = "ABSOLUTE" /\ config.hysteresis /\ Regular(recording) =>
    \A mask \in {Automatic(recording, config)}, i \in Valid(recording), higher \in Levels :
      higher > recording.level[i] =>
        mask \subseteq Automatic([recording EXCEPT !.level[i] = higher], config)

Total(events, Field(_)) == MapThenSumSet(Field, events)
FiguresAddUp ==
  request.frame = 0 /\ request.range = <<>> =>
    /\ Total(answer.events, LAMBDA e : e.frames) = Cardinality(Effective(recording, config, override))
    /\ Total(answer.events, LAMBDA e : e.duration) = answer.active.time
    /\ Total(answer.events, LAMBDA e : e.energy) = answer.active.energy
    /\ answer.active.time + answer.inactive.time = Time(recording, Valid(recording))
    /\ request.inclusion = "active_only" => answer.all = answer.active

(* Of every recording and configuration: the vectorised search of bursts   *)
(* finds those of the detector that sees frame by frame; with regular      *)
(* times the rules, applied one after the other, all hold in the end; a    *)
(* frame that were stronger would lose no activity; and, once measured,    *)
(* the events share out the active frames, their time and their energy.    *)
FiguresAreExact ==
  IF answer.measured THEN FiguresAddUp ELSE FrameByFrame /\ RulesHold /\ StrongerIsNeverLost
=============================================================================
