---------------------------- MODULE WidebandSweep ----------------------------
(***************************************************************************)
(* The wideband sweep of esw_dfl: the planner and the executor             *)
(* (sdr/sweep.py), the presenter with its worker thread                    *)
(* (ui/sweep_presenter.py), the buttons of the workspace, and, as far as   *)
(* the executor meets it, the life cycle of the fixed-band engine behind   *)
(* the service.                                                            *)
(*                                                                         *)
(* The window's thread plans, runs, cancels, polls and closes; each run    *)
(* has a worker and a service of its own.  A section under _lock is a      *)
(* step, and so is a call of the service, which nobody else calls.         *)
(* Frequencies are integers in units that make every centre one of them.   *)
(***************************************************************************)
EXTENDS Integers, Sequences, FiniteSets

CONSTANTS Configs,  \* what the input fields hold: SweepConfig with SweepPlannerOptions
          MaxRuns, MaxPlans, MaxSweepFaults \* bounds

VARIABLES
  presenter, \* [plan, thread, event, status, result, frame]: fields of the presenter
  cancels,   \* the runs whose cancel event is set
  sweeper,   \* run -> [at, total, seg, results, started, touched, restored, outcome]
  engine,    \* run -> [state, generation, tuned]: the engine of its service
  window,    \* "open", "closing" or "closed"
  spent      \* history: [runs, plans, faults]

sweepVars == <<presenter, cancels, sweeper, engine, window, spent>>

Runs == 1..MaxRuns
NoPlan == <<>>
Base == 0 - 1  \* tuned to base_options; a segment is its number, 0 is untouched

-----------------------------------------------------------------------------
(* plan_sweep                                                              *)

Least(a, b) == IF a < b THEN a ELSE b
Most(a, b) == IF a > b THEN a ELSE b
Ceiling(a, b) == (a + b - 1) \div b

(* The width of a segment that is used.                                    *)
Usable(c) == Least(c.rate, c.bandwidth) - 2 * c.margin

Stride(c) == Usable(c) - c.overlap

Count(c) == Most(1, Ceiling(Most(0, (c.stop - c.start) - Usable(c)), Stride(c)) + 1)

(* What is kept of a segment: the parts on both sides of its DC window.    *)
Crops(c, from, to) ==
  LET center == (from + to) \div 2
      low == Most(from, center - Usable(c) \div 2)
      high == Least(to, center + Usable(c) \div 2)
      left == <<low, center - c.dc \div 2>>
      right == <<center + c.dc \div 2, high>>
  IN {r \in {left, right} : r[1] < r[2]}

(* The last segment is moved back to end where the span ends.              *)
Segment(c, i) ==
  LET from == IF i = Count(c) THEN Most(c.start, c.stop - Usable(c))
              ELSE c.start + (i - 1) * Stride(c)
      to == Least(c.stop, from + Usable(c))
  IN [from |-> from, to |-> to, crops |-> Crops(c, from, to)]

Segments(c) == [i \in 1..Count(c) |-> Segment(c, i)]

(* coverage_gaps_hz is empty.                                              *)
NoGap(c, s) ==
  /\ s[1].from <= c.start /\ s[Len(s)].to >= c.stop
  /\ \A i \in 1..(Len(s) - 1) : s[i + 1].from <= s[i].to

(* What raises no SweepPlanningError.                                      *)
Plannable(c) ==
  /\ Usable(c) > 0 /\ c.dc < Usable(c) /\ c.overlap < Usable(c)
  /\ NoGap(c, Segments(c))
  /\ \A i \in 1..Count(c) : Segment(c, i).crops # {}

(* Of each configuration, the plan; or none, and an error.                 *)
Plans == [c \in Configs |-> IF Plannable(c) THEN Segments(c) ELSE NoPlan]
Planned(plan) == IF plan = NoPlan THEN NoPlan ELSE Plans[plan[1]]

-----------------------------------------------------------------------------
SweepInit ==
  /\ presenter = [plan |-> NoPlan, thread |-> 0, event |-> 0, status |-> "IDLE",
                  result |-> 0, frame |-> 0]
  /\ cancels = {}
  /\ sweeper = [r \in Runs |-> [at |-> "none", total |-> 0, seg |-> 1, results |-> <<>>,
                               started |-> FALSE, touched |-> FALSE, restored |-> FALSE,
                               outcome |-> "none"]]
  /\ engine = [r \in Runs |-> [state |-> "none", generation |-> 0, tuned |-> 0]]
  /\ window = "open" /\ spent = [runs |-> 0, plans |-> 0, faults |-> 0]

Active == {"RUNNING", "CANCELLING"}
RunAlive(r) == r # 0 /\ sweeper[r].at \notin {"none", "ended"}
IsRunning == RunAlive(presenter.thread) \/ presenter.status \in Active
SweepFault == spent.faults < MaxSweepFaults /\ spent' = [spent EXCEPT !.faults = @ + 1]

-----------------------------------------------------------------------------
(* The window: a handler asks presenter.running first, so a button shown   *)
(* too long does nothing.                                                  *)

PlanClicked(c) ==
  /\ window = "open" /\ ~IsRunning
  /\ spent.plans < MaxPlans /\ spent' = [spent EXCEPT !.plans = @ + 1]
  /\ presenter' = IF Plans[c] # NoPlan THEN [presenter EXCEPT !.plan = <<c>>, !.status = "PLANNED"]
                  ELSE [presenter EXCEPT !.plan = NoPlan]
  /\ UNCHANGED <<cancels, sweeper, engine, window>>

RunClicked ==
  /\ window = "open" /\ ~IsRunning /\ presenter.plan # NoPlan
  /\ spent.runs < MaxRuns /\ spent' = [spent EXCEPT !.runs = @ + 1]
  /\ LET r == spent.runs + 1 IN
       /\ presenter' = [presenter EXCEPT !.event = r, !.thread = r, !.status = "RUNNING"]
       /\ sweeper' = [sweeper EXCEPT ![r].at = "begin"]
  /\ UNCHANGED <<cancels, engine, window>>

(* cancel() of a run that has published does nothing.                      *)
Cancel ==
  IF presenter.event = 0 THEN UNCHANGED <<cancels, presenter>>
  ELSE /\ cancels' = cancels \cup {presenter.event}
       /\ presenter' = [presenter EXCEPT !.status = "CANCELLING"]

CancelClicked ==
  /\ window = "open" /\ Cancel /\ UNCHANGED <<sweeper, engine, window, spent>>

CloseBegins ==
  /\ window = "open" /\ Cancel /\ window' = "closing"
  /\ UNCHANGED <<sweeper, engine, spent>>

(* The join is over, because the worker is or because 2 s are.             *)
CloseEnds ==
  /\ window = "closing" /\ window' = "closed"
  /\ presenter' = IF RunAlive(presenter.thread) THEN [presenter EXCEPT !.status = "FAILED"]
                  ELSE [presenter EXCEPT !.thread = 0, !.event = 0, !.plan = NoPlan]
  /\ UNCHANGED <<cancels, sweeper, engine, spent>>

-----------------------------------------------------------------------------
(* The engine as the executor calls it: [state, generation, tuned]         *)

(* A configure that the device accepts gives a new generation.             *)
Configured(e, to) ==
  [state |-> "CONFIGURED", generation |-> e.generation + 1, tuned |-> to]

(* configure() raises in any other state, and when the device refuses.     *)
MayConfigure(e) == e.state \in {"CREATED", "CONFIGURED", "STOPPED"}

Stopped(e) == [e EXCEPT !.state = "STOPPED"]

(* reconfigure(): stop, configure, start; each may be where it ends.       *)
Reconfigured(e, to) == [Configured(e, to) EXCEPT !.state = "RUNNING"]

StreamFails(r) ==
  /\ engine[r].state = "RUNNING" /\ SweepFault
  /\ engine' = [engine EXCEPT ![r].state = "ERROR"]
  /\ UNCHANGED <<presenter, cancels, sweeper, window>>

-----------------------------------------------------------------------------
(* The worker: _execute, execute, stitch_sweep                             *)

GoesTo(r, at) == sweeper' = [sweeper EXCEPT ![r].at = at]

(* report(): whatever the status was, it is RUNNING.                       *)
Reported == presenter' = [presenter EXCEPT !.status = "RUNNING"]

Begin(r) ==
  /\ sweeper[r].at = "begin"
  /\ \/ /\ sweeper' = [sweeper EXCEPT ![r].at = "segment", ![r].total = Len(Planned(presenter.plan))]
        /\ engine' = [engine EXCEPT ![r].state = "CREATED"] /\ UNCHANGED spent
     \/ /\ SweepFault /\ UNCHANGED engine
        /\ sweeper' = [sweeper EXCEPT ![r].at = "publish", ![r].total = Len(Planned(presenter.plan)),
                                      ![r].outcome = "FAILED"]
  /\ UNCHANGED <<presenter, cancels, window>>

Missing == [status |-> "MISSING", generation |-> 0]

(* The results, with MISSING for every segment from the first not executed.*)
Filled(r, results) ==
  [i \in 1..sweeper[r].total |-> IF i <= Len(results) THEN results[i] ELSE Missing]

(* The loop's head: the cancel event is looked at.                         *)
NextSegment(r) ==
  /\ sweeper[r].at = "segment"
  /\ sweeper' = IF r \in cancels
                THEN [sweeper EXCEPT ![r].at = "restore", ![r].outcome = "CANCELLED",
                                     ![r].results = Filled(r, @)]
                ELSE [sweeper EXCEPT ![r].at = "notify"]
  /\ UNCHANGED <<presenter, cancels, engine, window, spent>>

Notify(r) ==
  /\ sweeper[r].at = "notify" /\ GoesTo(r, "retune") /\ Reported
  /\ UNCHANGED <<cancels, engine, window, spent>>

(* One segment is over: its result, and on to the next one or to the end.  *)
Over(r, status) ==
  LET w == sweeper[r]
      one == [status |-> status, generation |-> engine[r].generation]
      all == Append(w.results, one)
      ends == status # "COMPLETED" \/ w.seg = sweeper[r].total
  IN sweeper' = [sweeper EXCEPT ![r] =
       [w EXCEPT !.touched = TRUE, !.at = IF ends THEN "restore" ELSE "segment",
                 !.seg = IF ends THEN @ ELSE @ + 1, !.outcome = IF ends THEN status ELSE @,
                 !.results = IF ends THEN Filled(r, all) ELSE all]]

FirstRetune(r) ==
  /\ ~sweeper[r].started
  /\ \/ /\ engine' = [engine EXCEPT ![r] = Configured(@, sweeper[r].seg)]
        /\ sweeper' = [sweeper EXCEPT ![r].at = "start", ![r].touched = TRUE]
        /\ UNCHANGED <<presenter, spent>>
     \/ SweepFault /\ UNCHANGED engine /\ Over(r, "FAILED") /\ Reported

(* An engine whose stream has failed refuses; the device may refuse after  *)
(* the stop, and the new stream may fail to start.                         *)
LaterRetune(r) ==
  LET e == engine[r] to == sweeper[r].seg IN
  /\ sweeper[r].started
  /\ \/ /\ e.state = "RUNNING" /\ UNCHANGED spent
        /\ engine' = [engine EXCEPT ![r] = Reconfigured(e, to)]
        /\ GoesTo(r, "capture") /\ UNCHANGED presenter
     \/ /\ e.state = "RUNNING" /\ SweepFault
        /\ \E f \in {Stopped(e), Configured(e, to)} : engine' = [engine EXCEPT ![r] = f]
        /\ Over(r, "FAILED") /\ Reported
     \/ /\ ~MayConfigure(e) /\ e.state # "RUNNING"
        /\ Over(r, "FAILED") /\ Reported /\ UNCHANGED <<engine, spent>>

Retune(r) ==
  /\ sweeper[r].at = "retune" /\ (FirstRetune(r) \/ LaterRetune(r))
  /\ UNCHANGED <<cancels, window>>

StartStream(r) ==
  /\ sweeper[r].at = "start"
  /\ \/ /\ engine' = [engine EXCEPT ![r].state = "RUNNING"]
        /\ sweeper' = [sweeper EXCEPT ![r].at = "capture", ![r].started = TRUE]
        /\ UNCHANGED <<presenter, spent>>
     \/ SweepFault /\ UNCHANGED engine /\ Over(r, "FAILED") /\ Reported
  /\ UNCHANGED <<cancels, window>>
(* Mutant: frames are waited for without a deadline.                       *)
CaptureWithoutTimeout(r) ==
  /\ sweeper[r].at = "capture"
  /\ \/ engine[r].state = "RUNNING" /\ Over(r, "COMPLETED") /\ UNCHANGED spent
     \/ r \in cancels /\ Over(r, "CANCELLED") /\ UNCHANGED spent
  /\ Reported /\ UNCHANGED <<cancels, engine, window>>

(* _wait_seconds, _capture and _validate_frames: the frames come, though   *)
(* the stream may have failed since; the run is cancelled; or the deadline *)
(* passes, because the stream has failed or the device is silent.          *)
Capture(r) ==
  /\ sweeper[r].at = "capture" /\ UNCHANGED engine
  /\ \/ Over(r, "COMPLETED") /\ UNCHANGED spent
     \/ r \in cancels /\ Over(r, "CANCELLED") /\ UNCHANGED spent
     \/ engine[r].state = "ERROR" /\ Over(r, "FAILED") /\ UNCHANGED spent
     \/ SweepFault /\ Over(r, "FAILED")
  /\ Reported /\ UNCHANGED <<cancels, window>>

(* Back to base_options: nothing to do; or request_stop(), which a stopped *)
(* or only configured engine refuses, and join() first; and configure().   *)
RestoreWorks(r) ==
  /\ IF sweeper[r].touched
       THEN /\ sweeper[r].started => engine[r].state \in {"RUNNING", "ERROR"}
            /\ engine' = [engine EXCEPT ![r] = Configured(@, Base)]
       ELSE UNCHANGED engine
  /\ UNCHANGED spent

RestoreFails(r) ==
  /\ sweeper[r].touched
  /\ IF sweeper[r].started /\ engine[r].state \notin {"RUNNING", "ERROR"}
       THEN UNCHANGED <<engine, spent>>
       ELSE SweepFault /\ engine' = [engine EXCEPT ![r] = IF sweeper[r].started THEN Stopped(@) ELSE @]

(* Mutant: the flag is set before the device has answered.                 *)
RestoreFlaggedFirst(r) ==
  /\ sweeper[r].at = "restore"
  /\ sweeper' = [sweeper EXCEPT ![r].at = "publish", ![r].restored = TRUE]
  /\ RestoreWorks(r) \/ RestoreFails(r)
  /\ Reported /\ UNCHANGED <<cancels, window>>

Restore(r) ==
  /\ sweeper[r].at = "restore"
  /\ \/ RestoreWorks(r) /\ sweeper' = [sweeper EXCEPT ![r].at = "publish", ![r].restored = TRUE]
     \/ /\ RestoreFails(r)
        /\ sweeper' = [sweeper EXCEPT ![r].at = "publish", ![r].outcome = "FAILED"]
  /\ Reported /\ UNCHANGED <<cancels, window>>

(* stitch_sweep wants a result of every segment and one generation in all  *)
(* that were completed.                                                    *)
Generations(r) ==
  {sweeper[r].results[i].generation :
     i \in {k \in DOMAIN sweeper[r].results : sweeper[r].results[k].status = "COMPLETED"}}
Stitched(r) ==
  Len(sweeper[r].results) = sweeper[r].total /\ Cardinality(Generations(r)) <= 1

Published(r, event) ==
  [presenter EXCEPT
     !.frame = IF Stitched(r) THEN r ELSE @, !.result = IF Stitched(r) THEN r ELSE 0,
     !.status = IF Stitched(r) THEN sweeper[r].outcome ELSE "FAILED",
     !.thread = 0, !.event = event]

(* The end of the run is published, and only then the service is let go:   *)
(* the window may start the next run in between.                           *)
PublishRun(r) ==
  /\ sweeper[r].at = "publish" /\ GoesTo(r, "disconnect")
  /\ presenter' = Published(r, 0)
  /\ UNCHANGED <<cancels, engine, window, spent>>

Disconnect(r) ==
  /\ sweeper[r].at = "disconnect" /\ GoesTo(r, "ended")
  /\ engine' = [engine EXCEPT ![r].state = "none"]
  /\ UNCHANGED <<presenter, cancels, window, spent>>

-----------------------------------------------------------------------------
SweepWorker(r) ==
  \/ Begin(r) \/ NextSegment(r) \/ Notify(r) \/ Retune(r) \/ StartStream(r) \/ Capture(r)
  \/ Restore(r) \/ PublishRun(r) \/ Disconnect(r)

SweepNext ==
  \/ \E c \in Configs : PlanClicked(c)
  \/ RunClicked \/ CancelClicked \/ CloseBegins \/ CloseEnds
  \/ \E r \in Runs : SweepWorker(r) \/ StreamFails(r)

SweepSpec == SweepInit /\ [][SweepNext]_sweepVars

(* The thread runs, and its calls and waits end.                           *)
SweepFairness == \A r \in Runs : WF_sweepVars(SweepWorker(r))

-----------------------------------------------------------------------------
(* A plan covers the whole span, except the DC windows of its segments;    *)
(* neighbours overlap by what was asked at least, in a segment no wider    *)
(* than the radio's band; and one segment fewer would not do.              *)
InDc(c, s, f) ==
  LET center == (s.from + s.to) \div 2
  IN center - c.dc \div 2 <= f /\ f < center + c.dc \div 2

PlanCoversTheBand ==
  \A c \in {presenter.plan[i] : i \in DOMAIN presenter.plan} :
    LET s == Plans[c] n == Len(s) IN
    /\ \A f \in c.start..(c.stop - 1) :
         \E i \in 1..n : \/ InDc(c, s[i], f)
                         \/ \E r \in s[i].crops : r[1] <= f /\ f < r[2]
    /\ \A i \in 1..n : s[i].to - s[i].from <= Least(c.rate, c.bandwidth)
    /\ \A i \in 1..(n - 1) : s[i].to - s[i + 1].from >= c.overlap
    /\ n > 1 => Usable(c) + (n - 2) * Stride(c) < c.stop - c.start

(* Whatever happens to a run, it has one result of each segment, in order: *)
(* completed ones, then the one that failed or was cancelled, if any, then *)
(* MISSING ones.                                                           *)
ResultsFollowThePlan ==
  \A r \in Runs : (sweeper[r].at \in {"disconnect", "ended"} /\ sweeper[r].touched) =>
    LET res == sweeper[r].results
        whole == Cardinality({i \in DOMAIN res : res[i].status = "COMPLETED"})
    IN /\ Len(res) = sweeper[r].total
       /\ \A i \in DOMAIN res : /\ i <= whole <=> res[i].status = "COMPLETED"
                                /\ i > whole + 1 => res[i].status = "MISSING"

(* A run that says restored has left the radio as base_options want it     *)
(* and its stream stopped.                                                 *)
RestoredIsRestored ==
  \A r \in Runs : (sweeper[r].restored /\ engine[r].state # "none") =>
    /\ engine[r].state \in {"CREATED", "CONFIGURED"}
    /\ sweeper[r].touched => engine[r].tuned = Base

(* A sweep shown as completed is one: all its segments are, they make the  *)
(* frame that is shown, and the radio was given back.                      *)
CompletedSweepIsWhole ==
  presenter.status = "COMPLETED" =>
    LET r == presenter.result IN
    /\ r = spent.runs /\ presenter.frame = r /\ sweeper[r].restored
    /\ \A i \in DOMAIN sweeper[r].results : sweeper[r].results[i].status = "COMPLETED"
    /\ Len(sweeper[r].results) = sweeper[r].total

(* While the window says that a sweep runs or is being cancelled, a worker *)
(* is there to end it: otherwise no button would ever work again.          *)
StatusHasAWorker ==
  presenter.status \in Active =>
    \E r \in Runs : RunAlive(r) /\ sweeper[r].at # "disconnect" /\ presenter.thread = r

(* What the window is told of a sweep is true, whether the sweep goes on,  *)
(* was completed, was cancelled, or failed in a segment or in the          *)
(* restoration; and the plan it was told covers the band.                  *)
SweepsAreTold ==
  PlanCoversTheBand /\ ResultsFollowThePlan /\ RestoredIsRestored /\ CompletedSweepIsWhole /\ StatusHasAWorker

(* Every run ends: its end is shown, and its service is disconnected.      *)
RunsEnd ==
  \A r \in Runs : (sweeper[r].at = "begin") ~> (sweeper[r].at = "ended" /\ engine[r].state = "none")

(* "Create one immutable full-span frame from one P12 execution"           *)
(* (stitching.py:263): when every segment is completed there is a frame.   *)
CompletedSegmentsAreStitched ==
  \A r \in Runs : (sweeper[r].at = "disconnect" /\ sweeper[r].outcome = "COMPLETED")
    => presenter.frame >= r
=============================================================================
