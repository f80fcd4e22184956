----------------------------- MODULE MonitorSweep -----------------------------
(***************************************************************************)
(* The sweep of sdr_monitor: the service that plans and executes           *)
(* (services/sweep_session.py), the presenter whose pool of two threads    *)
(* calls it, cancelling included, and the page that plans before it runs.  *)
(*                                                                         *)
(* Plan, execute, cancel and export are tasks of the one pool; the service *)
(* has one cancel event, which execute() clears as it begins.  An answer   *)
(* goes through the event queue of the GUI thread, or is shown at once if  *)
(* the task ended before its callback was attached.                        *)
(***************************************************************************)
EXTENDS Integers, Sequences, FiniteSets

CONSTANTS SweepConfigs,    \* [start, stop, width, overlap, margin], frequencies in 100 kHz
          None,            \* no plan, no answer
          MaxCommands      \* bound: tasks and edits

VARIABLES
  service, \* [cancel, closed]: the event and the flag
  pool,    \* tasks no thread has taken: [id, op, config]
  lane,    \* of each thread: [at, task, done]
  gui,     \* the task whose callback is to be attached, or 0
  ended,   \* what that task has answered by then
  posted,  \* signals in the event queue
  page,    \* [config, plan, result, canRun, canPlan, canCancel]
  told,    \* the latest result: [state, done, total], and whether a cancel had been heard
  heard,   \* history: threads whose sweep was to be cancelled since it began
  spent    \* history: [commands, overtaken]; overtaken: an answer was shown before older signals

monitorSweepVars == <<service, pool, lane, gui, ended, posted, page, told, heard, spent>>

Lanes == {"lane1", "lane2"}
IdleLane == [at |-> "idle", task |-> None, done |-> 0]
NoAnswer == <<>>
NoResult == [state |-> "none", done |-> 0, total |-> 1, heard |-> FALSE]

-----------------------------------------------------------------------------
(* plan()                                                                  *)

CeilDiv(a, b) == (a + b - 1) \div b
LargerOf(a, b) == IF a > b THEN a ELSE b
SmallerOf(a, b) == IF a < b THEN a ELSE b

(* The part of the width that is not shared with the next segment.         *)
StepOf(c) == (c.width * (100 - c.overlap)) \div 100

(* Mutant: a last segment that is not full is not counted.                 *)
CountOfFull(c) == LargerOf(1, LargerOf(0, c.stop - c.start - c.width) \div StepOf(c) + 1)

CountOf(c) == LargerOf(1, CeilDiv(LargerOf(0, c.stop - c.start - c.width), StepOf(c)) + 1)

Segments(c) ==
  [i \in 1..CountOf(c) |->
     LET low == c.start + (i - 1) * StepOf(c)
         high == SmallerOf(c.stop, low + c.width)
     IN [start |-> low, stop |-> high,
         usableStart |-> SmallerOf(high, low + c.margin), usableStop |-> LargerOf(low, high - c.margin)]]

-----------------------------------------------------------------------------
SweepInit ==
  /\ service = [cancel |-> FALSE, closed |-> FALSE]
  /\ \E c \in SweepConfigs :
       /\ page = [config |-> c, plan |-> None, result |-> FALSE,
                  canRun |-> FALSE, canPlan |-> FALSE, canCancel |-> FALSE]
       /\ pool = <<[id |-> 1, op |-> "plan", config |-> c]>>
  /\ gui = 1 /\ ended = NoAnswer /\ posted = <<>>
  /\ lane = [l \in Lanes |-> IdleLane]
  /\ told = NoResult /\ heard = {}
  /\ spent = [commands |-> 1, overtaken |-> FALSE]

-----------------------------------------------------------------------------
(* The threads of the pool                                                 *)

Signal(kind, value) == [kind |-> kind, value |-> value]

(* Nothing listens once the page is closed.  Progress that follows the     *)
(* same progress changes nothing that is kept.                             *)
EmitProgress(signal) ==
  posted' = IF service.closed \/ (posted # <<>> /\ posted[Len(posted)] = signal) THEN posted
            ELSE Append(posted, signal)

(* The end of a task: its last progress, and _complete, in this thread if  *)
(* the callback is attached.                                               *)
Ends(l, progress, answer) ==
  /\ lane' = [lane EXCEPT ![l] = IdleLane]
  /\ ended' = IF gui = lane[l].task.id THEN answer ELSE ended
  /\ posted' = IF service.closed THEN <<>>
               ELSE posted \o progress \o (IF gui = lane[l].task.id THEN <<>> ELSE answer)

BusyOff == Signal("busy", None)
MovesTo(l, at) == lane' = [lane EXCEPT ![l].at = at] /\ UNCHANGED <<ended, heard>>

Take(l) ==
  /\ lane[l].at = "idle" /\ pool # <<>>
  /\ l = "lane2" => lane["lane1"].at # "idle"
  /\ lane' = [lane EXCEPT ![l] = [at |-> Head(pool).op, task |-> Head(pool), done |-> 0]]
  /\ pool' = Tail(pool)
  /\ UNCHANGED <<service, gui, ended, posted, page, told, heard, spent>>

PlanTask(l) ==
  /\ lane[l].at = "plan" /\ Ends(l, <<>>, <<Signal("plan", lane[l].task.config), BusyOff>>)
  /\ UNCHANGED <<service, pool, gui, page, told, heard, spent>>

ExportTask(l) ==
  /\ lane[l].at = "export" /\ Ends(l, <<>>, <<BusyOff>>)
  /\ UNCHANGED <<service, pool, gui, page, told, heard, spent>>

(* The event is set: for the sweeps that have begun.                       *)
Executing == {l \in Lanes : lane[l].at \in {"before", "after"}}
CancelTask(l) ==
  /\ lane[l].at = "cancel" /\ service' = [service EXCEPT !.cancel = TRUE]
  /\ heard' = heard \cup Executing /\ Ends(l, <<>>, <<>>)
  /\ UNCHANGED <<pool, gui, page, told, spent>>

(* execute() clears the event, whoever had set it; a service that is closed*)
(* makes no plan.                                                          *)
Execute(l) ==
  /\ lane[l].at = "execute"
  /\ service' = [service EXCEPT !.cancel = FALSE] /\ heard' = {}
  /\ IF service.closed THEN Ends(l, <<>>, <<BusyOff>>)
     ELSE lane' = [lane EXCEPT ![l].at = "before"] /\ UNCHANGED <<ended, posted>>
  /\ UNCHANGED <<pool, gui, page, told, spent>>

Total(l) == Len(Segments(lane[l].task.config))
Outcome(l, state, done) ==
  /\ told' = [state |-> state, done |-> done, total |-> Total(l), heard |-> l \in heard]
  /\ heard' = heard \ {l}
  /\ Ends(l, IF state = "completed" THEN <<Signal("progress", "completed")>> ELSE <<>>,
             <<Signal("result", None), BusyOff>>)

(* Before a segment: the check, and the progress.                          *)
BeforeSegment(l) ==
  /\ lane[l].at = "before"
  /\ IF service.cancel THEN Outcome(l, "cancelled", lane[l].done)
     ELSE MovesTo(l, "after") /\ EmitProgress(Signal("progress", "running")) /\ UNCHANGED told
  /\ UNCHANGED <<service, pool, gui, page, spent>>

(* After it: the check again; after the last one the sweep is complete.    *)
AfterSegment(l) ==
  /\ lane[l].at = "after"
  /\ IF service.cancel THEN Outcome(l, "cancelled", lane[l].done)
     ELSE IF lane[l].done + 1 = Total(l) THEN Outcome(l, "completed", Total(l))
     ELSE /\ lane' = [lane EXCEPT ![l] = [lane[l] EXCEPT !.at = "before", !.done = lane[l].done + 1]]
          /\ EmitProgress(Signal("progress", "running")) /\ UNCHANGED <<told, ended, heard>>
  /\ UNCHANGED <<service, pool, gui, page, spent>>

Works(l) == \/ PlanTask(l) \/ ExportTask(l) \/ CancelTask(l) \/ Execute(l)
            \/ BeforeSegment(l) \/ AfterSegment(l)

-----------------------------------------------------------------------------
(* The GUI thread: the page and _submit                                    *)

Submit(op, config, becomes) ==
  /\ gui = 0 /\ ~service.closed /\ spent.commands < MaxCommands
  /\ spent' = [spent EXCEPT !.commands = @ + 1]
  /\ pool' = Append(pool, [id |-> spent.commands + 1, op |-> op, config |-> config])
  /\ gui' = spent.commands + 1
  /\ page' = IF op = "cancel" THEN becomes ELSE [becomes EXCEPT !.canPlan = FALSE, !.canRun = FALSE]
  /\ UNCHANGED <<service, lane, ended, posted, told, heard>>

(* What a signal makes of the page, p.                                     *)
ShownPlan(p, config) ==
  IF config = p.config THEN [p EXCEPT !.plan = config, !.canRun = TRUE] ELSE p
Shown(p, signal) ==
  CASE signal.kind = "plan" -> ShownPlan(p, signal.value)
    [] signal.kind = "progress" -> [p EXCEPT !.canCancel = signal.value = "running"]
    [] signal.kind = "result" -> [p EXCEPT !.result = TRUE, !.canCancel = FALSE]
    [] signal.kind = "busy" -> [p EXCEPT !.canPlan = TRUE, !.canRun = p.plan # None]
    [] OTHER -> p

(* An answer is of two signals at most.                                    *)
ShownAll(p, answer) ==
  IF answer = NoAnswer THEN p
  ELSE IF Len(answer) = 1 THEN Shown(p, answer[1]) ELSE Shown(Shown(p, answer[1]), answer[2])

Deliver ==
  /\ gui = 0 /\ ~service.closed /\ posted # <<>>
  /\ page' = Shown(page, Head(posted)) /\ posted' = Tail(posted)
  /\ UNCHANGED <<service, pool, lane, gui, ended, told, heard, spent>>

(* The answers of a task that has ended come before what is in the queue.  *)
Attach ==
  /\ gui # 0 /\ gui' = 0 /\ ended' = NoAnswer
  /\ page' = ShownAll(page, ended)
  /\ spent' = [spent EXCEPT !.overtaken = @ \/ (ended # NoAnswer /\ posted # <<>>)]
  /\ UNCHANGED <<service, pool, lane, posted, told, heard>>

(* A change of the mode drops the plan, one of another field does not.     *)
Edit ==
  /\ gui = 0 /\ ~service.closed /\ spent.commands < MaxCommands
  /\ spent' = [spent EXCEPT !.commands = @ + 1]
  /\ \E c \in SweepConfigs \ {page.config} :
       page' = IF c.width = page.config.width THEN [page EXCEPT !.config = c]
               ELSE [page EXCEPT !.config = c, !.plan = None, !.canRun = FALSE]
  /\ UNCHANGED <<service, pool, lane, gui, ended, posted, told, heard>>

RequestPlan == page.canPlan /\ Submit("plan", page.config, page)

(* run(): what is not planned is planned first.                            *)
Run ==
  /\ page.canRun
  /\ Submit(IF page.plan = page.config THEN "execute" ELSE "plan", page.config, page)

Cancel == page.canCancel /\ Submit("cancel", page.config, page)
Export == page.result /\ Submit("export", page.config, page)

(* The window closes: the page is let go, what no thread has taken is      *)
(* cancelled, and close() sets the event.                                  *)
Shutdown ==
  /\ gui = 0 /\ ~service.closed /\ service' = [cancel |-> TRUE, closed |-> TRUE]
  /\ pool' = <<>> /\ posted' = <<>> /\ heard' = heard \cup Executing
  /\ UNCHANGED <<lane, gui, ended, page, told, spent>>

SweepNext ==
  \/ \E l \in Lanes : Take(l) \/ Works(l)
  \/ Deliver \/ Attach \/ Edit \/ RequestPlan \/ Run \/ Cancel \/ Export \/ Shutdown

SweepSpec == SweepInit /\ [][SweepNext]_monitorSweepVars

-----------------------------------------------------------------------------
(* A plan covers its span: it begins and ends with it, each segment is     *)
(* within the width, begins in or at the end of the one before, and none   *)
(* could be left out.                                                      *)
PlanCovers ==
  LET s == Segments(page.config) n == Len(s) IN
  /\ s[1].start = page.config.start /\ s[n].stop = page.config.stop
  /\ \A i \in 1..n : s[i].start < s[i].stop /\ s[i].stop - s[i].start <= page.config.width
  /\ \A i \in 2..n : s[i - 1].start < s[i].start /\ s[i].start <= s[i - 1].stop
                     /\ s[i - 1].stop < s[i].stop

(* A sweep that was to be cancelled while it ran ends as cancelled; one    *)
(* that is complete has all its segments.                                  *)
CancelIsHeard ==
  /\ told.heard => told.state = "cancelled"
  /\ told.state = "completed" <=> told.done = told.total

(* When nothing is under way the page can plan, and offers nothing to      *)
(* cancel, unless an answer was shown before the signals it followed.      *)
SweepIsOver == pool = <<>> /\ posted = <<>> /\ gui = 0 /\ \A l \in Lanes : lane[l] = IdleLane
EndIsShown ==
  (SweepIsOver /\ ~service.closed /\ ~spent.overtaken) => (page.canPlan /\ ~page.canCancel)

SweepIsTold == PlanCovers /\ CancelIsHeard /\ EndIsShown

=============================================================================
