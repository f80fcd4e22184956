-------------------------- MODULE MonitorDiagnostics --------------------------
(***************************************************************************)
(* The diagnostics of sdr_monitor: the service and its TaskSupervisor      *)
(* (services/diagnostics_session.py), which has a pool of two threads and  *)
(* one cancel event, the presenter and the page.                           *)
(*                                                                         *)
(* The end of a task is followed by a refresh: a snapshot of the service is*)
(* collected under its lock in the thread of the task, then posted, so that*)
(* another thread may post a later one in between.  If the task ended      *)
(* before its callback was attached, the GUI thread does all of that.      *)
(***************************************************************************)
EXTENDS Integers, Sequences, FiniteSets

CONSTANTS Cases,       \* number of self-tests
          LogCapacity, \* errors that are kept
          None,        \* nothing
          MaxTasks     \* bound

VARIABLES
  diagnostics, \* [tests, errors]: what the service keeps; an error is its identifier
  supervisor,  \* [cancel, closed, pool]: the event, the flag, the tasks no thread has taken
  worker,      \* of each thread: [at, task, results, snapshot]
  attaching,         \* the task whose callback is to be attached, or 0
  ended,       \* how that task has ended by then
  posted,      \* signals in the event queue
  page,        \* [snapshot, tests, canTest]
  asked        \* history: [tasks, failed, overlapped]: tasks submitted, tasks that failed, and
               \* whether the latest was submitted before the one before it was done with

diagnosticsVars ==
  <<diagnostics, supervisor, worker, attaching, ended, posted, page, asked>>

Workers == {"worker1", "worker2"}
IdleWorker == [at |-> "idle", task |-> 0, results |-> <<>>, snapshot |-> None]

(* collect_snapshot: the last tests, in the cards, and the errors.         *)
SnapshotOf(d) == [tests |-> d.tests, errors |-> d.errors]

DiagnosticsInit ==
  /\ diagnostics = [tests |-> <<>>, errors |-> <<>>]
  /\ supervisor = [cancel |-> FALSE, closed |-> FALSE, pool |-> <<>>]
  /\ worker = [w \in Workers |-> IdleWorker]
  /\ attaching = 0 /\ ended = <<>> /\ posted = <<>>
  /\ page = [snapshot |-> SnapshotOf(diagnostics), tests |-> <<>>, canTest |-> TRUE]
  /\ asked = [tasks |-> 0, failed |-> 0, overlapped |-> FALSE]

Signal(kind, value) == [kind |-> kind, value |-> value]
BusyOff == Signal("busy", None)
Post(signals) == posted' = IF supervisor.closed THEN <<>> ELSE posted \o signals

(* Nothing of a task is under way.                                         *)
AtRest == /\ supervisor.pool = <<>> /\ posted = <<>> /\ attaching = 0
          /\ \A w \in Workers : worker[w] = IdleWorker

-----------------------------------------------------------------------------
(* The threads                                                             *)

Take(w) ==
  /\ worker[w].at = "idle" /\ supervisor.pool # <<>>
  /\ w = "worker2" => worker["worker1"].at # "idle"
  /\ worker' = [worker EXCEPT ![w] = [IdleWorker EXCEPT !.at = Head(supervisor.pool).op,
                                                        !.task = Head(supervisor.pool).id]]
  /\ supervisor' = [supervisor EXCEPT !.pool = Tail(@)]
  /\ UNCHANGED <<diagnostics, attaching, ended, posted, page, asked>>

(* One self-test, or the end of them when the event is set.                *)
SelfTest(w) ==
  LET r == worker[w].results IN
  /\ worker[w].at = "tests"
  /\ worker' = [worker EXCEPT
       ![w].results = Append(r, IF supervisor.cancel THEN "cancelled" ELSE "done"),
       ![w].at = IF supervisor.cancel \/ Len(r) + 1 = Cases THEN "keep" ELSE "tests"]
  /\ UNCHANGED <<diagnostics, supervisor, attaching, ended, posted, page, asked>>

(* The future has its result.                                              *)
Returns(w, answer) ==
  IF attaching = worker[w].task
    THEN ended' = answer /\ worker' = [worker EXCEPT ![w] = IdleWorker] /\ UNCHANGED posted
    ELSE Post(answer) /\ worker' = [worker EXCEPT ![w].at = "collect"] /\ UNCHANGED ended

(* run_self_tests keeps the results under the lock.                        *)
KeepTests(w) ==
  /\ worker[w].at = "keep"
  /\ diagnostics' = [diagnostics EXCEPT !.tests = worker[w].results]
  /\ Returns(w, <<Signal("tests", worker[w].results)>>)
  /\ UNCHANGED <<supervisor, attaching, page, asked>>

(* The test of the receiver, confirmed, and the bundle keep nothing.       *)
Succeeds(w) ==
  /\ worker[w].at \in {"rx", "bundle"}
  /\ Returns(w, IF worker[w].at = "bundle" THEN <<Signal("bundle", None)>>
                ELSE <<Signal("tests", <<IF supervisor.cancel THEN "cancelled" ELSE "done">>)>>)
  /\ UNCHANGED <<diagnostics, supervisor, attaching, page, asked>>

(* It is not confirmed, or the bundle cannot be written: no refresh.       *)
Fails(w) ==
  /\ worker[w].at \in {"rx", "bundle"}
  /\ asked' = [asked EXCEPT !.failed = @ + 1]
  /\ worker' = [worker EXCEPT ![w] = IdleWorker]
  /\ IF attaching = worker[w].task THEN ended' = <<Signal("error", None)>> /\ UNCHANGED posted
     ELSE Post(<<Signal("error", None), BusyOff>>) /\ UNCHANGED ended
  /\ UNCHANGED <<diagnostics, supervisor, attaching, page>>

(* Mutant: the snapshot is collected before the results are kept.          *)
CollectsEarly(w) ==
  /\ worker[w].at = "collect"
  /\ worker' = [worker EXCEPT ![w].at = "emit", ![w].snapshot = page.snapshot]
  /\ UNCHANGED <<diagnostics, supervisor, attaching, ended, posted, page, asked>>

Collect(w) ==
  /\ worker[w].at = "collect"
  /\ worker' = [worker EXCEPT ![w].at = "emit", ![w].snapshot = SnapshotOf(diagnostics)]
  /\ UNCHANGED <<diagnostics, supervisor, attaching, ended, posted, page, asked>>

EmitSnapshot(w) ==
  /\ worker[w].at = "emit" /\ worker' = [worker EXCEPT ![w] = IdleWorker]
  /\ Post(<<Signal("snapshot", worker[w].snapshot), BusyOff>>)
  /\ UNCHANGED <<diagnostics, supervisor, attaching, ended, page, asked>>

Works(w) ==
  SelfTest(w) \/ KeepTests(w) \/ Succeeds(w) \/ Fails(w) \/ Collect(w) \/ EmitSnapshot(w)

-----------------------------------------------------------------------------
(* The GUI thread                                                          *)

(* presenter._submit and supervisor.submit, which clears the event.        *)
Submit(op) ==
  /\ attaching = 0 /\ ~supervisor.closed /\ asked.tasks < MaxTasks
  /\ asked' = [asked EXCEPT !.tasks = @ + 1, !.overlapped = ~AtRest]
  /\ attaching' = asked.tasks + 1
  /\ supervisor' = [supervisor EXCEPT !.cancel = FALSE,
                                      !.pool = Append(@, [id |-> asked.tasks + 1, op |-> op])]
  /\ page' = [page EXCEPT !.canTest = FALSE]
  /\ UNCHANGED <<diagnostics, worker, ended, posted>>

AskTests == page.canTest /\ Submit("tests")
AskOther == Submit("rx") \/ Submit("bundle")

Cancel ==
  /\ attaching = 0 /\ ~supervisor.closed /\ ~supervisor.cancel
  /\ supervisor' = [supervisor EXCEPT !.cancel = TRUE]
  /\ UNCHANGED <<diagnostics, worker, attaching, ended, posted, page, asked>>

(* report_error: the list keeps its capacity, an identifier is the length  *)
(* of the list, so that it comes again once the list is full.              *)
WithError(errors) ==
  LET longer == Append(errors, Len(errors) + 1)
  IN IF Len(longer) > LogCapacity THEN Tail(longer) ELSE longer

(* What a signal shows; an error is reported, and the page refreshed.      *)
Show(s) ==
  LET reported == [diagnostics EXCEPT !.errors = WithError(@)] IN
  CASE s.kind = "tests" -> page' = [page EXCEPT !.tests = s.value] /\ UNCHANGED diagnostics
    [] s.kind = "snapshot" -> page' = [page EXCEPT !.snapshot = s.value] /\ UNCHANGED diagnostics
    [] s.kind = "busy" -> page' = [page EXCEPT !.canTest = TRUE] /\ UNCHANGED diagnostics
    [] s.kind = "error" -> /\ diagnostics' = reported
                           /\ page' = [page EXCEPT !.snapshot = SnapshotOf(reported)]
    [] OTHER -> UNCHANGED <<page, diagnostics>>

Deliver ==
  /\ attaching = 0 /\ posted # <<>> /\ Show(Head(posted)) /\ posted' = Tail(posted)
  /\ UNCHANGED <<supervisor, worker, attaching, ended, asked>>

(* A task that has ended by now: its answer, the refresh and the end of    *)
(* busy, all in this thread and before what is in the queue.               *)
Attach ==
  /\ attaching # 0 /\ attaching' = 0 /\ ended' = <<>>
  /\ IF ended = <<>> THEN UNCHANGED <<page, diagnostics>>
     ELSE LET s == Head(ended)
              d == IF s.kind = "error" THEN [diagnostics EXCEPT !.errors = WithError(@)] ELSE diagnostics
          IN /\ diagnostics' = d
             /\ page' = [snapshot |-> SnapshotOf(d), canTest |-> TRUE,
                         tests |-> IF s.kind = "tests" THEN s.value ELSE page.tests]
  /\ UNCHANGED <<supervisor, worker, posted, asked>>

(* The page is disposed of: what no thread has taken is cancelled.         *)
Shutdown ==
  /\ attaching = 0 /\ ~supervisor.closed
  /\ supervisor' = [cancel |-> TRUE, closed |-> TRUE, pool |-> <<>>] /\ posted' = <<>>
  /\ UNCHANGED <<diagnostics, worker, attaching, ended, page, asked>>

DiagnosticsNext ==
  \/ \E w \in Workers : Take(w) \/ Works(w)
  \/ AskTests \/ AskOther \/ Cancel \/ Deliver \/ Attach \/ Shutdown

DiagnosticsSpec == DiagnosticsInit /\ [][DiagnosticsNext]_diagnosticsVars

-----------------------------------------------------------------------------
(* When nothing is under way and no two tasks overlapped, the page shows   *)
(* the tests and the errors the service keeps, every failure is among the  *)
(* errors as far as the list reaches, and the tests can be run again.      *)
DiagnosticsAreTold ==
  (AtRest /\ ~supervisor.closed) =>
    /\ page.canTest
    /\ Len(diagnostics.errors) = IF asked.failed < LogCapacity THEN asked.failed ELSE LogCapacity
    /\ ~asked.overlapped => page.snapshot = SnapshotOf(diagnostics)

=============================================================================
