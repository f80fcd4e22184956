--------------------------- MODULE MonitorRecording ---------------------------
(***************************************************************************)
(* Recording in sdr_monitor: RecordingService and its source bus           *)
(* (services/recording_session.py), the presenter whose pool of two threads*)
(* calls it, the buttons of the workspace and the close of the window.     *)
(*                                                                         *)
(* start() opens a file, makes a queue and starts a writer thread: a take. *)
(* The service keeps one handle and one queue, so the writer of an earlier *)
(* take, if it is still there, works with those of the latest.  A section  *)
(* under _lock is a step.  A timeout may strike whenever a call waits.     *)
(***************************************************************************)
EXTENDS Integers, Sequences, FiniteSets

CONSTANTS Capacity,  \* queue_capacity
          MaxTakes, MaxStops, MaxBlocks, MaxFaults \* bounds

ASSUME TakesAssumption == MaxTakes \in Nat

VARIABLES
  service,   \* [state, take, worker, handle, sink, iq, drops]: fields of the service
  queues,    \* take -> its queue.Queue
  files,     \* take -> the blocks given to its file object
  final,     \* takes whose .part file has been renamed
  disk,      \* [held, unclosed, unrenamed]: take -> how many of its last blocks a failed flush
             \* left unwritten; history: takes whose flush or close, whose rename failed
  writer,    \* take -> [at, on, item]: its _writer_loop, the queue it waits on
  caller,    \* who -> [at, on]: the start() or stop() it is in, the queue or writer it waits for
  pool,      \* the tasks no thread of the presenter's executor has taken
  buttons,   \* [busy, live, closes]: start and stop button, calls of shutdown left
  published, \* take -> blocks published while it was recording
  clean,     \* history: takes started when nothing of an earlier one was left
  budget     \* history: [stops, faults, blocks]

recordingVars == <<service, queues, files, final, disk, writer, caller, pool, buttons,
                   published, clean, budget>>

Takes == 1..MaxTakes
Lanes == {"lane1", "lane2"}
Callers == Lanes \cup {"gui"}
Sentinel == 0
Idle == [at |-> "idle", on |-> 0]

MonitorInit ==
  /\ service = [state |-> "IDLE", take |-> 0, worker |-> 0, handle |-> 0, sink |-> FALSE,
                iq |-> 0, drops |-> 0]
  /\ queues = [t \in Takes |-> <<>>] /\ files = [t \in Takes |-> <<>>] /\ final = {}
  /\ disk = [held |-> [t \in Takes |-> 0], unclosed |-> {}, unrenamed |-> {}]
  /\ writer = [t \in Takes |-> [at |-> "none", on |-> 0, item |-> 0]]
  /\ caller = [c \in Callers |-> Idle]
  /\ pool = <<>> /\ buttons = [busy |-> FALSE, live |-> FALSE, closes |-> 2]
  /\ published = [t \in Takes |-> 0] /\ clean = {}
  /\ budget = [stops |-> 0, faults |-> 0, blocks |-> 0]

Open == buttons.closes = 2
Full(t) == Len(queues[t]) >= Capacity
Alive(t) == t # 0 /\ writer[t].at \notin {"none", "ended"}
Fault == budget.faults < MaxFaults /\ budget' = [budget EXCEPT !.faults = @ + 1]
(* A file object whose close failed may be closed: it fails ever after.    *)
FileFails ==
  IF service.handle \in disk.unclosed \cup {0} THEN UNCHANGED budget ELSE Fault
Go(c, at, on) == caller' = [caller EXCEPT ![c] = [at |-> at, on |-> on]]

-----------------------------------------------------------------------------
(* The window and the presenter                                            *)

(* _submit; the start button is off while the last signal said busy.       *)
ClickStart ==
  /\ Open /\ ~buttons.busy /\ service.take < MaxTakes
  /\ pool' = Append(pool, "start") /\ buttons' = [buttons EXCEPT !.busy = TRUE]
  /\ UNCHANGED <<service, queues, files, final, disk, writer, caller, published, clean, budget>>

(* The stop button is on while the last health shown was RECORDING.        *)
ClickStop ==
  /\ Open /\ buttons.live /\ budget.stops < MaxStops
  /\ pool' = Append(pool, "stop") /\ buttons' = [buttons EXCEPT !.busy = TRUE]
  /\ budget' = [budget EXCEPT !.stops = @ + 1]
  /\ UNCHANGED <<service, queues, files, final, disk, writer, caller, published, clean>>

ShowHealth ==
  /\ Open /\ buttons' = [buttons EXCEPT !.live = service.state = "RECORDING"]
  /\ UNCHANGED <<service, queues, files, final, disk, writer, caller, pool, published, clean,
                 budget>>

(* (Which of two idle threads takes it makes no difference.)               *)
LaneTakes(c) ==
  /\ c \in Lanes /\ caller[c] = Idle /\ pool # <<>>
  /\ c = "lane2" => caller["lane1"] # Idle
  /\ Go(c, Head(pool), 0) /\ pool' = Tail(pool)
  /\ UNCHANGED <<service, queues, files, final, disk, writer, buttons, published, clean, budget>>

(* The end of a task, with a result or an error: busy goes off although    *)
(* another task may still run, and the health is shown again.              *)
Returns(c) ==
  /\ Go(c, IF c = "gui" THEN "release" ELSE "idle", 0)
  /\ buttons' = IF c = "gui" THEN buttons
                ELSE [buttons EXCEPT !.busy = FALSE, !.live = service'.state = "RECORDING"]

(* RecordingPresenter.shutdown, once when the page is disposed of and once *)
(* for the window: tasks nobody took are cancelled, then close().          *)
Shutdown ==
  /\ buttons.closes > 0 /\ caller["gui"] = Idle
  /\ buttons' = [buttons EXCEPT !.closes = @ - 1] /\ pool' = <<>>
  /\ Go("gui", IF service.state \in {"RECORDING", "FINALIZING"} THEN "stop" ELSE "release", 0)
  /\ UNCHANGED <<service, queues, files, final, disk, writer, published, clean, budget>>

(* The number of the last blocks that the file object there is still holds.*)
Holding(n) ==
  [disk EXCEPT !.held = [t \in Takes |-> IF t = service.handle THEN n ELSE disk.held[t]]]

(* flush() or close() raises: any number of blocks is not written, and the *)
(* handle stays.  (What the file object of an earlier take still holds when*)
(* start() replaces it is not followed.)                                   *)
ClosingFails ==
  /\ service.handle # 0 /\ FileFails /\ UNCHANGED service
  /\ \E n \in 0..Len(files[service.handle]) :
       disk' = [Holding(n) EXCEPT !.unclosed = @ \cup {service.handle}]

(* A handle that is left is closed, and the file object writes what it can.*)
Release ==
  /\ caller["gui"].at = "release" /\ Go("gui", "idle", 0)
  /\ \/ /\ service' = [service EXCEPT !.handle = 0,
                                       !.state = IF @ = "COMPLETED" THEN "IDLE" ELSE @]
        /\ disk' \in {disk, Holding(0)} /\ UNCHANGED budget
     \/ ClosingFails
  /\ UNCHANGED <<queues, files, final, writer, pool, buttons, published, clean>>

-----------------------------------------------------------------------------
(* start                                                                   *)

(* Nothing of an earlier take is left: no writer and no call of stop().    *)
Quiet(c) == /\ \A t \in Takes : ~Alive(t)
            /\ \A d \in Callers \ {c} : caller[d].at \in {"idle", "start", "stop"}

NewTake(t) ==
  [state |-> "RECORDING", take |-> t, worker |-> t, handle |-> t, sink |-> TRUE,
   iq |-> 0, drops |-> 0]

StartRefused(c) ==
  /\ service.state \in {"RECORDING", "FINALIZING"} /\ UNCHANGED service /\ Returns(c)
  /\ UNCHANGED <<queues, files, final, disk, writer, pool, published, clean, budget>>

Started(c, t) ==
  /\ service' = NewTake(t)
  /\ writer' = [writer EXCEPT ![t].at = "loop"]
  /\ clean' = IF Quiet(c) THEN clean \cup {t} ELSE clean
  /\ UNCHANGED budget

(* The header cannot be written: the take is RECORDING without a writer.   *)
HeaderFails(t) ==
  /\ Fault
  /\ service' = [NewTake(t) EXCEPT !.worker = service.worker, !.sink = service.sink]
  /\ UNCHANGED <<writer, clean>>

(* The file cannot be opened.                                              *)
OpenFails == Fault /\ UNCHANGED <<service, writer, clean>>

StartTake(c) ==
  /\ caller[c].at = "start"
  /\ \/ StartRefused(c)
     \/ /\ service.state \notin {"RECORDING", "FINALIZING"} /\ service.take < MaxTakes
        /\ LET t == service.take + 1 IN Started(c, t) \/ HeaderFails(t) \/ OpenFails
        /\ Returns(c)
        /\ UNCHANGED <<queues, files, final, disk, pool, published>>

-----------------------------------------------------------------------------
(* Blocks: RecordingSourceBus.publish_iq, submit_iq                        *)

Publish ==
  /\ service.sink /\ service.state = "RECORDING"
  /\ budget.blocks < MaxBlocks /\ budget' = [budget EXCEPT !.blocks = @ + 1]
  /\ LET t == service.take n == published[t] + 1 IN
       /\ published' = [published EXCEPT ![t] = n]
       /\ IF Full(t) THEN service' = [service EXCEPT !.drops = @ + 1] /\ UNCHANGED queues
          ELSE queues' = [queues EXCEPT ![t] = Append(@, n)] /\ UNCHANGED service
  /\ UNCHANGED <<files, final, disk, writer, caller, pool, buttons, clean>>

-----------------------------------------------------------------------------
(* stop                                                                    *)

GoJoin(c) == Go(c, "join", service.worker)

StopBegins(c) ==
  /\ caller[c].at = "stop"
  /\ CASE service.state = "IDLE" -> UNCHANGED service /\ Returns(c)
       [] service.state = "RECORDING" ->
            /\ service' = [service EXCEPT !.state = "FINALIZING", !.sink = FALSE]
            /\ Go(c, "put", service.take) /\ UNCHANGED buttons
       [] OTHER -> GoJoin(c) /\ UNCHANGED <<service, buttons>>
  /\ UNCHANGED <<queues, files, final, disk, writer, pool, published, clean, budget>>

(* queue_ref.put(_SENTINEL, timeout): it goes in, or the time is over.     *)
PutsSentinel(c) ==
  /\ caller[c].at = "put"
  /\ \/ /\ ~Full(caller[c].on) /\ GoJoin(c)
        /\ queues' = [queues EXCEPT ![caller[c].on] = Append(@, Sentinel)]
     \/ Full(caller[c].on) /\ Go(c, "evict", caller[c].on) /\ UNCHANGED queues
  /\ UNCHANGED <<service, files, final, disk, writer, pool, buttons, published, clean, budget>>

(* One turn of the loop: a queue found empty ends it.                      *)
EvictOne(c) ==
  LET q == caller[c].on IN
  /\ caller[c].at = "evict"
  /\ IF queues[q] = <<>> THEN GoJoin(c) /\ UNCHANGED <<queues, service>>
     ELSE /\ queues' = [queues EXCEPT ![q] = Tail(@)]
          /\ service' = [service EXCEPT !.drops = @ + 1]
          /\ Go(c, "place", q)
  /\ UNCHANGED <<files, final, disk, writer, pool, buttons, published, clean, budget>>

(* There is room: nobody else puts while the state is FINALIZING.          *)
PlaceSentinel(c) ==
  /\ caller[c].at = "place" /\ ~Full(caller[c].on) /\ GoJoin(c)
  /\ queues' = [queues EXCEPT ![caller[c].on] = Append(@, Sentinel)]
  /\ UNCHANGED <<service, files, final, disk, writer, pool, buttons, published, clean, budget>>

(* The join is over, with or without the end of the writer.                *)
Joined(c) ==
  /\ caller[c].at = "join" /\ Go(c, "finish", caller[c].on)
  /\ UNCHANGED <<service, queues, files, final, disk, writer, pool, buttons, published, clean,
                 budget>>

(* The state is COMPLETED before os.replace is called, which may raise: a  *)
(* close of the window ends there, before it releases the handle.          *)
RenameFails(c) ==
  /\ Fault /\ UNCHANGED final
  /\ disk' = [disk EXCEPT !.unrenamed = @ \cup {service.take}]
  /\ IF c = "gui" THEN Go(c, "idle", 0) /\ UNCHANGED buttons ELSE Returns(c)

Completes(c) ==
  /\ service' = [service EXCEPT !.state = "COMPLETED"]
  /\ \/ final' = final \cup {service.take} /\ Returns(c) /\ UNCHANGED <<disk, budget>>
     \/ RenameFails(c)

(* Mutant: the writer is not looked at again after the join.               *)
StopEndsUnchecked(c) ==
  /\ caller[c].at = "finish"
  /\ IF service.state = "FINALIZING" THEN Completes(c)
     ELSE Returns(c) /\ UNCHANGED <<service, final, disk, budget>>
  /\ UNCHANGED <<queues, files, writer, pool, published, clean>>

StopEnds(c) ==
  /\ caller[c].at = "finish"
  /\ IF ~Alive(caller[c].on) /\ service.state = "FINALIZING" THEN Completes(c)
     ELSE /\ service' = IF Alive(caller[c].on) THEN [service EXCEPT !.state = "STOP_TIMEOUT"]
                        ELSE service
          /\ Returns(c) /\ UNCHANGED <<final, disk, budget>>
  /\ UNCHANGED <<queues, files, writer, pool, published, clean>>

-----------------------------------------------------------------------------
(* _writer_loop                                                            *)

(* self._queue is read at the head of the loop, get() waits on what it was.*)
WriterLoops(t) ==
  /\ writer[t].at = "loop"
  /\ writer' = [writer EXCEPT ![t] = [at |-> "wait", on |-> service.take, item |-> 0]]
  /\ UNCHANGED <<service, queues, files, final, disk, caller, pool, buttons, published, clean,
                 budget>>

WriterTakes(t) ==
  LET q == writer[t].on IN
  /\ writer[t].at = "wait" /\ queues[q] # <<>>
  /\ queues' = [queues EXCEPT ![q] = Tail(@)]
  /\ writer' = [writer EXCEPT ![t] = [at |-> IF Head(queues[q]) = Sentinel THEN "close" ELSE "write",
                                      on |-> 0, item |-> Head(queues[q])]]
  /\ UNCHANGED <<service, files, final, disk, caller, pool, buttons, published, clean, budget>>

(* _write_bytes through the handle there is now, and the count of it.      *)
Writes(t) ==
  /\ writer[t].at = "write" /\ service.handle # 0
  /\ LET held == disk.held[service.handle] IN
       disk' = Holding(IF held = 0 THEN 0 ELSE held + 1)
  /\ files' = [files EXCEPT ![service.handle] = Append(@, writer[t].item)]
  /\ service' = [service EXCEPT !.iq = @ + 1]
  /\ writer' = [writer EXCEPT ![t] = [at |-> "loop", on |-> 0, item |-> 0]]
  /\ UNCHANGED <<queues, final, caller, pool, buttons, published, clean, budget>>

(* The write fails, or the file is not open.                               *)
WritingFails(t) ==
  /\ writer[t].at = "write"
  /\ FileFails
  /\ writer' = [writer EXCEPT ![t] = [at |-> "close", on |-> 0, item |-> 0]]
  /\ service' = [service EXCEPT !.state = "FAILED"]
  /\ UNCHANGED <<queues, files, final, disk, caller, pool, buttons, published, clean>>

(* Nothing catches an error of flush() or close(): the thread ends, and    *)
(* the state is not told of it.                                            *)
WriterCloses(t) ==
  /\ writer[t].at = "close" /\ writer' = [writer EXCEPT ![t].at = "ended"]
  /\ \/ /\ service' = [service EXCEPT !.handle = 0] /\ disk' = Holding(0)
        /\ UNCHANGED budget
     \/ ClosingFails
  /\ UNCHANGED <<queues, files, final, caller, pool, buttons, published, clean>>

-----------------------------------------------------------------------------
Writing(t) ==
  WriterLoops(t) \/ WriterTakes(t) \/ Writes(t) \/ WritingFails(t) \/ WriterCloses(t)
Calling(c) ==
  \/ StartTake(c) \/ StopBegins(c) \/ PutsSentinel(c) \/ EvictOne(c) \/ PlaceSentinel(c)
  \/ Joined(c) \/ StopEnds(c)
MonitorNext ==
  \/ ClickStart \/ ClickStop \/ ShowHealth \/ Shutdown \/ Release \/ Publish
  \/ \E c \in Callers : LaneTakes(c) \/ Calling(c)
  \/ \E t \in Takes : Writing(t)

(* Threads run; a call that waits is released by what it waits for or by   *)
(* its timeout; a write ends.                                              *)
MonitorFairness ==
  /\ \A c \in Callers : WF_recordingVars(LaneTakes(c)) /\ WF_recordingVars(Calling(c))
  /\ \A t \in Takes : WF_recordingVars(Writing(t))
  /\ WF_recordingVars(Release)

MonitorSpec == MonitorInit /\ [][MonitorNext]_recordingVars

-----------------------------------------------------------------------------
(* What stop() reports as COMPLETED is all there is: every block published *)
(* during the take was given to the file, once and in order, or is in the  *)
(* count of drops; the file has all it was given and is closed, unless     *)
(* flush or close failed, and has its final name, unless os.replace failed:*)
(* the code reports COMPLETED all the same (README).  This is of a take    *)
(* with a writer, started when nothing of an earlier take was left.        *)
InOrderOnDisk(s) == \A i, j \in 1..Len(s) : i < j => s[i] < s[j]

CompletedIsWhole ==
  LET t == service.take IN
  (service.state = "COMPLETED" /\ t \in clean) =>
    /\ service.iq + service.drops = published[t]
    /\ service.iq = Len(files[t]) /\ InOrderOnDisk(files[t])
    /\ t \notin disk.unclosed => service.handle = 0 /\ disk.held[t] = 0
    /\ t \notin disk.unrenamed => t \in final

=============================================================================
