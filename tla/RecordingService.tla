--------------------------- MODULE RecordingService ---------------------------
(***************************************************************************)
(* esw_dfl.sdr.recording.RecordingService: the asynchronous tee that       *)
(* writes a stream of blocks to disk (esw_dfl/sdr/recording.py).           *)
(*                                                                         *)
(* One client thread submits and stops, as RecordingPresenter's worker     *)
(* does; the worker thread takes items from a bounded queue and writes     *)
(* them.  Every queue operation, and every assignment the other thread     *)
(* can see, is a step.  Block n covers the n-th stretch of samples, so its *)
(* number stands for its sample index; 0 is the None of the stop request.  *)
(* The writer keeps the numbers it wrote and the numbers in the gap file.  *)
(***************************************************************************)
EXTENDS Integers, Sequences, FiniteSets

CONSTANTS Options,  \* RecordingOptions: see OptionsAssumption
          MaxItems, \* bound: blocks submitted
          Faults    \* bound: failed writes and finalizations

RecordingPolicies == {"Block", "DropNewest", "DropOldest"}

ASSUME OptionsAssumption ==
  \A o \in Options : /\ o.capacity \in Nat \ {0} /\ o.policy \in RecordingPolicies
                     /\ o.stopOnOverflow \in BOOLEAN
ASSUME BoundsAssumption == MaxItems \in Nat /\ Faults \in Nat

VARIABLES
  options,
  running, cancelled, error, \* _running, _cancelled, _error # None
  stop,     \* the event _stop
  queue,    \* _queue
  count,    \* [enqueued, dropped, abandoned]: counters of RecordingStats
  client,   \* [at, timed, call]: where the client is, and the arguments of its call
  worker,   \* where the worker is
  hand,     \* the block the worker took last and has not written, or 0
  file,     \* [state, written, gaps, expected]: the recording on disk
  offered,  \* history: the number of the last block given to submit
  faults    \* history: failures so far

flags == <<running, cancelled, error, stop>>
vars == <<options, flags, queue, count, client, worker, hand, file, offered, faults>>

Room == Len(queue) < options.capacity

Goto(location) == client' = [client EXCEPT !.at = location]
Return == Goto("idle")

-----------------------------------------------------------------------------
(* start: the writers cannot be started twice, so a service records once.  *)
Start ==
  /\ client.at = "idle" /\ ~running /\ file.state = "none"
  /\ file' = [file EXCEPT !.state = "part"]
  /\ running' = TRUE /\ cancelled' = FALSE /\ error' = FALSE /\ stop' = FALSE
  /\ worker' = "get"
  /\ UNCHANGED <<options, queue, count, client, hand, offered, faults>>

-----------------------------------------------------------------------------
(* _submit                                                                 *)

(* A service that is not running, failed or is stopping raises.            *)
Submit ==
  /\ client.at = "idle" /\ running /\ ~error /\ ~stop /\ offered < MaxItems
  /\ offered' = offered + 1
  /\ \E timed \in BOOLEAN :
       client' = [client EXCEPT !.at = "put", !.timed = timed]
  /\ UNCHANGED <<options, flags, queue, count, worker, hand, file, faults>>

Enqueued ==
  /\ queue' = Append(queue, offered)
  /\ count' = [count EXCEPT !.enqueued = @ + 1]
  /\ Return
  /\ UNCHANGED <<options, flags, worker, hand, file, offered, faults>>

(* _record_drop: the counters, and an entry of the gap file while the      *)
(* writer is started.                                                      *)
RecordDrop(n) == file' = [file EXCEPT !.gaps = @ \cup {n}]

(* The block at hand is dropped; with stop_on_overflow, where the code     *)
(* asks for it, the recording is told to stop and the call raises.         *)
Refused(mayStop) ==
  /\ count' = [count EXCEPT !.dropped = @ + 1]
  /\ RecordDrop(offered)
  /\ stop' = (stop \/ (mayStop /\ options.stopOnOverflow))
  /\ Return
  /\ UNCHANGED <<options, running, cancelled, error, queue, worker, hand, offered, faults>>

(* Block: a put with a timeout gives up at any time; one without tries     *)
(* again until there is room or the service is stopping.                   *)
PutBlocking ==
  /\ client.at = "put" /\ options.policy = "Block"
  /\ \/ Room /\ Enqueued
     \/ ~Room /\ client.timed /\ Refused(TRUE)
     \/ ~Room /\ ~client.timed /\ stop /\ Refused(FALSE)

PutNowait ==
  /\ client.at = "put" /\ options.policy # "Block"
  /\ \/ Room /\ Enqueued
     \/ ~Room /\ options.policy = "DropNewest" /\ Refused(TRUE)
     \/ /\ ~Room /\ options.policy = "DropOldest"
        /\ Goto("evict")
        /\ UNCHANGED <<options, flags, queue, count, worker, hand, file, offered, faults>>

(* The worker may have emptied the queue before the oldest is taken; it    *)
(* cannot fill it, so a single client finds room the second time.          *)
Evict ==
  /\ client.at = "evict"
  /\ IF queue = <<>> THEN UNCHANGED <<queue, count, file>>
     ELSE /\ queue' = Tail(queue)
          /\ count' = [count EXCEPT !.dropped = @ + 1]
          /\ RecordDrop(Head(queue))
  /\ Goto("putAgain")
  /\ UNCHANGED <<options, flags, worker, hand, offered, faults>>

PutAgain ==
  /\ client.at = "putAgain"
  /\ \/ Room /\ Enqueued
     \/ ~Room /\ Refused(FALSE)

-----------------------------------------------------------------------------
(* _run                                                                    *)

WorkerGet ==
  /\ worker = "get" /\ queue # <<>>
  /\ queue' = Tail(queue)
  /\ IF Head(queue) = 0 THEN worker' = "ended" /\ UNCHANGED hand
     ELSE worker' = "write" /\ hand' = Head(queue)
  /\ UNCHANGED <<options, flags, count, client, file, offered, faults>>

(* write_block: samples missing since the last block go to the gap file;   *)
(* before the first one nothing is expected.                               *)
WorkerWrite ==
  /\ worker = "write"
  /\ file' = [file EXCEPT !.written = @ \cup {hand},
                          !.gaps = @ \cup {n \in file.expected..(hand - 1) : file.expected # 0},
                          !.expected = hand + 1]
  /\ hand' = 0
  /\ worker' = "get"
  /\ UNCHANGED <<options, flags, queue, count, client, offered, faults>>

WriteFails ==
  /\ worker = "write"
  /\ faults < Faults /\ faults' = faults + 1
  /\ error' = TRUE
  /\ worker' = "failing"
  /\ UNCHANGED <<options, running, cancelled, stop, queue, count, client, hand, file, offered>>

WorkerEnds ==
  /\ worker = "failing"
  /\ stop' = TRUE
  /\ worker' = "ended"
  /\ UNCHANGED <<options, running, cancelled, error, queue, count, client, hand, file,
                 offered, faults>>

-----------------------------------------------------------------------------
(* stop and cancel                                                         *)

(* finalize, leave the .part files, or cancel: stop()'s two arguments.     *)
StopCalls == {"finalize", "leave", "cancel"}

(* The error is looked at once, before the queue is drained or not.        *)
Stop ==
  /\ client.at = "idle" /\ running
  /\ \E call \in StopCalls :
       /\ cancelled' = (call = "cancel")
       /\ stop' = (stop \/ call = "cancel" \/ error)
       /\ client' = [client EXCEPT !.call = call,
                                   !.at = IF call = "cancel" \/ error THEN "drain" ELSE "sentinel"]
  /\ UNCHANGED <<options, running, error, queue, count, worker, hand, file, offered, faults>>

(* Mutant: what is drained is abandoned without a trace in the gap file.   *)
DrainWithoutGap ==
  /\ client.at = "drain"
  /\ IF queue = <<>> THEN Goto("sentinel") /\ UNCHANGED <<queue, count, file>>
     ELSE /\ queue' = Tail(queue)
          /\ count' = [count EXCEPT !.dropped = @ + 1, !.abandoned = @ + 1]
          /\ UNCHANGED <<client, file>>
  /\ UNCHANGED <<options, flags, worker, hand, offered, faults>>

Drain ==
  /\ client.at = "drain"
  /\ IF queue = <<>> THEN Goto("sentinel") /\ UNCHANGED <<queue, count, file>>
     ELSE /\ queue' = Tail(queue)
          /\ count' = [count EXCEPT !.dropped = @ + 1, !.abandoned = @ + 1]
          /\ RecordDrop(Head(queue))
          /\ UNCHANGED client
  /\ UNCHANGED <<options, flags, worker, hand, offered, faults>>

(* put(None), without a timeout.                                           *)
PutSentinel ==
  /\ client.at = "sentinel" /\ Room
  /\ queue' = Append(queue, 0)
  /\ Goto("join")
  /\ UNCHANGED <<options, flags, count, worker, hand, file, offered, faults>>

Join ==
  /\ client.at = "join" /\ worker = "ended"
  /\ running' = FALSE
  /\ Goto("close")
  /\ UNCHANGED <<options, cancelled, error, stop, queue, count, worker, hand, file, offered, faults>>

(* A failed worker forbids finalization; the call returns or raises.       *)
CloseFile ==
  /\ client.at = "close"
  /\ file' = [file EXCEPT !.state = IF client.call = "finalize" /\ ~error
                                      THEN "complete" ELSE "aborted"]
  /\ Return
  /\ UNCHANGED <<options, flags, queue, count, worker, hand, offered, faults>>

FinalizeFails ==
  /\ client.at = "close" /\ client.call = "finalize" /\ ~error
  /\ faults < Faults /\ faults' = faults + 1
  /\ error' = TRUE
  /\ file' = [file EXCEPT !.state = "aborted"]
  /\ Return
  /\ UNCHANGED <<options, running, cancelled, stop, queue, count, worker, hand, offered>>

-----------------------------------------------------------------------------
Init ==
  /\ options \in Options
  /\ running = FALSE /\ cancelled = FALSE /\ error = FALSE /\ stop = FALSE
  /\ queue = <<>> /\ hand = 0 /\ worker = "none"
  /\ count = [enqueued |-> 0, dropped |-> 0, abandoned |-> 0]
  /\ client = [at |-> "idle", timed |-> FALSE, call |-> "finalize"]
  /\ file = [state |-> "none", written |-> {}, gaps |-> {}, expected |-> 0]
  /\ offered = 0 /\ faults = 0

Call == Start \/ Submit \/ Stop
Continue == PutBlocking \/ PutNowait \/ Evict \/ PutAgain
            \/ Drain \/ PutSentinel \/ Join \/ CloseFile \/ FinalizeFails
Worker == WorkerGet \/ WorkerWrite \/ WriteFails \/ WorkerEnds

Next == Call \/ Continue \/ Worker
Spec == Init /\ [][Next]_vars

(* Both threads run when they can; the client need not call the service.   *)
Fairness == WF_vars(Continue) /\ WF_vars(Worker)
FairSpec == Spec /\ Fairness

-----------------------------------------------------------------------------
Queued == {queue[i] : i \in 1..Len(queue)} \ {0}
Submitting == IF client.at \in {"put", "evict", "putAgain"} THEN {offered} ELSE {}

(* Every block given to submit has exactly one fate: on disk, in the gap   *)
(* file, in the queue, in somebody's hand, or in the write that failed;    *)
(* and the counters of RecordingStats tell the same story.  Only a failure *)
(* leaves blocks in the queue of a service that has stopped.               *)
EveryBlockHasAFate ==
  /\ 1..offered = file.written \cup file.gaps \cup Queued \cup Submitting \cup ({hand} \ {0})
  /\ file.written \cap (file.gaps \cup Queued \cup {hand}) = {}
  /\ count.dropped =
       offered - Cardinality(file.written \cup Queued \cup Submitting \cup ({hand} \ {0}))
  /\ ~running /\ ~error => queue = <<>>

(* A recording that stop() finalized is complete: no error was hidden, and *)
(* each block is in the data file or marked in the gap file, not in both.  *)
FinalizedIsComplete ==
  file.state = "complete" =>
    /\ ~error /\ ~cancelled /\ queue = <<>>
    /\ file.written \cup file.gaps = 1..offered /\ file.written \cap file.gaps = {}

(* What becomes of the blocks, while the service runs and when it is over. *)
NoBlockForgotten == EveryBlockHasAFate /\ FinalizedIsComplete

(* stop() waits for room that nobody will make: the worker has failed and  *)
(* left a full queue behind.                                               *)
Stranded == client.at = "sentinel" /\ worker = "ended" /\ error /\ ~Room

(* Every call returns, also with a full queue and a failing worker, except *)
(* for a stop() that found the worker healthy and lost it afterwards.      *)
CallsReturn == (client.at # "idle") ~> (client.at = "idle" \/ Stranded)

(* "worker errors are delivered by stop()": once the client stops, a       *)
(* failed worker does not keep the call from returning with its error.     *)
ErrorsAreDelivered ==
  (error /\ client.at \in {"drain", "sentinel", "join"}) ~> (client.at = "idle")
=============================================================================
