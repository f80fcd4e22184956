--------------------------- MODULE SyntheticEngine ---------------------------
(***************************************************************************)
(* sdr_core::SyntheticEngine: a producer takes blocks from a bounded pool  *)
(* and puts them into the acquisition queue, a mover copies them to an     *)
(* optional recorder queue and moves them to the DSP queue, a consumer     *)
(* and a recorder take them out; any of the four may end the session       *)
(* (native/sdr_core/src/core/engine.cpp).                                  *)
(*                                                                         *)
(* As in FixedBandEngine each thread has a script of the steps it has yet  *)
(* to take.  A block is its number; it occupies a slot of the pool while   *)
(* any queue or thread holds it (BufferPool hands out shared pointers).    *)
(***************************************************************************)
EXTENDS Integers, Sequences, FiniteSets, QueueOps

CONSTANTS Callers,     \* threads that use the engine's API
          Configs,     \* EngineConfig: see ConfigsAssumption
          Calls,       \* the API calls of this instance
          MaxBlocks,   \* bound: blocks of an unlimited run
          MaxSessions, \* bound: configure is not called past this generation
          Faults       \* bound: spontaneous failures

ASSUME ConfigsAssumption ==
  \A c \in Configs :
    /\ c.max \in Nat /\ {c.acquisition, c.dsp, c.recorder, c.pool} \subseteq Nat \ {0}
    /\ {c.acquisitionPolicy, c.dspPolicy, c.recorderPolicy} \subseteq Policies
    /\ c.recorderEnabled \in BOOLEAN /\ c.paced \in BOOLEAN
    /\ c.stopOnOverflow => c.recorderPolicy = "Block"

ASSUME CallsAssumption == Calls \subseteq {"configure", "start", "request_stop", "join", "stop"}

VARIABLES
  state,    \* EngineState
  lock,     \* the caller that holds lifecycle_mutex_ across steps, or "free"
  config,   \* config_
  generation,
  stop,     \* the stop token
  poolStop, \* BufferPool::stop
  acq, dsp, rec, \* the three queues
  hand,     \* the block each worker holds, 0 for none
  count,    \* [received, dropped]: the I/Q block counters
  script,   \* the steps each thread has yet to take
  faults,   \* history: spontaneous failures so far
  asked,    \* history: the owner requested the stop of this session
  trouble   \* history: what ended this session: {"failure", "overflow"}

session == <<state, lock, config, generation>>
queues == <<acq, dsp, rec>>
vars == <<session, stop, poolStop, queues, hand, count, script, faults, asked, trouble>>

Workers == {"producer", "mover", "consumer", "recorder"}
Threads == Callers \cup Workers

(* A caller is neither one of the engine's own threads nor nobody.         *)
ASSUME CallersAssumption == Callers \cap Workers = {} /\ "free" \notin Callers

-----------------------------------------------------------------------------
At(t, step) == script[t] # <<>> /\ script[t][1] = step
Rest(t) == Tail(script[t])
Goto(t, steps) == script' = [script EXCEPT ![t] = steps]
Advance(t) == Goto(t, Rest(t))
Ready == lock = "free"
WorkersDone == \A w \in Workers : script[w] = <<>>

(* Mutant: initiate_shutdown() leaves the pool open.                       *)
CloseDownPoolLeftOpen ==
  <<"stopToken", "closeAcquisition", "closeDsp", "closeRecorder", "markStopping">>

(* initiate_shutdown(): the queues and the pool are closed one by one and  *)
(* RUNNING, unless an error was published before, becomes STOPPING.        *)
CloseDown ==
  <<"stopToken", "closeAcquisition", "closeDsp", "closeRecorder", "closePool", "markStopping">>

Closing(t) ==
  /\ \/ At(t, "stopToken") /\ stop' = TRUE /\ UNCHANGED <<state, poolStop, queues>>
     \/ At(t, "closeAcquisition") /\ acq' = AfterStop(acq) /\ UNCHANGED <<state, stop, poolStop, dsp, rec>>
     \/ At(t, "closeDsp") /\ dsp' = AfterStop(dsp) /\ UNCHANGED <<state, stop, poolStop, acq, rec>>
     \/ At(t, "closeRecorder") /\ rec' = AfterStop(rec) /\ UNCHANGED <<state, stop, poolStop, acq, dsp>>
     \/ At(t, "closePool") /\ poolStop' = TRUE /\ UNCHANGED <<state, stop, queues>>
     \/ /\ At(t, "markStopping")
        /\ state' = IF state = "Running" THEN "Stopping" ELSE state
        /\ UNCHANGED <<stop, poolStop, queues>>
  /\ Advance(t)
  /\ UNCHANGED <<lock, config, generation, hand, count, faults, asked, trouble>>

(* Mutant: a stopped engine is never marked as failed.                     *)
MarkErrorOnlyRunning(w) ==
  /\ At(w, "markError")
  /\ state' = IF state = "Running" THEN "Error" ELSE state
  /\ Advance(w)
  /\ UNCHANGED <<lock, config, generation, stop, poolStop, queues, hand, count, faults,
                 asked, trouble>>

MarkError(w) ==
  /\ At(w, "markError")
  /\ state' = IF state \in {"Running", "Stopping"} THEN "Error" ELSE state
  /\ Advance(w)
  /\ UNCHANGED <<lock, config, generation, stop, poolStop, queues, hand, count, faults,
                 asked, trouble>>

Items(q) == {q.items[i] : i \in DOMAIN q.items}

Held == Items(acq) \cup Items(dsp) \cup Items(rec) \cup ({hand[w] : w \in Workers} \ {0})
PoolFree == config.pool - Cardinality(Held)

-----------------------------------------------------------------------------
(* producer_run                                                            *)

Finished == config.max # 0 /\ count.received >= config.max

ProducerCheck ==
  /\ At("producer", "check")
  /\ Goto("producer",
          IF stop THEN CloseDown
          ELSE IF Finished THEN <<"drain">>
          ELSE IF config.paced /\ count.received # 0 THEN <<"pace">> ELSE <<"acquire">>)
  /\ UNCHANGED <<session, stop, poolStop, queues, hand, count, faults, asked, trouble>>

(* The wait for the pace of the source times out or meets the stop.        *)
ProducerPace ==
  /\ At("producer", "pace")
  /\ Goto("producer", IF stop THEN CloseDown ELSE <<"acquire">>)
  /\ UNCHANGED <<session, stop, poolStop, queues, hand, count, faults, asked, trouble>>

(* pool_->acquire(): a slot, or the end of the loop once the pool stopped. *)
ProducerAcquire ==
  /\ At("producer", "acquire") /\ ~poolStop
  /\ PoolFree > 0 /\ count.received < MaxBlocks
  /\ hand' = [hand EXCEPT !["producer"] = count.received + 1]
  /\ count' = [count EXCEPT !.received = @ + 1]
  /\ Goto("producer", <<"push">>)
  /\ UNCHANGED <<session, stop, poolStop, queues, faults, asked, trouble>>

ProducerInterrupted ==
  /\ At("producer", "acquire") /\ poolStop
  /\ Goto("producer", CloseDown)
  /\ UNCHANGED <<session, stop, poolStop, queues, hand, count, faults, asked, trouble>>

Lost(q) == PushResult(q) \in {"Dropped", "Evicted", "Stopped"}

ProducerPush ==
  /\ At("producer", "push") /\ ~PushBlocks(acq)
  /\ acq' = AfterPush(acq, hand["producer"])
  /\ hand' = [hand EXCEPT !["producer"] = 0]
  /\ count' = [count EXCEPT !.dropped = IF Lost(acq) THEN @ + 1 ELSE @]
  /\ Goto("producer", IF PushResult(acq) = "Stopped" THEN CloseDown ELSE <<"check">>)
  /\ UNCHANGED <<session, stop, poolStop, dsp, rec, faults, asked, trouble>>

(* A finite run is drained before it ends by itself: the depths of the     *)
(* three queues are read one after the other, and all over again, unless a *)
(* stop came, after the first that is not zero.                            *)
DrainStep(step, q, next) ==
  /\ At("producer", step)
  /\ Goto("producer", IF q.items = <<>> THEN next ELSE IF stop THEN CloseDown ELSE <<"drain">>)
  /\ UNCHANGED <<session, stop, poolStop, queues, hand, count, faults, asked, trouble>>

(* Mutant: the drain does not wait for the acquisition queue.              *)
ProducerDrainDspOnly ==
  DrainStep("drain", dsp, CloseDown)

ProducerDrain ==
  \/ DrainStep("drain", acq, <<"drainDsp">>)
  \/ DrainStep("drainDsp", dsp, IF config.recorderEnabled THEN <<"drainRecorder">> ELSE CloseDown)
  \/ DrainStep("drainRecorder", rec, CloseDown)

-----------------------------------------------------------------------------
(* mover_run                                                               *)

MoverPop ==
  /\ At("mover", "pop")
  /\ IF acq.items # <<>>
       THEN /\ hand' = [hand EXCEPT !["mover"] = Head(acq.items)]
            /\ acq' = AfterPop(acq)
            /\ Goto("mover", IF config.recorderEnabled THEN <<"tee">> ELSE <<"forward">>)
       ELSE /\ acq.stop
            /\ Goto("mover", <<>>)
            /\ UNCHANGED <<acq, hand>>
  /\ UNCHANGED <<session, stop, poolStop, dsp, rec, count, faults, asked, trouble>>

(* A Block recorder holds the main path back, unless it is to stop the     *)
(* engine instead.                                                         *)
Backpressure == config.recorderPolicy = "Block" /\ ~config.stopOnOverflow

TeeStops == PushResult(rec) = "Full" /\ config.stopOnOverflow

(* The copy for the recorder.  A stopped recorder queue costs the block in *)
(* hand; an overflow of the recorder costs its copy, or ends the session.  *)
MoverTee ==
  /\ At("mover", "tee")
  /\ Backpressure => ~PushBlocks(rec)
  /\ rec' = AfterPush(rec, hand["mover"])
  /\ IF PushResult(rec) = "Stopped"
       THEN /\ count' = [count EXCEPT !.dropped = @ + 1]
            /\ hand' = [hand EXCEPT !["mover"] = 0]
            /\ Goto("mover", <<>>)
       ELSE /\ Goto("mover", IF TeeStops THEN CloseDown \o <<"discard">> ELSE <<"forward">>)
            /\ UNCHANGED <<count, hand>>
  /\ UNCHANGED <<session, stop, poolStop, acq, dsp, faults, asked, trouble>>

(* The block of the overflow that stopped the engine goes out of scope.    *)
MoverDiscard ==
  /\ At("mover", "discard")
  /\ hand' = [hand EXCEPT !["mover"] = 0]
  /\ trouble' = trouble \cup {"overflow"}
  /\ Goto("mover", <<>>)
  /\ UNCHANGED <<session, stop, poolStop, queues, count, faults, asked>>

MoverForward ==
  /\ At("mover", "forward") /\ ~PushBlocks(dsp)
  /\ dsp' = AfterPush(dsp, hand["mover"])
  /\ hand' = [hand EXCEPT !["mover"] = 0]
  /\ count' = [count EXCEPT !.dropped = IF Lost(dsp) THEN @ + 1 ELSE @]
  /\ Goto("mover", IF PushResult(dsp) = "Stopped" THEN <<>> ELSE <<"pop">>)
  /\ UNCHANGED <<session, stop, poolStop, acq, rec, faults, asked, trouble>>

-----------------------------------------------------------------------------
(* consumer_run and recorder_run: take, process, release.                  *)

ConsumerPop ==
  /\ At("consumer", "pop")
  /\ IF dsp.items # <<>>
       THEN /\ hand' = [hand EXCEPT !["consumer"] = Head(dsp.items)]
            /\ dsp' = AfterPop(dsp)
            /\ Goto("consumer", <<"process">>)
       ELSE dsp.stop /\ Goto("consumer", <<"flush">>) /\ UNCHANGED <<dsp, hand>>
  /\ UNCHANGED <<session, stop, poolStop, acq, rec, count, faults, asked, trouble>>

ConsumerProcess ==
  /\ At("consumer", "process")
  /\ hand' = [hand EXCEPT !["consumer"] = 0]
  /\ Goto("consumer", <<"pop">>)
  /\ UNCHANGED <<session, stop, poolStop, queues, count, faults, asked, trouble>>

(* The partial batch is published after the last block.                    *)
ConsumerFlush ==
  /\ At("consumer", "flush")
  /\ Goto("consumer", <<>>)
  /\ UNCHANGED <<session, stop, poolStop, queues, hand, count, faults, asked, trouble>>

(* The DSP backend throws.                                                 *)
ConsumerThrows ==
  /\ At("consumer", "process") \/ At("consumer", "flush")
  /\ faults < Faults /\ faults' = faults + 1 /\ trouble' = trouble \cup {"failure"}
  /\ hand' = [hand EXCEPT !["consumer"] = 0]
  /\ Goto("consumer", <<"markError">> \o CloseDown)
  /\ UNCHANGED <<session, stop, poolStop, queues, count, asked>>

(* The recorder holds a block no longer than it takes to drop it.          *)
RecorderPop ==
  /\ At("recorder", "pop")
  /\ IF rec.items # <<>>
       THEN rec' = AfterPop(rec) /\ UNCHANGED script
       ELSE rec.stop /\ Goto("recorder", <<>>) /\ UNCHANGED rec
  /\ UNCHANGED <<session, stop, poolStop, acq, dsp, hand, count, faults, asked, trouble>>

-----------------------------------------------------------------------------
(* The lifecycle                                                           *)

Configure(c) ==
  /\ At(c, "configure") /\ Ready /\ state \in {"Created", "Configured", "Stopped"}
  /\ \E new \in Configs :
       /\ config' = new
       /\ acq' = NewQueue(new.acquisition, new.acquisitionPolicy)
       /\ dsp' = NewQueue(new.dsp, new.dspPolicy)
       /\ rec' = NewQueue(new.recorder, new.recorderPolicy)
  /\ state' = "Configured" /\ generation' = generation + 1
  /\ stop' = FALSE /\ poolStop' = FALSE
  /\ count' = [received |-> 0, dropped |-> 0]
  /\ asked' = FALSE /\ trouble' = {}
  /\ Advance(c)
  /\ UNCHANGED <<lock, hand, faults>>

(* A call in a state that does not allow it throws.                        *)
Refused(c) ==
  /\ Ready
  /\ \/ At(c, "configure") /\ state \notin {"Created", "Configured", "Stopped"}
     \/ At(c, "start") /\ state # "Configured"
     \/ At(c, "requestStop") /\ state \notin {"Running", "Stopping", "Error"}
     \/ At(c, "join") /\ state \notin {"Stopped", "Stopping", "Error"}
  /\ Goto(c, <<>>)
  /\ UNCHANGED <<session, stop, poolStop, queues, hand, count, faults, asked, trouble>>

Scripts(w) ==
  CASE w = "producer" -> <<"check">>
    [] w = "recorder" -> IF config.recorderEnabled THEN <<"pop">> ELSE <<>>
    [] OTHER -> <<"pop">>

Start(c) ==
  /\ At(c, "start") /\ Ready /\ state = "Configured"
  /\ state' = "Running"
  /\ script' = [t \in Threads |-> IF t = c THEN Rest(c)
                                  ELSE IF t \in Workers THEN Scripts(t) ELSE script[t]]
  /\ UNCHANGED <<lock, config, generation, stop, poolStop, queues, hand, count, faults,
                 asked, trouble>>

(* A thread cannot be created: only those before it run.                   *)
StartSpawnFails(c) ==
  /\ At(c, "start") /\ Ready /\ state = "Configured"
  /\ faults < Faults /\ faults' = faults + 1 /\ trouble' = {"failure"}
  /\ state' = "Running" /\ lock' = c
  /\ \E spawned \in {{}, {"consumer"}, {"consumer", "mover"}, {"consumer", "mover", "recorder"}} :
       script' = [t \in Threads |-> IF t = c THEN CloseDown \o <<"abortStart">>
                                   ELSE IF t \in spawned THEN Scripts(t) ELSE script[t]]
  /\ UNCHANGED <<config, generation, stop, poolStop, queues, hand, count, asked>>

AbortStart(c) ==
  /\ At(c, "abortStart") /\ WorkersDone
  /\ state' = "Error" /\ lock' = "free"
  /\ Goto(c, <<>>)
  /\ UNCHANGED <<config, generation, stop, poolStop, queues, hand, count, faults, asked, trouble>>

RequestStop(c) ==
  /\ At(c, "requestStop") /\ Ready /\ state \in {"Running", "Stopping", "Error"}
  /\ IF state = "Running"
       THEN /\ state' = "Stopping" /\ lock' = c /\ asked' = TRUE
            /\ Goto(c, CloseDown \o <<"release">> \o Rest(c))
       ELSE Advance(c) /\ UNCHANGED <<state, lock, asked>>
  /\ UNCHANGED <<config, generation, stop, poolStop, queues, hand, count, faults, trouble>>

Release(c) ==
  /\ At(c, "release")
  /\ lock' = "free"
  /\ Advance(c)
  /\ UNCHANGED <<state, config, generation, stop, poolStop, queues, hand, count, faults,
                 asked, trouble>>

Join(c) ==
  /\ At(c, "join") /\ Ready /\ state \in {"Stopped", "Stopping", "Error"}
  /\ IF state = "Stopped" THEN Advance(c) /\ UNCHANGED lock
     ELSE lock' = c /\ Goto(c, <<"joinWorkers">> \o Rest(c))
  /\ UNCHANGED <<state, config, generation, stop, poolStop, queues, hand, count, faults,
                 asked, trouble>>

(* Mutant: what was left in the acquisition queue is not counted.          *)
JoinWorkersUncounted(c) ==
  /\ At(c, "joinWorkers") /\ WorkersDone
  /\ acq' = AfterAbandon(acq) /\ dsp' = AfterAbandon(dsp) /\ rec' = AfterAbandon(rec)
  /\ count' = [count EXCEPT !.dropped = @ + Len(dsp.items)]
  /\ state' = "Stopped" /\ lock' = "free"
  /\ Advance(c)
  /\ UNCHANGED <<config, generation, stop, poolStop, hand, faults, asked, trouble>>

(* The workers are gone; account_abandoned() counts the main path.         *)
JoinWorkers(c) ==
  /\ At(c, "joinWorkers") /\ WorkersDone
  /\ acq' = AfterAbandon(acq) /\ dsp' = AfterAbandon(dsp) /\ rec' = AfterAbandon(rec)
  /\ count' = [count EXCEPT !.dropped = @ + Len(acq.items) + Len(dsp.items)]
  /\ state' = "Stopped" /\ lock' = "free"
  /\ Advance(c)
  /\ UNCHANGED <<config, generation, stop, poolStop, hand, faults, asked, trouble>>

Steps(call) ==
  CASE call = "configure"    -> <<"configure">>
    [] call = "start"        -> <<"start">>
    [] call = "request_stop" -> <<"requestStop">>
    [] call = "join"         -> <<"join">>
    [] call = "stop"         -> <<"requestStop", "join">>

Call(c) ==
  /\ script[c] = <<>>
  /\ \E call \in Calls :
       /\ call = "configure" => generation < MaxSessions
       /\ Goto(c, Steps(call))
  /\ UNCHANGED <<session, stop, poolStop, queues, hand, count, faults, asked, trouble>>

-----------------------------------------------------------------------------
Init ==
  /\ state = "Created" /\ lock = "free" /\ generation = 0
  /\ config \in Configs
  /\ stop = FALSE /\ poolStop = FALSE
  /\ acq = NewQueue(1, "Block") /\ dsp = NewQueue(1, "Block") /\ rec = NewQueue(1, "Block")
  /\ hand = [w \in Workers |-> 0]
  /\ count = [received |-> 0, dropped |-> 0]
  /\ script = [t \in Threads |-> <<>>]
  /\ faults = 0 /\ asked = FALSE /\ trouble = {}

Producer == ProducerCheck \/ ProducerPace \/ ProducerAcquire \/ ProducerInterrupted \/ ProducerPush
            \/ ProducerDrain \/ Closing("producer")
Mover == MoverPop \/ MoverTee \/ MoverDiscard \/ MoverForward \/ Closing("mover")
Consumer == ConsumerPop \/ ConsumerProcess \/ ConsumerFlush \/ ConsumerThrows
            \/ MarkError("consumer") \/ Closing("consumer")
Continue(c) ==
  \/ Configure(c) \/ Refused(c) \/ Start(c) \/ StartSpawnFails(c) \/ AbortStart(c)
  \/ RequestStop(c) \/ Release(c) \/ Join(c) \/ JoinWorkers(c) \/ Closing(c)

Next == Producer \/ Mover \/ Consumer \/ RecorderPop \/ \E c \in Callers : Call(c) \/ Continue(c)
Spec == Init /\ [][Next]_vars

(* Threads that can run do; nobody is obliged to call the engine.          *)
Fairness ==
  /\ WF_vars(Producer) /\ WF_vars(Mover) /\ WF_vars(Consumer) /\ WF_vars(RecorderPop)
  /\ \A c \in Callers : WF_vars(Continue(c))
FairSpec == Spec /\ Fairness

-----------------------------------------------------------------------------
Holding(w) == IF hand[w] # 0 THEN 1 ELSE 0

Accounted ==
  count.dropped + dsp.popped + Len(acq.items) + Len(dsp.items)
    + Holding("producer") + Holding("mover")

(* Every block the producer counted was counted as dropped, reached the    *)
(* consumer or is still on the main path: no policy, stop, failure or      *)
(* natural end hides a block, but for the one the mover held when a        *)
(* recorder overflow made it stop the engine.                              *)
BlocksConserved ==
  count.received = Accounted + (IF "overflow" \in trouble THEN 1 ELSE 0)

(* A recorder with real backpressure misses nothing: every block the mover *)
(* took is in the recorder's stream, but for the one still in its hand or  *)
(* given up because the queue was stopped.                                 *)
RecorderMissesNothing ==
  /\ state # "Created" /\ config.recorderEnabled
  /\ config.recorderPolicy = "Block" /\ ~config.stopOnOverflow
  => /\ rec.dropped = 0 /\ acq.popped - rec.pushed \in {0, 1}
     /\ acq.popped > rec.pushed => At("mover", "tee") \/ rec.stop

(* A finite run that nobody stopped and nothing disturbed is processed to  *)
(* the end; at most the block in the mover's hand is given up, and counted.*)
DrainLosesAtMostOne ==
  /\ state = "Stopped" /\ ~asked /\ trouble = {} /\ config.max # 0
  /\ config.acquisitionPolicy = "Block" /\ config.dspPolicy = "Block"
  => count.received = config.max /\ count.dropped <= 1

(* No block disappears unseen: on the analytical path, on the recorder's,  *)
(* or at the end of a finite run.                                          *)
NoBlockHidden == BlocksConserved /\ RecorderMissesNothing /\ DrainLosesAtMostOne

(* The failure of the consumer, or of start, is visible as ERROR until the *)
(* owner joins, whoever requested or began the stop before.                *)
FailureIsShown ==
  "failure" \in trouble /\ script["consumer"] = <<>> /\ lock = "free"
    => state \in {"Error", "Stopped"}

(* A finite run comes to its end by itself, whatever waits on whatever.    *)
FiniteRunEnds == (state = "Running" /\ config.max # 0) ~> (state # "Running")

(* Every call returns, and every worker it waits for ends.                 *)
CallsReturn == \A c \in Callers : (script[c] # <<>>) ~> (script[c] = <<>>)

(* Neither the pool, nor the queues, nor a shutdown make threads wait for  *)
(* each other for ever.                                                    *)
NobodyIsStuck == FiniteRunEnds /\ CallsReturn
=============================================================================
