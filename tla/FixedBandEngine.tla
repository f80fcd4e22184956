--------------------------- MODULE FixedBandEngine ---------------------------
(***************************************************************************)
(* sdr_pluto::FixedBandEngine: the lifecycle calls of several threads, the *)
(* acquisition and DSP threads they start, the bounded queue of I/Q blocks *)
(* between these, the latest-wins queue of spectrum frames and the         *)
(* diagnostic events (native/sdr_core/src/pluto/fixed_band_engine.cpp).    *)
(*                                                                         *)
(* Every thread has a script: the steps it has yet to take.  A lifecycle   *)
(* call puts its steps there, an exception clears what is left, and a      *)
(* worker thread runs exactly while its script is not empty.  A step is    *)
(* atomic where the code holds a mutex that every other access takes, or   *)
(* touches one atomic.  Sleeping in BoundedQueue is a step not enabled:    *)
(* module BoundedQueue shows that a sleeper is always woken.               *)
(***************************************************************************)
EXTENDS Integers, Sequences, FiniteSets, QueueOps

CONSTANTS Callers,        \* threads that use the engine's API
          AcqCapacities,  \* acquisition_queue_capacity
          AcqPolicies,    \* acquisition_overflow
          TransientBlocks,\* discard_blocks_after_start
          SpectrumCapacity, EventCapacity,
          PoolFloor,      \* the least number of blocks in the device pool
          Calls,          \* the API calls of this instance
          MaxBlocks,      \* bound: blocks a configuration receives
          MaxGenerations, \* bound: no configure is called past this generation
          Faults          \* bound: spontaneous failures of device or backend

ASSUME CallersAssumption == {"free", "acquisition", "dsp"} \cap Callers = {}
ASSUME CapacityAssumption ==
  /\ AcqCapacities \subseteq Nat \ {0} /\ AcqPolicies \subseteq Policies
  /\ SpectrumCapacity \in Nat \ {0} /\ EventCapacity \in Nat \ {0} /\ PoolFloor \in Nat
ASSUME CallsAssumption ==
  Calls \subseteq {"configure", "start", "request_stop", "join", "stop", "reconfigure",
                   "disconnect", "poll_events", "poll_spectrum_frames"}
ASSUME BoundsAssumption ==
  MaxBlocks \in Nat /\ MaxGenerations \in Nat /\ TransientBlocks \in Nat /\ Faults \in Nat

VARIABLES
  state,        \* EngineState
  disconnecting,\* disconnect_requested_
  lock,         \* the caller that holds lifecycle_mutex_ across steps, or "free"
  stop,         \* the stop token of the current configuration
  device,       \* PlutoDevice: [connected, configured, streaming, cancelled]
  generation,   \* config_generation_
  acq,          \* acquisition_queue_; an item is the number of a block
  spectrum,     \* spectrum_queue_; an item is a frame
  diag,         \* diagnostic events and has_error_
  count,        \* [received, transient, dropped, shutdown]: block counters
  transientLeft,\* transient_remaining_
  hand,         \* the block a worker holds, 0 for none
  latest,       \* the frame dsp_run would publish next, if any
  overflowed,   \* acquisition_run has announced an overflow
  script,       \* the steps each thread has yet to take
  faults,       \* history: spontaneous failures so far
  dirty         \* history: one that is no expected cancellation hit this session

lifecycle == <<state, disconnecting, lock, stop, device, generation>>
data == <<acq, spectrum, count, transientLeft, hand, latest, overflowed>>
vars == <<lifecycle, data, diag, script, faults, dirty>>

Workers == {"acquisition", "dsp"}
Threads == Callers \cup Workers

States == {"Created", "Configured", "Running", "Stopping", "Stopped", "Error"}

-----------------------------------------------------------------------------
(* Scripts                                                                 *)

At(t, step) == script[t] # <<>> /\ script[t][1] = step
Rest(t) == Tail(script[t])
Goto(t, steps) == script' = [script EXCEPT ![t] = steps]
Advance(t) == Goto(t, Rest(t))

(* An exception leaves the call, or the thread.                            *)
Throw(t) == Goto(t, <<>>)

(* Mutant: the device is cancelled before the stop token is set.           *)
CloseDownCancelFirst == <<"cancel", "stopToken", "closeQueue">>

(* Mutant: the acquisition queue is not stopped.                           *)
CloseDownQueueLeftOpen == <<"stopToken", "cancel">>

(* initiate_shutdown(): three effects other threads see one by one.        *)
CloseDown == <<"stopToken", "cancel", "closeQueue">>

Ready == lock = "free"

WorkersDone == \A w \in Workers : script[w] = <<>>

StopToken(t) ==
  /\ At(t, "stopToken")
  /\ stop' = TRUE
  /\ Advance(t)
  /\ UNCHANGED <<state, disconnecting, lock, device, generation, data, diag, faults, dirty>>

(* PlutoDevice::cancel acts on the buffer of a stream that is on.          *)
Cancel(t) ==
  /\ At(t, "cancel")
  /\ device' = [device EXCEPT !.cancelled = @ \/ device.streaming]
  /\ Advance(t)
  /\ UNCHANGED <<state, disconnecting, lock, stop, generation, data, diag, faults, dirty>>

CloseQueue(t) ==
  /\ At(t, "closeQueue")
  /\ acq' = AfterStop(acq)
  /\ Advance(t)
  /\ UNCHANGED <<lifecycle, spectrum, count, transientLeft, hand, latest, overflowed,
                 diag, faults, dirty>>

-----------------------------------------------------------------------------
(* acquisition_run                                                         *)

AcqCheck ==
  /\ At("acquisition", "check")
  /\ Goto("acquisition", IF stop THEN <<>> ELSE <<"refill">>)
  /\ UNCHANGED <<lifecycle, data, diag, faults, dirty>>

(* A refilled block is counted, then discarded as a transient or kept.     *)
AcqRefill ==
  /\ At("acquisition", "refill")
  /\ ~device.cancelled /\ count.received < MaxBlocks
  /\ IF transientLeft > 0
       THEN /\ transientLeft' = transientLeft - 1
            /\ count' = [count EXCEPT !.received = @ + 1, !.transient = @ + 1]
            /\ Goto("acquisition", <<"check">>)
            /\ UNCHANGED hand
       ELSE /\ count' = [count EXCEPT !.received = @ + 1]
            /\ hand' = [hand EXCEPT !["acquisition"] = count.received + 1]
            /\ Goto("acquisition", <<"push">>)
            /\ UNCHANGED transientLeft
  /\ UNCHANGED <<lifecycle, acq, spectrum, latest, overflowed, diag, faults, dirty>>

(* refill() throws: on a cancelled buffer always, else as a fault.  After  *)
(* a stop it is the expected end of the loop; before one it is a failure.  *)
AcqRefillThrows ==
  /\ At("acquisition", "refill")
  /\ \/ device.cancelled /\ UNCHANGED <<faults, dirty>>
     \/ faults < Faults /\ faults' = faults + 1 /\ dirty' = (dirty \/ ~stop)
  /\ Goto("acquisition", IF stop THEN <<>> ELSE <<"emitFailure", "markError">> \o CloseDown)
  /\ UNCHANGED <<lifecycle, data, diag>>

(* push_with_eviction; the loss is counted in a later step.                *)
AcqPush ==
  /\ At("acquisition", "push") /\ ~PushBlocks(acq)
  /\ acq' = AfterPush(acq, hand["acquisition"])
  /\ hand' = [hand EXCEPT !["acquisition"] = 0]
  /\ Goto("acquisition",
          CASE PushResult(acq) = "Stopped" -> <<"countStopped">>
            [] PushResult(acq) \in {"Dropped", "Evicted"} -> <<"countDrop">>
            [] OTHER -> <<"check">>)
  /\ UNCHANGED <<lifecycle, spectrum, count, transientLeft, latest, overflowed,
                 diag, faults, dirty>>

(* Only the first overflow is announced (and every 65536th, out of reach). *)
AcqCountDrop ==
  /\ At("acquisition", "countDrop")
  /\ count' = [count EXCEPT !.dropped = @ + 1]
  /\ overflowed' = TRUE
  /\ diag' = IF overflowed THEN diag ELSE Emit(diag, FALSE)
  /\ Goto("acquisition", <<"check">>)
  /\ UNCHANGED <<lifecycle, acq, spectrum, transientLeft, hand, latest, faults, dirty>>

(* Mutant: the block refused by a stopped queue is not counted as dropped. *)
AcqStoppedUncounted ==
  /\ At("acquisition", "countStopped")
  /\ count' = [count EXCEPT !.shutdown = @ + 1]
  /\ Goto("acquisition", <<>>)
  /\ UNCHANGED <<lifecycle, acq, spectrum, transientLeft, hand, latest, overflowed,
                 diag, faults, dirty>>

AcqCountStopped ==
  /\ At("acquisition", "countStopped")
  /\ count' = [count EXCEPT !.dropped = @ + 1, !.shutdown = @ + 1]
  /\ Goto("acquisition", <<>>)
  /\ UNCHANGED <<lifecycle, acq, spectrum, transientLeft, hand, latest, overflowed,
                 diag, faults, dirty>>

-----------------------------------------------------------------------------
(* dsp_run.  A block yields one frame: the fields of a frame are its       *)
(* configuration, the drops it is annotated with, and (history) how many   *)
(* admitted blocks before it never reached the DSP.                        *)

DspPop ==
  /\ At("dsp", "pop") /\ acq.items # <<>>
  /\ hand' = [hand EXCEPT !["dsp"] = Head(acq.items)]
  /\ acq' = AfterPop(acq)
  /\ Goto("dsp", <<"process">>)
  /\ UNCHANGED <<lifecycle, spectrum, count, transientLeft, latest, overflowed,
                 diag, faults, dirty>>

DspDrained ==
  /\ At("dsp", "pop") /\ acq.items = <<>> /\ acq.stop
  /\ Goto("dsp", <<"flush">>)
  /\ UNCHANGED <<lifecycle, data, diag, faults, dirty>>

(* Mutant: the annotation is taken from the shutdown counter.              *)
FrameWrongCounter(block) ==
  [generation |-> generation, dropped |-> count.shutdown,
   missing |-> block - count.transient - acq.popped]

Frame(block) ==
  [generation |-> generation, dropped |-> count.dropped,
   missing |-> block - count.transient - acq.popped]

(* annotate_frame, then publish() if the snapshot period has elapsed.      *)
DspProcess ==
  /\ At("dsp", "process")
  /\ LET frame == Frame(hand["dsp"])
     IN  \/ latest' = <<frame>> /\ UNCHANGED spectrum
         \/ latest' = <<>> /\ spectrum' = AfterPush(spectrum, frame)
  /\ hand' = [hand EXCEPT !["dsp"] = 0]
  /\ Goto("dsp", <<"pop">>)
  /\ UNCHANGED <<lifecycle, acq, count, transientLeft, overflowed, diag, faults, dirty>>

(* The backend throws: the block it was given is gone.                     *)
DspThrows ==
  /\ At("dsp", "process") \/ At("dsp", "flush")
  /\ faults < Faults /\ faults' = faults + 1 /\ dirty' = TRUE
  /\ hand' = [hand EXCEPT !["dsp"] = 0]
  /\ Goto("dsp", <<"emitFailure", "markError">> \o CloseDown)
  /\ UNCHANGED <<lifecycle, acq, spectrum, count, transientLeft, latest, overflowed, diag>>

DspFlush ==
  /\ At("dsp", "flush")
  /\ spectrum' = IF latest = <<>> THEN spectrum ELSE AfterPush(spectrum, latest[1])
  /\ latest' = <<>>
  /\ Goto("dsp", <<>>)
  /\ UNCHANGED <<lifecycle, acq, count, transientLeft, hand, overflowed, diag, faults, dirty>>

-----------------------------------------------------------------------------
(* The failure path both workers share                                     *)

EmitFailure(w) ==
  /\ At(w, "emitFailure")
  /\ diag' = Emit(diag, TRUE)
  /\ Advance(w)
  /\ UNCHANGED <<lifecycle, data, faults, dirty>>

MarkError(w) ==
  /\ At(w, "markError")
  /\ diag' = [diag EXCEPT !.hasError = TRUE]
  /\ state' = IF state \in {"Running", "Stopping"} THEN "Error" ELSE state
  /\ Advance(w)
  /\ UNCHANGED <<disconnecting, lock, stop, device, generation, data, faults, dirty>>

-----------------------------------------------------------------------------
(* configure                                                               *)

(* The output pool the device gets, from the queue and blocks in flight.   *)
PoolBlocks(capacity) ==
  IF capacity + 3 > PoolFloor THEN capacity + 3 ELSE PoolFloor

Configurable == {"Created", "Configured", "Stopped"}

(* The flag and the state are looked at first; the lock is held from then  *)
(* on, but neither the flag nor a reader of the state waits for it.        *)
ConfigurePasses(c) ==
  /\ At(c, "configure") /\ Ready
  /\ ~disconnecting /\ state \in Configurable
  /\ lock' = c
  /\ Goto(c, <<"apply">> \o Rest(c))
  /\ UNCHANGED <<state, disconnecting, stop, device, generation, data, diag, faults, dirty>>

ConfigureThrows(c) ==
  /\ At(c, "configure") /\ Ready
  /\ disconnecting \/ state \notin Configurable
  /\ Throw(c)
  /\ UNCHANGED <<lifecycle, data, diag, faults, dirty>>

(* Everything is built before the device is touched; the queues, the stop  *)
(* token, the counters and has_error are those of the new configuration.   *)
Configure(c) ==
  /\ At(c, "apply")
  /\ \E capacity \in AcqCapacities, policy \in AcqPolicies :
       acq' = NewQueue(capacity, policy)
  /\ spectrum' = NewQueue(SpectrumCapacity, "LatestWins")
  /\ diag' = Emit(NewDiagnostics(EventCapacity), FALSE)
  /\ state' = "Configured" /\ lock' = "free" /\ stop' = FALSE /\ generation' = generation + 1
  /\ device' = [device EXCEPT !.configured = TRUE, !.streaming = FALSE, !.cancelled = FALSE]
  /\ count' = [received |-> 0, transient |-> 0, dropped |-> 0, shutdown |-> 0]
  /\ dirty' = FALSE
  /\ Advance(c)
  /\ UNCHANGED <<disconnecting, transientLeft, hand, latest, overflowed, faults>>

(* The device fails: it is left with its previous settings, or             *)
(* unconfigured when even these could not be restored.                     *)
ConfigureDeviceFails(c) ==
  /\ At(c, "apply")
  /\ faults < Faults /\ faults' = faults + 1
  /\ \E restored \in BOOLEAN :
       device' = [device EXCEPT !.configured = @ /\ restored, !.streaming = FALSE,
                                !.cancelled = FALSE]
  /\ lock' = "free"
  /\ Throw(c)
  /\ UNCHANGED <<state, disconnecting, stop, generation, data, diag, dirty>>

-----------------------------------------------------------------------------
(* start                                                                   *)

(* As in configure, the flag may be raised right after it was looked at.   *)
StartPasses(c) ==
  /\ At(c, "start") /\ Ready /\ ~disconnecting /\ state = "Configured"
  /\ lock' = c
  /\ Goto(c, <<"startStream">> \o Rest(c))
  /\ UNCHANGED <<state, disconnecting, stop, device, generation, data, diag, faults, dirty>>

StartRefused(c) ==
  /\ At(c, "start") /\ Ready /\ (disconnecting \/ state # "Configured")
  /\ Throw(c)
  /\ UNCHANGED <<lifecycle, data, diag, faults, dirty>>

(* start_stream() throws, on an unconfigured device or as a fault.         *)
StartDeviceFails(c) ==
  /\ At(c, "startStream")
  /\ transientLeft' = TransientBlocks
  /\ \/ ~device.configured /\ UNCHANGED faults
     \/ device.configured /\ faults < Faults /\ faults' = faults + 1
  /\ lock' = "free"
  /\ Throw(c)
  /\ UNCHANGED <<state, disconnecting, stop, device, generation, acq, spectrum, count, hand,
                 latest, overflowed, diag, dirty>>

(* The lock is held until the event "started" is out; the worker threads   *)
(* run from here on.                                                       *)
Start(c) ==
  /\ At(c, "startStream") /\ device.configured
  /\ transientLeft' = TransientBlocks
  /\ device' = [device EXCEPT !.streaming = TRUE, !.cancelled = FALSE]
  /\ state' = "Running"
  /\ overflowed' = FALSE
  /\ latest' = <<>>
  /\ script' = [script EXCEPT ![c] = <<"announce">> \o Rest(c),
                             !["dsp"] = <<"pop">>, !["acquisition"] = <<"check">>]
  /\ UNCHANGED <<disconnecting, lock, stop, generation, acq, spectrum, count, hand, diag, faults,
                 dirty>>

(* A thread cannot be created: none runs, or only the DSP thread.          *)
StartSpawnFails(c) ==
  /\ At(c, "startStream") /\ device.configured
  /\ faults < Faults /\ faults' = faults + 1 /\ dirty' = TRUE
  /\ transientLeft' = TransientBlocks
  /\ device' = [device EXCEPT !.streaming = TRUE, !.cancelled = FALSE]
  /\ state' = "Running"
  /\ latest' = <<>>
  /\ \E dspScript \in {<<>>, <<"pop">>} :
       script' = [script EXCEPT ![c] = CloseDown \o <<"abortStart">>, !["dsp"] = dspScript]
  /\ UNCHANGED <<disconnecting, lock, stop, generation, acq, spectrum, count, hand, overflowed,
                 diag>>

AbortStart(c) ==
  /\ At(c, "abortStart") /\ WorkersDone
  /\ device' = [device EXCEPT !.streaming = FALSE, !.cancelled = FALSE]
  /\ state' = IF state \in {"Running", "Stopping"} THEN "Error" ELSE state
  /\ diag' = [diag EXCEPT !.hasError = TRUE]
  /\ lock' = "free"
  /\ Throw(c)
  /\ UNCHANGED <<disconnecting, stop, generation, data, faults, dirty>>

(* The end of start(): the event is emitted and the lock released.         *)
Announce(c) ==
  /\ At(c, "announce")
  /\ diag' = Emit(diag, FALSE)
  /\ lock' = "free"
  /\ Advance(c)
  /\ UNCHANGED <<state, disconnecting, stop, device, generation, data, faults, dirty>>

-----------------------------------------------------------------------------
(* request_stop and join; inside shutdown_noexcept, which has a step after *)
(* them to come back to, an exception leads to a forced shutdown.          *)

Guarded(c) == \E i \in 2..Len(script[c]) : script[c][i] = "settled"
Resume(c) ==
  LET i == CHOOSE j \in 2..Len(script[c]) : script[c][j] = "settled"
  IN  SubSeq(script[c], i, Len(script[c]))

Fail(c) ==
  IF Guarded(c) THEN Goto(c, CloseDown \o <<"forceJoin">> \o Resume(c)) ELSE Throw(c)

RequestStop(c) ==
  /\ At(c, "requestStop") /\ Ready
  /\ CASE state = "Running" -> /\ state' = "Stopping" /\ lock' = c
                               /\ Goto(c, CloseDown \o <<"release">> \o Rest(c))
       [] state \in {"Stopping", "Error"} -> Advance(c) /\ UNCHANGED <<state, lock>>
       [] OTHER -> Fail(c) /\ UNCHANGED <<state, lock>>
  /\ UNCHANGED <<disconnecting, stop, device, generation, data, diag, faults, dirty>>

Release(c) ==
  /\ At(c, "release")
  /\ lock' = "free"
  /\ Advance(c)
  /\ UNCHANGED <<state, disconnecting, stop, device, generation, data, diag, faults, dirty>>

Join(c) ==
  /\ At(c, "join") /\ Ready
  /\ CASE state = "Stopped" -> Advance(c) /\ UNCHANGED lock
       [] state \in {"Stopping", "Error"} ->
            lock' = c /\ Goto(c, <<"joinWorkers">> \o Rest(c))
       [] OTHER -> Fail(c) /\ UNCHANGED lock
  /\ UNCHANGED <<state, disconnecting, stop, device, generation, data, diag, faults, dirty>>

(* Mutant: the blocks left in the queue are discarded without a count.     *)
JoinWorkersUncounted(c) ==
  /\ At(c, "joinWorkers") /\ WorkersDone
  /\ device' = [device EXCEPT !.streaming = FALSE, !.cancelled = FALSE]
  /\ acq' = AfterAbandon(acq)
  /\ diag' = Emit(diag, FALSE)
  /\ state' = "Stopped"
  /\ lock' = "free"
  /\ Advance(c)
  /\ UNCHANGED <<disconnecting, stop, generation, spectrum, count, transientLeft, hand,
                 latest, overflowed, faults, dirty>>

(* The stream is stopped and the blocks left in the queue are counted.     *)
JoinWorkers(c) ==
  /\ At(c, "joinWorkers") /\ WorkersDone
  /\ device' = [device EXCEPT !.streaming = FALSE, !.cancelled = FALSE]
  /\ acq' = AfterAbandon(acq)
  /\ count' = [count EXCEPT !.dropped = @ + Len(acq.items)]
  /\ diag' = Emit(IF acq.items = <<>> THEN diag ELSE Emit(diag, FALSE), FALSE)
  /\ state' = "Stopped"
  /\ lock' = "free"
  /\ Advance(c)
  /\ UNCHANGED <<disconnecting, stop, generation, spectrum, transientLeft, hand,
                 latest, overflowed, faults, dirty>>

-----------------------------------------------------------------------------
(* disconnect: set the flag, shut down, sweep up a start() that overtook   *)
(* the shutdown, shut down again, release everything.                      *)

RaiseFlag(c) ==
  /\ At(c, "raiseFlag")
  /\ disconnecting' = TRUE
  /\ Advance(c)
  /\ UNCHANGED <<state, lock, stop, device, generation, data, diag, faults, dirty>>

(* shutdown_noexcept() reads the state without the lock, twice.            *)
Shutdown(c) ==
  /\ At(c, "shutdown")
  /\ Goto(c, (IF state = "Running" THEN <<"requestStop">> ELSE <<>>)
               \o <<"shutdownJoin", "settled">> \o Rest(c))
  /\ UNCHANGED <<lifecycle, data, diag, faults, dirty>>

ShutdownJoin(c) ==
  /\ At(c, "shutdownJoin")
  /\ Goto(c, (IF state \in {"Stopping", "Error"} THEN <<"join">> ELSE <<>>) \o Rest(c))
  /\ UNCHANGED <<lifecycle, data, diag, faults, dirty>>

ForceJoin(c) ==
  /\ At(c, "forceJoin") /\ WorkersDone
  /\ device' = [device EXCEPT !.streaming = FALSE, !.cancelled = FALSE]
  /\ Advance(c)
  /\ UNCHANGED <<state, disconnecting, lock, stop, generation, data, diag, faults, dirty>>

Settled(c) ==
  /\ At(c, "settled")
  /\ Advance(c)
  /\ UNCHANGED <<lifecycle, data, diag, faults, dirty>>

Sweep(c) ==
  /\ At(c, "sweep") /\ Ready
  /\ IF state = "Running"
       THEN /\ state' = "Stopping" /\ lock' = c
            /\ Goto(c, CloseDown \o <<"release">> \o Rest(c))
       ELSE Advance(c) /\ UNCHANGED <<state, lock>>
  /\ UNCHANGED <<disconnecting, stop, device, generation, data, diag, faults, dirty>>

(* The queues are destroyed; a queue nobody can use stands for none.       *)
Finalize(c) ==
  /\ At(c, "finalize") /\ Ready
  /\ device' = [connected |-> FALSE, configured |-> FALSE,
                streaming |-> FALSE, cancelled |-> FALSE]
  /\ acq' = AfterStop(NewQueue(1, "Block"))
  /\ spectrum' = NewQueue(SpectrumCapacity, "LatestWins")
  /\ state' = "Stopped"
  /\ Advance(c)
  /\ UNCHANGED <<disconnecting, lock, stop, generation, count, transientLeft, hand, latest,
                 overflowed, diag, faults, dirty>>

-----------------------------------------------------------------------------
(* Polling                                                                 *)

PollSpectrum(c) ==
  /\ At(c, "pollSpectrum") /\ Ready
  /\ spectrum' = IF spectrum.items = <<>> THEN spectrum ELSE AfterPop(spectrum)
  /\ Advance(c)
  /\ UNCHANGED <<lifecycle, acq, count, transientLeft, hand, latest, overflowed, diag, faults, dirty>>

PollEvents(c) ==
  /\ At(c, "pollEvents") /\ Ready
  /\ diag' = Drained(diag)
  /\ Advance(c)
  /\ UNCHANGED <<lifecycle, data, faults, dirty>>

-----------------------------------------------------------------------------
(* The API: each call and the steps it is made of.                         *)

Stopping == <<"requestStop", "join">>

(* Mutant: disconnect() does not sweep up a start() it has overtaken.      *)
DisconnectUnswept == <<"raiseFlag", "shutdown", "finalize">>

(* disconnect(): a start() that looked at the flag before it was raised is *)
(* swept up once the lock is to be had.                                    *)
Disconnect == <<"raiseFlag", "shutdown", "sweep", "shutdown", "finalize">>

Steps(call) ==
  CASE call = "configure"    -> <<"configure">>
    [] call = "start"        -> <<"start">>
    [] call = "request_stop" -> <<"requestStop">>
    [] call = "join"         -> <<"join">>
    [] call = "stop"         -> Stopping
    [] call = "reconfigure"  -> IF state = "Running" THEN Stopping \o <<"configure", "start">>
                                ELSE <<"configure">>
    [] call = "disconnect"   -> Disconnect
    [] call = "poll_events"  -> <<"pollEvents">>
    [] call = "poll_spectrum_frames" -> <<"pollSpectrum">>

Call(c) ==
  /\ script[c] = <<>>
  /\ \E call \in Calls :
       /\ call \in {"configure", "reconfigure"} => generation < MaxGenerations
       /\ Goto(c, Steps(call))
  /\ UNCHANGED <<lifecycle, data, diag, faults, dirty>>

-----------------------------------------------------------------------------
Init ==
  /\ state = "Created" /\ disconnecting = FALSE /\ lock = "free" /\ stop = FALSE
  /\ device = [connected |-> TRUE, configured |-> FALSE,
               streaming |-> FALSE, cancelled |-> FALSE]
  /\ generation = 0
  /\ acq = NewQueue(1, "Block") /\ spectrum = NewQueue(SpectrumCapacity, "LatestWins")
  /\ diag = NewDiagnostics(EventCapacity)
  /\ count = [received |-> 0, transient |-> 0, dropped |-> 0, shutdown |-> 0]
  /\ transientLeft = 0 /\ hand = [w \in Workers |-> 0]
  /\ latest = <<>> /\ overflowed = FALSE
  /\ script = [t \in Threads |-> <<>>]
  /\ faults = 0 /\ dirty = FALSE

Closing(t) == StopToken(t) \/ Cancel(t) \/ CloseQueue(t)

Acquisition ==
  \/ AcqCheck \/ AcqRefill \/ AcqRefillThrows \/ AcqPush \/ AcqCountDrop \/ AcqCountStopped
  \/ EmitFailure("acquisition") \/ MarkError("acquisition") \/ Closing("acquisition")

Dsp ==
  \/ DspPop \/ DspDrained \/ DspProcess \/ DspThrows \/ DspFlush
  \/ EmitFailure("dsp") \/ MarkError("dsp") \/ Closing("dsp")

Continue(c) ==
  \/ ConfigurePasses(c) \/ ConfigureThrows(c) \/ Configure(c) \/ ConfigureDeviceFails(c)
  \/ StartPasses(c) \/ StartRefused(c) \/ StartDeviceFails(c) \/ Start(c) \/ StartSpawnFails(c)
  \/ AbortStart(c) \/ Announce(c)
  \/ RequestStop(c) \/ Release(c) \/ Join(c) \/ JoinWorkers(c)
  \/ RaiseFlag(c) \/ Shutdown(c) \/ ShutdownJoin(c) \/ ForceJoin(c) \/ Settled(c)
  \/ Sweep(c) \/ Finalize(c) \/ PollSpectrum(c) \/ PollEvents(c) \/ Closing(c)

Next == Acquisition \/ Dsp \/ \E c \in Callers : Call(c) \/ Continue(c)

Spec == Init /\ [][Next]_vars

(* A thread that can run does: the workers are never suspended for ever,   *)
(* refill() returns (the context has a timeout, and a cancelled buffer     *)
(* fails at once), and the mutex starves no call that waits for it.        *)
Fairness ==
  /\ WF_vars(Acquisition) /\ WF_vars(Dsp)
  /\ \A c \in Callers : SF_vars(Continue(c))
FairSpec == Spec /\ Fairness

-----------------------------------------------------------------------------
(* "The engine itself never exhausts the pool": when the device is about   *)
(* to fill a block, the engine holds fewer than the pool has.              *)
PoolSuffices ==
  At("acquisition", "refill") =>
    Len(acq.items) + (IF hand["dsp"] # 0 THEN 1 ELSE 0) < PoolBlocks(acq.capacity)

(* Every block the device delivered is discarded as a transient, counted   *)
(* as dropped, processed, or still on its way: no policy, stop, failure or *)
(* race between the two workers hides a block, and none is counted twice;  *)
(* and the device finds a free block each time it is to fill one.          *)
InFlight ==
  Len(acq.items)
    + (IF script["acquisition"] # <<>>
          /\ script["acquisition"][1] \in {"push", "countDrop", "countStopped"} THEN 1 ELSE 0)

BlocksConserved ==
  /\ device.connected =>
       count.received = count.transient + count.dropped + acq.popped + InFlight
  /\ PoolSuffices

(* A stop is never mistaken for a failure: without a spontaneous fault in  *)
(* this configuration no error is latched and the engine is not in Error,  *)
(* although a stop makes refill() throw at any moment.                     *)
StopIsNotAnError == ~dirty => ~diag.hasError /\ state # "Error"

(* An error is never lost from sight: once one was met in a configuration  *)
(* whose threads are gone, has_error is set, also after Error has settled  *)
(* into Stopped.                                                           *)
ErrorIsLatched ==
  /\ state = "Error" => diag.hasError
  /\ dirty /\ state = "Stopped" => diag.hasError

(* Worker threads run only in a session: never before start, after join or *)
(* while the queues are replaced or destroyed under them.                  *)
WorkersOnlyInSession ==
  ~WorkersDone => state \in {"Running", "Stopping", "Error"} /\ device.connected

(* A frame of an earlier configuration is never in the rebuilt queue.      *)
FramesAreCurrent ==
  \A i \in 1..Len(spectrum.items) : spectrum.items[i].generation = generation

(* What the engine says of itself is true, whichever thread stops, fails,  *)
(* configures or disconnects in the middle of what another one does: the   *)
(* state, the error flag and the generation of the frames it offers.       *)
StateIsTrue ==
  StopIsNotAnError /\ ErrorIsLatched /\ WorkersOnlyInSession /\ FramesAreCurrent

(* disconnect() is terminal: the engine is never revived, whatever the     *)
(* other threads were in the middle of.                                    *)
DisconnectIsTerminal ==
  [][~device.connected => UNCHANGED <<state, generation>> /\ ~device'.connected
                          /\ WorkersDone']_vars

(* Every lifecycle call returns, and with it every worker it waits for.    *)
CallsReturn == \A c \in Callers : (script[c] # <<>>) ~> (script[c] = <<>>)

(* A frame that follows lost blocks is annotated with their loss, so that  *)
(* its consumer can tell the discontinuity.                                *)
LossIsMarked ==
  \A i \in 1..Len(spectrum.items) :
    spectrum.items[i].dropped >= spectrum.items[i].missing

(* ... at least where the policy refuses the incoming block: the next one  *)
(* is refilled only after the loss was counted.                            *)
RefusalIsMarked == acq.policy \in {"Block", "DropNewest"} => LossIsMarked
=============================================================================
