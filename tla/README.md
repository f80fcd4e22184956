# Verification of sdr-native-monitoring

TLA+ models of the SDR monitor: what its threads, queues, workers, files and
calls may do in any order, the TLC runs that check it on small instances, and
TLAPS proofs of the results that hold for every instance. Every definition is
translated from the code; `PROJECT.json` ("map") names the lines each one
stands for, and paths below are relative to the repository.

    tlc -workers 2 -config MCBoundedQueue.cfg MCBoundedQueue     # a run
    tlapm ReceiverProofs.tla                                      # the proofs

Contents: 1 The system - 2 What is modelled, and how it corresponds to the code -
3 The runs - 4 The proofs - 5 Where code and documentation disagree -
6 What the models showed besides - 7 What is not modelled - 8 Plan.

## 1. The system

The program receives I/Q samples from an ADALM-Pluto radio (or a synthetic
source), computes spectra, shows, records and replays them, and analyses stored
DFL recordings offline. The real-time part is a C++ library
(`native/sdr_core`) below a Python package (`esw_dfl`, and its newer service
layer `sdr_monitor`) with Qt user interfaces.

    Pluto / synthetic source
        | blocks (bounded buffer pool)
        v
    acquisition thread --[BoundedQueue]--> (mover) --[BoundedQueue]--> DSP thread
                                              |                            |
                                    [BoundedQueue] recorder      [BoundedQueue] spectra
                                                                           |  poll
                   LiveSdrController / sweep executor / monitor services <-+
                              |                |
                              v                v
                    RecordingService --[queue.Queue]--> writer thread --> files
                    live window, live workspace, sweep workspace

    DFL recordings --> sessions --> frame navigation --> waterfall and traces
                           |------> heatmap controller --> layer over the waterfall
                           `------> channel power over time --> bursts and figures

| Component | State it keeps | Operations | Interacts through | What is hard | What makes it correct | Module |
|---|---|---|---|---|---|---|
| **Bounded queue** (`bounded_queue.hpp`) | pending items, counters, stop flag, two condition variables | push, push_with_eviction, try_push, try_push_prepared, pop, try_pop, request_stop, abandon_with | every native thread pair | notifications after the unlock, four overflow policies, stop racing everything | exact counters, order, no lost wake-up, finality of stop | `BoundedQueue`, `LossyFifo` |
| **Synthetic engine** (`core/engine.cpp`) | lifecycle state, stop token, pool, three queues, block counters | configure, start, request_stop, join, stop, polls; four workers | queues, pool, lifecycle mutex | the natural end detected from three depths, recorder backpressure, failure against stop | blocks conserved, a finite run ends, calls return | `SyntheticEngine` |
| **Fixed-band engine** (`pluto/fixed_band_engine.cpp`) | lifecycle state, stop token, device, two queues, counters, latched error | configure, reconfigure, start, request_stop, join, stop, disconnect, polls; two workers | queues, device, two mutexes, atomics | concurrent lifecycle calls, failing threads and device, cancel against stop | workers only in a session, errors latched, disconnect terminal, calls return | `FixedBandEngine` |
| **Diagnostic events** (same file) | event queue, priority slot, loss counter | emit_event from several threads, poll_events | event mutex and queue | three-step emission against a multi-step poll | no event vanishes, none twice, none withheld | `DiagnosticEvents` |
| **CPU DSP backend** (`dsp/cpu_dsp_backend.cpp`) | sample ring, schedule, staged windows, accumulator, output, loss counter | configure, push_iq, poll_spectrum, reset | called by the DSP thread | gaps, retunes and generations against partial windows | no stitched window, exactly the expected windows, none lost silently | `CpuDspBackend` |
| **DSP selector and failover** (`dsp/dsp_backend_selector.cpp`) | active backend, retained input, committed frames | the backend's | wraps two backends | replay into the fallback without repeating or skipping frames | the frames go on as if nothing had failed | `FailoverBackend` |
| **Pluto device** (`pluto/pluto_device_windows.cpp`) | settings on the radio, what was applied, generation, stream | configure (with its rollback), start_stream, refill, cancel, stop_stream, disconnect | libiio | a failure at each attribute and in the rollback | every block says what it was received under | `PlutoDevice` |
| **Buffer pool** (`core/buffer_pool.cpp`) | free slots, stop flag | acquire, try_acquire, request_stop; a slot returns with its last owner | shared by the workers | exhaustion as backpressure | never more blocks than slots | in the engines |
| **Recording service** (`esw_dfl/sdr/recording.py`) | running, cancelled, error, stop event, queue, counters, writers | start, submit_iq, stop, cancel, close; a worker | `queue.Queue`, a condition | failing worker against a client that waits, eviction in steps | no block forgotten, calls return | `RecordingService` |
| **Recording files** (same file) | data, index, gap and metadata files, `.part` names | start, write_block, record_gap, finalize, abort, recover_iq_recording, `IqReplay` | file system | crash between two renames, partly durable writes | what was forced survives, what has its final name is whole | `RecordingFiles` |
| **Recording workspace** (`ui/recording_presenter.py`) | its state, recorder and replay threads, stop events | configure, start_recording, stop_recording, recover_partial, open_replay, play, pause, stop_replay, reprocess_iq, close | recording service, threads, a lock | a join that times out, a stop that waits in a queue, a crash anywhere | services are stopped and playback ends but for the cases named, the status is true | `RecordingPresenter` |
| **Recording in sdr_monitor** (`services/recording_session.py`, its presenter and workspace) | one handle, one queue, writer threads | start, submit_iq, stop (its waits are bounded), close | a pool of two threads, the buttons | STOP_TIMEOUT and the writer that ends later, failing open, write, flush, close, rename | a completed take accounts for every block | `MonitorRecording` |
| **Live controller** (`sdr/controller.py`, `session_adapter.py`) | state, generation, updates, stop event | start, request_stop, join, close, poll_updates; a worker | engine service, GUI thread | stop against configure, close without waiting | device exclusive, sessions end | `LiveControllers` |
| **Live front ends** (`gui.py`, `ui/live_presenter.py`, `ui/live_workspace.py`) | controllers by source, snapshots, buttons | connect, start, stop, apply_requested, disconnect, poll, close | controllers | updates of an earlier session | only the own session is shown | `LiveMonitor`, `LiveApplication` |
| **Live page of sdr_monitor** (`services/live_session.py`, `native_live.py`, presenter, page, dialogs) | selected receiver, snapshot, open context | discover_devices, select_device, select_manual_uri, apply_configuration, start, stop, close_live; a pool of one thread | answers through the event queue, or at once | an answer that comes before its callback is attached, failed selects | the receiver held is the one selected, the page shows the service | `MonitorLive` |
| **Sweep page of sdr_monitor** (`services/sweep_session.py`, presenter, page) | plan, result, cancel event | plan, execute, cancel, export_result; a pool of two threads | signals | one event for every sweep, a cancel that waits for a thread | plans cover, a cancel is heard, the end is shown | `MonitorSweep` |
| **Diagnostics page of sdr_monitor** (`services/diagnostics_session.py`, presenter, page) | tests, errors, snapshots | run_self_tests, run_controlled_rx_test, collect_snapshot, report_error, cancel; a pool of two threads | signals | snapshots collected in one thread, posted by another | what is kept is shown in the end | `MonitorDiagnostics` |
| **Wideband sweep** (`sdr/sweep.py`, `stitching.py`, `ui/sweep_presenter.py`) | plan, segments, status, worker | plan_sweep, execute; the presenter's plan, run, cancel, poll, close | a service of its own per run | failures and cancels in the middle, restore | the plan covers the band, what is told is true, runs end | `WidebandSweep` |
| **Heatmap controller and engine** (`heatmap_persistence*.py`) | active and pending ticket, reader, accumulators, generation | set_context, enable, publish, request_fixed, pause, stop, recalculate, cancel, clear, disable, invalidate_session | Qt workers and their signals | late results, cancels inside a chunk | the layer is current, each frame is counted once, work ends | `HeatmapController`, `HeatmapPresenter` |
| **Frame navigation** (`frame_navigation.py`, `workers.py`, `ui/offline_presenter.py`) | target, cache, active and pending read, timers, sessions | load_file, show_frame, play, pause, stop, set_active_session, remove_session; the controller's seek, request, invalidate | Qt workers and timers | overtaking reads, session switches | playback goes forward, the target is reached | `FrameNavigation`, `OfflineWorkspace` |
| **Channel power over time** (`time_gated_power.py`, `ui/offline_presenter.py`) | series, activity masks; requests with their worker | request_time_gated_power, cancel_time_gated_power; build_series, detect, events, summarize | a Qt worker, sessions | vectorised detection at its edges; replaced requests | figures exact, requests served | `TimeGatedPower`, `TimeGatedRequests` |
| **Activity log** (`esw_dfl/activity_log.py`) | lines in memory, the file, what is pending | emit, flush, close, reading the file at the start; a writer thread per burst | the file system | writes fail, records come while a write runs | what a flush that succeeded wrote is in the file | `ActivityLog` |
| **Calibration** (`sdr_monitor/services/calibration*.py`, `esw_dfl/sdr/calibration*.py`, the presenters) | profile files, active profile, applicability, lists | preview_csv, finalize_profile, save, select_active_profile, clear_active_profile, set_current_settings, apply | files, a pool of two threads | what is fingerprinted against what is stored; answers out of order | a level is corrected by exactly the matching profile, a saved version never changes | `CalibrationProfiles`, `CalibrationService`, `CalibrationPresenter` |
| **Main window** (`esw_dfl/gui.py`, `workspace.py`) | edits of active frames, band, requests, display state of each session, workspace file | load_file, set_active_session, _toggle_session_visibility, _remove_session, _start_channel_power_request, clear_channel_power_tools, save_workspace, open_workspace, edits of frames | a Qt worker, sessions, a file | answers against edits and switches, three places for one edit | edits come back, what is called calculated is of what is shown | `AnalysisWindow` |
| Contracts, numeric helpers, SGRAM decoder, other analyses, widgets | | | | little concurrency | see section 7 | |

## 2. What is modelled, and how it corresponds to the code

Three conventions hold everywhere. A step is what the code does while it holds
one lock, or on the GUI thread without returning to its event loop; where it
takes its locks twice, there are two steps and others may come in between. A
failure is a step that may happen at any place where the code handles one, as
often as a bound in the module's constants allows (`MaxFaults`, `MaxFailures`,
`MaxTrouble`). Data is what the properties tell apart: a block is its number, a
frame the recording and place it came from, a file what is in it.

### QueueOps, BoundedQueue, LossyFifo

`QueueOps` is the record that the mutex of `BoundedQueue` protects, and a pure
operator per critical section: `PushResult` and `AfterPush` are `push_locked`
with its four policies, `AfterPop`, `AfterStop`, `AfterAbandon` the others. The
engine modules keep one such record per queue, and the diagnostic events of the
fixed-band engine, whose operators the module has too, are built on one.

`BoundedQueue` puts threads around it. A critical section is one action, as the
mutex makes it one; a notification is issued after the unlock and is an action
of its own (`NotifyNotEmpty`, `StopNotEmpty`, ...), so any thread may come in
between. `push` and `pop` sleep (`pushWait`, `popWait`) when their predicate is
false, are woken by a notification to one or to all sleepers, may wake
spuriously, and evaluate the predicate again under the mutex. An item is the
number under which it was accepted, so order and identity can be stated.

`LossyFifo` is what the owner of a queue relies on: numbered items, the oldest
surviving one comes out next, an item is lost only by the rule of the policy in
a full queue or by an explicit discard, and each loss is counted as it happens.
It has no threads, waits or sequences; the sequence of `BoundedQueue` maps to
the set of its items (`Fifo`), and every wait and notification to a stutter.

### DiagnosticEvents

`NewDiagnostics` of `QueueOps` is the diagnostic state of the fixed-band engine: a DropNewest
queue, a slot for one Error or Critical event that found the queue full, the
loss counter, the latched `has_error`. `DiagnosticEvents` interleaves
`emit_event` of two threads (number, queue place, slot: three steps) with
`poll_events` (queue, slot, loss notice), because the code takes its locks
separately for each. `FixedBandEngine` uses the same operators undisturbed.

### FixedBandEngine

The whole engine: lifecycle calls by any number of threads, the acquisition and
the DSP thread, device, queues, counters, frames and events. Each thread has a
*script*, the steps it has yet to take; a call puts its steps there, an
exception clears it, and a worker lives exactly while its script is not empty.
A step is what the code does while it holds one mutex, or one access to an
atomic: `initiate_shutdown` is therefore three steps (`stopToken`, `cancel`,
`closeQueue`) that every other thread may see half done. `configure` and `start`
hold `lifecycle_mutex_` from their check to their effect, which are two steps, as
stop token, device flag and state are read and written without it; `join` holds
`lifecycle_mutex_` from `join` to `joinWorkers`; `disconnect` raises its flag
outside that mutex and sweeps twice. Failures are steps that may always happen
while `faults` allows: the refill throws, the backend throws, the device refuses
a configuration, a stream does not start, a thread cannot be created. Sleeping
in a queue is an action that is not enabled; that a sleeper is woken is what
`BoundedQueue` shows.

### SyntheticEngine

The same conventions for the four workers of the reference pipeline, the
bounded pool (`Held`: a block occupies its slot while a queue or a thread holds
it), the recorder copy that is probed before the analytical block goes on, the
pace of an unlimited source, the end of a finite run from three depths read one
by one, and the two ways a worker ends a session.

### CpuDspBackend, FailoverBackend

One thread; the hard part is data. A sample is where it came from (index,
settings, flags), an FFT is the samples it was computed from. `Absorbed` is the
sample loop of `push_iq` as a recursive function of the samples read, `Prepared` its four
discontinuity checks, `Flush` `flush_pipeline`, `RunBatch` the FFT batch with
accumulation and `EmitFrame`. The reference definition of overlapped windows is
`OneWindowPerHop`, a conjunct of `WindowsConserved`.

`FailoverBackend` is the Auto backend: the active child is that pipeline, may
fail in any call, and is then replaced by a fresh one into which the blocks kept
(`replay`, trimmed to `MaxReplayBlock` samples and `retained_limit` blocks) are
pushed again; frames already published are recognised by their place in the
stream and left out, the first frame of the standby carries the mark. Both
children are modelled by the CPU pipeline, since they keep one contract.

### PlutoDevice

The radio's settings as four values on the other side of a link. `configure`
writes them one by one, reads them back and checks them; each write may fail
with or without effect or be rounded, and so may each write of the rollback.
What the device object believes (`applied`, its generation) is a variable of
its own, so that `BlocksSayTheTruth` can compare it with `hw`.

### RecordingService, RecordingFiles, RecordingPresenter

`RecordingService`: one client thread (as in the presenter, whose worker submits
and stops) and the worker. Each operation on `queue.Queue` and each assignment
that the other thread can see is a step: DROP_OLDEST makes room in three, `stop`
looks at the error, drains, puts its `None`, joins and closes the files in
separate steps. Simplifications: the counter `enqueued` is taken together with
the put it follows; `gap_samples` is not kept (the gap file is a set).

`RecordingFiles` is the disk: a call of the writer is the sequence of its
effects (open, sync, trim, move, metadata: `Effect`), and a crash may come
between any two, leaving of each file any part of what was not forced
(`Remains`, `CrashOutcomes`). Recovery and the
opening for replay are operators on what is found there, with the checks that
make them refuse.

`RecordingPresenter` composes those files with the presenter: the GUI calls, a
recorder thread per recording with its service's worker, the replay thread, the
crash and the restart of the program. A second target can be started while the
recorder of the first is still there; the history variable `overlap` names that
case, and `masked` the one in which the replay half wiped an error of a recording that
runs or has ended, for both halves share the field (section 6 says what follows from each).
Its service is the part of `RecordingService` that the presenter meets: DROP_NEWEST, a
bounded queue, a worker that a write or an fsync makes fail, and a `stop` in three steps
that looks at the error, puts its `None` without a timeout and joins, so that one may
wait for ever at a full queue (`Stranded`); until it has put the `None`, it keeps the lock
that `submit_iq` needs (`Locked`). `finalize` and `abort` themselves do not raise here,
as they may in `RecordingService`. The `spectrum` half has the
same order of effects and is left out.

### MonitorRecording

The newer recording of `sdr_monitor`: one service with one handle and one queue,
its writer threads (an old one may live beside a new one after a stop that timed
out), a presenter that sends start and stop to a pool of two threads, the
buttons' enablement and the close of the window. Opening the file, the header, a
write, the flush, the close and the rename may each fail: a file object whose flush
failed holds its last blocks back (`disk.held`) and may hold them for good, and
COMPLETED is stored before the rename is tried. `clean` is a history variable:
takes with a writer that began when no writer of an earlier take and no other call of
`stop()` was left, which are those `CompletedIsWhole` speaks of (section 6 says what happens to others).

### WidebandSweep

The planner in integers (`Segments`, checked against "covers the span with no gap
and no spare segment"), the executor with retune, capture, timeout, cancel and
restore, the engine's life cycle as far as the executor meets it, the presenter
with a worker and a service per run, and the buttons that decide which calls may
come. Of the stitching the model has what makes it refuse.

### LiveControllers, LiveMonitor, LiveApplication

`LiveControllers` is every `LiveSdrController` of the process with its worker;
`LiveMonitor` the AppShell's workspace, which owns one controller at a time and
waits with a timeout. An update carries the controller that published it (`by`, which
the code does not record), so that a row of a waterfall and the badge of a snapshot can be
told from those of another session, and a snapshot keeps the generation its session had
when it was built (`asOf`). `LiveApplication` has the sessions of the legacy main
window, which closes without waiting, and composes them: a program runs one of
the two front ends on its one GUI thread, above the same controllers.

### HeatmapController, HeatmapPresenter

`HeatmapController` has one operator per method, from the controller's state to the
next, and says which frames the persistence engine's accumulator counts after a
rebuild, an advance of a rolling window and a decay; the reader thread takes a chunk
at a time from accumulators that live in `heap` under the generation that built
them, so that two readers of one accumulator can be seen. The result of a rebuild
carries its accumulator, which counts only if the result does. A batch of the reader
(`Chunk`) is at most a window, as in `_advance_exact_frame_range`. `HeatmapPresenter` is
the workspace around it and the queue of Qt messages.

### FrameNavigation, OfflineWorkspace

`FrameNavigation` has the methods of the navigation controller, the loader and
the presentation scheduler as operators on the workspace; `OfflineWorkspace` the
presenter's calls, the timers and the worker's messages. Rows of `Large`
recordings are read by a worker, the others at once.

### TimeGatedPower, TimeGatedRequests

`TimeGatedPower` is a pure algorithm: thresholds, `Hysteresis` (the search over
sorted ends of confirmed runs), the rules on runs one after the other, manual
overrides, events and the summary. Its references are `Detector`, which sees the
recording frame by frame, the rules themselves (`RulesHold`), monotonicity
(`StrongerIsNeverLost`), and the sums of events against the summary. Levels are
tenths of a dB and multiples of ten, so medians and percentiles are whole;
`Linear` may be any increasing function. `TimeGatedRequests` has the requests
with their worker, the session commands and the signals of `TaskWorker`.

### AnalysisWindow

The main window's part of the same analysis, with what lasts longer than a
request: the edits of which frames are active live in `window.overrides`, go into
the one display state of their session as runs of frames (`Runs`, `FromRuns`) when a
calculation answers or a workspace is saved, and from a workspace file into the next
program. One operator per method, from a window to the next, so that a command is
what it calls in order. `window.edits` is a history variable, what the user made of
the frames; where the code loses an edit (section 6) it follows the code, by name.

### ActivityLog

The handler of the log with its unbounded queue and its writer thread. A line of
the file is the sequence of what was written into it, so that a torn append and
the record that is then glued to it can be told; `emit`, `flush` and `close` are
as many steps as the writer may see. A program may end anywhere and the next one
starts from the file; a write may fail, which ends the thread.

### CalibrationProfiles, CalibrationService, CalibrationPresenter

`CalibrationProfiles` computes what a profile makes of a grid of frequencies: the
interpolation, the explicit range, extrapolation, the worst status of a grid, and
the bounded cache in front of it with the key the code hashes. The reference is
the line through the two points around a frequency, found without the searches
of the code, and the other implementation of the same function in `sdr_monitor`.
`CalibrationService` is the service of `sdr_monitor` behind its lock, the
presenter's pool of two threads and the versions on the disk; a saved version is
looked for and put in two steps. `CalibrationPresenter` is the workspace of the
analysis program, over files that the command line also changes.

### MonitorLive, MonitorSweep, MonitorDiagnostics

Three pages of `sdr_monitor`, each with its service, its presenter and the pool
whose threads call the service. A task is taken, run and answered in steps; the
answer is posted to the event queue of the GUI thread, but if the task has ended
before the GUI thread, which submits it, attached the callback, it is shown at
once and may overtake older ones (history variables `missed`, `overtaken`,
`overlapped` name those cases). `MonitorLive` has the receiver in memory or over
libiio, a pool of one thread and the discovery dialogs: `LiveIsTold` says that the
context held is that of the receiver selected (`ContextIsHeld`), that the page
shows the service (`ShownIsTrue`), that what was applied is a rate the receiver has
(`AppliedFits`). `MonitorSweep` plans in integers and has one cancel event that
`execute` clears as it begins; the cancel itself is a task of the pool of two:
`PlanCovers`, `CancelIsHeard`, `EndIsShown`. `MonitorDiagnostics` has the
`TaskSupervisor` with its two threads and its cancel event; the end of a task is
followed by a snapshot collected in the thread of the task and then posted.

Modules that only help: `MC*` give the constants their values; a run whose
constants are plain sets uses the component's module itself.
`MCBoundedQueue` (the queue, the diagnostic events), `MCNativeParts` (with the
diagnostics page), `MCSyntheticEngine` (with the sweep page), `MCServices`,
`MCHeatmap`, `MCRecords` and `MCDesktop` hold several parts that share no state, of which `part` chooses the one that moves; the others stay in their
first state, where nothing is owed. `*Proofs` and `QueueLemmas` hold the theorems (section 4). Definitions marked *Mutant* are never used by
a specification: each is a plausible slip in the operator that follows it, and
each property of each passing run is violated when its mutant replaces that
operator.

## 3. The runs

| Run | Instance | What it shows |
|---|---|---|
| `bounded_queue` | 2 producers, 2 consumers, a controller, capacity 1 and 2, all policies, 3 offers; diagnostic events: 2 emitting threads, 4 events, one queue place | counters exact (`Accounting`), order (`InOrder`), no lost wake-up (`NoLostWakeup`), stop is final (`StopIsFinal`), implements `LossyFifo` (`ImplementsLossyFifo`); a stop, an item or a free place releases who sleeps for it (`SleepersAreServed`); each event is counted once, none held back (`EventsAreDelivered`) |
| `native_parts` | 4 geometries, 4 blocks of 1, 2 or 5 samples, one odd; the same with a failure; 2 configures with 2 troubles; diagnostics page: 2 cases, a log of 1, 3 tasks | `WindowsAreExact` (no stitched window, every expected one); `FailoverIsExact`; `BlocksSayTheTruth`; `DiagnosticsAreTold` |
| `fixed_band_lifecycle` | 2 callers, calls configure, start, stop and disconnect in any order, 2 generations, 1 fault | `StateIsTrue` (workers only in a session, frames of the present configuration, errors latched, a stop is no error), `DisconnectIsTerminal`, `CallsReturn` |
| `fixed_band_data` | 1 caller, calls configure, start, request_stop, join, reconfigure and the polls, all policies, capacity 1 and 2, 4 blocks, a transient block, 1 fault | `BlocksConserved` (with: the pool suffices), `RefusalIsMarked` |
| `synthetic_engine` | 5 configurations, up to 3 blocks, 1 fault, stop at any moment; sweep page: a plan of one short segment and one of two, 5 commands | `NoBlockHidden` (balance, recorder misses nothing, a drain loses at most one), `FailureIsShown`, `NobodyIsStuck`; `SweepIsTold` |
| `services` | recording service: 3 policies, both `stop_on_overflow`, queues of 1 and 2, 4 blocks, 1 failure; monitor recording: 2 takes, 1 stop, 1 fault; sweep: 4 configurations of 0 to 3 segments, 2 runs, 1 fault | `NoBlockForgotten`; `CompletedIsWhole`; `SweepsAreTold` (the plan covers the band, what is reported is true); `CallsAndRunsEnd` (calls of the recording return, sweeps end) |
| `records` | one take: 2 blocks, a flush every 2, 6 commands, crashes, timeouts and faults in all, of each trouble one; two takes: 1 block each, 4 commands, 1 fault; log: 2 lines kept, 4 records, 1 flush, 1 end, 1 failure; calibration: 2 pool threads, 3 tasks, 1 end; 2 keys, 2 changes of files; 3 profiles, 4 grids, a cache of 2 | `ReplayableIsWhole`, `DurableBlocksSurvive`, `StatusIsTrue`, `NothingRunsForEver`; `FlushedIsKept`; `CalibrationIsSound` (versions are kept, what is saved was shown, levels corrected by their own profile) |
| `live` | either front end, 2 controllers, 2 starts, 1 frame, queue of 1 | `OnlyOwnIsShown`, `DeviceIsExclusive`, `SessionsEnd` |
| `heatmap` | 2 sessions, one untimed, 3 frames, window 2, chunk 1, 1 command, 2 moves, each failure once; 2 sessions, 2 requests, 2 switches; 4 frames, 3 levels and NaN, 2 timings, 11 configurations; main window: 2 recordings, one with 2 waterfalls, 3 frames, 5 commands, 1 failure | `LayerIsCurrent`, `RollingIsExact`, `Settles`; `RequestsAreServed`; `FiguresAreTrue` (they are those of the reference detector; an edit comes back; what is called calculated is of what is shown) |
| `desktop` | offline workspace: 2 recordings, one large, 2 frames, cache of 2, 1 command, 3 moves, 1 failure; live page: 2 receivers of which one tells its rates, 5 tasks, 1 waiting, 1 dialog | `PlaybackArrives` (playback goes forward and the target is reached); `LiveIsTold` |
| `recording_stop` | DropNewest, queue of 1 | finding: `ErrorsAreDelivered` is violated |
| `sweep_stitched` | a sweep of two segments | finding: `CompletedSegmentsAreStitched` is violated |

**Bounds.** Capacities 1 and 2 are the two that differ: one item is oldest and
newest at once, with two the policies evict different ones. Two threads on each
side of a queue are the fewest for a notification to reach the wrong one.
`MaxOffers` limits pushes that begin, so a queue of two can be full and overrun.
The lifecycle run has two callers, as the hazards are pairs of calls (start and
disconnect, stop and configure; `reconfigure` is a sequence of these), and generation 2 so that a second
configuration meets what the first left behind; data bounds are small there and
the data run, with one caller, has the larger ones. `SyntheticEngine` has one
caller: its calls serialise on the same kind of mutex and it has no disconnect.
One spontaneous fault may strike at any step, and the failures it causes (a
cancelled refill that throws, a worker that meets a closed queue) are no faults of
their own and not limited. Pools of 1 to 3 blocks with queues of 1 cover "smaller
than", "equal to" and "larger than what the queues take". In `native_parts` hops
divide the FFT size or not, blocks are shorter and longer than a window and than
the replay keeps, and an odd block may come at any place; two troubles are a
failed write and a failed rollback. Two blocks with a flush every second leave
one that is forced and one that is not; six commands and
troubles reach record, crash, recover, replay and record, stop, replay, pause, and
any two of a crash, a join that times out and a failed write meet in one take. The two takes are for the second start that comes while the first
recorder is still there, which needs configure, start, configure, start and no
trouble, replay or second block. Two takes, two sweeps, two sessions, two controllers are
the fewest of which one is old when the other is new. Three frames with a window
of two evict one; chunks of one frame let a cancel in between. Four frames hold
two bursts, a pause between them and a frame that is neither. Every value a
detection compares is met exactly by some level. Five commands of the main window
reach edit, calculate, save, end, open; three frames hold a run at either end or inside.

**Fairness.** The steps that finish a call already begun, and the steps of a
worker thread, are weakly fair: the operating system runs a runnable thread, and
no lock is held for ever; likewise Qt delivers posted messages and running timers
fire. Nobody is obliged to call: no command of a user or an owner is fair, and a
spurious wake-up is never relied on. `FixedBandEngine` also assumes that
`refill` returns, which the context timeout and `cancel` provide (the code sets
both); its callers are strongly fair, since the mutex they wait for is not held by one
thread for ever while another starves. `DiagnosticEvents` assumes an owner that polls for ever,
with batches of any size (`EventsFairness`), because `EventsAreDelivered` is a promise to
such an owner only; the application polls from a timer. For queues
the fairness is per thread: which sleeper `notify_one` wakes is left open. A
timeout is a step that may happen whenever a call waits, and never must.
`CHECK_DEADLOCK FALSE` is set where the system may rest: blocks, events, commands
or sessions are bounded, and everything may be stopped and joined.

## 4. The proofs

Each theorem holds for every value of the constants that the named assumptions
admit; TLC evaluates those on the runs. A bound on a counter (`MaxOffers`,
`MaxBlocks`, `MaxCommands`, ...) is in the guard of an action and no proof uses
it, so the results hold for any number of steps.

| Module | Theorem | Statement |
|---|---|---|
| `FixedBandEngineProofs` | `StateIsTrueCorrect`, `BlocksConservedCorrect`, `RefusalIsMarkedCorrect` | `Spec => []StateIsTrue`, ... |
| | `DisconnectIsTerminalCorrect` | `Spec => DisconnectIsTerminal` |
| `SyntheticEngineProofs` | `FailureIsShownCorrect`, `NoBlockHiddenCorrect` | `Spec => []FailureIsShown`, `[]NoBlockHidden` |
| | `SweepIsToldCorrect` | `SweepSpec => []SweepIsTold` (of `MonitorSweep`) |
| `RecordingServiceProofs` | `NoBlockForgottenCorrect` | `Spec => []NoBlockForgotten` |
| | `CompletedIsWholeCorrect` | `MonitorSpec => []CompletedIsWhole` |
| | `SweepsAreToldCorrect` | `SweepSpec => []SweepsAreTold` (of `WidebandSweep`) |
| `RecordingPresenterProofs` | `ReplayableIsWholeCorrect` | `Spec => []ReplayableIsWhole` |
| | `DurableBlocksSurviveCorrect` | `Spec => DurableBlocksSurvive` |
| | `StatusIsTrueCorrect` | `Spec => []StatusIsTrue` |
| | `FlushedIsKeptCorrect` | `LogSpec => []FlushedIsKept` |
| `ReceiverProofs` | `TypeCorrect`, `AccountingCorrect`, `InOrderCorrect` | `Spec => []TypeOK`, `[]Accounting`, `[]InOrder` (of `BoundedQueue`) |
| | `StopIsFinalCorrect` | `Spec => StopIsFinal` |
| | `NoLostWakeupCorrect` | `Spec => []NoLostWakeup` |
| | `RefinementCorrect` | `Spec => ImplementsLossyFifo` |
| | `BlocksSayTheTruthCorrect` | `DeviceSpec => []BlocksSayTheTruth` (of `PlutoDevice`) |
| | `EventConservationCorrect` | `EventsSpec => []EventConservation` (of `DiagnosticEvents`) |
| | `LiveIsToldCorrect` | `LiveSpec => []LiveIsTold` (of `MonitorLive`) |
| `HeatmapProofs` | `RollingIsExactCorrect` | `Spec => []RollingIsExact` |
| | `LayerIsCurrentCorrect` | `Spec => LayerIsCurrent` |
| `LiveApplicationProofs` | `DeviceIsExclusiveCorrect`, `OnlyOwnIsShownCorrect` | `Spec => []DeviceIsExclusive`, `[]OnlyOwnIsShown` |
| | `DiagnosticsAreToldCorrect` | `DiagnosticsSpec => []DiagnosticsAreTold` (of `MonitorDiagnostics`) |

`QueueLemmas` has what the modules about queues need of `QueueOps` (what a
push, a pop, a discard do to length, members and counters).

**BoundedQueue.** A queue record changes in one way per critical section, so
`StepCases` reduces `[Next]_vars` to `QueueStep`: a push, a pop, a stop, an
abandon, or no change of `queue` and `last`. For each property a lemma about the
pure operators (`PushAccounting`, `PopInOrder`, ...) carries it over one critical
section. `InOrder` needs no counters, `Accounting` needs types only. The
refinement needs all three: order makes the pending items distinct, so that the
set `Pending` has as many elements as the sequence (`PendingSize`) and its head
and last element are the oldest and newest (`Ends`); the accounting bounds the
length by the capacity, which decides between `Accept` and `Replace`/`Refuse`.
`NoLostWakeup` is not inductive: a waiter that sleeps on a condition that holds is
excused by a notification that some other thread owes or by a waiter already woken, so
the invariant counts the threads at each location against items and places, and
the lemmas say what one thread's move does to those cardinalities. *Assumptions*:
capacities are positive (the constructor refuses zero), the sets of threads finite.

**DiagnosticEvents.** The proof is in the same module. It is the safety half of
`EventsAreDelivered`; the other half is liveness. Every sequence number is in one place
(`InOnePlace`): in the hands of a thread, in the queue, in the slot, in the batch being
collected, or with the caller; so a step that moves a number cannot hand it over twice,
and `Changes` says by how much it changes each of the six counts, all in all by nothing.
A loss is a step in which the slot, or the event itself, goes to the counter.
*Assumption*: `EventsAssumption` (finitely many threads, a queue has a place).

**FixedBandEngine.** A thread's script is a chain of steps of which only
neighbours matter: `Proper` says which first steps a kind of thread may have,
`MayFollow` which step may come after which, and `Scripted` that every script is such
a chain, so that a step may be looked at without its history. On this stand
`Locking` (who holds the lifecycle mutex, by the place in the script), `Sessions`
(a worker exists only between start and join of its generation), `Disconnecting`,
`Stops`, `Errors`, `FramesAreTrue`, `Conserved` (a block delivered is in exactly one of
queue, hand, or counter, and occupies a place of the pool) and `Marked` (the loss
before a frame is at most its annotation). `IInv` is their conjunction; each has one
lemma per group of steps. *Assumptions*: callers are not the workers; capacity, calls and
bounds are what their types say.

**SyntheticEngine.** The same treatment of scripts (`Follows`); the invariants say who holds
the lifecycle lock, which session the workers belong to, which stop has which
reasons, where each block is (`flow`), and what a finite run may still have in hand
when the three depths are read zero one by one (`drain`). *Assumptions*: `CallersAssumption`,
`CallsAssumption`.

**RecordingService.** The blocks are numbered, and those on disk are older than
the one in the writer's hand, those older than the queued, those older than the
one being submitted. With that order the gap that the writer fills between two
blocks holds lost numbers only, and nothing else.

**MonitorRecording.** The proof is in the same module. A take that started when
nothing of an earlier one was left stays alone (`AloneIn`): its writer is the only
one, a call that waits, waits for it, and one call at most puts the sentinel. As long
as it has not failed its books balance (`Balanced`): published are the blocks in
the file, in the writer's hand, in the queue and in the drops, in this order, with
the sentinel last; until the sentinel is in, the writer loops (`Booked`). So a
writer that ended without a failure left its queue empty, which is what `stop()`
finds when it reports COMPLETED. That its file holds no block back then, and is closed, is
kept for takes whose flush and close did not fail, and the final name for those whose
rename did not. *Assumption*: `TakesAssumption`.

**WidebandSweep.** The proof is in the same module. The planner is arithmetic: the
count is the least number of strides that reaches the end of the span
(`CeilingFits`), so every configuration that has a plan has one that covers its span and
can spare no segment (`PlanFits`); that a segment is cropped at its ends and at its DC
window only needs an even width, for its half is subtracted from the centre
(`CropsReachTheEnds`). A worker touches one run and one engine, so `RunFits` relates
the two: in its loop a run has completed results of all earlier segments, and what it says of
the restoration is so of the engine. `ThreadIsLast` says that only the last run can
have a worker that has not published its end, so what is shown is told by it
(`StatusIsTold`). Of fairness nothing is used. *Assumptions*, stated in the
theorem: the number of runs is a natural number; `SweepInputsFit`, which is what
`SweepConfig.__post_init__` and `SweepPlannerOptions` refuse to violate (the span is not
empty, no width is negative), with an even width, for frequencies are in units that
make every centre an integer.

**RecordingFiles, RecordingPresenter.** A call on the files is one of four programs
of effects (`OpeningProgram`, `ForcingProgram`, `FinalProgram`, `RecoverProgram`), and
`Opening(f, k)`, `Forcing(f, k)`, `Finalizing(f, k)`, `Recovering(f, k)` say what holds
of the files before effect k: which have moved, what has been forced, what the metadata
say. A crash may come anywhere, so what all of these places share is stated apart
(`Sound`): the metadata claim no more than was forced, files are opened and moved
in one order with the metadata last, and metadata under the final name are only found
with all files sealed. `Effect` leads from one place to the next, never lowers
`Whole` (the blocks that are forced with their line), and what a crash leaves is
sound and has no fewer. The workspace adds that a service that runs has an open
writer, and that the GUI thread works for one target (`ServicesWrite`). For what the
workspace shows, `StatusInv` follows the recorder through its places (`True`): in its
loop, and in `stop()` until the thread has been joined (`Stops`), it has a running service,
then the service has failed or the
finalization goes on or is done (`Ends`), and at the report the error is set or the
final name is there. This holds of a recorder that is alone and stops its own service
(`OneRecorder`), which is where `overlap` comes from; and no step but a crash takes
an end, a failure or a file back (`Lasting`). *Assumptions*:
`FlushAssumption` (a positive interval), `PresenterAssumption`.

**ActivityLog.** The proof is in the same module (`LogInv`). The property speaks
of flushed records and the file only; what makes it last is the memory, which the next
rewrite puts in the file's place, and the queue, behind which every request comes. So
the invariant orders the queue by the records' numbers (`QueueInOrder`), has what the
thread works on before all that waits (`AtWork`), and says that everything the thread
took is held in memory, and in the file as well unless it is dirty or the line is just
being appended (`AllHeld`): when a flush is answered, all records before it are
taken and nothing is dirty. `Sizes` leaves room in the file for the line being
appended, so that an append, torn or whole, pushes nothing out and the next start
reads all of it; a line goes only when `Newest` drops it, and then `NewestKeeps`
shows that newer ones have its place. *Assumption*: `KeptAssumption` (the constructor
refuses a size below 1).

**PlutoDevice.** `DeviceInv` adds to the property that a device which calls itself
configured believes of the radio what is so (`Believed`), and that blocks of the
present generation were received under settings the radio still has (`Present`). The
rollback is the hard case: it succeeds only if the radio has its old settings again
(`RollbackIsVerified`). No assumption on constants.

**MonitorLive.** The proof is in the same module. The page at rest shows the last
answer, so the invariant says what the last answer is before it is shown: `Told` has
three places for it, the answer that waits for its callback, the last snapshot in the
event queue, or the page itself, and `missed` names the two ways in which it gets
lost or is overtaken. `EndsAlone` says that an answer waits for its callback only
while no task is left, so that no second one can come between. That a context held
is not lost needs that a receiver over libiio is never stopped: a page that has never
shown RUNNING never asks for it (`NothingRuns`). The nearest rate exists because a set
of numbers that is not empty has a least element (`Least`). *Assumption*:
`LivePageAssumption` (the lists of rates are not empty, which `_representative_rates`
takes care of, and nothing is not a receiver, a rate or an answer).

**LiveApplication.** A worker changes only its own controller (`OwnChange`); the
workspace's own controller is the last one made and the only one not closed, and a
closed one that still has a worker is one whose close gave up waiting (`OwnIsLast`,
`OthersAreClosed`), so two workers in the device need such a close. The generation
that the presenter expects is its controller's (`OwnIsLast`), so an update of an earlier
start never makes a snapshot. For the main
window a waterfall holds what its own controller sent. *Assumption*: `LiveAssumption`.

**MonitorDiagnostics.** The proof is in the same module; the two programs share no
variable. What a callback finds when it is attached is the answer of its own task and
the only one, which needs that a task is in one place, the pool before the threads in
order of submission (`DxInOrder`, `DxAttached`). While the page cannot run the tests,
something is under way that says otherwise at its end (`DxCanTest`). Errors are
counted where they are: in the signals, in the answer that waits, in the list up to
its capacity (`DxCounted`); the identifiers, which come again once the list is full,
play no part. That the page shows what is kept holds of tasks that nothing overlaps, so
`DxAlone` follows one through its five stages, in the pool, in a thread, in the refresh,
answered before its callback, or told, and says what is in the event queue in each.
*Assumption*: the capacity of the list is a natural number, stated in the theorem.

**MonitorSweep.** The proof is in the module of `SyntheticEngine`, with which it shares
nothing. The planner is a closed form: the count is the least number of steps that
reaches the end (`CeilDivFits`), so the segment before the last ends short of it and
the last one does not (`SegmentsFit`); that gives `PlanCovers` for every
configuration. `CancelIsHeard` needs that a thread which is to be cancelled finds the
event set, and that a sweep is never behind its last segment (`SwInOrder`).
`EndIsShown` speaks of the end only; before it, a button that is not free has
something under way that frees it (`SwCanPlan`), and one that is offered has a sweep
that runs or an end that waits for its callback, unless the queue holds what takes
the offer back (`SwCancels`). An answer that is shown at once breaks the second when
older signals wait, which is what `overtaken` excludes. *Assumption*: `SweepConfigsFit`,
stated in the theorem: the span is not empty and the overlap is below a half
(`SweepConfiguration.__post_init__`; the form stops at 49 %), and a mode is at least two
units of 100 kHz wide (`_MODE_PARAMETERS`), so that a step is at least one.

**HeatmapController, HeatmapPresenter.** A handler of the GUI thread makes several
calls of the controller, so the invariant `Fits(c, h, b)` is about any controller,
accumulators and messages, and each method has a lemma that it keeps it. The heart is
arithmetic: a batch that follows the window it enters, and fits the ring, leaves the
window of its end (`WindowMoves`); the guard of the ring is needed, a batch longer than
the window would fail it. Around it, `ReadersFit` says that a reader inside a batch
starts where its accumulator ends and is alone with it, unless the accumulator is
marked as shared. That a generation gets one accumulator is not local: it needs that
of its rebuild there is one ticket, one job or one result, that no reader or snapshot of
the generation is before it (`Once`), that the messages of the one job are in order and
before its end (`JobInOrder`), that a message of an earlier generation has its number
(`MessageFits`), and that a reader ends once (`EndsOnce`). `Applies` is the action part of
`LayerIsCurrent`, and `Shows` ties the layer to the session through activation, removal
and the render timer. Of fairness nothing is used. *Assumptions*: `HeatmapAssumption` (a
window has a frame, a batch has one and is at most a window, `None` is neither a source,
a number nor a task), `OpenedAssumption`.

**Only model-checked.**

- Liveness, and everything that speaks of ENABLED or fairness, is out of the
  prover's reach: `SleepersAreServed`, `CallsReturn`, `NobodyIsStuck`,
  `CallsAndRunsEnd`, `NothingRunsForEver`, `SessionsEnd`, `Settles`,
  `RequestsAreServed`, `PlaybackArrives`, and the second half of
  `EventsAreDelivered`.
- What a recursive function or a fold computes for every input needs induction over
  data, which is out of reach too: `WindowsAreExact` and `FailoverIsExact` (the
  sample loop), `FiguresAreTrue` (the search for bursts), the interpolation in
  `CalibrationIsSound`.

## 5. Where code and documentation disagree

Two are the single property of a run that TLC violates; `PROJECT.json` quotes
the text.

1. `ErrorsAreDelivered` (`esw_dfl/sdr/recording.py:1274`): a worker that fails
   after `stop()` found it healthy leaves a full queue, and `stop()` waits for
   ever to put its `None`. `CallsReturn`, a conjunct of `CallsAndRunsEnd`, states that
   this is the only such case; `NothingRunsForEver` excepts it as `Stranded`.
2. `CompletedSegmentsAreStitched` (`esw_dfl/sdr/stitching.py:288`): each segment
   of a sweep is a configuration of its own and gets a generation of its own
   (`pluto_device_windows.cpp:370`), and the stitching refuses to mix two. The
   fake service of the tests keeps one.

The others came up in the same way; each is stated in a model as an exception of
a property that holds, or can be read off the lines.

3. Fixed-band engine, `fixed_band_engine.cpp:663` against `ARCHITECTURE.md:386-388`:
   under DropOldest and LatestWins the eviction is counted after the queue
   operation, so the frame after the gap may be published without the loss. With
   Block and DropNewest, the default, it cannot: `RefusalIsMarked`.
4. CPU backend, `cpu_dsp_backend.cpp:377` against `test_cpu_dsp_backend.cpp:671-674`
   and `CHANGELOG.md:177`: the flags of a window are those of the block that
   completes it; clipping, by contrast, is tracked over the whole window.
5. Synthetic engine, `engine.cpp:550` against `ARCHITECTURE.md:203-204`: on a
   recorder overflow that stops the engine the mover leaves with a block no
   counter shows. `NoBlockHidden` states the balance with exactly this exception.
6. Frame navigation, `frame_navigation.py:601` against `ARCHITECTURE.md:398`: only
   generation and frame are compared, so after a switch to a session with an equal
   target the frame of the session left is drawn over the active one.
7. Heatmap, `heatmap_persistence_controller.py:1279` and `:446`: after a seek during
   playback two readers may work on one accumulator; `RollingIsExact` speaks of those
   that were never given to two (`shared`). A pending render of an older generation overwrites
   a newer layer despite `ARCHITECTURE.md:133`.
8. Channel power, `offline_presenter.py:145`: a request for the current frame builds a
   series of one row, of which `summarize` selects the frame by its number in the
   recording, so every frame but the first gives an empty LIMITED result, though the
   comment at `gui.py:248-250` and `test_ui_requirements.py:596` expect its figures.
9. Sweep: when `request_stop()` of the restore after a failed retune raises,
   `restored` is False, contrary to `tests/test_p12_sweep.py`.
10. sdr_monitor, `sweep_presenter.py:14`: "cancel gets its own worker lane" says the
    docstring; cancel is a task of the same pool of two and waits behind two sweeps.

## 6. What the models showed besides

Behaviour of the code that is allowed by the models, excepted by name in the
properties, and worth a reader's attention. None contradicts a sentence of the
repository.

- *Failover.* A trimmed replay may shift the hop grid without a mark; `reset()`
  clears `fallback_pending`; after a discontinuity the block in hand is lost; the
  child's dropped FFT frames are not added to the wrapper's metrics.
- *Pluto.* A configure that is rolled back, or fails early, leaves a running stream
  stopped while the state says configured; the reads of the old values (351-356)
  stand outside the try; gain is not restored in automatic mode.
- *Recording service.* With two clients a submit may end behind the `None`, and
  DROP_OLDEST may take it (`recording.py:1141`); the samples of a dropped block are
  counted in `gap_samples` twice (`:427`).
- *Recording workspace.* A torn last index line makes recover raise; a crash between
  the renames of finalize leaves a set that is neither partial nor complete;
  `configure()` is unguarded while RUNNING (`recording_presenter.py:232`); both
  halves share `_last_error`, so that opening or playing another recording wipes the
  error of one that runs or has ended (`masked`); STOPPING becomes COMPLETED even when
  `service.stop` raised, and after a close whose join timed out; a `stop()` of the
  service that is stranded (section 5, 1) waits for ever with the lock held, so does
  `close()` behind it, and the status stays as it is (`Stranded`); `play()` makes the state PLAYING
  and starts nothing while the thread of the playback before is still alive, though that
  thread may have looked at the state for the last time (`unheard`); the position counts blocks where the total counts
  samples; `recover_partial` does not look for a live writer. A second start while the
  recorder of the first is still there (while STOPPING, or after `configure()` in
  RUNNING) clears the stop event they share and takes the place of the first service:
  the old recorder goes on, submits to and stops the service of the new one, and its own
  is never stopped (`overlap`).
- *Monitor recording.* The end marker may never be enqueued
  (`recording_session.py:164`); after STOP_TIMEOUT nothing renames the `.part` file;
  a start while the old writer lives mixes two takes in one file, and the late end of
  the old one overwrites the state of the new; a failed header write leaves RECORDING
  without a writer and then COMPLETED; restarting on the same path truncates; COMPLETED
  is stored before `os.replace` (`:190`), so a failed rename leaves it with a `.part` file
  (`unrenamed`); nothing catches an error of the last `flush()` and `close()` (`:238`), so
  COMPLETED may be said of a file that lacks blocks it counts (`unclosed`); `busy(False)` of one task enables Start
  while another runs.
- *Sweep.* A progress report overwrites CANCELLING with RUNNING; a new run may start
  while the old service disconnects, and the old worker then clears the new one's
  `_service`; FAILED after a close that timed out is overwritten later.
- *Live.* `gui.py:1155` reads `state.applied_config`, which the render state does not
  have; a stop during configure is overwritten by RUNNING and ends all the same; a
  start right after STOPPED may be refused; the legacy adapter never restarts a stopped
  source; closing without waiting lets two sessions meet at the device.
- *Heatmap.* After a seek whose rebuild is pending, failed or cancelled, forward
  playback reads over a stale accumulator; `request_fixed` bumps the generation
  without stopping the stream; `invalidate_session` of another session leaves the phase
  where it was (`RemoveOthers` is FALSE in the run); a target published between a
  reader's failure and its end is lost; activating the active session clears the layer
  while the phase stays CURRENT; a stop of playback over a fixed range alone ends the
  reader and moves the generation, and then the assertion of `_make_rebuild_ticket`
  (`heatmap_persistence_controller.py:1310`) raises (`StopRaised`, which `Settles` excepts).
- *Offline workspace.* After a switch with equal target the new session's frame is
  dropped as a duplicate while the timer runs on; `set_displayed_frame` sets SETTLING
  so that `_enter_settle` never starts its timer; a read of a closed session can wedge
  the loader (`frame_navigation.py:225`, `Wedged`); late `_preview_loaded` of a removed
  session raises KeyError; two loads of one path make two sessions; playback goes on
  through session switches.
- *Channel power.* Without hysteresis a level on the threshold is on and off at once;
  the duration of a run of one frame is the usual step, of two frames the difference of
  their times, so with irregular times a longer run may count as shorter (hence
  `Regular`); overrides go by row; events cover the whole recording even for a time
  range. A recording loaded while a request runs switches sessions and its answer is
  discarded; results of removed sessions stay.
- *Main window.* An edit whose calculation is outstanding is lost when its session is
  selected again or its preview arrives. A session has one display state: a calculation
  on another waterfall, or saving the workspace before the preview was read, erases the
  saved edits of the waterfall not shown, in the file too. `clear_channel_power_tools`
  leaves the display state, so cleared edits come back. The buttons for the band, and
  crossed ends, change the band while the status still says calculated. A switch to a
  session without an index leaves the figures and status of the old one, and a queued
  request of a session left is dropped with the status "queued". Opening a workspace
  ignores its state for files already open, and never reads its `active_session_id`.
  Edits are applied by row even when the source changed. A late `_preview_loaded` or
  `_analysis_ready` of a removed session raises KeyError.
- *Activity log.* The GUI and the command line share one file and each rewrites it from
  its own memory, so one can overwrite the other's lines (one program is modelled); a
  failed write ends the writer silently and `flush()` then returns at once; after a torn
  line the next record is glued to it.
- *Pages of sdr_monitor.* After a failed select an apply already queued makes the
  state CONNECTED without a device; closing the window never disconnects the native
  device; the list of rates goes back to its first entry with every device; Space
  ignores `busy`. A margin of more than half a segment inverts its usable range; the
  clear of a second `execute` loses a cancel, and an `execute` taken before the close
  clears the event of the close. A new diagnostics task clears the cancel of the one
  before; ids of errors come again once the list was trimmed; two tasks that overlap may
  leave the older snapshot on the page.
- *Calibration.* Two programs saving one version at once look and then replace without
  a lock (one is modelled); the same import seconds later is refused, as `created_at` is
  part of the fingerprint; a finalized import is announced as the active profile though
  nothing was activated, and a change of settings that deactivates one is not; lists may be
  shown out of order by the pool of two; the analysis workspace keeps its active key after
  a change of settings or a failed refresh; one unreadable file hides every profile there,
  and is skipped in `sdr_monitor`.

## 7. What is not modelled

Whole parts (`not_modelled` in `PROJECT.json`), and why:

- *CUDA backend*: the contract of the CPU backend, over kernels and driver calls.
- *Numeric helpers* (FFT, windows, persistence, native calibration, smoothing, masks,
  power and bandwidth measurements, heatmap images): floating point without a protocol.
- *Contracts, bindings, command lines, stored settings*: checks and conversions of single values.
- *SGRAM decoder, DFL parsing, exports*: sequential reading and writing of formats.
- *Replay service and profile store of sdr_monitor*: thin executors over files.
- *Widgets*: they draw snapshots on the GUI thread; the presenters and windows that
  keep state and start work are modelled.

Of the modelled parts, the `note` of each component in `PROJECT.json` names what is left out.
What matters most: several clients of one recording service; the spectrum
writer, whose effects have the order of those of the I/Q writer; allocation failures in the
native workers; two programs over one log or one calibration store; the persistence queue of
the fixed-band engine; power bins and windows in seconds of the heatmap; markers and measurements
other than channel power. The operating system is modelled by what the code relies on: mutexes,
condition variables, `queue.Queue`, Qt's event queue, files whose unforced part a crash may lose.

## 8. Plan

Done: every component of the table in section 1 with a module, and the proofs of
section 4. What is left is models: replay of `sdr_monitor`, and two programs at once
over the log and the calibration store.
