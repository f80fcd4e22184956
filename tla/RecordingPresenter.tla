-------------------------- MODULE RecordingPresenter --------------------------
(***************************************************************************)
(* The recording and replay workspace of esw_dfl                           *)
(* (esw_dfl/ui/recording_presenter.py) on top of the files of its          *)
(* recordings.                                                             *)
(*                                                                         *)
(* The GUI thread runs the presenter's calls; a recorder thread per        *)
(* recording submits blocks to its RecordingService, whose own thread      *)
(* writes them; a replay thread reads a finished recording.  A section     *)
(* under _lock is a step, so is each effect on the disk.  A service is     *)
(* named by its target: a target is recorded at most once.  stop() of a    *)
(* service is three steps: under the condition it looks at the error and   *)
(* may empty the queue; still under it, it puts None; then it joins.       *)
(* Module RecordingService has the other policies and the counters.        *)
(***************************************************************************)
EXTENDS RecordingFiles

CONSTANTS Targets,  \* output paths
          NoTarget,
          Capacity, \* queue_capacity
          MaxBlocks, MaxCommands, MaxCrashes, MaxTimeouts, MaxFaults \* bounds

ASSUME PresenterAssumption ==
  /\ NoTarget \notin Targets /\ Capacity \in Nat \ {0}
  /\ {MaxBlocks, MaxCommands, MaxCrashes, MaxTimeouts, MaxFaults} \subseteq Nat

VARIABLES
  ui,       \* [recording, setup, service, thread, stop, error]: fields of the presenter
  gui,      \* [at, then, target]: what the GUI thread waits for, and what it does after
  service,  \* target -> [running, failed, stop, ended, queue, skip]: failed: _error, stop: _stop,
            \* ended: the thread took None, skip: the next block follows a gap
  recorder, \* target -> [at, offered, final, wasRunning, service]: _record_worker
  replay,   \* [state, target, cancel, pause, at, reads, count]: and _replay_worker;
            \* unheard: history, no thread of this playback heard the last play()
  files,    \* target -> the files of its recording
  masked,   \* history: the replay half wiped an error of a recording that runs or has ended
  overlap,  \* history: a recording was started when the recorder before had not ended
  spent     \* history: [commands, crashes, timeouts, faults]

vars == <<ui, gui, service, recorder, replay, files, masked, overlap, spent>>

Spend(what) ==
  LET bound == [commands |-> MaxCommands, crashes |-> MaxCrashes,
                timeouts |-> MaxTimeouts, faults |-> MaxFaults]
  IN spent[what] < bound[what] /\ spent' = [spent EXCEPT ![what] = @ + 1]

Wait(at, then, target) == gui' = [at |-> at, then |-> then, target |-> target]
Command == gui.at = "idle" /\ Spend("commands")

Recording == \E t \in Targets : recorder[t].at \notin {"none", "ended"}

(* Both halves share _last_error.                                          *)
SetError(value) ==
  /\ ui' = [ui EXCEPT !.error = value]
  /\ masked' = (masked \/ (/\ ui.error /\ ~value
                           /\ ui.recording \in {"running", "stopping", "completed"}))

-----------------------------------------------------------------------------
(* Recording: the calls of the GUI thread                                  *)

Configure ==
  /\ Command
  /\ \E t \in Targets :
       ui' = [ui EXCEPT !.setup = t, !.recording = "configured", !.error = FALSE]
  /\ UNCHANGED <<gui, service, recorder, replay, files, masked, overlap>>

(* The writer's files are created in the foreground; too little space, or  *)
(* a target that exists, is an error of the call.                          *)
StartRecording ==
  /\ Command
  /\ ui.recording # "running" /\ ui.setup # NoTarget
  /\ \/ /\ Free(files[ui.setup])
        /\ files' = [files EXCEPT ![ui.setup] = StartWriter(@)]
        /\ Wait("starting", "idle", ui.setup)
        /\ UNCHANGED ui
     \/ /\ ui' = [ui EXCEPT !.recording = "failed", !.error = TRUE]
        /\ UNCHANGED <<files, gui>>
  /\ UNCHANGED <<service, recorder, replay, masked, overlap>>

RecordingStarts ==
  /\ gui.at = "starting" /\ Idle(files[gui.target])
  /\ service' = [service EXCEPT ![gui.target].running = TRUE]
  /\ recorder' = [recorder EXCEPT ![gui.target].at = "loop"]
  /\ ui' = [ui EXCEPT !.service = gui.target, !.thread = gui.target, !.stop = FALSE,
                      !.recording = "running", !.error = FALSE]
  /\ Wait("idle", "idle", NoTarget)
  /\ overlap' = (overlap \/ Recording)
  /\ UNCHANGED <<replay, files, masked, spent>>

Stopping(u) == IF u.recording = "running" THEN [u EXCEPT !.recording = "stopping", !.stop = TRUE] ELSE u

StopRecording ==
  /\ Command
  /\ ui.recording = "running"
  /\ ui' = Stopping(ui)
  /\ UNCHANGED <<gui, service, recorder, replay, files, masked, overlap>>

(* recover_partial: called after a crash or an abort.                      *)
RecoverPartial ==
  /\ Command
  /\ \E t \in Targets :
       /\ Idle(files[t]) /\ ~files[t].open /\ ~service[t].running
       /\ files' = [files EXCEPT ![t] = Recover(@)]
       /\ Wait("recovering", "idle", t)
  /\ UNCHANGED <<ui, service, recorder, replay, masked, overlap>>

Recovered ==
  /\ gui.at = "recovering" /\ Idle(files[gui.target])
  /\ SetError(files[gui.target].failed)
  /\ Wait("idle", "idle", NoTarget)
  /\ UNCHANGED <<service, recorder, replay, files, spent, overlap>>

-----------------------------------------------------------------------------
(* Recording: the threads                                                  *)

GoTo(t, at) == recorder' = [recorder EXCEPT ![t].at = at]

(* The stop event, a service taken away, or the duration has elapsed.      *)
Leave(t) ==
  /\ recorder[t].at = "loop"
  /\ GoTo(t, "finally")
  /\ UNCHANGED <<ui, gui, service, replay, files, masked, spent, overlap>>

(* An item of the queue is the number of gaps before a block, or None.     *)
None == 2
Blocks(q) == Cardinality({i \in DOMAIN q : q[i] # None})

(* The condition is held by a stop() that has not put its None.            *)
Locked(s) ==
  \/ \E t \in Targets : recorder[t].at = "put" /\ recorder[t].service = s
  \/ gui.at = "cancelPut" /\ gui.target = s

Accepts(s) == service[s].running /\ ~service[s].failed /\ ~service[s].stop

(* submit_iq to the service of the moment: one that failed, is stopping or *)
(* does not run raises; a full queue drops the block and marks the gap     *)
(* once the writer is free (DROP_NEWEST, the presenter's policy).          *)
Submit(t) ==
  LET s == ui.service
      offer == [recorder EXCEPT ![t].offered = @ + 1]
  IN /\ recorder[t].at = "loop" /\ ~ui.stop /\ s # NoTarget /\ ~Locked(s)
     /\ recorder[t].offered < MaxBlocks
     /\ \/ /\ ~Accepts(s)
           /\ recorder' = [offer EXCEPT ![t].at = "finally", ![t].final = FALSE]
           /\ ui' = [ui EXCEPT !.error = TRUE, !.recording = "failed"]
           /\ UNCHANGED <<service, files>>
        \/ /\ Accepts(s) /\ Len(service[s].queue) < Capacity
           /\ service' = [service EXCEPT
                ![s].queue = Append(@, IF service[s].skip THEN 1 ELSE 0), ![s].skip = FALSE]
           /\ recorder' = offer
           /\ UNCHANGED <<ui, files>>
        \/ /\ Accepts(s) /\ Len(service[s].queue) = Capacity
           /\ Idle(files[s])
           /\ files' = [files EXCEPT ![s].gaps = @ + 1]
           /\ service' = [service EXCEPT ![s].skip = TRUE]
           /\ recorder' = offer
           /\ UNCHANGED ui
     /\ UNCHANGED <<gui, replay, masked, spent, overlap>>

(* The service's thread, with the item it takes next.                      *)
Takes(s) ==
  /\ service[s].running /\ ~service[s].failed /\ ~service[s].ended
  /\ service[s].queue # <<>> /\ Idle(files[s])

Write(s) ==
  /\ Takes(s) /\ Head(service[s].queue) # None
  /\ service' = [service EXCEPT ![s].queue = Tail(@)]
  /\ files' = [files EXCEPT ![s] = WriteBlock(@, Head(service[s].queue))]
  /\ UNCHANGED <<ui, gui, recorder, replay, masked, spent, overlap>>

WriterEnds(s) ==
  /\ Takes(s) /\ Head(service[s].queue) = None
  /\ service' = [service EXCEPT ![s].queue = Tail(@), ![s].ended = TRUE]
  /\ UNCHANGED <<ui, gui, recorder, replay, files, masked, spent, overlap>>

WriteFails(s) ==
  /\ Takes(s) /\ Head(service[s].queue) # None
  /\ Spend("faults")
  /\ service' = [service EXCEPT ![s].queue = Tail(@), ![s].failed = TRUE]
  /\ \E f \in FailedWrites(files[s]) : files' = [files EXCEPT ![s] = f]
  /\ UNCHANGED <<ui, gui, recorder, replay, masked, overlap>>

(* An fsync of write_block, or its writing of the metadata, raises.        *)
ForcingFails(s) ==
  /\ service[s].running /\ ~service[s].failed /\ ~service[s].ended /\ ~Idle(files[s])
  /\ Spend("faults")
  /\ service' = [service EXCEPT ![s].failed = TRUE]
  /\ files' = [files EXCEPT ![s].todo = <<>>]
  /\ UNCHANGED <<ui, gui, recorder, replay, masked, overlap>>

(* An effect of the call that is running on the files of t.                *)
DiskEffect(t) ==
  /\ ~Idle(files[t])
  /\ files' = [files EXCEPT ![t] = Effect(@)]
  /\ UNCHANGED <<ui, gui, service, recorder, replay, masked, spent, overlap>>

(* Mutant: a recorder that failed leaves its service as it is.             *)
FinallyOnSuccess(t) ==
  /\ recorder[t].at = "finally"
  /\ recorder' = [recorder EXCEPT
       ![t].service = ui.service,
       ![t].wasRunning = ui.recording \in {"running", "stopping"},
       ![t].at = IF ui.service = NoTarget \/ ~recorder[t].final THEN "report" ELSE "stop"]
  /\ UNCHANGED <<ui, gui, service, replay, files, masked, spent, overlap>>

Finally(t) ==
  /\ recorder[t].at = "finally"
  /\ recorder' = [recorder EXCEPT
       ![t].service = ui.service,
       ![t].wasRunning = ui.recording \in {"running", "stopping"},
       ![t].at = IF ui.service = NoTarget THEN "report" ELSE "stop"]
  /\ UNCHANGED <<ui, gui, service, replay, files, masked, spent, overlap>>

(* RecordingService.stop, in three steps.  Under the condition: what a     *)
(* failed or cancelled service still has in its queue becomes gaps.        *)
Looks(s, final) ==
  /\ ~Locked(s) /\ service[s].running
  /\ IF final /\ ~service[s].failed THEN UNCHANGED <<service, files>>
     ELSE /\ Idle(files[s])
          /\ files' = [files EXCEPT ![s].gaps = @ + Blocks(service[s].queue)]
          /\ service' = [service EXCEPT ![s].queue = <<>>, ![s].stop = TRUE]

(* put(None), which has no timeout, then the condition is let go.          *)
PutsNone(s) ==
  /\ Len(service[s].queue) < Capacity
  /\ service' = [service EXCEPT ![s].queue = Append(@, None)]
  /\ UNCHANGED files

(* The writer's last call, once the thread has ended; only one that stops  *)
(* the service makes it.                                                   *)
LastCall(f, v, final) ==
  IF ~v.running THEN f ELSE IF final /\ ~v.failed THEN Finalize(f) ELSE Abort(f)

Joins(s, final) ==
  /\ service[s].ended \/ service[s].failed
  /\ Idle(files[s])
  /\ service' = [service EXCEPT ![s].running = FALSE]
  /\ files' = [files EXCEPT ![s] = LastCall(@, service[s], final)]

(* The recorder stops its service; one that does not run answers at once.  *)
StopService(t) ==
  LET s == recorder[t].service
  IN /\ recorder[t].at = "stop"
     /\ \/ /\ ~Locked(s) /\ ~service[s].running
           /\ GoTo(t, "report") /\ UNCHANGED <<service, files>>
        \/ Looks(s, recorder[t].final) /\ GoTo(t, "put")
     /\ UNCHANGED <<ui, gui, replay, masked, spent, overlap>>

StopGoesOn(t) ==
  LET s == recorder[t].service
  IN /\ \/ recorder[t].at = "put" /\ PutsNone(s) /\ GoTo(t, "join")
        \/ recorder[t].at = "join" /\ Joins(s, recorder[t].final) /\ GoTo(t, "stopping")
     /\ UNCHANGED <<ui, gui, replay, masked, spent, overlap>>

(* Mutant: the exception of stop() is swallowed.                           *)
StopReturnsQuietly(t) ==
  /\ recorder[t].at = "stopping" /\ Idle(files[recorder[t].service])
  /\ GoTo(t, "report")
  /\ UNCHANGED <<ui, gui, service, replay, files, masked, spent, overlap>>

StopReturns(t) ==
  /\ recorder[t].at = "stopping" /\ Idle(files[recorder[t].service])
  /\ ui' = [ui EXCEPT !.error = @ \/ service[recorder[t].service].failed]
  /\ GoTo(t, "report")
  /\ UNCHANGED <<gui, service, replay, files, masked, spent, overlap>>

Report(t) ==
  /\ recorder[t].at = "report"
  /\ ui' = [ui EXCEPT !.recording =
       IF @ = "running" THEN IF ui.error THEN "failed" ELSE "completed"
       ELSE IF recorder[t].wasRunning /\ @ = "stopping" THEN "completed" ELSE @]
  /\ GoTo(t, "ended")
  /\ UNCHANGED <<gui, service, replay, files, masked, spent, overlap>>

-----------------------------------------------------------------------------
(* Replay: the calls of the GUI thread                                     *)

(* stop_replay: the thread is told to end and waited for, two seconds at   *)
(* most.                                                                   *)
CancelReplay == replay' = [replay EXCEPT !.cancel = TRUE, !.pause = FALSE]

StopReplay ==
  /\ Command
  /\ CancelReplay
  /\ Wait("joinReplay", "idle", NoTarget)
  /\ UNCHANGED <<ui, service, recorder, files, masked, overlap>>

OpenReplay ==
  /\ Command
  /\ CancelReplay
  /\ \E t \in Targets : Wait("joinReplay", "open", t)
  /\ UNCHANGED <<ui, service, recorder, files, masked, overlap>>

Joined(ended) == IF ended THEN UNCHANGED spent ELSE Spend("timeouts")

JoinReplay ==
  /\ gui.at = "joinReplay"
  /\ Joined(replay.at = "none")
  /\ replay' = [replay EXCEPT !.state = IF @ \in {"playing", "paused"} THEN "loaded" ELSE @]
  /\ gui' = [gui EXCEPT !.at = gui.then]
  /\ UNCHANGED <<ui, service, recorder, files, masked, overlap>>

(* The end of open_replay: only the final names are opened.                *)
Open ==
  /\ gui.at = "open"
  /\ IF CanOpen(files[gui.target])
       THEN replay' = [replay EXCEPT !.state = "loaded", !.target = gui.target] /\ SetError(FALSE)
       ELSE replay' = [replay EXCEPT !.state = "failed"] /\ SetError(TRUE)
  /\ Wait("idle", "idle", NoTarget)
  /\ UNCHANGED <<service, recorder, files, spent, overlap>>

(* A thread that has looked at the state for the last time is not told.    *)
Resume ==
  replay' = [replay EXCEPT !.state = "playing", !.pause = FALSE,
                           !.unheard = @ \/ replay.at \in {"done", "none"}]

(* A thread that has not ended yet is not replaced, and not told anything. *)
Play ==
  /\ Command
  /\ \/ replay.state = "paused" /\ Resume /\ UNCHANGED <<ui, masked>>
     \/ /\ replay.state \in {"loaded", "finished"}
        /\ replay' = IF replay.at # "none" THEN [replay EXCEPT !.state = "playing", !.unheard = TRUE]
                     ELSE [replay EXCEPT !.state = "playing", !.cancel = FALSE, !.pause = FALSE,
                                         !.at = "read", !.reads = replay.target, !.count = 0,
                                         !.unheard = FALSE]
        /\ SetError(FALSE)
  /\ UNCHANGED <<gui, service, recorder, files, overlap>>

Pause ==
  /\ Command
  /\ replay.state = "playing"
  /\ replay' = [replay EXCEPT !.state = "paused", !.pause = TRUE]
  /\ UNCHANGED <<ui, gui, service, recorder, files, masked, overlap>>

(* reprocess_iq runs in the calling thread; the native module may be       *)
(* missing.                                                                *)
Reprocess ==
  /\ Command
  /\ \E t \in Targets, missing \in BOOLEAN : SetError(missing \/ ~CanOpen(files[t]))
  /\ UNCHANGED <<gui, service, recorder, replay, files, overlap>>

-----------------------------------------------------------------------------
(* Replay: the thread                                                      *)

(* iter_blocks; its RecordingCorruptionError cannot come: see              *)
(* ReplayableIsWhole.                                                      *)
NextBlock ==
  /\ replay.at = "read"
  /\ replay' = [replay EXCEPT !.at =
       IF replay.cancel \/ replay.count = files[replay.reads].index THEN "end" ELSE "hold"]
  /\ UNCHANGED <<ui, gui, service, recorder, files, masked, spent, overlap>>

CountBlock ==
  /\ replay.at = "hold" /\ (~replay.pause \/ replay.cancel)
  /\ replay' = [replay EXCEPT !.at = "read", !.count = @ + 1]
  /\ UNCHANGED <<ui, gui, service, recorder, files, masked, spent, overlap>>

ReplayEnds ==
  /\ replay.at = "end"
  /\ replay' = [replay EXCEPT !.at = "done",
       !.state = IF ~replay.cancel /\ @ = "playing" THEN "finished" ELSE @]
  /\ UNCHANGED <<ui, gui, service, recorder, files, masked, spent, overlap>>

ReplayExits ==
  /\ replay.at = "done"
  /\ replay' = [replay EXCEPT !.at = "none", !.reads = NoTarget, !.count = 0]
  /\ UNCHANGED <<ui, gui, service, recorder, files, masked, spent, overlap>>

-----------------------------------------------------------------------------
(* close, and the death of the process                                     *)

Close ==
  /\ Command
  /\ ui' = [Stopping(ui) EXCEPT !.stop = TRUE]
  /\ CancelReplay
  /\ Wait("joinReplay", "joinRecorder", NoTarget)
  /\ UNCHANGED <<service, recorder, files, masked, overlap>>

JoinRecorder ==
  /\ gui.at = "joinRecorder"
  /\ Joined(ui.thread = NoTarget \/ recorder[ui.thread].at = "ended")
  /\ Wait(IF ui.service = NoTarget THEN "closed" ELSE "cancel", "closed", ui.service)
  /\ ui' = [ui EXCEPT !.service = NoTarget]
  /\ UNCHANGED <<service, recorder, replay, files, masked, overlap>>

(* service.close() cancels a service that still runs.                      *)
CancelService ==
  /\ gui.at = "cancel"
  /\ \/ ~service[gui.target].running /\ Wait("closed", "closed", NoTarget)
        /\ UNCHANGED <<service, files>>
     \/ Looks(gui.target, FALSE) /\ Wait("cancelPut", "closed", gui.target)
  /\ UNCHANGED <<ui, recorder, replay, masked, spent, overlap>>

CancelGoesOn ==
  /\ \/ /\ gui.at = "cancelPut" /\ PutsNone(gui.target)
        /\ Wait("cancelJoin", "closed", gui.target)
     \/ /\ gui.at = "cancelJoin" /\ Joins(gui.target, FALSE)
        /\ Wait("cancelling", "closed", gui.target)
  /\ UNCHANGED <<ui, recorder, replay, masked, spent, overlap>>

PresenterCloses ==
  /\ gui.at = "cancelling" /\ Idle(files[gui.target])
  /\ Wait("closed", "closed", NoTarget)
  /\ UNCHANGED <<ui, service, recorder, replay, files, masked, spent, overlap>>

FreshUi == [recording |-> "idle", setup |-> NoTarget, service |-> NoTarget, thread |-> NoTarget,
            stop |-> FALSE, error |-> FALSE]
IdleGui == [at |-> "idle", then |-> "idle", target |-> NoTarget]
NoService == [running |-> FALSE, failed |-> FALSE, stop |-> FALSE, ended |-> FALSE,
              queue |-> <<>>, skip |-> FALSE]
NoRecorder == [at |-> "none", offered |-> 0, final |-> TRUE, wasRunning |-> FALSE, service |-> NoTarget]
NoReplay == [state |-> "empty", target |-> NoTarget, cancel |-> FALSE, pause |-> FALSE,
             at |-> "none", reads |-> NoTarget, count |-> 0, unheard |-> FALSE]

(* The process dies, or ends after close() with its daemon threads, and    *)
(* the program is started again.                                           *)
Crash ==
  /\ Spend("crashes")
  /\ ui' = FreshUi /\ gui' = IdleGui /\ replay' = NoReplay
  /\ service' = [t \in Targets |-> NoService]
  /\ recorder' = [t \in Targets |-> NoRecorder]
  /\ LET touched == {t \in Targets : CrashOutcomes(files[t]) # {files[t]}}
     IN \E f \in [touched -> UNION {CrashOutcomes(files[t]) : t \in touched}] :
          /\ \A t \in touched : f[t] \in CrashOutcomes(files[t])
          /\ files' = [t \in Targets |-> IF t \in touched THEN f[t] ELSE files[t]]
  /\ masked' = FALSE /\ overlap' = FALSE

-----------------------------------------------------------------------------
Init ==
  /\ ui = FreshUi /\ gui = IdleGui /\ replay = NoReplay
  /\ service = [t \in Targets |-> NoService]
  /\ recorder = [t \in Targets |-> NoRecorder]
  /\ files = [t \in Targets |-> NoFiles]
  /\ masked = FALSE /\ overlap = FALSE
  /\ spent = [commands |-> 0, crashes |-> 0, timeouts |-> 0, faults |-> 0]

User == \/ Configure \/ StartRecording \/ StopRecording \/ RecoverPartial
        \/ StopReplay \/ OpenReplay \/ Play \/ Pause \/ Reprocess \/ Close
Gui == RecordingStarts \/ Recovered \/ JoinReplay \/ Open
       \/ JoinRecorder \/ CancelService \/ CancelGoesOn \/ PresenterCloses
Recorder(t) == \/ Leave(t) \/ Submit(t) \/ Finally(t) \/ StopService(t) \/ StopGoesOn(t)
               \/ StopReturns(t) \/ Report(t)
Writer(t) == Write(t) \/ WriterEnds(t)
Replayer == NextBlock \/ CountBlock \/ ReplayEnds \/ ReplayExits

Runs == \/ User \/ Gui \/ Replayer
        \/ \E t \in Targets : Recorder(t) \/ Writer(t) \/ WriteFails(t)
                               \/ ForcingFails(t) \/ DiskEffect(t)
Next == Runs \/ Crash

(* The threads run and the disk works; the user need not do anything.      *)
Fairness ==
  /\ WF_vars(Gui) /\ WF_vars(Replayer)
  /\ \A t \in Targets : WF_vars(Recorder(t)) /\ WF_vars(Writer(t)) /\ WF_vars(DiskEffect(t))

Spec == Init /\ [][Next]_vars
FairSpec == Spec /\ Fairness

-----------------------------------------------------------------------------
(* A recording with its final name can be replayed to its end and has all  *)
(* its files, whatever crashed on the way, and its metadata say so; at no  *)
(* time do the metadata claim more blocks or gaps than the files hold.     *)
ReplayableIsWhole ==
  \A t \in Targets : LET f == files[t] IN
    /\ f.place["meta"] = "final" =>
         /\ \A n \in Files : f.place[n] = "final"
         /\ CanReplay(f) /\ f.meta.completed /\ f.meta.blocks = f.index
    /\ f.meta.blocks <= f.index /\ f.meta.gaps <= f.gaps

Whole(f) == IF f.synced.index * BlockBytes <= f.synced.data THEN f.synced.index
            ELSE f.synced.data \div BlockBytes

(* A block that was once forced to the disk with its line of the index     *)
(* stays in the recording through crashes, restarts and recoveries that    *)
(* crash themselves.                                                       *)
DurableBlocksSurvive == [][\A t \in Targets : Whole(files'[t]) >= Whole(files[t])]_files

(* The workspace shows "completed" without an error only for a recording   *)
(* that has its final name, unless the replay half wiped the error that    *)
(* both halves share, or another recorder was still there when it began.   *)
StatusIsTrue ==
  ui.recording = "completed" /\ ~ui.error /\ ~masked /\ ~overlap /\ gui.at = "idle"
    => files[ui.thread].place["meta"] = "final"

(* stop() found the service healthy and waits with its None for room; the  *)
(* thread that would make it has failed since (RecordingService).          *)
Stranded(s) == Locked(s) /\ service[s].failed /\ Len(service[s].queue) = Capacity

(* A service that was started is stopped, however its recorder leaves the  *)
(* loop and whatever close() does beside it.  There are two exceptions: a  *)
(* stop() that is stranded, and a recorder that is still there when        *)
(* another one is started, finds the other's service and leaves its own.   *)
RecordingsAreClosed ==
  \A t \in Targets : service[t].running ~> ~service[t].running \/ overlap \/ Stranded(t)

(* Playback comes to an end, is paused or stopped.  The exception is a     *)
(* play() that no thread hears: the thread of the playback before had not  *)
(* ended, or the one it resumes has looked at the state for the last time. *)
PlaybackEnds == (replay.state = "playing") ~> (replay.state # "playing" \/ replay.unheard)

(* Both halves of the workspace come to an end.                            *)
NothingRunsForEver == RecordingsAreClosed /\ PlaybackEnds
=============================================================================
