---------------------------- MODULE LiveControllers ----------------------------
(***************************************************************************)
(* esw_dfl.sdr.controller.LiveSdrController: every controller the desktop  *)
(* program creates, its worker thread, and the queue of updates the GUI    *)
(* thread drains.                                                          *)
(*                                                                         *)
(* A worker step is a hold of the controller's lock with the service calls *)
(* before it, which show nothing else.  The service is external: a call    *)
(* returns or raises, and the worker holds the device (open) from its      *)
(* start until disconnect returns.  The front ends share one GUI thread;   *)
(* close() keeps it until the worker ends or a timeout.  Every session is  *)
(* given a configuration of its own, which its controller's number stands  *)
(* for.                                                                    *)
(***************************************************************************)
EXTENDS Integers, Sequences, SequencesExt, FiniteSets

CONSTANTS MaxControllers, \* bound: controllers created
          MaxStarts,      \* bound: starts asked for, restarts apart
          MaxFrames,      \* bound: frames of one generation
          Capacity        \* update_queue_capacity

ASSUME LiveAssumption ==
  /\ MaxControllers \in Nat \ {0} /\ MaxStarts \in Nat \ {0}
  /\ MaxFrames \in Nat /\ Capacity \in Nat \ {0}

Controllers == 1 .. MaxControllers

VARIABLES
  ctl,    \* the controllers created so far, in order
  gui,    \* [at, ctl, after]: where the GUI thread is in a call, and what the
          \* caller does then
  late    \* history: controllers whose close() stopped waiting for the worker

States == {"created", "starting", "running", "stopping", "stopped", "error", "closed"}
IdleGui == [at |-> "idle", ctl |-> 0, after |-> "none"]

(* __init__                                                                *)
Created ==
  [state |-> "created", generation |-> 0, closed |-> FALSE, stop |-> FALSE,
   applied |-> 0, updates |-> <<>>, worker |-> "none", open |-> FALSE,
   error |-> FALSE, frames |-> 0]

(* by: which controller published it, which the code does not record.      *)
Update(c, state, frame) ==
  [by |-> c, generation |-> ctl[c].generation, state |-> state, frame |-> frame,
   applied |-> ctl[c].applied, error |-> ctl[c].error]

(* Mutant: a full queue refuses the new update.                            *)
PublishedIfRoom(c, update) ==
  IF ctl[c].closed THEN <<>>
  ELSE IF Len(ctl[c].updates) = Capacity THEN ctl[c].updates ELSE Append(ctl[c].updates, update)

(* _publish_locked: a deque with a maxlen forgets its oldest update.  The  *)
(* front ends drop what they close, so nobody reads that queue again.      *)
Published(c, update) ==
  LET all == Append(ctl[c].updates, update)
  IN  IF ctl[c].closed THEN <<>> ELSE IF Len(all) > Capacity THEN Tail(all) ELSE all

-----------------------------------------------------------------------------
(* Calls of the GUI thread                                                 *)

MayStartAgain == FoldFunction(LAMBDA r, n : r.generation + n, 0, ctl) < MaxStarts

(* What start() refuses: see Startable.  A worker that published STOPPED   *)
(* may not have ended yet.                                                 *)
Startable(c) ==
  /\ ~ctl[c].closed /\ ctl[c].worker = "none"
  /\ ctl[c].state \in {"created", "stopped"}

Started(r) ==
  [r EXCEPT !.generation = @ + 1, !.state = "starting", !.error = FALSE,
            !.applied = 0, !.stop = FALSE, !.worker = "configure", !.open = TRUE, !.frames = 0]

(* request_stop and the first part of close: the event is set before the   *)
(* lock is taken.                                                          *)
CallStop(c, after) ==
  /\ gui = IdleGui
  /\ ctl' = [ctl EXCEPT ![c].stop = TRUE]
  /\ gui' = [at |-> "stopping", ctl |-> c, after |-> after]
  /\ UNCHANGED late

(* Mutant: close does not wait.                                            *)
AfterStopWithoutJoin(after) == IF after = "return" THEN IdleGui ELSE [gui EXCEPT !.at = "closing"]

(* request_stop returns; close goes on, with a join or without.            *)
AfterStop(after) ==
  CASE after = "return" -> IdleGui
    [] after = "forget" -> [gui EXCEPT !.at = "closing"]
    [] OTHER            -> [gui EXCEPT !.at = "joining"]

StopLocked ==
  LET c == gui.ctl
  IN  /\ gui.at = "stopping"
      /\ IF ctl[c].state \in {"starting", "running"}
         THEN ctl' = [ctl EXCEPT ![c].state = "stopping",
                                 ![c].updates = Published(c, Update(c, "stopping", 0))]
         ELSE UNCHANGED ctl
      /\ gui' = AfterStop(gui.after)
      /\ UNCHANGED late

(* close: join with a timeout, which may run out while the worker lives.   *)
Join ==
  /\ gui.at = "joining"
  /\ gui' = [gui EXCEPT !.at = "closing"]
  /\ late' = IF ctl[gui.ctl].worker = "none" THEN late ELSE late \cup {gui.ctl}
  /\ UNCHANGED ctl

(* The rest of close, done together with what its caller goes on to do.    *)
Closed(r) ==
  [r EXCEPT !.closed = TRUE, !.updates = <<>>, !.applied = 0, !.error = FALSE,
            !.frames = MaxFrames,
            !.state = IF @ \in {"created", "stopped"} THEN "closed" ELSE @]

-----------------------------------------------------------------------------
(* _run, on the worker thread                                              *)

WorkerStep == UNCHANGED <<gui, late>>

Goes(c, place) == ctl' = [ctl EXCEPT ![c].worker = place]

(* The except branch.                                                      *)
Raises(c) ==
  ctl' = [ctl EXCEPT ![c].error = TRUE, ![c].state = "error", ![c].worker = "shutdown",
                     ![c].updates = Published(c, [Update(c, "error", 0) EXCEPT !.error = TRUE])]

(* Service factory and configure, each of which may raise.  A stop         *)
(* requested meanwhile is overwritten by RUNNING.                          *)
Configure(c) ==
  /\ ctl[c].worker = "configure"
  /\ \/ ctl' = [ctl EXCEPT
             ![c].applied = c, ![c].state = "running", ![c].worker = "start",
             ![c].updates = Published(c, [Update(c, "running", 0) EXCEPT !.applied = c])]
     \/ Raises(c)
  /\ WorkerStep

StartService(c) ==
  /\ ctl[c].worker = "start"
  /\ Goes(c, "loop") \/ Raises(c)
  /\ WorkerStep

(* _stop.wait(interval): a stop that comes later is seen after one poll.   *)
Wait(c) ==
  /\ ctl[c].worker = "loop"
  /\ Goes(c, IF ctl[c].stop THEN "shutdown" ELSE "poll")
  /\ WorkerStep

Polled(c, frame) ==
  ctl' = [ctl EXCEPT ![c].worker = "loop", ![c].frames = @ + frame,
                     ![c].updates = Published(c, Update(c, "running", frame * (ctl[c].frames + 1)))]

(* A poll finds nothing, metrics alone, or frames; what it found is        *)
(* published as RUNNING, whatever the state is by then.                    *)
Poll(c) ==
  /\ ctl[c].worker = "poll"
  /\ \/ Goes(c, "loop")
     \/ Polled(c, 0)
     \/ ctl[c].frames < MaxFrames /\ Polled(c, 1)
     \/ Raises(c)
  /\ WorkerStep

(* The finally branch: request_stop, join and disconnect, each of which    *)
(* may raise without keeping the next from being called; a service that    *)
(* could not be created needs none of them.                                *)
ShutDown(c) ==
  /\ ctl[c].worker = "shutdown"
  /\ \E raised \in BOOLEAN :
       ctl' = [ctl EXCEPT ![c].worker = "final", ![c].open = FALSE, ![c].error = @ \/ raised]
  /\ WorkerStep

Final(r) == IF r.closed THEN "closed" ELSE IF r.error THEN "error" ELSE "stopped"

Finish(c) ==
  LET final == Final(ctl[c])
  IN  /\ ctl[c].worker = "final"
      /\ ctl' = [ctl EXCEPT ![c].state = final, ![c].worker = "exiting",
                            ![c].updates = Published(c, Update(c, final, 0))]
      /\ WorkerStep

Exit(c) ==
  /\ ctl[c].worker = "exiting"
  /\ Goes(c, "none")
  /\ WorkerStep

Worker(c) ==
  \/ Configure(c) \/ StartService(c) \/ Wait(c) \/ Poll(c)
  \/ ShutDown(c) \/ Finish(c) \/ Exit(c)

InitControllers ==
  /\ ctl = <<>> /\ gui = IdleGui /\ late = {}
=============================================================================
