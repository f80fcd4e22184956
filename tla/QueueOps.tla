------------------------------ MODULE QueueOps ------------------------------
(***************************************************************************)
(* The state of one sdr_core::BoundedQueue and what each of its critical   *)
(* sections does to it (native/sdr_core/include/sdr_core/bounded_queue.hpp).*)
(* Every operator is a pure function of the record the mutex protects; the *)
(* waiting and the notifications around it are in module BoundedQueue.     *)
(* The engine modules keep such a record per queue, and the diagnostic     *)
(* events of FixedBandEngine are built on one.                             *)
(***************************************************************************)
LOCAL INSTANCE Naturals
LOCAL INSTANCE Sequences

Policies == {"Block", "DropNewest", "DropOldest", "LatestWins"}
EvictingPolicies == {"DropOldest", "LatestWins"}

NewQueue(capacity, policy) ==
  [capacity |-> capacity, policy |-> policy, items |-> <<>>, highWater |-> 0,
   pushed |-> 0, popped |-> 0, dropped |-> 0, abandoned |-> 0, stop |-> FALSE]

IsFull(q) == Len(q.items) >= q.capacity

(* The wait predicate of push() is false: the caller sleeps on not_full_.   *)
PushBlocks(q) == q.policy = "Block" /\ IsFull(q) /\ ~q.stop

(* Mutant: the stop flag is looked at only when the queue is full.         *)
PushResultStopOnlyWhenFull(q) ==
  CASE ~IsFull(q)                -> "Pushed"
    [] IsFull(q) /\ q.stop       -> "Stopped"
    [] q.policy = "Block"        -> "Full"
    [] q.policy = "DropNewest"   -> "Dropped"
    [] OTHER                     -> "Evicted"

(* The result of push_locked, and of try_push, on a queue in state q.      *)
PushResult(q) ==
  CASE q.stop                              -> "Stopped"
    [] ~q.stop /\ ~IsFull(q)               -> "Pushed"
    [] ~q.stop /\ IsFull(q) /\ q.policy = "Block"      -> "Full"
    [] ~q.stop /\ IsFull(q) /\ q.policy = "DropNewest" -> "Dropped"
    [] OTHER                               -> "Evicted"

Accepts(q) == PushResult(q) \in {"Pushed", "Evicted"}

(* Mutant: LatestWins evicts the oldest item, as DropOldest does.          *)
KeptEvictsOldest(q) == IF PushResult(q) = "Evicted" THEN Tail(q.items) ELSE q.items

(* What is left of the pending items once the victim, if any, is gone.     *)
Kept(q) ==
  IF PushResult(q) # "Evicted" THEN q.items
  ELSE IF q.policy = "DropOldest" THEN Tail(q.items)
  ELSE SubSeq(q.items, 1, Len(q.items) - 1)

(* Mutant: the eviction is not counted.                                    *)
AfterPushUncounted(q, v) ==
  IF Accepts(q) THEN
    [q EXCEPT !.items = Append(Kept(q), v), !.pushed = @ + 1,
              !.highWater = IF Len(Kept(q)) + 1 > @ THEN @ + 1 ELSE @]
  ELSE IF PushResult(q) = "Dropped" THEN [q EXCEPT !.dropped = @ + 1]
  ELSE q

(* push_locked: the counters and the items after item v has been offered.  *)
AfterPush(q, v) ==
  IF Accepts(q) THEN
    [q EXCEPT !.items   = Append(Kept(q), v),
              !.pushed  = @ + 1,
              !.dropped = IF PushResult(q) = "Evicted" THEN @ + 1 ELSE @,
              !.highWater = IF Len(Kept(q)) + 1 > @ THEN Len(Kept(q)) + 1 ELSE @]
  ELSE IF PushResult(q) = "Dropped" THEN [q EXCEPT !.dropped = @ + 1]
  ELSE q

(* The wait predicate of pop() is false: the caller sleeps on not_empty_.  *)
PopBlocks(q) == q.items = <<>> /\ ~q.stop

(* Mutant: the newest item is removed, not the one that was handed out.    *)
AfterPopBack(q) ==
  [q EXCEPT !.items = SubSeq(@, 1, Len(@) - 1), !.popped = @ + 1]

(* The critical section of pop() and try_pop() on a queue that has items.  *)
AfterPop(q) == [q EXCEPT !.items = Tail(@), !.popped = @ + 1]

AfterStop(q) == [q EXCEPT !.stop = TRUE]

(* abandon_with(): pending items are discarded and counted.                *)
AfterAbandon(q) == [q EXCEPT !.items = <<>>, !.abandoned = @ + Len(q.items)]

-----------------------------------------------------------------------------
(* The diagnostic events of FixedBandEngine: a DropNewest queue, a slot    *)
(* for a preserved event (severity Error or Critical) that the queue had   *)
(* no room for, the loss counter and the latched has_error flag            *)
(* (pluto/fixed_band_engine.cpp, emit_event and poll_events).              *)

NewDiagnostics(capacity) ==
  [queue |-> NewQueue(capacity, "DropNewest"), slot |-> <<>>,
   sequence |-> 0, lost |-> 0, reported |-> 0, hasError |-> FALSE]

Event(d, preserve) == [sequence |-> d.sequence + 1, preserve |-> preserve]

(* The event takes the next sequence number; a preserved one latches       *)
(* has_error before anything can go wrong with its delivery.               *)
Stamp(d, preserve) ==
  [d EXCEPT !.sequence = @ + 1, !.hasError = @ \/ preserve]

(* event_queue_->try_push                                                  *)
HasRoom(d) == PushResult(d.queue) = "Pushed"
Enqueue(d, e) == [d EXCEPT !.queue = AfterPush(@, e)]

(* What becomes of an event the queue did not take.                        *)
Overflow(d, e) ==
  IF e.preserve THEN [d EXCEPT !.lost = @ + Len(d.slot), !.slot = <<e>>]
                ELSE [d EXCEPT !.lost = @ + 1]

(* emit_event() undisturbed by another thread.                             *)
Emit(d, preserve) ==
  LET e       == Event(d, preserve)
      stamped == Stamp(d, preserve)
      queued  == Enqueue(stamped, e)
  IN  IF HasRoom(stamped) THEN queued ELSE Overflow(queued, e)

TakeQueued(d) == [d EXCEPT !.queue = AfterPop(@)]
TakeSlot(d) == [d EXCEPT !.slot = <<>>]

(* poll_events() reports the total loss in an event of its own.            *)
LossUnreported(d) == d.lost > d.reported
ReportLoss(d) == [d EXCEPT !.reported = d.lost, !.sequence = @ + 1]

(* poll_events(0) undisturbed by another thread: everything is taken.      *)
Drained(d) ==
  LET taken == [d EXCEPT !.queue.items = <<>>, !.queue.popped = @ + Len(d.queue.items),
                         !.slot = <<>>]
  IN  IF LossUnreported(taken) THEN ReportLoss(taken) ELSE taken
=============================================================================
