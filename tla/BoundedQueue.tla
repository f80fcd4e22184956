---------------------------- MODULE BoundedQueue ----------------------------
(***************************************************************************)
(* sdr_core::BoundedQueue under its threads.  A critical section is one    *)
(* step, because the mutex makes it one; the notification that follows the *)
(* unlock is a step of its own, so that another thread may lock the queue, *)
(* start to wait or stop it in between.  A wait on a condition variable    *)
(* may end spuriously and re-evaluates its predicate under the mutex.      *)
(*                                                                         *)
(* An item is its acceptance number: the n-th accepted item is n.          *)
(***************************************************************************)
EXTENDS Integers, Sequences, FiniteSets, QueueOps


CONSTANTS Producers,   \* threads that call push and try_push
          Consumers,   \* threads that call pop and try_pop
          Controllers, \* threads that call request_stop and abandon
          Capacities,  \* the capacities a queue may be built with
          MaxOffers    \* bound: no push starts once this many were counted

ASSUME CapacitiesAssumption == Capacities \subseteq Nat \ {0}
ASSUME ThreadsAssumption == IsFiniteSet(Producers) /\ IsFiniteSet(Consumers)
ASSUME MaxOffersAssumption == MaxOffers \in Nat

VARIABLES queue,   \* the state the mutex protects
          pc,      \* where each thread is
          last     \* history: the item most recently handed to a consumer

vars == <<queue, pc, last>>

Threads == Producers \cup Consumers \cup Controllers

(* "idle" is outside the queue.  pushWait and popWait sleep on not_full_    *)
(* and not_empty_; pushWoken and popWoken were notified (or woke by        *)
(* themselves) and have yet to lock the mutex again; the others hold no    *)
(* lock and are about to notify.                                           *)
Locations == {"idle", "pushWait", "pushWoken", "popWait", "popWoken",
              "notifyNotEmpty", "notifyNotFull",
              "stopNotEmpty", "stopNotFull", "abandonNotFull"}

At(location) == {t \in Threads : pc[t] = location}

Init ==
  /\ \E capacity \in Capacities, policy \in Policies :
       queue = NewQueue(capacity, policy)
  /\ pc = [t \in Threads |-> "idle"]
  /\ last = 0

-----------------------------------------------------------------------------
(* push, push_with_eviction, try_push, try_push_prepared                   *)

(* Mutant: a push notifies only when it finds the queue empty.             *)
PushLockedNotifiesWhenEmpty(t) ==
  /\ queue' = AfterPush(queue, queue.pushed + 1)
  /\ pc' = [pc EXCEPT ![t] = IF Accepts(queue) /\ queue.items = <<>>
                               THEN "notifyNotEmpty" ELSE "idle"]
  /\ UNCHANGED last

(* push_locked: an accepted item is followed by a notification.            *)
PushLocked(t) ==
  /\ queue' = AfterPush(queue, queue.pushed + 1)
  /\ pc' = [pc EXCEPT ![t] = IF Accepts(queue) THEN "notifyNotEmpty" ELSE "idle"]
  /\ UNCHANGED last

(* The wait predicate is evaluated under the mutex, on entry and on every  *)
(* wake-up; the push goes on in the same critical section when it holds.   *)
PushOrWait(t) ==
  \/ /\ PushBlocks(queue)
     /\ pc' = [pc EXCEPT ![t] = "pushWait"]
     /\ UNCHANGED <<queue, last>>
  \/ /\ ~PushBlocks(queue)
     /\ PushLocked(t)

CanOffer == queue.pushed + queue.dropped < MaxOffers

Push(t) == t \in Producers /\ pc[t] = "idle" /\ CanOffer /\ PushOrWait(t)
ResumePush(t) == pc[t] = "pushWoken" /\ PushOrWait(t)
TryPush(t) == t \in Producers /\ pc[t] = "idle" /\ CanOffer /\ PushLocked(t)

-----------------------------------------------------------------------------
(* pop, try_pop                                                            *)

(* Mutant: a pop notifies only when it finds the queue full.               *)
PopLockedNotifiesWhenFull(t) ==
  /\ queue.items # <<>>
  /\ queue' = AfterPop(queue)
  /\ last' = Head(queue.items)
  /\ pc' = [pc EXCEPT ![t] = IF IsFull(queue) THEN "notifyNotFull" ELSE "idle"]

PopLocked(t) ==
  /\ queue.items # <<>>
  /\ queue' = AfterPop(queue)
  /\ last' = Head(queue.items)
  /\ pc' = [pc EXCEPT ![t] = "notifyNotFull"]

(* pop() sleeps, takes an item, or returns Stopped from a drained queue.   *)
PopOrWait(t) ==
  \/ /\ PopBlocks(queue)
     /\ pc' = [pc EXCEPT ![t] = "popWait"]
     /\ UNCHANGED <<queue, last>>
  \/ PopLocked(t)
  \/ /\ queue.items = <<>> /\ queue.stop
     /\ pc' = [pc EXCEPT ![t] = "idle"]
     /\ UNCHANGED <<queue, last>>

Pop(t) == t \in Consumers /\ pc[t] = "idle" /\ PopOrWait(t)
ResumePop(t) == pc[t] = "popWoken" /\ PopOrWait(t)
TryPop(t) == t \in Consumers /\ pc[t] = "idle" /\ PopLocked(t)

-----------------------------------------------------------------------------
(* request_stop, abandon                                                   *)

RequestStop(t) ==
  /\ t \in Controllers /\ pc[t] = "idle"
  /\ queue' = AfterStop(queue)
  /\ pc' = [pc EXCEPT ![t] = "stopNotEmpty"]
  /\ UNCHANGED last

Abandon(t) ==
  /\ t \in Controllers /\ pc[t] = "idle"
  /\ queue' = AfterAbandon(queue)
  /\ pc' = [pc EXCEPT ![t] = "abandonNotFull"]
  /\ UNCHANGED last

-----------------------------------------------------------------------------
(* The condition variables                                                 *)

(* notify_one by thread t: one sleeper, if there is any, becomes runnable. *)
NotifyOne(t, sleeping, woken) ==
  /\ \/ /\ At(sleeping) = {}
        /\ pc' = [pc EXCEPT ![t] = "idle"]
     \/ \E w \in At(sleeping) :
          pc' = [pc EXCEPT ![t] = "idle", ![w] = woken]
  /\ UNCHANGED <<queue, last>>

(* notify_all by thread t, which goes on at location next.                 *)
NotifyAll(t, sleeping, woken, next) ==
  /\ pc' = [u \in Threads |-> IF u = t THEN next
                              ELSE IF pc[u] = sleeping THEN woken ELSE pc[u]]
  /\ UNCHANGED <<queue, last>>

NotifyNotEmpty(t) == pc[t] = "notifyNotEmpty" /\ NotifyOne(t, "popWait", "popWoken")
NotifyNotFull(t) == pc[t] = "notifyNotFull" /\ NotifyOne(t, "pushWait", "pushWoken")

StopNotEmpty(t) ==
  pc[t] = "stopNotEmpty" /\ NotifyAll(t, "popWait", "popWoken", "stopNotFull")
StopNotFull(t) ==
  pc[t] = "stopNotFull" /\ NotifyAll(t, "pushWait", "pushWoken", "idle")
AbandonNotFull(t) ==
  pc[t] = "abandonNotFull" /\ NotifyAll(t, "pushWait", "pushWoken", "idle")

SpuriousWake(t) ==
  /\ \/ pc[t] = "pushWait" /\ pc' = [pc EXCEPT ![t] = "pushWoken"]
     \/ pc[t] = "popWait" /\ pc' = [pc EXCEPT ![t] = "popWoken"]
  /\ UNCHANGED <<queue, last>>

-----------------------------------------------------------------------------
(* The operations a thread chooses to start, and the steps that finish one *)
(* it has started.                                                         *)
Call(t) == Push(t) \/ TryPush(t) \/ Pop(t) \/ TryPop(t)
           \/ RequestStop(t) \/ Abandon(t)

Continue(t) == ResumePush(t) \/ ResumePop(t)
               \/ NotifyNotEmpty(t) \/ NotifyNotFull(t)
               \/ StopNotEmpty(t) \/ StopNotFull(t) \/ AbandonNotFull(t)

Next == \E t \in Threads : Call(t) \/ Continue(t) \/ SpuriousWake(t)

(* The operating system keeps running a runnable thread; nothing obliges   *)
(* a thread to call the queue, nor a wait to end by itself.                *)
Fairness == \A t \in Threads : WF_vars(Continue(t))

Spec == Init /\ [][Next]_vars
FairSpec == Spec /\ Fairness

-----------------------------------------------------------------------------
Queues == [capacity : Capacities, policy : Policies, items : Seq(Nat),
           highWater : Nat, pushed : Nat, popped : Nat, dropped : Nat,
           abandoned : Nat, stop : BOOLEAN]

TypeOK ==
  /\ queue \in Queues
  /\ pc \in [Threads -> Locations]
  /\ last \in Nat

(* Every accepted item is in exactly one place: delivered, pending, given  *)
(* up by the policy, or abandoned; the counters of QueueStats say so after *)
(* every critical section ("All counters are exact").                      *)
Evictions == IF queue.policy \in EvictingPolicies THEN queue.dropped ELSE 0

Accounting ==
  /\ queue.pushed = queue.popped + Len(queue.items) + queue.abandoned + Evictions
  /\ queue.policy = "Block" => queue.dropped = 0
  /\ Len(queue.items) <= queue.highWater /\ queue.highWater <= queue.capacity

(* Consumers see accepted items in acceptance order, whatever the policy   *)
(* evicted in between: no item is duplicated, overtaken or resurrected.    *)
InOrder ==
  /\ last <= queue.pushed
  /\ \A i, j \in 1..Len(queue.items) : i < j => queue.items[i] < queue.items[j]
  /\ \A i \in 1..Len(queue.items) : last < queue.items[i] /\ queue.items[i] <= queue.pushed

(* No lost wake-up at not_empty_: while a consumer sleeps there is, for    *)
(* every pending item, a notification on its way or a consumer awake.      *)
NoLostItemWakeup ==
  At("popWait") # {} =>
    Len(queue.items) <= Cardinality(At("notifyNotEmpty")) + Cardinality(At("popWoken"))

(* No lost wake-up at not_full_: while a producer sleeps there is, for     *)
(* every free place, a notification on its way or a producer awake, unless *)
(* an abandon() or a stop is about to wake all of them.                    *)
NoLostSpaceWakeup ==
  At("pushWait") # {} /\ ~queue.stop /\ At("abandonNotFull") = {} =>
    queue.capacity - Len(queue.items)
      <= Cardinality(At("notifyNotFull")) + Cardinality(At("pushWoken"))

(* A stopped queue keeps no thread asleep: a sleeper that remains is about *)
(* to be woken by the notify_all of a request_stop() in progress.          *)
StopWakesSleepers ==
  queue.stop =>
    /\ At("popWait") # {} => At("stopNotEmpty") # {}
    /\ At("pushWait") # {} => At("stopNotEmpty") \cup At("stopNotFull") # {}

(* Nobody sleeps through what it waits for: the notification that follows  *)
(* an unlock may meet no thread, another one or one that just went to      *)
(* sleep, and the condition is served all the same.                        *)
NoLostWakeup == NoLostItemWakeup /\ NoLostSpaceWakeup /\ StopWakesSleepers

(* After a stop nothing is accepted or counted as dropped, and the pending *)
(* items leave only through pop or abandon, which count them.              *)
StopIsFinal ==
  [][queue.stop => /\ queue'.stop
                   /\ queue'.pushed = queue.pushed /\ queue'.dropped = queue.dropped
                   /\ Len(queue.items) - Len(queue'.items)
                        = (queue'.popped - queue.popped)
                          + (queue'.abandoned - queue.abandoned)]_vars

(* request_stop() releases every thread blocked in push or pop.            *)
StopReleases ==
  \A t \in Threads :
    (queue.stop /\ pc[t] \in {"pushWait", "pushWoken", "popWait", "popWoken"})
      ~> (pc[t] = "idle")

(* An item never stays pending beside a consumer that sleeps for ever, nor *)
(* a free place beside a producer that does.                               *)
ItemWakesConsumer ==
  \A t \in Consumers :
    (pc[t] = "popWait" /\ queue.items # <<>>)
      ~> (pc[t] # "popWait" \/ queue.items = <<>>)

SpaceWakesProducer ==
  \A t \in Producers :
    (pc[t] = "pushWait" /\ ~IsFull(queue))
      ~> (pc[t] # "pushWait" \/ IsFull(queue))

(* Every thread that sleeps in push or pop while there is something for it *)
(* to do, or a stop, gets on, as long as the calls of the others end.      *)
SleepersAreServed == StopReleases /\ ItemWakesConsumer /\ SpaceWakesProducer

-----------------------------------------------------------------------------
(* What the queue promises its owner.                                      *)
Pending == {queue.items[i] : i \in 1..Len(queue.items)}

(* Accepting policies lose pending items; DropNewest refuses new ones.     *)
Fifo == INSTANCE LossyFifo WITH
  capacity  <- queue.capacity,
  policy    <- queue.policy,
  closed    <- queue.stop,
  pending   <- Pending,
  accepted  <- queue.pushed,
  delivered <- queue.popped,
  latest    <- last,
  lost      <- queue.abandoned + Evictions,
  refused   <- IF queue.policy = "DropNewest" THEN queue.dropped ELSE 0

(* The queue keeps the promise of LossyFifo: every critical section is one *)
(* of its steps, and waiting and notifying change nothing its owner sees.  *)
ImplementsLossyFifo == Fifo!Spec
=============================================================================
