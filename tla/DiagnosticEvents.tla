-------------------------- MODULE DiagnosticEvents --------------------------
(***************************************************************************)
(* emit_event() on several threads at once against poll_events(): the      *)
(* sequence number, the queue and the priority slot are taken in three     *)
(* separate steps, and a poll drains the queue one item at a time before   *)
(* it looks at the slot and at the loss counter.                           *)
(***************************************************************************)
EXTENDS Integers, Sequences, FiniteSets, QueueOps

CONSTANTS Emitters,   \* threads that call emit_event
          EventCapacity, \* event_queue_capacity
          Batches,    \* values of max_items, 0 for no limit
          MaxEvents   \* bound: no event is emitted past this sequence number

(* The queue refuses a capacity of zero (bounded_queue.hpp).               *)
ASSUME EventsAssumption == IsFiniteSet(Emitters) /\ EventCapacity \in Nat \ {0}

VARIABLES diag,      \* the state the engine keeps
          carrying,  \* the event each emitter is about to place, if any
          overflown, \* the emitters whose event the queue did not take
          poll,      \* what the polling thread does next, or "idle"
          result,    \* the batch the poll in progress has collected
          limit,     \* its max_items
          received   \* history: sequence numbers handed to the caller

eventsVars == <<diag, carrying, overflown, poll, result, limit, received>>

EventsInit ==
  /\ diag = NewDiagnostics(EventCapacity)
  /\ carrying = [t \in Emitters |-> <<>>]
  /\ overflown = {}
  /\ poll = "idle" /\ result = <<>> /\ limit = 0
  /\ received = <<>>

-----------------------------------------------------------------------------
(* emit_event                                                              *)

Begin(t) ==
  /\ carrying[t] = <<>> /\ diag.sequence < MaxEvents
  /\ \E preserve \in BOOLEAN :
       /\ carrying' = [carrying EXCEPT ![t] = <<Event(diag, preserve)>>]
       /\ diag' = Stamp(diag, preserve)
  /\ UNCHANGED <<overflown, poll, result, limit, received>>

TryPushEvent(t) ==
  /\ carrying[t] # <<>> /\ t \notin overflown
  /\ diag' = Enqueue(diag, carrying[t][1])
  /\ IF HasRoom(diag)
       THEN carrying' = [carrying EXCEPT ![t] = <<>>] /\ UNCHANGED overflown
       ELSE overflown' = overflown \cup {t} /\ UNCHANGED carrying
  /\ UNCHANGED <<poll, result, limit, received>>

PlaceInSlot(t) ==
  /\ t \in overflown
  /\ diag' = Overflow(diag, carrying[t][1])
  /\ carrying' = [carrying EXCEPT ![t] = <<>>]
  /\ overflown' = overflown \ {t}
  /\ UNCHANGED <<poll, result, limit, received>>

-----------------------------------------------------------------------------
(* poll_events                                                             *)

(* Mutant: zero no longer means that the batch is unlimited.               *)
HasSpaceAlwaysLimited == Len(result) < limit

HasSpace == limit = 0 \/ Len(result) < limit

StartPoll ==
  /\ poll = "idle"
  /\ \E n \in Batches : limit' = n
  /\ poll' = "queue" /\ result' = <<>>
  /\ UNCHANGED <<diag, carrying, overflown, received>>

PollQueue ==
  /\ poll = "queue"
  /\ IF HasSpace /\ diag.queue.items # <<>>
       THEN /\ result' = Append(result, diag.queue.items[1].sequence)
            /\ diag' = TakeQueued(diag)
            /\ UNCHANGED poll
       ELSE poll' = "slot" /\ UNCHANGED <<diag, result>>
  /\ UNCHANGED <<carrying, overflown, limit, received>>

(* (The code also empties a slot whose event the batch already holds; an   *)
(* event is in the slot only if the queue refused it, so none ever does.)  *)
PollSlot ==
  /\ poll = "slot"
  /\ IF diag.slot # <<>> /\ HasSpace
       THEN /\ result' = Append(result, diag.slot[1].sequence)
            /\ diag' = TakeSlot(diag)
       ELSE UNCHANGED <<diag, result>>
  /\ poll' = "loss"
  /\ UNCHANGED <<carrying, overflown, limit, received>>

(* The notice of the loss is an event of the batch like the others.        *)
PollLoss ==
  /\ poll = "loss"
  /\ IF LossUnreported(diag) /\ HasSpace
       THEN /\ diag' = ReportLoss(diag)
            /\ received' = received \o Append(result, diag.sequence + 1)
       ELSE received' = received \o result /\ UNCHANGED diag
  /\ poll' = "idle" /\ result' = <<>>
  /\ UNCHANGED <<carrying, overflown, limit>>

Emitting(t) == TryPushEvent(t) \/ PlaceInSlot(t)
Polling == PollQueue \/ PollSlot \/ PollLoss
EventsNext == (\E t \in Emitters : Begin(t) \/ Emitting(t)) \/ StartPoll \/ Polling
EventsSpec == EventsInit /\ [][EventsNext]_eventsVars

(* A thread that emits an event gets to the end of it, and the owner polls *)
(* for ever, with batches of any size.                                     *)
EventsFairness ==
  /\ \A t \in Emitters : WF_eventsVars(Emitting(t))
  /\ WF_eventsVars(Polling) /\ WF_eventsVars(StartPoll)
FairEventsSpec == EventsSpec /\ EventsFairness

-----------------------------------------------------------------------------
(* Exact event accounting across the three steps of emit_event and the     *)
(* four of poll_events: each sequence number ever given out was handed to  *)
(* the caller, is still somewhere inside, or is in the loss counter.       *)
(* Nothing is handed over twice.                                           *)
Inside ==
  Cardinality({t \in Emitters : carrying[t] # <<>>})
    + Len(diag.queue.items) + Len(diag.slot) + Len(result)

EventConservation ==
  /\ diag.sequence = Inside + Len(received) + diag.lost
  /\ \A i, j \in 1..Len(received) : received[i] = received[j] => i = j

(* Once the threads emit no more, a preserved event leaves the priority    *)
(* slot and every counted loss is announced to a caller that keeps polling,*)
(* even one event at a time.                                               *)
NothingHeldBack ==
  /\ (diag.slot # <<>>) ~> (diag.slot = <<>>)
  /\ LossUnreported(diag) ~> ~LossUnreported(diag)

(* Every event is delivered once or counted as lost, at every moment, and  *)
(* neither an important one nor a loss is kept from the owner for ever.    *)
EventsAreDelivered == []EventConservation /\ NothingHeldBack
=============================================================================
