------------------------------ MODULE LossyFifo ------------------------------
(***************************************************************************)
(* What sdr_core::BoundedQueue promises its owner, with no threads, no     *)
(* waiting and no sequence: accepted items are numbered, the oldest item   *)
(* that was not lost is the next one out, an item is lost only to make     *)
(* room in a full queue, by the rule of the policy, or to an explicit      *)
(* discard, and each loss is counted when it happens.                      *)
(***************************************************************************)
EXTENDS Integers, FiniteSets

VARIABLES capacity, policy,
          closed,     \* stop was requested
          pending,    \* the numbers of the accepted items still inside
          accepted,   \* how many items were accepted
          delivered,  \* how many were handed out
          latest,     \* the number of the last one handed out
          lost,       \* how many accepted items were evicted or discarded
          refused     \* how many offered items were dropped at the door

vars == <<capacity, policy, closed, pending, accepted, delivered, latest, lost, refused>>

Oldest(x) == x \in pending /\ \A y \in pending : x <= y
Newest(x) == x \in pending /\ \A y \in pending : y <= x

Init ==
  /\ capacity \in Nat \ {0}
  /\ policy \in {"Block", "DropNewest", "DropOldest", "LatestWins"}
  /\ closed = FALSE /\ pending = {}
  /\ accepted = 0 /\ delivered = 0 /\ latest = 0 /\ lost = 0 /\ refused = 0

Accept ==
  /\ ~closed /\ Cardinality(pending) < capacity
  /\ pending' = pending \cup {accepted + 1}
  /\ accepted' = accepted + 1
  /\ UNCHANGED <<capacity, policy, closed, delivered, latest, lost, refused>>

Replace ==
  /\ ~closed /\ Cardinality(pending) = capacity
  /\ \E x \in pending :
       /\ \/ policy = "DropOldest" /\ Oldest(x)
          \/ policy = "LatestWins" /\ Newest(x)
       /\ pending' = (pending \ {x}) \cup {accepted + 1}
  /\ accepted' = accepted + 1
  /\ lost' = lost + 1
  /\ UNCHANGED <<capacity, policy, closed, delivered, latest, refused>>

Refuse ==
  /\ ~closed /\ policy = "DropNewest" /\ Cardinality(pending) = capacity
  /\ refused' = refused + 1
  /\ UNCHANGED <<capacity, policy, closed, pending, accepted, delivered, latest, lost>>

Deliver ==
  /\ \E x \in pending : Oldest(x) /\ latest' = x /\ pending' = pending \ {x}
  /\ delivered' = delivered + 1
  /\ UNCHANGED <<capacity, policy, closed, accepted, lost, refused>>

Discard ==
  /\ pending' = {}
  /\ lost' = lost + Cardinality(pending)
  /\ UNCHANGED <<capacity, policy, closed, accepted, delivered, latest, refused>>

Close ==
  /\ closed' = TRUE
  /\ UNCHANGED <<capacity, policy, pending, accepted, delivered, latest, lost, refused>>

Next == Accept \/ Replace \/ Refuse \/ Deliver \/ Discard \/ Close

Spec == Init /\ [][Next]_vars
=============================================================================
