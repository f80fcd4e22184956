----------------------------- MODULE QueueLemmas -----------------------------
(***************************************************************************)
(* What each critical section of a BoundedQueue does to the fields of its  *)
(* record (module QueueOps), for items of any kind.  The proofs about the  *)
(* engines, which keep several queues, rest on these facts.                *)
(***************************************************************************)
EXTENDS Integers, Sequences, QueueOps, SequenceTheorems, TLAPS

QueueRecords(V) ==
  [capacity : Nat \ {0}, policy : Policies, items : Seq(V), highWater : Nat,
   pushed : Nat, popped : Nat, dropped : Nat, abandoned : Nat, stop : BOOLEAN]

LEMMA QueueFields ==
  ASSUME NEW V, NEW q \in QueueRecords(V)
  PROVE  /\ q.capacity \in Nat \ {0} /\ q.policy \in Policies
         /\ q.items \in Seq(V) /\ Len(q.items) \in Nat
         /\ q.items # <<>> => Len(q.items) # 0
         /\ q.pushed \in Nat /\ q.popped \in Nat /\ q.dropped \in Nat
         /\ q.abandoned \in Nat /\ q.highWater \in Nat /\ q.stop \in BOOLEAN
  <1>1. q.items \in Seq(V)
    BY DEF QueueRecords
  <1>2. Len(q.items) \in Nat /\ (q.items # <<>> => Len(q.items) # 0)
    BY <1>1, LenProperties, EmptySeq
  <1> QED
    BY <1>1, <1>2 DEF QueueRecords

LEMMA QueueStarts ==
  ASSUME NEW V, NEW capacity \in Nat \ {0}, NEW policy \in Policies
  PROVE  /\ NewQueue(capacity, policy) \in QueueRecords(V)
         /\ NewQueue(capacity, policy).items = <<>>
         /\ NewQueue(capacity, policy).capacity = capacity
         /\ NewQueue(capacity, policy).policy = policy
         /\ NewQueue(capacity, policy).pushed = 0 /\ NewQueue(capacity, policy).popped = 0
         /\ NewQueue(capacity, policy).dropped = 0 /\ NewQueue(capacity, policy).abandoned = 0
         /\ NewQueue(capacity, policy).stop = FALSE
  <1>1. <<>> \in Seq(V)
    BY EmptySeq
  <1> QED
    BY <1>1 DEF NewQueue, QueueRecords

(* push: which of the five outcomes it has, and what each leaves.          *)
LEMMA PushOutcome ==
  ASSUME NEW V, NEW q \in QueueRecords(V)
  PROVE  /\ PushResult(q) \in {"Stopped", "Pushed", "Full", "Dropped", "Evicted"}
         /\ PushResult(q) = "Stopped" <=> q.stop
         /\ PushResult(q) = "Full" <=> PushBlocks(q)
         /\ PushResult(q) = "Dropped" => q.policy = "DropNewest"
         /\ PushResult(q) = "Evicted" => q.policy \in EvictingPolicies /\ Len(q.items) # 0
         /\ PushResult(q) = "Pushed" => Len(q.items) < q.capacity
  <1>1. Len(q.items) \in Nat /\ q.capacity \in Nat \ {0} /\ q.stop \in BOOLEAN
        /\ q.policy \in Policies
    BY QueueFields
  <1>2. IsFull(q) <=> Len(q.items) >= q.capacity
    BY DEF IsFull
  <1>3. ~IsFull(q) <=> Len(q.items) < q.capacity
    BY <1>1, <1>2
  <1>4. IsFull(q) => Len(q.items) # 0
    BY <1>1, <1>2
  <1>5. CASE q.stop
    BY <1>5 DEF PushResult, PushBlocks
  <1>6. CASE ~q.stop /\ ~IsFull(q)
    BY <1>3, <1>6 DEF PushResult, PushBlocks
  <1>7. CASE ~q.stop /\ IsFull(q) /\ q.policy = "Block"
    BY <1>7 DEF PushResult, PushBlocks
  <1>8. CASE ~q.stop /\ IsFull(q) /\ q.policy = "DropNewest"
    BY <1>8 DEF PushResult, PushBlocks
  <1>9. CASE ~q.stop /\ IsFull(q) /\ q.policy \in EvictingPolicies
    BY <1>4, <1>9 DEF PushResult, PushBlocks, EvictingPolicies
  <1> QED
    BY <1>1, <1>5, <1>6, <1>7, <1>8, <1>9 DEF Policies, EvictingPolicies

(* The items that stay when the policy has taken its victim.               *)
LEMMA KeptItems ==
  ASSUME NEW V, NEW q \in QueueRecords(V)
  PROVE  /\ Kept(q) \in Seq(V)
         /\ PushResult(q) # "Evicted" => Kept(q) = q.items
         /\ PushResult(q) = "Evicted" => Len(Kept(q)) = Len(q.items) - 1
         /\ PushResult(q) = "Evicted" => Len(q.items) \in Nat \ {0}
  <1>1. q.items \in Seq(V) /\ Len(q.items) \in Nat
    BY QueueFields
  <1>2. CASE PushResult(q) # "Evicted"
    BY <1>1, <1>2 DEF Kept
  <1>3. CASE PushResult(q) = "Evicted"
    <2>1. Len(q.items) # 0 /\ q.items # <<>>
      <3>1. Len(q.items) # 0
        BY <1>3, PushOutcome
      <3> QED
        BY <3>1
    <2>2. CASE q.policy = "DropOldest"
      <3>1. Kept(q) = Tail(q.items)
        BY <1>3, <2>2 DEF Kept
      <3> QED
        BY <1>1, <1>3, <2>1, <3>1, HeadTailProperties
    <2>3. CASE q.policy # "DropOldest"
      <3>1. Kept(q) = SubSeq(q.items, 1, Len(q.items) - 1)
        BY <1>3, <2>3 DEF Kept
      <3>2. \A i \in 1..(Len(q.items) - 1) : q.items[i] \in V
        BY <1>1, ElementOfSeq
      <3>3. Kept(q) \in Seq(V)
        BY <1>1, <3>1, <3>2, SubSeqProperties
      <3>4. Len(Kept(q)) = Len(q.items) - 1
        BY <1>1, <2>1, <3>1, <3>2, SubSeqProperties
      <3> QED
        BY <1>1, <1>3, <2>1, <3>3, <3>4
    <2> QED
      BY <2>2, <2>3
  <1> QED
    BY <1>2, <1>3

LEMMA QueuePush ==
  ASSUME NEW V, NEW q \in QueueRecords(V), NEW v \in V
  PROVE  /\ AfterPush(q, v) \in QueueRecords(V)
         /\ AfterPush(q, v).capacity = q.capacity /\ AfterPush(q, v).policy = q.policy
         /\ AfterPush(q, v).stop = q.stop
         /\ AfterPush(q, v).popped = q.popped /\ AfterPush(q, v).abandoned = q.abandoned
         /\ PushResult(q) \in {"Stopped", "Full", "Dropped"} =>
              AfterPush(q, v).items = q.items /\ AfterPush(q, v).pushed = q.pushed
         /\ PushResult(q) \in {"Pushed", "Evicted"} =>
              /\ AfterPush(q, v).items = Append(Kept(q), v)
              /\ AfterPush(q, v).pushed = q.pushed + 1
         /\ PushResult(q) = "Pushed" => Len(AfterPush(q, v).items) = Len(q.items) + 1
         /\ PushResult(q) = "Evicted" => Len(AfterPush(q, v).items) = Len(q.items)
         /\ PushResult(q) \in {"Dropped", "Evicted"} =>
              AfterPush(q, v).dropped = q.dropped + 1
         /\ PushResult(q) \in {"Stopped", "Full", "Pushed"} =>
              AfterPush(q, v).dropped = q.dropped
  <1>1. /\ q.items \in Seq(V) /\ Len(q.items) \in Nat /\ Kept(q) \in Seq(V)
        /\ Append(Kept(q), v) \in Seq(V) /\ Len(Append(Kept(q), v)) = Len(Kept(q)) + 1
        /\ Len(Kept(q)) + 1 \in Nat
    <2>1. q.items \in Seq(V) /\ Len(q.items) \in Nat /\ Kept(q) \in Seq(V)
      BY QueueFields, KeptItems
    <2> QED
      BY <2>1, LenProperties
  <1>2. CASE PushResult(q) \in {"Pushed", "Evicted"}
    <2> DEFINE items == Append(Kept(q), v)
               dropped == IF PushResult(q) = "Evicted" THEN q.dropped + 1 ELSE q.dropped
               mark == IF Len(Kept(q)) + 1 > q.highWater THEN Len(Kept(q)) + 1 ELSE q.highWater
    <2>1. items \in Seq(V) /\ dropped \in Nat /\ mark \in Nat /\ q.pushed + 1 \in Nat
      BY <1>1, QueueFields
    <2>2. AfterPush(q, v) = [q EXCEPT !.items = items, !.pushed = q.pushed + 1,
                                      !.dropped = dropped, !.highWater = mark]
      BY <1>2 DEF AfterPush, Accepts, QueueRecords
    <2>3. PushResult(q) = "Evicted" => dropped = q.dropped + 1 /\ Len(items) = Len(q.items)
      BY <1>1, KeptItems
    <2>4. PushResult(q) # "Evicted" => dropped = q.dropped /\ Len(items) = Len(q.items) + 1
      BY <1>1, KeptItems
    <2>5. items = Append(Kept(q), v)
      OBVIOUS
    <2> HIDE DEF items, dropped, mark
    <2>6. /\ AfterPush(q, v) \in QueueRecords(V)
          /\ AfterPush(q, v).items = items /\ AfterPush(q, v).pushed = q.pushed + 1
          /\ AfterPush(q, v).dropped = dropped
      BY <2>1, <2>2 DEF QueueRecords
    <2>7. /\ AfterPush(q, v).capacity = q.capacity /\ AfterPush(q, v).policy = q.policy
          /\ AfterPush(q, v).stop = q.stop
          /\ AfterPush(q, v).popped = q.popped /\ AfterPush(q, v).abandoned = q.abandoned
      BY <2>2 DEF QueueRecords
    <2> QED
      BY <1>2, <2>3, <2>4, <2>5, <2>6, <2>7
  <1>3. CASE PushResult(q) = "Dropped"
    <2>1. AfterPush(q, v) = [q EXCEPT !.dropped = q.dropped + 1] /\ q.dropped + 1 \in Nat
      BY <1>3, QueueFields DEF AfterPush, Accepts
    <2> QED
      BY <1>3, <2>1 DEF QueueRecords
  <1>4. CASE PushResult(q) \in {"Stopped", "Full"}
    BY <1>4 DEF AfterPush, Accepts
  <1> QED
    BY <1>2, <1>3, <1>4, PushOutcome

(* Where the items are after a push: an item was there before, or is v,    *)
(* and unless one had to go they keep their places.                        *)
LEMMA PushedItems ==
  ASSUME NEW V, NEW q \in QueueRecords(V), NEW v \in V
  PROVE  LET after == AfterPush(q, v).items
         IN  /\ \A i \in 1..Len(after) : after[i] = v \/ \E j \in 1..Len(q.items) : after[i] = q.items[j]
             /\ PushResult(q) = "Pushed" =>
                  /\ \A i \in 1..Len(q.items) : after[i] = q.items[i]
                  /\ after[Len(q.items) + 1] = v
  <1> DEFINE after == AfterPush(q, v).items
             kept  == Kept(q)
  <1>1. q.items \in Seq(V) /\ Len(q.items) \in Nat /\ kept \in Seq(V) /\ Len(kept) \in Nat
    BY QueueFields, KeptItems, LenProperties
  <1>2. CASE PushResult(q) \in {"Stopped", "Full", "Dropped"}
    <2>1. after = q.items
      BY <1>2, QueuePush
    <2> QED
      BY <1>2, <2>1
  <1>3. CASE PushResult(q) \in {"Pushed", "Evicted"}
    <2>1. \A i \in 1..Len(kept) : \E j \in 1..Len(q.items) : kept[i] = q.items[j]
      <3>1. CASE PushResult(q) = "Pushed"
        BY <3>1, KeptItems
      <3>2. CASE PushResult(q) = "Evicted"
        <4>1. Len(q.items) \in Nat \ {0} /\ q.items # <<>>
          BY <3>2, KeptItems, EmptySeq
        <4>2. CASE q.policy = "DropOldest"
          <5>1. kept = Tail(q.items)
            BY <3>2, <4>2 DEF Kept
          <5>2. Len(kept) = Len(q.items) - 1 /\ \A i \in 1..Len(kept) : kept[i] = q.items[i + 1]
            BY <1>1, <4>1, <5>1, HeadTailProperties
          <5> HIDE DEF kept
          <5>3. \A i \in 1..Len(kept) : i + 1 \in 1..Len(q.items)
            BY <1>1, <4>1, <5>2
          <5> QED
            BY <5>2, <5>3
        <4>3. CASE q.policy # "DropOldest"
          <5>1. kept = SubSeq(q.items, 1, Len(q.items) - 1)
            BY <3>2, <4>3 DEF Kept
          <5>2. \A i \in 1..(Len(q.items) - 1) : q.items[i] \in V
            BY <1>1, ElementOfSeq
          <5>3. /\ Len(kept) = Len(q.items) - 1
                /\ \A i \in 1..(Len(q.items) - 1) : kept[i] = q.items[i]
            BY <1>1, <4>1, <5>1, <5>2, SubSeqProperties
          <5> HIDE DEF kept
          <5>4. \A i \in 1..Len(kept) : i \in 1..Len(q.items) /\ i \in 1..(Len(q.items) - 1)
            BY <1>1, <4>1, <5>3
          <5> QED
            BY <5>3, <5>4
        <4> QED
          BY <4>2, <4>3
      <3> QED
        BY <1>3, <3>1, <3>2
    <2>2. after = Append(kept, v)
      BY <1>3, QueuePush
    <2>3. PushResult(q) = "Pushed" => kept = q.items
      BY KeptItems
    <2> HIDE DEF after, kept
    <2>4. /\ Len(after) = Len(kept) + 1 /\ after[Len(kept) + 1] = v
          /\ \A i \in 1..Len(kept) : after[i] = kept[i]
      BY <1>1, <2>2, AppendProperties
    <2>5. \A i \in 1..Len(after) : i \in 1..Len(kept) \/ i = Len(kept) + 1
      BY <1>1, <2>4
    <2>6. \A i \in 1..Len(after) : after[i] = v \/ \E j \in 1..Len(q.items) : after[i] = q.items[j]
      BY <2>1, <2>4, <2>5
    <2> QED
      BY <2>3, <2>4, <2>6 DEF after
  <1> QED
    BY <1>2, <1>3, PushOutcome

LEMMA QueuePop ==
  ASSUME NEW V, NEW q \in QueueRecords(V), q.items # <<>>
  PROVE  /\ AfterPop(q) \in QueueRecords(V) /\ Head(q.items) \in V
         /\ AfterPop(q).items = Tail(q.items) /\ AfterPop(q).popped = q.popped + 1
         /\ Len(AfterPop(q).items) = Len(q.items) - 1 /\ Len(q.items) \in Nat \ {0}
         /\ AfterPop(q).capacity = q.capacity /\ AfterPop(q).policy = q.policy
         /\ AfterPop(q).stop = q.stop /\ AfterPop(q).pushed = q.pushed
         /\ AfterPop(q).dropped = q.dropped /\ AfterPop(q).abandoned = q.abandoned
  <1> DEFINE items == Tail(q.items)
  <1>1. items \in Seq(V) /\ Len(items) = Len(q.items) - 1 /\ Head(q.items) \in V
        /\ Len(q.items) \in Nat \ {0}
    <2>1. q.items \in Seq(V)
      BY QueueFields
    <2> QED
      BY <2>1, HeadTailProperties, EmptySeq
  <1>2. q.popped + 1 \in Nat
    BY QueueFields
  <1>3. AfterPop(q) = [q EXCEPT !.items = items, !.popped = q.popped + 1]
    BY DEF AfterPop, QueueRecords
  <1>4. items = Tail(q.items)
    OBVIOUS
  <1> HIDE DEF items
  <1>5. AfterPop(q) \in QueueRecords(V) /\ AfterPop(q).items = items
        /\ AfterPop(q).popped = q.popped + 1
    BY <1>1, <1>2, <1>3 DEF QueueRecords
  <1>6. /\ AfterPop(q).capacity = q.capacity /\ AfterPop(q).policy = q.policy
        /\ AfterPop(q).stop = q.stop /\ AfterPop(q).pushed = q.pushed
        /\ AfterPop(q).dropped = q.dropped /\ AfterPop(q).abandoned = q.abandoned
    BY <1>3 DEF QueueRecords
  <1> QED
    BY <1>1, <1>4, <1>5, <1>6

(* pop() takes the first item, and the others move up.                     *)
LEMMA PoppedItems ==
  ASSUME NEW V, NEW q \in QueueRecords(V), q.items # <<>>
  PROVE  /\ Head(q.items) = q.items[1] /\ 1 \in 1..Len(q.items)
         /\ \A i \in 1..Len(AfterPop(q).items) :
              i + 1 \in 1..Len(q.items) /\ AfterPop(q).items[i] = q.items[i + 1]
  <1>1. q.items \in Seq(V) /\ Len(q.items) \in Nat \ {0}
    BY QueueFields, EmptySeq
  <1>2. AfterPop(q).items = Tail(q.items)
    BY QueuePop
  <1>3. /\ Len(Tail(q.items)) = Len(q.items) - 1
        /\ \A i \in 1..Len(Tail(q.items)) : Tail(q.items)[i] = q.items[i + 1]
    BY <1>1, HeadTailProperties
  <1>4. \A i \in 1..Len(Tail(q.items)) : i + 1 \in 1..Len(q.items)
    BY <1>1, <1>3
  <1>5. Head(q.items) = q.items[1] /\ 1 \in 1..Len(q.items)
    BY <1>1
  <1> QED
    BY <1>2, <1>3, <1>4, <1>5

LEMMA QueueStops ==
  ASSUME NEW V, NEW q \in QueueRecords(V)
  PROVE  /\ AfterStop(q) \in QueueRecords(V) /\ AfterStop(q).stop
         /\ AfterStop(q).items = q.items
         /\ AfterStop(q).capacity = q.capacity /\ AfterStop(q).policy = q.policy
         /\ AfterStop(q).pushed = q.pushed /\ AfterStop(q).popped = q.popped
         /\ AfterStop(q).dropped = q.dropped /\ AfterStop(q).abandoned = q.abandoned
  BY DEF AfterStop, QueueRecords

LEMMA QueueAbandons ==
  ASSUME NEW V, NEW q \in QueueRecords(V)
  PROVE  /\ AfterAbandon(q) \in QueueRecords(V) /\ AfterAbandon(q).items = <<>>
         /\ AfterAbandon(q).stop = q.stop
         /\ AfterAbandon(q).capacity = q.capacity /\ AfterAbandon(q).policy = q.policy
         /\ AfterAbandon(q).pushed = q.pushed /\ AfterAbandon(q).popped = q.popped
         /\ AfterAbandon(q).dropped = q.dropped
  <1>1. <<>> \in Seq(V) /\ q.abandoned + Len(q.items) \in Nat
    BY EmptySeq, QueueFields
  <1>2. AfterAbandon(q) = [q EXCEPT !.items = <<>>, !.abandoned = q.abandoned + Len(q.items)]
    BY DEF AfterAbandon, QueueRecords
  <1> DEFINE n == q.abandoned + Len(q.items)
  <1> HIDE DEF n
  <1>3. n \in Nat /\ AfterAbandon(q) = [q EXCEPT !.items = <<>>, !.abandoned = n]
    BY <1>1, <1>2 DEF n
  <1> QED
    BY <1>1, <1>3 DEF QueueRecords
=============================================================================
