------------------------ MODULE RecordingServiceProofs ------------------------
(***************************************************************************)
(* The two recording services and the wideband sweep.  The service of      *)
(* esw_dfl forgets no block: a proof of NoBlockForgotten for every set of  *)
(* options, every number of blocks and of failures; that of sdr_monitor,   *)
(* in the second part, completes no take that is not whole; and what is    *)
(* told of a sweep, in the third, is true.                                 *)
(*                                                                         *)
(* The argument is the order of the blocks.  What is on disk came before   *)
(* what the worker holds, that before what is queued, and that before the  *)
(* block being submitted.  So the gap that write_block() fills in between  *)
(* two blocks of the first can only hold numbers that are nowhere else,    *)
(* and a writer of the second that met its sentinel has met all the rest.  *)
(* Of the sweep the planner is arithmetic, and the rest follows one run,   *)
(* its worker and the engine of its service.                               *)
(***************************************************************************)
EXTENDS RecordingService, MonitorRecording, WidebandSweep, FiniteSetTheorems,
        SequenceTheorems, TLAPS

ClientSteps == {"idle", "put", "evict", "putAgain", "drain", "sentinel", "join", "close"}
PutSteps == {"put", "evict", "putAgain"}
StopSteps == {"drain", "sentinel", "join", "close"}
WorkerSteps == {"none", "get", "write", "failing", "ended"}
FileStates == {"none", "part", "complete", "aborted"}

Counts == [enqueued : Nat, dropped : Nat, abandoned : Nat]
Clients == [at : ClientSteps, timed : BOOLEAN, call : StopCalls]
Files == [state : FileStates, written : SUBSET Nat, gaps : SUBSET Nat, expected : Nat]

TypeOK ==
  /\ options \in Options
  /\ running \in BOOLEAN /\ cancelled \in BOOLEAN /\ error \in BOOLEAN /\ stop \in BOOLEAN
  /\ queue \in Seq(Nat)
  /\ count \in Counts /\ client \in Clients /\ file \in Files
  /\ worker \in WorkerSteps
  /\ hand \in Nat
  /\ offered \in Nat /\ faults \in Nat

(* Which of the client, the worker and the file can be where.              *)
Lifecycle ==
  /\ running => file.state = "part"
  /\ ~running => worker \in {"none", "ended"}
  /\ file.state = "none" => worker = "none" /\ offered = 0
  /\ file.state \in {"none", "complete", "aborted"} => client.at = "idle" /\ ~running
  /\ client.at \notin {"idle", "close"} => running
  /\ client.at = "close" => ~running
  /\ worker = "none" => file.state = "none"

(* What the worker's place says of the block in its hand and of the queue. *)
WorkerHolds ==
  /\ worker \in {"none", "get"} => hand = 0
  /\ worker = "write" => hand # 0
  /\ worker = "failing" => error
  /\ worker = "none" => queue = <<>>
  /\ worker = "ended" /\ ~error =>
       hand = 0 /\ queue = <<>> /\ (running => client.at = "join")

CancelIsKnown == client.at \in StopSteps => (cancelled <=> client.call = "cancel")

(* The None of the stop request is the last item of the queue.             *)
SentinelIsLast ==
  \A i \in 1..Len(queue) :
    queue[i] = 0 => i = Len(queue) /\ (running => client.at = "join")

(* The queue is in the order of submission.                                *)
Increasing ==
  \A i, j \in 1..Len(queue) : i < j /\ queue[j] # 0 => queue[i] < queue[j]

(* The last block that is not being submitted.                             *)
LastGiven == IF client.at \in PutSteps THEN offered - 1 ELSE offered

InOrder ==
  /\ client.at \in PutSteps => offered # 0
  /\ \A n \in Queued : hand < n /\ file.expected <= n /\ n <= LastGiven
  /\ hand # 0 => file.expected <= hand
  /\ hand <= LastGiven
  /\ file.expected <= LastGiven + 1
  /\ \A n \in file.written : 0 < n /\ n < file.expected

(* Who keeps a block that is not lost.                                     *)
Kept == file.written \cup Queued \cup Submitting \cup ({hand} \ {0})

GapsAreLost == file.gaps \cap Kept = {}

(* Every number given has its place, and those lost are counted.           *)
AllKeptOrLost == 1..offered = file.gaps \cup Kept
LostAreCounted == count.dropped = offered - Cardinality(Kept)

NothingStranded == ~running /\ ~error => queue = <<>>

-----------------------------------------------------------------------------
(* The items of a queue, and what taking and adding one does to them.      *)
Items(q) == {q[i] : i \in 1..Len(q)}

LEMMA ItemsOfTail ==
  ASSUME NEW q \in Seq(Nat), q # <<>>
  PROVE  Items(q) = {Head(q)} \cup Items(Tail(q))
  <1>1. Len(q) \in Nat \ {0} /\ Len(Tail(q)) = Len(q) - 1
        /\ \A i \in 1..Len(Tail(q)) : Tail(q)[i] = q[i + 1]
    BY EmptySeq, HeadTailProperties
  <1>2. Head(q) = q[1] OBVIOUS
  <1>3. ASSUME NEW i \in 1..Len(q) PROVE q[i] \in {Head(q)} \cup Items(Tail(q))
    <2>1. CASE i = 1 BY <1>2, <2>1
    <2>2. CASE i # 1
      <3>1. i - 1 \in 1..Len(Tail(q)) /\ Tail(q)[i - 1] = q[i] BY <1>1, <2>2
      <3> QED BY <3>1 DEF Items
    <2> QED BY <2>1, <2>2
  <1>4. ASSUME NEW i \in 1..Len(Tail(q)) PROVE Tail(q)[i] \in Items(q)
    <2>1. i + 1 \in 1..Len(q) /\ Tail(q)[i] = q[i + 1] BY <1>1
    <2> QED BY <2>1 DEF Items
  <1>5. Head(q) \in Items(q) BY <1>1, <1>2 DEF Items
  <1> QED BY <1>3, <1>4, <1>5 DEF Items

LEMMA ItemsOfAppend ==
  ASSUME NEW q \in Seq(Nat), NEW n \in Nat
  PROVE  Items(Append(q, n)) = Items(q) \cup {n}
  <1>1. Len(q) \in Nat BY LenProperties
  <1>2. Len(Append(q, n)) = Len(q) + 1 /\ Append(q, n)[Len(q) + 1] = n
        /\ \A i \in 1..Len(q) : Append(q, n)[i] = q[i]
    BY <1>1
  <1>3. \A i \in 1..Len(Append(q, n)) : i \in 1..Len(q) \/ i = Len(q) + 1
    BY <1>1, <1>2
  <1>4. Len(q) + 1 \in 1..Len(Append(q, n)) /\ 1..Len(q) \subseteq 1..Len(Append(q, n))
    BY <1>1, <1>2
  <1> QED BY <1>2, <1>3, <1>4 DEF Items

(* The first item, when it is a block, is the least and is there once.     *)
LEMMA HeadIsLeast ==
  ASSUME TypeOK, SentinelIsLast, Increasing, queue # <<>>
  PROVE  /\ Head(queue) \in Nat /\ Tail(queue) \in Seq(Nat)
         /\ \A n \in Items(Tail(queue)) : n # 0 => Head(queue) < n
         /\ Head(queue) = 0 => Tail(queue) = <<>> /\ (running => client.at = "join")
  <1>1. queue \in Seq(Nat) BY DEF TypeOK
  <1>2. /\ Len(queue) \in Nat \ {0} /\ Len(Tail(queue)) = Len(queue) - 1
        /\ \A i \in 1..Len(Tail(queue)) : Tail(queue)[i] = queue[i + 1]
        /\ Head(queue) \in Nat /\ Tail(queue) \in Seq(Nat)
    BY <1>1, EmptySeq, HeadTailProperties
  <1>3. Head(queue) = queue[1] BY <1>1
  <1>4. ASSUME NEW n \in Items(Tail(queue)), n # 0 PROVE Head(queue) < n
    <2>1. PICK i \in 1..Len(Tail(queue)) : n = Tail(queue)[i]
      BY <1>4 DEF Items
    <2>2. i + 1 \in 1..Len(queue) /\ 1 \in 1..Len(queue) /\ 1 < i + 1 /\ queue[i + 1] = n
      BY <1>2, <2>1
    <2>3. \A j \in 1..Len(queue) : 1 < j /\ queue[j] # 0 => queue[1] < queue[j]
      BY <2>2 DEF Increasing
    <2> QED BY <1>3, <1>4, <2>2, <2>3
  <1>5. ASSUME Head(queue) = 0 PROVE Tail(queue) = <<>> /\ (running => client.at = "join")
    <2>1. 1 \in 1..Len(queue) BY <1>2
    <2>2. 1 = Len(queue) /\ (running => client.at = "join")
      BY <1>3, <1>5, <2>1 DEF SentinelIsLast
    <2>3. Len(Tail(queue)) = Len(queue) - 1 /\ Tail(queue) \in Seq(Nat) BY <1>2
    <2>4. Len(Tail(queue)) = 0 BY <2>2, <2>3
    <2>5. Tail(queue) = <<>> BY <2>3, <2>4, EmptySeq
    <2> QED BY <2>2, <2>5
  <1> QED BY <1>2, <1>4, <1>5

(* What is left of an ordered queue is an ordered queue.                   *)
LEMMA TailIsOrdered ==
  ASSUME TypeOK, SentinelIsLast, Increasing, queue # <<>>, queue' = Tail(queue),
         running' = running, client'.at = "join" \/ client.at # "join"
  PROVE  SentinelIsLast' /\ Increasing'
  <1>1. queue \in Seq(Nat) BY DEF TypeOK
  <1>2. /\ Len(queue) \in Nat \ {0} /\ Len(Tail(queue)) = Len(queue) - 1
        /\ \A i \in 1..Len(Tail(queue)) : Tail(queue)[i] = queue[i + 1]
    BY <1>1, EmptySeq, HeadTailProperties
  <1>3. ASSUME NEW i \in 1..Len(Tail(queue)) PROVE i + 1 \in 1..Len(queue)
    BY <1>2
  <1>4. SentinelIsLast'
    <2>1. ASSUME NEW i \in 1..Len(queue'), queue'[i] = 0
          PROVE  i = Len(queue') /\ (running' => client'.at = "join")
      <3>1. queue[i + 1] = 0 /\ i + 1 \in 1..Len(queue) BY <1>2, <1>3, <2>1
      <3>2. i + 1 = Len(queue) /\ (running => client.at = "join")
        BY <3>1 DEF SentinelIsLast
      <3>3. Len(queue') = Len(queue) - 1 /\ Len(queue) \in Nat /\ i \in Nat
        BY <1>2
      <3>4. i = Len(queue') BY <3>2, <3>3
      <3> QED BY <3>2, <3>4
    <2> QED BY <2>1 DEF SentinelIsLast
  <1>5. Increasing'
    <2>1. ASSUME NEW i \in 1..Len(queue'), NEW j \in 1..Len(queue'), i < j, queue'[j] # 0
          PROVE  queue'[i] < queue'[j]
      <3>1. i + 1 \in 1..Len(queue) /\ j + 1 \in 1..Len(queue) /\ i + 1 < j + 1
            /\ queue'[i] = queue[i + 1] /\ queue'[j] = queue[j + 1]
        BY <1>2, <1>3, <2>1
      <3>2. \A a, b \in 1..Len(queue) : a < b /\ queue[b] # 0 => queue[a] < queue[b]
        BY DEF Increasing
      <3>3. queue[j + 1] # 0 BY <2>1, <3>1
      <3>4. queue[i + 1] < queue[j + 1] BY <3>1, <3>2, <3>3, Zenon
      <3> QED BY <3>1, <3>4
    <2> QED BY <2>1 DEF Increasing
  <1> QED BY <1>4, <1>5

-----------------------------------------------------------------------------
(* Types                                                                   *)

LEMMA InitTypes == Init => TypeOK
  <1> SUFFICES ASSUME Init PROVE TypeOK
    OBVIOUS
  <1> USE DEF Init
  <1>1. options \in Options /\ hand \in Nat /\ offered \in Nat /\ faults \in Nat
        /\ running \in BOOLEAN /\ cancelled \in BOOLEAN /\ error \in BOOLEAN /\ stop \in BOOLEAN
    OBVIOUS
  <1>2. queue \in Seq(Nat) OBVIOUS
  <1>3. count \in Counts BY DEF Counts
  <1>4. client \in Clients BY DEF Clients, ClientSteps, StopCalls
  <1>5. worker \in WorkerSteps BY DEF WorkerSteps
  <1>6. file \in Files BY DEF Files, FileStates
  <1> QED BY <1>1, <1>2, <1>3, <1>4, <1>5, <1>6 DEF TypeOK

(* What the client's moves, a gap and the counters do to the records.      *)
LEMMA ClientGoes ==
  ASSUME TypeOK, NEW at \in ClientSteps, Goto(at)
  PROVE  /\ client' \in Clients /\ client'.at = at
         /\ client'.call = client.call /\ client'.timed = client.timed
  BY DEF TypeOK, Clients, Goto

LEMMA GapIsRecorded ==
  ASSUME TypeOK, NEW n \in Nat, RecordDrop(n)
  PROVE  /\ file' \in Files /\ file'.gaps = file.gaps \cup {n}
         /\ file'.state = file.state /\ file'.written = file.written
         /\ file'.expected = file.expected
  BY DEF TypeOK, Files, RecordDrop

LEMMA CountsAreCounts ==
  ASSUME TypeOK
  PROVE  /\ [count EXCEPT !.enqueued = @ + 1] \in Counts
         /\ [count EXCEPT !.dropped = @ + 1] \in Counts
         /\ [count EXCEPT !.dropped = @ + 1, !.abandoned = @ + 1] \in Counts
         /\ [count EXCEPT !.enqueued = @ + 1].dropped = count.dropped
         /\ [count EXCEPT !.dropped = @ + 1].dropped = count.dropped + 1
         /\ [count EXCEPT !.dropped = @ + 1, !.abandoned = @ + 1].dropped = count.dropped + 1
  <1>1. /\ count.enqueued \in Nat /\ count.dropped \in Nat /\ count.abandoned \in Nat
        /\ count = [enqueued |-> count.enqueued, dropped |-> count.dropped,
                    abandoned |-> count.abandoned]
    BY DEF TypeOK, Counts
  <1>2. [count EXCEPT !.enqueued = @ + 1]
          = [enqueued |-> count.enqueued + 1, dropped |-> count.dropped,
             abandoned |-> count.abandoned]
    BY <1>1
  <1>3. [count EXCEPT !.dropped = @ + 1]
          = [enqueued |-> count.enqueued, dropped |-> count.dropped + 1,
             abandoned |-> count.abandoned]
    BY <1>1
  <1>5. /\ [count EXCEPT !.enqueued = @ + 1] \in Counts
        /\ [count EXCEPT !.enqueued = @ + 1].dropped = count.dropped
    BY <1>1, <1>2 DEF Counts
  <1>6. /\ [count EXCEPT !.dropped = @ + 1] \in Counts
        /\ [count EXCEPT !.dropped = @ + 1].dropped = count.dropped + 1
    BY <1>1, <1>3 DEF Counts
  <1>7. /\ [count EXCEPT !.dropped = @ + 1, !.abandoned = @ + 1] \in Counts
        /\ [count EXCEPT !.dropped = @ + 1, !.abandoned = @ + 1].dropped = count.dropped + 1
    <2>1. [count EXCEPT !.dropped = @ + 1, !.abandoned = @ + 1] \in Counts
      <3>1. ASSUME NEW c \in Counts, NEW d \in Nat, NEW a \in Nat
            PROVE  [c EXCEPT !.dropped = d, !.abandoned = a] \in Counts
        BY DEF Counts
      <3>2. count \in Counts /\ count.dropped + 1 \in Nat /\ count.abandoned + 1 \in Nat
        BY <1>1 DEF TypeOK
      <3> QED BY <3>1, <3>2
    <2>2. [count EXCEPT !.dropped = @ + 1, !.abandoned = @ + 1].dropped = count.dropped + 1
      BY DEF TypeOK, Counts
    <2> QED BY <2>1, <2>2
  <1> QED BY <1>5, <1>6, <1>7

LEMMA QueueTypes ==
  ASSUME TypeOK
  PROVE  /\ queue # <<>> => Head(queue) \in Nat /\ Tail(queue) \in Seq(Nat)
         /\ \A n \in Nat : Append(queue, n) \in Seq(Nat)
  <1>1. queue \in Seq(Nat) BY DEF TypeOK
  <1> QED BY <1>1, HeadTailProperties

LEMMA StepTypes == TypeOK /\ [Next]_vars => TypeOK'
  <1> SUFFICES ASSUME TypeOK, [Next]_vars PROVE TypeOK'
    OBVIOUS
  <1>1. /\ \A at \in ClientSteps : Goto(at) => client' \in Clients
        /\ \A n \in Nat : RecordDrop(n) => file' \in Files
        /\ offered \in Nat
    BY ClientGoes, GapIsRecorded DEF TypeOK
  <1>2. {"idle", "evict", "putAgain", "drain", "sentinel", "join", "close"} \subseteq ClientSteps
    BY DEF ClientSteps
  <1>3. ASSUME Enqueued PROVE TypeOK'
    BY <1>1, <1>2, <1>3, CountsAreCounts, QueueTypes DEF TypeOK, Enqueued, Return, flags
  <1>4. ASSUME NEW may \in BOOLEAN, Refused(may) PROVE TypeOK'
    <2>1. stop' \in BOOLEAN BY <1>4 DEF Refused
    <2> QED
      BY <1>1, <1>2, <1>4, <2>1, CountsAreCounts DEF TypeOK, Refused, Return
  <1>5. CASE Start
    <2>1. file' \in Files BY <1>5 DEF Start, TypeOK, Files, FileStates
    <2> QED BY <1>5, <2>1 DEF Start, TypeOK, WorkerSteps
  <1>6. CASE Submit
    <2>1. client' \in Clients BY <1>6 DEF Submit, TypeOK, Clients, ClientSteps
    <2> QED BY <1>6, <2>1 DEF Submit, TypeOK, flags
  <1>7. CASE Stop
    <2>1. client' \in Clients BY <1>7 DEF Stop, TypeOK, Clients, ClientSteps
    <2>2. cancelled' \in BOOLEAN /\ stop' \in BOOLEAN BY <1>7 DEF Stop
    <2> QED BY <1>7, <2>1, <2>2 DEF Stop, TypeOK
  <1>8. CASE PutBlocking BY <1>3, <1>4, <1>8 DEF PutBlocking
  <1>9. CASE PutNowait
    <2>1. ASSUME Goto("evict"), UNCHANGED <<options, flags, queue, count, worker, hand, file,
                                            offered, faults>>
          PROVE  TypeOK'
      BY <1>1, <1>2, <2>1 DEF TypeOK, flags
    <2> QED BY <1>3, <1>4, <1>9, <2>1 DEF PutNowait
  <1>10. CASE Evict
    BY <1>1, <1>2, <1>10, CountsAreCounts, QueueTypes DEF Evict, TypeOK, flags
  <1>11. CASE PutAgain BY <1>3, <1>4, <1>11 DEF PutAgain
  <1>12. CASE Drain
    BY <1>1, <1>2, <1>12, CountsAreCounts, QueueTypes DEF Drain, TypeOK, flags
  <1>13. CASE PutSentinel
    BY <1>1, <1>2, <1>13, QueueTypes DEF PutSentinel, TypeOK, flags
  <1>14. CASE Join BY <1>1, <1>2, <1>14 DEF Join, TypeOK
  <1>15. CASE CloseFile
    <2>1. file' \in Files BY <1>15 DEF CloseFile, TypeOK, Files, FileStates
    <2> QED BY <1>1, <1>2, <1>15, <2>1 DEF CloseFile, Return, TypeOK, flags
  <1>16. CASE FinalizeFails
    <2>1. file' \in Files BY <1>16 DEF FinalizeFails, TypeOK, Files, FileStates
    <2> QED BY <1>1, <1>2, <1>16, <2>1 DEF FinalizeFails, Return, TypeOK
  <1>17. CASE WorkerGet
    BY <1>17, QueueTypes DEF WorkerGet, TypeOK, WorkerSteps, flags
  <1>18. CASE WorkerWrite
    <2>1. file' \in Files
      <3>1. hand \in Nat /\ file.expected \in Nat
            /\ file.written \in SUBSET Nat /\ file.gaps \in SUBSET Nat
        BY DEF TypeOK, Files
      <3>2. file.written \cup {hand} \in SUBSET Nat BY <3>1
      <3>3. {n \in file.expected..(hand - 1) : file.expected # 0} \in SUBSET Nat
        BY <3>1
      <3>4. file.state \in FileStates
            /\ file' = [state |-> file.state, written |-> file.written \cup {hand},
                        gaps |-> file.gaps \cup {n \in file.expected..(hand - 1) : file.expected # 0},
                        expected |-> hand + 1]
        BY <1>18 DEF WorkerWrite, TypeOK, Files
      <3>5. /\ file.gaps \cup {n \in file.expected..(hand - 1) : file.expected # 0} \in SUBSET Nat
            /\ hand + 1 \in Nat
        BY <3>1, <3>3
      <3> QED BY <3>2, <3>4, <3>5 DEF Files
    <2> QED BY <1>18, <2>1 DEF WorkerWrite, TypeOK, WorkerSteps, flags
  <1>19. CASE WriteFails BY <1>19 DEF WriteFails, TypeOK, WorkerSteps
  <1>20. CASE WorkerEnds BY <1>20 DEF WorkerEnds, TypeOK, WorkerSteps
  <1>21. CASE UNCHANGED vars BY <1>21 DEF vars, flags, TypeOK
  <1> QED
    BY <1>5, <1>6, <1>7, <1>8, <1>9, <1>10, <1>11, <1>12, <1>13, <1>14, <1>15, <1>16,
       <1>17, <1>18, <1>19, <1>20, <1>21 DEF Next, Call, Continue, Worker

-----------------------------------------------------------------------------
(* Where everybody is                                                      *)

Control == Lifecycle /\ WorkerHolds /\ CancelIsKnown /\ NothingStranded

LEMMA StepControl ==
  ASSUME TypeOK, SentinelIsLast, Increasing, Control, [Next]_vars
  PROVE  Control'
  <1> USE DEF Control, Lifecycle, WorkerHolds, CancelIsKnown, NothingStranded, StopSteps
  <1>1. /\ \A at \in ClientSteps :
             Goto(at) => client'.at = at /\ client'.call = client.call
        /\ \A n \in Nat : RecordDrop(n) => file'.state = file.state
        /\ queue # <<>> =>
             /\ Head(queue) \in Nat
             /\ Head(queue) = 0 => Tail(queue) = <<>> /\ (running => client.at = "join")
    BY ClientGoes, GapIsRecorded, HeadIsLeast
  <1>2. {"idle", "evict", "putAgain", "drain", "sentinel", "join", "close"} \subseteq ClientSteps
    BY DEF ClientSteps
  <1>3. /\ client.at \in ClientSteps /\ client.call \in StopCalls
        /\ worker \in WorkerSteps /\ file.state \in FileStates /\ offered \in Nat
    BY DEF TypeOK, Clients, Files
  <1>4. ASSUME Enqueued, client.at \in PutSteps PROVE Control'
    BY <1>1, <1>2, <1>4 DEF Enqueued, Return, flags, PutSteps
  <1>5. ASSUME NEW may, Refused(may), client.at \in PutSteps PROVE Control'
    BY <1>1, <1>2, <1>3, <1>5 DEF Refused, Return, PutSteps
  <1>6. CASE Start
    <2>1. file'.state = "part" BY <1>6 DEF Start, TypeOK, Files
    <2> QED BY <1>6, <2>1 DEF Start
  <1>7. CASE Submit
    <2>1. client'.at = "put" BY <1>7 DEF Submit, TypeOK, Clients
    <2> QED BY <1>3, <1>7, <2>1 DEF Submit, flags
  <1>8. CASE Stop
    <2>1. /\ client'.at \in {"drain", "sentinel"}
          /\ cancelled' = (client'.call = "cancel")
      BY <1>8 DEF Stop, TypeOK, Clients
    <2> QED BY <1>8, <2>1 DEF Stop
  <1>9. CASE PutBlocking BY <1>4, <1>5, <1>9 DEF PutBlocking, PutSteps
  <1>10. CASE PutNowait
    <2>1. ASSUME Goto("evict"), UNCHANGED <<options, flags, queue, count, worker, hand, file,
                                            offered, faults>>
          PROVE  Control'
      BY <1>1, <1>2, <1>10, <2>1 DEF PutNowait, flags
    <2> QED BY <1>4, <1>5, <1>10, <2>1 DEF PutNowait, PutSteps
  <1>11. CASE Evict BY <1>1, <1>2, <1>11 DEF Evict, flags
  <1>12. CASE PutAgain BY <1>4, <1>5, <1>12 DEF PutAgain, PutSteps
  <1>13. CASE Drain BY <1>1, <1>2, <1>13 DEF Drain, flags
  <1>14. CASE PutSentinel BY <1>1, <1>2, <1>14 DEF PutSentinel, flags
  <1>15. CASE Join BY <1>1, <1>2, <1>15 DEF Join
  <1>16. CASE CloseFile
    <2>1. file'.state \in {"complete", "aborted"}
      BY <1>16 DEF CloseFile, TypeOK, Files
    <2> QED BY <1>1, <1>2, <1>16, <2>1 DEF CloseFile, Return, flags
  <1>17. CASE FinalizeFails
    <2>1. file'.state = "aborted" BY <1>17 DEF FinalizeFails, TypeOK, Files
    <2> QED BY <1>1, <1>2, <1>17, <2>1 DEF FinalizeFails, Return
  <1>18. CASE WorkerGet BY <1>1, <1>18 DEF WorkerGet, flags
  <1>19. CASE WorkerWrite
    <2>1. file'.state = file.state BY <1>19 DEF WorkerWrite, TypeOK, Files
    <2> QED BY <1>19, <2>1 DEF WorkerWrite, flags
  <1>20. CASE WriteFails BY <1>20 DEF WriteFails
  <1>21. CASE WorkerEnds BY <1>21 DEF WorkerEnds
  <1>22. CASE UNCHANGED vars BY <1>22 DEF vars, flags
  <1> QED
    BY <1>6, <1>7, <1>8, <1>9, <1>10, <1>11, <1>12, <1>13, <1>14, <1>15, <1>16, <1>17,
       <1>18, <1>19, <1>20, <1>21, <1>22 DEF Next, Call, Continue, Worker

-----------------------------------------------------------------------------
(* The order of the blocks                                                 *)

Order == SentinelIsLast /\ Increasing /\ InOrder

LEMMA AppendKeepsOrder ==
  ASSUME TypeOK, Increasing, NEW n \in Nat, queue' = Append(queue, n),
         \A m \in Items(queue) : m # 0 /\ (n # 0 => m < n),
         n = 0 => client'.at = "join"
  PROVE  SentinelIsLast' /\ Increasing'
  <1>1. queue \in Seq(Nat) /\ Len(queue) \in Nat BY LenProperties DEF TypeOK
  <1>2. /\ Len(queue') = Len(queue) + 1 /\ queue'[Len(queue) + 1] = n
        /\ \A i \in 1..Len(queue) : queue'[i] = queue[i]
    BY <1>1
  <1>3. \A i \in 1..Len(queue) : queue[i] # 0 /\ (n # 0 => queue[i] < n)
    BY DEF Items
  <1>4. ASSUME NEW i \in 1..Len(queue'), queue'[i] = 0
        PROVE  i = Len(queue') /\ client'.at = "join"
    <2>1. i \notin 1..Len(queue) BY <1>2, <1>3, <1>4
    <2>2. i = Len(queue) + 1 BY <1>1, <1>2, <1>4, <2>1
    <2>3. n = 0 BY <1>2, <1>4, <2>2
    <2> QED BY <1>2, <2>2, <2>3
  <1>5. ASSUME NEW i \in 1..Len(queue'), NEW j \in 1..Len(queue'), i < j, queue'[j] # 0
        PROVE  queue'[i] < queue'[j]
    <2>1. i \in 1..Len(queue) BY <1>1, <1>2, <1>5
    <2>2. CASE j \in 1..Len(queue) BY <1>2, <1>5, <2>1, <2>2 DEF Increasing
    <2>3. CASE j \notin 1..Len(queue)
      <3>1. j = Len(queue) + 1 BY <1>1, <1>2, <2>3
      <3> QED BY <1>2, <1>3, <1>5, <2>1, <3>1
    <2> QED BY <2>2, <2>3
  <1> QED BY <1>4, <1>5 DEF SentinelIsLast, Increasing

(* A step that leaves the queue alone, and one that only removes from it.  *)
LEMMA QueueStays ==
  ASSUME SentinelIsLast, Increasing, queue' = queue,
         \/ queue = <<>>
         \/ running' => running /\ (client.at = "join" => client'.at = "join")
  PROVE  SentinelIsLast' /\ Increasing'
  <1>1. Increasing' BY DEF Increasing
  <1>2. CASE queue = <<>>
    <2>1. Len(queue') = 0 BY <1>2
    <2> QED BY <1>1, <2>1 DEF SentinelIsLast
  <1>3. CASE running' => running /\ (client.at = "join" => client'.at = "join")
    BY <1>1, <1>3 DEF SentinelIsLast
  <1> QED BY <1>2, <1>3

LEMMA InOrderStays ==
  ASSUME TypeOK, TypeOK', InOrder, Queued' \subseteq Queued, hand' = hand,
         file'.expected = file.expected, file'.written = file.written,
         LastGiven' \in Nat, LastGiven <= LastGiven',
         client'.at \in PutSteps => offered' # 0
  PROVE  InOrder'
  <1>1. hand \in Nat /\ file.expected \in Nat /\ LastGiven \in Nat
        /\ Queued \in SUBSET Nat
    <2>1. queue \in Seq(Nat) /\ offered \in Nat /\ file \in Files BY DEF TypeOK
    <2>2. Queued \in SUBSET Nat BY <2>1, ElementOfSeq DEF Queued
    <2> QED BY <2>1, <2>2 DEF InOrder, LastGiven, TypeOK, Files
  <1>2. \A n \in Queued' : hand' < n /\ file'.expected <= n /\ n <= LastGiven'
    <2>1. TAKE n \in Queued'
    <2>2. n \in Nat /\ hand < n /\ file.expected <= n /\ n <= LastGiven
      BY <1>1 DEF InOrder
    <2> QED BY <1>1, <2>2
  <1>3. hand' <= LastGiven' /\ file'.expected <= LastGiven' + 1
    BY <1>1 DEF InOrder
  <1> QED BY <1>2, <1>3 DEF InOrder

(* No sentinel is in the queue as long as the client has not sent it.      *)
LEMMA NoSentinelYet ==
  ASSUME TypeOK, SentinelIsLast, running, client.at # "join"
  PROVE  /\ \A m \in Items(queue) : m # 0
         /\ Queued = Items(queue)
  BY DEF Items, Queued, SentinelIsLast

(* Taking the first item.                                                  *)
LEMMA HeadLeaves ==
  ASSUME TypeOK, SentinelIsLast, Increasing, queue # <<>>, queue' = Tail(queue)
  PROVE  /\ Head(queue) = 0 => Queued = {} /\ Queued' = {}
         /\ Head(queue) # 0 =>
              /\ Queued = Queued' \cup {Head(queue)}
              /\ \A n \in Queued' : Head(queue) < n
         /\ Queued' \subseteq Queued
  <1>1. Items(queue) = {Head(queue)} \cup Items(Tail(queue))
    BY ItemsOfTail DEF TypeOK
  <1>2. Queued = Items(queue) \ {0} /\ Queued' = Items(Tail(queue)) \ {0}
    BY DEF Queued, Items
  <1>3. /\ \A n \in Items(Tail(queue)) : n # 0 => Head(queue) < n
        /\ Head(queue) = 0 => Tail(queue) = <<>>
    BY HeadIsLeast
  <1>4. CASE Head(queue) = 0
    <2>1. Tail(queue) = <<>> BY <1>3, <1>4
    <2>2. Items(<<>>) = {} BY DEF Items
    <2> QED BY <1>1, <1>2, <1>4, <2>1, <2>2
  <1>5. CASE Head(queue) # 0 BY <1>1, <1>2, <1>3, <1>5
  <1> QED BY <1>4, <1>5

LEMMA StepOrder ==
  ASSUME TypeOK, TypeOK', Control, Control', Order, [Next]_vars
  PROVE  Order'
  <1> USE DEF Order, PutSteps
  <1>1. /\ client.at \in ClientSteps /\ worker \in WorkerSteps
        /\ offered \in Nat /\ hand \in Nat /\ queue \in Seq(Nat)
        /\ file.expected \in Nat /\ LastGiven \in Nat
        /\ Queued \in SUBSET Nat
    <2>1. Queued \in SUBSET Nat BY ElementOfSeq DEF TypeOK, Queued
    <2> QED BY <2>1 DEF TypeOK, Clients, Files, InOrder, LastGiven
  <1>2. /\ \A at \in ClientSteps :
             Goto(at) => client'.at = at /\ client'.call = client.call
        /\ \A n \in Nat : RecordDrop(n) =>
             file'.expected = file.expected /\ file'.written = file.written
    BY ClientGoes, GapIsRecorded
  <1>3. {"idle", "evict", "putAgain", "drain", "sentinel", "join", "close"} \subseteq ClientSteps
    BY DEF ClientSteps
  (* Most steps move neither a block on disk nor the one in hand.          *)
  <1>4. ASSUME Queued' \subseteq Queued, SentinelIsLast', Increasing', hand' = hand,
               file'.expected = file.expected, file'.written = file.written,
               LastGiven' \in Nat, LastGiven <= LastGiven',
               client'.at \in PutSteps => offered' # 0
        PROVE  Order'
    BY <1>4, InOrderStays
  <1>5. ASSUME queue' = queue, hand' = hand, offered' = offered,
               queue = <<>> \/ (running' => running),
               client.at = "join" => client'.at = "join" \/ ~running',
               client'.at \in PutSteps => client.at \in PutSteps,
               file'.expected = file.expected, file'.written = file.written
        PROVE  Order'
    <2>1. SentinelIsLast' /\ Increasing'
      <3>1. CASE client.at = "join" => client'.at = "join"
        BY <1>5, <3>1, QueueStays
      <3>2. CASE ~running' BY <1>5, <3>2 DEF SentinelIsLast, Increasing
      <3> QED BY <1>5, <3>1, <3>2
    <2>2. Queued' = Queued BY <1>5 DEF Queued
    <2>3. LastGiven' \in Nat /\ LastGiven <= LastGiven' /\ (client'.at \in PutSteps => offered' # 0)
      BY <1>1, <1>5 DEF LastGiven, InOrder
    <2> QED BY <1>4, <1>5, <2>1, <2>2, <2>3
  <1>6. ASSUME Enqueued, client.at \in PutSteps PROVE Order'
    <2>1. client'.at = "idle" /\ offered' = offered /\ hand' = hand /\ file' = file
          /\ queue' = Append(queue, offered)
      BY <1>2, <1>3, <1>6 DEF Enqueued, Return
    <2>2. offered # 0 /\ LastGiven = offered - 1 /\ LastGiven' = offered
      BY <1>1, <1>6, <2>1 DEF InOrder, LastGiven
    <2>3. running BY <1>6 DEF Control, Lifecycle
    <2>4. (\A m \in Items(queue) : m # 0) /\ Queued = Items(queue)
      BY <1>6, <2>3, NoSentinelYet
    <2>5. \A m \in Queued : m < offered
      <3>1. \A m \in Queued : m \in Nat /\ m <= LastGiven BY <1>1 DEF InOrder
      <3> QED BY <1>1, <2>2, <3>1
    <2>6. SentinelIsLast' /\ Increasing'
      BY <1>1, <2>1, <2>2, <2>4, <2>5, AppendKeepsOrder
    <2>7. Queued' = Queued \cup {offered}
      <3>1. Queued' = Items(Append(queue, offered)) \ {0}
        BY <2>1 DEF Queued, Items
      <3>2. Items(Append(queue, offered)) = Items(queue) \cup {offered}
        BY <1>1, ItemsOfAppend
      <3> QED BY <2>2, <2>4, <3>1, <3>2
    <2>8. hand < offered /\ file.expected <= offered BY <1>1, <2>2 DEF InOrder
    <2>9. \A n \in Queued' : hand' < n /\ file'.expected <= n /\ n <= LastGiven'
      <3>1. TAKE n \in Queued'
      <3>2. CASE n \in Queued
        <4>1. n \in Nat /\ hand < n /\ file.expected <= n /\ n < offered
          BY <1>1, <2>5, <3>2 DEF InOrder
        <4> QED BY <1>1, <2>1, <2>2, <4>1
      <3>3. CASE n = offered BY <1>1, <2>1, <2>2, <2>8, <3>3
      <3> QED BY <2>7, <3>2, <3>3
    <2>10. InOrder'
      <3>1. hand' <= LastGiven' /\ file'.expected <= LastGiven' + 1
        BY <1>1, <2>1, <2>2, <2>8
      <3> QED BY <2>1, <2>9, <3>1 DEF InOrder
    <2> QED BY <2>6, <2>10
  <1>7. ASSUME NEW may, Refused(may), client.at \in PutSteps PROVE Order'
    <2>1. client'.at = "idle" /\ offered' = offered /\ hand' = hand /\ queue' = queue
          /\ running' = running
          /\ file'.expected = file.expected /\ file'.written = file.written
      BY <1>1, <1>2, <1>3, <1>7 DEF Refused, Return
    <2> QED BY <1>5, <1>7, <2>1
  <1>8. CASE Start
    <2>1. queue = <<>> /\ file'.expected = file.expected /\ file'.written = file.written
      BY <1>8 DEF Start, Control, Lifecycle, WorkerHolds, TypeOK, Files
    <2> QED BY <1>5, <1>8, <2>1 DEF Start
  <1>9. CASE Submit
    <2>1. client'.at = "put" /\ offered' = offered + 1 /\ queue' = queue /\ hand' = hand
          /\ file' = file /\ running' = running /\ client.at = "idle"
      BY <1>9 DEF Submit, flags, TypeOK, Clients
    <2>2. SentinelIsLast' /\ Increasing' BY <2>1, QueueStays
    <2>3. LastGiven' = LastGiven /\ offered' # 0 BY <1>1, <2>1 DEF LastGiven
    <2>4. Queued' = Queued BY <2>1 DEF Queued
    <2> QED BY <1>1, <1>4, <2>1, <2>2, <2>3, <2>4
  <1>10. CASE Stop
    <2>1. client'.at \in {"drain", "sentinel"}
      BY <1>10 DEF Stop, TypeOK, Clients
    <2> QED BY <1>5, <1>10, <2>1 DEF Stop
  <1>11. CASE PutBlocking BY <1>6, <1>7, <1>11 DEF PutBlocking
  <1>12. CASE PutNowait
    <2>1. ASSUME Goto("evict"), UNCHANGED <<options, flags, queue, count, worker, hand, file,
                                            offered, faults>>
          PROVE  Order'
      BY <1>2, <1>3, <1>5, <1>12, <2>1 DEF PutNowait, flags
    <2> QED BY <1>6, <1>7, <1>12, <2>1 DEF PutNowait
  <1>13. ASSUME queue # <<>>, queue' = Tail(queue), RecordDrop(Head(queue)), hand' = hand,
                offered' = offered, running' = running, client.at # "join",
                client'.at \in PutSteps <=> client.at \in PutSteps
         PROVE  Order'
    <2>1. SentinelIsLast' /\ Increasing' BY <1>13, TailIsOrdered
    <2>2. Queued' \subseteq Queued BY <1>13, HeadLeaves
    <2>3. file'.expected = file.expected /\ file'.written = file.written
      BY <1>2, <1>13, QueueTypes
    <2>4. LastGiven' = LastGiven BY <1>13 DEF LastGiven
    <2>5. client'.at \in PutSteps => offered' # 0 BY <1>13 DEF InOrder
    <2> QED BY <1>1, <1>4, <1>13, <2>1, <2>2, <2>3, <2>4, <2>5
  <1>14. CASE Evict
    <2>1. client'.at = "putAgain" /\ hand' = hand /\ offered' = offered /\ running' = running
      BY <1>2, <1>3, <1>14 DEF Evict, flags
    <2>2. CASE queue = <<>> BY <1>5, <1>14, <2>1, <2>2 DEF Evict
    <2>3. CASE queue # <<>> BY <1>13, <1>14, <2>1, <2>3 DEF Evict
    <2> QED BY <2>2, <2>3
  <1>15. CASE PutAgain BY <1>6, <1>7, <1>15 DEF PutAgain
  <1>16. CASE Drain
    <2>1. hand' = hand /\ offered' = offered /\ running' = running
      BY <1>16 DEF Drain, flags
    <2>2. CASE queue = <<>> BY <1>2, <1>3, <1>5, <1>16, <2>1, <2>2 DEF Drain
    <2>3. CASE queue # <<>> BY <1>13, <1>16, <2>1, <2>3 DEF Drain
    <2> QED BY <2>2, <2>3
  <1>17. CASE PutSentinel
    <2>1. client'.at = "join" /\ queue' = Append(queue, 0) /\ hand' = hand
          /\ offered' = offered /\ file' = file
      BY <1>2, <1>3, <1>17 DEF PutSentinel
    <2>2. running BY <1>17 DEF PutSentinel, Control, Lifecycle
    <2>3. (\A m \in Items(queue) : m # 0) /\ Queued = Items(queue)
      BY <1>17, <2>2, NoSentinelYet DEF PutSentinel
    <2>4. SentinelIsLast' /\ Increasing' BY <2>1, <2>3, AppendKeepsOrder
    <2>5. Queued' = Queued
      <3>1. Queued' = Items(Append(queue, 0)) \ {0} BY <2>1 DEF Queued, Items
      <3>2. Items(Append(queue, 0)) = Items(queue) \cup {0}
        BY <1>1, ItemsOfAppend
      <3> QED BY <2>3, <3>1, <3>2
    <2>6. LastGiven' = LastGiven BY <1>17, <2>1 DEF LastGiven, PutSentinel
    <2> QED BY <1>1, <1>4, <2>1, <2>4, <2>5, <2>6
  <1>18. CASE Join
    <2>1. client'.at = "close" BY <1>2, <1>3, <1>18 DEF Join
    <2> QED BY <1>5, <1>18, <2>1 DEF Join
  <1>19. CASE CloseFile
    <2>1. client'.at = "idle" BY <1>2, <1>3, <1>19 DEF CloseFile, Return
    <2>2. file'.expected = file.expected /\ file'.written = file.written
      BY <1>19 DEF CloseFile, TypeOK, Files
    <2> QED BY <1>5, <1>19, <2>1, <2>2 DEF CloseFile, flags
  <1>20. CASE FinalizeFails
    <2>1. client'.at = "idle" BY <1>2, <1>3, <1>20 DEF FinalizeFails, Return
    <2>2. file'.expected = file.expected /\ file'.written = file.written
      BY <1>20 DEF FinalizeFails, TypeOK, Files
    <2> QED BY <1>5, <1>20, <2>1, <2>2 DEF FinalizeFails
  <1>21. CASE WorkerGet
    <2>1. queue # <<>> /\ queue' = Tail(queue) /\ client' = client /\ running' = running
          /\ file' = file /\ offered' = offered
      BY <1>21 DEF WorkerGet, flags
    <2>2. SentinelIsLast' /\ Increasing' BY <2>1, TailIsOrdered
    <2>3. LastGiven' = LastGiven BY <2>1 DEF LastGiven
    <2>4. CASE Head(queue) = 0
      <3>1. hand' = hand /\ Queued' \subseteq Queued
        BY <1>21, <2>1, <2>4, HeadLeaves DEF WorkerGet
      <3>2. client'.at \in PutSteps => offered' # 0 BY <2>1 DEF InOrder
      <3> QED BY <1>1, <1>4, <2>1, <2>2, <2>3, <3>1, <3>2
    <2>5. CASE Head(queue) # 0
      <3>1. hand' = Head(queue) /\ Queued = Queued' \cup {Head(queue)}
            /\ \A n \in Queued' : Head(queue) < n
        BY <1>21, <2>1, <2>5, HeadLeaves DEF WorkerGet
      <3>2. Head(queue) \in Queued BY <3>1
      <3>3. file.expected <= Head(queue) /\ Head(queue) <= LastGiven
        BY <3>2 DEF InOrder
      <3>4. \A n \in Queued' : hand' < n /\ file'.expected <= n /\ n <= LastGiven'
        BY <2>1, <2>3, <3>1 DEF InOrder
      <3>5. InOrder' BY <2>1, <2>3, <3>1, <3>3, <3>4 DEF InOrder
      <3> QED BY <2>2, <3>5
    <2> QED BY <2>4, <2>5
  <1>22. CASE WorkerWrite
    <2>1. queue' = queue /\ client' = client /\ running' = running /\ offered' = offered
          /\ hand' = 0 /\ hand # 0
      BY <1>22 DEF WorkerWrite, flags, Control, WorkerHolds
    <2>2. file'.expected = hand + 1 /\ file'.written = file.written \cup {hand}
      BY <1>22 DEF WorkerWrite, TypeOK, Files
    <2>3. SentinelIsLast' /\ Increasing' BY <2>1, QueueStays
    <2>4. Queued' = Queued /\ LastGiven' = LastGiven
      BY <2>1 DEF Queued, LastGiven
    <2>5. \A n \in Queued' : hand' < n /\ file'.expected <= n /\ n <= LastGiven'
      <3>1. TAKE n \in Queued'
      <3>2. n \in Nat /\ hand < n /\ n <= LastGiven BY <1>1, <2>4 DEF InOrder
      <3> QED BY <1>1, <2>1, <2>2, <2>4, <3>2
    <2>6. \A n \in file'.written : 0 < n /\ n < file'.expected
      <3>1. TAKE n \in file'.written
      <3>2. CASE n \in file.written
        <4>1. 0 < n /\ n < file.expected /\ file.expected <= hand /\ n \in Nat
          BY <2>1, <3>2 DEF InOrder, TypeOK, Files
        <4> QED BY <1>1, <2>2, <4>1
      <3>3. CASE n = hand BY <1>1, <2>1, <2>2, <3>3
      <3> QED BY <2>2, <3>2, <3>3
    <2>7. hand' <= LastGiven' /\ file'.expected <= LastGiven' + 1
      <3>1. hand <= LastGiven BY DEF InOrder
      <3> QED BY <1>1, <2>1, <2>2, <2>4, <3>1
    <2>8. InOrder' BY <2>1, <2>5, <2>6, <2>7 DEF InOrder
    <2> QED BY <2>3, <2>8
  <1>23. CASE WriteFails BY <1>5, <1>23 DEF WriteFails
  <1>24. CASE WorkerEnds BY <1>5, <1>24 DEF WorkerEnds
  <1>25. CASE UNCHANGED vars BY <1>5, <1>25 DEF vars, flags
  <1> QED
    BY <1>8, <1>9, <1>10, <1>11, <1>12, <1>14, <1>15, <1>16, <1>17, <1>18, <1>19, <1>20,
       <1>21, <1>22, <1>23, <1>24, <1>25 DEF Next, Call, Continue, Worker

-----------------------------------------------------------------------------
(* The fate of the blocks                                                  *)

Fate == GapsAreLost /\ AllKeptOrLost /\ LostAreCounted

LEMMA KeptIsFinite ==
  ASSUME TypeOK, Fate
  PROVE  IsFiniteSet(Kept) /\ Cardinality(Kept) \in Nat
  <1>1. offered \in Nat BY DEF TypeOK
  <1>2. IsFiniteSet(1..offered) BY <1>1, FS_Interval
  <1>3. Kept \in SUBSET (1..offered) BY DEF Fate, AllKeptOrLost
  <1> QED BY <1>2, <1>3, FS_Subset, FS_CardinalityType

(* Nothing is given or lost: the blocks only change hands, or the gap file *)
(* gets entries for blocks nobody keeps.                                   *)
LEMMA FateStays ==
  ASSUME Fate, Kept' = Kept, offered' = offered, count'.dropped = count.dropped,
         file.gaps \subseteq file'.gaps, file'.gaps \subseteq 1..offered,
         file'.gaps \cap Kept = {}
  PROVE  Fate'
  BY DEF Fate, GapsAreLost, AllKeptOrLost, LostAreCounted

(* A block is lost: it is recorded as a gap and counted.                   *)
LEMMA OneIsLost ==
  ASSUME TypeOK, Fate, NEW n \in Kept, Kept' = Kept \ {n}, offered' = offered,
         count'.dropped = count.dropped + 1, file'.gaps = file.gaps \cup {n}
  PROVE  Fate'
  <1>1. GapsAreLost' /\ AllKeptOrLost' BY DEF Fate, GapsAreLost, AllKeptOrLost
  <1>2. IsFiniteSet(Kept) /\ Cardinality(Kept) \in Nat BY KeptIsFinite
  <1>3. Cardinality(Kept') = Cardinality(Kept) - 1 BY <1>2, FS_RemoveElement
  <1>4. count.dropped = offered - Cardinality(Kept) /\ offered \in Nat
    BY DEF Fate, LostAreCounted, TypeOK
  <1>5. LostAreCounted' BY <1>2, <1>3, <1>4 DEF LostAreCounted
  <1> QED BY <1>1, <1>5 DEF Fate

(* A block is given to submit.                                             *)
LEMMA OneIsGiven ==
  ASSUME TypeOK, Fate, offered' = offered + 1, Kept' = Kept \cup {offered + 1},
         count' = count, file' = file
  PROVE  Fate'
  <1>1. offered \in Nat /\ offered + 1 \notin 1..offered
        /\ 1..(offered + 1) = (1..offered) \cup {offered + 1}
    BY DEF TypeOK
  <1>2. offered + 1 \notin Kept /\ offered + 1 \notin file.gaps
    BY <1>1 DEF Fate, AllKeptOrLost
  <1>3. GapsAreLost' BY <1>2 DEF Fate, GapsAreLost
  <1>4. AllKeptOrLost' BY <1>1 DEF Fate, AllKeptOrLost
  <1>5. IsFiniteSet(Kept) /\ Cardinality(Kept) \in Nat BY KeptIsFinite
  <1>6. Cardinality(Kept') = Cardinality(Kept) + 1 BY <1>2, <1>5, FS_AddElement
  <1>7. count.dropped = offered - Cardinality(Kept) BY DEF Fate, LostAreCounted
  <1>8. LostAreCounted' BY <1>1, <1>5, <1>6, <1>7 DEF LostAreCounted
  <1> QED BY <1>3, <1>4, <1>8 DEF Fate

LEMMA StepFate ==
  ASSUME TypeOK, Control, Order, Fate, [Next]_vars
  PROVE  Fate'
  <1>1. /\ client.at \in ClientSteps /\ worker \in WorkerSteps
        /\ offered \in Nat /\ hand \in Nat /\ queue \in Seq(Nat)
        /\ file.expected \in Nat /\ LastGiven \in Nat
        /\ Queued \in SUBSET Nat
    <2>1. Queued \in SUBSET Nat BY ElementOfSeq DEF TypeOK, Queued
    <2> QED BY <2>1 DEF TypeOK, Clients, Files, Order, InOrder, LastGiven
  <1>2. /\ \A at \in ClientSteps :
             Goto(at) => client'.at = at /\ client'.call = client.call
        /\ \A n \in Nat : RecordDrop(n) =>
             file'.gaps = file.gaps \cup {n} /\ file'.written = file.written
        /\ [count EXCEPT !.enqueued = @ + 1].dropped = count.dropped
        /\ [count EXCEPT !.dropped = @ + 1].dropped = count.dropped + 1
        /\ [count EXCEPT !.dropped = @ + 1, !.abandoned = @ + 1].dropped = count.dropped + 1
    BY ClientGoes, GapIsRecorded, CountsAreCounts
  <1>3. {"idle", "evict", "putAgain", "drain", "sentinel", "join", "close"} \subseteq ClientSteps
    BY DEF ClientSteps
  <1>4. file.gaps \subseteq 1..offered /\ file.gaps \cap Kept = {}
    BY DEF Fate, GapsAreLost, AllKeptOrLost
  <1>5. ASSUME queue' = queue, hand' = hand, offered' = offered,
               count'.dropped = count.dropped, file'.gaps = file.gaps,
               file'.written = file.written,
               client'.at \in PutSteps <=> client.at \in PutSteps
        PROVE  Fate'
    <2>1. Kept' = Kept BY <1>5 DEF Kept, Queued, Submitting, PutSteps
    <2> QED BY <1>4, <1>5, <2>1, FateStays
  <1>6. ASSUME Enqueued, client.at \in PutSteps PROVE Fate'
    <2>1. client'.at = "idle" /\ offered' = offered /\ hand' = hand /\ file' = file
          /\ queue' = Append(queue, offered) /\ count'.dropped = count.dropped
      BY <1>2, <1>3, <1>6 DEF Enqueued, Return
    <2>2. offered # 0 BY <1>6 DEF Order, InOrder
    <2>3. Queued' = Queued \cup {offered}
      <3>1. Queued' = Items(Append(queue, offered)) \ {0} /\ Queued = Items(queue) \ {0}
        BY <2>1 DEF Queued, Items
      <3>2. Items(Append(queue, offered)) = Items(queue) \cup {offered}
        BY <1>1, ItemsOfAppend
      <3> QED BY <2>2, <3>1, <3>2
    <2>4. Kept' = Kept BY <1>6, <2>1, <2>3 DEF Kept, Submitting, PutSteps
    <2> QED BY <1>4, <2>1, <2>4, FateStays
  <1>7. ASSUME NEW may, Refused(may), client.at \in PutSteps PROVE Fate'
    <2>1. client'.at = "idle" /\ offered' = offered /\ hand' = hand /\ queue' = queue
          /\ count'.dropped = count.dropped + 1
          /\ file'.gaps = file.gaps \cup {offered} /\ file'.written = file.written
      BY <1>1, <1>2, <1>3, <1>7 DEF Refused, Return
    <2>2. offered # 0 /\ LastGiven = offered - 1
      BY <1>7 DEF Order, InOrder, LastGiven
    <2>3. offered \notin Queued /\ offered # hand
      BY <1>1, <2>2 DEF Order, InOrder
    <2>4. offered \notin file.written
      <3>1. file.expected <= offered BY <1>1, <2>2 DEF Order, InOrder
      <3>2. offered \in file.written => offered < file.expected
        BY DEF Order, InOrder
      <3> QED BY <1>1, <3>1, <3>2
    <2>5. Submitting = {offered} /\ Submitting' = {} /\ Queued' = Queued
      BY <1>7, <2>1 DEF Submitting, PutSteps, Queued
    <2>6. offered \in Kept /\ Kept' = Kept \ {offered}
      BY <2>1, <2>3, <2>4, <2>5 DEF Kept
    <2> QED BY <2>1, <2>6, OneIsLost
  <1>8. CASE Start
    <2>1. file'.gaps = file.gaps /\ file'.written = file.written
      BY <1>8 DEF Start, TypeOK, Files
    <2> QED BY <1>5, <1>8, <2>1 DEF Start
  <1>9. CASE Submit
    <2>1. client'.at = "put" /\ offered' = offered + 1 /\ queue' = queue /\ hand' = hand
          /\ file' = file /\ count' = count /\ client.at = "idle"
      BY <1>9 DEF Submit, TypeOK, Clients
    <2>2. Submitting = {} /\ Submitting' = {offered + 1} /\ Queued' = Queued
      BY <2>1 DEF Submitting, Queued
    <2>3. Kept' = Kept \cup {offered + 1} BY <2>1, <2>2 DEF Kept
    <2> QED BY <2>1, <2>3, OneIsGiven
  <1>10. CASE Stop
    <2>1. client'.at \in {"drain", "sentinel"} /\ client.at = "idle"
      BY <1>10 DEF Stop, TypeOK, Clients
    <2> QED BY <1>5, <1>10, <2>1 DEF Stop, PutSteps
  <1>11. CASE PutBlocking BY <1>6, <1>7, <1>11 DEF PutBlocking, PutSteps
  <1>12. CASE PutNowait
    <2>1. ASSUME Goto("evict"), UNCHANGED <<options, flags, queue, count, worker, hand, file,
                                            offered, faults>>
          PROVE  Fate'
      BY <1>2, <1>3, <1>5, <1>12, <2>1 DEF PutNowait, PutSteps
    <2> QED BY <1>6, <1>7, <1>12, <2>1 DEF PutNowait, PutSteps
  <1>13. ASSUME queue # <<>>, queue' = Tail(queue), RecordDrop(Head(queue)), hand' = hand,
                offered' = offered, count'.dropped = count.dropped + 1,
                running, client.at # "join",
                client'.at \in PutSteps <=> client.at \in PutSteps
         PROVE  Fate'
    <2>1. Head(queue) \in Nat BY <1>13, QueueTypes
    <2>2. file'.gaps = file.gaps \cup {Head(queue)} /\ file'.written = file.written
      BY <1>2, <1>13, <2>1
    <2>3. Head(queue) # 0 BY <1>13, HeadIsLeast DEF Order
    <2>4. Queued = Queued' \cup {Head(queue)} /\ \A n \in Queued' : Head(queue) < n
      BY <1>13, <2>3, HeadLeaves DEF Order
    <2>5. Head(queue) \notin Queued' BY <2>1, <2>4
    <2>6. hand < Head(queue) /\ file.expected <= Head(queue) /\ Head(queue) <= LastGiven
      BY <2>4 DEF Order, InOrder
    <2>7. Head(queue) # hand /\ Head(queue) \notin Submitting
      BY <1>1, <2>1, <2>6 DEF Submitting, LastGiven, PutSteps
    <2>8. Head(queue) \notin file.written
      <3>1. Head(queue) \in file.written => Head(queue) < file.expected
        BY DEF Order, InOrder
      <3> QED BY <1>1, <2>1, <2>6, <3>1
    <2>9. Submitting' = Submitting BY <1>13 DEF Submitting, PutSteps
    <2>10. Head(queue) \in Kept /\ Kept' = Kept \ {Head(queue)}
      BY <1>13, <2>2, <2>4, <2>5, <2>7, <2>8, <2>9 DEF Kept
    <2> QED BY <1>13, <2>2, <2>10, OneIsLost
  <1>14. CASE Evict
    <2>1. client.at = "evict" /\ client'.at = "putAgain" /\ hand' = hand /\ offered' = offered
          /\ running
      BY <1>2, <1>3, <1>14 DEF Evict, Control, Lifecycle
    <2>2. CASE queue = <<>> BY <1>5, <1>14, <2>1, <2>2 DEF Evict, PutSteps
    <2>3. CASE queue # <<>>
      BY <1>2, <1>13, <1>14, <2>1, <2>3 DEF Evict, PutSteps
    <2> QED BY <2>2, <2>3
  <1>15. CASE PutAgain BY <1>6, <1>7, <1>15 DEF PutAgain, PutSteps
  <1>16. CASE Drain
    <2>1. client.at = "drain" /\ hand' = hand /\ offered' = offered /\ running
      BY <1>16 DEF Drain, Control, Lifecycle
    <2>2. CASE queue = <<>>
      BY <1>2, <1>3, <1>5, <1>16, <2>1, <2>2 DEF Drain, PutSteps
    <2>3. CASE queue # <<>>
      BY <1>2, <1>13, <1>16, <2>1, <2>3 DEF Drain, PutSteps
    <2> QED BY <2>2, <2>3
  <1>17. CASE PutSentinel
    <2>1. client'.at = "join" /\ client.at = "sentinel" /\ queue' = Append(queue, 0)
          /\ hand' = hand /\ offered' = offered /\ file' = file /\ count' = count
      BY <1>2, <1>3, <1>17 DEF PutSentinel
    <2>2. Queued' = Queued
      <3>1. Queued' = Items(Append(queue, 0)) \ {0} /\ Queued = Items(queue) \ {0}
        BY <2>1 DEF Queued, Items
      <3>2. Items(Append(queue, 0)) = Items(queue) \cup {0}
        BY <1>1, ItemsOfAppend
      <3> QED BY <3>1, <3>2
    <2>3. Kept' = Kept BY <2>1, <2>2 DEF Kept, Submitting
    <2> QED BY <1>4, <2>1, <2>3, FateStays
  <1>18. CASE Join
    <2>1. client'.at = "close" /\ client.at = "join"
      BY <1>2, <1>3, <1>18 DEF Join
    <2> QED BY <1>5, <1>18, <2>1 DEF Join, PutSteps
  <1>19. CASE CloseFile
    <2>1. client'.at = "idle" /\ client.at = "close"
      BY <1>2, <1>3, <1>19 DEF CloseFile, Return
    <2>2. file'.gaps = file.gaps /\ file'.written = file.written
      BY <1>19 DEF CloseFile, TypeOK, Files
    <2> QED BY <1>5, <1>19, <2>1, <2>2 DEF CloseFile, PutSteps
  <1>20. CASE FinalizeFails
    <2>1. client'.at = "idle" /\ client.at = "close"
      BY <1>2, <1>3, <1>20 DEF FinalizeFails, Return
    <2>2. file'.gaps = file.gaps /\ file'.written = file.written
      BY <1>20 DEF FinalizeFails, TypeOK, Files
    <2> QED BY <1>5, <1>20, <2>1, <2>2 DEF FinalizeFails, PutSteps
  <1>21. CASE WorkerGet
    <2>1. queue # <<>> /\ queue' = Tail(queue) /\ client' = client /\ hand = 0
          /\ file' = file /\ offered' = offered /\ count' = count
      BY <1>21 DEF WorkerGet, Control, WorkerHolds
    <2>2. Queued' \cup ({hand'} \ {0}) = Queued \cup ({hand} \ {0})
      <3>1. CASE Head(queue) = 0
        BY <1>21, <2>1, <3>1, HeadLeaves DEF WorkerGet, Order
      <3>2. CASE Head(queue) # 0
        BY <1>21, <2>1, <3>2, HeadLeaves DEF WorkerGet, Order
      <3> QED BY <3>1, <3>2
    <2>3. Kept' = Kept BY <2>1, <2>2 DEF Kept, Submitting
    <2> QED BY <1>4, <2>1, <2>3, FateStays
  <1>22. CASE WorkerWrite
    <2>1. queue' = queue /\ client' = client /\ offered' = offered /\ count' = count
          /\ hand' = 0 /\ hand # 0
      BY <1>22 DEF WorkerWrite, Control, WorkerHolds
    <2> DEFINE filled == {n \in file.expected..(hand - 1) : file.expected # 0}
    <2>2. file'.written = file.written \cup {hand} /\ file'.gaps = file.gaps \cup filled
      BY <1>22 DEF WorkerWrite, TypeOK, Files
    <2>3. Kept' = Kept
      <3>1. Queued' = Queued /\ Submitting' = Submitting
        BY <2>1 DEF Queued, Submitting
      <3> QED BY <2>1, <2>2, <3>1 DEF Kept
    <2>4. hand <= LastGiven /\ LastGiven <= offered
      BY <1>1 DEF Order, InOrder, LastGiven
    <2>5. filled \subseteq 1..offered BY <1>1, <2>4
    <2>6. ASSUME NEW n \in filled PROVE n \notin Kept
      <3>1. n \in Int /\ file.expected <= n /\ n < hand BY <1>1
      <3>2. n \notin Queued
        <4>1. n \in Queued => hand < n BY DEF Order, InOrder
        <4> QED BY <1>1, <3>1, <4>1
      <3>3. n \notin file.written
        <4>1. n \in file.written => n < file.expected BY DEF Order, InOrder
        <4> QED BY <1>1, <3>1, <4>1
      <3>4. n # hand /\ n \notin Submitting BY <1>1, <2>4, <3>1 DEF Submitting
      <3> QED BY <3>2, <3>3, <3>4 DEF Kept
    <2>7. file'.gaps \subseteq 1..offered /\ file'.gaps \cap Kept = {}
      BY <1>4, <2>2, <2>5, <2>6
    <2> QED BY <2>1, <2>2, <2>3, <2>7, FateStays
  <1>23. CASE WriteFails BY <1>5, <1>23 DEF WriteFails
  <1>24. CASE WorkerEnds BY <1>5, <1>24 DEF WorkerEnds
  <1>25. CASE UNCHANGED vars BY <1>5, <1>25 DEF vars
  <1> QED
    BY <1>8, <1>9, <1>10, <1>11, <1>12, <1>14, <1>15, <1>16, <1>17, <1>18, <1>19, <1>20,
       <1>21, <1>22, <1>23, <1>24, <1>25 DEF Next, Call, Continue, Worker

-----------------------------------------------------------------------------
(* The inductive invariant, and what follows from it.                      *)
IInv == TypeOK /\ Control /\ Order /\ Fate /\ FinalizedIsComplete

(* A recording becomes complete when the worker has ended without an error:*)
(* nothing is queued or in a hand any more.                                *)
LEMMA StepFinalized ==
  ASSUME IInv, TypeOK', Control', Order', Fate', [Next]_vars
  PROVE  FinalizedIsComplete'
  <1>1. ASSUME file'.state = "complete", ~error', ~cancelled', queue' = <<>>
        PROVE  FinalizedIsComplete'
    <2>1. client'.at = "idle" /\ worker' = "ended" /\ hand' = 0
      <3>1. client'.at = "idle" /\ ~running' /\ worker' \in {"none", "ended"} /\ worker' # "none"
        BY <1>1 DEF Control, Lifecycle
      <3> QED BY <1>1, <3>1 DEF Control, WorkerHolds
    <2>2. Queued' = {} /\ Submitting' = {}
      <3>1. Len(queue') = 0 BY <1>1
      <3> QED BY <2>1, <3>1 DEF Queued, Submitting
    <2>3. Kept' = file'.written BY <2>1, <2>2 DEF Kept
    <2> QED
      BY <1>1, <2>3 DEF FinalizedIsComplete, Fate, GapsAreLost, AllKeptOrLost
  <1>2. CASE CloseFile
    <2>1. ASSUME file'.state = "complete"
          PROVE  ~error' /\ ~cancelled' /\ queue' = <<>>
      <3>1. client.at = "close" /\ client.call = "finalize" /\ ~error
        BY <1>2, <2>1 DEF CloseFile, IInv, TypeOK, Files
      <3>2. ~cancelled /\ ~running
        BY <3>1 DEF IInv, Control, CancelIsKnown, StopSteps, Lifecycle
      <3>3. queue = <<>> BY <3>1, <3>2 DEF IInv, Control, NothingStranded
      <3> QED BY <1>2, <3>1, <3>2, <3>3 DEF CloseFile, flags
    <2> QED BY <1>1, <2>1 DEF FinalizedIsComplete
  <1>3. ASSUME file.state # "complete", file'.state = "complete" PROVE CloseFile
    <2>1. file \in Files /\ \A n \in Nat : RecordDrop(n) => file'.state = file.state
      BY GapIsRecorded DEF IInv, TypeOK
    <2>2. queue # <<>> => Head(queue) \in Nat BY QueueTypes DEF IInv
    <2>3. offered \in Nat BY DEF IInv, TypeOK
    <2>4. ~Start /\ ~FinalizeFails /\ ~WorkerWrite
      BY <1>3, <2>1 DEF Start, FinalizeFails, WorkerWrite, Files
    <2>5. ~Submit /\ ~Stop /\ ~PutSentinel /\ ~Join /\ ~WorkerGet /\ ~WriteFails /\ ~WorkerEnds
      BY <1>3 DEF Submit, Stop, PutSentinel, Join, WorkerGet, WriteFails, WorkerEnds
    <2>6. ~Evict /\ ~Drain BY <1>3, <2>1, <2>2 DEF Evict, Drain
    <2>7. ~Enqueued /\ \A may \in BOOLEAN : ~Refused(may)
      BY <1>3, <2>1, <2>3 DEF Enqueued, Refused
    <2>8. ~PutBlocking /\ ~PutNowait /\ ~PutAgain
      BY <1>3, <2>7 DEF PutBlocking, PutNowait, PutAgain
    <2>9. ~UNCHANGED vars BY <1>3 DEF vars
    <2> QED BY <2>4, <2>5, <2>6, <2>8, <2>9 DEF Next, Call, Continue, Worker
  <1>4. CASE file.state = "complete" /\ ~CloseFile
    <2>1. /\ client.at = "idle" /\ ~running /\ worker = "ended"
          /\ ~error /\ ~cancelled /\ queue = <<>>
      BY <1>4 DEF IInv, Control, Lifecycle, FinalizedIsComplete
    <2>2. UNCHANGED vars
      BY <1>4, <2>1 DEF Next, Call, Continue, Worker, Start, Submit, Stop, PutBlocking,
         PutNowait, Evict, PutAgain, Drain, PutSentinel, Join, FinalizeFails, WorkerGet,
         WorkerWrite, WriteFails, WorkerEnds
    <2>3. error' = error /\ cancelled' = cancelled /\ queue' = queue /\ file' = file
      BY <2>2 DEF vars, flags
    <2> QED BY <1>1, <1>4, <2>1, <2>3
  <1> QED BY <1>2, <1>3, <1>4 DEF FinalizedIsComplete

LEMMA InitInv == Init => IInv
  <1> SUFFICES ASSUME Init PROVE IInv
    OBVIOUS
  <1>1. TypeOK BY InitTypes
  <1>2. Control
    BY DEF Init, Control, Lifecycle, WorkerHolds, CancelIsKnown, NothingStranded, StopSteps
  <1>3. Queued = {} /\ Submitting = {} /\ Kept = {}
    BY DEF Init, Queued, Submitting, Kept
  <1>4. Order
    BY <1>3 DEF Init, Order, SentinelIsLast, Increasing, InOrder, PutSteps, LastGiven
  <1>5. Fate
    <2>1. GapsAreLost /\ AllKeptOrLost
      BY <1>3 DEF Init, GapsAreLost, AllKeptOrLost
    <2>2. LostAreCounted BY <1>3, FS_EmptySet DEF Init, LostAreCounted
    <2> QED BY <2>1, <2>2 DEF Fate
  <1>6. FinalizedIsComplete BY DEF Init, FinalizedIsComplete
  <1> QED BY <1>1, <1>2, <1>4, <1>5, <1>6 DEF IInv

LEMMA StepInv == IInv /\ [Next]_vars => IInv'
  <1> SUFFICES ASSUME IInv, [Next]_vars PROVE IInv'
    OBVIOUS
  <1>1. TypeOK' BY StepTypes DEF IInv
  <1>2. Control' BY StepControl DEF IInv, Order
  <1>3. Order' BY <1>1, <1>2, StepOrder DEF IInv
  <1>4. Fate' BY StepFate DEF IInv
  <1>5. FinalizedIsComplete' BY <1>1, <1>2, <1>3, <1>4, StepFinalized
  <1> QED BY <1>1, <1>2, <1>3, <1>4, <1>5 DEF IInv

LEMMA InvForgetsNoBlock == IInv => NoBlockForgotten
  <1> SUFFICES ASSUME IInv PROVE NoBlockForgotten
    OBVIOUS
  <1>1. 1..offered = file.written \cup file.gaps \cup Queued \cup Submitting \cup ({hand} \ {0})
    BY DEF IInv, Fate, AllKeptOrLost, Kept
  <1>2. count.dropped =
          offered - Cardinality(file.written \cup Queued \cup Submitting \cup ({hand} \ {0}))
    BY DEF IInv, Fate, LostAreCounted, Kept
  <1>3. ASSUME NEW n \in file.written PROVE n \notin file.gaps \cup Queued \cup {hand}
    <2>1. n \in Nat /\ 0 < n /\ n < file.expected /\ file.expected \in Nat /\ hand \in Nat
      BY DEF IInv, Order, InOrder, TypeOK, Files
    <2>2. n \notin file.gaps BY DEF IInv, Fate, GapsAreLost, Kept
    <2>3. n \notin Queued
      <3>1. n \in Queued => file.expected <= n BY DEF IInv, Order, InOrder
      <3> QED BY <2>1, <3>1
    <2>4. n # hand
      <3>1. hand # 0 => file.expected <= hand BY DEF IInv, Order, InOrder
      <3> QED BY <2>1, <3>1
    <2> QED BY <2>2, <2>3, <2>4
  <1>4. ~running /\ ~error => queue = <<>>
    BY DEF IInv, Control, NothingStranded
  <1> QED
    BY <1>1, <1>2, <1>3, <1>4 DEF NoBlockForgotten, EveryBlockHasAFate, IInv

(* Every block submitted to the service is on disk, recorded as a gap or   *)
(* still on its way, the counters agree, and a finalized recording is      *)
(* complete: whatever the queue holds, the policy does and fails.          *)
THEOREM NoBlockForgottenCorrect == Spec => []NoBlockForgotten
  <1>1. Spec => []IInv BY InitInv, StepInv, PTL DEF Spec
  <1> QED BY <1>1, InvForgetsNoBlock, PTL

-----------------------------------------------------------------------------
(* The recording of sdr_monitor                                            *)

(* Where the service, the writers and the callers can be.                  *)
TakeStates == {"IDLE", "RECORDING", "FINALIZING", "COMPLETED", "STOP_TIMEOUT", "FAILED"}
WriterPlaces == {"none", "loop", "wait", "write", "close", "ended"}
Putting == {"put", "evict", "place"}
CallerPlaces == {"idle", "start", "stop", "join", "finish", "release"} \cup Putting
Named == 0..MaxTakes

Services ==
  [state : TakeStates, take : Named, worker : Named, handle : Named, sink : BOOLEAN,
   iq : Nat, drops : Nat]
Writers == [at : WriterPlaces, on : Named, item : Nat]

(* Only a file whose flush or close failed lacks a block given to it.      *)
Disks ==
  {d \in [held : [Takes -> Nat], unclosed : SUBSET Takes, unrenamed : SUBSET Takes] :
     \A t \in Takes : t \in d.unclosed \/ d.held[t] = 0}

MonitorTypes ==
  /\ service \in Services /\ disk \in Disks
  /\ queues \in [Takes -> Seq(Nat)] /\ files \in [Takes -> Seq(Nat)]
  /\ writer \in [Takes -> Writers]
  /\ caller \in [Callers -> [at : CallerPlaces, on : Named]]
  /\ pool \in Seq({"start", "stop"})
  /\ published \in [Takes -> Nat]

(* A take has its number before anybody works for it.                      *)
Numbers ==
  /\ caller["gui"].at # "start"
  /\ service.state \in {"RECORDING", "FINALIZING"} => service.take \in Takes
  /\ service.handle <= service.take
  /\ \A c \in Callers : caller[c].at \in Putting =>
       caller[c].on \in Takes /\ caller[c].on <= service.take
  /\ \A t \in Takes : writer[t].at = "wait" => writer[t].on \in Takes
  /\ \A t \in clean : t \in Takes /\ t <= service.take
  /\ \A t \in Takes : t > service.take =>
       queues[t] = <<>> /\ files[t] = <<>> /\ published[t] = 0 /\ writer[t].at = "none"

(* A take that started when nothing of an earlier one was left is alone:   *)
(* its writer is the only one, no call waits for another, one at most puts *)
(* the sentinel.                                                           *)
AloneIn(t) ==
  /\ \A u \in Takes \ {t} : ~Alive(u)
  /\ service.worker = t /\ service.handle \in {0, t} /\ writer[t].at # "none"
  /\ writer[t].at = "wait" => writer[t].on = t
  /\ writer[t].at = "ended" => service.handle = 0 \/ t \in disk.unclosed
  /\ \A c \in Callers : caller[c].at \in Putting \cup {"join", "finish"} => caller[c].on = t
  /\ \A c, d \in Callers : caller[c].at \in Putting /\ caller[d].at \in Putting => c = d

(* Every block published is in the file, in the hand of the writer w, in   *)
(* the queue q, or counted as dropped; the sentinel is the last item.      *)
Unmarked(q) == \A i \in 1..Len(q) : q[i] # Sentinel
Blocks(q) == IF q # <<>> /\ q[Len(q)] = Sentinel THEN Len(q) - 1 ELSE Len(q)
InHand(w) == IF w.at = "write" THEN 1 ELSE 0

AllThere(s, w, q, f, n) ==
  /\ s.iq = Len(f)
  /\ n = s.iq + s.drops + Blocks(q) + InHand(w)
  /\ \A i \in 1..Len(q) : q[i] = Sentinel => i = Len(q)
  /\ w.at \in {"close", "ended"} => q = <<>>

(* The file, the hand and the queue hold them in the order of publishing.  *)
InLine(w, q, f, n) ==
  /\ InOrderOnDisk(f)
  /\ \A i \in 1..Len(f) : f[i] <= n
  /\ w.at = "write" => w.item # Sentinel /\ w.item <= n /\ \A i \in 1..Len(f) : f[i] < w.item
  /\ \A j \in 1..Len(q) : q[j] # Sentinel =>
       /\ q[j] <= n
       /\ \A i \in 1..Len(f) : f[i] < q[j]
       /\ w.at = "write" => w.item < q[j]
       /\ \A i \in 1..(j - 1) : q[i] < q[j]

(* Before the sentinel is in, the writer is at its loop and waits for it.  *)
Looping(w) == w.at \in {"loop", "wait", "write"}

(* The books of a take that has not failed.                                *)
Booked(t) ==
  /\ AllThere(service, writer[t], queues[t], files[t], published[t])
  /\ InLine(writer[t], queues[t], files[t], published[t])
  /\ service.state = "RECORDING" => \A c \in Callers : caller[c].at \notin Putting
  /\ \A c \in Callers : caller[c].at \in Putting => service.state = "FINALIZING"
  /\ service.state = "RECORDING" \/ (\E c \in Callers : caller[c].at \in Putting) =>
       Looping(writer[t]) /\ Unmarked(queues[t])
  /\ service.state = "COMPLETED" => writer[t].at = "ended" /\ t \in final \cup disk.unrenamed

Sound == service.state \in {"RECORDING", "FINALIZING", "COMPLETED"}

TakeInv ==
  /\ MonitorTypes /\ Numbers
  /\ service.take \in clean => AloneIn(service.take) /\ (Sound => Booked(service.take))

-----------------------------------------------------------------------------
(* Sequences                                                               *)

LEMMA Appended ==
  ASSUME NEW q \in Seq(Nat), NEW x \in Nat
  PROVE  /\ Append(q, x) \in Seq(Nat) /\ Len(q) \in Nat /\ Len(Append(q, x)) = Len(q) + 1
         /\ Append(q, x) # <<>>
         /\ Append(q, x)[Len(q) + 1] = x
         /\ \A i \in 1..Len(q) : Append(q, x)[i] = q[i] /\ q[i] \in Nat
         /\ 1..(Len(q) + 1) = (1..Len(q)) \cup {Len(q) + 1}
<1>1. Len(q) \in Nat BY LenProperties
<1>2. 1..(Len(q) + 1) = (1..Len(q)) \cup {Len(q) + 1} BY <1>1
<1>. QED BY <1>1, <1>2, AppendProperties, ElementOfSeq

LEMMA Rest ==
  ASSUME NEW q \in Seq(Nat), q # <<>>
  PROVE  /\ Tail(q) \in Seq(Nat) /\ Len(q) \in Nat \ {0} /\ Len(Tail(q)) = Len(q) - 1
         /\ Head(q) = q[1] /\ Head(q) \in Nat
         /\ \A i \in 1..Len(Tail(q)) : Tail(q)[i] = q[i + 1] /\ i + 1 \in 1..Len(q)
         /\ Tail(q) = <<>> <=> Len(Tail(q)) = 0
<1>1. /\ Tail(q) \in Seq(Nat) /\ Len(Tail(q)) = Len(q) - 1 /\ Head(q) \in Nat
      /\ \A i \in 1..Len(Tail(q)) : Tail(q)[i] = q[i + 1]
  BY HeadTailProperties
<1>2. Len(q) \in Nat \ {0} /\ (Tail(q) = <<>> <=> Len(Tail(q)) = 0)
  BY <1>1, EmptySeq
<1>3. Head(q) = q[1] OBVIOUS
<1>4. \A i \in 1..Len(Tail(q)) : i + 1 \in 1..Len(q) BY <1>1, <1>2
<1>. QED BY <1>1, <1>2, <1>3, <1>4

-----------------------------------------------------------------------------
(* The books of a take                                                     *)

Balanced(s, w, q, f, n) == AllThere(s, w, q, f, n) /\ InLine(w, q, f, n)

(* Another block is published: into the queue, or into the drops.          *)
LEMMA BalancedPut ==
  ASSUME NEW s, NEW w, NEW q \in Seq(Nat), NEW f \in Seq(Nat), NEW n \in Nat,
         s.iq \in Nat, s.drops \in Nat, w.item \in Nat,
         Balanced(s, w, q, f, n), Looping(w), Unmarked(q)
  PROVE  Balanced(s, w, Append(q, n + 1), f, n + 1) /\ Unmarked(Append(q, n + 1))
<1>. DEFINE a == Append(q, n + 1)
<1>1. /\ a \in Seq(Nat) /\ Len(q) \in Nat /\ Len(a) = Len(q) + 1 /\ a # <<>>
      /\ a[Len(q) + 1] = n + 1
      /\ \A i \in 1..Len(q) : a[i] = q[i] /\ q[i] \in Nat
      /\ 1..Len(a) = (1..Len(q)) \cup {Len(q) + 1}
  BY Appended
<1>2. Len(f) \in Nat /\ \A i \in 1..Len(f) : f[i] \in Nat
  BY LenProperties, ElementOfSeq
<1>. HIDE DEF a
<1>3. Blocks(q) = Len(q) BY <1>1, EmptySeq DEF Unmarked, Blocks
<1>4. Unmarked(a)
  <2>1. n + 1 # Sentinel BY DEF Sentinel
  <2>2. ASSUME NEW i \in 1..Len(a) PROVE a[i] # Sentinel
    <3>1. CASE i \in 1..Len(q) BY <1>1, <3>1 DEF Unmarked
    <3>2. CASE i = Len(q) + 1 BY <1>1, <2>1, <3>2
    <3>. QED BY <1>1, <3>1, <3>2
  <2>. QED BY <2>2 DEF Unmarked
<1>5. Blocks(a) = Len(q) + 1 BY <1>1, <1>4 DEF Unmarked, Blocks
<1>6. AllThere(s, w, a, f, n + 1)
  <2>1. s.iq = Len(f) /\ n = s.iq + s.drops + Len(q) + InHand(w)
    BY <1>3 DEF Balanced, AllThere
  <2>2. InHand(w) \in Nat BY DEF InHand
  <2> DEFINE l == Len(q)
             h == InHand(w)
             b == Blocks(a)
  <2>3. l \in Nat /\ h \in Nat /\ b = l + 1 /\ n = s.iq + s.drops + l + h
    BY <1>1, <1>5, <2>1, <2>2
  <2> HIDE DEF l, h, b
  <2>4. n + 1 = s.iq + s.drops + b + h BY ONLY <2>3, s.iq \in Nat, s.drops \in Nat
  <2>5. n + 1 = s.iq + s.drops + Blocks(a) + InHand(w) BY <2>4 DEF b, h
  <2>6. w.at \notin {"close", "ended"} BY DEF Looping
  <2>. QED BY <1>4, <2>1, <2>5, <2>6 DEF AllThere, Unmarked
<1>7. InLine(w, a, f, n + 1)
  <2>1. ASSUME NEW j \in 1..Len(q)
        PROVE  /\ a[j] <= n + 1
               /\ \A i \in 1..Len(f) : f[i] < a[j]
               /\ w.at = "write" => w.item < a[j]
               /\ \A i \in 1..(j - 1) : a[i] < a[j]
    <3>1. /\ q[j] <= n
          /\ \A i \in 1..Len(f) : f[i] < q[j]
          /\ w.at = "write" => w.item < q[j]
          /\ \A i \in 1..(j - 1) : q[i] < q[j]
      BY <2>1 DEF Balanced, InLine, Unmarked
    <3>2. \A i \in 1..(j - 1) : i \in 1..Len(q) BY <1>1
    <3>. QED BY <1>1, <3>1, <3>2
  <2>2. /\ \A i \in 1..Len(f) : f[i] <= n
        /\ w.at = "write" => w.item <= n
        /\ \A i \in 1..Len(q) : q[i] <= n
    BY DEF Balanced, InLine, Unmarked
  <2>3. /\ \A i \in 1..Len(f) : f[i] < n + 1
        /\ w.at = "write" => w.item < n + 1
        /\ \A i \in 1..((Len(q) + 1) - 1) : a[i] < n + 1
    <3>1. (Len(q) + 1) - 1 = Len(q) BY <1>1
    <3>2. \A m \in Nat : m <= n => m < n + 1 OBVIOUS
    <3>3. \A i \in 1..Len(q) : a[i] < n + 1 BY <1>1, <2>2, <3>2
    <3>. QED BY <1>2, <2>2, <3>1, <3>2, <3>3
  <2>4. /\ \A i \in 1..Len(f) : f[i] <= n + 1
        /\ w.at = "write" => w.item <= n + 1
    BY <1>1, <1>2, <2>3
  <2>5. n + 1 <= n + 1 OBVIOUS
  <2>. QED BY <1>1, <2>1, <2>3, <2>4, <2>5 DEF Balanced, InLine
<1>. QED BY <1>4, <1>6, <1>7 DEF Balanced, a

LEMMA BalancedDrop ==
  ASSUME NEW s, NEW r, NEW w, NEW q \in Seq(Nat), NEW f \in Seq(Nat), NEW n \in Nat,
         s.iq \in Nat, s.drops \in Nat, w.item \in Nat,
         r.iq = s.iq, r.drops = s.drops + 1,
         Balanced(s, w, q, f, n)
  PROVE  Balanced(r, w, q, f, n + 1)
<1>1. /\ Len(f) \in Nat /\ \A i \in 1..Len(f) : f[i] \in Nat
      /\ Len(q) \in Nat /\ \A i \in 1..Len(q) : q[i] \in Nat
  BY LenProperties, ElementOfSeq
<1>2. AllThere(r, w, q, f, n + 1)
  BY <1>1 DEF Balanced, AllThere, InHand, Blocks
<1>3. InLine(w, q, f, n + 1) BY <1>1 DEF Balanced, InLine
<1>. QED BY <1>2, <1>3 DEF Balanced

(* The sentinel goes in.                                                   *)
LEMMA BalancedMark ==
  ASSUME NEW s, NEW w, NEW q \in Seq(Nat), NEW f \in Seq(Nat), NEW n \in Nat,
         Balanced(s, w, q, f, n), Looping(w), Unmarked(q)
  PROVE  Balanced(s, w, Append(q, Sentinel), f, n)
<1>. DEFINE a == Append(q, Sentinel)
<1>1. /\ a \in Seq(Nat) /\ Len(q) \in Nat /\ Len(a) = Len(q) + 1 /\ a # <<>>
      /\ a[Len(q) + 1] = Sentinel
      /\ \A i \in 1..Len(q) : a[i] = q[i] /\ q[i] \in Nat
      /\ 1..Len(a) = (1..Len(q)) \cup {Len(q) + 1}
  BY Appended DEF Sentinel
<1>. HIDE DEF a
<1>2. Blocks(q) = Len(q) BY <1>1, EmptySeq DEF Unmarked, Blocks
<1>3. Blocks(a) = Len(q) BY <1>1 DEF Blocks
<1>4. AllThere(s, w, a, f, n)
  <2>1. s.iq = Len(f) /\ n = s.iq + s.drops + Blocks(a) + InHand(w)
    BY <1>2, <1>3 DEF Balanced, AllThere
  <2>2. w.at \notin {"close", "ended"} BY DEF Looping
  <2>3. \A i \in 1..Len(a) : a[i] = Sentinel => i = Len(a) BY <1>1 DEF Unmarked
  <2>. QED BY <2>1, <2>2, <2>3 DEF AllThere
<1>5. InLine(w, a, f, n)
  <2>1. ASSUME NEW j \in 1..Len(a), a[j] # Sentinel
        PROVE  /\ a[j] <= n
               /\ \A i \in 1..Len(f) : f[i] < a[j]
               /\ w.at = "write" => w.item < a[j]
               /\ \A i \in 1..(j - 1) : a[i] < a[j]
    <3>1. j \in 1..Len(q) /\ a[j] = q[j] /\ \A i \in 1..(j - 1) : i \in 1..Len(q)
      BY <1>1, <2>1
    <3>2. /\ q[j] <= n
          /\ \A i \in 1..Len(f) : f[i] < q[j]
          /\ w.at = "write" => w.item < q[j]
          /\ \A i \in 1..(j - 1) : q[i] < q[j]
      BY <2>1, <3>1 DEF Balanced, InLine
    <3>. QED BY <1>1, <3>1, <3>2
  <2>. QED BY <2>1 DEF Balanced, InLine
<1>. QED BY <1>4, <1>5 DEF Balanced, a

(* A block is taken out of the queue and counted as dropped.               *)
LEMMA BalancedEvict ==
  ASSUME NEW s, NEW r, NEW w, NEW q \in Seq(Nat), NEW f \in Seq(Nat), NEW n \in Nat,
         s.iq \in Nat, s.drops \in Nat, w.item \in Nat, q # <<>>,
         r.iq = s.iq, r.drops = s.drops + 1,
         Balanced(s, w, q, f, n), Looping(w), Unmarked(q)
  PROVE  Balanced(r, w, Tail(q), f, n) /\ Unmarked(Tail(q))
<1>. DEFINE a == Tail(q)
<1>1. /\ a \in Seq(Nat) /\ Len(q) \in Nat \ {0} /\ Len(a) = Len(q) - 1
      /\ \A i \in 1..Len(a) : a[i] = q[i + 1] /\ i + 1 \in 1..Len(q)
      /\ a = <<>> <=> Len(a) = 0
  BY Rest
<1>2. Len(f) \in Nat /\ \A i \in 1..Len(f) : f[i] \in Nat
  BY LenProperties, ElementOfSeq
<1>. HIDE DEF a
<1>3. Unmarked(a) BY <1>1 DEF Unmarked
<1>4. Blocks(q) = Len(q) /\ Blocks(a) = Len(a)
  BY <1>1, <1>3 DEF Unmarked, Blocks
<1>5. AllThere(r, w, a, f, n)
  <2>1. s.iq = Len(f) /\ n = s.iq + s.drops + Len(q) + InHand(w)
    BY <1>4 DEF Balanced, AllThere
  <2>2. InHand(w) \in Nat BY DEF InHand
  <2>3. n = r.iq + r.drops + Blocks(a) + InHand(w)
    <3>1. Blocks(a) = Len(q) - 1 /\ Len(q) \in Nat BY <1>1, <1>4
    <3>. QED BY <2>1, <2>2, <3>1
  <2>4. w.at \notin {"close", "ended"} BY DEF Looping
  <2>. QED BY <1>3, <2>1, <2>3, <2>4 DEF AllThere, Unmarked
<1>6. InLine(w, a, f, n)
  <2>1. ASSUME NEW j \in 1..Len(a), NEW i \in 1..(j - 1) PROVE a[i] < a[j]
    <3>1. i \in 1..Len(a) /\ i + 1 \in 1..((j + 1) - 1) /\ j + 1 \in 1..Len(q)
      BY <1>1, <2>1
    <3>2. q[i + 1] < q[j + 1] BY <3>1 DEF Balanced, InLine, Unmarked
    <3>. QED BY <1>1, <3>1, <3>2
  <2>2. ASSUME NEW j \in 1..Len(a)
        PROVE  /\ a[j] <= n
               /\ \A i \in 1..Len(f) : f[i] < a[j]
               /\ w.at = "write" => w.item < a[j]
    BY <1>1, <2>2 DEF Balanced, InLine, Unmarked
  <2>. QED BY <2>1, <2>2 DEF Balanced, InLine
<1>. QED BY <1>3, <1>5, <1>6 DEF Balanced, a

(* The writer takes the sentinel, which is all there is, or a block.       *)
LEMMA BalancedTakeMark ==
  ASSUME NEW s, NEW w, NEW v, NEW q \in Seq(Nat), NEW f \in Seq(Nat), NEW n \in Nat,
         s.iq \in Nat, s.drops \in Nat, w.at = "wait", q # <<>>,
         v.at = "close", Head(q) = Sentinel,
         Balanced(s, w, q, f, n)
  PROVE  Balanced(s, v, Tail(q), f, n)
<1>. DEFINE a == Tail(q)
<1>1. /\ a \in Seq(Nat) /\ Len(q) \in Nat \ {0} /\ Len(a) = Len(q) - 1
      /\ Head(q) = q[1]
      /\ a = <<>> <=> Len(a) = 0
  BY Rest
<1>. HIDE DEF a
<1>2. Len(q) = 1 /\ Len(a) = 0 /\ a = <<>> BY <1>1 DEF Balanced, AllThere
<1>3. Blocks(q) = 0 /\ Blocks(a) = 0 BY <1>1, <1>2 DEF Blocks
<1>4. AllThere(s, v, a, f, n) BY <1>2, <1>3 DEF Balanced, AllThere, InHand
<1>5. InLine(v, a, f, n) BY <1>2 DEF Balanced, InLine
<1>. QED BY <1>4, <1>5 DEF Balanced, a

LEMMA BalancedTake ==
  ASSUME NEW s, NEW w, NEW v, NEW q \in Seq(Nat), NEW f \in Seq(Nat), NEW n \in Nat,
         s.iq \in Nat, s.drops \in Nat, w.at = "wait", q # <<>>,
         v.at = "write", v.item = Head(q), Head(q) # Sentinel,
         Balanced(s, w, q, f, n)
  PROVE  Balanced(s, v, Tail(q), f, n) /\ (Unmarked(q) => Unmarked(Tail(q)))
<1>. DEFINE a == Tail(q)
<1>1. /\ a \in Seq(Nat) /\ Len(q) \in Nat \ {0} /\ Len(a) = Len(q) - 1
      /\ Head(q) = q[1] /\ Head(q) \in Nat
      /\ \A i \in 1..Len(a) : a[i] = q[i + 1] /\ i + 1 \in 1..Len(q)
      /\ a = <<>> <=> Len(a) = 0
  BY Rest
<1>2. /\ Len(f) \in Nat /\ \A i \in 1..Len(f) : f[i] \in Nat
      /\ \A i \in 1..Len(q) : q[i] \in Nat
  BY LenProperties, ElementOfSeq
<1>. HIDE DEF a
<1>3. Unmarked(q) => Unmarked(a) BY <1>1 DEF Unmarked
<1>4. Blocks(a) = Blocks(q) - 1 /\ Blocks(q) \in Nat
  <2>1. CASE Len(a) = 0
    <3>1. a = <<>> /\ Len(q) = 1 BY <1>1, <2>1
    <3>2. q[Len(q)] # Sentinel BY <1>1, <3>1
    <3>. QED BY <2>1, <3>1, <3>2 DEF Blocks
  <2>2. CASE Len(a) # 0
    <3>1. a[Len(a)] = q[Len(q)] BY <1>1, <2>2
    <3>. QED BY <1>1, <2>2, <3>1 DEF Blocks
  <2>. QED BY <2>1, <2>2
<1>5. AllThere(s, v, a, f, n)
  <2>1. ASSUME NEW i \in 1..Len(a), a[i] = Sentinel PROVE i = Len(a)
    BY <1>1, <2>1 DEF Balanced, AllThere
  <2>. QED BY <1>1, <1>2, <1>4, <2>1 DEF Balanced, AllThere, InHand
<1>6. InLine(v, a, f, n)
  <2>1. ASSUME NEW j \in 1..Len(a), a[j] # Sentinel
        PROVE  /\ a[j] <= n
               /\ \A i \in 1..Len(f) : f[i] < a[j]
               /\ v.item < a[j]
               /\ \A i \in 1..(j - 1) : a[i] < a[j]
    <3>1. a[j] = q[j + 1] /\ j + 1 \in 1..Len(q) /\ 1 \in 1..((j + 1) - 1)
      BY <1>1
    <3>2. /\ a[j] <= n
          /\ \A i \in 1..Len(f) : f[i] < a[j]
          /\ \A i \in 1..((j + 1) - 1) : q[i] < a[j]
      BY <2>1, <3>1 DEF Balanced, InLine
    <3>3. ASSUME NEW i \in 1..(j - 1) PROVE a[i] < a[j]
      <4>1. i \in 1..Len(a) /\ i + 1 \in 1..((j + 1) - 1) BY <1>1, <3>1, <3>3
      <4>. QED BY <1>1, <3>2, <4>1
    <3>. QED BY <1>1, <3>1, <3>2, <3>3
  <2>2. v.item # Sentinel /\ v.item <= n /\ \A i \in 1..Len(f) : f[i] < v.item
    BY <1>1 DEF Balanced, InLine
  <2>. QED BY <2>1, <2>2 DEF Balanced, InLine
<1>. QED BY <1>3, <1>5, <1>6 DEF Balanced, a

(* The writer writes what it holds and counts it.                          *)
LEMMA BalancedWrite ==
  ASSUME NEW s, NEW r, NEW w, NEW v, NEW q \in Seq(Nat), NEW f \in Seq(Nat), NEW n \in Nat,
         s.iq \in Nat, s.drops \in Nat, w.item \in Nat,
         w.at = "write", v.at = "loop", r.iq = s.iq + 1, r.drops = s.drops,
         Balanced(s, w, q, f, n)
  PROVE  Balanced(r, v, q, Append(f, w.item), n)
<1>. DEFINE g == Append(f, w.item)
<1>1. /\ g \in Seq(Nat) /\ Len(f) \in Nat /\ Len(g) = Len(f) + 1
      /\ g[Len(f) + 1] = w.item
      /\ \A i \in 1..Len(f) : g[i] = f[i] /\ f[i] \in Nat
      /\ 1..Len(g) = (1..Len(f)) \cup {Len(f) + 1}
  BY Appended
<1>2. Len(q) \in Nat /\ Blocks(q) \in Int /\ \A i \in 1..Len(q) : q[i] \in Nat
  BY LenProperties, ElementOfSeq DEF Blocks
<1>. HIDE DEF g
<1>3. AllThere(r, v, q, g, n)
  <2>1. /\ s.iq = Len(f) /\ n = s.iq + s.drops + Blocks(q) + 1
        /\ \A i \in 1..Len(q) : q[i] = Sentinel => i = Len(q)
    BY DEF Balanced, AllThere, InHand
  <2>2. r.iq = Len(g) /\ n = r.iq + r.drops + Blocks(q) + 0 BY <1>1, <1>2, <2>1
  <2>. QED BY <2>1, <2>2 DEF AllThere, InHand
<1>4. InLine(v, q, g, n)
  <2>1. \A i \in 1..Len(f) : f[i] < w.item /\ f[i] <= n BY DEF Balanced, InLine
  <2>2. ASSUME NEW i \in 1..Len(g), NEW j \in 1..Len(g), i < j PROVE g[i] < g[j]
    <3>1. CASE j \in 1..Len(f)
      <4>1. i \in 1..Len(f) BY <1>1, <2>2, <3>1
      <4>2. f[i] < f[j] BY <2>2, <3>1, <4>1 DEF Balanced, InLine, InOrderOnDisk
      <4>. QED BY <1>1, <3>1, <4>1, <4>2
    <3>2. CASE j = Len(f) + 1
      <4>1. i \in 1..Len(f) BY <1>1, <2>2, <3>2
      <4>. QED BY <1>1, <2>1, <3>2, <4>1
    <3>. QED BY <1>1, <3>1, <3>2
  <2>3. \A i \in 1..Len(g) : g[i] <= n
    <3>1. w.item <= n BY DEF Balanced, InLine
    <3>. QED BY <1>1, <2>1, <3>1
  <2>4. ASSUME NEW j \in 1..Len(q), q[j] # Sentinel, NEW i \in 1..Len(g) PROVE g[i] < q[j]
    <3>1. w.item < q[j] /\ \A k \in 1..Len(f) : f[k] < q[j]
      BY <2>4 DEF Balanced, InLine
    <3>. QED BY <1>1, <3>1
  <2>. QED BY <2>2, <2>3, <2>4 DEF Balanced, InLine, InOrderOnDisk
<1>. QED BY <1>3, <1>4 DEF Balanced, g

(* The writer goes on without a block in hand.                             *)
LEMMA BalancedMove ==
  ASSUME NEW s, NEW r, NEW w, NEW v, NEW q, NEW f, NEW n,
         r.iq = s.iq, r.drops = s.drops, w.at # "write", v.at # "write",
         v.at \in {"close", "ended"} => w.at \in {"close", "ended"},
         Balanced(s, w, q, f, n)
  PROVE  Balanced(r, v, q, f, n)
BY DEF Balanced, AllThere, InLine, InHand

LEMMA NoneBalanced ==
  ASSUME NEW s, NEW w, s.iq = 0, s.drops = 0, w.at = "loop"
  PROVE  Balanced(s, w, <<>>, <<>>, 0) /\ Unmarked(<<>>)
BY DEF Balanced, AllThere, InLine, InHand, InOrderOnDisk, Unmarked, Blocks

-----------------------------------------------------------------------------
(* The callers                                                             *)

LEMMA CallerGoes ==
  ASSUME MonitorTypes, NEW c \in Callers, NEW at \in CallerPlaces, NEW on \in Named,
         Go(c, at, on)
  PROVE  /\ caller' \in [Callers -> [at : CallerPlaces, on : Named]]
         /\ caller'[c].at = at /\ caller'[c].on = on
         /\ \A d \in Callers \ {c} : caller'[d] = caller[d]
BY DEF MonitorTypes, Go

(* A caller that goes on and changes nothing else keeps what is known, if  *)
(* it starts to put for nobody and waits for the writer of the take.       *)
Goes(c, at, on) ==
  /\ Go(c, at, on) /\ c \in Callers /\ at \in CallerPlaces /\ on \in Named
  /\ c = "gui" => at # "start"
  /\ at \in Putting => caller[c].at \in Putting /\ on = caller[c].on
  /\ at \in {"join", "finish"} =>
       \/ on = service.worker
       \/ caller[c].at \in Putting \cup {"join", "finish"} /\ on = caller[c].on

LEMMA GoesTypes ==
  ASSUME TakeInv, NEW c, NEW at, NEW on, Goes(c, at, on),
         UNCHANGED <<service, queues, files, final, disk, writer, published, clean>>,
         pool' \in Seq({"start", "stop"})
  PROVE  TakeInv'
<1>. USE DEF TakeInv
<1>1. /\ caller' \in [Callers -> [at : CallerPlaces, on : Named]]
      /\ caller'[c].at = at /\ caller'[c].on = on
      /\ \A d \in Callers \ {c} : caller'[d] = caller[d]
  BY CallerGoes DEF Goes
<1>2. MonitorTypes' BY <1>1 DEF MonitorTypes
<1>3. Numbers'
  <2>1. caller'["gui"].at # "start" BY <1>1 DEF Goes, Numbers, Callers
  <2>2. ASSUME NEW d \in Callers, caller'[d].at \in Putting
        PROVE  caller'[d].on \in Takes /\ caller'[d].on <= service.take
    BY <1>1, <2>2 DEF Goes, Numbers
  <2>. QED BY <2>1, <2>2 DEF Numbers
<1>. DEFINE t == service.take
<1>4. ASSUME t \in clean PROVE AloneIn(t)'
  <2>1. AloneIn(t) BY <1>4
  <2>2. ASSUME NEW d \in Callers, caller'[d].at \in Putting \cup {"join", "finish"}
        PROVE  caller'[d].on = t
    BY <1>1, <2>1, <2>2 DEF Goes, AloneIn
  <2>3. \A d \in Callers : caller'[d].at \in Putting => caller[d].at \in Putting
    BY <1>1 DEF Goes
  <2>. QED BY <2>1, <2>2, <2>3 DEF AloneIn, Alive
<1>5. ASSUME t \in clean, Sound' PROVE Booked(t)'
  <2>1. Booked(t) BY <1>5 DEF Sound
  <2>2. \A d \in Callers : caller'[d].at \in Putting => caller[d].at \in Putting
    BY <1>1 DEF Goes
  <2>. QED BY <2>1, <2>2 DEF Booked
<1>. QED BY <1>2, <1>3, <1>4, <1>5

LEMMA CallersWait ==
  ASSUME TakeInv,
         UNCHANGED <<service, queues, files, final, disk, writer, caller, published, clean>>,
         pool' \in Seq({"start", "stop"})
  PROVE  TakeInv'
BY DEF TakeInv, MonitorTypes, Numbers, AloneIn, Booked, Alive, Sound

LEMMA ClickStartKeeps == ASSUME TakeInv, ClickStart PROVE TakeInv'
<1>1. pool' \in Seq({"start", "stop"})
  BY AppendProperties DEF ClickStart, TakeInv, MonitorTypes
<1>. QED BY <1>1, CallersWait DEF ClickStart

LEMMA ClickStopKeeps == ASSUME TakeInv, ClickStop PROVE TakeInv'
<1>1. pool' \in Seq({"start", "stop"})
  BY AppendProperties DEF ClickStop, TakeInv, MonitorTypes
<1>. QED BY <1>1, CallersWait DEF ClickStop

LEMMA ShowHealthKeeps == ASSUME TakeInv, ShowHealth PROVE TakeInv'
BY CallersWait DEF ShowHealth, TakeInv, MonitorTypes

LEMMA LaneTakesKeeps ==
  ASSUME TakeInv, NEW c \in Callers, LaneTakes(c) PROVE TakeInv'
<1>1. Head(pool) \in {"start", "stop"} /\ pool' \in Seq({"start", "stop"})
  BY HeadTailProperties DEF LaneTakes, TakeInv, MonitorTypes
<1>2. Goes(c, Head(pool), 0)
  BY <1>1, TakesAssumption
     DEF LaneTakes, Goes, CallerPlaces, Putting, Named, Lanes
<1>. QED BY <1>1, <1>2, GoesTypes DEF LaneTakes

LEMMA ShutdownKeeps == ASSUME TakeInv, Shutdown PROVE TakeInv'
<1>1. PICK at \in {"stop", "release"} : Go("gui", at, 0)
  BY DEF Shutdown
<1>2. Goes("gui", at, 0)
  BY <1>1, TakesAssumption DEF Goes, CallerPlaces, Putting, Named, Callers
<1>3. pool' \in Seq({"start", "stop"}) BY EmptySeq DEF Shutdown
<1>. QED BY <1>2, <1>3, GoesTypes DEF Shutdown

LEMMA JoinedKeeps ==
  ASSUME TakeInv, NEW c \in Callers, Joined(c) PROVE TakeInv'
<1>1. Goes(c, "finish", caller[c].on)
  BY DEF Joined, Goes, CallerPlaces, Putting, TakeInv, MonitorTypes
<1>. QED BY <1>1, GoesTypes DEF Joined, TakeInv, MonitorTypes

(* The end of a call takes it where it waits for nobody.                   *)
LEMMA ReturnsGoes ==
  ASSUME NEW c \in Callers, Returns(c)
  PROVE  \E at \in {"release", "idle"} : Go(c, at, 0) /\ Goes(c, at, 0)
<1>1. PICK at \in {"release", "idle"} : Go(c, at, 0)
  BY DEF Returns
<1>2. Goes(c, at, 0)
  BY <1>1, TakesAssumption DEF Goes, CallerPlaces, Putting, Named
<1>. QED BY <1>1, <1>2

-----------------------------------------------------------------------------
(* The service                                                             *)

(* What is known to have failed is not forgotten.                          *)
Grows ==
  disk' \in Disks /\ disk.unclosed \subseteq disk'.unclosed /\ disk.unrenamed \subseteq disk'.unrenamed

LEMMA HoldingGrows ==
  ASSUME TakeInv, NEW n \in Nat, disk' = Holding(n),
         n = 0 \/ service.handle \in disk.unclosed
  PROVE  Grows
<1>. DEFINE held == [t \in Takes |-> IF t = service.handle THEN n ELSE disk.held[t]]
<1>1. held \in [Takes -> Nat] /\ disk \in Disks
      /\ \A t \in Takes : t \in disk.unclosed \/ held[t] = 0
  BY DEF TakeInv, MonitorTypes, Disks
<1>2. disk' = [disk EXCEPT !.held = held] BY DEF Holding
<1>. HIDE DEF held
<1>. QED BY <1>1, <1>2 DEF Disks, Grows

LEMMA ClosingFailsGrows ==
  ASSUME TakeInv, ClosingFails
  PROVE  /\ Grows /\ service.handle \in disk'.unclosed /\ UNCHANGED service
<1>1. PICK n \in Nat : disk' = [Holding(n) EXCEPT !.unclosed = @ \cup {service.handle}]
  <2>1. service.handle \in Takes
    BY TakesAssumption DEF ClosingFails, TakeInv, MonitorTypes, Services, Named, Takes
  <2>2. files[service.handle] \in Seq(Nat) BY <2>1 DEF TakeInv, MonitorTypes
  <2>3. 0..Len(files[service.handle]) \subseteq Nat BY <2>2
  <2>. QED BY <2>3, Zenon DEF ClosingFails
<1>. DEFINE held == [t \in Takes |-> IF t = service.handle THEN n ELSE disk.held[t]]
            gone == disk.unclosed \cup {service.handle}
<1>2. service.handle \in Takes /\ disk \in Disks
  BY TakesAssumption DEF ClosingFails, TakeInv, MonitorTypes, Services, Named, Takes
<1>3. held \in [Takes -> Nat] /\ \A t \in Takes : t \in gone \/ held[t] = 0
  BY <1>2 DEF Disks
<1>4. disk' = [disk EXCEPT !.held = held, !.unclosed = gone]
  BY <1>1, <1>2 DEF Holding, Disks
<1>. HIDE DEF held
<1>. QED BY <1>2, <1>3, <1>4 DEF Disks, Grows, ClosingFails

(* A handle that is left is closed, or its close fails.                    *)
LEMMA ReleaseKeeps == ASSUME TakeInv, Release PROVE TakeInv'
<1>. USE DEF TakeInv
<1>. DEFINE t == service.take
<1>1. /\ Grows
      /\ service' \in Services /\ service'.take = t /\ service'.worker = service.worker
      /\ service'.handle \in {0, service.handle}
      /\ service'.iq = service.iq /\ service'.drops = service.drops
      /\ service'.state = service.state \/ service'.state = "IDLE"
  <2>1. CASE ClosingFails BY <2>1, ClosingFailsGrows DEF MonitorTypes
  <2>2. CASE disk' \in {disk, Holding(0)}
    <3>. DEFINE s == IF service.state = "COMPLETED" THEN "IDLE" ELSE service.state
    <3>1. CASE service' = [service EXCEPT !.handle = 0, !.state = s]
      <4>1. s \in {"IDLE", service.state} /\ s \in TakeStates /\ 0 \in Named
            /\ service \in Services
        BY TakesAssumption DEF MonitorTypes, Services, TakeStates, Named
      <4>2. Grows BY <2>2, HoldingGrows DEF Grows, MonitorTypes
      <4>. HIDE DEF s
      <4>. QED BY <3>1, <4>1, <4>2 DEF Services
    <3>. QED BY <2>1, <3>1 DEF Release
  <2>. QED BY <2>1, <2>2 DEF Release
<1>2. /\ caller' \in [Callers -> [at : CallerPlaces, on : Named]]
      /\ caller'["gui"].at = "idle"
      /\ \A d \in Callers \ {"gui"} : caller'[d] = caller[d]
  <2>1. Go("gui", "idle", 0) /\ "gui" \in Callers /\ "idle" \in CallerPlaces /\ 0 \in Named
    BY TakesAssumption DEF Release, CallerPlaces, Named, Callers
  <2>. QED BY <2>1, CallerGoes
<1>3. UNCHANGED <<queues, files, final, writer, pool, published, clean>>
  BY DEF Release
<1>4. MonitorTypes' BY <1>1, <1>2, <1>3 DEF MonitorTypes, Grows
<1>5. \A d \in Callers : caller'[d].at \in Putting \cup {"join", "finish"} => caller'[d] = caller[d]
  BY <1>2 DEF Putting
<1>6. Numbers'
  BY <1>1, <1>2, <1>3, <1>5 DEF Numbers, MonitorTypes, Services, Named
<1>7. ASSUME t \in clean PROVE AloneIn(t)'
  BY <1>1, <1>3, <1>5, <1>7 DEF AloneIn, Alive, Grows
<1>8. ASSUME t \in clean, Sound' PROVE Booked(t)'
  <2>1. Sound /\ service'.state = service.state BY <1>1, <1>8 DEF Sound
  <2>. QED BY <1>1, <1>3, <1>5, <1>8, <2>1 DEF Booked, AllThere, Grows
<1>. QED BY <1>1, <1>3, <1>4, <1>6, <1>7, <1>8

(* A take begins: with a writer, or without one when its header fails.     *)
LEMMA StartKeeps ==
  ASSUME TakeInv, NEW c \in Callers, StartTake(c) PROVE TakeInv'
<1>. USE DEF TakeInv
<1>1. CASE StartRefused(c)
  BY <1>1, ReturnsGoes, GoesTypes DEF StartRefused, MonitorTypes
<1>2. ASSUME service.take < MaxTakes,
             Started(c, service.take + 1) \/ HeaderFails(service.take + 1), Returns(c),
             UNCHANGED <<queues, files, final, disk, pool, published>>
      PROVE  TakeInv'
  <2>1. PICK t : t = service.take + 1
    OBVIOUS
  <2>2. t \in Takes /\ t \in Named /\ service.take \in Named /\ service.worker \in Named
        /\ service.sink \in BOOLEAN
    BY <1>2, <2>1, TakesAssumption DEF MonitorTypes, Services, Named, Takes
  <2>3. Started(c, t) \/ HeaderFails(t) BY <1>2, <2>1
  <2>4. PICK at \in {"release", "idle"} : Go(c, at, 0)
    BY <1>2, ReturnsGoes
  <2>5. /\ caller' \in [Callers -> [at : CallerPlaces, on : Named]]
        /\ caller'[c].at = at
        /\ \A d \in Callers \ {c} : caller'[d] = caller[d]
    BY <2>4, CallerGoes, TakesAssumption DEF CallerPlaces, Named
  <2>6. /\ service' \in Services /\ service'.take = t /\ service'.handle = t
        /\ service'.state = "RECORDING" /\ service'.iq = 0 /\ service'.drops = 0
    <3>. DEFINE new == [state |-> "RECORDING", take |-> t, worker |-> t, handle |-> t,
                        sink |-> TRUE, iq |-> 0, drops |-> 0]
    <3>1. new \in Services /\ new = NewTake(t)
      BY <2>2 DEF Services, TakeStates, NewTake
    <3>2. CASE service' = new BY <3>1, <3>2
    <3>3. CASE service' = [new EXCEPT !.worker = service.worker, !.sink = service.sink]
      <4>. DEFINE w == service.worker  k == service.sink
      <4>1. w \in Named /\ k \in BOOLEAN BY <2>2
      <4>. HIDE DEF w, k
      <4>2. service' = [state |-> "RECORDING", take |-> t, worker |-> w, handle |-> t,
                        sink |-> k, iq |-> 0, drops |-> 0]
        BY <3>3 DEF w, k
      <4>. QED BY <2>2, <4>1, <4>2 DEF Services, TakeStates
    <3>. QED BY <2>3, <3>1, <3>2, <3>3 DEF Started, HeaderFails
  <2>7. /\ writer' \in [Takes -> Writers]
        /\ \A u \in Takes \ {t} : writer'[u] = writer[u]
        /\ writer'[t].at \in {"none", "loop"}
        /\ writer[t].at = "none"
    <3>1. writer[t].at = "none" /\ writer[t] \in Writers
      BY <2>1, <2>2 DEF Numbers, MonitorTypes, Named, Takes
    <3>2. CASE writer' = [writer EXCEPT ![t].at = "loop"]
      <4>1. [writer[t] EXCEPT !.at = "loop"] \in Writers
            /\ [writer[t] EXCEPT !.at = "loop"].at = "loop"
        BY <3>1 DEF Writers, WriterPlaces
      <4>. QED BY <2>2, <3>1, <3>2, <4>1 DEF MonitorTypes
    <3>3. CASE writer' = writer BY <3>1, <3>3 DEF MonitorTypes
    <3>. QED BY <2>3, <3>2, <3>3 DEF Started, HeaderFails
  <2>8. clean' \subseteq clean \cup {t} /\ t \notin clean
    BY <2>3, <2>1, <2>2 DEF Started, HeaderFails, Numbers, Named
  <2>9. MonitorTypes' BY <1>2, <2>5, <2>6, <2>7 DEF MonitorTypes
  <2>10. \A d \in Callers : caller'[d].at \in Putting \cup {"join", "finish", "start"} =>
          d # c /\ caller'[d] = caller[d]
    BY <2>5 DEF Putting
  <2>11. Numbers'
    <3>1. \A u \in Takes : u > t => u > service.take /\ u # t
      BY <2>1, <2>2 DEF Takes, Named
    <3>2. \A u \in Named : u <= service.take => u <= t BY <2>1, <2>2 DEF Named
    <3>3. \A u \in Takes : u > t =>
            queues'[u] = <<>> /\ files'[u] = <<>> /\ published'[u] = 0 /\ writer'[u].at = "none"
      BY <1>2, <2>7, <3>1 DEF Numbers
    <3>4. \A u \in clean' : u \in Takes /\ u <= t
      BY <2>2, <2>8, <3>2 DEF Numbers, Named, Takes
    <3>5. caller'["gui"].at # "start" BY <2>10 DEF Numbers, Callers
    <3>6. \A d \in Callers : caller'[d].at \in Putting =>
            caller'[d].on \in Takes /\ caller'[d].on <= t
      BY <2>10, <3>2, <2>5 DEF Numbers, Takes, Named
    <3>7. \A u \in Takes : writer'[u].at = "wait" => writer'[u].on \in Takes
      BY <2>7 DEF Numbers
    <3>8. t <= t BY <2>2 DEF Named
    <3>. QED BY <2>2, <2>6, <3>3, <3>4, <3>5, <3>6, <3>7, <3>8 DEF Numbers
  <2>12. ASSUME t \in clean' PROVE AloneIn(t)' /\ Booked(t)'
    <3>1. Started(c, t) /\ Quiet(c)
      BY <2>3, <2>8, <2>12 DEF Started, HeaderFails
    <3>2. service'.worker = t /\ writer'[t].at = "loop"
      BY <2>2, <3>1 DEF Started, NewTake, MonitorTypes
    <3>3. \A u \in Takes \ {t} : ~Alive(u)' BY <2>7, <3>1 DEF Quiet, Alive
    <3>4. \A d \in Callers : caller'[d].at \notin Putting \cup {"join", "finish"}
      BY <2>10, <3>1 DEF Quiet, Putting
    <3>5. AloneIn(t)' BY <2>6, <3>2, <3>3, <3>4 DEF AloneIn
    <3>6. queues'[t] = <<>> /\ files'[t] = <<>> /\ published'[t] = 0
      BY <1>2, <2>1, <2>2 DEF Numbers, Named, Takes
    <3>7. Balanced(service', writer'[t], <<>>, <<>>, 0) /\ Unmarked(<<>>)
      BY <2>6, <3>2, NoneBalanced
    <3>8. Booked(t)'
      BY <2>6, <3>2, <3>4, <3>6, <3>7 DEF Booked, Balanced, Looping
    <3>. QED BY <3>5, <3>8
  <2>. QED BY <2>6, <2>9, <2>11, <2>12
<1>3. CASE OpenFails /\ Returns(c) /\ UNCHANGED <<queues, files, final, disk, pool, published>>
  BY <1>3, ReturnsGoes, GoesTypes DEF OpenFails, MonitorTypes
<1>. QED BY <1>1, <1>2, <1>3 DEF StartTake

(* A block is published into the queue of the take, or is dropped.         *)
LEMMA PublishKeeps == ASSUME TakeInv, Publish PROVE TakeInv'
<1>. USE DEF TakeInv
<1>. DEFINE t == service.take  n == published[t]
<1>1. t \in Takes /\ service.state = "RECORDING" /\ service \in Services /\ n \in Nat
      /\ queues[t] \in Seq(Nat) /\ files[t] \in Seq(Nat) /\ writer[t] \in Writers
  BY DEF Publish, Numbers, MonitorTypes
<1>2. /\ published' \in [Takes -> Nat] /\ published'[t] = n + 1
      /\ \A u \in Takes \ {t} : published'[u] = published[u]
  BY <1>1 DEF Publish, MonitorTypes
<1>3. UNCHANGED <<files, final, disk, writer, caller, pool, clean>>
  BY DEF Publish
<1>4. \/ service' = [service EXCEPT !.drops = @ + 1] /\ queues' = queues
      \/ queues' = [queues EXCEPT ![t] = Append(@, n + 1)] /\ service' = service
  BY <1>1 DEF Publish
<1>5. /\ service' \in Services /\ service'.take = t /\ service'.worker = service.worker
      /\ service'.handle = service.handle /\ service'.state = service.state
      /\ service'.iq = service.iq
      /\ \/ service'.drops = service.drops + 1 /\ queues' = queues
         \/ service' = service /\ queues' = [queues EXCEPT ![t] = Append(@, n + 1)]
  BY <1>1, <1>4 DEF Services
<1>6. /\ queues' \in [Takes -> Seq(Nat)]
      /\ \A u \in Takes \ {t} : queues'[u] = queues[u]
  <2>1. Append(queues[t], n + 1) \in Seq(Nat) BY <1>1, Appended
  <2>2. queues \in [Takes -> Seq(Nat)] BY DEF MonitorTypes
  <2>3. queues' = queues \/ queues' = [queues EXCEPT ![t] = Append(queues[t], n + 1)]
    BY <1>5
  <2>. QED BY <2>1, <2>2, <2>3
<1>7. MonitorTypes' BY <1>2, <1>3, <1>5, <1>6 DEF MonitorTypes
<1>8. \A u \in Takes : u > t => u # t BY <1>1 DEF Takes
<1>9. Numbers' BY <1>1, <1>2, <1>3, <1>5, <1>6, <1>8 DEF Numbers
<1>10. ASSUME t \in clean PROVE AloneIn(t)' /\ Booked(t)'
  <2>1. AloneIn(t) /\ Booked(t) BY <1>1, <1>10 DEF Sound
  <2>2. AloneIn(t)' BY <1>3, <1>5, <2>1 DEF AloneIn, Alive
  <2>3. /\ Balanced(service, writer[t], queues[t], files[t], n)
        /\ Looping(writer[t]) /\ Unmarked(queues[t])
    BY <1>1, <2>1 DEF Booked, Balanced
  <2>4. service.iq \in Nat /\ service.drops \in Nat /\ writer[t].item \in Nat
    BY <1>1 DEF Services, Writers
  <2>5. Balanced(service', writer[t], queues'[t], files[t], n + 1) /\ Unmarked(queues'[t])
    <3>1. CASE service'.drops = service.drops + 1 /\ queues' = queues
      BY <1>1, <1>5, <2>3, <2>4, <3>1, BalancedDrop
    <3>2. CASE service' = service /\ queues' = [queues EXCEPT ![t] = Append(@, n + 1)]
      <4>1. queues'[t] = Append(queues[t], n + 1)
        BY <1>1, <3>2 DEF MonitorTypes
      <4>2. Balanced(service, writer[t], Append(queues[t], n + 1), files[t], n + 1)
            /\ Unmarked(Append(queues[t], n + 1))
        BY <1>1, <2>3, <2>4, BalancedPut
      <4>. QED BY <3>2, <4>1, <4>2
    <3>. QED BY <1>5, <3>1, <3>2
  <2>6. Booked(t)'
    BY <1>1, <1>2, <1>3, <1>5, <2>1, <2>3, <2>5 DEF Booked, Balanced
  <2>. QED BY <2>2, <2>6
<1>. QED BY <1>3, <1>5, <1>7, <1>9, <1>10

-----------------------------------------------------------------------------
(* stop                                                                    *)

LEMMA StopBeginsKeeps ==
  ASSUME TakeInv, NEW c \in Callers, StopBegins(c) PROVE TakeInv'
<1>. USE DEF TakeInv
<1>. DEFINE t == service.take
<1>1. pool' \in Seq({"start", "stop"})
      /\ UNCHANGED <<queues, files, final, disk, writer, pool, published, clean>>
  BY DEF StopBegins, MonitorTypes
<1>2. CASE UNCHANGED service /\ Returns(c)
  BY <1>1, <1>2, ReturnsGoes, GoesTypes
<1>3. CASE UNCHANGED service /\ GoJoin(c)
  <2>1. Goes(c, "join", service.worker)
    BY <1>3 DEF GoJoin, Goes, CallerPlaces, Putting, MonitorTypes, Services
  <2>. QED BY <1>1, <1>3, <2>1, GoesTypes
<1>4. ASSUME service.state = "RECORDING",
             service' = [service EXCEPT !.state = "FINALIZING", !.sink = FALSE],
             Go(c, "put", service.take)
      PROVE  TakeInv'
  <2>1. /\ service' \in Services /\ service'.take = t /\ service'.worker = service.worker
        /\ service'.handle = service.handle /\ service'.iq = service.iq
        /\ service'.drops = service.drops /\ service'.state = "FINALIZING"
    BY <1>4 DEF MonitorTypes, Services, TakeStates
  <2>2. t \in Takes /\ t \in Named /\ t <= t BY <1>4 DEF Numbers, Takes, Named
  <2>3. /\ caller' \in [Callers -> [at : CallerPlaces, on : Named]]
        /\ caller'[c].at = "put" /\ caller'[c].on = t
        /\ \A d \in Callers \ {c} : caller'[d] = caller[d]
    BY <1>4, <2>2, CallerGoes DEF CallerPlaces, Putting
  <2>4. MonitorTypes' BY <1>1, <2>1, <2>3 DEF MonitorTypes
  <2>5. Numbers' BY <1>1, <2>1, <2>2, <2>3 DEF Numbers, Callers
  <2>6. ASSUME t \in clean PROVE AloneIn(t)' /\ Booked(t)'
    <3>1. AloneIn(t) /\ Booked(t) BY <1>4, <2>6 DEF Sound
    <3>2. \A d \in Callers : caller[d].at \notin Putting
      BY <1>4, <3>1 DEF Booked
    <3>3. \A d \in Callers : caller'[d].at \in Putting => d = c BY <2>3, <3>2
    <3>4. \A d \in Callers : caller'[d].at \in Putting \cup {"join", "finish"} =>
            caller'[d].on = t
      BY <2>3, <3>1 DEF AloneIn
    <3>5. AloneIn(t)' BY <1>1, <2>1, <3>1, <3>3, <3>4 DEF AloneIn, Alive
    <3>6. Looping(writer[t]) /\ Unmarked(queues[t]) BY <1>4, <3>1 DEF Booked
    <3>7. Booked(t)' BY <1>1, <2>1, <3>1, <3>6 DEF Booked, AllThere
    <3>. QED BY <3>5, <3>7
  <2>. QED BY <1>1, <2>1, <2>4, <2>5, <2>6
<1>. QED BY <1>2, <1>3, <1>4 DEF StopBegins

(* The sentinel goes in, by the only call that puts.                       *)
LEMMA MarkKeeps ==
  ASSUME TakeInv, NEW c \in Callers, caller[c].at \in Putting, GoJoin(c),
         queues' = [queues EXCEPT ![caller[c].on] = Append(@, Sentinel)],
         UNCHANGED <<service, files, final, disk, writer, pool, published, clean>>
  PROVE  TakeInv'
<1>. USE DEF TakeInv
<1>. DEFINE t == service.take
<1>1. PICK q : q = caller[c].on
  OBVIOUS
<1>2. q \in Takes /\ q <= t /\ queues[q] \in Seq(Nat) /\ service.worker \in Named
  BY <1>1 DEF Numbers, MonitorTypes, Services
<1>3. queues' = [queues EXCEPT ![q] = Append(queues[q], Sentinel)] BY <1>1
<1>4. /\ queues' \in [Takes -> Seq(Nat)] /\ queues'[q] = Append(queues[q], Sentinel)
      /\ \A u \in Takes \ {q} : queues'[u] = queues[u]
  BY <1>2, <1>3, Appended DEF MonitorTypes, Sentinel
<1>5. /\ caller' \in [Callers -> [at : CallerPlaces, on : Named]]
      /\ caller'[c].at = "join" /\ caller'[c].on = service.worker
      /\ \A d \in Callers \ {c} : caller'[d] = caller[d]
  BY <1>2, CallerGoes DEF GoJoin, CallerPlaces
<1>6. MonitorTypes' BY <1>4, <1>5 DEF MonitorTypes
<1>7. \A d \in Callers : caller'[d].at \in Putting \cup {"start"} => caller'[d] = caller[d]
  BY <1>5 DEF Putting
<1>8. \A u \in Takes : u > t => u # q
  BY <1>2 DEF Takes, MonitorTypes, Services, Named
<1>9. Numbers' BY <1>4, <1>7, <1>8 DEF Numbers, Callers
<1>10. ASSUME t \in clean PROVE AloneIn(t)'
  <2>1. AloneIn(t) BY <1>10
  <2>2. \A d \in Callers : caller'[d].at \in Putting \cup {"join", "finish"} =>
          caller'[d].on = t
    BY <1>5, <2>1 DEF AloneIn
  <2>. QED BY <1>7, <2>1, <2>2 DEF AloneIn, Alive
<1>11. ASSUME t \in clean, Sound' PROVE Booked(t)'
  <2>1. AloneIn(t) /\ Booked(t) BY <1>11 DEF Sound
  <2>2. q = t BY <1>1, <2>1 DEF AloneIn
  <2>3. /\ Balanced(service, writer[t], queues[t], files[t], published[t])
        /\ Looping(writer[t]) /\ Unmarked(queues[t]) /\ service.state = "FINALIZING"
    BY <2>1 DEF Booked, Balanced
  <2>4. files[t] \in Seq(Nat) /\ published[t] \in Nat
    BY <1>2, <2>2 DEF MonitorTypes
  <2>5. Balanced(service, writer[t], queues'[t], files[t], published[t])
    BY <1>2, <1>4, <2>2, <2>3, <2>4, BalancedMark
  <2>6. \A d \in Callers : caller'[d].at \notin Putting
    BY <1>5, <1>7, <2>1 DEF AloneIn, Putting
  <2>. QED BY <2>3, <2>5, <2>6 DEF Booked, Balanced
<1>. QED BY <1>6, <1>9, <1>10, <1>11

LEMMA PutsSentinelKeeps ==
  ASSUME TakeInv, NEW c \in Callers, PutsSentinel(c) PROVE TakeInv'
<1>1. CASE Go(c, "evict", caller[c].on) /\ UNCHANGED queues
  <2>1. Goes(c, "evict", caller[c].on)
    BY <1>1 DEF PutsSentinel, Goes, CallerPlaces, Putting, TakeInv, MonitorTypes
  <2>. QED BY <1>1, <2>1, GoesTypes DEF PutsSentinel, TakeInv, MonitorTypes
<1>2. CASE GoJoin(c) /\ queues' = [queues EXCEPT ![caller[c].on] = Append(@, Sentinel)]
  BY <1>2, MarkKeeps DEF PutsSentinel, Putting
<1>. QED BY <1>1, <1>2 DEF PutsSentinel

LEMMA PlaceSentinelKeeps ==
  ASSUME TakeInv, NEW c \in Callers, PlaceSentinel(c) PROVE TakeInv'
BY MarkKeeps DEF PlaceSentinel, Putting

LEMMA EvictKeeps ==
  ASSUME TakeInv, NEW c \in Callers, EvictOne(c) PROVE TakeInv'
<1>. USE DEF TakeInv
<1>. DEFINE t == service.take
<1>1. UNCHANGED <<files, final, disk, writer, pool, published, clean>> /\ caller[c].at = "evict"
      /\ pool \in Seq({"start", "stop"})
  BY DEF EvictOne, MonitorTypes
<1>2. PICK q : q = caller[c].on
  OBVIOUS
<1>3. q \in Takes /\ q \in Named /\ q <= t /\ queues[q] \in Seq(Nat) /\ service \in Services
  BY <1>1, <1>2 DEF Numbers, MonitorTypes, Putting
<1>4. CASE GoJoin(c) /\ UNCHANGED <<queues, service>>
  <2>1. Goes(c, "join", service.worker)
    BY <1>3, <1>4 DEF GoJoin, Goes, CallerPlaces, Putting, Services
  <2>. QED BY <1>1, <1>4, <2>1, GoesTypes
<1>5. ASSUME queues[q] # <<>>, queues' = [queues EXCEPT ![q] = Tail(@)],
             service' = [service EXCEPT !.drops = @ + 1], Go(c, "place", q)
      PROVE  TakeInv'
  <2>1. /\ service' \in Services /\ service'.take = t /\ service'.worker = service.worker
        /\ service'.handle = service.handle /\ service'.iq = service.iq
        /\ service'.drops = service.drops + 1 /\ service'.state = service.state
    BY <1>3, <1>5 DEF Services
  <2>2. /\ queues' \in [Takes -> Seq(Nat)] /\ queues'[q] = Tail(queues[q])
        /\ \A u \in Takes \ {q} : queues'[u] = queues[u]
    BY <1>3, <1>5, Rest DEF MonitorTypes
  <2>3. /\ caller' \in [Callers -> [at : CallerPlaces, on : Named]]
        /\ caller'[c].at = "place" /\ caller'[c].on = q
        /\ \A d \in Callers \ {c} : caller'[d] = caller[d]
    BY <1>3, <1>5, CallerGoes DEF CallerPlaces, Putting
  <2>4. MonitorTypes' BY <1>1, <2>1, <2>2, <2>3 DEF MonitorTypes
  <2>5. \A u \in Takes : u > t => u # q BY <1>3 DEF Takes, Services, Named
  <2>6. Numbers' BY <1>1, <1>3, <2>1, <2>2, <2>3, <2>5 DEF Numbers, Callers
  <2>7. \A d \in Callers : caller'[d].at \in Putting <=> caller[d].at \in Putting
    BY <1>1, <2>3 DEF Putting
  <2>8. \A d \in Callers : caller'[d].on = caller[d].on BY <1>2, <2>3
  <2>9. ASSUME t \in clean PROVE AloneIn(t)'
    <3>1. AloneIn(t) BY <2>9
    <3>2. \A d \in Callers : caller'[d].at \in Putting \cup {"join", "finish"} =>
            caller[d].at \in Putting \cup {"join", "finish"}
      BY <1>1, <2>3 DEF Putting
    <3>. QED BY <1>1, <2>1, <2>7, <2>8, <3>1, <3>2 DEF AloneIn, Alive
  <2>10. ASSUME t \in clean, Sound' PROVE Booked(t)'
    <3>1. AloneIn(t) /\ Booked(t) BY <2>1, <2>10 DEF Sound
    <3>2. q = t BY <1>1, <1>2, <3>1 DEF AloneIn, Putting
    <3>3. /\ Balanced(service, writer[t], queues[t], files[t], published[t])
          /\ Looping(writer[t]) /\ Unmarked(queues[t]) /\ service.state = "FINALIZING"
      BY <1>1, <3>1 DEF Booked, Balanced, Putting
    <3>4. files[t] \in Seq(Nat) /\ published[t] \in Nat /\ writer[t].item \in Nat
          /\ service.iq \in Nat /\ service.drops \in Nat
      BY <1>3, <3>2 DEF MonitorTypes, Writers, Services
    <3>5. Balanced(service', writer[t], Tail(queues[t]), files[t], published[t])
          /\ Unmarked(Tail(queues[t]))
      BY <1>3, <1>5, <2>1, <3>2, <3>3, <3>4, BalancedEvict
    <3>. QED BY <1>1, <2>1, <2>2, <2>7, <3>2, <3>3, <3>5 DEF Booked, Balanced
  <2>. QED BY <1>1, <2>1, <2>4, <2>6, <2>9, <2>10
<1>. QED BY <1>2, <1>4, <1>5 DEF EvictOne

(* What stop() finds after the join of the take's own writer.              *)
LEMMA StopEndsKeeps ==
  ASSUME TakeInv, NEW c \in Callers, StopEnds(c) PROVE TakeInv'
<1>. USE DEF TakeInv
<1>. DEFINE t == service.take
<1>1. UNCHANGED <<queues, files, writer, pool, published, clean>> /\ caller[c].at = "finish"
      /\ pool \in Seq({"start", "stop"})
  BY DEF StopEnds, MonitorTypes
<1>2. CASE UNCHANGED <<service, final, disk>> /\ Returns(c)
  BY <1>1, <1>2, ReturnsGoes, GoesTypes
<1>3. PICK at \in {"release", "idle"} : Go(c, at, 0)
  BY ReturnsGoes DEF StopEnds, Completes, RenameFails
<1>4. /\ caller' \in [Callers -> [at : CallerPlaces, on : Named]]
      /\ caller'[c].at = at
      /\ \A d \in Callers \ {c} : caller'[d] = caller[d]
  BY <1>3, CallerGoes, TakesAssumption DEF CallerPlaces, Named
<1>5. \A d \in Callers : caller'[d].at \in Putting \cup {"join", "finish", "start"} =>
        caller'[d] = caller[d]
  BY <1>4 DEF Putting
<1>6. ASSUME NEW state \in {"STOP_TIMEOUT", "COMPLETED"},
             service' = [service EXCEPT !.state = state], Grows
      PROVE  /\ MonitorTypes' /\ Numbers' /\ (t \in clean => AloneIn(t)')
             /\ service'.take = t /\ service'.handle = service.handle
             /\ service'.state = state /\ service'.iq = service.iq
             /\ service'.drops = service.drops
  <2>1. /\ service' \in Services /\ service'.take = t /\ service'.worker = service.worker
        /\ service'.handle = service.handle /\ service'.iq = service.iq
        /\ service'.drops = service.drops /\ service'.state = state
    BY <1>6 DEF MonitorTypes, Services, TakeStates
  <2>2. MonitorTypes' BY <1>1, <1>4, <1>6, <2>1 DEF MonitorTypes, Grows
  <2>3. Numbers' BY <1>1, <1>5, <1>6, <2>1 DEF Numbers, Callers
  <2>4. t \in clean => AloneIn(t)'
    BY <1>1, <1>5, <1>6, <2>1 DEF AloneIn, Alive, Grows
  <2>. QED BY <2>1, <2>2, <2>3, <2>4
<1>7. CASE service' = [service EXCEPT !.state = "STOP_TIMEOUT"] /\ UNCHANGED disk
  <2>. Grows
    BY <1>7 DEF Grows, MonitorTypes
  <2>1. ~Sound' BY <1>6, <1>7 DEF Sound
  <2>. QED BY <1>1, <1>6, <1>7, <2>1
<1>8. ASSUME ~Alive(caller[c].on), service.state = "FINALIZING",
             Completes(c)
      PROVE  TakeInv'
  <2>. t \in Takes
    BY <1>8 DEF Numbers
  <2>0. /\ service' = [service EXCEPT !.state = "COMPLETED"]
        /\ Grows /\ t \in (final \cup disk.unrenamed)'
    <3>1. CASE UNCHANGED disk /\ final' = final \cup {t}
      BY <1>8, <3>1 DEF Completes, Grows, MonitorTypes
    <3>2. CASE RenameFails(c)
      <4>1. disk' = [disk EXCEPT !.unrenamed = @ \cup {t}] /\ disk \in Disks
        BY <3>2 DEF RenameFails, MonitorTypes
      <4>. QED BY <1>8, <4>1 DEF Completes, Grows, Disks
    <3>. QED BY <1>8, <3>1, <3>2 DEF Completes
  <2>1. ASSUME t \in clean PROVE Booked(t)'
    <3>1. AloneIn(t) /\ Booked(t) BY <1>8, <2>1 DEF Sound
    <3>2. t \in Takes /\ t # 0 /\ caller[c].on = t
      BY <1>1, <1>8, <3>1 DEF Numbers, Takes, AloneIn
    <3>3. writer[t].at = "ended" BY <1>8, <3>1, <3>2 DEF Alive, AloneIn
    <3>4. \A d \in Callers : caller[d].at \notin Putting
      BY <3>1, <3>3 DEF Booked, Looping
    <3>5. \A d \in Callers : caller'[d].at \notin Putting BY <1>5, <3>4
    <3>. QED BY <1>1, <1>6, <2>0, <3>1, <3>3, <3>5 DEF Booked, AllThere
  <2>. QED BY <1>1, <1>6, <2>0, <2>1
<1>. QED BY <1>2, <1>7, <1>8 DEF StopEnds

-----------------------------------------------------------------------------
(* The writer                                                              *)

(* A writer that moves is born, and alone if the take is.                  *)
LEMMA MoverIsOwn ==
  ASSUME TakeInv, NEW u \in Takes, writer[u].at \notin {"none", "ended"}
  PROVE  /\ u <= service.take /\ service.take \in Takes /\ service \in Services
         /\ writer[u] \in Writers
         /\ service.take \in clean => u = service.take
<1>1. service \in Services /\ writer[u] \in Writers /\ service.take \in Named
      /\ ~(u > service.take)
  BY DEF TakeInv, Numbers, MonitorTypes, Services
<1>2. u <= service.take /\ service \in Services /\ service.take \in Takes /\ writer[u] \in Writers
  BY <1>1, TakesAssumption DEF Named, Takes
<1>3. u # 0 BY DEF Takes
<1>4. service.take \in clean => u = service.take
  BY <1>3 DEF TakeInv, AloneIn, Alive
<1>. QED BY <1>2, <1>4

LEMMA WriterLoopsKeeps ==
  ASSUME TakeInv, NEW u \in Takes, WriterLoops(u) PROVE TakeInv'
<1>. USE DEF TakeInv
<1>. DEFINE t == service.take
<1>1. /\ u <= t /\ t \in Takes /\ t \in Named /\ writer[u].at = "loop" /\ (t \in clean => u = t)
  BY MoverIsOwn DEF WriterLoops, Takes, Named
<1>2. UNCHANGED <<service, queues, files, final, disk, caller, pool, published, clean>>
  BY DEF WriterLoops
<1>. DEFINE new == [at |-> "wait", on |-> t, item |-> 0]
<1>3. new \in Writers /\ new.at = "wait" /\ new.on = t
  BY <1>1 DEF Writers, WriterPlaces
<1>4. writer' = [writer EXCEPT ![u] = new] BY DEF WriterLoops
<1>. HIDE DEF new
<1>5. /\ writer' \in [Takes -> Writers] /\ writer'[u] = new
      /\ \A v \in Takes \ {u} : writer'[v] = writer[v]
  BY <1>3, <1>4 DEF MonitorTypes
<1>6. MonitorTypes' BY <1>2, <1>5 DEF MonitorTypes
<1>7. \A v \in Takes : v > t => v # u BY <1>1 DEF Takes
<1>8. Numbers' BY <1>1, <1>2, <1>3, <1>5, <1>7 DEF Numbers
<1>9. ASSUME t \in clean PROVE AloneIn(t)'
  BY <1>1, <1>2, <1>3, <1>5, <1>9 DEF AloneIn, Alive
<1>10. ASSUME t \in clean, Sound' PROVE Booked(t)'
  <2>1. Booked(t) BY <1>2, <1>10 DEF Sound
  <2>2. Balanced(service, writer'[t], queues[t], files[t], published[t])
    <3>1. Balanced(service, writer[t], queues[t], files[t], published[t])
      BY <2>1 DEF Booked, Balanced
    <3>2. writer[t].at = "loop" /\ writer'[t].at = "wait"
      BY <1>1, <1>3, <1>5, <1>10
    <3>. QED BY <3>1, <3>2, BalancedMove
  <2>3. service.state # "COMPLETED" BY <1>1, <1>10, <2>1 DEF Booked
  <2>. QED
    BY <1>1, <1>2, <1>3, <1>5, <1>10, <2>1, <2>2, <2>3 DEF Booked, Balanced, Looping
<1>. QED BY <1>2, <1>6, <1>8, <1>9, <1>10

LEMMA WriterTakesKeeps ==
  ASSUME TakeInv, NEW u \in Takes, WriterTakes(u) PROVE TakeInv'
<1>. USE DEF TakeInv
<1>. DEFINE t == service.take
<1>1. /\ u <= t /\ t \in Takes /\ writer[u].at = "wait" /\ (t \in clean => u = t)
      /\ service \in Services
  BY MoverIsOwn DEF WriterTakes
<1>2. PICK q : q = writer[u].on
  OBVIOUS
<1>3. q \in Takes /\ queues[q] \in Seq(Nat) /\ queues[q] # <<>>
  BY <1>1, <1>2 DEF Numbers, MonitorTypes, WriterTakes
<1>4. UNCHANGED <<service, files, final, disk, caller, pool, published, clean>>
  BY DEF WriterTakes
<1>5. /\ queues' \in [Takes -> Seq(Nat)] /\ queues'[q] = Tail(queues[q])
      /\ \A v \in Takes \ {q} : queues'[v] = queues[v]
  BY <1>2, <1>3, Rest DEF WriterTakes, MonitorTypes
<1>. DEFINE head == Head(queues[q])
            at == IF head = Sentinel THEN "close" ELSE "write"
            new == [at |-> at, on |-> 0, item |-> head]
<1>6. at \in {"close", "write"} /\ head \in Nat BY <1>3, Rest
<1>7. writer' = [writer EXCEPT ![u] = new] BY <1>2 DEF WriterTakes
<1>8. /\ (head = Sentinel => at = "close") /\ (head # Sentinel => at = "write")
  OBVIOUS
<1>. HIDE DEF at, head
<1>9. new \in Writers /\ new.at = at /\ new.item = head
  BY <1>6, TakesAssumption DEF Writers, WriterPlaces, Named
<1>. HIDE DEF new
<1>10. /\ writer' \in [Takes -> Writers] /\ writer'[u] = new
       /\ \A v \in Takes \ {u} : writer'[v] = writer[v]
  BY <1>7, <1>9 DEF MonitorTypes
<1>11. MonitorTypes' BY <1>4, <1>5, <1>10 DEF MonitorTypes
<1>12. \A v \in Takes : v > t => v # u /\ v # q
  BY <1>1, <1>3 DEF Takes, Numbers
<1>13. Numbers' BY <1>1, <1>4, <1>5, <1>6, <1>9, <1>10, <1>12 DEF Numbers
<1>14. ASSUME t \in clean PROVE AloneIn(t)'
  BY <1>1, <1>4, <1>6, <1>9, <1>10, <1>14 DEF AloneIn, Alive
<1>15. ASSUME t \in clean, Sound' PROVE Booked(t)'
  <2>1. AloneIn(t) /\ Booked(t) BY <1>4, <1>15 DEF Sound
  <2>2. q = t /\ u = t BY <1>1, <1>2, <1>15, <2>1 DEF AloneIn
  <2>3. /\ Balanced(service, writer[t], queues[t], files[t], published[t])
        /\ service.state # "COMPLETED"
    BY <1>1, <2>1, <2>2 DEF Booked, Balanced
  <2>4. files[t] \in Seq(Nat) /\ published[t] \in Nat
        /\ service.iq \in Nat /\ service.drops \in Nat
    BY <1>1 DEF MonitorTypes, Services
  <2>5. CASE head = Sentinel
    <3>1. Balanced(service, new, Tail(queues[t]), files[t], published[t])
      BY <1>1, <1>3, <1>8, <1>9, <2>2, <2>3, <2>4, <2>5, BalancedTakeMark DEF head
    <3>2. ~Unmarked(queues[t]) BY <1>3, <2>2, <2>5, Rest DEF Unmarked, head
    <3>3. service.state # "RECORDING" /\ \A c \in Callers : caller[c].at \notin Putting
      BY <2>1, <3>2 DEF Booked
    <3>. QED BY <1>4, <1>5, <1>10, <2>2, <2>3, <3>1, <3>3 DEF Booked, Balanced
  <2>6. CASE head # Sentinel
    <3>1. Balanced(service, new, Tail(queues[t]), files[t], published[t])
          /\ (Unmarked(queues[t]) => Unmarked(Tail(queues[t])))
      BY <1>1, <1>3, <1>8, <1>9, <2>2, <2>3, <2>4, <2>6, BalancedTake DEF head
    <3>2. Looping(new) BY <1>8, <1>9, <2>6 DEF Looping
    <3>. QED
      BY <1>4, <1>5, <1>10, <2>1, <2>2, <2>3, <3>1, <3>2 DEF Booked, Balanced
  <2>. QED BY <2>5, <2>6
<1>. QED BY <1>4, <1>11, <1>13, <1>14, <1>15

LEMMA WritesKeeps ==
  ASSUME TakeInv, NEW u \in Takes, Writes(u) PROVE TakeInv'
<1>. USE DEF TakeInv
<1>. DEFINE t == service.take
<1>1. /\ u <= t /\ t \in Takes /\ writer[u].at = "write" /\ (t \in clean => u = t)
      /\ service \in Services /\ writer[u] \in Writers
  BY MoverIsOwn DEF Writes
<1>2. PICK h : h = service.handle
  OBVIOUS
<1>3. h \in Takes /\ h <= t /\ files[h] \in Seq(Nat) /\ writer[u].item \in Nat
  BY <1>1, <1>2 DEF Writes, Numbers, MonitorTypes, Services, Writers, Named, Takes
<1>4. UNCHANGED <<queues, final, caller, pool, published, clean>> /\ Grows
  <2>1. disk.held[h] \in Nat /\ (disk.held[h] = 0 \/ h \in disk.unclosed)
    BY <1>3 DEF MonitorTypes, Disks
  <2>. DEFINE n == IF disk.held[h] = 0 THEN 0 ELSE disk.held[h] + 1
  <2>2. n \in Nat /\ (n = 0 \/ h \in disk.unclosed) /\ disk' = Holding(n)
    BY <1>2, <2>1 DEF Writes
  <2>. QED BY <1>2, <2>2, HoldingGrows DEF Writes
<1>5. /\ files' \in [Takes -> Seq(Nat)] /\ files'[h] = Append(files[h], writer[u].item)
      /\ \A v \in Takes \ {h} : files'[v] = files[v]
  BY <1>2, <1>3, Appended DEF Writes, MonitorTypes
<1>6. /\ service' \in Services /\ service'.take = t /\ service'.worker = service.worker
      /\ service'.handle = service.handle /\ service'.state = service.state
      /\ service'.iq = service.iq + 1 /\ service'.drops = service.drops
  BY <1>1 DEF Writes, Services
<1>. DEFINE new == [at |-> "loop", on |-> 0, item |-> 0]
<1>7. new \in Writers /\ new.at = "loop"
  BY TakesAssumption DEF Writers, WriterPlaces, Named
<1>8. writer' = [writer EXCEPT ![u] = new] BY DEF Writes
<1>. HIDE DEF new
<1>9. /\ writer' \in [Takes -> Writers] /\ writer'[u] = new
      /\ \A v \in Takes \ {u} : writer'[v] = writer[v]
  BY <1>7, <1>8 DEF MonitorTypes
<1>10. MonitorTypes' BY <1>4, <1>5, <1>6, <1>9 DEF MonitorTypes, Grows
<1>11. \A v \in Takes : v > t => v # u /\ v # h BY <1>1, <1>3 DEF Takes
<1>12. Numbers' BY <1>1, <1>4, <1>5, <1>6, <1>7, <1>9, <1>11 DEF Numbers
<1>13. ASSUME t \in clean PROVE AloneIn(t)'
  BY <1>1, <1>4, <1>6, <1>7, <1>9, <1>13 DEF AloneIn, Alive, Grows
<1>14. ASSUME t \in clean, Sound' PROVE Booked(t)'
  <2>1. AloneIn(t) /\ Booked(t) /\ u = t BY <1>1, <1>6, <1>14 DEF Sound
  <2>2. h = t BY <1>2, <1>3, <2>1 DEF AloneIn, Takes
  <2>3. /\ Balanced(service, writer[t], queues[t], files[t], published[t])
        /\ service.state # "COMPLETED"
    BY <1>1, <2>1 DEF Booked, Balanced
  <2>4. queues[t] \in Seq(Nat) /\ published[t] \in Nat
        /\ service.iq \in Nat /\ service.drops \in Nat
    BY <1>1 DEF MonitorTypes, Services
  <2>5. Balanced(service', new, queues[t], Append(files[t], writer[t].item), published[t])
    BY <1>1, <1>3, <1>6, <1>7, <2>1, <2>2, <2>3, <2>4, BalancedWrite
  <2>. QED
    BY <1>4, <1>5, <1>6, <1>7, <1>9, <2>1, <2>2, <2>3, <2>5 DEF Booked, Balanced, Looping
<1>. QED BY <1>4, <1>6, <1>10, <1>12, <1>13, <1>14

(* A write that fails ends the take: nothing is claimed of it any more.    *)
LEMMA WritingFailsKeeps ==
  ASSUME TakeInv, NEW u \in Takes, WritingFails(u) PROVE TakeInv'
<1>. USE DEF TakeInv
<1>. DEFINE t == service.take
<1>1. /\ u <= t /\ t \in Takes /\ writer[u].at = "write" /\ (t \in clean => u = t)
      /\ service \in Services
  BY MoverIsOwn DEF WritingFails
<1>2. UNCHANGED <<queues, files, final, disk, caller, pool, published, clean>>
  BY DEF WritingFails
<1>3. /\ service' \in Services /\ service'.take = t /\ service'.worker = service.worker
      /\ service'.handle = service.handle /\ service'.state = "FAILED"
  BY <1>1 DEF WritingFails, Services, TakeStates
<1>. DEFINE new == [at |-> "close", on |-> 0, item |-> 0]
<1>4. new \in Writers /\ new.at = "close"
  BY TakesAssumption DEF Writers, WriterPlaces, Named
<1>5. writer' = [writer EXCEPT ![u] = new] BY DEF WritingFails
<1>. HIDE DEF new
<1>6. /\ writer' \in [Takes -> Writers] /\ writer'[u] = new
      /\ \A v \in Takes \ {u} : writer'[v] = writer[v]
  BY <1>4, <1>5 DEF MonitorTypes
<1>7. MonitorTypes' BY <1>2, <1>3, <1>6 DEF MonitorTypes
<1>8. \A v \in Takes : v > t => v # u BY <1>1 DEF Takes
<1>9. Numbers' BY <1>1, <1>2, <1>3, <1>4, <1>6, <1>8 DEF Numbers
<1>10. ASSUME t \in clean PROVE AloneIn(t)'
  BY <1>1, <1>2, <1>3, <1>4, <1>6, <1>10 DEF AloneIn, Alive
<1>. QED BY <1>2, <1>3, <1>7, <1>9, <1>10 DEF Sound

LEMMA WriterClosesKeeps ==
  ASSUME TakeInv, NEW u \in Takes, WriterCloses(u) PROVE TakeInv'
<1>. USE DEF TakeInv
<1>. DEFINE t == service.take
<1>1. /\ u <= t /\ t \in Takes /\ writer[u].at = "close" /\ (t \in clean => u = t)
      /\ service \in Services /\ writer[u] \in Writers
  BY MoverIsOwn DEF WriterCloses
<1>2. UNCHANGED <<queues, files, final, caller, pool, published, clean>>
  BY DEF WriterCloses
<1>3. /\ service' \in Services /\ service'.take = t /\ service'.worker = service.worker
      /\ \/ service'.handle = 0
         \/ service'.handle = service.handle /\ service.handle \in disk'.unclosed
      /\ service'.state = service.state
      /\ service'.iq = service.iq /\ service'.drops = service.drops
      /\ Grows
  <2>1. CASE service' = [service EXCEPT !.handle = 0] /\ disk' = Holding(0)
    BY <1>1, <2>1, HoldingGrows, TakesAssumption DEF Services, Named
  <2>2. CASE ClosingFails BY <1>1, <2>2, ClosingFailsGrows
  <2>. QED BY <2>1, <2>2 DEF WriterCloses
<1>4. [writer[u] EXCEPT !.at = "ended"] \in Writers
      /\ [writer[u] EXCEPT !.at = "ended"].at = "ended"
  BY <1>1 DEF Writers, WriterPlaces
<1>5. /\ writer' \in [Takes -> Writers] /\ writer'[u].at = "ended"
      /\ \A v \in Takes \ {u} : writer'[v] = writer[v]
  BY <1>4 DEF WriterCloses, MonitorTypes
<1>6. MonitorTypes' BY <1>2, <1>3, <1>5 DEF MonitorTypes, Grows
<1>7. \A v \in Takes : v > t => v # u BY <1>1 DEF Takes
<1>8. 0 <= t BY <1>1 DEF Takes
<1>9. Numbers' BY <1>1, <1>2, <1>3, <1>5, <1>7, <1>8 DEF Numbers
<1>10. ASSUME t \in clean PROVE AloneIn(t)'
  BY <1>1, <1>2, <1>3, <1>5, <1>10 DEF AloneIn, Alive, Grows
<1>11. ASSUME t \in clean, Sound' PROVE Booked(t)'
  <2>1. Booked(t) /\ u = t BY <1>1, <1>3, <1>11 DEF Sound
  <2>2. /\ Balanced(service, writer[t], queues[t], files[t], published[t])
        /\ service.state \notin {"RECORDING", "COMPLETED"}
        /\ \A c \in Callers : caller[c].at \notin Putting
    BY <1>1, <2>1 DEF Booked, Balanced, Looping
  <2>3. Balanced(service', writer'[t], queues[t], files[t], published[t])
    BY <1>1, <1>3, <1>5, <2>1, <2>2, BalancedMove
  <2>. QED BY <1>2, <1>3, <2>2, <2>3 DEF Booked, Balanced
<1>. QED BY <1>2, <1>3, <1>6, <1>9, <1>10, <1>11

-----------------------------------------------------------------------------
(* The invariant                                                           *)

LEMMA TakeInvHolds == MonitorInit => TakeInv
<1>. SUFFICES ASSUME MonitorInit PROVE TakeInv
  OBVIOUS
<1>1. <<>> \in Seq(Nat) /\ <<>> \in Seq({"start", "stop"}) BY EmptySeq
<1>2. service \in Services /\ service.state = "IDLE" /\ service.handle = 0 /\ service.take = 0
  BY TakesAssumption DEF MonitorInit, Services, TakeStates, Named
<1>3. [at |-> "none", on |-> 0, item |-> 0] \in Writers
      /\ Idle \in [at : CallerPlaces, on : Named]
  BY TakesAssumption DEF Writers, WriterPlaces, Named, Idle, CallerPlaces, Putting
<1>4. MonitorTypes
  <2>1. disk \in Disks BY DEF MonitorInit, Disks
  <2>. QED BY <1>1, <1>2, <1>3, <2>1 DEF MonitorInit, MonitorTypes
<1>5. Numbers BY <1>2 DEF MonitorInit, Numbers, Idle, Putting, Callers
<1>. QED BY <1>2, <1>4, <1>5 DEF MonitorInit, TakeInv

LEMMA TakeInvStep == TakeInv /\ [MonitorNext]_recordingVars => TakeInv'
<1>. SUFFICES ASSUME TakeInv, [MonitorNext]_recordingVars PROVE TakeInv'
  OBVIOUS
<1>1. CASE ClickStart \/ ClickStop \/ ShowHealth
  BY <1>1, ClickStartKeeps, ClickStopKeeps, ShowHealthKeeps
<1>2. CASE Shutdown \/ Release \/ Publish
  BY <1>2, ShutdownKeeps, ReleaseKeeps, PublishKeeps
<1>3. ASSUME NEW c \in Callers, LaneTakes(c) \/ Calling(c) PROVE TakeInv'
  BY <1>3, LaneTakesKeeps, StartKeeps, StopBeginsKeeps, PutsSentinelKeeps, EvictKeeps,
     PlaceSentinelKeeps, JoinedKeeps, StopEndsKeeps DEF Calling
<1>4. ASSUME NEW t \in Takes, Writing(t) PROVE TakeInv'
  BY <1>4, WriterLoopsKeeps, WriterTakesKeeps, WritesKeeps, WritingFailsKeeps,
     WriterClosesKeeps DEF Writing
<1>5. CASE UNCHANGED recordingVars
  BY <1>5, CallersWait DEF recordingVars, TakeInv, MonitorTypes
<1>. QED BY <1>1, <1>2, <1>3, <1>4, <1>5 DEF MonitorNext

LEMMA BookedIsWhole == TakeInv => CompletedIsWhole
<1>. SUFFICES ASSUME TakeInv, service.state = "COMPLETED", service.take \in clean
              PROVE  CompletedIsWhole
  BY DEF CompletedIsWhole
<1>. DEFINE t == service.take
<1>1. AloneIn(t) /\ Booked(t) /\ t \in Takes /\ service \in Services
  BY DEF TakeInv, Sound, Numbers, MonitorTypes
<1>2. /\ writer[t].at = "ended" /\ t \in final \cup disk.unrenamed
      /\ t \notin disk.unclosed => service.handle = 0 /\ disk.held[t] = 0
  BY <1>1 DEF Booked, AloneIn, TakeInv, MonitorTypes, Disks
<1>3. queues[t] = <<>> /\ InHand(writer[t]) = 0 /\ Blocks(queues[t]) = 0
  BY <1>1, <1>2, EmptySeq DEF Booked, AllThere, InHand, Blocks
<1>4. service.iq = Len(files[t]) /\ InOrderOnDisk(files[t])
      /\ published[t] = service.iq + service.drops + 0 + 0
  BY <1>1, <1>3 DEF Booked, AllThere, InLine
<1>5. service.iq \in Nat /\ service.drops \in Nat BY <1>1 DEF Services
<1>. QED BY <1>2, <1>4, <1>5 DEF CompletedIsWhole

(* Every block published during a take that stop() reports as COMPLETED    *)
(* was given to its file, once and in order, or is in the count of drops;  *)
(* the file has them and is closed unless flush or close failed, and has   *)
(* its final name unless the rename failed, whatever calls, timeouts,      *)
(* failed writes and earlier takes there were.                             *)
THEOREM CompletedIsWholeCorrect == MonitorSpec => []CompletedIsWhole
BY TakeInvHolds, TakeInvStep, BookedIsWhole, PTL DEF MonitorSpec

-----------------------------------------------------------------------------
(* The wideband sweep.                                                     *)

(* What SweepConfig and SweepPlannerOptions admit: the span is not empty,  *)
(* overlap, margin and DC window are not negative.  The width is even, for *)
(* the frequencies are in units that make every centre an integer.         *)
SweepInputsFit ==
  \A c \in Configs :
    /\ c \in [start : Nat, stop : Nat, rate : Nat, bandwidth : Nat,
              overlap : Nat, margin : Nat, dc : Nat]
    /\ c.start < c.stop /\ Least(c.rate, c.bandwidth) % 2 = 0

(* Division, as the arithmetic below needs it.                             *)
LEMMA QuotientBounds ==
  ASSUME NEW a \in Nat, NEW b \in Nat, b >= 1
  PROVE /\ a \div b \in Nat
        /\ (a \div b) * b <= a /\ a < (a \div b) * b + b
OBVIOUS

(* The number of strides that x needs: one less is not enough.             *)
IsCeilingOf(k, x, s) ==
  k \in Nat /\ k * s >= x /\ (x > 0 => k >= 1 /\ (k - 1) * s < x) /\ (x = 0 => k = 0)
LEMMA CeilingFits ==
  ASSUME NEW x \in Nat, NEW s \in Nat, s >= 1
  PROVE IsCeilingOf(Ceiling(x, s), x, s)
<1> DEFINE k == (x + s - 1) \div s
<1>1. k \in Nat /\ k * s <= x + s - 1 /\ x + s - 1 < k * s + s
      BY QuotientBounds
<1> HIDE DEF k
<1>2. k * s >= x BY <1>1
<1>3. ASSUME x > 0 PROVE k >= 1 /\ (k - 1) * s < x
      <2>1. k # 0 BY <1>1, <1>3
      <2> QED BY <1>1, <2>1
<1>4. ASSUME x = 0 PROVE k = 0
      <2>1. ASSUME k >= 1 PROVE FALSE
            <3>1. k * s >= s BY <1>1, <2>1
            <3> QED BY <1>1, <1>4, <3>1
      <2> QED BY <1>1, <2>1
<1> QED BY <1>1, <1>2, <1>3, <1>4 DEF k, Ceiling, IsCeilingOf

LEMMA ProductOrdered ==
  ASSUME NEW a \in Nat, NEW b \in Nat, NEW s \in Nat, a <= b
  PROVE a * s <= b * s /\ a * s \in Nat /\ (a + 1) * s = a * s + s
OBVIOUS

(* A segment no wider than u, an even number: between its ends and its DC  *)
(* window nothing is cropped.                                              *)
LEMMA CropsReachTheEnds ==
  ASSUME NEW c, NEW from \in Nat, NEW to \in Nat, NEW f \in Nat,
         Usable(c) \in Nat, Usable(c) % 2 = 0, c.dc \in Nat,
         to - from <= Usable(c), from <= f, f < to
  PROVE \/ InDc(c, [from |-> from, to |-> to, crops |-> Crops(c, from, to)], f)
        \/ \E r \in Crops(c, from, to) : r[1] <= f /\ f < r[2]
<1> DEFINE u == Usable(c)
           center == (from + to) \div 2
           half == c.dc \div 2
           low == Most(from, center - u \div 2)
           high == Least(to, center + u \div 2)
           left == <<low, center - half>>
           right == <<center + half, high>>
<1>1. center \in Nat /\ half \in Nat /\ center - u \div 2 <= from /\ to <= center + u \div 2
      <2> HIDE DEF u
      <2>1. u \in Nat /\ u % 2 = 0 /\ to - from <= u BY DEF u
      <2> QED BY <2>1
<1>2. low = from /\ high = to BY <1>1 DEF Most, Least
<1>3. CASE f < center - half
      <2>1. left \in Crops(c, from, to) BY <1>1, <1>2, <1>3 DEF Crops
      <2>2. left[1] <= f /\ f < left[2] BY <1>2, <1>3
      <2> QED BY <2>1, <2>2
<1>4. CASE f >= center + half
      <2>1. right \in Crops(c, from, to) BY <1>1, <1>2, <1>4 DEF Crops
      <2>2. right[1] <= f /\ f < right[2] BY <1>2, <1>4
      <2> QED BY <2>1, <2>2
<1>5. CASE center - half <= f /\ f < center + half BY <1>5 DEF InDc
<1> QED BY <1>1, <1>3, <1>4, <1>5

(* PlanCoversTheBand of one configuration.                                 *)
CoversTheBand(c) ==
  LET s == Segments(c) n == Len(s) IN
  /\ \A f \in c.start..(c.stop - 1) :
       \E i \in 1..n : \/ InDc(c, s[i], f)
                       \/ \E r \in s[i].crops : r[1] <= f /\ f < r[2]
  /\ \A i \in 1..n : s[i].to - s[i].from <= Least(c.rate, c.bandwidth)
  /\ \A i \in 1..(n - 1) : s[i].to - s[i + 1].from >= c.overlap
  /\ n > 1 => Usable(c) + (n - 2) * Stride(c) < c.stop - c.start

(* The plan of every configuration that has one is a cover: the number of  *)
(* segments is the least one that reaches the end of the span.             *)
LEMMA PlanFits ==
  ASSUME SweepInputsFit, NEW c \in Configs, Plannable(c)
  PROVE /\ CoversTheBand(c)
        /\ Count(c) \in Nat \ {0} /\ Len(Segments(c)) = Count(c)
<1> DEFINE u == Usable(c)
           band == Least(c.rate, c.bandwidth)
           span == c.stop - c.start
           x == Most(0, span - u)
           st == Stride(c)
           n == Count(c)
           k == Ceiling(x, st)
           s == Segments(c)
<1>1. c.start \in Nat /\ c.stop \in Nat /\ c.overlap \in Nat /\ c.dc \in Nat /\ c.margin \in Nat
      /\ c.rate \in Nat /\ c.bandwidth \in Nat /\ c.start < c.stop
      BY DEF SweepInputsFit
<1>2. band \in Nat /\ band % 2 = 0 /\ u = band - 2 * c.margin
      BY <1>1 DEF SweepInputsFit, Usable, Least
<1>3. u > 0 /\ c.overlap < u BY DEF Plannable
<1>4. st = u - c.overlap BY DEF Stride
<1>5. n = Most(1, Ceiling(Most(0, span - u), st) + 1) BY DEF Count
<1> HIDE DEF u, band, st, n
<1>6. u \in Nat /\ u >= 1 /\ u % 2 = 0 /\ u <= band /\ st \in Nat /\ st >= 1 /\ st <= u
      BY <1>1, <1>2, <1>3, <1>4
<1>7. x \in Nat /\ (x > 0 => x = span - u) /\ (x = 0 => span <= u) /\ span \in Nat /\ span >= 1
      BY <1>1, <1>6 DEF Most
<1> HIDE DEF x
<1>8. IsCeilingOf(k, x, st) BY ONLY <1>6, <1>7, CeilingFits
<1>9. k \in Nat /\ k * st >= x /\ (x > 0 => k >= 1 /\ (k - 1) * st < x) /\ (x = 0 => k = 0)
      BY ONLY <1>8 DEF IsCeilingOf
<1>10. n = Most(1, k + 1) BY <1>5 DEF x
<1> HIDE DEF k
<1>11. n = k + 1 /\ n \in Nat /\ n >= 1 BY <1>9, <1>10 DEF Most
<1>12. /\ s = [i \in 1..n |-> s[i]] /\ DOMAIN s = 1..n
       /\ \A i \in 1..n : s[i] = Segment(c, i)
      BY DEF Segments, n
<1>13. Len(s) = n
      <2>1. s \in Seq({s[i] : i \in 1..n}) BY <1>11, <1>12
      <2> QED BY <1>11, <1>12, <2>1
<1> HIDE DEF s
<1>14. \A i \in 1..n :
         /\ s[i].from = IF i = n THEN Most(c.start, c.stop - u) ELSE c.start + (i - 1) * st
         /\ s[i].to = Least(c.stop, s[i].from + u)
         /\ s[i].crops = Crops(c, s[i].from, s[i].to)
         /\ s[i] = [from |-> s[i].from, to |-> s[i].to, crops |-> s[i].crops]
      BY <1>12 DEF Segment, n, st, u
(* All but the last are full, and the last one ends the span.              *)
<1>15. ASSUME NEW i \in 1..n, i < n
       PROVE /\ (i - 1) * st \in Nat /\ c.start + (i - 1) * st + u < c.stop
             /\ s[i].from = c.start + (i - 1) * st /\ s[i].to = c.start + (i - 1) * st + u
       <2>1. i - 1 \in Nat /\ k - 1 \in Nat /\ i - 1 <= k - 1 /\ x > 0
             BY <1>9, <1>11, <1>15, <1>7
       <2>2. (i - 1) * st <= (k - 1) * st /\ (i - 1) * st \in Nat /\ (k - 1) * st \in Nat
             BY <1>6, <2>1, ProductOrdered
       <2>3. (k - 1) * st < span - u BY <1>7, <1>9, <2>1
       <2> DEFINE p == (i - 1) * st
                  q == (k - 1) * st
       <2> HIDE DEF p, q
       <2>4. p <= q /\ p \in Nat /\ q \in Nat /\ q < span - u
             BY <2>2, <2>3 DEF p, q
       <2>5. c.start + p + u < c.stop BY <1>1, <1>6, <2>4
       <2>a. s[i].from = IF i = n THEN Most(c.start, c.stop - u) ELSE c.start + p
             BY <1>14 DEF p
       <2>b. i # n
             BY <1>11, <1>15
       <2>6. s[i].from = c.start + p BY <2>a, <2>b
       <2>7. s[i].to = Least(c.stop, c.start + p + u) BY <1>14, <2>6
       <2>8. s[i].to = c.start + p + u
             BY <1>1, <1>6, <2>4, <2>5, <2>7 DEF Least
       <2>9. /\ p \in Nat /\ c.start + p + u < c.stop
             /\ s[i].from = c.start + p /\ s[i].to = c.start + p + u
             BY <2>4, <2>5, <2>6, <2>8
       <2> QED BY ONLY <2>9 DEF p
<1>16. /\ s[n].to = c.stop /\ s[n].from \in Nat /\ s[n].from >= c.start
       /\ s[n].from < c.stop /\ c.stop - s[n].from <= u
       /\ (span > u => s[n].from = c.stop - u) /\ (span <= u => s[n].from = c.start)
       <2>1. n \in 1..n BY <1>11
       <2>2. s[n].from = Most(c.start, c.stop - u) /\ s[n].to = Least(c.stop, s[n].from + u)
             BY <1>14, <2>1
       <2> QED BY <1>1, <1>6, <2>2 DEF Most, Least
<1>17. \A i \in 1..n : s[i].from \in Nat /\ s[i].to \in Nat /\ s[i].to - s[i].from <= u
       <2> TAKE i \in 1..n
       <2>1. CASE i < n
             <3>1. (i - 1) * st \in Nat BY <1>15, <2>1
             <3> QED BY <1>1, <1>6, <1>15, <2>1, <3>1
       <2>2. CASE i = n BY <1>1, <1>16, <2>2
       <2> QED BY <1>11, <2>1, <2>2
<1>18. \A f \in c.start..(c.stop - 1) : \E i \in 1..n : s[i].from <= f /\ f < s[i].to
       <2> TAKE f \in c.start..(c.stop - 1)
       <2>1. f \in Nat /\ c.start <= f /\ f < c.stop BY <1>1
       <2>2. CASE f >= s[n].from BY <1>11, <1>16, <2>1, <2>2
       <2>3. CASE f < s[n].from
             <3> DEFINE d == f - c.start
                        j == d \div st
             <3>1. span > u /\ d \in Nat /\ d < span - u /\ f + u < c.stop
                   BY <1>1, <1>6, <1>16, <2>1, <2>3
             <3> HIDE DEF d
             <3>2. j \in Nat /\ j * st <= d /\ d < j * st + st
                   BY <1>6, <3>1, QuotientBounds
             <3> HIDE DEF j
             <3>3. j < k
                   <4>1. ASSUME j >= k PROVE FALSE
                         <5>1. k * st <= j * st /\ k * st \in Nat /\ j * st \in Nat
                               BY <1>6, <1>9, <3>2, <4>1, ProductOrdered
                         <5> DEFINE p == k * st
                                    q == j * st
                         <5>2. p \in Nat /\ q \in Nat /\ p <= q /\ p >= x /\ q <= d
                               BY <1>9, <3>2, <5>1
                         <5> HIDE DEF p, q
                         <5> QED BY <1>6, <1>7, <3>1, <5>2
                   <4> QED BY <1>9, <3>2, <4>1
             <3> DEFINE i == j + 1
             <3>4. i \in 1..n /\ i < n /\ i - 1 = j BY <1>9, <1>11, <3>2, <3>3
             <3> HIDE DEF i
             <3> DEFINE p == j * st
             <3>5. s[i].from = c.start + p /\ s[i].to = c.start + p + u /\ p \in Nat
                   BY <1>15, <3>4
             <3>7. p <= d /\ d < p + st BY <3>2
             <3> HIDE DEF p
             <3>6. s[i].from <= f /\ f < s[i].to
                   BY <1>1, <1>6, <2>1, <3>5, <3>7 DEF d
             <3> QED BY <3>4, <3>6
       <2> QED BY <1>16, <2>1, <2>2, <2>3
<1>19. ASSUME NEW f \in c.start..(c.stop - 1)
       PROVE \E i \in 1..n : \/ InDc(c, s[i], f)
                             \/ \E r \in s[i].crops : r[1] <= f /\ f < r[2]
       <2>1. f \in Nat BY <1>1
       <2>2. PICK i \in 1..n : s[i].from <= f /\ f < s[i].to
             BY <1>18
       <2> DEFINE from == s[i].from
                  to == s[i].to
       <2>3. from \in Nat /\ to \in Nat /\ to - from <= u /\ from <= f /\ f < to
             BY <1>17, <2>2
       <2>4. s[i] = [from |-> from, to |-> to, crops |-> Crops(c, from, to)]
             BY <1>14
       <2> HIDE DEF from, to
       <2>5. Usable(c) \in Nat /\ Usable(c) % 2 = 0 /\ to - from <= Usable(c)
             BY <1>6, <2>3 DEF u
       <2>6. \/ InDc(c, [from |-> from, to |-> to, crops |-> Crops(c, from, to)], f)
             \/ \E r \in Crops(c, from, to) : r[1] <= f /\ f < r[2]
             BY ONLY <1>1, <2>1, <2>3, <2>5, CropsReachTheEnds
       <2>7. s[i].crops = Crops(c, from, to) BY <2>4
       <2> QED BY <2>4, <2>6, <2>7
<1>20. \A i \in 1..n : s[i].to - s[i].from <= band BY <1>2, <1>6, <1>17
<1>21. ASSUME NEW i \in 1..(n - 1)
       PROVE s[i].to - s[i + 1].from >= c.overlap
       <2>1. i \in 1..n /\ i < n /\ i + 1 \in 1..n /\ i - 1 \in Nat /\ i \in Nat
             BY <1>11
       <2>2. s[i].to = c.start + (i - 1) * st + u /\ (i - 1) * st \in Nat
             BY <1>15, <2>1
       <2>3. i * st = (i - 1) * st + st BY <1>6, <2>1
       <2>4. CASE i + 1 < n
             <3>1. s[i + 1].from = c.start + i * st BY <1>15, <2>1, <2>4
             <3> QED BY <1>1, <1>4, <1>6, <2>2, <2>3, <3>1
       <2>5. CASE i + 1 = n
             <3>1. i = k BY <1>9, <1>11, <2>1, <2>5
             <3>2. x > 0 BY <1>7, <1>9, <2>1, <3>1
             <3>3. s[n].from = c.stop - u /\ span - u = x
                   BY <1>1, <1>6, <1>7, <1>16, <3>2
             <3> DEFINE q == i * st
                        p == (i - 1) * st
             <3>4. q >= x /\ q = p + st /\ p \in Nat /\ s[i].to = c.start + p + u
                   BY <1>9, <2>2, <2>3, <3>1
             <3> HIDE DEF p, q
             <3>5. s[i].to - (c.stop - u) >= c.overlap
                   BY <1>1, <1>4, <1>6, <1>7, <3>3, <3>4
             <3> QED BY <2>5, <3>3, <3>5
       <2> QED BY <1>11, <2>1, <2>4, <2>5
<1>22. n > 1 => u + (n - 2) * st < span
       <2> HAVE n > 1
       <2>1. x > 0 /\ n - 2 = k - 1 /\ k - 1 \in Nat BY <1>7, <1>9, <1>11
       <2>2. (k - 1) * st < span - u /\ (k - 1) * st \in Nat
             BY <1>6, <1>7, <1>9, <2>1
       <2> DEFINE q == (k - 1) * st
       <2>3. (n - 2) * st = q BY <2>1
       <2> HIDE DEF q
       <2>4. q \in Nat /\ q < span - u BY <2>2 DEF q
       <2> QED BY <1>6, <1>7, <2>3, <2>4
<1> DEFINE i0 == 1
<1> QED BY <1>11, <1>13, <1>19, <1>20, <1>21, <1>22 DEF CoversTheBand, s, n, u, st, band

-----------------------------------------------------------------------------
ActiveAt == {"begin", "segment", "notify", "retune", "start", "capture", "restore", "publish"}
LoopAt == {"segment", "notify", "retune", "start", "capture"}
AfterAt == {"publish", "disconnect", "ended"}
Outcomes == {"COMPLETED", "FAILED", "CANCELLED"}

RunResults == [status : Outcomes \cup {"MISSING"}, generation : Nat]
RunFields == {"at", "total", "seg", "results", "started", "touched", "restored", "outcome"}
IsRun(w) ==
  /\ w = [f \in RunFields |-> w[f]]
  /\ w.total \in Nat /\ w.results \in Seq(RunResults)
EngineType ==
  [state : {"none", "CREATED", "CONFIGURED", "RUNNING", "STOPPED", "ERROR"},
   generation : Nat, tuned : Int]
PresenterType ==
  [plan : Seq(Configs), thread : Nat, event : Nat,
   status : {"IDLE", "PLANNED"} \cup Active \cup Outcomes, result : Nat, frame : Nat]
SpentType == [runs : Nat, plans : Nat, faults : Nat]

RunsTyped ==
  /\ sweeper = [r \in Runs |-> sweeper[r]] /\ engine = [r \in Runs |-> engine[r]]
  /\ \A r \in Runs : IsRun(sweeper[r]) /\ engine[r] \in EngineType

(* The results of a run that is over, as they are to be told.              *)
AreCompleted(res) == \A i \in DOMAIN res : res[i].status = "COMPLETED"
InOrderOf(res) ==
  \E k \in 0..Len(res) : \A i \in 1..Len(res) :
    /\ (i <= k <=> res[i].status = "COMPLETED")
    /\ (i > k + 1 => res[i].status = "MISSING")
ToldOf(w) ==
  /\ Len(w.results) = w.total /\ InOrderOf(w.results)
  /\ w.outcome = "COMPLETED" => AreCompleted(w.results)

(* One run and the engine of its service: in its loop it has a completed   *)
(* result of each segment before the present one and has not yet touched   *)
(* the radio unless it is marked so; once it is over its results are as    *)
(* they are to be told, and restored says where the engine was left.       *)
RunFits(w, e) ==
  /\ w.at \in {"none", "begin"} =>
       w.results = <<>> /\ w.seg = 1 /\ ~w.started /\ ~w.touched /\ ~w.restored
  /\ w.at \in LoopAt =>
       w.seg \in 1..w.total /\ Len(w.results) = w.seg - 1 /\ AreCompleted(w.results)
  /\ w.at \in LoopAt \cup {"restore"} => ~w.restored /\ (w.touched \/ e.state = "CREATED")
  /\ w.at \in {"start", "capture"} => w.touched
  /\ w.at = "restore" => ToldOf(w)
  /\ w.at \in AfterAt \cup {"restore"} => w.outcome \in Outcomes
  /\ w.restored => w.at \in AfterAt
  /\ w.at \in AfterAt =>
       /\ w.touched => ToldOf(w)
       /\ w.outcome = "COMPLETED" => ToldOf(w) /\ w.restored
       /\ w.restored => e.state \in {"none", "CREATED", "CONFIGURED"}
       /\ w.restored /\ w.touched => e.tuned = Base

RunsFit == \A r \in Runs : RunFits(sweeper[r], engine[r])

(* Which run the presenter has, and what it says of it.                    *)
PlanIsOne == presenter.plan # NoPlan => \E c \in Configs : presenter.plan = <<c>> /\ Plans[c] # NoPlan
ThreadIsLast ==
  /\ presenter.thread # 0 =>
       presenter.thread = spent.runs /\ spent.runs \in Runs /\ sweeper[spent.runs].at \in ActiveAt
  /\ \A r \in Runs : sweeper[r].at \in ActiveAt => presenter.thread = r
  /\ \A r \in Runs : sweeper[r].at = "begin" => presenter.plan # NoPlan
  /\ \A r \in Runs : r > spent.runs => sweeper[r].at = "none"
  /\ presenter.event \in {0, presenter.thread}
StatusIsTold ==
  /\ presenter.status \in Active => presenter.thread # 0
  /\ presenter.status = "COMPLETED" =>
       LET w == sweeper[presenter.result] IN
       /\ presenter.thread = 0
       /\ presenter.result = spent.runs /\ presenter.result \in Runs
       /\ presenter.frame = presenter.result
       /\ w.restored /\ w.outcome = "COMPLETED" /\ w.at \in {"disconnect", "ended"} /\ ToldOf(w)

SweepInv ==
  /\ presenter \in PresenterType /\ spent \in SpentType /\ RunsTyped
  /\ RunsFit /\ PlanIsOne /\ ThreadIsLast /\ StatusIsTold

-----------------------------------------------------------------------------
(* A result for every segment.                                             *)
FilledTo(t, res) == [i \in 1..t |-> IF i <= Len(res) THEN res[i] ELSE Missing]

LEMMA FilledFits ==
  ASSUME NEW t \in Nat, NEW res \in Seq(RunResults), Len(res) <= t
  PROVE /\ FilledTo(t, res) \in Seq(RunResults) /\ Len(FilledTo(t, res)) = t
        /\ \A i \in 1..t : FilledTo(t, res)[i] = IF i <= Len(res) THEN res[i] ELSE Missing
<1>1. \A i \in 1..t : (IF i <= Len(res) THEN res[i] ELSE Missing) \in RunResults
      <2> TAKE i \in 1..t
      <2>1. CASE i <= Len(res) BY <2>1
      <2>2. CASE ~(i <= Len(res)) BY <2>2 DEF Missing, RunResults
      <2> QED BY <2>1, <2>2
<1> DEFINE F == FilledTo(t, res)
<1>2. F \in [1..t -> RunResults] BY <1>1 DEF FilledTo
<1>3. \A i \in 1..t : F[i] = IF i <= Len(res) THEN res[i] ELSE Missing
      BY DEF FilledTo
<1> HIDE DEF F
<1>4. F \in Seq(RunResults) /\ Len(F) = t BY <1>2
<1> QED BY <1>3, <1>4 DEF F

LEMMA FilledInOrder ==
  ASSUME NEW t \in Nat, NEW res \in Seq(RunResults), AreCompleted(res), Len(res) <= t
  PROVE /\ InOrderOf(FilledTo(t, res))
        /\ Len(res) = t => AreCompleted(FilledTo(t, res))
<1> DEFINE F == FilledTo(t, res)
           k == Len(res)
<1>1. F \in Seq(RunResults) /\ Len(F) = t /\ \A i \in 1..t : F[i] = IF i <= k THEN res[i] ELSE Missing
      BY FilledFits
<1> HIDE DEF F
<1>2. k \in 0..t /\ DOMAIN F = 1..t /\ DOMAIN res = 1..k BY <1>1
<1>3. \A i \in 1..t : (i <= k <=> F[i].status = "COMPLETED") /\ (i > k => F[i].status = "MISSING")
      <2> TAKE i \in 1..t
      <2>1. CASE i <= k
            <3>1. i \in DOMAIN res BY <1>2, <2>1
            <3> QED BY <1>1, <1>2, <2>1, <3>1 DEF AreCompleted
      <2>2. CASE ~(i <= k) BY <1>1, <2>2 DEF Missing
      <2> QED BY <2>1, <2>2
<1> HIDE DEF k
<1>4. \A i \in 1..t : (i <= k <=> F[i].status = "COMPLETED") /\ (i > k + 1 => F[i].status = "MISSING")
      BY <1>2, <1>3
<1>5. InOrderOf(F) BY <1>1, <1>2, <1>4 DEF InOrderOf
<1>6. k = t => AreCompleted(F) BY <1>2, <1>3 DEF AreCompleted
<1> QED BY <1>5, <1>6 DEF F, k

LEMMA FailedInOrder ==
  ASSUME NEW t \in Nat, NEW res \in Seq(RunResults), AreCompleted(res), Len(res) < t,
         NEW one \in RunResults, one.status # "COMPLETED"
  PROVE InOrderOf(FilledTo(t, Append(res, one)))
<1> DEFINE all == Append(res, one)
           F == FilledTo(t, all)
           k == Len(res)
<1>1. /\ all \in Seq(RunResults) /\ Len(all) = k + 1 /\ all[k + 1] = one
      /\ \A i \in 1..k : all[i] = res[i]
      OBVIOUS
<1> HIDE DEF all
<1>2. Len(all) <= t BY <1>1
<1>3. F \in Seq(RunResults) /\ Len(F) = t
      /\ \A i \in 1..t : F[i] = IF i <= Len(all) THEN all[i] ELSE Missing
      BY <1>1, <1>2, FilledFits
<1> HIDE DEF F
<1>4. k \in 0..t /\ DOMAIN res = 1..k /\ k \in Nat BY <1>1
<1>5. \A i \in 1..t : (i <= k <=> F[i].status = "COMPLETED") /\ (i > k + 1 => F[i].status = "MISSING")
      <2> TAKE i \in 1..t
      <2>1. CASE i <= k
            <3>1. i \in DOMAIN res /\ F[i] = res[i] BY <1>1, <1>3, <1>4, <2>1
            <3> QED BY <1>4, <2>1, <3>1 DEF AreCompleted
      <2>2. CASE i = k + 1 BY <1>1, <1>3, <1>4, <2>2
      <2>3. CASE i > k + 1 BY <1>1, <1>3, <1>4, <2>3 DEF Missing
      <2> QED BY <1>4, <2>1, <2>2, <2>3
<1> HIDE DEF k
<1> QED BY <1>3, <1>4, <1>5 DEF InOrderOf, F, all

-----------------------------------------------------------------------------
(* The one run that a step of a worker is about.                           *)
OneRun(r) ==
  /\ sweeper' = [sweeper EXCEPT ![r] = sweeper'[r]]
  /\ engine' = [engine EXCEPT ![r] = engine'[r]]
RunStep(r) ==
  /\ OneRun(r) /\ IsRun(sweeper'[r]) /\ engine'[r] \in EngineType
  /\ RunFits(sweeper'[r], engine'[r])

LEMMA RunStepKeeps ==
  ASSUME RunsTyped, RunsFit, NEW r \in Runs, RunStep(r)
  PROVE /\ RunsTyped' /\ RunsFit'
        /\ \A q \in Runs : q # r => sweeper'[q] = sweeper[q]
<1>1. sweeper' = [q \in Runs |-> IF q = r THEN sweeper'[r] ELSE sweeper[q]]
      BY DEF RunsTyped, RunStep, OneRun
<1>2. engine' = [q \in Runs |-> IF q = r THEN engine'[r] ELSE engine[q]]
      BY DEF RunsTyped, RunStep, OneRun
<1> DEFINE w2 == sweeper'[r]
           e2 == engine'[r]
<1>3. IsRun(w2) /\ e2 \in EngineType /\ RunFits(w2, e2) BY DEF RunStep
<1> HIDE DEF w2, e2
<1>4. \A q \in Runs : IF q = r THEN sweeper'[q] = w2 /\ engine'[q] = e2
                      ELSE sweeper'[q] = sweeper[q] /\ engine'[q] = engine[q]
      BY <1>1, <1>2 DEF w2, e2
<1>5. \A q \in Runs : /\ IsRun(sweeper'[q]) /\ engine'[q] \in EngineType
                      /\ RunFits(sweeper'[q], engine'[q])
      BY <1>3, <1>4 DEF RunsTyped, RunsFit
<1>6. sweeper' = [q \in Runs |-> sweeper'[q]] /\ engine' = [q \in Runs |-> engine'[q]]
      BY <1>1, <1>2
<1> QED BY <1>4, <1>5, <1>6 DEF RunsTyped, RunsFit

(* What Over() does to its run.                                            *)
OverDoes(w, w2, one) ==
  LET all == Append(w.results, one)
      ends == one.status # "COMPLETED" \/ w.seg = w.total
  IN /\ w2 = [f \in RunFields |-> w2[f]]
     /\ w2.touched /\ w2.started = w.started /\ w2.restored = w.restored /\ w2.total = w.total
     /\ ends => /\ w2.at = "restore" /\ w2.seg = w.seg /\ w2.outcome = one.status
                /\ w2.results = FilledTo(w.total, all)
     /\ ~ends => /\ w2.at = "segment" /\ w2.seg = w.seg + 1 /\ w2.outcome = w.outcome
                 /\ w2.results = all

LEMMA OverDoesThat ==
  ASSUME RunsTyped, NEW r \in Runs, NEW status, Over(r, status)
  PROVE /\ sweeper' = [sweeper EXCEPT ![r] = sweeper'[r]]
        /\ OverDoes(sweeper[r], sweeper'[r], [status |-> status, generation |-> engine[r].generation])
<1> DEFINE w == sweeper[r]
           one == [status |-> status, generation |-> engine[r].generation]
           all == Append(w.results, one)
           ends == status # "COMPLETED" \/ w.seg = w.total
           at2 == IF ends THEN "restore" ELSE "segment"
           seg2 == IF ends THEN w.seg ELSE w.seg + 1
           out2 == IF ends THEN status ELSE w.outcome
           res2 == IF ends THEN FilledTo(w.total, all) ELSE all
           w2 == [w EXCEPT !.touched = TRUE, !.at = at2, !.seg = seg2, !.outcome = out2, !.results = res2]
<1>1. Filled(r, all) = FilledTo(w.total, all) BY DEF Filled, FilledTo
<1>2. sweeper' = [sweeper EXCEPT ![r] = w2] BY <1>1 DEF Over
<1>3. w = [f \in RunFields |-> w[f]] /\ sweeper = [q \in Runs |-> sweeper[q]]
      BY DEF RunsTyped, IsRun
<1>4. sweeper'[r] = w2
      <2> HIDE DEF w2
      <2> QED BY <1>2, <1>3
<1>5. one.status = status OBVIOUS
<1> HIDE DEF w, at2, seg2, out2, res2, all, ends, one
<1>6. /\ w2 = [f \in RunFields |-> w2[f]]
      /\ w2.touched = TRUE /\ w2.started = w.started /\ w2.restored = w.restored /\ w2.total = w.total
      /\ w2.at = at2 /\ w2.seg = seg2 /\ w2.outcome = out2 /\ w2.results = res2
      BY <1>3 DEF RunFields
<1> HIDE DEF w2
<1>7. ends <=> (one.status # "COMPLETED" \/ w.seg = w.total) BY <1>5 DEF ends
<1>8. OverDoes(w, w2, one)
      BY <1>5, <1>6, <1>7 DEF OverDoes, at2, seg2, out2, res2, all
<1> QED BY <1>2, <1>4, <1>8 DEF w, one

LEMMA OverFits ==
  ASSUME NEW w, NEW w2, NEW e, NEW e2, NEW one \in RunResults, one.status # "MISSING",
         IsRun(w), RunFits(w, e), w.at \in LoopAt, OverDoes(w, w2, one)
  PROVE IsRun(w2) /\ RunFits(w2, e2) /\ w2.at \in {"segment", "restore"}
<1> DEFINE all == Append(w.results, one)
           ends == one.status # "COMPLETED" \/ w.seg = w.total
<1>1. /\ w.total \in Nat /\ w.results \in Seq(RunResults) /\ ~w.restored
      /\ w.seg \in 1..w.total /\ Len(w.results) = w.seg - 1 /\ AreCompleted(w.results)
      BY DEF IsRun, RunFits
<1>2. all \in Seq(RunResults) /\ Len(all) = w.seg /\ Len(all) <= w.total
      BY <1>1
<1>3. one.status = "COMPLETED" => AreCompleted(all)
      <2> HAVE one.status = "COMPLETED"
      <2>1. \A i \in DOMAIN all : all[i] = one \/ (i \in DOMAIN w.results /\ all[i] = w.results[i])
            BY <1>1
      <2> QED BY <2>1, <1>1 DEF AreCompleted
<1>4. CASE ends
      <2>1. /\ w2 = [f \in RunFields |-> w2[f]] /\ w2.touched /\ ~w2.restored /\ w2.total = w.total
            /\ w2.at = "restore" /\ w2.outcome = one.status /\ w2.results = FilledTo(w.total, all)
            BY <1>1, <1>4 DEF OverDoes
      <2>2. w2.results \in Seq(RunResults) /\ Len(w2.results) = w2.total
            BY <1>1, <1>2, <2>1, FilledFits
      <2>3. InOrderOf(w2.results) /\ (w2.outcome = "COMPLETED" => AreCompleted(w2.results))
            <3>1. CASE one.status = "COMPLETED"
                  <4>1. Len(all) = w.total BY <1>2, <1>4, <3>1
                  <4> QED BY <1>1, <1>2, <1>3, <2>1, <3>1, <4>1, FilledInOrder
            <3>2. CASE one.status # "COMPLETED"
                  <4>1. Len(w.results) < w.total BY <1>1
                  <4>2. InOrderOf(FilledTo(w.total, all))
                        BY <1>1, <3>2, <4>1, FailedInOrder
                  <4> QED BY <2>1, <3>2, <4>2
            <3> QED BY <3>1, <3>2
      <2>4. one.status \in Outcomes BY DEF RunResults, Outcomes
      <2> HIDE DEF all
      <2> QED BY <1>1, <2>1, <2>2, <2>3, <2>4 DEF IsRun, RunFits, ToldOf, LoopAt, AfterAt
<1>5. CASE ~ends
      <2>1. /\ w2 = [f \in RunFields |-> w2[f]] /\ w2.touched /\ ~w2.restored /\ w2.total = w.total
            /\ w2.at = "segment" /\ w2.seg = w.seg + 1 /\ w2.results = all
            BY <1>1, <1>5 DEF OverDoes
      <2>2. w2.seg \in 1..w2.total /\ Len(w2.results) = w2.seg - 1
            BY <1>1, <1>2, <1>5, <2>1
      <2>3. AreCompleted(w2.results) BY <1>3, <1>5, <2>1
      <2> HIDE DEF all
      <2>4. w2.results \in Seq(RunResults) /\ w2.total \in Nat
            BY <1>1, <1>2, <2>1 DEF all
      <2> QED BY <2>1, <2>2, <2>3, <2>4 DEF IsRun, RunFits, LoopAt, AfterAt
<1> QED BY <1>4, <1>5

-----------------------------------------------------------------------------
(* What a worker does before it publishes.                                 *)
WorksOn(r) ==
  /\ RunStep(r) /\ sweeper'[r].at \in ActiveAt \ {"begin"}
  /\ presenter' \in {presenter, [presenter EXCEPT !.status = "RUNNING"]}
  /\ spent' \in SpentType /\ spent'.runs = spent.runs

LEMMA NewRun ==
  ASSUME RunsTyped, NEW r \in Runs, NEW w2, sweeper' = [sweeper EXCEPT ![r] = w2]
  PROVE sweeper' = [sweeper EXCEPT ![r] = sweeper'[r]] /\ sweeper'[r] = w2
BY DEF RunsTyped

LEMMA NewEngine ==
  ASSUME RunsTyped, NEW r \in Runs, NEW e2, engine' = [engine EXCEPT ![r] = e2]
  PROVE engine' = [engine EXCEPT ![r] = engine'[r]] /\ engine'[r] = e2
BY DEF RunsTyped

LEMMA SameEngine ==
  ASSUME RunsTyped, NEW r \in Runs, engine' = engine
  PROVE engine' = [engine EXCEPT ![r] = engine'[r]] /\ engine'[r] = engine[r]
BY DEF RunsTyped

LEMMA FaultOnlyCounts ==
  ASSUME spent \in SpentType, SweepFault
  PROVE spent' \in SpentType /\ spent'.runs = spent.runs
BY DEF SweepFault, SpentType

(* A run that only goes on, or is also marked, or has its results filled.  *)
SameBefore(w, w2) ==
  /\ w2 = [f \in RunFields |-> w2[f]]
  /\ w2.total = w.total /\ w2.seg = w.seg /\ w2.results = w.results
  /\ w2.restored = w.restored /\ w2.outcome = w.outcome

LEMMA AtSet ==
  ASSUME NEW w, w = [f \in RunFields |-> w[f]], NEW a
  PROVE LET w2 == [w EXCEPT !.at = a]
        IN /\ SameBefore(w, w2) /\ w2.at = a /\ w2.started = w.started /\ w2.touched = w.touched
BY DEF SameBefore, RunFields

LEMMA GoesToDoes ==
  ASSUME RunsTyped, NEW r \in Runs, NEW a, GoesTo(r, a)
  PROVE /\ sweeper' = [sweeper EXCEPT ![r] = sweeper'[r]]
        /\ SameBefore(sweeper[r], sweeper'[r]) /\ sweeper'[r].at = a
        /\ sweeper'[r].started = sweeper[r].started /\ sweeper'[r].touched = sweeper[r].touched
<1> DEFINE w == sweeper[r]
           w2 == [w EXCEPT !.at = a]
<1>1. sweeper' = [sweeper EXCEPT ![r] = w2] BY DEF GoesTo
<1>2. w = [f \in RunFields |-> w[f]] BY DEF RunsTyped, IsRun
<1>3. SameBefore(w, w2) /\ w2.at = a /\ w2.started = w.started /\ w2.touched = w.touched
      BY <1>2, AtSet
<1> HIDE DEF w2
<1>4. sweeper' = [sweeper EXCEPT ![r] = sweeper'[r]] /\ sweeper'[r] = w2
      BY <1>1, NewRun
<1> QED BY <1>3, <1>4 DEF w

LEMMA TotalFits ==
  ASSUME SweepInputsFit, PlanIsOne, presenter.plan # NoPlan
  PROVE Len(Planned(presenter.plan)) \in Nat \ {0}
<1>1. PICK c \in Configs : presenter.plan = <<c>> /\ Plans[c] # NoPlan
      BY DEF PlanIsOne
<1>2. Plannable(c) /\ Plans[c] = Segments(c) BY <1>1 DEF Plans
<1>3. Planned(presenter.plan) = Segments(c) BY <1>1, <1>2 DEF Planned, NoPlan
<1> QED BY <1>2, <1>3, PlanFits

LEMMA BeginWorks ==
  ASSUME SweepInputsFit, SweepInv, NEW r \in Runs, Begin(r)
  PROVE WorksOn(r)
<1> DEFINE w == sweeper[r]
           e == engine[r]
           n == Len(Planned(presenter.plan))
<1>1. /\ RunsTyped /\ IsRun(w) /\ e \in EngineType /\ RunFits(w, e) /\ w.at = "begin"
      /\ spent \in SpentType /\ presenter' = presenter
      BY DEF SweepInv, RunsTyped, RunsFit, Begin
<1>2. n \in Nat \ {0} BY <1>1, TotalFits DEF SweepInv, ThreadIsLast
<1>3. w.results = <<>> /\ w.seg = 1 /\ ~w.started /\ ~w.touched /\ ~w.restored
      BY <1>1 DEF RunFits
<1>6. <<>> \in Seq(RunResults) BY <1>1, <1>3 DEF IsRun
<1>4. CASE /\ sweeper' = [sweeper EXCEPT ![r].at = "segment", ![r].total = n]
           /\ engine' = [engine EXCEPT ![r].state = "CREATED"] /\ UNCHANGED spent
      <2> DEFINE w2 == [w EXCEPT !.at = "segment", !.total = n]
                 e2 == [e EXCEPT !.state = "CREATED"]
      <2>1. sweeper' = [sweeper EXCEPT ![r] = w2] /\ engine' = [engine EXCEPT ![r] = e2]
            BY <1>1, <1>4 DEF RunsTyped
      <2> HIDE DEF n
      <2>2. /\ w2 = [f \in RunFields |-> w2[f]] /\ w2.at = "segment" /\ w2.total = n
            /\ w2.results = <<>> /\ w2.seg = 1 /\ ~w2.restored
            BY <1>1, <1>3 DEF IsRun, RunFields
      <2>3. e2 \in EngineType /\ e2.state = "CREATED" BY <1>1 DEF EngineType
      <2> HIDE DEF w2, e2
      <2>4. IsRun(w2) BY <1>2, <1>6, <2>2 DEF IsRun
      <2>5. AreCompleted(w2.results) /\ w2.seg \in 1..w2.total /\ Len(w2.results) = w2.seg - 1
            BY <1>2, <2>2 DEF AreCompleted
      <2>6. RunFits(w2, e2) BY <2>2, <2>3, <2>5 DEF RunFits, LoopAt, AfterAt
      <2>7. /\ sweeper' = [sweeper EXCEPT ![r] = sweeper'[r]] /\ sweeper'[r] = w2
            /\ engine' = [engine EXCEPT ![r] = engine'[r]] /\ engine'[r] = e2
            BY <1>1, <2>1, NewRun, NewEngine
      <2> QED BY <1>1, <1>4, <2>2, <2>3, <2>4, <2>6, <2>7 DEF WorksOn, RunStep, OneRun, ActiveAt
<1>5. CASE /\ SweepFault /\ UNCHANGED engine
           /\ sweeper' = [sweeper EXCEPT ![r].at = "publish", ![r].total = n, ![r].outcome = "FAILED"]
      <2> DEFINE w2 == [w EXCEPT !.at = "publish", !.total = n, !.outcome = "FAILED"]
      <2>1. sweeper' = [sweeper EXCEPT ![r] = w2] BY <1>1, <1>5 DEF RunsTyped
      <2> HIDE DEF n
      <2>2. /\ w2 = [f \in RunFields |-> w2[f]] /\ w2.at = "publish" /\ w2.total = n
            /\ w2.results = <<>> /\ w2.outcome = "FAILED" /\ ~w2.restored /\ ~w2.touched
            BY <1>1, <1>3 DEF IsRun, RunFields
      <2> HIDE DEF w2
      <2>3. IsRun(w2) BY <1>2, <1>6, <2>2 DEF IsRun
      <2>4. RunFits(w2, e) BY <2>2 DEF RunFits, LoopAt, AfterAt, Outcomes
      <2>5. /\ sweeper' = [sweeper EXCEPT ![r] = sweeper'[r]] /\ sweeper'[r] = w2
            /\ engine' = [engine EXCEPT ![r] = engine'[r]] /\ engine'[r] = e
            BY <1>1, <1>5, <2>1, NewRun, SameEngine
      <2>6. spent' \in SpentType /\ spent'.runs = spent.runs
            BY <1>1, <1>5, FaultOnlyCounts
      <2> QED BY <1>1, <2>2, <2>3, <2>4, <2>5, <2>6 DEF WorksOn, RunStep, OneRun, ActiveAt
<1> QED BY <1>4, <1>5 DEF Begin

LEMMA NextSegmentWorks ==
  ASSUME SweepInv, NEW r \in Runs, NextSegment(r)
  PROVE WorksOn(r)
<1> DEFINE w == sweeper[r]
           e == engine[r]
<1>1. /\ RunsTyped /\ IsRun(w) /\ e \in EngineType /\ RunFits(w, e) /\ w.at = "segment"
      /\ spent \in SpentType /\ presenter' = presenter /\ spent' = spent /\ engine' = engine
      BY DEF SweepInv, RunsTyped, RunsFit, NextSegment
<1>2. /\ w.seg \in 1..w.total /\ Len(w.results) = w.seg - 1 /\ AreCompleted(w.results)
      /\ w.total \in Nat /\ w.results \in Seq(RunResults)
      /\ ~w.restored /\ (w.touched \/ e.state = "CREATED")
      BY <1>1 DEF RunFits, LoopAt, IsRun
<1>3. engine' = [engine EXCEPT ![r] = engine'[r]] /\ engine'[r] = e
      BY <1>1, SameEngine
<1>4. CASE r \in cancels
      <2> DEFINE F == FilledTo(w.total, w.results)
                 w2 == [w EXCEPT !.at = "restore", !.outcome = "CANCELLED", !.results = F]
      <2>1. F = Filled(r, w.results) BY DEF FilledTo, Filled
      <2>2. sweeper' = [sweeper EXCEPT ![r] = w2]
            BY <1>1, <1>4, <2>1 DEF NextSegment, RunsTyped
      <2>3. F \in Seq(RunResults) /\ Len(F) = w.total /\ InOrderOf(F)
            BY <1>2, FilledFits, FilledInOrder
      <2> HIDE DEF F
      <2>4. /\ w2 = [f \in RunFields |-> w2[f]] /\ w2.at = "restore" /\ w2.outcome = "CANCELLED"
            /\ w2.results = F /\ w2.total = w.total /\ w2.restored = w.restored /\ w2.touched = w.touched
            BY <1>1 DEF IsRun, RunFields
      <2> HIDE DEF w2
      <2>5. IsRun(w2) BY <1>2, <2>3, <2>4 DEF IsRun
      <2>6. RunFits(w2, e)
            BY <1>2, <2>3, <2>4 DEF RunFits, LoopAt, AfterAt, Outcomes, ToldOf
      <2>7. sweeper' = [sweeper EXCEPT ![r] = sweeper'[r]] /\ sweeper'[r] = w2
            BY <1>1, <2>2, NewRun
      <2> QED BY <1>1, <1>3, <2>4, <2>5, <2>6, <2>7 DEF WorksOn, RunStep, OneRun, ActiveAt
<1>5. CASE r \notin cancels
      <2> DEFINE w2 == sweeper'[r]
      <2>1. GoesTo(r, "notify") BY <1>5 DEF NextSegment, GoesTo
      <2>2. /\ sweeper' = [sweeper EXCEPT ![r] = w2]
            /\ SameBefore(w, w2) /\ w2.at = "notify" /\ w2.touched = w.touched
            BY <1>1, <2>1, GoesToDoes
      <2> HIDE DEF w2
      <2>3. IsRun(w2) /\ RunFits(w2, e)
            BY <1>2, <2>2 DEF IsRun, RunFits, SameBefore, LoopAt, AfterAt
      <2> QED BY <1>1, <1>3, <2>2, <2>3 DEF WorksOn, RunStep, OneRun, ActiveAt, w2
<1> QED BY <1>4, <1>5

LEMMA NotifyWorks ==
  ASSUME SweepInv, NEW r \in Runs, Notify(r)
  PROVE WorksOn(r)
<1> DEFINE w == sweeper[r]
           e == engine[r]
           w2 == sweeper'[r]
<1>1. /\ RunsTyped /\ IsRun(w) /\ e \in EngineType /\ RunFits(w, e) /\ w.at = "notify"
      /\ spent \in SpentType /\ spent' = spent /\ engine' = engine /\ GoesTo(r, "retune")
      /\ presenter' = [presenter EXCEPT !.status = "RUNNING"]
      BY DEF SweepInv, RunsTyped, RunsFit, Notify, Reported
<1>2. engine' = [engine EXCEPT ![r] = engine'[r]] /\ engine'[r] = e
      BY <1>1, SameEngine
<1>3. /\ sweeper' = [sweeper EXCEPT ![r] = w2]
      /\ SameBefore(w, w2) /\ w2.at = "retune" /\ w2.touched = w.touched
      BY <1>1, GoesToDoes
<1> HIDE DEF w2
<1>4. IsRun(w2) /\ RunFits(w2, e)
      BY <1>1, <1>3 DEF IsRun, RunFits, SameBefore, LoopAt, AfterAt
<1> QED BY <1>1, <1>2, <1>3, <1>4 DEF WorksOn, RunStep, OneRun, ActiveAt, w2

(* A segment that is over, whatever its engine has become.                 *)
LEMMA OverWorks ==
  ASSUME SweepInv, NEW r \in Runs, NEW status \in Outcomes, sweeper[r].at \in LoopAt,
         Over(r, status), Reported, spent' \in SpentType, spent'.runs = spent.runs,
         engine' = [engine EXCEPT ![r] = engine'[r]], engine'[r] \in EngineType
  PROVE WorksOn(r)
<1> DEFINE w == sweeper[r]
           w2 == sweeper'[r]
           e == engine[r]
           e2 == engine'[r]
           one == [status |-> status, generation |-> e.generation]
<1>1. RunsTyped /\ IsRun(w) /\ e \in EngineType /\ RunFits(w, e)
      BY DEF SweepInv, RunsTyped, RunsFit
<1>2. one \in RunResults /\ one.status # "MISSING"
      BY <1>1 DEF EngineType, RunResults, Outcomes
<1>3. sweeper' = [sweeper EXCEPT ![r] = w2] /\ OverDoes(w, w2, one)
      BY <1>1, OverDoesThat
<1> HIDE DEF w, w2, e, e2, one
<1>4. w.at \in LoopAt BY DEF w
<1>5. IsRun(w2) /\ RunFits(w2, e2) /\ w2.at \in {"segment", "restore"}
      BY ONLY <1>1, <1>2, <1>3, <1>4, OverFits
<1>6. presenter' = [presenter EXCEPT !.status = "RUNNING"] BY DEF Reported
<1> QED BY <1>3, <1>5, <1>6 DEF WorksOn, RunStep, OneRun, ActiveAt, w2, e2

LEMMA ConfiguredTyped ==
  ASSUME NEW e \in EngineType, NEW to \in Int
  PROVE /\ Configured(e, to) \in EngineType /\ Configured(e, to).state = "CONFIGURED"
        /\ Configured(e, to).tuned = to
        /\ Reconfigured(e, to) \in EngineType /\ Stopped(e) \in EngineType
BY DEF EngineType, Configured, Reconfigured, Stopped

LEMMA RetuneWorks ==
  ASSUME SweepInv, NEW r \in Runs, Retune(r)
  PROVE WorksOn(r)
<1> DEFINE w == sweeper[r]
           e == engine[r]
           w2 == sweeper'[r]
           to == w.seg
<1>1. /\ RunsTyped /\ IsRun(w) /\ e \in EngineType /\ RunFits(w, e) /\ w.at = "retune"
      /\ spent \in SpentType
      BY DEF SweepInv, RunsTyped, RunsFit, Retune
<1>2. w.seg \in 1..w.total /\ Len(w.results) = w.seg - 1 /\ AreCompleted(w.results) /\ ~w.restored
      /\ w.total \in Nat /\ w.at \in LoopAt /\ to \in Int /\ (w.touched \/ e.state = "CREATED")
      BY <1>1 DEF RunFits, IsRun, LoopAt
<1>3. CASE Over(r, "FAILED") /\ Reported /\ SweepFault /\ UNCHANGED engine
      <2>1. engine' = [engine EXCEPT ![r] = engine'[r]] /\ engine'[r] \in EngineType
            BY <1>1, <1>3, SameEngine
      <2>2. spent' \in SpentType /\ spent'.runs = spent.runs
            BY <1>1, <1>3, FaultOnlyCounts
      <2> QED BY <1>2, <1>3, <2>1, <2>2, OverWorks DEF Outcomes
<1>4. CASE /\ engine' = [engine EXCEPT ![r] = Configured(@, sweeper[r].seg)]
           /\ sweeper' = [sweeper EXCEPT ![r].at = "start", ![r].touched = TRUE]
           /\ UNCHANGED <<presenter, spent>>
      <2> DEFINE v == [w EXCEPT !.at = "start", !.touched = TRUE]
      <2>1. sweeper' = [sweeper EXCEPT ![r] = v] /\ engine' = [engine EXCEPT ![r] = Configured(e, to)]
            BY <1>1, <1>4 DEF RunsTyped
      <2>2. /\ v = [f \in RunFields |-> v[f]] /\ v.at = "start" /\ v.touched
            /\ v.total = w.total /\ v.seg = w.seg /\ v.results = w.results /\ v.restored = w.restored
            BY <1>1 DEF IsRun, RunFields
      <2> HIDE DEF v
      <2>3. IsRun(v) BY <1>1, <2>2 DEF IsRun
      <2>4. \A e2 : RunFits(v, e2) BY <1>2, <2>2 DEF RunFits, LoopAt, AfterAt
      <2>5. /\ sweeper' = [sweeper EXCEPT ![r] = sweeper'[r]] /\ sweeper'[r] = v
            /\ engine' = [engine EXCEPT ![r] = engine'[r]] /\ engine'[r] = Configured(e, to)
            BY <1>1, <2>1, NewRun, NewEngine
      <2>6. engine'[r] \in EngineType BY <1>1, <1>2, <2>5, ConfiguredTyped
      <2> QED BY <1>1, <1>4, <2>2, <2>3, <2>4, <2>5, <2>6 DEF WorksOn, RunStep, OneRun, ActiveAt
<1>5. CASE /\ e.state = "RUNNING" /\ UNCHANGED spent
           /\ engine' = [engine EXCEPT ![r] = Reconfigured(e, to)]
           /\ GoesTo(r, "capture") /\ UNCHANGED presenter
      <2>1. engine' = [engine EXCEPT ![r] = engine'[r]] /\ engine'[r] = Reconfigured(e, to)
            BY <1>1, <1>5, NewEngine
      <2>2. engine'[r] \in EngineType BY <1>1, <1>2, <2>1, ConfiguredTyped
      <2>3. /\ sweeper' = [sweeper EXCEPT ![r] = w2]
            /\ SameBefore(w, w2) /\ w2.at = "capture" /\ w2.touched = w.touched
            BY <1>1, <1>5, GoesToDoes
      <2>4. w.touched BY <1>2, <1>5
      <2> HIDE DEF w2
      <2>5. IsRun(w2) /\ \A e2 : RunFits(w2, e2)
            BY <1>1, <1>2, <2>3, <2>4 DEF IsRun, RunFits, SameBefore, LoopAt, AfterAt
      <2> QED BY <1>1, <1>5, <2>1, <2>2, <2>3, <2>5 DEF WorksOn, RunStep, OneRun, ActiveAt, w2
<1>6. CASE /\ e.state = "RUNNING" /\ SweepFault
           /\ \E f \in {Stopped(e), Configured(e, to)} : engine' = [engine EXCEPT ![r] = f]
           /\ Over(r, "FAILED") /\ Reported
      <2>1. PICK f \in {Stopped(e), Configured(e, to)} : engine' = [engine EXCEPT ![r] = f]
            BY <1>6
      <2>2. f \in EngineType BY <1>1, <1>2, <2>1, ConfiguredTyped
      <2>3. engine' = [engine EXCEPT ![r] = engine'[r]] /\ engine'[r] = f
            BY <1>1, <2>1, NewEngine
      <2>4. spent' \in SpentType /\ spent'.runs = spent.runs
            BY <1>1, <1>6, FaultOnlyCounts
      <2> QED BY <1>2, <1>6, <2>2, <2>3, <2>4, OverWorks DEF Outcomes
<1>7. CASE Over(r, "FAILED") /\ Reported /\ UNCHANGED <<engine, spent>>
      <2>1. engine' = [engine EXCEPT ![r] = engine'[r]] /\ engine'[r] \in EngineType
            BY <1>1, <1>7, SameEngine
      <2> QED BY <1>1, <1>2, <1>7, <2>1, OverWorks DEF Outcomes
<1> QED BY <1>3, <1>4, <1>5, <1>6, <1>7 DEF Retune, FirstRetune, LaterRetune

LEMMA StartStreamWorks ==
  ASSUME SweepInv, NEW r \in Runs, StartStream(r)
  PROVE WorksOn(r)
<1> DEFINE w == sweeper[r]
           e == engine[r]
<1>1. /\ RunsTyped /\ IsRun(w) /\ e \in EngineType /\ RunFits(w, e) /\ w.at = "start"
      /\ spent \in SpentType
      BY DEF SweepInv, RunsTyped, RunsFit, StartStream
<1>2. w.seg \in 1..w.total /\ Len(w.results) = w.seg - 1 /\ AreCompleted(w.results) /\ ~w.restored
      /\ w.at \in LoopAt /\ w.touched
      BY <1>1 DEF RunFits, LoopAt
<1>3. CASE Over(r, "FAILED") /\ Reported /\ SweepFault /\ UNCHANGED engine
      <2>1. engine' = [engine EXCEPT ![r] = engine'[r]] /\ engine'[r] \in EngineType
            BY <1>1, <1>3, SameEngine
      <2>2. spent' \in SpentType /\ spent'.runs = spent.runs
            BY <1>1, <1>3, FaultOnlyCounts
      <2> QED BY <1>2, <1>3, <2>1, <2>2, OverWorks DEF Outcomes
<1>4. CASE /\ engine' = [engine EXCEPT ![r].state = "RUNNING"]
           /\ sweeper' = [sweeper EXCEPT ![r].at = "capture", ![r].started = TRUE]
           /\ UNCHANGED <<presenter, spent>>
      <2> DEFINE v == [w EXCEPT !.at = "capture", !.started = TRUE]
                 e2 == [e EXCEPT !.state = "RUNNING"]
      <2>1. sweeper' = [sweeper EXCEPT ![r] = v] /\ engine' = [engine EXCEPT ![r] = e2]
            BY <1>1, <1>4 DEF RunsTyped
      <2>2. /\ v = [f \in RunFields |-> v[f]] /\ v.at = "capture" /\ v.touched = w.touched
            /\ v.total = w.total /\ v.seg = w.seg /\ v.results = w.results /\ v.restored = w.restored
            BY <1>1 DEF IsRun, RunFields
      <2>3. e2 \in EngineType BY <1>1 DEF EngineType
      <2> HIDE DEF v, e2
      <2>4. IsRun(v) /\ RunFits(v, e2)
            BY <1>1, <1>2, <2>2 DEF IsRun, RunFits, LoopAt, AfterAt
      <2>5. /\ sweeper' = [sweeper EXCEPT ![r] = sweeper'[r]] /\ sweeper'[r] = v
            /\ engine' = [engine EXCEPT ![r] = engine'[r]] /\ engine'[r] = e2
            BY <1>1, <2>1, NewRun, NewEngine
      <2> QED BY <1>1, <1>4, <2>2, <2>3, <2>4, <2>5 DEF WorksOn, RunStep, OneRun, ActiveAt
<1> QED BY <1>3, <1>4 DEF StartStream

LEMMA CaptureWorks ==
  ASSUME SweepInv, NEW r \in Runs, Capture(r)
  PROVE WorksOn(r)
<1>1. RunsTyped /\ engine[r] \in EngineType /\ spent \in SpentType /\ UNCHANGED engine /\ Reported
      BY DEF SweepInv, RunsTyped, Capture
<1>2. engine' = [engine EXCEPT ![r] = engine'[r]] /\ engine'[r] \in EngineType
      BY <1>1, SameEngine
<1>3. spent' \in SpentType /\ spent'.runs = spent.runs
      BY <1>1, FaultOnlyCounts DEF Capture
<1>4. PICK status \in Outcomes : Over(r, status)
      BY DEF Capture, Outcomes
<1>5. sweeper[r].at \in LoopAt BY DEF Capture, LoopAt
<1> QED BY <1>1, <1>2, <1>3, <1>4, <1>5, OverWorks

LEMMA RestoreWorksOn ==
  ASSUME SweepInv, NEW r \in Runs, Restore(r)
  PROVE WorksOn(r)
<1> DEFINE w == sweeper[r]
           e == engine[r]
<1>1. /\ RunsTyped /\ IsRun(w) /\ e \in EngineType /\ RunFits(w, e) /\ w.at = "restore"
      /\ spent \in SpentType /\ presenter' = [presenter EXCEPT !.status = "RUNNING"]
      BY DEF SweepInv, RunsTyped, RunsFit, Restore, Reported
<1>2. ~w.restored /\ (w.touched \/ e.state = "CREATED") /\ ToldOf(w) /\ w.outcome \in Outcomes
      BY <1>1 DEF RunFits
<1>3. CASE RestoreWorks(r) /\ sweeper' = [sweeper EXCEPT ![r].at = "publish", ![r].restored = TRUE]
      <2> DEFINE v == [w EXCEPT !.at = "publish", !.restored = TRUE]
                 e2 == engine'[r]
      <2>1. sweeper' = [sweeper EXCEPT ![r] = v] /\ spent' = spent
            BY <1>1, <1>3 DEF RunsTyped, RestoreWorks
      <2>2. /\ v = [f \in RunFields |-> v[f]] /\ v.at = "publish" /\ v.touched = w.touched /\ v.restored
            /\ v.total = w.total /\ v.results = w.results /\ v.outcome = w.outcome
            BY <1>1 DEF IsRun, RunFields
      <2>3. /\ engine' = [engine EXCEPT ![r] = e2] /\ e2 \in EngineType
            /\ e2.state \in {"CREATED", "CONFIGURED"} /\ (w.touched => e2.tuned = Base)
            <3>1. CASE w.touched
                  <4>1. engine' = [engine EXCEPT ![r] = Configured(e, Base)]
                        BY <1>3, <3>1 DEF RestoreWorks, RunsTyped
                  <4>2. Base \in Int BY DEF Base
                  <4> DEFINE f == Configured(e, Base)
                  <4>3. f \in EngineType /\ f.state = "CONFIGURED" /\ f.tuned = Base
                        BY <1>1, <4>2, ConfiguredTyped
                  <4> HIDE DEF f
                  <4>4. engine' = [engine EXCEPT ![r] = engine'[r]] /\ engine'[r] = f
                        BY <1>1, <4>1, NewEngine DEF f
                  <4> QED BY <4>3, <4>4
            <3>2. CASE ~w.touched
                  <4>1. engine' = engine BY <1>3, <3>2 DEF RestoreWorks
                  <4> QED BY <1>1, <1>2, <3>2, <4>1, SameEngine
            <3> QED BY <3>1, <3>2
      <2> HIDE DEF v, e2
      <2>4. IsRun(v) /\ ToldOf(v) BY <1>1, <1>2, <2>2 DEF IsRun, ToldOf
      <2>5. RunFits(v, e2)
            BY <1>2, <2>2, <2>3, <2>4 DEF RunFits, LoopAt, AfterAt
      <2>6. sweeper' = [sweeper EXCEPT ![r] = sweeper'[r]] /\ sweeper'[r] = v
            BY <1>1, <2>1, NewRun
      <2> QED BY <1>1, <2>1, <2>2, <2>3, <2>4, <2>5, <2>6 DEF WorksOn, RunStep, OneRun, ActiveAt, e2
<1>4. CASE RestoreFails(r) /\ sweeper' = [sweeper EXCEPT ![r].at = "publish", ![r].outcome = "FAILED"]
      <2> DEFINE v == [w EXCEPT !.at = "publish", !.outcome = "FAILED"]
                 e2 == engine'[r]
      <2>1. sweeper' = [sweeper EXCEPT ![r] = v] BY <1>1, <1>4 DEF RunsTyped
      <2>2. /\ v = [f \in RunFields |-> v[f]] /\ v.at = "publish" /\ v.touched = w.touched
            /\ v.restored = w.restored
            /\ v.total = w.total /\ v.results = w.results /\ v.outcome = "FAILED"
            BY <1>1 DEF IsRun, RunFields
      <2>3. engine' = [engine EXCEPT ![r] = e2] /\ e2 \in EngineType
            <3>1. CASE engine' = engine BY <1>1, <3>1, SameEngine
            <3>2. CASE engine' # engine
                  <4>1. engine' = [engine EXCEPT ![r] = IF w.started THEN Stopped(@) ELSE @]
                        BY <1>4, <3>2 DEF RestoreFails
                  <4>2. CASE w.started
                        <5>1. engine' = [engine EXCEPT ![r] = Stopped(e)]
                              BY <1>1, <4>1, <4>2 DEF RunsTyped
                        <5> DEFINE f == Stopped(e)
                        <5>2. f \in EngineType BY <1>1, ConfiguredTyped
                        <5> HIDE DEF f
                        <5>3. engine' = [engine EXCEPT ![r] = engine'[r]] /\ engine'[r] = f
                              BY <1>1, <5>1, NewEngine DEF f
                        <5> QED BY <5>2, <5>3
                  <4>3. CASE ~w.started
                        <5>1. engine' = [engine EXCEPT ![r] = e]
                              BY <1>1, <4>1, <4>3 DEF RunsTyped
                        <5> QED BY <1>1, <5>1, NewEngine
                  <4> QED BY <4>2, <4>3
            <3> QED BY <3>1, <3>2
      <2>4. spent' \in SpentType /\ spent'.runs = spent.runs
            BY <1>1, <1>4, FaultOnlyCounts DEF RestoreFails
      <2> HIDE DEF v, e2
      <2>5. IsRun(v) /\ ToldOf(v) BY <1>1, <1>2, <2>2 DEF IsRun, ToldOf
      <2>6. RunFits(v, e2)
            BY <1>2, <2>2, <2>3, <2>5 DEF RunFits, LoopAt, AfterAt, Outcomes
      <2>7. sweeper' = [sweeper EXCEPT ![r] = sweeper'[r]] /\ sweeper'[r] = v
            BY <1>1, <2>1, NewRun
      <2> QED BY <1>1, <2>2, <2>3, <2>4, <2>5, <2>6, <2>7 DEF WorksOn, RunStep, OneRun, ActiveAt, e2
<1> QED BY <1>3, <1>4 DEF Restore

LEMMA WorksOnKeeps ==
  ASSUME SweepInv, NEW r \in Runs, sweeper[r].at \in ActiveAt, WorksOn(r)
  PROVE SweepInv'
<1>1. /\ presenter \in PresenterType /\ spent \in SpentType /\ RunsTyped
      /\ RunsFit /\ PlanIsOne /\ ThreadIsLast /\ StatusIsTold
      BY DEF SweepInv
<1>2. /\ RunStep(r) /\ sweeper'[r].at \in ActiveAt /\ sweeper'[r].at # "begin"
      /\ spent' \in SpentType /\ spent'.runs = spent.runs
      BY DEF WorksOn, ActiveAt
<1>3. RunsTyped' /\ RunsFit' /\ \A q \in Runs : q # r => sweeper'[q] = sweeper[q]
      BY <1>1, <1>2, RunStepKeeps
<1>4. /\ presenter' \in PresenterType
      /\ presenter'.plan = presenter.plan /\ presenter'.thread = presenter.thread
      /\ presenter'.event = presenter.event
      /\ presenter'.status \in {presenter.status, "RUNNING"}
      <2>1. CASE presenter' = presenter BY <1>1, <2>1
      <2>2. CASE presenter' = [presenter EXCEPT !.status = "RUNNING"]
            BY <1>1, <2>2 DEF PresenterType, Active
      <2> QED BY <2>1, <2>2 DEF WorksOn
<1>5. presenter.thread = r /\ r # 0 /\ spent.runs = r
      BY <1>1 DEF ThreadIsLast, Runs
<1>6. presenter.status # "COMPLETED" /\ presenter'.status # "COMPLETED"
      BY <1>1, <1>4, <1>5 DEF StatusIsTold
<1>7. PlanIsOne' BY <1>1, <1>4 DEF PlanIsOne
<1>8. ThreadIsLast'
      <2>1. \A q \in Runs : sweeper'[q].at \in ActiveAt => presenter'.thread = q
            BY <1>1, <1>3, <1>4, <1>5 DEF ThreadIsLast
      <2>2. \A q \in Runs : sweeper'[q].at = "begin" => presenter'.plan # NoPlan
            BY <1>1, <1>2, <1>3, <1>4 DEF ThreadIsLast
      <2>3. \A q \in Runs : q > spent'.runs => sweeper'[q].at = "none"
            BY <1>1, <1>2, <1>3, <1>5 DEF ThreadIsLast, Runs
      <2>4. presenter'.thread = spent'.runs /\ spent'.runs \in Runs /\ sweeper'[spent'.runs].at \in ActiveAt
            BY <1>2, <1>4, <1>5
      <2>5. presenter'.event \in {0, presenter'.thread}
            BY <1>1, <1>4 DEF ThreadIsLast
      <2> QED BY <2>1, <2>2, <2>3, <2>4, <2>5 DEF ThreadIsLast
<1>9. StatusIsTold' BY <1>4, <1>5, <1>6 DEF StatusIsTold
<1> QED BY <1>2, <1>3, <1>4, <1>7, <1>8, <1>9 DEF SweepInv

-----------------------------------------------------------------------------
(* The ends of a run: what it publishes is told of the last run only.      *)
LEMMA PublishRunKeeps ==
  ASSUME SweepInv, NEW r \in Runs, PublishRun(r)
  PROVE SweepInv'
<1> DEFINE w == sweeper[r]
           w2 == sweeper'[r]
           e == engine[r]
<1>1. /\ presenter \in PresenterType /\ spent \in SpentType /\ RunsTyped
      /\ RunsFit /\ PlanIsOne /\ ThreadIsLast /\ StatusIsTold
      /\ IsRun(w) /\ e \in EngineType /\ RunFits(w, e)
      BY DEF SweepInv, RunsTyped, RunsFit
<1>2. /\ w.at = "publish" /\ GoesTo(r, "disconnect") /\ presenter' = Published(r, 0)
      /\ engine' = engine /\ spent' = spent
      BY DEF PublishRun
<1>3. w.outcome \in Outcomes /\ (w.touched => ToldOf(w))
      /\ (w.outcome = "COMPLETED" => ToldOf(w) /\ w.restored)
      BY <1>1, <1>2 DEF RunFits, AfterAt
<1>4. /\ sweeper' = [sweeper EXCEPT ![r] = w2]
      /\ SameBefore(w, w2) /\ w2.at = "disconnect" /\ w2.touched = w.touched
      BY <1>1, <1>2, GoesToDoes
<1>5. engine' = [engine EXCEPT ![r] = engine'[r]] /\ engine'[r] = e
      BY <1>1, <1>2, SameEngine
<1> HIDE DEF w2
<1>6. IsRun(w2) /\ (ToldOf(w) => ToldOf(w2))
      BY <1>1, <1>4 DEF IsRun, SameBefore, ToldOf
<1>7. RunFits(w2, e)
      BY <1>1, <1>2, <1>3, <1>4, <1>6 DEF RunFits, SameBefore, LoopAt, AfterAt
<1>8. RunStep(r) BY <1>1, <1>4, <1>5, <1>6, <1>7 DEF RunStep, OneRun, w2
<1>9. RunsTyped' /\ RunsFit' /\ \A q \in Runs : q # r => sweeper'[q] = sweeper[q]
      BY <1>1, <1>8, RunStepKeeps
<1>10. r \in Nat /\ r # 0 /\ presenter.thread = r /\ spent.runs = r
       BY <1>1, <1>2 DEF ThreadIsLast, ActiveAt, Runs
<1> DEFINE frame2 == IF Stitched(r) THEN r ELSE presenter.frame
           result2 == IF Stitched(r) THEN r ELSE 0
           status2 == IF Stitched(r) THEN w.outcome ELSE "FAILED"
<1>11. presenter' = [presenter EXCEPT !.frame = frame2, !.result = result2, !.status = status2,
                                      !.thread = 0, !.event = 0]
       BY <1>2 DEF Published
<1>12. frame2 \in Nat /\ result2 \in Nat /\ status2 \in Outcomes
       BY <1>1, <1>3, <1>10 DEF PresenterType, Outcomes
<1>13. status2 = "COMPLETED" => w.outcome = "COMPLETED" /\ frame2 = r /\ result2 = r
       OBVIOUS
<1> HIDE DEF frame2, result2, status2
<1>14. /\ presenter' \in PresenterType /\ presenter'.thread = 0 /\ presenter'.event = 0
       /\ presenter'.plan = presenter.plan /\ presenter'.status = status2
       /\ presenter'.frame = frame2 /\ presenter'.result = result2
       BY <1>1, <1>11, <1>12 DEF PresenterType
<1>15. PlanIsOne' BY <1>1, <1>14 DEF PlanIsOne
<1>16. ThreadIsLast'
       <2>1. \A q \in Runs : sweeper'[q].at \notin ActiveAt
             <3> TAKE q \in Runs
             <3>1. CASE q = r BY <1>4, <3>1 DEF w2, ActiveAt
             <3>2. CASE q # r BY <1>1, <1>9, <1>10, <3>2 DEF ThreadIsLast
             <3> QED BY <3>1, <3>2
       <2>2. \A q \in Runs : q > spent'.runs => sweeper'[q].at = "none"
             BY <1>1, <1>2, <1>9, <1>10 DEF ThreadIsLast, Runs
       <2> QED BY <1>14, <2>1, <2>2 DEF ThreadIsLast, ActiveAt
<1>17. StatusIsTold'
       <2>1. status2 \notin Active BY <1>12 DEF Outcomes, Active
       <2>2. ASSUME status2 = "COMPLETED"
             PROVE /\ presenter'.result = r /\ presenter'.frame = r
                   /\ w2.restored /\ w2.outcome = "COMPLETED" /\ w2.at = "disconnect" /\ ToldOf(w2)
             BY <1>3, <1>4, <1>6, <1>13, <1>14, <2>2 DEF SameBefore
       <2> QED BY <1>2, <1>10, <1>14, <2>1, <2>2 DEF StatusIsTold, w2
<1> QED BY <1>1, <1>2, <1>9, <1>14, <1>15, <1>16, <1>17 DEF SweepInv

LEMMA DisconnectKeeps ==
  ASSUME SweepInv, NEW r \in Runs, Disconnect(r)
  PROVE SweepInv'
<1> DEFINE w == sweeper[r]
           w2 == sweeper'[r]
           e == engine[r]
           e2 == [e EXCEPT !.state = "none"]
<1>1. /\ presenter \in PresenterType /\ spent \in SpentType /\ RunsTyped
      /\ RunsFit /\ PlanIsOne /\ ThreadIsLast /\ StatusIsTold
      /\ IsRun(w) /\ e \in EngineType /\ RunFits(w, e)
      BY DEF SweepInv, RunsTyped, RunsFit
<1>2. /\ w.at = "disconnect" /\ GoesTo(r, "ended") /\ engine' = [engine EXCEPT ![r].state = "none"]
      /\ presenter' = presenter /\ spent' = spent
      BY DEF Disconnect
<1>3. engine' = [engine EXCEPT ![r] = e2] BY <1>1, <1>2 DEF RunsTyped
<1>4. /\ sweeper' = [sweeper EXCEPT ![r] = w2]
      /\ SameBefore(w, w2) /\ w2.at = "ended" /\ w2.touched = w.touched
      BY <1>1, <1>2, GoesToDoes
<1>5. e2 \in EngineType /\ e2.state = "none" /\ e2.tuned = e.tuned
      BY <1>1 DEF EngineType
<1> HIDE DEF w2, e2
<1>6. engine' = [engine EXCEPT ![r] = engine'[r]] /\ engine'[r] = e2
      BY <1>1, <1>3, NewEngine
<1>7. IsRun(w2) /\ (ToldOf(w) => ToldOf(w2))
      BY <1>1, <1>4 DEF IsRun, SameBefore, ToldOf
<1>8. RunFits(w2, e2)
      BY <1>1, <1>2, <1>4, <1>5, <1>7 DEF RunFits, SameBefore, LoopAt, AfterAt
<1>9. RunStep(r) BY <1>1, <1>4, <1>5, <1>6, <1>7, <1>8 DEF RunStep, OneRun, w2
<1>10. RunsTyped' /\ RunsFit' /\ \A q \in Runs : q # r => sweeper'[q] = sweeper[q]
       BY <1>1, <1>9, RunStepKeeps
<1>11. w2 = sweeper'[r] BY DEF w2
<1>12. PlanIsOne' BY <1>1, <1>2 DEF PlanIsOne
<1>13. ThreadIsLast'
       <2>1. \A q \in Runs : /\ sweeper'[q].at \in ActiveAt => q # r /\ sweeper[q].at = sweeper'[q].at
                             /\ sweeper'[q].at = "begin" => q # r /\ sweeper[q].at = sweeper'[q].at
             BY <1>4, <1>10, <1>11 DEF ActiveAt
       <2>2. \A q \in Runs : q > spent.runs => q # r
             BY <1>1, <1>2 DEF ThreadIsLast
       <2>3. ~(r = spent.runs /\ presenter.thread # 0)
             BY <1>1, <1>2 DEF ThreadIsLast, ActiveAt
       <2> QED BY <1>1, <1>2, <1>10, <2>1, <2>2, <2>3 DEF ThreadIsLast
<1>14. StatusIsTold'
       <2>1. ASSUME presenter.status = "COMPLETED"
             PROVE LET v == sweeper'[presenter.result]
                   IN /\ v.restored /\ v.outcome = "COMPLETED" /\ v.at \in {"disconnect", "ended"}
                      /\ ToldOf(v)
             <3>1. CASE presenter.result = r
                   BY <1>1, <1>4, <1>7, <1>11, <2>1, <3>1 DEF StatusIsTold, SameBefore
             <3>2. CASE presenter.result # r
                   BY <1>1, <1>10, <2>1, <3>2 DEF StatusIsTold
             <3> QED BY <3>1, <3>2
       <2> QED BY <1>1, <1>2, <2>1 DEF StatusIsTold
<1> QED BY <1>1, <1>2, <1>10, <1>12, <1>13, <1>14 DEF SweepInv

LEMMA StreamFailsKeeps ==
  ASSUME SweepInv, NEW r \in Runs, StreamFails(r)
  PROVE SweepInv'
<1> DEFINE w == sweeper[r]
           e == engine[r]
           e2 == [e EXCEPT !.state = "ERROR"]
<1>1. /\ presenter \in PresenterType /\ spent \in SpentType /\ RunsTyped
      /\ RunsFit /\ PlanIsOne /\ ThreadIsLast /\ StatusIsTold
      /\ IsRun(w) /\ e \in EngineType /\ RunFits(w, e)
      BY DEF SweepInv, RunsTyped, RunsFit
<1>2. /\ e.state = "RUNNING" /\ SweepFault /\ engine' = [engine EXCEPT ![r].state = "ERROR"]
      /\ presenter' = presenter /\ sweeper' = sweeper
      BY DEF StreamFails
<1>3. engine' = [engine EXCEPT ![r] = e2] BY <1>1, <1>2 DEF RunsTyped
<1>4. e2 \in EngineType /\ e2.state = "ERROR" BY <1>1 DEF EngineType
<1> HIDE DEF e2
<1>5. engine' = [engine EXCEPT ![r] = engine'[r]] /\ engine'[r] = e2
      BY <1>1, <1>3, NewEngine
<1>6. RunFits(w, e2) BY <1>1, <1>2, <1>4 DEF RunFits
<1>7. sweeper' = [sweeper EXCEPT ![r] = sweeper'[r]] /\ sweeper'[r] = w
      BY <1>1, <1>2 DEF RunsTyped
<1>8. RunStep(r) BY <1>1, <1>4, <1>5, <1>6, <1>7 DEF RunStep, OneRun
<1>9. RunsTyped' /\ RunsFit' BY <1>1, <1>8, RunStepKeeps
<1>10. spent' \in SpentType /\ spent'.runs = spent.runs
       BY <1>1, <1>2, FaultOnlyCounts
<1> QED BY <1>1, <1>2, <1>9, <1>10 DEF SweepInv, PlanIsOne, ThreadIsLast, StatusIsTold

-----------------------------------------------------------------------------
(* The window.                                                             *)
LEMMA NobodyRuns ==
  ASSUME SweepInv, ~IsRunning
  PROVE presenter.thread = 0 /\ \A r \in Runs : sweeper[r].at \notin ActiveAt
<1>1. ThreadIsLast BY DEF SweepInv
<1>2. presenter.thread = 0
      <2>1. ASSUME presenter.thread # 0 PROVE FALSE
            BY <1>1, <2>1 DEF ThreadIsLast, IsRunning, RunAlive, ActiveAt
      <2> QED BY <2>1
<1>3. ASSUME NEW r \in Runs PROVE sweeper[r].at \notin ActiveAt
      BY <1>1, <1>2 DEF ThreadIsLast, Runs
<1> QED BY <1>2, <1>3

LEMMA PlanClickedKeeps ==
  ASSUME SweepInv, NEW c \in Configs, PlanClicked(c)
  PROVE SweepInv'
<1>1. /\ presenter \in PresenterType /\ spent \in SpentType /\ RunsTyped
      /\ RunsFit /\ PlanIsOne /\ ThreadIsLast /\ StatusIsTold
      BY DEF SweepInv
<1>2. presenter.thread = 0 /\ \A r \in Runs : sweeper[r].at \notin ActiveAt
      BY NobodyRuns DEF PlanClicked
<1>3. sweeper' = sweeper /\ engine' = engine BY DEF PlanClicked
<1>4. spent' \in SpentType /\ spent'.runs = spent.runs
      BY <1>1 DEF PlanClicked, SpentType
<1>5. /\ presenter' \in PresenterType
      /\ presenter'.thread = presenter.thread /\ presenter'.event = presenter.event
      /\ presenter'.result = presenter.result /\ presenter'.frame = presenter.frame
      /\ presenter'.status \in {presenter.status, "PLANNED"}
      /\ presenter'.plan = NoPlan \/ (presenter'.plan = <<c>> /\ Plans[c] # NoPlan)
      <2>1. CASE Plans[c] # NoPlan
            <3>1. presenter' = [presenter EXCEPT !.plan = <<c>>, !.status = "PLANNED"]
                  BY <2>1 DEF PlanClicked
            <3>2. <<c>> \in Seq(Configs) OBVIOUS
            <3> QED BY <1>1, <2>1, <3>1, <3>2 DEF PresenterType
      <2>2. CASE Plans[c] = NoPlan
            <3>1. presenter' = [presenter EXCEPT !.plan = NoPlan]
                  BY <2>2 DEF PlanClicked
            <3>2. NoPlan \in Seq(Configs) BY DEF NoPlan
            <3> QED BY <1>1, <3>1, <3>2 DEF PresenterType
      <2> QED BY <2>1, <2>2
<1>6. PlanIsOne' BY <1>5 DEF PlanIsOne
<1>7. ThreadIsLast' BY <1>1, <1>2, <1>3, <1>4, <1>5 DEF ThreadIsLast, ActiveAt
<1>8. StatusIsTold'
      <2>1. CASE presenter'.status = "PLANNED" BY <2>1 DEF StatusIsTold, Active
      <2>2. CASE presenter'.status = presenter.status
            BY <1>1, <1>3, <1>4, <1>5, <2>2 DEF StatusIsTold
      <2> QED BY <1>5, <2>1, <2>2
<1> QED BY <1>1, <1>3, <1>4, <1>5, <1>6, <1>7, <1>8 DEF SweepInv, RunsTyped, RunsFit

LEMMA RunClickedKeeps ==
  ASSUME MaxRuns \in Nat, SweepInv, RunClicked
  PROVE SweepInv'
<1> DEFINE r == spent.runs + 1
           w == sweeper[r]
           w2 == [w EXCEPT !.at = "begin"]
           e == engine[r]
<1>1. /\ presenter \in PresenterType /\ spent \in SpentType /\ RunsTyped
      /\ RunsFit /\ PlanIsOne /\ ThreadIsLast /\ StatusIsTold
      BY DEF SweepInv
<1>2. presenter.thread = 0 /\ \A q \in Runs : sweeper[q].at \notin ActiveAt
      BY NobodyRuns DEF RunClicked
<1>3. /\ presenter' = [presenter EXCEPT !.event = r, !.thread = r, !.status = "RUNNING"]
      /\ sweeper' = [sweeper EXCEPT ![r].at = "begin"] /\ engine' = engine
      /\ presenter.plan # NoPlan /\ spent.runs < MaxRuns /\ spent' = [spent EXCEPT !.runs = r]
      BY DEF RunClicked
<1>4. spent.runs \in Nat /\ spent' \in SpentType /\ spent'.runs = r
      BY <1>1, <1>3 DEF SpentType
<1> HIDE DEF r
<1>5. r \in Runs /\ r \in Nat /\ r # 0 /\ r > spent.runs /\ r = spent.runs + 1
      BY <1>3, <1>4 DEF Runs, r
<1>6. w.at = "none" /\ IsRun(w) /\ e \in EngineType /\ RunFits(w, e)
      BY <1>1, <1>5 DEF ThreadIsLast, RunsTyped, RunsFit
<1>7. sweeper' = [sweeper EXCEPT ![r] = w2] BY <1>1, <1>3, <1>5 DEF RunsTyped
<1>8. SameBefore(w, w2) /\ w2.at = "begin" /\ w2.started = w.started /\ w2.touched = w.touched
      BY <1>6, AtSet DEF IsRun
<1> HIDE DEF w2
<1>9. IsRun(w2) /\ RunFits(w2, e)
      BY <1>6, <1>8 DEF IsRun, RunFits, SameBefore, LoopAt, AfterAt
<1>10. sweeper' = [sweeper EXCEPT ![r] = sweeper'[r]] /\ sweeper'[r] = w2
       BY <1>1, <1>5, <1>7, NewRun
<1>11. engine' = [engine EXCEPT ![r] = engine'[r]] /\ engine'[r] = e
       BY <1>1, <1>3, <1>5, SameEngine
<1>12. RunStep(r) BY <1>6, <1>9, <1>10, <1>11 DEF RunStep, OneRun
<1>13. RunsTyped' /\ RunsFit' /\ \A q \in Runs : q # r => sweeper'[q] = sweeper[q]
       BY <1>1, <1>5, <1>12, RunStepKeeps
<1>14. /\ presenter' \in PresenterType /\ presenter'.plan = presenter.plan
       /\ presenter'.thread = r /\ presenter'.event = r /\ presenter'.status = "RUNNING"
       BY <1>1, <1>3, <1>5 DEF PresenterType, Active
<1>15. PlanIsOne' BY <1>1, <1>14 DEF PlanIsOne
<1>16. ThreadIsLast'
       <2>1. \A q \in Runs : sweeper'[q].at \in ActiveAt => presenter'.thread = q
             BY <1>2, <1>13, <1>14
       <2>2. presenter'.plan # NoPlan BY <1>3, <1>14
       <2>3. \A q \in Runs : q > spent'.runs => sweeper'[q].at = "none"
             <3> TAKE q \in Runs
             <3> HAVE q > spent'.runs
             <3>1. q # r /\ q > spent.runs BY <1>4, <1>5 DEF Runs
             <3> QED BY <1>1, <1>13, <3>1 DEF ThreadIsLast
       <2>4. sweeper'[spent'.runs].at \in ActiveAt
             BY <1>4, <1>8, <1>10 DEF ActiveAt
       <2> QED BY <1>4, <1>5, <1>14, <2>1, <2>2, <2>3, <2>4 DEF ThreadIsLast
<1>17. StatusIsTold' BY <1>5, <1>14 DEF StatusIsTold
<1> QED BY <1>4, <1>13, <1>14, <1>15, <1>16, <1>17 DEF SweepInv

(* A cancel changes nothing but the status of a run that goes on.          *)
LEMMA CancelKeeps ==
  ASSUME SweepInv, Cancel, sweeper' = sweeper, engine' = engine, spent' = spent
  PROVE SweepInv'
<1>1. /\ presenter \in PresenterType /\ spent \in SpentType /\ RunsTyped
      /\ RunsFit /\ PlanIsOne /\ ThreadIsLast /\ StatusIsTold
      BY DEF SweepInv
<1>2. CASE presenter.event = 0
      <2>1. presenter' = presenter BY <1>2 DEF Cancel
      <2> QED BY <1>1, <2>1 DEF SweepInv, RunsTyped, RunsFit, PlanIsOne, ThreadIsLast, StatusIsTold
<1>3. CASE presenter.event # 0
      <2>1. presenter' = [presenter EXCEPT !.status = "CANCELLING"]
            BY <1>3 DEF Cancel
      <2>2. /\ presenter' \in PresenterType /\ presenter'.plan = presenter.plan
            /\ presenter'.thread = presenter.thread /\ presenter'.event = presenter.event
            /\ presenter'.status = "CANCELLING"
            BY <1>1, <2>1 DEF PresenterType, Active
      <2>3. presenter.thread # 0 BY <1>1, <1>3 DEF ThreadIsLast
      <2>4. StatusIsTold' BY <2>2, <2>3 DEF StatusIsTold
      <2> QED BY <1>1, <2>2, <2>4 DEF SweepInv, RunsTyped, RunsFit, PlanIsOne, ThreadIsLast
<1> QED BY <1>2, <1>3

LEMMA CloseEndsKeeps ==
  ASSUME SweepInv, CloseEnds
  PROVE SweepInv'
<1>1. /\ presenter \in PresenterType /\ spent \in SpentType /\ RunsTyped
      /\ RunsFit /\ PlanIsOne /\ ThreadIsLast /\ StatusIsTold
      BY DEF SweepInv
<1>2. sweeper' = sweeper /\ engine' = engine /\ spent' = spent BY DEF CloseEnds
<1>3. CASE RunAlive(presenter.thread)
      <2>1. presenter' = [presenter EXCEPT !.status = "FAILED"]
            BY <1>3 DEF CloseEnds
      <2>2. /\ presenter' \in PresenterType /\ presenter'.plan = presenter.plan
            /\ presenter'.thread = presenter.thread /\ presenter'.event = presenter.event
            /\ presenter'.status = "FAILED"
            BY <1>1, <2>1 DEF PresenterType, Outcomes
      <2>3. StatusIsTold' BY <2>2 DEF StatusIsTold, Active
      <2> QED BY <1>1, <1>2, <2>2, <2>3 DEF SweepInv, RunsTyped, RunsFit, PlanIsOne, ThreadIsLast
<1>4. CASE ~RunAlive(presenter.thread)
      <2>1. presenter.thread = 0
            BY <1>1, <1>4 DEF ThreadIsLast, RunAlive, ActiveAt
      <2>2. \A q \in Runs : sweeper[q].at \notin ActiveAt
            BY <1>1, <2>1 DEF ThreadIsLast, Runs
      <2>3. presenter' = [presenter EXCEPT !.thread = 0, !.event = 0, !.plan = NoPlan]
            BY <1>4 DEF CloseEnds
      <2>4. NoPlan \in Seq(Configs) BY DEF NoPlan
      <2>5. /\ presenter' \in PresenterType /\ presenter'.plan = NoPlan
            /\ presenter'.thread = 0 /\ presenter'.event = 0
            /\ presenter'.status = presenter.status
            /\ presenter'.result = presenter.result /\ presenter'.frame = presenter.frame
            BY <1>1, <2>3, <2>4 DEF PresenterType
      <2>6. PlanIsOne' /\ StatusIsTold'
            BY <1>1, <1>2, <2>1, <2>5 DEF PlanIsOne, StatusIsTold
      <2>7. ThreadIsLast' BY <1>1, <1>2, <2>2, <2>5 DEF ThreadIsLast, ActiveAt
      <2> QED BY <1>1, <1>2, <2>5, <2>6, <2>7 DEF SweepInv, RunsTyped, RunsFit
<1> QED BY <1>3, <1>4

-----------------------------------------------------------------------------
LEMMA SweepBegins ==
  ASSUME MaxRuns \in Nat, SweepInit
  PROVE SweepInv
<1> DEFINE w == [at |-> "none", total |-> 0, seg |-> 1, results |-> <<>>, started |-> FALSE,
                 touched |-> FALSE, restored |-> FALSE, outcome |-> "none"]
           e == [state |-> "none", generation |-> 0, tuned |-> 0]
<1>1. sweeper = [r \in Runs |-> w] /\ engine = [r \in Runs |-> e]
      BY DEF SweepInit
<1>2. <<>> \in Seq(RunResults) /\ NoPlan \in Seq(Configs) BY DEF NoPlan
<1>3. /\ w = [f \in RunFields |-> w[f]] /\ w.at = "none" /\ w.total = 0 /\ w.seg = 1
      /\ w.results = <<>> /\ ~w.started /\ ~w.touched /\ ~w.restored
      BY DEF RunFields
<1>4. e \in EngineType BY DEF EngineType
<1> HIDE DEF w, e
<1>a. IsRun(w)
      <2> DEFINE none == <<>>
      <2>1. none \in Seq(RunResults) OBVIOUS
      <2>2. w.results = none BY <1>3
      <2> HIDE DEF none
      <2>3. w.results \in Seq(RunResults) BY <2>1, <2>2
      <2> QED BY <1>3, <2>3 DEF IsRun
<1>5. RunFits(w, e) BY <1>3 DEF RunFits, LoopAt, AfterAt
<1>6. RunsTyped /\ RunsFit BY <1>1, <1>4, <1>5, <1>a DEF RunsTyped, RunsFit
<1>7. presenter \in PresenterType /\ presenter.plan = NoPlan /\ presenter.thread = 0
      /\ presenter.event = 0 /\ presenter.status = "IDLE"
      BY <1>2 DEF SweepInit, PresenterType
<1>8. spent \in SpentType /\ spent.runs = 0 BY DEF SweepInit, SpentType
<1>9. PlanIsOne /\ StatusIsTold BY <1>7 DEF PlanIsOne, StatusIsTold, Active
<1>10. ThreadIsLast BY <1>1, <1>3, <1>7 DEF ThreadIsLast, ActiveAt
<1> QED BY <1>6, <1>7, <1>8, <1>9, <1>10 DEF SweepInv

LEMMA SweepSteps ==
  ASSUME SweepInputsFit, MaxRuns \in Nat, SweepInv, [SweepNext]_sweepVars
  PROVE SweepInv'
<1>1. CASE UNCHANGED sweepVars
      BY <1>1 DEF sweepVars, SweepInv, RunsTyped, RunsFit, PlanIsOne, ThreadIsLast, StatusIsTold
<1>2. ASSUME NEW c \in Configs, PlanClicked(c) PROVE SweepInv'
      BY <1>2, PlanClickedKeeps
<1>3. CASE RunClicked BY <1>3, RunClickedKeeps
<1>4. CASE CancelClicked BY <1>4, CancelKeeps DEF CancelClicked
<1>5. CASE CloseBegins BY <1>5, CancelKeeps DEF CloseBegins
<1>6. CASE CloseEnds BY <1>6, CloseEndsKeeps
<1>7. ASSUME NEW r \in Runs, StreamFails(r) PROVE SweepInv'
      BY <1>7, StreamFailsKeeps
<1>8. ASSUME NEW r \in Runs, SweepWorker(r) PROVE SweepInv'
      <2>1. CASE Begin(r)
            <3>1. sweeper[r].at \in ActiveAt BY <2>1 DEF Begin, ActiveAt
            <3> QED BY <2>1, <3>1, BeginWorks, WorksOnKeeps
      <2>2. CASE NextSegment(r)
            <3>1. sweeper[r].at \in ActiveAt BY <2>2 DEF NextSegment, ActiveAt
            <3> QED BY <2>2, <3>1, NextSegmentWorks, WorksOnKeeps
      <2>3. CASE Notify(r)
            <3>1. sweeper[r].at \in ActiveAt BY <2>3 DEF Notify, ActiveAt
            <3> QED BY <2>3, <3>1, NotifyWorks, WorksOnKeeps
      <2>4. CASE Retune(r)
            <3>1. sweeper[r].at \in ActiveAt BY <2>4 DEF Retune, ActiveAt
            <3> QED BY <2>4, <3>1, RetuneWorks, WorksOnKeeps
      <2>5. CASE StartStream(r)
            <3>1. sweeper[r].at \in ActiveAt BY <2>5 DEF StartStream, ActiveAt
            <3> QED BY <2>5, <3>1, StartStreamWorks, WorksOnKeeps
      <2>6. CASE Capture(r)
            <3>1. sweeper[r].at \in ActiveAt BY <2>6 DEF Capture, ActiveAt
            <3> QED BY <2>6, <3>1, CaptureWorks, WorksOnKeeps
      <2>7. CASE Restore(r)
            <3>1. sweeper[r].at \in ActiveAt BY <2>7 DEF Restore, ActiveAt
            <3> QED BY <2>7, <3>1, RestoreWorksOn, WorksOnKeeps
      <2>8. CASE PublishRun(r) BY <2>8, PublishRunKeeps
      <2>9. CASE Disconnect(r) BY <2>9, DisconnectKeeps
      <2> QED BY <1>8, <2>1, <2>2, <2>3, <2>4, <2>5, <2>6, <2>7, <2>8, <2>9 DEF SweepWorker
<1> QED BY <1>1, <1>2, <1>3, <1>4, <1>5, <1>6, <1>7, <1>8 DEF SweepNext

(* The invariant gives each part of the property.                          *)
LEMMA SweepInvTells ==
  ASSUME SweepInputsFit, SweepInv
  PROVE SweepsAreTold
<1>1. /\ presenter \in PresenterType /\ spent \in SpentType /\ RunsTyped
      /\ RunsFit /\ PlanIsOne /\ ThreadIsLast /\ StatusIsTold
      BY DEF SweepInv
<1>2. PlanCoversTheBand
      <2>1. ASSUME NEW c \in {presenter.plan[i] : i \in DOMAIN presenter.plan}
            PROVE c \in Configs /\ Plans[c] = Segments(c) /\ CoversTheBand(c)
            <3>1. presenter.plan # NoPlan BY DEF NoPlan
            <3>2. PICK b \in Configs : presenter.plan = <<b>> /\ Plans[b] # NoPlan
                  BY <1>1, <3>1 DEF PlanIsOne
            <3>3. c = b BY <3>2
            <3>4. Plannable(b) /\ Plans[b] = Segments(b) BY <3>2 DEF Plans
            <3> QED BY <3>3, <3>4, PlanFits
      <2> QED BY <2>1 DEF PlanCoversTheBand, CoversTheBand
<1>3. ResultsFollowThePlan
      <2> SUFFICES ASSUME NEW r \in Runs, sweeper[r].at \in {"disconnect", "ended"}, sweeper[r].touched
                   PROVE LET res == sweeper[r].results
                             whole == Cardinality({i \in DOMAIN res : res[i].status = "COMPLETED"})
                         IN /\ Len(res) = sweeper[r].total
                            /\ \A i \in DOMAIN res : /\ i <= whole <=> res[i].status = "COMPLETED"
                                                     /\ i > whole + 1 => res[i].status = "MISSING"
            BY DEF ResultsFollowThePlan
      <2> DEFINE res == sweeper[r].results
                 S == {i \in DOMAIN res : res[i].status = "COMPLETED"}
      <2>1. ToldOf(sweeper[r]) /\ res \in Seq(RunResults)
            BY <1>1 DEF RunsTyped, IsRun, RunsFit, RunFits, AfterAt
      <2>2. Len(res) = sweeper[r].total /\ InOrderOf(res) BY <2>1 DEF ToldOf
      <2> HIDE DEF res
      <2>3. PICK k \in 0..Len(res) : \A i \in 1..Len(res) :
               /\ (i <= k <=> res[i].status = "COMPLETED")
               /\ (i > k + 1 => res[i].status = "MISSING")
            BY <2>2 DEF InOrderOf
      <2>4. S = 1..k /\ k \in Nat BY <2>1, <2>3
      <2>5. Cardinality(1..k) = k BY <2>4, FS_Interval
      <2> HIDE DEF S
      <2>6. Cardinality(S) = k BY <2>4, <2>5
      <2>7. \A i \in DOMAIN res : /\ (i <= k <=> res[i].status = "COMPLETED")
                                  /\ (i > k + 1 => res[i].status = "MISSING")
            BY <2>1, <2>3
      <2> QED BY <2>2, <2>6, <2>7 DEF S, res
<1>4. RestoredIsRestored BY <1>1 DEF RestoredIsRestored, RunsFit, RunFits
<1>5. CompletedSweepIsWhole
      BY <1>1 DEF CompletedSweepIsWhole, StatusIsTold, ToldOf, AreCompleted
<1>6. StatusHasAWorker
      BY <1>1 DEF StatusHasAWorker, StatusIsTold, ThreadIsLast, RunAlive, ActiveAt
<1> QED BY <1>2, <1>3, <1>4, <1>5, <1>6 DEF SweepsAreTold

(* For every configuration that can be entered, and any number of runs,    *)
(* plans and faults: what the window is told of a sweep is true, whether it*)
(* goes on, is completed, cancelled or fails, and its plan covers the band *)
(* without a gap or a spare segment.                                       *)
THEOREM SweepsAreToldCorrect ==
  ASSUME SweepInputsFit, MaxRuns \in Nat
  PROVE SweepSpec => []SweepsAreTold
<1>1. SweepInit => SweepInv BY SweepBegins
<1>2. SweepInv /\ [SweepNext]_sweepVars => SweepInv' BY SweepSteps
<1>3. SweepInv => SweepsAreTold BY SweepInvTells
<1> QED BY <1>1, <1>2, <1>3, PTL DEF SweepSpec
=============================================================================
