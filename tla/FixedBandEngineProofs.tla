------------------------ MODULE FixedBandEngineProofs ------------------------
(***************************************************************************)
(* Theorems about FixedBandEngine, for every set of callers, every queue   *)
(* capacity and policy and any number of blocks, configurations and        *)
(* faults: what the engine says of itself is true (StateIsTrue), its       *)
(* disconnect is terminal (DisconnectIsTerminal), every block is accounted *)
(* for (BlocksConserved) and a refused one is marked (RefusalIsMarked).    *)
(*                                                                         *)
(* The proofs do not enumerate the scripts of the threads.  They rest on   *)
(* which step may come after which, and look at no more of a script than   *)
(* its first step and the set of the steps in it.                          *)
(***************************************************************************)
EXTENDS FixedBandEngine, QueueLemmas

ClosingSteps == {"stopToken", "cancel", "closeQueue"}
HoldingSteps == {"apply", "startStream", "announce", "release", "abortStart", "joinWorkers"}
FrontSteps == ClosingSteps \cup HoldingSteps \cup {"forceJoin"}
FinalSteps == {"shutdown", "shutdownJoin", "settled", "sweep", "finalize", "forceJoin"}
CallerSteps ==
  FrontSteps \cup FinalSteps
    \cup {"configure", "start", "requestStop", "join", "raiseFlag", "pollEvents", "pollSpectrum"}
FailingSteps == {"emitFailure", "markError"}
LoopSteps ==
  {"check", "refill", "push", "countDrop", "countStopped", "pop", "process", "flush"}
WorkerSteps == LoopSteps \cup FailingSteps \cup ClosingSteps
AllSteps == CallerSteps \cup WorkerSteps

StepsOf(t) == IF t \in Workers THEN WorkerSteps ELSE CallerSteps

-----------------------------------------------------------------------------
(* Scripts                                                                 *)

(* Step b may come after step a, sooner or later.                          *)
MayFollow(a, b) ==
  /\ b \in FrontSteps => a \in ClosingSteps \cup FailingSteps
  /\ b = "settled" => a \in FrontSteps \cup {"requestStop", "join", "shutdownJoin"}
  /\ b \in FailingSteps => a = "emitFailure"
  /\ b \notin LoopSteps \cup {"raiseFlag"}
  /\ a # "finalize"

(* Step b may come right after step a.                                     *)
MayBeNext(a, b) ==
  /\ b = "finalize" => a \in {"settled", "shutdown"}
  /\ b = "settled" => a \in {"shutdownJoin", "join", "joinWorkers", "forceJoin"}
  /\ b \in {"cancel", "closeQueue"} => a \in ClosingSteps

Elements(s) == {s[i] : i \in 1..Len(s)}

(* What closes down, in a caller, ends with one of these.                  *)
EndsOfClosing == {"release", "abortStart", "forceJoin"}

(* What thread t may have left to do.                                      *)
Proper(t, s) ==
  /\ s \in Seq(AllSteps)
  /\ Elements(s) \subseteq StepsOf(t)
  /\ \A i, j \in 1..Len(s) : i < j => MayFollow(s[i], s[j])
  /\ \A i \in 1..(Len(s) - 1) : MayBeNext(s[i], s[i + 1])
  /\ t \in Callers /\ Elements(s) \cap ClosingSteps # {} => Elements(s) \cap EndsOfClosing # {}

Scripted ==
  /\ script \in [Threads -> Seq(AllSteps)]
  /\ \A t \in Threads : Proper(t, script[t])

(* The next step of a thread and all it has yet to do.                     *)
First(s) == IF s = <<>> THEN "idle" ELSE s[1]
Step(t) == First(script[t])
Todo(t) == Elements(script[t])

-----------------------------------------------------------------------------
(* The invariant                                                           *)

InSession == {"Running", "Stopping", "Error"}
Frames == [generation : Nat, dropped : Nat, missing : Int]
Counts == [received : Nat, transient : Nat, dropped : Nat, shutdown : Nat]
Devices == [connected : BOOLEAN, configured : BOOLEAN, streaming : BOOLEAN, cancelled : BOOLEAN]

TypeOK ==
  /\ state \in States /\ disconnecting \in BOOLEAN /\ lock \in Callers \cup {"free"}
  /\ stop \in BOOLEAN /\ device \in Devices /\ generation \in Nat
  /\ acq \in QueueRecords(Nat) /\ spectrum \in QueueRecords(Frames)
  /\ "hasError" \in DOMAIN diag /\ diag.hasError \in BOOLEAN
  /\ count \in Counts /\ transientLeft \in Nat
  /\ hand \in [Workers -> Nat] /\ latest \in Seq(Frames)
  /\ overflowed \in BOOLEAN /\ dirty \in BOOLEAN

Idle == \A w \in Workers : Step(w) = "idle"

(* Who has a step to take that needs the lock has the lock.                *)
Locking == \A c \in Callers : Todo(c) \cap HoldingSteps # {} => lock = c

(* What the holder of the lock saw is still so, and workers run in a       *)
(* session of a connected device only.                                     *)
Sessions ==
  /\ ~Idle => state \in InSession /\ device.connected
  /\ \A c \in Callers :
       /\ "apply" \in Todo(c) => state \in Configurable /\ device.connected
       /\ "startStream" \in Todo(c) => state = "Configured" /\ device.connected
       /\ "abortStart" \in Todo(c) => state \in InSession /\ dirty

(* Nobody configures or starts any more.                                   *)
NoMoreSessions ==
  /\ disconnecting
  /\ \A c \in Callers : Todo(c) \cap {"apply", "startStream"} = {}

(* Caller c has swept up what its disconnect() had overtaken.              *)
Late(c) == "finalize" \in Todo(c) /\ "sweep" \notin Todo(c)

Disconnecting ==
  /\ \A c \in Callers :
       /\ Todo(c) \cap FinalSteps # {} /\ "raiseFlag" \notin Todo(c) => disconnecting
       /\ "forceJoin" \in Todo(c) => NoMoreSessions
       /\ Late(c) => NoMoreSessions /\ state # "Running"
       /\ Late(c) /\ Step(c) \in {"settled", "finalize"} => Idle
  /\ ~device.connected => NoMoreSessions /\ state = "Stopped" /\ Idle

(* The device is cancelled, and a queue stopped, after the token is set.   *)
Stops ==
  /\ \A t \in Threads : Step(t) \in {"cancel", "closeQueue"} => stop
  /\ device.cancelled => stop

(* An error has a cause, and a cause is an error or about to be one.       *)
Errors ==
  /\ state = "Error" => diag.hasError
  /\ diag.hasError \/ state = "Error" => dirty
  /\ \A w \in Workers : Step(w) \in FailingSteps => dirty
  /\ dirty => \/ diag.hasError
              \/ \E w \in Workers : Step(w) = "emitFailure"
              \/ \E c \in Callers : "abortStart" \in Todo(c)

Pending == Step("dsp") # "idle" /\ latest # <<>>

Refusing == acq.policy \in {"Block", "DropNewest"}

(* A frame is of this configuration and marked with the loss before it.    *)
True(frame) ==
  /\ frame.generation = generation
  /\ Refusing => frame.missing <= frame.dropped

FramesAreTrue ==
  /\ \A i \in 1..Len(spectrum.items) : True(spectrum.items[i])
  /\ Pending => True(latest[1])

(* The block in acquisition_run that is in no queue or counter yet.        *)
Between == IF Step("acquisition") \in {"push", "countDrop", "countStopped"} THEN 1 ELSE 0

Conserved ==
  /\ device.connected =>
       count.received = count.transient + count.dropped + acq.popped + Len(acq.items) + Between
  /\ Len(acq.items) <= acq.capacity

(* Of the blocks ahead of one in the queue, or in the hand of dsp_run, all *)
(* that are missing have been counted.                                     *)
Marked ==
  /\ Step("acquisition") = "push" => hand["acquisition"] = count.received
  /\ Refusing =>
       /\ \A i \in 1..Len(acq.items) :
            acq.items[i] - i - count.transient - acq.popped <= count.dropped
       /\ Step("dsp") = "process" =>
            hand["dsp"] - count.transient - acq.popped <= count.dropped

IInv ==
  /\ TypeOK /\ Scripted /\ Locking /\ Sessions /\ Disconnecting /\ Stops /\ Errors
  /\ FramesAreTrue /\ Conserved /\ Marked

-----------------------------------------------------------------------------
(* Lemmas about scripts                                                    *)

(* Who takes which steps; no name stands for two kinds of step.            *)
LEMMA StepNames ==
  /\ \A t \in Threads : StepsOf(t) \subseteq AllSteps
  /\ \A c \in Callers : c \in Threads /\ c \notin Workers /\ StepsOf(c) = CallerSteps
  /\ \A w \in Workers : w \in Threads /\ w \notin Callers /\ StepsOf(w) = WorkerSteps
  /\ "idle" \notin AllSteps
  /\ CallerSteps \cap (LoopSteps \cup FailingSteps) = {}
  /\ FrontSteps \cap (LoopSteps \cup FailingSteps) = {}
<1>1. \A c \in Callers : c \notin Workers BY CallersAssumption DEF Workers
<1>2. /\ "idle" \notin AllSteps
      /\ CallerSteps \cap (LoopSteps \cup FailingSteps) = {}
      /\ FrontSteps \cap (LoopSteps \cup FailingSteps) = {}
  BY DEF AllSteps, CallerSteps, WorkerSteps, FrontSteps, FinalSteps, LoopSteps, FailingSteps,
         ClosingSteps, HoldingSteps
<1>3. \A t : StepsOf(t) \subseteq AllSteps BY DEF StepsOf, AllSteps
<1> QED BY <1>1, <1>2, <1>3 DEF StepsOf, Threads

LEMMA EmptyScript ==
  ASSUME NEW t \in Threads
  PROVE  Proper(t, <<>>) /\ First(<<>>) = "idle" /\ Elements(<<>>) = {}
<1>1. Elements(<<>>) = {} BY DEF Elements
<1> QED BY <1>1 DEF Proper, First

(* The first step of a script is a step of its thread.                     *)
LEMMA FirstStep ==
  ASSUME NEW t \in Threads, NEW s, Proper(t, s)
  PROVE  /\ Len(s) \in Nat /\ (s # <<>> <=> Len(s) # 0)
         /\ s # <<>> => First(s) = s[1] /\ First(s) \in Elements(s)
         /\ First(s) = "idle" <=> s = <<>>
         /\ Elements(s) = {} <=> s = <<>>
<1>1. /\ Len(s) \in Nat
      /\ s # <<>> => Len(s) \in Nat \ {0}
  BY EmptySeq, LenProperties DEF Proper
<1>2. s # <<>> => s[1] \in Elements(s) BY <1>1 DEF Elements
<1>3. "idle" \notin Elements(s) BY StepNames DEF Proper
<1>4. Elements(<<>>) = {} /\ First(<<>>) = "idle" /\ Len(<<>>) = 0
  BY DEF Elements, First
<1> QED BY <1>1, <1>2, <1>3, <1>4 DEF First

(* Without its first step, a script is one still.                          *)
LEMMA RestOfScript ==
  ASSUME NEW t \in Threads, NEW s, Proper(t, s), s # <<>>
  PROVE  /\ Proper(t, Tail(s))
         /\ Elements(s) = {s[1]} \cup Elements(Tail(s))
         /\ \A b \in Elements(Tail(s)) : MayFollow(s[1], b)
         /\ MayBeNext(s[1], First(Tail(s)))
<1>1. /\ s \in Seq(AllSteps) /\ Len(s) \in Nat \ {0} /\ Tail(s) \in Seq(AllSteps)
      /\ Len(Tail(s)) = Len(s) - 1
      /\ \A i \in 1..Len(Tail(s)) : Tail(s)[i] = s[i + 1]
  BY FirstStep, HeadTailProperties DEF Proper
<1>2. Elements(s) = {s[1]} \cup Elements(Tail(s))
  <2>1. \A i \in 1..Len(s) : i = 1 \/ (i - 1 \in 1..Len(Tail(s)) /\ Tail(s)[i - 1] = s[i])
    BY <1>1
  <2>2. \A i \in 1..Len(Tail(s)) : i + 1 \in 1..Len(s) BY <1>1
  <2>3. 1 \in 1..Len(s) BY <1>1
  <2> QED BY <1>1, <2>1, <2>2, <2>3 DEF Elements
<1>3. \A b \in Elements(Tail(s)) : MayFollow(s[1], b)
  <2> SUFFICES ASSUME NEW i \in 1..Len(Tail(s)) PROVE MayFollow(s[1], Tail(s)[i])
    BY DEF Elements
  <2>1. i + 1 \in 1..Len(s) /\ 1 \in 1..Len(s) /\ 1 < i + 1 BY <1>1
  <2> QED BY <1>1, <2>1 DEF Proper
<1>4. MayBeNext(s[1], First(Tail(s)))
  <2>1. CASE Tail(s) = <<>> BY <2>1 DEF First, MayBeNext
  <2>2. CASE Tail(s) # <<>>
    <3>1. 1 \in 1..(Len(s) - 1) BY <1>1, <2>2, EmptySeq
    <3>2. First(Tail(s)) = s[2] BY <1>1, <2>2, <3>1 DEF First
    <3> QED BY <3>1, <3>2 DEF Proper
  <2> QED BY <2>1, <2>2
<1>5. \A i, j \in 1..Len(Tail(s)) : i < j => MayFollow(Tail(s)[i], Tail(s)[j])
  <2> SUFFICES ASSUME NEW i \in 1..Len(Tail(s)), NEW j \in 1..Len(Tail(s)), i < j
               PROVE  MayFollow(Tail(s)[i], Tail(s)[j])
    OBVIOUS
  <2>1. i + 1 \in 1..Len(s) /\ j + 1 \in 1..Len(s) /\ i + 1 < j + 1 BY <1>1
  <2> QED BY <1>1, <2>1 DEF Proper
<1>6. \A i \in 1..(Len(Tail(s)) - 1) : MayBeNext(Tail(s)[i], Tail(s)[i + 1])
  <2> SUFFICES ASSUME NEW i \in 1..(Len(Tail(s)) - 1)
               PROVE  MayBeNext(Tail(s)[i], Tail(s)[i + 1])
    OBVIOUS
  <2>1. i + 1 \in 1..(Len(s) - 1) /\ i \in 1..Len(Tail(s)) /\ i + 1 \in 1..Len(Tail(s))
    BY <1>1
  <2> QED BY <1>1, <2>1 DEF Proper
<1>7. t \in Callers /\ Elements(Tail(s)) \cap ClosingSteps # {}
        => Elements(Tail(s)) \cap EndsOfClosing # {}
  <2> SUFFICES ASSUME t \in Callers, NEW b \in Elements(Tail(s)), b \in ClosingSteps
               PROVE  Elements(Tail(s)) \cap EndsOfClosing # {}
    OBVIOUS
  <2>1. s[1] \in ClosingSteps \cup FailingSteps
    BY <1>3 DEF MayFollow, FrontSteps
  <2>2. s[1] \notin EndsOfClosing
    BY <2>1 DEF ClosingSteps, FailingSteps, EndsOfClosing
  <2>3. Elements(s) \cap EndsOfClosing # {} BY <1>2 DEF Proper
  <2> QED BY <1>2, <2>2, <2>3
<1> QED BY <1>1, <1>2, <1>3, <1>4, <1>5, <1>6, <1>7 DEF Proper

(* One more step at the front.                                             *)
LEMMA Prepended ==
  ASSUME NEW t \in Threads, NEW x \in StepsOf(t), NEW r, Proper(t, r),
         \A b \in Elements(r) : MayFollow(x, b), MayBeNext(x, First(r)),
         t \in Callers /\ x \in ClosingSteps => Elements(r) \cap EndsOfClosing # {}
  PROVE  /\ Proper(t, <<x>> \o r) /\ First(<<x>> \o r) = x
         /\ Elements(<<x>> \o r) = {x} \cup Elements(r)
<1> DEFINE s == <<x>> \o r
<1>1. x \in AllSteps /\ r \in Seq(AllSteps) /\ Len(r) \in Nat
  BY StepNames, FirstStep DEF Proper
<1>2. <<x>> \in Seq(AllSteps) /\ Len(<<x>>) = 1 /\ <<x>>[1] = x BY <1>1
<1>3. /\ s \in Seq(AllSteps) /\ Len(s) = 1 + Len(r)
      /\ \A i \in 1..(1 + Len(r)) : s[i] = IF i <= 1 THEN <<x>>[i] ELSE r[i - 1]
  BY <1>1, <1>2, ConcatProperties
<1> HIDE DEF s
<1>4. /\ s[1] = x
      /\ \A i \in 1..Len(r) : s[i + 1] = r[i]
  <2>1. s[1] = x BY <1>1, <1>2, <1>3
  <2>2. \A i \in 1..Len(r) : i + 1 \in 1..(1 + Len(r)) /\ ~(i + 1 <= 1) /\ i + 1 - 1 = i
    BY <1>1
  <2>3. \A i \in 1..Len(r) : s[i + 1] = r[i] BY <1>3, <2>2
  <2> QED BY <2>1, <2>3
<1>5. \A i \in 1..Len(s) : i = 1 \/ \E j \in 1..Len(r) : i = j + 1
  <2> SUFFICES ASSUME NEW i \in 1..Len(s), i # 1 PROVE \E j \in 1..Len(r) : i = j + 1
    OBVIOUS
  <2>1. i - 1 \in 1..Len(r) /\ i = (i - 1) + 1 BY <1>1, <1>3
  <2> QED BY <2>1
<1>6. Elements(s) = {x} \cup Elements(r)
  <2>1. \A i \in 1..Len(r) : i + 1 \in 1..Len(s) BY <1>1, <1>3
  <2>2. 1 \in 1..Len(s) BY <1>1, <1>3
  <2> QED BY <1>4, <1>5, <2>1, <2>2 DEF Elements
<1>7. First(s) = x /\ s # <<>> BY <1>1, <1>3, <1>4 DEF First
<1>8. \A i, j \in 1..Len(s) : i < j => MayFollow(s[i], s[j])
  <2> SUFFICES ASSUME NEW i \in 1..Len(s), NEW j \in 1..Len(s), i < j
               PROVE  MayFollow(s[i], s[j])
    OBVIOUS
  <2>1. PICK k \in 1..Len(r) : j = k + 1
    BY <1>5, <1>1
  <2>2. s[j] = r[k] /\ r[k] \in Elements(r) BY <1>4, <2>1 DEF Elements
  <2>3. CASE i = 1 BY <1>4, <2>2, <2>3
  <2>4. CASE i # 1
    <3>1. PICK h \in 1..Len(r) : i = h + 1
      BY <1>5, <2>4
    <3>2. s[i] = r[h] /\ h < k BY <1>1, <1>4, <2>1, <3>1
    <3> QED BY <2>2, <3>2 DEF Proper
  <2> QED BY <2>3, <2>4
<1>9. \A i \in 1..(Len(s) - 1) : MayBeNext(s[i], s[i + 1])
  <2> SUFFICES ASSUME NEW i \in 1..(Len(s) - 1) PROVE MayBeNext(s[i], s[i + 1])
    OBVIOUS
  <2>1. i \in 1..Len(r) /\ s[i + 1] = r[i] /\ i \in 1..Len(s) /\ r # <<>>
    BY <1>1, <1>3, <1>4
  <2>2. CASE i = 1 BY <1>4, <2>1, <2>2 DEF First
  <2>3. CASE i # 1
    <3>1. PICK h \in 1..Len(r) : i = h + 1
      BY <1>5, <2>1, <2>3
    <3>2. s[i] = r[h] /\ h \in 1..(Len(r) - 1) /\ r[i] = r[h + 1]
      BY <1>1, <1>4, <2>1, <3>1
    <3> QED BY <2>1, <3>2 DEF Proper
  <2> QED BY <2>2, <2>3
<1>10. Elements(s) \subseteq StepsOf(t) BY <1>6 DEF Proper
<1>11. t \in Callers /\ Elements(s) \cap ClosingSteps # {} => Elements(s) \cap EndsOfClosing # {}
  BY <1>6 DEF Proper
<1>12. Proper(t, s) BY <1>3, <1>8, <1>9, <1>10, <1>11 DEF Proper
<1> QED BY <1>6, <1>7, <1>12 DEF s

LEMMA OneStepScript ==
  ASSUME NEW t \in Threads, NEW x \in StepsOf(t), t \in Callers => x \notin ClosingSteps
  PROVE  Proper(t, <<x>>) /\ First(<<x>>) = x /\ Elements(<<x>>) = {x}
<1> DEFINE r == <<>>
<1>1. <<x>> \o r = <<x>>
  <2>1. x \in AllSteps BY StepNames
  <2>2. <<x>> \in Seq(AllSteps) BY <2>1
  <2> QED BY <2>2, ConcatEmptySeq
<1>2. MayBeNext(x, "idle") BY DEF MayBeNext
<1>3. Proper(t, r) /\ First(r) = "idle" /\ Elements(r) = {} BY EmptyScript
<1> HIDE DEF r
<1>4. /\ Proper(t, <<x>> \o r) /\ First(<<x>> \o r) = x
      /\ Elements(<<x>> \o r) = {x} \cup Elements(r)
  BY <1>2, <1>3, Prepended
<1> QED BY <1>1, <1>3, <1>4

(* Sequences written out, as concatenations.                               *)
LEMMA WrittenOut ==
  ASSUME NEW x \in AllSteps, NEW y \in AllSteps, NEW z \in AllSteps
  PROVE  /\ <<x>> \o <<y>> = <<x, y>>
         /\ <<x>> \o <<y, z>> = <<x, y, z>>
<1>1. /\ <<x>> \in Seq(AllSteps) /\ Len(<<x>>) = 1 /\ <<x>>[1] = x
      /\ <<y>> \in Seq(AllSteps) /\ Len(<<y>>) = 1 /\ <<y>>[1] = y
      /\ <<x, y>> \in Seq(AllSteps) /\ Len(<<x, y>>) = 2 /\ <<x, y>>[1] = x /\ <<x, y>>[2] = y
  OBVIOUS
<1>2. /\ <<y, z>> \in Seq(AllSteps) /\ Len(<<y, z>>) = 2 /\ <<y, z>>[1] = y /\ <<y, z>>[2] = z
      /\ <<x, y, z>> \in Seq(AllSteps) /\ Len(<<x, y, z>>) = 3
      /\ <<x, y, z>>[1] = x /\ <<x, y, z>>[2] = y /\ <<x, y, z>>[3] = z
  OBVIOUS
<1> DEFINE a == <<x>>
           b == <<y>>
           d == <<y, z>>
           e == <<x, y>>
           f == <<x, y, z>>
<1> HIDE DEF a, b, d, e, f
<1>3. a \o b = e
  <2>1. /\ a \in Seq(AllSteps) /\ Len(a) = 1 /\ a[1] = x
        /\ b \in Seq(AllSteps) /\ Len(b) = 1 /\ b[1] = y
        /\ e \in Seq(AllSteps) /\ Len(e) = 2 /\ e[1] = x /\ e[2] = y
    BY <1>1 DEF a, b, e
  <2>2. /\ a \o b \in Seq(AllSteps) /\ Len(a \o b) = 2
        /\ \A i \in 1..2 : (a \o b)[i] = IF i <= 1 THEN a[i] ELSE b[i - 1]
    BY <2>1, ConcatProperties
  <2>3. \A i \in 1..2 : (a \o b)[i] = e[i] BY <2>1, <2>2
  <2> QED BY <2>1, <2>2, <2>3, SeqEqual
<1>4. a \o d = f
  <2>1. /\ a \in Seq(AllSteps) /\ Len(a) = 1 /\ a[1] = x
        /\ d \in Seq(AllSteps) /\ Len(d) = 2 /\ d[1] = y /\ d[2] = z
        /\ f \in Seq(AllSteps) /\ Len(f) = 3 /\ f[1] = x /\ f[2] = y /\ f[3] = z
    BY <1>1, <1>2 DEF a, d, f
  <2> Len(a) + Len(d) = 3
    BY <2>1
  <2>2. /\ a \o d \in Seq(AllSteps) /\ Len(a \o d) = Len(a) + Len(d)
        /\ \A i \in 1..(Len(a) + Len(d)) :
             (a \o d)[i] = IF i <= Len(a) THEN a[i] ELSE d[i - Len(a)]
    BY <2>1, ConcatProperties
  <2>3. \A i \in 1..3 : (a \o d)[i] = f[i] BY <2>1, <2>2
  <2> QED BY <2>1, <2>2, <2>3, SeqEqual
<1> QED BY <1>3, <1>4 DEF a, b, d, e, f

(* A script whose first steps are written out.                             *)
LEMMA Unfolded ==
  ASSUME NEW x \in AllSteps, NEW y \in AllSteps, NEW r \in Seq(AllSteps)
  PROVE  /\ CloseDown \o <<x>> \o r
              = <<"stopToken">> \o (<<"cancel">> \o (<<"closeQueue">> \o (<<x>> \o r)))
         /\ CloseDown \o <<x>> = <<"stopToken">> \o (<<"cancel">> \o (<<"closeQueue">> \o <<x>>))
         /\ <<x, y>> \o r = <<x>> \o (<<y>> \o r)
         /\ <<x, y>> \o CloseDown
              = <<x>> \o (<<y>> \o (<<"stopToken">> \o (<<"cancel">> \o <<"closeQueue">>)))
         /\ <<x>> \o r \in Seq(AllSteps)
<1> DEFINE a == <<"stopToken">>
           b == <<"cancel">>
           d == <<"closeQueue">>
<1>1. /\ a \in Seq(AllSteps) /\ b \in Seq(AllSteps) /\ d \in Seq(AllSteps)
      /\ <<x>> \in Seq(AllSteps) /\ <<y>> \in Seq(AllSteps)
  <2>1. "stopToken" \in AllSteps /\ "cancel" \in AllSteps /\ "closeQueue" \in AllSteps
    BY DEF AllSteps, WorkerSteps, ClosingSteps
  <2> QED BY <2>1
<1>2. \A s1, s2 \in Seq(AllSteps) : s1 \o s2 \in Seq(AllSteps)
  BY ConcatProperties
<1>3. \A s1, s2, s3 \in Seq(AllSteps) : (s1 \o s2) \o s3 = s1 \o (s2 \o s3)
  BY ConcatAssociative
<1>4. CloseDown = a \o (b \o d) /\ <<x, y>> = <<x>> \o <<y>>
  <2> "stopToken" \in AllSteps /\ "cancel" \in AllSteps /\ "closeQueue" \in AllSteps
    BY DEF AllSteps, WorkerSteps, ClosingSteps
  <2>1. b \o d = <<"cancel", "closeQueue">> BY WrittenOut
  <2>2. a \o <<"cancel", "closeQueue">> = <<"stopToken", "cancel", "closeQueue">>
    BY WrittenOut
  <2>3. <<x, y>> = <<x>> \o <<y>> BY WrittenOut
  <2> QED BY <2>1, <2>2, <2>3 DEF CloseDown
<1>5. <<x>> \o r \in Seq(AllSteps) /\ d \o <<x>> \in Seq(AllSteps) /\ b \o d \in Seq(AllSteps)
  BY <1>1, <1>2
<1> HIDE DEF a, b, d
<1>6. CloseDown \o <<x>> = a \o (b \o (d \o <<x>>))
  <2>1. (a \o (b \o d)) \o <<x>> = a \o ((b \o d) \o <<x>>) BY <1>1, <1>3, <1>5
  <2>2. (b \o d) \o <<x>> = b \o (d \o <<x>>) BY <1>1, <1>3
  <2> QED BY <1>4, <2>1, <2>2
<1>7. (CloseDown \o <<x>>) \o r = a \o (b \o (d \o (<<x>> \o r)))
  <2> DEFINE e == d \o <<x>>
             f == b \o e
  <2>1. e \o r = d \o (<<x>> \o r) BY <1>1, <1>3
  <2>2. CloseDown \o <<x>> = a \o f BY <1>6
  <2>3. e \in Seq(AllSteps) BY <1>5
  <2> HIDE DEF e
  <2>4. f \o r = b \o (e \o r) BY <1>1, <1>3, <2>3
  <2>5. f \in Seq(AllSteps) BY <1>1, <1>2, <2>3
  <2> HIDE DEF f
  <2>6. (a \o f) \o r = a \o (f \o r) BY <1>1, <1>3, <2>5
  <2> QED BY <2>1, <2>2, <2>4, <2>6
<1>8. <<x, y>> \o r = <<x>> \o (<<y>> \o r) BY <1>1, <1>3, <1>4
<1>9. <<x, y>> \o CloseDown = <<x>> \o (<<y>> \o (a \o (b \o d)))
  <2>1. a \o (b \o d) \in Seq(AllSteps) BY <1>1, <1>2, <1>5
  <2>2. (<<x>> \o <<y>>) \o (a \o (b \o d)) = <<x>> \o (<<y>> \o (a \o (b \o d)))
    BY <1>1, <1>3, <2>1
  <2> QED BY <1>4, <2>2
<1> QED BY <1>5, <1>6, <1>7, <1>8, <1>9 DEF a, b, d

(* Closing down, one step to end with, and what is left of a call.         *)
LEMMA ClosesDownThen ==
  ASSUME NEW c \in Callers, NEW x \in EndsOfClosing, NEW r, Proper(c, r),
         Elements(r) \cap (FrontSteps \cup {"raiseFlag"}) = {}, MayBeNext(x, First(r))
  PROVE  /\ Proper(c, CloseDown \o <<x>> \o r) /\ First(CloseDown \o <<x>> \o r) = "stopToken"
         /\ Elements(CloseDown \o <<x>> \o r) = ClosingSteps \cup {x} \cup Elements(r)
<1>1. /\ c \in Threads /\ StepsOf(c) = CallerSteps
      /\ r \in Seq(AllSteps) /\ Elements(r) \subseteq CallerSteps
  BY StepNames DEF Proper
<1>2. /\ x \in FrontSteps /\ x \in CallerSteps /\ x \in AllSteps /\ x \notin ClosingSteps
      /\ ClosingSteps \subseteq CallerSteps
      /\ EndsOfClosing \subseteq FrontSteps /\ ClosingSteps \subseteq FrontSteps
      /\ FrontSteps \cap (LoopSteps \cup FailingSteps) = {} /\ "settled" \notin FrontSteps
      /\ "raiseFlag" \notin FrontSteps /\ "finalize" \notin FrontSteps
  BY StepNames DEF EndsOfClosing, FrontSteps, HoldingSteps, CallerSteps, AllSteps, ClosingSteps
<1>3. \A b \in CallerSteps \ {"raiseFlag"} :
        /\ \A a \in ClosingSteps : MayFollow(a, b)
        /\ b \notin FrontSteps => \A a \in FrontSteps : MayFollow(a, b)
  BY <1>2, StepNames DEF MayFollow
<1>4. \A a \in ClosingSteps : MayBeNext(a, x) /\ \A b \in ClosingSteps : MayBeNext(a, b)
  BY DEF MayBeNext, ClosingSteps, EndsOfClosing
<1> DEFINE r1 == <<x>> \o r
           r2 == <<"closeQueue">> \o r1
           r3 == <<"cancel">> \o r2
           r4 == <<"stopToken">> \o r3
<1>5. CloseDown \o <<x>> \o r = r4
  <2>1. x \in AllSteps /\ r \in Seq(AllSteps) BY <1>1, <1>2
  <2> QED BY <2>1, Unfolded
<1>6. Proper(c, r1) /\ First(r1) = x /\ Elements(r1) = {x} \cup Elements(r)
  BY <1>1, <1>2, <1>3, Prepended
<1>7. {"stopToken", "cancel", "closeQueue"} = ClosingSteps BY DEF ClosingSteps
<1> HIDE DEF r1
<1>8. /\ Elements(r1) \subseteq CallerSteps \ {"raiseFlag"}
      /\ Elements(r1) \cap EndsOfClosing # {}
  BY <1>1, <1>2, <1>6
<1>9. Proper(c, r2) /\ First(r2) = "closeQueue" /\ Elements(r2) = {"closeQueue"} \cup Elements(r1)
  BY <1>1, <1>2, <1>3, <1>4, <1>6, <1>7, <1>8, Prepended
<1> HIDE DEF r2
<1>10. Proper(c, r3) /\ First(r3) = "cancel" /\ Elements(r3) = {"cancel"} \cup Elements(r2)
  <2>1. /\ Elements(r2) \subseteq CallerSteps \ {"raiseFlag"}
        /\ Elements(r2) \cap EndsOfClosing # {}
    BY <1>2, <1>7, <1>8, <1>9
  <2> QED BY <1>1, <1>2, <1>3, <1>4, <1>7, <1>9, <2>1, Prepended
<1> HIDE DEF r3
<1>11. Proper(c, r4) /\ First(r4) = "stopToken" /\ Elements(r4) = {"stopToken"} \cup Elements(r3)
  <2>1. /\ Elements(r3) \subseteq CallerSteps \ {"raiseFlag"}
        /\ Elements(r3) \cap EndsOfClosing # {}
    BY <1>2, <1>7, <1>8, <1>9, <1>10
  <2> QED BY <1>1, <1>2, <1>3, <1>4, <1>7, <1>10, <2>1, Prepended
<1> HIDE DEF r4
<1>12. Elements(r4) = ClosingSteps \cup {x} \cup Elements(r)
  BY <1>6, <1>7, <1>9, <1>10, <1>11
<1> QED BY <1>5, <1>11, <1>12

LEMMA ClosesDownOnly ==
  ASSUME NEW c \in Callers
  PROVE  LET s == CloseDown \o <<"abortStart">>
         IN  Proper(c, s) /\ First(s) = "stopToken" /\ Elements(s) = ClosingSteps \cup {"abortStart"}
<1>1. c \in Threads /\ "abortStart" \in EndsOfClosing /\ "abortStart" \in AllSteps
  BY StepNames DEF EndsOfClosing, AllSteps, CallerSteps, FrontSteps, HoldingSteps
<1> DEFINE s == CloseDown \o <<"abortStart">>
           r == <<>>
<1>2. Proper(c, r) /\ First(r) = "idle" /\ Elements(r) = {}
  BY <1>1, EmptyScript
<1>3. MayBeNext("abortStart", "idle") BY DEF MayBeNext
<1> HIDE DEF r
<1>4. /\ Proper(c, s \o r) /\ First(s \o r) = "stopToken"
      /\ Elements(s \o r) = ClosingSteps \cup {"abortStart"}
  BY <1>1, <1>2, <1>3, ClosesDownThen
<1>5. s \in Seq(AllSteps)
  <2>1. <<"abortStart">> \in Seq(AllSteps) BY <1>1
  <2>2. "stopToken" \in AllSteps /\ "cancel" \in AllSteps /\ "closeQueue" \in AllSteps
    BY DEF AllSteps, WorkerSteps, ClosingSteps
  <2>3. CloseDown \in Seq(AllSteps) BY <2>2 DEF CloseDown
  <2> QED BY <2>1, <2>3, ConcatProperties
<1> HIDE DEF s
<1>6. s \o r = s BY <1>5, ConcatEmptySeq DEF r
<1> QED BY <1>4, <1>6 DEF s

(* The failure path of a worker.                                           *)
LEMMA WorkerFails ==
  ASSUME NEW w \in Workers
  PROVE  LET s == <<"emitFailure", "markError">> \o CloseDown
         IN  /\ Proper(w, s) /\ First(s) = "emitFailure"
<1>1. /\ w \in Threads /\ w \notin Callers /\ StepsOf(w) = WorkerSteps
      /\ ClosingSteps \cup FailingSteps \subseteq WorkerSteps /\ WorkerSteps \subseteq AllSteps
  BY StepNames DEF WorkerSteps, AllSteps
<1>2. /\ {"stopToken", "cancel", "closeQueue"} = ClosingSteps
      /\ {"emitFailure", "markError"} = FailingSteps
  BY DEF ClosingSteps, FailingSteps
<1>3. \A a \in ClosingSteps \cup FailingSteps : \A b \in ClosingSteps : MayFollow(a, b)
  BY DEF MayFollow, FrontSteps, ClosingSteps, LoopSteps, FailingSteps
<1>4. /\ \A a \in ClosingSteps : \A b \in ClosingSteps : MayBeNext(a, b)
      /\ MayBeNext("markError", "stopToken") /\ MayBeNext("emitFailure", "markError")
      /\ MayFollow("emitFailure", "markError")
  BY DEF MayBeNext, ClosingSteps, MayFollow, FrontSteps, FailingSteps, LoopSteps, HoldingSteps
<1> DEFINE r1 == <<"closeQueue">>
           r2 == <<"cancel">> \o r1
           r3 == <<"stopToken">> \o r2
           r4 == <<"markError">> \o r3
           r5 == <<"emitFailure">> \o r4
<1>5. Proper(w, r1) /\ First(r1) = "closeQueue" /\ Elements(r1) = {"closeQueue"}
  BY <1>1, <1>2, OneStepScript
<1>6. <<"emitFailure", "markError">> \o CloseDown = r5
  <2>1. /\ "emitFailure" \in AllSteps /\ "markError" \in AllSteps
        /\ r1 \in Seq(AllSteps)
    BY <1>1, <1>2, <1>5 DEF Proper
  <2> QED BY <2>1, Unfolded
<1> HIDE DEF r1
<1>7. Proper(w, r2) /\ First(r2) = "cancel" /\ Elements(r2) = {"cancel"} \cup Elements(r1)
  BY <1>1, <1>2, <1>3, <1>4, <1>5, Prepended
<1> HIDE DEF r2
<1>8. Proper(w, r3) /\ First(r3) = "stopToken" /\ Elements(r3) = {"stopToken"} \cup Elements(r2)
  BY <1>1, <1>2, <1>3, <1>4, <1>5, <1>7, Prepended
<1> HIDE DEF r3
<1>9. Elements(r3) = ClosingSteps BY <1>2, <1>5, <1>7, <1>8
<1>10. Proper(w, r4) /\ First(r4) = "markError" /\ Elements(r4) = {"markError"} \cup Elements(r3)
  BY <1>1, <1>2, <1>3, <1>4, <1>8, <1>9, Prepended
<1> HIDE DEF r4
<1>11. Proper(w, r5) /\ First(r5) = "emitFailure"
  BY <1>1, <1>2, <1>3, <1>4, <1>9, <1>10, Prepended
<1> QED BY <1>6, <1>11

(* An exception inside shutdown_noexcept() goes on where that one settles: *)
(* what is skipped is no sweep, and what is left closes nothing down.      *)
LEMMA Resumed ==
  ASSUME Scripted, NEW c \in Callers, script[c] # <<>>, Guarded(c)
  PROVE  /\ Proper(c, Resume(c)) /\ First(Resume(c)) = "settled"
         /\ Elements(Resume(c)) \subseteq Elements(Tail(script[c]))
         /\ "sweep" \in Todo(c) => "sweep" \in Elements(Resume(c))
         /\ "settled" \in Todo(c)
<1> DEFINE s == script[c]
           n == Len(s)
           i == CHOOSE j \in 2..Len(script[c]) : script[c][j] = "settled"
           r == SubSeq(s, i, n)
<1>1. /\ i \in 2..n /\ s[i] = "settled" /\ Resume(c) = r BY DEF Guarded, Resume
<1>2. /\ Proper(c, s) /\ c \in Threads /\ s \in Seq(AllSteps) /\ n \in Nat
      /\ \A k \in 1..n : s[k] \in AllSteps
  BY StepNames, FirstStep, ElementOfSeq DEF Scripted, Proper
<1> HIDE DEF s, n, i
<1>3. /\ r \in Seq(AllSteps) /\ Len(r) = n - i + 1
      /\ \A k \in 1..(n - i + 1) : r[k] = s[i + k - 1]
  <2>1. \A k \in i..n : s[k] \in AllSteps BY <1>1, <1>2
  <2>2. i \in Int /\ n \in Int /\ i <= n BY <1>1, <1>2
  <2> QED BY <2>1, <2>2, SubSeqProperties
<1> HIDE DEF r
<1>4. \A k \in 1..Len(r) : i + k - 1 \in 2..n /\ r[k] = s[i + k - 1]
  BY <1>1, <1>2, <1>3
<1>5. First(r) = "settled" /\ r # <<>>
  <2>1. Len(r) # 0 /\ 1 \in 1..(n - i + 1) /\ i + 1 - 1 = i BY <1>1, <1>2, <1>3
  <2> QED BY <1>1, <1>3, <2>1, EmptySeq DEF First
<1>6. /\ Len(Tail(s)) = n - 1 /\ \A k \in 1..Len(Tail(s)) : Tail(s)[k] = s[k + 1]
  <2>1. s # <<>> BY DEF s
  <2> QED BY <1>2, <2>1, HeadTailProperties DEF n
<1>7. Elements(r) \subseteq Elements(Tail(s))
  <2> SUFFICES ASSUME NEW k \in 1..Len(r) PROVE r[k] \in Elements(Tail(s))
    BY DEF Elements
  <2>1. i + k - 2 \in 1..Len(Tail(s)) /\ (i + k - 2) + 1 = i + k - 1
    BY <1>1, <1>2, <1>4, <1>6
  <2>2. Tail(s)[i + k - 2] = r[k] BY <1>4, <1>6, <2>1
  <2> QED BY <2>1, <2>2 DEF Elements
<1>8. "sweep" \in Elements(s) => "sweep" \in Elements(r)
  <2> SUFFICES ASSUME NEW k \in 1..n, s[k] = "sweep" PROVE "sweep" \in Elements(r)
    BY DEF Elements, n
  <2>1. ~(k < i)
    <3> SUFFICES ASSUME k < i PROVE FALSE
      OBVIOUS
    <3>1. i \in 1..n BY <1>1, <1>2
    <3>2. MayFollow("sweep", "settled") BY <1>1, <1>2, <3>1 DEF Proper, n
    <3> QED BY <3>2 DEF MayFollow, FrontSteps, ClosingSteps, HoldingSteps
  <2>2. k - i + 1 \in 1..Len(r) /\ i + (k - i + 1) - 1 = k
    BY <1>1, <1>2, <1>3, <2>1
  <2>3. r[k - i + 1] = "sweep" BY <1>4, <2>2
  <2> QED BY <2>2, <2>3 DEF Elements
<1>9. \A j, k \in 1..Len(r) : j < k => MayFollow(r[j], r[k])
  <2> SUFFICES ASSUME NEW j \in 1..Len(r), NEW k \in 1..Len(r), j < k
               PROVE  MayFollow(r[j], r[k])
    OBVIOUS
  <2>1. i + j - 1 \in 1..n /\ i + k - 1 \in 1..n /\ i + j - 1 < i + k - 1
    BY <1>1, <1>2, <1>4
  <2> QED BY <1>2, <1>4, <2>1 DEF Proper, n
<1>10. \A k \in 1..(Len(r) - 1) : MayBeNext(r[k], r[k + 1])
  <2> SUFFICES ASSUME NEW k \in 1..(Len(r) - 1) PROVE MayBeNext(r[k], r[k + 1])
    OBVIOUS
  <2>1. /\ k \in 1..Len(r) /\ k + 1 \in 1..Len(r)
        /\ i + k - 1 \in 1..(n - 1) /\ i + (k + 1) - 1 = (i + k - 1) + 1
    BY <1>1, <1>2, <1>3
  <2> QED BY <1>2, <1>4, <2>1 DEF Proper, n
<1>11. Elements(s) = {s[1]} \cup Elements(Tail(s)) /\ \A b \in Elements(Tail(s)) : MayFollow(s[1], b)
  BY <1>2, RestOfScript DEF s
<1>12. Elements(r) \cap ClosingSteps = {}
  <2>1. MayFollow(s[1], "settled")
    <3>1. 1 \in 1..n /\ i \in 1..n /\ 1 < i BY <1>1, <1>2
    <3> QED BY <1>1, <1>2, <3>1 DEF Proper, n
  <2> SUFFICES ASSUME NEW k \in 1..Len(r), r[k] \in ClosingSteps PROVE FALSE
    BY DEF Elements
  <2>2. 1 < k
    <3>1. r[1] = "settled" BY <1>5 DEF First
    <3>2. k # 1 BY <3>1 DEF ClosingSteps
    <3> QED BY <3>2
  <2>3. MayFollow("settled", r[k])
    <3>1. r[1] = "settled" /\ 1 \in 1..Len(r) BY <1>5, <2>2 DEF First
    <3> QED BY <1>9, <2>2, <3>1
  <2> QED BY <2>3 DEF MayFollow, FrontSteps, ClosingSteps, FailingSteps
<1>13. Elements(r) \subseteq StepsOf(c) BY <1>2, <1>7, <1>11 DEF Proper
<1>14. Proper(c, r) BY <1>3, <1>9, <1>10, <1>12, <1>13 DEF Proper
<1>15. "settled" \in Elements(s)
  <2>1. i \in 1..n BY <1>1, <1>2
  <2> QED BY <1>1, <2>1 DEF Elements, n
<1> QED BY <1>1, <1>5, <1>7, <1>8, <1>14, <1>15 DEF s, Todo

-----------------------------------------------------------------------------
(* How each action moves its thread                                        *)

(* Thread t comes to step x with the steps S to do; the others stay.       *)
Moves(t, x, S) ==
  /\ Step(t)' = x /\ Todo(t)' = S
  /\ \A u \in Threads : u # t => Step(u)' = Step(u) /\ Todo(u)' = Todo(u)

(* What a thread has to do after its next step.                            *)
Later(t) == Elements(Rest(t))
NextStep(t) == First(Rest(t))

LEMMA IsAt ==
  ASSUME Scripted, NEW t \in Threads, NEW x \in AllSteps
  PROVE  /\ At(t, x) <=> Step(t) = x
         /\ Step(t) = x =>
              /\ script[t] # <<>> /\ script[t][1] = x /\ x \in StepsOf(t)
              /\ Todo(t) = {x} \cup Later(t)
              /\ Proper(t, Rest(t))
              /\ \A b \in Later(t) : MayFollow(x, b)
              /\ MayBeNext(x, NextStep(t))
         /\ script[t] = <<>> <=> Step(t) = "idle"
         /\ script[t] = <<>> <=> Todo(t) = {}
<1>1. Proper(t, script[t]) BY DEF Scripted
<1>2. /\ script[t] # <<>> => Step(t) = script[t][1] /\ Step(t) \in Todo(t)
      /\ Step(t) = "idle" <=> script[t] = <<>>
      /\ Todo(t) = {} <=> script[t] = <<>>
  BY <1>1, FirstStep DEF Step, Todo
<1>3. x # "idle" BY StepNames
<1>4. Step(t) = x => script[t] # <<>> /\ script[t][1] = x /\ x \in StepsOf(t)
  BY <1>1, <1>2, <1>3 DEF Proper, Todo
<1>5. script[t] # <<>> =>
        /\ Todo(t) = {script[t][1]} \cup Later(t)
        /\ Proper(t, Rest(t))
        /\ \A b \in Later(t) : MayFollow(script[t][1], b)
        /\ MayBeNext(script[t][1], NextStep(t))
  BY <1>1, RestOfScript DEF Todo, Later, NextStep, Rest
<1> QED BY <1>2, <1>3, <1>4, <1>5 DEF At

LEMMA Goes ==
  ASSUME Scripted, NEW t \in Threads, NEW s, Proper(t, s), Goto(t, s)
  PROVE  Scripted' /\ Moves(t, First(s), Elements(s))
<1>1. /\ script'[t] = s /\ script' \in [Threads -> Seq(AllSteps)]
      /\ \A u \in Threads : u # t => script'[u] = script[u]
  BY DEF Scripted, Goto, Proper
<1>2. Scripted' BY <1>1 DEF Scripted
<1> QED BY <1>1, <1>2 DEF Moves, Step, Todo

LEMMA Advances ==
  ASSUME Scripted, NEW t \in Threads, Step(t) \in AllSteps, Advance(t)
  PROVE  Scripted' /\ Moves(t, NextStep(t), Later(t))
<1>1. Proper(t, Rest(t)) BY IsAt
<1>2. Goto(t, Rest(t)) BY DEF Advance
<1> QED BY <1>1, <1>2, Goes DEF NextStep, Later

LEMMA Throws ==
  ASSUME Scripted, NEW t \in Threads, Throw(t)
  PROVE  Scripted' /\ Moves(t, "idle", {})
<1> DEFINE e == <<>>
<1>1. Proper(t, e) /\ First(e) = "idle" /\ Elements(e) = {} BY EmptyScript
<1>2. Goto(t, e) BY DEF Throw
<1> HIDE DEF e
<1> QED BY <1>1, <1>2, Goes

(* What a caller at step x has left of its call, if x closes nothing down. *)
LEMMA CallerRest ==
  ASSUME Scripted, NEW c \in Callers, NEW x \in CallerSteps \ ClosingSteps, Step(c) = x
  PROVE  /\ c \in Threads /\ Proper(c, Rest(c)) /\ Todo(c) = {x} \cup Later(c)
         /\ Later(c) \subseteq CallerSteps \ (FrontSteps \cup {"raiseFlag"})
         /\ x \notin {"requestStop", "join", "shutdownJoin"} \cup FrontSteps
              => "settled" \notin Later(c)
         /\ NextStep(c) = "finalize" => x \in {"settled", "shutdown"}
         /\ NextStep(c) = "settled" =>
              x \in {"shutdownJoin", "join", "joinWorkers", "forceJoin"}
         /\ NextStep(c) = "idle" \/ NextStep(c) \in Later(c)
         /\ x = "finalize" => Later(c) = {}
<1>1. c \in Threads /\ x \in AllSteps /\ StepsOf(c) = CallerSteps
  BY StepNames DEF AllSteps
<1>2. /\ Proper(c, Rest(c)) /\ Todo(c) = {x} \cup Later(c)
      /\ \A b \in Later(c) : MayFollow(x, b)
      /\ MayBeNext(x, NextStep(c))
  BY <1>1, IsAt
<1>3. x \notin FailingSteps \cup ClosingSteps BY StepNames
<1>4. Later(c) \subseteq CallerSteps BY <1>1, <1>2 DEF Proper, Later
<1>5. \A b \in Later(c) : b \notin FrontSteps /\ b # "raiseFlag"
  BY <1>2, <1>3 DEF MayFollow
<1>6. "settled" \in Later(c) => x \in {"requestStop", "join", "shutdownJoin"} \cup FrontSteps
  BY <1>2 DEF MayFollow
<1>7. NextStep(c) = "idle" \/ NextStep(c) \in Later(c)
  BY <1>1, <1>2, FirstStep DEF NextStep, Later
<1>8. /\ NextStep(c) = "finalize" => x \in {"settled", "shutdown"}
      /\ NextStep(c) = "settled" =>
           x \in {"shutdownJoin", "join", "joinWorkers", "forceJoin"}
  BY <1>2 DEF MayBeNext
<1>9. x = "finalize" => Later(c) = {} BY <1>2 DEF MayFollow
<1> QED BY <1>1, <1>2, <1>4, <1>5, <1>6, <1>7, <1>8, <1>9

(* ... with one or two steps put before it.                                *)
LEMMA RestPrepended ==
  ASSUME Scripted, NEW c \in Callers, NEW x \in CallerSteps \ ClosingSteps, Step(c) = x,
         NEW y \in CallerSteps \ ClosingSteps, y # "finalize", MayBeNext(y, NextStep(c)),
         "settled" \in Later(c) => y \in FrontSteps \cup {"requestStop", "join", "shutdownJoin"}
  PROVE  /\ Proper(c, <<y>> \o Rest(c)) /\ First(<<y>> \o Rest(c)) = y
         /\ Elements(<<y>> \o Rest(c)) = {y} \cup Later(c)
<1>1. /\ c \in Threads /\ Proper(c, Rest(c)) /\ StepsOf(c) = CallerSteps
      /\ Later(c) \subseteq CallerSteps \ (FrontSteps \cup {"raiseFlag"})
  BY CallerRest, StepNames
<1>2. \A b \in Later(c) : MayFollow(y, b) BY <1>1, StepNames DEF MayFollow
<1> QED BY <1>1, <1>2, Prepended DEF NextStep, Later

LEMMA CallerNames ==
  /\ HoldingSteps \cup EndsOfClosing \cup FinalSteps \subseteq CallerSteps \ ClosingSteps
  /\ {"configure", "start", "requestStop", "join", "raiseFlag", "pollEvents", "pollSpectrum"}
       \subseteq CallerSteps \ (ClosingSteps \cup FrontSteps)
  /\ {"apply", "startStream", "announce", "release", "abortStart", "joinWorkers"} = HoldingSteps
  /\ {"shutdown", "shutdownJoin", "settled", "sweep", "finalize", "forceJoin"} = FinalSteps
  /\ {"release", "abortStart", "forceJoin"} = EndsOfClosing
  /\ {"stopToken", "cancel", "closeQueue"} = ClosingSteps
  /\ FrontSteps = ClosingSteps \cup HoldingSteps \cup {"forceJoin"}
  /\ CallerSteps \subseteq AllSteps /\ WorkerSteps \subseteq AllSteps
BY DEF CallerSteps, HoldingSteps, FinalSteps, EndsOfClosing, ClosingSteps, FrontSteps, AllSteps

(* Each caller action that goes on with what is left of its call, ...      *)
LEMMA CallerAdvances ==
  ASSUME Scripted, NEW c \in Callers
  PROVE  /\ Configure(c) => Step(c) = "apply" /\ Scripted' /\ Moves(c, NextStep(c), Later(c))
         /\ Announce(c) => Step(c) = "announce" /\ Scripted' /\ Moves(c, NextStep(c), Later(c))
         /\ Release(c) => Step(c) = "release" /\ Scripted' /\ Moves(c, NextStep(c), Later(c))
         /\ JoinWorkers(c) =>
              Step(c) = "joinWorkers" /\ Scripted' /\ Moves(c, NextStep(c), Later(c))
         /\ RaiseFlag(c) => Step(c) = "raiseFlag" /\ Scripted' /\ Moves(c, NextStep(c), Later(c))
         /\ ForceJoin(c) => Step(c) = "forceJoin" /\ Scripted' /\ Moves(c, NextStep(c), Later(c))
         /\ Settled(c) => Step(c) = "settled" /\ Scripted' /\ Moves(c, NextStep(c), Later(c))
         /\ Finalize(c) => Step(c) = "finalize" /\ Scripted' /\ Moves(c, NextStep(c), Later(c))
         /\ PollSpectrum(c) =>
              Step(c) = "pollSpectrum" /\ Scripted' /\ Moves(c, NextStep(c), Later(c))
         /\ PollEvents(c) =>
              Step(c) = "pollEvents" /\ Scripted' /\ Moves(c, NextStep(c), Later(c))
<1>1. \A x \in CallerSteps :
        At(c, x) /\ Advance(c) => Step(c) = x /\ Scripted' /\ Moves(c, NextStep(c), Later(c))
  BY IsAt, Advances, CallerNames, StepNames
<1>2. /\ {"apply", "announce", "release", "joinWorkers", "forceJoin", "settled", "finalize"}
           \subseteq CallerSteps
      /\ {"raiseFlag", "pollSpectrum", "pollEvents"} \subseteq CallerSteps
  BY CallerNames
<1> QED BY <1>1, <1>2 DEF Configure, Announce, Release, JoinWorkers, RaiseFlag, ForceJoin, Settled,
           Finalize, PollSpectrum, PollEvents

(* ... that leaves it by an exception, ...                                 *)
LEMMA CallerThrows ==
  ASSUME Scripted, NEW c \in Callers
  PROVE  /\ ConfigureThrows(c) => Step(c) = "configure" /\ Scripted' /\ Moves(c, "idle", {})
         /\ ConfigureDeviceFails(c) => Step(c) = "apply" /\ Scripted' /\ Moves(c, "idle", {})
         /\ StartRefused(c) => Step(c) = "start" /\ Scripted' /\ Moves(c, "idle", {})
         /\ StartDeviceFails(c) => Step(c) = "startStream" /\ Scripted' /\ Moves(c, "idle", {})
         /\ AbortStart(c) => Step(c) = "abortStart" /\ Scripted' /\ Moves(c, "idle", {})
<1>1. \A x \in CallerSteps : At(c, x) /\ Throw(c) => Step(c) = x /\ Scripted' /\ Moves(c, "idle", {})
  BY IsAt, Throws, CallerNames, StepNames
<1>2. {"configure", "apply", "start", "startStream", "abortStart"} \subseteq CallerSteps
  BY CallerNames
<1> QED BY <1>1, <1>2 DEF ConfigureThrows, ConfigureDeviceFails, StartRefused, StartDeviceFails,
           AbortStart

(* ... that holds the lock across its work, ...                            *)
LEMMA CallerPasses ==
  ASSUME Scripted, NEW c \in Callers
  PROVE  /\ ConfigurePasses(c) =>
              Step(c) = "configure" /\ Scripted' /\ Moves(c, "apply", {"apply"} \cup Later(c))
         /\ StartPasses(c) =>
              Step(c) = "start" /\ Scripted' /\ Moves(c, "startStream", {"startStream"} \cup Later(c))
<1>1. ASSUME NEW x \in {"configure", "start"}, NEW y \in HoldingSteps,
             At(c, x), Goto(c, <<y>> \o Rest(c))
      PROVE  Step(c) = x /\ Scripted' /\ Moves(c, y, {y} \cup Later(c))
  <2>1. /\ c \in Threads /\ x \in AllSteps /\ x \in CallerSteps \ (ClosingSteps \cup FrontSteps)
        /\ y \in CallerSteps \ ClosingSteps /\ y # "finalize"
    BY CallerNames, StepNames
  <2>2. Step(c) = x BY <1>1, <2>1, IsAt
  <2>3. /\ "settled" \notin Later(c)
        /\ NextStep(c) \notin {"settled", "finalize"}
        /\ NextStep(c) = "idle" \/ NextStep(c) \notin ClosingSteps
    <3>1. /\ x \notin {"requestStop", "join", "shutdownJoin"} \cup FrontSteps
          /\ x \notin {"settled", "shutdown", "shutdownJoin", "join", "joinWorkers", "forceJoin"}
      BY <2>1
    <3>2. /\ "settled" \notin Later(c) /\ NextStep(c) \notin {"settled", "finalize"}
          /\ NextStep(c) = "idle" \/ NextStep(c) \in Later(c)
          /\ Later(c) \cap FrontSteps = {}
      BY <2>1, <2>2, <3>1, CallerRest
    <3> QED BY <3>2, CallerNames
  <2>4. MayBeNext(y, NextStep(c)) BY <2>3 DEF MayBeNext, ClosingSteps
  <2>5. /\ Proper(c, <<y>> \o Rest(c)) /\ First(<<y>> \o Rest(c)) = y
        /\ Elements(<<y>> \o Rest(c)) = {y} \cup Later(c)
    BY <2>1, <2>2, <2>3, <2>4, RestPrepended
  <2> QED BY <1>1, <2>1, <2>2, <2>5, Goes
<1>2. {"apply", "startStream"} \subseteq HoldingSteps BY CallerNames
<1> QED BY <1>1, <1>2 DEF ConfigurePasses, StartPasses

(* ... that closes something down, or takes a call apart.                  *)
ClosesWith(c, x) ==
  Scripted' /\ Moves(c, "stopToken", ClosingSteps \cup {x} \cup Later(c))

LEMMA Forced ==
  ASSUME Scripted, NEW c \in Callers, Step(c) \in {"requestStop", "join"}, Fail(c)
  PROVE  /\ Scripted'
         /\ \/ Moves(c, "idle", {})
            \/ /\ "settled" \in Todo(c)
               /\ \E S \in SUBSET Later(c) :
                    /\ "sweep" \in Todo(c) => "sweep" \in S
                    /\ Moves(c, "stopToken", ClosingSteps \cup {"forceJoin"} \cup S)
<1>1. /\ c \in Threads /\ Step(c) \in CallerSteps \ ClosingSteps /\ Step(c) \in AllSteps
      /\ script[c] # <<>>
  BY IsAt, CallerNames, StepNames
<1>2. CASE ~Guarded(c) BY <1>1, <1>2, Throws DEF Fail
<1>3. CASE Guarded(c)
  <2> DEFINE r == Resume(c)
  <2>1. /\ Proper(c, r) /\ First(r) = "settled" /\ Elements(r) \subseteq Later(c)
        /\ "sweep" \in Todo(c) => "sweep" \in Elements(r)
        /\ "settled" \in Todo(c)
    BY <1>1, <1>3, Resumed DEF Later, Rest
  <2>2. Goto(c, CloseDown \o <<"forceJoin">> \o r) BY <1>3 DEF Fail
  <2> HIDE DEF r
  <2>3. Elements(r) \cap (FrontSteps \cup {"raiseFlag"}) = {}
    BY <1>1, <2>1, CallerRest
  <2>4. MayBeNext("forceJoin", "settled") /\ "forceJoin" \in EndsOfClosing
    BY CallerNames DEF MayBeNext
  <2>5. /\ Proper(c, CloseDown \o <<"forceJoin">> \o r)
        /\ First(CloseDown \o <<"forceJoin">> \o r) = "stopToken"
        /\ Elements(CloseDown \o <<"forceJoin">> \o r)
             = ClosingSteps \cup {"forceJoin"} \cup Elements(r)
    BY <2>1, <2>3, <2>4, ClosesDownThen
  <2>6. /\ Scripted'
        /\ Moves(c, "stopToken", ClosingSteps \cup {"forceJoin"} \cup Elements(r))
    BY <1>1, <2>2, <2>5, Goes
  <2> QED BY <2>1, <2>6
<1> QED BY <1>2, <1>3

LEMMA Closes ==
  ASSUME Scripted, NEW c \in Callers, Step(c) \in {"requestStop", "sweep"},
         Goto(c, CloseDown \o <<"release">> \o Rest(c))
  PROVE  ClosesWith(c, "release")
<1>1. /\ c \in Threads /\ Step(c) \in CallerSteps \ ClosingSteps /\ "release" \in EndsOfClosing
  BY CallerNames, StepNames
<1>2. /\ Proper(c, Rest(c)) /\ Elements(Rest(c)) \cap (FrontSteps \cup {"raiseFlag"}) = {}
      /\ First(Rest(c)) \notin {"settled", "finalize"}
      /\ First(Rest(c)) = "idle" \/ First(Rest(c)) \notin ClosingSteps
  <2>1. /\ Proper(c, Rest(c)) /\ Later(c) \cap (FrontSteps \cup {"raiseFlag"}) = {}
        /\ NextStep(c) \notin {"settled", "finalize"}
        /\ NextStep(c) = "idle" \/ NextStep(c) \in Later(c)
    BY <1>1, CallerRest
  <2> QED BY <2>1, CallerNames DEF Later, NextStep
<1>3. MayBeNext("release", First(Rest(c))) BY <1>2 DEF MayBeNext, ClosingSteps
<1> DEFINE s == CloseDown \o <<"release">> \o Rest(c)
<1>4. /\ Proper(c, s) /\ First(s) = "stopToken"
      /\ Elements(s) = ClosingSteps \cup {"release"} \cup Later(c)
  BY <1>1, <1>2, <1>3, ClosesDownThen DEF Later
<1>5. Goto(c, s) OBVIOUS
<1> HIDE DEF s
<1> QED BY <1>1, <1>4, <1>5, Goes DEF ClosesWith

LEMMA CallerTurns ==
  ASSUME Scripted, NEW c \in Callers
  PROVE  /\ RequestStop(c) =>
              /\ Step(c) = "requestStop" /\ Scripted'
              /\ CASE state = "Running" -> ClosesWith(c, "release")
                   [] state \in {"Stopping", "Error"} -> Moves(c, NextStep(c), Later(c))
                   [] OTHER -> Fail(c)
         /\ Sweep(c) =>
              /\ Step(c) = "sweep" /\ Scripted'
              /\ IF state = "Running" THEN ClosesWith(c, "release")
                 ELSE Moves(c, NextStep(c), Later(c))
         /\ Join(c) =>
              /\ Step(c) = "join" /\ Scripted'
              /\ CASE state = "Stopped" -> Moves(c, NextStep(c), Later(c))
                   [] state \in {"Stopping", "Error"} ->
                        Moves(c, "joinWorkers", {"joinWorkers"} \cup Later(c))
                   [] OTHER -> Fail(c)
<1>1. /\ c \in Threads
      /\ {"requestStop", "sweep", "join"} \subseteq CallerSteps \ (ClosingSteps \cup FrontSteps)
      /\ {"requestStop", "sweep", "join"} \subseteq AllSteps
  <2>1. "sweep" \notin FrontSteps BY DEF FrontSteps, ClosingSteps, HoldingSteps
  <2> QED BY <2>1, CallerNames, StepNames
<1>2. \A x \in {"requestStop", "sweep", "join"} :
        /\ At(c, x) => Step(c) = x
        /\ At(c, x) /\ Advance(c) => Scripted' /\ Moves(c, NextStep(c), Later(c))
  BY <1>1, IsAt, Advances
<1>3. RequestStop(c) =>
        /\ Step(c) = "requestStop" /\ Scripted'
        /\ CASE state = "Running" -> ClosesWith(c, "release")
             [] state \in {"Stopping", "Error"} -> Moves(c, NextStep(c), Later(c))
             [] OTHER -> Fail(c)
  <2> SUFFICES ASSUME RequestStop(c)
               PROVE  /\ Step(c) = "requestStop" /\ Scripted'
                      /\ CASE state = "Running" -> ClosesWith(c, "release")
                           [] state \in {"Stopping", "Error"} -> Moves(c, NextStep(c), Later(c))
                           [] OTHER -> Fail(c)
    OBVIOUS
  <2>1. Step(c) = "requestStop" BY <1>2 DEF RequestStop
  <2>2. CASE state = "Running"
    BY <2>1, <2>2, Closes DEF RequestStop, ClosesWith
  <2>3. CASE state \in {"Stopping", "Error"}
    BY <1>2, <2>1, <2>3 DEF RequestStop
  <2>4. CASE state \notin {"Running", "Stopping", "Error"}
    BY <2>1, <2>4, Forced DEF RequestStop
  <2> QED BY <2>1, <2>2, <2>3, <2>4
<1>4. Sweep(c) =>
        /\ Step(c) = "sweep" /\ Scripted'
        /\ IF state = "Running" THEN ClosesWith(c, "release")
           ELSE Moves(c, NextStep(c), Later(c))
  BY <1>2, Closes DEF Sweep, ClosesWith
<1>5. Join(c) =>
        /\ Step(c) = "join" /\ Scripted'
        /\ CASE state = "Stopped" -> Moves(c, NextStep(c), Later(c))
             [] state \in {"Stopping", "Error"} ->
                  Moves(c, "joinWorkers", {"joinWorkers"} \cup Later(c))
             [] OTHER -> Fail(c)
  <2> SUFFICES ASSUME Join(c)
               PROVE  /\ Step(c) = "join" /\ Scripted'
                      /\ CASE state = "Stopped" -> Moves(c, NextStep(c), Later(c))
                           [] state \in {"Stopping", "Error"} ->
                                Moves(c, "joinWorkers", {"joinWorkers"} \cup Later(c))
                           [] OTHER -> Fail(c)
    OBVIOUS
  <2>1. Step(c) = "join" BY <1>2 DEF Join
  <2>2. CASE state = "Stopped" BY <1>2, <2>1, <2>2 DEF Join
  <2>3. CASE state \in {"Stopping", "Error"}
    <3>1. Goto(c, <<"joinWorkers">> \o Rest(c)) BY <2>3 DEF Join
    <3>2. "joinWorkers" \in CallerSteps \ ClosingSteps /\ "joinWorkers" \in FrontSteps
      BY CallerNames
    <3>3. /\ NextStep(c) # "finalize"
          /\ NextStep(c) = "idle" \/ NextStep(c) \in Later(c)
          /\ Later(c) \cap FrontSteps = {}
      BY <1>1, <2>1, CallerRest
    <3>4. MayBeNext("joinWorkers", NextStep(c))
      BY <3>3, CallerNames DEF MayBeNext
    <3>5. /\ Proper(c, <<"joinWorkers">> \o Rest(c)) /\ First(<<"joinWorkers">> \o Rest(c)) = "joinWorkers"
          /\ Elements(<<"joinWorkers">> \o Rest(c)) = {"joinWorkers"} \cup Later(c)
      BY <1>1, <2>1, <3>2, <3>4, RestPrepended
    <3>6. Scripted' /\ Moves(c, "joinWorkers", {"joinWorkers"} \cup Later(c))
      BY <1>1, <3>1, <3>5, Goes
    <3> QED BY <2>1, <2>3, <3>6
  <2>4. CASE state \notin {"Stopped", "Stopping", "Error"}
    BY <2>1, <2>4, Forced DEF Join
  <2> QED BY <2>1, <2>2, <2>3, <2>4
<1> QED BY <1>3, <1>4, <1>5

(* shutdown_noexcept() reads the state and takes on what that calls for.   *)
LEMMA CallerShutsDown ==
  ASSUME Scripted, NEW c \in Callers
  PROVE  /\ Shutdown(c) =>
              /\ Step(c) = "shutdown" /\ Scripted'
              /\ \/ Moves(c, "requestStop", {"requestStop", "shutdownJoin", "settled"} \cup Later(c))
                 \/ Moves(c, "shutdownJoin", {"shutdownJoin", "settled"} \cup Later(c))
         /\ ShutdownJoin(c) =>
              /\ Step(c) = "shutdownJoin" /\ Scripted'
              /\ IF state \in {"Stopping", "Error"} THEN Moves(c, "join", {"join"} \cup Later(c))
                 ELSE Moves(c, NextStep(c), Later(c))
<1>1. /\ c \in Threads
      /\ {"shutdown", "shutdownJoin", "settled", "requestStop", "join"}
           \subseteq CallerSteps \ (ClosingSteps \cup FrontSteps)
      /\ {"shutdown", "shutdownJoin", "settled", "requestStop", "join"} \subseteq AllSteps
      /\ StepsOf(c) = CallerSteps
  <2>1. {"shutdown", "shutdownJoin", "settled"} \cap FrontSteps = {}
    BY DEF FrontSteps, ClosingSteps, HoldingSteps
  <2> QED BY <2>1, CallerNames, StepNames
<1>2. \A x \in {"shutdown", "shutdownJoin"} : At(c, x) => Step(c) = x
  BY <1>1, IsAt
<1>3. ASSUME Shutdown(c)
      PROVE  /\ Step(c) = "shutdown" /\ Scripted'
             /\ \/ Moves(c, "requestStop",
                         {"requestStop", "shutdownJoin", "settled"} \cup Later(c))
                \/ Moves(c, "shutdownJoin", {"shutdownJoin", "settled"} \cup Later(c))
  <2>1. Step(c) = "shutdown" BY <1>2, <1>3 DEF Shutdown
  <2>2. /\ Proper(c, Rest(c)) /\ Rest(c) \in Seq(AllSteps)
        /\ Later(c) \subseteq CallerSteps \ (FrontSteps \cup {"raiseFlag", "settled"})
        /\ NextStep(c) # "settled"
        /\ NextStep(c) = "idle" \/ NextStep(c) \in Later(c)
    <3>1. "shutdown" \notin {"requestStop", "join", "shutdownJoin"} \cup FrontSteps
      BY <1>1
    <3> QED BY <1>1, <2>1, <3>1, CallerRest DEF Proper
  <2> DEFINE r1 == <<"settled">> \o Rest(c)
             r2 == <<"shutdownJoin">> \o r1
             r3 == <<"requestStop">> \o r2
  <2>3. MayBeNext("settled", NextStep(c)) BY <2>2, CallerNames DEF MayBeNext
  <2>4. Proper(c, r1) /\ First(r1) = "settled" /\ Elements(r1) = {"settled"} \cup Later(c)
    BY <1>1, <2>1, <2>2, <2>3, RestPrepended
  <2>5. <<"shutdownJoin", "settled">> \o Rest(c) = r2
    <3>1. "shutdownJoin" \in AllSteps /\ "settled" \in AllSteps /\ Rest(c) \in Seq(AllSteps)
      BY <1>1, <2>2
    <3> QED BY <3>1, Unfolded
  <2> HIDE DEF r1
  <2>6. \A x \in {"requestStop", "shutdownJoin"} :
          \A b \in {"shutdownJoin", "settled"} \cup Later(c) : MayFollow(x, b)
    <3>1. \A b \in {"shutdownJoin", "settled"} \cup Later(c) :
            b \in CallerSteps /\ b \notin FrontSteps \cup {"raiseFlag"}
      BY <1>1, <2>2
    <3> QED BY <3>1, StepNames DEF MayFollow
  <2>7. MayBeNext("shutdownJoin", "settled") /\ MayBeNext("requestStop", "shutdownJoin")
    BY DEF MayBeNext
  <2>8. /\ Proper(c, r2) /\ First(r2) = "shutdownJoin"
        /\ Elements(r2) = {"shutdownJoin"} \cup Elements(r1)
    <3>1. "shutdownJoin" \in StepsOf(c) /\ "shutdownJoin" \notin ClosingSteps
      BY <1>1
    <3>2. \A b \in Elements(r1) : MayFollow("shutdownJoin", b) BY <2>4, <2>6
    <3>3. MayBeNext("shutdownJoin", First(r1)) BY <2>4, <2>7
    <3> QED BY <1>1, <2>4, <3>1, <3>2, <3>3, Prepended
  <2> HIDE DEF r2
  <2>9. /\ Proper(c, r3) /\ First(r3) = "requestStop"
        /\ Elements(r3) = {"requestStop"} \cup Elements(r2)
    <3>1. "requestStop" \in StepsOf(c) /\ "requestStop" \notin ClosingSteps
      BY <1>1
    <3>2. \A b \in Elements(r2) : MayFollow("requestStop", b)
      BY <2>4, <2>6, <2>8
    <3>3. MayBeNext("requestStop", First(r2)) BY <2>7, <2>8
    <3> QED BY <1>1, <2>8, <3>1, <3>2, <3>3, Prepended
  <2>10. (<<"requestStop">> \o <<"shutdownJoin", "settled">>) \o Rest(c) = r3
    <3>1. <<"requestStop">> \in Seq(AllSteps) /\ <<"shutdownJoin", "settled">> \in Seq(AllSteps)
      BY <1>1
    <3>2. (<<"requestStop">> \o <<"shutdownJoin", "settled">>) \o Rest(c)
            = <<"requestStop">> \o (<<"shutdownJoin", "settled">> \o Rest(c))
      BY <2>2, <3>1, ConcatAssociative
    <3> QED BY <2>5, <3>2
  <2>11. (<<>> \o <<"shutdownJoin", "settled">>) \o Rest(c) = r2
    <3>1. <<"shutdownJoin", "settled">> \in Seq(AllSteps) BY <1>1
    <3>2. <<>> \o <<"shutdownJoin", "settled">> = <<"shutdownJoin", "settled">>
      BY <3>1, ConcatEmptySeq
    <3> QED BY <2>5, <3>2
  <2> HIDE DEF r3
  <2>12. Goto(c, r3) \/ Goto(c, r2) BY <1>3, <2>10, <2>11 DEF Shutdown
  <2>13. CASE Goto(c, r3)
    <3>1. Scripted' /\ Moves(c, "requestStop", Elements(r3))
      BY <1>1, <2>9, <2>13, Goes
    <3>2. Elements(r3) = {"requestStop", "shutdownJoin", "settled"} \cup Later(c)
      BY <2>4, <2>8, <2>9
    <3> QED BY <2>1, <3>1, <3>2
  <2>14. CASE Goto(c, r2)
    <3>1. Scripted' /\ Moves(c, "shutdownJoin", Elements(r2))
      BY <1>1, <2>8, <2>14, Goes
    <3>2. Elements(r2) = {"shutdownJoin", "settled"} \cup Later(c)
      BY <2>4, <2>8
    <3> QED BY <2>1, <3>1, <3>2
  <2> QED BY <2>12, <2>13, <2>14
<1>4. ASSUME ShutdownJoin(c)
      PROVE  /\ Step(c) = "shutdownJoin" /\ Scripted'
             /\ IF state \in {"Stopping", "Error"} THEN Moves(c, "join", {"join"} \cup Later(c))
                ELSE Moves(c, NextStep(c), Later(c))
  <2>1. Step(c) = "shutdownJoin" BY <1>2, <1>4 DEF ShutdownJoin
  <2>2. /\ Proper(c, Rest(c)) /\ Rest(c) \in Seq(AllSteps)
        /\ Later(c) \cap FrontSteps = {} /\ NextStep(c) # "finalize"
        /\ NextStep(c) = "idle" \/ NextStep(c) \in Later(c)
    BY <1>1, <2>1, CallerRest DEF Proper
  <2>3. CASE state \in {"Stopping", "Error"}
    <3>1. Goto(c, <<"join">> \o Rest(c)) BY <1>4, <2>3 DEF ShutdownJoin
    <3>2. MayBeNext("join", NextStep(c)) BY <2>2, CallerNames DEF MayBeNext
    <3>3. /\ Proper(c, <<"join">> \o Rest(c)) /\ First(<<"join">> \o Rest(c)) = "join"
          /\ Elements(<<"join">> \o Rest(c)) = {"join"} \cup Later(c)
      BY <1>1, <2>1, <3>2, RestPrepended
    <3>4. Scripted' /\ Moves(c, "join", {"join"} \cup Later(c))
      BY <1>1, <3>1, <3>3, Goes
    <3> QED BY <2>1, <2>3, <3>4
  <2>4. CASE state \notin {"Stopping", "Error"}
    <3>1. Goto(c, <<>> \o Rest(c)) BY <1>4, <2>4 DEF ShutdownJoin
    <3>2. <<>> \o Rest(c) = Rest(c) BY <2>2, ConcatEmptySeq
    <3>3. Scripted' /\ Moves(c, NextStep(c), Later(c))
      BY <1>1, <2>2, <3>1, <3>2, Goes DEF NextStep, Later
    <3> QED BY <2>1, <2>4, <3>3
  <2> QED BY <2>3, <2>4
<1> QED BY <1>3, <1>4

(* The effects that shut a thread down, one by one.                        *)
LEMMA ClosingMoves ==
  ASSUME Scripted, NEW t \in Threads, Closing(t)
  PROVE  /\ Scripted' /\ Moves(t, NextStep(t), Later(t)) /\ Todo(t) = {Step(t)} \cup Later(t)
         /\ Step(t) \in ClosingSteps
         /\ Step(t) = "stopToken" <=> StopToken(t)
         /\ Step(t) = "cancel" <=> Cancel(t)
         /\ Step(t) = "closeQueue" <=> CloseQueue(t)
         /\ NextStep(t) \notin {"settled", "finalize"} \cup FailingSteps \cup LoopSteps
         /\ t \in Workers => NextStep(t) \in {"idle"} \cup ClosingSteps
<1>1. /\ {"stopToken", "cancel", "closeQueue"} = ClosingSteps /\ ClosingSteps \subseteq AllSteps
  BY DEF ClosingSteps, AllSteps, WorkerSteps
<1>2. \A x \in ClosingSteps : At(t, x) => Step(t) = x BY <1>1, IsAt
<1>3. /\ StopToken(t) => Step(t) = "stopToken" /\ Advance(t)
      /\ Cancel(t) => Step(t) = "cancel" /\ Advance(t)
      /\ CloseQueue(t) => Step(t) = "closeQueue" /\ Advance(t)
  BY <1>1, <1>2 DEF StopToken, Cancel, CloseQueue
<1>4. StopToken(t) \/ Cancel(t) \/ CloseQueue(t) BY DEF Closing
<1> HIDE DEF Closing, StopToken, Cancel, CloseQueue
<1>5. Step(t) \in ClosingSteps /\ Advance(t) BY <1>1, <1>3, <1>4
<1>6. Scripted' /\ Moves(t, NextStep(t), Later(t)) BY <1>1, <1>5, Advances
<1>7. /\ Todo(t) = {Step(t)} \cup Later(t) /\ Proper(t, Rest(t))
      /\ \A b \in Later(t) : MayFollow(Step(t), b)
      /\ MayBeNext(Step(t), NextStep(t))
  BY <1>1, <1>5, IsAt
<1>8. NextStep(t) = "idle" \/ NextStep(t) \in Later(t)
  BY <1>7, FirstStep DEF NextStep, Later
<1>9. NextStep(t) \notin {"settled", "finalize"}
  BY <1>5, <1>7 DEF MayBeNext, ClosingSteps
<1>10. /\ NextStep(t) \notin FailingSteps \cup LoopSteps
       /\ t \in Workers => NextStep(t) \in {"idle"} \cup ClosingSteps
  <2>1. \A b \in Later(t) : b \notin FailingSteps \cup LoopSteps
    BY <1>5, <1>7 DEF MayFollow, ClosingSteps
  <2>2. t \in Workers => Later(t) \subseteq WorkerSteps
    BY <1>7, StepNames DEF Proper, Later
  <2>3. "idle" \notin FailingSteps \cup LoopSteps
    BY DEF FailingSteps, LoopSteps
  <2> QED BY <1>8, <2>1, <2>2, <2>3 DEF WorkerSteps
<1> QED BY <1>1, <1>3, <1>4, <1>5, <1>6, <1>7, <1>9, <1>10

(* Worker w comes to step x.                                               *)
Turns(w, x) == \E S : Moves(w, x, S)

LEMMA WorkerGoes ==
  ASSUME Scripted, NEW w \in Workers
  PROVE  /\ w \in Threads
         /\ \A x \in LoopSteps \cup FailingSteps : x \in AllSteps /\ (At(w, x) <=> Step(w) = x)
         /\ \A x \in LoopSteps : Goto(w, <<x>>) => Scripted' /\ Turns(w, x)
         /\ Goto(w, <<>>) => Scripted' /\ Turns(w, "idle")
         /\ Goto(w, <<"emitFailure", "markError">> \o CloseDown)
              => Scripted' /\ Turns(w, "emitFailure")
<1>1. /\ w \in Threads /\ w \notin Callers /\ StepsOf(w) = WorkerSteps
      /\ LoopSteps \subseteq WorkerSteps /\ FailingSteps \subseteq WorkerSteps
      /\ WorkerSteps \subseteq AllSteps
  BY StepNames DEF WorkerSteps, AllSteps
<1>2. \A x \in LoopSteps : Goto(w, <<x>>) => Scripted' /\ Turns(w, x)
  BY <1>1, OneStepScript, Goes DEF Turns
<1>3. Goto(w, <<>>) => Scripted' /\ Turns(w, "idle")
  BY <1>1, Throws DEF Throw, Turns
<1> DEFINE s == <<"emitFailure", "markError">> \o CloseDown
<1>4. Proper(w, s) /\ First(s) = "emitFailure" BY WorkerFails
<1> HIDE DEF s
<1>5. Goto(w, s) => Scripted' /\ Turns(w, "emitFailure")
  BY <1>1, <1>4, Goes DEF Turns
<1> QED BY <1>1, <1>2, <1>3, <1>5, IsAt DEF s

LEMMA AcquisitionMoves ==
  ASSUME Scripted
  PROVE  /\ AcqCheck => /\ Step("acquisition") = "check" /\ Scripted'
                        /\ Turns("acquisition", IF stop THEN "idle" ELSE "refill")
         /\ AcqRefill => /\ Step("acquisition") = "refill" /\ Scripted'
                         /\ Turns("acquisition", IF transientLeft > 0 THEN "check" ELSE "push")
         /\ AcqRefillThrows => /\ Step("acquisition") = "refill" /\ Scripted'
                               /\ Turns("acquisition", IF stop THEN "idle" ELSE "emitFailure")
         /\ AcqPush => /\ Step("acquisition") = "push" /\ Scripted'
                       /\ Turns("acquisition",
                                CASE PushResult(acq) = "Stopped" -> "countStopped"
                                  [] PushResult(acq) \in {"Dropped", "Evicted"} -> "countDrop"
                                  [] OTHER -> "check")
         /\ AcqCountDrop =>
              Step("acquisition") = "countDrop" /\ Scripted' /\ Turns("acquisition", "check")
         /\ AcqCountStopped =>
              Step("acquisition") = "countStopped" /\ Scripted' /\ Turns("acquisition", "idle")
<1>1. "acquisition" \in Workers BY DEF Workers
<1>2. {"check", "refill", "push", "countDrop", "countStopped"} \subseteq LoopSteps
  BY DEF LoopSteps
<1>3. /\ \A x \in LoopSteps : /\ At("acquisition", x) <=> Step("acquisition") = x
                              /\ Goto("acquisition", <<x>>) => Scripted' /\ Turns("acquisition", x)
      /\ Goto("acquisition", <<>>) => Scripted' /\ Turns("acquisition", "idle")
      /\ Goto("acquisition", <<"emitFailure", "markError">> \o CloseDown)
           => Scripted' /\ Turns("acquisition", "emitFailure")
  BY <1>1, WorkerGoes
<1> HIDE DEF Turns, Goto, At, Step, Scripted, LoopSteps, CloseDown, PushResult
<1>4. AcqCheck => /\ Step("acquisition") = "check" /\ Scripted'
                  /\ Turns("acquisition", IF stop THEN "idle" ELSE "refill")
  BY <1>2, <1>3 DEF AcqCheck
<1>5. AcqRefill => /\ Step("acquisition") = "refill" /\ Scripted'
                   /\ Turns("acquisition", IF transientLeft > 0 THEN "check" ELSE "push")
  BY <1>2, <1>3 DEF AcqRefill
<1>6. AcqRefillThrows => /\ Step("acquisition") = "refill" /\ Scripted'
                         /\ Turns("acquisition", IF stop THEN "idle" ELSE "emitFailure")
  BY <1>2, <1>3 DEF AcqRefillThrows
<1>7. AcqPush => /\ Step("acquisition") = "push" /\ Scripted'
                 /\ Turns("acquisition",
                          CASE PushResult(acq) = "Stopped" -> "countStopped"
                            [] PushResult(acq) \in {"Dropped", "Evicted"} -> "countDrop"
                            [] OTHER -> "check")
  BY <1>2, <1>3 DEF AcqPush
<1>8. AcqCountDrop =>
        Step("acquisition") = "countDrop" /\ Scripted' /\ Turns("acquisition", "check")
  BY <1>2, <1>3 DEF AcqCountDrop
<1>9. AcqCountStopped =>
        Step("acquisition") = "countStopped" /\ Scripted' /\ Turns("acquisition", "idle")
  BY <1>2, <1>3 DEF AcqCountStopped
<1> QED BY <1>4, <1>5, <1>6, <1>7, <1>8, <1>9

LEMMA DspMoves ==
  ASSUME Scripted
  PROVE  /\ DspPop => Step("dsp") = "pop" /\ Scripted' /\ Turns("dsp", "process")
         /\ DspDrained => Step("dsp") = "pop" /\ Scripted' /\ Turns("dsp", "flush")
         /\ DspProcess => Step("dsp") = "process" /\ Scripted' /\ Turns("dsp", "pop")
         /\ DspThrows =>
              Step("dsp") \in {"process", "flush"} /\ Scripted' /\ Turns("dsp", "emitFailure")
         /\ DspFlush => Step("dsp") = "flush" /\ Scripted' /\ Turns("dsp", "idle")
<1>1. "dsp" \in Workers BY DEF Workers
<1>2. {"pop", "process", "flush"} \subseteq LoopSteps BY DEF LoopSteps
<1>3. /\ \A x \in LoopSteps : /\ At("dsp", x) <=> Step("dsp") = x
                              /\ Goto("dsp", <<x>>) => Scripted' /\ Turns("dsp", x)
      /\ Goto("dsp", <<>>) => Scripted' /\ Turns("dsp", "idle")
      /\ Goto("dsp", <<"emitFailure", "markError">> \o CloseDown)
           => Scripted' /\ Turns("dsp", "emitFailure")
  BY <1>1, WorkerGoes
<1> HIDE DEF Turns, Goto, At, Step, Scripted, LoopSteps, CloseDown
<1> QED BY <1>2, <1>3 DEF DspPop, DspDrained, DspProcess, DspThrows, DspFlush

LEMMA FailureMoves ==
  ASSUME Scripted, NEW w \in Workers
  PROVE  /\ EmitFailure(w) =>
              /\ Step(w) = "emitFailure" /\ Scripted'
              /\ \E x \in FailingSteps \cup {"stopToken", "idle"} : Turns(w, x)
         /\ MarkError(w) =>
              /\ Step(w) = "markError" /\ Scripted'
              /\ \E x \in {"stopToken", "idle"} : Turns(w, x)
<1>1. /\ w \in Threads /\ StepsOf(w) = WorkerSteps /\ FailingSteps \subseteq AllSteps
      /\ {"emitFailure", "markError"} = FailingSteps
  BY StepNames DEF AllSteps, WorkerSteps, FailingSteps
<1>2. ASSUME NEW x \in FailingSteps, At(w, x), Advance(w)
      PROVE  /\ Step(w) = x /\ Scripted' /\ Turns(w, NextStep(w))
             /\ NextStep(w) \in {"stopToken", "idle"} \cup (IF x = "emitFailure" THEN FailingSteps ELSE {})
  <2>1. /\ Step(w) = x /\ Proper(w, Rest(w))
        /\ \A b \in Later(w) : MayFollow(x, b)
        /\ MayBeNext(x, NextStep(w))
    BY <1>1, <1>2, IsAt
  <2>2. Scripted' /\ Turns(w, NextStep(w))
    BY <1>1, <1>2, <2>1, Advances DEF Turns
  <2>3. NextStep(w) = "idle" \/ NextStep(w) \in Later(w)
    BY <1>1, <2>1, FirstStep DEF NextStep, Later
  <2>4. \A b \in Later(w) : b \in WorkerSteps /\ b \notin LoopSteps
                              /\ (b \in FailingSteps => x = "emitFailure")
    BY <1>1, <2>1 DEF Proper, Later, MayFollow
  <2>5. NextStep(w) \notin {"cancel", "closeQueue"}
    BY <1>1, <2>1 DEF MayBeNext, ClosingSteps
  <2> QED BY <2>1, <2>2, <2>3, <2>4, <2>5 DEF WorkerSteps, ClosingSteps
<1>3. EmitFailure(w) => At(w, "emitFailure") /\ Advance(w) BY DEF EmitFailure
<1>4. MarkError(w) => At(w, "markError") /\ Advance(w) BY DEF MarkError
<1>5. ASSUME EmitFailure(w)
      PROVE  /\ Step(w) = "emitFailure" /\ Scripted'
             /\ \E x \in FailingSteps \cup {"stopToken", "idle"} : Turns(w, x)
  <2>1. /\ Step(w) = "emitFailure" /\ Scripted' /\ Turns(w, NextStep(w))
        /\ NextStep(w) \in {"stopToken", "idle"} \cup FailingSteps
    BY <1>1, <1>2, <1>3, <1>5
  <2> QED BY <2>1
<1>6. ASSUME MarkError(w)
      PROVE  /\ Step(w) = "markError" /\ Scripted'
             /\ \E x \in {"stopToken", "idle"} : Turns(w, x)
  <2>1. /\ Step(w) = "markError" /\ Scripted' /\ Turns(w, NextStep(w))
        /\ NextStep(w) \in {"stopToken", "idle"}
    BY <1>1, <1>2, <1>4, <1>6
  <2> QED BY <2>1
<1> QED BY <1>5, <1>6

(* start() is announced, with both workers at their beginning; ...         *)
LEMMA StartMoves ==
  ASSUME Scripted, NEW c \in Callers, Start(c)
  PROVE  /\ Step(c) = "startStream" /\ Scripted'
         /\ Step(c)' = "announce" /\ Todo(c)' = {"announce"} \cup Later(c)
         /\ Step("dsp")' = "pop" /\ Step("acquisition")' = "check"
         /\ \A d \in Callers : d # c => Step(d)' = Step(d) /\ Todo(d)' = Todo(d)
<1>1. /\ c \in Threads /\ c \notin Workers /\ "startStream" \in CallerSteps \ ClosingSteps
      /\ "startStream" \in AllSteps /\ "announce" \in CallerSteps \ ClosingSteps
      /\ "announce" \in FrontSteps
      /\ \A d \in Callers : d \in Threads /\ d \notin Workers
  BY StepNames, CallerNames
<1>2. Step(c) = "startStream" BY <1>1, IsAt DEF Start
<1>3. /\ NextStep(c) \notin {"settled", "finalize"}
      /\ NextStep(c) = "idle" \/ NextStep(c) \notin ClosingSteps
  <2>1. /\ NextStep(c) \notin {"settled", "finalize"} /\ Later(c) \cap FrontSteps = {}
        /\ NextStep(c) = "idle" \/ NextStep(c) \in Later(c)
    BY <1>1, <1>2, CallerRest
  <2> QED BY <2>1, CallerNames
<1>4. MayBeNext("announce", NextStep(c)) BY <1>3 DEF MayBeNext, ClosingSteps
<1> DEFINE s == <<"announce">> \o Rest(c)
           p == <<"pop">>
           k == <<"check">>
<1>5. Proper(c, s) /\ First(s) = "announce" /\ Elements(s) = {"announce"} \cup Later(c)
  BY <1>1, <1>2, <1>4, RestPrepended
<1>6. /\ Proper("dsp", p) /\ First(p) = "pop"
      /\ Proper("acquisition", k) /\ First(k) = "check"
  <2>1. /\ "dsp" \in Threads /\ "dsp" \notin Callers /\ "pop" \in StepsOf("dsp")
        /\ "acquisition" \in Threads /\ "acquisition" \notin Callers
        /\ "check" \in StepsOf("acquisition")
    BY StepNames DEF Workers, WorkerSteps, LoopSteps
  <2> QED BY <2>1, OneStepScript
<1>7. script' = [script EXCEPT ![c] = s, !["dsp"] = p, !["acquisition"] = k]
  BY DEF Start
<1>8. /\ script' \in [Threads -> Seq(AllSteps)]
      /\ script'[c] = s /\ script'["dsp"] = p /\ script'["acquisition"] = k
      /\ \A d \in Callers : d # c => script'[d] = script[d]
  <2>1. s \in Seq(AllSteps) /\ p \in Seq(AllSteps) /\ k \in Seq(AllSteps)
    BY <1>5, <1>6 DEF Proper
  <2>2. {"dsp", "acquisition"} \subseteq Threads /\ c \notin {"dsp", "acquisition"}
    BY <1>1 DEF Threads, Workers
  <2>3. \A d \in Callers : d \in Threads /\ d \notin {"dsp", "acquisition"}
    BY <1>1 DEF Workers
  <2> HIDE DEF s, p, k
  <2> QED BY <1>1, <1>7, <2>1, <2>2, <2>3 DEF Scripted
<1> HIDE DEF s, p, k
<1>9. Scripted' BY <1>5, <1>6, <1>8 DEF Scripted, Threads, Workers
<1> QED BY <1>2, <1>5, <1>6, <1>8, <1>9 DEF Step, Todo

(* ... or taken back, when a worker could not be created.                  *)
LEMMA SpawnFailsMoves ==
  ASSUME Scripted, NEW c \in Callers, StartSpawnFails(c)
  PROVE  /\ Step(c) = "startStream" /\ Scripted'
         /\ Step(c)' = "stopToken" /\ Todo(c)' = ClosingSteps \cup {"abortStart"}
         /\ Step("dsp")' \in {"idle", "pop"}
         /\ Step("acquisition")' = Step("acquisition")
         /\ \A d \in Callers : d # c => Step(d)' = Step(d) /\ Todo(d)' = Todo(d)
<1>1. /\ c \in Threads /\ c \notin Workers /\ "startStream" \in AllSteps
      /\ \A d \in Callers : d \in Threads /\ d \notin Workers
      /\ "dsp" \in Threads /\ "acquisition" \in Threads
      /\ "dsp" \in Workers /\ "acquisition" \in Workers
  BY StepNames, CallerNames DEF Threads, Workers
<1>2. Step(c) = "startStream" BY <1>1, IsAt DEF StartSpawnFails
<1> DEFINE s == CloseDown \o <<"abortStart">>
<1>3. Proper(c, s) /\ First(s) = "stopToken" /\ Elements(s) = ClosingSteps \cup {"abortStart"}
  BY ClosesDownOnly
<1>4. PICK p \in {<<>>, <<"pop">>} : script' = [script EXCEPT ![c] = s, !["dsp"] = p]
  BY DEF StartSpawnFails
<1>5. Proper("dsp", p) /\ First(p) \in {"idle", "pop"}
  <2>1. "dsp" \notin Callers /\ "pop" \in StepsOf("dsp")
    BY <1>1, StepNames DEF WorkerSteps, LoopSteps
  <2>2. CASE p = <<>> BY <1>1, <2>2, EmptyScript
  <2>3. CASE p = <<"pop">> BY <1>1, <2>1, <2>3, OneStepScript
  <2> QED BY <2>2, <2>3
<1>6. /\ script' \in [Threads -> Seq(AllSteps)]
      /\ script'[c] = s /\ script'["dsp"] = p
      /\ script'["acquisition"] = script["acquisition"]
      /\ \A d \in Callers : d # c => script'[d] = script[d]
  <2>1. s \in Seq(AllSteps) /\ p \in Seq(AllSteps) BY <1>3, <1>5 DEF Proper
  <2>2. c \notin {"dsp", "acquisition"} /\ \A d \in Callers : d # "dsp"
    BY <1>1 DEF Workers
  <2> HIDE DEF s
  <2> QED BY <1>1, <1>4, <2>1, <2>2 DEF Scripted
<1> HIDE DEF s
<1>7. Scripted' BY <1>1, <1>3, <1>5, <1>6 DEF Scripted, Threads, Workers
<1> QED BY <1>2, <1>3, <1>5, <1>6, <1>7 DEF Step, Todo

(* A call begins.                                                          *)
PlainSteps == {"configure", "start", "requestStop", "join", "pollEvents", "pollSpectrum"}

LEMMA CallMoves ==
  ASSUME Scripted, NEW c \in Callers, Call(c)
  PROVE  /\ Step(c) = "idle" /\ Todo(c) = {} /\ Scripted'
         /\ \/ \E x \in PlainSteps, S \in SUBSET PlainSteps : Moves(c, x, S)
            \/ Moves(c, "raiseFlag", {"raiseFlag", "shutdown", "sweep", "finalize"})
<1>1. /\ c \in Threads /\ StepsOf(c) = CallerSteps
      /\ PlainSteps \subseteq CallerSteps \ (ClosingSteps \cup FrontSteps)
      /\ PlainSteps \subseteq AllSteps
      /\ {"raiseFlag", "shutdown", "sweep", "finalize"} \subseteq CallerSteps \ ClosingSteps
      /\ {"raiseFlag", "shutdown", "sweep", "finalize"} \subseteq AllSteps
  BY CallerNames, StepNames DEF PlainSteps
<1>2. Step(c) = "idle" /\ Todo(c) = {}
  <2>1. "configure" \in AllSteps /\ script[c] = <<>>
    BY <1>1 DEF Call, PlainSteps
  <2> QED BY <1>1, <2>1, IsAt
<1>3. PICK call \in Calls : Goto(c, Steps(call))
  BY DEF Call
<1>4. \A x \in PlainSteps : Proper(c, <<x>>) /\ First(<<x>>) = x /\ Elements(<<x>>) = {x}
  BY <1>1, OneStepScript
<1>5. \A x, y \in PlainSteps : MayFollow(x, y) /\ MayBeNext(x, y)
  <2>1. \A y \in PlainSteps : /\ y \notin FrontSteps \cup FailingSteps \cup LoopSteps
                              /\ y \notin {"settled", "raiseFlag", "finalize", "cancel", "closeQueue"}
    BY <1>1, StepNames DEF PlainSteps
  <2> QED BY <2>1 DEF MayFollow, MayBeNext
<1>6. ASSUME NEW x \in PlainSteps, NEW r, Proper(c, r), First(r) \in PlainSteps,
             Elements(r) \subseteq PlainSteps
      PROVE  /\ Proper(c, <<x>> \o r) /\ First(<<x>> \o r) \in PlainSteps
             /\ Elements(<<x>> \o r) \subseteq PlainSteps
  BY <1>1, <1>5, <1>6, Prepended
<1>7. {"configure", "start", "requestStop", "join", "pollEvents", "pollSpectrum"} = PlainSteps
  BY DEF PlainSteps
<1> DEFINE Plain(s) == Proper(c, s) /\ First(s) \in PlainSteps /\ Elements(s) \subseteq PlainSteps
<1>8. \A x \in PlainSteps : Plain(<<x>>) BY <1>4
<1>9. \A x \in PlainSteps : \A r : Plain(r) => Plain(<<x>> \o r) BY <1>6
<1> HIDE DEF Plain
<1>10. Plain(<<"configure", "start">>) /\ Plain(Stopping)
  <2>1. <<"configure">> \o <<"start">> = <<"configure", "start">>
    BY <1>1, <1>7, WrittenOut
  <2>2. <<"requestStop">> \o <<"join">> = Stopping
    BY <1>1, <1>7, WrittenOut DEF Stopping
  <2>3. Plain(<<"configure">> \o <<"start">>) /\ Plain(<<"requestStop">> \o <<"join">>)
    BY <1>7, <1>8, <1>9
  <2> QED BY <2>1, <2>2, <2>3
<1>11. Plain(Stopping \o <<"configure", "start">>)
  <2> DEFINE r == <<"configure", "start">>
  <2>1. Plain(r) /\ r \in Seq(AllSteps) BY <1>10 DEF Plain, Proper
  <2> HIDE DEF r
  <2>2. <<"requestStop", "join">> \o r = <<"requestStop">> \o (<<"join">> \o r)
    <3>1. "requestStop" \in AllSteps /\ "join" \in AllSteps BY <1>1, <1>7
    <3> QED BY <2>1, <3>1, Unfolded
  <2>3. Plain(<<"join">> \o r) BY <1>7, <1>9, <2>1
  <2>4. Plain(<<"requestStop">> \o (<<"join">> \o r)) BY <1>7, <1>9, <2>3
  <2> QED BY <2>2, <2>4 DEF Stopping, r
<1>12. call # "disconnect" => Plain(Steps(call))
  <2>1. call \in {"configure", "start", "request_stop", "join", "stop", "reconfigure",
                  "disconnect", "poll_events", "poll_spectrum_frames"}
    BY CallsAssumption
  <2>2. /\ Plain(<<"configure">>) /\ Plain(<<"start">>) /\ Plain(<<"requestStop">>)
        /\ Plain(<<"join">>) /\ Plain(<<"pollEvents">>) /\ Plain(<<"pollSpectrum">>)
    BY <1>7, <1>8
  <2> HIDE DEF Stopping
  <2> QED BY <1>10, <1>11, <2>1, <2>2 DEF Steps
<1>13. /\ Proper(c, Disconnect) /\ First(Disconnect) = "raiseFlag"
       /\ Elements(Disconnect) = {"raiseFlag", "shutdown", "sweep", "finalize"}
  <2> DEFINE s == <<"raiseFlag", "shutdown", "sweep", "shutdown", "finalize">>
  <2>1. /\ Len(s) = 5 /\ s[1] = "raiseFlag" /\ s[2] = "shutdown" /\ s[3] = "sweep"
        /\ s[4] = "shutdown" /\ s[5] = "finalize"
    OBVIOUS
  <2>2. s \in Seq(AllSteps) BY <1>1
  <2>3. s = Disconnect BY DEF Disconnect
  <2> HIDE DEF s
  <2>4. 1..Len(s) = {1, 2, 3, 4, 5} /\ 1..(Len(s) - 1) = {1, 2, 3, 4} BY <2>1
  <2>5. Elements(s) = {"raiseFlag", "shutdown", "sweep", "finalize"}
    BY <2>1, <2>4 DEF Elements
  <2>6. \A a \in {"raiseFlag", "shutdown", "sweep"} :
          \A b \in {"shutdown", "sweep", "finalize"} : MayFollow(a, b)
    BY DEF MayFollow, FrontSteps, ClosingSteps, HoldingSteps, FailingSteps, LoopSteps
  <2>7. /\ MayBeNext("raiseFlag", "shutdown") /\ MayBeNext("shutdown", "sweep")
        /\ MayBeNext("sweep", "shutdown") /\ MayBeNext("shutdown", "finalize")
    BY DEF MayBeNext
  <2>8. \A i, j \in 1..Len(s) : i < j => MayFollow(s[i], s[j])
    <3> SUFFICES ASSUME NEW i \in 1..Len(s), NEW j \in 1..Len(s), i < j
                 PROVE  MayFollow(s[i], s[j])
      OBVIOUS
    <3>1. s[i] \in {"raiseFlag", "shutdown", "sweep"}
      <4>1. i \in {1, 2, 3, 4} BY <2>4
      <4> QED BY <2>1, <4>1
    <3>2. j # 1 BY <2>4
    <3>3. s[j] \in {"shutdown", "sweep", "finalize"} BY <2>1, <2>4, <3>2
    <3> QED BY <2>6, <3>1, <3>3
  <2>9. \A i \in 1..(Len(s) - 1) : MayBeNext(s[i], s[i + 1])
    BY <2>1, <2>4, <2>7
  <2>10. First(s) = "raiseFlag"
    <3>1. s # <<>> BY <2>1
    <3> QED BY <2>1, <3>1 DEF First
  <2>11. Elements(s) \cap ClosingSteps = {} /\ Elements(s) \subseteq StepsOf(c)
    BY <1>1, <2>5 DEF ClosingSteps
  <2>12. Proper(c, s) BY <2>2, <2>8, <2>9, <2>11 DEF Proper
  <2> QED BY <2>3, <2>5, <2>10, <2>12
<1>14. CASE call = "disconnect"
  <2>1. Goto(c, Disconnect) BY <1>3, <1>14 DEF Steps
  <2> HIDE DEF Disconnect
  <2> QED BY <1>1, <1>2, <1>13, <2>1, Goes
<1>15. CASE call # "disconnect"
  <2>1. /\ Scripted' /\ Moves(c, First(Steps(call)), Elements(Steps(call)))
        /\ First(Steps(call)) \in PlainSteps /\ Elements(Steps(call)) \subseteq PlainSteps
    BY <1>1, <1>3, <1>12, <1>15, Goes DEF Plain
  <2> QED BY <1>2, <2>1
<1> QED BY <1>14, <1>15

-----------------------------------------------------------------------------
(* Types                                                                   *)

(* An event latches has_error if it is to be preserved, and nothing but a  *)
(* new configuration clears it.                                            *)
LEMMA Emitted ==
  ASSUME NEW d, "hasError" \in DOMAIN d, d.hasError \in BOOLEAN, NEW p \in BOOLEAN
  PROVE  /\ "hasError" \in DOMAIN Emit(d, p) /\ Emit(d, p).hasError = (d.hasError \/ p)
         /\ "hasError" \in DOMAIN Drained(d) /\ Drained(d).hasError = d.hasError
<1> DEFINE s == Stamp(d, p)
           e == Event(d, p)
           q == Enqueue(s, e)
<1>1. "hasError" \in DOMAIN s /\ s.hasError = (d.hasError \/ p) BY DEF Stamp
<1> HIDE DEF s, e
<1>2. "hasError" \in DOMAIN q /\ q.hasError = s.hasError BY <1>1 DEF Enqueue
<1> HIDE DEF q
<1>3. "hasError" \in DOMAIN Overflow(q, e) /\ Overflow(q, e).hasError = q.hasError
  BY <1>2 DEF Overflow
<1>4. Emit(d, p) \in {q, Overflow(q, e)} BY DEF Emit, q, s, e
<1> DEFINE t == [d EXCEPT !.queue.items = <<>>, !.queue.popped = @ + Len(d.queue.items),
                          !.slot = <<>>]
<1>5. "hasError" \in DOMAIN t /\ t.hasError = d.hasError OBVIOUS
<1> HIDE DEF t
<1>6. "hasError" \in DOMAIN ReportLoss(t) /\ ReportLoss(t).hasError = t.hasError
  BY <1>5 DEF ReportLoss
<1>7. Drained(d) \in {t, ReportLoss(t)} BY DEF Drained, t
<1> QED BY <1>1, <1>2, <1>3, <1>4, <1>5, <1>6, <1>7

(* The counters stay numbers when they go up.                              *)
LEMMA Counted ==
  ASSUME NEW k \in Counts, NEW n \in Nat
  PROVE  /\ k.received \in Nat /\ k.transient \in Nat /\ k.dropped \in Nat /\ k.shutdown \in Nat
         /\ [k EXCEPT !.received = @ + 1] \in Counts
         /\ [k EXCEPT !.received = @ + 1, !.transient = @ + 1] \in Counts
         /\ [k EXCEPT !.dropped = @ + n] \in Counts
         /\ [k EXCEPT !.dropped = @ + 1, !.shutdown = @ + 1] \in Counts
<1>1. k.received \in Nat /\ k.transient \in Nat /\ k.dropped \in Nat /\ k.shutdown \in Nat
  BY DEF Counts
<1>2. /\ k.received + 1 \in Nat /\ k.transient + 1 \in Nat /\ k.dropped + 1 \in Nat
      /\ k.shutdown + 1 \in Nat /\ k.dropped + n \in Nat
  BY <1>1
<1>3. \A a, b \in Nat : [k EXCEPT !.received = a] \in Counts BY DEF Counts
<1>4. \A a, b \in Nat : [k EXCEPT !.received = a, !.transient = b] \in Counts
  BY DEF Counts
<1>5. \A a, b \in Nat : [k EXCEPT !.dropped = a] \in Counts BY DEF Counts
<1>6. \A a, b \in Nat : [k EXCEPT !.dropped = a, !.shutdown = b] \in Counts
  BY DEF Counts
<1> QED BY <1>1, <1>2, <1>3, <1>4, <1>5, <1>6

LEMMA FrameType ==
  ASSUME TypeOK, NEW block \in Nat
  PROVE  Frame(block) \in Frames
BY QueueFields DEF TypeOK, Frame, Frames, Counts

LEMMA WorkerTypes ==
  ASSUME TypeOK, Acquisition \/ Dsp
  PROVE  TypeOK'
<1> USE DEF lifecycle, data
<1>1. /\ hand["acquisition"] \in Nat /\ hand["dsp"] \in Nat
      /\ "acquisition" \in Workers /\ "dsp" \in Workers
  BY DEF TypeOK, Workers
<1>2. CASE AcqCheck BY <1>2 DEF TypeOK, AcqCheck
<1>3. CASE AcqRefill
  <2>1. transientLeft' \in Nat /\ count' \in Counts /\ hand' \in [Workers -> Nat]
    <3>1. transientLeft' \in Nat BY <1>3 DEF TypeOK, AcqRefill
    <3>2. count' \in Counts BY <1>3, Counted DEF TypeOK, AcqRefill
    <3>3. count.received + 1 \in Nat BY DEF TypeOK, Counts
    <3>4. hand' \in [Workers -> Nat]
      <4>1. hand' \in {hand, [hand EXCEPT !["acquisition"] = count.received + 1]}
        BY <1>3 DEF AcqRefill
      <4> QED BY <1>1, <3>3, <4>1 DEF TypeOK
    <3> QED BY <3>1, <3>2, <3>4
  <2> QED BY <1>3, <2>1 DEF TypeOK, AcqRefill
<1>4. CASE AcqRefillThrows BY <1>4 DEF TypeOK, AcqRefillThrows
<1>5. CASE AcqPush
  <2>1. acq' \in QueueRecords(Nat) /\ hand' \in [Workers -> Nat]
    BY <1>1, <1>5, QueuePush DEF TypeOK, AcqPush
  <2> QED BY <1>5, <2>1 DEF TypeOK, AcqPush
<1>6. CASE AcqCountDrop
  <2>1. count' \in Counts BY <1>6, Counted DEF TypeOK, AcqCountDrop
  <2>2. "hasError" \in DOMAIN diag' /\ diag'.hasError \in BOOLEAN
    BY <1>6, Emitted DEF TypeOK, AcqCountDrop
  <2> QED BY <1>6, <2>1, <2>2 DEF TypeOK, AcqCountDrop
<1>7. CASE AcqCountStopped
  <2>1. count' \in Counts BY <1>7, Counted DEF TypeOK, AcqCountStopped
  <2> QED BY <1>7, <2>1 DEF TypeOK, AcqCountStopped
<1>8. CASE DspPop
  <2>1. acq' \in QueueRecords(Nat) /\ hand' \in [Workers -> Nat]
    BY <1>1, <1>8, QueuePop DEF TypeOK, DspPop
  <2> QED BY <1>8, <2>1 DEF TypeOK, DspPop
<1>9. CASE DspDrained BY <1>9 DEF TypeOK, DspDrained
<1>10. CASE DspProcess
  <2>1. Frame(hand["dsp"]) \in Frames BY <1>1, FrameType
  <2>2. spectrum' \in QueueRecords(Frames) /\ latest' \in Seq(Frames)
    <3> DEFINE frame == Frame(hand["dsp"])
    <3>1. <<frame>> \in Seq(Frames) /\ <<>> \in Seq(Frames) BY <2>1
    <3>2. AfterPush(spectrum, frame) \in QueueRecords(Frames) /\ spectrum \in QueueRecords(Frames)
      BY <2>1, QueuePush DEF TypeOK
    <3>3. \/ latest' = <<frame>> /\ spectrum' = spectrum
          \/ latest' = <<>> /\ spectrum' = AfterPush(spectrum, frame)
      BY <1>10 DEF DspProcess
    <3> HIDE DEF frame
    <3> QED BY <3>1, <3>2, <3>3
  <2>3. hand' \in [Workers -> Nat] BY <1>1, <1>10 DEF TypeOK, DspProcess
  <2> QED BY <1>10, <2>2, <2>3 DEF TypeOK, DspProcess
<1>11. CASE DspThrows
  <2>1. hand' \in [Workers -> Nat] BY <1>1, <1>11 DEF TypeOK, DspThrows
  <2> QED BY <1>11, <2>1 DEF TypeOK, DspThrows
<1>12. CASE DspFlush
  <2>1. latest # <<>> => latest[1] \in Frames BY EmptySeq DEF TypeOK
  <2>2. spectrum' \in QueueRecords(Frames) /\ latest' \in Seq(Frames)
    BY <1>12, <2>1, QueuePush DEF TypeOK, DspFlush
  <2> QED BY <1>12, <2>2 DEF TypeOK, DspFlush
<1>13. ASSUME NEW w, EmitFailure(w) PROVE TypeOK'
  <2>1. "hasError" \in DOMAIN diag' /\ diag'.hasError \in BOOLEAN
    BY <1>13, Emitted DEF TypeOK, EmitFailure
  <2> QED BY <1>13, <2>1 DEF TypeOK, EmitFailure
<1>14. ASSUME NEW w, MarkError(w) PROVE TypeOK'
  <2>1. "hasError" \in DOMAIN diag' /\ diag'.hasError \in BOOLEAN /\ state' \in States
    BY <1>14 DEF TypeOK, MarkError, States
  <2> QED BY <1>14, <2>1 DEF TypeOK, MarkError
<1>15. ASSUME NEW t, Closing(t) PROVE TypeOK'
  <2>1. CASE StopToken(t) BY <2>1 DEF TypeOK, StopToken
  <2>2. CASE Cancel(t)
    <3>1. device' \in Devices BY <2>2 DEF TypeOK, Cancel, Devices
    <3> QED BY <2>2, <3>1 DEF TypeOK, Cancel
  <2>3. CASE CloseQueue(t)
    <3>1. acq' \in QueueRecords(Nat) BY <2>3, QueueStops DEF TypeOK, CloseQueue
    <3> QED BY <2>3, <3>1 DEF TypeOK, CloseQueue
  <2> QED BY <1>15, <2>1, <2>2, <2>3 DEF Closing
<1> HIDE DEF TypeOK
<1> QED BY <1>2, <1>3, <1>4, <1>5, <1>6, <1>7, <1>8, <1>9, <1>10, <1>11, <1>12, <1>13, <1>14,
           <1>15 DEF Acquisition, Dsp

LEMMA CallerTypes ==
  ASSUME TypeOK, NEW c \in Callers, Call(c) \/ Continue(c)
  PROVE  TypeOK'
<1> USE DEF lifecycle, data
<1>1. /\ c \in Callers \cup {"free"} /\ "free" \in Callers \cup {"free"}
      /\ {"Configured", "Running", "Stopping", "Stopped", "Error"} \subseteq States
      /\ TransientBlocks \in Nat /\ generation + 1 \in Nat
  BY BoundsAssumption DEF States, TypeOK
<1>2. /\ NewQueue(SpectrumCapacity, "LatestWins") \in QueueRecords(Frames)
      /\ NewQueue(1, "Block") \in QueueRecords(Nat)
      /\ \A capacity \in AcqCapacities, policy \in AcqPolicies :
           NewQueue(capacity, policy) \in QueueRecords(Nat)
      /\ \A k : /\ "hasError" \in DOMAIN NewDiagnostics(k)
                /\ NewDiagnostics(k).hasError = FALSE
  <2>1. /\ 1 \in Nat \ {0} /\ "LatestWins" \in Policies /\ "Block" \in Policies
    BY DEF Policies
  <2>2. \A k : "hasError" \in DOMAIN NewDiagnostics(k) /\ NewDiagnostics(k).hasError = FALSE
    BY DEF NewDiagnostics
  <2>3. \A capacity \in AcqCapacities : capacity \in Nat \ {0}
    BY CapacityAssumption
  <2>4. \A policy \in AcqPolicies : policy \in Policies BY CapacityAssumption
  <2>5. SpectrumCapacity \in Nat \ {0} BY CapacityAssumption
  <2>6. \A capacity \in Nat \ {0}, policy \in Policies :
          /\ NewQueue(capacity, policy) \in QueueRecords(Nat)
          /\ NewQueue(capacity, policy) \in QueueRecords(Frames)
    BY QueueStarts
  <2> QED BY <2>1, <2>2, <2>3, <2>4, <2>5, <2>6
<1>3. CASE Configure(c)
  <2>1. acq' \in QueueRecords(Nat) /\ spectrum' \in QueueRecords(Frames)
    BY <1>2, <1>3 DEF Configure
  <2>2. "hasError" \in DOMAIN diag' /\ diag'.hasError \in BOOLEAN
    BY <1>2, <1>3, Emitted DEF Configure
  <2>3. device' \in Devices BY <1>3 DEF Configure, TypeOK, Devices
  <2>4. count' \in Counts BY <1>3 DEF Configure, Counts
  <2> QED BY <1>1, <1>3, <2>1, <2>2, <2>3, <2>4 DEF TypeOK, Configure
<1>4. CASE ConfigureDeviceFails(c)
  <2>1. device' \in Devices BY <1>4 DEF ConfigureDeviceFails, TypeOK, Devices
  <2> QED BY <1>1, <1>4, <2>1 DEF TypeOK, ConfigureDeviceFails
<1>5. CASE Start(c)
  <2>1. device' \in Devices /\ latest' \in Seq(Frames)
    <3>1. device' \in Devices BY <1>5 DEF Start, TypeOK, Devices
    <3>2. latest' = <<>> /\ <<>> \in Seq(Frames) BY <1>5 DEF Start
    <3> QED BY <3>1, <3>2
  <2> QED BY <1>1, <1>5, <2>1 DEF TypeOK, Start
<1>6. CASE StartSpawnFails(c)
  <2>1. device' \in Devices /\ latest' \in Seq(Frames)
    <3>1. device' \in Devices BY <1>6 DEF StartSpawnFails, TypeOK, Devices
    <3>2. latest' = <<>> /\ <<>> \in Seq(Frames) BY <1>6 DEF StartSpawnFails
    <3> QED BY <3>1, <3>2
  <2> QED BY <1>1, <1>6, <2>1 DEF TypeOK, StartSpawnFails
<1>7. CASE AbortStart(c)
  <2>1. device' \in Devices /\ "hasError" \in DOMAIN diag' /\ diag'.hasError \in BOOLEAN
    BY <1>7 DEF AbortStart, TypeOK, Devices
  <2> QED BY <1>1, <1>7, <2>1 DEF TypeOK, AbortStart
<1>8. CASE Announce(c)
  <2>1. "hasError" \in DOMAIN diag' /\ diag'.hasError \in BOOLEAN
    BY <1>8, Emitted DEF Announce, TypeOK
  <2> QED BY <1>1, <1>8, <2>1 DEF TypeOK, Announce
<1>9. CASE JoinWorkers(c)
  <2>1. device' \in Devices BY <1>9 DEF JoinWorkers, TypeOK, Devices
  <2>2. acq' \in QueueRecords(Nat)
    BY <1>9, QueueAbandons DEF JoinWorkers, TypeOK
  <2>3. count' \in Counts
    <3>1. Len(acq.items) \in Nat BY QueueFields DEF TypeOK
    <3> QED BY <1>9, <3>1, Counted DEF JoinWorkers, TypeOK
  <2>4. "hasError" \in DOMAIN diag' /\ diag'.hasError \in BOOLEAN
    BY <1>9, Emitted DEF JoinWorkers, TypeOK
  <2> QED BY <1>1, <1>9, <2>1, <2>2, <2>3, <2>4 DEF TypeOK, JoinWorkers
<1>10. CASE ForceJoin(c)
  <2>1. device' \in Devices BY <1>10 DEF ForceJoin, TypeOK, Devices
  <2> QED BY <1>10, <2>1 DEF TypeOK, ForceJoin
<1>11. CASE Finalize(c)
  <2>1. device' \in Devices BY <1>11 DEF Finalize, Devices
  <2>2. acq' \in QueueRecords(Nat) /\ spectrum' \in QueueRecords(Frames)
    BY <1>2, <1>11, QueueStops DEF Finalize
  <2> QED BY <1>1, <1>11, <2>1, <2>2 DEF TypeOK, Finalize
<1>12. CASE PollSpectrum(c)
  <2>1. spectrum' \in QueueRecords(Frames)
    BY <1>12, QueuePop DEF PollSpectrum, TypeOK
  <2> QED BY <1>12, <2>1 DEF TypeOK, PollSpectrum
<1>13. CASE PollEvents(c)
  <2>1. "hasError" \in DOMAIN diag' /\ diag'.hasError \in BOOLEAN
    BY <1>13, Emitted DEF PollEvents, TypeOK
  <2> QED BY <1>13, <2>1 DEF TypeOK, PollEvents
<1>14. CASE Closing(c)
  <2>1. CASE StopToken(c) BY <2>1 DEF TypeOK, StopToken
  <2>2. CASE Cancel(c)
    <3>1. device' \in Devices BY <2>2 DEF TypeOK, Cancel, Devices
    <3> QED BY <2>2, <3>1 DEF TypeOK, Cancel
  <2>3. CASE CloseQueue(c)
    <3>1. acq' \in QueueRecords(Nat) BY <2>3, QueueStops DEF TypeOK, CloseQueue
    <3> QED BY <2>3, <3>1 DEF TypeOK, CloseQueue
  <2> QED BY <1>14, <2>1, <2>2, <2>3 DEF Closing
<1>15. CASE StartDeviceFails(c) BY <1>1, <1>15 DEF TypeOK, StartDeviceFails
<1>16. CASE RequestStop(c) BY <1>1, <1>16 DEF TypeOK, RequestStop
<1>17. CASE Join(c) BY <1>1, <1>17 DEF TypeOK, Join
<1>18. CASE Sweep(c) BY <1>1, <1>18 DEF TypeOK, Sweep
<1>19. CASE ConfigurePasses(c) \/ ConfigureThrows(c) \/ StartPasses(c) \/ StartRefused(c)
  BY <1>1, <1>19 DEF TypeOK, ConfigurePasses, ConfigureThrows, StartPasses, StartRefused
<1>20. CASE Release(c) \/ RaiseFlag(c) \/ Settled(c)
  BY <1>1, <1>20 DEF TypeOK, Release, RaiseFlag, Settled
<1>21. CASE Shutdown(c) \/ ShutdownJoin(c) \/ Call(c)
  BY <1>21 DEF TypeOK, Shutdown, ShutdownJoin, Call
<1> HIDE DEF TypeOK
<1> QED BY <1>3, <1>4, <1>5, <1>6, <1>7, <1>8, <1>9, <1>10, <1>11, <1>12, <1>13, <1>14, <1>15,
           <1>16, <1>17, <1>18, <1>19, <1>20, <1>21 DEF Continue

-----------------------------------------------------------------------------
(* How a call goes on                                                      *)

Others(c) == \A d \in Callers : d # c => Step(d)' = Step(d) /\ Todo(d)' = Todo(d)
CallersStay == \A d \in Callers : Step(d)' = Step(d) /\ Todo(d)' = Todo(d)
WorkersStay == \A w \in Workers : Step(w)' = Step(w)

LEMMA Moved ==
  /\ \A c \in Callers : \A x, S :
       Moves(c, x, S) => Step(c)' = x /\ Todo(c)' = S /\ Others(c) /\ WorkersStay
  /\ \A w \in Workers : \A x :
       Turns(w, x) => /\ Step(w)' = x /\ CallersStay
                      /\ \A v \in Workers : v # w => Step(v)' = Step(v)
<1>1. /\ \A c \in Callers : c \in Threads /\ c \notin Workers
      /\ \A w \in Workers : w \in Threads /\ w \notin Callers
  BY StepNames
<1>2. \A c \in Callers : \A x, S :
        Moves(c, x, S) => Step(c)' = x /\ Todo(c)' = S /\ Others(c) /\ WorkersStay
  BY <1>1 DEF Moves, Others, WorkersStay
<1>3. ASSUME NEW w \in Workers, NEW x, Turns(w, x)
      PROVE  /\ Step(w)' = x /\ CallersStay
             /\ \A v \in Workers : v # w => Step(v)' = Step(v)
  <2>1. PICK S : Moves(w, x, S)
    BY <1>3 DEF Turns
  <2> QED BY <1>1, <2>1 DEF Moves, CallersStay
<1> QED BY <1>2, <1>3

(* Workers are done when they are idle.                                    *)
LEMMA IdleIsDone ==
  ASSUME Scripted
  PROVE  WorkersDone <=> Idle
<1>1. \A w \in Workers : script[w] = <<>> <=> Step(w) = "idle"
  <2>1. \A w \in Workers : w \in Threads BY StepNames
  <2>2. "check" \in AllSteps BY DEF AllSteps, WorkerSteps, LoopSteps
  <2> QED BY <2>1, <2>2, IsAt
<1> QED BY <1>1 DEF WorkersDone, Idle

(* A disconnect() that has begun has begun by raising the flag, and is     *)
(* late once it has swept up; a forced shutdown comes from a failure in    *)
(* it; nobody comes to configure or start once the flag is raised.         *)
Proceeds(c) ==
  /\ Scripted' /\ Others(c)
  /\ "raiseFlag" \notin Todo(c)'
  /\ Todo(c)' \cap FinalSteps # {} => Todo(c) \cap FinalSteps # {}
  /\ Late(c)' => Late(c) \/ Step(c) = "sweep"
  /\ "forceJoin" \in Todo(c)' => "forceJoin" \in Todo(c) \/ (Ready /\ "settled" \in Todo(c))
  /\ Todo(c)' \cap {"apply", "startStream"} # {} =>
       Todo(c) \cap {"apply", "startStream"} # {} \/ ~disconnecting
  /\ Step(c)' \in {"settled", "finalize"} =>
       \/ Step(c) = "settled"
       \/ Step(c) = "shutdownJoin" /\ state \notin {"Stopping", "Error"}
       \/ Step(c) = "join" /\ state = "Stopped"
       \/ Step(c) \in {"joinWorkers", "forceJoin"} /\ Idle

(* A step that closes nothing down leaves the rest of the call to do, with *)
(* steps A put before it, or nothing.                                      *)
LEMMA Proceeding ==
  ASSUME Scripted, NEW c \in Callers, NEW x \in CallerSteps \ ClosingSteps, Step(c) = x,
         NEW S, NEW A \in SUBSET (CallerSteps \ {"finalize", "raiseFlag"}),
         S = Later(c) \cup A \/ S = {},
         Todo(c)' = S, Others(c), Scripted',
         x \in FinalSteps \/ A \cap FinalSteps = {},
         "forceJoin" \notin A,
         A \cap {"apply", "startStream"} # {} => ~disconnecting,
         Step(c)' \in {"settled", "finalize"} =>
           \/ x = "settled"
           \/ x = "shutdownJoin" /\ state \notin {"Stopping", "Error"}
           \/ x = "join" /\ state = "Stopped"
           \/ x \in {"joinWorkers", "forceJoin"} /\ Idle
  PROVE  Proceeds(c)
<1>1. /\ Todo(c) = {x} \cup Later(c)
      /\ Later(c) \subseteq CallerSteps \ (FrontSteps \cup {"raiseFlag"})
  BY CallerRest
<1>2. {"apply", "startStream", "forceJoin"} \subseteq FrontSteps BY CallerNames
<1>3. "raiseFlag" \notin Todo(c)' BY <1>1
<1>4. Todo(c)' \cap FinalSteps # {} => Todo(c) \cap FinalSteps # {} BY <1>1
<1>5. Late(c)' => Late(c) \/ Step(c) = "sweep" BY <1>1 DEF Late
<1>6. "forceJoin" \notin Todo(c)' BY <1>1, <1>2
<1>7. Todo(c)' \cap {"apply", "startStream"} # {} => ~disconnecting
  BY <1>1, <1>2
<1> QED BY <1>3, <1>4, <1>5, <1>6, <1>7 DEF Proceeds

LEMMA CallerProceeds ==
  ASSUME Scripted, NEW c \in Callers, Continue(c)
  PROVE  Proceeds(c)
<1>1. /\ HoldingSteps \cup EndsOfClosing \cup FinalSteps \subseteq CallerSteps \ ClosingSteps
      /\ {"configure", "start", "requestStop", "join", "raiseFlag", "pollEvents", "pollSpectrum"}
           \subseteq CallerSteps \ (ClosingSteps \cup FrontSteps)
      /\ {"apply", "startStream", "announce", "release", "abortStart", "joinWorkers"} = HoldingSteps
      /\ {"shutdown", "shutdownJoin", "settled", "sweep", "finalize", "forceJoin"} = FinalSteps
      /\ {"stopToken", "cancel", "closeQueue"} = ClosingSteps
  BY CallerNames
<1>2. \A x, S : Moves(c, x, S) => Step(c)' = x /\ Todo(c)' = S /\ Others(c)
  BY Moved
<1>3. ASSUME NEW x \in CallerSteps \ ClosingSteps, Step(c) = x, Scripted',
             Moves(c, NextStep(c), Later(c)),
             x \in {"shutdownJoin"} => state \notin {"Stopping", "Error"},
             x \in {"join"} => state = "Stopped",
             x \in {"joinWorkers", "forceJoin"} => Idle,
             x # "shutdown"
      PROVE  Proceeds(c)
  <2>1. NextStep(c) \in {"settled", "finalize"} =>
          x \in {"settled", "shutdownJoin", "join", "joinWorkers", "forceJoin"}
    BY <1>3, CallerRest
  <2> DEFINE A == {}
  <2>2. /\ Later(c) = Later(c) \cup A /\ A \in SUBSET (CallerSteps \ {"finalize", "raiseFlag"})
        /\ A \cap FinalSteps = {} /\ "forceJoin" \notin A /\ A \cap {"apply", "startStream"} = {}
    OBVIOUS
  <2>3. Step(c)' = NextStep(c) /\ Todo(c)' = Later(c) \cup A /\ Others(c)
    BY <1>2, <1>3
  <2> HIDE DEF A
  <2> QED BY <1>3, <2>1, <2>2, <2>3, Proceeding
<1>4. CASE Configure(c) \/ Announce(c) \/ Release(c) \/ RaiseFlag(c) \/ Settled(c) \/ Finalize(c)
             \/ PollSpectrum(c) \/ PollEvents(c)
  <2>1. /\ Step(c) \in {"apply", "announce", "release", "raiseFlag", "settled", "finalize",
                        "pollSpectrum", "pollEvents"}
        /\ Scripted' /\ Moves(c, NextStep(c), Later(c))
    BY <1>4, CallerAdvances
  <2>2. Step(c) \in CallerSteps \ ClosingSteps BY <1>1, <2>1
  <2> QED BY <1>3, <2>1, <2>2
<1>5. CASE JoinWorkers(c) \/ ForceJoin(c)
  <2>1. /\ Step(c) \in {"joinWorkers", "forceJoin"}
        /\ Scripted' /\ Moves(c, NextStep(c), Later(c))
    BY <1>5, CallerAdvances
  <2>2. Idle BY <1>5, IdleIsDone DEF JoinWorkers, ForceJoin
  <2>3. Step(c) \in CallerSteps \ ClosingSteps BY <1>1, <2>1
  <2> QED BY <1>3, <2>1, <2>2, <2>3
<1>6. CASE ConfigureThrows(c) \/ ConfigureDeviceFails(c) \/ StartRefused(c) \/ StartDeviceFails(c)
             \/ AbortStart(c)
  <2>1. /\ Step(c) \in {"configure", "apply", "start", "startStream", "abortStart"}
        /\ Scripted' /\ Moves(c, "idle", {})
    BY <1>6, CallerThrows
  <2>2. Step(c) \in CallerSteps \ ClosingSteps BY <1>1, <2>1
  <2>3. Step(c)' = "idle" /\ Todo(c)' = {} /\ Others(c) BY <1>2, <2>1
  <2> QED BY <2>1, <2>2, <2>3, Proceeding
<1>7. CASE ConfigurePasses(c) \/ StartPasses(c)
  <2>1. /\ Step(c) \in {"configure", "start"} /\ Scripted'
        /\ \E y \in {"apply", "startStream"} : Moves(c, y, {y} \cup Later(c))
    BY <1>7, CallerPasses
  <2>2. ~disconnecting BY <1>7 DEF ConfigurePasses, StartPasses
  <2>3. PICK y \in {"apply", "startStream"} : Moves(c, y, {y} \cup Later(c))
    BY <2>1
  <2>4. /\ Step(c) \in CallerSteps \ ClosingSteps /\ y \in CallerSteps
        /\ y \notin FinalSteps \cup {"finalize", "raiseFlag", "forceJoin"}
    BY <1>1, <2>1
  <2>5. Step(c)' = y /\ Todo(c)' = Later(c) \cup {y} /\ Others(c) BY <1>2, <2>3
  <2> DEFINE A == {y}
  <2>6. /\ A \in SUBSET (CallerSteps \ {"finalize", "raiseFlag"}) /\ A \cap FinalSteps = {}
        /\ "forceJoin" \notin A /\ y \notin {"settled", "finalize"}
    BY <2>4
  <2>7. Todo(c)' = Later(c) \cup A BY <2>5
  <2> HIDE DEF A
  <2> QED BY <2>1, <2>2, <2>4, <2>5, <2>6, <2>7, Proceeding
<1>8. CASE Start(c)
  <2>1. /\ Step(c) = "startStream" /\ Scripted' /\ Step(c)' = "announce"
        /\ Todo(c)' = {"announce"} \cup Later(c) /\ Others(c)
    BY <1>8, StartMoves DEF Others
  <2> DEFINE A == {"announce"}
  <2>2. /\ A \in SUBSET (CallerSteps \ {"finalize", "raiseFlag"}) /\ A \cap FinalSteps = {}
        /\ "forceJoin" \notin A /\ A \cap {"apply", "startStream"} = {}
        /\ "startStream" \in CallerSteps \ ClosingSteps
    BY <1>1
  <2>3. Todo(c)' = Later(c) \cup A BY <2>1
  <2> HIDE DEF A
  <2> QED BY <2>1, <2>2, <2>3, Proceeding
<1>9. CASE StartSpawnFails(c)
  <2>1. /\ Step(c) = "startStream" /\ Scripted' /\ Step(c)' = "stopToken"
        /\ Todo(c)' = ClosingSteps \cup {"abortStart"} /\ Others(c)
    BY <1>9, SpawnFailsMoves DEF Others
  <2>2. Todo(c)' \cap (FinalSteps \cup {"raiseFlag", "apply", "startStream"}) = {}
    BY <1>1, <2>1
  <2>3. "finalize" \in FinalSteps /\ "forceJoin" \in FinalSteps BY <1>1
  <2> QED BY <2>1, <2>2, <2>3 DEF Proceeds, Late
<1>10. ASSUME Step(c) \in {"requestStop", "sweep"}, Scripted', ClosesWith(c, "release")
       PROVE  Proceeds(c)
  <2> DEFINE A == ClosingSteps \cup {"release"}
  <2>1. /\ A \in SUBSET (CallerSteps \ {"finalize", "raiseFlag"}) /\ A \cap FinalSteps = {}
        /\ "forceJoin" \notin A /\ A \cap {"apply", "startStream"} = {}
        /\ Step(c) \in CallerSteps \ ClosingSteps
    BY <1>1, <1>10 DEF CallerSteps, FrontSteps
  <2>2. Step(c)' = "stopToken" /\ Todo(c)' = ClosingSteps \cup {"release"} \cup Later(c) /\ Others(c)
    BY <1>2, <1>10 DEF ClosesWith
  <2>3. Todo(c)' = Later(c) \cup A BY <2>2
  <2> HIDE DEF A
  <2> QED BY <1>10, <2>1, <2>2, <2>3, Proceeding
<1>11. ASSUME Step(c) \in {"requestStop", "join"}, Fail(c), Ready
       PROVE  Proceeds(c)
  <2>1. /\ Step(c) \in CallerSteps \ ClosingSteps
        /\ \/ Moves(c, "idle", {})
           \/ /\ "settled" \in Todo(c)
              /\ \E S \in SUBSET Later(c) :
                   /\ "sweep" \in Todo(c) => "sweep" \in S
                   /\ Moves(c, "stopToken", ClosingSteps \cup {"forceJoin"} \cup S)
        /\ Scripted'
    BY <1>1, <1>11, Forced
  <2>2. CASE Moves(c, "idle", {})
    <3>1. Step(c)' = "idle" /\ Todo(c)' = {} /\ Others(c) BY <1>2, <2>2
    <3> QED BY <2>1, <3>1, Proceeding
  <2>3. ASSUME "settled" \in Todo(c), NEW S \in SUBSET Later(c),
               "sweep" \in Todo(c) => "sweep" \in S,
               Moves(c, "stopToken", ClosingSteps \cup {"forceJoin"} \cup S)
        PROVE  Proceeds(c)
    <3>1. /\ Step(c)' = "stopToken" /\ Others(c)
          /\ Todo(c)' = ClosingSteps \cup {"forceJoin"} \cup S
      BY <1>2, <2>3
    <3>2. /\ Later(c) \cap {"raiseFlag", "apply", "startStream"} = {} /\ Later(c) \subseteq Todo(c)
      <4>1. /\ Todo(c) = {Step(c)} \cup Later(c)
            /\ Later(c) \subseteq CallerSteps \ (FrontSteps \cup {"raiseFlag"})
        BY <2>1, CallerRest
      <4> QED BY <1>1, <4>1, CallerNames
    <3>3. "raiseFlag" \notin Todo(c)' /\ Todo(c)' \cap {"apply", "startStream"} = {}
      BY <1>1, <3>1, <3>2
    <3>4. "settled" \in FinalSteps BY <1>1
    <3>5. Late(c)' => Late(c)
      <4>1. "finalize" \in Todo(c)' => "finalize" \in Todo(c)
        BY <1>1, <3>1, <3>2
      <4>2. "sweep" \in Todo(c) => "sweep" \in Todo(c)' BY <2>3, <3>1
      <4> QED BY <4>1, <4>2 DEF Late
    <3> QED BY <1>11, <2>1, <2>3, <3>1, <3>3, <3>4, <3>5 DEF Proceeds
  <2> QED BY <2>1, <2>2, <2>3
<1>12. CASE RequestStop(c)
  <2>1. /\ Step(c) = "requestStop" /\ Scripted' /\ Ready
        /\ \/ ClosesWith(c, "release") \/ Moves(c, NextStep(c), Later(c)) \/ Fail(c)
    BY <1>12, CallerTurns DEF RequestStop
  <2>2. "requestStop" \in CallerSteps \ ClosingSteps BY <1>1
  <2> QED BY <1>3, <1>10, <1>11, <2>1, <2>2
<1>13. CASE Sweep(c)
  <2>1. /\ Step(c) = "sweep" /\ Scripted'
        /\ \/ ClosesWith(c, "release") \/ Moves(c, NextStep(c), Later(c))
    BY <1>13, CallerTurns
  <2>2. "sweep" \in CallerSteps \ ClosingSteps BY <1>1
  <2> QED BY <1>3, <1>10, <2>1, <2>2
<1>14. CASE Join(c)
  <2>1. /\ Step(c) = "join" /\ Scripted' /\ Ready
        /\ \/ state = "Stopped" /\ Moves(c, NextStep(c), Later(c))
           \/ Moves(c, "joinWorkers", {"joinWorkers"} \cup Later(c))
           \/ Fail(c)
    BY <1>14, CallerTurns DEF Join
  <2>2. "join" \in CallerSteps \ ClosingSteps BY <1>1
  <2>3. CASE Moves(c, "joinWorkers", {"joinWorkers"} \cup Later(c))
    <3> DEFINE A == {"joinWorkers"}
    <3>1. /\ A \in SUBSET (CallerSteps \ {"finalize", "raiseFlag"}) /\ A \cap FinalSteps = {}
          /\ "forceJoin" \notin A /\ A \cap {"apply", "startStream"} = {}
      BY <1>1
    <3>2. Step(c)' = "joinWorkers" /\ Todo(c)' = Later(c) \cup A /\ Others(c)
      BY <1>2, <2>3
    <3> HIDE DEF A
    <3> QED BY <2>1, <2>2, <3>1, <3>2, Proceeding
  <2> QED BY <1>3, <1>11, <2>1, <2>2, <2>3
<1>15. CASE Shutdown(c)
  <2>1. /\ Step(c) = "shutdown" /\ Scripted'
        /\ \/ Moves(c, "requestStop", {"requestStop", "shutdownJoin", "settled"} \cup Later(c))
           \/ Moves(c, "shutdownJoin", {"shutdownJoin", "settled"} \cup Later(c))
    BY <1>15, CallerShutsDown
  <2>2. "shutdown" \in CallerSteps \ ClosingSteps /\ "shutdown" \in FinalSteps
    BY <1>1
  <2>3. PICK A \in {{"requestStop", "shutdownJoin", "settled"}, {"shutdownJoin", "settled"}},
             y \in {"requestStop", "shutdownJoin"} : Moves(c, y, A \cup Later(c))
    BY <2>1
  <2>4. /\ A \in SUBSET (CallerSteps \ {"finalize", "raiseFlag"})
        /\ "forceJoin" \notin A /\ A \cap {"apply", "startStream"} = {}
        /\ y \notin {"settled", "finalize"}
    BY <1>1
  <2>5. Step(c)' = y /\ Todo(c)' = Later(c) \cup A /\ Others(c) BY <1>2, <2>3
  <2> QED BY <2>1, <2>2, <2>4, <2>5, Proceeding
<1>16. CASE ShutdownJoin(c)
  <2>1. /\ Step(c) = "shutdownJoin" /\ Scripted'
        /\ IF state \in {"Stopping", "Error"} THEN Moves(c, "join", {"join"} \cup Later(c))
           ELSE Moves(c, NextStep(c), Later(c))
    BY <1>16, CallerShutsDown
  <2>2. "shutdownJoin" \in CallerSteps \ ClosingSteps BY <1>1
  <2>3. CASE Moves(c, "join", {"join"} \cup Later(c))
    <3> DEFINE A == {"join"}
    <3>1. /\ A \in SUBSET (CallerSteps \ {"finalize", "raiseFlag"}) /\ A \cap FinalSteps = {}
          /\ "forceJoin" \notin A /\ A \cap {"apply", "startStream"} = {}
      BY <1>1
    <3>2. Step(c)' = "join" /\ Todo(c)' = Later(c) \cup A /\ Others(c)
      BY <1>2, <2>3
    <3> HIDE DEF A
    <3> QED BY <2>1, <2>2, <3>1, <3>2, Proceeding
  <2> QED BY <1>3, <2>1, <2>2, <2>3
<1>17. CASE Closing(c)
  <2>1. /\ Scripted' /\ Moves(c, NextStep(c), Later(c)) /\ Todo(c) = {Step(c)} \cup Later(c)
        /\ Step(c) \in ClosingSteps /\ NextStep(c) \notin {"settled", "finalize"}
    BY <1>17, StepNames, ClosingMoves
  <2>2. Step(c)' = NextStep(c) /\ Todo(c)' = Later(c) /\ Others(c)
    BY <1>2, <2>1
  <2>3. "raiseFlag" \notin Later(c)
    <3>1. \A b \in Later(c) : MayFollow(Step(c), b)
      <4>1. Step(c) \in AllSteps /\ c \in Threads
        BY <2>1, StepNames DEF AllSteps, CallerSteps, FrontSteps
      <4> QED BY <4>1, IsAt
    <3> QED BY <3>1 DEF MayFollow
  <2>4. Late(c)' => Late(c) BY <1>1, <2>1, <2>2 DEF Late
  <2> QED BY <2>1, <2>2, <2>3, <2>4 DEF Proceeds
<1> QED BY <1>4, <1>5, <1>6, <1>7, <1>8, <1>9, <1>12, <1>13, <1>14, <1>15, <1>16, <1>17 DEF Continue

-----------------------------------------------------------------------------
(* The lock and the session under the calls                                *)

(* While c has the lock, or nobody, the others have no step to take that   *)
(* needs it: c may change what they would rely on.                         *)
LEMMA HolderChanges ==
  ASSUME Locking, Sessions, NEW c \in Callers, Others(c),
         lock' = lock \/ lock \in {"free", c},
         Todo(c)' \cap HoldingSteps # {} => lock' = c,
         \/ lock \in {"free", c}
         \/ state' = state /\ device'.connected = device.connected /\ (dirty => dirty'),
         "apply" \in Todo(c)' => state' \in Configurable /\ device'.connected,
         "startStream" \in Todo(c)' => state' = "Configured" /\ device'.connected,
         "abortStart" \in Todo(c)' => state' \in InSession /\ dirty',
         ~Idle' => state' \in InSession /\ device'.connected
  PROVE  Locking' /\ Sessions'
<1>1. ASSUME NEW d \in Callers, d # c, Todo(d) \cap HoldingSteps # {}
      PROVE  lock = d /\ lock \notin {"free", c}
  <2>1. d # "free" BY CallersAssumption
  <2> QED BY <1>1, <2>1 DEF Locking
<1>2. Locking'
  <2> SUFFICES ASSUME NEW d \in Callers, (Todo(d) \cap HoldingSteps # {})'
               PROVE  lock' = d
    BY DEF Locking
  <2>1. CASE d = c BY <2>1
  <2>2. CASE d # c
    <3>1. Todo(d)' = Todo(d) BY <2>2 DEF Others
    <3> QED BY <1>1, <2>2, <3>1
  <2> QED BY <2>1, <2>2
<1>3. {"apply", "startStream", "abortStart"} \subseteq HoldingSteps
  BY CallerNames
<1>4. ASSUME NEW d \in Callers
      PROVE  /\ "apply" \in Todo(d)' => state' \in Configurable /\ device'.connected
             /\ "startStream" \in Todo(d)' => state' = "Configured" /\ device'.connected
             /\ "abortStart" \in Todo(d)' => state' \in InSession /\ dirty'
  <2>1. CASE d = c BY <2>1
  <2>2. CASE d # c
    <3>1. Todo(d)' = Todo(d) BY <2>2 DEF Others
    <3>2. Todo(d) \cap {"apply", "startStream", "abortStart"} # {} =>
            state' = state /\ device'.connected = device.connected /\ (dirty => dirty')
      BY <1>1, <1>3, <2>2
    <3> QED BY <3>1, <3>2 DEF Sessions
  <2> QED BY <2>1, <2>2
<1> QED BY <1>2, <1>4 DEF Sessions

(* A step that leaves alone what the others rely on.                       *)
LEMMA NothingChanges ==
  ASSUME Locking, Sessions, NEW c \in Callers, Others(c), WorkersStay,
         Todo(c)' \cap HoldingSteps \subseteq Todo(c),
         lock' = lock, state' = state, device'.connected = device.connected, dirty => dirty'
  PROVE  Locking' /\ Sessions'
<1>1. {"apply", "startStream", "abortStart"} \subseteq HoldingSteps
  BY CallerNames
<1>2. Idle' = Idle BY DEF Idle, WorkersStay
<1>3. Todo(c)' \cap HoldingSteps # {} => lock' = c BY DEF Locking
<1>4. /\ "apply" \in Todo(c)' => state' \in Configurable /\ device'.connected
      /\ "startStream" \in Todo(c)' => state' = "Configured" /\ device'.connected
      /\ "abortStart" \in Todo(c)' => state' \in InSession /\ dirty'
      /\ ~Idle' => state' \in InSession /\ device'.connected
  BY <1>1, <1>2 DEF Sessions
<1> QED BY <1>3, <1>4, HolderChanges

LEMMA LaterHoldsNothing ==
  ASSUME Scripted, NEW c \in Callers, NEW x \in CallerSteps \ ClosingSteps, Step(c) = x
  PROVE  Later(c) \cap HoldingSteps = {} /\ x \in Todo(c)
<1>1. Later(c) \subseteq CallerSteps \ (FrontSteps \cup {"raiseFlag"}) /\ Todo(c) = {x} \cup Later(c)
  BY CallerRest
<1> QED BY <1>1, CallerNames

(* The actions that take, keep or give back the lock, ...                  *)
LEMMA HoldersKeepSessions ==
  ASSUME TypeOK, Scripted, Locking, Sessions, Disconnecting, NEW c \in Callers
  PROVE  /\ ConfigurePasses(c) => Locking' /\ Sessions'
         /\ Configure(c) => Locking' /\ Sessions'
         /\ ConfigureDeviceFails(c) => Locking' /\ Sessions'
         /\ StartPasses(c) => Locking' /\ Sessions'
         /\ StartDeviceFails(c) => Locking' /\ Sessions'
         /\ Start(c) => Locking' /\ Sessions'
         /\ StartSpawnFails(c) => Locking' /\ Sessions'
         /\ AbortStart(c) => Locking' /\ Sessions'
         /\ Announce(c) \/ Release(c) => Locking' /\ Sessions'
         /\ JoinWorkers(c) => Locking' /\ Sessions'
         /\ Finalize(c) => Locking' /\ Sessions'
<1>1. /\ HoldingSteps \cup EndsOfClosing \cup FinalSteps \subseteq CallerSteps \ ClosingSteps
      /\ {"configure", "start"} \subseteq CallerSteps \ ClosingSteps
      /\ {"apply", "startStream", "announce", "release", "abortStart", "joinWorkers"} = HoldingSteps
      /\ {"shutdown", "shutdownJoin", "settled", "sweep", "finalize", "forceJoin"} = FinalSteps
  BY CallerNames
<1>2. \A x, S : Moves(c, x, S) => Step(c)' = x /\ Todo(c)' = S /\ Others(c) /\ WorkersStay
  BY Moved
<1>3. \A x \in CallerSteps \ ClosingSteps :
        Step(c) = x => Later(c) \cap HoldingSteps = {} /\ x \in Todo(c)
  BY LaterHoldsNothing
<1>4. \A x \in HoldingSteps : x \in Todo(c) => lock = c BY DEF Locking
<1>5. ~disconnecting => device.connected BY DEF Disconnecting, NoMoreSessions
<1>6. WorkersStay => Idle' = Idle BY DEF WorkersStay, Idle
<1>7. device \in Devices BY DEF TypeOK
<1>8. /\ state \in Configurable => Idle
      /\ "Configured" \in Configurable /\ "Running" \in InSession /\ "Stopping" \in InSession
      /\ "Error" \in InSession
  BY DEF Sessions, Configurable, InSession
<1>9. CASE ConfigurePasses(c)
  <2>1. /\ Step(c) = "configure" /\ Todo(c)' = {"apply"} \cup Later(c) /\ Others(c) /\ WorkersStay
    BY <1>2, <1>9, CallerPasses
  <2>2. Later(c) \cap HoldingSteps = {} BY <1>1, <1>3, <2>1
  <2>3. /\ lock = "free" /\ lock' = c /\ ~disconnecting /\ state \in Configurable
        /\ state' = state /\ device' = device
    BY <1>9 DEF ConfigurePasses, Ready
  <2> QED BY <1>1, <1>5, <1>6, <1>8, <2>1, <2>2, <2>3, HolderChanges
<1>10. CASE Configure(c)
  <2>1. Step(c) = "apply" /\ Todo(c)' = Later(c) /\ Others(c) /\ WorkersStay
    BY <1>2, <1>10, CallerAdvances
  <2>2. Later(c) \cap HoldingSteps = {} /\ lock = c /\ "apply" \in Todo(c)
    BY <1>1, <1>3, <1>4, <2>1
  <2>3. Idle BY <1>8, <2>2 DEF Sessions
  <2> QED BY <1>1, <1>6, <2>1, <2>2, <2>3, HolderChanges
<1>11. CASE ConfigureDeviceFails(c)
  <2>1. Step(c) = "apply" /\ Todo(c)' = {} /\ Others(c) /\ WorkersStay
    BY <1>2, <1>11, CallerThrows
  <2>2. lock = c /\ "apply" \in Todo(c) BY <1>1, <1>3, <1>4, <2>1
  <2>3. Idle BY <1>8, <2>2 DEF Sessions
  <2> QED BY <1>6, <2>1, <2>2, <2>3, HolderChanges
<1>12. CASE StartPasses(c)
  <2>1. /\ Step(c) = "start" /\ Todo(c)' = {"startStream"} \cup Later(c) /\ Others(c)
        /\ WorkersStay
    BY <1>2, <1>12, CallerPasses
  <2>2. Later(c) \cap HoldingSteps = {} BY <1>1, <1>3, <2>1
  <2>3. /\ lock = "free" /\ lock' = c /\ ~disconnecting /\ state = "Configured"
        /\ state' = state /\ device' = device
    BY <1>12 DEF StartPasses, Ready
  <2> QED BY <1>1, <1>5, <1>6, <1>8, <2>1, <2>2, <2>3, HolderChanges
<1>13. CASE StartDeviceFails(c)
  <2>1. Step(c) = "startStream" /\ Todo(c)' = {} /\ Others(c) /\ WorkersStay
    BY <1>2, <1>13, CallerThrows
  <2>2. lock = c /\ "startStream" \in Todo(c) BY <1>1, <1>3, <1>4, <2>1
  <2>3. Idle BY <1>8, <2>2 DEF Sessions
  <2> QED BY <1>6, <2>1, <2>2, <2>3, HolderChanges
<1>14. CASE Start(c)
  <2>1. Step(c) = "startStream" /\ Todo(c)' = {"announce"} \cup Later(c) /\ Others(c)
    BY <1>14, StartMoves DEF Others
  <2>2. Later(c) \cap HoldingSteps = {} /\ lock = c /\ "startStream" \in Todo(c)
    BY <1>1, <1>3, <1>4, <2>1
  <2>3. /\ lock' = lock /\ state' = "Running"
        /\ device' = [device EXCEPT !.streaming = TRUE, !.cancelled = FALSE]
    BY <1>14 DEF Start
  <2>4. device'.connected BY <1>7, <2>2, <2>3 DEF Sessions, Devices
  <2> QED BY <1>1, <1>8, <2>1, <2>2, <2>3, <2>4, HolderChanges
<1>15. CASE StartSpawnFails(c)
  <2>1. /\ Step(c) = "startStream" /\ Todo(c)' = ClosingSteps \cup {"abortStart"}
        /\ Others(c)
    BY <1>15, SpawnFailsMoves DEF Others
  <2>2. lock = c /\ "startStream" \in Todo(c) BY <1>1, <1>3, <1>4, <2>1
  <2>3. /\ lock' = lock /\ state' = "Running" /\ dirty' = TRUE
        /\ device' = [device EXCEPT !.streaming = TRUE, !.cancelled = FALSE]
    BY <1>15 DEF StartSpawnFails
  <2>4. device'.connected BY <1>7, <2>2, <2>3 DEF Sessions, Devices
  <2>5. {"apply", "startStream"} \cap Todo(c)' = {} BY <2>1 DEF ClosingSteps
  <2> QED BY <1>1, <1>8, <2>1, <2>2, <2>3, <2>4, <2>5, HolderChanges
<1>16. CASE AbortStart(c)
  <2>1. Step(c) = "abortStart" /\ Todo(c)' = {} /\ Others(c) /\ WorkersStay
    BY <1>2, <1>16, CallerThrows
  <2>2. lock = c BY <1>1, <1>3, <1>4, <2>1
  <2>3. Idle BY <1>16, IdleIsDone DEF AbortStart
  <2> QED BY <1>6, <2>1, <2>2, <2>3, HolderChanges
<1>17. CASE Announce(c) \/ Release(c)
  <2>1. Step(c) \in {"announce", "release"} /\ Todo(c)' = Later(c) /\ Others(c) /\ WorkersStay
    BY <1>2, <1>17, CallerAdvances
  <2>2. Later(c) \cap HoldingSteps = {} /\ lock = c BY <1>1, <1>3, <1>4, <2>1
  <2>3. state' = state /\ device' = device BY <1>17 DEF Announce, Release
  <2>4. ~Idle' => state' \in InSession /\ device'.connected
    BY <1>6, <2>1, <2>3 DEF Sessions
  <2> QED BY <1>1, <2>1, <2>2, <2>4, HolderChanges
<1>18. CASE JoinWorkers(c)
  <2>1. Step(c) = "joinWorkers" /\ Todo(c)' = Later(c) /\ Others(c) /\ WorkersStay
    BY <1>2, <1>18, CallerAdvances
  <2>2. Later(c) \cap HoldingSteps = {} /\ lock = c BY <1>1, <1>3, <1>4, <2>1
  <2>3. Idle BY <1>18, IdleIsDone DEF JoinWorkers
  <2> QED BY <1>1, <1>6, <2>1, <2>2, <2>3, HolderChanges
<1>19. CASE Finalize(c)
  <2>1. Step(c) = "finalize" /\ Todo(c)' = Later(c) /\ Others(c) /\ WorkersStay
    BY <1>2, <1>19, CallerAdvances
  <2>2. Later(c) = {} /\ Todo(c) = {"finalize"} \cup Later(c)
    <3>1. "finalize" \in CallerSteps \ ClosingSteps BY <1>1
    <3> QED BY <2>1, <3>1, CallerRest
  <2>3. Late(c) BY <2>2 DEF Late
  <2>4. Idle BY <2>1, <2>3 DEF Disconnecting
  <2>5. lock = "free" BY <1>19 DEF Finalize, Ready
  <2> QED BY <1>6, <2>1, <2>2, <2>4, <2>5, HolderChanges
<1> QED BY <1>9, <1>10, <1>11, <1>12, <1>13, <1>14, <1>15, <1>16, <1>17, <1>18, <1>19

(* ... those that stop or join a session, ...                              *)
LEMMA StoppersKeepSessions ==
  ASSUME TypeOK, Scripted, Locking, Sessions, NEW c \in Callers,
         RequestStop(c) \/ Sweep(c) \/ Join(c)
  PROVE  Locking' /\ Sessions'
<1>1. /\ {"requestStop", "sweep", "join"} \subseteq CallerSteps \ ClosingSteps
      /\ {"apply", "startStream", "announce", "release", "abortStart", "joinWorkers"} = HoldingSteps
      /\ {"stopToken", "cancel", "closeQueue"} = ClosingSteps
  BY CallerNames
<1>2. \A x, S : Moves(c, x, S) => Step(c)' = x /\ Todo(c)' = S /\ Others(c) /\ WorkersStay
  BY Moved
<1>3. /\ Step(c) \in {"requestStop", "sweep", "join"} /\ lock = "free"
      /\ device' = device /\ dirty' = dirty
  BY CallerTurns DEF RequestStop, Sweep, Join, Ready
<1>4. Later(c) \cap HoldingSteps = {} /\ Later(c) \subseteq Todo(c)
  <2>1. Step(c) \in CallerSteps \ ClosingSteps BY <1>1, <1>3
  <2>2. Todo(c) = {Step(c)} \cup Later(c) BY <2>1, CallerRest
  <2> QED BY <2>1, <2>2, LaterHoldsNothing
<1>5. WorkersStay => Idle' = Idle BY DEF WorkersStay, Idle
<1>6. ASSUME Moves(c, NextStep(c), Later(c)), lock' = lock, state' = state
      PROVE  Locking' /\ Sessions'
  <2>1. Todo(c)' = Later(c) /\ Others(c) /\ WorkersStay BY <1>2, <1>6
  <2> QED BY <1>3, <1>4, <1>6, <2>1, NothingChanges
<1>7. ASSUME Fail(c), Step(c) \in {"requestStop", "join"}, lock' = lock, state' = state
      PROVE  Locking' /\ Sessions'
  <2>1. \/ Moves(c, "idle", {})
        \/ \E S \in SUBSET Later(c) : Moves(c, "stopToken", ClosingSteps \cup {"forceJoin"} \cup S)
    BY <1>7, Forced
  <2>2. Others(c) /\ WorkersStay /\ Todo(c)' \cap HoldingSteps = {}
    <3>1. CASE Moves(c, "idle", {}) BY <1>2, <3>1
    <3>2. ASSUME NEW S \in SUBSET Later(c),
                 Moves(c, "stopToken", ClosingSteps \cup {"forceJoin"} \cup S)
          PROVE  Others(c) /\ WorkersStay /\ Todo(c)' \cap HoldingSteps = {}
      <4>1. Others(c) /\ WorkersStay /\ Todo(c)' = ClosingSteps \cup {"forceJoin"} \cup S
        BY <1>2, <3>2
      <4> QED BY <1>1, <1>4, <4>1
    <3> QED BY <2>1, <3>1, <3>2
  <2> QED BY <1>3, <1>7, <2>2, NothingChanges
<1>8. ASSUME NEW x \in {"release", "joinWorkers"}, NEW S,
             Others(c), WorkersStay, Todo(c)' = S, S \subseteq ClosingSteps \cup {x} \cup Later(c),
             lock' = c, state \in InSession, state' \in InSession
      PROVE  Locking' /\ Sessions'
  <2>1. Todo(c)' \cap {"apply", "startStream", "abortStart"} = {}
    BY <1>1, <1>4, <1>8
  <2>2. ~Idle' => state' \in InSession /\ device'.connected
    BY <1>3, <1>5, <1>8 DEF Sessions
  <2> QED BY <1>3, <1>8, <2>1, <2>2, HolderChanges
<1>9. /\ {"Running", "Stopping", "Error"} = InSession BY DEF InSession
<1>10. CASE RequestStop(c)
  <2>1. /\ Step(c) = "requestStop"
        /\ CASE state = "Running" -> ClosesWith(c, "release")
             [] state \in {"Stopping", "Error"} -> Moves(c, NextStep(c), Later(c))
             [] OTHER -> Fail(c)
    BY <1>10, CallerTurns
  <2>2. IF state = "Running" THEN state' = "Stopping" /\ lock' = c
        ELSE lock' = lock /\ state' = state
    BY <1>10 DEF RequestStop
  <2>3. CASE state = "Running"
    <3>1. Todo(c)' = ClosingSteps \cup {"release"} \cup Later(c) /\ Others(c) /\ WorkersStay
      BY <1>2, <2>1, <2>3 DEF ClosesWith
    <3> QED BY <1>8, <1>9, <2>2, <2>3, <3>1
  <2>4. CASE state # "Running" BY <1>6, <1>7, <2>1, <2>2, <2>4
  <2> QED BY <2>3, <2>4
<1>11. CASE Sweep(c)
  <2>1. /\ Step(c) = "sweep"
        /\ IF state = "Running" THEN ClosesWith(c, "release")
           ELSE Moves(c, NextStep(c), Later(c))
    BY <1>11, CallerTurns
  <2>2. IF state = "Running" THEN state' = "Stopping" /\ lock' = c
        ELSE lock' = lock /\ state' = state
    BY <1>11 DEF Sweep
  <2>3. CASE state = "Running"
    <3>1. Todo(c)' = ClosingSteps \cup {"release"} \cup Later(c) /\ Others(c) /\ WorkersStay
      BY <1>2, <2>1, <2>3 DEF ClosesWith
    <3> QED BY <1>8, <1>9, <2>2, <2>3, <3>1
  <2>4. CASE state # "Running" BY <1>6, <2>1, <2>2, <2>4
  <2> QED BY <2>3, <2>4
<1>12. CASE Join(c)
  <2>1. /\ Step(c) = "join"
        /\ CASE state = "Stopped" -> Moves(c, NextStep(c), Later(c))
             [] state \in {"Stopping", "Error"} ->
                  Moves(c, "joinWorkers", {"joinWorkers"} \cup Later(c))
             [] OTHER -> Fail(c)
    BY <1>12, CallerTurns
  <2>2. /\ state' = state
        /\ IF state \in {"Stopping", "Error"} THEN lock' = c ELSE lock' = lock
    BY <1>12 DEF Join
  <2>3. CASE state \in {"Stopping", "Error"}
    <3>1. Moves(c, "joinWorkers", {"joinWorkers"} \cup Later(c)) BY <2>1, <2>3
    <3>2. Todo(c)' = {"joinWorkers"} \cup Later(c) /\ Others(c) /\ WorkersStay
      BY <1>2, <3>1
    <3> QED BY <1>8, <1>9, <2>2, <2>3, <3>2
  <2>4. CASE state \notin {"Stopping", "Error"} BY <1>6, <1>7, <2>1, <2>2, <2>4
  <2> QED BY <2>3, <2>4
<1> QED BY <1>10, <1>11, <1>12

(* ... and those that do neither.                                          *)
LEMMA OthersKeepSessions ==
  ASSUME TypeOK, Scripted, Locking, Sessions, NEW c \in Callers
  PROVE  /\ ConfigureThrows(c) \/ StartRefused(c) => Locking' /\ Sessions'
         /\ RaiseFlag(c) \/ ForceJoin(c) \/ Settled(c) => Locking' /\ Sessions'
         /\ PollSpectrum(c) \/ PollEvents(c) => Locking' /\ Sessions'
         /\ Shutdown(c) \/ ShutdownJoin(c) => Locking' /\ Sessions'
         /\ Closing(c) \/ Call(c) => Locking' /\ Sessions'
<1> USE DEF lifecycle, data
<1>1. /\ HoldingSteps \cup EndsOfClosing \cup FinalSteps \subseteq CallerSteps \ ClosingSteps
      /\ {"configure", "start", "requestStop", "join", "raiseFlag", "pollEvents", "pollSpectrum"}
           \subseteq CallerSteps \ (ClosingSteps \cup FrontSteps)
      /\ {"apply", "startStream", "announce", "release", "abortStart", "joinWorkers"} = HoldingSteps
      /\ {"shutdown", "shutdownJoin", "settled", "sweep", "finalize", "forceJoin"} = FinalSteps
  BY CallerNames
<1>2. \A x, S : Moves(c, x, S) => Step(c)' = x /\ Todo(c)' = S /\ Others(c) /\ WorkersStay
  BY Moved
<1>3. \A x \in CallerSteps \ ClosingSteps : Step(c) = x => Later(c) \cap HoldingSteps = {}
  BY LaterHoldsNothing
<1>4. device \in Devices BY DEF TypeOK
<1>5. CASE ConfigureThrows(c) \/ StartRefused(c)
  <2>1. Todo(c)' = {} /\ Others(c) /\ WorkersStay BY <1>2, <1>5, CallerThrows
  <2>2. lock' = lock /\ state' = state /\ device' = device /\ dirty' = dirty
    BY <1>5 DEF ConfigureThrows, StartRefused
  <2> QED BY <2>1, <2>2, NothingChanges
<1>6. CASE RaiseFlag(c) \/ ForceJoin(c) \/ Settled(c) \/ PollSpectrum(c) \/ PollEvents(c)
  <2>1. /\ Step(c) \in {"raiseFlag", "forceJoin", "settled", "pollSpectrum", "pollEvents"}
        /\ Todo(c)' = Later(c) /\ Others(c) /\ WorkersStay
    BY <1>2, <1>6, CallerAdvances
  <2>2. lock' = lock /\ state' = state /\ dirty' = dirty
    BY <1>6 DEF RaiseFlag, ForceJoin, Settled, PollSpectrum, PollEvents
  <2>3. device'.connected = device.connected
    BY <1>4, <1>6 DEF RaiseFlag, ForceJoin, Settled, PollSpectrum, PollEvents, Devices
  <2>4. Later(c) \cap HoldingSteps = {} BY <1>1, <1>3, <2>1
  <2> QED BY <2>1, <2>2, <2>3, <2>4, NothingChanges
<1>7. CASE Shutdown(c) \/ ShutdownJoin(c)
  <2>1. PICK A \in {{"requestStop", "shutdownJoin", "settled"}, {"shutdownJoin", "settled"},
                    {"join"}, {}} :
          \E y : Moves(c, y, A \cup Later(c))
    BY <1>7, CallerShutsDown
  <2>2. Step(c) \in {"shutdown", "shutdownJoin"} BY <1>7, CallerShutsDown
  <2>3. Later(c) \cap HoldingSteps = {} /\ A \cap HoldingSteps = {}
    BY <1>1, <1>3, <2>2
  <2>4. Todo(c)' = A \cup Later(c) /\ Others(c) /\ WorkersStay BY <1>2, <2>1
  <2>5. lock' = lock /\ state' = state /\ dirty' = dirty /\ device' = device
    BY <1>7 DEF Shutdown, ShutdownJoin
  <2> QED BY <2>3, <2>4, <2>5, NothingChanges
<1>8. CASE Closing(c)
  <2>1. Todo(c)' = Later(c) /\ Later(c) \subseteq Todo(c) /\ Others(c) /\ WorkersStay
    BY <1>2, <1>8, ClosingMoves, StepNames
  <2>2. lock' = lock /\ state' = state /\ dirty' = dirty
    BY <1>8 DEF Closing, StopToken, Cancel, CloseQueue
  <2>3. device'.connected = device.connected
    BY <1>4, <1>8 DEF Closing, StopToken, Cancel, CloseQueue, Devices
  <2> QED BY <2>1, <2>2, <2>3, NothingChanges
<1>9. CASE Call(c)
  <2>1. /\ Others(c) /\ WorkersStay
        /\ Todo(c)' \subseteq PlainSteps \cup {"raiseFlag", "shutdown", "sweep", "finalize"}
    BY <1>2, <1>9, CallMoves
  <2>2. Todo(c)' \cap HoldingSteps = {} BY <1>1, <2>1 DEF PlainSteps
  <2>3. lock' = lock /\ state' = state /\ dirty' = dirty /\ device' = device
    BY <1>9 DEF Call
  <2> QED BY <2>1, <2>2, <2>3, NothingChanges
<1> QED BY <1>5, <1>6, <1>7, <1>8, <1>9

LEMMA CallersKeepSessions ==
  ASSUME TypeOK, Scripted, Locking, Sessions, Disconnecting, NEW c \in Callers,
         Call(c) \/ Continue(c)
  PROVE  Locking' /\ Sessions'
BY HoldersKeepSessions, StoppersKeepSessions, OthersKeepSessions DEF Continue

-----------------------------------------------------------------------------
(* Disconnecting                                                           *)

(* Which call does what to the flag, the device and the workers.           *)
LEMMA CallerEffects ==
  ASSUME TypeOK, Scripted, NEW c \in Callers, Continue(c)
  PROVE  /\ disconnecting => disconnecting'
         /\ Step(c) = "raiseFlag" => disconnecting'
         /\ Step(c) = "sweep" => Ready /\ state' # "Running"
         /\ \/ device'.connected = device.connected
            \/ Step(c) = "finalize" /\ state' = "Stopped" /\ ~device'.connected
         /\ generation' = generation \/ Step(c) = "apply"
         /\ WorkersStay \/ Step(c) = "startStream"
         /\ state' = "Running" => state = "Running" \/ Step(c) = "startStream"
         /\ state = "Stopped" => state' = "Stopped" \/ Step(c) \in {"apply", "startStream"}
<1> USE DEF lifecycle
<1>1. \A x, S : Moves(c, x, S) => WorkersStay BY Moved
<1>2. device \in Devices BY DEF TypeOK
<1>3. CASE Configure(c)
  <2>1. Step(c) = "apply" /\ WorkersStay BY <1>1, <1>3, CallerAdvances
  <2>2. device'.connected = device.connected
    BY <1>2, <1>3 DEF Configure, Devices
  <2>3. disconnecting' = disconnecting /\ state' = "Configured"
    BY <1>3 DEF Configure
  <2> QED BY <2>1, <2>2, <2>3
<1>4. CASE Announce(c) \/ Release(c) \/ Settled(c) \/ PollSpectrum(c) \/ PollEvents(c)
  <2>1. /\ Step(c) \in {"announce", "release", "settled", "pollSpectrum", "pollEvents"}
        /\ WorkersStay
    BY <1>1, <1>4, CallerAdvances
  <2>2. /\ disconnecting' = disconnecting /\ generation' = generation
        /\ device' = device /\ state' = state
    BY <1>4 DEF Announce, Release, Settled, PollSpectrum, PollEvents
  <2> QED BY <2>1, <2>2
<1>5. CASE JoinWorkers(c) \/ ForceJoin(c)
  <2>1. Step(c) \in {"joinWorkers", "forceJoin"} /\ WorkersStay
    BY <1>1, <1>5, CallerAdvances
  <2>2. device'.connected = device.connected
    BY <1>2, <1>5 DEF JoinWorkers, ForceJoin, Devices
  <2>3. /\ disconnecting' = disconnecting /\ generation' = generation
        /\ state' = "Stopped" \/ state' = state
    BY <1>5 DEF JoinWorkers, ForceJoin
  <2> QED BY <2>1, <2>2, <2>3
<1>6. CASE RaiseFlag(c) \/ Finalize(c)
  <2>1. WorkersStay BY <1>1, <1>6, CallerAdvances
  <2>2. RaiseFlag(c) => Step(c) = "raiseFlag" BY CallerAdvances
  <2>3. Finalize(c) => Step(c) = "finalize" BY CallerAdvances
  <2> QED BY <1>6, <2>1, <2>2, <2>3 DEF RaiseFlag, Finalize
<1>7. CASE ConfigureThrows(c) \/ ConfigureDeviceFails(c) \/ StartRefused(c) \/ StartDeviceFails(c)
             \/ AbortStart(c)
  <2>1. /\ Step(c) \in {"configure", "apply", "start", "startStream", "abortStart"}
        /\ WorkersStay
    BY <1>1, <1>7, CallerThrows
  <2>2. device'.connected = device.connected
    BY <1>2, <1>7
       DEF ConfigureThrows, ConfigureDeviceFails, StartRefused, StartDeviceFails, AbortStart,
           Devices
  <2>3. /\ disconnecting' = disconnecting /\ generation' = generation
        /\ state' = IF AbortStart(c) /\ state \in {"Running", "Stopping"} THEN "Error" ELSE state
    BY <1>7
       DEF ConfigureThrows, ConfigureDeviceFails, StartRefused, StartDeviceFails, AbortStart, At,
           Throw, Goto
  <2> QED BY <2>1, <2>2, <2>3
<1>8. CASE ConfigurePasses(c) \/ StartPasses(c)
  <2>1. Step(c) \in {"configure", "start"} /\ WorkersStay
    BY <1>1, <1>8, CallerPasses
  <2> QED BY <1>8, <2>1 DEF ConfigurePasses, StartPasses
<1>9. CASE Start(c) \/ StartSpawnFails(c)
  <2>1. Step(c) = "startStream" BY <1>9, StartMoves, SpawnFailsMoves
  <2>2. device'.connected = device.connected
    BY <1>2, <1>9 DEF Start, StartSpawnFails, Devices
  <2>3. /\ disconnecting' = disconnecting /\ generation' = generation
    BY <1>9 DEF Start, StartSpawnFails
  <2> QED BY <2>1, <2>2, <2>3
<1>10. (Fail(c) /\ Step(c) \in {"requestStop", "join"}) => WorkersStay
  BY <1>1, Forced
<1>11. CASE RequestStop(c)
  <2>1. Step(c) = "requestStop" /\ WorkersStay
    BY <1>1, <1>10, <1>11, CallerTurns DEF ClosesWith
  <2> QED BY <1>11, <2>1 DEF RequestStop
<1>12. CASE Join(c)
  <2>1. Step(c) = "join" /\ WorkersStay BY <1>1, <1>10, <1>12, CallerTurns
  <2> QED BY <1>12, <2>1 DEF Join
<1>13. CASE Sweep(c)
  <2>1. Step(c) = "sweep" /\ WorkersStay
    BY <1>1, <1>13, CallerTurns DEF ClosesWith
  <2> QED BY <1>13, <2>1 DEF Sweep
<1>14. CASE Shutdown(c) \/ ShutdownJoin(c)
  <2>1. Step(c) \in {"shutdown", "shutdownJoin"} /\ WorkersStay
    BY <1>1, <1>14, CallerShutsDown
  <2> QED BY <1>14, <2>1 DEF Shutdown, ShutdownJoin
<1>15. CASE Closing(c)
  <2>1. Step(c) \in {"stopToken", "cancel", "closeQueue"} /\ WorkersStay
    BY <1>1, <1>15, ClosingMoves, StepNames DEF ClosingSteps
  <2> QED BY <1>2, <1>15, <2>1 DEF Closing, StopToken, Cancel, CloseQueue, Devices
<1> QED BY <1>3, <1>4, <1>5, <1>6, <1>7, <1>8, <1>9, <1>11, <1>12, <1>13, <1>14, <1>15 DEF Continue

(* disconnect() raises the flag before anything else.                      *)
LEMMA FlagFirst ==
  ASSUME Scripted, NEW c \in Callers
  PROVE  /\ "raiseFlag" \in Todo(c) => Step(c) = "raiseFlag" /\ "settled" \notin Todo(c)
         /\ Step(c) \in AllSteps => Step(c) \in Todo(c)
<1>1. ASSUME Step(c) \in AllSteps
      PROVE  /\ Todo(c) = {Step(c)} \cup Later(c)
             /\ \A b \in Later(c) : MayFollow(Step(c), b)
  BY <1>1, StepNames, IsAt
<1>2. Todo(c) # {} => Step(c) \in AllSteps
  <2>1. Proper(c, script[c]) /\ c \in Threads BY StepNames DEF Scripted
  <2>2. Todo(c) # {} => Step(c) \in Todo(c) BY <2>1, FirstStep DEF Step, Todo
  <2> QED BY <2>1, <2>2, StepNames DEF Proper, Todo
<1>3. "raiseFlag" \in Todo(c) => Step(c) = "raiseFlag"
  BY <1>1, <1>2 DEF MayFollow
<1>4. Step(c) = "raiseFlag" => "settled" \notin Todo(c)
  <2>1. "raiseFlag" \notin FrontSteps \cup {"requestStop", "join", "shutdownJoin"}
    BY CallerNames
  <2> QED BY <1>1, <1>2, <2>1 DEF MayFollow
<1> QED BY <1>1, <1>3, <1>4

(* Once the flag is up and nobody is between the look at it and what comes *)
(* after, no session begins.                                               *)
LEMMA CallersCannotRevive ==
  ASSUME TypeOK, Scripted, NEW c \in Callers, Call(c) \/ Continue(c), NoMoreSessions
  PROVE  /\ NoMoreSessions'
         /\ state' = "Running" => state = "Running"
         /\ state = "Stopped" => state' = "Stopped"
         /\ WorkersStay /\ Idle' = Idle
         /\ generation' = generation /\ (device'.connected => device.connected)
<1> USE DEF lifecycle
<1>1. CASE Continue(c)
  <2>1. Step(c) \notin {"apply", "startStream"}
    <3>1. {"apply", "startStream"} \subseteq AllSteps BY CallerNames
    <3> QED BY <3>1, FlagFirst DEF NoMoreSessions
  <2>2. /\ disconnecting'
        /\ state' = "Running" => state = "Running"
        /\ state = "Stopped" => state' = "Stopped"
        /\ WorkersStay /\ generation' = generation /\ (device'.connected => device.connected)
    BY <1>1, <2>1, CallerEffects DEF NoMoreSessions
  <2>3. /\ Others(c)
        /\ Todo(c)' \cap {"apply", "startStream"} = {}
    BY <1>1, CallerProceeds DEF Proceeds, NoMoreSessions
  <2>4. NoMoreSessions'
    <3> SUFFICES ASSUME NEW d \in Callers
                 PROVE  (Todo(d) \cap {"apply", "startStream"} = {})'
      BY <2>2 DEF NoMoreSessions
    <3> QED BY <2>3 DEF Others, NoMoreSessions
  <2> QED BY <2>2, <2>4 DEF Idle, WorkersStay
<1>2. CASE Call(c)
  <2>1. /\ Others(c) /\ WorkersStay
        /\ Todo(c)' \subseteq PlainSteps \cup {"raiseFlag", "shutdown", "sweep", "finalize"}
    BY <1>2, CallMoves, Moved
  <2>2. Todo(c)' \cap {"apply", "startStream"} = {} BY <2>1 DEF PlainSteps
  <2>3. UNCHANGED lifecycle BY <1>2 DEF Call
  <2>4. NoMoreSessions'
    <3> SUFFICES ASSUME NEW d \in Callers
                 PROVE  (Todo(d) \cap {"apply", "startStream"} = {})'
      BY <2>3 DEF NoMoreSessions
    <3> QED BY <2>1, <2>2 DEF Others, NoMoreSessions
  <2> QED BY <2>1, <2>3, <2>4 DEF Idle, WorkersStay
<1> QED BY <1>1, <1>2

(* What Disconnecting says of one caller.                                  *)
Leaving(c) ==
  /\ Todo(c) \cap FinalSteps # {} /\ "raiseFlag" \notin Todo(c) => disconnecting
  /\ "forceJoin" \in Todo(c) => NoMoreSessions
  /\ Late(c) => NoMoreSessions /\ state # "Running"
  /\ Late(c) /\ Step(c) \in {"settled", "finalize"} => Idle

LEMMA CallersKeepDisconnecting ==
  ASSUME TypeOK, Scripted, Locking, Sessions, Disconnecting, NEW c \in Callers,
         Call(c) \/ Continue(c)
  PROVE  Disconnecting'
<1> USE DEF lifecycle
<1>1. \A d \in Callers : Leaving(d) BY DEF Disconnecting, Leaving
<1>2. NoMoreSessions =>
        /\ NoMoreSessions'
        /\ state' = "Running" => state = "Running"
        /\ state = "Stopped" => state' = "Stopped"
        /\ Idle' = Idle
  BY CallersCannotRevive
<1>3. disconnecting => disconnecting'
  <2>1. Call(c) => disconnecting' = disconnecting BY DEF Call
  <2> QED BY <2>1, CallerEffects
<1>4. Others(c)
  <2>1. Call(c) => Others(c) BY CallMoves, Moved
  <2> QED BY <2>1, CallerProceeds DEF Proceeds
<1>5. ASSUME NEW d \in Callers, d # c
      PROVE  Leaving(d)'
  <2>1. Step(d)' = Step(d) /\ Todo(d)' = Todo(d) BY <1>4, <1>5 DEF Others
  <2>2. Late(d)' = Late(d) BY <2>1 DEF Late
  <2> QED BY <1>1, <1>2, <1>3, <2>1, <2>2 DEF Leaving
<1>6. CASE Call(c)
  <2>1. /\ Todo(c) = {}
        /\ \/ Todo(c)' \subseteq PlainSteps
           \/ Todo(c)' = {"raiseFlag", "shutdown", "sweep", "finalize"}
    BY <1>6, CallMoves, Moved
  <2>2. PlainSteps \cap (FinalSteps \cup {"forceJoin", "finalize"}) = {}
    BY CallerNames DEF PlainSteps
  <2>3. Leaving(c)'
    <3>1. CASE Todo(c)' \subseteq PlainSteps BY <2>2, <3>1 DEF Leaving, Late
    <3>2. CASE Todo(c)' = {"raiseFlag", "shutdown", "sweep", "finalize"}
      BY <3>2 DEF Leaving, Late
    <3> QED BY <2>1, <3>1, <3>2
  <2>4. device' = device BY <1>6 DEF Call
  <2>5. ~device'.connected => NoMoreSessions' /\ state' = "Stopped" /\ Idle'
    BY <1>2, <2>4 DEF Disconnecting
  <2>6. \A d \in Callers : Leaving(d)' BY <1>5, <2>3
  <2> QED BY <2>5, <2>6 DEF Disconnecting, Leaving
<1>7. CASE Continue(c)
  <2>1. Proceeds(c) BY <1>7, CallerProceeds
  <2>2. "sweep" \in FinalSteps /\ "settled" \in FinalSteps BY CallerNames
  <2>3. /\ "raiseFlag" \in Todo(c) => Step(c) = "raiseFlag" /\ "settled" \notin Todo(c)
        /\ Step(c) \in AllSteps => Step(c) \in Todo(c)
    BY FlagFirst
  <2>4. /\ {"sweep", "finalize", "settled", "join", "joinWorkers", "shutdownJoin"} \subseteq AllSteps
        /\ {"apply", "startStream"} \subseteq HoldingSteps
    BY CallerNames
  <2>5. Ready /\ disconnecting => NoMoreSessions
    <3>1. \A d \in Callers : Ready => Todo(d) \cap HoldingSteps = {}
      BY CallersAssumption DEF Locking, Ready
    <3> QED BY <2>4, <3>1 DEF NoMoreSessions
  <2>6. Todo(c)' \cap FinalSteps # {} => disconnecting'
    <3>1. CASE "raiseFlag" \in Todo(c) BY <1>7, <2>3, <3>1, CallerEffects
    <3>2. CASE "raiseFlag" \notin Todo(c)
      BY <1>1, <1>3, <2>1, <3>2 DEF Proceeds, Leaving
    <3> QED BY <3>1, <3>2
  <2>7. "forceJoin" \in Todo(c)' => NoMoreSessions'
    <3>1. Ready /\ "settled" \in Todo(c) => NoMoreSessions
      BY <1>1, <2>2, <2>3, <2>5 DEF Leaving
    <3>2. "forceJoin" \in Todo(c) => NoMoreSessions BY <1>1 DEF Leaving
    <3> QED BY <1>2, <2>1, <3>1, <3>2 DEF Proceeds
  <2>8. Late(c)' => NoMoreSessions' /\ state' # "Running"
    <3>1. CASE Late(c) BY <1>1, <1>2, <3>1 DEF Leaving
    <3>2. CASE Step(c) = "sweep"
      <4>1. Ready /\ state' # "Running" BY <1>7, <3>2, CallerEffects
      <4>2. "sweep" \in Todo(c) /\ "raiseFlag" \notin Todo(c)
        BY <2>3, <2>4, <3>2
      <4>3. disconnecting BY <1>1, <2>2, <4>2 DEF Leaving
      <4> QED BY <1>2, <2>5, <4>1, <4>3
    <3> QED BY <2>1, <3>1, <3>2 DEF Proceeds
  <2>9. Late(c)' /\ Step(c)' \in {"settled", "finalize"} => Idle'
    <3> SUFFICES ASSUME Late(c)', Step(c)' \in {"settled", "finalize"} PROVE Idle'
      OBVIOUS
    <3>1. \/ Step(c) = "settled"
          \/ Step(c) = "shutdownJoin" /\ state \notin {"Stopping", "Error"}
          \/ Step(c) = "join" /\ state = "Stopped"
          \/ Step(c) \in {"joinWorkers", "forceJoin"} /\ Idle
      BY <2>1 DEF Proceeds
    <3>2. Late(c) BY <2>1, <3>1 DEF Proceeds
    <3>3. state \notin InSession => Idle BY DEF Sessions
    <3>4. Idle BY <1>1, <3>1, <3>2, <3>3 DEF Leaving, InSession
    <3> QED BY <1>1, <1>2, <3>2, <3>4 DEF Leaving
  <2>10. Leaving(c)' BY <2>6, <2>7, <2>8, <2>9 DEF Leaving
  <2>11. ~device'.connected => NoMoreSessions' /\ state' = "Stopped" /\ Idle'
    <3>1. CASE ~device.connected BY <1>2, <3>1 DEF Disconnecting
    <3>2. CASE Step(c) = "finalize" /\ state' = "Stopped"
      <4>1. Todo(c) = {"finalize"}
        <5>1. "finalize" \in CallerSteps \ ClosingSteps BY CallerNames
        <5> QED BY <3>2, <5>1, CallerRest
      <4>2. Late(c) BY <4>1 DEF Late
      <4>3. NoMoreSessions /\ Idle BY <1>1, <3>2, <4>2 DEF Leaving
      <4> QED BY <1>2, <3>2, <4>3
    <3>3. \/ device'.connected = device.connected
          \/ Step(c) = "finalize" /\ state' = "Stopped"
      BY <1>7, CallerEffects
    <3>4. device.connected \in BOOLEAN BY DEF TypeOK, Devices
    <3> QED BY <3>1, <3>2, <3>3, <3>4
  <2>12. \A d \in Callers : Leaving(d)' BY <1>5, <2>10
  <2> QED BY <2>11, <2>12 DEF Disconnecting, Leaving
<1> QED BY <1>6, <1>7

(* The workers leave the calls alone, and act in a session only.           *)
LEMMA WorkerEffects ==
  ASSUME TypeOK, Scripted, Acquisition \/ Dsp
  PROVE  /\ Scripted' /\ CallersStay /\ ~Idle
         /\ lock' = lock /\ disconnecting' = disconnecting /\ generation' = generation
         /\ device'.connected = device.connected /\ (dirty => dirty')
         /\ \/ state' = state
            \/ state \in {"Running", "Stopping"} /\ state' = "Error"
<1> USE DEF lifecycle, data
<1> DEFINE Acts(w) == Step(w) # "idle" /\ Scripted' /\ CallersStay
<1>1. /\ \A w \in Workers : \A x : Turns(w, x) => CallersStay
      /\ "idle" \notin AllSteps
      /\ "acquisition" \in Workers /\ "dsp" \in Workers
  BY Moved, StepNames DEF Workers
<1>2. device \in Devices BY DEF TypeOK
<1>3. ASSUME NEW w \in Workers, EmitFailure(w) \/ MarkError(w)
      PROVE  Acts(w)
  BY <1>1, <1>3, FailureMoves
<1>4. ASSUME NEW w \in Workers, Closing(w)
      PROVE  Acts(w)
  <2>1. /\ Scripted' /\ Moves(w, NextStep(w), Later(w)) /\ Step(w) \in ClosingSteps
    BY <1>4, ClosingMoves, StepNames
  <2> QED BY <1>1, <2>1 DEF Turns, ClosingSteps
<1>5. (Acquisition => Acts("acquisition")) /\ (Dsp => Acts("dsp"))
  <2>1. AcqCheck \/ AcqRefill \/ AcqRefillThrows => Acts("acquisition")
    BY <1>1, AcquisitionMoves
  <2>2. AcqPush \/ AcqCountDrop \/ AcqCountStopped => Acts("acquisition")
    BY <1>1, AcquisitionMoves
  <2>3. DspPop \/ DspDrained \/ DspProcess \/ DspThrows \/ DspFlush => Acts("dsp")
    BY <1>1, DspMoves
  <2> HIDE DEF Acts
  <2> QED BY <1>1, <1>3, <1>4, <2>1, <2>2, <2>3 DEF Acquisition, Dsp
<1> DEFINE Stays == /\ lock' = lock /\ disconnecting' = disconnecting /\ generation' = generation
                    /\ device'.connected = device.connected /\ (dirty => dirty')
                    /\ \/ state' = state
                       \/ state \in {"Running", "Stopping"} /\ state' = "Error"
<1>6. AcqCheck \/ AcqRefill \/ AcqRefillThrows \/ AcqPush \/ AcqCountDrop \/ AcqCountStopped
        => Stays
  <2>1. AcqRefillThrows => UNCHANGED lifecycle /\ (dirty => dirty')
    <3>1. AcqRefillThrows => UNCHANGED lifecycle BY DEF AcqRefillThrows
    <3>2. AcqRefillThrows => dirty' = dirty \/ dirty' = (dirty \/ ~stop)
      BY DEF AcqRefillThrows
    <3>3. dirty' = (dirty \/ ~stop) => (dirty => dirty') BY Zenon DEF TypeOK
    <3> QED BY <3>1, <3>2, <3>3
  <2>2. AcqCheck \/ AcqRefill \/ AcqPush \/ AcqCountDrop \/ AcqCountStopped
          => UNCHANGED lifecycle /\ dirty' = dirty
    <3> HIDE DEF lifecycle, data
    <3> QED BY DEF AcqCheck, AcqRefill, AcqPush, AcqCountDrop, AcqCountStopped
  <2> QED BY <2>1, <2>2
<1>7. DspPop \/ DspDrained \/ DspProcess \/ DspThrows \/ DspFlush => Stays
  BY DEF DspPop, DspDrained, DspProcess, DspThrows, DspFlush
<1>8. \A w : EmitFailure(w) => Stays BY DEF EmitFailure
<1>9. \A w : MarkError(w) => Stays BY DEF MarkError
<1>10. ASSUME NEW w, Closing(w) PROVE Stays
  <2>1. /\ lock' = lock /\ disconnecting' = disconnecting /\ generation' = generation
        /\ dirty' = dirty /\ state' = state
    BY <1>10 DEF Closing, StopToken, Cancel, CloseQueue
  <2>2. device'.connected = device.connected
    BY <1>2, <1>10 DEF Closing, StopToken, Cancel, CloseQueue, Devices
  <2> QED BY <2>1, <2>2
<1>11. Stays
  <2> HIDE DEF Stays
  <2> QED BY <1>6, <1>7, <1>8, <1>9, <1>10 DEF Acquisition, Dsp
<1> QED BY <1>1, <1>5, <1>11 DEF Idle

LEMMA WorkersKeepSessions ==
  ASSUME TypeOK, Scripted, Locking, Sessions, Disconnecting, Acquisition \/ Dsp
  PROVE  Locking' /\ Sessions' /\ Disconnecting'
<1>1. /\ CallersStay /\ ~Idle
      /\ lock' = lock /\ disconnecting' = disconnecting
      /\ device'.connected = device.connected /\ (dirty => dirty')
      /\ \/ state' = state
         \/ state \in {"Running", "Stopping"} /\ state' = "Error"
  BY WorkerEffects
<1>2. Locking' BY <1>1 DEF Locking, CallersStay
<1>3. state \in InSession /\ device.connected /\ state' \in InSession
  BY <1>1 DEF Sessions, InSession
<1>4. Sessions'
  BY <1>1, <1>3 DEF Sessions, CallersStay, InSession, Configurable
<1>5. NoMoreSessions' = NoMoreSessions BY <1>1 DEF NoMoreSessions, CallersStay
<1>6. \A c \in Callers : Late(c)' = Late(c) BY <1>1 DEF Late, CallersStay
<1>7. \A c \in Callers : Leaving(c)'
  BY <1>1, <1>5, <1>6 DEF Disconnecting, Leaving, CallersStay
<1> QED BY <1>1, <1>2, <1>3, <1>4, <1>7 DEF Disconnecting, Leaving

-----------------------------------------------------------------------------
(* The stop token                                                          *)

(* The caller actions besides the three that shut down and Configure leave *)
(* the token alone, cancel nothing and close nothing next.                 *)
LEMMA CallersStopNothing ==
  ASSUME TypeOK, Scripted, NEW c \in Callers, Continue(c), ~Closing(c)
  PROVE  /\ Step(c)' \notin {"cancel", "closeQueue"}
         /\ Configure(c) => Step(c) = "apply" /\ WorkersStay /\ ~device'.cancelled
         /\ ~Configure(c) => stop' = stop /\ (device'.cancelled => device.cancelled)
         /\ ~WorkersStay => /\ Step("dsp")' \in {"idle", "pop"}
                            /\ Step("acquisition")' \in {Step("acquisition"), "check"}
<1> USE DEF lifecycle
<1> DEFINE Other == Step(c)' \notin {"cancel", "closeQueue"}
<1>1. \A x, S : Moves(c, x, S) => Step(c)' = x /\ WorkersStay BY Moved
<1>2. device \in Devices BY DEF TypeOK
<1>3. ASSUME NEW x \in CallerSteps \ ClosingSteps, Step(c) = x, Moves(c, NextStep(c), Later(c))
      PROVE  Other
  <2>1. NextStep(c) = "idle" \/ NextStep(c) \notin FrontSteps
    BY <1>3, CallerRest
  <2> QED BY <1>1, <1>3, <2>1, CallerNames
<1>4. /\ HoldingSteps \cup EndsOfClosing \cup FinalSteps \subseteq CallerSteps \ ClosingSteps
      /\ {"configure", "start", "requestStop", "join", "raiseFlag", "pollEvents", "pollSpectrum"}
           \subseteq CallerSteps \ ClosingSteps
      /\ {"apply", "startStream", "announce", "release", "abortStart", "joinWorkers"} = HoldingSteps
      /\ {"shutdown", "shutdownJoin", "settled", "sweep", "finalize", "forceJoin"} = FinalSteps
  BY CallerNames
<1>5. CASE Configure(c)
  <2>1. Step(c) = "apply" /\ Moves(c, NextStep(c), Later(c))
    BY <1>5, CallerAdvances
  <2>2. ~device'.cancelled BY <1>2, <1>5 DEF Configure, Devices
  <2> QED BY <1>1, <1>3, <1>4, <1>5, <2>1, <2>2
<1>6. CASE Announce(c) \/ Release(c) \/ Settled(c) \/ PollSpectrum(c) \/ PollEvents(c)
             \/ RaiseFlag(c)
  <2>1. /\ Step(c) \in {"announce", "release", "settled", "pollSpectrum", "pollEvents", "raiseFlag"}
        /\ Moves(c, NextStep(c), Later(c))
    BY <1>6, CallerAdvances
  <2>2. stop' = stop /\ device' = device
    BY <1>6 DEF Announce, Release, Settled, PollSpectrum, PollEvents, RaiseFlag
  <2>3. ~Configure(c) BY <2>1, CallerAdvances
  <2> QED BY <1>1, <1>3, <1>4, <2>1, <2>2, <2>3
<1>7. CASE JoinWorkers(c) \/ ForceJoin(c) \/ Finalize(c)
  <2>1. /\ Step(c) \in {"joinWorkers", "forceJoin", "finalize"}
        /\ Moves(c, NextStep(c), Later(c))
    BY <1>7, CallerAdvances
  <2>2. stop' = stop /\ ~device'.cancelled
    <3>1. JoinWorkers(c) \/ ForceJoin(c) => stop' = stop /\ ~device'.cancelled
      BY <1>2 DEF JoinWorkers, ForceJoin, Devices
    <3>2. Finalize(c) => stop' = stop /\ ~device'.cancelled BY DEF Finalize
    <3> QED BY <1>7, <3>1, <3>2
  <2>3. ~Configure(c) BY <2>1, CallerAdvances
  <2> QED BY <1>1, <1>3, <1>4, <2>1, <2>2, <2>3
<1>8. CASE ConfigureThrows(c) \/ ConfigureDeviceFails(c) \/ StartRefused(c) \/ StartDeviceFails(c)
             \/ AbortStart(c)
  <2>1. Moves(c, "idle", {}) BY <1>8, CallerThrows
  <2>2. stop' = stop /\ (device'.cancelled => device.cancelled)
    <3>1. ConfigureThrows(c) \/ StartRefused(c) \/ StartDeviceFails(c)
            => stop' = stop /\ device' = device
      BY DEF ConfigureThrows, StartRefused, StartDeviceFails
    <3>2. ConfigureDeviceFails(c) \/ AbortStart(c) => stop' = stop /\ ~device'.cancelled
      BY <1>2 DEF ConfigureDeviceFails, AbortStart, Devices
    <3> QED BY <1>8, <3>1, <3>2
  <2>3. Step(c)' = "idle" /\ WorkersStay BY <1>1, <2>1
  <2>4. Configure(c) => ~device'.cancelled BY <1>2 DEF Configure, Devices
  <2>5. Configure(c) => Step(c) = "apply" BY CallerAdvances
  <2> QED BY <2>2, <2>3, <2>4, <2>5
<1>9. CASE ConfigurePasses(c) \/ StartPasses(c)
  <2>1. /\ Step(c) \in {"configure", "start"}
        /\ \E y \in {"apply", "startStream"} : Moves(c, y, {y} \cup Later(c))
    BY <1>9, CallerPasses
  <2>2. stop' = stop /\ device' = device
    BY <1>9 DEF ConfigurePasses, StartPasses
  <2>3. ~Configure(c) BY <2>1, CallerAdvances
  <2> QED BY <1>1, <2>1, <2>2, <2>3
<1>10. CASE Start(c) \/ StartSpawnFails(c)
  <2>1. /\ Step(c) = "startStream" /\ Step(c)' \in {"announce", "stopToken"}
        /\ Step("dsp")' \in {"idle", "pop"}
        /\ Step("acquisition")' \in {Step("acquisition"), "check"}
    BY <1>10, StartMoves, SpawnFailsMoves
  <2>2. stop' = stop /\ ~device'.cancelled
    BY <1>2, <1>10 DEF Start, StartSpawnFails, Devices
  <2>3. ~Configure(c) BY <2>1, CallerAdvances
  <2> QED BY <2>1, <2>2, <2>3
<1>11. ASSUME Fail(c), Step(c) \in {"requestStop", "join"}
       PROVE  Other /\ WorkersStay
  <2>1. \E x \in {"idle", "stopToken"} : \E S : Moves(c, x, S) BY <1>11, Forced
  <2> QED BY <1>1, <2>1
<1>12. CASE RequestStop(c) \/ Sweep(c)
  <2>1. /\ Step(c) \in {"requestStop", "sweep"}
        /\ \/ ClosesWith(c, "release") \/ Moves(c, NextStep(c), Later(c))
           \/ Fail(c) /\ Step(c) \in {"requestStop", "join"}
    BY <1>12, CallerTurns
  <2>2. stop' = stop /\ device' = device BY <1>12 DEF RequestStop, Sweep
  <2>3. ~Configure(c) BY <2>1, CallerAdvances
  <2>4. Step(c) \in CallerSteps \ ClosingSteps BY <1>4, <2>1
  <2> QED BY <1>1, <1>3, <1>11, <2>1, <2>2, <2>3, <2>4 DEF ClosesWith
<1>13. CASE Join(c)
  <2>1. /\ Step(c) = "join"
        /\ \/ Moves(c, "joinWorkers", {"joinWorkers"} \cup Later(c))
           \/ Moves(c, NextStep(c), Later(c))
           \/ Fail(c) /\ Step(c) \in {"requestStop", "join"}
    BY <1>13, CallerTurns
  <2>2. stop' = stop /\ device' = device BY <1>13 DEF Join
  <2>3. ~Configure(c) BY <2>1, CallerAdvances
  <2>4. Step(c) \in CallerSteps \ ClosingSteps BY <1>4, <2>1
  <2> QED BY <1>1, <1>3, <1>11, <2>1, <2>2, <2>3, <2>4
<1>14. CASE Shutdown(c) \/ ShutdownJoin(c)
  <2>1. /\ Step(c) \in {"shutdown", "shutdownJoin"}
        /\ \/ \E y \in {"requestStop", "shutdownJoin", "join"} : \E S : Moves(c, y, S)
           \/ Moves(c, NextStep(c), Later(c))
    BY <1>14, CallerShutsDown
  <2>2. stop' = stop /\ device' = device BY <1>14 DEF Shutdown, ShutdownJoin
  <2>3. ~Configure(c) BY <2>1, CallerAdvances
  <2>4. Step(c) \in CallerSteps \ ClosingSteps BY <1>4, <2>1
  <2> QED BY <1>1, <1>3, <2>1, <2>2, <2>3, <2>4
<1> HIDE DEF Other
<1> QED BY <1>5, <1>6, <1>7, <1>8, <1>9, <1>10, <1>12, <1>13, <1>14 DEF Continue, Other

(* Of the three effects of a shutdown, the first sets the token.           *)
LEMMA ClosingStops ==
  ASSUME TypeOK, Scripted, Stops, NEW t \in Threads, Closing(t)
  PROVE  /\ stop => stop'
         /\ Step(t)' \in {"cancel", "closeQueue"} => stop'
         /\ device'.cancelled => stop'
<1>1. /\ Step(t) \in {"stopToken", "cancel", "closeQueue"}
      /\ Step(t) = "stopToken" <=> StopToken(t)
      /\ Step(t) = "cancel" <=> Cancel(t)
      /\ Step(t) = "closeQueue" <=> CloseQueue(t)
  BY ClosingMoves DEF ClosingSteps
<1>2. CASE StopToken(t) BY <1>2 DEF StopToken
<1>3. CASE Cancel(t)
  <2>1. stop' = stop /\ stop BY <1>1, <1>3 DEF Cancel, Stops
  <2> QED BY <2>1
<1>4. CASE CloseQueue(t)
  <2>1. stop' = stop /\ stop BY <1>1, <1>4 DEF CloseQueue, Stops, lifecycle
  <2> QED BY <2>1
<1> QED BY <1>1, <1>2, <1>3, <1>4

LEMMA CallersKeepStops ==
  ASSUME TypeOK, Scripted, Locking, Sessions, Disconnecting, Stops, NEW c \in Callers,
         Call(c) \/ Continue(c)
  PROVE  Stops'
<1>1. /\ c \in Threads /\ {"dsp", "acquisition"} = Workers
      /\ \A t \in Threads : t \in Callers \/ t \in Workers
      /\ \A w \in Workers : w \in Threads
  BY StepNames DEF Threads, Workers
<1>2. CASE Call(c)
  <2>1. Others(c) /\ WorkersStay /\ Step(c)' \notin {"cancel", "closeQueue"}
    BY <1>2, CallMoves, Moved DEF PlainSteps
  <2>2. stop' = stop /\ device' = device BY <1>2 DEF Call, lifecycle
  <2> QED BY <1>1, <2>1, <2>2 DEF Stops, Others, WorkersStay
<1>3. CASE Continue(c) /\ Closing(c)
  <2>1. Others(c) /\ WorkersStay BY <1>1, <1>3, ClosingMoves, Moved
  <2>2. /\ stop => stop'
        /\ Step(c)' \in {"cancel", "closeQueue"} => stop'
        /\ device'.cancelled => stop'
    BY <1>1, <1>3, ClosingStops
  <2> QED BY <1>1, <2>1, <2>2 DEF Stops, Others, WorkersStay
<1>4. CASE Continue(c) /\ ~Closing(c) /\ ~Configure(c)
  <2>1. /\ Step(c)' \notin {"cancel", "closeQueue"}
        /\ stop' = stop /\ (device'.cancelled => device.cancelled)
        /\ ~WorkersStay => /\ Step("dsp")' \in {"idle", "pop"}
                           /\ Step("acquisition")' \in {Step("acquisition"), "check"}
        /\ Others(c)
    BY <1>4, CallersStopNothing, CallerProceeds DEF Proceeds
  <2>2. \A w \in Workers : Step(w)' \in {"cancel", "closeQueue"} => stop
    BY <1>1, <2>1 DEF Stops, WorkersStay
  <2> QED BY <1>1, <2>1, <2>2 DEF Stops, Others
<1>5. CASE Continue(c) /\ ~Closing(c) /\ Configure(c)
  <2>1. /\ Step(c)' \notin {"cancel", "closeQueue"} /\ Step(c) = "apply"
        /\ WorkersStay /\ ~device'.cancelled /\ Others(c)
    BY <1>5, CallersStopNothing, CallerProceeds DEF Proceeds
  <2>2. "apply" \in Todo(c) BY <2>1, FlagFirst, CallerNames
  <2>3. lock = c /\ Idle /\ ~NoMoreSessions
    <3>1. lock = c BY <2>2, CallerNames DEF Locking
    <3>2. Idle BY <2>2 DEF Sessions, Configurable, InSession
    <3> QED BY <2>2, <3>1, <3>2 DEF NoMoreSessions
  <2>4. ASSUME NEW d \in Callers, d # c, Step(d) \in {"cancel", "closeQueue"} PROVE FALSE
    <3>1. Step(d) \in Todo(d) /\ Step(d) \in ClosingSteps
      BY <2>4, FlagFirst, CallerNames DEF AllSteps, WorkerSteps
    <3>2. Todo(d) \cap EndsOfClosing # {}
      <4>1. Proper(d, script[d]) BY StepNames DEF Scripted
      <4> QED BY <3>1, <4>1 DEF Proper, Todo
    <3>3. "forceJoin" \notin Todo(d) BY <2>3 DEF Disconnecting
    <3>4. Todo(d) \cap HoldingSteps = {} BY <2>3, <2>4 DEF Locking
    <3> QED BY <3>2, <3>3, <3>4, CallerNames
  <2>5. \A w \in Workers : Step(w)' = "idle"
    BY <2>1, <2>3 DEF Idle, WorkersStay
  <2>6. \A t \in Threads : Step(t)' \notin {"cancel", "closeQueue"}
    BY <1>1, <2>1, <2>4, <2>5 DEF Others
  <2> QED BY <2>1, <2>6 DEF Stops
<1> QED BY <1>2, <1>3, <1>4, <1>5

(* A worker comes to shut the engine down only after it has failed.        *)
LEMMA WorkersStopNothing ==
  ASSUME TypeOK, Scripted, Acquisition \/ Dsp, \A w \in Workers : ~Closing(w)
  PROVE  /\ \A w \in Workers : Step(w)' \in {"cancel", "closeQueue"}
                                 => Step(w) \in {"cancel", "closeQueue"}
         /\ stop' = stop /\ device' = device
<1> DEFINE Other == \A w \in Workers : Step(w)' \in {"cancel", "closeQueue"}
                                         => Step(w) \in {"cancel", "closeQueue"}
<1>1. /\ \A w \in Workers : \A x :
           Turns(w, x) => Step(w)' = x /\ \A v \in Workers : v # w => Step(v)' = Step(v)
      /\ "acquisition" \in Workers /\ "dsp" \in Workers
  BY Moved DEF Workers
<1>2. ASSUME NEW w \in Workers, NEW x, Turns(w, x), x \notin {"cancel", "closeQueue"}
      PROVE  Other
  BY <1>1, <1>2
<1> HIDE DEF Other
<1>3. AcqCheck \/ AcqRefill \/ AcqRefillThrows \/ AcqPush \/ AcqCountDrop \/ AcqCountStopped => Other
  <2>1. ASSUME AcqCheck \/ AcqRefill \/ AcqRefillThrows \/ AcqPush \/ AcqCountDrop
                 \/ AcqCountStopped
        PROVE  \E x \in {"idle", "refill", "check", "push", "emitFailure", "countDrop",
                         "countStopped"} : Turns("acquisition", x)
    BY <2>1, AcquisitionMoves
  <2> QED BY <1>1, <1>2, <2>1
<1>4. DspPop \/ DspDrained \/ DspProcess \/ DspThrows \/ DspFlush => Other
  BY <1>1, <1>2, DspMoves
<1>5. ASSUME NEW w \in Workers, EmitFailure(w) \/ MarkError(w)
      PROVE  Other
  <2>1. \E x \in FailingSteps \cup {"stopToken", "idle"} : Turns(w, x)
    BY <1>5, FailureMoves
  <2> QED BY <1>2, <2>1 DEF FailingSteps
<1>6. AcqCheck \/ AcqRefill \/ AcqRefillThrows \/ AcqPush \/ AcqCountDrop \/ AcqCountStopped
        => UNCHANGED lifecycle
  BY DEF AcqCheck, AcqRefill, AcqRefillThrows, AcqPush, AcqCountDrop, AcqCountStopped
<1>7. DspPop \/ DspDrained \/ DspProcess \/ DspThrows \/ DspFlush => UNCHANGED lifecycle
  BY DEF DspPop, DspDrained, DspProcess, DspThrows, DspFlush
<1>8. \A w : EmitFailure(w) \/ MarkError(w) => stop' = stop /\ device' = device
  BY DEF EmitFailure, MarkError, lifecycle
<1>9. UNCHANGED lifecycle => stop' = stop /\ device' = device BY DEF lifecycle
<1>10. Other BY <1>1, <1>3, <1>4, <1>5 DEF Acquisition, Dsp
<1>11. stop' = stop /\ device' = device
  BY <1>1, <1>6, <1>7, <1>8, <1>9 DEF Acquisition, Dsp
<1> QED BY <1>10, <1>11 DEF Other

LEMMA WorkersKeepStops ==
  ASSUME TypeOK, Scripted, Stops, Acquisition \/ Dsp
  PROVE  Stops'
<1>1. /\ \A t \in Threads : t \in Callers \/ t \in Workers
      /\ \A w \in Workers : w \in Threads
  BY StepNames DEF Threads
<1>2. CallersStay BY WorkerEffects
<1>3. ASSUME NEW w \in Workers, Closing(w)
      PROVE  Stops'
  <2>1. \A v \in Workers : v # w => Step(v)' = Step(v)
    <3>1. Turns(w, NextStep(w)) BY <1>1, <1>3, ClosingMoves DEF Turns
    <3> QED BY <3>1, Moved
  <2>2. /\ stop => stop'
        /\ Step(w)' \in {"cancel", "closeQueue"} => stop'
        /\ device'.cancelled => stop'
    BY <1>1, <1>3, ClosingStops
  <2> QED BY <1>1, <1>2, <2>1, <2>2 DEF Stops, CallersStay
<1>4. CASE \A w \in Workers : ~Closing(w)
  <2>1. /\ \A w \in Workers : Step(w)' \in {"cancel", "closeQueue"}
                                => Step(w) \in {"cancel", "closeQueue"}
        /\ stop' = stop /\ device' = device
    BY <1>4, WorkersStopNothing
  <2> QED BY <1>1, <1>2, <2>1 DEF Stops, CallersStay
<1> QED BY <1>3, <1>4

-----------------------------------------------------------------------------
(* Errors                                                                  *)

LEMMA WorkersKeepErrors ==
  ASSUME TypeOK, Scripted, Stops, Errors, Acquisition \/ Dsp
  PROVE  Errors'
<1>1. /\ "acquisition" \in Workers /\ "dsp" \in Workers /\ Workers = {"acquisition", "dsp"}
      /\ \A w \in Workers : \A x :
           Turns(w, x) => Step(w)' = x /\ \A v \in Workers : v # w => Step(v)' = Step(v)
      /\ {"emitFailure", "markError"} = FailingSteps
  BY Moved DEF Workers, FailingSteps
<1>2. CallersStay BY WorkerEffects
<1>3. diag.hasError \in BOOLEAN /\ "hasError" \in DOMAIN diag BY DEF TypeOK
<1>4. ASSUME NEW w \in Workers, NEW x, Turns(w, x), Step(w) # "emitFailure",
             x \notin FailingSteps, state' = state, diag'.hasError = diag.hasError, dirty' = dirty
      PROVE  Errors'
  <2>1. /\ \A v \in Workers : Step(v)' \in FailingSteps => Step(v) \in FailingSteps
        /\ \A v \in Workers : Step(v) = "emitFailure" => Step(v)' = "emitFailure"
    BY <1>1, <1>4
  <2> QED BY <1>2, <1>4, <2>1 DEF Errors, CallersStay
<1>5. ASSUME NEW w \in Workers, NEW x, Turns(w, x), x = "emitFailure", dirty',
             state' = state, diag' = diag
      PROVE  Errors'
  <2>1. \E v \in Workers : Step(v)' = "emitFailure" BY <1>1, <1>5
  <2> QED BY <1>5, <2>1 DEF Errors
<1>6. ASSUME NEW w \in Workers, Step(w) \in FailingSteps, diag'.hasError = TRUE, dirty' = dirty,
             state' = state \/ state' = "Error"
      PROVE  Errors'
  BY <1>6 DEF Errors
<1>7. CASE AcqCheck
  <2>1. /\ Step("acquisition") = "check" /\ \E x \in {"idle", "refill"} : Turns("acquisition", x)
    BY <1>7, AcquisitionMoves
  <2>2. state' = state /\ diag' = diag /\ dirty' = dirty
    BY <1>7 DEF AcqCheck, lifecycle
  <2> QED BY <1>1, <1>4, <2>1, <2>2
<1>8. CASE AcqRefill
  <2>1. /\ Step("acquisition") = "refill" /\ \E x \in {"check", "push"} : Turns("acquisition", x)
    BY <1>8, AcquisitionMoves
  <2>2. state' = state /\ diag' = diag /\ dirty' = dirty
    BY <1>8 DEF AcqRefill, lifecycle
  <2> QED BY <1>1, <1>4, <2>1, <2>2
<1>9. CASE AcqRefillThrows
  <2>1. /\ Step("acquisition") = "refill"
        /\ Turns("acquisition", IF stop THEN "idle" ELSE "emitFailure")
    BY <1>9, AcquisitionMoves
  <2>2. /\ state' = state /\ diag' = diag
        /\ \/ device.cancelled /\ dirty' = dirty
           \/ dirty' = (dirty \/ ~stop)
    BY <1>9 DEF AcqRefillThrows, lifecycle
  <2>3. stop \in BOOLEAN /\ dirty \in BOOLEAN /\ (device.cancelled => stop)
    BY DEF TypeOK, Stops
  <2>4. CASE stop
    <3>1. Turns("acquisition", "idle") BY <2>1, <2>4
    <3>2. dirty' = dirty BY <2>2, <2>3, <2>4
    <3> QED BY <1>1, <1>4, <2>1, <2>2, <3>1, <3>2
  <2>5. CASE ~stop
    <3>1. Turns("acquisition", "emitFailure") BY <2>1, <2>5
    <3>2. dirty' = TRUE BY <2>2, <2>3, <2>5
    <3> QED BY <1>1, <1>5, <2>2, <3>1, <3>2
  <2> QED BY <2>4, <2>5
<1>10. CASE AcqPush
  <2>1. /\ Step("acquisition") = "push"
        /\ \E x \in {"check", "countStopped", "countDrop"} : Turns("acquisition", x)
    BY <1>10, AcquisitionMoves
  <2>2. state' = state /\ diag' = diag /\ dirty' = dirty
    BY <1>10 DEF AcqPush, lifecycle
  <2> QED BY <1>1, <1>4, <2>1, <2>2
<1>11. CASE AcqCountDrop
  <2>1. Step("acquisition") = "countDrop" /\ Turns("acquisition", "check")
    BY <1>11, AcquisitionMoves
  <2>2. state' = state /\ (diag' = diag \/ diag' = Emit(diag, FALSE)) /\ dirty' = dirty
    BY <1>11 DEF AcqCountDrop, lifecycle
  <2>3. diag'.hasError = diag.hasError BY <1>3, <2>2, Emitted
  <2> QED BY <1>1, <1>4, <2>1, <2>2, <2>3
<1>12. CASE AcqCountStopped
  <2>1. Step("acquisition") = "countStopped" /\ Turns("acquisition", "idle")
    BY <1>12, AcquisitionMoves
  <2>2. state' = state /\ diag' = diag /\ dirty' = dirty
    BY <1>12 DEF AcqCountStopped, lifecycle
  <2> QED BY <1>1, <1>4, <2>1, <2>2
<1>13. CASE DspPop \/ DspDrained \/ DspProcess \/ DspFlush
  <2>1. /\ Step("dsp") \in {"pop", "process", "flush"}
        /\ \E x \in {"pop", "process", "flush", "idle"} : Turns("dsp", x)
    BY <1>13, DspMoves
  <2>2. state' = state /\ diag' = diag /\ dirty' = dirty
    BY <1>13 DEF DspPop, DspDrained, DspProcess, DspFlush, lifecycle
  <2> QED BY <1>1, <1>4, <2>1, <2>2
<1>14. CASE DspThrows
  <2>1. Turns("dsp", "emitFailure") BY <1>14, DspMoves
  <2>2. state' = state /\ diag' = diag /\ dirty' = TRUE
    BY <1>14 DEF DspThrows, lifecycle
  <2> QED BY <1>1, <1>5, <2>1, <2>2
<1>15. ASSUME NEW w \in Workers, EmitFailure(w)
       PROVE  Errors'
  <2>1. Step(w) = "emitFailure" BY <1>15, FailureMoves
  <2>2. state' = state /\ diag' = Emit(diag, TRUE) /\ dirty' = dirty
    BY <1>15 DEF EmitFailure, lifecycle
  <2>3. diag'.hasError = TRUE BY <1>3, <2>2, Emitted
  <2> QED BY <1>1, <1>6, <2>1, <2>2, <2>3
<1>16. ASSUME NEW w \in Workers, MarkError(w)
       PROVE  Errors'
  <2>1. Step(w) = "markError" BY <1>16, FailureMoves
  <2>2. (state' = state \/ state' = "Error") /\ diag'.hasError = TRUE /\ dirty' = dirty
    BY <1>3, <1>16 DEF MarkError
  <2> QED BY <1>1, <1>6, <2>1, <2>2
<1>17. ASSUME NEW w \in Workers, Closing(w)
       PROVE  Errors'
  <2>1. /\ Step(w) \in ClosingSteps /\ NextStep(w) \notin FailingSteps /\ Turns(w, NextStep(w))
    BY <1>17, StepNames, ClosingMoves DEF Turns
  <2>2. state' = state /\ diag' = diag /\ dirty' = dirty
    BY <1>17 DEF Closing, StopToken, Cancel, CloseQueue, lifecycle
  <2> QED BY <1>4, <2>1, <2>2 DEF ClosingSteps
<1> QED BY <1>1, <1>7, <1>8, <1>9, <1>10, <1>11, <1>12, <1>13, <1>14, <1>15, <1>16, <1>17
        DEF Acquisition, Dsp

(* Only a start() gives the workers something to do.                       *)
LEMMA OnlyStartStarts ==
  ASSUME Scripted, NEW c \in Callers, Continue(c)
  PROVE  WorkersStay \/ Start(c) \/ StartSpawnFails(c)
<1>1. \A x, S : Moves(c, x, S) => WorkersStay BY Moved
<1>2. Configure(c) \/ Announce(c) \/ Release(c) \/ JoinWorkers(c) \/ RaiseFlag(c) \/ ForceJoin(c)
        \/ Settled(c) \/ Finalize(c) \/ PollSpectrum(c) \/ PollEvents(c) => WorkersStay
  BY <1>1, CallerAdvances
<1>3. ConfigureThrows(c) \/ ConfigureDeviceFails(c) \/ StartRefused(c) \/ StartDeviceFails(c)
        \/ AbortStart(c) => WorkersStay
  BY <1>1, CallerThrows
<1>4. ConfigurePasses(c) \/ StartPasses(c) => WorkersStay BY <1>1, CallerPasses
<1>5. Fail(c) /\ Step(c) \in {"requestStop", "join"} => WorkersStay
  BY <1>1, Forced
<1>6. RequestStop(c) => WorkersStay BY <1>1, <1>5, CallerTurns DEF ClosesWith
<1>7. Sweep(c) => WorkersStay BY <1>1, CallerTurns DEF ClosesWith
<1>8. Join(c) => WorkersStay BY <1>1, <1>5, CallerTurns
<1>9. Shutdown(c) \/ ShutdownJoin(c) => WorkersStay BY <1>1, CallerShutsDown
<1>10. Closing(c) => WorkersStay BY <1>1, ClosingMoves, StepNames
<1> QED BY <1>2, <1>3, <1>4, <1>6, <1>7, <1>8, <1>9, <1>10 DEF Continue

(* Of the calls only configure() forgets an error, and only a start() that *)
(* cannot create its threads brings one about.                             *)
LEMMA CallersErrNothing ==
  ASSUME TypeOK, Scripted, Sessions, NEW c \in Callers, Continue(c),
         ~Configure(c), ~StartSpawnFails(c), ~AbortStart(c)
  PROVE  /\ diag'.hasError = diag.hasError /\ dirty' = dirty
         /\ state' = "Error" => state = "Error"
         /\ "abortStart" \in Todo(c) => "abortStart" \in Todo(c)'
         /\ \A w \in Workers : /\ Step(w)' \in FailingSteps => Step(w) \in FailingSteps
                               /\ Step(w) = "emitFailure" => Step(w)' = "emitFailure"
<1>1. diag.hasError \in BOOLEAN /\ "hasError" \in DOMAIN diag BY DEF TypeOK
<1>2. WorkersStay \/ Start(c) BY OnlyStartStarts
<1>3. \A w \in Workers : /\ Step(w)' \in FailingSteps => Step(w) \in FailingSteps
                         /\ Step(w) = "emitFailure" => Step(w)' = "emitFailure"
  <2>1. CASE WorkersStay BY <2>1 DEF WorkersStay
  <2>2. CASE Start(c)
    <3>1. /\ Step(c) = "startStream" /\ Step("dsp")' = "pop" /\ Step("acquisition")' = "check"
      BY <2>2, StartMoves
    <3>2. "startStream" \in Todo(c) BY <3>1, FlagFirst, CallerNames
    <3>3. Idle BY <3>2 DEF Sessions, InSession
    <3>4. \A w \in Workers : Step(w) = "idle" /\ Step(w)' \in {"pop", "check"}
      BY <3>1, <3>3 DEF Idle, Workers
    <3> QED BY <3>4 DEF FailingSteps
  <2> QED BY <1>2, <2>1, <2>2
<1>4. "abortStart" \in Todo(c) => "abortStart" \in Todo(c)'
  <2>1. CASE Closing(c)
    <3>1. /\ Moves(c, NextStep(c), Later(c)) /\ Todo(c) = {Step(c)} \cup Later(c)
          /\ Step(c) \in ClosingSteps
      BY <2>1, ClosingMoves, StepNames
    <3>2. Todo(c)' = Later(c) BY <3>1, Moved
    <3> QED BY <3>1, <3>2 DEF ClosingSteps
  <2>2. CASE ~Closing(c)
    <3>1. Step(c) \in CallerSteps \ (ClosingSteps \cup {"abortStart"})
      <4>1. /\ {"apply", "announce", "release", "joinWorkers", "forceJoin", "settled", "finalize",
                "raiseFlag", "pollSpectrum", "pollEvents", "configure", "start", "startStream",
                "requestStop", "sweep", "join", "shutdown", "shutdownJoin"}
                 \subseteq CallerSteps \ (ClosingSteps \cup {"abortStart"})
        BY DEF CallerSteps, FrontSteps, FinalSteps, HoldingSteps, ClosingSteps
      <4>2. Announce(c) \/ Release(c) \/ JoinWorkers(c) \/ RaiseFlag(c) \/ ForceJoin(c) \/ Settled(c)
              \/ Finalize(c) \/ PollSpectrum(c) \/ PollEvents(c)
              => Step(c) \in {"announce", "release", "joinWorkers", "raiseFlag", "forceJoin",
                              "settled", "finalize", "pollSpectrum", "pollEvents"}
        BY CallerAdvances
      <4>3. ConfigureThrows(c) \/ ConfigureDeviceFails(c) \/ StartRefused(c) \/ StartDeviceFails(c)
              => Step(c) \in {"configure", "apply", "start", "startStream"}
        BY CallerThrows
      <4>4. ConfigurePasses(c) \/ StartPasses(c) => Step(c) \in {"configure", "start"}
        BY CallerPasses
      <4>5. RequestStop(c) \/ Sweep(c) \/ Join(c) => Step(c) \in {"requestStop", "sweep", "join"}
        BY CallerTurns
      <4>6. Shutdown(c) \/ ShutdownJoin(c) => Step(c) \in {"shutdown", "shutdownJoin"}
        BY CallerShutsDown
      <4>7. Start(c) => Step(c) = "startStream" BY StartMoves
      <4> QED BY <2>2, <4>1, <4>2, <4>3, <4>4, <4>5, <4>6, <4>7 DEF Continue
    <3>2. "abortStart" \notin Todo(c)
      <4>1. /\ Later(c) \subseteq CallerSteps \ (FrontSteps \cup {"raiseFlag"})
            /\ Todo(c) = {Step(c)} \cup Later(c)
        BY <3>1, CallerRest
      <4> QED BY <3>1, <4>1, CallerNames
    <3> QED BY <3>2
  <2> QED BY <2>1, <2>2
<1>5. /\ diag' = diag \/ diag' = Emit(diag, FALSE) \/ diag' = Emit(Emit(diag, FALSE), FALSE)
         \/ diag' = Drained(diag)
      /\ dirty' = dirty
      /\ state' = "Error" => state = "Error"
  <2> HIDE DEF data
  <2>1. Announce(c) \/ JoinWorkers(c) \/ PollEvents(c) =>
          /\ diag' = Emit(diag, FALSE) \/ diag' = Emit(Emit(diag, FALSE), FALSE)
             \/ diag' = Drained(diag)
          /\ dirty' = dirty /\ (state' = "Error" => state = "Error")
    BY DEF Announce, JoinWorkers, PollEvents, lifecycle
  <2>2. ConfigureThrows(c) \/ ConfigureDeviceFails(c) \/ StartRefused(c) \/ StartDeviceFails(c)
          \/ ConfigurePasses(c) \/ StartPasses(c) \/ Start(c)
          => diag' = diag /\ dirty' = dirty /\ (state' = "Error" => state = "Error")
    BY DEF ConfigureThrows, ConfigureDeviceFails, StartRefused, StartDeviceFails, ConfigurePasses,
           StartPasses, Start, lifecycle
  <2>3. Release(c) \/ RaiseFlag(c) \/ ForceJoin(c) \/ Settled(c) \/ Finalize(c) \/ PollSpectrum(c)
          => diag' = diag /\ dirty' = dirty /\ (state' = "Error" => state = "Error")
    BY DEF Release, RaiseFlag, ForceJoin, Settled, Finalize, PollSpectrum, lifecycle
  <2>4. RequestStop(c) \/ Join(c) \/ Sweep(c)
          => diag' = diag /\ dirty' = dirty /\ (state' = "Error" => state = "Error")
    BY DEF RequestStop, Join, Sweep
  <2>5. Shutdown(c) \/ ShutdownJoin(c) \/ Closing(c)
          => diag' = diag /\ dirty' = dirty /\ (state' = "Error" => state = "Error")
    BY DEF Shutdown, ShutdownJoin, Closing, StopToken, Cancel, CloseQueue, lifecycle
  <2> QED BY <2>1, <2>2, <2>3, <2>4, <2>5 DEF Continue
<1>6. diag'.hasError = diag.hasError
  <2>1. /\ Emit(diag, FALSE).hasError = diag.hasError /\ Drained(diag).hasError = diag.hasError
        /\ "hasError" \in DOMAIN Emit(diag, FALSE)
    BY <1>1, Emitted
  <2>2. Emit(Emit(diag, FALSE), FALSE).hasError = diag.hasError
    BY <1>1, <2>1, Emitted
  <2> QED BY <1>5, <2>1, <2>2
<1> QED BY <1>3, <1>4, <1>5, <1>6

LEMMA CallersKeepErrors ==
  ASSUME TypeOK, Scripted, Locking, Sessions, Errors, NEW c \in Callers, Call(c) \/ Continue(c)
  PROVE  Errors'
<1>1. diag.hasError \in BOOLEAN /\ "hasError" \in DOMAIN diag BY DEF TypeOK
<1>2. CASE Call(c)
  <2>1. Others(c) /\ WorkersStay /\ Todo(c) = {} BY <1>2, CallMoves, Moved
  <2>2. state' = state /\ diag' = diag /\ dirty' = dirty
    BY <1>2 DEF Call, lifecycle
  <2>3. \A d \in Callers : "abortStart" \in Todo(d) => "abortStart" \in Todo(d)'
    BY <2>1 DEF Others
  <2> QED BY <2>1, <2>2, <2>3 DEF Errors, WorkersStay
<1>3. CASE Configure(c)
  <2>1. Step(c) = "apply" /\ WorkersStay BY <1>3, CallerAdvances, Moved
  <2>2. "apply" \in Todo(c) BY <2>1, FlagFirst, CallerNames
  <2>3. Idle BY <2>2 DEF Sessions, Configurable, InSession
  <2>4. \A w \in Workers : Step(w)' \notin FailingSteps
    BY <2>1, <2>3 DEF Idle, WorkersStay, FailingSteps
  <2>5. /\ state' = "Configured" /\ dirty' = FALSE
        /\ diag' = Emit(NewDiagnostics(EventCapacity), FALSE)
    BY <1>3 DEF Configure
  <2>6. /\ "hasError" \in DOMAIN NewDiagnostics(EventCapacity)
        /\ NewDiagnostics(EventCapacity).hasError = FALSE
    BY DEF NewDiagnostics
  <2>7. ~diag'.hasError BY <2>5, <2>6, Emitted
  <2> QED BY <2>4, <2>5, <2>7 DEF Errors
<1>4. CASE StartSpawnFails(c)
  <2>1. /\ Step(c) = "startStream" /\ Todo(c)' = ClosingSteps \cup {"abortStart"}
        /\ Step("dsp")' \in {"idle", "pop"} /\ Step("acquisition")' = Step("acquisition")
    BY <1>4, SpawnFailsMoves
  <2>2. state' = "Running" /\ dirty' = TRUE BY <1>4 DEF StartSpawnFails
  <2> QED BY <2>1, <2>2 DEF Errors
<1>5. CASE AbortStart(c)
  <2>1. Step(c) = "abortStart" /\ WorkersStay BY <1>5, CallerThrows, Moved
  <2>2. "abortStart" \in Todo(c) BY <2>1, FlagFirst, CallerNames
  <2>3. dirty BY <2>2 DEF Sessions
  <2>4. dirty' = dirty /\ diag'.hasError = TRUE BY <1>1, <1>5 DEF AbortStart
  <2> QED BY <2>1, <2>3, <2>4 DEF Errors, WorkersStay
<1>6. CASE Continue(c) /\ ~Configure(c) /\ ~StartSpawnFails(c) /\ ~AbortStart(c)
  <2>1. /\ diag'.hasError = diag.hasError /\ dirty' = dirty
        /\ state' = "Error" => state = "Error"
        /\ "abortStart" \in Todo(c) => "abortStart" \in Todo(c)'
        /\ \A w \in Workers : /\ Step(w)' \in FailingSteps => Step(w) \in FailingSteps
                              /\ Step(w) = "emitFailure" => Step(w)' = "emitFailure"
    BY <1>6, CallersErrNothing
  <2>2. Others(c) BY <1>6, CallerProceeds DEF Proceeds
  <2>3. \A d \in Callers : "abortStart" \in Todo(d) => "abortStart" \in Todo(d)'
    BY <2>1, <2>2 DEF Others
  <2> QED BY <2>1, <2>3 DEF Errors
<1> QED BY <1>2, <1>3, <1>4, <1>5, <1>6

-----------------------------------------------------------------------------
(* Frames and blocks                                                       *)

(* Frames stay true when nothing but true frames is added to them.         *)
LEMMA FramesKept ==
  ASSUME FramesAreTrue, generation' = generation, acq'.policy = acq.policy,
         \A i \in 1..Len(spectrum'.items) :
           \/ True(spectrum'.items[i])
           \/ \E j \in 1..Len(spectrum.items) : spectrum'.items[i] = spectrum.items[j],
         Pending' => (Pending /\ latest' = latest) \/ True(latest'[1])
  PROVE  FramesAreTrue'
<1>1. \A frame : True(frame) => (frame.generation = generation'
                                  /\ (Refusing' => frame.missing <= frame.dropped))
  BY DEF True, Refusing
<1>2. \A i \in 1..Len(spectrum'.items) : True(spectrum'.items[i])
  BY DEF FramesAreTrue
<1>3. Pending' => True(latest'[1]) BY DEF FramesAreTrue
<1> QED BY <1>1, <1>2, <1>3 DEF FramesAreTrue, True

(* Blocks stay accounted for when none moves.                              *)
LEMMA BlocksKept ==
  ASSUME Conserved, Marked,
         acq'.items = acq.items, acq'.policy = acq.policy, acq'.capacity = acq.capacity,
         acq'.popped = acq.popped, count' = count,
         device'.connected => device.connected, Between' = Between,
         Step("acquisition")' = "push" =>
           Step("acquisition") = "push" /\ hand'["acquisition"] = hand["acquisition"],
         Step("dsp")' = "process" => Step("dsp") = "process" /\ hand'["dsp"] = hand["dsp"]
  PROVE  Conserved' /\ Marked'
<1>1. Conserved' BY DEF Conserved
<1>2. Marked' BY DEF Marked, Refusing
<1> QED BY <1>1, <1>2

(* Sorts of what the blocks are reckoned with.                             *)
LEMMA BlockNumbers ==
  ASSUME TypeOK
  PROVE  /\ count.received \in Nat /\ count.transient \in Nat /\ count.dropped \in Nat
         /\ acq.items \in Seq(Nat) /\ Len(acq.items) \in Nat /\ acq.capacity \in Nat
         /\ acq.popped \in Nat /\ Between \in {0, 1}
         /\ hand["acquisition"] \in Nat /\ hand["dsp"] \in Nat
<1>1. count.received \in Nat /\ count.transient \in Nat /\ count.dropped \in Nat
  BY Counted DEF TypeOK
<1>2. /\ acq.items \in Seq(Nat) /\ Len(acq.items) \in Nat /\ acq.capacity \in Nat
      /\ acq.popped \in Nat
  BY QueueFields DEF TypeOK
<1>3. hand["acquisition"] \in Nat /\ hand["dsp"] \in Nat BY DEF TypeOK, Workers
<1> QED BY <1>1, <1>2, <1>3 DEF Between

LEMMA ItemNumbers ==
  ASSUME TypeOK
  PROVE  \A i \in 1..Len(acq.items) : acq.items[i] \in Nat /\ i \in Nat
<1>1. acq.items \in Seq(Nat) /\ Len(acq.items) \in Nat BY BlockNumbers
<1> QED BY <1>1, ElementOfSeq

LEMMA RefillKeepsBlocks ==
  ASSUME TypeOK, Scripted, Conserved, Marked, AcqRefill
  PROVE  Conserved' /\ Marked'
<1>1. /\ Step("acquisition") = "refill"
      /\ Turns("acquisition", IF transientLeft > 0 THEN "check" ELSE "push")
  BY AcquisitionMoves
<1>2. /\ Step("acquisition")' = IF transientLeft > 0 THEN "check" ELSE "push"
      /\ Step("dsp")' = Step("dsp")
  BY <1>1, Moved DEF Workers
<1>3. acq' = acq /\ device' = device BY DEF AcqRefill, lifecycle
<1>4. count \in Counts /\ hand \in [Workers -> Nat] /\ {"acquisition", "dsp"} = Workers
  BY DEF TypeOK, Workers
<1>5. CASE transientLeft > 0
  <2>1. /\ count' = [count EXCEPT !.received = @ + 1, !.transient = @ + 1]
        /\ hand' = hand
    BY <1>5 DEF AcqRefill
  <2>2. /\ count'.received = count.received + 1 /\ count'.transient = count.transient + 1
        /\ count'.dropped = count.dropped
    BY <1>4, <2>1 DEF Counts
  <2>3. Between = 0 /\ Between' = 0 /\ Step("acquisition")' = "check"
    BY <1>1, <1>2, <1>5 DEF Between
  <2>4. Conserved'
    <3>1. PICK r \in Nat, t \in Nat, d \in Nat, p \in Nat, n \in Nat :
            /\ r = count.received /\ t = count.transient /\ d = count.dropped
            /\ p = acq.popped /\ n = Len(acq.items)
      BY BlockNumbers
    <3>2. device.connected => r = t + d + p + n BY <2>3, <3>1 DEF Conserved
    <3>3. device.connected => r + 1 = t + 1 + d + p + n + 0 BY <3>2
    <3> QED BY <1>3, <2>2, <2>3, <3>1, <3>3 DEF Conserved
  <2>5. /\ Refusing' <=> Refusing
        /\ \A i \in 1..Len(acq.items) : i \in Int
    BY <1>3 DEF Refusing
  <2>6. Marked'
    <3>1. PICK t \in Nat, d \in Nat, p \in Nat, h \in Nat :
            /\ t = count.transient /\ d = count.dropped /\ p = acq.popped /\ h = hand["dsp"]
      BY BlockNumbers
    <3>2. ASSUME Refusing, NEW i \in 1..Len(acq.items)
          PROVE  acq.items[i] - i - (t + 1) - p <= d
      <4>1. PICK v \in Nat, k \in Nat : v = acq.items[i] /\ k = i
        BY ItemNumbers
      <4>2. v - k - t - p <= d BY <3>1, <3>2, <4>1 DEF Marked
      <4>3. v - k - (t + 1) - p <= d BY <4>2
      <4> QED BY <4>1, <4>3
    <3>3. Refusing /\ Step("dsp") = "process" => h - (t + 1) - p <= d
      <4>1. Refusing /\ Step("dsp") = "process" => h - t - p <= d
        BY <3>1 DEF Marked
      <4> QED BY <4>1
    <3> QED BY <1>2, <1>3, <2>1, <2>2, <2>3, <2>5, <3>1, <3>2, <3>3 DEF Marked
  <2> QED BY <2>4, <2>6
<1>6. CASE ~(transientLeft > 0)
  <2>1. /\ count' = [count EXCEPT !.received = @ + 1]
        /\ hand' = [hand EXCEPT !["acquisition"] = count.received + 1]
    BY <1>6 DEF AcqRefill
  <2>2. /\ count'.received = count.received + 1 /\ count'.transient = count.transient
        /\ count'.dropped = count.dropped
    BY <1>4, <2>1 DEF Counts
  <2>3. hand'["acquisition"] = count.received + 1 /\ hand'["dsp"] = hand["dsp"]
    BY <1>4, <2>1
  <2>4. Between = 0 /\ Between' = 1 /\ Step("acquisition")' = "push"
    BY <1>1, <1>2, <1>6 DEF Between
  <2>5. Conserved' BY <1>3, <2>2, <2>4, BlockNumbers DEF Conserved
  <2>6. Refusing' <=> Refusing BY <1>3 DEF Refusing
  <2>7. Marked' BY <1>2, <1>3, <2>2, <2>3, <2>6, BlockNumbers DEF Marked
  <2> QED BY <2>5, <2>7
<1> QED BY <1>5, <1>6

LEMMA PushKeepsBlocks ==
  ASSUME TypeOK, Scripted, Sessions, Conserved, Marked, AcqPush
  PROVE  Conserved' /\ Marked'
<1> DEFINE block == hand["acquisition"]
<1>1. /\ Step("acquisition") = "push"
      /\ Turns("acquisition",
               CASE PushResult(acq) = "Stopped" -> "countStopped"
                 [] PushResult(acq) \in {"Dropped", "Evicted"} -> "countDrop"
                 [] OTHER -> "check")
  BY AcquisitionMoves
<1>2. /\ Step("acquisition")' = CASE PushResult(acq) = "Stopped" -> "countStopped"
                                  [] PushResult(acq) \in {"Dropped", "Evicted"} -> "countDrop"
                                  [] OTHER -> "check"
      /\ Step("dsp")' = Step("dsp")
  BY <1>1, Moved DEF Workers
<1>3. /\ acq' = AfterPush(acq, block) /\ count' = count /\ device' = device
      /\ hand' = [hand EXCEPT !["acquisition"] = 0] /\ ~PushBlocks(acq)
  BY DEF AcqPush, lifecycle
<1>4. /\ acq \in QueueRecords(Nat) /\ block \in Nat /\ hand'["dsp"] = hand["dsp"]
      /\ block = count.received
  BY <1>1, <1>3, BlockNumbers DEF TypeOK, Workers, Marked
<1>5. /\ acq'.capacity = acq.capacity /\ acq'.policy = acq.policy /\ acq'.popped = acq.popped
      /\ PushResult(acq) \in {"Stopped", "Dropped"} => acq'.items = acq.items
      /\ PushResult(acq) = "Pushed" => Len(acq'.items) = Len(acq.items) + 1
      /\ PushResult(acq) = "Evicted" => Len(acq'.items) = Len(acq.items)
  BY <1>3, <1>4, QueuePush
<1>6. /\ PushResult(acq) \in {"Stopped", "Pushed", "Dropped", "Evicted"}
      /\ PushResult(acq) = "Evicted" => ~Refusing
      /\ PushResult(acq) = "Pushed" => Len(acq.items) < acq.capacity
  BY <1>3, <1>4, PushOutcome DEF EvictingPolicies, Refusing
<1>7. PushResult(acq) = "Pushed" =>
        /\ \A i \in 1..Len(acq.items) : acq'.items[i] = acq.items[i]
        /\ acq'.items[Len(acq.items) + 1] = block
  BY <1>3, <1>4, PushedItems
<1>8. device.connected
  <2>1. ~Idle BY <1>1 DEF Idle, Workers
  <2> QED BY <2>1 DEF Sessions
<1>9. /\ Between = 1 /\ Step("acquisition")' # "push"
      /\ Between' = IF PushResult(acq) = "Pushed" THEN 0 ELSE 1
  BY <1>1, <1>2, <1>6 DEF Between
<1> HIDE DEF block
<1>10. Refusing' <=> Refusing BY <1>5 DEF Refusing
<1>11. Conserved'
  <2>1. PICK r \in Nat, t \in Nat, d \in Nat, p \in Nat, n \in Nat, m \in Nat :
          /\ r = count.received /\ t = count.transient /\ d = count.dropped
          /\ p = acq.popped /\ n = Len(acq.items) /\ m = acq.capacity
    BY BlockNumbers
  <2>2. n <= m /\ (device.connected => r = t + d + p + n + 1)
    BY <1>9, <2>1 DEF Conserved
  <2>3. CASE PushResult(acq) = "Pushed"
    <3>1. Len(acq'.items) = n + 1 /\ Between' = 0 /\ n < m
      BY <1>5, <1>6, <1>9, <2>1, <2>3
    <3>2. n + 1 <= m /\ (device.connected => r = t + d + p + (n + 1) + 0)
      BY <2>2, <3>1
    <3> QED BY <1>3, <1>5, <2>1, <3>1, <3>2 DEF Conserved
  <2>4. CASE PushResult(acq) # "Pushed"
    <3>1. Len(acq'.items) = n /\ Between' = 1 BY <1>5, <1>6, <1>9, <2>1, <2>4
    <3> QED BY <1>3, <1>5, <2>1, <2>2, <3>1 DEF Conserved
  <2> QED BY <2>3, <2>4
<1>12. CASE PushResult(acq) = "Pushed"
  <2>1. block - (Len(acq.items) + 1) - count.transient - acq.popped <= count.dropped
    BY <1>4, <1>8, <1>9, BlockNumbers DEF Conserved
  <2>2. \A i \in 1..Len(acq'.items) : i \in 1..Len(acq.items) \/ i = Len(acq.items) + 1
    BY <1>5, <1>12, BlockNumbers
  <2>3. Refusing => \A i \in 1..Len(acq'.items) :
          acq'.items[i] - i - count.transient - acq.popped <= count.dropped
    BY <1>7, <1>12, <2>1, <2>2 DEF Marked
  <2> QED BY <1>2, <1>3, <1>4, <1>5, <1>9, <1>10, <1>11, <2>3 DEF Marked
<1>13. CASE PushResult(acq) \in {"Stopped", "Dropped"}
  <2>1. Marked' BY <1>2, <1>3, <1>4, <1>5, <1>9, <1>10, <1>13 DEF Marked
  <2> QED BY <1>11, <2>1
<1>14. CASE PushResult(acq) = "Evicted"
  BY <1>6, <1>9, <1>10, <1>11, <1>14 DEF Marked
<1> QED BY <1>6, <1>12, <1>13, <1>14

LEMMA CountKeepsBlocks ==
  ASSUME TypeOK, Scripted, Conserved, Marked, AcqCountDrop \/ AcqCountStopped
  PROVE  Conserved' /\ Marked'
<1>1. /\ Step("acquisition") \in {"countDrop", "countStopped"}
      /\ \E x \in {"check", "idle"} : Turns("acquisition", x)
  BY AcquisitionMoves
<1>2. Step("acquisition")' \in {"check", "idle"} /\ Step("dsp")' = Step("dsp")
  BY <1>1, Moved DEF Workers
<1>3. /\ acq' = acq /\ device' = device /\ hand' = hand
      /\ \/ count' = [count EXCEPT !.dropped = @ + 1]
         \/ count' = [count EXCEPT !.dropped = @ + 1, !.shutdown = @ + 1]
  BY DEF AcqCountDrop, AcqCountStopped, lifecycle
<1>4. /\ count'.received = count.received /\ count'.transient = count.transient
      /\ count'.dropped = count.dropped + 1
  BY <1>3 DEF TypeOK, Counts
<1>5. Between = 1 /\ Between' = 0 BY <1>1, <1>2 DEF Between
<1>6. PICK r \in Nat, t \in Nat, d \in Nat, p \in Nat, n \in Nat, h \in Nat :
        /\ r = count.received /\ t = count.transient /\ d = count.dropped
        /\ p = acq.popped /\ n = Len(acq.items) /\ h = hand["dsp"]
  BY BlockNumbers
<1>7. Conserved'
  <2>1. device.connected => r = t + d + p + n + 1 BY <1>5, <1>6 DEF Conserved
  <2>2. device.connected => r = t + (d + 1) + p + n + 0 BY <2>1
  <2> QED BY <1>3, <1>4, <1>5, <1>6, <2>2 DEF Conserved
<1>8. Marked'
  <2>1. Refusing' <=> Refusing BY <1>3 DEF Refusing
  <2>2. ASSUME Refusing, NEW i \in 1..Len(acq.items)
        PROVE  acq.items[i] - i - t - p <= d + 1
    <3>1. PICK v \in Nat, k \in Nat : v = acq.items[i] /\ k = i
      BY ItemNumbers
    <3>2. v - k - t - p <= d BY <1>6, <2>2, <3>1 DEF Marked
    <3>3. v - k - t - p <= d + 1 BY <3>2
    <3> QED BY <3>1, <3>3
  <2>3. Refusing /\ Step("dsp") = "process" => h - t - p <= d + 1
    <3>1. Refusing /\ Step("dsp") = "process" => h - t - p <= d
      BY <1>6 DEF Marked
    <3> QED BY <3>1
  <2> QED BY <1>2, <1>3, <1>4, <1>6, <2>1, <2>2, <2>3 DEF Marked
<1> QED BY <1>7, <1>8

LEMMA PopKeepsBlocks ==
  ASSUME TypeOK, Scripted, Conserved, Marked, DspPop
  PROVE  Conserved' /\ Marked'
<1>1. Step("acquisition")' = Step("acquisition") /\ Between' = Between
  <2>1. Turns("dsp", "process") BY DspMoves
  <2>2. Step("acquisition")' = Step("acquisition") BY <2>1, Moved DEF Workers
  <2> QED BY <2>2 DEF Between
<1>2. /\ acq.items # <<>> /\ acq' = AfterPop(acq) /\ count' = count /\ device' = device
      /\ hand' = [hand EXCEPT !["dsp"] = Head(acq.items)]
  BY DEF DspPop, lifecycle
<1>3. acq \in QueueRecords(Nat) /\ hand \in [Workers -> Nat] /\ Workers = {"acquisition", "dsp"}
  BY DEF TypeOK, Workers
<1>4. /\ acq'.capacity = acq.capacity /\ acq'.policy = acq.policy
      /\ acq'.popped = acq.popped + 1 /\ Len(acq'.items) = Len(acq.items) - 1
  BY <1>2, <1>3, QueuePop
<1>5. /\ hand'["dsp"] = acq.items[1] /\ hand'["acquisition"] = hand["acquisition"]
      /\ 1 \in 1..Len(acq.items)
      /\ \A i \in 1..Len(acq'.items) :
           i + 1 \in 1..Len(acq.items) /\ acq'.items[i] = acq.items[i + 1] /\ i \in Nat
  BY <1>2, <1>3, PoppedItems
<1>6. PICK r \in Nat, t \in Nat, d \in Nat, p \in Nat, n \in Nat, m \in Nat, b \in Nat :
        /\ r = count.received /\ t = count.transient /\ d = count.dropped
        /\ p = acq.popped /\ n = Len(acq.items) /\ m = acq.capacity /\ b = Between
  BY BlockNumbers
<1>7. Conserved'
  <2>1. n <= m /\ (device.connected => r = t + d + p + n + b)
    BY <1>6 DEF Conserved
  <2>2. n - 1 <= m /\ (device.connected => r = t + d + (p + 1) + (n - 1) + b)
    BY <2>1
  <2> QED BY <1>1, <1>2, <1>4, <1>6, <2>2 DEF Conserved
<1>8. Marked'
  <2>1. Refusing' <=> Refusing BY <1>4 DEF Refusing
  <2>2. ASSUME Refusing, NEW i \in 1..Len(acq'.items)
        PROVE  acq'.items[i] - i - t - (p + 1) <= d
    <3>1. i + 1 \in 1..Len(acq.items) /\ acq'.items[i] = acq.items[i + 1] /\ i \in Nat
      BY <1>5
    <3>2. PICK v \in Nat, k \in Nat : v = acq.items[i + 1] /\ k = i
      BY <3>1, ItemNumbers
    <3>3. v - (k + 1) - t - p <= d BY <1>6, <2>2, <3>1, <3>2 DEF Marked
    <3>4. v - k - t - (p + 1) <= d BY <3>3
    <3> QED BY <3>1, <3>2, <3>4
  <2>3. Refusing => acq.items[1] - t - (p + 1) <= d
    <3>1. PICK v \in Nat : v = acq.items[1]
      BY <1>5, ItemNumbers
    <3>2. Refusing => v - 1 - t - p <= d BY <1>5, <1>6, <3>1 DEF Marked
    <3>3. Refusing => v - t - (p + 1) <= d BY <3>2
    <3> QED BY <3>1, <3>3
  <2> QED BY <1>1, <1>2, <1>4, <1>5, <1>6, <2>1, <2>2, <2>3 DEF Marked
<1> QED BY <1>7, <1>8

(* The frame made of a block counts what is missing before it.             *)
LEMMA ProcessedIsTrue ==
  ASSUME TypeOK, Marked, Step("dsp") = "process"
  PROVE  True(Frame(hand["dsp"]))
<1> DEFINE frame == Frame(hand["dsp"])
<1>1. /\ frame.generation = generation /\ frame.dropped = count.dropped
      /\ frame.missing = hand["dsp"] - count.transient - acq.popped
  BY DEF Frame
<1>2. Refusing => hand["dsp"] - count.transient - acq.popped <= count.dropped
  BY DEF Marked
<1> HIDE DEF frame
<1>3. True(frame) BY <1>1, <1>2 DEF True
<1> QED BY <1>3 DEF frame

LEMMA PublishingKeepsFrames ==
  ASSUME TypeOK, Scripted, FramesAreTrue, Marked, DspProcess \/ DspFlush
  PROVE  FramesAreTrue'
<1>1. /\ generation' = generation /\ acq' = acq
  BY DEF DspProcess, DspFlush, lifecycle
<1>2. spectrum \in QueueRecords(Frames) BY DEF TypeOK
<1>3. ASSUME NEW frame \in Frames, True(frame), spectrum' = AfterPush(spectrum, frame)
      PROVE  \A i \in 1..Len(spectrum'.items) :
               \/ True(spectrum'.items[i])
               \/ \E j \in 1..Len(spectrum.items) : spectrum'.items[i] = spectrum.items[j]
  <2>1. \A i \in 1..Len(spectrum'.items) :
          \/ spectrum'.items[i] = frame
          \/ \E j \in 1..Len(spectrum.items) : spectrum'.items[i] = spectrum.items[j]
    BY <1>2, <1>3, PushedItems
  <2> QED BY <1>3, <2>1
<1>4. CASE DspProcess
  <2> DEFINE frame == Frame(hand["dsp"])
  <2>1. Step("dsp") = "process" BY <1>4, DspMoves
  <2>2. True(frame) /\ frame \in Frames
    BY <2>1, BlockNumbers, ProcessedIsTrue, FrameType
  <2>3. \/ latest' = <<frame>> /\ spectrum' = spectrum
        \/ latest' = <<>> /\ spectrum' = AfterPush(spectrum, frame)
    BY <1>4 DEF DspProcess
  <2> HIDE DEF frame
  <2>4. Pending' => True(latest'[1])
    <3>1. Pending' => latest' = <<frame>> BY <2>3 DEF Pending
    <3> QED BY <2>2, <3>1
  <2>5. \A i \in 1..Len(spectrum'.items) :
          \/ True(spectrum'.items[i])
          \/ \E j \in 1..Len(spectrum.items) : spectrum'.items[i] = spectrum.items[j]
    <3>1. CASE spectrum' = spectrum BY <3>1
    <3>2. CASE spectrum' = AfterPush(spectrum, frame) BY <1>3, <2>2, <3>2
    <3> QED BY <2>3, <3>1, <3>2
  <2> QED BY <1>1, <2>4, <2>5, FramesKept
<1>5. CASE DspFlush
  <2>1. Step("dsp") = "flush" BY <1>5, DspMoves
  <2>2. /\ latest = <<>> => spectrum' = spectrum
        /\ latest # <<>> => spectrum' = AfterPush(spectrum, latest[1])
        /\ latest' = <<>>
    BY <1>5 DEF DspFlush
  <2>3. latest # <<>> => True(latest[1]) /\ latest[1] \in Frames
    <3>1. latest # <<>> => latest[1] \in Frames BY EmptySeq DEF TypeOK
    <3>2. latest # <<>> => Pending BY <2>1 DEF Pending
    <3> QED BY <3>1, <3>2 DEF FramesAreTrue
  <2>4. ~Pending' BY <2>2 DEF Pending
  <2>5. \A i \in 1..Len(spectrum'.items) :
          \/ True(spectrum'.items[i])
          \/ \E j \in 1..Len(spectrum.items) : spectrum'.items[i] = spectrum.items[j]
    <3>1. CASE latest = <<>> BY <2>2, <3>1
    <3>2. CASE latest # <<>> BY <1>3, <2>2, <2>3, <3>2
    <3> QED BY <3>1, <3>2
  <2> QED BY <1>1, <2>4, <2>5, FramesKept
<1> QED BY <1>4, <1>5

LEMMA WorkersKeepBlocks ==
  ASSUME TypeOK, Scripted, Sessions, Conserved, Marked, Acquisition \/ Dsp
  PROVE  Conserved' /\ Marked'
<1> DEFINE busy == {"push", "countDrop", "countStopped"}
<1>1. /\ "acquisition" \in Workers /\ "dsp" \in Workers /\ Workers = {"acquisition", "dsp"}
      /\ \A w \in Workers : \A x :
           Turns(w, x) => Step(w)' = x /\ \A v \in Workers : v # w => Step(v)' = Step(v)
      /\ {"emitFailure", "markError"} = FailingSteps
  BY Moved DEF Workers, FailingSteps
<1>2. device'.connected = device.connected BY WorkerEffects
<1>3. ASSUME NEW w \in Workers, NEW x, Turns(w, x), Step(w) \notin busy, x \notin busy,
             x # "process", acq' = acq \/ acq' = AfterStop(acq), count' = count,
             hand' = hand \/ (w = "dsp" /\ hand' = [hand EXCEPT !["dsp"] = 0])
      PROVE  Conserved' /\ Marked'
  <2>1. /\ acq'.items = acq.items /\ acq'.policy = acq.policy /\ acq'.capacity = acq.capacity
        /\ acq'.popped = acq.popped
    BY <1>3, QueueStops DEF TypeOK
  <2>2. /\ Step(w)' = x /\ hand'["acquisition"] = hand["acquisition"]
        /\ \A v \in Workers : v # w => Step(v)' = Step(v)
    BY <1>1, <1>3 DEF TypeOK
  <2>3. /\ Between' = Between
        /\ Step("acquisition")' = "push" => Step("acquisition") = "push"
    <3>1. CASE w = "acquisition" BY <1>3, <2>2, <3>1 DEF Between
    <3>2. CASE w = "dsp" BY <1>1, <2>2, <3>2 DEF Between
    <3> QED BY <1>1, <3>1, <3>2
  <2>4. Step("dsp")' = "process" => Step("dsp") = "process" /\ hand'["dsp"] = hand["dsp"]
    BY <1>1, <1>3, <2>2
  <2> QED BY <1>2, <1>3, <2>1, <2>2, <2>3, <2>4, BlocksKept
<1>4. CASE AcqRefill BY <1>4, RefillKeepsBlocks
<1>5. CASE AcqPush BY <1>5, PushKeepsBlocks
<1>6. CASE AcqCountDrop \/ AcqCountStopped BY <1>6, CountKeepsBlocks
<1>7. CASE DspPop BY <1>7, PopKeepsBlocks
<1>8. CASE AcqCheck \/ AcqRefillThrows
  <2>1. /\ Step("acquisition") \in {"check", "refill"}
        /\ \E x \in {"idle", "refill", "emitFailure"} : Turns("acquisition", x)
    <3>1. \A a \in {"refill", "emitFailure"} :
            (IF stop THEN "idle" ELSE a) \in {"idle", "refill", "emitFailure"}
      OBVIOUS
    <3> QED BY <1>8, <3>1, AcquisitionMoves
  <2>2. acq' = acq /\ count' = count /\ hand' = hand
    BY <1>8 DEF AcqCheck, AcqRefillThrows, data
  <2> QED BY <1>1, <1>3, <2>1, <2>2
<1>9. CASE DspDrained \/ DspProcess \/ DspFlush \/ DspThrows
  <2>1. /\ Step("dsp") \in {"pop", "process", "flush"}
        /\ \E x \in {"pop", "flush", "idle", "emitFailure"} : Turns("dsp", x)
    BY <1>9, DspMoves
  <2>2. /\ acq' = acq /\ count' = count
        /\ hand' = hand \/ hand' = [hand EXCEPT !["dsp"] = 0]
    BY <1>9 DEF DspDrained, DspProcess, DspFlush, DspThrows, data
  <2> QED BY <1>1, <1>3, <2>1, <2>2
<1>10. ASSUME NEW w \in Workers, EmitFailure(w) \/ MarkError(w)
       PROVE  Conserved' /\ Marked'
  <2>1. /\ Step(w) \in FailingSteps
        /\ \E x \in FailingSteps \cup {"stopToken", "idle"} : Turns(w, x)
    BY <1>1, <1>10, FailureMoves
  <2>2. acq' = acq /\ count' = count /\ hand' = hand
    BY <1>10 DEF EmitFailure, MarkError, data
  <2> QED BY <1>3, <2>1, <2>2 DEF FailingSteps
<1>11. ASSUME NEW w \in Workers, Closing(w)
       PROVE  Conserved' /\ Marked'
  <2>1. /\ Step(w) \in ClosingSteps /\ NextStep(w) \in {"idle"} \cup ClosingSteps
        /\ Turns(w, NextStep(w))
    BY <1>11, StepNames, ClosingMoves DEF Turns
  <2>2. (acq' = acq \/ acq' = AfterStop(acq)) /\ count' = count /\ hand' = hand
    BY <1>11 DEF Closing, StopToken, Cancel, CloseQueue, data
  <2> QED BY <1>3, <2>1, <2>2 DEF ClosingSteps
<1> QED BY <1>1, <1>4, <1>5, <1>6, <1>7, <1>8, <1>9, <1>10, <1>11 DEF Acquisition, Dsp

LEMMA WorkersKeepFrames ==
  ASSUME TypeOK, Scripted, FramesAreTrue, Marked, Acquisition \/ Dsp
  PROVE  FramesAreTrue'
<1>1. "acquisition" \in Workers /\ "dsp" \in Workers /\ Workers = {"acquisition", "dsp"}
  BY DEF Workers
<1>2. generation' = generation BY WorkerEffects
<1>3. acq'.policy = acq.policy
  <2>1. \/ acq' = acq \/ acq' = AfterPush(acq, hand["acquisition"]) \/ acq' = AfterStop(acq)
        \/ acq.items # <<>> /\ acq' = AfterPop(acq)
    <3>1. Acquisition =>
            acq' = acq \/ acq' = AfterPush(acq, hand["acquisition"]) \/ acq' = AfterStop(acq)
      BY DEF Acquisition, AcqCheck, AcqRefill, AcqRefillThrows, AcqPush, AcqCountDrop,
             AcqCountStopped, EmitFailure, MarkError, Closing, StopToken, Cancel, CloseQueue, data
    <3>2. Dsp =>
            acq' = acq \/ acq' = AfterStop(acq) \/ (acq.items # <<>> /\ acq' = AfterPop(acq))
      BY DEF Dsp, DspPop, DspDrained, DspProcess, DspThrows, DspFlush, EmitFailure, MarkError,
             Closing, StopToken, Cancel, CloseQueue, data
    <3> QED BY <3>1, <3>2
  <2>2. acq \in QueueRecords(Nat) /\ hand["acquisition"] \in Nat
    BY <1>1 DEF TypeOK
  <2> QED BY <2>1, <2>2, QueuePush, QueuePop, QueueStops
<1>4. CASE DspProcess \/ DspFlush BY <1>4, PublishingKeepsFrames
<1>5. CASE ~DspProcess /\ ~DspFlush
  <2>1. spectrum' = spectrum /\ latest' = latest
    <3>1. Acquisition => spectrum' = spectrum /\ latest' = latest
      BY DEF Acquisition, AcqCheck, AcqRefill, AcqRefillThrows, AcqPush, AcqCountDrop,
             AcqCountStopped, EmitFailure, MarkError, Closing, StopToken, Cancel, CloseQueue, data
    <3>2. Dsp => spectrum' = spectrum /\ latest' = latest
      BY <1>5 DEF Dsp, DspPop, DspDrained, DspThrows, EmitFailure, MarkError,
             Closing, StopToken, Cancel, CloseQueue, data
    <3> QED BY <3>1, <3>2
  <2>2. Step("dsp")' # "idle" => Step("dsp") # "idle"
    <3>1. CASE Acquisition
      <4>1. \E x : Turns("acquisition", x)
        <5>1. AcqCheck \/ AcqRefill \/ AcqRefillThrows \/ AcqPush \/ AcqCountDrop
                \/ AcqCountStopped => \E x : Turns("acquisition", x)
          BY AcquisitionMoves
        <5>2. EmitFailure("acquisition") \/ MarkError("acquisition")
                => \E x : Turns("acquisition", x)
          BY <1>1, FailureMoves
        <5>3. Closing("acquisition") => \E x : Turns("acquisition", x)
          BY <1>1, StepNames, ClosingMoves DEF Turns
        <5> QED BY <3>1, <5>1, <5>2, <5>3 DEF Acquisition
      <4> QED BY <1>1, <4>1, Moved
    <3>2. CASE Dsp
      <4>1. DspPop \/ DspDrained \/ DspProcess \/ DspThrows \/ DspFlush => Step("dsp") # "idle"
        BY DspMoves
      <4>2. EmitFailure("dsp") \/ MarkError("dsp") => Step("dsp") # "idle"
        BY <1>1, FailureMoves
      <4>3. Closing("dsp") => Step("dsp") # "idle"
        BY <1>1, StepNames, ClosingMoves DEF ClosingSteps
      <4> QED BY <3>2, <4>1, <4>2, <4>3 DEF Dsp
    <3> QED BY <3>1, <3>2
  <2>3. Pending' => Pending /\ latest' = latest BY <2>1, <2>2 DEF Pending
  <2>4. \A i \in 1..Len(spectrum'.items) :
          \E j \in 1..Len(spectrum.items) : spectrum'.items[i] = spectrum.items[j]
    BY <2>1
  <2> QED BY <1>2, <1>3, <2>3, <2>4, FramesKept
<1> QED BY <1>4, <1>5

(* A caller moves no block, but for configure(), join() and disconnect();  *)
(* what it takes of the frames is the first of them.                       *)
LEMMA CallersMoveNothing ==
  ASSUME NEW c \in Callers, Call(c) \/ Continue(c), ~Configure(c), ~JoinWorkers(c), ~Finalize(c)
  PROVE  /\ acq' = acq \/ acq' = AfterStop(acq)
         /\ spectrum' = spectrum \/ (spectrum.items # <<>> /\ spectrum' = AfterPop(spectrum))
         /\ count' = count /\ hand' = hand /\ generation' = generation
         /\ latest' = latest \/ latest' = <<>>
         /\ Start(c) \/ StartSpawnFails(c) => latest' = <<>>
<1> USE DEF lifecycle, data
<1>1. CASE \/ ConfigurePasses(c) \/ ConfigureThrows(c) \/ ConfigureDeviceFails(c) \/ StartPasses(c)
           \/ StartRefused(c) \/ Call(c) \/ Announce(c) \/ Release(c) \/ AbortStart(c)
  <2>1. UNCHANGED <<generation, data>>
    BY <1>1 DEF ConfigurePasses, ConfigureThrows, ConfigureDeviceFails, StartPasses, StartRefused,
                Call, Announce, Release, AbortStart
  <2>2. ~Start(c) /\ ~StartSpawnFails(c)
    <3>1. Start(c) \/ StartSpawnFails(c) => script[c][1] = "startStream" /\ script[c] # <<>>
      BY DEF Start, StartSpawnFails, At
    <3>2. script[c] = <<>> \/ script[c][1] # "startStream"
      BY <1>1 DEF ConfigurePasses, ConfigureThrows, ConfigureDeviceFails, StartPasses, StartRefused,
                  Call, Announce, Release, AbortStart, At
    <3> QED BY <3>1, <3>2
  <2> QED BY <2>1, <2>2
<1>2. CASE \/ RequestStop(c) \/ Join(c) \/ Sweep(c) \/ RaiseFlag(c) \/ ForceJoin(c) \/ Settled(c)
           \/ Shutdown(c) \/ ShutdownJoin(c) \/ PollEvents(c) \/ Closing(c) \/ PollSpectrum(c)
  <2>1. ~Start(c) /\ ~StartSpawnFails(c)
    <3>1. Start(c) \/ StartSpawnFails(c) => script[c][1] = "startStream" /\ script[c] # <<>>
      BY DEF Start, StartSpawnFails, At
    <3>2. script[c] = <<>> \/ script[c][1] # "startStream"
      BY <1>2 DEF RequestStop, Join, Sweep, RaiseFlag, ForceJoin, Settled, Shutdown, ShutdownJoin,
                  PollEvents, Closing, StopToken, Cancel, CloseQueue, PollSpectrum, At
    <3> QED BY <3>1, <3>2
  <2>2. CASE RequestStop(c) \/ Join(c) \/ Sweep(c) \/ RaiseFlag(c) \/ ForceJoin(c) \/ Settled(c)
    BY <2>1, <2>2 DEF RequestStop, Join, Sweep, RaiseFlag, ForceJoin, Settled
  <2>3. CASE Shutdown(c) \/ ShutdownJoin(c) \/ PollEvents(c) \/ Closing(c) \/ PollSpectrum(c)
    BY <2>1, <2>3 DEF Shutdown, ShutdownJoin, PollEvents, Closing, StopToken, Cancel, CloseQueue,
                      PollSpectrum
  <2> QED BY <1>2, <2>2, <2>3
<1>3. CASE StartDeviceFails(c) \/ Start(c) \/ StartSpawnFails(c)
  <2>1. /\ UNCHANGED <<generation, acq, spectrum, count, hand>>
        /\ Start(c) \/ StartSpawnFails(c) => latest' = <<>>
        /\ StartDeviceFails(c) => latest' = latest
    BY <1>3 DEF StartDeviceFails, Start, StartSpawnFails
  <2> QED BY <1>3, <2>1
<1> QED BY <1>1, <1>2, <1>3 DEF Continue

(* The three calls that do away with blocks find the workers gone.         *)
LEMMA ReplacersFindThemIdle ==
  ASSUME TypeOK, Scripted, Sessions, Disconnecting, NEW c \in Callers,
         Configure(c) \/ JoinWorkers(c) \/ Finalize(c)
  PROVE  /\ Idle /\ \A w \in Workers : Step(w) = "idle" /\ Step(w)' = "idle"
         /\ Between = 0 /\ Between' = 0 /\ ~Pending'
<1>1. WorkersStay BY CallerAdvances, Moved
<1>2. Idle
  <2>1. CASE Configure(c)
    <3>1. "apply" \in Todo(c) BY <2>1, CallerAdvances, FlagFirst, CallerNames
    <3> QED BY <3>1 DEF Sessions, Configurable, InSession
  <2>2. CASE JoinWorkers(c) BY <2>2, IdleIsDone DEF JoinWorkers
  <2>3. CASE Finalize(c)
    <3>1. Step(c) = "finalize" /\ "finalize" \in CallerSteps \ ClosingSteps
      BY <2>3, CallerAdvances, CallerNames
    <3>2. Todo(c) = {"finalize"} BY <3>1, CallerRest
    <3> QED BY <3>1, <3>2 DEF Disconnecting, Late
  <2> QED BY <2>1, <2>2, <2>3
<1>3. \A w \in Workers : Step(w) = "idle" /\ Step(w)' = "idle"
  BY <1>1, <1>2 DEF Idle, WorkersStay
<1>4. /\ Step("acquisition") = "idle" /\ Step("acquisition")' = "idle"
      /\ Step("dsp") = "idle" /\ Step("dsp")' = "idle"
  BY <1>3 DEF Workers
<1> QED BY <1>2, <1>3, <1>4 DEF Between, Pending

LEMMA EmptiedQueue ==
  ASSUME NEW q, q.items = <<>>, q.capacity \in Nat
  PROVE  Len(q.items) = 0 /\ Len(q.items) <= q.capacity /\ \A i \in 1..Len(q.items) : FALSE
BY EmptySeq

LEMMA CallersKeepBlocks ==
  ASSUME TypeOK, Scripted, Sessions, Disconnecting, Conserved, Marked, NEW c \in Callers,
         Call(c) \/ Continue(c)
  PROVE  Conserved' /\ Marked'
<1>1. TypeOK' BY CallerTypes
<1>2. "acquisition" \in Workers /\ "dsp" \in Workers /\ acq \in QueueRecords(Nat)
  BY DEF Workers, TypeOK
<1>3. CASE Configure(c) \/ JoinWorkers(c) \/ Finalize(c)
  <2>1. /\ Step("acquisition")' # "push" /\ Step("dsp")' # "process"
        /\ Between = 0 /\ Between' = 0
    BY <1>2, <1>3, ReplacersFindThemIdle
  <2>2. acq'.items = <<>>
    <3>1. CASE Configure(c)
      <4>1. PICK capacity \in AcqCapacities, policy \in AcqPolicies :
              acq' = NewQueue(capacity, policy)
        BY <3>1 DEF Configure
      <4> QED BY <4>1 DEF NewQueue
    <3>2. CASE JoinWorkers(c) BY <1>2, <3>2, QueueAbandons DEF JoinWorkers
    <3>3. CASE Finalize(c) BY <3>3 DEF Finalize, NewQueue, AfterStop
    <3> QED BY <1>3, <3>1, <3>2, <3>3
  <2>3. acq'.capacity \in Nat BY <1>1, QueueFields DEF TypeOK
  <2>4. /\ Len(acq'.items) = 0 /\ Len(acq'.items) <= acq'.capacity
        /\ \A i \in 1..Len(acq'.items) : FALSE
    BY <2>2, <2>3, EmptiedQueue
  <2>5. Marked' BY <2>1, <2>4 DEF Marked
  <2>6. CASE Configure(c)
    <3>1. acq'.popped = 0
      <4>1. PICK capacity \in AcqCapacities, policy \in AcqPolicies :
              acq' = NewQueue(capacity, policy)
        BY <2>6 DEF Configure
      <4> QED BY <4>1 DEF NewQueue
    <3>2. count'.received = 0 /\ count'.transient = 0 /\ count'.dropped = 0
      BY <2>6 DEF Configure
    <3> QED BY <2>1, <2>4, <2>5, <3>1, <3>2 DEF Conserved
  <2>7. CASE JoinWorkers(c)
    <3>1. /\ count' = [count EXCEPT !.dropped = @ + Len(acq.items)]
          /\ acq' = AfterAbandon(acq)
          /\ device' = [device EXCEPT !.streaming = FALSE, !.cancelled = FALSE]
      BY <2>7 DEF JoinWorkers
    <3>2. /\ count'.received = count.received /\ count'.transient = count.transient
          /\ count'.dropped = count.dropped + Len(acq.items)
      BY <3>1 DEF TypeOK, Counts
    <3>3. device'.connected = device.connected BY <3>1 DEF TypeOK, Devices
    <3>4. acq'.popped = acq.popped BY <1>2, <3>1, QueueAbandons
    <3>5. PICK r \in Nat, t \in Nat, d \in Nat, p \in Nat, n \in Nat :
            /\ r = count.received /\ t = count.transient /\ d = count.dropped
            /\ p = acq.popped /\ n = Len(acq.items)
      BY BlockNumbers
    <3>6. device.connected => r = t + d + p + n BY <2>1, <3>5 DEF Conserved
    <3>7. device.connected => r = t + (d + n) + p + 0 + 0 BY <3>6
    <3> QED BY <2>1, <2>4, <2>5, <3>2, <3>3, <3>4, <3>5, <3>7 DEF Conserved
  <2>8. CASE Finalize(c)
    <3>1. ~device'.connected BY <2>8 DEF Finalize
    <3> QED BY <2>4, <2>5, <3>1 DEF Conserved
  <2> QED BY <1>3, <2>6, <2>7, <2>8
<1>4. CASE ~Configure(c) /\ ~JoinWorkers(c) /\ ~Finalize(c)
  <2>1. /\ acq' = acq \/ acq' = AfterStop(acq)
        /\ count' = count /\ hand' = hand
    BY <1>4, CallersMoveNothing
  <2>2. /\ acq'.items = acq.items /\ acq'.policy = acq.policy /\ acq'.capacity = acq.capacity
        /\ acq'.popped = acq.popped
    BY <1>2, <2>1, QueueStops
  <2>3. device'.connected => device.connected
    <3>1. Call(c) => device' = device BY DEF Call, lifecycle
    <3>2. Continue(c) => (device'.connected => device.connected)
      BY CallerEffects
    <3> QED BY <3>1, <3>2
  <2>4. /\ Between' = Between
        /\ Step("acquisition")' = "push" => Step("acquisition") = "push"
        /\ Step("dsp")' = "process" => Step("dsp") = "process"
    <3>1. CASE WorkersStay BY <1>2, <3>1 DEF WorkersStay, Between
    <3>2. CASE Start(c) \/ StartSpawnFails(c)
      <4>1. Step(c) = "startStream" BY <3>2, StartMoves, SpawnFailsMoves
      <4>2. "startStream" \in Todo(c) BY <4>1, FlagFirst, CallerNames
      <4>3. Idle BY <4>2 DEF Sessions, InSession
      <4>4. Step("acquisition") = "idle" /\ Step("dsp") = "idle"
        BY <1>2, <4>3 DEF Idle
      <4>5. Step("acquisition")' \in {"idle", "check"} /\ Step("dsp")' \in {"idle", "pop"}
        BY <3>2, <4>4, StartMoves, SpawnFailsMoves
      <4> QED BY <4>4, <4>5 DEF Between
    <3>3. CASE Call(c)
      <4>1. WorkersStay BY <3>3, CallMoves, Moved
      <4> QED BY <3>1, <4>1
    <3> QED BY <3>1, <3>2, <3>3, OnlyStartStarts
  <2> QED BY <2>1, <2>2, <2>3, <2>4, BlocksKept
<1> QED BY <1>3, <1>4

LEMMA CallersKeepFrames ==
  ASSUME TypeOK, Scripted, Sessions, Disconnecting, FramesAreTrue, NEW c \in Callers,
         Call(c) \/ Continue(c)
  PROVE  FramesAreTrue'
<1>1. /\ "dsp" \in Workers /\ acq \in QueueRecords(Nat) /\ spectrum \in QueueRecords(Frames)
      /\ SpectrumCapacity \in Nat \ {0} /\ "LatestWins" \in Policies
  BY CapacityAssumption DEF Workers, TypeOK, Policies
<1>2. CASE Configure(c) \/ Finalize(c)
  <2>1. ~Pending' BY <1>2, ReplacersFindThemIdle
  <2>2. spectrum' = NewQueue(SpectrumCapacity, "LatestWins")
    BY <1>2 DEF Configure, Finalize
  <2>3. spectrum'.items = <<>> /\ spectrum'.capacity = SpectrumCapacity
    BY <2>2 DEF NewQueue
  <2>4. \A i \in 1..Len(spectrum'.items) : FALSE BY <1>1, <2>3, EmptiedQueue
  <2> QED BY <2>1, <2>4 DEF FramesAreTrue
<1>3. CASE JoinWorkers(c)
  <2>1. /\ acq' = AfterAbandon(acq) /\ spectrum' = spectrum /\ generation' = generation
    BY <1>3 DEF JoinWorkers
  <2>2. acq'.policy = acq.policy BY <1>1, <2>1, QueueAbandons
  <2>3. ~Pending' BY <1>3, ReplacersFindThemIdle
  <2>4. \A i \in 1..Len(spectrum'.items) :
          \E j \in 1..Len(spectrum.items) : spectrum'.items[i] = spectrum.items[j]
    BY <2>1
  <2> QED BY <2>1, <2>2, <2>3, <2>4, FramesKept
<1>4. CASE ~Configure(c) /\ ~JoinWorkers(c) /\ ~Finalize(c)
  <2>1. /\ acq' = acq \/ acq' = AfterStop(acq)
        /\ spectrum' = spectrum \/ (spectrum.items # <<>> /\ spectrum' = AfterPop(spectrum))
        /\ generation' = generation
        /\ latest' = latest \/ latest' = <<>>
        /\ Start(c) \/ StartSpawnFails(c) => latest' = <<>>
    BY <1>4, CallersMoveNothing
  <2>2. acq'.policy = acq.policy BY <1>1, <2>1, QueueStops
  <2>3. Pending' => Pending /\ latest' = latest
    <3>1. CASE latest' = <<>> BY <3>1 DEF Pending
    <3>2. CASE WorkersStay BY <1>1, <2>1, <3>1, <3>2 DEF WorkersStay, Pending
    <3>3. CASE Call(c)
      <4>1. WorkersStay BY <3>3, CallMoves, Moved
      <4> QED BY <3>2, <4>1
    <3> QED BY <2>1, <3>1, <3>2, <3>3, OnlyStartStarts
  <2>4. \A i \in 1..Len(spectrum'.items) :
          \E j \in 1..Len(spectrum.items) : spectrum'.items[i] = spectrum.items[j]
    <3>1. CASE spectrum' = spectrum BY <3>1
    <3>2. CASE spectrum.items # <<>> /\ spectrum' = AfterPop(spectrum)
      <4>1. \A i \in 1..Len(spectrum'.items) :
              /\ i + 1 \in 1..Len(spectrum.items)
              /\ spectrum'.items[i] = spectrum.items[i + 1]
        BY <1>1, <3>2, PoppedItems
      <4> QED BY <4>1
    <3> QED BY <2>1, <3>1, <3>2
  <2> QED BY <2>1, <2>2, <2>3, <2>4, FramesKept
<1> QED BY <1>2, <1>3, <1>4

-----------------------------------------------------------------------------
(* The invariant is inductive                                              *)

LEMMA InitIsInvariant ==
  ASSUME Init
  PROVE  IInv
<1>1. /\ acq = NewQueue(1, "Block") /\ spectrum = NewQueue(SpectrumCapacity, "LatestWins")
      /\ latest = <<>> /\ lock = "free" /\ state = "Created" /\ device.connected
      /\ ~disconnecting /\ ~device.cancelled /\ ~dirty /\ generation = 0
      /\ script = [t \in Threads |-> <<>>] /\ count \in Counts
      /\ count.received = 0 /\ count.transient = 0 /\ count.dropped = 0
  BY DEF Init, Counts
<1>2. diag = NewDiagnostics(EventCapacity) BY DEF Init
<1>3. "hasError" \in DOMAIN diag /\ diag.hasError = FALSE
  BY <1>2 DEF NewDiagnostics
<1>4. TypeOK
  <2>1. acq \in QueueRecords(Nat) /\ spectrum \in QueueRecords(Frames)
    <3>1. /\ 1 \in Nat \ {0} /\ SpectrumCapacity \in Nat \ {0}
          /\ "Block" \in Policies /\ "LatestWins" \in Policies
      BY CapacityAssumption DEF Policies
    <3>2. NewQueue(1, "Block") \in QueueRecords(Nat) BY <3>1, QueueStarts
    <3>3. NewQueue(SpectrumCapacity, "LatestWins") \in QueueRecords(Frames)
      BY <3>1, QueueStarts
    <3> QED BY <1>1, <3>2, <3>3
  <2>2. latest \in Seq(Frames) BY <1>1, EmptySeq
  <2>3. device \in Devices /\ state \in States BY DEF Init, Devices, States
  <2>4. /\ lock \in Callers \cup {"free"} /\ stop \in BOOLEAN /\ generation \in Nat
        /\ transientLeft \in Nat /\ hand \in [Workers -> Nat] /\ overflowed \in BOOLEAN
        /\ dirty \in BOOLEAN /\ disconnecting \in BOOLEAN
    BY DEF Init
  <2> QED BY <1>1, <1>3, <2>1, <2>2, <2>3, <2>4 DEF TypeOK
<1>5. Scripted
  <2>1. <<>> \in Seq(AllSteps) BY EmptySeq
  <2>2. \A t \in Threads : script[t] = <<>> BY <1>1
  <2>3. \A t \in Threads : Proper(t, script[t]) BY <2>2, EmptyScript
  <2> QED BY <1>1, <2>1, <2>3 DEF Scripted
<1>6. \A t \in Threads : Step(t) = "idle" /\ Todo(t) = {}
  BY <1>1, EmptyScript DEF Step, Todo
<1>7. /\ \A c \in Callers : Step(c) = "idle" /\ Todo(c) = {}
      /\ \A w \in Workers : Step(w) = "idle" /\ w \in Threads
      /\ "acquisition" \in Workers /\ "dsp" \in Workers
  BY <1>6 DEF Threads, Workers
<1>8. Idle /\ Locking /\ Sessions BY <1>1, <1>7 DEF Idle, Locking, Sessions
<1>9. Disconnecting BY <1>1, <1>7 DEF Disconnecting, Late
<1>10. Stops /\ Errors
  <2>1. Stops BY <1>1, <1>6 DEF Stops
  <2>2. Errors BY <1>1, <1>3, <1>7 DEF Errors, FailingSteps
  <2> QED BY <2>1, <2>2
<1>11. /\ acq.items = <<>> /\ acq.capacity = 1 /\ acq.popped = 0
       /\ spectrum.items = <<>> /\ spectrum.capacity = SpectrumCapacity
  BY <1>1 DEF NewQueue
<1>12. /\ Len(acq.items) = 0 /\ \A i \in 1..Len(acq.items) : FALSE
       /\ \A i \in 1..Len(spectrum.items) : FALSE
  BY <1>11, CapacityAssumption, EmptiedQueue
<1>13. FramesAreTrue BY <1>1, <1>12 DEF FramesAreTrue, Pending
<1>14. Conserved BY <1>1, <1>7, <1>11, <1>12 DEF Conserved, Between
<1>15. Marked BY <1>7, <1>12 DEF Marked
<1> QED BY <1>4, <1>5, <1>8, <1>9, <1>10, <1>13, <1>14, <1>15 DEF IInv

LEMMA NextKeepsInvariant ==
  ASSUME IInv, [Next]_vars
  PROVE  IInv'
<1> USE DEF IInv
<1>1. CASE Acquisition \/ Dsp
  <2>1. TypeOK' BY <1>1, WorkerTypes
  <2>2. Scripted' BY <1>1, WorkerEffects
  <2>3. Locking' /\ Sessions' /\ Disconnecting' BY <1>1, WorkersKeepSessions
  <2>4. Stops' BY <1>1, WorkersKeepStops
  <2>5. Errors' BY <1>1, WorkersKeepErrors
  <2>6. FramesAreTrue' BY <1>1, WorkersKeepFrames
  <2>7. Conserved' /\ Marked' BY <1>1, WorkersKeepBlocks
  <2> QED BY <2>1, <2>2, <2>3, <2>4, <2>5, <2>6, <2>7
<1>2. ASSUME NEW c \in Callers, Call(c) \/ Continue(c)
      PROVE  IInv'
  <2>1. TypeOK' BY <1>2, CallerTypes
  <2>2. Scripted' BY <1>2, CallMoves, CallerProceeds DEF Proceeds
  <2>3. Locking' /\ Sessions' BY <1>2, CallersKeepSessions
  <2>4. Disconnecting' BY <1>2, CallersKeepDisconnecting
  <2>5. Stops' BY <1>2, CallersKeepStops
  <2>6. Errors' BY <1>2, CallersKeepErrors
  <2>7. FramesAreTrue' BY <1>2, CallersKeepFrames
  <2>8. Conserved' /\ Marked' BY <1>2, CallersKeepBlocks
  <2> QED BY <2>1, <2>2, <2>3, <2>4, <2>5, <2>6, <2>7, <2>8
<1>3. CASE UNCHANGED vars
  <2>1. UNCHANGED <<state, disconnecting, lock, stop, device, generation, acq, spectrum, count,
                    transientLeft, hand, latest, overflowed, diag, script, faults, dirty>>
    BY <1>3 DEF vars, lifecycle, data
  <2>2. /\ \A t : Step(t)' = Step(t) /\ Todo(t)' = Todo(t)
        /\ Scripted'
    <3>1. \A t : Step(t)' = Step(t) BY <2>1 DEF Step
    <3>2. \A t : Todo(t)' = Todo(t) BY <2>1 DEF Todo
    <3>3. Scripted' BY <2>1 DEF Scripted
    <3> QED BY <3>1, <3>2, <3>3
  <2>3. TypeOK' BY <2>1 DEF TypeOK
  <2>4. Idle' = Idle /\ NoMoreSessions' = NoMoreSessions /\ \A c : Late(c)' = Late(c)
    BY <2>1, <2>2 DEF Idle, NoMoreSessions, Late
  <2>5. Locking' /\ Sessions' BY <2>1, <2>2, <2>4 DEF Locking, Sessions
  <2>6. Disconnecting' BY <2>1, <2>2, <2>4 DEF Disconnecting
  <2>7. Stops' /\ Errors' BY <2>1, <2>2 DEF Stops, Errors
  <2>8. Pending' = Pending /\ Between' = Between /\ Refusing' = Refusing
    BY <2>1, <2>2 DEF Pending, Between, Refusing
  <2>9. FramesAreTrue' /\ Conserved' /\ Marked'
    BY <2>1, <2>2, <2>8 DEF FramesAreTrue, True, Conserved, Marked
  <2> QED BY <2>2, <2>3, <2>5, <2>6, <2>7, <2>9
<1> HIDE DEF IInv
<1> QED BY <1>1, <1>2, <1>3 DEF Next

(* Every behaviour keeps the invariant.                                    *)
THEOREM InvariantHolds == Spec => []IInv
<1>1. Init => IInv BY InitIsInvariant
<1>2. IInv /\ [Next]_vars => IInv' BY NextKeepsInvariant
<1> QED BY <1>1, <1>2, PTL DEF Spec

-----------------------------------------------------------------------------
(* The theorems                                                            *)

(* What the engine says of itself is true.  A stop is not taken for a      *)
(* failure and a failure not forgotten; acquisition_run and dsp_run run in *)
(* a session only, so no queue is replaced under them; and every frame in  *)
(* the queue is of the present configuration.                              *)
THEOREM StateIsTrueCorrect == Spec => []StateIsTrue
<1>1. ASSUME IInv PROVE StateIsTrue
  <2> USE <1>1 DEF IInv
  <2>1. StopIsNotAnError BY DEF StopIsNotAnError, Errors
  <2>2. ErrorIsLatched
    <3>1. ASSUME dirty, state = "Stopped" PROVE diag.hasError
      <4>1. Idle /\ \A c \in Callers : "abortStart" \notin Todo(c)
        BY <3>1 DEF Sessions, InSession
      <4>2. \A w \in Workers : Step(w) # "emitFailure" BY <4>1 DEF Idle
      <4> QED BY <3>1, <4>1, <4>2 DEF Errors
    <3> QED BY <3>1 DEF ErrorIsLatched, Errors
  <2>3. WorkersOnlyInSession
    BY IdleIsDone DEF WorkersOnlyInSession, Sessions, InSession
  <2>4. FramesAreCurrent BY DEF FramesAreCurrent, FramesAreTrue, True
  <2> QED BY <2>1, <2>2, <2>3, <2>4 DEF StateIsTrue
<1> QED BY <1>1, InvariantHolds, PTL

(* Each block of the device is a transient, dropped, taken by dsp_run or   *)
(* on its way there, for every policy and capacity of the queue; and a     *)
(* pool of capacity + 3 blocks is never used up.                           *)
THEOREM BlocksConservedCorrect == Spec => []BlocksConserved
<1>1. ASSUME IInv PROVE BlocksConserved
  <2> USE <1>1 DEF IInv
  <2>1. \A x \in AllSteps : At("acquisition", x) <=> Step("acquisition") = x
    BY StepNames, IsAt DEF Workers
  <2>2. /\ script["acquisition"] # <<>> => Step("acquisition") = script["acquisition"][1]
        /\ script["acquisition"] = <<>> => Step("acquisition") = "idle"
    BY DEF Step, First
  <2>3. InFlight = Len(acq.items) + Between BY <2>2 DEF InFlight, Between
  <2>4. device.connected =>
          count.received = count.transient + count.dropped + acq.popped + InFlight
    <3>1. PICK r \in Nat, t \in Nat, d \in Nat, p \in Nat, n \in Nat, b \in Nat :
            /\ r = count.received /\ t = count.transient /\ d = count.dropped
            /\ p = acq.popped /\ n = Len(acq.items) /\ b = Between
      BY BlockNumbers
    <3>2. device.connected => r = t + d + p + n + b BY <3>1 DEF Conserved
    <3>3. device.connected => r = t + d + p + (n + b) BY <3>2
    <3> QED BY <2>3, <3>1, <3>3
  <2>5. PoolSuffices
    <3>1. PICK n \in Nat, m \in Nat : n = Len(acq.items) /\ m = acq.capacity /\ n <= m
      BY BlockNumbers DEF Conserved
    <3>2. PoolBlocks(m) \in Nat /\ n + 1 < PoolBlocks(m) /\ n + 0 < PoolBlocks(m)
      BY <3>1, CapacityAssumption DEF PoolBlocks
    <3> QED BY <3>1, <3>2 DEF PoolSuffices
  <2> QED BY <2>4, <2>5 DEF BlocksConserved
<1> QED BY <1>1, InvariantHolds, PTL

(* Under a policy that refuses the incoming block, every frame carries at  *)
(* least the loss before it: acquisition_run has counted a refused block   *)
(* before it refills the next.                                             *)
THEOREM RefusalIsMarkedCorrect == Spec => []RefusalIsMarked
<1>1. ASSUME IInv PROVE RefusalIsMarked
  <2>1. ASSUME Refusing, NEW i \in 1..Len(spectrum.items)
        PROVE  spectrum.items[i].dropped >= spectrum.items[i].missing
    <3>1. spectrum.items[i].missing <= spectrum.items[i].dropped
      BY <1>1, <2>1 DEF IInv, FramesAreTrue, True
    <3> QED BY <3>1
  <2> QED BY <2>1 DEF RefusalIsMarked, LossIsMarked, Refusing
<1> QED BY <1>1, InvariantHolds, PTL

(* After disconnect() nothing revives the engine: neither a configure() or *)
(* start() another thread was in the middle of, nor a worker.              *)
THEOREM DisconnectIsTerminalCorrect == Spec => DisconnectIsTerminal
<1>1. ASSUME IInv, [Next]_vars, ~device.connected
      PROVE  UNCHANGED <<state, generation>> /\ ~device'.connected /\ WorkersDone'
  <2> USE <1>1 DEF IInv
  <2>1. NoMoreSessions /\ state = "Stopped" /\ Idle BY DEF Disconnecting
  <2>2. IInv' BY NextKeepsInvariant
  <2>3. UNCHANGED <<state, generation>> /\ ~device'.connected
    <3>1. CASE Acquisition \/ Dsp BY <2>1, <3>1, WorkerEffects
    <3>2. ASSUME NEW c \in Callers, Call(c) \/ Continue(c)
          PROVE  UNCHANGED <<state, generation>> /\ ~device'.connected
      BY <2>1, <3>2, CallersCannotRevive
    <3>3. CASE UNCHANGED vars BY <3>3 DEF vars, lifecycle
    <3> QED BY <3>1, <3>2, <3>3 DEF Next
  <2>4. WorkersDone'
    <3>1. Idle' BY <2>2, <2>3 DEF Disconnecting
    <3>2. Scripted' BY <2>2
    <3>3. ASSUME NEW w \in Workers PROVE script'[w] = <<>>
      <4> DEFINE s == script'[w]
      <4>1. w \in Threads /\ Proper(w, s) BY <3>2, StepNames DEF Scripted
      <4>2. First(s) = "idle" BY <3>1, <3>3 DEF Idle, Step
      <4> HIDE DEF s
      <4>3. s = <<>> BY <4>1, <4>2, FirstStep
      <4> QED BY <4>3 DEF s
    <3> QED BY <3>3 DEF WorkersDone
  <2> QED BY <2>3, <2>4
<1>2. IInv /\ [Next]_vars =>
        [~device.connected => UNCHANGED <<state, generation>> /\ ~device'.connected
                              /\ WorkersDone']_vars
  BY <1>1
<1>3. Spec => [][Next]_vars BY PTL DEF Spec
<1> QED BY <1>2, <1>3, InvariantHolds, PTL DEF DisconnectIsTerminal
=============================================================================
