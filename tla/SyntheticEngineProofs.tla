------------------------ MODULE SyntheticEngineProofs ------------------------
(***************************************************************************)
(* Theorems about SyntheticEngine, for every set of callers, every set of  *)
(* configurations and any number of blocks, sessions and failures: no      *)
(* block is hidden (NoBlockHidden) and no failure is (FailureIsShown).     *)
(*                                                                         *)
(* The proofs do not enumerate the scripts of the threads.  They follow    *)
(* from which step may follow which: a caller whose next step closes       *)
(* something down holds the lock, a worker that is closing down has a      *)
(* reason to, and the steps left to a thread only get fewer.               *)
(*                                                                         *)
(* The second part is about MonitorSweep: what a sweep tells is true       *)
(* (SweepIsTold), for every set of configurations that fit.                *)
(***************************************************************************)
EXTENDS SyntheticEngine, QueueLemmas, FiniteSetTheorems, MonitorSweep

ClosingSteps ==
  {"stopToken", "closeAcquisition", "closeDsp", "closeRecorder", "closePool", "markStopping"}
LockedSteps == ClosingSteps \cup {"release", "abortStart", "joinWorkers"}
CallerSteps == LockedSteps \cup {"configure", "start", "requestStop", "join"}
DrainSteps == {"drain", "drainDsp", "drainRecorder"}
ProducingSteps == {"check", "pace", "acquire", "push"} \cup DrainSteps
MoverSteps == {"pop", "tee", "forward", "discard"} \cup ClosingSteps
ConsumerSteps == {"pop", "process", "flush", "markError"} \cup ClosingSteps
AllSteps == CallerSteps \cup ProducingSteps \cup MoverSteps \cup ConsumerSteps

StepsOf(t) ==
  CASE t = "producer" -> ProducingSteps \cup ClosingSteps
    [] t = "mover"    -> MoverSteps
    [] t = "consumer" -> ConsumerSteps
    [] t = "recorder" -> {"pop"}
    [] OTHER          -> CallerSteps

-----------------------------------------------------------------------------
(* Scripts                                                                 *)

(* Step b may come right after step a.                                     *)
Follows(a, b) ==
  \/ a \in ClosingSteps \cup {"markError"} /\ b \in ClosingSteps
  \/ a \in ClosingSteps /\ b \in {"release", "abortStart", "discard"}
  \/ a \in {"release", "requestStop"} /\ b = "join"

Chained(s) == \A i \in 1..(Len(s) - 1) : Follows(s[i], s[i + 1])

(* What thread t may have left to do.  A caller, or the mover, that closes *)
(* down has something to do afterwards.                                    *)
Proper(t, s) ==
  /\ s \in Seq(AllSteps) /\ Chained(s)
  /\ \A i \in 1..Len(s) : s[i] \in StepsOf(t)
  /\ t \in Callers \cup {"mover"} /\ s # <<>> => s[Len(s)] \notin ClosingSteps

Scripted ==
  /\ script \in [Threads -> Seq(AllSteps)]
  /\ \A t \in Threads : Proper(t, script[t])

(* The next step of a thread, and what a step of it changes of that.       *)
First(s) == IF s = <<>> THEN "idle" ELSE s[1]
Step(t) == First(script[t])
Moves(t, step) ==
  /\ Step(t)' = step
  /\ \A u \in Threads : u # t => Step(u)' = Step(u)

-----------------------------------------------------------------------------
(* The invariant                                                           *)

EngineStates == {"Created", "Configured", "Running", "Stopping", "Stopped", "Error"}
InSession == {"Running", "Stopping", "Error"}
Blocks == Nat \ {0}
Counts == [received : Nat, dropped : Nat]

TypeOK ==
  /\ state \in EngineStates /\ lock \in Callers \cup {"free"}
  /\ config \in Configs
  /\ stop \in BOOLEAN /\ poolStop \in BOOLEAN
  /\ acq \in QueueRecords(Blocks) /\ dsp \in QueueRecords(Blocks) /\ rec \in QueueRecords(Blocks)
  /\ hand \in [Workers -> Nat]
  /\ count \in Counts
  /\ asked \in BOOLEAN /\ trouble \in SUBSET {"failure", "overflow"}

(* A caller holds the lock exactly while its next step needs it.           *)
Locking == \A c \in Callers : lock = c <=> Step(c) \in LockedSteps

Idle == \A w \in Workers : Step(w) = "idle"

(* Workers run, and the lock is held across steps, in a session only, and  *)
(* a new session starts from scratch.                                      *)
Sessions ==
  /\ ~Idle => state \in InSession
  /\ lock # "free" => state \in InSession
  /\ state \in {"Created", "Configured"} => trouble = {}
  /\ state = "Configured" =>
       /\ ~stop /\ ~poolStop /\ ~acq.stop /\ ~dsp.stop /\ ~rec.stop
       /\ acq.items = <<>> /\ dsp.items = <<>> /\ count.received = 0 /\ count.dropped = 0
       /\ acq.popped = 0 /\ dsp.popped = 0 /\ rec.pushed = 0 /\ rec.dropped = 0
  /\ state # "Created" =>
       /\ acq.policy = config.acquisitionPolicy /\ dsp.policy = config.dspPolicy
       /\ rec.policy = config.recorderPolicy

(* A start that failed is being taken back by caller c.                    *)
TakesBack(s) ==
  /\ s # <<>> /\ s[Len(s)] = "abortStart"
  /\ \A i \in 1..(Len(s) - 1) : s[i] \in ClosingSteps
FailureKnown ==
  "failure" \in trouble =>
    \/ Step("consumer") = "markError"
    \/ state \in {"Error", "Stopped"}
    \/ \E c \in Callers : lock = c /\ TakesBack(script[c])

Hands ==
  /\ hand["producer"] # 0 <=> Step("producer") = "push"
  /\ hand["mover"] # 0 <=> Step("mover") \notin {"idle", "pop"}

OverflowEndsTheMover == "overflow" \in trouble => Step("mover") = "idle"

(* What the mover took and the recorder was offered.                       *)
Lossless ==
  /\ state # "Created" /\ config.recorderEnabled
  /\ config.recorderPolicy = "Block" /\ ~config.stopOnOverflow
RecorderFollows ==
  Lossless =>
    /\ rec.dropped = 0
    /\ \/ Step("mover") # "tee" /\ acq.popped = rec.pushed
       \/ Step("mover") = "tee" /\ acq.popped = rec.pushed + 1
       \/ Step("mover") = "idle" /\ rec.stop /\ acq.popped = rec.pushed + 1

(* Whoever closes down, but the producer and the mover, has a reason the   *)
(* model records.                                                          *)
ClosersHaveReasons ==
  /\ \A c \in Callers : Step(c) \in ClosingSteps => asked \/ trouble # {}
  /\ Step("consumer") \in ClosingSteps \cup {"markError"} => trouble # {}

MoverStops == Step("mover") \in ClosingSteps \cup {"discard"}

Undisturbed ==
  /\ state \in InSession \cup {"Stopped"} /\ ~asked /\ trouble = {} /\ ~MoverStops
  /\ config.max # 0 /\ config.acquisitionPolicy = "Block" /\ config.dspPolicy = "Block"

Producing == Step("producer") \in ProducingSteps
Draining == Step("producer") \in DrainSteps

(* Up to its end such a run loses nothing; then the acquisition queue is   *)
(* empty, so that only the block in the mover's hand can still be lost.    *)
DrainsWell ==
  Undisturbed =>
    /\ count.received <= config.max
    /\ Step("producer") \in {"pace", "acquire"} => count.received < config.max
    /\ Producing => /\ ~stop /\ ~poolStop /\ ~acq.stop /\ ~dsp.stop /\ ~rec.stop
                    /\ count.dropped = 0
    /\ Draining \/ ~Producing => count.received = config.max
    /\ Step("producer") \in {"drainDsp", "drainRecorder"} \/ ~Producing => acq.items = <<>>
    /\ ~Producing => count.dropped + Holding("mover") <= 1
    /\ Step("consumer") \in {"idle", "flush"} => dsp.items = <<>> /\ dsp.stop

-----------------------------------------------------------------------------
(* Lemmas about scripts                                                    *)

LEMMA StepsAre ==
  /\ \A t \in Threads : StepsOf(t) \subseteq AllSteps
  /\ \A c \in Callers : StepsOf(c) = CallerSteps /\ c \notin Workers
  /\ StepsOf("producer") = ProducingSteps \cup ClosingSteps
  /\ StepsOf("mover") = MoverSteps /\ StepsOf("consumer") = ConsumerSteps
  /\ StepsOf("recorder") = {"pop"}
<1>1. \A c \in Callers : c \notin Workers BY CallersAssumption
<1>2. \A c \in Callers : StepsOf(c) = CallerSteps BY <1>1 DEF StepsOf, Workers
<1>3. /\ StepsOf("producer") = ProducingSteps \cup ClosingSteps
      /\ StepsOf("mover") = MoverSteps /\ StepsOf("consumer") = ConsumerSteps
      /\ StepsOf("recorder") = {"pop"}
  BY DEF StepsOf
<1>4. /\ ProducingSteps \cup ClosingSteps \subseteq AllSteps /\ {"pop"} \subseteq AllSteps
      /\ CallerSteps \subseteq AllSteps /\ MoverSteps \subseteq AllSteps
      /\ ConsumerSteps \subseteq AllSteps
  BY DEF AllSteps, CallerSteps, LockedSteps, MoverSteps
<1>5. \A t \in Threads : StepsOf(t) \subseteq AllSteps
  BY <1>2, <1>3, <1>4 DEF Threads, Workers
<1> QED BY <1>1, <1>2, <1>3, <1>5

(* The first step of a script is a step of its thread.                     *)
LEMMA FirstStep ==
  ASSUME NEW t \in Threads, NEW s, Proper(t, s)
  PROVE  /\ s # <<>> => First(s) = s[1] /\ s[1] \in StepsOf(t) /\ Len(s) \in Nat \ {0}
         /\ First(s) = "idle" <=> s = <<>>
         /\ First(s) \in StepsOf(t) \cup {"idle"}
<1>1. s # <<>> => Len(s) \in Nat \ {0} BY EmptySeq, LenProperties DEF Proper
<1>2. s # <<>> => s[1] \in StepsOf(t) BY <1>1 DEF Proper
<1>3. "idle" \notin AllSteps
  BY DEF AllSteps, CallerSteps, LockedSteps, ClosingSteps, ProducingSteps, DrainSteps,
         MoverSteps, ConsumerSteps
<1> QED BY <1>1, <1>2, <1>3, StepsAre DEF First

LEMMA EmptyScript ==
  ASSUME NEW t \in Threads
  PROVE  Proper(t, <<>>) /\ First(<<>>) = "idle"
BY DEF Proper, First, Chained

LEMMA OneStepScript ==
  ASSUME NEW t \in Threads, NEW x \in StepsOf(t) \ ClosingSteps
  PROVE  Proper(t, <<x>>) /\ First(<<x>>) = x
<1>1. x \in AllSteps BY StepsAre
<1>2. <<x>> \in Seq(AllSteps) /\ Len(<<x>>) = 1 /\ <<x>>[1] = x /\ <<x>> # <<>>
  BY <1>1
<1> HIDE DEF AllSteps
<1> QED BY <1>2 DEF Proper, First, Chained

(* Without its first step, a script is one still; what comes next may      *)
(* follow the step that was taken.                                         *)
LEMMA RestOfScript ==
  ASSUME NEW t \in Threads, NEW s, Proper(t, s), s # <<>>
  PROVE  /\ Proper(t, Tail(s))
         /\ First(Tail(s)) = "idle" \/ Follows(s[1], First(Tail(s)))
         /\ t \in Callers \cup {"mover"} /\ s[1] \in ClosingSteps => First(Tail(s)) # "idle"
         /\ TakesBack(s) /\ s[1] # "abortStart" => TakesBack(Tail(s))
<1>1. /\ s \in Seq(AllSteps) /\ Len(s) \in Nat \ {0} /\ Tail(s) \in Seq(AllSteps)
      /\ Len(Tail(s)) = Len(s) - 1
      /\ \A i \in 1..Len(Tail(s)) : Tail(s)[i] = s[i + 1]
  BY FirstStep, HeadTailProperties DEF Proper
<1>2. Chained(Tail(s)) BY <1>1 DEF Proper, Chained
<1>3. \A i \in 1..Len(Tail(s)) : Tail(s)[i] \in StepsOf(t) BY <1>1 DEF Proper
<1>4. Tail(s) = <<>> <=> Len(s) = 1 BY <1>1, EmptySeq
<1>5. Tail(s) # <<>> => Len(s) - 1 \in 1..Len(Tail(s)) /\ Tail(s)[Len(Tail(s))] = s[Len(s)]
  BY <1>1, <1>4
<1>6. Proper(t, Tail(s)) BY <1>1, <1>2, <1>3, <1>5 DEF Proper
<1>7. Tail(s) # <<>> => First(Tail(s)) = s[2] /\ Follows(s[1], s[2])
  BY <1>1, <1>4 DEF First, Chained, Proper
<1>8. Tail(s) = <<>> => First(Tail(s)) = "idle" BY DEF First
<1>9. First(Tail(s)) = "idle" => Tail(s) = <<>> BY <1>6, FirstStep
<1>10. TakesBack(s) /\ s[1] # "abortStart" => TakesBack(Tail(s))
  <2> SUFFICES ASSUME TakesBack(s), s[1] # "abortStart" PROVE TakesBack(Tail(s))
    OBVIOUS
  <2>1. Len(s) # 1 BY DEF TakesBack
  <2>2. \A i \in 1..(Len(Tail(s)) - 1) : Tail(s)[i] \in ClosingSteps
    BY <1>1 DEF TakesBack
  <2> QED BY <2>1, <2>2, <1>4, <1>5 DEF TakesBack
<1> QED BY <1>4, <1>6, <1>7, <1>8, <1>9, <1>10 DEF Proper

(* One script after another.                                               *)
LEMMA ScriptsJoined ==
  ASSUME NEW a \in Seq(AllSteps), NEW b \in Seq(AllSteps), Chained(a), Chained(b),
         a # <<>>, b # <<>> => Follows(a[Len(a)], b[1])
  PROVE  /\ a \o b \in Seq(AllSteps) /\ Chained(a \o b)
         /\ a \o b # <<>> /\ (a \o b)[1] = a[1]
         /\ Len(a \o b) = Len(a) + Len(b)
         /\ \A i \in 1..Len(a) : (a \o b)[i] = a[i]
         /\ \A i \in 1..Len(b) : (a \o b)[Len(a) + i] = b[i]
         /\ (a \o b)[Len(a \o b)] = IF b = <<>> THEN a[Len(a)] ELSE b[Len(b)]
         /\ \A S : /\ \A i \in 1..Len(a) : a[i] \in S
                   /\ \A i \in 1..Len(b) : b[i] \in S
                   => \A i \in 1..Len(a \o b) : (a \o b)[i] \in S
<1> DEFINE s == a \o b
<1>1. /\ s \in Seq(AllSteps) /\ Len(s) = Len(a) + Len(b)
      /\ \A i \in 1..Len(s) : s[i] = IF i <= Len(a) THEN a[i] ELSE b[i - Len(a)]
  BY ConcatProperties
<1>2. /\ Len(a) \in Nat \ {0} /\ Len(b) \in Nat
      /\ b # <<>> <=> Len(b) # 0
  BY EmptySeq, LenProperties
<1> HIDE DEF s
<1>3. \A i \in 1..Len(a) : s[i] = a[i] BY <1>1, <1>2
<1>4. \A i \in 1..Len(b) : s[Len(a) + i] = b[i]
  <2> SUFFICES ASSUME NEW i \in 1..Len(b) PROVE s[Len(a) + i] = b[i]
    OBVIOUS
  <2>1. Len(a) + i \in 1..Len(s) /\ ~(Len(a) + i <= Len(a)) /\ Len(a) + i - Len(a) = i
    BY <1>1, <1>2
  <2> QED BY <2>1, <1>1
<1>5. Chained(s)
  <2> SUFFICES ASSUME NEW i \in 1..(Len(s) - 1) PROVE Follows(s[i], s[i + 1])
    BY DEF Chained
  <2>1. CASE i < Len(a) BY <2>1, <1>1, <1>2, <1>3 DEF Chained
  <2>2. CASE i = Len(a)
    <3>1. s[i] = a[Len(a)] /\ s[i + 1] = b[1] /\ b # <<>>
      BY <2>2, <1>1, <1>2, <1>3, <1>4
    <3> QED BY <3>1
  <2>3. CASE i > Len(a)
    <3>1. i - Len(a) \in 1..(Len(b) - 1) /\ i = Len(a) + (i - Len(a))
      BY <2>3, <1>1, <1>2
    <3>2. PICK j \in 1..(Len(b) - 1) : i = Len(a) + j
      BY <3>1
    <3>3. j \in 1..Len(b) /\ j + 1 \in 1..Len(b) /\ i + 1 = Len(a) + (j + 1)
      BY <3>2, <1>2
    <3>4. s[i] = b[j] /\ s[i + 1] = b[j + 1] BY <3>2, <3>3, <1>4
    <3> QED BY <3>4 DEF Chained
  <2> QED BY <2>1, <2>2, <2>3, <1>2
<1>6. s[Len(s)] = IF b = <<>> THEN a[Len(a)] ELSE b[Len(b)]
  BY <1>1, <1>2, <1>3, <1>4
<1>7. \A S : /\ \A i \in 1..Len(a) : a[i] \in S
             /\ \A i \in 1..Len(b) : b[i] \in S
             => \A i \in 1..Len(s) : s[i] \in S
  BY <1>1, <1>2
<1>8. s # <<>> /\ s[1] = a[1] BY <1>1, <1>2, <1>3, EmptySeq
<1> QED BY <1>1, <1>3, <1>4, <1>5, <1>6, <1>7, <1>8 DEF s

(* What closes everything down, and a step alone.                          *)
LEMMA CloseDownScript ==
  /\ CloseDown \in Seq(AllSteps) /\ Chained(CloseDown) /\ CloseDown # <<>>
  /\ CloseDown[1] = "stopToken" /\ CloseDown[Len(CloseDown)] = "markStopping"
  /\ \A i \in 1..Len(CloseDown) : CloseDown[i] \in ClosingSteps
<1>1. Len(CloseDown) = 6 BY DEF CloseDown
<1>2. /\ CloseDown[1] = "stopToken" /\ CloseDown[2] = "closeAcquisition"
      /\ CloseDown[3] = "closeDsp" /\ CloseDown[4] = "closeRecorder"
      /\ CloseDown[5] = "closePool" /\ CloseDown[6] = "markStopping"
  BY DEF CloseDown
<1>3. \A i \in 1..6 : CloseDown[i] \in ClosingSteps BY <1>2 DEF ClosingSteps
<1>4. CloseDown \in Seq(AllSteps)
  <2>1. /\ {"stopToken", "closeAcquisition", "closeDsp"} \subseteq AllSteps
        /\ {"closeRecorder", "closePool", "markStopping"} \subseteq AllSteps
    BY DEF AllSteps, CallerSteps, LockedSteps, ClosingSteps
  <2> QED BY <2>1 DEF CloseDown
<1>5. Chained(CloseDown) BY <1>1, <1>3 DEF Chained, Follows
<1> QED BY <1>1, <1>2, <1>3, <1>4, <1>5

LEMMA StepAlone ==
  ASSUME NEW x \in AllSteps
  PROVE  /\ <<x>> \in Seq(AllSteps) /\ Chained(<<x>>) /\ <<x>> # <<>> /\ Len(<<x>>) = 1
         /\ <<x>>[1] = x /\ \A i \in 1..Len(<<x>>) : <<x>>[i] = x
BY DEF Chained

(* The scripts that close down, of each thread that does.                  *)
LEMMA ProducerClosesDown == Proper("producer", CloseDown) /\ First(CloseDown) = "stopToken"
<1>1. \A i \in 1..Len(CloseDown) : CloseDown[i] \in StepsOf("producer")
  BY CloseDownScript, StepsAre
<1>2. "producer" \notin Callers \cup {"mover"} BY CallersAssumption DEF Workers
<1> QED BY <1>1, <1>2, CloseDownScript DEF Proper, First

LEMMA ConsumerClosesDown ==
  LET s == <<"markError">> \o CloseDown
  IN  Proper("consumer", s) /\ First(s) = "markError"
<1> DEFINE a == <<"markError">>
           s == a \o CloseDown
<1>1. "markError" \in AllSteps /\ "markError" \in StepsOf("consumer")
  BY StepsAre DEF AllSteps, ConsumerSteps
<1>2. /\ a \in Seq(AllSteps) /\ Chained(a) /\ a # <<>> /\ Len(a) = 1 /\ a[1] = "markError"
      /\ \A i \in 1..Len(a) : a[i] = "markError"
  BY <1>1, StepAlone
<1> HIDE DEF a
<1>3. Follows(a[Len(a)], CloseDown[1])
  BY <1>2, CloseDownScript DEF Follows, ClosingSteps
<1>4. /\ s \in Seq(AllSteps) /\ Chained(s) /\ s # <<>> /\ s[1] = "markError"
      /\ (\A i \in 1..Len(a) : a[i] \in ConsumerSteps)
           /\ (\A i \in 1..Len(CloseDown) : CloseDown[i] \in ConsumerSteps)
          => \A i \in 1..Len(s) : s[i] \in ConsumerSteps
  BY <1>2, <1>3, CloseDownScript, ScriptsJoined
<1>5. \A i \in 1..Len(s) : s[i] \in StepsOf("consumer")
  <2>1. \A i \in 1..Len(CloseDown) : CloseDown[i] \in ConsumerSteps
    BY CloseDownScript DEF ConsumerSteps
  <2>2. \A i \in 1..Len(a) : a[i] \in ConsumerSteps BY <1>2, <1>1, StepsAre
  <2> QED BY <2>1, <2>2, <1>4, StepsAre
<1>6. "consumer" \notin Callers \cup {"mover"} BY CallersAssumption DEF Workers
<1>7. Proper("consumer", s) /\ First(s) = "markError"
  BY <1>4, <1>5, <1>6 DEF Proper, First
<1> QED BY <1>7 DEF a

(* Closing down, one step to end with, and perhaps a join.                 *)
LEMMA ClosesDownThen ==
  ASSUME NEW t \in Callers \cup {"mover"}, NEW x \in {"release", "abortStart", "discard"},
         x \in StepsOf(t)
  PROVE  /\ Proper(t, CloseDown \o <<x>>) /\ First(CloseDown \o <<x>>) = "stopToken"
         /\ CloseDown \o <<x>> # <<>>
         /\ (CloseDown \o <<x>>)[Len(CloseDown \o <<x>>)] = x
         /\ x = "abortStart" => TakesBack(CloseDown \o <<x>>)
<1> DEFINE b == <<x>>
           s == CloseDown \o b
<1>1. t \in Threads /\ x \in AllSteps BY StepsAre DEF Threads, Workers
<1>2. /\ b \in Seq(AllSteps) /\ Chained(b) /\ b # <<>> /\ Len(b) = 1 /\ b[1] = x
      /\ \A i \in 1..Len(b) : b[i] = x
  BY <1>1, StepAlone
<1> HIDE DEF b
<1>3. Follows(CloseDown[Len(CloseDown)], b[1])
  BY <1>2, CloseDownScript DEF Follows, ClosingSteps
<1>4. /\ s \in Seq(AllSteps) /\ Chained(s) /\ s # <<>> /\ s[1] = "stopToken"
      /\ s[Len(s)] = x /\ Len(s) = Len(CloseDown) + 1
      /\ \A i \in 1..Len(CloseDown) : s[i] = CloseDown[i]
      /\ (\A i \in 1..Len(CloseDown) : CloseDown[i] \in StepsOf(t))
           /\ (\A i \in 1..Len(b) : b[i] \in StepsOf(t))
          => \A i \in 1..Len(s) : s[i] \in StepsOf(t)
  BY <1>2, <1>3, CloseDownScript, ScriptsJoined
<1>5. ClosingSteps \subseteq StepsOf(t)
  BY StepsAre DEF CallerSteps, LockedSteps, MoverSteps
<1>6. \A i \in 1..Len(s) : s[i] \in StepsOf(t)
  BY <1>2, <1>4, <1>5, CloseDownScript
<1>7. x \notin ClosingSteps BY DEF ClosingSteps
<1>8. Proper(t, s) /\ First(s) = "stopToken"
  BY <1>4, <1>6, <1>7 DEF Proper, First
<1>9. Len(CloseDown) \in Nat BY CloseDownScript, LenProperties
<1>10. \A i \in 1..(Len(s) - 1) : s[i] \in ClosingSteps
  <2> SUFFICES ASSUME NEW i \in 1..(Len(s) - 1) PROVE s[i] \in ClosingSteps
    OBVIOUS
  <2>1. i \in 1..Len(CloseDown) BY <1>4, <1>9
  <2> QED BY <2>1, <1>4, CloseDownScript
<1>11. x = "abortStart" => TakesBack(s) BY <1>4, <1>10 DEF TakesBack
<1> QED BY <1>4, <1>8, <1>11 DEF b

(* The scripts of a caller that go on with what it has left to do.         *)
LEMMA CallerGoesOn ==
  ASSUME NEW c \in Callers, NEW a, Proper(c, a), a # <<>>, NEW s, Proper(c, s), s # <<>>,
         \/ a[Len(a)] = "release" /\ s[1] = "requestStop"
         \/ s[1] = "join"
  PROVE  /\ Proper(c, a \o Tail(s)) /\ First(a \o Tail(s)) = a[1]
<1> DEFINE b == Tail(s)
<1>1. c \in Threads BY DEF Threads
<1>2. /\ Proper(c, b)
      /\ First(b) = "idle" \/ Follows(s[1], First(b))
      /\ First(b) = "idle" <=> b = <<>>
      /\ b # <<>> => First(b) = b[1]
  BY <1>1, RestOfScript, FirstStep
<1> HIDE DEF b
<1>3. b # <<>> => Follows(a[Len(a)], b[1])
  <2> SUFFICES ASSUME b # <<>> PROVE Follows(a[Len(a)], b[1])
    OBVIOUS
  <2>1. Follows(s[1], b[1]) BY <1>2
  <2>2. a[Len(a)] = "release" /\ b[1] = "join"
    <3>1. CASE s[1] = "join" BY <2>1, <3>1 DEF Follows, ClosingSteps
    <3>2. CASE a[Len(a)] = "release" /\ s[1] = "requestStop"
      BY <2>1, <3>2 DEF Follows, ClosingSteps
    <3> QED BY <3>1, <3>2
  <2> QED BY <2>2 DEF Follows
<1>6. a \in Seq(AllSteps) /\ Chained(a) /\ b \in Seq(AllSteps) /\ Chained(b)
  BY <1>2 DEF Proper
<1>4. /\ a \o b \in Seq(AllSteps) /\ Chained(a \o b) /\ a \o b # <<>> /\ (a \o b)[1] = a[1]
      /\ (a \o b)[Len(a \o b)] = IF b = <<>> THEN a[Len(a)] ELSE b[Len(b)]
      /\ (\A i \in 1..Len(a) : a[i] \in StepsOf(c))
           /\ (\A i \in 1..Len(b) : b[i] \in StepsOf(c))
          => \A i \in 1..Len(a \o b) : (a \o b)[i] \in StepsOf(c)
  BY <1>3, <1>6, ScriptsJoined
<1>5. Proper(c, a \o b) /\ First(a \o b) = a[1] BY <1>2, <1>4 DEF Proper, First
<1> QED BY <1>5 DEF b

-----------------------------------------------------------------------------
(* How each action moves its thread                                        *)

LEMMA IsAt ==
  ASSUME Scripted, NEW t \in Threads, NEW x \in AllSteps
  PROVE  /\ At(t, x) <=> Step(t) = x
         /\ Step(t) = x => script[t] # <<>> /\ script[t][1] = x
         /\ script[t] = <<>> <=> Step(t) = "idle"
         /\ Step(t) \in StepsOf(t) \cup {"idle"}
<1>1. Proper(t, script[t]) BY DEF Scripted
<1>2. /\ script[t] # <<>> => First(script[t]) = script[t][1]
      /\ First(script[t]) = "idle" <=> script[t] = <<>>
      /\ First(script[t]) \in StepsOf(t) \cup {"idle"}
  BY <1>1, FirstStep
<1>3. "idle" \notin AllSteps
  BY DEF AllSteps, CallerSteps, LockedSteps, ClosingSteps, ProducingSteps, DrainSteps,
         MoverSteps, ConsumerSteps
<1> QED BY <1>2, <1>3 DEF At, Step

LEMMA Goes ==
  ASSUME Scripted, NEW t \in Threads, NEW s, Proper(t, s), Goto(t, s)
  PROVE  /\ Scripted' /\ Moves(t, First(s)) /\ script'[t] = s
         /\ \A u \in Threads : u # t => script'[u] = script[u]
<1>1. /\ script'[t] = s /\ script' \in [Threads -> Seq(AllSteps)]
      /\ \A u \in Threads : u # t => script'[u] = script[u]
  BY DEF Scripted, Goto, Proper
<1>2. Scripted' BY <1>1 DEF Scripted
<1> QED BY <1>1, <1>2 DEF Moves, Step

LEMMA Advances ==
  ASSUME Scripted, NEW t \in Threads, script[t] # <<>>, Advance(t)
  PROVE  /\ Scripted' /\ Moves(t, Step(t)')
         /\ Step(t)' = "idle" \/ Follows(Step(t), Step(t)')
         /\ Step(t)' \in StepsOf(t) \cup {"idle"}
         /\ t \in Callers \cup {"mover"} /\ Step(t) \in ClosingSteps => Step(t)' # "idle"
         /\ TakesBack(script[t]) /\ Step(t) # "abortStart" => TakesBack(script'[t])
         /\ \A u \in Threads : u # t => script'[u] = script[u]
<1> DEFINE s == Tail(script[t])
<1>1. Proper(t, script[t]) BY DEF Scripted
<1>2. Step(t) = script[t][1] BY <1>1, FirstStep DEF Step
<1>3. Proper(t, s) BY <1>1, RestOfScript
<1>4. First(s) = "idle" \/ Follows(Step(t), First(s))
  BY <1>1, <1>2, RestOfScript
<1>5. t \in Callers \cup {"mover"} /\ Step(t) \in ClosingSteps => First(s) # "idle"
  BY <1>1, <1>2, RestOfScript
<1>6. TakesBack(script[t]) /\ Step(t) # "abortStart" => TakesBack(s)
  BY <1>1, <1>2, RestOfScript
<1>7. First(s) \in StepsOf(t) \cup {"idle"} BY <1>3, FirstStep
<1> HIDE DEF s
<1>8. Goto(t, s) BY DEF Advance, Rest, s
<1>9. /\ Scripted' /\ Moves(t, First(s)) /\ script'[t] = s
      /\ \A u \in Threads : u # t => script'[u] = script[u]
  BY <1>3, <1>8, Goes
<1>10. Step(t)' = First(s) BY <1>9 DEF Moves
<1> QED BY <1>4, <1>5, <1>6, <1>7, <1>9, <1>10

LEMMA StepNames ==
  /\ ProducingSteps \subseteq StepsOf("producer") \ ClosingSteps
  /\ {"pop", "tee", "forward", "discard"} \subseteq StepsOf("mover") \ ClosingSteps
  /\ {"pop", "process", "flush", "markError"} \subseteq StepsOf("consumer") \ ClosingSteps
  /\ "pop" \in StepsOf("recorder") \ ClosingSteps
  /\ \A c \in Callers : CallerSteps \ ClosingSteps \subseteq StepsOf(c) \ ClosingSteps
  /\ Callers \subseteq Threads /\ Workers \subseteq Threads
BY StepsAre DEF ProducingSteps, DrainSteps, ClosingSteps, MoverSteps, ConsumerSteps, Threads

LEMMA ProducerMoves ==
  ASSUME Scripted
  PROVE  /\ ProducerCheck =>
              /\ Scripted' /\ Step("producer") = "check"
              /\ Moves("producer", IF stop THEN "stopToken" ELSE IF Finished THEN "drain"
                                   ELSE IF config.paced /\ count.received # 0 THEN "pace"
                                   ELSE "acquire")
         /\ ProducerPace =>
              /\ Scripted' /\ Step("producer") = "pace"
              /\ Moves("producer", IF stop THEN "stopToken" ELSE "acquire")
         /\ ProducerAcquire =>
              Scripted' /\ Step("producer") = "acquire" /\ Moves("producer", "push")
         /\ ProducerInterrupted =>
              Scripted' /\ Step("producer") = "acquire" /\ Moves("producer", "stopToken")
         /\ ProducerPush =>
              /\ Scripted' /\ Step("producer") = "push"
              /\ Moves("producer", IF PushResult(acq) = "Stopped" THEN "stopToken" ELSE "check")
         /\ ProducerDrain =>
              /\ Scripted' /\ stop' = stop
              /\ \/ /\ Step("producer") = "drain"
                    /\ Moves("producer", IF acq.items = <<>> THEN "drainDsp"
                                         ELSE IF stop THEN "stopToken" ELSE "drain")
                 \/ /\ Step("producer") = "drainDsp"
                    /\ Moves("producer", IF dsp.items = <<>>
                                         THEN IF config.recorderEnabled THEN "drainRecorder"
                                              ELSE "stopToken"
                                         ELSE IF stop THEN "stopToken" ELSE "drain")
                 \/ /\ Step("producer") = "drainRecorder"
                    /\ Moves("producer", IF rec.items = <<>> THEN "stopToken"
                                         ELSE IF stop THEN "stopToken" ELSE "drain")
<1>1. "producer" \in Threads BY StepNames DEF Workers
<1>2. \A x \in ProducingSteps : Proper("producer", <<x>>) /\ First(<<x>>) = x
  BY <1>1, OneStepScript, StepNames
<1>3. Proper("producer", CloseDown) /\ First(CloseDown) = "stopToken"
  BY ProducerClosesDown
<1>4. \A x \in ProducingSteps : x \in AllSteps /\ (At("producer", x) <=> Step("producer") = x)
  BY <1>1, IsAt, StepNames, StepsAre
<1>5. \A s : Proper("producer", s) /\ Goto("producer", s)
               => Scripted' /\ Moves("producer", First(s))
  BY <1>1, Goes
<1>6. {"check", "pace", "acquire", "push", "drain", "drainDsp", "drainRecorder"}
        \subseteq ProducingSteps
  BY DEF ProducingSteps, DrainSteps
<1> HIDE DEF ProducingSteps, CloseDown, Proper, First, Moves, Scripted, Goto, At, Step, PushResult,
            Finished
<1>7. ProducerCheck =>
        /\ Scripted' /\ Step("producer") = "check"
        /\ Moves("producer", IF stop THEN "stopToken" ELSE IF Finished THEN "drain"
                             ELSE IF config.paced /\ count.received # 0 THEN "pace"
                             ELSE "acquire")
  BY <1>2, <1>3, <1>4, <1>5, <1>6 DEF ProducerCheck
<1>8. ProducerPace =>
        /\ Scripted' /\ Step("producer") = "pace"
        /\ Moves("producer", IF stop THEN "stopToken" ELSE "acquire")
  BY <1>2, <1>3, <1>4, <1>5, <1>6 DEF ProducerPace
<1>9. ProducerAcquire =>
        Scripted' /\ Step("producer") = "acquire" /\ Moves("producer", "push")
  BY <1>2, <1>4, <1>5, <1>6 DEF ProducerAcquire
<1>10. ProducerInterrupted =>
        Scripted' /\ Step("producer") = "acquire" /\ Moves("producer", "stopToken")
  BY <1>3, <1>4, <1>5, <1>6 DEF ProducerInterrupted
<1>11. ProducerPush =>
        /\ Scripted' /\ Step("producer") = "push"
        /\ Moves("producer", IF PushResult(acq) = "Stopped" THEN "stopToken" ELSE "check")
  BY <1>2, <1>3, <1>4, <1>5, <1>6 DEF ProducerPush
<1>12. \A x \in DrainSteps : \A q, next :
         DrainStep(x, q, next) /\ Proper("producer", next) =>
           /\ Scripted' /\ stop' = stop /\ Step("producer") = x
           /\ Moves("producer", IF q.items = <<>> THEN First(next)
                                ELSE IF stop THEN "stopToken" ELSE "drain")
  BY <1>2, <1>3, <1>4, <1>5, <1>6 DEF DrainStep, ProducingSteps
<1>13. DrainStep("drain", acq, <<"drainDsp">>) =>
         /\ Scripted' /\ stop' = stop /\ Step("producer") = "drain"
         /\ Moves("producer", IF acq.items = <<>> THEN "drainDsp"
                              ELSE IF stop THEN "stopToken" ELSE "drain")
  BY <1>2, <1>6, <1>12 DEF DrainSteps
<1>14. DrainStep("drainDsp", dsp,
                 IF config.recorderEnabled THEN <<"drainRecorder">> ELSE CloseDown) =>
         /\ Scripted' /\ stop' = stop /\ Step("producer") = "drainDsp"
         /\ Moves("producer", IF dsp.items = <<>>
                              THEN IF config.recorderEnabled THEN "drainRecorder" ELSE "stopToken"
                              ELSE IF stop THEN "stopToken" ELSE "drain")
  <2>1. CASE config.recorderEnabled BY <2>1, <1>2, <1>6, <1>12 DEF DrainSteps
  <2>2. CASE ~config.recorderEnabled BY <2>2, <1>3, <1>12 DEF DrainSteps
  <2> QED BY <2>1, <2>2
<1>15. DrainStep("drainRecorder", rec, CloseDown) =>
         /\ Scripted' /\ stop' = stop /\ Step("producer") = "drainRecorder"
         /\ Moves("producer", IF rec.items = <<>> THEN "stopToken"
                              ELSE IF stop THEN "stopToken" ELSE "drain")
  BY <1>3, <1>12 DEF DrainSteps
<1> QED BY <1>7, <1>8, <1>9, <1>10, <1>11, <1>13, <1>14, <1>15 DEF ProducerDrain

LEMMA MoverMoves ==
  ASSUME Scripted
  PROVE  /\ MoverPop =>
              /\ Scripted' /\ Step("mover") = "pop"
              /\ Moves("mover", IF acq.items = <<>> THEN "idle"
                                ELSE IF config.recorderEnabled THEN "tee" ELSE "forward")
         /\ MoverTee =>
              /\ Scripted' /\ Step("mover") = "tee"
              /\ Moves("mover", IF PushResult(rec) = "Stopped" THEN "idle"
                                ELSE IF TeeStops THEN "stopToken" ELSE "forward")
         /\ MoverDiscard =>
              Scripted' /\ Step("mover") = "discard" /\ Moves("mover", "idle")
         /\ MoverForward =>
              /\ Scripted' /\ Step("mover") = "forward"
              /\ Moves("mover", IF PushResult(dsp) = "Stopped" THEN "idle" ELSE "pop")
<1>1. "mover" \in Threads BY StepNames DEF Workers
<1> DEFINE S == {"pop", "tee", "forward", "discard"}
<1>2. \A x \in S : Proper("mover", <<x>>) /\ First(<<x>>) = x
  BY <1>1, OneStepScript, StepNames
<1>3. Proper("mover", CloseDown \o <<"discard">>) /\ First(CloseDown \o <<"discard">>) = "stopToken"
  BY ClosesDownThen, StepNames
<1>4. \A x \in S : At("mover", x) <=> Step("mover") = x
  BY <1>1, IsAt, StepNames, StepsAre
<1>5. \A s : Proper("mover", s) /\ Goto("mover", s) => Scripted' /\ Moves("mover", First(s))
  BY <1>1, Goes
<1>6. Proper("mover", <<>>) /\ First(<<>>) = "idle" BY <1>1, EmptyScript
<1> HIDE DEF CloseDown, Proper, First, Moves, Scripted, Goto, At, Step, PushResult, TeeStops
<1>7. MoverPop =>
        /\ Scripted' /\ Step("mover") = "pop"
        /\ Moves("mover", IF acq.items = <<>> THEN "idle"
                          ELSE IF config.recorderEnabled THEN "tee" ELSE "forward")
  BY <1>2, <1>4, <1>5, <1>6 DEF MoverPop
<1>8. MoverTee =>
        /\ Scripted' /\ Step("mover") = "tee"
        /\ Moves("mover", IF PushResult(rec) = "Stopped" THEN "idle"
                          ELSE IF TeeStops THEN "stopToken" ELSE "forward")
  BY <1>2, <1>3, <1>4, <1>5, <1>6 DEF MoverTee
<1>9. MoverDiscard => Scripted' /\ Step("mover") = "discard" /\ Moves("mover", "idle")
  BY <1>4, <1>5, <1>6 DEF MoverDiscard
<1>10. MoverForward =>
        /\ Scripted' /\ Step("mover") = "forward"
        /\ Moves("mover", IF PushResult(dsp) = "Stopped" THEN "idle" ELSE "pop")
  BY <1>2, <1>4, <1>5, <1>6 DEF MoverForward
<1> QED BY <1>7, <1>8, <1>9, <1>10

LEMMA ConsumerMoves ==
  ASSUME Scripted
  PROVE  /\ ConsumerPop =>
              /\ Scripted' /\ Step("consumer") = "pop"
              /\ Moves("consumer", IF dsp.items # <<>> THEN "process" ELSE "flush")
         /\ ConsumerProcess =>
              Scripted' /\ Step("consumer") = "process" /\ Moves("consumer", "pop")
         /\ ConsumerFlush =>
              Scripted' /\ Step("consumer") = "flush" /\ Moves("consumer", "idle")
         /\ ConsumerThrows =>
              /\ Scripted' /\ Step("consumer") \in {"process", "flush"}
              /\ Moves("consumer", "markError")
         /\ MarkError("consumer") =>
              /\ Scripted' /\ Step("consumer") = "markError"
              /\ Moves("consumer", Step("consumer")')
              /\ Step("consumer")' \in ClosingSteps \cup {"idle"}
<1>1. "consumer" \in Threads BY StepNames DEF Workers
<1> DEFINE S == {"pop", "process", "flush", "markError"}
<1>2. \A x \in S : Proper("consumer", <<x>>) /\ First(<<x>>) = x
  BY <1>1, OneStepScript, StepNames
<1>3. /\ Proper("consumer", <<"markError">> \o CloseDown)
      /\ First(<<"markError">> \o CloseDown) = "markError"
  BY ConsumerClosesDown
<1>4. \A x \in S : At("consumer", x) <=> Step("consumer") = x
  BY <1>1, IsAt, StepNames, StepsAre
<1>5. \A s : Proper("consumer", s) /\ Goto("consumer", s)
               => Scripted' /\ Moves("consumer", First(s))
  BY <1>1, Goes
<1>6. Proper("consumer", <<>>) /\ First(<<>>) = "idle" BY <1>1, EmptyScript
<1>7. MarkError("consumer") =>
        /\ Scripted' /\ Step("consumer") = "markError"
        /\ Moves("consumer", Step("consumer")')
        /\ Step("consumer")' \in ClosingSteps \cup {"idle"}
  <2> SUFFICES ASSUME MarkError("consumer")
               PROVE  /\ Scripted' /\ Step("consumer") = "markError"
                      /\ Moves("consumer", Step("consumer")')
                      /\ Step("consumer")' \in ClosingSteps \cup {"idle"}
    OBVIOUS
  <2>1. Advance("consumer") /\ script["consumer"] # <<>> /\ Step("consumer") = "markError"
    BY <1>4 DEF MarkError, At
  <2>2. /\ Scripted' /\ Moves("consumer", Step("consumer")')
        /\ Step("consumer")' = "idle" \/ Follows(Step("consumer"), Step("consumer")')
    BY <2>1, <1>1, Advances
  <2>3. Follows("markError", Step("consumer")') => Step("consumer")' \in ClosingSteps
    BY DEF Follows, ClosingSteps
  <2> QED BY <2>1, <2>2, <2>3
<1> HIDE DEF CloseDown, Proper, First, Moves, Scripted, Goto, At, Step
<1>8. ConsumerPop =>
        /\ Scripted' /\ Step("consumer") = "pop"
        /\ Moves("consumer", IF dsp.items # <<>> THEN "process" ELSE "flush")
  BY <1>2, <1>4, <1>5 DEF ConsumerPop
<1>9. ConsumerProcess => Scripted' /\ Step("consumer") = "process" /\ Moves("consumer", "pop")
  BY <1>2, <1>4, <1>5 DEF ConsumerProcess
<1>10. ConsumerFlush => Scripted' /\ Step("consumer") = "flush" /\ Moves("consumer", "idle")
  BY <1>4, <1>5, <1>6 DEF ConsumerFlush
<1>11. ConsumerThrows =>
        /\ Scripted' /\ Step("consumer") \in {"process", "flush"}
        /\ Moves("consumer", "markError")
  BY <1>3, <1>4, <1>5 DEF ConsumerThrows
<1> QED BY <1>7, <1>8, <1>9, <1>10, <1>11

LEMMA RecorderMoves ==
  ASSUME Scripted, RecorderPop
  PROVE  /\ Scripted' /\ Step("recorder") = "pop"
         /\ Moves("recorder", IF rec.items # <<>> THEN "pop" ELSE "idle")
<1>1. "recorder" \in Threads /\ "pop" \in AllSteps
  BY StepNames, StepsAre DEF Workers
<1>2. Proper("recorder", <<>>) /\ First(<<>>) = "idle" BY <1>1, EmptyScript
<1>3. Step("recorder") = "pop" BY <1>1, IsAt DEF RecorderPop
<1>4. CASE rec.items # <<>>
  <2>1. script' = script BY <1>4 DEF RecorderPop
  <2>2. Scripted' /\ \A t \in Threads : Step(t)' = Step(t)
    BY <2>1 DEF Scripted, Step
  <2> QED BY <2>2, <1>1, <1>3, <1>4 DEF Moves
<1>5. CASE rec.items = <<>>
  <2>1. Goto("recorder", <<>>) BY <1>5 DEF RecorderPop
  <2>2. Scripted' /\ Moves("recorder", "idle") BY <2>1, <1>1, <1>2, Goes
  <2> QED BY <2>2, <1>3, <1>5
<1> QED BY <1>4, <1>5

(* Closing down: the step that comes next closes, or is what was to follow.*)
LEMMA ClosingMoves ==
  ASSUME Scripted, NEW t \in Threads, Closing(t)
  PROVE  /\ Scripted' /\ Step(t) \in ClosingSteps /\ Moves(t, Step(t)')
         /\ Step(t)' \in StepsOf(t) \cup {"idle"}
         /\ Step(t)' \in ClosingSteps \cup {"idle", "release", "abortStart", "discard"}
         /\ t \in Callers \cup {"mover"} => Step(t)' # "idle"
         /\ t \in Callers => Step(t)' \in LockedSteps
         /\ TakesBack(script[t]) => TakesBack(script'[t])
         /\ \A u \in Threads : u # t => script'[u] = script[u]
<1>1. PICK x \in ClosingSteps : At(t, x) /\ Advance(t)
  BY DEF Closing, ClosingSteps
<1>2. Step(t) = x /\ script[t] # <<>>
  BY <1>1, IsAt DEF At, AllSteps, CallerSteps, LockedSteps
<1>3. /\ Scripted' /\ Moves(t, Step(t)')
      /\ Step(t)' = "idle" \/ Follows(Step(t), Step(t)')
      /\ Step(t)' \in StepsOf(t) \cup {"idle"}
      /\ t \in Callers \cup {"mover"} => Step(t)' # "idle"
      /\ TakesBack(script[t]) /\ Step(t) # "abortStart" => TakesBack(script'[t])
      /\ \A u \in Threads : u # t => script'[u] = script[u]
  BY <1>1, <1>2, Advances
<1>4. x \notin {"release", "abortStart", "requestStop"} BY DEF ClosingSteps
<1>5. Step(t)' \in ClosingSteps \cup {"idle", "release", "abortStart", "discard"}
  BY <1>2, <1>3, <1>4 DEF Follows
<1>6. t \in Callers => Step(t)' \in LockedSteps
  <2> SUFFICES ASSUME t \in Callers PROVE Step(t)' \in LockedSteps
    OBVIOUS
  <2>1. "discard" \notin CallerSteps
    BY DEF CallerSteps, LockedSteps, ClosingSteps
  <2>2. Step(t)' \in CallerSteps BY <1>3, StepsAre
  <2> QED BY <2>1, <2>2, <1>5, <1>3 DEF LockedSteps
<1> QED BY <1>2, <1>3, <1>4, <1>5, <1>6

LEMMA CallerMoves ==
  ASSUME Scripted, NEW c \in Callers
  PROVE  /\ Call(c) =>
              Scripted' /\ Step(c) = "idle" /\ Moves(c, Step(c)') /\ Step(c)' \notin LockedSteps
         /\ Configure(c) =>
              Scripted' /\ Step(c) = "configure" /\ Moves(c, "idle")
         /\ Refused(c) =>
              Scripted' /\ Step(c) \in CallerSteps \ LockedSteps /\ Moves(c, "idle")
         /\ AbortStart(c) =>
              Scripted' /\ Step(c) = "abortStart" /\ Moves(c, "idle")
         /\ RequestStop(c) =>
              /\ Scripted' /\ Step(c) = "requestStop" /\ Moves(c, Step(c)')
              /\ Step(c)' \in IF state = "Running" THEN {"stopToken"} ELSE {"idle", "join"}
         /\ Release(c) =>
              /\ Scripted' /\ Step(c) = "release" /\ Moves(c, Step(c)')
              /\ Step(c)' \in {"idle", "join"}
         /\ Join(c) =>
              /\ Scripted' /\ Step(c) = "join"
              /\ Moves(c, IF state = "Stopped" THEN "idle" ELSE "joinWorkers")
         /\ JoinWorkers(c) =>
              Scripted' /\ Step(c) = "joinWorkers" /\ Moves(c, "idle")
<1> DEFINE S == {"configure", "start", "requestStop", "join", "release", "abortStart", "joinWorkers"}
<1>1. c \in Threads BY DEF Threads
<1>2. S \subseteq StepsOf(c) \ ClosingSteps /\ S \subseteq AllSteps
  BY StepsAre DEF CallerSteps, LockedSteps, ClosingSteps, AllSteps
<1>3. \A x \in S : /\ Proper(c, <<x>>) /\ First(<<x>>) = x
                   /\ <<x>> # <<>> /\ <<x>>[Len(<<x>>)] = x /\ <<x>>[1] = x
  BY <1>1, <1>2, OneStepScript, StepAlone
<1>4. \A x \in S : /\ At(c, x) <=> Step(c) = x
                   /\ Step(c) = x => script[c] # <<>> /\ script[c][1] = x
  BY <1>1, <1>2, IsAt
<1>5. \A s : Proper(c, s) /\ Goto(c, s) => Scripted' /\ Moves(c, First(s))
  BY <1>1, Goes
<1>6. Proper(c, <<>>) /\ First(<<>>) = "idle" /\ (script[c] = <<>> <=> Step(c) = "idle")
  <2>1. script[c] = <<>> <=> Step(c) = "idle" BY <1>1, <1>2, IsAt
  <2> QED BY <2>1, <1>1, EmptyScript
<1>7. /\ Advance(c) /\ Step(c) \in S =>
           /\ Scripted' /\ Moves(c, Step(c)')
           /\ Step(c)' = "idle" \/ Follows(Step(c), Step(c)')
  <2>1. Step(c) \in S => script[c] # <<>> BY <1>4
  <2> QED BY <2>1, <1>1, Advances
<1>8. \A x : /\ ~Follows("configure", x) /\ ~Follows("join", x) /\ ~Follows("joinWorkers", x)
             /\ Follows("requestStop", x) => x = "join"
             /\ Follows("release", x) => x = "join"
  BY DEF Follows, ClosingSteps
<1>9. Proper(c, script[c]) BY <1>1 DEF Scripted
<1>10. RequestStop(c) =>
              /\ Scripted' /\ Step(c) = "requestStop" /\ Moves(c, Step(c)')
              /\ Step(c)' \in IF state = "Running" THEN {"stopToken"} ELSE {"idle", "join"}
  <2> SUFFICES ASSUME RequestStop(c)
               PROVE  /\ Scripted' /\ Step(c) = "requestStop" /\ Moves(c, Step(c)')
                      /\ Step(c)' \in IF state = "Running" THEN {"stopToken"} ELSE {"idle", "join"}
    OBVIOUS
  <2>1. Step(c) = "requestStop" /\ script[c] # <<>> /\ script[c][1] = "requestStop"
    BY <1>4 DEF RequestStop
  <2>2. CASE state = "Running"
    <3> DEFINE a == CloseDown \o <<"release">>
    <3>1. /\ Proper(c, a) /\ a # <<>> /\ a[Len(a)] = "release" /\ First(a) = "stopToken"
      BY <1>2, ClosesDownThen
    <3>2. a[1] = "stopToken" BY <3>1 DEF First
    <3> HIDE DEF a
    <3>3. Proper(c, a \o Tail(script[c])) /\ First(a \o Tail(script[c])) = "stopToken"
      BY <1>9, <2>1, <3>1, <3>2, CallerGoesOn
    <3>4. Goto(c, a \o Tail(script[c])) BY <2>2 DEF RequestStop, Rest, a
    <3>5. Scripted' /\ Moves(c, "stopToken") BY <1>5, <3>3, <3>4
    <3>6. Step(c)' = "stopToken" BY <3>5 DEF Moves
    <3> QED BY <2>1, <2>2, <3>5, <3>6
  <2>3. CASE state # "Running"
    <3>1. Advance(c) BY <2>3 DEF RequestStop
    <3> QED BY <3>1, <2>1, <2>3, <1>7, <1>8
  <2> QED BY <2>2, <2>3
<1>11. Join(c) =>
              /\ Scripted' /\ Step(c) = "join"
              /\ Moves(c, IF state = "Stopped" THEN "idle" ELSE "joinWorkers")
  <2> SUFFICES ASSUME Join(c)
               PROVE  /\ Scripted' /\ Step(c) = "join"
                      /\ Moves(c, IF state = "Stopped" THEN "idle" ELSE "joinWorkers")
    OBVIOUS
  <2>1. Step(c) = "join" /\ script[c] # <<>> /\ script[c][1] = "join"
    BY <1>4 DEF Join
  <2>2. CASE state = "Stopped"
    <3>1. Advance(c) BY <2>2 DEF Join
    <3>2. Scripted' /\ Moves(c, Step(c)') /\ Step(c)' = "idle"
      BY <3>1, <2>1, <1>7, <1>8
    <3> QED BY <3>2, <2>1, <2>2
  <2>3. CASE state # "Stopped"
    <3> DEFINE a == <<"joinWorkers">>
    <3>1. /\ Proper(c, a) /\ a # <<>> /\ a[1] = "joinWorkers" BY <1>3
    <3> HIDE DEF a
    <3>2. Proper(c, a \o Tail(script[c])) /\ First(a \o Tail(script[c])) = "joinWorkers"
      BY <1>9, <2>1, <3>1, CallerGoesOn
    <3>3. Goto(c, a \o Tail(script[c])) BY <2>3 DEF Join, Rest, a
    <3> QED BY <2>1, <2>3, <3>2, <3>3, <1>5
  <2> QED BY <2>2, <2>3
<1>12. Call(c) =>
         Scripted' /\ Step(c) = "idle" /\ Moves(c, Step(c)') /\ Step(c)' \notin LockedSteps
  <2> SUFFICES ASSUME Call(c)
               PROVE  /\ Scripted' /\ Step(c) = "idle" /\ Moves(c, Step(c)')
                      /\ Step(c)' \notin LockedSteps
    OBVIOUS
  <2>1. PICK call \in Calls : Goto(c, Steps(call))
    BY DEF Call
  <2>2. Proper(c, <<"requestStop", "join">>) /\ First(<<"requestStop", "join">>) = "requestStop"
    <3>1. /\ <<"requestStop", "join">> \in Seq(AllSteps) /\ Len(<<"requestStop", "join">>) = 2
          /\ <<"requestStop", "join">>[1] = "requestStop" /\ <<"requestStop", "join">>[2] = "join"
          /\ <<"requestStop", "join">> # <<>>
      BY <1>2
    <3>2. Chained(<<"requestStop", "join">>) BY <3>1 DEF Chained, Follows
    <3> QED BY <1>2, <3>1, <3>2 DEF Proper, First
  <2>3. Proper(c, Steps(call)) /\ First(Steps(call)) \in S
    BY <1>3, <2>2, CallsAssumption DEF Steps
  <2>4. Scripted' /\ Moves(c, First(Steps(call))) BY <2>1, <2>3, <1>5
  <2>5. Step(c)' = First(Steps(call)) /\ Step(c) = "idle"
    BY <2>4, <1>6 DEF Moves, Call
  <2>6. Steps(call) \in {<<"configure">>, <<"start">>, <<"join">>, <<"requestStop">>,
                         <<"requestStop", "join">>}
    BY CallsAssumption DEF Steps
  <2>7. First(Steps(call)) \in {"configure", "start", "join", "requestStop"}
    BY <2>2, <2>6, <1>3
  <2> QED BY <2>4, <2>5, <2>7 DEF LockedSteps, ClosingSteps
<1>13. /\ Configure(c) => Scripted' /\ Step(c) = "configure" /\ Moves(c, "idle")
       /\ JoinWorkers(c) => Scripted' /\ Step(c) = "joinWorkers" /\ Moves(c, "idle")
       /\ Release(c) => /\ Scripted' /\ Step(c) = "release" /\ Moves(c, Step(c)')
                        /\ Step(c)' \in {"idle", "join"}
  <2>1. Configure(c) => Step(c) = "configure" /\ Advance(c)
    BY <1>4 DEF Configure
  <2>2. JoinWorkers(c) => Step(c) = "joinWorkers" /\ Advance(c)
    BY <1>4 DEF JoinWorkers
  <2>3. Release(c) => Step(c) = "release" /\ Advance(c) BY <1>4 DEF Release
  <2>4. \A x \in {"configure", "joinWorkers"} :
          Advance(c) /\ Step(c) = x => Scripted' /\ Moves(c, "idle")
    BY <1>7, <1>8
  <2>5. Advance(c) /\ Step(c) = "release" =>
          Scripted' /\ Moves(c, Step(c)') /\ Step(c)' \in {"idle", "join"}
    BY <1>7, <1>8
  <2> QED BY <2>1, <2>2, <2>3, <2>4, <2>5
<1>14. /\ Refused(c) => Scripted' /\ Step(c) \in CallerSteps \ LockedSteps /\ Moves(c, "idle")
       /\ AbortStart(c) => Scripted' /\ Step(c) = "abortStart" /\ Moves(c, "idle")
  <2>1. Refused(c) => Goto(c, <<>>) /\ Step(c) \in {"configure", "start", "requestStop", "join"}
    BY <1>4 DEF Refused
  <2>2. AbortStart(c) => Goto(c, <<>>) /\ Step(c) = "abortStart"
    BY <1>4 DEF AbortStart
  <2>3. {"configure", "start", "requestStop", "join"} \subseteq CallerSteps \ LockedSteps
    BY DEF CallerSteps, LockedSteps, ClosingSteps
  <2> QED BY <2>1, <2>2, <2>3, <1>5, <1>6
<1> QED BY <1>10, <1>11, <1>12, <1>13, <1>14

(* What starting leaves to do: to the worker it starts, and to nobody else.*)
LEMMA StartScripts ==
  /\ \A w \in Workers : Proper(w, Scripts(w)) /\ w \in Threads /\ w \notin Callers
  /\ First(Scripts("producer")) = "check" /\ First(Scripts("mover")) = "pop"
  /\ First(Scripts("consumer")) = "pop" /\ First(Scripts("recorder")) \in {"pop", "idle"}
<1>1. Callers \cap Workers = {} /\ Workers \subseteq Threads
  BY CallersAssumption DEF Threads
<1>2. Proper("producer", <<"check">>) /\ First(<<"check">>) = "check"
  BY <1>1, OneStepScript, StepNames DEF Workers, ProducingSteps
<1>3. \A w \in {"mover", "consumer", "recorder"} : Proper(w, <<"pop">>) /\ First(<<"pop">>) = "pop"
  BY <1>1, OneStepScript, StepNames DEF Workers
<1>4. Proper("recorder", <<>>) /\ First(<<>>) = "idle"
  BY <1>1, EmptyScript DEF Workers
<1> HIDE DEF Proper, First
<1> QED BY <1>1, <1>2, <1>3, <1>4 DEF Scripts, Workers

LEMMA ScriptsReplaced ==
  ASSUME Scripted, NEW s, script' = [t \in Threads |-> s[t]],
         \A t \in Threads : Proper(t, s[t])
  PROVE  Scripted' /\ \A t \in Threads : script'[t] = s[t] /\ Step(t)' = First(s[t])
BY DEF Scripted, Step, Proper

LEMMA StartMoves ==
  ASSUME Scripted, NEW c \in Callers, Start(c)
  PROVE  /\ Scripted' /\ Step(c) = "start" /\ Step(c)' = "idle"
         /\ \A u \in Callers : u # c => script'[u] = script[u] /\ Step(u)' = Step(u)
         /\ Step("producer")' = "check" /\ Step("mover")' = "pop" /\ Step("consumer")' = "pop"
<1> DEFINE s == [t \in Threads |-> IF t = c THEN Rest(c)
                                  ELSE IF t \in Workers THEN Scripts(t) ELSE script[t]]
<1>1. c \in Threads /\ c \notin Workers /\ "start" \in AllSteps
  BY CallersAssumption DEF Threads, AllSteps, CallerSteps
<1>2. Step(c) = "start" /\ script[c] # <<>> /\ script[c][1] = "start"
  BY <1>1, IsAt DEF Start
<1>3. Proper(c, Rest(c)) /\ First(Rest(c)) = "idle"
  <2>1. ~Follows("start", First(Tail(script[c]))) BY DEF Follows, ClosingSteps
  <2>2. Proper(c, script[c]) BY <1>1 DEF Scripted
  <2> QED BY <2>1, <2>2, <1>1, <1>2, RestOfScript DEF Rest
<1>4. \A t \in Threads : s[t] = IF t = c THEN Rest(c)
                                ELSE IF t \in Workers THEN Scripts(t) ELSE script[t]
  OBVIOUS
<1>5. \A t \in Threads : Proper(t, s[t])
  BY <1>3, <1>4, StartScripts DEF Scripted
<1>6. script' = [t \in Threads |-> s[t]] BY DEF Start
<1> HIDE DEF s
<1>7. Scripted' /\ \A t \in Threads : script'[t] = s[t] /\ Step(t)' = First(s[t])
  BY <1>5, <1>6, ScriptsReplaced
<1>8. /\ Step("producer")' = "check" /\ Step("mover")' = "pop" /\ Step("consumer")' = "pop"
      /\ Step(c)' = "idle"
  BY <1>1, <1>3, <1>4, <1>7, StartScripts DEF Workers
<1>9. \A u \in Callers : u # c => script'[u] = script[u] /\ Step(u)' = Step(u)
  BY <1>4, <1>7, StartScripts DEF Step, Threads
<1> QED BY <1>2, <1>7, <1>8, <1>9

LEMMA StartSpawnFailsMoves ==
  ASSUME Scripted, NEW c \in Callers, StartSpawnFails(c)
  PROVE  /\ Scripted' /\ Step(c) = "start" /\ Step(c)' = "stopToken" /\ TakesBack(script'[c])
         /\ \A u \in Callers : u # c => script'[u] = script[u] /\ Step(u)' = Step(u)
         /\ Step("producer")' = Step("producer") /\ Step("mover")' \in {Step("mover"), "pop"}
         /\ Step("consumer")' \in {Step("consumer"), "pop"}
<1> DEFINE a == CloseDown \o <<"abortStart">>
<1>1. PICK spawned \in {{}, {"consumer"}, {"consumer", "mover"}, {"consumer", "mover", "recorder"}} :
        script' = [t \in Threads |-> IF t = c THEN a
                                    ELSE IF t \in spawned THEN Scripts(t) ELSE script[t]]
  BY DEF StartSpawnFails
<1> DEFINE s == [t \in Threads |-> IF t = c THEN a
                                  ELSE IF t \in spawned THEN Scripts(t) ELSE script[t]]
<1>2. /\ c \in Threads /\ c \notin Workers /\ "start" \in AllSteps
      /\ "abortStart" \in StepsOf(c)
  BY CallersAssumption, StepsAre DEF Threads, AllSteps, CallerSteps, LockedSteps
<1>3. Step(c) = "start" BY <1>2, IsAt DEF StartSpawnFails
<1>4. Proper(c, a) /\ First(a) = "stopToken" /\ TakesBack(a)
  BY <1>2, ClosesDownThen
<1>5. spawned \subseteq Workers /\ "producer" \notin spawned
  BY <1>1 DEF Workers
<1> HIDE DEF a
<1>6. \A t \in Threads : s[t] = IF t = c THEN a
                                ELSE IF t \in spawned THEN Scripts(t) ELSE script[t]
  OBVIOUS
<1>7. \A t \in Threads : Proper(t, s[t])
  BY <1>4, <1>5, <1>6, StartScripts DEF Scripted
<1>8. script' = [t \in Threads |-> s[t]] BY <1>1
<1> HIDE DEF s
<1>9. Scripted' /\ \A t \in Threads : script'[t] = s[t] /\ Step(t)' = First(s[t])
  BY <1>7, <1>8, ScriptsReplaced
<1>10. /\ Step("producer")' = Step("producer") /\ Step("mover")' \in {Step("mover"), "pop"}
       /\ Step("consumer")' \in {Step("consumer"), "pop"}
  BY <1>2, <1>5, <1>6, <1>9, StartScripts DEF Workers, Step
<1>11. Step(c)' = "stopToken" /\ TakesBack(script'[c])
  BY <1>2, <1>4, <1>6, <1>9
<1>12. \A u \in Callers : u # c => script'[u] = script[u] /\ Step(u)' = Step(u)
  <2> SUFFICES ASSUME NEW u \in Callers, u # c PROVE script'[u] = script[u] /\ Step(u)' = Step(u)
    OBVIOUS
  <2>1. u \in Threads /\ u \notin spawned BY <1>5, StartScripts DEF Threads
  <2> QED BY <2>1, <1>6, <1>9 DEF Step
<1> QED BY <1>3, <1>9, <1>10, <1>11, <1>12

LEMMA ScriptedKept ==
  ASSUME Scripted, [Next]_vars
  PROVE  Scripted'
<1>1. CASE Producer
  <2>1. "producer" \in Threads BY StepNames DEF Workers
  <2> QED BY <2>1, <1>1, ProducerMoves, ClosingMoves DEF Producer
<1>2. CASE Mover
  <2>1. "mover" \in Threads BY StepNames DEF Workers
  <2> QED BY <2>1, <1>2, MoverMoves, ClosingMoves DEF Mover
<1>3. CASE Consumer
  <2>1. "consumer" \in Threads BY StepNames DEF Workers
  <2> QED BY <2>1, <1>3, ConsumerMoves, ClosingMoves DEF Consumer
<1>4. CASE RecorderPop BY <1>4, RecorderMoves
<1>5. ASSUME NEW c \in Callers, Call(c) \/ Continue(c) PROVE Scripted'
  <2>1. c \in Threads BY StepNames
  <2> QED BY <2>1, <1>5, CallerMoves, StartMoves, StartSpawnFailsMoves, ClosingMoves DEF Continue
<1>6. CASE UNCHANGED vars BY <1>6 DEF vars, Scripted
<1> QED BY <1>1, <1>2, <1>3, <1>4, <1>5, <1>6 DEF Next

-----------------------------------------------------------------------------
(* Types                                                                   *)

LEMMA ConfigTypes ==
  ASSUME NEW c \in Configs
  PROVE  /\ c.max \in Nat /\ c.recorderEnabled \in BOOLEAN
         /\ c.acquisition \in Nat \ {0} /\ c.dsp \in Nat \ {0} /\ c.recorder \in Nat \ {0}
         /\ c.acquisitionPolicy \in Policies /\ c.dspPolicy \in Policies
         /\ c.recorderPolicy \in Policies
BY ConfigsAssumption

LEMMA CountFields ==
  ASSUME NEW n \in Counts
  PROVE  n.received \in Nat /\ n.dropped \in Nat
BY DEF Counts

LEMMA CountUpdates ==
  ASSUME NEW n \in Counts, NEW d \in Nat
  PROVE  /\ [n EXCEPT !.received = d] \in Counts /\ [n EXCEPT !.dropped = d] \in Counts
         /\ [n EXCEPT !.received = d].received = d
         /\ [n EXCEPT !.received = d].dropped = n.dropped
         /\ [n EXCEPT !.dropped = d].dropped = d
         /\ [n EXCEPT !.dropped = d].received = n.received
BY DEF Counts

(* The queues as an action leaves them.                                    *)
LEMMA QueuesTyped ==
  ASSUME TypeOK, NEW q \in {acq, dsp, rec}
  PROVE  /\ q \in QueueRecords(Blocks)
         /\ AfterStop(q) \in QueueRecords(Blocks) /\ AfterAbandon(q) \in QueueRecords(Blocks)
         /\ q.items # <<>> => AfterPop(q) \in QueueRecords(Blocks) /\ Head(q.items) \in Blocks
         /\ \A b \in Blocks : AfterPush(q, b) \in QueueRecords(Blocks)
         /\ Len(q.items) \in Nat
<1>1. q \in QueueRecords(Blocks) BY DEF TypeOK
<1> QED BY <1>1, QueueStops, QueueAbandons, QueuePop, QueuePush, QueueFields

LEMMA TypeKept ==
  ASSUME TypeOK, Scripted, Hands, [Next]_vars
  PROVE  TypeOK'
<1> USE DEF session, queues
<1>1. \A q \in {acq, dsp, rec} :
        /\ q \in QueueRecords(Blocks)
        /\ AfterStop(q) \in QueueRecords(Blocks) /\ AfterAbandon(q) \in QueueRecords(Blocks)
        /\ q.items # <<>> => AfterPop(q) \in QueueRecords(Blocks) /\ Head(q.items) \in Blocks
        /\ \A b \in Blocks : AfterPush(q, b) \in QueueRecords(Blocks)
        /\ Len(q.items) \in Nat
  BY QueuesTyped
<1>2. count \in Counts /\ count.received \in Nat /\ count.dropped \in Nat
  BY CountFields DEF TypeOK
<1>3. \A d \in Nat : [count EXCEPT !.received = d] \in Counts /\ [count EXCEPT !.dropped = d] \in Counts
  BY <1>2, CountUpdates
<1>4. /\ hand \in [Workers -> Nat] /\ Blocks \subseteq Nat /\ 0 \in Nat
      /\ \A w \in Workers, b \in Nat : [hand EXCEPT ![w] = b] \in [Workers -> Nat]
      /\ {"producer", "mover", "consumer"} \subseteq Workers
  BY DEF TypeOK, Blocks, Workers
<1>5. /\ Step("producer") = "push" => hand["producer"] \in Blocks
      /\ Step("mover") \in {"tee", "forward"} => hand["mover"] \in Blocks
  BY <1>4 DEF Hands, Blocks
<1>6. ASSUME NEW t \in Threads, Closing(t) PROVE TypeOK'
  BY <1>1, <1>6 DEF Closing, TypeOK, EngineStates
<1>7. CASE Producer
  <2> HIDE DEF QueueRecords, Counts
  <2>1. CASE ProducerPush
    <3>1. hand["producer"] \in Blocks BY <2>1, <1>5, ProducerMoves
    <3>2. hand' \in [Workers -> Nat] /\ acq' \in QueueRecords(Blocks)
      BY <2>1, <3>1, <1>1, <1>4 DEF ProducerPush
    <3>3. count' \in Counts
      <4>1. count.dropped + 1 \in Nat BY <1>2
      <4> QED BY <2>1, <4>1, <1>2, <1>3 DEF ProducerPush
    <3> QED BY <2>1, <3>2, <3>3 DEF ProducerPush, TypeOK
  <2>2. CASE ProducerAcquire
    <3>1. count.received + 1 \in Nat BY <1>2
    <3>2. hand' \in [Workers -> Nat] /\ count' \in Counts
      BY <2>2, <3>1, <1>3, <1>4 DEF ProducerAcquire
    <3> QED BY <2>2, <3>2 DEF ProducerAcquire, TypeOK
  <2>3. CASE ProducerCheck \/ ProducerPace \/ ProducerInterrupted \/ ProducerDrain
    BY <2>3 DEF ProducerCheck, ProducerPace, ProducerInterrupted, ProducerDrain, DrainStep, TypeOK
  <2>4. "producer" \in Threads BY <1>4 DEF Threads
  <2> QED BY <1>6, <1>7, <2>1, <2>2, <2>3, <2>4 DEF Producer
<1>8. CASE Mover
  <2>1. CASE MoverPop
    <3>1. hand' \in [Workers -> Nat] /\ acq' \in QueueRecords(Blocks)
      BY <2>1, <1>1, <1>4 DEF MoverPop
    <3> QED BY <2>1, <3>1 DEF MoverPop, TypeOK
  <2>2. CASE MoverTee
    <3>1. hand["mover"] \in Blocks BY <2>2, <1>5, MoverMoves
    <3>2. rec' \in QueueRecords(Blocks) BY <2>2, <3>1, <1>1 DEF MoverTee
    <3>3. count.dropped + 1 \in Nat BY <1>2
    <3>4. hand' \in [Workers -> Nat] /\ count' \in Counts
      BY <2>2, <3>3, <1>2, <1>3, <1>4 DEF MoverTee
    <3> QED BY <2>2, <3>2, <3>4 DEF MoverTee, TypeOK
  <2>3. CASE MoverDiscard
    <3>1. hand' \in [Workers -> Nat] /\ trouble' \in SUBSET {"failure", "overflow"}
      BY <2>3, <1>4 DEF MoverDiscard, TypeOK
    <3> QED BY <2>3, <3>1 DEF MoverDiscard, TypeOK
  <2>4. CASE MoverForward
    <3>1. hand["mover"] \in Blocks BY <2>4, <1>5, MoverMoves
    <3>2. dsp' \in QueueRecords(Blocks) /\ hand' \in [Workers -> Nat]
      BY <2>4, <3>1, <1>1, <1>4 DEF MoverForward
    <3>3. count' \in Counts
      <4>1. count.dropped + 1 \in Nat BY <1>2
      <4> QED BY <2>4, <4>1, <1>2, <1>3 DEF MoverForward
    <3> QED BY <2>4, <3>2, <3>3 DEF MoverForward, TypeOK
  <2>5. "mover" \in Threads BY <1>4 DEF Threads
  <2> QED BY <1>6, <1>8, <2>1, <2>2, <2>3, <2>4, <2>5 DEF Mover
<1>9. CASE Consumer
  <2>1. CASE ConsumerPop
    <3>1. hand' \in [Workers -> Nat] /\ dsp' \in QueueRecords(Blocks)
      BY <2>1, <1>1, <1>4 DEF ConsumerPop
    <3> QED BY <2>1, <3>1 DEF ConsumerPop, TypeOK
  <2>2. CASE ConsumerThrows
    <3>1. hand' \in [Workers -> Nat] /\ trouble' \in SUBSET {"failure", "overflow"}
      BY <2>2, <1>4 DEF ConsumerThrows, TypeOK
    <3> QED BY <2>2, <3>1 DEF ConsumerThrows, TypeOK
  <2>3. CASE ConsumerProcess \/ ConsumerFlush
    <3>1. hand' \in [Workers -> Nat]
      BY <2>3, <1>4 DEF ConsumerProcess, ConsumerFlush
    <3> QED BY <2>3, <3>1 DEF ConsumerProcess, ConsumerFlush, TypeOK
  <2>4. CASE MarkError("consumer") BY <2>4 DEF MarkError, TypeOK, EngineStates
  <2>5. "consumer" \in Threads BY <1>4 DEF Threads
  <2> QED BY <1>6, <1>9, <2>1, <2>2, <2>3, <2>4, <2>5 DEF Consumer
<1>10. CASE RecorderPop
  <2>1. rec' \in QueueRecords(Blocks) BY <1>10, <1>1 DEF RecorderPop
  <2> QED BY <1>10, <2>1 DEF RecorderPop, TypeOK
<1>11. ASSUME NEW c \in Callers, Call(c) \/ Continue(c) PROVE TypeOK'
  <2>1. CASE Configure(c)
    <3>1. PICK new \in Configs :
            /\ config' = new
            /\ acq' = NewQueue(new.acquisition, new.acquisitionPolicy)
            /\ dsp' = NewQueue(new.dsp, new.dspPolicy)
            /\ rec' = NewQueue(new.recorder, new.recorderPolicy)
      BY <2>1 DEF Configure
    <3>2. /\ acq' \in QueueRecords(Blocks) /\ dsp' \in QueueRecords(Blocks)
          /\ rec' \in QueueRecords(Blocks)
      BY <3>1, ConfigTypes, QueueStarts
    <3>3. count' \in Counts BY <2>1 DEF Configure, Counts
    <3> QED BY <2>1, <3>1, <3>2, <3>3 DEF Configure, TypeOK, EngineStates
  <2>2. CASE JoinWorkers(c)
    <3>1. count.dropped + Len(acq.items) + Len(dsp.items) \in Nat BY <1>1, <1>2
    <3>2. count' \in Counts BY <2>2, <3>1, <1>3 DEF JoinWorkers
    <3> QED BY <2>2, <3>2, <1>1 DEF JoinWorkers, TypeOK, EngineStates
  <2>3. CASE Refused(c) \/ Start(c) \/ StartSpawnFails(c) \/ AbortStart(c)
    BY <2>3 DEF Refused, Start, StartSpawnFails, AbortStart, TypeOK, EngineStates
  <2>4. CASE RequestStop(c) \/ Release(c) \/ Join(c) \/ Call(c)
    BY <2>4 DEF RequestStop, Release, Join, Call, TypeOK, EngineStates
  <2>5. c \in Threads BY DEF Threads
  <2> QED BY <1>6, <1>11, <2>1, <2>2, <2>3, <2>4, <2>5 DEF Continue
<1>12. CASE UNCHANGED vars BY <1>12 DEF vars, TypeOK
<1> QED BY <1>7, <1>8, <1>9, <1>10, <1>11, <1>12 DEF Next

-----------------------------------------------------------------------------
(* The lock and the sessions                                               *)

WorkerStep == Producer \/ Mover \/ Consumer \/ RecorderPop
SamePolicies ==
  acq'.policy = acq.policy /\ dsp'.policy = dsp.policy /\ rec'.policy = rec.policy

LEMMA PoliciesStay ==
  ASSUME TypeOK, NEW q \in {acq, dsp, rec}
  PROVE  /\ AfterStop(q).policy = q.policy /\ AfterAbandon(q).policy = q.policy
         /\ q.items # <<>> => AfterPop(q).policy = q.policy
         /\ \A b \in Blocks : AfterPush(q, b).policy = q.policy
<1>1. q \in QueueRecords(Blocks) BY DEF TypeOK
<1> QED BY <1>1, QueueStops, QueueAbandons, QueuePop, QueuePush

(* Closing down leaves the session in one of its states, and its queues    *)
(* with their policies.                                                    *)
LEMMA ClosingKeeps ==
  ASSUME TypeOK, NEW t \in Threads, Closing(t)
  PROVE  /\ SamePolicies
         /\ state \in InSession => state' \in InSession
         /\ UNCHANGED <<lock, config, generation, hand, count, faults, asked, trouble>>
         /\ state' # state => state = "Running" /\ state' = "Stopping"
<1>1. \A q \in {acq, dsp, rec} : AfterStop(q).policy = q.policy BY PoliciesStay
<1>2. SamePolicies BY <1>1 DEF Closing, SamePolicies, queues
<1> QED BY <1>2 DEF Closing, InSession

(* No worker touches what belongs to the callers.                          *)
LEMMA WorkersLeaveCallers ==
  ASSUME Scripted, WorkerStep
  PROVE  /\ UNCHANGED <<lock, config, generation, asked>> /\ ~Idle
         /\ \A c \in Callers : script'[c] = script[c] /\ Step(c)' = Step(c)
<1>1. \A c \in Callers : c \notin Workers BY StepsAre
<1>2. PICK w \in Workers : Step(w) # "idle" /\ \E s : script' = [script EXCEPT ![w] = s]
  <2>1. \A w \in Workers : Advance(w) => \E s : script' = [script EXCEPT ![w] = s]
    BY DEF Advance, Goto
  <2>2. {"producer", "mover", "consumer", "recorder"} \subseteq Threads /\ "idle" \notin ClosingSteps
    BY StepNames DEF Workers, ClosingSteps
  <2>3. CASE Producer
    <3>1. Step("producer") # "idle"
      BY <2>2, <2>3, ProducerMoves, ClosingMoves DEF Producer
    <3>2. \E s : script' = [script EXCEPT !["producer"] = s]
      BY <2>1, <2>3 DEF Producer, ProducerCheck, ProducerPace, ProducerAcquire, ProducerInterrupted,
           ProducerPush, ProducerDrain, DrainStep, Goto, Closing, Workers
    <3> QED BY <3>1, <3>2 DEF Workers
  <2>4. CASE Mover
    <3>1. Step("mover") # "idle"
      BY <2>2, <2>4, MoverMoves, ClosingMoves DEF Mover
    <3>2. \E s : script' = [script EXCEPT !["mover"] = s]
      BY <2>1, <2>4 DEF Mover, MoverPop, MoverTee, MoverDiscard, MoverForward, Goto, Closing, Workers
    <3> QED BY <3>1, <3>2 DEF Workers
  <2>5. CASE Consumer
    <3>1. Step("consumer") # "idle"
      BY <2>2, <2>5, ConsumerMoves, ClosingMoves DEF Consumer
    <3>2. \E s : script' = [script EXCEPT !["consumer"] = s]
      BY <2>1, <2>5 DEF Consumer, ConsumerPop, ConsumerProcess, ConsumerFlush, ConsumerThrows,
           MarkError, Goto, Closing, Workers
    <3> QED BY <3>1, <3>2 DEF Workers
  <2>6. CASE RecorderPop
    <3>1. Step("recorder") # "idle" BY <2>6, RecorderMoves
    <3>2. \E s : script' = [script EXCEPT !["recorder"] = s]
      <4>1. script = [script EXCEPT !["recorder"] = script["recorder"]]
        BY DEF Scripted
      <4> QED BY <2>6, <4>1 DEF RecorderPop, Goto
    <3> QED BY <3>1, <3>2 DEF Workers
  <2> QED BY <2>3, <2>4, <2>5, <2>6 DEF WorkerStep
<1>3. PICK s : script' = [script EXCEPT ![w] = s]
  BY <1>2
<1>4. \A c \in Callers : script'[c] = script[c]
  BY <1>1, <1>3 DEF Scripted, Threads
<1>5. \A c \in Callers : Step(c)' = Step(c) BY <1>4 DEF Step
<1>6. UNCHANGED <<lock, config, generation, asked>>
  BY DEF WorkerStep, Producer, Mover, Consumer, RecorderPop, ProducerCheck, ProducerPace,
         ProducerAcquire, ProducerInterrupted, ProducerPush, ProducerDrain, DrainStep, MoverPop,
         MoverTee, MoverDiscard, MoverForward, ConsumerPop, ConsumerProcess, ConsumerFlush,
         ConsumerThrows, MarkError, Closing, session
<1> QED BY <1>2, <1>4, <1>5, <1>6 DEF Idle

LEMMA WorkersKeepSessions ==
  ASSUME TypeOK, Scripted, Hands, WorkerStep
  PROVE  SamePolicies /\ (state \in InSession => state' \in InSession)
<1>1. \A q \in {acq, dsp, rec} :
        /\ q.items # <<>> => AfterPop(q).policy = q.policy
        /\ \A b \in Blocks : AfterPush(q, b).policy = q.policy
  BY PoliciesStay
<1>2. /\ Step("producer") = "push" => hand["producer"] \in Blocks
      /\ Step("mover") \in {"tee", "forward"} => hand["mover"] \in Blocks
  <2>1. hand["producer"] \in Nat /\ hand["mover"] \in Nat
    BY DEF TypeOK, Workers
  <2> QED BY <2>1 DEF Hands, Blocks
<1>3. Workers \subseteq Threads BY StepNames
<1> HIDE DEF Hands, TypeOK
<1> USE DEF session, queues
<1>4. CASE Producer
  <2>1. CASE ProducerPush
    <3>1. hand["producer"] \in Blocks BY <2>1, <1>2, ProducerMoves
    <3> QED BY <2>1, <3>1, <1>1 DEF ProducerPush, SamePolicies
  <2>2. CASE Closing("producer") BY <1>3, <2>2, ClosingKeeps DEF Workers
  <2>3. CASE ~Closing("producer")
    BY <1>4, <2>1, <2>3 DEF Producer, ProducerCheck, ProducerPace,
            ProducerAcquire, ProducerInterrupted, ProducerDrain, DrainStep, SamePolicies
  <2> QED BY <2>2, <2>3
<1>5. CASE Mover
  <2>1. CASE MoverPop BY <2>1, <1>1 DEF MoverPop, SamePolicies
  <2>2. CASE MoverTee
    <3>1. hand["mover"] \in Blocks BY <2>2, <1>2, MoverMoves
    <3> QED BY <2>2, <3>1, <1>1 DEF MoverTee, SamePolicies
  <2>3. CASE MoverForward
    <3>1. hand["mover"] \in Blocks BY <2>3, <1>2, MoverMoves
    <3> QED BY <2>3, <3>1, <1>1 DEF MoverForward, SamePolicies
  <2>4. CASE Closing("mover") BY <1>3, <2>4, ClosingKeeps DEF Workers
  <2>5. CASE ~Closing("mover")
    BY <1>5, <2>1, <2>2, <2>3, <2>5 DEF Mover, MoverDiscard, SamePolicies
  <2> QED BY <2>4, <2>5
<1>6. CASE Consumer
  <2>1. CASE ConsumerPop BY <2>1, <1>1 DEF ConsumerPop, SamePolicies
  <2>2. CASE MarkError("consumer")
    BY <2>2 DEF MarkError, SamePolicies, InSession
  <2>3. CASE Closing("consumer") BY <1>3, <2>3, ClosingKeeps DEF Workers
  <2>4. CASE ~Closing("consumer")
    BY <1>6, <2>1, <2>2, <2>4 DEF Consumer, ConsumerProcess, ConsumerFlush,
            ConsumerThrows, SamePolicies
  <2> QED BY <2>3, <2>4
<1>7. CASE RecorderPop BY <1>7, <1>1 DEF RecorderPop, SamePolicies
<1> QED BY <1>4, <1>5, <1>6, <1>7 DEF WorkerStep

LEMMA LockingKept ==
  ASSUME TypeOK, Scripted, Locking, [Next]_vars
  PROVE  Locking'
<1>1. CASE WorkerStep BY <1>1, WorkersLeaveCallers DEF Locking
<1>2. ASSUME NEW c \in Callers, Call(c) \/ Continue(c) PROVE Locking'
  <2>1. SUFFICES ASSUME NEW u \in Callers PROVE (lock = u <=> Step(u) \in LockedSteps)'
    BY DEF Locking
  <2>2. /\ c \in Threads /\ u \in Threads /\ "free" \notin Callers
        /\ \A t \in Callers : lock = t <=> Step(t) \in LockedSteps
    BY CallersAssumption DEF Locking, Threads
  <2>3. /\ "idle" \notin LockedSteps /\ "join" \notin LockedSteps /\ "stopToken" \in LockedSteps
        /\ "start" \notin LockedSteps /\ "requestStop" \notin LockedSteps
        /\ "joinWorkers" \in LockedSteps /\ "configure" \notin LockedSteps
        /\ "abortStart" \in LockedSteps /\ "release" \in LockedSteps
        /\ ClosingSteps \subseteq LockedSteps
    BY DEF LockedSteps, ClosingSteps
  <2>4. CASE Call(c) BY <2>2, <2>3, <2>4, CallerMoves DEF Call, Moves, session
  <2>5. CASE Configure(c) \/ Refused(c)
    BY <2>2, <2>3, <2>5, CallerMoves DEF Configure, Refused, Moves, session
  <2>6. CASE Start(c) BY <2>2, <2>3, <2>6, StartMoves DEF Start
  <2>7. CASE StartSpawnFails(c)
    <3>1. lock = "free" /\ lock' = c BY <2>7 DEF StartSpawnFails, Ready
    <3>2. Step(c)' = "stopToken" /\ (u # c => Step(u)' = Step(u))
      BY <2>7, StartSpawnFailsMoves
    <3> QED BY <2>2, <2>3, <3>1, <3>2
  <2>8. CASE AbortStart(c) \/ Release(c) \/ JoinWorkers(c)
    BY <2>2, <2>3, <2>8, CallerMoves DEF AbortStart, Release, JoinWorkers, Moves
  <2>9. CASE RequestStop(c) \/ Join(c)
    <3>1. CASE RequestStop(c)
      <4>1. lock = "free" /\ lock' = IF state = "Running" THEN c ELSE lock
        BY <3>1 DEF RequestStop, Ready
      <4>2. /\ Step(c) = "requestStop"
            /\ Step(c)' \in IF state = "Running" THEN {"stopToken"} ELSE {"idle", "join"}
            /\ u # c => Step(u)' = Step(u)
        BY <2>2, <3>1, CallerMoves DEF Moves
      <4> QED BY ONLY <2>2, <2>3, <4>1, <4>2
    <3>2. CASE Join(c)
      <4>1. lock = "free" /\ lock' = IF state = "Stopped" THEN lock ELSE c
        BY <3>2 DEF Join, Ready
      <4>2. /\ Step(c) = "join" /\ Step(c)' = IF state = "Stopped" THEN "idle" ELSE "joinWorkers"
            /\ u # c => Step(u)' = Step(u)
        BY <2>2, <3>2, CallerMoves DEF Moves
      <4> QED BY ONLY <2>2, <2>3, <4>1, <4>2
    <3> QED BY <2>9, <3>1, <3>2
  <2>10. CASE Closing(c) BY <2>2, <2>3, <2>10, ClosingMoves DEF Closing, Moves
  <2> QED BY <1>2, <2>4, <2>5, <2>6, <2>7, <2>8, <2>9, <2>10 DEF Continue
<1>3. CASE UNCHANGED vars BY <1>3 DEF vars, Locking, Step, session
<1> QED BY <1>1, <1>2, <1>3 DEF Next, WorkerStep

(* What the callers' steps do to the workers: only starting moves them.    *)
LEMMA CallersLeaveWorkers ==
  ASSUME Scripted, NEW c \in Callers, Call(c) \/ Continue(c), ~Start(c), ~StartSpawnFails(c)
  PROVE  /\ \A w \in Workers : Step(w)' = Step(w)
         /\ Idle' <=> Idle
         /\ \A t \in Threads : t # c => Step(t)' = Step(t)
<1>1. c \in Threads /\ c \notin Workers /\ Workers \subseteq Threads
  BY StepsAre DEF Threads
<1>2. \E b : Moves(c, b) BY <1>1, CallerMoves, ClosingMoves DEF Continue
<1>3. \A t \in Threads : t # c => Step(t)' = Step(t) BY <1>2 DEF Moves
<1>4. \A w \in Workers : Step(w)' = Step(w) BY <1>1, <1>3
<1> QED BY <1>3, <1>4 DEF Idle

LEMMA SessionsKept ==
  ASSUME TypeOK, Scripted, Hands, Locking, Sessions, [Next]_vars
  PROVE  Sessions'
<1> USE DEF session, queues
<1>1. /\ "free" \notin Callers /\ lock \in Callers \cup {"free"} /\ state \in EngineStates
      /\ InSession = EngineStates \ {"Created", "Configured", "Stopped"}
  BY CallersAssumption DEF TypeOK, InSession, EngineStates
<1>2. ASSUME state \in InSession, state' \in InSession, SamePolicies, config' = config
      PROVE  Sessions'
  <2>1. state # "Created" /\ state' \notin {"Created", "Configured"}
    BY <1>2 DEF InSession
  <2> QED BY <1>2, <2>1 DEF Sessions, SamePolicies
<1>3. CASE WorkerStep
  <2>1. ~Idle /\ config' = config BY <1>3, WorkersLeaveCallers
  <2>2. SamePolicies /\ state \in InSession /\ state' \in InSession
    BY <1>3, <2>1, WorkersKeepSessions DEF Sessions
  <2> QED BY <2>1, <2>2, <1>2
<1>4. ASSUME NEW c \in Callers, Call(c) \/ Continue(c) PROVE Sessions'
  <2>1. ~Start(c) /\ ~StartSpawnFails(c) => (Idle' <=> Idle)
    BY <1>4, CallersLeaveWorkers
  <2>2. Step(c) \in LockedSteps => lock = c /\ lock # "free" /\ state \in InSession
    BY <1>1 DEF Locking, Sessions
  <2>3. /\ "release" \in LockedSteps /\ "abortStart" \in LockedSteps
        /\ "joinWorkers" \in LockedSteps /\ ClosingSteps \subseteq LockedSteps
    BY DEF LockedSteps
  <2>4. CASE Configure(c)
    <3>1. ~Start(c) /\ ~StartSpawnFails(c)
      BY <2>4, CallerMoves, StartMoves, StartSpawnFailsMoves
    <3>2. PICK new \in Configs :
            /\ config' = new
            /\ acq' = NewQueue(new.acquisition, new.acquisitionPolicy)
            /\ dsp' = NewQueue(new.dsp, new.dspPolicy)
            /\ rec' = NewQueue(new.recorder, new.recorderPolicy)
      BY <2>4 DEF Configure
    <3>3. /\ acq'.policy = config'.acquisitionPolicy /\ dsp'.policy = config'.dspPolicy
          /\ rec'.policy = config'.recorderPolicy
          /\ ~acq'.stop /\ ~dsp'.stop /\ ~rec'.stop /\ acq'.items = <<>> /\ dsp'.items = <<>>
          /\ acq'.popped = 0 /\ dsp'.popped = 0 /\ rec'.pushed = 0 /\ rec'.dropped = 0
      BY <3>2 DEF NewQueue
    <3>4. /\ state \notin InSession /\ state' = "Configured" /\ lock' = "free" /\ trouble' = {}
          /\ ~stop' /\ ~poolStop' /\ count'.received = 0 /\ count'.dropped = 0
      BY <2>4 DEF Configure, Ready, InSession
    <3>5. Idle' BY <3>1, <3>4, <2>1 DEF Sessions
    <3> QED BY <3>3, <3>4, <3>5 DEF Sessions
  <2>5. CASE Start(c) \/ StartSpawnFails(c)
    <3>1. /\ state = "Configured" /\ state' = "Running" /\ config' = config
          /\ acq' = acq /\ dsp' = dsp /\ rec' = rec
      BY <2>5 DEF Start, StartSpawnFails
    <3>2. state' \in InSession /\ state' \notin {"Created", "Configured"}
      BY <3>1 DEF InSession
    <3> QED BY <3>1, <3>2 DEF Sessions
  <2>6. CASE Closing(c)
    <3>1. c \in Threads BY DEF Threads
    <3>2. state \in InSession BY <3>1, <2>2, <2>3, <2>6, ClosingMoves
    <3> QED BY <3>1, <3>2, <2>6, <1>2, ClosingKeeps
  <2>7. CASE JoinWorkers(c)
    <3>1. state \in InSession /\ lock = c BY <2>2, <2>3, <2>7, CallerMoves
    <3>2. SamePolicies /\ config' = config /\ state' = "Stopped" /\ lock' = "free"
      BY <2>7, PoliciesStay DEF JoinWorkers, SamePolicies
    <3>3. WorkersDone BY <2>7 DEF JoinWorkers
    <3>4. Idle BY <3>3 DEF WorkersDone, Idle, Step, First
    <3>5. Idle'
      <4>1. ~Start(c) /\ ~StartSpawnFails(c)
        BY <2>7 DEF JoinWorkers, Start, StartSpawnFails, At
      <4> QED BY <4>1, <3>4, <2>1
    <3>6. state # "Created" BY <3>1 DEF InSession
    <3> QED BY <3>2, <3>5, <3>6 DEF Sessions, SamePolicies
  <2>8. CASE AbortStart(c) \/ Release(c)
    <3>1. state \in InSession BY <2>2, <2>3, <2>8, CallerMoves
    <3>2. state' \in InSession /\ SamePolicies /\ config' = config
      BY <2>8, <3>1 DEF AbortStart, Release, SamePolicies, InSession
    <3> QED BY <3>1, <3>2, <1>2
  <2>9. CASE RequestStop(c) \/ Join(c)
    <3>1. /\ ~Start(c) /\ ~StartSpawnFails(c) /\ SamePolicies /\ config' = config
      BY <2>9 DEF RequestStop, Join, SamePolicies, Start, StartSpawnFails, At
    <3>2. CASE state \in InSession
      <4>1. state' \in InSession BY <2>9, <3>2 DEF RequestStop, Join, InSession
      <4> QED BY <4>1, <3>1, <3>2, <1>2
    <3>3. CASE state \notin InSession
      <4>1. state = "Stopped" /\ state' = state /\ lock' = lock
        BY <2>9, <3>3 DEF RequestStop, Join, InSession
      <4> QED BY <4>1, <3>1, <2>1 DEF Sessions, SamePolicies
    <3> QED BY <3>2, <3>3
  <2>10. CASE Refused(c) \/ Call(c)
    <3>1. UNCHANGED <<session, stop, poolStop, queues, count, trouble>>
      BY <2>10 DEF Refused, Call
    <3>2. CASE Start(c) \/ StartSpawnFails(c) BY <2>5, <3>2
    <3>3. CASE ~Start(c) /\ ~StartSpawnFails(c)
      BY <2>1, <3>1, <3>3 DEF Sessions
    <3> QED BY <3>2, <3>3
  <2> QED BY <1>4, <2>4, <2>5, <2>6, <2>7, <2>8, <2>9, <2>10 DEF Continue
<1>5. CASE UNCHANGED vars BY <1>5 DEF vars, Sessions, Idle, Step
<1> QED BY <1>3, <1>4, <1>5 DEF Next, WorkerStep

-----------------------------------------------------------------------------
(* Failures and stops                                                      *)

(* While a caller takes a start back, its next step closes down or aborts. *)
LEMMA TakingBack ==
  ASSUME Scripted, NEW c \in Callers, TakesBack(script[c])
  PROVE  Step(c) \in ClosingSteps \cup {"abortStart"}
<1>1. c \in Threads /\ Proper(c, script[c]) BY DEF Scripted, Threads
<1>2. Len(script[c]) \in Nat \ {0} /\ Step(c) = script[c][1]
  BY <1>1, FirstStep DEF TakesBack, Step
<1>3. CASE Len(script[c]) = 1 BY <1>2, <1>3 DEF TakesBack
<1>4. CASE Len(script[c]) # 1 BY <1>2, <1>4 DEF TakesBack
<1> QED BY <1>3, <1>4

LEMMA FailureKnownKept ==
  ASSUME TypeOK, Scripted, Locking, Sessions, FailureKnown, [Next]_vars
  PROVE  FailureKnown'
<1> USE DEF session, queues
<1>1. ASSUME WorkerStep PROVE FailureKnown'
  <2>1. /\ UNCHANGED <<lock, config, asked>> /\ state \in InSession
        /\ \A c \in Callers : script'[c] = script[c]
    BY <1>1, WorkersLeaveCallers DEF Sessions
  <2>2. Step("consumer") = "markError" =>
          Step("consumer")' = "markError" \/ state' = "Error"
    <3>1. "consumer" \in Threads /\ "producer" # "consumer" /\ "mover" # "consumer"
          /\ {"producer", "mover", "recorder"} \subseteq Threads
      BY StepNames DEF Workers
    <3>2. CASE Producer \/ Mover \/ RecorderPop
      <4>1. Step("consumer")' = Step("consumer")
        BY <3>1, <3>2, ProducerMoves, MoverMoves, RecorderMoves, ClosingMoves DEF Producer, Mover, Moves
      <4> QED BY <4>1
    <3>3. CASE Consumer
      <4>1. Step("consumer") = "markError" => MarkError("consumer")
        BY <3>1, <3>3, ConsumerMoves, ClosingMoves DEF Consumer, ClosingSteps
      <4>2. MarkError("consumer") => state' = "Error"
        BY <2>1 DEF MarkError, InSession
      <4> QED BY <4>1, <4>2
    <3> QED BY <1>1, <3>2, <3>3 DEF WorkerStep
  <2>3. state = "Error" => state' = "Error"
    <3>1. Workers \subseteq Threads BY StepNames
    <3>2. \A w \in Workers : Closing(w) /\ state = "Error" => state' = "Error"
      BY <3>1, ClosingKeeps
    <3> QED BY <1>1, <3>2 DEF WorkerStep, Producer, Mover, Consumer, RecorderPop, ProducerCheck,
              ProducerPace, ProducerAcquire, ProducerInterrupted, ProducerPush, ProducerDrain,
              DrainStep, MoverPop, MoverTee, MoverDiscard, MoverForward, ConsumerPop,
              ConsumerProcess, ConsumerFlush, ConsumerThrows, MarkError, Workers
  <2>4. "failure" \in trouble' => "failure" \in trouble \/ Step("consumer")' = "markError"
    <3>1. CASE ConsumerThrows BY <3>1, ConsumerMoves DEF Moves
    <3>2. CASE ~ConsumerThrows
      BY <1>1, <3>2 DEF WorkerStep, Producer, Mover, Consumer, RecorderPop, ProducerCheck,
         ProducerPace, ProducerAcquire, ProducerInterrupted, ProducerPush, ProducerDrain,
         DrainStep, MoverPop, MoverTee, MoverDiscard, MoverForward, ConsumerPop,
         ConsumerProcess, ConsumerFlush, MarkError, Closing
    <3> QED BY <3>1, <3>2
  <2>5. state # "Stopped" BY <2>1 DEF InSession
  <2> QED BY <2>1, <2>2, <2>3, <2>4, <2>5 DEF FailureKnown
<1>2. ASSUME NEW c \in Callers, Call(c) \/ Continue(c) PROVE FailureKnown'
  <2>1. /\ c \in Threads /\ c # "consumer" /\ "consumer" \in Threads /\ "free" \notin Callers
    BY CallersAssumption, StepsAre DEF Threads, Workers
  <2>2. CASE Configure(c) BY <2>2 DEF Configure, FailureKnown
  <2>3. CASE Start(c) BY <2>3 DEF Start, FailureKnown, Sessions
  <2>4. CASE StartSpawnFails(c)
    <3>1. lock' = c BY <2>4 DEF StartSpawnFails
    <3> QED BY <2>4, <3>1, StartSpawnFailsMoves DEF FailureKnown
  <2>5. ASSUME ~Configure(c), ~Start(c), ~StartSpawnFails(c) PROVE FailureKnown'
    <3> SUFFICES ASSUME "failure" \in trouble' PROVE FailureKnown'
      BY DEF FailureKnown
    <3>1. trouble' = trouble
      BY <1>2, <2>5 DEF Continue, Call, Refused, AbortStart, RequestStop, Release, Join, JoinWorkers,
         Closing
    <3>2. Step("consumer")' = Step("consumer")
      BY <1>2, <2>1, <2>5, CallersLeaveWorkers
    <3>3. state \in {"Error", "Stopped"} => state' \in {"Error", "Stopped"}
      <4>1. Closing(c) /\ state \in {"Error", "Stopped"} => state' = state
        BY <2>1, ClosingKeeps
      <4> QED BY <1>2, <2>5, <4>1 DEF Continue, Call, Refused, AbortStart, RequestStop, Release, Join,
                JoinWorkers
    <3>4. ASSUME NEW u \in Callers, lock = u, TakesBack(script[u]) PROVE FailureKnown'
      <4>1. Step(u) \in ClosingSteps \cup {"abortStart"} /\ lock # "free"
        BY <2>1, <3>4, TakingBack
      <4>2. CASE c = u
        <5>1. CASE AbortStart(c) BY <5>1 DEF AbortStart, FailureKnown
        <5>2. CASE Closing(c)
          <6>1. TakesBack(script'[u]) /\ lock' = u
            BY <2>1, <3>4, <4>2, <5>2, ClosingMoves, ClosingKeeps
          <6> QED BY <6>1 DEF FailureKnown
        <5>3. CASE ~AbortStart(c) /\ ~Closing(c)
          <6>1. Step(c) \in {"idle", "release", "joinWorkers"}
            BY <1>2, <2>5, <4>1, <5>3, CallerMoves DEF Continue, Refused, RequestStop, Join, Ready
          <6> QED BY <4>1, <4>2, <6>1 DEF ClosingSteps
        <5> QED BY <5>1, <5>2, <5>3
      <4>3. CASE c # u
        <5>1. Step(c) \notin LockedSteps BY <3>4, <4>3 DEF Locking
        <5>2. Call(c)
          BY <1>2, <2>1, <2>5, <4>1, <5>1, CallerMoves, ClosingMoves
             DEF Continue, Refused, RequestStop, Join, Ready, LockedSteps
        <5>3. script'[u] = script[u] /\ lock' = u
          BY <3>4, <4>3, <5>2 DEF Call, Goto, Scripted, Threads
        <5> QED BY <3>4, <5>3 DEF FailureKnown
      <4> QED BY <4>2, <4>3
    <3> QED BY <3>1, <3>2, <3>3, <3>4 DEF FailureKnown
  <2> QED BY <2>2, <2>3, <2>4, <2>5
<1>3. CASE UNCHANGED vars BY <1>3 DEF vars, FailureKnown, Step
<1> QED BY <1>1, <1>2, <1>3 DEF Next, WorkerStep

LEMMA ReasonsKept ==
  ASSUME TypeOK, Scripted, Locking, Sessions, ClosersHaveReasons, [Next]_vars
  PROVE  ClosersHaveReasons'
<1> USE DEF session, queues
<1>1. CASE WorkerStep
  <2>1. asked' = asked /\ \A c \in Callers : Step(c)' = Step(c)
    BY <1>1, WorkersLeaveCallers
  <2>2. trouble # {} => trouble' # {}
    BY <1>1 DEF WorkerStep, Producer, Mover, Consumer, RecorderPop, ProducerCheck, ProducerPace,
       ProducerAcquire, ProducerInterrupted, ProducerPush, ProducerDrain, DrainStep, MoverPop,
       MoverTee, MoverDiscard, MoverForward, ConsumerPop, ConsumerProcess, ConsumerFlush,
       ConsumerThrows, MarkError, Closing
  <2>3. Step("consumer")' \in ClosingSteps \cup {"markError"} => trouble' # {}
    <3>1. "consumer" \in Threads /\ {"producer", "mover", "recorder"} \subseteq Threads
      BY StepNames DEF Workers
    <3>2. CASE Consumer
      <4>1. CASE ConsumerThrows BY <4>1 DEF ConsumerThrows
      <4>2. CASE MarkError("consumer") \/ Closing("consumer")
        BY <2>2, <3>1, <4>2, ConsumerMoves, ClosingMoves DEF ClosersHaveReasons
      <4>3. CASE ConsumerPop \/ ConsumerProcess \/ ConsumerFlush
        BY <4>3, ConsumerMoves DEF Moves, ClosingSteps
      <4> QED BY <3>2, <4>1, <4>2, <4>3 DEF Consumer
    <3>3. CASE Producer \/ Mover \/ RecorderPop
      <4>1. Step("consumer")' = Step("consumer")
        BY <3>1, <3>3, ProducerMoves, MoverMoves, RecorderMoves, ClosingMoves DEF Producer, Mover, Moves
      <4> QED BY <4>1, <2>2 DEF ClosersHaveReasons
    <3> QED BY <1>1, <3>2, <3>3 DEF WorkerStep
  <2> QED BY <2>1, <2>2, <2>3 DEF ClosersHaveReasons
<1>2. ASSUME NEW c \in Callers, Call(c) \/ Continue(c) PROVE ClosersHaveReasons'
  <2>1. /\ c \in Threads /\ c # "consumer" /\ "consumer" \in Threads /\ "free" \notin Callers
        /\ "consumer" \in Workers /\ Callers \subseteq Threads
        /\ ClosingSteps \subseteq LockedSteps
    BY CallersAssumption, StepsAre DEF Threads, Workers, LockedSteps
  <2>2. CASE Configure(c)
    <3>1. lock = "free" /\ state \notin InSession
      BY <2>2 DEF Configure, Ready, InSession
    <3>2. Step("consumer") = "idle" /\ \A u \in Callers : Step(u) \notin ClosingSteps
      BY <2>1, <3>1 DEF Sessions, Locking, Idle
    <3>3. Moves(c, "idle") BY <2>2, CallerMoves
    <3>4. "idle" \notin ClosingSteps \cup {"markError"} BY DEF ClosingSteps
    <3> QED BY <2>1, <3>2, <3>3, <3>4 DEF Moves, ClosersHaveReasons
  <2>3. CASE Start(c)
    <3>1. asked' = asked /\ trouble' = trouble BY <2>3 DEF Start
    <3>2. Step(c)' = "idle" /\ Step("consumer")' = "pop" BY <2>3, StartMoves
    <3>3. \A u \in Callers : u # c => Step(u)' = Step(u) BY <2>3, StartMoves
    <3>4. {"idle", "pop"} \cap (ClosingSteps \cup {"markError"}) = {}
      BY DEF ClosingSteps
    <3> QED BY <3>1, <3>2, <3>3, <3>4 DEF ClosersHaveReasons
  <2>4. CASE StartSpawnFails(c)
    <3>1. trouble' = {"failure"} BY <2>4 DEF StartSpawnFails
    <3> QED BY <3>1 DEF ClosersHaveReasons
  <2>5. ASSUME ~Configure(c), ~Start(c), ~StartSpawnFails(c) PROVE ClosersHaveReasons'
    <3>1. trouble' = trouble /\ (asked => asked')
      BY <1>2, <2>5 DEF Continue, Call, Refused, AbortStart, RequestStop, Release, Join, JoinWorkers,
         Closing
    <3>2. \A t \in Threads : t # c => Step(t)' = Step(t)
      BY <1>2, <2>5, CallersLeaveWorkers
    <3>3. Step(c)' \in ClosingSteps => asked' \/ trouble' # {}
      <4>1. CASE Closing(c)
        BY <2>1, <3>1, <4>1, ClosingMoves DEF ClosersHaveReasons
      <4>2. CASE RequestStop(c)
        <5>1. state = "Running" => asked' BY <4>2 DEF RequestStop
        <5>2. state # "Running" => Step(c)' \in {"idle", "join"}
          BY <4>2, CallerMoves
        <5> QED BY <5>1, <5>2 DEF ClosingSteps
      <4>3. CASE ~Closing(c) /\ ~RequestStop(c)
        <5>1. Step(c)' \notin ClosingSteps
          <6>1. "idle" \notin ClosingSteps /\ "join" \notin ClosingSteps
                /\ "joinWorkers" \notin ClosingSteps
            BY DEF ClosingSteps
          <6> QED BY <1>2, <2>1, <2>5, <4>3, <6>1, CallerMoves DEF Continue, Moves
        <5> QED BY <5>1
      <4> QED BY <4>1, <4>2, <4>3
    <3> QED BY <2>1, <3>1, <3>2, <3>3 DEF ClosersHaveReasons
  <2> QED BY <2>2, <2>3, <2>4, <2>5
<1>3. CASE UNCHANGED vars BY <1>3 DEF vars, ClosersHaveReasons, Step
<1> QED BY <1>1, <1>2, <1>3 DEF Next, WorkerStep

-----------------------------------------------------------------------------
(* The blocks on their way                                                 *)

Flow == Hands /\ OverflowEndsTheMover /\ RecorderFollows /\ BlocksConserved

(* What the flow of the blocks depends on.                                 *)
SameFlow ==
  /\ hand'["producer"] = hand["producer"] /\ hand'["mover"] = hand["mover"]
  /\ count' = count /\ config' = config
  /\ "overflow" \in trouble' <=> "overflow" \in trouble
  /\ state' = "Created" <=> state = "Created"
  /\ acq'.items = acq.items /\ acq'.popped = acq.popped
  /\ dsp'.items = dsp.items /\ dsp'.popped = dsp.popped
  /\ rec'.pushed = rec.pushed /\ rec'.dropped = rec.dropped
  /\ rec.stop => rec'.stop
  /\ Step("producer") = "push" <=> Step("producer")' = "push"
  /\ Step("mover") = "tee" <=> Step("mover")' = "tee"
  /\ Step("mover") = "idle" <=> Step("mover")' = "idle"
  /\ Step("mover") = "pop" <=> Step("mover")' = "pop"

LEMMA FlowFrame ==
  ASSUME Flow, SameFlow
  PROVE  Flow'
<1>1. Hands' /\ OverflowEndsTheMover'
  BY DEF Flow, SameFlow, Hands, OverflowEndsTheMover
<1>2. RecorderFollows'
  <2>1. Lossless' => Lossless BY DEF SameFlow, Lossless
  <2> QED BY <2>1 DEF Flow, SameFlow, RecorderFollows
<1>3. BlocksConserved'
  BY DEF Flow, SameFlow, BlocksConserved, Accounted, Holding
<1> QED BY <1>1, <1>2, <1>3 DEF Flow

(* The numbers in BlocksConserved.                                         *)
LEMMA FlowNumbers ==
  ASSUME TypeOK
  PROVE  /\ count \in Counts /\ count.received \in Nat /\ count.dropped \in Nat
         /\ acq \in QueueRecords(Blocks) /\ dsp \in QueueRecords(Blocks)
         /\ rec \in QueueRecords(Blocks)
         /\ Len(acq.items) \in Nat /\ acq.popped \in Nat
         /\ Len(dsp.items) \in Nat /\ dsp.popped \in Nat
         /\ rec.pushed \in Nat /\ rec.dropped \in Nat
         /\ hand["producer"] \in Nat /\ hand["mover"] \in Nat /\ hand["consumer"] \in Nat
         /\ Holding("producer") \in {0, 1} /\ Holding("mover") \in {0, 1}
         /\ {"producer", "mover", "consumer", "recorder"} \subseteq Threads
         /\ Workers = {"producer", "mover", "consumer", "recorder"}
<1>1. /\ acq \in QueueRecords(Blocks) /\ dsp \in QueueRecords(Blocks)
      /\ rec \in QueueRecords(Blocks)
  BY DEF TypeOK
<1>2. /\ Len(acq.items) \in Nat /\ acq.popped \in Nat
      /\ Len(dsp.items) \in Nat /\ dsp.popped \in Nat
      /\ rec.pushed \in Nat /\ rec.dropped \in Nat
  BY <1>1, QueueFields
<1>3. count \in Counts /\ count.received \in Nat /\ count.dropped \in Nat
  BY CountFields DEF TypeOK
<1> QED BY <1>1, <1>2, <1>3, StepNames DEF TypeOK, Holding, Workers

(* What stopping a queue leaves of it.                                     *)
LEMMA ClosingFlow ==
  ASSUME TypeOK, Scripted, NEW t \in Threads, Closing(t)
  PROVE  SameFlow
<1>1. \A q \in {acq, dsp, rec} :
        /\ AfterStop(q).items = q.items /\ AfterStop(q).popped = q.popped
        /\ AfterStop(q).pushed = q.pushed /\ AfterStop(q).dropped = q.dropped /\ AfterStop(q).stop
  BY FlowNumbers, QueueStops
<1>2. /\ acq'.items = acq.items /\ acq'.popped = acq.popped
      /\ dsp'.items = dsp.items /\ dsp'.popped = dsp.popped
      /\ rec'.pushed = rec.pushed /\ rec'.dropped = rec.dropped
      /\ rec.stop => rec'.stop
  BY <1>1 DEF Closing, queues
<1>3. /\ hand' = hand /\ count' = count /\ config' = config /\ trouble' = trouble
      /\ state' = "Created" <=> state = "Created"
  BY DEF Closing
<1>4. /\ Step(t) \in ClosingSteps /\ Moves(t, Step(t)')
      /\ Step(t)' \in ClosingSteps \cup {"idle", "release", "abortStart", "discard"}
      /\ t = "mover" => Step(t)' # "idle"
  BY ClosingMoves
<1>5. {"idle", "push", "tee", "pop"} \cap ClosingSteps = {} BY DEF ClosingSteps
<1>6. \A u \in Threads : u # t => Step(u)' = Step(u) BY <1>4 DEF Moves
<1>7. {"producer", "mover"} \subseteq Threads BY FlowNumbers
<1>8. /\ Step("producer") = "push" <=> Step("producer")' = "push"
      /\ Step("mover") = "tee" <=> Step("mover")' = "tee"
      /\ Step("mover") = "idle" <=> Step("mover")' = "idle"
      /\ Step("mover") = "pop" <=> Step("mover")' = "pop"
  BY <1>4, <1>5, <1>6, <1>7
<1> QED BY <1>2, <1>3, <1>8 DEF SameFlow

(* The places of a block, as numbers.                                      *)
Missing == IF "overflow" \in trouble THEN 1 ELSE 0
Places(r, d, a, s, p, h, m, o) ==
  /\ count.received = r /\ count.dropped = d /\ dsp.popped = p
  /\ Len(acq.items) = a /\ Len(dsp.items) = s
  /\ Holding("producer") = h /\ Holding("mover") = m /\ Missing = o

LEMMA BlocksHavePlaces ==
  ASSUME TypeOK
  PROVE  \E r, d, a, s, p, h, m, o \in Nat : Places(r, d, a, s, p, h, m, o)
<1>1. /\ count.received \in Nat /\ count.dropped \in Nat
      /\ Len(acq.items) \in Nat /\ Len(dsp.items) \in Nat /\ dsp.popped \in Nat
      /\ Holding("producer") \in Nat /\ Holding("mover") \in Nat /\ Missing \in Nat
  BY FlowNumbers DEF Missing
<1> QED BY <1>1 DEF Places

LEMMA ProducerFlow ==
  ASSUME TypeOK, Scripted, Flow, Producer
  PROVE  Flow'
<1> USE DEF session, queues
<1>8. PICK r, d, a, s, p, h, m, o \in Nat : Places(r, d, a, s, p, h, m, o)
  BY BlocksHavePlaces
<1>9. r = d + p + a + s + h + m + o
  BY <1>8 DEF Flow, Places, BlocksConserved, Accounted, Missing
<1>1. "producer" \in Threads /\ "mover" \in Threads /\ hand["producer"] \in Nat
  BY FlowNumbers
<1>2. CASE Closing("producer") BY <1>1, <1>2, ClosingFlow, FlowFrame
<1>3. CASE ProducerCheck \/ ProducerPace \/ ProducerInterrupted \/ ProducerDrain
  <2>1. /\ Step("producer") # "push" /\ Step("producer")' # "push"
        /\ Step("mover")' = Step("mover")
    BY <1>1, <1>3, ProducerMoves DEF Moves
  <2>2. /\ hand' = hand /\ count' = count /\ trouble' = trouble
        /\ config' = config /\ state' = state /\ acq' = acq /\ dsp' = dsp /\ rec' = rec
    BY <1>3 DEF ProducerCheck, ProducerPace, ProducerInterrupted, ProducerDrain, DrainStep
  <2>3. SameFlow BY <2>1, <2>2 DEF SameFlow
  <2> QED BY <2>3, FlowFrame
<1>4. CASE ProducerAcquire
  <2>1. /\ Step("producer") = "acquire" /\ Step("producer")' = "push"
        /\ Step("mover")' = Step("mover")
    BY <1>1, <1>4, ProducerMoves DEF Moves
  <2>2. /\ trouble' = trouble /\ config' = config /\ state' = state
        /\ acq' = acq /\ dsp' = dsp /\ rec' = rec
        /\ hand'["producer"] = count.received + 1 /\ hand'["mover"] = hand["mover"]
        /\ count'.received = count.received + 1 /\ count'.dropped = count.dropped
    BY <1>4, FlowNumbers DEF ProducerAcquire, TypeOK, Counts
  <2>3. hand["producer"] = 0 BY <2>1 DEF Flow, Hands
  <2>4. BlocksConserved'
    <3>1. /\ Holding("producer")' = Holding("producer") + 1
          /\ Holding("mover")' = Holding("mover")
      BY <2>2, <2>3, FlowNumbers DEF Holding
    <3>2. h = 0 BY <1>8, <2>3 DEF Places, Holding
    <3>3. Places(r + 1, d, a, s, p, 1, m, o)'
      BY <1>8, <2>2, <3>1, <3>2 DEF Places, Missing
    <3>4. r + 1 = d + p + a + s + 1 + m + o BY <1>9, <3>2
    <3> QED BY <3>3, <3>4 DEF Places, BlocksConserved, Accounted, Missing
  <2>5. Hands' BY <2>1, <2>2, FlowNumbers DEF Flow, Hands
  <2>6. OverflowEndsTheMover' /\ RecorderFollows'
    BY <2>1, <2>2 DEF Flow, OverflowEndsTheMover, RecorderFollows, Lossless
  <2> QED BY <2>4, <2>5, <2>6 DEF Flow
<1>5. CASE ProducerPush
  <2>1. /\ Step("producer") = "push" /\ Step("producer")' # "push"
        /\ Step("mover")' = Step("mover")
    BY <1>1, <1>5, ProducerMoves DEF Moves
  <2>2. /\ trouble' = trouble /\ config' = config /\ state' = state
        /\ dsp' = dsp /\ rec' = rec /\ ~PushBlocks(acq)
        /\ acq' = AfterPush(acq, hand["producer"])
        /\ hand'["producer"] = 0 /\ hand'["mover"] = hand["mover"]
        /\ count'.received = count.received
        /\ count'.dropped = IF Lost(acq) THEN count.dropped + 1 ELSE count.dropped
    BY <1>5, FlowNumbers DEF ProducerPush, TypeOK, Counts
  <2>3. hand["producer"] # 0 /\ hand["producer"] \in Blocks
    BY <1>1, <2>1 DEF Flow, Hands, Blocks
  <2>4. /\ acq'.popped = acq.popped
        /\ Lost(acq) => Len(acq'.items) = Len(acq.items)
        /\ ~Lost(acq) => Len(acq'.items) = Len(acq.items) + 1
    <3>1. acq \in QueueRecords(Blocks) BY FlowNumbers
    <3> QED BY <3>1, <2>2, <2>3, QueuePush, PushOutcome DEF Lost
  <2>5. BlocksConserved'
    <3>1. /\ Holding("producer")' = Holding("producer") - 1
          /\ Holding("mover")' = Holding("mover")
      BY <2>2, <2>3, FlowNumbers DEF Holding
    <3>2. h = 1 /\ Holding("producer")' = 0
      BY <1>8, <2>2, <2>3 DEF Places, Holding
    <3>3. CASE Lost(acq)
      <4>1. Places(r, d + 1, a, s, p, 0, m, o)'
        BY <1>8, <2>2, <2>4, <3>1, <3>2, <3>3 DEF Places, Missing
      <4>2. r = (d + 1) + p + a + s + 0 + m + o BY <1>9, <3>2
      <4> QED BY <4>1, <4>2 DEF Places, BlocksConserved, Accounted, Missing
    <3>4. CASE ~Lost(acq)
      <4>1. Places(r, d, a + 1, s, p, 0, m, o)'
        BY <1>8, <2>2, <2>4, <3>1, <3>2, <3>4 DEF Places, Missing
      <4>2. r = d + p + (a + 1) + s + 0 + m + o BY <1>9, <3>2
      <4> QED BY <4>1, <4>2 DEF Places, BlocksConserved, Accounted, Missing
    <3> QED BY <3>3, <3>4
  <2>6. Hands' BY <2>1, <2>2 DEF Flow, Hands
  <2>7. OverflowEndsTheMover' /\ RecorderFollows'
    BY <2>1, <2>2, <2>4 DEF Flow, OverflowEndsTheMover, RecorderFollows, Lossless
  <2> QED BY <2>5, <2>6, <2>7 DEF Flow
<1> QED BY <1>2, <1>3, <1>4, <1>5 DEF Producer

LEMMA MoverFlow ==
  ASSUME TypeOK, Scripted, Sessions, Flow, Mover
  PROVE  Flow'
<1> USE DEF session, queues
<1>8. PICK r, d, a, s, p, h, m, o \in Nat : Places(r, d, a, s, p, h, m, o)
  BY BlocksHavePlaces
<1>9. r = d + p + a + s + h + m + o
  BY <1>8 DEF Flow, Places, BlocksConserved, Accounted, Missing
<1>1. "producer" \in Threads /\ "mover" \in Threads /\ hand["mover"] \in Nat
  BY FlowNumbers
<1>2. CASE Closing("mover") BY <1>1, <1>2, ClosingFlow, FlowFrame
<1>3. CASE MoverPop /\ acq.items = <<>>
  <2>1. /\ Step("mover") = "pop" /\ Step("mover")' = "idle"
        /\ Step("producer")' = Step("producer")
    BY <1>1, <1>3, MoverMoves DEF Moves
  <2>2. /\ hand' = hand /\ count' = count /\ trouble' = trouble
        /\ config' = config /\ state' = state /\ acq' = acq /\ dsp' = dsp /\ rec' = rec
    BY <1>3 DEF MoverPop
  <2> QED BY <2>1, <2>2 DEF Flow, Hands, OverflowEndsTheMover, RecorderFollows, Lossless,
            BlocksConserved, Accounted, Holding
<1>4. CASE MoverPop /\ acq.items # <<>>
  <2>1. /\ Step("mover") = "pop" /\ Step("producer")' = Step("producer")
        /\ Step("mover")' = IF config.recorderEnabled THEN "tee" ELSE "forward"
    BY <1>1, <1>4, MoverMoves DEF Moves
  <2>2. /\ count' = count /\ trouble' = trouble /\ config' = config /\ state' = state
        /\ dsp' = dsp /\ rec' = rec /\ acq' = AfterPop(acq)
        /\ hand'["mover"] = Head(acq.items) /\ hand'["producer"] = hand["producer"]
    BY <1>4, FlowNumbers DEF MoverPop, TypeOK
  <2>3. /\ hand'["mover"] \in Nat \ {0} /\ acq'.popped = acq.popped + 1
        /\ Len(acq'.items) = Len(acq.items) - 1
    <3>1. acq \in QueueRecords(Blocks) BY FlowNumbers
    <3> QED BY <3>1, <2>2, <1>4, QueuePop DEF Blocks
  <2>4. hand["mover"] = 0 BY <2>1 DEF Flow, Hands
  <2>5. BlocksConserved'
    <3>1. /\ Holding("mover")' = Holding("mover") + 1
          /\ Holding("producer")' = Holding("producer")
      BY <2>2, <2>3, <2>4, FlowNumbers DEF Holding
    <3>2. m = 0 /\ Holding("mover")' = 1 /\ a - 1 \in Nat /\ Len(acq'.items) = a - 1
      <4>1. a = Len(acq.items) /\ a # 0
        BY <1>4, <1>8, FlowNumbers, QueueFields DEF Places
      <4> QED BY <1>8, <2>2, <2>3, <2>4, <4>1 DEF Places, Holding
    <3>3. Places(r, d, a - 1, s, p, h, 1, o)'
      BY <1>8, <2>2, <3>1, <3>2 DEF Places, Missing
    <3>4. r = d + p + (a - 1) + s + h + 1 + o BY <1>9, <3>2
    <3> QED BY <3>2, <3>3, <3>4 DEF Places, BlocksConserved, Accounted, Missing
  <2>6. Hands' /\ OverflowEndsTheMover'
    BY <2>1, <2>2, <2>3 DEF Flow, Hands, OverflowEndsTheMover
  <2>7. RecorderFollows'
    BY <2>1, <2>2, <2>3 DEF Flow, RecorderFollows, Lossless
  <2> QED BY <2>5, <2>6, <2>7 DEF Flow
<1>5. CASE MoverTee
  <2>1. /\ Step("mover") = "tee" /\ Step("producer")' = Step("producer")
        /\ Step("mover")' = IF PushResult(rec) = "Stopped" THEN "idle"
                            ELSE IF TeeStops THEN "stopToken" ELSE "forward"
    BY <1>1, <1>5, MoverMoves DEF Moves
  <2>2. /\ trouble' = trouble /\ config' = config /\ state' = state
        /\ dsp' = dsp /\ acq' = acq /\ rec' = AfterPush(rec, hand["mover"])
        /\ hand'["producer"] = hand["producer"] /\ count'.received = count.received
        /\ Backpressure => ~PushBlocks(rec)
    BY <1>5, FlowNumbers DEF MoverTee, TypeOK, Counts
  <2>3. hand["mover"] # 0 /\ hand["mover"] \in Blocks /\ rec \in QueueRecords(Blocks)
    BY <1>1, <2>1, FlowNumbers DEF Flow, Hands, Blocks
  <2>4. CASE PushResult(rec) = "Stopped"
    <3>1. hand'["mover"] = 0 /\ count'.dropped = count.dropped + 1
      BY <1>5, <2>4, FlowNumbers DEF MoverTee, TypeOK, Counts
    <3>2. rec'.pushed = rec.pushed /\ rec'.dropped = rec.dropped /\ rec'.stop
      BY <2>2, <2>3, <2>4, QueuePush, PushOutcome
    <3>3. BlocksConserved'
      <4>1. /\ Holding("mover")' = Holding("mover") - 1
            /\ Holding("producer")' = Holding("producer")
        BY <2>2, <2>3, <3>1, FlowNumbers DEF Holding
      <4>2. m = 1 /\ Holding("mover")' = 0
        BY <1>8, <2>3, <3>1 DEF Places, Holding
      <4>3. Places(r, d + 1, a, s, p, h, 0, o)'
        BY <1>8, <2>2, <3>1, <4>1, <4>2 DEF Places, Missing
      <4>4. r = (d + 1) + p + a + s + h + 0 + o BY <1>9, <4>2
      <4> QED BY <4>3, <4>4 DEF Places, BlocksConserved, Accounted, Missing
    <3>4. Hands' /\ OverflowEndsTheMover'
      BY <2>1, <2>2, <2>4, <3>1 DEF Flow, Hands, OverflowEndsTheMover
    <3>5. RecorderFollows'
      BY <2>1, <2>2, <2>4, <3>2 DEF Flow, RecorderFollows, Lossless
    <3> QED BY <3>3, <3>4, <3>5 DEF Flow
  <2>5. CASE PushResult(rec) # "Stopped"
    <3>1. hand'["mover"] = hand["mover"] /\ count'.dropped = count.dropped
      BY <1>5, <2>5 DEF MoverTee
    <3>2. Step("mover")' \in {"stopToken", "forward"} BY <2>1, <2>5
    <3>3. BlocksConserved'
      BY <2>2, <3>1, FlowNumbers DEF Flow, BlocksConserved, Accounted, Holding
    <3>4. Hands' /\ OverflowEndsTheMover'
      BY <2>1, <2>2, <3>1, <3>2 DEF Flow, Hands, OverflowEndsTheMover
    <3>5. RecorderFollows'
      <4> SUFFICES ASSUME Lossless' PROVE RecorderFollows'
        BY DEF RecorderFollows
      <4>1. Lossless /\ Backpressure BY <2>2 DEF Lossless, Backpressure
      <4>2. PushResult(rec) # "Full" BY <2>2, <2>3, <4>1, PushOutcome
      <4>3. rec.dropped = 0 /\ acq.popped = rec.pushed + 1
        BY <2>1, <4>1 DEF Flow, RecorderFollows
      <4>4. PushResult(rec) = "Pushed"
        <5>1. rec.policy = "Block" BY <4>1 DEF Lossless, Sessions
        <5> QED BY <2>3, <2>5, <4>2, <5>1, PushOutcome DEF EvictingPolicies
      <4>5. rec'.pushed = rec.pushed + 1 /\ rec'.dropped = rec.dropped
        BY <2>2, <2>3, <4>4, QueuePush
      <4> QED BY <2>2, <3>2, <4>3, <4>5 DEF RecorderFollows
    <3> QED BY <3>3, <3>4, <3>5 DEF Flow
  <2> QED BY <2>4, <2>5
<1>6. CASE MoverDiscard
  <2>1. /\ Step("mover") = "discard" /\ Step("mover")' = "idle"
        /\ Step("producer")' = Step("producer")
    BY <1>1, <1>6, MoverMoves DEF Moves
  <2>2. /\ count' = count /\ trouble' = trouble \cup {"overflow"} /\ config' = config
        /\ state' = state /\ acq' = acq /\ dsp' = dsp /\ rec' = rec
        /\ hand'["mover"] = 0 /\ hand'["producer"] = hand["producer"]
    BY <1>6, FlowNumbers DEF MoverDiscard, TypeOK
  <2>3. hand["mover"] # 0 /\ "overflow" \notin trouble
    BY <2>1 DEF Flow, Hands, OverflowEndsTheMover
  <2>4. BlocksConserved'
    BY <2>2, <2>3, FlowNumbers DEF Flow, BlocksConserved, Accounted, Holding
  <2>5. Hands' /\ OverflowEndsTheMover' /\ RecorderFollows'
    BY <2>1, <2>2 DEF Flow, Hands, OverflowEndsTheMover, RecorderFollows, Lossless
  <2> QED BY <2>4, <2>5 DEF Flow
<1>7. CASE MoverForward
  <2>1. /\ Step("mover") = "forward" /\ Step("producer")' = Step("producer")
        /\ Step("mover")' \in {"idle", "pop"}
    BY <1>1, <1>7, MoverMoves DEF Moves
  <2>2. /\ trouble' = trouble /\ config' = config /\ state' = state
        /\ acq' = acq /\ rec' = rec /\ dsp' = AfterPush(dsp, hand["mover"]) /\ ~PushBlocks(dsp)
        /\ hand'["mover"] = 0 /\ hand'["producer"] = hand["producer"]
        /\ count'.received = count.received
        /\ count'.dropped = IF Lost(dsp) THEN count.dropped + 1 ELSE count.dropped
    BY <1>7, FlowNumbers DEF MoverForward, TypeOK, Counts
  <2>3. hand["mover"] # 0 /\ hand["mover"] \in Blocks
    BY <1>1, <2>1 DEF Flow, Hands, Blocks
  <2>4. /\ dsp'.popped = dsp.popped
        /\ Lost(dsp) => Len(dsp'.items) = Len(dsp.items)
        /\ ~Lost(dsp) => Len(dsp'.items) = Len(dsp.items) + 1
    <3>1. dsp \in QueueRecords(Blocks) BY FlowNumbers
    <3> QED BY <3>1, <2>2, <2>3, QueuePush, PushOutcome DEF Lost
  <2>5. BlocksConserved'
    <3>1. /\ Holding("mover")' = Holding("mover") - 1
          /\ Holding("producer")' = Holding("producer")
      BY <2>2, <2>3, FlowNumbers DEF Holding
    <3>2. m = 1 /\ Holding("mover")' = 0
      BY <1>8, <2>2, <2>3 DEF Places, Holding
    <3>3. CASE Lost(dsp)
      <4>1. Places(r, d + 1, a, s, p, h, 0, o)'
        BY <1>8, <2>2, <2>4, <3>1, <3>2, <3>3 DEF Places, Missing
      <4>2. r = (d + 1) + p + a + s + h + 0 + o BY <1>9, <3>2
      <4> QED BY <4>1, <4>2 DEF Places, BlocksConserved, Accounted, Missing
    <3>4. CASE ~Lost(dsp)
      <4>1. Places(r, d, a, s + 1, p, h, 0, o)'
        BY <1>8, <2>2, <2>4, <3>1, <3>2, <3>4 DEF Places, Missing
      <4>2. r = d + p + a + (s + 1) + h + 0 + o BY <1>9, <3>2
      <4> QED BY <4>1, <4>2 DEF Places, BlocksConserved, Accounted, Missing
    <3> QED BY <3>3, <3>4
  <2>6. Hands' /\ OverflowEndsTheMover'
    BY <2>1, <2>2 DEF Flow, Hands, OverflowEndsTheMover
  <2>7. RecorderFollows' BY <2>1, <2>2 DEF Flow, RecorderFollows, Lossless
  <2> QED BY <2>5, <2>6, <2>7 DEF Flow
<1> QED BY <1>2, <1>3, <1>4, <1>5, <1>6, <1>7 DEF Mover

LEMMA ConsumerFlow ==
  ASSUME TypeOK, Scripted, Flow, Consumer \/ RecorderPop
  PROVE  Flow'
<1> USE DEF session, queues
<1>1. /\ {"producer", "mover", "consumer", "recorder"} \subseteq Threads
      /\ hand \in [Workers -> Nat] /\ {"producer", "mover", "consumer"} \subseteq Workers
  BY FlowNumbers DEF TypeOK, Workers
<1>2. CASE Closing("consumer") BY <1>1, <1>2, ClosingFlow, FlowFrame
<1>3. CASE ConsumerPop /\ dsp.items # <<>>
  <2>1. Step("producer")' = Step("producer") /\ Step("mover")' = Step("mover")
    BY <1>1, <1>3, ConsumerMoves DEF Moves
  <2>2. /\ count' = count /\ trouble' = trouble /\ config' = config /\ state' = state
        /\ acq' = acq /\ rec' = rec /\ dsp' = AfterPop(dsp)
        /\ hand'["producer"] = hand["producer"] /\ hand'["mover"] = hand["mover"]
    BY <1>1, <1>3 DEF ConsumerPop
  <2>3. dsp'.popped = dsp.popped + 1 /\ Len(dsp'.items) = Len(dsp.items) - 1
    <3>1. dsp \in QueueRecords(Blocks) BY FlowNumbers
    <3> QED BY <3>1, <2>2, <1>3, QueuePop
  <2>4. BlocksConserved'
    <3>1. PICK r, d, a, s, p, h, m, o \in Nat : Places(r, d, a, s, p, h, m, o)
      BY BlocksHavePlaces
    <3>2. r = d + p + a + s + h + m + o
      BY <3>1 DEF Flow, Places, BlocksConserved, Accounted, Missing
    <3>3. s # 0 /\ s - 1 \in Nat /\ Len(dsp'.items) = s - 1
      <4>1. s = Len(dsp.items) /\ s # 0
        BY <1>3, <3>1, FlowNumbers, QueueFields DEF Places
      <4> QED BY <2>3, <4>1
    <3>4. Holding("producer")' = Holding("producer") /\ Holding("mover")' = Holding("mover")
      BY <2>2 DEF Holding
    <3>5. Places(r, d, a, s - 1, p + 1, h, m, o)'
      BY <2>2, <2>3, <3>1, <3>3, <3>4 DEF Places, Missing
    <3>6. r = d + (p + 1) + a + (s - 1) + h + m + o BY <3>2
    <3> QED BY <3>3, <3>5, <3>6 DEF Places, BlocksConserved, Accounted, Missing
  <2>5. Hands' /\ OverflowEndsTheMover' /\ RecorderFollows'
    BY <2>1, <2>2 DEF Flow, Hands, OverflowEndsTheMover, RecorderFollows, Lossless
  <2> QED BY <2>4, <2>5 DEF Flow
<1>4. CASE \/ ConsumerPop /\ dsp.items = <<>>
           \/ ConsumerProcess \/ ConsumerFlush \/ ConsumerThrows \/ MarkError("consumer")
  <2>1. Step("producer")' = Step("producer") /\ Step("mover")' = Step("mover")
    BY <1>1, <1>4, ConsumerMoves DEF Moves
  <2>2. /\ count' = count /\ config' = config /\ acq' = acq /\ rec' = rec /\ dsp' = dsp
        /\ "overflow" \in trouble' <=> "overflow" \in trouble
        /\ state' = "Created" <=> state = "Created"
        /\ hand'["producer"] = hand["producer"] /\ hand'["mover"] = hand["mover"]
    BY <1>1, <1>4 DEF ConsumerPop, ConsumerProcess, ConsumerFlush, ConsumerThrows, MarkError
  <2>3. SameFlow BY <2>1, <2>2 DEF SameFlow
  <2> QED BY <2>3, FlowFrame
<1>5. CASE RecorderPop
  <2>1. Step("producer")' = Step("producer") /\ Step("mover")' = Step("mover")
    BY <1>1, <1>5, RecorderMoves DEF Moves
  <2>2. /\ hand' = hand /\ count' = count /\ config' = config /\ acq' = acq /\ dsp' = dsp
        /\ trouble' = trouble /\ state' = state
        /\ rec' = rec \/ (rec.items # <<>> /\ rec' = AfterPop(rec))
    BY <1>5 DEF RecorderPop
  <2>3. rec'.pushed = rec.pushed /\ rec'.dropped = rec.dropped /\ rec'.stop = rec.stop
    <3>1. rec \in QueueRecords(Blocks) BY FlowNumbers
    <3> QED BY <3>1, <2>2, QueuePop
  <2>4. SameFlow BY <2>1, <2>2, <2>3 DEF SameFlow
  <2> QED BY <2>4, FlowFrame
<1> QED BY <1>2, <1>3, <1>4, <1>5 DEF Consumer

LEMMA CallerFlow ==
  ASSUME TypeOK, Scripted, Locking, Sessions, Flow, NEW c \in Callers, Call(c) \/ Continue(c)
  PROVE  Flow'
<1> USE DEF session, queues
<1>1. /\ c \in Threads /\ {"producer", "mover"} \subseteq Workers /\ Workers \subseteq Threads
      /\ state = "Configured" => Idle /\ trouble = {}
      /\ Idle => Step("producer") = "idle" /\ Step("mover") = "idle"
  BY StepNames DEF Threads, Workers, Sessions, InSession, Idle
<1>7. Step(c) \in LockedSteps => state # "Created"
  BY CallersAssumption DEF Locking, Sessions, InSession
<1>2. CASE Configure(c)
  <2>1. PICK new \in Configs :
          /\ acq' = NewQueue(new.acquisition, new.acquisitionPolicy)
          /\ dsp' = NewQueue(new.dsp, new.dspPolicy)
          /\ rec' = NewQueue(new.recorder, new.recorderPolicy)
    BY <1>2 DEF Configure
  <2>2. /\ acq'.items = <<>> /\ dsp'.items = <<>> /\ acq'.popped = 0 /\ dsp'.popped = 0
        /\ rec'.pushed = 0 /\ rec'.dropped = 0
    BY <2>1 DEF NewQueue
  <2>3. /\ hand' = hand /\ count' = [received |-> 0, dropped |-> 0] /\ trouble' = {}
        /\ state \notin InSession
    BY <1>2 DEF Configure, InSession
  <2>4. Step("producer") = "idle" /\ Step("mover") = "idle"
    BY <1>1, <2>3 DEF Sessions
  <2>5. Step("producer")' = "idle" /\ Step("mover")' = "idle"
    <3>1. Moves(c, "idle") BY <1>2, CallerMoves
    <3> QED BY <1>1, <2>4, <3>1 DEF Moves
  <2>6. hand["producer"] = 0 /\ hand["mover"] = 0 BY <2>4 DEF Flow, Hands
  <2>7. BlocksConserved'
    <3>1. /\ count'.received = 0 /\ count'.dropped = 0 /\ Len(acq'.items) = 0 /\ Len(dsp'.items) = 0
          /\ dsp'.popped = 0 /\ Holding("producer")' = 0 /\ Holding("mover")' = 0
          /\ Missing' = 0
      BY <2>2, <2>3, <2>6 DEF Holding, Missing
    <3> QED BY <3>1 DEF BlocksConserved, Accounted, Missing
  <2>8. Hands' /\ OverflowEndsTheMover' /\ RecorderFollows'
    BY <2>2, <2>3, <2>5, <2>6 DEF Hands, OverflowEndsTheMover, RecorderFollows
  <2> QED BY <2>7, <2>8 DEF Flow
<1>3. CASE Start(c) \/ StartSpawnFails(c)
  <2>1. /\ state = "Configured" /\ trouble = {} /\ Idle
        /\ hand["producer"] = 0 /\ hand["mover"] = 0
        /\ acq.popped = 0 /\ rec.pushed = 0 /\ rec.dropped = 0
    BY <1>1, <1>3 DEF Start, StartSpawnFails, Sessions, Flow, Hands
  <2>2. /\ hand' = hand /\ count' = count /\ config' = config
        /\ acq' = acq /\ dsp' = dsp /\ rec' = rec /\ "overflow" \notin trouble'
    BY <1>3, <2>1 DEF Start, StartSpawnFails
  <2>3. Step("producer")' \in {"idle", "check"} /\ Step("mover")' \in {"idle", "pop"}
    BY <1>1, <1>3, <2>1, StartMoves, StartSpawnFailsMoves
  <2>4. Hands' /\ OverflowEndsTheMover' /\ RecorderFollows'
    BY <2>1, <2>2, <2>3 DEF Hands, OverflowEndsTheMover, RecorderFollows
  <2>5. BlocksConserved'
    BY <2>1, <2>2 DEF Flow, BlocksConserved, Accounted, Holding
  <2> QED BY <2>4, <2>5 DEF Flow
<1>4. CASE JoinWorkers(c)
  <2>1. /\ hand' = hand /\ config' = config /\ trouble' = trouble /\ state' = "Stopped"
        /\ acq' = AfterAbandon(acq) /\ dsp' = AfterAbandon(dsp) /\ rec' = AfterAbandon(rec)
        /\ count'.dropped = count.dropped + Len(acq.items) + Len(dsp.items)
        /\ count'.received = count.received
    BY <1>4, FlowNumbers DEF JoinWorkers, TypeOK, Counts
  <2>2. state # "Created"
    <3>1. Step(c) \in LockedSteps BY <1>4, CallerMoves DEF LockedSteps
    <3> QED BY <3>1, <1>7
  <2>3. Step("producer")' = Step("producer") /\ Step("mover")' = Step("mover")
    <3>1. Moves(c, "idle") BY <1>4, CallerMoves
    <3> QED BY <1>1, <3>1, StepsAre DEF Moves
  <2>4. /\ acq'.items = <<>> /\ dsp'.items = <<>> /\ dsp'.popped = dsp.popped
        /\ acq'.popped = acq.popped /\ rec'.pushed = rec.pushed /\ rec'.dropped = rec.dropped
        /\ rec'.stop = rec.stop
    BY <2>1, FlowNumbers, QueueAbandons
  <2>5. BlocksConserved'
    <3>1. PICK r, d, a, s, p, h, m, o \in Nat : Places(r, d, a, s, p, h, m, o)
      BY BlocksHavePlaces
    <3>2. r = d + p + a + s + h + m + o
      BY <3>1 DEF Flow, Places, BlocksConserved, Accounted, Missing
    <3>3. Holding("producer")' = Holding("producer") /\ Holding("mover")' = Holding("mover")
      BY <2>1 DEF Holding
    <3>4. Places(r, d + a + s, 0, 0, p, h, m, o)'
      BY <2>1, <2>4, <3>1, <3>3 DEF Places, Missing
    <3>5. r = (d + a + s) + p + 0 + 0 + h + m + o BY <3>2
    <3> QED BY <3>4, <3>5 DEF Places, BlocksConserved, Accounted, Missing
  <2>6. Hands' /\ OverflowEndsTheMover' /\ RecorderFollows'
    BY <2>1, <2>2, <2>3, <2>4 DEF Flow, Hands, OverflowEndsTheMover, RecorderFollows, Lossless
  <2> QED BY <2>5, <2>6 DEF Flow
<1>5. CASE Closing(c) BY <1>1, <1>5, ClosingFlow, FlowFrame
<1>6. CASE \/ Call(c) \/ Refused(c) \/ AbortStart(c) \/ RequestStop(c)
           \/ Release(c) \/ Join(c)
  <2>1. /\ hand' = hand /\ count' = count /\ config' = config /\ acq' = acq /\ dsp' = dsp
        /\ rec' = rec /\ trouble' = trouble
    BY <1>6 DEF Call, Refused, AbortStart, RequestStop, Release, Join
  <2>2. state' = "Created" <=> state = "Created"
    <3>1. CASE AbortStart(c)
      <4>1. Step(c) \in LockedSteps BY <3>1, CallerMoves DEF LockedSteps
      <4>2. state # "Created" BY <4>1, <1>7
      <4> QED BY <3>1, <4>2 DEF AbortStart
    <3>2. CASE ~AbortStart(c)
      BY <1>6, <3>2 DEF Call, Refused, RequestStop, Release, Join
    <3> QED BY <3>1, <3>2
  <2>3. Step("producer")' = Step("producer") /\ Step("mover")' = Step("mover")
    BY <1>1, <1>6, CallerMoves, StepsAre DEF Moves
  <2>4. SameFlow BY <2>1, <2>2, <2>3 DEF SameFlow
  <2> QED BY <2>4, FlowFrame
<1> QED BY <1>2, <1>3, <1>4, <1>5, <1>6 DEF Continue

LEMMA FlowKept ==
  ASSUME TypeOK, Scripted, Locking, Sessions, Flow, [Next]_vars
  PROVE  Flow'
<1>1. CASE UNCHANGED vars
  <2>1. SameFlow BY <1>1 DEF vars, session, queues, SameFlow, Step
  <2> QED BY <2>1, FlowFrame
<1>2. CASE Next
  BY <1>2, ProducerFlow, MoverFlow, ConsumerFlow, CallerFlow DEF Next
<1> QED BY <1>1, <1>2

-----------------------------------------------------------------------------
(* The natural end of a finite run                                         *)

Drains ==
  /\ count.received <= config.max
  /\ Step("producer") \in {"pace", "acquire"} => count.received < config.max
  /\ Producing => /\ ~stop /\ ~poolStop /\ ~acq.stop /\ ~dsp.stop /\ ~rec.stop
                  /\ count.dropped = 0
  /\ Draining \/ ~Producing => count.received = config.max
  /\ Step("producer") \in {"drainDsp", "drainRecorder"} \/ ~Producing => acq.items = <<>>
  /\ ~Producing => count.dropped + Holding("mover") <= 1
  /\ Step("consumer") \in {"idle", "flush"} => dsp.items = <<>> /\ dsp.stop

LEMMA ProducerSteps ==
  /\ ClosingSteps \cap ProducingSteps = {} /\ "idle" \notin ProducingSteps
  /\ {"check", "pace", "acquire", "push", "drain", "drainDsp", "drainRecorder"} \subseteq ProducingSteps
  /\ DrainSteps = {"drain", "drainDsp", "drainRecorder"}
  /\ ClosingSteps \cap {"idle", "pop", "process", "flush", "tee", "forward", "discard"} = {}
  /\ "stopToken" \in ClosingSteps
BY DEF ClosingSteps, ProducingSteps, DrainSteps

(* A worker's step does not make a disturbed session an undisturbed one.   *)
LEMMA WorkersDisturb ==
  ASSUME TypeOK, Scripted, Sessions, WorkerStep, Undisturbed'
  PROVE  Undisturbed /\ state \in InSession
<1>1. /\ UNCHANGED <<config, asked>> /\ state \in InSession
  BY WorkersLeaveCallers DEF Sessions
<1>2. trouble \subseteq trouble'
  BY DEF WorkerStep, Producer, Mover, Consumer, RecorderPop, ProducerCheck, ProducerPace,
     ProducerAcquire, ProducerInterrupted, ProducerPush, ProducerDrain, DrainStep, MoverPop,
     MoverTee, MoverDiscard, MoverForward, ConsumerPop, ConsumerProcess, ConsumerFlush,
     ConsumerThrows, MarkError, Closing
<1>3. {"producer", "mover", "consumer", "recorder"} \subseteq Threads
  BY FlowNumbers
<1>4. MoverStops => MoverStops'
  <2>1. CASE Producer \/ Consumer \/ RecorderPop
    <3>1. Step("mover")' = Step("mover")
      BY <1>3, <2>1, ProducerMoves, ConsumerMoves, RecorderMoves, ClosingMoves
         DEF Producer, Consumer, Moves
    <3> QED BY <3>1 DEF MoverStops
  <2>2. CASE Mover
    <3>1. CASE Closing("mover")
      <4>1. /\ Step("mover")' \in ClosingSteps \cup {"idle", "release", "abortStart", "discard"}
            /\ Step("mover")' \in MoverSteps \cup {"idle"} /\ Step("mover")' # "idle"
        BY <1>3, <3>1, ClosingMoves, StepsAre
      <4>2. {"release", "abortStart"} \cap MoverSteps = {}
        BY DEF MoverSteps, ClosingSteps
      <4> QED BY <4>1, <4>2 DEF MoverStops
    <3>2. CASE MoverDiscard BY <3>2 DEF MoverDiscard, Undisturbed
    <3>3. CASE MoverPop \/ MoverTee \/ MoverForward
      BY <3>3, MoverMoves, ProducerSteps DEF MoverStops
    <3> QED BY <2>2, <3>1, <3>2, <3>3 DEF Mover
  <2> QED BY <2>1, <2>2 DEF WorkerStep
<1> QED BY <1>1, <1>2, <1>4 DEF Undisturbed

(* What blocks, or has room, when both queues block.                       *)
LEMMA BlockingQueues ==
  ASSUME TypeOK, Sessions, Undisturbed, state # "Created"
  PROVE  /\ ~PushBlocks(acq) => PushResult(acq) \in {"Stopped", "Pushed"}
         /\ ~PushBlocks(dsp) => PushResult(dsp) \in {"Stopped", "Pushed"}
         /\ PushResult(acq) = "Stopped" <=> acq.stop
         /\ PushResult(dsp) = "Stopped" <=> dsp.stop
         /\ PushResult(rec) = "Stopped" <=> rec.stop
<1>1. acq.policy = "Block" /\ dsp.policy = "Block" BY DEF Sessions, Undisturbed
<1>2. /\ acq \in QueueRecords(Blocks) /\ dsp \in QueueRecords(Blocks) /\ rec \in QueueRecords(Blocks)
  BY FlowNumbers
<1> QED BY <1>1, <1>2, PushOutcome DEF EvictingPolicies

LEMMA ProducerDrains ==
  ASSUME TypeOK, Scripted, Undisturbed, Sessions, state # "Created", Flow, Drains, Producer
  PROVE  Drains'
<1> USE DEF session, queues
<1>1. /\ {"producer", "mover", "consumer"} \subseteq Threads
      /\ count.received \in Nat /\ count.dropped \in Nat /\ config.max \in Nat
      /\ config.max # 0
  BY FlowNumbers, ConfigTypes DEF TypeOK, Undisturbed
<1>2. CASE Closing("producer")
  <2>1. /\ Step("producer") \in ClosingSteps
        /\ Step("producer")' \in ClosingSteps \cup {"idle", "release", "abortStart", "discard"}
        /\ Step("producer")' \in StepsOf("producer") \cup {"idle"}
        /\ Step("mover")' = Step("mover") /\ Step("consumer")' = Step("consumer")
    BY <1>1, <1>2, ClosingMoves DEF Moves
  <2>2. ~Producing /\ ~Producing'
    BY <2>1, ProducerSteps DEF Producing, ProducingSteps, DrainSteps
  <2>3. ~Draining' /\ Step("producer")' \notin {"pace", "acquire", "drainDsp", "drainRecorder"}
    BY <2>2, ProducerSteps DEF Draining, Producing
  <2>4. /\ count' = count /\ config' = config /\ hand' = hand
        /\ acq'.items = acq.items /\ dsp'.items = dsp.items
    BY <1>1, <1>2, ClosingFlow, ClosingKeeps DEF SameFlow
  <2>5. dsp.stop => dsp'.stop
    <3>1. AfterStop(dsp).stop BY FlowNumbers, QueueStops
    <3> QED BY <1>2, <3>1 DEF Closing
  <2> QED BY <2>1, <2>2, <2>3, <2>4, <2>5 DEF Drains, Holding
<1>3. CASE ProducerAcquire
  <2>1. /\ Step("producer") = "acquire" /\ Step("producer")' = "push"
        /\ Step("consumer")' = Step("consumer")
    BY <1>1, <1>3, ProducerMoves DEF Moves
  <2>2. /\ config' = config /\ stop' = stop /\ poolStop' = poolStop
        /\ acq' = acq /\ dsp' = dsp /\ rec' = rec
        /\ count'.received = count.received + 1 /\ count'.dropped = count.dropped
    BY <1>3 DEF ProducerAcquire, TypeOK, Counts
  <2>3. Producing /\ Producing' /\ ~Draining'
    BY <2>1, ProducerSteps DEF Producing, Draining
  <2>4. count.received < config.max /\ count'.received <= config'.max
    BY <1>1, <2>1, <2>2 DEF Drains
  <2> QED BY <2>1, <2>2, <2>3, <2>4 DEF Drains
<1>4. CASE ProducerPush
  <2>1. /\ Step("producer") = "push" /\ Step("consumer")' = Step("consumer")
        /\ Step("producer")' = IF PushResult(acq) = "Stopped" THEN "stopToken" ELSE "check"
    BY <1>1, <1>4, ProducerMoves DEF Moves
  <2>2. Producing BY <2>1, ProducerSteps DEF Producing
  <2>3. PushResult(acq) = "Pushed"
    BY <1>4, <2>2, BlockingQueues DEF ProducerPush, Drains
  <2>4. /\ config' = config /\ stop' = stop /\ poolStop' = poolStop
        /\ acq' = AfterPush(acq, hand["producer"]) /\ dsp' = dsp /\ rec' = rec
        /\ count'.received = count.received /\ count'.dropped = count.dropped
    BY <1>4, <2>3 DEF ProducerPush, TypeOK, Counts, Lost
  <2>5. acq'.stop = acq.stop
    <3>1. hand["producer"] \in Blocks
      BY <2>1, FlowNumbers DEF Flow, Hands, Blocks
    <3> QED BY <2>4, <3>1, FlowNumbers, QueuePush
  <2>6. Step("producer")' = "check" /\ Producing' /\ ~Draining'
    BY <2>1, <2>3, ProducerSteps DEF Producing, Draining
  <2> QED BY <2>1, <2>2, <2>4, <2>5, <2>6 DEF Drains
<1>5. CASE ProducerCheck \/ ProducerPace \/ ProducerInterrupted
  <2>1. /\ Step("producer") \in {"check", "pace", "acquire"}
        /\ Step("consumer")' = Step("consumer")
    BY <1>1, <1>5, ProducerMoves DEF Moves
  <2>2. Producing /\ ~stop /\ ~poolStop
    BY <2>1, ProducerSteps DEF Producing, Drains
  <2>3. ~ProducerInterrupted BY <2>2 DEF ProducerInterrupted
  <2>4. /\ config' = config /\ stop' = stop /\ poolStop' = poolStop
        /\ acq' = acq /\ dsp' = dsp /\ rec' = rec /\ count' = count
    BY <1>5 DEF ProducerCheck, ProducerPace, ProducerInterrupted
  <2>5. \/ Step("producer")' = "drain" /\ Finished
        \/ Step("producer")' \in {"pace", "acquire"} /\ count.received < config.max
    <3>1. CASE ProducerCheck
      <4>1. Step("producer")' = IF Finished THEN "drain"
                               ELSE IF config.paced /\ count.received # 0 THEN "pace" ELSE "acquire"
        BY <2>2, <3>1, ProducerMoves DEF Moves
      <4>2. ~Finished => count.received < config.max BY <1>1 DEF Finished
      <4> QED BY <4>1, <4>2
    <3>2. CASE ProducerPace
      <4>1. Step("producer") = "pace" /\ Step("producer")' = "acquire"
        BY <2>2, <3>2, ProducerMoves DEF Moves
      <4> QED BY <4>1 DEF Drains
    <3> QED BY <1>5, <2>3, <3>1, <3>2
  <2>6. Producing' /\ (Draining' => Finished)
    BY <2>5, ProducerSteps DEF Producing, Draining
  <2>7. Finished => count.received = config.max BY <1>1 DEF Finished, Drains
  <2> QED BY <2>1, <2>2, <2>4, <2>5, <2>6, <2>7 DEF Drains
<1>6. CASE ProducerDrain
  <2>1. /\ Step("consumer")' = Step("consumer") /\ Step("mover")' = Step("mover")
        /\ Step("producer") \in {"drain", "drainDsp", "drainRecorder"}
    BY <1>1, <1>6, ProducerMoves DEF Moves
  <2>2. Producing /\ Draining /\ ~stop
    BY <2>1, ProducerSteps DEF Producing, Draining, Drains
  <2>3. /\ config' = config /\ stop' = stop /\ poolStop' = poolStop /\ hand' = hand
        /\ acq' = acq /\ dsp' = dsp /\ rec' = rec /\ count' = count
    BY <1>6 DEF ProducerDrain, DrainStep
  <2>4. \/ Step("producer")' = "drain"
        \/ Step("producer")' \in {"drainDsp", "drainRecorder", "stopToken"} /\ acq.items = <<>>
    <3>1. \/ /\ Step("producer") = "drain"
             /\ Step("producer")' = IF acq.items = <<>> THEN "drainDsp" ELSE "drain"
          \/ /\ Step("producer") \in {"drainDsp", "drainRecorder"}
             /\ Step("producer")' \in {"drain", "drainRecorder", "stopToken"}
      BY <1>6, <2>2, ProducerMoves DEF Moves
    <3> QED BY <3>1 DEF Drains
  <2>5. Producing' \/ Step("producer")' = "stopToken"
    BY <2>4, ProducerSteps DEF Producing
  <2>6. Holding("mover") <= 1 /\ Holding("mover")' = Holding("mover") /\ Holding("mover") \in Nat
    BY <2>3, FlowNumbers DEF Holding
  <2>7. count.dropped + Holding("mover") <= 1 BY <2>2, <2>6 DEF Drains
  <2>8. count.received = config.max /\ count.received <= config.max /\ count.dropped = 0
    BY <2>2 DEF Drains
  <2>9. /\ Step("producer")' \notin {"pace", "acquire"}
        /\ Step("producer")' \in {"drainDsp", "drainRecorder"} \/ ~Producing' => acq.items = <<>>
    BY <2>4, ProducerSteps DEF Producing
  <2> QED BY <2>1, <2>2, <2>3, <2>6, <2>7, <2>8, <2>9 DEF Drains
<1> QED BY <1>2, <1>3, <1>4, <1>5, <1>6 DEF Producer

LEMMA MoverDrains ==
  ASSUME TypeOK, Scripted, Undisturbed, Undisturbed', Sessions, state # "Created", Flow, Drains,
         Mover
  PROVE  Drains'
<1> USE DEF session, queues
<1>1. /\ {"producer", "mover", "consumer"} \subseteq Threads
      /\ count.received \in Nat /\ count.dropped \in Nat /\ hand["mover"] \in Nat
      /\ Holding("mover") \in {0, 1}
  BY FlowNumbers
<1>2. ~MoverStops' /\ ~MoverStops /\ trouble' = {} BY DEF Undisturbed
<1>3. ~Closing("mover") /\ ~MoverDiscard
  <2>1. Closing("mover") => MoverStops BY <1>1, ClosingMoves DEF MoverStops
  <2>2. ~MoverDiscard BY <1>2 DEF MoverDiscard
  <2> QED BY <1>2, <2>1, <2>2
<1>4. /\ Step("producer")' = Step("producer") /\ Step("consumer")' = Step("consumer")
  BY <1>1, <1>3, MoverMoves DEF Mover, Moves
<1>5. (Producing' <=> Producing) /\ (Draining' <=> Draining)
  BY <1>4 DEF Producing, Draining
<1>6. /\ config' = config /\ stop' = stop /\ poolStop' = poolStop
      /\ count'.received = count.received
  BY <1>1, <1>3, FlowNumbers
     DEF Mover, MoverPop, MoverTee, MoverForward, Counts
<1>7. CASE MoverPop /\ acq.items = <<>>
  <2>1. count' = count /\ hand' = hand /\ acq' = acq /\ dsp' = dsp /\ rec' = rec
    BY <1>7 DEF MoverPop
  <2> QED BY <1>4, <1>5, <1>6, <2>1 DEF Drains, Holding
<1>8. CASE MoverPop /\ acq.items # <<>>
  <2>1. count' = count /\ acq' = AfterPop(acq) /\ dsp' = dsp /\ rec' = rec
    BY <1>8 DEF MoverPop
  <2>2. acq'.stop = acq.stop BY <1>8, <2>1, FlowNumbers, QueuePop
  <2>3. Producing /\ Step("producer") \notin {"drainDsp", "drainRecorder"}
    BY <1>8 DEF Drains
  <2> QED BY <1>4, <1>5, <1>6, <2>1, <2>2, <2>3 DEF Drains
<1>9. CASE MoverTee
  <2>1. /\ Step("mover") = "tee"
        /\ Step("mover")' = IF PushResult(rec) = "Stopped" THEN "idle"
                            ELSE IF TeeStops THEN "stopToken" ELSE "forward"
    BY <1>1, <1>9, MoverMoves DEF Moves
  <2>2. hand["mover"] # 0 /\ hand["mover"] \in Blocks
    BY <1>1, <2>1 DEF Flow, Hands, Blocks
  <2>3. acq' = acq /\ dsp' = dsp /\ rec'.stop = rec.stop
    <3>1. rec' = AfterPush(rec, hand["mover"]) BY <1>9 DEF MoverTee
    <3> QED BY <1>9, <2>2, <3>1, FlowNumbers, QueuePush DEF MoverTee
  <2>4. CASE PushResult(rec) = "Stopped"
    <3>1. rec.stop /\ ~Producing BY <2>4, BlockingQueues DEF Drains
    <3>2. count'.dropped = count.dropped + 1 /\ Holding("mover")' = 0
      BY <1>9, <2>4, FlowNumbers DEF MoverTee, Holding, Counts, TypeOK
    <3>3. Holding("mover") = 1 BY <2>2 DEF Holding
    <3>4. count'.dropped + Holding("mover")' <= 1
      BY <1>1, <3>1, <3>2, <3>3 DEF Drains
    <3> QED BY <1>4, <1>5, <1>6, <2>3, <3>1, <3>4 DEF Drains
  <2>5. CASE PushResult(rec) # "Stopped"
    <3>1. count' = count /\ hand' = hand BY <1>9, <2>5 DEF MoverTee
    <3> QED BY <1>4, <1>5, <1>6, <2>3, <3>1 DEF Drains, Holding
  <2> QED BY <2>4, <2>5
<1>10. CASE MoverForward
  <2>1. Step("mover") = "forward" BY <1>10, MoverMoves
  <2>2. hand["mover"] # 0 /\ hand["mover"] \in Blocks /\ Holding("mover") = 1
    BY <1>1, <2>1 DEF Flow, Hands, Blocks, Holding
  <2>3. acq' = acq /\ rec' = rec /\ dsp' = AfterPush(dsp, hand["mover"]) /\ Holding("mover")' = 0
    BY <1>10, FlowNumbers DEF MoverForward, Holding, TypeOK
  <2>4. dsp'.stop = dsp.stop BY <2>2, <2>3, FlowNumbers, QueuePush
  <2>5. PushResult(dsp) \in {"Stopped", "Pushed"}
    BY <1>10, BlockingQueues DEF MoverForward
  <2>6. CASE PushResult(dsp) = "Stopped"
    <3>1. dsp.stop /\ ~Producing BY <2>6, BlockingQueues DEF Drains
    <3>2. count'.dropped = count.dropped + 1
      BY <1>10, <2>6, FlowNumbers DEF MoverForward, Lost, Counts
    <3>3. dsp'.items = dsp.items BY <2>2, <2>3, <2>6, FlowNumbers, QueuePush
    <3>4. count'.dropped + Holding("mover")' <= 1
      BY <1>1, <2>2, <2>3, <3>1, <3>2 DEF Drains
    <3> QED BY <1>4, <1>5, <1>6, <2>3, <2>4, <3>1, <3>3, <3>4 DEF Drains
  <2>7. CASE PushResult(dsp) = "Pushed"
    <3>1. ~dsp.stop BY <2>7, BlockingQueues
    <3>2. Step("consumer") \notin {"idle", "flush"} BY <3>1 DEF Drains
    <3>3. count'.dropped = count.dropped
      BY <1>10, <2>7, FlowNumbers DEF MoverForward, Lost, Counts
    <3>4. ~Producing => count'.dropped + Holding("mover")' <= 1
      BY <1>1, <2>2, <2>3, <3>3 DEF Drains
    <3> QED BY <1>4, <1>5, <1>6, <2>3, <2>4, <3>2, <3>3, <3>4 DEF Drains
  <2> QED BY <2>5, <2>6, <2>7
<1> QED BY <1>3, <1>7, <1>8, <1>9, <1>10 DEF Mover

LEMMA ConsumerDrains ==
  ASSUME TypeOK, Scripted, Undisturbed, Undisturbed', ClosersHaveReasons, Drains,
         Consumer \/ RecorderPop
  PROVE  Drains'
<1> USE DEF session, queues
<1>1. {"producer", "mover", "consumer", "recorder"} \subseteq Threads
  BY FlowNumbers
<1>2. trouble = {} /\ trouble' = {} BY DEF Undisturbed
<1>3. ~Closing("consumer") /\ ~MarkError("consumer") /\ ~ConsumerThrows
  <2>1. Closing("consumer") \/ MarkError("consumer") => Step("consumer") \in ClosingSteps \cup {"markError"}
    BY <1>1, ClosingMoves, ConsumerMoves
  <2>2. ~ConsumerThrows BY <1>2 DEF ConsumerThrows
  <2> QED BY <1>2, <2>1, <2>2 DEF ClosersHaveReasons
<1>4. /\ Step("producer")' = Step("producer") /\ Step("mover")' = Step("mover")
  BY <1>1, <1>3, ConsumerMoves, RecorderMoves DEF Consumer, Moves
<1>5. (Producing' <=> Producing) /\ (Draining' <=> Draining)
  BY <1>4 DEF Producing, Draining
<1>6. /\ config' = config /\ stop' = stop /\ poolStop' = poolStop /\ count' = count /\ acq' = acq
      /\ hand'["mover"] = hand["mover"]
  BY <1>1, <1>3, FlowNumbers
     DEF Consumer, ConsumerPop, ConsumerProcess, ConsumerFlush, RecorderPop, TypeOK
<1>7. rec'.stop = rec.stop
  <2>1. rec' = rec \/ (rec.items # <<>> /\ rec' = AfterPop(rec))
    BY <1>3 DEF Consumer, ConsumerPop, ConsumerProcess, ConsumerFlush, RecorderPop
  <2> QED BY <2>1, FlowNumbers, QueuePop
<1>8. dsp'.stop = dsp.stop
  <2>1. dsp' = dsp \/ (dsp.items # <<>> /\ dsp' = AfterPop(dsp))
    BY <1>3 DEF Consumer, ConsumerPop, ConsumerProcess, ConsumerFlush, RecorderPop
  <2> QED BY <2>1, FlowNumbers, QueuePop
<1>9. Step("consumer")' \in {"idle", "flush"} => dsp'.items = <<>> /\ dsp.stop
  <2>1. CASE ConsumerPop
    <3>1. Step("consumer")' = IF dsp.items # <<>> THEN "process" ELSE "flush"
      BY <1>1, <2>1, ConsumerMoves DEF Moves
    <3> QED BY <2>1, <3>1 DEF ConsumerPop
  <2>2. CASE ConsumerProcess BY <1>1, <2>2, ConsumerMoves DEF Moves
  <2>3. CASE ConsumerFlush BY <2>3, ConsumerMoves DEF ConsumerFlush, Drains
  <2>4. CASE RecorderPop
    <3>1. Step("consumer")' = Step("consumer") /\ dsp' = dsp
      BY <1>1, <2>4, RecorderMoves DEF Moves, RecorderPop
    <3> QED BY <3>1 DEF Drains
  <2> QED BY <1>3, <2>1, <2>2, <2>3, <2>4 DEF Consumer
<1> QED BY <1>4, <1>5, <1>6, <1>7, <1>8, <1>9 DEF Drains, Holding

LEMMA CallerDrains ==
  ASSUME TypeOK, Scripted, Locking, Sessions, ClosersHaveReasons, DrainsWell, Undisturbed',
         NEW c \in Callers, Call(c) \/ Continue(c)
  PROVE  Drains'
<1> USE DEF session, queues
<1>1. /\ c \in Threads /\ {"producer", "mover", "consumer"} \subseteq Workers
      /\ state' \in InSession \cup {"Stopped"} /\ ~asked' /\ trouble' = {}
      /\ count.received \in Nat /\ count.dropped \in Nat /\ config.max \in Nat
  BY FlowNumbers, ConfigTypes DEF Threads, Workers, Undisturbed, TypeOK
<1>2. ~Configure(c) /\ ~StartSpawnFails(c)
  BY <1>1 DEF Configure, StartSpawnFails, InSession
<1>3. ~Closing(c)
  <2>1. Closing(c) => Step(c) \in ClosingSteps /\ asked' = asked /\ trouble' = trouble
    BY <1>1, ClosingMoves, ClosingKeeps
  <2> QED BY <1>1, <2>1 DEF ClosersHaveReasons
<1>4. RequestStop(c) => state # "Running" BY <1>1 DEF RequestStop
<1>5. CASE Start(c)
  <2>1. /\ state = "Configured" /\ config' = config /\ count' = count /\ stop' = stop
        /\ poolStop' = poolStop /\ acq' = acq /\ dsp' = dsp /\ rec' = rec
    BY <1>5 DEF Start
  <2>2. Step("producer")' = "check" /\ Step("consumer")' = "pop"
    BY <1>5, StartMoves
  <2>3. Producing' /\ ~Draining' BY <2>2, ProducerSteps DEF Producing, Draining
  <2>4. /\ ~stop' /\ ~poolStop' /\ ~acq'.stop /\ ~dsp'.stop /\ ~rec'.stop
        /\ count'.received = 0 /\ count'.dropped = 0
    BY <2>1 DEF Sessions
  <2>5. count'.received <= config'.max BY <1>1, <2>1, <2>4
  <2> QED BY <2>2, <2>3, <2>4, <2>5 DEF Drains
<1>6. ASSUME ~Start(c) PROVE Drains'
  <2>1. \A w \in Workers : Step(w)' = Step(w)
    BY <1>2, <1>6, CallersLeaveWorkers
  <2>2. /\ config' = config /\ stop' = stop /\ poolStop' = poolStop /\ hand' = hand
        /\ asked' = asked /\ trouble' = trouble
    BY <1>2, <1>3, <1>4, <1>6
       DEF Continue, Call, Refused, AbortStart, RequestStop, Release, Join, JoinWorkers
  <2>3. AbortStart(c) \/ JoinWorkers(c) => state \in InSession
    <3>1. AbortStart(c) \/ JoinWorkers(c) => Step(c) \in LockedSteps
      BY CallerMoves DEF LockedSteps
    <3> QED BY <3>1, CallersAssumption DEF Locking, Sessions
  <2>4. ~AbortStart(c) /\ ~JoinWorkers(c) => state' = state
    BY <1>2, <1>3, <1>4, <1>6 DEF Continue, Call, Refused, RequestStop, Release, Join
  <2>5. Undisturbed BY <1>1, <2>1, <2>2, <2>3, <2>4 DEF Undisturbed, MoverStops
  <2>6. Drains BY <2>5 DEF DrainsWell, Drains
  <2>7. /\ Step("producer")' = Step("producer") /\ Step("consumer")' = Step("consumer")
        /\ (Producing' <=> Producing) /\ (Draining' <=> Draining)
        /\ Holding("mover")' = Holding("mover")
    BY <1>1, <2>1, <2>2 DEF Producing, Draining, Holding
  <2>8. CASE JoinWorkers(c)
    <3>1. Step("producer") = "idle" /\ Step("consumer") = "idle"
      BY <1>1, <2>8 DEF JoinWorkers, WorkersDone, Step, First
    <3>2. ~Producing BY <3>1, ProducerSteps DEF Producing
    <3>3. acq.items = <<>> /\ dsp.items = <<>> BY <2>6, <3>1, <3>2 DEF Drains
    <3>4. Len(acq.items) = 0 /\ Len(dsp.items) = 0 BY <3>3
    <3>5. count'.received = count.received /\ count'.dropped = count.dropped
      <4>1. count'.dropped = count.dropped + Len(acq.items) + Len(dsp.items)
        BY <2>8, FlowNumbers DEF JoinWorkers, Counts
      <4> QED BY <1>1, <2>8, <3>4, <4>1, FlowNumbers DEF JoinWorkers, Counts
    <3>6. acq'.items = <<>> /\ dsp'.items = <<>> /\ dsp'.stop = dsp.stop
      BY <2>8, FlowNumbers, QueueAbandons DEF JoinWorkers
    <3> QED BY <2>2, <2>6, <2>7, <3>2, <3>5, <3>6 DEF Drains
  <2>9. CASE ~JoinWorkers(c)
    <3>1. count' = count /\ acq' = acq /\ dsp' = dsp /\ rec' = rec
      BY <1>2, <1>3, <1>4, <1>6, <2>9
         DEF Continue, Call, Refused, AbortStart, RequestStop, Release, Join
    <3> QED BY <2>2, <2>6, <2>7, <3>1 DEF Drains
  <2> QED BY <2>8, <2>9
<1> QED BY <1>5, <1>6

LEMMA DrainsWellKept ==
  ASSUME TypeOK, Scripted, Locking, Sessions, ClosersHaveReasons, Flow, DrainsWell, [Next]_vars
  PROVE  DrainsWell'
<1>1. SUFFICES ASSUME Undisturbed' PROVE Drains'
  BY DEF DrainsWell, Drains
<1>2. CASE WorkerStep
  <2>1. Undisturbed /\ state # "Created"
    BY <1>1, <1>2, WorkersDisturb DEF InSession
  <2>2. Drains BY <2>1 DEF DrainsWell, Drains
  <2> QED BY <1>1, <1>2, <2>1, <2>2, ProducerDrains, MoverDrains, ConsumerDrains DEF WorkerStep
<1>3. CASE \E c \in Callers : Call(c) \/ Continue(c)
  BY <1>1, <1>3, CallerDrains
<1>4. CASE UNCHANGED vars
  <2> USE <1>4 DEF vars, session, queues
  <2>1. /\ \A t : Step(t)' = Step(t)
        /\ (Producing' <=> Producing) /\ (Draining' <=> Draining)
        /\ Holding("mover")' = Holding("mover")
    BY DEF Step, Producing, Draining, Holding
  <2>2. Undisturbed BY <1>1, <2>1 DEF Undisturbed, MoverStops
  <2>3. Drains BY <2>2 DEF DrainsWell, Drains
  <2> QED BY <2>1, <2>3 DEF Drains
<1> QED BY <1>2, <1>3, <1>4 DEF Next, WorkerStep

-----------------------------------------------------------------------------
(* The theorems                                                            *)

IInv ==
  /\ TypeOK /\ Scripted /\ Locking /\ Sessions
  /\ FailureKnown /\ ClosersHaveReasons /\ Flow /\ DrainsWell

LEMMA Starts == Init => IInv
<1> SUFFICES ASSUME Init PROVE IInv
  OBVIOUS
<1>1. script = [t \in Threads |-> <<>>] /\ Workers \subseteq Threads /\ Callers \subseteq Threads
  BY DEF Init, Threads
<1>2. Scripted
  <2>1. <<>> \in Seq(AllSteps) BY EmptySeq
  <2> QED BY <1>1, <2>1, EmptyScript DEF Scripted
<1>3. \A t \in Threads : Step(t) = "idle" BY <1>1 DEF Step, First
<1>4. Idle /\ Step("producer") = "idle" /\ Step("mover") = "idle" /\ Step("consumer") = "idle"
      /\ \A c \in Callers : Step(c) = "idle"
  BY <1>1, <1>3 DEF Idle, Workers
<1>5. "idle" \notin LockedSteps \cup ClosingSteps \cup {"markError"}
  BY DEF LockedSteps, ClosingSteps
<1>6. NewQueue(1, "Block") \in QueueRecords(Blocks)
  <2>1. <<>> \in Seq(Blocks) BY EmptySeq
  <2> QED BY <2>1 DEF NewQueue, QueueRecords, Policies
<1>7. TypeOK
  <2>1. [received |-> 0, dropped |-> 0] \in Counts /\ [w \in Workers |-> 0] \in [Workers -> Nat]
    BY DEF Counts
  <2> QED BY <1>6, <2>1 DEF Init, TypeOK, EngineStates
<1>8. Locking /\ ClosersHaveReasons
  BY <1>4, <1>5, CallersAssumption DEF Locking, ClosersHaveReasons, Init
<1>9. Sessions /\ FailureKnown /\ DrainsWell
  BY <1>4 DEF Sessions, FailureKnown, DrainsWell, Undisturbed, InSession, Init
<1>10. Flow
  <2>1. hand["producer"] = 0 /\ hand["mover"] = 0 BY DEF Init, Workers
  <2>2. Hands /\ OverflowEndsTheMover /\ RecorderFollows
    BY <1>4, <2>1 DEF Hands, OverflowEndsTheMover, RecorderFollows, Lossless, Init
  <2>3. BlocksConserved
    <3>1. /\ count.received = 0 /\ count.dropped = 0 /\ dsp.popped = 0
          /\ Len(acq.items) = 0 /\ Len(dsp.items) = 0
          /\ Holding("producer") = 0 /\ Holding("mover") = 0 /\ Missing = 0
      BY <2>1 DEF Init, NewQueue, Holding, Missing
    <3> QED BY <3>1 DEF BlocksConserved, Accounted, Missing
  <2> QED BY <2>2, <2>3 DEF Flow
<1> QED BY <1>2, <1>7, <1>8, <1>9, <1>10 DEF IInv

LEMMA Continues == IInv /\ [Next]_vars => IInv'
<1> SUFFICES ASSUME IInv, [Next]_vars PROVE IInv'
  OBVIOUS
<1>1. /\ TypeOK /\ Scripted /\ Locking /\ Sessions /\ Hands
      /\ FailureKnown /\ ClosersHaveReasons /\ Flow /\ DrainsWell
  BY DEF IInv, Flow
<1> QED BY <1>1, TypeKept, ScriptedKept, LockingKept, SessionsKept, FailureKnownKept, ReasonsKept,
           FlowKept, DrainsWellKept DEF IInv

LEMMA Invariance == Spec => []IInv
BY Starts, Continues, PTL DEF Spec

(* The failure of the consumer, or of start, is shown as ERROR until the   *)
(* owner joins: while a failure is recorded, the consumer is about to mark *)
(* it, a caller that still holds the lock takes the start back, or it is   *)
(* marked, and no later step of the session takes the mark away.           *)
THEOREM FailureIsShownCorrect == Spec => []FailureIsShown
<1>1. IInv => FailureIsShown
  <2> SUFFICES ASSUME IInv, "failure" \in trouble, script["consumer"] = <<>>, lock = "free"
               PROVE  state \in {"Error", "Stopped"}
    BY DEF FailureIsShown
  <2>1. Step("consumer") = "idle" BY DEF Step, First
  <2> QED BY <2>1, CallersAssumption DEF IInv, FailureKnown
<1> QED BY <1>1, Invariance, PTL

(* No block is hidden: what the producer counted was counted as dropped,   *)
(* reached the consumer or is on its way; a recorder with backpressure     *)
(* misses none; and a finite run nobody disturbed gives up at most one.    *)
THEOREM NoBlockHiddenCorrect == Spec => []NoBlockHidden
<1>1. IInv => NoBlockHidden
  <2> SUFFICES ASSUME IInv PROVE NoBlockHidden
    OBVIOUS
  <2>1. BlocksConserved BY DEF IInv, Flow
  <2>2. RecorderMissesNothing
    <3> SUFFICES ASSUME Lossless
                 PROVE  /\ rec.dropped = 0 /\ acq.popped - rec.pushed \in {0, 1}
                        /\ acq.popped > rec.pushed => At("mover", "tee") \/ rec.stop
      BY DEF RecorderMissesNothing, Lossless
    <3>1. acq.popped \in Nat /\ rec.pushed \in Nat /\ "mover" \in Threads /\ "tee" \in AllSteps
      BY FlowNumbers DEF IInv, AllSteps, MoverSteps
    <3>2. At("mover", "tee") <=> Step("mover") = "tee" BY <3>1, IsAt DEF IInv
    <3>3. \/ acq.popped = rec.pushed
          \/ Step("mover") = "tee" /\ acq.popped = rec.pushed + 1
          \/ rec.stop /\ acq.popped = rec.pushed + 1
      BY DEF IInv, Flow, RecorderFollows
    <3>4. rec.dropped = 0 BY DEF IInv, Flow, RecorderFollows
    <3> QED BY <3>1, <3>2, <3>3, <3>4
  <2>3. DrainLosesAtMostOne
    <3> SUFFICES ASSUME state = "Stopped", ~asked, trouble = {}, config.max # 0,
                        config.acquisitionPolicy = "Block", config.dspPolicy = "Block"
                 PROVE  count.received = config.max /\ count.dropped <= 1
      BY DEF DrainLosesAtMostOne
    <3>1. Step("producer") = "idle" /\ Step("mover") = "idle"
      BY DEF IInv, Sessions, Idle, InSession, Workers
    <3>2. ~Producing /\ ~MoverStops
      BY <3>1, ProducerSteps DEF Producing, MoverStops
    <3>3. Undisturbed BY <3>2 DEF Undisturbed
    <3>4. count.received = config.max /\ count.dropped + Holding("mover") <= 1
      BY <3>2, <3>3 DEF IInv, DrainsWell
    <3>5. count.dropped \in Nat /\ Holding("mover") \in {0, 1}
      BY FlowNumbers DEF IInv
    <3> QED BY <3>4, <3>5
  <2> QED BY <2>1, <2>2, <2>3 DEF NoBlockHidden
<1> QED BY <1>1, Invariance, PTL

-----------------------------------------------------------------------------
(* The sweep of sdr_monitor (MonitorSweep).                                *)
(*                                                                         *)
(* The segments of a plan are counted in steps: their number is the least  *)
(* that reaches the end of the span.  The rest follows from where a task   *)
(* is.  The tasks are in the order of their numbers, the pool after the    *)
(* threads, so that one that has ended is nowhere else, and an answer that *)
(* waits for its callback is never answered over.  As long as a button is  *)
(* not free, something that frees it is queued, runs, or is on its way to  *)
(* the page.                                                               *)

(* What SweepConfiguration and the page admit: a span that is not empty, an*)
(* overlap below a half, and a mode whose width is at least two units.     *)
SweepConfigsFit ==
  \A c \in SweepConfigs :
    /\ c \in [start : Nat, stop : Nat, width : Nat, overlap : 0..49, margin : Nat]
    /\ c.start < c.stop /\ c.width >= 2

LEMMA Quotient ==
  ASSUME NEW a \in Nat, NEW b \in Nat, b >= 1
  PROVE /\ a \div b \in Nat
        /\ b * (a \div b) <= a /\ a < b * (a \div b) + b
OBVIOUS

LEMMA StepFits ==
  ASSUME NEW w \in Nat, w >= 2, NEW o \in 0..49
  PROVE (w * (100 - o)) \div 100 \in 1..w
<1> DEFINE p == w * (100 - o)
<1>1. p \in Nat /\ p >= 102 /\ p <= 100 * w OBVIOUS
<1> HIDE DEF p
<1>2. p \div 100 \in Nat /\ 100 * (p \div 100) <= p /\ p < 100 * (p \div 100) + 100
      BY <1>1
<1>3. p \div 100 \in 1..w BY <1>1, <1>2
<1> QED BY <1>3 DEF p

(* The number of steps that x needs: one less is not enough.               *)
IsCeiling(k, x, s) ==
  k \in Nat /\ k * s >= x /\ (x > 0 => k >= 1 /\ (k - 1) * s < x) /\ (x = 0 => k = 0)
LEMMA CeilDivFits ==
  ASSUME NEW x \in Nat, NEW s \in Nat, s >= 1
  PROVE IsCeiling(CeilDiv(x, s), x, s)
<1> DEFINE k == (x + s - 1) \div s
<1>1. k \in Nat /\ s * k <= x + s - 1 /\ x + s - 1 < s * k + s BY Quotient
<1> HIDE DEF k
<1>2. k * s >= x BY <1>1
<1>3. ASSUME x > 0 PROVE k >= 1 /\ (k - 1) * s < x
      <2>1. k # 0 BY <1>1, <1>3
      <2> QED BY <1>1, <2>1
<1>4. ASSUME x = 0 PROVE k = 0
      <2>1. ASSUME k >= 1 PROVE FALSE
            <3>1. s * k >= s BY <1>1, <2>1
            <3> QED BY <1>1, <1>4, <3>1
      <2> QED BY <1>1, <2>1
<1> QED BY <1>1, <1>2, <1>3, <1>4 DEF k, CeilDiv, IsCeiling

LEMMA TimesOrdered ==
  ASSUME NEW a \in Nat, NEW b \in Nat, NEW s \in Nat, a <= b
  PROVE a * s <= b * s /\ a * s \in Nat /\ (a + 1) * s = a * s + s
OBVIOUS

SegmentsCover(c) ==
  LET s == Segments(c) n == Len(s) IN
  /\ s[1].start = c.start /\ s[n].stop = c.stop
  /\ \A i \in 1..n : s[i].start < s[i].stop /\ s[i].stop - s[i].start <= c.width
  /\ \A i \in 2..n : s[i - 1].start < s[i].start /\ s[i].start <= s[i - 1].stop
                     /\ s[i - 1].stop < s[i].stop

LEMMA SegmentsFit ==
  ASSUME SweepConfigsFit, NEW c \in SweepConfigs
  PROVE /\ SegmentsCover(c)
        /\ CountOf(c) \in Nat \ {0} /\ Len(Segments(c)) = CountOf(c)
<1> DEFINE w == c.width
           span == c.stop - c.start
           x == LargerOf(0, span - w)
           st == StepOf(c)
           n == CountOf(c)
           k == CeilDiv(x, st)
           low(i) == (i - 1) * st
           s == Segments(c)
<1>1. w \in Nat /\ w >= 2 /\ span \in Nat /\ span >= 1 /\ c.overlap \in 0..49 /\ c.start \in Nat
      /\ c.stop \in Nat
      BY DEF SweepConfigsFit
<1>2. st \in 1..w BY <1>1, StepFits DEF StepOf
<1>3. x \in Nat /\ (x > 0 => x = span - w) /\ (x = 0 => span <= w)
      BY <1>1 DEF LargerOf
<1>4. n = LargerOf(1, k + 1) BY DEF CountOf
<1> HIDE DEF st, x, n
<1>a. st \in Nat /\ st >= 1 /\ x \in Nat
      BY <1>1, <1>2, <1>3
<1>b. IsCeiling(k, x, st)
      BY ONLY <1>a, CeilDivFits
<1>5. k \in Nat /\ k * st >= x /\ (x > 0 => k >= 1 /\ (k - 1) * st < x) /\ (x = 0 => k = 0)
      BY ONLY <1>b DEF IsCeiling
<1> HIDE DEF k
<1>6. n = k + 1 /\ n \in Nat /\ n >= 1 BY <1>4, <1>5 DEF LargerOf
(* The last segment reaches the end, and the one before it does not.       *)
<1>7. low(n) + w >= span /\ low(n) < span
      <2>1. low(n) = k * st BY <1>5, <1>6
      <2>2. CASE x > 0
            <3>1. k * st = (k - 1) * st + st BY <1>2, <1>5, <2>2
            <3> QED BY <1>1, <1>2, <1>3, <1>5, <2>1, <2>2, <3>1
      <2>3. CASE x = 0 BY <1>1, <1>2, <1>3, <1>5, <2>1, <2>3
      <2> QED BY <1>3, <2>2, <2>3
<1>8. \A i \in 1..n : /\ low(i) \in Nat /\ low(i) <= low(n)
                      /\ i < n => low(i) + w < span /\ low(i + 1) = low(i) + st
      <2> TAKE i \in 1..n
      <2>1. i - 1 \in Nat /\ i - 1 <= n - 1 /\ n - 1 \in Nat BY <1>6
      <2>2. low(i) \in Nat /\ low(i) <= low(n) BY <1>2, <2>1, TimesOrdered
      <2>3. ASSUME i < n PROVE low(i) + w < span /\ low(i + 1) = low(i) + st
            <3>1. k >= 1 /\ i - 1 <= k - 1 /\ k - 1 \in Nat /\ x > 0
                  BY <1>3, <1>5, <1>6, <2>1, <2>3
            <3>2. (i - 1) * st <= (k - 1) * st
                  BY <1>2, <2>1, <3>1, TimesOrdered
            <3>3. low(i + 1) = low(i) + st BY <1>2, <2>1, TimesOrdered
            <3> HIDE DEF low
            <3>4. low(i) = (i - 1) * st BY DEF low
            <3>5. (k - 1) * st < span - w /\ (k - 1) * st \in Int /\ (i - 1) * st \in Nat
                  BY <1>2, <1>3, <1>5, <2>1, <3>1
            <3> QED BY <1>1, <3>2, <3>3, <3>4, <3>5
      <2> QED BY <2>2, <2>3
<1>9. /\ s = [i \in 1..n |-> s[i]] /\ DOMAIN s = 1..n
      /\ \A i \in 1..n : /\ s[i].start = c.start + low(i)
                         /\ s[i].stop = SmallerOf(c.stop, c.start + low(i) + w)
      BY DEF Segments, n, st
<1>10. Len(s) = n
      <2>1. s \in Seq({s[i] : i \in 1..n}) BY <1>6, <1>9
      <2> QED BY <1>6, <1>9, <2>1
<1> HIDE DEF low, s
<1>11. \A i \in 1..n : /\ (i < n => s[i].stop = c.start + low(i) + w)
                       /\ (i = n => s[i].stop = c.stop)
      BY <1>1, <1>6, <1>7, <1>8, <1>9 DEF SmallerOf
<1>12. low(1) = 0 BY <1>2 DEF low
<1>13. s[1].start = c.start /\ s[n].stop = c.stop
      BY <1>1, <1>6, <1>9, <1>11, <1>12
<1>14. ASSUME NEW i \in 1..n PROVE s[i].start < s[i].stop /\ s[i].stop - s[i].start <= c.width
      <2>1. low(i) \in Nat /\ s[i].start = c.start + low(i) BY <1>8, <1>9
      <2>2. CASE i < n BY <1>1, <1>11, <2>1, <2>2
      <2>3. CASE i = n BY <1>1, <1>7, <1>11, <2>1, <2>3
      <2> QED BY <1>6, <2>2, <2>3
<1>15. ASSUME NEW i \in 2..n
       PROVE s[i - 1].start < s[i].start /\ s[i].start <= s[i - 1].stop /\ s[i - 1].stop < s[i].stop
      <2> DEFINE j == i - 1
      <2>1. j \in 1..n /\ j < n /\ j + 1 = i /\ i \in 1..n BY <1>6
      <2>2. low(i) = low(j) + st /\ low(j) \in Nat /\ low(j) + w < span /\ low(i) \in Nat
            BY <1>8, <2>1
      <2>3. s[j].start = c.start + low(j) /\ s[i].start = c.start + low(i)
            /\ s[j].stop = c.start + low(j) + w
            BY <1>9, <1>11, <2>1
      <2>4. s[j].stop < s[i].stop
            <3>1. CASE i < n BY <1>1, <1>2, <1>11, <2>1, <2>2, <2>3, <3>1
            <3>2. CASE i = n BY <1>1, <1>11, <2>1, <2>2, <2>3, <3>2
            <3> QED BY <1>6, <2>1, <3>1, <3>2
      <2> QED BY <1>1, <1>2, <2>2, <2>3, <2>4
<1> QED BY <1>6, <1>10, <1>13, <1>14, <1>15 DEF SegmentsCover, s, n

-----------------------------------------------------------------------------
SweepOps == {"plan", "export", "cancel", "execute"}
SweepTasks == [id : Nat \ {0}, op : SweepOps, config : SweepConfigs]
LanePlaces == {"idle", "before", "after"} \cup SweepOps
LaneType == [at : LanePlaces, task : SweepTasks \cup {None}, done : Nat]
SweepSignals ==
  [kind : {"plan", "progress", "result", "busy"},
   value : SweepConfigs \cup {"running", "completed", None}]
PageFields == {"config", "plan", "result", "canRun", "canPlan", "canCancel"}
IsPage(p) == p = [f \in PageFields |-> p[f]] /\ p.config \in SweepConfigs

(* What a signal does to the button that cancels: offers it, or takes it.  *)
Offers(s) == s.kind = "progress" /\ s.value = "running"
Settles(s) == s.kind = "result" \/ (s.kind = "progress" /\ s.value # "running")

AnAnswer(s) == s \in Seq(SweepSignals) /\ Len(s) <= 2 /\ \A i \in DOMAIN s : ~Offers(s[i])

SwType ==
  /\ service \in [cancel : BOOLEAN, closed : BOOLEAN]
  /\ pool \in Seq(SweepTasks)
  /\ lane \in [Lanes -> LaneType]
  /\ gui \in Nat
  /\ AnAnswer(ended)
  /\ posted \in Seq(SweepSignals)
  /\ IsPage(page)
  /\ spent \in [commands : Nat, overtaken : BOOLEAN]

Working(l) == lane[l].at # "idle"

(* A task is in one place: the pool has them in order, and after those the *)
(* threads have.  None is left behind its last segment.                    *)
SwInOrder ==
  /\ gui <= spent.commands
  /\ gui = 0 => ended = NoAnswer
  /\ \A l \in Lanes : lane[l].at = "idle" => lane[l] = IdleLane
  /\ \A l \in Lanes : Working(l) => /\ lane[l].task \in SweepTasks
                                    /\ lane[l].task.id <= spent.commands
                                    /\ lane[l].done < CountOf(lane[l].task.config)
  /\ \A l, m \in Lanes : Working(l) /\ Working(m) /\ l # m => lane[l].task.id # lane[m].task.id
  /\ \A i \in DOMAIN pool :
       /\ pool[i].id <= spent.commands
       /\ \A l \in Lanes : Working(l) => lane[l].task.id < pool[i].id
       /\ \A j \in DOMAIN pool : i < j => pool[i].id < pool[j].id

SweepUnderWay(id) ==
  \/ \E i \in DOMAIN pool : pool[i].id = id
  \/ \E l \in Lanes : Working(l) /\ lane[l].task.id = id

(* The callback to be attached finds no answer as long as its task is under*)
(* way.                                                                    *)
SwAttached == SweepUnderWay(gui) => ended = NoAnswer

-----------------------------------------------------------------------------
(* What the steps do.                                                      *)

OneLane(l) == \A m \in Lanes : m # l => lane'[m] = lane[m]

LEMMA SweepHeadTail ==
  ASSUME NEW S, NEW s \in Seq(S), s # <<>>
  PROVE Head(s) \in S /\ Tail(s) \in Seq(S)
OBVIOUS

LEMMA LaneSet ==
  ASSUME SwType, NEW l \in Lanes, NEW r \in LaneType, lane' = [lane EXCEPT ![l] = r]
  PROVE lane' \in [Lanes -> LaneType] /\ OneLane(l) /\ lane'[l] = r
BY DEF SwType, OneLane

LEMMA IdleIsLane == IdleLane \in LaneType /\ IdleLane.at = "idle"
BY DEF IdleLane, LaneType, LanePlaces

LEMMA SweepSignalType ==
  ASSUME NEW k \in {"plan", "progress", "result", "busy"},
         NEW v \in SweepConfigs \cup {"running", "completed", None}
  PROVE Signal(k, v) \in SweepSignals /\ Signal(k, v).kind = k /\ Signal(k, v).value = v
BY DEF Signal, SweepSignals

(* A signal and the end of busy, an answer of one signal, and of none.     *)
LEMMA AnswersAre ==
  /\ AnAnswer(<<>>) /\ AnAnswer(<<BusyOff>>) /\ AnAnswer(<<Signal("result", None), BusyOff>>)
  /\ \A c \in SweepConfigs : AnAnswer(<<Signal("plan", c), BusyOff>>)
<1>1. BusyOff \in SweepSignals /\ ~Offers(BusyOff)
      BY SweepSignalType DEF BusyOff, Offers
<1>2. Signal("result", None) \in SweepSignals /\ ~Offers(Signal("result", None))
      BY SweepSignalType DEF Offers
<1>3. \A c \in SweepConfigs : Signal("plan", c) \in SweepSignals /\ ~Offers(Signal("plan", c))
      BY SweepSignalType DEF Offers
<1>4. ASSUME NEW a \in SweepSignals, NEW b \in SweepSignals, ~Offers(a), ~Offers(b)
      PROVE AnAnswer(<<a, b>>)
      <2>1. <<a, b>> \in Seq(SweepSignals) /\ Len(<<a, b>>) = 2 /\ DOMAIN <<a, b>> = 1..2
            OBVIOUS
      <2>2. \A i \in 1..2 : ~Offers(<<a, b>>[i]) BY <1>4
      <2> QED BY <2>1, <2>2 DEF AnAnswer
<1>5. AnAnswer(<<>>) BY DEF AnAnswer
<1>6. AnAnswer(<<BusyOff>>)
      <2> DEFINE b == BusyOff
      <2>1. b \in SweepSignals /\ ~Offers(b) BY <1>1
      <2> HIDE DEF b
      <2>2. AnAnswer(<<b>>) BY <2>1 DEF AnAnswer
      <2> QED BY <2>2 DEF b
<1>7. AnAnswer(<<Signal("result", None), BusyOff>>) BY <1>1, <1>2, <1>4
<1>8. \A c \in SweepConfigs : AnAnswer(<<Signal("plan", c), BusyOff>>)
      BY <1>1, <1>3, <1>4
<1> QED BY <1>5, <1>6, <1>7, <1>8

(* The end of a task: its answer waits for the callback, or is posted.     *)
EndsEarly(l, answer) == gui = lane[l].task.id /\ ended' = answer
EndsLate(l, progress, answer) ==
  gui # lane[l].task.id /\ UNCHANGED ended
  /\ (~service.closed => posted' = posted \o (progress \o answer))

LEMMA EndsDoes ==
  ASSUME SwType, NEW l \in Lanes, NEW progress \in Seq(SweepSignals), NEW answer, AnAnswer(answer),
         Ends(l, progress, answer)
  PROVE /\ lane' \in [Lanes -> LaneType] /\ OneLane(l) /\ lane'[l] = IdleLane
        /\ AnAnswer(ended') /\ posted' \in Seq(SweepSignals)
        /\ EndsEarly(l, answer) \/ EndsLate(l, progress, answer)
        /\ gui = lane[l].task.id /\ ~service.closed => posted' = posted \o progress
<1>1. lane' = [lane EXCEPT ![l] = IdleLane] BY DEF Ends
<1>2. lane' \in [Lanes -> LaneType] /\ OneLane(l) /\ lane'[l] = IdleLane
      BY <1>1, LaneSet, IdleIsLane
<1>3. answer \in Seq(SweepSignals) /\ posted \in Seq(SweepSignals) /\ AnAnswer(ended)
      BY DEF AnAnswer, SwType
<1>4. posted \o progress \o answer = posted \o (progress \o answer)
      /\ posted \o progress \o <<>> = posted \o progress
      BY <1>3
<1>5. CASE gui = lane[l].task.id
      <2>1. ended' = answer /\ posted' = IF service.closed THEN <<>> ELSE posted \o progress
            BY <1>4, <1>5 DEF Ends
      <2> QED BY <1>2, <1>3, <1>5, <2>1 DEF EndsEarly
<1>6. CASE gui # lane[l].task.id
      <2>1. ended' = ended /\ posted' = IF service.closed THEN <<>> ELSE posted \o (progress \o answer)
            BY <1>4, <1>6 DEF Ends
      <2> QED BY <1>2, <1>3, <1>6, <2>1 DEF EndsLate
<1> QED BY <1>5, <1>6

(* The sweep that ends, cancelled or complete.                             *)
LEMMA OutcomeDoes ==
  ASSUME SwType, NEW l \in Lanes, NEW how \in {"cancelled", "completed"}, NEW done, Outcome(l, how, done)
  PROVE /\ \E progress \in Seq(SweepSignals) :
             /\ \A i \in DOMAIN progress : ~Offers(progress[i])
             /\ Ends(l, progress, <<Signal("result", None), BusyOff>>)
        /\ told' = [state |-> how, done |-> done, total |-> Total(l), heard |-> l \in heard]
        /\ heard' = heard \ {l}
<1> DEFINE c == Signal("progress", "completed")
           p == IF how = "completed" THEN <<c>> ELSE <<>>
<1>1. c \in SweepSignals /\ ~Offers(c) BY SweepSignalType DEF Offers
<1> HIDE DEF c
<1>2. p \in Seq(SweepSignals) /\ \A i \in DOMAIN p : ~Offers(p[i]) BY <1>1
<1>3. Ends(l, p, <<Signal("result", None), BusyOff>>) BY DEF Outcome, c
<1> QED BY <1>2, <1>3 DEF Outcome

(* What a signal makes of the page.                                        *)
LEMMA ShownKeeps ==
  ASSUME NEW p, IsPage(p), NEW s \in SweepSignals
  PROVE /\ IsPage(Shown(p, s)) /\ Shown(p, s).config = p.config
        /\ p.canPlan => Shown(p, s).canPlan
        /\ s.kind = "busy" => Shown(p, s).canPlan
        /\ Settles(s) => ~Shown(p, s).canCancel
        /\ ~Offers(s) /\ Shown(p, s).canCancel => p.canCancel
<1>1. s.kind \in {"plan", "progress", "result", "busy"} BY DEF SweepSignals
<1>2. p = [f \in PageFields |-> p[f]] /\ p.config \in SweepConfigs
      BY DEF IsPage
<1>3. CASE s.kind = "plan"
      <2>1. Shown(p, s) = ShownPlan(p, s.value) BY <1>3 DEF Shown
      <2>2. CASE s.value = p.config
            <3> DEFINE q == [p EXCEPT !.plan = s.value, !.canRun = TRUE]
            <3>1. q = [f \in PageFields |-> q[f]] /\ q.config = p.config /\ q.canPlan = p.canPlan
                  /\ q.canCancel = p.canCancel
                  BY <1>2 DEF PageFields
            <3>2. Shown(p, s) = q BY <2>1, <2>2 DEF ShownPlan
            <3> HIDE DEF q
            <3> QED BY <1>2, <1>3, <3>1, <3>2 DEF IsPage, Settles, Offers
      <2>3. CASE s.value # p.config
            <3>1. Shown(p, s) = p BY <2>1, <2>3 DEF ShownPlan
            <3> QED BY <1>3, <3>1 DEF Settles, Offers
      <2> QED BY <2>2, <2>3
<1>4. CASE s.kind = "progress"
      <2> DEFINE b == s.value = "running"
                 q == [p EXCEPT !.canCancel = b]
      <2>1. Shown(p, s) = q BY <1>4 DEF Shown
      <2>2. b \in BOOLEAN /\ (Offers(s) <=> b) /\ (Settles(s) <=> ~b)
            BY <1>4 DEF Offers, Settles
      <2> HIDE DEF b
      <2>3. q = [f \in PageFields |-> q[f]] /\ q.config = p.config /\ q.canPlan = p.canPlan
            /\ q.canCancel = b
            BY <1>2 DEF PageFields
      <2> HIDE DEF q
      <2> QED BY <1>2, <1>4, <2>1, <2>2, <2>3 DEF IsPage
<1>5. CASE s.kind = "result"
      <2> DEFINE q == [p EXCEPT !.result = TRUE, !.canCancel = FALSE]
      <2>1. Shown(p, s) = q BY <1>5 DEF Shown
      <2>2. q = [f \in PageFields |-> q[f]] /\ q.config = p.config /\ q.canPlan = p.canPlan
            /\ q.canCancel = FALSE
            BY <1>2 DEF PageFields
      <2> HIDE DEF q
      <2> QED BY <1>2, <1>5, <2>1, <2>2 DEF IsPage
<1>6. CASE s.kind = "busy"
      <2> DEFINE b == p.plan # None
                 q == [p EXCEPT !.canPlan = TRUE, !.canRun = b]
      <2>1. Shown(p, s) = q BY <1>6 DEF Shown
      <2> HIDE DEF b
      <2>2. q = [f \in PageFields |-> q[f]] /\ q.config = p.config /\ q.canPlan = TRUE
            /\ q.canCancel = p.canCancel
            BY <1>2 DEF PageFields
      <2> HIDE DEF q
      <2> QED BY <1>2, <1>6, <2>1, <2>2 DEF IsPage, Settles, Offers
<1> QED BY <1>1, <1>3, <1>4, <1>5, <1>6

(* And an answer, whose signals offer nothing.                             *)
LEMMA ShownAllKeeps ==
  ASSUME NEW p, IsPage(p), NEW a, AnAnswer(a)
  PROVE /\ IsPage(ShownAll(p, a)) /\ ShownAll(p, a).config = p.config
        /\ p.canPlan \/ (\E i \in DOMAIN a : a[i].kind = "busy") => ShownAll(p, a).canPlan
        /\ ShownAll(p, a).canCancel => p.canCancel /\ \A i \in DOMAIN a : ~Settles(a[i])
<1>1. a \in Seq(SweepSignals) /\ Len(a) <= 2 /\ (\A i \in DOMAIN a : ~Offers(a[i]))
      /\ DOMAIN a = 1..Len(a)
      BY DEF AnAnswer
<1>2. CASE a = NoAnswer
      <2>1. ShownAll(p, a) = p /\ DOMAIN a = {} BY <1>2 DEF ShownAll, NoAnswer
      <2> QED BY <2>1
<1>3. CASE Len(a) = 1
      <2> DEFINE q == Shown(p, a[1])
      <2>1. a # NoAnswer /\ a[1] \in SweepSignals /\ 1 \in DOMAIN a /\ \A i \in DOMAIN a : i = 1
            BY <1>1, <1>3 DEF NoAnswer
      <2>2. ShownAll(p, a) = q BY <1>3, <2>1 DEF ShownAll
      <2>3. /\ IsPage(q) /\ q.config = p.config /\ (p.canPlan => q.canPlan)
            /\ (a[1].kind = "busy" => q.canPlan) /\ (Settles(a[1]) => ~q.canCancel)
               /\ (q.canCancel => p.canCancel)
            BY <1>1, <2>1, ShownKeeps
      <2> HIDE DEF q
      <2> QED BY ONLY <2>1, <2>2, <2>3
<1>4. CASE Len(a) = 2
      <2> DEFINE q == Shown(p, a[1])
                 r == Shown(q, a[2])
      <2>1. /\ a # NoAnswer /\ a[1] \in SweepSignals /\ a[2] \in SweepSignals
            /\ 1 \in DOMAIN a /\ 2 \in DOMAIN a /\ \A i \in DOMAIN a : i \in {1, 2}
            BY <1>1, <1>4 DEF NoAnswer
      <2>2. ShownAll(p, a) = r BY <1>4, <2>1 DEF ShownAll
      <2>3. /\ IsPage(q) /\ q.config = p.config /\ (p.canPlan => q.canPlan)
            /\ (a[1].kind = "busy" => q.canPlan) /\ (Settles(a[1]) => ~q.canCancel)
               /\ (q.canCancel => p.canCancel)
            BY <1>1, <2>1, ShownKeeps
      <2> HIDE DEF q
      <2>4. /\ IsPage(r) /\ r.config = q.config /\ (q.canPlan => r.canPlan)
            /\ (a[2].kind = "busy" => r.canPlan) /\ (Settles(a[2]) => ~r.canCancel)
               /\ (r.canCancel => q.canCancel)
            BY <1>1, <2>1, <2>3, ShownKeeps
      <2> HIDE DEF r
      <2> QED BY ONLY <2>1, <2>2, <2>3, <2>4
<1> QED BY <1>1, <1>2, <1>3, <1>4 DEF NoAnswer

-----------------------------------------------------------------------------
(* The steps by what they do to the tasks.                                 *)

Calm == UNCHANGED <<pool, gui, page, spent>> /\ service' \in [cancel : BOOLEAN, closed : BOOLEAN]
        /\ service'.closed = service.closed

Takes(l) ==
  /\ lane[l].at = "idle" /\ pool # <<>> /\ pool' = Tail(pool)
  /\ lane' \in [Lanes -> LaneType] /\ OneLane(l)
  /\ lane'[l].at = Head(pool).op /\ lane'[l].task = Head(pool) /\ lane'[l].done = 0
  /\ UNCHANGED <<service, gui, ended, posted, page, spent>>

Answers(l, progress, answer) ==
  /\ \A i \in DOMAIN progress : ~Offers(progress[i])
  /\ lane[l].at # "cancel" => \E i \in DOMAIN answer : answer[i].kind = "busy"
  /\ lane[l].at \in {"before", "after"} => \E i \in DOMAIN answer : Settles(answer[i])
  /\ EndsEarly(l, answer) \/ EndsLate(l, progress, answer)
  /\ gui = lane[l].task.id /\ ~service.closed => posted' = posted \o progress

Finishes(l) ==
  /\ Working(l) /\ Calm
  /\ lane' \in [Lanes -> LaneType] /\ OneLane(l) /\ lane'[l] = IdleLane
  /\ AnAnswer(ended') /\ posted' \in Seq(SweepSignals)
  /\ \E progress \in Seq(SweepSignals) : \E answer \in Seq(SweepSignals) :
       AnAnswer(answer) /\ Answers(l, progress, answer)

GoesOn(l) ==
  /\ lane[l].at \in {"execute", "before", "after"} /\ Calm /\ UNCHANGED ended
  /\ lane' \in [Lanes -> LaneType] /\ OneLane(l)
  /\ lane'[l].at \in {"before", "after"} /\ lane'[l].task = lane[l].task
  /\ lane'[l].done < CountOf(lane[l].task.config)
  /\ posted' \in Seq(SweepSignals)
  /\ posted' = posted \/ \E s \in SweepSignals : posted' = Append(posted, s)

Submits ==
  /\ gui = 0 /\ ~service.closed /\ gui' = spent.commands + 1
  /\ spent' \in [commands : Nat, overtaken : BOOLEAN]
  /\ spent'.commands = spent.commands + 1 /\ spent'.overtaken = spent.overtaken
  /\ \E task \in SweepTasks : /\ pool' = Append(pool, task) /\ task.id = spent.commands + 1
                              /\ task.op = "cancel" => page' = page
  /\ IsPage(page') /\ page'.canCancel = page.canCancel
  /\ UNCHANGED <<service, lane, ended, posted>>

Edits ==
  /\ IsPage(page') /\ page'.canPlan = page.canPlan /\ page'.canCancel = page.canCancel
  /\ spent' \in [commands : Nat, overtaken : BOOLEAN]
  /\ spent'.commands = spent.commands + 1 /\ spent'.overtaken = spent.overtaken
  /\ UNCHANGED <<service, pool, lane, gui, ended, posted>>

LEMMA TakeDoes ==
  ASSUME SwType, NEW l \in Lanes, Take(l)
  PROVE Takes(l) /\ UNCHANGED <<told, heard>>
<1>1. pool \in Seq(SweepTasks) /\ pool # <<>> BY DEF SwType, Take
<1>2. Head(pool) \in SweepTasks BY <1>1, SweepHeadTail
<1> DEFINE h == Head(pool)
           r == [at |-> h.op, task |-> h, done |-> 0]
<1>3. h \in SweepTasks /\ h.op \in SweepOps BY <1>2 DEF SweepTasks
<1>4. lane' = [lane EXCEPT ![l] = r] /\ pool' = Tail(pool) /\ lane[l].at = "idle"
      /\ UNCHANGED <<service, gui, ended, posted, page, spent>> /\ UNCHANGED <<told, heard>>
      BY DEF Take
<1>5. h = Head(pool) OBVIOUS
<1> HIDE DEF h
<1>6. r \in LaneType /\ r.at = h.op /\ r.task = h /\ r.done = 0
      BY <1>3 DEF LaneType, LanePlaces
<1> HIDE DEF r
<1>7. lane' \in [Lanes -> LaneType] /\ OneLane(l) /\ lane'[l] = r
      BY <1>4, <1>6, LaneSet
<1> QED BY <1>1, <1>4, <1>5, <1>6, <1>7 DEF Takes

(* A task that ends, from what Ends does.                                  *)
LEMMA EndsFinishes ==
  ASSUME SwType, NEW l \in Lanes, Working(l), Calm,
         NEW progress \in Seq(SweepSignals), NEW answer, AnAnswer(answer), Ends(l, progress, answer),
         \A i \in DOMAIN progress : ~Offers(progress[i]),
         lane[l].at # "cancel" => \E i \in DOMAIN answer : answer[i].kind = "busy",
         lane[l].at \in {"before", "after"} => \E i \in DOMAIN answer : Settles(answer[i])
  PROVE Finishes(l)
<1>1. /\ lane' \in [Lanes -> LaneType] /\ OneLane(l) /\ lane'[l] = IdleLane
      /\ AnAnswer(ended') /\ posted' \in Seq(SweepSignals)
      /\ EndsEarly(l, answer) \/ EndsLate(l, progress, answer)
      /\ gui = lane[l].task.id /\ ~service.closed => posted' = posted \o progress
      BY EndsDoes
<1>2. Answers(l, progress, answer) BY <1>1 DEF Answers
<1>3. answer \in Seq(SweepSignals) BY DEF AnAnswer
<1> QED BY <1>1, <1>2, <1>3 DEF Finishes

LEMMA BusyOffIs == BusyOff.kind = "busy" /\ Signal("result", None).kind = "result"
BY DEF BusyOff, Signal

LEMMA PlanTaskDoes ==
  ASSUME SwType, SwInOrder, NEW l \in Lanes, PlanTask(l)
  PROVE Finishes(l) /\ UNCHANGED <<service, told, heard>>
<1> DEFINE c == lane[l].task.config
           a == <<Signal("plan", c), BusyOff>>
<1>1. lane[l].at = "plan" /\ Ends(l, <<>>, a)
      /\ UNCHANGED <<service, pool, gui, page, told, heard, spent>>
      BY DEF PlanTask
<1>2. Working(l) BY <1>1 DEF Working
<1>3. c \in SweepConfigs BY <1>2 DEF SwInOrder, SweepTasks
<1>4. AnAnswer(a) BY <1>3, AnswersAre
<1>5. \E i \in DOMAIN a : a[i].kind = "busy"
      <2>1. 2 \in DOMAIN a /\ a[2] = BusyOff OBVIOUS
      <2> HIDE DEF a
      <2> QED BY <2>1, BusyOffIs
<1>6. Calm BY <1>1 DEF Calm, SwType
<1>7. <<>> \in Seq(SweepSignals) /\ DOMAIN <<>> = {} OBVIOUS
<1>8. lane[l].at \notin {"before", "after"} BY <1>1
<1> HIDE DEF a
<1> QED BY <1>1, <1>2, <1>4, <1>5, <1>6, <1>7, <1>8, EndsFinishes

(* The end of a task with no plan and no result.                           *)
LEMMA BusyOffFinishes ==
  ASSUME SwType, NEW l \in Lanes, Working(l), Calm, Ends(l, <<>>, <<BusyOff>>),
         lane[l].at \notin {"before", "after"}
  PROVE Finishes(l)
<1> DEFINE a == <<BusyOff>>
<1>1. AnAnswer(a) /\ Ends(l, <<>>, a) BY AnswersAre
<1>2. \E i \in DOMAIN a : a[i].kind = "busy"
      <2>1. 1 \in DOMAIN a /\ a[1] = BusyOff OBVIOUS
      <2> HIDE DEF a
      <2> QED BY <2>1, BusyOffIs
<1>3. <<>> \in Seq(SweepSignals) /\ DOMAIN <<>> = {} OBVIOUS
<1> HIDE DEF a
<1> QED BY <1>1, <1>2, <1>3, EndsFinishes

LEMMA ExportTaskDoes ==
  ASSUME SwType, NEW l \in Lanes, ExportTask(l)
  PROVE Finishes(l) /\ UNCHANGED <<service, told, heard>>
<1>1. lane[l].at = "export" /\ Ends(l, <<>>, <<BusyOff>>)
      /\ UNCHANGED <<service, pool, gui, page, told, heard, spent>>
      BY DEF ExportTask
<1>2. Working(l) /\ lane[l].at \notin {"before", "after"} BY <1>1 DEF Working
<1>3. Calm BY <1>1 DEF Calm, SwType
<1>4. Finishes(l) BY <1>1, <1>2, <1>3, BusyOffFinishes
<1> QED BY <1>1, <1>4

LEMMA CancelTaskDoes ==
  ASSUME SwType, NEW l \in Lanes, CancelTask(l)
  PROVE Finishes(l) /\ service'.cancel /\ UNCHANGED told
<1>1. lane[l].at = "cancel" /\ Ends(l, <<>>, <<>>) /\ UNCHANGED <<pool, gui, page, told, spent>>
      /\ service' = [service EXCEPT !.cancel = TRUE]
      BY DEF CancelTask
<1>2. Working(l) /\ lane[l].at \notin {"before", "after"} BY <1>1 DEF Working
<1>3. Calm /\ service'.cancel BY <1>1 DEF Calm, SwType
<1>4. AnAnswer(<<>>) /\ <<>> \in Seq(SweepSignals) /\ DOMAIN <<>> = {}
      BY AnswersAre
<1>5. Finishes(l) BY <1>1, <1>2, <1>3, <1>4, EndsFinishes
<1> QED BY <1>1, <1>3, <1>5

LEMMA OutcomeFinishes ==
  ASSUME SwType, NEW l \in Lanes, lane[l].at \in {"before", "after"}, Calm,
         NEW how \in {"cancelled", "completed"}, NEW done, Outcome(l, how, done)
  PROVE /\ Finishes(l) /\ heard' = heard \ {l}
        /\ told' = [state |-> how, done |-> done, total |-> Total(l), heard |-> l \in heard]
<1> DEFINE a == <<Signal("result", None), BusyOff>>
<1>1. PICK progress \in Seq(SweepSignals) :
        (\A i \in DOMAIN progress : ~Offers(progress[i])) /\ Ends(l, progress, a)
      BY OutcomeDoes
<1>2. AnAnswer(a) BY AnswersAre
<1>3. (\E i \in DOMAIN a : a[i].kind = "busy") /\ (\E i \in DOMAIN a : Settles(a[i]))
      <2>1. 1 \in DOMAIN a /\ a[1] = Signal("result", None) /\ 2 \in DOMAIN a /\ a[2] = BusyOff
            OBVIOUS
      <2> HIDE DEF a
      <2> QED BY <2>1, BusyOffIs DEF Settles
<1>4. Working(l) BY DEF Working
<1> HIDE DEF a
<1>5. Finishes(l) BY <1>1, <1>2, <1>3, <1>4, EndsFinishes
<1> QED BY <1>5, OutcomeDoes

(* A lane at a place and the segments it has done.                         *)
LEMMA LaneAt ==
  ASSUME SwType, NEW l \in Lanes, NEW at \in LanePlaces, NEW done \in Nat,
         lane' = [lane EXCEPT ![l] = [lane[l] EXCEPT !.at = at, !.done = done]]
  PROVE /\ lane' \in [Lanes -> LaneType] /\ OneLane(l)
        /\ lane'[l].at = at /\ lane'[l].task = lane[l].task /\ lane'[l].done = done
<1> DEFINE r == [lane[l] EXCEPT !.at = at, !.done = done]
<1>1. lane[l] \in LaneType BY DEF SwType
<1>2. r \in LaneType /\ r.at = at /\ r.task = lane[l].task /\ r.done = done
      BY <1>1 DEF LaneType
<1>3. lane' = [lane EXCEPT ![l] = r] OBVIOUS
<1> HIDE DEF r
<1> QED BY <1>2, <1>3, LaneSet

LEMMA LaneMoves ==
  ASSUME SwType, NEW l \in Lanes, NEW at \in LanePlaces, lane' = [lane EXCEPT ![l].at = at]
  PROVE /\ lane' \in [Lanes -> LaneType] /\ OneLane(l)
        /\ lane'[l].at = at /\ lane'[l].task = lane[l].task /\ lane'[l].done = lane[l].done
<1>1. lane[l] \in LaneType /\ lane \in [Lanes -> LaneType] BY DEF SwType
<1> DEFINE r == [lane[l] EXCEPT !.at = at]
<1>2. r \in LaneType /\ r.at = at /\ r.task = lane[l].task /\ r.done = lane[l].done
      BY <1>1 DEF LaneType
<1>3. lane' = [lane EXCEPT ![l] = r] OBVIOUS
<1> HIDE DEF r
<1> QED BY <1>2, <1>3, LaneSet

(* The progress of a sweep that runs.                                      *)
LEMMA EmitDoes ==
  ASSUME SwType, NEW s \in SweepSignals, EmitProgress(s)
  PROVE posted' \in Seq(SweepSignals) /\ (posted' = posted \/ posted' = Append(posted, s))
BY DEF EmitProgress, SwType

LEMMA RunningIs == Signal("progress", "running") \in SweepSignals
BY SweepSignalType

LEMMA ExecuteDoes ==
  ASSUME SwType, SwInOrder, NEW l \in Lanes, Execute(l)
  PROVE (Finishes(l) \/ GoesOn(l)) /\ heard' = {} /\ UNCHANGED told
<1>1. lane[l].at = "execute" /\ service' = [service EXCEPT !.cancel = FALSE] /\ heard' = {}
      /\ UNCHANGED <<pool, gui, page, told, spent>>
      BY DEF Execute
<1>2. Calm BY <1>1 DEF Calm, SwType
<1>3. Working(l) /\ lane[l].at \notin {"before", "after"} BY <1>1 DEF Working
<1>4. CASE service.closed
      <2>1. Ends(l, <<>>, <<BusyOff>>) BY <1>4 DEF Execute
      <2>2. Finishes(l) BY <1>2, <1>3, <2>1, BusyOffFinishes
      <2> QED BY <1>1, <2>2
<1>5. CASE ~service.closed
      <2>1. lane' = [lane EXCEPT ![l].at = "before"] /\ UNCHANGED <<ended, posted>>
            BY <1>5 DEF Execute
      <2>2. lane' \in [Lanes -> LaneType] /\ OneLane(l)
            /\ lane'[l].at = "before" /\ lane'[l].task = lane[l].task /\ lane'[l].done = lane[l].done
            BY <2>1, LaneMoves DEF LanePlaces
      <2>3. lane[l].done < CountOf(lane[l].task.config) BY <1>3 DEF SwInOrder
      <2>4. GoesOn(l) BY <1>1, <1>2, <2>1, <2>2, <2>3 DEF GoesOn, SwType
      <2> QED BY <1>1, <2>4
<1> QED BY <1>4, <1>5

(* A segment before or after it: the sweep is cancelled, goes on, or ends. *)
Cancels(l) == /\ Finishes(l) /\ service.cancel /\ heard' = heard \ {l}
              /\ told' = [state |-> "cancelled", done |-> lane[l].done,
                        total |-> Total(l), heard |-> l \in heard]
Completes(l) == /\ Finishes(l) /\ ~service.cancel /\ heard' = heard \ {l}
                /\ told' = [state |-> "completed", done |-> Total(l),
                          total |-> Total(l), heard |-> l \in heard]

LEMMA CancelledDoes ==
  ASSUME SwType, NEW l \in Lanes, lane[l].at \in {"before", "after"}, service.cancel,
         Outcome(l, "cancelled", lane[l].done), UNCHANGED <<service, pool, gui, page, spent>>
  PROVE Cancels(l)
<1>1. Calm BY DEF Calm, SwType
<1> DEFINE d == lane[l].done
<1>2. Outcome(l, "cancelled", d) OBVIOUS
<1> HIDE DEF d
<1>3. /\ Finishes(l) /\ heard' = heard \ {l}
      /\ told' = [state |-> "cancelled", done |-> d, total |-> Total(l), heard |-> l \in heard]
      BY <1>1, <1>2, OutcomeFinishes
<1> QED BY <1>3 DEF Cancels, d

LEMMA BeforeSegmentDoes ==
  ASSUME SwType, SwInOrder, NEW l \in Lanes, BeforeSegment(l)
  PROVE Cancels(l) \/ (GoesOn(l) /\ UNCHANGED <<told, heard>>)
<1>1. lane[l].at = "before" /\ UNCHANGED <<service, pool, gui, page, spent>>
      BY DEF BeforeSegment
<1>2. CASE service.cancel
      <2>1. Outcome(l, "cancelled", lane[l].done) BY <1>2 DEF BeforeSegment
      <2> QED BY <1>1, <1>2, <2>1, CancelledDoes
<1>3. CASE ~service.cancel
      <2>1. lane' = [lane EXCEPT ![l].at = "after"] /\ EmitProgress(Signal("progress", "running"))
            /\ UNCHANGED <<ended, told, heard>>
            BY <1>3 DEF BeforeSegment, MovesTo
      <2>2. lane' \in [Lanes -> LaneType] /\ OneLane(l)
            /\ lane'[l].at = "after" /\ lane'[l].task = lane[l].task /\ lane'[l].done = lane[l].done
            BY <2>1, LaneMoves DEF LanePlaces
      <2>3. posted' \in Seq(SweepSignals)
            /\ (posted' = posted \/ \E s \in SweepSignals : posted' = Append(posted, s))
            BY <2>1, RunningIs, EmitDoes
      <2>4. lane[l].done < CountOf(lane[l].task.config)
            BY <1>1 DEF SwInOrder, Working
      <2>5. Calm BY <1>1 DEF Calm, SwType
      <2>6. GoesOn(l) BY <1>1, <2>1, <2>2, <2>3, <2>4, <2>5 DEF GoesOn
      <2> QED BY <2>1, <2>6
<1> QED BY <1>2, <1>3

LEMMA AfterSegmentDoes ==
  ASSUME SweepConfigsFit, SwType, SwInOrder, NEW l \in Lanes, AfterSegment(l)
  PROVE Cancels(l) \/ Completes(l) \/ (GoesOn(l) /\ UNCHANGED <<told, heard>>)
<1>1. lane[l].at = "after" /\ UNCHANGED <<service, pool, gui, page, spent>>
      BY DEF AfterSegment
<1>2. Calm BY <1>1 DEF Calm, SwType
<1> DEFINE n == CountOf(lane[l].task.config)
           d == lane[l].done
<1>3. lane[l].task.config \in SweepConfigs /\ d < n /\ d \in Nat
      BY <1>1 DEF SwInOrder, Working, SweepTasks, SwType, LaneType
<1>4. Total(l) = n /\ n \in Nat BY <1>3, SegmentsFit DEF Total
<1> HIDE DEF n
<1>5. CASE service.cancel
      <2>1. Outcome(l, "cancelled", lane[l].done) BY <1>5 DEF AfterSegment
      <2> QED BY <1>1, <1>5, <2>1, CancelledDoes
<1>6. CASE ~service.cancel /\ d + 1 = Total(l)
      <2> DEFINE t == Total(l)
      <2>1. Outcome(l, "completed", t) BY <1>6 DEF AfterSegment
      <2> HIDE DEF t
      <2>2. /\ Finishes(l) /\ heard' = heard \ {l}
            /\ told' = [state |-> "completed", done |-> t, total |-> Total(l), heard |-> l \in heard]
            BY <1>1, <1>2, <2>1, OutcomeFinishes
      <2> QED BY <1>6, <2>2 DEF Completes, t
<1>7. CASE ~service.cancel /\ d + 1 # Total(l)
      <2>1. lane' = [lane EXCEPT ![l] = [lane[l] EXCEPT !.at = "before", !.done = lane[l].done + 1]]
            /\ EmitProgress(Signal("progress", "running")) /\ UNCHANGED <<told, ended, heard>>
            BY <1>7 DEF AfterSegment
      <2> DEFINE k == d + 1
      <2>2. lane' = [lane EXCEPT ![l] = [lane[l] EXCEPT !.at = "before", !.done = k]] /\ k \in Nat
            BY <1>3, <2>1 DEF SwType
      <2>3. k < n BY <1>3, <1>4, <1>7
      <2> HIDE DEF k
      <2>4. lane' \in [Lanes -> LaneType] /\ OneLane(l)
            /\ lane'[l].at = "before" /\ lane'[l].task = lane[l].task /\ lane'[l].done = k
            BY <2>2, LaneAt DEF LanePlaces
      <2>5. posted' \in Seq(SweepSignals)
            /\ (posted' = posted \/ \E s \in SweepSignals : posted' = Append(posted, s))
            BY <2>1, RunningIs, EmitDoes
      <2>6. GoesOn(l) BY <1>1, <1>2, <2>1, <2>3, <2>4, <2>5 DEF GoesOn, n
      <2> QED BY <2>1, <2>6
<1> QED BY <1>5, <1>6, <1>7

-----------------------------------------------------------------------------
(* The page submits a task.                                                *)
LEMMA SubmitDoes ==
  ASSUME SwType, NEW op \in SweepOps, Submit(op, page.config, page)
  PROVE Submits /\ UNCHANGED <<told, heard>>
<1> DEFINE c == page.config
           k == spent.commands + 1
           t == [id |-> k, op |-> op, config |-> c]
<1>1. /\ gui = 0 /\ ~service.closed
      /\ spent' = [spent EXCEPT !.commands = @ + 1]
      /\ pool' = Append(pool, t) /\ gui' = k
      /\ page' = IF op = "cancel" THEN page ELSE [page EXCEPT !.canPlan = FALSE, !.canRun = FALSE]
      /\ UNCHANGED <<service, lane, ended, posted, told, heard>>
      BY DEF Submit
<1>2. spent \in [commands : Nat, overtaken : BOOLEAN] /\ IsPage(page)
      BY DEF SwType
<1>3. spent' \in [commands : Nat, overtaken : BOOLEAN] /\ spent'.commands = k
      /\ spent'.overtaken = spent.overtaken /\ k \in Nat \ {0}
      BY <1>1, <1>2
<1>4. c \in SweepConfigs BY <1>2 DEF IsPage
<1>5. t \in SweepTasks /\ t.id = k /\ t.op = op BY <1>3, <1>4 DEF SweepTasks
<1>6. k = spent.commands + 1 OBVIOUS
<1>7. IsPage(page') /\ page'.canCancel = page.canCancel /\ (op = "cancel" => page' = page)
      <2>1. CASE op = "cancel" BY <1>1, <1>2, <2>1
      <2>2. CASE op # "cancel"
            <3>1. page' = [page EXCEPT !.canPlan = FALSE, !.canRun = FALSE]
                  BY <1>1, <2>2
            <3>2. page = [f \in PageFields |-> page[f]] BY <1>2 DEF IsPage
            <3>3. page' = [f \in PageFields |-> page'[f]] /\ page'.config = page.config
                  /\ page'.canCancel = page.canCancel
                  BY <3>1, <3>2 DEF PageFields
            <3> QED BY <1>2, <2>2, <3>3 DEF IsPage
      <2> QED BY <2>1, <2>2
<1> HIDE DEF t, k
<1>8. \E task \in SweepTasks : /\ pool' = Append(pool, task) /\ task.id = spent.commands + 1
                               /\ task.op = "cancel" => page' = page
      BY <1>1, <1>5, <1>6, <1>7
<1> QED BY <1>1, <1>3, <1>6, <1>7, <1>8 DEF Submits

LEMMA EditDoes ==
  ASSUME SwType, Edit
  PROVE Edits /\ UNCHANGED <<told, heard>>
<1>1. PICK c \in SweepConfigs \ {page.config} :
        page' = IF c.width = page.config.width THEN [page EXCEPT !.config = c]
                ELSE [page EXCEPT !.config = c, !.plan = None, !.canRun = FALSE]
      BY DEF Edit
<1>2. page = [f \in PageFields |-> page[f]] /\ spent \in [commands : Nat, overtaken : BOOLEAN]
      BY DEF SwType, IsPage
<1>3. page' = [f \in PageFields |-> page'[f]] /\ page'.config = c
      /\ page'.canPlan = page.canPlan /\ page'.canCancel = page.canCancel
      <2>1. CASE c.width = page.config.width BY <1>1, <1>2, <2>1 DEF PageFields
      <2>2. CASE c.width # page.config.width BY <1>1, <1>2, <2>2 DEF PageFields
      <2> QED BY <2>1, <2>2
<1>4. IsPage(page') BY <1>3 DEF IsPage
<1>5. spent' = [spent EXCEPT !.commands = @ + 1]
      /\ UNCHANGED <<service, pool, lane, gui, ended, posted, told, heard>>
      BY DEF Edit
<1>6. spent' \in [commands : Nat, overtaken : BOOLEAN]
      /\ spent'.commands = spent.commands + 1 /\ spent'.overtaken = spent.overtaken
      BY <1>2, <1>5
<1> QED BY <1>3, <1>4, <1>5, <1>6 DEF Edits

(* Every step is one of these.                                             *)
SweepShape ==
  \/ \E l \in Lanes : Takes(l) \/ Finishes(l) \/ GoesOn(l)
  \/ Submits \/ Deliver \/ Attach \/ Edits \/ Shutdown

LEMMA StepHasShape ==
  ASSUME SweepConfigsFit, SwType, SwInOrder, SweepNext
  PROVE SweepShape
<1>1. ASSUME NEW l \in Lanes, Take(l) PROVE SweepShape
      BY <1>1, TakeDoes DEF SweepShape
<1>2. ASSUME NEW l \in Lanes, Works(l) PROVE SweepShape
      <2>1. CASE PlanTask(l) BY <2>1, PlanTaskDoes DEF SweepShape
      <2>2. CASE ExportTask(l) BY <2>2, ExportTaskDoes DEF SweepShape
      <2>3. CASE CancelTask(l) BY <2>3, CancelTaskDoes DEF SweepShape
      <2>4. CASE Execute(l) BY <2>4, ExecuteDoes DEF SweepShape
      <2>5. CASE BeforeSegment(l)
            BY <2>5, BeforeSegmentDoes DEF SweepShape, Cancels
      <2>6. CASE AfterSegment(l)
            BY <2>6, AfterSegmentDoes DEF SweepShape, Cancels, Completes
      <2> QED BY <1>2, <2>1, <2>2, <2>3, <2>4, <2>5, <2>6 DEF Works
<1>3. CASE RequestPlan
      BY <1>3, SubmitDoes DEF RequestPlan, SweepShape, SweepOps
<1>4. CASE Run
      <2> DEFINE op == IF page.plan = page.config THEN "execute" ELSE "plan"
      <2>1. op \in SweepOps /\ Submit(op, page.config, page)
            BY <1>4 DEF Run, SweepOps
      <2> HIDE DEF op
      <2> QED BY <2>1, SubmitDoes DEF SweepShape
<1>5. CASE Cancel BY <1>5, SubmitDoes DEF Cancel, SweepShape, SweepOps
<1>6. CASE Export BY <1>6, SubmitDoes DEF Export, SweepShape, SweepOps
<1>7. CASE Edit BY <1>7, EditDoes DEF SweepShape
<1>8. CASE Deliver \/ Attach \/ Shutdown BY <1>8 DEF SweepShape
<1> QED BY <1>1, <1>2, <1>3, <1>4, <1>5, <1>6, <1>7, <1>8 DEF SweepNext

-----------------------------------------------------------------------------
(* The types, and the order of the tasks.                                  *)

LEMMA SwTypeStep ==
  ASSUME SwType, SweepShape
  PROVE SwType'
<1>1. ASSUME NEW l \in Lanes, Takes(l) PROVE SwType'
      <2>1. pool' \in Seq(SweepTasks) BY <1>1, SweepHeadTail DEF SwType, Takes
      <2> QED BY <1>1, <2>1 DEF SwType, Takes
<1>2. ASSUME NEW l \in Lanes, Finishes(l) PROVE SwType'
      BY <1>2 DEF SwType, Finishes, Calm
<1>3. ASSUME NEW l \in Lanes, GoesOn(l) PROVE SwType'
      BY <1>3 DEF SwType, GoesOn, Calm
<1>4. ASSUME Submits PROVE SwType'
      <2>1. pool' \in Seq(SweepTasks) /\ gui' \in Nat
            BY <1>4 DEF SwType, Submits
      <2> QED BY <1>4, <2>1 DEF SwType, Submits
<1>5. ASSUME Deliver PROVE SwType'
      <2>1. Head(posted) \in SweepSignals /\ posted' \in Seq(SweepSignals)
            /\ page' = Shown(page, Head(posted))
            BY <1>5, SweepHeadTail DEF SwType, Deliver
      <2>2. IsPage(page') BY <2>1, ShownKeeps DEF SwType
      <2> QED BY <1>5, <2>1, <2>2 DEF SwType, Deliver
<1>6. ASSUME Attach PROVE SwType'
      <2>1. IsPage(page') BY <1>6, ShownAllKeeps DEF SwType, Attach
      <2>2. AnAnswer(ended') BY <1>6, AnswersAre DEF Attach, NoAnswer
      <2> DEFINE b == spent.overtaken \/ (ended # NoAnswer /\ posted # <<>>)
      <2>3. spent' = [spent EXCEPT !.overtaken = b] /\ b \in BOOLEAN
            BY <1>6 DEF Attach
      <2> HIDE DEF b
      <2>4. spent' \in [commands : Nat, overtaken : BOOLEAN] BY <2>3 DEF SwType
      <2> QED BY <1>6, <2>1, <2>2, <2>4 DEF SwType, Attach
<1>7. ASSUME Edits PROVE SwType' BY <1>7 DEF SwType, Edits
<1>8. ASSUME Shutdown PROVE SwType' BY <1>8 DEF SwType, Shutdown
<1> QED BY <1>1, <1>2, <1>3, <1>4, <1>5, <1>6, <1>7, <1>8 DEF SweepShape

(* The tasks of the pool are a list in the order of their numbers.         *)
LEMMA PoolTail ==
  ASSUME NEW S, NEW s \in Seq(S), s # <<>>
  PROVE /\ Len(Tail(s)) = Len(s) - 1 /\ DOMAIN s = 1..Len(s) /\ DOMAIN Tail(s) = 1..(Len(s) - 1)
        /\ 1 \in DOMAIN s /\ Head(s) = s[1]
        /\ \A i \in DOMAIN Tail(s) : i + 1 \in DOMAIN s /\ Tail(s)[i] = s[i + 1] /\ i + 1 # 1
        /\ \A i \in DOMAIN s : i # 1 => i - 1 \in DOMAIN Tail(s) /\ Tail(s)[i - 1] = s[i]
OBVIOUS

LEMMA SwInOrderStep ==
  ASSUME SweepConfigsFit, SwType, SwInOrder, SwType', SweepShape
  PROVE SwInOrder'
<1>0. pool \in Seq(SweepTasks) /\ lane \in [Lanes -> LaneType] /\ spent.commands \in Nat
      BY DEF SwType
<1>a. \A i \in DOMAIN pool : pool[i] \in SweepTasks /\ i \in Nat /\ i < Len(pool) + 1
      BY <1>0
<1>b. \A i \in DOMAIN pool : pool[i].id \in Nat
      BY <1>a DEF SweepTasks
<1>1. ASSUME NEW l \in Lanes, Takes(l) PROVE SwInOrder'
      <2>1. pool # <<>> /\ pool' = Tail(pool) /\ OneLane(l) /\ ~Working(l)
            /\ UNCHANGED <<gui, ended, spent>>
            /\ lane'[l].at = Head(pool).op /\ lane'[l].task = Head(pool) /\ lane'[l].done = 0
            BY <1>1 DEF Takes, Working
      <2> DEFINE h == Head(pool)
      <2>2. h \in SweepTasks /\ h = pool[1] /\ 1 \in DOMAIN pool
            BY <1>0, <2>1, PoolTail, SweepHeadTail
      <2>3. \A i \in DOMAIN pool' : i + 1 \in DOMAIN pool /\ pool'[i] = pool[i + 1]
            BY <1>0, <2>1, PoolTail
      <2>4. Working(l)' /\ h.id <= spent.commands /\ h.op # "idle"
            BY <2>1, <2>2 DEF Working, SwInOrder, SweepTasks, SweepOps
      <2>5. 0 < CountOf(h.config) /\ CountOf(h.config) \in Nat
            BY <2>2, SegmentsFit DEF SweepTasks
      <2> HIDE DEF h
      <2>6. \A m \in Lanes : m # l => lane'[m] = lane[m] /\ (Working(m)' <=> Working(m))
            BY <2>1 DEF OneLane, Working
      <2>7. lane'[l].task = h /\ lane'[l].done = 0 BY <2>1 DEF h
      <2>8. \A m \in Lanes : Working(m) => lane[m].task.id < h.id
            BY <2>2 DEF SwInOrder
      <2>9. DOMAIN pool \subseteq Nat BY <1>0
      <2>10. \A i \in DOMAIN pool' : h.id < pool'[i].id /\ pool'[i].id <= spent.commands
             <3> TAKE i \in DOMAIN pool'
             <3>1. i + 1 \in DOMAIN pool /\ pool'[i] = pool[i + 1] /\ i \in Nat /\ i >= 1
                   BY <2>3, SwType' DEF SwType
             <3>2. 1 < i + 1 BY <3>1
             <3> QED BY <2>2, <3>1, <3>2 DEF SwInOrder
      <2>11. \A m \in Lanes : lane'[m].at = "idle" => lane'[m] = IdleLane
             BY <2>1, <2>4, <2>6 DEF SwInOrder, Working
      <2>12. \A m \in Lanes : Working(m)' => /\ lane'[m].task \in SweepTasks
                                             /\ lane'[m].task.id <= spent'.commands
                                             /\ lane'[m].done < CountOf(lane'[m].task.config)
             <3> TAKE m \in Lanes
             <3>1. CASE m = l BY <2>1, <2>2, <2>4, <2>5, <2>7, <3>1
             <3>2. CASE m # l BY <2>1, <2>6, <3>2 DEF SwInOrder
             <3> QED BY <3>1, <3>2
      <2>13. \A m, q \in Lanes : Working(m)' /\ Working(q)'
               /\ m # q => lane'[m].task.id # lane'[q].task.id
             <3> TAKE m, q \in Lanes
             <3> SUFFICES ASSUME Working(m)', Working(q)', m # q PROVE lane'[m].task.id # lane'[q].task.id
                   OBVIOUS
             <3>0. \A z \in Lanes : Working(z) => lane[z].task.id \in Nat
                   BY DEF SwInOrder, SweepTasks
             <3>1. h.id \in Nat BY <2>2 DEF SweepTasks
             <3>2. CASE m = l BY <2>6, <2>7, <2>8, <3>0, <3>1, <3>2
             <3>3. CASE q = l BY <2>6, <2>7, <2>8, <3>0, <3>1, <3>3
             <3>4. CASE m # l /\ q # l BY <2>6, <3>4 DEF SwInOrder
             <3> QED BY <3>2, <3>3, <3>4
      <2>14. \A i \in DOMAIN pool' :
               /\ pool'[i].id <= spent'.commands
               /\ \A m \in Lanes : Working(m)' => lane'[m].task.id < pool'[i].id
               /\ \A j \in DOMAIN pool' : i < j => pool'[i].id < pool'[j].id
             <3> TAKE i \in DOMAIN pool'
             <3>1. i + 1 \in DOMAIN pool /\ pool'[i] = pool[i + 1] /\ i \in Nat
                   BY <2>3, SwType' DEF SwType
             <3>2. \A m \in Lanes : Working(m)' => lane'[m].task.id < pool'[i].id
                   BY <2>6, <2>7, <2>10, <3>1 DEF SwInOrder
             <3>3. \A j \in DOMAIN pool' : i < j => pool'[i].id < pool'[j].id
                   <4> TAKE j \in DOMAIN pool'
                   <4>1. j + 1 \in DOMAIN pool /\ pool'[j] = pool[j + 1] /\ j \in Nat
                         BY <2>3, SwType' DEF SwType
                   <4>2. i < j => i + 1 < j + 1 BY <3>1, <4>1
                   <4> QED BY <3>1, <4>1, <4>2 DEF SwInOrder
             <3> QED BY <2>1, <2>10, <3>2, <3>3
      <2>15. gui' <= spent'.commands /\ (gui' = 0 => ended' = NoAnswer)
             BY <2>1 DEF SwInOrder
      <2> QED BY <2>11, <2>12, <2>13, <2>14, <2>15 DEF SwInOrder, Working
(* A task that ends is forgotten; the rest stays in its order.             *)
<1>2. ASSUME NEW l \in Lanes, Finishes(l) PROVE SwInOrder'
      <2>1. OneLane(l) /\ lane'[l] = IdleLane /\ UNCHANGED <<pool, gui, spent>> /\ Working(l)
            BY <1>2 DEF Finishes, Calm
      <2>2. ~Working(l)' BY <2>1, IdleIsLane DEF Working
      <2>3. \A m \in Lanes : m # l => lane'[m] = lane[m] /\ (Working(m)' <=> Working(m))
            BY <2>1 DEF OneLane, Working
      <2>4. gui' = 0 => ended' = NoAnswer
            <3> SUFFICES ASSUME gui' = 0 PROVE ended' = NoAnswer
                  OBVIOUS
            <3>1. lane[l].task.id # 0 /\ gui = 0 /\ ended = NoAnswer
                  BY <2>1 DEF SwInOrder, SweepTasks
            <3>2. UNCHANGED ended
                  BY <1>2, <3>1 DEF Finishes, Answers, EndsEarly, EndsLate
            <3> QED BY <3>1, <3>2
      <2>5. \A m \in Lanes : lane'[m].at = "idle" => lane'[m] = IdleLane
            BY <2>1, <2>3 DEF SwInOrder
      <2>6. \A m \in Lanes : Working(m)' => /\ lane'[m].task \in SweepTasks
                                            /\ lane'[m].task.id <= spent'.commands
                                            /\ lane'[m].done < CountOf(lane'[m].task.config)
            BY <2>1, <2>2, <2>3 DEF SwInOrder
      <2>7. \A m, q \in Lanes : Working(m)' /\ Working(q)'
              /\ m # q => lane'[m].task.id # lane'[q].task.id
            BY <2>2, <2>3 DEF SwInOrder
      <2>8. \A i \in DOMAIN pool' :
              /\ pool'[i].id <= spent'.commands
              /\ \A m \in Lanes : Working(m)' => lane'[m].task.id < pool'[i].id
              /\ \A j \in DOMAIN pool' : i < j => pool'[i].id < pool'[j].id
            BY <2>1, <2>2, <2>3 DEF SwInOrder
      <2>9. gui' <= spent'.commands BY <2>1 DEF SwInOrder
      <2> QED BY <2>4, <2>5, <2>6, <2>7, <2>8, <2>9 DEF SwInOrder, Working
<1>3. ASSUME NEW l \in Lanes, GoesOn(l) PROVE SwInOrder'
      <2>1. /\ OneLane(l) /\ UNCHANGED <<pool, gui, spent, ended>> /\ Working(l) /\ lane'[l].at # "idle"
            /\ lane'[l].task = lane[l].task /\ lane'[l].done < CountOf(lane[l].task.config)
            BY <1>3 DEF GoesOn, Calm, Working
      <2>2. \A m \in Lanes : (Working(m)' <=> Working(m)) /\ lane'[m].task = lane[m].task
            BY <2>1 DEF OneLane, Working
      <2>3. \A m \in Lanes : m # l => lane'[m] = lane[m] BY <2>1 DEF OneLane
      <2>4. \A m \in Lanes : lane'[m].at = "idle" => lane'[m] = IdleLane
            BY <2>1, <2>3 DEF SwInOrder
      <2>5. \A m \in Lanes : Working(m)' => /\ lane'[m].task \in SweepTasks
                                            /\ lane'[m].task.id <= spent'.commands
                                            /\ lane'[m].done < CountOf(lane'[m].task.config)
            BY <2>1, <2>2, <2>3 DEF SwInOrder
      <2>6. \A m, q \in Lanes : Working(m)' /\ Working(q)'
              /\ m # q => lane'[m].task.id # lane'[q].task.id
            BY <2>2 DEF SwInOrder
      <2>7. \A i \in DOMAIN pool' :
              /\ pool'[i].id <= spent'.commands
              /\ \A m \in Lanes : Working(m)' => lane'[m].task.id < pool'[i].id
              /\ \A j \in DOMAIN pool' : i < j => pool'[i].id < pool'[j].id
            BY <2>1, <2>2 DEF SwInOrder
      <2>8. gui' <= spent'.commands /\ (gui' = 0 => ended' = NoAnswer)
            BY <2>1 DEF SwInOrder
      <2> QED BY <2>4, <2>5, <2>6, <2>7, <2>8 DEF SwInOrder, Working
(* What is submitted has the greatest number.                              *)
<1>4. ASSUME Submits PROVE SwInOrder'
      <2> DEFINE k == spent.commands + 1
      <2>1. /\ gui' = k /\ spent'.commands = k /\ UNCHANGED <<lane, ended>> /\ k \in Nat /\ k # 0
            /\ \A m \in Nat : m <= spent.commands => m < k /\ m <= k
            BY <1>0, <1>4 DEF Submits
      <2>2. PICK task \in SweepTasks : pool' = Append(pool, task) /\ task.id = k
            BY <1>4 DEF Submits
      <2> HIDE DEF k
      <2>3. \A i \in DOMAIN pool' : \/ i \in DOMAIN pool /\ pool'[i] = pool[i]
                                    \/ i = Len(pool) + 1 /\ pool'[i] = task
            BY <1>0, <2>2
      <2>4. \A i \in DOMAIN pool : pool[i].id \in Nat /\ pool[i].id <= spent.commands
              /\ i \in Nat /\ i < Len(pool) + 1
            BY <1>a, <1>b DEF SwInOrder
      <2>5. \A m \in Lanes : (Working(m)' <=> Working(m)) /\ lane'[m] = lane[m]
            BY <2>1 DEF Working
      <2>6. \A m \in Lanes : Working(m) => lane[m].task.id \in Nat /\ lane[m].task.id <= spent.commands
            BY DEF SwInOrder, SweepTasks
      <2>7. \A i \in DOMAIN pool' :
              /\ pool'[i].id <= spent'.commands
              /\ \A m \in Lanes : Working(m)' => lane'[m].task.id < pool'[i].id
              /\ \A j \in DOMAIN pool' : i < j => pool'[i].id < pool'[j].id
            <3> TAKE i \in DOMAIN pool'
            <3>1. CASE i \in DOMAIN pool /\ pool'[i] = pool[i]
                  <4>1. pool'[i].id <= spent'.commands BY <2>1, <2>4, <3>1
                  <4>2. \A m \in Lanes : Working(m)' => lane'[m].task.id < pool'[i].id
                        BY <2>5, <3>1 DEF SwInOrder
                  <4>3. \A j \in DOMAIN pool' : i < j => pool'[i].id < pool'[j].id
                        BY <2>1, <2>2, <2>3, <2>4, <3>1 DEF SwInOrder
                  <4> QED BY <4>1, <4>2, <4>3
            <3>2. CASE i = Len(pool) + 1 /\ pool'[i] = task
                  <4>1. pool'[i].id <= spent'.commands BY <2>1, <2>2, <3>2
                  <4>2. \A m \in Lanes : Working(m)' => lane'[m].task.id < pool'[i].id
                        BY <2>1, <2>2, <2>5, <2>6, <3>2
                  <4>3. \A j \in DOMAIN pool' : ~(i < j)
                        BY <1>0, <2>3, <2>4, <3>2
                  <4> QED BY <4>1, <4>2, <4>3
            <3> QED BY <2>3, <3>1, <3>2
      <2>8. \A m \in Lanes : Working(m)' => /\ lane'[m].task \in SweepTasks
                                            /\ lane'[m].task.id <= spent'.commands
                                            /\ lane'[m].done < CountOf(lane'[m].task.config)
            BY <2>1, <2>5, <2>6 DEF SwInOrder
      <2>9. /\ \A m \in Lanes : lane'[m].at = "idle" => lane'[m] = IdleLane
            /\ \A m, q \in Lanes : Working(m)' /\ Working(q)'
                 /\ m # q => lane'[m].task.id # lane'[q].task.id
            BY <2>5 DEF SwInOrder
      <2>10. gui' <= spent'.commands /\ (gui' = 0 => ended' = NoAnswer) BY <2>1
      <2> QED BY <2>7, <2>8, <2>9, <2>10 DEF SwInOrder, Working
<1>5. ASSUME Deliver PROVE SwInOrder'
      <2>1. UNCHANGED <<gui, ended, spent, lane, pool>> BY <1>5 DEF Deliver
      <2> QED BY <2>1 DEF SwInOrder, Working
<1>6. ASSUME Attach PROVE SwInOrder'
      <2>1. gui' = 0 /\ ended' = NoAnswer /\ UNCHANGED <<lane, pool>>
            BY <1>6 DEF Attach
      <2>2. spent'.commands = spent.commands BY <1>6 DEF Attach, SwType
      <2>3. gui' <= spent'.commands BY <1>0, <2>1, <2>2
      <2> QED BY <2>1, <2>2, <2>3 DEF SwInOrder, Working
<1>7. ASSUME Edits PROVE SwInOrder'
      <2>1. UNCHANGED <<gui, ended, lane, pool>> /\ spent'.commands = spent.commands + 1
            BY <1>7 DEF Edits
      <2>2. gui <= spent'.commands BY <1>0, <2>1 DEF SwInOrder, SwType
      <2>3. \A m \in Lanes : Working(m) => lane[m].task.id <= spent'.commands
            BY <1>0, <2>1 DEF SwInOrder, SweepTasks
      <2>4. \A i \in DOMAIN pool : pool[i].id <= spent'.commands
            BY <1>0, <1>b, <2>1 DEF SwInOrder
      <2> QED BY <2>1, <2>2, <2>3, <2>4 DEF SwInOrder, Working
<1>8. ASSUME Shutdown PROVE SwInOrder'
      <2>1. UNCHANGED <<gui, ended, spent, lane>> /\ pool' = <<>>
            BY <1>8 DEF Shutdown
      <2> QED BY <2>1 DEF SwInOrder, Working
<1> QED BY <1>1, <1>2, <1>3, <1>4, <1>5, <1>6, <1>7, <1>8 DEF SweepShape

-----------------------------------------------------------------------------
(* The callback that is to be attached.                                    *)

SweepLater(id) ==
  \/ \E i \in DOMAIN pool' : pool'[i].id = id
  \/ \E l \in Lanes : lane'[l].at # "idle" /\ lane'[l].task.id = id

(* A task that is under way after a step was so before, unless it is new.  *)
LEMMA SweepStaysUnderWay ==
  ASSUME SwType, SwInOrder, SweepShape, ~Submits, NEW id \in Nat, SweepLater(id)
  PROVE SweepUnderWay(id)
<1>0. pool \in Seq(SweepTasks) BY DEF SwType
<1>1. ASSUME NEW l \in Lanes, Takes(l) PROVE SweepUnderWay(id)
      <2>1. pool # <<>> /\ pool' = Tail(pool) /\ OneLane(l) /\ lane'[l].task = Head(pool)
            BY <1>1 DEF Takes
      <2>2. 1 \in DOMAIN pool /\ Head(pool) = pool[1]
            /\ \A i \in DOMAIN pool' : i + 1 \in DOMAIN pool /\ pool'[i] = pool[i + 1]
            BY <1>0, <2>1, PoolTail
      <2>3. CASE \E i \in DOMAIN pool' : pool'[i].id = id
            BY <2>2, <2>3 DEF SweepUnderWay
      <2>4. CASE \E m \in Lanes : Working(m)' /\ lane'[m].task.id = id
            BY <2>1, <2>2, <2>4 DEF SweepUnderWay, SweepLater, OneLane, Working
      <2> QED BY <2>3, <2>4 DEF SweepUnderWay, SweepLater, Working
<1>2. ASSUME NEW l \in Lanes, Finishes(l) PROVE SweepUnderWay(id)
      <2>1. UNCHANGED pool /\ OneLane(l) /\ lane'[l].at = "idle"
            BY <1>2, IdleIsLane DEF Finishes, Calm
      <2> QED BY <2>1 DEF SweepUnderWay, SweepLater, OneLane, Working
<1>3. ASSUME NEW l \in Lanes, GoesOn(l) PROVE SweepUnderWay(id)
      <2>1. UNCHANGED pool /\ OneLane(l) /\ lane'[l].task = lane[l].task /\ Working(l)
            BY <1>3 DEF GoesOn, Calm, Working
      <2> QED BY <2>1 DEF SweepUnderWay, SweepLater, OneLane, Working
<1>4. ASSUME Deliver \/ Attach \/ Edits PROVE SweepUnderWay(id)
      <2>1. UNCHANGED <<pool, lane>> BY <1>4 DEF Deliver, Attach, Edits
      <2> QED BY <2>1 DEF SweepUnderWay, SweepLater, Working
<1>5. ASSUME Shutdown PROVE SweepUnderWay(id)
      <2>1. UNCHANGED lane /\ DOMAIN pool' = {} BY <1>5 DEF Shutdown
      <2> QED BY <2>1 DEF SweepUnderWay, SweepLater, Working
<1> QED BY <1>1, <1>2, <1>3, <1>4, <1>5 DEF SweepShape

(* The task a thread has ended is nowhere else.                            *)
LEMMA EndedIsOver ==
  ASSUME SwType, SwInOrder, NEW l \in Lanes, Finishes(l)
  PROVE ~SweepLater(lane[l].task.id)
<1> DEFINE id == lane[l].task.id
<1>1. Working(l) /\ UNCHANGED pool /\ OneLane(l) /\ lane'[l].at = "idle"
      BY IdleIsLane DEF Finishes, Calm
<1>2. \A i \in DOMAIN pool : id < pool[i].id BY <1>1 DEF SwInOrder
<1>3. id \in Nat BY <1>1 DEF SwInOrder, SweepTasks
<1>4. ~\E i \in DOMAIN pool' : pool'[i].id = id BY <1>1, <1>2, <1>3
<1>5. \A m \in Lanes : lane'[m].at # "idle" => lane'[m].task.id # id
      BY <1>1 DEF OneLane, SwInOrder, Working
<1> QED BY <1>4, <1>5 DEF SweepLater

LEMMA SwAttachedStep ==
  ASSUME SwType, SwInOrder, SwAttached, SwType', SweepShape
  PROVE SwAttached'
<1>1. CASE Submits
      <2>1. ended' = NoAnswer BY <1>1 DEF Submits, SwInOrder
      <2> QED BY <2>1 DEF SwAttached
<1>2. CASE Attach
      <2>1. ended' = NoAnswer BY <1>2 DEF Attach
      <2> QED BY <2>1 DEF SwAttached
<1>3. ASSUME NEW l \in Lanes, Finishes(l), gui = lane[l].task.id PROVE SwAttached'
      <2>1. gui' = lane[l].task.id BY <1>3 DEF Finishes, Calm
      <2>2. ~SweepLater(lane[l].task.id) BY <1>3, EndedIsOver
      <2>3. ~SweepLater(gui')
            BY <2>1, <2>2 DEF SweepUnderWay, SweepLater, Working
      <2> QED BY <2>3 DEF SwAttached, SweepUnderWay, SweepLater, Working
<1>4. ASSUME ~Submits, UNCHANGED <<gui, ended>> PROVE SwAttached'
      <2>1. SUFFICES ASSUME SweepLater(gui') PROVE ended = NoAnswer
            BY <1>4 DEF SwAttached, SweepUnderWay, SweepLater, Working
      <2> DEFINE g == gui
      <2>2. gui' = g /\ g \in Nat BY <1>4 DEF SwType
      <2> HIDE DEF g
      <2>3. SweepLater(g) BY <2>1, <2>2 DEF SweepUnderWay, SweepLater, Working
      <2>4. SweepUnderWay(g) BY <1>4, <2>2, <2>3, SweepStaysUnderWay
      <2> QED BY <2>4 DEF SwAttached, g
<1>5. ASSUME NEW l \in Lanes, Finishes(l), gui # lane[l].task.id, ~Submits PROVE SwAttached'
      <2>1. UNCHANGED <<gui, ended>>
            BY <1>5 DEF Finishes, Calm, Answers, EndsEarly, EndsLate
      <2> QED BY <1>4, <1>5, <2>1
<1>6. ASSUME ~Submits, ~Attach, \A l \in Lanes : ~Finishes(l) PROVE UNCHANGED <<gui, ended>>
      BY <1>6 DEF SweepShape, Takes, GoesOn, Calm, Deliver, Edits, Shutdown
<1> QED BY <1>1, <1>2, <1>3, <1>4, <1>5, <1>6

-----------------------------------------------------------------------------
(* What a sweep that ends has heard.                                       *)

SwHeard == (heard # {} => service.cancel) /\ CancelIsHeard

LEMMA SwHeardStep ==
  ASSUME SweepConfigsFit, SwType, SwInOrder, SwHeard, SweepNext
  PROVE SwHeard'
<1>1. ASSUME UNCHANGED <<service, told, heard>> PROVE SwHeard'
      BY <1>1 DEF SwHeard, CancelIsHeard
<1>2. ASSUME UNCHANGED told, heard' # {} => service'.cancel PROVE SwHeard'
      BY <1>2 DEF SwHeard, CancelIsHeard
<1>3. ASSUME NEW l \in Lanes, Cancels(l), UNCHANGED service, lane[l].at # "idle" PROVE SwHeard'
      <2>1. lane[l].task.config \in SweepConfigs /\ lane[l].done < CountOf(lane[l].task.config)
            /\ lane[l].done \in Nat
            BY <1>3 DEF SwInOrder, Working, SweepTasks, SwType, LaneType
      <2>2. Total(l) = CountOf(lane[l].task.config) /\ Total(l) \in Nat
            BY <2>1, SegmentsFit DEF Total
      <2>3. lane[l].done # Total(l) BY <2>1, <2>2
      <2>4. told'.state = "cancelled" /\ told'.done = lane[l].done /\ told'.total = Total(l)
            BY <1>3 DEF Cancels
      <2> QED BY <1>3, <2>3, <2>4 DEF SwHeard, CancelIsHeard, Cancels
<1>4. ASSUME NEW l \in Lanes, Completes(l), UNCHANGED service PROVE SwHeard'
      <2>1. heard = {} /\ heard' = {} BY <1>4 DEF Completes, SwHeard
      <2>2. told'.state = "completed" /\ told'.done = told'.total /\ ~told'.heard
            BY <1>4, <2>1 DEF Completes
      <2> QED BY <2>1, <2>2 DEF SwHeard, CancelIsHeard
<1>5. ASSUME NEW l \in Lanes, Take(l) PROVE SwHeard' BY <1>1, <1>5 DEF Take
<1>6. ASSUME NEW l \in Lanes, Works(l) PROVE SwHeard'
      <2>1. CASE PlanTask(l) \/ ExportTask(l)
            BY <1>1, <2>1 DEF PlanTask, ExportTask
      <2>2. CASE CancelTask(l) BY <1>2, <2>2, CancelTaskDoes
      <2>3. CASE Execute(l) BY <1>2, <2>3, ExecuteDoes
      <2>4. CASE BeforeSegment(l)
            <3>1. UNCHANGED service /\ lane[l].at # "idle"
                  BY <2>4 DEF BeforeSegment
            <3> QED BY <1>1, <1>3, <2>4, <3>1, BeforeSegmentDoes
      <2>5. CASE AfterSegment(l)
            <3>1. UNCHANGED service /\ lane[l].at # "idle"
                  BY <2>5 DEF AfterSegment
            <3> QED BY <1>1, <1>3, <1>4, <2>5, <3>1, AfterSegmentDoes
      <2> QED BY <1>6, <2>1, <2>2, <2>3, <2>4, <2>5 DEF Works
<1>7. CASE RequestPlan \/ Run \/ Cancel \/ Export
      BY <1>1, <1>7 DEF RequestPlan, Run, Cancel, Export, Submit
<1>8. CASE Deliver \/ Attach \/ Edit BY <1>1, <1>8 DEF Deliver, Attach, Edit
<1>9. CASE Shutdown
      <2>1. UNCHANGED told /\ service'.cancel BY <1>9 DEF Shutdown
      <2> QED BY <1>2, <2>1
<1> QED BY <1>5, <1>6, <1>7, <1>8, <1>9 DEF SweepNext

-----------------------------------------------------------------------------
(* The button that plans: until it can be pressed, what will free it is    *)
(* under way.                                                              *)

FreesIn(q) == \E i \in DOMAIN q : q[i].kind = "busy"
SwCanPlan ==
  ~service.closed => \/ page.canPlan \/ FreesIn(posted) \/ FreesIn(ended)
                     \/ \E i \in DOMAIN pool : pool[i].op # "cancel"
                     \/ \E l \in Lanes : lane[l].at \notin {"idle", "cancel"}

(* What frees the button is still there when the queue grows.              *)
LEMMA FreesInMore ==
  ASSUME NEW p \in Seq(SweepSignals), NEW q \in Seq(SweepSignals), FreesIn(p) \/ FreesIn(q)
  PROVE FreesIn(p \o q)
<1>1. \A i \in DOMAIN p : i \in DOMAIN (p \o q) /\ (p \o q)[i] = p[i] OBVIOUS
<1>2. \A i \in DOMAIN q : Len(p) + i \in DOMAIN (p \o q) /\ (p \o q)[Len(p) + i] = q[i]
      OBVIOUS
<1> QED BY <1>1, <1>2 DEF FreesIn

LEMMA FreesInAppended ==
  ASSUME NEW p \in Seq(SweepSignals), NEW s \in SweepSignals, FreesIn(p)
  PROVE FreesIn(Append(p, s))
<1>1. \A i \in DOMAIN p : i \in DOMAIN Append(p, s) /\ Append(p, s)[i] = p[i]
      OBVIOUS
<1> QED BY <1>1 DEF FreesIn

(* A task that ends while the callback is to be attached finds no answer.  *)
LEMMA EndsOnce ==
  ASSUME SwAttached, NEW l \in Lanes, Working(l), gui = lane[l].task.id
  PROVE ended = <<>>
BY DEF SwAttached, SweepUnderWay, NoAnswer

LEMMA SwCanPlanStep ==
  ASSUME SwType, SwInOrder, SwAttached, SwCanPlan, SwType', SweepShape
  PROVE SwCanPlan'
<1>0. pool \in Seq(SweepTasks) /\ posted \in Seq(SweepSignals) BY DEF SwType
<1>1. ASSUME NEW l \in Lanes, Takes(l) PROVE SwCanPlan'
      <2>1. /\ pool # <<>> /\ pool' = Tail(pool) /\ OneLane(l) /\ lane'[l].at = Head(pool).op
               /\ lane[l].at = "idle"
            /\ UNCHANGED <<service, page, posted, ended>>
            BY <1>1 DEF Takes
      <2>2. 1 \in DOMAIN pool /\ Head(pool) = pool[1]
            /\ \A i \in DOMAIN pool : i # 1 => i - 1 \in DOMAIN pool' /\ pool'[i - 1] = pool[i]
            BY <1>0, <2>1, PoolTail
      <2>3. ASSUME NEW i \in DOMAIN pool, pool[i].op # "cancel"
            PROVE \/ \E j \in DOMAIN pool' : pool'[j].op # "cancel"
                  \/ \E m \in Lanes : lane'[m].at \notin {"idle", "cancel"}
            <3>1. pool[i].op # "idle"
                  <4>1. pool[i] \in SweepTasks BY <1>0
                  <4> QED BY <4>1 DEF SweepTasks, SweepOps
            <3>2. CASE i = 1 BY <2>1, <2>2, <2>3, <3>1, <3>2
            <3>3. CASE i # 1 BY <2>2, <2>3, <3>3
            <3> QED BY <3>2, <3>3
      <2>4. \A m \in Lanes : lane[m].at \notin {"idle", "cancel"} => lane'[m].at \notin {"idle", "cancel"}
            BY <2>1 DEF OneLane
      <2> QED BY <2>1, <2>3, <2>4 DEF SwCanPlan
<1>2. ASSUME NEW l \in Lanes, Finishes(l) PROVE SwCanPlan'
      <2>1. /\ Working(l) /\ UNCHANGED <<pool, page>> /\ service'.closed = service.closed /\ OneLane(l)
            BY <1>2 DEF Finishes, Calm
      <2>2. PICK progress \in Seq(SweepSignals) :
              \E answer \in Seq(SweepSignals) : AnAnswer(answer) /\ Answers(l, progress, answer)
            BY <1>2 DEF Finishes
      <2>3. PICK answer \in Seq(SweepSignals) : AnAnswer(answer) /\ Answers(l, progress, answer)
            BY <2>2
      <2>4. SUFFICES ASSUME ~service.closed
                     PROVE \/ page.canPlan \/ FreesIn(posted') \/ FreesIn(ended')
                           \/ \E i \in DOMAIN pool : pool[i].op # "cancel"
                           \/ \E m \in Lanes : lane'[m].at \notin {"idle", "cancel"}
            BY <2>1 DEF SwCanPlan, FreesIn
      <2>5. \A m \in Lanes : lane[m].at \notin {"idle", "cancel"} =>
              lane'[m].at \notin {"idle", "cancel"} \/ FreesIn(answer)
            BY <2>1, <2>3 DEF OneLane, Answers, FreesIn
      <2>6. CASE EndsEarly(l, answer)
            <3>1. ended = <<>> /\ ended' = answer /\ posted' = posted \o progress
                  BY <2>1, <2>3, <2>4, <2>6, EndsOnce DEF EndsEarly, Answers
            <3>2. FreesIn(posted) => FreesIn(posted')
                  BY <1>0, <3>1, FreesInMore
            <3>3. ~FreesIn(ended) BY <3>1 DEF FreesIn
            <3> QED BY <2>4, <2>5, <3>1, <3>2, <3>3 DEF SwCanPlan
      <2>7. CASE EndsLate(l, progress, answer)
            <3>1. ended' = ended /\ posted' = posted \o (progress \o answer)
                  BY <2>4, <2>7 DEF EndsLate
            <3>2. FreesIn(posted) \/ FreesIn(answer) => FreesIn(posted')
                  <4>1. progress \o answer \in Seq(SweepSignals) OBVIOUS
                  <4> QED BY <1>0, <3>1, <4>1, FreesInMore
            <3> QED BY <2>4, <2>5, <3>1, <3>2 DEF SwCanPlan
      <2> QED BY <2>3, <2>6, <2>7 DEF Answers
<1>3. ASSUME NEW l \in Lanes, GoesOn(l) PROVE SwCanPlan'
      <2>1. lane'[l].at \notin {"idle", "cancel"} BY <1>3 DEF GoesOn
      <2> QED BY <2>1 DEF SwCanPlan
<1>4. ASSUME Submits PROVE SwCanPlan'
      <2>1. PICK task \in SweepTasks : pool' = Append(pool, task)
            /\ (task.op = "cancel" => page' = page)
            BY <1>4 DEF Submits
      <2>2. /\ Len(pool) + 1 \in DOMAIN pool' /\ pool'[Len(pool) + 1] = task
            /\ \A i \in DOMAIN pool : i \in DOMAIN pool' /\ pool'[i] = pool[i]
            BY <1>0, <2>1
      <2>3. UNCHANGED <<service, posted, ended, lane>> BY <1>4 DEF Submits
      <2>4. CASE task.op # "cancel" BY <2>2, <2>4 DEF SwCanPlan
      <2>5. CASE task.op = "cancel" BY <2>1, <2>2, <2>3, <2>5 DEF SwCanPlan
      <2> QED BY <2>4, <2>5
<1>5. ASSUME Deliver PROVE SwCanPlan'
      <2>1. /\ posted # <<>> /\ posted' = Tail(posted) /\ page' = Shown(page, Head(posted))
            /\ UNCHANGED <<service, pool, lane, ended>>
            BY <1>5 DEF Deliver
      <2>2. Head(posted) \in SweepSignals /\ Head(posted) = posted[1] /\ IsPage(page)
            /\ \A i \in DOMAIN posted : i # 1 => i - 1 \in DOMAIN posted' /\ posted'[i - 1] = posted[i]
            BY <1>0, <2>1, PoolTail, SweepHeadTail DEF SwType
      <2>3. (page.canPlan => page'.canPlan) /\ (Head(posted).kind = "busy" => page'.canPlan)
            BY <2>1, <2>2, ShownKeeps
      <2>4. FreesIn(posted) => page'.canPlan \/ FreesIn(posted')
            BY <2>2, <2>3 DEF FreesIn
      <2> QED BY <2>1, <2>3, <2>4 DEF SwCanPlan, FreesIn
<1>6. ASSUME Attach PROVE SwCanPlan'
      <2>1. page' = ShownAll(page, ended) /\ UNCHANGED <<service, pool, lane, posted>>
            BY <1>6 DEF Attach
      <2>2. page.canPlan \/ FreesIn(ended) => page'.canPlan
            BY <2>1, ShownAllKeeps DEF SwType, FreesIn
      <2> QED BY <2>1, <2>2 DEF SwCanPlan, FreesIn
<1>7. ASSUME Edits PROVE SwCanPlan'
      <2>1. page'.canPlan = page.canPlan /\ UNCHANGED <<service, pool, lane, posted, ended>>
            BY <1>7 DEF Edits
      <2> QED BY <2>1 DEF SwCanPlan, FreesIn
<1>8. ASSUME Shutdown PROVE SwCanPlan' BY <1>8 DEF Shutdown, SwCanPlan
<1> QED BY <1>1, <1>2, <1>3, <1>4, <1>5, <1>6, <1>7, <1>8 DEF SweepShape

-----------------------------------------------------------------------------
(* The button that cancels: while it is offered, or will be when the queue *)
(* is empty, a sweep runs or its end waits for the callback.               *)

SettlesIn(q) == \E i \in DOMAIN q : Settles(q[i])
LeavesOffered(q) == \E i \in DOMAIN q : Offers(q[i]) /\ \A j \in DOMAIN q : j > i => ~Settles(q[j])
Offered(p, q) == (p.canCancel /\ ~SettlesIn(q)) \/ LeavesOffered(q)
Sweeps == \E l \in Lanes : lane[l].at \in {"before", "after"}

SwCancels ==
  (~service.closed /\ ~spent.overtaken /\ Offered(page, posted)) => Sweeps \/ SettlesIn(ended)

(* What is appended offers nothing, and what it settles is settled.        *)
LEMMA OfferedBefore ==
  ASSUME NEW p, NEW q \in Seq(SweepSignals), NEW r \in Seq(SweepSignals),
         \A i \in DOMAIN r : ~Offers(r[i]), Offered(p, q \o r)
  PROVE Offered(p, q) /\ ~SettlesIn(r)
<1> DEFINE s == q \o r
<1>1. \A i \in DOMAIN q : i \in DOMAIN s /\ s[i] = q[i] /\ i <= Len(q) /\ i \in Nat
      OBVIOUS
<1>2. \A i \in DOMAIN r : Len(q) + i \in DOMAIN s /\ s[Len(q) + i] = r[i] /\ i >= 1 /\ i \in Nat
      OBVIOUS
<1>3. \A i \in DOMAIN s : /\ i \in Nat
                          /\ i \in DOMAIN q \/ (i - Len(q) \in DOMAIN r /\ s[i] = r[i - Len(q)])
      OBVIOUS
<1>4. Offered(p, s) /\ Len(q) \in Nat OBVIOUS
<1> HIDE DEF s
<1>5. CASE p.canCancel /\ ~SettlesIn(s)
      BY <1>1, <1>2, <1>5 DEF SettlesIn, Offered
<1>6. ASSUME NEW i \in DOMAIN s, Offers(s[i]), \A j \in DOMAIN s : j > i => ~Settles(s[j])
      PROVE LeavesOffered(q) /\ ~SettlesIn(r)
      <2>1. i \in DOMAIN q /\ s[i] = q[i] BY <1>1, <1>3, <1>6
      <2>2. \A j \in DOMAIN q : j > i => ~Settles(q[j]) BY <1>1, <1>6
      <2>3. \A j \in DOMAIN r : Len(q) + j > i BY <1>1, <1>2, <1>4, <2>1
      <2>4. ~SettlesIn(r) BY <1>2, <1>6, <2>3 DEF SettlesIn
      <2> QED BY <1>6, <2>1, <2>2, <2>4 DEF LeavesOffered
<1> QED BY <1>4, <1>5, <1>6 DEF Offered, LeavesOffered

(* What is shown next was offered before.                                  *)
LEMMA OfferedThen ==
  ASSUME NEW p, IsPage(p), NEW q \in Seq(SweepSignals), q # <<>>, Offered(Shown(p, Head(q)), Tail(q))
  PROVE Offered(p, q)
<1> DEFINE h == Head(q)
           t == Tail(q)
           n == Shown(p, h)
<1>1. h \in SweepSignals /\ h = q[1] /\ 1 \in DOMAIN q /\ Offered(n, t)
      BY PoolTail, SweepHeadTail
<1>2. \A i \in DOMAIN t : i + 1 \in DOMAIN q /\ t[i] = q[i + 1] /\ i \in Nat
      BY PoolTail
<1>3. \A i \in DOMAIN q : i \in Nat /\ i >= 1 /\ (i # 1 => i - 1 \in DOMAIN t /\ t[i - 1] = q[i])
      BY PoolTail
<1>4. (Settles(h) => ~n.canCancel) /\ (~Offers(h) /\ n.canCancel => p.canCancel)
      BY <1>1, ShownKeeps
<1> HIDE DEF h, t, n
<1>5. ASSUME n.canCancel, ~SettlesIn(t) PROVE Offered(p, q)
      <2>1. \A j \in DOMAIN q : j > 1 => ~Settles(q[j])
            BY <1>3, <1>5 DEF SettlesIn
      <2>2. CASE Offers(h) BY <1>1, <2>1, <2>2 DEF Offered, LeavesOffered
      <2>3. CASE ~Offers(h)
            <3>1. p.canCancel /\ ~Settles(h) BY <1>4, <1>5, <2>3
            <3>2. \A j \in DOMAIN q : ~Settles(q[j]) BY <1>1, <1>3, <2>1, <3>1
            <3> QED BY <3>1, <3>2 DEF Offered, SettlesIn
      <2> QED BY <2>2, <2>3
<1>6. ASSUME NEW i \in DOMAIN t, Offers(t[i]), \A j \in DOMAIN t : j > i => ~Settles(t[j])
      PROVE Offered(p, q)
      <2>1. i + 1 \in DOMAIN q /\ Offers(q[i + 1]) /\ i \in Nat BY <1>2, <1>6
      <2>2. \A j \in DOMAIN q : j > i + 1 => ~Settles(q[j]) BY <1>3, <1>6, <2>1
      <2> QED BY <2>1, <2>2 DEF Offered, LeavesOffered
<1> QED BY <1>1, <1>5, <1>6 DEF Offered, LeavesOffered

LEMMA SwCancelsStep ==
  ASSUME SwType, SwInOrder, SwAttached, SwCancels, SwType', SweepShape
  PROVE SwCancels'
<1>0. posted \in Seq(SweepSignals) /\ IsPage(page) /\ AnAnswer(ended)
      BY DEF SwType
<1>s. SUFFICES ASSUME ~service'.closed, ~spent'.overtaken, Offered(page', posted')
               PROVE Sweeps' \/ SettlesIn(ended')
      BY DEF SwCancels, Offered, SettlesIn, LeavesOffered
<1>1. ASSUME NEW l \in Lanes, Takes(l) PROVE Sweeps' \/ SettlesIn(ended')
      <2>1. OneLane(l) /\ lane[l].at = "idle" /\ UNCHANGED <<service, page, posted, ended, spent>>
            BY <1>1 DEF Takes
      <2>2. Sweeps => Sweeps' BY <2>1 DEF Sweeps, OneLane
      <2> QED BY <1>s, <2>1, <2>2 DEF SwCancels
<1>2. ASSUME NEW l \in Lanes, Finishes(l) PROVE Sweeps' \/ SettlesIn(ended')
      <2>1. /\ Working(l) /\ UNCHANGED <<pool, page, spent>> /\ ~service.closed /\ OneLane(l)
            BY <1>2, <1>s DEF Finishes, Calm
      <2>2. PICK progress \in Seq(SweepSignals) :
              \E answer \in Seq(SweepSignals) : AnAnswer(answer) /\ Answers(l, progress, answer)
            BY <1>2 DEF Finishes
      <2>3. PICK answer \in Seq(SweepSignals) : AnAnswer(answer) /\ Answers(l, progress, answer)
            BY <2>2
      <2>4. Sweeps => Sweeps' \/ SettlesIn(answer)
            BY <2>1, <2>3 DEF Sweeps, OneLane, Answers, SettlesIn
      <2>5. CASE EndsEarly(l, answer)
            <3>1. ended = <<>> /\ ended' = answer /\ posted' = posted \o progress
                  BY <2>1, <2>3, <2>5, EndsOnce DEF EndsEarly, Answers
            <3>2. \A i \in DOMAIN progress : ~Offers(progress[i])
                  BY <2>3 DEF Answers
            <3>3. Offered(page, posted \o progress) BY <1>s, <2>1, <3>1
            <3>4. Offered(page, posted) BY <1>0, <3>2, <3>3, OfferedBefore
            <3>5. ~SettlesIn(ended) BY <3>1 DEF SettlesIn
            <3> QED BY <1>s, <2>1, <2>4, <3>1, <3>4, <3>5 DEF SwCancels
      <2>6. CASE EndsLate(l, progress, answer)
            <3> DEFINE r == progress \o answer
            <3>1. ended' = ended /\ posted' = posted \o r
                  BY <2>1, <2>6 DEF EndsLate
            <3>2. /\ r \in Seq(SweepSignals)
                  /\ \A i \in DOMAIN r : \/ i \in DOMAIN progress /\ r[i] = progress[i]
                                         \/ /\ i - Len(progress) \in DOMAIN answer
                                            /\ r[i] = answer[i - Len(progress)]
                  /\ \A i \in DOMAIN answer : Len(progress) + i \in DOMAIN r
                       /\ r[Len(progress) + i] = answer[i]
                  OBVIOUS
            <3> HIDE DEF r
            <3>3. \A i \in DOMAIN r : ~Offers(r[i])
                  BY <2>3, <3>2 DEF Answers, AnAnswer
            <3>4. SettlesIn(answer) => SettlesIn(r) BY <3>2 DEF SettlesIn
            <3>5. Offered(page, posted \o r) BY <1>s, <2>1, <3>1
            <3>6. Offered(page, posted) /\ ~SettlesIn(r)
                  BY <1>0, <3>2, <3>3, <3>5, OfferedBefore
            <3> QED BY <1>s, <2>1, <2>4, <3>1, <3>4, <3>6 DEF SwCancels
      <2> QED BY <2>3, <2>5, <2>6 DEF Answers
<1>3. ASSUME NEW l \in Lanes, GoesOn(l) PROVE Sweeps' \/ SettlesIn(ended')
      BY <1>3 DEF GoesOn, Sweeps
<1>4. ASSUME Submits \/ Edits PROVE Sweeps' \/ SettlesIn(ended')
      <2>1. /\ UNCHANGED <<service, posted, ended, lane>> /\ page'.canCancel = page.canCancel
            /\ spent'.overtaken = spent.overtaken
            BY <1>4 DEF Submits, Edits
      <2>2. Offered(page, posted) BY <1>s, <2>1 DEF Offered
      <2>3. Sweeps' = Sweeps BY <2>1 DEF Sweeps
      <2> QED BY <1>s, <2>1, <2>2, <2>3 DEF SwCancels
<1>5. ASSUME Deliver PROVE Sweeps' \/ SettlesIn(ended')
      <2>1. /\ posted # <<>> /\ posted' = Tail(posted) /\ page' = Shown(page, Head(posted))
            /\ UNCHANGED <<service, pool, lane, ended, spent>>
            BY <1>5 DEF Deliver
      <2>2. Offered(page, posted) BY <1>0, <1>s, <2>1, OfferedThen
      <2>3. Sweeps' = Sweeps BY <2>1 DEF Sweeps
      <2> QED BY <1>s, <2>1, <2>2, <2>3 DEF SwCancels
(* An answer that is shown at once has overtaken what is in the queue.     *)
<1>6. ASSUME Attach PROVE Sweeps' \/ SettlesIn(ended')
      <2>1. page' = ShownAll(page, ended) /\ UNCHANGED <<service, pool, lane, posted>>
            BY <1>6 DEF Attach
      <2>2. ~spent.overtaken /\ (ended = <<>> \/ posted = <<>>)
            <3> DEFINE b == spent.overtaken \/ (ended # NoAnswer /\ posted # <<>>)
            <3>1. spent' = [spent EXCEPT !.overtaken = b] BY <1>6 DEF Attach
            <3> HIDE DEF b
            <3>2. ~b BY <1>s, <3>1 DEF SwType
            <3> QED BY <3>2 DEF b, NoAnswer
      <2>3. Sweeps' = Sweeps BY <2>1 DEF Sweeps
      <2>4. CASE ended = <<>>
            <3>1. page' = page /\ ~SettlesIn(ended)
                  BY <2>1, <2>4 DEF ShownAll, NoAnswer, SettlesIn
            <3> QED BY <1>s, <2>1, <2>2, <2>3, <3>1 DEF SwCancels
      <2>5. CASE posted = <<>>
            <3>1. page'.canCancel
                  BY <1>s, <2>1, <2>5 DEF Offered, LeavesOffered
            <3>2. page.canCancel /\ ~SettlesIn(ended)
                  BY <1>0, <2>1, <3>1, ShownAllKeeps DEF SettlesIn
            <3>3. Offered(page, posted) BY <2>5, <3>2 DEF Offered, SettlesIn
            <3> QED BY <1>s, <2>1, <2>2, <2>3, <3>2, <3>3 DEF SwCancels
      <2> QED BY <2>2, <2>4, <2>5
<1>7. ASSUME Shutdown PROVE FALSE BY <1>7, <1>s DEF Shutdown
<1> QED BY <1>1, <1>2, <1>3, <1>4, <1>5, <1>6, <1>7 DEF SweepShape

-----------------------------------------------------------------------------
SwInv == SwType /\ SwInOrder /\ SwAttached /\ SwHeard /\ SwCanPlan /\ SwCancels

LEMMA SweepStarts ==
  ASSUME SweepConfigsFit, SweepInit
  PROVE SwInv
<1>1. PICK c \in SweepConfigs :
        /\ page = [config |-> c, plan |-> None, result |-> FALSE,
                   canRun |-> FALSE, canPlan |-> FALSE, canCancel |-> FALSE]
        /\ pool = <<[id |-> 1, op |-> "plan", config |-> c]>>
      BY DEF SweepInit
<1> DEFINE t == [id |-> 1, op |-> "plan", config |-> c]
<1>2. t \in SweepTasks /\ t.id = 1 /\ t.op = "plan" BY DEF SweepTasks, SweepOps
<1>3. pool = <<t>> BY <1>1
<1> HIDE DEF t
<1>4. pool \in Seq(SweepTasks) /\ DOMAIN pool = {1} /\ pool[1] = t
      BY <1>2, <1>3
<1>5. /\ service = [cancel |-> FALSE, closed |-> FALSE] /\ gui = 1 /\ ended = <<>> /\ posted = <<>>
      /\ lane = [l \in Lanes |-> IdleLane] /\ told = NoResult /\ heard = {}
      /\ spent = [commands |-> 1, overtaken |-> FALSE]
      BY DEF SweepInit, NoAnswer
<1>6. IsPage(page) /\ page.canCancel = FALSE BY <1>1 DEF IsPage, PageFields
<1>7. SwType
      <2>1. lane \in [Lanes -> LaneType] /\ AnAnswer(ended)
            BY <1>5, IdleIsLane, AnswersAre
      <2>2. service \in [cancel : BOOLEAN, closed : BOOLEAN]
            /\ spent \in [commands : Nat, overtaken : BOOLEAN]
            /\ gui \in Nat /\ posted \in Seq(SweepSignals)
            BY <1>5
      <2> QED BY <1>4, <1>6, <2>1, <2>2 DEF SwType
<1>8. \A l \in Lanes : ~Working(l) BY <1>5, IdleIsLane DEF Working
<1>9. SwInOrder BY <1>2, <1>4, <1>5, <1>8 DEF SwInOrder
<1>10. SwAttached BY <1>5 DEF SwAttached, NoAnswer
<1>11. SwHeard BY <1>5 DEF SwHeard, CancelIsHeard, NoResult
<1>12. SwCanPlan BY <1>2, <1>4 DEF SwCanPlan
<1>13. SwCancels BY <1>5, <1>6 DEF SwCancels, Offered, LeavesOffered
<1> QED BY <1>7, <1>9, <1>10, <1>11, <1>12, <1>13 DEF SwInv

LEMMA SweepSteps ==
  ASSUME SweepConfigsFit, SwInv, [SweepNext]_monitorSweepVars
  PROVE SwInv'
<1>1. CASE SweepNext
      <2>1. SweepShape BY <1>1, StepHasShape DEF SwInv
      <2>2. SwType' BY <2>1, SwTypeStep DEF SwInv
      <2>3. SwInOrder' /\ SwAttached' /\ SwCanPlan' /\ SwCancels'
            BY <2>1, <2>2, SwInOrderStep, SwAttachedStep, SwCanPlanStep, SwCancelsStep DEF SwInv
      <2>4. SwHeard' BY <1>1, SwHeardStep DEF SwInv
      <2> QED BY <2>2, <2>3, <2>4 DEF SwInv
<1>2. CASE UNCHANGED monitorSweepVars
      BY <1>2 DEF monitorSweepVars, SwInv, SwType, SwInOrder, Working, SwAttached, SweepUnderWay, SwHeard,
                  CancelIsHeard, SwCanPlan, FreesIn, SwCancels, Offered, SettlesIn, LeavesOffered, Sweeps
<1> QED BY <1>1, <1>2

LEMMA SweepTells ==
  ASSUME SweepConfigsFit, SwInv
  PROVE SweepIsTold
<1>1. PlanCovers
      <2> DEFINE c == page.config
      <2>1. c \in SweepConfigs BY DEF SwInv, SwType, IsPage
      <2>2. SegmentsCover(c) BY <2>1, SegmentsFit
      <2> QED BY <2>2 DEF PlanCovers, SegmentsCover
<1>2. CancelIsHeard BY DEF SwInv, SwHeard
<1>3. ASSUME SweepIsOver, ~service.closed, ~spent.overtaken PROVE page.canPlan /\ ~page.canCancel
      <2>1. pool = <<>> /\ posted = <<>> /\ gui = 0 /\ \A l \in Lanes : lane[l].at = "idle"
            BY <1>3, IdleIsLane DEF SweepIsOver
      <2>2. ended = <<>> BY <2>1 DEF SwInv, SwInOrder, NoAnswer
      <2>3. page.canPlan BY <1>3, <2>1, <2>2 DEF SwInv, SwCanPlan, FreesIn
      <2>4. ~Sweeps /\ ~SettlesIn(ended) /\ ~SettlesIn(posted)
            BY <2>1, <2>2 DEF Sweeps, SettlesIn
      <2>5. ~Offered(page, posted) BY <1>3, <2>4 DEF SwInv, SwCancels
      <2> QED BY <2>3, <2>4, <2>5 DEF Offered
<1> QED BY <1>1, <1>2, <1>3 DEF SweepIsTold, EndIsShown

(* For any set of configurations that fit and any number of commands: the  *)
(* segments of a plan cover its span and none could be left out, a sweep   *)
(* that was to be cancelled ends as cancelled, and one that is over leaves *)
(* the page with its plan button and without the one that cancels          *)
(* (sweep_session.py, sweep_presenter.py and the page).                    *)
THEOREM SweepIsToldCorrect ==
  ASSUME SweepConfigsFit
  PROVE SweepSpec => []SweepIsTold
<1>1. SweepInit => SwInv BY SweepStarts
<1>2. SwInv /\ [SweepNext]_monitorSweepVars => SwInv' BY SweepSteps
<1>3. SwInv => SweepIsTold BY SweepTells
<1> QED BY <1>1, <1>2, <1>3, PTL DEF SweepSpec

=============================================================================
