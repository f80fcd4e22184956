---------------------------- MODULE ReceiverProofs ----------------------------
(***************************************************************************)
(* The receiver: the device of the native library, the queue its blocks    *)
(* go through, and the page of sdr_monitor that selects a device.          *)
(*                                                                         *)
(* Every block says the settings it was received under, for every set of   *)
(* values a setting may have and any number of calls, troubles and samples.*)
(* What was written, and in which order, does not matter: a commit takes   *)
(* what is read in the end, a rollback that is verified leaves settings    *)
(* that agree with the old ones, and any other end gives the number of the *)
(* configuration away.  So the radio agrees with what the device believes, *)
(* and with the blocks of the present generation, as long as one is        *)
(* configured; and their samples end where the next one begins.            *)
(*                                                                         *)
(* The theorems about BoundedQueue hold for every set of threads, every    *)
(* capacity and every policy.  First what each critical section does to    *)
(* the queue record, then one step lemma per invariant, and the refinement *)
(* last.  No diagnostic event is lost uncounted or handed over twice, for  *)
(* each sequence number is in one place, and every step moves one number.  *)
(***************************************************************************)
EXTENDS BoundedQueue, DiagnosticEvents, PlutoDevice, MonitorLive, QueueLemmas,
        SequenceTheorems, FiniteSetTheorems, WellFoundedInduction, TLAPS

Numbered ==
  /\ generation \in Nat /\ nextSample \in Nat
  /\ \A b \in blocks : b.first \in Nat /\ b.length \in Nat /\ b.generation \in Nat

(* What the device believes of the radio is so.                            *)
Believed == device.configured => Agree(applied, hw)

(* The blocks of the present generation were received under settings that  *)
(* the radio still has.                                                    *)
Present ==
  \A b \in blocks :
    /\ b.generation <= generation
    /\ b.generation = generation => Agree(b.settings, hw) /\ b.first + b.length <= nextSample

DeviceInv == Numbered /\ Believed /\ Present /\ BlocksSayTheTruth

-----------------------------------------------------------------------------
(* Two settings agree or not as two of an equivalence.                     *)
LEMMA AgreeReflexive == ASSUME NEW a PROVE Agree(a, a)
BY DEF Agree

LEMMA AgreeSymmetric ==
  ASSUME NEW a, NEW b, Agree(a, b) PROVE Agree(b, a)
BY DEF Agree

LEMMA AgreeTransitive ==
  ASSUME NEW a, NEW b, NEW c, Agree(a, b), Agree(b, c) PROVE Agree(a, c)
BY DEF Agree

(* A write gives an outcome: settings, whether all went well, the trouble. *)
IsOutcome(o) == o = [hw |-> o.hw, ok |-> o.ok, trouble |-> o.trouble]

LEMMA WriteGivesOutcome ==
  ASSUME NEW outcomes, NEW attribute, NEW value,
         NEW o \in WrittenTo(outcomes, attribute, value)
  PROVE  IsOutcome(o)
<1>1. PICK p \in outcomes : o \in Written(p, attribute, value)
  BY DEF WrittenTo
<1>2. \E h, k, t : o = [hw |-> h, ok |-> k, trouble |-> t] BY <1>1 DEF Written
<1>. QED BY <1>2 DEF IsOutcome

LEMMA ReadGivesOutcome ==
  ASSUME NEW p, IsOutcome(p), NEW o \in Read(p) PROVE IsOutcome(o)
<1>1. CASE o = p BY <1>1
<1>2. CASE o = [p EXCEPT !.ok = FALSE, !.trouble = @ + 1]
  <2>. DEFINE h == p.hw  k == p.ok  t == p.trouble
  <2>1. p = [hw |-> h, ok |-> k, trouble |-> t] BY DEF IsOutcome
  <2>. HIDE DEF h, k, t
  <2>2. o = [hw |-> h, ok |-> FALSE, trouble |-> t + 1] BY <1>2, <2>1
  <2>. QED BY <2>2 DEF IsOutcome
<1>. QED BY <1>1, <1>2 DEF Read

(* What a verified rollback leaves agrees with the old settings.           *)
LEMMA RollbackIsVerified ==
  ASSUME NEW o, NEW old, NEW r \in RolledBack(o, old), r.ok PROVE Agree(r.hw, old)
<1>. DEFINE rate == WrittenTo({[o EXCEPT !.ok = TRUE]}, "rate", old.rate)
            center == WrittenTo(rate, "center", old.center)
            mode == WrittenTo(center, "mode", old.mode)
            gain == IF old.mode = "manual" THEN WrittenTo(mode, "gain", old.gain) ELSE mode
<1>1. \A g \in gain : IsOutcome(g)
  <2>1. CASE old.mode = "manual"
    <3>1. gain = WrittenTo(mode, "gain", old.gain) BY <2>1
    <3>. QED BY <3>1, WriteGivesOutcome
  <2>2. CASE old.mode # "manual"
    <3>1. gain = WrittenTo(center, "mode", old.mode) BY <2>2
    <3>. QED BY <3>1, WriteGivesOutcome
  <2>. QED BY <2>1, <2>2
<1>2. RolledBack(o, old) =
        {[q EXCEPT !.ok = @ /\ Agree(q.hw, old)] : q \in UNION {Read(g) : g \in gain}}
  BY DEF RolledBack
<1>. HIDE DEF rate, center, mode, gain
<1>3. PICK q \in UNION {Read(g) : g \in gain} : r = [q EXCEPT !.ok = @ /\ Agree(q.hw, old)]
  BY <1>2
<1>4. IsOutcome(q)
  <2>1. PICK g \in gain : q \in Read(g)
    OBVIOUS
  <2>. QED BY <1>1, <2>1, ReadGivesOutcome
<1>. DEFINE h == q.hw  k == q.ok  t == q.trouble
<1>5. q = [hw |-> h, ok |-> k, trouble |-> t] BY <1>4 DEF IsOutcome
<1>6. r = [q EXCEPT !.ok = k /\ Agree(h, old)] BY <1>3
<1>. HIDE DEF h, k, t
<1>7. r.hw = h /\ r.ok = (k /\ Agree(h, old)) BY <1>5, <1>6
<1>. QED BY <1>7

(* A read changes no setting.                                              *)
LEMMA ReadKeeps ==
  ASSUME NEW settings, NEW trouble,
         NEW r \in Read([hw |-> settings, ok |-> TRUE, trouble |-> trouble])
  PROVE  r.hw = settings
<1>. DEFINE now == [hw |-> settings, ok |-> TRUE, trouble |-> trouble]
<1>1. now.hw = settings /\ [now EXCEPT !.ok = FALSE, !.trouble = @ + 1].hw = settings
  OBVIOUS
<1>. HIDE DEF now
<1>2. r = now \/ r = [now EXCEPT !.ok = FALSE, !.trouble = @ + 1]
  BY DEF Read, now
<1>. QED BY <1>1, <1>2

-----------------------------------------------------------------------------
LEMMA DeviceInvHolds == DeviceInit => DeviceInv
BY DEF DeviceInit, DeviceInv, Numbered, Believed, Present, BlocksSayTheTruth

(* Nothing but the numbers of a configuration is looked at.                *)
LEMMA ConfigureKeeps ==
  ASSUME DeviceInv, NEW request, Configure(request) PROVE DeviceInv'
<1>. DEFINE now == [hw |-> hw, ok |-> TRUE, trouble |-> spent.trouble]
<1>. USE DEF DeviceInv
<1>1. blocks' = blocks BY DEF Configure
(* Another generation begins: no block has its number.                     *)
<1>2. ASSUME generation' = generation + 1, nextSample' \in Nat,
             device'.configured => applied' = hw'
      PROVE  DeviceInv'
  <2>1. Numbered' BY <1>1, <1>2 DEF Numbered
  <2>2. Believed' BY <1>2, AgreeReflexive DEF Believed
  <2>3. \A b \in blocks : b.generation \in Nat /\ b.generation <= generation
    BY DEF Numbered, Present
  <2>4. \A b \in blocks : b.generation <= generation + 1 /\ b.generation # generation + 1
    BY <2>3 DEF Numbered
  <2>5. Present' BY <1>1, <1>2, <2>4 DEF Present
  <2>. QED BY <1>1, <2>1, <2>2, <2>5 DEF BlocksSayTheTruth
(* The old one goes on with settings that agree with its own.              *)
<1>3. ASSUME KeepOld, Agree(hw, hw') PROVE DeviceInv'
  <2>1. generation' = generation /\ nextSample' = nextSample /\ applied' = applied
        /\ (device'.configured => device.configured)
    BY <1>3 DEF KeepOld
  <2>2. Numbered' BY <1>1, <2>1 DEF Numbered
  <2>3. Believed' BY <1>3, <2>1, AgreeTransitive DEF Believed
  <2>4. Present' BY <1>1, <1>3, <2>1, AgreeTransitive DEF Present
  <2>. QED BY <1>1, <2>2, <2>3, <2>4 DEF BlocksSayTheTruth
<1>4. PICK old \in Read(now) :
        \/ ~old.ok /\ KeepOld /\ hw' = old.hw
        \/ old.ok /\ \E o \in Tried(now, request) :
             \/ o.ok /\ Commit(o) /\ hw' = o.hw
             \/ \E r \in RolledBack(o, hw) :
                  hw' = r.hw /\ IF r.ok THEN KeepOld ELSE GiveUp
  BY DEF Configure
<1>5. CASE KeepOld /\ hw' = old.hw
  <2>1. old.hw = hw BY ReadKeeps
  <2>. QED BY <1>3, <1>5, <2>1, AgreeReflexive
<1>6. ASSUME NEW o, Commit(o), hw' = o.hw PROVE DeviceInv'
  BY <1>2, <1>6 DEF Commit
<1>7. ASSUME NEW o, NEW r \in RolledBack(o, hw), hw' = r.hw,
             IF r.ok THEN KeepOld ELSE GiveUp
      PROVE  DeviceInv'
  <2>1. CASE r.ok BY <1>3, <1>7, <2>1, RollbackIsVerified, AgreeSymmetric
  <2>2. CASE ~r.ok
    <3>1. GiveUp BY <1>7, <2>2
    <3>2. generation' = generation + 1 /\ nextSample' = nextSample /\ ~device'.configured
      BY <3>1 DEF GiveUp
    <3>. QED BY <1>2, <3>2 DEF Numbered
  <2>. QED BY <2>1, <2>2
<1>. QED BY <1>4, <1>5, <1>6, <1>7

(* A block is received under what the device believes, after those of its  *)
(* generation before it.                                                   *)
LEMMA RefillKeeps ==
  ASSUME DeviceInv, Refill PROVE DeviceInv'
<1>. USE DEF DeviceInv
<1>1. PICK length \in {1, 2}, slot \in BOOLEAN :
        /\ nextSample' = nextSample + length
        /\ blocks' = IF slot
             THEN blocks \cup {[generation |-> generation, first |-> nextSample, length |-> length,
                                says |-> applied, settings |-> hw]}
             ELSE blocks
  BY DEF Refill
<1>2. UNCHANGED <<hw, device, applied, generation>> /\ device.configured
  BY DEF Refill
<1>. DEFINE new == [generation |-> generation, first |-> nextSample, length |-> length,
                    says |-> applied, settings |-> hw]
<1>3. new.generation = generation /\ new.first = nextSample /\ new.length = length
      /\ new.says = applied /\ new.settings = hw
  OBVIOUS
<1>4. \A b \in blocks' : b \in blocks \/ b = new BY <1>1
<1>. HIDE DEF new
<1>5. Agree(applied, hw) BY <1>2 DEF Believed
<1>6. nextSample' \in Nat /\ nextSample <= nextSample' /\ nextSample + length = nextSample'
      /\ length \in Nat
  BY <1>1 DEF Numbered
<1>7. Numbered' BY <1>2, <1>3, <1>4, <1>6 DEF Numbered
<1>8. Believed' BY <1>2 DEF Believed
(* The blocks before it stay where they are.                               *)
<1>9. \A b \in blocks : b.generation = generation =>
        /\ Agree(b.settings, hw) /\ b.first + b.length <= nextSample
        /\ b.first + b.length <= nextSample'
  BY <1>6 DEF Present, Numbered
<1>10. Present'
  <2>1. ASSUME NEW b \in blocks' PROVE b.generation <= generation
    BY <1>3, <1>4, <2>1 DEF Present, Numbered
  <2>2. ASSUME NEW b \in blocks', b.generation = generation
        PROVE  Agree(b.settings, hw) /\ b.first + b.length <= nextSample'
    BY <1>3, <1>4, <1>6, <1>9, <2>2, AgreeReflexive
  <2>. QED BY <1>2, <2>1, <2>2 DEF Present
<1>11. BlocksSayTheTruth'
  <2>1. ASSUME NEW b \in blocks' PROVE Agree(b.says, b.settings)
    BY <1>3, <1>4, <1>5, <2>1 DEF BlocksSayTheTruth
  <2>2. ASSUME NEW a \in blocks', NEW b \in blocks', a.generation = b.generation
        PROVE  Agree(a.settings, b.settings)
               /\ (a = b \/ a.first + a.length <= b.first \/ b.first + b.length <= a.first)
    <3>1. CASE a \in blocks /\ b \in blocks BY <2>2, <3>1 DEF BlocksSayTheTruth
    <3>2. CASE a = new /\ b = new BY <3>2, AgreeReflexive
    <3>3. CASE a \in blocks /\ b = new BY <1>3, <1>9, <2>2, <3>3
    <3>4. CASE a = new /\ b \in blocks
      BY <1>3, <1>9, <2>2, <3>4, AgreeSymmetric
    <3>. QED BY <1>4, <3>1, <3>2, <3>3, <3>4
  <2>. QED BY <2>1, <2>2 DEF BlocksSayTheTruth
<1>. QED BY <1>7, <1>8, <1>10, <1>11

(* An automatic gain that moves is none the settings are compared by.      *)
LEMMA GainKeeps ==
  ASSUME DeviceInv, GainMoves PROVE DeviceInv'
<1>. USE DEF DeviceInv
<1>1. PICK g : hw' = [hw EXCEPT !.gain = g]
  BY DEF GainMoves
<1>2. hw.mode = "automatic" /\ UNCHANGED <<device, applied, generation, nextSample, blocks>>
  BY DEF GainMoves
<1>3. hw'.rate = hw.rate /\ hw'.center = hw.center /\ hw'.mode = hw.mode
  BY <1>1
<1>4. Agree(hw, hw') BY <1>2, <1>3 DEF Agree
<1>5. Numbered' /\ BlocksSayTheTruth' BY <1>2 DEF Numbered, BlocksSayTheTruth
<1>6. Believed' /\ Present'
  BY <1>2, <1>4, AgreeTransitive DEF Believed, Present
<1>. QED BY <1>5, <1>6

LEMMA DeviceInvStep == DeviceInv /\ [DeviceNext]_deviceVars => DeviceInv'
<1>. SUFFICES ASSUME DeviceInv, [DeviceNext]_deviceVars PROVE DeviceInv'
  OBVIOUS
<1>1. ASSUME NEW request \in Settings, Configure(request) PROVE DeviceInv'
  BY <1>1, ConfigureKeeps
<1>2. CASE StartStream
  BY <1>2 DEF StartStream, DeviceInv, Numbered, Believed, Present, BlocksSayTheTruth
<1>3. CASE Refill BY <1>3, RefillKeeps
<1>4. CASE StopStream
  BY <1>4 DEF StopStream, DeviceInv, Numbered, Believed, Present, BlocksSayTheTruth
<1>5. CASE Disconnect
  BY <1>5 DEF Disconnect, DeviceInv, Numbered, Believed, Present, BlocksSayTheTruth
<1>6. CASE GainMoves BY <1>6, GainKeeps
<1>7. CASE UNCHANGED deviceVars
  BY <1>7 DEF deviceVars, DeviceInv, Numbered, Believed, Present, BlocksSayTheTruth
<1>. QED BY <1>1, <1>2, <1>3, <1>4, <1>5, <1>6, <1>7 DEF DeviceNext

(* A block says the settings it was received under, whatever write failed, *)
(* was rounded or could not be undone, and the samples of a configuration  *)
(* are numbered once each.                                                 *)
THEOREM BlocksSayTheTruthCorrect == DeviceSpec => []BlocksSayTheTruth
<1>1. DeviceInv => BlocksSayTheTruth BY DEF DeviceInv
<1>. QED BY <1>1, DeviceInvHolds, DeviceInvStep, PTL DEF DeviceSpec

-----------------------------------------------------------------------------
(* The live page: what it is told of the receiver, for any receivers, rates*)
(* and dialogs and any number of tasks.                                    *)

Tasks == [op : {"discover", "select", "manual", "apply", "start", "stop"},
          arg : Uris \cup Nat \cup {Nothing}]

Services ==
  [native : BOOLEAN, devices : SUBSET Receivers, selected : Receivers \cup {NoDevice},
   snapshot : Snapshots, held : Uris \cup {Nothing}, lost : BOOLEAN]

PoolTyped ==
  /\ pool \in Seq(Tasks)
  /\ \A i \in DOMAIN pool : /\ pool[i].op = "manual" => pool[i].arg \in Uris
                            /\ pool[i].op = "apply" => pool[i].arg \in Nat

PageTyped ==
  /\ page \in [open : BOOLEAN, shown : Snapshots \cup {Nothing}, rates : Seq(Nat) \ {<<>>}, choice : Nat]
  /\ page.choice \in DOMAIN page.rates

LiveTyped ==
  /\ service \in Services /\ PoolTyped /\ PageTyped
  /\ gui \in [at : {"idle", "attach", "page"}, opens : BOOLEAN]
  /\ ended \in Answers \cup {Nothing} /\ posted \in Seq(Answers)
  /\ dialogs \in [1..MaxDialogs -> [open : BOOLEAN, listed : SUBSET Uris]]
  /\ missed \in BOOLEAN /\ asked \in Nat

(* A receiver is selected whenever the service says that one is connected, *)
(* and over libiio its context is held unless the last attempt failed.     *)
Selected ==
  /\ service.snapshot.device = service.selected
  /\ service.snapshot.state = "CONNECTED" => service.selected # NoDevice
  /\ ~service.native => service.held = Nothing
  /\ (service.native /\ ~service.lost /\ service.selected # NoDevice) => service.held # Nothing

(* Over libiio nothing runs, so that nobody asks to stop.                  *)
NothingRuns ==
  service.native =>
    /\ service.snapshot.state # "RUNNING"
    /\ ended # Nothing => ended.snapshot.state # "RUNNING"
    /\ \A i \in DOMAIN posted : posted[i].snapshot.state # "RUNNING"
    /\ page.shown # Nothing => page.shown.state # "RUNNING"
    /\ \A i \in DOMAIN pool : pool[i].op # "stop"

(* An answer waits for its callback only between the two steps of _submit. *)
EndsAlone == ended # Nothing => (gui.at = "attach" /\ pool = <<>>)

(* The last snapshot of q, or if it has none the one shown, is s.          *)
ToldBy(q, shown, s) ==
  /\ \A i \in DOMAIN q :
       (q[i].kind = "snapshot" /\ \A j \in DOMAIN q : j > i => q[j].kind # "snapshot") =>
         q[i].snapshot = s
  /\ (shown # Nothing /\ \A i \in DOMAIN q : q[i].kind # "snapshot") => shown = s

EndsWithSnapshot == ended # Nothing /\ ended.kind = "snapshot"

Told ==
  IF EndsWithSnapshot THEN ended.snapshot = service.snapshot
  ELSE ~missed => ToldBy(posted, page.shown, service.snapshot)

RatesAreShown ==
  (page.shown # Nothing /\ page.shown.device # NoDevice) => page.rates = page.shown.device.rates

LiveInv ==
  /\ LiveTyped /\ ContextIsHeld /\ Selected /\ NothingRuns
  /\ EndsAlone /\ Told /\ RatesAreShown /\ AppliedFits

-----------------------------------------------------------------------------
(* What is appended comes last, and what is taken was first.               *)
LEMMA Appended ==
  ASSUME NEW V, NEW q \in Seq(V), NEW x \in V
  PROVE  /\ Append(q, x) \in Seq(V) /\ Len(q) \in Nat /\ Len(Append(q, x)) = Len(q) + 1
         /\ DOMAIN q = 1..Len(q) /\ DOMAIN Append(q, x) = 1..(Len(q) + 1)
         /\ Append(q, x)[Len(q) + 1] = x
         /\ \A i \in 1..Len(q) : Append(q, x)[i] = q[i]
OBVIOUS

LEMMA Taken ==
  ASSUME NEW V, NEW q \in Seq(V), q # <<>>
  PROVE  /\ Tail(q) \in Seq(V) /\ Len(q) \in Nat \ {0} /\ Head(q) = q[1] /\ Head(q) \in V
         /\ DOMAIN q = 1..Len(q) /\ DOMAIN Tail(q) = 1..(Len(q) - 1)
         /\ \A i \in 1..(Len(q) - 1) : i + 1 \in 1..Len(q) /\ Tail(q)[i] = q[i + 1]
<1>1. /\ Len(q) \in Nat \ {0} /\ Head(q) = q[1] /\ Tail(q) \in Seq(V) /\ Len(Tail(q)) = Len(q) - 1
      /\ DOMAIN q = 1..Len(q)
  OBVIOUS
<1>2. Head(q) \in V BY <1>1
<1>3. DOMAIN Tail(q) = 1..(Len(q) - 1) BY <1>1
<1>4. ASSUME NEW i \in 1..(Len(q) - 1) PROVE i + 1 \in 1..Len(q) /\ Tail(q)[i] = q[i + 1]
  BY <1>1
<1>5. QED BY <1>1, <1>2, <1>3, <1>4

(* A set of numbers that is not empty has a least one.                     *)
LEMMA Least ==
  ASSUME NEW T, T \subseteq Nat, T # {}
  PROVE  \E x \in T : \A y \in T : x <= y
<1>1. IsWellFoundedOn(OpToRel(<, Nat), Nat) BY NatLessThanWellFounded
<1>2. PICK x \in T : \A y \in T : ~ (<<y, x>> \in OpToRel(<, Nat))
  BY <1>1, WFMin
<1>3. ASSUME NEW y \in T PROVE x <= y
  <2>1. ~ (<<y, x>> \in OpToRel(<, Nat)) BY <1>2
  <2>2. ~ (y < x) BY <2>1, x \in T DEF OpToRel
  <2>3. QED BY <2>2, x \in T
<1>4. QED BY <1>3

(* The nearest rate is one of the list.                                    *)
LEMMA NearestIsOne ==
  ASSUME NEW rates \in Seq(Nat) \ {<<>>}, NEW r \in Nat
  PROVE  /\ \E i \in DOMAIN rates : Nearest(rates, r) = rates[i]
         /\ Nearest(rates, r) \in Nat
<1> DEFINE Distance(i) == IF rates[i] < r THEN r - rates[i] ELSE rates[i] - r
           Lengths == {Distance(i) : i \in DOMAIN rates}
<1>1. /\ DOMAIN rates = 1..Len(rates) /\ Len(rates) \in Nat \ {0}
      /\ \A i \in DOMAIN rates : i \in Nat /\ rates[i] \in Nat
  OBVIOUS
<1>2. \A i \in DOMAIN rates : Distance(i) \in Nat BY <1>1
<1>3. Lengths \subseteq Nat /\ Lengths # {} BY <1>1, <1>2
<1>4. PICK d \in Lengths : \A e \in Lengths : d <= e
  BY <1>3, Least
<1> DEFINE Nearer == {i \in DOMAIN rates : Distance(i) = d}
<1>5. Nearer \subseteq Nat /\ Nearer # {} BY <1>1, <1>4
<1>6. PICK i \in Nearer : \A j \in Nearer : i <= j
  BY <1>5, Least
<1>7. i \in DOMAIN rates /\ Distance(i) = d BY <1>6
<1>8. ASSUME NEW j \in DOMAIN rates
      PROVE  Distance(i) < Distance(j) \/ (Distance(i) = Distance(j) /\ i <= j)
  <2>1. Distance(j) \in Lengths /\ Distance(j) \in Nat /\ d \in Nat
    BY <1>2, <1>3, <1>4
  <2>2. d <= Distance(j) BY <2>1, <1>4
  <2>3. CASE d = Distance(j)
    <3>1. j \in Nearer BY <2>3
    <3>2. QED BY <3>1, <1>6, <1>7, <2>3
  <2>4. CASE d # Distance(j)
    <3> HIDE DEF Distance
    <3>1. QED BY <2>1, <2>2, <2>4, <1>7
  <2>5. QED BY <2>3, <2>4
<1>9. \E k \in DOMAIN rates :
        \A j \in DOMAIN rates : Distance(k) < Distance(j) \/ (Distance(k) = Distance(j) /\ k <= j)
  BY <1>7, <1>8
<1>10. PICK k \in DOMAIN rates : Nearest(rates, r) = rates[k]
  <2> DEFINE best == CHOOSE k \in DOMAIN rates :
        \A j \in DOMAIN rates : Distance(k) < Distance(j) \/ (Distance(k) = Distance(j) /\ k <= j)
  <2>1. best \in DOMAIN rates BY <1>9, Zenon
  <2>2. Nearest(rates, r) = rates[best] BY Zenon DEF Nearest
  <2>3. QED BY <2>1, <2>2, Zenon
<1>11. QED BY <1>1, <1>10

-----------------------------------------------------------------------------
(* What the queue tells when an answer is appended to it or shown.         *)
LEMMA SnapshotIsLast ==
  ASSUME NEW q \in Seq(Answers), NEW a \in Answers, a.kind = "snapshot", NEW shown
  PROVE  ToldBy(Append(q, a), shown, a.snapshot)
<1> DEFINE p == Append(q, a)
<1>1. /\ Len(q) \in Nat /\ DOMAIN p = 1..(Len(q) + 1) /\ p[Len(q) + 1] = a
  BY Appended
<1> HIDE DEF p
<1>2. ASSUME NEW i \in DOMAIN p, \A j \in DOMAIN p : j > i => p[j].kind # "snapshot"
      PROVE  p[i].snapshot = a.snapshot
  <2>1. Len(q) + 1 \in DOMAIN p /\ i \in Nat BY <1>1
  <2>2. ~(Len(q) + 1 > i) BY <2>1, <1>1, <1>2
  <2>3. i = Len(q) + 1 BY <2>1, <2>2, <1>1
  <2>4. QED BY <2>3, <1>1
<1>3. Len(q) + 1 \in DOMAIN p BY <1>1
<1>4. ToldBy(p, shown, a.snapshot) BY <1>1, <1>2, <1>3 DEF ToldBy
<1>5. QED BY <1>4 DEF p

LEMMA OthersTellNothing ==
  ASSUME NEW q \in Seq(Answers), NEW a \in Answers, a.kind # "snapshot", NEW shown, NEW s,
         ToldBy(q, shown, s)
  PROVE  ToldBy(Append(q, a), shown, s)
<1> DEFINE p == Append(q, a)
<1>1. /\ Len(q) \in Nat /\ DOMAIN q = 1..Len(q) /\ DOMAIN p = 1..(Len(q) + 1) /\ p[Len(q) + 1] = a
      /\ \A i \in 1..Len(q) : p[i] = q[i]
  BY Appended
<1> HIDE DEF p
<1>2. \A i \in DOMAIN q : i \in DOMAIN p /\ p[i] = q[i] BY <1>1
<1>3. ASSUME NEW i \in DOMAIN p, p[i].kind = "snapshot",
             \A j \in DOMAIN p : j > i => p[j].kind # "snapshot"
      PROVE  p[i].snapshot = s
  <2>1. i # Len(q) + 1 BY <1>1, <1>3
  <2>2. i \in DOMAIN q BY <2>1, <1>1
  <2>3. \A j \in DOMAIN q : j > i => q[j].kind # "snapshot" BY <1>2, <1>3
  <2>4. q[i].snapshot = s BY <2>2, <2>3, <1>2, <1>3 DEF ToldBy
  <2>5. QED BY <2>2, <2>4, <1>2
<1>4. (shown # Nothing /\ \A i \in DOMAIN p : p[i].kind # "snapshot") => shown = s
  BY <1>2 DEF ToldBy
<1>5. ToldBy(p, shown, s) BY <1>3, <1>4 DEF ToldBy
<1>6. QED BY <1>5 DEF p

LEMMA HeadIsShown ==
  ASSUME NEW q \in Seq(Answers), q # <<>>, NEW shown, NEW s, ToldBy(q, shown, s)
  PROVE  ToldBy(Tail(q), IF Head(q).kind = "snapshot" THEN Head(q).snapshot ELSE shown, s)
<1> DEFINE p == Tail(q)
           seen == IF Head(q).kind = "snapshot" THEN Head(q).snapshot ELSE shown
<1>1. /\ Len(q) \in Nat \ {0} /\ Head(q) = q[1]
      /\ DOMAIN q = 1..Len(q) /\ DOMAIN p = 1..(Len(q) - 1)
      /\ \A i \in 1..(Len(q) - 1) : i + 1 \in 1..Len(q) /\ p[i] = q[i + 1]
  BY Taken
<1> HIDE DEF p
<1>2. \A j \in DOMAIN q : j > 1 => (j - 1 \in DOMAIN p /\ q[j] = p[j - 1])
  <2> TAKE j \in DOMAIN q
  <2> HAVE j > 1
  <2>1. j - 1 \in 1..(Len(q) - 1) /\ (j - 1) + 1 = j BY <1>1
  <2>2. p[j - 1] = q[(j - 1) + 1] BY <2>1, <1>1
  <2>3. QED BY <2>1, <2>2, <1>1
<1>3. ASSUME NEW i \in DOMAIN p, p[i].kind = "snapshot",
             \A j \in DOMAIN p : j > i => p[j].kind # "snapshot"
      PROVE  p[i].snapshot = s
  <2>1. i + 1 \in DOMAIN q /\ q[i + 1] = p[i] /\ i \in Nat \ {0} BY <1>1
  <2>2. ASSUME NEW j \in DOMAIN q, j > i + 1 PROVE q[j].kind # "snapshot"
    <3>1. j > 1 /\ j - 1 > i BY <2>1, <2>2, <1>1
    <3>2. j - 1 \in DOMAIN p /\ q[j] = p[j - 1] BY <3>1, <1>2
    <3>3. QED BY <3>1, <3>2, <1>3
  <2>3. QED BY <2>1, <2>2, <1>3 DEF ToldBy
<1>4. ASSUME seen # Nothing, \A i \in DOMAIN p : p[i].kind # "snapshot" PROVE seen = s
  <2>1. \A j \in DOMAIN q : j > 1 => q[j].kind # "snapshot" BY <1>2, <1>4
  <2>2. CASE Head(q).kind = "snapshot"
    <3>1. 1 \in DOMAIN q /\ q[1].kind = "snapshot" BY <1>1, <2>2
    <3>2. q[1].snapshot = s BY <3>1, <2>1 DEF ToldBy
    <3>3. QED BY <3>2, <2>2, <1>1
  <2>3. CASE Head(q).kind # "snapshot"
    <3>1. \A j \in DOMAIN q : q[j].kind # "snapshot"
      <4> TAKE j \in DOMAIN q
      <4>1. j = 1 \/ j > 1 BY <1>1
      <4>2. QED BY <4>1, <2>1, <2>3, <1>1
    <3>2. QED BY <3>1, <1>4, <2>3 DEF ToldBy
  <2>4. QED BY <2>2, <2>3
<1> HIDE DEF seen
<1>5. ToldBy(p, seen, s) BY <1>3, <1>4 DEF ToldBy
<1>6. QED BY <1>5 DEF p, seen

LEMMA NothingLeftToTell ==
  ASSUME NEW q, \A i \in DOMAIN q : q[i].kind # "snapshot", NEW s
  PROVE  ToldBy(q, s, s)
BY DEF ToldBy

-----------------------------------------------------------------------------
(* What an operation makes of the service                                  *)

LEMMA NoDeviceIsNone == \A d \in Receivers : d # NoDevice /\ d.uri \in Uris /\ d.uri # Nothing
BY LivePageAssumption DEF Receivers, NoDevice, Device

LEMMA FailedIs ==
  ASSUME NEW s \in Services
  PROVE  /\ Failed(s) \in Services /\ Failed(s).native = s.native /\ Failed(s).devices = s.devices
         /\ Failed(s).selected = s.selected /\ Failed(s).held = s.held /\ Failed(s).lost = s.lost
         /\ Failed(s).snapshot.state = "ERROR" /\ Failed(s).snapshot.device = s.snapshot.device
         /\ Failed(s).snapshot.applied = s.snapshot.applied
<1> DEFINE snapshot == [s.snapshot EXCEPT !.state = "ERROR"]
<1>1. s.snapshot \in Snapshots BY DEF Services
<1>2. /\ snapshot \in Snapshots /\ snapshot.state = "ERROR" /\ snapshot.device = s.snapshot.device
      /\ snapshot.applied = s.snapshot.applied
  BY <1>1 DEF Snapshots
<1>3. Failed(s) = [s EXCEPT !.snapshot = snapshot] BY <1>1 DEF Failed, Services
<1> HIDE DEF snapshot
<1>4. /\ Failed(s) \in Services /\ Failed(s).snapshot = snapshot /\ Failed(s).native = s.native
      /\ Failed(s).devices = s.devices /\ Failed(s).selected = s.selected /\ Failed(s).held = s.held
      /\ Failed(s).lost = s.lost
  BY <1>2, <1>3 DEF Services
<1>5. QED BY <1>2, <1>4

LEMMA ConnectedIs ==
  ASSUME NEW s \in Services, NEW d \in Receivers
  PROVE  /\ Connected(s, d) \in Services /\ Connected(s, d).native = s.native
         /\ Connected(s, d).devices = s.devices /\ Connected(s, d).selected = d
         /\ Connected(s, d).held = s.held /\ Connected(s, d).lost = s.lost
         /\ Connected(s, d).snapshot.state = "CONNECTED" /\ Connected(s, d).snapshot.device = d
         /\ Connected(s, d).snapshot.applied = Nothing
<1> DEFINE snapshot == [generation |-> s.snapshot.generation + 1, state |-> "CONNECTED",
                        device |-> d, applied |-> Nothing]
<1>1. s.snapshot.generation \in Nat BY DEF Services, Snapshots
<1>2. snapshot \in Snapshots BY <1>1 DEF Snapshots
<1>3. Connected(s, d) = [s EXCEPT !.selected = d, !.snapshot = snapshot]
  BY DEF Connected
<1>4. snapshot.state = "CONNECTED" /\ snapshot.device = d /\ snapshot.applied = Nothing
  OBVIOUS
<1> HIDE DEF snapshot
<1>5. /\ Connected(s, d) \in Services /\ Connected(s, d).snapshot = snapshot
      /\ Connected(s, d).native = s.native /\ Connected(s, d).devices = s.devices
      /\ Connected(s, d).selected = d /\ Connected(s, d).held = s.held /\ Connected(s, d).lost = s.lost
  BY <1>2, <1>3 DEF Services
<1>6. QED BY <1>4, <1>5

LEMMA AppliedIs ==
  ASSUME NEW s \in Services, s.selected # NoDevice, NEW r \in Nat
  PROVE  /\ Applied(s, r) \in Services /\ Applied(s, r).native = s.native
         /\ Applied(s, r).devices = s.devices /\ Applied(s, r).selected = s.selected
         /\ Applied(s, r).held = s.held /\ Applied(s, r).lost = s.lost
         /\ Applied(s, r).snapshot.state = "CONNECTED"
         /\ Applied(s, r).snapshot.device = s.selected
         /\ \E i \in DOMAIN s.selected.rates : Applied(s, r).snapshot.applied = s.selected.rates[i]
<1> DEFINE next == Connected(s, s.selected)
           rate == Nearest(s.selected.rates, r)
           snapshot == [next.snapshot EXCEPT !.applied = rate]
<1>1. s.selected \in Receivers BY DEF Services
<1>2. s.selected.rates \in Seq(Nat) \ {<<>>} BY <1>1 DEF Receivers
<1>3. rate \in Nat /\ \E i \in DOMAIN s.selected.rates : rate = s.selected.rates[i]
  BY <1>2, NearestIsOne
<1>4. /\ next \in Services /\ next.native = s.native /\ next.devices = s.devices
      /\ next.selected = s.selected /\ next.held = s.held /\ next.lost = s.lost
      /\ next.snapshot.state = "CONNECTED" /\ next.snapshot.device = s.selected
  BY <1>1, ConnectedIs
<1>5. Applied(s, r) = [next EXCEPT !.snapshot.applied = rate] BY DEF Applied
<1> HIDE DEF next, rate
<1>6. next.snapshot \in Snapshots BY <1>4 DEF Services
<1>7. /\ snapshot \in Snapshots /\ snapshot.state = next.snapshot.state
      /\ snapshot.device = next.snapshot.device /\ snapshot.applied = rate
  BY <1>3, <1>6 DEF Snapshots
<1>8. Applied(s, r) = [next EXCEPT !.snapshot = snapshot]
  BY <1>4, <1>5, <1>6 DEF Services
<1> HIDE DEF snapshot
<1>9. /\ Applied(s, r) \in Services /\ Applied(s, r).snapshot = snapshot
      /\ Applied(s, r).native = next.native /\ Applied(s, r).devices = next.devices
      /\ Applied(s, r).selected = next.selected /\ Applied(s, r).held = next.held
      /\ Applied(s, r).lost = next.lost
  BY <1>4, <1>7, <1>8 DEF Services
<1>10. QED BY <1>3, <1>4, <1>7, <1>9

LEMMA StateIs ==
  ASSUME NEW s \in Services, NEW state \in {"DISCONNECTED", "CONNECTED", "RUNNING", "ERROR"},
         NEW next, next = [s EXCEPT !.snapshot.state = state]
  PROVE  /\ next \in Services /\ next.native = s.native /\ next.devices = s.devices
         /\ next.selected = s.selected /\ next.held = s.held /\ next.lost = s.lost
         /\ next.snapshot.state = state /\ next.snapshot.device = s.snapshot.device
         /\ next.snapshot.applied = s.snapshot.applied
<1> DEFINE snapshot == [s.snapshot EXCEPT !.state = state]
<1>1. s.snapshot \in Snapshots BY DEF Services
<1>2. /\ snapshot \in Snapshots /\ snapshot.state = state /\ snapshot.device = s.snapshot.device
      /\ snapshot.applied = s.snapshot.applied
  BY <1>1 DEF Snapshots
<1>3. next = [s EXCEPT !.snapshot = snapshot] BY <1>1 DEF Services
<1> HIDE DEF snapshot
<1>4. /\ next \in Services /\ next.snapshot = snapshot /\ next.native = s.native
      /\ next.devices = s.devices /\ next.selected = s.selected /\ next.held = s.held
      /\ next.lost = s.lost
  BY <1>2, <1>3 DEF Services
<1>5. QED BY <1>2, <1>4

ServiceInv ==
  /\ service \in Services /\ ContextIsHeld /\ Selected /\ AppliedFits
  /\ service.native => service.snapshot.state # "RUNNING"

(* The service as an operation finds it: discover may have listed more.    *)
SameBut(s) ==
  /\ s \in Services /\ s.native = service.native /\ s.selected = service.selected
  /\ s.snapshot = service.snapshot /\ s.held = service.held /\ s.lost = service.lost

LEMMA FailedKeeps ==
  ASSUME ServiceInv, NEW s, SameBut(s), service' = Failed(s), contexts' = contexts
  PROVE  ServiceInv' /\ service'.native = service.native
<1>1. /\ service' \in Services /\ service'.native = service.native
      /\ service'.selected = service.selected /\ service'.held = service.held
      /\ service'.lost = service.lost /\ service'.snapshot.state = "ERROR"
      /\ service'.snapshot.device = service.snapshot.device
      /\ service'.snapshot.applied = service.snapshot.applied
  BY FailedIs DEF SameBut
<1>2. ContextIsHeld' BY <1>1 DEF ServiceInv, ContextIsHeld
<1>3. Selected' BY <1>1 DEF ServiceInv, Selected
<1>4. AppliedFits' BY <1>1 DEF ServiceInv, AppliedFits
<1>5. QED BY <1>1, <1>2, <1>3, <1>4 DEF ServiceInv

LEMMA SelectsKeeps ==
  ASSUME ServiceInv, NEW s, SameBut(s), NEW u, Selects(s, u)
  PROVE  ServiceInv' /\ service'.native = service.native
<1> DEFINE known == {d \in s.devices : d.uri = u}
<1>1. CASE known = {}
  <2>1. service' = Failed(s) /\ contexts' = contexts BY <1>1 DEF Selects
  <2>2. QED BY <2>1, FailedKeeps
<1>2. CASE known # {}
  <2>1. PICK d \in known :
          IF s.native THEN Connects(s, d) ELSE service' = Connected(s, d) /\ UNCHANGED contexts
    BY <1>2 DEF Selects
  <2>2. d \in Receivers /\ d # NoDevice /\ d.uri \in Uris /\ d.uri # Nothing
    BY NoDeviceIsNone DEF SameBut, Services
  <2>3. /\ Connected(s, d) \in Services /\ Connected(s, d).native = service.native
        /\ Connected(s, d).selected = d /\ Connected(s, d).held = service.held
        /\ Connected(s, d).lost = service.lost
        /\ Connected(s, d).snapshot.state = "CONNECTED" /\ Connected(s, d).snapshot.device = d
        /\ Connected(s, d).snapshot.applied = Nothing
    BY <2>2, ConnectedIs DEF SameBut
  <2>4. s \in Services /\ s.native = service.native /\ s.held = service.held
    BY DEF SameBut
  <2>5. CASE ~s.native
    <3>1. service' = Connected(s, d) /\ contexts' = contexts BY <2>1, <2>5
    <3> HIDE DEF known
    <3>2. service.held = Nothing /\ ~service.native
      BY <2>4, <2>5 DEF ServiceInv, Selected
    <3>3. ContextIsHeld' BY <2>3, <3>1, <3>2 DEF ServiceInv, ContextIsHeld
    <3>4. Selected' /\ AppliedFits'
      BY <2>2, <2>3, <3>1, <3>2 DEF Selected, AppliedFits
    <3>5. QED BY <2>3, <3>1, <3>2, <3>3, <3>4 DEF ServiceInv
  <2>6. CASE /\ s.native
             /\ service' = [Connected(s, d) EXCEPT !.held = d.uri, !.lost = FALSE]
             /\ contexts' = (contexts \ {s.held}) \cup {d.uri}
    <3> DEFINE c == Connected(s, d)
    <3>0. /\ c \in Services /\ c.native = service.native /\ c.selected = d
          /\ c.snapshot.state = "CONNECTED" /\ c.snapshot.device = d /\ c.snapshot.applied = Nothing
      BY <2>3
    <3>00. service' = [c EXCEPT !.held = d.uri, !.lost = FALSE] BY <2>6
    <3> HIDE DEF known, c
    <3>1. /\ service' \in Services /\ service'.native = service.native /\ service'.selected = d
          /\ service'.held = d.uri /\ ~service'.lost /\ service'.snapshot = c.snapshot
      BY <3>0, <3>00, <2>2 DEF Services
    <3>2. contexts \subseteq {s.held} BY <2>4 DEF ServiceInv, ContextIsHeld
    <3>3. contexts' = {d.uri} BY <3>2, <2>6
    <3>4. ContextIsHeld' BY <3>1, <3>3, <2>2 DEF ContextIsHeld
    <3>5. Selected' /\ AppliedFits'
      BY <3>0, <3>1, <2>2, <2>4, <2>6 DEF Selected, AppliedFits
    <3>6. QED BY <3>0, <3>1, <3>4, <3>5 DEF ServiceInv
  <2>7. CASE /\ s.native
             /\ service' = [Failed(s) EXCEPT !.held = Nothing, !.lost = TRUE]
             /\ contexts' = contexts \ {s.held}
    <3> DEFINE f == Failed(s)
    <3>0. /\ f \in Services /\ f.native = service.native /\ f.selected = service.selected
          /\ f.snapshot.state = "ERROR" /\ f.snapshot.device = service.snapshot.device
          /\ f.snapshot.applied = service.snapshot.applied
      BY FailedIs DEF SameBut
    <3>00. service' = [f EXCEPT !.held = Nothing, !.lost = TRUE] BY <2>7
    <3> HIDE DEF known, f
    <3>1. /\ service' \in Services /\ service'.native = service.native
          /\ service'.selected = service.selected
          /\ service'.held = Nothing /\ service'.lost /\ service'.snapshot = f.snapshot
      BY <3>0, <3>00 DEF Services
    <3>2. contexts \subseteq {s.held} BY <2>4 DEF ServiceInv, ContextIsHeld
    <3>3. contexts' = {} BY <3>2, <2>7
    <3>4. ContextIsHeld' BY <3>1, <3>3 DEF ContextIsHeld
    <3>5. Selected' BY <3>0, <3>1 DEF ServiceInv, Selected
    <3>6. AppliedFits' BY <3>0, <3>1 DEF ServiceInv, AppliedFits
    <3>7. QED BY <3>0, <3>1, <3>4, <3>5, <3>6 DEF ServiceInv
  <2>8. CASE s.native
    <3>1. Connects(s, d) BY <2>1, <2>8
    <3>2. QED BY <3>1, <2>6, <2>7, <2>8, Zenon DEF Connects
  <2>9. QED BY <2>5, <2>8
<1>3. QED BY <1>1, <1>2

LEMMA AppliesKeeps ==
  ASSUME ServiceInv, NEW r \in Nat, service' = Applied(service, r), contexts' = contexts
  PROVE  ServiceInv' /\ service'.native = service.native
<1>1. CASE service.selected = NoDevice
  <2>1. SameBut(service) /\ service' = Failed(service)
    BY <1>1 DEF Applied, SameBut, ServiceInv
  <2>2. QED BY <2>1, FailedKeeps
<1>2. CASE service.selected # NoDevice
  <2>1. /\ service' \in Services /\ service'.native = service.native
        /\ service'.selected = service.selected
        /\ service'.held = service.held /\ service'.lost = service.lost
        /\ service'.snapshot.state = "CONNECTED"
        /\ service'.snapshot.device = service.selected
        /\ \E i \in DOMAIN service.selected.rates :
             service'.snapshot.applied = service.selected.rates[i]
    BY <1>2, AppliedIs DEF ServiceInv
  <2>2. ContextIsHeld' BY <2>1, <1>2 DEF ServiceInv, ContextIsHeld, Selected
  <2>3. Selected' BY <2>1, <1>2 DEF ServiceInv, Selected
  <2>4. AppliedFits' BY <2>1 DEF AppliedFits
  <2>5. QED BY <2>1, <2>2, <2>3, <2>4 DEF ServiceInv
<1>3. QED BY <1>1, <1>2

LEMMA StartedKeeps ==
  ASSUME ServiceInv, service' = Started(service), contexts' = contexts
  PROVE  ServiceInv' /\ service'.native = service.native
<1>1. CASE service.native \/ service.snapshot.applied = Nothing
  <2>1. SameBut(service) /\ service' = Failed(service)
    BY <1>1 DEF Started, SameBut, ServiceInv
  <2>2. QED BY <2>1, FailedKeeps
<1>2. CASE ~(service.native \/ service.snapshot.applied = Nothing)
  <2>1. service' = [service EXCEPT !.snapshot.state = "RUNNING"]
    BY <1>2 DEF Started
  <2>2. /\ service' \in Services /\ service'.native = service.native
        /\ service'.selected = service.selected /\ service'.held = service.held
        /\ service'.lost = service.lost /\ service'.snapshot.state = "RUNNING"
        /\ service'.snapshot.device = service.snapshot.device
        /\ service'.snapshot.applied = service.snapshot.applied
    <3>1. service \in Services BY DEF ServiceInv
    <3>2. QED BY ONLY <2>1, <3>1, StateIs
  <2>3. ContextIsHeld' BY <2>2, <1>2 DEF ServiceInv, ContextIsHeld
  <2>4. Selected' BY <2>2, <1>2 DEF ServiceInv, Selected
  <2>5. AppliedFits' BY <2>2 DEF ServiceInv, AppliedFits
  <2>6. QED BY <1>2, <2>2, <2>3, <2>4, <2>5 DEF ServiceInv
<1>3. QED BY <1>1, <1>2

(* Only a service in memory is ever asked to stop.                         *)
LEMMA StoppedKeeps ==
  ASSUME ServiceInv, ~service.native,
         service' = [service EXCEPT !.snapshot.state = StoppedState(service), !.held = Nothing],
         contexts' = contexts \ {service.held}
  PROVE  ServiceInv' /\ service'.native = service.native
<1> DEFINE s == [service EXCEPT !.snapshot.state = StoppedState(service)]
<1>1. service.held = Nothing /\ service \in Services
  BY DEF ServiceInv, Selected
<1>2. /\ s \in Services /\ s.native = service.native /\ s.selected = service.selected
      /\ s.held = service.held /\ s.lost = service.lost
      /\ s.snapshot.state = StoppedState(service)
      /\ s.snapshot.device = service.snapshot.device /\ s.snapshot.applied = service.snapshot.applied
  <2>1. StoppedState(service) \in {"DISCONNECTED", "CONNECTED", "RUNNING", "ERROR"}
    BY DEF StoppedState
  <2>2. s = [service EXCEPT !.snapshot.state = StoppedState(service)] OBVIOUS
  <2> HIDE DEF s
  <2>3. QED BY ONLY <1>1, <2>1, <2>2, StateIs
<1>3. service' = [s EXCEPT !.held = Nothing] BY <1>1 DEF Services
<1> HIDE DEF s
<1>4. /\ service' \in Services /\ service'.native = service.native
      /\ service'.selected = service.selected /\ service'.held = Nothing
      /\ service'.lost = service.lost /\ service'.snapshot = s.snapshot
  BY <1>2, <1>3 DEF Services
<1>5. ContextIsHeld' BY <1>1, <1>4 DEF ServiceInv, ContextIsHeld
<1>6. Selected' BY <1>2, <1>4 DEF ServiceInv, Selected, StoppedState
<1>7. AppliedFits' BY <1>2, <1>4 DEF ServiceInv, AppliedFits
<1>8. QED BY <1>4, <1>5, <1>6, <1>7 DEF ServiceInv

-----------------------------------------------------------------------------
(* The steps                                                               *)

(* What is left to hold besides what the operations keep.                  *)
Others ==
  /\ PoolTyped /\ PageTyped
  /\ gui \in [at : {"idle", "attach", "page"}, opens : BOOLEAN]
  /\ ended \in Answers \cup {Nothing} /\ posted \in Seq(Answers)
  /\ dialogs \in [1..MaxDialogs -> [open : BOOLEAN, listed : SUBSET Uris]]
  /\ missed \in BOOLEAN /\ asked \in Nat
  /\ NothingRuns /\ EndsAlone /\ Told /\ RatesAreShown

LEMMA InTwoParts == /\ LiveInv <=> ServiceInv /\ Others
                    /\ LiveInv' <=> ServiceInv' /\ Others'
BY DEF LiveInv, LiveTyped, ServiceInv, Others, NothingRuns

LEMMA AnswerKeeps ==
  ASSUME LiveInv, pool # <<>>, ServiceInv', service'.native = service.native,
         NEW answer \in Answers, Answered(answer), answer.snapshot = service'.snapshot,
         answer.kind = "devices" => service'.snapshot = service.snapshot
  PROVE  LiveInv'
<1>1. ended = Nothing /\ answer # Nothing /\ answer.kind \in {"devices", "snapshot"}
  BY LivePageAssumption DEF LiveInv, EndsAlone, Answers
<1>2. Others BY InTwoParts
<1>3. pool' = Tail(pool) /\ UNCHANGED <<gui, page, dialogs, asked>>
  BY DEF Answered
<1>4. service.native => answer.snapshot.state # "RUNNING" BY DEF ServiceInv
<1>5. /\ PoolTyped'
      /\ service.native => \A i \in DOMAIN pool' : pool'[i].op # "stop"
  <2>1. pool \in Seq(Tasks) BY <1>2 DEF Others, PoolTyped
  <2>2. /\ pool' \in Seq(Tasks) /\ Len(pool) \in Nat \ {0}
        /\ DOMAIN pool = 1..Len(pool) /\ DOMAIN pool' = 1..(Len(pool) - 1)
        /\ \A i \in 1..(Len(pool) - 1) : i + 1 \in 1..Len(pool) /\ pool'[i] = pool[i + 1]
    <3>1. pool # <<>> /\ pool' = Tail(pool) BY <1>3
    <3> QED BY ONLY <2>1, <3>1, Taken
  <2>3. PoolTyped' BY <2>2, <1>2 DEF Others, PoolTyped
  <2>4. service.native => \A i \in DOMAIN pool' : pool'[i].op # "stop"
    <3> SUFFICES ASSUME service.native, NEW i \in DOMAIN pool' PROVE pool'[i].op # "stop"
      OBVIOUS
    <3>1. i + 1 \in DOMAIN pool /\ pool'[i] = pool[i + 1] BY <2>2
    <3>2. \A j \in DOMAIN pool : pool[j].op # "stop"
      BY <1>2 DEF Others, NothingRuns
    <3>3. QED BY <3>1, <3>2
  <2>5. QED BY <2>3, <2>4
<1>6. PageTyped' /\ RatesAreShown'
  BY <1>2, <1>3 DEF Others, PageTyped, RatesAreShown
<1>7. CASE gui.at = "attach" /\ Len(pool) = 1
  <2>1. ended' = answer /\ posted' = posted /\ missed' = missed
    BY <1>7 DEF Answered
  <2>2. pool' = <<>>
    <3>1. pool \in Seq(Tasks) /\ Len(pool) = 1
      BY <1>2, <1>7 DEF Others, PoolTyped
    <3>2. QED BY <3>1, <1>3
  <2>3. EndsAlone' BY <2>1, <2>2, <1>3, <1>7 DEF EndsAlone
  <2>4. NothingRuns'
    BY <2>1, <1>2, <1>3, <1>4, <1>5 DEF Others, NothingRuns, ServiceInv
  <2>5. Told'
    <3>1. CASE answer.kind = "snapshot"
      BY <3>1, <2>1, <1>1 DEF Told, EndsWithSnapshot
    <3>2. CASE answer.kind = "devices"
      <4>1. ~EndsWithSnapshot /\ ~EndsWithSnapshot'
        BY <3>2, <2>1, <1>1 DEF EndsWithSnapshot
      <4>2. ~missed => ToldBy(posted, page.shown, service.snapshot)
        BY <4>1, <1>2 DEF Others, Told
      <4>3. ~missed' => ToldBy(posted', page'.shown, service'.snapshot)
        BY <4>2, <3>2, <2>1, <1>3
      <4>4. QED BY <4>1, <4>3 DEF Told
    <3>3. QED BY <3>1, <3>2, <1>1
  <2>6. Others' BY <2>1, <2>3, <2>4, <2>5, <1>2, <1>3, <1>5, <1>6 DEF Others
  <2>7. QED BY <2>6, InTwoParts
<1>8. CASE ~(gui.at = "attach" /\ Len(pool) = 1)
  <2>1. EmitAnswer(answer) /\ ended' = Nothing BY <1>1, <1>8 DEF Answered
  <2>2. posted \in Seq(Answers) BY <1>2 DEF Others
  <2>3. /\ posted' \in Seq(Answers)
        /\ service.native => \A i \in DOMAIN posted' : posted'[i].snapshot.state # "RUNNING"
    <3>1. CASE posted' = posted BY <3>1, <2>2, <1>2 DEF Others, NothingRuns
    <3>2. CASE posted' = Append(posted, answer)
      <4>1. /\ posted' \in Seq(Answers) /\ Len(posted) \in Nat
            /\ DOMAIN posted = 1..Len(posted) /\ DOMAIN posted' = 1..(Len(posted) + 1)
            /\ posted'[Len(posted) + 1] = answer
            /\ \A i \in 1..Len(posted) : posted'[i] = posted[i]
        BY <3>2, <2>2, Appended
      <4>2. ASSUME service.native, NEW i \in DOMAIN posted'
            PROVE  posted'[i].snapshot.state # "RUNNING"
        <5>1. i = Len(posted) + 1 \/ i \in 1..Len(posted) BY <4>1
        <5>2. QED BY <5>1, <4>1, <4>2, <1>2, <1>4 DEF Others, NothingRuns
      <4>3. QED BY <4>1, <4>2
    <3>3. QED BY <2>1, <3>1, <3>2 DEF EmitAnswer
  <2>4. EndsAlone' /\ NothingRuns'
    <3>1. EndsAlone' BY <2>1 DEF EndsAlone
    <3>2. NothingRuns'
      BY <2>1, <2>3, <1>2, <1>3, <1>5 DEF Others, NothingRuns, ServiceInv
    <3>3. QED BY <3>1, <3>2
  <2>5. missed' \in BOOLEAN
    <3>1. page.open \in BOOLEAN /\ missed \in BOOLEAN
      BY <1>2 DEF Others, PageTyped
    <3>2. missed' = ~page.open \/ missed' = missed BY <2>1 DEF EmitAnswer
    <3>3. QED BY <3>1, <3>2
  <2>6. Told'
    <3>1. ~EndsWithSnapshot /\ ~EndsWithSnapshot'
      BY <2>1, <1>1 DEF EndsWithSnapshot
    <3>2. ASSUME ~missed' PROVE ToldBy(posted', page'.shown, service'.snapshot)
      <4>1. CASE answer.kind = "snapshot"
        <5>1. posted' = Append(posted, answer)
          BY <4>1, <3>2, <2>1 DEF EmitAnswer
        <5>2. ToldBy(Append(posted, answer), page.shown, answer.snapshot)
          BY <4>1, <2>2, SnapshotIsLast
        <5>3. QED BY <5>1, <5>2, <1>3
      <4>2. CASE answer.kind = "devices"
        <5>1. posted' = Append(posted, answer) /\ missed' = missed /\ answer.kind # "snapshot"
          BY <4>2, <2>1 DEF EmitAnswer
        <5>2. ToldBy(posted, page.shown, service.snapshot)
          BY <5>1, <3>1, <3>2, <1>2 DEF Others, Told
        <5>3. ToldBy(Append(posted, answer), page.shown, service.snapshot)
          BY <5>1, <5>2, <2>2, OthersTellNothing
        <5>4. QED BY <5>1, <5>3, <4>2, <1>3
      <4>3. QED BY <4>1, <4>2, <1>1
    <3>3. QED BY <3>1, <3>2 DEF Told
  <2>7. Others'
    BY <2>1, <2>3, <2>4, <2>5, <2>6, <1>2, <1>3, <1>5, <1>6 DEF Others
  <2>8. QED BY <2>7, InTwoParts
<1>9. QED BY <1>7, <1>8

LEMMA SnapshotAnswers ==
  ASSUME ServiceInv'
  PROVE  /\ Snapshot(service') \in Answers /\ Snapshot(service').kind = "snapshot"
         /\ Snapshot(service').snapshot = service'.snapshot
BY DEF Snapshot, Answers, ServiceInv, Services

LEMMA DescriptorIsReceiver ==
  ASSUME NEW s, NEW u \in Uris
  PROVE  Descriptor(s, u) \in Receivers /\ Descriptor(s, u).uri = u
BY LivePageAssumption DEF Descriptor, Device, Receivers

(* What is listed does not matter to the rest.                             *)
LEMMA ListedKeeps ==
  ASSUME ServiceInv, NEW devices \in SUBSET Receivers,
         service' = [service EXCEPT !.devices = devices], contexts' = contexts
  PROVE  ServiceInv' /\ service'.native = service.native /\ service'.snapshot = service.snapshot
         /\ service'.devices = devices
<1>1. /\ service' \in Services /\ service'.native = service.native
      /\ service'.selected = service.selected /\ service'.held = service.held
      /\ service'.lost = service.lost /\ service'.snapshot = service.snapshot
      /\ service'.devices = devices
  BY DEF ServiceInv, Services
<1>2. ContextIsHeld' BY <1>1 DEF ServiceInv, ContextIsHeld
<1>3. Selected' BY <1>1 DEF ServiceInv, Selected
<1>4. AppliedFits' BY <1>1 DEF ServiceInv, AppliedFits
<1>5. QED BY <1>1, <1>2, <1>3, <1>4 DEF ServiceInv

LEMMA DiscoverKeeps ==
  ASSUME LiveInv, Discover
  PROVE  LiveInv'
<1>1. ServiceInv /\ Others BY InTwoParts
<1>2. pool # <<>> /\ contexts' = contexts BY DEF Discover
<1>3. service \in Services /\ service.snapshot \in Snapshots
  BY <1>1 DEF ServiceInv, Services
<1>4. OpenDialogs \in SUBSET (1..MaxDialogs) BY <1>1 DEF OpenDialogs, Others
<1>5. CASE /\ service.native
           /\ \E found \in SUBSET Uris :
                service' = [service EXCEPT !.devices = {Descriptor(service, u) : u \in found}]
           /\ Answered([kind |-> "devices", snapshot |-> service.snapshot, to |-> OpenDialogs,
                        devices |-> {d.uri : d \in service'.devices}])
  <2>1. PICK found \in SUBSET Uris :
          service' = [service EXCEPT !.devices = {Descriptor(service, u) : u \in found}]
    BY <1>5
  <2>2. {Descriptor(service, u) : u \in found} \in SUBSET Receivers
    BY DescriptorIsReceiver
  <2>3. /\ ServiceInv' /\ service'.native = service.native /\ service'.snapshot = service.snapshot
        /\ service'.devices \in SUBSET Receivers
    BY <2>1, <2>2, <1>1, <1>2, ListedKeeps
  <2>4. {d.uri : d \in service'.devices} \in SUBSET Uris
    BY <2>3, NoDeviceIsNone
  <2> DEFINE answer == [kind |-> "devices", snapshot |-> service.snapshot, to |-> OpenDialogs,
                        devices |-> {d.uri : d \in service'.devices}]
  <2>5. answer \in Answers /\ answer.snapshot = service'.snapshot /\ Answered(answer)
    BY <2>3, <2>4, <1>3, <1>4, <1>5 DEF Answers
  <2> HIDE DEF answer
  <2>6. QED BY <2>3, <2>5, <1>2, AnswerKeeps
<1>6. CASE /\ ~service.native /\ UNCHANGED service
           /\ Answered([kind |-> "devices", snapshot |-> service.snapshot, to |-> OpenDialogs,
                        devices |-> {d.uri : d \in service.devices}])
  <2>1. ServiceInv'
    BY <1>1, <1>2, <1>6 DEF ServiceInv, ContextIsHeld, Selected, AppliedFits
  <2>2. {d.uri : d \in service.devices} \in SUBSET Uris
    BY <1>3, NoDeviceIsNone DEF Services
  <2> DEFINE answer == [kind |-> "devices", snapshot |-> service.snapshot, to |-> OpenDialogs,
                        devices |-> {d.uri : d \in service.devices}]
  <2>3. answer \in Answers /\ answer.snapshot = service'.snapshot /\ Answered(answer)
    BY <2>2, <1>3, <1>4, <1>6 DEF Answers
  <2> HIDE DEF answer
  <2>4. QED BY <2>1, <2>3, <1>2, <1>6, AnswerKeeps
<1>7. CASE /\ service.native /\ UNCHANGED <<service, posted, missed, ended, gui, page, dialogs, asked>>
           /\ pool' = Tail(pool)
  <2>1. ServiceInv'
    BY <1>1, <1>2, <1>7 DEF ServiceInv, ContextIsHeld, Selected, AppliedFits
  <2>2. pool \in Seq(Tasks) BY <1>1 DEF Others, PoolTyped
  <2>3. /\ pool' \in Seq(Tasks) /\ Len(pool) \in Nat \ {0}
        /\ DOMAIN pool = 1..Len(pool) /\ DOMAIN pool' = 1..(Len(pool) - 1)
        /\ \A i \in 1..(Len(pool) - 1) : i + 1 \in 1..Len(pool) /\ pool'[i] = pool[i + 1]
    BY <2>2, <1>2, <1>7, Taken
  <2>4. PoolTyped' BY <2>3, <1>1 DEF Others, PoolTyped
  <2>5. \A i \in DOMAIN pool' : pool'[i].op # "stop"
    <3> SUFFICES ASSUME NEW i \in DOMAIN pool' PROVE pool'[i].op # "stop"
      OBVIOUS
    <3>1. i + 1 \in DOMAIN pool /\ pool'[i] = pool[i + 1] BY <2>3
    <3>2. \A j \in DOMAIN pool : pool[j].op # "stop"
      BY <1>1, <1>7 DEF Others, NothingRuns
    <3>3. QED BY <3>1, <3>2
  <2>6. NothingRuns' BY <2>5, <1>1, <1>7 DEF Others, NothingRuns
  <2>7. EndsAlone' /\ Told' /\ RatesAreShown' /\ PageTyped'
    <3>1. ended = Nothing BY <1>1, <1>2 DEF Others, EndsAlone
    <3>2. EndsAlone' BY <3>1, <1>7 DEF EndsAlone
    <3>3. Told' BY <1>1, <1>7 DEF Others, Told, EndsWithSnapshot
    <3>4. RatesAreShown' /\ PageTyped'
      BY <1>1, <1>7 DEF Others, RatesAreShown, PageTyped
    <3>5. QED BY <3>2, <3>3, <3>4
  <2>8. Others' BY <2>4, <2>6, <2>7, <1>1, <1>7 DEF Others
  <2>9. QED BY <2>1, <2>8, InTwoParts
<1>8. QED BY <1>5, <1>6, <1>7, Zenon DEF Discover

LEMMA HeadOfPool ==
  ASSUME LiveInv, pool # <<>>
  PROVE  /\ Head(pool).op = "manual" => Head(pool).arg \in Uris
         /\ Head(pool).op = "apply" => Head(pool).arg \in Nat
         /\ Head(pool).op = "stop" => ~service.native
<1>1. Others /\ pool \in Seq(Tasks) BY InTwoParts DEF Others, PoolTyped
<1>2. Head(pool) = pool[1] /\ 1 \in DOMAIN pool BY <1>1, Taken
<1>3. QED BY <1>1, <1>2 DEF Others, PoolTyped, NothingRuns

(* An operation that keeps the service right keeps the rest right.         *)
LEMMA OperationKeeps ==
  ASSUME LiveInv, pool # <<>>, ServiceInv', service'.native = service.native,
         Answered(Snapshot(service'))
  PROVE  LiveInv'
<1>1. /\ Snapshot(service') \in Answers /\ Snapshot(service').kind = "snapshot"
      /\ Snapshot(service').snapshot = service'.snapshot
  BY SnapshotAnswers
<1>2. Snapshot(service').kind = "devices" => service'.snapshot = service.snapshot
  BY <1>1
<1>3. QED BY <1>1, <1>2, AnswerKeeps

LEMMA SelectKeeps ==
  ASSUME LiveInv, Select \/ SelectManual
  PROVE  LiveInv'
<1>1. ServiceInv BY InTwoParts
<1>2. CASE Select
  <2>1. SameBut(service) BY <1>1 DEF SameBut, ServiceInv
  <2>2. ServiceInv' /\ service'.native = service.native
    BY <2>1, <1>1, <1>2, SelectsKeeps DEF Select
  <2>3. QED BY <2>2, <1>2, OperationKeeps DEF Select
<1>3. CASE SelectManual
  <2> DEFINE d == Descriptor(service, Head(pool).arg)
             devices == {e \in service.devices : e.uri # d.uri} \cup {d}
             s == [service EXCEPT !.devices = devices]
  <2>1. pool # <<>> /\ Head(pool).op = "manual" /\ Selects(s, d.uri) /\ Answered(Snapshot(service'))
    BY <1>3 DEF SelectManual
  <2>2. d \in Receivers BY <2>1, HeadOfPool, DescriptorIsReceiver
  <2>3. service \in Services BY <1>1 DEF ServiceInv
  <2>4. devices \in SUBSET Receivers BY <2>2, <2>3 DEF Services
  <2> HIDE DEF devices, d
  <2>5. SameBut(s) BY <2>3, <2>4 DEF SameBut, Services
  <2> HIDE DEF s
  <2>6. ServiceInv' /\ service'.native = service.native
    BY <2>1, <2>5, <1>1, SelectsKeeps
  <2>7. QED BY <2>1, <2>6, OperationKeeps
<1>4. QED BY <1>2, <1>3

LEMMA RunsKeeps ==
  ASSUME LiveInv, Runs
  PROVE  LiveInv'
<1>1. ServiceInv BY InTwoParts
<1>2. CASE Apply
  <2>1. /\ pool # <<>> /\ Head(pool).arg \in Nat /\ Answered(Snapshot(service'))
        /\ service' = Applied(service, Head(pool).arg) /\ contexts' = contexts
    BY <1>2, HeadOfPool DEF Apply
  <2>2. ServiceInv' /\ service'.native = service.native
    BY <2>1, <1>1, AppliesKeeps
  <2>3. QED BY <2>1, <2>2, OperationKeeps
<1>3. CASE Start
  <2>1. ServiceInv' /\ service'.native = service.native
    BY <1>1, <1>3, StartedKeeps DEF Start
  <2>2. QED BY <2>1, <1>3, OperationKeeps DEF Start
<1>4. CASE StopAndWait
  <2>1. ~service.native BY <1>4, HeadOfPool DEF StopAndWait
  <2>2. ServiceInv' /\ service'.native = service.native
    BY <2>1, <1>1, <1>4, StoppedKeeps DEF StopAndWait
  <2>3. QED BY <2>2, <1>4, OperationKeeps DEF StopAndWait
<1>5. QED BY <1>2, <1>3, <1>4, DiscoverKeeps, SelectKeeps DEF Runs

LEMMA UntouchedKeeps ==
  ASSUME ServiceInv, UNCHANGED <<service, contexts>>
  PROVE  ServiceInv'
BY DEF ServiceInv, ContextIsHeld, Selected, AppliedFits

LEMMA SubmitKeeps ==
  ASSUME LiveInv, gui = Idle, NEW op \in {"discover", "select", "manual", "apply", "start", "stop"},
         NEW arg \in Uris \cup Nat \cup {Nothing}, NEW opens \in BOOLEAN, Submit(op, arg, opens),
         op = "manual" => arg \in Uris, op = "apply" => arg \in Nat, op = "stop" => ~service.native,
         page' = page, dialogs' \in [1..MaxDialogs -> [open : BOOLEAN, listed : SUBSET Uris]]
  PROVE  LiveInv'
<1> DEFINE task == [op |-> op, arg |-> arg]
<1>1. ServiceInv /\ Others BY InTwoParts
<1>2. /\ pool' = Append(pool, task) /\ gui' = [at |-> "attach", opens |-> opens]
      /\ UNCHANGED <<service, contexts, ended, posted, missed>> /\ asked' = asked + 1
  BY DEF Submit
<1>3. task \in Tasks /\ task.op = op /\ task.arg = arg BY DEF Tasks
<1> HIDE DEF task
<1>4. ended = Nothing BY <1>1 DEF Others, EndsAlone, Idle
<1>5. pool \in Seq(Tasks) BY <1>1 DEF Others, PoolTyped
<1>6. /\ pool' \in Seq(Tasks) /\ Len(pool) \in Nat
      /\ DOMAIN pool = 1..Len(pool) /\ DOMAIN pool' = 1..(Len(pool) + 1)
      /\ pool'[Len(pool) + 1] = task
      /\ \A i \in 1..Len(pool) : pool'[i] = pool[i]
  BY <1>2, <1>3, <1>5, Appended
<1>7. \A i \in DOMAIN pool' : i = Len(pool) + 1 \/ (i \in DOMAIN pool /\ pool'[i] = pool[i])
  BY <1>6
<1>8. PoolTyped' BY <1>1, <1>3, <1>6, <1>7 DEF Others, PoolTyped
<1>9. service.native => \A i \in DOMAIN pool' : pool'[i].op # "stop"
  <2> SUFFICES ASSUME service.native, NEW i \in DOMAIN pool' PROVE pool'[i].op # "stop"
    OBVIOUS
  <2>1. \A j \in DOMAIN pool : pool[j].op # "stop"
    BY <1>1 DEF Others, NothingRuns
  <2>2. QED BY <2>1, <1>3, <1>6, <1>7
<1>10. NothingRuns' BY <1>1, <1>2, <1>9 DEF Others, NothingRuns
<1>11. EndsAlone' /\ Told' /\ RatesAreShown' /\ PageTyped'
  <2>1. EndsAlone' BY <1>2, <1>4 DEF EndsAlone
  <2>2. Told' BY <1>1, <1>2 DEF Others, Told, EndsWithSnapshot
  <2>3. RatesAreShown' /\ PageTyped'
    BY <1>1 DEF Others, RatesAreShown, PageTyped
  <2>4. QED BY <2>1, <2>2, <2>3
<1>12. Others' BY <1>1, <1>2, <1>8, <1>10, <1>11 DEF Others
<1>13. QED BY <1>1, <1>2, <1>12, UntouchedKeeps, InTwoParts

(* Showing a snapshot: the list of rates is that of its receiver.          *)
LEMMA ShownKeeps ==
  ASSUME PageTyped, RatesAreShown, NEW snapshot \in Snapshots, page' = Shown(snapshot)
  PROVE  PageTyped' /\ RatesAreShown' /\ page'.shown = snapshot /\ page'.open = page.open
<1>1. snapshot # Nothing /\ snapshot.device \in Receivers \cup {NoDevice}
  BY LivePageAssumption DEF Snapshots
<1>2. CASE snapshot.device = NoDevice
  <2>1. page' = [page EXCEPT !.shown = snapshot] BY <1>2 DEF Shown, PageTyped
  <2>2. QED BY <2>1, <1>2 DEF PageTyped, RatesAreShown
<1>3. CASE snapshot.device # NoDevice
  <2>1. snapshot.device.rates \in Seq(Nat) \ {<<>>} BY <1>1, <1>3 DEF Receivers
  <2>2. page' = [page EXCEPT !.shown = snapshot, !.rates = snapshot.device.rates, !.choice = 1]
    BY <1>3 DEF Shown
  <2>3. 1 \in DOMAIN snapshot.device.rates BY <2>1
  <2> DEFINE rates == snapshot.device.rates
  <2>4. /\ page'.shown = snapshot /\ page'.rates = rates /\ page'.choice = 1
        /\ page'.open = page.open
        /\ page' \in [open : BOOLEAN, shown : Snapshots \cup {Nothing}, rates : Seq(Nat) \ {<<>>},
                     choice : Nat]
    <3>1. rates \in Seq(Nat) \ {<<>>} /\ page' = [page EXCEPT !.shown = snapshot, !.rates = rates,
                                                              !.choice = 1]
      BY <2>1, <2>2
    <3> HIDE DEF rates
    <3>2. page' = [open |-> page.open, shown |-> snapshot, rates |-> rates, choice |-> 1]
      BY <3>1 DEF PageTyped
    <3>3. page.open \in BOOLEAN BY DEF PageTyped
    <3>4. QED BY ONLY <3>1, <3>2, <3>3, snapshot \in Snapshots
  <2>5. QED BY <2>3, <2>4 DEF PageTyped, RatesAreShown
<1>4. QED BY <1>2, <1>3

LEMMA ShowKeeps ==
  ASSUME Others, NEW answer \in Answers, Show(answer)
  PROVE  /\ PageTyped' /\ RatesAreShown'
         /\ dialogs' \in [1..MaxDialogs -> [open : BOOLEAN, listed : SUBSET Uris]]
         /\ page'.shown = IF answer.kind = "snapshot" THEN answer.snapshot ELSE page.shown
<1>1. answer.snapshot \in Snapshots /\ answer.devices \in SUBSET Uris
  BY DEF Answers
<1>2. CASE answer.kind = "snapshot"
  <2>1. page' = Shown(answer.snapshot) /\ dialogs' = dialogs BY <1>2 DEF Show
  <2>2. QED BY <2>1, <1>1, <1>2, ShownKeeps DEF Others
<1>3. CASE answer.kind # "snapshot"
  <2>1. /\ dialogs' = [d \in DOMAIN dialogs |-> IF d \in answer.to /\ dialogs[d].open
                                                  THEN [dialogs[d] EXCEPT !.listed = answer.devices]
                                                  ELSE dialogs[d]]
        /\ page' = page
    BY <1>3 DEF Show
  <2>2. PageTyped' /\ RatesAreShown'
    BY <2>1 DEF Others, PageTyped, RatesAreShown
  <2>3. dialogs' \in [1..MaxDialogs -> [open : BOOLEAN, listed : SUBSET Uris]]
    BY <2>1, <1>1 DEF Others
  <2>4. QED BY <2>1, <2>2, <2>3, <1>3
<1>4. QED BY <1>2, <1>3

LEMMA DeliverKeeps ==
  ASSUME LiveInv, Deliver
  PROVE  LiveInv'
<1>1. ServiceInv /\ Others BY InTwoParts
<1>2. /\ gui = Idle /\ posted # <<>> /\ Show(Head(posted)) /\ posted' = Tail(posted)
      /\ UNCHANGED <<service, contexts, pool, gui, ended, missed, asked>>
  BY DEF Deliver
<1>3. /\ posted \in Seq(Answers) /\ ended = Nothing
  BY <1>1, <1>2 DEF Others, EndsAlone, Idle
<1>4. /\ posted' \in Seq(Answers) /\ Len(posted) \in Nat \ {0} /\ Head(posted) = posted[1]
      /\ Head(posted) \in Answers /\ DOMAIN posted = 1..Len(posted)
      /\ DOMAIN posted' = 1..(Len(posted) - 1)
      /\ \A i \in 1..(Len(posted) - 1) : i + 1 \in 1..Len(posted) /\ posted'[i] = posted[i + 1]
  BY <1>2, <1>3, Taken
<1> DEFINE answer == Head(posted)
<1>5. answer \in Answers /\ Show(answer) BY <1>2, <1>4
<1>6. /\ PageTyped' /\ RatesAreShown'
      /\ dialogs' \in [1..MaxDialogs -> [open : BOOLEAN, listed : SUBSET Uris]]
      /\ page'.shown = IF answer.kind = "snapshot" THEN answer.snapshot ELSE page.shown
  BY <1>1, <1>5, ShowKeeps
<1>7. PoolTyped' /\ EndsAlone' BY <1>1, <1>2 DEF Others, PoolTyped, EndsAlone
<1>8. NothingRuns'
  <2> SUFFICES ASSUME service.native PROVE NothingRuns'
    BY <1>2 DEF NothingRuns
  <2>1. /\ service.snapshot.state # "RUNNING"
        /\ \A i \in DOMAIN posted : posted[i].snapshot.state # "RUNNING"
        /\ page.shown # Nothing => page.shown.state # "RUNNING"
        /\ \A i \in DOMAIN pool : pool[i].op # "stop"
    BY <1>1 DEF Others, NothingRuns
  <2>2. \A i \in DOMAIN posted' : posted'[i].snapshot.state # "RUNNING"
    <3> SUFFICES ASSUME NEW i \in DOMAIN posted' PROVE posted'[i].snapshot.state # "RUNNING"
      OBVIOUS
    <3>1. i + 1 \in DOMAIN posted /\ posted'[i] = posted[i + 1] BY <1>4
    <3>2. QED BY <3>1, <2>1
  <2>3. page'.shown # Nothing => page'.shown.state # "RUNNING"
    <3>1. 1 \in DOMAIN posted BY <1>4
    <3>2. QED BY <3>1, <2>1, <1>4, <1>6
  <2>4. QED BY <2>1, <2>2, <2>3, <1>2, <1>3 DEF NothingRuns
<1>9. Told'
  <2>1. ~EndsWithSnapshot /\ ~EndsWithSnapshot'
    BY <1>2, <1>3 DEF EndsWithSnapshot
  <2>2. ASSUME ~missed' PROVE ToldBy(posted', page'.shown, service'.snapshot)
    <3>1. ToldBy(posted, page.shown, service.snapshot)
      BY <2>1, <2>2, <1>1, <1>2 DEF Others, Told
    <3>2. ToldBy(Tail(posted), IF Head(posted).kind = "snapshot" THEN Head(posted).snapshot
                               ELSE page.shown, service.snapshot)
      BY <3>1, <1>2, <1>3, HeadIsShown
    <3>3. QED BY <3>2, <1>2, <1>6
  <2>3. QED BY <2>1, <2>2 DEF Told
<1> HIDE DEF answer
<1>10. Others' BY <1>1, <1>2, <1>4, <1>6, <1>7, <1>8, <1>9 DEF Others
<1>11. QED BY <1>1, <1>2, <1>10, UntouchedKeeps, InTwoParts

LEMMA AttachKeeps ==
  ASSUME LiveInv, Attach
  PROVE  LiveInv'
<1>1. ServiceInv /\ Others BY InTwoParts
<1>2. /\ gui.at = "attach" /\ AnswerAtOnce /\ ended' = Nothing
      /\ missed' = IF ended # Nothing /\ ended.kind = "snapshot"
                     THEN ~page.open \/ (\E i \in DOMAIN posted : posted[i].kind = "snapshot")
                     ELSE missed
      /\ gui' = IF gui.opens THEN [at |-> "page", opens |-> FALSE] ELSE Idle
      /\ UNCHANGED <<service, contexts, pool, posted, asked>>
  BY DEF Attach
<1>3. gui' \in [at : {"idle", "attach", "page"}, opens : BOOLEAN]
  BY <1>2 DEF Idle
<1>4. ended # Nothing => ended \in Answers /\ ended.kind \in {"devices", "snapshot"}
  BY <1>1 DEF Others, Answers
<1>5. /\ PageTyped' /\ RatesAreShown'
      /\ dialogs' \in [1..MaxDialogs -> [open : BOOLEAN, listed : SUBSET Uris]]
      /\ page'.shown = IF EndsWithSnapshot /\ page.open THEN ended.snapshot ELSE page.shown
  <2>1. CASE ended # Nothing /\ (ended.kind = "devices" \/ page.open)
    <3>1. Show(ended) BY <2>1, <1>2 DEF AnswerAtOnce
    <3>2. /\ PageTyped' /\ RatesAreShown'
          /\ dialogs' \in [1..MaxDialogs -> [open : BOOLEAN, listed : SUBSET Uris]]
          /\ page'.shown = IF ended.kind = "snapshot" THEN ended.snapshot ELSE page.shown
      BY <3>1, <2>1, <1>1, <1>4, ShowKeeps
    <3>3. QED BY <3>2, <2>1 DEF EndsWithSnapshot
  <2>2. CASE ~(ended # Nothing /\ (ended.kind = "devices" \/ page.open))
    <3>1. page' = page /\ dialogs' = dialogs BY <2>2, <1>2 DEF AnswerAtOnce
    <3>2. ~(EndsWithSnapshot /\ page.open) BY <2>2 DEF EndsWithSnapshot
    <3>3. QED BY <3>1, <3>2, <1>1 DEF Others, PageTyped, RatesAreShown
  <2>3. QED BY <2>1, <2>2
<1>6. PoolTyped' /\ EndsAlone' BY <1>1, <1>2 DEF Others, PoolTyped, EndsAlone
<1>7. NothingRuns'
  BY <1>1, <1>2, <1>5 DEF Others, NothingRuns, EndsWithSnapshot
<1>8. missed' \in BOOLEAN
  <2>1. missed \in BOOLEAN /\ page.open \in BOOLEAN
    BY <1>1 DEF Others, PageTyped
  <2>2. CASE ended # Nothing /\ ended.kind = "snapshot"
    <3>1. missed' = (~page.open \/ (\E i \in DOMAIN posted : posted[i].kind = "snapshot"))
      BY <2>2, <1>2, Zenon
    <3>2. QED BY <3>1, Zenon
  <2>3. CASE ~(ended # Nothing /\ ended.kind = "snapshot")
    <3>1. missed' = missed BY <2>3, <1>2, Zenon
    <3>2. QED BY <3>1, <2>1
  <2>4. QED BY <2>2, <2>3
<1>9. Told'
  <2>1. ~EndsWithSnapshot' BY <1>2 DEF EndsWithSnapshot
  <2>2. ASSUME ~missed' PROVE ToldBy(posted', page'.shown, service'.snapshot)
    <3>1. CASE EndsWithSnapshot
      <4>1. page.open /\ \A i \in DOMAIN posted : posted[i].kind # "snapshot"
        BY <3>1, <2>2, <1>2 DEF EndsWithSnapshot
      <4>2. page'.shown = service.snapshot
        BY <3>1, <4>1, <1>1, <1>5 DEF Others, Told
      <4>3. ToldBy(posted, service.snapshot, service.snapshot)
        BY <4>1, NothingLeftToTell
      <4>4. QED BY <4>2, <4>3, <1>2
    <3>2. CASE ~EndsWithSnapshot
      <4>1. ~missed BY <3>2, <2>2, <1>2 DEF EndsWithSnapshot
      <4>2. ToldBy(posted, page.shown, service.snapshot)
        BY <3>2, <4>1, <1>1 DEF Others, Told
      <4>3. page'.shown = page.shown BY <3>2, <1>5
      <4>4. QED BY <4>2, <4>3, <1>2
    <3>3. QED BY <3>1, <3>2
  <2>3. QED BY <2>1, <2>2 DEF Told
<1>10. ended' \in Answers \cup {Nothing} /\ posted' \in Seq(Answers) /\ asked' \in Nat
  BY <1>1, <1>2 DEF Others
<1>11. Others' BY <1>3, <1>5, <1>6, <1>7, <1>8, <1>9, <1>10 DEF Others
<1>12. QED BY <1>1, <1>2, <1>11, UntouchedKeeps, InTwoParts

LEMMA PageKeeps ==
  ASSUME LiveInv, MakePage \/ ChooseRate
  PROVE  LiveInv'
<1>1. ServiceInv /\ Others BY InTwoParts
<1>2. PageTyped BY <1>1 DEF Others
<1>3. CASE MakePage
  <2>1. /\ gui.at = "page" \/ gui = Idle
        /\ gui' = Idle /\ page' = [page EXCEPT !.open = TRUE]
        /\ UNCHANGED <<service, contexts, pool, ended, posted, dialogs, missed, asked>>
    BY <1>3 DEF MakePage
  <2>2. gui.at # "attach" /\ ended = Nothing
    BY <2>1, <1>1 DEF Others, EndsAlone, Idle
  <2>3. /\ PageTyped' /\ page'.shown = page.shown /\ page'.rates = page.rates
    BY <2>1, <1>2 DEF PageTyped
  <2>4. PoolTyped' /\ EndsAlone' /\ gui' \in [at : {"idle", "attach", "page"}, opens : BOOLEAN]
    BY <2>1, <2>2, <1>1 DEF Others, PoolTyped, EndsAlone, Idle
  <2>5. NothingRuns' /\ Told' /\ RatesAreShown'
    <3>1. NothingRuns' BY <2>1, <2>3, <1>1 DEF Others, NothingRuns
    <3>2. Told' BY <2>1, <2>3, <1>1 DEF Others, Told, EndsWithSnapshot
    <3>3. RatesAreShown' BY <2>3, <1>1 DEF Others, RatesAreShown
    <3>4. QED BY <3>1, <3>2, <3>3
  <2>6. Others' BY <2>1, <2>3, <2>4, <2>5, <1>1 DEF Others
  <2>7. QED BY <2>1, <2>6, <1>1, UntouchedKeeps, InTwoParts
<1>4. CASE ChooseRate
  <2>1. /\ \E i \in DOMAIN page.rates : page' = [page EXCEPT !.choice = i]
        /\ UNCHANGED <<service, contexts, pool, gui, ended, posted, dialogs, missed, asked>>
    BY <1>4 DEF ChooseRate
  <2>2. PICK i \in DOMAIN page.rates : page' = [page EXCEPT !.choice = i]
    BY <2>1
  <2>3. i \in Nat BY <1>2 DEF PageTyped
  <2>4. /\ PageTyped' /\ page'.shown = page.shown /\ page'.rates = page.rates
    BY <2>2, <2>3, <1>2 DEF PageTyped
  <2>5. PoolTyped' /\ EndsAlone' BY <2>1, <1>1 DEF Others, PoolTyped, EndsAlone
  <2>6. NothingRuns' /\ Told' /\ RatesAreShown'
    <3>1. NothingRuns' BY <2>1, <2>4, <1>1 DEF Others, NothingRuns
    <3>2. Told' BY <2>1, <2>4, <1>1 DEF Others, Told, EndsWithSnapshot
    <3>3. RatesAreShown' BY <2>4, <1>1 DEF Others, RatesAreShown
    <3>4. QED BY <3>1, <3>2, <3>3
  <2>7. Others' BY <2>1, <2>4, <2>5, <2>6, <1>1 DEF Others
  <2>8. QED BY <2>1, <2>7, <1>1, UntouchedKeeps, InTwoParts
<1>5. QED BY <1>3, <1>4

LEMMA AskingKeeps ==
  ASSUME LiveInv, ShowDiscovery \/ Refresh \/ Choose \/ Press
  PROVE  LiveInv'
<1>1. ServiceInv /\ Others BY InTwoParts
<1>2. dialogs \in [1..MaxDialogs -> [open : BOOLEAN, listed : SUBSET Uris]]
  BY <1>1 DEF Others
<1>3. CASE ShowDiscovery
  <2>1. PICK d \in DOMAIN dialogs : dialogs' = [dialogs EXCEPT ![d] = [open |-> TRUE, listed |-> {}]]
    BY <1>3 DEF ShowDiscovery
  <2>2. dialogs' \in [1..MaxDialogs -> [open : BOOLEAN, listed : SUBSET Uris]]
    BY <2>1, <1>2
  <2>3. gui = Idle /\ Submit("discover", Nothing, FALSE) /\ page' = page
    BY <1>3 DEF ShowDiscovery
  <2>4. QED BY <2>2, <2>3, SubmitKeeps
<1>4. CASE Refresh
  <2>1. gui = Idle /\ Submit("discover", Nothing, FALSE) /\ page' = page /\ dialogs' = dialogs
    BY <1>4 DEF Refresh
  <2>2. QED BY <2>1, <1>2, SubmitKeeps
<1>5. CASE Choose
  <2>1. PICK d \in OpenDialogs :
          /\ dialogs' = [dialogs EXCEPT ![d].open = FALSE]
          /\ \/ \E u \in dialogs[d].listed : Submit("select", u, TRUE)
             \/ \E u \in Uris : Submit("manual", u, TRUE)
    BY <1>5 DEF Choose
  <2>2. gui = Idle /\ page' = page BY <1>5 DEF Choose
  <2>3. dialogs' \in [1..MaxDialogs -> [open : BOOLEAN, listed : SUBSET Uris]]
    BY <2>1, <1>2
  <2>4. d \in 1..MaxDialogs /\ dialogs[d].listed \in SUBSET Uris
    BY <1>2 DEF OpenDialogs
  <2>5. CASE \E u \in dialogs[d].listed : Submit("select", u, TRUE)
    <3>1. PICK u \in Uris : Submit("select", u, TRUE)
      BY <2>4, <2>5
    <3>2. QED BY <3>1, <2>2, <2>3, SubmitKeeps
  <2>6. CASE \E u \in Uris : Submit("manual", u, TRUE)
    <3>1. PICK u \in Uris : Submit("manual", u, TRUE)
      BY <2>6
    <3>2. QED BY <3>1, <2>2, <2>3, SubmitKeeps
  <2>7. QED BY <2>1, <2>5, <2>6
<1>6. CASE Press
  <2>1. /\ gui = Idle /\ page.shown # Nothing /\ page' = page /\ dialogs' = dialogs
        /\ IF page.shown.state = "RUNNING" THEN Submit("stop", Nothing, FALSE)
           ELSE IF page.shown.applied = Nothing THEN Submit("apply", page.rates[page.choice], FALSE)
           ELSE Submit("start", Nothing, FALSE)
    BY <1>6 DEF Press
  <2>2. CASE page.shown.state = "RUNNING"
    <3>1. Submit("stop", Nothing, FALSE) BY <2>1, <2>2
    <3>2. ~service.native BY <2>1, <2>2, <1>1 DEF Others, NothingRuns
    <3>3. QED BY <3>1, <3>2, <2>1, <1>2, SubmitKeeps
  <2>3. CASE page.shown.state # "RUNNING" /\ page.shown.applied = Nothing
    <3>1. Submit("apply", page.rates[page.choice], FALSE) BY <2>1, <2>3
    <3>2. page.rates[page.choice] \in Nat BY <1>1 DEF Others, PageTyped
    <3>3. QED BY <3>1, <3>2, <2>1, <1>2, SubmitKeeps
  <2>4. CASE page.shown.state # "RUNNING" /\ page.shown.applied # Nothing
    <3>1. Submit("start", Nothing, FALSE) BY <2>1, <2>4
    <3>2. QED BY <3>1, <2>1, <1>2, SubmitKeeps
  <2>5. QED BY <2>2, <2>3, <2>4
<1>7. QED BY <1>3, <1>4, <1>5, <1>6

LEMMA LiveStarts ==
  ASSUME LiveInit
  PROVE  LiveInv
<1>1. PICK native \in BOOLEAN :
        service = [native |-> native, devices |-> {}, selected |-> NoDevice, held |-> Nothing,
                   lost |-> FALSE,
                   snapshot |-> [generation |-> 0, state |-> "DISCONNECTED", device |-> NoDevice,
                                 applied |-> Nothing]]
  BY DEF LiveInit
<1>2. /\ contexts = {} /\ pool = <<>> /\ gui = Idle /\ ended = Nothing /\ posted = <<>>
      /\ page = [open |-> FALSE, shown |-> Nothing, rates |-> DefaultRates, choice |-> 1]
      /\ dialogs = [d \in 1..MaxDialogs |-> [open |-> FALSE, listed |-> {}]]
      /\ missed = FALSE /\ asked = 0
  BY DEF LiveInit
<1>3. ServiceInv
  <2>1. service.snapshot \in Snapshots BY <1>1 DEF Snapshots
  <2>2. service \in Services BY <1>1, <2>1 DEF Services
  <2>3. ContextIsHeld BY <1>1, <1>2 DEF ContextIsHeld
  <2>4. Selected /\ AppliedFits BY <1>1 DEF Selected, AppliedFits
  <2>5. QED BY <1>1, <2>2, <2>3, <2>4 DEF ServiceInv
<1>4. PageTyped
  <2>1. DefaultRates \in Seq(Nat) \ {<<>>} BY LivePageAssumption
  <2>2. 1 \in DOMAIN DefaultRates BY <2>1
  <2>3. QED BY <2>1, <2>2, <1>2 DEF PageTyped
<1>5. PoolTyped /\ EndsAlone /\ RatesAreShown /\ NothingRuns
  BY <1>1, <1>2 DEF PoolTyped, EndsAlone, RatesAreShown, NothingRuns
<1>6. Told BY <1>2 DEF Told, EndsWithSnapshot, ToldBy
<1>7. Others
  <2>1. dialogs \in [1..MaxDialogs -> [open : BOOLEAN, listed : SUBSET Uris]]
    BY <1>2
  <2>2. gui \in [at : {"idle", "attach", "page"}, opens : BOOLEAN]
    BY <1>2 DEF Idle
  <2>3. posted \in Seq(Answers) /\ missed \in BOOLEAN /\ asked \in Nat
    <3>1. <<>> \in Seq(Answers) OBVIOUS
    <3>2. QED BY ONLY <3>1, <1>2
  <2>4. QED BY <2>1, <2>2, <2>3, <1>2, <1>4, <1>5, <1>6 DEF Others
<1>8. QED BY <1>3, <1>7, InTwoParts

LEMMA LiveSteps ==
  ASSUME LiveInv, [LiveNext]_liveVars
  PROVE  LiveInv'
<1>1. CASE UNCHANGED liveVars
  <2>1. ServiceInv /\ Others BY InTwoParts
  <2>2. UNCHANGED <<service, contexts, pool, gui, ended, posted, page, dialogs, missed, asked>>
    BY <1>1 DEF liveVars
  <2>3. Others'
    BY <2>1, <2>2 DEF Others, PoolTyped, PageTyped, NothingRuns, EndsAlone, Told, EndsWithSnapshot,
                     RatesAreShown
  <2>4. QED BY <2>1, <2>2, <2>3, UntouchedKeeps, InTwoParts
<1>2. CASE LiveNext
  BY <1>2, RunsKeeps, DeliverKeeps, AttachKeeps, PageKeeps, AskingKeeps DEF LiveNext
<1>3. QED BY <1>1, <1>2

LEMMA LiveInvTells ==
  ASSUME LiveInv
  PROVE  LiveIsTold
<1>1. ShownIsTrue
  <2> SUFFICES ASSUME AtRest, page.open, ~missed, page.shown # Nothing
               PROVE  /\ page.shown = service.snapshot
                      /\ service.snapshot.device # NoDevice => page.rates = service.selected.rates
    BY DEF ShownIsTrue
  <2>1. ended = Nothing /\ posted = <<>>
    BY DEF LiveInv, EndsAlone, AtRest, Idle
  <2>2. ToldBy(posted, page.shown, service.snapshot)
    BY <2>1 DEF LiveInv, Told, EndsWithSnapshot
  <2>3. page.shown = service.snapshot BY <2>1, <2>2 DEF ToldBy
  <2>4. service.snapshot.device # NoDevice => page.rates = service.selected.rates
    BY <2>3 DEF LiveInv, RatesAreShown, Selected
  <2>5. QED BY <2>3, <2>4
<1>2. QED BY <1>1 DEF LiveInv, LiveIsTold

(* The context of a receiver, the snapshot shown and the rates offered are *)
(* those of the receiver selected.                                         *)
THEOREM LiveIsToldCorrect == LiveSpec => []LiveIsTold
<1>1. LiveInit => LiveInv BY LiveStarts
<1>2. LiveInv /\ [LiveNext]_liveVars => LiveInv' BY LiveSteps
<1>3. LiveInv => LiveIsTold BY LiveInvTells
<1>4. QED BY <1>1, <1>2, <1>3, PTL DEF LiveSpec

-----------------------------------------------------------------------------
(* The bounded queue.                                                      *)

(* What push_locked leaves: a queue record whose pending items grow by one *)
(* at most and never past the capacity.                                    *)
LEMMA KeptType ==
  ASSUME NEW q \in Queues
  PROVE  /\ Kept(q) \in Seq(Nat)
         /\ Len(Kept(q)) = IF PushResult(q) = "Evicted" THEN Len(q.items) - 1 ELSE Len(q.items)
  <1>1. q.items \in Seq(Nat) /\ q.capacity \in Nat \ {0}
    BY CapacitiesAssumption DEF Queues
  <1>2. PushResult(q) = "Evicted" => Len(q.items) >= 1
    BY <1>1 DEF PushResult, IsFull, Queues
  <1>3. CASE PushResult(q) # "Evicted" BY <1>1, <1>3 DEF Kept
  <1>4. CASE PushResult(q) = "Evicted" /\ q.policy = "DropOldest"
    BY <1>1, <1>2, <1>4 DEF Kept
  <1>5. CASE PushResult(q) = "Evicted" /\ q.policy # "DropOldest"
    <2>1. Kept(q) = SubSeq(q.items, 1, Len(q.items) - 1) BY <1>5 DEF Kept
    <2> QED BY <1>1, <1>2, <1>5, <2>1, SubSeqProperties
  <1> QED BY <1>3, <1>4, <1>5

LEMMA PushType ==
  ASSUME NEW q \in Queues, NEW v \in Nat
  PROVE  AfterPush(q, v) \in Queues
  <1>1. Append(Kept(q), v) \in Seq(Nat) /\ Len(Kept(q)) + 1 \in Nat
    BY KeptType, AppendProperties, LenProperties
  <1>2. CASE Accepts(q)
    <2> DEFINE items == Append(Kept(q), v)
               dropped == IF PushResult(q) = "Evicted" THEN q.dropped + 1 ELSE q.dropped
               mark == IF Len(Kept(q)) + 1 > q.highWater THEN Len(Kept(q)) + 1 ELSE q.highWater
    <2>1. items \in Seq(Nat) /\ dropped \in Nat /\ mark \in Nat /\ q.pushed + 1 \in Nat
      BY <1>1 DEF Queues
    <2>2. AfterPush(q, v) = [q EXCEPT !.items = items, !.pushed = q.pushed + 1,
                                      !.dropped = dropped, !.highWater = mark]
      BY <1>2 DEF AfterPush, Queues
    <2> HIDE DEF items, dropped, mark
    <2> QED BY <2>1, <2>2 DEF Queues
  <1>3. CASE ~Accepts(q) BY <1>3 DEF AfterPush, Queues
  <1> QED BY <1>2, <1>3

LEMMA PopType ==
  ASSUME NEW q \in Queues, q.items # <<>>
  PROVE  /\ AfterPop(q) \in Queues
         /\ Head(q.items) \in Nat
  <1>1. q.items \in Seq(Nat) BY DEF Queues
  <1>2. Head(q.items) \in Nat /\ Tail(q.items) \in Seq(Nat)
    BY <1>1, HeadTailProperties
  <1> DEFINE items == Tail(q.items)
  <1>3. AfterPop(q) = [q EXCEPT !.items = items, !.popped = q.popped + 1]
    BY DEF AfterPop, Queues
  <1>4. items \in Seq(Nat) /\ q.popped + 1 \in Nat BY <1>2 DEF Queues
  <1> HIDE DEF items
  <1> QED BY <1>2, <1>3, <1>4 DEF Queues

LEMMA StopAbandonType ==
  ASSUME NEW q \in Queues
  PROVE  AfterStop(q) \in Queues /\ AfterAbandon(q) \in Queues
  <1>1. AfterStop(q) \in Queues BY DEF AfterStop, Queues
  <1>2. <<>> \in Seq(Nat) /\ q.abandoned + Len(q.items) \in Nat BY DEF Queues
  <1>3. AfterAbandon(q) \in Queues BY <1>2 DEF AfterAbandon, Queues
  <1> QED BY <1>1, <1>3

-----------------------------------------------------------------------------
(* A notification touches neither the queue nor the delivery history, and  *)
(* only moves threads between locations.                                   *)
LEMMA NotifyType ==
  ASSUME TypeOK, NEW t \in Threads, NEW s, NEW w \in Locations, NEW n \in Locations,
         NotifyOne(t, s, w) \/ NotifyAll(t, s, w, n)
  PROVE  TypeOK' /\ UNCHANGED <<queue, last>>
  BY DEF TypeOK, NotifyOne, NotifyAll, At, Locations

LEMMA PushLockedType ==
  ASSUME TypeOK, NEW t \in Threads, PushLocked(t)
  PROVE  TypeOK'
  <1>1. queue' \in Queues
    <2>1. queue.pushed + 1 \in Nat BY DEF TypeOK, Queues
    <2> QED BY <2>1, PushType DEF PushLocked, TypeOK
  <1>2. pc' \in [Threads -> Locations] BY DEF PushLocked, TypeOK, Locations
  <1> QED BY <1>1, <1>2 DEF PushLocked, TypeOK

LEMMA PopLockedType ==
  ASSUME TypeOK, NEW t \in Threads, PopLocked(t)
  PROVE  TypeOK'
  <1>1. queue' \in Queues /\ last' \in Nat BY PopType DEF PopLocked, TypeOK
  <1>2. pc' \in [Threads -> Locations] BY DEF PopLocked, TypeOK, Locations
  <1> QED BY <1>1, <1>2 DEF TypeOK

LEMMA InitType == Init => TypeOK
  <1> SUFFICES ASSUME Init PROVE TypeOK
    OBVIOUS
  <1>1. PICK capacity \in Capacities, policy \in Policies : queue = NewQueue(capacity, policy)
    BY DEF Init
  <1>2. <<>> \in Seq(Nat) OBVIOUS
  <1>3. queue \in Queues BY <1>1, <1>2 DEF NewQueue, Queues
  <1> QED BY <1>3 DEF Init, TypeOK, Locations

(* Everything a step can be, as far as the queue record is concerned: one  *)
(* of the four critical sections, or nothing.                              *)
QueueStep ==
  \/ \E t \in Threads : PushLocked(t)
  \/ \E t \in Threads : PopLocked(t)
  \/ queue' = AfterStop(queue) /\ last' = last
  \/ queue' = AfterAbandon(queue) /\ last' = last
  \/ UNCHANGED <<queue, last>>

LEMMA StepCases == TypeOK /\ [Next]_vars => QueueStep
  <1> SUFFICES ASSUME TypeOK, [Next]_vars PROVE QueueStep
    OBVIOUS
  <1>1. CASE UNCHANGED vars BY <1>1 DEF vars, QueueStep
  <1>2. ASSUME NEW t \in Threads, Call(t)
        PROVE  QueueStep
    BY <1>2 DEF Call, Push, TryPush, Pop, TryPop, RequestStop, Abandon,
                PushOrWait, PopOrWait, QueueStep
  <1>3. ASSUME NEW t \in Threads, Continue(t)
        PROVE  QueueStep
    BY <1>3 DEF Continue, ResumePush, ResumePop, NotifyNotEmpty, NotifyNotFull,
                StopNotEmpty, StopNotFull, AbandonNotFull, NotifyOne, NotifyAll,
                PushOrWait, PopOrWait, QueueStep
  <1>4. ASSUME NEW t \in Threads, SpuriousWake(t)
        PROVE  QueueStep
    BY <1>4 DEF SpuriousWake, QueueStep
  <1> QED BY <1>1, <1>2, <1>3, <1>4 DEF Next

-----------------------------------------------------------------------------
(* Type correctness.                                                       *)
LEMMA NextType == TypeOK /\ [Next]_vars => TypeOK'
  <1> SUFFICES ASSUME TypeOK, [Next]_vars PROVE TypeOK'
    OBVIOUS
  <1> USE DEF Locations
  <1>1. CASE UNCHANGED vars BY <1>1 DEF vars, TypeOK
  <1>2. ASSUME NEW t \in Threads, PushOrWait(t) PROVE TypeOK'
    BY <1>2, PushLockedType DEF PushOrWait, TypeOK
  <1>3. ASSUME NEW t \in Threads, PopOrWait(t) PROVE TypeOK'
    BY <1>3, PopLockedType DEF PopOrWait, TypeOK
  <1>4. ASSUME NEW t \in Threads, Call(t) PROVE TypeOK'
    <2>1. CASE Push(t) BY <2>1, <1>2 DEF Push
    <2>2. CASE TryPush(t) BY <2>2, PushLockedType DEF TryPush
    <2>3. CASE Pop(t) BY <2>3, <1>3 DEF Pop
    <2>4. CASE TryPop(t) BY <2>4, PopLockedType DEF TryPop
    <2>5. CASE RequestStop(t) BY <2>5, StopAbandonType DEF RequestStop, TypeOK
    <2>6. CASE Abandon(t) BY <2>6, StopAbandonType DEF Abandon, TypeOK
    <2> QED BY <1>4, <2>1, <2>2, <2>3, <2>4, <2>5, <2>6 DEF Call
  <1>5. ASSUME NEW t \in Threads, Continue(t) PROVE TypeOK'
    <2>1. CASE ResumePush(t) BY <2>1, <1>2 DEF ResumePush
    <2>2. CASE ResumePop(t) BY <2>2, <1>3 DEF ResumePop
    <2>3. CASE NotifyNotEmpty(t) \/ NotifyNotFull(t)
      BY <2>3, NotifyType DEF NotifyNotEmpty, NotifyNotFull
    <2>4. CASE StopNotEmpty(t) \/ StopNotFull(t) \/ AbandonNotFull(t)
      BY <2>4, NotifyType DEF StopNotEmpty, StopNotFull, AbandonNotFull
    <2> QED BY <1>5, <2>1, <2>2, <2>3, <2>4 DEF Continue
  <1>6. ASSUME NEW t \in Threads, SpuriousWake(t) PROVE TypeOK'
    BY <1>6 DEF SpuriousWake, TypeOK
  <1> QED BY <1>1, <1>4, <1>5, <1>6 DEF Next

(* In every reachable state the queue record, the locations of the threads *)
(* and the delivery history have their types, however many threads use it. *)
THEOREM TypeCorrect == Spec => []TypeOK
  BY InitType, NextType, PTL DEF Spec

-----------------------------------------------------------------------------
(* Exact accounting.                                                       *)
LEMMA PushAccounting ==
  ASSUME TypeOK, Accounting, NEW t \in Threads, PushLocked(t)
  PROVE  Accounting'
  <1>1. queue \in Queues /\ queue.capacity \in Nat \ {0} /\ queue.items \in Seq(Nat)
    BY CapacitiesAssumption DEF TypeOK, Queues
  <1>2. queue' = AfterPush(queue, queue.pushed + 1) BY DEF PushLocked
  <1>3. queue.pushed \in Nat /\ queue.popped \in Nat /\ queue.dropped \in Nat
        /\ queue.abandoned \in Nat /\ queue.highWater \in Nat /\ Len(queue.items) \in Nat
        /\ queue.policy \in Policies
    BY <1>1 DEF Queues
  <1>4. CASE ~Accepts(queue)
    <2>1. CASE PushResult(queue) = "Dropped"
      <3>1. queue.policy = "DropNewest" BY <2>1 DEF PushResult
      <3>2. queue' = [queue EXCEPT !.dropped = queue.dropped + 1]
        BY <1>2, <1>4, <2>1 DEF AfterPush
      <3> QED
        BY <1>1, <1>3, <3>1, <3>2 DEF Accounting, Evictions, EvictingPolicies, Queues
    <2>2. CASE PushResult(queue) # "Dropped"
      BY <1>2, <1>4, <2>2 DEF AfterPush, Accounting, Evictions
    <2> QED BY <2>1, <2>2
  <1>5. CASE Accepts(queue)
    <2> DEFINE evicted == IF PushResult(queue) = "Evicted" THEN 1 ELSE 0
               depth == Len(queue.items) - evicted + 1
    <2>1. Kept(queue) \in Seq(Nat) /\ Len(Kept(queue)) + 1 = depth
      BY <1>1, <1>3, KeptType
    <2>2. Len(Append(Kept(queue), queue.pushed + 1)) = depth
      BY <2>1, <1>3, AppendProperties
    <2>3. /\ queue'.items = Append(Kept(queue), queue.pushed + 1)
          /\ queue'.pushed = queue.pushed + 1
          /\ queue'.dropped = queue.dropped + evicted
          /\ queue'.highWater = IF depth > queue.highWater THEN depth ELSE queue.highWater
          /\ queue'.capacity = queue.capacity /\ queue'.policy = queue.policy
          /\ queue'.popped = queue.popped /\ queue'.abandoned = queue.abandoned
      BY <1>1, <1>2, <1>3, <1>5, <2>1 DEF AfterPush, Queues
    <2>4. evicted = 1 => queue.policy \in EvictingPolicies /\ Len(queue.items) >= queue.capacity
      BY <1>3 DEF PushResult, IsFull, EvictingPolicies, Policies
    <2>5. evicted = 0 => Len(queue.items) < queue.capacity
      BY <1>1, <1>3, <1>5 DEF PushResult, IsFull, Accepts
    <2>6. evicted \in {0, 1} OBVIOUS
    <2>7. Evictions' = Evictions + IF queue.policy \in EvictingPolicies THEN evicted ELSE 0
      BY <1>3, <2>3, <2>6 DEF Evictions
    <2> HIDE DEF evicted
    <2>8. Len(queue'.items) = depth /\ depth <= queue.capacity
      <3>1. Len(queue.items) <= queue.capacity BY <1>1, <1>3 DEF Accounting
      <3>2. Len(queue'.items) = depth BY <2>2, <2>3
      <3>3. CASE evicted = 1 BY <1>1, <1>3, <3>1, <3>2, <3>3
      <3>4. CASE evicted = 0 BY <1>1, <1>3, <2>5, <3>2, <3>4
      <3> QED BY <2>6, <3>3, <3>4
    <2>9. queue.policy = "Block" => queue'.dropped = 0
      BY <1>3, <2>3, <2>4, <2>6 DEF Accounting, EvictingPolicies
    <2>10. queue'.pushed = queue'.popped + Len(queue'.items) + queue'.abandoned + Evictions'
      <3>1. queue.pushed = queue.popped + Len(queue.items) + queue.abandoned + Evictions
        BY DEF Accounting
      <3>2. Evictions \in Nat /\ Evictions' = Evictions + evicted
        BY <1>3, <2>4, <2>6, <2>7 DEF Evictions
      <3>3. queue'.pushed = queue.pushed + 1 /\ queue'.popped = queue.popped
            /\ queue'.abandoned = queue.abandoned
        BY <2>3
      <3>4. Len(queue'.items) = Len(queue.items) - evicted + 1 /\ evicted \in Int
        BY <2>6, <2>8
      <3>5. queue.pushed \in Nat /\ queue.popped \in Nat /\ queue.abandoned \in Nat
            /\ Len(queue.items) \in Nat
        BY <1>3
      <3> QED BY <3>1, <3>2, <3>3, <3>4, <3>5
    <2> QED BY <1>1, <1>3, <2>3, <2>6, <2>8, <2>9, <2>10 DEF Accounting
  <1> QED BY <1>4, <1>5

LEMMA PopAccounting ==
  ASSUME TypeOK, Accounting, NEW t \in Threads, PopLocked(t)
  PROVE  Accounting'
  <1>1. queue.items \in Seq(Nat) /\ queue.items # <<>>
    BY DEF TypeOK, Queues, PopLocked
  <1>2. Len(Tail(queue.items)) = Len(queue.items) - 1
    BY <1>1, HeadTailProperties
  <1>3. /\ queue'.items = Tail(queue.items) /\ queue'.popped = queue.popped + 1
        /\ queue'.capacity = queue.capacity /\ queue'.policy = queue.policy
        /\ queue'.pushed = queue.pushed /\ queue'.dropped = queue.dropped
        /\ queue'.abandoned = queue.abandoned /\ queue'.highWater = queue.highWater
    BY DEF PopLocked, AfterPop, TypeOK, Queues
  <1>4. Len(queue.items) \in Nat BY <1>1
  <1>5. queue.capacity \in Nat BY CapacitiesAssumption DEF TypeOK, Queues
  <1>6. Evictions \in Nat /\ Evictions' = Evictions
    BY <1>3 DEF Evictions, TypeOK, Queues
  <1>7. queue.pushed \in Nat /\ queue.popped \in Nat /\ queue.abandoned \in Nat
        /\ queue.highWater \in Nat
    BY DEF TypeOK, Queues
  <1>8. queue.pushed = queue.popped + Len(queue.items) + queue.abandoned + Evictions
    BY DEF Accounting
  <1>9. queue'.pushed = queue'.popped + Len(queue'.items) + queue'.abandoned + Evictions'
    BY <1>2, <1>3, <1>4, <1>6, <1>7, <1>8
  <1> QED BY <1>2, <1>3, <1>4, <1>5, <1>7, <1>9 DEF Accounting

LEMMA StepAccounting == TypeOK /\ Accounting /\ [Next]_vars => Accounting'
  <1> SUFFICES ASSUME TypeOK, Accounting, QueueStep PROVE Accounting'
    BY StepCases
  <1>1. ASSUME NEW t \in Threads, PushLocked(t) PROVE Accounting'
    BY <1>1, PushAccounting
  <1>2. ASSUME NEW t \in Threads, PopLocked(t) PROVE Accounting'
    BY <1>2, PopAccounting
  <1>3. CASE queue' = AfterStop(queue)
    BY <1>3 DEF AfterStop, Accounting, Evictions, TypeOK, Queues
  <1>4. CASE queue' = AfterAbandon(queue)
    <2>1. /\ queue'.items = <<>>
          /\ queue'.abandoned = queue.abandoned + Len(queue.items)
          /\ queue'.capacity = queue.capacity /\ queue'.policy = queue.policy
          /\ queue'.pushed = queue.pushed /\ queue'.popped = queue.popped
          /\ queue'.dropped = queue.dropped /\ queue'.highWater = queue.highWater
      BY <1>4 DEF AfterAbandon, TypeOK, Queues
    <2>2. Len(queue.items) \in Nat /\ Len(<<>>) = 0 BY DEF TypeOK, Queues
    <2> QED BY <2>1, <2>2 DEF Accounting, Evictions, TypeOK, Queues
  <1>5. CASE UNCHANGED queue BY <1>5 DEF Accounting, Evictions
  <1> QED BY <1>1, <1>2, <1>3, <1>4, <1>5 DEF QueueStep

LEMMA InitAccounting == Init => Accounting
  <1> SUFFICES ASSUME Init PROVE Accounting
    OBVIOUS
  <1>1. PICK capacity \in Capacities, policy \in Policies : queue = NewQueue(capacity, policy)
    BY DEF Init
  <1>2. capacity \in Nat /\ Len(<<>>) = 0 BY CapacitiesAssumption
  <1> QED BY <1>1, <1>2 DEF NewQueue, Accounting, Evictions

(* Whatever the threads do, the counters account for every accepted item,  *)
(* a Block queue drops nothing, and the depth stays within the capacity.   *)
THEOREM AccountingCorrect == Spec => []Accounting
  <1>1. Init => TypeOK /\ Accounting BY InitType, InitAccounting
  <1>2. TypeOK /\ Accounting /\ [Next]_vars => (TypeOK /\ Accounting)'
    BY NextType, StepAccounting
  <1> QED BY <1>1, <1>2, PTL DEF Spec

-----------------------------------------------------------------------------
(* Delivery order.                                                         *)

(* An eviction takes items away from one end: what is left is a run of     *)
(* consecutive positions of the old sequence.                              *)
LEMMA KeptPositions ==
  ASSUME NEW q \in Queues
  PROVE  \E shift \in {0, 1} :
           \A i \in 1..Len(Kept(q)) :
             i + shift \in 1..Len(q.items) /\ Kept(q)[i] = q.items[i + shift]
  <1>1. q.items \in Seq(Nat) /\ q.capacity \in Nat \ {0}
    BY CapacitiesAssumption DEF Queues
  <1>2. PushResult(q) = "Evicted" => Len(q.items) >= 1
    BY <1>1 DEF PushResult, IsFull, Queues
  <1>3. CASE PushResult(q) # "Evicted" BY <1>1, <1>3 DEF Kept
  <1>4. CASE PushResult(q) = "Evicted" /\ q.policy = "DropOldest"
    <2>1. Kept(q) = Tail(q.items) /\ q.items # <<>>
      BY <1>1, <1>2, <1>4 DEF Kept
    <2>2. /\ Len(Kept(q)) = Len(q.items) - 1
          /\ \A i \in 1..Len(Kept(q)) : Kept(q)[i] = q.items[i + 1]
      BY <1>1, <2>1, HeadTailProperties
    <2>3. \A i \in 1..Len(Kept(q)) : i + 1 \in 1..Len(q.items) BY <1>1, <2>2
    <2> QED BY <2>2, <2>3
  <1>5. CASE PushResult(q) = "Evicted" /\ q.policy # "DropOldest"
    <2>1. Kept(q) = SubSeq(q.items, 1, Len(q.items) - 1) BY <1>5 DEF Kept
    <2>2. /\ Len(Kept(q)) = Len(q.items) - 1
          /\ \A i \in 1..Len(Kept(q)) : Kept(q)[i] = q.items[i]
      BY <1>1, <1>2, <1>5, <2>1, SubSeqProperties
    <2>3. \A i \in 1..Len(Kept(q)) : i \in 1..Len(q.items) BY <1>1, <2>2
    <2> QED BY <2>2, <2>3
  <1> QED BY <1>3, <1>4, <1>5

LEMMA PushInOrder ==
  ASSUME TypeOK, InOrder, NEW t \in Threads, PushLocked(t)
  PROVE  InOrder'
  <1>1. queue \in Queues /\ queue.items \in Seq(Nat) /\ queue.pushed \in Nat /\ last \in Nat
    BY DEF TypeOK, Queues
  <1>2. queue' = AfterPush(queue, queue.pushed + 1) /\ last' = last
    BY DEF PushLocked
  <1>3. CASE ~Accepts(queue)
    <2>1. queue'.items = queue.items /\ queue'.pushed = queue.pushed
      BY <1>1, <1>2, <1>3 DEF AfterPush, Queues
    <2> QED BY <1>2, <2>1 DEF InOrder
  <1>4. CASE Accepts(queue)
    <2> DEFINE n == Len(Kept(queue))
               v == queue.pushed + 1
    <2>1. queue'.items = Append(Kept(queue), v) /\ queue'.pushed = v
      BY <1>1, <1>2, <1>4 DEF AfterPush, Queues
    <2>2. Kept(queue) \in Seq(Nat) /\ n \in Nat /\ v \in Nat BY <1>1, KeptType
    <2>3. /\ Len(queue'.items) = n + 1
          /\ \A i \in 1..n : queue'.items[i] = Kept(queue)[i]
          /\ queue'.items[n + 1] = v
      BY <2>1, <2>2, AppendProperties
    <2>4. PICK shift \in {0, 1} :
            \A i \in 1..n : i + shift \in 1..Len(queue.items)
                            /\ Kept(queue)[i] = queue.items[i + shift]
      BY <1>1, KeptPositions
    <2>5. \A i \in 1..n : /\ last < queue'.items[i] /\ queue'.items[i] < v
                          /\ queue'.items[i] \in Nat
      <3>1. TAKE i \in 1..n
      <3>2. i + shift \in 1..Len(queue.items) /\ queue'.items[i] = queue.items[i + shift]
        BY <2>3, <2>4
      <3>3. queue.items[i + shift] \in Nat BY <1>1, <3>2, ElementOfSeq
      <3> QED BY <1>1, <3>2, <3>3 DEF InOrder
    <2>6. \A i, j \in 1..n : i < j => queue'.items[i] < queue'.items[j]
      <3>1. SUFFICES ASSUME NEW i \in 1..n, NEW j \in 1..n, i < j
                     PROVE  queue'.items[i] < queue'.items[j]
        OBVIOUS
      <3>2. /\ i + shift \in 1..Len(queue.items) /\ queue'.items[i] = queue.items[i + shift]
            /\ j + shift \in 1..Len(queue.items) /\ queue'.items[j] = queue.items[j + shift]
        BY <2>3, <2>4
      <3>3. i + shift < j + shift BY <2>2, <3>1
      <3> QED BY <3>2, <3>3 DEF InOrder
    <2>7. last < v BY <1>1 DEF InOrder
    <2> HIDE DEF n, v
    <2>8. \A i \in 1..(n + 1) : i \in 1..n \/ i = n + 1 BY <2>2
    <2>9. \A i, j \in 1..(n + 1) : i < j => queue'.items[i] < queue'.items[j]
      <3>1. SUFFICES ASSUME NEW i \in 1..(n + 1), NEW j \in 1..(n + 1), i < j
                     PROVE  queue'.items[i] < queue'.items[j]
        OBVIOUS
      <3>2. i \in 1..n BY <2>2, <3>1
      <3>3. CASE j \in 1..n BY <2>6, <3>1, <3>2, <3>3
      <3>4. CASE j = n + 1 BY <2>3, <2>5, <3>2, <3>4
      <3> QED BY <2>8, <3>3, <3>4
    <2>10. \A i \in 1..(n + 1) : last < queue'.items[i] /\ queue'.items[i] <= v
      BY <2>2, <2>3, <2>5, <2>7, <2>8
    <2>11. last <= v BY <1>1, <2>2, <2>7
    <2> QED BY <1>2, <2>1, <2>3, <2>9, <2>10, <2>11 DEF InOrder
  <1> QED BY <1>3, <1>4

LEMMA PopInOrder ==
  ASSUME TypeOK, InOrder, NEW t \in Threads, PopLocked(t)
  PROVE  InOrder'
  <1>1. queue.items \in Seq(Nat) /\ queue.items # <<>> /\ queue.pushed \in Nat
    BY DEF TypeOK, Queues, PopLocked
  <1>2. queue'.items = Tail(queue.items) /\ queue'.pushed = queue.pushed
    BY DEF PopLocked, AfterPop, TypeOK, Queues
  <1>3. last' = queue.items[1] BY <1>1, HeadTailProperties DEF PopLocked
  <1>4. Len(queue.items) \in Nat \ {0} BY <1>1, EmptySeq, LenProperties
  <1>5. /\ Len(queue'.items) = Len(queue.items) - 1
        /\ \A i \in 1..Len(queue'.items) : queue'.items[i] = queue.items[i + 1]
    BY <1>1, <1>2, HeadTailProperties
  <1>6. \A i \in 1..Len(queue'.items) : i + 1 \in 1..Len(queue.items) /\ 1 < i + 1
    BY <1>4, <1>5
  <1>7. 1 \in 1..Len(queue.items) BY <1>4
  <1>8. last' <= queue'.pushed BY <1>2, <1>3, <1>7 DEF InOrder
  <1>9. \A i, j \in 1..Len(queue'.items) : i < j => queue'.items[i] < queue'.items[j]
    <2>1. SUFFICES ASSUME NEW i \in 1..Len(queue'.items), NEW j \in 1..Len(queue'.items), i < j
                   PROVE  queue'.items[i] < queue'.items[j]
      OBVIOUS
    <2>2. i + 1 < j + 1 BY <1>4, <1>5, <2>1
    <2> QED BY <1>5, <1>6, <2>2 DEF InOrder
  <1>10. \A i \in 1..Len(queue'.items) :
           last' < queue'.items[i] /\ queue'.items[i] <= queue'.pushed
    BY <1>2, <1>3, <1>5, <1>6, <1>7 DEF InOrder
  <1> QED BY <1>8, <1>9, <1>10 DEF InOrder

LEMMA StepInOrder == TypeOK /\ InOrder /\ [Next]_vars => InOrder'
  <1> SUFFICES ASSUME TypeOK, InOrder, QueueStep PROVE InOrder'
    BY StepCases
  <1>1. ASSUME NEW t \in Threads, PushLocked(t) PROVE InOrder'
    BY <1>1, PushInOrder
  <1>2. ASSUME NEW t \in Threads, PopLocked(t) PROVE InOrder'
    BY <1>2, PopInOrder
  <1>3. CASE queue' = AfterStop(queue) /\ last' = last
    <2>1. queue'.items = queue.items /\ queue'.pushed = queue.pushed
      BY <1>3 DEF AfterStop, TypeOK, Queues
    <2> QED BY <1>3, <2>1 DEF InOrder
  <1>4. CASE queue' = AfterAbandon(queue) /\ last' = last
    <2>1. queue'.items = <<>> /\ queue'.pushed = queue.pushed
      BY <1>4 DEF AfterAbandon, TypeOK, Queues
    <2>2. 1..Len(<<>>) = {} OBVIOUS
    <2> QED BY <1>4, <2>1, <2>2 DEF InOrder
  <1>5. CASE UNCHANGED <<queue, last>> BY <1>5 DEF InOrder
  <1> QED BY <1>1, <1>2, <1>3, <1>4, <1>5 DEF QueueStep

LEMMA InitInOrder == Init => InOrder
  <1> SUFFICES ASSUME Init PROVE InOrder
    OBVIOUS
  <1>1. queue.items = <<>> /\ queue.pushed = 0 /\ last = 0
    BY DEF Init, NewQueue
  <1>2. 1..Len(<<>>) = {} OBVIOUS
  <1> QED BY <1>1, <1>2 DEF InOrder

(* Consumers are handed the accepted items in the order of acceptance,     *)
(* whatever the policy evicted and however many threads push and pop.      *)
THEOREM InOrderCorrect == Spec => []InOrder
  <1>1. Init => TypeOK /\ InOrder BY InitType, InitInOrder
  <1>2. TypeOK /\ InOrder /\ [Next]_vars => (TypeOK /\ InOrder)'
    BY NextType, StepInOrder
  <1> QED BY <1>1, <1>2, PTL DEF Spec

-----------------------------------------------------------------------------
(* The stop.                                                               *)
AfterStopNothingEnters ==
  queue.stop => /\ queue'.stop
                /\ queue'.pushed = queue.pushed /\ queue'.dropped = queue.dropped
                /\ Len(queue.items) - Len(queue'.items)
                     = (queue'.popped - queue.popped)
                       + (queue'.abandoned - queue.abandoned)

LEMMA StepAfterStop == TypeOK /\ [Next]_vars => AfterStopNothingEnters
  <1> SUFFICES ASSUME TypeOK, QueueStep, queue.stop PROVE AfterStopNothingEnters
    BY StepCases DEF AfterStopNothingEnters
  <1>1. /\ queue.items \in Seq(Nat) /\ Len(queue.items) \in Nat
        /\ queue.popped \in Nat /\ queue.abandoned \in Nat
    BY DEF TypeOK, Queues
  <1>2. ASSUME NEW t \in Threads, PushLocked(t) PROVE AfterStopNothingEnters
    <2>1. ~Accepts(queue) /\ PushResult(queue) # "Dropped"
      BY DEF PushResult, Accepts
    <2>2. queue' = queue BY <1>2, <2>1 DEF PushLocked, AfterPush
    <2> QED BY <1>1, <2>2 DEF AfterStopNothingEnters
  <1>3. ASSUME NEW t \in Threads, PopLocked(t) PROVE AfterStopNothingEnters
    <2>1. /\ queue'.items = Tail(queue.items) /\ queue'.popped = queue.popped + 1
          /\ queue'.pushed = queue.pushed /\ queue'.dropped = queue.dropped
          /\ queue'.abandoned = queue.abandoned /\ queue'.stop = queue.stop
      BY <1>3 DEF PopLocked, AfterPop, TypeOK, Queues
    <2>2. Len(Tail(queue.items)) = Len(queue.items) - 1
      BY <1>1, <1>3, HeadTailProperties DEF PopLocked
    <2> QED BY <1>1, <2>1, <2>2 DEF AfterStopNothingEnters
  <1>4. CASE queue' = AfterStop(queue)
    BY <1>1, <1>4 DEF AfterStop, AfterStopNothingEnters, TypeOK, Queues
  <1>5. CASE queue' = AfterAbandon(queue)
    <2>1. /\ queue'.items = <<>>
          /\ queue'.abandoned = queue.abandoned + Len(queue.items)
          /\ queue'.popped = queue.popped /\ queue'.stop = queue.stop
          /\ queue'.pushed = queue.pushed /\ queue'.dropped = queue.dropped
      BY <1>5 DEF AfterAbandon, TypeOK, Queues
    <2>2. Len(<<>>) = 0 OBVIOUS
    <2> QED BY <1>1, <2>1, <2>2 DEF AfterStopNothingEnters
  <1>6. CASE UNCHANGED queue BY <1>1, <1>6 DEF AfterStopNothingEnters
  <1> QED BY <1>2, <1>3, <1>4, <1>5, <1>6 DEF QueueStep

(* Once stopped, a queue accepts and drops nothing more, and what leaves   *)
(* it is counted as popped or abandoned.                                   *)
THEOREM StopIsFinalCorrect == Spec => StopIsFinal
  <1>1. TypeOK /\ [Next]_vars => [AfterStopNothingEnters]_vars BY StepAfterStop
  <1>2. Spec => [][AfterStopNothingEnters]_vars
    BY <1>1, TypeCorrect, PTL DEF Spec
  <1> QED BY <1>2 DEF StopIsFinal, AfterStopNothingEnters
-----------------------------------------------------------------------------
(* No lost wake-up.  The notifications on their way and the threads awake  *)
(* are counted, so the threads at a location must be finitely many: only   *)
(* producers push, and only consumers pop.                                 *)
Roles ==
  \A t \in Threads :
    /\ pc[t] \in {"pushWait", "pushWoken", "notifyNotEmpty"} => t \in Producers
    /\ pc[t] \in {"popWait", "popWoken", "notifyNotFull"} => t \in Consumers

(* Mutual support: with Roles and the types the three parts of             *)
(* NoLostWakeup are preserved together.                                    *)
WakeupInv == TypeOK /\ Roles /\ NoLostWakeup

(* The threads at the locations that are counted form a finite set.        *)
LEMMA CountedAreFinite ==
  ASSUME TypeOK, Roles,
         NEW location \in {"pushWoken", "notifyNotEmpty", "popWoken", "notifyNotFull"}
  PROVE  IsFiniteSet(At(location)) /\ Cardinality(At(location)) \in Nat
  <1>1. At(location) \in SUBSET Producers \/ At(location) \in SUBSET Consumers
    BY DEF At, Roles
  <1>2. IsFiniteSet(At(location)) BY <1>1, FS_Subset, ThreadsAssumption
  <1> QED BY <1>2, FS_CardinalityType

(* A thread that comes to a location, or leaves it, is one more or less.   *)
LEMMA Arrives ==
  ASSUME NEW S, NEW T, NEW t, IsFiniteSet(S), t \notin S, T = S \cup {t}
  PROVE  Cardinality(T) = Cardinality(S) + 1 /\ Cardinality(T) \in Nat
  BY FS_AddElement, FS_CardinalityType

LEMMA Leaves ==
  ASSUME NEW S, NEW T, NEW t, IsFiniteSet(S), t \in S, T = S \ {t}
  PROVE  Cardinality(T) = Cardinality(S) - 1 /\ Cardinality(T) \in Nat
  BY FS_RemoveElement, FS_CardinalityType

(* Where the others are does not change when one thread moves.             *)
LEMMA OneMoves ==
  ASSUME TypeOK, NEW t \in Threads, NEW to \in Locations,
         pc' = [pc EXCEPT ![t] = to]
  PROVE  /\ \A location \in Locations :
              location # to => At(location)' = At(location) \ {t}
         /\ At(to)' = At(to) \cup {t}
  BY DEF TypeOK, At

(* How a move changes a count.                                             *)
LEMMA Counts ==
  ASSUME TypeOK, Roles, NEW t \in Threads, NEW to \in Locations, pc[t] # to,
         pc' = [pc EXCEPT ![t] = to],
         NEW location \in {"pushWoken", "notifyNotEmpty", "popWoken", "notifyNotFull"}
  PROVE  /\ Cardinality(At(location)) \in Nat /\ Cardinality(At(location)') \in Nat
         /\ Cardinality(At(location)') = Cardinality(At(location))
              + (IF location = to THEN 1 ELSE 0) - (IF location = pc[t] THEN 1 ELSE 0)
  <1>0. location \in Locations BY DEF Locations
  <1>1. IsFiniteSet(At(location)) /\ Cardinality(At(location)) \in Nat
    BY CountedAreFinite
  <1>2. t \in At(location) <=> pc[t] = location BY DEF At
  <1>3. CASE location = to
    <2>1. At(location)' = At(location) \cup {t} /\ t \notin At(location)
      BY <1>2, <1>3, OneMoves
    <2>2. Cardinality(At(location)') = Cardinality(At(location)) + 1
          /\ Cardinality(At(location)') \in Nat
      BY <1>1, <2>1, Arrives
    <2>3. location # pc[t] BY <1>3
    <2>4. (IF location = to THEN 1 ELSE 0) = 1 /\ (IF location = pc[t] THEN 1 ELSE 0) = 0
      BY <1>3, <2>3
    <2> QED BY <1>1, <2>2, <2>4
  <1>4. CASE location # to /\ location = pc[t]
    <2>1. At(location)' = At(location) \ {t} /\ t \in At(location)
      BY <1>0, <1>2, <1>4, OneMoves
    <2>2. Cardinality(At(location)') = Cardinality(At(location)) - 1
          /\ Cardinality(At(location)') \in Nat
      BY <1>1, <2>1, Leaves
    <2>3. (IF location = to THEN 1 ELSE 0) = 0 /\ (IF location = pc[t] THEN 1 ELSE 0) = 1
      BY <1>4
    <2> QED BY <1>1, <2>2, <2>3
  <1>5. CASE location # to /\ location # pc[t]
    <2>1. At(location)' = At(location) \ {t} BY <1>0, <1>5, OneMoves
    <2>2. At(location)' = At(location) BY <1>2, <1>5, <2>1
    <2>3. (IF location = to THEN 1 ELSE 0) = 0 /\ (IF location = pc[t] THEN 1 ELSE 0) = 0
      BY <1>5
    <2> QED BY <1>1, <2>2, <2>3
  <1> QED BY <1>3, <1>4, <1>5

(* What the wake-up properties see of the critical section of a push.      *)
LEMMA PushEffect ==
  ASSUME TypeOK, queue' = AfterPush(queue, queue.pushed + 1)
  PROVE  /\ queue'.stop = queue.stop /\ queue'.capacity = queue.capacity
         /\ Len(queue.items) \in Nat /\ queue.capacity \in Nat
         /\ Accepts(queue) =>
              \/ Len(queue'.items) = Len(queue.items) + 1
              \/ Len(queue'.items) = Len(queue.items) /\ Len(queue.items) >= queue.capacity
         /\ ~Accepts(queue) =>
              /\ queue'.items = queue.items
              /\ queue.stop \/ Len(queue.items) >= queue.capacity
  <1>1. queue \in Queues BY DEF TypeOK
  <1>2. queue.capacity \in Capacities /\ queue.items \in Seq(Nat)
    BY <1>1 DEF Queues
  <1>3. queue \in Queues /\ queue.capacity \in Nat /\ Len(queue.items) \in Nat
    BY <1>1, <1>2, CapacitiesAssumption, LenProperties
  <1>4. CASE Accepts(queue)
    <2>1. Kept(queue) \in Seq(Nat)
          /\ Len(Kept(queue)) = IF PushResult(queue) = "Evicted" THEN Len(queue.items) - 1
                                                                 ELSE Len(queue.items)
      BY <1>3, KeptType
    <2>2. queue.pushed + 1 \in Nat BY <1>3 DEF Queues
    <2>3. Len(Append(Kept(queue), queue.pushed + 1)) = Len(Kept(queue)) + 1
      BY <2>1, <2>2, AppendProperties
    <2>4. queue'.items = Append(Kept(queue), queue.pushed + 1)
          /\ queue'.stop = queue.stop /\ queue'.capacity = queue.capacity
      BY <1>3, <1>4 DEF AfterPush, Queues
    <2>5. PushResult(queue) = "Evicted" => Len(queue.items) >= queue.capacity
      BY <1>3 DEF PushResult, IsFull
    <2> QED BY <1>3, <1>4, <2>1, <2>3, <2>4, <2>5
  <1>5. CASE ~Accepts(queue)
    <2>1. queue'.items = queue.items
          /\ queue'.stop = queue.stop /\ queue'.capacity = queue.capacity
      BY <1>3, <1>5 DEF AfterPush, Queues
    <2>2. queue.stop \/ Len(queue.items) >= queue.capacity
      BY <1>3, <1>5 DEF Accepts, PushResult, IsFull
    <2> QED BY <1>3, <1>5, <2>1, <2>2
  <1> QED BY <1>4, <1>5

(* One step per kind of move; in each the counts say what NoLostWakeup     *)
(* needs.  First a thread that pushes, and one that goes to sleep for it.  *)
LEMMA PushWakes ==
  ASSUME WakeupInv, NEW t \in Producers, pc[t] \in {"idle", "pushWoken"}, PushLocked(t)
  PROVE  Roles' /\ NoLostWakeup'
  <1> DEFINE to == IF Accepts(queue) THEN "notifyNotEmpty" ELSE "idle"
  <1>1. TypeOK /\ Roles /\ t \in Threads /\ to \in Locations
        /\ pc' = [pc EXCEPT ![t] = to]
    BY DEF WakeupInv, PushLocked, Threads, Locations
  <1>2. Roles' BY <1>1 DEF Roles, TypeOK
  <1>3. /\ queue'.stop = queue.stop /\ queue'.capacity = queue.capacity
        /\ Len(queue.items) \in Nat /\ queue.capacity \in Nat
        /\ Accepts(queue) =>
             \/ Len(queue'.items) = Len(queue.items) + 1
             \/ Len(queue'.items) = Len(queue.items) /\ Len(queue.items) >= queue.capacity
        /\ ~Accepts(queue) =>
             /\ queue'.items = queue.items
             /\ queue.stop \/ Len(queue.items) >= queue.capacity
    BY <1>1, PushEffect DEF PushLocked
  <1>4. \A location \in Locations \ {"idle", "notifyNotEmpty", "pushWoken"} :
          At(location)' = At(location)
    BY <1>1, OneMoves DEF At
  <1>5. CASE pc[t] = to
    <2>1. ~Accepts(queue) /\ pc' = pc BY <1>1, <1>5 DEF TypeOK
    <2> QED
      BY <1>2, <1>3, <2>1 DEF WakeupInv, NoLostWakeup, NoLostItemWakeup,
         NoLostSpaceWakeup, StopWakesSleepers, At
  <1>6. to = IF Accepts(queue) THEN "notifyNotEmpty" ELSE "idle" OBVIOUS
  <1> HIDE DEF to
  <1>7. CASE pc[t] # to
    <2>0. \A location \in {"pushWoken", "notifyNotEmpty", "popWoken", "notifyNotFull"} :
            /\ Cardinality(At(location)) \in Nat /\ Cardinality(At(location)') \in Nat
            /\ Cardinality(At(location)')
                 = Cardinality(At(location))
                   + (IF location = to THEN 1 ELSE 0) - (IF location = pc[t] THEN 1 ELSE 0)
      BY <1>1, <1>7, Counts
    <2>1. NoLostItemWakeup'
      <3>1. /\ Cardinality(At("notifyNotEmpty")) \in Nat /\ Cardinality(At("popWoken")) \in Nat
            /\ Cardinality(At("notifyNotEmpty")')
                 = Cardinality(At("notifyNotEmpty")) + (IF Accepts(queue) THEN 1 ELSE 0)
            /\ Cardinality(At("popWoken")') = Cardinality(At("popWoken"))
        BY <1>6, <2>0
      <3>2. At("popWait")' = At("popWait") BY <1>4 DEF Locations
      <3> QED BY <1>3, <3>1, <3>2 DEF WakeupInv, NoLostWakeup, NoLostItemWakeup
    <2>2. NoLostSpaceWakeup'
      <3>1. /\ Cardinality(At("notifyNotFull")) \in Nat
            /\ Cardinality(At("pushWoken")) \in Nat /\ Cardinality(At("pushWoken")') \in Nat
            /\ Cardinality(At("notifyNotFull")') = Cardinality(At("notifyNotFull"))
            /\ Cardinality(At("pushWoken")')
                 = Cardinality(At("pushWoken")) - (IF pc[t] = "pushWoken" THEN 1 ELSE 0)
        BY <1>6, <2>0
      <3>2. At("pushWait")' = At("pushWait") /\ At("abandonNotFull")' = At("abandonNotFull")
        BY <1>4 DEF Locations
      <3> QED
        BY <1>3, <3>1, <3>2 DEF WakeupInv, NoLostWakeup, NoLostSpaceWakeup
    <2>3. StopWakesSleepers'
      BY <1>3, <1>4 DEF WakeupInv, NoLostWakeup, StopWakesSleepers, Locations
    <2> QED BY <1>2, <2>1, <2>2, <2>3 DEF NoLostWakeup
  <1> QED BY <1>5, <1>7

(* A push that finds a Block queue full sleeps: there is no free place.    *)
LEMMA PushSleeps ==
  ASSUME WakeupInv, NEW t \in Producers, pc[t] \in {"idle", "pushWoken"},
         PushBlocks(queue), pc' = [pc EXCEPT ![t] = "pushWait"], UNCHANGED <<queue, last>>
  PROVE  Roles' /\ NoLostWakeup'
  <1>1. TypeOK /\ Roles /\ t \in Threads /\ "pushWait" \in Locations
    BY DEF WakeupInv, Threads, Locations
  <1>2. Roles' BY <1>1 DEF Roles, TypeOK
  <1>3. queue' = queue /\ ~queue.stop /\ Len(queue.items) >= queue.capacity
        /\ Len(queue.items) \in Nat /\ queue.capacity \in Nat
    <2>1. queue.capacity \in Capacities /\ queue.items \in Seq(Nat)
      BY <1>1 DEF TypeOK, Queues
    <2> QED BY <2>1, CapacitiesAssumption, LenProperties DEF PushBlocks, IsFull
  <1>4. \A location \in {"pushWoken", "notifyNotEmpty", "popWoken", "notifyNotFull"} :
          /\ Cardinality(At(location)) \in Nat /\ Cardinality(At(location)') \in Nat
          /\ Cardinality(At(location)')
               = Cardinality(At(location)) + (IF location = "pushWait" THEN 1 ELSE 0)
                                           - (IF location = pc[t] THEN 1 ELSE 0)
    BY <1>1, Counts
  <1>5. At("popWait")' = At("popWait") BY <1>1, OneMoves DEF At, Locations
  <1>6. NoLostItemWakeup'
    <2>1. /\ Cardinality(At("notifyNotEmpty")')  = Cardinality(At("notifyNotEmpty"))
          /\ Cardinality(At("popWoken")') = Cardinality(At("popWoken"))
      BY <1>4
    <2> QED BY <1>3, <1>5, <2>1 DEF WakeupInv, NoLostWakeup, NoLostItemWakeup
  <1>7. NoLostSpaceWakeup'
    <2>1. Cardinality(At("notifyNotFull")') \in Nat /\ Cardinality(At("pushWoken")') \in Nat
      BY <1>4
    <2> QED BY <1>3, <2>1 DEF NoLostSpaceWakeup
  <1>8. StopWakesSleepers' BY <1>3 DEF StopWakesSleepers
  <1> QED BY <1>2, <1>6, <1>7, <1>8 DEF NoLostWakeup

(* A pop takes one item and brings one notification for producers.         *)
LEMMA PopWakes ==
  ASSUME WakeupInv, NEW t \in Consumers, pc[t] \in {"idle", "popWoken"}, PopLocked(t)
  PROVE  Roles' /\ NoLostWakeup'
  <1>1. TypeOK /\ Roles /\ t \in Threads /\ "notifyNotFull" \in Locations
        /\ pc' = [pc EXCEPT ![t] = "notifyNotFull"]
    BY DEF WakeupInv, PopLocked, Threads, Locations
  <1>2. Roles' BY <1>1 DEF Roles, TypeOK
  <1>3. queue'.stop = queue.stop /\ queue'.capacity = queue.capacity
        /\ Len(queue'.items) = Len(queue.items) - 1
        /\ Len(queue.items) \in Nat /\ queue.capacity \in Nat
    <2>1. queue.capacity \in Capacities /\ queue.items \in Seq(Nat) /\ queue.items # <<>>
      BY <1>1 DEF TypeOK, Queues, PopLocked
    <2>2. queue'.stop = queue.stop /\ queue'.capacity = queue.capacity
          /\ queue'.items = Tail(queue.items)
      BY <1>1 DEF PopLocked, AfterPop, TypeOK, Queues
    <2> QED
      BY <2>1, <2>2, HeadTailProperties, CapacitiesAssumption, LenProperties
  <1>4. \A location \in {"pushWoken", "notifyNotEmpty", "popWoken", "notifyNotFull"} :
          /\ Cardinality(At(location)) \in Nat /\ Cardinality(At(location)') \in Nat
          /\ Cardinality(At(location)')
               = Cardinality(At(location)) + (IF location = "notifyNotFull" THEN 1 ELSE 0)
                                           - (IF location = pc[t] THEN 1 ELSE 0)
    BY <1>1, Counts
  <1>5. \A location \in Locations \ {"idle", "notifyNotFull", "popWoken"} :
          At(location)' = At(location)
    BY <1>1, OneMoves DEF At
  <1>6. NoLostItemWakeup'
    <2>1. /\ Cardinality(At("notifyNotEmpty")) \in Nat /\ Cardinality(At("popWoken")) \in Nat
          /\ Cardinality(At("notifyNotEmpty")') = Cardinality(At("notifyNotEmpty"))
          /\ Cardinality(At("popWoken")') >= Cardinality(At("popWoken")) - 1
          /\ Cardinality(At("popWoken")') \in Nat
      BY <1>4
    <2>2. At("popWait")' = At("popWait") BY <1>5 DEF Locations
    <2> QED BY <1>3, <2>1, <2>2 DEF WakeupInv, NoLostWakeup, NoLostItemWakeup
  <1>7. NoLostSpaceWakeup'
    <2>1. /\ Cardinality(At("notifyNotFull")) \in Nat /\ Cardinality(At("pushWoken")) \in Nat
          /\ Cardinality(At("notifyNotFull")') = Cardinality(At("notifyNotFull")) + 1
          /\ Cardinality(At("pushWoken")') = Cardinality(At("pushWoken"))
      BY <1>4
    <2>2. At("pushWait")' = At("pushWait") /\ At("abandonNotFull")' = At("abandonNotFull")
      BY <1>5 DEF Locations
    <2>3. At("pushWait") # {} /\ ~queue.stop /\ At("abandonNotFull") = {} =>
            queue.capacity - Len(queue.items)
              <= Cardinality(At("notifyNotFull")) + Cardinality(At("pushWoken"))
      BY DEF WakeupInv, NoLostWakeup, NoLostSpaceWakeup
    <2> QED BY <1>3, <2>1, <2>2, <2>3 DEF NoLostSpaceWakeup
  <1>8. StopWakesSleepers'
    BY <1>3, <1>5 DEF WakeupInv, NoLostWakeup, StopWakesSleepers, Locations
  <1> QED BY <1>2, <1>6, <1>7, <1>8 DEF NoLostWakeup

(* A pop that finds nothing sleeps, or returns from a stopped queue.       *)
LEMMA PopFindsNothing ==
  ASSUME WakeupInv, NEW t \in Consumers, pc[t] \in {"idle", "popWoken"},
         queue.items = <<>>, UNCHANGED <<queue, last>>,
         \/ ~queue.stop /\ pc' = [pc EXCEPT ![t] = "popWait"]
         \/ pc' = [pc EXCEPT ![t] = "idle"]
  PROVE  Roles' /\ NoLostWakeup'
  <1>1. PICK to \in {"popWait", "idle"} :
          pc' = [pc EXCEPT ![t] = to] /\ (to = "popWait" => ~queue.stop)
    OBVIOUS
  <1>2. TypeOK /\ Roles /\ t \in Threads /\ to \in Locations /\ queue' = queue
    BY DEF WakeupInv, Threads, Locations
  <1>3. Roles' BY <1>1, <1>2 DEF Roles, TypeOK
  <1>4. \A location \in Locations \ {"idle", "popWait", "popWoken"} :
          At(location)' = At(location)
    BY <1>1, <1>2, OneMoves DEF At
  <1>5. TypeOK' BY <1>1, <1>2 DEF TypeOK
  <1>6. Cardinality(At("notifyNotEmpty")') \in Nat /\ Cardinality(At("popWoken")') \in Nat
    <2>1. IsFiniteSet(At("notifyNotEmpty")') /\ IsFiniteSet(At("popWoken")')
      <3>1. At("notifyNotEmpty")' \in SUBSET Producers /\ At("popWoken")' \in SUBSET Consumers
        BY <1>3 DEF At, Roles
      <3> QED BY <3>1, FS_Subset, ThreadsAssumption
    <2> QED BY <2>1, FS_CardinalityType
  <1>7. NoLostItemWakeup'
    <2>1. Len(queue'.items) = 0 BY <1>2
    <2> QED BY <1>6, <2>1 DEF NoLostItemWakeup
  <1>8. NoLostSpaceWakeup'
    BY <1>2, <1>4 DEF WakeupInv, NoLostWakeup, NoLostSpaceWakeup, Locations
  <1>9. StopWakesSleepers'
    <2>1. queue.stop => to = "idle" BY <1>1
    <2>2. ASSUME to = "idle" PROVE At("popWait")' \subseteq At("popWait")
      <3>1. At("popWait")' = At("popWait") \ {t}
        BY <1>1, <1>2, <2>2, OneMoves DEF Locations
      <3> QED BY <3>1
    <2> QED
      BY <1>2, <1>4, <2>1, <2>2 DEF WakeupInv, NoLostWakeup, StopWakesSleepers, Locations
  <1> QED BY <1>3, <1>7, <1>8, <1>9 DEF NoLostWakeup

(* notify_one: the notification that was on its way meets a sleeper, who   *)
(* is then counted as awake, or nobody sleeps.                             *)
LEMMA NotifyOneWakes ==
  ASSUME WakeupInv, NEW t \in Threads,
         NEW from \in {"notifyNotEmpty", "notifyNotFull"}, NEW sleeping, NEW woken,
         pc[t] = from, NotifyOne(t, sleeping, woken),
         \/ from = "notifyNotEmpty" /\ sleeping = "popWait" /\ woken = "popWoken"
         \/ from = "notifyNotFull" /\ sleeping = "pushWait" /\ woken = "pushWoken"
  PROVE  Roles' /\ NoLostWakeup'
  <1>1. TypeOK /\ Roles /\ queue' = queue /\ Len(queue.items) \in Nat
        /\ queue.capacity \in Nat
    <2>1. queue.capacity \in Capacities /\ queue.items \in Seq(Nat)
      BY DEF WakeupInv, TypeOK, Queues
    <2> QED
      BY <2>1, CapacitiesAssumption, LenProperties DEF WakeupInv, NotifyOne
  <1>2. CASE At(sleeping) = {} /\ pc' = [pc EXCEPT ![t] = "idle"]
    <2>1. Roles' BY <1>1, <1>2 DEF Roles, TypeOK
    <2>2. \A location \in Locations \ {"idle", from} : At(location)' = At(location)
      <3>1. TAKE location \in Locations \ {"idle", from}
      <3>2. At(location)' = At(location) \ {t}
        BY <1>1, <1>2, OneMoves DEF Locations
      <3>3. t \notin At(location) BY DEF At
      <3> QED BY <3>2, <3>3
    <2>3. At(sleeping)' = {} BY <1>2, <2>2 DEF Locations
    <2>4. NoLostItemWakeup'
      <3>1. CASE from = "notifyNotEmpty" BY <2>3, <3>1 DEF NoLostItemWakeup
      <3>2. CASE from = "notifyNotFull"
        BY <1>1, <2>2, <3>2 DEF WakeupInv, NoLostWakeup, NoLostItemWakeup, Locations
      <3> QED BY <3>1, <3>2
    <2>5. NoLostSpaceWakeup'
      <3>1. CASE from = "notifyNotFull" BY <2>3, <3>1 DEF NoLostSpaceWakeup
      <3>2. CASE from = "notifyNotEmpty"
        BY <1>1, <2>2, <3>2 DEF WakeupInv, NoLostWakeup, NoLostSpaceWakeup, Locations
      <3> QED BY <3>1, <3>2
    <2>6. StopWakesSleepers'
      BY <1>1, <2>2 DEF WakeupInv, NoLostWakeup, StopWakesSleepers, Locations
    <2> QED BY <2>1, <2>4, <2>5, <2>6 DEF NoLostWakeup
  <1>3. ASSUME NEW w \in At(sleeping), pc' = [pc EXCEPT ![t] = "idle", ![w] = woken]
        PROVE  Roles' /\ NoLostWakeup'
    <2>1. w \in Threads /\ w # t /\ pc[w] = sleeping BY <1>3 DEF At
    <2>2. Roles' BY <1>1, <1>3, <2>1 DEF Roles, TypeOK
    <2>3. /\ At(from)' = At(from) \ {t} /\ t \in At(from)
          /\ At(woken)' = At(woken) \cup {w} /\ w \notin At(woken)
          /\ At(sleeping)' \subseteq At(sleeping)
          /\ \A location \in Locations \ {"idle", from, sleeping, woken} :
               At(location)' = At(location)
      BY <1>1, <1>3, <2>1 DEF At, TypeOK
    <2>4. IsFiniteSet(At(from)) /\ IsFiniteSet(At(woken))
          /\ Cardinality(At(from)) \in Nat /\ Cardinality(At(woken)) \in Nat
      BY <1>1, CountedAreFinite
    <2>5. Cardinality(At(from)') = Cardinality(At(from)) - 1
      BY <2>3, <2>4, Leaves
    <2>6. Cardinality(At(woken)') = Cardinality(At(woken)) + 1
      BY <2>3, <2>4, Arrives
    <2>7. NoLostItemWakeup'
      <3>1. CASE from = "notifyNotEmpty"
        <4>1. sleeping = "popWait" /\ woken = "popWoken" BY <3>1
        <4>2. Cardinality(At("notifyNotEmpty")') + Cardinality(At("popWoken")')
                = Cardinality(At("notifyNotEmpty")) + Cardinality(At("popWoken"))
          BY <2>4, <2>5, <2>6, <3>1, <4>1
        <4>3. At("popWait")' # {} => At("popWait") # {} BY <2>3, <4>1
        <4> QED
          BY <1>1, <4>2, <4>3 DEF WakeupInv, NoLostWakeup, NoLostItemWakeup
      <3>2. CASE from = "notifyNotFull"
        BY <1>1, <2>3, <3>2 DEF WakeupInv, NoLostWakeup, NoLostItemWakeup, Locations
      <3> QED BY <3>1, <3>2
    <2>8. NoLostSpaceWakeup'
      <3>1. CASE from = "notifyNotFull"
        <4>1. sleeping = "pushWait" /\ woken = "pushWoken" BY <3>1
        <4>2. Cardinality(At("notifyNotFull")') + Cardinality(At("pushWoken")')
                = Cardinality(At("notifyNotFull")) + Cardinality(At("pushWoken"))
          BY <2>4, <2>5, <2>6, <3>1, <4>1
        <4>3. At("pushWait")' # {} => At("pushWait") # {} BY <2>3, <4>1
        <4>4. At("abandonNotFull")' = At("abandonNotFull")
          BY <2>3, <3>1, <4>1 DEF Locations
        <4> QED
          BY <1>1, <4>2, <4>3, <4>4 DEF WakeupInv, NoLostWakeup, NoLostSpaceWakeup
      <3>2. CASE from = "notifyNotEmpty"
        BY <1>1, <2>3, <3>2 DEF WakeupInv, NoLostWakeup, NoLostSpaceWakeup, Locations
      <3> QED BY <3>1, <3>2
    <2>9. StopWakesSleepers'
      <3>1. /\ At("popWait")' \subseteq At("popWait") /\ At("pushWait")' \subseteq At("pushWait")
            /\ At("stopNotEmpty")' = At("stopNotEmpty") /\ At("stopNotFull")' = At("stopNotFull")
        BY <2>3 DEF Locations
      <3> QED BY <1>1, <3>1 DEF WakeupInv, NoLostWakeup, StopWakesSleepers
    <2> QED BY <2>2, <2>7, <2>8, <2>9 DEF NoLostWakeup
  <1> QED BY <1>2, <1>3 DEF NotifyOne

(* A call of a controller, and a notify_all: it leaves nobody asleep on    *)
(* its condition variable.                                                 *)
LEMMA ControllerWakes ==
  ASSUME WakeupInv, NEW t \in Threads, RequestStop(t) \/ Abandon(t)
  PROVE  Roles' /\ NoLostWakeup'
  <1>1. PICK to \in {"stopNotEmpty", "abandonNotFull"} :
          /\ pc' = [pc EXCEPT ![t] = to] /\ pc[t] = "idle"
          /\ queue' = IF to = "stopNotEmpty" THEN AfterStop(queue) ELSE AfterAbandon(queue)
    BY DEF RequestStop, Abandon
  <1>2. TypeOK /\ Roles /\ to \in Locations BY DEF WakeupInv, Locations
  <1>3. Roles' BY <1>1, <1>2 DEF Roles, TypeOK
  <1>4. /\ queue'.capacity = queue.capacity
        /\ to = "stopNotEmpty" => queue'.items = queue.items /\ queue'.stop
        /\ to = "abandonNotFull" => queue'.items = <<>> /\ queue'.stop = queue.stop
    BY <1>1, <1>2 DEF AfterStop, AfterAbandon, TypeOK, Queues
  <1>5. \A location \in Locations \ {"idle", to} : At(location)' = At(location)
    <2>1. TAKE location \in Locations \ {"idle", to}
    <2>2. At(location)' = At(location) \ {t} BY <1>1, <1>2, OneMoves
    <2>3. t \notin At(location) BY <1>1 DEF At
    <2> QED BY <2>2, <2>3
  <1>6. At(to)' # {} /\ At(to)' = At(to) \cup {t}
    <2>1. t \in At(to)' BY <1>1, <1>2 DEF At, TypeOK
    <2>2. At(to)' = At(to) \cup {t} BY <1>1, <1>2 DEF At, TypeOK
    <2> QED BY <2>1, <2>2
  <1>7. NoLostItemWakeup'
    <2>1. At("popWait")' = At("popWait") /\ At("notifyNotEmpty")' = At("notifyNotEmpty")
          /\ At("popWoken")' = At("popWoken")
      BY <1>5 DEF Locations
    <2>2. Cardinality(At("notifyNotEmpty")) \in Nat /\ Cardinality(At("popWoken")) \in Nat
      BY <1>2, CountedAreFinite
    <2>3. Len(<<>>) = 0 OBVIOUS
    <2> QED
      BY <1>4, <2>1, <2>2, <2>3 DEF WakeupInv, NoLostWakeup, NoLostItemWakeup
  <1>8. NoLostSpaceWakeup' BY <1>4, <1>6 DEF NoLostSpaceWakeup
  <1>9. StopWakesSleepers'
    <2>1. CASE to = "stopNotEmpty" BY <1>6, <2>1 DEF StopWakesSleepers
    <2>2. CASE to = "abandonNotFull"
      BY <1>4, <1>5, <2>2 DEF WakeupInv, NoLostWakeup, StopWakesSleepers, Locations
    <2> QED BY <2>1, <2>2
  <1> QED BY <1>3, <1>7, <1>8, <1>9 DEF NoLostWakeup

LEMMA StopNotEmptyWakes ==
  ASSUME WakeupInv, NEW t \in Threads, StopNotEmpty(t)
  PROVE  Roles' /\ NoLostWakeup'
  <1>1. TypeOK /\ Roles /\ queue' = queue /\ pc[t] = "stopNotEmpty"
    BY DEF WakeupInv, StopNotEmpty, NotifyAll
  <1>2. \A u \in Threads : pc'[u] = IF u = t THEN "stopNotFull"
                                    ELSE IF pc[u] = "popWait" THEN "popWoken" ELSE pc[u]
    BY DEF StopNotEmpty, NotifyAll
  <1>3. Roles' BY <1>1, <1>2 DEF Roles
  <1>4. At("popWait")' = {} /\ t \in At("stopNotFull")' BY <1>1, <1>2 DEF At
  <1>5. \A location \in {"pushWait", "pushWoken", "notifyNotFull", "abandonNotFull"} :
          At(location)' = At(location)
    BY <1>1, <1>2 DEF At
  <1>6. NoLostItemWakeup' BY <1>4 DEF NoLostItemWakeup
  <1>7. NoLostSpaceWakeup'
    BY <1>1, <1>5 DEF WakeupInv, NoLostWakeup, NoLostSpaceWakeup
  <1>8. StopWakesSleepers' BY <1>4 DEF StopWakesSleepers
  <1> QED BY <1>3, <1>6, <1>7, <1>8 DEF NoLostWakeup

LEMMA NotFullAllWakes ==
  ASSUME WakeupInv, NEW t \in Threads, StopNotFull(t) \/ AbandonNotFull(t)
  PROVE  Roles' /\ NoLostWakeup'
  <1>1. TypeOK /\ Roles /\ queue' = queue /\ pc[t] \in {"stopNotFull", "abandonNotFull"}
    BY DEF WakeupInv, StopNotFull, AbandonNotFull, NotifyAll
  <1>2. \A u \in Threads : pc'[u] = IF u = t THEN "idle"
                                    ELSE IF pc[u] = "pushWait" THEN "pushWoken" ELSE pc[u]
    BY DEF StopNotFull, AbandonNotFull, NotifyAll
  <1>3. Roles' BY <1>1, <1>2 DEF Roles
  <1>4. At("pushWait")' = {} BY <1>1, <1>2 DEF At
  <1>5. \A location \in {"popWait", "popWoken", "notifyNotEmpty", "stopNotEmpty"} :
          At(location)' = At(location)
    BY <1>1, <1>2 DEF At
  <1>6. NoLostItemWakeup'
    BY <1>1, <1>5 DEF WakeupInv, NoLostWakeup, NoLostItemWakeup
  <1>7. NoLostSpaceWakeup' BY <1>4 DEF NoLostSpaceWakeup
  <1>8. StopWakesSleepers'
    BY <1>1, <1>4, <1>5 DEF WakeupInv, NoLostWakeup, StopWakesSleepers
  <1> QED BY <1>3, <1>6, <1>7, <1>8 DEF NoLostWakeup

(* A spurious wake-up makes one sleeper fewer and one thread awake more.   *)
LEMMA SpuriousWakes ==
  ASSUME WakeupInv, NEW t \in Threads, SpuriousWake(t)
  PROVE  Roles' /\ NoLostWakeup'
  <1>1. PICK to \in {"pushWoken", "popWoken"} :
          /\ pc' = [pc EXCEPT ![t] = to]
          /\ pc[t] = IF to = "pushWoken" THEN "pushWait" ELSE "popWait"
    BY DEF SpuriousWake
  <1>2. TypeOK /\ Roles /\ to \in Locations /\ queue' = queue
        /\ Len(queue.items) \in Nat /\ queue.capacity \in Nat
    <2>1. queue.capacity \in Capacities /\ queue.items \in Seq(Nat)
      BY DEF WakeupInv, TypeOK, Queues
    <2> QED
      BY <2>1, CapacitiesAssumption, LenProperties DEF WakeupInv, SpuriousWake, Locations
  <1>3. Roles' BY <1>1, <1>2 DEF Roles, TypeOK
  <1>4. \A location \in Locations \ {to} : At(location)' = At(location) \ {t}
    BY <1>1, <1>2, OneMoves
  <1>5. \A location \in {"pushWoken", "notifyNotEmpty", "popWoken", "notifyNotFull"} :
          /\ Cardinality(At(location)) \in Nat /\ Cardinality(At(location)') \in Nat
          /\ Cardinality(At(location)')
               = Cardinality(At(location)) + (IF location = to THEN 1 ELSE 0)
                                           - (IF location = pc[t] THEN 1 ELSE 0)
    BY <1>1, <1>2, Counts
  <1>6. \A location \in {"pushWoken", "notifyNotEmpty", "popWoken", "notifyNotFull"} :
          /\ Cardinality(At(location)) \in Nat /\ Cardinality(At(location)') \in Nat
          /\ Cardinality(At(location)') >= Cardinality(At(location))
    BY <1>1, <1>5
  <1>7. \A location \in {"stopNotEmpty", "stopNotFull", "abandonNotFull"} :
          At(location)' = At(location)
    <2>1. TAKE location \in {"stopNotEmpty", "stopNotFull", "abandonNotFull"}
    <2>2. At(location)' = At(location) \ {t} BY <1>1, <1>4 DEF Locations
    <2>3. t \notin At(location) BY <1>1 DEF At
    <2> QED BY <2>2, <2>3
  <1>8. At("popWait")' \subseteq At("popWait") /\ At("pushWait")' \subseteq At("pushWait")
    BY <1>1, <1>4 DEF Locations
  <1>9. NoLostItemWakeup'
    <2>1. At("popWait")' # {} => At("popWait") # {} BY <1>8
    <2> QED BY <1>2, <1>6, <2>1 DEF WakeupInv, NoLostWakeup, NoLostItemWakeup
  <1>10. NoLostSpaceWakeup'
    <2>1. At("pushWait")' # {} => At("pushWait") # {} BY <1>8
    <2> QED
      BY <1>2, <1>6, <1>7, <2>1 DEF WakeupInv, NoLostWakeup, NoLostSpaceWakeup
  <1>11. StopWakesSleepers'
    BY <1>2, <1>7, <1>8 DEF WakeupInv, NoLostWakeup, StopWakesSleepers
  <1> QED BY <1>3, <1>9, <1>10, <1>11 DEF NoLostWakeup

LEMMA StepWakes == WakeupInv /\ [Next]_vars => WakeupInv'
  <1> SUFFICES ASSUME WakeupInv, [Next]_vars PROVE Roles' /\ NoLostWakeup'
    BY NextType DEF WakeupInv
  <1>1. CASE UNCHANGED vars
    BY <1>1 DEF vars, WakeupInv, Roles, NoLostWakeup, NoLostItemWakeup,
                NoLostSpaceWakeup, StopWakesSleepers, At
  <1>2. ASSUME NEW t \in Producers, pc[t] \in {"idle", "pushWoken"}, PushOrWait(t)
        PROVE  Roles' /\ NoLostWakeup'
    BY <1>2, PushWakes, PushSleeps DEF PushOrWait
  <1>3. ASSUME NEW t \in Consumers, pc[t] \in {"idle", "popWoken"}, PopOrWait(t)
        PROVE  Roles' /\ NoLostWakeup'
    BY <1>3, PopWakes, PopFindsNothing DEF PopOrWait, PopBlocks
  <1>4. ASSUME NEW t \in Threads, Call(t)
        PROVE  Roles' /\ NoLostWakeup'
    BY <1>2, <1>3, <1>4, PushWakes, PopWakes, ControllerWakes DEF Call, Push, TryPush, Pop, TryPop
  <1>5. ASSUME NEW t \in Threads, Continue(t)
        PROVE  Roles' /\ NoLostWakeup'
    <2>1. CASE ResumePush(t) BY <1>2, <2>1 DEF ResumePush, WakeupInv, Roles
    <2>2. CASE ResumePop(t) BY <1>3, <2>2 DEF ResumePop, WakeupInv, Roles
    <2>3. CASE NotifyNotEmpty(t) \/ NotifyNotFull(t)
      BY <2>3, NotifyOneWakes DEF NotifyNotEmpty, NotifyNotFull
    <2>4. CASE StopNotEmpty(t) \/ StopNotFull(t) \/ AbandonNotFull(t)
      BY <2>4, StopNotEmptyWakes, NotFullAllWakes
    <2> QED BY <1>5, <2>1, <2>2, <2>3, <2>4 DEF Continue
  <1> QED BY <1>1, <1>4, <1>5, SpuriousWakes DEF Next

LEMMA InitWakeups == Init => WakeupInv
  <1> SUFFICES ASSUME Init PROVE Roles /\ NoLostWakeup
    BY InitType DEF WakeupInv
  <1>1. At("popWait") = {} /\ At("pushWait") = {} BY DEF Init, At
  <1>2. ~queue.stop BY DEF Init, NewQueue
  <1>3. Roles BY DEF Init, Roles
  <1> QED
    BY <1>1, <1>2, <1>3 DEF NoLostWakeup, NoLostItemWakeup, NoLostSpaceWakeup, StopWakesSleepers

(* Nobody sleeps in push or pop beside what it waits for: whatever the     *)
(* order of critical sections and notifications, and however many threads  *)
(* there are, every pending item, free place and stop has its wake-up.     *)
THEOREM NoLostWakeupCorrect == Spec => []NoLostWakeup
  <1>1. WakeupInv => NoLostWakeup BY DEF WakeupInv
  <1> QED BY <1>1, InitWakeups, StepWakes, PTL DEF Spec

-----------------------------------------------------------------------------
(* BoundedQueue implements LossyFifo: the set of pending numbers is the    *)
(* range of the item sequence, every critical section is a step of the     *)
(* abstract queue, and everything else a thread does is a stutter.         *)

IInv == TypeOK /\ Accounting /\ InOrder

(* Cardinality means the same inside the instance.                         *)
LEMMA SameCardinality == ASSUME NEW S PROVE Fifo!Cardinality(S) = Cardinality(S)
  BY Zenon DEF Cardinality, Fifo!Cardinality

(* Items that increase strictly are pairwise different: the abstract queue *)
(* holds as many numbers as the sequence has positions.                    *)
LEMMA PendingSize ==
  ASSUME TypeOK, InOrder
  PROVE  /\ IsFiniteSet(Pending)
         /\ Cardinality(Pending) = Len(queue.items)
         /\ Pending \subseteq Nat
  <1> DEFINE n == Len(queue.items)
             f == [i \in 1..n |-> queue.items[i]]
  <1>1. queue.items \in Seq(Nat) /\ n \in Nat BY DEF TypeOK, Queues
  <1>2. \A i \in 1..n : queue.items[i] \in Nat BY <1>1, ElementOfSeq
  <1>3. f \in Surjection(1..n, Pending) BY DEF Surjection, Pending
  <1>4. \A i, j \in 1..n : f[i] = f[j] => i = j
    <2>1. SUFFICES ASSUME NEW i \in 1..n, NEW j \in 1..n, f[i] = f[j], i # j PROVE FALSE
      OBVIOUS
    <2>2. queue.items[i] = queue.items[j] /\ queue.items[i] \in Nat
      BY <1>2, <2>1
    <2>3. i < j \/ j < i BY <1>1, <2>1
    <2>4. queue.items[i] < queue.items[j] \/ queue.items[j] < queue.items[i]
      BY <2>1, <2>3 DEF InOrder
    <2>5. \A a, b \in Nat : a < b => a # b OBVIOUS
    <2> QED BY <1>2, <2>2, <2>4, <2>5
  <1>5. f \in Injection(1..n, Pending)
    BY <1>3, <1>4 DEF Injection, IsInjective, Surjection
  <1>6. ExistsBijection(1..n, Pending)
    BY <1>3, <1>5 DEF ExistsBijection, Bijection
  <1>7. IsFiniteSet(1..n) /\ Cardinality(1..n) = n BY <1>1, FS_Interval
  <1>8. IsFiniteSet(Pending) /\ Cardinality(Pending) = n
    BY <1>6, <1>7, FS_Bijection
  <1> QED BY <1>2, <1>8 DEF Pending

(* The ends of the sequence are the ends of the set.                       *)
LEMMA Ends ==
  ASSUME TypeOK, InOrder, queue.items # <<>>
  PROVE  /\ Fifo!Oldest(Head(queue.items))
         /\ Fifo!Newest(queue.items[Len(queue.items)])
  <1> DEFINE n == Len(queue.items)
  <1>1. queue.items \in Seq(Nat) /\ n \in Nat \ {0}
    BY EmptySeq, LenProperties DEF TypeOK, Queues
  <1>2. 1 \in 1..n /\ n \in 1..n /\ Head(queue.items) = queue.items[1] BY <1>1
  <1>3. \A i \in 1..n : queue.items[i] \in Nat BY <1>1, ElementOfSeq
  <1>4. \A i \in 1..n : /\ queue.items[1] <= queue.items[i]
                        /\ queue.items[i] <= queue.items[n]
    <2>1. TAKE i \in 1..n
    <2>2. (i = 1 \/ 1 < i) /\ (i = n \/ i < n) BY <1>1
    <2>3. queue.items[1] = queue.items[i] \/ queue.items[1] < queue.items[i]
      BY <1>2, <2>2 DEF InOrder
    <2>4. queue.items[i] = queue.items[n] \/ queue.items[i] < queue.items[n]
      BY <1>2, <2>2 DEF InOrder
    <2> QED BY <1>2, <1>3, <2>3, <2>4
  <1> HIDE DEF n
  <1> QED BY <1>2, <1>4 DEF Fifo!Oldest, Fifo!Newest, Pending, n

(* Removing an end of the sequence removes that number and no other.       *)
LEMMA WithoutHead ==
  ASSUME TypeOK, InOrder, queue.items # <<>>, NEW s, s = Tail(queue.items)
  PROVE  {s[i] : i \in 1..Len(s)} = Pending \ {Head(queue.items)}
  <1> DEFINE n == Len(queue.items)
  <1>1. queue.items \in Seq(Nat) /\ n \in Nat \ {0}
    BY EmptySeq, LenProperties DEF TypeOK, Queues
  <1>2. Head(queue.items) = queue.items[1] /\ 1 \in 1..n BY <1>1
  <1>3. Len(s) = n - 1 /\ \A i \in 1..Len(s) : s[i] = queue.items[i + 1]
    BY <1>1, HeadTailProperties
  <1>4. \A i \in 1..n : queue.items[i] \in Nat BY <1>1, ElementOfSeq
  <1>5. ASSUME NEW i \in 1..Len(s)
        PROVE  s[i] \in Pending \ {queue.items[1]}
    <2>1. i + 1 \in 1..n /\ 1 < i + 1 BY <1>1, <1>3
    <2>2. queue.items[1] < queue.items[i + 1] BY <1>2, <2>1 DEF InOrder
    <2> QED BY <1>2, <1>3, <1>4, <2>1, <2>2 DEF Pending
  <1>6. ASSUME NEW i \in 1..n, queue.items[i] # queue.items[1]
        PROVE  queue.items[i] \in {s[k] : k \in 1..Len(s)}
    <2>1. i - 1 \in 1..Len(s) /\ (i - 1) + 1 = i BY <1>1, <1>3, <1>6
    <2> QED BY <1>3, <2>1
  <1> HIDE DEF n
  <1> QED BY <1>2, <1>5, <1>6 DEF Pending, n

LEMMA WithoutLast ==
  ASSUME TypeOK, InOrder, queue.items # <<>>,
         NEW s, s = SubSeq(queue.items, 1, Len(queue.items) - 1)
  PROVE  {s[i] : i \in 1..Len(s)} = Pending \ {queue.items[Len(queue.items)]}
  <1> DEFINE n == Len(queue.items)
  <1>1. queue.items \in Seq(Nat) /\ n \in Nat \ {0}
    BY EmptySeq, LenProperties DEF TypeOK, Queues
  <1>2. n \in 1..n BY <1>1
  <1>3. \A i \in 1..n : queue.items[i] \in Nat BY <1>1, ElementOfSeq
  <1>4. Len(s) = n - 1 /\ \A i \in 1..Len(s) : s[i] = queue.items[i]
    <2>1. \A i \in 1..(n - 1) : queue.items[i] \in Nat BY <1>1, <1>3
    <2> QED BY <1>1, <2>1, SubSeqProperties
  <1>5. ASSUME NEW i \in 1..Len(s)
        PROVE  s[i] \in Pending \ {queue.items[n]}
    <2>1. i \in 1..n /\ i < n BY <1>1, <1>4
    <2>2. queue.items[i] < queue.items[n] BY <1>2, <2>1 DEF InOrder
    <2> QED BY <1>2, <1>3, <1>4, <2>1, <2>2 DEF Pending
  <1>6. ASSUME NEW i \in 1..n, queue.items[i] # queue.items[n]
        PROVE  queue.items[i] \in {s[k] : k \in 1..Len(s)}
    <2>1. i \in 1..Len(s) BY <1>1, <1>4, <1>6
    <2> QED BY <1>4, <2>1
  <1> HIDE DEF n
  <1> QED BY <1>5, <1>6 DEF Pending, n

-----------------------------------------------------------------------------
(* The critical section of a push is Accept, Replace, Refuse or nothing.   *)
LEMMA PushRefines ==
  ASSUME IInv, NEW t \in Threads, PushLocked(t)
  PROVE  [Fifo!Next]_(Fifo!vars)
  <1> DEFINE kept == Kept(queue)
             v == queue.pushed + 1
  <1>1. /\ queue \in Queues /\ queue.items \in Seq(Nat) /\ queue.pushed \in Nat
        /\ Len(queue.items) \in Nat /\ queue.policy \in Policies
        /\ queue.capacity \in Nat \ {0} /\ queue.dropped \in Nat
        /\ queue.abandoned \in Nat /\ queue.stop \in BOOLEAN
    <2>1. queue \in Queues BY DEF IInv, TypeOK
    <2>2. queue.capacity \in Capacities BY <2>1 DEF Queues
    <2>3. queue.items \in Seq(Nat) /\ queue.pushed \in Nat /\ Len(queue.items) \in Nat
      BY <2>1 DEF Queues
    <2>4. queue.policy \in Policies /\ queue.dropped \in Nat
          /\ queue.abandoned \in Nat /\ queue.stop \in BOOLEAN
      BY <2>1 DEF Queues
    <2> QED BY <2>1, <2>2, <2>3, <2>4, CapacitiesAssumption
  <1>2. Len(queue.items) <= queue.capacity
    BY <1>1 DEF IInv, Accounting, TypeOK, Queues
  <1>3. queue' = AfterPush(queue, v) /\ last' = last BY DEF PushLocked
  <1>4. IsFiniteSet(Pending) /\ Cardinality(Pending) = Len(queue.items)
    BY PendingSize DEF IInv
  <1>5. CASE ~Accepts(queue) /\ PushResult(queue) = "Dropped"
    <2>1. ~queue.stop /\ queue.policy = "DropNewest" /\ Len(queue.items) = queue.capacity
      BY <1>1, <1>2, <1>5 DEF PushResult, IsFull
    <2>2. queue' = [queue EXCEPT !.dropped = queue.dropped + 1]
      BY <1>3, <1>5 DEF AfterPush
    <2>3. /\ queue'.dropped = queue.dropped + 1 /\ queue'.items = queue.items
          /\ queue'.capacity = queue.capacity /\ queue'.policy = queue.policy
          /\ queue'.stop = queue.stop /\ queue'.pushed = queue.pushed
          /\ queue'.popped = queue.popped /\ queue'.abandoned = queue.abandoned
      BY <1>1, <2>2 DEF Queues
    <2>4. Pending' = Pending /\ Evictions' = Evictions
      BY <2>1, <2>3 DEF Pending, Evictions, EvictingPolicies
    <2>5. Fifo!Refuse
      BY <1>3, <1>4, <2>1, <2>3, <2>4, SameCardinality DEF Fifo!Refuse
    <2> QED BY <2>5 DEF Fifo!Next
  <1>6. CASE ~Accepts(queue) /\ PushResult(queue) # "Dropped"
    <2>1. queue' = queue /\ last' = last BY <1>3, <1>6 DEF AfterPush
    <2> QED BY <2>1 DEF Fifo!vars, Pending, Evictions
  <1>7. CASE Accepts(queue)
    <2>1. /\ queue'.items = Append(kept, v) /\ queue'.pushed = v
          /\ queue'.capacity = queue.capacity /\ queue'.policy = queue.policy
          /\ queue'.stop = queue.stop /\ queue'.popped = queue.popped
          /\ queue'.abandoned = queue.abandoned
          /\ queue'.dropped = IF PushResult(queue) = "Evicted" THEN queue.dropped + 1
                                                              ELSE queue.dropped
      BY <1>1, <1>3, <1>7 DEF AfterPush, Queues
    <2>2. kept \in Seq(Nat) /\ Len(kept) \in Nat /\ v \in Nat BY <1>1, KeptType
    <2>3. Pending' = {kept[i] : i \in 1..Len(kept)} \cup {v}
      <3>1. /\ Len(queue'.items) = Len(kept) + 1
            /\ \A i \in 1..Len(kept) : queue'.items[i] = kept[i]
            /\ queue'.items[Len(kept) + 1] = v
        BY <2>1, <2>2, AppendProperties
      <3>2. \A i : i \in 1..(Len(kept) + 1) <=> i \in 1..Len(kept) \/ i = Len(kept) + 1
        BY <2>2
      <3>3. Pending' = {queue'.items[i] : i \in 1..(Len(kept) + 1)}
        BY <3>1 DEF Pending
      <3> HIDE DEF kept, v
      <3> QED BY <3>1, <3>2, <3>3
    <2>4. ~queue.stop /\ PushResult(queue) \in {"Pushed", "Evicted"}
      BY <1>7 DEF Accepts, PushResult
    <2>5. CASE PushResult(queue) = "Pushed"
      <3>1. Len(queue.items) < queue.capacity
        BY <1>1, <2>4, <2>5 DEF PushResult, IsFull
      <3>2. kept = queue.items BY <2>5 DEF Kept
      <3>3. Pending' = Pending \cup {v} BY <2>3, <3>2 DEF Pending
      <3>4. Evictions' = Evictions /\ queue'.dropped = queue.dropped
        BY <2>1, <2>5 DEF Evictions
      <3>5. Fifo!Accept
        BY <1>3, <1>4, <2>1, <2>4, <3>1, <3>3, <3>4, SameCardinality DEF Fifo!Accept
      <3> QED BY <3>5 DEF Fifo!Next
    <2>6. CASE PushResult(queue) = "Evicted"
      <3>1. /\ Len(queue.items) = queue.capacity
            /\ queue.policy = "DropOldest" \/ queue.policy = "LatestWins"
        BY <1>1, <1>2, <2>4, <2>6 DEF PushResult, IsFull, Policies
      <3>2. queue.items # <<>> BY <1>1, <3>1
      <3>3. Evictions' = Evictions + 1 /\ Evictions = queue.dropped
        BY <2>1, <2>6, <3>1 DEF Evictions, EvictingPolicies
      <3>4. (queue.abandoned + Evictions)' = (queue.abandoned + Evictions) + 1
        BY <1>1, <2>1, <3>3
      <3>5. queue.policy # "DropNewest" /\ Cardinality(Pending) = queue.capacity
        BY <1>4, <3>1
      <3>6. \E x \in Pending :
              /\ \/ queue.policy = "DropOldest" /\ Fifo!Oldest(x)
                 \/ queue.policy = "LatestWins" /\ Fifo!Newest(x)
              /\ Pending' = (Pending \ {x}) \cup {v}
        <4>1. CASE queue.policy = "DropOldest"
          <5>1. kept = Tail(queue.items) BY <2>6, <4>1 DEF Kept
          <5>2. Pending' = (Pending \ {Head(queue.items)}) \cup {v}
            BY <2>3, <3>2, <5>1, WithoutHead DEF IInv
          <5>3. Fifo!Oldest(Head(queue.items)) /\ Head(queue.items) \in Pending
            BY <3>2, Ends DEF IInv, Fifo!Oldest
          <5> QED BY <4>1, <5>2, <5>3
        <4>2. CASE queue.policy = "LatestWins"
          <5>1. kept = SubSeq(queue.items, 1, Len(queue.items) - 1)
            BY <2>6, <4>2 DEF Kept
          <5>2. Pending' = (Pending \ {queue.items[Len(queue.items)]}) \cup {v}
            BY <2>3, <3>2, <5>1, WithoutLast DEF IInv
          <5>3. /\ Fifo!Newest(queue.items[Len(queue.items)])
                /\ queue.items[Len(queue.items)] \in Pending
            BY <3>2, Ends DEF IInv, Fifo!Newest
          <5> QED BY <4>2, <5>2, <5>3
        <4> QED BY <3>1, <4>1, <4>2
      <3>7. Fifo!Replace
        BY <1>3, <2>1, <2>4, <3>4, <3>5, <3>6, SameCardinality DEF Fifo!Replace
      <3> QED BY <3>7 DEF Fifo!Next
    <2> QED BY <2>4, <2>5, <2>6
  <1> QED BY <1>5, <1>6, <1>7

LEMMA PopRefines ==
  ASSUME IInv, NEW t \in Threads, PopLocked(t)
  PROVE  [Fifo!Next]_(Fifo!vars)
  <1>1. queue.items # <<>> /\ last' = Head(queue.items) BY DEF PopLocked
  <1>2. /\ queue'.items = Tail(queue.items) /\ queue'.popped = queue.popped + 1
        /\ queue'.capacity = queue.capacity /\ queue'.policy = queue.policy
        /\ queue'.pushed = queue.pushed /\ queue'.dropped = queue.dropped
        /\ queue'.abandoned = queue.abandoned /\ queue'.stop = queue.stop
    BY DEF PopLocked, AfterPop, IInv, TypeOK, Queues
  <1>3. Pending' = Pending \ {Head(queue.items)}
    BY <1>1, <1>2, WithoutHead DEF IInv, Pending
  <1>4. Fifo!Oldest(Head(queue.items)) /\ Head(queue.items) \in Pending
    BY <1>1, Ends DEF IInv, Fifo!Oldest
  <1>5. Evictions' = Evictions BY <1>2 DEF Evictions
  <1>6. Fifo!Deliver BY <1>1, <1>2, <1>3, <1>4, <1>5 DEF Fifo!Deliver
  <1> QED BY <1>6 DEF Fifo!Next

LEMMA StopRefines ==
  ASSUME IInv, queue' = AfterStop(queue), last' = last
  PROVE  [Fifo!Next]_(Fifo!vars)
  <1>1. /\ queue'.stop = TRUE /\ queue'.items = queue.items
        /\ queue'.capacity = queue.capacity /\ queue'.policy = queue.policy
        /\ queue'.pushed = queue.pushed /\ queue'.popped = queue.popped
        /\ queue'.dropped = queue.dropped /\ queue'.abandoned = queue.abandoned
    BY DEF AfterStop, IInv, TypeOK, Queues
  <1>2. Pending' = Pending /\ Evictions' = Evictions
    BY <1>1 DEF Pending, Evictions
  <1>3. Fifo!Close BY <1>1, <1>2 DEF Fifo!Close
  <1> QED BY <1>3 DEF Fifo!Next

LEMMA AbandonRefines ==
  ASSUME IInv, queue' = AfterAbandon(queue), last' = last
  PROVE  [Fifo!Next]_(Fifo!vars)
  <1>1. /\ queue'.items = <<>> /\ queue'.abandoned = queue.abandoned + Len(queue.items)
        /\ queue'.capacity = queue.capacity /\ queue'.policy = queue.policy
        /\ queue'.pushed = queue.pushed /\ queue'.popped = queue.popped
        /\ queue'.dropped = queue.dropped /\ queue'.stop = queue.stop
    BY DEF AfterAbandon, IInv, TypeOK, Queues
  <1>2. Pending' = {} /\ Evictions' = Evictions BY <1>1 DEF Pending, Evictions
  <1>3. Cardinality(Pending) = Len(queue.items) BY PendingSize DEF IInv
  <1>4. /\ queue.abandoned \in Nat /\ Len(queue.items) \in Nat
        /\ Evictions \in Nat
    BY DEF IInv, TypeOK, Queues, Evictions
  <1>5. (queue.abandoned + Evictions)' = (queue.abandoned + Evictions) + Cardinality(Pending)
    BY <1>1, <1>2, <1>3, <1>4
  <1>6. Fifo!Discard BY <1>1, <1>2, <1>5, SameCardinality DEF Fifo!Discard
  <1> QED BY <1>6 DEF Fifo!Next

LEMMA StepRefines == IInv /\ [Next]_vars => [Fifo!Next]_(Fifo!vars)
  <1> SUFFICES ASSUME IInv, QueueStep PROVE [Fifo!Next]_(Fifo!vars)
    BY StepCases DEF IInv
  <1>1. CASE UNCHANGED <<queue, last>>
    BY <1>1 DEF Fifo!vars, Pending, Evictions
  <1> QED
    BY <1>1, PushRefines, PopRefines, StopRefines, AbandonRefines DEF QueueStep

LEMMA InitRefines == Init => Fifo!Init
  <1> SUFFICES ASSUME Init PROVE Fifo!Init
    OBVIOUS
  <1>1. PICK capacity \in Capacities, policy \in Policies : queue = NewQueue(capacity, policy)
    BY DEF Init
  <1>2. capacity \in Nat \ {0} /\ policy \in {"Block", "DropNewest", "DropOldest", "LatestWins"}
    BY CapacitiesAssumption DEF Policies
  <1>3. /\ queue.capacity = capacity /\ queue.policy = policy /\ queue.stop = FALSE
        /\ queue.items = <<>> /\ queue.pushed = 0 /\ queue.popped = 0
        /\ queue.dropped = 0 /\ queue.abandoned = 0 /\ last = 0
    BY <1>1 DEF Init, NewQueue
  <1>4. Pending = {} /\ Evictions = 0 BY <1>3 DEF Pending, Evictions
  <1> QED BY <1>2, <1>3, <1>4 DEF Fifo!Init

(* For any number of producers, consumers and controllers, any capacity    *)
(* and any policy, the queue with its mutex, waits and notifications is a  *)
(* lossy FIFO: items leave in acceptance order, the victim of an eviction  *)
(* is the one the policy names, and each loss is counted when it happens.  *)
THEOREM RefinementCorrect == Spec => ImplementsLossyFifo
  <1>1. Init => IInv BY InitType, InitAccounting, InitInOrder DEF IInv
  <1>2. IInv /\ [Next]_vars => IInv'
    BY NextType, StepAccounting, StepInOrder DEF IInv
  <1> QED
    BY <1>1, <1>2, InitRefines, StepRefines, PTL DEF Spec, ImplementsLossyFifo, Fifo!Spec

-----------------------------------------------------------------------------
(* The diagnostic events.                                                  *)

EventRecords == [sequence : Nat, preserve : BOOLEAN]
(* The slot and the hands of a thread.                                     *)
AtMostOne(s) == s = <<>> \/ \E e \in EventRecords : s = <<e>>

(* The record the engine keeps.                                            *)
DiagFits(d) ==
  /\ d = [queue |-> d.queue, slot |-> d.slot, sequence |-> d.sequence,
          lost |-> d.lost, reported |-> d.reported, hasError |-> d.hasError]
  /\ d.queue \in QueueRecords(EventRecords) /\ d.queue.policy = "DropNewest"
  /\ d.sequence \in Nat /\ d.lost \in Nat
  /\ AtMostOne(d.slot)

Holding == {t \in Emitters : carrying[t] # <<>>}

EmittersFit ==
  /\ carrying = [t \in Emitters |-> carrying[t]]
  /\ \A t \in Emitters : AtMostOne(carrying[t])
  /\ overflown \subseteq Holding

PollFits ==
  /\ result \in Seq(Nat) /\ received \in Seq(Nat)
  /\ poll = "idle" => result = <<>>

EventTypes == DiagFits(diag) /\ EmittersFit /\ PollFits

(* In which place a sequence number is.                                    *)
Carried(n) == \E t \in Holding : carrying[t][1].sequence = n
QueuedEvent(n) == \E i \in 1..Len(diag.queue.items) : diag.queue.items[i].sequence = n
InSlot(n) == diag.slot # <<>> /\ diag.slot[1].sequence = n
IsIn(s, n) == \E i \in 1..Len(s) : s[i] = n
Collected(n) == IsIn(result, n)
Received(n) == IsIn(received, n)

(* No number is in one place twice, nor in two places.                     *)
Distinct(s) == \A i, j \in 1..Len(s) : s[i] = s[j] => i = j
CarriedOnce == \A t, u \in Holding : carrying[t][1].sequence = carrying[u][1].sequence => t = u
QueuedOnce ==
  \A i, j \in 1..Len(diag.queue.items) :
    diag.queue.items[i].sequence = diag.queue.items[j].sequence => i = j
InOnePlace(n) ==
  /\ Carried(n) => ~QueuedEvent(n) /\ ~InSlot(n) /\ ~Collected(n) /\ ~Received(n)
  /\ QueuedEvent(n) => ~InSlot(n) /\ ~Collected(n) /\ ~Received(n)
  /\ InSlot(n) => ~Collected(n) /\ ~Received(n)
  /\ Collected(n) => ~Received(n)
  /\ Carried(n) \/ QueuedEvent(n) \/ InSlot(n) \/ Collected(n) \/ Received(n) => n <= diag.sequence
EventsApart ==
  /\ CarriedOnce /\ QueuedOnce /\ Distinct(result) /\ Distinct(received)
  /\ \A n \in Nat : InOnePlace(n)

(* As many numbers were given out as are in a place or counted as lost.    *)
EventsCounted == diag.sequence = Inside + Len(received) + diag.lost

EventInv == EventTypes /\ EventsApart /\ EventsCounted

-----------------------------------------------------------------------------
(* What is in a sequence to which a number, or a sequence, is appended.    *)
LEMMA AppendIsIn ==
  ASSUME NEW s \in Seq(Nat), NEW m \in Nat
  PROVE  /\ Append(s, m) \in Seq(Nat) /\ Len(Append(s, m)) = Len(s) + 1
         /\ \A n \in Nat : IsIn(Append(s, m), n) <=> IsIn(s, n) \/ n = m
         /\ Distinct(s) /\ ~IsIn(s, m) => Distinct(Append(s, m))
<1> DEFINE a == Append(s, m)
<1>1. /\ a \in Seq(Nat) /\ Len(a) = Len(s) + 1 /\ Len(s) \in Nat
      /\ a[Len(s) + 1] = m /\ \A i \in 1..Len(s) : a[i] = s[i]
  OBVIOUS
<1> HIDE DEF a
<1>2. \A i \in 1..Len(a) : i \in 1..Len(s) \/ i = Len(s) + 1 BY <1>1
<1>3. ASSUME NEW n \in Nat PROVE IsIn(a, n) <=> IsIn(s, n) \/ n = m
  <2>1. IsIn(a, n) => IsIn(s, n) \/ n = m BY <1>1, <1>2 DEF IsIn
  <2>2. 1..Len(s) \subseteq 1..Len(a) /\ Len(s) + 1 \in 1..Len(a) BY <1>1
  <2>3. IsIn(s, n) => IsIn(a, n) BY <1>1, <2>2 DEF IsIn
  <2>4. n = m => IsIn(a, n) BY <1>1, <2>2 DEF IsIn
  <2> QED BY <2>1, <2>3, <2>4
<1>4. Distinct(s) /\ ~IsIn(s, m) => Distinct(a)
  BY <1>1, <1>2 DEF Distinct, IsIn
<1> QED BY <1>1, <1>3, <1>4 DEF a

LEMMA ConcatIsIn ==
  ASSUME NEW s \in Seq(Nat), NEW t \in Seq(Nat)
  PROVE  /\ s \o t \in Seq(Nat) /\ Len(s \o t) = Len(s) + Len(t)
         /\ \A n \in Nat : IsIn(s \o t, n) <=> IsIn(s, n) \/ IsIn(t, n)
         /\ Distinct(s) /\ Distinct(t) /\ (\A n \in Nat : ~(IsIn(s, n) /\ IsIn(t, n)))
              => Distinct(s \o t)
<1> DEFINE c == s \o t
<1>1. /\ c \in Seq(Nat) /\ Len(c) = Len(s) + Len(t) /\ Len(s) \in Nat /\ Len(t) \in Nat
      /\ \A i \in 1..Len(c) : c[i] = IF i <= Len(s) THEN s[i] ELSE t[i - Len(s)]
  BY ConcatProperties
<1>2. \A i \in 1..Len(c) : c[i] \in Nat BY <1>1, ElementOfSeq
<1> HIDE DEF c
<1>3. \A i \in 1..Len(s) : i \in 1..Len(c) /\ c[i] = s[i] BY <1>1
<1>4. ASSUME NEW i \in 1..Len(t) PROVE i + Len(s) \in 1..Len(c) /\ c[i + Len(s)] = t[i]
  <2>1. i + Len(s) \in 1..Len(c) /\ ~(i + Len(s) <= Len(s)) /\ (i + Len(s)) - Len(s) = i
    BY <1>1
  <2> QED BY <1>1, <2>1
<1>5. \A i \in 1..Len(c) : \/ i \in 1..Len(s) /\ c[i] = s[i]
                           \/ i - Len(s) \in 1..Len(t) /\ c[i] = t[i - Len(s)]
  BY <1>1
<1>6. ASSUME NEW n \in Nat PROVE IsIn(c, n) <=> IsIn(s, n) \/ IsIn(t, n)
  BY <1>3, <1>4, <1>5 DEF IsIn
<1>7. ASSUME Distinct(s), Distinct(t), \A n \in Nat : ~(IsIn(s, n) /\ IsIn(t, n))
      PROVE Distinct(c)
  <2> SUFFICES ASSUME NEW i \in 1..Len(c), NEW j \in 1..Len(c), c[i] = c[j]
               PROVE i = j
    BY DEF Distinct
  <2>1. ~(i \in 1..Len(s) /\ j - Len(s) \in 1..Len(t) /\ c[i] = s[i] /\ c[j] = t[j - Len(s)])
    BY <1>2, <1>7 DEF IsIn
  <2>2. ~(j \in 1..Len(s) /\ i - Len(s) \in 1..Len(t) /\ c[j] = s[j] /\ c[i] = t[i - Len(s)])
    BY <1>2, <1>7 DEF IsIn
  <2>3. CASE i \in 1..Len(s) /\ c[i] = s[i] /\ j \in 1..Len(s) /\ c[j] = s[j]
    BY <1>7, <2>3 DEF Distinct
  <2>4. CASE /\ i - Len(s) \in 1..Len(t) /\ c[i] = t[i - Len(s)]
             /\ j - Len(s) \in 1..Len(t) /\ c[j] = t[j - Len(s)]
    <3>1. i - Len(s) = j - Len(s) BY <1>7, <2>4 DEF Distinct
    <3> QED BY <1>1, <3>1
  <2> QED BY <1>5, <2>1, <2>2, <2>3, <2>4
<1> QED BY <1>1, <1>6, <1>7 DEF c

(* The threads that hold an event.                                         *)
LEMMA HoldersAreFinite == IsFiniteSet(Holding) /\ Cardinality(Holding) \in Nat
BY EventsAssumption, FS_Subset, FS_CardinalityType DEF Holding

(* A thread that begins to hold an event, and one that has placed it.      *)
LEMMA HoldersGrow ==
  ASSUME NEW t \in Emitters, t \notin Holding, Holding' = Holding \cup {t}
  PROVE  Cardinality(Holding') = Cardinality(Holding) + 1
BY HoldersAreFinite, FS_AddElement

LEMMA HoldersShrink ==
  ASSUME NEW t \in Holding, Holding' = Holding \ {t}
  PROVE  Cardinality(Holding') = Cardinality(Holding) - 1
BY HoldersAreFinite, FS_RemoveElement

(* The slot, and the hands of a thread, have one event at most.            *)
LEMMA OneFits ==
  ASSUME NEW s, AtMostOne(s)
  PROVE  /\ s # <<>> => s = <<s[1]>> /\ s[1] \in EventRecords
         /\ Len(s) = IF s = <<>> THEN 0 ELSE 1
<1>1. CASE s = <<>> BY <1>1
<1>2. CASE \E e \in EventRecords : s = <<e>>
  <2>1. PICK e \in EventRecords : s = <<e>>
    BY <1>2
  <2>2. s # <<>> /\ s[1] = e /\ Len(s) = 1 BY <2>1
  <2> QED BY <2>1, <2>2
<1> QED BY <1>1, <1>2 DEF AtMostOne

(* What the types say of the places.                                       *)
LEMMA EventFields ==
  ASSUME EventTypes
  PROVE  /\ Holding \subseteq Emitters
         /\ \A t \in Holding : carrying[t] = <<carrying[t][1]>> /\ carrying[t][1] \in EventRecords
         /\ diag.queue.items \in Seq(EventRecords) /\ Len(diag.queue.items) \in Nat
         /\ diag.slot # <<>> => diag.slot = <<diag.slot[1]>> /\ diag.slot[1] \in EventRecords
         /\ Len(diag.slot) = IF diag.slot = <<>> THEN 0 ELSE 1
         /\ Len(result) \in Nat /\ Len(received) \in Nat
<1>1. diag.queue.items \in Seq(EventRecords) /\ Len(diag.queue.items) \in Nat
  BY QueueFields DEF EventTypes, DiagFits
<1>2. \A t \in Holding : carrying[t] = <<carrying[t][1]>> /\ carrying[t][1] \in EventRecords
  BY OneFits DEF EventTypes, EmittersFit, Holding
<1>3. /\ diag.slot # <<>> => diag.slot = <<diag.slot[1]>> /\ diag.slot[1] \in EventRecords
      /\ Len(diag.slot) = IF diag.slot = <<>> THEN 0 ELSE 1
  BY OneFits DEF EventTypes, DiagFits
<1> QED BY <1>1, <1>2, <1>3 DEF EventTypes, PollFits, Holding

(* A step changes each number by so much, all in all by nothing.           *)
Changes(h, q, s, r, g, l) ==
  /\ h \in Int /\ q \in Int /\ s \in Int /\ r \in Int /\ g \in Int /\ l \in Int
  /\ Cardinality(Holding') = Cardinality(Holding) + h
  /\ Len(diag'.queue.items) = Len(diag.queue.items) + q
  /\ Len(diag'.slot) = Len(diag.slot) + s
  /\ Len(result') = Len(result) + r
  /\ Len(received') = Len(received) + g
  /\ diag'.lost = diag.lost + l
  /\ diag'.sequence = diag.sequence + h + q + s + r + g + l

LEMMA CountsAgree ==
  ASSUME EventTypes, EventsCounted,
         NEW h, NEW q, NEW s, NEW r, NEW g, NEW l, Changes(h, q, s, r, g, l)
  PROVE  EventsCounted'
<1> DEFINE a == Cardinality(Holding)
           b == Len(diag.queue.items)
           c == Len(diag.slot)
           d == Len(result)
           e == Len(received)
           f == diag.lost
           a2 == Cardinality(Holding')
           b2 == Len(diag'.queue.items)
           c2 == Len(diag'.slot)
           d2 == Len(result')
           e2 == Len(received')
           f2 == diag'.lost
<1>1. a \in Nat /\ b \in Nat /\ c \in Nat /\ d \in Nat /\ e \in Nat /\ f \in Nat
  BY EventFields, HoldersAreFinite DEF EventTypes, DiagFits
<1>2. diag.sequence = a + b + c + d + e + f
  BY DEF EventsCounted, Inside, Holding
<1>3. diag'.sequence = a2 + b2 + c2 + d2 + e2 + f2
  <2>1. /\ a2 = a + h /\ b2 = b + q /\ c2 = c + s /\ d2 = d + r /\ e2 = e + g /\ f2 = f + l
        /\ diag'.sequence = diag.sequence + h + q + s + r + g + l
        /\ h \in Int /\ q \in Int /\ s \in Int /\ r \in Int /\ g \in Int /\ l \in Int
    BY DEF Changes
  <2> HIDE DEF a, b, c, d, e, f, a2, b2, c2, d2, e2, f2
  <2> QED BY <1>1, <1>2, <2>1
<1> QED BY <1>3 DEF EventsCounted, Inside, Holding

-----------------------------------------------------------------------------
(* What each operation does to the record.                                 *)
LEMMA StampDoes ==
  ASSUME NEW d, DiagFits(d), NEW p \in BOOLEAN
  PROVE  /\ DiagFits(Stamp(d, p))
         /\ Stamp(d, p).queue = d.queue /\ Stamp(d, p).slot = d.slot
         /\ Stamp(d, p).lost = d.lost /\ Stamp(d, p).sequence = d.sequence + 1
         /\ Event(d, p) \in EventRecords /\ Event(d, p).sequence = d.sequence + 1
<1> DEFINE s == Stamp(d, p)
<1>1. s = [queue |-> d.queue, slot |-> d.slot, sequence |-> d.sequence + 1,
           lost |-> d.lost, reported |-> d.reported, hasError |-> d.hasError \/ p]
  <2> DEFINE m == [d EXCEPT !.sequence = d.sequence + 1]
  <2>1. m = [queue |-> d.queue, slot |-> d.slot, sequence |-> d.sequence + 1,
             lost |-> d.lost, reported |-> d.reported, hasError |-> d.hasError]
    BY DEF DiagFits
  <2>2. s = [m EXCEPT !.hasError = d.hasError \/ p] BY DEF Stamp
  <2> HIDE DEF m, s
  <2> QED BY <2>1, <2>2
<1>2. Event(d, p) \in EventRecords /\ Event(d, p).sequence = d.sequence + 1
  BY DEF Event, EventRecords, DiagFits
<1> HIDE DEF s
<1>3. /\ s.queue = d.queue /\ s.slot = d.slot /\ s.lost = d.lost
      /\ s.sequence = d.sequence + 1 /\ s.reported = d.reported
      /\ s = [queue |-> s.queue, slot |-> s.slot, sequence |-> s.sequence,
              lost |-> s.lost, reported |-> s.reported, hasError |-> s.hasError]
  BY <1>1
<1>4. DiagFits(s) BY <1>3 DEF DiagFits
<1> QED BY <1>2, <1>3, <1>4 DEF s

LEMMA EnqueueDoes ==
  ASSUME NEW d, DiagFits(d), NEW e \in EventRecords
  PROVE  /\ DiagFits(Enqueue(d, e))
         /\ Enqueue(d, e).slot = d.slot /\ Enqueue(d, e).lost = d.lost
         /\ Enqueue(d, e).sequence = d.sequence
         /\ HasRoom(d) =>
              /\ Len(Enqueue(d, e).queue.items) = Len(d.queue.items) + 1
              /\ \A i \in 1..Len(d.queue.items) : Enqueue(d, e).queue.items[i] = d.queue.items[i]
              /\ Enqueue(d, e).queue.items[Len(d.queue.items) + 1] = e
         /\ ~HasRoom(d) => Enqueue(d, e).queue.items = d.queue.items
<1> DEFINE q == AfterPush(d.queue, e)
           s == Enqueue(d, e)
<1>1. s = [queue |-> q, slot |-> d.slot, sequence |-> d.sequence,
           lost |-> d.lost, reported |-> d.reported, hasError |-> d.hasError]
  BY DEF Enqueue, DiagFits
<1>2. d.queue \in QueueRecords(EventRecords) /\ d.queue.policy = "DropNewest"
  BY DEF DiagFits
<1>3. q \in QueueRecords(EventRecords) /\ q.policy = "DropNewest"
  BY <1>2, QueuePush
<1>4. HasRoom(d) =>
        /\ Len(q.items) = Len(d.queue.items) + 1
        /\ \A i \in 1..Len(d.queue.items) : q.items[i] = d.queue.items[i]
        /\ q.items[Len(d.queue.items) + 1] = e
  BY <1>2, QueuePush, PushedItems DEF HasRoom
<1>5. ~HasRoom(d) => q.items = d.queue.items
  <2>1. PushResult(d.queue) \in {"Stopped", "Pushed", "Full", "Dropped"}
    BY <1>2, PushOutcome DEF EvictingPolicies
  <2> QED BY <1>2, <2>1, QueuePush DEF HasRoom
<1> HIDE DEF q, s
<1>6. /\ s.queue = q /\ s.slot = d.slot /\ s.lost = d.lost
      /\ s.sequence = d.sequence /\ s.reported = d.reported
      /\ s = [queue |-> s.queue, slot |-> s.slot, sequence |-> s.sequence,
              lost |-> s.lost, reported |-> s.reported, hasError |-> s.hasError]
  BY <1>1
<1>7. DiagFits(s) BY <1>3, <1>6 DEF DiagFits
<1> QED BY <1>4, <1>5, <1>6, <1>7 DEF s

LEMMA OverflowDoes ==
  ASSUME NEW d, DiagFits(d), NEW e \in EventRecords
  PROVE  /\ DiagFits(Overflow(d, e))
         /\ Overflow(d, e).queue = d.queue /\ Overflow(d, e).sequence = d.sequence
         /\ e.preserve => /\ Overflow(d, e).slot = <<e>>
                          /\ Overflow(d, e).lost = d.lost + Len(d.slot)
         /\ ~e.preserve => /\ Overflow(d, e).slot = d.slot
                           /\ Overflow(d, e).lost = d.lost + 1
<1> DEFINE s == Overflow(d, e)
<1>1. Len(d.slot) \in Nat /\ d.lost \in Nat BY OneFits DEF DiagFits
<1>2. CASE e.preserve
  <2>1. s = [queue |-> d.queue, slot |-> <<e>>, sequence |-> d.sequence,
             lost |-> d.lost + Len(d.slot), reported |-> d.reported, hasError |-> d.hasError]
    BY <1>2 DEF Overflow, DiagFits
  <2>2. AtMostOne(<<e>>) BY DEF AtMostOne
  <2> HIDE DEF s
  <2>3. /\ s.queue = d.queue /\ s.slot = <<e>> /\ s.lost = d.lost + Len(d.slot)
        /\ s.sequence = d.sequence
        /\ s = [queue |-> s.queue, slot |-> s.slot, sequence |-> s.sequence,
                lost |-> s.lost, reported |-> s.reported, hasError |-> s.hasError]
    BY <2>1
  <2>4. DiagFits(s) BY <1>1, <2>2, <2>3 DEF DiagFits
  <2> QED BY <1>2, <2>3, <2>4 DEF s
<1>3. CASE ~e.preserve
  <2>1. s = [queue |-> d.queue, slot |-> d.slot, sequence |-> d.sequence,
             lost |-> d.lost + 1, reported |-> d.reported, hasError |-> d.hasError]
    BY <1>3 DEF Overflow, DiagFits
  <2> HIDE DEF s
  <2>3. /\ s.queue = d.queue /\ s.slot = d.slot /\ s.lost = d.lost + 1
        /\ s.sequence = d.sequence
        /\ s = [queue |-> s.queue, slot |-> s.slot, sequence |-> s.sequence,
                lost |-> s.lost, reported |-> s.reported, hasError |-> s.hasError]
    BY <2>1
  <2>4. DiagFits(s) BY <1>1, <2>3 DEF DiagFits
  <2> QED BY <1>3, <2>3, <2>4 DEF s
<1> QED BY <1>2, <1>3

LEMMA TakeQueuedDoes ==
  ASSUME NEW d, DiagFits(d), d.queue.items # <<>>
  PROVE  /\ DiagFits(TakeQueued(d))
         /\ TakeQueued(d).slot = d.slot /\ TakeQueued(d).lost = d.lost
         /\ TakeQueued(d).sequence = d.sequence
         /\ Len(TakeQueued(d).queue.items) = Len(d.queue.items) - 1
         /\ 1 \in 1..Len(d.queue.items) /\ d.queue.items[1] \in EventRecords
         /\ \A i \in 1..Len(TakeQueued(d).queue.items) :
              i + 1 \in 1..Len(d.queue.items) /\ TakeQueued(d).queue.items[i] = d.queue.items[i + 1]
<1> DEFINE q == AfterPop(d.queue)
           s == TakeQueued(d)
<1>1. s = [queue |-> q, slot |-> d.slot, sequence |-> d.sequence,
           lost |-> d.lost, reported |-> d.reported, hasError |-> d.hasError]
  BY DEF TakeQueued, DiagFits
<1>2. d.queue \in QueueRecords(EventRecords) /\ d.queue.policy = "DropNewest"
  BY DEF DiagFits
<1>3. /\ q \in QueueRecords(EventRecords) /\ q.policy = "DropNewest"
      /\ Len(q.items) = Len(d.queue.items) - 1 /\ Head(d.queue.items) \in EventRecords
  BY <1>2, QueuePop
<1>4. /\ Head(d.queue.items) = d.queue.items[1] /\ 1 \in 1..Len(d.queue.items)
      /\ \A i \in 1..Len(q.items) :
           i + 1 \in 1..Len(d.queue.items) /\ q.items[i] = d.queue.items[i + 1]
  BY <1>2, PoppedItems
<1> HIDE DEF q, s
<1>5. /\ s.queue = q /\ s.slot = d.slot /\ s.lost = d.lost
      /\ s.sequence = d.sequence /\ s.reported = d.reported
      /\ s = [queue |-> s.queue, slot |-> s.slot, sequence |-> s.sequence,
              lost |-> s.lost, reported |-> s.reported, hasError |-> s.hasError]
  BY <1>1
<1>6. DiagFits(s) BY <1>3, <1>5 DEF DiagFits
<1> QED BY <1>3, <1>4, <1>5, <1>6 DEF s

LEMMA TakeSlotDoes ==
  ASSUME NEW d, DiagFits(d)
  PROVE  /\ DiagFits(TakeSlot(d))
         /\ TakeSlot(d).queue = d.queue /\ TakeSlot(d).lost = d.lost
         /\ TakeSlot(d).sequence = d.sequence /\ TakeSlot(d).slot = <<>>
<1> DEFINE s == TakeSlot(d)
<1>1. s = [queue |-> d.queue, slot |-> <<>>, sequence |-> d.sequence,
           lost |-> d.lost, reported |-> d.reported, hasError |-> d.hasError]
  BY DEF TakeSlot, DiagFits
<1> HIDE DEF s
<1>2. /\ s.queue = d.queue /\ s.slot = <<>> /\ s.lost = d.lost
      /\ s.sequence = d.sequence /\ s.reported = d.reported
      /\ s = [queue |-> s.queue, slot |-> s.slot, sequence |-> s.sequence,
              lost |-> s.lost, reported |-> s.reported, hasError |-> s.hasError]
  BY <1>1
<1>3. DiagFits(s) BY <1>2 DEF DiagFits, AtMostOne
<1> QED BY <1>2, <1>3 DEF s

LEMMA ReportLossDoes ==
  ASSUME NEW d, DiagFits(d)
  PROVE  /\ DiagFits(ReportLoss(d))
         /\ ReportLoss(d).queue = d.queue /\ ReportLoss(d).lost = d.lost
         /\ ReportLoss(d).sequence = d.sequence + 1 /\ ReportLoss(d).slot = d.slot
<1> DEFINE s == ReportLoss(d)
<1>1. s = [queue |-> d.queue, slot |-> d.slot, sequence |-> d.sequence + 1,
           lost |-> d.lost, reported |-> d.lost, hasError |-> d.hasError]
  <2> DEFINE m == [d EXCEPT !.reported = d.lost]
  <2>1. m = [queue |-> d.queue, slot |-> d.slot, sequence |-> d.sequence,
             lost |-> d.lost, reported |-> d.lost, hasError |-> d.hasError]
    BY DEF DiagFits
  <2>2. s = [m EXCEPT !.sequence = d.sequence + 1] BY DEF ReportLoss
  <2> HIDE DEF m, s
  <2> QED BY <2>1, <2>2
<1> HIDE DEF s
<1>2. /\ s.queue = d.queue /\ s.slot = d.slot /\ s.lost = d.lost
      /\ s.sequence = d.sequence + 1
      /\ s = [queue |-> s.queue, slot |-> s.slot, sequence |-> s.sequence,
              lost |-> s.lost, reported |-> s.reported, hasError |-> s.hasError]
  BY <1>1
<1>3. DiagFits(s) BY <1>2 DEF DiagFits
<1> QED BY <1>2, <1>3 DEF s

-----------------------------------------------------------------------------
(* A step that gives out or moves one number, m, and keeps all the others  *)
(* where they are.                                                         *)
LEMMA PlacesAgree ==
  ASSUME EventsApart, NEW m \in Nat,
         diag.sequence \in Nat, diag'.sequence \in Nat, diag.sequence <= diag'.sequence,
         CarriedOnce', QueuedOnce', Distinct(result'), Distinct(received'),
         \A n \in Nat : n # m => /\ Carried(n)' => Carried(n)
                                 /\ QueuedEvent(n)' => QueuedEvent(n)
                                 /\ InSlot(n)' => InSlot(n)
                                 /\ Collected(n)' => Collected(n)
                                 /\ Received(n)' => Received(n),
         InOnePlace(m)'
  PROVE  EventsApart'
<1>1. ASSUME NEW n \in Nat, n # m PROVE InOnePlace(n)'
  BY <1>1 DEF EventsApart, InOnePlace
<1> QED BY <1>1 DEF EventsApart

(* The record alone has changed, or the emitters.                          *)
LEMMA EmittersStay == ASSUME EmittersFit, UNCHANGED <<carrying, overflown>> PROVE EmittersFit'
BY DEF EmittersFit, Holding

LEMMA CarriedStays ==
  ASSUME UNCHANGED carrying
  PROVE  /\ Holding' = Holding /\ (CarriedOnce => CarriedOnce')
         /\ \A n \in Nat : Carried(n)' <=> Carried(n)
BY DEF Holding, CarriedOnce, Carried

LEMMA QueuedStays ==
  ASSUME diag'.queue.items = diag.queue.items
  PROVE  /\ QueuedOnce => QueuedOnce'
         /\ \A n \in Nat : QueuedEvent(n)' <=> QueuedEvent(n)
BY DEF QueuedOnce, QueuedEvent

LEMMA SlotStays ==
  ASSUME diag'.slot = diag.slot
  PROVE  \A n \in Nat : InSlot(n)' <=> InSlot(n)
BY DEF InSlot

LEMMA PollStays ==
  ASSUME UNCHANGED <<result, received>>
  PROVE  /\ Distinct(result) => Distinct(result')
         /\ Distinct(received) => Distinct(received')
         /\ \A n \in Nat : (Collected(n)' <=> Collected(n)) /\ (Received(n)' <=> Received(n))
BY DEF Distinct, Collected, Received

(* The event that a thread holds is in its hands only.                     *)
LEMMA CarriedNumber ==
  ASSUME EventTypes, EventsApart, NEW t \in Holding, NEW m, m = carrying[t][1].sequence
  PROVE  /\ carrying[t][1] \in EventRecords /\ m \in Nat
         /\ m <= diag.sequence
         /\ Carried(m) /\ ~QueuedEvent(m) /\ ~InSlot(m) /\ ~Collected(m) /\ ~Received(m)
<1>1. carrying[t][1] \in EventRecords /\ carrying[t][1].sequence \in Nat
  BY EventFields DEF EventRecords
<1>2. Carried(m) BY DEF Carried
<1> QED BY <1>1, <1>2 DEF EventsApart, InOnePlace

(* A thread that has placed its event has nothing in its hands.            *)
LEMMA HandsEmptied ==
  ASSUME EventTypes, EventsApart, NEW t \in Holding, NEW m, m = carrying[t][1].sequence,
         carrying' = [carrying EXCEPT ![t] = <<>>], overflown' \subseteq overflown \ {t}
  PROVE  /\ EmittersFit' /\ CarriedOnce'
         /\ Cardinality(Holding') = Cardinality(Holding) + (0 - 1)
         /\ \A n \in Nat : Carried(n)' => Carried(n)
         /\ ~Carried(m)'
<1>1. /\ carrying = [u \in Emitters |-> carrying[u]] /\ t \in Emitters
      /\ \A u \in Emitters : AtMostOne(carrying[u])
      /\ overflown \subseteq Holding
  BY DEF EventTypes, EmittersFit, Holding
<1>2. /\ carrying' = [u \in Emitters |-> carrying'[u]] /\ carrying'[t] = <<>>
      /\ \A u \in Emitters : u # t => carrying'[u] = carrying[u]
  BY <1>1
<1>3. Holding' = Holding \ {t} BY <1>1, <1>2 DEF Holding
<1>4. \A u \in Holding' : u \in Holding /\ u # t /\ carrying'[u] = carrying[u]
  BY <1>2, <1>3 DEF Holding
<1>5. EmittersFit'
  <2>1. \A u \in Emitters : AtMostOne(carrying'[u]) BY <1>1, <1>2 DEF AtMostOne
  <2>2. overflown' \subseteq Holding' BY <1>1, <1>3
  <2> QED BY <1>2, <2>1, <2>2 DEF EmittersFit
<1>6. Cardinality(Holding') = Cardinality(Holding) + (0 - 1)
  <2>1. Cardinality(Holding') = Cardinality(Holding) - 1 /\ Cardinality(Holding) \in Nat
    BY <1>3, HoldersShrink, HoldersAreFinite
  <2> QED BY <2>1
<1>7. CarriedOnce' BY <1>4 DEF CarriedOnce, EventsApart
<1>8. \A n \in Nat : Carried(n)' => Carried(n) BY <1>4 DEF Carried
<1>9. ~Carried(m)' BY <1>4 DEF Carried, CarriedOnce, EventsApart
<1> QED BY <1>5, <1>6, <1>7, <1>8, <1>9

-----------------------------------------------------------------------------
(* emit_event(): the number, the queue, the slot.                          *)
LEMMA BeginKeeps ==
  ASSUME EventInv, NEW t \in Emitters, Begin(t)
  PROVE  EventInv'
<1>1. PICK preserve \in BOOLEAN :
        /\ carrying' = [carrying EXCEPT ![t] = <<Event(diag, preserve)>>]
        /\ diag' = Stamp(diag, preserve)
  BY DEF Begin
<1> DEFINE e == Event(diag, preserve)
<1>0. PICK m : m = diag.sequence + 1
  OBVIOUS
<1>2. /\ EventTypes /\ EventsApart /\ EventsCounted /\ DiagFits(diag)
      /\ carrying[t] = <<>> /\ diag.sequence \in Nat
      /\ UNCHANGED <<overflown, poll, result, limit, received>>
  BY DEF EventInv, Begin, EventTypes, DiagFits
<1>3. /\ e \in EventRecords /\ e.sequence = m
      /\ diag'.queue = diag.queue /\ diag'.slot = diag.slot /\ diag'.lost = diag.lost
      /\ diag'.sequence = m /\ DiagFits(diag')
  BY <1>0, <1>1, <1>2, StampDoes
<1>4. /\ carrying = [u \in Emitters |-> carrying[u]]
      /\ \A u \in Emitters : AtMostOne(carrying[u])
      /\ overflown \subseteq Holding
  BY <1>2 DEF EventTypes, EmittersFit
<1>5. /\ carrying' = [u \in Emitters |-> carrying'[u]] /\ carrying'[t] = <<e>>
      /\ \A u \in Emitters : u # t => carrying'[u] = carrying[u]
  BY <1>1, <1>4
<1> HIDE DEF e
<1>6. Holding' = Holding \cup {t} /\ t \notin Holding BY <1>2, <1>5 DEF Holding
<1>7. EventTypes'
  <2>1. \A u \in Emitters : AtMostOne(carrying'[u])
    BY <1>3, <1>4, <1>5 DEF AtMostOne
  <2>2. EmittersFit' BY <1>2, <1>4, <1>5, <1>6, <2>1 DEF EmittersFit
  <2>3. PollFits' BY <1>2 DEF PollFits, EventTypes
  <2> QED BY <1>3, <2>2, <2>3 DEF EventTypes
<1>8. EventsCounted'
  <2>1. Cardinality(Holding') = Cardinality(Holding) + 1 BY <1>6, HoldersGrow
  <2>2. Changes(1, 0, 0, 0, 0, 0)
    BY <1>0, <1>2, <1>3, <2>1, EventFields DEF DiagFits, Changes
  <2> QED BY <1>2, <2>2, CountsAgree
<1>9. \A u \in Holding : carrying[u][1].sequence \in Nat /\ carrying[u][1].sequence # m
  BY <1>0, <1>2, CarriedNumber
<1>10. /\ carrying'[t][1].sequence = m
       /\ \A u \in Holding' : u = t \/ (u \in Holding /\ carrying'[u] = carrying[u])
  BY <1>3, <1>5, <1>6 DEF Holding
<1>11. CarriedOnce' BY <1>2, <1>9, <1>10 DEF CarriedOnce, EventsApart
<1>12. \A n \in Nat : n # m => (Carried(n)' => Carried(n)) BY <1>10 DEF Carried
<1>13. m \in Nat /\ ~QueuedEvent(m) /\ ~InSlot(m) /\ ~Collected(m) /\ ~Received(m)
  BY <1>0, <1>2 DEF EventsApart, InOnePlace
<1>14. EventsApart'
  <2>1. InOnePlace(m)'
    BY <1>2, <1>3, <1>13, QueuedStays, SlotStays, PollStays DEF InOnePlace
  <2>2. diag.sequence <= diag'.sequence /\ diag'.sequence \in Nat
    BY <1>0, <1>2, <1>3
  <2>3. QueuedOnce' /\ Distinct(result') /\ Distinct(received')
    BY <1>2, <1>3, QueuedStays, PollStays DEF EventsApart
  <2> QED BY <1>2, <1>3, <1>11, <1>12, <1>13, <2>1, <2>2, <2>3, PlacesAgree, QueuedStays,
             SlotStays, PollStays
<1> QED BY <1>7, <1>8, <1>14 DEF EventInv

LEMMA TryPushEventKeeps ==
  ASSUME EventInv, NEW t \in Emitters, TryPushEvent(t)
  PROVE  EventInv'
<1>0. PICK e, m : e = carrying[t][1] /\ m = carrying[t][1].sequence
  OBVIOUS
<1>1. /\ EventTypes /\ EventsApart /\ EventsCounted /\ DiagFits(diag) /\ EmittersFit /\ PollFits
      /\ t \in Holding /\ t \notin overflown /\ diag' = Enqueue(diag, e)
      /\ UNCHANGED <<poll, result, limit, received>>
  BY <1>0 DEF EventInv, EventTypes, TryPushEvent, Holding
<1>2. e \in EventRecords /\ e.sequence = m /\ m \in Nat /\ m <= diag.sequence
      /\ Carried(m) /\ ~QueuedEvent(m) /\ ~InSlot(m) /\ ~Collected(m) /\ ~Received(m)
  BY <1>0, <1>1, CarriedNumber
<1>3. /\ DiagFits(diag') /\ diag'.slot = diag.slot /\ diag'.lost = diag.lost
      /\ diag'.sequence = diag.sequence /\ diag.sequence \in Nat
  BY <1>1, <1>2, EnqueueDoes DEF DiagFits
<1>4. PollFits' BY <1>1 DEF PollFits
<1>5. /\ Len(diag.queue.items) \in Nat /\ Len(diag.slot) \in Nat /\ Len(result) \in Nat
      /\ Len(received) \in Nat /\ diag.lost \in Nat /\ Cardinality(Holding) \in Nat
  BY <1>1, EventFields, HoldersAreFinite DEF DiagFits
<1>6. CASE HasRoom(diag)
  <2>1. carrying' = [carrying EXCEPT ![t] = <<>>] /\ overflown' = overflown
    BY <1>6 DEF TryPushEvent
  <2>2. /\ EmittersFit' /\ CarriedOnce' /\ Cardinality(Holding') = Cardinality(Holding) + (0 - 1)
        /\ \A n \in Nat : Carried(n)' => Carried(n)
        /\ ~Carried(m)'
    BY <1>0, <1>1, <2>1, HandsEmptied
  <2> DEFINE old == diag.queue.items
             new == diag'.queue.items
  <2>3. /\ Len(new) = Len(old) + 1 /\ new[Len(old) + 1] = e
        /\ \A i \in 1..Len(old) : new[i] = old[i]
    BY <1>1, <1>2, <1>6, EnqueueDoes
  <2>4. \A i \in 1..Len(old) : old[i].sequence # m BY <1>2 DEF QueuedEvent
  <2>5. \A i \in 1..Len(new) : (i \in 1..Len(old) /\ new[i] = old[i]) \/ (i = Len(old) + 1 /\ new[i] = e)
    BY <1>5, <2>3
  <2>6. \A i, j \in 1..Len(old) : old[i].sequence = old[j].sequence => i = j
    BY <1>1 DEF EventsApart, QueuedOnce
  <2>7. \A n \in Nat : n # m => (QueuedEvent(n)' => QueuedEvent(n))
    BY <1>2, <2>5 DEF QueuedEvent
  <2>8. QueuedOnce'
    <3>1. \A i, j \in 1..Len(new) : new[i].sequence = new[j].sequence => i = j
      <4> HIDE DEF old, new
      <4> QED BY <1>2, <2>4, <2>5, <2>6
    <3> QED BY <3>1 DEF QueuedOnce
  <2>9. EventsCounted'
    <3>1. Len(diag'.queue.items) = Len(diag.queue.items) + 1 BY <2>3
    <3>2. Changes(0 - 1, 1, 0, 0, 0, 0)
      BY <1>1, <1>3, <1>5, <2>2, <3>1 DEF Changes
    <3> QED BY <1>1, <3>2, CountsAgree
  <2>10. EventsApart'
    <3>1. InOnePlace(m)'
      BY <1>1, <1>2, <1>3, <2>2, SlotStays, PollStays DEF InOnePlace
    <3>2. Distinct(result') /\ Distinct(received')
      BY <1>1, PollStays DEF EventsApart
    <3> QED BY <1>1, <1>2, <1>3, <2>2, <2>7, <2>8, <3>1, <3>2, PlacesAgree, SlotStays, PollStays
  <2> QED BY <1>3, <1>4, <2>2, <2>9, <2>10 DEF EventInv, EventTypes
<1>7. CASE ~HasRoom(diag)
  <2>1. overflown' = overflown \cup {t} /\ carrying' = carrying
    BY <1>7 DEF TryPushEvent
  <2>2. diag'.queue.items = diag.queue.items BY <1>1, <1>2, <1>7, EnqueueDoes
  <2>3. EmittersFit' BY <1>1, <2>1 DEF EmittersFit, Holding
  <2>4. EventsCounted'
    <3>1. Holding' = Holding /\ Inside' = Inside
      BY <1>1, <1>3, <2>1, <2>2 DEF Holding, Inside
    <3> QED BY <1>1, <1>3, <3>1 DEF EventsCounted
  <2>5. EventsApart'
    <3>1. InOnePlace(m)'
      BY <1>1, <1>2, <1>3, <2>1, <2>2, CarriedStays, QueuedStays, SlotStays, PollStays
         DEF InOnePlace
    <3>2. CarriedOnce' /\ QueuedOnce' /\ Distinct(result') /\ Distinct(received')
      BY <1>1, <2>1, <2>2, CarriedStays, QueuedStays, PollStays DEF EventsApart
    <3> QED BY <1>1, <1>2, <1>3, <2>1, <2>2, <3>1, <3>2, PlacesAgree, CarriedStays, QueuedStays,
               SlotStays, PollStays
  <2> QED BY <1>3, <1>4, <2>3, <2>4, <2>5 DEF EventInv, EventTypes
<1> QED BY <1>6, <1>7

LEMMA PlaceInSlotKeeps ==
  ASSUME EventInv, NEW t \in Emitters, PlaceInSlot(t)
  PROVE  EventInv'
<1>0. PICK e, m : e = carrying[t][1] /\ m = carrying[t][1].sequence
  OBVIOUS
<1>1. /\ EventTypes /\ EventsApart /\ EventsCounted /\ DiagFits(diag) /\ EmittersFit /\ PollFits
      /\ t \in Holding /\ diag' = Overflow(diag, e)
      /\ carrying' = [carrying EXCEPT ![t] = <<>>] /\ overflown' = overflown \ {t}
      /\ UNCHANGED <<poll, result, limit, received>>
  BY <1>0 DEF EventInv, EventTypes, PlaceInSlot, EmittersFit
<1>2. e \in EventRecords /\ e.sequence = m /\ m \in Nat /\ m <= diag.sequence
      /\ Carried(m) /\ ~QueuedEvent(m) /\ ~InSlot(m) /\ ~Collected(m) /\ ~Received(m)
  BY <1>0, <1>1, CarriedNumber
<1>3. /\ DiagFits(diag') /\ diag'.queue = diag.queue /\ diag'.sequence = diag.sequence
      /\ diag.sequence \in Nat
      /\ e.preserve => diag'.slot = <<e>> /\ diag'.lost = diag.lost + Len(diag.slot)
      /\ ~e.preserve => diag'.slot = diag.slot /\ diag'.lost = diag.lost + 1
  BY <1>1, <1>2, OverflowDoes DEF DiagFits
<1>4. PollFits' BY <1>1 DEF PollFits
<1>5. /\ Len(diag.queue.items) \in Nat /\ Len(diag.slot) \in Nat /\ Len(result) \in Nat
      /\ Len(received) \in Nat /\ diag.lost \in Nat /\ Cardinality(Holding) \in Nat
  BY <1>1, EventFields, HoldersAreFinite DEF DiagFits
<1>6. /\ EmittersFit' /\ CarriedOnce' /\ Cardinality(Holding') = Cardinality(Holding) + (0 - 1)
      /\ \A n \in Nat : Carried(n)' => Carried(n)
      /\ ~Carried(m)'
  BY <1>0, <1>1, HandsEmptied
<1>7. \A n \in Nat : n # m => (InSlot(n)' => InSlot(n))
  <2>1. CASE e.preserve
    <3>1. diag'.slot[1] = e BY <1>3, <2>1
    <3> QED BY <1>2, <3>1 DEF InSlot
  <2>2. CASE ~e.preserve BY <1>3, <2>2 DEF InSlot
  <2> QED BY <2>1, <2>2
<1>8. EventsCounted'
  <2>1. /\ Len(diag'.queue.items) = Len(diag.queue.items) + 0
        /\ Len(result') = Len(result) + 0 /\ Len(received') = Len(received) + 0
    BY <1>1, <1>3, <1>5
  <2>2. CASE e.preserve
    <3> DEFINE k == Len(diag.slot)
    <3>0. Len(diag'.slot) = 1
      <4>1. diag'.slot = <<e>> BY <1>3, <2>2
      <4> QED BY <4>1
    <3>1. /\ Len(diag'.slot) = Len(diag.slot) + (1 - k) /\ diag'.lost = diag.lost + k
          /\ k \in Int
      BY <1>3, <1>5, <2>2, <3>0
    <3> HIDE DEF k
    <3>2. diag'.sequence = diag.sequence + (0 - 1) + 0 + (1 - k) + 0 + 0 + k
      BY <1>3, <3>1
    <3>3. Changes(0 - 1, 0, 1 - k, 0, 0, k)
      BY <1>6, <2>1, <3>1, <3>2 DEF Changes
    <3> QED BY <1>1, <3>3, CountsAgree
  <2>3. CASE ~e.preserve
    <3>1. Changes(0 - 1, 0, 0, 0, 0, 1)
      BY <1>3, <1>5, <1>6, <2>1, <2>3 DEF Changes
    <3> QED BY <1>1, <3>1, CountsAgree
  <2> QED BY <2>2, <2>3
<1>9. EventsApart'
  <2>1. InOnePlace(m)'
    BY <1>1, <1>2, <1>3, <1>6, QueuedStays, PollStays DEF InOnePlace
  <2>2. QueuedOnce' /\ Distinct(result') /\ Distinct(received')
    BY <1>1, <1>3, QueuedStays, PollStays DEF EventsApart
  <2> QED BY <1>1, <1>2, <1>3, <1>6, <1>7, <2>1, <2>2, PlacesAgree, QueuedStays, PollStays
<1> QED BY <1>3, <1>4, <1>6, <1>8, <1>9 DEF EventInv, EventTypes

(* A step of the poll that takes nothing.                                  *)
LEMMA OnlyPollMoves ==
  ASSUME EventTypes, EventsApart, EventsCounted, poll' # "idle",
         UNCHANGED <<diag, carrying, overflown, result, received>>
  PROVE  EventInv'
<1>1. EventTypes' /\ EventsApart' /\ EventsCounted'
  BY DEF EventTypes, DiagFits, EmittersFit, PollFits, Holding, EventsApart, CarriedOnce,
     QueuedOnce, InOnePlace, Carried, QueuedEvent, InSlot, Collected, Received,
     EventsCounted, Inside
<1> QED BY <1>1 DEF EventInv

(* poll_events(): its begin, the queue, the slot, the notice of the loss.  *)
LEMMA StartPollKeeps ==
  ASSUME EventInv, StartPoll
  PROVE  EventInv'
<1>1. /\ EventTypes /\ EventsApart /\ EventsCounted /\ result' = result
      /\ UNCHANGED <<diag, carrying, overflown, received>> /\ poll' = "queue"
  BY DEF EventInv, EventTypes, PollFits, StartPoll
<1>2. EventTypes' /\ EventsApart' /\ EventsCounted'
  BY <1>1 DEF EventTypes, DiagFits, EmittersFit, PollFits, Holding, EventsApart, CarriedOnce,
     QueuedOnce, InOnePlace, Carried, QueuedEvent, InSlot, Collected, Received,
     EventsCounted, Inside
<1> QED BY <1>2 DEF EventInv

(* The poll takes event m from the queue or the slot into its batch.       *)
LEMMA Collects ==
  ASSUME EventTypes, NEW m \in Nat, result' = Append(result, m), received' = received,
         poll' # "idle"
  PROVE  /\ PollFits' /\ Len(result') = Len(result) + 1
         /\ Distinct(result) /\ ~Collected(m) => Distinct(result')
         /\ Distinct(received) => Distinct(received')
         /\ \A n \in Nat : /\ Collected(n)' <=> Collected(n) \/ n = m
                           /\ Received(n)' <=> Received(n)
<1>1. result \in Seq(Nat) /\ received \in Seq(Nat) BY DEF EventTypes, PollFits
<1>2. /\ result' \in Seq(Nat) /\ Len(result') = Len(result) + 1
      /\ \A n \in Nat : IsIn(result', n) <=> IsIn(result, n) \/ n = m
      /\ Distinct(result) /\ ~IsIn(result, m) => Distinct(result')
  BY <1>1, AppendIsIn
<1> QED BY <1>1, <1>2 DEF PollFits, Collected, Received, Distinct

LEMMA PollQueueKeeps ==
  ASSUME EventInv, PollQueue
  PROVE  EventInv'
<1>1. /\ EventTypes /\ EventsApart /\ EventsCounted /\ DiagFits(diag) /\ EmittersFit
      /\ UNCHANGED <<carrying, overflown, received>> /\ poll = "queue"
  BY DEF EventInv, EventTypes, PollQueue
<1>2. CASE HasSpace /\ diag.queue.items # <<>>
  <2>0. PICK e, m : e = diag.queue.items[1] /\ m = diag.queue.items[1].sequence
    OBVIOUS
  <2> DEFINE old == diag.queue.items
             new == diag'.queue.items
  <2>1. result' = Append(result, m) /\ diag' = TakeQueued(diag) /\ poll' = poll
    BY <1>2, <2>0 DEF PollQueue
  <2>2. /\ DiagFits(diag') /\ diag'.slot = diag.slot /\ diag'.lost = diag.lost
        /\ diag'.sequence = diag.sequence /\ diag.sequence \in Nat
        /\ Len(new) = Len(old) - 1 /\ 1 \in 1..Len(old) /\ e \in EventRecords
        /\ \A i \in 1..Len(new) : i + 1 \in 1..Len(old) /\ new[i] = old[i + 1]
    BY <1>1, <1>2, <2>0, <2>1, TakeQueuedDoes DEF DiagFits
  <2>3. m \in Nat /\ QueuedEvent(m) BY <2>0, <2>2 DEF EventRecords, QueuedEvent
  <2>4. m <= diag.sequence /\ ~Carried(m) /\ ~InSlot(m) /\ ~Collected(m) /\ ~Received(m)
    BY <1>1, <2>3 DEF EventsApart, InOnePlace
  <2>5. /\ PollFits' /\ Len(result') = Len(result) + 1
        /\ Distinct(result') /\ Distinct(received')
        /\ \A n \in Nat : /\ Collected(n)' <=> Collected(n) \/ n = m
                          /\ Received(n)' <=> Received(n)
    BY <1>1, <2>1, <2>3, <2>4, Collects DEF EventsApart
  <2>6. \A i, j \in 1..Len(old) : old[i].sequence = old[j].sequence => i = j
    BY <1>1 DEF EventsApart, QueuedOnce
  <2>7. Len(old) \in Nat /\ Len(new) \in Nat BY <1>1, <2>2, EventFields
  <2>8. QueuedOnce' /\ \A n \in Nat : QueuedEvent(n)' => QueuedEvent(n)
    <3>1. \A i, j \in 1..Len(new) : new[i].sequence = new[j].sequence => i = j
      <4> HIDE DEF old, new
      <4>1. SUFFICES ASSUME NEW i \in 1..Len(new), NEW j \in 1..Len(new),
                            new[i].sequence = new[j].sequence
                     PROVE  i = j
        OBVIOUS
      <4>2. i + 1 = j + 1 BY <2>2, <2>6, <4>1
      <4> QED BY <2>7, <4>2
    <3>2. \A n \in Nat : QueuedEvent(n)' => QueuedEvent(n)
      BY <2>2 DEF QueuedEvent
    <3> QED BY <3>1, <3>2 DEF QueuedOnce
  <2>9. ~QueuedEvent(m)'
    <3>1. \A i \in 1..Len(new) : new[i].sequence # m
      <4> HIDE DEF new
      <4>1. SUFFICES ASSUME NEW i \in 1..Len(new), new[i].sequence = m PROVE FALSE
        OBVIOUS
      <4>2. i + 1 \in 1..Len(old) /\ old[i + 1].sequence = old[1].sequence
        BY <2>0, <2>2, <4>1
      <4>3. i + 1 = 1 BY <2>2, <2>6, <4>2
      <4> QED BY <2>7, <4>1, <4>3
    <3> QED BY <3>1 DEF QueuedEvent
  <2>10. EventsApart'
    <3>1. InOnePlace(m)'
      BY <1>1, <2>2, <2>3, <2>4, <2>5, <2>9, CarriedStays, SlotStays DEF InOnePlace
    <3>2. CarriedOnce' BY <1>1, CarriedStays DEF EventsApart
    <3> QED BY <1>1, <2>2, <2>3, <2>5, <2>8, <3>1, <3>2, PlacesAgree, CarriedStays, SlotStays
  <2>11. EventsCounted'
    <3>1. /\ Cardinality(Holding') = Cardinality(Holding) + 0
          /\ Len(diag'.slot) = Len(diag.slot) + 0 /\ Len(received') = Len(received) + 0
          /\ Len(diag'.queue.items) = Len(diag.queue.items) + (0 - 1)
      BY <1>1, <2>2, <2>7, CarriedStays, HoldersAreFinite, EventFields
    <3>2. Changes(0, 0 - 1, 0, 1, 0, 0)
      BY <2>2, <2>5, <3>1 DEF Changes, DiagFits
    <3> QED BY <1>1, <3>2, CountsAgree
  <2> QED BY <1>1, <2>2, <2>5, <2>10, <2>11, EmittersStay DEF EventInv, EventTypes
<1>3. CASE ~(HasSpace /\ diag.queue.items # <<>>)
  <2>1. UNCHANGED <<diag, result>> /\ poll' = "slot" BY <1>3 DEF PollQueue
  <2> QED BY <1>1, <2>1, OnlyPollMoves
<1> QED BY <1>2, <1>3

LEMMA PollSlotKeeps ==
  ASSUME EventInv, PollSlot
  PROVE  EventInv'
<1>1. /\ EventTypes /\ EventsApart /\ EventsCounted /\ DiagFits(diag) /\ EmittersFit
      /\ UNCHANGED <<carrying, overflown, received>> /\ poll' = "loss"
  BY DEF EventInv, EventTypes, PollSlot
<1>2. CASE diag.slot # <<>> /\ HasSpace
  <2>0. PICK m : m = diag.slot[1].sequence
    OBVIOUS
  <2>1. result' = Append(result, m) /\ diag' = TakeSlot(diag)
    BY <1>2, <2>0 DEF PollSlot
  <2>2. /\ DiagFits(diag') /\ diag'.queue = diag.queue /\ diag'.lost = diag.lost
        /\ diag'.sequence = diag.sequence /\ diag.sequence \in Nat /\ diag'.slot = <<>>
    BY <1>1, <2>1, TakeSlotDoes DEF DiagFits
  <2>3. m \in Nat /\ InSlot(m)
    BY <1>1, <1>2, <2>0, EventFields DEF EventRecords, InSlot
  <2>4. m <= diag.sequence /\ ~Carried(m) /\ ~QueuedEvent(m) /\ ~Collected(m) /\ ~Received(m)
    BY <1>1, <2>3 DEF EventsApart, InOnePlace
  <2>5. /\ PollFits' /\ Len(result') = Len(result) + 1
        /\ Distinct(result') /\ Distinct(received')
        /\ \A n \in Nat : /\ Collected(n)' <=> Collected(n) \/ n = m
                          /\ Received(n)' <=> Received(n)
    BY <1>1, <2>1, <2>3, <2>4, Collects DEF EventsApart
  <2>6. \A n \in Nat : ~InSlot(n)' BY <2>2 DEF InSlot
  <2>7. EventsApart'
    <3>1. InOnePlace(m)'
      BY <1>1, <2>2, <2>3, <2>4, <2>5, <2>6, CarriedStays, QueuedStays DEF InOnePlace
    <3>2. CarriedOnce' /\ QueuedOnce'
      BY <1>1, <2>2, CarriedStays, QueuedStays DEF EventsApart
    <3> QED BY <1>1, <2>2, <2>3, <2>5, <2>6, <3>1, <3>2, PlacesAgree, CarriedStays, QueuedStays
  <2>8. EventsCounted'
    <3>1. /\ Cardinality(Holding') = Cardinality(Holding) + 0
          /\ Len(diag'.queue.items) = Len(diag.queue.items) + 0
          /\ Len(received') = Len(received) + 0
          /\ Len(diag'.slot) = Len(diag.slot) + (0 - 1)
      BY <1>1, <1>2, <2>2, CarriedStays, HoldersAreFinite, EventFields
    <3>2. Changes(0, 0, 0 - 1, 1, 0, 0)
      BY <2>2, <2>5, <3>1 DEF Changes, DiagFits
    <3> QED BY <1>1, <3>2, CountsAgree
  <2> QED BY <1>1, <2>2, <2>5, <2>7, <2>8, EmittersStay DEF EventInv, EventTypes
<1>3. CASE ~(diag.slot # <<>> /\ HasSpace)
  <2>1. UNCHANGED <<diag, result>> BY <1>3 DEF PollSlot
  <2> QED BY <1>1, <2>1, OnlyPollMoves
<1> QED BY <1>2, <1>3

(* At the end of a poll the batch is the caller's.                         *)
LEMMA HandsOver ==
  ASSUME EventTypes, EventsApart, result' = <<>>, NEW b \in Seq(Nat), received' = received \o b,
         Distinct(b), \A n \in Nat : ~(IsIn(b, n) /\ Received(n))
  PROVE  /\ PollFits' /\ Len(received') = Len(received) + Len(b) /\ Len(result') = 0
         /\ Distinct(result') /\ Distinct(received')
         /\ \A n \in Nat : ~Collected(n)' /\ (Received(n)' <=> Received(n) \/ IsIn(b, n))
<1>1. received \in Seq(Nat) /\ Distinct(received)
  BY DEF EventTypes, PollFits, EventsApart
<1>2. /\ received' \in Seq(Nat) /\ Len(received') = Len(received) + Len(b)
      /\ \A n \in Nat : IsIn(received', n) <=> IsIn(received, n) \/ IsIn(b, n)
      /\ Distinct(received')
  BY <1>1, ConcatIsIn DEF Received
<1>3. <<>> \in Seq(Nat) /\ Len(<<>>) = 0 BY EmptySeq
<1>4. Distinct(result') /\ \A n \in Nat : ~IsIn(result', n)
  BY <1>3 DEF Distinct, IsIn
<1> QED BY <1>2, <1>3, <1>4 DEF PollFits, Collected, Received

LEMMA PollLossKeeps ==
  ASSUME EventInv, PollLoss
  PROVE  EventInv'
<1>1. /\ EventTypes /\ EventsApart /\ EventsCounted /\ DiagFits(diag) /\ EmittersFit
      /\ UNCHANGED <<carrying, overflown>> /\ result' = <<>> /\ diag.sequence \in Nat
      /\ result \in Seq(Nat) /\ Distinct(result)
  BY DEF EventInv, EventTypes, EventsApart, PollFits, PollLoss, DiagFits
<1>2. \A n \in Nat : Collected(n) => ~Received(n) /\ ~Carried(n) /\ ~QueuedEvent(n) /\ ~InSlot(n)
                                     /\ n <= diag.sequence
  BY <1>1 DEF EventsApart, InOnePlace
<1>3. CASE LossUnreported(diag) /\ HasSpace
  <2>0. PICK m : m = diag.sequence + 1
    OBVIOUS
  <2>1. diag' = ReportLoss(diag) /\ received' = received \o Append(result, m)
    BY <1>3, <2>0 DEF PollLoss
  <2>2. /\ DiagFits(diag') /\ diag'.queue = diag.queue /\ diag'.lost = diag.lost
        /\ diag'.sequence = m /\ diag'.slot = diag.slot
    BY <1>1, <2>0, <2>1, ReportLossDoes
  <2>3. m \in Nat /\ ~Carried(m) /\ ~QueuedEvent(m) /\ ~InSlot(m) /\ ~Collected(m) /\ ~Received(m)
    BY <1>1, <2>0 DEF EventsApart, InOnePlace
  <2> DEFINE b == Append(result, m)
  <2>4. /\ b \in Seq(Nat) /\ Len(b) = Len(result) + 1 /\ Distinct(b)
        /\ \A n \in Nat : IsIn(b, n) <=> Collected(n) \/ n = m
    BY <1>1, <2>3, AppendIsIn DEF Collected
  <2>5. received' = received \o b BY <2>1
  <2> HIDE DEF b
  <2>6. \A n \in Nat : ~(IsIn(b, n) /\ Received(n)) BY <1>2, <2>3, <2>4
  <2>7. /\ PollFits' /\ Len(received') = Len(received) + Len(b) /\ Len(result') = 0
        /\ Distinct(result') /\ Distinct(received')
        /\ \A n \in Nat : ~Collected(n)' /\ (Received(n)' <=> Received(n) \/ IsIn(b, n))
    BY <1>1, <2>4, <2>5, <2>6, HandsOver
  <2>8. EventsApart'
    <3>1. ASSUME NEW n \in Nat PROVE InOnePlace(n)'
      <4>1. /\ Carried(n)' <=> Carried(n)
            /\ QueuedEvent(n)' <=> QueuedEvent(n)
            /\ InSlot(n)' <=> InSlot(n)
            /\ ~Collected(n)'
            /\ Received(n)' <=> Received(n) \/ Collected(n) \/ n = m
        BY <1>1, <2>2, <2>4, <2>7, CarriedStays, QueuedStays, SlotStays
      <4>2. InOnePlace(n) /\ (n <= diag.sequence => n <= diag'.sequence) /\ m <= diag'.sequence
        BY <1>1, <2>0, <2>2 DEF EventsApart
      <4> QED BY <2>3, <4>1, <4>2 DEF InOnePlace
    <3>2. CarriedOnce' /\ QueuedOnce'
      BY <1>1, <2>2, CarriedStays, QueuedStays DEF EventsApart
    <3> QED BY <2>7, <3>1, <3>2 DEF EventsApart
  <2>9. EventsCounted'
    <3> DEFINE k == Len(result)
    <3>1. /\ Cardinality(Holding') = Cardinality(Holding) + 0
          /\ Len(diag'.queue.items) = Len(diag.queue.items) + 0
          /\ Len(diag'.slot) = Len(diag.slot) + 0
          /\ diag'.lost = diag.lost + 0
          /\ Len(received') = Len(received) + (k + 1) /\ k \in Nat
          /\ Len(result') = Len(result) + (0 - k)
      BY <1>1, <2>2, <2>4, <2>7, CarriedStays, HoldersAreFinite, EventFields DEF DiagFits
    <3> HIDE DEF k
    <3>2. diag'.sequence = diag.sequence + 0 + 0 + 0 + (0 - k) + (k + 1) + 0
      BY <1>1, <2>0, <2>2, <3>1
    <3>3. Changes(0, 0, 0, 0 - k, k + 1, 0) BY <3>1, <3>2 DEF Changes
    <3> QED BY <1>1, <3>3, CountsAgree
  <2> QED BY <1>1, <2>2, <2>7, <2>8, <2>9, EmittersStay DEF EventInv, EventTypes
<1>4. CASE ~(LossUnreported(diag) /\ HasSpace)
  <2>1. received' = received \o result /\ diag' = diag BY <1>4 DEF PollLoss
  <2>2. \A n \in Nat : ~(IsIn(result, n) /\ Received(n)) BY <1>2 DEF Collected
  <2>3. /\ PollFits' /\ Len(received') = Len(received) + Len(result) /\ Len(result') = 0
        /\ Distinct(result') /\ Distinct(received')
        /\ \A n \in Nat : ~Collected(n)' /\ (Received(n)' <=> Received(n) \/ Collected(n))
    <3>1. /\ PollFits' /\ Len(received') = Len(received) + Len(result) /\ Len(result') = 0
          /\ Distinct(result') /\ Distinct(received')
          /\ \A n \in Nat : ~Collected(n)' /\ (Received(n)' <=> Received(n) \/ IsIn(result, n))
      BY <1>1, <2>1, <2>2, HandsOver
    <3> QED BY <3>1 DEF Collected
  <2>4. EventsApart'
    <3>1. ASSUME NEW n \in Nat PROVE InOnePlace(n)'
      <4>1. /\ Carried(n)' <=> Carried(n)
            /\ QueuedEvent(n)' <=> QueuedEvent(n)
            /\ InSlot(n)' <=> InSlot(n)
            /\ ~Collected(n)'
            /\ Received(n)' <=> Received(n) \/ Collected(n)
        BY <1>1, <2>1, <2>3, CarriedStays, QueuedStays, SlotStays
      <4>2. InOnePlace(n) BY <1>1 DEF EventsApart
      <4> QED BY <2>1, <4>1, <4>2 DEF InOnePlace
    <3>2. CarriedOnce' /\ QueuedOnce'
      BY <1>1, <2>1, CarriedStays, QueuedStays DEF EventsApart
    <3> QED BY <2>3, <3>1, <3>2 DEF EventsApart
  <2>5. EventsCounted'
    <3> DEFINE k == Len(result)
    <3>1. /\ Cardinality(Holding') = Cardinality(Holding) + 0
          /\ Len(diag'.queue.items) = Len(diag.queue.items) + 0
          /\ Len(diag'.slot) = Len(diag.slot) + 0
          /\ diag'.lost = diag.lost + 0
          /\ Len(received') = Len(received) + k /\ k \in Nat
          /\ Len(result') = Len(result) + (0 - k)
      BY <1>1, <2>1, <2>3, CarriedStays, HoldersAreFinite, EventFields DEF DiagFits
    <3> HIDE DEF k
    <3>2. diag'.sequence = diag.sequence + 0 + 0 + 0 + (0 - k) + k + 0
      BY <1>1, <2>1, <3>1
    <3>3. Changes(0, 0, 0, 0 - k, k, 0) BY <3>1, <3>2 DEF Changes
    <3> QED BY <1>1, <3>3, CountsAgree
  <2> QED BY <1>1, <2>1, <2>3, <2>4, <2>5, EmittersStay DEF EventInv, EventTypes
<1> QED BY <1>3, <1>4

-----------------------------------------------------------------------------
(* The invariant holds from the begin, and every step keeps it.            *)
LEMMA EventsBegin == EventsInit => EventInv
<1> SUFFICES ASSUME EventsInit PROVE EventInv
  OBVIOUS
<1>1. /\ diag = NewDiagnostics(EventCapacity) /\ carrying = [t \in Emitters |-> <<>>]
      /\ overflown = {} /\ result = <<>> /\ received = <<>>
      /\ <<>> \in Seq(Nat) /\ Len(<<>>) = 0
  BY EmptySeq DEF EventsInit
<1>2. /\ diag.slot = <<>> /\ diag.sequence = 0 /\ diag.lost = 0 /\ diag.queue.items = <<>>
      /\ DiagFits(diag)
  <2> DEFINE q == NewQueue(EventCapacity, "DropNewest")
  <2>1. q \in QueueRecords(EventRecords) /\ q.policy = "DropNewest" /\ q.items = <<>>
    BY QueueStarts, EventsAssumption DEF Policies
  <2>2. diag = [queue |-> q, slot |-> <<>>, sequence |-> 0, lost |-> 0, reported |-> 0,
                hasError |-> FALSE]
    BY <1>1 DEF NewDiagnostics
  <2> HIDE DEF q
  <2> QED BY <2>1, <2>2 DEF DiagFits, AtMostOne
<1>3. Holding = {} /\ Cardinality(Holding) = 0 BY <1>1, FS_EmptySet DEF Holding
<1>4. EventTypes
  BY <1>1, <1>2, <1>3 DEF EventTypes, EmittersFit, PollFits, AtMostOne
<1>5. EventsApart
  <2>1. \A n \in Nat : ~Carried(n) /\ ~QueuedEvent(n) /\ ~InSlot(n) /\ ~Collected(n) /\ ~Received(n)
    BY <1>1, <1>2, <1>3 DEF Carried, QueuedEvent, InSlot, Collected, Received, IsIn
  <2> QED BY <1>1, <1>2, <1>3, <2>1 DEF EventsApart, CarriedOnce, QueuedOnce, Distinct, InOnePlace
<1>6. EventsCounted BY <1>1, <1>2, <1>3 DEF EventsCounted, Inside, Holding
<1> QED BY <1>4, <1>5, <1>6 DEF EventInv

LEMMA EventsStep == EventInv /\ [EventsNext]_eventsVars => EventInv'
<1> SUFFICES ASSUME EventInv, [EventsNext]_eventsVars PROVE EventInv'
  OBVIOUS
<1>1. ASSUME NEW t \in Emitters, Begin(t) PROVE EventInv' BY <1>1, BeginKeeps
<1>2. ASSUME NEW t \in Emitters, Emitting(t) PROVE EventInv'
  BY <1>2, TryPushEventKeeps, PlaceInSlotKeeps DEF Emitting
<1>3. CASE StartPoll BY <1>3, StartPollKeeps
<1>4. CASE Polling
  BY <1>4, PollQueueKeeps, PollSlotKeeps, PollLossKeeps DEF Polling
<1>5. CASE UNCHANGED eventsVars
  <2>1. UNCHANGED <<diag, carrying, overflown, poll, result, received>>
    BY <1>5 DEF eventsVars
  <2>2. EventTypes' /\ EventsApart' /\ EventsCounted'
    BY <2>1 DEF EventInv, EventTypes, DiagFits, EmittersFit, PollFits, Holding, EventsApart,
       CarriedOnce, QueuedOnce, InOnePlace, Carried, QueuedEvent, InSlot, Collected, Received,
       EventsCounted, Inside
  <2> QED BY <2>2 DEF EventInv
<1> QED BY <1>1, <1>2, <1>3, <1>4, <1>5 DEF EventsNext

(* Whatever the threads and the polls do, and however many events there    *)
(* are: each number given out is handed to the caller once, is on its way  *)
(* to it, or is counted as lost.                                           *)
THEOREM EventConservationCorrect == EventsSpec => []EventConservation
<1>1. EventInv => EventConservation
  BY DEF EventInv, EventsApart, EventsCounted, EventConservation, Distinct
<1> QED BY <1>1, EventsBegin, EventsStep, PTL DEF EventsSpec
=============================================================================
