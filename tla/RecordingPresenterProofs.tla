---------------------- MODULE RecordingPresenterProofs ----------------------
(***************************************************************************)
(* What the programs keep on the disk.                                     *)
(*                                                                         *)
(* A recording, for every set of targets, capacity and interval between    *)
(* two fsyncs, and any number of blocks, commands, crashes and faults.     *)
(* A call on the files is one of four programs of effects; the invariant   *)
(* of the files says, for each place in a program, which files have moved, *)
(* what has been forced to the disk and what the metadata say.  A crash    *)
(* may come at any of these places: what must hold then is the part that   *)
(* all of them share (Sound).  What the workspace shows is followed        *)
(* through the places of the recorder (True), as long as it is alone and   *)
(* its error has not been wiped.                                           *)
(*                                                                         *)
(* The activity log, for every size of it and any number of records,       *)
(* flushes, failures and ends of the program (LogInv).                     *)
(***************************************************************************)
EXTENDS RecordingPresenter, ActivityLog, SequenceTheorems, FiniteSetTheorems, TLAPS

-----------------------------------------------------------------------------
(* The calls on the files                                                  *)

OpeningProgram ==
  << <<"open", "data">>, <<"open", "index">>, <<"open", "gaps">>, <<"meta", "part">> >>
ForcingProgram ==
  << <<"sync", "data">>, <<"sync", "index">>, <<"sync", "gaps">>, <<"meta", "part">> >>
FinalProgram ==
  << <<"sync", "data">>, <<"sync", "index">>, <<"sync", "gaps">>, <<"meta", "complete">>,
     <<"move", "data">>, <<"move", "index">>, <<"move", "gaps">>, <<"move", "meta">> >>
RecoverProgram ==
  << <<"trim", "data">>, <<"trim", "index">>, <<"meta", "recovered">>,
     <<"move", "data">>, <<"move", "index">>, <<"move", "gaps">>,
     <<"meta", "recoveredComplete">>, <<"move", "meta">> >>

Ops ==
  {"open", "sync", "move", "meta", "trim"}
    \X {"data", "index", "gaps", "meta", "part", "complete", "recovered", "recoveredComplete"}

(* What is left of a program at its step k.                                *)
Left(program, k) == SubSeq(program, k, Len(program))

-----------------------------------------------------------------------------
(* The invariant of the files of one recording                             *)

Counted == {"data", "index", "gaps"}
Counts == [data : Nat, index : Nat, gaps : Nat]
MetadataType == [known : BOOLEAN, completed : BOOLEAN, blocks : Nat, gaps : Nat]
FileType ==
  [place : [Files -> {"none", "part", "final"}], data : Nat, index : Nat, gaps : Nat,
   synced : Counts, torn : BOOLEAN, meta : MetadataType,
   open : BOOLEAN, todo : Seq(Ops), failed : BOOLEAN]

(* Every line of the index has its block.                                  *)
Full(f) == f.index * BlockBytes <= f.data /\ ~f.torn

Fresh(f) ==
  /\ f.data = 0 /\ f.index = 0 /\ f.gaps = 0 /\ ~f.torn
  /\ f.synced.data = 0 /\ f.synced.index = 0 /\ f.synced.gaps = 0
  /\ f.meta.blocks = 0 /\ f.meta.gaps = 0

(* Files are opened and moved in order.                                    *)
InOrder(p) ==
  /\ p["index"] # "none" => p["data"] # "none"
  /\ p["gaps"] # "none" => p["index"] # "none"
  /\ p["meta"] # "none" => p["gaps"] # "none"
  /\ p["data"] = "final" => p["meta"] # "none"
  /\ p["index"] = "final" => p["data"] = "final"
  /\ p["gaps"] = "final" => p["index"] = "final"
  /\ p["meta"] = "final" => p["gaps"] = "final"

(* Nothing of it can be lost any more.                                     *)
Sealed(f) ==
  /\ Full(f) /\ f.meta.completed /\ f.meta.blocks = f.index
  /\ f.synced.data = f.data /\ f.synced.index = f.index

(* What holds between any two effects, and of what a crash leaves.         *)
Sound(f) ==
  /\ f \in FileType
  /\ f.synced.data <= f.data /\ f.synced.index <= f.index /\ f.synced.gaps <= f.gaps
  /\ f.meta.blocks <= f.synced.index /\ f.meta.blocks * BlockBytes <= f.synced.data
  /\ f.meta.gaps <= f.synced.gaps
  /\ InOrder(f.place)
  /\ f.place["meta"] = "final" => Sealed(f)
  /\ f.place["data"] = "none" => Fresh(f)

Places(f, data, index, gaps, meta) ==
  /\ f.place["data"] = data /\ f.place["index"] = index
  /\ f.place["gaps"] = gaps /\ f.place["meta"] = meta
AllPart(f) == Places(f, "part", "part", "part", "part")
Moved(yes) == IF yes THEN "final" ELSE "part"
Made(yes) == IF yes THEN "part" ELSE "none"

Opening(f, k) ==
  /\ f.todo = Left(OpeningProgram, k) /\ f.open /\ Fresh(f)
  /\ Places(f, Made(k > 1), Made(k > 2), Made(k > 3), "none")

Synced(f, k) ==
  /\ k > 1 => f.synced.data = f.data
  /\ k > 2 => f.synced.index = f.index
  /\ k > 3 => f.synced.gaps = f.gaps

Forcing(f, k) ==
  /\ f.todo = Left(ForcingProgram, k)
  /\ AllPart(f) /\ Full(f) /\ Synced(f, k)

Finalizing(f, k) ==
  /\ f.todo = Left(FinalProgram, k) /\ ~f.open
  /\ Full(f) /\ Synced(f, k)
  /\ k > 4 => f.meta.completed /\ f.meta.blocks = f.index
  /\ Places(f, Moved(k > 5), Moved(k > 6), Moved(k > 7), "part")

Recovering(f, k) ==
  /\ f.todo = Left(RecoverProgram, k) /\ ~f.open
  /\ k > 1 => f.synced.data = f.data
  /\ k > 2 => Full(f) /\ f.synced.index = f.index
  /\ k > 7 => f.meta.completed /\ f.meta.blocks = f.index
  /\ Places(f, Moved(k > 4), Moved(k > 5), Moved(k > 6), "part")

Resting(f) == f.todo = <<>> /\ (f.open => AllPart(f) /\ Full(f))

(* The recording has its final name or gets it from the call that runs.    *)
Ends(f) == f.place["meta"] = "final" \/ \E k \in 1 .. 8 : Finalizing(f, k)

FileInv(f) ==
  /\ Sound(f)
  /\ \/ Resting(f)
     \/ (\E k \in 1 .. 4 : Opening(f, k))
     \/ (\E k \in 1 .. 4 : Forcing(f, k))
     \/ (\E k \in 1 .. 8 : Finalizing(f, k))
     \/ (\E k \in 1 .. 8 : Recovering(f, k))

-----------------------------------------------------------------------------
(* The invariant of the workspace                                          *)

WithNone == Targets \cup {NoTarget}
UiType ==
  [recording : {"idle", "configured", "running", "stopping", "completed", "failed"},
   setup : WithNone, service : WithNone, thread : WithNone, stop : BOOLEAN, error : BOOLEAN]
GuiPlaces ==
  {"idle", "starting", "recovering", "joinReplay", "open", "joinRecorder", "cancel",
   "cancelPut", "cancelJoin", "cancelling", "closed"}
Working == {"recovering", "cancel", "cancelPut", "cancelJoin", "cancelling"}
GuiType == [at : GuiPlaces, then : GuiPlaces \ ({"starting"} \cup Working), target : WithNone]
ServiceType == [running : BOOLEAN, failed : BOOLEAN, stop : BOOLEAN, ended : BOOLEAN,
                queue : Seq(0 .. 2), skip : BOOLEAN]
Stops == {"stop", "put", "join", "stopping"}
RecorderType ==
  [at : {"none", "loop", "finally", "report", "ended"} \cup Stops,
   offered : Nat, final : BOOLEAN, wasRunning : BOOLEAN, service : WithNone]

TypeOK ==
  /\ ui \in UiType /\ gui \in GuiType
  /\ service \in [Targets -> ServiceType]
  /\ recorder \in [Targets -> RecorderType]
  /\ files \in [Targets -> FileType]

(* A service that runs has its writer; the GUI thread has the target it    *)
(* works for.                                                              *)
ServicesWrite ==
  /\ \A t \in Targets : service[t].running => files[t].open /\ files[t].place["meta"] # "none"
  /\ \A t \in Targets : recorder[t].at \in Stops => recorder[t].service \in Targets
  /\ gui.at \in {"starting"} \cup Working => gui.target \in Targets
  /\ gui.at = "starting" => files[gui.target].open /\ ~service[gui.target].running

FilesInv == \A t \in Targets : FileInv(files[t])

PresenterInv == TypeOK /\ FilesInv /\ ServicesWrite

-----------------------------------------------------------------------------
(* Programs                                                                *)

LEMMA ProgramsAreOps ==
  /\ OpeningProgram \in Seq(Ops) /\ Len(OpeningProgram) = 4
  /\ ForcingProgram \in Seq(Ops) /\ Len(ForcingProgram) = 4
  /\ FinalProgram \in Seq(Ops) /\ Len(FinalProgram) = 8
  /\ RecoverProgram \in Seq(Ops) /\ Len(RecoverProgram) = 8
<1>1. OpeningProgram \in Seq(Ops) /\ Len(OpeningProgram) = 4
  BY DEF OpeningProgram, Ops
<1>2. ForcingProgram \in Seq(Ops) /\ Len(ForcingProgram) = 4
  BY DEF ForcingProgram, Ops
<1>3. FinalProgram \in Seq(Ops) /\ Len(FinalProgram) = 8
  BY DEF FinalProgram, Ops
<1>4. RecoverProgram \in Seq(Ops) /\ Len(RecoverProgram) = 8
  BY DEF RecoverProgram, Ops
<1>. QED BY <1>1, <1>2, <1>3, <1>4

(* A program is done from its head on.                                     *)
LEMMA LeftSteps ==
  ASSUME NEW p \in Seq(Ops), NEW k \in 1 .. Len(p)
  PROVE  /\ Left(p, k) \in Seq(Ops) /\ Left(p, k) # <<>>
         /\ Left(p, k)[1] = p[k] /\ Tail(Left(p, k)) = Left(p, k + 1)
         /\ Left(p, k + 1) \in Seq(Ops)
<1>1. Left(p, k) \in Seq(Ops) /\ Len(Left(p, k)) = Len(p) - k + 1 /\ Left(p, k)[1] = p[k]
  BY SubSeqProperties DEF Left
<1>2. Left(p, k) # <<>> BY <1>1
<1>3. Tail(Left(p, k)) = Left(p, k + 1) BY HeadTailOfSubSeq DEF Left
<1>4. Left(p, k + 1) \in Seq(Ops) BY <1>1, <1>2, <1>3
<1>. QED BY <1>1, <1>2, <1>3, <1>4

LEMMA ProgramsEnd ==
  /\ Left(OpeningProgram, 5) = <<>> /\ Left(ForcingProgram, 5) = <<>>
  /\ Left(FinalProgram, 9) = <<>> /\ Left(RecoverProgram, 9) = <<>>
<1>1. \A p \in Seq(Ops) : Left(p, Len(p) + 1) = <<>>
  <2> TAKE p \in Seq(Ops)
  <2>1. Len(p) \in Nat OBVIOUS
  <2>. QED BY <2>1, SubSeqEmpty DEF Left
<1>2. Left(OpeningProgram, 4 + 1) = <<>> /\ Left(ForcingProgram, 4 + 1) = <<>>
  BY <1>1, ProgramsAreOps
<1>3. Left(FinalProgram, 8 + 1) = <<>> /\ Left(RecoverProgram, 8 + 1) = <<>>
  BY <1>1, ProgramsAreOps
<1>. QED BY <1>2, <1>3

LEMMA LeftStarts ==
  ASSUME NEW p \in Seq(Ops) PROVE Left(p, 1) = p
BY SubSeqFull DEF Left

(* The calls of the writer are these programs.                             *)
LEMMA Concatenated ==
  ASSUME NEW p \in Seq(Ops), NEW a \in Seq(Ops), NEW b \in Seq(Ops),
         Len(p) = Len(a) + Len(b),
         \A i \in 1 .. Len(a) : p[i] = a[i],
         \A i \in 1 .. Len(b) : p[Len(a) + i] = b[i]
  PROVE  a \o b = p
<1>1. a \o b \in Seq(Ops) /\ Len(a \o b) = Len(p) BY ConcatProperties
<1>2. \A i \in 1 .. Len(p) : (a \o b)[i] = p[i]
  <2> TAKE i \in 1 .. Len(p)
  <2>1. CASE i <= Len(a) BY <2>1, ConcatProperties
  <2>2. CASE i > Len(a)
    <3>1. i - Len(a) \in 1 .. Len(b) /\ p[Len(a) + (i - Len(a))] = b[i - Len(a)]
      <4>1. Len(a) \in Nat /\ Len(b) \in Nat /\ Len(p) = Len(a) + Len(b) /\ i \in 1 .. Len(p)
        OBVIOUS
      <4>2. i - Len(a) \in 1 .. Len(b) BY ONLY <2>2, <4>1
      <4> QED BY <4>2
    <3>2. Len(a) + (i - Len(a)) = i BY <2>2
    <3>3. (a \o b)[i] = b[i - Len(a)] BY <2>2, ConcatProperties
    <3>. QED BY <3>1, <3>2, <3>3
  <2>. QED BY <2>1, <2>2
<1>. QED BY <1>1, <1>2, SeqEqual

LEMMA PartsAreOps ==
  /\ MetaOps \in Seq(Ops) /\ Len(MetaOps) = 1
  /\ SyncOps \in Seq(Ops) /\ Len(SyncOps) = 3
  /\ Renames \in Seq(Ops) /\ Len(Renames) = 3
  /\ Last("recoveredComplete") \in Seq(Ops) /\ Len(Last("recoveredComplete")) = 2
<1>1. MetaOps \in Seq(Ops) /\ Len(MetaOps) = 1 BY DEF MetaOps, Ops
<1>2. SyncOps \in Seq(Ops) /\ Len(SyncOps) = 3 BY DEF SyncOps, Ops
<1>3. Renames \in Seq(Ops) /\ Len(Renames) = 3 BY DEF Renames, Ops
<1>4. Last("recoveredComplete") \in Seq(Ops) /\ Len(Last("recoveredComplete")) = 2
  BY DEF Last, Ops
<1>. QED BY <1>1, <1>2, <1>3, <1>4

LEMMA CallsAreOpening ==
  << <<"open", "data">>, <<"open", "index">>, <<"open", "gaps">> >> \o MetaOps = OpeningProgram
<1> DEFINE opens == << <<"open", "data">>, <<"open", "index">>, <<"open", "gaps">> >>
<1>1. opens \in Seq(Ops) /\ Len(opens) = 3 BY DEF Ops
<1>2. /\ OpeningProgram[1] = opens[1] /\ OpeningProgram[2] = opens[2]
      /\ OpeningProgram[3] = opens[3] /\ OpeningProgram[4] = MetaOps[1]
  BY DEF MetaOps, OpeningProgram
<1> HIDE DEF opens
<1>3. opens \o MetaOps = OpeningProgram
  <2>1. \A i \in 1 .. Len(opens) : OpeningProgram[i] = opens[i]
    BY <1>1, <1>2, PartsAreOps, ProgramsAreOps
  <2>2. \A i \in 1 .. Len(MetaOps) : OpeningProgram[Len(opens) + i] = MetaOps[i]
    BY <1>1, <1>2, PartsAreOps, ProgramsAreOps
  <2>3. OpeningProgram \in Seq(Ops) /\ opens \in Seq(Ops) /\ MetaOps \in Seq(Ops)
    BY <1>1, <1>2, PartsAreOps, ProgramsAreOps
  <2>4. Len(OpeningProgram) = Len(opens) + Len(MetaOps)
    BY <1>1, <1>2, PartsAreOps, ProgramsAreOps
  <2>. QED BY ONLY <2>1, <2>2, <2>3, <2>4, Concatenated, Zenon
<1>. QED BY <1>3 DEF opens

LEMMA CallsAreForcing == SyncOps \o MetaOps = ForcingProgram
<1>1. /\ ForcingProgram[1] = SyncOps[1] /\ ForcingProgram[2] = SyncOps[2]
      /\ ForcingProgram[3] = SyncOps[3] /\ ForcingProgram[4] = MetaOps[1]
  BY DEF SyncOps, MetaOps, ForcingProgram
<1>. QED
  <2>1. \A i \in 1 .. Len(SyncOps) : ForcingProgram[i] = SyncOps[i]
    BY <1>1, PartsAreOps, ProgramsAreOps
  <2>2. \A i \in 1 .. Len(MetaOps) : ForcingProgram[Len(SyncOps) + i] = MetaOps[i]
    BY <1>1, PartsAreOps, ProgramsAreOps
  <2>3. ForcingProgram \in Seq(Ops) /\ SyncOps \in Seq(Ops) /\ MetaOps \in Seq(Ops)
    BY <1>1, PartsAreOps, ProgramsAreOps
  <2>4. Len(ForcingProgram) = Len(SyncOps) + Len(MetaOps)
    BY <1>1, PartsAreOps, ProgramsAreOps
  <2>. QED BY ONLY <2>1, <2>2, <2>3, <2>4, Concatenated, Zenon

LEMMA CallsAreFinal ==
  (SyncOps \o << <<"meta", "complete">> >>) \o (Renames \o << <<"move", "meta">> >>) = FinalProgram
<1> DEFINE m == << <<"meta", "complete">> >>
           v == << <<"move", "meta">> >>
           a == << <<"sync", "data">>, <<"sync", "index">>, <<"sync", "gaps">>, <<"meta", "complete">> >>
           b == << <<"move", "data">>, <<"move", "index">>, <<"move", "gaps">>, <<"move", "meta">> >>
<1>1. /\ m \in Seq(Ops) /\ Len(m) = 1 /\ v \in Seq(Ops) /\ Len(v) = 1
      /\ a \in Seq(Ops) /\ Len(a) = 4 /\ b \in Seq(Ops) /\ Len(b) = 4
  <2>1. m \in Seq(Ops) /\ Len(m) = 1 /\ v \in Seq(Ops) /\ Len(v) = 1 BY DEF Ops
  <2>2. a \in Seq(Ops) /\ Len(a) = 4 BY DEF Ops
  <2>3. b \in Seq(Ops) /\ Len(b) = 4 BY DEF Ops
  <2>. QED BY <2>1, <2>2, <2>3
<1>2. /\ a[1] = SyncOps[1] /\ a[2] = SyncOps[2] /\ a[3] = SyncOps[3] /\ a[4] = m[1]
      /\ b[1] = Renames[1] /\ b[2] = Renames[2] /\ b[3] = Renames[3] /\ b[4] = v[1]
  BY DEF SyncOps, Renames
<1>3. /\ FinalProgram[1] = a[1] /\ FinalProgram[2] = a[2]
      /\ FinalProgram[3] = a[3] /\ FinalProgram[4] = a[4]
      /\ FinalProgram[5] = b[1] /\ FinalProgram[6] = b[2]
      /\ FinalProgram[7] = b[3] /\ FinalProgram[8] = b[4]
  BY DEF FinalProgram
<1> HIDE DEF m, v, a, b
<1>4. SyncOps \o m = a
  <2>1. \A i \in 1 .. Len(SyncOps) : a[i] = SyncOps[i]
    BY <1>1, <1>2, PartsAreOps
  <2>2. \A i \in 1 .. Len(m) : a[Len(SyncOps) + i] = m[i]
    BY <1>1, <1>2, PartsAreOps
  <2>3. a \in Seq(Ops) /\ SyncOps \in Seq(Ops) /\ m \in Seq(Ops)
    BY <1>1, <1>2, PartsAreOps
  <2>4. Len(a) = Len(SyncOps) + Len(m) BY <1>1, <1>2, PartsAreOps
  <2>. QED BY ONLY <2>1, <2>2, <2>3, <2>4, Concatenated, Zenon
<1>5. Renames \o v = b
  <2>1. \A i \in 1 .. Len(Renames) : b[i] = Renames[i]
    BY <1>1, <1>2, PartsAreOps
  <2>2. \A i \in 1 .. Len(v) : b[Len(Renames) + i] = v[i]
    BY <1>1, <1>2, PartsAreOps
  <2>3. b \in Seq(Ops) /\ Renames \in Seq(Ops) /\ v \in Seq(Ops)
    BY <1>1, <1>2, PartsAreOps
  <2>4. Len(b) = Len(Renames) + Len(v) BY <1>1, <1>2, PartsAreOps
  <2>. QED BY ONLY <2>1, <2>2, <2>3, <2>4, Concatenated, Zenon
<1>6. a \o b = FinalProgram
  <2>1. \A i \in 1 .. Len(a) : FinalProgram[i] = a[i]
    BY <1>1, <1>3, ProgramsAreOps
  <2>2. \A i \in 1 .. Len(b) : FinalProgram[Len(a) + i] = b[i]
    BY <1>1, <1>3, ProgramsAreOps
  <2>3. FinalProgram \in Seq(Ops) /\ a \in Seq(Ops) /\ b \in Seq(Ops)
    BY <1>1, <1>3, ProgramsAreOps
  <2>4. Len(FinalProgram) = Len(a) + Len(b) BY <1>1, <1>3, ProgramsAreOps
  <2>. QED BY ONLY <2>1, <2>2, <2>3, <2>4, Concatenated, Zenon
<1>. QED BY <1>4, <1>5, <1>6 DEF m, v

LEMMA CallsAreRecover ==
  << <<"trim", "data">>, <<"trim", "index">>, <<"meta", "recovered">> >>
    \o (Renames \o Last("recoveredComplete")) = RecoverProgram
<1> DEFINE a == << <<"trim", "data">>, <<"trim", "index">>, <<"meta", "recovered">> >>
           b == << <<"move", "data">>, <<"move", "index">>, <<"move", "gaps">>,
                   <<"meta", "recoveredComplete">>, <<"move", "meta">> >>
           l == Last("recoveredComplete")
<1>1. a \in Seq(Ops) /\ Len(a) = 3 /\ b \in Seq(Ops) /\ Len(b) = 5
  <2>1. a \in Seq(Ops) /\ Len(a) = 3 BY DEF Ops
  <2>2. b \in Seq(Ops) /\ Len(b) = 5 BY DEF Ops
  <2>. QED BY <2>1, <2>2
<1>2. /\ b[1] = Renames[1] /\ b[2] = Renames[2] /\ b[3] = Renames[3]
      /\ b[4] = l[1] /\ b[5] = l[2]
  BY DEF Renames, Last
<1>3. /\ RecoverProgram[1] = a[1] /\ RecoverProgram[2] = a[2] /\ RecoverProgram[3] = a[3]
      /\ RecoverProgram[4] = b[1] /\ RecoverProgram[5] = b[2] /\ RecoverProgram[6] = b[3]
      /\ RecoverProgram[7] = b[4] /\ RecoverProgram[8] = b[5]
  BY DEF RecoverProgram
<1>4. l \in Seq(Ops) /\ Len(l) = 2 BY PartsAreOps
<1> HIDE DEF a, b, l
<1>5. Renames \o l = b
  <2>1. \A i \in 1 .. Len(Renames) : b[i] = Renames[i]
    BY <1>1, <1>2, <1>4, PartsAreOps
  <2>2. \A i \in 1 .. Len(l) : b[Len(Renames) + i] = l[i]
    BY <1>1, <1>2, <1>4, PartsAreOps
  <2>3. b \in Seq(Ops) /\ Renames \in Seq(Ops) /\ l \in Seq(Ops)
    BY <1>1, <1>2, <1>4, PartsAreOps
  <2>4. Len(b) = Len(Renames) + Len(l) BY <1>1, <1>2, <1>4, PartsAreOps
  <2>. QED BY ONLY <2>1, <2>2, <2>3, <2>4, Concatenated, Zenon
<1>6. a \o b = RecoverProgram
  <2>1. \A i \in 1 .. Len(a) : RecoverProgram[i] = a[i]
    BY <1>1, <1>3, ProgramsAreOps
  <2>2. \A i \in 1 .. Len(b) : RecoverProgram[Len(a) + i] = b[i]
    BY <1>1, <1>3, ProgramsAreOps
  <2>3. RecoverProgram \in Seq(Ops) /\ a \in Seq(Ops) /\ b \in Seq(Ops)
    BY <1>1, <1>3, ProgramsAreOps
  <2>4. Len(RecoverProgram) = Len(a) + Len(b) BY <1>1, <1>3, ProgramsAreOps
  <2>. QED BY ONLY <2>1, <2>2, <2>3, <2>4, Concatenated, Zenon
<1>. QED BY <1>5, <1>6 DEF a, l

-----------------------------------------------------------------------------
(* The step k of a program, field by field                                 *)

LEMMA OpenStep ==
  ASSUME NEW f \in FileType, NEW p \in Seq(Ops), NEW k \in 1 .. Len(p), f.todo = Left(p, k),
         NEW n \in Counted, p[k] = <<"open", n>>,
         NEW g, g = Effect(f)
  PROVE  /\ g \in FileType /\ g.todo = Left(p, k + 1)
         /\ g.place = [f.place EXCEPT ![n] = "part"]
         /\ g.data = f.data /\ g.index = f.index /\ g.gaps = f.gaps /\ g.synced = f.synced
         /\ g.torn = f.torn /\ g.meta = f.meta /\ g.open = f.open
<1> DEFINE r == Left(p, k + 1)
           h == [f EXCEPT !.todo = r]
<1>1. r \in Seq(Ops) /\ f.todo[1] = <<"open", n>> /\ Tail(f.todo) = r
  BY LeftSteps
<1> HIDE DEF r
<1>2. /\ h \in FileType /\ h.todo = r /\ h.place = f.place
      /\ h.data = f.data /\ h.index = f.index /\ h.gaps = f.gaps /\ h.synced = f.synced
      /\ h.torn = f.torn /\ h.meta = f.meta /\ h.open = f.open
  BY <1>1 DEF FileType
<1>3. f.todo[1][1] = "open" /\ f.todo[1][2] = n BY <1>1
<1>4. g = [h EXCEPT !.place[n] = "part"] BY <1>1, <1>3 DEF Effect
<1>5. Left(p, k + 1) = r BY DEF r
<1> HIDE DEF h
<1>7. h \in FileType /\ n \in Counted BY <1>2
<1>6. /\ g \in FileType /\ g.todo = h.todo
      /\ g.place = [h.place EXCEPT ![n] = "part"]
      /\ g.data = h.data /\ g.index = h.index /\ g.gaps = h.gaps /\ g.synced = h.synced
      /\ g.torn = h.torn /\ g.meta = h.meta /\ g.open = h.open
  BY ONLY <1>4, <1>7 DEF FileType, Counted, Files
<1>. QED BY <1>2, <1>5, <1>6

LEMMA MoveStep ==
  ASSUME NEW f \in FileType, NEW p \in Seq(Ops), NEW k \in 1 .. Len(p), f.todo = Left(p, k),
         NEW n \in Files, p[k] = <<"move", n>>, f.place[n] = "part",
         NEW g, g = Effect(f)
  PROVE  /\ g \in FileType /\ g.todo = Left(p, k + 1)
         /\ g.place = [f.place EXCEPT ![n] = "final"]
         /\ g.data = f.data /\ g.index = f.index /\ g.gaps = f.gaps /\ g.synced = f.synced
         /\ g.torn = f.torn /\ g.meta = f.meta /\ g.open = f.open
<1> DEFINE r == Left(p, k + 1)
           h == [f EXCEPT !.todo = r]
<1>1. r \in Seq(Ops) /\ f.todo[1] = <<"move", n>> /\ Tail(f.todo) = r
  BY LeftSteps
<1> HIDE DEF r
<1>2. /\ h \in FileType /\ h.todo = r /\ h.place = f.place
      /\ h.data = f.data /\ h.index = f.index /\ h.gaps = f.gaps /\ h.synced = f.synced
      /\ h.torn = f.torn /\ h.meta = f.meta /\ h.open = f.open
  BY <1>1 DEF FileType
<1>3. f.todo[1][1] = "move" /\ f.todo[1][2] = n BY <1>1
<1>4. g = [h EXCEPT !.place[n] = "final"] BY <1>1, <1>3 DEF Effect
<1>5. Left(p, k + 1) = r BY DEF r
<1> HIDE DEF h
<1>7. h \in FileType /\ n \in Files BY <1>2
<1>6. /\ g \in FileType /\ g.todo = h.todo
      /\ g.place = [h.place EXCEPT ![n] = "final"]
      /\ g.data = h.data /\ g.index = h.index /\ g.gaps = h.gaps /\ g.synced = h.synced
      /\ g.torn = h.torn /\ g.meta = h.meta /\ g.open = h.open
  BY ONLY <1>4, <1>7 DEF FileType, Files
<1>. QED BY <1>2, <1>5, <1>6

LEMMA SyncStep ==
  ASSUME NEW f \in FileType, NEW p \in Seq(Ops), NEW k \in 1 .. Len(p), f.todo = Left(p, k),
         NEW n \in Counted, p[k] = <<"sync", n>>,
         NEW g, g = Effect(f)
  PROVE  /\ g \in FileType /\ g.todo = Left(p, k + 1)
         /\ g.place = f.place
         /\ g.data = f.data /\ g.index = f.index /\ g.gaps = f.gaps
         /\ g.synced.data = IF n = "data" THEN f.data ELSE f.synced.data
         /\ g.synced.index = IF n = "index" THEN f.index ELSE f.synced.index
         /\ g.synced.gaps = IF n = "gaps" THEN f.gaps ELSE f.synced.gaps
         /\ g.torn = f.torn /\ g.meta = f.meta /\ g.open = f.open
<1> DEFINE r == Left(p, k + 1)
           h == [f EXCEPT !.todo = r]
<1>1. r \in Seq(Ops) /\ f.todo[1] = <<"sync", n>> /\ Tail(f.todo) = r
  BY LeftSteps
<1> HIDE DEF r
<1>2. /\ h \in FileType /\ h.todo = r /\ h.place = f.place
      /\ h.data = f.data /\ h.index = f.index /\ h.gaps = f.gaps /\ h.synced = f.synced
      /\ h.torn = f.torn /\ h.meta = f.meta /\ h.open = f.open
  BY <1>1 DEF FileType
<1>3. f.todo[1][1] = "sync" /\ f.todo[1][2] = n BY <1>1
<1>4. g = [h EXCEPT !.synced[n] = f[n]] BY <1>1, <1>3 DEF Effect
<1>5. Left(p, k + 1) = r BY DEF r
<1> HIDE DEF h
<1>7. h \in FileType /\ n \in Counted BY <1>2
<1>6. /\ g \in FileType /\ g.todo = h.todo
      /\ g.place = h.place
      /\ g.data = h.data /\ g.index = h.index /\ g.gaps = h.gaps
      /\ g.synced.data = IF n = "data" THEN h.data ELSE h.synced.data
      /\ g.synced.index = IF n = "index" THEN h.index ELSE h.synced.index
      /\ g.synced.gaps = IF n = "gaps" THEN h.gaps ELSE h.synced.gaps
      /\ g.torn = h.torn /\ g.meta = h.meta /\ g.open = h.open
  <2> DEFINE m == [h.synced EXCEPT ![n] = h[n]]
  <2>1. /\ h.synced \in Counts
        /\ n = "data" \/ n = "index" \/ n = "gaps"
    BY ONLY <1>7 DEF FileType, Counted
  <2>2. h["data"] \in Nat /\ h["index"] \in Nat /\ h["gaps"] \in Nat
    BY ONLY <1>7 DEF FileType
  <2>3. /\ m \in Counts
        /\ m.data = IF n = "data" THEN h.data ELSE h.synced.data
        /\ m.index = IF n = "index" THEN h.index ELSE h.synced.index
        /\ m.gaps = IF n = "gaps" THEN h.gaps ELSE h.synced.gaps
    <3>1. CASE n = "data" BY ONLY <2>1, <2>2, <3>1 DEF Counts
    <3>2. CASE n = "index" BY ONLY <2>1, <2>2, <3>2 DEF Counts
    <3>3. CASE n = "gaps" BY ONLY <2>1, <2>2, <3>3 DEF Counts
    <3>. QED BY ONLY <2>1, <3>1, <3>2, <3>3
  <2>4. g = [h EXCEPT !.synced = m]
    <3>1. f["data"] = h["data"] /\ f["index"] = h["index"] /\ f["gaps"] = h["gaps"]
      BY <1>2
    <3>2. f[n] = h[n] BY ONLY <2>1, <3>1
    <3>. QED BY <1>4, <3>2, Zenon
  <2> HIDE DEF m
  <2>5. /\ g \in FileType /\ g.todo = h.todo /\ g.synced = m
        /\ g.place = h.place /\ g.data = h.data /\ g.index = h.index /\ g.gaps = h.gaps
        /\ g.torn = h.torn /\ g.meta = h.meta /\ g.open = h.open
    BY ONLY <1>7, <2>3, <2>4 DEF FileType
  <2>. QED BY ONLY <2>3, <2>5
<1>. QED BY <1>2, <1>5, <1>6

MetaKinds == {"part", "complete", "recovered", "recoveredComplete"}
Complete == {"complete", "recoveredComplete"}
Own == {"part", "complete"}

LEMMA MetaStep ==
  ASSUME NEW f \in FileType, NEW p \in Seq(Ops), NEW k \in 1 .. Len(p), f.todo = Left(p, k),
         NEW kind \in MetaKinds, p[k] = <<"meta", kind>>,
         NEW g, g = Effect(f)
  PROVE  /\ g \in FileType /\ g.todo = Left(p, k + 1)
         /\ g.place = [f.place EXCEPT !["meta"] = "part"]
         /\ g.data = f.data /\ g.index = f.index /\ g.gaps = f.gaps /\ g.synced = f.synced
         /\ g.torn = f.torn /\ g.open = f.open
         /\ g.meta.blocks = f.index
         /\ g.meta.completed = (kind \in Complete)
         /\ g.meta.gaps = IF kind \notin Own THEN f.meta.gaps ELSE f.gaps
<1> DEFINE r == Left(p, k + 1)
           h == [f EXCEPT !.todo = r]
<1>1. r \in Seq(Ops) /\ f.todo[1] = <<"meta", kind>> /\ Tail(f.todo) = r
  BY LeftSteps
<1> HIDE DEF r
<1>2. /\ h \in FileType /\ h.todo = r /\ h.place = f.place
      /\ h.data = f.data /\ h.index = f.index /\ h.gaps = f.gaps /\ h.synced = f.synced
      /\ h.torn = f.torn /\ h.meta = f.meta /\ h.open = f.open
  BY <1>1 DEF FileType
<1>3. f.todo[1][1] = "meta" /\ f.todo[1][2] = kind BY <1>1
<1>4. g = WriteMetadata(h, kind) BY <1>1, <1>3 DEF Effect
<1>5. Left(p, k + 1) = r BY DEF r
<1> HIDE DEF h
<1>6. /\ g \in FileType /\ g.todo = h.todo
      /\ g.place = [h.place EXCEPT !["meta"] = "part"]
      /\ g.data = h.data /\ g.index = h.index /\ g.gaps = h.gaps /\ g.synced = h.synced
      /\ g.torn = h.torn /\ g.open = h.open
      /\ g.meta.blocks = h.index
      /\ g.meta.completed = (kind \in Complete)
      /\ g.meta.gaps = IF kind \notin Own THEN h.meta.gaps ELSE h.gaps
  <2> DEFINE recovered == kind \notin Own
             m == [known |-> h.meta.known \/ h.index > 0,
                   completed |-> kind \in Complete,
                   blocks |-> h.index, gaps |-> IF recovered THEN h.meta.gaps ELSE h.gaps]
  <2>1. m \in MetadataType BY <1>2, <1>4 DEF FileType, MetadataType
  <2>3. g = [h EXCEPT !.place["meta"] = "part", !.meta = m]
    BY <1>2, <1>4 DEF WriteMetadata, MetaKinds, Own, Complete
  <2>4. /\ m.blocks = h.index /\ m.completed = (kind \in Complete)
        /\ m.gaps = IF recovered THEN h.meta.gaps ELSE h.gaps
    OBVIOUS
  <2> HIDE DEF m
  <2>5. g.meta = m /\ g.todo = h.todo BY <1>2, <1>4, <2>3 DEF FileType
  <2>7. [h.place EXCEPT !["meta"] = "part"] \in [Files -> {"none", "part", "final"}]
    BY <1>2, <1>4 DEF FileType, Files
  <2>8. g.place = [h.place EXCEPT !["meta"] = "part"]
    BY <1>2, <1>4, <2>3 DEF FileType
  <2>9. g = [[h EXCEPT !.place = [h.place EXCEPT !["meta"] = "part"]] EXCEPT !.meta = m]
    BY <1>2, <1>4, <2>3 DEF FileType
  <2>10. g \in FileType BY <1>2, <1>4, <2>1, <2>7, <2>9 DEF FileType
  <2>6. /\ g.data = h.data /\ g.index = h.index /\ g.gaps = h.gaps /\ g.synced = h.synced
        /\ g.torn = h.torn /\ g.open = h.open
    BY <1>2, <1>4, <2>3 DEF FileType
  <2>. QED BY <1>2, <1>4, <2>4, <2>5, <2>6, <2>8, <2>10
<1>. QED BY <1>2, <1>5, <1>6

LEMMA TruncateStep ==
  ASSUME NEW f \in FileType, NEW p \in Seq(Ops), NEW k \in 1 .. Len(p), f.todo = Left(p, k),
         p[k] = <<"trim", "data">>,
         NEW g, g = Effect(f)
  PROVE  /\ g \in FileType /\ g.todo = Left(p, k + 1)
         /\ g.place = f.place
         /\ g.data <= f.data /\ g.synced.data = g.data
         /\ \A m \in Nat : m * BlockBytes <= f.data => m * BlockBytes <= g.data
         /\ g.index = f.index /\ g.gaps = f.gaps
         /\ g.synced.index = f.synced.index /\ g.synced.gaps = f.synced.gaps
         /\ g.torn = f.torn /\ g.meta = f.meta /\ g.open = f.open
<1> DEFINE r == Left(p, k + 1)
           h == [f EXCEPT !.todo = r]
<1>1. r \in Seq(Ops) /\ f.todo[1] = <<"trim", "data">> /\ Tail(f.todo) = r
  BY LeftSteps
<1> HIDE DEF r
<1>2. /\ h \in FileType /\ h.todo = r /\ h.place = f.place
      /\ h.data = f.data /\ h.index = f.index /\ h.gaps = f.gaps /\ h.synced = f.synced
      /\ h.torn = f.torn /\ h.meta = f.meta /\ h.open = f.open
  BY <1>1 DEF FileType
<1>3. f.todo[1][1] = "trim" /\ f.todo[1][2] = "data" BY <1>1
<1>4. g = Truncate(h) BY <1>1, <1>3 DEF Effect
<1>5. Left(p, k + 1) = r BY DEF r
<1> HIDE DEF h
<1> DEFINE safe == h.data - (h.data % Width)
<1>6. h.data \in Nat BY <1>2 DEF FileType
<1>7. /\ safe \in Nat /\ safe <= h.data
      /\ \A m \in Nat : m * BlockBytes <= h.data => m * BlockBytes <= safe
  BY ONLY <1>6 DEF Width, BlockBytes
<1>8. g = [h EXCEPT !.data = safe, !.synced.data = safe] BY <1>4 DEF Truncate
<1> HIDE DEF safe
<1>9. h \in FileType /\ safe \in Nat BY <1>2, <1>7
<1>10. /\ g \in FileType /\ g.todo = h.todo
       /\ g.place = h.place
       /\ g.data = safe /\ g.index = h.index /\ g.gaps = h.gaps
       /\ g.synced.data = safe /\ g.synced.index = h.synced.index
       /\ g.synced.gaps = h.synced.gaps
       /\ g.torn = h.torn /\ g.meta = h.meta /\ g.open = h.open
  BY ONLY <1>8, <1>9 DEF FileType, Counts
<1>. QED BY <1>2, <1>5, <1>7, <1>10

-----------------------------------------------------------------------------
(* What is whole, and what a recovery retains                              *)

LEMMA RetainedIs ==
  ASSUME NEW f \in FileType
  PROVE  /\ Retained(f) \in 0 .. f.index
         /\ Retained(f) * BlockBytes <= f.data
         /\ \A m \in Nat : m <= f.index /\ m * BlockBytes <= f.data => m <= Retained(f)
<1> DEFINE P(n) == /\ n * BlockBytes <= f.data
                   /\ n < f.index => (n + 1) * BlockBytes > f.data
           w == IF f.index * BlockBytes <= f.data THEN f.index ELSE f.data \div BlockBytes
<1>1. f.index \in Nat /\ f.data \in Nat BY DEF FileType
<1>2. w \in 0 .. f.index /\ P(w) BY ONLY <1>1 DEF BlockBytes, Width
<1> HIDE DEF w
<1>3. \E n \in 0 .. f.index : P(n) BY <1>2
<1>4. Retained(f) = CHOOSE n \in 0 .. f.index : P(n) BY DEF Retained
<1>5. Retained(f) \in 0 .. f.index /\ P(Retained(f)) BY <1>3, <1>4
<1> DEFINE v == Retained(f)
<1>6. v \in 0 .. f.index /\ P(v) BY <1>5
<1> HIDE DEF v
<1>7. \A m \in Nat : m <= f.index /\ m * BlockBytes <= f.data => m <= v
  BY <1>1, <1>6 DEF BlockBytes, Width
<1>. QED BY <1>6, <1>7 DEF v

LEMMA WholeIs ==
  ASSUME NEW f \in FileType
  PROVE  /\ Whole(f) \in Nat /\ Whole(f) <= f.synced.index
         /\ Whole(f) * BlockBytes <= f.synced.data
         /\ \A m \in Nat : m <= f.synced.index /\ m * BlockBytes <= f.synced.data => m <= Whole(f)
<1> DEFINE i == f.synced.index
           d == f.synced.data
<1>1. i \in Nat /\ d \in Nat BY DEF FileType, Counts
<1>2. Whole(f) = IF i * BlockBytes <= d THEN i ELSE d \div BlockBytes
  BY DEF Whole
<1> HIDE DEF i, d
<1> DEFINE v == Whole(f)
<1>3. v = IF i * BlockBytes <= d THEN i ELSE d \div BlockBytes BY <1>2
<1> HIDE DEF v
<1>4. /\ v \in Nat /\ v <= i /\ v * BlockBytes <= d
      /\ \A m \in Nat : m <= i /\ m * BlockBytes <= d => m <= v
  BY ONLY <1>1, <1>3 DEF BlockBytes, Width
<1>. QED BY <1>4 DEF v, i, d

(* More on the disk is at least as much that is whole.                     *)
LEMMA WholeGrows ==
  ASSUME NEW f \in FileType, NEW g \in FileType,
         Whole(f) <= g.synced.index, Whole(f) * BlockBytes <= g.synced.data
  PROVE  Whole(g) >= Whole(f)
<1>1. Whole(f) \in Nat /\ Whole(g) \in Nat BY WholeIs
<1>2. Whole(f) <= Whole(g) BY <1>1, WholeIs
<1>. QED BY <1>1, <1>2

LEMMA TrimIndexStep ==
  ASSUME NEW f \in FileType, NEW p \in Seq(Ops), NEW k \in 1 .. Len(p), f.todo = Left(p, k),
         p[k] = <<"trim", "index">>,
         NEW g, g = Effect(f)
  PROVE  /\ g \in FileType
         /\ g.place = f.place /\ g.data = f.data /\ g.gaps = f.gaps
         /\ g.synced.data = f.synced.data /\ g.synced.gaps = f.synced.gaps
         /\ g.torn = f.torn /\ g.meta = f.meta /\ g.open = f.open
         /\ f.torn => g.todo = <<>> /\ g.index = f.index /\ g.synced.index = f.synced.index
         /\ ~f.torn => /\ g.todo = Left(p, k + 1)
                       /\ g.index = Retained(f) /\ g.synced.index = Retained(f)
<1> DEFINE r == Left(p, k + 1)
           h == [f EXCEPT !.todo = r]
<1>1. r \in Seq(Ops) /\ f.todo[1] = <<"trim", "index">> /\ Tail(f.todo) = r
  BY LeftSteps
<1> HIDE DEF r
<1>2. /\ h \in FileType /\ h.todo = r /\ h.place = f.place
      /\ h.data = f.data /\ h.index = f.index /\ h.gaps = f.gaps /\ h.synced = f.synced
      /\ h.torn = f.torn /\ h.meta = f.meta /\ h.open = f.open
  BY <1>1 DEF FileType
<1>3. f.todo[1][1] = "trim" /\ f.todo[1][2] = "index" BY <1>1
<1>4. g = TrimIndex(h) BY <1>1, <1>3 DEF Effect
<1>5. Left(p, k + 1) = r BY DEF r
<1>6. Retained(h) = Retained(f) BY <1>2 DEF Retained
<1> HIDE DEF h
<1> DEFINE n == Retained(f)
<1>7. h \in FileType /\ n \in Nat
  <2>1. n \in 0 .. f.index /\ f.index \in Nat BY RetainedIs DEF FileType
  <2>. QED BY <1>2, <2>1
<1>8. ~f.torn => g = [h EXCEPT !.index = n, !.synced.index = n]
  BY <1>2, <1>4, <1>6 DEF TrimIndex
<1>9. f.torn => g = [h EXCEPT !.failed = TRUE, !.todo = <<>>]
  BY <1>2, <1>4 DEF TrimIndex
<1> HIDE DEF n
<1>10. CASE f.torn
  <2> DEFINE none == <<>>
  <2>0. none \in Seq(Ops) OBVIOUS
  <2>1. g = [h EXCEPT !.failed = TRUE, !.todo = none] BY <1>9, <1>10
  <2> HIDE DEF none
  <2>2. /\ g \in FileType /\ g.todo = none
        /\ g.place = h.place /\ g.data = h.data /\ g.index = h.index /\ g.gaps = h.gaps
        /\ g.synced = h.synced /\ g.torn = h.torn /\ g.meta = h.meta /\ g.open = h.open
    BY ONLY <1>7, <2>0, <2>1 DEF FileType
  <2>. QED BY <1>2, <1>10, <2>2 DEF none
<1>11. CASE ~f.torn
  <2>1. g = [h EXCEPT !.index = n, !.synced.index = n] BY <1>8, <1>11
  <2>2. /\ g \in FileType /\ g.todo = h.todo
        /\ g.place = h.place
        /\ g.data = h.data /\ g.index = n /\ g.gaps = h.gaps
        /\ g.synced.data = h.synced.data /\ g.synced.index = n
        /\ g.synced.gaps = h.synced.gaps
        /\ g.torn = h.torn /\ g.meta = h.meta /\ g.open = h.open
    <3> DEFINE c == [h.synced EXCEPT !.index = n]
    <3>1. h.synced \in Counts BY ONLY <1>7 DEF FileType
    <3>2. c \in Counts /\ c.data = h.synced.data /\ c.index = n /\ c.gaps = h.synced.gaps
      BY ONLY <1>7, <3>1 DEF Counts
    <3>3. g = [h EXCEPT !.index = n, !.synced = c]
      BY ONLY <1>7, <2>1 DEF FileType
    <3> HIDE DEF c
    <3>4. /\ g \in FileType /\ g.todo = h.todo /\ g.synced = c
          /\ g.place = h.place /\ g.data = h.data /\ g.index = n /\ g.gaps = h.gaps
          /\ g.torn = h.torn /\ g.meta = h.meta /\ g.open = h.open
      BY ONLY <1>7, <3>2, <3>3 DEF FileType
    <3>. QED BY ONLY <3>2, <3>4
  <2>. QED BY <1>2, <1>5, <1>11, <2>2 DEF n
<1>. QED BY <1>10, <1>11

-----------------------------------------------------------------------------
(* An effect keeps what is sound                                           *)

(* What an effect owes to the service and to the recording.                *)
Kept(f, g) ==
  /\ FileInv(g) /\ Whole(g) >= Whole(f) /\ g.open = f.open
  /\ f.place["data"] # "none" => g.place["data"] # "none"
  /\ f.place["meta"] # "none" => g.place["meta"] # "none"

LEMMA AtMost == \A a, b, c \in Nat : a <= b /\ b <= c => a <= c
OBVIOUS

LEMMA SyncKeeps ==
  ASSUME NEW f, Sound(f), NEW p \in Seq(Ops), NEW k \in 1 .. 3, k < Len(p), f.todo = Left(p, k),
         p[1] = <<"sync", "data">>, p[2] = <<"sync", "index">>, p[3] = <<"sync", "gaps">>,
         Synced(f, k), NEW g, g = Effect(f)
  PROVE  /\ Sound(g) /\ Synced(g, k + 1) /\ Whole(g) >= Whole(f)
         /\ g.todo = Left(p, k + 1) /\ g.place = f.place /\ g.data = f.data /\ g.index = f.index
         /\ g.torn = f.torn /\ g.open = f.open
<1>1. f \in FileType /\ k \in 1 .. Len(p) BY DEF Sound
<1>2. PICK n \in Counted : /\ p[k] = <<"sync", n>>
                           /\ k = 1 => n = "data"
                           /\ k = 2 => n = "index"
                           /\ k = 3 => n = "gaps"
  <2>1. CASE k = 1 BY <2>1 DEF Counted
  <2>2. CASE k = 2 BY <2>2 DEF Counted
  <2>3. CASE k = 3 BY <2>3 DEF Counted
  <2>. QED BY <2>1, <2>2, <2>3
<1>3. /\ g \in FileType /\ g.todo = Left(p, k + 1)
      /\ g.place = f.place
      /\ g.data = f.data /\ g.index = f.index /\ g.gaps = f.gaps
      /\ g.synced.data = IF n = "data" THEN f.data ELSE f.synced.data
      /\ g.synced.index = IF n = "index" THEN f.index ELSE f.synced.index
      /\ g.synced.gaps = IF n = "gaps" THEN f.gaps ELSE f.synced.gaps
      /\ g.torn = f.torn /\ g.meta = f.meta /\ g.open = f.open
  BY <1>1, <1>2, SyncStep
<1>4. /\ f.data \in Nat /\ f.index \in Nat /\ f.gaps \in Nat
      /\ f.synced.data \in Nat /\ f.synced.index \in Nat /\ f.synced.gaps \in Nat
      /\ f.meta.blocks \in Nat /\ f.meta.gaps \in Nat
  BY <1>1 DEF FileType, Counts, MetadataType
<1>5. /\ f.synced.data <= g.synced.data /\ g.synced.data <= f.data
      /\ f.synced.index <= g.synced.index /\ g.synced.index <= f.index
      /\ f.synced.gaps <= g.synced.gaps /\ g.synced.gaps <= f.gaps
      /\ g.synced.data \in Nat /\ g.synced.index \in Nat /\ g.synced.gaps \in Nat
  BY <1>3, <1>4 DEF Sound
<1>6. Sound(g)
  <2>1. /\ g.meta.blocks <= g.synced.index /\ g.meta.blocks * BlockBytes <= g.synced.data
        /\ g.meta.gaps <= g.synced.gaps
    <3>1. /\ f.meta.blocks <= f.synced.index /\ f.meta.blocks * BlockBytes <= f.synced.data
          /\ f.meta.gaps <= f.synced.gaps
      BY DEF Sound
    <3>2. f.meta.blocks * BlockBytes \in Nat BY <1>4 DEF BlockBytes, Width
    <3>3. /\ f.meta.blocks <= g.synced.index /\ f.meta.blocks * BlockBytes <= g.synced.data
          /\ f.meta.gaps <= g.synced.gaps
      BY ONLY <1>4, <1>5, <3>1, <3>2, AtMost, Zenon
    <3>. QED BY <1>3, <3>3
  <2>2. g.place["meta"] = "final" => Sealed(g)
    BY <1>3, <1>4, <1>5 DEF Sound, Sealed, Full
  <2>3. g.place["data"] = "none" => Fresh(g)
    BY <1>3, <1>4, <1>5 DEF Sound, Fresh
  <2>. QED BY <1>3, <1>5, <2>1, <2>2, <2>3 DEF Sound
<1>7. Synced(g, k + 1) BY <1>2, <1>3 DEF Synced
<1>8. Whole(g) >= Whole(f)
  <2>1. /\ Whole(f) \in Nat /\ Whole(f) <= f.synced.index
        /\ Whole(f) * BlockBytes <= f.synced.data
    BY <1>1, WholeIs
  <2>2. Whole(f) * BlockBytes \in Nat BY <2>1 DEF BlockBytes, Width
  <2>3. Whole(f) <= g.synced.index /\ Whole(f) * BlockBytes <= g.synced.data
    BY ONLY <1>4, <1>5, <2>1, <2>2, AtMost, Zenon
  <2>. QED BY <1>1, <1>3, <2>3, WholeGrows
<1>. QED BY <1>3, <1>6, <1>7, <1>8

(* The metadata are written when all they say is on the disk.              *)
LEMMA MetaKeeps ==
  ASSUME NEW f, Sound(f), NEW p \in Seq(Ops), NEW k \in 1 .. Len(p), f.todo = Left(p, k),
         NEW kind \in MetaKinds, p[k] = <<"meta", kind>>,
         f.place["gaps"] # "none",
         f.index * BlockBytes <= f.data, f.synced.data = f.data, f.synced.index = f.index,
         kind \in Own => f.synced.gaps = f.gaps,
         NEW g, g = Effect(f)
  PROVE  /\ Sound(g) /\ Whole(g) >= Whole(f)
         /\ g.todo = Left(p, k + 1)
         /\ Places(g, f.place["data"], f.place["index"], f.place["gaps"], "part")
         /\ g.data = f.data /\ g.index = f.index /\ g.gaps = f.gaps /\ g.synced = f.synced
         /\ g.torn = f.torn /\ g.open = f.open /\ g.meta.blocks = g.index
         /\ g.meta.completed = (kind \in Complete)
<1>1. f \in FileType BY DEF Sound
<1>2. /\ g \in FileType /\ g.todo = Left(p, k + 1)
      /\ g.place = [f.place EXCEPT !["meta"] = "part"]
      /\ g.data = f.data /\ g.index = f.index /\ g.gaps = f.gaps /\ g.synced = f.synced
      /\ g.torn = f.torn /\ g.open = f.open
      /\ g.meta.blocks = f.index
      /\ g.meta.completed = (kind \in Complete)
      /\ g.meta.gaps = IF kind \notin Own THEN f.meta.gaps ELSE f.gaps
  BY <1>1, MetaStep
<1>3. /\ f.data \in Nat /\ f.index \in Nat /\ f.gaps \in Nat /\ f.synced.gaps \in Nat
      /\ f.place \in [Files -> {"none", "part", "final"}]
  BY <1>1 DEF FileType, Counts
<1>4. /\ g.place["data"] = f.place["data"] /\ g.place["index"] = f.place["index"]
      /\ g.place["gaps"] = f.place["gaps"] /\ g.place["meta"] = "part"
  BY <1>2, <1>3 DEF Files
<1>5. InOrder(g.place) /\ g.place["data"] # "none" BY <1>4 DEF Sound, InOrder
<1>6. /\ g.meta.blocks <= g.synced.index /\ g.meta.blocks * BlockBytes <= g.synced.data
      /\ g.meta.gaps <= g.synced.gaps
  BY <1>2, <1>3 DEF Sound
<1>7. Sound(g) BY <1>2, <1>4, <1>5, <1>6 DEF Sound
<1>8. Whole(g) = Whole(f) BY <1>2 DEF Whole
<1>9. Whole(f) \in Nat BY <1>1, WholeIs
<1>. QED BY <1>2, <1>4, <1>7, <1>8, <1>9 DEF Places

LEMMA MoveKeeps ==
  ASSUME NEW f, Sound(f), NEW p \in Seq(Ops), NEW k \in 1 .. Len(p), f.todo = Left(p, k),
         NEW n \in Files, p[k] = <<"move", n>>, f.place[n] = "part",
         InOrder([f.place EXCEPT ![n] = "final"]), n = "meta" => Sealed(f),
         f.place["meta"] = "part",
         NEW g, g = Effect(f)
  PROVE  /\ Sound(g) /\ Whole(g) >= Whole(f)
         /\ g.todo = Left(p, k + 1) /\ g.place = [f.place EXCEPT ![n] = "final"]
         /\ g.data = f.data /\ g.index = f.index /\ g.gaps = f.gaps /\ g.synced = f.synced
         /\ g.torn = f.torn /\ g.meta = f.meta /\ g.open = f.open
<1>1. f \in FileType BY DEF Sound
<1>2. /\ g \in FileType /\ g.todo = Left(p, k + 1)
      /\ g.place = [f.place EXCEPT ![n] = "final"]
      /\ g.data = f.data /\ g.index = f.index /\ g.gaps = f.gaps /\ g.synced = f.synced
      /\ g.torn = f.torn /\ g.meta = f.meta /\ g.open = f.open
  BY <1>1, MoveStep
<1>3. f.place \in [Files -> {"none", "part", "final"}] BY <1>1 DEF FileType
<1>4. /\ n # "meta" => g.place["meta"] = "part"
      /\ g.place["data"] # "none"
  BY <1>2, <1>3 DEF Files, Sound, InOrder
<1>5. g.place["meta"] = "final" => Sealed(g) BY <1>2, <1>4 DEF Sealed, Full
<1>6. Sound(g) BY <1>2, <1>4, <1>5 DEF Sound
<1>7. Whole(g) = Whole(f) BY <1>2 DEF Whole
<1>8. Whole(f) \in Nat BY <1>1, WholeIs
<1>. QED BY <1>2, <1>6, <1>7, <1>8

-----------------------------------------------------------------------------
(* Every step of a program leads to the next                               *)

LEMMA OpeningGoes ==
  ASSUME NEW f, Sound(f), NEW k \in 1 .. 4, Opening(f, k), NEW g, g = Effect(f)
  PROVE  Kept(f, g)
<1> DEFINE p == OpeningProgram
<1>1. /\ f \in FileType /\ p \in Seq(Ops) /\ k \in 1 .. Len(p) /\ f.todo = Left(p, k)
      /\ Len(p) = 4
  BY ProgramsAreOps DEF Sound, Opening
<1>2. /\ p[1] = <<"open", "data">> /\ p[2] = <<"open", "index">>
      /\ p[3] = <<"open", "gaps">> /\ p[4] = <<"meta", "part">>
  BY DEF OpeningProgram
<1> HIDE DEF p
<1>3. f.place \in [Files -> {"none", "part", "final"}] /\ Whole(f) \in Nat
  BY <1>1, WholeIs DEF FileType
<1>4. ASSUME NEW n \in Counted, p[k] = <<"open", n>>, k < 4, InOrder([f.place EXCEPT ![n] = "part"]),
             n # "data" => f.place["data"] = "part"
      PROVE  /\ Sound(g) /\ Fresh(g) /\ Whole(g) >= Whole(f) /\ g.open = f.open
             /\ g.todo = Left(p, k + 1) /\ g.place = [f.place EXCEPT ![n] = "part"]
             /\ g.place["data"] = "part"
  <2>1. /\ g \in FileType /\ g.todo = Left(p, k + 1)
        /\ g.place = [f.place EXCEPT ![n] = "part"]
        /\ g.data = f.data /\ g.index = f.index /\ g.gaps = f.gaps /\ g.synced = f.synced
        /\ g.torn = f.torn /\ g.meta = f.meta /\ g.open = f.open
    BY <1>1, <1>4, OpenStep
  <2>2. g.place["data"] = "part" /\ g.place["meta"] = "none"
    BY <1>3, <1>4, <2>1 DEF Opening, Places, Counted, Files
  <2>3. Fresh(g) BY <2>1 DEF Opening, Fresh
  <2>4. Sound(g) BY <1>4, <2>1, <2>2 DEF Sound
  <2>5. Whole(g) = Whole(f) BY <2>1 DEF Whole
  <2>. QED BY <1>3, <2>1, <2>2, <2>3, <2>4, <2>5
<1>5. CASE k = 1
  <2>1. Places(f, "none", "none", "none", "none") BY <1>5 DEF Opening, Made
  <2>2. InOrder([f.place EXCEPT !["data"] = "part"])
    BY <1>3, <2>1 DEF Places, InOrder, Files
  <2>3. /\ Sound(g) /\ Fresh(g) /\ Whole(g) >= Whole(f) /\ g.open = f.open
        /\ g.todo = Left(p, 2) /\ g.place = [f.place EXCEPT !["data"] = "part"]
        /\ g.place["data"] = "part"
    BY <1>2, <1>4, <1>5, <2>2 DEF Counted
  <2>4. Places(g, "part", "none", "none", "none")
    BY <1>3, <2>1, <2>3 DEF Places, Files
  <2>5. Opening(g, 2) BY <2>3, <2>4 DEF Opening, Made, p
  <2>. QED BY <2>3, <2>5 DEF Kept, FileInv
<1>6. CASE k = 2
  <2>1. Places(f, "part", "none", "none", "none") BY <1>6 DEF Opening, Made
  <2>2. InOrder([f.place EXCEPT !["index"] = "part"])
    BY <1>3, <2>1 DEF Places, InOrder, Files
  <2>3. /\ Sound(g) /\ Fresh(g) /\ Whole(g) >= Whole(f) /\ g.open = f.open
        /\ g.todo = Left(p, 3) /\ g.place = [f.place EXCEPT !["index"] = "part"]
        /\ g.place["data"] = "part"
    BY <1>2, <1>4, <1>6, <2>1, <2>2 DEF Counted, Places
  <2>4. Places(g, "part", "part", "none", "none")
    BY <1>3, <2>1, <2>3 DEF Places, Files
  <2>5. Opening(g, 3) BY <2>3, <2>4 DEF Opening, Made, p
  <2>. QED BY <2>3, <2>5 DEF Kept, FileInv
<1>7. CASE k = 3
  <2>1. Places(f, "part", "part", "none", "none") BY <1>7 DEF Opening, Made
  <2>2. InOrder([f.place EXCEPT !["gaps"] = "part"])
    BY <1>3, <2>1 DEF Places, InOrder, Files
  <2>3. /\ Sound(g) /\ Fresh(g) /\ Whole(g) >= Whole(f) /\ g.open = f.open
        /\ g.todo = Left(p, 4) /\ g.place = [f.place EXCEPT !["gaps"] = "part"]
        /\ g.place["data"] = "part"
    BY <1>2, <1>4, <1>7, <2>1, <2>2 DEF Counted, Places
  <2>4. Places(g, "part", "part", "part", "none")
    BY <1>3, <2>1, <2>3 DEF Places, Files
  <2>5. Opening(g, 4) BY <2>3, <2>4 DEF Opening, Made, p
  <2>. QED BY <2>3, <2>5 DEF Kept, FileInv
<1>8. CASE k = 4
  <2>1. Places(f, "part", "part", "part", "none") /\ Fresh(f)
    BY <1>8 DEF Opening, Made
  <2>2. /\ f.index * BlockBytes <= f.data /\ f.synced.data = f.data
        /\ f.synced.index = f.index /\ f.synced.gaps = f.gaps /\ ~f.torn
        /\ f.place["gaps"] # "none"
    BY <2>1 DEF Fresh, Places, BlockBytes, Width
  <2>3. p[k] = <<"meta", "part">> BY <1>2, <1>8
  <2>4. /\ Sound(g) /\ Whole(g) >= Whole(f)
        /\ g.todo = Left(p, 5)
        /\ Places(g, f.place["data"], f.place["index"], f.place["gaps"], "part")
        /\ g.data = f.data /\ g.index = f.index /\ g.torn = f.torn /\ g.open = f.open
    <3>1. /\ Sound(f) /\ g = Effect(f)
          /\ p \in Seq(Ops) /\ k \in 1 .. Len(p) /\ f.todo = Left(p, k)
          /\ "part" \in MetaKinds /\ p[k] = <<"meta", "part">>
          /\ "part" \in Own => f.synced.gaps = f.gaps
      BY <1>1, <1>2, <1>8, <2>2 DEF MetaKinds
    <3>2. /\ Sound(g) /\ Whole(g) >= Whole(f)
          /\ g.todo = Left(p, k + 1)
          /\ Places(g, f.place["data"], f.place["index"], f.place["gaps"], "part")
          /\ g.data = f.data /\ g.index = f.index /\ g.torn = f.torn /\ g.open = f.open
      BY ONLY <3>1, <2>2, MetaKeeps
    <3>. QED BY <1>8, <3>2
  <2>5. g.todo = <<>> BY <2>4, ProgramsEnd DEF p
  <2>6. AllPart(g) BY <2>1, <2>4 DEF AllPart, Places
  <2>7. Full(g) BY <2>2, <2>4 DEF Full
  <2>8. Resting(g) BY <2>5, <2>6, <2>7 DEF Resting
  <2>. QED BY <2>4, <2>6, <2>8 DEF Kept, FileInv, AllPart, Places
<1>. QED BY <1>5, <1>6, <1>7, <1>8

LEMMA ForcingGoes ==
  ASSUME NEW f, Sound(f), NEW k \in 1 .. 4, Forcing(f, k), NEW g, g = Effect(f)
  PROVE  Kept(f, g)
<1> DEFINE p == ForcingProgram
<1>1. /\ f \in FileType /\ p \in Seq(Ops) /\ k \in 1 .. Len(p) /\ f.todo = Left(p, k)
      /\ Len(p) = 4
  BY ProgramsAreOps DEF Sound, Forcing
<1>2. /\ p[1] = <<"sync", "data">> /\ p[2] = <<"sync", "index">>
      /\ p[3] = <<"sync", "gaps">> /\ p[4] = <<"meta", "part">>
  BY DEF ForcingProgram
<1> HIDE DEF p
<1>3. f.place \in [Files -> {"none", "part", "final"}] /\ Whole(f) \in Nat
  BY <1>1, WholeIs DEF FileType
<1>4. AllPart(f) /\ Full(f) /\ Synced(f, k) BY DEF Forcing
<1>5. CASE k \in 1 .. 3
  <2>1. /\ Sound(g) /\ Synced(g, k + 1) /\ Whole(g) >= Whole(f)
        /\ g.todo = Left(p, k + 1) /\ g.place = f.place /\ g.data = f.data /\ g.index = f.index
        /\ g.torn = f.torn /\ g.open = f.open
    BY <1>1, <1>2, <1>4, <1>5, SyncKeeps
  <2>2. AllPart(g) /\ Full(g) BY <1>4, <2>1 DEF AllPart, Full, Places
  <2>3. Forcing(g, k + 1) /\ k + 1 \in 1 .. 4
    BY <1>5, <2>1, <2>2 DEF Forcing, p
  <2>. QED BY <2>1, <2>2, <2>3 DEF Kept, FileInv, AllPart, Places
<1>6. CASE k = 4
  <2>1. /\ f.index * BlockBytes <= f.data /\ f.synced.data = f.data
        /\ f.synced.index = f.index /\ f.synced.gaps = f.gaps
        /\ f.place["gaps"] # "none"
    BY <1>4, <1>6 DEF Full, Synced, AllPart, Places
  <2>2. p[k] = <<"meta", "part">> BY <1>2, <1>6
  <2>3. /\ Sound(g) /\ Whole(g) >= Whole(f)
        /\ g.todo = Left(p, 5)
        /\ Places(g, f.place["data"], f.place["index"], f.place["gaps"], "part")
        /\ g.data = f.data /\ g.index = f.index /\ g.torn = f.torn /\ g.open = f.open
    <3>1. /\ Sound(f) /\ g = Effect(f)
          /\ p \in Seq(Ops) /\ k \in 1 .. Len(p) /\ f.todo = Left(p, k)
          /\ "part" \in MetaKinds /\ p[k] = <<"meta", "part">>
          /\ "part" \in Own => f.synced.gaps = f.gaps
      BY <1>1, <1>2, <1>6, <2>1 DEF MetaKinds
    <3>2. /\ Sound(g) /\ Whole(g) >= Whole(f)
          /\ g.todo = Left(p, k + 1)
          /\ Places(g, f.place["data"], f.place["index"], f.place["gaps"], "part")
          /\ g.data = f.data /\ g.index = f.index /\ g.torn = f.torn /\ g.open = f.open
      BY ONLY <3>1, <2>1, MetaKeeps
    <3>. QED BY <1>6, <3>2
  <2>4. g.todo = <<>> BY <2>3, ProgramsEnd DEF p
  <2>5. AllPart(g) BY <1>4, <2>3 DEF AllPart, Places
  <2>6. Full(g) BY <1>4, <2>3 DEF Full
  <2>7. Resting(g) BY <2>4, <2>5, <2>6 DEF Resting
  <2>. QED BY <2>3, <2>5, <2>7 DEF Kept, FileInv, AllPart, Places
<1>. QED BY <1>5, <1>6

LEMMA FinalizingGoes ==
  ASSUME NEW f, Sound(f), NEW k \in 1 .. 8, Finalizing(f, k), NEW g, g = Effect(f)
  PROVE  Kept(f, g) /\ Ends(g)
<1> DEFINE p == FinalProgram
<1>1. /\ f \in FileType /\ p \in Seq(Ops) /\ k \in 1 .. Len(p) /\ f.todo = Left(p, k)
      /\ Len(p) = 8
  BY ProgramsAreOps DEF Sound, Finalizing
<1>2. /\ p[1] = <<"sync", "data">> /\ p[2] = <<"sync", "index">>
      /\ p[3] = <<"sync", "gaps">> /\ p[4] = <<"meta", "complete">>
      /\ p[5] = <<"move", "data">> /\ p[6] = <<"move", "index">>
      /\ p[7] = <<"move", "gaps">> /\ p[8] = <<"move", "meta">>
  BY DEF FinalProgram
<1> HIDE DEF p
<1>3. f.place \in [Files -> {"none", "part", "final"}] /\ Whole(f) \in Nat
  BY <1>1, WholeIs DEF FileType
<1>4. ~f.open /\ Full(f) /\ Synced(f, k) BY DEF Finalizing
<1>5. CASE k \in 1 .. 3
  <2>1. /\ Sound(g) /\ Synced(g, k + 1) /\ Whole(g) >= Whole(f)
        /\ g.todo = Left(p, k + 1) /\ g.place = f.place /\ g.data = f.data /\ g.index = f.index
        /\ g.torn = f.torn /\ g.open = f.open
    <3>1. /\ Sound(f) /\ g = Effect(f)
          /\ p \in Seq(Ops) /\ k \in 1 .. 3 /\ k < Len(p) /\ f.todo = Left(p, k)
          /\ p[1] = <<"sync", "data">> /\ p[2] = <<"sync", "index">>
          /\ p[3] = <<"sync", "gaps">> /\ Synced(f, k)
      BY <1>1, <1>2, <1>4, <1>5
    <3>. QED BY ONLY <3>1, SyncKeeps
  <2>2. AllPart(f) BY <1>5 DEF Finalizing, Moved, AllPart
  <2>3. AllPart(g) /\ Full(g) BY <1>4, <2>1, <2>2 DEF AllPart, Full, Places
  <2>4. Finalizing(g, k + 1) /\ k + 1 \in 1 .. 8
    BY <1>4, <1>5, <2>1, <2>3 DEF Finalizing, Moved, AllPart, p
  <2>. QED BY <2>1, <2>3, <2>4 DEF Kept, FileInv, Ends, AllPart, Places
<1>6. CASE k = 4
  <2>1. AllPart(f) BY <1>6 DEF Finalizing, Moved, AllPart
  <2>2. /\ f.index * BlockBytes <= f.data /\ f.synced.data = f.data
        /\ f.synced.index = f.index /\ f.synced.gaps = f.gaps
        /\ f.place["gaps"] # "none"
    BY <1>4, <1>6, <2>1 DEF Full, Synced, AllPart, Places
  <2>3. /\ Sound(f) /\ g = Effect(f)
        /\ p \in Seq(Ops) /\ k \in 1 .. Len(p) /\ f.todo = Left(p, k)
        /\ "complete" \in MetaKinds /\ p[k] = <<"meta", "complete">>
        /\ "complete" \in Own => f.synced.gaps = f.gaps
    BY <1>1, <1>2, <1>6, <2>2 DEF MetaKinds
  <2>4. /\ Sound(g) /\ Whole(g) >= Whole(f)
        /\ g.todo = Left(p, k + 1)
        /\ Places(g, f.place["data"], f.place["index"], f.place["gaps"], "part")
        /\ g.data = f.data /\ g.index = f.index /\ g.gaps = f.gaps /\ g.synced = f.synced
        /\ g.torn = f.torn /\ g.open = f.open /\ g.meta.blocks = g.index
        /\ g.meta.completed = ("complete" \in Complete)
    BY ONLY <2>2, <2>3, MetaKeeps
  <2>5. g.meta.completed BY <2>4 DEF Complete
  <2>6. AllPart(g) /\ Full(g) /\ ~g.open
    BY <1>4, <2>1, <2>4 DEF AllPart, Full, Places
  <2>7. g.synced.data = g.data /\ g.synced.index = g.index BY <2>2, <2>4
  <2>8. Synced(g, 5)
    <3>1. g.synced.gaps = g.gaps BY <2>2, <2>4
    <3>. QED BY <2>7, <3>1 DEF Synced
  <2>9. Finalizing(g, 5)
    BY <1>6, <2>4, <2>5, <2>6, <2>8 DEF Finalizing, Moved, AllPart, p
  <2>. QED BY <2>4, <2>6, <2>9 DEF Kept, FileInv, Ends, AllPart, Places
<1>7. CASE k = 5
  <2>1. Places(f, "part", "part", "part", "part") BY <1>7 DEF Finalizing, Moved
  <2>2. InOrder([f.place EXCEPT !["data"] = "final"])
    BY <1>3, <2>1 DEF Places, InOrder, Files
  <2>3. /\ Sound(f) /\ g = Effect(f)
        /\ p \in Seq(Ops) /\ k \in 1 .. Len(p) /\ f.todo = Left(p, k)
        /\ "data" \in Files /\ p[k] = <<"move", "data">> /\ f.place["data"] = "part"
        /\ f.place["meta"] = "part"
    BY <1>1, <1>2, <1>7, <2>1 DEF Files, Places
  <2>4. "data" = "meta" => Sealed(f) OBVIOUS
  <2>5. /\ Sound(g) /\ Whole(g) >= Whole(f)
        /\ g.todo = Left(p, k + 1) /\ g.place = [f.place EXCEPT !["data"] = "final"]
        /\ g.data = f.data /\ g.index = f.index /\ g.gaps = f.gaps /\ g.synced = f.synced
        /\ g.torn = f.torn /\ g.meta = f.meta /\ g.open = f.open
    BY ONLY <2>2, <2>3, <2>4, MoveKeeps
  <2>6. Places(g, "final", "part", "part", "part")
    BY <1>3, <2>1, <2>5 DEF Places, Files
  <2>7. Finalizing(g, 6)
    BY <1>4, <1>7, <2>5, <2>6 DEF Finalizing, Full, Synced, Moved, p
  <2>. QED BY <2>5, <2>6, <2>7 DEF Kept, FileInv, Ends, Places
<1>8. CASE k = 6
  <2>1. Places(f, "final", "part", "part", "part")
    BY <1>8 DEF Finalizing, Moved
  <2>2. InOrder([f.place EXCEPT !["index"] = "final"])
    BY <1>3, <2>1 DEF Places, InOrder, Files
  <2>3. /\ Sound(f) /\ g = Effect(f)
        /\ p \in Seq(Ops) /\ k \in 1 .. Len(p) /\ f.todo = Left(p, k)
        /\ "index" \in Files /\ p[k] = <<"move", "index">> /\ f.place["index"] = "part"
        /\ f.place["meta"] = "part"
    BY <1>1, <1>2, <1>8, <2>1 DEF Files, Places
  <2>4. "index" = "meta" => Sealed(f) OBVIOUS
  <2>5. /\ Sound(g) /\ Whole(g) >= Whole(f)
        /\ g.todo = Left(p, k + 1) /\ g.place = [f.place EXCEPT !["index"] = "final"]
        /\ g.data = f.data /\ g.index = f.index /\ g.gaps = f.gaps /\ g.synced = f.synced
        /\ g.torn = f.torn /\ g.meta = f.meta /\ g.open = f.open
    BY ONLY <2>2, <2>3, <2>4, MoveKeeps
  <2>6. Places(g, "final", "final", "part", "part")
    BY <1>3, <2>1, <2>5 DEF Places, Files
  <2>7. Finalizing(g, 7)
    BY <1>4, <1>8, <2>5, <2>6 DEF Finalizing, Full, Synced, Moved, p
  <2>. QED BY <2>5, <2>6, <2>7 DEF Kept, FileInv, Ends, Places
<1>9. CASE k = 7
  <2>1. Places(f, "final", "final", "part", "part")
    BY <1>9 DEF Finalizing, Moved
  <2>2. InOrder([f.place EXCEPT !["gaps"] = "final"])
    BY <1>3, <2>1 DEF Places, InOrder, Files
  <2>3. /\ Sound(f) /\ g = Effect(f)
        /\ p \in Seq(Ops) /\ k \in 1 .. Len(p) /\ f.todo = Left(p, k)
        /\ "gaps" \in Files /\ p[k] = <<"move", "gaps">> /\ f.place["gaps"] = "part"
        /\ f.place["meta"] = "part"
    BY <1>1, <1>2, <1>9, <2>1 DEF Files, Places
  <2>4. "gaps" = "meta" => Sealed(f) OBVIOUS
  <2>5. /\ Sound(g) /\ Whole(g) >= Whole(f)
        /\ g.todo = Left(p, k + 1) /\ g.place = [f.place EXCEPT !["gaps"] = "final"]
        /\ g.data = f.data /\ g.index = f.index /\ g.gaps = f.gaps /\ g.synced = f.synced
        /\ g.torn = f.torn /\ g.meta = f.meta /\ g.open = f.open
    BY ONLY <2>2, <2>3, <2>4, MoveKeeps
  <2>6. Places(g, "final", "final", "final", "part")
    BY <1>3, <2>1, <2>5 DEF Places, Files
  <2>7. Finalizing(g, 8)
    BY <1>4, <1>9, <2>5, <2>6 DEF Finalizing, Full, Synced, Moved, p
  <2>. QED BY <2>5, <2>6, <2>7 DEF Kept, FileInv, Ends, Places
<1>10. CASE k = 8
  <2>1. Places(f, "final", "final", "final", "part")
    BY <1>10 DEF Finalizing, Moved
  <2>2. InOrder([f.place EXCEPT !["meta"] = "final"])
    BY <1>3, <2>1 DEF Places, InOrder, Files
  <2>3. /\ Sound(f) /\ g = Effect(f)
        /\ p \in Seq(Ops) /\ k \in 1 .. Len(p) /\ f.todo = Left(p, k)
        /\ "meta" \in Files /\ p[k] = <<"move", "meta">> /\ f.place["meta"] = "part"
        /\ f.place["meta"] = "part"
    BY <1>1, <1>2, <1>10, <2>1 DEF Files, Places
  <2>4. "meta" = "meta" => Sealed(f) BY <1>10 DEF Finalizing, Synced, Sealed
  <2>5. /\ Sound(g) /\ Whole(g) >= Whole(f)
        /\ g.todo = Left(p, k + 1) /\ g.place = [f.place EXCEPT !["meta"] = "final"]
        /\ g.data = f.data /\ g.index = f.index /\ g.gaps = f.gaps /\ g.synced = f.synced
        /\ g.torn = f.torn /\ g.meta = f.meta /\ g.open = f.open
    BY ONLY <2>2, <2>3, <2>4, MoveKeeps
  <2>6. Places(g, "final", "final", "final", "final")
    BY <1>3, <2>1, <2>5 DEF Places, Files
  <2>7. g.todo = <<>> /\ ~g.open BY <1>4, <1>10, <2>5, ProgramsEnd DEF p
  <2>8. Resting(g) BY <2>7 DEF Resting
  <2>. QED BY <2>5, <2>6, <2>8 DEF Kept, FileInv, Ends, Places
<1>. QED BY <1>5, <1>6, <1>7, <1>8, <1>9, <1>10

LEMMA RecoveringGoes ==
  ASSUME NEW f, Sound(f), NEW k \in 1 .. 8, Recovering(f, k), NEW g, g = Effect(f)
  PROVE  Kept(f, g)
<1> DEFINE p == RecoverProgram
<1>1. /\ f \in FileType /\ p \in Seq(Ops) /\ k \in 1 .. Len(p) /\ f.todo = Left(p, k)
      /\ Len(p) = 8
  BY ProgramsAreOps DEF Sound, Recovering
<1>2. /\ p[1] = <<"trim", "data">> /\ p[2] = <<"trim", "index">>
      /\ p[3] = <<"meta", "recovered">> /\ p[4] = <<"move", "data">>
      /\ p[5] = <<"move", "index">> /\ p[6] = <<"move", "gaps">>
      /\ p[7] = <<"meta", "recoveredComplete">> /\ p[8] = <<"move", "meta">>
  BY DEF RecoverProgram
<1> HIDE DEF p
<1>3. f.place \in [Files -> {"none", "part", "final"}] /\ Whole(f) \in Nat
  BY <1>1, WholeIs DEF FileType
<1>4. ~f.open BY DEF Recovering
<1>5. /\ f.data \in Nat /\ f.index \in Nat
      /\ f.synced.data \in Nat /\ f.synced.index \in Nat /\ f.meta.blocks \in Nat
  BY <1>1 DEF FileType, Counts, MetadataType
<1>6. CASE k = 1
  <2>1. AllPart(f) BY <1>6 DEF Recovering, Moved, AllPart
  <2>2. /\ g \in FileType /\ g.todo = Left(p, k + 1)
        /\ g.place = f.place
        /\ g.data <= f.data /\ g.synced.data = g.data
        /\ \A m \in Nat : m * BlockBytes <= f.data => m * BlockBytes <= g.data
        /\ g.index = f.index /\ g.gaps = f.gaps
        /\ g.synced.index = f.synced.index /\ g.synced.gaps = f.synced.gaps
        /\ g.torn = f.torn /\ g.meta = f.meta /\ g.open = f.open
    BY <1>1, <1>2, <1>6, TruncateStep
  <2>3. \A m \in Nat : m * BlockBytes <= f.synced.data => m * BlockBytes <= g.data
    <3>1. f.synced.data <= f.data BY DEF Sound
    <3>2. \A m \in Nat : m * BlockBytes \in Nat BY DEF BlockBytes, Width
    <3>. QED BY ONLY <1>5, <2>2, <3>1, <3>2, AtMost, Zenon
  <2>4. Sound(g)
    <3>1. g.meta.blocks * BlockBytes <= g.synced.data
      BY <1>5, <2>2, <2>3 DEF Sound
    <3>2. g.place["meta"] = "part" /\ g.place["data"] = "part"
      BY <2>1, <2>2 DEF AllPart, Places
    <3>3. g.synced.data <= g.data
      <4>1. g.data \in Nat BY <2>2 DEF FileType
      <4>. QED BY <2>2, <4>1
    <3>. QED BY <2>2, <3>1, <3>2, <3>3 DEF Sound
  <2>5. Whole(g) >= Whole(f)
    <3>1. /\ Whole(f) \in Nat /\ Whole(f) <= f.synced.index
          /\ Whole(f) * BlockBytes <= f.synced.data
      BY <1>1, WholeIs
    <3>2. Whole(f) <= g.synced.index /\ Whole(f) * BlockBytes <= g.synced.data
      BY <2>2, <2>3, <3>1
    <3>. QED BY <1>1, <2>2, <3>2, WholeGrows
  <2>6. Recovering(g, 2)
    BY <1>4, <1>6, <2>1, <2>2 DEF Recovering, Moved, AllPart, Places, p
  <2>. QED BY <2>1, <2>2, <2>4, <2>5, <2>6 DEF Kept, FileInv, AllPart, Places
<1>7. CASE k = 2
  <2>1. AllPart(f) /\ f.synced.data = f.data
    BY <1>7 DEF Recovering, Moved, AllPart
  <2>2. /\ g \in FileType
        /\ g.place = f.place /\ g.data = f.data /\ g.gaps = f.gaps
        /\ g.synced.data = f.synced.data /\ g.synced.gaps = f.synced.gaps
        /\ g.torn = f.torn /\ g.meta = f.meta /\ g.open = f.open
        /\ f.torn => g.todo = <<>> /\ g.index = f.index /\ g.synced.index = f.synced.index
        /\ ~f.torn => /\ g.todo = Left(p, k + 1)
                      /\ g.index = Retained(f) /\ g.synced.index = Retained(f)
    BY <1>1, <1>2, <1>7, TrimIndexStep
  <2>3. g.place["meta"] = "part" /\ g.place["data"] = "part"
    BY <2>1, <2>2 DEF AllPart, Places
  <2>4. CASE f.torn
    <3>1. Sound(g) BY <2>2, <2>3, <2>4 DEF Sound
    <3>2. Whole(g) = Whole(f) BY <2>2, <2>4 DEF Whole
    <3>3. Resting(g) BY <1>4, <2>2, <2>4 DEF Resting
    <3>. QED BY <1>3, <2>2, <2>3, <3>1, <3>2, <3>3 DEF Kept, FileInv
  <2>5. CASE ~f.torn
    <3> DEFINE v == Retained(f)
    <3>1. /\ v \in 0 .. f.index /\ v * BlockBytes <= f.data
          /\ \A m \in Nat : m <= f.index /\ m * BlockBytes <= f.data => m <= v
      BY <1>1, RetainedIs
    <3>2. g.index = v /\ g.synced.index = v /\ g.todo = Left(p, k + 1)
      BY <2>2, <2>5
    <3> HIDE DEF v
    <3>3. v \in Nat BY <1>5, <3>1
    <3>4. \A m \in Nat : m <= f.synced.index /\ m * BlockBytes <= f.synced.data => m <= v
      <4>1. f.synced.index <= f.index BY DEF Sound
      <4>2. \A m \in Nat : m <= f.synced.index => m <= f.index
        BY ONLY <1>5, <4>1, AtMost, Zenon
      <4>. QED BY <2>1, <3>1, <4>2
    <3>5. Full(g) BY <2>2, <2>5, <3>1, <3>2 DEF Full
    <3>6. Sound(g)
      <4>1. g.synced.data <= g.data /\ g.synced.index <= g.index /\ g.synced.gaps <= g.gaps
        BY <1>5, <2>1, <2>2, <3>2, <3>3 DEF Sound
      <4>2. g.meta.blocks <= g.synced.index /\ g.meta.blocks * BlockBytes <= g.synced.data
        BY <1>5, <2>2, <3>2, <3>4 DEF Sound
      <4>. QED BY <2>2, <2>3, <4>1, <4>2 DEF Sound
    <3>7. Whole(g) >= Whole(f)
      <4>1. /\ Whole(f) \in Nat /\ Whole(f) <= f.synced.index
            /\ Whole(f) * BlockBytes <= f.synced.data
        BY <1>1, WholeIs
      <4>2. Whole(f) <= g.synced.index /\ Whole(f) * BlockBytes <= g.synced.data
        BY <2>2, <3>2, <3>4, <4>1
      <4>. QED BY <1>1, <2>2, <4>2, WholeGrows
    <3>8. Recovering(g, 3)
      BY <1>4, <1>7, <2>1, <2>2, <3>2, <3>5 DEF Recovering, Moved, AllPart, Places, p
    <3>. QED BY <2>2, <2>3, <3>6, <3>7, <3>8 DEF Kept, FileInv
  <2>. QED BY <2>4, <2>5
<1>8. CASE k = 3
  <2>1. Places(f, "part", "part", "part", "part") /\ Full(f)
    BY <1>8 DEF Recovering, Moved
  <2>2. /\ f.index * BlockBytes <= f.data /\ f.synced.data = f.data
        /\ f.synced.index = f.index /\ f.place["gaps"] # "none"
    BY <1>8, <2>1 DEF Full, Recovering, Places
  <2>3. /\ Sound(f) /\ g = Effect(f)
        /\ p \in Seq(Ops) /\ k \in 1 .. Len(p) /\ f.todo = Left(p, k)
        /\ "recovered" \in MetaKinds /\ p[k] = <<"meta", "recovered">>
        /\ "recovered" \in Own => f.synced.gaps = f.gaps
    BY <1>1, <1>2, <1>8, <2>2 DEF MetaKinds, Own
  <2>4. /\ Sound(g) /\ Whole(g) >= Whole(f)
        /\ g.todo = Left(p, k + 1)
        /\ Places(g, f.place["data"], f.place["index"], f.place["gaps"], "part")
        /\ g.data = f.data /\ g.index = f.index /\ g.synced = f.synced
        /\ g.torn = f.torn /\ g.open = f.open /\ g.meta.blocks = g.index
        /\ g.meta.completed = ("recovered" \in Complete)
    BY ONLY <2>2, <2>3, MetaKeeps
  <2>5. Places(g, "part", "part", "part", "part") /\ Full(g)
    BY <2>1, <2>4 DEF Full, Places
  <2>6. "recovered" = "recoveredComplete" => g.meta.completed
    BY <2>4 DEF Complete
  <2>7. Recovering(g, 4)
    BY <1>4, <1>8, <2>2, <2>4, <2>5, <2>6 DEF Recovering, Moved, p
  <2>. QED BY <2>4, <2>5, <2>7 DEF Kept, FileInv, Places
<1>9. CASE k = 4
  <2>1. Places(f, "part", "part", "part", "part") BY <1>9 DEF Recovering, Moved
  <2>2. InOrder([f.place EXCEPT !["data"] = "final"])
    BY <1>3, <2>1 DEF Places, InOrder, Files
  <2>3. /\ Sound(f) /\ g = Effect(f)
        /\ p \in Seq(Ops) /\ k \in 1 .. Len(p) /\ f.todo = Left(p, k)
        /\ "data" \in Files /\ p[k] = <<"move", "data">> /\ f.place["data"] = "part"
        /\ f.place["meta"] = "part"
    BY <1>1, <1>2, <1>9, <2>1 DEF Files, Places
  <2>4. "data" = "meta" => Sealed(f) OBVIOUS
  <2>5. /\ Sound(g) /\ Whole(g) >= Whole(f)
        /\ g.todo = Left(p, k + 1) /\ g.place = [f.place EXCEPT !["data"] = "final"]
        /\ g.data = f.data /\ g.index = f.index /\ g.gaps = f.gaps /\ g.synced = f.synced
        /\ g.torn = f.torn /\ g.meta = f.meta /\ g.open = f.open
    BY ONLY <2>2, <2>3, <2>4, MoveKeeps
  <2>6. Places(g, "final", "part", "part", "part")
    BY <1>3, <2>1, <2>5 DEF Places, Files
  <2>7. Recovering(g, 5)
    BY <1>4, <1>9, <2>5, <2>6 DEF Recovering, Full, Synced, Moved, p
  <2>. QED BY <2>5, <2>6, <2>7 DEF Kept, FileInv, Places
<1>10. CASE k = 5
  <2>1. Places(f, "final", "part", "part", "part")
    BY <1>10 DEF Recovering, Moved
  <2>2. InOrder([f.place EXCEPT !["index"] = "final"])
    BY <1>3, <2>1 DEF Places, InOrder, Files
  <2>3. /\ Sound(f) /\ g = Effect(f)
        /\ p \in Seq(Ops) /\ k \in 1 .. Len(p) /\ f.todo = Left(p, k)
        /\ "index" \in Files /\ p[k] = <<"move", "index">> /\ f.place["index"] = "part"
        /\ f.place["meta"] = "part"
    BY <1>1, <1>2, <1>10, <2>1 DEF Files, Places
  <2>4. "index" = "meta" => Sealed(f) OBVIOUS
  <2>5. /\ Sound(g) /\ Whole(g) >= Whole(f)
        /\ g.todo = Left(p, k + 1) /\ g.place = [f.place EXCEPT !["index"] = "final"]
        /\ g.data = f.data /\ g.index = f.index /\ g.gaps = f.gaps /\ g.synced = f.synced
        /\ g.torn = f.torn /\ g.meta = f.meta /\ g.open = f.open
    BY ONLY <2>2, <2>3, <2>4, MoveKeeps
  <2>6. Places(g, "final", "final", "part", "part")
    BY <1>3, <2>1, <2>5 DEF Places, Files
  <2>7. Recovering(g, 6)
    BY <1>4, <1>10, <2>5, <2>6 DEF Recovering, Full, Synced, Moved, p
  <2>. QED BY <2>5, <2>6, <2>7 DEF Kept, FileInv, Places
<1>11. CASE k = 6
  <2>1. Places(f, "final", "final", "part", "part")
    BY <1>11 DEF Recovering, Moved
  <2>2. InOrder([f.place EXCEPT !["gaps"] = "final"])
    BY <1>3, <2>1 DEF Places, InOrder, Files
  <2>3. /\ Sound(f) /\ g = Effect(f)
        /\ p \in Seq(Ops) /\ k \in 1 .. Len(p) /\ f.todo = Left(p, k)
        /\ "gaps" \in Files /\ p[k] = <<"move", "gaps">> /\ f.place["gaps"] = "part"
        /\ f.place["meta"] = "part"
    BY <1>1, <1>2, <1>11, <2>1 DEF Files, Places
  <2>4. "gaps" = "meta" => Sealed(f) OBVIOUS
  <2>5. /\ Sound(g) /\ Whole(g) >= Whole(f)
        /\ g.todo = Left(p, k + 1) /\ g.place = [f.place EXCEPT !["gaps"] = "final"]
        /\ g.data = f.data /\ g.index = f.index /\ g.gaps = f.gaps /\ g.synced = f.synced
        /\ g.torn = f.torn /\ g.meta = f.meta /\ g.open = f.open
    BY ONLY <2>2, <2>3, <2>4, MoveKeeps
  <2>6. Places(g, "final", "final", "final", "part")
    BY <1>3, <2>1, <2>5 DEF Places, Files
  <2>7. Recovering(g, 7)
    BY <1>4, <1>11, <2>5, <2>6 DEF Recovering, Full, Synced, Moved, p
  <2>. QED BY <2>5, <2>6, <2>7 DEF Kept, FileInv, Places
<1>12. CASE k = 7
  <2>1. Places(f, "final", "final", "final", "part") /\ Full(f)
    BY <1>12 DEF Recovering, Moved
  <2>2. /\ f.index * BlockBytes <= f.data /\ f.synced.data = f.data
        /\ f.synced.index = f.index /\ f.place["gaps"] # "none"
    BY <1>12, <2>1 DEF Full, Recovering, Places
  <2>3. /\ Sound(f) /\ g = Effect(f)
        /\ p \in Seq(Ops) /\ k \in 1 .. Len(p) /\ f.todo = Left(p, k)
        /\ "recoveredComplete" \in MetaKinds /\ p[k] = <<"meta", "recoveredComplete">>
        /\ "recoveredComplete" \in Own => f.synced.gaps = f.gaps
    BY <1>1, <1>2, <1>12, <2>2 DEF MetaKinds, Own
  <2>4. /\ Sound(g) /\ Whole(g) >= Whole(f)
        /\ g.todo = Left(p, k + 1)
        /\ Places(g, f.place["data"], f.place["index"], f.place["gaps"], "part")
        /\ g.data = f.data /\ g.index = f.index /\ g.synced = f.synced
        /\ g.torn = f.torn /\ g.open = f.open /\ g.meta.blocks = g.index
        /\ g.meta.completed = ("recoveredComplete" \in Complete)
    BY ONLY <2>2, <2>3, MetaKeeps
  <2>5. Places(g, "final", "final", "final", "part") /\ Full(g)
    BY <2>1, <2>4 DEF Full, Places
  <2>6. "recoveredComplete" = "recoveredComplete" => g.meta.completed
    BY <2>4 DEF Complete
  <2>7. Recovering(g, 8)
    BY <1>4, <1>12, <2>2, <2>4, <2>5, <2>6 DEF Recovering, Moved, p
  <2>. QED BY <2>4, <2>5, <2>7 DEF Kept, FileInv, Places
<1>13. CASE k = 8
  <2>1. Places(f, "final", "final", "final", "part")
    BY <1>13 DEF Recovering, Moved
  <2>2. InOrder([f.place EXCEPT !["meta"] = "final"])
    BY <1>3, <2>1 DEF Places, InOrder, Files
  <2>3. /\ Sound(f) /\ g = Effect(f)
        /\ p \in Seq(Ops) /\ k \in 1 .. Len(p) /\ f.todo = Left(p, k)
        /\ "meta" \in Files /\ p[k] = <<"move", "meta">> /\ f.place["meta"] = "part"
        /\ f.place["meta"] = "part"
    BY <1>1, <1>2, <1>13, <2>1 DEF Files, Places
  <2>4. "meta" = "meta" => Sealed(f) BY <1>13 DEF Recovering, Synced, Sealed
  <2>5. /\ Sound(g) /\ Whole(g) >= Whole(f)
        /\ g.todo = Left(p, k + 1) /\ g.place = [f.place EXCEPT !["meta"] = "final"]
        /\ g.data = f.data /\ g.index = f.index /\ g.gaps = f.gaps /\ g.synced = f.synced
        /\ g.torn = f.torn /\ g.meta = f.meta /\ g.open = f.open
    BY ONLY <2>2, <2>3, <2>4, MoveKeeps
  <2>6. Places(g, "final", "final", "final", "final")
    BY <1>3, <2>1, <2>5 DEF Places, Files
  <2>7. g.todo = <<>> /\ ~g.open BY <1>4, <1>13, <2>5, ProgramsEnd DEF p
  <2>8. Resting(g) BY <2>7 DEF Resting
  <2>. QED BY <2>5, <2>6, <2>8 DEF Kept, FileInv, Places
<1>. QED BY <1>6, <1>7, <1>8, <1>9, <1>10, <1>11, <1>12, <1>13

-----------------------------------------------------------------------------
(* The calls                                                               *)

LEMMA IdleRests ==
  ASSUME NEW f, FileInv(f), Idle(f) PROVE Resting(f)
<1>1. \A p \in Seq(Ops) : \A k \in 1 .. Len(p) : Left(p, k) # <<>> BY LeftSteps
<1>2. /\ \A k \in 1 .. 4 : Left(OpeningProgram, k) # <<>> /\ Left(ForcingProgram, k) # <<>>
      /\ \A k \in 1 .. 8 : Left(FinalProgram, k) # <<>> /\ Left(RecoverProgram, k) # <<>>
  BY <1>1, ProgramsAreOps
<1>. QED BY <1>2 DEF FileInv, Idle, Opening, Forcing, Finalizing, Recovering

LEMMA EffectKeeps ==
  ASSUME NEW f, FileInv(f), ~Idle(f) PROVE Kept(f, Effect(f))
<1>1. Sound(f) /\ ~Resting(f) BY DEF FileInv, Resting, Idle
<1>2. CASE \E k \in 1 .. 4 : Opening(f, k) BY <1>1, <1>2, OpeningGoes
<1>3. CASE \E k \in 1 .. 4 : Forcing(f, k) BY <1>1, <1>3, ForcingGoes
<1>4. CASE \E k \in 1 .. 8 : Finalizing(f, k) BY <1>1, <1>4, FinalizingGoes
<1>5. CASE \E k \in 1 .. 8 : Recovering(f, k) BY <1>1, <1>5, RecoveringGoes
<1>. QED BY <1>1, <1>2, <1>3, <1>4, <1>5 DEF FileInv

(* Whatever is lost in a crash, what was forced to the disk is not.        *)
LEMMA CrashKeeps ==
  ASSUME NEW f, FileInv(f), NEW g \in CrashOutcomes(f)
  PROVE  FileInv(g) /\ Whole(g) >= Whole(f)
<1>0. PICK d \in f.synced.data .. f.data, i \in f.synced.index .. f.index,
           n \in f.synced.gaps .. f.gaps : g \in Remains(f, d, i, n)
  BY DEF CrashOutcomes
<1>1. PICK t \in {f.torn, f.torn \/ i < f.index} :
        g = [f EXCEPT !.data = d, !.index = i, !.gaps = n, !.torn = t, !.open = FALSE,
                      !.todo = <<>>, !.synced = [data |-> d, index |-> i, gaps |-> n]]
  BY <1>0 DEF Remains
<1>2. Sound(f) /\ f \in FileType BY DEF FileInv, Sound
<1>3. /\ f.data \in Nat /\ f.index \in Nat /\ f.gaps \in Nat /\ f.torn \in BOOLEAN
      /\ f.synced.data \in Nat /\ f.synced.index \in Nat /\ f.synced.gaps \in Nat
      /\ f.meta.blocks \in Nat /\ f.meta.gaps \in Nat
  BY <1>2 DEF FileType, Counts, MetadataType
<1>4. /\ d \in Nat /\ i \in Nat /\ n \in Nat /\ t \in BOOLEAN
      /\ f.synced.data <= d /\ d <= f.data /\ f.synced.index <= i /\ i <= f.index
      /\ f.synced.gaps <= n /\ n <= f.gaps
      /\ t => f.torn \/ i < f.index
  <2>1. /\ d \in Nat /\ i \in Nat /\ n \in Nat
        /\ f.synced.data <= d /\ d <= f.data /\ f.synced.index <= i /\ i <= f.index
        /\ f.synced.gaps <= n /\ n <= f.gaps
    BY <1>3
  <2> DEFINE lost == i < f.index
  <2>2. lost \in BOOLEAN /\ t \in {f.torn, f.torn \/ lost} BY <1>3, <2>1
  <2> HIDE DEF lost
  <2>3. t \in BOOLEAN /\ (t => f.torn \/ lost) BY ONLY <1>3, <2>2, Zenon
  <2>. QED BY <2>1, <2>3 DEF lost
<1> DEFINE none == <<>>
           c == [data |-> d, index |-> i, gaps |-> n]
<1>5. none \in Seq(Ops) OBVIOUS
<1>6. c \in Counts /\ c.data = d /\ c.index = i /\ c.gaps = n
  BY <1>4 DEF Counts
<1>7. g = [[f EXCEPT !.data = d, !.index = i, !.gaps = n] EXCEPT !.torn = t, !.open = FALSE,
                                                                 !.todo = none, !.synced = c]
  BY <1>1
<1> HIDE DEF none, c
<1> DEFINE e == [f EXCEPT !.data = d, !.index = i, !.gaps = n]
<1>8. /\ e \in FileType /\ e.place = f.place /\ e.meta = f.meta /\ e.failed = f.failed
      /\ e.data = d /\ e.index = i /\ e.gaps = n
  BY ONLY <1>2, <1>4 DEF FileType
<1>9. g = [e EXCEPT !.torn = t, !.open = FALSE, !.todo = none, !.synced = c]
  BY <1>7
<1> HIDE DEF e
<1>10. /\ g \in FileType /\ g.place = e.place /\ g.meta = e.meta
       /\ g.data = e.data /\ g.index = e.index /\ g.gaps = e.gaps
       /\ g.torn = t /\ g.open = FALSE /\ g.todo = none /\ g.synced = c
  BY ONLY <1>4, <1>5, <1>6, <1>8, <1>9 DEF FileType
<1>11. /\ g.data = d /\ g.index = i /\ g.gaps = n /\ g.place = f.place /\ g.meta = f.meta
       /\ g.synced.data = d /\ g.synced.index = i /\ g.synced.gaps = n
  BY <1>6, <1>8, <1>10
<1>12. g.meta.blocks <= g.synced.index /\ g.meta.blocks * BlockBytes <= g.synced.data
       /\ g.meta.gaps <= g.synced.gaps
  <2>1. /\ f.meta.blocks <= f.synced.index /\ f.meta.blocks * BlockBytes <= f.synced.data
        /\ f.meta.gaps <= f.synced.gaps
    BY <1>2 DEF Sound
  <2>2. f.meta.blocks * BlockBytes \in Nat BY <1>3 DEF BlockBytes, Width
  <2>3. f.meta.blocks <= i /\ f.meta.blocks * BlockBytes <= d /\ f.meta.gaps <= n
    BY ONLY <1>3, <1>4, <2>1, <2>2, AtMost, Zenon
  <2>. QED BY <1>11, <2>3
<1>13. g.place["meta"] = "final" => Sealed(g)
  <2> SUFFICES ASSUME f.place["meta"] = "final" PROVE Sealed(g)
    BY <1>11
  <2>1. Sealed(f) BY <1>2 DEF Sound
  <2>2. d = f.data /\ i = f.index /\ ~t BY <1>3, <1>4, <2>1 DEF Sealed, Full
  <2>. QED BY <1>10, <1>11, <2>1, <2>2 DEF Sealed, Full
<1>14. g.place["data"] = "none" => Fresh(g)
  <2> SUFFICES ASSUME f.place["data"] = "none" PROVE Fresh(g)
    BY <1>11
  <2>1. Fresh(f) BY <1>2 DEF Sound
  <2>2. d = 0 /\ i = 0 /\ n = 0 /\ ~t BY <1>3, <1>4, <2>1 DEF Fresh
  <2>. QED BY <1>10, <1>11, <2>1, <2>2 DEF Fresh
<1>15. Sound(g)
  <2>1. g.synced.data <= g.data /\ g.synced.index <= g.index /\ g.synced.gaps <= g.gaps
    BY <1>4, <1>11
  <2>2. InOrder(g.place) BY <1>2, <1>11 DEF Sound
  <2>. QED BY <1>10, <1>12, <1>13, <1>14, <2>1, <2>2 DEF Sound
<1>16. Resting(g) BY <1>10 DEF Resting, none
<1>17. Whole(g) >= Whole(f)
  <2>1. /\ Whole(f) \in Nat /\ Whole(f) <= f.synced.index
        /\ Whole(f) * BlockBytes <= f.synced.data
    BY <1>2, WholeIs
  <2>2. Whole(f) * BlockBytes \in Nat BY <2>1 DEF BlockBytes, Width
  <2>3. Whole(f) <= i /\ Whole(f) * BlockBytes <= d
    BY ONLY <1>3, <1>4, <2>1, <2>2, AtMost, Zenon
  <2>4. Whole(f) <= g.synced.index /\ Whole(f) * BlockBytes <= g.synced.data
    BY <1>11, <2>3
  <2>. QED BY <1>2, <1>10, <2>4, WholeGrows
<1>. QED BY <1>15, <1>16, <1>17 DEF FileInv

(* A call is begun on files of which nothing else changes.                 *)
LEMMA BeginIs ==
  ASSUME NEW f \in FileType, NEW ops \in Seq(Ops), NEW g, g = Begin(f, ops)
  PROVE  /\ g \in FileType /\ g.todo = ops
         /\ g.place = f.place /\ g.data = f.data /\ g.index = f.index /\ g.gaps = f.gaps
         /\ g.synced = f.synced /\ g.torn = f.torn /\ g.meta = f.meta /\ g.open = f.open
BY DEF FileType, Begin

LEMMA SoundSame ==
  ASSUME NEW f, Sound(f), NEW g \in FileType,
         g.place = f.place, g.data = f.data, g.index = f.index, g.gaps = f.gaps,
         g.synced = f.synced, g.torn = f.torn, g.meta = f.meta
  PROVE  Sound(g) /\ Whole(g) >= Whole(f)
<1>1. Sound(g) BY DEF Sound, Sealed, Full, Fresh
<1>2. Whole(g) = Whole(f) BY DEF Whole
<1>3. Whole(f) \in Nat BY WholeIs DEF Sound
<1>. QED BY <1>1, <1>2, <1>3

LEMMA StartKeeps ==
  ASSUME NEW f, FileInv(f), Free(f), NEW g, g = StartWriter(f)
  PROVE  FileInv(g) /\ Whole(g) >= Whole(f) /\ g.open
<1> DEFINE h == [f EXCEPT !.open = TRUE]
<1>1. f \in FileType /\ Sound(f) BY DEF FileInv, Sound
<1>2. /\ h \in FileType /\ h.open = TRUE
      /\ h.place = f.place /\ h.data = f.data /\ h.index = f.index /\ h.gaps = f.gaps
      /\ h.synced = f.synced /\ h.torn = f.torn /\ h.meta = f.meta
  BY ONLY <1>1 DEF FileType
<1>3. g = Begin(h, OpeningProgram) BY CallsAreOpening DEF StartWriter
<1> HIDE DEF h
<1>4. OpeningProgram \in Seq(Ops) /\ Left(OpeningProgram, 1) = OpeningProgram
  BY ProgramsAreOps, LeftStarts
<1>5. /\ g \in FileType /\ g.todo = OpeningProgram
      /\ g.place = h.place /\ g.data = h.data /\ g.index = h.index /\ g.gaps = h.gaps
      /\ g.synced = h.synced /\ g.torn = h.torn /\ g.meta = h.meta /\ g.open = h.open
  BY <1>2, <1>3, <1>4, BeginIs
<1>6. Sound(g) /\ Whole(g) >= Whole(f) BY <1>1, <1>2, <1>5, SoundSame
<1>7. Places(f, "none", "none", "none", "none") BY DEF Free, Places, Files
<1>8. Fresh(f) BY <1>1, <1>7 DEF Sound, Places
<1>9. Opening(g, 1)
  BY <1>2, <1>4, <1>5, <1>7, <1>8 DEF Opening, Places, Made, Fresh
<1>. QED BY <1>2, <1>5, <1>6, <1>9 DEF FileInv

LEMMA RecoverKeeps ==
  ASSUME NEW f, FileInv(f), Idle(f), ~f.open, NEW g, g = Recover(f)
  PROVE  Kept(f, g)
<1>1. f \in FileType /\ Sound(f) /\ Resting(f) BY IdleRests DEF FileInv, Sound
<1>2. CASE PartSet(f) /\ f.meta.known
  <2>1. g = Begin(f, RecoverProgram) BY <1>2, CallsAreRecover DEF Recover
  <2>2. RecoverProgram \in Seq(Ops) /\ Left(RecoverProgram, 1) = RecoverProgram
    BY ProgramsAreOps, LeftStarts
  <2>3. /\ g \in FileType /\ g.todo = RecoverProgram
        /\ g.place = f.place /\ g.data = f.data /\ g.index = f.index /\ g.gaps = f.gaps
        /\ g.synced = f.synced /\ g.torn = f.torn /\ g.meta = f.meta /\ g.open = f.open
    BY <1>1, <2>1, <2>2, BeginIs
  <2>4. Sound(g) /\ Whole(g) >= Whole(f) BY <1>1, <2>3, SoundSame
  <2>5. Places(f, "part", "part", "part", "part")
    <3>1. f.place["data"] = "part" /\ f.place["index"] = "part" /\ f.place["meta"] = "part"
      BY <1>2 DEF PartSet
    <3>2. f.place["gaps"] \in {"none", "part", "final"} /\ InOrder(f.place)
      BY <1>1 DEF Sound, FileType, Files
    <3>. QED BY <3>1, <3>2 DEF InOrder, Places
  <2>6. Recovering(g, 1) BY <2>2, <2>3, <2>5 DEF Recovering, Places, Moved
  <2>. QED BY <2>3, <2>4, <2>6 DEF Kept, FileInv
<1>3. CASE ~(PartSet(f) /\ f.meta.known)
  <2>1. g = [f EXCEPT !.failed = TRUE] BY <1>3 DEF Recover
  <2>2. /\ g \in FileType /\ g.todo = f.todo
        /\ g.place = f.place /\ g.data = f.data /\ g.index = f.index /\ g.gaps = f.gaps
        /\ g.synced = f.synced /\ g.torn = f.torn /\ g.meta = f.meta /\ g.open = f.open
    BY ONLY <1>1, <2>1 DEF FileType
  <2>3. Sound(g) /\ Whole(g) >= Whole(f) BY <1>1, <2>2, SoundSame
  <2>4. Resting(g) BY <1>1, <2>2 DEF Resting
  <2>. QED BY <2>2, <2>3, <2>4 DEF Kept, FileInv
<1>. QED BY <1>2, <1>3

(* What is written and not forced changes nothing of what is whole.        *)
More(f, d, i, n) == [f EXCEPT !.data = d, !.index = i, !.gaps = n]

Extended(f, g) ==
  /\ Sound(g) /\ Full(g) /\ AllPart(g) /\ Resting(g) /\ Whole(g) >= Whole(f)
  /\ g.open = f.open /\ g.place = f.place

LEMMA MoreKeeps ==
  ASSUME NEW f, FileInv(f), Idle(f), f.open, NEW d \in Nat, NEW i \in Nat, NEW n \in Nat,
         d >= f.data, i >= f.index, n >= f.gaps, i * BlockBytes <= d
  PROVE  Extended(f, More(f, d, i, n))
<1> DEFINE g == More(f, d, i, n)
<1>1. f \in FileType /\ Sound(f) /\ AllPart(f) /\ Full(f) /\ f.todo = <<>>
  BY IdleRests DEF FileInv, Sound, Resting
<1>2. /\ g \in FileType /\ g.data = d /\ g.index = i /\ g.gaps = n
      /\ g.place = f.place /\ g.synced = f.synced /\ g.torn = f.torn /\ g.meta = f.meta
      /\ g.open = f.open /\ g.todo = f.todo
  BY ONLY <1>1, d \in Nat, i \in Nat, n \in Nat DEF FileType, More
<1> HIDE DEF g
<1>3. Full(g) /\ AllPart(g) BY <1>1, <1>2 DEF Full, AllPart, Places
<1>4. Resting(g) BY <1>1, <1>2, <1>3 DEF Resting
<1>5. g.synced.data <= g.data /\ g.synced.index <= g.index /\ g.synced.gaps <= g.gaps
  <2>1. /\ f.synced.data \in Nat /\ f.synced.index \in Nat /\ f.synced.gaps \in Nat
        /\ f.data \in Nat /\ f.index \in Nat /\ f.gaps \in Nat
    BY <1>1 DEF FileType, Counts
  <2>2. f.synced.data <= f.data /\ f.synced.index <= f.index /\ f.synced.gaps <= f.gaps
    BY <1>1 DEF Sound
  <2>3. f.data <= d /\ f.index <= i /\ f.gaps <= n BY <2>1
  <2>4. f.synced.data <= d /\ f.synced.index <= i /\ f.synced.gaps <= n
    BY ONLY <2>1, <2>2, <2>3, d \in Nat, i \in Nat, n \in Nat, AtMost, Zenon
  <2>. QED BY <1>2, <2>4
<1>6. Sound(g)
  <2>1. g.place["meta"] = "part" /\ g.place["data"] = "part"
    BY <1>3 DEF AllPart, Places
  <2>. QED BY <1>1, <1>2, <1>5, <2>1 DEF Sound
<1>7. Whole(g) = Whole(f) BY <1>2 DEF Whole
<1>8. Whole(f) \in Nat BY <1>1, WholeIs
<1>9. Whole(g) >= Whole(f) BY ONLY <1>7, <1>8
<1>. QED BY <1>2, <1>3, <1>4, <1>6, <1>9 DEF Extended, g

LEMMA GapsKeep ==
  ASSUME NEW f, FileInv(f), Idle(f), f.open, NEW n \in Nat,
         NEW g, g = [f EXCEPT !.gaps = @ + n]
  PROVE  Kept(f, g) /\ Idle(g) /\ Full(g) /\ AllPart(g) /\ g.place = f.place
<1>1. f \in FileType /\ Full(f) BY IdleRests DEF FileInv, Sound, Resting
<1>2. f.data \in Nat /\ f.index \in Nat /\ f.gaps \in Nat BY <1>1 DEF FileType
<1> DEFINE m == f.gaps + n
<1>3. m \in Nat /\ m >= f.gaps BY <1>2
<1>4. g = More(f, f.data, f.index, m) BY <1>1 DEF FileType, More
<1> HIDE DEF m
<1>5. f.data >= f.data /\ f.index >= f.index /\ f.index * BlockBytes <= f.data
  BY <1>1, <1>2 DEF Full
<1>6. Extended(f, g)
  BY ONLY FileInv(f), Idle(f), f.open, <1>2, <1>3, <1>4, <1>5, MoreKeeps
<1>. QED BY <1>6 DEF Kept, FileInv, Resting, Idle, Extended

LEMMA FailKeeps ==
  ASSUME NEW f, FileInv(f), Idle(f), f.open, NEW g \in FailedWrites(f)
  PROVE  Kept(f, g)
<1>1. f \in FileType /\ Full(f) BY IdleRests DEF FileInv, Sound, Resting
<1>2. f.data \in Nat /\ f.index \in Nat /\ f.gaps \in Nat BY <1>1 DEF FileType
<1>3. PICK d \in 0 .. BlockBytes : g = [f EXCEPT !.data = @ + d]
  BY DEF FailedWrites
<1> DEFINE m == f.data + d
<1>4. m \in Nat /\ m >= f.data BY <1>2, <1>3 DEF BlockBytes, Width
<1>5. g = More(f, m, f.index, f.gaps) BY <1>1, <1>3 DEF FileType, More
<1> HIDE DEF m
<1>6. f.index >= f.index /\ f.gaps >= f.gaps /\ f.index * BlockBytes <= m
  BY <1>1, <1>2, <1>4 DEF Full, BlockBytes, Width
<1>7. Extended(f, g)
  BY ONLY FileInv(f), Idle(f), f.open, <1>2, <1>4, <1>5, <1>6, MoreKeeps
<1>. QED BY <1>7 DEF Kept, FileInv, Extended

(* A call that is begun on files that are full forces all to the disk.     *)
LEMMA ForcingBegins ==
  ASSUME NEW f, Sound(f), Full(f), AllPart(f), NEW g, g = Begin(f, SyncOps \o MetaOps)
  PROVE  FileInv(g) /\ Whole(g) >= Whole(f) /\ g.open = f.open /\ g.place = f.place
<1>1. f \in FileType BY DEF Sound
<1>2. ForcingProgram \in Seq(Ops) /\ Left(ForcingProgram, 1) = ForcingProgram
  BY ProgramsAreOps, LeftStarts
<1>3. g = Begin(f, ForcingProgram) BY CallsAreForcing
<1>4. /\ g \in FileType /\ g.todo = ForcingProgram
      /\ g.place = f.place /\ g.data = f.data /\ g.index = f.index /\ g.gaps = f.gaps
      /\ g.synced = f.synced /\ g.torn = f.torn /\ g.meta = f.meta /\ g.open = f.open
  BY <1>1, <1>2, <1>3, BeginIs
<1>5. Sound(g) /\ Whole(g) >= Whole(f) BY <1>4, SoundSame
<1>6. Forcing(g, 1) BY <1>2, <1>4 DEF Forcing, AllPart, Places, Full, Synced
<1>. QED BY <1>4, <1>5, <1>6 DEF FileInv

LEMMA WriteKeeps ==
  ASSUME NEW f, FileInv(f), Idle(f), f.open, NEW gap \in {0, 1}, NEW g, g = WriteBlock(f, gap)
  PROVE  Kept(f, g)
<1>1. f \in FileType /\ Full(f) /\ Whole(f) \in Nat
  BY IdleRests, WholeIs DEF FileInv, Sound, Resting
<1>2. f.data \in Nat /\ f.index \in Nat /\ f.gaps \in Nat BY <1>1 DEF FileType
<1> DEFINE d == f.data + BlockBytes
           i == f.index + 1
           n == f.gaps + gap
           h == More(f, d, i, n)
           ops == IF i = 1 \/ i % FlushEvery = 0 THEN SyncOps \o MetaOps ELSE <<>>
<1>3. /\ d \in Nat /\ i \in Nat /\ n \in Nat
      /\ d >= f.data /\ i >= f.index /\ n >= f.gaps /\ i * BlockBytes <= d
  BY <1>1, <1>2 DEF Full, BlockBytes, Width
<1>4. g = Begin(h, ops) BY DEF WriteBlock, More
<1>5. ops = SyncOps \o MetaOps \/ ops = <<>> OBVIOUS
<1> HIDE DEF ops, d, i, n
<1>6. Extended(f, h) BY ONLY FileInv(f), Idle(f), f.open, <1>3, MoreKeeps
<1> HIDE DEF h
<1>7. /\ h \in FileType /\ Whole(h) \in Nat /\ Sound(h) /\ Full(h) /\ AllPart(h) /\ Resting(h)
      /\ Whole(h) >= Whole(f) /\ h.open = f.open /\ h.place = f.place
  BY <1>6, WholeIs DEF Sound, Extended
<1>8. CASE ops = SyncOps \o MetaOps
  <2>1. FileInv(g) /\ Whole(g) >= Whole(h) /\ g.open = h.open /\ g.place = h.place
    BY <1>4, <1>7, <1>8, ForcingBegins
  <2>2. Whole(g) \in Nat BY <2>1, WholeIs DEF FileInv, Sound
  <2>3. Whole(g) >= Whole(f) BY ONLY <1>1, <1>7, <2>1, <2>2
  <2>. QED BY <1>7, <2>1, <2>3 DEF Kept
<1>9. CASE ops = <<>>
  <2>1. ops \in Seq(Ops) BY <1>9
  <2>2. /\ g \in FileType /\ g.todo = ops
        /\ g.place = h.place /\ g.data = h.data /\ g.index = h.index /\ g.gaps = h.gaps
        /\ g.synced = h.synced /\ g.torn = h.torn /\ g.meta = h.meta /\ g.open = h.open
    BY <1>4, <1>7, <2>1, BeginIs
  <2>3. Sound(g) /\ Whole(g) >= Whole(h) BY <1>7, <2>2, SoundSame
  <2>4. Resting(g) BY <1>7, <1>9, <2>2 DEF Resting, AllPart, Places, Full
  <2>5. Whole(g) \in Nat BY <2>2, WholeIs
  <2>6. Whole(g) >= Whole(f) BY ONLY <1>1, <1>7, <2>3, <2>5
  <2>. QED BY <1>7, <2>2, <2>3, <2>4, <2>6 DEF Kept, FileInv
<1>. QED BY <1>5, <1>8, <1>9

(* The writer is closed: with its final names, or given up.                *)
LEMMA FinalizeKeeps ==
  ASSUME NEW f, FileInv(f), Idle(f), f.open, NEW g, g = Finalize(f)
  PROVE  FileInv(g) /\ Whole(g) >= Whole(f) /\ g.place = f.place /\ Ends(g)
<1>1. f \in FileType /\ Sound(f) /\ AllPart(f) /\ Full(f)
  BY IdleRests DEF FileInv, Sound, Resting
<1> DEFINE h == [f EXCEPT !.open = FALSE]
<1>2. /\ h \in FileType /\ h.open = FALSE
      /\ h.place = f.place /\ h.data = f.data /\ h.index = f.index /\ h.gaps = f.gaps
      /\ h.synced = f.synced /\ h.torn = f.torn /\ h.meta = f.meta
  BY ONLY <1>1 DEF FileType
<1>3. g = Begin(h, FinalProgram) BY CallsAreFinal DEF Finalize
<1> HIDE DEF h
<1>4. FinalProgram \in Seq(Ops) /\ Left(FinalProgram, 1) = FinalProgram
  BY ProgramsAreOps, LeftStarts
<1>5. /\ g \in FileType /\ g.todo = FinalProgram
      /\ g.place = h.place /\ g.data = h.data /\ g.index = h.index /\ g.gaps = h.gaps
      /\ g.synced = h.synced /\ g.torn = h.torn /\ g.meta = h.meta /\ g.open = h.open
  BY <1>2, <1>3, <1>4, BeginIs
<1>6. Sound(g) /\ Whole(g) >= Whole(f) BY <1>1, <1>2, <1>5, SoundSame
<1>7. Finalizing(g, 1)
  BY <1>1, <1>2, <1>4, <1>5 DEF Finalizing, AllPart, Places, Full, Synced, Moved
<1>. QED BY <1>2, <1>5, <1>6, <1>7 DEF FileInv, Ends

LEMMA AbortKeeps ==
  ASSUME NEW f, FileInv(f), Idle(f), f.open, NEW g, g = Abort(f)
  PROVE  FileInv(g) /\ Whole(g) >= Whole(f) /\ g.place = f.place
<1>1. f \in FileType /\ Sound(f) /\ Full(f) /\ AllPart(f) /\ Whole(f) \in Nat
  BY IdleRests, WholeIs DEF FileInv, Sound, Resting
<1> DEFINE h == [f EXCEPT !.open = FALSE]
<1>2. /\ h \in FileType /\ h.open = FALSE
      /\ h.place = f.place /\ h.data = f.data /\ h.index = f.index /\ h.gaps = f.gaps
      /\ h.synced = f.synced /\ h.torn = f.torn /\ h.meta = f.meta
  BY ONLY <1>1 DEF FileType
<1>3. g = Begin(h, SyncOps \o MetaOps) BY DEF Abort
<1> HIDE DEF h
<1>4. Sound(h) /\ Whole(h) >= Whole(f) BY <1>1, <1>2, SoundSame
<1>5. Full(h) /\ AllPart(h) BY <1>1, <1>2 DEF Full, AllPart, Places
<1>6. FileInv(g) /\ Whole(g) >= Whole(h) /\ g.place = h.place
  BY <1>3, <1>4, <1>5, ForcingBegins
<1>7. Whole(h) \in Nat /\ Whole(g) \in Nat
  BY <1>2, <1>6, WholeIs DEF FileInv, Sound
<1>8. Whole(g) >= Whole(f) BY ONLY <1>1, <1>4, <1>6, <1>7
<1>. QED BY <1>2, <1>6, <1>8

(* A call that forces the files to the disk is cut off by an error.        *)
LEMMA CutKeeps ==
  ASSUME NEW f, FileInv(f), ~Idle(f), f.open, f.place["meta"] # "none",
         NEW g, g = [f EXCEPT !.todo = <<>>]
  PROVE  Kept(f, g)
<1>1. f \in FileType /\ Sound(f) BY DEF FileInv, Sound
<1>2. PICK k \in 1 .. 4 : Forcing(f, k)
  BY DEF FileInv, Resting, Idle, Opening, Finalizing, Recovering, Places
<1> DEFINE none == <<>>
<1>3. none \in Seq(Ops) /\ g = [f EXCEPT !.todo = none] OBVIOUS
<1> HIDE DEF none
<1>4. /\ g \in FileType /\ g.todo = none
      /\ g.place = f.place /\ g.data = f.data /\ g.index = f.index /\ g.gaps = f.gaps
      /\ g.synced = f.synced /\ g.torn = f.torn /\ g.meta = f.meta /\ g.open = f.open
  BY <1>1, <1>3 DEF FileType
<1>5. Sound(g) /\ Whole(g) >= Whole(f) BY <1>1, <1>4, SoundSame
<1>6. Resting(g)
  BY <1>2, <1>4 DEF Forcing, Resting, AllPart, Places, Full, none
<1>. QED BY <1>4, <1>5, <1>6 DEF Kept, FileInv

-----------------------------------------------------------------------------
(* The workspace                                                           *)

Durable == \A t \in Targets : Whole(files'[t]) >= Whole(files[t])

LEMMA NoTargetIsNone == NoTarget \notin Targets
BY PresenterAssumption

(* Nothing moves on the disk.                                              *)
LEMMA SameFiles ==
  ASSUME PresenterInv, files' = files
  PROVE  FilesInv' /\ Durable /\ files' \in [Targets -> FileType]
<1>1. \A t \in Targets : Whole(files[t]) \in Nat
  BY WholeIs DEF PresenterInv, TypeOK
<1>2. Durable BY <1>1 DEF Durable
<1>. QED BY <1>2 DEF PresenterInv, FilesInv, TypeOK

(* The files of one recording do.                                          *)
LEMMA OneFile ==
  ASSUME PresenterInv, NEW t \in Targets, NEW g, FileInv(g), Whole(g) >= Whole(files[t]),
         files' = [files EXCEPT ![t] = g]
  PROVE  /\ FilesInv' /\ Durable /\ files' \in [Targets -> FileType]
         /\ files'[t] = g
         /\ \A s \in Targets \ {t} : files'[s] = files[s]
<1>1. files \in [Targets -> FileType] BY DEF PresenterInv, TypeOK
<1>2. files'[t] = g /\ \A s \in Targets \ {t} : files'[s] = files[s] BY <1>1
<1>3. g \in FileType BY DEF FileInv, Sound
<1>4. files' \in [Targets -> FileType] BY <1>1, <1>3
<1>5. \A s \in Targets : Whole(files[s]) \in Nat BY <1>1, WholeIs
<1>6. Durable
  BY ONLY <1>2, <1>5, Whole(g) >= Whole(files[t]), t \in Targets DEF Durable
<1>7. FilesInv'
  BY ONLY <1>2, FileInv(g), PresenterInv, t \in Targets DEF FilesInv, PresenterInv
<1>. QED BY <1>2, <1>4, <1>6, <1>7

(* A step of the GUI thread or of the replay thread that touches neither   *)
(* services, nor recorders, nor files.                                     *)
GuiIsSafe(g) ==
  /\ g \in GuiType /\ g.at # "starting"
  /\ g.at \in Working => g.target \in Targets

LEMMA QuietStep ==
  ASSUME PresenterInv, ui' \in UiType, gui' = gui \/ GuiIsSafe(gui'),
         UNCHANGED <<service, recorder, files>>
  PROVE  PresenterInv' /\ Durable
<1>1. FilesInv' /\ Durable /\ files' \in [Targets -> FileType] BY SameFiles
<1>2. TypeOK' BY <1>1 DEF PresenterInv, TypeOK, GuiIsSafe
<1>3. ServicesWrite' BY DEF PresenterInv, ServicesWrite, GuiIsSafe
<1>. QED BY <1>1, <1>2, <1>3 DEF PresenterInv

LEMMA WaitIsSafe ==
  ASSUME NEW at \in GuiPlaces \ {"starting"}, NEW then \in GuiPlaces \ ({"starting"} \cup Working),
         NEW target \in WithNone, at \in Working => target \in Targets,
         Wait(at, then, target)
  PROVE  GuiIsSafe(gui')
BY DEF Wait, GuiIsSafe, GuiType, GuiPlaces, Working

LEMMA SetErrorIs ==
  ASSUME PresenterInv, NEW value \in BOOLEAN, SetError(value) PROVE ui' \in UiType
BY DEF PresenterInv, TypeOK, UiType, SetError

(* A step of a recorder that only moves itself.                            *)
LEMMA RecorderStep ==
  ASSUME PresenterInv, NEW t \in Targets, NEW r \in RecorderType,
         r.at \in Stops => r.service \in Targets,
         recorder' = [recorder EXCEPT ![t] = r],
         ui' \in UiType, UNCHANGED <<gui, service, files>>
  PROVE  PresenterInv' /\ Durable
<1>1. FilesInv' /\ Durable /\ files' \in [Targets -> FileType] BY SameFiles
<1>2. recorder \in [Targets -> RecorderType] BY DEF PresenterInv, TypeOK
<1>3. /\ recorder' \in [Targets -> RecorderType] /\ recorder'[t] = r
      /\ \A s \in Targets \ {t} : recorder'[s] = recorder[s]
  BY <1>2
<1>4. TypeOK' BY <1>1, <1>3 DEF PresenterInv, TypeOK
<1>5. ServicesWrite' BY <1>3 DEF PresenterInv, ServicesWrite
<1>. QED BY <1>1, <1>4, <1>5 DEF PresenterInv

LEMMA UserKeeps ==
  ASSUME PresenterInv,
         Configure \/ StopRecording \/ StopReplay \/ OpenReplay \/ Play \/ Pause \/ Reprocess \/ Close
  PROVE  PresenterInv' /\ Durable
<1>1. ui \in UiType /\ gui \in GuiType /\ files \in [Targets -> FileType]
  BY DEF PresenterInv, TypeOK
<1>2. CASE Configure
  <2>1. ui' \in UiType BY <1>1, <1>2 DEF Configure, UiType, WithNone
  <2>. QED BY <1>2, <2>1, QuietStep DEF Configure
<1>3. CASE StopRecording
  <2>1. ui' \in UiType BY <1>1, <1>3 DEF StopRecording, Stopping, UiType
  <2>. QED BY <1>3, <2>1, QuietStep DEF StopRecording
<1>4. CASE StopReplay
  <2>1. GuiIsSafe(gui')
    BY <1>4, WaitIsSafe DEF StopReplay, GuiPlaces, WithNone, Working
  <2>. QED BY <1>1, <1>4, <2>1, QuietStep DEF StopReplay
<1>5. CASE OpenReplay
  <2>1. GuiIsSafe(gui')
    BY <1>5, WaitIsSafe DEF OpenReplay, GuiPlaces, WithNone, Working
  <2>. QED BY <1>1, <1>5, <2>1, QuietStep DEF OpenReplay
<1>6. CASE Play
  <2>1. ui' \in UiType BY <1>1, <1>6, SetErrorIs DEF Play
  <2>. QED BY <1>6, <2>1, QuietStep DEF Play
<1>7. CASE Pause BY <1>1, <1>7, QuietStep DEF Pause
<1>8. CASE Reprocess
  <2>1. PICK t \in Targets, missing \in BOOLEAN : SetError(missing \/ ~CanOpen(files[t]))
    BY <1>8 DEF Reprocess
  <2>2. (missing \/ ~CanOpen(files[t])) \in BOOLEAN BY DEF CanOpen
  <2>3. ui' \in UiType BY <2>1, <2>2, SetErrorIs
  <2>. QED BY <1>8, <2>3, QuietStep DEF Reprocess
<1>9. CASE Close
  <2>1. ui' \in UiType BY <1>1, <1>9 DEF Close, Stopping, UiType
  <2>2. GuiIsSafe(gui')
    BY <1>9, WaitIsSafe DEF Close, GuiPlaces, WithNone, Working
  <2>. QED BY <1>9, <2>1, <2>2, QuietStep DEF Close
<1>. QED BY <1>2, <1>3, <1>4, <1>5, <1>6, <1>7, <1>8, <1>9

LEMMA GuiKeeps ==
  ASSUME PresenterInv, Recovered \/ JoinReplay \/ Open \/ JoinRecorder \/ PresenterCloses
  PROVE  PresenterInv' /\ Durable
<1>1. ui \in UiType /\ gui \in GuiType /\ files \in [Targets -> FileType]
  BY DEF PresenterInv, TypeOK
<1>2. CASE Recovered
  <2>1. GuiIsSafe(gui')
    BY <1>2, WaitIsSafe DEF Recovered, GuiPlaces, WithNone, Working
  <2>2. gui.target \in Targets
    BY <1>2 DEF Recovered, PresenterInv, ServicesWrite, Working
  <2>3. files[gui.target].failed \in BOOLEAN BY <1>1, <2>2 DEF FileType
  <2>4. ui' \in UiType /\ UNCHANGED <<service, recorder, files>>
    BY <1>2, <2>3, SetErrorIs DEF Recovered
  <2>. QED BY <2>1, <2>4, QuietStep
<1>3. CASE JoinReplay
  <2>1. gui' = [gui EXCEPT !.at = gui.then] BY <1>3 DEF JoinReplay
  <2>2. GuiIsSafe(gui')
    BY <1>1, <2>1 DEF GuiIsSafe, GuiType, GuiPlaces, Working
  <2>. QED BY <1>1, <1>3, <2>2, QuietStep DEF JoinReplay
<1>4. CASE Open
  <2>1. GuiIsSafe(gui')
    BY <1>4, WaitIsSafe DEF Open, GuiPlaces, WithNone, Working
  <2>2. ui' \in UiType BY <1>4, SetErrorIs DEF Open
  <2>. QED BY <1>4, <2>1, <2>2, QuietStep DEF Open
<1>5. CASE JoinRecorder
  <2>1. ui.service \in WithNone BY <1>1 DEF UiType
  <2>2. GuiIsSafe(gui')
    <3> DEFINE at == IF ui.service = NoTarget THEN "closed" ELSE "cancel"
    <3>1. Wait(at, "closed", ui.service) BY <1>5 DEF JoinRecorder
    <3>2. /\ at \in GuiPlaces \ {"starting"}
          /\ "closed" \in GuiPlaces \ ({"starting"} \cup Working)
          /\ at \in Working => ui.service \in Targets
      BY <2>1 DEF GuiPlaces, WithNone, Working
    <3> HIDE DEF at
    <3>. QED BY <2>1, <3>1, <3>2, WaitIsSafe
  <2>3. ui' \in UiType BY <1>1, <1>5 DEF JoinRecorder, UiType, WithNone
  <2>. QED BY <1>5, <2>2, <2>3, QuietStep DEF JoinRecorder
<1>6. CASE PresenterCloses
  <2>1. GuiIsSafe(gui')
    BY <1>6, WaitIsSafe DEF PresenterCloses, GuiPlaces, WithNone, Working
  <2>. QED BY <1>1, <1>6, <2>1, QuietStep DEF PresenterCloses
<1>. QED BY <1>2, <1>3, <1>4, <1>5, <1>6

LEMMA ReplayerKeeps ==
  ASSUME PresenterInv, Replayer
  PROVE  PresenterInv' /\ Durable
<1>1. ui \in UiType BY DEF PresenterInv, TypeOK
<1>2. UNCHANGED <<ui, gui, service, recorder, files>>
  BY DEF Replayer, NextBlock, CountBlock, ReplayEnds, ReplayExits
<1>. QED BY <1>1, <1>2, QuietStep

LEMMA RecorderKeeps ==
  ASSUME PresenterInv, NEW t \in Targets, Leave(t) \/ Finally(t) \/ StopReturns(t) \/ Report(t)
  PROVE  PresenterInv' /\ Durable
<1>1. /\ ui \in UiType /\ service \in [Targets -> ServiceType]
      /\ recorder \in [Targets -> RecorderType] /\ recorder[t] \in RecorderType
  BY DEF PresenterInv, TypeOK
<1>2. recorder[t].at \in Stops => recorder[t].service \in Targets
  BY DEF PresenterInv, ServicesWrite
<1>3. ASSUME NEW at \in {"finally", "report", "ended"}, GoTo(t, at)
      PROVE  \E r \in RecorderType :
               r.at \notin Stops /\ recorder' = [recorder EXCEPT ![t] = r]
  <2> DEFINE r == [recorder[t] EXCEPT !.at = at]
  <2>1. r \in RecorderType /\ r.at = at BY <1>1 DEF RecorderType
  <2>2. recorder' = [recorder EXCEPT ![t] = r] BY <1>3 DEF GoTo
  <2> HIDE DEF r
  <2>. QED BY <2>1, <2>2 DEF Stops
<1>4. CASE Leave(t)
  <2>1. PICK r \in RecorderType :
          r.at \notin Stops /\ recorder' = [recorder EXCEPT ![t] = r]
    BY <1>3, <1>4 DEF Leave
  <2>. QED BY <1>1, <1>4, <2>1, RecorderStep DEF Leave
<1>5. CASE Finally(t)
  <2> DEFINE was == ui.recording \in {"running", "stopping"}
             at == IF ui.service = NoTarget THEN "report" ELSE "stop"
             r == [recorder[t] EXCEPT !.service = ui.service, !.wasRunning = was, !.at = at]
  <2>1. ui.service \in WithNone BY <1>1 DEF UiType
  <2>2. at \in {"report", "stop"} /\ (at = "stop" => ui.service \in Targets)
    BY <2>1 DEF WithNone
  <2>3. was \in BOOLEAN OBVIOUS
  <2>4. recorder' = [recorder EXCEPT ![t] = r] BY <1>1, <1>5 DEF Finally
  <2> HIDE DEF was, at
  <2>5. r \in RecorderType /\ r.at = at /\ r.service = ui.service
    BY ONLY <1>1, <2>1, <2>2, <2>3 DEF RecorderType, Stops
  <2> HIDE DEF r
  <2>6. r.at \in Stops => r.service \in Targets BY <2>2, <2>5 DEF Stops
  <2>7. ui' \in UiType /\ UNCHANGED <<gui, service, files>>
    BY <1>1, <1>5 DEF Finally
  <2>. QED BY <2>4, <2>5, <2>6, <2>7, RecorderStep
<1>6. CASE StopReturns(t)
  <2>1. PICK r \in RecorderType :
          r.at \notin Stops /\ recorder' = [recorder EXCEPT ![t] = r]
    BY <1>3, <1>6 DEF StopReturns
  <2>2. service[recorder[t].service].failed \in BOOLEAN
    <3>1. recorder[t].service \in Targets BY <1>2, <1>6 DEF StopReturns, Stops
    <3>. QED BY <1>1, <3>1 DEF ServiceType
  <2> DEFINE e == ui.error \/ service[recorder[t].service].failed
  <2>3. e \in BOOLEAN
    <3>1. ui.error \in BOOLEAN BY <1>1 DEF UiType
    <3>. QED BY ONLY <2>2, <3>1, Zenon
  <2>4. ui' = [ui EXCEPT !.error = e] BY <1>6 DEF StopReturns
  <2> HIDE DEF e
  <2>5. ui' \in UiType BY <1>1, <2>3, <2>4 DEF UiType
  <2>. QED BY <1>6, <2>1, <2>5, RecorderStep DEF StopReturns
<1>7. CASE Report(t)
  <2>1. PICK r \in RecorderType :
          r.at \notin Stops /\ recorder' = [recorder EXCEPT ![t] = r]
    BY <1>3, <1>7 DEF Report
  <2> DEFINE said == IF ui.recording = "running" THEN IF ui.error THEN "failed" ELSE "completed"
                     ELSE IF recorder[t].wasRunning /\ ui.recording = "stopping" THEN "completed"
                     ELSE ui.recording
  <2>2. said \in {"idle", "configured", "running", "stopping", "completed", "failed"}
    BY <1>1 DEF UiType
  <2>3. ui' = [ui EXCEPT !.recording = said] BY <1>7 DEF Report
  <2> HIDE DEF said
  <2>4. ui' \in UiType BY <1>1, <2>2, <2>3 DEF UiType
  <2>. QED BY <1>7, <2>1, <2>4, RecorderStep DEF Report
<1>. QED BY <1>4, <1>5, <1>6, <1>7

(* A recording is started on free files only.                              *)
LEMMA StartsFresh ==
  ASSUME PresenterInv, StartRecording
  PROVE  PresenterInv' /\ Durable
<1>1. ui \in UiType /\ gui \in GuiType /\ files \in [Targets -> FileType]
  BY DEF PresenterInv, TypeOK
<1>2. CASE ui' = [ui EXCEPT !.recording = "failed", !.error = TRUE] /\ UNCHANGED <<files, gui>>
  <2>1. ui' \in UiType BY <1>1, <1>2 DEF UiType
  <2>. QED BY <1>2, <2>1, QuietStep DEF StartRecording
<1>3. CASE /\ Free(files[ui.setup])
           /\ files' = [files EXCEPT ![ui.setup] = StartWriter(@)]
           /\ Wait("starting", "idle", ui.setup)
           /\ UNCHANGED ui
  <2> DEFINE t == ui.setup
             g == StartWriter(files[t])
  <2>1. t \in Targets BY <1>1 DEF StartRecording, UiType, WithNone
  <2>2. files' = [files EXCEPT ![t] = g] BY <1>3
  <2>3. gui' = [at |-> "starting", then |-> "idle", target |-> t]
    BY <1>3 DEF Wait
  <2>4. FileInv(files[t]) /\ Free(files[t])
    BY <1>3, <2>1 DEF PresenterInv, FilesInv
  <2>5. FileInv(g) /\ Whole(g) >= Whole(files[t]) /\ g.open BY <2>4, StartKeeps
  <2>6. UNCHANGED <<ui, service, recorder>> BY <1>3 DEF StartRecording
  <2> HIDE DEF g, t
  <2>7. /\ FilesInv' /\ Durable /\ files' \in [Targets -> FileType] /\ files'[t] = g
        /\ \A s \in Targets \ {t} : files'[s] = files[s]
    BY <2>1, <2>2, <2>5, OneFile
  <2>8. gui' \in GuiType
    BY <2>1, <2>3 DEF GuiType, GuiPlaces, Working, WithNone
  <2>9. TypeOK' BY <2>6, <2>7, <2>8 DEF PresenterInv, TypeOK
  <2>10. ~service[t].running
    <3>1. files[t].place["meta"] = "none" BY <2>4 DEF Free, Files
    <3>. QED BY <2>1, <3>1 DEF PresenterInv, ServicesWrite
  <2>11. service[t].running \in BOOLEAN
    BY <2>1 DEF PresenterInv, TypeOK, ServiceType
  <2>12. \A s \in Targets : service'[s].running => files'[s].open /\ files'[s].place["meta"] # "none"
    BY <2>6, <2>7, <2>10 DEF PresenterInv, ServicesWrite
  <2>13. ServicesWrite'
    BY <2>1, <2>3, <2>5, <2>6, <2>7, <2>10, <2>12 DEF PresenterInv, ServicesWrite
  <2>. QED BY <2>7, <2>9, <2>13 DEF PresenterInv
<1>. QED BY <1>2, <1>3 DEF StartRecording

(* A service runs from when its writer has its files.                      *)
LEMMA ServiceStarts ==
  ASSUME PresenterInv, RecordingStarts
  PROVE  PresenterInv' /\ Durable
<1> DEFINE t == gui.target
<1>1. /\ ui \in UiType /\ service \in [Targets -> ServiceType]
      /\ recorder \in [Targets -> RecorderType]
  BY DEF PresenterInv, TypeOK
<1>2. t \in Targets /\ files[t].open
  BY DEF PresenterInv, ServicesWrite, RecordingStarts
<1>3. files[t].place["meta"] = "part"
  <2>1. FileInv(files[t]) /\ Idle(files[t])
    BY <1>2 DEF PresenterInv, FilesInv, RecordingStarts
  <2>. QED BY <1>2, <2>1, IdleRests DEF Resting, AllPart, Places
<1>4. /\ service' = [service EXCEPT ![t].running = TRUE]
      /\ recorder' = [recorder EXCEPT ![t].at = "loop"]
      /\ ui' = [ui EXCEPT !.service = t, !.thread = t, !.stop = FALSE,
                          !.recording = "running", !.error = FALSE]
      /\ gui' = [at |-> "idle", then |-> "idle", target |-> NoTarget]
      /\ files' = files
  BY DEF RecordingStarts, Wait
<1> HIDE DEF t
<1>5. ui' \in UiType BY <1>1, <1>2, <1>4 DEF UiType, WithNone
<1>6. gui' \in GuiType BY <1>4 DEF GuiType, GuiPlaces, Working, WithNone
<1>7. /\ service' \in [Targets -> ServiceType]
      /\ \A s \in Targets \ {t} : service'[s] = service[s]
  BY <1>1, <1>2, <1>4 DEF ServiceType
<1>8. /\ recorder' \in [Targets -> RecorderType]
      /\ recorder'[t].at = "loop"
      /\ \A s \in Targets \ {t} : recorder'[s] = recorder[s]
  BY <1>1, <1>2, <1>4 DEF RecorderType
<1>9. FilesInv' /\ Durable /\ files' \in [Targets -> FileType]
  BY <1>4, SameFiles
<1>10. TypeOK' BY <1>5, <1>6, <1>7, <1>8, <1>9 DEF TypeOK
<1>11. ServicesWrite'
  BY <1>2, <1>3, <1>4, <1>7, <1>8
  DEF PresenterInv, ServicesWrite, Working, Stops
<1>. QED BY <1>9, <1>10, <1>11 DEF PresenterInv

(* A service and the files of its recording move: while it runs it keeps   *)
(* its writer.                                                             *)
LEMMA ServiceStep ==
  ASSUME PresenterInv, NEW t \in Targets, NEW g, FileInv(g), Whole(g) >= Whole(files[t]),
         files[t].place["meta"] # "none" => g.place["meta"] # "none",
         files' = [files EXCEPT ![t] = g],
         service' \in [Targets -> ServiceType],
         \A s \in Targets : service'[s].running => service[s].running,
         service'[t].running \/ (gui.at = "starting" /\ gui.target = t) => g.open,
         recorder' \in [Targets -> RecorderType],
         \A s \in Targets : recorder'[s].at \in Stops => recorder'[s].service \in Targets,
         ui' = ui, gui' = gui \/ GuiIsSafe(gui')
  PROVE  PresenterInv' /\ Durable
<1>1. /\ FilesInv' /\ Durable /\ files' \in [Targets -> FileType] /\ files'[t] = g
      /\ \A s \in Targets \ {t} : files'[s] = files[s]
  BY OneFile
<1>2. TypeOK' BY <1>1 DEF PresenterInv, TypeOK, GuiIsSafe
<1>3. \A s \in Targets : service'[s].running => files'[s].open /\ files'[s].place["meta"] # "none"
  BY <1>1 DEF PresenterInv, ServicesWrite
<1>4. gui'.at \in {"starting"} \cup Working => gui'.target \in Targets
  BY DEF PresenterInv, ServicesWrite, GuiIsSafe
<1>5. gui'.at = "starting" => files'[gui'.target].open /\ ~service'[gui'.target].running
  BY <1>1 DEF PresenterInv, ServicesWrite, GuiIsSafe, Working
<1>6. ServicesWrite' BY <1>3, <1>4, <1>5 DEF ServicesWrite
<1>. QED BY <1>1, <1>2, <1>6 DEF PresenterInv

(* The writer of a recording stays open.                                   *)
LEMMA FilesStep ==
  ASSUME PresenterInv, NEW t \in Targets, NEW g, Kept(files[t], g),
         files' = [files EXCEPT ![t] = g],
         service' \in [Targets -> ServiceType],
         \A s \in Targets : service'[s].running = service[s].running,
         recorder' \in [Targets -> RecorderType],
         \A s \in Targets : recorder'[s].at \in Stops => recorder'[s].service \in Targets,
         ui' = ui, gui' = gui \/ GuiIsSafe(gui')
  PROVE  PresenterInv' /\ Durable
<1>1. /\ FileInv(g) /\ Whole(g) >= Whole(files[t])
      /\ files[t].place["meta"] # "none" => g.place["meta"] # "none"
  BY DEF Kept
<1>2. service'[t].running \/ (gui.at = "starting" /\ gui.target = t) => g.open
  BY DEF PresenterInv, ServicesWrite, Kept
<1>. QED BY <1>1, <1>2, ServiceStep

LEMMA RecordersStand ==
  ASSUME PresenterInv, recorder' = recorder
  PROVE  /\ recorder' \in [Targets -> RecorderType]
         /\ \A s \in Targets :
              recorder'[s].at \in Stops => recorder'[s].service \in Targets
BY DEF PresenterInv, TypeOK, ServicesWrite

LEMMA DiskKeeps ==
  ASSUME PresenterInv, NEW t \in Targets, DiskEffect(t)
  PROVE  PresenterInv' /\ Durable
<1> DEFINE g == Effect(files[t])
<1>1. FileInv(files[t]) /\ ~Idle(files[t])
  BY DEF DiskEffect, PresenterInv, FilesInv
<1>2. Kept(files[t], g) BY <1>1, EffectKeeps
<1>3. files' = [files EXCEPT ![t] = g] /\ UNCHANGED <<ui, gui, service, recorder>>
  BY DEF DiskEffect
<1>4. service' \in [Targets -> ServiceType] BY <1>3 DEF PresenterInv, TypeOK
<1> HIDE DEF g
<1>. QED BY <1>2, <1>3, <1>4, FilesStep, RecordersStand

(* A recovery is begun only of a recording that nobody writes.             *)
LEMMA RecoveryBegins ==
  ASSUME PresenterInv, RecoverPartial
  PROVE  PresenterInv' /\ Durable
<1>1. PICK t \in Targets :
        /\ Idle(files[t]) /\ ~files[t].open /\ ~service[t].running
        /\ files' = [files EXCEPT ![t] = Recover(@)]
        /\ Wait("recovering", "idle", t)
  BY DEF RecoverPartial
<1> DEFINE g == Recover(files[t])
<1>2. files' = [files EXCEPT ![t] = g] /\ gui' = [at |-> "recovering", then |-> "idle", target |-> t]
  BY <1>1 DEF Wait
<1>3. Kept(files[t], g) BY <1>1, RecoverKeeps DEF PresenterInv, FilesInv
<1>4. UNCHANGED <<ui, service, recorder>> BY DEF RecoverPartial
<1> HIDE DEF g
<1>5. FileInv(g) /\ Whole(g) >= Whole(files[t]) BY <1>3 DEF Kept
<1>6. /\ FilesInv' /\ Durable /\ files' \in [Targets -> FileType] /\ files'[t] = g
      /\ \A s \in Targets \ {t} : files'[s] = files[s]
  BY <1>2, <1>5, OneFile
<1>7. gui' \in GuiType BY <1>2 DEF GuiType, GuiPlaces, Working, WithNone
<1>8. TypeOK' BY <1>4, <1>6, <1>7 DEF PresenterInv, TypeOK
<1>9. ServicesWrite'
  BY <1>1, <1>2, <1>4, <1>6 DEF PresenterInv, ServicesWrite, Working
<1>. QED BY <1>6, <1>8, <1>9 DEF PresenterInv

(* A step of a service that runs on, or of a call that waits for it.       *)
Serves(s) ==
  /\ \E g : /\ Kept(files[s], g) /\ files' = [files EXCEPT ![s] = g]
            /\ files[s].open \/ g = files[s]
  /\ service' \in [Targets -> ServiceType]
  /\ \A t \in Targets :
       /\ service'[t].running = service[t].running
       /\ service[t].failed => service'[t].failed

LEMMA ServesKeeps ==
  ASSUME PresenterInv, NEW s \in Targets, Serves(s),
         recorder' \in [Targets -> RecorderType],
         \A t \in Targets : recorder'[t].at \in Stops => recorder'[t].service \in Targets,
         ui' = ui, gui' = gui \/ GuiIsSafe(gui')
  PROVE  PresenterInv' /\ Durable
<1>1. PICK g : /\ Kept(files[s], g) /\ files' = [files EXCEPT ![s] = g]
               /\ files[s].open \/ g = files[s]
  BY DEF Serves
<1>2. /\ service' \in [Targets -> ServiceType]
      /\ \A t \in Targets : service'[t].running = service[t].running
  BY DEF Serves
<1>. QED BY <1>1, <1>2, FilesStep

LEMMA SameIsKept ==
  ASSUME PresenterInv, NEW s \in Targets, files' = files
  PROVE  Kept(files[s], files[s]) /\ files' = [files EXCEPT ![s] = files[s]]
BY WholeIs DEF PresenterInv, TypeOK, FilesInv, Kept

LEMMA ServesGoesOn ==
  ASSUME NEW s \in Targets, Serves(s), NEW t \in Targets
  PROVE  /\ service'[t].running = service[t].running
         /\ service[t].failed => service'[t].failed
BY DEF Serves

LEMMA ServiceIs ==
  ASSUME PresenterInv, NEW s \in Targets, NEW v \in ServiceType, v.running = service[s].running,
         service[s].failed => v.failed, service' = [service EXCEPT ![s] = v]
  PROVE  /\ service' \in [Targets -> ServiceType]
         /\ \A t \in Targets : /\ service'[t].running = service[t].running
                               /\ service[t].failed => service'[t].failed
BY DEF PresenterInv, TypeOK

LEMMA FieldsOf ==
  ASSUME PresenterInv, NEW s \in Targets
  PROVE  /\ service \in [Targets -> ServiceType] /\ service[s] \in ServiceType
         /\ service[s].queue \in Seq(0 .. 2)
         /\ files \in [Targets -> FileType] /\ FileInv(files[s])
         /\ service[s].running => files[s].open /\ files[s].place["meta"] # "none"
BY DEF PresenterInv, TypeOK, ServiceType, FilesInv, ServicesWrite

(* The service's thread.                                                   *)
WriterMoves(s) == Write(s) \/ WriterEnds(s) \/ WriteFails(s) \/ ForcingFails(s)
LEMMA WriterServes ==
  ASSUME PresenterInv, NEW s \in Targets, WriterMoves(s)
  PROVE  Serves(s) /\ UNCHANGED <<ui, gui, recorder, overlap, masked>>
<1> DEFINE q == Tail(service[s].queue)
<1>1. /\ service \in [Targets -> ServiceType] /\ service[s] \in ServiceType
      /\ files \in [Targets -> FileType] /\ FileInv(files[s])
      /\ service[s].running /\ files[s].open /\ files[s].place["meta"] # "none"
      /\ UNCHANGED <<ui, gui, recorder, overlap, masked>>
  BY FieldsOf DEF WriterMoves, Write, WriterEnds, WriteFails, ForcingFails, Takes
<1>2. ASSUME Takes(s) PROVE Idle(files[s]) /\ Head(service[s].queue) \in 0 .. 2 /\ q \in Seq(0 .. 2)
  <2>1. service[s].queue \in Seq(0 .. 2) /\ service[s].queue # <<>> /\ Idle(files[s])
    BY <1>2, FieldsOf DEF Takes
  <2>. QED BY <2>1, HeadTailProperties
<1> HIDE DEF q
<1>3. CASE Write(s)
  <2> DEFINE v == [service[s] EXCEPT !.queue = q]
             gap == Head(service[s].queue)
             g == WriteBlock(files[s], gap)
  <2>1. /\ service' = [service EXCEPT ![s] = v] /\ files' = [files EXCEPT ![s] = g]
        /\ Takes(s) /\ gap # None
    BY <1>1, <1>3 DEF Write, q
  <2>2. v \in ServiceType /\ v.running = service[s].running /\ v.failed = service[s].failed
    BY <1>1, <1>2, <2>1 DEF ServiceType
  <2>3. gap \in {0, 1} /\ Idle(files[s]) BY <1>2, <2>1 DEF None
  <2> HIDE DEF gap, v
  <2>4. Kept(files[s], g) BY <1>1, <2>3, WriteKeeps
  <2> HIDE DEF g
  <2>. QED BY <1>1, <2>1, <2>2, <2>4, ServiceIs DEF Serves
<1>4. CASE WriterEnds(s)
  <2> DEFINE v == [service[s] EXCEPT !.queue = q, !.ended = TRUE]
  <2>1. service' = [service EXCEPT ![s] = v] /\ files' = files /\ Takes(s)
    BY <1>1, <1>4 DEF WriterEnds, q
  <2>2. v \in ServiceType /\ v.running = service[s].running /\ v.failed = service[s].failed
    BY <1>1, <1>2, <2>1 DEF ServiceType
  <2> HIDE DEF v
  <2>. QED BY <1>1, <2>1, <2>2, SameIsKept, ServiceIs DEF Serves
<1>5. CASE WriteFails(s)
  <2> DEFINE v == [service[s] EXCEPT !.queue = q, !.failed = TRUE]
  <2>1. PICK g \in FailedWrites(files[s]) : files' = [files EXCEPT ![s] = g]
    BY <1>5 DEF WriteFails
  <2>2. service' = [service EXCEPT ![s] = v] /\ Takes(s)
    BY <1>1, <1>5 DEF WriteFails, q
  <2>3. v \in ServiceType /\ v.running = service[s].running /\ v.failed
    BY <1>1, <1>2, <2>2 DEF ServiceType
  <2> HIDE DEF v
  <2>4. Kept(files[s], g) BY <1>1, <1>2, <2>2, FailKeeps
  <2>. QED BY <1>1, <2>1, <2>2, <2>3, <2>4, ServiceIs DEF Serves
<1>6. CASE ForcingFails(s)
  <2> DEFINE v == [service[s] EXCEPT !.failed = TRUE]
             g == [files[s] EXCEPT !.todo = <<>>]
  <2>1. /\ service' = [service EXCEPT ![s] = v] /\ files' = [files EXCEPT ![s] = g]
        /\ ~Idle(files[s])
    BY <1>1, <1>6 DEF ForcingFails
  <2>2. v \in ServiceType /\ v.running = service[s].running /\ v.failed
    BY <1>1 DEF ServiceType
  <2>3. Kept(files[s], g) BY <1>1, <2>1, CutKeeps
  <2> HIDE DEF v, g
  <2>. QED BY <1>1, <2>1, <2>2, <2>3, ServiceIs DEF Serves
<1>. QED BY <1>3, <1>4, <1>5, <1>6 DEF WriterMoves

LEMMA WritesKeep ==
  ASSUME PresenterInv, NEW s \in Targets, WriterMoves(s)
  PROVE  PresenterInv' /\ Durable
BY WriterServes, ServesKeeps, RecordersStand

(* submit_iq: it is refused, or the service takes the block or drops it as *)
(* a gap.                                                                  *)
Refused(t) ==
  /\ recorder' = [recorder EXCEPT ![t].offered = @ + 1, ![t].at = "finally", ![t].final = FALSE]
  /\ ui' = [ui EXCEPT !.error = TRUE, !.recording = "failed"]
  /\ UNCHANGED <<service, files>>

LEMMA SubmitServes ==
  ASSUME PresenterInv, NEW t \in Targets, Submit(t)
  PROVE  /\ ui.service \in Targets
         /\ \/ Refused(t)
            \/ /\ Serves(ui.service) /\ ui' = ui
               /\ recorder' = [recorder EXCEPT ![t].offered = @ + 1]
<1> DEFINE s == ui.service
           q == service[s].queue
           mark == IF service[s].skip THEN 1 ELSE 0
<1>1. s \in Targets BY DEF PresenterInv, TypeOK, Submit, UiType, WithNone
<1>2. /\ service \in [Targets -> ServiceType] /\ service[s] \in ServiceType
      /\ q \in Seq(0 .. 2) /\ files \in [Targets -> FileType] /\ FileInv(files[s])
      /\ service[s].running => files[s].open
  BY <1>1, FieldsOf
<1>3. CASE Accepts(s) /\ UNCHANGED <<ui, files>>
           /\ recorder' = [recorder EXCEPT ![t].offered = @ + 1]
           /\ service' = [service EXCEPT ![s].queue = Append(@, mark), ![s].skip = FALSE]
  <2> DEFINE longer == Append(q, mark)
             v == [service[s] EXCEPT !.queue = longer, !.skip = FALSE]
  <2>1. longer \in Seq(0 .. 2) BY <1>2, AppendProperties
  <2>2. service' = [service EXCEPT ![s] = v] BY <1>1, <1>2, <1>3
  <2> HIDE DEF longer, q, mark
  <2>3. v \in ServiceType /\ v.running = service[s].running /\ v.failed = service[s].failed
    BY ONLY <1>2, <2>1 DEF ServiceType
  <2> HIDE DEF v, s
  <2>. QED BY <1>1, <1>2, <1>3, <2>2, <2>3, SameIsKept, ServiceIs DEF Serves, s
<1>4. CASE /\ Accepts(s) /\ Idle(files[s]) /\ files' = [files EXCEPT ![s].gaps = @ + 1]
           /\ recorder' = [recorder EXCEPT ![t].offered = @ + 1]
           /\ service' = [service EXCEPT ![s].skip = TRUE] /\ ui' = ui
  <2> DEFINE g == [files[s] EXCEPT !.gaps = @ + 1]
             v == [service[s] EXCEPT !.skip = TRUE]
  <2>1. files' = [files EXCEPT ![s] = g] /\ service' = [service EXCEPT ![s] = v]
    BY <1>1, <1>2, <1>4
  <2>2. v \in ServiceType /\ v.running = service[s].running /\ v.failed = service[s].failed
    BY <1>2 DEF ServiceType
  <2>3. files[s].open /\ Kept(files[s], g) BY <1>2, <1>4, GapsKeep DEF Accepts
  <2> HIDE DEF g, v, s
  <2>. QED BY <1>1, <1>4, <2>1, <2>2, <2>3, ServiceIs DEF Serves, s
<1>. QED BY <1>1, <1>3, <1>4 DEF Submit, Refused

LEMMA SubmitKeeps ==
  ASSUME PresenterInv, NEW t \in Targets, Submit(t)
  PROVE  PresenterInv' /\ Durable
<1> DEFINE s == ui.service
           more == recorder[t].offered + 1
           offer == [recorder[t] EXCEPT !.offered = more]
<1>1. /\ ui \in UiType /\ service \in [Targets -> ServiceType]
      /\ recorder \in [Targets -> RecorderType] /\ recorder[t] \in RecorderType
      /\ files \in [Targets -> FileType]
  BY DEF PresenterInv, TypeOK
<1>2. s \in Targets BY <1>1 DEF Submit, UiType, WithNone
<1>4. more \in Nat /\ recorder[t].at = "loop" BY <1>1 DEF RecorderType, Submit
<1>5. gui' = gui BY DEF Submit
<1> HIDE DEF more
<1>6. offer \in RecorderType /\ offer.at = "loop"
  BY ONLY <1>1, <1>4 DEF RecorderType
<1>7. CASE Refused(t)
  <2> DEFINE r == [recorder[t] EXCEPT !.offered = more, !.at = "finally", !.final = FALSE]
  <2>1. recorder' = [recorder EXCEPT ![t] = r] BY <1>1, <1>7 DEF Refused, more
  <2>2. r \in RecorderType /\ r.at = "finally"
    BY ONLY <1>1, <1>4 DEF RecorderType
  <2> HIDE DEF r
  <2>3. ui' \in UiType BY <1>1, <1>7 DEF Refused, UiType
  <2>. QED BY <1>5, <1>7, <2>1, <2>2, <2>3, RecorderStep DEF Refused, Stops
<1>8. ASSUME recorder' = [recorder EXCEPT ![t].offered = @ + 1]
      PROVE  /\ recorder' \in [Targets -> RecorderType]
             /\ \A u \in Targets :
                  recorder'[u].at \in Stops => recorder'[u].service \in Targets
  <2>1. recorder' = [recorder EXCEPT ![t] = offer] BY <1>1, <1>8 DEF more
  <2> HIDE DEF offer
  <2>. QED BY <1>1, <1>6, <2>1 DEF PresenterInv, ServicesWrite, Stops
<1>9. ASSUME Serves(s), recorder' = [recorder EXCEPT ![t].offered = @ + 1], ui' = ui
      PROVE  PresenterInv' /\ Durable
  <2> HIDE DEF s
  <2>. QED BY <1>2, <1>5, <1>8, <1>9, ServesKeeps
<1>. QED BY <1>7, <1>9, SubmitServes DEF Submit

(* stop(): what a failed or cancelled service has in its queue becomes     *)
(* gaps; None is put in it; then the files get their final names or are    *)
(* given up.                                                               *)
LEMMA BlocksAreCounted == ASSUME NEW q \in Seq(0 .. 2) PROVE Blocks(q) \in Nat
<1> DEFINE S == {i \in DOMAIN q : q[i] # None}
<1>1. S \subseteq 1 .. Len(q) /\ Len(q) \in Nat BY LenProperties
<1>2. IsFiniteSet(1 .. Len(q)) BY <1>1, FS_Interval
<1> HIDE DEF S
<1>3. IsFiniteSet(S) BY <1>1, <1>2, FS_Subset
<1>. QED BY <1>3, FS_CardinalityType DEF Blocks, S

LEMMA StopServes ==
  ASSUME PresenterInv, NEW s \in Targets, NEW final, Looks(s, final) \/ PutsNone(s)
  PROVE  Serves(s)
<1> DEFINE q == service[s].queue
           none == <<>>
           last == Append(q, None)
<1>1. /\ service \in [Targets -> ServiceType] /\ service[s] \in ServiceType
      /\ q \in Seq(0 .. 2) /\ files \in [Targets -> FileType] /\ FileInv(files[s])
      /\ service[s].running => files[s].open
  BY FieldsOf
<1>2. none \in Seq(0 .. 2) /\ last \in Seq(0 .. 2)
  BY <1>1, AppendProperties DEF None
<1> HIDE DEF none, last
<1>3. CASE UNCHANGED <<service, files>> BY <1>1, <1>3, SameIsKept DEF Serves
<1>4. CASE Looks(s, final) /\ ~UNCHANGED <<service, files>>
  <2> DEFINE n == Blocks(q)
             g == [files[s] EXCEPT !.gaps = @ + n]
             v == [service[s] EXCEPT !.queue = none, !.stop = TRUE]
  <2>1. /\ files' = [files EXCEPT ![s] = g] /\ service' = [service EXCEPT ![s] = v]
        /\ Idle(files[s]) /\ files[s].open
    BY <1>1, <1>4 DEF Looks, none
  <2>2. n \in Nat BY <1>1, BlocksAreCounted
  <2> HIDE DEF n, q
  <2>3. Kept(files[s], g) BY <1>1, <2>1, <2>2, GapsKeep
  <2>4. v \in ServiceType /\ v.running = service[s].running /\ v.failed = service[s].failed
    BY ONLY <1>1, <1>2 DEF ServiceType
  <2> HIDE DEF g, v
  <2>. QED BY <2>1, <2>3, <2>4, ServiceIs DEF Serves
<1>5. CASE PutsNone(s)
  <2> DEFINE v == [service[s] EXCEPT !.queue = last]
  <2>1. service' = [service EXCEPT ![s] = v] /\ files' = files
    BY <1>1, <1>5 DEF PutsNone, last
  <2>2. v \in ServiceType /\ v.running = service[s].running /\ v.failed = service[s].failed
    BY ONLY <1>1, <1>2 DEF ServiceType
  <2> HIDE DEF v
  <2>. QED BY <2>1, <2>2, SameIsKept, ServiceIs DEF Serves
<1>. QED BY <1>3, <1>4, <1>5

LEMMA JoinsIs ==
  ASSUME PresenterInv, NEW s \in Targets, NEW final \in BOOLEAN, Joins(s, final)
  PROVE  /\ \E g : /\ FileInv(g) /\ Whole(g) >= Whole(files[s]) /\ g.place = files[s].place
                   /\ files' = [files EXCEPT ![s] = g]
                   /\ (files[s].open /\ service[s].running) \/ g = files[s]
                   /\ service[s].running /\ final => service[s].failed \/ Ends(g)
         /\ service' \in [Targets -> ServiceType]
         /\ ~service'[s].running /\ service'[s].failed = service[s].failed
         /\ \A t \in Targets \ {s} : service'[t] = service[t]
<1> DEFINE g == LastCall(files[s], service[s], final)
           v == [service[s] EXCEPT !.running = FALSE]
<1>1. /\ service \in [Targets -> ServiceType] /\ service[s] \in ServiceType
      /\ files \in [Targets -> FileType] /\ FileInv(files[s])
      /\ service[s].running => files[s].open
  BY FieldsOf
<1>2. /\ files' = [files EXCEPT ![s] = g] /\ service' = [service EXCEPT ![s] = v]
      /\ Idle(files[s])
  BY <1>1 DEF Joins
<1>3. v \in ServiceType /\ v.running = FALSE /\ v.failed = service[s].failed
  BY <1>1 DEF ServiceType
<1>4. /\ FileInv(g) /\ Whole(g) >= Whole(files[s]) /\ g.place = files[s].place
      /\ (files[s].open /\ service[s].running) \/ g = files[s]
      /\ service[s].running /\ final => service[s].failed \/ Ends(g)
  <2>1. CASE ~service[s].running
    <3>1. g = files[s] BY <2>1 DEF LastCall
    <3> HIDE DEF g
    <3>2. Whole(files[s]) \in Nat BY <1>1, WholeIs DEF FileInv, Sound
    <3>. QED BY <1>1, <2>1, <3>1, <3>2
  <2>2. CASE service[s].running /\ final /\ ~service[s].failed
    <3>1. g = Finalize(files[s]) BY <2>2 DEF LastCall
    <3> HIDE DEF g
    <3>. QED BY <1>1, <1>2, <2>2, <3>1, FinalizeKeeps
  <2>3. CASE service[s].running /\ ~(final /\ ~service[s].failed)
    <3>1. g = Abort(files[s]) BY <2>3 DEF LastCall
    <3> HIDE DEF g
    <3>. QED BY <1>1, <1>2, <2>3, <3>1, AbortKeeps
  <2>. QED BY <2>1, <2>2, <2>3
<1> HIDE DEF g, v
<1>. QED BY <1>1, <1>2, <1>3, <1>4

LEMMA JoinsKeeps ==
  ASSUME PresenterInv, NEW s \in Targets, NEW final \in BOOLEAN, Joins(s, final),
         recorder' \in [Targets -> RecorderType],
         \A t \in Targets : recorder'[t].at \in Stops => recorder'[t].service \in Targets,
         ui' = ui, gui' = gui \/ GuiIsSafe(gui')
  PROVE  PresenterInv' /\ Durable
<1>1. PICK g : /\ FileInv(g) /\ Whole(g) >= Whole(files[s]) /\ g.place = files[s].place
               /\ files' = [files EXCEPT ![s] = g]
               /\ (files[s].open /\ service[s].running) \/ g = files[s]
  BY JoinsIs
<1>2. /\ service' \in [Targets -> ServiceType] /\ ~service'[s].running
      /\ \A t \in Targets : service'[t].running => service[t].running
  BY JoinsIs
<1>3. service'[s].running \/ (gui.at = "starting" /\ gui.target = s) => g.open
  BY <1>1, <1>2 DEF PresenterInv, ServicesWrite
<1>. QED BY <1>1, <1>2, <1>3, ServiceStep

LEMMA StopIs ==
  ASSUME PresenterInv, NEW t \in Targets, StopService(t) \/ StopGoesOn(t)
  PROVE  \E at \in {"report", "put", "join", "stopping"} :
           LET s == recorder[t].service
           IN /\ s \in Targets /\ recorder[t].at \in {"stop", "put", "join"} /\ GoTo(t, at)
              /\ \/ /\ recorder[t].at = "stop" /\ at = "report" /\ ~service[s].running
                    /\ UNCHANGED <<service, files>>
                 \/ at \in {"put", "join"} /\ Serves(s)
                 \/ at = "stopping" /\ Joins(s, recorder[t].final)
              /\ UNCHANGED <<ui, gui, overlap, masked>>
<1> DEFINE s == recorder[t].service
<1>1. /\ s \in Targets /\ recorder[t].at \in {"stop", "put", "join"}
      /\ UNCHANGED <<ui, gui, overlap, masked>>
  BY DEF PresenterInv, ServicesWrite, StopService, StopGoesOn, Stops
<1>2. CASE recorder[t].at = "stop" /\ ~service[s].running /\ GoTo(t, "report") /\ UNCHANGED <<service, files>>
  BY <1>1, <1>2
<1>3. CASE Looks(s, recorder[t].final) /\ GoTo(t, "put")
  BY <1>1, <1>3, StopServes
<1>4. CASE PutsNone(s) /\ GoTo(t, "join") BY <1>1, <1>4, StopServes
<1>5. CASE Joins(s, recorder[t].final) /\ GoTo(t, "stopping") BY <1>1, <1>5
<1>. QED BY <1>2, <1>3, <1>4, <1>5 DEF StopService, StopGoesOn

LEMMA StopKeeps ==
  ASSUME PresenterInv, NEW t \in Targets, StopService(t) \/ StopGoesOn(t)
  PROVE  PresenterInv' /\ Durable
<1> DEFINE s == recorder[t].service
<1>1. PICK at \in {"report", "put", "join", "stopping"} :
        /\ s \in Targets /\ GoTo(t, at)
        /\ \/ UNCHANGED <<service, files>>
           \/ Serves(s)
           \/ Joins(s, recorder[t].final)
        /\ UNCHANGED <<ui, gui>>
  BY StopIs
<1> DEFINE r == [recorder[t] EXCEPT !.at = at]
<1>2. /\ recorder \in [Targets -> RecorderType] /\ recorder[t] \in RecorderType
      /\ ui \in UiType /\ recorder[t].final \in BOOLEAN
  BY DEF PresenterInv, TypeOK, RecorderType
<1>3. recorder' = [recorder EXCEPT ![t] = r] BY <1>1, <1>2 DEF GoTo
<1>4. r \in RecorderType /\ r.service = s
  BY ONLY <1>1, <1>2 DEF RecorderType, Stops
<1> HIDE DEF r, s
<1>5. /\ recorder' \in [Targets -> RecorderType]
      /\ \A u \in Targets : recorder'[u].at \in Stops => recorder'[u].service \in Targets
  BY <1>1, <1>2, <1>3, <1>4 DEF PresenterInv, ServicesWrite
<1>6. CASE UNCHANGED <<service, files>>
  BY <1>1, <1>2, <1>3, <1>4, <1>6, RecorderStep
<1>7. CASE Serves(s) BY <1>1, <1>5, <1>7, ServesKeeps
<1>8. CASE Joins(s, recorder[t].final) BY <1>1, <1>2, <1>5, <1>8, JoinsKeeps
<1>. QED BY <1>1, <1>6, <1>7, <1>8

(* service.close().                                                        *)
LEMMA CancelIs ==
  ASSUME PresenterInv, CancelService \/ CancelGoesOn
  PROVE  /\ gui.target \in Targets /\ UNCHANGED <<ui, recorder, overlap, masked>>
         /\ gui'.at \in {"cancelPut", "cancelJoin", "cancelling", "closed"} /\ GuiIsSafe(gui')
         /\ \/ UNCHANGED <<service, files>>
            \/ Serves(gui.target)
            \/ Joins(gui.target, FALSE)
<1> DEFINE s == gui.target
<1>1. s \in Targets /\ UNCHANGED <<ui, recorder, overlap, masked>>
  BY DEF PresenterInv, ServicesWrite, Working, CancelService, CancelGoesOn
<1>2. PICK at \in {"cancelPut", "cancelJoin", "cancelling", "closed"}, u \in {s, NoTarget} :
        Wait(at, "closed", u) /\ (at # "closed" => u = s)
  BY DEF CancelService, CancelGoesOn
<1>3. gui'.at = at /\ GuiIsSafe(gui')
  BY <1>1, <1>2 DEF Wait, GuiIsSafe, GuiType, GuiPlaces, WithNone, Working
<1>4. UNCHANGED <<service, files>> \/ Serves(s) \/ Joins(s, FALSE)
  BY <1>1, StopServes DEF CancelService, CancelGoesOn
<1>. QED BY <1>1, <1>2, <1>3, <1>4

LEMMA CancelKeeps ==
  ASSUME PresenterInv, CancelService \/ CancelGoesOn
  PROVE  PresenterInv' /\ Durable
<1>1. ui \in UiType /\ FALSE \in BOOLEAN BY DEF PresenterInv, TypeOK
<1>. QED BY <1>1, CancelIs, RecordersStand, QuietStep, ServesKeeps, JoinsKeeps

(* Nothing runs before the first command, and after a crash.               *)
NothingRuns ==
  /\ ui = FreshUi /\ gui = IdleGui
  /\ service = [t \in Targets |-> NoService] /\ recorder = [t \in Targets |-> NoRecorder]

LEMMA NothingIsTyped ==
  /\ FreshUi \in UiType /\ IdleGui \in GuiType
  /\ NoService \in ServiceType /\ NoRecorder \in RecorderType
  /\ ~NoService.running /\ NoRecorder.at = "none" /\ IdleGui.at = "idle"
<1>1. FreshUi \in UiType BY DEF FreshUi, UiType, WithNone
<1>2. IdleGui \in GuiType /\ IdleGui.at = "idle"
  BY DEF IdleGui, GuiType, GuiPlaces, Working, WithNone
<1>3. NoService \in ServiceType /\ ~NoService.running
  <2> DEFINE none == <<>>
  <2>1. none \in Seq(0 .. 2) OBVIOUS
  <2>2. NoService = [running |-> FALSE, failed |-> FALSE, stop |-> FALSE, ended |-> FALSE,
                     queue |-> none, skip |-> FALSE]
    BY DEF NoService
  <2> HIDE DEF none
  <2>. QED BY <2>1, <2>2 DEF ServiceType
<1>4. NoRecorder \in RecorderType /\ NoRecorder.at = "none"
  BY DEF NoRecorder, RecorderType, WithNone
<1>. QED BY <1>1, <1>2, <1>3, <1>4

LEMMA CrashIsSafe ==
  ASSUME PresenterInv, Crash
  PROVE  PresenterInv' /\ Durable
<1>1. /\ \A t \in Targets : files'[t] \in CrashOutcomes(files[t])
      /\ files' = [t \in Targets |-> files'[t]]
  <2> DEFINE touched == {t \in Targets : CrashOutcomes(files[t]) # {files[t]}}
  <2>1. PICK f \in [touched -> UNION {CrashOutcomes(files[t]) : t \in touched}] :
          /\ \A t \in touched : f[t] \in CrashOutcomes(files[t])
          /\ files' = [t \in Targets |-> IF t \in touched THEN f[t] ELSE files[t]]
    BY DEF Crash
  <2>. QED BY <2>1
<1>2. \A t \in Targets : FileInv(files'[t]) /\ Whole(files'[t]) >= Whole(files[t])
  BY <1>1, CrashKeeps DEF PresenterInv, FilesInv
<1>3. FilesInv' /\ Durable BY <1>2 DEF FilesInv, Durable
<1>4. files' \in [Targets -> FileType]
  <2>1. \A t \in Targets : files'[t] \in FileType BY <1>2 DEF FileInv, Sound
  <2>. QED BY <1>1, <2>1
<1>5. NothingRuns' BY DEF Crash, NothingRuns
<1>6. TypeOK' /\ ServicesWrite'
  BY <1>4, <1>5, NothingIsTyped
  DEF NothingRuns, TypeOK, ServicesWrite, Working, Stops
<1>. QED BY <1>3, <1>6 DEF PresenterInv

LEMMA NothingIsSound == FileInv(NoFiles)
<1> DEFINE zero == [data |-> 0, index |-> 0, gaps |-> 0]
           nowhere == [n \in Files |-> "none"]
           none == <<>>
<1>1. zero \in Counts /\ zero.data = 0 /\ zero.index = 0 /\ zero.gaps = 0
  BY DEF Counts
<1>2. nowhere \in [Files -> {"none", "part", "final"}] /\ \A n \in Files : nowhere[n] = "none"
  OBVIOUS
<1>3. none \in Seq(Ops) OBVIOUS
<1>4. /\ NoMetadata \in MetadataType
      /\ NoMetadata.blocks = 0 /\ NoMetadata.gaps = 0
  BY DEF NoMetadata, MetadataType
<1>5. NoFiles = [place |-> nowhere, data |-> 0, index |-> 0, gaps |-> 0,
                 synced |-> zero, torn |-> FALSE,
                 meta |-> NoMetadata, open |-> FALSE, todo |-> none, failed |-> FALSE]
  BY DEF NoFiles
<1>6. NoFiles.todo = <<>> BY <1>5
<1> HIDE DEF zero, nowhere, none
<1>7. NoFiles \in FileType BY <1>1, <1>2, <1>3, <1>4, <1>5 DEF FileType
<1>8. /\ NoFiles.place = nowhere /\ NoFiles.data = 0 /\ NoFiles.index = 0 /\ NoFiles.gaps = 0
      /\ NoFiles.synced = zero /\ NoFiles.torn = FALSE /\ NoFiles.meta = NoMetadata
      /\ NoFiles.open = FALSE
  BY <1>5
<1>9. \A n \in Files : NoFiles.place[n] = "none" BY <1>2, <1>8
<1>10. Fresh(NoFiles) BY <1>1, <1>4, <1>8 DEF Fresh
<1>11. InOrder(NoFiles.place) BY <1>9 DEF InOrder, Files
<1>12. Sound(NoFiles)
  BY <1>7, <1>9, <1>10, <1>11 DEF Sound, Fresh, Files, BlockBytes, Width
<1>13. Resting(NoFiles) BY <1>6, <1>8 DEF Resting
<1>. QED BY <1>12, <1>13 DEF FileInv

LEMMA InitIsSafe == ASSUME Init PROVE PresenterInv
<1>1. files = [t \in Targets |-> NoFiles] /\ NothingRuns
  BY DEF Init, NothingRuns
<1>2. NoFiles \in FileType BY NothingIsSound DEF FileInv, Sound
<1>3. files \in [Targets -> FileType] BY <1>1, <1>2
<1>4. FilesInv BY <1>1, NothingIsSound DEF FilesInv
<1>5. TypeOK /\ ServicesWrite
  BY <1>1, <1>3, NothingIsTyped
  DEF NothingRuns, TypeOK, ServicesWrite, Working, Stops
<1>. QED BY <1>4, <1>5 DEF PresenterInv

LEMMA NextKeeps ==
  ASSUME PresenterInv, Next
  PROVE  PresenterInv' /\ Durable
<1>1. CASE User BY <1>1, UserKeeps, StartsFresh, RecoveryBegins DEF User
<1>2. CASE Gui BY <1>2, GuiKeeps, ServiceStarts, CancelKeeps DEF Gui
<1>3. CASE Replayer BY <1>3, ReplayerKeeps
<1>4. CASE Crash BY <1>4, CrashIsSafe
<1>5. CASE \E t \in Targets : Recorder(t) \/ WriterMoves(t) \/ DiskEffect(t)
  BY <1>5, RecorderKeeps, SubmitKeeps, StopKeeps, WritesKeep, DiskKeeps DEF Recorder
<1>. QED BY <1>1, <1>2, <1>3, <1>4, <1>5 DEF Next, Runs, Writer, WriterMoves

LEMMA StepKeeps ==
  ASSUME PresenterInv, [Next]_vars
  PROVE  PresenterInv' /\ [Durable]_files
<1>1. CASE Next BY <1>1, NextKeeps
<1>2. CASE UNCHANGED vars
  <2>1. UNCHANGED <<ui, gui, service, recorder, files>> BY <1>2 DEF vars
  <2>. QED BY <2>1 DEF PresenterInv, TypeOK, FilesInv, ServicesWrite
<1>. QED BY <1>1, <1>2

(* Files that are sound can be replayed if they have the final name.       *)
LEMMA SoundIsReplayable == ASSUME PresenterInv PROVE ReplayableIsWhole
<1>1. SUFFICES ASSUME NEW t \in Targets
      PROVE  /\ files[t].place["meta"] = "final" =>
                  /\ \A n \in Files : files[t].place[n] = "final"
                  /\ CanReplay(files[t]) /\ files[t].meta.completed
                  /\ files[t].meta.blocks = files[t].index
             /\ files[t].meta.blocks <= files[t].index /\ files[t].meta.gaps <= files[t].gaps
  BY DEF ReplayableIsWhole
<1> DEFINE f == files[t]
<1>2. f \in FileType /\ Sound(f) BY DEF PresenterInv, FilesInv, FileInv, Sound
<1> HIDE DEF f
<1>3. ASSUME f.place["meta"] = "final"
      PROVE  /\ \A n \in Files : f.place[n] = "final"
             /\ CanReplay(f) /\ f.meta.completed /\ f.meta.blocks = f.index
  <2>1. \A n \in Files : f.place[n] = "final"
    BY <1>2, <1>3 DEF Sound, InOrder, Files
  <2>2. Sealed(f) BY <1>2, <1>3 DEF Sound
  <2>. QED BY <2>1, <2>2 DEF Sealed, Full, CanReplay
<1>4. f.meta.blocks <= f.index /\ f.meta.gaps <= f.gaps
  <2>1. /\ f.meta.blocks \in Nat /\ f.meta.gaps \in Nat /\ f.index \in Nat /\ f.gaps \in Nat
        /\ f.synced.index \in Nat /\ f.synced.gaps \in Nat
    BY <1>2 DEF FileType, Counts, MetadataType
  <2>2. /\ f.meta.blocks <= f.synced.index /\ f.synced.index <= f.index
        /\ f.meta.gaps <= f.synced.gaps /\ f.synced.gaps <= f.gaps
    BY <1>2 DEF Sound
  <2>. QED BY ONLY <2>1, <2>2
<1>. QED BY <1>3, <1>4 DEF f

-----------------------------------------------------------------------------
(* The status of the workspace                                             *)

(* What no step but a crash takes back.                                    *)
Lasts(f, g) ==
  /\ Ends(f) => Ends(g)
  /\ f.place["meta"] = "final" => g.place["meta"] = "final"
  /\ f.place["data"] # "none" => g.place["data"] # "none"

(* A recording that ends is closed, has its files, and ends when nothing   *)
(* is left to do.                                                          *)
LEMMA EndsIs ==
  ASSUME NEW f, FileInv(f)
  PROVE  /\ f.place["meta"] = "final" => Idle(f) /\ ~f.open
         /\ Ends(f) => ~f.open /\ f.place["data"] # "none"
         /\ Ends(f) /\ Idle(f) => f.place["meta"] = "final"
<1>1. /\ (\E k \in 1 .. 4 : Opening(f, k)) => f.place["meta"] = "none"
      /\ (\E k \in 1 .. 4 : Forcing(f, k)) => f.place["meta"] = "part"
      /\ (\E k \in 1 .. 8 : Finalizing(f, k)) => f.place["meta"] = "part"
      /\ (\E k \in 1 .. 8 : Recovering(f, k)) => f.place["meta"] = "part"
      /\ Resting(f) /\ f.open => f.place["meta"] = "part"
  BY DEF Opening, Forcing, Finalizing, Recovering, Resting, AllPart, Places
<1>2. f.place["meta"] = "final" => Idle(f) /\ ~f.open
  BY <1>1 DEF FileInv, Resting, Idle
<1>3. f.place["meta"] = "final" => f.place["data"] # "none"
  BY DEF FileInv, Sound, InOrder
<1>4. (\E k \in 1 .. 8 : Finalizing(f, k)) => ~f.open /\ f.place["data"] # "none"
  BY DEF Finalizing, Places, Moved
<1>5. Idle(f) => ~\E k \in 1 .. 8 : Finalizing(f, k)
  <2>1. \A k \in 1 .. 8 : Left(FinalProgram, k) # <<>>
    BY LeftSteps, ProgramsAreOps
  <2>. QED BY <2>1 DEF Finalizing, Idle
<1>. QED BY <1>2, <1>3, <1>4, <1>5 DEF Ends

(* An open recording does not end yet, so nothing can be taken back.       *)
LEMMA OpenLasts ==
  ASSUME NEW f, FileInv(f), f.open, NEW g, f.place["data"] # "none" => g.place["data"] # "none"
  PROVE  Lasts(f, g)
BY EndsIs DEF Lasts

LEMMA EffectLasts ==
  ASSUME NEW f, FileInv(f), ~Idle(f) PROVE Lasts(f, Effect(f))
<1>1. f.place["meta"] # "final" BY EndsIs
<1>2. Kept(f, Effect(f)) BY EffectKeeps
<1>3. Ends(f) => Ends(Effect(f)) BY <1>1, FinalizingGoes DEF Ends, FileInv
<1>. QED BY <1>1, <1>2, <1>3 DEF Lasts, Kept

LEMMA RecoverLasts ==
  ASSUME NEW f, FileInv(f), Idle(f), ~f.open PROVE Lasts(f, Recover(f))
<1>1. Kept(f, Recover(f)) BY RecoverKeeps
<1>2. f.place["meta"] = "final" => Recover(f).place["meta"] = "final"
  <2>1. f \in FileType BY DEF FileInv, Sound
  <2>2. f.place["meta"] = "final" => Recover(f) = [f EXCEPT !.failed = TRUE]
    BY DEF Recover, PartSet
  <2>. QED BY <2>1, <2>2 DEF FileType
<1>. QED BY <1>1, <1>2, EndsIs DEF Lasts, Kept, Ends

LEMMA StartLasts ==
  ASSUME NEW f, FileInv(f), Free(f), NEW g PROVE Lasts(f, g)
<1>1. f.place["data"] = "none" /\ f.place["meta"] = "none" BY DEF Free, Files
<1>. QED BY <1>1, EndsIs DEF Lasts

Lasting ==
  \A t \in Targets : Lasts(files[t], files'[t]) /\ (service[t].failed => service'[t].failed)

LEMMA SameLasts ==
  ASSUME UNCHANGED <<service, files>> PROVE Lasting
BY DEF Lasting, Lasts

LEMMA OneLasts ==
  ASSUME PresenterInv, NEW t \in Targets, NEW g, Lasts(files[t], g),
         files' = [files EXCEPT ![t] = g],
         \A s \in Targets : service[s].failed => service'[s].failed
  PROVE  Lasting
<1>1. files \in [Targets -> FileType] BY DEF PresenterInv, TypeOK
<1>2. files'[t] = g /\ \A s \in Targets \ {t} : files'[s] = files[s] BY <1>1
<1>3. \A s \in Targets \ {t} : Lasts(files[s], files'[s]) BY <1>2 DEF Lasts
<1>. QED BY <1>2, <1>3 DEF Lasting

Closing == gui.at \in {"cancel", "cancelPut", "cancelJoin", "cancelling", "closed"}
Claims(u) == u.recording \in {"running", "stopping", "completed"}

(* Nobody records a target that has no files, or is about to get them.     *)
FreshTargets ==
  \A t \in Targets :
    files[t].place["data"] = "none" \/ (gui.at = "starting" /\ gui.target = t)
      => recorder[t].at = "none" /\ recorder[t].final

(* A recorder stops its own service.                                       *)
StopsOwn(r, t) == r.at \in Stops => r.service = t
OneRecorder ==
  \A t \in Targets :
    recorder[t].at \notin {"none", "ended"} => ui.thread = t /\ StopsOwn(recorder[t], t)

(* What the workspace says is so, at each place of the recorder.           *)
True(u, r, v, f) ==
  /\ r.at # "none"
  /\ r.at \in {"loop", "finally", "stop", "put", "join"} => v.running /\ r.final
  /\ r.at \in {"loop", "finally"} \cup Stops => u.recording # "completed"
  /\ r.at = "stopping" => v.failed \/ Ends(f)
  /\ r.at \in {"report", "ended"} => u.error \/ f.place["meta"] = "final"
Told ==
  Claims(ui) =>
    /\ ui.thread \in Targets
    /\ True(ui, recorder[ui.thread], service[ui.thread], files[ui.thread])

StatusInv ==
  /\ FreshTargets
  /\ ~Closing => ui.service = ui.thread
  /\ ~overlap /\ ~Closing => OneRecorder
  /\ ~overlap /\ ~Closing /\ ~masked => Told

(* What is true stays true of a recorder that does not move.               *)
LEMMA TrueStays ==
  ASSUME NEW u, NEW w, NEW r, NEW v, NEW x, NEW f, NEW g,
         True(u, r, v, f), Lasts(f, g),
         v.running => x.running, v.failed => x.failed,
         u.error => w.error, w.recording = "completed" => u.recording = "completed"
  PROVE  True(w, r, x, g)
BY DEF True, Lasts

(* A step in which no recorder moves: the workspace claims nothing any     *)
(* more, has masked its error, or claims no more than before.              *)
Modest(u, w) ==
  ~Claims(w) \/ (/\ Claims(u) /\ (u.error => w.error)
                 /\ w.recording = "completed" => u.recording = "completed")

LEMMA RecordersWait ==
  ASSUME StatusInv, Lasting, recorder' = recorder, overlap' = overlap, masked => masked',
         gui'.at = "starting" => gui' = gui \/ files[gui'.target].place["data"] = "none",
         ~Closing' => /\ ~Closing /\ ui'.service = ui.service /\ ui'.thread = ui.thread
                      /\ \A t \in Targets : service[t].running => service'[t].running,
         masked' \/ Modest(ui, ui')
  PROVE  StatusInv'
<1>1. FreshTargets'
  <2> SUFFICES ASSUME NEW t \in Targets,
                      files'[t].place["data"] = "none" \/ (gui'.at = "starting" /\ gui'.target = t)
               PROVE  recorder[t].at = "none" /\ recorder[t].final
    BY DEF FreshTargets
  <2>1. files[t].place["data"] = "none" \/ (gui.at = "starting" /\ gui.target = t)
    BY DEF Lasting, Lasts
  <2>. QED BY <2>1 DEF StatusInv, FreshTargets
<1>2. ~Closing' => ui'.service = ui'.thread BY DEF StatusInv
<1>3. ASSUME ~overlap', ~Closing' PROVE OneRecorder'
  BY <1>3 DEF StatusInv, OneRecorder
<1>4. ASSUME ~overlap', ~Closing', ~masked' PROVE Told'
  <2> SUFFICES ASSUME Claims(ui')
               PROVE  /\ ui'.thread \in Targets
                      /\ True(ui', recorder'[ui'.thread], service'[ui'.thread], files'[ui'.thread])
    BY DEF Told
  <2> DEFINE t == ui.thread
  <2>1. Modest(ui, ui') /\ ui'.thread = t BY <1>4
  <2>2. /\ Claims(ui) /\ (ui.error => ui'.error)
        /\ ui'.recording = "completed" => ui.recording = "completed"
    BY <2>1 DEF Modest
  <2>3. t \in Targets /\ True(ui, recorder[t], service[t], files[t])
    BY <1>4, <2>2 DEF StatusInv, Told
  <2>4. Lasts(files[t], files'[t]) /\ (service[t].failed => service'[t].failed)
    BY <2>3 DEF Lasting
  <2>5. service[t].running => service'[t].running BY <1>4, <2>3
  <2> HIDE DEF t
  <2>6. True(ui', recorder[t], service'[t], files'[t])
    BY ONLY <2>2, <2>3, <2>4, <2>5, TrueStays
  <2>. QED BY <2>1, <2>3, <2>6
<1>. QED BY <1>1, <1>2, <1>3, <1>4 DEF StatusInv

(* A step of a recorder.                                                   *)
Calm == ~overlap /\ ~Closing
LEMMA RecorderMoves ==
  ASSUME PresenterInv, StatusInv, Lasting, NEW t \in Targets, NEW r,
         recorder[t].at \notin {"none", "ended"}, recorder' = [recorder EXCEPT ![t] = r],
         UNCHANGED <<gui, overlap, masked>>,
         ui'.service = ui.service, ui'.thread = ui.thread,
         Calm => StopsOwn(r, t),
         Calm /\ ~masked /\ Claims(ui') => True(ui', r, service'[t], files'[t])
  PROVE  StatusInv'
<1>1. /\ recorder'[t] = r /\ \A s \in Targets \ {t} : recorder'[s] = recorder[s]
  BY DEF PresenterInv, TypeOK
<1>2. FreshTargets'
  <2> SUFFICES ASSUME NEW s \in Targets,
                      files'[s].place["data"] = "none" \/ (gui'.at = "starting" /\ gui'.target = s)
               PROVE  recorder'[s].at = "none" /\ recorder'[s].final
    BY DEF FreshTargets
  <2>1. files[s].place["data"] = "none" \/ (gui.at = "starting" /\ gui.target = s)
    BY DEF Lasting, Lasts
  <2>2. recorder[s].at = "none" /\ recorder[s].final
    BY <2>1 DEF StatusInv, FreshTargets
  <2>. QED BY <1>1, <2>2
<1>3. Closing' = Closing BY DEF Closing
<1>4. ~Closing' => ui'.service = ui'.thread BY <1>3 DEF StatusInv
<1>5. ASSUME Calm PROVE ui.thread = t /\ OneRecorder'
  BY <1>1, <1>5 DEF StatusInv, OneRecorder, Calm
<1>6. ASSUME Calm, ~masked PROVE Told' BY <1>1, <1>5, <1>6 DEF Told
<1>. QED BY <1>2, <1>3, <1>4, <1>5, <1>6 DEF StatusInv, Calm

(* The calls of the GUI thread.                                            *)
LEMMA GuiWaits ==
  ASSUME StatusInv, UNCHANGED <<service, recorder, files, overlap>>, masked => masked',
         gui' = gui \/ gui'.at # "starting",
         ~Closing' => ~Closing /\ ui'.service = ui.service /\ ui'.thread = ui.thread,
         masked' \/ Modest(ui, ui')
  PROVE  StatusInv'
<1>1. Lasting BY SameLasts
<1>2. \A t \in Targets : service[t].running => service'[t].running OBVIOUS
<1>. QED BY <1>1, <1>2, RecordersWait

(* An error of the other half is masked or stays.                          *)
LEMMA ErrorsMask ==
  ASSUME PresenterInv, NEW value \in BOOLEAN, SetError(value)
  PROVE  /\ ui'.service = ui.service /\ ui'.thread = ui.thread
         /\ masked => masked'
         /\ masked' \/ Modest(ui, ui')
<1>1. ui \in UiType BY DEF PresenterInv, TypeOK
<1>2. /\ ui' = [ui EXCEPT !.error = value]
      /\ masked' = (masked \/ (ui.error /\ ~value /\ Claims(ui)))
  BY DEF SetError, Claims
<1>3. /\ ui'.service = ui.service /\ ui'.thread = ui.thread
      /\ ui'.recording = ui.recording /\ ui'.error = value
  BY <1>1, <1>2 DEF UiType
<1>. QED BY <1>2, <1>3, Zenon DEF Modest, Claims

LEMMA UserIsHonest ==
  ASSUME PresenterInv, StatusInv,
         Configure \/ StopRecording \/ StopReplay \/ OpenReplay \/ Play \/ Pause \/ Reprocess \/ Close
  PROVE  StatusInv'
<1>1. ui \in UiType BY DEF PresenterInv, TypeOK
<1>2. Modest(ui, ui) BY DEF Modest
<1>3. CASE Configure
  <2>1. /\ ui'.recording = "configured" /\ ui'.service = ui.service /\ ui'.thread = ui.thread
        /\ UNCHANGED <<gui, service, recorder, files, overlap, masked>>
    BY <1>1, <1>3 DEF Configure, UiType
  <2>. QED BY <2>1, GuiWaits DEF Modest, Claims, Closing
<1>4. CASE StopRecording
  <2>1. /\ ui'.recording = "stopping" /\ ui'.service = ui.service /\ ui'.thread = ui.thread
        /\ ui.recording = "running" /\ ui'.error = ui.error
        /\ UNCHANGED <<gui, service, recorder, files, overlap, masked>>
    BY <1>1, <1>4 DEF StopRecording, Stopping, UiType
  <2>. QED BY <2>1, GuiWaits DEF Modest, Claims, Closing
<1>5. CASE StopReplay \/ OpenReplay
  <2>1. /\ gui'.at = "joinReplay" /\ gui.at = "idle"
        /\ UNCHANGED <<ui, service, recorder, files, overlap, masked>>
    BY <1>5 DEF StopReplay, OpenReplay, Wait, Command
  <2>. QED BY <1>2, <2>1, GuiWaits DEF Closing
<1>6. CASE Play
  <2>1. UNCHANGED <<gui, service, recorder, files, overlap>> BY <1>6 DEF Play
  <2>2. CASE UNCHANGED <<ui, masked>> BY <1>2, <2>1, <2>2, GuiWaits DEF Closing
  <2>3. CASE SetError(FALSE)
    <3>1. FALSE \in BOOLEAN OBVIOUS
    <3>2. /\ ui'.service = ui.service /\ ui'.thread = ui.thread
          /\ masked => masked'
          /\ masked' \/ Modest(ui, ui')
      BY <2>3, <3>1, ErrorsMask
    <3>. QED BY <2>1, <3>2, GuiWaits DEF Closing
  <2>. QED BY <1>6, <2>2, <2>3 DEF Play
<1>7. CASE Pause
  <2>1. UNCHANGED <<ui, gui, service, recorder, files, overlap, masked>>
    BY <1>7 DEF Pause
  <2>. QED BY <1>2, <2>1, GuiWaits DEF Closing
<1>8. CASE Reprocess
  <2>1. PICK t \in Targets, missing \in BOOLEAN : SetError(missing \/ ~CanOpen(files[t]))
    BY <1>8 DEF Reprocess
  <2>2. (missing \/ ~CanOpen(files[t])) \in BOOLEAN BY DEF CanOpen
  <2>3. /\ ui'.service = ui.service /\ ui'.thread = ui.thread
        /\ masked => masked'
        /\ masked' \/ Modest(ui, ui')
    BY <2>1, <2>2, ErrorsMask
  <2>4. UNCHANGED <<gui, service, recorder, files, overlap>>
    BY <1>8 DEF Reprocess
  <2>. QED BY <2>3, <2>4, GuiWaits DEF Closing
<1>9. CASE Close
  <2>1. /\ ui'.service = ui.service /\ ui'.thread = ui.thread /\ ui'.error = ui.error
        /\ \/ ui'.recording = ui.recording
           \/ ui.recording = "running" /\ ui'.recording = "stopping"
    BY <1>1, <1>9 DEF Close, Stopping, UiType
  <2>2. /\ gui'.at = "joinReplay" /\ gui.at = "idle"
        /\ UNCHANGED <<service, recorder, files, overlap, masked>>
    BY <1>9 DEF Close, Wait, Command
  <2>3. Modest(ui, ui') BY <2>1 DEF Modest, Claims
  <2>. QED BY <2>1, <2>2, <2>3, GuiWaits DEF Closing
<1>. QED BY <1>3, <1>4, <1>5, <1>6, <1>7, <1>8, <1>9

LEMMA GuiIsHonest ==
  ASSUME PresenterInv, StatusInv,
         Recovered \/ JoinReplay \/ Open \/ JoinRecorder \/ PresenterCloses
  PROVE  StatusInv'
<1>1. ui \in UiType /\ gui \in GuiType BY DEF PresenterInv, TypeOK
<1>2. Modest(ui, ui) BY DEF Modest
<1>3. ASSUME NEW value \in BOOLEAN, SetError(value), gui'.at = "idle",
             gui.at \in {"recovering", "open"}, UNCHANGED <<service, recorder, files, overlap>>
      PROVE  StatusInv'
  <2>1. /\ ui'.service = ui.service /\ ui'.thread = ui.thread
        /\ masked => masked'
        /\ masked' \/ Modest(ui, ui')
    BY <1>3, ErrorsMask
  <2>. QED BY <1>3, <2>1, GuiWaits DEF Closing
<1>4. CASE Recovered
  <2>1. files[gui.target].failed \in BOOLEAN
    BY <1>4 DEF PresenterInv, TypeOK, ServicesWrite, Working, Recovered, FileType
  <2>. QED BY <1>3, <1>4, <2>1 DEF Recovered, Wait
<1>5. CASE Open
  <2>1. SetError(FALSE) \/ SetError(TRUE) BY <1>5 DEF Open
  <2>. QED BY <1>3, <1>5, <2>1 DEF Open, Wait
<1>6. CASE JoinReplay
  <2>1. UNCHANGED <<ui, service, recorder, files, overlap, masked>>
    BY <1>6 DEF JoinReplay
  <2>2. gui'.at = gui.then /\ gui.at = "joinReplay"
    BY <1>1, <1>6 DEF JoinReplay, GuiType
  <2>3. gui'.at # "starting" BY <1>1, <2>2 DEF GuiType
  <2>. QED BY <1>2, <2>1, <2>2, <2>3, GuiWaits DEF Closing
<1>7. CASE JoinRecorder
  <2>1. /\ gui'.at \in {"cancel", "closed"}
        /\ UNCHANGED <<service, recorder, files, overlap, masked>>
    BY <1>7 DEF JoinRecorder, Wait
  <2>2. ui'.recording = ui.recording /\ ui'.error = ui.error
    BY <1>1, <1>7 DEF JoinRecorder, UiType
  <2>3. Modest(ui, ui') BY <2>2 DEF Modest, Claims
  <2>. QED BY <2>1, <2>3, GuiWaits DEF Closing
<1>8. CASE PresenterCloses
  <2>1. /\ gui'.at = "closed" /\ UNCHANGED <<ui, service, recorder, files, overlap, masked>>
    BY <1>8 DEF PresenterCloses, Wait
  <2>. QED BY <1>2, <2>1, GuiWaits DEF Closing
<1>. QED BY <1>4, <1>5, <1>6, <1>7, <1>8

(* Only a recording that nobody writes is begun, or recovered.             *)
LEMMA StartIsHonest ==
  ASSUME PresenterInv, StatusInv, StartRecording \/ RecoverPartial
  PROVE  StatusInv'
<1>1. ui \in UiType BY DEF PresenterInv, TypeOK
<1>2. Modest(ui, ui) BY DEF Modest
<1>3. /\ UNCHANGED <<service, recorder, overlap, masked>> /\ gui.at = "idle"
      /\ \A t \in Targets : service[t].running => service'[t].running
      /\ \A t \in Targets : service[t].failed => service'[t].failed
  BY DEF StartRecording, RecoverPartial, Command
<1>4. CASE /\ StartRecording /\ ui' = [ui EXCEPT !.recording = "failed", !.error = TRUE]
           /\ UNCHANGED <<files, gui>>
  <2>1. ui'.recording = "failed" /\ ui'.service = ui.service /\ ui'.thread = ui.thread
    BY <1>1, <1>4 DEF UiType
  <2>2. Modest(ui, ui') BY <2>1 DEF Modest, Claims
  <2>. QED BY <1>3, <1>4, <2>1, <2>2, GuiWaits DEF Closing
<1>5. CASE /\ StartRecording /\ Free(files[ui.setup])
           /\ files' = [files EXCEPT ![ui.setup] = StartWriter(@)]
           /\ Wait("starting", "idle", ui.setup) /\ UNCHANGED ui
  <2> DEFINE t == ui.setup
             g == StartWriter(files[t])
  <2>1. t \in Targets /\ FileInv(files[t])
    BY <1>1, <1>5 DEF StartRecording, UiType, WithNone, PresenterInv, FilesInv
  <2>2. files' = [files EXCEPT ![t] = g] /\ gui'.at = "starting" /\ gui'.target = t
    BY <1>5 DEF Wait
  <2>3. Free(files[t]) BY <1>5
  <2> HIDE DEF g, t
  <2>4. Lasts(files[t], g) BY <2>1, <2>3, StartLasts
  <2>5. Lasting BY <1>3, <2>1, <2>2, <2>4, OneLasts
  <2>6. files[gui'.target].place["data"] = "none" BY <2>2, <2>3 DEF Free, Files
  <2>. QED BY <1>2, <1>3, <1>5, <2>2, <2>5, <2>6, RecordersWait DEF Closing
<1>6. CASE RecoverPartial
  <2>1. PICK t \in Targets :
          /\ Idle(files[t]) /\ ~files[t].open
          /\ files' = [files EXCEPT ![t] = Recover(@)]
          /\ Wait("recovering", "idle", t)
    BY <1>6 DEF RecoverPartial
  <2> DEFINE g == Recover(files[t])
  <2>2. files' = [files EXCEPT ![t] = g] /\ gui'.at = "recovering" /\ ui' = ui
    BY <1>6, <2>1 DEF Wait, RecoverPartial
  <2>3. Lasts(files[t], g) BY <2>1, RecoverLasts DEF PresenterInv, FilesInv
  <2> HIDE DEF g
  <2>4. Lasting BY <1>3, <2>2, <2>3, OneLasts
  <2>. QED BY <1>2, <1>3, <2>2, <2>4, RecordersWait DEF Closing
<1>. QED BY <1>4, <1>5, <1>6 DEF StartRecording

(* The service's thread and the disk.                                      *)
LEMMA ServesLasts ==
  ASSUME PresenterInv, NEW s \in Targets, Serves(s) PROVE Lasting
<1>1. PICK g : /\ Kept(files[s], g) /\ files' = [files EXCEPT ![s] = g]
               /\ files[s].open \/ g = files[s]
  BY DEF Serves
<1>2. Lasts(files[s], g)
  <2>1. CASE g = files[s] BY <2>1 DEF Lasts
  <2>2. CASE files[s].open
    BY <1>1, <2>2, OpenLasts DEF Kept, PresenterInv, FilesInv
  <2>. QED BY <1>1, <2>1, <2>2
<1>3. \A t \in Targets : service[t].failed => service'[t].failed
  BY ServesGoesOn
<1>. QED BY <1>1, <1>2, <1>3, OneLasts

LEMMA WritesAreHonest ==
  ASSUME PresenterInv, StatusInv, NEW s \in Targets, WriterMoves(s) \/ DiskEffect(s)
  PROVE  StatusInv'
<1>1. Modest(ui, ui) BY DEF Modest
<1>2. CASE WriterMoves(s)
  <2>1. Serves(s) /\ UNCHANGED <<ui, gui, recorder, overlap, masked>>
    BY <1>2, WriterServes
  <2>2. Lasting /\ \A t \in Targets : service[t].running => service'[t].running
    BY <2>1, ServesLasts, ServesGoesOn
  <2>. QED BY <1>1, <2>1, <2>2, RecordersWait DEF Closing
<1>3. CASE DiskEffect(s)
  <2> DEFINE g == Effect(files[s])
  <2>1. /\ files' = [files EXCEPT ![s] = g] /\ ~Idle(files[s])
        /\ UNCHANGED <<ui, gui, service, recorder, overlap, masked>>
    BY <1>3 DEF DiskEffect
  <2>2. Lasts(files[s], g) BY <2>1, EffectLasts DEF PresenterInv, FilesInv
  <2> HIDE DEF g
  <2>3. Lasting BY <2>1, <2>2, OneLasts
  <2>. QED BY <1>1, <2>1, <2>3, RecordersWait DEF Closing
<1>. QED BY <1>2, <1>3

(* What the end of a service does to its files: an open recording gets     *)
(* its final name if nothing failed.                                       *)
LEMMA JoinsLasts ==
  ASSUME PresenterInv, NEW s \in Targets, NEW final \in BOOLEAN, Joins(s, final)
  PROVE  /\ Lasting
         /\ service[s].running /\ final => service'[s].failed \/ Ends(files'[s])
<1>1. PICK g : /\ g.place = files[s].place /\ files' = [files EXCEPT ![s] = g]
               /\ (files[s].open /\ service[s].running) \/ g = files[s]
               /\ service[s].running /\ final => service[s].failed \/ Ends(g)
  BY JoinsIs
<1>2. /\ service'[s].failed = service[s].failed
      /\ \A t \in Targets \ {s} : service'[t] = service[t]
  BY JoinsIs
<1>3. Lasts(files[s], g)
  <2>1. CASE g = files[s] BY <2>1 DEF Lasts
  <2>2. CASE files[s].open BY <1>1, <2>2, OpenLasts DEF PresenterInv, FilesInv
  <2>. QED BY <1>1, <2>1, <2>2
<1>4. Lasting BY <1>1, <1>2, <1>3, OneLasts
<1>5. files'[s] = g BY <1>1 DEF PresenterInv, TypeOK
<1>. QED BY <1>1, <1>2, <1>4, <1>5

LEMMA CancelIsHonest ==
  ASSUME PresenterInv, StatusInv, CancelService \/ CancelGoesOn
  PROVE  StatusInv'
<1>1. /\ UNCHANGED <<ui, recorder, overlap, masked>> /\ gui.target \in Targets
      /\ gui'.at \in {"cancelPut", "cancelJoin", "cancelling", "closed"}
  BY CancelIs
<1>2. Lasting
  <2>1. FALSE \in BOOLEAN OBVIOUS
  <2>. QED BY <1>1, <2>1, CancelIs, SameLasts, ServesLasts, JoinsLasts
<1>3. Modest(ui, ui) BY DEF Modest
<1>. QED BY <1>1, <1>2, <1>3, RecordersWait DEF Closing

(* The recorder: it leaves its loop, and fails when its service has.       *)
LEMMA SubmitIsHonest ==
  ASSUME PresenterInv, StatusInv, NEW t \in Targets, Leave(t) \/ Submit(t)
  PROVE  StatusInv'
<1>1. /\ ui \in UiType /\ service \in [Targets -> ServiceType]
      /\ recorder \in [Targets -> RecorderType] /\ recorder[t] \in RecorderType
      /\ files \in [Targets -> FileType]
  BY DEF PresenterInv, TypeOK
<1>2. /\ recorder[t].at = "loop" /\ UNCHANGED <<gui, overlap, masked>>
  BY DEF Leave, Submit
<1>3. ASSUME Calm, ~masked, Claims(ui)
      PROVE  True(ui, recorder[t], service[t], files[t])
  <2>1. ui.thread = t BY <1>2, <1>3 DEF StatusInv, Calm, OneRecorder
  <2>. QED BY <1>3, <2>1 DEF StatusInv, Calm, Told
<1>4. CASE Leave(t)
  <2> DEFINE r == [recorder[t] EXCEPT !.at = "finally"]
  <2>1. recorder' = [recorder EXCEPT ![t] = r] /\ UNCHANGED <<ui, service, files>>
    BY <1>1, <1>4 DEF Leave, GoTo
  <2>2. r.at = "finally" /\ r.final = recorder[t].final
    BY <1>1 DEF RecorderType
  <2> HIDE DEF r
  <2>3. ASSUME Calm, ~masked, Claims(ui) PROVE True(ui, r, service[t], files[t])
    BY <1>2, <1>3, <2>2, <2>3 DEF True
  <2>4. StopsOwn(r, t) BY <2>2 DEF StopsOwn, Stops
  <2>. QED BY <1>2, <2>1, <2>3, <2>4, SameLasts, RecorderMoves
<1>5. CASE Submit(t) /\ Refused(t)
  <2> DEFINE more == recorder[t].offered + 1
             r == [recorder[t] EXCEPT !.offered = more, !.at = "finally", !.final = FALSE]
  <2>1. recorder' = [recorder EXCEPT ![t] = r] /\ UNCHANGED <<service, files>>
    BY <1>1, <1>5 DEF Refused
  <2> HIDE DEF more
  <2>2. r.at = "finally" BY <1>1 DEF RecorderType
  <2> HIDE DEF r
  <2>3. ui'.recording = "failed" /\ ui'.service = ui.service /\ ui'.thread = ui.thread
    BY <1>1, <1>5 DEF Refused, UiType
  <2>4. ~Claims(ui') /\ StopsOwn(r, t)
    BY <2>2, <2>3 DEF Claims, StopsOwn, Stops
  <2>. QED BY <1>2, <2>1, <2>3, <2>4, SameLasts, RecorderMoves
<1>6. CASE /\ recorder' = [recorder EXCEPT ![t].offered = @ + 1]
           /\ ui.service \in Targets /\ Serves(ui.service) /\ ui' = ui
  <2> DEFINE more == recorder[t].offered + 1
             r == [recorder[t] EXCEPT !.offered = more]
  <2>1. recorder' = [recorder EXCEPT ![t] = r] BY <1>1, <1>6
  <2> HIDE DEF more
  <2>2. r.at = "loop" /\ r.final = recorder[t].final
    BY <1>1, <1>2 DEF RecorderType
  <2> HIDE DEF r
  <2>3. Lasting /\ service'[t].running = service[t].running
    BY <1>6, ServesLasts, ServesGoesOn
  <2>4. ASSUME Calm, ~masked, Claims(ui) PROVE True(ui, r, service'[t], files'[t])
    BY <1>2, <1>3, <2>2, <2>3, <2>4 DEF True, Stops
  <2>5. StopsOwn(r, t) BY <2>2 DEF StopsOwn, Stops
  <2>. QED BY <1>2, <1>6, <2>1, <2>3, <2>4, <2>5, RecorderMoves
<1>. QED BY <1>4, <1>5, <1>6, SubmitServes

(* Its end: it takes its service and stops it, and reports what came of it.*)
LEMMA EndIsHonest ==
  ASSUME PresenterInv, StatusInv, NEW t \in Targets,
         Finally(t) \/ StopService(t) \/ StopGoesOn(t) \/ StopReturns(t) \/ Report(t)
  PROVE  StatusInv'
<1>1. /\ ui \in UiType /\ service \in [Targets -> ServiceType]
      /\ recorder \in [Targets -> RecorderType] /\ recorder[t] \in RecorderType
  BY DEF PresenterInv, TypeOK
<1>2. recorder[t].at \notin {"none", "ended"} /\ UNCHANGED <<gui, overlap, masked>>
  BY DEF Finally, StopService, StopGoesOn, StopReturns, Report
<1>3. ASSUME Calm
      PROVE  /\ ui.service = t /\ StopsOwn(recorder[t], t)
             /\ ~masked /\ Claims(ui) => True(ui, recorder[t], service[t], files[t])
  <2>1. ui.thread = t /\ StopsOwn(recorder[t], t) /\ ui.service = t
    BY <1>2, <1>3 DEF StatusInv, Calm, OneRecorder
  <2>. QED BY <1>3, <2>1 DEF StatusInv, Calm, Told
<1>4. CASE Finally(t)
  <2> DEFINE s == ui.service
             was == ui.recording \in {"running", "stopping"}
             next == IF ui.service = NoTarget THEN "report" ELSE "stop"
             r == [recorder[t] EXCEPT !.service = s, !.wasRunning = was, !.at = next]
  <2>1. /\ recorder' = [recorder EXCEPT ![t] = r] /\ UNCHANGED <<ui, service, files>>
        /\ recorder[t].at = "finally"
    BY <1>1, <1>4 DEF Finally
  <2>2. Calm => s = t /\ next = "stop" BY <1>3, NoTargetIsNone
  <2> HIDE DEF s, was, next
  <2>3. r.at = next /\ r.service = s /\ r.final = recorder[t].final
    BY <1>1 DEF RecorderType
  <2> HIDE DEF r
  <2>4. ASSUME Calm, ~masked, Claims(ui) PROVE True(ui, r, service[t], files[t])
    BY <1>3, <2>1, <2>2, <2>3, <2>4 DEF True
  <2>5. Calm => StopsOwn(r, t) BY <2>2, <2>3 DEF StopsOwn
  <2>. QED BY <1>2, <2>1, <2>4, <2>5, SameLasts, RecorderMoves
<1>5. CASE StopService(t) \/ StopGoesOn(t)
  <2> DEFINE s == recorder[t].service
  <2>1. PICK at \in {"report", "put", "join", "stopping"} :
          /\ s \in Targets /\ recorder[t].at \in {"stop", "put", "join"} /\ GoTo(t, at)
          /\ \/ /\ recorder[t].at = "stop" /\ at = "report" /\ ~service[s].running
                /\ UNCHANGED <<service, files>>
             \/ at \in {"put", "join"} /\ Serves(s)
             \/ at = "stopping" /\ Joins(s, recorder[t].final)
          /\ ui' = ui
    BY <1>5, StopIs
  <2> DEFINE r == [recorder[t] EXCEPT !.at = at]
  <2>2. recorder' = [recorder EXCEPT ![t] = r] /\ r.at = at /\ r.service = s
    BY <1>1, <2>1 DEF GoTo, RecorderType
  <2>3. r.final = recorder[t].final /\ recorder[t].final \in BOOLEAN
    BY <1>1 DEF RecorderType
  <2> HIDE DEF r
  <2>4. Lasting BY <2>1, <2>3, SameLasts, ServesLasts, JoinsLasts
  <2>5. Calm => s = t BY <1>3, <2>1 DEF StopsOwn, Stops
  <2>6. ASSUME Calm, ~masked, Claims(ui) PROVE True(ui, r, service'[t], files'[t])
    <3>1. service[t].running /\ recorder[t].final /\ ui.recording # "completed"
      BY <1>3, <2>1, <2>6 DEF True, Stops
    <3>2. CASE at \in {"put", "join"} /\ Serves(t)
      BY <2>2, <2>3, <3>1, <3>2, ServesGoesOn DEF True, Stops
    <3>3. CASE at = "stopping" /\ Joins(t, recorder[t].final)
      <4>1. service'[t].failed \/ Ends(files'[t])
        BY <2>3, <3>1, <3>3, JoinsLasts
      <4>. QED BY <2>2, <3>1, <3>3, <4>1 DEF True, Stops
    <3>. QED BY <2>1, <2>5, <2>6, <3>1, <3>2, <3>3
  <2>7. Calm => StopsOwn(r, t) BY <2>2, <2>5 DEF StopsOwn
  <2> HIDE DEF s
  <2>. QED BY <1>2, <2>1, <2>2, <2>4, <2>6, <2>7, RecorderMoves
<1>6. CASE StopReturns(t)
  <2> DEFINE s == recorder[t].service
             e == ui.error \/ service[s].failed
             r == [recorder[t] EXCEPT !.at = "report"]
  <2>1. /\ recorder' = [recorder EXCEPT ![t] = r] /\ ui' = [ui EXCEPT !.error = e]
        /\ recorder[t].at = "stopping" /\ Idle(files[s]) /\ UNCHANGED <<service, files>>
    BY <1>1, <1>6 DEF StopReturns, GoTo
  <2>2. r.at = "report" BY <1>1 DEF RecorderType
  <2>3. Calm => s = t BY <1>3, <2>1 DEF StopsOwn, Stops
  <2>4. e <=> ui.error \/ service[s].failed OBVIOUS
  <2> HIDE DEF r, e, s
  <2>5. /\ ui'.error = e /\ ui'.recording = ui.recording
        /\ ui'.service = ui.service /\ ui'.thread = ui.thread
    BY <1>1, <2>1 DEF UiType
  <2>6. ASSUME Calm, ~masked, Claims(ui') PROVE True(ui', r, service'[t], files'[t])
    <3>1. service[t].failed \/ Ends(files[t])
      BY <1>3, <2>1, <2>5, <2>6 DEF True, Claims
    <3>2. Ends(files[t]) => files[t].place["meta"] = "final"
      BY <2>1, <2>3, <2>6, EndsIs DEF PresenterInv, FilesInv
    <3>3. ui'.error \/ files[t].place["meta"] = "final"
      BY <2>3, <2>4, <2>5, <2>6, <3>1, <3>2, Zenon
    <3>. QED BY <2>1, <2>2, <3>3 DEF True, Stops
  <2>7. StopsOwn(r, t) BY <2>2 DEF StopsOwn, Stops
  <2>. QED BY <1>2, <2>1, <2>5, <2>6, <2>7, SameLasts, RecorderMoves
<1>7. CASE Report(t)
  <2> DEFINE r == [recorder[t] EXCEPT !.at = "ended"]
             said == IF ui.recording = "running" THEN IF ui.error THEN "failed" ELSE "completed"
                     ELSE IF recorder[t].wasRunning /\ ui.recording = "stopping" THEN "completed"
                     ELSE ui.recording
  <2>1. /\ recorder' = [recorder EXCEPT ![t] = r] /\ ui' = [ui EXCEPT !.recording = said]
        /\ recorder[t].at = "report" /\ UNCHANGED <<service, files>>
    BY <1>1, <1>7 DEF Report, GoTo
  <2>2. r.at = "ended" BY <1>1 DEF RecorderType
  <2>3. said \in {"running", "stopping", "completed"} => Claims(ui)
    BY DEF Claims
  <2> HIDE DEF r, said
  <2>4. /\ ui'.error = ui.error /\ ui'.recording = said
        /\ ui'.service = ui.service /\ ui'.thread = ui.thread
    BY <1>1, <2>1 DEF UiType
  <2>5. ASSUME Calm, ~masked, Claims(ui') PROVE True(ui', r, service'[t], files'[t])
    <3>1. Claims(ui) BY <2>3, <2>4, <2>5 DEF Claims
    <3>2. ui.error \/ files[t].place["meta"] = "final"
      BY <1>3, <2>1, <2>5, <3>1 DEF True
    <3>. QED BY <2>1, <2>2, <2>4, <3>2 DEF True, Stops
  <2>6. StopsOwn(r, t) BY <2>2 DEF StopsOwn, Stops
  <2>. QED BY <1>2, <2>1, <2>4, <2>5, <2>6, SameLasts, RecorderMoves
<1>. QED BY <1>4, <1>5, <1>6, <1>7

(* A recorder begins with its own service, and nobody else does.           *)
LEMMA BeginsHonest ==
  ASSUME PresenterInv, StatusInv, RecordingStarts
  PROVE  StatusInv'
<1> DEFINE t == gui.target
           r == [recorder[t] EXCEPT !.at = "loop"]
           v == [service[t] EXCEPT !.running = TRUE]
<1>1. /\ ui \in UiType /\ service \in [Targets -> ServiceType]
      /\ recorder \in [Targets -> RecorderType] /\ gui.at = "starting"
  BY DEF PresenterInv, TypeOK, RecordingStarts
<1>2. t \in Targets /\ recorder[t].at = "none" /\ recorder[t].final
  BY <1>1 DEF PresenterInv, ServicesWrite, StatusInv, FreshTargets
<1>3. recorder[t] \in RecorderType /\ service[t] \in ServiceType BY <1>1, <1>2
<1>4. files[t].place["data"] # "none"
  <2>1. FileInv(files[t]) /\ Idle(files[t]) /\ files[t].open
    BY <1>1, <1>2 DEF PresenterInv, FilesInv, ServicesWrite, RecordingStarts
  <2>. QED BY <2>1, IdleRests DEF Resting, AllPart, Places
<1>5. /\ service' = [service EXCEPT ![t] = v] /\ recorder' = [recorder EXCEPT ![t] = r]
      /\ gui'.at = "idle" /\ UNCHANGED <<files, masked>>
      /\ overlap' <=> overlap \/ Recording
  BY <1>1 DEF RecordingStarts, Wait
<1>6. ui'.service = t /\ ui'.thread = t /\ ui'.recording = "running"
  <2>1. ui' = [ui EXCEPT !.service = t, !.thread = t, !.stop = FALSE,
                         !.recording = "running", !.error = FALSE]
    BY DEF RecordingStarts
  <2> HIDE DEF t
  <2>. QED BY <1>1, <2>1 DEF UiType
<1> HIDE DEF t
<1>7. r.at = "loop" /\ r.final /\ v.running
  BY <1>2, <1>3 DEF RecorderType, ServiceType
<1> HIDE DEF r, v
<1>8. /\ recorder'[t] = r /\ \A s \in Targets \ {t} : recorder'[s] = recorder[s]
      /\ service'[t] = v
  BY <1>1, <1>2, <1>5
<1>9. FreshTargets'
  <2> SUFFICES ASSUME NEW s \in Targets,
                      files'[s].place["data"] = "none" \/ (gui'.at = "starting" /\ gui'.target = s)
               PROVE  recorder'[s].at = "none" /\ recorder'[s].final
    BY DEF FreshTargets
  <2>1. files[s].place["data"] = "none" /\ s # t BY <1>4, <1>5
  <2>. QED BY <1>8, <2>1 DEF StatusInv, FreshTargets
<1>10. ASSUME ~overlap' PROVE OneRecorder'
  <2>1. \A s \in Targets : recorder[s].at \in {"none", "ended"}
    BY <1>5, <1>10 DEF Recording
  <2>. QED BY <1>6, <1>7, <1>8, <2>1 DEF OneRecorder, StopsOwn, Stops
<1>11. Told' BY <1>2, <1>6, <1>7, <1>8 DEF Told, True
<1>. QED BY <1>6, <1>9, <1>10, <1>11 DEF StatusInv

LEMMA NothingIsClaimed ==
  /\ FreshUi.service = FreshUi.thread /\ ~Claims(FreshUi)
  /\ NoRecorder.at = "none" /\ NoRecorder.final /\ IdleGui.at = "idle"
BY DEF FreshUi, NoRecorder, IdleGui, Claims

LEMMA InitIsHonest == ASSUME Init PROVE StatusInv
BY NothingIsClaimed DEF Init, StatusInv, FreshTargets, Closing, OneRecorder, Told

LEMMA StepIsHonest ==
  ASSUME PresenterInv, StatusInv, [Next]_vars
  PROVE  StatusInv'
<1>1. CASE User BY <1>1, UserIsHonest, StartIsHonest DEF User
<1>2. CASE Gui BY <1>2, GuiIsHonest, BeginsHonest, CancelIsHonest DEF Gui
<1>3. CASE Replayer \/ UNCHANGED vars
  <2>1. UNCHANGED <<ui, gui, service, recorder, files, overlap, masked>>
    BY <1>3 DEF Replayer, NextBlock, CountBlock, ReplayEnds, ReplayExits, vars
  <2>2. Modest(ui, ui) BY DEF Modest
  <2>. QED BY <2>1, <2>2, GuiWaits DEF Closing
<1>4. CASE Crash
  <2>1. /\ ui' = FreshUi /\ gui' = IdleGui
        /\ recorder' = [t \in Targets |-> NoRecorder]
    BY <1>4 DEF Crash
  <2>. QED
    BY <2>1, NothingIsClaimed DEF StatusInv, FreshTargets, Closing, OneRecorder, Told
<1>5. CASE \E t \in Targets : Recorder(t) \/ WriterMoves(t) \/ DiskEffect(t)
  BY <1>5, SubmitIsHonest, EndIsHonest, WritesAreHonest DEF Recorder
<1>. QED BY <1>1, <1>2, <1>3, <1>4, <1>5 DEF Next, Runs, Writer, WriterMoves

LEMMA HonestIsTrue == ASSUME PresenterInv, StatusInv PROVE StatusIsTrue
<1> SUFFICES ASSUME ui.recording = "completed", ~ui.error, ~masked, ~overlap, gui.at = "idle"
             PROVE  files[ui.thread].place["meta"] = "final"
  BY DEF StatusIsTrue
<1>1. /\ ui.thread \in Targets
      /\ True(ui, recorder[ui.thread], service[ui.thread], files[ui.thread])
  BY DEF StatusInv, Told, Claims, Closing
<1>2. recorder[ui.thread] \in RecorderType BY <1>1 DEF PresenterInv, TypeOK
<1>3. recorder[ui.thread].at \in {"report", "ended"}
  BY <1>1, <1>2 DEF True, RecorderType
<1>. QED BY <1>1, <1>3 DEF True

-----------------------------------------------------------------------------
(* The theorems                                                            *)

(* A recording with its final name can be replayed to its end and has all  *)
(* its files, and its metadata say so, whatever crashed on the way: while  *)
(* it was opened, written, finalized, recovered, or while a recovery that  *)
(* was itself cut short was repeated (IqRecordingWriter.finalize and       *)
(* recover_iq_recording).  At no time do the metadata claim more blocks or *)
(* gaps than the files hold.                                               *)
THEOREM ReplayableIsWholeCorrect == Spec => []ReplayableIsWhole
<1>1. Init => PresenterInv BY InitIsSafe
<1>2. PresenterInv /\ [Next]_vars => PresenterInv' BY StepKeeps
<1>3. PresenterInv => ReplayableIsWhole BY SoundIsReplayable
<1>. QED BY <1>1, <1>2, <1>3, PTL DEF Spec

(* A block that was once forced to the disk with its line of the index     *)
(* stays in the recording: no step, no crash and no recovery takes it away *)
(* again (write_block, recover_iq_recording).                              *)
THEOREM DurableBlocksSurviveCorrect == Spec => DurableBlocksSurvive
<1>1. Init => PresenterInv BY InitIsSafe
<1>2. PresenterInv /\ [Next]_vars => PresenterInv' /\ [Durable]_files
  BY StepKeeps
<1>3. PresenterInv /\ [Next]_vars =>
        PresenterInv' /\ [\A t \in Targets : Whole(files'[t]) >= Whole(files[t])]_files
  BY <1>2 DEF Durable
<1>. QED BY <1>1, <1>3, PTL DEF Spec, DurableBlocksSurvive

(* The workspace shows "completed" without an error only for a recording   *)
(* that has its final name, whatever the recorder, its service, the disk   *)
(* and the other half did meanwhile (_record_worker and its finally),      *)
(* unless the replay half wiped the error that both halves share, or       *)
(* another recorder was still there when the recording began.              *)
THEOREM StatusIsTrueCorrect == Spec => []StatusIsTrue
<1>1. Init => PresenterInv /\ StatusInv BY InitIsSafe, InitIsHonest
<1>2. PresenterInv /\ StatusInv /\ [Next]_vars => PresenterInv' /\ StatusInv'
  BY StepKeeps, StepIsHonest
<1>3. PresenterInv /\ StatusInv => StatusIsTrue BY HonestIsTrue
<1>. QED BY <1>1, <1>2, <1>3, PTL DEF Spec

-----------------------------------------------------------------------------
(* The activity log                                                        *)

LogItems == [kind : {"record", "flush", "stop", "none"}, upto : Nat]
LogPlaces == {"get", "append", "rewrite", "answer", "ended"}
Lines == Seq(Seq(Nat))

LogTypes ==
  /\ file \in Lines /\ records \in Lines /\ unended \in BOOLEAN
  /\ items \in Seq(LogItems) /\ item \in LogItems
  /\ writer \in LogPlaces /\ dirty \in BOOLEAN
  /\ emitted \in Nat /\ since \in Nat /\ flushed \subseteq Nat \ {0}

(* The file has no more lines than the memory, and room for one that is    *)
(* being appended.                                                         *)
Sizes ==
  /\ Len(file) <= Len(records) /\ Len(records) <= MaxKept
  /\ writer = "append" => Len(file) < Len(records)
  /\ unended => file # <<>>

(* The records in the queue; those of this program that the thread took.   *)
Waiting(q) == {n \in Nat : \E i \in 1..Len(q) : q[i].kind = "record" /\ q[i].upto = n}
Taken == {n \in (since + 1)..emitted : n \notin Waiting(items)}

Below(lines, n) == \A p \in Pieces(lines) : p < n

(* The queue is in the order of the numbers, and ends with the last.       *)
Queued(q) ==
  \A i, j \in 1..Len(q) :
    i < j /\ q[i].kind \in {"record", "flush"} /\ q[j].kind = "record" => q[i].upto < q[j].upto

QueueInOrder ==
  /\ Queued(items)
  /\ \A i \in 1..Len(items) : items[i].upto <= emitted
  /\ \A w \in Waiting(items) :
       /\ since < w /\ Below(file, w) /\ Below(records, w)
       /\ \A n \in w..emitted : n \in Waiting(items)
       /\ \A n \in flushed : n < w
  /\ since <= emitted /\ \A n \in flushed : n <= emitted
  /\ Below(file, emitted + 1) /\ Below(records, emitted + 1)

(* What the thread works on came before all that is in the queue.          *)
AtWork ==
  /\ writer = "append" =>
       /\ item.upto \in Nat \ {0} /\ item.upto <= emitted /\ Below(file, item.upto)
       /\ \A w \in Waiting(items) : item.upto < w
  /\ writer = "answer" => item.kind = "flush" /\ ~dirty
  /\ writer \in {"rewrite", "answer"} /\ item.kind = "flush" =>
       item.upto <= emitted /\ \A w \in Waiting(items) : item.upto < w

(* What was flushed is in the file; it is in the memory as well, like all  *)
(* that was taken, which is in the file but for the changes to come.       *)
AllHeld ==
  /\ \A n \in flushed : Held(file, n)
  /\ writer # "ended" => \A n \in flushed \cup Taken : Held(records, n)
  /\ writer # "ended" /\ ~dirty =>
       \A n \in Taken : Held(file, n) \/ (writer = "append" /\ n = item.upto)

LogInv ==
  LogTypes /\ Sizes /\ QueueInOrder /\ AtWork /\ AllHeld /\ LinesInOrder(file) /\ LinesInOrder(records)
-----------------------------------------------------------------------------
(* Lines                                                                   *)

LEMMA PieceOf ==
  ASSUME NEW lines \in Lines
  PROVE  \A p : p \in Pieces(lines) <=>
           \E i \in 1..Len(lines) : \E k \in 1..Len(lines[i]) : lines[i][k] = p
BY DEF Pieces

LEMMA PiecesAreNumbers ==
  ASSUME NEW lines \in Lines
  PROVE  Pieces(lines) \subseteq Nat
BY PieceOf DEF Lines

(* A piece behind a line without its end, or in a line of its own.         *)
With(lines, open, piece) ==
  IF open THEN [lines EXCEPT ![Len(lines)] = Append(@, piece)] ELSE Append(lines, <<piece>>)

LEMMA WithIndices ==
  ASSUME NEW lines \in Lines, NEW open \in BOOLEAN, open => lines # <<>>, NEW piece \in Nat
  PROVE  LET new == With(lines, open, piece)
             last == Len(new) IN
         /\ new \in Lines /\ last \in Nat \ {0}
         /\ last = IF open THEN Len(lines) ELSE Len(lines) + 1
         /\ \A i \in 1..last : i # last => i \in 1..Len(lines) /\ new[i] = lines[i]
         /\ \A i \in 1..Len(lines) : i \in 1..last
         /\ Len(new[last]) \in Nat \ {0} /\ new[last][Len(new[last])] = piece
         /\ \A k \in 1..Len(new[last]) : k # Len(new[last]) =>
              open /\ k \in 1..Len(lines[last]) /\ new[last][k] = lines[last][k]
         /\ open => \A k \in 1..Len(lines[last]) :
              k \in 1..Len(new[last]) /\ k # Len(new[last]) /\ new[last][k] = lines[last][k]
<1>1. CASE open
  <2> DEFINE last == Len(lines)
             line == Append(lines[last], piece)
             new == [lines EXCEPT ![last] = line]
  <2>1. last \in Nat \ {0} /\ lines[last] \in Seq(Nat) BY <1>1 DEF Lines
  <2>2. /\ line \in Seq(Nat) /\ Len(line) = Len(lines[last]) + 1
        /\ line[Len(lines[last]) + 1] = piece
        /\ \A k \in 1..Len(lines[last]) : line[k] = lines[last][k]
    BY <2>1
  <2>3. Len(lines[last]) \in Nat BY <2>1
  <2> HIDE DEF line
  <2>4. new \in Lines /\ Len(new) = last /\ new[last] = line
    BY <2>1, <2>2 DEF Lines
  <2>5. \A i \in 1..last : i # last => new[i] = lines[i] BY <2>1 DEF Lines
  <2>6. With(lines, open, piece) = new BY <1>1 DEF With, line
  <2> HIDE DEF new, last
  <2>7. last = Len(lines) BY DEF last
  <2> DEFINE width == Len(lines[last])
  <2>8. width \in Nat /\ Len(new[last]) = width + 1 /\ new[last][width + 1] = piece
    BY <2>2, <2>3, <2>4
  <2>9. \A k \in 1..width : new[last][k] = lines[last][k] BY <2>2, <2>4
  <2> HIDE DEF width
  <2>10. /\ \A k \in 1..Len(new[last]) : k # Len(new[last]) => k \in 1..width
         /\ \A k \in 1..width : k \in 1..Len(new[last]) /\ k # Len(new[last])
    BY <2>8
  <2>11. Len(new[last]) \in Nat \ {0} /\ new[last][Len(new[last])] = piece
    BY <2>8
  <2> USE DEF width
  <2> QED BY <1>1, <2>1, <2>4, <2>5, <2>6, <2>7, <2>9, <2>10, <2>11
<1>2. CASE ~open
  <2> DEFINE new == Append(lines, <<piece>>)
  <2>1. Len(lines) \in Nat BY DEF Lines
  <2>2. <<piece>> \in Seq(Nat) /\ Len(<<piece>>) = 1 /\ <<piece>>[1] = piece
    OBVIOUS
  <2>3. /\ new \in Lines /\ Len(new) = Len(lines) + 1 /\ new[Len(lines) + 1] = <<piece>>
        /\ \A i \in 1..Len(lines) : new[i] = lines[i]
    BY <2>2 DEF Lines
  <2>4. With(lines, open, piece) = new BY <1>2 DEF With
  <2> HIDE DEF new
  <2> DEFINE last == Len(new)
  <2>5. last = Len(lines) + 1 /\ new[last] = <<piece>> BY <2>3
  <2>6. /\ last \in Nat \ {0}
        /\ \A i \in 1..last : i # last => i \in 1..Len(lines)
        /\ \A i \in 1..Len(lines) : i \in 1..last
    BY <2>1, <2>3
  <2>7. Len(new[last]) = 1 /\ new[last][1] = piece /\ \A k \in 1..1 : k = 1
    BY <2>2, <2>5
  <2> HIDE DEF last
  <2>8. /\ Len(new[last]) \in Nat \ {0} /\ new[last][Len(new[last])] = piece
        /\ \A k \in 1..Len(new[last]) : k = Len(new[last])
    BY <2>7
  <2>9. \A i \in 1..last : i # last => i \in 1..Len(lines) /\ new[i] = lines[i]
    BY <2>3, <2>6
  <2> USE DEF last
  <2> QED BY <1>2, <2>3, <2>4, <2>5, <2>6, <2>8, <2>9
<1> QED BY <1>1, <1>2

LEMMA WithPieces ==
  ASSUME NEW lines \in Lines, NEW open \in BOOLEAN, open => lines # <<>>, NEW piece \in Nat
  PROVE  Pieces(With(lines, open, piece)) = Pieces(lines) \cup {piece}
<1> DEFINE new == With(lines, open, piece)
           last == Len(new)
<1>1. /\ new \in Lines /\ last \in Nat \ {0}
      /\ \A i \in 1..last : i # last => i \in 1..Len(lines) /\ new[i] = lines[i]
      /\ \A i \in 1..Len(lines) : i \in 1..last
      /\ Len(new[last]) \in Nat \ {0} /\ new[last][Len(new[last])] = piece
      /\ \A k \in 1..Len(new[last]) : k # Len(new[last]) =>
           open /\ k \in 1..Len(lines[last]) /\ new[last][k] = lines[last][k]
      /\ open => \A k \in 1..Len(lines[last]) :
           k \in 1..Len(new[last]) /\ new[last][k] = lines[last][k]
      /\ last = IF open THEN Len(lines) ELSE Len(lines) + 1
  BY WithIndices
<1> HIDE DEF new
<1>2. \A p : p \in Pieces(lines) <=>
        \E i \in 1..Len(lines) : \E k \in 1..Len(lines[i]) : lines[i][k] = p
  BY PieceOf
<1>3. \A p : p \in Pieces(new) <=>
        \E i \in 1..Len(new) : \E k \in 1..Len(new[i]) : new[i][k] = p
  BY <1>1, PieceOf
<1>4. ASSUME NEW p \in Pieces(new) PROVE p \in Pieces(lines) \cup {piece}
  <2>0. PICK i \in 1..last : \E k \in 1..Len(new[i]) : new[i][k] = p
    BY <1>3
  <2>1. PICK k \in 1..Len(new[i]) : new[i][k] = p
    BY <2>0
  <2>2. CASE i # last BY <1>1, <1>2, <2>1, <2>2
  <2>3. CASE i = last /\ k # Len(new[i]) BY <1>1, <1>2, <2>1, <2>3
  <2>4. CASE i = last /\ k = Len(new[i]) BY <1>1, <2>1, <2>4
  <2> QED BY <2>2, <2>3, <2>4
<1>5. ASSUME NEW p \in Pieces(lines) PROVE p \in Pieces(new)
  <2>0. PICK i \in 1..Len(lines) : \E k \in 1..Len(lines[i]) : lines[i][k] = p
    BY <1>2
  <2>1. PICK k \in 1..Len(lines[i]) : lines[i][k] = p
    BY <2>0
  <2>2. CASE i # last BY <1>1, <1>3, <2>1, <2>2
  <2>3. CASE i = last
    <3>1. open BY <1>1, <2>3 DEF Lines
    <3> QED BY <1>1, <1>3, <2>1, <2>3, <3>1
  <2> QED BY <2>2, <2>3
<1>6. piece \in Pieces(new) BY <1>1, <1>3
<1> QED BY <1>4, <1>5, <1>6 DEF new

LEMMA WithInOrder ==
  ASSUME NEW lines \in Lines, NEW open \in BOOLEAN, open => lines # <<>>, NEW piece \in Nat,
         LinesInOrder(lines), piece = Torn \/ Below(lines, piece)
  PROVE  LinesInOrder(With(lines, open, piece))
<1> DEFINE new == With(lines, open, piece)
           last == Len(new)
<1>1. /\ new \in Lines /\ last \in Nat \ {0}
      /\ \A i \in 1..last : i # last => i \in 1..Len(lines) /\ new[i] = lines[i]
      /\ Len(new[last]) \in Nat \ {0} /\ new[last][Len(new[last])] = piece
      /\ \A k \in 1..Len(new[last]) : k # Len(new[last]) =>
           open /\ k \in 1..Len(lines[last]) /\ new[last][k] = lines[last][k]
      /\ last = IF open THEN Len(lines) ELSE Len(lines) + 1
  BY WithIndices
<1> HIDE DEF new
<1> SUFFICES ASSUME NEW i \in 1..last, NEW j \in 1..last,
                    NEW k \in 1..Len(new[i]), NEW l \in 1..Len(new[j]),
                    i < j \/ (i = j /\ k < l), new[i][k] # Torn, new[j][l] # Torn
             PROVE  new[i][k] < new[j][l]
  BY DEF LinesInOrder, new
<1>2. k \in Int /\ l \in Int OBVIOUS
<1>3. ~(i = last /\ k = Len(new[last])) BY <1>1, <1>2
<1>4. /\ i \in 1..Len(lines) /\ k \in 1..Len(lines[i]) /\ new[i][k] = lines[i][k]
  <2>1. CASE i # last BY <1>1, <2>1
  <2>2. CASE i = last BY <1>1, <1>3, <2>2 DEF Lines
  <2> QED BY <2>1, <2>2
<1>5. CASE j = last /\ l = Len(new[last])
  BY <1>1, <1>4, <1>5, PieceOf DEF Below
<1>6. CASE ~(j = last /\ l = Len(new[last]))
  <2>1. /\ j \in 1..Len(lines) /\ l \in 1..Len(lines[j]) /\ new[j][l] = lines[j][l]
    <3>1. CASE j # last BY <1>1, <3>1
    <3>2. CASE j = last BY <1>1, <1>6, <3>2 DEF Lines
    <3> QED BY <3>1, <3>2
  <2> QED BY <1>4, <2>1 DEF LinesInOrder
<1> QED BY <1>5, <1>6

(* What a write that is or is not carried out leaves is as sound as before.*)
LEMMA WithKeeps ==
  ASSUME NEW lines \in Lines, NEW open \in BOOLEAN, open => lines # <<>>, NEW piece \in Nat
  PROVE  LET new == With(lines, open, piece) IN
         /\ new \in Lines /\ new # <<>>
         /\ Len(lines) \in Nat /\ Len(new) \in Nat /\ Len(new) <= Len(lines) + 1
         /\ piece \in Pieces(new)
         /\ \A w : Below(lines, w) /\ piece < w => Below(new, w)
         /\ \A n : Len(lines) < MaxKept /\ Held(lines, n) => Held(new, n)
<1> DEFINE new == With(lines, open, piece)
<1>1. /\ new \in Lines /\ Len(new) \in Nat \ {0} /\ Len(lines) \in Nat
      /\ Len(new) = IF open THEN Len(lines) ELSE Len(lines) + 1
  BY WithIndices DEF Lines
<1>2. Pieces(new) = Pieces(lines) \cup {piece} BY WithPieces
<1> HIDE DEF new
<1>3. new # <<>> BY <1>1
<1>4. \A w : Below(lines, w) /\ piece < w => Below(new, w) BY <1>2 DEF Below
<1>5. \A n : Len(lines) < MaxKept /\ Held(lines, n) => Held(new, n)
  BY <1>1, <1>2, KeptAssumption DEF Held
<1>6. Len(new) <= Len(lines) + 1 BY <1>1
<1> QED BY <1>1, <1>2, <1>3, <1>4, <1>5, <1>6 DEF new

LEMMA NewestIsAll ==
  ASSUME NEW lines \in Lines, Len(lines) <= MaxKept
  PROVE  Newest(lines) = lines
BY DEF Newest, Lines

(* One line more than is kept: the first one goes.                         *)
LEMMA NewestIndices ==
  ASSUME NEW lines \in Lines, Len(lines) = MaxKept + 1
  PROVE  /\ Newest(lines) \in Lines /\ Len(Newest(lines)) = MaxKept
         /\ \A i \in 1..MaxKept : Newest(lines)[i] = lines[i + 1]
<1>1. /\ MaxKept \in Nat \ {0} /\ Len(lines) \in Nat /\ ~(Len(lines) <= MaxKept)
      /\ Len(lines) - MaxKept + 1 = 2
  BY KeptAssumption
<1>2. Newest(lines) = SubSeq(lines, 2, MaxKept + 1) BY <1>1 DEF Newest
<1> DEFINE new == SubSeq(lines, 2, MaxKept + 1)
<1>3. lines \in Seq(Seq(Nat)) /\ 2 \in 1..Len(lines) + 1 /\ MaxKept + 1 \in 1..Len(lines)
  BY <1>1 DEF Lines
<1>4. /\ new \in Seq(Seq(Nat))
      /\ Len(new) = MaxKept + 1 - 2 + 1
      /\ \A i \in 1..(MaxKept + 1 - 2 + 1) : new[i] = lines[2 + i - 1]
  <2>1. 2 <= MaxKept + 1 + 1 BY <1>1
  <2> QED BY ONLY <1>1, <1>3, <2>1, SubSeqProperties
<1>5. MaxKept + 1 - 2 + 1 = MaxKept /\ \A i \in 1..MaxKept : 2 + i - 1 = i + 1
  BY <1>1
<1> QED BY <1>2, <1>4, <1>5 DEF Lines

(* The memory after one record more: it is there, and what was held is.    *)
LEMMA NewestKeeps ==
  ASSUME NEW lines \in Lines, Len(lines) <= MaxKept, LinesInOrder(lines),
         NEW r \in Nat \ {0}, Below(lines, r)
  PROVE  LET new == Newest(Append(lines, <<r>>)) IN
         /\ new \in Lines /\ Len(new) <= MaxKept
         /\ Len(new) = IF Len(lines) >= MaxKept THEN Len(lines) ELSE Len(lines) + 1
         /\ LinesInOrder(new)
         /\ \A w : Below(lines, w) /\ r < w => Below(new, w)
         /\ Held(new, r)
         /\ \A n \in Nat \ {0} : n < r /\ Held(lines, n) => Held(new, n)
<1> DEFINE q == Append(lines, <<r>>)
           new == Newest(q)
<1>1. With(lines, FALSE, r) = q BY DEF With
<1>2. /\ MaxKept \in Nat \ {0} /\ Len(lines) \in Nat
      /\ q \in Lines /\ Len(q) = Len(lines) + 1 /\ Len(q) \in Nat
  <2>1. <<r>> \in Seq(Nat) OBVIOUS
  <2> QED BY <2>1, KeptAssumption DEF Lines
<1>3. LinesInOrder(q)
  <2>1. FALSE \in BOOLEAN /\ (FALSE => lines # <<>>) /\ r \in Nat OBVIOUS
  <2> QED BY <1>1, <2>1, WithInOrder
<1>4. Pieces(q) = Pieces(lines) \cup {r}
  <2>1. FALSE \in BOOLEAN /\ (FALSE => lines # <<>>) /\ r \in Nat OBVIOUS
  <2> QED BY <1>1, <2>1, WithPieces
<1>5. /\ \A i \in 1..Len(lines) : q[i] = lines[i]
      /\ Len(q[Len(q)]) \in Nat \ {0} /\ q[Len(q)][Len(q[Len(q)])] = r
  <2>1. /\ q[Len(lines) + 1] = <<r>> /\ Len(<<r>>) = 1 /\ <<r>>[1] = r
        /\ \A i \in 1..Len(lines) : q[i] = lines[i]
    <3>1. <<r>> \in Seq(Nat) OBVIOUS
    <3> QED BY <3>1 DEF Lines
  <2> HIDE DEF q
  <2> QED BY <1>2, <2>1
<1> HIDE DEF q
<1>6. CASE Len(lines) < MaxKept
  <2>1. Len(q) <= MaxKept BY <1>2, <1>6
  <2>2. new = q BY <1>2, <2>1, NewestIsAll
  <2>3. \A w : Below(lines, w) /\ r < w => Below(q, w) BY <1>4 DEF Below
  <2>4. Held(q, r) /\ \A n : Held(lines, n) => Held(q, n)
    BY <1>2, <1>4, <1>6 DEF Held
  <2>5. ~(Len(lines) >= MaxKept) /\ Len(new) = Len(lines) + 1 /\ Len(new) <= MaxKept
    BY <1>2, <1>6, <2>2
  <2>6. new = Newest(Append(lines, <<r>>)) BY DEF q, new
  <2> HIDE DEF new
  <2> QED BY <1>2, <1>3, <2>2, <2>3, <2>4, <2>5, <2>6
<1>7. CASE Len(lines) = MaxKept
  <2>1. /\ new \in Lines /\ Len(new) = MaxKept
        /\ \A i \in 1..MaxKept : new[i] = q[i + 1]
    BY <1>2, <1>7, NewestIndices
  <2> HIDE DEF new
  <2>2. \A p : p \in Pieces(new) <=>
          \E i \in 1..MaxKept : \E k \in 1..Len(new[i]) : new[i][k] = p
    BY <2>1, PieceOf
  <2>3. Pieces(new) \subseteq Pieces(q)
    <3> SUFFICES ASSUME NEW p \in Pieces(new) PROVE p \in Pieces(q)
      OBVIOUS
    <3>1. PICK i \in 1..MaxKept : \E k \in 1..Len(new[i]) : new[i][k] = p
      BY <2>2
    <3>2. i + 1 \in 1..Len(q) /\ new[i] = q[i + 1] BY <1>2, <1>7, <2>1
    <3> QED BY <1>2, <3>1, <3>2, PieceOf
  <2>4. LinesInOrder(new)
    <3> SUFFICES ASSUME NEW i \in 1..MaxKept, NEW j \in 1..MaxKept,
                        NEW k \in 1..Len(new[i]), NEW l \in 1..Len(new[j]),
                        i < j \/ (i = j /\ k < l), new[i][k] # Torn, new[j][l] # Torn
                 PROVE  new[i][k] < new[j][l]
      BY <2>1 DEF LinesInOrder
    <3>1. /\ i + 1 \in 1..Len(q) /\ new[i] = q[i + 1]
          /\ j + 1 \in 1..Len(q) /\ new[j] = q[j + 1]
      <4>1. \A m \in 1..MaxKept : m + 1 \in 1..Len(q) BY <1>2, <1>7
      <4> QED BY <2>1, <4>1
    <3>2. i + 1 < j + 1 \/ (i + 1 = j + 1 /\ k < l) OBVIOUS
    <3> HIDE DEF new
    <3> QED BY <1>3, <3>1, <3>2 DEF LinesInOrder
  <2>5. r \in Pieces(new)
    <3>1. MaxKept \in 1..MaxKept /\ new[MaxKept] = q[Len(q)]
      BY <1>2, <1>7, <2>1
    <3>2. Len(q[Len(q)]) \in 1..Len(new[MaxKept]) BY <1>5, <3>1
    <3> QED BY <1>5, <2>2, <3>1, <3>2
  <2>6. ASSUME NEW n \in Nat \ {0}, n < r, Held(lines, n) PROVE Held(new, n)
    <3>1. CASE n \in Pieces(lines)
      <4>1. PICK i \in 1..Len(lines) : \E k \in 1..Len(lines[i]) : lines[i][k] = n
        BY <3>1, PieceOf
      <4>2. PICK k \in 1..Len(lines[i]) : lines[i][k] = n
        BY <4>1
      <4>3. q[i] = lines[i] /\ i \in 1..Len(q) BY <1>2, <1>5
      <4>4. CASE i # 1
        <5>1. i - 1 \in 1..MaxKept /\ new[i - 1] = q[i]
          BY <1>2, <1>7, <2>1, <4>4
        <5> QED BY <2>2, <4>2, <4>3, <5>1 DEF Held
      <4>5. CASE i = 1
        <5>1. ASSUME NEW p \in Pieces(new) PROVE p = Torn \/ p > n
          <6>1. PICK j \in 1..MaxKept : \E l \in 1..Len(new[j]) : new[j][l] = p
            BY <2>2
          <6>2. PICK l \in 1..Len(new[j]) : new[j][l] = p
            BY <6>1
          <6>3. new[j] = q[j + 1] /\ j + 1 \in 1..Len(q) /\ i < j + 1
            BY <1>2, <1>7, <2>1, <4>5
          <6>4. n # Torn BY DEF Torn
          <6>5. p = Torn \/ n < p
            BY <1>3, <4>2, <4>3, <6>2, <6>3, <6>4 DEF LinesInOrder
          <6>6. p \in Nat BY <2>1, PiecesAreNumbers
          <6> QED BY <6>5, <6>6
        <5> QED BY <2>1, <5>1 DEF Held
      <4> QED BY <4>4, <4>5
    <3>2. CASE \A p \in Pieces(lines) : p = Torn \/ p > n
      <4>1. \A p \in Pieces(new) : p = Torn \/ p > n BY <1>4, <2>3, <2>6, <3>2
      <4> QED BY <2>1, <4>1 DEF Held
    <3> QED BY <2>6, <3>1, <3>2 DEF Held
  <2>7. \A w : Below(lines, w) /\ r < w => Below(new, w)
    BY <1>4, <2>3 DEF Below
  <2>8. Held(new, r) BY <2>5 DEF Held
  <2>9. /\ Len(lines) >= MaxKept /\ Len(new) = Len(lines) /\ Len(new) <= MaxKept
    BY <1>2, <1>7, <2>1
  <2>10. new = Newest(Append(lines, <<r>>)) BY DEF new, q
  <2> QED BY <2>1, <2>4, <2>6, <2>7, <2>8, <2>9, <2>10
<1> QED BY <1>2, <1>6, <1>7

-----------------------------------------------------------------------------
(* The queue                                                               *)

LEMMA WaitingAppended ==
  ASSUME NEW q \in Seq(LogItems), NEW x \in LogItems
  PROVE  /\ Append(q, x) \in Seq(LogItems)
         /\ Waiting(Append(q, x)) = Waiting(q) \cup (IF x.kind = "record" THEN {x.upto} ELSE {})
         /\ \A m \in Nat : (\A i \in 1..Len(q) : q[i].upto <= m) /\ x.upto <= m =>
              \A i \in 1..Len(Append(q, x)) : Append(q, x)[i].upto <= m
         /\ Queued(q) /\ (x.kind = "record" => \A i \in 1..Len(q) : q[i].upto < x.upto)
              => Queued(Append(q, x))
<1> DEFINE a == Append(q, x)
<1>1. /\ a \in Seq(LogItems) /\ Len(q) \in Nat /\ Len(a) = Len(q) + 1
      /\ a[Len(q) + 1] = x /\ \A i \in 1..Len(q) : a[i] = q[i]
  OBVIOUS
<1> HIDE DEF a
<1>2. /\ \A i \in 1..Len(a) : i \in 1..Len(q) \/ i = Len(q) + 1
      /\ \A i \in 1..Len(q) : i \in 1..Len(a)
      /\ Len(q) + 1 \in 1..Len(a)
  BY <1>1
<1>3. x.upto \in Nat BY DEF LogItems
<1>4. Waiting(a) = Waiting(q) \cup (IF x.kind = "record" THEN {x.upto} ELSE {})
  BY <1>1, <1>2, <1>3 DEF Waiting
<1>5. ASSUME NEW m \in Nat, \A i \in 1..Len(q) : q[i].upto <= m, x.upto <= m
      PROVE  \A i \in 1..Len(a) : a[i].upto <= m
  BY <1>1, <1>2, <1>5
<1>6. ASSUME Queued(q), x.kind = "record" => \A i \in 1..Len(q) : q[i].upto < x.upto
      PROVE  Queued(a)
  <2> SUFFICES ASSUME NEW i \in 1..Len(a), NEW j \in 1..Len(a), i < j,
                      a[i].kind \in {"record", "flush"}, a[j].kind = "record"
               PROVE  a[i].upto < a[j].upto
    BY DEF Queued
  <2>1. i \in 1..Len(q) BY <1>1, <1>2
  <2>2. CASE j \in 1..Len(q) BY <1>1, <1>6, <2>1, <2>2 DEF Queued
  <2>3. CASE j = Len(q) + 1 BY <1>1, <1>6, <2>1, <2>3
  <2> QED BY <1>2, <2>2, <2>3
<1> QED BY <1>1, <1>4, <1>5, <1>6 DEF a

LEMMA WaitingTaken ==
  ASSUME NEW q \in Seq(LogItems), q # <<>>, Queued(q)
  PROVE  /\ Head(q) \in LogItems /\ Head(q) = q[1] /\ 1 \in 1..Len(q)
         /\ Tail(q) \in Seq(LogItems) /\ Queued(Tail(q))
         /\ Head(q).kind = "record" =>
              Head(q).upto \in Waiting(q) /\ Waiting(Tail(q)) = Waiting(q) \ {Head(q).upto}
         /\ Head(q).kind # "record" => Waiting(Tail(q)) = Waiting(q)
         /\ Head(q).kind \in {"record", "flush"} =>
              \A w \in Waiting(Tail(q)) : Head(q).upto < w
         /\ \A m \in Nat : (\A i \in 1..Len(q) : q[i].upto <= m) =>
              \A i \in 1..Len(Tail(q)) : Tail(q)[i].upto <= m
<1> DEFINE t == Tail(q)
<1>1. /\ t \in Seq(LogItems) /\ Len(q) \in Nat \ {0} /\ Len(t) = Len(q) - 1
      /\ \A i \in 1..Len(t) : t[i] = q[i + 1]
      /\ Head(q) = q[1] /\ q[1] \in LogItems
  OBVIOUS
<1> HIDE DEF t
<1>2. /\ \A i \in 1..Len(t) : i + 1 \in 1..Len(q) /\ 1 < i + 1
      /\ \A i \in 1..Len(q) : i # 1 => i - 1 \in 1..Len(t) /\ q[i] = t[i - 1]
      /\ 1 \in 1..Len(q)
  BY <1>1
<1>3. q[1].upto \in Nat BY <1>1 DEF LogItems
<1>4. Queued(t)
  <2> SUFFICES ASSUME NEW i \in 1..Len(t), NEW j \in 1..Len(t), i < j,
                      t[i].kind \in {"record", "flush"}, t[j].kind = "record"
               PROVE  t[i].upto < t[j].upto
    BY DEF Queued
  <2>1. i + 1 < j + 1 /\ i + 1 \in 1..Len(q) /\ j + 1 \in 1..Len(q) BY <1>2
  <2> QED BY <1>1, <2>1 DEF Queued
<1>5. q[1].kind \in {"record", "flush"} => \A w \in Waiting(t) : q[1].upto < w
  BY <1>1, <1>2 DEF Queued, Waiting
<1>6. Waiting(t) \subseteq Waiting(q) BY <1>1, <1>2 DEF Waiting
<1>7. \A w \in Waiting(q) : w \in Waiting(t) \/ (q[1].kind = "record" /\ w = q[1].upto)
  BY <1>1, <1>2 DEF Waiting
<1>8. q[1].kind = "record" => q[1].upto \in Waiting(q)
  BY <1>2, <1>3 DEF Waiting
<1>9. q[1].kind = "record" => Waiting(t) = Waiting(q) \ {q[1].upto}
  BY <1>3, <1>5, <1>6, <1>7
<1>10. q[1].kind # "record" => Waiting(t) = Waiting(q) BY <1>6, <1>7
<1>11. \A m \in Nat : (\A i \in 1..Len(q) : q[i].upto <= m) =>
          \A i \in 1..Len(t) : t[i].upto <= m
  BY <1>1, <1>2
<1> QED BY <1>1, <1>2, <1>4, <1>5, <1>8, <1>9, <1>10, <1>11 DEF t

-----------------------------------------------------------------------------
(* The steps                                                               *)

(* Whoever puts into the queue puts behind what is in it.                  *)
LEMMA PuttingKeeps ==
  ASSUME LogInv, UNCHANGED <<file, unended, records, writer, dirty, item, since, flushed>>,
         \/ emitted' = emitted /\ Waiting(items') = Waiting(items)
         \/ emitted' = emitted + 1 /\ Waiting(items') = Waiting(items) \cup {emitted + 1},
         items' \in Seq(LogItems), Queued(items'),
         \A i \in 1..Len(items') : items'[i].upto <= emitted'
  PROVE  LogInv'
<1>1. LogTypes' /\ Sizes' BY DEF LogInv, LogTypes, Sizes
<1>2. /\ emitted \in Nat /\ since \in Nat /\ since <= emitted /\ emitted <= emitted'
      /\ flushed \subseteq Nat \ {0} /\ \A n \in flushed : n <= emitted
  BY DEF LogInv, LogTypes, QueueInOrder
<1>3. \A p \in Pieces(file) \cup Pieces(records) : p < emitted + 1 /\ p \in Nat
  BY PiecesAreNumbers DEF LogInv, LogTypes, QueueInOrder, Below
<1>4. \A w \in Waiting(items') :
        /\ since < w /\ Below(file, w) /\ Below(records, w)
        /\ \A n \in w..emitted' : n \in Waiting(items')
        /\ \A n \in flushed : n < w
  <2> SUFFICES ASSUME NEW w \in Waiting(items')
               PROVE  /\ since < w /\ Below(file, w) /\ Below(records, w)
                      /\ \A n \in w..emitted' : n \in Waiting(items')
                      /\ \A n \in flushed : n < w
    OBVIOUS
  <2>1. CASE w \in Waiting(items) BY <1>2, <2>1 DEF LogInv, QueueInOrder
  <2>2. CASE w = emitted + 1 /\ emitted' = emitted + 1
    BY <1>2, <1>3, <2>2 DEF Below
  <2> QED BY <2>1, <2>2
<1>5. Below(file, emitted' + 1) /\ Below(records, emitted' + 1)
  BY <1>2, <1>3 DEF Below
<1>6. QueueInOrder' BY <1>2, <1>4, <1>5 DEF QueueInOrder
<1>7. AtWork'
  <2>1. \A m \in Nat : m <= emitted /\ (\A w \in Waiting(items) : m < w) =>
          m <= emitted' /\ \A w \in Waiting(items') : m < w
    BY <1>2
  <2>2. item.upto \in Nat BY DEF LogInv, LogTypes, LogItems
  <2> QED BY <2>1, <2>2 DEF LogInv, AtWork
<1>8. Taken' = Taken BY <1>2 DEF Taken
<1>9. AllHeld' BY <1>8 DEF LogInv, AllHeld
<1> QED BY <1>1, <1>6, <1>7, <1>9 DEF LogInv

LEMMA CallersKeep ==
  ASSUME LogInv,
         CheckClosed \/ Emit \/ RequestFlush \/ CloseFlushes \/ MarkClosed \/ PutStop
  PROVE  LogInv'
<1>1. /\ items \in Seq(LogItems) /\ Queued(items) /\ emitted \in Nat
      /\ \A i \in 1..Len(items) : items[i].upto <= emitted
      /\ \A i \in 1..Len(items) : items[i].upto \in Nat
  <2>1. /\ items \in Seq(LogItems) /\ Queued(items) /\ emitted \in Nat
        /\ \A i \in 1..Len(items) : items[i].upto <= emitted
    BY DEF LogInv, LogTypes, QueueInOrder
  <2>2. \A i \in 1..Len(items) : items[i] \in LogItems BY <2>1
  <2> QED BY <2>1, <2>2 DEF LogItems
<1>2. ASSUME UNCHANGED <<file, unended, records, writer, dirty, item, since, flushed, items,
                         emitted>>
      PROVE  LogInv'
  BY <1>1, <1>2, PuttingKeeps
<1>3. ASSUME UNCHANGED <<file, unended, records, writer, dirty, item, since, flushed, emitted>>,
             NEW x \in LogItems, x.kind # "record", x.upto <= emitted, items' = Append(items, x)
      PROVE  LogInv'
  <2>1. /\ items' \in Seq(LogItems) /\ Waiting(items') = Waiting(items) /\ Queued(items')
        /\ \A i \in 1..Len(items') : items'[i].upto <= emitted'
    BY <1>1, <1>3, WaitingAppended
  <2> QED BY <1>3, <2>1, PuttingKeeps
<1>4. CASE Emit
  <2>1. /\ UNCHANGED <<file, unended, records, writer, dirty, item, since, flushed>>
        /\ emitted' = emitted + 1 /\ items' = Append(items, Record(emitted + 1))
    BY <1>4 DEF Emit
  <2>2. /\ Record(emitted + 1) \in LogItems /\ Record(emitted + 1).kind = "record"
        /\ Record(emitted + 1).upto = emitted + 1
    BY <1>1 DEF LogItems, Record
  <2>3. /\ emitted + 1 \in Nat /\ emitted + 1 <= emitted + 1
        /\ \A i \in 1..Len(items) : items[i].upto <= emitted + 1 /\ items[i].upto < emitted + 1
    BY <1>1
  <2>4. /\ items' \in Seq(LogItems) /\ Waiting(items') = Waiting(items) \cup {emitted + 1}
        /\ Queued(items')
        /\ \A i \in 1..Len(items') : items'[i].upto <= emitted + 1
    BY <1>1, <2>1, <2>2, <2>3, WaitingAppended
  <2> QED BY <2>1, <2>4, PuttingKeeps
<1>5. /\ Flush(emitted) \in LogItems /\ Flush(emitted).kind # "record"
      /\ Flush(emitted).upto <= emitted
      /\ Stop \in LogItems /\ Stop.kind # "record" /\ Stop.upto <= emitted
  BY <1>1 DEF LogItems, Flush, Stop
<1>6. CASE RequestFlush BY <1>3, <1>5, <1>6 DEF RequestFlush
<1>7. CASE CloseFlushes BY <1>2, <1>3, <1>5, <1>7 DEF CloseFlushes
<1>8. CASE PutStop BY <1>3, <1>5, <1>8 DEF PutStop
<1>9. CASE CheckClosed \/ MarkClosed BY <1>2, <1>9 DEF CheckClosed, MarkClosed
<1> QED BY <1>4, <1>6, <1>7, <1>8, <1>9

(* What the thread takes is older than all that is left in the queue.      *)
LEMMA TakingFacts ==
  ASSUME LogInv, Get
  PROVE  /\ items \in Seq(LogItems) /\ items # <<>>
         /\ item' = Head(items) /\ items' = Tail(items)
         /\ UNCHANGED <<file, unended, emitted, since, flushed>> /\ writer = "get"
         /\ item' \in LogItems /\ item'.upto \in Nat /\ item'.upto <= emitted
         /\ items' \in Seq(LogItems) /\ Queued(items')
         /\ \A i \in 1..Len(items') : items'[i].upto <= emitted
         /\ item'.kind = "record" =>
              item'.upto \in Waiting(items) /\ Waiting(items') = Waiting(items) \ {item'.upto}
         /\ item'.kind # "record" => Waiting(items') = Waiting(items)
         /\ item'.kind \in {"record", "flush"} => \A w \in Waiting(items') : item'.upto < w
<1>1. /\ items \in Seq(LogItems) /\ Queued(items) /\ emitted \in Nat
      /\ \A i \in 1..Len(items) : items[i].upto <= emitted
  BY DEF LogInv, LogTypes, QueueInOrder
<1>2. /\ items # <<>> /\ item' = Head(items) /\ items' = Tail(items) /\ writer = "get"
      /\ UNCHANGED <<file, unended, emitted, since, flushed>>
  BY DEF Get
<1>3. /\ Head(items) \in LogItems /\ Head(items).upto <= emitted
      /\ Head(items).upto \in Nat
  BY <1>1, <1>2, WaitingTaken DEF LogItems
<1>4. /\ Tail(items) \in Seq(LogItems) /\ Queued(Tail(items))
      /\ Head(items).kind = "record" =>
           Head(items).upto \in Waiting(items)
             /\ Waiting(Tail(items)) = Waiting(items) \ {Head(items).upto}
      /\ Head(items).kind # "record" => Waiting(Tail(items)) = Waiting(items)
      /\ Head(items).kind \in {"record", "flush"} =>
           \A w \in Waiting(Tail(items)) : Head(items).upto < w
      /\ \A i \in 1..Len(Tail(items)) : Tail(items)[i].upto <= emitted
  BY <1>1, <1>2, WaitingTaken
<1> QED BY <1>1, <1>2, <1>3, <1>4

LEMMA TakeRecordKeeps ==
  ASSUME LogInv, TakeRecord
  PROVE  LogInv'
<1> DEFINE new == records'
<1>1. PICK r \in Nat : r = item'.upto
  BY TakingFacts DEF TakeRecord
<1>2. /\ item' \in LogItems /\ item'.upto = r /\ r <= emitted
      /\ UNCHANGED <<file, unended, emitted, since, flushed>> /\ writer = "get"
      /\ items' \in Seq(LogItems) /\ Queued(items')
      /\ \A i \in 1..Len(items') : items'[i].upto <= emitted
      /\ r \in Waiting(items) /\ Waiting(items') = Waiting(items) \ {r}
      /\ \A w \in Waiting(items') : r < w
  <2>1. Get /\ item'.kind = "record" BY DEF TakeRecord, Get
  <2> QED BY <1>1, <2>1, TakingFacts
<1>3. /\ records' = Newest(Append(records, <<r>>))
      /\ IF Len(records) >= MaxKept
         THEN dirty' = TRUE /\ writer' = "get" ELSE dirty' = dirty /\ writer' = "append"
  BY <1>1 DEF TakeRecord, Get
<1>4. /\ file \in Lines /\ records \in Lines /\ unended \in BOOLEAN /\ dirty \in BOOLEAN
      /\ emitted \in Nat /\ since \in Nat /\ flushed \subseteq Nat \ {0}
      /\ Len(file) \in Nat /\ Len(records) \in Nat /\ MaxKept \in Nat \ {0}
  BY KeptAssumption DEF LogInv, LogTypes, Lines
<1>5. /\ Len(file) <= Len(records) /\ Len(records) <= MaxKept /\ (unended => file # <<>>)
      /\ LinesInOrder(file) /\ LinesInOrder(records)
  BY DEF LogInv, Sizes
<1>6. /\ since < r /\ Below(file, r) /\ Below(records, r)
      /\ \A n \in r..emitted : n \in Waiting(items)
      /\ \A n \in flushed : n < r
      /\ since <= emitted /\ \A n \in flushed : n <= emitted
      /\ Below(file, emitted + 1) /\ Below(records, emitted + 1)
  BY <1>2 DEF LogInv, QueueInOrder
<1>7. /\ new \in Lines /\ Len(new) <= MaxKept
      /\ Len(new) = IF Len(records) >= MaxKept THEN Len(records) ELSE Len(records) + 1
      /\ LinesInOrder(new)
      /\ \A w : Below(records, w) /\ r < w => Below(new, w)
      /\ Held(new, r)
      /\ \A n \in Nat \ {0} : n < r /\ Held(records, n) => Held(new, n)
  <2>1. r \in Nat \ {0} BY <1>4, <1>6
  <2> QED BY <1>3, <1>4, <1>5, <1>6, <2>1, NewestKeeps
<1> HIDE DEF new
<1>8. LogTypes' BY <1>2, <1>3, <1>4, <1>7 DEF LogTypes, LogPlaces, new
<1>9. Sizes'
  <2>1. Len(file) <= Len(new) /\ (writer' = "append" => Len(file) < Len(new))
    BY <1>3, <1>4, <1>5, <1>7
  <2> QED BY <1>2, <1>5, <1>7, <2>1 DEF Sizes, new
<1>10. QueueInOrder'
  <2>1. ASSUME NEW w \in Waiting(items')
        PROVE  /\ since < w /\ Below(file, w) /\ Below(new, w)
               /\ \A n \in w..emitted : n \in Waiting(items')
               /\ \A n \in flushed : n < w
    <3>1. /\ w \in Waiting(items) /\ r < w /\ w \in Nat BY <1>2 DEF Waiting
    <3>2. /\ since < w /\ Below(file, w) /\ Below(records, w)
          /\ \A n \in w..emitted : n \in Waiting(items)
          /\ \A n \in flushed : n < w
      BY <3>1 DEF LogInv, QueueInOrder
    <3>3. \A n \in w..emitted : n \in Waiting(items') BY <1>1, <1>2, <3>1, <3>2
    <3> QED BY <1>7, <3>1, <3>2, <3>3
  <2>2. Below(new, emitted + 1) BY <1>1, <1>2, <1>4, <1>6, <1>7
  <2> QED BY <1>2, <1>6, <2>1, <2>2 DEF QueueInOrder, new
<1>11. AtWork' BY <1>1, <1>2, <1>3, <1>4, <1>6 DEF AtWork
<1>12. Taken' = Taken \cup {r} /\ Taken \subseteq Nat \ {0} /\ \A n \in Taken : n < r
  BY <1>1, <1>2, <1>4, <1>6 DEF Taken
<1>13. AllHeld'
  <2>1. \A n \in flushed : Held(file, n) BY DEF LogInv, AllHeld
  <2>2. \A n \in flushed \cup Taken : Held(records, n)
    BY <1>2 DEF LogInv, AllHeld
  <2>3. \A n \in flushed \cup Taken' : Held(new, n)
    BY <1>4, <1>6, <1>7, <1>12, <2>2
  <2>4. ~dirty => \A n \in Taken : Held(file, n) BY <1>2 DEF LogInv, AllHeld
  <2>5. ~dirty' => \A n \in Taken' : Held(file, n) \/ (writer' = "append" /\ n = item'.upto)
    BY <1>2, <1>3, <1>12, <2>4
  <2> QED BY <1>2, <2>1, <2>3, <2>5 DEF AllHeld, new
<1> QED BY <1>2, <1>5, <1>7, <1>8, <1>9, <1>10, <1>11, <1>13 DEF LogInv, new

LEMMA TakeRequestKeeps ==
  ASSUME LogInv, TakeFlush \/ TakeStop
  PROVE  LogInv'
<1>1. /\ item' \in LogItems /\ item'.upto <= emitted
      /\ UNCHANGED <<file, unended, emitted, since, flushed>> /\ writer = "get"
      /\ items' \in Seq(LogItems) /\ Queued(items')
      /\ \A i \in 1..Len(items') : items'[i].upto <= emitted
      /\ Waiting(items') = Waiting(items)
      /\ item'.kind = "flush" => \A w \in Waiting(items') : item'.upto < w
  <2>1. Get /\ item'.kind \in {"flush", "stop"} BY DEF TakeFlush, TakeStop, Get
  <2> QED BY <2>1, TakingFacts
<1>2. /\ UNCHANGED <<records, dirty>>
      /\ writer' \in {"rewrite", "answer", "ended"}
      /\ writer' = "answer" => item'.kind = "flush" /\ ~dirty
  BY DEF TakeFlush, TakeStop, Get
<1>3. LogTypes' BY <1>1, <1>2 DEF LogInv, LogTypes, LogPlaces
<1>4. Sizes' BY <1>1, <1>2 DEF LogInv, Sizes
<1>5. QueueInOrder' BY <1>1, <1>2 DEF LogInv, QueueInOrder
<1>6. AtWork' BY <1>1, <1>2 DEF AtWork
<1>7. Taken' = Taken BY <1>1 DEF Taken
<1>8. AllHeld' BY <1>1, <1>2, <1>7 DEF LogInv, AllHeld
<1> QED BY <1>1, <1>2, <1>3, <1>4, <1>5, <1>6, <1>8 DEF LogInv

LEMMA IntervalEndsKeeps ==
  ASSUME LogInv, IntervalEnds
  PROVE  LogInv'
<1>1. /\ UNCHANGED <<file, unended, records, items, dirty, emitted, since, flushed>>
      /\ writer = "get" /\ writer' = "rewrite" /\ item' = NoItem
  BY DEF IntervalEnds
<1>2. NoItem \in LogItems /\ NoItem.kind # "flush" BY DEF NoItem, LogItems
<1>3. LogTypes' BY <1>1, <1>2 DEF LogInv, LogTypes, LogPlaces
<1>4. Sizes' BY <1>1 DEF LogInv, Sizes
<1>5. QueueInOrder' BY <1>1 DEF LogInv, QueueInOrder
<1>6. AtWork' BY <1>1, <1>2 DEF AtWork
<1>7. Taken' = Taken BY <1>1 DEF Taken
<1>8. AllHeld' BY <1>1, <1>7 DEF LogInv, AllHeld
<1> QED BY <1>1, <1>3, <1>4, <1>5, <1>6, <1>8 DEF LogInv

LEMMA RewriteKeeps ==
  ASSUME LogInv, Rewrite
  PROVE  LogInv'
<1>1. /\ UNCHANGED <<records, items, item, emitted, since, flushed>>
      /\ writer = "rewrite" /\ writer' \in {"ended", "answer", "get"} /\ dirty' = FALSE
      /\ writer' = "answer" => item.kind = "flush"
      /\ file' = records /\ unended' = FALSE
  BY DEF Rewrite, AfterRewrite
<1>2. LogTypes' BY <1>1 DEF LogInv, LogTypes, LogPlaces
<1>3. Sizes'
  <2>1. Len(records) \in Nat BY DEF LogInv, LogTypes, Lines
  <2> QED BY <1>1, <2>1 DEF LogInv, Sizes
<1>4. QueueInOrder' BY <1>1 DEF LogInv, QueueInOrder
<1>5. AtWork' BY <1>1 DEF LogInv, AtWork
<1>6. Taken' = Taken BY <1>1 DEF Taken
<1>7. \A n \in flushed \cup Taken : Held(records, n)
  BY <1>1 DEF LogInv, AllHeld
<1>8. AllHeld' BY <1>1, <1>6, <1>7 DEF AllHeld
<1> QED BY <1>1, <1>2, <1>3, <1>4, <1>5, <1>8 DEF LogInv

(* The request was put behind the records it answers for: all are taken.   *)
LEMMA AnswerKeeps ==
  ASSUME LogInv, Answer
  PROVE  LogInv'
<1>1. /\ UNCHANGED <<file, unended, records, items, dirty, emitted, since>>
      /\ writer = "answer" /\ writer' = "get" /\ item' = NoItem
      /\ flushed' = flushed \cup (since + 1)..item.upto
  BY DEF Answer
<1>2. /\ emitted \in Nat /\ since \in Nat /\ flushed \subseteq Nat \ {0}
      /\ item.upto \in Nat /\ item.upto <= emitted /\ ~dirty
      /\ \A w \in Waiting(items) : item.upto < w
  BY <1>1 DEF LogInv, LogTypes, LogItems, AtWork
<1>3. NoItem \in LogItems BY DEF NoItem, LogItems
<1>4. LogTypes'
  <2>1. (since + 1)..item.upto \subseteq Nat \ {0} BY <1>2
  <2> QED BY <1>1, <1>2, <1>3, <2>1 DEF LogInv, LogTypes, LogPlaces
<1>5. Sizes' BY <1>1 DEF LogInv, Sizes
<1>6. QueueInOrder'
  <2>1. ASSUME NEW w \in Waiting(items) PROVE \A n \in flushed' : n < w
    <3>1. w \in Nat /\ item.upto < w /\ \A n \in flushed : n < w
      BY <1>2 DEF LogInv, QueueInOrder, Waiting
    <3> QED BY <1>1, <1>2, <3>1
  <2>2. \A n \in flushed' : n <= emitted BY <1>1, <1>2 DEF LogInv, QueueInOrder
  <2> QED BY <1>1, <2>1, <2>2 DEF LogInv, QueueInOrder
<1>7. AtWork' BY <1>1 DEF AtWork
<1>8. Taken' = Taken BY <1>1 DEF Taken
<1>9. (since + 1)..item.upto \subseteq Taken
  <2> SUFFICES ASSUME NEW n \in (since + 1)..item.upto PROVE n \in Taken
    OBVIOUS
  <2>1. n \in (since + 1)..emitted BY <1>2
  <2>2. n \notin Waiting(items) BY <1>2
  <2> QED BY <2>1, <2>2 DEF Taken
<1>10. AllHeld'
  <2>1. \A n \in flushed \cup Taken : Held(records, n) /\ Held(file, n)
    BY <1>1, <1>2 DEF LogInv, AllHeld
  <2> QED BY <1>1, <1>8, <1>9, <2>1 DEF AllHeld
<1> QED BY <1>1, <1>4, <1>5, <1>6, <1>7, <1>10 DEF LogInv

(* The file after an append, as far as it came.                            *)
LEMMA CutFacts ==
  ASSUME LogInv, NEW lines, NEW open \in BOOLEAN,
         \/ CutShort(lines, open)
         \/ writer = "append" /\ lines = Appended(item.upto) /\ open = FALSE
  PROVE  /\ lines \in Lines /\ Len(lines) \in Nat /\ Len(lines) <= Len(records)
         /\ open => lines # <<>>
         /\ LinesInOrder(lines)
         /\ \A w \in Waiting(items) : Below(lines, w)
         /\ Below(lines, emitted + 1)
         /\ \A n : Held(file, n) => Held(lines, n)
         /\ writer = "append" /\ lines = Appended(item.upto) => item.upto \in Pieces(lines)
<1>1. /\ file \in Lines /\ records \in Lines /\ unended \in BOOLEAN
      /\ Len(file) \in Nat /\ Len(records) \in Nat /\ MaxKept \in Nat \ {0}
      /\ emitted \in Nat /\ since \in Nat /\ item.upto \in Nat
  BY KeptAssumption DEF LogInv, LogTypes, Lines, LogItems
<1>2. /\ Len(file) <= Len(records) /\ Len(records) <= MaxKept
      /\ writer = "append" => Len(file) < Len(records)
      /\ unended => file # <<>>
      /\ LinesInOrder(file)
  BY DEF LogInv, Sizes
<1>3. /\ \A w \in Waiting(items) : Below(file, w) /\ since < w /\ w \in Nat
      /\ Below(file, emitted + 1)
  BY DEF LogInv, QueueInOrder, Waiting
<1>4. CASE lines = file /\ open = unended
  <2>1. writer = "append" /\ file = Appended(item.upto) => item.upto \in Pieces(file)
    BY <1>1, <1>2, WithKeeps DEF Appended, With
  <2> QED BY <1>1, <1>2, <1>3, <1>4, <2>1
<1>5. ASSUME writer = "append", NEW piece \in {Torn, item.upto}, lines = Appended(piece)
      PROVE  /\ lines \in Lines /\ Len(lines) \in Nat /\ Len(lines) <= Len(records)
             /\ lines # <<>>
             /\ LinesInOrder(lines)
             /\ \A w \in Waiting(items) : Below(lines, w)
             /\ Below(lines, emitted + 1)
             /\ \A n : Held(file, n) => Held(lines, n)
             /\ piece \in Pieces(lines)
  <2>1. /\ item.upto <= emitted /\ Below(file, item.upto)
        /\ \A w \in Waiting(items) : item.upto < w
    BY <1>5 DEF LogInv, AtWork
  <2>2. piece \in Nat /\ (piece = Torn \/ Below(file, piece))
    BY <1>1, <1>5, <2>1 DEF Torn
  <2>3. lines = With(file, unended, piece) BY <1>5 DEF Appended, With
  <2>4. LinesInOrder(lines) BY <1>1, <1>2, <2>2, <2>3, WithInOrder
  <2>5. /\ lines \in Lines /\ lines # <<>>
        /\ Len(lines) \in Nat /\ Len(lines) <= Len(file) + 1
        /\ piece \in Pieces(lines)
        /\ \A w : Below(file, w) /\ piece < w => Below(lines, w)
        /\ \A n : Len(file) < MaxKept /\ Held(file, n) => Held(lines, n)
    BY <1>1, <1>2, <2>2, <2>3, WithKeeps
  <2>6. /\ piece < emitted + 1 /\ \A w \in Waiting(items) : piece < w
    BY <1>1, <1>3, <1>5, <2>1 DEF Torn
  <2>7. Len(lines) <= Len(records) /\ Len(file) < MaxKept
    BY <1>1, <1>2, <1>5, <2>5
  <2> QED BY <1>3, <2>4, <2>5, <2>6, <2>7
<1>6. CASE writer = "append" /\ lines = Appended(item.upto) BY <1>5, <1>6
<1>7. CASE writer = "append" /\ lines = Appended(Torn) /\ lines # Appended(item.upto)
  BY <1>5, <1>7
<1> QED BY <1>4, <1>6, <1>7 DEF CutShort

LEMMA AppendLineKeeps ==
  ASSUME LogInv, AppendLine
  PROVE  LogInv'
<1>1. /\ UNCHANGED <<records, items, dirty, item, emitted, since, flushed>>
      /\ writer = "append" /\ writer' = "get"
      /\ file' = Appended(item.upto) /\ unended' = FALSE
  BY DEF AppendLine
<1>2. /\ file' \in Lines /\ Len(file') <= Len(records)
      /\ LinesInOrder(file')
      /\ \A w \in Waiting(items) : Below(file', w)
      /\ Below(file', emitted + 1)
      /\ \A n : Held(file, n) => Held(file', n)
      /\ item.upto \in Pieces(file')
  <2>1. FALSE \in BOOLEAN OBVIOUS
  <2> QED BY <1>1, <2>1, CutFacts
<1>3. LogTypes' BY <1>1, <1>2 DEF LogInv, LogTypes, LogPlaces
<1>4. Sizes' BY <1>1, <1>2 DEF LogInv, Sizes
<1>5. QueueInOrder' BY <1>1, <1>2 DEF LogInv, QueueInOrder
<1>6. AtWork' BY <1>1 DEF AtWork
<1>7. Taken' = Taken BY <1>1 DEF Taken
<1>8. Held(file', item.upto) BY <1>2 DEF Held
<1>9. AllHeld' BY <1>1, <1>2, <1>7, <1>8 DEF LogInv, AllHeld
<1> QED BY <1>1, <1>2, <1>3, <1>4, <1>5, <1>6, <1>9 DEF LogInv

LEMMA FileFailsKeeps ==
  ASSUME LogInv, FileFails
  PROVE  LogInv'
<1>1. /\ UNCHANGED <<records, items, dirty, item, emitted, since, flushed>>
      /\ writer' = "ended"
      /\ unended' \in BOOLEAN /\ CutShort(file', unended')
  BY DEF FileFails
<1>2. /\ file' \in Lines /\ Len(file') <= Len(records)
      /\ unended' => file' # <<>>
      /\ LinesInOrder(file')
      /\ \A w \in Waiting(items) : Below(file', w)
      /\ Below(file', emitted + 1)
      /\ \A n : Held(file, n) => Held(file', n)
  BY <1>1, CutFacts
<1>3. LogTypes' BY <1>1, <1>2 DEF LogInv, LogTypes, LogPlaces
<1>4. Sizes' BY <1>1, <1>2 DEF LogInv, Sizes
<1>5. QueueInOrder' BY <1>1, <1>2 DEF LogInv, QueueInOrder
<1>6. AtWork' BY <1>1 DEF AtWork
<1>7. AllHeld' BY <1>1, <1>2 DEF LogInv, AllHeld
<1> QED BY <1>1, <1>2, <1>3, <1>4, <1>5, <1>6, <1>7 DEF LogInv

(* The file has room for the line that is being appended: a start reads    *)
(* all of it.                                                              *)
LEMMA RestartKeeps ==
  ASSUME LogInv, Restart
  PROVE  LogInv'
<1>1. PICK lines \in CutLines, open \in BOOLEAN : CutShort(lines, open) /\ Started(lines, open)
  BY DEF Restart
<1>2. /\ lines \in Lines /\ Len(lines) \in Nat /\ Len(lines) <= Len(records)
      /\ open => lines # <<>>
      /\ LinesInOrder(lines)
      /\ Below(lines, emitted + 1)
      /\ \A n : Held(file, n) => Held(lines, n)
  BY <1>1, CutFacts
<1>3. Len(lines) <= MaxKept
  <2>1. Len(records) \in Nat /\ MaxKept \in Nat /\ Len(records) <= MaxKept
    BY KeptAssumption DEF LogInv, LogTypes, Lines, Sizes
  <2> QED BY <1>2, <2>1
<1>4. Newest(lines) = lines BY <1>2, <1>3, NewestIsAll
<1>5. /\ records' = lines /\ file' = lines /\ unended' = open
      /\ items' = <<>> /\ writer' = "get" /\ dirty' = FALSE /\ item' = NoItem
      /\ since' = emitted /\ emitted' = emitted /\ flushed' = flushed
  BY <1>1, <1>3, <1>4 DEF Started, Restart
<1>6. /\ emitted \in Nat /\ flushed \subseteq Nat \ {0}
      /\ \A n \in flushed : n <= emitted /\ Held(file, n)
  BY DEF LogInv, LogTypes, QueueInOrder, AllHeld
<1>7. LogTypes'
  <2>1. NoItem \in LogItems /\ <<>> \in Seq(LogItems) BY DEF NoItem, LogItems
  <2> QED BY <1>2, <1>5, <1>6, <2>1 DEF LogTypes, LogPlaces
<1>8. Sizes' BY <1>2, <1>3, <1>5 DEF Sizes
<1>9. Waiting(items') = {} /\ Len(items') = 0 BY <1>5 DEF Waiting
<1>10. QueueInOrder'
  <2>1. Queued(items') /\ \A i \in 1..Len(items') : items'[i].upto <= emitted
    BY <1>9 DEF Queued
  <2> QED BY <1>2, <1>5, <1>6, <1>9, <2>1 DEF QueueInOrder
<1>11. AtWork' BY <1>5 DEF AtWork
<1>12. Taken' = {} BY <1>5, <1>6 DEF Taken
<1>13. AllHeld' BY <1>2, <1>5, <1>6, <1>12 DEF AllHeld
<1> QED BY <1>2, <1>5, <1>7, <1>8, <1>10, <1>11, <1>13 DEF LogInv

LEMMA LogStarts ==
  ASSUME LogInit
  PROVE  LogInv
<1>1. /\ file = <<>> /\ unended = FALSE /\ records = <<>> /\ items = <<>> /\ writer = "get"
      /\ dirty = FALSE /\ item = NoItem /\ emitted = 0 /\ since = 0 /\ flushed = {}
  BY DEF LogInit
<1>2. /\ <<>> \in Lines /\ Len(<<>>) = 0 /\ Pieces(<<>>) = {} /\ LinesInOrder(<<>>)
      /\ Waiting(<<>>) = {} /\ Queued(<<>>)
  <2>1. Len(<<>>) = 0 /\ 1..0 = {} OBVIOUS
  <2>2. <<>> \in Lines BY DEF Lines
  <2>3. Pieces(<<>>) = {} BY <2>1, <2>2, PieceOf
  <2>4. LinesInOrder(<<>>) BY <2>1 DEF LinesInOrder
  <2>5. Waiting(<<>>) = {} /\ Queued(<<>>) BY <2>1 DEF Waiting, Queued
  <2> QED BY <2>1, <2>2, <2>3, <2>4, <2>5
<1>3. LogTypes
  <2>1. <<>> \in Seq(LogItems) /\ NoItem \in LogItems BY DEF LogItems, NoItem
  <2> QED BY <1>1, <1>2, <2>1 DEF LogTypes, LogPlaces
<1>4. Sizes BY <1>1, <1>2, KeptAssumption DEF Sizes
<1>5. QueueInOrder BY <1>1, <1>2 DEF QueueInOrder, Below
<1>6. AtWork /\ AllHeld BY <1>1 DEF AtWork, AllHeld, Taken
<1> QED BY <1>1, <1>2, <1>3, <1>4, <1>5, <1>6 DEF LogInv

(* A record that a flush was answered for stays in the file, in order,     *)
(* until newer ones took its place: for any size of the log, whatever      *)
(* fails and wherever the program ends.                                    *)
THEOREM FlushedIsKeptCorrect == LogSpec => []FlushedIsKept
<1>1. LogInit => LogInv BY LogStarts
<1>2. LogInv /\ [LogNext]_logVars => LogInv'
  <2> SUFFICES ASSUME LogInv, [LogNext]_logVars PROVE LogInv'
    OBVIOUS
  <2>1. CASE CheckClosed \/ Emit \/ RequestFlush \/ CloseFlushes \/ MarkClosed \/ PutStop
    BY <2>1, CallersKeep
  <2>2. CASE TakeRecord BY <2>2, TakeRecordKeeps
  <2>3. CASE TakeFlush \/ TakeStop BY <2>3, TakeRequestKeeps
  <2>4. CASE IntervalEnds BY <2>4, IntervalEndsKeeps
  <2>5. CASE AppendLine BY <2>5, AppendLineKeeps
  <2>6. CASE Rewrite BY <2>6, RewriteKeeps
  <2>7. CASE Answer BY <2>7, AnswerKeeps
  <2>8. CASE FileFails BY <2>8, FileFailsKeeps
  <2>9. CASE Restart BY <2>9, RestartKeeps
  <2>10. CASE UNCHANGED logVars
    <3>1. /\ UNCHANGED <<file, unended, records, writer, dirty, item, since, flushed, items>>
          /\ emitted' = emitted
      BY <2>10 DEF logVars
    <3>2. /\ items \in Seq(LogItems) /\ Queued(items)
          /\ \A i \in 1..Len(items) : items[i].upto <= emitted
      BY DEF LogInv, LogTypes, QueueInOrder
    <3> QED BY <3>1, <3>2, PuttingKeeps
  <2> QED
    BY <2>1, <2>2, <2>3, <2>4, <2>5, <2>6, <2>7, <2>8, <2>9, <2>10 DEF LogNext
<1>3. LogInv => FlushedIsKept
  <2> SUFFICES ASSUME LogInv PROVE FlushedIsKept
    OBVIOUS
  <2>1. Len(file) \in Nat /\ Len(records) \in Nat /\ MaxKept \in Nat
    BY KeptAssumption DEF LogInv, LogTypes, Lines
  <2>2. Len(file) <= MaxKept BY <2>1 DEF LogInv, Sizes
  <2> QED BY <2>2 DEF LogInv, AllHeld, FlushedIsKept
<1> QED BY <1>1, <1>2, <1>3, PTL DEF LogSpec
=============================================================================
