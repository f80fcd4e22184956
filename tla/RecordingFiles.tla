---------------------------- MODULE RecordingFiles ----------------------------
(***************************************************************************)
(* The files of one IQ recording and what a crash leaves of them           *)
(* (IqRecordingWriter, recover_iq_recording and IqReplay in                *)
(* esw_dfl/sdr/recording.py).                                              *)
(*                                                                         *)
(* A call of the writer is the sequence of its effects on the disk, done   *)
(* one by one: a crash may come between any two.  What was written since   *)
(* the last fsync may be on the disk in part, for each file by itself.     *)
(***************************************************************************)
EXTENDS Integers, Sequences, FiniteSets

CONSTANT FlushEvery \* blocks between two fsyncs (16 in the code)

ASSUME FlushAssumption == FlushEvery \in Nat \ {0}

(* A block of two samples of two bytes, to tell a torn block, sample and   *)
(* index line from one another.                                            *)
Width == 2
BlockBytes == 2 * Width

Files == {"data", "index", "gaps", "meta"}

NoMetadata == [known |-> FALSE, completed |-> FALSE, blocks |-> 0, gaps |-> 0]

(* place: where each file is; data, index, gaps: bytes, lines and lines    *)
(* written; synced: what of them is on the disk for sure; torn: the last   *)
(* line of the index is cut; open: the writer is started; todo: what is    *)
(* left of the call that is running; failed: the last call raised.         *)
NoFiles ==
  [place |-> [n \in Files |-> "none"], data |-> 0, index |-> 0, gaps |-> 0,
   synced |-> [data |-> 0, index |-> 0, gaps |-> 0], torn |-> FALSE,
   meta |-> NoMetadata, open |-> FALSE, todo |-> <<>>, failed |-> FALSE]

Idle(f) == f.todo = <<>>
Begin(f, ops) == [f EXCEPT !.todo = ops, !.failed = FALSE]

SyncOps == << <<"sync", "data">>, <<"sync", "index">>, <<"sync", "gaps">> >>
MetaOps == << <<"meta", "part">> >>
Renames == << <<"move", "data">>, <<"move", "index">>, <<"move", "gaps">> >>
Last(kind) == << <<"meta", kind>>, <<"move", "meta">> >>

(* start: refused when any of the eight paths exists.                      *)
Free(f) == \A n \in Files : f.place[n] = "none"
StartWriter(f) ==
  Begin([f EXCEPT !.open = TRUE],
        << <<"open", "data">>, <<"open", "index">>, <<"open", "gaps">> >> \o MetaOps)

(* write_block: the samples missing since the last block make a gap; after *)
(* the first block, and every FlushEvery, all is forced to the disk and    *)
(* the metadata is written.                                                *)
WriteBlock(f, gap) ==
  LET n == f.index + 1
  IN Begin([f EXCEPT !.data = @ + BlockBytes, !.index = n, !.gaps = @ + gap],
           IF n = 1 \/ n % FlushEvery = 0 THEN SyncOps \o MetaOps ELSE <<>>)

(* A write that fails may leave bytes that no line of the index names.     *)
FailedWrites(f) == {[f EXCEPT !.data = @ + d] : d \in 0..BlockBytes}

(* Mutant: the metadata takes its final name first.                        *)
FinalizeMetaFirst(f) ==
  Begin([f EXCEPT !.open = FALSE],
        SyncOps \o (Last("complete") \o Renames))

(* finalize and abort; the writer stays locked to the last effect.         *)
Finalize(f) ==
  Begin([f EXCEPT !.open = FALSE],
        (SyncOps \o << <<"meta", "complete">> >>) \o (Renames \o << <<"move", "meta">> >>))
Abort(f) == Begin([f EXCEPT !.open = FALSE], SyncOps \o MetaOps)

(* recover_iq_recording(finalize=True): the gaps file alone may be         *)
(* missing, and the metadata must know the sample format, which it does    *)
(* once a block was written.  The set of final names is free: data moves   *)
(* first, and without data.part there is no recovery.                      *)
PartSet(f) == \A n \in {"data", "index", "meta"} : f.place[n] = "part"
Recover(f) ==
  IF PartSet(f) /\ f.meta.known
    THEN Begin(f, << <<"trim", "data">>, <<"trim", "index">>, <<"meta", "recovered">> >>
                  \o (Renames \o Last("recoveredComplete")))
    ELSE [f EXCEPT !.failed = TRUE]

-----------------------------------------------------------------------------
(* The lines of the index whose block is in the data file.                 *)
Retained(f) ==
  CHOOSE n \in 0..f.index :
    /\ n * BlockBytes <= f.data
    /\ n < f.index => (n + 1) * BlockBytes > f.data

(* Mutant: the block that ends where the data end is taken for a torn one. *)
TrimIndexShort(f) ==
  IF f.torn THEN [f EXCEPT !.failed = TRUE, !.todo = <<>>]
  ELSE LET n == IF f.data = Retained(f) * BlockBytes /\ f.data > 0 THEN Retained(f) - 1
                ELSE Retained(f)
       IN [f EXCEPT !.index = n, !.synced.index = n]

(* A line that cannot be read stops the recovery; the index is replaced    *)
(* as a whole.                                                             *)
TrimIndex(f) ==
  IF f.torn THEN [f EXCEPT !.failed = TRUE, !.todo = <<>>]
  ELSE [f EXCEPT !.index = Retained(f), !.synced.index = Retained(f)]

Truncate(f) ==
  LET safe == f.data - (f.data % Width) IN [f EXCEPT !.data = safe, !.synced.data = safe]

(* _write_json_atomic: the writer's own counters, or the old metadata with *)
(* the count of the retained blocks.                                       *)
WriteMetadata(f, kind) ==
  LET recovered == kind \in {"recovered", "recoveredComplete"}
  IN [f EXCEPT !.place["meta"] = "part",
               !.meta = [known |-> @.known \/ f.index > 0,
                         completed |-> kind \in {"complete", "recoveredComplete"},
                         blocks |-> f.index,
                         gaps |-> IF recovered THEN @.gaps ELSE f.gaps]]

(* The next effect of the running call.                                    *)
Effect(f) ==
  LET op == f.todo[1]
      g == [f EXCEPT !.todo = Tail(@)]
  IN CASE op[1] = "open" -> [g EXCEPT !.place[op[2]] = "part"]
       [] op[1] = "sync" -> [g EXCEPT !.synced[op[2]] = f[op[2]]]
       [] op[1] = "move" -> IF f.place[op[2]] = "part" THEN [g EXCEPT !.place[op[2]] = "final"] ELSE g
       [] op[1] = "meta" -> WriteMetadata(g, op[2])
       [] op[1] = "trim" -> IF op[2] = "data" THEN Truncate(g) ELSE TrimIndex(g)

(* The process dies: of what was not synced any part may be on the disk.   *)
Remains(f, d, i, p) ==
  {[f EXCEPT !.data = d, !.index = i, !.gaps = p, !.torn = t, !.open = FALSE, !.todo = <<>>,
             !.synced = [data |-> d, index |-> i, gaps |-> p]] :
      t \in {f.torn, f.torn \/ i < f.index}}
CrashOutcomes(f) ==
  UNION {Remains(f, d, i, p) :
         d \in f.synced.data..f.data, i \in f.synced.index..f.index, p \in f.synced.gaps..f.gaps}

-----------------------------------------------------------------------------
(* IqReplay without allow_partial opens the final names only; iter_blocks  *)
(* raises at a line it cannot read or whose bytes are not there.           *)
CanOpen(f) == \A n \in {"data", "index", "meta"} : f.place[n] = "final"
CanReplay(f) == ~f.torn /\ f.index * BlockBytes <= f.data
=============================================================================
