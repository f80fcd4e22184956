----------------------------- MODULE ActivityLog -----------------------------
(***************************************************************************)
(* The activity log of the program: src/esw_dfl/activity_log.py.           *)
(*                                                                         *)
(* emit() leaves a formatted record in an unbounded queue; one thread      *)
(* takes the items, keeps the newest MaxKept lines in memory and appends   *)
(* them to the file while there are fewer.  From then on the file is       *)
(* rewritten as a whole, beside itself and put in its place, after an      *)
(* interval or when somebody flushes.  A write that fails ends the thread. *)
(* The program may end anywhere; the next one starts from the file.        *)
(*                                                                         *)
(* Records are numbered in the order they enter the queue.  A line is the  *)
(* sequence of what was written into it: a record, or Torn for a part of   *)
(* one; a record appended behind a line without its end shares that line.  *)
(***************************************************************************)
EXTENDS Integers, Sequences, FiniteSets

CONSTANTS
  MaxKept,     \* DEFAULT_MAX_RECORDS
  MaxRecords,  \* bound: records emitted
  MaxFlushes,  \* bound: calls of flush()
  MaxEnds,     \* bound: ends of the program
  MaxFailures  \* bound: writes that fail

ASSUME KeptAssumption == MaxKept \in Nat \ {0}

Torn == 0

VARIABLES
  file,      \* its lines
  unended,   \* the last line of the file has no end
  records,   \* _records
  items,     \* _queue: records, flush requests and the stop request
  writer,    \* the thread: "get", "append", "rewrite", "answer" or "ended"
  dirty,     \* snapshot_dirty
  stopping,  \* stopping
  item,      \* what it works on
  closed,    \* _closed
  checked,   \* emit() saw _closed = False and has not put yet
  closer,    \* close(): "no", "waits", "marked" or "put"
  emitted,   \* records that entered a queue
  since,     \* of them, before this program
  flushed,   \* records a flush() was answered for
  calls, ends, failures  \* counts
logVars ==
  <<file, unended, records, items, writer, dirty, stopping, item, closed, checked, closer,
    emitted, since, flushed, calls, ends, failures>>

Record(n) == [kind |-> "record", upto |-> n]
Flush(n) == [kind |-> "flush", upto |-> n]
Stop == [kind |-> "stop", upto |-> 0]
NoItem == [kind |-> "none", upto |-> 0]

Newest(lines) ==
  SubSeq(lines, IF Len(lines) <= MaxKept THEN 1 ELSE Len(lines) - MaxKept + 1, Len(lines))

(* A program starts: the newest lines are read; a file with more of them is *)
(* rewritten before the thread starts.                                      *)
Started(lines, open) ==
  /\ records' = Newest(lines)
  /\ file' = Newest(lines)
  /\ unended' = (open /\ Len(lines) <= MaxKept)
  /\ items' = <<>> /\ writer' = "get" /\ dirty' = FALSE /\ stopping' = FALSE /\ item' = NoItem
  /\ closed' = FALSE /\ checked' = FALSE /\ closer' = "no" /\ since' = emitted

LogInit ==
  /\ file = <<>> /\ unended = FALSE /\ records = <<>>
  /\ items = <<>> /\ writer = "get" /\ dirty = FALSE /\ stopping = FALSE /\ item = NoItem
  /\ closed = FALSE /\ checked = FALSE /\ closer = "no"
  /\ emitted = 0 /\ since = 0 /\ flushed = {} /\ calls = 0 /\ ends = 0 /\ failures = 0

-----------------------------------------------------------------------------
(* The callers. logging serializes emit(), but not against close().        *)
CheckClosed ==
  /\ ~closed /\ ~checked /\ emitted < MaxRecords
  /\ checked' = TRUE
  /\ UNCHANGED <<file, unended, records, items, writer, dirty, stopping, item, closed, closer,
                 emitted, since, flushed, calls, ends, failures>>

Emit ==
  /\ checked
  /\ checked' = FALSE
  /\ emitted' = emitted + 1
  /\ items' = Append(items, Record(emitted + 1))
  /\ UNCHANGED <<file, unended, records, writer, dirty, stopping, item, closed, closer, since,
                 flushed, calls, ends, failures>>

(* The request covers what is in the queue before it. The caller waits for *)
(* the answer for a while and goes on without it.                          *)
RequestFlush ==
  /\ ~closed /\ writer # "ended" /\ calls < MaxFlushes
  /\ calls' = calls + 1
  /\ items' = Append(items, Flush(emitted))
  /\ UNCHANGED <<file, unended, records, writer, dirty, stopping, item, closed, checked, closer,
                 emitted, since, flushed, ends, failures>>

(* close(): a last flush, answered or not, then the mark, then the request *)
(* to stop, and a wait for the thread.                                     *)
CloseFlushes ==
  /\ closer = "no" /\ ~closed
  /\ closer' = "waits"
  /\ items' = IF writer = "ended" THEN items ELSE Append(items, Flush(emitted))
  /\ UNCHANGED <<file, unended, records, writer, dirty, stopping, item, closed, checked, emitted,
                 since, flushed, calls, ends, failures>>

MarkClosed ==
  /\ closer = "waits"
  /\ closer' = "marked" /\ closed' = TRUE
  /\ UNCHANGED <<file, unended, records, items, writer, dirty, stopping, item, checked, emitted,
                 since, flushed, calls, ends, failures>>

PutStop ==
  /\ closer = "marked"
  /\ closer' = "put"
  /\ items' = Append(items, Stop)
  /\ UNCHANGED <<file, unended, records, writer, dirty, stopping, item, closed, checked, emitted,
                 since, flushed, calls, ends, failures>>

-----------------------------------------------------------------------------
(* The thread.                                                             *)
Get ==
  /\ writer = "get" /\ ~stopping /\ items # <<>>
  /\ item' = Head(items) /\ items' = Tail(items)
  /\ UNCHANGED <<file, unended, closed, checked, closer, emitted, since, flushed, calls, ends,
                 failures>>

TakeRecord ==
  /\ Get /\ Head(items).kind = "record"
  /\ records' = Newest(Append(records, <<Head(items).upto>>))
  /\ IF Len(records) >= MaxKept
     THEN dirty' = TRUE /\ writer' = "get"
     ELSE dirty' = dirty /\ writer' = "append"
  /\ UNCHANGED stopping

(* The plausible mistake: a flush is answered without the rewrite.         *)
TakeFlushAtOnce ==
  /\ Get /\ Head(items).kind = "flush"
  /\ writer' = "answer"
  /\ UNCHANGED <<records, dirty, stopping>>

TakeFlush ==
  /\ Get /\ Head(items).kind = "flush"
  /\ writer' = IF dirty THEN "rewrite" ELSE "answer"
  /\ UNCHANGED <<records, dirty, stopping>>

TakeStop ==
  /\ Get /\ Head(items).kind = "stop"
  /\ stopping' = TRUE
  /\ writer' = IF dirty THEN "rewrite" ELSE "ended"
  /\ UNCHANGED <<records, dirty>>

(* The interval is over and nothing is in the queue.                       *)
IntervalEnds ==
  /\ writer = "get" /\ ~stopping /\ dirty /\ items = <<>>
  /\ writer' = "rewrite" /\ item' = NoItem
  /\ UNCHANGED <<file, unended, records, items, dirty, stopping, closed, checked, closer, emitted,
                 since, flushed, calls, ends, failures>>

Appended(piece) ==
  IF unended THEN [file EXCEPT ![Len(file)] = Append(@, piece)] ELSE Append(file, <<piece>>)

AppendLine ==
  /\ writer = "append"
  /\ file' = Appended(item.upto) /\ unended' = FALSE
  /\ writer' = "get"
  /\ UNCHANGED <<records, items, dirty, stopping, item, closed, checked, closer, emitted, since,
                 flushed, calls, ends, failures>>

AfterRewrite ==
  CASE stopping -> "ended"
    [] item.kind = "flush" -> "answer"
    [] OTHER -> "get"

Rewrite ==
  /\ writer = "rewrite"
  /\ file' = records /\ unended' = FALSE
  /\ dirty' = FALSE
  /\ writer' = AfterRewrite
  /\ UNCHANGED <<records, items, stopping, item, closed, checked, closer, emitted, since, flushed,
                 calls, ends, failures>>

Answer ==
  /\ writer = "answer"
  /\ flushed' = flushed \cup (since + 1)..item.upto
  /\ writer' = "get" /\ item' = NoItem
  /\ UNCHANGED <<file, unended, records, items, dirty, stopping, closed, checked, closer, emitted,
                 since, calls, ends, failures>>

(* What an append leaves that does not come to its end: nothing, a part of *)
(* the line, or the line without its end. A rewrite leaves the old file.   *)
CutShort(lines, open) ==
  \/ lines = file /\ open = unended
  \/ writer = "append" /\ lines = Appended(Torn) /\ open = TRUE
  \/ writer = "append" /\ lines = Appended(item.upto) /\ open = TRUE

CutLines == {file} \cup (IF writer = "append" THEN {Appended(Torn), Appended(item.upto)} ELSE {})

FileFails ==
  /\ writer \in {"append", "rewrite"} /\ failures < MaxFailures
  /\ failures' = failures + 1
  /\ \E lines \in CutLines, open \in BOOLEAN :
       CutShort(lines, open) /\ file' = lines /\ unended' = open
  /\ writer' = "ended"
  /\ UNCHANGED <<records, items, dirty, stopping, item, closed, checked, closer, emitted, since,
                 flushed, calls, ends>>

(* The program ends, whatever it was doing, and is started again.          *)
Restart ==
  /\ ends < MaxEnds
  /\ ends' = ends + 1
  /\ \E lines \in CutLines, open \in BOOLEAN : CutShort(lines, open) /\ Started(lines, open)
  /\ UNCHANGED <<emitted, flushed, calls, failures>>

LogNext ==
  \/ CheckClosed \/ Emit \/ RequestFlush \/ CloseFlushes \/ MarkClosed \/ PutStop
  \/ TakeRecord \/ TakeFlush \/ TakeStop \/ IntervalEnds \/ AppendLine \/ Rewrite \/ Answer
  \/ FileFails \/ Restart

-----------------------------------------------------------------------------
LogSpec == LogInit /\ [][LogNext]_logVars

-----------------------------------------------------------------------------
Pieces(lines) == UNION {{lines[i][k] : k \in 1..Len(lines[i])} : i \in 1..Len(lines)}

(* A line or a piece of a line is older than those after it.               *)
LinesInOrder(lines) ==
  \A i, j \in 1..Len(lines) : \A k \in 1..Len(lines[i]), l \in 1..Len(lines[j]) :
    (i < j \/ (i = j /\ k < l)) /\ lines[i][k] # Torn /\ lines[j][l] # Torn
      => lines[i][k] < lines[j][l]

(* It is there, or newer lines took its place.                             *)
Held(lines, n) ==
  n \in Pieces(lines) \/ (Len(lines) = MaxKept /\ \A p \in Pieces(lines) : p = Torn \/ p > n)

(* flush() is how the rest of the program makes sure of its log: a record  *)
(* it was answered for is in the file, through every later append,         *)
(* rewrite, failure, end and start, until MaxKept newer lines took its     *)
(* place; no line is there twice and none is out of order.                 *)
FlushedIsKept ==
  /\ \A n \in flushed : Held(file, n)
  /\ LinesInOrder(file)
  /\ Len(file) <= MaxKept
=============================================================================
