---------------------------- MODULE AnalysisWindow ----------------------------
(***************************************************************************)
(* Channel power over time in the main window: its requests, the user's    *)
(* edits of which frames are active, and where they are kept: in the       *)
(* window while it runs, in the display state of a session after a         *)
(* calculation, and in a workspace file for the next program.              *)
(* src/esw_dfl/gui.py (MainWindow) and src/esw_dfl/workspace.py.           *)
(*                                                                         *)
(* The window has one thread. Files, previews and calculations are read or *)
(* computed in a pool, and what they return is handled later. A session is *)
(* its file, opened once while the program runs. Requests carry a serial   *)
(* number, of which only "is it still the latest" is ever asked. The       *)
(* controls of the request are its band of frequencies: the others differ  *)
(* only in that no value of theirs is refused.                             *)
(***************************************************************************)
EXTENDS Integers, Sequences, FiniteSets, SequencesExt, FiniteSetsExt, Folds

CONSTANTS
  Waterfalls,   \* recording -> its waterfalls
  First,        \* recording -> the waterfall shown first
  Frames,       \* of every waterfall: 1 .. Frames
  Edits,        \* edits of the user: [value, first, last]
  Entered,      \* upper ends of the band the user enters
  Visible,      \* the band the view shows
  None,
  MaxCommands,  \* bound: commands of the user, and ends of the program
  MaxFailures   \* bound: files, calculations and writes that fail

VARIABLES
  window,    \* what the program keeps, see Blank
  workspace, \* the file: its sessions in order and their states, or None
  moves      \* counts

Sessions == DOMAIN Waterfalls
Keys == {k \in Sessions \X UNION {Waterfalls[s] : s \in Sessions} : k[2] \in Waterfalls[k[1]]}
Auto == [i \in 1 .. Frames |-> "auto"]

Blank ==
  [order     |-> <<>>,                            \* repository
   removed   |-> {},                              \* what was in it
   visible   |-> [s \in Sessions |-> TRUE],
   chosen    |-> First,                           \* active_waterfall_id
   saved     |-> [s \in Sessions |-> None],       \* display_state
   active    |-> None,                            \* active_session_id
   indexed   |-> {},                              \* _spectrogram_indexes
   opening   |-> {},                              \* files being read, with their states
   previews  |-> {},                              \* previews being read
   overrides |-> [k \in Keys |-> Auto],           \* _activity_overrides
   band      |-> <<1, 2>>,                        \* cp_start, cp_stop
   worker    |-> None,                            \* _channel_power_worker
   waiting   |-> None,                            \* _pending_channel_power_request
   due       |-> None,                            \* what a timer of zero will start
   status    |-> "idle",                          \* cp_recalc_status
   table     |-> None,                            \* the request whose figures are shown
   edits     |-> [k \in Keys |-> Auto],           \* what the user made of the frames
   unsaved   |-> {},                              \* keys with edits not in the state
   quiet     |-> FALSE]                           \* the band changed and nothing was said

NoMoves == [commands |-> 0, failures |-> 0]

AnalysisInit == window = Blank /\ workspace = None /\ moves = NoMoves

CurrentOf(w) == IF w.active = None THEN None ELSE <<w.active, w.chosen[w.active]>>
HasIndex(w) == CurrentOf(w) \in w.indexed
Crossed(w) == w.band[2] <= w.band[1]
RequestOf(w) == [key |-> CurrentOf(w), overrides |-> w.overrides[CurrentOf(w)], band |-> w.band]

-----------------------------------------------------------------------------
(* How edits are written down: the runs of frames that are not automatic,  *)
(* frames counted from 0 and the last one included.                        *)

Boundaries(o) == {0, Frames} \cup {i \in 1 .. Frames - 1 : o[i] # o[i + 1]}

(* The runs of _persist_channel_power_state                                *)
Runs(o) ==
  {[first |-> i, last |-> Min({j \in Boundaries(o) : j > i}) - 1, value |-> o[i + 1]] :
     i \in {b \in Boundaries(o) : b < Frames /\ o[b + 1] # "auto"}}

Edited(o, e) == [i \in 1 .. Frames |-> IF i \in e.first .. e.last THEN e.value ELSE o[i]]

(* The runs laid over automatic frames, cut to the recording. Runs from    *)
(* Runs do not overlap, so that their order is of no account.              *)
FromRuns(runs) ==
  FoldSet(LAMBDA r, o : Edited(o, [value |-> r.value, first |-> r.first + 1, last |-> r.last + 1]),
          Auto, runs)

Sorted(b) == IF b[1] <= b[2] THEN b ELSE <<b[2], b[1]>>

-----------------------------------------------------------------------------
(* What the handlers do to the window                                      *)

(* _invalidate_channel_power(): another serial number, so that every       *)
(* request under way is one of the past.                                   *)
Superseded(w) ==
  IF w.worker = None THEN [w EXCEPT !.due = None, !.quiet = FALSE]
  ELSE [w EXCEPT !.worker.cancelled = TRUE, !.worker.latest = FALSE, !.due = None, !.quiet = FALSE]
Invalidated(w) == [Superseded(w) EXCEPT !.waiting = None]
Dirty(w) == [Invalidated(w) EXCEPT !.status = "dirty"]

(* _cp_time_selection_changed()                                            *)
TimeSelectionChanged(w) == IF HasIndex(w) THEN Dirty(w) ELSE w

(* _persist_channel_power_state(). A session has one state: what it held   *)
(* for a waterfall whose preview was not read yet is lost.                 *)
Persisted(w, key) ==
  [w EXCEPT
     !.saved[key[1]] = [waterfall |-> key[2], band |-> w.band, runs |-> Runs(w.overrides[key])],
     !.edits = [k \in Keys |-> IF k[1] = key[1] THEN w.overrides[k] ELSE @[k]],
     !.unsaved = @ \ {key}]

(* _restore_channel_power_state(). An edit that was never saved is lost.   *)
Restored(w, key) ==
  LET state == w.saved[key[1]] IN
  IF state = None \/ state.waterfall # key[2]
  THEN TimeSelectionChanged([w EXCEPT !.band = IF Crossed(w) THEN Blank.band ELSE @])
  ELSE TimeSelectionChanged(
         [w EXCEPT !.band = Sorted(state.band),
                   !.overrides[key] = FromRuns(state.runs),
                   !.edits[key] = IF key \in w.unsaved THEN FromRuns(state.runs) ELSE @,
                   !.unsaved = @ \ {key}])

FirstVisible(w) ==
  LET shown == SelectSeq(w.order, LAMBDA s : w.visible[s])
  IN IF shown = <<>> THEN None ELSE Head(shown)

(* set_active_session()                                                    *)
Activated(w, s) ==
  LET now == [w EXCEPT !.active = IF w.visible[s] THEN s ELSE FirstVisible(w)]
  IN IF HasIndex(now) THEN Restored(now, CurrentOf(now)) ELSE now

(* _load_waterfall_preview(), where there are no values yet                *)
PreviewAsked(w, key) == IF key \in w.indexed THEN w ELSE [w EXCEPT !.previews = @ \cup {key}]

(* load_file(): a file that is open is only activated.                     *)
Loaded(w, s, state) ==
  IF Contains(w.order, s) THEN Activated(w, s)
  ELSE IF s \in w.removed \/ \E o \in w.opening : o.session = s THEN w
  ELSE [w EXCEPT !.opening = @ \cup {[session |-> s, state |-> state]}]

(* _start_channel_power_request()                                          *)
Started(w, request) ==
  IF request.key[1] # w.active THEN w
  ELSE [w EXCEPT !.worker = [request |-> request, phase |-> "runs", cancelled |-> FALSE, latest |-> TRUE],
                 !.status = "running"]

(* run_time_gated_channel_power(); a dialog refuses without an index or    *)
(* with a band whose ends are crossed.                                     *)
Run(w) ==
  IF ~HasIndex(w) \/ Crossed(w) THEN w
  ELSE IF w.worker = None THEN Started(Superseded(w), RequestOf(w))
  ELSE [Superseded(w) EXCEPT !.waiting = RequestOf(w), !.status = "queued"]

-----------------------------------------------------------------------------
(* Commands of the user                                                    *)

Count(kind, bound) == moves[kind] < bound /\ moves' = [moves EXCEPT ![kind] = @ + 1]
Command(next) ==
  /\ Count("commands", MaxCommands) /\ window' = next /\ window' # window
  /\ UNCHANGED workspace

(* _set_manual_override()                                                  *)
Edit(e) ==
  LET key == CurrentOf(window)
      o == Edited(window.overrides[key], e)
  IN /\ HasIndex(window)
     /\ Command(Run([window EXCEPT !.overrides[key] = o, !.edits[key] = o, !.unsaved = @ \cup {key}]))

(* _clear_manual_overrides()                                               *)
ClearEdits ==
  LET key == CurrentOf(window)
  IN /\ HasIndex(window)
     /\ Command(Run([window EXCEPT !.overrides[key] = Auto, !.edits[key] = Auto, !.unsaved = @ \cup {key}]))

(* clear_channel_power_tools(). What the state of the session holds stays  *)
(* there, and comes back with the session.                                 *)
ClearTools ==
  LET key == CurrentOf(window)
      off == [Invalidated(window) EXCEPT !.status = "off", !.table = None]
  IN Command(IF key = None THEN off
       ELSE [off EXCEPT !.overrides[key] = Auto, !.edits[key] = IF HasIndex(window) THEN Auto ELSE @,
                        !.unsaved = IF HasIndex(window) THEN @ \cup {key} ELSE @])

(* The ends of the band: crossed ends are left as they are, and unsaid.    *)
EnterStop(stop) ==
  LET new == [window EXCEPT !.band[2] = stop]
  IN /\ stop # window.band[2]
     /\ Command(IF Crossed(new) THEN [new EXCEPT !.quiet = TRUE] ELSE Dirty(new))

(* The buttons beside them set the band and say nothing.                   *)
UseVisibleRange ==
  /\ window.band # Visible
  /\ Command([window EXCEPT !.band = Visible, !.quiet = TRUE])

Recalculate == Command(Run(window))

(* The entry of the context menu: the worker only.                         *)
Cancel ==
  /\ window.worker # None
  /\ Command([window EXCEPT !.worker.cancelled = TRUE])

OpenFile(s) == Command(Loaded(window, s, None))

(* _tree_selection_changed(), on a waterfall or on anything else           *)
SelectWaterfall(s, f) ==
  /\ Contains(window.order, s) /\ window.visible[s]
  /\ Command(PreviewAsked(Activated([window EXCEPT !.chosen[s] = f], s), <<s, f>>))
SelectSession(s) ==
  /\ Contains(window.order, s) /\ window.visible[s]
  /\ Command(Activated(window, s))

ToggleVisibility(s) ==
  LET new == [window EXCEPT !.visible[s] = ~@]
  IN /\ Contains(window.order, s)
     /\ Command(IF new.visible[s] \/ window.active # s THEN new
          ELSE IF FirstVisible(new) = None THEN [new EXCEPT !.active = None]
          ELSE Activated(new, FirstVisible(new)))

(* A session leaves the repository; its indexes and readers with it.       *)
Without(w, s) ==
  [w EXCEPT !.order = SelectSeq(@, LAMBDA o : o # s), !.removed = @ \cup {s},
            !.indexed = {k \in @ : k[1] # s}]

(* _remove_session(), confirmed                                            *)
RemoveSession(s) ==
  LET mine(request) == request # None /\ request.key[1] = s
      stopped == IF window.worker # None /\ mine(window.worker.request)
                 THEN [window EXCEPT !.worker.cancelled = TRUE] ELSE window
      new == [Without(stopped, s) EXCEPT !.waiting = IF mine(@) THEN None ELSE @]
  IN /\ Contains(window.order, s)
     /\ Command(IF window.active # s THEN new
          ELSE IF new.order = <<>> THEN [new EXCEPT !.active = None]
          ELSE PreviewAsked(Activated(new, Head(new.order)),
                            <<Head(new.order), new.chosen[Head(new.order)]>>))

(* close_active_session() cancels nothing.                                 *)
CloseActive ==
  LET new == Without(window, window.active)
  IN /\ window.active # None
     /\ Command(IF new.order = <<>> THEN [new EXCEPT !.active = None]
          ELSE Activated(new, Last(new.order)))

-----------------------------------------------------------------------------
(* What the pool returns                                                   *)

Later(next) == window' = next /\ UNCHANGED <<workspace, moves>>
Fails(next) == Count("failures", MaxFailures) /\ window' = next /\ UNCHANGED workspace

(* _session_loaded(), with the state a workspace had of it                 *)
SessionLoaded(o) ==
  LET s == o.session
      opened == [window EXCEPT !.opening = @ \ {o}, !.order = Append(@, s), !.visible[s] = TRUE]
      known == IF o.state = None THEN opened
               ELSE [opened EXCEPT !.chosen[s] = o.state.chosen, !.saved[s] = o.state.saved,
                       !.edits = [k \in Keys |-> IF o.state.saved # None /\ k = <<s, o.state.saved.waterfall>>
                                                 THEN o.state.edits ELSE @[k]]]
  IN /\ o \in window.opening
     /\ \/ Later(PreviewAsked(Activated(known, s), <<s, known.chosen[s]>>))
        \/ Fails([window EXCEPT !.opening = @ \ {o}])

(* _preview_loaded(): of a session that is gone, nothing is done.          *)
PreviewLoaded(key) ==
  LET read == [window EXCEPT !.previews = @ \ {key}]
      indexed == [read EXCEPT !.indexed = @ \cup {key}]
  IN /\ key \in window.previews
     /\ \/ Later(IF ~Contains(window.order, key[1]) THEN read
                 ELSE IF window.active # key[1] THEN indexed
                 ELSE Restored(indexed, key))
        \/ Fails(read)

(* The calculation ends; with a result if it was not cancelled.            *)
WorkerEnds ==
  /\ window.worker # None /\ window.worker.phase = "runs"
  /\ \/ Later([window EXCEPT !.worker.phase = IF window.worker.cancelled THEN "ended" ELSE "answered"])
     \/ ~window.worker.cancelled /\ Fails([window EXCEPT !.worker.phase = "ended"])

(* Mutant: an answer is shown when its session is active.                  *)
TimeGatedReadyOfSession ==
  LET request == window.worker.request
      shown == [window EXCEPT !.worker.phase = "ended", !.table = request, !.status = "calculated"]
  IN /\ window.worker # None /\ window.worker.phase = "answered"
     /\ Later(IF request.key[1] = window.active THEN Persisted(shown, request.key)
              ELSE [window EXCEPT !.worker.phase = "ended"])

(* _time_gated_ready()                                                     *)
TimeGatedReady ==
  LET request == window.worker.request
      shown == [window EXCEPT !.worker.phase = "ended", !.table = request, !.status = "calculated"]
  IN /\ window.worker # None /\ window.worker.phase = "answered"
     /\ Later(IF window.worker.latest /\ request.key[1] = window.active
              THEN Persisted(shown, request.key)
              ELSE [window EXCEPT !.worker.phase = "ended"])

(* _channel_power_worker_finished(), and the timer it starts               *)
WorkerFinished ==
  /\ window.worker # None /\ window.worker.phase = "ended"
  /\ Later([window EXCEPT !.worker = None, !.waiting = None,
                          !.due = IF window.waiting # None THEN window.waiting ELSE @])
TimerFires ==
  /\ window.due # None
  /\ Later(Started([window EXCEPT !.due = None], window.due))

-----------------------------------------------------------------------------
(* The workspace file, and the end of the program                          *)

(* What the state of a session says that the user made of its waterfall.   *)
KnownTo(w, s) ==
  LET key == <<s, w.saved[s].waterfall>>
  IN IF key \in w.unsaved THEN FromRuns(w.saved[s].runs) ELSE w.edits[key]

(* save_workspace(): the file is replaced as a whole, or not at all.       *)
SaveWorkspace(written) ==
  LET new == IF window.active = None THEN window ELSE Persisted(window, CurrentOf(window))
      content(s) ==
        [chosen |-> new.chosen[s], saved |-> new.saved[s],
         edits |-> IF new.saved[s] = None THEN Auto ELSE KnownTo(new, s)]
  IN /\ moves.commands < MaxCommands /\ (written \/ moves.failures < MaxFailures)
     /\ moves' = [moves EXCEPT !.commands = @ + 1, !.failures = IF written THEN @ ELSE @ + 1]
     /\ window' = new
     /\ workspace' = IF written THEN [order |-> new.order, of |-> [s \in ToSet(new.order) |-> content(s)]]
                     ELSE workspace

(* open_workspace(): every file of it, in turn. The active session of the  *)
(* file is not asked for.                                                  *)
OpenWorkspace ==
  /\ workspace # None
  /\ Command(FoldLeft(LAMBDA w, s : Loaded(w, s, workspace.of[s]), window, workspace.order))

EndProgram == window # Blank /\ Count("commands", MaxCommands) /\ window' = Blank /\ UNCHANGED workspace

AnalysisNext ==
  \/ \E e \in Edits : Edit(e)
  \/ \E stop \in Entered : EnterStop(stop)
  \/ ClearEdits \/ ClearTools \/ UseVisibleRange \/ Recalculate \/ Cancel \/ CloseActive
  \/ \E s \in Sessions : OpenFile(s) \/ SelectSession(s) \/ ToggleVisibility(s) \/ RemoveSession(s)
  \/ \E k \in Keys : SelectWaterfall(k[1], k[2])
  \/ \E o \in window.opening : SessionLoaded(o)
  \/ \E k \in window.previews : PreviewLoaded(k)
  \/ WorkerEnds \/ TimeGatedReady \/ WorkerFinished \/ TimerFires
  \/ \E written \in BOOLEAN : SaveWorkspace(written)
  \/ OpenWorkspace \/ EndProgram

-----------------------------------------------------------------------------
(* Properties                                                              *)

(* The waterfall in front of the user carries the user's edits, through    *)
(* every switch between sessions and waterfalls, through the run lengths   *)
(* of the state and through a workspace file. Lost, and so excepted in     *)
(* "edits" where it happens, are those no calculation had finished with    *)
(* when their session was selected again, and those of a state replaced    *)
(* before the preview of its waterfall was read.                           *)
EditsAreKept ==
  HasIndex(window) => window.overrides[CurrentOf(window)] = window.edits[CurrentOf(window)]

(* What the window calls calculated was calculated for the waterfall, the  *)
(* edits and the band in front of the user, if the waterfall has an index  *)
(* and the band was not changed by one of the controls that say nothing.   *)
FiguresAreOfNow ==
  window.status = "calculated" /\ HasIndex(window) /\ ~window.quiet => window.table = RequestOf(window)
=============================================================================
