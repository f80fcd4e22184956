-------------------------- MODULE TimeGatedRequests --------------------------
(***************************************************************************)
(* Channel power over time, as the offline workspace asks for it: one       *)
(* worker at a time, the newest request waiting for it, and sessions that   *)
(* are loaded, switched, hidden and closed meanwhile                        *)
(* (OfflineDflPresenter, ui/offline_presenter.py, and TaskWorker).          *)
(***************************************************************************)
EXTENDS Integers, Sequences, FiniteSets, TLC

CONSTANTS Sources,       \* the recordings; each is opened at most once
          None,          \* no session, no request
          MaxRequests,   \* bound: requests accepted
          MaxSwitches    \* bound: sessions activated, hidden, closed or removed

VARIABLES
  opened,     \* the recordings loaded so far
  sessions,   \* the repository: the sessions, in the order they were loaded
  hidden,     \* the sessions that are not visible
  active,     \* active_session_id
  generation, \* _channel_power_generation
  pending,    \* _pending_channel_power_request: [session, generation], or None
  worker,     \* _channel_power_worker, or 0; a worker is named by its generation
  owner,      \* _channel_power_session_id
  results,    \* _channel_power_results: per source, the generation answered, or 0
  tasks,      \* generation -> [session, at, cancelled]: the workers started
  posts,      \* what the workers have signalled to the GUI thread
  timers,     \* the requests of zero timers that have not fired
  asked,      \* history: generation -> session of the requests accepted
  ended,      \* history: those answered with an error, or too late for their session
  switches, closed

requestVars == <<opened, sessions, hidden, active, generation, pending, worker, owner, results,
                 tasks, posts, timers, asked, ended, switches, closed>>
sessionVars == <<opened, sessions, hidden, active>>
powerVars == <<generation, pending, worker, owner, tasks>>

AtWork == {g \in DOMAIN tasks : tasks[g].at # "done"}
Cancelled(t, g) == IF g = 0 THEN t ELSE [t EXCEPT ![g].cancelled = TRUE]

RequestsInit ==
  /\ opened = {} /\ sessions = <<>> /\ hidden = {} /\ active = None
  /\ generation = 0 /\ pending = None /\ worker = 0 /\ owner = None
  /\ results = [s \in Sources |-> 0]
  /\ tasks = <<>> /\ posts = <<>> /\ timers = {}
  /\ asked = <<>> /\ ended = {} /\ switches = 0 /\ closed = FALSE

-----------------------------------------------------------------------------
(* _start_time_gated_request: a request that is not the newest, or of      *)
(* another session than the active one, is dropped.                        *)
StartPower(r) ==
  IF r.generation # generation' \/ r.session # active'
  THEN UNCHANGED <<worker, owner, tasks>>
  ELSE /\ worker' = r.generation /\ owner' = r.session
       /\ tasks' = (r.generation :> [session |-> r.session, at |-> "queued", cancelled |-> FALSE])
                   @@ tasks

(* request_time_gated_power                                                *)
RequestPower ==
  /\ ~closed /\ active # None /\ Cardinality(DOMAIN asked) < MaxRequests
  /\ generation' = generation + 1 /\ UNCHANGED sessionVars
  /\ asked' = (generation' :> active) @@ asked
  /\ LET r == [session |-> active, generation |-> generation']
     IN  IF worker # 0
         THEN /\ tasks' = Cancelled(tasks, worker) /\ pending' = r
              /\ UNCHANGED <<worker, owner>>
         ELSE StartPower(r) /\ UNCHANGED pending
  /\ UNCHANGED <<results, posts, timers, ended, switches, closed>>

(* cancel_time_gated_power                                                 *)
CancelPower ==
  /\ generation' = generation + 1 /\ pending' = None
  /\ tasks' = Cancelled(tasks, worker) /\ UNCHANGED <<worker, owner>>

CancelRequest ==
  /\ ~closed /\ switches < MaxSwitches /\ switches' = switches + 1
  /\ CancelPower
  /\ UNCHANGED <<sessionVars, results, posts, timers, asked, ended, closed>>

-----------------------------------------------------------------------------
(* TaskWorker.run: cancelled before it began, or it computes and then looks *)
(* at its cancel event; its signals wait for the GUI thread.               *)
RunTask(g) ==
  /\ tasks[g].at = "queued"
  /\ IF tasks[g].cancelled
     THEN /\ tasks' = [tasks EXCEPT ![g].at = "done"]
          /\ posts' = Append(posts, [kind |-> "finished", task |-> g])
     ELSE /\ tasks' = [tasks EXCEPT ![g].at = "running"] /\ UNCHANGED posts
  /\ UNCHANGED <<sessionVars, generation, pending, worker, owner, results, timers, asked,
                 ended, switches, closed>>
EndTask(g) ==
  /\ tasks[g].at = "running" /\ tasks' = [tasks EXCEPT ![g].at = "done"]
  /\ \E outcome \in {"result", "error"} :
       posts' = IF tasks[g].cancelled THEN Append(posts, [kind |-> "finished", task |-> g])
                ELSE posts \o <<[kind |-> outcome, task |-> g], [kind |-> "finished", task |-> g]>>
  /\ UNCHANGED <<sessionVars, generation, pending, worker, owner, results, timers, asked,
                 ended, switches, closed>>

(* _time_gated_ready: an answer that is not to the newest request, or of a *)
(* session that is not active, is discarded.                               *)
PowerReady(g) ==
  results' = IF g = generation /\ tasks[g].session = active
                /\ \E k \in DOMAIN sessions : sessions[k] = active
             THEN [results EXCEPT ![tasks[g].session] = g] ELSE results

(* Mutant: the request that waited is forgotten with its predecessor.      *)
PowerForgetsPending(g) ==
  /\ pending' = IF g = worker THEN None ELSE pending
  /\ worker' = IF g = worker THEN 0 ELSE worker
  /\ owner' = IF g = worker THEN None ELSE owner
  /\ UNCHANGED timers

(* _time_gated_worker_finished: the waiting request starts from a timer.   *)
PowerFinished(g) ==
  IF g # worker THEN UNCHANGED <<worker, owner, pending, timers>>
  ELSE /\ worker' = 0 /\ owner' = None /\ pending' = None
       /\ timers' = IF pending = None THEN timers ELSE timers \cup {pending}

DeliverPower ==
  /\ posts # <<>> /\ posts' = Tail(posts)
  /\ LET p == Head(posts)
     IN  /\ IF p.kind = "finished" THEN PowerFinished(p.task)
            ELSE UNCHANGED <<worker, owner, pending, timers>>
         /\ IF p.kind = "result" THEN PowerReady(p.task) ELSE UNCHANGED results
         /\ ended' = IF p.kind = "error" \/ (p.kind = "result" /\ tasks[p.task].session # active)
                     THEN ended \cup {p.task} ELSE ended
  /\ UNCHANGED <<sessionVars, generation, tasks, asked, switches, closed>>

FireTimer ==
  \E r \in timers :
    /\ timers' = timers \ {r} /\ UNCHANGED <<sessionVars, generation, pending>> /\ StartPower(r)
    /\ ended' = IF r.session # active THEN ended \cup {r.generation} ELSE ended
    /\ UNCHANGED <<results, posts, asked, switches, closed>>

-----------------------------------------------------------------------------
(* set_active_session, from the session active0: another one cancels the   *)
(* worker; for one that is hidden the first visible session is taken.      *)
Visible(list, h) == SelectSeq(list, LAMBDA s : s \notin h)
FirstOf(list) == IF list = <<>> THEN None ELSE list[1]
Selected(active0, s, list, h) ==
  /\ active' = IF s \in h THEN FirstOf(Visible(list, h)) ELSE s
  /\ IF active0 # s /\ worker # 0 THEN CancelPower ELSE UNCHANGED powerVars

BySwitch == ~closed /\ switches < MaxSwitches /\ switches' = switches + 1 /\ UNCHANGED opened
Elsewhere == UNCHANGED <<results, posts, timers, asked, ended, closed>>

(* _session_loaded has made the session active before it activates it.     *)
OpenRecording(s) ==
  /\ ~closed /\ s \notin opened /\ opened' = opened \cup {s}
  /\ sessions' = Append(sessions, s) /\ UNCHANGED hidden
  /\ Selected(s, s, sessions', hidden)
  /\ UNCHANGED switches /\ Elsewhere

SelectSession(s) ==
  /\ BySwitch /\ \E k \in DOMAIN sessions : sessions[k] = s
  /\ Selected(active, s, sessions, hidden)
  /\ UNCHANGED <<sessions, hidden>> /\ Elsewhere

(* toggle_session_visibility: the active session, once hidden, gives way   *)
(* to the first visible one.                                               *)
ToggleVisibility(s) ==
  /\ BySwitch /\ \E k \in DOMAIN sessions : sessions[k] = s
  /\ hidden' = IF s \in hidden THEN hidden \ {s} ELSE hidden \cup {s}
  /\ UNCHANGED sessions
  /\ LET other == FirstOf(Visible(sessions, hidden'))
     IN  IF s \in hidden \/ active # s THEN UNCHANGED <<active, powerVars>>
         ELSE IF other = None THEN active' = None /\ UNCHANGED powerVars
         ELSE Selected(active, other, sessions, hidden')
  /\ Elsewhere

Others(s) == SelectSeq(sessions, LAMBDA t : t # s)

(* close_active_session: its own worker is cancelled; the last session     *)
(* left is active before it is activated.                                  *)
CloseSelected ==
  /\ BySwitch /\ active # None
  /\ sessions' = Others(active) /\ UNCHANGED hidden
  /\ LET left == IF sessions' = <<>> THEN None ELSE sessions'[Len(sessions')]
     IN  active' = IF left \in hidden THEN FirstOf(Visible(sessions', hidden)) ELSE left
  /\ IF owner = active THEN CancelPower ELSE UNCHANGED powerVars
  /\ Elsewhere

(* remove_session: the worker is cancelled and a request that waits is     *)
(* taken back, without a new generation.                                   *)
DropRecording(s) ==
  /\ BySwitch /\ \E k \in DOMAIN sessions : sessions[k] = s
  /\ sessions' = Others(s) /\ UNCHANGED <<hidden, generation, worker>>
  /\ LET own == worker # 0 /\ owner = s
     IN  /\ tasks' = IF own THEN Cancelled(tasks, worker) ELSE tasks
         /\ owner' = IF own THEN None ELSE owner
  /\ pending' = IF pending # None /\ pending.session = s THEN None ELSE pending
  /\ active' = IF active # s THEN active
               ELSE IF FirstOf(sessions') \in hidden THEN FirstOf(Visible(sessions', hidden))
               ELSE FirstOf(sessions')
  /\ Elsewhere

(* close                                                                   *)
CloseWorkspace ==
  /\ ~closed /\ closed' = TRUE
  /\ generation' = generation + 1 /\ pending' = None /\ UNCHANGED <<worker, owner>>
  /\ tasks' = [g \in DOMAIN tasks |-> [tasks[g] EXCEPT !.cancelled = TRUE]]
  /\ UNCHANGED <<sessionVars, results, posts, timers, asked, ended, switches>>

RequestsNext ==
  \/ RequestPower \/ CancelRequest \/ DeliverPower \/ FireTimer \/ CloseSelected \/ CloseWorkspace
  \/ \E s \in Sources : OpenRecording(s) \/ SelectSession(s) \/ ToggleVisibility(s) \/ DropRecording(s)
  \/ \E g \in DOMAIN tasks : RunTask(g) \/ EndTask(g)

RequestsFairness ==
  /\ WF_requestVars(DeliverPower) /\ WF_requestVars(FireTimer)
  /\ WF_requestVars(\E g \in DOMAIN tasks : RunTask(g) \/ EndTask(g))

-----------------------------------------------------------------------------
(* Requests accepted while sessions come and go: at most one worker is at  *)
(* work, an older answer never takes the place of a newer one, and the     *)
(* newest request does not stay unanswered, unless it failed or its        *)
(* session was not the active one when its turn or its answer came.        *)
OneWorker == Cardinality(AtWork) <= 1
AnswersAreNewer == \A s \in Sources : results[s] <= results'[s]
Owed ==
  /\ generation \in DOMAIN asked /\ generation \notin ended
  /\ active = asked[generation] /\ results[active] # generation
RequestsAreServed == []OneWorker /\ [][AnswersAreNewer]_requestVars /\ []<>~Owed
=============================================================================
