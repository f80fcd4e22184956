----------------------------- MODULE MonitorLive -----------------------------
(***************************************************************************)
(* The live page of sdr_monitor: the service of a receiver, in memory      *)
(* (services/live_session.py) or over libiio (services/native_live.py), the*)
(* presenter whose pool of one thread calls it, the discovery dialogs, the *)
(* page and the shell that makes it when it is first asked for.            *)
(*                                                                         *)
(* A task is an operation of the service.  Its answer is shown through the *)
(* event queue of the GUI thread, but at once if the task ended before the *)
(* GUI thread, which is the one that submits, had attached the callback.   *)
(* Only the thread of the pool touches the service: an operation is a step.*)
(***************************************************************************)
EXTENDS Integers, Sequences, FiniteSets

CONSTANTS Uris,                    \* receivers that may be there
          Readable,                \* those that tell their capabilities
          Nothing,                 \* no receiver, no rate, no snapshot, no answer
          DefaultRates, OwnRates,  \* rates of capabilities not read, and read: sequences
          MaxTasks, MaxWaiting, MaxDialogs \* bounds

VARIABLES
  service,  \* [native, devices, selected, snapshot, held, lost]: fields of the service;
            \* lost (history): the last connection attempt failed
  contexts, \* libiio contexts that are open
  pool,     \* tasks the thread has not run
  gui,      \* [at, opens]: where the GUI thread is in _submit, and whether a page follows
  ended,    \* the answer of the task whose callback is not attached yet
  posted,   \* answers in the event queue
  page,     \* [open, shown, rates, choice]: the page, the snapshot it shows, the list of rates
  dialogs,  \* of each dialog: [open, listed]
  missed,   \* history: the page was not there for the latest answer, or got an older one after it
  asked     \* history: tasks submitted

liveVars == <<service, contexts, pool, gui, ended, posted, page, dialogs, missed, asked>>

Device(u, rates) == [uri |-> u, rates |-> rates]
NoDevice == Device(Nothing, <<>>)

(* What a page shows and what a task answers.                              *)
Receivers == [uri : Uris, rates : Seq(Nat) \ {<<>>}]
Snapshots == [generation : Nat, state : {"DISCONNECTED", "CONNECTED", "RUNNING", "ERROR"},
              device : Receivers \cup {NoDevice}, applied : Nat \cup {Nothing}]
Answers == [kind : {"devices", "snapshot"}, snapshot : Snapshots,
            devices : SUBSET Uris, to : SUBSET (1..MaxDialogs)]

(* There is a rate to choose from, read or not.                            *)
ASSUME LivePageAssumption ==
  /\ Nothing \notin Uris /\ Nothing \notin Nat /\ Nothing \notin Snapshots /\ Nothing \notin Answers
  /\ DefaultRates \in Seq(Nat) \ {<<>>} /\ OwnRates \in Seq(Nat) \ {<<>>}
  /\ MaxDialogs \in Nat

Idle == [at |-> "idle", opens |-> FALSE]

LiveInit ==
  /\ \E native \in BOOLEAN :
       service = [native |-> native, devices |-> {}, selected |-> NoDevice, held |-> Nothing, lost |-> FALSE,
                  snapshot |-> [generation |-> 0, state |-> "DISCONNECTED", device |-> NoDevice,
                                applied |-> Nothing]]
  /\ contexts = {} /\ pool = <<>> /\ gui = Idle /\ ended = Nothing /\ posted = <<>>
  /\ page = [open |-> FALSE, shown |-> Nothing, rates |-> DefaultRates, choice |-> 1]
  /\ dialogs = [d \in 1..MaxDialogs |-> [open |-> FALSE, listed |-> {}]]
  /\ missed = FALSE /\ asked = 0

-----------------------------------------------------------------------------
(* The service: what an operation makes of it, s.                          *)

Failed(s) == [s EXCEPT !.snapshot.state = "ERROR"]

(* min(rates, key=distance): of two as near, the first.                    *)
Nearest(rates, r) ==
  LET Distance(i) == IF rates[i] < r THEN r - rates[i] ELSE rates[i] - r
  IN rates[CHOOSE i \in DOMAIN rates :
             \A j \in DOMAIN rates : Distance(i) < Distance(j) \/ (Distance(i) = Distance(j) /\ i <= j)]

Connected(s, d) ==
  [s EXCEPT !.selected = d,
            !.snapshot = [generation |-> s.snapshot.generation + 1, state |-> "CONNECTED",
                          device |-> d, applied |-> Nothing]]

(* (Gain and backend are brought into the capabilities as the rate is.)    *)
Applied(s, rate) ==
  IF s.selected = NoDevice THEN Failed(s)
  ELSE LET next == Connected(s, s.selected)
       IN [next EXCEPT !.snapshot.applied = Nearest(s.selected.rates, rate)]

Started(s) ==
  IF s.native \/ s.snapshot.applied = Nothing THEN Failed(s) ELSE [s EXCEPT !.snapshot.state = "RUNNING"]

StoppedState(s) == IF s.selected = NoDevice THEN "DISCONNECTED" ELSE "CONNECTED"

(* The descriptor of an address: its capabilities are read through a       *)
(* context of its own, or they are the default ones.                       *)
Descriptor(s, u) ==
  Device(u, IF s.native /\ u \in Readable THEN OwnRates ELSE DefaultRates)

-----------------------------------------------------------------------------
(* The thread of the pool                                                  *)

(* An answer goes to the objects that are connected when it is emitted.    *)
EmitAnswer(answer) ==
  LET heard == answer.kind = "devices" \/ page.open IN
  /\ posted' = IF heard THEN Append(posted, answer) ELSE posted
  /\ missed' = IF answer.kind = "snapshot" THEN ~page.open ELSE missed

Answered(answer) ==
  /\ pool' = Tail(pool)
  /\ IF gui.at = "attach" /\ Len(pool) = 1
       THEN ended' = answer /\ UNCHANGED <<posted, missed>>
       ELSE EmitAnswer(answer) /\ UNCHANGED ended
  /\ UNCHANGED <<gui, page, dialogs, asked>>

Snapshot(s) == [kind |-> "snapshot", snapshot |-> s.snapshot, devices |-> {}, to |-> {}]
OpenDialogs == {d \in DOMAIN dialogs : dialogs[d].open}

(* The scan finds any of the receivers, or it raises: task_failed.         *)
Discover ==
  /\ pool # <<>> /\ Head(pool).op = "discover"
  /\ \/ /\ service.native
        /\ \E found \in SUBSET Uris :
             service' = [service EXCEPT !.devices = {Descriptor(service, u) : u \in found}]
        /\ Answered([kind |-> "devices", snapshot |-> service.snapshot, to |-> OpenDialogs,
                     devices |-> {d.uri : d \in service'.devices}])
     \/ /\ ~service.native /\ UNCHANGED service
        /\ Answered([kind |-> "devices", snapshot |-> service.snapshot, to |-> OpenDialogs,
                     devices |-> {d.uri : d \in service.devices}])
     \/ /\ service.native /\ UNCHANGED <<service, posted, missed, ended, gui, page, dialogs, asked>>
        /\ pool' = Tail(pool)
  /\ UNCHANGED contexts

(* select_device over libiio: the context held is closed, then the new one *)
(* is opened and probed; one of the two may fail.                          *)
Connects(s, d) ==
  \/ /\ service' = [Connected(s, d) EXCEPT !.held = d.uri, !.lost = FALSE]
     /\ contexts' = (contexts \ {s.held}) \cup {d.uri}
  \/ /\ service' = [Failed(s) EXCEPT !.held = Nothing, !.lost = TRUE]
     /\ contexts' = contexts \ {s.held}

(* Mutant: the context held is not closed first.                           *)
SelectsOverHeld(s, u) ==
  LET known == {d \in s.devices : d.uri = u} IN
  IF known = {} THEN service' = Failed(s) /\ UNCHANGED contexts
  ELSE \E d \in known :
         IF s.native THEN /\ service' = [Connected(s, d) EXCEPT !.held = d.uri, !.lost = FALSE]
                          /\ contexts' = contexts \cup {d.uri}
         ELSE service' = Connected(s, d) /\ UNCHANGED contexts

Selects(s, u) ==
  LET known == {d \in s.devices : d.uri = u} IN
  IF known = {} THEN service' = Failed(s) /\ UNCHANGED contexts
  ELSE \E d \in known :
         IF s.native THEN Connects(s, d) ELSE service' = Connected(s, d) /\ UNCHANGED contexts

Select ==
  /\ pool # <<>> /\ Head(pool).op = "select"
  /\ Selects(service, Head(pool).arg) /\ Answered(Snapshot(service'))

(* select_manual_uri: the address replaces what was listed under it.       *)
SelectManual ==
  /\ pool # <<>> /\ Head(pool).op = "manual"
  /\ LET d == Descriptor(service, Head(pool).arg)
         others == {e \in service.devices : e.uri # d.uri}
     IN Selects([service EXCEPT !.devices = others \cup {d}], d.uri)
  /\ Answered(Snapshot(service'))

Apply ==
  /\ pool # <<>> /\ Head(pool).op = "apply"
  /\ service' = Applied(service, Head(pool).arg)
  /\ Answered(Snapshot(service')) /\ UNCHANGED contexts

Start ==
  /\ pool # <<>> /\ Head(pool).op = "start"
  /\ service' = Started(service)
  /\ Answered(Snapshot(service')) /\ UNCHANGED contexts

StopAndWait ==
  /\ pool # <<>> /\ Head(pool).op = "stop"
  /\ service' = [service EXCEPT !.snapshot.state = StoppedState(service), !.held = Nothing]
  /\ contexts' = contexts \ {service.held} /\ Answered(Snapshot(service'))

Runs == Discover \/ Select \/ SelectManual \/ Apply \/ Start \/ StopAndWait

-----------------------------------------------------------------------------
(* The GUI thread                                                          *)

Submit(op, arg, opens) ==
  /\ asked < MaxTasks /\ Len(pool) < MaxWaiting /\ asked' = asked + 1
  /\ pool' = Append(pool, [op |-> op, arg |-> arg])
  /\ gui' = [at |-> "attach", opens |-> opens]
  /\ UNCHANGED <<service, contexts, ended, posted, missed>>

(* _render_snapshot: the list of rates is filled anew, its first is chosen.*)
Shown(snapshot) ==
  [page EXCEPT !.shown = snapshot,
               !.rates = IF snapshot.device = NoDevice THEN @ ELSE snapshot.device.rates,
               !.choice = IF snapshot.device = NoDevice THEN @ ELSE 1]

Show(answer) ==
  IF answer.kind = "snapshot" THEN page' = Shown(answer.snapshot) /\ UNCHANGED dialogs
  ELSE /\ dialogs' = [d \in DOMAIN dialogs |-> IF d \in answer.to /\ dialogs[d].open
                                                 THEN [dialogs[d] EXCEPT !.listed = answer.devices]
                                                 ELSE dialogs[d]]
       /\ UNCHANGED page

Deliver ==
  /\ gui = Idle /\ posted # <<>> /\ Show(Head(posted)) /\ posted' = Tail(posted)
  /\ UNCHANGED <<service, contexts, pool, gui, ended, missed, asked>>

(* add_done_callback: a task that has ended is answered here, before what  *)
(* is still in the event queue.                                            *)
AnswerAtOnce ==
  IF ended # Nothing /\ (ended.kind = "devices" \/ page.open)
    THEN Show(ended) ELSE UNCHANGED <<page, dialogs>>

Attach ==
  /\ gui.at = "attach" /\ AnswerAtOnce
  /\ missed' = IF ended # Nothing /\ ended.kind = "snapshot"
                 THEN ~page.open \/ (\E i \in DOMAIN posted : posted[i].kind = "snapshot")
                 ELSE missed
  /\ ended' = Nothing
  /\ gui' = IF gui.opens THEN [at |-> "page", opens |-> FALSE] ELSE Idle
  /\ UNCHANGED <<service, contexts, pool, posted, asked>>

(* set_active_workspace(LIVE): the page is made the first time.            *)
MakePage ==
  /\ gui.at = "page" \/ (gui = Idle /\ ~page.open)
  /\ gui' = Idle /\ page' = [page EXCEPT !.open = TRUE]
  /\ UNCHANGED <<service, contexts, pool, ended, posted, dialogs, missed, asked>>

(* _show_discovery, from the home page, the live page or again.            *)
ShowDiscovery ==
  /\ gui = Idle
  /\ \E d \in DOMAIN dialogs :
       /\ ~dialogs[d].open /\ dialogs' = [dialogs EXCEPT ![d] = [open |-> TRUE, listed |-> {}]]
  /\ Submit("discover", Nothing, FALSE) /\ UNCHANGED page

Refresh == gui = Idle /\ OpenDialogs # {} /\ Submit("discover", Nothing, FALSE) /\ UNCHANGED <<page, dialogs>>

(* A choice closes the dialog.                                             *)
Choose ==
  /\ gui = Idle
  /\ \E d \in OpenDialogs :
       /\ dialogs' = [dialogs EXCEPT ![d].open = FALSE]
       /\ \/ \E u \in dialogs[d].listed : Submit("select", u, TRUE)
          \/ \E u \in Uris : Submit("manual", u, TRUE)
  /\ UNCHANGED page

ChooseRate ==
  /\ gui = Idle /\ page.open /\ asked < MaxTasks
  /\ \E i \in DOMAIN page.rates : i # page.choice /\ page' = [page EXCEPT !.choice = i]
  /\ UNCHANGED <<service, contexts, pool, gui, ended, posted, dialogs, missed, asked>>

(* _request_transition.  The button is off while the presenter is busy, but*)
(* the space bar does the same at any time.                                *)
Press ==
  /\ gui = Idle /\ page.open /\ page.shown # Nothing /\ page.shown.state \notin {"DISCONNECTED", "ERROR"}
  /\ IF page.shown.state = "RUNNING" THEN Submit("stop", Nothing, FALSE)
     ELSE IF page.shown.applied = Nothing THEN Submit("apply", page.rates[page.choice], FALSE)
     ELSE Submit("start", Nothing, FALSE)
  /\ UNCHANGED <<page, dialogs>>

LiveNext ==
  \/ Runs \/ Deliver \/ Attach \/ MakePage
  \/ ShowDiscovery \/ Refresh \/ Choose \/ ChooseRate \/ Press

LiveSpec == LiveInit /\ [][LiveNext]_liveVars

-----------------------------------------------------------------------------
(* The context of a receiver is held by nothing but the service, and it is *)
(* the one of the receiver selected.                                       *)
ContextIsHeld ==
  /\ contexts \subseteq {service.held}
  /\ service.held # Nothing => (service.held \in contexts /\ service.held = service.selected.uri)
  /\ (service.native /\ service.snapshot.state = "CONNECTED" /\ ~service.lost) => service.held # Nothing

(* When nothing is under way, the page shows what the service is in, and   *)
(* offers the rates of its receiver, unless it missed the last answer.     *)
AtRest == pool = <<>> /\ posted = <<>> /\ gui = Idle
ShownIsTrue ==
  (AtRest /\ page.open /\ ~missed /\ page.shown # Nothing) =>
    /\ page.shown = service.snapshot
    /\ service.snapshot.device # NoDevice => page.rates = service.selected.rates

(* What was applied is a rate of the receiver the snapshot names.          *)
AppliedFits ==
  LET rates == service.snapshot.device.rates
  IN service.snapshot.applied # Nothing => \E i \in DOMAIN rates : service.snapshot.applied = rates[i]

LiveIsTold == ContextIsHeld /\ ShownIsTrue /\ AppliedFits

=============================================================================
