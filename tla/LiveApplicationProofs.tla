------------------------ MODULE LiveApplicationProofs ------------------------
(***************************************************************************)
(* In the AppShell two workers hold the device at once only if a close()   *)
(* gave up waiting, and in either shell a session is shown only what is    *)
(* its own: for every number of controllers, starts, frames, sources and   *)
(* rows, and every capacity of the queue of updates.                       *)
(*                                                                         *)
(* A worker step is one change of its controller (WorkerChange): it never  *)
(* takes the device, never opens what is closed, and publishes updates of  *)
(* its own generation and configuration.  The device is taken by a start   *)
(* of the controller that the presenter owns, the last one created; the    *)
(* ones before it are closed, and a worker that is alive in a closed       *)
(* controller is one that the close() before it left behind.               *)
(*                                                                         *)
(* The last part is about the diagnostics of sdr_monitor, another program: *)
(* the two extended modules share no variable.                             *)
(***************************************************************************)
EXTENDS LiveApplication, MonitorDiagnostics, FiniteSetTheorems, TLAPS

Places == {"none", "configure", "start", "loop", "poll", "shutdown", "final", "exiting"}
Holding == {"configure", "start", "loop", "poll", "shutdown"}

UpdateType ==
  [by : Nat, generation : Nat, state : States, frame : Nat, applied : Nat, error : BOOLEAN]

ControllerType ==
  [state : States, generation : Nat, closed : BOOLEAN, stop : BOOLEAN, applied : Nat,
   updates : Seq(UpdateType), worker : Places, open : BOOLEAN, error : BOOLEAN, frames : Nat]

CallPlaces == {"stopping", "joining", "closing", "starting"}
GuiType ==
  [at : {"idle"} \cup CallPlaces, ctl : Nat,
   after : {"none", "return", "forget", "disconnect", "restart", "reconnect"}]

SnapshotType ==
  [of : Nat, generation : Nat, asOf : Nat, state : States, rows : [requested : Nat, applied : Nat],
   error : BOOLEAN, stale : BOOLEAN, cal : Nat]

AdapterType ==
  [ctl : Nat, accepted : Nat, rows : Seq(Nat \X Nat), latest : (Nat \X Nat) \cup {<<>>}]

TypeOK ==
  /\ ctl \in Seq(ControllerType)
  /\ gui \in GuiType
  /\ gui.at # "idle" => gui.ctl \in DOMAIN ctl
  /\ own \in Nat /\ requested \in Nat /\ expected \in Nat
  /\ shown \in SnapshotType
  /\ live \in [DOMAIN live -> AdapterType]
  /\ \A s \in DOMAIN live : live[s].ctl \in DOMAIN ctl
  /\ shell \in {"AppShell", "MainWindow"}

(* What a controller applied and publishes is of its own configuration and *)
(* of a generation that it had.                                            *)
OfController(c, u) ==
  u.by = c /\ u.applied \in {0, c} /\ u.generation <= ctl[c].generation
UpdatesAreOwn ==
  \A c \in DOMAIN ctl :
    /\ ctl[c].applied \in {0, c}
    /\ \A i \in DOMAIN ctl[c].updates : OfController(c, ctl[c].updates[i])

(* Only a worker holds the device.                                         *)
WorkersHold == \A c \in DOMAIN ctl : ctl[c].open => ctl[c].worker \in Holding

(* The AppShell owns the last controller; the others are closed, and their *)
(* workers have ended or were left behind.  The generation that the        *)
(* presenter expects is the one its controller has.                        *)
Closing == gui.at = "closing"
OwnIsLast ==
  /\ own # 0 => own = Len(ctl) /\ own \in DOMAIN ctl /\ requested = own /\ ~ctl[own].closed
  /\ own # 0 => expected = ctl[own].generation
  /\ gui.at # "idle" => own # 0 /\ gui.ctl = own
  /\ gui.after # "forget"
OthersAreClosed ==
  /\ \A c \in DOMAIN ctl : c # own => ctl[c].closed
  /\ \A c \in DOMAIN ctl : ctl[c].closed /\ ctl[c].worker # "none" => c \in late
  /\ Closing /\ ctl[own].worker # "none" => own \in late
InAppShellOnly == shell = "AppShell" => OwnIsLast /\ OthersAreClosed
InMainWindowOnly == shell = "MainWindow" => own = 0 /\ shown = IdleSnapshot

IInv ==
  /\ TypeOK /\ UpdatesAreOwn /\ WorkersHold /\ InAppShellOnly /\ InMainWindowOnly
  /\ SnapshotIsOwn /\ WaterfallIsOwn

-----------------------------------------------------------------------------
(* What a worker or a stop makes of its controller, r: it takes no device, *)
(* opens nothing, and publishes what is its own.                           *)
OwnUpdates(c, r) ==
  \A i \in DOMAIN r.updates :
    \/ \E j \in DOMAIN ctl[c].updates : r.updates[i] = ctl[c].updates[j]
    \/ /\ r.updates[i].by = c /\ r.updates[i].generation = ctl[c].generation
       /\ r.updates[i].applied \in {ctl[c].applied, c}

IsOwnChange(c, r) ==
  /\ r \in ControllerType
  /\ r.generation = ctl[c].generation /\ r.closed = ctl[c].closed /\ r.stop = ctl[c].stop
  /\ r.applied \in {ctl[c].applied, c}
  /\ r.worker # "none" => ctl[c].worker # "none"
  /\ r.open => ctl[c].open /\ r.worker \in Holding
  /\ OwnUpdates(c, r)

OwnChange(c) == \E r : IsOwnChange(c, r) /\ ctl' = [ctl EXCEPT ![c] = r]

LEMMA FieldsOfController ==
  ASSUME NEW r \in ControllerType
  PROVE  /\ r.state \in States /\ r.generation \in Nat /\ r.closed \in BOOLEAN
         /\ r.stop \in BOOLEAN /\ r.applied \in Nat /\ r.updates \in Seq(UpdateType)
         /\ r.worker \in Places /\ r.open \in BOOLEAN /\ r.error \in BOOLEAN /\ r.frames \in Nat
BY DEF ControllerType

LEMMA FieldsOfUpdate ==
  ASSUME NEW u \in UpdateType
  PROVE  /\ u.generation \in Nat /\ u.state \in States /\ u.frame \in Nat
         /\ u.applied \in Nat /\ u.error \in BOOLEAN /\ u.by \in Nat
BY DEF UpdateType

LEMMA ControllersHaveTypes ==
  ASSUME TypeOK, NEW c \in DOMAIN ctl
  PROVE  /\ ctl[c] \in ControllerType /\ c \in Nat /\ c \in 1 .. Len(ctl)
         /\ DOMAIN ctl = 1 .. Len(ctl) /\ Len(ctl) \in Nat
BY DEF TypeOK

(* A queue of updates that one more came to.                               *)
LEMMA Publishing ==
  ASSUME TypeOK, NEW c \in DOMAIN ctl, NEW u \in UpdateType
  PROVE  /\ Published(c, u) \in Seq(UpdateType)
         /\ \A i \in DOMAIN Published(c, u) :
              \/ Published(c, u)[i] = u
              \/ \E j \in DOMAIN ctl[c].updates : Published(c, u)[i] = ctl[c].updates[j]
<1>. DEFINE q == ctl[c].updates
<1>1. q \in Seq(UpdateType) BY ControllersHaveTypes, FieldsOfController
<1>2. Published(c, u) \in {<<>>, Append(q, u), Tail(Append(q, u))}
  BY DEF Published
<1>. HIDE DEF q
<1>3. Append(q, u) \in Seq(UpdateType) /\ Len(Append(q, u)) = Len(q) + 1 /\ Len(q) \in Nat
      /\ \A i \in 1 .. Len(q) + 1 : Append(q, u)[i] = IF i <= Len(q) THEN q[i] ELSE u
  BY <1>1
<1>4. /\ Tail(Append(q, u)) \in Seq(UpdateType) /\ Len(Tail(Append(q, u))) = Len(q)
      /\ \A i \in 1 .. Len(q) : Tail(Append(q, u))[i] = Append(q, u)[i + 1]
  BY <1>3
<1>5. DOMAIN q = 1 .. Len(q) BY <1>1
<1>6. CASE Published(c, u) = <<>> BY <1>6
<1>7. CASE Published(c, u) = Append(q, u) BY <1>3, <1>5, <1>7 DEF q
<1>8. CASE Published(c, u) = Tail(Append(q, u))
  <2>1. ASSUME NEW i \in 1 .. Len(q)
        PROVE  Tail(Append(q, u))[i] = u \/ \E j \in DOMAIN q : Tail(Append(q, u))[i] = q[j]
    <3>1. CASE i + 1 <= Len(q) BY <1>3, <1>4, <1>5, <3>1
    <3>2. CASE i + 1 > Len(q) BY <1>3, <1>4, <3>2
    <3>. QED BY <1>3, <3>1, <3>2
  <2>2. DOMAIN Tail(Append(q, u)) = 1 .. Len(q) BY <1>4
  <2>. QED BY <1>4, <1>8, <2>1, <2>2 DEF q
<1>. QED BY <1>2, <1>6, <1>7, <1>8

(* The updates that a controller publishes of itself.                      *)
LEMMA UpdateOf ==
  ASSUME TypeOK, NEW c \in DOMAIN ctl, NEW s \in States, NEW frame \in Nat
  PROVE  /\ Update(c, s, frame) \in UpdateType
         /\ Update(c, s, frame).generation = ctl[c].generation
         /\ Update(c, s, frame).applied = ctl[c].applied /\ Update(c, s, frame).by = c
<1>1. c \in Nat /\ ctl[c].generation \in Nat /\ ctl[c].applied \in Nat /\ ctl[c].error \in BOOLEAN
  BY ControllersHaveTypes, FieldsOfController
<1>. QED BY <1>1 DEF Update, UpdateType

LEMMA UpdateOfChange ==
  ASSUME TypeOK, NEW c \in DOMAIN ctl, NEW u \in UpdateType
  PROVE  /\ [u EXCEPT !.error = TRUE] \in UpdateType
         /\ [u EXCEPT !.error = TRUE].generation = u.generation
         /\ [u EXCEPT !.error = TRUE].applied = u.applied /\ [u EXCEPT !.error = TRUE].by = u.by
         /\ [u EXCEPT !.applied = c] \in UpdateType
         /\ [u EXCEPT !.applied = c].generation = u.generation
         /\ [u EXCEPT !.applied = c].applied = c /\ [u EXCEPT !.applied = c].by = u.by
<1>1. c \in Nat BY ControllersHaveTypes
<1>. QED BY <1>1 DEF UpdateType

(* A publication of such an update is of the controller's own.             *)
LEMMA PublishingOwn ==
  ASSUME TypeOK, NEW c \in DOMAIN ctl, NEW u \in UpdateType, NEW r,
         u.by = c, u.generation = ctl[c].generation, u.applied \in {ctl[c].applied, c},
         r.updates = Published(c, u)
  PROVE  OwnUpdates(c, r)
<1>1. \A i \in DOMAIN r.updates :
        r.updates[i] = u \/ \E j \in DOMAIN ctl[c].updates : r.updates[i] = ctl[c].updates[j]
  BY Publishing
<1>. QED BY <1>1 DEF OwnUpdates

LEMMA KeepingOwn ==
  ASSUME NEW c, NEW r, r.updates = ctl[c].updates PROVE OwnUpdates(c, r)
BY DEF OwnUpdates

-----------------------------------------------------------------------------
(* Each step of a worker is such a change.                                 *)
LEMMA GoesOn ==
  ASSUME TypeOK, NEW c \in DOMAIN ctl, NEW w \in Places, Goes(c, w),
         ctl[c].worker # "none", ctl[c].open => w \in Holding
  PROVE  OwnChange(c)
<1>. DEFINE p == ctl[c]  r == [p EXCEPT !.worker = w]
<1>1. p \in ControllerType BY ControllersHaveTypes
<1>2. ctl' = [ctl EXCEPT ![c] = r] BY DEF Goes, TypeOK
<1>3. \A q \in ControllerType : [q EXCEPT !.worker = w] \in ControllerType
  BY DEF ControllerType
<1>4. r \in ControllerType BY <1>1, <1>3
<1>5. /\ r.generation = p.generation /\ r.closed = p.closed /\ r.stop = p.stop
      /\ r.applied = p.applied /\ r.worker = w /\ r.open = p.open /\ r.updates = p.updates
  BY <1>1 DEF ControllerType
<1>6. OwnUpdates(c, r) BY <1>5, KeepingOwn
<1>7. IsOwnChange(c, r) BY <1>4, <1>5, <1>6 DEF IsOwnChange
<1>. QED BY <1>2, <1>7 DEF OwnChange

LEMMA RaisesChanges ==
  ASSUME TypeOK, NEW c \in DOMAIN ctl, Raises(c), ctl[c].worker # "none"
  PROVE  OwnChange(c)
<1>. DEFINE p == ctl[c]
            u == [Update(c, "error", 0) EXCEPT !.error = TRUE]
            r == [p EXCEPT !.error = TRUE, !.state = "error", !.worker = "shutdown",
                           !.updates = Published(c, u)]
<1>1. p \in ControllerType BY ControllersHaveTypes
<1>2. ctl' = [ctl EXCEPT ![c] = r] BY DEF Raises, TypeOK
<1>3. u \in UpdateType /\ u.by = c /\ u.generation = p.generation /\ u.applied = p.applied
  <2>1. "error" \in States BY DEF States
  <2>. DEFINE v == Update(c, "error", 0)
  <2>2. v \in UpdateType /\ v.by = c /\ v.generation = p.generation /\ v.applied = p.applied
    BY <2>1, UpdateOf
  <2>. HIDE DEF v
  <2>3. [v EXCEPT !.error = TRUE] \in UpdateType
        /\ [v EXCEPT !.error = TRUE].generation = p.generation
        /\ [v EXCEPT !.error = TRUE].applied = p.applied /\ [v EXCEPT !.error = TRUE].by = c
    BY <2>2, UpdateOfChange
  <2>. QED BY <2>3 DEF v
<1>. HIDE DEF u
<1>4. Published(c, u) \in Seq(UpdateType) BY <1>3, Publishing
<1>5. \A q \in ControllerType, us \in Seq(UpdateType) :
        LET x == [q EXCEPT !.error = TRUE, !.state = "error", !.worker = "shutdown", !.updates = us]
        IN /\ x \in ControllerType
           /\ x.generation = q.generation /\ x.closed = q.closed /\ x.stop = q.stop
           /\ x.applied = q.applied /\ x.worker = "shutdown" /\ x.open = q.open /\ x.updates = us
  BY DEF ControllerType, States, Places
<1>6. /\ r \in ControllerType
      /\ r.generation = p.generation /\ r.closed = p.closed /\ r.stop = p.stop
      /\ r.applied = p.applied /\ r.worker = "shutdown" /\ r.open = p.open
      /\ r.updates = Published(c, u)
  BY <1>1, <1>4, <1>5
<1>7. OwnUpdates(c, r) BY <1>3, <1>6, PublishingOwn
<1>8. IsOwnChange(c, r) BY <1>6, <1>7 DEF IsOwnChange, Holding
<1>. QED BY <1>2, <1>8 DEF OwnChange

LEMMA ConfigureChanges ==
  ASSUME TypeOK, NEW c \in DOMAIN ctl, Configure(c) PROVE OwnChange(c)
<1>. DEFINE p == ctl[c]
            u == [Update(c, "running", 0) EXCEPT !.applied = c]
            r == [p EXCEPT !.applied = c, !.state = "running", !.worker = "start",
                           !.updates = Published(c, u)]
<1>1. p \in ControllerType /\ c \in Nat /\ p.worker # "none"
  BY ControllersHaveTypes DEF Configure
<1>2. CASE Raises(c) BY <1>1, <1>2, RaisesChanges
<1>3. CASE ctl' = [ctl EXCEPT
             ![c].applied = c, ![c].state = "running", ![c].worker = "start",
             ![c].updates = Published(c, [Update(c, "running", 0) EXCEPT !.applied = c])]
  <2>1. ctl' = [ctl EXCEPT ![c] = r] BY <1>3 DEF TypeOK
  <2>2. u \in UpdateType /\ u.by = c /\ u.generation = p.generation /\ u.applied = c
    <3>1. "running" \in States BY DEF States
    <3>. DEFINE v == Update(c, "running", 0)
    <3>2. v \in UpdateType /\ v.by = c /\ v.generation = p.generation
      BY <3>1, UpdateOf
    <3>. HIDE DEF v
    <3>3. [v EXCEPT !.applied = c] \in UpdateType
          /\ [v EXCEPT !.applied = c].generation = p.generation
          /\ [v EXCEPT !.applied = c].applied = c /\ [v EXCEPT !.applied = c].by = c
      BY <3>2, UpdateOfChange
    <3>. QED BY <3>3 DEF v
  <2>. HIDE DEF u
  <2>3. Published(c, u) \in Seq(UpdateType) BY <2>2, Publishing
  <2>4. \A q \in ControllerType, us \in Seq(UpdateType) :
          LET x == [q EXCEPT !.applied = c, !.state = "running", !.worker = "start", !.updates = us]
          IN /\ x \in ControllerType
             /\ x.generation = q.generation /\ x.closed = q.closed /\ x.stop = q.stop
             /\ x.applied = c /\ x.worker = "start" /\ x.open = q.open /\ x.updates = us
    BY <1>1 DEF ControllerType, States, Places
  <2>5. /\ r \in ControllerType
        /\ r.generation = p.generation /\ r.closed = p.closed /\ r.stop = p.stop
        /\ r.applied = c /\ r.worker = "start" /\ r.open = p.open
        /\ r.updates = Published(c, u)
    BY <1>1, <2>3, <2>4
  <2>6. OwnUpdates(c, r) BY <2>2, <2>5, PublishingOwn
  <2>7. IsOwnChange(c, r) BY <1>1, <2>5, <2>6 DEF IsOwnChange, Holding
  <2>. QED BY <2>1, <2>7 DEF OwnChange
<1>. QED BY <1>2, <1>3 DEF Configure

LEMMA PolledChanges ==
  ASSUME TypeOK, NEW c \in DOMAIN ctl, NEW frame \in {0, 1}, Polled(c, frame),
         ctl[c].worker # "none"
  PROVE  OwnChange(c)
<1>. DEFINE p == ctl[c]
            n == frame * (ctl[c].frames + 1)
            u == Update(c, "running", n)
            k == ctl[c].frames + frame
            r == [p EXCEPT !.worker = "loop", !.frames = k, !.updates = Published(c, u)]
<1>1. p \in ControllerType /\ p.frames \in Nat
  BY ControllersHaveTypes, FieldsOfController
<1>2. ctl' = [ctl EXCEPT ![c] = r] BY DEF Polled, TypeOK
<1>3. n \in Nat /\ k \in Nat
  <2>1. CASE frame = 0 BY <1>1, <2>1
  <2>2. CASE frame = 1 BY <1>1, <2>2
  <2>. QED BY <2>1, <2>2
<1>. HIDE DEF n, k
<1>4. u \in UpdateType /\ u.by = c /\ u.generation = p.generation /\ u.applied = p.applied
  <2>1. "running" \in States BY DEF States
  <2>. QED BY <1>3, <2>1, UpdateOf
<1>. HIDE DEF u
<1>5. Published(c, u) \in Seq(UpdateType) BY <1>4, Publishing
<1>6. \A q \in ControllerType, us \in Seq(UpdateType) :
        LET x == [q EXCEPT !.worker = "loop", !.frames = k, !.updates = us]
        IN /\ x \in ControllerType
           /\ x.generation = q.generation /\ x.closed = q.closed /\ x.stop = q.stop
           /\ x.applied = q.applied /\ x.worker = "loop" /\ x.open = q.open /\ x.updates = us
  BY <1>3 DEF ControllerType, States, Places
<1>7. /\ r \in ControllerType
      /\ r.generation = p.generation /\ r.closed = p.closed /\ r.stop = p.stop
      /\ r.applied = p.applied /\ r.worker = "loop" /\ r.open = p.open
      /\ r.updates = Published(c, u)
  BY <1>1, <1>5, <1>6
<1>8. OwnUpdates(c, r) BY <1>4, <1>7, PublishingOwn
<1>9. IsOwnChange(c, r) BY <1>7, <1>8 DEF IsOwnChange, Holding
<1>. QED BY <1>2, <1>9 DEF OwnChange

LEMMA ShutDownChanges ==
  ASSUME TypeOK, NEW c \in DOMAIN ctl, ShutDown(c) PROVE OwnChange(c)
<1>. DEFINE p == ctl[c]
<1>1. p \in ControllerType /\ p.worker # "none"
  BY ControllersHaveTypes DEF ShutDown
<1>2. PICK raised \in BOOLEAN :
        ctl' = [ctl EXCEPT ![c].worker = "final", ![c].open = FALSE, ![c].error = @ \/ raised]
  BY DEF ShutDown
<1>. DEFINE r == [p EXCEPT !.worker = "final", !.open = FALSE, !.error = @ \/ raised]
<1>3. ctl' = [ctl EXCEPT ![c] = r] BY <1>2 DEF TypeOK
<1>4. \A q \in ControllerType :
        LET x == [q EXCEPT !.worker = "final", !.open = FALSE, !.error = @ \/ raised]
        IN /\ x \in ControllerType
           /\ x.generation = q.generation /\ x.closed = q.closed /\ x.stop = q.stop
           /\ x.applied = q.applied /\ x.worker = "final" /\ x.open = FALSE /\ x.updates = q.updates
  BY DEF ControllerType, Places
<1>5. /\ r \in ControllerType
      /\ r.generation = p.generation /\ r.closed = p.closed /\ r.stop = p.stop
      /\ r.applied = p.applied /\ r.worker = "final" /\ r.open = FALSE /\ r.updates = p.updates
  BY <1>1, <1>4
<1>6. OwnUpdates(c, r) BY <1>5, KeepingOwn
<1>7. IsOwnChange(c, r) BY <1>1, <1>5, <1>6 DEF IsOwnChange
<1>. QED BY <1>3, <1>7 DEF OwnChange

LEMMA FinishChanges ==
  ASSUME TypeOK, WorkersHold, NEW c \in DOMAIN ctl, Finish(c) PROVE OwnChange(c)
<1>. DEFINE p == ctl[c]
            final == Final(p)
            u == Update(c, final, 0)
            r == [p EXCEPT !.state = final, !.worker = "exiting", !.updates = Published(c, u)]
<1>1. p \in ControllerType /\ p.worker # "none" /\ ~p.open
  BY ControllersHaveTypes, FieldsOfController DEF Finish, WorkersHold, Holding
<1>2. ctl' = [ctl EXCEPT ![c] = r] BY DEF Finish, TypeOK
<1>3. final \in States BY DEF Final, States
<1>. HIDE DEF final
<1>4. u \in UpdateType /\ u.by = c /\ u.generation = p.generation /\ u.applied = p.applied
  BY <1>3, UpdateOf
<1>. HIDE DEF u
<1>5. Published(c, u) \in Seq(UpdateType) BY <1>4, Publishing
<1>6. \A q \in ControllerType, us \in Seq(UpdateType) :
        LET x == [q EXCEPT !.state = final, !.worker = "exiting", !.updates = us]
        IN /\ x \in ControllerType
           /\ x.generation = q.generation /\ x.closed = q.closed /\ x.stop = q.stop
           /\ x.applied = q.applied /\ x.worker = "exiting" /\ x.open = q.open /\ x.updates = us
  BY <1>3 DEF ControllerType, Places
<1>7. /\ r \in ControllerType
      /\ r.generation = p.generation /\ r.closed = p.closed /\ r.stop = p.stop
      /\ r.applied = p.applied /\ r.worker = "exiting" /\ r.open = p.open
      /\ r.updates = Published(c, u)
  BY <1>1, <1>5, <1>6
<1>8. OwnUpdates(c, r) BY <1>4, <1>7, PublishingOwn
<1>9. IsOwnChange(c, r) BY <1>1, <1>7, <1>8 DEF IsOwnChange
<1>. QED BY <1>2, <1>9 DEF OwnChange

LEMMA WorkerChanges ==
  ASSUME TypeOK, WorkersHold, NEW c \in DOMAIN ctl, Worker(c) PROVE OwnChange(c)
<1>1. CASE Configure(c) BY <1>1, ConfigureChanges
<1>2. CASE StartService(c)
  BY <1>2, GoesOn, RaisesChanges DEF StartService, Places, Holding
<1>3. CASE Wait(c)
  <2>1. PICK w \in {"shutdown", "poll"} : Goes(c, w)
    BY <1>3 DEF Wait
  <2>. QED BY <1>3, <2>1, GoesOn DEF Wait, Places, Holding
<1>4. CASE Poll(c)
  <2>1. ctl[c].worker # "none" BY <1>4 DEF Poll
  <2>. QED
    BY <1>4, <2>1, GoesOn, PolledChanges, RaisesChanges DEF Poll, Places, Holding
<1>5. CASE ShutDown(c) BY <1>5, ShutDownChanges
<1>6. CASE Finish(c) BY <1>6, FinishChanges
<1>7. CASE Exit(c)
  <2>1. ctl[c].worker = "exiting" /\ Goes(c, "none") BY <1>7 DEF Exit
  <2>2. ~ctl[c].open
    BY <2>1, ControllersHaveTypes, FieldsOfController DEF WorkersHold, Holding
  <2>. QED BY <2>1, <2>2, GoesOn DEF Places
<1>. QED BY <1>1, <1>2, <1>3, <1>4, <1>5, <1>6, <1>7 DEF Worker

(* The part of a stop that is under the lock.                              *)
LEMMA StopLockedChanges ==
  ASSUME TypeOK, WorkersHold, StopLocked
  PROVE  gui.ctl \in DOMAIN ctl /\ (OwnChange(gui.ctl) \/ ctl' = ctl)
<1>. DEFINE c == gui.ctl
            p == ctl[c]
            u == Update(c, "stopping", 0)
            r == [p EXCEPT !.state = "stopping", !.updates = Published(c, u)]
<1>1. c \in DOMAIN ctl BY DEF StopLocked, TypeOK
<1>2. p \in ControllerType BY <1>1, ControllersHaveTypes
<1>3. CASE ctl' = ctl BY <1>1, <1>3
<1>4. CASE ctl' = [ctl EXCEPT ![c].state = "stopping",
                              ![c].updates = Published(c, Update(c, "stopping", 0))]
  <2>1. ctl' = [ctl EXCEPT ![c] = r] BY <1>1, <1>4 DEF TypeOK
  <2>2. u \in UpdateType /\ u.by = c /\ u.generation = p.generation /\ u.applied = p.applied
    <3>1. "stopping" \in States BY DEF States
    <3>. QED BY <1>1, <3>1, UpdateOf
  <2>. HIDE DEF u
  <2>3. Published(c, u) \in Seq(UpdateType) BY <1>1, <2>2, Publishing
  <2>4. \A q \in ControllerType, us \in Seq(UpdateType) :
          LET x == [q EXCEPT !.state = "stopping", !.updates = us]
          IN /\ x \in ControllerType
             /\ x.generation = q.generation /\ x.closed = q.closed /\ x.stop = q.stop
             /\ x.applied = q.applied /\ x.worker = q.worker /\ x.open = q.open /\ x.updates = us
    BY DEF ControllerType, States
  <2>5. /\ r \in ControllerType
        /\ r.generation = p.generation /\ r.closed = p.closed /\ r.stop = p.stop
        /\ r.applied = p.applied /\ r.worker = p.worker /\ r.open = p.open
        /\ r.updates = Published(c, u)
    BY <1>2, <2>3, <2>4
  <2>6. OwnUpdates(c, r) BY <1>1, <2>2, <2>5, PublishingOwn
  <2>7. p.open => p.worker \in Holding BY <1>1 DEF WorkersHold
  <2>8. IsOwnChange(c, r) BY <2>5, <2>6, <2>7 DEF IsOwnChange
  <2>. QED BY <1>1, <2>1, <2>8 DEF OwnChange
<1>. QED BY <1>3, <1>4 DEF StopLocked

-----------------------------------------------------------------------------
(* One controller changes, the others do not.                              *)
LEMMA OneChanges ==
  ASSUME TypeOK, NEW c \in DOMAIN ctl, NEW r \in ControllerType, ctl' = [ctl EXCEPT ![c] = r]
  PROVE  /\ ctl' \in Seq(ControllerType) /\ DOMAIN ctl' = DOMAIN ctl /\ Len(ctl') = Len(ctl)
         /\ ctl'[c] = r
         /\ \A d \in DOMAIN ctl : d # c => ctl'[d] = ctl[d]
BY DEF TypeOK

(* The updates and the device stay with the controllers they are of.       *)
LEMMA OneStaysOwn ==
  ASSUME TypeOK, UpdatesAreOwn, WorkersHold,
         NEW c \in DOMAIN ctl, NEW r \in ControllerType, ctl' = [ctl EXCEPT ![c] = r],
         r.applied \in {0, c},
         \A i \in DOMAIN r.updates :
           /\ r.updates[i].by = c /\ r.updates[i].applied \in {0, c}
           /\ r.updates[i].generation <= r.generation,
         r.open => r.worker \in Holding
  PROVE  UpdatesAreOwn' /\ WorkersHold'
<1>1. /\ DOMAIN ctl' = DOMAIN ctl /\ ctl'[c] = r
      /\ \A d \in DOMAIN ctl : d # c => ctl'[d] = ctl[d]
  BY OneChanges
<1>2. UpdatesAreOwn' BY <1>1 DEF UpdatesAreOwn, OfController
<1>3. WorkersHold' BY <1>1 DEF WorkersHold
<1>. QED BY <1>2, <1>3

(* What a change of the controllers keeps that the presenter or the window *)
(* relies on.                                                              *)
Grows ==
  /\ DOMAIN ctl' = DOMAIN ctl
  /\ \A d \in DOMAIN ctl :
       ctl[d].generation <= ctl'[d].generation /\ (ctl[d].stop => ctl'[d].stop)

NoneComesBack ==
  \A d \in DOMAIN ctl :
    /\ ctl'[d].closed = ctl[d].closed /\ ctl'[d].generation = ctl[d].generation
    /\ ctl'[d].worker # "none" => ctl[d].worker # "none"

LEMMA OwnChangeKeeps ==
  ASSUME TypeOK, UpdatesAreOwn, WorkersHold, NEW c \in DOMAIN ctl, OwnChange(c)
  PROVE  /\ ctl' \in Seq(ControllerType) /\ Len(ctl') = Len(ctl)
         /\ Grows /\ NoneComesBack /\ UpdatesAreOwn' /\ WorkersHold'
<1>1. PICK r : IsOwnChange(c, r) /\ ctl' = [ctl EXCEPT ![c] = r]
  BY DEF OwnChange
<1>2. r \in ControllerType /\ r.applied \in {ctl[c].applied, c} /\ (r.open => r.worker \in Holding)
      /\ r.generation = ctl[c].generation
  BY <1>1 DEF IsOwnChange
<1>3. ctl[c].applied \in {0, c} /\ ctl[c].generation \in Nat
  BY ControllersHaveTypes, FieldsOfController DEF UpdatesAreOwn
<1>4. ASSUME NEW i \in DOMAIN r.updates
      PROVE  /\ r.updates[i].by = c /\ r.updates[i].applied \in {0, c}
             /\ r.updates[i].generation <= r.generation
  <2>1. CASE \E j \in DOMAIN ctl[c].updates : r.updates[i] = ctl[c].updates[j]
    BY <1>2, <2>1 DEF UpdatesAreOwn, OfController
  <2>2. CASE /\ r.updates[i].by = c /\ r.updates[i].generation = ctl[c].generation
             /\ r.updates[i].applied \in {ctl[c].applied, c}
    BY <1>2, <1>3, <2>2
  <2>. QED BY <1>1, <2>1, <2>2 DEF IsOwnChange, OwnUpdates
<1>5. UpdatesAreOwn' /\ WorkersHold' BY <1>1, <1>2, <1>3, <1>4, OneStaysOwn
<1>6. /\ ctl' \in Seq(ControllerType) /\ DOMAIN ctl' = DOMAIN ctl /\ Len(ctl') = Len(ctl)
      /\ ctl'[c] = r
      /\ \A d \in DOMAIN ctl : d # c => ctl'[d] = ctl[d]
  BY <1>1, <1>2, OneChanges
<1>7. \A d \in DOMAIN ctl : ctl[d].generation <= ctl[d].generation
  BY ControllersHaveTypes, FieldsOfController
<1>8. Grows BY <1>1, <1>6, <1>7 DEF IsOwnChange, Grows
<1>9. NoneComesBack BY <1>1, <1>6 DEF IsOwnChange, NoneComesBack
<1>. QED BY <1>5, <1>6, <1>8, <1>9

(* The snapshot and the waterfalls that are not touched stay own.          *)
LEMMA SnapshotStays ==
  ASSUME IInv, UNCHANGED <<own, requested, shown>>,
         own # 0 => ctl'[own].generation \in Nat /\ ctl[own].generation <= ctl'[own].generation
  PROVE  SnapshotIsOwn'
<1>1. CASE own = 0 BY <1>1 DEF IInv, SnapshotIsOwn
<1>2. CASE own # 0
  <2>1. own \in DOMAIN ctl
    BY <1>2 DEF IInv, TypeOK, InAppShellOnly, InMainWindowOnly, OwnIsLast
  <2>2. ctl[own].generation \in Nat /\ shown.generation \in Nat
    BY <2>1, ControllersHaveTypes, FieldsOfController DEF IInv, TypeOK, SnapshotType
  <2>3. shown.generation <= ctl'[own].generation
    BY <1>2, <2>2 DEF IInv, SnapshotIsOwn
  <2>. QED BY <1>2, <2>3 DEF IInv, SnapshotIsOwn
<1>. QED BY <1>1, <1>2

LEMMA SnapshotStaysOwn ==
  ASSUME IInv, UNCHANGED <<own, requested, shown>>, Grows, ctl' \in Seq(ControllerType)
  PROVE  SnapshotIsOwn'
<1>1. ASSUME own # 0
      PROVE  ctl'[own].generation \in Nat /\ ctl[own].generation <= ctl'[own].generation
  <2>1. own \in DOMAIN ctl
    BY <1>1 DEF IInv, TypeOK, InAppShellOnly, InMainWindowOnly, OwnIsLast
  <2>2. ctl'[own] \in ControllerType BY <2>1 DEF Grows
  <2>. QED BY <2>1, <2>2, FieldsOfController DEF Grows
<1>. QED BY <1>1, SnapshotStays

LEMMA WaterfallStaysOwn ==
  ASSUME IInv, UNCHANGED <<window, shell>>, Grows PROVE WaterfallIsOwn'
BY DEF IInv, WaterfallIsOwn, Grows, window

(* The workers, and the part of request_stop and close that is no command. *)
LEMMA WorkerKeeps ==
  ASSUME IInv, NEW c \in DOMAIN ctl, AWorker(c) PROVE IInv'
<1>1. OwnChange(c) BY WorkerChanges DEF AWorker, IInv
<1>2. UNCHANGED <<presenter, window, shell, gui, late>>
  BY DEF AWorker, Worker, WorkerStep, Configure, StartService, Wait, Poll, ShutDown, Finish, Exit
<1>3. /\ ctl' \in Seq(ControllerType) /\ Len(ctl') = Len(ctl)
      /\ Grows /\ NoneComesBack /\ UpdatesAreOwn' /\ WorkersHold'
  BY <1>1, OwnChangeKeeps DEF IInv
<1>4. UNCHANGED <<own, requested, expected, shown, live>>
  BY <1>2 DEF presenter, window
<1>5. TypeOK' BY <1>2, <1>3, <1>4 DEF IInv, TypeOK, Grows
<1>6. SnapshotIsOwn' /\ WaterfallIsOwn'
  BY <1>2, <1>3, <1>4, SnapshotStaysOwn, WaterfallStaysOwn
<1>7. InMainWindowOnly' BY <1>2, <1>4 DEF IInv, InMainWindowOnly
<1>8. InAppShellOnly'
  <2>1. SUFFICES ASSUME shell = "AppShell" PROVE OwnIsLast' /\ OthersAreClosed'
    BY <1>2 DEF InAppShellOnly
  <2>2. OwnIsLast /\ OthersAreClosed BY <2>1 DEF IInv, InAppShellOnly
  <2>3. OwnIsLast'
    BY <1>2, <1>3, <1>4, <2>2 DEF OwnIsLast, Grows, NoneComesBack
  <2>4. Closing => own \in DOMAIN ctl BY <2>2 DEF OwnIsLast, Closing
  <2>5. OthersAreClosed'
    BY <1>2, <1>3, <1>4, <2>2, <2>4 DEF OthersAreClosed, Grows, NoneComesBack, Closing
  <2>. QED BY <2>3, <2>5
<1>. QED BY <1>3, <1>5, <1>6, <1>7, <1>8 DEF IInv

LEMMA StopLockedKeeps ==
  ASSUME IInv, StopLocked, UNCHANGED <<presenter, window, shell>> PROVE IInv'
<1>1. gui.ctl \in DOMAIN ctl /\ (OwnChange(gui.ctl) \/ ctl' = ctl)
  BY StopLockedChanges DEF IInv
<1>2. /\ ctl' \in Seq(ControllerType) /\ Len(ctl') = Len(ctl)
      /\ Grows /\ NoneComesBack /\ UpdatesAreOwn' /\ WorkersHold'
  <2>1. CASE OwnChange(gui.ctl) BY <1>1, <2>1, OwnChangeKeeps DEF IInv
  <2>2. CASE ctl' = ctl
    <3>1. \A d \in DOMAIN ctl : ctl[d].generation <= ctl[d].generation
      BY ControllersHaveTypes, FieldsOfController DEF IInv
    <3>. QED
      BY <2>2, <3>1 DEF IInv, TypeOK, Grows, NoneComesBack, UpdatesAreOwn, OfController, WorkersHold
  <2>. QED BY <1>1, <2>1, <2>2
<1>3. UNCHANGED <<own, requested, expected, shown, live, shell, late>>
  BY DEF presenter, window, StopLocked
<1>4. gui.at = "stopping" /\ gui' = AfterStop(gui.after) /\ gui \in GuiType
  BY DEF StopLocked, IInv, TypeOK
<1>5. /\ gui' \in GuiType
      /\ gui'.at # "idle" => gui'.ctl = gui.ctl
      /\ gui'.after \in {gui.after, "none"}
      /\ gui'.at = "closing" => gui.after = "forget"
  <2>1. gui' \in {IdleGui, [gui EXCEPT !.at = "closing"], [gui EXCEPT !.at = "joining"]}
        /\ (gui' = [gui EXCEPT !.at = "closing"] => gui.after = "forget")
    <3>1. CASE gui.after = "return"
      BY <1>4, <3>1 DEF AfterStop, IdleGui, GuiType
    <3>2. CASE gui.after = "forget" BY <1>4, <3>2 DEF AfterStop
    <3>3. CASE gui.after \notin {"return", "forget"}
      BY <1>4, <3>3 DEF AfterStop, GuiType
    <3>. QED BY <3>1, <3>2, <3>3
  <2>2. CASE gui' = IdleGui BY <2>2 DEF IdleGui, GuiType, CallPlaces
  <2>3. CASE gui' = [gui EXCEPT !.at = "closing"]
    BY <1>4, <2>1, <2>3 DEF GuiType, CallPlaces
  <2>4. CASE gui' = [gui EXCEPT !.at = "joining"]
    BY <1>4, <2>4 DEF GuiType, CallPlaces
  <2>. QED BY <2>1, <2>2, <2>3, <2>4
<1>6. TypeOK' BY <1>1, <1>2, <1>3, <1>5 DEF IInv, TypeOK, Grows
<1>7. SnapshotIsOwn' /\ WaterfallIsOwn'
  BY <1>2, <1>3, SnapshotStaysOwn, WaterfallStaysOwn
<1>8. InMainWindowOnly' BY <1>3 DEF IInv, InMainWindowOnly
<1>9. InAppShellOnly'
  <2>1. SUFFICES ASSUME shell = "AppShell" PROVE OwnIsLast' /\ OthersAreClosed'
    BY <1>3 DEF InAppShellOnly
  <2>2. OwnIsLast /\ OthersAreClosed BY <2>1 DEF IInv, InAppShellOnly
  <2>3. OwnIsLast'
    BY <1>2, <1>3, <1>4, <1>5, <2>2 DEF OwnIsLast, Grows, NoneComesBack
  <2>4. ~Closing' BY <1>5, <2>2 DEF OwnIsLast, Closing
  <2>5. OthersAreClosed'
    BY <1>2, <1>3, <2>2, <2>4 DEF OthersAreClosed, Grows, NoneComesBack
  <2>. QED BY <2>3, <2>5
<1>. QED BY <1>2, <1>6, <1>7, <1>8, <1>9 DEF IInv

(* A join that gives up notes the worker it leaves behind.                 *)
LEMMA JoinKeeps ==
  ASSUME IInv, Join, UNCHANGED <<presenter, window, shell>> PROVE IInv'
<1>1. UNCHANGED <<ctl, own, requested, expected, shown, live, shell>>
  BY DEF Join, presenter, window
<1>2. gui.at = "joining" /\ gui' = [gui EXCEPT !.at = "closing"] /\ gui \in GuiType
  BY DEF Join, IInv, TypeOK
<1>3. gui' \in GuiType /\ gui'.at = "closing" /\ gui'.ctl = gui.ctl /\ gui'.after = gui.after
  BY <1>2 DEF GuiType, CallPlaces
<1>4. TypeOK' BY <1>1, <1>2, <1>3 DEF IInv, TypeOK
<1>5. UpdatesAreOwn' /\ WorkersHold' /\ SnapshotIsOwn' /\ WaterfallIsOwn' /\ InMainWindowOnly'
  BY <1>1 DEF IInv, UpdatesAreOwn, OfController, WorkersHold, SnapshotIsOwn, WaterfallIsOwn,
              InMainWindowOnly
<1>6. InAppShellOnly'
  <2>1. SUFFICES ASSUME shell = "AppShell" PROVE OwnIsLast' /\ OthersAreClosed'
    BY <1>1 DEF InAppShellOnly
  <2>2. OwnIsLast /\ OthersAreClosed BY <2>1 DEF IInv, InAppShellOnly
  <2>3. OwnIsLast' BY <1>1, <1>2, <1>3, <2>2 DEF OwnIsLast
  <2>4. gui.ctl = own BY <1>2, <2>2 DEF OwnIsLast
  <2>5. late \subseteq late' /\ (ctl[own].worker # "none" => own \in late')
    BY <2>4 DEF Join
  <2>6. OthersAreClosed' BY <1>1, <2>2, <2>5 DEF OthersAreClosed
  <2>. QED BY <2>3, <2>6
<1>. QED BY <1>4, <1>5, <1>6 DEF IInv

-----------------------------------------------------------------------------
(* What a call of the GUI thread makes of a controller, r.                 *)
IsOwn(c, r) ==
  /\ r \in ControllerType
  /\ r.applied \in {0, c}
  /\ \A i \in DOMAIN r.updates :
       /\ r.updates[i].by = c /\ r.updates[i].applied \in {0, c}
       /\ r.updates[i].generation <= r.generation
  /\ r.open => r.worker \in Holding

LEMMA AllAreOwn ==
  ASSUME TypeOK, UpdatesAreOwn, WorkersHold, NEW c \in DOMAIN ctl PROVE IsOwn(c, ctl[c])
BY ControllersHaveTypes DEF UpdatesAreOwn, OfController, WorkersHold, IsOwn

LEMMA AllAreOwnAfter ==
  ASSUME \A c \in DOMAIN ctl' : IsOwn(c, ctl'[c]) PROVE UpdatesAreOwn' /\ WorkersHold'
BY DEF UpdatesAreOwn, OfController, WorkersHold, IsOwn

LEMMA CreatedIsOwn ==
  /\ \A c : IsOwn(c, Created)
  /\ Created \in ControllerType
  /\ Created.generation = 0 /\ ~Created.closed /\ Created.worker = "none"
<1>1. Created \in ControllerType BY DEF Created, ControllerType, States, Places
<1>2. /\ Created.applied = 0 /\ Created.updates = <<>> /\ ~Created.open
      /\ Created.generation = 0 /\ ~Created.closed /\ Created.worker = "none"
  BY DEF Created
<1>. QED BY <1>1, <1>2 DEF IsOwn

LEMMA StartedIsOwn ==
  ASSUME NEW c, NEW r, IsOwn(c, r)
  PROVE  /\ IsOwn(c, Started(r))
         /\ Started(r).generation = r.generation + 1 /\ r.generation \in Nat
         /\ Started(r).closed = r.closed
<1>1. r \in ControllerType BY DEF IsOwn
<1>2. \A q \in ControllerType :
        /\ Started(q) \in ControllerType
        /\ Started(q).generation = q.generation + 1 /\ Started(q).closed = q.closed
        /\ Started(q).applied = 0 /\ Started(q).updates = q.updates
        /\ Started(q).worker = "configure"
  <2>1. SUFFICES ASSUME NEW q \in ControllerType
                 PROVE  /\ Started(q) \in ControllerType
                        /\ Started(q).generation = q.generation + 1 /\ Started(q).closed = q.closed
                        /\ Started(q).applied = 0 /\ Started(q).updates = q.updates
                        /\ Started(q).worker = "configure"
    OBVIOUS
  <2>2. Started(q) \in ControllerType
    <3>. DEFINE n == q.generation + 1
                m == [q EXCEPT !.generation = n, !.state = "starting",
                               !.error = FALSE, !.applied = 0]
    <3>1. n \in Nat BY FieldsOfController
    <3>2. Started(q) = [m EXCEPT !.stop = FALSE, !.worker = "configure", !.open = TRUE, !.frames = 0]
      BY DEF Started
    <3>. HIDE DEF n
    <3>3. m \in ControllerType BY <3>1 DEF ControllerType, States
    <3>. HIDE DEF m
    <3>4. \A p \in ControllerType :
            [p EXCEPT !.stop = FALSE, !.worker = "configure", !.open = TRUE, !.frames = 0]
              \in ControllerType
      BY DEF ControllerType, Places
    <3>. QED BY <3>2, <3>3, <3>4
  <2>3. Started(q).generation = q.generation + 1 /\ Started(q).closed = q.closed
    BY DEF Started, ControllerType
  <2>4. Started(q).applied = 0 /\ Started(q).updates = q.updates /\ Started(q).worker = "configure"
    BY DEF Started, ControllerType
  <2>. QED BY <2>2, <2>3, <2>4
<1>3. r.generation \in Nat /\ r.updates \in Seq(UpdateType)
  BY <1>1, FieldsOfController
<1>4. ASSUME NEW i \in DOMAIN r.updates
      PROVE  /\ r.updates[i].by = c /\ r.updates[i].applied \in {0, c}
             /\ r.updates[i].generation <= r.generation + 1
  <2>1. r.updates[i].generation \in Nat BY <1>3, <1>4, FieldsOfUpdate
  <2>2. /\ r.updates[i].by = c /\ r.updates[i].applied \in {0, c}
        /\ r.updates[i].generation <= r.generation
    BY <1>4 DEF IsOwn
  <2>. QED BY <1>3, <2>1, <2>2
<1>5. IsOwn(c, Started(r)) BY <1>1, <1>2, <1>4 DEF IsOwn, Holding
<1>. QED BY <1>1, <1>2, <1>3, <1>5

LEMMA ClosedIsOwn ==
  ASSUME NEW c, NEW r, IsOwn(c, r)
  PROVE  /\ IsOwn(c, Closed(r))
         /\ Closed(r).generation = r.generation /\ r.generation \in Nat
         /\ Closed(r).closed /\ Closed(r).worker = r.worker /\ Closed(r).stop = r.stop
<1>1. r \in ControllerType /\ (r.open => r.worker \in Holding) BY DEF IsOwn
<1>2. <<>> \in Seq(UpdateType) /\ MaxFrames \in Nat BY LiveAssumption
<1>3. \A q \in ControllerType :
        /\ Closed(q) \in ControllerType
        /\ Closed(q).generation = q.generation /\ Closed(q).closed /\ Closed(q).stop = q.stop
        /\ Closed(q).applied = 0 /\ Closed(q).updates = <<>>
        /\ Closed(q).worker = q.worker /\ Closed(q).open = q.open
  BY <1>2 DEF Closed, ControllerType, States
<1>4. r.generation \in Nat BY <1>1, FieldsOfController
<1>5. IsOwn(c, Closed(r)) BY <1>1, <1>3 DEF IsOwn
<1>. QED BY <1>1, <1>3, <1>4, <1>5

LEMMA StoppedIsOwn ==
  ASSUME NEW c, NEW r, IsOwn(c, r)
  PROVE  LET s == [r EXCEPT !.stop = TRUE]
         IN IsOwn(c, s) /\ s.generation = r.generation /\ s.closed = r.closed
            /\ s.worker = r.worker /\ s.stop
<1>1. r \in ControllerType BY DEF IsOwn
<1>2. \A q \in ControllerType :
        LET s == [q EXCEPT !.stop = TRUE]
        IN /\ s \in ControllerType
           /\ s.generation = q.generation /\ s.closed = q.closed /\ s.applied = q.applied
           /\ s.updates = q.updates /\ s.worker = q.worker /\ s.open = q.open /\ s.stop
  BY DEF ControllerType
<1>. DEFINE s == [r EXCEPT !.stop = TRUE]
<1>3. /\ s \in ControllerType
      /\ s.generation = r.generation /\ s.closed = r.closed /\ s.applied = r.applied
      /\ s.updates = r.updates /\ s.worker = r.worker /\ s.open = r.open /\ s.stop
  BY <1>1, <1>2
<1>. HIDE DEF s
<1>4. IsOwn(c, s) BY <1>3 DEF IsOwn
<1>. QED BY <1>3, <1>4 DEF s

LEMMA DrainedIsOwn ==
  ASSUME NEW c, NEW r, IsOwn(c, r)
  PROVE  LET s == [r EXCEPT !.updates = <<>>]
         IN IsOwn(c, s) /\ s.generation = r.generation /\ s.closed = r.closed
            /\ s.worker = r.worker /\ s.stop = r.stop
<1>1. r \in ControllerType BY DEF IsOwn
<1>. DEFINE none == <<>>
<1>2. none \in Seq(UpdateType) /\ \A i \in DOMAIN none : FALSE OBVIOUS
<1>. HIDE DEF none
<1>3. \A q \in ControllerType, us \in Seq(UpdateType) :
        LET s == [q EXCEPT !.updates = us]
        IN /\ s \in ControllerType
           /\ s.generation = q.generation /\ s.closed = q.closed /\ s.applied = q.applied
           /\ s.updates = us /\ s.worker = q.worker /\ s.open = q.open /\ s.stop = q.stop
  BY DEF ControllerType
<1>. DEFINE s == [r EXCEPT !.updates = none]
<1>4. /\ s \in ControllerType
      /\ s.generation = r.generation /\ s.closed = r.closed /\ s.applied = r.applied
      /\ s.updates = none /\ s.worker = r.worker /\ s.open = r.open /\ s.stop = r.stop
  BY <1>1, <1>2, <1>3
<1>. HIDE DEF s
<1>5. IsOwn(c, s) BY <1>2, <1>4 DEF IsOwn
<1>. QED BY <1>4, <1>5 DEF s, none

(* A controller that is replaced by another of its own.                    *)
LEMMA OneIsReplaced ==
  ASSUME TypeOK, UpdatesAreOwn, WorkersHold,
         NEW c \in DOMAIN ctl, NEW r, IsOwn(c, r), ctl' = [ctl EXCEPT ![c] = r]
  PROVE  /\ ctl' \in Seq(ControllerType) /\ DOMAIN ctl' = DOMAIN ctl /\ Len(ctl') = Len(ctl)
         /\ ctl'[c] = r
         /\ \A d \in DOMAIN ctl : d # c => ctl'[d] = ctl[d]
         /\ UpdatesAreOwn' /\ WorkersHold'
<1>1. r \in ControllerType BY DEF IsOwn
<1>2. /\ ctl' \in Seq(ControllerType) /\ DOMAIN ctl' = DOMAIN ctl /\ Len(ctl') = Len(ctl)
      /\ ctl'[c] = r
      /\ \A d \in DOMAIN ctl : d # c => ctl'[d] = ctl[d]
  BY <1>1, OneChanges
<1>3. \A d \in DOMAIN ctl' : IsOwn(d, ctl'[d]) BY <1>2, AllAreOwn
<1>. QED BY <1>2, <1>3, AllAreOwnAfter

(* One that does not start again keeps what the others rely on.            *)
LEMMA ReplacedGrows ==
  ASSUME TypeOK, NEW c \in DOMAIN ctl, DOMAIN ctl' = DOMAIN ctl,
         \A d \in DOMAIN ctl : d # c => ctl'[d] = ctl[d],
         ctl'[c].generation = ctl[c].generation, ctl[c].stop => ctl'[c].stop
  PROVE  Grows
<1>1. \A d \in DOMAIN ctl : ctl[d].generation <= ctl[d].generation
  BY ControllersHaveTypes, FieldsOfController
<1>. QED BY <1>1 DEF Grows

(* The last one is followed by another.                                    *)
LEMMA OneIsAppended ==
  ASSUME NEW q \in Seq(ControllerType), NEW r \in ControllerType
  PROVE  /\ Append(q, r) \in Seq(ControllerType) /\ Len(Append(q, r)) = Len(q) + 1
         /\ DOMAIN Append(q, r) = DOMAIN q \cup {Len(q) + 1} /\ Len(q) \in Nat
         /\ Append(q, r)[Len(q) + 1] = r /\ Len(q) + 1 \notin DOMAIN q
         /\ \A d \in DOMAIN q : Append(q, r)[d] = q[d]
OBVIOUS

-----------------------------------------------------------------------------
(* The AppShell                                                            *)

(* The window is not there; what is left are the types, the presenter and  *)
(* who holds the device.                                                   *)
LEMMA AppShellStep ==
  ASSUME IInv, shell = "AppShell", UNCHANGED <<window, shell>>,
         ctl' \in Seq(ControllerType), DOMAIN ctl \subseteq DOMAIN ctl',
         gui' \in GuiType, gui'.at # "idle" => gui'.ctl \in DOMAIN ctl',
         own' \in Nat, requested' \in Nat, expected' \in Nat, shown' \in SnapshotType,
         UpdatesAreOwn', WorkersHold', OwnIsLast', OthersAreClosed', SnapshotIsOwn'
  PROVE  IInv'
<1>1. live' = live /\ shell' = shell BY DEF window
<1>2. TypeOK' BY <1>1 DEF IInv, TypeOK
<1>3. InAppShellOnly' /\ InMainWindowOnly' /\ WaterfallIsOwn'
  BY <1>1 DEF InAppShellOnly, InMainWindowOnly, WaterfallIsOwn
<1>. QED BY <1>2, <1>3 DEF IInv

(* The first part of request_stop and of close.                            *)
LEMMA CallStops ==
  ASSUME TypeOK, UpdatesAreOwn, WorkersHold, NEW c \in DOMAIN ctl,
         NEW after \in {"return", "forget", "disconnect", "restart", "reconnect"},
         CallStop(c, after)
  PROVE  /\ ctl' \in Seq(ControllerType) /\ DOMAIN ctl' = DOMAIN ctl /\ Len(ctl') = Len(ctl)
         /\ UpdatesAreOwn' /\ WorkersHold' /\ Grows /\ NoneComesBack
         /\ ctl'[c].stop
         /\ gui' \in GuiType /\ gui'.at = "stopping" /\ gui'.ctl = c /\ gui'.after = after
         /\ late' = late
<1>. DEFINE p == ctl[c]  r == [p EXCEPT !.stop = TRUE]
<1>1. IsOwn(c, p) /\ c \in Nat BY AllAreOwn, ControllersHaveTypes
<1>2. IsOwn(c, r) /\ r.generation = p.generation /\ r.closed = p.closed /\ r.worker = p.worker
      /\ r.stop
  BY <1>1, StoppedIsOwn
<1>3. ctl' = [ctl EXCEPT ![c] = r] BY DEF CallStop, TypeOK
<1>. HIDE DEF r
<1>4. /\ ctl' \in Seq(ControllerType) /\ DOMAIN ctl' = DOMAIN ctl /\ Len(ctl') = Len(ctl)
      /\ ctl'[c] = r
      /\ \A d \in DOMAIN ctl : d # c => ctl'[d] = ctl[d]
      /\ UpdatesAreOwn' /\ WorkersHold'
  BY <1>2, <1>3, OneIsReplaced
<1>5. Grows BY <1>2, <1>4, ReplacedGrows
<1>6. NoneComesBack BY <1>2, <1>4 DEF NoneComesBack
<1>7. gui' = [at |-> "stopping", ctl |-> c, after |-> after] /\ late' = late
  BY DEF CallStop
<1>8. gui' \in GuiType /\ gui'.at = "stopping" /\ gui'.ctl = c /\ gui'.after = after
  BY <1>1, <1>7 DEF GuiType, CallPlaces
<1>. QED BY <1>2, <1>4, <1>5, <1>6, <1>7, <1>8

LEMMA MonitorCallKeeps ==
  ASSUME IInv, shell = "AppShell", UNCHANGED <<window, shell, presenter>>,
         own # 0, NEW after \in {"return", "disconnect", "restart", "reconnect"},
         CallStop(own, after)
  PROVE  IInv'
<1>1. OwnIsLast /\ OthersAreClosed /\ own \in DOMAIN ctl
  BY DEF IInv, InAppShellOnly, OwnIsLast
<1>2. /\ ctl' \in Seq(ControllerType) /\ DOMAIN ctl' = DOMAIN ctl /\ Len(ctl') = Len(ctl)
      /\ UpdatesAreOwn' /\ WorkersHold' /\ Grows /\ NoneComesBack
      /\ gui' \in GuiType /\ gui'.at = "stopping" /\ gui'.ctl = own /\ gui'.after = after
      /\ late' = late
  BY <1>1, CallStops DEF IInv
<1>3. UNCHANGED <<own, requested, expected, shown>> BY DEF presenter
<1>4. OwnIsLast' BY <1>1, <1>2, <1>3 DEF OwnIsLast, NoneComesBack
<1>5. OthersAreClosed'
  BY <1>1, <1>2, <1>3 DEF OthersAreClosed, NoneComesBack, Closing
<1>6. SnapshotIsOwn' BY <1>2, <1>3, SnapshotStaysOwn
<1>. QED BY <1>1, <1>2, <1>3, <1>4, <1>5, <1>6, AppShellStep DEF IInv, TypeOK

(* connect: a controller that is not started, and a snapshot of nothing.   *)
LEMMA Connecting ==
  ASSUME NEW known \in Seq(ControllerType), Connected(known)
  PROVE  /\ ctl' \in Seq(ControllerType) /\ Len(ctl') = Len(known) + 1
         /\ DOMAIN ctl' = DOMAIN known \cup {own'} /\ own' \notin DOMAIN known
         /\ own' = Len(known) + 1 /\ own' \in Nat /\ own' # 0
         /\ ctl'[own'] = Created
         /\ \A d \in DOMAIN known : ctl'[d] = known[d]
         /\ requested' = own' /\ expected' = 0
         /\ shown' \in SnapshotType /\ SnapshotIsOwn'
<1>1. /\ ctl' = Append(known, Created) /\ own' = Len(known) + 1
      /\ requested' = own' /\ expected' = 0
      /\ shown' = [IdleSnapshot EXCEPT !.rows = [requested |-> own', applied |-> 0]]
  BY DEF Connected, RequestedApplied
<1>2. Created \in ControllerType /\ Created.generation = 0 BY CreatedIsOwn
<1>3. /\ ctl' \in Seq(ControllerType) /\ Len(ctl') = Len(known) + 1
      /\ DOMAIN ctl' = DOMAIN known \cup {own'} /\ own' \notin DOMAIN known
      /\ Len(known) \in Nat
      /\ ctl'[own'] = Created
      /\ \A d \in DOMAIN known : ctl'[d] = known[d]
  BY <1>1, <1>2, OneIsAppended
<1>4. own' \in Nat /\ own' # 0 BY <1>1, <1>3
<1>5. shown' = [of |-> 0, generation |-> 0, asOf |-> 0, state |-> "created",
                rows |-> [requested |-> own', applied |-> 0], error |-> FALSE, stale |-> FALSE,
                cal |-> 0]
  BY <1>1 DEF IdleSnapshot
<1>6. shown' \in SnapshotType BY <1>4, <1>5 DEF SnapshotType, States
<1>7. SnapshotIsOwn' BY <1>2, <1>3, <1>4, <1>5 DEF SnapshotIsOwn
<1>. QED BY <1>1, <1>3, <1>4, <1>6, <1>7

LEMMA ConnectKeeps ==
  ASSUME IInv, shell = "AppShell", UNCHANGED <<window, shell>>, Connect PROVE IInv'
<1>1. OwnIsLast /\ OthersAreClosed /\ ctl \in Seq(ControllerType)
  BY DEF IInv, InAppShellOnly, TypeOK
<1>2. own = 0 /\ gui = IdleGui /\ gui' = gui /\ late' = late /\ Connected(ctl)
  BY DEF Connect
<1>3. /\ ctl' \in Seq(ControllerType) /\ Len(ctl') = Len(ctl) + 1
      /\ DOMAIN ctl' = DOMAIN ctl \cup {own'} /\ own' \notin DOMAIN ctl
      /\ own' = Len(ctl) + 1 /\ own' \in Nat /\ own' # 0
      /\ ctl'[own'] = Created
      /\ \A d \in DOMAIN ctl : ctl'[d] = ctl[d]
      /\ requested' = own' /\ expected' = 0
      /\ shown' \in SnapshotType /\ SnapshotIsOwn'
  BY <1>1, <1>2, Connecting
<1>4. /\ \A c : IsOwn(c, Created)
      /\ Created.generation = 0 /\ ~Created.closed /\ Created.worker = "none"
  BY CreatedIsOwn
<1>5. gui'.at = "idle" /\ gui'.after = "none" /\ gui' \in GuiType
  BY <1>2 DEF IdleGui, IInv, TypeOK
<1>6. \A d \in DOMAIN ctl' : IsOwn(d, ctl'[d])
  BY <1>3, <1>4, AllAreOwn DEF IInv
<1>7. UpdatesAreOwn' /\ WorkersHold' BY <1>6, AllAreOwnAfter
<1>8. OwnIsLast' BY <1>3, <1>4, <1>5 DEF OwnIsLast
<1>9. OthersAreClosed'
  BY <1>1, <1>2, <1>3, <1>4, <1>5 DEF OthersAreClosed, Closing
<1>. QED BY <1>3, <1>5, <1>7, <1>8, <1>9, AppShellStep

(* A start of the controller that is owned.                                *)
LEMMA StartingKeeps ==
  ASSUME IInv, shell = "AppShell", UNCHANGED <<window, shell, late, own, requested, shown>>,
         own # 0, ctl' = [ctl EXCEPT ![own] = Started(@)],
         expected' = ctl[own].generation + 1, gui' = IdleGui
  PROVE  IInv'
<1>1. OwnIsLast /\ OthersAreClosed /\ own \in DOMAIN ctl
  BY DEF IInv, InAppShellOnly, OwnIsLast
<1>. DEFINE p == ctl[own]  r == Started(p)
<1>2. IsOwn(own, p) BY <1>1, AllAreOwn DEF IInv
<1>3. IsOwn(own, r) /\ r.generation = p.generation + 1 /\ p.generation \in Nat /\ r.closed = p.closed
  BY <1>2, StartedIsOwn
<1>4. ctl' = [ctl EXCEPT ![own] = r] BY <1>1 DEF IInv, TypeOK
<1>. HIDE DEF r
<1>5. /\ ctl' \in Seq(ControllerType) /\ DOMAIN ctl' = DOMAIN ctl /\ Len(ctl') = Len(ctl)
      /\ ctl'[own] = r
      /\ \A d \in DOMAIN ctl : d # own => ctl'[d] = ctl[d]
      /\ UpdatesAreOwn' /\ WorkersHold'
  BY <1>1, <1>3, <1>4, OneIsReplaced DEF IInv
<1>6. gui'.at = "idle" /\ gui'.after = "none" /\ gui' \in GuiType
  BY DEF IdleGui, GuiType
<1>7. OwnIsLast' BY <1>1, <1>3, <1>5, <1>6 DEF OwnIsLast
<1>8. OthersAreClosed'
  BY <1>1, <1>3, <1>5, <1>6 DEF OthersAreClosed, Closing, OwnIsLast
<1>9. r.generation \in Nat /\ p.generation <= r.generation /\ expected' \in Nat
  BY <1>3
<1>10. SnapshotIsOwn' BY <1>5, <1>9, SnapshotStays
<1>. QED BY <1>5, <1>6, <1>7, <1>8, <1>9, <1>10, AppShellStep DEF IInv, TypeOK

(* The rest of close: the one that was owned is closed.                    *)
LEMMA ClosingOwn ==
  ASSUME IInv, shell = "AppShell", gui.at = "closing",
         NEW known, known = [ctl EXCEPT ![own] = Closed(@)]
  PROVE  /\ known \in Seq(ControllerType) /\ DOMAIN known = DOMAIN ctl /\ Len(known) = Len(ctl)
         /\ \A d \in DOMAIN known : IsOwn(d, known[d]) /\ known[d].closed
         /\ \A d \in DOMAIN known : known[d].worker # "none" => d \in late
         /\ requested = own /\ own # 0
<1>1. OwnIsLast /\ OthersAreClosed BY DEF IInv, InAppShellOnly
<1>2. own \in DOMAIN ctl /\ own # 0 /\ requested = own BY <1>1 DEF OwnIsLast
<1>. DEFINE p == ctl[own]  r == Closed(p)
<1>3. IsOwn(own, p) BY <1>2, AllAreOwn DEF IInv
<1>4. IsOwn(own, r) /\ r.closed /\ r.worker = p.worker BY <1>3, ClosedIsOwn
<1>5. known = [ctl EXCEPT ![own] = r] /\ ctl \in Seq(ControllerType)
  BY DEF IInv, TypeOK
<1>6. r \in ControllerType BY <1>4 DEF IsOwn
<1>. HIDE DEF r
<1>7. /\ known \in Seq(ControllerType) /\ DOMAIN known = DOMAIN ctl /\ Len(known) = Len(ctl)
      /\ known[own] = r
      /\ \A d \in DOMAIN ctl : d # own => known[d] = ctl[d]
  BY <1>2, <1>5, <1>6
<1>8. \A d \in DOMAIN known : IsOwn(d, known[d]) /\ known[d].closed
  BY <1>1, <1>4, <1>7, AllAreOwn DEF IInv, OthersAreClosed
<1>9. \A d \in DOMAIN known : known[d].worker # "none" => d \in late
  BY <1>1, <1>4, <1>7 DEF OthersAreClosed, Closing
<1>. QED BY <1>2, <1>7, <1>8, <1>9

LEMMA EndsWithoutController ==
  ASSUME IInv, shell = "AppShell", UNCHANGED <<window, shell, late>>, gui.at = "closing",
         ctl' = [ctl EXCEPT ![own] = Closed(@)], gui' = IdleGui, own' = 0,
         requested' \in Nat, expected' \in Nat, shown' \in SnapshotType, SnapshotIsOwn'
  PROVE  IInv'
<1>1. /\ ctl' \in Seq(ControllerType) /\ DOMAIN ctl' = DOMAIN ctl
      /\ \A d \in DOMAIN ctl' : IsOwn(d, ctl'[d]) /\ ctl'[d].closed
      /\ \A d \in DOMAIN ctl' : ctl'[d].worker # "none" => d \in late
  BY ClosingOwn
<1>2. UpdatesAreOwn' /\ WorkersHold' BY <1>1, AllAreOwnAfter
<1>3. gui'.at = "idle" /\ gui'.after = "none" /\ gui' \in GuiType
  BY DEF IdleGui, GuiType
<1>4. OwnIsLast' BY <1>3 DEF OwnIsLast
<1>5. OthersAreClosed' BY <1>1, <1>3 DEF OthersAreClosed, Closing
<1>. QED BY <1>1, <1>2, <1>3, <1>4, <1>5, AppShellStep

LEMMA EndDisconnectKeeps ==
  ASSUME IInv, shell = "AppShell", UNCHANGED <<window, shell>>, EndDisconnect PROVE IInv'
<1>1. own' = 0 /\ requested' = 0 /\ expected' = 0 /\ shown' = IdleSnapshot
  BY DEF EndDisconnect
<1>2. shown' \in SnapshotType
  BY <1>1 DEF IdleSnapshot, NoRows, SnapshotType, States
<1>3. SnapshotIsOwn' BY <1>1 DEF SnapshotIsOwn
<1>. QED BY <1>1, <1>2, <1>3, EndsWithoutController DEF EndDisconnect

LEMMA EndApplyRefusedKeeps ==
  ASSUME IInv, shell = "AppShell", UNCHANGED <<window, shell>>, EndApplyRefused PROVE IInv'
<1>1. own' = 0 /\ UNCHANGED <<late, requested, expected, shown>> /\ gui.at = "closing"
  BY DEF EndApplyRefused, Applying
<1>2. requested # 0
  <2>1. OwnIsLast BY DEF IInv, InAppShellOnly
  <2>. QED BY <1>1, <2>1 DEF OwnIsLast
<1>3. SnapshotIsOwn' BY <1>1, <1>2 DEF SnapshotIsOwn
<1>4. requested' \in Nat /\ expected' \in Nat /\ shown' \in SnapshotType
  BY <1>1 DEF IInv, TypeOK
<1>. QED BY <1>1, <1>3, <1>4, EndsWithoutController DEF EndApplyRefused

LEMMA EndApplyKeeps ==
  ASSUME IInv, shell = "AppShell", UNCHANGED <<window, shell>>, EndApply PROVE IInv'
<1>. DEFINE known == [ctl EXCEPT ![own] = Closed(@)]
<1>1. gui.at = "closing" /\ Connected(known) /\ late' = late
  BY DEF EndApply, Applying
<1>2. gui' = IF gui.after = "restart"
             THEN [IdleGui EXCEPT !.at = "starting", !.ctl = Len(ctl) + 1] ELSE IdleGui
  BY DEF EndApply
<1>3. known = [ctl EXCEPT ![own] = Closed(@)] OBVIOUS
<1>. HIDE DEF known
<1>4. /\ known \in Seq(ControllerType) /\ DOMAIN known = DOMAIN ctl /\ Len(known) = Len(ctl)
      /\ \A d \in DOMAIN known : IsOwn(d, known[d]) /\ known[d].closed
      /\ \A d \in DOMAIN known : known[d].worker # "none" => d \in late
  BY <1>1, <1>3, ClosingOwn
<1>5. /\ ctl' \in Seq(ControllerType) /\ Len(ctl') = Len(known) + 1
      /\ DOMAIN ctl' = DOMAIN known \cup {own'} /\ own' \notin DOMAIN known
      /\ own' = Len(known) + 1 /\ own' \in Nat /\ own' # 0
      /\ ctl'[own'] = Created
      /\ \A d \in DOMAIN known : ctl'[d] = known[d]
      /\ requested' = own' /\ expected' = 0
      /\ shown' \in SnapshotType /\ SnapshotIsOwn'
  BY <1>1, <1>4, Connecting
<1>6. /\ \A c : IsOwn(c, Created)
      /\ Created.generation = 0 /\ ~Created.closed /\ Created.worker = "none"
  BY CreatedIsOwn
<1>7. \A d \in DOMAIN ctl' : IsOwn(d, ctl'[d]) BY <1>4, <1>5, <1>6
<1>8. UpdatesAreOwn' /\ WorkersHold' BY <1>7, AllAreOwnAfter
<1>9. /\ gui' \in GuiType /\ gui'.at \in {"idle", "starting"} /\ gui'.after = "none"
      /\ gui'.at # "idle" => gui'.ctl = own'
  BY <1>2, <1>4, <1>5 DEF IdleGui, GuiType, CallPlaces
<1>10. OwnIsLast' BY <1>5, <1>6, <1>9 DEF OwnIsLast
<1>11. OthersAreClosed'
  BY <1>1, <1>4, <1>5, <1>6, <1>9 DEF OthersAreClosed, Closing
<1>. QED BY <1>4, <1>5, <1>8, <1>9, <1>10, <1>11, AppShellStep

(* The latest update is taken: it is the own controller's.                 *)
LEMMA PollKeeps ==
  ASSUME IInv, shell = "AppShell", UNCHANGED <<window, shell>>, PollPresenter PROVE IInv'
<1>1. OwnIsLast /\ OthersAreClosed BY DEF IInv, InAppShellOnly
<1>2. own # 0 /\ gui = IdleGui /\ ctl[own].updates # <<>>
      /\ ctl' = [ctl EXCEPT ![own].updates = <<>>]
      /\ UNCHANGED <<gui, late, own, requested, expected>>
  BY DEF PollPresenter
<1>3. own \in DOMAIN ctl /\ requested = own /\ own \in Nat
  BY <1>1, <1>2 DEF OwnIsLast, IInv, TypeOK
<1>. DEFINE p == ctl[own]  r == [p EXCEPT !.updates = <<>>]  latest == Last(p.updates)
<1>4. IsOwn(own, p) BY <1>3, AllAreOwn DEF IInv
<1>5. IsOwn(own, r) /\ r.generation = p.generation /\ r.closed = p.closed /\ r.worker = p.worker
      /\ r.stop = p.stop
  BY <1>4, DrainedIsOwn
<1>6. ctl' = [ctl EXCEPT ![own] = r] BY <1>2, <1>3 DEF IInv, TypeOK
<1>7. /\ latest \in UpdateType /\ latest.by = own /\ latest.applied \in {0, own}
      /\ latest.generation <= p.generation
  <2>1. p.updates \in Seq(UpdateType) /\ p.updates # <<>>
    BY <1>2, <1>4, FieldsOfController DEF IsOwn
  <2>2. Len(p.updates) \in DOMAIN p.updates /\ latest = p.updates[Len(p.updates)]
        /\ latest \in UpdateType
    BY <2>1 DEF Last
  <2>. QED BY <1>4, <2>2 DEF IsOwn
<1>8. shown' = IF latest.generation # expected
               THEN [shown EXCEPT !.generation = latest.generation, !.state = latest.state,
                                  !.error = latest.error \/ @, !.stale = TRUE]
               ELSE BuiltFrom(latest)
  BY DEF PollPresenter
<1>. HIDE DEF r, latest
<1>9. /\ ctl' \in Seq(ControllerType) /\ DOMAIN ctl' = DOMAIN ctl /\ Len(ctl') = Len(ctl)
      /\ ctl'[own] = r
      /\ \A d \in DOMAIN ctl : d # own => ctl'[d] = ctl[d]
      /\ UpdatesAreOwn' /\ WorkersHold'
  BY <1>3, <1>5, <1>6, OneIsReplaced DEF IInv
<1>10. latest.generation \in Nat /\ latest.state \in States /\ latest.error \in BOOLEAN
       /\ latest.applied \in Nat /\ latest.frame \in Nat
  BY <1>7, FieldsOfUpdate
<1>11. shown \in SnapshotType /\ shown.cal \in {0, own} /\ shown.rows.requested = own
       /\ shown.rows.applied \in {0, own} /\ shown.of \in {0, own}
  BY <1>2 DEF IInv, TypeOK, SnapshotIsOwn
<1>12. /\ shown' \in SnapshotType
       /\ shown'.cal \in {0, own} /\ shown'.rows.requested = own
       /\ shown'.rows.applied \in {0, own} /\ shown'.of \in {0, own}
       /\ shown'.generation = latest.generation
       /\ ~shown'.stale => shown'.of = own /\ shown'.generation = shown'.asOf
  <2>1. CASE latest.generation # expected
    <3>. DEFINE g == latest.generation  st == latest.state  e == latest.error
    <3>1. g \in Nat /\ st \in States /\ e \in BOOLEAN BY <1>10
    <3>2. shown' = [shown EXCEPT !.generation = g, !.state = st, !.error = e \/ @, !.stale = TRUE]
      BY <1>8, <2>1
    <3>. HIDE DEF g, st, e
    <3>3. shown' \in SnapshotType BY <1>11, <3>1, <3>2 DEF SnapshotType
    <3>4. shown'.cal = shown.cal /\ shown'.rows = shown.rows /\ shown'.of = shown.of
          /\ shown'.generation = g /\ shown'.stale = TRUE
      BY <1>11, <3>2 DEF SnapshotType
    <3>. QED BY <1>11, <3>3, <3>4 DEF g
  <2>2. CASE latest.generation = expected
    <3>. DEFINE g == latest.generation  st == latest.state  e == latest.error
                a == latest.applied  k == Calibration(latest)
    <3>1. g \in Nat /\ st \in States /\ e \in BOOLEAN /\ a \in Nat /\ a \in {0, own}
      BY <1>7, <1>10
    <3>2. k \in {0, own} /\ k \in Nat BY <1>3, <1>7, <1>11 DEF Calibration
    <3>3. shown' = [of |-> own, generation |-> g, asOf |-> g, state |-> st,
                    rows |-> [requested |-> own, applied |-> a], error |-> e, stale |-> FALSE,
                    cal |-> k]
      BY <1>1, <1>2, <1>3, <1>7, <1>8, <2>2 DEF BuiltFrom, RequestedApplied, OwnIsLast
    <3>. HIDE DEF g, st, e, a, k
    <3>4. shown' \in SnapshotType BY <1>3, <3>1, <3>2, <3>3 DEF SnapshotType
    <3>. QED BY <3>1, <3>2, <3>3, <3>4 DEF g
  <2>. QED BY <2>1, <2>2
<1>13. SnapshotIsOwn' BY <1>2, <1>5, <1>7, <1>9, <1>12 DEF SnapshotIsOwn
<1>14. OwnIsLast' BY <1>1, <1>2, <1>5, <1>9 DEF OwnIsLast
<1>15. OthersAreClosed'
  BY <1>1, <1>2, <1>5, <1>9 DEF OthersAreClosed, Closing, IdleGui
<1>. QED
  BY <1>2, <1>9, <1>12, <1>13, <1>14, <1>15, AppShellStep DEF IInv, TypeOK

LEMMA AppShellKeeps ==
  ASSUME IInv, InAppShell PROVE IInv'
<1>1. shell = "AppShell" /\ UNCHANGED <<window, shell>> BY DEF InAppShell
<1>2. CASE Connect BY <1>1, <1>2, ConnectKeeps
<1>3. CASE BeginDisconnect BY <1>1, <1>3, MonitorCallKeeps DEF BeginDisconnect
<1>4. CASE BeginApply
  <2>1. PICK after \in {"restart", "reconnect"} : CallStop(own, after)
    BY <1>4 DEF BeginApply
  <2>. QED BY <1>1, <1>4, <2>1, MonitorCallKeeps DEF BeginApply
<1>5. CASE Start BY <1>1, <1>5, StartingKeeps DEF Start
<1>6. CASE Stop BY <1>1, <1>6, MonitorCallKeeps DEF Stop
<1>7. CASE PollPresenter BY <1>1, <1>7, PollKeeps
<1>8. CASE EndDisconnect BY <1>1, <1>8, EndDisconnectKeeps
<1>9. CASE EndApply BY <1>1, <1>9, EndApplyKeeps
<1>10. CASE Restart
  <2>1. OwnIsLast BY <1>1 DEF IInv, InAppShellOnly
  <2>2. own # 0 BY <1>10, <2>1 DEF Restart, OwnIsLast
  <2>. QED BY <1>1, <1>10, <2>2, StartingKeeps DEF Restart
<1>11. CASE EndApplyRefused BY <1>1, <1>11, EndApplyRefusedKeeps
<1>. QED
  BY <1>2, <1>3, <1>4, <1>5, <1>6, <1>7, <1>8, <1>9, <1>10, <1>11
     DEF InAppShell, Monitor, ConnectClicked, ApplyClicked, StartStopClicked, TimerFires, CallReturns

-----------------------------------------------------------------------------
(* The MainWindow                                                          *)

(* The presenter is not there; what is left are the types and who holds    *)
(* which frames.                                                           *)
LEMMA MainWindowStep ==
  ASSUME IInv, shell = "MainWindow", UNCHANGED <<presenter, shell>>,
         ctl' \in Seq(ControllerType), gui' \in GuiType,
         gui'.at # "idle" => gui'.ctl \in DOMAIN ctl',
         live' \in [DOMAIN live' -> AdapterType],
         \A s \in DOMAIN live' : live'[s].ctl \in DOMAIN ctl',
         UpdatesAreOwn', WorkersHold', WaterfallIsOwn'
  PROVE  IInv'
<1>1. UNCHANGED <<own, requested, expected, shown, shell>> BY DEF presenter
<1>2. TypeOK' BY <1>1 DEF IInv, TypeOK
<1>3. InAppShellOnly' /\ InMainWindowOnly'
  BY <1>1 DEF IInv, InAppShellOnly, InMainWindowOnly
<1>4. SnapshotIsOwn' BY <1>1 DEF IInv, InMainWindowOnly, SnapshotIsOwn
<1>. QED BY <1>2, <1>3, <1>4 DEF IInv

(* An adapter without rows, of a controller just created.                  *)
LEMMA OpenLiveKeeps ==
  ASSUME IInv, shell = "MainWindow", UNCHANGED <<presenter, shell>>, NEW s, OpenLive(s)
  PROVE  IInv'
<1>. DEFINE n == Len(ctl) + 1  r == Started(Created)
<1>1. ctl' = Append(ctl, r) /\ UNCHANGED <<gui, late>> /\ s \notin DOMAIN live
  BY DEF OpenLive
<1>2. live' = [t \in DOMAIN live \cup {s} |-> IF t = s THEN NewAdapter(n) ELSE live[t]]
  BY DEF OpenLive
<1>3. /\ ctl \in Seq(ControllerType) /\ gui \in GuiType
      /\ live \in [DOMAIN live -> AdapterType]
      /\ \A t \in DOMAIN live : live[t].ctl \in DOMAIN ctl
      /\ gui.at # "idle" => gui.ctl \in DOMAIN ctl
  BY DEF IInv, TypeOK
<1>4. \A c : IsOwn(c, r) BY CreatedIsOwn, StartedIsOwn
<1>5. r \in ControllerType BY <1>4 DEF IsOwn
<1>. HIDE DEF r
<1>6. /\ ctl' \in Seq(ControllerType) /\ DOMAIN ctl' = DOMAIN ctl \cup {n} /\ n \in Nat
      /\ ctl'[n] = r /\ n \notin DOMAIN ctl
      /\ \A d \in DOMAIN ctl : ctl'[d] = ctl[d]
  BY <1>1, <1>3, <1>5, OneIsAppended
<1>7. \A d \in DOMAIN ctl' : IsOwn(d, ctl'[d])
  BY <1>4, <1>6, AllAreOwn DEF IInv
<1>8. UpdatesAreOwn' /\ WorkersHold' BY <1>7, AllAreOwnAfter
<1>. HIDE DEF n
<1>9. /\ NewAdapter(n) \in AdapterType /\ NewAdapter(n).ctl = n
      /\ NewAdapter(n).rows = <<>>
  BY <1>6 DEF NewAdapter, AdapterType
<1>10. /\ DOMAIN live' = DOMAIN live \cup {s} /\ live'[s] = NewAdapter(n)
       /\ \A t \in DOMAIN live : live'[t] = live[t]
  BY <1>1, <1>2
<1>11. live' \in [DOMAIN live' -> AdapterType] BY <1>2, <1>3, <1>9
<1>12. \A t \in DOMAIN live' : live'[t].ctl \in DOMAIN ctl'
  BY <1>3, <1>6, <1>9, <1>10
<1>13. WaterfallIsOwn'
  <2>1. \A t \in DOMAIN live :
          LET rows == live[t].rows
          IN  /\ \A i \in DOMAIN rows : rows[i][1] = live[t].ctl
              /\ rows # <<>> => live[t].latest = Last(rows)
    BY DEF IInv, WaterfallIsOwn
  <2>2. \A t \in DOMAIN live' :
          LET rows == live'[t].rows
          IN  /\ \A i \in DOMAIN rows : rows[i][1] = live'[t].ctl
              /\ rows # <<>> => live'[t].latest = Last(rows)
    BY <1>9, <1>10, <2>1
  <2>3. \A c \in DOMAIN ctl : (\A t \in DOMAIN live : live[t].ctl # c) => ctl[c].stop
    BY DEF IInv, WaterfallIsOwn
  <2>4. \A c \in DOMAIN ctl' : (\A t \in DOMAIN live' : live'[t].ctl # c) => ctl'[c].stop
    BY <1>6, <1>9, <1>10, <2>3
  <2>. QED BY <2>2, <2>4 DEF WaterfallIsOwn
<1>. QED BY <1>1, <1>3, <1>6, <1>8, <1>11, <1>12, <1>13, MainWindowStep

LEMMA StopActiveKeeps ==
  ASSUME IInv, shell = "MainWindow", UNCHANGED <<presenter, shell>>, NEW s, StopActive(s)
  PROVE  IInv'
<1>. DEFINE c == live[s].ctl
<1>1. c \in DOMAIN ctl /\ CallStop(c, "return") /\ live' = live
  BY DEF StopActive, IInv, TypeOK, window
<1>. HIDE DEF c
<1>2. /\ ctl' \in Seq(ControllerType) /\ DOMAIN ctl' = DOMAIN ctl
      /\ UpdatesAreOwn' /\ WorkersHold' /\ Grows
      /\ gui' \in GuiType /\ gui'.ctl = c
  BY <1>1, CallStops DEF IInv
<1>3. WaterfallIsOwn' BY <1>1, <1>2, WaterfallStaysOwn DEF window
<1>4. live' \in [DOMAIN live' -> AdapterType] /\ \A t \in DOMAIN live' : live'[t].ctl \in DOMAIN ctl'
  BY <1>1, <1>2 DEF IInv, TypeOK
<1>. QED BY <1>1, <1>2, <1>3, <1>4, MainWindowStep

(* The controller that no source refers to any longer was told to stop.    *)
LEMMA CloseSessionKeeps ==
  ASSUME IInv, shell = "MainWindow", UNCHANGED <<presenter, shell>>, NEW s, CloseSession(s)
  PROVE  IInv'
<1>. DEFINE c == live[s].ctl
<1>1. c \in DOMAIN ctl /\ CallStop(c, "forget") /\ s \in DOMAIN live
  BY DEF CloseSession, IInv, TypeOK
<1>2. live' = [t \in DOMAIN live \ {s} |-> live[t]] BY DEF CloseSession
<1>3. /\ ctl' \in Seq(ControllerType) /\ DOMAIN ctl' = DOMAIN ctl
      /\ UpdatesAreOwn' /\ WorkersHold' /\ Grows
      /\ ctl'[c].stop
      /\ gui' \in GuiType /\ gui'.ctl = c
  <2>. HIDE DEF c
  <2>. QED BY <1>1, CallStops DEF IInv
<1>4. live' \in [DOMAIN live' -> AdapterType] /\ \A t \in DOMAIN live' : live'[t].ctl \in DOMAIN ctl'
  BY <1>2, <1>3 DEF IInv, TypeOK
<1>5. WaterfallIsOwn'
  <2>1. \A t \in DOMAIN live :
          LET rows == live[t].rows
          IN  /\ \A i \in DOMAIN rows : rows[i][1] = live[t].ctl
              /\ rows # <<>> => live[t].latest = Last(rows)
    BY DEF IInv, WaterfallIsOwn
  <2>2. \A t \in DOMAIN live' :
          LET rows == live'[t].rows
          IN  /\ \A i \in DOMAIN rows : rows[i][1] = live'[t].ctl
              /\ rows # <<>> => live'[t].latest = Last(rows)
    BY <1>2, <2>1
  <2>3. \A d \in DOMAIN ctl : (\A t \in DOMAIN live : live[t].ctl # d) => ctl[d].stop
    BY DEF IInv, WaterfallIsOwn
  <2>4. \A d \in DOMAIN ctl' : (\A t \in DOMAIN live' : live'[t].ctl # d) => ctl'[d].stop
    <3>1. SUFFICES ASSUME NEW d \in DOMAIN ctl, \A t \in DOMAIN live' : live'[t].ctl # d
                   PROVE  ctl'[d].stop
      BY <1>3
    <3>2. CASE d = c BY <1>3, <3>2
    <3>3. CASE d # c
      <4>1. \A t \in DOMAIN live : live[t].ctl # d BY <1>2, <3>1, <3>3
      <4>2. ctl[d].stop BY <2>3, <4>1
      <4>. QED BY <1>3, <4>2 DEF Grows
    <3>. QED BY <3>2, <3>3
  <2>. QED BY <2>2, <2>4 DEF WaterfallIsOwn
<1>. HIDE DEF c
<1>. QED BY <1>1, <1>3, <1>4, <1>5, MainWindowStep

(* What an adapter of controller c makes of an update.                     *)
IsWaterfall(c, a) ==
  /\ a \in AdapterType /\ a.ctl = c
  /\ \A i \in DOMAIN a.rows : a.rows[i][1] = c
  /\ a.rows # <<>> => a.latest = Last(a.rows)

LEMMA AppliedIsWaterfall ==
  ASSUME NEW c \in Nat, NEW a, IsWaterfall(c, a), NEW u \in UpdateType, u.by = c
  PROVE  IsWaterfall(c, Applied(a, u))
<1>. DEFINE accepted == IF a.accepted = 0 THEN u.generation ELSE a.accepted
            frame == <<c, u.frame>>
            q == a.rows
            all == Append(q, frame)
            kept == IF Len(all) > MaxRows THEN Tail(all) ELSE all
<1>1. a \in AdapterType /\ a.ctl = c /\ u.frame \in Nat /\ u.generation \in Nat
  BY FieldsOfUpdate DEF IsWaterfall
<1>2. accepted \in Nat /\ frame \in Nat \X Nat /\ frame[1] = c /\ q \in Seq(Nat \X Nat)
  BY <1>1 DEF AdapterType
<1>3. \A i \in DOMAIN q : q[i][1] = c BY DEF IsWaterfall
<1>4. Applied(a, u) = IF u.generation # accepted \/ u.frame = 0
                      THEN [a EXCEPT !.accepted = accepted]
                      ELSE [a EXCEPT !.accepted = accepted, !.latest = frame, !.rows = kept]
  BY <1>1 DEF Applied
<1>. HIDE DEF accepted, frame, q
<1>5. /\ kept \in Seq(Nat \X Nat)
      /\ \A i \in DOMAIN kept : kept[i][1] = c
      /\ kept # <<>> => frame = Last(kept)
  <2>1. /\ all \in Seq(Nat \X Nat) /\ Len(all) = Len(q) + 1 /\ Len(q) \in Nat
        /\ DOMAIN all = 1 .. Len(q) + 1 /\ DOMAIN q = 1 .. Len(q)
        /\ \A i \in 1 .. Len(q) + 1 : all[i] = IF i <= Len(q) THEN q[i] ELSE frame
    <3>. DEFINE Frames == Nat \X Nat
    <3>1. frame \in Frames /\ q \in Seq(Frames) BY <1>2
    <3>. HIDE DEF Frames
    <3>2. /\ Append(q, frame) \in Seq(Frames) /\ Len(Append(q, frame)) = Len(q) + 1
          /\ Len(q) \in Nat
          /\ \A i \in 1 .. Len(q) + 1 : Append(q, frame)[i] = IF i <= Len(q) THEN q[i] ELSE frame
      BY <3>1
    <3>3. DOMAIN q = 1 .. Len(q) /\ DOMAIN Append(q, frame) = 1 .. Len(q) + 1
      BY <3>1, <3>2
    <3>. QED BY <3>2, <3>3 DEF Frames
  <2>2. \A i \in DOMAIN all : all[i][1] = c
    <3>1. ASSUME NEW i \in 1 .. Len(q) + 1 PROVE all[i][1] = c
      <4>1. CASE i <= Len(q)
        <5>1. i \in DOMAIN q /\ all[i] = q[i] BY <2>1, <4>1
        <5>. QED BY <1>3, <5>1
      <4>2. CASE ~(i <= Len(q)) BY <1>2, <2>1, <4>2
      <4>. QED BY <4>1, <4>2
    <3>. QED BY <2>1, <3>1
  <2>3. all[Len(all)] = frame BY <2>1
  <2>. HIDE DEF all
  <2>4. /\ Tail(all) \in Seq(Nat \X Nat) /\ Len(Tail(all)) = Len(q) /\ DOMAIN Tail(all) = 1 .. Len(q)
        /\ \A i \in 1 .. Len(q) : Tail(all)[i] = all[i + 1]
    BY <2>1
  <2>5. \A i \in DOMAIN Tail(all) : Tail(all)[i][1] = c
    <3>1. ASSUME NEW i \in 1 .. Len(q) PROVE Tail(all)[i][1] = c
      <4>1. i + 1 \in DOMAIN all /\ Tail(all)[i] = all[i + 1] BY <2>1, <2>4
      <4>. QED BY <2>2, <4>1
    <3>. QED BY <2>4, <3>1
  <2>6. ASSUME Tail(all) # <<>> PROVE frame = Last(Tail(all))
    <3>1. Len(q) # 0 BY <2>4, <2>6
    <3>2. Tail(all)[Len(q)] = all[Len(q) + 1] BY <2>1, <2>4, <3>1
    <3>. QED BY <2>1, <2>3, <2>4, <3>2 DEF Last
  <2>7. frame = Last(all) BY <2>3 DEF Last
  <2>8. CASE kept = all BY <2>1, <2>2, <2>7, <2>8
  <2>9. CASE kept = Tail(all) BY <2>4, <2>5, <2>6, <2>9
  <2>. QED BY <2>8, <2>9
<1>. HIDE DEF kept
<1>6. \A b \in AdapterType :
        LET x == [b EXCEPT !.accepted = accepted]
        IN x \in AdapterType /\ x.ctl = b.ctl /\ x.rows = b.rows /\ x.latest = b.latest
  BY <1>2 DEF AdapterType
<1>7. \A b \in AdapterType :
        LET x == [b EXCEPT !.accepted = accepted, !.latest = frame, !.rows = kept]
        IN x \in AdapterType /\ x.ctl = b.ctl /\ x.rows = kept /\ x.latest = frame
  BY <1>2, <1>5 DEF AdapterType
<1>8. CASE Applied(a, u) = [a EXCEPT !.accepted = accepted]
  BY <1>1, <1>6, <1>8 DEF IsWaterfall
<1>9. CASE Applied(a, u) = [a EXCEPT !.accepted = accepted, !.latest = frame, !.rows = kept]
  BY <1>1, <1>5, <1>7, <1>9 DEF IsWaterfall
<1>. QED BY <1>4, <1>8, <1>9

LEMMA PollLiveKeeps ==
  ASSUME IInv, shell = "MainWindow", UNCHANGED <<presenter, shell>>, NEW s, PollLive(s)
  PROVE  IInv'
<1>. DEFINE c == live[s].ctl  p == ctl[c]  r == [p EXCEPT !.updates = <<>>]
            latest == Last(p.updates)  a == Applied(live[s], latest)
<1>1. s \in DOMAIN live /\ c \in DOMAIN ctl /\ c \in Nat /\ UNCHANGED <<gui, late>>
  BY ControllersHaveTypes DEF PollLive, IInv, TypeOK
<1>2. p.updates # <<>> /\ ctl' = [ctl EXCEPT ![c].updates = <<>>] /\ live' = [live EXCEPT ![s] = a]
  BY DEF PollLive
<1>3. IsOwn(c, p) BY <1>1, AllAreOwn DEF IInv
<1>4. IsOwn(c, r) /\ r.generation = p.generation /\ r.stop = p.stop
  BY <1>3, DrainedIsOwn
<1>5. ctl' = [ctl EXCEPT ![c] = r] BY <1>1, <1>2 DEF IInv, TypeOK
<1>6. latest \in UpdateType /\ latest.by = c
  <2>1. p.updates \in Seq(UpdateType) BY <1>3, FieldsOfController DEF IsOwn
  <2>2. Len(p.updates) \in DOMAIN p.updates /\ latest = p.updates[Len(p.updates)]
        /\ latest \in UpdateType
    BY <1>2, <2>1 DEF Last
  <2>. QED BY <1>3, <2>2 DEF IsOwn
<1>7. \A t \in DOMAIN live : IsWaterfall(live[t].ctl, live[t])
  BY DEF IInv, TypeOK, WaterfallIsOwn, IsWaterfall
<1>8. IsWaterfall(c, a) BY <1>1, <1>6, <1>7, AppliedIsWaterfall
<1>. HIDE DEF r, a
<1>9. /\ ctl' \in Seq(ControllerType) /\ DOMAIN ctl' = DOMAIN ctl
      /\ ctl'[c] = r
      /\ \A d \in DOMAIN ctl : d # c => ctl'[d] = ctl[d]
      /\ UpdatesAreOwn' /\ WorkersHold'
  <2>. HIDE DEF c
  <2>. QED BY <1>1, <1>4, <1>5, OneIsReplaced DEF IInv
<1>10. \A d \in DOMAIN ctl : ctl'[d].stop = ctl[d].stop BY <1>4, <1>9
<1>11. /\ DOMAIN live' = DOMAIN live
       /\ \A t \in DOMAIN live : live'[t].ctl = live[t].ctl /\ IsWaterfall(live'[t].ctl, live'[t])
  BY <1>1, <1>2, <1>7, <1>8 DEF IsWaterfall, IInv, TypeOK
<1>12. /\ live' \in [DOMAIN live' -> AdapterType]
       /\ \A t \in DOMAIN live' : live'[t].ctl \in DOMAIN ctl'
  <2>1. live \in [DOMAIN live -> AdapterType] /\ \A t \in DOMAIN live : live[t].ctl \in DOMAIN ctl
    BY DEF IInv, TypeOK
  <2>2. a \in AdapterType BY <1>8 DEF IsWaterfall
  <2>3. live' \in [DOMAIN live' -> AdapterType] BY <1>2, <1>11, <2>1, <2>2
  <2>. QED BY <1>9, <1>11, <2>1, <2>3
<1>13. WaterfallIsOwn'
  <2>1. \A d \in DOMAIN ctl : (\A t \in DOMAIN live : live[t].ctl # d) => ctl[d].stop
    BY DEF IInv, WaterfallIsOwn
  <2>2. \A d \in DOMAIN ctl' : (\A t \in DOMAIN live' : live'[t].ctl # d) => ctl'[d].stop
    BY <1>9, <1>10, <1>11, <2>1
  <2>3. \A t \in DOMAIN live' :
          LET rows == live'[t].rows
          IN  /\ \A i \in DOMAIN rows : rows[i][1] = live'[t].ctl
              /\ rows # <<>> => live'[t].latest = Last(rows)
    BY <1>11 DEF IsWaterfall
  <2>. QED BY <2>2, <2>3 DEF WaterfallIsOwn
<1>. QED BY <1>1, <1>9, <1>12, <1>13, MainWindowStep DEF IInv, TypeOK

LEMMA EndCloseKeeps ==
  ASSUME IInv, shell = "MainWindow", UNCHANGED <<presenter, shell>>, EndClose PROVE IInv'
<1>. DEFINE c == gui.ctl  p == ctl[c]  r == Closed(p)
<1>1. c \in DOMAIN ctl /\ ctl' = [ctl EXCEPT ![c] = r] /\ gui' = IdleGui /\ live' = live
  BY DEF EndClose, IInv, TypeOK, window
<1>2. IsOwn(c, p) BY <1>1, AllAreOwn DEF IInv
<1>3. IsOwn(c, r) /\ r.generation = p.generation /\ r.stop = p.stop
  BY <1>2, ClosedIsOwn
<1>. HIDE DEF r, c
<1>4. /\ ctl' \in Seq(ControllerType) /\ DOMAIN ctl' = DOMAIN ctl
      /\ ctl'[c] = r
      /\ \A d \in DOMAIN ctl : d # c => ctl'[d] = ctl[d]
      /\ UpdatesAreOwn' /\ WorkersHold'
  BY <1>1, <1>3, OneIsReplaced DEF IInv
<1>5. Grows BY <1>1, <1>3, <1>4, ReplacedGrows DEF IInv
<1>6. WaterfallIsOwn' BY <1>1, <1>5, WaterfallStaysOwn DEF window
<1>7. live' \in [DOMAIN live' -> AdapterType] /\ \A t \in DOMAIN live' : live'[t].ctl \in DOMAIN ctl'
  BY <1>1, <1>4 DEF IInv, TypeOK
<1>8. gui' \in GuiType /\ gui'.at = "idle" BY <1>1 DEF IdleGui, GuiType
<1>. QED BY <1>4, <1>6, <1>7, <1>8, MainWindowStep

LEMMA MainWindowKeeps ==
  ASSUME IInv, InMainWindow PROVE IInv'
<1>1. shell = "MainWindow" /\ UNCHANGED <<presenter, shell>> /\ Window
  BY DEF InMainWindow
<1>2. CASE EndClose BY <1>1, <1>2, EndCloseKeeps
<1>3. ASSUME NEW s, OpenLive(s) \/ StopActive(s) \/ PollLive(s) \/ CloseSession(s)
      PROVE  IInv'
  BY <1>1, <1>3, OpenLiveKeeps, StopActiveKeeps, PollLiveKeeps, CloseSessionKeeps
<1>. QED BY <1>1, <1>2, <1>3 DEF Window

-----------------------------------------------------------------------------
(* The program                                                             *)

LEMMA InitHolds == Init => IInv
<1>. SUFFICES ASSUME Init PROVE IInv
  OBVIOUS
<1>1. /\ ctl = <<>> /\ gui = IdleGui /\ own = 0 /\ requested = 0 /\ expected = 0
      /\ shown = IdleSnapshot /\ live = [s \in {} |-> 0] /\ shell \in {"AppShell", "MainWindow"}
  BY DEF Init, InitControllers, InitMonitor, InitWindow
<1>2. ctl \in Seq(ControllerType) /\ \A c \in DOMAIN ctl : FALSE BY <1>1
<1>3. gui \in GuiType /\ gui.at = "idle" /\ gui.after = "none"
  BY <1>1 DEF IdleGui, GuiType
<1>4. shown \in SnapshotType
  BY <1>1 DEF IdleSnapshot, NoRows, SnapshotType, States
<1>5. live \in [DOMAIN live -> AdapterType] /\ \A s \in DOMAIN live : FALSE
  BY <1>1
<1>6. TypeOK BY <1>1, <1>2, <1>3, <1>4, <1>5 DEF TypeOK
<1>7. UpdatesAreOwn /\ WorkersHold /\ WaterfallIsOwn
  BY <1>2, <1>5 DEF UpdatesAreOwn, WorkersHold, WaterfallIsOwn
<1>8. InAppShellOnly /\ InMainWindowOnly /\ SnapshotIsOwn
  BY <1>1, <1>2, <1>3 DEF InAppShellOnly, OwnIsLast, OthersAreClosed, Closing, InMainWindowOnly,
                          SnapshotIsOwn
<1>. QED BY <1>6, <1>7, <1>8 DEF IInv

LEMMA StepKeeps == IInv /\ [Next]_vars => IInv'
<1>. SUFFICES ASSUME IInv, [Next]_vars PROVE IInv'
  OBVIOUS
<1>1. CASE InAppShell BY <1>1, AppShellKeeps
<1>2. CASE InMainWindow BY <1>2, MainWindowKeeps
<1>3. CASE InCall BY <1>3, StopLockedKeeps, JoinKeeps DEF InCall
<1>4. ASSUME NEW c \in DOMAIN ctl, AWorker(c) PROVE IInv' BY <1>4, WorkerKeeps
<1>5. CASE UNCHANGED vars
  <2>1. UNCHANGED <<ctl, gui, late, own, requested, expected, shown, live, shell>>
    BY <1>5 DEF vars, presenter, window
  <2>. QED
    BY <2>1 DEF IInv, TypeOK, UpdatesAreOwn, OfController, WorkersHold, InAppShellOnly, OwnIsLast,
                OthersAreClosed, Closing, InMainWindowOnly, SnapshotIsOwn, WaterfallIsOwn
<1>. QED BY <1>1, <1>2, <1>3, <1>4, <1>5 DEF Next

(* IInv is inductive: what the two theorems below rest on.                 *)
LEMMA InvariantHolds == Spec => []IInv
BY InitHolds, StepKeeps, PTL DEF Spec

(* A worker that holds the device besides a later one is one that close()  *)
(* left behind when its join timed out (controller.py, apply_requested).   *)
THEOREM DeviceIsExclusiveCorrect == Spec => []DeviceIsExclusive
<1>1. IInv => DeviceIsExclusive
  <2>. SUFFICES ASSUME IInv, shell = "AppShell", NEW c \in DOMAIN ctl, NEW d \in DOMAIN ctl,
                       c < d, ctl[c].open, ctl[d].open
                PROVE  c \in late
    BY DEF DeviceIsExclusive
  <2>1. OwnIsLast /\ OthersAreClosed BY DEF IInv, InAppShellOnly
  <2>2. c \in 1 .. Len(ctl) /\ d \in 1 .. Len(ctl) /\ Len(ctl) \in Nat
    BY ControllersHaveTypes DEF IInv
  <2>3. c # own BY <2>1, <2>2 DEF OwnIsLast
  <2>4. ctl[c].closed BY <2>1, <2>3 DEF OthersAreClosed
  <2>5. ctl[c].worker # "none" BY DEF IInv, WorkersHold, Holding
  <2>. QED BY <2>1, <2>4, <2>5 DEF OthersAreClosed
<1>. QED BY <1>1, InvariantHolds, PTL

(* Each session is shown what is its own, in either shell: the snapshot of *)
(* the presenter and the waterfalls of the window (live_presenter.py, poll *)
(* and connect; session_adapter.py, apply).                                *)
THEOREM OnlyOwnIsShownCorrect == Spec => []OnlyOwnIsShown
<1>1. IInv => OnlyOwnIsShown BY DEF IInv, OnlyOwnIsShown
<1>. QED BY <1>1, InvariantHolds, PTL

-----------------------------------------------------------------------------
(***************************************************************************)
(* The diagnostics of sdr_monitor.  What the page shows in the end is what *)
(* the service keeps, for every number of self-tests and of tasks, and     *)
(* every capacity of the list of errors.  A task is in one place at a time *)
(* (DxInOrder), so that the answer a callback finds when it is attached is *)
(* not replaced by another; each way a task ends leaves something behind   *)
(* that ends busy (DxCanTest); a failure is on its way to the list or in it*)
(* (DxCounted); and a task that nothing overlaps goes through five stages, *)
(* of which the last shows what is kept (DxAlone).                         *)
(***************************************************************************)
TaskOps == {"tests", "rx", "bundle"}
PoolTasks == [id : Nat \ {0}, op : TaskOps]
WorkPlaces == {"idle", "tests", "keep", "rx", "bundle", "collect", "emit"}
TestResults == Seq({"done", "cancelled"})
Kept == [tests : TestResults, errors : Seq(Nat)]
Showable == TestResults \cup Kept \cup {None}
PaneSignals == [kind : {"tests", "bundle", "snapshot", "busy", "error"}, value : Showable]
AskedType == [tasks : Nat, failed : Nat, overlapped : BOOLEAN]
WorkerType == [at : WorkPlaces, task : Nat, results : TestResults, snapshot : Showable]

DxType ==
  /\ diagnostics \in Kept
  /\ supervisor \in [cancel : BOOLEAN, closed : BOOLEAN, pool : Seq(PoolTasks)]
  /\ worker \in [Workers -> WorkerType]
  /\ attaching \in Nat
  /\ ended = <<>> \/ \E s \in PaneSignals : s.kind \in {"tests", "bundle", "error"} /\ ended = <<s>>
  /\ posted \in Seq(PaneSignals)
  /\ page \in [snapshot : Showable, tests : Showable, canTest : BOOLEAN]
  /\ asked \in AskedType

(* A thread has a task, or the refresh after it, to do.                    *)
Busy(w) == worker[w].at \in {"tests", "keep", "rx", "bundle"}
Reporting(w) == worker[w].at \in {"collect", "emit"}

(* A task is in one place: the pool has them in order, and after those the *)
(* threads have.                                                           *)
DxInOrder ==
  /\ attaching <= asked.tasks
  /\ attaching = 0 => ended = <<>>
  /\ \A w \in Workers : worker[w].at = "idle" => worker[w] = IdleWorker
  /\ \A w \in Workers : Busy(w) => worker[w].task # 0 /\ worker[w].task <= asked.tasks
  /\ \A w, v \in Workers : Busy(w) /\ Busy(v) /\ w # v => worker[w].task # worker[v].task
  /\ \A i \in DOMAIN supervisor.pool :
       /\ supervisor.pool[i].id <= asked.tasks
       /\ \A w \in Workers : Busy(w) => worker[w].task < supervisor.pool[i].id
       /\ \A j \in DOMAIN supervisor.pool : i < j => supervisor.pool[i].id < supervisor.pool[j].id

UnderWay(id) ==
  \/ \E i \in DOMAIN supervisor.pool : supervisor.pool[i].id = id
  \/ \E w \in Workers : Busy(w) /\ worker[w].task = id

(* The task whose callback is to be attached is under way or has ended.    *)
DxAttached ==
  (~supervisor.closed /\ attaching # 0) => (ended = <<>> <=> UnderWay(attaching))

(* The tests can be run again, or something is under way that will say so. *)
DxCanTest ==
  ~supervisor.closed =>
    \/ page.canTest
    \/ supervisor.pool # <<>>
    \/ attaching # 0
    \/ \E w \in Workers : worker[w].at # "idle"
    \/ \E i \in DOMAIN posted : posted[i].kind = "busy"

LEMMA DxTypeInit == DiagnosticsInit => DxType
<1> SUFFICES ASSUME DiagnosticsInit PROVE DxType
    OBVIOUS
<1>1. <<>> \in TestResults /\ diagnostics \in Kept /\ SnapshotOf(diagnostics) \in Kept
      BY DEF DiagnosticsInit, TestResults, Kept, SnapshotOf
<1>2. IdleWorker \in WorkerType
      BY <1>1 DEF IdleWorker, WorkerType, WorkPlaces, Showable
<1>3. page \in [snapshot : Showable, tests : Showable, canTest : BOOLEAN]
      BY <1>1 DEF DiagnosticsInit, Showable
<1>4. asked \in AskedType BY DEF DiagnosticsInit, AskedType
<1> QED BY <1>1, <1>2, <1>3, <1>4 DEF DiagnosticsInit, DxType

(* A post is of signals, or of nothing once the pool is closed.            *)
LEMMA PostType ==
  ASSUME DxType, NEW s \in Seq(PaneSignals), Post(s)
  PROVE posted' \in Seq(PaneSignals)
BY DEF DxType, Post

LEMMA IdleIsWorker == IdleWorker \in WorkerType
BY DEF IdleWorker, WorkerType, WorkPlaces, Showable, TestResults

LEMMA WorkersTyped ==
  ASSUME DxType, NEW w \in Workers
  PROVE worker[w] \in WorkerType
BY DEF DxType

LEMMA WorkerSet ==
  ASSUME DxType, NEW w \in Workers, NEW r \in WorkerType, worker' = [worker EXCEPT ![w] = r]
  PROVE worker' \in [Workers -> WorkerType]
BY DEF DxType

LEMMA WorkerAt ==
  ASSUME DxType, NEW w \in Workers, NEW p \in WorkPlaces, worker' = [worker EXCEPT ![w].at = p]
  PROVE worker' \in [Workers -> WorkerType]
BY DEF DxType, WorkerType

LEMMA ReturnsType ==
  ASSUME DxType, NEW w \in Workers, NEW s \in PaneSignals, s.kind \in {"tests", "bundle"},
         Returns(w, <<s>>)
  PROVE /\ worker' \in [Workers -> WorkerType]
        /\ ended' = <<>> \/ \E t \in PaneSignals : t.kind \in {"tests", "bundle", "error"}
               /\ ended' = <<t>>
        /\ posted' \in Seq(PaneSignals)
<1>1. CASE attaching = worker[w].task
      <2>1. ended' = <<s>> /\ worker' = [worker EXCEPT ![w] = IdleWorker] /\ posted' = posted
            BY <1>1 DEF Returns
      <2> QED BY <2>1, IdleIsWorker, WorkerSet DEF DxType
<1>2. CASE attaching # worker[w].task
      <2>1. Post(<<s>>) /\ worker' = [worker EXCEPT ![w].at = "collect"] /\ ended' = ended
            BY <1>2 DEF Returns
      <2>2. worker' \in [Workers -> WorkerType]
            BY <2>1, WorkerAt DEF WorkPlaces
      <2>3. <<s>> \in Seq(PaneSignals) OBVIOUS
      <2>4. posted' \in Seq(PaneSignals) BY <2>1, <2>3, PostType
      <2> QED BY <2>1, <2>2, <2>4 DEF DxType
<1> QED BY <1>1, <1>2

LEMMA WithErrorType ==
  ASSUME NEW errors \in Seq(Nat)
  PROVE WithError(errors) \in Seq(Nat)
<1> DEFINE longer == Append(errors, Len(errors) + 1)
<1>1. longer \in Seq(Nat) /\ longer # <<>> OBVIOUS
<1>2. Tail(longer) \in Seq(Nat) BY <1>1
<1> QED BY <1>1, <1>2 DEF WithError

LEMMA ReportedType ==
  ASSUME NEW d \in Kept
  PROVE /\ [d EXCEPT !.errors = WithError(@)] \in Kept
        /\ SnapshotOf(d) \in Showable
        /\ SnapshotOf(d) = d
BY WithErrorType DEF Kept, SnapshotOf, Showable

LEMMA SignalType ==
  ASSUME NEW k \in {"tests", "bundle", "snapshot", "busy", "error"}, NEW v \in Showable
  PROVE Signal(k, v) \in PaneSignals /\ Signal(k, v).kind = k /\ Signal(k, v).value = v
BY DEF Signal, PaneSignals

LEMMA BusyOffType == BusyOff \in PaneSignals /\ BusyOff.kind = "busy"
BY SignalType DEF BusyOff, Showable

LEMMA HeadAndTail ==
  ASSUME NEW S, NEW s \in Seq(S), s # <<>>
  PROVE Head(s) \in S /\ Tail(s) \in Seq(S)
OBVIOUS

LEMMA AskedSet ==
  ASSUME NEW a \in AskedType, NEW n \in Nat, NEW b \in BOOLEAN
  PROVE [a EXCEPT !.tasks = n, !.overlapped = b] \in AskedType
<1>1. [a EXCEPT !.tasks = n] \in AskedType BY DEF AskedType
<1> DEFINE c == [a EXCEPT !.tasks = n]
<1> HIDE DEF c
<1>2. ASSUME c \in AskedType PROVE [c EXCEPT !.overlapped = b] \in AskedType
      BY <1>2, Zenon DEF AskedType
<1> QED BY <1>1, <1>2 DEF c

LEMMA DxTypeStep ==
  ASSUME DxType, [DiagnosticsNext]_diagnosticsVars
  PROVE DxType'
<1> USE DEF DxType
<1>a. /\ supervisor.cancel \in BOOLEAN /\ supervisor.closed \in BOOLEAN
      /\ supervisor.pool \in Seq(PoolTasks)
      OBVIOUS
<1>b. asked \in AskedType /\ asked.tasks \in Nat /\ asked.failed \in Nat
      BY DEF AskedType
<1>c. page \in [snapshot : Showable, tests : Showable, canTest : BOOLEAN]
      OBVIOUS
<1>1. ASSUME NEW w \in Workers, Take(w) PROVE DxType'
      <2> DEFINE t == Head(supervisor.pool)
      <2>1. t \in PoolTasks /\ Tail(supervisor.pool) \in Seq(PoolTasks)
            <3>1. supervisor.pool # <<>> BY <1>1 DEF Take
            <3> QED BY ONLY <1>a, <3>1, HeadAndTail
      <2>2. supervisor' \in [cancel : BOOLEAN, closed : BOOLEAN, pool : Seq(PoolTasks)]
            BY <1>1, <2>1 DEF Take
      <2>3. [IdleWorker EXCEPT !.at = t.op, !.task = t.id] \in WorkerType
            BY <2>1, IdleIsWorker DEF WorkerType, TaskOps, WorkPlaces, PoolTasks
      <2>4. worker' \in [Workers -> WorkerType]
            BY <1>1, <2>3, WorkerSet DEF Take
      <2> QED BY <1>1, <2>2, <2>4 DEF Take
<1>2. ASSUME NEW w \in Workers, SelfTest(w) PROVE DxType'
      <2> DEFINE r == worker[w].results
      <2>1. worker[w] \in WorkerType /\ r \in TestResults BY DEF WorkerType
      <2> DEFINE n == Append(r, IF supervisor.cancel THEN "cancelled" ELSE "done")
                 p == IF supervisor.cancel \/ Len(r) + 1 = Cases THEN "keep" ELSE "tests"
      <2>2. n \in TestResults /\ p \in WorkPlaces
            BY <2>1 DEF TestResults, WorkPlaces
      <2>3. worker' = [worker EXCEPT ![w].results = n, ![w].at = p]
            BY ONLY <1>2 DEF SelfTest
      <2> HIDE DEF n, p, r
      <2>4. worker' \in [Workers -> WorkerType] BY <2>2, <2>3 DEF WorkerType
      <2> QED BY <1>2, <2>4 DEF SelfTest
<1>3. ASSUME NEW w \in Workers, KeepTests(w) PROVE DxType'
      <2>1. worker[w].results \in TestResults BY DEF WorkerType
      <2>2. diagnostics' \in Kept BY <1>3, <2>1 DEF KeepTests, Kept
      <2>3. Signal("tests", worker[w].results) \in PaneSignals
              /\ Signal("tests", worker[w].results).kind = "tests"
            BY <2>1, SignalType DEF Showable
      <2>4. /\ worker' \in [Workers -> WorkerType]
            /\ ended' = <<>> \/ \E t \in PaneSignals : t.kind \in {"tests", "bundle", "error"}
                   /\ ended' = <<t>>
            /\ posted' \in Seq(PaneSignals)
            BY <1>3, <2>3, ReturnsType DEF KeepTests
      <2> QED BY <1>3, <2>2, <2>4 DEF KeepTests
<1>4. ASSUME NEW w \in Workers, Succeeds(w) PROVE DxType'
      <2> DEFINE s == IF worker[w].at = "bundle" THEN Signal("bundle", None)
                      ELSE Signal("tests", <<IF supervisor.cancel THEN "cancelled" ELSE "done">>)
      <2>1. s \in PaneSignals /\ s.kind \in {"tests", "bundle"}
            <3>1. None \in Showable /\ <<IF supervisor.cancel THEN "cancelled"
                    ELSE "done">> \in Showable
                  BY DEF Showable, TestResults
            <3> QED BY ONLY <3>1, SignalType
      <2>2. Returns(w, <<s>>) BY <1>4 DEF Succeeds
      <2>3. /\ worker' \in [Workers -> WorkerType]
            /\ ended' = <<>> \/ \E t \in PaneSignals : t.kind \in {"tests", "bundle", "error"}
                   /\ ended' = <<t>>
            /\ posted' \in Seq(PaneSignals)
            BY <2>1, <2>2, ReturnsType
      <2> QED BY <1>4, <2>3 DEF Succeeds
<1>5. ASSUME NEW w \in Workers, Fails(w) PROVE DxType'
      <2>1. Signal("error", None) \in PaneSignals /\ Signal("error", None).kind = "error"
            BY SignalType DEF Showable
      <2>2. <<Signal("error", None), BusyOff>> \in Seq(PaneSignals)
            BY <2>1, BusyOffType
      <2>3. worker' \in [Workers -> WorkerType]
            BY <1>5, IdleIsWorker, WorkerSet DEF Fails
      <2>4. asked' \in AskedType BY ONLY <1>b, <1>5 DEF Fails, AskedType
      <2>5. \/ ended' = <<Signal("error", None)>> /\ posted' = posted
            \/ Post(<<Signal("error", None), BusyOff>>) /\ ended' = ended
            BY <1>5 DEF Fails
      <2>6. posted' \in Seq(PaneSignals) BY <2>2, <2>5, PostType
      <2> QED BY <1>5, <2>1, <2>3, <2>4, <2>5, <2>6 DEF Fails
<1>6. ASSUME NEW w \in Workers, Collect(w) PROVE DxType'
      <2>1. SnapshotOf(diagnostics) \in Showable BY ReportedType
      <2>2. worker[w] \in WorkerType OBVIOUS
      <2>3. [worker[w] EXCEPT !.at = "emit", !.snapshot = SnapshotOf(diagnostics)] \in WorkerType
            BY <2>1, <2>2 DEF WorkerType, WorkPlaces
      <2>4. worker' = [worker EXCEPT ![w] = [worker[w] EXCEPT !.at = "emit", !.snapshot = SnapshotOf(diagnostics)]]
            BY <1>6, <2>2 DEF Collect, WorkerType
      <2>5. worker' \in [Workers -> WorkerType] BY <2>3, <2>4, WorkerSet
      <2> QED BY <1>6, <2>5 DEF Collect
<1>7. ASSUME NEW w \in Workers, EmitSnapshot(w) PROVE DxType'
      <2>1. worker[w].snapshot \in Showable BY DEF WorkerType
      <2>2. <<Signal("snapshot", worker[w].snapshot), BusyOff>> \in Seq(PaneSignals)
            BY <2>1, SignalType, BusyOffType
      <2>3. posted' \in Seq(PaneSignals)
            BY <1>7, <2>2, PostType DEF EmitSnapshot
      <2>4. worker' \in [Workers -> WorkerType]
            BY <1>7, IdleIsWorker, WorkerSet DEF EmitSnapshot
      <2> QED BY <1>7, <2>3, <2>4 DEF EmitSnapshot
<1>8. ASSUME NEW op \in TaskOps, Submit(op) PROVE DxType'
      <2> DEFINE t == [id |-> asked.tasks + 1, op |-> op]
      <2>1. t \in PoolTasks BY ONLY <1>b, <1>8 DEF PoolTasks
      <2>2. Append(supervisor.pool, t) \in Seq(PoolTasks) BY <2>1
      <2>3. supervisor' \in [cancel : BOOLEAN, closed : BOOLEAN, pool : Seq(PoolTasks)]
            BY <1>8, <2>2 DEF Submit
      <2>4. asked' \in AskedType
            <3> DEFINE b == ~AtRest
            <3>1. b \in BOOLEAN OBVIOUS
            <3>2. asked' = [asked EXCEPT !.tasks = @ + 1, !.overlapped = b]
                  BY ONLY <1>8 DEF Submit
            <3> HIDE DEF b
            <3>3. asked.tasks + 1 \in Nat BY ONLY <1>b
            <3> QED BY ONLY <1>b, <3>1, <3>2, <3>3, AskedSet
      <2>5. page' \in [snapshot : Showable, tests : Showable, canTest : BOOLEAN] /\ attaching' \in Nat
            <3>1. page' = [page EXCEPT !.canTest = FALSE] /\ attaching' = asked.tasks + 1
                  BY ONLY <1>8 DEF Submit
            <3>2. page' \in [snapshot : Showable, tests : Showable, canTest : BOOLEAN]
                  BY ONLY <1>c, <3>1, Zenon
            <3> QED BY ONLY <1>b, <3>1, <3>2
      <2> QED BY <1>8, <2>3, <2>4, <2>5 DEF Submit
<1>9. CASE Cancel BY <1>9 DEF Cancel
<1>10. CASE Deliver
      <2> DEFINE s == Head(posted)
      <2>1. s \in PaneSignals /\ posted' \in Seq(PaneSignals)
            BY <1>10 DEF Deliver
      <2>2. s.kind \in {"tests", "bundle", "snapshot", "busy", "error"} /\ s.value \in Showable
            BY <2>1 DEF PaneSignals
      <2> DEFINE reported == [diagnostics EXCEPT !.errors = WithError(@)]
      <2>3. reported \in Kept /\ SnapshotOf(reported) \in Showable
            BY ReportedType
      <2>4. Show(s) BY <1>10 DEF Deliver
      <2> HIDE DEF s
      <2>5. /\ diagnostics' \in Kept
            /\ page' \in [snapshot : Showable, tests : Showable, canTest : BOOLEAN]
            BY <2>2, <2>3, <2>4 DEF Show
      <2> QED BY <1>10, <2>1, <2>5 DEF Deliver
<1>11. CASE Attach
      <2>1. attaching' \in Nat /\ ended' = <<>> BY <1>11 DEF Attach
      <2>2. CASE ended = <<>> BY <1>11, <2>2 DEF Attach
      <2>3. CASE ended # <<>>
            <3> DEFINE s == Head(ended)
                       d == IF s.kind = "error" THEN [diagnostics EXCEPT !.errors = WithError(@)] ELSE diagnostics
            <3>1. s \in PaneSignals BY <2>3
            <3>2. s.value \in Showable BY <3>1 DEF PaneSignals
            <3>3. d \in Kept /\ SnapshotOf(d) \in Showable BY ReportedType
            <3>4. /\ diagnostics' = d
                  /\ page' = [snapshot |-> SnapshotOf(d), canTest |-> TRUE,
                              tests |-> IF s.kind = "tests" THEN s.value ELSE page.tests]
                  BY <1>11, <2>3 DEF Attach
            <3> HIDE DEF s, d
            <3>5. page' \in [snapshot : Showable, tests : Showable, canTest : BOOLEAN]
                  BY <3>2, <3>3, <3>4
            <3> QED BY <1>11, <2>1, <3>3, <3>4, <3>5 DEF Attach
      <2> QED BY <2>2, <2>3
<1>12. CASE Shutdown BY <1>12 DEF Shutdown
<1>13. CASE UNCHANGED diagnosticsVars BY <1>13 DEF diagnosticsVars
<1> QED BY <1>1, <1>2, <1>3, <1>4, <1>5, <1>6, <1>7, <1>8, <1>9, <1>10, <1>11, <1>12, <1>13
        DEF DiagnosticsNext, Works, AskTests, AskOther, TaskOps

-----------------------------------------------------------------------------
(* What the steps of a thread do.                                          *)

(* The other thread stays as it is.                                        *)
OneThread(w) == \A v \in Workers : v # w => worker'[v] = worker[v]

LEMMA Updated ==
  ASSUME DxType, NEW w \in Workers, NEW r, worker' = [worker EXCEPT ![w] = r]
  PROVE OneThread(w) /\ worker'[w] = r
BY DEF DxType, OneThread

LEMMA TakeDoes ==
  ASSUME DxType, NEW w \in Workers, Take(w)
  PROVE /\ supervisor.pool # <<>> /\ worker[w].at = "idle"
        /\ OneThread(w) /\ Busy(w)' /\ worker'[w].task = Head(supervisor.pool).id
        /\ worker'[w].at = Head(supervisor.pool).op
        /\ supervisor'.pool = Tail(supervisor.pool) /\ supervisor'.closed = supervisor.closed
        /\ UNCHANGED <<diagnostics, attaching, ended, posted, page, asked>>
<1> DEFINE t == Head(supervisor.pool)
           n == [IdleWorker EXCEPT !.at = t.op, !.task = t.id]
<1>1. supervisor.pool # <<>> /\ supervisor.pool \in Seq(PoolTasks)
      BY DEF Take, DxType
<1>2. t.op \in TaskOps
      <2>1. t \in PoolTasks BY ONLY <1>1, HeadAndTail
      <2> QED BY <2>1 DEF PoolTasks
<1>3. n.at = t.op /\ n.task = t.id BY DEF IdleWorker
<1>4. worker' = [worker EXCEPT ![w] = n] BY DEF Take
<1>5. OneThread(w) /\ worker'[w] = n BY ONLY <1>4, Updated, DxType
<1>6. Busy(w)' BY <1>2, <1>3, <1>5 DEF Busy, TaskOps
<1>7. supervisor' = [supervisor EXCEPT !.pool = Tail(@)] BY DEF Take
<1>8. supervisor'.pool = Tail(supervisor.pool) /\ supervisor'.closed = supervisor.closed
      BY <1>7 DEF DxType
<1> QED BY <1>1, <1>3, <1>5, <1>6, <1>8 DEF Take

LEMMA SelfTestDoes ==
  ASSUME DxType, NEW w \in Workers, SelfTest(w)
  PROVE /\ worker[w].at = "tests" /\ OneThread(w)
        /\ worker'[w].at \in {"tests", "keep"} /\ worker'[w].task = worker[w].task
        /\ UNCHANGED <<diagnostics, supervisor, attaching, ended, posted, page, asked>>
<1> DEFINE r == worker[w].results
           n == Append(r, IF supervisor.cancel THEN "cancelled" ELSE "done")
           p == IF supervisor.cancel \/ Len(r) + 1 = Cases THEN "keep" ELSE "tests"
<1>1. worker' = [worker EXCEPT ![w].results = n, ![w].at = p] BY DEF SelfTest
<1>2. p \in {"tests", "keep"} OBVIOUS
<1>3. worker \in [Workers -> WorkerType] BY DEF DxType
<1> HIDE DEF n, p
<1>4. OneThread(w) /\ worker'[w].at = p /\ worker'[w].task = worker[w].task
      BY ONLY <1>1, <1>3 DEF OneThread, WorkerType
<1> QED BY <1>2, <1>4 DEF SelfTest

(* A task that has its answer: before its callback is attached, or after.  *)
AnswersEarly(w, s) ==
  /\ attaching = worker[w].task /\ ended' = <<s>>
  /\ worker'[w] = IdleWorker /\ UNCHANGED posted
AnswersLate(w, s) ==
  /\ attaching # worker[w].task /\ UNCHANGED ended
  /\ worker'[w].at = "collect" /\ Post(<<s>>)
Told(s) == s.kind \in {"tests", "bundle"}

LEMMA ReturnsDoes ==
  ASSUME DxType, NEW w \in Workers, NEW s, Returns(w, <<s>>)
  PROVE OneThread(w) /\ (AnswersEarly(w, s) \/ AnswersLate(w, s))
<1>1. CASE attaching = worker[w].task
      <2>1. ended' = <<s>> /\ worker' = [worker EXCEPT ![w] = IdleWorker] /\ posted' = posted
            BY <1>1 DEF Returns
      <2> QED BY <1>1, <2>1, Updated DEF AnswersEarly
<1>2. CASE attaching # worker[w].task
      <2>1. Post(<<s>>) /\ worker' = [worker EXCEPT ![w].at = "collect"] /\ ended' = ended
            BY <1>2 DEF Returns
      <2>2. worker \in [Workers -> WorkerType] BY DEF DxType
      <2>3. worker'[w].at = "collect" /\ OneThread(w)
            BY ONLY <2>1, <2>2 DEF OneThread, WorkerType
      <2> QED BY <1>2, <2>1, <2>3 DEF AnswersLate
<1> QED BY <1>1, <1>2

LEMMA AnswerDoes ==
  ASSUME DxType, NEW w \in Workers, KeepTests(w) \/ Succeeds(w)
  PROVE /\ Busy(w) /\ OneThread(w) /\ UNCHANGED <<supervisor, attaching, page, asked>>
        /\ diagnostics'.errors = diagnostics.errors
        /\ \E s : Told(s) /\ (AnswersEarly(w, s) \/ AnswersLate(w, s))
<1>1. CASE KeepTests(w)
      <2> DEFINE s == Signal("tests", worker[w].results)
      <2>1. Returns(w, <<s>>) /\ Told(s) /\ Busy(w)
            BY <1>1 DEF KeepTests, Told, Signal, Busy
      <2>2. diagnostics'.errors = diagnostics.errors
            BY <1>1 DEF KeepTests, DxType, Kept
      <2> QED BY <1>1, <2>1, <2>2, ReturnsDoes DEF KeepTests
<1>2. CASE Succeeds(w)
      <2> DEFINE s == IF worker[w].at = "bundle" THEN Signal("bundle", None)
                      ELSE Signal("tests", <<IF supervisor.cancel THEN "cancelled" ELSE "done">>)
      <2>1. Returns(w, <<s>>) /\ Told(s) /\ Busy(w)
            BY <1>2 DEF Succeeds, Told, Signal, Busy
      <2> QED BY <1>2, <2>1, ReturnsDoes DEF Succeeds
<1> QED BY <1>1, <1>2

ErrorSignal == Signal("error", None)
FailsEarly(w) ==
  attaching = worker[w].task /\ ended' = <<ErrorSignal>> /\ UNCHANGED posted
FailsLate(w) ==
  attaching # worker[w].task /\ UNCHANGED ended /\ Post(<<ErrorSignal, BusyOff>>)

LEMMA FailsDoes ==
  ASSUME DxType, NEW w \in Workers, Fails(w)
  PROVE /\ Busy(w) /\ OneThread(w) /\ worker'[w] = IdleWorker
        /\ UNCHANGED <<diagnostics, supervisor, attaching, page>>
        /\ asked'.tasks = asked.tasks /\ asked'.overlapped = asked.overlapped
        /\ asked'.failed = asked.failed + 1
        /\ FailsEarly(w) \/ FailsLate(w)
<1>1. worker' = [worker EXCEPT ![w] = IdleWorker] /\ asked' = [asked EXCEPT !.failed = @ + 1]
      BY DEF Fails
<1>2. OneThread(w) /\ worker'[w] = IdleWorker BY <1>1, Updated
<1>3. /\ asked'.tasks = asked.tasks /\ asked'.overlapped = asked.overlapped
      /\ asked'.failed = asked.failed + 1
      BY <1>1 DEF DxType, AskedType
<1> QED BY <1>2, <1>3 DEF Fails, FailsEarly, FailsLate, ErrorSignal, Busy

LEMMA CollectDoes ==
  ASSUME DxType, NEW w \in Workers, Collect(w)
  PROVE /\ worker[w].at = "collect" /\ OneThread(w)
        /\ worker'[w].at = "emit" /\ worker'[w].snapshot = SnapshotOf(diagnostics)
        /\ UNCHANGED <<diagnostics, supervisor, attaching, ended, posted, page, asked>>
<1> DEFINE n == SnapshotOf(diagnostics)
<1>1. worker' = [worker EXCEPT ![w].at = "emit", ![w].snapshot = n]
      BY DEF Collect
<1>2. worker \in [Workers -> WorkerType] BY DEF DxType
<1> HIDE DEF n
<1>3. OneThread(w) /\ worker'[w].at = "emit" /\ worker'[w].snapshot = n
      BY ONLY <1>1, <1>2 DEF OneThread, WorkerType
<1> QED BY <1>3 DEF Collect, n

LEMMA EmitDoes ==
  ASSUME DxType, NEW w \in Workers, EmitSnapshot(w)
  PROVE /\ worker[w].at = "emit" /\ OneThread(w) /\ worker'[w] = IdleWorker
        /\ Post(<<Signal("snapshot", worker[w].snapshot), BusyOff>>)
        /\ UNCHANGED <<diagnostics, supervisor, attaching, ended, page, asked>>
BY Updated DEF EmitSnapshot

LEMMA SubmitDoes ==
  ASSUME DxType, NEW op \in TaskOps, Submit(op)
  PROVE /\ attaching = 0 /\ ~supervisor.closed
        /\ asked'.tasks = asked.tasks + 1 /\ asked'.failed = asked.failed
        /\ asked'.overlapped = ~AtRest
        /\ attaching' = asked.tasks + 1
        /\ supervisor'.pool = Append(supervisor.pool, [id |-> asked.tasks + 1, op |-> op])
        /\ supervisor'.closed = supervisor.closed
        /\ page'.canTest = FALSE
        /\ UNCHANGED <<diagnostics, worker, ended, posted>>
<1> DEFINE b == ~AtRest
           p == Append(supervisor.pool, [id |-> asked.tasks + 1, op |-> op])
<1>1. /\ asked' = [asked EXCEPT !.tasks = @ + 1, !.overlapped = b]
      /\ supervisor' = [supervisor EXCEPT !.cancel = FALSE, !.pool = p]
      /\ page' = [page EXCEPT !.canTest = FALSE]
      BY DEF Submit
<1>2. DxType OBVIOUS
<1> HIDE DEF b, p
<1>3. asked'.tasks = asked.tasks + 1 /\ asked'.failed = asked.failed /\ asked'.overlapped = b
      BY ONLY <1>1, <1>2 DEF DxType, AskedType
<1>4. supervisor'.pool = p /\ supervisor'.closed = supervisor.closed
      BY ONLY <1>1, <1>2 DEF DxType
<1>5. page'.canTest = FALSE BY ONLY <1>1, <1>2 DEF DxType
<1> QED BY <1>3, <1>4, <1>5 DEF Submit, b, p


-----------------------------------------------------------------------------
(* Where a task is                                                         *)

LEMMA DxInOrderInit == DiagnosticsInit => DxInOrder
BY DEF DiagnosticsInit, DxInOrder, Busy, IdleWorker, Workers

(* A thread that has no more of a task than before disturbs nothing.       *)
LEMMA ThreadInOrder ==
  ASSUME DxInOrder, NEW w \in Workers, OneThread(w), Busy(w)' => Busy(w)
         /\ worker'[w].task = worker[w].task,
         worker'[w].at = "idle" => worker'[w] = IdleWorker,
         supervisor'.pool = supervisor.pool, attaching' = attaching, asked'.tasks = asked.tasks,
         attaching = 0 => ended' = <<>>
  PROVE DxInOrder'
<1>1. \A v \in Workers : Busy(v)' => Busy(v) /\ worker'[v].task = worker[v].task
      BY DEF OneThread, Busy
<1>2. \A v \in Workers : worker'[v].at = "idle" => worker'[v] = IdleWorker
      BY DEF OneThread, DxInOrder
<1> QED BY <1>1, <1>2 DEF DxInOrder

LEMMA DxInOrderStep ==
  ASSUME DxType, DxInOrder, [DiagnosticsNext]_diagnosticsVars
  PROVE DxInOrder'
<1>1. ASSUME NEW w \in Workers, Take(w) PROVE DxInOrder'
      <2> DEFINE p == supervisor.pool
      <2>1. p \in Seq(PoolTasks) /\ p # <<>> BY <1>1, TakeDoes DEF DxType
      <2>2. DOMAIN Tail(p) = 1..(Len(p) - 1) /\ \A i \in DOMAIN Tail(p) : Tail(p)[i] = p[i + 1]
            BY <2>1
      <2>3. p[1] = Head(p) /\ DOMAIN p = 1..Len(p) /\ Len(p) \in Nat /\ Len(p) >= 1
            BY <2>1
      <2>4. /\ OneThread(w) /\ Busy(w)' /\ worker'[w].task = p[1].id
            /\ supervisor'.pool = Tail(p) /\ UNCHANGED <<attaching, ended, asked>>
            BY <1>1, <2>3, TakeDoes
      <2>5. \A i \in DOMAIN p : p[i].id \in Nat \ {0} /\ p[i].id <= asked.tasks
            <3>1. \A i \in DOMAIN p : p[i] \in PoolTasks BY <2>1
            <3> QED BY <3>1 DEF PoolTasks, DxInOrder
      <2>6. \A v \in Workers : v # w => (Busy(v)' <=> Busy(v)) /\ worker'[v] = worker[v]
            BY <2>4 DEF OneThread, Busy
      <2>7. \A v \in Workers : worker[v].task \in Nat BY DEF DxType, WorkerType
      <2> HIDE DEF p
      <2>8. \A v \in Workers : worker'[v].at = "idle" => worker'[v] = IdleWorker
            BY <2>4, <2>6 DEF DxInOrder, Busy
      <2>9. \A v \in Workers : Busy(v)' => worker'[v].task # 0 /\ worker'[v].task <= asked'.tasks
            BY <2>3, <2>4, <2>5, <2>6 DEF DxInOrder
      <2>10. \A v \in Workers : Busy(v) => worker[v].task < p[1].id
            BY <2>3 DEF DxInOrder, p
      <2>11. \A v, x \in Workers : Busy(v)' /\ Busy(x)' /\ v # x => worker'[v].task # worker'[x].task
            <3>1. \A v \in Workers : Busy(v)' /\ v # w => worker'[v].task # worker'[w].task
                  BY <2>3, <2>4, <2>5, <2>6, <2>7, <2>10
            <3>2. \A v, x \in Workers : Busy(v)' /\ Busy(x)' /\ v # x /\ v # w /\ x # w
                    => worker'[v].task # worker'[x].task
                  BY <2>6 DEF DxInOrder
            <3> QED BY <3>1, <3>2
      <2>12. \A i \in DOMAIN p : 1 < i => p[1].id < p[i].id
            BY <2>3 DEF DxInOrder, p
      <2>13. \A i \in DOMAIN p, v \in Workers : Busy(v)' /\ 1 < i => worker'[v].task < p[i].id
            <3>1. \A i \in DOMAIN p, v \in Workers : Busy(v) => worker[v].task < p[i].id
                  BY DEF DxInOrder, p
            <3> QED BY <2>4, <2>6, <2>12, <3>1
      <2>14. \A i, j \in DOMAIN p : i < j => p[i].id < p[j].id
            BY DEF DxInOrder, p
      <2>15. \A i \in DOMAIN Tail(p) :
               /\ Tail(p)[i].id <= asked'.tasks
               /\ \A v \in Workers : Busy(v)' => worker'[v].task < Tail(p)[i].id
               /\ \A j \in DOMAIN Tail(p) : i < j => Tail(p)[i].id < Tail(p)[j].id
            <3> TAKE i \in DOMAIN Tail(p)
            <3>1. i \in Nat /\ i >= 1 /\ i + 1 \in DOMAIN p /\ Tail(p)[i] = p[i + 1]
                  BY <2>2, <2>3
            <3>2. \A v \in Workers : Busy(v)' => worker'[v].task < p[i + 1].id
                  BY <2>13, <3>1
            <3>3. ASSUME NEW j \in DOMAIN Tail(p), i < j PROVE Tail(p)[i].id < Tail(p)[j].id
                  <4>1. j \in Nat /\ j + 1 \in DOMAIN p /\ Tail(p)[j] = p[j + 1] /\ i + 1 < j + 1
                        BY <2>2, <2>3, <3>1, <3>3
                  <4> QED BY <2>14, <3>1, <4>1
            <3> QED BY <2>4, <2>5, <3>1, <3>2, <3>3
      <2>16. attaching' <= asked'.tasks /\ (attaching' = 0 => ended' = <<>>)
            BY <2>4 DEF DxInOrder
      <2> QED BY <2>4, <2>8, <2>9, <2>11, <2>15, <2>16 DEF DxInOrder
<1>2. ASSUME NEW w \in Workers, SelfTest(w) PROVE DxInOrder'
      BY <1>2, SelfTestDoes, ThreadInOrder DEF Busy, DxInOrder
<1>3. ASSUME NEW w \in Workers, KeepTests(w) \/ Succeeds(w) PROVE DxInOrder'
      <2>1. /\ Busy(w) /\ OneThread(w) /\ UNCHANGED <<supervisor, attaching, asked>>
            /\ \E s : Told(s) /\ (AnswersEarly(w, s) \/ AnswersLate(w, s))
            BY <1>3, AnswerDoes
      <2>2. ~Busy(w)' /\ (worker'[w].at = "idle" => worker'[w] = IdleWorker)
            BY <2>1 DEF AnswersEarly, AnswersLate, Busy, IdleWorker
      <2>3. worker[w].task # 0 BY <2>1 DEF DxInOrder
      <2>4. attaching = 0 => ended' = <<>>
            BY <2>1, <2>3 DEF DxInOrder, AnswersEarly, AnswersLate
      <2> QED BY <2>1, <2>2, <2>4, ThreadInOrder
<1>5. ASSUME NEW w \in Workers, Fails(w) PROVE DxInOrder'
      <2>1. /\ Busy(w) /\ OneThread(w) /\ worker'[w] = IdleWorker
            /\ UNCHANGED <<supervisor, attaching>> /\ asked'.tasks = asked.tasks
            /\ FailsEarly(w) \/ FailsLate(w)
            BY <1>5, FailsDoes
      <2>2. ~Busy(w)' BY <2>1 DEF Busy, IdleWorker
      <2>3. worker[w].task # 0 BY <2>1 DEF DxInOrder
      <2>4. attaching = 0 => ended' = <<>>
            BY <2>1, <2>3 DEF DxInOrder, FailsEarly, FailsLate
      <2> QED BY <2>1, <2>2, <2>4, ThreadInOrder
<1>6. ASSUME NEW w \in Workers, Collect(w) PROVE DxInOrder'
      BY <1>6, CollectDoes, ThreadInOrder DEF Busy, DxInOrder
<1>7. ASSUME NEW w \in Workers, EmitSnapshot(w) PROVE DxInOrder'
      <2>1. /\ worker[w].at = "emit" /\ OneThread(w) /\ worker'[w] = IdleWorker
            /\ UNCHANGED <<supervisor, attaching, ended, asked>>
            BY <1>7, EmitDoes
      <2>2. ~Busy(w)' BY <2>1 DEF Busy, IdleWorker
      <2>3. attaching = 0 => ended' = <<>> BY <2>1 DEF DxInOrder
      <2> QED BY <2>1, <2>2, <2>3, ThreadInOrder
<1>8. ASSUME NEW op \in TaskOps, Submit(op) PROVE DxInOrder'
      <2> DEFINE p == supervisor.pool
                 n == asked.tasks + 1
                 t == [id |-> n, op |-> op]
      <2>1. p \in Seq(PoolTasks) /\ asked.tasks \in Nat
            BY DEF DxType, AskedType
      <2>2. /\ attaching = 0 /\ attaching' = n /\ asked'.tasks = n
            /\ supervisor'.pool = Append(p, t) /\ UNCHANGED <<worker, ended>>
            BY <1>8, SubmitDoes
      <2>3. /\ DOMAIN Append(p, t) = 1..(Len(p) + 1) /\ DOMAIN p = 1..Len(p) /\ Len(p) \in Nat
            /\ \A i \in DOMAIN p : Append(p, t)[i] = p[i]
            /\ Append(p, t)[Len(p) + 1].id = n
            BY <2>1
      <2>4. \A v \in Workers : worker[v].task \in Nat BY DEF DxType, WorkerType
      <2>5. \A i \in DOMAIN p : p[i].id \in Nat
            <3>1. \A i \in DOMAIN p : p[i] \in PoolTasks BY <2>1
            <3> QED BY <3>1 DEF PoolTasks
      <2>6. \A v \in Workers : Busy(v)' <=> Busy(v) BY <2>2 DEF Busy
      <2>7. /\ \A i \in DOMAIN p : p[i].id <= asked.tasks
            /\ \A i \in DOMAIN p, v \in Workers : Busy(v) => worker[v].task < p[i].id
            /\ \A i, j \in DOMAIN p : i < j => p[i].id < p[j].id
            /\ \A v \in Workers : Busy(v) => worker[v].task # 0 /\ worker[v].task <= asked.tasks
            BY DEF DxInOrder
      <2> HIDE DEF p, t
      <2>8. \A i \in DOMAIN Append(p, t) :
              /\ Append(p, t)[i].id <= n
              /\ \A v \in Workers : Busy(v) => worker[v].task < Append(p, t)[i].id
              /\ \A j \in DOMAIN Append(p, t) : i < j => Append(p, t)[i].id < Append(p, t)[j].id
            <3> TAKE i \in DOMAIN Append(p, t)
            <3>1. CASE i \in DOMAIN p BY <2>1, <2>3, <2>4, <2>5, <2>7, <3>1
            <3>2. CASE i = Len(p) + 1 BY <2>1, <2>3, <2>4, <2>7, <3>2
            <3> QED BY <2>3, <3>1, <3>2
      <2>9. \A v \in Workers : Busy(v) => worker[v].task # 0 /\ worker[v].task <= n
            BY <2>1, <2>4, <2>7
      <2> HIDE DEF n
      <2>10. n <= n /\ (n = 0 => ended = <<>>) BY <2>1 DEF n
      <2> QED BY <2>2, <2>6, <2>8, <2>9, <2>10 DEF DxInOrder
<1>9. CASE Cancel
      <2>1. supervisor'.pool = supervisor.pool /\ UNCHANGED <<worker, attaching, ended, asked>>
            BY <1>9 DEF Cancel, DxType
      <2> QED BY <2>1 DEF DxInOrder, Busy
<1>10. CASE Deliver BY <1>10 DEF Deliver, DxInOrder, Busy
<1>11. CASE Attach
      <2>1. attaching' = 0 /\ ended' = <<>> /\ UNCHANGED <<supervisor, worker, asked>>
            BY <1>11 DEF Attach
      <2> QED BY <2>1 DEF DxInOrder, Busy, DxType, AskedType
<1>12. CASE Shutdown
      <2>1. supervisor'.pool = <<>> /\ UNCHANGED <<worker, attaching, ended, asked>>
            BY <1>12 DEF Shutdown
      <2> QED BY <2>1 DEF DxInOrder, Busy
<1>13. CASE UNCHANGED diagnosticsVars
      BY <1>13 DEF diagnosticsVars, DxInOrder, Busy
<1> QED BY <1>1, <1>2, <1>3, <1>5, <1>6, <1>7, <1>8, <1>9, <1>10, <1>11, <1>12, <1>13
        DEF DiagnosticsNext, Works, AskTests, AskOther, TaskOps


LEMMA DxAttachedStep ==
  ASSUME DxType, DxInOrder, DxAttached, [DiagnosticsNext]_diagnosticsVars
  PROVE DxAttached'
<1>1. ASSUME NEW w \in Workers, Take(w) PROVE DxAttached'
      <2> DEFINE p == supervisor.pool
      <2>1. p \in Seq(PoolTasks) /\ p # <<>> BY <1>1, TakeDoes DEF DxType
      <2>2. DOMAIN Tail(p) = 1..(Len(p) - 1) /\ \A i \in DOMAIN Tail(p) : Tail(p)[i] = p[i + 1]
            BY <2>1
      <2>3. p[1] = Head(p) /\ DOMAIN p = 1..Len(p) /\ Len(p) \in Nat /\ Len(p) >= 1
            BY <2>1
      <2>4. /\ OneThread(w) /\ Busy(w)' /\ worker'[w].task = p[1].id /\ ~Busy(w)
            /\ supervisor'.pool = Tail(p) /\ supervisor'.closed = supervisor.closed
            /\ UNCHANGED <<attaching, ended>>
            BY <1>1, <2>3, TakeDoes DEF Busy
      <2>5. \A v \in Workers : v # w => (Busy(v)' <=> Busy(v)) /\ worker'[v] = worker[v]
            BY <2>4 DEF OneThread, Busy
      <2>6. \A id : (\E i \in DOMAIN p : p[i].id = id)
              <=> (p[1].id = id \/ \E i \in DOMAIN Tail(p) : Tail(p)[i].id = id)
            <3> TAKE id
            <3> HIDE DEF p
            <3>1. ASSUME NEW i \in DOMAIN p, p[i].id = id, i # 1
                    PROVE \E j \in DOMAIN Tail(p) : Tail(p)[j].id = id
                  <4>1. i - 1 \in DOMAIN Tail(p) /\ Tail(p)[i - 1] = p[i]
                        BY <2>2, <2>3, <3>1
                  <4> QED BY <3>1, <4>1
            <3>2. ASSUME NEW j \in DOMAIN Tail(p) PROVE j + 1 \in DOMAIN p /\ Tail(p)[j] = p[j + 1]
                  BY <2>2, <2>3
            <3> QED BY <2>3, <3>1, <3>2
      <2> HIDE DEF p
      <2>7. \A id : (\E v \in Workers : Busy(v)' /\ worker'[v].task = id)
                    <=> (p[1].id = id \/ \E v \in Workers : Busy(v) /\ worker[v].task = id)
            BY <2>4, <2>5
      <2>8. UnderWay(attaching) <=> UnderWay(attaching)'
            <3> DEFINE id == attaching
            <3>1. (\E i \in DOMAIN p : p[i].id = id)
                    <=> (p[1].id = id \/ \E i \in DOMAIN Tail(p) : Tail(p)[i].id = id)
                  BY ONLY <2>6
            <3>2. (\E v \in Workers : Busy(v)' /\ worker'[v].task = id)
                  <=> (p[1].id = id \/ \E v \in Workers : Busy(v) /\ worker[v].task = id)
                  BY ONLY <2>7
            <3>3. UnderWay(attaching)' <=> \/ \E i \in DOMAIN Tail(p) : Tail(p)[i].id = id
                                          \/ \E v \in Workers : Busy(v)' /\ worker'[v].task = id
                  BY ONLY <2>4 DEF UnderWay
            <3>4. UnderWay(attaching) <=> \/ \E i \in DOMAIN p : p[i].id = id
                                         \/ \E v \in Workers : Busy(v) /\ worker[v].task = id
                  BY ONLY DEF UnderWay, p
            <3> HIDE DEF id
            <3> QED BY ONLY <3>1, <3>2, <3>3, <3>4
      <2> QED BY <2>4, <2>8 DEF DxAttached
<1>2. ASSUME NEW w \in Workers, OneThread(w), UNCHANGED <<attaching, ended>>,
             supervisor'.pool = supervisor.pool, supervisor'.closed = supervisor.closed,
             Busy(w)' <=> Busy(w), Busy(w) => worker'[w].task = worker[w].task
      PROVE DxAttached'
      BY <1>2 DEF DxAttached, UnderWay, OneThread, Busy
(* The task w has is done with, and its callback attached or not.          *)
<1>3. ASSUME NEW w \in Workers, OneThread(w), Busy(w), ~Busy(w)', UNCHANGED <<supervisor, attaching>>,
             IF attaching = worker[w].task THEN ended' # <<>> ELSE UNCHANGED ended
      PROVE DxAttached'
      <2>1. \A v \in Workers : v # w => (Busy(v)' <=> Busy(v)) /\ worker'[v] = worker[v]
            BY <1>3 DEF OneThread, Busy
      <2>2. CASE attaching = worker[w].task
            <3>1. \A i \in DOMAIN supervisor.pool : worker[w].task < supervisor.pool[i].id
                  BY <1>3 DEF DxInOrder
            <3>2. worker[w].task \in Nat BY DEF DxType, WorkerType
            <3>3. \A i \in DOMAIN supervisor.pool : supervisor.pool[i].id # attaching
                  BY <2>2, <3>1, <3>2
            <3>4. \A v \in Workers : v # w /\ Busy(v) => worker[v].task # attaching
                  BY <1>3, <2>2 DEF DxInOrder
            <3>5. ~UnderWay(attaching)' BY <1>3, <2>1, <3>3, <3>4 DEF UnderWay
            <3> QED BY <1>3, <2>2, <3>5 DEF DxAttached
      <2>3. CASE attaching # worker[w].task
            <3>1. UnderWay(attaching)' <=> UnderWay(attaching)
                  BY <1>3, <2>1, <2>3 DEF UnderWay
            <3> QED BY <1>3, <2>3, <3>1 DEF DxAttached
      <2> QED BY <2>2, <2>3
<1>4. ASSUME NEW w \in Workers, KeepTests(w) \/ Succeeds(w) PROVE DxAttached'
      <2>1. /\ Busy(w) /\ OneThread(w) /\ UNCHANGED <<supervisor, attaching>>
            /\ \E s : AnswersEarly(w, s) \/ AnswersLate(w, s)
            BY <1>4, AnswerDoes
      <2>2. ~Busy(w)' /\ IF attaching = worker[w].task THEN ended' # <<>> ELSE UNCHANGED ended
            BY <2>1 DEF AnswersEarly, AnswersLate, Busy, IdleWorker
      <2> QED BY <1>3, <2>1, <2>2
<1>5. ASSUME NEW w \in Workers, Fails(w) PROVE DxAttached'
      <2>1. /\ Busy(w) /\ OneThread(w) /\ worker'[w] = IdleWorker
            /\ UNCHANGED <<supervisor, attaching>> /\ (FailsEarly(w) \/ FailsLate(w))
            BY <1>5, FailsDoes
      <2>2. ~Busy(w)' BY <2>1 DEF Busy, IdleWorker
      <2>3. IF attaching = worker[w].task THEN ended' # <<>> ELSE UNCHANGED ended
            BY ONLY <2>1 DEF FailsEarly, FailsLate
      <2> QED BY <1>3, <2>1, <2>2, <2>3
<1>6. ASSUME NEW w \in Workers, SelfTest(w) PROVE DxAttached'
      <2>1. /\ OneThread(w) /\ UNCHANGED <<attaching, ended, supervisor>>
            /\ (Busy(w)' <=> Busy(w)) /\ worker'[w].task = worker[w].task
            BY <1>6, SelfTestDoes DEF Busy
      <2> QED BY <1>2, <2>1
<1>7. ASSUME NEW w \in Workers, Collect(w) \/ EmitSnapshot(w) PROVE DxAttached'
      <2>1. OneThread(w) /\ UNCHANGED <<attaching, ended, supervisor>> /\ ~Busy(w)' /\ ~Busy(w)
            <3>1. CASE Collect(w) BY <3>1, CollectDoes DEF Busy
            <3>2. CASE EmitSnapshot(w)
                  <4>1. /\ worker[w].at = "emit" /\ OneThread(w) /\ worker'[w] = IdleWorker
                        /\ UNCHANGED <<attaching, ended, supervisor>>
                        BY <3>2, EmitDoes
                  <4> QED BY <4>1 DEF Busy, IdleWorker
            <3> QED BY <1>7, <3>1, <3>2
      <2> QED BY <1>2, <2>1
<1>8. ASSUME NEW op \in TaskOps, Submit(op) PROVE DxAttached'
      <2> DEFINE p == supervisor.pool
                 t == [id |-> asked.tasks + 1, op |-> op]
      <2>1. /\ attaching = 0 /\ attaching' = t.id
            /\ supervisor'.pool = Append(p, t) /\ UNCHANGED ended
            BY <1>8, SubmitDoes
      <2>2. Len(p) + 1 \in DOMAIN Append(p, t) /\ Append(p, t)[Len(p) + 1] = t
            BY DEF DxType
      <2> HIDE DEF p, t
      <2>3. UnderWay(attaching)' /\ ended' = <<>>
            BY <2>1, <2>2 DEF UnderWay, DxInOrder
      <2> QED BY <2>3 DEF DxAttached
<1>9. CASE Cancel
      <2>1. /\ supervisor'.pool = supervisor.pool /\ supervisor'.closed = supervisor.closed
            /\ UNCHANGED <<worker, attaching, ended>>
            BY <1>9 DEF Cancel, DxType
      <2> QED BY <2>1 DEF DxAttached, UnderWay, Busy
<1>10. CASE Deliver BY <1>10 DEF Deliver, DxAttached, UnderWay, Busy
<1>11. CASE Attach BY <1>11 DEF Attach, DxAttached
<1>12. CASE Shutdown BY <1>12 DEF Shutdown, DxAttached
<1>13. CASE UNCHANGED diagnosticsVars
      BY <1>13 DEF diagnosticsVars, DxAttached, UnderWay, Busy
<1> QED BY <1>1, <1>4, <1>5, <1>6, <1>7, <1>8, <1>9, <1>10, <1>11, <1>12, <1>13
        DEF DiagnosticsNext, Works, AskTests, AskOther, TaskOps

(* What is posted while the page is there comes after what was posted.     *)
LEMMA PostKeeps ==
  ASSUME DxType, NEW s \in Seq(PaneSignals), Post(s), ~supervisor.closed
  PROVE /\ posted' = posted \o s
        /\ \A i \in DOMAIN posted : i \in DOMAIN posted' /\ posted'[i] = posted[i]
        /\ \A i \in DOMAIN s : Len(posted) + i \in DOMAIN posted' /\ posted'[Len(posted) + i] = s[i]
<1>1. posted' = posted \o s /\ posted \in Seq(PaneSignals) BY DEF Post, DxType
<1> QED BY ONLY <1>1, s \in Seq(PaneSignals)

LEMMA DxCanTestStep ==
  ASSUME DxType, DxInOrder, DxAttached, DxCanTest, [DiagnosticsNext]_diagnosticsVars
  PROVE DxCanTest'
<1> SUFFICES ASSUME ~supervisor'.closed PROVE DxCanTest'
    BY DEF DxCanTest
<1>0. ~supervisor.closed
      <2>1. ASSUME NEW op \in TaskOps, Submit(op) PROVE supervisor'.closed = supervisor.closed
            BY <2>1, SubmitDoes
      <2>2. ASSUME NEW w \in Workers, Take(w) \/ Works(w) PROVE supervisor'.closed = supervisor.closed
            BY <2>2, TakeDoes, SelfTestDoes, AnswerDoes, FailsDoes, CollectDoes, EmitDoes DEF Works
      <2>3. CASE Cancel BY <2>3 DEF Cancel, DxType
      <2>4. CASE Shutdown BY <2>4 DEF Shutdown
      <2>5. CASE Deliver \/ Attach \/ UNCHANGED diagnosticsVars
            BY <2>5 DEF Deliver, Attach, diagnosticsVars
      <2> QED BY <2>1, <2>2, <2>3, <2>4, <2>5 DEF DiagnosticsNext, AskTests, AskOther, TaskOps
<1>1. ASSUME NEW w \in Workers, worker'[w].at # "idle" PROVE DxCanTest'
      BY <1>1 DEF DxCanTest
<1>2. ASSUME attaching' # 0 PROVE DxCanTest' BY <1>2 DEF DxCanTest
<1>3. ASSUME NEW i \in DOMAIN posted', posted'[i].kind = "busy" PROVE DxCanTest'
      BY <1>3 DEF DxCanTest
<1>4. ASSUME NEW w \in Workers, NEW s \in Seq(PaneSignals), Len(s) = 2, s[2] = BusyOff, Post(s) PROVE DxCanTest'
      <2>1. 2 \in DOMAIN s BY <1>4
      <2>2. Len(posted) + 2 \in DOMAIN posted' /\ posted'[Len(posted) + 2].kind = "busy"
            BY <1>0, <1>4, <2>1, PostKeeps, BusyOffType
      <2> QED BY <1>3, <2>2
<1>5. ASSUME NEW w \in Workers, Take(w) PROVE DxCanTest'
      <2>1. worker'[w].at # "idle" BY <1>5, TakeDoes DEF Busy
      <2> QED BY <1>1, <2>1
<1>6. ASSUME NEW w \in Workers, SelfTest(w) \/ Collect(w) PROVE DxCanTest'
      BY <1>1, <1>6, SelfTestDoes, CollectDoes
<1>7. ASSUME NEW w \in Workers, KeepTests(w) \/ Succeeds(w) PROVE DxCanTest'
      <2>1. /\ Busy(w) /\ UNCHANGED <<attaching>>
            /\ \E s : AnswersEarly(w, s) \/ AnswersLate(w, s)
            BY <1>7, AnswerDoes
      <2>2. worker[w].task # 0 BY <2>1 DEF DxInOrder
      <2> QED BY <1>1, <1>2, <2>1, <2>2 DEF AnswersEarly, AnswersLate
<1>8. ASSUME NEW w \in Workers, Fails(w) PROVE DxCanTest'
      <2>1. Busy(w) /\ UNCHANGED <<attaching>> /\ (FailsEarly(w) \/ FailsLate(w))
            BY <1>8, FailsDoes
      <2>2. worker[w].task # 0 BY <2>1 DEF DxInOrder
      <2>3. <<ErrorSignal, BusyOff>> \in Seq(PaneSignals)
            <3>1. ErrorSignal \in PaneSignals
                  BY SignalType DEF ErrorSignal, Showable
            <3> QED BY <3>1, BusyOffType
      <2>4. Len(<<ErrorSignal, BusyOff>>) = 2 /\ <<ErrorSignal, BusyOff>>[2] = BusyOff
            OBVIOUS
      <2> QED BY <1>2, <1>4, <2>1, <2>2, <2>3, <2>4 DEF FailsEarly, FailsLate
<1>9. ASSUME NEW w \in Workers, EmitSnapshot(w) PROVE DxCanTest'
      <2> DEFINE s == <<Signal("snapshot", worker[w].snapshot), BusyOff>>
      <2>1. worker[w].snapshot \in Showable BY DEF DxType, WorkerType
      <2>2. s \in Seq(PaneSignals) /\ Len(s) = 2 /\ s[2] = BusyOff
            BY <2>1, SignalType, BusyOffType
      <2>3. Post(s) BY <1>9, EmitDoes
      <2> QED BY <1>4, <2>2, <2>3
<1>10. ASSUME NEW op \in TaskOps, Submit(op) PROVE DxCanTest'
      <2>1. attaching' = asked.tasks + 1 /\ asked.tasks \in Nat
            BY <1>10, SubmitDoes DEF DxType, AskedType
      <2>2. attaching' # 0 BY <2>1
      <2> QED BY <1>2, <2>2
<1>11. CASE Cancel
      <2>1. supervisor'.pool = supervisor.pool /\ UNCHANGED <<worker, attaching, posted, page>>
            BY <1>11 DEF Cancel, DxType
      <2> QED BY <1>0, <2>1 DEF DxCanTest
<1>12. CASE Deliver
      <2> DEFINE s == Head(posted)
      <2>1. /\ posted # <<>> /\ posted \in Seq(PaneSignals) /\ Show(s) /\ posted' = Tail(posted)
            /\ UNCHANGED <<supervisor, worker, attaching>>
            BY <1>12 DEF Deliver, DxType
      <2>2. CASE s.kind = "busy"
            <3>1. page' = [page EXCEPT !.canTest = TRUE] BY <2>1, <2>2 DEF Show
            <3>2. page'.canTest BY <3>1 DEF DxType
            <3> QED BY <3>2 DEF DxCanTest
      <2>3. CASE s.kind # "busy"
            <3> HIDE DEF s
            <3>1. page'.canTest = page.canTest BY <2>1, <2>3 DEF Show, DxType
            <3>2. ASSUME NEW i \in DOMAIN posted, posted[i].kind = "busy" PROVE DxCanTest'
                  <4>1. i # 1 BY <2>1, <2>3, <3>2 DEF s
                  <4>2. i - 1 \in DOMAIN posted' /\ posted'[i - 1] = posted[i]
                        BY <2>1, <4>1
                  <4> QED BY <1>3, <3>2, <4>2
            <3> QED BY <1>0, <2>1, <3>1, <3>2 DEF DxCanTest
      <2> QED BY <2>2, <2>3
<1>13. CASE Attach
      <2>1. attaching # 0 /\ UNCHANGED <<supervisor, worker, posted>>
            BY <1>13 DEF Attach
      <2>2. CASE ended = <<>>
            <3>1. UnderWay(attaching) BY <1>0, <2>1, <2>2 DEF DxAttached
            <3>2. supervisor.pool # <<>> \/ \E w \in Workers : worker[w].at # "idle"
                  BY <3>1 DEF UnderWay, Busy
            <3> QED BY <2>1, <3>2 DEF DxCanTest
      <2>3. CASE ended # <<>>
            <3>1. page'.canTest BY <1>13, <2>3 DEF Attach
            <3> QED BY <3>1 DEF DxCanTest
      <2> QED BY <2>2, <2>3
<1>14. CASE Shutdown BY <1>14 DEF Shutdown
<1>15. CASE UNCHANGED diagnosticsVars BY <1>15 DEF diagnosticsVars, DxCanTest
<1> QED BY <1>5, <1>6, <1>7, <1>8, <1>9, <1>10, <1>11, <1>12, <1>13, <1>14, <1>15
        DEF DiagnosticsNext, Works, AskTests, AskOther, TaskOps


-----------------------------------------------------------------------------
(* Every failure is among the errors                                       *)

ErrorPlaces(s) == {i \in DOMAIN s : s[i].kind = "error"}
UnreportedErrors == Cardinality(ErrorPlaces(posted)) + Cardinality(ErrorPlaces(ended))
LesserOf(a, b) == IF a < b THEN a ELSE b

(* What failed is in the list, as far as it reaches, or on its way there.  *)
DxCounted ==
  ~supervisor.closed =>
    /\ UnreportedErrors <= asked.failed
    /\ Len(diagnostics.errors) = LesserOf(asked.failed - UnreportedErrors, LogCapacity)

LEMMA ErrorPlacesFinite ==
  ASSUME NEW s \in Seq(PaneSignals)
  PROVE IsFiniteSet(ErrorPlaces(s)) /\ Cardinality(ErrorPlaces(s)) \in Nat
<1>1. ErrorPlaces(s) \subseteq 1..Len(s) /\ Len(s) \in Nat BY DEF ErrorPlaces
<1>2. IsFiniteSet(1..Len(s)) BY <1>1, FS_Interval
<1>3. IsFiniteSet(ErrorPlaces(s)) BY <1>1, <1>2, FS_Subset
<1> QED BY <1>3, FS_CardinalityType

LEMMA NoErrorPlaces ==
  ASSUME NEW s, \A i \in DOMAIN s : s[i].kind # "error"
  PROVE Cardinality(ErrorPlaces(s)) = 0
<1>1. ErrorPlaces(s) = {} BY DEF ErrorPlaces
<1> QED BY <1>1, FS_EmptySet

LEMMA OneErrorPlace ==
  ASSUME NEW s \in PaneSignals, s.kind = "error"
  PROVE Cardinality(ErrorPlaces(<<s>>)) = 1
<1>1. ErrorPlaces(<<s>>) = {1} BY DEF ErrorPlaces
<1> QED BY <1>1, FS_Singleton

LEMMA ErrorPlacesOfMore ==
  ASSUME NEW s \in Seq(PaneSignals), NEW t \in Seq(PaneSignals), \A i \in DOMAIN t : t[i].kind # "error"
  PROVE Cardinality(ErrorPlaces(s \o t)) = Cardinality(ErrorPlaces(s))
<1> DEFINE r == s \o t
<1>1. DOMAIN r = 1..(Len(s) + Len(t)) /\ DOMAIN s = 1..Len(s) /\ DOMAIN t = 1..Len(t)
        /\ Len(s) \in Nat /\ Len(t) \in Nat
      OBVIOUS
<1>2. /\ \A i \in DOMAIN s : r[i] = s[i]
      /\ \A i \in DOMAIN r : i \notin DOMAIN s => i - Len(s) \in DOMAIN t /\ r[i] = t[i - Len(s)]
      OBVIOUS
<1> HIDE DEF r
<1>3. \A i \in DOMAIN r : i \notin DOMAIN s => r[i].kind # "error" BY <1>2
<1>4. ErrorPlaces(r) = ErrorPlaces(s) BY <1>1, <1>2, <1>3 DEF ErrorPlaces
<1> QED BY <1>4 DEF r

LEMMA ErrorPlacesOfError ==
  ASSUME NEW s \in Seq(PaneSignals), NEW e \in PaneSignals, e.kind = "error",
         NEW b \in PaneSignals, b.kind # "error"
  PROVE Cardinality(ErrorPlaces(s \o <<e, b>>)) = Cardinality(ErrorPlaces(s)) + 1
<1> DEFINE r == s \o <<e, b>>
           n == Len(s) + 1
<1>1. DOMAIN r = 1..(Len(s) + 2) /\ DOMAIN s = 1..Len(s) /\ Len(s) \in Nat
      OBVIOUS
<1>2. (\A i \in DOMAIN s : r[i] = s[i]) /\ r[n] = e /\ r[Len(s) + 2] = b
      OBVIOUS
<1> HIDE DEF r
<1>3. ErrorPlaces(r) = ErrorPlaces(s) \cup {n} /\ n \notin ErrorPlaces(s)
      BY <1>1, <1>2 DEF ErrorPlaces
<1> QED BY <1>3, ErrorPlacesFinite, FS_AddElement DEF r

LEMMA ErrorPlacesOfTail ==
  ASSUME NEW s \in Seq(PaneSignals), s # <<>>
  PROVE Cardinality(ErrorPlaces(s)) =
          Cardinality(ErrorPlaces(Tail(s))) + (IF Head(s).kind = "error" THEN 1 ELSE 0)
<1> DEFINE r == Tail(s)
           moved == {i + 1 : i \in ErrorPlaces(r)}
           f == [i \in ErrorPlaces(r) |-> i + 1]
<1>1. /\ r \in Seq(PaneSignals) /\ DOMAIN s = 1..Len(s) /\ Len(s) \in Nat /\ Len(s) >= 1
      /\ DOMAIN r = 1..(Len(s) - 1) /\ \A i \in DOMAIN r : r[i] = s[i + 1]
      /\ s[1] = Head(s)
      OBVIOUS
<1> HIDE DEF r
<1>2. ErrorPlaces(s) = moved \cup (IF Head(s).kind = "error" THEN {1} ELSE {}) /\ 1 \notin moved
      <2>1. ASSUME NEW i \in ErrorPlaces(s), i # 1 PROVE i \in moved
            <3>1. i - 1 \in ErrorPlaces(r) /\ (i - 1) + 1 = i
                  BY <1>1, <2>1 DEF ErrorPlaces
            <3> QED BY <3>1
      <2>2. moved \subseteq ErrorPlaces(s) /\ 1 \notin moved
            <3>1. \A i \in ErrorPlaces(r) : i \in Nat /\ i >= 1 /\ i + 1 \in ErrorPlaces(s)
                  BY <1>1 DEF ErrorPlaces
            <3> QED BY ONLY <3>1
      <2>3. 1 \in ErrorPlaces(s) <=> Head(s).kind = "error"
            BY <1>1 DEF ErrorPlaces
      <2> HIDE DEF moved
      <2> QED BY <2>1, <2>2, <2>3
<1>3. f \in Bijection(ErrorPlaces(r), moved)
      <2>1. ErrorPlaces(r) \subseteq Nat BY <1>1 DEF ErrorPlaces
      <2>2. f \in [ErrorPlaces(r) -> moved] OBVIOUS
      <2>3. \A i, j \in ErrorPlaces(r) : f[i] = f[j] => i = j BY <2>1
      <2>4. \A m \in moved : \E i \in ErrorPlaces(r) : f[i] = m OBVIOUS
      <2> HIDE DEF f, moved
      <2>5. IsInjective(f) BY <2>2, <2>3 DEF IsInjective
      <2> QED BY <2>2, <2>4, <2>5 DEF Bijection, Injection, Surjection
<1>4. IsFiniteSet(ErrorPlaces(r)) /\ Cardinality(ErrorPlaces(r)) \in Nat
      BY <1>1, ErrorPlacesFinite
<1>5. IsFiniteSet(moved) /\ Cardinality(moved) = Cardinality(ErrorPlaces(r))
      <2>1. ExistsBijection(ErrorPlaces(r), moved) BY <1>3 DEF ExistsBijection
      <2> QED BY <1>4, <2>1, FS_Bijection
<1> HIDE DEF moved
<1>6. CASE Head(s).kind = "error"
      <2>1. ErrorPlaces(s) = moved \cup {1} BY <1>2, <1>6
      <2> QED BY <1>2, <1>5, <1>6, <2>1, FS_AddElement DEF r
<1>7. CASE Head(s).kind # "error"
      <2>1. ErrorPlaces(s) = moved BY <1>2, <1>7
      <2> QED BY <1>4, <1>5, <1>7, <2>1 DEF r
<1> QED BY <1>6, <1>7


LEMMA WithErrorLength ==
  ASSUME NEW errors \in Seq(Nat)
  PROVE Len(WithError(errors)) = IF Len(errors) + 1 > LogCapacity THEN Len(errors) ELSE Len(errors) + 1
<1> DEFINE longer == Append(errors, Len(errors) + 1)
<1>1. longer \in Seq(Nat) /\ longer # <<>> /\ Len(longer) = Len(errors) + 1 /\ Len(errors) \in Nat
      OBVIOUS
<1>2. Len(Tail(longer)) = Len(errors) BY <1>1
<1> QED BY <1>1, <1>2 DEF WithError

(* An error that is shown is reported once.                                *)
LEMMA ReportCounts ==
  ASSUME LogCapacity \in Nat, diagnostics.errors \in Seq(Nat), asked.failed \in Nat,
         UnreportedErrors \in Nat, UnreportedErrors >= 1, UnreportedErrors <= asked.failed,
         Len(diagnostics.errors) = LesserOf(asked.failed - UnreportedErrors, LogCapacity)
  PROVE Len(WithError(diagnostics.errors))
         = LesserOf(asked.failed - (UnreportedErrors - 1), LogCapacity)
<1> DEFINE n == Len(diagnostics.errors)
           u == UnreportedErrors
           f == asked.failed
<1>1. n \in Nat /\ u \in Nat /\ f \in Nat /\ u >= 1 /\ u <= f /\ n = LesserOf(f - u, LogCapacity)
      OBVIOUS
<1>2. Len(WithError(diagnostics.errors)) = IF n + 1 > LogCapacity THEN n ELSE n + 1
      BY WithErrorLength
<1> HIDE DEF n, u, f
<1>3. (IF n + 1 > LogCapacity THEN n ELSE n + 1) = LesserOf(f - (u - 1), LogCapacity)
      BY <1>1 DEF LesserOf
<1> QED BY <1>2, <1>3 DEF u, f

LEMMA EndedPlaces ==
  ASSUME DxType
  PROVE /\ Cardinality(ErrorPlaces(posted)) \in Nat
        /\ Cardinality(ErrorPlaces(ended)) \in Nat
        /\ ended = <<>> => Cardinality(ErrorPlaces(ended)) = 0
        /\ ended # <<>> => Cardinality(ErrorPlaces(ended)) = IF Head(ended).kind = "error" THEN 1 ELSE 0
<1>1. Cardinality(ErrorPlaces(posted)) \in Nat BY ErrorPlacesFinite DEF DxType
<1>2. ended = <<>> => Cardinality(ErrorPlaces(ended)) = 0 BY NoErrorPlaces
<1>3. ASSUME ended # <<>> PROVE Cardinality(ErrorPlaces(ended)) = IF Head(ended).kind = "error" THEN 1 ELSE 0
      <2>1. PICK s \in PaneSignals : ended = <<s>>
            BY <1>3 DEF DxType
      <2>2. Head(ended) = s /\ DOMAIN ended = {1} /\ ended[1] = s BY <2>1
      <2>3. CASE s.kind = "error" BY <2>1, <2>2, <2>3, OneErrorPlace
      <2>4. CASE s.kind # "error" BY <2>2, <2>4, NoErrorPlaces
      <2> QED BY <2>2, <2>3, <2>4
<1> QED BY <1>1, <1>2, <1>3

LEMMA DxCountedInit == ASSUME LogCapacity \in Nat PROVE DiagnosticsInit => DxCounted
<1> SUFFICES ASSUME DiagnosticsInit PROVE DxCounted
    OBVIOUS
<1>1. Cardinality(ErrorPlaces(posted)) = 0 /\ Cardinality(ErrorPlaces(ended)) = 0
      BY NoErrorPlaces DEF DiagnosticsInit
<1> QED BY <1>1 DEF DiagnosticsInit, DxCounted, UnreportedErrors, LesserOf

LEMMA DxCountedStep ==
  ASSUME LogCapacity \in Nat, DxType, DxInOrder, DxAttached, DxCounted, [DiagnosticsNext]_diagnosticsVars
  PROVE DxCounted'
<1> DEFINE P == Cardinality(ErrorPlaces(posted))
           E == Cardinality(ErrorPlaces(ended))
<1>a. P \in Nat /\ E \in Nat
      BY EndedPlaces
<1>b. asked.failed \in Nat /\ diagnostics.errors \in Seq(Nat) /\ posted \in Seq(PaneSignals)
      BY DEF DxType, AskedType, Kept
<1> SUFFICES ASSUME ~supervisor'.closed PROVE DxCounted'
    BY DEF DxCounted
(* Nothing fails and nothing is shown.                                     *)
<1>1. ASSUME ~supervisor.closed, UNCHANGED <<ended, posted>>, diagnostics'.errors = diagnostics.errors,
             asked'.failed = asked.failed
      PROVE DxCounted'
      BY <1>1 DEF DxCounted, UnreportedErrors
<1>2. ASSUME NEW w \in Workers, Take(w) PROVE DxCounted'
      <2>1. /\ supervisor'.closed = supervisor.closed
            /\ UNCHANGED <<diagnostics, ended, posted, asked>>
            BY <1>2, TakeDoes
      <2> QED BY <1>1, <2>1
<1>3. ASSUME NEW w \in Workers, SelfTest(w) \/ Collect(w) PROVE DxCounted'
      <2>1. UNCHANGED <<diagnostics, supervisor, ended, posted, asked>>
            BY <1>3, SelfTestDoes, CollectDoes
      <2> QED BY <1>1, <2>1
(* Other than an error is posted.                                          *)
<1>4. ASSUME NEW s \in Seq(PaneSignals), \A i \in DOMAIN s : s[i].kind # "error", Post(s),
             UNCHANGED <<supervisor, ended, asked>>, diagnostics'.errors = diagnostics.errors
      PROVE DxCounted'
      <2>1. posted' = posted \o s BY <1>4, PostKeeps
      <2>2. Cardinality(ErrorPlaces(posted')) = P
            BY <1>4, <1>b, <2>1, ErrorPlacesOfMore
      <2> QED BY <1>4, <2>2 DEF DxCounted, UnreportedErrors
(* The callback of the task that a thread has finds it still under way.    *)
<1>5. ASSUME NEW w \in Workers, Busy(w), attaching = worker[w].task, ~supervisor.closed
      PROVE ended = <<>> /\ E = 0
      <2>1. attaching # 0 /\ UnderWay(attaching)
            BY <1>5 DEF DxInOrder, UnderWay
      <2>2. ended = <<>> BY <1>5, <2>1 DEF DxAttached
      <2> QED BY <2>2, EndedPlaces
<1>6. ASSUME NEW w \in Workers, KeepTests(w) \/ Succeeds(w) PROVE DxCounted'
      <2>1. /\ Busy(w) /\ UNCHANGED <<supervisor, attaching, asked>>
            /\ diagnostics'.errors = diagnostics.errors
            BY <1>6, AnswerDoes
      <2>2. PICK s : Told(s) /\ (AnswersEarly(w, s) \/ AnswersLate(w, s))
            BY <1>6, AnswerDoes
      <2>3. DOMAIN <<s>> = {1} /\ <<s>>[1] = s /\ s.kind # "error"
            BY <2>2 DEF Told
      <2>4. CASE AnswersEarly(w, s)
            <3>1. E = 0 BY <1>5, <2>1, <2>4 DEF AnswersEarly
            <3>2. Cardinality(ErrorPlaces(ended')) = 0
                  <4>1. ended' = <<s>> BY <2>4 DEF AnswersEarly
                  <4> QED BY <2>3, <4>1, NoErrorPlaces
            <3> QED BY <2>1, <2>4, <3>1, <3>2 DEF AnswersEarly, DxCounted, UnreportedErrors
      <2>5. CASE AnswersLate(w, s)
            <3>1. Post(<<s>>) /\ ended' = ended /\ ~supervisor.closed
                  BY <2>1, <2>5 DEF AnswersLate
            <3>2. posted' = posted \o <<s>> BY <3>1 DEF Post
            <3>3. posted' \in Seq(PaneSignals) BY DxTypeStep DEF DxType
            <3>4. s \in PaneSignals
                  <4>1. Len(posted) + 1 \in DOMAIN posted' /\ posted'[Len(posted) + 1] = s
                        BY <1>b, <3>2
                  <4> QED BY <3>3, <4>1
            <3>5. <<s>> \in Seq(PaneSignals) /\ \A i \in DOMAIN <<s>> : <<s>>[i].kind # "error"
                  BY <2>3, <3>4
            <3> QED BY <1>4, <2>1, <3>1, <3>5
      <2> QED BY <2>2, <2>4, <2>5
<1>7. ASSUME NEW w \in Workers, Fails(w) PROVE DxCounted'
      <2>1. /\ Busy(w) /\ UNCHANGED <<diagnostics, supervisor, attaching>>
            /\ asked'.failed = asked.failed + 1
            /\ FailsEarly(w) \/ FailsLate(w)
            BY <1>7, FailsDoes
      <2>2. ErrorSignal \in PaneSignals /\ ErrorSignal.kind = "error"
            BY SignalType DEF ErrorSignal, Showable
      <2>3. UnreportedErrors' = UnreportedErrors + 1
            <3>1. CASE FailsEarly(w)
                  <4>1. E = 0 /\ ended' = <<ErrorSignal>> /\ posted' = posted
                        BY <1>5, <2>1, <3>1 DEF FailsEarly
                  <4>2. Cardinality(ErrorPlaces(ended')) = 1
                        BY <2>2, <4>1, OneErrorPlace
                  <4> QED BY <1>a, <4>1, <4>2 DEF UnreportedErrors
            <3>2. CASE FailsLate(w)
                  <4>1. posted' = posted \o <<ErrorSignal, BusyOff>> /\ ended' = ended
                        BY <2>1, <3>2 DEF FailsLate, Post
                  <4>2. Cardinality(ErrorPlaces(posted')) = P + 1
                        BY <1>b, <2>2, <4>1, BusyOffType, ErrorPlacesOfError
                  <4> QED BY <1>a, <4>1, <4>2 DEF UnreportedErrors
            <3> QED BY <2>1, <3>1, <3>2
      <2>4. UnreportedErrors \in Nat BY <1>a DEF UnreportedErrors
      <2> HIDE DEF P, E
      <2>5. (asked.failed + 1) - (UnreportedErrors + 1) = asked.failed - UnreportedErrors
            BY <1>b, <2>4
      <2> QED BY <1>b, <2>1, <2>3, <2>4, <2>5 DEF DxCounted
<1>8. ASSUME NEW w \in Workers, EmitSnapshot(w) PROVE DxCounted'
      <2> DEFINE s == <<Signal("snapshot", worker[w].snapshot), BusyOff>>
      <2>1. worker[w].snapshot \in Showable BY DEF DxType, WorkerType
      <2>2. s \in Seq(PaneSignals) /\ \A i \in DOMAIN s : s[i].kind # "error"
            BY <2>1, SignalType, BusyOffType
      <2>3. Post(s) /\ UNCHANGED <<diagnostics, supervisor, ended, asked>>
            BY <1>8, EmitDoes
      <2> QED BY <1>4, <2>2, <2>3
<1>9. ASSUME NEW op \in TaskOps, Submit(op) PROVE DxCounted'
      <2>1. /\ ~supervisor.closed /\ asked'.failed = asked.failed
            /\ UNCHANGED <<diagnostics, ended, posted>>
            BY <1>9, SubmitDoes
      <2> QED BY <1>1, <2>1
<1>10. CASE Cancel BY <1>1, <1>10 DEF Cancel
<1>11. CASE Deliver
      <2> DEFINE s == Head(posted)
      <2>1. /\ posted # <<>> /\ Show(s) /\ posted' = Tail(posted)
            /\ UNCHANGED <<supervisor, ended, asked>>
            BY <1>11 DEF Deliver
      <2>2. P = Cardinality(ErrorPlaces(posted')) + IF s.kind = "error" THEN 1 ELSE 0
            BY <1>b, <2>1, ErrorPlacesOfTail
      <2>3. posted' \in Seq(PaneSignals) BY <1>b, <2>1
      <2>4. Cardinality(ErrorPlaces(posted')) \in Nat
            BY <2>3, ErrorPlacesFinite
      <2> DEFINE P2 == Cardinality(ErrorPlaces(posted'))
      <2>5. UnreportedErrors = P + E /\ UnreportedErrors' = P2 + E
            BY <2>1 DEF UnreportedErrors
      <2> HIDE DEF P, E, P2, s
      <2>6. CASE s.kind = "error"
            <3>1. diagnostics' = [diagnostics EXCEPT !.errors = WithError(@)]
                  BY <2>1, <2>6 DEF Show
            <3>2. diagnostics'.errors = WithError(diagnostics.errors)
                  BY <3>1 DEF DxType, Kept
            <3>3. UnreportedErrors \in Nat /\ UnreportedErrors >= 1
                    /\ UnreportedErrors' = UnreportedErrors - 1
                  BY <1>a, <2>2, <2>4, <2>5, <2>6 DEF P2
            <3>4. UnreportedErrors <= asked.failed /\ Len(diagnostics.errors)
                    = LesserOf(asked.failed - UnreportedErrors, LogCapacity)
                  BY <2>1 DEF DxCounted
            <3>5. Len(diagnostics'.errors)
                    = LesserOf(asked.failed - (UnreportedErrors - 1), LogCapacity)
                  BY <1>b, <3>2, <3>3, <3>4, ReportCounts
            <3> QED BY <1>b, <2>1, <3>3, <3>4, <3>5 DEF DxCounted
      <2>7. CASE s.kind # "error"
            <3>1. diagnostics' = diagnostics BY <2>1, <2>7 DEF Show
            <3>2. UnreportedErrors' = UnreportedErrors
                  BY <1>a, <2>2, <2>4, <2>5, <2>7 DEF P2
            <3> QED BY <2>1, <3>1, <3>2 DEF DxCounted
      <2> QED BY <2>6, <2>7
<1>12. CASE Attach
      <2>1. ended' = <<>> /\ UNCHANGED <<supervisor, posted, asked>>
            BY <1>12 DEF Attach
      <2>2. CASE ended = <<>> BY <1>1, <1>12, <2>1, <2>2 DEF Attach
      <2>3. CASE ended # <<>>
            <3> DEFINE s == Head(ended)
            <3>1. diagnostics' = IF s.kind = "error" THEN [diagnostics EXCEPT !.errors = WithError(@)] ELSE diagnostics
                  BY <1>12, <2>3 DEF Attach
            <3>2. E = (IF s.kind = "error" THEN 1 ELSE 0) /\ Cardinality(ErrorPlaces(ended')) = 0
                  BY <2>1, <2>3, EndedPlaces, NoErrorPlaces
            <3>3. UnreportedErrors = P + E /\ UnreportedErrors' = P
                  BY <1>a, <2>1, <3>2 DEF UnreportedErrors
            <3>4. UnreportedErrors <= asked.failed /\ Len(diagnostics.errors)
                    = LesserOf(asked.failed - UnreportedErrors, LogCapacity)
                  BY <2>1 DEF DxCounted
            <3> HIDE DEF P, E, s
            <3>5. CASE s.kind = "error"
                  <4>1. diagnostics'.errors = WithError(diagnostics.errors)
                        BY <3>1, <3>5 DEF DxType, Kept
                  <4>2. UnreportedErrors \in Nat /\ UnreportedErrors >= 1
                          /\ UnreportedErrors' = UnreportedErrors - 1
                        BY <1>a, <3>2, <3>3, <3>5
                  <4>3. Len(diagnostics'.errors)
                          = LesserOf(asked.failed - (UnreportedErrors - 1), LogCapacity)
                        BY <1>b, <3>4, <4>1, <4>2, ReportCounts
                  <4> QED BY <1>b, <2>1, <3>4, <4>2, <4>3 DEF DxCounted
            <3>6. CASE s.kind # "error"
                  <4>1. diagnostics' = diagnostics /\ UnreportedErrors' = UnreportedErrors
                        BY <1>a, <3>1, <3>2, <3>3, <3>6
                  <4> QED BY <2>1, <4>1 DEF DxCounted
            <3> QED BY <3>5, <3>6
      <2> QED BY <2>2, <2>3
<1>13. CASE Shutdown BY <1>13 DEF Shutdown
<1>14. CASE UNCHANGED diagnosticsVars
      <2>1. UNCHANGED <<diagnostics, supervisor, ended, posted, asked>>
            BY <1>14 DEF diagnosticsVars
      <2> QED BY <1>1, <2>1
<1> QED BY <1>2, <1>3, <1>6, <1>7, <1>8, <1>9, <1>10, <1>11, <1>12, <1>13, <1>14
        DEF DiagnosticsNext, Works, AskTests, AskOther, TaskOps


-----------------------------------------------------------------------------
(* A task that nothing overlapped goes from the pool to a thread, answers, *)
(* and is followed by the refresh, which shows what is kept.               *)

Fresh == SnapshotOf(diagnostics)
OthersIdle(w) == \A v \in Workers : v # w => worker[v].at = "idle"
AllIdle == \A v \in Workers : worker[v].at = "idle"

IsQueued == Len(supervisor.pool) = 1 /\ AllIdle /\ posted = <<>> /\ ended = <<>>
IsRunning(w) ==
  supervisor.pool = <<>> /\ posted = <<>> /\ ended = <<>> /\ Busy(w) /\ OthersIdle(w)
IsRefreshing(w) ==
  /\ supervisor.pool = <<>> /\ ended = <<>> /\ Reporting(w) /\ OthersIdle(w)
  /\ posted = <<>> \/ \E s \in PaneSignals : Told(s) /\ posted = <<s>>
  /\ worker[w].at = "emit" => worker[w].snapshot = Fresh
HasEnded == supervisor.pool = <<>> /\ AllIdle /\ posted = <<>> /\ ended # <<>>

TellsFresh == <<Signal("snapshot", Fresh), BusyOff>>
IsTelling ==
  /\ supervisor.pool = <<>> /\ AllIdle /\ ended = <<>>
  /\ \/ \E s \in PaneSignals : Told(s) /\ posted = <<s>> \o TellsFresh
     \/ posted = TellsFresh
     \/ posted = <<ErrorSignal, BusyOff>>
     \/ posted \in {<<>>, <<BusyOff>>} /\ page.snapshot = Fresh

DxAlone ==
  (~supervisor.closed /\ ~asked.overlapped) =>
    \/ IsQueued
    \/ \E w \in Workers : IsRunning(w)
    \/ \E w \in Workers : IsRefreshing(w)
    \/ HasEnded
    \/ IsTelling

LEMMA DxAloneInit == DiagnosticsInit => DxAlone
<1> SUFFICES ASSUME DiagnosticsInit PROVE IsTelling
    BY DEF DxAlone
<1>1. AllIdle /\ page.snapshot = Fresh
      BY DEF DiagnosticsInit, AllIdle, IdleWorker, Fresh
<1> QED BY <1>1 DEF DiagnosticsInit, IsTelling

LEMMA OneBeforeTwo ==
  ASSUME NEW x, NEW a, NEW b
  PROVE <<x>> \o <<a, b>> = <<x, a, b>>
<1> DEFINE S == {x, a, b}
           r == <<x>> \o <<a, b>>
<1>1. <<x>> \in Seq(S) /\ <<a, b>> \in Seq(S) /\ <<x, a, b>> \in Seq(S) OBVIOUS
<1>2. r \in Seq(S) /\ Len(r) = 3 /\ r[1] = x /\ r[2] = a /\ r[3] = b BY <1>1
<1> HIDE DEF r, S
<1>3. r = <<x, a, b>> BY <1>1, <1>2
<1> QED BY <1>3 DEF r

LEMMA SignalsDiffer ==
  /\ ErrorSignal.kind = "error" /\ BusyOff.kind = "busy"
  /\ \A v : Signal("snapshot", v).kind = "snapshot" /\ Signal("snapshot", v).value = v
BY DEF ErrorSignal, BusyOff, Signal

LEMMA DxAloneStep ==
  ASSUME DxType, DxInOrder, DxAttached, DxAlone, [DiagnosticsNext]_diagnosticsVars
  PROVE DxAlone'
<1> SUFFICES ASSUME ~supervisor'.closed, ~asked'.overlapped PROVE DxAlone'
    BY DEF DxAlone
<1>a. ASSUME NEW w \in Workers, IsRunning(w)' PROVE DxAlone'
      BY <1>a DEF DxAlone
<1>b. ASSUME NEW w \in Workers, IsRefreshing(w)' PROVE DxAlone'
      BY <1>b DEF DxAlone
<1>c. ASSUME IsQueued' \/ HasEnded' \/ IsTelling' PROVE DxAlone'
      BY <1>c DEF DxAlone
<1>d. ASSUME NEW w \in Workers, OneThread(w), OthersIdle(w)
      PROVE OthersIdle(w)' /\ (worker'[w] = IdleWorker => AllIdle')
      BY <1>d DEF OneThread, OthersIdle, AllIdle, IdleWorker
(* Which of them it is when a thread is at work.                           *)
<1>e. ASSUME NEW w \in Workers, worker[w].at # "idle", ~supervisor.closed, ~asked.overlapped
      PROVE IsRunning(w) \/ IsRefreshing(w)
      <2>1. ~IsQueued /\ ~HasEnded /\ ~IsTelling
            BY <1>e DEF IsQueued, HasEnded, IsTelling, AllIdle
      <2>2. \A v \in Workers : IsRunning(v) \/ IsRefreshing(v) => v = w
            BY <1>e DEF IsRunning, IsRefreshing, OthersIdle
      <2> QED BY <1>e, <2>1, <2>2 DEF DxAlone
<1>f. ASSUME NEW w \in Workers, Busy(w), ~supervisor.closed, ~asked.overlapped PROVE IsRunning(w)
      BY <1>e, <1>f DEF Busy, IsRefreshing, Reporting
<1>g. ASSUME NEW w \in Workers, Reporting(w), ~supervisor.closed, ~asked.overlapped
        PROVE IsRefreshing(w)
      BY <1>e, <1>g DEF Busy, IsRunning, Reporting
<1>1. ASSUME NEW w \in Workers, Take(w) PROVE DxAlone'
      <2>1. /\ supervisor.pool # <<>> /\ worker[w].at = "idle" /\ OneThread(w) /\ Busy(w)'
            /\ supervisor'.pool = Tail(supervisor.pool) /\ supervisor'.closed = supervisor.closed
            /\ UNCHANGED <<ended, posted, asked>>
            BY <1>1, TakeDoes
      <2>2. IsQueued
            BY <2>1 DEF DxAlone, IsRunning, IsRefreshing, HasEnded, IsTelling
      <2>3. supervisor'.pool = <<>> BY <2>1, <2>2 DEF IsQueued, DxType
      <2>4. OthersIdle(w)'
            BY <1>d, <2>1, <2>2 DEF IsQueued, AllIdle, OthersIdle
      <2> QED BY <1>a, <2>1, <2>2, <2>3, <2>4 DEF IsRunning, IsQueued
<1>2. ASSUME NEW w \in Workers, SelfTest(w) PROVE DxAlone'
      <2>1. /\ Busy(w) /\ Busy(w)' /\ OneThread(w)
            /\ UNCHANGED <<diagnostics, supervisor, ended, posted, asked>>
            BY <1>2, SelfTestDoes DEF Busy
      <2>2. IsRunning(w) BY <1>f, <2>1
      <2> QED BY <1>a, <1>d, <2>1, <2>2 DEF IsRunning
<1>3. ASSUME NEW w \in Workers, KeepTests(w) \/ Succeeds(w) PROVE DxAlone'
      <2>1. /\ Busy(w) /\ OneThread(w) /\ UNCHANGED <<supervisor, attaching, page, asked>>
            BY <1>3, AnswerDoes
      <2>2. PICK s : Told(s) /\ (AnswersEarly(w, s) \/ AnswersLate(w, s))
            BY <1>3, AnswerDoes
      <2>3. IsRunning(w) /\ ~supervisor.closed BY <1>f, <2>1
      <2>4. CASE AnswersEarly(w, s)
            <3>1. HasEnded'
                  BY <1>d, <2>1, <2>3, <2>4 DEF IsRunning, AnswersEarly, HasEnded
            <3> QED BY <1>c, <3>1
      <2>5. CASE AnswersLate(w, s)
            <3>1. posted' = <<s>> /\ ended' = <<>> /\ worker'[w].at = "collect"
                  <4>1. posted' = <<>> \o <<s>>
                        BY <2>3, <2>5 DEF IsRunning, AnswersLate, Post
                  <4> QED BY <2>3, <2>5, <4>1 DEF IsRunning, AnswersLate
            <3>2. s \in PaneSignals
                  <4>1. posted' \in Seq(PaneSignals) BY DxTypeStep DEF DxType
                  <4>2. 1 \in DOMAIN posted' /\ posted'[1] = s BY <3>1
                  <4> QED BY <4>1, <4>2
            <3>3. Reporting(w)' /\ OthersIdle(w)' /\ supervisor'.pool = <<>>
                  BY <1>d, <2>1, <2>3, <3>1 DEF IsRunning, Reporting
            <3>4. IsRefreshing(w)' BY <2>2, <3>1, <3>2, <3>3 DEF IsRefreshing
            <3> QED BY <1>b, <3>4
      <2> QED BY <2>2, <2>4, <2>5
<1>4. ASSUME NEW w \in Workers, Fails(w) PROVE DxAlone'
      <2>1. /\ Busy(w) /\ OneThread(w) /\ worker'[w] = IdleWorker
            /\ UNCHANGED <<diagnostics, supervisor, attaching, page>>
            /\ asked'.overlapped = asked.overlapped
            /\ FailsEarly(w) \/ FailsLate(w)
            BY <1>4, FailsDoes
      <2>2. IsRunning(w) /\ ~supervisor.closed BY <1>f, <2>1
      <2>3. AllIdle' /\ supervisor'.pool = <<>>
            BY <1>d, <2>1, <2>2 DEF IsRunning
      <2>4. CASE FailsEarly(w)
            <3>1. HasEnded'
                  BY <2>2, <2>3, <2>4 DEF IsRunning, FailsEarly, HasEnded
            <3> QED BY <1>c, <3>1
      <2>5. CASE FailsLate(w)
            <3>1. posted' = <<ErrorSignal, BusyOff>> /\ ended' = <<>>
                  <4>1. posted' = <<>> \o <<ErrorSignal, BusyOff>>
                        BY <2>2, <2>5 DEF IsRunning, FailsLate, Post
                  <4> QED BY <2>2, <2>5, <4>1 DEF IsRunning, FailsLate
            <3>2. IsTelling'
                  BY <2>3, <3>1 DEF IsTelling, ErrorSignal, BusyOff, Signal
            <3> QED BY <1>c, <3>2
      <2> QED BY <2>1, <2>4, <2>5
<1>5. ASSUME NEW w \in Workers, Collect(w) PROVE DxAlone'
      <2>1. /\ Reporting(w) /\ Reporting(w)' /\ OneThread(w) /\ worker'[w].snapshot = Fresh
            /\ UNCHANGED <<diagnostics, supervisor, ended, posted, asked>>
            BY <1>5, CollectDoes DEF Reporting, Fresh
      <2>2. IsRefreshing(w) BY <1>g, <2>1
      <2>3. OthersIdle(w)' /\ Fresh' = Fresh
            BY <1>d, <2>1, <2>2 DEF IsRefreshing, Fresh
      <2> QED BY <1>b, <2>1, <2>2, <2>3 DEF IsRefreshing
<1>6. ASSUME NEW w \in Workers, EmitSnapshot(w) PROVE DxAlone'
      <2>1. /\ worker[w].at = "emit" /\ OneThread(w) /\ worker'[w] = IdleWorker
            /\ Post(<<Signal("snapshot", worker[w].snapshot), BusyOff>>)
            /\ UNCHANGED <<diagnostics, supervisor, ended, page, asked>>
            BY <1>6, EmitDoes
      <2>2. IsRefreshing(w) /\ ~supervisor.closed BY <1>g, <2>1 DEF Reporting
      <2>3. AllIdle' /\ supervisor'.pool = <<>> /\ ended' = <<>> /\ TellsFresh' = TellsFresh
            BY <1>d, <2>1, <2>2 DEF IsRefreshing, TellsFresh, Fresh
      <2>4. posted' = posted \o TellsFresh
            BY <2>1, <2>2 DEF IsRefreshing, Post, TellsFresh
      <2>5. CASE posted = <<>>
            <3>1. posted' = TellsFresh BY <2>4, <2>5 DEF TellsFresh
            <3>2. IsTelling' BY <2>3, <3>1 DEF IsTelling
            <3> QED BY <1>c, <3>2
      <2>6. CASE \E s \in PaneSignals : Told(s) /\ posted = <<s>>
            <3>1. IsTelling' BY <2>3, <2>4, <2>6 DEF IsTelling
            <3> QED BY <1>c, <3>1
      <2> QED BY <2>2, <2>5, <2>6 DEF IsRefreshing
<1>7. ASSUME NEW op \in TaskOps, Submit(op) PROVE DxAlone'
      <2>1. /\ attaching = 0 /\ asked'.overlapped = ~AtRest
            /\ supervisor'.pool = Append(supervisor.pool, [id |-> asked.tasks + 1, op |-> op])
            /\ UNCHANGED <<worker, ended, posted>>
            BY <1>7, SubmitDoes
      <2>2. AtRest BY <2>1
      <2>3. Len(supervisor'.pool) = 1 BY <2>1, <2>2 DEF AtRest
      <2>4. AllIdle' /\ posted' = <<>> /\ ended' = <<>>
            BY <2>1, <2>2 DEF AtRest, AllIdle, IdleWorker, DxInOrder
      <2> QED BY <1>c, <2>3, <2>4 DEF IsQueued
(* Nothing that the five are about.                                        *)
<1>8. ASSUME UNCHANGED <<diagnostics, worker, ended, posted, page>>, supervisor'.pool = supervisor.pool,
             ~supervisor.closed, ~asked.overlapped
      PROVE DxAlone'
      <2>1. /\ Fresh' = Fresh /\ TellsFresh' = TellsFresh /\ AllIdle' = AllIdle
            /\ \A w \in Workers : Busy(w)' = Busy(w) /\ Reporting(w)' = Reporting(w)
                   /\ OthersIdle(w)' = OthersIdle(w)
            BY <1>8 DEF Fresh, TellsFresh, AllIdle, Busy, Reporting, OthersIdle
      <2>2. IsQueued => IsQueued' BY <1>8, <2>1 DEF IsQueued
      <2>3. ASSUME NEW w \in Workers PROVE (IsRunning(w) => IsRunning(w)') /\ (IsRefreshing(w)
              => IsRefreshing(w)')
            BY <1>8, <2>1 DEF IsRunning, IsRefreshing
      <2>4. HasEnded => HasEnded' BY <1>8, <2>1 DEF HasEnded
      <2>5. IsTelling => IsTelling' BY <1>8, <2>1 DEF IsTelling
      <2> QED BY <1>8, <1>a, <1>b, <1>c, <2>2, <2>3, <2>4, <2>5 DEF DxAlone
<1>9. CASE Cancel
      <2>1. /\ UNCHANGED <<diagnostics, worker, ended, posted, page, asked>>
            /\ supervisor'.pool = supervisor.pool /\ supervisor'.closed = supervisor.closed
            BY <1>9 DEF Cancel, DxType
      <2> QED BY <1>8, <2>1
<1>10. CASE Deliver
      <2> DEFINE s == Head(posted)
      <2>1. /\ posted # <<>> /\ Show(s) /\ posted' = Tail(posted)
            /\ UNCHANGED <<supervisor, worker, ended, asked>>
            BY <1>10 DEF Deliver
      <2>2. \A w \in Workers : ~IsRunning(w) BY <2>1 DEF IsRunning
      <2>3. ~IsQueued /\ ~HasEnded BY <2>1 DEF IsQueued, HasEnded
      <2>4. ASSUME NEW w \in Workers, IsRefreshing(w) PROVE DxAlone'
            <3>1. PICK r \in PaneSignals : Told(r) /\ posted = <<r>>
                  BY <2>1, <2>4 DEF IsRefreshing
            <3>2. s = r /\ posted' = <<>> BY <2>1, <3>1
            <3>3. diagnostics' = diagnostics BY <2>1, <3>1, <3>2 DEF Show, Told
            <3>4. IsRefreshing(w)'
                  BY <2>1, <2>4, <3>2, <3>3 DEF IsRefreshing, Reporting, OthersIdle, Fresh
            <3> QED BY <1>b, <3>4
      <2>5. CASE IsTelling
            <3>0. AllIdle' /\ supervisor'.pool = <<>> /\ ended' = <<>>
                  BY <2>1, <2>5 DEF IsTelling, AllIdle
            <3>1. ASSUME NEW r \in PaneSignals, Told(r), posted = <<r>> \o TellsFresh PROVE DxAlone'
                  <4>1. s = r /\ posted' = TellsFresh
                        <5>1. posted = <<r, Signal("snapshot", Fresh), BusyOff>>
                              BY <3>1, OneBeforeTwo DEF TellsFresh
                        <5> QED BY <2>1, <5>1 DEF TellsFresh
                  <4>2. diagnostics' = diagnostics
                        <5>1. s.kind \in {"tests", "bundle"} /\ Show(s)
                              BY <2>1, <3>1, <4>1 DEF Told
                        <5> HIDE DEF s
                        <5> QED BY ONLY <5>1 DEF Show
                  <4>3. TellsFresh' = TellsFresh BY <4>2 DEF TellsFresh, Fresh
                  <4> QED BY <1>c, <3>0, <4>1, <4>3 DEF IsTelling
            <3>2. CASE posted = TellsFresh
                  <4>1. s = Signal("snapshot", Fresh) /\ posted' = <<BusyOff>>
                        BY <2>1, <3>2 DEF TellsFresh
                  <4>2. s.kind = "snapshot" /\ s.value = Fresh
                        BY <4>1, SignalsDiffer
                  <4>3. page' = [page EXCEPT !.snapshot = s.value] /\ diagnostics' = diagnostics
                        <5> HIDE DEF s
                        <5> QED BY <2>1, <4>2 DEF Show
                  <4>4. page'.snapshot = Fresh' BY <4>2, <4>3 DEF DxType, Fresh
                  <4> QED BY <1>c, <3>0, <4>1, <4>4 DEF IsTelling
            <3>3. CASE posted = <<ErrorSignal, BusyOff>>
                  <4>1. s = ErrorSignal /\ posted' = <<BusyOff>> BY <2>1, <3>3
                  <4>2. s.kind = "error" BY <4>1, SignalsDiffer
                  <4> DEFINE reported == [diagnostics EXCEPT !.errors = WithError(@)]
                  <4>3. diagnostics' = reported /\ page' = [page EXCEPT !.snapshot = SnapshotOf(reported)]
                        <5> HIDE DEF s
                        <5> QED BY <2>1, <4>2 DEF Show
                  <4> HIDE DEF reported
                  <4>4. page'.snapshot = Fresh' BY <4>3 DEF DxType, Fresh
                  <4> QED BY <1>c, <3>0, <4>1, <4>4 DEF IsTelling
            <3>4. CASE posted \in {<<>>, <<BusyOff>>} /\ page.snapshot = Fresh
                  <4>1. s = BusyOff /\ posted' = <<>> BY <2>1, <3>4
                  <4>2. s.kind = "busy" BY <4>1, SignalsDiffer
                  <4>3. page' = [page EXCEPT !.canTest = TRUE] /\ diagnostics' = diagnostics
                        <5> HIDE DEF s
                        <5> QED BY <2>1, <4>2 DEF Show
                  <4>4. page'.snapshot = page.snapshot
                        <5>1. page \in [snapshot : Showable, tests : Showable, canTest : BOOLEAN]
                              BY DEF DxType
                        <5> QED BY ONLY <4>3, <5>1
                  <4>5. page'.snapshot = Fresh' BY <3>4, <4>3, <4>4 DEF Fresh
                  <4> QED BY <1>c, <3>0, <4>1, <4>5 DEF IsTelling
            <3> QED BY <2>5, <3>1, <3>2, <3>3, <3>4 DEF IsTelling
      <2> QED BY <2>1, <2>2, <2>3, <2>4, <2>5 DEF DxAlone
<1>11. CASE Attach
      <2>1. ended' = <<>> /\ UNCHANGED <<supervisor, worker, posted, asked>>
            BY <1>11 DEF Attach
      <2>2. CASE ended = <<>>
            <3>1. UNCHANGED <<diagnostics, worker, ended, posted, page, asked, supervisor>>
                  BY <1>11, <2>1, <2>2 DEF Attach
            <3> QED BY <1>8, <3>1
      <2>3. CASE ended # <<>>
            <3>1. HasEnded
                  BY <2>1, <2>3 DEF DxAlone, IsQueued, IsRunning, IsRefreshing, IsTelling
            <3>2. page'.snapshot = Fresh' BY <1>11, <2>3 DEF Attach, Fresh
            <3>3. IsTelling'
                  BY <2>1, <3>1, <3>2 DEF HasEnded, IsTelling, AllIdle
            <3> QED BY <1>c, <3>3
      <2> QED BY <2>2, <2>3
<1>12. CASE Shutdown BY <1>12 DEF Shutdown
<1>13. CASE UNCHANGED diagnosticsVars
      <2>1. UNCHANGED <<diagnostics, worker, ended, posted, page, asked, supervisor>>
            BY <1>13 DEF diagnosticsVars
      <2> QED BY <1>8, <2>1
<1> QED BY <1>1, <1>2, <1>3, <1>4, <1>5, <1>6, <1>7, <1>9, <1>10, <1>11, <1>12, <1>13
        DEF DiagnosticsNext, Works, AskTests, AskOther, TaskOps

-----------------------------------------------------------------------------
DiagnosticsInv == DxType /\ DxInOrder /\ DxAttached /\ DxCanTest /\ DxCounted /\ DxAlone

LEMMA DiagnosticsInvTells ==
  ASSUME LogCapacity \in Nat, DiagnosticsInv
  PROVE DiagnosticsAreTold
<1> SUFFICES ASSUME AtRest, ~supervisor.closed
    PROVE /\ page.canTest
          /\ Len(diagnostics.errors) = IF asked.failed < LogCapacity THEN asked.failed ELSE LogCapacity
          /\ ~asked.overlapped => page.snapshot = SnapshotOf(diagnostics)
    BY DEF DiagnosticsAreTold
<1>1. /\ supervisor.pool = <<>> /\ posted = <<>> /\ attaching = 0 /\ AllIdle /\ ended = <<>>
      /\ \A w \in Workers : ~Busy(w) /\ ~Reporting(w)
      BY DEF AtRest, AllIdle, IdleWorker, DiagnosticsInv, DxInOrder, Busy, Reporting
<1>2. page.canTest BY <1>1 DEF DiagnosticsInv, DxCanTest, AllIdle
<1>3. UnreportedErrors = 0 BY <1>1, NoErrorPlaces DEF UnreportedErrors
<1>4. Len(diagnostics.errors) = IF asked.failed < LogCapacity THEN asked.failed ELSE LogCapacity
      BY <1>3 DEF DiagnosticsInv, DxCounted, DxType, AskedType, LesserOf
<1>5. ASSUME ~asked.overlapped PROVE page.snapshot = SnapshotOf(diagnostics)
      <2>1. ~IsQueued /\ ~HasEnded /\ \A w \in Workers : ~IsRunning(w) /\ ~IsRefreshing(w)
            BY <1>1 DEF IsQueued, HasEnded, IsRunning, IsRefreshing
      <2>2. IsTelling BY <1>5, <2>1 DEF DiagnosticsInv, DxAlone
      <2>3. \A s : <<>> # <<s>> \o TellsFresh BY DEF TellsFresh
      <2> QED BY <1>1, <2>2, <2>3 DEF IsTelling, TellsFresh, Fresh
<1> QED BY <1>2, <1>4, <1>5

(* Once nothing is under way, the tests can be run again, the list holds   *)
(* every failure as far as it reaches, and the page shows what the service *)
(* keeps, unless two tasks overlapped.                                     *)
THEOREM DiagnosticsAreToldCorrect ==
  ASSUME LogCapacity \in Nat
  PROVE DiagnosticsSpec => []DiagnosticsAreTold
<1>1. DiagnosticsInit => DiagnosticsInv
      <2>1. DiagnosticsInit => DxAttached /\ DxCanTest
            BY DEF DiagnosticsInit, DxAttached, DxCanTest
      <2> QED BY <2>1, DxTypeInit, DxInOrderInit, DxCountedInit, DxAloneInit DEF DiagnosticsInv
<1>2. DiagnosticsInv /\ [DiagnosticsNext]_diagnosticsVars => DiagnosticsInv'
      BY DxTypeStep, DxInOrderStep, DxAttachedStep, DxCanTestStep, DxCountedStep, DxAloneStep
             DEF DiagnosticsInv
<1>3. DiagnosticsInv => DiagnosticsAreTold BY DiagnosticsInvTells
<1> QED BY <1>1, <1>2, <1>3, PTL DEF DiagnosticsSpec

=============================================================================
