-------------------------- MODULE CalibrationService --------------------------
(***************************************************************************)
(* Calibration in the program for monitoring: the presenter with its pool  *)
(* of threads (sdr_monitor/ui/presenters/calibration_presenter.py), the    *)
(* service behind its lock (services/calibration_service.py) and the       *)
(* versions on the disk (services/calibration_store.py).                   *)
(*                                                                         *)
(* Every operation of the service but the saving of a profile is one step  *)
(* under the lock. What the pool returns goes to the window in the order   *)
(* in which the threads come to it. One program uses the store.            *)
(***************************************************************************)
EXTENDS Integers, Sequences, FiniteSets, SequencesExt

CONSTANTS
  Threads,     \* of the pool
  Versions,    \* profile_id and version, as imported files name them
  Points,      \* contents of the files imported
  Signatures,  \* settings of the receiver
  Unset,       \* the signature before any is set
  Nothing,     \* no profile, no thread
  MaxTasks,    \* bound: operations asked for
  MaxEnds,     \* bound: ends of the program
  MaxTime      \* bound: seconds that pass

VARIABLES
  disk,     \* version -> the finalized profile, or Nothing
  lock,     \* the thread in the service, or Nothing
  current,  \* _current
  active,   \* _active
  waived,   \* the active profile did not apply and an expert insisted
  pending,  \* tasks of the executor no thread has taken
  doing,    \* thread -> [op, pc, ...], or Idle
  posted,   \* signals on their way to the window
  listed,   \* _profiles of the workspace
  shut,     \* _closed
  tasks, ends, now  \* counts
serviceVars ==
  <<disk, lock, current, active, waived, pending, doing, posted, listed, shut, tasks, ends, now>>

Idle == [pc |-> "idle"]
Profile(version, signature, points) ==
  [version |-> version, signature |-> signature, points |-> points, at |-> now]

Stored == {disk[v] : v \in Versions} \ {Nothing}
Applies(profile, settings) == profile.signature = settings

ServiceInit ==
  /\ disk = [v \in Versions |-> Nothing]
  /\ lock = Nothing /\ current = Unset /\ active = Nothing /\ waived = FALSE
  /\ pending = <<>> /\ doing = [t \in Threads |-> Idle] /\ posted = <<>> /\ listed = {}
  /\ shut = FALSE /\ tasks = 0 /\ ends = 0 /\ now = 0

-----------------------------------------------------------------------------
(* The window asks; shutdown() takes back what no thread has begun.        *)
Ask(task) ==
  /\ ~shut /\ tasks < MaxTasks
  /\ tasks' = tasks + 1
  /\ pending' = Append(pending, task)
  /\ UNCHANGED <<disk, lock, current, active, waived, doing, posted, listed, shut, ends, now>>

Operations ==
  {[op |-> "list"], [op |-> "clear"]}
    \cup {[op |-> "settings", signature |-> s] : s \in Signatures}
    \cup {[op |-> "finalize", version |-> v, points |-> p] : v \in Versions, p \in Points}
    \cup {[op |-> "activate", profile |-> p, expert |-> e] : p \in listed, e \in BOOLEAN}

Show ==
  /\ posted # <<>>
  /\ listed' = Head(posted) /\ posted' = Tail(posted)
  /\ UNCHANGED <<disk, lock, current, active, waived, pending, doing, shut, tasks, ends, now>>

Shutdown ==
  /\ ~shut
  /\ shut' = TRUE /\ pending' = <<>>
  /\ UNCHANGED <<disk, lock, current, active, waived, doing, posted, listed, tasks, ends, now>>

-----------------------------------------------------------------------------
(* A thread of the pool.                                                   *)
Begin(t) ==
  /\ doing[t] = Idle /\ pending # <<>>
  /\ doing' = [doing EXCEPT ![t] = [pc |-> "begun", task |-> Head(pending)]]
  /\ pending' = Tail(pending)
  /\ UNCHANGED <<disk, lock, current, active, waived, posted, listed, shut, tasks, ends, now>>

(* The plausible mistake: the saving does not take the lock.               *)
Unlocked(t) == TRUE
Locked(t) == lock \in {Nothing, t}

At(t, pc, op) == doing[t].pc = pc /\ doing[t].task.op = op
Finish(t) == doing' = [doing EXCEPT ![t] = Idle]

SetSettings(t) ==
  /\ At(t, "begun", "settings") /\ lock = Nothing
  /\ \E s \in {doing[t].task.signature} :
       /\ current' = s
       /\ active' = IF active # Nothing /\ Applies(active, s) THEN active ELSE Nothing
       /\ waived' = FALSE
  /\ Finish(t)
  /\ UNCHANGED <<disk, lock, pending, posted, listed, shut, tasks, ends, now>>

Activate(t) ==
  /\ At(t, "begun", "activate") /\ lock = Nothing
  /\ \E p \in {doing[t].task.profile} :
       IF Applies(p, current) \/ doing[t].task.expert
       THEN active' = p /\ waived' = ~Applies(p, current)
       ELSE UNCHANGED <<active, waived>>
  /\ Finish(t)
  /\ UNCHANGED <<disk, lock, current, pending, posted, listed, shut, tasks, ends, now>>

ClearActive(t) ==
  /\ At(t, "begun", "clear") /\ lock = Nothing
  /\ active' = Nothing /\ waived' = FALSE
  /\ Finish(t)
  /\ UNCHANGED <<disk, lock, current, pending, posted, listed, shut, tasks, ends, now>>

(* refresh(), and the callback of a finalized import: the list is read     *)
(* under the lock and given to the window after it.                        *)
ReadList(t) ==
  /\ At(t, "begun", "list") \/ doing[t].pc = "saved"
  /\ lock = Nothing
  /\ doing' = [doing EXCEPT ![t] = [pc |-> "read", list |-> Stored]]
  /\ UNCHANGED <<disk, lock, current, active, waived, pending, posted, listed, shut, tasks, ends, now>>

PostList(t) ==
  /\ doing[t].pc = "read"
  /\ posted' = Append(posted, doing[t].list)
  /\ Finish(t)
  /\ UNCHANGED <<disk, lock, current, active, waived, pending, listed, shut, tasks, ends, now>>

(* finalize_preview: the profile is made of the settings of the moment, and *)
(* with its time, before the lock is taken.                                 *)
MakeProfile(t) ==
  /\ At(t, "begun", "finalize")
  /\ \E p \in {Profile(doing[t].task.version, current, doing[t].task.points)} :
       doing' = [doing EXCEPT ![t] = [pc |-> "made", profile |-> p]]
  /\ UNCHANGED <<disk, lock, current, active, waived, pending, posted, listed, shut, tasks, ends, now>>

(* save(): a version that exists is returned when it is the same and       *)
(* refused when it is not; otherwise it is written beside itself...        *)
LookForVersion(t) ==
  /\ doing[t].pc = "made" /\ Locked(t)
  /\ \E p \in {doing[t].profile}, old \in {disk[doing[t].profile.version]} :
       \/ /\ old = Nothing
          /\ lock' = t /\ doing' = [doing EXCEPT ![t] = [pc |-> "writes", profile |-> p]]
       \/ /\ old # Nothing /\ old = p
          /\ doing' = [doing EXCEPT ![t] = [pc |-> "saved"]] /\ lock' = lock
       \/ /\ old # Nothing /\ old # p
          /\ Finish(t) /\ lock' = lock
  /\ UNCHANGED <<disk, current, active, waived, pending, posted, listed, shut, tasks, ends, now>>

(* ...and put in its place, or not: the write may fail.                    *)
PutVersion(t) ==
  /\ doing[t].pc = "writes"
  /\ lock' = Nothing
  /\ \/ /\ disk' = [disk EXCEPT ![doing[t].profile.version] = doing[t].profile]
        /\ doing' = [doing EXCEPT ![t] = [pc |-> "saved"]]
     \/ disk' = disk /\ Finish(t)
  /\ UNCHANGED <<current, active, waived, pending, posted, listed, shut, tasks, ends, now>>

SecondPasses ==
  /\ now < MaxTime
  /\ now' = now + 1
  /\ UNCHANGED <<disk, lock, current, active, waived, pending, doing, posted, listed, shut, tasks, ends>>

(* The program ends anywhere; the next one finds the disk and refreshes.   *)
EndProgram ==
  /\ ends < MaxEnds
  /\ ends' = ends + 1
  /\ lock' = Nothing /\ current' = Unset /\ active' = Nothing /\ waived' = FALSE
  /\ pending' = <<[op |-> "list"]>> /\ doing' = [t \in Threads |-> Idle] /\ posted' = <<>>
  /\ listed' = {} /\ shut' = FALSE
  /\ UNCHANGED <<disk, tasks, now>>

ServiceNext ==
  \/ \E o \in Operations : Ask(o)
  \/ Show \/ Shutdown \/ SecondPasses \/ EndProgram
  \/ \E t \in Threads :
       \/ Begin(t) \/ SetSettings(t) \/ Activate(t) \/ ClearActive(t) \/ ReadList(t) \/ PostList(t)
       \/ MakeProfile(t) \/ LookForVersion(t) \/ PutVersion(t)

-----------------------------------------------------------------------------
(* "Stores finalized versions without overwriting an existing version":    *)
(* two imports of one version, from two files or under two settings, leave *)
(* the first, through failures and ends of the program; and what is active *)
(* is such a version, made under the settings of now or waived for them.   *)
ActiveIsSound ==
  active # Nothing => active \in Stored /\ (Applies(active, current) \/ waived)
VersionsAreKept ==
  [][/\ \A v \in Versions : disk[v] # Nothing => disk'[v] = disk[v]
     /\ ActiveIsSound']_serviceVars
=============================================================================
