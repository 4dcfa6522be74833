------------------------ MODULE GuardedApply_proofs ------------------------
(***************************************************************************)
(* Safety of the guarded apply for any number of handlers, tasks, texts    *)
(* and crashes.  OneApplyAtATime and NoForgottenTask are inductive given   *)
(* the types; LoadedMeansRunning is not: that the daemon loads the right   *)
(* text rests on WrittenMeansOnDisk, what the file holds meanwhile.        *)
(***************************************************************************)
EXTENDS GuardedApply, TLAPS

WrittenMeansOnDisk ==
    \A r \in InFlight : r \notin superseded => file = want[r] /\ want[r] \in Contents

IInv ==
    /\ TypeOK
    /\ OneApplyAtATime
    /\ NoForgottenTask
    /\ WrittenMeansOnDisk
    /\ LoadedMeansRunning

USE TextAssumption, TaskAssumption, BoundAssumption

-----------------------------------------------------------------------------
(* Types.                                                                  *)

\* A copy leaves a well-typed directory.
LEMMA CopyType ==
    ASSUME TypeOK, NEW dir \in [Names -> Texts \cup {None}],
           NEW kind \in {"bak", "checkpoint"}
    PROVE  Copy(dir, kind) \in [Names -> Texts \cup {None}]
  BY DEF Copy, TypeOK, Names

\* A checkpoint keeps the directory and the path well-typed.
LEMMA CheckpointType ==
    ASSUME TypeOK, NEW dir \in [Names -> Texts \cup {None}], CreateCheckpoint(dir)
    PROVE  backups' \in [Names -> Texts \cup {None}] /\ checkpoint' \in Names \cup {None}
  BY DEF CreateCheckpoint, TypeOK, Names

\* The holder of the lock leaves it, and the queue stays a queue.
LEMMA ReleaseType ==
    ASSUME TypeOK, NEW r \in Requests, lockQueue # << >>, Release(r)
    PROVE  /\ lockQueue' \in Seq(Requests)
           /\ phase' \in [Requests -> {"idle", "waiting", "reloading", "loaded"}]
           /\ want' \in [Requests -> Texts \cup {None}]
           /\ base' \in [Requests -> Texts \cup {None}]
  BY DEF Release, TypeOK

LEMMA CancelType ==
    ASSUME TypeOK
    PROVE  /\ CancelledTasks \in [Tasks -> {"sleeping", "reloading", "loaded", "done"}]
           /\ CancelledPromises \in [Tasks -> Texts \cup {None}]
           /\ StrayAfterCancel \in BOOLEAN
  BY DEF CancelledTasks, CancelledPromises, StrayAfterCancel, Pending, Live, TypeOK

\* The types survive every step that starts where the lock is held in order.
LEMMA TypeStep == TypeOK /\ OneApplyAtATime /\ [Next]_vars => TypeOK'
<1> SUFFICES ASSUME TypeOK, OneApplyAtATime, [Next]_vars PROVE TypeOK'
  OBVIOUS
<1> USE DEF TypeOK, Texts, WriteFile, DaemonLoads, disk, timer, applies, InFlight
<1>1. ASSUME NEW r \in Requests, NEW text \in Texts, ApplyArrives(r, text) PROVE TypeOK'
  BY <1>1 DEF ApplyArrives
<1>2. ASSUME NEW r \in Requests, ApplyWrites(r) PROVE TypeOK'
  <2>1. Copy(Copy(backups, "checkpoint"), "bak") \in [Names -> Texts \cup {None}]
    BY CopyType
  <2>2. backups' \in [Names -> Texts \cup {None}] /\ checkpoint' \in Names \cup {None}
    BY <1>2, <2>1, CheckpointType DEF ApplyWrites
  <2> QED
    BY <1>2, <2>2 DEF ApplyWrites
<1>3. ASSUME NEW r \in Requests, ApplyRefused(r) PROVE TypeOK'
  <2>1. Copy(backups, "checkpoint") \in [Names -> Texts \cup {None}]
    BY CopyType
  <2>2. backups' \in [Names -> Texts \cup {None}] /\ checkpoint' \in Names \cup {None}
    BY <1>3, <2>1, CheckpointType DEF ApplyRefused
  <2> QED
    BY <1>3, <2>2, ReleaseType DEF ApplyRefused, HasTurn
<1>4. ASSUME NEW r \in Requests, ApplyReloads(r) PROVE TypeOK'
  BY <1>4 DEF ApplyReloads
<1>5. ASSUME NEW r \in Requests, NEW t \in Tasks, ApplySucceeds(r, t) PROVE TypeOK'
  <2>1. lockQueue # << >>
    BY <1>5 DEF ApplySucceeds, OneApplyAtATime
  <2>2. base[r] \in Texts \cup {None}
    OBVIOUS
  <2> QED
    BY <1>5, <2>1, <2>2, ReleaseType, CancelType DEF ApplySucceeds
<1>6. ASSUME NEW r \in Requests, ApplyFails(r) PROVE TypeOK'
  <2>1. lockQueue # << >>
    BY <1>6 DEF ApplyFails, OneApplyAtATime
  <2> QED
    BY <1>6, <2>1, ReleaseType DEF ApplyFails
<1>7. CASE Confirm
  BY <1>7, CancelType DEF Confirm
<1>8. ASSUME NEW t \in Tasks, TaskStep(t) PROVE TypeOK'
  BY <1>8 DEF TaskStep, TimerRestores, TimerLapses, TaskReloads, TaskEnds
<1>9. CASE StrayReload
  BY <1>9 DEF StrayReload
<1>10. CASE Unlocked
  <2>1. ASSUME NEW text \in Contents, NEW backup \in BOOLEAN,
               NEW w \in Restarters \cup {None}, PutConfig(text, backup, w)
        PROVE  TypeOK'
    BY <2>1, CopyType DEF PutConfig, AwaitsRestart
  <2>2. ASSUME NEW n \in Names, Rollback(n) PROVE TypeOK'
    BY <2>2, CopyType DEF Rollback
  <2>3. ASSUME NEW w \in Restarters \cup {None}, Playbook(w) PROVE TypeOK'
    <3>1. Copy(backups, "checkpoint") \in [Names -> Texts \cup {None}]
      BY CopyType
    <3>2. backups' \in [Names -> Texts \cup {None}] /\ checkpoint' \in Names \cup {None}
      BY <2>3, <3>1, CheckpointType DEF Playbook
    <3> QED
      BY <2>3, <3>2 DEF Playbook, AwaitsRestart
  <2>4. ASSUME NEW w \in Restarters, RestartReturns(w) PROVE TypeOK'
    BY <2>4 DEF RestartReturns
  <2> QED
    BY <1>10, <2>1, <2>2, <2>3, <2>4 DEF Unlocked
<1>11. CASE Tick
  BY <1>11 DEF Tick, Seconds
<1>12. CASE Crash
  <2>1. SavedBeforeWrite \subseteq [Names -> Texts \cup {None}]
    <3>1. /\ Copy(backups, "bak") \in [Names -> Texts \cup {None}]
          /\ Copy(backups, "checkpoint") \in [Names -> Texts \cup {None}]
      BY CopyType
    <3>2. Copy(Copy(backups, "checkpoint"), "bak") \in [Names -> Texts \cup {None}]
      BY <3>1, CopyType
    <3> QED
      BY <3>1, <3>2 DEF SavedBeforeWrite
  <2>2. backups' \in [Names -> Texts \cup {None}] /\ file' \in Texts \cup {None}
    BY <1>12, <2>1 DEF Crash
  <2>3. crashes' \in 0..MaxCrashes /\ checkpoint' \in Names \cup {None}
        /\ rollbackTask' \in Tasks \cup {None}
    BY <1>12 DEF Crash
  <2>4. lockQueue' \in Seq(Requests)
    <3>1. lockQueue' = << >>
      BY <1>12 DEF Crash
    <3> HIDE DEF TypeOK
    <3> QED
      BY <3>1
  <2>5. stray' \in BOOLEAN /\ superseded' \subseteq Requests
    BY <1>12 DEF Crash
  <2>6. /\ task' \in [Tasks -> {"sleeping", "reloading", "loaded", "done"}]
        /\ promise' \in [Tasks -> Texts \cup {None}]
        /\ phase' \in [Requests -> {"idle", "waiting", "reloading", "loaded"}]
        /\ want' \in [Requests -> Texts \cup {None}]
        /\ base' \in [Requests -> Texts \cup {None}]
        /\ restart' \in [Restarters -> BOOLEAN]
    BY <1>12 DEF Crash
  <2>7. daemon' \in Contents \cup {None} /\ second' \in Seconds
    BY <1>12 DEF Crash
  <2> QED
    BY <2>2, <2>3, <2>4, <2>5, <2>6, <2>7
<1>13. CASE UNCHANGED vars
  BY <1>13 DEF vars
<1> QED
  BY <1>1, <1>2, <1>3, <1>4, <1>5, <1>6, <1>7, <1>8, <1>9, <1>10, <1>11, <1>12, <1>13
     DEF Next, ApplyStep

-----------------------------------------------------------------------------
(* The lock.                                                               *)

\* Whoever leaves the lock leaves nobody in flight behind.
LEMMA ReleaseEmpties ==
    ASSUME TypeOK, OneApplyAtATime, NEW r \in Requests,
           lockQueue # << >>, Head(lockQueue) = r, Release(r)
    PROVE  InFlight' = {}
  BY DEF Release, OneApplyAtATime, InFlight, TypeOK

LEMMA LockStep == TypeOK /\ OneApplyAtATime /\ [Next]_vars => OneApplyAtATime'
<1> SUFFICES ASSUME TypeOK, OneApplyAtATime, [Next]_vars PROVE OneApplyAtATime'
  OBVIOUS
<1>1. ASSUME NEW r \in Requests, NEW text \in Texts, ApplyArrives(r, text)
      PROVE  OneApplyAtATime'
  <2>1. InFlight' \subseteq InFlight
    BY <1>1 DEF ApplyArrives, InFlight, TypeOK
  <2>2. lockQueue # << >> => lockQueue' # << >> /\ Head(lockQueue') = Head(lockQueue)
    BY <1>1 DEF ApplyArrives, TypeOK
  <2> QED
    BY <2>1, <2>2 DEF OneApplyAtATime
<1>2. ASSUME NEW r \in Requests, ApplyWrites(r) PROVE OneApplyAtATime'
  <2>1. InFlight' \subseteq InFlight \cup {r}
    BY <1>2 DEF ApplyWrites, InFlight, TypeOK
  <2> QED
    BY <1>2, <2>1 DEF ApplyWrites, HasTurn, OneApplyAtATime
<1>3. ASSUME NEW r \in Requests, ApplyRefused(r) PROVE OneApplyAtATime'
  BY <1>3, ReleaseEmpties DEF ApplyRefused, HasTurn, OneApplyAtATime
<1>4. ASSUME NEW r \in Requests, ApplyReloads(r) PROVE OneApplyAtATime'
  <2>1. InFlight' \subseteq InFlight
    BY <1>4 DEF ApplyReloads, InFlight, TypeOK
  <2> QED
    BY <1>4, <2>1 DEF ApplyReloads, OneApplyAtATime
<1>5. ASSUME NEW r \in Requests, NEW t \in Tasks, ApplySucceeds(r, t)
      PROVE  OneApplyAtATime'
  <2>1. r \in InFlight
    BY <1>5 DEF ApplySucceeds, InFlight
  <2> QED
    BY <1>5, <2>1, ReleaseEmpties DEF ApplySucceeds, OneApplyAtATime
<1>6. ASSUME NEW r \in Requests, ApplyFails(r) PROVE OneApplyAtATime'
  BY <1>6, ReleaseEmpties DEF ApplyFails, OneApplyAtATime
<1>7. CASE Crash
  BY <1>7 DEF Crash, OneApplyAtATime, InFlight
<1>8. ASSUME UNCHANGED <<phase, lockQueue>> PROVE OneApplyAtATime'
  BY <1>8 DEF OneApplyAtATime, InFlight
<1>9. CASE Confirm \/ StrayReload \/ Unlocked \/ Tick \/ UNCHANGED vars
  BY <1>8, <1>9 DEF Confirm, StrayReload, Unlocked, PutConfig, Rollback, Playbook,
                   RestartReturns, Tick, vars, applies
<1>10. ASSUME NEW t \in Tasks, TaskStep(t) PROVE OneApplyAtATime'
  BY <1>8, <1>10 DEF TaskStep, TimerRestores, TimerLapses, TaskReloads, TaskEnds, applies
<1> QED
  BY <1>1, <1>2, <1>3, <1>4, <1>5, <1>6, <1>7, <1>9, <1>10 DEF Next, ApplyStep

-----------------------------------------------------------------------------
(* The rollback tasks.                                                     *)

LEMMA TaskOwnershipStep == TypeOK /\ NoForgottenTask /\ [Next]_vars => NoForgottenTask'
<1> SUFFICES ASSUME TypeOK, NoForgottenTask, [Next]_vars PROVE NoForgottenTask'
  OBVIOUS
<1>1. \A t \in Tasks : CancelledTasks[t] = "done"
  BY DEF NoForgottenTask, CancelledTasks, Live
<1>2. ASSUME NEW r \in Requests, NEW t \in Tasks, ApplySucceeds(r, t)
      PROVE  NoForgottenTask'
  <2>1. \A u \in Tasks \ {t} : task'[u] = "done"
    BY <1>1, <1>2 DEF ApplySucceeds, CancelledTasks
  <2> QED
    BY <1>2, <2>1 DEF ApplySucceeds, NoForgottenTask, Live
<1>3. CASE Confirm
  BY <1>1, <1>3 DEF Confirm, NoForgottenTask, Live
<1>4. ASSUME NEW t \in Tasks, TaskStep(t) PROVE NoForgottenTask'
  <2>1. Live(t) /\ rollbackTask' = rollbackTask
    BY <1>4 DEF TaskStep, TimerRestores, TimerLapses, TaskReloads, TaskEnds, Live
  <2>2. \A u \in Tasks \ {t} : task'[u] = task[u]
    BY <1>4 DEF TaskStep, TimerRestores, TimerLapses, TaskReloads, TaskEnds, TypeOK
  <2> QED
    BY <2>1, <2>2 DEF NoForgottenTask, Live
<1>5. CASE Crash
  BY <1>5 DEF Crash, NoForgottenTask, Live
<1>6. ASSUME UNCHANGED <<task, rollbackTask>> PROVE NoForgottenTask'
  BY <1>6 DEF NoForgottenTask, Live
<1>7. CASE StrayReload \/ Unlocked \/ Tick \/ UNCHANGED vars
  BY <1>6, <1>7 DEF StrayReload, Unlocked, PutConfig, Rollback, Playbook,
                   RestartReturns, Tick, vars, timer
<1>8. ASSUME NEW r \in Requests, NEW text \in Texts,
             \/ ApplyArrives(r, text) \/ ApplyWrites(r) \/ ApplyRefused(r)
             \/ ApplyReloads(r) \/ ApplyFails(r)
      PROVE  NoForgottenTask'
  BY <1>6, <1>8 DEF ApplyArrives, ApplyWrites, ApplyRefused, ApplyReloads, ApplyFails, timer
<1> QED
  BY <1>2, <1>3, <1>4, <1>5, <1>7, <1>8 DEF Next, ApplyStep, Texts

-----------------------------------------------------------------------------
(* What a handler in flight knows of the file and of the daemon.           *)

Known == WrittenMeansOnDisk /\ LoadedMeansRunning

\* When nobody is in flight any more there is nothing to know.
LEMMA NobodyInFlight == InFlight' = {} => Known'
  BY DEF Known, WrittenMeansOnDisk, LoadedMeansRunning, InFlight

\* A write without the lock supersedes every handler in flight.
LEMMA SupersedingWrite ==
    ASSUME NEW text, WriteFile(text, {}), UNCHANGED applies
    PROVE  Known'
  BY DEF WriteFile, applies, Known, WrittenMeansOnDisk, LoadedMeansRunning, InFlight

\* Whoever makes the daemon read the file makes it read the text in force.
LEMMA Loading ==
    ASSUME Known, UNCHANGED <<file, applies, superseded>>,
           DaemonLoads \/ UNCHANGED daemon
    PROVE  Known'
  BY DEF DaemonLoads, applies, Known, WrittenMeansOnDisk, LoadedMeansRunning, InFlight

LEMMA KnownStep == TypeOK /\ OneApplyAtATime /\ Known /\ [Next]_vars => Known'
<1> SUFFICES ASSUME TypeOK, OneApplyAtATime, Known, [Next]_vars PROVE Known'
  OBVIOUS
<1>1. ASSUME NEW r \in Requests, NEW text \in Texts, ApplyArrives(r, text) PROVE Known'
  <2>1. InFlight' = InFlight /\ r \notin InFlight
    BY <1>1 DEF ApplyArrives, InFlight, TypeOK
  <2>2. \A s \in Requests \ {r} : want'[s] = want[s] /\ phase'[s] = phase[s]
    BY <1>1 DEF ApplyArrives, TypeOK
  <2>3. UNCHANGED <<file, daemon, superseded>> /\ phase'[r] = "waiting"
    BY <1>1 DEF ApplyArrives, TypeOK, disk
  <2> QED
    BY <2>1, <2>2, <2>3 DEF Known, WrittenMeansOnDisk, LoadedMeansRunning, InFlight
<1>2. ASSUME NEW r \in Requests, ApplyWrites(r) PROVE Known'
  <2>1. InFlight = {}
    BY <1>2 DEF ApplyWrites, HasTurn, OneApplyAtATime, InFlight
  <2>2. InFlight' = {r} /\ phase'[r] = "reloading"
    BY <1>2, <2>1 DEF ApplyWrites, InFlight, TypeOK
  <2>3. file' = want'[r] /\ want'[r] \in Contents
    BY <1>2 DEF ApplyWrites, WriteFile
  <2> QED
    BY <2>2, <2>3 DEF Known, WrittenMeansOnDisk, LoadedMeansRunning, InFlight
<1>3. ASSUME NEW r \in Requests, ApplyRefused(r) PROVE Known'
  <2>1. InFlight' = {}
    BY <1>3, ReleaseEmpties DEF ApplyRefused, HasTurn
  <2> QED
    BY <2>1, NobodyInFlight
<1>4. ASSUME NEW r \in Requests, ApplyReloads(r) PROVE Known'
  <2>1. InFlight' = InFlight /\ r \in InFlight
    BY <1>4 DEF ApplyReloads, InFlight, TypeOK
  <2>2. \A s \in Requests : s # r => phase'[s] = phase[s]
    BY <1>4 DEF ApplyReloads, TypeOK
  <2>3. UNCHANGED <<file, want, superseded>> /\ DaemonLoads
    BY <1>4 DEF ApplyReloads, disk
  <2>4. WrittenMeansOnDisk'
    BY <2>1, <2>3 DEF Known, WrittenMeansOnDisk
  <2>5. ASSUME NEW s \in Requests, phase'[s] = "loaded", s \notin superseded
        PROVE  daemon' = want[s]
    <3>1. s \in InFlight
      BY <2>1, <2>2, <2>5 DEF InFlight
    <3> QED
      BY <2>3, <2>5, <3>1 DEF Known, WrittenMeansOnDisk, DaemonLoads
  <2> QED
    BY <2>3, <2>4, <2>5 DEF Known, LoadedMeansRunning
<1>5. ASSUME NEW r \in Requests,
             ApplyFails(r) \/ \E t \in Tasks : ApplySucceeds(r, t)
      PROVE  Known'
  <2>1. r \in InFlight /\ Release(r)
    BY <1>5 DEF ApplyFails, ApplySucceeds, InFlight
  <2>2. InFlight' = {}
    BY <2>1, ReleaseEmpties DEF OneApplyAtATime
  <2> QED
    BY <2>2, NobodyInFlight
<1>6. CASE Crash
  <2>1. InFlight' = {}
    BY <1>6 DEF Crash, InFlight
  <2> QED
    BY <2>1, NobodyInFlight
<1>7. ASSUME NEW t \in Tasks, TaskStep(t) PROVE Known'
  <2>1. CASE TimerRestores(t)
    BY <2>1, SupersedingWrite DEF TimerRestores
  <2>2. CASE TimerLapses(t) \/ TaskReloads(t) \/ TaskEnds(t)
    BY <2>2, Loading DEF TimerLapses, TaskReloads, TaskEnds, disk
  <2> QED
    BY <1>7, <2>1, <2>2 DEF TaskStep
<1>8. CASE Unlocked
  <2>1. ASSUME NEW text \in Contents, NEW backup \in BOOLEAN,
               NEW w \in Restarters \cup {None}, PutConfig(text, backup, w)
        PROVE  Known'
    BY <2>1, SupersedingWrite DEF PutConfig
  <2>2. ASSUME NEW n \in Names, Rollback(n) PROVE Known'
    BY <2>2, SupersedingWrite DEF Rollback
  <2>3. ASSUME NEW w \in Restarters \cup {None}, Playbook(w) \/ RestartReturns(w)
        PROVE  Known'
    BY <2>3, Loading DEF Playbook, RestartReturns, disk
  <2> QED
    BY <1>8, <2>1, <2>2, <2>3 DEF Unlocked
<1>9. CASE Confirm \/ StrayReload \/ Tick \/ UNCHANGED vars
  BY <1>9, Loading DEF Confirm, StrayReload, Tick, vars, disk
<1> QED
  BY <1>1, <1>2, <1>3, <1>4, <1>5, <1>6, <1>7, <1>8, <1>9 DEF Next, ApplyStep

-----------------------------------------------------------------------------
(* The theorems.                                                           *)

LEMMA InitHolds == Init => IInv
<1> SUFFICES ASSUME Init PROVE IInv
  OBVIOUS
<1>1. lockQueue \in Seq(Requests)
  <2>1. << >> \in Seq(Requests)
    OBVIOUS
  <2> QED
    BY <2>1 DEF Init
<1>2. second \in Seconds /\ crashes \in 0..MaxCrashes
  <2>1. second = 0 /\ crashes = 0
    BY DEF Init
  <2> QED
    BY <2>1 DEF Seconds
<1>3. /\ file \in Texts \cup {None} /\ daemon \in Contents \cup {None}
      /\ superseded \subseteq Requests /\ stray \in BOOLEAN
      /\ rollbackTask \in Tasks \cup {None} /\ checkpoint \in Names \cup {None}
  <2>1. /\ file \in Contents \cup {None} /\ daemon = file /\ superseded = {}
        /\ stray = FALSE /\ rollbackTask = None /\ checkpoint = None
    BY DEF Init
  <2> QED
    BY <2>1 DEF Texts
<1>4. /\ backups \in [Names -> Texts \cup {None}]
      /\ task \in [Tasks -> {"sleeping", "reloading", "loaded", "done"}]
      /\ promise \in [Tasks -> Texts \cup {None}]
  BY DEF Init
<1>5. /\ phase \in [Requests -> {"idle", "waiting", "reloading", "loaded"}]
      /\ want \in [Requests -> Texts \cup {None}]
      /\ base \in [Requests -> Texts \cup {None}]
      /\ restart \in [Restarters -> BOOLEAN]
  BY DEF Init
<1>6. TypeOK
  BY <1>1, <1>2, <1>3, <1>4, <1>5 DEF TypeOK
<1> QED
  BY <1>6 DEF Init, IInv, OneApplyAtATime, NoForgottenTask, WrittenMeansOnDisk,
              LoadedMeansRunning, InFlight, Live

LEMMA StepHolds == IInv /\ [Next]_vars => IInv'
  BY TypeStep, LockStep, TaskOwnershipStep, KnownStep DEF IInv, Known

\* The inductive invariant, with every type, of every behaviour.
THEOREM Invariance == Spec => []IInv
  BY InitHolds, StepHolds, PTL DEF Spec

\* The types of the specification.
THEOREM TypeCorrect == Spec => []TypeOK
  BY Invariance, PTL DEF IInv

\* apply_lock keeps the checkpoint-write-reload-arm sequences apart.
THEOREM AppliesExclude == Spec => []OneApplyAtATime
  BY Invariance, PTL DEF IInv

\* Whatever order applies, confirms, deadlines and crashes come in, no
\* rollback task escapes cancel_guarded_timer.
THEOREM NoTaskForgotten == Spec => []NoForgottenTask
  BY Invariance, PTL DEF IInv

\* A reload that was answered put the text of its apply in force, unless the
\* file was written without the lock.
THEOREM LoadedRuns == Spec => []LoadedMeansRunning
  BY Invariance, PTL DEF IInv

-----------------------------------------------------------------------------
(* What stays on the disk.                                                 *)

ThisSecond == {<<"bak", second>>, <<"checkpoint", second>>}

\* A copy touches only its own name of this second, and puts the file there.
LEMMA CopyEffect ==
    ASSUME TypeOK, NEW dir \in [Names -> Texts \cup {None}],
           NEW kind \in {"bak", "checkpoint"}
    PROVE  /\ \A n \in Names \ ThisSecond : Copy(dir, kind)[n] = dir[n]
           /\ file # None => Copy(dir, kind)[<<kind, second>>] = file
  BY DEF Copy, ThisSecond, TypeOK, Names

\* A text survives a step that keeps the older copies and copies, or keeps,
\* the file.
LEMMA Survival ==
    ASSUME TypeOK,
           \A n \in Names \ ThisSecond : backups'[n] = backups[n],
           file' = file \/ (file # None => backups'[<<"bak", second>>] = file),
           NEW c \in Stored,
           \A k \in {"bak", "checkpoint"} : c # backups[<<k, second>>]
    PROVE  c \in Stored'
  <1>1. <<"bak", second>> \in Names
    BY DEF TypeOK, Names
  <1>2. CASE c = file
    BY <1>1, <1>2 DEF Stored
  <1>3. CASE \E n \in Names : c = backups[n]
    <2>1. PICK n \in Names : c = backups[n]
      BY <1>3
    <2>2. n \notin ThisSecond
      BY <2>1 DEF ThisSecond
    <2> QED
      BY <2>1, <2>2 DEF Stored
  <1> QED
    BY <1>2, <1>3 DEF Stored

LEMMA StoredStep ==
    ASSUME TypeOK, Saves, NEW c \in Stored, ~SameSecond(c)
    PROVE  c \in Stored'
<1> USE DEF SameSecond
<1>1. backups \in [Names -> Texts \cup {None}]
  BY DEF TypeOK
<1>2. Copy(backups, "checkpoint") \in [Names -> Texts \cup {None}]
  BY <1>1, CopyType
<1>3. CASE UNCHANGED disk
  BY <1>3 DEF disk, Stored
<1>4. ASSUME UNCHANGED file, backups' = Copy(backups, "checkpoint") PROVE c \in Stored'
  BY <1>1, <1>4, CopyEffect, Survival
<1>5. ASSUME backups' = Copy(backups, "bak") PROVE c \in Stored'
  BY <1>1, <1>5, CopyEffect, Survival
<1>6. ASSUME NEW r \in Requests, ApplyWrites(r) PROVE c \in Stored'
  <2>1. backups' = Copy(Copy(backups, "checkpoint"), "bak")
    BY <1>6 DEF ApplyWrites, CreateCheckpoint
  <2>2. \A n \in Names \ ThisSecond : backups'[n] = backups[n]
    BY <1>1, <1>2, <2>1, CopyEffect
  <2>3. file # None => backups'[<<"bak", second>>] = file
    BY <1>2, <2>1, CopyEffect
  <2> QED
    BY <2>2, <2>3, Survival
<1>7. ASSUME NEW r \in Requests, ApplyRefused(r) PROVE c \in Stored'
  BY <1>4, <1>7 DEF ApplyRefused, CreateCheckpoint
<1>8. ASSUME NEW r \in Requests, NEW text \in Texts,
             \/ ApplyArrives(r, text) \/ ApplyReloads(r) \/ ApplyFails(r)
             \/ \E t \in Tasks : ApplySucceeds(r, t)
      PROVE  c \in Stored'
  BY <1>3, <1>8 DEF ApplyArrives, ApplyReloads, ApplyFails, ApplySucceeds
<1>9. ASSUME NEW text \in Contents, NEW w \in Restarters \cup {None},
             PutConfig(text, TRUE, w)
      PROVE  c \in Stored'
  BY <1>5, <1>9 DEF PutConfig
<1>10. ASSUME NEW n \in Names, Rollback(n) PROVE c \in Stored'
  BY <1>5, <1>10 DEF Rollback
<1>11. ASSUME NEW w \in Restarters \cup {None}, Playbook(w) PROVE c \in Stored'
  BY <1>4, <1>11 DEF Playbook, CreateCheckpoint
<1> QED
  BY <1>6, <1>7, <1>8, <1>9, <1>10, <1>11 DEF Saves, ApplyStep, Texts

\* A step that is meant to save what it overwrites loses a configuration only
\* to a copy of the same second.
THEOREM NothingVanishes == Spec => StoredIsKept
<1>1. TypeOK /\ [Next]_vars
        => [Saves => \A c \in Stored : c \in Stored' \/ SameSecond(c)]_vars
  BY StoredStep
<1> QED
  BY <1>1, TypeCorrect, PTL DEF Spec, StoredIsKept
=============================================================================
