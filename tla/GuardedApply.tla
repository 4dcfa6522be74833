---------------------------- MODULE GuardedApply ----------------------------
(***************************************************************************)
(* The guarded configuration apply of dawos-agent: POST /config/apply      *)
(* checkpoints accel-ppp.conf, writes the new text, reloads the daemon and *)
(* arms a rollback task that POST /config/confirm cancels.                 *)
(*                                                                         *)
(* One asyncio process serves every request: the code between two awaits   *)
(* is one action, and every await is a point at which any other handler,   *)
(* the rollback task, or a crash of the agent may run.  Only POST /apply   *)
(* takes apply_lock; confirm, rollback, PUT /config, the playbooks and the *)
(* rollback task do not.                                                   *)
(***************************************************************************)
EXTENDS Naturals, Sequences

CONSTANTS
    Contents,    \* configuration texts that write_config accepts
    Malformed,   \* a text it refuses: blank, or without a section header
    None,        \* no file, no path, no task
    Requests,    \* concurrent POST /apply handlers
    Restarters,  \* concurrent handlers that restart the daemon
    Tasks,       \* rollback tasks
    MaxSecond,   \* bound: the clock of the backup names stops here
    MaxCrashes   \* bound: how often the agent is killed

ASSUME TextAssumption == /\ Malformed \notin Contents
                         /\ None \notin Contents \cup {Malformed}
ASSUME TaskAssumption == None \notin Tasks
ASSUME BoundAssumption == MaxSecond \in Nat /\ MaxCrashes \in Nat

VARIABLES
    file,         \* accel-ppp.conf
    daemon,       \* the text accel-ppp last loaded
    backups,      \* the backup directory, by name
    second,       \* the wall clock, at the granularity of the names
    checkpoint,   \* _checkpoint_path
    rollbackTask, \* _rollback_task
    task,         \* where each rollback task stands
    lockQueue,    \* apply_lock: its holder, then its waiters in order
    phase,        \* where each POST /apply handler stands
    want,         \* the text each handler was sent
    base,         \* the text each handler checkpointed
    promise,      \* the checkpointed text that each task was armed to restore
    restart,      \* the handlers awaiting systemctl restart
    stray,        \* an accel-cmd reload outlives the task that awaited it
    crashes,
    superseded    \* history: handlers whose text was overwritten meanwhile

disk == <<file, backups>>
timer == <<checkpoint, rollbackTask, task, promise>>
applies == <<lockQueue, phase, want, base>>
vars == <<disk, daemon, second, timer, applies, restart, stray, crashes, superseded>>

Texts == Contents \cup {Malformed}
Seconds == 0..MaxSecond
Names == {"bak", "checkpoint"} \X Seconds

TypeOK ==
    /\ file \in Texts \cup {None}
    /\ daemon \in Contents \cup {None}
    /\ backups \in [Names -> Texts \cup {None}]
    /\ second \in Seconds
    /\ checkpoint \in Names \cup {None}
    /\ rollbackTask \in Tasks \cup {None}
    /\ task \in [Tasks -> {"sleeping", "reloading", "loaded", "done"}]
    /\ lockQueue \in Seq(Requests)
    /\ phase \in [Requests -> {"idle", "waiting", "reloading", "loaded"}]
    /\ want \in [Requests -> Texts \cup {None}]
    /\ base \in [Requests -> Texts \cup {None}]
    /\ promise \in [Tasks -> Texts \cup {None}]
    /\ restart \in [Restarters -> BOOLEAN]
    /\ stray \in BOOLEAN
    /\ crashes \in 0..MaxCrashes
    /\ superseded \subseteq Requests

Init ==
    /\ file \in Contents \cup {None}
    /\ daemon = file
    /\ backups = [n \in Names |-> None]
    /\ second = 0
    /\ checkpoint = None
    /\ rollbackTask = None
    /\ task = [t \in Tasks |-> "done"]
    /\ lockQueue = << >>
    /\ phase = [r \in Requests |-> "idle"]
    /\ want = [r \in Requests |-> None]
    /\ base = [r \in Requests |-> None]
    /\ promise = [t \in Tasks |-> None]
    /\ restart = [w \in Restarters |-> FALSE]
    /\ stray = FALSE
    /\ crashes = 0
    /\ superseded = {}

-----------------------------------------------------------------------------
(* Helpers.                                                                *)

Live(t) == task[t] # "done"

\* guarded_apply_status()["pending"]
Pending == rollbackTask # None /\ Live(rollbackTask)

\* shutil.copy2 of the configuration, when there is one, under a name that
\* tells two copies apart only if they are taken in different seconds.
Copy(dir, kind) ==
    IF file = None THEN dir ELSE [dir EXCEPT ![<<kind, second>>] = file]

CreateCheckpoint(dir) ==
    /\ backups' = dir
    /\ checkpoint' = IF file = None THEN checkpoint ELSE <<"checkpoint", second>>

InFlight == {r \in Requests : phase[r] \in {"reloading", "loaded"}}

\* ACCEL_CONFIG.write_text, by the handlers in `writers`.
WriteFile(text, writers) ==
    /\ file' = text
    /\ superseded' = (superseded \cup InFlight) \ writers

\* Mutant: the daemon swallows whatever it finds.
DaemonLoads_Blind == daemon' = file

\* The daemon reads the file; it keeps what it runs if the file is no good.
DaemonLoads == daemon' = IF file \in Contents THEN file ELSE daemon

\* Mutant: the reference is dropped, the task itself is not cancelled.
CancelledTasks_Dropped == task

CancelledTasks == [t \in Tasks |-> IF t = rollbackTask THEN "done" ELSE task[t]]
CancelledPromises == [t \in Tasks |-> IF t = rollbackTask THEN None ELSE promise[t]]

\* Cancelling a task inside its reload leaves the accel-cmd process behind.
StrayAfterCancel == stray \/ (Pending /\ task[rollbackTask] = "reloading")

\* The handler leaves `async with apply_lock`, whatever its outcome.
Release(r) ==
    /\ lockQueue' = Tail(lockQueue)
    /\ phase' = [phase EXCEPT ![r] = "idle"]
    /\ want' = [want EXCEPT ![r] = None]
    /\ base' = [base EXCEPT ![r] = None]

-----------------------------------------------------------------------------
(* POST /apply.                                                            *)

ApplyArrives(r, text) ==
    /\ phase[r] = "idle"
    /\ phase' = [phase EXCEPT ![r] = "waiting"]
    /\ want' = [want EXCEPT ![r] = text]
    /\ lockQueue' = Append(lockQueue, r)
    /\ UNCHANGED <<disk, daemon, second, timer, base, restart, stray, crashes, superseded>>

\* Mutant: the handlers no longer take apply_lock.
HasTurn_Unlocked(r) == phase[r] = "waiting"

HasTurn(r) == phase[r] = "waiting" /\ lockQueue # << >> /\ Head(lockQueue) = r

\* Mutant: checkpoint and backup are taken after the write.
ApplyWrites_First(r) ==
    /\ HasTurn(r)
    /\ want[r] \in Contents
    /\ WriteFile(want[r], {r})
    /\ CreateCheckpoint([n \in Names |-> IF n[2] = second THEN want[r] ELSE backups[n]])
    /\ phase' = [phase EXCEPT ![r] = "reloading"]
    /\ base' = [base EXCEPT ![r] = file]
    /\ UNCHANGED <<daemon, second, rollbackTask, task, promise, lockQueue, want,
                   restart, stray, crashes>>

\* Checkpoint, backup and write, up to the await of the reload.
ApplyWrites(r) ==
    /\ HasTurn(r)
    /\ want[r] \in Contents
    /\ CreateCheckpoint(Copy(Copy(backups, "checkpoint"), "bak"))
    /\ WriteFile(want[r], {r})
    /\ phase' = [phase EXCEPT ![r] = "reloading"]
    /\ base' = [base EXCEPT ![r] = file]
    /\ UNCHANGED <<daemon, second, rollbackTask, task, promise, lockQueue, want,
                   restart, stray, crashes>>

\* Mutant: the refusal returns without leaving the lock.
ApplyRefused_KeepsLock(r) ==
    /\ HasTurn(r)
    /\ want[r] = Malformed
    /\ CreateCheckpoint(Copy(backups, "checkpoint"))
    /\ phase' = [phase EXCEPT ![r] = "idle"]
    /\ want' = [want EXCEPT ![r] = None]
    /\ UNCHANGED <<file, daemon, second, rollbackTask, task, promise, lockQueue, base,
                   restart, stray, crashes, superseded>>

\* write_config raises ValueError: the checkpoint has been taken already.
ApplyRefused(r) ==
    /\ HasTurn(r)
    /\ want[r] = Malformed
    /\ CreateCheckpoint(Copy(backups, "checkpoint"))
    /\ Release(r)
    /\ UNCHANGED <<file, daemon, second, rollbackTask, task, promise, restart,
                   stray, crashes, superseded>>

\* Mutant: the reload is skipped, as it was before DA-H05.
ApplyReloads_Skipped(r) ==
    /\ r \in InFlight
    /\ phase' = [phase EXCEPT ![r] = "loaded"]
    /\ UNCHANGED <<disk, daemon, second, timer, lockQueue, want, base, restart, stray,
                   crashes, superseded>>

\* accel-cmd reaches the daemon, perhaps again after a transient failure.
ApplyReloads(r) ==
    /\ r \in InFlight
    /\ DaemonLoads
    /\ phase' = [phase EXCEPT ![r] = "loaded"]
    /\ UNCHANGED <<disk, second, timer, lockQueue, want, base, restart, stray,
                   crashes, superseded>>

\* The reload returned: start_guarded_timer cancels the task in force, which
\* also clears _checkpoint_path, and creates the next one.
ApplySucceeds(r, t) ==
    /\ phase[r] = "loaded"
    /\ ~Live(t) /\ t # rollbackTask
    /\ task' = [CancelledTasks EXCEPT ![t] = "sleeping"]
    /\ promise' = [CancelledPromises EXCEPT ![t] = base[r]]
    /\ rollbackTask' = t
    /\ checkpoint' = None
    /\ stray' = StrayAfterCancel
    /\ Release(r)
    /\ superseded' = superseded \ {r}
    /\ UNCHANGED <<disk, daemon, second, restart, crashes>>

\* The reload raised, whether or not the daemon had read the file: the new
\* text stays on disk and no task is armed for it.
ApplyFails(r) ==
    /\ r \in InFlight
    /\ Release(r)
    /\ superseded' = superseded \ {r}
    /\ UNCHANGED <<disk, daemon, second, timer, restart, stray, crashes>>

-----------------------------------------------------------------------------
(* POST /confirm and the rollback task.                                    *)

\* Answers 409, and changes nothing, when no task is pending.
Confirm ==
    /\ Pending
    /\ task' = CancelledTasks
    /\ promise' = CancelledPromises
    /\ stray' = StrayAfterCancel
    /\ rollbackTask' = None
    /\ checkpoint' = None
    /\ UNCHANGED <<disk, daemon, second, applies, restart, crashes, superseded>>

\* The deadline passes and _checkpoint_path names a copy.
TimerRestores(t) ==
    /\ task[t] = "sleeping"
    /\ checkpoint # None
    /\ WriteFile(backups[checkpoint], {})
    /\ task' = [task EXCEPT ![t] = "reloading"]
    /\ UNCHANGED <<daemon, backups, second, checkpoint, rollbackTask, promise,
                   applies, restart, stray, crashes>>

\* Mutant: without a checkpoint the task goes back to sleep.
TimerLapses_Rearms(t) ==
    /\ task[t] = "sleeping"
    /\ checkpoint = None
    /\ UNCHANGED vars

\* The deadline passes and there is no checkpoint: the task just ends.
TimerLapses(t) ==
    /\ task[t] = "sleeping"
    /\ checkpoint = None
    /\ task' = [task EXCEPT ![t] = "done"]
    /\ promise' = [promise EXCEPT ![t] = None]
    /\ UNCHANGED <<disk, daemon, second, checkpoint, rollbackTask, applies,
                   restart, stray, crashes, superseded>>

TaskReloads(t) ==
    /\ task[t] \in {"reloading", "loaded"}
    /\ DaemonLoads
    /\ task' = [task EXCEPT ![t] = "loaded"]
    /\ UNCHANGED <<disk, second, checkpoint, rollbackTask, promise, applies,
                   restart, stray, crashes, superseded>>

\* The task's reload returned or raised.
TaskEnds(t) ==
    /\ task[t] \in {"reloading", "loaded"}
    /\ task' = [task EXCEPT ![t] = "done"]
    /\ promise' = [promise EXCEPT ![t] = None]
    /\ UNCHANGED <<disk, daemon, second, checkpoint, rollbackTask, applies,
                   restart, stray, crashes, superseded>>

\* The process left behind reaches the daemon, or dies first.
StrayReload ==
    /\ stray
    /\ stray' = FALSE
    /\ DaemonLoads \/ UNCHANGED daemon
    /\ UNCHANGED <<disk, second, timer, applies, restart, crashes, superseded>>

-----------------------------------------------------------------------------
(* The writers that do not take apply_lock.                                *)

\* The handler goes on to await systemctl restart, or answers at once.
AwaitsRestart(w) ==
    IF w = None THEN UNCHANGED restart
    ELSE ~restart[w] /\ restart' = [restart EXCEPT ![w] = TRUE]

\* PUT /config, and with backup the editors of single sections.
PutConfig(text, backup, w) ==
    /\ WriteFile(text, {})
    /\ backups' = IF backup THEN Copy(backups, "bak") ELSE backups
    /\ AwaitsRestart(w)
    /\ UNCHANGED <<daemon, second, timer, applies, stray, crashes>>

\* POST /rollback/{name}: the copy is read before the safety backup is taken.
Rollback(n) ==
    /\ backups[n] \in Contents
    /\ WriteFile(backups[n], {})
    /\ backups' = Copy(backups, "bak")
    /\ UNCHANGED <<daemon, second, timer, applies, restart, stray, crashes>>

\* The backup-config playbook, and safe-restart which then restarts.
Playbook(w) ==
    /\ CreateCheckpoint(Copy(backups, "checkpoint"))
    /\ AwaitsRestart(w)
    /\ UNCHANGED <<file, daemon, second, rollbackTask, task, promise, applies,
                   stray, crashes, superseded>>

RestartReturns(w) ==
    /\ restart[w]
    /\ restart' = [restart EXCEPT ![w] = FALSE]
    /\ DaemonLoads \/ UNCHANGED daemon
    /\ UNCHANGED <<disk, second, timer, applies, stray, crashes, superseded>>

-----------------------------------------------------------------------------
(* The environment.                                                        *)

Tick ==
    /\ second < MaxSecond
    /\ second' = second + 1
    /\ UNCHANGED <<disk, daemon, timer, applies, restart, stray, crashes, superseded>>

\* What a killed agent may have saved before a write that it never finished.
SavedBeforeWrite ==
    {backups, Copy(backups, "bak")}
        \cup (IF \E r \in Requests : HasTurn(r)
              THEN {Copy(Copy(backups, "checkpoint"), "bak")} ELSE {})

\* The agent is killed, possibly inside write_text, which truncates first.
\* Globals, tasks and handlers are gone; the disk and the daemon remain.
Crash ==
    /\ crashes < MaxCrashes
    /\ crashes' = crashes + 1
    /\ \/ UNCHANGED disk
       \/ file' = Malformed /\ backups' \in SavedBeforeWrite
    /\ checkpoint' = None
    /\ rollbackTask' = None
    /\ task' = [t \in Tasks |-> "done"]
    /\ promise' = [t \in Tasks |-> None]
    /\ lockQueue' = << >>
    /\ phase' = [r \in Requests |-> "idle"]
    /\ want' = [r \in Requests |-> None]
    /\ base' = [r \in Requests |-> None]
    /\ restart' = [w \in Restarters |-> FALSE]
    /\ stray' = FALSE
    /\ superseded' = {}
    /\ UNCHANGED <<daemon, second>>

ApplyStep(r) ==
    \/ \E text \in Texts : ApplyArrives(r, text)
    \/ ApplyWrites(r)
    \/ ApplyRefused(r)
    \/ ApplyReloads(r)
    \/ \E t \in Tasks : ApplySucceeds(r, t)
    \/ ApplyFails(r)

TaskStep(t) ==
    \/ TimerRestores(t)
    \/ TimerLapses(t)
    \/ TaskReloads(t)
    \/ TaskEnds(t)

Unlocked ==
    \/ \E text \in Contents, backup \in BOOLEAN, w \in Restarters \cup {None} :
          PutConfig(text, backup, w)
    \/ \E n \in Names : Rollback(n)
    \/ \E w \in Restarters \cup {None} : Playbook(w)
    \/ \E w \in Restarters : RestartReturns(w)

Next ==
    \/ \E r \in Requests : ApplyStep(r)
    \/ Confirm
    \/ \E t \in Tasks : TaskStep(t)
    \/ StrayReload
    \/ Unlocked
    \/ Tick
    \/ Crash

Spec == Init /\ [][Next]_vars

\* The event loop runs every ready handler and task, sleeps end, and the
\* accel-cmd processes that are awaited exit.
Fairness ==
    /\ \A r \in Requests :
          /\ WF_vars(ApplyWrites(r) \/ ApplyRefused(r))
          /\ WF_vars((\E t \in Tasks : ApplySucceeds(r, t)) \/ ApplyFails(r))
    /\ \A t \in Tasks :
          /\ WF_vars(TimerRestores(t) \/ TimerLapses(t))
          /\ WF_vars(TaskEnds(t))

FairSpec == Spec /\ Fairness

-----------------------------------------------------------------------------
(* Properties.                                                             *)

\* The lock: at most one apply is between its checkpoint and its answer, and
\* it is the one at the head of the queue, so nobody else's checkpoint, write
\* or timer can slip into it.
OneApplyAtATime ==
    \A r \in InFlight : lockQueue # << >> /\ Head(lockQueue) = r

\* A rollback task that is still alive is the one _rollback_task refers to:
\* after a confirm, and after a newer apply took over, no forgotten task can
\* ever rewrite the configuration.
NoForgottenTask ==
    \A t \in Tasks : Live(t) => rollbackTask = t

\* Once the daemon has answered the reload of an apply, it runs the text of
\* that apply unless somebody without the lock wrote the file in between.
LoadedMeansRunning ==
    \A r \in Requests :
        phase[r] = "loaded" /\ r \notin superseded => daemon = want[r]

Stored == ({file} \cup {backups[n] : n \in Names}) \ {None}

\* The steps that are meant to save what they overwrite.  The others that
\* write are a PUT without backup, a rollback task, and a killed agent.
Saves ==
    \/ \E r \in Requests : ApplyStep(r)
    \/ \E n \in Names : Rollback(n)
    \/ \E w \in Restarters \cup {None} : Playbook(w)
    \/ \E text \in Contents, w \in Restarters \cup {None} : PutConfig(text, TRUE, w)

\* Its only copy bears a name of this very second.
SameSecond(c) == \E kind \in {"bak", "checkpoint"} : c = backups[<<kind, second>>]

\* Applies, rollbacks, playbooks and backed-up PUTs lose no configuration that
\* was on the disk, in force or as a copy, except by a copy that gets the name
\* of one taken in the same second.
StoredIsKept == [][Saves => \A c \in Stored : c \in Stored' \/ SameSecond(c)]_vars

\* What routers/checkpoint.py and the API reference promise: if nobody
\* confirms, the deadline puts the text from before the apply back in force.
UnconfirmedIsReverted ==
    [][\A t \in Tasks : task[t] = "sleeping" /\ (TimerRestores(t) \/ TimerLapses(t))
            /\ promise[t] # None => file' = promise[t]]_vars

\* Every POST /apply is answered: the lock is handed on in order, whether the
\* holder succeeds, is refused or fails.
AppliesAnswered ==
    \A r \in Requests : phase[r] # "idle" ~> phase[r] = "idle"

\* Every rollback task ends: cancelled, lapsed, or after its own reload.
TasksEnd ==
    \A t \in Tasks : Live(t) ~> ~Live(t)
=============================================================================
