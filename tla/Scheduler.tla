------------------------------ MODULE Scheduler ------------------------------
(***************************************************************************)
(* The job scheduler: a dictionary of jobs and, for each enabled one, an   *)
(* asyncio task that sleeps and executes it in turn.  _execute looks the   *)
(* job up before it awaits the command and writes to that same dictionary  *)
(* object afterwards, when the name may be gone or belong to another job.  *)
(* Jobs are therefore identities here, and names only refer to them.       *)
(***************************************************************************)
EXTENDS Naturals

CONSTANTS
    Names,    \* job names
    Jobs,     \* identities of the job dictionaries
    Loops,    \* identities of the _loop tasks
    Runs,     \* concurrent POST /jobs/{name}/run handlers
    None,     \* no job, no task
    MaxCount  \* bound: run_count stays here once it is reached

ASSUME NoneAssumption == None \notin Jobs \cup Loops \cup Names
ASSUME CountAssumption == MaxCount \in Nat
ASSUME DisjointAssumption == Loops \cap Runs = {}

VARIABLES
    jobs,     \* _jobs: the job a name refers to
    enabled,  \* the "enabled" entry of each job
    runCount, \* its "run_count"
    running,  \* _running_tasks: the task a name refers to
    loop,     \* where each task stands
    loopName, \* the argument of each task
    held      \* the local `job` of each _execute under way

vars == <<jobs, enabled, runCount, running, loop, loopName, held>>

Executors == Loops \cup Runs

TypeOK ==
    /\ jobs \in [Names -> Jobs \cup {None}]
    /\ enabled \in [Jobs -> BOOLEAN]
    /\ runCount \in [Jobs -> 0..MaxCount]
    /\ running \in [Names -> Loops \cup {None}]
    /\ loop \in [Loops -> {"sleeping", "executing", "done"}]
    /\ loopName \in [Loops -> Names \cup {None}]
    /\ held \in [Executors -> Jobs \cup {None}]

Init ==
    /\ jobs = [n \in Names |-> None]
    /\ enabled = [j \in Jobs |-> FALSE]
    /\ runCount = [j \in Jobs |-> 0]
    /\ running = [n \in Names |-> None]
    /\ loop = [l \in Loops |-> "done"]
    /\ loopName = [l \in Loops |-> None]
    /\ held = [e \in Executors |-> None]

-----------------------------------------------------------------------------

Live(l) == loop[l] # "done"

\* `name in _jobs and _jobs[name]["enabled"]`
Scheduled(n) == jobs[n] # None /\ enabled[jobs[n]]

\* An identity is free again when neither a name nor an _execute refers to it.
FreeJob(j) == /\ \A n \in Names : jobs[n] # j
              /\ \A e \in Executors : held[e] # j

FreeLoop(l) == ~Live(l) /\ \A n \in Names : running[n] # l

\* Mutant: the task is dropped from _running_tasks but not cancelled.
CancelLoop_Dropped(n) == UNCHANGED <<loop, loopName, held>>

\* Cancelling a task ends it in its sleep or inside the command it awaits.
CancelLoop(n) ==
    /\ loop' = [l \in Loops |-> IF l = running[n] THEN "done" ELSE loop[l]]
    /\ loopName' = [l \in Loops |-> IF l = running[n] THEN None ELSE loopName[l]]
    /\ held' = [e \in Executors |-> IF e = running[n] THEN None ELSE held[e]]

\* POST /jobs; answers 409, and changes nothing, when the name is taken.
AddJob(n, on, j, l) ==
    /\ jobs[n] = None
    /\ FreeJob(j)
    /\ jobs' = [jobs EXCEPT ![n] = j]
    /\ enabled' = [enabled EXCEPT ![j] = on]
    /\ runCount' = [runCount EXCEPT ![j] = 0]
    /\ IF on
       THEN /\ FreeLoop(l)
            /\ running' = [running EXCEPT ![n] = l]
            /\ loop' = [k \in Loops |-> IF k = l THEN "sleeping"
                                        ELSE IF k = running[n] THEN "done" ELSE loop[k]]
            /\ loopName' = [k \in Loops |-> IF k = l THEN n
                                        ELSE IF k = running[n] THEN None ELSE loopName[k]]
            /\ held' = [e \in Executors |-> IF e = running[n] THEN None ELSE held[e]]
       ELSE UNCHANGED <<running, loop, loopName, held>>

\* DELETE /jobs/{name}; answers 404 when there is no such job.
RemoveJob(n) ==
    /\ jobs[n] # None
    /\ CancelLoop(n)
    /\ running' = [running EXCEPT ![n] = None]
    /\ jobs' = [jobs EXCEPT ![n] = None]
    /\ UNCHANGED <<enabled, runCount>>

\* The top of the while loop: sleep for another interval, or return.
LoopsAgain(l) ==
    LET again == Scheduled(loopName[l]) IN
    /\ loop' = [loop EXCEPT ![l] = IF again THEN "sleeping" ELSE "done"]
    /\ loopName' = [loopName EXCEPT ![l] = IF again THEN @ ELSE None]

\* The interval is over: the task looks its job up again and executes it.
LoopWakes(l) ==
    /\ loop[l] = "sleeping"
    /\ IF Scheduled(loopName[l])
       THEN /\ loop' = [loop EXCEPT ![l] = "executing"]
            /\ held' = [held EXCEPT ![l] = jobs[loopName[l]]]
            /\ UNCHANGED loopName
       ELSE LoopsAgain(l) /\ UNCHANGED held
    /\ UNCHANGED <<jobs, enabled, runCount, running>>

\* run_count of the dictionary object that was looked up before the await.
Record(e) ==
    runCount' = [runCount EXCEPT ![held[e]] = IF @ < MaxCount THEN @ + 1 ELSE @]

\* Mutant: the task ends after its first execution.
LoopFinishes_Once(l) ==
    /\ loop[l] = "executing"
    /\ Record(l)
    /\ held' = [held EXCEPT ![l] = None]
    /\ loop' = [loop EXCEPT ![l] = "done"]
    /\ loopName' = [loopName EXCEPT ![l] = None]
    /\ UNCHANGED <<jobs, enabled, running>>

\* The command of a periodic execution exited.
LoopFinishes(l) ==
    /\ loop[l] = "executing"
    /\ Record(l)
    /\ held' = [held EXCEPT ![l] = None]
    /\ LoopsAgain(l)
    /\ UNCHANGED <<jobs, enabled, running>>

\* Mutant: an exception of the command leaves _loop.
LoopFails_Escapes(l) ==
    /\ loop[l] = "executing"
    /\ held' = [held EXCEPT ![l] = None]
    /\ loop' = [loop EXCEPT ![l] = "done"]
    /\ loopName' = [loopName EXCEPT ![l] = None]
    /\ UNCHANGED <<jobs, enabled, runCount, running>>

\* The command could not be started: nothing is recorded, the loop goes on.
LoopFails(l) ==
    /\ loop[l] = "executing"
    /\ held' = [held EXCEPT ![l] = None]
    /\ LoopsAgain(l)
    /\ UNCHANGED <<jobs, enabled, runCount, running>>

\* POST /jobs/{name}/run; answers 404 when there is no such job.
RunStarts(r, n) ==
    /\ held[r] = None
    /\ jobs[n] # None
    /\ held' = [held EXCEPT ![r] = jobs[n]]
    /\ UNCHANGED <<jobs, enabled, runCount, running, loop, loopName>>

\* Mutant: the outcome goes to whatever job some name refers to by then.
RunFinishes_LooksUpAgain(r) ==
    /\ held[r] # None
    /\ \E n \in Names :
          /\ jobs[n] # None
          /\ runCount' = [runCount EXCEPT ![jobs[n]] = IF @ < MaxCount THEN @ + 1 ELSE @]
    /\ held' = [held EXCEPT ![r] = None]
    /\ UNCHANGED <<jobs, enabled, running, loop, loopName>>

RunFinishes(r) ==
    /\ held[r] # None
    /\ Record(r)
    /\ held' = [held EXCEPT ![r] = None]
    /\ UNCHANGED <<jobs, enabled, running, loop, loopName>>

\* Mutant: a run that failed is taken back, though it was never counted.
RunFails_Decrements(r) ==
    /\ held[r] # None
    /\ runCount' = [runCount EXCEPT ![held[r]] = @ - 1]
    /\ held' = [held EXCEPT ![r] = None]
    /\ UNCHANGED <<jobs, enabled, running, loop, loopName>>

\* The command could not be started: HTTP 500, nothing is recorded.
RunFails(r) ==
    /\ held[r] # None
    /\ held' = [held EXCEPT ![r] = None]
    /\ UNCHANGED <<jobs, enabled, runCount, running, loop, loopName>>

Next ==
    \/ \E n \in Names, on \in BOOLEAN, j \in Jobs, l \in Loops : AddJob(n, on, j, l)
    \/ \E n \in Names : RemoveJob(n)
    \/ \E l \in Loops : LoopWakes(l) \/ LoopFinishes(l) \/ LoopFails(l)
    \/ \E r \in Runs : (\E n \in Names : RunStarts(r, n)) \/ RunFinishes(r) \/ RunFails(r)

Spec == Init /\ [][Next]_vars

\* Sleeps end.  That commands end is an assumption about the commands: _run
\* awaits them without a timeout.
Fairness ==
    /\ \A l \in Loops : WF_vars(LoopWakes(l)) /\ WF_vars(LoopFinishes(l) \/ LoopFails(l))

FairSpec == Spec /\ Fairness

-----------------------------------------------------------------------------
(* Properties.                                                             *)

\* A task that is alive is the one registered for its name, and the name is
\* that of an enabled job: after a removal, even in the middle of an
\* execution, and after the name is taken again, nothing old keeps running.
NoOrphanLoop ==
    \A l \in Loops : Live(l) =>
        /\ loopName[l] \in Names
        /\ running[loopName[l]] = l
        /\ Scheduled(loopName[l])

\* An enabled job has a living task for as long as it is listed, whatever its
\* executions come to.
EnabledMeansLooping ==
    \A n \in Names : Scheduled(n) => running[n] # None /\ Live(running[n])

\* A periodic execution holds the job its name refers to at the time, though
\* the job was looked up before the await.
PeriodicRunIsCurrent ==
    \A l \in Loops : loop[l] = "executing" => held[l] = jobs[loopName[l]]

\* A job is credited only with executions that looked it up itself: one that
\* outlives the removal of its job never counts for the next job of the name.
CreditStaysWithJob ==
    [][\A j \in Jobs : runCount'[j] > runCount[j] =>
          \E e \in Executors : held[e] = j /\ held'[e] = None]_vars

\* A job that stays enabled is executed again and again.
Recurs ==
    \A n \in Names :
        <>[]Scheduled(n) => []<>(\E l \in Loops : loopName[l] = n /\ loop[l] = "executing")
=============================================================================
