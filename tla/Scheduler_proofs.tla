--------------------------- MODULE Scheduler_proofs ---------------------------
(***************************************************************************)
(* Safety of the scheduler for any number of names, jobs, tasks and runs.  *)
(* What the code relies on without saying so is that _running_tasks and    *)
(* _jobs stay in step: RunningMatches is the missing half of NoOrphanLoop. *)
(***************************************************************************)
EXTENDS Scheduler, TLAPS

RunningMatches ==
    \A n \in Names : running[n] # None =>
        /\ Scheduled(n)
        /\ Live(running[n])
        /\ loopName[running[n]] = n

EnabledHasTask == \A n \in Names : Scheduled(n) => running[n] # None

IInv ==
    /\ TypeOK
    /\ NoOrphanLoop
    /\ RunningMatches
    /\ EnabledHasTask
    /\ PeriodicRunIsCurrent

USE NoneAssumption, CountAssumption, DisjointAssumption

LEMMA InitHolds == Init => IInv
  BY DEF Init, IInv, TypeOK, NoOrphanLoop, RunningMatches, EnabledHasTask,
         PeriodicRunIsCurrent, Scheduled, Live, Executors

-----------------------------------------------------------------------------
(* Types.                                                                  *)

LEMMA RecordType ==
    ASSUME TypeOK, NEW e \in Executors, Record(e)
    PROVE  runCount' \in [Jobs -> 0..MaxCount]
<1>1. CASE held[e] \in Jobs
  <2>1. runCount[held[e]] \in 0..MaxCount
    BY <1>1 DEF TypeOK
  <2>2. (IF runCount[held[e]] < MaxCount THEN runCount[held[e]] + 1 ELSE runCount[held[e]])
          \in 0..MaxCount
    BY <2>1
  <2> QED
    BY <2>2 DEF TypeOK, Record
<1>2. CASE held[e] = None
  <2>1. runCount' = runCount
    BY <1>2 DEF TypeOK, Record
  <2> QED
    BY <2>1 DEF TypeOK
<1> QED
  BY <1>1, <1>2 DEF TypeOK

LEMMA TypeStep == TypeOK /\ NoOrphanLoop /\ [Next]_vars => TypeOK'
<1> SUFFICES ASSUME TypeOK, NoOrphanLoop, [Next]_vars PROVE TypeOK'
  OBVIOUS
<1>1. ASSUME NEW n \in Names, NEW on \in BOOLEAN, NEW j \in Jobs, NEW l \in Loops,
             AddJob(n, on, j, l)
      PROVE  TypeOK'
  BY <1>1 DEF AddJob, TypeOK, Executors
<1>2. ASSUME NEW n \in Names, RemoveJob(n) PROVE TypeOK'
  BY <1>2 DEF RemoveJob, CancelLoop, TypeOK, Executors
<1>3. ASSUME NEW l \in Loops, LoopWakes(l) PROVE TypeOK'
  <2>1. CASE Scheduled(loopName[l])
    <3>1. loopName[l] \in Names
      BY <1>3 DEF LoopWakes, NoOrphanLoop, Live
    <3> QED
      BY <1>3, <2>1, <3>1 DEF LoopWakes, TypeOK, Executors
  <2>2. CASE ~Scheduled(loopName[l])
    BY <1>3, <2>2 DEF LoopWakes, LoopsAgain, TypeOK
  <2> QED
    BY <2>1, <2>2
<1>4. ASSUME NEW l \in Loops, LoopFinishes(l) PROVE TypeOK'
  <2>1. runCount' \in [Jobs -> 0..MaxCount]
    BY <1>4, RecordType DEF LoopFinishes, Executors
  <2> QED
    BY <1>4, <2>1 DEF LoopFinishes, LoopsAgain, TypeOK, Executors
<1>5. ASSUME NEW l \in Loops, LoopFails(l) PROVE TypeOK'
  BY <1>5 DEF LoopFails, LoopsAgain, TypeOK, Executors
<1>6. ASSUME NEW r \in Runs, NEW n \in Names, RunStarts(r, n) PROVE TypeOK'
  BY <1>6 DEF RunStarts, TypeOK, Executors
<1>7. ASSUME NEW r \in Runs, RunFinishes(r) PROVE TypeOK'
  <2>1. runCount' \in [Jobs -> 0..MaxCount]
    BY <1>7, RecordType DEF RunFinishes, Executors
  <2> QED
    BY <1>7, <2>1 DEF RunFinishes, TypeOK, Executors
<1>8. ASSUME NEW r \in Runs, RunFails(r) PROVE TypeOK'
  BY <1>8 DEF RunFails, TypeOK, Executors
<1>9. CASE UNCHANGED vars
  BY <1>9 DEF vars, TypeOK
<1> QED
  BY <1>1, <1>2, <1>3, <1>4, <1>5, <1>6, <1>7, <1>8, <1>9 DEF Next

-----------------------------------------------------------------------------
(* _running_tasks, _jobs and the tasks stay in step.                       *)

InStep == NoOrphanLoop /\ RunningMatches /\ EnabledHasTask /\ PeriodicRunIsCurrent

\* No task runs under a name that is not scheduled.
LEMMA Unscheduled ==
    ASSUME TypeOK, InStep, NEW n \in Names, ~Scheduled(n)
    PROVE  running[n] = None /\ \A l \in Loops : Live(l) => loopName[l] # n
  BY DEF InStep, NoOrphanLoop, RunningMatches, TypeOK

LEMMA AddStep ==
    ASSUME TypeOK, InStep, NEW n \in Names, NEW on \in BOOLEAN, NEW j \in Jobs,
           NEW l \in Loops, AddJob(n, on, j, l)
    PROVE  InStep'
<1>1. running[n] = None /\ \A k \in Loops : Live(k) => loopName[k] # n
  BY Unscheduled DEF AddJob, Scheduled
<1>2. /\ jobs' = [jobs EXCEPT ![n] = j] /\ enabled' = [enabled EXCEPT ![j] = on]
      /\ \A m \in Names : jobs[m] # j
  BY DEF AddJob, FreeJob
<1>3. \A m \in Names \ {n} : Scheduled(m)' <=> Scheduled(m)
  BY <1>2 DEF Scheduled, TypeOK
<1>4. Scheduled(n)' <=> on
  BY <1>2 DEF Scheduled, TypeOK
<1>5. CASE on
  <2>1. /\ running' = [running EXCEPT ![n] = l]
        /\ loop'[l] = "sleeping" /\ loopName'[l] = n
        /\ ~Live(l) /\ \A m \in Names : running[m] # l
    BY <1>5 DEF AddJob, FreeLoop, TypeOK
  <2>2. \A k \in Loops \ {l} : loop'[k] = loop[k] /\ loopName'[k] = loopName[k] /\ held'[k] = held[k]
    BY <1>1, <1>5 DEF AddJob, TypeOK, Executors
  <2>3. NoOrphanLoop'
    BY <1>1, <1>3, <1>4, <1>5, <2>1, <2>2 DEF InStep, NoOrphanLoop, Live, TypeOK
  <2>4. RunningMatches' /\ EnabledHasTask'
    BY <1>3, <1>4, <1>5, <2>1, <2>2 DEF InStep, RunningMatches, EnabledHasTask, Live, TypeOK
  <2>5. PeriodicRunIsCurrent'
    BY <1>1, <1>2, <2>1, <2>2 DEF InStep, NoOrphanLoop, PeriodicRunIsCurrent, Live, TypeOK
  <2> QED
    BY <2>3, <2>4, <2>5 DEF InStep
<1>6. CASE ~on
  <2>1. UNCHANGED <<running, loop, loopName, held>>
    BY <1>6 DEF AddJob
  <2>2. NoOrphanLoop' /\ RunningMatches' /\ EnabledHasTask'
    BY <1>1, <1>3, <1>4, <1>6, <2>1
       DEF InStep, NoOrphanLoop, RunningMatches, EnabledHasTask, Live, TypeOK
  <2>3. PeriodicRunIsCurrent'
    BY <1>1, <1>2, <2>1 DEF InStep, NoOrphanLoop, PeriodicRunIsCurrent, Live, TypeOK
  <2> QED
    BY <2>2, <2>3 DEF InStep
<1> QED
  BY <1>5, <1>6

LEMMA RemoveStep ==
    ASSUME TypeOK, InStep, NEW n \in Names, RemoveJob(n)
    PROVE  InStep'
<1>1. /\ jobs' = [jobs EXCEPT ![n] = None] /\ running' = [running EXCEPT ![n] = None]
      /\ UNCHANGED enabled
  BY DEF RemoveJob
<1>2. \A m \in Names \ {n} : Scheduled(m)' <=> Scheduled(m)
  BY <1>1 DEF Scheduled, TypeOK
<1>3. ~Scheduled(n)'
  BY <1>1 DEF Scheduled, TypeOK
<1>4. \A k \in Loops : loop'[k] # "done" =>
        /\ loop'[k] = loop[k] /\ loopName'[k] = loopName[k] /\ held'[k] = held[k]
        /\ running[n] # k
  BY DEF RemoveJob, CancelLoop, Executors
<1>5. \A k \in Loops : loop'[k] # "done" => loopName[k] # n
  BY <1>4 DEF InStep, NoOrphanLoop, Live
<1>6. NoOrphanLoop' /\ PeriodicRunIsCurrent'
  BY <1>1, <1>2, <1>4, <1>5 DEF InStep, NoOrphanLoop, PeriodicRunIsCurrent, Live, TypeOK
<1>7. \A m \in Names \ {n} : running[m] # None =>
        loop'[running[m]] = loop[running[m]] /\ loopName'[running[m]] = loopName[running[m]]
  BY DEF RemoveJob, CancelLoop, InStep, RunningMatches, TypeOK
<1>8. RunningMatches' /\ EnabledHasTask'
  BY <1>1, <1>2, <1>3, <1>7 DEF InStep, RunningMatches, EnabledHasTask, Live, TypeOK
<1> QED
  BY <1>6, <1>8 DEF InStep

LEMMA LoopStep ==
    ASSUME TypeOK, InStep, NEW l \in Loops,
           LoopWakes(l) \/ LoopFinishes(l) \/ LoopFails(l)
    PROVE  InStep'
<1>1. Live(l) /\ loopName[l] \in Names /\ Scheduled(loopName[l])
  BY DEF LoopWakes, LoopFinishes, LoopFails, InStep, NoOrphanLoop, Live
<1>2. /\ UNCHANGED <<jobs, enabled, running, loopName>>
      /\ loop'[l] # "done" /\ (loop'[l] = "executing" => held'[l] = jobs[loopName[l]])
      /\ \A k \in Loops \ {l} : loop'[k] = loop[k] /\ held'[k] = held[k]
  BY <1>1 DEF LoopWakes, LoopFinishes, LoopFails, LoopsAgain, TypeOK, Executors
<1> QED
  BY <1>1, <1>2 DEF InStep, NoOrphanLoop, RunningMatches, EnabledHasTask, PeriodicRunIsCurrent,
                    Live, Scheduled, TypeOK

\* A manual run touches neither the jobs nor the tasks.
LEMMA RunStep ==
    ASSUME TypeOK, InStep, NEW r \in Runs,
           (\E n \in Names : RunStarts(r, n)) \/ RunFinishes(r) \/ RunFails(r)
    PROVE  InStep'
<1>1. UNCHANGED <<jobs, enabled, running, loop, loopName>>
  BY DEF RunStarts, RunFinishes, RunFails
<1>2. PICK j : held' = [held EXCEPT ![r] = j]
  BY DEF RunStarts, RunFinishes, RunFails
<1>3. \A l \in Loops : l # r
  BY DisjointAssumption
<1>4. \A l \in Loops : held'[l] = held[l]
  BY <1>2, <1>3 DEF TypeOK, Executors
<1> QED
  BY <1>1, <1>4 DEF InStep, NoOrphanLoop, RunningMatches, EnabledHasTask, PeriodicRunIsCurrent,
                    Live, Scheduled

LEMMA StepHolds == IInv /\ [Next]_vars => IInv'
<1> SUFFICES ASSUME IInv, [Next]_vars PROVE IInv'
  OBVIOUS
<1>1. TypeOK /\ InStep
  BY DEF IInv, InStep
<1>2. TypeOK'
  BY <1>1, TypeStep DEF InStep
<1>3. ASSUME UNCHANGED vars PROVE InStep'
  BY <1>1, <1>3 DEF vars, InStep, NoOrphanLoop, RunningMatches, EnabledHasTask,
                    PeriodicRunIsCurrent, Live, Scheduled
<1>4. InStep'
  BY <1>1, <1>3, AddStep, RemoveStep, LoopStep, RunStep DEF Next
<1> QED
  BY <1>2, <1>4 DEF IInv, InStep

-----------------------------------------------------------------------------
(* The theorems.                                                           *)

\* The inductive invariant of every behaviour.
THEOREM Invariance == Spec => []IInv
  BY InitHolds, StepHolds, PTL DEF Spec

\* The types of the specification.
THEOREM TypeCorrect == Spec => []TypeOK
  BY Invariance, PTL DEF IInv

\* No task outlives the job it was started for.
THEOREM LoopsAreOwned == Spec => []NoOrphanLoop
  BY Invariance, PTL DEF IInv

\* No enabled job ever loses its task, whatever its commands do.
THEOREM EnabledJobsLoop == Spec => []EnabledMeansLooping
<1>1. IInv => EnabledMeansLooping
  BY DEF IInv, EnabledMeansLooping, EnabledHasTask, RunningMatches
<1> QED
  BY <1>1, Invariance, PTL

\* A periodic execution never works for a job that was replaced meanwhile.
THEOREM PeriodicRunsAreCurrent == Spec => []PeriodicRunIsCurrent
  BY Invariance, PTL DEF IInv

\* Outcomes are credited to the job they were started for.
THEOREM CreditStays == Spec => CreditStaysWithJob
<1>1. ASSUME IInv, [Next]_vars, NEW j \in Jobs, runCount'[j] > runCount[j]
      PROVE  \E e \in Executors : held[e] = j /\ held'[e] = None
  <2>1. runCount \in [Jobs -> 0..MaxCount] /\ held \in [Executors -> Jobs \cup {None}]
    BY <1>1 DEF IInv, TypeOK
  <2>2. ASSUME NEW e \in Executors, Record(e), held' = [held EXCEPT ![e] = None]
        PROVE  held[e] = j /\ held'[e] = None
    BY <1>1, <2>1, <2>2 DEF Record
  <2>3. ASSUME UNCHANGED runCount PROVE FALSE
    BY <1>1, <2>1, <2>3
  <2>4. ASSUME NEW n \in Names, NEW on \in BOOLEAN, NEW i \in Jobs, NEW l \in Loops,
               AddJob(n, on, i, l)
        PROVE  FALSE
    BY <1>1, <2>1, <2>4 DEF AddJob
  <2>5. ASSUME NEW l \in Loops, LoopFinishes(l)
        PROVE  \E e \in Executors : held[e] = j /\ held'[e] = None
    BY <2>2, <2>5 DEF LoopFinishes, Executors
  <2>6. ASSUME NEW r \in Runs, RunFinishes(r)
        PROVE  \E e \in Executors : held[e] = j /\ held'[e] = None
    BY <2>2, <2>6 DEF RunFinishes, Executors
  <2> QED
    BY <1>1, <2>3, <2>4, <2>5, <2>6
       DEF Next, RemoveJob, LoopWakes, LoopFails, RunStarts, RunFails, vars
<1>2. IInv /\ [Next]_vars =>
        [\A j \in Jobs : runCount'[j] > runCount[j] =>
            \E e \in Executors : held[e] = j /\ held'[e] = None]_vars
  BY <1>1
<1> QED
  BY <1>2, Invariance, PTL DEF Spec, CreditStaysWithJob
=============================================================================
