------------------------- MODULE RootSchedulerProofs -------------------------
(***************************************************************************)
(* Safety of RootScheduler for every number of roots, tasks and inputs.     *)
(*                                                                          *)
(* PendingHasTimer and CommitsAdvance are not inductive alone.  The first    *)
(* needs that a root never waits and runs at once (SchedulerSane): otherwise *)
(* a timer that fires would be ignored and the flag kept.  The second needs  *)
(* that the job of the current generation is unique and was built from      *)
(* inputs no older than what is committed (JobsFresh, JobsUnique).           *)
(***************************************************************************)
EXTENDS RootScheduler, TLAPS

\* The debounce flags of one root: never waiting and running at once, and dirty
\* only while running.
SchedulerSane ==
  \A k \in Key : /\ ~(scheduler[k].pending /\ scheduler[k].running)
                 /\ scheduler[k].dirty => scheduler[k].running

\* Generations are handed out once, in increasing order.
GenerationsBounded ==
  /\ \A k \in Key : generation[k] <= next_generation
  /\ \A t \in Task : task[t].pc \in JobPc =>
       /\ 0 < task[t].generation
       /\ task[t].generation <= next_generation

JobsUnique ==
  \A t, u \in Task :
    (/\ task[t].pc \in JobPc
     /\ task[u].pc \in JobPc
     /\ task[t].generation = task[u].generation) => t = u

\* What is committed, and what a job carries, was an input once; the job that
\* may still commit is not older than the committed result.
JobsFresh ==
  /\ \A k \in Key : committed[k] <= input[k]
  /\ \A t \in Task : task[t].pc \in JobPc =>
       /\ task[t].snapshot <= input[task[t].key]
       /\ (/\ task[t].key \in roots
           /\ task[t].generation = generation[task[t].key])
          => committed[task[t].key] <= task[t].snapshot

IInv ==
  /\ TypeOK
  /\ SchedulerSane
  /\ PendingHasTimer
  /\ RunningHasOwner
  /\ StagingExclusive
  /\ GenerationsBounded
  /\ JobsUnique
  /\ JobsFresh

------------------------------------------------------------------------------
(* What the operations on SchedulerState return. *)

\* trigger, timer_fired, cancel_pending and job_finished keep the flags
\* consistent, whatever order the handlers and the tasks call them in.
LEMMA SchedulerLemma ==
  ASSUME NEW s \in SchedulerState,
         ~(s.pending /\ s.running), s.dirty => s.running
  PROVE  /\ trigger(s) \in SchedulerState
         /\ timer_fired(s) \in SchedulerState
         /\ cancel_pending(s) \in SchedulerState
         /\ job_finished(s) \in SchedulerState
         /\ ~(trigger(s).pending /\ trigger(s).running)
         /\ trigger(s).dirty => trigger(s).running
         /\ trigger(s).running = s.running
         /\ trigger(s).pending => s.pending \/ ArmsTimer(s)
         /\ ~(cancel_pending(s).pending /\ cancel_pending(s).running)
         /\ cancel_pending(s).dirty => cancel_pending(s).running
         /\ ~job_finished(s).running
         /\ ~job_finished(s).dirty
         /\ job_finished(s).pending => s.pending \/ OwesFollowUp(s)
         /\ timer_fired(s).running
         /\ ~timer_fired(s).pending
  BY Zenon DEF SchedulerState, trigger, timer_fired, cancel_pending, job_finished,
         ArmsTimer, OwesFollowUp

\* The operations of SchedulerState return SchedulerStates, and the idle state
\* of a new root is one.
LEMMA SchedulerTypes ==
  /\ IdleScheduler \in SchedulerState
  /\ \A s \in SchedulerState : /\ trigger(s) \in SchedulerState
                               /\ timer_fired(s) \in SchedulerState
                               /\ cancel_pending(s) \in SchedulerState
                               /\ job_finished(s) \in SchedulerState
  BY DEF SchedulerState, IdleScheduler, trigger, timer_fired, cancel_pending,
         job_finished

------------------------------------------------------------------------------
(* Type correctness *)

LEMMA TypeInit == Init => TypeOK
  <1> SUFFICES ASSUME Init PROVE TypeOK
    OBVIOUS
  <1>1. task \in [Task -> TaskState(Key)]
    <2>1. PICK k \in Key : task = [t \in Task |-> [Spawned(k) EXCEPT !.pc = "free"]]
      BY Zenon DEF Init
    <2>2. [Spawned(k) EXCEPT !.pc = "free"] \in TaskState(Key)
      BY DEF Spawned, TaskState, Pc
    <2> QED
      BY <2>1, <2>2
  <1>2. scheduler \in [Key -> SchedulerState]
    BY SchedulerTypes, ZenonT(60) DEF Init
  <1> QED
    BY <1>1, <1>2, Zenon DEF Init, TypeOK

LEMMA TypeNext == TypeOK /\ [Next]_vars => TypeOK'
  <1> SUFFICES ASSUME TypeOK, [Next]_vars PROVE TypeOK'
    OBVIOUS
  <1> USE SchedulerTypes DEF TypeOK
  <1>0. ASSUME NEW t \in Task, NEW l \in Pc, Goto(t, l)
        PROVE  task' \in [Task -> TaskState(Key)]
    BY <1>0, ZenonT(60) DEF Goto, TaskState
  <1>1. CASE Initialized
    BY <1>1, Zenon DEF Initialized, rootVars, clientVars, taskVars
  <1>2. CASE ScheduleAll
    <2>1. ready_sent' \in BOOLEAN
      BY <1>2, Zenon DEF ScheduleAll
    <2>2. calls' \in [Key -> Nat]
      BY <1>2 DEF ScheduleAll
    <2> QED
      BY <1>2, <2>1, <2>2, Zenon DEF ScheduleAll, rootVars, taskVars
  <1>3. ASSUME NEW k \in Key, Edit(k) PROVE TypeOK'
    BY <1>3 DEF Edit, rootVars, readyVars, taskVars
  <1>4. ASSUME NEW k \in Key, NEW a \in BOOLEAN, OpenStandalone(k, a) PROVE TypeOK'
    BY <1>4 DEF OpenStandalone, InsertRoot, readyVars, taskVars
  <1>5. ASSUME NEW k \in Key, AddFolder(k) PROVE TypeOK'
    BY <1>5 DEF AddFolder, InsertRoot, taskVars
  <1>6. ASSUME NEW k \in Key, RemoveFolder(k) PROVE TypeOK'
    BY <1>6 DEF RemoveFolder, taskVars
  <1>7. ASSUME NEW k \in Key, Schedule(k) PROVE TypeOK'
    <2>1. Spawned(k) \in TaskState(Key)
      BY Zenon DEF Spawned, TaskState, Pc
    <2>2. task' \in [Task -> TaskState(Key)]
      BY <1>7, <2>1 DEF Schedule
    <2>3. scheduler' \in [Key -> SchedulerState]
      BY <1>7 DEF Schedule
    <2>4. calls' \in [Key -> Nat]
      BY <1>7 DEF Schedule
    <2>5. wanted' \in [Key -> Nat]
      BY <1>7 DEF Schedule
    <2> QED
      BY <1>7, <2>2, <2>3, <2>4, <2>5, Zenon DEF Schedule, readyVars
  <1>8. CASE Shutdown
    BY <1>8, Zenon DEF Shutdown, rootVars, readyVars, clientVars, taskVars
  <1>9. ASSUME NEW t \in Task, TaskStep(t) PROVE TypeOK'
    <2>0. task[t].key \in Key
      BY Zenon DEF TaskState
    <2>1. CASE TimerFired(t)
      <3>1. task' \in [Task -> TaskState(Key)]
        BY <1>0, <2>1, Zenon DEF TimerFired, Pc
      <3>2. scheduler' \in [Key -> SchedulerState]
        BY <2>0, <2>1, Zenon DEF TimerFired
      <3> QED
        BY <2>1, <3>1, <3>2, Zenon DEF TimerFired, readyVars, clientVars
    <2>2. CASE MakeJob(t)
      <3>1. fresh_generation \in Nat
        BY DEF fresh_generation
      <3>2. task' \in [Task -> TaskState(Key)]
        <4>1. CASE task[t].key \in roots
          BY <2>0, <2>2, <3>1, <4>1 DEF MakeJob, TaskState, Pc
        <4>2. CASE task[t].key \notin roots
          BY <1>0, <2>2, <4>2, Zenon DEF MakeJob, Pc
        <4> QED
          BY <4>1, <4>2, Zenon
      <3>3. generation' \in [Key -> Nat]
        BY <2>0, <2>2, <3>1, Zenon DEF MakeJob
      <3> QED
        BY <2>2, <3>1, <3>2, <3>3 DEF MakeJob, readyVars, clientVars
    <2>3. CASE CompileBegin(t)
      BY <1>0, <2>3, Zenon DEF CompileBegin, Pc, rootVars, readyVars, clientVars
    <2>4. CASE TakeStagingLock(t)
      BY <1>0, <2>4, Zenon DEF TakeStagingLock, Pc, rootVars, readyVars, clientVars
    <2>5. CASE CompileStale(t)
      BY <1>0, <2>5, Zenon DEF CompileStale, Pc, rootVars, readyVars, clientVars
    <2>6. CASE CompileDone(t)
      BY <1>0, <2>6, Zenon DEF CompileDone, Pc, rootVars, readyVars, clientVars
    <2>7. CASE CompilePanic(t)
      BY <1>0, <2>7 DEF CompilePanic, Pc, rootVars, readyVars, clientVars
    <2>8. CASE Commit(t)
      <3>1. task' \in [Task -> TaskState(Key)]
        BY <1>0, <2>8, Zenon DEF Commit, Pc
      <3>2. committed' \in [Key -> Nat]
        BY <2>0, <2>8, Zenon DEF Commit, TaskState
      <3> QED
        BY <2>8, <3>1, <3>2, Zenon DEF Commit, clientVars
    <2>9. CASE Finish(t)
      <3>1. Spawned(task[t].key) \in TaskState(Key)
        BY <2>0, Zenon DEF Spawned, TaskState, Pc
      <3>2. task' \in [Task -> TaskState(Key)]
        BY <1>0, <2>9, <3>1, Zenon DEF Finish, Pc
      <3>3. scheduler' \in [Key -> SchedulerState]
        BY <2>0, <2>9, Zenon DEF Finish
      <3> QED
        BY <2>9, <3>2, <3>3, Zenon DEF Finish, readyVars, clientVars
    <2> QED
      BY <1>9, <2>1, <2>2, <2>3, <2>4, <2>5, <2>6, <2>7, <2>8, <2>9, Zenon DEF TaskStep
  <1>10. CASE UNCHANGED vars
    BY <1>10 DEF vars, rootVars, readyVars, clientVars, taskVars
  <1> QED
    BY <1>1, <1>2, <1>3, <1>4, <1>5, <1>6, <1>7, <1>8, <1>9, <1>10 DEF Next

\* Every reachable state of the analysis pipeline is well formed.
THEOREM TypeCorrect == Spec => []TypeOK
  BY TypeInit, TypeNext, PTL DEF Spec

------------------------------------------------------------------------------
(* The steps, grouped by the part of the pipeline they can disturb. *)

\* Handlers that only record something: no root, job or lock changes.
QuietStep ==
  /\ UNCHANGED <<roots, scheduler, generation, committed, task, staging, next_generation>>
  /\ shutting_down => shutting_down'
  /\ \A k \in Key : input[k] <= input'[k]

\* A root enters the backend state, idle.
InsertStep(k) ==
  /\ roots' = roots \cup {k}
  /\ scheduler' = [scheduler EXCEPT ![k] = IdleScheduler]
  /\ generation' = [generation EXCEPT ![k] = 0]
  /\ committed' = [committed EXCEPT ![k] = 0]
  /\ UNCHANGED <<task, staging, next_generation, shutting_down, input>>

RemoveStep(k) ==
  /\ roots' = roots \ {k}
  /\ UNCHANGED <<scheduler, generation, committed, task, staging, next_generation,
                 shutting_down, input>>

\* A step inside compile_job.
CompileStep(t) ==
  \E l \in JobPc :
    /\ task[t].pc \in JobPc
    /\ task' = [task EXCEPT ![t].pc = l]
    /\ UNCHANGED <<roots, scheduler, generation, committed, next_generation,
                   shutting_down, input>>

LEMMA StepKinds ==
  ASSUME TypeOK, [Next]_vars
  PROVE  \/ QuietStep
         \/ \E k \in Key : InsertStep(k) \/ RemoveStep(k) \/ Schedule(k)
         \/ \E t \in Task : \/ TimerFired(t) \/ MakeJob(t) \/ CompileStep(t)
                            \/ Commit(t) \/ Finish(t)
  <1>1. CASE Initialized
    BY <1>1 DEF Initialized, QuietStep, rootVars, clientVars, taskVars, TypeOK
  <1>2. CASE ScheduleAll
    BY <1>2 DEF ScheduleAll, QuietStep, rootVars, taskVars, TypeOK
  <1>3. ASSUME NEW k \in Key, Edit(k) PROVE QuietStep
    BY <1>3 DEF Edit, QuietStep, rootVars, taskVars, TypeOK
  <1>4. ASSUME NEW k \in Key, NEW a \in BOOLEAN, OpenStandalone(k, a)
        PROVE  InsertStep(k)
    BY <1>4 DEF OpenStandalone, InsertRoot, InsertStep, taskVars
  <1>5. ASSUME NEW k \in Key, AddFolder(k) PROVE InsertStep(k)
    BY <1>5 DEF AddFolder, InsertRoot, InsertStep, taskVars
  <1>6. ASSUME NEW k \in Key, RemoveFolder(k) PROVE RemoveStep(k)
    BY <1>6 DEF RemoveFolder, RemoveStep, taskVars
  <1>7. CASE Shutdown
    BY <1>7 DEF Shutdown, QuietStep, rootVars, clientVars, taskVars, TypeOK
  <1>8. ASSUME NEW t \in Task,
               \/ CompileBegin(t) \/ TakeStagingLock(t) \/ CompileStale(t)
               \/ CompileDone(t) \/ CompilePanic(t)
        PROVE  CompileStep(t)
    <2>1. CASE CompileBegin(t)
      BY <2>1, Zenon DEF CompileBegin, CompileStep, Goto, JobPc, rootVars, clientVars
    <2>2. CASE TakeStagingLock(t)
      BY <2>2 DEF TakeStagingLock, CompileStep, Goto, JobPc, rootVars, clientVars
    <2>3. CASE CompileStale(t)
      BY <2>3 DEF CompileStale, CompileStep, Goto, JobPc, rootVars, clientVars
    <2>4. CASE CompileDone(t)
      BY <2>4 DEF CompileDone, CompileStep, Goto, JobPc, rootVars, clientVars
    <2>5. CASE CompilePanic(t)
      BY <2>5, Zenon DEF CompilePanic, CompileStep, Goto, JobPc, rootVars, clientVars
    <2> QED
      BY <1>8, <2>1, <2>2, <2>3, <2>4, <2>5
  <1>9. CASE UNCHANGED vars
    BY <1>9 DEF vars, QuietStep, rootVars, clientVars, taskVars, TypeOK
  <1> QED
    BY <1>1, <1>2, <1>3, <1>4, <1>5, <1>6, <1>7, <1>8, <1>9, Zenon DEF Next, TaskStep

------------------------------------------------------------------------------
(* The debounce flags and the tasks behind them *)

LEMMA SaneNext ==
  TypeOK /\ SchedulerSane /\ [Next]_vars => SchedulerSane'
  <1> SUFFICES ASSUME TypeOK, SchedulerSane, [Next]_vars PROVE SchedulerSane'
    BY Zenon
  <1> USE DEF SchedulerSane, TypeOK
  <1>0. \A t \in Task : task[t].key \in Key
    BY Zenon DEF TaskState
  <1>1. CASE QuietStep
    BY <1>1, Zenon DEF QuietStep
  <1>2. ASSUME NEW k \in Key, InsertStep(k) PROVE SchedulerSane'
    BY <1>2, Zenon DEF InsertStep, IdleScheduler
  <1>3. ASSUME NEW k \in Key, RemoveStep(k) PROVE SchedulerSane'
    BY <1>3, Zenon DEF RemoveStep
  <1>4. ASSUME NEW k \in Key, Schedule(k) PROVE SchedulerSane'
    BY <1>4, SchedulerLemma DEF Schedule
  <1>5. ASSUME NEW t \in Task, TimerFired(t) PROVE SchedulerSane'
    <2> DEFINE k == task[t].key
    <2>1. CASE UNCHANGED scheduler
      BY <2>1
    <2>2. CASE StartsJob(scheduler[k]) /\ scheduler' = [scheduler EXCEPT ![k] = timer_fired(@)]
      BY <1>0, <2>2 DEF timer_fired, SchedulerState
    <2>3. CASE scheduler' = [scheduler EXCEPT ![k] = cancel_pending(@)]
      BY <1>0, <2>3 DEF cancel_pending, SchedulerState
    <2> QED
      BY <1>0, <1>5, <2>1, <2>2, <2>3, Zenon DEF TimerFired
  <1>6. ASSUME NEW t \in Task, MakeJob(t) \/ CompileStep(t) \/ Commit(t)
        PROVE  SchedulerSane'
    BY <1>6, Zenon DEF MakeJob, CompileStep, Commit
  <1>7. ASSUME NEW t \in Task, Finish(t) PROVE SchedulerSane'
    BY <1>0, <1>7, Zenon DEF Finish, job_finished, SchedulerState
  <1> QED
    BY <1>1, <1>2, <1>3, <1>4, <1>5, <1>6, <1>7, StepKinds, Zenon

LEMMA PendingNext ==
  TypeOK /\ SchedulerSane /\ PendingHasTimer /\ [Next]_vars => PendingHasTimer'
  <1> SUFFICES ASSUME TypeOK, SchedulerSane, PendingHasTimer, [Next]_vars
               PROVE  PendingHasTimer'
    BY Zenon
  <1> USE DEF PendingHasTimer, Sleeping, TypeOK
  <1>0. \A t \in Task : task[t] \in TaskState(Key) /\ task[t].key \in Key
    BY Zenon DEF TaskState
  <1>1. CASE QuietStep
    BY <1>1, Zenon DEF QuietStep
  <1>2. ASSUME NEW k \in Key, InsertStep(k) PROVE PendingHasTimer'
    BY <1>2 DEF InsertStep, IdleScheduler
  <1>3. ASSUME NEW k \in Key, RemoveStep(k) PROVE PendingHasTimer'
    BY <1>3, Zenon DEF RemoveStep
  <1>4. ASSUME NEW k \in Key, Schedule(k) PROVE PendingHasTimer'
    <2>1. CASE k \in roots /\ ArmsTimer(scheduler[k])
      <3>1. PICK t \in Task : task[t].pc = "free" /\ task' = [task EXCEPT ![t] = Spawned(k)]
        BY <1>4, <2>1, Zenon DEF Schedule
      <3>2. task'[t].pc = "sleep" /\ task'[t].key = k
        BY <3>1, Zenon DEF Spawned
      <3>3. \A u \in Task : task[u].pc = "sleep" => task'[u] = task[u]
        BY <3>1, Zenon
      <3>4. \A j \in Key : j # k => scheduler'[j] = scheduler[j]
        BY <1>4, <2>1, ZenonT(60) DEF Schedule
      <3> QED
        BY <1>4, <3>2, <3>3, <3>4 DEF Schedule
    <2>2. CASE k \in roots /\ ~ArmsTimer(scheduler[k])
      <3>1. task' = task /\ scheduler' = [scheduler EXCEPT ![k] = trigger(@)]
        BY <1>4, <2>2, Zenon DEF Schedule
      <3>2. trigger(scheduler[k]).pending => scheduler[k].pending
        BY <2>2, SchedulerLemma DEF SchedulerSane
      <3> QED
        BY <1>4, <3>1, <3>2, Zenon DEF Schedule
    <2>3. CASE k \notin roots
      BY <1>4, <2>3, Zenon DEF Schedule
    <2> QED
      BY <2>1, <2>2, <2>3, Zenon
  <1>5. ASSUME NEW t \in Task, TimerFired(t) PROVE PendingHasTimer'
    <2> DEFINE k == task[t].key
    <2>1. \A u \in Task : u # t => task'[u] = task[u]
      BY <1>5, Zenon DEF TimerFired, Goto
    <2>2. \A j \in Key : j # k => scheduler'[j] = scheduler[j]
      BY <1>0, <1>5, Zenon DEF TimerFired
    <2>3. ~shutting_down /\ k \in roots => ~scheduler'[k].pending
      <3> SUFFICES ASSUME ~shutting_down, k \in roots PROVE ~scheduler'[k].pending
        BY Zenon
      <3>1. CASE StartsJob(scheduler[k])
        BY <1>0, <1>5, <3>1 DEF TimerFired, timer_fired, SchedulerState
      <3>2. CASE ~StartsJob(scheduler[k])
        BY <1>0, <1>5, <3>2, Zenon DEF TimerFired, StartsJob, SchedulerSane
      <3> QED
        BY <3>1, <3>2, Zenon
    <2>4. UNCHANGED <<roots, shutting_down>> /\ task[t].pc = "sleep" /\ k \in Key
      BY <1>0, <1>5, Zenon DEF TimerFired
    <2> SUFFICES ASSUME ~shutting_down, NEW j \in roots, scheduler'[j].pending
                 PROVE  \E u \in Task : Sleeping(u, j)'
      BY <2>4, Zenon
    <2>5. j \in Key /\ j # k
      BY <2>3, Zenon
    <2>6. scheduler[j].pending
      BY <2>2, <2>5, Zenon
    <2>7. PICK u \in Task : Sleeping(u, j)
      BY <2>6, Zenon
    <2>8. u # t
      BY <2>5, <2>7, Zenon
    <2> QED
      BY <2>1, <2>7, <2>8, Zenon
  <1>6. ASSUME NEW t \in Task, MakeJob(t) PROVE PendingHasTimer'
    <2>1. \A u \in Task : task[u].pc = "sleep" => task'[u] = task[u]
      BY <1>6, ZenonT(60) DEF MakeJob, Goto
    <2> QED
      BY <1>6, <2>1 DEF MakeJob
  <1>7. ASSUME NEW t \in Task, CompileStep(t) PROVE PendingHasTimer'
    <2>1. \A u \in Task : task[u].pc = "sleep" => task'[u] = task[u]
      BY <1>7 DEF CompileStep, JobPc
    <2>2. UNCHANGED <<roots, scheduler, shutting_down>>
      BY <1>7, Zenon DEF CompileStep
    <2> QED
      BY <2>1, <2>2
  <1>8. ASSUME NEW t \in Task, Commit(t) PROVE PendingHasTimer'
    <2>1. \A u \in Task : task[u].pc = "sleep" => task'[u] = task[u]
      BY <1>8, Zenon DEF Commit, Goto
    <2> QED
      BY <1>8, <2>1 DEF Commit
  <1>9. ASSUME NEW t \in Task, Finish(t) PROVE PendingHasTimer'
    <2> DEFINE k == task[t].key
    <2>1. \A u \in Task : task[u].pc = "sleep" => task'[u] = task[u]
      BY <1>9, ZenonT(60) DEF Finish, Goto
    <2>2. \A j \in Key : j # k => scheduler'[j] = scheduler[j]
      BY <1>0, <1>9, Zenon DEF Finish
    <2>3. CASE Releases(t) /\ OwesFollowUp(scheduler[k])
      <3>1. task'[t].pc = "sleep" /\ task'[t].key = k
        BY <1>9, <2>3 DEF Finish, Spawned
      <3> QED
        BY <1>9, <2>1, <2>2, <3>1 DEF Finish
    <2>4. CASE ~(Releases(t) /\ OwesFollowUp(scheduler[k]))
      <3>1. scheduler'[k].pending => scheduler[k].pending
        <4>1. k \in Key /\ scheduler \in [Key -> SchedulerState]
          BY <1>0, Zenon
        <4>2. scheduler'[k] = IF Releases(t) THEN job_finished(scheduler[k]) ELSE scheduler[k]
          BY ONLY <1>9, <4>1, Zenon DEF Finish
        <4>3. /\ ~(scheduler[k].pending /\ scheduler[k].running)
              /\ scheduler[k].dirty => scheduler[k].running
          BY <4>1, Zenon DEF SchedulerSane
        <4>4. job_finished(scheduler[k]).pending
                => scheduler[k].pending \/ OwesFollowUp(scheduler[k])
          BY ONLY <4>1, <4>3, SchedulerLemma, Zenon
        <4> QED
          BY ONLY <2>4, <4>2, <4>4, Zenon
      <3> QED
        BY <1>9, <2>1, <2>2, <3>1 DEF Finish
    <2> QED
      BY <2>3, <2>4, Zenon
  <1> QED
    BY <1>1, <1>2, <1>3, <1>4, <1>5, <1>6, <1>7, <1>8, <1>9, StepKinds, Zenon

LEMMA RunningNext ==
  TypeOK /\ SchedulerSane /\ RunningHasOwner /\ [Next]_vars => RunningHasOwner'
  <1> SUFFICES ASSUME TypeOK, SchedulerSane, RunningHasOwner, [Next]_vars
               PROVE  RunningHasOwner'
    OBVIOUS
  <1> USE DEF RunningHasOwner, Owns, HasJob, TypeOK
  <1>0. \A t \in Task : task[t] \in TaskState(Key) /\ task[t].key \in Key
    BY Zenon DEF TaskState
  <1>1. CASE QuietStep
    BY <1>1, Zenon DEF QuietStep
  <1>2. ASSUME NEW k \in Key, InsertStep(k) PROVE RunningHasOwner'
    BY <1>2 DEF InsertStep, IdleScheduler
  <1>3. ASSUME NEW k \in Key, RemoveStep(k) PROVE RunningHasOwner'
    BY <1>3, ZenonT(60) DEF RemoveStep
  <1>4. ASSUME NEW k \in Key, Schedule(k) PROVE RunningHasOwner'
    <2>1. \A j \in Key : scheduler'[j].running => scheduler[j].running
      BY <1>4, SchedulerLemma DEF Schedule, SchedulerSane
    <2>2. \A u \in Task : task[u].pc # "free" => task'[u] = task[u]
      BY <1>4, ZenonT(60) DEF Schedule
    <2> QED
      BY <1>4, <2>1, <2>2 DEF Schedule, JobPc
  <1>5. ASSUME NEW t \in Task, TimerFired(t) PROVE RunningHasOwner'
    <2> DEFINE k == task[t].key
    <2>0. task[t].pc = "sleep" /\ UNCHANGED <<roots, generation, shutting_down>>
      BY <1>5, Zenon DEF TimerFired
    <2>1. \A u \in Task : task[u].pc # "sleep" => task'[u] = task[u]
      BY <1>5, Zenon DEF TimerFired, Goto
    <2>2. \A j \in Key : j # k => scheduler'[j] = scheduler[j]
      BY <1>0, <1>5 DEF TimerFired
    <2>3. CASE ~shutting_down /\ k \in roots /\ StartsJob(scheduler[k])
      <3>1. task'[t].pc = "claimed" /\ task'[t].key = k
        BY <1>0, <1>5, <2>3 DEF TimerFired, Goto, TaskState
      <3>2. ASSUME NEW j \in roots, j # k, scheduler'[j].running
            PROVE  \E u \in Task : Owns(u, j)'
        <4>1. PICK u \in Task : Owns(u, j)
          BY <2>2, <2>3, <3>2
        <4>2. task'[u] = task[u]
          BY <2>1, <4>1 DEF JobPc
        <4> QED
          BY <2>0, <4>1, <4>2, Zenon
      <3> QED
        BY <2>0, <3>1, <3>2, ZenonT(60)
    <2>4. CASE ~(~shutting_down /\ k \in roots /\ StartsJob(scheduler[k]))
      <3>1. ~shutting_down => scheduler' = scheduler
        BY <1>5, <2>4, Zenon DEF TimerFired
      <3>2. ASSUME NEW u \in Task, NEW j \in Key, Owns(u, j) PROVE Owns(u, j)'
        <4>1. task'[u] = task[u]
          BY <2>1, <3>2 DEF JobPc
        <4> QED
          BY <2>0, <3>2, <4>1, ZenonT(60)
      <3>3. ASSUME ~shutting_down, NEW j \in roots, scheduler'[j].running
            PROVE  \E u \in Task : Owns(u, j)'
        <4>1. j \in Key /\ scheduler[j].running
          BY <3>1, <3>3, Zenon
        <4>2. PICK u \in Task : Owns(u, j)
          BY <3>3, <4>1, Zenon
        <4> QED
          BY ONLY <3>2, <4>1, <4>2, Zenon
      <3> QED
        BY <2>0, <3>3, Zenon
    <2> QED
      BY <2>3, <2>4, Zenon
  <1>6. ASSUME NEW t \in Task, MakeJob(t) PROVE RunningHasOwner'
    <2> DEFINE k == task[t].key
    <2>1. \A u \in Task : u # t => task'[u] = task[u]
      BY <1>6 DEF MakeJob, Goto
    <2>2. \A j \in Key : j # k => generation'[j] = generation[j]
      BY <1>0, <1>6 DEF MakeJob
    <2>3. \A j \in roots : j = k => Owns(t, j)'
      BY <1>0, <1>6 DEF MakeJob, JobPc
    <2>4. task[t].pc = "claimed" /\ roots' = roots /\ scheduler' = scheduler
          /\ shutting_down' = shutting_down
      BY <1>6, Zenon DEF MakeJob
    <2>5. \A j \in Key, u \in Task : j # k /\ Owns(u, j) => Owns(u, j)'
      BY <2>1, <2>2, <2>4, ZenonT(60) DEF JobPc
    <2> SUFFICES ASSUME ~shutting_down, NEW j \in roots, scheduler[j].running
                 PROVE  \E u \in Task : Owns(u, j)'
      BY <2>4, Zenon
    <2>6. CASE j = k
      BY <2>3, <2>6, Zenon
    <2>7. CASE j # k
      <3>1. PICK u \in Task : Owns(u, j)
        BY Zenon
      <3>2. Owns(u, j)'
        BY <2>5, <2>7, <3>1, Zenon
      <3> QED
        BY <3>2, Zenon
    <2> QED
      BY <2>6, <2>7, Zenon
  <1>7. ASSUME NEW t \in Task, CompileStep(t) \/ Commit(t) PROVE RunningHasOwner'
    <2>1. PICK l \in JobPc : task' = [task EXCEPT ![t].pc = l]
      BY <1>7, Zenon DEF CompileStep, Commit, Goto, JobPc
    <2>2. \A u \in Task, j \in Key : Owns(u, j) => Owns(u, j)'
      BY <1>0, <1>7, <2>1 DEF CompileStep, Commit, TaskState, JobPc
    <2> QED
      BY <1>7, <2>2 DEF CompileStep, Commit
  <1>8. ASSUME NEW t \in Task, Finish(t) PROVE RunningHasOwner'
    <2> DEFINE k == task[t].key
    <2>1. \A u \in Task : u # t => task'[u] = task[u]
      BY <1>8, ZenonT(60) DEF Finish, Goto
    <2>2. \A j \in Key : j # k => scheduler'[j] = scheduler[j]
      BY <1>0, <1>8, Zenon DEF Finish
    <2>3. CASE Releases(t)
      <3>1. ~scheduler'[k].running
        BY <1>0, <1>8, <2>3, SchedulerLemma, SMTT(30) DEF Finish, SchedulerSane
      <3> QED
        BY <1>8, <2>1, <2>2, <3>1 DEF Finish
    <2>4. CASE ~Releases(t)
      <3>1. scheduler' = scheduler
        BY <1>8, <2>4, ZenonT(60) DEF Finish
      <3>2. ~shutting_down => \A j \in roots : ~Owns(t, j)
        BY <1>8, <2>4 DEF Finish, Releases
      <3> QED
        BY <1>8, <2>1, <3>1, <3>2 DEF Finish
    <2> QED
      BY <2>3, <2>4, Zenon
  <1> QED
    BY <1>1, <1>2, <1>3, <1>4, <1>5, <1>6, <1>7, <1>8, StepKinds, Zenon

------------------------------------------------------------------------------
(* The staging lock *)

LEMMA StagingNext ==
  TypeOK /\ StagingExclusive /\ [Next]_vars => StagingExclusive'
  <1> SUFFICES ASSUME TypeOK, StagingExclusive, [Next]_vars PROVE StagingExclusive'
    OBVIOUS
  <1> USE DEF StagingExclusive, TypeOK, Goto
  <1>1. CASE Initialized \/ ScheduleAll \/ Shutdown \/ UNCHANGED vars
    BY <1>1, Zenon DEF Initialized, ScheduleAll, Shutdown, vars, taskVars
  <1>2. ASSUME NEW k \in Key, NEW a \in BOOLEAN,
               \/ Edit(k) \/ OpenStandalone(k, a) \/ AddFolder(k) \/ RemoveFolder(k)
        PROVE  StagingExclusive'
    BY <1>2, Zenon DEF Edit, OpenStandalone, AddFolder, RemoveFolder, taskVars
  <1>3. ASSUME NEW k \in Key, Schedule(k) PROVE StagingExclusive'
    <2>1. \A t \in Task : task'[t].pc = "compiling" <=> task[t].pc = "compiling"
      BY <1>3 DEF Schedule, Spawned
    <2> QED
      BY <1>3, <2>1, Zenon DEF Schedule
  <1>4. ASSUME NEW t \in Task,
               TimerFired(t) \/ MakeJob(t) \/ CompileBegin(t) \/ Commit(t) \/ Finish(t)
        PROVE  StagingExclusive'
    <2>1. \A u \in Task : task'[u].pc = "compiling" <=> task[u].pc = "compiling"
      BY <1>4 DEF TimerFired, MakeJob, CompileBegin, Commit, Finish, Spawned, TaskState
    <2>2. staging' = staging
      BY <1>4, Zenon DEF TimerFired, MakeJob, CompileBegin, Commit, Finish
    <2> QED
      BY <2>1, <2>2, Zenon
  <1>5. ASSUME NEW t \in Task, TakeStagingLock(t) PROVE StagingExclusive'
    <2>1. \A u \in Task : u # t => task'[u] = task[u]
      BY <1>5 DEF TakeStagingLock
    <2>2. CASE job_current(t)
      <3>1. task'[t].pc = "compiling" /\ staging' = {t}
        BY <1>5, <2>2 DEF TakeStagingLock, StagingFree, TaskState
      <3> QED
        BY <1>5, <2>1, <3>1 DEF TakeStagingLock, StagingFree
    <2>3. CASE ~job_current(t)
      <3>1. task'[t].pc = "finishing" /\ staging' = staging
        BY <1>5, <2>3 DEF TakeStagingLock, TaskState
      <3> QED
        BY <1>5, <2>1, <3>1 DEF TakeStagingLock
    <2> QED
      BY <2>2, <2>3
  <1>6. ASSUME NEW t \in Task, CompileStale(t) \/ CompileDone(t) \/ CompilePanic(t)
        PROVE  StagingExclusive'
    <2>1. \A u \in Task : u # t => task'[u] = task[u]
      BY <1>6, Zenon DEF CompileStale, CompileDone, CompilePanic
    <2>2. task'[t].pc # "compiling" /\ staging' = staging \ {t}
      BY <1>6 DEF CompileStale, CompileDone, CompilePanic, TaskState
    <2> QED
      BY <2>1, <2>2
  <1> QED
    BY <1>1, <1>2, <1>3, <1>4, <1>5, <1>6, Zenon DEF Next, TaskStep

------------------------------------------------------------------------------
(* Generations and the results they admit *)

\* Generations and snapshots stay in order when no job is built and nothing is
\* committed, whatever jobs end and whatever roots leave.
LEMMA JobsKept ==
  ASSUME TypeOK, GenerationsBounded, JobsUnique, JobsFresh,
         \A u \in Task : task'[u].pc \in JobPc =>
           /\ task[u].pc \in JobPc
           /\ task'[u].key = task[u].key
           /\ task'[u].generation = task[u].generation
           /\ task'[u].snapshot = task[u].snapshot,
         roots' \subseteq roots, UNCHANGED <<generation, committed>>,
         next_generation' \in Nat, next_generation <= next_generation',
         \A k \in Key : input'[k] \in Nat /\ input[k] <= input'[k]
  PROVE  GenerationsBounded' /\ JobsUnique' /\ JobsFresh'
  <1>0. /\ \A t \in Task : /\ task[t].key \in Key /\ task[t].generation \in Nat
                           /\ task[t].snapshot \in Nat
        /\ \A k \in Key : generation[k] \in Nat /\ committed[k] \in Nat /\ input[k] \in Nat
        /\ next_generation \in Nat
    BY Zenon DEF TypeOK, TaskState
  <1>1. GenerationsBounded'
    BY <1>0 DEF GenerationsBounded
  <1>2. JobsUnique'
    BY DEF JobsUnique
  <1>3. \A k \in Key : committed'[k] <= input'[k]
    BY <1>0 DEF JobsFresh
  <1>4. ASSUME NEW t \in Task, task'[t].pc \in JobPc
        PROVE  /\ task'[t].snapshot <= input'[task'[t].key]
               /\ (/\ task'[t].key \in roots'
                   /\ task'[t].generation = generation'[task'[t].key])
                  => committed'[task'[t].key] <= task'[t].snapshot
    <2> DEFINE k == task[t].key
    <2>1. k \in Key /\ task[t].snapshot \in Nat /\ input[k] \in Nat
      BY <1>0, Zenon
    <2>2. /\ task[t].snapshot <= input[k]
          /\ k \in roots /\ task[t].generation = generation[k]
             => committed[k] <= task[t].snapshot
      BY <1>4, ZenonT(60) DEF JobsFresh
    <2>3. task'[t].snapshot <= input'[k]
      BY <1>4, <2>1, <2>2
    <2> QED
      BY <1>4, <2>2, <2>3, Zenon
  <1> QED
    BY <1>1, <1>2, <1>3, <1>4 DEF JobsFresh

\* Every job has a generation of its own, and the one that may commit was built from
\* inputs no older than what is committed.
LEMMA JobsNext ==
  /\ TypeOK /\ GenerationsBounded /\ JobsUnique /\ JobsFresh /\ [Next]_vars
  => GenerationsBounded' /\ JobsUnique' /\ JobsFresh'
  <1> SUFFICES ASSUME TypeOK, GenerationsBounded, JobsUnique, JobsFresh, [Next]_vars
               PROVE  GenerationsBounded' /\ JobsUnique' /\ JobsFresh'
    BY Zenon
  <1> DEFINE Goal == GenerationsBounded' /\ JobsUnique' /\ JobsFresh'
  <1>0. /\ \A t \in Task : /\ task[t] \in TaskState(Key) /\ task[t].key \in Key
                           /\ task[t].generation \in Nat /\ task[t].snapshot \in Nat
        /\ \A k \in Key : generation[k] \in Nat /\ committed[k] \in Nat /\ input[k] \in Nat
        /\ next_generation \in Nat
    BY ZenonT(60) DEF TypeOK, TaskState
  <1>1. CASE QuietStep
    <2>1. TypeOK'
      BY TypeNext, Zenon
    <2>2. \A k \in Key : input'[k] \in Nat
      BY <2>1, Zenon DEF TypeOK
    <2> QED
      BY <1>0, <1>1, <2>2, JobsKept DEF QuietStep
  <1>2. ASSUME NEW k \in Key, InsertStep(k) PROVE Goal
    <2>1. GenerationsBounded' /\ JobsUnique'
      BY <1>0, <1>2 DEF InsertStep, GenerationsBounded, JobsUnique, TypeOK
    <2>2. JobsFresh'
      <3>1. \A j \in Key : committed'[j] <= input'[j]
        BY <1>0, <1>2 DEF InsertStep, JobsFresh, TypeOK
      <3>2. ASSUME NEW t \in Task, task'[t].pc \in JobPc
            PROVE  /\ task'[t].snapshot <= input'[task'[t].key]
                   /\ (/\ task'[t].key \in roots'
                       /\ task'[t].generation = generation'[task'[t].key])
                      => committed'[task'[t].key] <= task'[t].snapshot
        <4>1. task' = task /\ input' = input
          BY <1>2, ZenonT(60) DEF InsertStep
        <4>2. CASE task[t].key = k
          BY <1>0, <1>2, <3>2, <4>1, <4>2 DEF InsertStep, JobsFresh, TypeOK
        <4>3. CASE task[t].key # k
          BY <1>0, <1>2, <3>2, <4>1, <4>3, Zenon DEF InsertStep, JobsFresh, TypeOK
        <4> QED
          BY <4>2, <4>3, Zenon
      <3> QED
        BY <3>1, <3>2, ZenonT(60) DEF JobsFresh
    <2> QED
      BY <2>1, <2>2, ZenonT(60)
  <1>3. ASSUME NEW k \in Key, RemoveStep(k) PROVE Goal
    <2>1. /\ roots' \subseteq roots
          /\ UNCHANGED <<task, generation, committed, next_generation, input>>
      BY ONLY <1>3, ZenonT(60) DEF RemoveStep
    <2>2. /\ next_generation' \in Nat /\ next_generation <= next_generation'
          /\ \A j \in Key : input'[j] \in Nat /\ input[j] <= input'[j]
      BY <1>0, <2>1
    <2> QED
      BY <2>1, <2>2, JobsKept, Zenon
  <1>4. ASSUME NEW k \in Key, Schedule(k) PROVE Goal
    <2>1. \A t \in Task : task'[t].pc \in JobPc => task'[t] = task[t]
      BY <1>4 DEF Schedule, Spawned, JobPc, TypeOK
    <2>2. UNCHANGED <<roots, generation, committed, next_generation, input>>
      BY <1>4, ZenonT(60) DEF Schedule
    <2>3. /\ roots' \subseteq roots /\ next_generation' \in Nat
          /\ next_generation <= next_generation'
          /\ \A j \in Key : input'[j] \in Nat /\ input[j] <= input'[j]
      BY <1>0, <2>2
    <2> QED
      BY <2>1, <2>2, <2>3, JobsKept
  <1>5. ASSUME NEW t \in Task, TimerFired(t) \/ Finish(t) PROVE Goal
    <2>1. \A u \in Task : task'[u].pc \in JobPc => task'[u] = task[u]
      BY <1>0, <1>5 DEF TimerFired, Finish, Spawned, Goto, JobPc, TaskState, TypeOK
    <2>2. UNCHANGED <<roots, generation, committed, next_generation, input>>
      BY <1>5, Zenon DEF TimerFired, Finish, clientVars
    <2>3. /\ roots' \subseteq roots /\ next_generation' \in Nat
          /\ next_generation <= next_generation'
          /\ \A j \in Key : input'[j] \in Nat /\ input[j] <= input'[j]
      BY <1>0, <2>2
    <2> QED
      BY <2>1, <2>2, <2>3, JobsKept, ZenonT(60)
  <1>6. ASSUME NEW t \in Task, MakeJob(t) PROVE Goal
    <2> DEFINE k == task[t].key
    <2>1. /\ next_generation' = next_generation + 1
          /\ UNCHANGED <<roots, committed, input>>
      BY <1>6, Zenon DEF MakeJob, fresh_generation, clientVars
    <2>2. \A u \in Task : u # t => task'[u] = task[u]
      BY <1>6, Zenon DEF MakeJob, Goto, TypeOK
    <2>3. CASE k \in roots
      <3>1. /\ task'[t].key = k
            /\ task'[t].generation = next_generation + 1
            /\ task'[t].snapshot = input[k]
            /\ generation' = [generation EXCEPT ![k] = next_generation + 1]
        BY <1>6, <2>3 DEF MakeJob, fresh_generation, TypeOK
      <3>2. k \in Key /\ \A j \in Key : generation'[j] = IF j = k THEN next_generation + 1
                                                          ELSE generation[j]
        BY <1>0, <3>1, Zenon DEF TypeOK
      <3>3. GenerationsBounded'
        <4>1. \A j \in Key : generation'[j] <= next_generation'
          BY <1>0, <2>1, <3>2 DEF GenerationsBounded
        <4>2. ASSUME NEW u \in Task, task'[u].pc \in JobPc
              PROVE  0 < task'[u].generation /\ task'[u].generation <= next_generation'
          <5>1. CASE u = t
            BY ONLY <1>0, <2>1, <3>1, <5>1
          <5>2. CASE u # t
            <6>1. task'[u] = task[u] /\ task[u].generation \in Nat
              BY <1>0, <2>2, <5>2, Zenon
            <6>2. 0 < task[u].generation /\ task[u].generation <= next_generation
              BY <4>2, <6>1, Zenon DEF GenerationsBounded
            <6> QED
              BY ONLY <1>0, <2>1, <6>1, <6>2
          <5> QED
            BY <5>1, <5>2
        <4> QED
          BY <4>1, <4>2, ZenonT(60) DEF GenerationsBounded
      <3>4. JobsUnique'
        <4>1. ASSUME NEW u \in Task, u # t, task'[u].pc \in JobPc
              PROVE  task'[u].generation # task'[t].generation
          BY <1>0, <2>2, <3>1, <4>1 DEF GenerationsBounded
        <4>2. ASSUME NEW u \in Task, NEW v \in Task, u # t, v # t,
                     task'[u].pc \in JobPc, task'[v].pc \in JobPc,
                     task'[u].generation = task'[v].generation
              PROVE  u = v
          BY <2>2, <4>2, Zenon DEF JobsUnique
        <4> QED
          BY <4>1, <4>2, ZenonT(60) DEF JobsUnique
      <3>5. JobsFresh'
        <4>1. \A j \in Key : committed'[j] <= input'[j]
          BY <2>1, Zenon DEF JobsFresh
        <4>2. task'[t].snapshot <= input'[k] /\ committed'[k] <= task'[t].snapshot
          <5>1. k \in Key /\ input[k] \in Nat /\ committed[k] <= input[k]
            BY ONLY JobsFresh, <1>0, <3>2, Zenon DEF JobsFresh
          <5> QED
            BY ONLY <2>1, <3>1, <5>1
        <4>3. ASSUME NEW u \in Task, u # t, task'[u].pc \in JobPc
              PROVE  /\ task'[u].snapshot <= input'[task'[u].key]
                     /\ (/\ task'[u].key \in roots'
                         /\ task'[u].generation = generation'[task'[u].key])
                        => committed'[task'[u].key] <= task'[u].snapshot
          <5>1. task'[u] = task[u] /\ task[u].generation <= next_generation
            BY <2>2, <4>3, ZenonT(60) DEF GenerationsBounded
          <5>2. task[u].key = k => task[u].generation # generation'[k]
            BY <1>0, <3>2, <5>1
          <5>3. task[u].key # k => generation'[task[u].key] = generation[task[u].key]
            BY <1>0, <3>2, ZenonT(60)
          <5> QED
            BY <2>1, <4>3, <5>1, <5>2, <5>3, Zenon DEF JobsFresh
        <4> QED
          BY <3>1, <4>1, <4>2, <4>3, ZenonT(60) DEF JobsFresh
      <3> QED
        BY <3>3, <3>4, <3>5, ZenonT(60)
    <2>4. CASE k \notin roots
      <3>1. task'[t].pc = "free" /\ generation' = generation
        BY <1>0, <1>6, <2>4 DEF MakeJob, Goto, TaskState, TypeOK
      <3>2. \A u \in Task : task'[u].pc \in JobPc => task'[u] = task[u]
        BY <2>2, <3>1, Zenon DEF JobPc
      <3> QED
        BY <1>0, <2>1, <3>1, <3>2, JobsKept
    <2> QED
      BY <2>3, <2>4, Zenon
  <1>7. ASSUME NEW t \in Task, CompileStep(t) PROVE Goal
    <2>1. \A u \in Task : /\ task'[u].pc \in JobPc <=> task[u].pc \in JobPc
                          /\ task'[u].key = task[u].key
                          /\ task'[u].generation = task[u].generation
                          /\ task'[u].snapshot = task[u].snapshot
      BY <1>0, <1>7 DEF CompileStep, TaskState
    <2>2. UNCHANGED <<roots, generation, committed, next_generation, input>>
      BY <1>7, Zenon DEF CompileStep
    <2>3. /\ roots' \subseteq roots /\ next_generation' \in Nat
          /\ next_generation <= next_generation'
          /\ \A j \in Key : input'[j] \in Nat /\ input[j] <= input'[j]
      BY <1>0, <2>2
    <2> QED
      BY <2>1, <2>2, <2>3, JobsKept, Zenon
  <1>8. ASSUME NEW t \in Task, Commit(t) PROVE Goal
    <2>1. \A u \in Task : /\ task'[u].pc \in JobPc <=> task[u].pc \in JobPc
                          /\ task'[u].key = task[u].key
                          /\ task'[u].generation = task[u].generation
                          /\ task'[u].snapshot = task[u].snapshot
      BY <1>0, <1>8 DEF Commit, Goto, TaskState, JobPc
    <2>2. UNCHANGED <<roots, generation, next_generation, input>>
      BY <1>8, ZenonT(60) DEF Commit, clientVars
    <2>3. GenerationsBounded' /\ JobsUnique'
      BY <2>1, <2>2 DEF GenerationsBounded, JobsUnique
    <2>4. CASE ~Commits(t)
      <3>1. UNCHANGED committed
        BY <1>8, <2>4 DEF Commit
      <3>2. JobsFresh'
        BY <1>0, <2>1, <2>2, <3>1, Zenon DEF JobsFresh
      <3> QED
        BY <2>3, <3>2
    <2>5. CASE Commits(t)
      <3>1. \A j \in Key : committed'[j] = IF j = task[t].key THEN task[t].snapshot
                                           ELSE committed[j]
        BY <1>0, <1>8, <2>5, Zenon DEF Commit, TypeOK
      <3>2. task[t].pc \in JobPc /\ generation[task[t].key] = task[t].generation
        BY <1>8, <2>5, Zenon DEF Commit, Commits, JobPc
      <3>3. \A u \in Task : (/\ task[u].pc \in JobPc
                            /\ task[u].key = task[t].key
                            /\ task[u].generation = generation[task[t].key]) => u = t
        BY <3>2, Zenon DEF JobsUnique
      <3>4. \A j \in Key : committed'[j] <= input'[j]
        BY <2>2, <3>1, <3>2, Zenon DEF JobsFresh
      <3>5. ASSUME NEW u \in Task, task'[u].pc \in JobPc
            PROVE  /\ task'[u].snapshot <= input'[task'[u].key]
                   /\ (/\ task'[u].key \in roots'
                       /\ task'[u].generation = generation'[task'[u].key])
                      => committed'[task'[u].key] <= task'[u].snapshot
        <4>1. task[u].pc \in JobPc
          BY <2>1, <3>5, Zenon
        <4>2. task'[u].snapshot <= input'[task'[u].key]
          BY <2>1, <2>2, <4>1, ZenonT(60) DEF JobsFresh
        <4>3. CASE task[u].key = task[t].key
          <5>1. task'[u].key \in roots' /\ task'[u].generation = generation'[task'[u].key]
                  => u = t
            BY <2>1, <2>2, <3>3, <4>1, <4>3
          <5>2. committed'[task[t].key] = task[t].snapshot /\ task[t].snapshot \in Nat
            BY <1>0, <3>1, Zenon
          <5>3. task'[u].key = task[t].key /\ task'[u].snapshot = task[u].snapshot
            BY <2>1, <4>3, Zenon
          <5> QED
            BY ONLY <4>2, <5>1, <5>2, <5>3
        <4>4. CASE task[u].key # task[t].key
          <5>1. committed'[task'[u].key] = committed[task[u].key]
            BY <1>0, <2>1, <3>1, <4>4, ZenonT(60)
          <5> QED
            BY <2>1, <2>2, <4>1, <4>2, <5>1, Zenon DEF JobsFresh
        <4> QED
          BY <4>3, <4>4, Zenon
      <3>6. JobsFresh'
        BY <3>4, <3>5 DEF JobsFresh
      <3> QED
        BY <2>3, <3>6
    <2> QED
      BY <2>4, <2>5, Zenon
  <1> QED
    BY <1>1, <1>2, <1>3, <1>4, <1>5, <1>6, <1>7, <1>8, StepKinds, Zenon

------------------------------------------------------------------------------
(* The theorems *)

LEMMA InitIInv == Init => IInv
  <1> SUFFICES ASSUME Init PROVE IInv
    OBVIOUS
  <1>1. TypeOK
    BY TypeInit
  <1>2. SchedulerSane /\ PendingHasTimer /\ RunningHasOwner
    BY <1>1 DEF Init, SchedulerSane, PendingHasTimer, RunningHasOwner, IdleScheduler, TypeOK
  <1>3. \A t \in Task : task[t].pc = "free"
    <2>1. PICK k \in Key : task = [t \in Task |-> [Spawned(k) EXCEPT !.pc = "free"]]
      BY Zenon DEF Init
    <2>2. [Spawned(k) EXCEPT !.pc = "free"].pc = "free"
      BY DEF Spawned
    <2> QED
      BY <2>1, <2>2, Zenon
  <1>4. StagingExclusive
    BY <1>3 DEF Init, StagingExclusive
  <1>5. GenerationsBounded /\ JobsUnique /\ JobsFresh
    BY <1>3 DEF Init, GenerationsBounded, JobsUnique, JobsFresh, JobPc
  <1> QED
    BY <1>1, <1>2, <1>4, <1>5 DEF IInv

LEMMA NextIInv == IInv /\ [Next]_vars => IInv'
  BY TypeNext, SaneNext, PendingNext, RunningNext, StagingNext, JobsNext DEF IInv

LEMMA AlwaysIInv == Spec => []IInv
  BY InitIInv, NextIInv, PTL DEF Spec

\* A root that waits for its timer always has a task that will fire it: no
\* trigger of schedule_roots_with_parent or finish_root_run is lost.
THEOREM NoTriggerLost == Spec => []PendingHasTimer
  <1>1. IInv => PendingHasTimer
    BY DEF IInv
  <1> QED
    BY <1>1, AlwaysIInv, PTL

\* A running slot always has an owner that finish_root_run will accept.
THEOREM NoSlotLeaked == Spec => []RunningHasOwner
  <1>1. IInv => RunningHasOwner
    BY DEF IInv
  <1> QED
    BY <1>1, AlwaysIInv, PTL

\* compile_job holds the staging lock alone and always gives it back.
THEOREM StagingSerialised == Spec => []StagingExclusive
  <1>1. IInv => StagingExclusive
    BY DEF IInv
  <1> QED
    BY <1>1, AlwaysIInv, PTL

\* commit_job never replaces a result of a root by one of older inputs.
THEOREM ResultsAdvance == Spec => CommitsAdvance
  <1> DEFINE Advance == \A k \in Key : folder'[k] = folder[k] => committed'[k] >= committed[k]
  <1>1. IInv /\ [Next]_vars => [Advance]_vars
    <2> SUFFICES ASSUME IInv, [Next]_vars PROVE Advance
      BY Zenon
    <2> USE DEF IInv, TypeOK
    <2>0. \A t \in Task : task[t].key \in Key /\ task[t].snapshot \in Nat
      BY ZenonT(60) DEF TaskState
    <2>1. ASSUME NEW k \in Key, NEW a \in BOOLEAN, OpenStandalone(k, a) \/ AddFolder(k)
          PROVE  Advance
      BY <2>1 DEF OpenStandalone, AddFolder, InsertRoot
    <2>2. ASSUME NEW t \in Task, Commit(t) PROVE Advance
      <3>1. CASE Commits(t)
        <4>1. committed[task[t].key] <= task[t].snapshot
          BY <2>2, <3>1, ZenonT(60) DEF Commit, Commits, JobsFresh, JobPc
        <4> QED
          BY <2>0, <2>2, <3>1, <4>1 DEF Commit
      <3>2. CASE ~Commits(t)
        BY <2>2, <3>2 DEF Commit
      <3> QED
        BY <3>1, <3>2, ZenonT(60)
    <2>3. CASE UNCHANGED committed
      BY <2>3
    <2>4. \/ UNCHANGED committed
          \/ \E k \in Key, a \in BOOLEAN : OpenStandalone(k, a) \/ AddFolder(k)
          \/ \E t \in Task : Commit(t)
      BY ZenonT(60) DEF Next, TaskStep, Initialized, ScheduleAll, Edit, RemoveFolder, Schedule,
             Shutdown, TimerFired, MakeJob, CompileBegin, TakeStagingLock, CompileStale,
             CompileDone, CompilePanic, Finish, rootVars, vars
    <2> QED
      BY <2>1, <2>2, <2>3, <2>4
  <1> QED
    BY <1>1, AlwaysIInv, PTL DEF Spec, CommitsAdvance

\* After Backend::shutdown nothing is committed and no task claims a slot.
THEOREM QuietAfterShutdown == Spec => NothingAfterShutdown
  <1> DEFINE Quiet == shutting_down =>
               /\ \A k \in Key : folder'[k] = folder[k] => committed'[k] = committed[k]
               /\ \A t \in Task : task'[t].pc = "claimed" => task[t].pc = "claimed"
  <1>1. TypeOK /\ [Next]_vars => [Quiet]_vars
    <2> SUFFICES ASSUME TypeOK, [Next]_vars, shutting_down PROVE Quiet
      BY Zenon
    <2> USE DEF TypeOK
    <2>0. \A t \in Task : task[t] \in TaskState(Key)
      BY Zenon
    <2>1. ASSUME NEW k \in Key, NEW a \in BOOLEAN, OpenStandalone(k, a) \/ AddFolder(k)
          PROVE  Quiet
      <3>1. task' = task
        BY <2>1, Zenon DEF OpenStandalone, AddFolder, taskVars
      <3>2. /\ folder' = [folder EXCEPT ![k] = @ + 1]
            /\ committed' = [committed EXCEPT ![k] = 0]
        BY <2>1, Zenon DEF OpenStandalone, AddFolder, InsertRoot
      <3> QED
        BY <3>1, <3>2
    <2>2. CASE UNCHANGED <<committed, task>>
      BY <2>2, Zenon
    <2>3. ASSUME NEW k \in Key, Schedule(k) PROVE Quiet
      <3>1. committed' = committed
        BY <2>3, Zenon DEF Schedule
      <3>2. \A t \in Task : task'[t] = task[t] \/ task'[t] = Spawned(k)
        BY <2>3, ZenonT(60) DEF Schedule
      <3>3. Spawned(k).pc # "claimed"
        BY ONLY Zenon DEF Spawned
      <3> QED
        BY <3>1, <3>2, <3>3, Zenon
    <2>4. ASSUME NEW t \in Task, TaskStep(t) PROVE Quiet
      <3>1. committed' = committed
        BY <2>4, Zenon DEF TaskStep, TimerFired, MakeJob, CompileBegin, TakeStagingLock,
                    CompileStale, CompileDone, CompilePanic, Commit, Commits, Finish,
                    rootVars
      <3>2. \A u \in Task : u # t => task'[u] = task[u]
        BY <2>4, ZenonT(60) DEF TaskStep, TimerFired, MakeJob, CompileBegin, TakeStagingLock,
                    CompileStale, CompileDone, CompilePanic, Commit, Finish, Goto
      <3>3. task'[t].pc # "claimed"
        <4>1. ASSUME NEW l \in Pc, Goto(t, l) PROVE task'[t].pc = l
          BY <2>0, <4>1 DEF Goto, TaskState
        <4>2. CASE TimerFired(t)
          BY <4>1, <4>2, ZenonT(60) DEF TimerFired, Pc
        <4>3. CASE MakeJob(t)
          BY <4>1, <4>3 DEF MakeJob, Pc
        <4>4. CASE Finish(t)
          <5>1. \/ Goto(t, "free")
                \/ task' = [task EXCEPT ![t] = Spawned(task[t].key)]
            BY ONLY <4>4, Zenon DEF Finish
          <5>2. CASE Goto(t, "free")
            BY ONLY <4>1, <5>2, Zenon DEF Pc
          <5>3. CASE task' = [task EXCEPT ![t] = Spawned(task[t].key)]
            <6>1. task'[t] = Spawned(task[t].key)
              BY ONLY <5>3, t \in Task, task \in [Task -> TaskState(Key)], Zenon
            <6>2. Spawned(task[t].key).pc = "sleep"
              BY ONLY Zenon DEF Spawned
            <6> QED
              BY ONLY <6>1, <6>2, Zenon
          <5> QED
            BY ONLY <5>1, <5>2, <5>3, Zenon
        <4>5. CASE Commit(t) \/ CompileBegin(t)
          BY <4>1, <4>5, ZenonT(60) DEF Commit, CompileBegin, Pc
        <4>6. CASE TakeStagingLock(t)
          BY <4>1, <4>6, ZenonT(60) DEF TakeStagingLock, Pc
        <4>7. CASE CompileStale(t) \/ CompileDone(t) \/ CompilePanic(t)
          BY <4>1, <4>7, Zenon DEF CompileStale, CompileDone, CompilePanic, Pc
        <4> QED
          BY <2>4, <4>2, <4>3, <4>4, <4>5, <4>6, <4>7, Zenon DEF TaskStep
      <3> QED
        BY <3>1, <3>2, <3>3
    <2> QED
      BY <2>1, <2>2, <2>3, <2>4, Zenon DEF Next, Initialized, ScheduleAll, Edit, RemoveFolder,
             Shutdown, rootVars, taskVars, vars
  <1> QED
    BY <1>1, TypeCorrect, PTL DEF Spec, NothingAfterShutdown
==============================================================================
