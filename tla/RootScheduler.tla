---------------------------- MODULE RootScheduler ----------------------------
(***************************************************************************)
(* The analysis pipeline of the language server: one debounce state         *)
(* machine per workspace root (SchedulerState), the tasks spawned by         *)
(* spawn_debounced_run, the generations make_jobs hands out, the staging     *)
(* lock that serialises compile_job, and commit_job's admission of a result. *)
(*                                                                          *)
(* An action is one critical section of the backend state lock, or one step  *)
(* of a spawned task between two of them.  The contents of the inputs are    *)
(* abstracted to a version number per root.                                  *)
(***************************************************************************)
EXTENDS Naturals

CONSTANTS
  Key,          \* workspace root keys
  Task,         \* debounce tasks that may exist at once (bounds arming)
  MaxInput,     \* bound on the input versions of a root
  MaxFolders,   \* bound on the insertions of a root into the backend state
  MaxPanics     \* bound on compile jobs that panic on the blocking pool

ASSUME BoundsAssumption ==
  MaxInput \in Nat /\ MaxFolders \in Nat /\ MaxPanics \in Nat

VARIABLES
  roots,            \* keys present in BackendState.roots
  scheduler,        \* RootState.scheduler, per key
  generation,       \* RootState.generation, per key
  committed,        \* input version of the last committed result, per key
  folder,           \* how many times the key was inserted (its incarnation)
  next_generation,  \* BackendState.next_generation
  initialized,      \* BackendState.initialized
  starting,         \* the initialized handler awaits before schedule_all
  initial_pending,  \* BackendState.initial_pending
  ready_sent,       \* BackendState.ready_sent
  shutting_down,    \* BackendState.shutting_down
  input,            \* version of what the client and the disk hold, per key
  calls,            \* handlers that still have to call schedule_roots, per key
  wanted,           \* newest input version a trigger asked to analyse, per key
  task,             \* the spawned debounce tasks
  staging,          \* tasks holding shadow_staging_lock
  panics            \* compile jobs that panicked so far

rootVars == <<roots, scheduler, generation, committed, folder>>
readyVars == <<initialized, starting, initial_pending, ready_sent>>
clientVars == <<input, calls, wanted>>
taskVars == <<task, staging, panics>>
vars == <<rootVars, readyVars, clientVars, taskVars, next_generation, shutting_down>>

------------------------------------------------------------------------------
(* SchedulerState *)

SchedulerState == [pending : BOOLEAN, running : BOOLEAN, dirty : BOOLEAN]

IdleScheduler == [pending |-> FALSE, running |-> FALSE, dirty |-> FALSE]

\* trigger() decides ArmTimer exactly when the root is idle.
ArmsTimer(s) == ~s.running /\ ~s.pending

\* Variant: a trigger that finds a job running is dropped.
trigger_Forgets(s) ==
  IF s.running THEN s ELSE [s EXCEPT !.pending = TRUE]

trigger(s) ==
  IF s.running THEN [s EXCEPT !.dirty = TRUE] ELSE [s EXCEPT !.pending = TRUE]

\* timer_fired() decides StartJob.
StartsJob(s) == s.pending /\ ~s.running

timer_fired(s) == [s EXCEPT !.pending = FALSE, !.running = TRUE]

cancel_pending(s) == [s EXCEPT !.pending = FALSE]

\* Variant: the caller ignores the answer of job_finished.
OwesFollowUp_Ignored(s) == FALSE

\* job_finished() returns true: the caller re-arms one timer.
OwesFollowUp(s) == s.running /\ s.dirty

job_finished(s) ==
  IF s.running
  THEN [pending |-> s.pending \/ s.dirty, running |-> FALSE, dirty |-> FALSE]
  ELSE s

------------------------------------------------------------------------------
(* Tasks.  A free task stands for one not spawned yet.                      *)

Pc == {"free", "sleep", "claimed", "queued", "locking", "compiling",
       "compiled", "finishing"}

\* A task in one of these states owns a RootJob or is about to release it.
JobPc == {"queued", "locking", "compiling", "compiled", "finishing"}

TaskState(K) ==
  [pc : Pc, key : K, generation : Nat, snapshot : Nat, folder : Nat]

Sleeping(t, k) == task[t].pc = "sleep" /\ task[t].key = k

HasJob(t, k) == task[t].pc \in JobPc /\ task[t].key = k

\* tokio::spawn of a debounce task for k.
Spawned(k) ==
  [pc |-> "sleep", key |-> k, generation |-> 0, snapshot |-> 0, folder |-> 0]

Goto(t, label) == task' = [task EXCEPT ![t].pc = label]

\* job_current: the root exists, is not shutting down, and still carries the
\* generation of the job.
job_current(t) ==
  /\ task[t].key \in roots
  /\ ~shutting_down
  /\ generation[task[t].key] = task[t].generation

------------------------------------------------------------------------------
Init ==
  /\ roots \in SUBSET Key
  /\ scheduler = [k \in Key |-> IdleScheduler]
  /\ generation = [k \in Key |-> 0]
  /\ committed = [k \in Key |-> 0]
  /\ folder = [k \in Key |-> IF k \in roots THEN 1 ELSE 0]
  /\ next_generation = 0
  /\ initialized = FALSE
  /\ starting = FALSE
  /\ initial_pending = {}
  /\ ready_sent = FALSE
  /\ shutting_down = FALSE
  /\ input = [k \in Key |-> 1]
  /\ calls = [k \in Key |-> 0]
  /\ wanted = [k \in Key |-> 0]
  /\ \E k \in Key : task = [t \in Task |-> [Spawned(k) EXCEPT !.pc = "free"]]
  /\ staging = {}
  /\ panics = 0

------------------------------------------------------------------------------
(* Handlers *)

\* initialized: every root becomes part of the initial set; the handler then
\* awaits publications and the watcher registration.
Initialized ==
  /\ ~initialized
  /\ initialized' = TRUE
  /\ starting' = TRUE
  /\ initial_pending' = roots
  /\ ready_sent' = FALSE
  /\ UNCHANGED <<rootVars, clientVars, taskVars, next_generation, shutting_down>>

\* The rest of the handler: schedule_all, then mark_ready_if_empty.
ScheduleAll ==
  /\ starting
  /\ starting' = FALSE
  /\ calls' = [k \in Key |-> IF k \in roots THEN calls[k] + 1 ELSE calls[k]]
  /\ ready_sent' = (ready_sent \/ initial_pending = {})
  /\ UNCHANGED <<rootVars, taskVars, initialized, initial_pending, input, wanted,
                 next_generation, shutting_down>>

\* The state a root gets from Backend::root_state.
InsertRoot(k) ==
  /\ folder[k] < MaxFolders
  /\ roots' = roots \cup {k}
  /\ scheduler' = [scheduler EXCEPT ![k] = IdleScheduler]
  /\ generation' = [generation EXCEPT ![k] = 0]
  /\ committed' = [committed EXCEPT ![k] = 0]
  /\ folder' = [folder EXCEPT ![k] = @ + 1]
  /\ wanted' = [wanted EXCEPT ![k] = 0]

\* didChange, didClose, watched-file events and config reloads: the handler
\* stores the new input, and schedules the root it found in a later critical
\* section when the server is initialized.
Edit(k) ==
  /\ input[k] < MaxInput
  /\ input' = [input EXCEPT ![k] = @ + 1]
  /\ calls' = [calls EXCEPT ![k] = IF initialized /\ k \in roots THEN @ + 1 ELSE @]
  /\ UNCHANGED <<rootVars, readyVars, taskVars, wanted, next_generation, shutting_down>>

\* didOpen of a source no root owns: ensure_source_root inserts a standalone
\* root, which never joins initial_pending.  A buffer over the size limit is
\* refused after the insertion and schedules nothing.
OpenStandalone(k, admitted) ==
  /\ k \notin roots
  /\ InsertRoot(k)
  /\ calls' = [calls EXCEPT ![k] = IF initialized /\ admitted THEN @ + 1 ELSE @]
  /\ UNCHANGED <<readyVars, taskVars, input, next_generation, shutting_down>>

\* didChangeWorkspaceFolders, added part (the rescan in between is awaited).
AddFolder(k) ==
  /\ initialized
  /\ k \notin roots
  /\ InsertRoot(k)
  /\ initial_pending' = IF ready_sent THEN initial_pending ELSE initial_pending \cup {k}
  /\ calls' = [calls EXCEPT ![k] = @ + 1]
  /\ UNCHANGED <<taskVars, initialized, starting, ready_sent, input,
                 next_generation, shutting_down>>

\* didChangeWorkspaceFolders, removed part; every remaining root is scheduled.
RemoveFolder(k) ==
  /\ initialized
  /\ k \in roots
  /\ roots' = roots \ {k}
  /\ initial_pending' = initial_pending \ {k}
  /\ calls' = [j \in Key |-> IF j \in roots \ {k} THEN calls[j] + 1 ELSE calls[j]]
  /\ UNCHANGED <<scheduler, generation, committed, folder, taskVars, initialized,
                 starting, ready_sent, input, wanted, next_generation, shutting_down>>

\* schedule_roots_with_parent for one root: trigger under the lock, then spawn
\* the timer it armed.  A key without a root is skipped.
Schedule(k) ==
  /\ calls[k] > 0
  /\ calls' = [calls EXCEPT ![k] = @ - 1]
  /\ IF k \in roots
     THEN /\ scheduler' = [scheduler EXCEPT ![k] = trigger(@)]
          /\ wanted' = [wanted EXCEPT ![k] = input[k]]
          /\ IF ArmsTimer(scheduler[k])
             THEN \E t \in Task : /\ task[t].pc = "free"
                                  /\ task' = [task EXCEPT ![t] = Spawned(k)]
             ELSE UNCHANGED task
     ELSE UNCHANGED <<scheduler, wanted, task>>
  /\ UNCHANGED <<roots, generation, committed, folder, readyVars, input, staging,
                 panics, next_generation, shutting_down>>

\* Backend::shutdown.
Shutdown ==
  /\ ~shutting_down
  /\ shutting_down' = TRUE
  /\ UNCHANGED <<rootVars, readyVars, clientVars, taskVars, next_generation>>

------------------------------------------------------------------------------
(* spawn_debounced_run *)

\* The quiet period elapsed: claim the running slot, or end the task.
TimerFired(t) ==
  LET k == task[t].key
      starts == ~shutting_down /\ k \in roots /\ StartsJob(scheduler[k])
  IN /\ task[t].pc = "sleep"
     /\ scheduler' =
          [scheduler EXCEPT ![k] = IF starts THEN timer_fired(@)
                                   ELSE IF shutting_down /\ k \in roots
                                        THEN cancel_pending(@) ELSE @]
     /\ Goto(t, IF starts THEN "claimed" ELSE "free")
     /\ UNCHANGED <<roots, generation, committed, folder, readyVars, clientVars,
                    staging, panics, next_generation, shutting_down>>

\* The generation make_jobs draws.
fresh_generation == next_generation + 1

\* make_jobs, a critical section of its own: a generation is drawn even when
\* the root is gone by now.
MakeJob(t) ==
  LET k == task[t].key
      g == fresh_generation
  IN /\ task[t].pc = "claimed"
     /\ next_generation' = g
     /\ IF k \in roots
        THEN /\ generation' = [generation EXCEPT ![k] = g]
             /\ task' = [task EXCEPT ![t] =
                           [pc |-> "queued", key |-> k, generation |-> g,
                            snapshot |-> input[k], folder |-> folder[k]]]
        ELSE Goto(t, "free") /\ UNCHANGED generation
     /\ UNCHANGED <<roots, scheduler, committed, folder, readyVars, clientVars,
                    staging, panics, shutting_down>>

\* compile_job's check before it waits for the staging lock.
CompileBegin(t) ==
  /\ task[t].pc = "queued"
  /\ Goto(t, IF job_current(t) THEN "locking" ELSE "finishing")
  /\ UNCHANGED <<rootVars, readyVars, clientVars, staging, panics, next_generation,
                 shutting_down>>

\* Variant: the lock does not exclude.
StagingFree_Always == TRUE

StagingFree == staging = {}

\* The staging lock is acquired, and the job re-checked under it.
TakeStagingLock(t) ==
  /\ task[t].pc = "locking"
  /\ StagingFree
  /\ IF job_current(t)
     THEN Goto(t, "compiling") /\ staging' = staging \cup {t}
     ELSE Goto(t, "finishing") /\ UNCHANGED staging
  /\ UNCHANGED <<rootVars, readyVars, clientVars, panics, next_generation, shutting_down>>

\* One of the checks between staging, preflight, include staging and analysis
\* finds the job superseded.
CompileStale(t) ==
  /\ task[t].pc = "compiling"
  /\ ~job_current(t)
  /\ Goto(t, "finishing")
  /\ staging' = staging \ {t}
  /\ UNCHANGED <<rootVars, readyVars, clientVars, panics, next_generation, shutting_down>>

\* compile_job returns a result (usable, fatal or empty: the pipeline treats
\* the three alike).
CompileDone(t) ==
  /\ task[t].pc = "compiling"
  /\ Goto(t, "compiled")
  /\ staging' = staging \ {t}
  /\ UNCHANGED <<rootVars, readyVars, clientVars, panics, next_generation, shutting_down>>

\* The blocking task panics: a join error; the poisoned lock stays usable.
CompilePanic(t) ==
  /\ task[t].pc = "compiling"
  /\ panics < MaxPanics
  /\ panics' = panics + 1
  /\ Goto(t, "finishing")
  /\ staging' = staging \ {t}
  /\ UNCHANGED <<rootVars, readyVars, clientVars, next_generation, shutting_down>>

\* Variant: the generation of the result is not compared.
Commits_AnyGeneration(t) == ~shutting_down /\ task[t].key \in roots

\* Variant: commit_job does not look at shutting_down.
Commits_ShuttingDown(t) ==
  task[t].key \in roots /\ generation[task[t].key] = task[t].generation

\* commit_job: a result of a superseded generation changes nothing.
Commits(t) ==
  /\ ~shutting_down
  /\ task[t].key \in roots
  /\ generation[task[t].key] = task[t].generation

\* The commit that empties initial_pending announces the server as ready.
Commit(t) ==
  LET k == task[t].key IN
  /\ task[t].pc = "compiled"
  /\ IF Commits(t)
     THEN /\ committed' = [committed EXCEPT ![k] = task[t].snapshot]
          /\ initial_pending' = initial_pending \ {k}
          /\ ready_sent' = (ready_sent \/ initial_pending = {k})
     ELSE UNCHANGED <<committed, initial_pending, ready_sent>>
  /\ Goto(t, "finishing")
  /\ UNCHANGED <<roots, scheduler, generation, folder, initialized, starting,
                 clientVars, staging, panics, next_generation, shutting_down>>

\* Variant: the comparison of generations is strict.
Releases_Strict(t) ==
  /\ ~shutting_down
  /\ task[t].key \in roots
  /\ generation[task[t].key] > task[t].generation

\* The filter of finish_root_run.
Releases(t) ==
  /\ ~shutting_down
  /\ task[t].key \in roots
  /\ generation[task[t].key] = task[t].generation

\* finish_root_run: only the holder of the current generation releases the
\* slot; a dirty root re-arms one timer (the task spawns its successor).
Finish(t) ==
  LET k == task[t].key
  IN /\ task[t].pc = "finishing"
     /\ scheduler' = [scheduler EXCEPT ![k] = IF Releases(t) THEN job_finished(@) ELSE @]
     /\ IF Releases(t) /\ OwesFollowUp(scheduler[k])
        THEN task' = [task EXCEPT ![t] = Spawned(k)]
        ELSE Goto(t, "free")
     /\ UNCHANGED <<roots, generation, committed, folder, readyVars, clientVars,
                    staging, panics, next_generation, shutting_down>>

------------------------------------------------------------------------------
TaskStep(t) ==
  \/ TimerFired(t)
  \/ MakeJob(t)
  \/ CompileBegin(t)
  \/ TakeStagingLock(t)
  \/ CompileStale(t)
  \/ CompileDone(t)
  \/ CompilePanic(t)
  \/ Commit(t)
  \/ Finish(t)

Next ==
  \/ Initialized
  \/ ScheduleAll
  \/ \E k \in Key : Edit(k)
  \/ \E k \in Key, admitted \in BOOLEAN : OpenStandalone(k, admitted)
  \/ \E k \in Key : AddFolder(k)
  \/ \E k \in Key : RemoveFolder(k)
  \/ \E k \in Key : Schedule(k)
  \/ Shutdown
  \/ \E t \in Task : TaskStep(t)

Spec == Init /\ [][Next]_vars

\* A handler that was called runs to its end, and a spawned task is polled until
\* it ends.  The client is not fair, and nothing is assumed of the staging
\* mutex beyond that a task that finds it free for good takes it.
Fairness ==
  /\ WF_vars(ScheduleAll)
  /\ \A k \in Key : WF_vars(Schedule(k))
  /\ \A t \in Task : WF_vars(TaskStep(t))

FairSpec == Spec /\ Fairness

------------------------------------------------------------------------------
(* Properties *)

\* The state of every variable of the backend and of the tasks is well formed.
TypeOK ==
  /\ roots \in SUBSET Key
  /\ scheduler \in [Key -> SchedulerState]
  /\ generation \in [Key -> Nat]
  /\ committed \in [Key -> Nat]
  /\ folder \in [Key -> Nat]
  /\ next_generation \in Nat
  /\ initialized \in BOOLEAN /\ starting \in BOOLEAN
  /\ initial_pending \in SUBSET Key
  /\ ready_sent \in BOOLEAN
  /\ shutting_down \in BOOLEAN
  /\ input \in [Key -> Nat]
  /\ calls \in [Key -> Nat]
  /\ wanted \in [Key -> Nat]
  /\ task \in [Task -> TaskState(Key)]
  /\ staging \in SUBSET Task
  /\ panics \in Nat

\* A root that waits for its debounce timer has a sleeping task that will fire
\* it: a trigger is never absorbed by a timer that does not exist
\* (schedule_roots_with_parent, finish_root_run and the re-arm of
\* spawn_debounced_run keep the flag and the task together).
PendingHasTimer ==
  ~shutting_down =>
    \A k \in roots : scheduler[k].pending => \E t \in Task : Sleeping(t, k)

\* Task t will free the running slot of k.
Owns(t, k) ==
  \/ task[t].pc = "claimed" /\ task[t].key = k
  \/ HasJob(t, k) /\ task[t].generation = generation[k]

\* An occupied running slot is owned by a task that will free it: one that
\* claimed it and has not built its job, or the job of the root's current
\* generation (finish_root_run ignores every other job, so a slot without such
\* an owner would block the root's analysis for ever).
RunningHasOwner ==
  ~shutting_down =>
    \A k \in roots : scheduler[k].running => \E t \in Task : Owns(t, k)

\* Compile jobs hold the staging lock one at a time, and every holder is
\* compiling: no early return of compile_job, no panic keeps it.
StagingExclusive ==
  /\ \A t, u \in staging : t = u
  /\ staging = {t \in Task : task[t].pc = "compiling"}

\* The result a root serves never goes back to older inputs while the root
\* stays in the workspace, whatever jobs of an earlier folder finish late
\* (commit_job's generation check).
CommitsAdvance ==
  [][\A k \in Key : folder'[k] = folder[k] => committed'[k] >= committed[k]]_vars

\* After Backend::shutdown no result is committed and no job is started.
NothingAfterShutdown ==
  [][shutting_down =>
       /\ \A k \in Key : folder'[k] = folder[k] => committed'[k] = committed[k]
       /\ \A t \in Task : task'[t].pc = "claimed" => task[t].pc = "claimed"]_vars

\* Every trigger is caught up with: unless the server shuts down, the folder goes
\* away or a compilation panics, the root ends with a committed result at least as
\* new as the newest input a trigger asked for ("any pause lets the final state
\* catch up", scheduler.rs).
CatchesUp ==
  \A k \in Key :
    <>[](\/ shutting_down
         \/ k \notin roots
         \/ panics > 0
         \/ committed[k] >= wanted[k])

==============================================================================
