------------------------------- MODULE Processes -------------------------------
(***************************************************************************)
(* The simulation processes of the C runtime: who runs, who waits and for  *)
(* what, fork groups and their joins, and the process handle methods (kill,*)
(* suspend, resume, await).  One thread runs all of it: the process whose  *)
(* turn it is calls the runtime until it blocks, completes or is killed.   *)
(*                                                                         *)
(* A kill takes one step per victim; nothing else can happen before it ends.*)
(* Regions, events, named blocks and $finish are left out: every process runs*)
(* in the Active region, and the waits that end by themselves are delays.  *)
(*                                                                         *)
(* The semaphore and the mailbox, whose queues a kill has to clean up, and *)
(* the specification of the whole are in SimRuntime.                       *)
(***************************************************************************)
EXTENDS Naturals, FiniteSets, Sequences, Functions

CONSTANTS
  Proc,        \* processes: the root ones and those that forks create
  Roots,       \* the static processes, in the order they are spawned
  KeyCount,    \* key counts of semaphore calls
  InitialKeys, \* keys of the semaphore when it is made
  Capacity,    \* bound of the mailbox, 0 for an unbounded one
  MaxFork,     \* bound: branches of one fork
  MaxCalls     \* bound: runtime calls of one run

ASSUME ProcessesAssumption ==
  /\ IsFiniteSet(Proc)
  /\ Roots \in Seq(Proc)
  /\ IsInjective(Roots)
  /\ KeyCount \subseteq Nat \ {0}
  /\ InitialKeys \in Nat
  /\ Capacity \in Nat
  /\ MaxFork \in Nat
  /\ MaxCalls \in Nat

VARIABLES
  current,      \* g.current: {} or {the process whose turn it is}
  queue,        \* g.process_queues[LLG_REGION_ACTIVE]
  life,         \* "unborn", "live", "completed" or "killed"
  ran,          \* processes that had a turn, whose handle others can hold
  wait,         \* llg_proc_t.wait
  waiters,      \* g.waiters, the newest first
  wait_count,   \* g.wait_count
  suspended,    \* processes with llg_proc_t.suspended
  wake_pending, \* processes with llg_proc_t.wake_pending
  groups,       \* fork groups in the order of creation
  available,    \* llg_semaphore_t.available
  sem_wait,     \* the semaphore's queue
  messages,     \* messages in the mailbox, numbered in the order of the puts
  get_wait,     \* the mailbox's queue of receivers
  put_wait,     \* the mailbox's queue of senders
  delivery,     \* llg_proc_t.mailbox_delivery
  sent,         \* number of messages put so far
  taken,        \* the message that was received last
  work,         \* the loop the current call is in
  calls         \* number of calls so far

boxVars == <<messages, get_wait, put_wait, delivery, sent, taken>>
semVars == <<available, sem_wait>>
waitVars == <<queue, wait, waiters, wait_count, wake_pending>>
vars == <<current, life, ran, suspended, groups, waitVars, semVars, boxVars,
          work, calls>>

Kinds == {"none", "time", "fork", "fork_all", "process", "semaphore",
          "mailbox_get", "mailbox_put"}

\* A wait: its kind; the group, the keys, the message, or whether the receiver
\* only peeks (1); and the process awaited.
Wait(kind, arg, target) == [kind |-> kind, arg |-> arg, target |-> target]
NoWait == Wait("none", 0, {})

\* The loop of a call: which one, where a semaphore scan stands, the stack of the
\* processes to kill, those of them whose children are on it, the one whose group
\* is told, and the group to be closed.
Work(loop, scan, victims, notify, closing) ==
  [loop |-> loop, scan |-> scan, victims |-> victims, entered |-> {},
   notify |-> notify, closing |-> closing]
Idle == Work("none", 0, <<>>, {}, 0)

\* The values of a wait and of a loop.
WaitType == [kind : Kinds, arg : Nat, target : SUBSET Proc]

WorkType ==
  [loop : {"none", "kill", "semaphore", "mailbox"}, scan : Nat, victims : Seq(Proc),
   entered : SUBSET Proc, notify : SUBSET Proc, closing : Nat]

------------------------------------------------------------------------------
(* Queues *)

\* The sequences of ss one after the other.
Joint(ss) ==
  LET upto[n \in 0..Len(ss)] == IF n = 0 THEN <<>> ELSE upto[n - 1] \o ss[n]
  IN upto[Len(ss)]

\* The elements of s that are in S, in order.
Within(s, S) == Joint([i \in DOMAIN s |-> IF s[i] \in S THEN <<s[i]>> ELSE <<>>])

Reverse(s) == [i \in 1..Len(s) |-> s[Len(s) - i + 1]]

RemoveAt(s, k) == [i \in 1..Len(s) - 1 |-> s[IF i < k THEN i ELSE i + 1]]

\* s without the first place that holds e, if one does.
RemoveFirst(s, e) ==
  IF e \in Range(s)
  THEN RemoveAt(s, CHOOSE i \in DOMAIN s : s[i] = e /\ \A j \in 1..i - 1 : s[j] # e)
  ELSE s

------------------------------------------------------------------------------
(* Waiting and waking *)

\* The process p has its turn and makes a call.
Calls(p) ==
  /\ current = {p}
  /\ work = Idle
  /\ calls < MaxCalls
  /\ calls' = calls + 1

\* wake_proc for the processes of ps, in that order, while the waits of the
\* processes in gone are dropped; q is the run queue they are appended to.
Release(ps, gone, q) ==
  LET over == Range(ps) \cup gone
  IN /\ wait' = [p \in Proc |-> IF p \in over THEN NoWait ELSE wait[p]]
     /\ waiters' = Within(waiters, Proc \ over)
     /\ wait_count' = wait_count - Cardinality({p \in over : wait[p].kind # "none"})
     /\ wake_pending' = (wake_pending \cup (Range(ps) \cap suspended)) \ gone
     /\ queue' = q \o Within(ps, Proc \ suspended)

\* The children of the groups in is that were not killed, in order.
Children(gs, is) ==
  Within(Joint([i \in DOMAIN gs |-> IF i \in is THEN gs[i].children ELSE <<>>]),
         {c \in Proc : life[c] # "killed"})

\* The groups of p whose children are not eligible yet.
Pending(gs, p) == {i \in DOMAIN gs : gs[i].parent = p /\ gs[i].live /\ ~gs[i].started}

\* start_pending_fork_children: the children of these groups.
Eligible(gs, p) == Children(gs, Pending(gs, p))

StartedBy(gs, p) ==
  [i \in DOMAIN gs |-> IF gs[i].parent = p THEN [gs[i] EXCEPT !.started = TRUE]
                       ELSE gs[i]]

\* register_wait: p blocks in wait w, with run queue q and groups gs; blocking
\* makes the children of its join_none groups eligible.
Blocks(p, w, q, gs) ==
  /\ wait' = [wait EXCEPT ![p] = w]
  /\ waiters' = <<p>> \o waiters
  /\ wait_count' = wait_count + 1
  /\ queue' = q \o Eligible(gs, p)
  /\ groups' = StartedBy(gs, p)
  /\ current' = {}
  /\ UNCHANGED wake_pending

------------------------------------------------------------------------------
(* The run loop *)

\* run_region_queue: the next process has its turn; it takes the message that
\* was delivered to it.
Dispatch ==
  /\ current = {} /\ work = Idle /\ queue # <<>>
  /\ current' = {Head(queue)}
  /\ queue' = Tail(queue)
  /\ ran' = ran \cup {Head(queue)}
  /\ delivery' = [delivery EXCEPT ![Head(queue)] = {}]
  /\ UNCHANGED <<life, wait, waiters, wait_count, suspended, wake_pending, groups,
                 semVars, messages, get_wait, put_wait, sent, taken, work, calls>>

\* llg_rt_run: nothing is left to run now, so time advances to the delays that
\* end next; they end in the order they were registered.
Advance ==
  /\ current = {} /\ work = Idle /\ queue = <<>>
  /\ \E due \in SUBSET {p \in Proc : wait[p].kind = "time"} :
       /\ due # {}
       /\ Release(Within(Reverse(waiters), due), {}, queue)
  /\ UNCHANGED <<current, life, ran, suspended, groups, semVars, boxVars, work, calls>>

\* llg_arm_time with a delay in the future.
Delay(p) ==
  /\ Calls(p)
  /\ Blocks(p, Wait("time", 0, {}), queue, groups)
  /\ UNCHANGED <<life, ran, suspended, semVars, boxVars, work>>

------------------------------------------------------------------------------
(* Fork groups *)

Group(p, kind, cs) ==
  [parent |-> p, kind |-> kind, children |-> cs, remaining |-> Len(cs),
   resumed |-> FALSE, started |-> kind # "join_none", live |-> TRUE]

GroupType ==
  [parent : Proc, kind : {"join", "join_any", "join_none"}, children : Seq(Proc),
   remaining : Nat, resumed : BOOLEAN, started : BOOLEAN, live : BOOLEAN]

\* The branches of one fork.
Branches == {cs \in UNION {[1..n -> Proc] : n \in 1..MaxFork} : IsInjective(cs)}

LiveGroups(p) == {i \in DOMAIN groups : groups[i].parent = p /\ groups[i].live}

\* The group p is a child of, 0 for a root process.
GroupOf(p) ==
  IF \E i \in DOMAIN groups : p \in Range(groups[i].children)
  THEN CHOOSE i \in DOMAIN groups : p \in Range(groups[i].children)
  ELSE 0

\* llg_fork_group_new, llg_fork for every branch, then llg_arm_join.
Fork(p, kind, cs) ==
  LET gs == Append(groups, Group(p, kind, cs))
  IN /\ Calls(p)
     /\ \A i \in DOMAIN cs : life[cs[i]] = "unborn"
     /\ life' = [q \in Proc |-> IF q \in Range(cs) THEN "live" ELSE life[q]]
     /\ \/ /\ kind = "join_none"
           /\ groups' = gs
           /\ UNCHANGED <<current, waitVars>>
        \/ /\ kind # "join_none"
           /\ Blocks(p, Wait("fork", Len(gs), {}), queue \o cs, gs)
     /\ UNCHANGED <<ran, suspended, semVars, boxVars, work>>

\* llg_arm_wait_fork.
WaitFork(p) ==
  /\ Calls(p)
  /\ LiveGroups(p) # {}
  /\ Blocks(p, Wait("fork_all", 0, {}), queue, groups)
  /\ UNCHANGED <<life, ran, suspended, semVars, boxVars, work>>

\* Variant: the count reaches the end one child too early.
ChildDone_Early(g) ==
  [g EXCEPT !.remaining = @ - 1,
            !.resumed = @ \/ g.kind = "join_any",
            !.live = g.remaining > 2]

\* llg_fork_group_child_done: one child of the group is done.
ChildDone(g) ==
  [g EXCEPT !.remaining = @ - 1,
            !.resumed = @ \/ g.kind = "join_any",
            !.live = g.remaining > 1]

\* The parent of group i, if the end of one more child ends its wait: a join
\* with all children done, the first join_any, a wait fork with no group left.
Joined(i) ==
  LET g == groups[i]
      w == wait[g.parent]
      last == g.remaining = 1
  IN IF \/ w.kind = "fork" /\ w.arg = i
             /\ IF g.kind = "join" THEN last ELSE g.kind = "join_any" /\ ~g.resumed
        \/ w.kind = "fork_all" /\ last /\ LiveGroups(g.parent) = {i}
     THEN <<g.parent>> ELSE <<>>

\* The processes that await p, the newest first (process_handle_terminal).
Awaiters(p) == Within(waiters, {q \in Proc : wait[q].target = {p}})

\* The end of p as its group sees it: the group, and the parent woken.
Counted(i) == i # 0 /\ groups[i].live

GroupsAfter(gs, i) == IF Counted(i) THEN [gs EXCEPT ![i] = ChildDone(@)] ELSE gs

JoinedBy(i) == IF Counted(i) THEN Joined(i) ELSE <<>>

\* proc_complete: the turn of p ends with its last statement.
Complete(p) ==
  LET i == GroupOf(p)
  IN /\ current = {p} /\ work = Idle
     /\ current' = {}
     /\ life' = [life EXCEPT ![p] = "completed"]
     /\ groups' = GroupsAfter(StartedBy(groups, p), i)
     /\ Release(Awaiters(p) \o JoinedBy(i), {}, queue \o Eligible(groups, p))
     /\ UNCHANGED <<ran, suspended, semVars, boxVars, work, calls>>

------------------------------------------------------------------------------
(* Killing *)

Closed(g) == [g EXCEPT !.remaining = 0, !.live = FALSE]

\* llg_process_kill.  A handle of t exists once t ran.
Kill(p, t) ==
  /\ Calls(p)
  /\ t \in ran /\ life[t] = "live"
  /\ work' = Work("kill", 0, <<t>>, {t}, 0)
  /\ UNCHANGED <<current, life, ran, suspended, groups, waitVars, semVars, boxVars>>

\* llg_disable_fork.
DisableFork(p) ==
  /\ Calls(p)
  /\ LiveGroups(p) # {}
  /\ work' = Work("kill", 0, Children(groups, LiveGroups(p)), {}, 0)
  /\ groups' = [i \in DOMAIN groups |-> IF groups[i].parent = p THEN Closed(groups[i])
                                        ELSE groups[i]]
  /\ UNCHANGED <<current, life, ran, suspended, waitVars, semVars, boxVars>>

\* llg_disable_target of a named fork: llg_kill_named_group.
DisableGroup(p, i) ==
  /\ Calls(p)
  /\ groups[i].live
  /\ work' = Work("kill", 0, Children(groups, {i}), {}, i)
  /\ UNCHANGED <<current, life, ran, suspended, groups, waitVars, semVars, boxVars>>

\* Variant: the entry of a killed waiter stays.
Unlinked_Stale(s, v) == s

\* semaphore_waiter_unlink, mailbox_unlink_wait.
Unlinked(s, v) == RemoveFirst(s, v)

\* mailbox_drop_delivery.
Dropped(v) == [delivery EXCEPT ![v] = {}]

\* llg_kill_proc_groups of the next victim: first its children are to be killed, as
\* far as the groups that are still live lead to them.
KillEnter ==
  LET v == Head(work.victims)
  IN /\ work.victims # <<>> /\ v \notin work.entered
     /\ work' = [work EXCEPT !.victims = Children(groups, LiveGroups(v)) \o @,
                             !.entered = @ \cup {v}]
     /\ UNCHANGED <<current, life, ran, suspended, groups, waitVars, semVars, boxVars,
                    calls>>

\* llg_kill_proc of the next victim.
KillStep ==
  LET v == Head(work.victims)
      i == IF v \in work.notify THEN GroupOf(v) ELSE 0
  IN /\ work.victims # <<>> /\ v \in work.entered
     /\ work' = [work EXCEPT !.victims = Tail(@)]
     /\ life' = [life EXCEPT ![v] = "killed"]
     /\ suspended' = suspended \ {v}
     /\ delivery' = Dropped(v)
     /\ sem_wait' = Unlinked(sem_wait, v)
     /\ get_wait' = Unlinked(get_wait, v)
     /\ put_wait' = Unlinked(put_wait, v)
     /\ groups' = GroupsAfter([j \in DOMAIN groups |->
                                 IF groups[j].parent = v THEN Closed(groups[j])
                                 ELSE groups[j]], i)
     /\ Release(Awaiters(v) \o JoinedBy(i), {v}, RemoveFirst(queue, v))
     /\ UNCHANGED <<current, ran, available, messages, sent, taken, calls>>

\* The victims are dead: a named group is closed and its parent woken; a caller
\* that was among the victims does not go on.
KillEnd ==
  LET i == work.closing
      parent == groups[i].parent
      w == wait[parent]
      joined == \/ w.kind = "fork" /\ w.arg = i
                \/ w.kind = "fork_all" /\ LiveGroups(parent) = {i}
  IN /\ work.loop = "kill" /\ work.victims = <<>>
     /\ work' = Idle
     /\ current' = {p \in current : life[p] = "live"}
     /\ groups' = [j \in DOMAIN groups |-> IF j = i THEN Closed(groups[j]) ELSE groups[j]]
     /\ Release(IF i # 0 /\ joined THEN <<parent>> ELSE <<>>, {}, queue)
     /\ UNCHANGED <<life, ran, suspended, semVars, boxVars, calls>>

------------------------------------------------------------------------------
(* The other methods of a process handle *)

\* llg_arm_process_suspend: t leaves the run queue but keeps its wait.
Suspend(p, t) ==
  /\ Calls(p)
  /\ t \in ran /\ life[t] = "live" /\ t \notin suspended
  /\ suspended' = suspended \cup {t}
  /\ wake_pending' = wake_pending \ {t}
  /\ IF t = p
     THEN /\ current' = {}
          /\ queue' = queue \o Eligible(groups, p)
          /\ groups' = StartedBy(groups, p)
     ELSE /\ queue' = RemoveFirst(queue, t)
          /\ UNCHANGED <<current, groups>>
  /\ UNCHANGED <<life, ran, wait, waiters, wait_count, semVars, boxVars, work>>

\* Variant: only a process whose wait ended meanwhile is queued again.
Resumed_Woken(t) == t \in wake_pending

\* llg_process_resume queues t again unless it still waits.
Resumed(t) == wait[t].kind = "none"

Resume(p, t) ==
  /\ Calls(p)
  /\ t \in suspended
  /\ suspended' = suspended \ {t}
  /\ wake_pending' = wake_pending \ {t}
  /\ queue' = IF Resumed(t) THEN Append(queue, t) ELSE queue
  /\ UNCHANGED <<current, life, ran, wait, waiters, wait_count, groups, semVars,
                 boxVars, work>>

\* llg_arm_process_await of another live process.
Await(p, t) ==
  /\ Calls(p)
  /\ t \in ran \ {p} /\ life[t] = "live"
  /\ Blocks(p, Wait("process", 0, {t}), queue, groups)
  /\ UNCHANGED <<life, ran, suspended, semVars, boxVars, work>>

================================================================================
