------------------------------ MODULE SimRuntime -------------------------------
(***************************************************************************)
(* The processes of Processes together with one semaphore and one mailbox: *)
(* the specification of the runtime they share, and its properties.        *)
(*                                                                         *)
(* The service loops of a semaphore and of a mailbox take one step per     *)
(* iteration; nothing else can happen before they end.                     *)
(***************************************************************************)
EXTENDS Processes

\* The static processes are queued in the order they are spawned; nothing ran yet.
Init ==
  /\ current = {}
  /\ queue = Roots
  /\ life = [p \in Proc |-> IF p \in Range(Roots) THEN "live" ELSE "unborn"]
  /\ ran = {}
  /\ wait = [p \in Proc |-> NoWait]
  /\ waiters = <<>>
  /\ wait_count = 0
  /\ suspended = {}
  /\ wake_pending = {}
  /\ groups = <<>>
  /\ available = InitialKeys
  /\ sem_wait = <<>>
  /\ messages = <<>>
  /\ get_wait = <<>>
  /\ put_wait = <<>>
  /\ delivery = [p \in Proc |-> {}]
  /\ sent = 0
  /\ taken = 0
  /\ work = Idle
  /\ calls = 0

\* Variant: the newest waiter comes first.
Queued_Front(s, p) == <<p>> \o s

\* A blocked get or put goes to the end of its queue.
Queued(s, p) == Append(s, p)

------------------------------------------------------------------------------
(* The semaphore *)

\* llg_arm_semaphore_get, and llg_semaphore_try_get where it succeeds.
SemaphoreGet(p, k) ==
  /\ Calls(p)
  /\ IF available >= k
     THEN /\ available' = available - k
          /\ UNCHANGED <<current, groups, waitVars, sem_wait>>
     ELSE /\ sem_wait' = Queued(sem_wait, p)
          /\ Blocks(p, Wait("semaphore", k, {}), queue, groups)
          /\ UNCHANGED available
  /\ UNCHANGED <<life, ran, suspended, boxVars, work>>

\* llg_semaphore_put; the overflow of the key count, which ends the run, is
\* beyond MaxCalls.
SemaphorePut(p, k) ==
  /\ Calls(p)
  /\ available' = available + k
  /\ work' = Work("semaphore", 1, <<>>, {}, 0)
  /\ UNCHANGED <<current, life, ran, suspended, groups, waitVars, sem_wait, boxVars>>

\* A request that does not fit is passed over.
Skips(p) == wait[p].arg > available

\* semaphore_wake_available: one iteration of the scan.
SemaphoreStep ==
  LET at == work.scan
      p == sem_wait[at]
  IN /\ work.loop = "semaphore"
     /\ at <= Len(sem_wait) /\ available > 0
     /\ \/ /\ Skips(p)
           /\ work' = [work EXCEPT !.scan = at + 1]
           /\ UNCHANGED <<waitVars, semVars>>
        \/ /\ ~Skips(p)
           /\ available' = available - wait[p].arg
           /\ sem_wait' = RemoveAt(sem_wait, at)
           /\ Release(<<p>>, {}, queue)
           /\ UNCHANGED work
     /\ UNCHANGED <<current, life, ran, suspended, groups, boxVars, calls>>

\* Variant: the scan ends at the first request that does not fit.
Scanned_Head ==
  IF work.scan > Len(sem_wait) \/ available = 0 THEN TRUE ELSE Skips(sem_wait[work.scan])

Scanned == work.scan > Len(sem_wait) \/ available = 0

SemaphoreEnd ==
  /\ work.loop = "semaphore"
  /\ Scanned
  /\ work' = Idle
  /\ UNCHANGED <<current, life, ran, suspended, groups, waitVars, semVars, boxVars, calls>>

------------------------------------------------------------------------------
(* The mailbox *)

\* Variant: one message more than the bound fits.
Full_Late == Capacity # 0 /\ Len(messages) > Capacity

Full == Capacity # 0 /\ Len(messages) >= Capacity

BoxLoop == Work("mailbox", 0, <<>>, {}, 0)

\* llg_arm_mailbox_put_value, and llg_mailbox_try_put_value where it succeeds.
MailboxPut(p) ==
  /\ Calls(p)
  /\ sent' = sent + 1
  /\ IF ~Full
     THEN /\ messages' = Append(messages, sent')
          /\ work' = BoxLoop
          /\ UNCHANGED <<current, groups, waitVars, put_wait>>
     ELSE /\ put_wait' = Queued(put_wait, p)
          /\ Blocks(p, Wait("mailbox_put", sent', {}), queue, groups)
          /\ UNCHANGED <<messages, work>>
  /\ UNCHANGED <<life, ran, suspended, semVars, get_wait, delivery, taken>>

\* mailbox_message_take: a receiver that peeks (1) leaves the message.
Takes(peek) ==
  /\ messages' = IF peek = 1 THEN messages ELSE Tail(messages)
  /\ taken' = IF peek = 1 THEN taken ELSE Head(messages)

\* llg_arm_mailbox_get_value, and llg_mailbox_try_get_value where it succeeds.
MailboxGet(p, peek) ==
  /\ Calls(p)
  /\ IF messages # <<>>
     THEN /\ Takes(peek)
          /\ work' = BoxLoop
          /\ UNCHANGED <<current, groups, waitVars, get_wait>>
     ELSE /\ get_wait' = Queued(get_wait, p)
          /\ Blocks(p, Wait("mailbox_get", peek, {}), queue, groups)
          /\ UNCHANGED <<messages, taken, work>>
  /\ UNCHANGED <<life, ran, suspended, semVars, put_wait, delivery, sent>>

\* mailbox_service_waiters: a message meets the receiver that waited longest.
Deliver ==
  LET p == Head(get_wait)
  IN /\ work.loop = "mailbox"
     /\ messages # <<>> /\ get_wait # <<>>
     /\ Takes(wait[p].arg)
     /\ delivery' = [delivery EXCEPT ![p] = {Head(messages)}]
     /\ get_wait' = Tail(get_wait)
     /\ Release(<<p>>, {}, queue)
     /\ UNCHANGED <<current, life, ran, suspended, groups, semVars, put_wait, sent,
                    work, calls>>

\* mailbox_service_waiters: the sender that waited longest puts its message.
Accept ==
  LET p == Head(put_wait)
  IN /\ work.loop = "mailbox"
     /\ messages = <<>> \/ get_wait = <<>>
     /\ put_wait # <<>> /\ ~Full
     /\ messages' = Append(messages, wait[p].arg)
     /\ put_wait' = Tail(put_wait)
     /\ Release(<<p>>, {}, queue)
     /\ UNCHANGED <<current, life, ran, suspended, groups, semVars, get_wait, delivery,
                    sent, taken, work, calls>>

MailboxEnd ==
  /\ work.loop = "mailbox"
  /\ messages = <<>> \/ get_wait = <<>>
  /\ put_wait = <<>> \/ Full
  /\ work' = Idle
  /\ UNCHANGED <<current, life, ran, suspended, groups, waitVars, semVars, boxVars, calls>>

------------------------------------------------------------------------------

Turn(p) ==
  \/ Delay(p)
  \/ \E kind \in {"join", "join_any", "join_none"}, cs \in Branches : Fork(p, kind, cs)
  \/ WaitFork(p)
  \/ Complete(p)
  \/ DisableFork(p)
  \/ \E i \in DOMAIN groups : DisableGroup(p, i)
  \/ \E t \in Proc : Kill(p, t) \/ Suspend(p, t) \/ Resume(p, t) \/ Await(p, t)
  \/ \E k \in KeyCount : SemaphoreGet(p, k) \/ SemaphorePut(p, k)
  \/ MailboxPut(p)
  \/ \E peek \in {0, 1} : MailboxGet(p, peek)

Next ==
  \/ Dispatch
  \/ Advance
  \/ \E p \in Proc : Turn(p)
  \/ KillEnter
  \/ KillStep
  \/ KillEnd
  \/ SemaphoreStep
  \/ SemaphoreEnd
  \/ Deliver
  \/ Accept
  \/ MailboxEnd

Spec == Init /\ [][Next]_vars

------------------------------------------------------------------------------
(* Properties *)

\* Every variable is well formed.
TypeOK ==
  /\ current \subseteq Proc /\ Cardinality(current) <= 1
  /\ queue \in Seq(Proc)
  /\ life \in [Proc -> {"unborn", "live", "completed", "killed"}]
  /\ ran \subseteq Proc
  /\ wait \in [Proc -> WaitType]
  /\ waiters \in Seq(Proc)
  /\ wait_count \in Nat
  /\ suspended \subseteq Proc
  /\ wake_pending \subseteq Proc
  /\ groups \in Seq(GroupType)
  /\ available \in Nat
  /\ sem_wait \in Seq(Proc)
  /\ messages \in Seq(Nat)
  /\ get_wait \in Seq(Proc)
  /\ put_wait \in Seq(Proc)
  /\ delivery \in [Proc -> SUBSET Nat]
  /\ sent \in Nat
  /\ taken \in Nat
  /\ work \in WorkType
  /\ calls \in 0..MaxCalls

\* The number of places of s that hold p.
Occurrences(s, p) == Cardinality({i \in DOMAIN s : s[i] = p})

\* A child that its parent has not made eligible yet.
NotStarted(p) == GroupOf(p) # 0 /\ groups[GroupOf(p)].live /\ ~groups[GroupOf(p)].started

\* Every live process is in exactly one place: it has its turn, it is queued once,
\* it waits, it is suspended with nothing to wait for, or it is a join_none child
\* whose parent still has the turn that created it.  A dead process is in none
\* (wake_proc, resume, suspend and kill neither lose a process nor queue it
\* twice).
NoProcessLost ==
  work = Idle => \A p \in Proc :
    LET places == (IF p \in current THEN 1 ELSE 0) + Occurrences(queue, p)
                  + Occurrences(waiters, p)
                  + (IF p \in suspended /\ wait[p].kind = "none" THEN 1 ELSE 0)
                  + (IF life[p] = "live" /\ NotStarted(p) THEN 1 ELSE 0)
    IN /\ places = IF life[p] = "live" THEN 1 ELSE 0
       /\ life[p] = "live" /\ NotStarted(p) => current = {groups[GroupOf(p)].parent}

\* A process waits for children, a group or a process only while one of them is
\* alive to end the wait, and a group counts exactly its live children: no end,
\* kill or disable of a child is missed or counted twice
\* (llg_fork_group_child_done, process_handle_terminal).
JoinsEnd ==
  work = Idle =>
    /\ \A i \in DOMAIN groups :
         LET alive == {c \in Range(groups[i].children) : life[c] = "live"}
         IN /\ groups[i].live => groups[i].remaining = Cardinality(alive)
            /\ groups[i].live <=> alive # {}
    /\ \A p \in Proc :
         LET w == wait[p]
         IN /\ w.kind = "fork" => w.arg \in LiveGroups(p) /\ ~groups[w.arg].resumed
            /\ w.kind = "fork_all" => LiveGroups(p) # {}
            /\ w.kind = "process" => \A t \in w.target : life[t] = "live"

\* The three queues hold exactly the processes that wait there, each once, and
\* g.wait_count, which decides between "no processes remain" and a deadlock,
\* counts the waits: a kill or a wake leaves no stale entry behind.
QueuesMatchWaits ==
  /\ \A p \in Proc :
       /\ Occurrences(sem_wait, p) = IF wait[p].kind = "semaphore" THEN 1 ELSE 0
       /\ Occurrences(get_wait, p) = IF wait[p].kind = "mailbox_get" THEN 1 ELSE 0
       /\ Occurrences(put_wait, p) = IF wait[p].kind = "mailbox_put" THEN 1 ELSE 0
       /\ Occurrences(waiters, p) = IF wait[p].kind = "none" THEN 0 ELSE 1
  /\ wait_count = Len(waiters)

\* Between two calls every queued request needs more keys than are available
\* (semaphore_waiter_unlink and llg_arm_semaphore_get rely on it: a get that fits
\* overtakes no request that could be served, and the kill of a waiter frees no
\* other).
SemaphoreServed ==
  work = Idle => \A i \in DOMAIN sem_wait : wait[sem_wait[i]].arg > available

\* Between two calls no receiver waits while there is a message, and no sender
\* waits while there is room; the bound is never exceeded
\* (mailbox_service_waiters).
MailboxServed ==
  /\ Capacity # 0 => Len(messages) <= Capacity
  /\ work = Idle => /\ get_wait = <<>> \/ messages = <<>>
                    /\ put_wait = <<>> \/ Full

\* The messages received, held and waiting to be put are in the order of the
\* puts: no put overtakes a blocked one, and no message is received twice
\* (FIFO service of both queues, also when waiters are killed or suspended).
MailboxFifo ==
  LET held == <<taken>> \o messages \o [i \in DOMAIN put_wait |-> wait[put_wait[i]].arg]
  IN \A i, j \in DOMAIN held : i < j => held[i] < held[j]

\* All processes that p forked, and that those forked, and so on.
Descendants(p) ==
  LET down[n \in 0..Cardinality(Proc)] ==
        IF n = 0 THEN {p}
        ELSE down[n - 1] \cup UNION {Range(groups[i].children) :
                                       i \in {j \in DOMAIN groups :
                                               groups[j].parent \in down[n - 1]}}
  IN down[Cardinality(Proc)] \ {p}

\* A killed process leaves no live descendant behind ("Kill `p` and all of its
\* descendants", process_control.c:184).
KilledWithDescendants ==
  work = Idle => \A p \in Proc :
    life[p] = "killed" => \A d \in Descendants(p) : life[d] # "live"

================================================================================
