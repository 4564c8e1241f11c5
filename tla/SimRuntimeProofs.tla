--------------------------- MODULE SimRuntimeProofs ----------------------------
\* Every state of the runtime of SimRuntime.tla satisfies the inductive invariant IInv,
\* and what follows from it: nobody is lost, waits end, queues are served in order.
EXTENDS SimRuntime, ProcessesProofs

\* Zenon is the prover of a leaf that names none.
USE ZenonT(60)

--------------------------------------------------------------------------------
\* The invariant of the data, and the whole inductive invariant.

\* The processes that wait for something of a kind.
Waiting(kind) == {p \in Proc : wait[p].kind = kind}

\* The queue of the semaphore holds the processes that wait there, and every request
\* that the scan has passed needs more keys than there are.
SemaphoreOK ==
  /\ available \in Nat /\ sem_wait \in Seq(Proc)
  /\ IsInjective(sem_wait) /\ Range(sem_wait) = Waiting("semaphore")
  /\ \A p \in Waiting("semaphore") : wait[p].arg > 0
  /\ work.loop # "semaphore" => \A p \in Waiting("semaphore") : wait[p].arg > available
  /\ work.loop = "semaphore" =>
       /\ work.scan \in Nat \ {0}
       /\ \A i \in DOMAIN sem_wait : i < work.scan => wait[sem_wait[i]].arg > available

\* The queues of the mailbox hold the processes that wait there, and only while its
\* loop runs could a message be received or put.
MailboxOK ==
  /\ messages \in Seq(Nat) /\ get_wait \in Seq(Proc) /\ put_wait \in Seq(Proc)
  /\ delivery \in [Proc -> SUBSET Nat] /\ sent \in Nat /\ taken \in Nat
  /\ IsInjective(get_wait) /\ Range(get_wait) = Waiting("mailbox_get")
  /\ IsInjective(put_wait) /\ Range(put_wait) = Waiting("mailbox_put")
  /\ Capacity # 0 => Len(messages) <= Capacity
  /\ work.loop # "mailbox" => (get_wait = <<>> \/ messages = <<>>) /\ (put_wait = <<>> \/ Full)

\* The message received last, those in the mailbox and those that wait to be put are in
\* the order of the puts.
FifoOK ==
  /\ taken <= sent
  /\ \A i \in DOMAIN messages : taken < messages[i] /\ messages[i] <= sent
  /\ \A i, j \in DOMAIN messages : i < j => messages[i] < messages[j]
  /\ \A p \in Waiting("mailbox_put") : /\ taken < wait[p].arg /\ wait[p].arg <= sent
                                       /\ \A j \in DOMAIN messages : messages[j] < wait[p].arg
  /\ \A i, j \in DOMAIN put_wait : i < j => wait[put_wait[i]].arg < wait[put_wait[j]].arg

Data == SemaphoreOK /\ MailboxOK /\ FifoOK /\ calls \in 0..MaxCalls

\* The processes and the data together: what every step of Next keeps.
IInv == Core /\ Data

--------------------------------------------------------------------------------
\* The invariant implies the properties.

\* Where nobody is twice, everybody occurs once or not at all.
LEMMA InjectiveOccurrences ==
  ASSUME Counting, NEW V, NEW s \in Seq(V), IsInjective(s), NEW p
  PROVE  Occurrences(s, p) = IF p \in Range(s) THEN 1 ELSE 0
<1>1. CASE p \in Range(s)
  <2>1. PICK k \in DOMAIN s : s[k] = p
    BY <1>1 DEF Range
  <2>2. {i \in DOMAIN s : s[i] = p} = {k}
    BY <2>1 DEF IsInjective
  <2> QED
    BY <1>1, <2>2 DEF Occurrences, Counting
<1>2. CASE p \notin Range(s)
  <2>1. {i \in DOMAIN s : s[i] = p} = {}
    BY <1>2 DEF Range
  <2> QED
    BY <1>2, <2>1 DEF Occurrences, Counting
<1> QED
  BY <1>1, <1>2

\* Types: at most one process has its turn.
LEMMA TypesHold ==
  ASSUME Counting, Core, Data
  PROVE  TypeOK
<1>1. Cardinality({}) = 0 /\ \A x : Cardinality({x}) = 1
  BY DEF Counting
<1>2. current \subseteq Proc /\ Cardinality(current) <= 1
  <2>1. CASE current = {}
    BY <1>1, <2>1, SMTT(60)
  <2>2. ASSUME NEW p \in Proc, current = {p} PROVE current \subseteq Proc /\ Cardinality(current) <= 1
    <3>1. Cardinality(current) = 1
      BY <1>1, <2>2
    <3> QED
      BY <2>2, <3>1, SMTT(60)
  <2> QED
    BY <2>1, <2>2 DEF Core, Types
<1>3. calls \in 0..MaxCalls /\ SemaphoreOK /\ MailboxOK /\ Types
  BY DEF Core, Data
<1> QED
  BY <1>2, <1>3 DEF TypeOK, Types, SemaphoreOK, MailboxOK

\* Between two calls nothing is being killed.
LEMMA IdleNow ==
  ASSUME Core, work = Idle
  PROVE  /\ Victims = {} /\ work.loop = "none" /\ \A i \in DOMAIN groups : ~Dying(i)
<1>1. work.victims = <<>> /\ work.closing = 0 /\ work.loop = "none"
  BY IdleFields
<1>2. 0 \notin DOMAIN groups
  BY GroupFields, SMTT(60) DEF Core, Types
<1>3. Victims = {}
  BY <1>1, NoneSet DEF Victims
<1> QED
  BY <1>1, <1>2, <1>3 DEF Dying

\* Every live process is in one place.
LEMMA PlacesHold ==
  ASSUME Counting, Core
  PROVE  NoProcessLost
<1> SUFFICES ASSUME work = Idle, NEW p \in Proc
             PROVE  LET places == (IF p \in current THEN 1 ELSE 0) + Occurrences(queue, p)
                                  + Occurrences(waiters, p)
                                  + (IF p \in suspended /\ wait[p].kind = "none" THEN 1 ELSE 0)
                                  + (IF life[p] = "live" /\ NotStarted(p) THEN 1 ELSE 0)
                    IN /\ places = IF life[p] = "live" THEN 1 ELSE 0
                       /\ life[p] = "live" /\ NotStarted(p) => current = {groups[GroupOf(p)].parent}
  BY DEF NoProcessLost
<1>1. Occurrences(queue, p) = IF p \in Range(queue) THEN 1 ELSE 0
  BY InjectiveOccurrences DEF Core, Types, PlacesOK
<1>2. Occurrences(waiters, p) = IF p \in Blocked THEN 1 ELSE 0
  BY InjectiveOccurrences DEF Core, Types, WaitersOK
<1>3. p \in Blocked <=> wait[p].kind # "none"
  BY DEF Blocked
<1>4. life[p] = "live" /\ NotStarted(p) <=> p \in Unstarted
  <2>1. /\ GroupOf(p) = 0 \/ GroupOf(p) \in DOMAIN groups
        /\ \A i \in DOMAIN groups : Child(p, i) <=> i = GroupOf(p)
    BY GroupOfIs DEF Core
  <2>2. 0 \notin DOMAIN groups
    BY GroupFields, SMTT(60) DEF Core, Types
  <2> QED
    BY <2>1, <2>2 DEF NotStarted, Unstarted
<1>5. /\ p \in current => p \notin Range(queue) /\ p \notin Blocked /\ p \notin suspended /\ life[p] = "live"
      /\ p \in Range(queue) => p \notin Blocked /\ p \notin suspended
      /\ p \in Unstarted => /\ p \notin current /\ p \notin Range(queue) /\ p \notin Blocked
                            /\ p \notin suspended
      /\ life[p] # "live" => p \notin Range(queue) /\ p \notin Blocked /\ p \notin suspended
      /\ life[p] = "live" => \/ p \in current \/ p \in Range(queue) \/ p \in Blocked
                             \/ p \in suspended \/ p \in Unstarted
      /\ p \in Unstarted => life[p] = "live"
  <2>1. Victims = {} /\ work.loop # "kill"
    BY IdleNow
  <2>2. Placed(p)
    BY DEF Core, PlacesOK
  <2> QED
    BY <2>1, <2>2 DEF Placed, Unstarted
<1>6. (IF p \in current THEN 1 ELSE 0) + (IF p \in Range(queue) THEN 1 ELSE 0)
        + (IF p \in Blocked THEN 1 ELSE 0)
        + (IF p \in suspended /\ p \notin Blocked THEN 1 ELSE 0)
        + (IF p \in Unstarted THEN 1 ELSE 0) = IF life[p] = "live" THEN 1 ELSE 0
  BY <1>5, SMTT(60)
<1>7. p \in Unstarted => current = {groups[GroupOf(p)].parent}
  <2>1. \A i \in DOMAIN groups : Child(p, i) <=> i = GroupOf(p)
    BY GroupOfIs DEF Core
  <2> QED
    BY <2>1 DEF Core, CountsOK, Unstarted
<1> QED
  BY <1>1, <1>2, <1>3, <1>4, <1>6, <1>7

\* Every wait for children or for a process can end.
LEMMA JoinsHold ==
  ASSUME Counting, Core
  PROVE  JoinsEnd
<1>0. SUFFICES ASSUME work = Idle
               PROVE  /\ \A i \in DOMAIN groups :
                           /\ groups[i].live => groups[i].remaining = Cardinality(Alive(i))
                           /\ groups[i].live <=> Alive(i) # {}
                      /\ \A p \in Proc :
                           /\ wait[p].kind = "fork" => wait[p].arg \in LiveGroups(p) /\ ~groups[wait[p].arg].resumed
                           /\ wait[p].kind = "fork_all" => LiveGroups(p) # {}
                           /\ wait[p].kind = "process" => \A t \in wait[p].target : life[t] = "live"
  BY DEF JoinsEnd, Alive
<1>1. Victims = {} /\ \A i \in DOMAIN groups : ~Dying(i)
  BY <1>0, IdleNow
<1>2. ASSUME NEW i \in DOMAIN groups
      PROVE  /\ groups[i].live => groups[i].remaining = Cardinality(Alive(i))
             /\ groups[i].live <=> Alive(i) # {}
  <2>1. ASSUME groups[i].live PROVE groups[i].remaining = Cardinality(Alive(i)) /\ groups[i].remaining > 0
    BY <1>1, <2>1 DEF Core, CountsOK
  <2>2. ~(0 > 0) /\ Cardinality({}) = 0
    BY SMTT(60) DEF Counting
  <2>3. ~groups[i].live => Alive(i) = {}
    BY <1>1 DEF Core, CountsOK
  <2> QED
    BY <2>1, <2>2, <2>3
<1>3. ASSUME NEW p \in Proc
      PROVE  /\ wait[p].kind = "fork" => wait[p].arg \in LiveGroups(p) /\ ~groups[wait[p].arg].resumed
             /\ wait[p].kind = "fork_all" => LiveGroups(p) # {}
             /\ wait[p].kind = "process" => \A t \in wait[p].target : life[t] = "live"
  BY DEF Core, JoinsOK, AwaitsOK, LiveGroups
<1> QED
  BY <1>2, <1>3

\* The queues hold the processes that wait there.
LEMMA QueuesHold ==
  ASSUME Counting, Core, Data
  PROVE  QueuesMatchWaits
<1>1. ASSUME NEW p \in Proc
      PROVE  /\ Occurrences(sem_wait, p) = IF wait[p].kind = "semaphore" THEN 1 ELSE 0
             /\ Occurrences(get_wait, p) = IF wait[p].kind = "mailbox_get" THEN 1 ELSE 0
             /\ Occurrences(put_wait, p) = IF wait[p].kind = "mailbox_put" THEN 1 ELSE 0
             /\ Occurrences(waiters, p) = IF wait[p].kind = "none" THEN 0 ELSE 1
  <2>1. Occurrences(sem_wait, p) = IF p \in Waiting("semaphore") THEN 1 ELSE 0
    BY InjectiveOccurrences DEF Data, SemaphoreOK
  <2>2. /\ Occurrences(get_wait, p) = IF p \in Waiting("mailbox_get") THEN 1 ELSE 0
        /\ Occurrences(put_wait, p) = IF p \in Waiting("mailbox_put") THEN 1 ELSE 0
    BY InjectiveOccurrences DEF Data, MailboxOK
  <2>3. Occurrences(waiters, p) = IF p \in Blocked THEN 1 ELSE 0
    BY InjectiveOccurrences DEF Core, Types, WaitersOK
  <2> QED
    BY <2>1, <2>2, <2>3 DEF Waiting, Blocked
<1>2. wait_count = Len(waiters)
  BY DEF Core, Types, WaitersOK, Counting
<1> QED
  BY <1>1, <1>2 DEF QueuesMatchWaits

\* Between two calls every queued request needs more keys than there are, and the
\* mailbox has served whom it can.
LEMMA ServedHold ==
  ASSUME Core, Data
  PROVE  SemaphoreServed /\ MailboxServed
<1>1. Idle.loop # "semaphore" /\ Idle.loop # "mailbox"
  BY IdleFields
<1>2. \A i \in DOMAIN sem_wait : sem_wait[i] \in Waiting("semaphore")
  BY DEF Data, SemaphoreOK, Range
<1> QED
  BY <1>1, <1>2 DEF Data, SemaphoreOK, MailboxOK, SemaphoreServed, MailboxServed

\* r is s and then t.
Follows(r, s, t) ==
  /\ r \in Seq(Nat) /\ Len(r) = Len(s) + Len(t) /\ DOMAIN r = 1..Len(s) + Len(t)
  /\ \A i \in 1..Len(s) : r[i] = s[i]
  /\ \A i \in 1..Len(t) : r[Len(s) + i] = t[i]

\* The numbers of the messages increase from the one received last to those that wait.
LEMMA FifoHold ==
  ASSUME Core, Data
  PROVE  MailboxFifo
\* Two sequences one after the other.
<1>FollowsOn.
    ASSUME NEW s \in Seq(Nat), NEW t \in Seq(Nat), NEW r, r = s \o t
    PROVE  Follows(r, s, t)
  BY <1>FollowsOn, SMTT(60) DEF Follows
<1> DEFINE args == [i \in DOMAIN put_wait |-> wait[put_wait[i]].arg]
           m == Len(messages)
           k == Len(put_wait)
           one == <<taken>>
           front == one \o messages
           held == front \o args
<1>1. /\ messages \in Seq(Nat) /\ m \in Nat /\ DOMAIN messages = 1..m /\ taken \in Nat /\ one \in Seq(Nat)
      /\ Len(one) = 1 /\ one[1] = taken
  BY SMTT(60) DEF Data, MailboxOK
<1>2. /\ k \in Nat /\ DOMAIN put_wait = 1..k /\ \A i \in 1..k : put_wait[i] \in Proc
      /\ \A i \in 1..k : put_wait[i] \in Waiting("mailbox_put")
  <2>1. put_wait \in Seq(Proc) /\ Range(put_wait) = Waiting("mailbox_put")
    BY DEF Data, MailboxOK
  <2> QED
    BY <2>1, SMTT(60) DEF Range
<1>3. args \in Seq(Nat) /\ Len(args) = k /\ \A i \in 1..k : args[i] = wait[put_wait[i]].arg
  <2>1. \A i \in 1..k : wait[put_wait[i]].arg \in Nat
    BY <1>2 DEF Core, Types, WaitType
  <2> QED
    BY <1>2, <2>1, SMTT(60)
<1>4. /\ \A i \in 1..m : taken < messages[i]
      /\ \A i, j \in 1..m : i < j => messages[i] < messages[j]
      /\ \A j \in 1..k : taken < args[j] /\ \A i \in 1..m : messages[i] < args[j]
      /\ \A i, j \in 1..k : i < j => args[i] < args[j]
  BY <1>1, <1>2, <1>3 DEF Data, FifoOK
<1>5. front = one \o messages /\ held = front \o args /\ Len(messages) = m
  OBVIOUS
<1> HIDE DEF args, m, k, one, front, held
<1>6. /\ DOMAIN held = 1..1 + m + k /\ held[1] = taken
      /\ \A i \in 1..m : held[1 + i] = messages[i]
      /\ \A i \in 1..k : held[1 + m + i] = args[i]
  <2>1. Follows(front, one, messages)
    BY <1>1, <1>5, <1>FollowsOn
  <2>2. /\ front \in Seq(Nat) /\ Len(front) = 1 + m /\ front[1] = taken
        /\ \A i \in 1..m : front[1 + i] = messages[i]
    BY <1>1, <1>5, <2>1, SMTT(60) DEF Follows
  <2>3. Follows(held, front, args)
    BY <1>3, <1>5, <2>2, <1>FollowsOn
  <2>4. 1 \in 1..1 + m /\ \A i \in 1..m : 1 + i \in 1..1 + m
    BY <1>1, SMTT(60)
  <2> QED
    BY <1>3, <2>2, <2>3, <2>4 DEF Follows
<1>7. ASSUME NEW i \in DOMAIN held, NEW j \in DOMAIN held, i < j
      PROVE  held[i] < held[j]
  <2>1. /\ i \in Nat /\ j \in Nat /\ m \in Nat /\ k \in Nat /\ 1 <= i /\ i < j /\ j <= 1 + m + k
    BY <1>1, <1>2, <1>6, <1>7, SMTT(60)
  <2>2. CASE i = 1 /\ j <= 1 + m
    <3>1. j - 1 \in 1..m /\ j = 1 + (j - 1)
      BY <2>1, <2>2, SMTT(60)
    <3> QED
      BY <1>4, <1>6, <2>2, <3>1
  <2>3. CASE i = 1 /\ j > 1 + m
    <3>1. j - (1 + m) \in 1..k /\ j = 1 + m + (j - (1 + m))
      BY <2>1, <2>3, SMTT(60)
    <3> QED
      BY <1>4, <1>6, <2>3, <3>1
  <2>4. CASE i > 1 /\ j <= 1 + m
    <3>1. /\ i - 1 \in 1..m /\ i = 1 + (i - 1) /\ j - 1 \in 1..m /\ j = 1 + (j - 1) /\ i - 1 < j - 1
      BY <2>1, <2>4, SMTT(60)
    <3> QED
      BY <1>4, <1>6, <3>1
  <2>5. CASE i > 1 /\ i <= 1 + m /\ j > 1 + m
    <3>1. i - 1 \in 1..m /\ i = 1 + (i - 1) /\ j - (1 + m) \in 1..k /\ j = 1 + m + (j - (1 + m))
      BY <2>1, <2>5, SMTT(60)
    <3> QED
      BY <1>4, <1>6, <3>1
  <2>6. CASE i > 1 + m
    <3>1. /\ i - (1 + m) \in 1..k /\ i = 1 + m + (i - (1 + m))
          /\ j - (1 + m) \in 1..k /\ j = 1 + m + (j - (1 + m)) /\ i - (1 + m) < j - (1 + m)
      BY <2>1, <2>6, SMTT(60)
    <3> QED
      BY <1>4, <1>6, <3>1
  <2> QED
    BY ONLY <2>1, <2>2, <2>3, <2>4, <2>5, <2>6, SMTT(60)
<1> QED
  BY <1>7 DEF MailboxFifo, held, front, args, one

--------------------------------------------------------------------------------
\* Steps that leave a queue alone.

DataKinds == {"semaphore", "mailbox_get", "mailbox_put"}

\* No wait for the semaphore or the mailbox begins, changes or ends, except those of X.
Others(X) ==
  \A q \in Proc \ X : wait[q].kind \in DataKinds \/ wait'[q].kind \in DataKinds =>
    wait'[q] = wait[q]

\* t is s without x.
Rest(t, s, x) ==
  /\ t \in Seq(Proc) /\ IsInjective(t) /\ Range(t) = Range(s) \ {x}
  /\ \A i, j \in DOMAIN t : i < j => \E a, b \in DOMAIN s : a < b /\ t[i] = s[a] /\ t[j] = s[b]
  /\ s = <<>> => t = <<>>

\* The head of a queue leaves it.
LEMMA RestTail ==
  ASSUME NEW s \in Seq(Proc), IsInjective(s), s # <<>>
  PROVE  Rest(Tail(s), s, Head(s)) /\ Head(s) \in Range(s) /\ Head(s) \in Proc
<1> DEFINE t == Tail(s)
<1>1. /\ t \in Seq(Proc) /\ IsInjective(t) /\ Range(t) = Range(s) \ {Head(s)}
      /\ Head(s) \in Range(s) /\ Head(s) \in Proc
  <2>1. /\ Head(s) \in Proc /\ t \in Seq(Proc) /\ Range(s) = Range(t) \cup {Head(s)}
        /\ IsInjective(t) /\ Head(s) \notin Range(t)
    BY TailSet
  <2> QED
    BY <2>1
<1>2. /\ Len(s) \in Nat /\ DOMAIN s = 1..Len(s) /\ DOMAIN t = 1..Len(s) - 1
      /\ \A i \in DOMAIN t : t[i] = s[i + 1]
  BY SMTT(60)
<1> HIDE DEF t
<1>3. ASSUME NEW i \in DOMAIN t, NEW j \in DOMAIN t, i < j
      PROVE  \E a, b \in DOMAIN s : a < b /\ t[i] = s[a] /\ t[j] = s[b]
  <2>1. i + 1 \in DOMAIN s /\ j + 1 \in DOMAIN s /\ i + 1 < j + 1
    BY <1>2, <1>3, SMTT(60)
  <2> QED
    BY <1>2, <2>1
<1> QED
  BY <1>1, <1>3 DEF Rest, t

\* The waits of one kind after a step that changes only the waits of X.
LEMMA WaitingKept ==
  ASSUME NEW X, Others(X), NEW k \in DataKinds,
         \A x \in X : wait[x].kind # k /\ wait'[x].kind # k
  PROVE  Waiting(k)' = Waiting(k) /\ \A q \in Waiting(k) : wait'[q] = wait[q]
  BY DEF Others, Waiting

\* A step that has nothing to do with the semaphore.
LEMMA SemaphoreKept ==
  ASSUME SemaphoreOK, NEW X, Others(X),
         \A x \in X : wait[x].kind # "semaphore" /\ wait'[x].kind # "semaphore",
         UNCHANGED <<available, sem_wait>>, work.loop # "semaphore", work'.loop # "semaphore"
  PROVE  SemaphoreOK'
<1>1. Waiting("semaphore")' = Waiting("semaphore") /\ \A q \in Waiting("semaphore") : wait'[q] = wait[q]
  <2>1. "semaphore" \in DataKinds
    BY DEF DataKinds
  <2> QED
    BY <2>1, WaitingKept
<1> QED
  BY <1>1 DEF SemaphoreOK

\* A step that has nothing to do with the mailbox.
LEMMA MailboxKept ==
  ASSUME MailboxOK, FifoOK, NEW X, Others(X),
         \A x \in X : /\ wait[x].kind # "mailbox_get" /\ wait'[x].kind # "mailbox_get"
                      /\ wait[x].kind # "mailbox_put" /\ wait'[x].kind # "mailbox_put",
         UNCHANGED <<messages, get_wait, put_wait, sent, taken>>, delivery' \in [Proc -> SUBSET Nat],
         work.loop # "mailbox"
  PROVE  MailboxOK' /\ FifoOK'
<1>1. Waiting("mailbox_get")' = Waiting("mailbox_get")
  <2>1. "mailbox_get" \in DataKinds
    BY DEF DataKinds
  <2> QED
    BY <2>1, WaitingKept
<1>2. Waiting("mailbox_put")' = Waiting("mailbox_put") /\ \A q \in Waiting("mailbox_put") : wait'[q] = wait[q]
  <2>1. "mailbox_put" \in DataKinds
    BY DEF DataKinds
  <2> QED
    BY <2>1, WaitingKept
<1>3. MailboxOK'
  BY <1>1, <1>2 DEF MailboxOK, Full
<1>4. FifoOK'
  <2>1. \A i \in DOMAIN put_wait : put_wait[i] \in Waiting("mailbox_put")
    BY DEF MailboxOK, Range
  <2>2. \A p \in Waiting("mailbox_put")' :
          /\ taken < wait'[p].arg /\ wait'[p].arg <= sent
          /\ \A j \in DOMAIN messages : messages[j] < wait'[p].arg
    BY <1>2 DEF FifoOK
  <2>3. \A i, j \in DOMAIN put_wait : i < j => wait'[put_wait[i]].arg < wait'[put_wait[j]].arg
    BY <1>2, <2>1 DEF FifoOK
  <2> QED
    BY <2>2, <2>3 DEF FifoOK
<1> QED
  BY <1>3, <1>4

\* A step that has nothing to do with either.
LEMMA QuietStep ==
  ASSUME Data, Others({}),
         UNCHANGED <<available, sem_wait, messages, get_wait, put_wait, sent, taken>>,
         delivery' \in [Proc -> SUBSET Nat], calls' \in 0..MaxCalls,
         work.loop # "semaphore", work.loop # "mailbox", work'.loop # "semaphore"
  PROVE  Data'
<1> PICK X : X = {}
  OBVIOUS
<1>1. SemaphoreOK'
  BY SemaphoreKept DEF Data
<1>2. MailboxOK' /\ FifoOK'
  BY MailboxKept DEF Data
<1> QED
  BY <1>1, <1>2 DEF Data

\* The kill of v takes it out of the queue it waits in.
LEMMA KillData ==
  ASSUME Counting, Data, NEW v \in Proc, Others({v}), wait'[v].kind = "none",
         sem_wait' = Unlinked(sem_wait, v), get_wait' = Unlinked(get_wait, v),
         put_wait' = Unlinked(put_wait, v), delivery' = Dropped(v),
         UNCHANGED <<available, messages, sent, taken, calls>>,
         work.loop = "kill", work'.loop = "kill"
  PROVE  Data'
\* Taking the element at one place leaves the others, in their order.
<1>RestAt.
    ASSUME NEW s \in Seq(Proc), IsInjective(s), NEW k \in 1..Len(s)
    PROVE  Rest(RemoveAt(s, k), s, s[k])
  <2> USE <1>RestAt
  <2> DEFINE t == RemoveAt(s, k)
  <2>1. /\ t \in Seq(Proc) /\ Len(t) = Len(s) - 1 /\ IsInjective(t) /\ Range(t) = Range(s) \ {s[k]}
        /\ \A i \in 1..Len(s) - 1 : t[i] = IF i < k THEN s[i] ELSE s[i + 1]
    BY RemoveAtSet, SMTT(60)
  <2> HIDE DEF t
  <2>2. Len(s) \in Nat /\ DOMAIN s = 1..Len(s) /\ DOMAIN t = 1..Len(s) - 1
    BY <2>1, SMTT(60)
  <2>3. ASSUME NEW i \in DOMAIN t, NEW j \in DOMAIN t, i < j
        PROVE  \E a, b \in DOMAIN s : a < b /\ t[i] = s[a] /\ t[j] = s[b]
    <3> DEFINE a == IF i < k THEN i ELSE i + 1
               b == IF j < k THEN j ELSE j + 1
    <3>1. a \in DOMAIN s /\ b \in DOMAIN s /\ a < b
      BY <2>2, <2>3, SMTT(60)
    <3>2. t[i] = s[a] /\ t[j] = s[b]
      BY <2>1, <2>2
    <3> QED
      BY <3>1, <3>2
  <2>4. s # <<>>
    BY SMTT(60)
  <2> QED
    BY <2>1, <2>3, <2>4 DEF Rest, t
\* semaphore_waiter_unlink and mailbox_unlink_wait.
<1>RestFirst.
    ASSUME Counting, NEW s \in Seq(Proc), IsInjective(s), NEW x
    PROVE  Rest(RemoveFirst(s, x), s, x)
  <2> USE <1>RestFirst
  <2>1. CASE \E k \in 1..Len(s) : s[k] = x /\ RemoveFirst(s, x) = RemoveAt(s, k)
    BY <2>1, <1>RestAt
  <2>2. CASE x \notin Range(s) /\ RemoveFirst(s, x) = s
    <3>1. \A i, j \in DOMAIN s : i < j => \E a, b \in DOMAIN s : a < b /\ s[i] = s[a] /\ s[j] = s[b]
      OBVIOUS
    <3>2. Range(s) = Range(s) \ {x}
      BY <2>2
    <3>3. Rest(s, s, x)
      BY <3>1, <3>2 DEF Rest
    <3> QED
      BY <2>2, <3>3
  <2>3. \/ x \notin Range(s) /\ RemoveFirst(s, x) = s
        \/ \E k \in 1..Len(s) : s[k] = x /\ RemoveFirst(s, x) = RemoveAt(s, k)
    BY RemoveFirstIs
  <2> QED
    BY <2>1, <2>2, <2>3
<1> USE DEF Data
<1>1. ASSUME NEW k \in DataKinds
      PROVE  Waiting(k)' = Waiting(k) \ {v} /\ \A q \in Waiting(k) \ {v} : wait'[q] = wait[q]
  <2>1. "none" \notin DataKinds
    BY DEF DataKinds
  <2> QED
    BY <2>1 DEF Others, Waiting
<1>2. /\ "semaphore" \in DataKinds /\ "mailbox_get" \in DataKinds /\ "mailbox_put" \in DataKinds
      /\ "kill" # "semaphore" /\ "kill" # "mailbox"
  BY DEF DataKinds
<1>3. Rest(sem_wait', sem_wait, v) /\ Rest(get_wait', get_wait, v) /\ Rest(put_wait', put_wait, v)
  BY <1>RestFirst DEF SemaphoreOK, MailboxOK, Unlinked
<1>4. SemaphoreOK'
  <2>1. /\ Waiting("semaphore")' = Waiting("semaphore") \ {v}
        /\ \A q \in Waiting("semaphore") \ {v} : wait'[q] = wait[q]
    BY <1>1, <1>2
  <2>2. /\ sem_wait' \in Seq(Proc) /\ IsInjective(sem_wait)' /\ Range(sem_wait)' = Waiting("semaphore")'
    BY <1>3, <2>1 DEF SemaphoreOK, Rest
  <2>3. \A q \in Waiting("semaphore")' : wait'[q].arg > 0 /\ wait'[q].arg > available
    BY <1>2, <2>1 DEF SemaphoreOK
  <2> QED
    BY <1>2, <2>2, <2>3 DEF SemaphoreOK
<1>5. MailboxOK'
  <2>1. delivery' \in [Proc -> SUBSET Nat]
    BY DEF MailboxOK, Dropped
  <2> QED
    BY <1>1, <1>2, <1>3, <2>1 DEF MailboxOK, Full, Rest
<1>6. FifoOK'
  <2>1. ASSUME NEW i \in DOMAIN put_wait', NEW j \in DOMAIN put_wait', i < j
        PROVE  wait'[put_wait'[i]].arg < wait'[put_wait'[j]].arg
    <3>1. PICK a \in DOMAIN put_wait, b \in DOMAIN put_wait :
            a < b /\ put_wait'[i] = put_wait[a] /\ put_wait'[j] = put_wait[b]
      BY <1>3, <2>1 DEF Rest
    <3>2. put_wait'[i] \in Waiting("mailbox_put") \ {v} /\ put_wait'[j] \in Waiting("mailbox_put") \ {v}
      BY <1>3 DEF MailboxOK, Rest, Range
    <3>3. wait'[put_wait'[i]] = wait[put_wait[a]] /\ wait'[put_wait'[j]] = wait[put_wait[b]]
      BY <1>1, <1>2, <3>1, <3>2
    <3> QED
      BY <3>1, <3>3 DEF FifoOK
  <2>2. \A p \in Waiting("mailbox_put")' :
          /\ taken < wait'[p].arg /\ wait'[p].arg <= sent
          /\ \A j \in DOMAIN messages : messages[j] < wait'[p].arg
    BY <1>1, <1>2 DEF FifoOK
  <2> QED
    BY <2>1, <2>2 DEF FifoOK
<1> QED
  BY <1>4, <1>5, <1>6 DEF DataKinds

--------------------------------------------------------------------------------
\* The steps of the processes.

\* Whoever calls the runtime does not wait, and no other call is under way.
LEMMA CallFields ==
  ASSUME Core, Data, NEW p \in Proc, Calls(p)
  PROVE  /\ current = {p} /\ work = Idle /\ work.loop = "none" /\ calls' \in 0..MaxCalls
         /\ wait[p].kind = "none"
<1>1. current = {p} /\ work = Idle /\ calls < MaxCalls /\ calls' = calls + 1 /\ work.loop = "none"
  BY IdleFields DEF Calls
<1>2. calls' \in 0..MaxCalls
  BY <1>1, ProcessesAssumption, SMTT(60) DEF Data
<1>3. wait[p].kind = "none"
  BY <1>1 DEF Core, PlacesOK, Placed, Blocked
<1> QED
  BY <1>1, <1>2, <1>3

\* A new wait of p, and whether it is one for the semaphore or the mailbox.
LEMMA BlockOthers ==
  ASSUME Types, NEW p \in Proc, wait[p].kind = "none", NEW w, wait' = [wait EXCEPT ![p] = w]
  PROVE  wait'[p] = w /\ Others({p}) /\ (w.kind \notin DataKinds => Others({}))
<1>1. wait'[p] = w /\ \A q \in Proc : q # p => wait'[q] = wait[q]
  BY DEF Types
<1>2. "none" \notin DataKinds
  BY DEF DataKinds
<1> QED
  BY <1>1, <1>2 DEF Others

\* Waits that end, and those of them that were for the semaphore or the mailbox.
LEMMA ReleaseOthers ==
  ASSUME NEW S, wait' = [p \in Proc |-> IF p \in S THEN NoWait ELSE wait[p]], NEW X,
         \A q \in S \ X : wait[q].kind \notin DataKinds
  PROVE  Others(X) /\ \A q \in Proc : q \in S => wait'[q].kind = "none"
<1>1. /\ \A q \in Proc : q \in S => wait'[q] = NoWait
      /\ \A q \in Proc : q \notin S => wait'[q] = wait[q]
  OBVIOUS
<1>2. NoWait.kind = "none" /\ "none" \notin DataKinds
  BY DEF NoWait, Wait, DataKinds
<1> QED
  BY <1>1, <1>2 DEF Others

\* A step outside the loops that serve the queues, of a call that touches neither.
LEMMA QuietCall ==
  ASSUME Data, Others({}), work.loop \in {"none", "kill"}, UNCHANGED <<semVars, boxVars>>,
         calls' \in 0..MaxCalls, work'.loop \in {"none", "kill"}
  PROVE  Data'
<1>1. /\ UNCHANGED <<available, sem_wait, messages, get_wait, put_wait, sent, taken>>
      /\ delivery' = delivery
  BY DEF semVars, boxVars
<1>2. delivery' \in [Proc -> SUBSET Nat]
  BY <1>1 DEF Data, MailboxOK
<1>3. /\ work.loop # "semaphore" /\ work.loop # "mailbox" /\ work'.loop # "semaphore"
  OBVIOUS
<1> QED
  BY <1>1, <1>2, <1>3, QuietStep

\* No wait changes.
LEMMA SameOthers ==
  ASSUME wait' = wait
  PROVE  Others({})
  BY DEF Others

\* run_region_queue: the process that gets the turn takes what was delivered to it.
LEMMA DispatchKeeps ==
  ASSUME Counting, Core, Data, Dispatch
  PROVE  Core' /\ Data'
<1>1. Core'
  BY DispatchStep
<1>2. /\ work.loop = "none" /\ work' = work /\ wait' = wait /\ calls' = calls
      /\ UNCHANGED <<available, sem_wait, messages, get_wait, put_wait, sent, taken>>
      /\ delivery' = [delivery EXCEPT ![Head(queue)] = {}]
  BY IdleFields DEF Dispatch, semVars
<1>3. delivery' \in [Proc -> SUBSET Nat] /\ calls' \in 0..MaxCalls
  BY <1>2 DEF Data, MailboxOK
<1>4. work.loop # "semaphore" /\ work.loop # "mailbox" /\ work'.loop # "semaphore"
  BY <1>2
<1> QED
  BY <1>1, <1>2, <1>3, <1>4, SameOthers, QuietStep

\* llg_rt_run: the delays that end next.
LEMMA AdvanceKeeps ==
  ASSUME Counting, Core, Data, Advance
  PROVE  Core' /\ Data'
<1>1. PICK due \in SUBSET {p \in Proc : wait[p].kind = "time"} :
        Release(Within(Reverse(waiters), due), {}, queue)
  BY DEF Advance
<1>2. /\ work = Idle /\ work.loop = "none" /\ UNCHANGED <<current, life, ran, suspended, groups, work>>
      /\ UNCHANGED <<semVars, boxVars>> /\ calls' = calls
  BY IdleFields DEF Advance
<1> DEFINE ps == Within(Reverse(waiters), due)
<1>3. ps \in Seq(Proc) /\ IsInjective(ps) /\ Range(ps) \subseteq due
  <2>1. Reverse(waiters) \in Seq(Proc) /\ IsInjective(Reverse(waiters))
    BY ReverseSet DEF Core, Types, WaitersOK
  <2>2. ps \in Seq(Proc) /\ IsInjective(ps) /\ Range(ps) = Range(Reverse(waiters)) \cap due
    BY <2>1, WithinSet
  <2> HIDE DEF ps
  <2> QED
    BY <2>2
<1> HIDE DEF ps
<1>4. \A q \in due : wait[q].kind = "time" /\ q \in Proc
  BY <1>1
<1>5. "time" # "none" /\ "time" \notin DataKinds /\ "none" \in {"none", "kill"}
  BY DEF DataKinds
<1>6. Range(ps) \subseteq Blocked /\ Release(ps, {}, queue)
  BY <1>1, <1>3, <1>4, <1>5 DEF Blocked, ps
<1>7. /\ Core'
      /\ wait' = [p \in Proc |-> IF p \in Range(ps) THEN NoWait ELSE wait[p]]
  BY <1>2, <1>3, <1>6, WakeStep
<1>8. Others({})
  BY <1>3, <1>4, <1>5, <1>7, ReleaseOthers
<1>9. calls' \in 0..MaxCalls /\ work.loop \in {"none", "kill"} /\ work'.loop \in {"none", "kill"}
  BY <1>2, <1>5 DEF Data
<1> QED
  BY <1>2, <1>7, <1>8, <1>9, QuietCall

\* llg_arm_time, llg_arm_wait_fork and llg_arm_process_await.
LEMMA WaitsKeep ==
  ASSUME Counting, Core, Data, NEW caller \in Proc,
         Delay(caller) \/ WaitFork(caller) \/ \E t \in Proc : Await(caller, t)
  PROVE  Core' /\ Data'
\* A call that makes p wait for time, for its children or for a process.
<1>BlockKeeps.
    ASSUME Counting, Core, Data, NEW p \in Proc, Calls(p), NEW w \in WaitType,
           Blocks(p, w, queue, groups), UNCHANGED <<life, ran, suspended, semVars, boxVars, work>>,
           w.kind \in {"time", "fork_all", "process"},
           w.kind # "process" => w.target = {},
           \A t \in w.target : w.target = {t} /\ t # p /\ life[t] = "live",
           w.kind = "fork_all" => LiveGroups(p) # {}
    PROVE  Core' /\ Data'
  <2> USE <1>BlockKeeps
  <2>1. /\ current = {p} /\ work = Idle /\ work.loop = "none" /\ calls' \in 0..MaxCalls
        /\ wait[p].kind = "none"
    BY CallFields
  <2>2. w.kind # "none" /\ w.kind # "fork" /\ w.kind \notin DataKinds /\ "none" \in {"none", "kill"}
    BY DEF DataKinds
  <2>3. UNCHANGED <<life, ran, suspended, work>> /\ UNCHANGED <<semVars, boxVars>>
    OBVIOUS
  <2>4. Core' /\ wait' = [wait EXCEPT ![p] = w]
    BY <2>1, <2>2, <2>3, BlockStep
  <2>5. Others({})
    BY <2>1, <2>2, <2>4, BlockOthers DEF Core
  <2>6. work.loop \in {"none", "kill"} /\ work'.loop \in {"none", "kill"}
    BY <2>1, <2>2, <2>3
  <2> QED
    BY <2>1, <2>3, <2>4, <2>5, <2>6, QuietCall
<1>1. CASE Delay(caller)
  <2> DEFINE w == Wait("time", 0, {})
  <2>1. w \in WaitType /\ w.kind = "time" /\ w.target = {}
    BY DEF Wait, WaitType, Kinds
  <2>2. /\ Calls(caller) /\ Blocks(caller, w, queue, groups)
        /\ UNCHANGED <<life, ran, suspended, semVars, boxVars, work>>
    BY <1>1 DEF Delay
  <2> HIDE DEF w
  <2> QED
    BY <2>1, <2>2, <1>BlockKeeps
<1>2. CASE WaitFork(caller)
  <2> DEFINE w == Wait("fork_all", 0, {})
  <2>1. w \in WaitType /\ w.kind = "fork_all" /\ w.target = {}
    BY DEF Wait, WaitType, Kinds
  <2>2. /\ Calls(caller) /\ Blocks(caller, w, queue, groups) /\ LiveGroups(caller) # {}
        /\ UNCHANGED <<life, ran, suspended, semVars, boxVars, work>>
    BY <1>2 DEF WaitFork
  <2> HIDE DEF w
  <2> QED
    BY <2>1, <2>2, <1>BlockKeeps
<1>3. ASSUME NEW t \in Proc, Await(caller, t) PROVE Core' /\ Data'
  <2> DEFINE w == Wait("process", 0, {t})
  <2>1. w \in WaitType /\ w.kind = "process" /\ w.target = {t}
    BY DEF Wait, WaitType, Kinds
  <2>2. /\ Calls(caller) /\ Blocks(caller, w, queue, groups) /\ t # caller /\ life[t] = "live"
        /\ UNCHANGED <<life, ran, suspended, semVars, boxVars, work>>
    BY <1>3 DEF Await
  <2> HIDE DEF w
  <2> QED
    BY <2>1, <2>2, <1>BlockKeeps
<1> QED
  BY <1>1, <1>2, <1>3

\* llg_fork_group_new, llg_fork and llg_arm_join.
LEMMA ForkKeeps ==
  ASSUME Counting, Core, Data, NEW p \in Proc, NEW kind \in {"join", "join_any", "join_none"},
         NEW cs \in Branches, Fork(p, kind, cs)
  PROVE  Core' /\ Data'
<1>1. Calls(p) /\ UNCHANGED <<semVars, boxVars>> /\ work' = work
  BY DEF Fork
<1>2. /\ work.loop = "none" /\ calls' \in 0..MaxCalls /\ wait[p].kind = "none"
  BY <1>1, CallFields
<1>3. /\ Core'
      /\ wait' = wait \/ wait' = [wait EXCEPT ![p] = Wait("fork", Len(groups) + 1, {})]
  BY ForkStep
<1>4. Wait("fork", Len(groups) + 1, {}).kind \notin DataKinds /\ "none" \in {"none", "kill"}
  BY DEF Wait, DataKinds
<1>5. Others({})
  BY <1>2, <1>3, <1>4, SameOthers, BlockOthers DEF Core
<1>6. work.loop \in {"none", "kill"} /\ work'.loop \in {"none", "kill"}
  BY <1>1, <1>2, <1>4
<1> QED
  BY <1>1, <1>2, <1>3, <1>5, <1>6, QuietCall

\* proc_complete.
LEMMA CompleteKeeps ==
  ASSUME Counting, Core, Data, NEW p \in Proc, Complete(p)
  PROVE  Core' /\ Data'
<1> PICK i : i = GroupOf(p)
  OBVIOUS
<1> PICK ps : ps = Awaiters(p) \o JoinedBy(i)
  OBVIOUS
<1>1. /\ work.loop = "none" /\ UNCHANGED <<semVars, boxVars>> /\ work' = work /\ calls' = calls
      /\ Release(ps, {}, queue \o Eligible(groups, p))
  BY IdleFields DEF Complete
<1>2. i = 0 \/ (i \in DOMAIN groups /\ Child(p, i))
  BY GroupOfIs DEF Core
<1>3. \A q \in Range(ps) : wait[q].kind \in {"process", "fork", "fork_all"}
  BY <1>2, EndedSet
<1>4. wait' = [q \in Proc |-> IF q \in Range(ps) \cup {} THEN NoWait ELSE wait[q]]
  BY <1>1 DEF Release
<1>5. \A q \in (Range(ps) \cup {}) \ {} : wait[q].kind \notin DataKinds
  BY <1>3 DEF DataKinds
<1>6. Others({}) /\ Core'
  BY <1>4, <1>5, ReleaseOthers, EndSteps
<1>7. calls' \in 0..MaxCalls /\ work.loop \in {"none", "kill"} /\ work'.loop \in {"none", "kill"}
  BY <1>1 DEF Data
<1> QED
  BY <1>1, <1>6, <1>7, QuietCall

\* llg_process_kill, llg_disable_fork, llg_disable_target, llg_arm_process_suspend and
\* llg_process_resume.
LEMMA HandlesKeep ==
  ASSUME Counting, Core, Data, NEW p \in Proc,
         \/ DisableFork(p) \/ \E i \in DOMAIN groups : DisableGroup(p, i)
         \/ \E t \in Proc : Kill(p, t) \/ Suspend(p, t) \/ Resume(p, t)
  PROVE  Core' /\ Data'
<1>1. Core'
  BY DisableForkBegins, DisableGroupBegins, KillBegins, SuspendStep, ResumeStep
<1>2. /\ Calls(p) /\ UNCHANGED <<semVars, boxVars>> /\ wait' = wait
      /\ work' = work \/ \E vs, ns, g : work' = Work("kill", 0, vs, ns, g)
  BY DEF DisableFork, DisableGroup, Kill, Suspend, Resume, waitVars
<1>3. work.loop = "none" /\ calls' \in 0..MaxCalls
  BY <1>2, CallFields
<1>4. \A vs, ns, g : Work("kill", 0, vs, ns, g).loop = "kill"
  BY DEF Work
<1>5. work.loop \in {"none", "kill"} /\ work'.loop \in {"none", "kill"}
  BY <1>2, <1>3, <1>4
<1> QED
  BY <1>1, <1>2, <1>3, <1>5, SameOthers, QuietCall

\* llg_kill_proc_groups, before the victim itself is killed.
LEMMA KillEnterKeeps ==
  ASSUME Counting, Core, Data, KillEnter
  PROVE  Core' /\ Data'
<1>1. /\ work.victims # <<>> /\ UNCHANGED <<semVars, boxVars>> /\ wait' = wait /\ calls' = calls
      /\ work' = [work EXCEPT !.victims = Children(groups, LiveGroups(Head(work.victims))) \o @,
                             !.entered = @ \cup {Head(work.victims)}]
  BY DEF KillEnter, waitVars
<1>2. work.loop = "kill"
  BY <1>1 DEF Core, KillsOK
<1>3. work'.loop = work.loop
  BY <1>1 DEF Core, Types, WorkType
<1>4. calls' \in 0..MaxCalls /\ work.loop \in {"none", "kill"} /\ work'.loop \in {"none", "kill"}
  BY <1>1, <1>2, <1>3 DEF Data
<1> QED
  BY <1>1, <1>4, SameOthers, QuietCall, KillEnterStep

\* llg_kill_proc.
LEMMA KillStepKeeps ==
  ASSUME Counting, Core, Data, KillStep
  PROVE  Core' /\ Data'
<1> PICK v : v = Head(work.victims)
  OBVIOUS
<1> PICK i : i = IF v \in work.notify THEN GroupOf(v) ELSE 0
  OBVIOUS
<1> PICK ps : ps = Awaiters(v) \o JoinedBy(i)
  OBVIOUS
<1>1. /\ work.victims # <<>> /\ Release(ps, {v}, RemoveFirst(queue, v))
      /\ sem_wait' = Unlinked(sem_wait, v) /\ get_wait' = Unlinked(get_wait, v)
      /\ put_wait' = Unlinked(put_wait, v) /\ delivery' = Dropped(v)
      /\ UNCHANGED <<available, messages, sent, taken, calls>>
      /\ work' = [work EXCEPT !.victims = Tail(@)]
  BY DEF KillStep
<1>2. work.loop = "kill"
  BY <1>1 DEF Core, KillsOK
<1>3. work'.loop = work.loop /\ v \in Proc
  BY <1>1, SMTT(60) DEF Core, Types, WorkType
<1>4. i = 0 \/ (i \in DOMAIN groups /\ Child(v, i))
  BY <1>3, GroupOfIs DEF Core
<1>5. \A q \in Range(ps) : wait[q].kind \in {"process", "fork", "fork_all"}
  BY <1>3, <1>4, EndedSet
<1>6. wait' = [q \in Proc |-> IF q \in Range(ps) \cup {v} THEN NoWait ELSE wait[q]]
  BY <1>1 DEF Release
<1>7. /\ \A q \in (Range(ps) \cup {v}) \ {v} : wait[q].kind \notin DataKinds
      /\ v \in Range(ps) \cup {v}
  BY <1>5 DEF DataKinds
<1>8. Others({v}) /\ wait'[v].kind = "none"
  BY <1>3, <1>6, <1>7, ReleaseOthers
<1> QED
  BY <1>1, <1>2, <1>3, <1>8, KillData, EndSteps

\* The end of a kill: llg_kill_named_group wakes the parent.
LEMMA KillEndKeeps ==
  ASSUME Counting, Core, Data, KillEnd
  PROVE  Core' /\ Data'
<1> PICK ps : /\ Release(ps, {}, queue)
              /\ ps = <<>> \/ \E q : /\ ps = <<q>>
                                     /\ wait[q].kind = "fork" \/ wait[q].kind = "fork_all"
  BY DEF KillEnd
<1>1. /\ work.loop = "kill" /\ UNCHANGED <<semVars, boxVars>> /\ work'.loop = "none" /\ calls' = calls
  BY IdleFields DEF KillEnd
<1>2. \A q \in Range(ps) : wait[q].kind = "fork" \/ wait[q].kind = "fork_all"
  BY SMTT(60) DEF Range
<1>3. wait' = [q \in Proc |-> IF q \in Range(ps) \cup {} THEN NoWait ELSE wait[q]]
  BY DEF Release
<1>4. \A q \in (Range(ps) \cup {}) \ {} : wait[q].kind \notin DataKinds
  BY <1>2 DEF DataKinds
<1>5. Others({}) /\ Core'
  BY <1>3, <1>4, ReleaseOthers, EndSteps
<1>6. calls' \in 0..MaxCalls /\ work.loop \in {"none", "kill"} /\ work'.loop \in {"none", "kill"}
  BY <1>1 DEF Data
<1> QED
  BY <1>1, <1>5, <1>6, QuietCall

--------------------------------------------------------------------------------
\* The semaphore and the mailbox.

\* t is the queue s after the request at place k was served.
Served(t, s, k) ==
  /\ t \in Seq(Proc) /\ IsInjective(t) /\ Range(t) = Range(s) \ {s[k]}
  /\ \A i \in 1..Len(s) - 1 : t[i] = IF i < k THEN s[i] ELSE s[i + 1]
  /\ Len(t) = Len(s) - 1

\* The messages of the mailbox as sequences of numbers.
LEMMA MessageFields ==
  ASSUME MailboxOK
  PROVE  /\ Len(messages) \in Nat /\ DOMAIN messages = 1..Len(messages)
         /\ \A i \in DOMAIN messages : messages[i] \in Nat
         /\ sent \in Nat /\ taken \in Nat /\ Capacity \in Nat
<1>1. messages \in Seq(Nat) /\ sent \in Nat /\ taken \in Nat
  BY DEF MailboxOK
<1> QED
  BY <1>1, ProcessesAssumption, SMTT(60) DEF ProcessesAssumption

\* mailbox_message_take receives the oldest message, if it does not only peek.
LEMMA TakenFirst ==
  ASSUME MailboxOK, FifoOK, Types, messages # <<>>, NEW peek, Takes(peek)
  PROVE  /\ messages' \in Seq(Nat) /\ taken' \in Nat /\ taken' <= sent
         /\ Capacity # 0 => Len(messages') <= Capacity
         /\ \A i \in DOMAIN messages' : taken' < messages'[i] /\ messages'[i] <= sent
         /\ \A i, j \in DOMAIN messages' : i < j => messages'[i] < messages'[j]
         /\ \A p \in Waiting("mailbox_put") :
              /\ taken' < wait[p].arg
              /\ \A j \in DOMAIN messages' : messages'[j] < wait[p].arg
<1>1. /\ Len(messages) \in Nat /\ DOMAIN messages = 1..Len(messages)
      /\ \A i \in DOMAIN messages : messages[i] \in Nat
      /\ sent \in Nat /\ taken \in Nat /\ Capacity \in Nat
  BY MessageFields
<1>2. CASE peek = 1
  <2>1. messages' = messages /\ taken' = taken
    BY <1>2 DEF Takes
  <2> QED
    BY <2>1 DEF MailboxOK, FifoOK
<1>3. CASE peek # 1
  <2>1. messages' = Tail(messages) /\ taken' = Head(messages) /\ messages \in Seq(Nat)
    BY <1>3 DEF Takes, MailboxOK
  <2>2. /\ messages' \in Seq(Nat) /\ taken' = messages[1] /\ 1 \in DOMAIN messages
        /\ Len(messages') = Len(messages) - 1 /\ DOMAIN messages' = 1..Len(messages) - 1
        /\ \A i \in DOMAIN messages' : messages'[i] = messages[i + 1] /\ i + 1 \in DOMAIN messages /\ 1 < i + 1
    BY <1>1, <2>1, SMTT(60)
  <2>3. Capacity # 0 => Len(messages') <= Capacity
    <3>1. Capacity # 0 => Len(messages) <= Capacity
      BY DEF MailboxOK
    <3> QED
      BY ONLY <1>1, <2>2, <3>1, SMTT(60)
  <2>4. \A i \in DOMAIN messages' : taken' < messages'[i] /\ messages'[i] <= sent
    BY <2>2 DEF FifoOK
  <2>5. ASSUME NEW i \in DOMAIN messages', NEW j \in DOMAIN messages', i < j
        PROVE  messages'[i] < messages'[j]
    <3>1. i + 1 < j + 1
      BY ONLY <1>1, <2>2, <2>5, SMTT(60)
    <3> QED
      BY <2>2, <3>1 DEF FifoOK
  <2>6. \A p \in Waiting("mailbox_put") : /\ taken' < wait[p].arg
                                          /\ \A j \in DOMAIN messages' : messages'[j] < wait[p].arg
    BY <2>2 DEF FifoOK
  <2>7. taken' \in Nat /\ taken' <= sent
    BY <1>1, <2>2 DEF FifoOK
  <2> QED
    BY <2>2, <2>3, <2>4, <2>5, <2>6, <2>7
<1> QED
  BY <1>2, <1>3

\* The loops of the calls, told apart.
LEMMA Loops ==
  /\ BoxLoop \in WorkType /\ BoxLoop.loop = "mailbox" /\ BoxLoop.victims = <<>>
  /\ BoxLoop.entered = {} /\ BoxLoop.notify = {} /\ BoxLoop.closing = 0
  /\ Work("semaphore", 1, <<>>, {}, 0) \in WorkType /\ Work("semaphore", 1, <<>>, {}, 0).loop = "semaphore"
  /\ Work("semaphore", 1, <<>>, {}, 0).victims = <<>> /\ Work("semaphore", 1, <<>>, {}, 0).entered = {}
  /\ Work("semaphore", 1, <<>>, {}, 0).notify = {} /\ Work("semaphore", 1, <<>>, {}, 0).closing = 0
  /\ Work("semaphore", 1, <<>>, {}, 0).scan = 1
  /\ "semaphore" # "kill" /\ "mailbox" # "kill" /\ "none" # "kill"
  /\ "semaphore" # "none" /\ "mailbox" # "none" /\ "semaphore" # "mailbox"
  <1>1. <<>> \in Seq(Proc)
    BY NoneSet
  <1> QED
    BY <1>1 DEF BoxLoop, Work, WorkType

\* The call of a process that has to wait for the semaphore or the mailbox.
LEMMA QueueStep ==
  ASSUME Counting, Core, Data, NEW p \in Proc, Calls(p), NEW kind \in DataKinds, NEW n \in Nat,
         Blocks(p, Wait(kind, n, {}), queue, groups), UNCHANGED <<life, ran, suspended, work>>
  PROVE  /\ Core' /\ Others({p}) /\ wait[p].kind = "none" /\ wait'[p].kind = kind /\ wait'[p].arg = n
         /\ work.loop = "none" /\ calls' \in 0..MaxCalls
<1> PICK w : w = Wait(kind, n, {})
  OBVIOUS
<1>1. w \in WaitType /\ w.kind = kind /\ w.arg = n /\ w.target = {}
  BY DEF Wait, WaitType, Kinds, DataKinds
<1>2. /\ current = {p} /\ work = Idle /\ work.loop = "none" /\ calls' \in 0..MaxCalls
      /\ wait[p].kind = "none"
  BY CallFields
<1>3. w.kind # "none" /\ w.kind # "fork" /\ w.kind # "process" /\ w.kind # "fork_all"
  BY <1>1 DEF DataKinds
<1>4. Core' /\ wait' = [wait EXCEPT ![p] = w]
  BY <1>1, <1>2, <1>3, BlockStep
<1>5. Others({p}) /\ wait'[p] = w
  BY <1>2, <1>4, BlockOthers DEF Core
<1> QED
  BY <1>1, <1>2, <1>4, <1>5

\* A waiter that is served continues.
LEMMA ServeStep ==
  ASSUME Counting, Core, NEW p \in Proc, wait[p].kind # "none", Release(<<p>>, {}, queue),
         UNCHANGED <<current, life, ran, suspended, groups, work>>
  PROVE  Core' /\ Others({p}) /\ wait'[p].kind = "none"
<1> PICK ps : ps = <<p>>
  OBVIOUS
<1>1. ps \in Seq(Proc) /\ IsInjective(ps) /\ Range(ps) = {p}
  BY OneSet
<1>2. Range(ps) \subseteq Blocked /\ Release(ps, {}, queue)
  BY <1>1 DEF Blocked
<1>3. Core' /\ wait' = [q \in Proc |-> IF q \in Range(ps) THEN NoWait ELSE wait[q]]
  BY <1>1, <1>2, WakeStep
<1>4. \A q \in Range(ps) \ {p} : wait[q].kind \notin DataKinds
  BY <1>1
<1> QED
  BY <1>1, <1>3, <1>4, ReleaseOthers

\* llg_arm_semaphore_get and llg_semaphore_put.
LEMMA SemaphoreCallsKeep ==
  ASSUME Counting, Core, Data, NEW caller \in Proc, NEW keys \in KeyCount,
         SemaphoreGet(caller, keys) \/ SemaphorePut(caller, keys)
  PROVE  Core' /\ Data'
\* llg_arm_semaphore_get with enough keys: no request that waits fits afterwards.
<1>SemaphoreTakes.
    ASSUME SemaphoreOK, Types, NEW k \in Nat, available >= k, available' = available - k,
           UNCHANGED <<wait, sem_wait>>, work.loop # "semaphore", work'.loop # "semaphore"
    PROVE  SemaphoreOK'
  <2> USE <1>SemaphoreTakes
  <2>1. available' \in Nat /\ available' <= available
    BY SMTT(60) DEF SemaphoreOK
  <2>2. Waiting("semaphore")' = Waiting("semaphore")
    BY DEF Waiting
  <2>3. \A p \in Waiting("semaphore") : wait[p].arg > available'
    <3> SUFFICES ASSUME NEW p \in Waiting("semaphore") PROVE wait[p].arg > available'
      OBVIOUS
    <3>1. wait[p].arg > available
      BY DEF SemaphoreOK
    <3>2. wait[p].arg \in Nat /\ available \in Nat
      BY DEF Types, WaitType, Waiting, SemaphoreOK
    <3> QED
      BY <2>1, <3>1, <3>2, SMTT(60)
  <2> QED
    BY <2>1, <2>2, <2>3 DEF SemaphoreOK
\* llg_arm_semaphore_get with too few keys: the process joins the queue.
<1>SemaphoreBlocks.
    ASSUME SemaphoreOK, NEW k \in Nat, k > available, k > 0, NEW p \in Proc, wait[p].kind = "none",
           Others({p}), wait'[p].kind = "semaphore", wait'[p].arg = k, sem_wait' = Queued(sem_wait, p),
           available' = available, work.loop # "semaphore", work'.loop # "semaphore"
    PROVE  SemaphoreOK'
  <2> USE <1>SemaphoreBlocks
  <2>1. /\ Waiting("semaphore")' = Waiting("semaphore") \cup {p} /\ p \notin Waiting("semaphore")
        /\ \A q \in Waiting("semaphore") : wait'[q] = wait[q]
    <3>1. "semaphore" \in DataKinds /\ "none" # "semaphore"
      BY DEF DataKinds
    <3> QED
      BY <3>1 DEF Others, Waiting
  <2>2. /\ sem_wait' \in Seq(Proc) /\ IsInjective(sem_wait') /\ Range(sem_wait') = Waiting("semaphore")'
    <3>1. sem_wait \in Seq(Proc) /\ IsInjective(sem_wait) /\ p \notin Range(sem_wait) /\ sem_wait' = Append(sem_wait, p)
      BY <2>1 DEF SemaphoreOK, Queued
    <3>2. /\ Append(sem_wait, p) \in Seq(Proc) /\ IsInjective(Append(sem_wait, p))
          /\ Range(Append(sem_wait, p)) = Range(sem_wait) \cup {p}
      BY <3>1, AppendSet, SMTT(60)
    <3> QED
      BY <2>1, <3>1, <3>2 DEF SemaphoreOK
  <2>3. \A q \in Waiting("semaphore")' : wait'[q].arg > 0 /\ wait'[q].arg > available
    BY <2>1 DEF SemaphoreOK
  <2> QED
    BY <2>2, <2>3 DEF SemaphoreOK
\* llg_semaphore_put starts a scan of the queue.
<1>SemaphoreScans.
    ASSUME SemaphoreOK, NEW k \in Nat, available' = available + k, UNCHANGED <<wait, sem_wait>>,
           work'.loop = "semaphore", work'.scan = 1
    PROVE  SemaphoreOK'
  <2> USE <1>SemaphoreScans
  <2>1. available' \in Nat /\ 1 \in Nat \ {0}
    BY SMTT(60) DEF SemaphoreOK
  <2>2. \A i \in DOMAIN sem_wait : ~(i < 1)
    BY SMTT(60) DEF SemaphoreOK
  <2>3. Waiting("semaphore")' = Waiting("semaphore")
    BY DEF Waiting
  <2> QED
    BY <2>1, <2>2, <2>3 DEF SemaphoreOK
<1>1. keys \in Nat /\ keys > 0
  BY ProcessesAssumption, SMTT(60)
<1>2. /\ Calls(caller) /\ UNCHANGED <<messages, get_wait, put_wait, sent, taken>> /\ delivery' = delivery
      /\ life' = life /\ ran' = ran /\ suspended' = suspended
  BY DEF SemaphoreGet, SemaphorePut, boxVars
<1>3. /\ work = Idle /\ work.loop = "none" /\ calls' \in 0..MaxCalls /\ wait[caller].kind = "none"
      /\ delivery' \in [Proc -> SUBSET Nat]
  BY <1>2, CallFields DEF Data, MailboxOK
<1>4. work.loop # "kill" /\ work.loop # "mailbox" /\ work.loop # "semaphore"
  BY <1>3, Loops
<1>5. CASE SemaphoreGet(caller, keys) /\ available >= keys
  <2>1. /\ available' = available - keys /\ work' = work
        /\ UNCHANGED <<current, life, ran, suspended, groups, waitVars>> /\ sem_wait' = sem_wait
    BY <1>2, <1>5 DEF SemaphoreGet
  <2>2. wait' = wait
    BY <2>1 DEF waitVars
  <2>3. Core' /\ SemaphoreOK'
    BY <1>1, <1>3, <1>4, <1>5, <2>1, <2>2, IdleFields, CalmStep, <1>SemaphoreTakes DEF Core, Data
  <2> QED
    BY <1>2, <1>3, <1>4, <2>2, <2>3, SameOthers, MailboxKept DEF Data
<1>6. CASE SemaphoreGet(caller, keys) /\ ~(available >= keys)
  <2>1. /\ sem_wait' = Queued(sem_wait, caller) /\ Blocks(caller, Wait("semaphore", keys, {}), queue, groups)
        /\ available' = available /\ work' = work
    BY <1>6 DEF SemaphoreGet
  <2>2. "semaphore" \in DataKinds /\ "semaphore" # "mailbox_get" /\ "semaphore" # "mailbox_put"
        /\ "none" # "mailbox_get" /\ "none" # "mailbox_put"
    BY DEF DataKinds
  <2>3. /\ Core' /\ Others({caller}) /\ wait'[caller].kind = "semaphore" /\ wait'[caller].arg = keys
    BY <1>1, <1>2, <2>1, <2>2, QueueStep
  <2>4. keys > available
    BY <1>1, <1>6, SMTT(60) DEF Data, SemaphoreOK
  <2>5. SemaphoreOK'
    BY <1>1, <1>3, <1>4, <2>1, <2>3, <2>4, <1>SemaphoreBlocks DEF Data
  <2>6. \A x \in {caller} : /\ wait[x].kind # "mailbox_get" /\ wait'[x].kind # "mailbox_get"
                       /\ wait[x].kind # "mailbox_put" /\ wait'[x].kind # "mailbox_put"
    BY <1>3, <2>2, <2>3
  <2> QED
    BY <1>2, <1>3, <1>4, <2>3, <2>5, <2>6, MailboxKept DEF Data
<1>7. CASE SemaphorePut(caller, keys)
  <2>1. /\ available' = available + keys /\ work' = Work("semaphore", 1, <<>>, {}, 0)
        /\ UNCHANGED <<current, life, ran, suspended, groups, waitVars>> /\ sem_wait' = sem_wait
    BY <1>7 DEF SemaphorePut
  <2>2. wait' = wait
    BY <2>1 DEF waitVars
  <2>3. Core' /\ SemaphoreOK'
    BY <1>1, <1>3, <1>4, <2>1, <2>2, Loops, CalmStep, <1>SemaphoreScans DEF Data
  <2> QED
    BY <1>2, <1>3, <1>4, <2>2, <2>3, SameOthers, MailboxKept DEF Data
<1> QED
  BY <1>5, <1>6, <1>7

\* semaphore_wake_available: the scan passes over a request, serves it or ends.
LEMMA SemaphoreLoopKeeps ==
  ASSUME Counting, Core, Data, SemaphoreStep \/ SemaphoreEnd
  PROVE  Core' /\ Data'
\* semaphore_wake_available passes over a request that does not fit.
<1>SemaphoreSkips.
    ASSUME SemaphoreOK, work.loop = "semaphore", work.scan <= Len(sem_wait), Skips(sem_wait[work.scan]),
           UNCHANGED <<wait, sem_wait, available>>,
           work'.loop = "semaphore", work'.scan = work.scan + 1
    PROVE  SemaphoreOK'
  <2> USE <1>SemaphoreSkips
  <2>1. PICK n \in Nat \ {0} : n = work.scan
    BY DEF SemaphoreOK
  <2>2. work'.scan \in Nat \ {0} /\ work'.scan = n + 1
    BY <2>1, SMTT(60)
  <2>3. ASSUME NEW i \in DOMAIN sem_wait, i < n + 1 PROVE wait[sem_wait[i]].arg > available
    <3>1. i \in Nat
      BY SMTT(60) DEF SemaphoreOK
    <3>2. i < n \/ i = n
      BY ONLY <2>1, <2>3, <3>1, SMTT(60)
    <3> QED
      BY <2>1, <3>2 DEF SemaphoreOK, Skips
  <2>4. Waiting("semaphore")' = Waiting("semaphore")
    BY DEF Waiting
  <2> QED
    BY <2>2, <2>3, <2>4 DEF SemaphoreOK
\* Serving a request takes it out of the queue and keeps the places of those before it.
<1>ServedQueue.
    ASSUME NEW s \in Seq(Proc), IsInjective(s), NEW k \in 1..Len(s), NEW t, t = RemoveAt(s, k)
    PROVE  Served(t, s, k)
  BY <1>ServedQueue, RemoveAtSet DEF Served
\* semaphore_wake_available serves a request that fits: those before it still do not.
<1>SemaphoreServes.
    ASSUME SemaphoreOK, Types, work.loop = "semaphore", work' = work, work.scan <= Len(sem_wait),
           NEW p, p = sem_wait[work.scan], ~Skips(p), available' = available - wait[p].arg,
           sem_wait' = RemoveAt(sem_wait, work.scan), Others({p}), wait'[p].kind = "none"
    PROVE  SemaphoreOK'
  <2> USE <1>SemaphoreServes
  <2>1. PICK n \in Nat \ {0} : n = work.scan
    BY DEF SemaphoreOK
  <2>2. /\ n \in 1..Len(sem_wait) /\ DOMAIN sem_wait = 1..Len(sem_wait) /\ n \in DOMAIN sem_wait
        /\ Len(sem_wait) \in Nat
    BY <2>1, SMTT(60) DEF SemaphoreOK
  <2>3. p \in Waiting("semaphore") /\ p \in Proc
    BY <2>1, <2>2 DEF SemaphoreOK, Range, Waiting
  <2>4. wait[p].arg \in Nat /\ wait[p].arg > 0 /\ available \in Nat /\ ~(wait[p].arg > available)
    <3>1. wait[p].arg \in Nat
      BY <2>3 DEF Types, WaitType
    <3> QED
      BY <2>3, <3>1 DEF SemaphoreOK, Skips
  <2>5. available' \in Nat /\ available' <= available
    BY <2>4, SMTT(60)
  <2>6. /\ Waiting("semaphore")' = Waiting("semaphore") \ {p}
        /\ \A q \in Waiting("semaphore") \ {p} : wait'[q] = wait[q]
    <3>1. "semaphore" \in DataKinds /\ "none" # "semaphore"
      BY DEF DataKinds
    <3> QED
      BY <3>1 DEF Others, Waiting
  <2>7. /\ sem_wait' \in Seq(Proc) /\ IsInjective(sem_wait') /\ Range(sem_wait') = Waiting("semaphore")'
        /\ \A i \in 1..Len(sem_wait) - 1 : sem_wait'[i] = IF i < n THEN sem_wait[i] ELSE sem_wait[i + 1]
        /\ DOMAIN sem_wait' = 1..Len(sem_wait) - 1
    <3>1. /\ sem_wait' \in Seq(Proc) /\ IsInjective(sem_wait') /\ Range(sem_wait') = Range(sem_wait) \ {p}
          /\ \A i \in 1..Len(sem_wait) - 1 : sem_wait'[i] = IF i < n THEN sem_wait[i] ELSE sem_wait[i + 1]
          /\ Len(sem_wait') = Len(sem_wait) - 1
      <4>1. sem_wait \in Seq(Proc) /\ IsInjective(sem_wait) /\ sem_wait' = RemoveAt(sem_wait, n) /\ p = sem_wait[n]
        BY <2>1 DEF SemaphoreOK
      <4>2. Served(sem_wait', sem_wait, n)
        BY <2>2, <4>1, <1>ServedQueue
      <4> QED
        BY <4>1, <4>2 DEF Served
    <3>2. DOMAIN sem_wait' = 1..Len(sem_wait')
      BY <3>1, SMTT(60)
    <3> QED
      BY <2>6, <3>1, <3>2 DEF SemaphoreOK
  <2>8. \A q \in Waiting("semaphore")' : wait'[q].arg > 0
    BY <2>6 DEF SemaphoreOK
  <2>9. ASSUME NEW i \in DOMAIN sem_wait', i < n PROVE wait'[sem_wait'[i]].arg > available'
    <3>1. i \in DOMAIN sem_wait /\ i \in 1..Len(sem_wait) - 1
      BY <2>2, <2>7, SMTT(60)
    <3>2. sem_wait'[i] = sem_wait[i]
      BY <2>7, <2>9, <3>1
    <3>3. sem_wait'[i] \in Waiting("semaphore") \ {p}
      BY <2>6, <2>7 DEF Range
    <3>4. wait[sem_wait[i]].arg > available /\ wait'[sem_wait'[i]] = wait[sem_wait[i]]
      BY <2>1, <2>6, <2>9, <3>1, <3>2, <3>3 DEF SemaphoreOK
    <3>5. wait[sem_wait[i]].arg \in Nat
      <4>1. sem_wait[i] \in Proc
        BY <3>2, <3>3 DEF Waiting
      <4> QED
        BY <4>1 DEF Types, WaitType
    <3> QED
      BY ONLY <2>4, <2>5, <3>4, <3>5, SMTT(60)
  <2> QED
    BY <2>1, <2>5, <2>7, <2>8, <2>9 DEF SemaphoreOK
\* The scan ends: no request fits.
<1>SemaphoreEnds.
    ASSUME SemaphoreOK, work.loop = "semaphore", Scanned, UNCHANGED <<wait, sem_wait, available>>,
           work'.loop = "none"
    PROVE  SemaphoreOK'
  <2> USE <1>SemaphoreEnds
  <2>1. PICK n \in Nat \ {0} : n = work.scan
    BY DEF SemaphoreOK
  <2>2. ASSUME NEW p \in Waiting("semaphore") PROVE wait[p].arg > available
    <3>1. CASE available = 0
      BY <3>1 DEF SemaphoreOK
    <3>2. CASE n > Len(sem_wait)
      <4>1. PICK i \in DOMAIN sem_wait : sem_wait[i] = p
        BY DEF SemaphoreOK, Range
      <4>2. i < n
        BY <3>2, <4>1, SMTT(60) DEF SemaphoreOK
      <4> QED
        BY <2>1, <4>1, <4>2 DEF SemaphoreOK
    <3> QED
      BY <2>1, <3>1, <3>2 DEF Scanned
  <2>3. Waiting("semaphore")' = Waiting("semaphore") /\ "none" # "semaphore"
    BY DEF Waiting
  <2> QED
    BY <2>2, <2>3 DEF SemaphoreOK
<1>1. /\ work.loop = "semaphore" /\ UNCHANGED <<current, life, ran, suspended, groups>>
      /\ UNCHANGED <<messages, get_wait, put_wait, sent, taken>> /\ delivery' = delivery /\ calls' = calls
  BY DEF SemaphoreStep, SemaphoreEnd, boxVars
<1>2. work.loop # "kill" /\ work.loop # "mailbox" /\ delivery' \in [Proc -> SUBSET Nat]
  BY <1>1, Loops DEF Data, MailboxOK
<1>3. /\ work \in WorkType /\ work.victims = <<>> /\ work.entered = {} /\ work.notify = {}
      /\ work.closing = 0
  BY <1>2 DEF Core, Types, KillsOK
<1>4. CASE SemaphoreEnd
  <2>1. work' = Idle /\ UNCHANGED <<waitVars, available, sem_wait>> /\ wait' = wait /\ Scanned
    BY <1>4 DEF SemaphoreEnd, semVars, waitVars
  <2>2. UNCHANGED <<current, life, ran, suspended, groups, waitVars>>
    BY <1>1, <2>1
  <2>3. Core' /\ SemaphoreOK'
    BY <1>1, <1>2, <2>1, <2>2, IdleFields, Loops, CalmStep, <1>SemaphoreEnds DEF Data
  <2> QED
    BY <1>1, <1>2, <2>1, <2>3, SameOthers, MailboxKept DEF Data
<1>5. CASE /\ work.scan <= Len(sem_wait) /\ Skips(sem_wait[work.scan])
           /\ work' = [work EXCEPT !.scan = work.scan + 1] /\ UNCHANGED <<waitVars, semVars>>
  <2>1. UNCHANGED <<current, life, ran, suspended, groups, waitVars>> /\ wait' = wait
        /\ UNCHANGED <<available, sem_wait>>
    BY <1>1, <1>5 DEF semVars, waitVars
  <2>2. /\ work' \in WorkType /\ work'.loop = "semaphore" /\ work'.scan = work.scan + 1
        /\ work'.victims = <<>> /\ work'.entered = {} /\ work'.notify = {} /\ work'.closing = 0
    BY <1>1, <1>3, <1>5, SMTT(60) DEF WorkType
  <2>3. Core' /\ SemaphoreOK'
    BY <1>1, <1>2, <1>5, <2>1, <2>2, Loops, CalmStep, <1>SemaphoreSkips DEF Data
  <2> QED
    BY <1>1, <1>2, <2>1, <2>3, SameOthers, MailboxKept DEF Data
<1>6. CASE /\ work.scan <= Len(sem_wait) /\ ~Skips(sem_wait[work.scan]) /\ work' = work
           /\ available' = available - wait[sem_wait[work.scan]].arg
           /\ sem_wait' = RemoveAt(sem_wait, work.scan) /\ Release(<<sem_wait[work.scan]>>, {}, queue)
  <2> PICK p : p = sem_wait[work.scan]
    OBVIOUS
  <2>1. p \in Range(sem_wait)
    BY <1>1, <1>6, SMTT(60) DEF Data, SemaphoreOK, Range
  <2>2. p \in Proc /\ wait[p].kind = "semaphore"
    BY <2>1 DEF Data, SemaphoreOK, Waiting
  <2>3. /\ "semaphore" # "none" /\ "semaphore" # "mailbox_get" /\ "semaphore" # "mailbox_put"
        /\ "none" # "mailbox_get" /\ "none" # "mailbox_put"
    OBVIOUS
  <2>4. Core' /\ Others({p}) /\ wait'[p].kind = "none"
    BY <1>1, <1>6, <2>2, <2>3, ServeStep
  <2>5. SemaphoreOK'
    BY <1>1, <1>6, <2>4, <1>SemaphoreServes DEF Core, Data
  <2>6. \A x \in {p} : /\ wait[x].kind # "mailbox_get" /\ wait'[x].kind # "mailbox_get"
                       /\ wait[x].kind # "mailbox_put" /\ wait'[x].kind # "mailbox_put"
    BY <2>2, <2>3, <2>4
  <2> QED
    BY <1>1, <1>2, <2>4, <2>5, <2>6, MailboxKept DEF Data
<1> QED
  BY <1>4, <1>5, <1>6 DEF SemaphoreStep

\* llg_arm_mailbox_put_value and llg_arm_mailbox_get_value.
LEMMA MailboxCallsKeep ==
  ASSUME Counting, Core, Data, NEW caller \in Proc, MailboxPut(caller) \/ \E peek \in {0, 1} : MailboxGet(caller, peek)
  PROVE  Core' /\ Data'
\* llg_arm_mailbox_put_value with room: the message goes behind the others.  No sender
\* waits, for there is room.
<1>MailboxPuts.
    ASSUME MailboxOK, FifoOK, ~Full, work.loop # "mailbox", work'.loop = "mailbox",
           sent' = sent + 1, messages' = Append(messages, sent + 1),
           UNCHANGED <<wait, get_wait, put_wait, delivery, taken>>
    PROVE  MailboxOK' /\ FifoOK'
  <2> USE <1>MailboxPuts
  <2>1. /\ Len(messages) \in Nat /\ DOMAIN messages = 1..Len(messages)
        /\ \A i \in DOMAIN messages : messages[i] \in Nat
        /\ sent \in Nat /\ taken \in Nat /\ Capacity \in Nat
    BY MessageFields
  <2>2. put_wait = <<>> /\ Waiting("mailbox_put") = {}
    BY NoneSet DEF MailboxOK
  <2>3. Waiting("mailbox_put")' = Waiting("mailbox_put") /\ Waiting("mailbox_get")' = Waiting("mailbox_get")
    BY DEF Waiting
  <2>4. /\ messages' \in Seq(Nat) /\ Len(messages') = Len(messages) + 1
        /\ DOMAIN messages' = 1..Len(messages) + 1 /\ sent' \in Nat
        /\ \A i \in 1..Len(messages) : messages'[i] = messages[i]
        /\ messages'[Len(messages) + 1] = sent + 1
    BY <2>1, SMTT(60) DEF MailboxOK
  <2>5. Capacity # 0 => Len(messages') <= Capacity
    BY <2>1, <2>4, SMTT(60) DEF Full
  <2>6. MailboxOK'
    BY <2>3, <2>4, <2>5 DEF MailboxOK
  <2>7. FifoOK'
    <3>1. \A i \in DOMAIN messages : taken < messages[i] /\ messages[i] <= sent
      BY DEF FifoOK
    <3>2. \A i, j \in DOMAIN messages : i < j => messages[i] < messages[j]
      BY DEF FifoOK
    <3>3. taken <= sent /\ taken <= sent + 1 /\ taken < sent + 1
      BY <2>1, SMTT(60) DEF FifoOK
    <3>4. ASSUME NEW i \in DOMAIN messages' PROVE taken < messages'[i] /\ messages'[i] <= sent + 1
      BY ONLY <2>1, <2>4, <3>1, <3>3, SMTT(60)
    <3>5. ASSUME NEW i \in DOMAIN messages', NEW j \in DOMAIN messages', i < j
          PROVE  messages'[i] < messages'[j]
      BY <2>1, <2>4, <3>1, <3>2, <3>5, SMTT(60)
    <3>6. DOMAIN put_wait = {}
      BY <2>2, SMTT(60)
    <3> QED
      BY <2>2, <2>3, <3>3, <3>4, <3>5, <3>6 DEF FifoOK
  <2> QED
    BY <2>6, <2>7
\* llg_arm_mailbox_put_value without room: the sender joins its queue with its message.
<1>MailboxPutBlocks.
    ASSUME MailboxOK, FifoOK, Types, Full, work.loop # "mailbox", work' = work,
           sent' = sent + 1, NEW p \in Proc, wait[p].kind = "none", Others({p}),
           wait'[p].kind = "mailbox_put", wait'[p].arg = sent + 1, put_wait' = Queued(put_wait, p),
           UNCHANGED <<messages, get_wait, delivery, taken>>
    PROVE  MailboxOK' /\ FifoOK'
  <2> USE <1>MailboxPutBlocks
  <2>1. /\ Len(messages) \in Nat /\ DOMAIN messages = 1..Len(messages)
        /\ \A i \in DOMAIN messages : messages[i] \in Nat
        /\ sent \in Nat /\ taken \in Nat /\ Capacity \in Nat
    BY MessageFields
  <2>2. /\ Waiting("mailbox_put")' = Waiting("mailbox_put") \cup {p} /\ p \notin Waiting("mailbox_put")
        /\ \A q \in Waiting("mailbox_put") : wait'[q] = wait[q]
        /\ Waiting("mailbox_get")' = Waiting("mailbox_get")
    <3>1. /\ "mailbox_get" \in DataKinds /\ "mailbox_put" \in DataKinds
          /\ "none" # "mailbox_put" /\ "none" # "mailbox_get" /\ "mailbox_get" # "mailbox_put"
      BY DEF DataKinds
    <3> QED
      BY <3>1 DEF Others, Waiting
  <2>3. put_wait \in Seq(Proc) /\ IsInjective(put_wait) /\ Range(put_wait) = Waiting("mailbox_put")
        /\ put_wait' = Append(put_wait, p)
    BY DEF MailboxOK, Queued
  <2>4. /\ put_wait' \in Seq(Proc) /\ IsInjective(put_wait') /\ Range(put_wait') = Range(put_wait) \cup {p}
    BY ONLY <2>2, <2>3, AppendSet, SMTT(60)
  <2>5. MailboxOK'
    <3>1. sent' \in Nat
      BY <2>1, SMTT(60)
    <3> QED
      BY <2>2, <2>3, <2>4, <3>1 DEF MailboxOK, Full
  <2>6. \A i \in DOMAIN messages : taken < messages[i] /\ messages[i] <= sent
    BY DEF FifoOK
  <2>7. taken <= sent + 1 /\ taken < sent + 1 /\ sent + 1 <= sent + 1
    BY <2>1, SMTT(60) DEF FifoOK
  <2>8. \A i \in DOMAIN messages : messages[i] <= sent + 1 /\ messages[i] < sent + 1
    BY <2>1, <2>6, SMTT(60)
  <2>9. ASSUME NEW q \in Waiting("mailbox_put") PROVE wait[q].arg \in Nat /\ wait[q].arg <= sent
    <3>1. wait[q].arg \in Nat
      BY DEF Waiting, Types, WaitType
    <3> QED
      BY <3>1 DEF FifoOK
  <2>10. FifoOK'
    <3>1. ASSUME NEW q \in Waiting("mailbox_put")'
          PROVE  /\ taken < wait'[q].arg /\ wait'[q].arg <= sent + 1
                 /\ \A j \in DOMAIN messages : messages[j] < wait'[q].arg
      <4>1. CASE q = p
        BY <2>7, <2>8, <4>1
      <4>2. CASE q # p
        <5>1. q \in Waiting("mailbox_put") /\ wait'[q] = wait[q]
          BY <2>2, <4>2
        <5>2. wait[q].arg <= sent + 1
          BY ONLY <2>1, <2>9, <5>1, SMTT(60)
        <5> QED
          BY <5>1, <5>2 DEF FifoOK
      <4> QED
        BY <4>1, <4>2
    <3>2. ASSUME NEW i \in DOMAIN put_wait', NEW j \in DOMAIN put_wait', i < j
          PROVE  wait'[put_wait'[i]].arg < wait'[put_wait'[j]].arg
      <4>1. /\ Len(put_wait) \in Nat /\ DOMAIN put_wait = 1..Len(put_wait)
            /\ DOMAIN put_wait' = 1..Len(put_wait) + 1
            /\ \A m \in 1..Len(put_wait) : put_wait'[m] = put_wait[m]
            /\ put_wait'[Len(put_wait) + 1] = p
        BY <2>3, SMTT(60)
      <4>2. i \in DOMAIN put_wait /\ (j \in DOMAIN put_wait \/ j = Len(put_wait) + 1)
        BY <3>2, <4>1, SMTT(60)
      <4>3. \A m \in DOMAIN put_wait : put_wait[m] \in Waiting("mailbox_put")
        BY <2>3 DEF Range
      <4>4. wait'[put_wait'[i]] = wait[put_wait[i]]
        BY <2>2, <4>1, <4>2, <4>3
      <4>5. CASE j \in DOMAIN put_wait
        <5>1. wait'[put_wait'[j]] = wait[put_wait[j]]
          BY <2>2, <4>1, <4>3, <4>5
        <5> QED
          BY <3>2, <4>2, <4>4, <4>5, <5>1 DEF FifoOK
      <4>6. CASE j = Len(put_wait) + 1
        <5>1. wait[put_wait[i]].arg < sent + 1
          BY ONLY <2>1, <2>9, <4>2, <4>3, SMTT(60)
        <5> QED
          BY <4>1, <4>4, <4>6, <5>1
      <4> QED
        BY <4>2, <4>5, <4>6
    <3> QED
      BY <2>6, <2>7, <2>8, <3>1, <3>2 DEF FifoOK
  <2> QED
    BY <2>5, <2>10
\* llg_arm_mailbox_get_value with a message.
<1>MailboxGets.
    ASSUME MailboxOK, FifoOK, Types, messages # <<>>, NEW peek, Takes(peek), work'.loop = "mailbox",
           UNCHANGED <<wait, get_wait, put_wait, delivery, sent>>
    PROVE  MailboxOK' /\ FifoOK'
  <2> USE <1>MailboxGets
  <2>1. /\ messages' \in Seq(Nat) /\ taken' \in Nat /\ taken' <= sent
        /\ Capacity # 0 => Len(messages') <= Capacity
        /\ \A i \in DOMAIN messages' : taken' < messages'[i] /\ messages'[i] <= sent
        /\ \A i, j \in DOMAIN messages' : i < j => messages'[i] < messages'[j]
        /\ \A p \in Waiting("mailbox_put") :
             /\ taken' < wait[p].arg
             /\ \A j \in DOMAIN messages' : messages'[j] < wait[p].arg
    BY TakenFirst
  <2>2. Waiting("mailbox_put")' = Waiting("mailbox_put") /\ Waiting("mailbox_get")' = Waiting("mailbox_get")
    BY DEF Waiting
  <2>3. MailboxOK'
    BY <2>1, <2>2 DEF MailboxOK
  <2>4. FifoOK'
    BY <2>1, <2>2 DEF FifoOK
  <2> QED
    BY <2>3, <2>4
\* llg_arm_mailbox_get_value without a message: the receiver joins its queue.
<1>MailboxGetBlocks.
    ASSUME MailboxOK, FifoOK, messages = <<>>, work' = work, NEW p \in Proc, wait[p].kind = "none",
           Others({p}), wait'[p].kind = "mailbox_get", get_wait' = Queued(get_wait, p),
           UNCHANGED <<messages, put_wait, delivery, sent, taken>>
    PROVE  MailboxOK' /\ FifoOK'
  <2> USE <1>MailboxGetBlocks
  <2>1. /\ Waiting("mailbox_get")' = Waiting("mailbox_get") \cup {p} /\ p \notin Waiting("mailbox_get")
        /\ \A q \in Waiting("mailbox_put") : wait'[q] = wait[q]
        /\ Waiting("mailbox_put")' = Waiting("mailbox_put")
    <3>1. /\ "mailbox_get" \in DataKinds /\ "mailbox_put" \in DataKinds
          /\ "none" # "mailbox_put" /\ "none" # "mailbox_get" /\ "mailbox_get" # "mailbox_put"
      BY DEF DataKinds
    <3> QED
      BY <3>1 DEF Others, Waiting
  <2>2. get_wait \in Seq(Proc) /\ IsInjective(get_wait) /\ Range(get_wait) = Waiting("mailbox_get")
        /\ get_wait' = Append(get_wait, p)
    BY DEF MailboxOK, Queued
  <2>3. /\ get_wait' \in Seq(Proc) /\ IsInjective(get_wait') /\ Range(get_wait') = Range(get_wait) \cup {p}
    BY ONLY <2>1, <2>2, AppendSet, SMTT(60)
  <2>4. MailboxOK'
    BY <2>1, <2>2, <2>3 DEF MailboxOK, Full
  <2>5. FifoOK'
    <3>1. \A i \in DOMAIN put_wait : put_wait[i] \in Waiting("mailbox_put")
      BY DEF MailboxOK, Range
    <3>2. \A q \in Waiting("mailbox_put")' :
            /\ taken < wait'[q].arg /\ wait'[q].arg <= sent
            /\ \A j \in DOMAIN messages : messages[j] < wait'[q].arg
      BY <2>1 DEF FifoOK
    <3>3. \A i, j \in DOMAIN put_wait : i < j => wait'[put_wait[i]].arg < wait'[put_wait[j]].arg
      BY <2>1, <3>1 DEF FifoOK
    <3> QED
      BY <3>2, <3>3 DEF FifoOK
  <2> QED
    BY <2>4, <2>5
<1>1. /\ Calls(caller) /\ UNCHANGED <<available, sem_wait>> /\ delivery' = delivery
      /\ life' = life /\ ran' = ran /\ suspended' = suspended
  BY DEF MailboxPut, MailboxGet, semVars
<1>2. /\ work = Idle /\ work.loop = "none" /\ calls' \in 0..MaxCalls /\ wait[caller].kind = "none"
  BY <1>1, CallFields
<1>3. work.loop # "kill" /\ work.loop # "mailbox" /\ work.loop # "semaphore"
  BY <1>2, Loops
<1>4. /\ "mailbox_put" \in DataKinds /\ "mailbox_get" \in DataKinds
      /\ "mailbox_put" # "semaphore" /\ "mailbox_get" # "semaphore" /\ "none" # "semaphore"
  BY DEF DataKinds
<1>5. ASSUME work' = BoxLoop, UNCHANGED <<current, groups, waitVars>> PROVE Core' /\ SemaphoreOK'
  <2>1. UNCHANGED <<current, life, ran, suspended, groups, waitVars>> /\ wait' = wait
    BY <1>1, <1>5 DEF waitVars
  <2>2. Core'
    BY <1>3, <1>5, <2>1, Loops, CalmStep
  <2>3. work'.loop # "semaphore"
    BY <1>5, Loops
  <2> QED
    BY <1>1, <1>3, <2>1, <2>2, <2>3, SameOthers, SemaphoreKept DEF Data
<1>6. ASSUME NEW kind \in {"mailbox_get", "mailbox_put"}, NEW n \in Nat, work' = work,
             Blocks(caller, Wait(kind, n, {}), queue, groups)
      PROVE  Core' /\ SemaphoreOK' /\ Others({caller}) /\ wait'[caller].kind = kind /\ wait'[caller].arg = n
  <2>1. kind \in DataKinds /\ kind # "semaphore"
    BY <1>4
  <2>2. Core' /\ Others({caller}) /\ wait'[caller].kind = kind /\ wait'[caller].arg = n
    BY <1>1, <1>6, <2>1, QueueStep
  <2>3. \A x \in {caller} : wait[x].kind # "semaphore" /\ wait'[x].kind # "semaphore"
    BY <1>2, <1>4, <2>1, <2>2
  <2>4. SemaphoreOK'
    BY <1>1, <1>3, <1>6, <2>2, <2>3, SemaphoreKept DEF Data
  <2> QED
    BY <2>2, <2>4
<1>7. CASE MailboxPut(caller) /\ ~Full
  <2>1. /\ messages' = Append(messages, sent + 1) /\ sent' = sent + 1 /\ work' = BoxLoop
        /\ UNCHANGED <<current, groups, waitVars>> /\ UNCHANGED <<wait, get_wait, put_wait, delivery, taken>>
    BY <1>7 DEF MailboxPut, waitVars
  <2>2. work'.loop = "mailbox"
    BY <2>1, Loops
  <2> QED
    BY <1>2, <1>3, <1>5, <1>7, <2>1, <2>2, <1>MailboxPuts DEF Data
<1>8. CASE MailboxPut(caller) /\ Full
  <2>1. /\ put_wait' = Queued(put_wait, caller) /\ Blocks(caller, Wait("mailbox_put", sent', {}), queue, groups)
        /\ sent' = sent + 1 /\ work' = work /\ UNCHANGED <<messages, get_wait, delivery, taken>>
    BY <1>8 DEF MailboxPut
  <2>2. sent' \in Nat
    BY <2>1, SMTT(60) DEF Data, MailboxOK
  <2>3. Core' /\ SemaphoreOK' /\ Others({caller}) /\ wait'[caller].kind = "mailbox_put" /\ wait'[caller].arg = sent + 1
    BY <1>6, <2>1, <2>2
  <2> QED
    BY <1>2, <1>3, <1>8, <2>1, <2>3, <1>MailboxPutBlocks DEF Core, Data
<1>9. ASSUME NEW peek \in {0, 1}, MailboxGet(caller, peek), messages # <<>> PROVE Core' /\ Data'
  <2>1. /\ Takes(peek) /\ work' = BoxLoop
        /\ UNCHANGED <<current, groups, waitVars>> /\ UNCHANGED <<wait, get_wait, put_wait, delivery, sent>>
    BY <1>9 DEF MailboxGet, waitVars
  <2>2. work'.loop = "mailbox"
    BY <2>1, Loops
  <2> QED
    BY <1>2, <1>5, <1>9, <2>1, <2>2, <1>MailboxGets DEF Core, Data
<1>10. ASSUME NEW peek \in {0, 1}, MailboxGet(caller, peek), messages = <<>> PROVE Core' /\ Data'
  <2>1. /\ get_wait' = Queued(get_wait, caller) /\ Blocks(caller, Wait("mailbox_get", peek, {}), queue, groups)
        /\ work' = work /\ UNCHANGED <<messages, put_wait, delivery, sent, taken>>
    BY <1>10 DEF MailboxGet
  <2>2. peek \in Nat
    BY SMTT(60)
  <2>3. Core' /\ SemaphoreOK' /\ Others({caller}) /\ wait'[caller].kind = "mailbox_get"
    BY <1>6, <2>1, <2>2
  <2> QED
    BY <1>2, <1>10, <2>1, <2>3, <1>MailboxGetBlocks DEF Data
<1> QED
  BY <1>7, <1>8, <1>9, <1>10

\* mailbox_service_waiters.
LEMMA MailboxLoopKeeps ==
  ASSUME Counting, Core, Data, Deliver \/ Accept \/ MailboxEnd
  PROVE  Core' /\ Data'
\* mailbox_service_waiters hands a message to the receiver that waited longest.
<1>MailboxDelivers.
    ASSUME MailboxOK, FifoOK, Types, messages # <<>>, get_wait # <<>>, NEW p, p = Head(get_wait),
           Takes(wait[p].arg), delivery' = [delivery EXCEPT ![p] = {Head(messages)}],
           get_wait' = Tail(get_wait), Others({p}), wait'[p].kind = "none",
           work.loop = "mailbox", work' = work, UNCHANGED <<put_wait, sent>>
    PROVE  MailboxOK' /\ FifoOK'
  <2> USE <1>MailboxDelivers
  <2>1. /\ messages' \in Seq(Nat) /\ taken' \in Nat /\ taken' <= sent
        /\ Capacity # 0 => Len(messages') <= Capacity
        /\ \A i \in DOMAIN messages' : taken' < messages'[i] /\ messages'[i] <= sent
        /\ \A i, j \in DOMAIN messages' : i < j => messages'[i] < messages'[j]
        /\ \A q \in Waiting("mailbox_put") :
             /\ taken' < wait[q].arg
             /\ \A j \in DOMAIN messages' : messages'[j] < wait[q].arg
    BY TakenFirst
  <2>2. Rest(get_wait', get_wait, p) /\ p \in Range(get_wait)
    BY RestTail DEF MailboxOK
  <2>3. /\ Waiting("mailbox_get")' = Waiting("mailbox_get") \ {p}
        /\ \A q \in Waiting("mailbox_put") : wait'[q] = wait[q]
        /\ Waiting("mailbox_put")' = Waiting("mailbox_put")
    <3>1. /\ "mailbox_get" \in DataKinds /\ "mailbox_put" \in DataKinds
          /\ "none" # "mailbox_put" /\ "none" # "mailbox_get" /\ "mailbox_get" # "mailbox_put"
      BY DEF DataKinds
    <3>2. wait[p].kind = "mailbox_get"
      BY <2>2 DEF MailboxOK, Waiting
    <3> QED
      BY <3>1, <3>2 DEF Others, Waiting
  <2>4. MailboxOK'
    <3>1. delivery' \in [Proc -> SUBSET Nat]
      <4>1. Head(messages) \in Nat /\ delivery \in [Proc -> SUBSET Nat]
        BY SMTT(60) DEF MailboxOK
      <4> QED
        BY <4>1
    <3> QED
      BY <2>1, <2>2, <2>3, <3>1 DEF MailboxOK, Rest
  <2>5. FifoOK'
    <3>1. \A i \in DOMAIN put_wait : put_wait[i] \in Waiting("mailbox_put")
      BY DEF MailboxOK, Range
    <3>2. \A q \in Waiting("mailbox_put")' :
            /\ taken' < wait'[q].arg /\ wait'[q].arg <= sent
            /\ \A j \in DOMAIN messages' : messages'[j] < wait'[q].arg
      BY <2>1, <2>3 DEF FifoOK
    <3>3. \A i, j \in DOMAIN put_wait : i < j => wait'[put_wait[i]].arg < wait'[put_wait[j]].arg
      BY <2>3, <3>1 DEF FifoOK
    <3> QED
      BY <2>1, <3>2, <3>3 DEF FifoOK
  <2> QED
    BY <2>4, <2>5
\* mailbox_service_waiters lets the sender that waited longest put its message.
<1>MailboxAccepts.
    ASSUME MailboxOK, FifoOK, Types, ~Full, put_wait # <<>>, NEW p, p = Head(put_wait),
           messages' = Append(messages, wait[p].arg), put_wait' = Tail(put_wait),
           Others({p}), wait'[p].kind = "none",
           work.loop = "mailbox", work' = work, UNCHANGED <<get_wait, delivery, sent, taken>>
    PROVE  MailboxOK' /\ FifoOK'
  <2> USE <1>MailboxAccepts
  <2>1. /\ Len(messages) \in Nat /\ DOMAIN messages = 1..Len(messages)
        /\ \A i \in DOMAIN messages : messages[i] \in Nat
        /\ sent \in Nat /\ taken \in Nat /\ Capacity \in Nat
    BY MessageFields
  <2>2. Rest(put_wait', put_wait, p) /\ p \in Range(put_wait) /\ p \in Proc
    BY RestTail DEF MailboxOK
  <2>3. p \in Waiting("mailbox_put")
    BY <2>2 DEF MailboxOK
  <2>4. PICK a \in Nat : a = wait[p].arg
    BY <2>2 DEF Types, WaitType
  <2>5. /\ Waiting("mailbox_put")' = Waiting("mailbox_put") \ {p}
        /\ \A q \in Waiting("mailbox_put") \ {p} : wait'[q] = wait[q]
        /\ Waiting("mailbox_get")' = Waiting("mailbox_get")
    <3>1. /\ "mailbox_get" \in DataKinds /\ "mailbox_put" \in DataKinds
          /\ "none" # "mailbox_put" /\ "none" # "mailbox_get" /\ "mailbox_get" # "mailbox_put"
      BY DEF DataKinds
    <3>2. wait[p].kind = "mailbox_put"
      BY <2>3 DEF Waiting
    <3> QED
      BY <3>1, <3>2 DEF Others, Waiting
  <2>6. /\ messages' \in Seq(Nat) /\ Len(messages') = Len(messages) + 1
        /\ DOMAIN messages' = 1..Len(messages) + 1
        /\ \A i \in 1..Len(messages) : messages'[i] = messages[i]
        /\ messages'[Len(messages) + 1] = a
    BY <2>1, <2>4, SMTT(60) DEF MailboxOK
  <2>7. MailboxOK'
    <3>1. Capacity # 0 => Len(messages') <= Capacity
      BY <2>1, <2>6, SMTT(60) DEF Full
    <3> QED
      BY <2>2, <2>5, <2>6, <3>1 DEF MailboxOK, Rest
  <2>8. /\ \A i \in DOMAIN messages : taken < messages[i] /\ messages[i] <= sent /\ messages[i] < a
        /\ \A i, j \in DOMAIN messages : i < j => messages[i] < messages[j]
        /\ taken < a /\ a <= sent
    BY <2>3, <2>4 DEF FifoOK
  <2>9. ASSUME NEW q \in Waiting("mailbox_put") \ {p} PROVE a < wait[q].arg
    <3>1. PICK i \in DOMAIN put_wait : put_wait[i] = q
      BY DEF MailboxOK, Range
    <3>2. 1 \in DOMAIN put_wait /\ put_wait[1] = p
      BY SMTT(60) DEF MailboxOK
    <3>3. 1 < i
      BY <3>1, <3>2, SMTT(60) DEF MailboxOK
    <3> QED
      BY <2>4, <3>1, <3>2, <3>3 DEF FifoOK
  <2>10. FifoOK'
    <3>1. ASSUME NEW i \in DOMAIN messages' PROVE taken < messages'[i] /\ messages'[i] <= sent
      BY ONLY <2>1, <2>6, <2>8, SMTT(60)
    <3>2. ASSUME NEW i \in DOMAIN messages', NEW j \in DOMAIN messages', i < j
          PROVE  messages'[i] < messages'[j]
      BY <2>1, <2>6, <2>8, <3>2, SMTT(60)
    <3>3. ASSUME NEW q \in Waiting("mailbox_put")'
          PROVE  /\ taken < wait'[q].arg /\ wait'[q].arg <= sent
                 /\ \A j \in DOMAIN messages' : messages'[j] < wait'[q].arg
      <4>1. q \in Waiting("mailbox_put") \ {p} /\ wait'[q] = wait[q] /\ a < wait[q].arg
        BY <2>5, <2>9
      <4>2. /\ taken < wait[q].arg /\ wait[q].arg <= sent
            /\ \A j \in DOMAIN messages : messages[j] < wait[q].arg
        BY <4>1 DEF FifoOK
      <4>3. \A j \in DOMAIN messages' : j \in DOMAIN messages \/ j = Len(messages) + 1
        BY <2>1, <2>6, SMTT(60)
      <4>4. \A j \in DOMAIN messages' : messages'[j] < wait[q].arg
        BY <2>1, <2>6, <4>1, <4>2, <4>3
      <4> QED
        BY <4>1, <4>2, <4>4
    <3>4. ASSUME NEW i \in DOMAIN put_wait', NEW j \in DOMAIN put_wait', i < j
          PROVE  wait'[put_wait'[i]].arg < wait'[put_wait'[j]].arg
      <4>1. PICK b \in DOMAIN put_wait, c \in DOMAIN put_wait :
              b < c /\ put_wait'[i] = put_wait[b] /\ put_wait'[j] = put_wait[c]
        BY <2>2, <3>4 DEF Rest
      <4>2. put_wait'[i] \in Waiting("mailbox_put") \ {p} /\ put_wait'[j] \in Waiting("mailbox_put") \ {p}
        BY <2>2 DEF MailboxOK, Rest, Range
      <4>3. wait'[put_wait'[i]] = wait[put_wait[b]] /\ wait'[put_wait'[j]] = wait[put_wait[c]]
        BY <2>5, <4>1, <4>2
      <4> QED
        BY <4>1, <4>3 DEF FifoOK
    <3>5. taken <= sent
      BY DEF FifoOK
    <3> QED
      BY <3>1, <3>2, <3>3, <3>4, <3>5 DEF FifoOK
  <2> QED
    BY <2>7, <2>10
\* The loop of the mailbox ends: nothing can be received or put.
<1>MailboxEnds.
    ASSUME MailboxOK, FifoOK, messages = <<>> \/ get_wait = <<>>, put_wait = <<>> \/ Full,
           UNCHANGED <<wait, messages, get_wait, put_wait, delivery, sent, taken>>
    PROVE  MailboxOK' /\ FifoOK'
  <2> USE <1>MailboxEnds
  <2>1. Waiting("mailbox_put")' = Waiting("mailbox_put") /\ Waiting("mailbox_get")' = Waiting("mailbox_get")
    BY DEF Waiting
  <2>2. MailboxOK'
    BY <2>1 DEF MailboxOK, Full
  <2>3. FifoOK'
    BY <2>1 DEF FifoOK
  <2> QED
    BY <2>2, <2>3
<1>1. /\ work.loop = "mailbox" /\ UNCHANGED <<current, life, ran, suspended, groups>>
      /\ UNCHANGED <<available, sem_wait>> /\ calls' = calls
  BY DEF Deliver, Accept, MailboxEnd, semVars
<1>2. work.loop # "kill" /\ work.loop # "semaphore"
  BY <1>1, Loops
<1>3. /\ "mailbox_put" # "semaphore" /\ "mailbox_get" # "semaphore" /\ "none" # "semaphore"
      /\ "mailbox_put" # "none" /\ "mailbox_get" # "none"
  OBVIOUS
<1>4. ASSUME NEW p \in Proc, wait[p].kind \in {"mailbox_put", "mailbox_get"}, Release(<<p>>, {}, queue),
             work' = work
      PROVE  Core' /\ SemaphoreOK' /\ Others({p}) /\ wait'[p].kind = "none"
  <2>1. wait[p].kind # "none" /\ wait[p].kind # "semaphore"
    BY <1>4
  <2>2. Core' /\ Others({p}) /\ wait'[p].kind = "none"
    BY <1>1, <1>4, <2>1, ServeStep
  <2>3. \A x \in {p} : wait[x].kind # "semaphore" /\ wait'[x].kind # "semaphore"
    BY <1>3, <2>1, <2>2
  <2> QED
    BY <1>1, <1>2, <1>4, <2>2, <2>3, SemaphoreKept DEF Data
<1>5. CASE Deliver
  <2> PICK p : p = Head(get_wait)
    OBVIOUS
  <2>1. /\ messages # <<>> /\ get_wait # <<>> /\ Takes(wait[p].arg)
        /\ delivery' = [delivery EXCEPT ![p] = {Head(messages)}] /\ get_wait' = Tail(get_wait)
        /\ Release(<<p>>, {}, queue) /\ UNCHANGED <<put_wait, sent>> /\ work' = work
    BY <1>5 DEF Deliver
  <2>2. p \in Range(get_wait)
    BY <2>1, RestTail DEF Data, MailboxOK
  <2>3. p \in Proc /\ wait[p].kind \in {"mailbox_put", "mailbox_get"}
    BY <2>2 DEF Data, MailboxOK, Waiting
  <2>4. Core' /\ SemaphoreOK' /\ Others({p}) /\ wait'[p].kind = "none"
    BY <1>4, <2>1, <2>3
  <2> QED
    BY <1>1, <2>1, <2>4, <1>MailboxDelivers DEF Core, Data
<1>6. CASE Accept
  <2> PICK p : p = Head(put_wait)
    OBVIOUS
  <2>1. /\ put_wait # <<>> /\ ~Full /\ messages' = Append(messages, wait[p].arg)
        /\ put_wait' = Tail(put_wait) /\ Release(<<p>>, {}, queue)
        /\ UNCHANGED <<get_wait, delivery, sent, taken>> /\ work' = work
    BY <1>6 DEF Accept
  <2>2. p \in Range(put_wait)
    BY <2>1, RestTail DEF Data, MailboxOK
  <2>3. p \in Proc /\ wait[p].kind \in {"mailbox_put", "mailbox_get"}
    BY <2>2 DEF Data, MailboxOK, Waiting
  <2>4. Core' /\ SemaphoreOK' /\ Others({p}) /\ wait'[p].kind = "none"
    BY <1>4, <2>1, <2>3
  <2> QED
    BY <1>1, <2>1, <2>4, <1>MailboxAccepts DEF Core, Data
<1>7. CASE MailboxEnd
  <2>1. /\ messages = <<>> \/ get_wait = <<>>
        /\ put_wait = <<>> \/ Full
        /\ work' = Idle /\ UNCHANGED <<current, life, ran, suspended, groups, waitVars>>
        /\ UNCHANGED <<wait, messages, get_wait, put_wait, delivery, sent, taken>>
    BY <1>7 DEF MailboxEnd, waitVars, boxVars
  <2>2. Core'
    BY <1>2, <2>1, IdleFields, Loops, CalmStep
  <2>3. wait' = wait /\ work'.loop # "semaphore"
    BY <2>1, IdleFields, Loops
  <2>4. SemaphoreOK'
    BY <1>1, <1>2, <2>3, SameOthers, SemaphoreKept DEF Data
  <2> QED
    BY <1>1, <2>1, <2>2, <2>4, <1>MailboxEnds DEF Data
<1> QED
  BY <1>5, <1>6, <1>7

--------------------------------------------------------------------------------
\* The invariant is inductive.

\* The first processes are queued and nothing else has happened.
LEMMA InitIInv ==
  ASSUME Counting, Init
  PROVE  IInv
<1>1. /\ <<>> \in Seq(Proc) /\ Range(<<>>) = {} /\ IsInjective(<<>>) /\ <<>> \in Seq(Nat)
      /\ <<>> \in Seq(GroupType) /\ DOMAIN <<>> = {} /\ Len(<<>>) = 0
  BY SMTT(60) DEF Range, IsInjective
<1>2. /\ NoWait \in WaitType /\ NoWait.kind = "none" /\ NoWait.target = {}
      /\ Idle \in WorkType /\ Idle.loop = "none" /\ Idle.victims = <<>> /\ Idle.entered = {}
      /\ Idle.notify = {} /\ Idle.closing = 0
  BY NoWaitFields, IdleFields
<1>3. /\ \A p \in Proc : wait[p] = NoWait
      /\ \A p \in Range(Roots) : life[p] = "live"
      /\ \A p \in Proc \ Range(Roots) : life[p] = "unborn"
      /\ Range(Roots) \subseteq Proc
  BY ProcessesAssumption, RangeIn DEF Init
<1>4. Blocked = {} /\ Victims = {} /\ Unstarted = {} /\ \A k : k # "none" => Waiting(k) = {}
  BY <1>1, <1>2, <1>3 DEF Init, Blocked, Victims, Unstarted, Waiting
<1>5. Types
  <2>1. life \in [Proc -> {"unborn", "live", "completed", "killed"}] /\ 0 \in Nat
    BY DEF Init
  <2>2. wait \in [Proc -> WaitType]
    BY <1>2 DEF Init
  <2> QED
    BY <1>1, <1>2, <2>1, <2>2, ProcessesAssumption DEF Init, Types
<1>6. WaitersOK /\ AwaitsOK
  BY <1>1, <1>2, <1>3, <1>4 DEF Init, WaitersOK, AwaitsOK, Counting
<1>7. PlacesOK
  <2>1. "unborn" # "live" /\ "live" # "unborn"
    OBVIOUS
  <2> QED
    BY <1>3, <1>4, <2>1, ProcessesAssumption DEF Init, PlacesOK, Placed
<1>8. ForestOK /\ CountsOK /\ JoinsOK
  <2>1. "none" # "fork" /\ "none" # "fork_all"
    OBVIOUS
  <2> QED
    BY <1>1, <1>2, <1>3, <2>1 DEF Init, ForestOK, CountsOK, JoinsOK
<1>9. StackOK /\ KillsOK /\ NotifyOK
  BY <1>1, <1>2, <1>4 DEF Init, StackOK, KillsOK, NotifyOK
<1>10. /\ "semaphore" # "none" /\ "mailbox_get" # "none" /\ "mailbox_put" # "none"
       /\ work.loop # "semaphore"
  BY <1>2 DEF Init
<1>11. SemaphoreOK
  BY <1>1, <1>4, <1>10, ProcessesAssumption DEF Init, SemaphoreOK
<1>12. MailboxOK
  <2>1. /\ delivery \in [Proc -> SUBSET Nat] /\ sent \in Nat /\ taken \in Nat
        /\ Capacity # 0 => Len(messages) <= Capacity
    BY ProcessesAssumption, SMTT(60) DEF Init
  <2> QED
    BY <1>1, <1>4, <1>10, <2>1 DEF Init, MailboxOK
<1>13. FifoOK /\ calls \in 0..MaxCalls
  <2>1. taken <= sent /\ calls \in 0..MaxCalls
    BY ProcessesAssumption, SMTT(60) DEF Init
  <2> QED
    BY <1>1, <1>4, <1>10, <2>1 DEF Init, FifoOK
<1> QED
  BY <1>5, <1>6, <1>7, <1>8, <1>9, <1>11, <1>12, <1>13 DEF IInv, Core, Data

\* Nothing changes.
LEMMA StutterKeeps ==
  ASSUME Core, Data, UNCHANGED vars
  PROVE  Core' /\ Data'
<1>1. /\ UNCHANGED <<current, life, ran, suspended, groups, work, calls>>
      /\ UNCHANGED <<queue, wait, waiters, wait_count, wake_pending>>
      /\ UNCHANGED <<available, sem_wait, messages, get_wait, put_wait, delivery, sent, taken>>
  BY DEF vars, waitVars, semVars, boxVars
<1>2. Core'
  <2>1. Types' /\ WaitersOK' /\ AwaitsOK'
    BY <1>1 DEF Core, Types, WaitersOK, AwaitsOK, Blocked
  <2>2. PlacesOK'
    BY <1>1 DEF Core, PlacesOK, Placed, Victims, Unstarted, Blocked, Child
  <2>3. /\ Victims' = Victims
        /\ \A i \in DOMAIN groups : (Dying(i)' <=> Dying(i)) /\ Alive(i)' = Alive(i)
        /\ ForestOK' /\ StackOK' /\ KillsOK' /\ NotifyOK'
    BY <1>1, SameGroups DEF Core
  <2>4. CountsOK'
    BY <1>1, <2>3 DEF Core, CountsOK
  <2>5. JoinsOK'
    BY <1>1 DEF Core, JoinsOK
  <2> QED
    BY <2>1, <2>2, <2>3, <2>4, <2>5 DEF Core
<1>3. Data'
  BY <1>1 DEF Data, SemaphoreOK, MailboxOK, FifoOK, Waiting, Full
<1> QED
  BY <1>2, <1>3

\* Every step of the runtime keeps the invariant.
LEMMA NextIInv ==
  ASSUME Counting, IInv, [Next]_vars
  PROVE  IInv'
<1> USE DEF IInv
<1>1. ASSUME NEW p \in Proc, Turn(p) PROVE Core' /\ Data'
  <2>1. CASE Delay(p) \/ WaitFork(p) \/ \E t \in Proc : Await(p, t)
    BY <2>1, WaitsKeep
  <2>2. CASE \E kind \in {"join", "join_any", "join_none"}, cs \in Branches : Fork(p, kind, cs)
    BY <2>2, ForkKeeps
  <2>3. CASE \/ DisableFork(p) \/ \E i \in DOMAIN groups : DisableGroup(p, i)
             \/ \E t \in Proc : Kill(p, t) \/ Suspend(p, t) \/ Resume(p, t)
    BY <2>3, HandlesKeep
  <2>4. CASE Complete(p)
    BY <2>4, CompleteKeeps
  <2>5. CASE \E k \in KeyCount : SemaphoreGet(p, k) \/ SemaphorePut(p, k)
    BY <2>5, SemaphoreCallsKeep
  <2>6. CASE MailboxPut(p) \/ \E peek \in {0, 1} : MailboxGet(p, peek)
    BY <2>6, MailboxCallsKeep
  <2> QED
    BY <1>1, <2>1, <2>2, <2>3, <2>4, <2>5, <2>6 DEF Turn
<1>2. CASE Dispatch \/ Advance
  BY <1>2, DispatchKeeps, AdvanceKeeps
<1>3. CASE KillEnter \/ KillStep \/ KillEnd
  BY <1>3, KillEnterKeeps, KillStepKeeps, KillEndKeeps
<1>4. CASE SemaphoreStep \/ SemaphoreEnd
  BY <1>4, SemaphoreLoopKeeps
<1>5. CASE Deliver \/ Accept \/ MailboxEnd
  BY <1>5, MailboxLoopKeeps
<1>6. CASE UNCHANGED vars
  BY <1>6, StutterKeeps
<1> QED
  BY <1>1, <1>2, <1>3, <1>4, <1>5, <1>6 DEF Next

--------------------------------------------------------------------------------
\* The facts about numbers and finite sets that the lemmas assume hold.

INSTANCE FiniteSetTheorems
INSTANCE SequenceTheorems

\* The numbers are well ordered.
LEMMA WellOrdered ==
  ASSUME NEW S \in SUBSET Nat, S # {}
  PROVE  \E n \in S : \A m \in S : n <= m
<1> DEFINE R == {ss \in Nat \X Nat : ss[1] < ss[2]}
<1>1. IsWellFoundedOn(R, Nat)
  BY NatLessThanWellFounded DEF OpToRel
<1>2. PICK n \in S : \A m \in S : ~ (<<m, n>> \in R)
  <2> HIDE DEF R
  <2> QED
    BY <1>1, WFMin
<1>3. \A m \in S : ~ (m < n)
  BY <1>2
<1> QED
  BY ONLY <1>3, SMTT(60)

\* A queue in which nobody is twice has as many places as processes.
LEMMA InjectiveLength ==
  ASSUME NEW V, NEW s \in Seq(V), IsInjective(s)
  PROVE  IsFiniteSet(Range(s)) /\ Cardinality(Range(s)) = Len(s)
<1>1. Len(s) \in Nat /\ DOMAIN s = 1..Len(s) /\ s \in [1..Len(s) -> V]
  BY LenProperties
<1>2. s \in [1..Len(s) -> Range(s)]
  BY <1>1 DEF Range
<1>3. \A x \in Range(s) : \E i \in 1..Len(s) : s[i] = x
  BY <1>1 DEF Range
<1>4. s \in Bijection(1..Len(s), Range(s))
  BY <1>1, <1>2, <1>3 DEF Bijection, Injection, Surjection
<1>5. ExistsBijection(1..Len(s), Range(s))
  BY <1>4 DEF ExistsBijection
<1> QED
  BY <1>1, <1>5, FS_CountingElements, FS_NatBijection

\* What the steps assume of counting holds.
LEMMA CountingHolds == Counting
<1>1. \A S \in SUBSET Nat : S # {} => \E n \in S : \A m \in S : n <= m
  BY WellOrdered
<1>2. Cardinality({}) = 0 /\ \A x : Cardinality({x}) = 1
  BY FS_EmptySet, FS_Singleton
<1>3. ASSUME NEW S, IsFiniteSet(S)
      PROVE  /\ Cardinality(S) \in Nat
             /\ \A x : IsFiniteSet(S \cup {x})
             /\ \A T : /\ IsFiniteSet(S \ T)
                       /\ Cardinality(S \ T) = Cardinality(S) - Cardinality(S \cap T)
  BY <1>3, FS_CardinalityType, FS_AddElement, FS_Difference
<1>4. \A s \in Seq(Proc) : IsInjective(s) => IsFiniteSet(Range(s)) /\ Cardinality(Range(s)) = Len(s)
  BY InjectiveLength
<1> QED
  BY <1>1, <1>2, <1>3, <1>4 DEF Counting

\* Whatever the processes call and whatever the loops of a kill (llg_kill_proc_tree), of
\* semaphore_wake_available and of mailbox_service_waiters have come to, the invariant of
\* the processes and of the queues holds.
THEOREM AlwaysIInv == Spec => []IInv
<1>1. Init => IInv
  BY InitIInv, CountingHolds
<1>2. IInv /\ [Next]_vars => IInv'
  BY NextIInv, CountingHolds
<1> QED
  BY <1>1, <1>2, PTL DEF Spec

\* Every variable of the runtime stays well formed: one process at most has its turn
\* (run_region_queue), and the queues and fork groups name processes only.
THEOREM TypeCorrect == Spec => []TypeOK
<1>1. IInv => TypeOK
  BY TypesHold, CountingHolds DEF IInv
<1> QED
  BY <1>1, AlwaysIInv, PTL

\* Between two calls every live process has the turn, or is queued once, blocked,
\* suspended or not started, and only one of these, whatever wake_proc, llg_process_resume,
\* llg_arm_process_suspend and llg_kill_proc did.
THEOREM ProcessesPlaced == Spec => []NoProcessLost
<1>1. IInv => NoProcessLost
  BY PlacesHold, CountingHolds DEF IInv
<1> QED
  BY <1>1, AlwaysIInv, PTL

\* A process that waits for its children (llg_arm_join, llg_arm_wait_fork) has children
\* left to wait for, whatever order they complete or are killed in.
THEOREM WaitsForChildrenEnd == Spec => []JoinsEnd
<1>1. IInv => JoinsEnd
  BY JoinsHold, CountingHolds DEF IInv
<1> QED
  BY <1>1, AlwaysIInv, PTL

\* g.waiters, wait_count and the queues of the semaphore and the mailbox hold exactly the
\* processes whose wait says so, after any kill in the middle of a wait.
THEOREM QueuesMatch == Spec => []QueuesMatchWaits
<1>1. IInv => QueuesMatchWaits
  BY QueuesHold, CountingHolds DEF IInv
<1> QED
  BY <1>1, AlwaysIInv, PTL

\* No request that the semaphore could serve is left waiting once
\* semaphore_wake_available is done.
THEOREM KeysServed == Spec => []SemaphoreServed
<1>1. IInv => SemaphoreServed
  BY ServedHold DEF IInv
<1> QED
  BY <1>1, AlwaysIInv, PTL

\* Nobody is left waiting for a message or for room that the mailbox has once
\* mailbox_service_waiters is done.
THEOREM MessagesServed == Spec => []MailboxServed
<1>1. IInv => MailboxServed
  BY ServedHold DEF IInv
<1> QED
  BY <1>1, AlwaysIInv, PTL

\* The messages are received in the order of the puts, those of blocked puts included.
THEOREM MessagesInOrder == Spec => []MailboxFifo
<1>1. IInv => MailboxFifo
  BY FifoHold DEF IInv
<1> QED
  BY <1>1, AlwaysIInv, PTL

================================================================================
