---------------------------- MODULE RuntimeProofs ----------------------------
(***************************************************************************)
(* Proofs about two parts of the simulator's runtime: the walk through the    *)
(* regions of a time slot (RegionLoop) and the collected heap (Collector).    *)
(***************************************************************************)
EXTENDS RegionLoop, Collector, TLAPS

------------------------------------------------------------------------------
(***************************************************************************)
(* RegionLoop: a slot ends only when nothing of it is left, the regions are *)
(* entered in order, and a stopped run keeps its work, for every choice of  *)
(* the callbacks and every limit on the passes.                             *)
(***************************************************************************)

\* What the loop knows at each point of a slot: the regions before Active are
\* over; reports are pending only until the Observed region, or until the queue of
\* Reactive is empty; behind Pre-Postponed nothing is left but the Postponed regions,
\* which are read-only and end one after the other.
LoopInv ==
  /\ slot \in [Work -> Nat]
  /\ at \in 0..SLOT_END
  /\ mode = "run" =>
       /\ at \in {13, 14} \cup (17..SLOT_END) => slot[Report] = 0
       /\ \A r \in 0..2 : at > r => slot[Item(r)] = 0
       /\ at > 22 => slot[Item(22)] = 0
       /\ at > PRE_POSTPONED => slot[Item(PRE_POSTPONED)] = 0 /\ ~AnyPending(slot)
       /\ at > POSTPONED => slot[Item(POSTPONED)] = 0
       /\ at > POSTPONED_PLI => slot[Item(POSTPONED_PLI)] = 0

USE DEF Region, PREPONED, ACTIVE, NBA, POST_NBA_PLI, PRE_OBSERVED_PLI, OBSERVED,
        POST_OBSERVED_PLI, REACTIVE, RE_NBA, POST_RE_NBA_PLI, PRE_POSTPONED, POSTPONED,
        POSTPONED_PLI, SLOT_END

------------------------------------------------------------------------------
(* Work *)

\* The kinds of work are work of the slot.
LEMMA WorkType ==
  /\ \A r \in Region : Item(r) \in Work
  /\ \A h \in Heads : Zero(h) \in Work /\ Update(h) \in Work /\ Inertial(h) \in Work
  /\ Edge \in Work /\ Report \in Work
BY DEF Work

\* Different kinds of work, and items of different regions, are different work.
LEMMA WorkDistinct ==
  /\ \A r, q : Item(r) = Item(q) => r = q
  /\ \A r, h : Item(r) # Zero(h) /\ Item(r) # Update(h) /\ Item(r) # Inertial(h)
  /\ \A r : Item(r) # Edge /\ Item(r) # Report
  /\ \A h, k : Zero(h) # Update(k) /\ Zero(h) # Inertial(k) /\ Update(h) # Inertial(k)
  /\ \A h, k : (Zero(h) = Zero(k) => h = k) /\ (Update(h) = Update(k) => h = k)
               /\ (Inertial(h) = Inertial(k) => h = k)
  /\ \A h : Zero(h) # Edge /\ Update(h) # Edge /\ Inertial(h) # Edge
  /\ \A h : Zero(h) # Report /\ Update(h) # Report /\ Inertial(h) # Report
  /\ Edge # Report
BY DEF Item, Zero, Update, Inertial, Edge, Report

\* Adding a piece of work changes that piece only.
LEMMA AddWork ==
  ASSUME NEW s \in [Work -> Nat], NEW w \in Work
  PROVE  /\ Add(s, w) \in [Work -> Nat]
         /\ \A x \in Work : x # w => Add(s, w)[x] = s[x]
BY DEF Add

\* Taking one piece of work leaves at most as much of everything.
LEMMA TakeWork ==
  ASSUME NEW s \in [Work -> Nat], NEW w \in Work, s[w] > 0
  PROVE  /\ Take(s, w) \in [Work -> Nat]
         /\ \A x \in Work : Take(s, w)[x] <= s[x]
BY DEF Take

\* With less work, nothing becomes pending.
LEMMA PendingMonotone ==
  ASSUME NEW s \in [Work -> Nat], NEW t \in [Work -> Nat],
         \A x \in Work : t[x] <= s[x],
         ~AnyPending(s)
  PROVE  ~AnyPending(t)
BY WorkType DEF AnyPending, ObservedPending, Pending, PendingBefore, PostNbaPli, Nba, Heads

\* Where the loop can go from a region: forward by one at the end of a slot, behind
\* Observed from Observed and behind Reactive from Reactive, and to Postponed only
\* when the three sets are done.
LEMMA AfterRange ==
  ASSUME NEW r \in Region, NEW s \in [Work -> Nat]
  PROVE  /\ After(r, s) \in 0..SLOT_END
         /\ \A q \in 0..2 : After(r, s) > q => r >= q
         /\ After(r, s) \in {13, 14} => r \in {OBSERVED, 13}
         /\ After(r, s) > 16 => r = REACTIVE \/ r > 16
         /\ After(r, s) > 22 => r >= 22 /\ After(r, s) = r + 1
         /\ After(r, s) = POSTPONED => ~AnyPending(s)
<1>1. CASE r \in Heads
  BY <1>1 DEF After, Heads, Inactive, HeadOf, Reactive, PreNbaPli, PostNba
<1>2. CASE r \in {4, 16}
  BY <1>2 DEF After, Heads, Inactive, HeadOf, Reactive, PreNbaPli, PostNba
<1>3. CASE r \in 5..8
  BY <1>3 DEF After, Heads, Inactive, HeadOf, Reactive, PreNbaPli, PostNba
<1>4. CASE r \in 17..20
  BY <1>4 DEF After, Heads, Inactive, HeadOf, Reactive, PreNbaPli, PostNba
<1>5. CASE r \in {0, 1, 2, 9, 10, 11, 12, 13, 14, 21, 22, 23, 24, 25}
  BY <1>5 DEF After, Heads, Inactive, HeadOf, Reactive, PreNbaPli, PostNba
<1> QED
  BY <1>1, <1>2, <1>3, <1>4, <1>5 DEF Heads

------------------------------------------------------------------------------
(* The invariant *)

\* The run starts in Preponed with a slot of work.
LEMMA InitInv == Init => LoopInv
<1> SUFFICES ASSUME Init PROVE LoopInv
  OBVIOUS
<1>1. None \in [Work -> Nat]
  BY DEF None
<1>2. slot \in [Work -> Nat]
  <2>1. PICK r \in Region : slot = Add(Add(None, Item(ACTIVE)), Item(r))
    BY DEF Init
  <2>2. Add(None, Item(ACTIVE)) \in [Work -> Nat]
    BY <1>1, WorkType, AddWork
  <2> QED
    BY <2>1, <2>2, WorkType, AddWork, ZenonT(60)
<1> QED
  BY <1>2 DEF Init, LoopInv

\* A slot with at most as much work as before, in the same region, keeps what the
\* loop knows.
LEMMA LessWork ==
  ASSUME LoopInv, NEW s \in [Work -> Nat], \A x \in Work : s[x] <= slot[x],
         slot' = s, at' = at, mode' = "run" => mode = "run"
  PROVE  LoopInv'
<1>1. /\ \A r \in Region : slot[Item(r)] = 0 => slot'[Item(r)] = 0
      /\ slot[Report] = 0 => slot'[Report] = 0
  BY WorkType DEF LoopInv
<1>2. ~AnyPending(slot) => ~AnyPending(slot')
  BY PendingMonotone DEF LoopInv
<1> QED
  BY <1>1, <1>2 DEF LoopInv

\* What a turn may add keeps what the loop knows about the regions behind it.
LEMMA AllowedWork ==
  ASSUME NEW r \in Region, NEW w \in Work, Allowed(r, w)
  PROVE  /\ r < POSTPONED
         /\ \A q \in 0..2 : r > q => w # Item(q)
         /\ r > 22 => w # Item(22)
<1>1. r \notin {24, 25} /\ ~(r <= 1)
  BY DEF Allowed, ReadOnly
<1>2. \A q \in Region : w = Item(q) => w[1] = "item" /\ w[2] = q
  BY DEF Item
<1>3. ASSUME NEW q \in Region, w = Item(q)
      PROVE  q >= r \/ q \in Design \cup Reactive
  <2>1. CASE ReadOnly(r)
    <3>1. w \in {Item(ACTIVE), Item(REACTIVE)}
      BY <2>1, ZenonT(60) DEF Allowed
    <3> QED
      BY <1>3, <3>1, WorkDistinct DEF Design, Reactive
  <2>2. CASE ~ReadOnly(r)
    BY <1>2, <1>3, <2>2 DEF Allowed, Edge, Report
  <2> QED
    BY <2>1, <2>2, ZenonT(60)
<1> QED
  BY <1>1, <1>3 DEF Design, Reactive

\* When the reports mature, no report is left, and only Reactive gets work.
LEMMA MaturedWork ==
  ASSUME NEW s \in [Work -> Nat], NEW t \in Matured(s)
  PROVE  /\ t \in [Work -> Nat] /\ t[Report] = 0
         /\ \A x \in Work \ {Report, Item(REACTIVE)} : t[x] = s[x]
<1>1. CASE s[Report] = 0
  BY <1>1, Zenon DEF Matured
<1>2. CASE s[Report] # 0
  <2>1. PICK x \in {s, Add(s, Item(REACTIVE))} : t = [x EXCEPT ![Report] = 0]
    BY <1>2, ZenonT(60) DEF Matured
  <2>2. x \in [Work -> Nat] /\ \A w \in Work : w # Item(REACTIVE) => x[w] = s[w]
    BY AddWork, WorkType
  <2> QED
    BY <2>1, <2>2, WorkType, ZenonT(60)
<1> QED
  BY <1>1, <1>2, Zenon

\* Leaving a head region moves its zero-delay waits to the region after it, and
\* touches no other work.
LEMMA AwakeWork ==
  ASSUME NEW s \in [Work -> Nat], NEW r \in Region
  PROVE  /\ Awake(s, r) \in [Work -> Nat] /\ Awake(s, r)[Report] = s[Report]
         /\ \A q \in Region : q \notin {4, 16} => Awake(s, r)[Item(q)] = s[Item(q)]
         /\ r > 22 => Awake(s, r) = s
<1>1. CASE r \in Heads
  <2>1. Zero(r) \in Work /\ Item(Inactive(r)) \in Work /\ r <= 22
    BY <1>1, WorkType DEF Heads, Inactive
  <2>2. \A q \in Region : q \notin {4, 16} => Item(q) \notin {Zero(r), Item(Inactive(r))}
    BY <1>1, WorkDistinct DEF Heads, Inactive
  <2>3. Report \notin {Zero(r), Item(Inactive(r))} /\ Zero(r) # Item(Inactive(r))
    BY WorkDistinct DEF Zero, Report
  <2> QED
    BY <1>1, <2>1, <2>2, <2>3, WorkType DEF Awake
<1>2. CASE r \notin Heads
  BY <1>2 DEF Awake
<1> QED
  BY <1>1, <1>2

LEMMA NextInv == LoopInv /\ [Next]_vars => LoopInv'
<1> SUFFICES ASSUME LoopInv, [Next]_vars PROVE LoopInv'
  BY Zenon
<1> USE DEF LoopInv
<1>1. CASE Turn
  <2> DEFINE s == Take(slot, Item(at))
  <2>1. at \in Region /\ mode = "run" /\ slot[Item(at)] > 0 /\ at' = at
    BY <1>1, Zenon DEF Turn, Runs, Keeps
  <2>2. s \in [Work -> Nat] /\ \A x \in Work : s[x] <= slot[x]
    BY <2>1, WorkType, TakeWork, Zenon
  <2>3. PICK w \in Attempt : IF Allowed(at, w) THEN slot' = Add(s, w) /\ mode' = mode
                             ELSE slot' = s /\ mode' = "ended"
    BY <1>1, Zenon DEF Turn
  <2>4. w \in Work /\ (w = Report => at \in {3, 4, 15, 16})
    BY DEF Attempt, Executes, Heads, Inactive
  <2>5. CASE ~Allowed(at, w)
    BY <2>1, <2>2, <2>3, <2>5, LessWork, ZenonT(60)
  <2>6. CASE Allowed(at, w)
    <3>1. slot' \in [Work -> Nat] /\ \A x \in Work : x # w => slot'[x] <= slot[x]
      BY <2>2, <2>3, <2>4, <2>6, AddWork
    <3>2. /\ at < POSTPONED
          /\ \A q \in 0..2 : at > q => w # Item(q)
          /\ at > 22 => w # Item(22)
      BY <2>1, <2>4, <2>6, AllowedWork, ZenonT(60)
    <3>3. at \in {13, 14} \cup (17..SLOT_END) => slot'[Report] = 0
      BY <2>1, <2>4, <3>1, WorkType
    <3>4. \A r \in 0..2 : at > r => slot'[Item(r)] = 0
      BY <2>1, <3>1, <3>2, WorkType
    <3>5. at > 22 => slot'[Item(22)] = 0
      BY <2>1, <3>1, <3>2, WorkType
    <3> QED
      BY <2>1, <3>1, <3>2, <3>3, <3>4, <3>5
  <2> QED
    BY <2>5, <2>6, ZenonT(60)
<1>2. CASE Quiet \/ Later
  <2> DEFINE s == Take(slot, Item(at))
  <2>1. at \in Region /\ mode = "run" /\ slot[Item(at)] > 0 /\ at' = at
    BY <1>2, ZenonT(60) DEF Quiet, Later, Runs, Keeps
  <2>2. s \in [Work -> Nat] /\ \A x \in Work : s[x] <= slot[x]
    BY <2>1, WorkType, TakeWork
  <2>3. slot' = s \/ slot' = [s EXCEPT ![Report] = 0]
    BY <1>2, ZenonT(60) DEF Quiet, Later
  <2> HIDE DEF s
  <2>4. slot' \in [Work -> Nat] /\ \A x \in Work : slot'[x] <= slot[x]
    BY <2>2, <2>3, WorkType
  <2> QED
    BY <2>1, <2>4, LessWork, ZenonT(60)
<1>3. CASE Stop
  <2> DEFINE s == Take(slot, Item(at))
  <2>1. at \in Region /\ mode = "run" /\ slot[Item(at)] > 0 /\ at' = at
    BY <1>3, ZenonT(60) DEF Stop, Runs
  <2>2. s \in [Work -> Nat] /\ \A x \in Work : s[x] <= slot[x]
    BY <2>1, WorkType, TakeWork
  <2>3. slot' = s \/ slot' = Add(s, Item(at))
    BY <1>3, Zenon DEF Stop
  <2>4. CASE slot' = s
    BY <2>1, <2>2, <2>4, LessWork, ZenonT(60)
  <2>5. CASE slot' = Add(s, Item(at))
    <3>1. Add(s, Item(at)) \in [Work -> Nat]
      BY <2>1, <2>2, WorkType, AddWork
    <3>2. \A x \in Work : Add(s, Item(at))[x] <= slot[x]
      <4>1. Item(at) \in Work /\ Item(at)[1] \notin {"edge", "nba", "report"}
        BY <2>1, WorkType, ZenonT(60) DEF Item
      <4>2. Add(s, Item(at))[Item(at)] = slot[Item(at)]
        BY <2>1, <4>1 DEF Add, Take
      <4>3. \A x \in Work : x # Item(at) => Add(s, Item(at))[x] = s[x]
        BY <2>2, <4>1, AddWork
      <4>4. slot[Item(at)] \in Nat
        BY <4>1
      <4> HIDE DEF s
      <4> SUFFICES ASSUME NEW x \in Work PROVE Add(s, Item(at))[x] <= slot[x]
        OBVIOUS
      <4>5. CASE x = Item(at)
        BY <4>2, <4>4, <4>5
      <4>6. CASE x # Item(at)
        BY <2>2, <4>3, <4>6, ZenonT(60)
      <4> QED
        BY <4>5, <4>6, Zenon
    <3> QED
      BY <2>1, <2>5, <3>1, <3>2, LessWork, ZenonT(60)
  <2> QED
    BY <2>3, <2>4, <2>5, ZenonT(60)
<1>4. CASE ZeroLoop
  BY <1>4, ZenonT(60) DEF ZeroLoop
<1>5. CASE CommitInertial
  <2>1. at \in Heads /\ at' = at
    BY <1>5, ZenonT(60) DEF CommitInertial
  <2>2. slot' \in [Work -> Nat] /\ \A q \in 0..2 : slot'[Item(q)] = slot[Item(q)]
    BY <1>5, WorkType, WorkDistinct, SMTT(60) DEF CommitInertial, Published, Add, Take, Heads
  <2> QED
    BY <2>1, <2>2, <1>5 DEF Heads, CommitInertial
<1>6. CASE CommitUpdates
  <2>1. at \in {7, 19} /\ at' = After(at, slot') /\ mode = "run"
    BY <1>6 DEF CommitUpdates, Nba, HeadOf, Reactive
  <2>2. /\ slot' \in [Work -> Nat] /\ slot'[Report] = slot[Report]
        /\ \A q \in 0..2 : slot'[Item(q)] = slot[Item(q)]
    BY <1>6, WorkType, WorkDistinct DEF CommitUpdates, Published, Add, Heads, HeadOf
  <2>3. at' \in 0..SLOT_END /\ at' <= 22 /\ at' \notin {13, 14}
    BY <2>1, <2>2, AfterRange
  <2>4. at' > 16 => slot'[Report] = 0
    BY <2>1, <2>2, AfterRange
  <2> QED
    BY <2>1, <2>2, <2>3, <2>4
<1>7. CASE Leave
  <2>1. at \in Region \ {OBSERVED} /\ at' = After(at, slot') /\ mode = "run" /\ mode' = mode
    BY <1>7, ZenonT(60) DEF Leave
  <2>2. slot[Item(at)] = 0 /\ (at = REACTIVE => slot[Report] = 0)
    BY <1>7, <2>1, WorkType DEF Leave, Busy, Unreported
  <2>3. /\ slot' \in [Work -> Nat] /\ slot'[Report] = slot[Report]
        /\ \A q \in Region : q \notin {4, 16} => slot'[Item(q)] = slot[Item(q)]
        /\ at > 22 => slot' = slot
    <3>1. slot' = Awake(slot, at) /\ slot \in [Work -> Nat]
      BY <1>7, Zenon DEF Leave
    <3> QED
      BY <2>1, <3>1, AwakeWork, ZenonT(60)
  <2>4. /\ at' \in 0..SLOT_END
        /\ \A q \in 0..2 : at' > q => at >= q
        /\ at' \in {13, 14} => at = 13
        /\ at' > 16 => at = REACTIVE \/ at > 16
        /\ at' > 22 => at >= 22 /\ at' = at + 1
        /\ at' = POSTPONED => ~AnyPending(slot')
    BY <2>1, <2>3, AfterRange, ZenonT(60)
  <2>5. \A q \in 0..2 : at' > q => slot'[Item(q)] = 0
    BY <2>1, <2>2, <2>3, <2>4
  <2>6. at' \in {13, 14} \cup (17..SLOT_END) => slot'[Report] = 0
    BY <2>1, <2>2, <2>3, <2>4
  <2>7. /\ at' > 22 => slot'[Item(22)] = 0
        /\ at' > PRE_POSTPONED => slot'[Item(PRE_POSTPONED)] = 0 /\ ~AnyPending(slot')
        /\ at' > POSTPONED => slot'[Item(POSTPONED)] = 0
        /\ at' > POSTPONED_PLI => slot'[Item(POSTPONED_PLI)] = 0
    BY <2>1, <2>2, <2>3, <2>4
  <2> QED
    BY <2>3, <2>4, <2>5, <2>6, <2>7, ZenonT(60)
<1>8. CASE Observe \/ Flush
  <2>1. PICK t \in {slot, [slot EXCEPT ![Edge] = 0],
                    Add([slot EXCEPT ![Edge] = 0], Item(REACTIVE))} : slot' \in Matured(t)
    BY <1>8, ZenonT(60) DEF Observe, Flush
  <2>2. t \in [Work -> Nat] /\ \A q \in 0..2 : t[Item(q)] = slot[Item(q)]
    BY WorkType, WorkDistinct DEF Add
  <2>3. /\ slot' \in [Work -> Nat] /\ slot'[Report] = 0
        /\ \A q \in 0..2 : slot'[Item(q)] = slot[Item(q)]
    BY <2>1, <2>2, MaturedWork, WorkType, WorkDistinct
  <2>4. at' \in {13, 15} /\ mode = "run" /\ at > 2
    BY <1>8 DEF Observe, Flush, Unreported
  <2> QED
    BY <2>3, <2>4
<1>9. CASE Advance
  <2>1. \A w \in Work : Add(slot, w)[w] \in Nat
    BY AddWork, Zenon
  <2>2. \A due : Entered(slot, due) \in [Work -> Nat]
    BY <2>1, Zenon DEF Entered
  <2>3. slot' = slot \/ \E due : slot' = Entered(slot, due)
    BY <1>9, ZenonT(60) DEF Advance
  <2>4. slot' \in [Work -> Nat]
    BY <2>2, <2>3, ZenonT(60)
  <2>5. (mode' = "run" /\ at' = PREPONED) \/ (mode' = "ended" /\ at' = at)
    BY <1>9, ZenonT(60) DEF Advance
  <2> QED
    BY <2>4, <2>5
<1>10. CASE Postpone
  BY <1>10, WorkType, TakeWork DEF Postpone
<1>11. CASE Resume
  <2>1. \A w \in Work : Add(slot, w)[w] \in Nat
    BY AddWork
  <2>2. slot' \in [Work -> Nat] /\ at' = PREPONED
    BY <1>11, <2>1 DEF Resume, Entered
  <2> QED
    BY <2>2
<1>12. CASE UNCHANGED vars
  BY <1>12, LessWork DEF vars
<1> QED
  BY <1>1, <1>2, <1>3, <1>4, <1>5, <1>6, <1>7, <1>8, <1>9, <1>10, <1>11, <1>12, ZenonT(60)
     DEF Next, Loop

\* The invariant holds in every state of every run.
THEOREM LoopInvariant == Spec => []LoopInv
BY InitInv, NextInv, PTL DEF Spec

\* Where nothing is pending in the three sets, the work left is items outside them.
LEMMA NothingPending ==
  ASSUME NEW s \in [Work -> Nat], ~AnyPending(s), s[Report] = 0, NEW w \in Work, s[w] > 0
  PROVE  \E r \in (0..2) \cup (22..25) : w = Item(r)
<1>1. \A r \in 3..21 : s[Item(r)] = 0
  BY WorkType DEF AnyPending, ObservedPending, Pending, PendingBefore, PostNbaPli
<1>2. \A h \in Heads : s[Zero(h)] = 0 /\ s[Update(h)] = 0 /\ s[Inertial(h)] = 0
  BY WorkType DEF AnyPending, Pending, PendingBefore, PostNbaPli, Nba, Heads
<1>3. s[Edge] = 0
  BY WorkType DEF AnyPending, ObservedPending
<1> QED
  BY <1>1, <1>2, <1>3, SMTT(30) DEF Work

\* For every limit and every use of callbacks, llg_rt_run leaves a time slot only
\* when no work of the slot is left in any region.
THEOREM SlotsComplete == Spec => []SlotComplete
<1>1. LoopInv => SlotComplete
  <2> SUFFICES ASSUME LoopInv, mode = "run", at = SLOT_END, NEW w \in Work
               PROVE  slot[w] = 0
    BY Zenon DEF SlotComplete
  <2>1. \A r \in (0..2) \cup (22..25) : slot[Item(r)] = 0
    BY DEF LoopInv
  <2>2. slot \in [Work -> Nat] /\ ~AnyPending(slot) /\ slot[Report] = 0
    BY DEF LoopInv
  <2> QED
    BY <2>1, <2>2, NothingPending
<1> QED
  BY <1>1, LoopInvariant, PTL

------------------------------------------------------------------------------
(* The order of the regions *)

\* The regions that the loop enters going forward, and what is done by then.
InOrder(r, s) ==
  /\ r \in Design \cup Reactive => ~PendingBefore(s, HeadOf(r), r) \/ r \in Heads
  /\ r \in {PRE_OBSERVED_PLI, REACTIVE} => ~Pending(s, ACTIVE)
  /\ r \in {POST_RE_NBA_PLI + 1, POSTPONED} => ~AnyPending(s)

\* A step of the loop forward finds everything before done, provided that the
\* region it leaves is done itself: its queue is empty, and in a head region the
\* inertial updates and the zero-delay waits, in an NBA region the updates.
LEMMA AfterInOrder ==
  ASSUME NEW r \in Region \ {OBSERVED}, NEW s \in [Work -> Nat],
         s[Item(r)] = 0,
         r \in Heads => s[Inertial(r)] = 0 /\ s[Zero(r)] = 0,
         r = Nba(HeadOf(r)) => s[Update(HeadOf(r))] = 0,
         After(r, s) > r
  PROVE  InOrder(After(r, s), s)
<1> USE DEF InOrder, Design, Reactive, HeadOf
<1>1. CASE r \in Heads
  <2>1. After(r, s) = IF s[Item(r + 1)] > 0 THEN r + 1 ELSE r + 2
    BY <1>1 DEF After, Heads, Inactive, PreNbaPli, PostNba
  <2>2. HeadOf(r + 1) = r /\ HeadOf(r + 2) = r
    BY <1>1 DEF Heads
  <2>3. After(r, s) = r + 1 => ~PendingBefore(s, r, r + 1)
    <3>1. r..(r + 1 - 1) = {r} /\ ~(r + 1 > Nba(r))
      BY <1>1 DEF Heads, Nba
    <3> QED
      BY <1>1, <3>1 DEF PendingBefore
  <2>4. After(r, s) = r + 2 => ~PendingBefore(s, r, r + 2)
    <3>1. r..(r + 2 - 1) = {r, r + 1} /\ ~(r + 2 > Nba(r))
      BY <1>1 DEF Heads, Nba
    <3>2. After(r, s) = r + 2 => ~(s[Item(r + 1)] > 0)
      BY <1>1, <2>1 DEF Heads
    <3> QED
      BY <1>1, <3>1, <3>2 DEF PendingBefore
  <2>5. After(r, s) \notin {PRE_OBSERVED_PLI, REACTIVE, POST_RE_NBA_PLI + 1, POSTPONED}
    BY <1>1, <2>1 DEF Heads
  <2> QED
    BY <2>1, <2>2, <2>3, <2>4, <2>5
<1>2. CASE r \in {4, 16}
  BY <1>2 DEF After, Heads, Inactive, PreNbaPli, PostNba
<1>3. CASE r \in 5..8
  <2>1. After(r, s) = r + 1 /\ ~PendingBefore(s, ACTIVE, r)
    BY <1>3 DEF After, Heads, Inactive, PreNbaPli, PostNba
  <2>2. ~PendingBefore(s, ACTIVE, r + 1)
    BY <1>3, <2>1 DEF PendingBefore, Nba
  <2> QED
    BY <1>3, <2>1, <2>2
<1>4. CASE r \in 17..20
  <2>1. After(r, s) = r + 1 /\ ~PendingBefore(s, REACTIVE, r)
    BY <1>4 DEF After, Heads, Inactive, PreNbaPli, PostNba
  <2>2. ~PendingBefore(s, REACTIVE, r + 1)
    BY <1>4, <2>1 DEF PendingBefore, Nba
  <2> QED
    BY <1>4, <2>1, <2>2
<1>5. CASE r \in {0, 1, 2, 10, 11, 13, 22, 24, 25}
  <2>1. After(r, s) = r + 1
    BY <1>5 DEF After, Heads, Inactive, PreNbaPli, PostNba
  <2>2. r = 2 \/ r + 1 \notin Design \cup Reactive
    BY <1>5
  <2>3. r + 1 \notin {PRE_OBSERVED_PLI, REACTIVE, POST_RE_NBA_PLI + 1, POSTPONED}
    BY <1>5
  <2> QED
    BY <2>1, <2>2, <2>3 DEF Heads
<1>6. CASE r \in {9, 14, 21, 23}
  BY <1>6, SMTT(30) DEF After, Heads, Inactive, PreNbaPli, PostNba, Woken
<1>7. \/ r \in Heads \/ r \in {4, 16} \/ r \in 5..8 \/ r \in 17..20
      \/ r \in {0, 1, 2, 10, 11, 13, 22, 24, 25} \/ r \in {9, 14, 21, 23}
  BY DEF Heads
<1> HIDE DEF InOrder
<1> QED
  BY <1>1, <1>2, <1>3, <1>4, <1>5, <1>6, <1>7

\* A step forward of a running loop enters its region in order.
LEMMA StepInOrder ==
  ASSUME LoopInv, Next, mode = "run", mode' = "run", at' > at
  PROVE  InOrder(at', slot')
<1> USE DEF LoopInv
<1>1. CASE Leave
  <2>1. at \in Region \ {OBSERVED} /\ at' = After(at, slot') /\ slot' = Awake(slot, at)
    BY <1>1, ZenonT(60) DEF Leave
  <2>2. /\ slot[Item(at)] = 0
        /\ at \in Heads => slot[Inertial(at)] = 0
        /\ at = Nba(HeadOf(at)) => slot[Update(HeadOf(at))] = 0
    BY <1>1, <2>1, WorkType DEF Leave, Busy, Heads, HeadOf
  <2>3. slot' \in [Work -> Nat]
    BY <2>1, AwakeWork, ZenonT(60)
  <2>4. /\ slot'[Item(at)] = 0
        /\ at \in Heads => slot'[Inertial(at)] = 0 /\ slot'[Zero(at)] = 0
        /\ at = Nba(HeadOf(at)) => slot'[Update(HeadOf(at))] = 0
    BY <2>1, <2>2, WorkType, WorkDistinct, SMTT(60) DEF Awake, Heads, Inactive, HeadOf, Nba
  <2> QED
    BY <2>1, <2>3, <2>4, AfterInOrder
<1>2. CASE CommitUpdates
  <2>1. at \in {7, 19} /\ at = Nba(HeadOf(at)) /\ at' = After(at, slot')
    BY <1>2 DEF CommitUpdates, Nba, HeadOf, Reactive
  <2>2. /\ slot' \in [Work -> Nat]
        /\ slot'[Item(at)] = 0
        /\ slot'[Update(HeadOf(at))] = 0
    BY <1>2, <2>1, WorkType, WorkDistinct, SMTT(60) DEF CommitUpdates, Published, Add, Heads, HeadOf
  <2> QED
    BY <2>1, <2>2, AfterInOrder DEF Heads
<1>3. CASE Observe
  BY <1>3 DEF Observe, InOrder, Design, Reactive
<1>4. CASE Turn \/ Quiet \/ Later \/ Stop \/ CommitInertial
  <2>1. at' = at
    BY <1>4, ZenonT(60) DEF Turn, Quiet, Later, Stop, CommitInertial, Keeps
  <2> QED
    BY <2>1
<1>5. CASE Advance
  <2>1. at' = at \/ at' = PREPONED
    BY ONLY <1>5, Zenon DEF Advance
  <2>2. at \in 0..SLOT_END
    BY ZenonT(60)
  <2> QED
    BY ONLY <2>1, <2>2, at' > at DEF PREPONED, SLOT_END
<1>6. CASE ZeroLoop \/ Postpone \/ Resume \/ Flush
  BY <1>6, SMTT(60) DEF ZeroLoop, Postpone, Resume, Flush
<1> QED
  BY <1>1, <1>2, <1>3, <1>4, <1>5, <1>6 DEF Next, Loop

\* For every limit and every use of callbacks, the loop goes forward from region to
\* region only with everything done that IEEE 1800 4.5 puts before.
THEOREM RegionsInOrder == Spec => RegionOrder
<1>1. ASSUME LoopInv, LoopInv', [Next]_vars
      PROVE  [mode = "run" /\ mode' = "run" /\ at' > at =>
                /\ at' \in Design \cup Reactive =>
                     ~PendingBefore(slot', HeadOf(at'), at') \/ at' \in Heads
                /\ at' \in {PRE_OBSERVED_PLI, REACTIVE} => ~Pending(slot', ACTIVE)
                /\ at' \in {POST_RE_NBA_PLI + 1, POSTPONED} =>
                     \A w \in Work : slot'[w] > 0 =>
                       w[1] = "item" /\ (w[2] >= at' \/ w[2] < ACTIVE)]_vars
  <2> SUFFICES ASSUME Next, mode = "run", mode' = "run", at' > at
               PROVE  /\ at' \in Design \cup Reactive =>
                           ~PendingBefore(slot', HeadOf(at'), at') \/ at' \in Heads
                      /\ at' \in {PRE_OBSERVED_PLI, REACTIVE} => ~Pending(slot', ACTIVE)
                      /\ at' \in {POST_RE_NBA_PLI + 1, POSTPONED} =>
                           \A w \in Work : slot'[w] > 0 =>
                             w[1] = "item" /\ (w[2] >= at' \/ w[2] < ACTIVE)
    BY <1>1, Zenon
  <2>1. InOrder(at', slot')
    BY <1>1, StepInOrder, ZenonT(60)
  <2>2. ASSUME at' \in {POST_RE_NBA_PLI + 1, POSTPONED}, NEW w \in Work, slot'[w] > 0
        PROVE  w[1] = "item" /\ (w[2] >= at' \/ w[2] < ACTIVE)
    <3>0. slot'[Report] = 0
      BY <1>1, <2>2 DEF LoopInv
    <3>1. PICK r \in (0..2) \cup (22..25) : w = Item(r)
      BY <1>1, <2>1, <2>2, <3>0, NothingPending DEF InOrder, LoopInv
    <3>2. at' = POSTPONED => r \notin {22, 23}
      BY <1>1, <2>2, <3>1 DEF LoopInv
    <3> QED
      BY <2>2, <3>1, <3>2 DEF Item
  <2> QED
    BY <2>1, <2>2, ZenonT(60) DEF InOrder
<1> QED
  BY <1>1, LoopInvariant, PTL DEF Spec, RegionOrder

------------------------------------------------------------------------------
(* The way out of a stopped run *)

\* At most one process is stopped.
OneStopped == \E r \in Region : stopped \subseteq {r}

\* The stopped process is the one of the region in which the turn ran.
LEMMA StoppedOnce == Spec => []OneStopped
<1>1. Init => OneStopped
  BY ZenonT(60) DEF Init, OneStopped
<1>2. OneStopped /\ [Next]_vars => OneStopped'
  <2> SUFFICES ASSUME OneStopped, [Next]_vars PROVE OneStopped'
    OBVIOUS
  <2>1. CASE Stop
    <3>1. at \in Region /\ (stopped' = stopped \/ stopped' \subseteq {at})
      BY <2>1, ZenonT(60) DEF Stop, Runs
    <3> QED
      BY <3>1, Zenon DEF OneStopped
  <2>2. CASE Resume
    BY <2>2 DEF Resume, OneStopped
  <2>3. CASE stopped' = stopped
    BY <2>3, ZenonT(60) DEF OneStopped
  <2> QED
    BY <2>1, <2>2, <2>3, ZenonT(60)
       DEF Next, Loop, vars, Turn, Quiet, Later, Keeps, ZeroLoop, CommitInertial,
           CommitUpdates, Leave, Flush, Observe, Advance, Postpone
<1> QED
  BY <1>1, <1>2, PTL DEF Spec

------------------------------------------------------------------------------
(***************************************************************************)
(* Collector: no live object is freed, and a collection is precise.         *)
(***************************************************************************)

Tracing == phase \in {"pins", "roots", "interior"}

\* A collection runs between turns, and only with registrations; a turn keeps no
\* handle, and cleanup leaves no address of a wait or a queued write.
Resting ==
  /\ phase # "idle" => ~turn
  /\ ~turn => local = {}
  /\ ~registered => addressed = {}

\* No object has the mark of an epoch to come.
MarksOld == \A o \in heap : mark[o] <= epoch

\* An object with the mark is on the stack, or its fields have the mark too.
Coloured ==
  /\ gray \subseteq Marked
  /\ \A o \in Marked \ gray : fields[o] \subseteq Marked

\* What a root names has the mark or is about to be visited, as far as the
\* collection has come.
Reached ==
  /\ phase = "pins" => left = Producer /\ Pinned \subseteq Marked \cup scan
  /\ phase = "roots" => /\ Pinned \subseteq Marked
                        /\ \A p \in Producer \ left : roots[p] \subseteq Marked \cup scan
  /\ phase = "interior" => /\ Pinned \subseteq Marked
                           /\ \A p \in Producer : roots[p] \subseteq Marked
                           /\ addressed \subseteq Marked \cup scan

\* Nothing but what a root reaches has the mark.
Needed == Marked \subseteq Live /\ scan \subseteq Live

IInv ==
  /\ GcTypeOK
  /\ NoDangling
  /\ Resting
  /\ MarksOld
  /\ Tracing => Coloured /\ Reached /\ Needed

LEMMA InitIInv == GcInit => IInv
<1> SUFFICES ASSUME GcInit PROVE IInv
  OBVIOUS
<1> USE CollectorAssumption DEF GcInit
<1>1. GcTypeOK
  <2>1. epoch \in 0..MarkMax /\ mark \in [Object -> 0..MarkMax] /\ pins \in [Object -> 0..PinMax]
    OBVIOUS
  <2>2. since_last \in Nat /\ threshold \in Nat /\ failures \in Nat
    OBVIOUS
  <2> QED
    BY <2>1, <2>2, ZenonT(60) DEF GcTypeOK
<1>2. NoDangling
  BY DEF NoDangling, RootSet, Held, Closed, Pinned
<1>3. Resting /\ MarksOld /\ ~Tracing
  BY DEF Resting, MarksOld, Tracing
<1> QED
  BY <1>1, <1>2, <1>3 DEF IInv

------------------------------------------------------------------------------
(* Reachable objects *)

\* The reachable objects are a closed set with the roots, and are in every such set.
LEMMA LiveLeast ==
  ASSUME GcTypeOK
  PROVE  /\ RootSet \subseteq Live
         /\ Closed(Live)
         /\ \A S \in SUBSET Object : RootSet \subseteq S /\ Closed(S) => Live \subseteq S
<1>1. RootSet \subseteq Object
  BY DEF GcTypeOK, RootSet, Held, Pinned
<1>2. RootSet \subseteq Live
  BY <1>1 DEF Live
<1>3. Closed(Live)
  <2> SUFFICES ASSUME NEW o \in Live, NEW x \in fields[o] PROVE x \in Live
    BY DEF Closed
  <2>1. o \in Object /\ x \in Object
    BY DEF Live, GcTypeOK
  <2>2. ASSUME NEW S \in SUBSET Object, RootSet \subseteq S, Closed(S) PROVE x \in S
    <3>1. o \in S
      BY <2>2 DEF Live
    <3> QED
      BY <2>2, <3>1 DEF Closed
  <2> QED
    BY <2>1, <2>2 DEF Live
<1>4. ASSUME NEW S \in SUBSET Object, RootSet \subseteq S, Closed(S) PROVE Live \subseteq S
  BY <1>4 DEF Live
<1> QED
  BY <1>2, <1>3, <1>4

\* A step that leaves the stored handles and the heap alone leaves the reachable
\* objects alone.
LEMMA LiveSame ==
  ASSUME UNCHANGED <<heap, stored>>
  PROVE  Live' = Live /\ RootSet' = RootSet /\ Pinned' = Pinned
<1>1. RootSet' = RootSet /\ Pinned' = Pinned
  BY DEF RootSet, Held, Pinned, stored
<1>2. fields' = fields
  BY DEF stored
<1> QED
  BY <1>1, <1>2 DEF Live, Closed

------------------------------------------------------------------------------
(* Every step keeps the variables well formed *)

\* A set of objects has a size: the next threshold is twice the size of what is kept.
SizesCount == \A S \in SUBSET Object : Cardinality(S) \in Nat

LEMMA NextType == SizesCount /\ GcTypeOK /\ [GcNext]_gcVars => GcTypeOK'
<1> SUFFICES ASSUME SizesCount, GcTypeOK, [GcNext]_gcVars PROVE GcTypeOK'
  BY Zenon
<1> USE CollectorAssumption DEF GcTypeOK
<1>1. CASE StartTurn
  BY <1>1, Zenon DEF StartTurn, stored, trace
<1>2. ASSUME NEW o \in Object, Load(o) PROVE GcTypeOK'
  BY <1>2, Zenon DEF Load, stored, trace
<1>3. ASSUME NEW handles \in SUBSET Object, Store(handles) PROVE GcTypeOK'
  <2>1. fields' \in [Object -> SUBSET Object]
    BY <1>3 DEF Store
  <2>2. roots' \in [Producer -> SUBSET Object] /\ addressed' \subseteq Object
    BY <1>3, Zenon DEF Store
  <2> QED
    BY <1>3, <2>1, <2>2, ZenonT(60) DEF Store, trace
<1>4. ASSUME NEW o \in Object, llg_gc_alloc(o) PROVE GcTypeOK'
  <2>1. since_last' \in Nat
    BY <1>4 DEF llg_gc_alloc
  <2>2. mark' \in [Object -> 0..MarkMax] /\ pins' \in [Object -> 0..PinMax]
    BY <1>4 DEF llg_gc_alloc
  <2>3. fields' \in [Object -> SUBSET Object] /\ heap' \subseteq Object /\ local' \subseteq Object
    BY <1>4 DEF llg_gc_alloc
  <2>4. pending' \in BOOLEAN
    BY <1>4, Zenon DEF llg_gc_alloc, Due
  <2> QED
    BY <1>4, <2>1, <2>2, <2>3, <2>4, ZenonT(60) DEF llg_gc_alloc, trace
<1>5. ASSUME NEW o \in Object, llg_gc_pin(o) PROVE GcTypeOK'
  <2>1. pins' \in [Object -> 0..PinMax]
    BY <1>5 DEF llg_gc_pin
  <2> QED
    BY <1>5, <2>1, Zenon DEF llg_gc_pin, trace
<1>6. ASSUME NEW o \in Object, llg_gc_unpin(o) PROVE GcTypeOK'
  <2>1. pins' \in [Object -> 0..PinMax]
    BY <1>6 DEF llg_gc_unpin, Pinned
  <2> QED
    BY <1>6, <2>1, Zenon DEF llg_gc_unpin, trace
<1>7. CASE EndTurn
  BY <1>7, Zenon DEF EndTurn, gc_safe_point, stored, trace
<1>8. CASE Request
  BY <1>8 DEF Request, stored, trace
<1>9. CASE Begin
  <2>1. epoch' \in 0..MarkMax
    BY <1>9 DEF Begin, Wraps
  <2>2. mark' \in [Object -> 0..MarkMax]
    BY <1>9 DEF Begin, Cleared
  <2>3. scan' \subseteq Object
    BY <1>9, Zenon DEF Begin, Pinned
  <2> QED
    BY <1>9, <2>1, <2>2, <2>3, ZenonT(60) DEF Begin, stored
<1>10. ASSUME NEW o \in Object, llg_gc_visit(o) PROVE GcTypeOK'
  <2>1. mark' \in [Object -> 0..MarkMax] /\ gray' \subseteq Object
    BY <1>10, Zenon DEF llg_gc_visit
  <2> QED
    BY <1>10, <2>1, Zenon DEF llg_gc_visit, collectVars, stored
<1>11. ASSUME NEW o \in Object, gc_drain(o) PROVE GcTypeOK'
  <2>1. mark' \in [Object -> 0..MarkMax] /\ gray' \subseteq Object
    BY <1>11, Zenon DEF gc_drain
  <2> QED
    BY <1>11, <2>1, ZenonT(60) DEF gc_drain, collectVars, stored
<1>12. ASSUME NEW p \in Producer, Roots(p) PROVE GcTypeOK'
  BY <1>12, Zenon DEF Roots, stored
<1>13. CASE Interior
  BY <1>13, ZenonT(60) DEF Interior, interior_hit, stored
<1>14. CASE Sweep
  <2>1. heap' \subseteq Object /\ condemned' \subseteq Object
    BY <1>14, ZenonT(60) DEF Sweep, Dead
  <2>2. fields' \in [Object -> SUBSET Object] /\ mark' \in [Object -> 0..MarkMax]
    BY <1>14 DEF Sweep
  <2>3. Cardinality(heap \ Dead) \in Nat
    BY Zenon DEF SizesCount
  <2>4. threshold' \in Nat
    BY <1>14, <2>3 DEF Sweep
  <2>5. pending' \in BOOLEAN
    BY <1>14, Zenon DEF Sweep
  <2> QED
    BY <1>14, <2>1, <2>2, <2>4, <2>5 DEF Sweep, trace
<1>15. CASE Abandon
  <2>1. mark' \in [Object -> 0..MarkMax]
    BY <1>15, ZenonT(60) DEF Abandon
  <2>2. failures' \in Nat /\ threshold' \in Nat
    BY <1>15 DEF Abandon
  <2> QED
    BY <1>15, <2>1, <2>2, ZenonT(60) DEF Abandon, stored
<1>16. CASE llg_rt_cleanup
  BY <1>16, Zenon DEF llg_rt_cleanup, trace
<1>17. CASE gc_configure
  BY <1>17, Zenon DEF gc_configure, stored, trace
<1>18. CASE llg_gc_teardown
  <2>1. mark' \in [Object -> 0..MarkMax] /\ pins' \in [Object -> 0..PinMax] /\ epoch' \in 0..MarkMax
    BY <1>18 DEF llg_gc_teardown
  <2> QED
    BY <1>18, <2>1, ZenonT(60) DEF llg_gc_teardown, trace
<1>19. CASE UNCHANGED gcVars
  BY <1>19 DEF gcVars, stored, trace
<1> QED
  BY <1>1, <1>2, <1>3, <1>4, <1>5, <1>6, <1>7, <1>8, <1>9, <1>10, <1>11, <1>12, <1>13, <1>14,
     <1>15, <1>16, <1>17, <1>18, <1>19, ZenonT(60) DEF GcNext, Collection

------------------------------------------------------------------------------
(* The inductive invariant *)

\* Outside a collection only the handles, the marks and the turn matter.
LEMMA IdleStep ==
  ASSUME GcTypeOK', NoDangling', Resting', MarksOld', phase' \in {"idle", "collect"}
  PROVE  IInv'
BY DEF IInv, Tracing

\* A step of model code, or of the runtime's life.
LEMMA TurnStep ==
  ASSUME IInv, GcTypeOK',
         \/ StartTurn
         \/ \E o \in Object : Load(o) \/ llg_gc_alloc(o) \/ llg_gc_pin(o) \/ llg_gc_unpin(o)
         \/ \E handles \in SUBSET Object : Store(handles)
         \/ EndTurn
         \/ Request
         \/ llg_rt_cleanup
         \/ gc_configure
         \/ llg_gc_teardown
  PROVE  IInv'
<1> USE CollectorAssumption DEF NoDangling, Resting, RootSet, Held, Pinned, Closed
<1>0. GcTypeOK /\ NoDangling /\ Resting /\ MarksOld
  BY DEF IInv
<1>a. turn => phase = "idle"
  BY <1>0
<1>1. CASE StartTurn
  <2>1. NoDangling' /\ Resting' /\ MarksOld' /\ phase' = "idle"
    BY <1>0, <1>1 DEF StartTurn, stored, MarksOld
  <2> QED
    BY <2>1, IdleStep, ZenonT(60)
<1>2. ASSUME NEW o \in Object, Load(o) PROVE IInv'
  <2>1. o \in heap
    BY <1>0, <1>2, ZenonT(60) DEF Load, Readable
  <2>2. NoDangling' /\ Resting' /\ MarksOld' /\ phase' = "idle"
    BY <1>0, <1>a, <1>2, <2>1 DEF Load, stored, MarksOld
  <2> QED
    BY <2>2, IdleStep, Zenon
<1>3. ASSUME NEW handles \in SUBSET Object, Store(handles) PROVE IInv'
  <2>1. handles \subseteq heap
    BY <1>0, <1>3 DEF Store
  <2>2. Closed(heap)'
    <3>1. heap' = heap /\ \A o \in Object : fields'[o] = fields[o] \/ fields'[o] = handles
      BY <1>0, <1>3, ZenonT(60) DEF Store, GcTypeOK
    <3>2. heap \subseteq Object /\ \A o \in heap : fields[o] \subseteq heap
      BY <1>0, Zenon DEF GcTypeOK
    <3> QED
      BY ONLY <2>1, <3>1, <3>2 DEF Closed
  <2>3. Held' \subseteq heap /\ addressed' \subseteq heap /\ Pinned' \subseteq heap
    BY <1>0, <1>3, <2>1 DEF Store, GcTypeOK
  <2>4. NoDangling'
    BY <1>0, <1>3, <2>2, <2>3, ZenonT(60) DEF Store
  <2>5. Resting' /\ MarksOld' /\ phase' = "idle"
    BY <1>0, <1>a, <1>3, Zenon DEF Store, MarksOld
  <2> QED
    BY <2>4, <2>5, IdleStep, ZenonT(60)
<1>4. ASSUME NEW o \in Object, llg_gc_alloc(o) PROVE IInv'
  <2>1. Closed(heap)'
    BY <1>0, <1>4, ZenonT(60) DEF llg_gc_alloc, GcTypeOK
  <2>2. RootSet' \subseteq heap' /\ local' \subseteq heap'
    BY <1>0, <1>4 DEF llg_gc_alloc, GcTypeOK
  <2>3. MarksOld'
    <3>1. /\ heap' = heap \cup {o} /\ epoch' = epoch
          /\ mark' = [mark EXCEPT ![o] = 0]
      BY ONLY <1>4, Zenon DEF llg_gc_alloc
    <3>2. /\ mark \in [Object -> 0..MarkMax] /\ epoch \in 0..MarkMax /\ heap \subseteq Object
          /\ MarkMax \in Nat /\ \A x \in heap : mark[x] <= epoch
      BY <1>0, ZenonT(60) DEF GcTypeOK, MarksOld, CollectorAssumption
    <3> QED
      BY ONLY o \in Object, <3>1, <3>2 DEF MarksOld
  <2>4. Resting' /\ phase' = "idle"
    BY <1>0, <1>a, <1>4 DEF llg_gc_alloc
  <2> QED
    BY <2>1, <2>2, <2>3, <2>4, IdleStep, ZenonT(60)
<1>5. ASSUME NEW o \in Object, llg_gc_pin(o) \/ llg_gc_unpin(o) PROVE IInv'
  <2>1. turn /\ heap' = heap /\ mark' = mark /\ epoch' = epoch /\ phase' = phase
    BY ONLY <1>5, Zenon DEF llg_gc_pin, llg_gc_unpin
  <2>2. MarksOld' /\ phase' = "idle"
    BY ONLY <1>0, <1>a, <2>1, ZenonT(60) DEF MarksOld
  <2>3. NoDangling' /\ Resting'
    BY <1>0, <1>a, <1>5 DEF llg_gc_pin, llg_gc_unpin
  <2> QED
    BY <2>2, <2>3, IdleStep
<1>6. CASE EndTurn
  <2>1. NoDangling' /\ Resting' /\ MarksOld' /\ phase' \in {"idle", "collect"}
    BY <1>0, <1>6, Zenon DEF EndTurn, gc_safe_point, stored, MarksOld
  <2> QED
    BY <2>1, IdleStep, Zenon
<1>7. CASE Request
  <2>1. NoDangling' /\ Resting' /\ MarksOld' /\ phase' = "collect"
    BY <1>0, <1>7, Zenon DEF Request, stored, MarksOld
  <2> QED
    BY <2>1, IdleStep, Zenon
<1>8. CASE llg_rt_cleanup
  <2>1. NoDangling'
    <3>1. Held' \subseteq Held
      BY <1>0, <1>8 DEF llg_rt_cleanup, GcTypeOK
    <3>2. Pinned' = Pinned /\ addressed' = {} /\ heap' = heap /\ local' = local /\ fields' = fields
      BY <1>8, ZenonT(60) DEF llg_rt_cleanup
    <3> QED
      BY ONLY <1>0, <3>1, <3>2, ZenonT(60) DEF NoDangling, RootSet, Closed
  <2>2. Resting' /\ phase' = "idle"
    BY <1>0, <1>8 DEF llg_rt_cleanup
  <2>3. MarksOld'
    BY ONLY <1>0, <1>8, ZenonT(60) DEF llg_rt_cleanup, MarksOld
  <2> QED
    BY <2>1, <2>2, <2>3, IdleStep, ZenonT(60)
<1>9. CASE gc_configure
  <2>1. NoDangling' /\ Resting' /\ MarksOld' /\ phase' = "idle"
    BY <1>0, <1>9 DEF gc_configure, stored, MarksOld
  <2> QED
    BY <2>1, IdleStep
<1>10. CASE llg_gc_teardown
  <2>1. NoDangling' /\ Resting' /\ MarksOld' /\ phase' = "idle"
    BY <1>0, <1>10, ZenonT(60) DEF llg_gc_teardown, MarksOld
  <2> QED
    BY <2>1, IdleStep
<1> QED
  BY <1>1, <1>2, <1>3, <1>4, <1>5, <1>6, <1>7, <1>8, <1>9, <1>10

\* A step that marks or moves on leaves the handles alone.
LEMMA StoredSame ==
  ASSUME NoDangling, Resting,
         UNCHANGED <<registered, heap, stored, turn, local>>, phase # "idle"
  PROVE  NoDangling' /\ Resting'
BY DEF NoDangling, Resting, RootSet, Held, Pinned, Closed, stored

\* With everything visited, the marked objects are the reachable ones.
LEMMA MarkedIsLive ==
  ASSUME IInv, phase = "interior", Traced
  PROVE  Marked = Live /\ RootSet \subseteq Marked /\ Closed(Marked) /\ local = {}
<1>1. GcTypeOK /\ Coloured /\ Reached /\ Needed /\ Resting
  BY Zenon DEF IInv, Tracing
<1>2. RootSet \subseteq Marked
  BY <1>1, Zenon DEF Reached, Traced, RootSet, Held
<1>3. Closed(Marked)
  BY <1>1, Zenon DEF Coloured, Traced, Closed
<1>4. Marked \in SUBSET Object
  BY <1>1, Zenon DEF GcTypeOK, Marked
<1>5. Live \subseteq Marked
  BY <1>1, <1>2, <1>3, <1>4, LiveLeast, ZenonT(60)
<1> QED
  BY <1>1, <1>2, <1>3, <1>5, ZenonT(60) DEF Needed, Resting

LEMMA CollectionStep ==
  ASSUME IInv, GcTypeOK', Collection
  PROVE  IInv'
<1> USE CollectorAssumption
<1>0. GcTypeOK /\ NoDangling /\ Resting /\ MarksOld
  BY Zenon DEF IInv
<1>1. CASE Begin
  <2>1. NoDangling' /\ Resting'
    BY <1>0, <1>1, StoredSame, Zenon DEF Begin
  <2>2. MarksOld' /\ Marked' = {}
    <3>1. CASE Wraps
      BY <1>0, <1>1, <3>1 DEF Begin, Cleared, MarksOld, Marked, GcTypeOK
    <3>2. CASE ~Wraps
      BY <1>0, <1>1, <3>2 DEF Begin, MarksOld, Marked, GcTypeOK
    <3> QED
      BY <3>1, <3>2, ZenonT(60)
  <2>3. Coloured' /\ Reached'
    BY <1>1, <2>2, LiveSame, Zenon DEF Begin, Coloured, Reached
  <2>4. Needed'
    <3>1. Pinned \subseteq Live
      BY <1>0, LiveLeast, Zenon DEF RootSet
    <3> QED
      BY <1>1, <2>2, <3>1, LiveSame, Zenon DEF Begin, Needed
  <2> QED
    BY <2>1, <2>2, <2>3, <2>4, Zenon DEF IInv
<1>2. ASSUME NEW o \in Object, llg_gc_visit(o) PROVE IInv'
  <2> USE <1>2 DEF llg_gc_visit, collectVars
  <2>1. Tracing /\ Coloured /\ Reached /\ Needed
    BY Zenon DEF IInv, Tracing
  <2>2. NoDangling' /\ Resting'
    BY <1>0, StoredSame, Zenon
  <2>3. UNCHANGED <<heap, fields, roots, addressed, epoch, phase, left>>
    BY ZenonT(60) DEF stored
  <2>4. Marked' = Marked \cup ({o} \cap heap)
    BY <1>0, <2>3 DEF Marked, GcTypeOK
  <2>5. MarksOld'
    BY <1>0, <2>3, SMTT(60) DEF MarksOld, GcTypeOK
  <2>6. Coloured'
    BY <2>1, <2>3, <2>4 DEF Coloured
  <2>7. Live' = Live /\ Pinned' = Pinned
    BY LiveSame, Zenon
  <2>8. Needed'
    BY <2>1, <2>4, <2>7, Zenon DEF Needed
  <2>9. RootSet \subseteq heap
    BY <1>0, ZenonT(60) DEF NoDangling
  <2>10. Reached'
    <3>1. Pinned \subseteq heap /\ addressed \subseteq heap
      BY <2>9, Zenon DEF RootSet
    <3>2. \A p \in Producer : roots[p] \subseteq heap
      BY <1>0, <2>9, Zenon DEF RootSet, Held, GcTypeOK
    <3>3. \A S \in SUBSET heap : S \subseteq Marked \cup scan => S \subseteq Marked' \cup scan'
      BY <2>4, Zenon
    <3> QED
      BY <2>1, <2>3, <2>4, <2>7, <3>1, <3>2, <3>3 DEF Reached
  <2> QED
    BY <2>2, <2>5, <2>6, <2>8, <2>10, ZenonT(60) DEF IInv
<1>3. ASSUME NEW o \in Object, gc_drain(o) PROVE IInv'
  <2> DEFINE new == (fields[o] \cap heap) \ Marked
  <2> USE <1>3 DEF gc_drain, collectVars
  <2>1. CASE ~Tracing
    <3>1. NoDangling' /\ Resting' /\ ~Tracing'
      BY <1>0, <2>1 DEF NoDangling, Resting, RootSet, Held, Pinned, Closed, stored, Tracing
    <3>2. MarksOld'
      <4>1. /\ mark' = [x \in Object |-> IF x \in new THEN epoch ELSE mark[x]]
            /\ UNCHANGED <<heap, epoch>>
        BY ZenonT(60)
      <4>2. /\ epoch \in 0..MarkMax /\ heap \subseteq Object /\ MarkMax \in Nat
            /\ \A x \in heap : mark[x] <= epoch
        BY <1>0 DEF MarksOld, GcTypeOK, CollectorAssumption
      <4> HIDE DEF new
      <4> QED
        BY ONLY <4>1, <4>2 DEF MarksOld
    <3> QED
      BY <3>1, <3>2 DEF IInv
  <2>2. CASE Tracing
    <3>1. Coloured /\ Reached /\ Needed
      BY <2>2, Zenon DEF IInv
    <3>2. NoDangling' /\ Resting'
      BY <1>0, <2>2, StoredSame, Zenon DEF Tracing
    <3>3. UNCHANGED <<heap, fields, roots, addressed, epoch, phase, left, scan>>
      BY ZenonT(60) DEF stored
    <3>4. Marked' = Marked \cup new
      BY <1>0, <3>3 DEF Marked, GcTypeOK
    <3>5. MarksOld'
      BY <1>0, <3>3, SMTT(60) DEF MarksOld, GcTypeOK
    <3>6. fields[o] \subseteq Marked'
      <4>1. o \in heap
        BY <3>1, ZenonT(60) DEF Coloured, Marked
      <4> QED
        BY <1>0, <3>4, <4>1, Zenon DEF NoDangling, Closed
    <3>7. Coloured'
      <4>1. gray' \subseteq Marked'
        BY <3>1, <3>4, Zenon DEF Coloured
      <4>2. ASSUME NEW x \in Marked' \ gray' PROVE fields[x] \subseteq Marked'
        <5>1. x = o \/ x \in Marked \ gray
          BY <3>4, Zenon
        <5> QED
          BY <3>1, <3>4, <3>6, <5>1, ZenonT(60) DEF Coloured
      <4> QED
        BY <3>3, <4>1, <4>2 DEF Coloured
    <3>8. Live' = Live /\ Pinned' = Pinned
      BY LiveSame, ZenonT(60)
    <3>9. Needed'
      <4>1. o \in Live
        BY <3>1, Zenon DEF Coloured, Needed
      <4>2. fields[o] \subseteq Live
        BY <1>0, <4>1, LiveLeast, ZenonT(60) DEF Closed
      <4> QED
        BY <3>1, <3>3, <3>4, <3>8, <4>2 DEF Needed
    <3>10. Reached'
      BY <3>1, <3>3, <3>4, <3>8 DEF Reached
    <3> QED
      BY <3>2, <3>5, <3>7, <3>9, <3>10 DEF IInv
  <2> QED
    BY <2>1, <2>2, ZenonT(60)
<1>4. ASSUME NEW p \in Producer, Roots(p) PROVE IInv'
  <2> USE <1>4 DEF Roots
  <2>1. Coloured /\ Reached /\ Needed
    BY Zenon DEF IInv, Tracing
  <2>2. NoDangling' /\ Resting'
    BY <1>0, StoredSame, Zenon
  <2>3. UNCHANGED <<heap, fields, roots, addressed, epoch, mark, gray>>
    BY Zenon DEF stored
  <2>4. Marked' = Marked
    BY <2>3, ZenonT(60) DEF Marked
  <2>5. MarksOld' /\ Coloured'
    BY <1>0, <2>1, <2>3, <2>4 DEF MarksOld, Coloured
  <2>6. Live' = Live /\ Pinned' = Pinned
    BY LiveSame, Zenon
  <2>7. Needed'
    <3>1. roots[p] \subseteq Live
      BY <1>0, LiveLeast, ZenonT(60) DEF RootSet, Held, GcTypeOK
    <3> QED
      BY <2>1, <2>4, <2>6, <3>1, ZenonT(60) DEF Needed
  <2>8. Reached'
    BY <2>1, <2>3, <2>4, <2>6 DEF Reached, Traced
  <2> QED
    BY <2>2, <2>5, <2>7, <2>8 DEF IInv
<1>5. CASE Interior
  <2> USE <1>5 DEF Interior
  <2>1. Coloured /\ Reached /\ Needed
    BY Zenon DEF IInv, Tracing
  <2>2. NoDangling' /\ Resting'
    BY <1>0, StoredSame, Zenon
  <2>3. UNCHANGED <<heap, fields, roots, addressed, epoch, mark, gray>>
    BY Zenon DEF stored
  <2>4. Marked' = Marked
    BY <2>3, Zenon DEF Marked
  <2>5. MarksOld' /\ Coloured'
    BY <1>0, <2>1, <2>3, <2>4, ZenonT(60) DEF MarksOld, Coloured
  <2>6. Live' = Live /\ Pinned' = Pinned
    BY LiveSame, ZenonT(60)
  <2>7. Needed'
    <3>1. addressed \subseteq Live
      BY <1>0, LiveLeast, ZenonT(60) DEF RootSet
    <3> QED
      BY <2>1, <2>4, <2>6, <3>1 DEF Needed, interior_hit
  <2>8. Reached'
    BY <2>1, <2>3, <2>4, <2>6 DEF Reached, Traced, interior_hit
  <2> QED
    BY <2>2, <2>5, <2>7, <2>8 DEF IInv
<1>6. CASE Sweep
  <2> USE <1>6 DEF Sweep
  <2>1. RootSet \subseteq Marked /\ Closed(Marked) /\ local = {}
    BY MarkedIsLive, Zenon
  <2>2. heap' = Marked
    BY Zenon DEF Dead, Marked
  <2>3. \A o \in Marked : o \in Object /\ fields'[o] = fields[o] /\ mark'[o] = mark[o]
    BY <1>0, ZenonT(60) DEF Dead, Marked, GcTypeOK
  <2>4. Closed(heap)'
    BY <2>1, <2>2, <2>3 DEF Closed
  <2>5. RootSet' \subseteq heap'
    BY <2>1, <2>2, ZenonT(60) DEF RootSet, Held, Pinned
  <2>6. MarksOld'
    BY <1>0, <2>2, <2>3 DEF MarksOld, Marked
  <2>7. NoDangling' /\ Resting'
    BY <1>0, <2>1, <2>4, <2>5, ZenonT(60) DEF NoDangling, Resting
  <2> QED
    BY <2>6, <2>7, IdleStep
<1>7. CASE Abandon
  <2> USE <1>7 DEF Abandon
  <2>1. NoDangling' /\ Resting'
    BY <1>0, StoredSame
  <2>2. MarksOld'
    BY <1>0, SMTT(60) DEF MarksOld, GcTypeOK
  <2> QED
    BY <2>1, <2>2, IdleStep, ZenonT(60)
<1> QED
  BY <1>1, <1>2, <1>3, <1>4, <1>5, <1>6, <1>7 DEF Collection

LEMMA NextIInv == SizesCount /\ IInv /\ [GcNext]_gcVars => IInv'
<1> SUFFICES ASSUME SizesCount, IInv, [GcNext]_gcVars PROVE IInv'
  OBVIOUS
<1>1. GcTypeOK'
  BY NextType, Zenon DEF IInv
<1>2. CASE Collection
  BY <1>1, <1>2, CollectionStep, Zenon
<1>3. CASE UNCHANGED gcVars
  <2>1. Live' = Live /\ Pinned' = Pinned
    BY <1>3, LiveSame, Zenon DEF gcVars
  <2>2. NoDangling' /\ Resting' /\ MarksOld'
    <3>1. NoDangling'
      BY <1>3, <2>1, ZenonT(60) DEF IInv, gcVars, stored, NoDangling, RootSet, Held, Closed
    <3>2. Resting'
      BY <1>3, ZenonT(60) DEF IInv, gcVars, stored, Resting
    <3>3. MarksOld'
      BY <1>3, ZenonT(60) DEF IInv, gcVars, stored, MarksOld
    <3> QED
      BY <3>1, <3>2, <3>3
  <2>3. Marked' = Marked /\ (Tracing <=> Tracing')
    BY <1>3, ZenonT(60) DEF gcVars, Marked, Tracing
  <2>4. Tracing => (Coloured /\ Reached /\ Needed)'
    <3>1. Tracing => Coloured'
      BY <1>3, <2>3, ZenonT(60) DEF IInv, gcVars, stored, trace, Coloured
    <3>2. Tracing => Reached'
      BY <1>3, <2>1, <2>3, ZenonT(60) DEF IInv, gcVars, stored, trace, Reached
    <3>3. Tracing => Needed'
      BY <1>3, <2>1, <2>3, ZenonT(60) DEF IInv, gcVars, stored, trace, Needed
    <3> QED
      BY <3>1, <3>2, <3>3
  <2> QED
    BY <1>1, <2>2, <2>3, <2>4, ZenonT(60) DEF IInv
<1> QED
  BY <1>1, <1>2, <1>3, TurnStep, ZenonT(60) DEF GcNext

------------------------------------------------------------------------------
(* Theorems about the heap, and the last one about RegionLoop: they count *)

INSTANCE FiniteSetTheorems

LEMMA ObjectsCount == SizesCount
<1> SUFFICES ASSUME NEW S \in SUBSET Object PROVE Cardinality(S) \in Nat
  BY DEF SizesCount
<1>1. IsFiniteSet(S)
  BY FS_Subset, CollectorAssumption, Zenon
<1> QED
  BY <1>1, FS_CardinalityType, Zenon

LEMMA Invariant == GcSpec => []IInv
<1> QED
  BY InitIInv, NextIInv, ObjectsCount, PTL DEF GcSpec

\* Every variable of the collector stays well formed, the epoch within its bits.
THEOREM TypeCorrect == GcSpec => []GcTypeOK
<1>1. IInv => GcTypeOK
  BY Zenon DEF IInv
<1> QED
  BY <1>1, Invariant, PTL

\* No reachable handle ever names freed memory, whatever is allocated, pinned,
\* waited for or abandoned, for any number of objects, producers and mark bits.
THEOREM HandlesStayValid == GcSpec => []NoDangling
<1>1. IInv => NoDangling
  BY DEF IInv
<1> QED
  BY <1>1, Invariant, PTL

\* A collection that ends leaves exactly the reachable objects; one that is
\* abandoned leaves all of them.
THEOREM CollectsGarbage == GcSpec => Precise
<1> DEFINE Exact == /\ phase = "interior" /\ phase' = "idle" /\ failures' = failures => heap' = Live
                    /\ failures' # failures => heap' = heap
<1>1. IInv /\ [GcNext]_gcVars => [Exact]_gcVars
  <2> SUFFICES ASSUME IInv, GcNext PROVE Exact
    BY Zenon DEF gcVars
  <2>1. CASE Abandon
    <3>1. failures' # failures
      <4>1. failures \in Nat
        BY ONLY IInv, Zenon DEF IInv, GcTypeOK
      <4>2. failures' = failures + 1
        BY ONLY <2>1, ZenonT(60) DEF Abandon
      <4> QED
        BY ONLY <4>1, <4>2
    <3> QED
      BY <2>1, <3>1, ZenonT(60) DEF Abandon
  <2>2. CASE Sweep
    <3>1. heap' = Marked
      BY <2>2, Zenon DEF Sweep, Dead, Marked
    <3>2. heap' = Live
      BY <2>2, <3>1, MarkedIsLive, ZenonT(60) DEF Sweep
    <3> QED
      BY <2>2, <3>2 DEF Sweep
  <2>3. ASSUME ~Abandon, ~Sweep PROVE failures' = failures
    BY <2>3, ZenonT(60) DEF GcNext, Collection, StartTurn, Load, llg_gc_alloc, llg_gc_pin, llg_gc_unpin, Store,
       EndTurn, Request, Begin, llg_gc_visit, gc_drain, collectVars, Roots, Interior,
       llg_rt_cleanup, gc_configure, llg_gc_teardown
  <2>4. ASSUME ~Abandon, ~Sweep PROVE phase' # "idle" \/ phase # "interior"
    <3>1. turn => phase = "idle"
      BY DEF IInv, Resting
    <3> QED
      BY <2>4, <3>1, ZenonT(60) DEF GcNext, Collection, StartTurn, Load, llg_gc_alloc, llg_gc_pin, llg_gc_unpin,
         Store, EndTurn, Request, Begin, llg_gc_visit, gc_drain, collectVars, Roots, Interior,
         llg_rt_cleanup, gc_configure, llg_gc_teardown
  <2> QED
    BY <2>1, <2>2, <2>3, <2>4, Zenon
<1> QED
  BY <1>1, Invariant, PTL DEF GcSpec, Precise

\* The stopped process counts once, in its region.
LEMMA StoppedWork ==
  ASSUME NEW s \in [Work -> Nat], NEW stop, NEW r \in Region, stop \subseteq {r}, NEW w
  PROVE  Resumable(s, stop, w) = s[w] + IF w \in {Item(q) : q \in stop} THEN 1 ELSE 0
<1>1. CASE \E q \in stop : w = Item(q)
  <2>1. {q \in stop : w = Item(q)} = {r}
    BY <1>1, ZenonT(60)
  <2> QED
    BY <1>1, <2>1, FS_Singleton, ZenonT(60) DEF Resumable
<1>2. CASE ~\E q \in stop : w = Item(q)
  <2>1. {q \in stop : w = Item(q)} = {}
    BY <1>2, ZenonT(60)
  <2> QED
    BY <1>2, <2>1, FS_EmptySet, ZenonT(60) DEF Resumable
<1> QED
  BY <1>1, <1>2

\* For every limit and every use of callbacks, a run stopped under the exit policy is
\* resumed with the work it had, but for one Postponed item and the clock edges.
THEOREM StoppedKeepsWork == Spec => StopKeepsWork
<1>1. ASSUME LoopInv, OneStopped, [Next]_vars
      PROVE  [(mode = "leaving" \/ mode = "stopped") /\ mode' # "ended" =>
                \A w \in Work \ {Edge} : KeepsWork(w)]_vars
  <2> SUFFICES ASSUME Next, mode = "leaving" \/ mode = "stopped", mode' # "ended",
                      NEW w \in Work \ {Edge}
               PROVE  KeepsWork(w)
    BY <1>1, Zenon
  <2>0. PICK r \in Region : stopped \subseteq {r}
    BY <1>1, ZenonT(60) DEF OneStopped
  <2>1. slot \in [Work -> Nat] /\ slot[w] \in Nat
    BY <1>1 DEF LoopInv
  <2>2. Resumable(slot, stopped, w)
          = slot[w] + IF w \in {Item(q) : q \in stopped} THEN 1 ELSE 0
    BY <2>0, <2>1, StoppedWork, ZenonT(60)
  <2>3. CASE Postpone
    <3>1. stopped' = stopped /\ mode = "leaving"
      BY <2>3, Zenon DEF Postpone
    <3>2. \/ slot' = slot
          \/ slot[Item(POSTPONED)] > 0 /\ slot' = Take(slot, Item(POSTPONED))
      BY <2>3, ZenonT(60) DEF Postpone
    <3>3. slot' \in [Work -> Nat]
      BY <2>1, <3>2, WorkType, TakeWork
    <3>4. \/ slot'[w] = slot[w]
          \/ w = Item(POSTPONED) /\ slot'[w] + 1 = slot[w]
      BY <2>1, <3>2, WorkType DEF Take
    <3>5. Resumable(slot', stopped', w)
            = slot'[w] + IF w \in {Item(q) : q \in stopped} THEN 1 ELSE 0
      BY <2>0, <3>1, <3>3, StoppedWork, ZenonT(60)
    <3>6. slot'[w] \in Nat
      BY <3>3
    <3> QED
      BY <2>1, <2>2, <3>1, <3>4, <3>5, <3>6 DEF KeepsWork
  <2>4. CASE Resume
    <3>1. stopped' = {} /\ slot' = Entered(slot, {Item(q) : q \in stopped})
      BY <2>4 DEF Resume, Resumed
    <3>2. \A q : Item(q)[1] = "item"
      BY DEF Item
    <3>3. w \in {Item(q) : q \in stopped} => Add(slot, w)[w] = slot[w] + 1
      BY <2>1, <3>2 DEF Add
    <3>4. slot'[w] = slot[w] + IF w \in {Item(q) : q \in stopped} THEN 1 ELSE 0
      BY <2>1, <3>1, <3>3 DEF Entered
    <3>5. {q \in stopped' : w = Item(q)} = {}
      BY <3>1
    <3>6. Resumable(slot', stopped', w) = slot'[w]
      BY <2>1, <3>4, <3>5, FS_EmptySet DEF Resumable
    <3> QED
      BY <2>2, <3>4, <3>6 DEF KeepsWork
  <2> QED
    BY <2>3, <2>4, ZenonT(60)
       DEF Next, Loop, Turn, Quiet, Later, Stop, Runs, ZeroLoop, CommitInertial,
           CommitUpdates, Leave, Flush, Observe, Advance
<1> QED
  BY <1>1, LoopInvariant, StoppedOnce, PTL DEF Spec, StopKeepsWork

==============================================================================
