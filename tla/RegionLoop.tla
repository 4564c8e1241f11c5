------------------------------ MODULE RegionLoop -------------------------------
(***************************************************************************)
(* llg_rt_run: how the runtime walks the scheduling regions of a time slot      *)
(* and moves on to the next one.  A slot holds work: processes and callbacks    *)
(* queued in a region, zero-delay waits, nonblocking updates, inertial updates,  *)
(* edges of assertion clocks and pending reports of deferred assertions.  A turn  *)
(* of a process or callback does one of the things the runtime lets it do in its *)
(* region; what the work computes is left out.                                *)
(*                                                                          *)
(* Free checker variables, monitors and strobes are left out, and so is what    *)
(* happens after the loop ends (final blocks).                                *)
(***************************************************************************)
EXTENDS Naturals, FiniteSets, FiniteSetsExt

CONSTANTS
  Targets,       \* regions that turns schedule callbacks in
  Policies,      \* stop policies of the runs considered: "resume", "exit"
  ZeroLoopLimit, \* g.zero_loop_limit
  MaxTime,       \* bound: the last time for which work is scheduled
  MaxStops       \* bound: number of $stop calls

\* llg_region_t, and the point after the last region.
Region == 0..25
PREPONED == 0
ACTIVE == 3
NBA == 7
POST_NBA_PLI == 9
PRE_OBSERVED_PLI == 10
OBSERVED == 12
POST_OBSERVED_PLI == 14
REACTIVE == 15
RE_NBA == 19
POST_RE_NBA_PLI == 21
PRE_POSTPONED == 23
POSTPONED == 24
POSTPONED_PLI == 25
SLOT_END == 26

ASSUME RegionLoopAssumption ==
  /\ Targets \subseteq Region
  /\ Policies \subseteq {"resume", "exit"}
  /\ ZeroLoopLimit \in Nat
  /\ MaxTime \in Nat
  /\ MaxStops \in Nat

\* The design set and the reactive set have the same seven regions, from their
\* first one (their head) on: the region itself, Inactive, Pre-NBA PLI, Pre-NBA,
\* NBA, Post-NBA and Post-NBA PLI.
Heads == {ACTIVE, REACTIVE}
Inactive(head) == head + 1
PreNbaPli(head) == head + 2
Nba(head) == head + 4
PostNba(head) == head + 5
PostNbaPli(head) == head + 6
Design == ACTIVE..POST_NBA_PLI
Reactive == REACTIVE..POST_RE_NBA_PLI

\* The set whose zero-delay waits and updates a turn in region r adds to.
HeadOf(r) == IF r \in Reactive THEN REACTIVE ELSE ACTIVE

\* Work of one slot: a queued item of a region, or what waits in a set.
Item(r) == <<"item", r>>
Zero(head) == <<"zero", head>>
Update(head) == <<"nba", head>>
Inertial(head) == <<"inertial", head>>
Edge == <<"edge", OBSERVED>>
Report == <<"report", OBSERVED>>
Work == {Item(r) : r \in Region} \cup {Zero(h) : h \in Heads}
        \cup {Update(h) : h \in Heads} \cup {Inertial(h) : h \in Heads} \cup {Edge, Report}

VARIABLES
  now,      \* g.now
  at,       \* the region the loop is in
  draining, \* the queue of the head region is being run
  slot,     \* the work of the slot
  future,   \* work of later slots, with its time
  passes,   \* g.region_passes
  mode,     \* "run"; "leaving", "stopped" while g.suspended; "ended"
  policy,   \* g.stop_policy
  stopped,  \* the region of g.stop_proc
  stops     \* number of $stop calls

vars == <<now, at, draining, slot, future, passes, mode, policy, stopped, stops>>

\* Edges, updates and reports are kept as present or not: all of them are handled
\* at once.
Add(s, w) == [s EXCEPT ![w] = IF w[1] \in {"edge", "nba", "report"} THEN 1 ELSE @ + 1]
Take(s, w) == [s EXCEPT ![w] = @ - 1]
None == [w \in Work |-> 0]

\* Static processes start in Active; anything may have been registered before
\* the run.
Init ==
  /\ now = 0
  /\ at = PREPONED
  /\ draining = FALSE
  /\ \E r \in Region : slot = Add(Add(None, Item(ACTIVE)), Item(r))
  /\ future = {}
  /\ passes = 0
  /\ mode = "run"
  /\ policy \in Policies
  /\ stopped = {}
  /\ stops = 0

------------------------------------------------------------------------------
(* What is left to do *)

\* design_pending_before, reactive_pending_before.
PendingBefore(s, head, stop) ==
  \/ \E r \in head..(stop - 1) : s[Item(r)] > 0
  \/ s[Zero(head)] > 0
  \/ s[Inertial(head)] > 0
  \/ stop > Nba(head) /\ s[Update(head)] > 0

\* design_pending, reactive_pending.
Pending(s, head) == PendingBefore(s, head, PostNbaPli(head) + 1)

\* observed_pending.
ObservedPending(s) ==
  s[Edge] > 0 \/ \E r \in PRE_OBSERVED_PLI..POST_OBSERVED_PLI : s[Item(r)] > 0

AnyPending(s) == Pending(s, ACTIVE) \/ ObservedPending(s) \/ Pending(s, REACTIVE)

\* Variant: design processes woken in Observed wait for the reactive set.
Woken_Never(s) == FALSE

\* Design processes that were woken in Observed run before the reactive set.
Woken(s) == Pending(s, ACTIVE)

\* Reports issued in the reactive set are matured before its queue is left
\* (drain_reactive_set).
Unreported(r, s) == r = REACTIVE /\ s[Report] > 0

\* Where the loop goes from region r once its queue is empty.
After(r, s) ==
  CASE r \in Heads -> IF s[Item(Inactive(r))] > 0 THEN Inactive(r) ELSE PreNbaPli(r)
    [] r = Inactive(HeadOf(r)) -> HeadOf(r)
    [] r \in PreNbaPli(HeadOf(r))..PostNba(HeadOf(r)) ->
         IF PendingBefore(s, HeadOf(r), r) THEN HeadOf(r) ELSE r + 1
    [] r = POST_NBA_PLI -> IF Pending(s, ACTIVE) THEN ACTIVE ELSE r + 1
    [] r = POST_OBSERVED_PLI -> IF Woken(s) THEN ACTIVE ELSE r + 1
    [] r = POST_RE_NBA_PLI ->
         IF Pending(s, REACTIVE) THEN REACTIVE
         ELSE IF AnyPending(s) THEN ACTIVE ELSE r + 1
    [] r = PRE_POSTPONED -> IF AnyPending(s) THEN ACTIVE ELSE r + 1
    [] OTHER -> r + 1

------------------------------------------------------------------------------
(* Turns *)

\* region_is_read_only_now.
ReadOnly(r) ==
  \/ r <= 1
  \/ r \in PRE_OBSERVED_PLI..POST_OBSERVED_PLI
  \/ r \in {POSTPONED, POSTPONED_PLI}

\* Variant: a callback may be scheduled for a region that is over.
Allowed_Backward(r, w) ==
  IF ReadOnly(r) THEN r = OBSERVED /\ w \in {Item(ACTIVE), Item(REACTIVE)}
  ELSE w[1] \in {"item", "edge", "report"} \/ w[2] = HeadOf(r)

\* Work that a turn in region r may add to its own slot: callback_region_allowed,
\* region_can_mutate, and the clocking events that wake processes in Observed.
Allowed(r, w) ==
  IF ReadOnly(r) THEN r = OBSERVED /\ w \in {Item(ACTIVE), Item(REACTIVE)}
  ELSE \/ w[1] = "item" /\ (w[2] >= r \/ w[2] \in Design \cup Reactive)
       \/ w[1] \in {"zero", "nba", "inertial"} /\ w[2] = HeadOf(r)
       \/ w = Edge
       \/ w = Report

\* consume_limit grants another pass.
Within == passes < ZeroLoopLimit

\* Variant: a process that comes back from a zero-delay wait is not counted.
Consumed_ZeroWaits(r) == IF r = Inactive(HeadOf(r)) THEN passes ELSE passes + 1

\* consume_limit counts it.
Consumed(r) == passes + 1

\* run_region_queue takes the next item of region at, within the limit; s is what
\* is left of the slot.  Inertial updates precede a queue that has not started.
Runs(s) ==
  /\ mode = "run" /\ at \in Region
  /\ slot[Item(at)] > 0
  /\ at \in Heads => draining \/ slot[Inertial(at)] = 0
  /\ Within
  /\ passes' = Consumed(at)
  /\ s = Take(slot, Item(at))

\* The regions in which processes run, which execute deferred assertions.
Executes(r) == \E head \in Heads : r \in {head, Inactive(head)}

\* What a turn may try to leave behind.
Attempt == {w \in Work : /\ w[1] = "item" => w[2] \in Targets \cup Heads
                         /\ w = Report => Executes(at)}

Keeps == UNCHANGED <<now, at, policy, stopped, stops>>

\* The queue of a head region is left when it is empty.
Drained(s) == draining' = (at \in Heads /\ s[Item(at)] > 0)

\* A turn that leaves nothing behind, or adds work to its slot; work that is not
\* allowed there ends the run (region_violation).
Turn ==
  LET s == Take(slot, Item(at))
  IN /\ Runs(s)
     /\ \E w \in Attempt :
          IF Allowed(at, w) THEN slot' = Add(s, w) /\ mode' = mode
          ELSE slot' = s /\ mode' = "ended"
     /\ Drained(slot')
     /\ UNCHANGED future
     /\ Keeps

\* A turn that adds nothing; a process that comes back from an event control drops
\* its pending reports first (deferred_resume_flush).
Quiet ==
  LET s == Take(slot, Item(at))
  IN /\ Runs(s)
     /\ \/ slot' = s
        \/ Executes(at) /\ slot' = [s EXCEPT ![Report] = 0]
     /\ mode' \in {mode, "ended"}  \* $finish
     /\ Drained(s)
     /\ UNCHANGED future
     /\ Keeps

\* A turn schedules work for a later time.
Later ==
  LET s == Take(slot, Item(at))
  IN /\ Runs(s)
     /\ slot' = s
     /\ \E t \in (now + 1)..MaxTime,
           w \in {x \in Attempt : x[1] \in {"item", "nba", "inertial"}} :
          /\ w[1] # "item" => ~ReadOnly(at) /\ w[2] = HeadOf(at)
          /\ future' = future \cup {<<t, w>>}
     /\ Drained(s)
     /\ UNCHANGED mode
     /\ Keeps

\* $stop in a process, which goes on behind the items of its region, or in a
\* callback; the callback that runs matured reports queues itself again when one of
\* them stops the run (deferred_matured_callback).  Under the exit policy the loop
\* is left: at once, or by way of the Postponed region when it was between Active
\* and Pre-Postponed.
Stop ==
  LET s == Take(slot, Item(at))
  IN /\ Runs(s)
     /\ stops < MaxStops
     /\ stops' = stops + 1
     /\ \E proc \in SUBSET {at}, requeued \in SUBSET {REACTIVE} :
          LET kept == IF at \in requeued \ proc THEN Add(s, Item(at)) ELSE s IN
          \/ /\ policy = "resume"
             /\ slot' = IF proc = {} THEN kept ELSE Add(s, Item(at))
             /\ UNCHANGED <<mode, stopped>>
          \/ /\ policy = "exit"
             /\ slot' = kept
             /\ stopped' = proc
             /\ mode' = IF at \in ACTIVE..PRE_POSTPONED THEN "leaving" ELSE "stopped"
     /\ Drained(slot')
     /\ UNCHANGED <<now, at, future, policy>>

------------------------------------------------------------------------------
(* The loop *)

\* Something is about to run that counts against the limit.
Busy ==
  \/ slot[Item(at)] > 0
  \/ at \in Heads /\ slot[Inertial(at)] > 0
  \/ at = Nba(HeadOf(at)) /\ slot[Update(HeadOf(at))] > 0

\* report_zero_delay_loop.
ZeroLoop ==
  /\ mode = "run" /\ at \in Region
  /\ ~Within /\ Busy
  /\ mode' = "ended"
  /\ UNCHANGED <<now, at, draining, slot, future, passes, policy, stopped, stops>>

\* What an update of a value leads to: processes woken, an assertion clock edge.
Published(s) ==
  {[w \in Work |-> IF w \in new THEN Add(s, w)[w] ELSE s[w]] :
     new \in SUBSET {Item(ACTIVE), Item(REACTIVE), Edge}}

\* commit_inertial_batch: one update of the batch.
CommitInertial ==
  /\ mode = "run" /\ at \in Heads /\ ~draining
  /\ slot[Inertial(at)] > 0
  /\ Within
  /\ passes' = passes + 1
  /\ slot' \in Published(Take(slot, Inertial(at)))
  /\ UNCHANGED <<now, at, draining, future, mode, policy, stopped, stops>>

\* commit_nbas: all updates of the set, after the queue of its NBA region.
CommitUpdates ==
  LET head == HeadOf(at)
  IN /\ mode = "run" /\ at = Nba(head)
     /\ slot[Item(at)] = 0 /\ slot[Update(head)] > 0
     /\ Within
     /\ passes' = passes + 1
     /\ slot' \in Published([slot EXCEPT ![Update(head)] = 0])
     /\ at' = After(at, slot')
     /\ UNCHANGED <<now, draining, future, mode, policy, stopped, stops>>

\* wake_zero_waits, before the Inactive region runs.
Awake(s, r) ==
  IF r \in Heads
  THEN [s EXCEPT ![Item(Inactive(r))] = @ + s[Zero(r)], ![Zero(r)] = 0]
  ELSE s

\* The region is done, the loop goes on.
Leave ==
  /\ mode = "run" /\ at \in Region \ {OBSERVED}
  /\ ~Busy /\ ~Unreported(at, slot)
  /\ slot' = Awake(slot, at)
  /\ at' = After(at, slot')
  /\ UNCHANGED <<now, draining, future, passes, mode, policy, stopped, stops>>

\* flush_deferred_assertions: what is pending matures and is run by one callback in
\* Reactive, which may be queued already.
Matured(s) ==
  IF s[Report] = 0 THEN {s}
  ELSE {[t EXCEPT ![Report] = 0] :
          t \in {x \in {s, Add(s, Item(REACTIVE))} : x[Item(REACTIVE)] > 0}}

\* drain_reactive_set: reports of the reactive set mature when its queue is empty.
Flush ==
  /\ mode = "run" /\ at \in Region
  /\ ~Busy /\ Unreported(at, slot)
  /\ slot' \in Matured(slot)
  /\ UNCHANGED <<now, at, draining, future, passes, mode, policy, stopped, stops>>

\* run_concurrent_assertions: an assertion may queue its action in Reactive; then
\* the pending reports mature.
Observe ==
  LET s == [slot EXCEPT ![Edge] = 0]
  IN /\ mode = "run" /\ at = OBSERVED
     /\ slot[Item(at)] = 0
     /\ \/ slot' \in Matured(s)
        \/ slot[Edge] > 0 /\ slot' \in Matured(Add(s, Item(REACTIVE)))
     /\ at' = at + 1
     /\ UNCHANGED <<now, draining, future, passes, mode, policy, stopped, stops>>

\* The slot is entered with the work that became due; sample_preponed_values
\* clears the edges of assertion clocks.
Entered(s, due) ==
  [w \in Work |-> IF w = Edge THEN 0 ELSE IF w \in due THEN Add(s, w)[w] ELSE s[w]]

\* llg_rt_run after the slot: the next time at which there is work, and that work.
\* A callback left behind makes the slot run again.
Advance ==
  LET left == \E r \in Region : slot[Item(r)] > 0
      times == {f[1] : f \in future} \cup (IF left THEN {now} ELSE {})
      t == Min(times)
      due == {f[2] : f \in {g \in future : g[1] = t}}
      again == times # {} /\ t <= now
  IN /\ mode = "run" /\ at = SLOT_END
     /\ IF times = {} \/ (again /\ ~Within)
        THEN /\ mode' = "ended"
             /\ UNCHANGED <<now, at, slot, future, passes>>
        ELSE /\ now' = t
             /\ at' = PREPONED
             /\ slot' = Entered(slot, due)
             /\ future' = {f \in future : f[1] # t}
             /\ passes' = IF again THEN passes + 1 ELSE 0
             /\ UNCHANGED mode
     /\ UNCHANGED <<draining, policy, stopped, stops>>

\* The way out after a $stop: run_postponed_set still runs one Postponed item,
\* which may schedule a callback for later or end the run.
Postpone ==
  LET item == slot[Item(POSTPONED)] > 0
      runs == item /\ Within
  IN /\ mode = "leaving"
     /\ at' = POSTPONED
     /\ slot' = IF item THEN Take(slot, Item(POSTPONED)) ELSE slot
     /\ passes' = IF runs THEN passes + 1 ELSE passes
     /\ \/ ~item /\ mode' = "stopped" /\ future' = future
        \/ item /\ mode' = "ended" /\ future' = future
        \/ /\ runs /\ mode' = "stopped"
           /\ \E new \in SUBSET {<<t, Item(POSTPONED)>> : t \in (now + 1)..MaxTime} :
                future' = future \cup new
     /\ draining' = FALSE
     /\ UNCHANGED <<now, policy, stopped, stops>>

\* Variant: the stopped process is forgotten.
Resumed_Lost == {}

\* resume_stopped_process: the process goes on behind the items of its region.
Resumed == {Item(r) : r \in stopped}

\* llg_rt_resume and the next llg_rt_run: the slot is entered again from its
\* start.
Resume ==
  /\ mode = "stopped"
  /\ mode' = "run"
  /\ at' = PREPONED
  /\ slot' = Entered(slot, Resumed)
  /\ stopped' = {}
  /\ draining' = FALSE
  /\ UNCHANGED <<now, future, passes, policy, stops>>

Loop ==
  \/ Turn
  \/ Quiet
  \/ Later
  \/ Stop
  \/ ZeroLoop
  \/ CommitInertial
  \/ CommitUpdates
  \/ Leave
  \/ Flush
  \/ Observe
  \/ Advance
  \/ Postpone

Next == Loop \/ Resume

\* The loop goes on by itself; whether a stopped run is resumed is up to the
\* program that embeds the runtime.
Spec == Init /\ [][Next]_vars /\ WF_vars(Loop)

------------------------------------------------------------------------------
(* Properties *)

\* Every variable is well formed; the passes of a slot stay within the limit.
TypeOK ==
  /\ now \in 0..MaxTime
  /\ at \in 0..SLOT_END
  /\ draining \in BOOLEAN
  /\ slot \in [Work -> Nat]
  /\ future \subseteq (1..MaxTime) \X Work
  /\ passes \in 0..ZeroLoopLimit
  /\ mode \in {"run", "leaving", "stopped", "ended"}
  /\ policy \in Policies
  /\ stopped \subseteq Region
  /\ stops \in 0..MaxStops

\* Time advances only when nothing of the slot is left: no queued process or
\* callback in any region, no zero-delay wait, no update, no assertion clock edge,
\* no report of a deferred assertion.
\* So llg_rt_run never enters the same time twice (its t <= g.now branch).
SlotComplete ==
  mode = "run" /\ at = SLOT_END => \A w \in Work : slot[w] = 0

\* The regions are entered in the order of IEEE 1800 4.5 with everything before
\* them done: inside the design and the reactive set all earlier regions of the
\* set; for Observed and Reactive the design set; for Pre-Postponed and Postponed
\* all three sets.
RegionOrder ==
  [][mode = "run" /\ mode' = "run" /\ at' > at =>
       /\ at' \in Design \cup Reactive =>
            ~PendingBefore(slot', HeadOf(at'), at') \/ at' \in Heads
       /\ at' \in {PRE_OBSERVED_PLI, REACTIVE} => ~Pending(slot', ACTIVE)
       /\ at' \in {POST_RE_NBA_PLI + 1, POSTPONED} =>
            \A w \in Work : slot'[w] > 0 => w[1] = "item" /\ (w[2] >= at' \/ w[2] < ACTIVE)]_vars

\* The work w of a slot and of its stopped process.
Resumable(s, stop, w) == s[w] + Cardinality({r \in stop : w = Item(r)})

\* The step keeps the work w, or runs one Postponed item on the way out.
KeepsWork(w) ==
  LET before == Resumable(slot, stopped, w)
      after == Resumable(slot', stopped', w)
  IN \/ after = before
     \/ w = Item(POSTPONED) /\ mode = "leaving" /\ after + 1 = before

\* A run that a $stop leaves under the exit policy continues with the work it had:
\* from the stop to the end of llg_rt_resume the stopped process and everything
\* queued are kept ("Keep all scheduler queues ... in place", llg_rt_run), but for
\* one Postponed item that still runs and the assertion clock edges, which the
\* sampling of the slot entered again clears.
StopKeepsWork ==
  [][(mode = "leaving" \/ mode = "stopped") /\ mode' # "ended" =>
       \A w \in Work \ {Edge} : KeepsWork(w)]_vars

\* Every slot ends: time advances, the run ends or it is stopped, however the
\* turns wake each other (consume_limit).
SlotsEnd == []<>(at = SLOT_END \/ mode # "run")

==============================================================================
