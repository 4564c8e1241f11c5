------------------------------- MODULE Collector -------------------------------
(***************************************************************************)
(* The collected object heap of the simulator's runtime: a non-moving          *)
(* mark-sweep collector with an epoch for a mark (gc/collector.c), its          *)
(* scheduler roots (gc/roots.c) and its safe points (run_region_queue).  A       *)
(* collection is one C call; its steps are kept apart because memory may run     *)
(* out in any of them, which abandons it with the marks it has set.             *)
(*                                                                          *)
(* An object is its address: an address is given out again once it is freed.    *)
(* The mark stack is kept as a set, and so is the index, whose order of slots    *)
(* is any order.  Creation serials, statistics and the reclaim hook are left     *)
(* out.                                                                      *)
(***************************************************************************)
EXTENDS Naturals, FiniteSets

CONSTANTS
  Object,         \* addresses of class objects
  Producer,       \* registered root producers
  Scheduler,      \* the producer gc_scheduler_roots
  GcPolicies,     \* the policies considered: "normal", "stress", "verify", "off"
  MarkMax,        \* LLG_GC_MARK_MAX
  PinMax,         \* LLG_GC_PIN_MAX
  BaseThreshold,  \* llg_gc.base_threshold
  GrowthPercent,  \* llg_gc.growth_percent
  Width,          \* bound: handles that one object or producer holds
  MaxStored,      \* bound: objects with fields, producers and waits that hold any
  MaxLocal,       \* bound: handles that a turn holds
  MaxFailures     \* bound: abandoned collections

ASSUME CollectorAssumption ==
  /\ IsFiniteSet(Object)
  /\ Scheduler \in Producer
  /\ GcPolicies \subseteq {"normal", "stress", "verify", "off"}
  /\ MarkMax \in Nat \ {0}
  /\ PinMax \in Nat
  /\ BaseThreshold \in Nat \ {0}
  /\ GrowthPercent \in Nat

VARIABLES
  gc_policy,   \* LLG_GC, LLG_GC_STRESS, LLG_GC_VERIFY
  registered,  \* between llg_rt_init and llg_rt_cleanup
  heap,        \* the objects of the identity index
  condemned,   \* unreachable objects that verify mode keeps allocated
  fields,      \* the handles in the fields of an object
  roots,       \* the handles that each producer reports
  addressed,   \* objects that a wait or a queued write points into
  mark, pins,  \* the two fields of an object's header
  turn,        \* a process turn or a region callback is under way
  local,       \* the handles it holds outside the storage above
  pending,     \* llg_gc_pending
  since_last, threshold, epoch,
  phase,       \* where llg_gc_collect is
  left,        \* the producers it has not called yet
  scan,        \* the handles about to be visited
  gray,        \* the mark stack
  failures     \* counter of the bound

stored == <<fields, roots, addressed, pins>>
trace == <<left, scan, gray>>
gcVars == <<gc_policy, registered, heap, condemned, stored, mark, turn, local, pending,
          since_last, threshold, epoch, phase, trace, failures>>

Pinned == {o \in heap : pins[o] > 0}

GcInit ==
  /\ gc_policy \in GcPolicies
  /\ registered = TRUE
  /\ heap = {} /\ condemned = {}
  /\ fields = [o \in Object |-> {}]
  /\ roots = [p \in Producer |-> {}]
  /\ addressed = {}
  /\ mark = [o \in Object |-> 0]
  /\ pins = [o \in Object |-> 0]
  /\ turn = FALSE /\ local = {}
  /\ pending = FALSE
  /\ since_last = 0 /\ threshold = BaseThreshold /\ epoch = 0
  /\ phase = "idle"
  /\ left = {} /\ scan = {} /\ gray = {}
  /\ failures = 0

------------------------------------------------------------------------------
(* Turns: what model code does with handles *)

\* A process is resumed, a callback runs, or a final procedure after cleanup.
StartTurn ==
  /\ phase = "idle" /\ ~turn
  /\ turn' = TRUE
  /\ UNCHANGED <<gc_policy, registered, heap, condemned, stored, mark, local, pending,
                 since_last, threshold, epoch, phase, trace, failures>>

\* The objects whose handles are in storage that a producer reports.
Held == {o \in Object : \E p \in Producer : o \in roots[p]}

\* The objects whose handles a turn can read.
Readable == Held \cup {o \in Object : \E x \in local : o \in fields[x]}

Load(o) ==
  /\ turn
  /\ o \in Readable \ local
  /\ Cardinality(local) < MaxLocal
  /\ local' = local \cup {o}
  /\ UNCHANGED <<gc_policy, registered, heap, condemned, stored, mark, turn, pending,
                 since_last, threshold, epoch, phase, trace, failures>>

\* The places that hold handles.
Holding == Cardinality({o \in Object : fields[o] # {}})
             + Cardinality({p \in Producer : roots[p] # {}}) + Cardinality(addressed)

\* A handle is stored in an object, in storage that a producer reports, or in a
\* wait or queued write; handles may be replaced by null.
Store(handles) ==
  /\ turn
  /\ handles \subseteq local
  /\ Cardinality(handles) <= Width
  /\ \/ /\ \E o \in local : fields' = [fields EXCEPT ![o] = handles]
        /\ UNCHANGED <<roots, addressed>>
     \/ /\ \E p \in Producer : /\ p = Scheduler => registered
                               /\ roots' = [roots EXCEPT ![p] = handles]
        /\ UNCHANGED <<fields, addressed>>
     \/ /\ registered
        /\ addressed' = handles
        /\ UNCHANGED <<fields, roots>>
  /\ Holding' <= MaxStored
  /\ UNCHANGED <<gc_policy, registered, heap, condemned, mark, pins, turn, local, pending,
                 since_last, threshold, epoch, phase, trace, failures>>

\* Whether an allocation asks for a collection, with the count it reaches.
Due(count) == gc_policy # "off" /\ (gc_policy = "stress" \/ count >= threshold)

\* llg_gc_alloc; memory gives out any address that is not in use.
llg_gc_alloc(o) ==
  LET count == IF gc_policy \in {"stress", "off"} THEN since_last ELSE since_last + 1
  IN /\ turn
     /\ o \notin heap \cup condemned
     /\ Cardinality(local) < MaxLocal
     /\ heap' = heap \cup {o}
     /\ mark' = [mark EXCEPT ![o] = 0]
     /\ pins' = [pins EXCEPT ![o] = 0]
     /\ fields' = [fields EXCEPT ![o] = {}]
     /\ local' = local \cup {o}
     /\ since_last' = count
     /\ pending' = (pending \/ Due(count))
     /\ UNCHANGED <<gc_policy, registered, condemned, roots, addressed, turn, threshold,
                    epoch, phase, trace, failures>>

\* llg_gc_pin; one pin too many is fatal.
llg_gc_pin(o) ==
  /\ turn
  /\ o \in local \cap heap
  /\ pins[o] < PinMax
  /\ pins' = [pins EXCEPT ![o] = @ + 1]
  /\ UNCHANGED <<gc_policy, registered, heap, condemned, fields, roots, addressed, mark, turn,
                 local, pending, since_last, threshold, epoch, phase, trace, failures>>

\* llg_gc_unpin by whoever pinned it; it holds the handle through the pin.
llg_gc_unpin(o) ==
  /\ turn
  /\ o \in Pinned
  /\ pins' = [pins EXCEPT ![o] = @ - 1]
  /\ UNCHANGED <<gc_policy, registered, heap, condemned, fields, roots, addressed, mark, turn,
                 local, pending, since_last, threshold, epoch, phase, trace, failures>>

\* gc_safe_point: a requested collection starts when the turn has ended; after
\* cleanup the scheduler reaches no safe point.
gc_safe_point == IF pending /\ registered THEN "collect" ELSE "idle"

EndTurn ==
  /\ turn
  /\ turn' = FALSE
  /\ local' = {}
  /\ phase' = gc_safe_point
  /\ UNCHANGED <<gc_policy, registered, heap, condemned, stored, mark, pending, since_last,
                 threshold, epoch, trace, failures>>

\* An embedding without a running process calls llg_gc_collect.
Request ==
  /\ phase = "idle" /\ ~turn /\ registered
  /\ gc_policy # "off"
  /\ phase' = "collect"
  /\ UNCHANGED <<gc_policy, registered, heap, condemned, stored, mark, turn, local, pending,
                 since_last, threshold, epoch, trace, failures>>

------------------------------------------------------------------------------
(* llg_gc_collect *)

\* Variant: the marks of earlier epochs stay when the epochs start again.
Cleared_Never(o) == mark[o]

\* The mark of an object after the epochs were used up.
Cleared(o) == 0

\* Variant: the largest epoch is used once more.
Wraps_Late == epoch > MarkMax

\* The epochs are used up.
Wraps == epoch >= MarkMax

\* The head of llg_gc_collect: a new epoch.
Begin ==
  /\ phase = "collect"
  /\ pending' = FALSE
  /\ epoch' = IF Wraps THEN 1 ELSE epoch + 1
  /\ mark' = IF Wraps THEN [o \in Object |-> Cleared(o)] ELSE mark
  /\ phase' = "pins"
  /\ left' = Producer
  /\ scan' = Pinned
  /\ gray' = {}
  /\ UNCHANGED <<gc_policy, registered, heap, condemned, stored, turn, local, since_last,
                 threshold, failures>>

Marked == {o \in heap : mark[o] = epoch}

collectVars == <<gc_policy, registered, heap, condemned, stored, turn, local, pending,
                 since_last, threshold, epoch, phase, failures>>

\* Pinned objects and the handles of a producer are all visited before the stack is
\* drained, an object found by an address inside it at once.
llg_gc_visit(o) ==
  /\ phase \in {"pins", "roots", "interior"}
  /\ o \in scan
  /\ phase = "interior" => gray = {}
  /\ scan' = scan \ {o}
  /\ mark' = IF o \in heap THEN [mark EXCEPT ![o] = epoch] ELSE mark
  /\ gray' = IF o \in heap \ Marked THEN gray \cup {o} ELSE gray
  /\ UNCHANGED <<collectVars, left>>

\* gc_drain takes one object off the stack and traces its fields.
gc_drain(o) ==
  LET new == (fields[o] \cap heap) \ Marked
  IN /\ o \in gray
     /\ phase = "interior" \/ scan = {}
     /\ mark' = [x \in Object |-> IF x \in new THEN epoch ELSE mark[x]]
     /\ gray' = (gray \ {o}) \cup new
     /\ UNCHANGED <<collectVars, left, scan>>

Traced == scan = {} /\ gray = {}

\* The next root producer is called.
Roots(p) ==
  /\ phase \in {"pins", "roots"}
  /\ Traced
  /\ p \in left
  /\ phase' = "roots"
  /\ left' = left \ {p}
  /\ scan' = roots[p]
  /\ UNCHANGED <<gc_policy, registered, heap, condemned, stored, mark, turn, local, pending,
                 since_last, threshold, epoch, gray, failures>>

\* Variant: an address counts when it is that of the object's start.
interior_hit_Exact == {}

\* The objects that an address points into (llg_gc_interior_hit).
interior_hit == addressed

\* The scan of the index for them starts.
Interior ==
  /\ phase = "roots"
  /\ Traced /\ left = {}
  /\ phase' = "interior"
  /\ scan' = interior_hit
  /\ UNCHANGED <<gc_policy, registered, heap, condemned, stored, mark, turn, local, pending,
                 since_last, threshold, epoch, left, gray, failures>>

Dead == heap \ Marked

\* The objects without the mark are finalized, or condemned, and the next
\* threshold follows from what is left.
Sweep ==
  LET grown == (Cardinality(heap \ Dead) * GrowthPercent) \div 100
  IN /\ phase = "interior" /\ Traced
     /\ heap' = heap \ Dead
     /\ fields' = [o \in Object |-> IF o \in Dead THEN {} ELSE fields[o]]
     /\ mark' = [o \in Object |-> IF o \in Dead THEN 0 ELSE mark[o]]
     /\ condemned' = IF gc_policy = "verify" THEN condemned \cup Dead ELSE condemned
     /\ threshold' = IF grown > BaseThreshold THEN grown ELSE BaseThreshold
     /\ since_last' = 0
     /\ pending' = (gc_policy = "stress" /\ heap' # {})
     /\ phase' = "idle"
     /\ UNCHANGED <<gc_policy, registered, roots, addressed, pins, turn, local, epoch, trace,
                    failures>>

\* Memory runs out for the stack, the set of addresses or the list of the dead; the
\* object about to be pushed has its mark already.
Abandon ==
  /\ phase \in {"pins", "roots", "interior"}
  /\ failures < MaxFailures
  /\ failures' = failures + 1
  /\ \E pushed \in SUBSET scan :
       /\ Cardinality(pushed) <= 1
       /\ mark' = [o \in Object |-> IF o \in pushed \cap heap THEN epoch ELSE mark[o]]
  /\ threshold' = threshold * 2
  /\ since_last' = 0
  /\ phase' = "idle"
  /\ left' = {} /\ scan' = {} /\ gray' = {}
  /\ UNCHANGED <<gc_policy, registered, heap, condemned, stored, turn, local, pending, epoch>>

------------------------------------------------------------------------------
(* The life of the runtime *)

\* llg_rt_cleanup: what the scheduler held is gone, and so are the registrations;
\* objects stay for the final procedures.
llg_rt_cleanup ==
  /\ phase = "idle" /\ ~turn /\ registered
  /\ registered' = FALSE
  /\ pending' = FALSE
  /\ roots' = [roots EXCEPT ![Scheduler] = {}]
  /\ addressed' = {}
  /\ UNCHANGED <<gc_policy, heap, condemned, fields, mark, pins, turn, local, since_last,
                 threshold, epoch, phase, trace, failures>>

\* gc_runtime_init (llg_rt_init).
gc_configure ==
  /\ phase = "idle" /\ ~turn /\ ~registered
  /\ registered' = TRUE
  /\ pending' = FALSE
  /\ since_last' = 0
  /\ threshold' = BaseThreshold
  /\ UNCHANGED <<gc_policy, heap, condemned, stored, mark, turn, local, epoch, phase, trace,
                 failures>>

\* llg_gc_teardown at model close.
llg_gc_teardown ==
  /\ phase = "idle" /\ ~turn /\ ~registered
  /\ heap' = {} /\ condemned' = {}
  /\ fields' = [o \in Object |-> {}]
  /\ roots' = [p \in Producer |-> {}]
  /\ mark' = [o \in Object |-> 0]
  /\ pins' = [o \in Object |-> 0]
  /\ pending' = FALSE
  /\ since_last' = 0 /\ threshold' = 0 /\ epoch' = 0
  /\ UNCHANGED <<gc_policy, registered, addressed, turn, local, phase, trace, failures>>

Collection ==
  \/ Begin
  \/ \E o \in Object : llg_gc_visit(o) \/ gc_drain(o)
  \/ \E p \in Producer : Roots(p)
  \/ Interior
  \/ Sweep
  \/ Abandon

GcNext ==
  \/ StartTurn
  \/ \E o \in Object : Load(o) \/ llg_gc_alloc(o) \/ llg_gc_pin(o) \/ llg_gc_unpin(o)
  \/ \E handles \in SUBSET Object : Store(handles)
  \/ EndTurn
  \/ Request
  \/ Collection
  \/ llg_rt_cleanup
  \/ gc_configure
  \/ llg_gc_teardown

GcSpec == GcInit /\ [][GcNext]_gcVars

------------------------------------------------------------------------------
(* Properties *)

\* Every variable is well formed; the epoch fits its bits, and the objects of the
\* heap have marks of epochs up to this one.
GcTypeOK ==
  /\ gc_policy \in GcPolicies
  /\ registered \in BOOLEAN
  /\ heap \subseteq Object /\ condemned \subseteq Object
  /\ fields \in [Object -> SUBSET Object]
  /\ roots \in [Producer -> SUBSET Object]
  /\ addressed \subseteq Object
  /\ epoch \in 0..MarkMax
  /\ mark \in [Object -> 0..MarkMax]
  /\ pins \in [Object -> 0..PinMax]
  /\ turn \in BOOLEAN
  /\ local \subseteq Object
  /\ pending \in BOOLEAN
  /\ since_last \in Nat /\ threshold \in Nat
  /\ phase \in {"idle", "collect", "pins", "roots", "interior"}
  /\ left \subseteq Producer /\ scan \subseteq Object /\ gray \subseteq Object
  /\ failures \in Nat

RootSet == Held \cup addressed \cup Pinned

Closed(S) == \A o \in S : fields[o] \subseteq S

\* No handle that model code can reach names freed memory, or the object that got
\* its address later: not one held by a producer, a wait, a queued write or a turn,
\* nor a field of a live object.  Collections that were abandoned with some marks
\* set, and epochs that start again, do not change this.
NoDangling ==
  /\ RootSet \subseteq heap
  /\ local \subseteq heap
  /\ Closed(heap)

\* The objects that can be reached: those in every closed set with the roots.
Live == {o \in Object : \A S \in SUBSET Object : RootSet \subseteq S /\ Closed(S) => o \in S}

\* A collection that ends leaves exactly the reachable objects, cycles included; one
\* that is abandoned frees nothing.
Precise ==
  [][/\ phase = "interior" /\ phase' = "idle" /\ failures' = failures => heap' = Live
     /\ failures' # failures => heap' = heap]_gcVars

================================================================================
