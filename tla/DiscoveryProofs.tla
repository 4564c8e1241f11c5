---------------------------- MODULE DiscoveryProofs ----------------------------
(***************************************************************************)
(* Proofs about workspace discovery, for every number of handlers, roots,      *)
(* files, changes and walks: once the notifications are handled each root has  *)
(* discovered what is on disk (FilesIndexed), and has analysed it or is about  *)
(* to (DiscoveredAnalysed).                                                    *)
(*                                                                             *)
(* Both say what holds when nothing is under way, so the invariants say what   *)
(* will put it right otherwise.  A wrong entry of a root's set, or of the      *)
(* result of a walk that may still be applied, is remedied by the event of its *)
(* file, by a handler that has not begun its walk, or by a walk that began     *)
(* later and will be right about it (IndexOK).  A root whose sets went up and  *)
(* down between the start and the end of a walk is scheduled by the handler of *)
(* that event (AnalysisOK): it cannot have ended before the walk is applied    *)
(* without superseding it, unless the descriptors changed and changed back.    *)
(***************************************************************************)
EXTENDS Discovery, TLAPS

------------------------------------------------------------------------------
(* The inductive invariant *)

\* h walks the roots, from the descriptors of the state.
Walking(h) == handler[h].pc = "walk" /\ Current(handler[h])

\* The walk of h may still be applied.
Admissible(h) == Walking(h) /\ applied <= handler[h].ticket

\* The set is right about x: what the walk of r would find now.
Right(r, x, set) == x \in set <=> x \in files \cap filters[r]

\* What corrects the entry x of r in the result of the walk with ticket t.
Remedy(t, r, x) ==
  \/ x \in events
  \/ \E h \in Handler : handler[h].pc = "ready"
  \/ \E h \in Handler : /\ Walking(h) /\ handler[h].ticket > t
                        /\ (r \in handler[h].left \/ Right(r, x, handler[h].found[r]))

\* Each entry of a root's set and of an admissible result is right or remedied.
SetsOK == \A r \in roots, x \in File : Right(r, x, discovered[r]) \/ Remedy(applied, r, x)
ResultsOK ==
  \A h \in Handler, r \in roots, x \in File :
    Admissible(h) /\ r \notin handler[h].left =>
      Right(r, x, handler[h].found[r]) \/ Remedy(handler[h].ticket, r, x)
IndexOK == ~ failed => SetsOK /\ ResultsOK

\* A handler that schedules r learns of x after the walk with ticket t began.
Owed(t, r, x) ==
  \/ x \in events
  \/ \E h \in Handler : handler[h].pc = "ready" /\ r \in handler[h].own
  \/ \E h \in Handler : Walking(h) /\ handler[h].ticket > t /\ r \in handler[h].own

\* A handler schedules r when it ends.
Owing(r, x) ==
  \/ x \in events
  \/ \E h \in Handler : handler[h].pc # "idle" /\ r \in handler[h].own

\* An admissible result is right about the files r compiles, and its snapshot
\* tells whether the set of r has changed, or a scheduling is owed.
ReadsOK ==
  \A h \in Handler, x \in File :
    Admissible(h) /\ Owner[x] \in roots \ handler[h].left =>
      Right(Owner[x], x, handler[h].found[Owner[x]]) \/ Owed(handler[h].ticket, Owner[x], x)
SnapshotsOK ==
  \A h \in Handler, x \in File :
    Admissible(h) /\ Owner[x] \in roots =>
      \/ x \in handler[h].previous[Owner[x]] <=> x \in discovered[Owner[x]]
      \/ Right(Owner[x], x, discovered[Owner[x]])
      \/ Owed(applied, Owner[x], x)
AnalysesOK ==
  \A x \in File : Owner[x] \in roots \ due =>
    (x \in analysed[Owner[x]] <=> x \in discovered[Owner[x]]) \/ Owing(Owner[x], x)
AnalysisOK == ~ failed /\ ~ undone => ReadsOK /\ SnapshotsOK /\ AnalysesOK

\* A walk under way has a ticket, and a root is analysed with files it compiles.
Bookkeeping ==
  /\ \A h \in Handler : handler[h].pc = "walk" => handler[h].ticket <= started
  /\ \A r \in Root, x \in File : x \in analysed[r] => Owner[x] = r

IInv == TypeOK /\ Bookkeeping /\ IndexOK /\ AnalysisOK

------------------------------------------------------------------------------
(* Helpers *)

\* A walk is current when it started from the roots and descriptors of the state.
LEMMA CurrentFacts ==
  ASSUME NEW w \in Walk, NEW rs \in SUBSET Root, NEW fs \in [Root -> SUBSET File]
  PROVE  CurrentIn(w, rs, fs) <=> w.roots = rs /\ \A r \in rs : w.filters[r] = fs[r]
<1>1. w.roots \in SUBSET Root
  BY DEF Walk
<1>2. ASSUME CurrentIn(w, rs, fs)
      PROVE  w.roots = rs /\ \A r \in rs : w.filters[r] = fs[r]
  <2>1. DOMAIN descriptors(w.roots, w.filters) = DOMAIN descriptors(rs, fs)
    BY <1>2 DEF CurrentIn
  <2>2. w.roots = rs
    BY <2>1 DEF descriptors
  <2>3. \A r \in rs : descriptors(w.roots, w.filters)[r] = descriptors(rs, fs)[r]
    BY <1>2 DEF CurrentIn
  <2> QED
    BY <2>2, <2>3 DEF descriptors
<1>3. ASSUME w.roots = rs, \A r \in rs : w.filters[r] = fs[r]
      PROVE  CurrentIn(w, rs, fs)
  BY <1>3 DEF CurrentIn, descriptors
<1> QED
  BY <1>2, <1>3

\* A handler that begins has no walk.
LEMMA IdleIsWalk == IdleHandler \in Walk
BY DEF IdleHandler, Walk, NoFiles

LEMMA BeginHandler ==
  ASSUME handler \in [Handler -> Walk], NEW h \in Handler, NEW own \in SUBSET Root, Begin(h, own)
  PROVE  /\ handler' \in [Handler -> Walk]
         /\ handler[h].pc = "idle"
         /\ handler'[h].pc = "ready" /\ handler'[h].own = own
         /\ \A k \in Handler : k # h => handler'[k] = handler[k]
<1>1. [IdleHandler EXCEPT !.pc = "ready", !.own = own] \in Walk
  BY Zenon DEF IdleHandler, Walk, NoFiles
<1> QED
  BY <1>1 DEF Begin, IdleHandler

\* The record StartWalk writes.
LEMMA StartedHandler ==
  ASSUME TypeOK, NEW h \in Handler, StartWalk(h)
  PROVE  /\ handler' \in [Handler -> Walk]
         /\ handler'[h].pc = "walk" /\ handler'[h].own = handler[h].own
         /\ handler'[h].ticket = started + 1 /\ handler'[h].left = roots
         /\ handler'[h].roots = roots /\ handler'[h].filters = filters
         /\ handler'[h].previous = discovered
         /\ \A k \in Handler : k # h => handler'[k] = handler[k]
<1> DEFINE w == [pc |-> "walk", own |-> handler[h].own, ticket |-> start,
                 roots |-> roots, filters |-> filters, previous |-> discovered,
                 found |-> NoFiles, left |-> roots]
<1>1. handler[h] \in Walk /\ started + 1 \in Nat
  BY DEF TypeOK
<1>2. w \in Walk
  BY <1>1 DEF TypeOK, Walk, NoFiles, start
<1>3. w.ticket = started + 1
  BY DEF start
<1>4. handler' = [handler EXCEPT ![h] = w]
  BY DEF StartWalk
<1> QED
  BY <1>2, <1>3, <1>4 DEF TypeOK

\* The record WalkRoot writes.
LEMMA WalkedHandler ==
  ASSUME TypeOK, NEW h \in Handler, NEW r \in Root, NEW readable \in BOOLEAN,
         WalkRoot(h, r, readable)
  PROVE  /\ handler' \in [Handler -> Walk]
         /\ handler'[h].pc = "walk" /\ handler'[h].own = handler[h].own
         /\ handler'[h].ticket = handler[h].ticket
         /\ handler'[h].roots = handler[h].roots /\ handler'[h].filters = handler[h].filters
         /\ handler'[h].previous = handler[h].previous
         /\ handler'[h].left = handler[h].left \ {r}
         /\ readable => handler'[h].found[r] = files \cap handler[h].filters[r]
         /\ \A q \in Root : q # r => handler'[h].found[q] = handler[h].found[q]
         /\ \A k \in Handler : k # h => handler'[k] = handler[k]
<1> DEFINE set == IF readable THEN discover_units(r, handler[h].filters) ELSE {}
           w == [handler[h] EXCEPT !.left = @ \ {r}, !.found = [@ EXCEPT ![r] = set]]
<1>1. handler[h] \in Walk /\ handler[h].found \in [Root -> SUBSET File]
  BY DEF TypeOK, Walk
<1>2. set \in SUBSET File
  BY DEF discover_units, TypeOK
<1>3. [handler[h].found EXCEPT ![r] = set] \in [Root -> SUBSET File]
  BY <1>1, <1>2
<1>4. handler[h].left \ {r} \in SUBSET Root
  BY <1>1 DEF Walk
<1>5. handler' = [handler EXCEPT ![h] = w]
  BY Zenon DEF WalkRoot
<1>6. w \in Walk
  BY <1>1, <1>3, <1>4, Zenon DEF Walk
<1>7. /\ w.pc = handler[h].pc /\ w.own = handler[h].own /\ w.ticket = handler[h].ticket
      /\ w.roots = handler[h].roots /\ w.filters = handler[h].filters
      /\ w.previous = handler[h].previous /\ w.left = handler[h].left \ {r}
      /\ w.found = [handler[h].found EXCEPT ![r] = set]
  BY <1>1 DEF Walk
<1>8. /\ w.found[r] = set
      /\ \A q \in Root : q # r => w.found[q] = handler[h].found[q]
  BY <1>1, <1>7
<1>9. readable => set = files \cap handler[h].filters[r]
  BY DEF discover_units
<1>10. handler[h].pc = "walk"
  BY DEF WalkRoot
<1>11. handler'[h] = w /\ \A k \in Handler : k # h => handler'[k] = handler[k]
  BY <1>5 DEF TypeOK
<1> HIDE DEF w, set
<1> QED
  BY <1>5, <1>6, <1>7, <1>8, <1>9, <1>10, <1>11, Zenon DEF TypeOK

\* The handler has ended.
LEMMA EndedHandler ==
  ASSUME TypeOK, NEW h \in Handler, handler' = [handler EXCEPT ![h] = IdleHandler]
  PROVE  /\ handler' \in [Handler -> Walk]
         /\ handler'[h].pc = "idle"
         /\ \A k \in Handler : k # h => handler'[k] = handler[k]
BY IdleIsWalk DEF TypeOK, IdleHandler

------------------------------------------------------------------------------
(* Types *)

LEMMA TypeInit == Init => TypeOK
<1> SUFFICES ASSUME Init PROVE TypeOK
  OBVIOUS
<1>1. files \in SUBSET File /\ filters \in [Root -> SUBSET File]
  BY DEF Init
<1>2. discovered \in [Root -> SUBSET File]
  BY <1>1 DEF Init, discover_units
<1>3. analysed \in [Root -> SUBSET File]
  BY <1>2 DEF Init, Compiled
<1>4. handler \in [Handler -> Walk]
  BY IdleIsWalk DEF Init
<1>5. /\ events = {} /\ roots = Root /\ started = 1 /\ applied = 1 /\ due = {}
      /\ failed = FALSE /\ undone = FALSE /\ changes = 0
  BY DEF Init
<1>6. started \in Nat /\ applied \in Nat /\ applied <= started /\ changes \in Nat
  BY <1>5
<1>7. /\ files \subseteq File /\ events \subseteq File /\ roots \subseteq Root
      /\ due \subseteq roots
  BY <1>1, <1>5
<1>8. failed \in BOOLEAN /\ undone \in BOOLEAN
  BY <1>5, Zenon
<1> QED
  BY <1>1, <1>2, <1>3, <1>4, <1>6, <1>7, <1>8 DEF TypeOK

LEMMA TypeStep ==
  ASSUME TypeOK, Bookkeeping, [Next]_vars
  PROVE  TypeOK'
<1> USE DiscoveryAssumption
<1>1. ASSUME NEW f \in File, FileChange(f) PROVE TypeOK'
  BY <1>1 DEF FileChange, TypeOK, order
<1>2. ASSUME NEW h \in Handler, NEW f \in File, SourceEvent(h, f) PROVE TypeOK'
  <2>1. {Owner[f]} \cap roots \in SUBSET Root
    BY DEF TypeOK
  <2>2. handler' \in [Handler -> Walk]
    BY <1>2, <2>1, BeginHandler DEF SourceEvent, TypeOK
  <2> QED
    BY <1>2, <2>2 DEF SourceEvent, TypeOK, order
<1>3. ASSUME NEW h \in Handler, NEW r \in Root, NEW filter \in SUBSET File,
             ConfigEvent(h, r, filter)
      PROVE  TypeOK'
  <2>1. handler' \in [Handler -> Walk]
    BY <1>3, BeginHandler DEF ConfigEvent, TypeOK
  <2> QED
    BY <1>3, <2>1 DEF ConfigEvent, Reload, TypeOK, order, Undoes
<1>4. ASSUME NEW h \in Handler, NEW r \in Root, NEW filter \in SUBSET File,
             AddFolder(h, r, filter)
      PROVE  TypeOK'
  <2>1. handler' \in [Handler -> Walk]
    BY <1>4, BeginHandler DEF AddFolder, TypeOK
  <2> QED
    BY <1>4, <2>1 DEF AddFolder, TypeOK, order, Undoes
<1>5. ASSUME NEW h \in Handler, NEW r \in Root, RemoveFolder(h, r) PROVE TypeOK'
  <2>1. handler' \in [Handler -> Walk]
    BY <1>5, BeginHandler DEF RemoveFolder, TypeOK
  <2>2. undone' \in BOOLEAN
    BY <1>5 DEF RemoveFolder, TypeOK, Undoes
  <2> QED
    BY <1>5, <2>1, <2>2 DEF RemoveFolder, TypeOK, order
<1>6. ASSUME NEW h \in Handler, StartWalk(h) PROVE TypeOK'
  <2>1. handler' \in [Handler -> Walk]
    BY <1>6, StartedHandler
  <2>2. started' \in Nat /\ applied' \in Nat /\ applied' <= started'
    BY <1>6 DEF StartWalk, TypeOK, start
  <2> QED
    BY <1>6, <2>1, <2>2 DEF StartWalk, TypeOK
<1>7. ASSUME NEW h \in Handler, NEW r \in Root, NEW readable \in BOOLEAN,
             WalkRoot(h, r, readable)
      PROVE  TypeOK'
  <2>1. handler' \in [Handler -> Walk]
    BY <1>7, WalkedHandler
  <2>2. failed' \in BOOLEAN
    BY <1>7, Zenon DEF WalkRoot, TypeOK
  <2> QED
    BY <1>7, <2>1, <2>2 DEF WalkRoot, TypeOK, order
<1>8. ASSUME NEW h \in Handler, WalkFails(h) PROVE TypeOK'
  BY <1>8, EndedHandler, Zenon DEF WalkFails, TypeOK, order
<1>9. ASSUME NEW r \in Root, Analyse(r) PROVE TypeOK'
  <2>1. Compiled(r) \in SUBSET File
    BY DEF Compiled, TypeOK
  <2> QED
    BY <1>9, <2>1 DEF Analyse, TypeOK, order
<1>10. ASSUME NEW h \in Handler, ApplyWalk(h) PROVE TypeOK'
  <2>1. handler[h] \in Walk /\ handler[h].ticket \in Nat
        /\ handler[h].found \in [Root -> SUBSET File]
    BY DEF TypeOK, Walk
  <2>2. handler' \in [Handler -> Walk]
    BY <1>10, EndedHandler, Zenon DEF ApplyWalk
  <2>3. /\ applied' \in {handler[h].ticket, applied} /\ started' = started
        /\ due' \subseteq roots' /\ roots' = roots
    BY <1>10 DEF ApplyWalk, TypeOK, Scheduled
  <2>4. handler[h].ticket <= started
    BY <1>10 DEF ApplyWalk, Bookkeeping
  <2>5. discovered' \in [Root -> SUBSET File]
    BY <1>10, <2>1 DEF ApplyWalk, TypeOK
  <2> QED
    BY <1>10, <2>1, <2>2, <2>3, <2>4, <2>5 DEF ApplyWalk, TypeOK
<1>11. CASE UNCHANGED vars
  BY <1>11 DEF vars, TypeOK, order
<1> QED
  BY <1>1, <1>2, <1>3, <1>4, <1>5, <1>6, <1>7, <1>8, <1>9, <1>10, <1>11 DEF Next

\* Tickets are those of walks that began, and analyses take the files a root compiles.
LEMMA BookkeepingStep ==
  ASSUME TypeOK, Bookkeeping, [Next]_vars
  PROVE  Bookkeeping'
<1> DEFINE Tickets == \A h \in Handler : handler[h].pc = "walk" => handler[h].ticket <= started
           Files == \A r \in Root, x \in File : x \in analysed[r] => Owner[x] = r
<1>1. Tickets /\ Files
  BY DEF Bookkeeping
<1>2. ASSUME NEW h \in Handler, NEW own \in SUBSET Root, Begin(h, own), started' = started
      PROVE  Tickets'
  <2>1. /\ handler'[h].pc = "ready"
        /\ \A k \in Handler : k # h => handler'[k] = handler[k]
    BY <1>2, BeginHandler DEF TypeOK
  <2> QED
    BY <1>1, <1>2, <2>1
<1>3. Tickets'
  <2>1. CASE handler' = handler /\ started' = started
    BY <1>1, <2>1
  <2>2. ASSUME NEW h \in Handler, NEW f \in File, SourceEvent(h, f) PROVE Tickets'
    <3>1. {Owner[f]} \cap roots \in SUBSET Root
      BY Zenon DEF TypeOK
    <3> QED
      BY <1>2, <2>2, <3>1 DEF SourceEvent, order
  <2>3. ASSUME NEW h \in Handler, NEW r \in Root, NEW filter \in SUBSET File,
               ConfigEvent(h, r, filter) \/ AddFolder(h, r, filter) \/ RemoveFolder(h, r)
        PROVE  Tickets'
    BY <1>2, <2>3 DEF ConfigEvent, AddFolder, RemoveFolder, order
  <2>4. ASSUME NEW h \in Handler, StartWalk(h) PROVE Tickets'
    <3>1. \A k \in Handler : handler[k].ticket \in Nat /\ started \in Nat
      BY DEF TypeOK, Walk
    <3>2. started' = started + 1
      BY <2>4, Zenon DEF StartWalk, start
    <3> QED
      BY <1>1, <2>4, <3>1, <3>2, StartedHandler
  <2>5. ASSUME NEW h \in Handler, NEW r \in Root, NEW readable \in BOOLEAN,
               WalkRoot(h, r, readable)
        PROVE  Tickets'
    <3>1. handler[h].pc = "walk" /\ started' = started
      BY <2>5 DEF WalkRoot, order
    <3> QED
      BY <1>1, <2>5, <3>1, WalkedHandler
  <2>6. ASSUME NEW h \in Handler, ApplyWalk(h) \/ WalkFails(h) PROVE Tickets'
    <3>1. handler' = [handler EXCEPT ![h] = IdleHandler] /\ started' = started
      BY <2>6 DEF ApplyWalk, WalkFails, order
    <3> QED
      BY <1>1, <3>1, EndedHandler, Zenon
  <2>7. UNCHANGED vars => handler' = handler /\ started' = started
    BY DEF vars, order
  <2> HIDE DEF Tickets
  <2>8. \A f \in File : FileChange(f) => handler' = handler /\ started' = started
    BY DEF FileChange, order
  <2>9. \A r \in Root : Analyse(r) => handler' = handler /\ started' = started
    BY DEF Analyse, order
  <2> QED
    BY <2>1, <2>2, <2>3, <2>4, <2>5, <2>6, <2>7, <2>8, <2>9 DEF Next
<1>4. Files'
  <2>1. CASE analysed' = analysed
    BY <1>1, <2>1
  <2>2. ASSUME NEW h \in Handler, NEW r \in Root, RemoveFolder(h, r) PROVE Files'
    BY <1>1, <2>2 DEF RemoveFolder, TypeOK
  <2>3. ASSUME NEW r \in Root, Analyse(r) PROVE Files'
    BY <1>1, <2>3 DEF Analyse, Compiled, TypeOK
  <2>4. UNCHANGED vars => analysed' = analysed
    BY DEF vars
  <2>5. \A f \in File : FileChange(f) => analysed' = analysed
    BY DEF FileChange
  <2>6. \A h \in Handler : /\ \A f \in File : SourceEvent(h, f) => analysed' = analysed
                           /\ StartWalk(h) \/ ApplyWalk(h) \/ WalkFails(h) => analysed' = analysed
    BY DEF SourceEvent, StartWalk, ApplyWalk, WalkFails
  <2>7. \A h \in Handler, r \in Root :
          /\ \A filter \in SUBSET File :
               ConfigEvent(h, r, filter) \/ AddFolder(h, r, filter) => analysed' = analysed
          /\ \A readable \in BOOLEAN : WalkRoot(h, r, readable) => analysed' = analysed
    BY DEF ConfigEvent, AddFolder, WalkRoot
  <2> HIDE DEF Files
  <2> QED
    BY <2>1, <2>2, <2>3, <2>4, <2>5, <2>6, <2>7 DEF Next
<1> QED
  BY <1>3, <1>4 DEF Bookkeeping

------------------------------------------------------------------------------
(* What is discovered *)

\* A handler that is left alone while the descriptors stay walks as before.
LEMMA SameWalking ==
  ASSUME roots' = roots, filters' = filters, NEW k \in Handler, handler'[k] = handler[k]
  PROVE  Walking(k)' <=> Walking(k)
BY DEF Walking, Current

\* A walk that has read its roots is as current as before.
LEMMA WalkedWalking ==
  ASSUME TypeOK, NEW h \in Handler, NEW r \in Root, NEW readable \in BOOLEAN,
         WalkRoot(h, r, readable), NEW k \in Handler
  PROVE  Walking(k)' <=> Walking(k)
<1>1. roots' = roots /\ filters' = filters /\ handler[h].pc = "walk"
  BY DEF WalkRoot
<1>2. CASE k = h
  <2>1. /\ handler'[h].pc = handler[h].pc
        /\ handler'[h].roots = handler[h].roots /\ handler'[h].filters = handler[h].filters
    BY <1>1, WalkedHandler
  <2> QED
    BY <1>1, <1>2, <2>1 DEF Walking, Current, CurrentIn
<1>3. CASE k # h
  BY <1>1, <1>3, SameWalking, WalkedHandler
<1> QED
  BY <1>2, <1>3

\* StartWalk walks from the descriptors of the state, after every other walk.
LEMMA StartedWalking ==
  ASSUME TypeOK, Bookkeeping, NEW h \in Handler, StartWalk(h)
  PROVE  /\ Walking(h)'
         /\ \A k \in Handler : k # h => (Walking(k)' <=> Walking(k))
         /\ \A k \in Handler : Walking(k) => k # h
<1>1. roots' = roots /\ filters' = filters /\ handler[h].pc = "ready"
  BY DEF StartWalk
<1>2. /\ handler'[h].pc = "walk"
      /\ handler'[h].roots = roots /\ handler'[h].filters = filters
  BY StartedHandler
<1>3. Walking(h)'
  BY <1>1, <1>2, Zenon DEF Walking, Current, CurrentIn
<1>4. \A k \in Handler : k # h => (Walking(k)' <=> Walking(k))
  BY <1>1, SameWalking, StartedHandler, ZenonT(60)
<1> QED
  BY <1>1, <1>3, <1>4 DEF Walking

\* A handler that ends is no remedy any more; what another one is stays.
LEMMA RemedyLeft ==
  ASSUME TypeOK, NEW h \in Handler, handler' = [handler EXCEPT ![h] = IdleHandler],
         UNCHANGED <<files, events, filters, roots>>, handler[h].pc # "ready",
         NEW t \in Nat, NEW r \in Root, NEW x \in File,
         Remedy(t, r, x), ~ Walking(h) \/ handler[h].ticket <= t
  PROVE  Remedy(t, r, x)'
<1>1. \A k \in Handler : k # h => handler'[k] = handler[k]
  BY EndedHandler, Zenon
<1>2. CASE x \in events
  BY <1>2, Zenon DEF Remedy
<1>3. ASSUME NEW k \in Handler, handler[k].pc = "ready" PROVE Remedy(t, r, x)'
  BY <1>1, <1>3, Zenon DEF Remedy
<1>4. ASSUME NEW k \in Handler, Walking(k), handler[k].ticket > t,
             r \in handler[k].left \/ Right(r, x, handler[k].found[r])
      PROVE  Remedy(t, r, x)'
  <2>1. handler[k].ticket \in Nat
    BY ZenonT(60) DEF TypeOK, Walk
  <2>2. k # h
    BY <1>4, <2>1
  <2>3. handler'[k] = handler[k] /\ Walking(k)'
    BY <1>1, <1>4, <2>2, SameWalking, Zenon
  <2>4. Right(r, x, handler[k].found[r]) => Right(r, x, handler[k].found[r])'
    BY <2>3, ZenonT(60) DEF Right
  <2> QED
    BY <1>4, <2>3, <2>4, Zenon DEF Remedy
<1> QED
  BY <1>2, <1>3, <1>4 DEF Remedy

\* A handler that is to walk remedies everything.
LEMMA ReadyIndex ==
  ASSUME NEW h \in Handler, handler'[h].pc = "ready"
  PROVE  IndexOK'
BY DEF IndexOK, SetsOK, ResultsOK, Remedy

\* So does a walk that begins.
LEMMA StartIndex ==
  ASSUME TypeOK, Bookkeeping, NEW h \in Handler, StartWalk(h)
  PROVE  IndexOK'
<1>1. /\ handler'[h].ticket = started + 1 /\ handler'[h].left = roots
      /\ \A k \in Handler : k # h => handler'[k] = handler[k]
  BY StartedHandler
<1>2. Walking(h)' /\ \A k \in Handler : k # h => (Walking(k)' <=> Walking(k))
  BY StartedWalking, Zenon
<1>3. roots' = roots /\ applied' = applied
  BY Zenon DEF StartWalk
<1>4. ASSUME NEW t \in Nat, t <= started, NEW r \in roots, NEW x \in File
      PROVE  Remedy(t, r, x)'
  <2>1. started + 1 > t
    BY <1>4 DEF TypeOK
  <2> QED
    BY <1>1, <1>2, <2>1, Zenon DEF Remedy
<1>5. SetsOK'
  BY <1>3, <1>4, Zenon DEF SetsOK, TypeOK
<1>6. ResultsOK'
  <2> SUFFICES ASSUME NEW k \in Handler, NEW r \in roots, NEW x \in File, Admissible(k)',
                      r \notin handler'[k].left
               PROVE  Remedy(handler[k].ticket, r, x)' /\ handler'[k] = handler[k]
    BY <1>3, Zenon DEF ResultsOK
  <2>1. k # h /\ Walking(k)
    BY <1>1, <1>2, Zenon DEF Admissible
  <2>2. handler[k].ticket \in Nat /\ handler[k].ticket <= started
    BY <2>1 DEF Walking, Bookkeeping, TypeOK, Walk
  <2> QED
    BY <1>1, <1>4, <2>1, <2>2, Zenon
<1> QED
  BY <1>5, <1>6, Zenon DEF IndexOK

\* The event of a file that changed is its remedy; the other files are as before.
LEMMA FileIndex ==
  ASSUME TypeOK, NEW f \in File, FileChange(f), IndexOK
  PROVE  IndexOK'
<1>1. /\ UNCHANGED <<filters, roots, discovered, applied, handler, failed>>
      /\ events' = events \cup {f}
      /\ \A x \in File : x # f => (x \in files' <=> x \in files)
  BY DEF FileChange, order
<1>2. \A k \in Handler : Walking(k)' <=> Walking(k)
  BY <1>1, SameWalking, Zenon
<1>3. \A r, x, set : x \in File /\ x # f => (Right(r, x, set) <=> Right(r, x, set)')
  BY <1>1 DEF Right
<1>4. ASSUME NEW t, NEW r, NEW x \in File, Remedy(t, r, x) \/ x = f
      PROVE  Remedy(t, r, x)'
  <2>1. CASE x \in events'
    BY <2>1, Zenon DEF Remedy
  <2>2. CASE x \notin events'
    <3>1. x # f /\ x \notin events
      BY <1>1, <2>2, Zenon
    <3>2. \A k \in Handler : Right(r, x, handler[k].found[r]) => Right(r, x, handler[k].found[r])'
      BY <1>1, <1>3, <3>1
    <3> QED
      BY <1>1, <1>2, <1>4, <3>1, <3>2, Zenon DEF Remedy
  <2> QED
    BY <2>1, <2>2, Zenon
<1> SUFFICES ASSUME ~ failed' PROVE SetsOK' /\ ResultsOK'
  BY Zenon DEF IndexOK
<1>5. SetsOK /\ ResultsOK
  BY <1>1, Zenon DEF IndexOK
<1>6. SetsOK'
  <2> SUFFICES ASSUME NEW r \in roots, NEW x \in File
               PROVE  (Right(r, x, discovered[r]) \/ Remedy(applied, r, x))'
    BY <1>1 DEF SetsOK
  <2>1. Right(r, x, discovered[r]) \/ Remedy(applied, r, x)
    BY <1>5, Zenon DEF SetsOK
  <2>2. Remedy(applied, r, x) \/ x = f => Remedy(applied, r, x)'
    BY <1>1, <1>4, Zenon
  <2>3. x # f /\ Right(r, x, discovered[r]) => Right(r, x, discovered[r])'
    BY <1>1, <1>3, Zenon
  <2> QED
    BY <2>1, <2>2, <2>3, Zenon
<1>7. ResultsOK'
  <2> SUFFICES ASSUME NEW k \in Handler, NEW r \in roots, NEW x \in File, Admissible(k),
                      r \notin handler[k].left
               PROVE  (Right(r, x, handler[k].found[r]) \/ Remedy(handler[k].ticket, r, x))'
    BY <1>1, <1>2, Zenon DEF ResultsOK, Admissible
  <2>1. Right(r, x, handler[k].found[r]) \/ Remedy(handler[k].ticket, r, x)
    BY <1>5, Zenon DEF ResultsOK
  <2>2. Remedy(handler[k].ticket, r, x) \/ x = f => Remedy(handler[k].ticket, r, x)'
    BY <1>1, <1>4, Zenon
  <2>3. x # f /\ Right(r, x, handler[k].found[r]) => Right(r, x, handler[k].found[r])'
    BY <1>1, <1>3
  <2> QED
    BY <2>1, <2>2, <2>3, Zenon
<1> QED
  BY <1>6, <1>7, Zenon

\* What a walk reads is right.
LEMMA ReadIndex ==
  ASSUME TypeOK, NEW h \in Handler, NEW q \in Root, NEW readable \in BOOLEAN,
         WalkRoot(h, q, readable), IndexOK
  PROVE  IndexOK'
<1>1. /\ UNCHANGED <<files, events, filters, roots, discovered, applied>>
      /\ failed' = (failed \/ ~ readable) /\ handler[h].pc = "walk" /\ q \in handler[h].left
  BY ZenonT(60) DEF WalkRoot, order
<1>2. /\ handler'[h].ticket = handler[h].ticket /\ handler'[h].pc = handler[h].pc
      /\ handler'[h].left = handler[h].left \ {q}
      /\ readable => handler'[h].found[q] = files \cap handler[h].filters[q]
      /\ \A r \in Root : r # q => handler'[h].found[r] = handler[h].found[r]
      /\ \A k \in Handler : k # h => handler'[k] = handler[k]
  BY <1>1, WalkedHandler
<1>3. \A k \in Handler : Walking(k)' <=> Walking(k)
  BY WalkedWalking
<1> SUFFICES ASSUME ~ failed' PROVE SetsOK' /\ ResultsOK'
  BY Zenon DEF IndexOK
<1>4. readable /\ ~ failed
  BY <1>1, Zenon DEF TypeOK
<1>5. SetsOK /\ ResultsOK
  BY <1>4 DEF IndexOK
<1>6. ASSUME Walking(h), q \in roots, NEW x
      PROVE  Right(q, x, handler[h].found[q])'
  <2>1. handler[h].filters[q] = filters[q]
    BY <1>6, CurrentFacts DEF Walking, Current, TypeOK
  <2> QED
    BY <1>1, <1>2, <1>4, <2>1 DEF Right
<1>7. ASSUME NEW k \in Handler, NEW r \in Root, NEW x, r # q \/ k # h
      PROVE  /\ r \in handler[k].left => r \in handler'[k].left
             /\ Right(r, x, handler[k].found[r]) => Right(r, x, handler[k].found[r])'
  <2>1. handler'[k].found[r] = handler[k].found[r]
    BY <1>2, <1>7, Zenon
  <2>2. r \in handler[k].left => r \in handler'[k].left
    BY <1>2, <1>7, Zenon
  <2> QED
    BY <1>1, <2>1, <2>2, Zenon DEF Right
<1>8. ASSUME NEW t, NEW r \in roots, NEW x \in File, Remedy(t, r, x) PROVE Remedy(t, r, x)'
  <2>1. CASE x \in events
    BY <1>1, <2>1, Zenon DEF Remedy
  <2>2. ASSUME NEW k \in Handler, handler[k].pc = "ready" PROVE Remedy(t, r, x)'
    <3>1. k # h
      BY <1>1, <2>2, Zenon
    <3> QED
      BY <1>2, <2>2, <3>1, Zenon DEF Remedy
  <2>3. ASSUME NEW k \in Handler, Walking(k), handler[k].ticket > t,
               r \in handler[k].left \/ Right(r, x, handler[k].found[r])
        PROVE  Remedy(t, r, x)'
    <3>1. handler'[k].ticket = handler[k].ticket /\ Walking(k)'
      BY <1>2, <1>3, <2>3, Zenon
    <3>2. (r \in handler[k].left \/ Right(r, x, handler[k].found[r]))'
      BY <1>1, <1>6, <1>7, <2>3, Zenon DEF TypeOK
    <3> QED
      BY <2>3, <3>1, <3>2, Zenon DEF Remedy
  <2> QED
    BY <1>8, <2>1, <2>2, <2>3, Zenon DEF Remedy
<1>9. SetsOK'
  BY <1>1, <1>5, <1>8, Zenon DEF SetsOK, Right
<1>10. ResultsOK'
  <2> SUFFICES ASSUME NEW k \in Handler, NEW r \in roots, NEW x \in File, Admissible(k),
                      r \notin handler'[k].left
               PROVE  (Right(r, x, handler[k].found[r]) \/ Remedy(handler[k].ticket, r, x))'
    <3>1. \A k \in Handler : handler'[k].ticket = handler[k].ticket
      BY <1>2, Zenon
    <3> QED
      BY <1>1, <1>3, <3>1, Zenon DEF ResultsOK, Admissible
  <2>1. handler'[k].ticket = handler[k].ticket
    BY <1>2, Zenon
  <2>2. CASE k = h /\ r = q
    BY <1>6, <2>2, Zenon DEF Admissible
  <2>3. CASE k # h \/ r # q
    <3>1. r \notin handler[k].left
      BY <1>7, <2>3, Zenon DEF TypeOK
    <3>2. Right(r, x, handler[k].found[r]) \/ Remedy(handler[k].ticket, r, x)
      BY <1>5, <3>1, Zenon DEF ResultsOK
    <3>3. Right(r, x, handler[k].found[r]) => Right(r, x, handler[k].found[r])'
      BY <1>7, <2>3, Zenon DEF TypeOK
    <3>4. Remedy(handler[k].ticket, r, x) => Remedy(handler[k].ticket, r, x)'
      BY <1>8, <2>1, Zenon
    <3> QED
      BY <3>2, <3>3, <3>4, Zenon
  <2> QED
    BY <2>2, <2>3, Zenon
<1> QED
  BY <1>9, <1>10

\* A walk that is applied.
LEMMA AppliedFacts ==
  ASSUME TypeOK, NEW h \in Handler, ApplyWalk(h)
  PROVE  /\ handler[h].pc = "walk" /\ handler[h].left = {}
         /\ handler' = [handler EXCEPT ![h] = IdleHandler]
         /\ UNCHANGED <<files, events, filters, roots, started, analysed, failed, undone>>
         /\ Admissible(h) =>
              /\ applied' = handler[h].ticket
              /\ \A r \in roots : discovered'[r] = handler[h].found[r]
              /\ \A r \in roots : handler[h].previous[r] # handler[h].found[r] => r \in due'
         /\ ~ Admissible(h) => applied' = applied /\ discovered' = discovered
         /\ due \subseteq due' /\ \A r \in roots : r \in handler[h].own => r \in due'
<1> DEFINE applies == Current(handler[h]) /\ Admits(handler[h].ticket)
           changed == IF applies THEN {r \in roots : handler[h].previous[r] # handler[h].found[r]}
                      ELSE {}
<1>1. /\ handler[h].pc = "walk" /\ handler[h].left = {}
      /\ handler' = [handler EXCEPT ![h] = IdleHandler]
      /\ UNCHANGED <<files, events, filters, roots, started, analysed, failed, undone>>
  BY Zenon DEF ApplyWalk
<1>2. /\ applied' = IF applies THEN handler[h].ticket ELSE applied
      /\ discovered' = IF applies
                       THEN [r \in Root |-> IF r \in roots THEN handler[h].found[r] ELSE {}]
                       ELSE discovered
      /\ due' = due \cup ((changed \cup handler[h].own) \cap roots)
  BY Zenon DEF ApplyWalk, Scheduled
<1>3. Admissible(h) <=> applies
  BY <1>1, Zenon DEF Admissible, Walking, Admits
<1>4. Admissible(h) => \A r \in roots : handler[h].previous[r] # handler[h].found[r] => r \in due'
  BY <1>2, <1>3, Zenon
<1>5. due \subseteq due' /\ \A r \in roots : r \in handler[h].own => r \in due'
  BY <1>2, Zenon
<1> HIDE DEF applies, changed
<1>6. Admissible(h) => /\ applied' = handler[h].ticket
                       /\ \A r \in roots : discovered'[r] = handler[h].found[r]
  BY <1>2, <1>3, Zenon DEF TypeOK
<1>7. ~ Admissible(h) => applied' = applied /\ discovered' = discovered
  BY <1>2, <1>3, Zenon
<1> QED
  BY <1>1, <1>4, <1>5, <1>6, <1>7, Zenon

\* After the walk of h, another handler may apply its walk only if it could before,
\* and the walk of h did not begin after it.
LEMMA AppliedAdmissible ==
  ASSUME TypeOK, NEW h \in Handler, ApplyWalk(h)
  PROVE  /\ applied <= applied' /\ applied' \in Nat
         /\ \A k \in Handler : Admissible(k)' =>
              /\ k # h /\ handler'[k] = handler[k] /\ Admissible(k)
              /\ applied' <= handler[k].ticket
              /\ ~ Walking(h) \/ handler[h].ticket <= handler[k].ticket
<1>1. /\ roots' = roots /\ filters' = filters
      /\ handler' = [handler EXCEPT ![h] = IdleHandler]
      /\ Admissible(h) => applied' = handler[h].ticket
      /\ ~ Admissible(h) => applied' = applied
  BY AppliedFacts, Zenon
<1>2. handler'[h].pc = "idle" /\ \A k \in Handler : k # h => handler'[k] = handler[k]
  BY <1>1, EndedHandler, Zenon
<1>3. applied \in Nat /\ \A k \in Handler : handler[k].ticket \in Nat
  BY DEF TypeOK, Walk
<1>4. Admissible(h) => applied <= handler[h].ticket
  BY DEF Admissible
<1>5. applied <= applied' /\ applied' \in Nat
  BY <1>1, <1>3, <1>4
<1>6. Walking(h) => handler[h].ticket <= applied'
  BY <1>1, <1>3 DEF Admissible
<1>7. ASSUME NEW k \in Handler, Admissible(k)'
      PROVE  /\ k # h /\ handler'[k] = handler[k] /\ Admissible(k)
             /\ applied' <= handler[k].ticket
             /\ ~ Walking(h) \/ handler[h].ticket <= handler[k].ticket
  <2>1. k # h
    BY <1>2, <1>7 DEF Admissible, Walking
  <2>2. handler'[k] = handler[k] /\ Walking(k)
    BY <1>1, <1>2, <1>7, <2>1, SameWalking DEF Admissible
  <2>3. applied' <= handler[k].ticket
    BY <1>7, <2>2 DEF Admissible
  <2>4. applied <= handler[k].ticket
    BY <1>3, <1>5, <2>3
  <2>5. Walking(h) => handler[h].ticket <= handler[k].ticket
    BY <1>3, <1>5, <1>6, <2>3
  <2> QED
    BY <2>1, <2>2, <2>3, <2>4, <2>5 DEF Admissible
<1> QED
  BY <1>5, <1>7, Zenon

\* A result that is applied was right or is remedied, and one that is dropped
\* remedied nothing.
LEMMA ApplyIndex ==
  ASSUME TypeOK, NEW h \in Handler, ApplyWalk(h), IndexOK
  PROVE  IndexOK'
<1>1. /\ handler[h].pc = "walk" /\ handler[h].left = {}
      /\ handler' = [handler EXCEPT ![h] = IdleHandler]
      /\ UNCHANGED <<files, events, filters, roots, failed>>
      /\ Admissible(h) => /\ applied' = handler[h].ticket
                          /\ \A r \in roots : discovered'[r] = handler[h].found[r]
      /\ ~ Admissible(h) => applied' = applied /\ discovered' = discovered
  BY AppliedFacts, Zenon
<1>2. applied \in Nat /\ \A k \in Handler : handler[k].ticket \in Nat
  BY Zenon DEF TypeOK, Walk
<1>3. roots \subseteq Root
  BY Zenon DEF TypeOK
<1>4. \A r, x, set : Right(r, x, set)' <=> Right(r, x, set)
  BY <1>1, Zenon DEF Right
<1>5. \A t \in Nat, r \in roots, x \in File :
        Remedy(t, r, x) /\ (~ Walking(h) \/ handler[h].ticket <= t) => Remedy(t, r, x)'
  BY <1>1, <1>3, RemedyLeft, Zenon
<1> SUFFICES ASSUME ~ failed' PROVE SetsOK' /\ ResultsOK'
  BY DEF IndexOK
<1>6. SetsOK /\ ResultsOK
  BY <1>1 DEF IndexOK
<1>7. SetsOK'
  <2>1. ASSUME NEW r \in roots, NEW x \in File, Admissible(h)
        PROVE  (Right(r, x, discovered[r]) \/ Remedy(applied, r, x))'
    <3>1. Right(r, x, handler[h].found[r]) \/ Remedy(handler[h].ticket, r, x)
      BY <1>1, <1>6, <2>1 DEF ResultsOK
    <3>2. Right(r, x, handler[h].found[r]) => Right(r, x, discovered[r])'
      BY <1>1, <1>4, <2>1, ZenonT(60)
    <3>3. Remedy(handler[h].ticket, r, x) => Remedy(applied, r, x)'
      BY <1>1, <1>2, <1>5, <2>1
    <3> QED
      BY <3>1, <3>2, <3>3
  <2>2. ASSUME NEW r \in roots, NEW x \in File, ~ Admissible(h)
        PROVE  (Right(r, x, discovered[r]) \/ Remedy(applied, r, x))'
    <3>1. Right(r, x, discovered[r]) \/ Remedy(applied, r, x)
      BY <1>6, Zenon DEF SetsOK
    <3>2. ~ Walking(h) \/ handler[h].ticket <= applied
      BY <1>2, <2>2 DEF Admissible
    <3>3. Right(r, x, discovered[r]) => Right(r, x, discovered[r])'
      BY <1>1, <1>4, <2>2, Zenon
    <3>4. Remedy(applied, r, x) => Remedy(applied, r, x)'
      BY <1>1, <1>2, <1>5, <2>2, <3>2, Zenon
    <3> QED
      BY <3>1, <3>3, <3>4, Zenon
  <2> QED
    BY <1>1, <2>1, <2>2 DEF SetsOK
<1>8. ResultsOK'
  <2> SUFFICES ASSUME NEW k \in Handler, NEW r \in roots, NEW x \in File, Admissible(k)',
                      r \notin handler'[k].left
               PROVE  (Right(r, x, handler[k].found[r]) \/ Remedy(handler[k].ticket, r, x))'
    BY <1>1, Zenon DEF ResultsOK
  <2>1. /\ handler'[k] = handler[k] /\ Admissible(k)
        /\ ~ Walking(h) \/ handler[h].ticket <= handler[k].ticket
    BY AppliedAdmissible, Zenon
  <2>2. Right(r, x, handler[k].found[r]) \/ Remedy(handler[k].ticket, r, x)
    BY <1>6, <2>1, Zenon DEF ResultsOK
  <2>3. Right(r, x, handler[k].found[r]) => Right(r, x, handler[k].found[r])'
    BY <1>4, <2>1, Zenon
  <2>4. Remedy(handler[k].ticket, r, x) => Remedy(handler[k].ticket, r, x)'
    BY <1>2, <1>5, <2>1, Zenon
  <2> QED
    BY <2>2, <2>3, <2>4, Zenon
<1> QED
  BY <1>7, <1>8

LEMMA IndexStep ==
  ASSUME TypeOK, Bookkeeping, IndexOK, [Next]_vars
  PROVE  IndexOK'
<1>1. ASSUME NEW h \in Handler, NEW own \in SUBSET Root, Begin(h, own) PROVE IndexOK'
  BY <1>1, BeginHandler, ReadyIndex, Zenon DEF TypeOK
<1>2. ASSUME NEW h \in Handler, NEW f \in File, SourceEvent(h, f) PROVE IndexOK'
  <2>1. {Owner[f]} \cap roots \in SUBSET Root
    BY Zenon DEF TypeOK
  <2> QED
    BY <1>1, <1>2, <2>1, Zenon DEF SourceEvent
<1>3. ASSUME NEW h \in Handler, NEW r \in Root, NEW filter \in SUBSET File,
             ConfigEvent(h, r, filter) \/ AddFolder(h, r, filter) \/ RemoveFolder(h, r)
      PROVE  IndexOK'
  BY <1>1, <1>3, Zenon DEF ConfigEvent, AddFolder, RemoveFolder
<1>4. ASSUME NEW h \in Handler, WalkFails(h) PROVE IndexOK'
  BY <1>4, ZenonT(60) DEF WalkFails, IndexOK
<1>5. CASE UNCHANGED <<files, events, filters, roots, discovered, applied, handler, failed>>
  BY <1>5 DEF IndexOK, SetsOK, ResultsOK, Remedy, Right, Admissible, Walking, Current
<1>6. ASSUME NEW r \in Root, Analyse(r) PROVE IndexOK'
  BY <1>5, <1>6, Zenon DEF Analyse, order
<1>7. CASE UNCHANGED vars
  BY <1>5, <1>7, Zenon DEF vars, order
<1> QED
  BY <1>2, <1>3, <1>4, <1>6, <1>7, FileIndex, StartIndex, ReadIndex, ApplyIndex, Zenon DEF Next

------------------------------------------------------------------------------
(* What is analysed *)

\* What schedules r goes on doing so while its handler does.
LEMMA OwedKept ==
  ASSUME NEW t, NEW r, NEW x, Owed(t, r, x),
         x \in events => Owed(t, r, x)',
         \A k \in Handler : handler[k].pc = "ready" => handler'[k] = handler[k],
         \A k \in Handler : Walking(k) => /\ Walking(k)'
                                          /\ handler'[k].ticket = handler[k].ticket
                                          /\ handler'[k].own = handler[k].own
  PROVE  Owed(t, r, x)'
BY Zenon DEF Owed

LEMMA OwingKept ==
  ASSUME NEW r, NEW x, Owing(r, x),
         x \in events => Owing(r, x)',
         \A k \in Handler : handler[k].pc # "idle" => /\ handler'[k].pc # "idle"
                                                      /\ handler'[k].own = handler[k].own
  PROVE  Owing(r, x)'
BY Zenon DEF Owing

\* Whoever owes a scheduling since some walk is to make it.
LEMMA OwedOwing ==
  ASSUME NEW t, NEW r, NEW x, Owed(t, r, x)
  PROVE  Owing(r, x)
BY Zenon DEF Owed, Owing, Walking

\* The event of a file that changed is owed.
LEMMA FileAnalysis ==
  ASSUME TypeOK, NEW f \in File, FileChange(f), AnalysisOK
  PROVE  AnalysisOK'
<1>1. /\ UNCHANGED <<filters, roots, discovered, applied, handler, due, analysed, failed, undone>>
      /\ events' = events \cup {f}
      /\ \A x \in File : x # f => (x \in files' <=> x \in files)
  BY Zenon DEF FileChange, order
<1>2. \A k \in Handler : Walking(k)' <=> Walking(k)
  BY <1>1, SameWalking, Zenon
<1>3. \A r, x, set : x \in File /\ x # f => (Right(r, x, set) <=> Right(r, x, set)')
  BY <1>1, Zenon DEF Right
<1>4. \A t, r, x : x \in events' => Owed(t, r, x)' /\ Owing(r, x)'
  BY Zenon DEF Owed, Owing
<1>5. \A t, r, x : Owed(t, r, x) => Owed(t, r, x)'
  BY <1>1, <1>2, <1>4, OwedKept, Zenon
<1>6. \A r, x : Owing(r, x) => Owing(r, x)'
  BY <1>1, <1>4, OwingKept, Zenon
<1>7. \A k \in Handler : Admissible(k)' <=> Admissible(k)
  BY <1>1, <1>2, Zenon DEF Admissible
<1> SUFFICES ASSUME ~ failed', ~ undone' PROVE ReadsOK' /\ SnapshotsOK' /\ AnalysesOK'
  BY Zenon DEF AnalysisOK
<1>8. ReadsOK /\ SnapshotsOK /\ AnalysesOK
  BY <1>1, Zenon DEF AnalysisOK
<1>9. ReadsOK'
  <2> SUFFICES ASSUME NEW k \in Handler, NEW x \in File, Admissible(k),
                      Owner[x] \in roots \ handler[k].left
               PROVE  (Right(Owner[x], x, handler[k].found[Owner[x]])
                         \/ Owed(handler[k].ticket, Owner[x], x))'
    BY <1>1, <1>7, Zenon DEF ReadsOK
  <2>1. Right(Owner[x], x, handler[k].found[Owner[x]]) \/ Owed(handler[k].ticket, Owner[x], x)
    BY <1>8, Zenon DEF ReadsOK
  <2>2. x = f => Owed(handler[k].ticket, Owner[x], x)'
    BY <1>1, <1>4, Zenon
  <2>3. Owed(handler[k].ticket, Owner[x], x) => Owed(handler[k].ticket, Owner[x], x)'
    BY <1>1, <1>5, Zenon
  <2>4. x # f /\ Right(Owner[x], x, handler[k].found[Owner[x]])
          => Right(Owner[x], x, handler[k].found[Owner[x]])'
    BY <1>1, <1>3, Zenon
  <2> QED
    BY <2>1, <2>2, <2>3, <2>4, Zenon
<1>10. SnapshotsOK'
  <2> SUFFICES ASSUME NEW k \in Handler, NEW x \in File, Admissible(k), Owner[x] \in roots
               PROVE  (\/ x \in handler[k].previous[Owner[x]] <=> x \in discovered[Owner[x]]
                       \/ Right(Owner[x], x, discovered[Owner[x]])
                       \/ Owed(applied, Owner[x], x))'
    BY <1>1, <1>7, Zenon DEF SnapshotsOK
  <2>1. \/ x \in handler[k].previous[Owner[x]] <=> x \in discovered[Owner[x]]
        \/ Right(Owner[x], x, discovered[Owner[x]])
        \/ Owed(applied, Owner[x], x)
    BY <1>8, Zenon DEF SnapshotsOK
  <2>2. x = f => Owed(applied, Owner[x], x)'
    BY <1>1, <1>4, Zenon
  <2>3. Owed(applied, Owner[x], x) => Owed(applied, Owner[x], x)'
    BY <1>1, <1>5, Zenon
  <2>4. x # f /\ Right(Owner[x], x, discovered[Owner[x]])
          => Right(Owner[x], x, discovered[Owner[x]])'
    BY <1>1, <1>3, Zenon
  <2> QED
    BY <1>1, <2>1, <2>2, <2>3, <2>4, Zenon
<1>11. AnalysesOK'
  BY <1>1, <1>6, <1>8, Zenon DEF AnalysesOK
<1> QED
  BY <1>9, <1>10, <1>11, Zenon

\* A step that reads no root and applies no walk: an admissible walk was admissible
\* for the same descriptors, and what was owed since then is owed still.
LEMMA ReadsKept ==
  ASSUME ReadsOK, SnapshotsOK, files' = files, applied' = applied,
         \A k \in Handler : Admissible(k)' =>
           /\ Admissible(k) /\ handler'[k] = handler[k] /\ roots' = roots
           /\ \A r \in roots : filters'[r] = filters[r] /\ discovered'[r] = discovered[r]
           /\ \A x \in File : Owner[x] \in roots =>
                /\ Owed(handler[k].ticket, Owner[x], x) => Owed(handler[k].ticket, Owner[x], x)'
                /\ Owed(applied, Owner[x], x) => Owed(applied, Owner[x], x)'
  PROVE  ReadsOK' /\ SnapshotsOK'
<1> SUFFICES ASSUME NEW k \in Handler, NEW x \in File, Admissible(k)', Owner[x] \in roots'
             PROVE  /\ (Owner[x] \notin handler[k].left =>
                          \/ Right(Owner[x], x, handler[k].found[Owner[x]])
                          \/ Owed(handler[k].ticket, Owner[x], x))'
                    /\ (\/ x \in handler[k].previous[Owner[x]] <=> x \in discovered[Owner[x]]
                        \/ Right(Owner[x], x, discovered[Owner[x]])
                        \/ Owed(applied, Owner[x], x))'
  BY ZenonT(60) DEF ReadsOK, SnapshotsOK
<1> DEFINE r == Owner[x]
<1>1. /\ Admissible(k) /\ handler'[k] = handler[k] /\ r \in roots
      /\ filters'[r] = filters[r] /\ discovered'[r] = discovered[r]
      /\ Owed(handler[k].ticket, r, x) => Owed(handler[k].ticket, r, x)'
      /\ Owed(applied, r, x) => Owed(applied, r, x)'
  OBVIOUS
<1>2. \A set : Right(r, x, set) => Right(r, x, set)'
  BY <1>1, Zenon DEF Right
<1>3. r \notin handler[k].left =>
        Right(r, x, handler[k].found[r]) \/ Owed(handler[k].ticket, r, x)
  BY <1>1, Zenon DEF ReadsOK
<1>4. \/ x \in handler[k].previous[r] <=> x \in discovered[r]
      \/ Right(r, x, discovered[r])
      \/ Owed(applied, r, x)
  BY <1>1, Zenon DEF SnapshotsOK
<1>5. Right(r, x, handler[k].found[r]) => Right(r, x, handler[k].found[r])'
  BY <1>1, <1>2, Zenon
<1>6. Right(r, x, discovered[r]) => Right(r, x, discovered[r])'
  BY <1>1, <1>2, Zenon
<1> HIDE DEF r
<1>7. (r \notin handler[k].left =>
         Right(r, x, handler[k].found[r]) \/ Owed(handler[k].ticket, r, x))'
  BY <1>1, <1>3, <1>5, Zenon
<1>8. (\/ x \in handler[k].previous[r] <=> x \in discovered[r]
       \/ Right(r, x, discovered[r])
       \/ Owed(applied, r, x))'
  BY <1>1, <1>4, <1>6, Zenon
<1> QED
  BY <1>7, <1>8, Zenon DEF r

\* The handler of an event owes what the event did.
LEMMA EventAnalysis ==
  ASSUME TypeOK, NEW h \in Handler, NEW f \in File, SourceEvent(h, f), AnalysisOK
  PROVE  AnalysisOK'
<1>1. /\ UNCHANGED <<files, filters, roots, discovered, applied, due, analysed, failed, undone>>
      /\ events' = events \ {f} /\ Begin(h, {Owner[f]} \cap roots)
  BY Zenon DEF SourceEvent, order
<1>2. {Owner[f]} \cap roots \in SUBSET Root
  BY Zenon DEF TypeOK
<1>3. /\ handler[h].pc = "idle"
      /\ handler'[h].pc = "ready" /\ handler'[h].own = {Owner[f]} \cap roots
      /\ \A k \in Handler : k # h => handler'[k] = handler[k]
  BY <1>1, <1>2, BeginHandler, Zenon DEF TypeOK
<1>4. \A k \in Handler : Walking(k)' <=> Walking(k) /\ k # h
  <2>1. ~ Walking(h)' /\ ~ Walking(h)
    BY <1>3, Zenon DEF Walking
  <2> QED
    BY <1>1, <1>3, <2>1, SameWalking, Zenon
<1>5. ASSUME NEW t, NEW x \in File, Owner[x] \in roots
      PROVE  /\ Owed(t, Owner[x], x) => Owed(t, Owner[x], x)'
             /\ Owing(Owner[x], x) => Owing(Owner[x], x)'
  <2>1. x \in events => Owed(t, Owner[x], x)' /\ Owing(Owner[x], x)'
    BY <1>1, <1>3, <1>5, Zenon DEF Owed, Owing
  <2>2. ~ Walking(h)
    BY <1>3, Zenon DEF Walking
  <2>3. Owed(t, Owner[x], x) => Owed(t, Owner[x], x)'
    BY <1>3, <1>4, <2>1, <2>2, OwedKept, Zenon
  <2>4. Owing(Owner[x], x) => Owing(Owner[x], x)'
    BY <1>3, <2>1, OwingKept, Zenon
  <2> QED
    BY <2>3, <2>4, Zenon
<1>6. \A k \in Handler : Admissible(k)' => Admissible(k) /\ handler'[k] = handler[k]
  BY <1>1, <1>3, <1>4, Zenon DEF Admissible
<1> SUFFICES ASSUME ~ failed', ~ undone' PROVE ReadsOK' /\ SnapshotsOK' /\ AnalysesOK'
  BY Zenon DEF AnalysisOK
<1>7. ReadsOK /\ SnapshotsOK /\ AnalysesOK
  BY <1>1, Zenon DEF AnalysisOK
<1>8. ReadsOK' /\ SnapshotsOK'
  BY <1>1, <1>5, <1>6, <1>7, ReadsKept, Zenon
<1>9. AnalysesOK'
  BY <1>1, <1>5, <1>7, Zenon DEF AnalysesOK
<1> QED
  BY <1>8, <1>9, Zenon

\* A change of the descriptors that undoes none leaves current only walks that were,
\* and then the descriptors are the same.
LEMMA DescriptorsKept ==
  ASSUME TypeOK, TypeOK', NEW h \in Handler, NEW own \in SUBSET Root, Begin(h, own),
         ~ Undoes, NEW k \in Handler, Walking(k)'
  PROVE  /\ k # h /\ Walking(k) /\ handler'[k] = handler[k] /\ roots' = roots
         /\ \A r \in roots : filters'[r] = filters[r]
         /\ \A j \in Handler : Walking(j) => Walking(j)' /\ handler'[j] = handler[j]
<1>1. /\ handler[h].pc = "idle" /\ handler'[h].pc = "ready"
      /\ \A j \in Handler : j # h => handler'[j] = handler[j]
  BY BeginHandler, Zenon DEF TypeOK
<1>2. k # h /\ handler'[k] = handler[k]
  BY <1>1, Zenon DEF Walking
<1>3. handler[k].pc = "walk" /\ CurrentIn(handler[k], roots', filters')
  BY <1>2, Zenon DEF Walking, Current
<1>4. Current(handler[k])
  BY <1>3, Zenon DEF Undoes
<1> DEFINE Types == /\ \A j \in Handler : handler[j] \in Walk
                   /\ roots \in SUBSET Root /\ roots' \in SUBSET Root
                   /\ filters \in [Root -> SUBSET File] /\ filters' \in [Root -> SUBSET File]
<1>0. Types
  BY ZenonT(60) DEF TypeOK
<1>5. handler[k].roots = roots' /\ \A r \in roots' : handler[k].filters[r] = filters'[r]
  BY <1>0, <1>3, CurrentFacts, SMTT(30)
<1>6. handler[k].roots = roots /\ \A r \in roots : handler[k].filters[r] = filters[r]
  BY <1>0, <1>4, CurrentFacts, SMTT(30) DEF Current
<1>7. roots' = roots /\ \A r \in roots : filters'[r] = filters[r]
  BY <1>5, <1>6, Zenon
<1>8. ASSUME NEW j \in Handler, Walking(j)
      PROVE  Walking(j)' /\ handler'[j] = handler[j]
  <2>1. j # h /\ handler[j].pc = "walk"
    BY <1>1, <1>8, Zenon DEF Walking
  <2>2. handler'[j] = handler[j]
    BY <1>1, <2>1, ZenonT(60)
  <2>3. CurrentIn(handler[j], roots, filters)
    BY <1>8, Zenon DEF Current, Walking
  <2>4. handler[j].roots = roots /\ \A r \in roots : handler[j].filters[r] = filters[r]
    BY ONLY <1>0, <2>3, CurrentFacts, j \in Handler, SMTT(30)
  <2>5. handler[j].roots = roots' /\ \A r \in roots' : handler[j].filters[r] = filters'[r]
    BY ONLY <1>7, <2>4
  <2>6. CurrentIn(handler[j], roots', filters')
    BY ONLY <1>0, <2>5, CurrentFacts, j \in Handler, SMTT(30)
  <2> QED
    BY <2>1, <2>2, <2>6, Zenon DEF Walking, Current
<1> QED
  BY <1>2, <1>3, <1>4, <1>7, <1>8, Zenon DEF Walking

\* A change of the descriptors: the walks of the others are dropped, or it changed
\* nothing they read.
LEMMA DescriptorReads ==
  ASSUME TypeOK, TypeOK', NEW h \in Handler, NEW own \in SUBSET Root, Begin(h, own),
         ~ Undoes, UNCHANGED <<files, events, applied>>, roots' = roots => discovered' = discovered,
         ReadsOK, SnapshotsOK
  PROVE  ReadsOK' /\ SnapshotsOK'
<1>1. /\ handler[h].pc = "idle"
      /\ \A j \in Handler : j # h => handler'[j] = handler[j]
  BY BeginHandler, Zenon DEF TypeOK
<1>2. ASSUME NEW k \in Handler, Admissible(k)', NEW t, NEW r, NEW x, Owed(t, r, x)
      PROVE  Owed(t, r, x)'
  <2>1. \A j \in Handler : Walking(j) => Walking(j)' /\ handler'[j] = handler[j]
    BY <1>2, DescriptorsKept, Zenon DEF Admissible
  <2>2. x \in events => Owed(t, r, x)'
    BY Zenon DEF Owed
  <2>3. \A j \in Handler : handler[j].pc = "ready" => handler'[j] = handler[j]
    BY <1>1, Zenon
  <2> QED
    BY <1>2, <2>1, <2>2, <2>3, OwedKept, Zenon
<1>3. ASSUME NEW k \in Handler, Admissible(k)'
      PROVE  /\ Admissible(k) /\ handler'[k] = handler[k] /\ roots' = roots
             /\ \A r \in roots : filters'[r] = filters[r] /\ discovered'[r] = discovered[r]
  <2>1. /\ Walking(k) /\ handler'[k] = handler[k] /\ roots' = roots
        /\ \A r \in roots : filters'[r] = filters[r]
    BY <1>3, DescriptorsKept, Zenon DEF Admissible
  <2> QED
    BY <1>3, <2>1, Zenon DEF Admissible
<1> QED
  BY <1>2, <1>3, ReadsKept, Zenon

\* A reload or a new folder: its handler schedules the root.
LEMMA LoadAnalysis ==
  ASSUME TypeOK, TypeOK', NEW h \in Handler, NEW q \in Root, NEW filter \in SUBSET File,
         ConfigEvent(h, q, filter) \/ AddFolder(h, q, filter), AnalysisOK
  PROVE  AnalysisOK'
<1>1. /\ UNCHANGED <<files, events, applied, discovered, due, analysed, failed>>
      /\ undone' = (undone \/ Undoes) /\ Begin(h, {q}) /\ roots' \subseteq roots \cup {q}
  BY Zenon DEF ConfigEvent, AddFolder, order
<1>2. /\ handler[h].pc = "idle" /\ handler'[h].pc = "ready" /\ handler'[h].own = {q}
      /\ \A k \in Handler : k # h => handler'[k] = handler[k]
  BY <1>1, BeginHandler, Zenon DEF TypeOK
<1> SUFFICES ASSUME ~ failed', ~ undone' PROVE ReadsOK' /\ SnapshotsOK' /\ AnalysesOK'
  BY Zenon DEF AnalysisOK
<1>3. ReadsOK /\ SnapshotsOK /\ AnalysesOK /\ ~ Undoes
  BY <1>1, Zenon DEF AnalysisOK, TypeOK
<1>4. ReadsOK' /\ SnapshotsOK'
  BY <1>1, <1>3, DescriptorReads
<1>5. \A r, x : Owing(r, x) => Owing(r, x)'
  BY <1>1, <1>2 DEF Owing
<1>6. \A x : Owing(q, x)'
  BY <1>2 DEF Owing
<1>7. AnalysesOK'
  <2> SUFFICES ASSUME NEW x \in File, Owner[x] \in roots' \ due', Owner[x] # q
               PROVE  \/ x \in analysed[Owner[x]] <=> x \in discovered[Owner[x]]
                      \/ Owing(Owner[x], x)'
    BY <1>1, <1>6, Zenon DEF AnalysesOK
  <2> QED
    BY <1>1, <1>3, <1>5, Zenon DEF AnalysesOK
<1> QED
  BY <1>4, <1>7, Zenon

\* The handler of a removed folder schedules every root.
LEMMA RemoveAnalysis ==
  ASSUME TypeOK, TypeOK', NEW h \in Handler, NEW q \in Root, RemoveFolder(h, q), AnalysisOK
  PROVE  AnalysisOK'
<1>1. /\ UNCHANGED <<files, events, applied, failed>> /\ q \in roots /\ roots' = roots \ {q}
      /\ undone' = (undone \/ Undoes) /\ Begin(h, Root)
  BY Zenon DEF RemoveFolder, order
<1>2. handler'[h].pc = "ready" /\ handler'[h].own = Root
  BY <1>1, BeginHandler, Zenon DEF TypeOK
<1> SUFFICES ASSUME ~ failed', ~ undone' PROVE ReadsOK' /\ SnapshotsOK' /\ AnalysesOK'
  BY Zenon DEF AnalysisOK
<1>3. ReadsOK /\ SnapshotsOK /\ ~ Undoes
  BY <1>1, Zenon DEF AnalysisOK, TypeOK
<1>4. roots' # roots
  BY <1>1
<1>5. ReadsOK' /\ SnapshotsOK'
  BY <1>1, <1>3, <1>4, DescriptorReads
<1>6. AnalysesOK'
  BY <1>2 DEF AnalysesOK, Owing, TypeOK
<1> QED
  BY <1>5, <1>6, Zenon

\* A walk that begins has read nothing, and goes on owing what its handler owed.
LEMMA StartAnalysis ==
  ASSUME TypeOK, Bookkeeping, NEW h \in Handler, StartWalk(h), AnalysisOK
  PROVE  AnalysisOK'
<1>1. /\ UNCHANGED <<files, events, filters, roots, discovered, applied, due, analysed, failed, undone>>
      /\ handler[h].pc = "ready"
  BY DEF StartWalk
<1>2. /\ handler'[h].pc = "walk" /\ handler'[h].own = handler[h].own
      /\ handler'[h].ticket = started + 1 /\ handler'[h].left = roots
      /\ handler'[h].previous = discovered
      /\ \A k \in Handler : k # h => handler'[k] = handler[k]
  BY StartedHandler, Zenon
<1>3. /\ Walking(h)' /\ \A k \in Handler : k # h => (Walking(k)' <=> Walking(k))
      /\ \A k \in Handler : Walking(k) => k # h
  BY StartedWalking, Zenon
<1>4. ASSUME NEW t \in Nat, t <= started, NEW r, NEW x, Owed(t, r, x) PROVE Owed(t, r, x)'
  <2>1. CASE x \in events
    BY <1>1, <2>1, Zenon DEF Owed
  <2>2. ASSUME NEW k \in Handler, handler[k].pc = "ready", r \in handler[k].own
        PROVE  Owed(t, r, x)'
    <3>1. started + 1 > t
      BY <1>4 DEF TypeOK
    <3>2. CASE k = h
      BY <1>2, <1>3, <2>2, <3>1, <3>2, Zenon DEF Owed
    <3>3. CASE k # h
      BY <1>2, <2>2, <3>3, Zenon DEF Owed
    <3> QED
      BY <3>2, <3>3, Zenon
  <2>3. ASSUME NEW k \in Handler, Walking(k), handler[k].ticket > t, r \in handler[k].own
        PROVE  Owed(t, r, x)'
    BY <1>2, <1>3, <2>3, Zenon DEF Owed
  <2> QED
    BY <1>4, <2>1, <2>2, <2>3, Zenon DEF Owed
<1>5. \A r, x : Owing(r, x) => Owing(r, x)'
  BY <1>1, <1>2, Zenon DEF Owing
<1> SUFFICES ASSUME ~ failed', ~ undone' PROVE ReadsOK' /\ SnapshotsOK' /\ AnalysesOK'
  BY Zenon DEF AnalysisOK
<1>6. ReadsOK /\ SnapshotsOK /\ AnalysesOK
  BY <1>1, Zenon DEF AnalysisOK
<1>7. \A r, x, set : Right(r, x, set) => Right(r, x, set)'
  BY <1>1, Zenon DEF Right
<1>8. applied \in Nat /\ applied <= started
  BY Zenon DEF TypeOK
<1>9. ASSUME NEW k \in Handler, k # h, Admissible(k)'
      PROVE  /\ Admissible(k) /\ handler'[k] = handler[k]
             /\ handler[k].ticket \in Nat /\ handler[k].ticket <= started
  <2>1. Admissible(k) /\ handler'[k] = handler[k]
    BY <1>1, <1>2, <1>3, <1>9, Zenon DEF Admissible
  <2> QED
    BY <2>1, Zenon DEF Admissible, Walking, Bookkeeping, TypeOK, Walk
<1>10. ReadsOK'
  <2> SUFFICES ASSUME NEW k \in Handler, NEW x \in File, Admissible(k)',
                      Owner[x] \in roots \ handler'[k].left
               PROVE  (Right(Owner[x], x, handler[k].found[Owner[x]])
                         \/ Owed(handler[k].ticket, Owner[x], x))'
    BY <1>1, Zenon DEF ReadsOK
  <2>1. k # h
    BY <1>2, Zenon
  <2>2. /\ Admissible(k) /\ handler'[k] = handler[k]
        /\ handler[k].ticket \in Nat /\ handler[k].ticket <= started
    BY <1>9, <2>1, Zenon
  <2>3. Right(Owner[x], x, handler[k].found[Owner[x]]) \/ Owed(handler[k].ticket, Owner[x], x)
    BY <1>6, <2>2, Zenon DEF ReadsOK
  <2>4. Right(Owner[x], x, handler[k].found[Owner[x]])
          => Right(Owner[x], x, handler[k].found[Owner[x]])'
    BY <1>7, <2>2, Zenon
  <2>5. Owed(handler[k].ticket, Owner[x], x) => Owed(handler[k].ticket, Owner[x], x)'
    BY <1>4, <2>2, Zenon
  <2> QED
    BY <2>3, <2>4, <2>5, Zenon
<1>11. SnapshotsOK'
  <2> SUFFICES ASSUME NEW k \in Handler, NEW x \in File, Admissible(k)', Owner[x] \in roots
               PROVE  (\/ x \in handler[k].previous[Owner[x]] <=> x \in discovered[Owner[x]]
                       \/ Right(Owner[x], x, discovered[Owner[x]])
                       \/ Owed(applied, Owner[x], x))'
    BY <1>1, Zenon DEF SnapshotsOK
  <2>1. CASE k = h
    BY <1>1, <1>2, <2>1, Zenon
  <2>2. CASE k # h
    <3>1. Admissible(k) /\ handler'[k] = handler[k]
      BY <1>9, <2>2, Zenon
    <3>2. \/ x \in handler[k].previous[Owner[x]] <=> x \in discovered[Owner[x]]
          \/ Right(Owner[x], x, discovered[Owner[x]])
          \/ Owed(applied, Owner[x], x)
      BY <1>6, <3>1, Zenon DEF SnapshotsOK
    <3>3. Right(Owner[x], x, discovered[Owner[x]]) => Right(Owner[x], x, discovered[Owner[x]])'
      BY <1>1, <1>7, Zenon
    <3>4. Owed(applied, Owner[x], x) => Owed(applied, Owner[x], x)'
      BY <1>1, <1>4, <1>8, Zenon
    <3> QED
      BY <1>1, <3>1, <3>2, <3>3, <3>4, Zenon
  <2> QED
    BY <2>1, <2>2, Zenon
<1>12. AnalysesOK'
  BY <1>1, <1>5, <1>6, Zenon DEF AnalysesOK
<1> QED
  BY <1>10, <1>11, <1>12

\* What a walk reads is right, and the snapshots stay.
LEMMA ReadAnalysis ==
  ASSUME TypeOK, NEW h \in Handler, NEW q \in Root, NEW readable \in BOOLEAN,
         WalkRoot(h, q, readable), AnalysisOK
  PROVE  AnalysisOK'
<1>1. /\ UNCHANGED <<files, events, filters, roots, discovered, applied, due, analysed, undone>>
      /\ failed' = (failed \/ ~ readable) /\ handler[h].pc = "walk"
  BY ZenonT(60) DEF WalkRoot, order
<1>2. /\ handler'[h].ticket = handler[h].ticket /\ handler'[h].pc = handler[h].pc
      /\ handler'[h].own = handler[h].own /\ handler'[h].previous = handler[h].previous
      /\ handler'[h].left = handler[h].left \ {q}
      /\ readable => handler'[h].found[q] = files \cap handler[h].filters[q]
      /\ \A r \in Root : r # q => handler'[h].found[r] = handler[h].found[r]
      /\ \A k \in Handler : k # h => handler'[k] = handler[k]
  BY <1>1, WalkedHandler
<1>3. \A k \in Handler : Walking(k)' <=> Walking(k)
  BY WalkedWalking
<1>4. \A k \in Handler : handler'[k].ticket = handler[k].ticket /\ handler'[k].own = handler[k].own
                         /\ handler'[k].pc = handler[k].pc
                         /\ handler'[k].previous = handler[k].previous
  BY <1>2, Zenon
<1>5. \A k \in Handler : Admissible(k)' <=> Admissible(k)
  BY <1>1, <1>3, <1>4, Zenon DEF Admissible
<1>6. \A t, r, x : Owed(t, r, x) => Owed(t, r, x)'
  BY <1>1, <1>3, <1>4, Zenon DEF Owed
<1>7. \A r, x : Owing(r, x) => Owing(r, x)'
  BY <1>1, <1>4, Zenon DEF Owing
<1>8. \A r, x, set : Right(r, x, set) => Right(r, x, set)'
  BY <1>1, Zenon DEF Right
<1> SUFFICES ASSUME ~ failed', ~ undone' PROVE ReadsOK' /\ SnapshotsOK' /\ AnalysesOK'
  BY Zenon DEF AnalysisOK
<1>9. readable /\ ReadsOK /\ SnapshotsOK /\ AnalysesOK
  BY <1>1, ZenonT(60) DEF AnalysisOK, TypeOK
<1>10. ReadsOK'
  <2> SUFFICES ASSUME NEW k \in Handler, NEW x \in File, Admissible(k),
                      Owner[x] \in roots \ handler'[k].left
               PROVE  (Right(Owner[x], x, handler[k].found[Owner[x]])
                         \/ Owed(handler[k].ticket, Owner[x], x))'
    BY <1>1, <1>5, Zenon DEF ReadsOK
  <2>1. CASE k = h /\ Owner[x] = q
    <3>1. handler[h].filters[q] = filters[q]
      BY <2>1, CurrentFacts DEF Admissible, Walking, Current, TypeOK
    <3> QED
      BY <1>1, <1>2, <1>9, <2>1, <3>1, ZenonT(60) DEF Right
  <2>2. CASE k # h \/ Owner[x] # q
    <3>1. /\ Owner[x] \notin handler[k].left
          /\ handler'[k].found[Owner[x]] = handler[k].found[Owner[x]]
      BY <1>2, <2>2 DEF TypeOK
    <3>2. Right(Owner[x], x, handler[k].found[Owner[x]]) \/ Owed(handler[k].ticket, Owner[x], x)
      BY <1>9, <3>1, Zenon DEF ReadsOK
    <3>3. Right(Owner[x], x, handler[k].found[Owner[x]])
            => Right(Owner[x], x, handler[k].found[Owner[x]])'
      BY <1>8, <3>1, Zenon
    <3>4. Owed(handler[k].ticket, Owner[x], x) => Owed(handler[k].ticket, Owner[x], x)'
      BY <1>4, <1>6, Zenon
    <3> QED
      BY <3>2, <3>3, <3>4, ZenonT(60)
  <2> QED
    BY <2>1, <2>2
<1>11. SnapshotsOK'
  <2> SUFFICES ASSUME NEW k \in Handler, NEW x \in File, Admissible(k), Owner[x] \in roots
               PROVE  (\/ x \in handler[k].previous[Owner[x]] <=> x \in discovered[Owner[x]]
                       \/ Right(Owner[x], x, discovered[Owner[x]])
                       \/ Owed(applied, Owner[x], x))'
    BY <1>1, <1>5, Zenon DEF SnapshotsOK
  <2>1. \/ x \in handler[k].previous[Owner[x]] <=> x \in discovered[Owner[x]]
        \/ Right(Owner[x], x, discovered[Owner[x]])
        \/ Owed(applied, Owner[x], x)
    BY <1>9, Zenon DEF SnapshotsOK
  <2>2. Right(Owner[x], x, discovered[Owner[x]]) => Right(Owner[x], x, discovered[Owner[x]])'
    BY <1>1, <1>8, Zenon
  <2>3. Owed(applied, Owner[x], x) => Owed(applied, Owner[x], x)'
    BY <1>1, <1>6, Zenon
  <2> QED
    BY <1>1, <1>4, <2>1, <2>2, <2>3, Zenon
<1>12. AnalysesOK'
  BY <1>1, <1>7, <1>9, Zenon DEF AnalysesOK
<1> QED
  BY <1>10, <1>11, <1>12

\* A handler that ends owes nothing any more; what another one owes stays.
LEMMA OwedLeft ==
  ASSUME TypeOK, NEW h \in Handler, handler' = [handler EXCEPT ![h] = IdleHandler],
         UNCHANGED <<events, filters, roots>>, handler[h].pc # "ready",
         NEW t \in Nat, NEW r, NEW x, Owed(t, r, x),
         ~ Walking(h) \/ handler[h].ticket <= t
  PROVE  Owed(t, r, x)'
<1>1. \A k \in Handler : k # h => handler'[k] = handler[k]
  BY EndedHandler, Zenon
<1>2. CASE x \in events
  BY <1>2, Zenon DEF Owed
<1>3. ASSUME NEW k \in Handler, handler[k].pc = "ready", r \in handler[k].own
      PROVE  Owed(t, r, x)'
  BY <1>1, <1>3, Zenon DEF Owed
<1>4. ASSUME NEW k \in Handler, Walking(k), handler[k].ticket > t, r \in handler[k].own
      PROVE  Owed(t, r, x)'
  <2>1. handler[k].ticket \in Nat
    BY Zenon DEF TypeOK, Walk
  <2>2. k # h
    BY <1>4, <2>1
  <2>3. handler'[k] = handler[k] /\ Walking(k)'
    BY <1>1, <1>4, <2>2, SameWalking, Zenon
  <2> QED
    BY <1>4, <2>3, Zenon DEF Owed
<1> QED
  BY <1>2, <1>3, <1>4, Zenon DEF Owed

\* A result that sets back what another walk set: whoever saw the file change owes
\* the scheduling still.
LEMMA SetBackOwed ==
  ASSUME TypeOK, NEW h \in Handler, Admissible(h), handler[h].left = {},
         NEW x \in File, Owner[x] \in roots, ReadsOK, SnapshotsOK,
         handler[h].previous[Owner[x]] = handler[h].found[Owner[x]]
  PROVE  \/ x \in handler[h].found[Owner[x]] <=> x \in discovered[Owner[x]]
         \/ Owing(Owner[x], x)
<1> DEFINE r == Owner[x]
<1>1. Right(r, x, handler[h].found[r]) \/ Owed(handler[h].ticket, r, x)
  BY Zenon DEF ReadsOK
<1>2. \/ x \in handler[h].previous[r] <=> x \in discovered[r]
      \/ Right(r, x, discovered[r])
      \/ Owed(applied, r, x)
  BY Zenon DEF SnapshotsOK
<1>3. \A t : Owed(t, r, x) => Owing(r, x)
  BY OwedOwing, Zenon
<1>4. Right(r, x, handler[h].found[r]) /\ Right(r, x, discovered[r])
        => (x \in handler[h].found[r] <=> x \in discovered[r])
  BY Zenon DEF Right
<1> QED
  BY <1>1, <1>2, <1>3, <1>4, Zenon

\* A walk that ends: its handler schedules what it owed, the roots it changed are
\* scheduled, and those it set back are owed a scheduling.
LEMMA ApplyAnalysis ==
  ASSUME TypeOK, NEW h \in Handler, ApplyWalk(h), AnalysisOK
  PROVE  AnalysisOK'
<1>1. /\ handler[h].pc = "walk" /\ handler[h].left = {}
      /\ handler' = [handler EXCEPT ![h] = IdleHandler]
      /\ UNCHANGED <<files, events, filters, roots, analysed, failed, undone>>
      /\ Admissible(h) =>
           /\ applied' = handler[h].ticket
           /\ \A r \in roots : discovered'[r] = handler[h].found[r]
           /\ \A r \in roots : handler[h].previous[r] # handler[h].found[r] => r \in due'
      /\ ~ Admissible(h) => applied' = applied /\ discovered' = discovered
      /\ due \subseteq due' /\ \A r \in roots : r \in handler[h].own => r \in due'
  BY AppliedFacts, Zenon
<1>2. applied \in Nat /\ \A k \in Handler : handler[k].ticket \in Nat
  BY DEF TypeOK, Walk
<1>3. \A r, x, set : Right(r, x, set)' <=> Right(r, x, set)
  BY <1>1, Zenon DEF Right
<1>4. \A t \in Nat : \A r, x :
        Owed(t, r, x) /\ (~ Walking(h) \/ handler[h].ticket <= t) => Owed(t, r, x)'
  BY <1>1, OwedLeft, ZenonT(60)
<1>5. \A k \in Handler : k # h => handler'[k] = handler[k]
  BY <1>1, EndedHandler
<1>6. \A r, x : Owing(r, x) /\ r \notin handler[h].own => Owing(r, x)'
  BY <1>1, <1>5 DEF Owing
<1> SUFFICES ASSUME ~ failed', ~ undone' PROVE ReadsOK' /\ SnapshotsOK' /\ AnalysesOK'
  BY DEF AnalysisOK
<1>7. ReadsOK /\ SnapshotsOK /\ AnalysesOK
  BY <1>1, Zenon DEF AnalysisOK
<1>8. ReadsOK'
  <2> SUFFICES ASSUME NEW k \in Handler, NEW x \in File, Admissible(k)',
                      Owner[x] \in roots \ handler'[k].left
               PROVE  (Right(Owner[x], x, handler[k].found[Owner[x]])
                         \/ Owed(handler[k].ticket, Owner[x], x))'
    BY <1>1, Zenon DEF ReadsOK
  <2>1. /\ handler'[k] = handler[k] /\ Admissible(k)
        /\ ~ Walking(h) \/ handler[h].ticket <= handler[k].ticket
    BY AppliedAdmissible, Zenon
  <2>2. Right(Owner[x], x, handler[k].found[Owner[x]]) \/ Owed(handler[k].ticket, Owner[x], x)
    BY <1>7, <2>1, Zenon DEF ReadsOK
  <2>3. Right(Owner[x], x, handler[k].found[Owner[x]])
          => Right(Owner[x], x, handler[k].found[Owner[x]])'
    BY <1>3, <2>1, Zenon
  <2>4. Owed(handler[k].ticket, Owner[x], x) => Owed(handler[k].ticket, Owner[x], x)'
    BY <1>2, <1>4, <2>1, Zenon
  <2> QED
    BY <2>2, <2>3, <2>4, Zenon
<1>9. SnapshotsOK'
  <2> SUFFICES ASSUME NEW k \in Handler, NEW x \in File, Admissible(k)', Owner[x] \in roots
               PROVE  (\/ x \in handler[k].previous[Owner[x]] <=> x \in discovered[Owner[x]]
                       \/ Right(Owner[x], x, discovered[Owner[x]])
                       \/ Owed(applied, Owner[x], x))'
    BY <1>1, Zenon DEF SnapshotsOK
  <2>1. CASE Admissible(h)
    <3>1. Right(Owner[x], x, handler[h].found[Owner[x]]) \/ Owed(handler[h].ticket, Owner[x], x)
      BY <1>1, <1>7, <2>1, Zenon DEF ReadsOK
    <3>2. Right(Owner[x], x, handler[h].found[Owner[x]]) => Right(Owner[x], x, discovered[Owner[x]])'
      BY <1>1, <1>3, <2>1, ZenonT(60)
    <3>3. Owed(handler[h].ticket, Owner[x], x) => Owed(applied, Owner[x], x)'
      BY <1>1, <1>2, <1>4, <2>1
    <3> QED
      BY <3>1, <3>2, <3>3, Zenon
  <2>2. CASE ~ Admissible(h)
    <3>1. handler'[k] = handler[k] /\ Admissible(k)
      BY AppliedAdmissible, Zenon
    <3>2. \/ x \in handler[k].previous[Owner[x]] <=> x \in discovered[Owner[x]]
          \/ Right(Owner[x], x, discovered[Owner[x]])
          \/ Owed(applied, Owner[x], x)
      BY <1>7, <3>1, ZenonT(60) DEF SnapshotsOK
    <3>3. ~ Walking(h) \/ handler[h].ticket <= applied
      BY <1>2, <2>2 DEF Admissible
    <3>4. Right(Owner[x], x, discovered[Owner[x]]) => Right(Owner[x], x, discovered[Owner[x]])'
      BY <1>1, <1>3, <2>2, Zenon
    <3>5. Owed(applied, Owner[x], x) => Owed(applied, Owner[x], x)'
      BY <1>1, <1>2, <1>4, <2>2, <3>3, Zenon
    <3> QED
      BY <1>1, <2>2, <3>1, <3>2, <3>4, <3>5, Zenon
  <2> QED
    BY <2>1, <2>2, Zenon
<1>10. AnalysesOK'
  <2> SUFFICES ASSUME NEW x \in File, Owner[x] \in roots \ due'
               PROVE  \/ x \in analysed[Owner[x]] <=> x \in discovered'[Owner[x]]
                      \/ Owing(Owner[x], x)'
    BY <1>1, Zenon DEF AnalysesOK
  <2>1. Owner[x] \notin handler[h].own /\ Owner[x] \notin due
    BY <1>1, Zenon
  <2>2. (x \in analysed[Owner[x]] <=> x \in discovered[Owner[x]]) \/ Owing(Owner[x], x)
    BY <1>7, <2>1, Zenon DEF AnalysesOK
  <2>3. Owing(Owner[x], x) => Owing(Owner[x], x)'
    BY <1>6, <2>1, Zenon
  <2>4. CASE Admissible(h)
    <3>1. handler[h].previous[Owner[x]] = handler[h].found[Owner[x]]
      BY <1>1, <2>4, Zenon
    <3>2. \/ x \in handler[h].found[Owner[x]] <=> x \in discovered[Owner[x]]
          \/ Owing(Owner[x], x)
      BY <1>1, <1>7, <2>4, <3>1, SetBackOwed, Zenon
    <3>3. discovered'[Owner[x]] = handler[h].found[Owner[x]]
      BY <1>1, <2>4, Zenon
    <3> QED
      BY <2>2, <2>3, <3>2, <3>3, Zenon
  <2>5. CASE ~ Admissible(h)
    BY <1>1, <2>2, <2>3, <2>5, Zenon
  <2> QED
    BY <2>4, <2>5, Zenon
<1> QED
  BY <1>8, <1>9, <1>10

\* An analysis takes the files that are discovered.
LEMMA AnalyseAnalysis ==
  ASSUME TypeOK, NEW q \in Root, Analyse(q), AnalysisOK
  PROVE  AnalysisOK'
<1>1. /\ UNCHANGED <<files, events, filters, roots, discovered, applied, handler, failed, undone>>
      /\ due' = due \ {q} /\ analysed' = [analysed EXCEPT ![q] = Compiled(q)]
  BY Zenon DEF Analyse, order
<1> SUFFICES ASSUME ~ failed', ~ undone' PROVE ReadsOK' /\ SnapshotsOK' /\ AnalysesOK'
  BY DEF AnalysisOK
<1>2. ReadsOK /\ SnapshotsOK /\ AnalysesOK
  BY <1>1, Zenon DEF AnalysisOK
<1>3. ReadsOK' /\ SnapshotsOK'
  BY <1>1, <1>2, ZenonT(60) DEF ReadsOK, SnapshotsOK, Right, Owed, Admissible, Walking, Current
<1>4. \A r, x : Owing(r, x)' <=> Owing(r, x)
  BY <1>1, Zenon DEF Owing
<1>5. AnalysesOK'
  <2> SUFFICES ASSUME NEW x \in File, Owner[x] \in roots \ due'
               PROVE  \/ x \in analysed'[Owner[x]] <=> x \in discovered[Owner[x]]
                      \/ Owing(Owner[x], x)'
    BY <1>1, Zenon DEF AnalysesOK
  <2>1. CASE Owner[x] = q
    BY <1>1, <2>1, Zenon DEF Compiled, TypeOK
  <2>2. CASE Owner[x] # q
    <3>1. analysed'[Owner[x]] = analysed[Owner[x]] /\ Owner[x] \in roots \ due
      BY <1>1, <2>2, Zenon DEF TypeOK
    <3> QED
      BY <1>2, <1>4, <3>1, Zenon DEF AnalysesOK
  <2> QED
    BY <2>1, <2>2, Zenon
<1> QED
  BY <1>3, <1>5, Zenon

LEMMA AnalysisStep ==
  ASSUME TypeOK, TypeOK', Bookkeeping, AnalysisOK, [Next]_vars
  PROVE  AnalysisOK'
<1>1. ASSUME NEW h \in Handler, WalkFails(h) PROVE AnalysisOK'
  BY <1>1, Zenon DEF WalkFails, AnalysisOK
<1>2. CASE UNCHANGED vars
  BY <1>2, ZenonT(60) DEF vars, order, AnalysisOK, ReadsOK, SnapshotsOK, AnalysesOK, Right, Owed, Owing,
              Admissible, Walking, Current
<1> QED
  BY <1>1, <1>2, FileAnalysis, EventAnalysis, LoadAnalysis, RemoveAnalysis, StartAnalysis,
     ReadAnalysis, ApplyAnalysis, AnalyseAnalysis, Zenon DEF Next

------------------------------------------------------------------------------
(* The theorems *)

LEMMA InvInit == Init => IInv
<1> SUFFICES ASSUME Init PROVE IInv
  OBVIOUS
<1>1. TypeOK
  BY TypeInit
<1>2. /\ \A h \in Handler : handler[h].pc = "idle"
      /\ \A r \in Root : discovered[r] = files \cap filters[r]
      /\ \A r \in Root : analysed[r] = {f \in discovered[r] : Owner[f] = r}
  BY Zenon DEF Init, IdleHandler, discover_units, Compiled
<1>3. Bookkeeping
  BY <1>2, Zenon DEF Bookkeeping
<1>4. \A h \in Handler : ~ Admissible(h)
  BY <1>2, Zenon DEF Admissible, Walking
<1>5. IndexOK
  BY <1>1, <1>2, <1>4, Zenon DEF IndexOK, SetsOK, ResultsOK, Right, TypeOK
<1>6. AnalysisOK
  BY <1>1, <1>2, <1>4, Zenon DEF AnalysisOK, ReadsOK, SnapshotsOK, AnalysesOK, TypeOK
<1> QED
  BY <1>1, <1>3, <1>5, <1>6 DEF IInv

LEMMA InvStep == IInv /\ [Next]_vars => IInv'
BY TypeStep, BookkeepingStep, IndexStep, AnalysisStep DEF IInv

LEMMA InvAlways == Spec => []IInv
BY InvInit, InvStep, PTL DEF Spec

\* Once nothing is under way nothing is left to remedy or to schedule.
LEMMA SettledFacts ==
  ASSUME Settled
  PROVE  \A r, x : (\A t : ~ Remedy(t, r, x)) /\ ~ Owing(r, x)
BY DEF Settled, Remedy, Owing, Walking

\* Every variable keeps its type, and no walk is applied that has not begun
\* (DiscoveryOrder).
THEOREM DiscoveryTypes == Spec => []TypeOK
<1>1. IInv => TypeOK
  BY Zenon DEF IInv
<1> QED
  BY <1>1, InvAlways, PTL

\* Once every notification has been handled each root has discovered exactly the
\* files on disk that its config admits, whatever walks overlapped, were dropped as
\* stale or were superseded (rescan, apply_discovery, DiscoveryOrder).
THEOREM IndexesFiles == Spec => []FilesIndexed
<1>1. IInv => FilesIndexed
  <2> SUFFICES ASSUME IInv, Settled, ~ failed, NEW r \in roots
               PROVE  discovered[r] = discover_units(r, filters)
    BY Zenon DEF FilesIndexed
  <2>1. \A x \in File : Right(r, x, discovered[r])
    BY SettledFacts, Zenon DEF IInv, IndexOK, SetsOK
  <2>2. discovered[r] \subseteq File /\ files \subseteq File
    BY Zenon DEF IInv, TypeOK
  <2> QED
    BY <2>1, <2>2, Zenon DEF Right, discover_units
<1> QED
  BY <1>1, InvAlways, PTL

\* Once every notification has been handled each root that is not scheduled has
\* analysed what it has discovered, unless a descriptor change was undone under a
\* walk from before it (apply_discovery, did_change_watched_files).
THEOREM AnalysesFollow == Spec => []DiscoveredAnalysed
<1>1. IInv => DiscoveredAnalysed
  <2> SUFFICES ASSUME IInv, Settled, ~ failed, ~ undone, NEW r \in roots \ due
               PROVE  analysed[r] = Compiled(r)
    BY Zenon DEF DiscoveredAnalysed
  <2>1. \A x \in File : Owner[x] = r => (x \in analysed[r] <=> x \in discovered[r])
    BY SettledFacts, Zenon DEF IInv, AnalysisOK, AnalysesOK
  <2>2. \A x \in File : x \in analysed[r] => Owner[x] = r
    BY Zenon DEF IInv, TypeOK, Bookkeeping
  <2>3. discovered[r] \subseteq File /\ analysed[r] \subseteq File
    BY DEF IInv, TypeOK
  <2> QED
    BY <2>1, <2>2, <2>3, Zenon DEF Compiled
<1> QED
  BY <1>1, InvAlways, PTL
================================================================================
