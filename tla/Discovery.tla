------------------------------- MODULE Discovery -------------------------------
(***************************************************************************)
(* Workspace discovery.  A notification that can change the set of source      *)
(* files (a watched-file event, a config reload, a folder change, a standalone *)
(* root) starts a walk of the file system from the root descriptors of that    *)
(* moment (rescan); the walk runs on the blocking pool beside other walks and  *)
(* file changes, and its result is applied under the state lock                 *)
(* (apply_discovery) if the descriptors are still the same and no later walk    *)
(* was applied.  The handler then schedules the roots whose set changed and     *)
(* those its notification names.                                               *)
(***************************************************************************)
EXTENDS Naturals

CONSTANTS
  Root, File,
  Handler,      \* notification handlers under way at the same time
  Owner,        \* Owner[f]: the root that compiles f
  MaxChanges,   \* bound on changes of files and configs and on new folders
  MaxWalks      \* bound on walks

ASSUME DiscoveryAssumption ==
  /\ Owner \in [File -> Root]
  /\ MaxChanges \in Nat /\ MaxWalks \in Nat

VARIABLES
  files,        \* the source files on disk
  events,       \* files whose watched-file event is not handled yet
  filters,      \* descriptor of each root: the files its config admits
  roots,        \* BackendState.roots
  discovered,   \* RootState.discovered
  started, applied,   \* DiscoveryOrder
  handler,      \* the handlers
  due,          \* roots with a scheduled analysis
  analysed,     \* the files of the last analysis of each root
  failed,       \* a walk failed or could not read a root (history)
  undone,       \* a descriptor change was undone under a walk from before it (history)
  changes       \* counter of the bound

order == <<started, applied>>
vars == <<files, events, filters, roots, discovered, order, handler, due, analysed,
          failed, undone, changes>>

\* A handler: the roots it schedules anyway, and its walk: the ticket, the roots
\* and descriptors it started from, the sets it saw discovered, what it found so
\* far, and the roots still to be walked.
Walk == [pc : {"idle", "ready", "walk"}, own : SUBSET Root, ticket : Nat,
         roots : SUBSET Root, filters : [Root -> SUBSET File],
         previous : [Root -> SUBSET File], found : [Root -> SUBSET File],
         left : SUBSET Root]

NoFiles == [r \in Root |-> {}]

IdleHandler == [pc |-> "idle", own |-> {}, ticket |-> 0, roots |-> {}, filters |-> NoFiles,
                previous |-> NoFiles, found |-> NoFiles, left |-> {}]

\* discover_units
discover_units(r, filter) == files \cap filter[r]

\* What make_jobs compiles of the discovered files.
Compiled(r) == {f \in discovered[r] : Owner[f] = r}

\* After initialize and the first analyses.
Init ==
  /\ files \in SUBSET File
  /\ events = {}
  /\ filters = [r \in Root |-> File]
  /\ roots = Root
  /\ discovered = [r \in Root |-> discover_units(r, filters)]
  /\ started = 1 /\ applied = 1
  /\ handler = [h \in Handler |-> IdleHandler]
  /\ due = {}
  /\ analysed = [r \in Root |-> Compiled(r)]
  /\ failed = FALSE /\ undone = FALSE
  /\ changes = 0

------------------------------------------------------------------------------
(* The environment *)

\* A file is created or deleted; the client will send an event.
FileChange(f) ==
  /\ changes < MaxChanges
  /\ changes' = changes + 1
  /\ files' = IF f \in files THEN files \ {f} ELSE files \cup {f}
  /\ events' = events \cup {f}
  /\ UNCHANGED <<filters, roots, discovered, order, handler, due, analysed, failed, undone>>

------------------------------------------------------------------------------
(* The handlers up to rescan *)

\* Descriptors of the roots that exist.
descriptors(rs, fs) == [r \in rs |-> fs[r]]

\* The descriptors a walk started from are those of the state.
CurrentIn(w, rs, fs) == descriptors(w.roots, w.filters) = descriptors(rs, fs)
Current(w) == CurrentIn(w, roots, filters)

\* The change of the descriptors brings back those of a walk under way.
Undoes == \E h \in Handler : /\ handler[h].pc = "walk"
                             /\ ~ Current(handler[h])
                             /\ CurrentIn(handler[h], roots', filters')

Begin(h, own) ==
  /\ handler[h].pc = "idle"
  /\ handler' = [handler EXCEPT ![h] = [IdleHandler EXCEPT !.pc = "ready", !.own = own]]

\* did_change_watched_files, an event for a source file.
SourceEvent(h, f) ==
  /\ f \in events
  /\ Begin(h, {Owner[f]} \cap roots)
  /\ events' = events \ {f}
  /\ UNCHANGED <<files, filters, roots, discovered, order, due, analysed, failed, undone,
                 changes>>

\* reload_root_config: an invalid config keeps the descriptor.
Reload(r, filter) == filters' = [filters EXCEPT ![r] = filter]

\* did_change_watched_files, an event for the config of r: the descriptor is
\* replaced, and publications are awaited before the walk.
ConfigEvent(h, r, filter) ==
  /\ r \in roots
  /\ changes < MaxChanges
  /\ changes' = changes + 1
  /\ Reload(r, filter)
  /\ Begin(h, {r})
  /\ roots' = roots
  /\ undone' = (undone \/ Undoes)
  /\ UNCHANGED <<files, events, discovered, order, due, analysed, failed>>

\* did_change_workspace_folders, a removed folder: after the walk every
\* root that is left is scheduled.
RemoveFolder(h, r) ==
  /\ r \in roots
  /\ roots' = roots \ {r}
  /\ discovered' = [discovered EXCEPT ![r] = {}]
  /\ analysed' = [analysed EXCEPT ![r] = {}]
  /\ due' = due \ {r}
  /\ Begin(h, Root)
  /\ filters' = filters
  /\ undone' = (undone \/ Undoes)
  /\ UNCHANGED <<files, events, order, failed, changes>>

\* did_change_workspace_folders or did_open: a new root is loaded and
\* scheduled.
AddFolder(h, r, filter) ==
  /\ r \in Root \ roots
  /\ changes < MaxChanges
  /\ changes' = changes + 1
  /\ roots' = roots \cup {r}
  /\ filters' = [filters EXCEPT ![r] = filter]
  /\ Begin(h, {r})
  /\ undone' = (undone \/ Undoes)
  /\ UNCHANGED <<files, events, discovered, order, due, analysed, failed>>

------------------------------------------------------------------------------
(* rescan *)

\* DiscoveryOrder::start
start == started + 1

\* Under the state lock: the ticket and the snapshots.
StartWalk(h) ==
  /\ handler[h].pc = "ready"
  /\ started < MaxWalks
  /\ started' = start
  /\ handler' = [handler EXCEPT ![h] =
                   [pc |-> "walk", own |-> handler[h].own, ticket |-> start,
                    roots |-> roots, filters |-> filters, previous |-> discovered,
                    found |-> NoFiles, left |-> roots]]
  /\ UNCHANGED <<files, events, filters, roots, discovered, applied, due, analysed,
                 failed, undone, changes>>

\* discover_snapshot reads one root; an unreadable directory counts as empty.
WalkRoot(h, r, readable) ==
  /\ handler[h].pc = "walk"
  /\ r \in handler[h].left
  /\ handler' = [handler EXCEPT
                   ![h].left = @ \ {r},
                   ![h].found[r] = IF readable THEN discover_units(r, handler[h].filters)
                                   ELSE {}]
  /\ failed' = (failed \/ ~ readable)
  /\ UNCHANGED <<files, events, filters, roots, discovered, order, due, analysed, undone,
                 changes>>

\* Variant: the walk that ends last is applied.
Admits_Always(ticket) == TRUE

\* DiscoveryOrder::admit
Admits(ticket) == applied <= ticket

\* Variant: the handler relies on the walk alone.
Scheduled_Changed(w, changed) == changed

\* What the handler passes to schedule_roots.
Scheduled(w, changed) == changed \cup w.own

\* apply_discovery, and the scheduling that follows it without an await.
ApplyWalk(h) ==
  LET w == handler[h]
      applies == Current(w) /\ Admits(w.ticket)
      changed == IF applies THEN {r \in roots : w.previous[r] # w.found[r]} ELSE {}
  IN /\ w.pc = "walk" /\ w.left = {}
     /\ applied' = IF applies THEN w.ticket ELSE applied
     /\ discovered' = IF applies
                      THEN [r \in Root |-> IF r \in roots THEN w.found[r] ELSE {}]
                      ELSE discovered
     /\ due' = due \cup (Scheduled(w, changed) \cap roots)
     /\ handler' = [handler EXCEPT ![h] = IdleHandler]
     /\ UNCHANGED <<files, events, filters, roots, started, analysed, failed, undone, changes>>

\* The walk's task panics: the handler goes on without a change.
WalkFails(h) ==
  /\ handler[h].pc = "walk"
  /\ failed' = TRUE
  /\ due' = due \cup (Scheduled(handler[h], {}) \cap roots)
  /\ handler' = [handler EXCEPT ![h] = IdleHandler]
  /\ UNCHANGED <<files, events, filters, roots, discovered, order, analysed, undone, changes>>

\* make_jobs takes the discovered files of a scheduled root.
Analyse(r) ==
  /\ r \in due
  /\ due' = due \ {r}
  /\ analysed' = [analysed EXCEPT ![r] = Compiled(r)]
  /\ UNCHANGED <<files, events, filters, roots, discovered, order, handler, failed, undone,
                 changes>>

Next ==
  \/ \E f \in File : FileChange(f)
  \/ \E h \in Handler :
       \/ \E f \in File : SourceEvent(h, f)
       \/ \E r \in Root : \/ \E filter \in SUBSET File : \/ ConfigEvent(h, r, filter)
                                                         \/ AddFolder(h, r, filter)
                          \/ RemoveFolder(h, r)
                          \/ \E readable \in BOOLEAN : WalkRoot(h, r, readable)
       \/ StartWalk(h)
       \/ ApplyWalk(h)
       \/ WalkFails(h)
  \/ \E r \in Root : Analyse(r)

Spec == Init /\ [][Next]_vars

------------------------------------------------------------------------------
(* Properties *)

\* Every variable is well formed, and no walk is applied that was not started.
TypeOK ==
  /\ files \subseteq File /\ events \subseteq File
  /\ filters \in [Root -> SUBSET File]
  /\ roots \subseteq Root
  /\ discovered \in [Root -> SUBSET File]
  /\ started \in Nat /\ applied \in Nat /\ applied <= started
  /\ handler \in [Handler -> Walk]
  /\ due \subseteq roots
  /\ analysed \in [Root -> SUBSET File]
  /\ failed \in BOOLEAN /\ undone \in BOOLEAN
  /\ changes \in Nat

\* Every event was handled and every handler has ended.
Settled == events = {} /\ \A h \in Handler : handler[h].pc = "idle"

\* Once every notification has been handled, and unless a walk failed, each root
\* has discovered exactly the files on disk that its config admits: neither a walk
\* that began early and ended late nor one that was dropped as stale or superseded
\* leaves a file out or a deleted file in (DiscoveryOrder: "with no further event
\* the root would never index it").
FilesIndexed ==
  Settled /\ ~ failed => \A r \in roots : discovered[r] = discover_units(r, filters)

\* Once every notification has been handled, each root that is not scheduled has
\* analysed the files it has discovered: a set that overlapping walks change and
\* change back is not missed.  Unless a walk failed, or a descriptor change was undone
\* while a walk from before it was under way: apply_discovery then takes that walk
\* after dropping the one that came between, and reports a root as changed only
\* when its set differs from the one at the walk's start.
DiscoveredAnalysed ==
  Settled /\ ~ failed /\ ~ undone => \A r \in roots \ due : analysed[r] = Compiled(r)

================================================================================
