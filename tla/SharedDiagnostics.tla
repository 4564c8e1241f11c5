--------------------------- MODULE SharedDiagnostics ---------------------------
(***************************************************************************)
(* What diagnostics the server decides to publish.  Each analysis root        *)
(* publishes the files only it tracks and suppresses a payload equal to the    *)
(* last one (published_digests); a file tracked more than once is published    *)
(* as the union of what every tracking root found (published_shared).          *)
(*                                                                          *)
(* A digest is represented by the payload it is computed from, and an entry of *)
(* a map by the set of at most one value it holds.  Publications reach the     *)
(* client in the order they are computed (ClientOrder).                        *)
(***************************************************************************)
EXTENDS Naturals, FiniteSets

CONSTANTS
  Root,       \* analysis roots
  Unit,       \* compilation units: found by discovery
  Header,     \* files that are only included
  Finding,    \* diagnostics without the root label
  Few,        \* bound: the findings where workspace folders come and go
  Range,      \* Range[d]: the source range of finding d
  Reach,      \* Reach[r]: the units that discovery finds for root r
  Inside,     \* Inside[f]: the roots with a source or include directory above f
  Depth,      \* Depth[r]: how deep the directories of root r lie
  NoRoot,
  Habits      \* what the workspace may do beside editing (see the guards)

File == Unit \cup Header

ASSUME WorkspaceAssumption ==
  /\ NoRoot \notin Root
  /\ Inside \in [File -> SUBSET Root]
  /\ Depth \in [Root -> Nat]
  /\ \A r, s \in Root : Depth[r] = Depth[s] => r = s
  /\ Reach \in [Root -> SUBSET Unit]
  /\ Range \in [Finding -> Nat]
  /\ Few \subseteq Finding
  /\ Habits \subseteq {"overlap", "handover", "reopen", "foreign", "creation"}

VARIABLES
  roots,              \* BackendState.roots
  units,              \* the compilation units on disk
  open,               \* BackendState.documents
  include_deps,       \* RootState.include_deps
  all_diagnostics,    \* RootState.all_diagnostics
  diagnostics,        \* RootState.diagnostics
  published_digests,  \* RootState.published_digests
  published_shared,   \* BackendState.published_shared
  client,             \* what the client shows
  due,                \* roots whose analysis is scheduled
  running,            \* files of the job of each root (no entry: no job)
  folders             \* the workspace folders are "fixed", "stable" so far or "changed"

disk == <<units, open>>
rootVars == <<include_deps, all_diagnostics, diagnostics>>
vars == <<roots, disk, rootVars, published_digests, published_shared,
          client, due, running, folders>>

\* A published diagnostic: a finding and the root named by its label.
Payload == SUBSET (Finding \X (Root \cup {NoRoot}))

Plain(ds) == {<<d, NoRoot>> : d \in ds}

\* RootState.discovered.  Discovery is one step here.
discovered(r) == units \cap Reach[r]

\* The longest prefix wins.
owning_root(f) ==
  IF \E r \in roots : r \in Inside[f]
  THEN CHOOSE r \in roots \cap Inside[f] :
         \A s \in roots \cap Inside[f] : Depth[s] <= Depth[r]
  ELSE NoRoot

Init ==
  /\ roots \in SUBSET Root
  /\ units = Unit
  /\ open = {}
  /\ include_deps = [r \in Root |-> {}]
  /\ all_diagnostics = [r \in Root |-> [f \in File |-> {}]]
  /\ diagnostics = [r \in Root |-> [f \in File |-> {}]]
  /\ published_digests = [r \in Root |-> [f \in File |-> {}]]
  /\ published_shared = [f \in File |-> {}]
  /\ client = [f \in File |-> {}]
  /\ due = roots
  /\ running = [r \in Root |-> {}]
  /\ folders \in {"fixed", "stable"}

------------------------------------------------------------------------------
(* Merging *)

Trackers(f, deps) == {r \in roots : f \in discovered(r) \cup deps[r]}

\* The count both commit_job and aggregate_shared_publications use: a root that
\* discovers and includes f is counted twice.
tracker_count(f, deps) ==
  Cardinality({r \in roots : f \in discovered(r)}) +
  Cardinality({r \in roots : f \in deps[r]})

\* Variant: the order is turned round, the owner comes last.
Keeper_OwnerLast(d, f, all, ts) ==
  IF \E r \in ts \ {owning_root(f)} : d \in all[r][f]
  THEN CHOOSE r \in ts \ {owning_root(f)} : d \in all[r][f]
  ELSE owning_root(f)

\* The root whose copy of d survives the collapse of duplicates: the owner if it
\* has one.
Keeper(d, f, all, ts) ==
  IF owning_root(f) \in ts /\ d \in all[owning_root(f)][f]
  THEN owning_root(f)
  ELSE CHOOSE r \in ts : d \in all[r][f]

merge_shared_file_diagnostics(f, all, ts) ==
  LET found == UNION {all[r][f] : r \in ts}
      Conflicting(d) == \E e \in found \ {d} : Range[e] = Range[d]
      Label(d) == IF Conflicting(d) /\ Keeper(d, f, all, ts) # owning_root(f)
                  THEN Keeper(d, f, all, ts) ELSE NoRoot
  IN {<<d, Label(d)>> : d \in found}

------------------------------------------------------------------------------
(* commit_job *)

Shared(deps) == {f \in File : tracker_count(f, deps) > 1}

\* The files that the primary map of the commit lists, with their findings: the
\* compiled units, and the other files with findings; never a shared file.
Current(files, deps, all) ==
  [f \in File |-> IF f \notin Shared(deps) /\ (f \in files \/ all[f] # {})
                  THEN {all[f]} ELSE {}]

\* Variant: a payload without findings is not published.
Primary_NoClear(r, current, shared) ==
  {f \in File \ shared :
     /\ current[f] \notin {{}, {{}}}
     /\ published_digests[r][f] # {Plain(UNION current[f])}}

\* The files the commit publishes itself: those listed now or before, whose
\* payload (empty if no longer listed) differs from the recorded digest.
Primary(r, current, shared) ==
  {f \in File \ shared :
     /\ diagnostics[r][f] \cup current[f] # {}
     /\ published_digests[r][f] # {Plain(UNION current[f])}}

\* The files whose union aggregate_shared_publications decides.
Decided(deps, all) ==
  {f \in File :
     /\ Trackers(f, deps) # {}
     /\ tracker_count(f, deps) > 1 \/ published_shared[f] # {}
     /\ published_shared[f] # {} \/ \E r \in Trackers(f, deps) : all[r][f] # {}}

\* The early return of aggregate_shared_publications.
NothingShared(skip) ==
  skip = {} /\ Cardinality(roots) < 2 /\ \A f \in File : published_shared[f] = {}

Sends(f, skip) == f \notin skip

\* Applies the primary publications, then the unions that changed, then the
\* clearing of unions nobody holds any more.
Publish(primary, current, deps, all) ==
  LET decided == Decided(deps, all)
      Union(f) == merge_shared_file_diagnostics(f, all, Trackers(f, deps))
      Changed(f) == f \in decided /\ published_shared[f] # {Union(f)}
      Stale(f) == f \notin decided /\ published_shared[f] # {}
      Own(f) == IF f \in primary THEN Plain(UNION current[f]) ELSE client[f]
  IN IF NothingShared(primary)
     THEN UNCHANGED <<client, published_shared>>
     ELSE /\ client' = [f \in File |->
                          IF Stale(f) THEN {}
                          ELSE IF Changed(f) /\ Sends(f, primary) THEN Union(f)
                          ELSE Own(f)]
          /\ published_shared' = [f \in File |-> IF f \in decided THEN {Union(f)} ELSE {}]

\* commit_job with the include dependencies deps and the findings ds.
Commit(r, deps, ds) ==
  LET alldeps == [include_deps EXCEPT ![r] = deps]
      all == [all_diagnostics EXCEPT ![r] = ds]
      current == Current(UNION running[r], alldeps, ds)
      primary == Primary(r, current, Shared(alldeps))
  IN /\ r \in roots /\ running[r] # {}
     /\ \A f \in File : ds[f] # {} => f \in UNION running[r] \/ f \in deps
     /\ "overlap" \in Habits \/ deps \subseteq Header
     /\ "handover" \in Habits
          \/ \A f \in File : diagnostics[r][f] # {} /\ f \notin discovered(r) \cup deps
                               => Trackers(f, alldeps) = {}
     /\ running' = [running EXCEPT ![r] = {}]
     /\ include_deps' = alldeps
     /\ all_diagnostics' = all
     /\ diagnostics' = [diagnostics EXCEPT ![r] = current]
     /\ published_digests' =
          [published_digests EXCEPT ![r] =
             [f \in File |-> IF current[f] = {} THEN {}
                             ELSE IF f \in primary THEN {Plain(UNION current[f])}
                             ELSE published_digests[r][f]]]
     /\ Publish(primary, current, alldeps, all)
     /\ UNCHANGED <<roots, disk, due, folders>>

------------------------------------------------------------------------------
(* The scheduler and the notifications, as far as diagnostics see them *)

\* No analysis is scheduled or under way.
Quiescent == due = {} /\ \A r \in Root : running[r] = {}

\* An input of r changed: schedule_roots.
Edit(r) ==
  /\ r \in roots \ due
  /\ due' = due \cup {r}
  /\ UNCHANGED <<roots, disk, rootVars, published_digests,
                 published_shared, client, running, folders>>

\* make_jobs: the job compiles the units that r owns, discovered or open.
StartJob(r) ==
  /\ r \in roots \cap due /\ running[r] = {}
  /\ running' = [running EXCEPT ![r] = {{f \in Reach[r] \cap (units \cup open) : owning_root(f) = r}}]
  /\ due' = due \ {r}
  /\ UNCHANGED <<roots, disk, rootVars, published_digests,
                 published_shared, client, folders>>

\* did_change_watched_files: a unit appeared or disappeared; the roots whose
\* set changed and the owner are scheduled.
UnitChanged(f) ==
  /\ f \in units \/ "creation" \in Habits \/ (Quiescent /\ f \notin open)
  /\ units' = IF f \in units THEN units \ {f} ELSE units \cup {f}
  /\ due' = due \cup {r \in roots : f \in Reach[r] \/ owning_root(f) = r}
  /\ UNCHANGED <<roots, open, rootVars, published_digests,
                 published_shared, client, running, folders>>

\* A document whose opening or closing concerns only the root that owns it.
Private(f) ==
  \/ Trackers(f, include_deps) = {owning_root(f)}
       /\ tracker_count(f, include_deps) < 2 /\ published_shared[f] = {}
  \/ "reopen" \in Habits /\ tracker_count(f, include_deps) > 1
  \/ "foreign" \in Habits /\ tracker_count(f, include_deps) = 1

\* published_digests of root r without f.
Forget(r, f) == [published_digests[r] EXCEPT ![f] = {}]

\* did_open: the findings of the owner are replayed, or an empty payload.
DidOpen(f) ==
  LET owner == owning_root(f) IN
  /\ f \notin open /\ Private(f)
  /\ open' = open \cup {f}
  /\ published_digests' = [r \in Root |-> IF r = owner THEN Forget(r, f)
                                          ELSE published_digests[r]]
  /\ published_shared' = [published_shared EXCEPT ![f] = {}]
  /\ client' = [client EXCEPT ![f] = IF owner = NoRoot THEN {}
                                     ELSE Plain(all_diagnostics[owner][f])]
  /\ due' = due \cup ({owner} \ {NoRoot})
  /\ UNCHANGED <<roots, units, rootVars, running, folders>>

\* did_close.
DidClose(f) ==
  /\ f \in open /\ Private(f)
  /\ open' = open \ {f}
  /\ published_shared' = [published_shared EXCEPT ![f] = {}]
  /\ due' = due \cup ({owning_root(f)} \ {NoRoot})
  /\ UNCHANGED <<roots, units, rootVars, published_digests, client, running, folders>>

\* Variant: only what was scheduled anyway.
Remaining_Due(r) == due \ {r}

\* Every remaining root is scheduled when r is removed.
Remaining(r) == roots \ {r}

\* did_change_workspace_folders: r leaves with all it knows, its job will not
\* commit, and every remaining root is scheduled.
RemoveFolder(r) ==
  /\ folders # "fixed"
  /\ folders' = "changed"
  /\ r \in roots
  /\ roots' = roots \ {r}
  /\ include_deps' = [include_deps EXCEPT ![r] = {}]
  /\ all_diagnostics' = [all_diagnostics EXCEPT ![r] = [f \in File |-> {}]]
  /\ diagnostics' = [diagnostics EXCEPT ![r] = [f \in File |-> {}]]
  /\ published_digests' = [published_digests EXCEPT ![r] = [f \in File |-> {}]]
  /\ running' = [running EXCEPT ![r] = {}]
  /\ due' = Remaining(r)
  /\ UNCHANGED <<disk, published_shared, client>>

\* did_change_workspace_folders: only the new root is scheduled.
AddFolder(r) ==
  /\ folders # "fixed"
  /\ folders' = "changed"
  /\ r \in Root \ roots
  /\ roots' = roots \cup {r}
  /\ due' = due \cup {r}
  /\ UNCHANGED <<disk, rootVars, published_digests, published_shared, client,
                 running>>

\* The findings of an analysis.
Findings == IF folders = "fixed" THEN Finding ELSE Few

Next ==
  \/ \E r \in Root :
       \/ Edit(r)
       \/ StartJob(r)
       \/ \E deps \in SUBSET File, ds \in [File -> SUBSET Findings] : Commit(r, deps, ds)
       \/ RemoveFolder(r)
       \/ AddFolder(r)
  \/ \E f \in Unit : UnitChanged(f)
  \/ \E f \in File : DidOpen(f) \/ DidClose(f)

Spec == Init /\ [][Next]_vars

------------------------------------------------------------------------------
(* Properties *)

OptionalMap(S) == [File -> {{}} \cup {{x} : x \in S}]

\* Every variable is well formed; digests are payloads.
TypeOK ==
  /\ roots \subseteq Root
  /\ units \subseteq Unit
  /\ open \subseteq File
  /\ include_deps \in [Root -> SUBSET File]
  /\ all_diagnostics \in [Root -> [File -> SUBSET Finding]]
  /\ diagnostics \in [Root -> OptionalMap(SUBSET Finding)]
  /\ published_digests \in [Root -> OptionalMap(Payload)]
  /\ published_shared \in OptionalMap(Payload)
  /\ client \in [File -> Payload]
  /\ due \subseteq Root
  /\ running \in [Root -> {{}} \cup {{fs} : fs \in SUBSET Unit}]
  /\ folders \in {"fixed", "stable", "changed"}

\* The client shows of f exactly what the roots found in it.
Accurate(f) ==
  {p[1] : p \in client[f]} = UNION {all_diagnostics[r][f] : r \in roots}

\* While the folders are the ones the server started with: once every scheduled
\* analysis has committed, the client shows for each file exactly what the roots
\* found in it, whatever the digests suppressed on the way
\* (aggregate_shared_publications: "a file whose underlying state changed must
\* never stay hidden behind an unchanged digest").
NothingHidden ==
  Quiescent /\ folders # "changed" => \A f \in File : Accurate(f)

\* What the client shows of a file whose union is recorded is the union of the
\* roots that are left, also after folders were removed or added (the surviving
\* root's view is republished).
UnionsAccurate ==
  Quiescent => \A f \in File :
    published_shared[f] # {} /\ Trackers(f, include_deps) # {} => Accurate(f)

\* In what the client shows of a file of several roots, a finding of the owner has
\* no label, and one that contradicts the owner names a root that found it
\* (merge_shared_file_diagnostics: owner first, conflicts labelled).
LabelsTellRoots ==
  Quiescent => \A f \in Shared(include_deps) : \A p \in client[f] :
    LET own == IF owning_root(f) = NoRoot THEN {}
               ELSE all_diagnostics[owning_root(f)][f]
    IN IF p[1] \in own THEN p[2] = NoRoot
       ELSE (\E e \in own : Range[e] = Range[p[1]]) =>
              \E r \in roots : p[2] = r /\ p[1] \in all_diagnostics[r][f]

================================================================================
