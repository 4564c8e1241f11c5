------------------------------ MODULE BuildCache ------------------------------
(***************************************************************************)
(* Several llg processes that build models with one toolchain and share one    *)
(* cache root (sim/build.rs): the runtime archive, the toolchain seed            *)
(* (build/toolchain_seed.rs) and the configured-tree template                    *)
(* (build/tree_template.rs), one key of each.  Markers are files; the locks are   *)
(* those of the operating system, which frees them when a process ends.          *)
(*                                                                          *)
(* A process may crash between any two steps.  What CMake and the compiler       *)
(* answer is any outcome; the bytes they write are left out.                     *)
(***************************************************************************)
EXTENDS Naturals, FiniteSets

CONSTANTS
  Process,    \* places for llg processes
  Dir,        \* output directories of models
  MaxRuns,    \* bound: processes started
  MaxCrashes  \* bound: processes that crash

VARIABLES
  archive,    \* the entry of the runtime archive: ready marker, library, build tree
  seed,       \* the seed entry: ready and rejected markers, platform and cache files
  template,   \* the template entry: three markers, the donor of the stored template
  lock,       \* the holders of the three lock files
  pc,         \* where a process is
  job,        \* what it configures and builds
  dir,        \* its output directory
  loaded,     \* it has a seed
  seeded,     \* the configure under way uses it
  plan,       \* what it found of a template before its configure
  planned,    \* the donor of the template it has loaded
  tried,      \* it has built, or builds, a tree written from a template
  runs, crashes  \* counters of the bounds

shared == <<archive, seed, template>>
found == <<loaded, seeded, plan, planned, tried>>
vars == <<shared, lock, pc, job, dir, found, runs, crashes>>

Kinds == {"archive", "seed", "template"}

Init ==
  /\ archive = [ready |-> FALSE, lib |-> "none", tree |-> "none"]
  /\ seed = [ready |-> FALSE, rejected |-> FALSE, files |-> "none"]
  /\ template = [staged |-> FALSE, ready |-> FALSE, rejected |-> FALSE, donor |-> {}, checker |-> {}]
  /\ lock = [k \in Kinds |-> {}]
  /\ pc = [p \in Process |-> "idle"]
  /\ job = [p \in Process |-> "archive"]
  /\ dir \in [Process -> Dir]
  /\ loaded = [p \in Process |-> FALSE]
  /\ seeded = [p \in Process |-> FALSE]
  /\ plan = [p \in Process |-> "none"]
  /\ planned = [p \in Process |-> {}]
  /\ tried = [p \in Process |-> "no"]
  /\ runs = 0 /\ crashes = 0

At(p, here) == pc[p] = here
Goto(p, there) == pc' = [pc EXCEPT ![p] = there]
Lock(p, kind) == lock' = [lock EXCEPT ![kind] = {p}]
Unlock(p, kind) == lock' = [lock EXCEPT ![kind] = @ \ {p}]

\* A process that ends has no lock.
End(p) ==
  /\ Goto(p, "idle")
  /\ lock' = [k \in Kinds |-> lock[k] \ {p}]

------------------------------------------------------------------------------
(* The runtime archive (prepare_runtime_cache) *)

\* llg builds the model of a directory that no other process builds.
Start(p, d) ==
  /\ At(p, "idle")
  /\ runs < MaxRuns
  /\ \A q \in Process : pc[q] # "idle" => dir[q] # d
  /\ runs' = runs + 1
  /\ Goto(p, "check")
  /\ dir' = [dir EXCEPT ![p] = d]
  /\ job' = [job EXCEPT ![p] = "archive"]
  /\ tried' = [tried EXCEPT ![p] = "no"]
  /\ UNCHANGED <<shared, lock, loaded, seeded, plan, planned, crashes>>

\* cached_runtime_library
cached_runtime_library == archive.ready /\ archive.lib # "none"

\* The archive is there: on to the model.
Model(p) ==
  /\ job' = [job EXCEPT ![p] = "model"]
  /\ Goto(p, "tree")

Check(p) ==
  /\ At(p, "check")
  /\ \/ cached_runtime_library /\ Model(p)
     \/ ~cached_runtime_library /\ Goto(p, "wait") /\ UNCHANGED job
  /\ UNCHANGED <<shared, lock, dir, found, runs, crashes>>

\* RuntimeCacheLock::acquire
Acquire(p) ==
  /\ At(p, "wait")
  /\ lock["archive"] = {}
  /\ Lock(p, "archive")
  /\ Goto(p, "recheck")
  /\ UNCHANGED <<shared, job, dir, found, runs, crashes>>

\* The lock is not free for RUNTIME_CACHE_LOCK_TIMEOUT, or fails: so does the build.
TimeOut(p) ==
  /\ At(p, "wait")
  /\ End(p)
  /\ UNCHANGED <<shared, job, dir, found, runs, crashes>>

\* The file system fails: before the archive's build, in writing its sources, or in
\* writing the marker.  The build ends with the error.
Fail(p) ==
  /\ \/ pc[p] \in {"check", "recheck", "mark"}
     \/ At(p, "tree") /\ job[p] = "archive"
  /\ End(p)
  /\ UNCHANGED <<shared, job, dir, found, runs, crashes>>

\* Variant: the process builds what another one built while it waited.
rechecked_Never == FALSE

\* The second look, under the lock.
rechecked == cached_runtime_library

Recheck(p) ==
  /\ At(p, "recheck")
  /\ \/ /\ rechecked
        /\ Model(p)
        /\ Unlock(p, "archive")
        /\ UNCHANGED archive
     \/ /\ ~rechecked
        /\ archive' = [archive EXCEPT !.ready = FALSE]
        /\ Goto(p, "tree")
        /\ UNCHANGED <<job, lock>>
  /\ UNCHANGED <<seed, template, dir, found, runs, crashes>>

------------------------------------------------------------------------------
(* run_configure *)

\* remove_incompatible_build_dir, and whether a tree is left; one that a process
\* left half configured may have a readable cache or not.  A model's tree may be
\* there from an earlier build.
Tree(p, existing) ==
  /\ At(p, "tree")
  /\ IF job[p] = "archive"
       THEN /\ archive.tree = "none" => ~existing
            /\ archive.tree = "configured" => existing
            /\ archive' = IF existing THEN archive
                                      ELSE [archive EXCEPT !.tree = "none", !.lib = "none"]
       ELSE UNCHANGED archive
  /\ Goto(p, IF existing THEN "cmake" ELSE "seed")
  /\ loaded' = [loaded EXCEPT ![p] = FALSE]
  /\ seeded' = [seeded EXCEPT ![p] = FALSE]
  /\ plan' = [plan EXCEPT ![p] = "none"]
  /\ planned' = [planned EXCEPT ![p] = {}]
  /\ UNCHANGED <<seed, template, lock, job, dir, tried, runs, crashes>>

\* load: a seed with its ready marker and its files.
load == seed.ready /\ seed.files # "none"

\* toolchain_seed::prepare before its lock.  There is no seed when the key was
\* rejected, seeds are off, or CMake or the file system fails.
Prepare(p) ==
  /\ At(p, "seed")
  /\ \/ /\ load
        /\ loaded' = [loaded EXCEPT ![p] = TRUE]
        /\ Goto(p, "plan")
     \/ /\ Goto(p, "plan")
        /\ UNCHANGED loaded
     \/ /\ ~load /\ ~seed.rejected
        /\ Goto(p, "prepare")
        /\ UNCHANGED loaded
  /\ UNCHANGED <<shared, lock, job, dir, seeded, plan, planned, tried, runs, crashes>>

\* Its lock, which it never waits for, and the second look under it; a probe first
\* clears the entry.
PrepareLocked(p) ==
  /\ At(p, "prepare")
  /\ \/ /\ lock["seed"] = {} /\ load
        /\ loaded' = [loaded EXCEPT ![p] = TRUE]
        /\ Goto(p, "plan")
        /\ UNCHANGED <<seed, lock>>
     \/ /\ lock["seed"] # {} \/ (~load /\ seed.rejected)
        /\ Goto(p, "plan")
        /\ UNCHANGED <<seed, loaded, lock>>
     \/ /\ lock["seed"] = {} /\ ~load /\ ~seed.rejected
        /\ seed' = [ready |-> FALSE, rejected |-> FALSE, files |-> "none"]
        /\ Lock(p, "seed")
        /\ Goto(p, "probe")
        /\ UNCHANGED loaded
  /\ UNCHANGED <<archive, template, job, dir, seeded, plan, planned, tried, runs, crashes>>

\* The checked probe: it is rejected, it fails, or its files are being copied.
Probe(p) ==
  /\ At(p, "probe")
  /\ \/ /\ seed' = [seed EXCEPT !.rejected = TRUE]
        /\ Goto(p, "plan")
        /\ Unlock(p, "seed")
     \/ /\ Goto(p, "plan")
        /\ Unlock(p, "seed")
        /\ UNCHANGED seed
     \/ /\ seed' = [seed EXCEPT !.files = "partial"]
        /\ Goto(p, "copy")
        /\ UNCHANGED lock
  /\ UNCHANGED <<archive, template, job, dir, found, runs, crashes>>

\* Variant: the marker is written before the files are complete.
Copied_Marked == [seed EXCEPT !.ready = TRUE]

\* The entry with its files complete.
Copied == [seed EXCEPT !.files = "complete"]

Copy(p) ==
  /\ At(p, "copy")
  /\ \/ /\ seed' = Copied
        /\ Goto(p, "publish")
        /\ UNCHANGED lock
     \/ /\ Goto(p, "plan")
        /\ Unlock(p, "seed")
        /\ UNCHANGED seed
  /\ UNCHANGED <<archive, template, job, dir, found, runs, crashes>>

\* The ready marker; the writer loads the seed itself, or has failed to write it.
Publish(p) ==
  /\ At(p, "publish")
  /\ \/ /\ seed' = [seed EXCEPT !.ready = TRUE]
        /\ loaded' = [loaded EXCEPT ![p] = TRUE]
     \/ UNCHANGED <<seed, loaded>>
  /\ Unlock(p, "seed")
  /\ Goto(p, "plan")
  /\ UNCHANGED <<archive, template, job, dir, seeded, plan, planned, tried, runs, crashes>>

\* tree_template::plan; the second configure of a build asks for none, and the
\* first may have them off or find no readable entry.
Plan(p) ==
  /\ At(p, "plan")
  /\ \E eligible \in BOOLEAN :
     LET asked == /\ eligible /\ loaded[p] /\ job[p] = "model" /\ tried[p] = "no"
                  /\ ~template.rejected
         state == IF template.ready THEN "ready" ELSE IF template.staged THEN "staged" ELSE "absent"
     IN /\ plan' = [plan EXCEPT ![p] = IF asked THEN state ELSE "none"]
        /\ planned' = [planned EXCEPT ![p] = IF asked THEN template.donor ELSE {}]
        /\ Goto(p, IF asked /\ template.ready THEN "instantiate" ELSE "apply")
  /\ UNCHANGED <<shared, lock, job, dir, loaded, seeded, tried, runs, crashes>>

\* Plan::instantiate: the tree is written without a configure, or cannot be.
Instantiate(p) ==
  /\ At(p, "instantiate")
  /\ \/ /\ tried' = [tried EXCEPT ![p] = "template"]
        /\ Goto(p, "build")
     \/ /\ Goto(p, "apply")
        /\ UNCHANGED tried
  /\ UNCHANGED <<shared, lock, job, dir, loaded, seeded, plan, planned, runs, crashes>>

\* Seed::apply: the platform files are copied into the new tree, or cannot be.
Apply(p) ==
  /\ At(p, "apply")
  /\ \E ok \in BOOLEAN :
       /\ ok => loaded[p]
       /\ seeded' = [seeded EXCEPT ![p] = ok]
  /\ archive' = IF job[p] = "archive" THEN [archive EXCEPT !.tree = "partial"] ELSE archive
  /\ Goto(p, "cmake")
  /\ UNCHANGED <<seed, template, lock, job, dir, loaded, plan, planned, tried, runs, crashes>>

\* The archive's entry after its tree got this state.
TreeIs(p, state) ==
  archive' = IF job[p] = "archive" THEN [archive EXCEPT !.tree = state] ELSE archive

\* The configure.
Configure(p) ==
  /\ At(p, "cmake")
  /\ \/ /\ TreeIs(p, "configured")
        /\ Goto(p, IF seeded[p] /\ plan[p] # "none" THEN "after" ELSE "build")
        /\ UNCHANGED lock
     \/ /\ TreeIs(p, "partial")
        /\ Goto(p, "retry")
        /\ UNCHANGED lock
     \/ /\ TreeIs(p, "partial")
        /\ End(p)
  /\ UNCHANGED <<seed, template, job, dir, found, runs, crashes>>

\* The clean retry, in a new tree and without a seed.  When it succeeds where a
\* seeded configure failed, the seed is rejected.
Retry(p) ==
  /\ At(p, "retry")
  /\ \/ /\ archive' = IF job[p] = "archive"
                        THEN [archive EXCEPT !.tree = "configured", !.lib = "none"] ELSE archive
        /\ seed' = IF seeded[p] THEN [seed EXCEPT !.rejected = TRUE] ELSE seed
        /\ Goto(p, "build")
        /\ UNCHANGED lock
     \/ /\ archive' = IF job[p] = "archive"
                        THEN [archive EXCEPT !.tree = "partial", !.lib = "none"] ELSE archive
        /\ End(p)
        /\ UNCHANGED seed
  /\ seeded' = [seeded EXCEPT ![p] = FALSE]
  /\ UNCHANGED <<template, job, dir, loaded, plan, planned, tried, runs, crashes>>

\* Plan::after_configure up to its lock, which it never waits for; without the lock,
\* with the entry settled or the tree unreadable it leaves the entry as it is.
After(p) ==
  /\ At(p, "after")
  /\ \/ /\ lock["template"] = {} /\ ~template.ready /\ ~template.rejected
        /\ Lock(p, "template") /\ Goto(p, "settle")
     \/ Goto(p, "build") /\ UNCHANGED lock
  /\ UNCHANGED <<shared, job, dir, found, runs, crashes>>

\* Variant: the directory that gave the template may check it.
proves_Anything(p) == TRUE

\* The same directory again proves nothing about substitution.
proves(p) == planned[p] # {dir[p]}

\* Plan::after_configure: the configured tree is captured, or compared with the
\* staged template that the process loaded.
Settle(p) ==
  /\ At(p, "settle")
  /\ \/ /\ plan[p] \in {"absent", "ready"} /\ ~template.staged
        /\ template' = [template EXCEPT !.donor = {dir[p]}]
        /\ Goto(p, "capture")
        /\ UNCHANGED lock
     \/ /\ plan[p] = "staged" /\ proves(p)
        /\ template' = [template EXCEPT !.ready = TRUE, !.checker = {dir[p]}]
        /\ Unlock(p, "template") /\ Goto(p, "build")
     \/ /\ \/ plan[p] \in {"absent", "ready"} /\ ~template.staged
           \/ plan[p] = "staged" /\ proves(p)
        /\ template' = [template EXCEPT !.rejected = TRUE]
        /\ Unlock(p, "template") /\ Goto(p, "build")
     \/ /\ UNCHANGED template
        /\ Unlock(p, "template") /\ Goto(p, "build")
  /\ UNCHANGED <<archive, seed, job, dir, found, runs, crashes>>

\* The staged marker, if it can be written.
Capture(p) ==
  /\ At(p, "capture")
  /\ template' \in {template, [template EXCEPT !.staged = TRUE]}
  /\ Unlock(p, "template")
  /\ Goto(p, "build")
  /\ UNCHANGED <<archive, seed, job, dir, found, runs, crashes>>

------------------------------------------------------------------------------
(* The builds *)

\* The compiler starts to write the archive.
Compile(p) ==
  /\ At(p, "build") /\ job[p] = "archive"
  /\ archive' = [archive EXCEPT !.lib = "partial"]
  /\ Goto(p, "compile")
  /\ UNCHANGED <<seed, template, lock, job, dir, found, runs, crashes>>

\* The library is complete, or the build fails.
Compiled(p) ==
  /\ At(p, "compile")
  /\ \/ /\ archive' = [archive EXCEPT !.lib = "complete"]
        /\ Goto(p, "mark")
        /\ UNCHANGED lock
     \/ End(p) /\ UNCHANGED archive
  /\ UNCHANGED <<seed, template, job, dir, found, runs, crashes>>

\* The ready marker of the archive; the lock is dropped on return.
Mark(p) ==
  /\ At(p, "mark")
  /\ archive' = [archive EXCEPT !.ready = TRUE]
  /\ Unlock(p, "archive")
  /\ Model(p)
  /\ UNCHANGED <<seed, template, dir, found, runs, crashes>>

\* Variant: every failed build is tried again.
again_Always(p) == TRUE

\* The tree came from a template: it is built once more from a real configure.
again(p) == tried[p] = "template"

\* The model is built and linked with the archive.
BuildModel(p) ==
  /\ At(p, "build") /\ job[p] = "model"
  /\ \/ /\ template' = IF tried[p] = "again" THEN [template EXCEPT !.rejected = TRUE] ELSE template
        /\ End(p)
        /\ UNCHANGED found
     \/ /\ again(p)
        /\ tried' = [tried EXCEPT ![p] = "again"]
        /\ loaded' = [loaded EXCEPT ![p] = FALSE]
        /\ Goto(p, "seed")
        /\ UNCHANGED <<template, lock, seeded, plan, planned>>
     \/ /\ ~again(p)
        /\ End(p)
        /\ UNCHANGED <<template, found>>
  /\ UNCHANGED <<archive, seed, job, dir, runs, crashes>>

\* A process dies between two steps.
Crash(p) ==
  /\ pc[p] # "idle"
  /\ crashes < MaxCrashes
  /\ crashes' = crashes + 1
  /\ End(p)
  /\ UNCHANGED <<shared, job, dir, found, runs>>

Step(p) ==
  \/ Check(p) \/ Acquire(p) \/ TimeOut(p) \/ Fail(p) \/ Recheck(p)
  \/ \E existing \in BOOLEAN : Tree(p, existing)
  \/ Prepare(p) \/ PrepareLocked(p) \/ Probe(p) \/ Copy(p) \/ Publish(p)
  \/ Plan(p) \/ Instantiate(p) \/ Apply(p) \/ Configure(p) \/ Retry(p)
  \/ After(p) \/ Settle(p) \/ Capture(p)
  \/ Compile(p) \/ Compiled(p) \/ Mark(p) \/ BuildModel(p)

Next ==
  \E p \in Process :
    \/ \E d \in Dir : Start(p, d)
    \/ Step(p)
    \/ Crash(p)

Spec == Init /\ [][Next]_vars

\* Every process goes on: CMake and the compiler answer, and no lock is waited for
\* without a time limit.
FairSpec == Spec /\ \A p \in Process : WF_vars(Step(p))

------------------------------------------------------------------------------
(* Properties *)

ArchiveEntry == [ready : BOOLEAN, lib : {"none", "partial", "complete"},
                 tree : {"none", "partial", "configured"}]
SeedEntry == [ready : BOOLEAN, rejected : BOOLEAN, files : {"none", "partial", "complete"}]
TemplateEntry == [staged : BOOLEAN, ready : BOOLEAN, rejected : BOOLEAN, donor : SUBSET Dir,
                  checker : SUBSET Dir]

\* Every variable is well formed.
TypeOK ==
  /\ archive \in ArchiveEntry
  /\ seed \in SeedEntry
  /\ template \in TemplateEntry
  /\ lock \in [Kinds -> SUBSET Process]
  /\ pc \in [Process -> {"idle", "check", "wait", "recheck", "tree", "seed", "prepare", "probe",
                         "copy", "publish", "plan", "instantiate", "apply", "cmake", "retry",
                         "after", "settle", "capture", "build", "compile", "mark"}]
  /\ job \in [Process -> {"archive", "model"}]
  /\ dir \in [Process -> Dir]
  /\ loaded \in [Process -> BOOLEAN]
  /\ seeded \in [Process -> BOOLEAN]
  /\ plan \in [Process -> {"none", "absent", "staged", "ready"}]
  /\ planned \in [Process -> SUBSET Dir]
  /\ tried \in [Process -> {"no", "template", "again"}]
  /\ runs \in Nat /\ crashes \in Nat

\* Every process that builds its model has a complete archive to link, and keeps it:
\* no process that waited for the lock, or comes after a crash, writes it again.
LinkedComplete ==
  \A p \in Process : pc[p] # "idle" /\ job[p] = "model" =>
    archive.ready /\ archive.lib = "complete"

\* Every process with a seed finds all of its files in place when it copies them,
\* though the probe that published them may have followed one that crashed.
SeedsComplete ==
  /\ seed.ready => seed.files = "complete"
  /\ \A p \in Process : pc[p] # "idle" /\ loaded[p] => seed.ready

\* A ready template was checked in another directory than the one it was captured
\* in, and it is still the one that was checked, and the one that is being written.
TemplateChecked ==
  /\ template.ready => template.donor # {} /\ template.checker # template.donor
  /\ \A p \in Process : pc[p] = "instantiate" => planned[p] = template.donor

\* Every build ends: it succeeds, fails, gives up waiting or crashes.
BuildsEnd == \A p \in Process : pc[p] # "idle" ~> pc[p] = "idle"

\* A seed that was rejected is used by no later configure.
RejectedSeedUnused ==
  [][\A p \in Process : ~loaded[p] /\ loaded'[p] => ~seed.rejected]_vars

================================================================================
