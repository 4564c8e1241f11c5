--------------------------- MODULE BuildCacheProofs ---------------------------
(* Proofs of the safety properties of BuildCache. *)
EXTENDS BuildCache, TLAPS

\* A process between the steps that a lock protects holds it.
Locked ==
  \A p \in Process :
    /\ pc[p] = "recheck" => lock["archive"] = {p}
    /\ job[p] = "archive" /\ pc[p] \notin {"idle", "check", "wait"} => lock["archive"] = {p}
    /\ pc[p] \in {"probe", "copy", "publish"} => lock["seed"] = {p}
    /\ pc[p] \in {"settle", "capture"} => lock["template"] = {p}

\* The archive is ready only when it is complete and no process builds it.
ArchiveInv ==
  /\ archive.ready => archive.lib = "complete"
  /\ \A p \in Process :
       /\ pc[p] \in {"recheck", "check", "wait", "compile", "mark"} => job[p] = "archive"
       /\ job[p] = "archive" /\ pc[p] \notin {"idle", "check", "wait", "recheck"} => ~archive.ready
       /\ pc[p] = "mark" => archive.lib = "complete"
  /\ LinkedComplete

\* The seed is ready only when its files are complete and no process probes.
SeedInv ==
  /\ seed.ready => seed.files = "complete"
  /\ \A p \in Process :
       /\ pc[p] \in {"probe", "copy", "publish"} => ~seed.ready
       /\ pc[p] = "publish" => seed.files = "complete"
       /\ loaded[p] => seed.ready

\* A staged template stays what it is, so what a process has loaded is what is
\* stored.
TemplateInv ==
  /\ template.staged => template.donor # {}
  /\ template.ready => template.staged /\ template.checker # template.donor
  /\ \A p \in Process :
       /\ plan[p] \in {"staged", "ready"} => template.staged /\ planned[p] = template.donor
       /\ pc[p] = "capture" => template.donor # {} /\ ~template.staged
       /\ pc[p] = "instantiate" => plan[p] = "ready"

IInv == TypeOK /\ Locked /\ ArchiveInv /\ SeedInv /\ TemplateInv

LEMMA InitIInv == Init => IInv
<1> SUFFICES ASSUME Init PROVE IInv
  OBVIOUS
<1> USE DEF Init
<1>1. TypeOK
  BY DEF TypeOK, ArchiveEntry, SeedEntry, TemplateEntry
<1>2. Locked /\ ArchiveInv
  BY DEF Locked, ArchiveInv, LinkedComplete
<1>3. SeedInv /\ TemplateInv
  BY Zenon DEF SeedInv, TemplateInv
<1> QED
  BY <1>1, <1>2, <1>3 DEF IInv

(* Every step of a process *)

LEMMA StepType ==
  ASSUME TypeOK, NEW p \in Process, (\E d \in Dir : Start(p, d)) \/ Step(p) \/ Crash(p)
  PROVE  TypeOK'
<1> USE DEF At, Goto, Lock, Unlock, End, Kinds, shared, found, TypeOK
<1>1. ASSUME NEW d \in Dir, Start(p, d) PROVE TypeOK'
  BY <1>1 DEF Start
<1>2. CASE Check(p)
  BY <1>2 DEF Check, cached_runtime_library, Model
<1>3. CASE Acquire(p)
  BY <1>3 DEF Acquire
<1>4. CASE TimeOut(p)
  BY <1>4 DEF TimeOut
<1>5. CASE Fail(p)
  BY <1>5 DEF Fail
<1>6. CASE Recheck(p)
  <2>1. archive' \in ArchiveEntry /\ seed' \in SeedEntry /\ template' \in TemplateEntry
    <3>1. archive' \in ArchiveEntry
      <4>1. archive' = archive \/ archive' = [archive EXCEPT !.ready = FALSE]
        BY ONLY <1>6 DEF Recheck
      <4>2. archive \in ArchiveEntry
        OBVIOUS
      <4> QED
        BY ONLY <4>1, <4>2, Zenon DEF ArchiveEntry
    <3>2. seed' \in SeedEntry
      BY <1>6 DEF Recheck, rechecked, cached_runtime_library, Model
    <3>3. template' \in TemplateEntry
      BY <1>6 DEF Recheck, rechecked, cached_runtime_library, Model
    <3> QED
      BY <3>1, <3>2, <3>3
  <2>2. lock' \in [Kinds -> SUBSET Process] /\ job' \in [Process -> {"archive", "model"}]
    BY <1>6 DEF Recheck, rechecked, cached_runtime_library, Model
  <2>3. loaded' \in [Process -> BOOLEAN] /\ seeded' \in [Process -> BOOLEAN]
    BY <1>6 DEF Recheck, rechecked, cached_runtime_library, Model
  <2>4. planned' \in [Process -> SUBSET Dir] /\ UNCHANGED <<dir, runs>>
    BY <1>6, Zenon DEF Recheck, rechecked, cached_runtime_library, Model
  <2> QED
    BY <1>6, <2>1, <2>2, <2>3, <2>4 DEF Recheck, rechecked, cached_runtime_library, Model
<1>7. ASSUME NEW existing \in BOOLEAN, Tree(p, existing) PROVE TypeOK'
  <2>1. archive' \in ArchiveEntry /\ seed' \in SeedEntry /\ template' \in TemplateEntry
    <3>1. archive' \in ArchiveEntry
      <4>1. \/ archive' = archive
            \/ archive' = [archive EXCEPT !.tree = "none", !.lib = "none"]
        BY ONLY <1>7 DEF Tree
      <4>2. archive \in ArchiveEntry
        OBVIOUS
      <4> QED
        BY ONLY <4>1, <4>2, Zenon DEF ArchiveEntry
    <3>2. seed' \in SeedEntry
      BY <1>7 DEF Tree
    <3>3. template' \in TemplateEntry
      BY <1>7 DEF Tree
    <3> QED
      BY <3>1, <3>2, <3>3
  <2>2. lock' \in [Kinds -> SUBSET Process] /\ job' \in [Process -> {"archive", "model"}]
    BY <1>7, Zenon DEF Tree
  <2>3. loaded' \in [Process -> BOOLEAN] /\ seeded' \in [Process -> BOOLEAN]
    BY <1>7 DEF Tree
  <2>4. planned' \in [Process -> SUBSET Dir] /\ UNCHANGED <<dir, runs>>
    BY <1>7, Zenon DEF Tree
  <2> QED
    BY <1>7, <2>1, <2>2, <2>3, <2>4 DEF Tree
<1>8. CASE Prepare(p)
  <2>1. archive' \in ArchiveEntry /\ seed' \in SeedEntry /\ template' \in TemplateEntry
    <3>1. archive' \in ArchiveEntry
      BY <1>8 DEF Prepare, load
    <3>2. seed' \in SeedEntry
      BY <1>8, Zenon DEF Prepare, load
    <3>3. template' \in TemplateEntry
      BY <1>8, Zenon DEF Prepare, load
    <3> QED
      BY <3>1, <3>2, <3>3
  <2>2. lock' \in [Kinds -> SUBSET Process] /\ job' \in [Process -> {"archive", "model"}]
    BY <1>8 DEF Prepare, load
  <2>3. loaded' \in [Process -> BOOLEAN] /\ seeded' \in [Process -> BOOLEAN]
    BY <1>8, ZenonT(60) DEF Prepare, load
  <2>4. planned' \in [Process -> SUBSET Dir] /\ UNCHANGED <<dir, runs>>
    BY <1>8 DEF Prepare, load
  <2> QED
    BY <1>8, <2>1, <2>2, <2>3, <2>4 DEF Prepare, load
<1>9. CASE PrepareLocked(p)
  <2>1. archive' \in ArchiveEntry /\ seed' \in SeedEntry /\ template' \in TemplateEntry
    <3>1. archive' \in ArchiveEntry
      BY <1>9 DEF PrepareLocked, load
    <3>2. seed' \in SeedEntry
      <4>1. \/ seed' = seed
            \/ seed' = [ready |-> FALSE, rejected |-> FALSE, files |-> "none"]
        BY <1>9 DEF PrepareLocked
      <4>2. [ready |-> FALSE, rejected |-> FALSE, files |-> "none"] \in SeedEntry
        BY Zenon DEF SeedEntry
      <4> QED
        BY <4>1, <4>2, Zenon
    <3>3. template' \in TemplateEntry
      BY <1>9, Zenon DEF PrepareLocked, load
    <3> QED
      BY <3>1, <3>2, <3>3
  <2>2. lock' \in [Kinds -> SUBSET Process] /\ job' \in [Process -> {"archive", "model"}]
    BY <1>9 DEF PrepareLocked, load
  <2>3. loaded' \in [Process -> BOOLEAN] /\ seeded' \in [Process -> BOOLEAN]
    BY <1>9, ZenonT(60) DEF PrepareLocked, load
  <2>4. planned' \in [Process -> SUBSET Dir] /\ UNCHANGED <<dir, runs>>
    BY <1>9 DEF PrepareLocked, load
  <2> QED
    BY <1>9, <2>1, <2>2, <2>3, <2>4 DEF PrepareLocked, load
<1>10. CASE Probe(p)
  <2>1. archive' \in ArchiveEntry /\ seed' \in SeedEntry /\ template' \in TemplateEntry
    <3>1. archive' \in ArchiveEntry
      BY <1>10 DEF Probe
    <3>2. seed' \in SeedEntry
      <4>1. \/ seed' = seed
            \/ seed' = [seed EXCEPT !.rejected = TRUE]
            \/ seed' = [seed EXCEPT !.files = "partial"]
        BY ONLY <1>10 DEF Probe
      <4>2. seed \in SeedEntry
        OBVIOUS
      <4> QED
        BY ONLY <4>1, <4>2, Zenon DEF SeedEntry
    <3>3. template' \in TemplateEntry
      BY <1>10 DEF Probe
    <3> QED
      BY <3>1, <3>2, <3>3
  <2>2. lock' \in [Kinds -> SUBSET Process] /\ job' \in [Process -> {"archive", "model"}]
    BY <1>10 DEF Probe
  <2>3. loaded' \in [Process -> BOOLEAN] /\ seeded' \in [Process -> BOOLEAN]
    BY <1>10 DEF Probe
  <2>4. planned' \in [Process -> SUBSET Dir] /\ UNCHANGED <<dir, runs>>
    BY <1>10 DEF Probe
  <2> QED
    BY <1>10, <2>1, <2>2, <2>3, <2>4 DEF Probe
<1>11. CASE Copy(p)
  <2>1. archive' \in ArchiveEntry /\ seed' \in SeedEntry /\ template' \in TemplateEntry
    <3>1. archive' \in ArchiveEntry
      BY <1>11 DEF Copy, Copied
    <3>2. seed' \in SeedEntry
      BY <1>11 DEF Copy, Copied, SeedEntry
    <3>3. template' \in TemplateEntry
      BY <1>11 DEF Copy, Copied
    <3> QED
      BY <3>1, <3>2, <3>3
  <2>2. lock' \in [Kinds -> SUBSET Process] /\ job' \in [Process -> {"archive", "model"}]
    BY <1>11 DEF Copy, Copied
  <2>3. loaded' \in [Process -> BOOLEAN] /\ seeded' \in [Process -> BOOLEAN]
    BY <1>11 DEF Copy, Copied
  <2>4. planned' \in [Process -> SUBSET Dir] /\ UNCHANGED <<dir, runs>>
    BY <1>11 DEF Copy, Copied
  <2> QED
    BY <1>11, <2>1, <2>2, <2>3, <2>4 DEF Copy, Copied
<1>12. CASE Publish(p)
  <2>1. archive' \in ArchiveEntry /\ seed' \in SeedEntry /\ template' \in TemplateEntry
    <3>1. archive' \in ArchiveEntry
      BY <1>12 DEF Publish
    <3>2. seed' \in SeedEntry
      BY <1>12, ZenonT(60) DEF Publish, SeedEntry
    <3>3. template' \in TemplateEntry
      BY <1>12 DEF Publish
    <3> QED
      BY <3>1, <3>2, <3>3
  <2>2. lock' \in [Kinds -> SUBSET Process] /\ job' \in [Process -> {"archive", "model"}]
    BY <1>12 DEF Publish
  <2>3. loaded' \in [Process -> BOOLEAN] /\ seeded' \in [Process -> BOOLEAN]
    BY <1>12, Zenon DEF Publish
  <2>4. planned' \in [Process -> SUBSET Dir] /\ UNCHANGED <<dir, runs>>
    BY <1>12 DEF Publish
  <2> QED
    BY <1>12, <2>1, <2>2, <2>3, <2>4, Zenon DEF Publish
<1>13. CASE Plan(p)
  <2>1. plan' \in [Process -> {"none", "absent", "staged", "ready"}]
    BY <1>13, ZenonT(60) DEF Plan
  <2>2. planned' \in [Process -> SUBSET Dir]
    BY <1>13 DEF Plan, TemplateEntry
  <2>3. pc' = [pc EXCEPT ![p] = "instantiate"] \/ pc' = [pc EXCEPT ![p] = "apply"]
    BY <1>13, Zenon DEF Plan
  <2> QED
    BY <1>13, <2>1, <2>2, <2>3 DEF Plan
<1>14. CASE Instantiate(p)
  BY <1>14 DEF Instantiate
<1>15. CASE Apply(p)
  <2>1. archive' \in ArchiveEntry /\ seed' \in SeedEntry /\ template' \in TemplateEntry
    <3>1. archive' \in ArchiveEntry
      BY <1>15 DEF Apply, ArchiveEntry
    <3>2. seed' \in SeedEntry
      BY <1>15 DEF Apply
    <3>3. template' \in TemplateEntry
      BY <1>15 DEF Apply
    <3> QED
      BY <3>1, <3>2, <3>3
  <2>2. lock' \in [Kinds -> SUBSET Process] /\ job' \in [Process -> {"archive", "model"}]
    BY <1>15 DEF Apply
  <2>3. loaded' \in [Process -> BOOLEAN] /\ seeded' \in [Process -> BOOLEAN]
    BY <1>15 DEF Apply
  <2>4. planned' \in [Process -> SUBSET Dir] /\ UNCHANGED <<dir, runs>>
    BY <1>15, Zenon DEF Apply
  <2> QED
    BY <1>15, <2>1, <2>2, <2>3, <2>4, ZenonT(60) DEF Apply
<1>16. CASE Configure(p)
  <2>1. archive' \in ArchiveEntry /\ seed' \in SeedEntry /\ template' \in TemplateEntry
    <3>1. archive' \in ArchiveEntry
      BY <1>16 DEF Configure, TreeIs, ArchiveEntry
    <3>2. seed' \in SeedEntry
      BY <1>16, Zenon DEF Configure, TreeIs
    <3>3. template' \in TemplateEntry
      BY <1>16, Zenon DEF Configure, TreeIs
    <3> QED
      BY <3>1, <3>2, <3>3
  <2>2. lock' \in [Kinds -> SUBSET Process] /\ job' \in [Process -> {"archive", "model"}]
    BY <1>16 DEF Configure, TreeIs
  <2>3. loaded' \in [Process -> BOOLEAN] /\ seeded' \in [Process -> BOOLEAN]
    BY <1>16 DEF Configure, TreeIs
  <2>4. planned' \in [Process -> SUBSET Dir] /\ UNCHANGED <<dir, runs>>
    BY <1>16, Zenon DEF Configure, TreeIs
  <2> QED
    BY <1>16, <2>1, <2>2, <2>3, <2>4 DEF Configure, TreeIs
<1>17. CASE Retry(p)
  <2>1. archive' \in ArchiveEntry /\ seed' \in SeedEntry /\ template' \in TemplateEntry
    <3>1. archive' \in ArchiveEntry
      <4>1. \/ archive' = archive
            \/ archive' = [archive EXCEPT !.tree = "configured", !.lib = "none"]
            \/ archive' = [archive EXCEPT !.tree = "partial", !.lib = "none"]
        BY <1>17 DEF Retry
      <4>2. [archive EXCEPT !.tree = "configured", !.lib = "none"] \in ArchiveEntry
        BY Zenon DEF ArchiveEntry
      <4>3. [archive EXCEPT !.tree = "partial", !.lib = "none"] \in ArchiveEntry
        BY Zenon DEF ArchiveEntry
      <4> QED
        BY <4>1, <4>2, <4>3, Zenon
    <3>2. seed' \in SeedEntry
      <4>1. \/ seed' = seed
            \/ seed' = [seed EXCEPT !.rejected = TRUE]
        BY <1>17 DEF Retry
      <4>2. [seed EXCEPT !.rejected = TRUE] \in SeedEntry
        BY Zenon DEF SeedEntry
      <4> QED
        BY <4>1, <4>2, Zenon
    <3>3. template' \in TemplateEntry
      BY <1>17 DEF Retry
    <3> QED
      BY <3>1, <3>2, <3>3
  <2>2. lock' \in [Kinds -> SUBSET Process] /\ job' \in [Process -> {"archive", "model"}]
    BY <1>17 DEF Retry
  <2>3. loaded' \in [Process -> BOOLEAN] /\ seeded' \in [Process -> BOOLEAN]
    BY <1>17 DEF Retry
  <2>4. planned' \in [Process -> SUBSET Dir] /\ UNCHANGED <<dir, runs>>
    BY <1>17, Zenon DEF Retry
  <2> QED
    BY <1>17, <2>1, <2>2, <2>3, <2>4 DEF Retry
<1>18. CASE After(p)
  BY <1>18 DEF After
<1>19. CASE Settle(p)
  <2>1. archive' \in ArchiveEntry /\ seed' \in SeedEntry /\ template' \in TemplateEntry
    <3>1. archive' \in ArchiveEntry
      BY <1>19 DEF Settle, proves
    <3>2. seed' \in SeedEntry
      BY <1>19 DEF Settle, proves
    <3>3. template' \in TemplateEntry
      <4>0. dir[p] \in Dir /\ {dir[p]} \in SUBSET Dir
        OBVIOUS
      <4>1. \/ template' = template
            \/ template' = [template EXCEPT !.donor = {dir[p]}]
            \/ template' = [template EXCEPT !.ready = TRUE, !.checker = {dir[p]}]
            \/ template' = [template EXCEPT !.rejected = TRUE]
        BY <1>19 DEF Settle
      <4>2. [template EXCEPT !.donor = {dir[p]}] \in TemplateEntry
        BY <4>0, Zenon DEF TemplateEntry
      <4>3. [template EXCEPT !.ready = TRUE, !.checker = {dir[p]}] \in TemplateEntry
        BY <4>0, Zenon DEF TemplateEntry
      <4>4. [template EXCEPT !.rejected = TRUE] \in TemplateEntry
        BY Zenon DEF TemplateEntry
      <4> QED
        BY <4>1, <4>2, <4>3, <4>4, Zenon
    <3> QED
      BY <3>1, <3>2, <3>3
  <2>2. lock' \in [Kinds -> SUBSET Process] /\ job' \in [Process -> {"archive", "model"}]
    BY <1>19 DEF Settle, proves
  <2>3. loaded' \in [Process -> BOOLEAN] /\ seeded' \in [Process -> BOOLEAN]
    BY <1>19, Zenon DEF Settle, proves
  <2>4. planned' \in [Process -> SUBSET Dir] /\ UNCHANGED <<dir, runs>>
    BY <1>19, Zenon DEF Settle, proves
  <2> QED
    BY <1>19, <2>1, <2>2, <2>3, <2>4 DEF Settle, proves
<1>20. CASE Capture(p)
  <2>1. archive' \in ArchiveEntry /\ seed' \in SeedEntry /\ template' \in TemplateEntry
    <3>1. archive' \in ArchiveEntry
      BY <1>20 DEF Capture
    <3>2. seed' \in SeedEntry
      BY <1>20 DEF Capture
    <3>3. template' \in TemplateEntry
      BY <1>20, ZenonT(60) DEF Capture, TemplateEntry
    <3> QED
      BY <3>1, <3>2, <3>3
  <2>2. lock' \in [Kinds -> SUBSET Process] /\ job' \in [Process -> {"archive", "model"}]
    BY <1>20 DEF Capture
  <2>3. loaded' \in [Process -> BOOLEAN] /\ seeded' \in [Process -> BOOLEAN]
    BY <1>20 DEF Capture
  <2>4. planned' \in [Process -> SUBSET Dir] /\ UNCHANGED <<dir, runs>>
    BY <1>20 DEF Capture
  <2> QED
    BY <1>20, <2>1, <2>2, <2>3, <2>4, Zenon DEF Capture
<1>21. CASE Compile(p)
  <2>1. archive' \in ArchiveEntry /\ seed' \in SeedEntry /\ template' \in TemplateEntry
    <3>1. archive' \in ArchiveEntry
      BY <1>21 DEF Compile, ArchiveEntry
    <3>2. seed' \in SeedEntry
      BY <1>21 DEF Compile
    <3>3. template' \in TemplateEntry
      BY <1>21 DEF Compile
    <3> QED
      BY <3>1, <3>2, <3>3
  <2>2. lock' \in [Kinds -> SUBSET Process] /\ job' \in [Process -> {"archive", "model"}]
    BY <1>21 DEF Compile
  <2>3. loaded' \in [Process -> BOOLEAN] /\ seeded' \in [Process -> BOOLEAN]
    BY <1>21 DEF Compile
  <2>4. planned' \in [Process -> SUBSET Dir] /\ UNCHANGED <<dir, runs>>
    BY <1>21, Zenon DEF Compile
  <2> QED
    BY <1>21, <2>1, <2>2, <2>3, <2>4 DEF Compile
<1>22. CASE Compiled(p)
  <2>1. archive' \in ArchiveEntry /\ seed' \in SeedEntry /\ template' \in TemplateEntry
    <3>1. archive' \in ArchiveEntry
      BY <1>22 DEF Compiled, ArchiveEntry
    <3>2. seed' \in SeedEntry
      BY <1>22 DEF Compiled
    <3>3. template' \in TemplateEntry
      BY <1>22 DEF Compiled
    <3> QED
      BY <3>1, <3>2, <3>3
  <2>2. lock' \in [Kinds -> SUBSET Process] /\ job' \in [Process -> {"archive", "model"}]
    BY <1>22 DEF Compiled
  <2>3. loaded' \in [Process -> BOOLEAN] /\ seeded' \in [Process -> BOOLEAN]
    BY <1>22 DEF Compiled
  <2>4. planned' \in [Process -> SUBSET Dir] /\ UNCHANGED <<dir, runs>>
    BY <1>22, Zenon DEF Compiled
  <2> QED
    BY <1>22, <2>1, <2>2, <2>3, <2>4 DEF Compiled
<1>23. CASE Mark(p)
  <2>1. archive' \in ArchiveEntry /\ seed' \in SeedEntry /\ template' \in TemplateEntry
    <3>1. archive' \in ArchiveEntry
      BY <1>23, Zenon DEF Mark, Model, ArchiveEntry
    <3>2. seed' \in SeedEntry
      BY <1>23 DEF Mark, Model
    <3>3. template' \in TemplateEntry
      BY <1>23 DEF Mark, Model
    <3> QED
      BY <3>1, <3>2, <3>3
  <2>2. lock' \in [Kinds -> SUBSET Process] /\ job' \in [Process -> {"archive", "model"}]
    BY <1>23 DEF Mark, Model
  <2>3. loaded' \in [Process -> BOOLEAN] /\ seeded' \in [Process -> BOOLEAN]
    BY <1>23 DEF Mark, Model
  <2>4. planned' \in [Process -> SUBSET Dir] /\ UNCHANGED <<dir, runs>>
    BY <1>23, Zenon DEF Mark, Model
  <2> QED
    BY <1>23, <2>1, <2>2, <2>3, <2>4 DEF Mark, Model
<1>24. CASE BuildModel(p)
  <2>1. archive' \in ArchiveEntry /\ seed' \in SeedEntry /\ template' \in TemplateEntry
    <3>1. archive' \in ArchiveEntry
      BY <1>24, Zenon DEF BuildModel, again
    <3>2. seed' \in SeedEntry
      BY <1>24 DEF BuildModel, again
    <3>3. template' \in TemplateEntry
      <4>1. \/ template' = template
            \/ template' = [template EXCEPT !.rejected = TRUE]
        BY <1>24, Zenon DEF BuildModel
      <4>2. [template EXCEPT !.rejected = TRUE] \in TemplateEntry
        BY Zenon DEF TemplateEntry
      <4> QED
        BY <4>1, <4>2, Zenon
    <3> QED
      BY <3>1, <3>2, <3>3
  <2>2. lock' \in [Kinds -> SUBSET Process] /\ job' \in [Process -> {"archive", "model"}]
    BY <1>24 DEF BuildModel, again
  <2>3. loaded' \in [Process -> BOOLEAN] /\ seeded' \in [Process -> BOOLEAN]
    BY <1>24, ZenonT(60) DEF BuildModel, again
  <2>4. planned' \in [Process -> SUBSET Dir] /\ UNCHANGED <<dir, runs>>
    BY <1>24 DEF BuildModel, again
  <2> QED
    BY <1>24, <2>1, <2>2, <2>3, <2>4 DEF BuildModel, again
<1>25. CASE Crash(p)
  BY <1>25 DEF Crash
<1> HIDE DEF At, Goto, Lock, Unlock, End, Kinds, shared, found, TypeOK
<1> QED
  BY <1>1, <1>2, <1>3, <1>4, <1>5, <1>6, <1>7, <1>8, <1>9, <1>10, <1>11, <1>12, <1>13, <1>14,
     <1>15, <1>16, <1>17, <1>18, <1>19, <1>20, <1>21, <1>22, <1>23, <1>24, <1>25 DEF Step

LEMMA StepLocked ==
  ASSUME TypeOK, Locked, ArchiveInv, NEW p \in Process, (\E d \in Dir : Start(p, d)) \/ Step(p) \/ Crash(p)
  PROVE  Locked'
<1> USE DEF At, Goto, Lock, Unlock, End, Kinds, shared, found, TypeOK, Locked, ArchiveInv
<1>1. ASSUME NEW d \in Dir, Start(p, d) PROVE Locked'
  BY <1>1 DEF Start
<1>2. CASE Check(p)
  BY <1>2 DEF Check, cached_runtime_library, Model
<1>3. CASE Acquire(p)
  BY <1>3 DEF Acquire
<1>4. CASE TimeOut(p)
  BY <1>4 DEF TimeOut
<1>5. CASE Fail(p)
  BY <1>5 DEF Fail
<1>6. CASE Recheck(p)
  BY <1>6 DEF Recheck, rechecked, cached_runtime_library, Model
<1>7. ASSUME NEW existing \in BOOLEAN, Tree(p, existing) PROVE Locked'
  BY <1>7 DEF Tree
<1>8. CASE Prepare(p)
  BY <1>8 DEF Prepare, load
<1>9. CASE PrepareLocked(p)
  <2>1. \A q \in Process : q # p => pc'[q] = pc[q]
    BY <1>9 DEF PrepareLocked
  <2>2. UNCHANGED <<job, lock["archive"], lock["template"]>>
    BY <1>9, ZenonT(60) DEF PrepareLocked
  <2>3. \A q \in Process : pc[q] \in {"probe", "copy", "publish"} => lock'["seed"] = {q}
    <3>1. CASE lock["seed"] = {}
      BY <3>1
    <3>2. CASE lock' = lock
      BY <3>2, Zenon
    <3> QED
      BY <1>9, <3>1, <3>2, Zenon DEF PrepareLocked
  <2>4. pc'[p] = "plan" \/ (pc'[p] = "probe" /\ lock'["seed"] = {p})
    BY <1>9 DEF PrepareLocked
  <2> QED
    BY <1>9, <2>1, <2>2, <2>3, <2>4 DEF PrepareLocked
<1>10. CASE Probe(p)
  BY <1>10 DEF Probe
<1>11. CASE Copy(p)
  BY <1>11 DEF Copy, Copied
<1>12. CASE Publish(p)
  BY <1>12 DEF Publish
<1>13. CASE Plan(p)
  BY <1>13 DEF Plan
<1>14. CASE Instantiate(p)
  BY <1>14 DEF Instantiate
<1>15. CASE Apply(p)
  BY <1>15 DEF Apply
<1>16. CASE Configure(p)
  BY <1>16 DEF Configure, TreeIs
<1>17. CASE Retry(p)
  BY <1>17 DEF Retry
<1>18. CASE After(p)
  <2>1. UNCHANGED <<job, lock["archive"], lock["seed"]>> /\ \A q \in Process : q # p => pc'[q] = pc[q]
    BY <1>18 DEF After
  <2>2. CASE lock' = lock /\ pc'[p] = "build"
    BY <1>18, <2>1, <2>2 DEF After
  <2>3. CASE lock["template"] = {} /\ lock'["template"] = {p} /\ pc'[p] = "settle"
    <3>1. \A q \in Process : pc[q] \notin {"settle", "capture"}
      BY <2>3
    <3> QED
      BY <1>18, <2>1, <2>3, <3>1 DEF After
  <2> QED
    BY <1>18, <2>2, <2>3 DEF After
<1>19. CASE Settle(p)
  BY <1>19 DEF Settle, proves
<1>20. CASE Capture(p)
  BY <1>20 DEF Capture
<1>21. CASE Compile(p)
  BY <1>21 DEF Compile
<1>22. CASE Compiled(p)
  BY <1>22 DEF Compiled
<1>23. CASE Mark(p)
  BY <1>23 DEF Mark, Model
<1>24. CASE BuildModel(p)
  BY <1>24 DEF BuildModel, again
<1>25. CASE Crash(p)
  BY <1>25 DEF Crash
<1> HIDE DEF At, Goto, Lock, Unlock, End, Kinds, shared, found, TypeOK, Locked, ArchiveInv
<1> QED
  BY <1>1, <1>2, <1>3, <1>4, <1>5, <1>6, <1>7, <1>8, <1>9, <1>10, <1>11, <1>12, <1>13, <1>14,
     <1>15, <1>16, <1>17, <1>18, <1>19, <1>20, <1>21, <1>22, <1>23, <1>24, <1>25 DEF Step

LEMMA StepArchive ==
  ASSUME TypeOK, Locked, ArchiveInv, NEW p \in Process, (\E d \in Dir : Start(p, d)) \/ Step(p) \/ Crash(p)
  PROVE  ArchiveInv'
<1> USE DEF At, Goto, Lock, Unlock, End, Kinds, shared, found, TypeOK, ArchiveEntry, Locked,
           ArchiveInv, LinkedComplete
<1>1. ASSUME NEW d \in Dir, Start(p, d) PROVE ArchiveInv'
  BY <1>1 DEF Start
<1>2. CASE Check(p)
  BY <1>2 DEF Check, cached_runtime_library, Model
<1>3. CASE Acquire(p)
  BY <1>3 DEF Acquire
<1>4. CASE TimeOut(p)
  BY <1>4 DEF TimeOut
<1>5. CASE Fail(p)
  BY <1>5 DEF Fail
<1>6. CASE Recheck(p)
  BY <1>6 DEF Recheck, rechecked, cached_runtime_library, Model
<1>7. ASSUME NEW existing \in BOOLEAN, Tree(p, existing) PROVE ArchiveInv'
  <2>1. CASE job[p] = "model"
    BY <1>7, <2>1 DEF Tree
  <2>2. CASE job[p] = "archive"
    <3>1. lock["archive"] = {p} /\ ~archive.ready
      BY <1>7, <2>2, Zenon DEF Tree
    <3>2. \A q \in Process : q # p => pc[q] \in {"idle", "check", "wait"} \/ job[q] = "model"
      BY <3>1
    <3>3. \A q \in Process : job[q] = "model" => pc[q] = "idle"
      BY <3>1
    <3>4. archive'.ready = archive.ready /\ job' = job
      <4>1. archive' \in {archive, [archive EXCEPT !.tree = "none", !.lib = "none"]}
        BY <1>7, <2>2 DEF Tree
      <4>2. archive'.ready = archive.ready
        <5>1. archive \in ArchiveEntry
          BY Zenon
        <5> QED
          BY ONLY <4>1, <5>1, Zenon DEF ArchiveEntry
      <4> QED
        BY <1>7, <4>2 DEF Tree
    <3>5. \A q \in Process : q # p => pc'[q] = pc[q]
      BY <1>7, ZenonT(60) DEF Tree
    <3>6. pc'[p] \in {"cmake", "seed"}
      BY <1>7, ZenonT(60) DEF Tree
    <3> QED
      BY <2>2, <3>1, <3>2, <3>3, <3>4, <3>5, <3>6
  <2> QED
    BY <2>1, <2>2, ZenonT(60)
<1>8. CASE Prepare(p)
  BY <1>8 DEF Prepare, load
<1>9. CASE PrepareLocked(p)
  BY <1>9 DEF PrepareLocked, load
<1>10. CASE Probe(p)
  BY <1>10 DEF Probe
<1>11. CASE Copy(p)
  BY <1>11 DEF Copy, Copied
<1>12. CASE Publish(p)
  BY <1>12 DEF Publish
<1>13. CASE Plan(p)
  BY <1>13 DEF Plan
<1>14. CASE Instantiate(p)
  BY <1>14 DEF Instantiate
<1>15. CASE Apply(p)
  BY <1>15 DEF Apply
<1>16. CASE Configure(p)
  BY <1>16 DEF Configure, TreeIs
<1>17. CASE Retry(p)
  <2>1. CASE job[p] = "model"
    BY <1>17, <2>1 DEF Retry
  <2>2. CASE job[p] = "archive"
    <3>1. lock["archive"] = {p} /\ ~archive.ready
      BY <1>17, <2>2, Zenon DEF Retry
    <3>2. \A q \in Process : q # p => pc[q] \in {"idle", "check", "wait"} \/ job[q] = "model"
      BY <3>1
    <3>3. \A q \in Process : job[q] = "model" => pc[q] = "idle"
      BY <3>1, Zenon
    <3>4. archive'.ready = archive.ready /\ job' = job
      <4>1. archive' \in {[archive EXCEPT !.tree = "configured", !.lib = "none"],
                     [archive EXCEPT !.tree = "partial", !.lib = "none"]}
        BY <1>17, <2>2 DEF Retry
      <4>2. archive'.ready = archive.ready
        <5>1. archive \in ArchiveEntry
          BY Zenon
        <5> QED
          BY ONLY <4>1, <5>1, Zenon DEF ArchiveEntry
      <4>3. job' = job
        BY <1>17, Zenon DEF Retry
      <4> QED
        BY <4>2, <4>3, Zenon
    <3>5. \A q \in Process : q # p => pc'[q] = pc[q]
      BY <1>17 DEF Retry
    <3>6. pc'[p] \in {"build", "idle"}
      BY <1>17 DEF Retry
    <3> QED
      BY <2>2, <3>1, <3>2, <3>3, <3>4, <3>5, <3>6
  <2> QED
    BY <2>1, <2>2, Zenon
<1>18. CASE After(p)
  BY <1>18 DEF After
<1>19. CASE Settle(p)
  BY <1>19 DEF Settle, proves
<1>20. CASE Capture(p)
  BY <1>20 DEF Capture
<1>21. CASE Compile(p)
  <2>1. CASE job[p] = "model"
    BY <1>21, <2>1, ZenonT(60) DEF Compile
  <2>2. CASE job[p] = "archive"
    <3>1. lock["archive"] = {p} /\ ~archive.ready
      BY <1>21, <2>2, Zenon DEF Compile
    <3>2. \A q \in Process : q # p => pc[q] \in {"idle", "check", "wait"} \/ job[q] = "model"
      BY <3>1
    <3>3. \A q \in Process : job[q] = "model" => pc[q] = "idle"
      BY <3>1
    <3>4. archive'.ready = archive.ready /\ job' = job
      <4>1. archive' \in {[archive EXCEPT !.lib = "partial"]}
        BY <1>21, <2>2 DEF Compile
      <4>2. archive'.ready = archive.ready
        <5>1. archive \in ArchiveEntry
          OBVIOUS
        <5> QED
          BY ONLY <4>1, <5>1, Zenon DEF ArchiveEntry
      <4>3. job' = job
        BY <1>21 DEF Compile
      <4> QED
        BY <4>2, <4>3
    <3>5. \A q \in Process : q # p => pc'[q] = pc[q]
      BY <1>21 DEF Compile
    <3>6. pc'[p] \in {"compile"}
      BY <1>21 DEF Compile
    <3> QED
      BY <2>2, <3>1, <3>2, <3>3, <3>4, <3>5, <3>6
  <2> QED
    BY <2>1, <2>2
<1>22. CASE Compiled(p)
  BY <1>22 DEF Compiled
<1>23. CASE Mark(p)
  <2>1. lock["archive"] = {p} /\ archive.lib = "complete"
    BY <1>23, Zenon DEF Mark
  <2>2. \A q \in Process : q # p => pc[q] \in {"idle", "check", "wait"} \/ job[q] = "model"
    BY <2>1
  <2>3. archive'.ready = TRUE /\ archive'.lib = "complete"
    BY <1>23, <2>1 DEF Mark
  <2>4. \A q \in Process : q # p => pc'[q] = pc[q] /\ job'[q] = job[q]
    BY <1>23 DEF Mark, Model
  <2>5. pc'[p] = "tree" /\ job'[p] = "model"
    BY <1>23 DEF Mark, Model
  <2> QED
    BY <2>2, <2>3, <2>4, <2>5
<1>24. CASE BuildModel(p)
  BY <1>24 DEF BuildModel, again
<1>25. CASE Crash(p)
  BY <1>25 DEF Crash
<1> HIDE DEF At, Goto, Lock, Unlock, End, Kinds, shared, found, TypeOK, ArchiveEntry, Locked,
           ArchiveInv, LinkedComplete
<1> QED
  BY <1>1, <1>2, <1>3, <1>4, <1>5, <1>6, <1>7, <1>8, <1>9, <1>10, <1>11, <1>12, <1>13, <1>14,
     <1>15, <1>16, <1>17, <1>18, <1>19, <1>20, <1>21, <1>22, <1>23, <1>24, <1>25 DEF Step

LEMMA StepSeed ==
  ASSUME TypeOK, Locked, SeedInv, NEW p \in Process, (\E d \in Dir : Start(p, d)) \/ Step(p) \/ Crash(p)
  PROVE  SeedInv'
<1> USE DEF At, Goto, Lock, Unlock, End, Kinds, shared, found, TypeOK, SeedEntry, Locked, SeedInv
<1>1. ASSUME NEW d \in Dir, Start(p, d) PROVE SeedInv'
  BY <1>1, ZenonT(60) DEF Start
<1>2. CASE Check(p)
  BY <1>2 DEF Check, cached_runtime_library, Model
<1>3. CASE Acquire(p)
  BY <1>3 DEF Acquire
<1>4. CASE TimeOut(p)
  BY <1>4 DEF TimeOut
<1>5. CASE Fail(p)
  BY <1>5 DEF Fail
<1>6. CASE Recheck(p)
  BY <1>6 DEF Recheck, rechecked, cached_runtime_library, Model
<1>7. ASSUME NEW existing \in BOOLEAN, Tree(p, existing) PROVE SeedInv'
  BY <1>7 DEF Tree
<1>8. CASE Prepare(p)
  BY <1>8 DEF Prepare, load
<1>9. CASE PrepareLocked(p)
  <2>1. \A q \in Process : q # p => pc'[q] = pc[q] /\ loaded'[q] = loaded[q]
    BY <1>9 DEF PrepareLocked
  <2>2. CASE seed' = seed
    BY <1>9, <2>1, <2>2 DEF PrepareLocked, load
  <2>3. CASE lock["seed"] = {} /\ ~load /\ pc'[p] = "probe" /\ loaded' = loaded
             /\ seed' = [ready |-> FALSE, rejected |-> FALSE, files |-> "none"]
    <3>1. \A q \in Process : pc[q] \notin {"probe", "copy", "publish"}
      BY <2>3
    <3>2. ~seed.ready /\ ~seed'.ready
      BY <2>3, Zenon DEF load
    <3> QED
      BY <2>1, <2>3, <3>1, <3>2, ZenonT(60)
  <2> QED
    BY <1>9, <2>2, <2>3 DEF PrepareLocked
<1>10. CASE Probe(p)
  <2>1. \A q \in Process : q # p => pc[q] \notin {"probe", "copy", "publish"}
    <3>1. lock["seed"] = {p}
      BY <1>10 DEF Probe
    <3> QED
      BY <3>1
  <2>2. \A q \in Process : q # p => pc'[q] = pc[q]
    BY <1>10 DEF Probe
  <2>3. ~seed'.ready /\ ~seed.ready /\ loaded' = loaded
    <3>1. ~seed.ready /\ loaded' = loaded
      BY <1>10, Zenon DEF Probe
    <3>2. \/ seed' = seed
          \/ seed' = [seed EXCEPT !.rejected = TRUE]
          \/ seed' = [seed EXCEPT !.files = "partial"]
      BY ONLY <1>10, Zenon DEF Probe
    <3>3. seed \in SeedEntry
      BY Zenon
    <3> QED
      BY ONLY <3>1, <3>2, <3>3, Zenon DEF SeedEntry
  <2>4. pc'[p] \in {"plan", "copy"}
    BY <1>10 DEF Probe
  <2> QED
    BY <1>10, <2>1, <2>2, <2>3, <2>4, ZenonT(60)
<1>11. CASE Copy(p)
  BY <1>11 DEF Copy, Copied
<1>12. CASE Publish(p)
  <2>1. \A q \in Process : q # p => pc[q] \notin {"probe", "copy", "publish"}
    <3>1. lock["seed"] = {p}
      BY <1>12, Zenon DEF Publish
    <3> QED
      BY <3>1
  <2>2. \A q \in Process : q # p => pc'[q] = pc[q]
    BY <1>12, Zenon DEF Publish
  <2>3. /\ seed'.files = "complete"
        /\ \A q \in Process : loaded'[q] => seed'.ready
    BY <1>12 DEF Publish
  <2>4. pc'[p] \in {"plan"}
    BY <1>12, ZenonT(60) DEF Publish
  <2> QED
    BY <1>12, <2>1, <2>2, <2>3, <2>4, Zenon
<1>13. CASE Plan(p)
  <2>1. UNCHANGED <<seed, loaded>>
    BY <1>13, Zenon DEF Plan
  <2>2. Goto(p, "instantiate") \/ Goto(p, "apply")
    BY ONLY <1>13, Zenon DEF Plan
  <2> QED
    BY <2>1, <2>2
<1>14. CASE Instantiate(p)
  BY <1>14 DEF Instantiate
<1>15. CASE Apply(p)
  BY <1>15 DEF Apply
<1>16. CASE Configure(p)
  BY <1>16 DEF Configure, TreeIs
<1>17. CASE Retry(p)
  BY <1>17 DEF Retry
<1>18. CASE After(p)
  BY <1>18 DEF After
<1>19. CASE Settle(p)
  BY <1>19 DEF Settle, proves
<1>20. CASE Capture(p)
  BY <1>20, ZenonT(60) DEF Capture
<1>21. CASE Compile(p)
  BY <1>21, ZenonT(60) DEF Compile
<1>22. CASE Compiled(p)
  BY <1>22 DEF Compiled
<1>23. CASE Mark(p)
  BY <1>23 DEF Mark, Model
<1>24. CASE BuildModel(p)
  BY <1>24 DEF BuildModel, again
<1>25. CASE Crash(p)
  BY <1>25 DEF Crash
<1> HIDE DEF At, Goto, Lock, Unlock, End, Kinds, shared, found, TypeOK, SeedEntry, Locked, SeedInv
<1> QED
  BY <1>1, <1>2, <1>3, <1>4, <1>5, <1>6, <1>7, <1>8, <1>9, <1>10, <1>11, <1>12, <1>13, <1>14,
     <1>15, <1>16, <1>17, <1>18, <1>19, <1>20, <1>21, <1>22, <1>23, <1>24, <1>25 DEF Step

LEMMA StepTemplate ==
  ASSUME TypeOK, Locked, TemplateInv, NEW p \in Process, (\E d \in Dir : Start(p, d)) \/ Step(p) \/ Crash(p)
  PROVE  TemplateInv'
<1> USE DEF At, Goto, Lock, Unlock, End, Kinds, shared, found, TypeOK, TemplateEntry, Locked,
           TemplateInv
<1>1. ASSUME NEW d \in Dir, Start(p, d) PROVE TemplateInv'
  BY <1>1 DEF Start
<1>2. CASE Check(p)
  BY <1>2 DEF Check, cached_runtime_library, Model
<1>3. CASE Acquire(p)
  BY <1>3 DEF Acquire
<1>4. CASE TimeOut(p)
  BY <1>4 DEF TimeOut
<1>5. CASE Fail(p)
  BY <1>5, ZenonT(60) DEF Fail
<1>6. CASE Recheck(p)
  BY <1>6 DEF Recheck, rechecked, cached_runtime_library, Model
<1>7. ASSUME NEW existing \in BOOLEAN, Tree(p, existing) PROVE TemplateInv'
  BY <1>7 DEF Tree
<1>8. CASE Prepare(p)
  BY <1>8 DEF Prepare, load
<1>9. CASE PrepareLocked(p)
  BY <1>9 DEF PrepareLocked, load
<1>10. CASE Probe(p)
  BY <1>10 DEF Probe
<1>11. CASE Copy(p)
  BY <1>11 DEF Copy, Copied
<1>12. CASE Publish(p)
  BY <1>12 DEF Publish
<1>13. CASE Plan(p)
  BY <1>13 DEF Plan
<1>14. CASE Instantiate(p)
  BY <1>14 DEF Instantiate
<1>15. CASE Apply(p)
  BY <1>15 DEF Apply
<1>16. CASE Configure(p)
  BY <1>16 DEF Configure, TreeIs
<1>17. CASE Retry(p)
  BY <1>17 DEF Retry
<1>18. CASE After(p)
  BY <1>18 DEF After
<1>19. CASE Settle(p)
  <2>1. \A q \in Process : q # p => pc[q] \notin {"settle", "capture"}
    <3>1. lock["template"] = {p}
      BY <1>19 DEF Settle
    <3> QED
      BY <3>1
  <2>2. UNCHANGED <<plan, planned, dir>> /\ \A q \in Process : q # p => pc'[q] = pc[q]
    BY <1>19 DEF Settle
  <2>3. CASE template' = [template EXCEPT !.donor = {dir[p]}] /\ ~template.staged
    <3>1. template'.staged = FALSE /\ template'.ready = FALSE /\ template'.donor # {}
      BY <2>3, Zenon
    <3>2. \A q \in Process : plan[q] \notin {"staged", "ready"} /\ pc[q] # "instantiate"
      BY <2>3, Zenon
    <3>3. pc'[p] # "instantiate"
      BY <1>19 DEF Settle
    <3> QED
      BY <2>1, <2>2, <3>1, <3>2, <3>3, Zenon
  <2>4. CASE template' = [template EXCEPT !.ready = TRUE, !.checker = {dir[p]}]
             /\ plan[p] = "staged" /\ proves(p) /\ pc'[p] = "build"
    <3>1. template.staged /\ template.donor = planned[p] /\ {dir[p]} # planned[p]
      BY <2>4, Zenon DEF proves
    <3>2. template'.staged /\ template'.donor = template.donor /\ template'.checker = {dir[p]}
      BY <2>4, <3>1, Zenon
    <3> QED
      BY <2>1, <2>2, <2>4, <3>1, <3>2, ZenonT(60)
  <2>5. CASE template' \in {template, [template EXCEPT !.rejected = TRUE]} /\ pc'[p] = "build"
    <3>1. /\ template'.staged = template.staged /\ template'.ready = template.ready
          /\ template'.donor = template.donor /\ template'.checker = template.checker
      BY <2>5
    <3> QED
      BY <2>1, <2>2, <2>5, <3>1
  <2> QED
    BY <1>19, <2>3, <2>4, <2>5 DEF Settle
<1>20. CASE Capture(p)
  <2>1. \A q \in Process : q # p => pc[q] \notin {"settle", "capture"}
    <3>1. lock["template"] = {p}
      BY <1>20, Zenon DEF Capture
    <3> QED
      BY <3>1
  <2>2. UNCHANGED <<plan, planned>> /\ \A q \in Process : q # p => pc'[q] = pc[q]
    BY <1>20 DEF Capture
  <2>3. /\ template'.staged \/ template' = template
        /\ template'.ready = template.ready
        /\ template'.donor = template.donor /\ template'.checker = template.checker
    BY <1>20 DEF Capture
  <2>4. template.donor # {} /\ ~template.staged /\ pc'[p] = "build"
    BY <1>20 DEF Capture
  <2> QED
    BY <2>1, <2>2, <2>3, <2>4, ZenonT(60)
<1>21. CASE Compile(p)
  BY <1>21 DEF Compile
<1>22. CASE Compiled(p)
  BY <1>22 DEF Compiled
<1>23. CASE Mark(p)
  BY <1>23 DEF Mark, Model
<1>24. CASE BuildModel(p)
  BY <1>24 DEF BuildModel, again
<1>25. CASE Crash(p)
  BY <1>25 DEF Crash
<1> HIDE DEF At, Goto, Lock, Unlock, End, Kinds, shared, found, TypeOK, TemplateEntry, Locked,
           TemplateInv
<1> QED
  BY <1>1, <1>2, <1>3, <1>4, <1>5, <1>6, <1>7, <1>8, <1>9, <1>10, <1>11, <1>12, <1>13, <1>14,
     <1>15, <1>16, <1>17, <1>18, <1>19, <1>20, <1>21, <1>22, <1>23, <1>24, <1>25 DEF Step

LEMMA NextIInv == IInv /\ [Next]_vars => IInv'
<1> SUFFICES ASSUME IInv, [Next]_vars PROVE IInv'
  BY Zenon
<1>1. CASE UNCHANGED vars
  <2> USE <1>1 DEF vars, shared, found
  <2>1. TypeOK'
    BY Zenon DEF IInv, TypeOK
  <2>2. Locked'
    BY Zenon DEF IInv, Locked
  <2>3. ArchiveInv'
    BY Zenon DEF IInv, ArchiveInv, LinkedComplete
  <2>4. SeedInv'
    BY Zenon DEF IInv, SeedInv
  <2>5. TemplateInv'
    BY Zenon DEF IInv, TemplateInv
  <2> QED
    BY <2>1, <2>2, <2>3, <2>4, <2>5, Zenon DEF IInv
<1>2. ASSUME NEW p \in Process, (\E d \in Dir : Start(p, d)) \/ Step(p) \/ Crash(p) PROVE IInv'
  BY <1>2, StepType, StepLocked, StepArchive, StepSeed, StepTemplate DEF IInv
<1> QED
  BY <1>1, <1>2 DEF Next

LEMMA Invariant == Spec => []IInv
<1> QED
  BY InitIInv, NextIInv, PTL DEF Spec

------------------------------------------------------------------------------
(* Theorems *)

\* Every variable of the cache stays well formed.
THEOREM TypeCorrect == Spec => []TypeOK
<1>1. IInv => TypeOK
  BY Zenon DEF IInv
<1> QED
  BY <1>1, Invariant, PTL

\* A model is only ever linked with a complete archive, for any number of processes
\* and crashes.
THEOREM ArchiveComplete == Spec => []LinkedComplete
<1>1. IInv => LinkedComplete
  BY Zenon DEF IInv, ArchiveInv
<1> QED
  BY <1>1, Invariant, PTL

\* A seed that a process has found has all of its files.
THEOREM SeedsWhole == Spec => []SeedsComplete
<1>1. IInv => SeedsComplete
  BY Zenon DEF IInv, SeedInv, SeedsComplete
<1> QED
  BY <1>1, Invariant, PTL

\* A template is written into a tree only as another directory has checked it.
THEOREM TemplatesChecked == Spec => []TemplateChecked
<1>1. IInv => TemplateChecked
  BY DEF IInv, TemplateInv, TemplateChecked
<1> QED
  BY <1>1, Invariant, PTL

================================================================================
