----------------------------- MODULE TokenRefresh -----------------------------
(***************************************************************************)
(* Refresh of the semantic tokens on screen (ServedTokenInputs).  A request    *)
(* records the inputs of its stream under the lock it captures them with; a     *)
(* commit compares them with the inputs it leaves current and asks the client   *)
(* to request its streams again when one may differ.  The client requests a     *)
(* stream when a document opens or its text changes and on a refresh, never     *)
(* because something else was committed.  Texts are left out: the client covers *)
(* them.  So are the fallbacks of an open buffer, whose refusal the code leaves  *)
(* to the next edit.                                                            *)
(***************************************************************************)
EXTENDS Naturals

CONSTANTS
  Doc,            \* the documents of one root
  Defines,        \* values of [compile] defines
  Context,        \* include contexts, told apart by same_inputs
  DefaultContext, \* IncludeContext::default()
  MaxRequests,    \* bound on requests
  MaxReloads,     \* bound on reloads of the config
  MaxCommits      \* bound on commits

ASSUME RefreshAssumption ==
  /\ DefaultContext \in Context
  /\ MaxRequests \in Nat /\ MaxReloads \in Nat /\ MaxCommits \in Nat

VARIABLES
  defines,      \* of the root's descriptor
  context,      \* of last_good, or the default
  snapshot_id,  \* RootState.analysis_epoch
  served,       \* RootState.served_tokens
  due,          \* a reload is to be followed by a commit
  commits,      \* number of commits
  refresh,      \* a refresh request is on its way to the client
  pending,      \* the client's request of each document: {} or {stream}
  on_screen,    \* the stream on screen of each document: {} or {stream}
  requests, reloads   \* counters of the bounds

root == <<defines, context, snapshot_id, served, due, commits>>
screenVars == <<refresh, pending, on_screen>>
refreshVars == <<root, screenVars, requests, reloads>>

CurrentInputs == [defines |-> defines, context |-> context]

\* ServedTokenInputs::default
NothingServed == [snapshot |-> FALSE, isolated |-> {}, mixed |-> FALSE]

RefreshInit ==
  /\ defines \in Defines
  /\ context = DefaultContext
  /\ snapshot_id = 0
  /\ served = NothingServed
  /\ due = FALSE
  /\ commits = 0
  /\ refresh = FALSE
  /\ pending = [d \in Doc |-> {}]
  /\ on_screen = [d \in Doc |-> {}]
  /\ requests = 0 /\ reloads = 0

------------------------------------------------------------------------------

record_snapshot == [snapshot |-> TRUE, isolated |-> served.isolated, mixed |-> served.mixed]

\* Variant: the inputs of the last parse replace those recorded.
record_isolated_Last(i) ==
  [snapshot |-> served.snapshot, isolated |-> {i}, mixed |-> served.mixed]

record_isolated(i) ==
  IF served.isolated = {}
  THEN [snapshot |-> served.snapshot, isolated |-> {i}, mixed |-> served.mixed]
  ELSE [snapshot |-> served.snapshot, isolated |-> served.isolated,
        mixed |-> served.mixed \/ served.isolated # {i}]

\* The streams of documents ds are captured; opened are those whose buffer is open.  A
\* stream is what it was computed from and the number of commits before its capture.
Captured(ds, opened) ==
  [d \in Doc |->
     IF d \in ds
     THEN {[isolated |-> d \in opened, inputs |-> CurrentInputs, snapshot |-> snapshot_id,
            since |-> commits]}
     ELSE pending[d]]

\* semantic_tokens_full: the client opens or edits d, or views it unopened.
Ask(d, isOpen) ==
  /\ requests < MaxRequests
  /\ requests' = requests + 1
  /\ served' = IF isOpen THEN record_isolated(CurrentInputs) ELSE record_snapshot
  /\ pending' = Captured({d}, IF isOpen THEN {d} ELSE {})
  /\ UNCHANGED <<defines, context, snapshot_id, due, commits, refresh, on_screen, reloads>>

\* The answer arrives.
Show(d) ==
  /\ pending[d] # {}
  /\ on_screen' = [on_screen EXCEPT ![d] = pending[d]]
  /\ pending' = [pending EXCEPT ![d] = {}]
  /\ UNCHANGED <<root, refresh, requests, reloads>>

\* reload_root_config; the root is scheduled.
Reload(d) ==
  /\ reloads < MaxReloads
  /\ reloads' = reloads + 1
  /\ defines' = d
  /\ due' = TRUE
  /\ UNCHANGED <<context, snapshot_id, served, commits, screenVars, requests>>

isolated_changed(new) ==
  served.mixed \/ \E i \in served.isolated : i # new

\* Whether ServedTokenInputs::take_refresh asks for a refresh.
take_refresh(replaced, new) == isolated_changed(new) \/ (served.snapshot /\ replaced)

\* Variant: the snapshot record is cleared by every commit.
Settled_All(refreshes) == NothingServed

\* What take_refresh leaves recorded.
Settled(refreshes) ==
  [NothingServed EXCEPT !.snapshot = served.snapshot /\ ~ refreshes]

\* next_analysis_epoch, for a commit that replaces the snapshot.
Epoch(replaced) == IF replaced THEN snapshot_id + 1 ELSE snapshot_id

\* commit_job: the analysis replaces the snapshot, or keeps it, or there is none.
CommitInputs(replaced, c) ==
  LET refreshes == take_refresh(replaced, [defines |-> defines, context |-> c])
  IN /\ commits < MaxCommits
     /\ commits' = commits + 1
     /\ replaced \/ c = context
     /\ context' = c
     /\ snapshot_id' = Epoch(replaced)
     /\ served' = Settled(refreshes)
     /\ refresh' = (refresh \/ refreshes)
     /\ due' = FALSE
     /\ UNCHANGED <<defines, pending, on_screen, requests, reloads>>

\* The client takes the refresh: it requests the streams it shows or waits for.
\* Each is recorded as its request is handled.
Refresh ==
  LET latest(d) == IF pending[d] # {} THEN pending[d] ELSE on_screen[d]
      ds == {d \in Doc : latest(d) # {}}
      opened == {d \in ds : \A s \in latest(d) : s.isolated}
      recorded == IF opened = {} THEN served ELSE record_isolated(CurrentInputs)
  IN /\ refresh
     /\ refresh' = FALSE
     /\ pending' = Captured(ds, opened)
     /\ served' = [snapshot |-> served.snapshot \/ opened # ds,
                   isolated |-> recorded.isolated, mixed |-> recorded.mixed]
     /\ UNCHANGED <<defines, context, snapshot_id, due, commits, on_screen, requests, reloads>>

RefreshNext ==
  \/ \E d \in Doc : \/ \E isOpen \in BOOLEAN : Ask(d, isOpen)
                    \/ Show(d)
  \/ \E d \in Defines : Reload(d)
  \/ \E replaced \in BOOLEAN, c \in Context : CommitInputs(replaced, c)
  \/ Refresh

RefreshSpec == RefreshInit /\ [][RefreshNext]_refreshVars

------------------------------------------------------------------------------
(* Properties *)

\* No commit, refresh or answer is under way.
Quiet == ~ due /\ ~ refresh /\ \A d \in Doc : pending[d] = {}

\* A stream of an open buffer that was captured after the last commit but one is, once
\* all is quiet, that of the current defines and include context: the commit that made
\* it old has asked for it again, however capture, commit and answer interleave.
FreshSinceCommit ==
  Quiet => \A d \in Doc : \A s \in on_screen[d] :
             s.isolated /\ s.since + 1 >= commits => s.inputs = CurrentInputs

\* A stream of the snapshot is, once all is quiet, that of the current snapshot,
\* however many commits kept the snapshot in between.
SnapshotShown ==
  Quiet => \A d \in Doc : \A s \in on_screen[d] : ~ s.isolated => s.snapshot = snapshot_id

================================================================================
