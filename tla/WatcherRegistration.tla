------------------------ MODULE WatcherRegistration ------------------------
(***************************************************************************)
(* Registration of file watchers with the client (register_watchers_with).    *)
(* Every change of the roots or of their include dependencies is followed by a *)
(* call; calls are serialised by watcher_gate, read the wanted watchers once   *)
(* they hold it, and exchange the registration with the client in two requests *)
(* that suspend and may fail.                                                  *)
(***************************************************************************)
EXTENDS Naturals

CONSTANTS
  Watcher,      \* glob patterns
  Caller,       \* tasks and handlers that register watchers
  NoCaller,
  MaxChanges,   \* bound on the changes of the wanted watchers
  MaxErrors     \* bound on failed requests

ASSUME CallerAssumption ==
  /\ NoCaller \notin Caller
  /\ MaxChanges \in Nat /\ MaxErrors \in Nat

VARIABLES
  wanted_watchers,             \* what watcher_options_from_state returns
  watchers_registered,
  registered_watchers_digest,  \* {} (None) or {options}
  watcher_gate,                \* holder, or Nobody
  caller,                      \* pc and options of each caller
  client_watchers,             \* watchers active at the client
  changes, errors              \* counters of the bounds

stateVars == <<watchers_registered, registered_watchers_digest>>
watchVars == <<wanted_watchers, stateVars, watcher_gate, caller, client_watchers, changes,
               errors>>

Call == [pc : {"idle", "waiting", "unregister", "register"}, options : SUBSET Watcher]

WatchInit ==
  /\ wanted_watchers \in SUBSET Watcher
  /\ watchers_registered = FALSE
  /\ registered_watchers_digest = {}
  /\ watcher_gate = NoCaller
  /\ caller = [c \in Caller |-> [pc |-> "idle", options |-> {}]]
  /\ client_watchers = {}
  /\ changes = 0 /\ errors = 0

\* A commit, a reload or a folder change under the state lock; the task goes on
\* to register_watchers.
Change(c, options) ==
  /\ caller[c].pc = "idle"
  /\ changes < MaxChanges
  /\ changes' = changes + 1
  /\ wanted_watchers' = options
  /\ caller' = [caller EXCEPT ![c] = [pc |-> "waiting", options |-> {}]]
  /\ UNCHANGED <<stateVars, watcher_gate, client_watchers, errors>>

\* Variant: calls are not serialised.
WatchGateFree_Always == TRUE

WatchGateFree == watcher_gate = NoCaller

\* Variant: a call does not read the digest it compares with.
Unchanged_IfRegistered(options) == watchers_registered

\* The early return of a call whose options are those registered last.
Unchanged(options) == watchers_registered /\ registered_watchers_digest = {options}

\* The call gets its turn and reads the options.
TakeTurn(c) ==
  /\ caller[c].pc = "waiting"
  /\ WatchGateFree
  /\ ~ Unchanged(wanted_watchers)
  /\ watcher_gate' = c
  /\ caller' = [caller EXCEPT ![c] =
                  [pc |-> IF watchers_registered THEN "unregister" ELSE "register",
                   options |-> wanted_watchers]]
  /\ IF watchers_registered THEN UNCHANGED stateVars
     ELSE /\ watchers_registered' = TRUE
          /\ registered_watchers_digest' = {wanted_watchers}
  /\ UNCHANGED <<wanted_watchers, client_watchers, changes, errors>>

\* Nothing to do: the turn ends at once.
Skip(c) ==
  /\ caller[c].pc = "waiting"
  /\ WatchGateFree
  /\ Unchanged(wanted_watchers)
  /\ caller' = [caller EXCEPT ![c] = [pc |-> "idle", options |-> {}]]
  /\ UNCHANGED <<wanted_watchers, stateVars, watcher_gate, client_watchers, changes, errors>>

\* The answer to client.unregister; an error is only reported, and leaves the
\* registration in place or not.
Unregistered(c, ok) ==
  /\ caller[c].pc = "unregister"
  /\ \/ ok /\ client_watchers' = {} /\ UNCHANGED errors
     \/ /\ ~ ok /\ errors < MaxErrors /\ errors' = errors + 1
        /\ client_watchers' \in {client_watchers, {}}
  /\ watchers_registered' = TRUE
  /\ registered_watchers_digest' = {caller[c].options}
  /\ caller' = [caller EXCEPT ![c] = [pc |-> "register", options |-> caller[c].options]]
  /\ UNCHANGED <<wanted_watchers, watcher_gate, changes>>

\* The digest after a failed registration: None.
AfterError == {}

\* Variant: the gate is not released by a registration that failed.
Release_Leak(ok) == IF ok THEN NoCaller ELSE watcher_gate

\* The guard of the gate is dropped on every path.
Release(ok) == NoCaller

\* The answer to client.register; the turn ends.
Registered(c, ok) ==
  /\ caller[c].pc = "register"
  /\ \/ /\ ok /\ client_watchers' = caller[c].options
        /\ UNCHANGED <<registered_watchers_digest, errors>>
     \/ /\ ~ ok /\ errors < MaxErrors /\ errors' = errors + 1
        /\ client_watchers' \in {client_watchers, caller[c].options}
        /\ registered_watchers_digest' = AfterError
  /\ caller' = [caller EXCEPT ![c] = [pc |-> "idle", options |-> {}]]
  /\ watcher_gate' = Release(ok)
  /\ UNCHANGED <<wanted_watchers, watchers_registered, changes>>

Step(c) ==
  \/ TakeTurn(c)
  \/ Skip(c)
  \/ \E ok \in BOOLEAN : Unregistered(c, ok) \/ Registered(c, ok)

WatchNext ==
  \E c \in Caller : \/ \E options \in SUBSET Watcher : Change(c, options)
                    \/ Step(c)

WatchSpec == WatchInit /\ [][WatchNext]_watchVars

\* The client answers every request and a call that waits gets its turn.
WatchFairness == \A c \in Caller : WF_watchVars(Step(c))

WatchFairSpec == WatchSpec /\ WatchFairness

------------------------------------------------------------------------------
(* Properties *)

\* Every variable is well formed; the digest is that of a watcher set.
WatchTypeOK ==
  /\ wanted_watchers \subseteq Watcher
  /\ watchers_registered \in BOOLEAN
  /\ registered_watchers_digest \in {{}} \cup {{o} : o \in SUBSET Watcher}
  /\ watcher_gate \in Caller \cup {NoCaller}
  /\ caller \in [Caller -> Call]
  /\ client_watchers \subseteq Watcher
  /\ changes \in Nat /\ errors \in Nat

\* Between turns the digest, if there is one, is that of the watchers active at
\* the client: a later call that skips registration because of it skips rightly.
DigestHonest ==
  watcher_gate = NoCaller =>
    \A o \in registered_watchers_digest : client_watchers = o

\* When no call is under way the client watches everything wanted, unless the last
\* registration failed and the digest was dropped so that the next call retries:
\* an overlapping call never registers an older set last.
NothingUnwatched ==
  (\A c \in Caller : caller[c].pc = "idle") =>
    changes = 0 \/ client_watchers = wanted_watchers \/ registered_watchers_digest = {}

\* Every call ends: callers never wait for each other for good.
CallsEnd == \A c \in Caller : caller[c].pc = "waiting" ~> caller[c].pc = "idle"
==============================================================================
