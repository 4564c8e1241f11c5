----------------------------- MODULE TokenFlights -----------------------------
(***************************************************************************)
(* Semantic tokens of an open document (semantic_tokens_full).  A request      *)
(* captures the buffer, the defines and the epoch of the committed analysis,   *)
(* looks in the request cache, and else joins or leads a flight: one parse per  *)
(* key, run by a coordinator on the blocking pool that outlives its request.    *)
(* Requests may be cancelled at every await, the buffer, the defines and the    *)
(* analysis change at any time, and the number of flights is bounded.           *)
(*                                                                              *)
(* There is one document: the uri is part of every key, so flights of two       *)
(* documents differ by their key as those of two revisions do.                  *)
(***************************************************************************)
EXTENDS Naturals, FiniteSets

CONSTANTS
  Text, Defines, Context,
  DefaultContext,               \* IncludeContext::default(), before the first commit
  Request,                      \* requests under way at the same time
  Flight,                       \* Arc<OpenTokenFlight> allocations
  NoText,                       \* the document is not open
  NoFlight, NoKey,
  Failed,                       \* Err(_)
  Fallback,                     \* tokens of the committed snapshot
  OPEN_TOKEN_FLIGHT_CAPACITY,
  TOKEN_CACHE_CAPACITY,
  MaxChanges                    \* bound on edits, reloads and commits

\* A token stream is a function of what the isolated parse reads.
Stream == [text : Text, defines : Defines, context : Context]

\* open_token_cache_key
Key == [text : Text, defines : Defines, epoch : Nat]

ASSUME TokenAssumption ==
  /\ NoText \notin Text
  /\ DefaultContext \in Context
  /\ NoFlight \notin Flight /\ NoKey \notin Key
  /\ Failed \notin Stream /\ Fallback \notin Stream
  /\ OPEN_TOKEN_FLIGHT_CAPACITY \in Nat \ {0}
  /\ TOKEN_CACHE_CAPACITY \in Nat \ {0}
  /\ MaxChanges \in Nat

VARIABLES
  text,           \* documents[uri]
  defines,        \* of the root's descriptor
  epoch,          \* RootState.analysis_epoch
  contexts,       \* include context of the analysis of each epoch
  shutting_down,
  open_token_cache,
  flights,        \* OpenTokenFlightRegistry.flights
  flight,         \* the flights allocated, and their leaders and coordinators
  request,
  changes         \* counter of the bound

inputs == <<text, defines, epoch, contexts, shutting_down, changes>>
vars == <<inputs, open_token_cache, flights, flight, request>>

\* A flight is led by its request, then parsed, published in the cache, stored and
\* landed by its coordinator.
FlightPc == {"leader", "parse", "publish", "store", "land", "done"}

FlightState == [pc : FlightPc, key : Key \cup {NoKey}, outcome : Stream \cup {Failed},
                result : {{}} \cup {{o} : o \in Stream \cup {Failed}},
                waiters : SUBSET Request]

RequestPc == {"idle", "captured", "missed", "leader", "wait", "registered", "asleep",
              "closing", "ready", "answered"}

RequestState == [pc : RequestPc, key : Key \cup {NoKey}, context : Context,
                 flight : Flight \cup {NoFlight}, fresh : Stream \cup {Failed},
                 answer : {{}} \cup {{o} : o \in Stream \cup {Fallback}}]

IdleRequest == [pc |-> "idle", key |-> NoKey, context |-> DefaultContext,
                flight |-> NoFlight, fresh |-> Failed, answer |-> {}]

Init ==
  /\ text \in Text
  /\ defines \in Defines
  /\ epoch = 0
  /\ contexts = [e \in 0..MaxChanges |-> DefaultContext]
  /\ shutting_down = FALSE
  /\ open_token_cache = {}
  /\ flights = {}
  /\ flight = [f \in Flight |-> [pc |-> "done", key |-> NoKey, outcome |-> Failed,
                                 result |-> {}, waiters |-> {}]]
  /\ request = [r \in Request |-> IdleRequest]
  /\ changes = 0

------------------------------------------------------------------------------
(* What the requests read *)

Changed ==
  /\ changes < MaxChanges
  /\ changes' = changes + 1
  /\ UNCHANGED <<open_token_cache, flights, flight, request>>

\* did_open, did_change, did_close
SetDocument(t) ==
  /\ Changed
  /\ text' = t
  /\ UNCHANGED <<defines, epoch, contexts, shutting_down>>

\* reload_root_config
SetDefines(d) ==
  /\ Changed
  /\ defines' = d
  /\ UNCHANGED <<text, epoch, contexts, shutting_down>>

\* commit_job replaces last_good and takes next_analysis_epoch.
Commit(c) ==
  /\ Changed
  /\ epoch' = epoch + 1
  /\ contexts' = [contexts EXCEPT ![epoch + 1] = c]
  /\ UNCHANGED <<text, defines, shutting_down>>

Shutdown ==
  /\ ~ shutting_down
  /\ shutting_down' = TRUE
  /\ UNCHANGED <<text, defines, epoch, contexts, changes, open_token_cache, flights,
                 flight, request>>

open_document_is_current(captured) == ~ shutting_down /\ text = captured

------------------------------------------------------------------------------
(* MemoCache.  Which entry is the least recently used is left open here. *)

Hit(k) == \E e \in open_token_cache : e.key = k

Get(k) == (CHOOSE e \in open_token_cache : e.key = k).stream

\* The entries an insertion of k may push out.
Evicted(k) ==
  IF ~ Hit(k) /\ Cardinality(open_token_cache) >= TOKEN_CACHE_CAPACITY
  THEN {{e} : e \in open_token_cache} ELSE {{}}

Put(k, s) ==
  \E gone \in Evicted(k) :
    open_token_cache' =
      {e \in open_token_cache \ gone : e.key # k} \cup {[key |-> k, stream |-> s]}

------------------------------------------------------------------------------
(* semantic_tokens_full up to the wait *)

Answer(r, a) ==
  request' = [request EXCEPT ![r] =
                [pc |-> "answered", key |-> request[r].key, context |-> request[r].context,
                 flight |-> NoFlight, fresh |-> Failed, answer |-> {a}]]

Goto(r, pc, f, fresh) ==
  request' = [request EXCEPT ![r] =
                [pc |-> pc, key |-> request[r].key, context |-> request[r].context,
                 flight |-> f, fresh |-> fresh, answer |-> {}]]

\* Variant: the epoch is not part of the key.
open_token_cache_key_NoEpoch(t, d, e) == [text |-> t, defines |-> d, epoch |-> 0]

open_token_cache_key(t, d, e) == [text |-> t, defines |-> d, epoch |-> e]

\* The inputs are captured under the state lock.
Capture(r) ==
  /\ request[r].pc = "idle"
  /\ text # NoText
  /\ request' = [request EXCEPT ![r] =
                   [pc |-> "captured", key |-> open_token_cache_key(text, defines, epoch),
                    context |-> contexts[epoch], flight |-> NoFlight, fresh |-> Failed,
                    answer |-> {}]]
  /\ UNCHANGED <<inputs, open_token_cache, flights, flight>>

\* The buffer is not current any more, or exceeds max_file_bytes.
Refuse(r) ==
  /\ request[r].pc = "captured"
  /\ Answer(r, Fallback)
  /\ UNCHANGED <<inputs, open_token_cache, flights, flight>>

\* The first look into the cache.
Lookup(r) ==
  LET k == request[r].key
  IN /\ request[r].pc = "captured"
     /\ open_document_is_current(k.text)
     /\ IF Hit(k) THEN Answer(r, Get(k)) ELSE Goto(r, "missed", NoFlight, Failed)
     /\ UNCHANGED <<inputs, open_token_cache, flights, flight>>

\* OpenTokenFlightRegistry::acquire: a flight of the key exists.
Follow(r, f) ==
  /\ request[r].pc = "missed"
  /\ f \in flights /\ flight[f].key = request[r].key
  /\ Goto(r, "wait", f, Failed)
  /\ UNCHANGED <<inputs, open_token_cache, flights, flight>>

\* Variant: one flight too many is admitted.
Saturated_Late == Cardinality(flights) > OPEN_TOKEN_FLIGHT_CAPACITY

Saturated == Cardinality(flights) >= OPEN_TOKEN_FLIGHT_CAPACITY

InFlight(k) == \E f \in flights : flight[f].key = k

\* acquire: the registry is full.
Overflow(r) ==
  /\ request[r].pc = "missed"
  /\ ~ InFlight(request[r].key)
  /\ Saturated
  /\ Answer(r, Fallback)
  /\ UNCHANGED <<inputs, open_token_cache, flights, flight>>

\* Nothing holds the allocation any more.
Free(f) ==
  /\ flight[f].pc = "done" /\ f \notin flights
  /\ \A r \in Request : request[r].flight # f

\* acquire: a new flight, led by r.
Lead(r, f) ==
  /\ request[r].pc = "missed"
  /\ ~ InFlight(request[r].key)
  /\ ~ Saturated
  /\ Free(f)
  /\ flights' = flights \cup {f}
  /\ flight' = [flight EXCEPT ![f] = [pc |-> "leader", key |-> request[r].key,
                                      outcome |-> Failed, result |-> {}, waiters |-> {}]]
  /\ Goto(r, "leader", f, Failed)
  /\ UNCHANGED <<inputs, open_token_cache>>

SetFlight(f, pc, outcome, result, waiters) ==
  flight' = [flight EXCEPT ![f] = [pc |-> pc, key |-> flight[f].key, outcome |-> outcome,
                                   result |-> result, waiters |-> waiters]]

\* The leader finds the stream in the cache now, or its buffer is stale: it
\* finishes the flight itself.
LeaderFinishes(r) ==
  LET k == request[r].key
      f == request[r].flight
      outcome == IF Hit(k) /\ open_document_is_current(k.text) THEN Get(k) ELSE Failed
  IN /\ request[r].pc = "leader"
     /\ Hit(k) \/ ~ open_document_is_current(k.text)
     /\ SetFlight(f, "store", outcome, {}, flight[f].waiters)
     /\ Goto(r, "closing", f, outcome)
     /\ UNCHANGED <<inputs, open_token_cache, flights>>

\* OpenTokenFlightLeader::detach and spawn_open_token_coordinator
Detach(r) ==
  LET k == request[r].key
      f == request[r].flight
  IN /\ request[r].pc = "leader"
     /\ ~ Hit(k) /\ open_document_is_current(k.text)
     /\ SetFlight(f, "parse", Failed, {}, flight[f].waiters)
     /\ Goto(r, "wait", f, Failed)
     /\ UNCHANGED <<inputs, open_token_cache, flights>>

------------------------------------------------------------------------------
(* The coordinator *)

\* The isolated parse of the captured inputs.
StreamOf(k) == [text |-> k.text, defines |-> k.defines, context |-> contexts[k.epoch]]

\* compute_open_document_semantic_tokens; it fails, or panics, or finds the buffer
\* stale before it enters the parser.
Parse(f, ok) ==
  /\ flight[f].pc = "parse"
  /\ ok => open_document_is_current(flight[f].key.text)
  /\ SetFlight(f, "publish", IF ok THEN StreamOf(flight[f].key) ELSE Failed, {},
               flight[f].waiters)
  /\ UNCHANGED <<inputs, open_token_cache, flights, request>>

\* Variant: the waiters are woken before the result is stored.
After_NotifyFirst(pc) ==
  CASE pc = "publish" -> "land"
    [] pc = "land" -> "store"
    [] pc = "store" -> "done"

\* The order of OpenTokenFlightCoordinator::finish.
After(pc) ==
  CASE pc = "publish" -> "store"
    [] pc = "store" -> "land"
    [] pc = "land" -> "done"

\* A current result enters the cache.
Publish(f) ==
  /\ flight[f].pc = "publish"
  /\ IF flight[f].outcome # Failed /\ open_document_is_current(flight[f].key.text)
     THEN Put(flight[f].key, flight[f].outcome)
     ELSE UNCHANGED open_token_cache
  /\ SetFlight(f, After("publish"), flight[f].outcome, flight[f].result, flight[f].waiters)
  /\ UNCHANGED <<inputs, flights, request>>

Store(f) ==
  /\ flight[f].pc = "store"
  /\ SetFlight(f, After("store"), flight[f].outcome, {flight[f].outcome}, flight[f].waiters)
  /\ UNCHANGED <<inputs, open_token_cache, flights, request>>

\* OpenTokenFlightRegistry::remove, and notify_waiters, which wakes those registered
\* before it: nobody reads the flight in between.
Land(f) ==
  /\ flight[f].pc = "land"
  /\ flights' = flights \ {f}
  /\ SetFlight(f, After("land"), flight[f].outcome, flight[f].result, {})
  /\ UNCHANGED <<inputs, open_token_cache, request>>

------------------------------------------------------------------------------
(* OpenTokenFlight::wait, and the end of the request *)

Register(r) ==
  LET f == request[r].flight
  IN /\ request[r].pc = "wait"
     /\ SetFlight(f, flight[f].pc, flight[f].outcome, flight[f].result,
                  flight[f].waiters \cup {r})
     /\ Goto(r, "registered", f, Failed)
     /\ UNCHANGED <<inputs, open_token_cache, flights>>

\* The result is there: the notification is dropped.
Take(r) ==
  LET f == request[r].flight
  IN /\ request[r].pc = "registered"
     /\ \E o \in flight[f].result : Goto(r, "ready", f, o)
     /\ SetFlight(f, flight[f].pc, flight[f].outcome, flight[f].result,
                  flight[f].waiters \ {r})
     /\ UNCHANGED <<inputs, open_token_cache, flights>>

Sleep(r) ==
  /\ request[r].pc = "registered"
  /\ flight[request[r].flight].result = {}
  /\ Goto(r, "asleep", request[r].flight, Failed)
  /\ UNCHANGED <<inputs, open_token_cache, flights, flight>>

Wake(r) ==
  /\ request[r].pc = "asleep"
  /\ r \notin flight[request[r].flight].waiters
  /\ Goto(r, "wait", request[r].flight, Failed)
  /\ UNCHANGED <<inputs, open_token_cache, flights, flight>>

\* The leader's own finish has returned.
Closed(r) ==
  /\ request[r].pc = "closing"
  /\ flight[request[r].flight].pc = "done"
  /\ Goto(r, "ready", request[r].flight, request[r].fresh)
  /\ UNCHANGED <<inputs, open_token_cache, flights, flight>>

\* The fallback was computed meanwhile; select_semantic_tokens chooses.
Finish(r) ==
  LET fresh == request[r].fresh
      current == open_document_is_current(request[r].key.text)
  IN /\ request[r].pc = "ready"
     /\ IF fresh # Failed /\ current
        THEN Put(request[r].key, fresh) /\ Answer(r, fresh)
        ELSE UNCHANGED open_token_cache /\ Answer(r, Fallback)
     /\ UNCHANGED <<inputs, flights, flight>>

\* Variant: dropping the request drops its flight, detached or not.
Dropped_Flight(f) == flights \ {f}

\* OpenTokenFlightLeader::drop after detach: the registry keeps the flight.
Dropped(f) == flights

\* The client cancels: the request's future is dropped at an await.
Cancel(r) ==
  LET f == request[r].flight
  IN /\ request[r].pc \in {"asleep", "ready"}
     /\ flights' = Dropped(f)
     /\ SetFlight(f, flight[f].pc, flight[f].outcome, flight[f].result,
                  flight[f].waiters \ {r})
     /\ request' = [request EXCEPT ![r] = IdleRequest]
     /\ UNCHANGED <<inputs, open_token_cache>>

\* The answer is sent.
Deliver(r) ==
  /\ request[r].pc = "answered"
  /\ request' = [request EXCEPT ![r] = IdleRequest]
  /\ UNCHANGED <<inputs, open_token_cache, flights, flight>>

------------------------------------------------------------------------------

Proceed(r) ==
  \/ Refuse(r) \/ Lookup(r) \/ Overflow(r) \/ LeaderFinishes(r) \/ Detach(r)
  \/ \E f \in Flight : Follow(r, f) \/ Lead(r, f)
  \/ Register(r) \/ Take(r) \/ Sleep(r) \/ Wake(r) \/ Closed(r) \/ Finish(r)
  \/ Deliver(r)

Coordinate(f) ==
  \/ \E ok \in BOOLEAN : Parse(f, ok)
  \/ Publish(f) \/ Store(f) \/ Land(f)

Next ==
  \/ \E t \in Text \cup {NoText} : SetDocument(t)
  \/ \E d \in Defines : SetDefines(d)
  \/ \E c \in Context : Commit(c)
  \/ Shutdown
  \/ \E r \in Request : Capture(r) \/ Proceed(r) \/ Cancel(r)
  \/ \E f \in Flight : Coordinate(f)

Spec == Init /\ [][Next]_vars

\* Tasks of the runtime and of the blocking pool run on; a parse ends.
Fairness ==
  /\ \A r \in Request : WF_vars(Proceed(r))
  /\ \A f \in Flight : WF_vars(Coordinate(f))

FairSpec == Spec /\ Fairness

------------------------------------------------------------------------------
(* Properties *)

\* Every variable is well formed, the cache holds at most TOKEN_CACHE_CAPACITY
\* entries, and only one for a key.
TypeOK ==
  /\ text \in Text \cup {NoText}
  /\ defines \in Defines
  /\ epoch \in 0..changes
  /\ contexts \in [0..MaxChanges -> Context]
  /\ shutting_down \in BOOLEAN
  /\ open_token_cache \subseteq [key : Key, stream : Stream]
  /\ Cardinality(open_token_cache) <= TOKEN_CACHE_CAPACITY
  /\ \A e1, e2 \in open_token_cache : e1.key = e2.key => e1 = e2
  /\ flights \subseteq Flight
  /\ flight \in [Flight -> FlightState]
  /\ request \in [Request -> RequestState]
  /\ changes \in 0..MaxChanges

Running == {f \in Flight : flight[f].pc \in {"parse", "publish"}}

\* The parses that run, and the streams computed but not in the cache yet, are of
\* different keys: a request whose stream is on its way joins it, even when the
\* request that started it was cancelled (Drop for OpenTokenFlightLeader: "without
\* exposing a second parser for the same key").
OneParser ==
  \A f1, f2 \in Running : flight[f1].key = flight[f2].key => f1 = f2

\* However many requests come and are cancelled, no more than
\* OPEN_TOKEN_FLIGHT_CAPACITY parses occupy the blocking pool.
ParsesBounded == Cardinality(Running) <= OPEN_TOKEN_FLIGHT_CAPACITY

\* A request is answered with the tokens of the revision, the defines and the
\* include context it captured, whether they come from the cache, from a flight of
\* another request or from its own parse, or else with those of the snapshot.
AnswersMatchInputs ==
  \A r \in Request : \A a \in request[r].answer :
    a = Fallback \/ a = [text |-> request[r].key.text, defines |-> request[r].key.defines,
                         context |-> request[r].context]

\* Every request ends, whatever its flight does and however the notification of its
\* result races with its registration.
RequestsEnd == \A r \in Request : request[r].pc = "captured" ~> request[r].pc = "idle"
================================================================================
