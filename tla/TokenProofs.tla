------------------------------ MODULE TokenProofs ------------------------------
(***************************************************************************)
(* Proofs of the safety properties of TokenFlights.                            *)
(*                                                                              *)
(* Every key under way belongs to an analysis that was committed, so the        *)
(* contexts of later commits do not change what its parse reads; every stream   *)
(* in the cache, in a flight or in a request is then that of its key.  The       *)
(* registry holds exactly the flights that have not landed.                     *)
(***************************************************************************)
EXTENDS TokenFlights, FiniteSetTheorems, TLAPS

\* A key of an analysis committed at epoch e or before.
KeyPast(k, e) == k \in Key /\ k.epoch <= e

\* What the parse of k computes, c being the contexts of the epochs.
StreamAt(k, c) == [text |-> k.text, defines |-> k.defines, context |-> c[k.epoch]]

EntryGood(x, e, c) == KeyPast(x.key, e) /\ x.stream = StreamAt(x.key, c)

FlightGood(w, e, c) ==
  \/ w.key = NoKey /\ w.pc = "done"
  \/ /\ KeyPast(w.key, e)
     /\ w.outcome \in {Failed, StreamAt(w.key, c)}
     /\ w.result \subseteq {Failed, StreamAt(w.key, c)}

RequestGood(q, e, c) ==
  \/ q.pc = "idle" /\ q.answer = {}
  \/ /\ KeyPast(q.key, e)
     /\ q.context = c[q.key.epoch]
     /\ q.fresh \in {Failed, StreamAt(q.key, c)}
     /\ q.answer \subseteq {Fallback, StreamAt(q.key, c)}

\* A request that leads a flight, or waits for its result, holds the flight of its
\* own key.
Rides(q, w) ==
  q.pc \in {"leader", "wait", "registered", "asleep", "closing", "ready"} =>
    q.flight \in Flight /\ w[q.flight].key = q.key

Registry ==
  /\ flights = {f \in Flight : flight[f].pc # "done"}
  /\ IsFiniteSet(flights)
  /\ Cardinality(flights) <= OPEN_TOKEN_FLIGHT_CAPACITY
  /\ \A f1, f2 \in flights : flight[f1].key = flight[f2].key => f1 = f2

\* A flight is led by one request, until its leader finishes or detaches it.
Leading ==
  \A r \in Request : request[r].pc = "leader" =>
    /\ flight[request[r].flight].pc = "leader"
    /\ \A p \in Request :
         request[p].pc = "leader" /\ request[p].flight = request[r].flight => p = r

InputsOK ==
  /\ text \in Text \cup {NoText}
  /\ defines \in Defines
  /\ epoch \in 0..changes
  /\ contexts \in [0..MaxChanges -> Context]
  /\ shutting_down \in BOOLEAN
  /\ changes \in 0..MaxChanges

CacheOK ==
  /\ open_token_cache \subseteq [key : Key, stream : Stream]
  /\ IsFiniteSet(open_token_cache)
  /\ Cardinality(open_token_cache) <= TOKEN_CACHE_CAPACITY
  /\ \A e1, e2 \in open_token_cache : e1.key = e2.key => e1 = e2
  /\ \A x \in open_token_cache : EntryGood(x, epoch, contexts)

FlightsOK ==
  /\ flight \in [Flight -> FlightState]
  /\ \A f \in Flight : FlightGood(flight[f], epoch, contexts)

RequestsOK ==
  /\ request \in [Request -> RequestState]
  /\ \A r \in Request : RequestGood(request[r], epoch, contexts) /\ Rides(request[r], flight)

IInv == InputsOK /\ CacheOK /\ FlightsOK /\ RequestsOK /\ Registry /\ Leading

LEMMA InitIInv == Init => IInv
<1> SUFFICES ASSUME Init PROVE IInv
  OBVIOUS
<1> USE TokenAssumption DEF Init
<1>1. InputsOK
  <2>1. epoch \in 0..changes /\ changes \in 0..MaxChanges
    OBVIOUS
  <2>2. contexts \in [0..MaxChanges -> Context]
    BY Zenon
  <2> QED
    BY <2>1, <2>2, Zenon DEF InputsOK
<1>2. CacheOK
  BY FS_EmptySet DEF CacheOK
<1>3. FlightsOK
  <2>1. [pc |-> "done", key |-> NoKey, outcome |-> Failed, result |-> {}, waiters |-> {}] \in FlightState
    BY DEF FlightState, FlightPc
  <2> QED
    BY <2>1, Zenon DEF FlightsOK, FlightGood
<1>4. RequestsOK
  BY DEF RequestsOK, RequestState, RequestPc, IdleRequest, RequestGood, Rides
<1>5. Registry
  BY FS_EmptySet DEF Registry
<1>6. Leading
  BY DEF Leading, IdleRequest
<1> QED
  BY <1>1, <1>2, <1>3, <1>4, <1>5, <1>6 DEF IInv

LEMMA InvType == IInv => TypeOK
<1> QED
  BY DEF IInv, TypeOK, InputsOK, CacheOK, FlightsOK, RequestsOK, Registry

------------------------------------------------------------------------------
(* The cache *)

LEMMA StreamType ==
  ASSUME InputsOK, NEW k, KeyPast(k, epoch)
  PROVE  StreamAt(k, contexts) \in Stream /\ StreamOf(k) = StreamAt(k, contexts)
<1>1. k \in Key /\ k.epoch \in 0..MaxChanges
  BY TokenAssumption DEF InputsOK, KeyPast, Key
<1> QED
  BY <1>1 DEF InputsOK, Key, Stream, StreamAt, StreamOf

\* The entry found for a key is the stream of that key.
LEMMA HitStream ==
  ASSUME CacheOK, NEW k, Hit(k)
  PROVE  Get(k) = StreamAt(k, contexts)
<1> DEFINE x == CHOOSE e \in open_token_cache : e.key = k
<1>1. x \in open_token_cache /\ x.key = k
  BY DEF Hit
<1> QED
  BY <1>1 DEF Get, CacheOK, EntryGood

\* An insertion keeps one entry per key and no more than the capacity.
LEMMA PutCache ==
  ASSUME InputsOK, CacheOK, NEW k, KeyPast(k, epoch), Put(k, StreamAt(k, contexts)),
         UNCHANGED <<epoch, contexts>>
  PROVE  CacheOK'
<1> DEFINE new == [key |-> k, stream |-> StreamAt(k, contexts)]
<1>1. PICK gone \in Evicted(k) :
        open_token_cache' = {e \in open_token_cache \ gone : e.key # k} \cup {new}
  BY DEF Put
<1> DEFINE rest == {e \in open_token_cache \ gone : e.key # k}
<1>2. new \in [key : Key, stream : Stream] /\ EntryGood(new, epoch, contexts)
  BY StreamType DEF KeyPast, EntryGood
<1>3. rest \subseteq open_token_cache /\ IsFiniteSet(rest) /\ Cardinality(rest) \in Nat
  BY FS_Subset, FS_CardinalityType DEF CacheOK
<1>4. Cardinality(rest) < TOKEN_CACHE_CAPACITY
  <2>1. Cardinality(open_token_cache) \in Nat /\ TOKEN_CACHE_CAPACITY \in Nat
    BY FS_CardinalityType, TokenAssumption DEF CacheOK
  <2>2. ASSUME NEW e \in open_token_cache, e \notin rest
        PROVE  Cardinality(rest) < Cardinality(open_token_cache)
    <3>1. rest \subseteq open_token_cache \ {e}
      BY <2>2
    <3>2. /\ IsFiniteSet(open_token_cache \ {e})
          /\ Cardinality(open_token_cache \ {e}) = Cardinality(open_token_cache) - 1
      BY FS_RemoveElement DEF CacheOK
    <3>3. Cardinality(rest) <= Cardinality(open_token_cache \ {e})
      BY <3>1, <3>2, FS_Subset, Zenon
    <3> QED
      BY <3>2, <3>3, <2>1, <1>3
  <2>3. CASE \E e \in open_token_cache : e \notin rest
    BY <2>1, <2>2, <2>3, <1>3 DEF CacheOK
  <2>4. CASE ~ \E e \in open_token_cache : e \notin rest
    <3>1. gone = {} \/ \E e \in open_token_cache : e \in gone
      BY DEF Evicted
    <3>2. ~Hit(k) /\ gone = {}
      BY <2>4, <3>1 DEF Hit
    <3>3. Cardinality(open_token_cache) < TOKEN_CACHE_CAPACITY
      BY <3>2, <2>1 DEF Evicted
    <3>4. rest = open_token_cache
      BY <2>4
    <3> QED
      BY <3>3, <3>4
  <2> QED
    BY <2>3, <2>4
<1>5. new \notin rest
  OBVIOUS
<1>6. IsFiniteSet(open_token_cache') /\ Cardinality(open_token_cache') <= TOKEN_CACHE_CAPACITY
  <2>1. IsFiniteSet(rest \cup {new}) /\ Cardinality(rest \cup {new}) = Cardinality(rest) + 1
    <3> HIDE DEF rest, new
    <3> QED
      BY <1>3, <1>5, FS_AddElement
  <2>2. Cardinality(rest) + 1 <= TOKEN_CACHE_CAPACITY
    <3> HIDE DEF rest
    <3> QED
      BY <1>3, <1>4, TokenAssumption
  <2> QED
    BY <1>1, <2>1, <2>2
<1>7. \A e1, e2 \in rest \cup {new} : e1.key = e2.key => e1 = e2
  BY <1>3 DEF CacheOK
<1> QED
  BY <1>1, <1>2, <1>3, <1>6, <1>7 DEF CacheOK

LEMMA CacheSame ==
  ASSUME CacheOK, UNCHANGED <<epoch, contexts, open_token_cache>>
  PROVE  CacheOK'
<1> QED
  BY DEF CacheOK

------------------------------------------------------------------------------
(* The flights and the requests, one changed at a time *)

LEMMA FlightsStep ==
  ASSUME FlightsOK, NEW f \in Flight, NEW w \in FlightState, FlightGood(w, epoch, contexts),
         flight' = [flight EXCEPT ![f] = w], UNCHANGED <<epoch, contexts>>
  PROVE  FlightsOK'
<1>1. flight' \in [Flight -> FlightState] /\ \A g \in Flight : flight'[g] = IF g = f THEN w ELSE flight[g]
  BY DEF FlightsOK
<1> QED
  BY <1>1, Zenon DEF FlightsOK

\* The flights that requests hold keep their keys.
HeldKeysKept ==
  \A p \in Request : request[p].flight \in Flight =>
    flight'[request[p].flight].key = flight[request[p].flight].key

LEMMA RequestsStep ==
  ASSUME RequestsOK, HeldKeysKept, NEW r \in Request, NEW q \in RequestState,
         RequestGood(q, epoch, contexts), Rides(q, flight'),
         request' = [request EXCEPT ![r] = q], UNCHANGED <<epoch, contexts>>
  PROVE  RequestsOK'
<1>1. request' \in [Request -> RequestState] /\ \A p \in Request : request'[p] = IF p = r THEN q ELSE request[p]
  BY DEF RequestsOK
<1>2. \A p \in Request : Rides(request[p], flight')
  BY Zenon DEF RequestsOK, HeldKeysKept, Rides
<1> QED
  BY <1>1, <1>2, Zenon DEF RequestsOK

LEMMA RequestsSame ==
  ASSUME RequestsOK, HeldKeysKept, UNCHANGED <<epoch, contexts, request>>
  PROVE  RequestsOK'
<1>1. \A p \in Request : Rides(request[p], flight')
  BY Zenon DEF RequestsOK, HeldKeysKept, Rides
<1> QED
  BY <1>1, Zenon DEF RequestsOK

LEMMA RegistrySame ==
  ASSUME Registry, flights' = flights,
         \A g \in Flight : /\ flight'[g].key = flight[g].key
                           /\ flight'[g].pc = "done" <=> flight[g].pc = "done"
  PROVE  Registry'
<1> QED
  BY DEF Registry

LEMMA LeadingStep ==
  ASSUME Leading, RequestsOK, NEW r \in Request, NEW q, q.pc # "leader",
         request' = [request EXCEPT ![r] = q],
         \A p \in Request \ {r} : request[p].pc = "leader" =>
           flight'[request[p].flight].pc = flight[request[p].flight].pc
  PROVE  Leading'
<1>1. \A p \in Request : request'[p] = IF p = r THEN q ELSE request[p]
  BY DEF RequestsOK
<1> QED
  BY <1>1 DEF Leading

\* A step of one request that touches no flight.
LEMMA RequestCacheStep ==
  ASSUME IInv, NEW r \in Request, NEW q \in RequestState, RequestGood(q, epoch, contexts),
         Rides(q, flight), q.pc # "leader", request' = [request EXCEPT ![r] = q],
         CacheOK', UNCHANGED <<inputs, flights, flight>>
  PROVE  IInv'
<1> USE DEF IInv, inputs
<1>1. InputsOK'
  BY Zenon DEF InputsOK
<1>2. FlightsOK' /\ Registry'
  BY RegistrySame, Zenon DEF FlightsOK
<1>3. RequestsOK'
  BY RequestsStep, Zenon DEF HeldKeysKept
<1>4. Leading'
  BY LeadingStep, Zenon
<1> QED
  BY <1>1, <1>2, <1>3, <1>4, Zenon

\* A step of one request that touches no flight and no cache entry.
LEMMA RequestStep ==
  ASSUME IInv, NEW r \in Request, NEW q \in RequestState, RequestGood(q, epoch, contexts),
         Rides(q, flight), q.pc # "leader", request' = [request EXCEPT ![r] = q],
         UNCHANGED <<inputs, open_token_cache, flights, flight>>
  PROVE  IInv'
<1>1. CacheOK'
  BY CacheSame, Zenon DEF IInv, inputs
<1> QED
  BY <1>1, RequestCacheStep, Zenon

\* A step of the coordinator of a flight that stays in the registry.
LEMMA FlightStep ==
  ASSUME IInv, NEW f \in Flight, NEW w \in FlightState, FlightGood(w, epoch, contexts),
         w.key = flight[f].key, w.pc # "done", flight[f].pc \notin {"done", "leader"},
         flight' = [flight EXCEPT ![f] = w], CacheOK', UNCHANGED <<inputs, flights, request>>
  PROVE  IInv'
<1> USE DEF IInv, inputs
<1>1. InputsOK'
  BY Zenon DEF InputsOK
<1>2. \A g \in Flight : flight'[g] = IF g = f THEN w ELSE flight[g]
  BY DEF FlightsOK
<1>3. FlightsOK'
  BY FlightsStep, Zenon
<1>4. Registry'
  <2>1. \A g \in Flight : /\ flight'[g].key = flight[g].key
                          /\ flight'[g].pc = "done" <=> flight[g].pc = "done"
    BY <1>2, Zenon
  <2> QED
    BY <2>1, RegistrySame, Zenon
<1>5. RequestsOK'
  BY <1>2, RequestsSame, Zenon DEF HeldKeysKept
<1>6. \A r \in Request : request[r].pc = "leader" => request[r].flight \in Flight
  BY Zenon DEF RequestsOK, Rides
<1>7. Leading'
  <2>1. \A r \in Request : request[r].pc = "leader" =>
          flight'[request[r].flight] = flight[request[r].flight]
    BY <1>2, <1>6, ZenonT(60) DEF Leading
  <2>2. Leading /\ request' = request
    BY Zenon
  <2> QED
    BY ONLY <2>1, <2>2, Zenon DEF Leading
<1> QED
  BY <1>1, <1>3, <1>4, <1>5, <1>7, Zenon

\* A step of a request and its flight, which leads it no more and lands no flight.
LEMMA RideStep ==
  ASSUME IInv, NEW r \in Request, NEW q \in RequestState, RequestGood(q, epoch, contexts),
         NEW f \in Flight, NEW w \in FlightState, FlightGood(w, epoch, contexts),
         request[r].flight = f, request[r].key = flight[f].key, w.key = flight[f].key,
         w.pc = "done" <=> flight[f].pc = "done",
         w.pc = flight[f].pc \/ request[r].pc = "leader",
         q.pc # "leader", Rides(q, flight'), request' = [request EXCEPT ![r] = q],
         flight' = [flight EXCEPT ![f] = w], UNCHANGED <<inputs, open_token_cache, flights>>
  PROVE  IInv'
<1> USE DEF IInv, inputs
<1>1. InputsOK'
  BY Zenon DEF InputsOK
<1>2. \A g \in Flight : flight'[g] = IF g = f THEN w ELSE flight[g]
  BY DEF FlightsOK
<1>3. FlightsOK' /\ CacheOK'
  BY FlightsStep, CacheSame, Zenon
<1>4. Registry'
  <2>1. \A g \in Flight : /\ flight'[g].key = flight[g].key
                          /\ flight'[g].pc = "done" <=> flight[g].pc = "done"
    BY <1>2, Zenon
  <2> QED
    BY <2>1, RegistrySame, Zenon
<1>5. RequestsOK'
  BY <1>2, RequestsStep, Zenon DEF HeldKeysKept
<1>6. \A p \in Request : request[p].pc = "leader" => request[p].flight \in Flight
  BY Zenon DEF RequestsOK, Rides
<1>7. \A p \in Request \ {r} : request[p].pc = "leader" =>
        flight'[request[p].flight].pc = flight[request[p].flight].pc
  <2>1. request[r].pc = "leader" =>
          \A p \in Request \ {r} : request[p].pc = "leader" => request[p].flight # f
    BY Zenon DEF Leading
  <2> QED
    BY <1>2, <1>6, <2>1, ZenonT(60)
<1>8. Leading'
  BY <1>7, LeadingStep, Zenon
<1> QED
  BY <1>1, <1>3, <1>4, <1>5, <1>8, Zenon

------------------------------------------------------------------------------
(* The records that the actions write *)

Gone(q, pc, f, fresh) ==
  [pc |-> pc, key |-> q.key, context |-> q.context, flight |-> f, fresh |-> fresh, answer |-> {}]

LEMMA GoneGood ==
  ASSUME IInv, NEW r \in Request, request[r].pc # "idle", NEW pc \in RequestPc,
         NEW f \in Flight \cup {NoFlight}, NEW fresh \in {Failed, StreamAt(request[r].key, contexts)}
  PROVE  /\ Gone(request[r], pc, f, fresh) \in RequestState
         /\ RequestGood(Gone(request[r], pc, f, fresh), epoch, contexts)
<1> DEFINE q == request[r]
<1>1. q \in RequestState /\ RequestGood(q, epoch, contexts)
  BY Zenon DEF IInv, RequestsOK
<1>2. /\ KeyPast(q.key, epoch) /\ q.context = contexts[q.key.epoch]
      /\ StreamAt(q.key, contexts) \in Stream
  BY <1>1, StreamType, Zenon DEF IInv, RequestGood
<1>3. q.key \in Key /\ q.context \in Context /\ fresh \in Stream \cup {Failed}
  BY <1>1, <1>2, Zenon DEF KeyPast, RequestState
<1> HIDE DEF q
<1>4. Gone(q, pc, f, fresh) \in RequestState
  BY <1>3, ZenonT(60) DEF Gone, RequestState
<1>5. RequestGood(Gone(q, pc, f, fresh), epoch, contexts)
  BY <1>2, fresh \in {Failed, StreamAt(q.key, contexts)} DEF Gone, RequestGood, q
<1> QED
  BY <1>4, <1>5 DEF q

Answered(q, a) ==
  [pc |-> "answered", key |-> q.key, context |-> q.context, flight |-> NoFlight,
   fresh |-> Failed, answer |-> {a}]

LEMMA AnsweredGood ==
  ASSUME IInv, NEW r \in Request, request[r].pc # "idle",
         NEW a \in {Fallback, StreamAt(request[r].key, contexts)}
  PROVE  /\ Answered(request[r], a) \in RequestState
         /\ RequestGood(Answered(request[r], a), epoch, contexts)
<1> DEFINE q == request[r]
<1>1. q \in RequestState /\ RequestGood(q, epoch, contexts)
  BY Zenon DEF IInv, RequestsOK
<1>2. /\ KeyPast(q.key, epoch) /\ q.context = contexts[q.key.epoch]
      /\ StreamAt(q.key, contexts) \in Stream
  BY <1>1, StreamType, Zenon DEF IInv, RequestGood
<1>3. q.key \in Key /\ q.context \in Context /\ a \in Stream \cup {Fallback}
  BY <1>1, <1>2, Zenon DEF KeyPast, RequestState
<1> HIDE DEF q
<1>4. Answered(q, a) \in RequestState
  BY <1>3, Zenon DEF Answered, RequestState, RequestPc
<1>5. RequestGood(Answered(q, a), epoch, contexts)
  BY <1>2, a \in {Fallback, StreamAt(q.key, contexts)}, ZenonT(60) DEF Answered, RequestGood, q
<1> QED
  BY <1>4, <1>5 DEF q

LEMMA IdleGood ==
  /\ IdleRequest \in RequestState /\ IdleRequest.pc = "idle"
  /\ RequestGood(IdleRequest, epoch, contexts) /\ Rides(IdleRequest, flight')
  /\ Rides(IdleRequest, flight)
<1> QED
  BY TokenAssumption DEF IdleRequest, RequestState, RequestPc, RequestGood, Rides

Set(w, pc, outcome, result, waiters) ==
  [pc |-> pc, key |-> w.key, outcome |-> outcome, result |-> result, waiters |-> waiters]

Results == {{}} \cup {{o} : o \in Stream \cup {Failed}}

LEMMA SetGood ==
  ASSUME IInv, NEW w, KeyPast(w.key, epoch), NEW pc \in FlightPc,
         NEW outcome \in {Failed, StreamAt(w.key, contexts)},
         NEW result \in Results, result \subseteq {Failed, StreamAt(w.key, contexts)},
         NEW waiters \in SUBSET Request
  PROVE  /\ Set(w, pc, outcome, result, waiters) \in FlightState
         /\ FlightGood(Set(w, pc, outcome, result, waiters), epoch, contexts)
<1>1. StreamAt(w.key, contexts) \in Stream /\ w.key \in Key
  BY StreamType DEF IInv, KeyPast
<1>2. outcome \in Stream \cup {Failed}
  BY <1>1
<1>3. Set(w, pc, outcome, result, waiters) \in FlightState
  BY <1>1, <1>2 DEF Set, FlightState, Results
<1>4. FlightGood(Set(w, pc, outcome, result, waiters), epoch, contexts)
  BY ZenonT(60) DEF Set, FlightGood
<1> QED
  BY <1>3, <1>4

\* What a flight in use holds.
LEMMA FlightHolds ==
  ASSUME IInv, NEW f \in Flight, KeyPast(flight[f].key, epoch) \/ flight[f].pc # "done"
  PROVE  /\ KeyPast(flight[f].key, epoch)
         /\ flight[f].outcome \in {Failed, StreamAt(flight[f].key, contexts)}
         /\ flight[f].result \in Results
         /\ flight[f].result \subseteq {Failed, StreamAt(flight[f].key, contexts)}
         /\ flight[f].waiters \subseteq Request
         /\ flight[f].pc \in FlightPc
<1>1. flight[f] \in FlightState /\ FlightGood(flight[f], epoch, contexts)
  BY Zenon DEF IInv, FlightsOK
<1>2. NoKey \notin Key
  BY TokenAssumption, ZenonT(60)
<1> QED
  BY <1>1, <1>2 DEF FlightGood, FlightState, KeyPast, Results

\* What a request that leads or waits holds.
LEMMA RequestHolds ==
  ASSUME IInv, NEW r \in Request,
         request[r].pc \in {"leader", "wait", "registered", "asleep", "closing", "ready"}
  PROVE  /\ KeyPast(request[r].key, epoch)
         /\ request[r].flight \in Flight
         /\ flight[request[r].flight].key = request[r].key
         /\ request[r].fresh \in {Failed, StreamAt(request[r].key, contexts)}
<1>1. RequestGood(request[r], epoch, contexts) /\ Rides(request[r], flight)
  BY ZenonT(60) DEF IInv, RequestsOK
<1> QED
  BY <1>1 DEF RequestGood, Rides

------------------------------------------------------------------------------
(* The inputs *)

\* A commit leaves every stream as it is: its context is that of a new epoch.
LEMMA Later ==
  ASSUME InputsOK, NEW c, Commit(c), NEW k, KeyPast(k, epoch)
  PROVE  KeyPast(k, epoch') /\ StreamAt(k, contexts') = StreamAt(k, contexts)
         /\ contexts'[k.epoch] = contexts[k.epoch]
<1>1. k \in Key /\ k.epoch \in Nat /\ k.epoch <= epoch /\ epoch \in Nat
  BY DEF KeyPast, Key, InputsOK
<1>2. epoch' = epoch + 1 /\ contexts' = [contexts EXCEPT ![epoch + 1] = c]
  BY DEF Commit
<1>3. k.epoch # epoch + 1 /\ k.epoch <= epoch'
  BY <1>1, <1>2
<1>4. contexts'[k.epoch] = contexts[k.epoch]
  BY <1>1, <1>2, <1>3, TokenAssumption DEF InputsOK
<1> QED
  BY <1>1, <1>3, <1>4 DEF KeyPast, StreamAt

LEMMA CommitStep ==
  ASSUME IInv, NEW c \in Context, Commit(c)
  PROVE  IInv'
<1> USE DEF IInv, Changed
<1>u. UNCHANGED <<open_token_cache, flights, flight, request>>
  BY Zenon DEF Commit
<1>1. InputsOK'
  <2>1. epoch' \in 0..changes' /\ changes' \in 0..MaxChanges
    BY TokenAssumption DEF InputsOK, Commit
  <2>2. contexts' \in [0..MaxChanges -> Context]
    BY Zenon DEF InputsOK, Commit
  <2> QED
    BY <2>1, <2>2, ZenonT(60) DEF InputsOK, Commit
<1>2. \A k : KeyPast(k, epoch) => /\ KeyPast(k, epoch')
                                  /\ StreamAt(k, contexts') = StreamAt(k, contexts)
                                  /\ contexts'[k.epoch] = contexts[k.epoch]
  BY Later, Zenon
<1>3. CacheOK'
  <2>1. \A x \in open_token_cache : EntryGood(x, epoch', contexts')
    BY <1>2, Zenon DEF CacheOK, EntryGood
  <2> QED
    BY <1>u, <2>1, Zenon DEF CacheOK
<1>4. FlightsOK'
  <2>1. \A f \in Flight : FlightGood(flight[f], epoch', contexts')
    BY <1>2, Zenon DEF FlightsOK, FlightGood
  <2> QED
    BY <1>u, <2>1, Zenon DEF FlightsOK
<1>5. RequestsOK'
  <2>1. \A r \in Request : RequestGood(request[r], epoch', contexts')
    BY <1>2, Zenon DEF RequestsOK, RequestGood
  <2> QED
    BY <1>u, <2>1, Zenon DEF RequestsOK
<1>6. Registry' /\ Leading'
  BY <1>u, ZenonT(60) DEF Registry, Leading
<1> QED
  BY <1>1, <1>3, <1>4, <1>5, <1>6, ZenonT(60)

LEMMA InputStep ==
  ASSUME IInv, InputsOK', UNCHANGED <<epoch, contexts, open_token_cache, flights, flight, request>>
  PROVE  IInv'
<1> USE DEF IInv
<1>1. CacheOK' /\ FlightsOK'
  BY CacheSame, Zenon DEF FlightsOK
<1>2. RequestsOK'
  BY RequestsSame, Zenon DEF HeldKeysKept
<1>3. Registry' /\ Leading'
  BY ZenonT(60) DEF Registry, Leading
<1> QED
  BY <1>1, <1>2, <1>3, Zenon

LEMMA InputSteps ==
  ASSUME IInv,
         \/ \E t \in Text \cup {NoText} : SetDocument(t)
         \/ \E d \in Defines : SetDefines(d)
         \/ Shutdown
  PROVE  IInv'
<1>1. InputsOK
  BY Zenon DEF IInv
<1>2. ASSUME NEW t \in Text \cup {NoText}, SetDocument(t) PROVE IInv'
  <2>1. epoch' \in 0..changes' /\ changes' \in 0..MaxChanges
    BY <1>1, <1>2, TokenAssumption DEF InputsOK, SetDocument, Changed
  <2> QED
    BY <1>1, <1>2, <2>1, InputStep, ZenonT(60) DEF InputsOK, SetDocument, Changed
<1>3. ASSUME NEW d \in Defines, SetDefines(d) PROVE IInv'
  <2>1. epoch' \in 0..changes' /\ changes' \in 0..MaxChanges
    BY <1>1, <1>3, TokenAssumption DEF InputsOK, SetDefines, Changed
  <2> QED
    BY <1>1, <1>3, <2>1, InputStep, ZenonT(60) DEF InputsOK, SetDefines, Changed
<1>4. CASE Shutdown
  BY <1>1, <1>4, InputStep, Zenon DEF InputsOK, Shutdown
<1> QED
  BY <1>2, <1>3, <1>4, ZenonT(60)

------------------------------------------------------------------------------
(* The requests *)

LEMMA CaptureStep ==
  ASSUME IInv, NEW r \in Request, Capture(r)
  PROVE  IInv'
<1> DEFINE k == open_token_cache_key(text, defines, epoch)
           q == [pc |-> "captured", key |-> k, context |-> contexts[epoch],
                 flight |-> NoFlight, fresh |-> Failed, answer |-> {}]
<1>1. epoch \in 0..MaxChanges /\ epoch \in Nat
  BY TokenAssumption DEF IInv, InputsOK
<1>2. k \in Key /\ k.epoch = epoch
  BY <1>1 DEF IInv, InputsOK, Capture, Key, open_token_cache_key
<1>3. contexts[epoch] \in Context
  BY <1>1 DEF IInv, InputsOK
<1>4. KeyPast(k, epoch)
  BY <1>1, <1>2 DEF KeyPast
<1>5. request' = [request EXCEPT ![r] = q] /\ UNCHANGED <<inputs, open_token_cache, flights, flight>>
  BY Zenon DEF Capture
<1> HIDE DEF k
<1>6. q \in RequestState
  BY <1>2, <1>3, TokenAssumption, ZenonT(60) DEF RequestState, RequestPc
<1>7. RequestGood(q, epoch, contexts) /\ Rides(q, flight) /\ q.pc # "leader"
  BY <1>2, <1>4 DEF RequestGood, Rides
<1> QED
  BY <1>5, <1>6, <1>7, RequestStep, ZenonT(60)

\* Refuse, Lookup, Follow and Overflow.
LEMMA LookStep ==
  ASSUME IInv, NEW r \in Request,
         \/ Refuse(r) \/ Lookup(r) \/ Overflow(r)
         \/ \E f \in Flight : Follow(r, f)
  PROVE  IInv'
<1>0. request[r].pc # "idle" /\ UNCHANGED <<inputs, open_token_cache, flights, flight>>
  BY Zenon DEF Refuse, Lookup, Overflow, Follow
<1>1. ASSUME NEW a \in {Fallback, StreamAt(request[r].key, contexts)}, Answer(r, a) PROVE IInv'
  <2>1. request' = [request EXCEPT ![r] = Answered(request[r], a)]
    BY <1>1, ZenonT(60) DEF Answer, Answered
  <2>2. Rides(Answered(request[r], a), flight) /\ Answered(request[r], a).pc # "leader"
    BY DEF Answered, Rides
  <2> QED
    BY <1>0, <2>1, <2>2, AnsweredGood, RequestStep, ZenonT(60)
<1>2. CASE Refuse(r) \/ Overflow(r)
  BY <1>1, <1>2, ZenonT(60) DEF Refuse, Overflow
<1>3. CASE Lookup(r)
  <2>1. CASE Hit(request[r].key)
    <3>1. Get(request[r].key) = StreamAt(request[r].key, contexts)
      BY <2>1, HitStream, Zenon DEF IInv
    <3> QED
      BY <1>1, <1>3, <2>1, <3>1, ZenonT(60) DEF Lookup
  <2>2. CASE ~Hit(request[r].key)
    <3> DEFINE q == Gone(request[r], "missed", NoFlight, Failed)
    <3>1. request' = [request EXCEPT ![r] = q]
      BY <1>3, <2>2, Zenon DEF Lookup, Goto, Gone
    <3>2. Rides(q, flight) /\ q.pc # "leader"
      BY Zenon DEF Gone, Rides
    <3>3. q \in RequestState /\ RequestGood(q, epoch, contexts)
      BY <1>0, GoneGood, Zenon DEF RequestPc
    <3> QED
      BY <1>0, <3>1, <3>2, <3>3, RequestStep, ZenonT(60)
  <2> QED
    BY <2>1, <2>2
<1>4. ASSUME NEW f \in Flight, Follow(r, f) PROVE IInv'
  <2> DEFINE q == Gone(request[r], "wait", f, Failed)
  <2>1. request' = [request EXCEPT ![r] = q]
    BY <1>4, Zenon DEF Follow, Goto, Gone
  <2>2. Rides(q, flight) /\ q.pc # "leader"
    BY <1>4, ZenonT(60) DEF Follow, Gone, Rides
  <2>3. q \in RequestState /\ RequestGood(q, epoch, contexts)
    BY <1>0, GoneGood DEF RequestPc
  <2> QED
    BY <1>0, <2>1, <2>2, <2>3, RequestStep, ZenonT(60)
<1> QED
  BY <1>2, <1>3, <1>4, ZenonT(60)

\* Sleep, Wake and Closed: the request keeps its flight.
LEMMA WaitStep ==
  ASSUME IInv, NEW r \in Request, Sleep(r) \/ Wake(r) \/ Closed(r)
  PROVE  IInv'
<1>0. /\ request[r].pc \in {"registered", "asleep", "closing"}
      /\ UNCHANGED <<inputs, open_token_cache, flights, flight>>
  BY ZenonT(60) DEF Sleep, Wake, Closed
<1>1. /\ request[r].flight \in Flight /\ flight[request[r].flight].key = request[r].key
      /\ request[r].fresh \in {Failed, StreamAt(request[r].key, contexts)}
  BY <1>0, RequestHolds
<1>2. ASSUME NEW pc \in {"asleep", "wait", "ready"},
             NEW fresh \in {Failed, StreamAt(request[r].key, contexts)},
             Goto(r, pc, request[r].flight, fresh)
      PROVE  IInv'
  <2> DEFINE q == Gone(request[r], pc, request[r].flight, fresh)
  <2>1. request' = [request EXCEPT ![r] = q]
    BY <1>2, Zenon DEF Goto, Gone
  <2>2. Rides(q, flight) /\ q.pc # "leader"
    BY <1>1, ZenonT(60) DEF Gone, Rides
  <2>3. request[r].pc # "idle" /\ pc \in RequestPc
    BY <1>0 DEF RequestPc
  <2>4. q \in RequestState /\ RequestGood(q, epoch, contexts)
    BY <1>1, <2>3, GoneGood, ZenonT(60)
  <2> QED
    BY <1>0, <2>1, <2>2, <2>4, RequestStep, ZenonT(60)
<1> QED
  BY <1>1, <1>2, Zenon DEF Sleep, Wake, Closed

LEMMA DeliverStep ==
  ASSUME IInv, NEW r \in Request, Deliver(r)
  PROVE  IInv'
<1>1. request' = [request EXCEPT ![r] = IdleRequest]
      /\ UNCHANGED <<inputs, open_token_cache, flights, flight>>
  BY Zenon DEF Deliver
<1>2. IdleRequest.pc # "leader"
  BY IdleGood
<1> QED
  BY <1>1, <1>2, IdleGood, RequestStep, ZenonT(60)

LEMMA FinishStep ==
  ASSUME IInv, NEW r \in Request, Finish(r)
  PROVE  IInv'
<1>0. request[r].pc = "ready" /\ UNCHANGED <<inputs, flights, flight>>
  BY ZenonT(60) DEF Finish
<1>1. /\ KeyPast(request[r].key, epoch)
      /\ request[r].fresh \in {Failed, StreamAt(request[r].key, contexts)}
  BY <1>0, RequestHolds
<1>2. ASSUME NEW a \in {Fallback, StreamAt(request[r].key, contexts)}, Answer(r, a), CacheOK'
      PROVE  IInv'
  <2>1. request' = [request EXCEPT ![r] = Answered(request[r], a)]
    BY <1>2, ZenonT(60) DEF Answer, Answered
  <2>2. Rides(Answered(request[r], a), flight) /\ Answered(request[r], a).pc # "leader"
    BY DEF Answered, Rides
  <2>3. request[r].pc # "idle"
    BY <1>0
  <2> QED
    BY <1>0, <1>2, <2>1, <2>2, <2>3, AnsweredGood, RequestCacheStep, ZenonT(60)
<1>3. CASE Put(request[r].key, request[r].fresh) /\ Answer(r, request[r].fresh) /\ request[r].fresh # Failed
  <2>1. request[r].fresh = StreamAt(request[r].key, contexts)
    BY <1>1, <1>3, Zenon
  <2>2. CacheOK'
    BY <1>0, <1>1, <1>3, <2>1, PutCache, ZenonT(60) DEF IInv, inputs
  <2> QED
    BY <1>2, <1>3, <2>1, <2>2, ZenonT(60)
<1>4. CASE UNCHANGED open_token_cache /\ Answer(r, Fallback)
  <2>1. CacheOK'
    BY <1>0, <1>4, CacheSame, ZenonT(60) DEF IInv, inputs
  <2> QED
    BY <1>2, <1>4, <2>1, ZenonT(60)
<1> QED
  BY <1>3, <1>4, Zenon DEF Finish

\* LeaderFinishes and Detach: the leader gives the flight to the coordinator, or
\* finishes it.
LEMMA LeaderStep ==
  ASSUME IInv, NEW r \in Request, LeaderFinishes(r) \/ Detach(r)
  PROVE  IInv'
<1> DEFINE f == request[r].flight
           k == request[r].key
<1>0. request[r].pc = "leader" /\ UNCHANGED <<inputs, open_token_cache, flights>>
  BY ZenonT(60) DEF LeaderFinishes, Detach
<1>1. KeyPast(k, epoch) /\ f \in Flight /\ flight[f].key = k
  BY <1>0, RequestHolds
<1>2. flight[f].pc = "leader" /\ flight[f].waiters \subseteq Request
  BY <1>0, <1>1, FlightHolds, ZenonT(60) DEF IInv, Leading
<1>3. ASSUME NEW pc \in {"store", "parse"}, NEW to \in {"closing", "wait"},
             NEW outcome \in {Failed, StreamAt(k, contexts)},
             SetFlight(f, pc, outcome, {}, flight[f].waiters),
             NEW fresh \in {Failed, StreamAt(k, contexts)}, Goto(r, to, f, fresh)
      PROVE  IInv'
  <2> DEFINE w == Set(flight[f], pc, outcome, {}, flight[f].waiters)
             q == Gone(request[r], to, f, fresh)
  <2>1. flight' = [flight EXCEPT ![f] = w] /\ request' = [request EXCEPT ![r] = q]
    BY <1>3, ZenonT(60) DEF SetFlight, Goto, Set, Gone
  <2>2. pc \in FlightPc /\ to \in RequestPc /\ request[r].pc # "idle" /\ {} \in Results
    BY <1>0 DEF FlightPc, RequestPc, Results
  <2>3. w \in FlightState /\ FlightGood(w, epoch, contexts)
    BY <1>1, <1>2, <2>2, SetGood, ZenonT(60)
  <2>4. q \in RequestState /\ RequestGood(q, epoch, contexts)
    BY <1>1, <2>2, GoneGood, ZenonT(60)
  <2>5. w.key = k /\ w.pc # "done" /\ q.pc # "leader" /\ q.flight = f /\ q.key = k
    BY <1>1, ZenonT(60) DEF Set, Gone
  <2>6. flight'[f] = w
    BY <1>1, <2>1 DEF IInv, FlightsOK
  <2> HIDE DEF w, q
  <2>7. Rides(q, flight')
    BY <1>1, <2>5, <2>6, Zenon DEF Rides
  <2> QED
    BY <1>0, <1>1, <1>2, <2>1, <2>3, <2>4, <2>5, <2>7, RideStep, ZenonT(60)
<1>4. CASE LeaderFinishes(r)
  <2> DEFINE outcome == IF Hit(k) /\ open_document_is_current(k.text) THEN Get(k) ELSE Failed
  <2>1. outcome \in {Failed, StreamAt(k, contexts)}
    BY HitStream, Zenon DEF IInv
  <2>2. SetFlight(f, "store", outcome, {}, flight[f].waiters) /\ Goto(r, "closing", f, outcome)
    BY <1>4, Zenon DEF LeaderFinishes
  <2> HIDE DEF outcome
  <2> QED
    BY <1>3, <2>1, <2>2, Zenon
<1>5. CASE Detach(r)
  BY <1>3, <1>5, Zenon DEF Detach
<1> QED
  BY <1>4, <1>5

\* A step of a request that changes only who waits for its flight.
LEMMA WaitersStep ==
  ASSUME IInv, NEW r \in Request, NEW waiters \in SUBSET Request, NEW q \in RequestState,
         request[r].pc \in {"wait", "registered", "asleep", "ready"},
         NEW f \in Flight, request[r].flight = f,
         SetFlight(f, flight[f].pc, flight[f].outcome, flight[f].result, waiters),
         RequestGood(q, epoch, contexts), q.pc # "leader",
         q.pc = "idle" \/ (q.flight = f /\ q.key = request[r].key),
         request' = [request EXCEPT ![r] = q], UNCHANGED <<inputs, open_token_cache, flights>>
  PROVE  IInv'
<1> DEFINE k == request[r].key
           w == Set(flight[f], flight[f].pc, flight[f].outcome, flight[f].result, waiters)
<1>1. KeyPast(k, epoch) /\ f \in Flight /\ flight[f].key = k
  BY RequestHolds
<1>2. /\ flight[f].outcome \in {Failed, StreamAt(k, contexts)}
      /\ flight[f].result \in Results /\ flight[f].result \subseteq {Failed, StreamAt(k, contexts)}
      /\ flight[f].pc \in FlightPc
  BY <1>1, FlightHolds, Zenon
<1>3. flight' = [flight EXCEPT ![f] = w]
  BY Zenon DEF SetFlight, Set
<1>4. w \in FlightState /\ FlightGood(w, epoch, contexts)
  BY <1>1, <1>2, SetGood, ZenonT(60)
<1>5. w.key = k /\ w.pc = flight[f].pc
  BY <1>1 DEF Set
<1>6. flight'[f] = w
  BY <1>1, <1>3, Zenon DEF IInv, FlightsOK
<1> HIDE DEF w
<1>7. Rides(q, flight')
  BY <1>1, <1>5, <1>6, ZenonT(60) DEF Rides
<1> QED
  BY <1>1, <1>3, <1>4, <1>5, <1>7, RideStep, ZenonT(60)

\* Register and Take.
LEMMA RegisterStep ==
  ASSUME IInv, NEW r \in Request, Register(r) \/ Take(r)
  PROVE  IInv'
<1> DEFINE f == request[r].flight
           k == request[r].key
<1>0. request[r].pc \in {"wait", "registered"} /\ UNCHANGED <<inputs, open_token_cache, flights>>
  BY ZenonT(60) DEF Register, Take
<1>1. KeyPast(k, epoch) /\ f \in Flight /\ flight[f].key = k
  BY <1>0, RequestHolds
<1>2. flight[f].waiters \subseteq Request /\ flight[f].result \subseteq {Failed, StreamAt(k, contexts)}
  BY <1>1, FlightHolds, Zenon
<1>3. ASSUME NEW pc \in {"registered", "ready"}, NEW fresh \in {Failed, StreamAt(k, contexts)},
             Goto(r, pc, f, fresh), NEW waiters \in SUBSET Request,
             SetFlight(f, flight[f].pc, flight[f].outcome, flight[f].result, waiters)
      PROVE  IInv'
  <2> DEFINE q == Gone(request[r], pc, f, fresh)
  <2>1. request' = [request EXCEPT ![r] = q]
    BY <1>3, ZenonT(60) DEF Goto, Gone
  <2>2. pc \in RequestPc /\ request[r].pc # "idle"
    BY <1>0 DEF RequestPc
  <2>3. q \in RequestState /\ RequestGood(q, epoch, contexts)
    BY <1>1, <2>2, GoneGood, ZenonT(60)
  <2>4. q.pc # "leader" /\ q.flight = f /\ q.key = k
    BY DEF Gone
  <2> HIDE DEF q
  <2> QED
    BY <1>0, <1>1, <1>3, <2>1, <2>3, <2>4, WaitersStep, ZenonT(60)
<1>4. CASE Register(r)
  <2> DEFINE waiters == flight[f].waiters \cup {r}
  <2>1. /\ SetFlight(f, flight[f].pc, flight[f].outcome, flight[f].result, waiters)
        /\ Goto(r, "registered", f, Failed)
    BY <1>4, Zenon DEF Register
  <2>2. waiters \in SUBSET Request
    BY <1>2, Zenon
  <2> HIDE DEF waiters
  <2> QED
    BY <1>3, <2>1, <2>2, Zenon
<1>5. CASE Take(r)
  <2>1. PICK o \in flight[f].result : Goto(r, "ready", f, o)
    BY <1>5, Zenon DEF Take
  <2>2. o \in {Failed, StreamAt(k, contexts)}
    BY <1>2, Zenon
  <2> QED
    BY <1>2, <1>3, <1>5, <2>1, <2>2, ZenonT(60) DEF Take
<1> QED
  BY <1>4, <1>5

LEMMA CancelStep ==
  ASSUME IInv, NEW r \in Request, Cancel(r)
  PROVE  IInv'
<1> DEFINE f == request[r].flight
           waiters == flight[f].waiters \ {r}
<1>1. /\ request[r].pc \in {"asleep", "ready"}
      /\ request' = [request EXCEPT ![r] = IdleRequest]
      /\ SetFlight(f, flight[f].pc, flight[f].outcome, flight[f].result, waiters)
      /\ UNCHANGED <<inputs, open_token_cache, flights>>
  BY ZenonT(60) DEF Cancel, Dropped
<1>2. f \in Flight /\ KeyPast(flight[f].key, epoch)
  BY <1>1, RequestHolds
<1>3. waiters \in SUBSET Request
  BY <1>2, FlightHolds, ZenonT(60)
<1>4. /\ IdleRequest \in RequestState /\ RequestGood(IdleRequest, epoch, contexts)
      /\ IdleRequest.pc # "leader" /\ IdleRequest.pc = "idle"
      /\ request[r].pc \in {"wait", "registered", "asleep", "ready"}
  BY <1>1, IdleGood
<1> HIDE DEF f, waiters
<1> QED
  BY ONLY IInv, r \in Request, <1>1, <1>2, <1>3, <1>4, WaitersStep, ZenonT(60) DEF f

\* A new flight takes a key that no flight has, and a place that is free.
LEMMA LeadStep ==
  ASSUME IInv, NEW r \in Request, NEW f \in Flight, Lead(r, f)
  PROVE  IInv'
<1> DEFINE w == [pc |-> "leader", key |-> request[r].key, outcome |-> Failed, result |-> {},
                 waiters |-> {}]
           q == Gone(request[r], "leader", f, Failed)
<1>1. /\ flight' = [flight EXCEPT ![f] = w] /\ request' = [request EXCEPT ![r] = q]
      /\ flights' = flights \cup {f} /\ UNCHANGED <<inputs, open_token_cache>>
      /\ request[r].pc = "missed"
  BY Zenon DEF Lead, Goto, Gone
<1>2. KeyPast(request[r].key, epoch) /\ request[r].key \in Key
  BY <1>1, Zenon DEF IInv, RequestsOK, RequestGood, KeyPast
<1>3. w \in FlightState /\ FlightGood(w, epoch, contexts)
  BY <1>2, Zenon DEF FlightState, FlightPc, FlightGood
<1>4. q \in RequestState /\ RequestGood(q, epoch, contexts)
  BY <1>1, GoneGood, ZenonT(60) DEF RequestPc
<1>5. /\ q.pc = "leader" /\ q.flight = f /\ q.key = request[r].key
      /\ w.pc = "leader" /\ w.key = request[r].key
  BY DEF Gone
<1> HIDE DEF w, q
<1>6. \A g \in Flight : flight'[g] = IF g = f THEN w ELSE flight[g]
  BY <1>1 DEF IInv, FlightsOK
<1>7. \A p \in Request : request'[p] = IF p = r THEN q ELSE request[p]
  BY <1>1 DEF IInv, RequestsOK
<1>8. flight[f].pc = "done" /\ f \notin flights /\ \A p \in Request : request[p].flight # f
  BY Zenon DEF Lead, Free
<1>9. InputsOK' /\ CacheOK'
  BY <1>1, CacheSame, ZenonT(60) DEF IInv, inputs, InputsOK
<1>10. FlightsOK'
  BY <1>1, <1>3, FlightsStep, ZenonT(60) DEF IInv, inputs
<1>11. RequestsOK'
  <2>1. HeldKeysKept
    BY <1>6, <1>8, Zenon DEF HeldKeysKept
  <2>2. Rides(q, flight')
    BY <1>5, <1>6, Zenon DEF Rides
  <2> QED
    BY <1>1, <1>4, <2>1, <2>2, RequestsStep, ZenonT(60) DEF IInv, inputs
<1>12. Registry'
  <2>1. Cardinality(flights) \in Nat /\ IsFiniteSet(flights)
    BY FS_CardinalityType, ZenonT(60) DEF IInv, Registry
  <2>2. Cardinality(flights) + 1 <= OPEN_TOKEN_FLIGHT_CAPACITY
    BY <2>1, TokenAssumption DEF Lead, Saturated
  <2>3. IsFiniteSet(flights') /\ Cardinality(flights') = Cardinality(flights) + 1
    BY <1>1, <1>8, <2>1, FS_AddElement, ZenonT(60)
  <2>4. flights' = {g \in Flight : flight'[g].pc # "done"}
    <3>1. flights = {g \in Flight : flight[g].pc # "done"}
      BY Zenon DEF IInv, Registry
    <3> QED
      BY <1>1, <1>5, <1>6, <3>1
  <2>5. \A g \in flights : flight[g].key # w.key
    BY <1>5, ZenonT(60) DEF Lead, InFlight
  <2>6. \A f1, f2 \in flights' : flight'[f1].key = flight'[f2].key => f1 = f2
    <3>1. \A g \in flights : g \in Flight /\ flight'[g] = flight[g]
      BY <1>6, <1>8, Zenon DEF IInv, Registry
    <3>2. flight'[f] = w
      BY <1>6, Zenon
    <3>3. \A f1, f2 \in flights : flight[f1].key = flight[f2].key => f1 = f2
      BY ZenonT(60) DEF IInv, Registry
    <3> QED
      BY ONLY <1>1, <2>5, <3>1, <3>2, <3>3
  <2> QED
    BY <2>2, <2>3, <2>4, <2>6, ZenonT(60) DEF Registry
<1>13. Leading'
  <2>1. flight'[f].pc = "leader"
    BY <1>5, <1>6, Zenon
  <2>2. \A p \in Request : request[p].pc = "leader" => request[p].flight \in Flight /\ request[p].flight # f
    BY <1>8, Zenon DEF IInv, RequestsOK, Rides
  <2>3. \A p \in Request \ {r} : request'[p] = request[p]
    BY <1>7, Zenon
  <2>4. request'[r] = q
    BY <1>7, Zenon
  <2>5. \A p \in Request : request[p].pc = "leader" => flight'[request[p].flight].pc = "leader"
    BY <1>6, <2>2, ZenonT(60) DEF IInv, Leading
  <2>6. \A p1, p2 \in Request : request[p1].pc = "leader" /\ request[p2].pc = "leader"
          /\ request[p1].flight = request[p2].flight => p1 = p2
    BY Zenon DEF IInv, Leading
  <2> QED
    BY ONLY r \in Request, <1>5, <2>1, <2>2, <2>3, <2>4, <2>5, <2>6 DEF Leading
<1> QED
  BY <1>9, <1>10, <1>11, <1>12, <1>13, ZenonT(60) DEF IInv

------------------------------------------------------------------------------
(* The coordinators *)

\* Parse, Publish and Store.
LEMMA CoordinatorStep ==
  ASSUME IInv, NEW f \in Flight, (\E ok \in BOOLEAN : Parse(f, ok)) \/ Publish(f) \/ Store(f)
  PROVE  IInv'
<1> DEFINE k == flight[f].key
<1>0. flight[f].pc \in {"parse", "publish", "store"} /\ UNCHANGED <<inputs, flights, request>>
  BY ZenonT(60) DEF Parse, Publish, Store
<1>1. /\ KeyPast(k, epoch) /\ flight[f].outcome \in {Failed, StreamAt(k, contexts)}
      /\ flight[f].result \in Results /\ flight[f].result \subseteq {Failed, StreamAt(k, contexts)}
      /\ flight[f].waiters \in SUBSET Request
  BY <1>0, FlightHolds
<1>2. ASSUME NEW pc \in {"publish", "store", "land"}, NEW outcome \in {Failed, StreamAt(k, contexts)},
             NEW result \in Results, result \subseteq {Failed, StreamAt(k, contexts)},
             SetFlight(f, pc, outcome, result, flight[f].waiters), CacheOK'
      PROVE  IInv'
  <2> DEFINE w == Set(flight[f], pc, outcome, result, flight[f].waiters)
  <2>1. flight' = [flight EXCEPT ![f] = w]
    BY <1>2, Zenon DEF SetFlight, Set
  <2>2. pc \in FlightPc
    BY DEF FlightPc
  <2>3. w \in FlightState /\ FlightGood(w, epoch, contexts)
    BY <1>1, <1>2, <2>2, SetGood, ZenonT(60)
  <2>4. w.key = k /\ w.pc # "done" /\ flight[f].pc \notin {"done", "leader"}
    BY <1>0 DEF Set
  <2> HIDE DEF w
  <2> QED
    BY <1>0, <1>2, <2>1, <2>3, <2>4, FlightStep, ZenonT(60)
<1>3. UNCHANGED open_token_cache => CacheOK'
  BY <1>0, CacheSame, Zenon DEF IInv, inputs
<1>4. ASSUME NEW ok \in BOOLEAN, Parse(f, ok) PROVE IInv'
  <2>1. StreamOf(k) = StreamAt(k, contexts)
    BY <1>1, StreamType, ZenonT(60) DEF IInv
  <2>2. {} \in Results /\ {} \subseteq {Failed, StreamAt(k, contexts)}
    BY DEF Results
  <2> QED
    BY <1>2, <1>3, <1>4, <2>1, <2>2, ZenonT(60) DEF Parse
<1>5. CASE Publish(f)
  <2>1. CacheOK'
    <3>1. CASE UNCHANGED open_token_cache
      BY <1>3, <3>1
    <3>2. CASE Put(k, flight[f].outcome) /\ flight[f].outcome # Failed
      BY <1>0, <1>1, <3>2, PutCache, ZenonT(60) DEF IInv, inputs
    <3> QED
      BY <1>5, <3>1, <3>2, ZenonT(60) DEF Publish
  <2>2. After("publish") = "store"
    BY DEF After
  <2> QED
    BY <1>1, <1>2, <1>5, <2>1, <2>2, ZenonT(60) DEF Publish
<1>6. CASE Store(f)
  <2>1. After("store") = "land"
    BY ZenonT(60) DEF After
  <2>2. {flight[f].outcome} \in Results
    BY <1>1, StreamType DEF IInv, Results
  <2> QED
    BY <1>1, <1>2, <1>3, <1>6, <2>1, <2>2, ZenonT(60) DEF Store
<1> QED
  BY <1>4, <1>5, <1>6, ZenonT(60)

LEMMA LandStep ==
  ASSUME IInv, NEW f \in Flight, Land(f)
  PROVE  IInv'
<1> DEFINE w == Set(flight[f], "done", flight[f].outcome, flight[f].result, {})
<1>0. flight[f].pc = "land" /\ flights' = flights \ {f} /\ UNCHANGED <<inputs, open_token_cache, request>>
  BY ZenonT(60) DEF Land
<1>1. /\ KeyPast(flight[f].key, epoch)
      /\ flight[f].outcome \in {Failed, StreamAt(flight[f].key, contexts)}
      /\ flight[f].result \in Results
      /\ flight[f].result \subseteq {Failed, StreamAt(flight[f].key, contexts)}
  BY <1>0, FlightHolds
<1>2. After("land") = "done" /\ "done" \in FlightPc
  BY DEF After, FlightPc
<1>3. flight' = [flight EXCEPT ![f] = w]
  BY <1>2, Zenon DEF Land, SetFlight, Set
<1>4. w \in FlightState /\ FlightGood(w, epoch, contexts)
  BY <1>1, <1>2, SetGood, ZenonT(60)
<1>5. w.key = flight[f].key /\ w.pc = "done"
  BY DEF Set
<1> HIDE DEF w
<1>6. \A g \in Flight : flight'[g] = IF g = f THEN w ELSE flight[g]
  BY <1>3 DEF IInv, FlightsOK
<1>7. InputsOK' /\ CacheOK'
  BY <1>0, CacheSame, ZenonT(60) DEF IInv, inputs, InputsOK
<1>8. FlightsOK'
  BY <1>0, <1>3, <1>4, FlightsStep, ZenonT(60) DEF IInv, inputs
<1>9. RequestsOK'
  <2>1. HeldKeysKept
    BY <1>5, <1>6, ZenonT(60) DEF HeldKeysKept
  <2> QED
    BY <1>0, <2>1, RequestsSame, ZenonT(60) DEF IInv, inputs
<1>10. Registry'
  <2>1. IsFiniteSet(flights') /\ Cardinality(flights') <= Cardinality(flights)
    BY <1>0, FS_Subset, Zenon DEF IInv, Registry
  <2>2. Cardinality(flights) \in Nat /\ Cardinality(flights') \in Nat
    BY <2>1, FS_CardinalityType, ZenonT(60) DEF IInv, Registry
  <2>3. Cardinality(flights') <= OPEN_TOKEN_FLIGHT_CAPACITY
    BY <2>1, <2>2, TokenAssumption DEF IInv, Registry
  <2>4. flights' = {g \in Flight : flight'[g].pc # "done"}
    <3>1. flights = {g \in Flight : flight[g].pc # "done"}
      BY Zenon DEF IInv, Registry
    <3> QED
      BY ONLY f \in Flight, <1>0, <1>5, <1>6, <3>1, ZenonT(60)
  <2>5. \A g \in flights' : g \in flights /\ flight'[g] = flight[g]
    BY <1>0, <1>6, ZenonT(60) DEF IInv, Registry
  <2> QED
    <3>1. \A f1, f2 \in flights' : flight'[f1].key = flight'[f2].key => f1 = f2
      BY <2>5, ZenonT(60) DEF IInv, Registry
    <3> QED
      BY ONLY <2>1, <2>3, <2>4, <3>1, ZenonT(60) DEF Registry
<1>11. Leading'
  <2>1. \A p \in Request : request[p].pc = "leader" =>
          request[p].flight \in Flight /\ request[p].flight # f
    <3>1. \A p \in Request : request[p].pc = "leader" => flight[request[p].flight].pc = "leader"
      BY Zenon DEF IInv, Leading
    <3>2. \A p \in Request : request[p].pc = "leader" => request[p].flight \in Flight
      BY Zenon DEF IInv, RequestsOK, Rides
    <3> QED
      BY ONLY <1>0, <3>1, <3>2
  <2>2. \A p \in Request : request[p].pc = "leader" =>
          flight'[request[p].flight] = flight[request[p].flight]
    BY <1>6, <2>1, Zenon
  <2> QED
    BY <1>0, <2>2, ZenonT(60) DEF IInv, Leading
<1> QED
  BY <1>7, <1>8, <1>9, <1>10, <1>11, ZenonT(60) DEF IInv

------------------------------------------------------------------------------
(* Theorems *)

LEMMA NextIInv == IInv /\ [Next]_vars => IInv'
<1> SUFFICES ASSUME IInv, [Next]_vars PROVE IInv'
  OBVIOUS
<1>1. ASSUME NEW r \in Request, Capture(r) \/ Proceed(r) \/ Cancel(r) PROVE IInv'
  BY <1>1, CaptureStep, LookStep, WaitStep, DeliverStep, FinishStep, LeaderStep, RegisterStep,
     CancelStep, LeadStep, ZenonT(60) DEF Proceed
<1>2. ASSUME NEW f \in Flight, Coordinate(f) PROVE IInv'
  BY <1>2, CoordinatorStep, LandStep, ZenonT(60) DEF Coordinate
<1>3. CASE UNCHANGED vars
  <2>1. InputsOK'
    BY <1>3, Zenon DEF IInv, vars, inputs, InputsOK
  <2> QED
    BY <1>3, <2>1, InputStep, ZenonT(60) DEF vars, inputs
<1> QED
  BY <1>1, <1>2, <1>3, InputSteps, CommitStep, ZenonT(60) DEF Next

LEMMA AlwaysIInv == Spec => []IInv
<1> QED
  BY InitIInv, NextIInv, PTL DEF Spec

\* Every reachable state of the token requests is well formed; the request cache
\* never exceeds TOKEN_CACHE_CAPACITY, whatever the order of insertions.
THEOREM TokenTypes == Spec => []TypeOK
<1> QED
  BY AlwaysIInv, InvType, PTL

\* For any number of requests and flights, no two parsers of one key run at the
\* same time, even when the request that started a parse was cancelled.
THEOREM ParsesShared == Spec => []OneParser
<1>1. IInv => OneParser
  BY Zenon DEF IInv, Registry, OneParser, Running
<1> QED
  BY <1>1, AlwaysIInv, PTL

\* No more than OPEN_TOKEN_FLIGHT_CAPACITY parses run at the same time.
THEOREM PoolProtected == Spec => []ParsesBounded
<1>1. ASSUME IInv PROVE ParsesBounded
  <2>1. Running \subseteq flights
    BY <1>1 DEF IInv, Registry, Running
  <2>2. IsFiniteSet(flights) /\ Cardinality(flights) <= OPEN_TOKEN_FLIGHT_CAPACITY
    BY <1>1, Zenon DEF IInv, Registry
  <2>3. IsFiniteSet(Running) /\ Cardinality(Running) <= Cardinality(flights)
    BY <2>1, <2>2, FS_Subset, ZenonT(60)
  <2>4. Cardinality(Running) \in Nat /\ Cardinality(flights) \in Nat
    BY <2>2, <2>3, FS_CardinalityType
  <2> QED
    BY <2>2, <2>3, <2>4, TokenAssumption DEF ParsesBounded
<1> QED
  BY <1>1, AlwaysIInv, PTL

\* A request is answered with the stream of what it captured, or with the fallback,
\* whoever computed the stream and whatever was edited, reloaded or committed since.
THEOREM AnswersAreOwn == Spec => []AnswersMatchInputs
<1>1. ASSUME IInv PROVE AnswersMatchInputs
  <2> SUFFICES ASSUME NEW r \in Request, NEW a \in request[r].answer
               PROVE  \/ a = Fallback
                      \/ a = [text |-> request[r].key.text, defines |-> request[r].key.defines,
                              context |-> request[r].context]
    BY Zenon DEF AnswersMatchInputs
  <2>1. RequestGood(request[r], epoch, contexts)
    BY <1>1, Zenon DEF IInv, RequestsOK
  <2>2. /\ a \in {Fallback, StreamAt(request[r].key, contexts)}
        /\ request[r].context = contexts[request[r].key.epoch]
    BY <2>1, Zenon DEF RequestGood
  <2> QED
    BY ONLY <2>2, Zenon DEF StreamAt
<1> QED
  BY <1>1, AlwaysIInv, PTL
================================================================================
