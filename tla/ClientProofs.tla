---------------------------- MODULE ClientProofs -----------------------------
(***************************************************************************)
(* Proofs about what the language server knows of the client: the            *)
(* diagnostics it shows (ClientOrder), the file watchers registered with it  *)
(* (WatcherRegistration) and the token streams on its screen (TokenRefresh). *)
(* They hold for every number of documents, publishers, callers and          *)
(* watchers.                                                                 *)
(***************************************************************************)
EXTENDS ClientOrder, WatcherRegistration, TokenRefresh, TLAPS

------------------------------------------------------------------------------
(***************************************************************************)
(* ClientOrder shows the newest payloads and implements LatestWins.         *)
(*                                                                          *)
(* The invariant says where the newest payload of a document is: recorded as*)
(* sent, or still in the hands of the publisher that computed it (Newest);  *)
(* and that what is recorded as sent is what the client shows, except for   *)
(* the one document the holder of the gate has in transport (Transport).    *)
(***************************************************************************)

Pending(p) == publisher[p].rest \cup publisher[p].flight

\* Only the holder of the gate has a turn; a publisher that is not publishing
\* owes nothing.
GateTurns ==
  \A p \in Publisher :
    /\ publisher[p].pc = "turn" <=> publish_gate = p
    /\ publisher[p].flight # {} =>
         publisher[p].pc = "turn" /\ \E u \in Uri : publisher[p].flight = {u}
    /\ publisher[p].pc = "idle" => publisher[p].rest = {}

\* No ticket is larger than the last one, and no payload newer than the newest.
Tickets ==
  /\ \A u \in Uri : sent[u] <= computed[u] /\ computed[u] <= last_ticket
  /\ last_ticket <= MaxTicket
  /\ \A p \in Publisher :
       /\ publisher[p].ticket <= last_ticket
       /\ publisher[p].pc # "idle" => 0 < publisher[p].ticket
       /\ \A u \in Pending(p) : publisher[p].ticket <= computed[u]

\* The newest payload was admitted, or its publisher still has to ask.
Newest ==
  \A u \in Uri :
    \/ sent[u] = computed[u]
    \/ \E p \in Publisher : u \in publisher[p].rest /\ publisher[p].ticket = computed[u]

\* What was admitted is shown, or in transport.
Transport ==
  \A u \in Uri :
    /\ shown[u] <= sent[u]
    /\ \/ shown[u] = sent[u]
       \/ \E p \in Publisher : u \in publisher[p].flight
    /\ \A p \in Publisher : u \in publisher[p].flight => publisher[p].ticket = sent[u]

OrderInv == OrderTypeOK /\ GateTurns /\ Tickets /\ Newest /\ Transport

------------------------------------------------------------------------------
\* Every reachable state of the publication machinery satisfies the invariant
\* initially ...
LEMMA InitOrder == OrderInit => OrderInv
  <1> SUFFICES ASSUME OrderInit PROVE OrderInv
    OBVIOUS
  <1> USE PublisherAssumption DEF OrderInit
  <1>1. OrderTypeOK
    BY DEF OrderTypeOK, Publishing
  <1>2. GateTurns /\ Tickets
    BY DEF GateTurns, Tickets, Pending
  <1>3. Newest /\ Transport
    BY DEF Newest, Transport
  <1> QED
    BY <1>1, <1>2, <1>3 DEF OrderInv

\* ... and after every step: computing payloads, taking the gate, admitting,
\* sending and releasing.
LEMMA NextOrder == OrderInv /\ [OrderNext]_publishVars => OrderInv'
  <1> SUFFICES ASSUME OrderInv, [OrderNext]_publishVars PROVE OrderInv'
    OBVIOUS
  <1> USE PublisherAssumption DEF OrderInv, OrderTypeOK, Publishing
  <1>0. \A q \in Publisher : /\ publisher[q] \in Publishing
                             /\ publisher[q].ticket \in Nat
                             /\ Pending(q) \subseteq Uri
    BY DEF Pending
  <1>1. ASSUME NEW p \in Publisher, NEW uris \in SUBSET Uri, Compute(p, uris)
        PROVE  OrderInv'
    <2> DEFINE pc == IF uris = {} THEN "idle" ELSE "waiting"
    <2>1. /\ publisher[p].pc = "idle" /\ publisher[p].rest = {} /\ publisher[p].flight = {}
          /\ last_ticket < MaxTicket
          /\ last_ticket' = last_ticket + 1
          /\ computed' = [u \in Uri |-> IF u \in uris THEN last_ticket + 1 ELSE computed[u]]
          /\ UNCHANGED <<sent, publish_gate, shown>>
      BY <1>1 DEF Compute, ticket, GateTurns
    <2>2. \A q \in Publisher : q # p => publisher'[q] = publisher[q]
      BY <1>1 DEF Compute
    <2>3. /\ publisher'[p].pc = pc
          /\ publisher'[p].ticket = last_ticket + 1
          /\ publisher'[p].rest = uris
          /\ publisher'[p].flight = {}
      BY <1>0, <1>1, <2>1 DEF Compute, ticket
    <2>4. OrderTypeOK'
      <3>1. publisher' = [publisher EXCEPT ![p] =
                            [pc |-> pc, ticket |-> last_ticket + 1, rest |-> uris,
                             flight |-> {}]]
        BY <1>0, <1>1, <2>1 DEF Compute, ticket
      <3>2. [pc |-> pc, ticket |-> last_ticket + 1, rest |-> uris, flight |-> {}] \in Publishing
        OBVIOUS
      <3>3. publisher' \in [Publisher -> Publishing]
        BY <3>1, <3>2
      <3> QED
        BY <2>1, <3>3
    <2>5. GateTurns'
      BY <2>1, <2>2, <2>3 DEF GateTurns
    <2>6. Tickets'
      <3>1. /\ last_ticket' <= MaxTicket
            /\ \A u \in Uri : sent'[u] <= computed'[u] /\ computed'[u] <= last_ticket'
        BY <2>1 DEF Tickets
      <3>2. /\ publisher'[p].ticket <= last_ticket'
            /\ publisher'[p].pc # "idle" => 0 < publisher'[p].ticket
            /\ \A u \in Pending(p)' : publisher'[p].ticket <= computed'[u]
        BY <2>1, <2>3 DEF Pending
      <3>3. ASSUME NEW q \in Publisher, q # p
            PROVE  /\ publisher'[q].ticket <= last_ticket'
                   /\ publisher'[q].pc # "idle" => 0 < publisher'[q].ticket
                   /\ \A u \in Pending(q)' : publisher'[q].ticket <= computed'[u]
        BY <1>0, <2>1, <2>2, <3>3 DEF Tickets, Pending
      <3> QED
        BY <3>1, <3>2, <3>3 DEF Tickets
    <2>7. Newest'
      BY <2>1, <2>2, <2>3 DEF Newest
    <2>8. Transport'
      BY <2>1, <2>2, <2>3, SMTT(30) DEF Transport
    <2> QED
      BY <2>4, <2>5, <2>6, <2>7, <2>8
  <1>2. ASSUME NEW p \in Publisher, TakeGate(p) PROVE OrderInv'
    <2>1. /\ publisher[p].pc = "waiting" /\ publish_gate = Nobody /\ publish_gate' = p
          /\ UNCHANGED <<last_ticket, sent, computed, shown>>
      BY <1>2 DEF TakeGate, GateFree, orderVars
    <2>2. \A q \in Publisher : /\ publisher'[q].pc = IF q = p THEN "turn" ELSE publisher[q].pc
                               /\ publisher'[q].ticket = publisher[q].ticket
                               /\ publisher'[q].rest = publisher[q].rest
                               /\ publisher'[q].flight = publisher[q].flight
      BY <1>2 DEF TakeGate
    <2>3. OrderTypeOK'
      <3>1. publisher' \in [Publisher -> Publishing]
        BY <1>2 DEF TakeGate
      <3> QED
        BY <2>1, <3>1
    <2>4. GateTurns'
      BY <2>1, <2>2 DEF GateTurns
    <2>5. Tickets'
      BY <2>1, <2>2 DEF Tickets, Pending
    <2>6. Newest'
      BY <2>1, <2>2 DEF Newest
    <2>7. Transport'
      BY <2>1, <2>2 DEF Transport
    <2> QED
      BY <2>3, <2>4, <2>5, <2>6, <2>7
  <1>3. ASSUME NEW p \in Publisher, NEW u \in Uri, Admit(p, u) PROVE OrderInv'
    <2> DEFINE t == publisher[p].ticket
    <2>1. /\ publisher[p].pc = "turn" /\ publish_gate = p
          /\ publisher[p].flight = {} /\ u \in publisher[p].rest
          /\ UNCHANGED <<last_ticket, publish_gate, computed, shown>>
      BY <1>3 DEF Admit, GateTurns
    <2>2. \A q \in Publisher : /\ publisher'[q].pc = publisher[q].pc
                               /\ publisher'[q].ticket = publisher[q].ticket
                               /\ q # p => publisher'[q] = publisher[q]
      BY <1>3 DEF Admit
    <2>3. publisher'[p].rest = publisher[p].rest \ {u}
      BY <1>0, <1>3 DEF Admit
    <2>4. \A q \in Publisher : publisher[q].flight = {}
      BY <2>1 DEF GateTurns
    <2>5. t \in Nat /\ t <= computed[u]
      BY <1>0, <2>1 DEF Tickets, Pending
    <2>6. CASE Admits(u, t)
      <3>1. sent' = [sent EXCEPT ![u] = t] /\ publisher'[p].flight = {u}
        BY <1>0, <1>3, <2>6 DEF Admit
      <3>2. OrderTypeOK'
        BY <1>3, <2>1, <2>5, <2>6 DEF Admit
      <3>3. GateTurns'
        BY <2>1, <2>2, <2>3, <3>1 DEF GateTurns
      <3>4. Tickets'
        <4>1. \A q \in Publisher : Pending(q)' = Pending(q)
          BY <2>1, <2>2, <2>3, <3>1 DEF Pending
        <4> QED
          BY <2>1, <2>2, <2>5, <3>1, <4>1 DEF Tickets
      <3>5. Newest'
        <4> SUFFICES ASSUME NEW v \in Uri, sent'[v] # computed[v]
                     PROVE  \E q \in Publisher : /\ v \in publisher'[q].rest
                                                 /\ publisher'[q].ticket = computed[v]
          BY <2>1 DEF Newest
        <4>1. CASE v = u
          <5>1. sent[u] # computed[u]
            BY <2>5, <2>6, <3>1, <4>1 DEF Admits, Tickets
          <5>2. PICK q \in Publisher : u \in publisher[q].rest /\ publisher[q].ticket = computed[u]
            BY <5>1 DEF Newest
          <5>3. q # p
            BY <3>1, <4>1, <5>2
          <5> QED
            BY <2>2, <4>1, <5>2, <5>3
        <4>2. CASE v # u
          <5>1. PICK q \in Publisher : v \in publisher[q].rest /\ publisher[q].ticket = computed[v]
            BY <3>1, <4>2 DEF Newest
          <5> QED
            BY <2>2, <2>3, <4>2, <5>1
        <4> QED
          BY <4>1, <4>2
      <3>6. Transport'
        BY <2>1, <2>2, <2>4, <2>5, <2>6, <3>1 DEF Transport, Admits
      <3> QED
        BY <3>2, <3>3, <3>4, <3>5, <3>6
    <2>7. CASE ~Admits(u, t)
      <3>1. sent' = sent /\ publisher'[p].flight = {}
        BY <1>0, <1>3, <2>1, <2>7 DEF Admit
      <3>2. OrderTypeOK'
        BY <1>3, <2>1, <2>7, <3>1 DEF Admit
      <3>3. GateTurns'
        BY <2>1, <2>2, <2>3, <3>1 DEF GateTurns
      <3>4. Tickets'
        <4>1. \A q \in Publisher : Pending(q)' \subseteq Pending(q)
          BY <2>1, <2>2, <2>3, <3>1 DEF Pending
        <4> QED
          BY <2>1, <2>2, <3>1, <4>1 DEF Tickets
      <3>5. Newest'
        <4> SUFFICES ASSUME NEW v \in Uri, sent[v] # computed[v]
                     PROVE  \E q \in Publisher : /\ v \in publisher'[q].rest
                                                 /\ publisher'[q].ticket = computed[v]
          BY <2>1, <3>1 DEF Newest
        <4>1. PICK q \in Publisher : v \in publisher[q].rest /\ publisher[q].ticket = computed[v]
          BY DEF Newest
        <4>2. v = u => q # p
          BY <2>5, <2>7, <4>1 DEF Admits, Tickets
        <4> QED
          BY <2>2, <2>3, <4>1, <4>2
      <3>6. Transport'
        BY <2>1, <2>2, <2>4, <3>1 DEF Transport
      <3> QED
        BY <3>2, <3>3, <3>4, <3>5, <3>6
    <2> QED
      BY <2>6, <2>7
  <1>4. ASSUME NEW p \in Publisher, Send(p) PROVE OrderInv'
    <2>1. /\ publisher[p].flight # {} /\ publish_gate = p
          /\ shown' = [u \in Uri |-> IF u \in publisher[p].flight THEN publisher[p].ticket
                                     ELSE shown[u]]
          /\ UNCHANGED <<last_ticket, sent, publish_gate, computed>>
      BY <1>4 DEF Send, orderVars, GateTurns
    <2>2. \A q \in Publisher : /\ publisher'[q].pc = publisher[q].pc
                               /\ publisher'[q].ticket = publisher[q].ticket
                               /\ publisher'[q].rest = publisher[q].rest
                               /\ publisher'[q].flight = IF q = p THEN {} ELSE publisher[q].flight
      BY <1>4 DEF Send
    <2>3. OrderTypeOK'
      BY <1>0, <1>4, <2>1 DEF Send
    <2>4. GateTurns'
      BY <2>1, <2>2 DEF GateTurns
    <2>5. Tickets'
      <3>1. \A q \in Publisher : Pending(q)' \subseteq Pending(q)
        BY <2>2 DEF Pending
      <3> QED
        BY <2>1, <2>2, <3>1 DEF Tickets
    <2>6. Newest'
      BY <2>1, <2>2 DEF Newest
    <2>7. Transport'
      <3>1. \A q \in Publisher : q # p => publisher[q].flight = {}
        BY <2>1 DEF GateTurns
      <3> QED
        BY <1>0, <2>1, <2>2, <3>1 DEF Transport
    <2> QED
      BY <2>3, <2>4, <2>5, <2>6, <2>7
  <1>5. ASSUME NEW p \in Publisher, Done(p) PROVE OrderInv'
    <2>1. /\ publisher[p].pc = "turn" /\ publish_gate = p /\ publish_gate' = Nobody
          /\ publisher[p].rest = {} /\ publisher[p].flight = {}
          /\ UNCHANGED <<last_ticket, sent, computed, shown>>
      BY <1>5 DEF Done, orderVars, GateTurns
    <2>2. \A q \in Publisher : /\ publisher'[q].pc = IF q = p THEN "idle" ELSE publisher[q].pc
                               /\ publisher'[q].ticket = publisher[q].ticket
                               /\ publisher'[q].rest = publisher[q].rest
                               /\ publisher'[q].flight = publisher[q].flight
      BY <1>5 DEF Done
    <2>3. OrderTypeOK'
      BY <1>5, <2>1 DEF Done
    <2>4. GateTurns'
      BY <2>1, <2>2 DEF GateTurns
    <2>5. Tickets'
      BY <2>1, <2>2 DEF Tickets, Pending
    <2>6. Newest'
      BY <2>1, <2>2 DEF Newest
    <2>7. Transport'
      BY <2>1, <2>2 DEF Transport
    <2> QED
      BY <2>3, <2>4, <2>5, <2>6, <2>7
  <1>6. CASE UNCHANGED publishVars
    BY <1>6 DEF publishVars, orderVars, GateTurns, Tickets, Newest, Transport, Pending
  <1> QED
    BY <1>1, <1>2, <1>3, <1>4, <1>5, <1>6 DEF OrderNext, Publish

LEMMA AlwaysOrder == OrderSpec => []OrderInv
  BY InitOrder, NextOrder, PTL DEF OrderSpec

\* The state of the publication machinery stays well formed.
THEOREM OrderTypeCorrect == OrderSpec => []OrderTypeOK
  <1>1. OrderInv => OrderTypeOK
    BY DEF OrderInv
  <1> QED
    BY <1>1, AlwaysOrder, PTL

\* Once all publications have ended the client shows the newest payload of
\* every document.
THEOREM ClientIsCurrent == OrderSpec => []NewestShown
  <1>1. OrderInv => NewestShown
    <2> SUFFICES ASSUME OrderInv, \A p \in Publisher : publisher[p].pc = "idle"
                 PROVE  shown = computed
      BY DEF NewestShown
    <2>1. \A p \in Publisher : publisher[p].rest = {} /\ publisher[p].flight = {}
      BY DEF OrderInv, GateTurns
    <2>2. \A u \in Uri : sent[u] = computed[u] /\ shown[u] = sent[u]
      BY <2>1 DEF OrderInv, Newest, Transport
    <2> QED
      BY <2>2 DEF OrderInv, OrderTypeOK
  <1> QED
    BY <1>1, AlwaysOrder, PTL

\* No send replaces a newer payload at the client.
THEOREM ShownAdvances == OrderSpec => NeverBackwards
  <1>1. OrderInv /\ [OrderNext]_publishVars => [\A u \in Uri : shown[u] <= shown'[u]]_publishVars
    <2> SUFFICES ASSUME OrderInv, [OrderNext]_publishVars PROVE \A u \in Uri : shown[u] <= shown'[u]
      OBVIOUS
    <2>1. ASSUME NEW p \in Publisher, Send(p) PROVE \A u \in Uri : shown[u] <= shown'[u]
      BY <2>1 DEF OrderInv, OrderTypeOK, Publishing, Send, Transport
    <2>2. CASE UNCHANGED shown
      BY <2>2 DEF OrderInv, OrderTypeOK
    <2>3. UNCHANGED shown \/ \E p \in Publisher : Send(p)
      BY Zenon DEF OrderNext, Publish, Compute, TakeGate, Admit, Done, publishVars
    <2> QED
      BY <2>1, <2>2, <2>3
  <1> QED
    BY <1>1, AlwaysOrder, PTL DEF OrderSpec, NeverBackwards

\* send_in_ticket_order implements LatestWins: every step is a computation, the
\* delivery of a newer payload, or invisible.
THEOREM Implements == OrderSpec => ImplementsLatestWins
  <1>1. OrderInit => Abstract!Init
    BY DEF OrderInit, Abstract!Init
  <1>2. OrderInv /\ [OrderNext]_publishVars => [Abstract!Next]_(Abstract!vars)
    <2> SUFFICES ASSUME OrderInv, [OrderNext]_publishVars
                 PROVE  Abstract!Next \/ UNCHANGED <<computed, shown>>
      BY DEF Abstract!vars
    <2> USE PublisherAssumption DEF OrderInv, OrderTypeOK, Publishing
    <2>1. ASSUME NEW p \in Publisher, NEW uris \in SUBSET Uri, Compute(p, uris)
          PROVE  Abstract!Next
      <3>1. last_ticket < MaxTicket
        BY <2>1 DEF Compute
      <3>2. last_ticket + 1 \in 1..MaxTicket
        BY <3>1
      <3>3. /\ computed' = [u \in Uri |-> IF u \in uris THEN last_ticket + 1 ELSE computed[u]]
            /\ UNCHANGED shown
        BY <2>1 DEF Compute, ticket
      <3>4. \A u \in Uri : computed[u] < last_ticket + 1
        BY DEF Tickets
      <3>5. Abstract!Compute(uris, last_ticket + 1)
        BY <3>3, <3>4 DEF Abstract!Compute
      <3> QED
        BY <3>2, <3>5 DEF Abstract!Next
    <2>2. ASSUME NEW p \in Publisher, Send(p)
          PROVE  Abstract!Next \/ UNCHANGED <<computed, shown>>
      <3> DEFINE t == publisher[p].ticket
      <3>1. PICK u \in Uri : publisher[p].flight = {u}
        BY <2>2 DEF Send, GateTurns
      <3>2. shown' = [shown EXCEPT ![u] = t] /\ UNCHANGED computed
        BY <2>2, <3>1, Zenon DEF Send
      <3>3. shown[u] <= t
        BY <3>1 DEF Transport
      <3>4. t <= computed[u]
        BY <3>1 DEF Tickets, Pending
      <3>5. t \in Nat /\ 0 < t /\ t <= last_ticket
        BY <3>1 DEF GateTurns, Tickets
      <3>6. t \in 1..MaxTicket
        BY <3>5 DEF Tickets
      <3>7. CASE shown[u] = t
        BY <3>2, <3>7
      <3>8. CASE shown[u] # t
        <4>1. Abstract!Show(u, t)
          BY <3>2, <3>3, <3>4, <3>5, <3>8 DEF Abstract!Show
        <4> QED
          BY <3>6, <4>1 DEF Abstract!Next
      <3> QED
        BY <3>7, <3>8
    <2>3. \/ UNCHANGED <<computed, shown>>
          \/ \E p \in Publisher : Send(p) \/ \E uris \in SUBSET Uri : Compute(p, uris)
      BY Zenon DEF OrderNext, Publish, TakeGate, Admit, Done, publishVars
    <2> QED
      BY <2>1, <2>2, <2>3
  <1> QED
    BY <1>1, <1>2, AlwaysOrder, PTL DEF OrderSpec, ImplementsLatestWins, Abstract!Spec

------------------------------------------------------------------------------
(***************************************************************************)
(* WatcherRegistration.  A caller that exchanges the registration holds the *)
(* gate, and the digest announces what it is about to register.             *)
(***************************************************************************)

\* A caller is in the exchange with the client iff it holds the gate.
CallTurns ==
  \A c \in Caller : caller[c].pc \in {"unregister", "register"} <=> watcher_gate = c

\* What a caller is about to register is what the digest announces.
Announced ==
  \A c \in Caller : caller[c].pc = "register" =>
    registered_watchers_digest = {caller[c].options}

\* A wanted set that is not active has a call that will see it, or waits for the
\* retry of the next call.
Seen ==
  \/ changes = 0
  \/ \E c \in Caller : caller[c].pc = "waiting"
  \/ \E c \in Caller : caller[c].pc \in {"unregister", "register"} /\ caller[c].options = wanted_watchers
  \/ watcher_gate = NoCaller /\ (client_watchers = wanted_watchers \/ registered_watchers_digest = {})

WatchInv == WatchTypeOK /\ CallTurns /\ Announced /\ DigestHonest /\ Seen

LEMMA InitWatch == WatchInit => WatchInv
<1> SUFFICES ASSUME WatchInit PROVE WatchInv
  OBVIOUS
<1> USE CallerAssumption DEF WatchInit
<1>1. WatchTypeOK
  BY Zenon DEF WatchTypeOK, Call
<1>2. CallTurns /\ Announced
  BY DEF CallTurns, Announced
<1>3. DigestHonest /\ Seen
  BY DEF DigestHonest, Seen
<1> QED
  BY <1>1, <1>2, <1>3 DEF WatchInv

LEMMA NextWatchType == WatchTypeOK /\ [WatchNext]_watchVars => WatchTypeOK'
<1> SUFFICES ASSUME WatchTypeOK, [WatchNext]_watchVars PROVE WatchTypeOK'
  OBVIOUS
<1> USE CallerAssumption DEF WatchTypeOK, Call
<1>1. ASSUME NEW c \in Caller, NEW options \in SUBSET Watcher, Change(c, options) PROVE WatchTypeOK'
  <2>1. wanted_watchers' \subseteq Watcher /\ changes' \in Nat
    BY <1>1 DEF Change
  <2>2. caller' \in [Caller -> Call]
    BY <1>1 DEF Change
  <2> QED
    BY <1>1, <2>1, <2>2, Zenon DEF Change, stateVars
<1>2. ASSUME NEW c \in Caller, TakeTurn(c) PROVE WatchTypeOK'
  BY <1>2, Zenon DEF TakeTurn, stateVars
<1>3. ASSUME NEW c \in Caller, Skip(c) PROVE WatchTypeOK'
  <2>1. caller' \in [Caller -> Call]
    BY <1>3 DEF Skip
  <2> QED
    BY <1>3, <2>1, Zenon DEF Skip, stateVars
<1>4. ASSUME NEW c \in Caller, NEW ok \in BOOLEAN, Unregistered(c, ok) PROVE WatchTypeOK'
  <2>1. caller[c].options \subseteq Watcher
    OBVIOUS
  <2>2. caller' \in [Caller -> Call]
    BY <1>4, <2>1 DEF Unregistered
  <2>3. client_watchers' \subseteq Watcher /\ errors' \in Nat
    BY <1>4 DEF Unregistered
  <2>4. registered_watchers_digest' \in {{}} \cup {{o} : o \in SUBSET Watcher}
    BY <1>4, <2>1, Zenon DEF Unregistered
  <2> QED
    BY <1>4, <2>2, <2>3, <2>4, Zenon DEF Unregistered
<1>5. ASSUME NEW c \in Caller, NEW ok \in BOOLEAN, Registered(c, ok) PROVE WatchTypeOK'
  <2>1. caller[c].options \subseteq Watcher
    OBVIOUS
  <2>2. caller' \in [Caller -> Call]
    BY <1>5 DEF Registered
  <2>3. client_watchers' \subseteq Watcher /\ errors' \in Nat
    BY <1>5, <2>1 DEF Registered
  <2>4. registered_watchers_digest' \in {{}} \cup {{o} : o \in SUBSET Watcher}
    BY <1>5, Zenon DEF Registered, AfterError
  <2> QED
    BY <1>5, <2>2, <2>3, <2>4, Zenon DEF Registered, Release
<1>6. CASE UNCHANGED watchVars
  BY <1>6 DEF watchVars, stateVars
<1> QED
  BY <1>1, <1>2, <1>3, <1>4, <1>5, <1>6, Zenon DEF WatchNext, Step

LEMMA NextWatch == WatchInv /\ [WatchNext]_watchVars => WatchInv'
<1> SUFFICES ASSUME WatchInv, [WatchNext]_watchVars PROVE WatchInv'
  OBVIOUS
<1>t. WatchTypeOK'
  BY NextWatchType DEF WatchInv
<1> USE CallerAssumption
<1>1. ASSUME NEW c \in Caller, NEW options \in SUBSET Watcher, Change(c, options)
      PROVE (CallTurns /\ Announced /\ DigestHonest /\ Seen)'
  <2> USE <1>1 DEF Change, stateVars, WatchInv, WatchTypeOK, Call
  <2>1. CallTurns'
    BY DEF CallTurns
  <2>2. Announced'
    BY DEF Announced
  <2>3. DigestHonest' /\ Seen'
    BY DEF DigestHonest, Seen
  <2> QED
    BY <2>1, <2>2, <2>3
<1>2. ASSUME NEW c \in Caller, TakeTurn(c)
      PROVE (CallTurns /\ Announced /\ DigestHonest /\ Seen)'
  <2> USE <1>2 DEF TakeTurn, WatchGateFree, stateVars, WatchInv, WatchTypeOK, Call
  <2>1. CallTurns'
    BY DEF CallTurns
  <2>2. Announced'
    BY DEF Announced, CallTurns
  <2>3. DigestHonest'
    BY DEF DigestHonest
  <2>4. Seen'
    BY DEF Seen
  <2> QED
    BY <2>1, <2>2, <2>3, <2>4
<1>3. ASSUME NEW c \in Caller, Skip(c)
      PROVE (CallTurns /\ Announced /\ DigestHonest /\ Seen)'
  <2> USE <1>3 DEF Skip, WatchGateFree, Unchanged, stateVars, WatchInv, WatchTypeOK, Call
  <2>1. CallTurns'
    BY DEF CallTurns
  <2>2. Announced'
    BY Zenon DEF Announced
  <2>3. client_watchers = wanted_watchers
    BY DEF DigestHonest
  <2>4. DigestHonest' /\ Seen'
    BY <2>3 DEF DigestHonest, Seen
  <2> QED
    BY <2>1, <2>2, <2>4
<1>4. ASSUME NEW c \in Caller, NEW ok \in BOOLEAN, Unregistered(c, ok)
      PROVE (CallTurns /\ Announced /\ DigestHonest /\ Seen)'
  <2> USE <1>4 DEF Unregistered, stateVars, WatchInv, WatchTypeOK, Call
  <2>1. watcher_gate = c
    BY DEF CallTurns
  <2>2. CallTurns'
    BY DEF CallTurns
  <2>3. Announced'
    BY <2>1 DEF Announced, CallTurns
  <2>4. DigestHonest'
    BY <2>1 DEF DigestHonest
  <2>5. Seen'
    BY <2>1 DEF Seen
  <2> QED
    BY <2>2, <2>3, <2>4, <2>5
<1>5. ASSUME NEW c \in Caller, NEW ok \in BOOLEAN, Registered(c, ok)
      PROVE (CallTurns /\ Announced /\ DigestHonest /\ Seen)'
  <2> USE <1>5 DEF Registered, AfterError, Release, stateVars, WatchInv, WatchTypeOK, Call
  <2>1. watcher_gate = c /\ registered_watchers_digest = {caller[c].options}
    BY DEF CallTurns, Announced
  <2>2. CallTurns'
    BY <2>1 DEF CallTurns
  <2>3. Announced'
    BY <2>1, <2>2 DEF Announced, CallTurns
  <2>4. DigestHonest'
    BY <2>1 DEF DigestHonest
  <2>5. \A d \in Caller : caller[d].pc \in {"unregister", "register"} => d = c
    BY <2>1 DEF CallTurns
  <2>6. Seen'
    BY <2>1, <2>5 DEF Seen
  <2> QED
    BY <2>2, <2>3, <2>4, <2>6
<1>6. CASE UNCHANGED watchVars
  <2> USE <1>6 DEF watchVars, stateVars, WatchInv
  <2>1. CallTurns'
    BY DEF CallTurns
  <2>2. Announced'
    BY DEF Announced
  <2>3. DigestHonest' /\ Seen'
    BY DEF DigestHonest, Seen
  <2> QED
    BY <1>t, <2>1, <2>2, <2>3
<1> QED
  BY <1>t, <1>1, <1>2, <1>3, <1>4, <1>5, <1>6 DEF WatchNext, Step, WatchInv

LEMMA AlwaysWatch == WatchSpec => []WatchInv
  BY InitWatch, NextWatch, PTL DEF WatchSpec

\* Every reachable state of watcher registration is well formed.
THEOREM WatchTypeCorrect == WatchSpec => []WatchTypeOK
<1>1. WatchInv => WatchTypeOK
  BY DEF WatchInv
<1> QED
  BY <1>1, AlwaysWatch, PTL

\* Between turns of register_watchers_with the recorded digest is that of the
\* watchers active at the client, whichever requests failed.
THEOREM DigestIsActive == WatchSpec => []DigestHonest
<1>1. WatchInv => DigestHonest
  BY DEF WatchInv
<1> QED
  BY <1>1, AlwaysWatch, PTL

\* When all calls have ended the client watches what is wanted, or the digest was
\* dropped after a failure: no overlapping call registers an older set last.
THEOREM WatchesNewest == WatchSpec => []NothingUnwatched
<1>1. WatchInv => NothingUnwatched
  BY CallerAssumption DEF WatchInv, Seen, NothingUnwatched
<1> QED
  BY <1>1, AlwaysWatch, PTL

------------------------------------------------------------------------------
(***************************************************************************)
(* TokenRefresh.  A stream captured since the last commit is recorded in    *)
(* served_tokens, so the commit that changes its inputs asks for a refresh; *)
(* one captured before has the current inputs, or a reload or a refresh is to*)
(* come.  A stream of the snapshot stays recorded until a refresh.          *)
(***************************************************************************)

\* What the client shows of d, or will show.
Latest(d) == IF pending[d] # {} THEN pending[d] ELSE on_screen[d]

\* What holds of a stream s after n commits, where sv is recorded, cur and id are the
\* inputs and the snapshot of the root, and rf and du tell of a refresh and a reload.
StreamGood(s, n, sv, cur, id, rf, du) ==
  /\ s.since \in Nat /\ s.since <= n
  /\ s.isolated /\ s.since = n => sv.mixed \/ s.inputs \in sv.isolated
  /\ s.isolated /\ s.since + 1 >= n => s.inputs = cur \/ du \/ rf
  /\ ~s.isolated => rf \/ (s.snapshot = id /\ sv.snapshot)

RefreshInv ==
  /\ commits \in Nat
  /\ DOMAIN pending = Doc /\ DOMAIN on_screen = Doc
  /\ \A d \in Doc : \A s \in Latest(d) :
       StreamGood(s, commits, served, CurrentInputs, snapshot_id, refresh, due)

LEMMA InitRefresh == RefreshInit => RefreshInv
<1> QED
  BY DEF RefreshInit, RefreshInv, Latest

\* A record to which more is added still covers a stream.
Covers(sw, sv) ==
  /\ sv.mixed => sw.mixed
  /\ sv.isolated \subseteq sw.isolated
  /\ sv.snapshot => sw.snapshot

LEMMA RecordKept ==
  ASSUME NEW s, NEW n, NEW sv, NEW sw, NEW cur, NEW id, NEW rf, NEW du,
         StreamGood(s, n, sv, cur, id, rf, du), Covers(sw, sv)
  PROVE  StreamGood(s, n, sw, cur, id, rf, du)
<1> QED
  BY ZenonT(60) DEF StreamGood, Covers

LEMMA IsolatedRecorded ==
  ASSUME NEW i
  PROVE  LET sw == record_isolated(i)
         IN Covers(sw, served) /\ (sw.mixed \/ i \in sw.isolated)
<1>1. CASE served.isolated = {}
  BY <1>1 DEF record_isolated, Covers
<1>2. CASE served.isolated # {}
  BY <1>2, ZenonT(60) DEF record_isolated, Covers
<1> QED
  BY <1>1, <1>2

LEMMA CapturedGood ==
  ASSUME commits \in Nat, NEW o \in BOOLEAN, NEW sw, NEW rf, NEW du,
         o => sw.mixed \/ CurrentInputs \in sw.isolated, ~o => sw.snapshot
  PROVE  StreamGood([isolated |-> o, inputs |-> CurrentInputs, snapshot |-> snapshot_id,
                     since |-> commits],
                    commits, sw, CurrentInputs, snapshot_id, rf, du)
<1> QED
  BY DEF StreamGood

LEMMA AskStep ==
  ASSUME RefreshInv, NEW d \in Doc, NEW isOpen \in BOOLEAN, Ask(d, isOpen)
  PROVE  RefreshInv'
<1>1. /\ UNCHANGED <<defines, context, snapshot_id, due, commits, refresh, on_screen>>
      /\ pending' = Captured({d}, IF isOpen THEN {d} ELSE {})
      /\ served' = IF isOpen THEN record_isolated(CurrentInputs) ELSE record_snapshot
  BY ZenonT(60) DEF Ask
<1>2. /\ Covers(served', served)
      /\ isOpen => served'.mixed \/ CurrentInputs \in served'.isolated
      /\ ~isOpen => served'.snapshot
  BY <1>1, IsolatedRecorded DEF record_snapshot, Covers
<1> DEFINE new == [isolated |-> isOpen, inputs |-> CurrentInputs, snapshot |-> snapshot_id,
                   since |-> commits]
<1>3. DOMAIN pending' = Doc /\ pending'[d] = {new} /\ \A e \in Doc \ {d} : pending'[e] = pending[e]
  BY <1>1 DEF Captured
<1>4. CurrentInputs' = CurrentInputs
  BY <1>1, Zenon DEF CurrentInputs
<1>5. StreamGood(new, commits, served', CurrentInputs, snapshot_id, refresh, due)
  BY <1>2, CapturedGood, ZenonT(60) DEF RefreshInv
<1> HIDE DEF new
<1>6. ASSUME NEW e \in Doc, NEW s \in Latest(e)'
      PROVE  StreamGood(s, commits, served', CurrentInputs, snapshot_id, refresh, due)
  <2>1. CASE e = d
    BY <1>3, <1>5, <1>6, <2>1 DEF Latest
  <2>2. CASE e # d
    <3>1. s \in Latest(e)
      BY <1>1, <1>3, <1>6, <2>2, ZenonT(60) DEF Latest
    <3> QED
      BY <1>2, <3>1, RecordKept, ZenonT(60) DEF RefreshInv
  <2> QED
    BY <2>1, <2>2
<1> QED
  BY <1>1, <1>3, <1>4, <1>6, ZenonT(60) DEF RefreshInv

LEMMA ShowStep ==
  ASSUME RefreshInv, NEW d \in Doc, Show(d)
  PROVE  RefreshInv'
<1>1. /\ UNCHANGED <<defines, context, snapshot_id, served, due, commits, refresh>>
      /\ on_screen' = [on_screen EXCEPT ![d] = pending[d]] /\ pending' = [pending EXCEPT ![d] = {}]
      /\ pending[d] # {}
  BY Zenon DEF Show, root
<1>2. /\ DOMAIN pending' = Doc /\ DOMAIN on_screen' = Doc
      /\ pending'[d] = {} /\ on_screen'[d] = pending[d]
      /\ \A e \in Doc \ {d} : pending'[e] = pending[e] /\ on_screen'[e] = on_screen[e]
  BY <1>1 DEF RefreshInv
<1>3. \A e \in Doc : Latest(e)' = Latest(e)
  BY <1>1, <1>2 DEF Latest
<1>4. CurrentInputs' = CurrentInputs
  BY <1>1, Zenon DEF CurrentInputs
<1> QED
  BY <1>1, <1>2, <1>3, <1>4, ZenonT(60) DEF RefreshInv

LEMMA ReloadStep ==
  ASSUME RefreshInv, NEW d \in Defines, Reload(d)
  PROVE  RefreshInv'
<1>1. UNCHANGED <<snapshot_id, served, commits, refresh, pending, on_screen>> /\ due' = TRUE
  BY Zenon DEF Reload, screenVars
<1>2. \A e \in Doc : Latest(e)' = Latest(e)
  BY <1>1, Zenon DEF Latest
<1>3. \A e \in Doc : \A s \in Latest(e) :
        StreamGood(s, commits, served, CurrentInputs', snapshot_id, refresh, TRUE)
  BY Zenon DEF RefreshInv, StreamGood
<1> QED
  BY <1>1, <1>2, <1>3, Zenon DEF RefreshInv

LEMMA CommitTokens ==
  ASSUME RefreshInv, NEW replaced \in BOOLEAN, NEW c, CommitInputs(replaced, c)
  PROVE  RefreshInv'
<1> DEFINE new == [defines |-> defines, context |-> c]
           refreshes == take_refresh(replaced, new)
<1>1. /\ commits' = commits + 1 /\ snapshot_id' = Epoch(replaced)
      /\ served' = Settled(refreshes) /\ refresh' = (refresh \/ refreshes)
      /\ UNCHANGED <<pending, on_screen>>
  BY Zenon DEF CommitInputs
<1>2. CurrentInputs' = new
  BY Zenon DEF CommitInputs, CurrentInputs
<1>3. \A e \in Doc : Latest(e)' = Latest(e)
  BY <1>1, ZenonT(60) DEF Latest
<1>4. commits' \in Nat
  BY <1>1 DEF RefreshInv
<1>5. served'.snapshot = (served.snapshot /\ ~refreshes)
  BY <1>1 DEF Settled, NothingServed
<1>6. /\ ~refreshes /\ served.snapshot => ~replaced
      /\ ~refreshes => ~served.mixed /\ \A i \in served.isolated : i = new
  BY Zenon DEF take_refresh, isolated_changed
<1> HIDE DEF new, refreshes
<1>7. ASSUME NEW e \in Doc, NEW s \in Latest(e)
      PROVE  StreamGood(s, commits', served', new, snapshot_id', refresh', due')
  <2>1. StreamGood(s, commits, served, CurrentInputs, snapshot_id, refresh, due)
    BY ZenonT(60) DEF RefreshInv
  <2>2. s.since \in Nat /\ s.since <= commits' /\ s.since # commits'
    BY <1>1, <2>1 DEF StreamGood, RefreshInv
  <2>3. s.isolated /\ s.since + 1 >= commits' => s.inputs = new \/ refresh'
    <3>1. s.since + 1 >= commits' => s.since = commits
      BY <1>1, <2>1 DEF StreamGood, RefreshInv
    <3> QED
      BY <1>1, <1>6, <2>1, <3>1, ZenonT(60) DEF StreamGood
  <2>4. ~s.isolated => refresh' \/ (s.snapshot = snapshot_id' /\ served'.snapshot)
    <3>1. ~replaced => snapshot_id' = snapshot_id
      BY <1>1, Zenon DEF Epoch
    <3> QED
      BY <1>1, <1>5, <1>6, <2>1, <3>1, ZenonT(60) DEF StreamGood
  <2> QED
    BY <2>2, <2>3, <2>4, ZenonT(60) DEF StreamGood
<1> QED
  BY <1>1, <1>2, <1>3, <1>4, <1>7, ZenonT(60) DEF RefreshInv

LEMMA RefreshStep ==
  ASSUME RefreshInv, Refresh
  PROVE  RefreshInv'
<1> DEFINE ds == {d \in Doc : Latest(d) # {}}
           opened == {d \in ds : \A s \in Latest(d) : s.isolated}
           recorded == IF opened = {} THEN served ELSE record_isolated(CurrentInputs)
<1>1. /\ pending' = Captured(ds, opened)
      /\ served' = [snapshot |-> served.snapshot \/ opened # ds,
                    isolated |-> recorded.isolated, mixed |-> recorded.mixed]
      /\ UNCHANGED <<defines, context, snapshot_id, due, commits, on_screen>>
  BY Zenon DEF Refresh, Latest
<1>2. /\ opened # {} => served'.mixed \/ CurrentInputs \in served'.isolated
      /\ opened # ds => served'.snapshot
  <2> HIDE DEF ds, opened
  <2>1. opened # {} => recorded.mixed \/ CurrentInputs \in recorded.isolated
    BY IsolatedRecorded, Zenon
  <2> HIDE DEF recorded
  <2> QED
    BY <1>1, <2>1, ZenonT(60)
<1>3. CurrentInputs' = CurrentInputs
  BY <1>1, Zenon DEF CurrentInputs
<1>4. opened \subseteq ds /\ ds \subseteq Doc /\ \A d \in Doc : Latest(d) = {} <=> d \notin ds
  BY ZenonT(60)
<1> HIDE DEF ds, opened, recorded
<1>5. /\ DOMAIN pending' = Doc
      /\ \A d \in ds : pending'[d] = {[isolated |-> d \in opened, inputs |-> CurrentInputs,
                                       snapshot |-> snapshot_id, since |-> commits]}
      /\ \A d \in Doc \ ds : pending'[d] = pending[d]
  BY <1>1, <1>4 DEF Captured
<1>6. ASSUME NEW d \in Doc, NEW s \in Latest(d)'
      PROVE  StreamGood(s, commits, served', CurrentInputs, snapshot_id, refresh', due)
  <2>1. CASE d \in ds
    <3>1. s = [isolated |-> d \in opened, inputs |-> CurrentInputs, snapshot |-> snapshot_id,
               since |-> commits]
      BY <1>5, <1>6, <2>1, ZenonT(60) DEF Latest
    <3>2. (d \in opened => opened # {}) /\ (d \notin opened => opened # ds)
      BY <2>1
    <3>3. (d \in opened) \in BOOLEAN
      OBVIOUS
    <3> QED
      BY <1>2, <3>1, <3>2, <3>3, CapturedGood, ZenonT(60) DEF RefreshInv
  <2>2. CASE d \notin ds
    <3>1. Latest(d)' = Latest(d)
      BY <1>1, <1>5, <2>2, ZenonT(60) DEF Latest
    <3> QED
      BY <1>4, <1>6, <2>2, <3>1, ZenonT(60)
  <2> QED
    BY <2>1, <2>2
<1> QED
  BY <1>1, <1>3, <1>5, <1>6, ZenonT(60) DEF RefreshInv

LEMMA NextRefresh == RefreshInv /\ [RefreshNext]_refreshVars => RefreshInv'
<1> SUFFICES ASSUME RefreshInv, [RefreshNext]_refreshVars PROVE RefreshInv'
  OBVIOUS
<1>1. CASE UNCHANGED refreshVars
  <2>1. /\ UNCHANGED <<commits, served, snapshot_id, refresh, due, pending, on_screen>>
        /\ CurrentInputs' = CurrentInputs
    BY <1>1, ZenonT(60) DEF refreshVars, root, screenVars, CurrentInputs
  <2> QED
    BY <2>1, ZenonT(60) DEF RefreshInv, Latest
<1> QED
  BY <1>1, AskStep, ShowStep, ReloadStep, CommitTokens, RefreshStep, ZenonT(60) DEF RefreshNext

LEMMA AlwaysRefresh == RefreshSpec => []RefreshInv
<1> QED
  BY InitRefresh, NextRefresh, PTL DEF RefreshSpec

\* For any documents, defines and contexts: once all is quiet, the stream on screen of
\* an open buffer captured after the last commit but one is that of the current inputs.
THEOREM RefreshReachesOpen == RefreshSpec => []FreshSinceCommit
<1>1. RefreshInv => FreshSinceCommit
  BY ZenonT(60) DEF RefreshInv, Latest, StreamGood, FreshSinceCommit, Quiet
<1> QED
  BY <1>1, AlwaysRefresh, PTL

\* Once all is quiet, a stream of the snapshot on screen is that of the current
\* snapshot, however many commits kept it.
THEOREM RefreshReachesSnapshot == RefreshSpec => []SnapshotShown
<1>1. RefreshInv => SnapshotShown
  BY Zenon DEF RefreshInv, Latest, StreamGood, SnapshotShown, Quiet
<1> QED
  BY <1>1, AlwaysRefresh, PTL
==============================================================================
