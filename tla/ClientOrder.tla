----------------------------- MODULE ClientOrder -----------------------------
(***************************************************************************)
(* How diagnostics reach the client.  Payloads are computed under the state  *)
(* lock, where they take a ticket (commit_job, did_open and                   *)
(* publish_config_diagnostics), and are sent later by the task that computed  *)
(* them (send_in_ticket_order): it waits for publish_gate and then, document  *)
(* by document, asks ClientOrder::admit under the state lock and awaits the   *)
(* transport with the gate held and the state lock released.                  *)
(*                                                                          *)
(* A payload is represented by its ticket.                                   *)
(***************************************************************************)
EXTENDS Naturals

CONSTANTS
  Uri,         \* documents
  Publisher,   \* tasks and handlers that publish
  Nobody,      \* not a publisher
  MaxTicket    \* bound on the payload sets computed

ASSUME PublisherAssumption ==
  /\ Nobody \notin Publisher
  /\ MaxTicket \in Nat

VARIABLES
  last_ticket,   \* ClientOrder.last_ticket
  sent,          \* ClientOrder.sent (0: no entry)
  publish_gate,  \* holder of the gate, or Nobody
  publisher,     \* the tasks
  computed,      \* ticket of the newest payload computed per document (history)
  shown          \* ticket of the payload the client shows

orderVars == <<last_ticket, sent>>
publishVars == <<orderVars, publish_gate, publisher, computed, shown>>

\* A publisher: the documents it still has to send, and the one in transport
\* (in a set of at most one).
Publishing == [pc : {"idle", "waiting", "turn"}, ticket : Nat,
               rest : SUBSET Uri, flight : SUBSET Uri]

OrderInit ==
  /\ last_ticket = 0
  /\ sent = [u \in Uri |-> 0]
  /\ publish_gate = Nobody
  /\ publisher = [p \in Publisher |->
                    [pc |-> "idle", ticket |-> 0, rest |-> {}, flight |-> {}]]
  /\ computed = [u \in Uri |-> 0]
  /\ shown = [u \in Uri |-> 0]

\* ClientOrder::ticket.
ticket == last_ticket + 1

\* Under the state lock: compute payloads for uris and take a ticket.  Nothing
\* is sent for an empty set, and the ticket is spent.
Compute(p, uris) ==
  /\ publisher[p].pc = "idle"
  /\ last_ticket < MaxTicket
  /\ last_ticket' = ticket
  /\ computed' = [u \in Uri |-> IF u \in uris THEN ticket ELSE computed[u]]
  /\ publisher' = [publisher EXCEPT ![p] = [pc |-> IF uris = {} THEN "idle" ELSE "waiting",
                                            ticket |-> ticket, rest |-> uris, flight |-> {}]]
  /\ UNCHANGED <<sent, publish_gate, shown>>

\* Variant: the gate is not waited for.
GateFree_Always == TRUE

GateFree == publish_gate = Nobody

\* publish_gate.lock().await
TakeGate(p) ==
  /\ publisher[p].pc = "waiting"
  /\ GateFree
  /\ publish_gate' = p
  /\ publisher' = [publisher EXCEPT ![p].pc = "turn"]
  /\ UNCHANGED <<orderVars, computed, shown>>

\* Variant: only the first payload of a document is sent.
Admits_Once(u, t) == sent[u] = 0

\* The answer of ClientOrder::admit.
Admits(u, t) == sent[u] <= t

\* The next document of the loop: admitted and handed to the transport, or
\* superseded and skipped.
Admit(p, u) ==
  LET t == publisher[p].ticket IN
  /\ publisher[p].pc = "turn"
  /\ publisher[p].flight = {}
  /\ u \in publisher[p].rest
  /\ IF Admits(u, t)
     THEN /\ sent' = [sent EXCEPT ![u] = t]
          /\ publisher' = [publisher EXCEPT ![p].flight = {u}, ![p].rest = @ \ {u}]
     ELSE /\ publisher' = [publisher EXCEPT ![p].rest = @ \ {u}]
          /\ UNCHANGED sent
  /\ UNCHANGED <<last_ticket, publish_gate, computed, shown>>

\* The transport took the payload.
Send(p) ==
  /\ publisher[p].flight # {}
  /\ shown' = [u \in Uri |-> IF u \in publisher[p].flight THEN publisher[p].ticket
                             ELSE shown[u]]
  /\ publisher' = [publisher EXCEPT ![p].flight = {}]
  /\ UNCHANGED <<orderVars, publish_gate, computed>>

\* Variant: the gate is left locked.
Done_KeepsGate(p) ==
  /\ publisher[p].pc = "turn"
  /\ publisher[p].rest = {} /\ publisher[p].flight = {}
  /\ publisher' = [publisher EXCEPT ![p].pc = "idle"]
  /\ UNCHANGED <<orderVars, publish_gate, computed, shown>>

\* The loop is over: the guard of the gate is dropped.
Done(p) ==
  /\ publisher[p].pc = "turn"
  /\ publisher[p].rest = {} /\ publisher[p].flight = {}
  /\ publish_gate' = Nobody
  /\ publisher' = [publisher EXCEPT ![p].pc = "idle"]
  /\ UNCHANGED <<orderVars, computed, shown>>

Publish(p) ==
  \/ TakeGate(p)
  \/ \E u \in Uri : Admit(p, u)
  \/ Send(p)
  \/ Done(p)

OrderNext ==
  \E p \in Publisher : \/ \E uris \in SUBSET Uri : Compute(p, uris)
                       \/ Publish(p)

OrderSpec == OrderInit /\ [][OrderNext]_publishVars

\* A started publication is polled to its end.
OrderFairness == \A p \in Publisher : WF_publishVars(Publish(p))

OrderFairSpec == OrderSpec /\ OrderFairness

------------------------------------------------------------------------------
(* Properties *)

\* Every variable is well formed, and the gate's holder is a publisher.
OrderTypeOK ==
  /\ last_ticket \in Nat
  /\ sent \in [Uri -> Nat]
  /\ publish_gate \in Publisher \cup {Nobody}
  /\ publisher \in [Publisher -> Publishing]
  /\ computed \in [Uri -> Nat]
  /\ shown \in [Uri -> Nat]

\* When every publication has ended the client shows the newest payload of each
\* document: whatever order the senders ran in, digest suppression compares
\* against what the client really shows (ClientOrder's promise).
NewestShown ==
  (\A p \in Publisher : publisher[p].pc = "idle") => shown = computed

\* The client never goes back to an older payload, although senders overtake
\* each other between the state lock and the transport.
NeverBackwards == [][\A u \in Uri : shown[u] <= shown'[u]]_publishVars

\* The ordered publication implements LatestWins.
Abstract == INSTANCE LatestWins WITH Number <- 1..MaxTicket

ImplementsLatestWins == Abstract!Spec

\* A computed payload is shown, or a newer one is.
ReachesClient ==
  \A u \in Uri, n \in 1..MaxTicket : computed[u] = n ~> shown[u] >= n
==============================================================================
