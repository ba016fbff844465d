-------------------------------- MODULE Metrics --------------------------------
(***************************************************************************)
(* What the API gateway and the order matching engine count, and what the   *)
(* Prometheus exporter shows of it: REST threads of the gateway, each of    *)
(* which makes a blocking call to the engine, the handler of that call with *)
(* its relaxed counters, and MetricsHttpServer, which serves one scrape     *)
(* after the other on a thread of its own while the handlers go on.         *)
(*                                                                         *)
(* A connection may break and the engine may crash and start again.  What a *)
(* handler does besides counting is in OrderService; here it gives one of   *)
(* the outcomes it can have.  (GetOrderBook has none, only its requests are *)
(* counted, and it is left out.)  The gateway is the engine's only client   *)
(* and does not restart: its counters are those of one life of it.          *)
(***************************************************************************)
EXTENDS Integers, Sequences, FiniteSets, SequencesExt

CONSTANTS Threads,      \* the calls under way at a time: a REST thread and its handler
          Scrapers,     \* the clients of MetricsHttpServer
          Operations,   \* the operations clients use: submit, cancel, modify
          MaxRequests,  \* bound: REST requests
          MaxCrashes    \* bound: crashes of the engine

ASSUME ThreadsAssumption == IsFiniteSet(Threads)
ASSUME OperationsAssumption == Operations \subseteq {"submit", "cancel", "modify"}
ASSUME BoundsAssumption == MaxRequests \in Nat /\ MaxCrashes \in Nat

VARIABLES counters,   \* the metrics_* of the engine: <<operation, what>> -> how many
          gateway,    \* operation -> what the gateway counted
          pc,         \* thread -> where its call is
          call,       \* thread -> [op, outcome] of its call
          broken,     \* the threads whose call failed while the engine serves it
          earlier,    \* history: operation -> the successes counted in earlier lives
          crashes,
          backlog,    \* the connections of scrapers, the first of them being served
          sent,       \* the scrapers whose request can be read
          serving,    \* where MetricsHttpServer is
          snapshot    \* the values CollectMetricsSnapshot has loaded

calls == <<pc, call, broken>>
exporter == <<backlog, sent, serving, snapshot>>
vars == <<counters, gateway, calls, earlier, crashes, exporter>>

\* The outcome that changes the book, and the others.
Success(op) == IF op = "submit" THEN "accepted" ELSE "success"
Failure(op) == IF op = "submit" THEN "rejected" ELSE "not_found"
Outcomes(op) == {Success(op), Failure(op), "errors"}

\* The counters of an operation, and the order in which CollectMetricsSnapshot
\* loads those of the operations clients use.
CountersOf(op) ==
  IF op \in Operations
  THEN <<<<op, "requests">>, <<op, Success(op)>>, <<op, Failure(op)>>, <<op, "errors">>>>
  ELSE <<>>
Exported == CountersOf("submit") \o CountersOf("cancel") \o CountersOf("modify")

\* The counters of the operations clients use.
Counters == UNION {{op} \X ({"requests"} \cup Outcomes(op)) : op \in Operations}

Zero == [counter \in Counters |-> 0]
NoCall == [op |-> "none"]

Init ==
  /\ counters = Zero
  /\ gateway = [op \in Operations |-> [requests |-> 0, accepted |-> 0, refused |-> 0]]
  /\ pc = [t \in Threads |-> "idle"]
  /\ call = [t \in Threads |-> NoCall]
  /\ broken = {}
  /\ earlier = [op \in Operations |-> 0]
  /\ crashes = 0
  /\ backlog = <<>> /\ sent = {} /\ serving = "accept" /\ snapshot = <<>>

Goto(t, label) == pc' = [pc EXCEPT ![t] = label]
Return(t) == Goto(t, "idle") /\ call' = [call EXCEPT ![t] = NoCall] /\ broken' = broken \ {t}
Increment(op, what) == counters' = [counters EXCEPT ![<<op, what>>] = @ + 1]

-----------------------------------------------------------------------------
(* The gateway, and the handlers it calls *)

\* submitOrder, cancelOrder or modifyOrder of the gateway counts and calls.
Request(t, op) ==
  /\ pc[t] = "idle"
  /\ SumFunction([o \in Operations |-> gateway[o].requests]) < MaxRequests
  /\ gateway' = [gateway EXCEPT ![op].requests = @ + 1]
  /\ call' = [call EXCEPT ![t] = [op |-> op]]
  /\ Goto(t, "calling")
  /\ UNCHANGED <<counters, broken, earlier, crashes, exporter>>

\* Mutant: a request is counted when it comes and again when it is checked.
ReceiveTwice(t) ==
  /\ pc[t] = "calling"
  /\ counters' = [counters EXCEPT ![<<call[t].op, "requests">>] = @ + 2]
  /\ Goto(t, "handling")
  /\ UNCHANGED <<gateway, call, broken, earlier, crashes, exporter>>

Receive(t) ==
  /\ pc[t] = "calling"
  /\ Increment(call[t].op, "requests")
  /\ Goto(t, "handling")
  /\ UNCHANGED <<gateway, call, broken, earlier, crashes, exporter>>

\* Mutant: an early return that is not counted.
HandleUncounted(t, outcome) ==
  /\ pc[t] = "handling"
  /\ IF outcome = Failure(call[t].op) THEN UNCHANGED counters ELSE Increment(call[t].op, outcome)
  /\ call' = [call EXCEPT ![t] = [op |-> call[t].op, outcome |-> outcome]]
  /\ Goto(t, "replying")
  /\ UNCHANGED <<gateway, broken, earlier, crashes, exporter>>

\* The handler has its outcome and counts it.
Handle(t, outcome) ==
  /\ pc[t] = "handling"
  /\ Increment(call[t].op, outcome)
  /\ call' = [call EXCEPT ![t] = [op |-> call[t].op, outcome |-> outcome]]
  /\ Goto(t, "replying")
  /\ UNCHANGED <<gateway, broken, earlier, crashes, exporter>>

\* The reply reaches the gateway, which counts it by its status.  (An outcome
\* "errors" has the status REJECTED or ERROR.)
Reply(t) ==
  /\ pc[t] = "replying"
  /\ LET op == call[t].op
     IN  gateway' =
           IF t \in broken THEN gateway
           ELSE IF call[t].outcome # Success(op) THEN [gateway EXCEPT ![op].refused = @ + 1]
           ELSE IF op = "submit" THEN [gateway EXCEPT ![op].accepted = @ + 1]
           ELSE gateway
  /\ Return(t)
  /\ UNCHANGED <<counters, earlier, crashes, exporter>>

\* Mutant: the gateway repeats a call whose connection broke.
BreakRepeated(t) ==
  /\ pc[t] \in {"calling", "handling", "replying"} /\ t \notin broken
  /\ Goto(t, "calling")
  /\ UNCHANGED <<counters, gateway, call, broken, earlier, crashes, exporter>>

\* The connection breaks and the stub throws, before or after the request has
\* reached the engine: nothing is counted.
Break(t) ==
  /\ pc[t] \in {"calling", "handling", "replying"} /\ t \notin broken
  /\ \/ pc[t] = "calling" /\ Return(t)
     \/ broken' = broken \cup {t} /\ UNCHANGED <<pc, call>>
  /\ UNCHANGED <<counters, gateway, earlier, crashes, exporter>>

\* The engine dies and starts again, with fresh counters; the calls it served fail.
Crash ==
  /\ crashes < MaxCrashes
  /\ crashes' = crashes + 1
  /\ earlier' = [op \in Operations |-> earlier[op] + counters[<<op, Success(op)>>]]
  /\ counters' = Zero
  /\ pc' = [t \in Threads |-> IF pc[t] = "calling" THEN "calling" ELSE "idle"]
  /\ call' = [t \in Threads |-> IF pc[t] = "calling" THEN call[t] ELSE NoCall]
  /\ broken' = {t \in broken : pc[t] = "calling"}
  /\ backlog' = <<>> /\ sent' = {} /\ serving' = "accept" /\ snapshot' = <<>>
  /\ UNCHANGED gateway

-----------------------------------------------------------------------------
(* MetricsHttpServer *)

Connect(c) ==
  /\ ~Contains(backlog, c)
  /\ backlog' = Append(backlog, c)
  /\ UNCHANGED <<counters, gateway, calls, earlier, crashes, sent, serving, snapshot>>

\* The scraper sends its request or closes the connection: read will return.
SendRequest(c) ==
  /\ Contains(backlog, c)
  /\ c \notin sent
  /\ sent' = sent \cup {c}
  /\ UNCHANGED <<counters, gateway, calls, earlier, crashes, backlog, serving, snapshot>>

Accept ==
  /\ serving = "accept"
  /\ backlog # <<>>
  /\ serving' = "read"
  /\ UNCHANGED <<counters, gateway, calls, earlier, crashes, backlog, sent, snapshot>>

\* read blocks for as long as the scraper likes.
Read ==
  /\ serving = "read"
  /\ Head(backlog) \in sent
  /\ serving' = "collect"
  /\ UNCHANGED <<counters, gateway, calls, earlier, crashes, backlog, sent, snapshot>>

\* CollectMetricsSnapshot loads the next counter.
Collect ==
  /\ serving = "collect"
  /\ Len(snapshot) < Len(Exported)
  /\ snapshot' = Append(snapshot, counters[Exported[Len(snapshot) + 1]])
  /\ UNCHANGED <<counters, gateway, calls, earlier, crashes, backlog, sent, serving>>

\* Mutant: the connection is kept for the next request.
SendKept ==
  /\ serving = "collect"
  /\ Len(snapshot) = Len(Exported)
  /\ sent' = sent \ {Head(backlog)}
  /\ serving' = "read"
  /\ snapshot' = <<>>
  /\ UNCHANGED <<counters, gateway, calls, earlier, crashes, backlog>>

\* send and close.
Send ==
  /\ serving = "collect"
  /\ Len(snapshot) = Len(Exported)
  /\ sent' = sent \ {Head(backlog)}
  /\ backlog' = Tail(backlog)
  /\ serving' = "accept"
  /\ snapshot' = <<>>
  /\ UNCHANGED <<counters, gateway, calls, earlier, crashes>>

-----------------------------------------------------------------------------
Next ==
  \/ \E t \in Threads : \/ \E op \in Operations : Request(t, op)
                        \/ Receive(t)
                        \/ pc[t] = "handling" /\ \E outcome \in Outcomes(call[t].op) : Handle(t, outcome)
                        \/ Reply(t)
                        \/ Break(t)
  \/ Crash
  \/ \E c \in Scrapers : Connect(c) \/ SendRequest(c)
  \/ Accept \/ Read \/ Collect \/ Send

Spec == Init /\ [][Next]_vars

(***************************************************************************)
(* The exporter's thread runs, and scrapers send a request on a connection  *)
(* they open.                                                               *)
(***************************************************************************)
FairSpec ==
  /\ Spec
  /\ WF_vars(Accept \/ Read \/ Collect \/ Send)
  /\ \A c \in Scrapers : WF_vars(SendRequest(c))

-----------------------------------------------------------------------------
\* Every variable has its type; the engine counts no request that nobody made.
TypeOK ==
  /\ counters \in [Counters -> 0..MaxRequests]
  /\ gateway \in [Operations -> [requests : 0..MaxRequests, accepted : 0..MaxRequests,
                                 refused : 0..MaxRequests]]
  /\ pc \in [Threads -> {"idle", "calling", "handling", "replying"}]
  /\ broken \subseteq Threads
  /\ crashes \in 0..MaxCrashes
  /\ backlog \in Seq(Scrapers) /\ sent \subseteq Scrapers
  /\ serving \in {"accept", "read", "collect"}
  /\ snapshot \in Seq(0..MaxRequests) /\ Len(snapshot) <= Len(Exported)

\* How often the engine counted that it did what clients asked for, in all its lives.
Done(op) == earlier[op] + counters[<<op, Success(op)>>]

(***************************************************************************)
(* The gateway counts no failed call, and does not know what became of it;  *)
(* but whichever connections break, and however often the engine restarts,  *)
(* the engine did no more than the requests the gateway counted less those  *)
(* it saw refused, and every order the gateway saw accepted was accepted.   *)
(* (For as long as all calls of the engine come through the gateway, and    *)
(* the gateway itself does not restart.)                                    *)
(***************************************************************************)
GatewayBrackets ==
  \A op \in Operations :
    /\ Done(op) <= gateway[op].requests - gateway[op].refused
    /\ gateway[op].accepted <= Done(op)

\* What a complete scrape shows.
Shown(op, what) ==
  snapshot[CHOOSE i \in DOMAIN Exported : Exported[i] = <<op, what>>]

(***************************************************************************)
(* "Total SubmitOrder RPCs received" and its outcomes are loaded one after  *)
(* the other while handlers go on: a scrape may show more outcomes than     *)
(* requests, but no more than there were requests when it ends, and it      *)
(* misses the outcomes of no more calls than there are threads.             *)
(***************************************************************************)
ScrapeAccounts ==
  Len(snapshot) = Len(Exported) =>
    \A op \in Operations :
      LET answered == Shown(op, Success(op)) + Shown(op, Failure(op)) + Shown(op, "errors")
      IN  /\ answered <= counters[<<op, "requests">>]
          /\ Shown(op, "requests") - answered <= Cardinality(Threads)

(***************************************************************************)
(* As long as scrapers send their requests, each of them is served, in its  *)
(* turn.                                                                    *)
(***************************************************************************)
ScrapesServed == \A c \in Scrapers : Contains(backlog, c) ~> ~Contains(backlog, c)

=============================================================================
