---------------------------- MODULE Metrics_proofs ----------------------------
(***************************************************************************)
(* Proofs about the counters of gateway and engine and what a scrape shows  *)
(* of them, for any number of calls at a time, requests and crashes, and    *)
(* whatever breaks on the way.                                              *)
(***************************************************************************)
EXTENDS Metrics, Collections_proofs

Places == {"idle", "calling", "handling", "replying"}

\* The types of the counters, and of the calls that are under way.
CountTypes ==
  /\ counters \in [Counters -> Nat]
  /\ gateway \in [Operations -> [requests : Nat, accepted : Nat, refused : Nat]]
  /\ earlier \in [Operations -> Nat]
  /\ pc \in [Threads -> Places]
  /\ call = [t \in Threads |-> call[t]]
  /\ \A t \in Threads : /\ pc[t] # "idle" => call[t].op \in Operations
                        /\ pc[t] = "replying" => call[t].outcome \in Outcomes(call[t].op)

\* The calls that the engine may yet do, and those whose outcome, the one asked
\* for or another, is on its way to the gateway.
Ahead(op) == {t \in Threads : pc[t] \in {"calling", "handling"} /\ call[t].op = op}
Replying(op) == {t \in Threads \ broken : pc[t] = "replying" /\ call[t].op = op}
Won(op) == {t \in Replying(op) : call[t].outcome = Success(op)}
Lost(op) == {t \in Replying(op) : call[t].outcome # Success(op)}

\* The brackets, with room for the calls under way.
Brackets(op) ==
  /\ Done(op) + gateway[op].refused + Cardinality(Ahead(op)) + Cardinality(Lost(op))
       <= gateway[op].requests
  /\ gateway[op].accepted + Cardinality(Won(op)) <= Done(op)

Inv == CountTypes /\ \A op \in Operations : Brackets(op)

-----------------------------------------------------------------------------
\* How a step of call t changes the size of a set of calls.
Moved(S, T, t) ==
  /\ Cardinality(S) \in Nat /\ Cardinality(T) \in Nat
  /\ (t \in S <=> t \in T) => Cardinality(T) = Cardinality(S)
  /\ t \in S /\ t \notin T => Cardinality(T) = Cardinality(S) - 1
  /\ t \notin S /\ t \in T => Cardinality(T) = Cardinality(S) + 1

LEMMA OneCall ==
  ASSUME NEW S \in SUBSET Threads, NEW T \in SUBSET Threads, NEW t, S \ {t} = T \ {t}
  PROVE  Moved(S, T, t)
<1>1. IsFiniteSet(S) /\ IsFiniteSet(T) /\ Cardinality(S) \in Nat /\ Cardinality(T) \in Nat
  BY ThreadsAssumption, FS_Subset, FS_CardinalityType
<1>2. (t \in S <=> t \in T) => S = T
  OBVIOUS
<1>3. ASSUME t \in S, t \notin T PROVE Cardinality(T) = Cardinality(S) - 1
  <2>1. T = S \ {t}
    BY <1>3
  <2> QED BY <2>1, <1>1, <1>3, FS_RemoveElement
<1>4. ASSUME t \notin S, t \in T PROVE Cardinality(T) = Cardinality(S) + 1
  <2>1. T = S \cup {t}
    BY <1>4
  <2> QED BY <2>1, <1>1, <1>4, FS_AddElement
<1> QED BY <1>1, <1>2, <1>3, <1>4 DEF Moved

\* A set that only loses calls does not grow.
LEMMA FewerCalls ==
  ASSUME NEW S \in SUBSET Threads, NEW T \in SUBSET S
  PROVE  Cardinality(S) \in Nat /\ Cardinality(T) \in Nat /\ Cardinality(T) <= Cardinality(S)
<1>1. IsFiniteSet(S) /\ IsFiniteSet(T)
  BY ThreadsAssumption, FS_Subset
<1> QED BY <1>1, FS_Subset, FS_CardinalityType

\* A step of call t leaves the other calls where they are.
OthersStay(t) ==
  \A u \in Threads \ {t} : /\ pc'[u] = pc[u] /\ call'[u] = call[u]
                           /\ u \in broken' <=> u \in broken

LEMMA CallMoves ==
  ASSUME NEW t \in Threads, NEW op, OthersStay(t)
  PROVE  /\ Moved(Ahead(op), Ahead(op)', t)
         /\ Moved(Won(op), Won(op)', t)
         /\ Moved(Lost(op), Lost(op)', t)
<1>1. /\ Ahead(op) \in SUBSET Threads /\ Won(op) \in SUBSET Threads /\ Lost(op) \in SUBSET Threads
      /\ Ahead(op)' \in SUBSET Threads /\ Won(op)' \in SUBSET Threads /\ Lost(op)' \in SUBSET Threads
  BY DEF Ahead, Won, Lost, Replying
<1>2. /\ Ahead(op) \ {t} = Ahead(op)' \ {t}
      /\ Won(op) \ {t} = Won(op)' \ {t}
      /\ Lost(op) \ {t} = Lost(op)' \ {t}
  BY DEF Ahead, Won, Lost, Replying, OthersStay
<1> QED BY <1>1, <1>2, OneCall

\* What is counted of an operation is a number.
LEMMA CountsAreNumbers ==
  ASSUME CountTypes, NEW op \in Operations
  PROVE  /\ \A what \in {"requests"} \cup Outcomes(op) :
              <<op, what>> \in Counters /\ counters[<<op, what>>] \in Nat
         /\ Done(op) \in Nat
         /\ gateway[op] \in [requests : Nat, accepted : Nat, refused : Nat]
<1>1. \A what \in {"requests"} \cup Outcomes(op) : <<op, what>> \in Counters
  BY DEF Counters
<1>2. Success(op) \in Outcomes(op)
  BY DEF Outcomes
<1> QED BY <1>1, <1>2 DEF CountTypes, Done

LEMMA InitInv == Init => Inv
<1> SUFFICES ASSUME Init PROVE Inv
  OBVIOUS
<1>1. CountTypes
  BY DEF Init, CountTypes, Zero, NoCall, Places
<1>2. ASSUME NEW op \in Operations PROVE Brackets(op)
  <2>1. Ahead(op) = {} /\ Won(op) = {} /\ Lost(op) = {}
    BY DEF Init, Ahead, Won, Lost, Replying
  <2>2. <<op, Success(op)>> \in Counters
    BY DEF Counters, Outcomes
  <2>3. Done(op) = 0
    BY <2>2 DEF Init, Zero, Done
  <2> QED BY <2>1, <2>3, FS_EmptySet DEF Brackets, Init
<1> QED BY <1>1, <1>2 DEF Inv

-----------------------------------------------------------------------------
(* One lemma per kind of step. *)

\* The exporter and the scrapers count nothing.
LEMMA Aside ==
  ASSUME Inv, UNCHANGED <<counters, gateway, calls, earlier>>
  PROVE  Inv'
<1>1. CountTypes'
  BY DEF Inv, CountTypes, calls
<1>2. \A op \in Operations : Done(op)' = Done(op)
  BY DEF Done
<1>3. \A op \in Operations : Ahead(op)' = Ahead(op) /\ Won(op)' = Won(op) /\ Lost(op)' = Lost(op)
  BY DEF Ahead, Won, Lost, Replying, calls
<1> QED BY <1>1, <1>2, <1>3 DEF Inv, Brackets

LEMMA RequestInv ==
  ASSUME Inv, NEW t \in Threads, NEW o \in Operations, Request(t, o)
  PROVE  Inv'
<1>1. CountTypes /\ CountTypes'
  <2>1. CountTypes
    BY DEF Inv
  <2>2. /\ pc' = [pc EXCEPT ![t] = "calling"] /\ call' = [call EXCEPT ![t] = [op |-> o]]
        /\ gateway' = [gateway EXCEPT ![o].requests = @ + 1]
        /\ counters' = counters /\ earlier' = earlier
    BY DEF Request, Goto
  <2> QED
    BY <2>1, <2>2 DEF CountTypes, Places
<1>2. OthersStay(t)
  BY <1>1 DEF Request, Goto, CountTypes, OthersStay
<1>3. ASSUME NEW op \in Operations PROVE Brackets(op)'
  <2>1. Brackets(op)
    BY DEF Inv
  <2>2. Done(op)' = Done(op)
    BY DEF Request, Done
  <2>3. t \notin Ahead(op) /\ t \notin Won(op) /\ t \notin Lost(op)
    BY DEF Request, Ahead, Won, Lost, Replying
  <2>4. pc'[t] = "calling" /\ call'[t].op = o
    BY <1>1 DEF Request, Goto, CountTypes
  <2>5. t \notin Won(op)' /\ t \notin Lost(op)' /\ (t \in Ahead(op)' <=> op = o)
    BY <2>4 DEF Ahead, Won, Lost, Replying
  <2>6. /\ gateway'[op].requests = gateway[op].requests + (IF op = o THEN 1 ELSE 0)
        /\ gateway'[op].refused = gateway[op].refused /\ gateway'[op].accepted = gateway[op].accepted
    BY <1>1 DEF Request, CountTypes
  <2> QED BY <1>1, <1>2, <2>1, <2>2, <2>3, <2>5, <2>6, CallMoves, CountsAreNumbers DEF Brackets, Moved
<1> QED BY <1>1, <1>3 DEF Inv

LEMMA ReceiveInv ==
  ASSUME Inv, NEW t \in Threads, Receive(t)
  PROVE  Inv'
<1>1. CountTypes /\ call[t].op \in Operations
  BY DEF Inv, CountTypes, Receive
<1>2. CountTypes'
  BY <1>1, CountsAreNumbers DEF CountTypes, Receive, Increment, Goto, Places, calls
<1>3. OthersStay(t)
  BY <1>1 DEF Receive, Goto, CountTypes, OthersStay
<1>4. ASSUME NEW op \in Operations PROVE Brackets(op)'
  <2>1. Brackets(op)
    BY DEF Inv
  <2>2. Done(op)' = Done(op)
    <3>1. Success(op) # "requests"
      BY DEF Success
    <3> QED BY <3>1, <1>1, CountsAreNumbers DEF Receive, Increment, Done, CountTypes
  <2>3. /\ t \in Ahead(op) <=> t \in Ahead(op)'
        /\ t \notin Won(op) /\ t \notin Lost(op) /\ t \notin Won(op)' /\ t \notin Lost(op)'
    BY <1>1 DEF Receive, Goto, CountTypes, Ahead, Won, Lost, Replying
  <2> QED BY <1>1, <1>3, <2>1, <2>2, <2>3, CallMoves DEF Brackets, Moved, Receive
<1> QED BY <1>2, <1>4 DEF Inv

LEMMA HandleInv ==
  ASSUME Inv, NEW t \in Threads, pc[t] = "handling", NEW outcome \in Outcomes(call[t].op),
         Handle(t, outcome)
  PROVE  Inv'
<1> DEFINE o == call[t].op
<1>1. CountTypes /\ o \in Operations
  BY DEF Inv, CountTypes
<1>2. call'[t] = [op |-> o, outcome |-> outcome] /\ pc'[t] = "replying"
  BY <1>1 DEF Handle, Goto, CountTypes
<1>3. OthersStay(t)
  BY <1>1 DEF Handle, Goto, CountTypes, OthersStay
<1>4. counters' = [counters EXCEPT ![<<o, outcome>>] = @ + 1] /\ <<o, outcome>> \in Counters
  BY <1>1, CountsAreNumbers DEF Handle, Increment
<1>5. CountTypes'
  <2>1. counters' \in [Counters -> Nat]
    BY <1>1, <1>4 DEF CountTypes
  <2>2. pc' \in [Threads -> Places] /\ call' = [u \in Threads |-> call'[u]]
    BY <1>1 DEF Handle, Goto, CountTypes, Places
  <2> QED BY <1>1, <1>2, <1>3, <2>1, <2>2 DEF CountTypes, Handle, OthersStay
<1>6. ASSUME NEW op \in Operations PROVE Brackets(op)'
  <2>1. Brackets(op)
    BY DEF Inv
  <2>2. Done(op)' = Done(op) + (IF op = o /\ outcome = Success(op) THEN 1 ELSE 0)
    <3>1. <<op, Success(op)>> = <<o, outcome>> <=> op = o /\ outcome = Success(op)
      OBVIOUS
    <3>2. <<op, Success(op)>> \in Counters
      BY <1>1, CountsAreNumbers DEF Outcomes
    <3>3. counters'[<<op, Success(op)>>]
            = counters[<<op, Success(op)>>] + (IF op = o /\ outcome = Success(op) THEN 1 ELSE 0)
      <4> HIDE DEF o
      <4>1. counters \in [Counters -> Nat]
        BY <1>1 DEF CountTypes
      <4>2. \A c \in Counters :
              counters'[c] = IF c = <<o, outcome>> THEN counters[c] + 1 ELSE counters[c]
        BY <1>4, <4>1
      <4> QED BY <3>1, <3>2, <4>1, <4>2
    <3> QED BY <1>1, <3>2, <3>3 DEF Done, CountTypes, Handle
  <2>3. /\ t \in Ahead(op) <=> op = o
        /\ t \notin Won(op) /\ t \notin Lost(op) /\ t \notin Ahead(op)'
    BY <1>2 DEF Ahead, Won, Lost, Replying
  <2>4. /\ t \in Won(op)' => op = o /\ outcome = Success(op)
        /\ t \in Lost(op)' => op = o /\ outcome # Success(op)
    BY <1>2 DEF Won, Lost, Replying
  <2>5. UNCHANGED gateway
    BY DEF Handle
  <2> QED BY <1>1, <1>3, <2>1, <2>2, <2>3, <2>4, <2>5, CallMoves, CountsAreNumbers
          DEF Brackets, Moved
<1> QED BY <1>5, <1>6 DEF Inv

LEMMA ReplyInv ==
  ASSUME Inv, NEW t \in Threads, Reply(t)
  PROVE  Inv'
<1> DEFINE o == call[t].op
<1>1. CountTypes /\ o \in Operations
  BY DEF Inv, CountTypes, Reply
<1>2. pc'[t] = "idle"
  BY <1>1 DEF Reply, Return, Goto, CountTypes
<1>3. OthersStay(t)
  BY <1>1 DEF Reply, Return, Goto, CountTypes, OthersStay
<1>4. CASE t \in broken
  <2>1. UNCHANGED gateway
    BY <1>4 DEF Reply
  <2>2. CountTypes'
    BY <1>1, <2>1 DEF CountTypes, Reply, Return, Goto, Places, NoCall
  <2>3. ASSUME NEW op \in Operations PROVE Brackets(op)'
    <3>1. Brackets(op)
      BY DEF Inv
    <3>2. Done(op)' = Done(op)
      BY DEF Done, Reply
    <3>3. /\ t \notin Ahead(op) /\ t \notin Won(op) /\ t \notin Lost(op)
          /\ t \notin Ahead(op)' /\ t \notin Won(op)' /\ t \notin Lost(op)'
      BY <1>2, <1>4 DEF Reply, Ahead, Won, Lost, Replying
    <3> QED BY <1>3, <2>1, <3>1, <3>2, <3>3, CallMoves DEF Brackets, Moved
  <2> QED BY <2>2, <2>3 DEF Inv
<1>5. CASE t \notin broken
  <2>1. gateway' = IF call[t].outcome # Success(o) THEN [gateway EXCEPT ![o].refused = @ + 1]
                   ELSE IF o = "submit" THEN [gateway EXCEPT ![o].accepted = @ + 1]
                   ELSE gateway
    BY <1>5 DEF Reply
  <2>2. gateway' \in [Operations -> [requests : Nat, accepted : Nat, refused : Nat]]
    BY <1>1, <2>1 DEF CountTypes
  <2>3. CountTypes'
    BY <1>1, <2>2 DEF CountTypes, Reply, Return, Goto, Places, NoCall
  <2>4. ASSUME NEW op \in Operations PROVE Brackets(op)'
    <3>1. Brackets(op)
      BY DEF Inv
    <3>2. Done(op)' = Done(op)
      BY DEF Done, Reply
    <3>3. /\ t \notin Ahead(op)
          /\ t \notin Ahead(op)' /\ t \notin Won(op)' /\ t \notin Lost(op)'
      BY <1>2 DEF Reply, Ahead, Won, Lost, Replying
    <3>4. /\ t \in Won(op) <=> op = o /\ call[t].outcome = Success(o)
          /\ t \in Lost(op) <=> op = o /\ call[t].outcome # Success(o)
      BY <1>5 DEF Reply, Won, Lost, Replying
    <3>5. /\ gateway'[op].requests = gateway[op].requests
          /\ gateway'[op].refused = gateway[op].refused
               + (IF op = o /\ call[t].outcome # Success(o) THEN 1 ELSE 0)
          /\ gateway'[op].accepted <= gateway[op].accepted
               + (IF op = o /\ call[t].outcome = Success(o) THEN 1 ELSE 0)
      BY <1>1, <2>1, CountsAreNumbers DEF CountTypes
    <3> HIDE DEF o
    <3> QED BY <1>1, <1>3, <2>2, <3>1, <3>2, <3>3, <3>4, <3>5, CallMoves, CountsAreNumbers
            DEF Brackets, Moved
  <2> QED BY <2>3, <2>4 DEF Inv
<1> QED BY <1>4, <1>5

\* What breaks only takes calls out of the sets.
LEMMA FewerInv ==
  ASSUME Inv, CountTypes', UNCHANGED gateway,
         \A op \in Operations : /\ Done(op)' = Done(op)
                                /\ Ahead(op)' \subseteq Ahead(op)
                                /\ Won(op)' \subseteq Won(op)
                                /\ Lost(op)' \subseteq Lost(op)
  PROVE  Inv'
<1>1. ASSUME NEW op \in Operations PROVE Brackets(op)'
  <2>1. Brackets(op) /\ CountTypes
    BY DEF Inv
  <2>2. Ahead(op) \subseteq Threads /\ Won(op) \subseteq Threads /\ Lost(op) \subseteq Threads
    BY DEF Ahead, Won, Lost, Replying
  <2>3. /\ Cardinality(Ahead(op)') <= Cardinality(Ahead(op))
        /\ Cardinality(Won(op)') <= Cardinality(Won(op))
        /\ Cardinality(Lost(op)') <= Cardinality(Lost(op))
        /\ Cardinality(Ahead(op)) \in Nat /\ Cardinality(Ahead(op)') \in Nat
        /\ Cardinality(Won(op)) \in Nat /\ Cardinality(Won(op)') \in Nat
        /\ Cardinality(Lost(op)) \in Nat /\ Cardinality(Lost(op)') \in Nat
    BY <2>2, FewerCalls
  <2> QED BY <2>1, <2>3, CountsAreNumbers DEF Brackets
<1> QED BY <1>1 DEF Inv

LEMMA BreakInv ==
  ASSUME Inv, NEW t \in Threads, Break(t)
  PROVE  Inv'
<1>1. CountTypes
  BY DEF Inv
<1>2. CASE pc[t] = "calling" /\ Return(t)
  <2>1. CountTypes'
    BY <1>1, <1>2 DEF CountTypes, Break, Return, Goto, Places, NoCall
  <2>2. ASSUME NEW op \in Operations
        PROVE  /\ Done(op)' = Done(op)
               /\ Ahead(op)' \subseteq Ahead(op) /\ Won(op)' \subseteq Won(op)
               /\ Lost(op)' \subseteq Lost(op)
    BY <1>1, <1>2 DEF CountTypes, Break, Return, Goto, Done, Ahead, Won, Lost, Replying
  <2> QED BY <2>1, <2>2, FewerInv DEF Break
<1>3. CASE broken' = broken \cup {t} /\ UNCHANGED <<pc, call>>
  <2>1. CountTypes'
    BY <1>1, <1>3 DEF CountTypes, Break
  <2>2. ASSUME NEW op \in Operations
        PROVE  /\ Done(op)' = Done(op)
               /\ Ahead(op)' \subseteq Ahead(op) /\ Won(op)' \subseteq Won(op)
               /\ Lost(op)' \subseteq Lost(op)
    BY <1>3 DEF Break, Done, Ahead, Won, Lost, Replying
  <2> QED BY <2>1, <2>2, FewerInv DEF Break
<1> QED BY <1>2, <1>3 DEF Break

LEMMA CrashInv ==
  ASSUME Inv, Crash
  PROVE  Inv'
<1>1. CountTypes
  BY DEF Inv
<1>2. \A op \in Operations : <<op, Success(op)>> \in Counters /\ Done(op) \in Nat
  BY <1>1, CountsAreNumbers DEF Outcomes
<1>3. CountTypes'
  <2>1. earlier' \in [Operations -> Nat]
    BY <1>2 DEF Crash, Done
  <2>2. counters' \in [Counters -> Nat] /\ gateway' = gateway
    BY DEF Crash, Zero
  <2>3. /\ pc' \in [Threads -> Places]
        /\ call' = [t \in Threads |-> call'[t]]
        /\ \A t \in Threads : pc'[t] # "idle" => pc[t] = "calling" /\ pc'[t] = "calling"
                                              /\ call'[t] = call[t]
    BY DEF Crash, Places
  <2> QED BY <1>1, <2>1, <2>2, <2>3 DEF CountTypes
<1>4. ASSUME NEW op \in Operations
      PROVE  /\ Done(op)' = Done(op)
             /\ Ahead(op)' \subseteq Ahead(op) /\ Won(op)' \subseteq Won(op)
             /\ Lost(op)' \subseteq Lost(op)
  <2>1. Done(op)' = Done(op)
    BY <1>2 DEF Crash, Done, Zero
  <2> QED BY <2>1 DEF Crash, Ahead, Won, Lost, Replying
<1> QED BY <1>3, <1>4, FewerInv DEF Crash

-----------------------------------------------------------------------------
LEMMA NextInv == Inv /\ [Next]_vars => Inv'
<1> SUFFICES ASSUME Inv, [Next]_vars PROVE Inv'
  OBVIOUS
<1>1. ASSUME NEW t \in Threads, NEW op \in Operations, Request(t, op) PROVE Inv'
  BY <1>1, RequestInv
<1>2. ASSUME NEW t \in Threads, Receive(t) PROVE Inv'
  BY <1>2, ReceiveInv
<1>3. ASSUME NEW t \in Threads, pc[t] = "handling", NEW outcome \in Outcomes(call[t].op),
             Handle(t, outcome)
      PROVE  Inv'
  BY <1>3, HandleInv
<1>4. ASSUME NEW t \in Threads, Reply(t) PROVE Inv'
  BY <1>4, ReplyInv
<1>5. ASSUME NEW t \in Threads, Break(t) PROVE Inv'
  BY <1>5, BreakInv
<1>6. CASE Crash
  BY <1>6, CrashInv
<1>7. CASE \E c \in Scrapers : Connect(c) \/ SendRequest(c)
  BY <1>7, Aside DEF Connect, SendRequest
<1>8. CASE Accept \/ Read \/ Collect \/ Send
  BY <1>8, Aside DEF Accept, Read, Collect, Send
<1>9. CASE UNCHANGED vars
  BY <1>9, Aside DEF vars
<1> QED BY <1>1, <1>2, <1>3, <1>4, <1>5, <1>6, <1>7, <1>8, <1>9 DEF Next

LEMMA InvBrackets == Inv => GatewayBrackets
<1> SUFFICES ASSUME Inv, NEW op \in Operations
             PROVE  /\ Done(op) <= gateway[op].requests - gateway[op].refused
                    /\ gateway[op].accepted <= Done(op)
  BY DEF GatewayBrackets
<1>1. /\ Ahead(op) \subseteq Threads /\ Won(op) \subseteq Threads /\ Lost(op) \subseteq Threads
  BY DEF Ahead, Won, Lost, Replying
<1>2. /\ Cardinality(Ahead(op)) \in Nat /\ Cardinality(Won(op)) \in Nat
      /\ Cardinality(Lost(op)) \in Nat
  BY <1>1, FewerCalls
<1> QED BY <1>2, CountsAreNumbers DEF Inv, Brackets

(***************************************************************************)
(* Whatever calls fail or are cut off by a crash, the engine did no more    *)
(* than the gateway's requests less those it saw refused, and every order   *)
(* the gateway saw accepted was accepted.                                   *)
(***************************************************************************)
THEOREM GatewayKnows == Spec => []GatewayBrackets
BY InvBrackets, InitInv, NextInv, PTL DEF Spec

-----------------------------------------------------------------------------
(***************************************************************************)
(* What the engine counts adds up: every request it counted has an outcome, *)
(* or is still being handled, and was one of the gateway's.                 *)
(***************************************************************************)
Calling(op) == {t \in Threads : pc[t] = "calling" /\ call[t].op = op}
Handling(op) == {t \in Threads : pc[t] = "handling" /\ call[t].op = op}

Requests(op) == counters[<<op, "requests">>]
Answered(op) == counters[<<op, Success(op)>>] + counters[<<op, Failure(op)>>] + counters[<<op, "errors">>]

Accounts(op) ==
  /\ Requests(op) = Answered(op) + Cardinality(Handling(op))
  /\ Requests(op) + Cardinality(Calling(op)) <= gateway[op].requests

\* Where the counters of an operation are in a snapshot.
Offset(op) == IF op = "submit" THEN 0
              ELSE IF op = "cancel" THEN Len(CountersOf("submit"))
              ELSE Len(CountersOf("submit")) + Len(CountersOf("cancel"))

\* A counter as the snapshot has it, or will have it at the earliest.
Loaded(i) == IF i <= Len(snapshot) THEN snapshot[i] ELSE counters[Exported[i]]


-----------------------------------------------------------------------------
(* The order of a snapshot *)

LEMMA CountersOfOne ==
  ASSUME NEW op
  PROVE  /\ CountersOf(op) \in Seq(Counters)
         /\ Len(CountersOf(op)) = IF op \in Operations THEN 4 ELSE 0
         /\ op \in Operations => /\ CountersOf(op)[1] = <<op, "requests">>
                                 /\ CountersOf(op)[2] = <<op, Success(op)>>
                                 /\ CountersOf(op)[3] = <<op, Failure(op)>>
                                 /\ CountersOf(op)[4] = <<op, "errors">>
<1>1. CASE op \in Operations
  <2> DEFINE a == <<op, "requests">>
             b == <<op, Success(op)>>
             c == <<op, Failure(op)>>
             d == <<op, "errors">>
  <2>1. a \in Counters /\ b \in Counters /\ c \in Counters /\ d \in Counters
    BY <1>1 DEF Counters, Outcomes
  <2>2. CountersOf(op) = <<a, b, c, d>>
    BY <1>1 DEF CountersOf
  <2> HIDE DEF a, b, c, d
  <2>3. <<a, b, c, d>> \in Seq(Counters) /\ Len(<<a, b, c, d>>) = 4
    BY <2>1
  <2> QED
    BY <1>1, <2>2, <2>3 DEF a, b, c, d
<1>2. CASE op \notin Operations
  <2>1. CountersOf(op) = <<>>
    BY <1>2 DEF CountersOf
  <2> QED
    BY <1>2, <2>1, EmptySeq
<1> QED
  BY <1>1, <1>2

LEMMA OffsetIs ==
  ASSUME NEW op \in Operations
  PROVE  /\ Offset(op) \in Nat /\ Offset(op) + 4 <= Len(Exported)
         /\ \A j \in 1..4 : Exported[Offset(op) + j] = CountersOf(op)[j]
<1> DEFINE a == CountersOf("submit")
           b == CountersOf("cancel")
           c == CountersOf("modify")
           la == Len(a)
           lb == Len(b)
           lc == Len(c)
<1>1. /\ a \in Seq(Counters) /\ b \in Seq(Counters) /\ c \in Seq(Counters)
      /\ la \in Nat /\ lb \in Nat /\ lc \in Nat
  BY CountersOfOne, LenProperties
<1>2. Exported = (a \o b) \o c
  BY DEF Exported
<1>3. \/ op = "submit" /\ Offset(op) = 0 /\ CountersOf(op) = a /\ la = 4
      \/ op = "cancel" /\ Offset(op) = la /\ CountersOf(op) = b /\ lb = 4
      \/ op = "modify" /\ Offset(op) = la + lb /\ CountersOf(op) = c /\ lc = 4
  BY OperationsAssumption, CountersOfOne DEF Offset
<1> DEFINE at == Offset(op)
           own == CountersOf(op)
<1>4. \/ at = 0 /\ own = a /\ la = 4
      \/ at = la /\ own = b /\ lb = 4
      \/ at = la + lb /\ own = c /\ lc = 4
  BY <1>3
<1> HIDE DEF a, b, c, la, lb, lc, at, own
<1>5. /\ a \o b \in Seq(Counters) /\ Len(a \o b) = la + lb
      /\ \A i \in 1..(la + lb) : (a \o b)[i] = IF i <= la THEN a[i] ELSE b[i - la]
  BY <1>1, ConcatProperties DEF la, lb, lc
<1>6. /\ Len(Exported) = la + lb + lc
      /\ \A i \in 1..(la + lb + lc) :
           Exported[i] = IF i <= la + lb THEN (a \o b)[i] ELSE c[i - (la + lb)]
  BY <1>1, <1>2, <1>5, ConcatProperties DEF la, lb, lc
<1>7. at \in Nat /\ at + 4 <= Len(Exported)
  <2>1. at \in Nat /\ at + 4 <= la + lb + lc
    BY <1>1, <1>4
  <2> QED
    BY <1>6, <2>1
<1>8. ASSUME NEW j \in 1..4
      PROVE  Exported[at + j] = own[j]
  <2>1. CASE at = 0 /\ own = a /\ la = 4
    BY <1>1, <1>5, <1>6, <2>1
  <2>2. CASE at = la /\ own = b /\ lb = 4
    <3>1. /\ at + j \in 1..(la + lb + lc) /\ at + j \in 1..(la + lb) /\ at + j <= la + lb
          /\ ~(at + j <= la) /\ (at + j) - la = j
      BY <1>1, <2>2
    <3>2. Exported[at + j] = (a \o b)[at + j]
      BY <1>1, <1>6, <3>1
    <3> QED
      BY <1>5, <2>2, <3>1, <3>2
  <2>3. CASE at = la + lb /\ own = c /\ lc = 4
    <3>1. /\ at + j \in 1..(la + lb + lc) /\ ~(at + j <= la + lb)
          /\ (at + j) - (la + lb) = j
      BY <1>1, <2>3
    <3> QED
      BY <1>6, <2>3, <3>1
  <2> QED
    BY <1>4, <2>1, <2>2, <2>3
<1> QED
  BY <1>7, <1>8 DEF at, own

LEMMA ExportedIs ==
  /\ Exported \in Seq(Counters)
  /\ \A i \in 1..Len(Exported) : \E op \in Operations, j \in 1..4 : i = Offset(op) + j
<1> DEFINE a == CountersOf("submit")
           b == CountersOf("cancel")
           c == CountersOf("modify")
           la == Len(a)
           lb == Len(b)
           lc == Len(c)
<1>1. /\ a \in Seq(Counters) /\ b \in Seq(Counters) /\ c \in Seq(Counters)
      /\ la \in Nat /\ lb \in Nat /\ lc \in Nat
  BY CountersOfOne, LenProperties
<1>2. /\ ("submit" \in Operations /\ la = 4) \/ la = 0
      /\ ("cancel" \in Operations /\ lb = 4) \/ lb = 0
      /\ ("modify" \in Operations /\ lc = 4) \/ lc = 0
  BY CountersOfOne
<1>3. Exported = (a \o b) \o c
  BY DEF Exported
<1>4. /\ Offset("submit") = 0
      /\ Offset("cancel") = la
      /\ Offset("modify") = la + lb
  BY DEF Offset
<1> HIDE DEF a, b, c, la, lb, lc
<1>5. a \o b \in Seq(Counters) /\ Len(a \o b) = la + lb
  BY <1>1, ConcatProperties DEF la, lb, lc
<1>6. Exported \in Seq(Counters) /\ Len(Exported) = la + lb + lc
  BY <1>1, <1>3, <1>5, ConcatProperties DEF la, lb, lc
<1>7. ASSUME NEW i \in 1..Len(Exported)
      PROVE  \E op \in Operations, j \in 1..4 : i = Offset(op) + j
  <2>0. i \in Nat /\ 1 <= i /\ i <= la + lb + lc
    BY <1>1, <1>6
  <2>1. CASE i <= la
    <3>1. "submit" \in Operations /\ i \in 1..4 /\ i = Offset("submit") + i
      BY <1>1, <1>2, <1>4, <2>0, <2>1
    <3> QED
      BY <3>1
  <2>2. CASE i > la /\ i <= la + lb
    <3>1. "cancel" \in Operations /\ i - la \in 1..4 /\ i = Offset("cancel") + (i - la)
      BY <1>1, <1>2, <1>4, <2>0, <2>2
    <3> QED
      BY <3>1
  <2>3. CASE i > la + lb
    <3>1. /\ "modify" \in Operations /\ i - (la + lb) \in 1..4
          /\ i = Offset("modify") + (i - (la + lb))
      BY <1>1, <1>2, <1>4, <2>0, <2>3
    <3> QED
      BY <3>1
  <2> QED
    BY <1>1, <2>0, <2>1, <2>2, <2>3
<1> QED
  BY <1>6, <1>7

\* The place of a counter, which has only one.
LEMMA PlaceOfCounter ==
  ASSUME NEW op \in Operations
  PROVE  /\ Exported[Offset(op) + 1] = <<op, "requests">>
         /\ Exported[Offset(op) + 2] = <<op, Success(op)>>
         /\ Exported[Offset(op) + 3] = <<op, Failure(op)>>
         /\ Exported[Offset(op) + 4] = <<op, "errors">>
BY OffsetIs, CountersOfOne

LEMMA CountersApart ==
  ASSUME NEW i \in 1..Len(Exported), NEW k \in 1..Len(Exported), Exported[i] = Exported[k]
  PROVE  i = k
<1>1. PICK op \in Operations, j \in 1..4 : i = Offset(op) + j
  BY ExportedIs
<1>2. PICK o \in Operations, m \in 1..4 : k = Offset(o) + m
  BY ExportedIs
<1>3. CountersOf(op)[j] = CountersOf(o)[m]
  BY <1>1, <1>2, OffsetIs
<1>4. \A x \in Operations : /\ CountersOf(x)[1] = <<x, "requests">>
                            /\ CountersOf(x)[2] = <<x, Success(x)>>
                            /\ CountersOf(x)[3] = <<x, Failure(x)>>
                            /\ CountersOf(x)[4] = <<x, "errors">>
  BY CountersOfOne
<1>5. \A x : /\ Success(x) # "requests" /\ Success(x) # "errors" /\ Success(x) # Failure(x)
             /\ Failure(x) # "requests" /\ Failure(x) # "errors"
  BY DEF Success, Failure
<1>6. j \in {1, 2, 3, 4} /\ m \in {1, 2, 3, 4}
  OBVIOUS
<1>7. op = o
  BY <1>3, <1>4, <1>6
<1>8. j = m
  <2>1. \A x, y, z : <<x, y>> = <<x, z>> => y = z
    OBVIOUS
  <2> QED
    BY <1>3, <1>4, <1>5, <1>6, <1>7, <2>1
<1> QED
  BY <1>1, <1>2, <1>7, <1>8

LEMMA ShownIs ==
  ASSUME NEW op \in Operations
  PROVE  /\ Shown(op, "requests") = snapshot[Offset(op) + 1]
         /\ Shown(op, Success(op)) = snapshot[Offset(op) + 2]
         /\ Shown(op, Failure(op)) = snapshot[Offset(op) + 3]
         /\ Shown(op, "errors") = snapshot[Offset(op) + 4]
<1>1. DOMAIN Exported = 1..Len(Exported) /\ Len(Exported) \in Nat
  BY ExportedIs, LenProperties
<1>2. ASSUME NEW what, NEW k \in 1..Len(Exported), Exported[k] = <<op, what>>
      PROVE  Shown(op, what) = snapshot[k]
  <2>1. k = CHOOSE i \in DOMAIN Exported : Exported[i] = <<op, what>>
    BY <1>1, <1>2, CountersApart
  <2> QED
    BY <2>1 DEF Shown
<1>3. \A j \in 1..4 : Offset(op) + j \in 1..Len(Exported)
  BY <1>1, OffsetIs
<1> QED
  BY <1>2, <1>3, PlaceOfCounter

-----------------------------------------------------------------------------
(* Requests and outcomes add up *)

Accounted == \A op \in Operations : Accounts(op)

LEMMA CallMovesOn ==
  ASSUME NEW t \in Threads, NEW op, OthersStay(t)
  PROVE  Moved(Calling(op), Calling(op)', t) /\ Moved(Handling(op), Handling(op)', t)
<1>1. /\ Calling(op) \in SUBSET Threads /\ Handling(op) \in SUBSET Threads
      /\ Calling(op)' \in SUBSET Threads /\ Handling(op)' \in SUBSET Threads
  BY DEF Calling, Handling
<1>2. Calling(op) \ {t} = Calling(op)' \ {t} /\ Handling(op) \ {t} = Handling(op)' \ {t}
  BY DEF Calling, Handling, OthersStay
<1> QED
  BY <1>1, <1>2, OneCall

LEMMA CountedNumbers ==
  ASSUME CountTypes, NEW op \in Operations
  PROVE  /\ Requests(op) \in Nat /\ Answered(op) \in Nat
         /\ counters[<<op, Success(op)>>] \in Nat /\ counters[<<op, Failure(op)>>] \in Nat
         /\ counters[<<op, "errors">>] \in Nat /\ gateway[op].requests \in Nat
         /\ Cardinality(Calling(op)) \in Nat /\ Cardinality(Handling(op)) \in Nat
         /\ Cardinality(Handling(op)) <= Cardinality(Threads) /\ Cardinality(Threads) \in Nat
<1>1. /\ \A what \in {"requests", Success(op), Failure(op), "errors"} : counters[<<op, what>>] \in Nat
      /\ gateway[op].requests \in Nat
  BY CountsAreNumbers DEF Outcomes
<1>2. Calling(op) \in SUBSET Threads /\ Handling(op) \in SUBSET Threads /\ Threads \in SUBSET Threads
  BY DEF Calling, Handling
<1> QED
  BY <1>1, <1>2, FewerCalls DEF Requests, Answered

LEMMA RequestAccounted ==
  ASSUME Inv, Accounted, NEW t \in Threads, NEW o \in Operations, Request(t, o)
  PROVE  Accounted'
<1>1. CountTypes /\ CountTypes'
  BY RequestInv DEF Inv
<1>2. OthersStay(t)
  BY <1>1 DEF Request, Goto, CountTypes, OthersStay
<1>3. ASSUME NEW op \in Operations PROVE Accounts(op)'
  <2>1. Accounts(op)
    BY DEF Accounted
  <2>2. Requests(op)' = Requests(op) /\ Answered(op)' = Answered(op)
    BY DEF Request, Requests, Answered
  <2>3. pc'[t] = "calling" /\ call'[t].op = o /\ pc[t] = "idle"
    BY <1>1 DEF Request, Goto, CountTypes
  <2>4. /\ t \notin Calling(op) /\ t \notin Handling(op) /\ t \notin Handling(op)'
        /\ t \in Calling(op)' <=> op = o
    BY <2>3 DEF Calling, Handling
  <2>5. gateway'[op].requests = gateway[op].requests + (IF op = o THEN 1 ELSE 0)
    BY <1>1 DEF Request, CountTypes
  <2>6. Moved(Calling(op), Calling(op)', t) /\ Moved(Handling(op), Handling(op)', t)
    BY <1>2, CallMovesOn
  <2>7. Requests(op) \in Nat /\ Answered(op) \in Nat /\ gateway[op].requests \in Nat
    BY <1>1, CountedNumbers
  <2>8. /\ Cardinality(Calling(op)) \in Nat /\ Cardinality(Calling(op)') \in Nat
        /\ Cardinality(Handling(op)) \in Nat /\ Cardinality(Handling(op)') \in Nat
    BY <2>6 DEF Moved
  <2> QED
    BY <2>1, <2>2, <2>4, <2>5, <2>6, <2>7, <2>8 DEF Accounts, Moved
<1> QED
  BY <1>3 DEF Accounted

LEMMA ReceiveAccounted ==
  ASSUME Inv, Accounted, NEW t \in Threads, Receive(t)
  PROVE  Accounted'
<1> DEFINE o == call[t].op
<1>1. CountTypes /\ CountTypes' /\ o \in Operations
  BY ReceiveInv DEF Inv, CountTypes, Receive
<1>2. OthersStay(t)
  BY <1>1 DEF Receive, Goto, CountTypes, OthersStay
<1>3. ASSUME NEW op \in Operations PROVE Accounts(op)'
  <2>1. Accounts(op)
    BY DEF Accounted
  <2>2. /\ Requests(op)' = Requests(op) + (IF op = o THEN 1 ELSE 0)
        /\ Answered(op)' = Answered(op)
    <3>1. \A c \in Counters : counters'[c] = IF c = <<o, "requests">> THEN counters[c] + 1 ELSE counters[c]
      <4> HIDE DEF o
      <4> QED
        BY <1>1 DEF Receive, Increment, CountTypes, o
    <3>2. \A what \in {"requests", Success(op), Failure(op), "errors"} : <<op, what>> \in Counters
      BY CountsAreNumbers, <1>1 DEF Outcomes
    <3>3. Success(op) # "requests" /\ Failure(op) # "requests"
      BY DEF Success, Failure
    <3>4. \A what : <<op, what>> = <<o, "requests">> <=> op = o /\ what = "requests"
      OBVIOUS
    <3>5. \A what \in {Success(op), Failure(op), "errors"} : counters'[<<op, what>>] = counters[<<op, what>>]
      BY <3>1, <3>2, <3>3, <3>4
    <3>6. counters'[<<op, "requests">>] = counters[<<op, "requests">>] + (IF op = o THEN 1 ELSE 0)
      <4> HIDE DEF o
      <4>1. counters[<<op, "requests">>] \in Nat
        BY <1>1, CountedNumbers DEF Requests
      <4> QED
        BY <3>1, <3>2, <3>4, <4>1
    <3> QED
      BY <3>5, <3>6 DEF Requests, Answered
  <2>3. pc[t] = "calling" /\ pc'[t] = "handling" /\ call'[t] = call[t]
    BY <1>1 DEF Receive, Goto, CountTypes
  <2>4. /\ t \in Calling(op) <=> op = o
        /\ t \in Handling(op)' <=> op = o
        /\ t \notin Handling(op) /\ t \notin Calling(op)'
    BY <2>3 DEF Calling, Handling
  <2>5. gateway' = gateway
    BY DEF Receive
  <2> HIDE DEF o
  <2>6. Moved(Calling(op), Calling(op)', t) /\ Moved(Handling(op), Handling(op)', t)
    BY <1>2, CallMovesOn
  <2>7. Requests(op) \in Nat /\ Answered(op) \in Nat /\ gateway[op].requests \in Nat
    BY <1>1, CountedNumbers
  <2>8. /\ Cardinality(Calling(op)) \in Nat /\ Cardinality(Calling(op)') \in Nat
        /\ Cardinality(Handling(op)) \in Nat /\ Cardinality(Handling(op)') \in Nat
    BY <2>6 DEF Moved
  <2> QED
    BY <2>1, <2>2, <2>4, <2>5, <2>6, <2>7, <2>8 DEF Accounts, Moved
<1> QED
  BY <1>3 DEF Accounted

LEMMA HandleAccounted ==
  ASSUME Inv, Accounted, NEW t \in Threads, pc[t] = "handling", NEW outcome \in Outcomes(call[t].op),
         Handle(t, outcome)
  PROVE  Accounted'
<1> DEFINE o == call[t].op
<1>1. CountTypes /\ CountTypes' /\ o \in Operations
  BY HandleInv DEF Inv, CountTypes
<1>2. OthersStay(t)
  BY <1>1 DEF Handle, Goto, CountTypes, OthersStay
<1>3. ASSUME NEW op \in Operations PROVE Accounts(op)'
  <2>1. Accounts(op)
    BY DEF Accounted
  <2>2. /\ Requests(op)' = Requests(op)
        /\ Answered(op)' = Answered(op) + (IF op = o THEN 1 ELSE 0)
    <3> DEFINE s == Success(op)
               f == Failure(op)
    <3>1. \A c \in Counters : counters'[c] = IF c = <<o, outcome>> THEN counters[c] + 1 ELSE counters[c]
      <4> HIDE DEF o
      <4> QED
        BY <1>1 DEF Handle, Increment, CountTypes, o
    <3>2. \A what \in {"requests", s, f, "errors"} :
            <<op, what>> \in Counters /\ counters[<<op, what>>] \in Nat
      BY CountsAreNumbers, <1>1 DEF Outcomes
    <3>3. /\ s # "requests" /\ f # "requests" /\ s # f /\ s # "errors" /\ f # "errors"
      BY DEF Success, Failure
    <3>4. op = o => outcome \in {s, f, "errors"}
      BY DEF Outcomes
    <3>5. \A what : <<op, what>> = <<o, outcome>> <=> op = o /\ what = outcome
      OBVIOUS
    <3> HIDE DEF o, s, f
    <3>6. \A what \in {"requests", s, f, "errors"} :
            counters'[<<op, what>>] = IF op = o /\ what = outcome THEN counters[<<op, what>>] + 1
                                      ELSE counters[<<op, what>>]
      BY <3>1, <3>2, <3>5
    <3>7. op # o => \A what \in {"requests", s, f, "errors"} : counters'[<<op, what>>] = counters[<<op, what>>]
      BY <3>6
    <3>8. /\ Requests(op) = counters[<<op, "requests">>] /\ Requests(op)' = counters'[<<op, "requests">>]
          /\ Answered(op) = counters[<<op, s>>] + counters[<<op, f>>] + counters[<<op, "errors">>]
          /\ Answered(op)' = counters'[<<op, s>>] + counters'[<<op, f>>] + counters'[<<op, "errors">>]
      BY DEF Requests, Answered, s, f
    <3>9. CASE op = o
      <4>1. CASE outcome = s
        BY <3>2, <3>3, <3>6, <3>8, <3>9, <4>1
      <4>2. CASE outcome = f
        BY <3>2, <3>3, <3>6, <3>8, <3>9, <4>2
      <4>3. CASE outcome = "errors"
        BY <3>2, <3>3, <3>6, <3>8, <3>9, <4>3
      <4> QED
        BY <3>4, <3>9, <4>1, <4>2, <4>3
    <3>10. CASE op # o
      BY <3>2, <3>7, <3>8, <3>10
    <3> QED
      BY <3>9, <3>10
  <2>3. pc'[t] = "replying"
    BY <1>1 DEF Handle, Goto, CountTypes
  <2>4. /\ t \notin Calling(op) /\ t \notin Calling(op)' /\ t \notin Handling(op)'
        /\ t \in Handling(op) <=> op = o
    BY <2>3 DEF Calling, Handling
  <2>5. gateway' = gateway
    BY DEF Handle
  <2> HIDE DEF o
  <2>6. Moved(Calling(op), Calling(op)', t) /\ Moved(Handling(op), Handling(op)', t)
    BY <1>2, CallMovesOn
  <2>7. Requests(op) \in Nat /\ Answered(op) \in Nat /\ gateway[op].requests \in Nat
    BY <1>1, CountedNumbers
  <2>8. /\ Cardinality(Calling(op)) \in Nat /\ Cardinality(Calling(op)') \in Nat
        /\ Cardinality(Handling(op)) \in Nat /\ Cardinality(Handling(op)') \in Nat
    BY <2>6 DEF Moved
  <2> QED
    BY <2>1, <2>2, <2>4, <2>5, <2>6, <2>7, <2>8 DEF Accounts, Moved
<1> QED
  BY <1>3 DEF Accounted

\* Calls that end before they are received or after they are handled.
LEMMA EndAccounted ==
  ASSUME Inv, Inv', Accounted, UNCHANGED counters,
         \A op \in Operations : /\ gateway'[op].requests = gateway[op].requests
                                /\ Calling(op)' \subseteq Calling(op)
                                /\ Handling(op)' = Handling(op)
  PROVE  Accounted'
<1>1. ASSUME NEW op \in Operations PROVE Accounts(op)'
  <2>1. Accounts(op) /\ CountTypes /\ CountTypes'
    BY DEF Accounted, Inv
  <2>2. Requests(op)' = Requests(op) /\ Answered(op)' = Answered(op)
    BY DEF Requests, Answered
  <2>3. Calling(op) \in SUBSET Threads
    BY DEF Calling
  <2>4. /\ Cardinality(Calling(op)') <= Cardinality(Calling(op))
        /\ Cardinality(Calling(op)) \in Nat /\ Cardinality(Calling(op)') \in Nat
    BY <2>3, FewerCalls
  <2>5. Requests(op) \in Nat /\ gateway[op].requests \in Nat
    BY <2>1, CountedNumbers
  <2> QED
    BY <2>1, <2>2, <2>4, <2>5 DEF Accounts
<1> QED
  BY <1>1 DEF Accounted

LEMMA ReplyAccounted ==
  ASSUME Inv, Accounted, NEW t \in Threads, Reply(t)
  PROVE  Accounted'
<1>1. CountTypes /\ Inv' /\ call[t].op \in Operations
  BY ReplyInv DEF Inv, CountTypes, Reply
<1>2. ASSUME NEW op \in Operations
      PROVE  /\ gateway'[op].requests = gateway[op].requests
             /\ Calling(op)' \subseteq Calling(op)
             /\ Handling(op)' = Handling(op)
  <2>1. gateway'[op].requests = gateway[op].requests
    BY <1>1 DEF Reply, CountTypes
  <2>2. Calling(op)' \subseteq Calling(op) /\ Handling(op)' = Handling(op)
    BY <1>1 DEF Reply, Return, Goto, CountTypes, Calling, Handling
  <2> QED
    BY <2>1, <2>2
<1> QED
  BY <1>1, <1>2, EndAccounted DEF Reply

LEMMA BreakAccounted ==
  ASSUME Inv, Accounted, NEW t \in Threads, Break(t)
  PROVE  Accounted'
<1>1. CountTypes /\ Inv'
  BY BreakInv DEF Inv
<1>2. ASSUME NEW op \in Operations
      PROVE  Calling(op)' \subseteq Calling(op) /\ Handling(op)' = Handling(op)
  BY <1>1 DEF Break, Return, Goto, CountTypes, Calling, Handling
<1> QED
  BY <1>1, <1>2, EndAccounted DEF Break

LEMMA CrashAccounted ==
  ASSUME Inv, Accounted, Crash
  PROVE  Accounted'
<1>1. CountTypes /\ CountTypes'
  BY CrashInv DEF Inv
<1>2. ASSUME NEW op \in Operations PROVE Accounts(op)'
  <2>1. Accounts(op)
    BY DEF Accounted
  <2>2. Requests(op)' = 0 /\ Answered(op)' = 0
    <3>1. \A what \in {"requests", Success(op), Failure(op), "errors"} : <<op, what>> \in Counters
      BY CountsAreNumbers, <1>1 DEF Outcomes
    <3>2. \A what \in {"requests", Success(op), Failure(op), "errors"} : counters'[<<op, what>>] = 0
      BY <3>1 DEF Crash, Zero
    <3> QED
      BY <3>2 DEF Requests, Answered
  <2>3. Calling(op)' = Calling(op) /\ Handling(op)' = {}
    BY DEF Crash, Calling, Handling
  <2>4. gateway' = gateway
    BY DEF Crash
  <2>5. Requests(op) \in Nat /\ gateway[op].requests \in Nat /\ Cardinality(Calling(op)) \in Nat
    BY <1>1, CountedNumbers
  <2>6. Cardinality(Handling(op)') = 0
    BY <2>3, FS_EmptySet
  <2> QED
    BY <2>1, <2>2, <2>3, <2>4, <2>5, <2>6 DEF Accounts
<1> QED
  BY <1>2 DEF Accounted

LEMMA NextAccounted ==
  ASSUME Inv, Accounted, [Next]_vars
  PROVE  Accounted'
<1>1. ASSUME NEW t \in Threads, NEW op \in Operations, Request(t, op) PROVE Accounted'
  BY <1>1, RequestAccounted
<1>2. ASSUME NEW t \in Threads, Receive(t) PROVE Accounted'
  BY <1>2, ReceiveAccounted
<1>3. ASSUME NEW t \in Threads, pc[t] = "handling", NEW outcome \in Outcomes(call[t].op),
             Handle(t, outcome)
      PROVE  Accounted'
  BY <1>3, HandleAccounted
<1>4. ASSUME NEW t \in Threads, Reply(t) PROVE Accounted'
  BY <1>4, ReplyAccounted
<1>5. ASSUME NEW t \in Threads, Break(t) PROVE Accounted'
  BY <1>5, BreakAccounted
<1>6. CASE Crash
  BY <1>6, CrashAccounted
<1>7. ASSUME UNCHANGED <<counters, gateway, calls, earlier>> PROVE Accounted'
  <2>1. Inv'
    BY <1>7, Aside
  <2>2. \A op \in Operations : Calling(op)' = Calling(op) /\ Handling(op)' = Handling(op)
    BY <1>7 DEF calls, Calling, Handling
  <2> QED
    BY <1>7, <2>1, <2>2, EndAccounted
<1>8. CASE \E c \in Scrapers : Connect(c) \/ SendRequest(c)
  BY <1>7, <1>8 DEF Connect, SendRequest
<1>9. CASE Accept \/ Read \/ Collect \/ Send
  BY <1>7, <1>9 DEF Accept, Read, Collect, Send
<1>10. CASE UNCHANGED vars
  BY <1>7, <1>10 DEF vars
<1> QED
  BY <1>1, <1>2, <1>3, <1>4, <1>5, <1>6, <1>8, <1>9, <1>10 DEF Next

-----------------------------------------------------------------------------
(***************************************************************************)
(* The snapshot, while handlers go on counting.  Outcomes are loaded after  *)
(* the requests, so at most the calls that were being handled when the      *)
(* requests were loaded are missing.                                        *)
(***************************************************************************)
Missing(op) ==
  snapshot[Offset(op) + 1]
    - (Loaded(Offset(op) + 2) + Loaded(Offset(op) + 3) + Loaded(Offset(op) + 4))

Scraping ==
  /\ snapshot \in Seq(0..MaxRequests) /\ Len(snapshot) <= Len(Exported)
  /\ \A i \in 1..Len(snapshot) : snapshot[i] <= counters[Exported[i]]
  /\ \A op \in Operations : Offset(op) + 1 <= Len(snapshot) => Missing(op) <= Cardinality(Threads)

\* The requests of the gateway are bounded, and the exporter has its types.
Serving ==
  /\ broken \subseteq Threads
  /\ crashes \in 0..MaxCrashes
  /\ backlog \in Seq(Scrapers) /\ sent \subseteq Scrapers
  /\ serving \in {"accept", "read", "collect"}
  /\ serving # "accept" => backlog # <<>>
  /\ SumFunction([op \in Operations |-> gateway[op].requests]) <= MaxRequests

AccountInv == Inv /\ Accounted /\ Scraping /\ Serving

LEMMA OperationsFinite == IsFiniteSet(Operations)
<1>1. IsFiniteSet({"submit", "cancel", "modify"})
  <2>1. IsFiniteSet({"submit"})
    BY FS_Singleton
  <2>2. IsFiniteSet({"submit"} \cup {"cancel"})
    BY <2>1, FS_AddElement
  <2>3. IsFiniteSet(({"submit"} \cup {"cancel"}) \cup {"modify"})
    BY <2>2, FS_AddElement
  <2>4. ({"submit"} \cup {"cancel"}) \cup {"modify"} = {"submit", "cancel", "modify"}
    OBVIOUS
  <2> QED
    BY <2>3, <2>4
<1> QED
  BY <1>1, OperationsAssumption, FS_Subset

LEMMA RequestsBounded ==
  ASSUME CountTypes, Serving, NEW op \in Operations
  PROVE  gateway[op].requests \in 0..MaxRequests
<1> DEFINE f == [o \in Operations |-> gateway[o].requests]
<1>1. IsFiniteSet(Operations)
  BY OperationsFinite
<1>2. DOMAIN f = Operations /\ \A o \in Operations : f[o] = gateway[o].requests /\ f[o] \in Nat
  BY CountedNumbers
<1>3. SumFunctionOnSet(f, DOMAIN f) <= MaxRequests
  BY DEF Serving, SumFunction
<1> HIDE DEF f
<1>4. SumFunctionOnSet(f, Operations) \in Nat /\ f[op] <= SumFunctionOnSet(f, Operations)
  BY <1>1, <1>2, SumOfNaturals
<1> QED
  BY <1>2, <1>3, <1>4, BoundsAssumption

LEMMA CountersBounded ==
  ASSUME CountTypes, Accounted, Serving
  PROVE  counters \in [Counters -> 0..MaxRequests]
<1>1. ASSUME NEW c \in Counters PROVE counters[c] \in 0..MaxRequests
  <2>1. PICK op \in Operations : c \in {op} \X ({"requests"} \cup Outcomes(op))
    BY DEF Counters
  <2>2. PICK what \in {"requests"} \cup Outcomes(op) : c = <<op, what>>
    <3>1. c = <<c[1], c[2]>> /\ c[1] = op /\ c[2] \in {"requests"} \cup Outcomes(op)
      BY <2>1
    <3> QED
      BY <3>1
  <2>3. what \in {"requests", Success(op), Failure(op), "errors"}
    BY <2>2 DEF Outcomes
  <2>4. gateway[op].requests \in 0..MaxRequests
    BY RequestsBounded
  <2>5. /\ Requests(op) = Answered(op) + Cardinality(Handling(op))
        /\ Requests(op) + Cardinality(Calling(op)) <= gateway[op].requests
    BY DEF Accounted, Accounts
  <2>6. /\ Requests(op) \in Nat /\ Answered(op) \in Nat
        /\ counters[<<op, Success(op)>>] \in Nat /\ counters[<<op, Failure(op)>>] \in Nat
        /\ counters[<<op, "errors">>] \in Nat
        /\ Cardinality(Calling(op)) \in Nat /\ Cardinality(Handling(op)) \in Nat
    BY CountedNumbers
  <2>7. Requests(op) \in 0..MaxRequests /\ Answered(op) \in 0..MaxRequests
    BY <2>4, <2>5, <2>6, BoundsAssumption
  <2>8. /\ counters[<<op, "requests">>] \in 0..MaxRequests
        /\ counters[<<op, Success(op)>>] \in 0..MaxRequests
        /\ counters[<<op, Failure(op)>>] \in 0..MaxRequests
        /\ counters[<<op, "errors">>] \in 0..MaxRequests
    BY <2>6, <2>7, BoundsAssumption DEF Requests, Answered
  <2> QED
    BY <2>2, <2>3, <2>8
<1> QED
  BY <1>1 DEF CountTypes

LEMMA LoadedNumbers ==
  ASSUME CountTypes, Scraping, NEW i \in 1..Len(Exported)
  PROVE  /\ Exported[i] \in Counters /\ counters[Exported[i]] \in Nat
         /\ i <= Len(snapshot) => snapshot[i] \in Nat
         /\ Loaded(i) \in Nat
<1>1. Exported[i] \in Counters
  BY ExportedIs, ElementOfSeq
<1>2. counters[Exported[i]] \in Nat
  BY <1>1 DEF CountTypes
<1>3. snapshot \in Seq(0..MaxRequests) /\ Len(snapshot) \in Nat
  BY LenProperties DEF Scraping
<1>4. ASSUME i <= Len(snapshot) PROVE snapshot[i] \in Nat
  <2>1. i \in 1..Len(snapshot)
    BY <1>3, <1>4
  <2>2. snapshot[i] \in 0..MaxRequests
    BY <1>3, <2>1, ElementOfSeq
  <2> QED
    BY <2>2, BoundsAssumption
<1> QED
  BY <1>1, <1>2, <1>4 DEF Loaded

\* Counters that only grow leave a snapshot right.
LEMMA GrowKeepsScraping ==
  ASSUME CountTypes, CountTypes', Scraping, UNCHANGED snapshot,
         \A c \in Counters : counters[c] <= counters'[c]
  PROVE  Scraping'
<1>1. Len(Exported) \in Nat /\ Len(snapshot) \in Nat
  BY ExportedIs, LenProperties DEF Scraping
<1>2. ASSUME NEW i \in 1..Len(Exported)
      PROVE  /\ counters[Exported[i]] <= counters'[Exported[i]]
             /\ counters[Exported[i]] \in Nat /\ counters'[Exported[i]] \in Nat
             /\ Loaded(i) \in Nat /\ Loaded(i)' \in Nat /\ Loaded(i) <= Loaded(i)'
  <2>1. Exported[i] \in Counters /\ counters[Exported[i]] \in Nat /\ Loaded(i) \in Nat
    BY LoadedNumbers
  <2>2. counters'[Exported[i]] \in Nat /\ counters[Exported[i]] <= counters'[Exported[i]]
    BY <2>1 DEF CountTypes
  <2>3. i <= Len(snapshot) => snapshot[i] \in Nat
    BY LoadedNumbers
  <2> QED
    BY <2>1, <2>2, <2>3 DEF Loaded
<1>3. ASSUME NEW i \in 1..Len(snapshot)
      PROVE  snapshot[i] <= counters'[Exported[i]]
  <2>1. i \in 1..Len(Exported) /\ i <= Len(snapshot)
    BY <1>1 DEF Scraping
  <2>2. snapshot[i] \in Nat /\ snapshot[i] <= counters[Exported[i]]
    BY <2>1, LoadedNumbers DEF Scraping
  <2> QED
    BY <1>2, <2>1, <2>2
<1>4. ASSUME NEW op \in Operations, Offset(op) + 1 <= Len(snapshot)
      PROVE  Missing(op)' <= Cardinality(Threads)
  <2> DEFINE k == Offset(op)
             a == Loaded(k + 2)
             b == Loaded(k + 3)
             c == Loaded(k + 4)
  <2>1. /\ k + 1 \in 1..Len(Exported) /\ k + 2 \in 1..Len(Exported)
        /\ k + 3 \in 1..Len(Exported) /\ k + 4 \in 1..Len(Exported)
    BY <1>1, OffsetIs
  <2>2. Missing(op) = snapshot[k + 1] - (a + b + c) /\ Missing(op)' = snapshot[k + 1] - (a' + b' + c')
    BY DEF Missing
  <2>3. snapshot[k + 1] \in Nat
    BY <1>4, <2>1, LoadedNumbers
  <2>4. Missing(op) <= Cardinality(Threads) /\ Cardinality(Threads) \in Nat
    BY <1>4, CountedNumbers DEF Scraping
  <2>5. /\ a \in Nat /\ b \in Nat /\ c \in Nat /\ a' \in Nat /\ b' \in Nat /\ c' \in Nat
        /\ a <= a' /\ b <= b' /\ c <= c'
    BY <1>2, <2>1
  <2> HIDE DEF a, b, c, k
  <2> QED
    BY <2>2, <2>3, <2>4, <2>5
<1> QED
  BY <1>3, <1>4 DEF Scraping

LEMMA EmptyScraping == (snapshot = <<>> => Scraping) /\ (snapshot' = <<>> => Scraping')
<1>1. <<>> \in Seq(0..MaxRequests) /\ Len(<<>>) = 0
  BY EmptySeq
<1>2. \A op \in Operations : ~(Offset(op) + 1 <= 0)
  BY OffsetIs
<1>3. Len(Exported) \in Nat
  BY ExportedIs, LenProperties
<1>4. ASSUME snapshot = <<>> PROVE Scraping
  <2>1. snapshot \in Seq(0..MaxRequests) /\ Len(snapshot) = 0
    BY <1>1, <1>4
  <2> QED
    BY <1>2, <1>3, <2>1 DEF Scraping
<1>5. ASSUME snapshot' = <<>> PROVE Scraping'
  <2>1. snapshot' \in Seq(0..MaxRequests) /\ Len(snapshot') = 0
    BY <1>1, <1>5
  <2> QED
    BY <1>2, <1>3, <2>1 DEF Scraping
<1> QED
  BY <1>4, <1>5

LEMMA CollectKeepsScraping ==
  ASSUME AccountInv, Collect
  PROVE  Scraping'
<1> DEFINE n == Len(snapshot) + 1
           v == counters[Exported[n]]
<1>1. CountTypes /\ Scraping /\ counters \in [Counters -> 0..MaxRequests]
  BY CountersBounded DEF AccountInv, Inv
<1>2. /\ snapshot \in Seq(0..MaxRequests) /\ Len(snapshot) \in Nat /\ Len(Exported) \in Nat
      /\ n \in 1..Len(Exported)
  BY <1>1, ExportedIs, LenProperties DEF Scraping, Collect
<1>3. v \in 0..MaxRequests
  BY <1>1, <1>2, LoadedNumbers
<1>4. /\ snapshot' \in Seq(0..MaxRequests) /\ Len(snapshot') = n
      /\ \A i \in 1..Len(snapshot) : snapshot'[i] = snapshot[i]
      /\ snapshot'[n] = v
  BY <1>2, <1>3, AppendProperties DEF Collect
<1>5. counters' = counters
  BY DEF Collect
<1> HIDE DEF v
<1>6. ASSUME NEW i \in 1..Len(snapshot')
      PROVE  snapshot'[i] <= counters'[Exported[i]]
  <2>1. CASE i = n
    BY <1>3, <1>4, <1>5, <2>1, BoundsAssumption DEF v
  <2>2. CASE i # n
    <3>1. i \in 1..Len(snapshot)
      BY <1>2, <1>4, <2>2
    <3> QED
      BY <1>1, <1>4, <1>5, <3>1 DEF Scraping
  <2> QED
    BY <2>1, <2>2
<1>7. ASSUME NEW i \in 1..Len(Exported)
      PROVE  Loaded(i)' = Loaded(i)
  <2>1. CASE i = n
    BY <1>2, <1>4, <1>5, <2>1 DEF Loaded, v
  <2>2. CASE i # n /\ i <= Len(snapshot)
    <3>1. i \in 1..Len(snapshot) /\ i <= n
      BY <1>2, <2>2
    <3> QED
      BY <1>4, <2>2, <3>1 DEF Loaded
  <2>3. CASE i # n /\ ~(i <= Len(snapshot))
    <3>1. ~(i <= n)
      BY <1>2, <2>3
    <3> QED
      BY <1>4, <1>5, <2>3, <3>1 DEF Loaded
  <2> QED
    BY <2>1, <2>2, <2>3
<1>8. ASSUME NEW op \in Operations, Offset(op) + 1 <= Len(snapshot')
      PROVE  Missing(op)' <= Cardinality(Threads)
  <2> DEFINE k == Offset(op)
  <2>1. /\ k \in Nat /\ k + 1 \in 1..Len(Exported) /\ k + 2 \in 1..Len(Exported)
        /\ k + 3 \in 1..Len(Exported) /\ k + 4 \in 1..Len(Exported)
    BY <1>2, OffsetIs
  <2>2. /\ Loaded(k + 2)' = Loaded(k + 2) /\ Loaded(k + 3)' = Loaded(k + 3)
        /\ Loaded(k + 4)' = Loaded(k + 4)
    BY <1>7, <2>1
  <2>3. CASE k + 1 <= Len(snapshot)
    <3>1. snapshot'[k + 1] = snapshot[k + 1]
      BY <1>2, <1>4, <2>1, <2>3
    <3>2. Missing(op)' = Missing(op)
      BY <2>2, <3>1 DEF Missing
    <3> QED
      BY <1>1, <2>3, <3>2 DEF Scraping
  <2>4. CASE ~(k + 1 <= Len(snapshot))
    <3>1. k + 1 = n
      BY <1>2, <1>4, <1>8, <2>1, <2>4
    <3>2. snapshot'[k + 1] = Requests(op)
      BY <1>4, <3>1, PlaceOfCounter DEF v, Requests
    <3>3. /\ Loaded(k + 2) = counters[<<op, Success(op)>>]
          /\ Loaded(k + 3) = counters[<<op, Failure(op)>>]
          /\ Loaded(k + 4) = counters[<<op, "errors">>]
      <4>1. ~(k + 2 <= Len(snapshot)) /\ ~(k + 3 <= Len(snapshot)) /\ ~(k + 4 <= Len(snapshot))
        BY <1>2, <2>1, <2>4
      <4> QED
        BY <4>1, PlaceOfCounter DEF Loaded
    <3>4. Missing(op)' = Requests(op) - Answered(op)
      BY <2>2, <3>2, <3>3 DEF Missing, Answered
    <3>5. Requests(op) = Answered(op) + Cardinality(Handling(op))
      BY DEF AccountInv, Accounted, Accounts
    <3>6. /\ Answered(op) \in Nat /\ Cardinality(Handling(op)) \in Nat
          /\ Cardinality(Handling(op)) <= Cardinality(Threads)
      BY <1>1, CountedNumbers
    <3> QED
      BY <3>4, <3>5, <3>6
  <2> QED
    BY <2>3, <2>4
<1> QED
  BY <1>2, <1>4, <1>6, <1>8 DEF Scraping

LEMMA NextScraping ==
  ASSUME AccountInv, [Next]_vars
  PROVE  Scraping'
<1>1. CountTypes /\ CountTypes' /\ Scraping /\ counters \in [Counters -> Nat]
  BY NextInv DEF AccountInv, Inv, CountTypes
<1>2. ASSUME UNCHANGED snapshot, \A c \in Counters : counters[c] <= counters'[c]
      PROVE  Scraping'
  BY <1>1, <1>2, GrowKeepsScraping
<1>3. ASSUME UNCHANGED <<snapshot, counters>> PROVE Scraping'
  BY <1>1, <1>2, <1>3
<1>4. ASSUME NEW o, NEW what, Increment(o, what), UNCHANGED snapshot PROVE Scraping'
  <2>1. \A c \in Counters : counters[c] <= counters'[c]
    BY <1>1, <1>4 DEF Increment
  <2> QED
    BY <1>2, <1>4, <2>1
<1>5. ASSUME NEW t \in Threads, NEW op \in Operations, Request(t, op) PROVE Scraping'
  BY <1>3, <1>5 DEF Request, exporter
<1>6. ASSUME NEW t \in Threads, Receive(t) PROVE Scraping'
  BY <1>4, <1>6 DEF Receive, exporter
<1>7. ASSUME NEW t \in Threads, NEW outcome, Handle(t, outcome) PROVE Scraping'
  BY <1>4, <1>7 DEF Handle, exporter
<1>8. ASSUME NEW t \in Threads, Reply(t) \/ Break(t) PROVE Scraping'
  BY <1>3, <1>8 DEF Reply, Break, exporter
<1>9. CASE Crash \/ Send
  <2>1. snapshot' = <<>>
    BY <1>9 DEF Crash, Send
  <2> QED
    BY <2>1, EmptyScraping
<1>10. CASE \E c \in Scrapers : Connect(c) \/ SendRequest(c)
  BY <1>3, <1>10 DEF Connect, SendRequest
<1>11. CASE Accept \/ Read
  BY <1>3, <1>11 DEF Accept, Read
<1>12. CASE Collect
  BY <1>12, CollectKeepsScraping
<1>13. CASE UNCHANGED vars
  BY <1>3, <1>13 DEF vars, exporter
<1> QED
  BY <1>5, <1>6, <1>7, <1>8, <1>9, <1>10, <1>11, <1>12, <1>13 DEF Next

-----------------------------------------------------------------------------
(* The exporter and the bound of the requests *)

LEMMA RequestServing ==
  ASSUME Inv, Serving, NEW t \in Threads, NEW o \in Operations, Request(t, o)
  PROVE  Serving'
<1> DEFINE f == [op \in Operations |-> gateway[op].requests]
<1>1. CountTypes /\ gateway \in [Operations -> [requests : Nat, accepted : Nat, refused : Nat]]
  BY DEF Inv, CountTypes
<1>2. /\ SumFunctionOnSet(f, Operations) < MaxRequests
      /\ gateway' = [gateway EXCEPT ![o].requests = @ + 1]
  BY DEF Request, SumFunction
<1>3. \A op \in Operations : /\ f[op] \in Int /\ f'[op] \in Int
                             /\ f'[op] = IF op = o THEN f[op] + 1 ELSE f[op]
  BY <1>1, <1>2
<1>4. SumFunction([op \in Operations |-> gateway[op].requests])' = SumFunctionOnSet(f', Operations)
  BY DEF SumFunction
<1>5. IsFiniteSet(Operations)
  BY OperationsFinite
<1> HIDE DEF f
<1>6. SumFunctionOnSet(f', Operations) = SumFunctionOnSet(f, Operations) - f[o] + f'[o]
  BY <1>3, <1>5, SumAfterChange
<1>7. SumFunctionOnSet(f, Operations) \in Int
  BY <1>3, <1>5, SumType
<1>8. SumFunctionOnSet(f', Operations) <= MaxRequests
  BY <1>2, <1>3, <1>6, <1>7, BoundsAssumption
<1> QED
  BY <1>4, <1>8 DEF Serving, Request, exporter

LEMMA RequestsStay ==
  ASSUME \A op \in Operations : gateway'[op].requests = gateway[op].requests
  PROVE  SumFunction([op \in Operations |-> gateway[op].requests])'
           = SumFunction([op \in Operations |-> gateway[op].requests])
OBVIOUS

LEMMA NextServing ==
  ASSUME Inv, Serving, [Next]_vars
  PROVE  Serving'
<1>1. CountTypes
  BY DEF Inv
<1>2. backlog # <<>> => Tail(backlog) \in Seq(Scrapers)
  BY HeadTailProperties DEF Serving
<1>3. ASSUME UNCHANGED <<crashes, exporter>>, broken' \subseteq Threads,
             \A op \in Operations : gateway'[op].requests = gateway[op].requests
      PROVE  Serving'
  BY <1>3, RequestsStay DEF Serving, exporter
<1>4. ASSUME NEW t \in Threads, NEW op \in Operations, Request(t, op) PROVE Serving'
  BY <1>4, RequestServing
<1>5. ASSUME NEW t \in Threads, Receive(t) PROVE Serving'
  BY <1>3, <1>5 DEF Receive, Serving
<1>6. ASSUME NEW t \in Threads, NEW outcome, Handle(t, outcome) PROVE Serving'
  BY <1>3, <1>6 DEF Handle, Serving
<1>7. ASSUME NEW t \in Threads, Reply(t) PROVE Serving'
  <2>1. call[t].op \in Operations
    BY <1>1, <1>7 DEF Reply, CountTypes
  <2>2. \A op \in Operations : gateway'[op].requests = gateway[op].requests
    BY <1>1, <1>7, <2>1 DEF Reply, CountTypes
  <2> QED
    BY <1>3, <1>7, <2>2 DEF Reply, Return, Serving
<1>8. ASSUME NEW t \in Threads, Break(t) PROVE Serving'
  BY <1>3, <1>8 DEF Break, Return, Serving
<1>9. CASE Crash
  <2>1. \A op \in Operations : gateway'[op].requests = gateway[op].requests
    BY <1>9 DEF Crash
  <2>2. /\ broken' \subseteq Threads /\ crashes' \in 0..MaxCrashes
        /\ backlog' \in Seq(Scrapers) /\ sent' \subseteq Scrapers /\ serving' = "accept"
    BY <1>9, BoundsAssumption, EmptySeq DEF Crash, Serving
  <2> QED
    BY <2>1, <2>2, RequestsStay DEF Serving
<1>10. CASE \/ \E c \in Scrapers : Connect(c) \/ SendRequest(c)
            \/ Accept \/ Read \/ Collect \/ Send
  <2>1. UNCHANGED <<gateway, calls, crashes>>
    BY <1>10 DEF Connect, SendRequest, Accept, Read, Collect, Send
  <2>2. ASSUME NEW c \in Scrapers, Connect(c)
        PROVE  Append(backlog, c) \in Seq(Scrapers) /\ Append(backlog, c) # <<>>
    <3>1. /\ backlog \in Seq(Scrapers) /\ Len(backlog) \in Nat
          /\ Append(backlog, c) \in Seq(Scrapers) /\ Len(Append(backlog, c)) = Len(backlog) + 1
      BY AppendProperties, LenProperties DEF Serving
    <3> QED
      BY <3>1
  <2>3. /\ backlog' \in Seq(Scrapers) /\ sent' \subseteq Scrapers
        /\ serving' \in {"accept", "read", "collect"}
        /\ serving' # "accept" => backlog' # <<>>
    BY <1>2, <1>10, <2>2 DEF Serving, Connect, SendRequest, Accept, Read, Collect, Send
  <2> QED
    BY <2>1, <2>3, RequestsStay DEF Serving, calls
<1>11. CASE UNCHANGED vars
  BY <1>3, <1>11 DEF vars, calls, Serving
<1> QED
  BY <1>4, <1>5, <1>6, <1>7, <1>8, <1>9, <1>10, <1>11 DEF Next

-----------------------------------------------------------------------------
LEMMA InitAccountInv == Init => AccountInv
<1> SUFFICES ASSUME Init PROVE AccountInv
  OBVIOUS
<1>1. Inv
  BY InitInv
<1>2. ASSUME NEW op \in Operations PROVE Accounts(op)
  <2>1. \A what \in {"requests", Success(op), Failure(op), "errors"} : counters[<<op, what>>] = 0
    <3>1. CountTypes
      BY <1>1 DEF Inv
    <3>2. \A what \in {"requests", Success(op), Failure(op), "errors"} : <<op, what>> \in Counters
      BY <3>1, CountsAreNumbers DEF Outcomes
    <3> QED
      BY <3>2 DEF Init, Zero
  <2>2. Calling(op) = {} /\ Handling(op) = {}
    BY DEF Init, Calling, Handling
  <2>3. gateway[op].requests = 0
    BY DEF Init
  <2> QED
    BY <2>1, <2>2, <2>3, FS_EmptySet DEF Accounts, Requests, Answered
<1>3. Scraping
  BY EmptyScraping DEF Init
<1>4. SumFunction([op \in Operations |-> gateway[op].requests]) = 0
  <2> DEFINE f == [op \in Operations |-> gateway[op].requests]
  <2>1. DOMAIN f = Operations /\ \A op \in Operations : f[op] = 0
    BY DEF Init
  <2>2. IsFiniteSet(Operations)
    BY OperationsFinite
  <2> HIDE DEF f
  <2>3. SumFunctionOnSet(f, Operations) = 0
    BY <2>1, <2>2, SumOfZeros
  <2> QED
    BY <2>1, <2>3 DEF SumFunction, f
<1>5. Serving
  BY <1>4, BoundsAssumption, EmptySeq DEF Init, Serving
<1> QED
  BY <1>1, <1>2, <1>3, <1>5 DEF AccountInv, Accounted

LEMMA NextAccountInv == AccountInv /\ [Next]_vars => AccountInv'
BY NextInv, NextAccounted, NextScraping, NextServing DEF AccountInv

(***************************************************************************)
(* Every variable has its type: above all, the engine counts no request and *)
(* no outcome beyond the requests that clients made of the gateway, in each *)
(* of its lives.                                                            *)
(***************************************************************************)
THEOREM TypeCorrect == Spec => []TypeOK
<1>1. AccountInv => TypeOK
  <2> SUFFICES ASSUME AccountInv PROVE TypeOK
    OBVIOUS
  <2>1. CountTypes /\ counters \in [Counters -> 0..MaxRequests]
    BY CountersBounded DEF AccountInv, Inv
  <2>2. ASSUME NEW op \in Operations
        PROVE  gateway[op] \in [requests : 0..MaxRequests, accepted : 0..MaxRequests,
                                refused : 0..MaxRequests]
    <3>1. /\ gateway[op] \in [requests : Nat, accepted : Nat, refused : Nat]
          /\ Done(op) \in Nat
      BY <2>1, CountsAreNumbers
    <3>2. gateway[op].requests \in 0..MaxRequests
      BY <2>1, RequestsBounded DEF AccountInv
    <3>3. Done(op) <= gateway[op].requests - gateway[op].refused /\ gateway[op].accepted <= Done(op)
      BY InvBrackets DEF AccountInv, GatewayBrackets
    <3>4. /\ gateway[op].requests \in Nat /\ gateway[op].accepted \in Nat /\ gateway[op].refused \in Nat
      BY <3>1
    <3>5. gateway[op].accepted \in 0..MaxRequests /\ gateway[op].refused \in 0..MaxRequests
      BY <3>1, <3>2, <3>3, <3>4, BoundsAssumption
    <3> QED
      BY <3>1, <3>2, <3>5
  <2>3. gateway \in [Operations -> [requests : 0..MaxRequests, accepted : 0..MaxRequests,
                                    refused : 0..MaxRequests]]
    BY <2>1, <2>2 DEF CountTypes
  <2> QED
    BY <2>1, <2>3 DEF AccountInv, Scraping, Serving, CountTypes, Places, TypeOK
<1> QED
  BY <1>1, InitAccountInv, NextAccountInv, PTL DEF Spec

(***************************************************************************)
(* However handlers and the exporter interleave, a complete scrape shows no *)
(* more outcomes of an operation than there are requests, and misses no     *)
(* more than there can be calls at a time.                                  *)
(***************************************************************************)
THEOREM ScrapesAccount == Spec => []ScrapeAccounts
<1>1. AccountInv => ScrapeAccounts
  <2> SUFFICES ASSUME AccountInv, Len(snapshot) = Len(Exported), NEW op \in Operations
               PROVE  LET answered == Shown(op, Success(op)) + Shown(op, Failure(op)) + Shown(op, "errors")
                      IN  /\ answered <= counters[<<op, "requests">>]
                          /\ Shown(op, "requests") - answered <= Cardinality(Threads)
    BY DEF ScrapeAccounts
  <2> DEFINE k == Offset(op)
             r == snapshot[k + 1]
             a == snapshot[k + 2]
             b == snapshot[k + 3]
             c == snapshot[k + 4]
             ca == counters[<<op, Success(op)>>]
             cb == counters[<<op, Failure(op)>>]
             cc == counters[<<op, "errors">>]
  <2>1. CountTypes /\ Scraping /\ Accounts(op)
    BY DEF AccountInv, Inv, Accounted
  <2>2. /\ k + 1 \in 1..Len(Exported) /\ k + 2 \in 1..Len(Exported)
        /\ k + 3 \in 1..Len(Exported) /\ k + 4 \in 1..Len(Exported)
        /\ \A i \in 1..Len(Exported) : i <= Len(snapshot)
    BY ExportedIs, LenProperties, OffsetIs
  <2>3. r \in Nat /\ a \in Nat /\ b \in Nat /\ c \in Nat
    BY <2>1, <2>2, LoadedNumbers
  <2>4. a <= ca /\ b <= cb /\ c <= cc
    BY <2>1, <2>2, PlaceOfCounter DEF Scraping
  <2>5. Loaded(k + 2) = a /\ Loaded(k + 3) = b /\ Loaded(k + 4) = c
    BY <2>2 DEF Loaded
  <2>6. r - (a + b + c) <= Cardinality(Threads)
    BY <2>1, <2>2, <2>5 DEF Scraping, Missing
  <2>7. /\ counters[<<op, "requests">>] = ca + cb + cc + Cardinality(Handling(op))
        /\ ca \in Nat /\ cb \in Nat /\ cc \in Nat /\ Cardinality(Handling(op)) \in Nat
    BY <2>1, CountedNumbers DEF Accounts, Requests, Answered
  <2>8. /\ Shown(op, "requests") = r /\ Shown(op, Success(op)) = a
        /\ Shown(op, Failure(op)) = b /\ Shown(op, "errors") = c
    BY ShownIs
  <2> HIDE DEF k, r, a, b, c, ca, cb, cc
  <2>9. a + b + c <= counters[<<op, "requests">>]
    BY <2>3, <2>4, <2>7
  <2> QED
    BY <2>6, <2>8, <2>9
<1> QED
  BY <1>1, InitAccountInv, NextAccountInv, PTL DEF Spec

=============================================================================
