--------------------------- MODULE HftServer_proofs ---------------------------
(***************************************************************************)
(* Proofs about the HFT simulator, for any number of threads, streams and   *)
(* orders, whatever ids and quantities the orders have: nothing is used     *)
(* after it is gone, every stream gets every trade once, and what the       *)
(* variables hold has its type.                                             *)
(***************************************************************************)
EXTENDS HftServer, RestingOrders_proofs

Labels == {"idle", "add", "cancel", "match", "process", "quote", "publish", "writing", "loop",
           "returned"}

\* The types of the variables that say who is where.
ControlTypes ==
  /\ pc \in [Threads -> Labels]
  /\ writers \in [Threads -> SUBSET Streams]
  /\ rpc \in [Streams -> {"none", "opening", "open", "returned"}]
  /\ market_data_streams_ \subseteq Streams

\* broadcast_market_data holds streams_mutex_ as long as it has writers.
Locking ==
  \A t \in Threads : /\ pc[t] = "writing" <=> streams_mutex_ = t
                     /\ writers[t] # {} => pc[t] = "writing"

\* A stream is registered from the first critical section of its RPC to the second.
Registered ==
  /\ \A s \in market_data_streams_ : rpc[s] = "open"
  /\ \A t \in Threads : writers[t] \subseteq market_data_streams_

\* Once Shutdown has returned no RPC runs, and once join has, nothing does.
Stopped ==
  /\ main \in {"joining", "down"} =>
       /\ \A h \in Handlers : pc[h] = "idle"
       /\ \A s \in Streams : rpc[s] \in {"none", "returned"}
  /\ main = "down" => pc[matching_thread_] = "returned"

Inv == ControlTypes /\ Locking /\ Registered /\ Stopped

LEMMA InitInv == Init => Inv
  BY ThreadsAssumption DEF Init, Inv, ControlTypes, Locking, Registered, Stopped, Threads, Labels

\* The steps of a thread outside broadcast_market_data.
EngineStep(t) ==
  \/ EnterBook(t) \/ add_order(t) \/ cancel_order(t) \/ match_orders(t) \/ Matched(t) \/ get_quote(t)
  \/ t = matching_thread_ /\ matching_loop

\* Such a step only moves a thread that is neither idle, nor writing, nor done.
LEMMA EngineMoves ==
  ASSUME Inv, NEW t \in Threads, EngineStep(t)
  PROVE  /\ UNCHANGED <<streaming, rpc, main>>
         /\ \E label \in Labels \ {"writing"} : pc' = [pc EXCEPT ![t] = label]
         /\ pc' = pc \/ pc[t] \notin {"idle", "writing", "returned"}
<1>1. CASE EnterBook(t)
  <2>1. pc' = [pc EXCEPT ![t] = pc[t]]
    BY <1>1 DEF EnterBook, thread, Inv, ControlTypes
  <2>2. pc[t] \in Labels \ {"writing"}
    BY <1>1 DEF EnterBook, Labels
  <2> QED BY <1>1, <2>1, <2>2 DEF EnterBook, thread, streaming, clients, server
<1>2. CASE add_order(t) \/ cancel_order(t) \/ match_orders(t) \/ Matched(t) \/ get_quote(t)
  BY <1>2 DEF add_order, cancel_order, match_orders, Matched, get_quote, Leave, Goto, AfterQuote,
              streaming, clients, server, Labels, Inv, ControlTypes
<1>3. CASE t = matching_thread_ /\ matching_loop
  BY <1>3 DEF matching_loop, Goto, streaming, clients, server, Labels
<1> QED BY <1>1, <1>2, <1>3 DEF EngineStep

LEMMA EngineKeepsInv ==
  ASSUME Inv, NEW t \in Threads, EngineStep(t)
  PROVE  Inv'
<1>1. PICK label \in Labels \ {"writing"} : pc' = [pc EXCEPT ![t] = label]
  BY EngineMoves
<1>2. UNCHANGED <<market_data_streams_, streams_mutex_, writers, rpc, main>>
  BY EngineMoves DEF streaming
<1>3. pc' = pc \/ pc[t] \notin {"idle", "writing", "returned"}
  BY EngineMoves
<1>4. ControlTypes'
  BY <1>1, <1>2 DEF Inv, ControlTypes
<1>5. Locking'
  BY <1>1, <1>2, <1>3 DEF Inv, ControlTypes, Locking
<1>6. Registered'
  BY <1>2 DEF Inv, Registered
<1>7. Stopped'
  BY <1>1, <1>2, <1>3, ThreadsAssumption DEF Inv, ControlTypes, Stopped, Threads
<1> QED BY <1>4, <1>5, <1>6, <1>7 DEF Inv


LEMMA BroadcastKeepsInv ==
  ASSUME Inv, NEW t \in Threads, Broadcast(t) \/ Unlock(t) \/ \E s \in Streams : Write(t, s)
  PROVE  Inv'
<1> USE DEF Inv, ControlTypes, Locking, Registered
<1>1. CASE Broadcast(t)
  <2>1. pc[t] \notin {"idle", "writing", "returned"}
    BY <1>1 DEF Broadcast
  <2>2. ControlTypes' /\ Locking' /\ Registered'
    BY <1>1, ThreadsAssumption DEF Broadcast, Goto, Labels, clients
  <2>3. Stopped'
    BY <1>1, <2>1, ThreadsAssumption DEF Broadcast, Goto, clients, server, Stopped, Threads
  <2> QED BY <2>2, <2>3
<1>2. CASE \E s \in Streams : Write(t, s)
  BY <1>2 DEF Write, thread, clients, server, Stopped
<1>3. CASE Unlock(t)
  <2>1. PICK label \in Labels \ {"writing"} : pc' = [pc EXCEPT ![t] = label]
    BY <1>3 DEF Unlock, Goto, AfterQuote, Labels
  <2>2. pc[t] = "writing" /\ streams_mutex_ = t /\ streams_mutex_' = Nobody
    BY <1>3 DEF Unlock
  <2>3. UNCHANGED <<market_data_streams_, writers, rpc, main>>
    BY <1>3 DEF Unlock, clients, server
  <2>4. writers[t] = {}
    BY <1>3 DEF Unlock
  <2>5. ControlTypes' /\ Locking' /\ Registered'
    BY <2>1, <2>2, <2>3, <2>4, ThreadsAssumption
  <2>6. Stopped'
    BY <2>1, <2>2, <2>3, ThreadsAssumption DEF Stopped, Threads
  <2> QED BY <2>5, <2>6
<1> QED BY <1>1, <1>2, <1>3

LEMMA StreamKeepsInv ==
  ASSUME Inv, NEW s \in Streams, Open(s) \/ Cancel(s) \/ Register(s) \/ Unregister(s)
  PROVE  Inv'
<1> USE DEF Inv, ControlTypes, Locking, Registered
<1>1. CASE Open(s)
  BY <1>1 DEF Open, thread, streaming, server, Stopped
<1>2. CASE Cancel(s)
  BY <1>2 DEF Cancel, thread, streaming, server, Stopped
<1>3. CASE Register(s)
  <2>1. UNCHANGED <<pc, streams_mutex_, writers, main>>
    BY <1>3 DEF Register, thread, server
  <2>2. ControlTypes' /\ Locking' /\ Registered'
    BY <1>3, <2>1 DEF Register
  <2>3. Stopped'
    BY <1>3, <2>1 DEF Register, Stopped
  <2> QED BY <2>2, <2>3
<1>4. CASE Unregister(s)
  <2>1. UNCHANGED <<pc, streams_mutex_, writers, main>>
    BY <1>4 DEF Unregister, thread, server
  <2>2. \A t \in Threads : writers[t] = {}
    BY <1>4, ThreadsAssumption DEF Unregister
  <2>3. ControlTypes' /\ Locking' /\ Registered'
    BY <1>4, <2>1, <2>2 DEF Unregister
  <2>4. Stopped'
    BY <1>4, <2>1 DEF Unregister, Stopped
  <2> QED BY <2>3, <2>4
<1> QED BY <1>1, <1>2, <1>3, <1>4

LEMMA ReceiveKeepsInv ==
  ASSUME Inv, NEW h \in Handlers, NEW label \in {"add", "cancel"}, NEW argument,
         Receive(h, label, argument)
  PROVE  Inv'
BY ThreadsAssumption DEF Receive, Goto, streaming, clients, server, Inv, ControlTypes, Locking,
                         Registered, Stopped, Threads, Labels

LEMMA MainKeepsInv ==
  ASSUME Inv, Shutdown \/ stop \/ Join
  PROVE  Inv'
BY DEF Shutdown, stop, Join, thread, streaming, clients, Inv, ControlTypes, Locking, Registered,
       Stopped

LEMMA NextKeepsInv == Inv /\ [Next]_vars => Inv'
<1> SUFFICES ASSUME Inv, [Next]_vars
             PROVE  Inv'
  OBVIOUS
<1>1. CASE UNCHANGED vars
  BY <1>1 DEF vars, thread, streaming, clients, server, Inv, ControlTypes, Locking, Registered,
              Stopped
<1>2. CASE Call
  <2>1. CASE \E h \in Handlers, order \in Orders : SubmitOrder(h, order)
    BY <2>1, ReceiveKeepsInv DEF SubmitOrder
  <2>2. CASE \E h \in Handlers, id \in ClientIds : CancelOrder(h, id)
    BY <2>2, ReceiveKeepsInv DEF CancelOrder
  <2>3. CASE \E s \in Streams : Open(s) \/ Cancel(s)
    BY <2>3, StreamKeepsInv
  <2> QED BY <1>2, <2>1, <2>2, <2>3 DEF Call
<1>3. CASE \E t \in Threads : Run(t) \/ \E s \in Streams : Write(t, s)
  BY <1>3, EngineKeepsInv, BroadcastKeepsInv DEF Run, EngineStep
<1>4. CASE \E s \in Streams : Register(s) \/ Unregister(s)
  BY <1>4, StreamKeepsInv
<1>5. CASE Shutdown \/ stop \/ Join
  BY <1>5, MainKeepsInv
<1> QED BY <1>1, <1>2, <1>3, <1>4, <1>5 DEF Next

LEMMA InvSafe == Inv => NothingDangles
BY ThreadsAssumption DEF Inv, Registered, Stopped, NothingDangles, Threads

(***************************************************************************)
(* broadcast_market_data never writes to a stream whose RPC has returned,   *)
(* and main destroys the service when nobody is in it.                      *)
(***************************************************************************)
THEOREM NothingIsUsedAfterItIsGone == Spec => []NothingDangles
<1>1. Spec => []Inv
  BY InitInv, NextKeepsInv, PTL DEF Spec
<1> QED BY <1>1, InvSafe, PTL

-----------------------------------------------------------------------------
(* The trades on their way *)

\* What Append and Tail do to the members of a sequence without repetitions.
LEMMA AppendMember ==
  ASSUME NEW v \in Seq(Nat), IsInjective(v), NEW n \in Nat, n \notin ToSet(v)
  PROVE  /\ Append(v, n) \in Seq(Nat)
         /\ IsInjective(Append(v, n))
         /\ \A m : m \in ToSet(Append(v, n)) <=> m \in ToSet(v) \/ m = n
<1>1. /\ Append(v, n) \in Seq(Nat) /\ Len(Append(v, n)) = Len(v) + 1 /\ Len(v) \in Nat
      /\ \A i \in 1..Len(v) : Append(v, n)[i] = v[i]
      /\ Append(v, n)[Len(v) + 1] = n
      /\ DOMAIN v = 1..Len(v) /\ DOMAIN Append(v, n) = 1..(Len(v) + 1)
  BY AppendProperties, LenProperties
<1>2. \A i \in 1..(Len(v) + 1) : i \in 1..Len(v) \/ i = Len(v) + 1
  BY <1>1
<1>3. \A i \in 1..Len(v) : v[i] # n
  BY <1>1 DEF ToSet
<1>4. IsInjective(Append(v, n))
  BY <1>1, <1>2, <1>3 DEF IsInjective
<1>5. \A m : m \in ToSet(Append(v, n)) <=> m \in ToSet(v) \/ m = n
  BY <1>1, <1>2 DEF ToSet
<1> QED BY <1>1, <1>4, <1>5

LEMMA TailMember ==
  ASSUME NEW v \in Seq(Nat), IsInjective(v), v # <<>>
  PROVE  /\ Head(v) \in Nat /\ Head(v) \in ToSet(v)
         /\ Tail(v) \in Seq(Nat)
         /\ IsInjective(Tail(v))
         /\ \A m : m \in ToSet(Tail(v)) <=> m \in ToSet(v) /\ m # Head(v)
<1>1. /\ Len(v) \in Nat /\ Len(v) >= 1 /\ Head(v) = v[1] /\ Head(v) \in Nat
      /\ Tail(v) \in Seq(Nat) /\ Len(Tail(v)) = Len(v) - 1
      /\ \A i \in 1..(Len(v) - 1) : Tail(v)[i] = v[i + 1]
      /\ DOMAIN v = 1..Len(v) /\ DOMAIN Tail(v) = 1..(Len(v) - 1)
  BY HeadTailProperties, LenProperties, EmptySeq
<1>2. IsInjective(Tail(v))
  <2>1. ASSUME NEW i \in 1..(Len(v) - 1), NEW j \in 1..(Len(v) - 1), Tail(v)[i] = Tail(v)[j]
        PROVE  i = j
    <3>1. i + 1 \in DOMAIN v /\ j + 1 \in DOMAIN v /\ v[i + 1] = v[j + 1]
      BY <1>1, <2>1
    <3>2. i + 1 = j + 1
      BY <3>1 DEF IsInjective
    <3> QED BY <1>1, <3>2
  <2> QED BY <1>1, <2>1 DEF IsInjective
<1>3. ASSUME NEW m
      PROVE  m \in ToSet(Tail(v)) <=> m \in ToSet(v) /\ m # Head(v)
  <2>1. \A i \in 1..(Len(v) - 1) : i + 1 \in 1..Len(v) /\ i + 1 # 1
    BY <1>1
  <2>2. \A j \in 1..Len(v) : j # 1 => j - 1 \in 1..(Len(v) - 1) /\ (j - 1) + 1 = j
    BY <1>1
  <2>3. \A j \in 1..Len(v) : j # 1 <=> v[j] # Head(v)
    BY <1>1 DEF IsInjective
  <2>4. m \in ToSet(v) <=> \E j \in 1..Len(v) : m = v[j]
    BY <1>1 DEF ToSet
  <2>5. m \in ToSet(Tail(v)) <=> \E i \in 1..(Len(v) - 1) : m = v[i + 1]
    BY <1>1 DEF ToSet
  <2> QED BY <2>1, <2>2, <2>3, <2>4, <2>5
<1>4. Head(v) \in ToSet(v)
  BY <1>1 DEF ToSet
<1> QED BY <1>1, <1>2, <1>3, <1>4

\* The trades that threads have still to broadcast are each in one place.
Numbered ==
  /\ executed \in Nat
  /\ trades \in [Threads -> Seq(Nat)]
  /\ \A t \in Threads : IsInjective(trades[t]) /\ \A n \in ToSet(trades[t]) : n < executed
  /\ \A t, u \in Threads : t # u => \A n \in ToSet(trades[t]) : n \notin ToSet(trades[u])

\* The broadcast of n is over.
Over(n) == /\ n \in Nat /\ n < executed
           /\ \A t \in Threads : n \notin ToSet(trades[t])

\* A thread has written n to s but not to every stream.
Early(n, s) == \E t \in Threads : /\ s \notin writers[t] /\ pc[t] = "writing"
                                  /\ trades[t] # <<>> /\ n = Head(trades[t])

\* What s got.
Streamed(s) ==
  /\ IsInjective(received[s])
  /\ \A n : n \in ToSet(received[s]) <=> (Over(n) /\ n \notin since[s]) \/ Early(n, s)

Streaming ==
  /\ received \in [Streams -> Seq(Nat)]
  /\ since = [s \in Streams |-> since[s]]
  /\ \A s \in Streams : \A n \in since[s] : Over(n)
  /\ \A s \in Streams : rpc[s] \in {"none", "opening"} => received[s] = <<>>
  /\ \A s \in market_data_streams_ \ cancelled : Streamed(s)

TradeInv == Inv /\ Numbered /\ Streaming

LEMMA DoneIsOver ==
  ASSUME executed \in Nat
  PROVE  \A n : n \in Done <=> Over(n)
BY DEF Done, Over

LEMMA TradeInvSafe == TradeInv => EveryTradeOnce
<1> SUFFICES ASSUME TradeInv, NEW s \in market_data_streams_ \ cancelled
             PROVE  /\ IsInjective(received[s])
                    /\ ToSet(received[s]) = (Done \ since[s])
                         \cup UNION {InHand(t) : t \in {u \in Threads : s \notin writers[u]}}
  BY DEF EveryTradeOnce
<1>1. Streamed(s)
  BY DEF TradeInv, Streaming
<1>2. \A n : n \in UNION {InHand(t) : t \in {u \in Threads : s \notin writers[u]}} <=> Early(n, s)
  BY DEF InHand, Early
<1>3. \A n : n \in Done <=> Over(n)
  BY DoneIsOver DEF TradeInv, Numbered
<1> QED BY <1>1, <1>2, <1>3 DEF Streamed

LEMMA TradeInit == Init => TradeInv
<1> SUFFICES ASSUME Init
             PROVE  TradeInv
  OBVIOUS
<1>1. Inv
  BY InitInv
<1>2. ToSet(<<>>) = {} /\ IsInjective(<<>>) /\ <<>> \in Seq(Nat)
  BY DEF ToSet, IsInjective
<1>3. Numbered
  BY <1>2 DEF Init, Numbered
<1>4. Streaming
  BY <1>2 DEF Init, Streaming
<1> QED BY <1>1, <1>3, <1>4 DEF TradeInv

(***************************************************************************)
(* A step that leaves the trades, their numbers and what is being written   *)
(* as they are keeps TradeInv.                                              *)
(***************************************************************************)
LEMMA TradesKept ==
  ASSUME TradeInv, Inv',
         UNCHANGED <<executed, trades, writers, received, since>>,
         \A t \in Threads : pc'[t] = "writing" <=> pc[t] = "writing",
         market_data_streams_' \subseteq market_data_streams_,
         cancelled \subseteq cancelled',
         \A s \in Streams : rpc'[s] \in {"none", "opening"} => rpc[s] \in {"none", "opening"}
  PROVE  TradeInv'
<1> USE DEF TradeInv
<1>1. Numbered'
  BY DEF Numbered
<1>2. \A n : Over(n)' <=> Over(n)
  BY DEF Over
<1>3. \A n, s : Early(n, s)' <=> Early(n, s)
  BY DEF Early
<1>4. Streaming'
  BY <1>2, <1>3 DEF Streaming, Streamed
<1> QED BY <1>1, <1>4

\* match_orders numbers its trades.
LEMMA MatchKeepsTrades ==
  ASSUME TradeInv, Inv', NEW t \in Threads, match_orders(t)
  PROVE  TradeInv'
<1> USE DEF TradeInv
<1>1. /\ pc[t] = "match" /\ executed' = executed + 1
      /\ trades' = [trades EXCEPT ![t] = Append(@, executed)]
      /\ UNCHANGED <<pc, writers, received, since, market_data_streams_, cancelled, rpc>>
  BY DEF match_orders, streaming, clients, history
<1>2. /\ executed \in Nat /\ trades[t] \in Seq(Nat) /\ IsInjective(trades[t])
      /\ \A u \in Threads : executed \notin ToSet(trades[u])
  BY DEF Numbered
<1>3. /\ trades'[t] \in Seq(Nat) /\ IsInjective(trades'[t])
      /\ \A n : n \in ToSet(trades'[t]) <=> n \in ToSet(trades[t]) \/ n = executed
  <2>1. trades'[t] = Append(trades[t], executed)
    BY <1>1 DEF Numbered
  <2> QED BY <1>2, <2>1, AppendMember
<1>4. \A u \in Threads \ {t} : trades'[u] = trades[u]
  BY <1>1 DEF Numbered
<1>5. Numbered'
  <2>1. trades' \in [Threads -> Seq(Nat)]
    <3>1. Append(trades[t], executed) \in Seq(Nat)
      BY <1>2, AppendMember
    <3> QED BY <1>1, <3>1 DEF Numbered
  <2>2. executed' \in Nat /\ \A u \in Threads : \A n \in ToSet(trades'[u]) : n < executed'
    <3>1. executed \in Nat /\ executed' = executed + 1
      BY <1>1, <1>2
    <3>2. ASSUME NEW u \in Threads, NEW n \in ToSet(trades'[u])
          PROVE  n < executed'
      <4>1. n \in ToSet(trades[u]) \/ n = executed
        BY <1>3, <1>4, <3>2
      <4>2. n \in ToSet(trades[u]) => n \in Nat /\ n < executed
        <5>1. trades[u] \in Seq(Nat)
          BY DEF Numbered
        <5>2. \A i \in DOMAIN trades[u] : trades[u][i] \in Nat
          BY <5>1, ElementOfSeq, LenProperties
        <5> QED BY <5>2 DEF Numbered, ToSet
      <4> QED BY <3>1, <4>1, <4>2
    <3> QED BY <3>1, <3>2
  <2>3. \A u, v \in Threads : u # v => \A n \in ToSet(trades'[u]) : n \notin ToSet(trades'[v])
    BY <1>2, <1>3, <1>4 DEF Numbered
  <2> QED BY <1>3, <1>4, <2>1, <2>2, <2>3 DEF Numbered
<1>6. \A n : Over(n)' <=> Over(n)
  BY <1>1, <1>2, <1>3, <1>4 DEF Over
<1>7. \A n, s : Early(n, s)' <=> Early(n, s)
  BY <1>1, <1>4 DEF Early
<1>8. Streaming'
  BY <1>1, <1>6, <1>7 DEF Streaming, Streamed
<1> QED BY <1>5, <1>8

\* broadcast_market_data starts: nothing is written to any stream yet.
LEMMA BroadcastKeepsTrades ==
  ASSUME TradeInv, Inv', NEW t \in Threads, Broadcast(t)
  PROVE  TradeInv'
<1> USE DEF TradeInv
<1>1. /\ pc[t] # "writing" /\ pc' = [pc EXCEPT ![t] = "writing"]
      /\ writers' = [writers EXCEPT ![t] = market_data_streams_]
      /\ UNCHANGED <<executed, trades, received, since, market_data_streams_, cancelled, rpc>>
  BY DEF Broadcast, Goto, engine, clients, history
<1>2. Numbered'
  BY <1>1 DEF Numbered
<1>3. \A n : Over(n)' <=> Over(n)
  BY <1>1 DEF Over
<1>4. \A n : \A s \in market_data_streams_ : Early(n, s)' <=> Early(n, s)
  BY <1>1 DEF Early, Inv, ControlTypes
<1>5. Streaming'
  BY <1>1, <1>3, <1>4 DEF Streaming, Streamed
<1> QED BY <1>2, <1>5

(***************************************************************************)
(* A trade is written to a stream that does not have it: under the lock no  *)
(* other thread is writing, and its broadcast is not over.                  *)
(***************************************************************************)
LEMMA WriteKeepsTrades ==
  ASSUME TradeInv, Inv', NEW t \in Threads, NEW s \in Streams, Write(t, s)
  PROVE  TradeInv'
<1> USE DEF TradeInv
<1>1. /\ s \in writers[t] /\ writers' = [writers EXCEPT ![t] = @ \ {s}]
      /\ UNCHANGED <<executed, trades, pc, since, market_data_streams_, cancelled, rpc>>
  BY DEF Write, engine, thread, clients
<1>2. pc[t] = "writing" /\ \A u \in Threads : pc[u] = "writing" => u = t
  BY <1>1 DEF Inv, Locking
<1>3. s \in market_data_streams_ /\ rpc[s] = "open"
  BY <1>1 DEF Inv, Registered
<1>4. Numbered'
  BY <1>1 DEF Numbered
<1>5. \A n : Over(n)' <=> Over(n)
  BY <1>1 DEF Over
<1>6. \A n : \A r \in Streams \ {s} : Early(n, r)' <=> Early(n, r)
  BY <1>1 DEF Early, Inv, ControlTypes
<1>7. CASE s \notin cancelled /\ trades[t] # <<>>
  <2>1. received' = [received EXCEPT ![s] = Append(@, Head(trades[t]))]
    BY <1>7 DEF Write
  <2>2. Head(trades[t]) \in Nat /\ Head(trades[t]) \in ToSet(trades[t])
    BY <1>7, TailMember DEF Numbered
  <2>3. Streamed(s)
    BY <1>3, <1>7 DEF Streaming
  <2>4. \A n : ~Early(n, s)
    BY <1>1, <1>2 DEF Early
  <2>5. Head(trades[t]) \notin ToSet(received[s])
    BY <2>2, <2>3, <2>4 DEF Streamed, Over
  <2>6. /\ received'[s] \in Seq(Nat) /\ IsInjective(received'[s])
        /\ \A n : n \in ToSet(received'[s]) <=> n \in ToSet(received[s]) \/ n = Head(trades[t])
    <3>1. received'[s] = Append(received[s], Head(trades[t])) /\ received[s] \in Seq(Nat)
      BY <2>1 DEF Streaming
    <3> QED BY <2>2, <2>3, <2>5, <3>1, AppendMember DEF Streamed
  <2>7. \A n : Early(n, s)' <=> n = Head(trades[t])
    BY <1>1, <1>2, <1>7 DEF Early, Inv, ControlTypes
  <2>8. Streamed(s)'
    BY <1>1, <1>5, <2>3, <2>4, <2>6, <2>7 DEF Streamed
  <2>9. \A r \in market_data_streams_ \ cancelled : r # s => Streamed(r)'
    BY <1>1, <1>5, <1>6, <2>1 DEF Streaming, Streamed, Inv, ControlTypes
  <2>10. received' \in [Streams -> Seq(Nat)]
    BY <2>1, <2>6 DEF Streaming
  <2>11. \A r \in Streams : rpc'[r] \in {"none", "opening"} => received'[r] = <<>>
    BY <1>1, <1>3, <2>1 DEF Streaming
  <2> QED BY <1>1, <1>4, <1>5, <2>8, <2>9, <2>10, <2>11 DEF Streaming
<1>8. CASE ~(s \notin cancelled /\ trades[t] # <<>>)
  <2>1. UNCHANGED received
    BY <1>8 DEF Write
  <2>2. \A n : \A r \in market_data_streams_ \ cancelled : Early(n, r)' <=> Early(n, r)
    BY <1>1, <1>2, <1>6, <1>8 DEF Early, Inv, ControlTypes
  <2>3. Streaming'
    BY <1>1, <1>5, <2>1, <2>2 DEF Streaming, Streamed
  <2> QED BY <1>4, <2>3
<1> QED BY <1>7, <1>8

\* When every stream has the trade, its broadcast is over.
LEMMA UnlockKeepsTrades ==
  ASSUME TradeInv, Inv', NEW t \in Threads, Unlock(t)
  PROVE  TradeInv'
<1> USE DEF TradeInv
<1>1. /\ pc[t] = "writing" /\ writers[t] = {} /\ streams_mutex_ = t
      /\ UNCHANGED <<executed, writers, received, since, market_data_streams_, cancelled, rpc>>
  BY DEF Unlock, engine, clients, history, Inv, Locking
<1>2. PICK label \in Labels \ {"writing"} : pc' = [pc EXCEPT ![t] = label]
  BY DEF Unlock, Goto, AfterQuote, Labels
<1>3. /\ \A u \in Threads : pc[u] = "writing" => u = t
      /\ \A u \in Threads : pc'[u] # "writing"
  BY <1>1, <1>2 DEF Inv, Locking, ControlTypes
<1>4. \A n, s : ~Early(n, s)'
  BY <1>3 DEF Early
<1>5. CASE trades[t] # <<>>
  <2>1. trades' = [trades EXCEPT ![t] = Tail(@)]
    BY <1>5 DEF Unlock
  <2>2. /\ Head(trades[t]) \in Nat /\ Head(trades[t]) \in ToSet(trades[t])
        /\ Tail(trades[t]) \in Seq(Nat) /\ IsInjective(Tail(trades[t]))
        /\ \A n : n \in ToSet(Tail(trades[t])) <=> n \in ToSet(trades[t]) /\ n # Head(trades[t])
    BY <1>5, TailMember DEF Numbered
  <2>3. trades'[t] = Tail(trades[t]) /\ \A u \in Threads \ {t} : trades'[u] = trades[u]
    BY <2>1 DEF Numbered
  <2>4. Numbered'
    <3>1. trades' \in [Threads -> Seq(Nat)]
      BY <2>1, <2>2 DEF Numbered
    <3> QED BY <1>1, <2>2, <2>3, <3>1 DEF Numbered
  <2>5. \A n : Over(n)' <=> Over(n) \/ n = Head(trades[t])
    <3>1. ASSUME NEW n
          PROVE  Over(n)' <=> Over(n) \/ n = Head(trades[t])
      BY <1>1, <2>2, <2>3 DEF Over, Numbered
    <3> QED BY <3>1
  <2>6. ~Over(Head(trades[t]))
    BY <2>2 DEF Over
  <2>7. \A s \in market_data_streams_ : \A n : Early(n, s) <=> n = Head(trades[t])
    BY <1>1, <1>3, <1>5 DEF Early
  <2>8. \A s \in market_data_streams_ \ cancelled : Streamed(s)'
    <3>1. ASSUME NEW s \in market_data_streams_ \ cancelled
          PROVE  Streamed(s)'
      <4>1. Streamed(s) /\ s \in Streams
        BY DEF Streaming, Inv, ControlTypes
      <4>2. Head(trades[t]) \notin since[s]
        BY <2>6, <4>1 DEF Streaming
      <4> QED BY <1>1, <1>4, <2>5, <2>7, <4>1, <4>2 DEF Streamed
    <3> QED BY <3>1
  <2>9. Streaming'
    BY <1>1, <2>5, <2>8 DEF Streaming
  <2> QED BY <2>4, <2>9
<1>6. CASE trades[t] = <<>>
  <2>1. UNCHANGED trades
    BY <1>6 DEF Unlock
  <2>2. Numbered' /\ \A n : Over(n)' <=> Over(n)
    BY <1>1, <2>1 DEF Numbered, Over
  <2>3. \A n, s : ~Early(n, s)
    BY <1>3, <1>6 DEF Early
  <2>4. Streaming'
    BY <1>1, <1>4, <2>2, <2>3 DEF Streaming, Streamed
  <2> QED BY <2>2, <2>4
<1> QED BY <1>5, <1>6

\* A stream that is registered under the lock has everything before it.
LEMMA StreamKeepsTrades ==
  ASSUME TradeInv, Inv', NEW s \in Streams, Register(s) \/ Cancel(s)
  PROVE  TradeInv'
<1> USE DEF TradeInv
<1>1. UNCHANGED <<executed, trades, pc, writers>>
  BY DEF Register, Cancel, engine, thread, streaming
<1>2. Numbered' /\ (\A n : Over(n)' <=> Over(n)) /\ \A n, r : Early(n, r)' <=> Early(n, r)
  BY <1>1 DEF Numbered, Over, Early
<1>3. CASE Register(s)
  <2>1. /\ rpc[s] = "opening" /\ rpc' = [rpc EXCEPT ![s] = "open"]
        /\ since' = [since EXCEPT ![s] = Done]
        /\ market_data_streams_' = market_data_streams_ \cup {s}
        /\ streams_mutex_ = Nobody
        /\ UNCHANGED <<received, cancelled>>
    BY <1>3 DEF Register
  <2>2. \A n, r : ~Early(n, r)
    BY <2>1, ThreadsAssumption DEF Early, Inv, Locking
  <2>3. \A n : n \in Done <=> Over(n)
    BY DoneIsOver DEF Numbered
  <2>4. received[s] = <<>> /\ ToSet(<<>>) = {} /\ IsInjective(<<>>)
    BY <2>1 DEF Streaming, ToSet, IsInjective
  <2>5. since'[s] = Done /\ (\A r \in Streams \ {s} : since'[r] = since[r])
        /\ since' = [r \in Streams |-> since'[r]]
    BY <2>1 DEF Streaming
  <2>6. Streamed(s)'
    BY <1>2, <2>1, <2>2, <2>3, <2>4, <2>5 DEF Streamed
  <2>7. \A r \in market_data_streams_ \ cancelled : r # s => Streamed(r)'
    BY <1>2, <2>1, <2>5 DEF Streaming, Streamed, Inv, ControlTypes
  <2>8. \A r \in Streams : \A n \in since'[r] : Over(n)'
    BY <1>2, <2>3, <2>5 DEF Streaming
  <2>9. \A r \in Streams : rpc'[r] \in {"none", "opening"} => received'[r] = <<>>
    BY <2>1 DEF Streaming, Inv, ControlTypes
  <2>10. Streaming'
    BY <2>1, <2>5, <2>6, <2>7, <2>8, <2>9 DEF Streaming
  <2> QED BY <1>2, <2>10
<1>4. CASE Cancel(s)
  <2>1. /\ cancelled' = cancelled \cup {s}
        /\ since' = [since EXCEPT ![s] = {}]
        /\ received' = [received EXCEPT ![s] = <<>>]
        /\ UNCHANGED <<rpc, market_data_streams_>>
    BY <1>4 DEF Cancel, streaming
  <2>2. received' \in [Streams -> Seq(Nat)] /\ since' = [r \in Streams |-> since'[r]]
    <3>1. <<>> \in Seq(Nat)
      OBVIOUS
    <3> QED BY <2>1, <3>1 DEF Streaming
  <2>3. /\ since'[s] = {} /\ received'[s] = <<>>
        /\ \A r \in Streams \ {s} : since'[r] = since[r] /\ received'[r] = received[r]
    BY <2>1 DEF Streaming
  <2>4. \A r \in market_data_streams_ \ cancelled' : Streamed(r)'
    BY <1>2, <2>1, <2>3 DEF Streaming, Streamed, Inv, ControlTypes
  <2>5. Streaming'
    BY <1>2, <2>1, <2>2, <2>3, <2>4 DEF Streaming
  <2> QED BY <1>2, <2>5
<1> QED BY <1>3, <1>4

LEMMA NextKeepsTrades == TradeInv /\ [Next]_vars => TradeInv'
<1> SUFFICES ASSUME TradeInv, [Next]_vars
             PROVE  TradeInv'
  OBVIOUS
<1>1. Inv /\ Inv'
  BY NextKeepsInv DEF TradeInv
<1>2. CASE UNCHANGED vars
  BY <1>1, <1>2, TradesKept DEF vars, engine, thread, streaming, clients, history
<1>3. CASE Call
  <2>1. CASE \E h \in Handlers, order \in Orders : SubmitOrder(h, order)
    BY <1>1, <2>1, TradesKept, ThreadsAssumption
       DEF SubmitOrder, Receive, Goto, streaming, clients, history, Threads, Inv, ControlTypes
  <2>2. CASE \E h \in Handlers, id \in ClientIds : CancelOrder(h, id)
    BY <1>1, <2>2, TradesKept, ThreadsAssumption
       DEF CancelOrder, Receive, Goto, streaming, clients, history, Threads, Inv, ControlTypes
  <2>3. CASE \E s \in Streams : Open(s)
    BY <1>1, <2>3, TradesKept DEF Open, engine, thread, streaming, history, Inv, ControlTypes
  <2>4. CASE \E s \in Streams : Cancel(s)
    BY <1>1, <2>4, StreamKeepsTrades
  <2> QED BY <1>3, <2>1, <2>2, <2>3, <2>4 DEF Call
<1>4. CASE \E t \in Threads : Run(t)
  <2>1. PICK t \in Threads : Run(t)
    BY <1>4
  <2>2. CASE EnterBook(t) \/ add_order(t) \/ cancel_order(t) \/ Matched(t) \/ get_quote(t)
              \/ (t = matching_thread_ /\ matching_loop)
    <3>1. EngineStep(t)
      BY <2>2 DEF EngineStep
    <3>2. /\ UNCHANGED <<streaming, rpc>>
          /\ \E label \in Labels \ {"writing"} : pc' = [pc EXCEPT ![t] = label]
          /\ pc' = pc \/ pc[t] \notin {"idle", "writing", "returned"}
      BY <1>1, <3>1, EngineMoves
    <3>3. UNCHANGED <<executed, trades, received, since, cancelled>>
      BY <2>2 DEF EnterBook, add_order, cancel_order, Matched, get_quote, matching_loop, engine,
                  thread, clients, history
    <3>4. \A u \in Threads : pc'[u] = "writing" <=> pc[u] = "writing"
      BY <1>1, <3>2 DEF Inv, ControlTypes
    <3> QED BY <1>1, <3>2, <3>3, <3>4, TradesKept DEF streaming
  <2>3. CASE match_orders(t)
    BY <1>1, <2>3, MatchKeepsTrades
  <2>4. CASE Broadcast(t)
    BY <1>1, <2>4, BroadcastKeepsTrades
  <2>5. CASE Unlock(t)
    BY <1>1, <2>5, UnlockKeepsTrades
  <2> QED BY <2>1, <2>2, <2>3, <2>4, <2>5 DEF Run
<1>5. CASE \E t \in Threads, s \in Streams : Write(t, s)
  BY <1>1, <1>5, WriteKeepsTrades
<1>6. CASE \E s \in Streams : Register(s)
  BY <1>1, <1>6, StreamKeepsTrades
<1>7. CASE \E s \in Streams : Unregister(s)
  BY <1>1, <1>7, TradesKept DEF Unregister, engine, thread, history, Inv, ControlTypes
<1>8. CASE Shutdown \/ stop \/ Join
  BY <1>1, <1>8, TradesKept DEF Shutdown, stop, Join, engine, thread, streaming, clients, history
<1> QED BY <1>2, <1>3, <1>4, <1>5, <1>6, <1>7, <1>8 DEF Next

(***************************************************************************)
(* Each stream gets every trade from its registration on, and gets it once, *)
(* whichever thread made the match.                                         *)
(***************************************************************************)
THEOREM EveryTradeReachesStreamsOnce == Spec => []EveryTradeOnce
<1>1. Spec => []TradeInv
  BY TradeInit, NextKeepsTrades, PTL DEF Spec
<1> QED BY <1>1, TradeInvSafe, PTL

-----------------------------------------------------------------------------
(* The orders *)

\* Who has an order in hand that is not in the book yet.
Adding(t) == pc[t] = "add"

\* What the book and the hands of the threads that add to it hold are orders.
BookInv ==
  /\ submitted \in 0..MaxOrders
  /\ book \in Seq(Order)
  /\ DOMAIN order_lookup \subseteq ClientIds /\ order_lookup \in [DOMAIN order_lookup -> Int]
  /\ value = [t \in Threads |-> value[t]]
  /\ \A t \in Threads : Adding(t) => value[t] \in Order

\* The types that the other invariants leave out.
OtherTypes ==
  /\ undefined \in BOOLEAN /\ in_book \subseteq Threads
  /\ streams_mutex_ \in Threads \cup {Nobody}
  /\ cancelled \subseteq Streams
  /\ running_ \in BOOLEAN /\ main \in {"serving", "stopping", "joining", "down"}

TypeInv == TradeInv /\ BookInv /\ OtherTypes

LEMMA TypeInvTypes == TypeInv => TypeOK
BY DEF TypeInv, TradeInv, Inv, ControlTypes, Numbered, BookInv, OtherTypes, TypeOK, Labels

\* A trade takes from the quantities of orders, and leaves orders.
LEMMA OrderQuantities ==
  /\ \A order \in Order : order.quantity \in Int
  /\ \A order \in Order, q \in Quantity : [order EXCEPT !.quantity = q] \in Order
BY MaxQuantityAssumption DEF Order, Quantity

LEMMA TypeInit == Init => TypeInv
<1> SUFFICES ASSUME Init
             PROVE  TypeInv
  OBVIOUS
<1>1. <<>> \in Seq(Order)
  BY EmptySeq
<1>2. \A t \in Threads : ~Adding(t)
  BY DEF Init, Adding
<1>3. submitted \in 0..MaxOrders
  BY OrdersAssumption DEF Init
<1>4. order_lookup = [id \in {} |-> 0]
  BY DEF Init
<1>5. BookInv
  BY <1>1, <1>2, <1>3, <1>4 DEF Init, BookInv
<1>6. OtherTypes
  BY DEF Init, OtherTypes
<1> QED BY <1>5, <1>6, TradeInit DEF TypeInv

\* A step that neither touches the book nor hands out an order.
LEMMA BookKept ==
  ASSUME BookInv, UNCHANGED <<book, order_lookup, submitted>>, value' = [t \in Threads |-> value'[t]],
         \A t \in Threads : Adding(t)' => Adding(t) /\ value'[t] = value[t]
  PROVE  BookInv'
BY DEF BookInv

\* SubmitOrder hands its order to the thread.
LEMMA SubmitKeepsBook ==
  ASSUME TypeInv, NEW h \in Handlers, NEW order \in Orders, SubmitOrder(h, order)
  PROVE  BookInv'
<1> DEFINE new == [id |-> submitted, order_id |-> order.order_id, is_buy |-> order.is_buy,
                   price |-> order.price, quantity |-> order.quantity]
<1>1. /\ submitted < MaxOrders /\ submitted' = submitted + 1 /\ UNCHANGED <<book, order_lookup>>
      /\ pc' = [pc EXCEPT ![h] = "add"] /\ value' = [value EXCEPT ![h] = new]
  BY DEF SubmitOrder, Receive, Goto
<1>2. BookInv
  BY DEF TypeInv
<1>3. submitted \in 0..(MaxOrders - 1) /\ submitted' \in 0..MaxOrders
  BY <1>1, <1>2, OrdersAssumption DEF BookInv
<1>4. new \in Order
  BY <1>3, OrdersAssumption DEF Order
<1> HIDE DEF new
<1>5. pc \in [Threads -> Labels] /\ h \in Threads
  BY DEF TypeInv, TradeInv, Inv, ControlTypes, Threads
<1>6. \A t \in Threads : Adding(t)' => t = h \/ (Adding(t) /\ value'[t] = value[t])
  BY <1>1, <1>2, <1>5 DEF Adding, BookInv
<1>7. value'[h] = new /\ value' = [t \in Threads |-> value'[t]]
  BY <1>1, <1>2, <1>5 DEF BookInv
<1> QED BY <1>1, <1>2, <1>3, <1>4, <1>6, <1>7 DEF BookInv

LEMMA AddKeepsBook ==
  ASSUME TypeInv, NEW t \in Threads, add_order(t)
  PROVE  BookInv'
<1>1. /\ Adding(t) /\ submitted' = submitted /\ book' = Append(book, value[t])
      /\ order_lookup' = [id \in DOMAIN order_lookup \cup {value[t].order_id} |->
                            IF id = value[t].order_id THEN value[t].price ELSE order_lookup[id]]
      /\ pc' = [pc EXCEPT ![t] = "match"] /\ value' = [value EXCEPT ![t] = NoQuote]
  BY DEF add_order, Leave, Goto, Adding
<1>2. BookInv /\ pc \in [Threads -> Labels]
  BY DEF TypeInv, TradeInv, Inv, ControlTypes
<1>3. value[t] \in Order
  BY <1>1, <1>2 DEF BookInv
<1>4. book' \in Seq(Order)
  BY <1>1, <1>2, <1>3, AppendProperties DEF BookInv
<1>5. DOMAIN order_lookup' \subseteq ClientIds /\ order_lookup' \in [DOMAIN order_lookup' -> Int]
  <2>1. value[t].order_id \in ClientIds /\ value[t].price \in Int
    BY <1>3 DEF Order
  <2>2. \A id \in DOMAIN order_lookup : order_lookup[id] \in Int
    BY <1>2 DEF BookInv
  <2> QED BY <1>1, <1>2, <2>1, <2>2 DEF BookInv
<1>6. \A u \in Threads : Adding(u)' => Adding(u) /\ value'[u] = value[u]
  BY <1>1, <1>2 DEF BookInv, Adding
<1>7. value' = [u \in Threads |-> value'[u]]
  BY <1>1, <1>2 DEF BookInv
<1> QED BY <1>1, <1>2, <1>4, <1>5, <1>6, <1>7 DEF BookInv

LEMMA ForgetType ==
  ASSUME BookInv, NEW ids
  PROVE  DOMAIN Forget(ids) \subseteq ClientIds /\ Forget(ids) \in [DOMAIN Forget(ids) -> Int]
BY DEF BookInv, Forget

LEMMA CancelKeepsBook ==
  ASSUME TypeInv, NEW t \in Threads, cancel_order(t)
  PROVE  BookInv'
<1>1. BookInv /\ pc \in [Threads -> Labels]
  BY DEF TypeInv, TradeInv, Inv, ControlTypes
<1>2. /\ submitted' = submitted /\ value' = [value EXCEPT ![t] = NoQuote] /\ ~Adding(t)
      /\ \E label \in {"quote", "idle"} : pc' = [pc EXCEPT ![t] = label]
      /\ \/ /\ \E i \in Cancelled(value[t]) : book' = RemoveAt(book, i)
            /\ order_lookup' = Forget({value[t]})
         \/ UNCHANGED <<book, order_lookup>>
  BY DEF cancel_order, Leave, Goto, Adding
<1>3. Cancelled(value[t]) \subseteq DOMAIN book
  BY DEF Cancelled
<1>4. book' \in Seq(Order)
  BY <1>1, <1>2, <1>3, RemoveAtLeaves DEF BookInv
<1>5. DOMAIN order_lookup' \subseteq ClientIds /\ order_lookup' \in [DOMAIN order_lookup' -> Int]
  BY <1>1, <1>2, ForgetType DEF BookInv
<1>6. \A u \in Threads : Adding(u)' => Adding(u) /\ value'[u] = value[u]
  BY <1>1, <1>2 DEF BookInv, Adding
<1>7. value' = [u \in Threads |-> value'[u]]
  BY <1>1, <1>2 DEF BookInv
<1> QED BY <1>1, <1>2, <1>4, <1>5, <1>6, <1>7 DEF BookInv

\* Whatever quantities trade, what they leave fits a quantity.
LEMMA MatchKeepsBook ==
  ASSUME TypeInv, NEW t \in Threads, match_orders(t)
  PROVE  BookInv'
<1>1. PICK p \in Matches(book) :
        /\ book' = AfterTrade(book, TradeOf(book[p[1]], book[p[2]]))
        /\ \E ids : order_lookup' = Forget(ids)
  BY DEF match_orders
<1>2. UNCHANGED <<submitted, pc, value>> /\ BookInv
  BY DEF match_orders, TypeInv
<1> DEFINE trade == TradeOf(book[p[1]], book[p[2]])
<1>3. trade.quantity \in Int
  <2>1. p[1] \in DOMAIN book /\ p[2] \in DOMAIN book /\ DOMAIN book = 1..Len(book)
    BY <1>2, MatchPlaces, LenProperties DEF BookInv
  <2>2. book[p[1]] \in Order /\ book[p[2]] \in Order
    BY <1>2, <2>1, ElementOfSeq DEF BookInv
  <2> QED BY <2>2, OrderQuantities DEF TradeOf
<1> HIDE DEF trade
<1>4. book' \in Seq(Order)
  BY <1>1, <1>2, <1>3, OrderQuantities, TradeLeavesOrders DEF trade, BookInv
<1>5. DOMAIN order_lookup' \subseteq ClientIds /\ order_lookup' \in [DOMAIN order_lookup' -> Int]
  BY <1>1, <1>2, ForgetType
<1> QED BY <1>2, <1>4, <1>5 DEF BookInv, Adding

\* Of the other steps none hands out an order.
LEMMA OtherStepsKeepBook ==
  ASSUME TypeInv,
         \/ \E h \in Handlers, id \in ClientIds : CancelOrder(h, id)
         \/ \E t \in Threads : \/ EnterBook(t) \/ Matched(t) \/ get_quote(t) \/ Broadcast(t) \/ Unlock(t)
                               \/ t = matching_thread_ /\ matching_loop
                               \/ \E s \in Streams : Write(t, s)
         \/ \E s \in Streams : Open(s) \/ Cancel(s) \/ Register(s) \/ Unregister(s)
         \/ Shutdown \/ stop \/ Join
         \/ UNCHANGED vars
  PROVE  BookInv'
<1>1. BookInv /\ value = [t \in Threads |-> value[t]] /\ pc \in [Threads -> Labels]
  BY DEF TypeInv, TradeInv, Inv, ControlTypes, BookInv
<1>2. CASE \E h \in Handlers, id \in ClientIds : CancelOrder(h, id)
  <2>1. PICK h \in Handlers, id \in ClientIds : CancelOrder(h, id)
    BY <1>2
  <2>2. /\ UNCHANGED <<book, order_lookup, submitted>> /\ h \in Threads
        /\ pc' = [pc EXCEPT ![h] = "cancel"] /\ value' = [value EXCEPT ![h] = id]
    BY <2>1 DEF CancelOrder, Receive, Goto, Threads
  <2>3. \A t \in Threads : Adding(t)' => Adding(t) /\ value'[t] = value[t]
    BY <1>1, <2>2 DEF Adding
  <2>4. value' = [t \in Threads |-> value'[t]]
    BY <1>1, <2>2
  <2> QED BY <1>1, <2>2, <2>3, <2>4, BookKept
<1>3. CASE \E t \in Threads : Matched(t) \/ get_quote(t) \/ Unlock(t)
  <2>1. PICK t \in Threads : Matched(t) \/ get_quote(t) \/ Unlock(t)
    BY <1>3
  <2>2. /\ UNCHANGED <<book, order_lookup, submitted>> /\ ~Adding(t)
        /\ \E label \in Labels \ {"add"} : pc' = [pc EXCEPT ![t] = label]
        /\ \E any : value' = [value EXCEPT ![t] = any]
    <3>1. CASE Matched(t)
      <4>1. value' = [value EXCEPT ![t] = value[t]]
        BY <1>1, <3>1 DEF Matched
      <4> QED BY <3>1, <4>1 DEF Matched, Leave, Goto, Adding, Labels
    <3>2. CASE get_quote(t)
      BY <3>2 DEF get_quote, Leave, Goto, Adding, AfterQuote, Labels
    <3>3. CASE Unlock(t)
      <4>1. value' = value => value' = [value EXCEPT ![t] = value[t]]
        BY <1>1
      <4>2. \E any : value' = [value EXCEPT ![t] = any]
        BY <3>3, <4>1 DEF Unlock
      <4>3. \E label \in Labels \ {"add"} : pc' = [pc EXCEPT ![t] = label]
        BY <3>3 DEF Unlock, Goto, AfterQuote, Labels
      <4> QED BY <3>3, <4>2, <4>3 DEF Unlock, engine, Adding
    <3> QED BY <2>1, <3>1, <3>2, <3>3
  <2>3. \A u \in Threads : Adding(u)' => Adding(u) /\ value'[u] = value[u]
    BY <1>1, <2>2 DEF Adding
  <2>4. value' = [u \in Threads |-> value'[u]]
    BY <1>1, <2>2
  <2> QED BY <1>1, <2>2, <2>3, <2>4, BookKept
<1>4. CASE \/ \E t \in Threads : Broadcast(t) \/ (t = matching_thread_ /\ matching_loop)
           \/ \E t \in Threads : EnterBook(t) \/ \E s \in Streams : Write(t, s)
           \/ \E s \in Streams : Open(s) \/ Cancel(s) \/ Register(s) \/ Unregister(s)
           \/ Shutdown \/ stop \/ Join
           \/ UNCHANGED vars
  <2>1. UNCHANGED <<book, order_lookup, submitted, value>>
    BY <1>4 DEF Broadcast, matching_loop, EnterBook, Write, Open, Cancel, Register, Unregister,
                Shutdown, stop, Join, vars, engine, thread
  <2>2. \A t \in Threads : Adding(t)' => Adding(t)
    <3>1. CASE \E t \in Threads : Broadcast(t) \/ (t = matching_thread_ /\ matching_loop)
      BY <1>1, <3>1 DEF Broadcast, matching_loop, Goto, Adding
    <3>2. CASE ~\E t \in Threads : Broadcast(t) \/ (t = matching_thread_ /\ matching_loop)
      BY <1>4, <3>2 DEF EnterBook, Write, Open, Cancel, Register, Unregister, Shutdown, stop, Join,
                        vars, thread, Adding
    <3> QED BY <3>1, <3>2
  <2>3. value' = [t \in Threads |-> value'[t]]
    BY <1>1, <2>1
  <2>4. \A t \in Threads : Adding(t)' => Adding(t) /\ value'[t] = value[t]
    BY <2>1, <2>2
  <2> QED BY <1>1, <2>1, <2>3, <2>4, BookKept
<1> QED BY <1>2, <1>3, <1>4

LEMMA NextKeepsTypes == TypeInv /\ [Next]_vars => TypeInv'
<1> SUFFICES ASSUME TypeInv, [Next]_vars
             PROVE  TypeInv'
  OBVIOUS
<1>1. TradeInv'
  BY NextKeepsTrades DEF TypeInv
<1>2. BookInv'
  BY SubmitKeepsBook, AddKeepsBook, CancelKeepsBook, MatchKeepsBook, OtherStepsKeepBook
     DEF Next, Call, Run
<1>3. OtherTypes'
  <2> USE DEF OtherTypes
  <2>1. OtherTypes
    BY DEF TypeInv
  <2>2. CASE UNCHANGED vars \/ Shutdown \/ stop \/ Join
    BY <2>1, <2>2 DEF vars, engine, streaming, clients, server, Shutdown, stop, Join
  <2>3. CASE Call \/ \E s \in Streams : Register(s) \/ Unregister(s)
    BY <2>1, <2>3 DEF Call, SubmitOrder, CancelOrder, Receive, Open, Cancel, Register, Unregister,
                      engine, streaming, clients, server
  <2>4. CASE \E t \in Threads : Broadcast(t) \/ Unlock(t) \/ \E s \in Streams : Write(t, s)
    BY <2>1, <2>4 DEF Broadcast, Unlock, Write, engine, clients, server
  <2>5. CASE \E t \in Threads : EngineStep(t)
    <3>1. PICK t \in Threads : EngineStep(t)
      BY <2>5
    <3>2. UNCHANGED <<streams_mutex_, cancelled, running_, main>>
      BY <3>1 DEF EngineStep, EnterBook, add_order, cancel_order, match_orders, Matched, get_quote,
                  matching_loop, streaming, clients, server
    <3>3. in_book' \subseteq in_book \cup {t}
      BY <3>1 DEF EngineStep, EnterBook, add_order, cancel_order, match_orders, Matched, get_quote,
                  matching_loop, Leave, engine
    <3>4. undefined' \in BOOLEAN
      BY <2>1, <3>1 DEF EngineStep, EnterBook, add_order, cancel_order, match_orders, Matched,
                        get_quote, matching_loop, engine
    <3> QED BY <2>1, <3>2, <3>3, <3>4
  <2> QED BY <2>2, <2>3, <2>4, <2>5 DEF Next, Run, EngineStep
<1> QED BY <1>1, <1>2, <1>3 DEF TypeInv

(***************************************************************************)
(* Every variable of the simulator has its type, whatever ids and           *)
(* quantities the clients send, as long as no two calls of the book race:   *)
(* what add_order, cancel_order and match_orders leave of the book are      *)
(* orders, and order_lookup only has prices of ids that clients gave.       *)
(***************************************************************************)
THEOREM TypeCorrect == Spec => []TypeOK
<1>1. Spec => []TypeInv
  BY TypeInit, NextKeepsTypes, PTL DEF Spec
<1> QED BY <1>1, TypeInvTypes, PTL

=============================================================================
