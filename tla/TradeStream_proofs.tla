-------------------------- MODULE TradeStream_proofs --------------------------
(***************************************************************************)
(* Proofs about trade streaming, for any number of symbols, streams and     *)
(* trades: no update is lost, repeated or reordered, no stream joins or     *)
(* leaves a vector under a publisher, and every stream is the feed of       *)
(* TradeFeed.                                                               *)
(***************************************************************************)
EXTENDS TradeStream, Collections_proofs

-----------------------------------------------------------------------------
(* Sequences *)

\* No element occurs twice.
Once(v) == \A i, j \in 1..Len(v) : v[i] = v[j] => i = j

\* Erasing the one occurrence of s from a vector.
LEMMA EraseKeepsOthers ==
  ASSUME NEW v \in Seq(Subscribers), Once(v), NEW s, Contains(v, s)
  PROVE  LET w == RemoveAt(v, CHOOSE i \in DOMAIN v : v[i] = s)
         IN  /\ w \in Seq(Subscribers)
             /\ Once(w)
             /\ \A e : Contains(w, e) <=> Contains(v, e) /\ e # s
<1>1. DOMAIN v = 1..Len(v) /\ Len(v) \in Nat
  BY LenProperties
<1>2. PICK k \in 1..Len(v) : v[k] = s /\ k = CHOOSE i \in DOMAIN v : v[i] = s
  BY <1>1 DEF Contains
<1> DEFINE w == RemoveAt(v, k)
<1>3. /\ w \in Seq(Subscribers)
      /\ Len(w) = Len(v) - 1
      /\ \A i \in 1..(Len(v) - 1) : w[i] = IF i < k THEN v[i] ELSE v[i + 1]
  BY RemoveAtIndices
<1> HIDE DEF w
<1>4. k \in Nat /\ 1 <= k /\ k <= Len(v)
  BY <1>1
<1>5. Once(w)
  BY <1>1, <1>3, <1>4 DEF Once
<1>6. ASSUME NEW e
      PROVE  Contains(w, e) <=> Contains(v, e) /\ e # s
  <2>1. ASSUME NEW i \in 1..Len(w)
        PROVE  \E j \in 1..Len(v) : j # k /\ v[j] = w[i]
    BY <1>1, <1>3, <1>4
  <2>2. ASSUME NEW j \in 1..Len(v), j # k
        PROVE  \E i \in 1..Len(w) : v[j] = w[i]
    <3>1. CASE j < k
      BY <1>1, <1>3, <1>4, <3>1
    <3>2. CASE j > k
      <4>1. j - 1 \in 1..(Len(v) - 1) /\ ~(j - 1 < k) /\ (j - 1) + 1 = j
        BY <1>1, <1>4, <3>2
      <4> QED BY <1>3, <4>1
    <3> QED BY <1>4, <2>2, <3>1, <3>2
  <2>3. \A j \in 1..Len(v) : j # k <=> v[j] # s
    BY <1>2 DEF Once
  <2>4. Contains(w, e) <=> \E i \in 1..Len(w) : w[i] = e
    BY <1>3, LenProperties DEF Contains
  <2>5. Contains(v, e) <=> \E j \in 1..Len(v) : v[j] = e
    BY <1>1 DEF Contains
  <2> QED BY <2>1, <2>2, <2>3, <2>4, <2>5
<1> QED BY <1>2, <1>3, <1>5, <1>6 DEF w


\* What Append and Tail do to the elements of a vector.
LEMMA AppendAdds ==
  ASSUME NEW v \in Seq(Subscribers), Once(v), NEW s \in Subscribers, ~Contains(v, s)
  PROVE  /\ Append(v, s) \in Seq(Subscribers)
         /\ Once(Append(v, s))
         /\ \A e : Contains(Append(v, s), e) <=> Contains(v, e) \/ e = s
<1>1. /\ Append(v, s) \in Seq(Subscribers) /\ Len(Append(v, s)) = Len(v) + 1 /\ Len(v) \in Nat
      /\ \A i \in 1..Len(v) : Append(v, s)[i] = v[i]
      /\ Append(v, s)[Len(v) + 1] = s
  BY AppendProperties, LenProperties
<1>2. \A i \in 1..(Len(v) + 1) : i \in 1..Len(v) \/ i = Len(v) + 1
  BY <1>1
<1>3. \A i \in 1..Len(v) : v[i] # s
  BY DEF Contains
<1>4. Once(Append(v, s))
  BY <1>1, <1>2, <1>3 DEF Once
<1>5. \A e : Contains(Append(v, s), e) <=> Contains(v, e) \/ e = s
  BY <1>1, <1>2 DEF Contains
<1> QED BY <1>1, <1>4, <1>5

LEMMA TailDrops ==
  ASSUME NEW v \in Seq(Subscribers), Once(v), v # <<>>
  PROVE  /\ Head(v) \in Subscribers /\ Contains(v, Head(v))
         /\ Tail(v) \in Seq(Subscribers)
         /\ Once(Tail(v))
         /\ \A e : Contains(Tail(v), e) <=> Contains(v, e) /\ e # Head(v)
<1>1. /\ Len(v) \in Nat /\ Len(v) >= 1 /\ Head(v) = v[1] /\ Head(v) \in Subscribers
      /\ Tail(v) \in Seq(Subscribers) /\ Len(Tail(v)) = Len(v) - 1
      /\ \A i \in 1..(Len(v) - 1) : Tail(v)[i] = v[i + 1]
  BY HeadTailProperties, LenProperties, EmptySeq
<1>2. Once(Tail(v))
  BY <1>1 DEF Once
<1>3. ASSUME NEW e
      PROVE  Contains(Tail(v), e) <=> Contains(v, e) /\ e # Head(v)
  <2>1. \A i \in 1..(Len(v) - 1) : i + 1 \in 1..Len(v) /\ i + 1 # 1
    BY <1>1
  <2>2. \A j \in 1..Len(v) : j # 1 => j - 1 \in 1..(Len(v) - 1) /\ (j - 1) + 1 = j
    BY <1>1
  <2>3. \A j \in 1..Len(v) : j # 1 <=> v[j] # Head(v)
    BY <1>1 DEF Once
  <2> QED BY <1>1, <2>1, <2>2, <2>3 DEF Contains
<1>4. Contains(v, Head(v))
  BY <1>1 DEF Contains
<1> QED BY <1>1, <1>2, <1>3, <1>4

-----------------------------------------------------------------------------
(* The invariant *)

Labels == {"start", "locking", "checking", "waiting", "draining", "writing", "relocking", "leaving",
           "done"}

\* A subscriber is in the vector of its symbol, once, while its RPC runs, and in no other.
Registered ==
  /\ \A symbol \in Symbols : Once(trade_subscribers_[symbol])
  /\ \A symbol \in Symbols, s \in Subscribers :
       Contains(trade_subscribers_[symbol], s) <=>
         SymbolOf[s] = symbol /\ pc[s] \notin {"start", "done"}

\* Only a publisher under subscribers_mutex_ has subscribers to reach, each of
\* them once, and all of them registered.
Publishing ==
  /\ \A symbol \in Symbols : todo[symbol] # <<>> => subscribers_mutex_ = symbol
  /\ \A symbol \in Symbols : subscribers_mutex_ = symbol => executed[symbol] >= 1
  /\ \A symbol \in Symbols : Once(todo[symbol])
  /\ \A symbol \in Symbols, s \in Subscribers :
       Contains(todo[symbol], s) => SymbolOf[s] = symbol /\ pc[s] \notin {"start", "done"}

\* What a thread has in hand, where it is, and whether its client is there.
Threading ==
  \A s \in Subscribers :
    /\ update[s] # <<>> => pc[s] = "writing"
    /\ pc[s] = "start" => received[s] = <<>> /\ q[s] = <<>>
    /\ pc[s] \in {"leaving", "done"} => s \in cancelled

\* A stream cannot have opened after a trade that has still to reach it.
OpenedBefore ==
  \A s \in Subscribers \ cancelled : pc[s] # "start" => opened[s] <= Reached(s)

Inv == TypeOK /\ Registered /\ Publishing /\ Threading /\ OpenedBefore /\ NothingLost

LEMMA InitInv == Init => Inv
<1> SUFFICES ASSUME Init
             PROVE  Inv
  OBVIOUS
<1>1. TypeOK
  BY SymbolOfAssumption, MaxTradesAssumption DEF Init, TypeOK
<1>2. \A s : ~Contains(<<>>, s)
  BY DEF Contains
<1>3. Once(<<>>)
  BY DEF Once
<1>4. Registered /\ Publishing
  BY <1>2, <1>3, ThreadsAssumption DEF Init, Registered, Publishing
<1>5. Threading /\ OpenedBefore /\ NothingLost
  BY DEF Init, Threading, OpenedBefore, NothingLost
<1> QED BY <1>1, <1>4, <1>5 DEF Inv

-----------------------------------------------------------------------------
(* Every step keeps it: publishTrade *)

\* While no publisher is under way every subscriber is reached.
LEMMA FreeMutex ==
  ASSUME Inv, subscribers_mutex_ = Nobody
  PROVE  /\ \A symbol \in Symbols : todo[symbol] = <<>>
         /\ \A s \in Subscribers : ~Contains(todo[SymbolOf[s]], s)
         /\ \A s \in Subscribers : Reached(s) = executed[SymbolOf[s]]
<1>1. \A symbol \in Symbols : todo[symbol] = <<>>
  BY ThreadsAssumption DEF Inv, Publishing
<1>2. \A s \in Subscribers : SymbolOf[s] \in Symbols
  BY SymbolOfAssumption
<1> QED BY <1>1, <1>2 DEF Contains, Reached

LEMMA PublishTradeKeepsInv ==
  ASSUME Inv, NEW symbol \in Symbols, PublishTrade(symbol)
  PROVE  Inv'
<1> USE DEF Inv
<1>1. UNCHANGED <<trade_subscribers_, q, m, cancelled, pc, update, opened, received>>
  BY DEF PublishTrade, streaming
<1>2. /\ executed \in [Symbols -> 0..MaxTrades] /\ executed[symbol] < MaxTrades
      /\ executed' = [executed EXCEPT ![symbol] = @ + 1]
      /\ todo' = [todo EXCEPT ![symbol] = trade_subscribers_[symbol]]
      /\ todo \in [Symbols -> Seq(Subscribers)]
      /\ subscribers_mutex_ = Nobody /\ subscribers_mutex_' = symbol
  BY DEF PublishTrade, TypeOK
<1>3. TypeOK'
  <2>1. executed[symbol] \in 0..MaxTrades /\ executed[symbol] + 1 \in 0..MaxTrades
    BY <1>2, MaxTradesAssumption
  <2>2. executed' \in [Symbols -> 0..MaxTrades]
    BY <1>2, <2>1
  <2>3. trade_subscribers_[symbol] \in Seq(Subscribers)
    BY DEF TypeOK
  <2>4. todo' \in [Symbols -> Seq(Subscribers)]
    BY <1>2, <2>3
  <2> QED BY <1>1, <1>2, <2>2, <2>4 DEF TypeOK
<1>4. Registered'
  BY <1>1 DEF Registered
<1>5. Publishing'
  <2>1. \A x \in Symbols : todo'[x] = IF x = symbol THEN trade_subscribers_[symbol] ELSE <<>>
    BY <1>2, FreeMutex
  <2>2. Once(<<>>) /\ \A s : ~Contains(<<>>, s)
    BY DEF Once, Contains
  <2>3. executed'[symbol] >= 1
    BY <1>2
  <2>4. \A x \in Symbols : Once(todo'[x])
    BY <2>1, <2>2 DEF Registered
  <2>5. \A x \in Symbols, s \in Subscribers :
          Contains(todo'[x], s) => SymbolOf[s] = x /\ pc[s] \notin {"start", "done"}
    BY <2>1, <2>2 DEF Registered
  <2> QED BY <1>1, <1>2, <2>1, <2>3, <2>4, <2>5 DEF Publishing
<1>6. Threading'
  BY <1>1 DEF Threading
<1>7. ASSUME NEW s \in Subscribers \ cancelled, pc[s] # "start"
      PROVE  Reached(s)' = Reached(s)
  <2>1. pc[s] # "done"
    BY <1>7 DEF Threading
  <2>2. SymbolOf[s] \in Symbols /\ Reached(s) = executed[SymbolOf[s]] /\ executed[SymbolOf[s]] \in Nat
    BY <1>2, FreeMutex, SymbolOfAssumption
  <2>3. CASE SymbolOf[s] = symbol
    <3>1. Contains(trade_subscribers_[symbol], s)
      BY <1>7, <2>1, <2>3 DEF Registered
    <3>2. todo'[SymbolOf[s]] = trade_subscribers_[symbol] /\ executed'[SymbolOf[s]] = executed[symbol] + 1
      BY <1>2, <2>3
    <3> QED BY <2>2, <2>3, <3>1, <3>2 DEF Reached
  <2>4. CASE SymbolOf[s] # symbol
    BY <1>2, <2>2, <2>4 DEF Reached
  <2> QED BY <2>3, <2>4
<1>8. OpenedBefore' /\ NothingLost'
  BY <1>1, <1>7 DEF OpenedBefore, NothingLost
<1> QED BY <1>3, <1>4, <1>5, <1>6, <1>8

-----------------------------------------------------------------------------
(* What a stream has written, is writing and has queued *)

Updates(s) == received[s] \o update[s] \o q[s]

\* The k trades of its symbol after the first o.
Trades(s, o, k) == [n \in 1..k |-> [symbol |-> SymbolOf[s], number |-> o + n]]

LEMMA UpdateTypes ==
  ASSUME TypeOK, NEW s \in Subscribers
  PROVE  /\ received[s] \in Seq(TradeUpdate) /\ update[s] \in Seq(TradeUpdate)
         /\ q[s] \in Seq(TradeUpdate)
         /\ received[s] \o update[s] \in Seq(TradeUpdate) /\ Updates(s) \in Seq(TradeUpdate)
<1>1. received[s] \in Seq(TradeUpdate) /\ q[s] \in Seq(TradeUpdate)
  BY DEF TypeOK
<1>2. update[s] \in Seq(TradeUpdate)
  <2>1. update[s] = <<>> \/ \E u \in TradeUpdate : update[s] = <<u>>
    BY DEF TypeOK
  <2>2. \A u \in TradeUpdate : <<u>> \in Seq(TradeUpdate)
    OBVIOUS
  <2> QED BY <2>1, <2>2, EmptySeq
<1>3. received[s] \o update[s] \in Seq(TradeUpdate)
  BY <1>1, <1>2, ConcatProperties
<1>4. Updates(s) \in Seq(TradeUpdate)
  BY <1>1, <1>3, ConcatProperties DEF Updates
<1> QED BY <1>1, <1>2, <1>3, <1>4

\* Three queues in a row: a new update goes to the end, and the first of the
\* last queue may move to an empty one before it.
LEMMA AppendToLast ==
  ASSUME NEW S, NEW a \in Seq(S), NEW b \in Seq(S), NEW e \in S
  PROVE  a \o Append(b, e) = Append(a \o b, e)
<1>1. /\ <<e>> \in Seq(S) /\ a \o b \in Seq(S)
      /\ Append(b, e) = b \o <<e>> /\ Append(a \o b, e) = (a \o b) \o <<e>>
  <2>1. <<e>> \in Seq(S) /\ a \o b \in Seq(S)
    BY ConcatProperties
  <2> QED BY <2>1, AppendIsConcat
<1> QED BY <1>1, ConcatAssociative

LEMMA HeadMoves ==
  ASSUME NEW S, NEW a \in Seq(S), NEW b \in Seq(S), b # <<>>
  PROVE  (a \o <<Head(b)>>) \o Tail(b) = (a \o <<>>) \o b
<1>1. Head(b) \in S /\ Tail(b) \in Seq(S) /\ <<Head(b)>> \in Seq(S)
  BY HeadTailProperties
<1>2. <<Head(b)>> \o Tail(b) = b
  <2>1. /\ <<Head(b)>> \o Tail(b) \in Seq(S) /\ Len(<<Head(b)>> \o Tail(b)) = Len(b)
        /\ \A i \in 1..Len(b) : (<<Head(b)>> \o Tail(b))[i] = b[i]
    BY <1>1, HeadTailProperties, ConcatProperties, EmptySeq
  <2> QED BY <2>1, SeqEqual
<1>3. (a \o <<Head(b)>>) \o Tail(b) = a \o (<<Head(b)>> \o Tail(b))
  BY <1>1, ConcatAssociative
<1> QED BY <1>2, <1>3, ConcatEmptySeq

LEMMA NextTrade ==
  ASSUME NEW s \in Subscribers, NEW k \in Nat, NEW o \in Nat
  PROVE  Append(Trades(s, o, k), [symbol |-> SymbolOf[s], number |-> o + k + 1]) =
           Trades(s, o, k + 1)
<1> DEFINE R == [symbol : {SymbolOf[s]}, number : Nat]
           u == [symbol |-> SymbolOf[s], number |-> o + k + 1]
<1>1. /\ Trades(s, o, k) \in Seq(R) /\ Len(Trades(s, o, k)) = k
      /\ Trades(s, o, k + 1) \in Seq(R) /\ Len(Trades(s, o, k + 1)) = k + 1
      /\ u \in R
  BY DEF Trades
<1>2. /\ Append(Trades(s, o, k), u) \in Seq(R) /\ Len(Append(Trades(s, o, k), u)) = k + 1
      /\ \A i \in 1..k : Append(Trades(s, o, k), u)[i] = Trades(s, o, k)[i]
      /\ Append(Trades(s, o, k), u)[k + 1] = u
  BY <1>1, AppendProperties
<1>3. \A i \in 1..(k + 1) : Append(Trades(s, o, k), u)[i] = Trades(s, o, k + 1)[i]
  <2>1. ASSUME NEW i \in 1..k
        PROVE  Append(Trades(s, o, k), u)[i] = Trades(s, o, k + 1)[i]
    <3>1. i \in 1..(k + 1)
      OBVIOUS
    <3>2. Trades(s, o, k)[i] = [symbol |-> SymbolOf[s], number |-> o + i]
      BY DEF Trades
    <3>3. Trades(s, o, k + 1)[i] = [symbol |-> SymbolOf[s], number |-> o + i]
      BY <3>1 DEF Trades
    <3> QED BY <1>2, <3>2, <3>3
  <2>2. Append(Trades(s, o, k), u)[k + 1] = Trades(s, o, k + 1)[k + 1]
    <3>1. k + 1 \in 1..(k + 1) /\ o + (k + 1) = o + k + 1
      OBVIOUS
    <3> HIDE DEF u
    <3>2. Trades(s, o, k + 1)[k + 1] = [symbol |-> SymbolOf[s], number |-> o + (k + 1)]
      BY <3>1 DEF Trades
    <3> QED BY <1>2, <3>1, <3>2 DEF u
  <2>3. \A i \in 1..(k + 1) : i \in 1..k \/ i = k + 1
    OBVIOUS
  <2> QED BY <2>1, <2>2, <2>3
<1> QED BY <1>1, <1>2, <1>3, SeqEqual

LEMMA NothingLostMeans ==
  NothingLost <=>
    \A s \in Subscribers \ cancelled : pc[s] # "start" =>
      Updates(s) = Trades(s, opened[s], Reached(s) - opened[s])
BY DEF NothingLost, Updates, Trades

\* A step that changes neither what has reached a stream nor its updates.
LEMMA NothingLostStays ==
  ASSUME NothingLost, cancelled \subseteq cancelled',
         \A x \in Subscribers \ cancelled' : pc'[x] # "start" =>
           /\ pc[x] # "start" /\ opened'[x] = opened[x]
           /\ Updates(x)' = Updates(x) /\ Reached(x)' = Reached(x)
  PROVE  NothingLost'
<1>1. ASSUME NEW x \in Subscribers \ cancelled', pc'[x] # "start"
      PROVE  Updates(x)' = Trades(x, opened[x], Reached(x) - opened[x])'
  <2>1. Updates(x) = Trades(x, opened[x], Reached(x) - opened[x])
    BY <1>1, NothingLostMeans
  <2> QED BY <1>1, <2>1
<1> QED BY <1>1 DEF NothingLost, Updates, Trades

-----------------------------------------------------------------------------
(* Every step keeps the invariant, continued *)

LEMMA PushKeepsInv ==
  ASSUME Inv, NEW symbol \in Symbols, Push(symbol)
  PROVE  Inv'
<1> USE DEF Inv
<1>0. todo[symbol] \in Seq(Subscribers) /\ Once(todo[symbol]) /\ todo[symbol] # <<>>
  BY DEF Push, TypeOK, Publishing
<1>s. PICK s \in Subscribers : s = Head(todo[symbol])
  BY <1>0, TailDrops
<1>u. PICK u : u = [symbol |-> symbol, number |-> executed[symbol]]
  OBVIOUS
<1>1. /\ subscribers_mutex_ = symbol /\ todo[symbol] # <<>>
      /\ q' = [q EXCEPT ![s] = Append(@, u)]
      /\ pc' = [pc EXCEPT ![s] = IF @ = "waiting" THEN "locking" ELSE @]
      /\ todo' = [todo EXCEPT ![symbol] = Tail(@)]
      /\ UNCHANGED <<executed, trade_subscribers_, subscribers_mutex_, m, update, cancelled, opened,
                     received>>
  BY <1>s, <1>u DEF Push, Notify
<1>2. /\ todo[symbol] \in Seq(Subscribers) /\ Once(todo[symbol])
      /\ todo \in [Symbols -> Seq(Subscribers)] /\ q \in [Subscribers -> Seq(TradeUpdate)]
      /\ pc \in [Subscribers -> Labels]
      /\ executed \in [Symbols -> 0..MaxTrades] /\ executed[symbol] >= 1
  BY <1>1 DEF TypeOK, Publishing, Labels
<1>3. /\ s \in Subscribers /\ Contains(todo[symbol], s)
      /\ Tail(todo[symbol]) \in Seq(Subscribers) /\ Once(Tail(todo[symbol]))
      /\ \A e : Contains(Tail(todo[symbol]), e) <=> Contains(todo[symbol], e) /\ e # s
  BY <1>0, <1>s, TailDrops
<1>4. SymbolOf[s] = symbol /\ pc[s] \notin {"start", "done"}
  BY <1>3 DEF Publishing
<1>5. u \in TradeUpdate
  BY <1>u, <1>2, MaxTradesAssumption DEF TradeUpdate
<1>6. /\ \A x \in Subscribers : pc'[x] \in Labels
      /\ \A x \in Subscribers, l \in {"start", "done", "writing", "leaving"} : pc'[x] = l <=> pc[x] = l
      /\ pc' \in [Subscribers -> Labels]
  BY <1>1, <1>2 DEF Labels
<1>7. /\ q' \in [Subscribers -> Seq(TradeUpdate)]
      /\ q'[s] = Append(q[s], u) /\ \A x \in Subscribers \ {s} : q'[x] = q[x]
  <2>1. Append(q[s], u) \in Seq(TradeUpdate)
    BY <1>2, <1>3, <1>5
  <2> QED BY <1>1, <1>2, <1>3, <2>1
<1>8. TypeOK'
  BY <1>1, <1>2, <1>3, <1>6, <1>7 DEF TypeOK, Labels
<1>9. Registered'
  BY <1>1, <1>6 DEF Registered
<1>10. \A x \in Symbols : todo'[x] = IF x = symbol THEN Tail(todo[symbol]) ELSE todo[x]
  BY <1>1, <1>2
<1>11. Publishing'
  BY <1>1, <1>3, <1>6, <1>10 DEF Publishing
<1>12. Threading'
  BY <1>1, <1>4, <1>6, <1>7 DEF Threading
<1>13. ASSUME NEW x \in Subscribers
       PROVE  Contains(todo[SymbolOf[x]], x)' <=> Contains(todo[SymbolOf[x]], x) /\ x # s
  BY <1>3, <1>4, <1>10, SymbolOfAssumption
<1>14. \A x \in Subscribers : /\ SymbolOf[x] \in Symbols
                              /\ executed[SymbolOf[x]] \in Nat /\ opened[x] \in Nat
  BY SymbolOfAssumption, MaxTradesAssumption DEF TypeOK
<1>15. /\ \A x \in Subscribers \ {s} : Reached(x)' = Reached(x)
       /\ Reached(s) = executed[symbol] - 1 /\ Reached(s)' = executed[symbol]
  <2>1. \A x \in Subscribers : executed'[SymbolOf[x]] = executed[SymbolOf[x]]
    BY <1>1
  <2>2. \A x \in Subscribers :
          /\ Reached(x) = executed[SymbolOf[x]] - (IF Contains(todo[SymbolOf[x]], x) THEN 1 ELSE 0)
          /\ Reached(x)' = executed[SymbolOf[x]]
                            - (IF Contains(todo[SymbolOf[x]], x) /\ x # s THEN 1 ELSE 0)
    BY <1>13, <1>14, <2>1 DEF Reached
  <2> QED BY <1>3, <1>4, <1>14, <2>2
<1>16. OpenedBefore'
  BY <1>1, <1>2, <1>6, <1>14, <1>15 DEF OpenedBefore
<1>17. ASSUME NEW x \in Subscribers \ cancelled, pc[x] # "start"
       PROVE  Updates(x)' = Trades(x, opened[x], Reached(x) - opened[x])'
  <2>1. Updates(x) = Trades(x, opened[x], Reached(x) - opened[x])
    BY <1>17, NothingLostMeans
  <2>2. CASE x # s
    BY <1>1, <1>7, <1>15, <2>1, <2>2 DEF Updates
  <2>3. CASE x = s
    <3>k. PICK k : k = Reached(s) - opened[s]
      OBVIOUS
    <3>1. k \in Nat /\ opened[s] + k + 1 = executed[symbol] /\ Reached(s)' - opened[s] = k + 1
      <4>1. opened[s] <= Reached(s)
        BY <1>17, <2>3 DEF OpenedBefore
      <4>2. executed[symbol] \in Nat /\ opened[s] \in Nat
        BY <1>4, <1>14
      <4> QED BY <1>15, <3>k, <4>1, <4>2
    <3>2. Updates(s)' = Append(Updates(s), u)
      <4>1. Updates(s)' = (received[s] \o update[s]) \o Append(q[s], u)
        BY <1>1, <1>7 DEF Updates
      <4>2. received[s] \o update[s] \in Seq(TradeUpdate) /\ q[s] \in Seq(TradeUpdate)
        BY UpdateTypes
      <4>3. (received[s] \o update[s]) \o Append(q[s], u) =
              Append((received[s] \o update[s]) \o q[s], u)
        <5>1. \A a, b \in Seq(TradeUpdate), e \in TradeUpdate : a \o Append(b, e) = Append(a \o b, e)
          BY AppendToLast
        <5> QED BY <1>5, <4>2, <5>1, Zenon
      <4> QED BY <4>1, <4>3 DEF Updates
    <3>3. u = [symbol |-> SymbolOf[s], number |-> opened[s] + k + 1]
      BY <1>u, <1>4, <3>1
    <3>4. Append(Trades(s, opened[s], k), u) = Trades(s, opened[s], k + 1)
      BY <1>3, <1>14, <3>1, <3>3, NextTrade
    <3>5. Trades(s, opened[s], Reached(s) - opened[s])' = Trades(s, opened[s], k + 1)
      BY <1>1, <3>1
    <3> QED BY <2>1, <2>3, <3>k, <3>2, <3>4, <3>5
  <2> QED BY <2>2, <2>3
<1>18. NothingLost'
  <2>1. \A x \in Subscribers \ cancelled' : pc'[x] # "start" =>
          Updates(x)' = Trades(x, opened[x], Reached(x) - opened[x])'
    BY <1>1, <1>6, <1>17
  <2> QED BY <2>1 DEF NothingLost, Updates, Trades
<1> QED BY <1>8, <1>9, <1>11, <1>12, <1>16, <1>18

LEMMA PublishReturnKeepsInv ==
  ASSUME Inv, NEW symbol \in Symbols, PublishReturn(symbol)
  PROVE  Inv'
<1> USE DEF Inv, PublishReturn, publishing, streaming
<1>1. TypeOK' /\ Registered'
  BY DEF TypeOK, Registered
<1>2. Publishing'
  BY ThreadsAssumption DEF Publishing
<1>3. Threading' /\ OpenedBefore' /\ NothingLost'
  BY DEF Threading, OpenedBefore, NothingLost, Reached
<1> QED BY <1>1, <1>2, <1>3

-----------------------------------------------------------------------------
(* SubscribeTrades *)

\* A step of the thread of s in its loop that moves no update.
LEMMA MoveKeepsInv ==
  ASSUME Inv, NEW s \in Subscribers, NEW label \in Labels \ {"start", "writing", "done"},
         pc[s] \notin {"start", "writing", "done"},
         label = "leaving" => s \in cancelled,
         pc' = [pc EXCEPT ![s] = label],
         m' \in [Subscribers -> Subscribers \cup {Nobody}],
         UNCHANGED <<executed, trade_subscribers_, subscribers_mutex_, todo, q, update, cancelled,
                     opened, received>>
  PROVE  Inv'
<1> USE DEF Inv
<1>1. /\ pc' \in [Subscribers -> Labels]
      /\ \A x \in Subscribers : /\ pc'[x] = "start" <=> pc[x] = "start"
                                /\ pc'[x] = "writing" <=> pc[x] = "writing"
                                /\ pc'[x] = "done" <=> pc[x] = "done"
                                /\ pc'[x] \in {"leaving", "done"} => x \in cancelled
  BY DEF TypeOK, Labels, Threading
<1>2. TypeOK'
  BY <1>1 DEF TypeOK, Labels
<1>3. Registered' /\ Publishing'
  BY <1>1 DEF Registered, Publishing
<1>4. Threading'
  BY <1>1 DEF Threading
<1>5. \A x \in Subscribers : Reached(x)' = Reached(x)
  BY DEF Reached
<1>6. OpenedBefore'
  BY <1>1, <1>5 DEF OpenedBefore
<1>7. NothingLost'
  <2>1. \A x \in Subscribers : Updates(x)' = Updates(x)
    BY DEF Updates
  <2> QED BY <1>1, <1>5, <2>1, NothingLostStays
<1> QED BY <1>2, <1>3, <1>4, <1>6, <1>7

LEMMA LoopKeepsInv ==
  ASSUME Inv, NEW s \in Subscribers,
         Locked(s) \/ Check(s) \/ WakeSpuriously(s) \/ Relock(s) \/ (Drain(s) /\ q[s] = <<>>)
  PROVE  Inv'
<1>1. m \in [Subscribers -> Subscribers \cup {Nobody}]
  BY DEF Inv, TypeOK
<1>2. CASE Locked(s)
  BY <1>1, <1>2, MoveKeepsInv DEF Locked, Lock, Goto, publishing, Labels
<1>3. CASE Check(s)
  BY <1>1, <1>3, MoveKeepsInv DEF Check, Unlock, Goto, publishing, Labels
<1>4. CASE WakeSpuriously(s)
  BY <1>1, <1>4, MoveKeepsInv DEF WakeSpuriously, Goto, publishing, Labels
<1>5. CASE Relock(s)
  BY <1>1, <1>5, MoveKeepsInv DEF Relock, Lock, Goto, publishing, Labels
<1>6. CASE Drain(s) /\ q[s] = <<>>
  BY <1>1, <1>6, MoveKeepsInv DEF Drain, Unlock, Goto, publishing, Labels
<1> QED BY <1>2, <1>3, <1>4, <1>5, <1>6

\* A step of the thread of s that moves an update, from q to its hand or from
\* there to its client.
LEMMA TransferKeepsInv ==
  ASSUME Inv, NEW s \in Subscribers, NEW label \in {"writing", "relocking"},
         pc[s] \in {"draining", "writing"}, pc' = [pc EXCEPT ![s] = label],
         m' \in [Subscribers -> Subscribers \cup {Nobody}],
         q' \in [Subscribers -> Seq(TradeUpdate)],
         update' \in [Subscribers -> {<<>>} \cup {<<u>> : u \in TradeUpdate}],
         received' \in [Subscribers -> Seq(TradeUpdate)],
         \A x \in Subscribers \ {s} : q'[x] = q[x] /\ update'[x] = update[x] /\ received'[x] = received[x],
         update'[s] # <<>> => label = "writing",
         s \notin cancelled => Updates(s)' = Updates(s),
         UNCHANGED <<executed, trade_subscribers_, subscribers_mutex_, todo, cancelled, opened>>
  PROVE  Inv'
<1> USE DEF Inv
<1>1. /\ pc' \in [Subscribers -> Labels]
      /\ \A x \in Subscribers : /\ pc'[x] = "start" <=> pc[x] = "start"
                                /\ pc'[x] = "done" <=> pc[x] = "done"
                                /\ pc'[x] = "leaving" <=> pc[x] = "leaving"
                                /\ x # s => pc'[x] = pc[x]
      /\ pc'[s] = label
  BY DEF TypeOK, Labels
<1>2. TypeOK'
  BY <1>1 DEF TypeOK, Labels
<1>3. Registered' /\ Publishing'
  BY <1>1 DEF Registered, Publishing
<1>4. Threading'
  <2>1. ASSUME NEW x \in Subscribers, x # s
        PROVE  /\ update'[x] # <<>> => pc'[x] = "writing"
               /\ pc'[x] = "start" => received'[x] = <<>> /\ q'[x] = <<>>
               /\ pc'[x] \in {"leaving", "done"} => x \in cancelled'
    BY <1>1, <2>1 DEF Threading
  <2>2. pc'[s] \notin {"start", "leaving", "done"} /\ (update'[s] # <<>> => pc'[s] = "writing")
    BY <1>1
  <2> QED BY <2>1, <2>2 DEF Threading
<1>5. OpenedBefore'
  BY <1>1 DEF OpenedBefore, Reached
<1>6. \A x \in Subscribers \ cancelled : Updates(x)' = Updates(x)
  <2>1. ASSUME NEW x \in Subscribers \ {s}
        PROVE  Updates(x)' = Updates(x)
    BY DEF Updates
  <2> QED BY <2>1
<1>7. NothingLost'
  <2>1. \A x \in Subscribers : Reached(x)' = Reached(x)
    BY DEF Reached
  <2> QED BY <1>1, <1>6, <2>1, NothingLostStays
<1> QED BY <1>2, <1>3, <1>4, <1>5, <1>7

LEMMA DrainKeepsInv ==
  ASSUME Inv, NEW s \in Subscribers, Drain(s), q[s] # <<>>
  PROVE  Inv'
<1>1. /\ pc[s] = "draining" /\ pc' = [pc EXCEPT ![s] = "writing"]
      /\ update' = [update EXCEPT ![s] = <<Head(q[s])>>]
      /\ q' = [q EXCEPT ![s] = Tail(@)]
      /\ m' = [m EXCEPT ![s] = Nobody]
      /\ UNCHANGED <<trade_subscribers_, subscribers_mutex_, cancelled, opened, received, executed, todo>>
  BY DEF Drain, Goto, Unlock, publishing
<1>2. /\ m \in [Subscribers -> Subscribers \cup {Nobody}]
      /\ q \in [Subscribers -> Seq(TradeUpdate)]
      /\ update \in [Subscribers -> {<<>>} \cup {<<u>> : u \in TradeUpdate}]
      /\ received \in [Subscribers -> Seq(TradeUpdate)]
  BY DEF Inv, TypeOK
<1>3. update[s] = <<>>
  BY <1>1 DEF Inv, Threading
<1>4. Head(q[s]) \in TradeUpdate /\ Tail(q[s]) \in Seq(TradeUpdate)
  BY <1>2, HeadTailProperties
<1>5. Updates(s)' = Updates(s)
  <2>1. Updates(s)' = (received[s] \o <<Head(q[s])>>) \o Tail(q[s])
    BY <1>1, <1>2 DEF Updates
  <2>2. Updates(s) = (received[s] \o <<>>) \o q[s]
    BY <1>3 DEF Updates
  <2>3. \A a, b \in Seq(TradeUpdate) : b # <<>> => (a \o <<Head(b)>>) \o Tail(b) = (a \o <<>>) \o b
    BY HeadMoves
  <2>4. received[s] \in Seq(TradeUpdate) /\ q[s] \in Seq(TradeUpdate)
    BY <1>2
  <2> QED BY <2>1, <2>2, <2>3, <2>4, Zenon
<1>6. /\ q' \in [Subscribers -> Seq(TradeUpdate)]
      /\ update' \in [Subscribers -> {<<>>} \cup {<<u>> : u \in TradeUpdate}]
      /\ m' \in [Subscribers -> Subscribers \cup {Nobody}]
  BY <1>1, <1>2, <1>4
<1>7. \A x \in Subscribers \ {s} : q'[x] = q[x] /\ update'[x] = update[x] /\ received'[x] = received[x]
  BY <1>1, <1>2
<1> QED BY <1>1, <1>2, <1>5, <1>6, <1>7, TransferKeepsInv

LEMMA WriteKeepsInv ==
  ASSUME Inv, NEW s \in Subscribers, Write(s)
  PROVE  Inv'
<1>1. /\ pc[s] = "writing" /\ pc' = [pc EXCEPT ![s] = "relocking"]
      /\ received' = IF s \in cancelled THEN received ELSE [received EXCEPT ![s] = @ \o update[s]]
      /\ update' = [update EXCEPT ![s] = <<>>]
      /\ UNCHANGED <<trade_subscribers_, subscribers_mutex_, q, m, cancelled, opened, executed, todo>>
  BY DEF Write, Goto, publishing
<1>2. /\ m \in [Subscribers -> Subscribers \cup {Nobody}]
      /\ q \in [Subscribers -> Seq(TradeUpdate)]
      /\ update \in [Subscribers -> {<<>>} \cup {<<u>> : u \in TradeUpdate}]
      /\ received \in [Subscribers -> Seq(TradeUpdate)]
  BY DEF Inv, TypeOK
<1>3. received[s] \o update[s] \in Seq(TradeUpdate)
  BY UpdateTypes DEF Inv
<1>4. ASSUME s \notin cancelled
      PROVE  Updates(s)' = Updates(s)
  <2>1. Updates(s)' = ((received[s] \o update[s]) \o <<>>) \o q[s]
    BY <1>1, <1>2, <1>4 DEF Updates
  <2>2. (received[s] \o update[s]) \o <<>> = received[s] \o update[s]
    BY <1>3, ConcatEmptySeq
  <2> QED BY <2>1, <2>2 DEF Updates
<1>5. /\ received' \in [Subscribers -> Seq(TradeUpdate)]
      /\ update' \in [Subscribers -> {<<>>} \cup {<<u>> : u \in TradeUpdate}]
      /\ update'[s] = <<>>
  BY <1>1, <1>2, <1>3
<1>6. \A x \in Subscribers \ {s} : q'[x] = q[x] /\ update'[x] = update[x] /\ received'[x] = received[x]
  BY <1>1, <1>2
<1> QED BY <1>1, <1>2, <1>4, <1>5, <1>6, TransferKeepsInv

LEMMA SubscribeKeepsInv ==
  ASSUME Inv, NEW s \in Subscribers, SubscribeTrades(s)
  PROVE  Inv'
<1> USE DEF Inv
<1>1. PICK symbol \in Symbols : symbol = SymbolOf[s]
  BY SymbolOfAssumption
<1>2. PICK opening : opening = executed[symbol]
  OBVIOUS
<1>3. /\ pc[s] = "start" /\ pc' = [pc EXCEPT ![s] = "locking"] /\ subscribers_mutex_ = Nobody
      /\ trade_subscribers_' = [trade_subscribers_ EXCEPT ![symbol] = Append(@, s)]
      /\ opened' = IF s \in cancelled THEN opened ELSE [opened EXCEPT ![s] = opening]
      /\ UNCHANGED <<subscribers_mutex_, q, m, update, cancelled, received, executed, todo>>
  BY <1>1, <1>2 DEF SubscribeTrades, Goto, publishing
<1>4. /\ trade_subscribers_ \in [Symbols -> Seq(Subscribers)]
      /\ pc \in [Subscribers -> Labels] /\ opened \in [Subscribers -> 0..MaxTrades]
      /\ executed \in [Symbols -> 0..MaxTrades] /\ opening \in 0..MaxTrades
  BY <1>2 DEF TypeOK, Labels
<1>5. /\ trade_subscribers_[symbol] \in Seq(Subscribers)
      /\ Once(trade_subscribers_[symbol]) /\ ~Contains(trade_subscribers_[symbol], s)
  BY <1>3, <1>4 DEF Registered
<1>6. /\ Append(trade_subscribers_[symbol], s) \in Seq(Subscribers)
      /\ Once(Append(trade_subscribers_[symbol], s))
      /\ \A e : Contains(Append(trade_subscribers_[symbol], s), e)
                  <=> Contains(trade_subscribers_[symbol], e) \/ e = s
  BY <1>5, AppendAdds
<1>7. /\ pc' \in [Subscribers -> Labels] /\ pc'[s] = "locking"
      /\ \A x \in Subscribers : x # s => pc'[x] = pc[x] /\ opened'[x] = opened[x]
      /\ s \notin cancelled => opened'[s] = opening
      /\ opened' \in [Subscribers -> 0..MaxTrades]
      /\ trade_subscribers_' \in [Symbols -> Seq(Subscribers)]
      /\ \A y \in Symbols : trade_subscribers_'[y] =
           IF y = symbol THEN Append(trade_subscribers_[symbol], s) ELSE trade_subscribers_[y]
  BY <1>3, <1>4, <1>6 DEF Labels
<1>8. TypeOK'
  BY <1>3, <1>7 DEF TypeOK, Labels
<1>9. Registered'
  BY <1>1, <1>3, <1>6, <1>7 DEF Registered
<1>10. Publishing'
  BY <1>3, <1>7 DEF Publishing
<1>11. Threading'
  BY <1>3, <1>7 DEF Threading
<1>12. \A x \in Subscribers : Reached(x)' = Reached(x)
  BY <1>3 DEF Reached
<1>13. Reached(s) = opening /\ opening \in Nat
  BY <1>1, <1>2, <1>3, <1>4, FreeMutex
<1>14. OpenedBefore'
  BY <1>3, <1>7, <1>12, <1>13 DEF OpenedBefore
<1>15. ASSUME NEW x \in Subscribers \ cancelled, pc'[x] # "start"
       PROVE  Updates(x)' = Trades(x, opened[x], Reached(x) - opened[x])'
  <2>1. Updates(x)' = Updates(x)
    BY <1>3 DEF Updates
  <2>2. CASE x # s
    <3>1. Updates(x) = Trades(x, opened[x], Reached(x) - opened[x])
      BY <1>7, <1>15, <2>2, NothingLostMeans
    <3> QED BY <1>7, <1>12, <2>1, <2>2, <3>1
  <2>3. CASE x = s
    <3>1. received[s] = <<>> /\ q[s] = <<>> /\ update[s] = <<>>
      BY <1>3 DEF Threading
    <3>2. Updates(s) = <<>>
      BY <3>1 DEF Updates
    <3>3. Reached(s)' - opened'[s] = 0
      BY <1>7, <1>12, <1>13, <1>15, <2>3
    <3>4. \A o : Trades(s, o, 0) = <<>>
      BY DEF Trades
    <3> QED BY <2>1, <2>3, <3>2, <3>3, <3>4
  <2> QED BY <2>2, <2>3
<1>16. NothingLost'
  BY <1>3, <1>15 DEF NothingLost, Updates, Trades
<1> QED BY <1>8, <1>9, <1>10, <1>11, <1>14, <1>16

LEMMA UnsubscribeKeepsInv ==
  ASSUME Inv, NEW s \in Subscribers, Unsubscribe(s)
  PROVE  Inv'
<1> USE DEF Inv
<1>1. PICK symbol \in Symbols : symbol = SymbolOf[s]
  BY SymbolOfAssumption
<1>2. PICK v \in Seq(Subscribers) : v = trade_subscribers_[symbol]
  BY DEF TypeOK
<1>3. PICK w : w = RemoveAt(v, CHOOSE i \in DOMAIN v : v[i] = s)
  OBVIOUS
<1>4. /\ pc[s] = "leaving" /\ pc' = [pc EXCEPT ![s] = "done"] /\ subscribers_mutex_ = Nobody
      /\ trade_subscribers_' = [trade_subscribers_ EXCEPT ![symbol] = w]
      /\ UNCHANGED <<subscribers_mutex_, q, m, update, cancelled, opened, received, executed, todo>>
  BY <1>1, <1>2, <1>3 DEF Unsubscribe, Goto, publishing
<1>5. Once(v) /\ Contains(v, s)
  BY <1>1, <1>2, <1>4 DEF Registered
<1>6. /\ w \in Seq(Subscribers) /\ Once(w)
      /\ \A e : Contains(w, e) <=> Contains(v, e) /\ e # s
  BY <1>3, <1>5, EraseKeepsOthers
<1>7. /\ pc' \in [Subscribers -> Labels] /\ pc'[s] = "done" /\ s \in cancelled
      /\ \A x \in Subscribers : x # s => pc'[x] = pc[x]
      /\ trade_subscribers_' \in [Symbols -> Seq(Subscribers)]
      /\ \A y \in Symbols : trade_subscribers_'[y] = IF y = symbol THEN w ELSE trade_subscribers_[y]
  BY <1>4, <1>6 DEF TypeOK, Labels, Threading
<1>8. TypeOK'
  BY <1>4, <1>7 DEF TypeOK, Labels
<1>9. Registered'
  BY <1>1, <1>2, <1>4, <1>6, <1>7 DEF Registered
<1>10. \A y \in Symbols, x \in Subscribers : ~Contains(todo[y], x)
  <2>1. \A y \in Symbols : todo[y] = <<>>
    BY <1>4, FreeMutex
  <2> QED BY <2>1 DEF Contains
<1>11. Publishing'
  BY <1>4, <1>10 DEF Publishing
<1>12. Threading'
  BY <1>4, <1>7 DEF Threading
<1>13. \A x \in Subscribers : Reached(x)' = Reached(x)
  BY <1>4 DEF Reached
<1>14. \A x \in Subscribers : Updates(x)' = Updates(x)
  BY <1>4 DEF Updates
<1>15. OpenedBefore'
  BY <1>4, <1>7, <1>13 DEF OpenedBefore
<1>16. NothingLost'
  BY <1>4, <1>7, <1>13, <1>14, NothingLostStays
<1> QED BY <1>8, <1>9, <1>11, <1>12, <1>15, <1>16

LEMMA CancelKeepsInv ==
  ASSUME Inv, NEW s \in Subscribers, Cancel(s)
  PROVE  Inv'
<1> USE DEF Inv
<1>1. /\ cancelled' = cancelled \cup {s}
      /\ UNCHANGED <<trade_subscribers_, subscribers_mutex_, q, m, executed, todo, pc, update, opened,
                     received>>
  BY DEF Cancel, publishing, streaming
<1>2. TypeOK' /\ Registered' /\ Publishing' /\ Threading'
  BY <1>1 DEF TypeOK, Registered, Publishing, Threading
<1>3. \A x \in Subscribers : Reached(x)' = Reached(x) /\ Updates(x)' = Updates(x)
  BY <1>1 DEF Reached, Updates
<1>4. OpenedBefore'
  BY <1>1, <1>3 DEF OpenedBefore
<1>5. NothingLost'
  BY <1>1, <1>3, NothingLostStays
<1> QED BY <1>2, <1>4, <1>5

LEMMA NextKeepsInv == Inv /\ [Next]_vars => Inv'
<1> SUFFICES ASSUME Inv, [Next]_vars
             PROVE  Inv'
  OBVIOUS
<1>1. CASE UNCHANGED vars
  <2>1. UNCHANGED <<executed, trade_subscribers_, subscribers_mutex_, todo, q, m, pc, update, cancelled,
                    opened, received>>
    BY <1>1 DEF vars
  <2>2. TypeOK' /\ Registered' /\ Publishing' /\ Threading'
    BY <2>1 DEF Inv, TypeOK, Registered, Publishing, Threading
  <2>3. \A x \in Subscribers : Reached(x)' = Reached(x) /\ Updates(x)' = Updates(x)
    BY <2>1 DEF Reached, Updates
  <2>4. OpenedBefore'
    BY <2>1, <2>3 DEF Inv, OpenedBefore
  <2>5. NothingLost'
    BY <2>1, <2>3, NothingLostStays DEF Inv
  <2> QED BY <2>2, <2>4, <2>5 DEF Inv
<1>2. ASSUME NEW symbol \in Symbols, PublishTrade(symbol) \/ Publisher(symbol)
      PROVE  Inv'
  BY <1>2, PublishTradeKeepsInv, PushKeepsInv, PublishReturnKeepsInv DEF Publisher
<1>3. ASSUME NEW s \in Subscribers, Stream(s) \/ Write(s) \/ WakeSpuriously(s) \/ Cancel(s)
      PROVE  Inv'
  <2>1. CASE SubscribeTrades(s) \/ Unsubscribe(s)
    BY <2>1, SubscribeKeepsInv, UnsubscribeKeepsInv
  <2>2. CASE Locked(s) \/ Check(s) \/ WakeSpuriously(s) \/ Relock(s)
    BY <2>2, LoopKeepsInv
  <2>3. CASE Drain(s)
    BY <2>3, DrainKeepsInv, LoopKeepsInv
  <2>4. CASE Write(s) \/ Cancel(s)
    BY <2>4, WriteKeepsInv, CancelKeepsInv
  <2> QED BY <1>3, <2>1, <2>2, <2>3, <2>4 DEF Stream
<1> QED BY <1>1, <1>2, <1>3 DEF Next

LEMMA InvHolds == Spec => []Inv
BY InitInv, NextKeepsInv, PTL DEF Spec

(***************************************************************************)
(* The variables have their types in every reachable state.                 *)
(***************************************************************************)
THEOREM TypeCorrect == Spec => []TypeOK
<1>1. Inv => TypeOK
  BY DEF Inv
<1> QED BY <1>1, InvHolds, PTL

(***************************************************************************)
(* Between publishTrade and a stream that stays, no update is lost,         *)
(* repeated or put out of order.                                            *)
(***************************************************************************)
THEOREM NoUpdateLost == Spec => []NothingLost
<1>1. Inv => NothingLost
  BY DEF Inv
<1> QED BY <1>1, InvHolds, PTL

-----------------------------------------------------------------------------
(* The iteration of publishTrade *)

Iterating ==
  \A symbol \in Symbols : RestOf(todo[symbol], trade_subscribers_[symbol])

\* What is left after one element more.
LEMMA RestAfterNext ==
  ASSUME NEW v \in Seq(Subscribers), NEW rest \in Seq(Subscribers), rest # <<>>, RestOf(rest, v)
  PROVE  RestOf(Tail(rest), v)
<1>1. /\ Len(v) \in Nat /\ Len(rest) \in Nat /\ Len(rest) >= 1 /\ Len(rest) <= Len(v)
      /\ Len(Tail(rest)) = Len(rest) - 1
      /\ DOMAIN rest = 1..Len(rest) /\ DOMAIN Tail(rest) = 1..(Len(rest) - 1)
      /\ \A i \in 1..(Len(rest) - 1) : Tail(rest)[i] = rest[i + 1]
  BY HeadTailProperties, LenProperties, EmptySeq DEF RestOf
<1>2. ASSUME NEW i \in 1..(Len(rest) - 1)
      PROVE  Tail(rest)[i] = v[Len(v) - Len(Tail(rest)) + i]
  <2>1. i + 1 \in DOMAIN rest
    BY <1>1
  <2>2. rest[i + 1] = v[Len(v) - Len(rest) + (i + 1)]
    BY <2>1 DEF RestOf
  <2>3. Len(v) - Len(rest) + (i + 1) = Len(v) - (Len(rest) - 1) + i
    BY <1>1
  <2> QED BY <1>1, <2>2, <2>3
<1> QED BY <1>1, <1>2 DEF RestOf

\* Without a publisher under way there is nothing left to reach.
LEMMA NothingToReach ==
  ASSUME NEW v \in Seq(Subscribers)
  PROVE  RestOf(<<>>, v)
BY LenProperties DEF RestOf

LEMMA InitIterating == Init => Iterating
<1> SUFFICES ASSUME Init, NEW symbol \in Symbols
             PROVE  RestOf(todo[symbol], trade_subscribers_[symbol])
  BY DEF Iterating
<1>1. todo[symbol] = <<>> /\ trade_subscribers_[symbol] = <<>>
  BY DEF Init
<1>2. <<>> \in Seq(Subscribers)
  BY EmptySeq
<1> QED BY <1>1, <1>2, NothingToReach

LEMMA NextKeepsIterating == Inv /\ Iterating /\ [Next]_vars => Iterating'
<1> SUFFICES ASSUME Inv, Iterating, [Next]_vars, NEW x \in Symbols
             PROVE  RestOf(todo'[x], trade_subscribers_'[x])
  BY DEF Iterating, RestOf
<1>1. /\ todo \in [Symbols -> Seq(Subscribers)] /\ todo[x] \in Seq(Subscribers)
      /\ trade_subscribers_ \in [Symbols -> Seq(Subscribers)]
      /\ trade_subscribers_[x] \in Seq(Subscribers)
      /\ RestOf(todo[x], trade_subscribers_[x])
  BY DEF Inv, TypeOK, Iterating
<1>2. ASSUME NEW symbol \in Symbols, PublishTrade(symbol)
      PROVE  RestOf(todo'[x], trade_subscribers_'[x])
  <2>1. /\ todo' = [todo EXCEPT ![symbol] = trade_subscribers_[symbol]]
        /\ trade_subscribers_' = trade_subscribers_
    BY <1>2 DEF PublishTrade
  <2>2. CASE x = symbol
    <3>1. todo'[x] = trade_subscribers_[x]
      BY <1>1, <2>1, <2>2
    <3>2. Len(trade_subscribers_[x]) \in Nat /\ DOMAIN trade_subscribers_[x] = 1..Len(trade_subscribers_[x])
      BY <1>1, LenProperties
    <3> QED BY <2>1, <3>1, <3>2 DEF RestOf
  <2>3. CASE x # symbol
    BY <1>1, <2>1, <2>3
  <2> QED BY <2>2, <2>3
<1>3. ASSUME NEW symbol \in Symbols, Push(symbol)
      PROVE  RestOf(todo'[x], trade_subscribers_'[x])
  <2>1. /\ todo[symbol] # <<>> /\ todo' = [todo EXCEPT ![symbol] = Tail(@)]
        /\ trade_subscribers_' = trade_subscribers_
    BY <1>3 DEF Push
  <2>2. CASE x = symbol
    BY <1>1, <2>1, <2>2, RestAfterNext
  <2>3. CASE x # symbol
    BY <1>1, <2>1, <2>3
  <2> QED BY <2>2, <2>3
<1>4. ASSUME NEW s \in Subscribers, SubscribeTrades(s) \/ Unsubscribe(s)
      PROVE  RestOf(todo'[x], trade_subscribers_'[x])
  <2>1. subscribers_mutex_ = Nobody /\ todo' = todo
    BY <1>4 DEF SubscribeTrades, Unsubscribe, publishing
  <2>2. todo'[x] = <<>>
    BY <2>1, FreeMutex
  <2>3. trade_subscribers_'[x] \in Seq(Subscribers)
    BY <1>4, SubscribeKeepsInv, UnsubscribeKeepsInv DEF Inv, TypeOK
  <2> QED BY <2>2, <2>3, NothingToReach
<1>5. ASSUME UNCHANGED <<todo, trade_subscribers_>>
      PROVE  RestOf(todo'[x], trade_subscribers_'[x])
  BY <1>1, <1>5
<1>6. CASE \E symbol \in Symbols : PublishTrade(symbol) \/ Publisher(symbol)
  BY <1>2, <1>3, <1>5, <1>6 DEF Publisher, PublishReturn, publishing
<1>7. CASE \E s \in Subscribers : Stream(s) \/ Write(s) \/ WakeSpuriously(s) \/ Cancel(s)
  <2> SUFFICES ASSUME NEW s \in Subscribers, Stream(s) \/ Write(s) \/ WakeSpuriously(s) \/ Cancel(s)
               PROVE  RestOf(todo'[x], trade_subscribers_'[x])
    BY <1>7
  <2>1. CASE SubscribeTrades(s) \/ Unsubscribe(s)
    BY <1>4, <2>1
  <2>2. CASE Locked(s) \/ Check(s) \/ Drain(s) \/ Relock(s)
    BY <1>5, <2>2 DEF Locked, Check, Drain, Relock, publishing
  <2>3. CASE Write(s) \/ WakeSpuriously(s) \/ Cancel(s)
    BY <1>5, <2>3 DEF Write, WakeSpuriously, Cancel, publishing
  <2> QED BY <2>1, <2>2, <2>3 DEF Stream
<1>8. CASE UNCHANGED vars
  BY <1>5, <1>8 DEF vars
<1> QED BY <1>6, <1>7, <1>8 DEF Next

(***************************************************************************)
(* While publishTrade goes through the vector of a symbol no stream joins   *)
(* or leaves it, and none that it has still to reach has returned.          *)
(***************************************************************************)
THEOREM IterationIsSafe == Spec => []IterationHolds
<1>1. Inv /\ Iterating => IterationHolds
  BY DEF Inv, Publishing, Iterating, IterationHolds
<1> QED BY <1>1, InvHolds, InitIterating, NextKeepsIterating, PTL DEF Spec

-----------------------------------------------------------------------------
(* The refinement of TradeFeed *)

\* What a client can see of its stream.
Seen == [s \in Subscribers |-> IF s \in cancelled THEN "closed"
                              ELSE IF pc[s] = "start" THEN "unopened" ELSE "open"]

LEMMA InitRefines == Init => Feed!Init
BY DEF Init, Feed!Init

\* What a step must leave alone to be invisible to clients.
LEMMA Invisible ==
  ASSUME Inv, UNCHANGED <<executed, cancelled, opened, received>>,
         \A s \in Subscribers \ cancelled : pc'[s] = "start" <=> pc[s] = "start"
  PROVE  UNCHANGED Feed!vars
<1>1. Seen' = Seen
  BY DEF Seen
<1> QED BY <1>1 DEF Feed!vars, Seen

LEMMA PublishTradeRefines ==
  ASSUME Inv, NEW symbol \in Symbols, PublishTrade(symbol)
  PROVE  Feed!Execute(symbol)
<1>1. UNCHANGED <<cancelled, pc, opened, received>>
  BY DEF PublishTrade, streaming
<1>2. Seen' = Seen
  BY <1>1 DEF Seen
<1> QED BY <1>1, <1>2 DEF PublishTrade, Feed!Execute, Seen

LEMMA SubscribeRefines ==
  ASSUME Inv, NEW s \in Subscribers, SubscribeTrades(s)
  PROVE  Feed!Open(s) \/ UNCHANGED Feed!vars
<1>1. /\ pc[s] = "start" /\ pc' = [pc EXCEPT ![s] = "locking"] /\ pc \in [Subscribers -> Labels]
      /\ opened' = IF s \in cancelled THEN opened ELSE [opened EXCEPT ![s] = executed[SymbolOf[s]]]
      /\ UNCHANGED <<executed, cancelled, received>>
  BY DEF SubscribeTrades, Goto, publishing, Inv, TypeOK, Labels
<1>2. CASE s \in cancelled
  BY <1>1, <1>2, Invisible
<1>3. CASE s \notin cancelled
  <2>1. Seen[s] = "unopened" /\ Seen' = [Seen EXCEPT ![s] = "open"]
    BY <1>1, <1>3 DEF Seen
  <2> QED BY <1>1, <1>3, <2>1 DEF Feed!Open, Seen
<1> QED BY <1>2, <1>3

LEMMA WriteRefines ==
  ASSUME Inv, NEW s \in Subscribers, Write(s)
  PROVE  Feed!Receive(s) \/ UNCHANGED Feed!vars
<1>1. /\ pc[s] = "writing" /\ pc' = [pc EXCEPT ![s] = "relocking"] /\ pc \in [Subscribers -> Labels]
      /\ received' = IF s \in cancelled THEN received ELSE [received EXCEPT ![s] = @ \o update[s]]
      /\ UNCHANGED <<executed, cancelled, opened>>
  BY DEF Write, Goto, publishing, Inv, TypeOK, Labels
<1>2. Seen' = Seen
  BY <1>1 DEF Seen
<1>3. CASE s \in cancelled \/ update[s] = <<>>
  <2>1. received' = received
    <3>1. received \in [Subscribers -> Seq(TradeUpdate)] /\ received[s] \o <<>> = received[s]
      BY ConcatEmptySeq DEF Inv, TypeOK
    <3> QED BY <1>1, <1>3, <3>1
  <2> QED BY <1>1, <1>2, <2>1 DEF Feed!vars, Seen
<1>4. CASE s \notin cancelled /\ update[s] # <<>>
  <2>1. PICK u \in TradeUpdate : update[s] = <<u>>
    BY <1>4 DEF Inv, TypeOK
  <2>2. PICK l : l = Len(received[s])
    OBVIOUS
  <2>3. received[s] \in Seq(TradeUpdate) /\ q[s] \in Seq(TradeUpdate) /\ l \in Nat /\ <<u>> \in Seq(TradeUpdate)
    BY <2>2, LenProperties DEF Inv, TypeOK
  <2>4. /\ received[s] \o <<u>> \in Seq(TradeUpdate) /\ Len(received[s] \o <<u>>) = l + 1
        /\ (received[s] \o <<u>>)[l + 1] = u
        /\ received[s] \o <<u>> = Append(received[s], u)
    BY <2>2, <2>3, AppendIsConcat, AppendProperties
  <2>5. Len(Updates(s)) >= l + 1 /\ Updates(s)[l + 1] = u
    <3>1. PICK a \in Seq(TradeUpdate) : a = received[s] \o <<u>>
      BY <2>4
    <3>2. /\ Len(a \o q[s]) = Len(a) + Len(q[s])
          /\ \A i \in 1..(Len(a) + Len(q[s])) :
               (a \o q[s])[i] = IF i <= Len(a) THEN a[i] ELSE q[s][i - Len(a)]
      BY <2>3, ConcatProperties
    <3>3. Len(a) = l + 1 /\ a[l + 1] = u /\ Len(q[s]) \in Nat
      BY <2>3, <2>4, <3>1, LenProperties
    <3>4. l + 1 \in 1..(Len(a) + Len(q[s])) /\ l + 1 <= Len(a) /\ Len(a) + Len(q[s]) >= l + 1
      <4>1. PICK n \in Nat : n = Len(q[s])
        BY <3>3
      <4>2. l \in Nat /\ Len(a) = l + 1
        BY <2>3, <3>3
      <4>3. l + 1 \in 1..((l + 1) + n) /\ l + 1 <= l + 1 /\ (l + 1) + n >= l + 1
        BY <4>2
      <4> QED BY <4>1, <4>2, <4>3
    <3>5. (a \o q[s])[l + 1] = u /\ Len(a \o q[s]) >= l + 1
      BY <3>2, <3>3, <3>4
    <3>6. Updates(s) = a \o q[s]
      BY <2>1, <3>1 DEF Updates
    <3> QED BY <3>5, <3>6
  <2>6. PICK k : k = Reached(s) - opened[s]
    OBVIOUS
  <2>7. /\ executed[SymbolOf[s]] \in Nat /\ opened[s] \in Nat /\ opened[s] <= Reached(s)
        /\ Reached(s) \in Int /\ Reached(s) <= executed[SymbolOf[s]] /\ k \in Nat
    <3>1. executed[SymbolOf[s]] \in Nat /\ opened[s] \in Nat
      BY SymbolOfAssumption, MaxTradesAssumption DEF Inv, TypeOK
    <3>2. opened[s] <= Reached(s)
      BY <1>1, <1>4 DEF Inv, OpenedBefore
    <3> QED BY <2>6, <3>1, <3>2 DEF Reached
  <2>8. Updates(s) = Trades(s, opened[s], k)
    BY <1>1, <1>4, <2>6, NothingLostMeans DEF Inv
  <2>9. l + 1 <= k /\ u = [symbol |-> SymbolOf[s], number |-> opened[s] + (l + 1)]
    <3>1. Len(Trades(s, opened[s], k)) = k
      BY <2>7 DEF Trades
    <3>2. l + 1 \in 1..k
      BY <2>3, <2>5, <2>7, <2>8, <3>1
    <3>3. Trades(s, opened[s], k)[l + 1] = [symbol |-> SymbolOf[s], number |-> opened[s] + (l + 1)]
      BY <3>2 DEF Trades
    <3> QED BY <2>5, <2>8, <3>2, <3>3
  <2>10. opened[s] + l + 1 <= executed[SymbolOf[s]] /\ opened[s] + (l + 1) = opened[s] + l + 1
    <3>1. l \in Nat /\ l + 1 <= k
      BY <2>3, <2>9
    <3> QED BY <2>6, <2>7, <3>1
  <2>11. received' = [received EXCEPT ![s] = Append(@, u)]
    BY <1>1, <1>4, <2>1, <2>4
  <2>12. Seen[s] = "open"
    BY <1>1, <1>4 DEF Seen
  <2> QED BY <1>1, <1>2, <2>2, <2>9, <2>10, <2>11, <2>12 DEF Feed!Receive, Seen
<1> QED BY <1>3, <1>4

LEMMA CancelRefines ==
  ASSUME Inv, NEW s \in Subscribers, Cancel(s)
  PROVE  Feed!Close(s)
<1>1. /\ s \notin cancelled /\ cancelled' = cancelled \cup {s}
      /\ UNCHANGED <<executed, pc, opened, received>>
  BY DEF Cancel, publishing, streaming
<1>2. Seen[s] # "closed" /\ Seen' = [Seen EXCEPT ![s] = "closed"]
  BY <1>1 DEF Seen
<1> QED BY <1>1, <1>2 DEF Feed!Close, Seen

LEMMA NextRefines == Inv /\ [Next]_vars => [Feed!Next]_(Feed!vars)
<1> SUFFICES ASSUME Inv, [Next]_vars
             PROVE  Feed!Next \/ UNCHANGED Feed!vars
  OBVIOUS
<1>1. pc \in [Subscribers -> Labels]
  BY DEF Inv, TypeOK, Labels
<1>2. CASE UNCHANGED vars
  BY <1>2, Invisible DEF vars
<1>3. ASSUME NEW symbol \in Symbols, PublishTrade(symbol)
      PROVE  Feed!Next
  BY <1>3, PublishTradeRefines DEF Feed!Next
<1>4. ASSUME NEW symbol \in Symbols, Publisher(symbol)
      PROVE  UNCHANGED Feed!vars
  BY <1>1, <1>4, Invisible DEF Publisher, Push, PublishReturn, Notify, publishing, streaming
<1>5. ASSUME NEW s \in Subscribers, Stream(s) \/ Write(s) \/ WakeSpuriously(s) \/ Cancel(s)
      PROVE  Feed!Next \/ UNCHANGED Feed!vars
  <2>1. CASE SubscribeTrades(s)
    BY <2>1, SubscribeRefines DEF Feed!Next
  <2>2. CASE Write(s)
    BY <2>2, WriteRefines DEF Feed!Next
  <2>3. CASE Cancel(s)
    BY <2>3, CancelRefines DEF Feed!Next
  <2>4. CASE Locked(s) \/ Check(s) \/ WakeSpuriously(s) \/ Drain(s) \/ Relock(s) \/ Unsubscribe(s)
    BY <1>1, <2>4, Invisible
       DEF Locked, Check, WakeSpuriously, Drain, Relock, Unsubscribe, Goto, publishing
  <2> QED BY <1>5, <2>1, <2>2, <2>3, <2>4 DEF Stream
<1> QED BY <1>2, <1>3, <1>4, <1>5 DEF Next

(***************************************************************************)
(* To every client its stream is the feed of TradeFeed: the trades of its   *)
(* symbol from its opening on, one after the other.                         *)
(***************************************************************************)
THEOREM Refinement == Spec => ImplementsFeed
<1> QED BY InitRefines, NextRefines, InvHolds, PTL DEF Spec, ImplementsFeed, Feed!Spec

=============================================================================
