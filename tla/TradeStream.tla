----------------------------- MODULE TradeStream -----------------------------
(***************************************************************************)
(* Trade streaming in the order matching engine: publishTrade, which the    *)
(* matching thread of a symbol calls for every trade (it holds the mutex_   *)
(* of the symbol's book, so there is one publisher per symbol), and         *)
(* SubscribeTrades, which occupies a gRPC thread per stream.  They share    *)
(* trade_subscribers_ under subscribers_mutex_ and, per subscriber, a queue *)
(* under the subscriber's mutex m and a condition variable cv.              *)
(*                                                                         *)
(* A publisher is named by its symbol and a stream's thread by its          *)
(* subscriber.  The n-th trade of a symbol is [symbol, number |-> n].        *)
(***************************************************************************)
EXTENDS Naturals, Sequences, FiniteSets, SequencesExt

CONSTANTS Symbols,
          Subscribers,
          SymbolOf,     \* subscriber -> the symbol its request names
          Readers,      \* the subscribers whose clients read what is written
          MaxTrades,    \* bound: trades executed per symbol
          Nobody        \* the holder of a free mutex

ASSUME SymbolOfAssumption == SymbolOf \in [Subscribers -> Symbols]
ASSUME ReadersAssumption == Readers \subseteq Subscribers
ASSUME MaxTradesAssumption == MaxTrades \in Nat
ASSUME ThreadsAssumption ==
  Nobody \notin Symbols \cup Subscribers /\ Symbols \cap Subscribers = {}

VARIABLES executed,             \* symbol -> trades executed
          trade_subscribers_,   \* symbol -> vector of the subscribers of its streams
          subscribers_mutex_,   \* the thread that holds it, or Nobody
          todo,                 \* symbol -> subscribers its publisher has yet to reach
          q,                    \* subscriber -> Subscriber::q
          m,                    \* subscriber -> the thread that holds Subscriber::m, or Nobody
          pc,                   \* subscriber -> where its thread is in SubscribeTrades
          update,               \* subscriber -> the update being written, if any, as a sequence
          cancelled,            \* the subscribers whose client went away
          opened,               \* subscriber -> trades executed when its stream opened
          received              \* subscriber -> updates written to its client

vars == <<executed, trade_subscribers_, subscribers_mutex_, todo, q, m, pc, update, cancelled,
          opened, received>>

publishing == <<executed, todo>>
streaming == <<pc, update, opened, received>>

TradeUpdate == [symbol : Symbols, number : 1..MaxTrades]

Init ==
  /\ executed = [symbol \in Symbols |-> 0]
  /\ trade_subscribers_ = [symbol \in Symbols |-> <<>>]
  /\ subscribers_mutex_ = Nobody
  /\ todo = [symbol \in Symbols |-> <<>>]
  /\ q = [s \in Subscribers |-> <<>>]
  /\ m = [s \in Subscribers |-> Nobody]
  /\ pc = [s \in Subscribers |-> "start"]
  /\ update = [s \in Subscribers |-> <<>>]
  /\ cancelled = {}
  /\ opened = [s \in Subscribers |-> 0]
  /\ received = [s \in Subscribers |-> <<>>]

-----------------------------------------------------------------------------
(* publishTrade *)

\* The publisher of a trade gets subscribers_mutex_ and finds the vector.  (The
\* trade counts as executed from here on: until then no stream can know of it.)
PublishTrade(symbol) ==
  /\ executed[symbol] < MaxTrades
  /\ subscribers_mutex_ = Nobody
  /\ subscribers_mutex_' = symbol
  /\ executed' = [executed EXCEPT ![symbol] = @ + 1]
  /\ todo' = [todo EXCEPT ![symbol] = trade_subscribers_[symbol]]
  /\ UNCHANGED <<trade_subscribers_, q, m, cancelled, streaming>>

\* A thread in cv.wait is waiting; notified, it has to get m back first.
Notify(s) == pc' = [pc EXCEPT ![s] = IF @ = "waiting" THEN "locking" ELSE @]

\* Mutant: push_back without notify_one.
PushSilently(symbol) ==
  /\ subscribers_mutex_ = symbol
  /\ todo[symbol] # <<>>
  /\ LET s == Head(todo[symbol])
     IN  /\ m[s] = Nobody
         /\ q' = [q EXCEPT ![s] = Append(@, [symbol |-> symbol, number |-> executed[symbol]])]
  /\ todo' = [todo EXCEPT ![symbol] = Tail(@)]
  /\ UNCHANGED <<executed, trade_subscribers_, subscribers_mutex_, m, cancelled, streaming>>

\* Mutant: the update is made from the trade after the one executed.
PushNext(symbol) ==
  /\ subscribers_mutex_ = symbol
  /\ todo[symbol] # <<>>
  /\ LET s == Head(todo[symbol])
     IN  /\ m[s] = Nobody
         /\ q' = [q EXCEPT ![s] = Append(@, [symbol |-> symbol, number |-> executed[symbol] + 1])]
         /\ Notify(s)
  /\ todo' = [todo EXCEPT ![symbol] = Tail(@)]
  /\ UNCHANGED <<executed, trade_subscribers_, subscribers_mutex_, m, update, cancelled, opened,
                 received>>

\* The body of the loop: the lock_guard on m covers it.
Push(symbol) ==
  /\ subscribers_mutex_ = symbol
  /\ todo[symbol] # <<>>
  /\ LET s == Head(todo[symbol])
     IN  /\ m[s] = Nobody
         /\ q' = [q EXCEPT ![s] = Append(@, [symbol |-> symbol, number |-> executed[symbol]])]
         /\ Notify(s)
  /\ todo' = [todo EXCEPT ![symbol] = Tail(@)]
  /\ UNCHANGED <<executed, trade_subscribers_, subscribers_mutex_, m, update, cancelled, opened,
                 received>>

PublishReturn(symbol) ==
  /\ subscribers_mutex_ = symbol
  /\ todo[symbol] = <<>>
  /\ subscribers_mutex_' = Nobody
  /\ UNCHANGED <<trade_subscribers_, q, m, cancelled, publishing, streaming>>

-----------------------------------------------------------------------------
(* SubscribeTrades *)

Goto(s, label) == pc' = [pc EXCEPT ![s] = label]
Lock(s) == m[s] = Nobody /\ m' = [m EXCEPT ![s] = s]
Unlock(s) == m' = [m EXCEPT ![s] = Nobody]

\* push_back under subscribers_mutex_: the stream is open.  (opened is history.)
SubscribeTrades(s) ==
  /\ pc[s] = "start"
  /\ subscribers_mutex_ = Nobody
  /\ trade_subscribers_' = [trade_subscribers_ EXCEPT ![SymbolOf[s]] = Append(@, s)]
  /\ opened' = IF s \in cancelled THEN opened
               ELSE [opened EXCEPT ![s] = executed[SymbolOf[s]]]
  /\ Goto(s, "locking")
  /\ UNCHANGED <<subscribers_mutex_, q, m, update, cancelled, received, publishing>>

\* The unique_lock, and the lock cv.wait takes back.
Locked(s) ==
  /\ pc[s] = "locking"
  /\ Lock(s)
  /\ Goto(s, "checking")
  /\ UNCHANGED <<trade_subscribers_, subscribers_mutex_, q, update, cancelled, opened, received,
                 publishing>>

\* Mutant: cv.wait(lk) without a predicate, which looks at nothing before it waits.
CheckNothing(s) ==
  /\ pc[s] = "checking"
  /\ Unlock(s)
  /\ Goto(s, "waiting")
  /\ UNCHANGED <<trade_subscribers_, subscribers_mutex_, q, update, cancelled, opened, received,
                 publishing>>

\* The predicate of cv.wait, which waits and gives up m if it is false, and the break.
Check(s) ==
  /\ pc[s] = "checking"
  /\ \/ s \in cancelled /\ Unlock(s) /\ Goto(s, "leaving")
     \/ s \notin cancelled /\ q[s] # <<>> /\ Goto(s, "draining") /\ UNCHANGED m
     \/ s \notin cancelled /\ q[s] = <<>> /\ Unlock(s) /\ Goto(s, "waiting")
  /\ UNCHANGED <<trade_subscribers_, subscribers_mutex_, q, update, cancelled, opened, received,
                 publishing>>

\* cv.wait may wake up for no reason.
WakeSpuriously(s) ==
  /\ pc[s] = "waiting"
  /\ Goto(s, "locking")
  /\ UNCHANGED <<trade_subscribers_, subscribers_mutex_, q, m, update, cancelled, opened, received,
                 publishing>>

\* Mutant: lk stays locked while the update is written.
DrainLocked(s) ==
  /\ pc[s] = "draining"
  /\ \/ q[s] = <<>> /\ Goto(s, "locking") /\ Unlock(s) /\ UNCHANGED <<q, update>>
     \/ /\ q[s] # <<>>
        /\ update' = [update EXCEPT ![s] = <<Head(q[s])>>]
        /\ q' = [q EXCEPT ![s] = Tail(@)]
        /\ Goto(s, "writing")
        /\ UNCHANGED m
  /\ UNCHANGED <<trade_subscribers_, subscribers_mutex_, cancelled, opened, received, publishing>>

\* Mutant: the newest update first.
DrainNewest(s) ==
  /\ pc[s] = "draining"
  /\ \/ q[s] = <<>> /\ Goto(s, "locking") /\ UNCHANGED <<q, update>>
     \/ /\ q[s] # <<>>
        /\ update' = [update EXCEPT ![s] = <<Last(q[s])>>]
        /\ q' = [q EXCEPT ![s] = Front(@)]
        /\ Goto(s, "writing")
  /\ Unlock(s)
  /\ UNCHANGED <<trade_subscribers_, subscribers_mutex_, cancelled, opened, received, publishing>>

\* Mutant: front() without pop_front.
DrainKeeping(s) ==
  /\ pc[s] = "draining"
  /\ \/ q[s] = <<>> /\ Goto(s, "locking") /\ UNCHANGED update
     \/ q[s] # <<>> /\ Goto(s, "writing") /\ update' = [update EXCEPT ![s] = <<Head(q[s])>>]
  /\ Unlock(s)
  /\ UNCHANGED <<trade_subscribers_, subscribers_mutex_, q, cancelled, opened, received, publishing>>

\* The inner loop pops an update and unlocks; when there is none left, the
\* unique_lock goes out of scope and the outer loop starts over.
Drain(s) ==
  /\ pc[s] = "draining"
  /\ \/ q[s] = <<>> /\ Goto(s, "locking") /\ UNCHANGED <<q, update>>
     \/ /\ q[s] # <<>>
        /\ update' = [update EXCEPT ![s] = <<Head(q[s])>>]
        /\ q' = [q EXCEPT ![s] = Tail(@)]
        /\ Goto(s, "writing")
  /\ Unlock(s)
  /\ UNCHANGED <<trade_subscribers_, subscribers_mutex_, cancelled, opened, received, publishing>>

\* writer->Write, whose result is ignored: nothing reaches a client that is gone.
Write(s) ==
  /\ pc[s] = "writing"
  /\ received' = IF s \in cancelled THEN received
                 ELSE [received EXCEPT ![s] = @ \o update[s]]
  /\ update' = [update EXCEPT ![s] = <<>>]
  /\ Goto(s, "relocking")
  /\ UNCHANGED <<trade_subscribers_, subscribers_mutex_, q, m, cancelled, opened, publishing>>

Relock(s) ==
  /\ pc[s] = "relocking"
  /\ Lock(s)
  /\ Goto(s, "draining")
  /\ UNCHANGED <<trade_subscribers_, subscribers_mutex_, q, update, cancelled, opened, received,
                 publishing>>

\* Mutant: remove_if and erase without subscribers_mutex_.
UnsubscribeUnlocked(s) ==
  /\ pc[s] = "leaving"
  /\ trade_subscribers_' = [trade_subscribers_ EXCEPT ![SymbolOf[s]] =
                              RemoveAt(@, CHOOSE i \in DOMAIN @ : @[i] = s)]
  /\ Goto(s, "done")
  /\ UNCHANGED <<subscribers_mutex_, q, m, update, cancelled, opened, received, publishing>>

\* remove_if and erase under subscribers_mutex_ (the subscriber is in the vector
\* once), then the RPC returns.
Unsubscribe(s) ==
  /\ pc[s] = "leaving"
  /\ subscribers_mutex_ = Nobody
  /\ trade_subscribers_' = [trade_subscribers_ EXCEPT ![SymbolOf[s]] =
                              RemoveAt(@, CHOOSE i \in DOMAIN @ : @[i] = s)]
  /\ Goto(s, "done")
  /\ UNCHANGED <<subscribers_mutex_, q, m, update, cancelled, opened, received, publishing>>

\* The client disconnects; only context->IsCancelled() tells the thread.
Cancel(s) ==
  /\ pc[s] # "done"
  /\ s \notin cancelled
  /\ cancelled' = cancelled \cup {s}
  /\ UNCHANGED <<trade_subscribers_, subscribers_mutex_, q, m, publishing, streaming>>

-----------------------------------------------------------------------------
Publisher(symbol) == Push(symbol) \/ PublishReturn(symbol)

Stream(s) ==
  SubscribeTrades(s) \/ Locked(s) \/ Check(s) \/ Drain(s) \/ Relock(s) \/ Unsubscribe(s)

Next ==
  \/ \E symbol \in Symbols : PublishTrade(symbol) \/ Publisher(symbol)
  \/ \E s \in Subscribers : Stream(s) \/ Write(s) \/ WakeSpuriously(s) \/ Cancel(s)

Spec == Init /\ [][Next]_vars

(***************************************************************************)
(* Threads run, and a thread that finds a mutex free again and again gets   *)
(* it (a spurious wake-up may take m for a moment, so this is strong        *)
(* fairness).  Write returns if the client reads, or if its stream is       *)
(* cancelled; a client that does neither may block it for ever.             *)
(***************************************************************************)
FairSpec ==
  /\ Spec
  /\ \A symbol \in Symbols : SF_vars(Publisher(symbol))
  /\ \A s \in Subscribers : WF_vars(Stream(s)) /\ WF_vars(s \in cancelled \cup Readers /\ Write(s))

-----------------------------------------------------------------------------
\* Every variable has its type.
TypeOK ==
  /\ executed \in [Symbols -> 0..MaxTrades]
  /\ trade_subscribers_ \in [Symbols -> Seq(Subscribers)]
  /\ subscribers_mutex_ \in Symbols \cup {Nobody}
  /\ todo \in [Symbols -> Seq(Subscribers)]
  /\ q \in [Subscribers -> Seq(TradeUpdate)]
  /\ m \in [Subscribers -> Subscribers \cup {Nobody}]
  /\ pc \in [Subscribers -> {"start", "locking", "checking", "waiting", "draining", "writing",
                            "relocking", "leaving", "done"}]
  /\ update \in [Subscribers -> {<<>>} \cup {<<u>> : u \in TradeUpdate}]
  /\ cancelled \subseteq Subscribers
  /\ opened \in [Subscribers -> 0..MaxTrades]
  /\ received \in [Subscribers -> Seq(TradeUpdate)]

\* What is left of the vector v to iterate over, from some place in it.
RestOf(rest, v) ==
  Len(rest) <= Len(v) /\ \A i \in DOMAIN rest : rest[i] = v[Len(v) - Len(rest) + i]

(***************************************************************************)
(* publishTrade iterates over the vector itself.  While it does, no stream  *)
(* joins or leaves: what it has still to reach is the rest of the vector,   *)
(* and of no stream whose RPC has returned.                                 *)
(***************************************************************************)
IterationHolds ==
  \A symbol \in Symbols :
    /\ RestOf(todo[symbol], trade_subscribers_[symbol])
    /\ \A s \in Subscribers : Contains(todo[symbol], s) => pc[s] # "done"

\* How many trades of its symbol have reached the queue of s: a publisher that
\* has s still to do is one behind.
Reached(s) ==
  IF Contains(todo[SymbolOf[s]], s) THEN executed[SymbolOf[s]] - 1 ELSE executed[SymbolOf[s]]

(***************************************************************************)
(* What a live stream has written, is writing and has queued is, in this    *)
(* order, every trade of its symbol since it opened: none is lost between   *)
(* publisher and stream, none comes twice or from another symbol, and no    *)
(* two change places.                                                       *)
(***************************************************************************)
NothingLost ==
  \A s \in Subscribers \ cancelled : pc[s] # "start" =>
    received[s] \o update[s] \o q[s] =
      [n \in 1..(Reached(s) - opened[s]) |-> [symbol |-> SymbolOf[s], number |-> opened[s] + n]]

(***************************************************************************)
(* To its client, a stream is the feed TradeFeed describes.                 *)
(***************************************************************************)
Feed == INSTANCE TradeFeed WITH
  stream <- [s \in Subscribers |-> IF s \in cancelled THEN "closed"
                                  ELSE IF pc[s] = "start" THEN "unopened" ELSE "open"]

\* Clients observe a feed without gaps, whatever the threads interleave.
ImplementsFeed == Feed!Spec

(***************************************************************************)
(* publishTrade returns to the matching thread even if clients do not read: *)
(* no stream writes while it holds a mutex a publisher needs.               *)
(***************************************************************************)
PublisherReturns ==
  \A symbol \in Symbols : subscribers_mutex_ = symbol ~> subscribers_mutex_ # symbol

(***************************************************************************)
(* A stream whose client is gone ends at the latest with the next trade of  *)
(* its symbol, which is what wakes its thread up.                           *)
(***************************************************************************)
NextTradeEndsStream ==
  \A s \in Subscribers :
    s \in cancelled /\ Contains(todo[SymbolOf[s]], s) ~> pc[s] = "done"

(***************************************************************************)
(* No wake-up is lost: every trade executed while a stream is open reaches  *)
(* its client, if the client reads and stays.                               *)
(***************************************************************************)
EveryTradeArrives ==
  \A s \in Readers, n \in 1..MaxTrades :
    (pc[s] # "start" /\ executed[SymbolOf[s]] = n) ~>
      (s \in cancelled \/ opened[s] + Len(received[s]) >= n)

\* "Loop until client disconnects": a stream whose client is gone ends.
CancelledStreamsEnd == \A s \in Subscribers : s \in cancelled ~> pc[s] = "done"

=============================================================================
