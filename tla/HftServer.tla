------------------------------ MODULE HftServer ------------------------------
(***************************************************************************)
(* The HFT simulator around its book: HFTServiceImpl, whose RPCs run on     *)
(* gRPC threads, MatchingEngine with its thread matching_thread_, the       *)
(* broadcast of trades and quotes under streams_mutex_, and the shutdown.   *)
(*                                                                         *)
(* Ids and quantities are what the clients send; an order's own id, which   *)
(* tells it from the others, is its number.  (The levels and queues of the  *)
(* book are in HftOrderBook.)                                               *)
(*                                                                         *)
(* No lock guards the book.  A call of it begins with EnterBook; if it      *)
(* overlaps another and one of them writes, the behaviour is undefined, and *)
(* the model says no more: what it promises holds until then.               *)
(***************************************************************************)
EXTENDS RestingOrders, FiniteSets

CONSTANTS Handlers,          \* the threads of SubmitOrder and CancelOrder
          matching_thread_,
          Streams,           \* the calls of StreamMarketData, one thread each
          Readers,           \* the streams whose clients read what they get
          ClientIds,         \* the ids that clients give orders
          Orders,            \* the orders of clients: [order_id, is_buy, price, quantity]
          MaxOrders,         \* bound: orders submitted
          Nobody             \* the holder of a free mutex

Threads == Handlers \cup {matching_thread_}

ASSUME ThreadsAssumption == Nobody \notin Threads /\ matching_thread_ \notin Handlers
ASSUME OrdersAssumption ==
  /\ Orders \subseteq [order_id : ClientIds, is_buy : BOOLEAN, price : Int, quantity : Quantity]
  /\ MaxOrders \in Nat

VARIABLES book,                  \* the resting orders, oldest first
          order_lookup,          \* client's id -> price
          submitted,             \* orders so far
          in_book,               \* the threads in a call of the book
          undefined,             \* two such calls raced
          pc,                    \* thread -> where it is
          value,                 \* thread -> the order, id or quote in its hands
          trades,                \* thread -> the trades it has to broadcast, by number
          executed,              \* how many trades match_orders made
          market_data_streams_,
          streams_mutex_,        \* its holder, or Nobody
          writers,               \* thread -> the streams it has still to write to
          rpc,                   \* stream -> where its thread is
          cancelled,             \* the streams whose client is gone
          running_,
          main,                  \* where main is
          \* histories, kept while the client of a stream is there
          since,                 \* stream -> what was broadcast when it was registered
          received,              \* stream -> the trades written to it
          seen                   \* stream -> the last quote written to it

engine == <<book, order_lookup, submitted, in_book, undefined, executed>>
thread == <<pc, value, trades>>
streaming == <<market_data_streams_, streams_mutex_, writers>>
clients == <<rpc, cancelled>>
server == <<running_, main>>
history == <<since, received, seen>>
vars == <<engine, thread, streaming, clients, server, history>>

NoQuote == <<>>

Init ==
  /\ book = <<>> /\ order_lookup = [id \in {} |-> 0]
  /\ submitted = 0 /\ in_book = {} /\ undefined = FALSE /\ executed = 0
  /\ pc = [t \in Threads |-> IF t = matching_thread_ THEN "match" ELSE "idle"]
  /\ value = [t \in Threads |-> NoQuote]
  /\ trades = [t \in Threads |-> <<>>]
  /\ market_data_streams_ = {} /\ streams_mutex_ = Nobody
  /\ writers = [t \in Threads |-> {}]
  /\ rpc = [s \in Streams |-> "none"] /\ cancelled = {}
  /\ running_ = TRUE /\ main = "serving"
  /\ since = [s \in Streams |-> {}]
  /\ received = [s \in Streams |-> <<>>]
  /\ seen = [s \in Streams |-> NoQuote]

Goto(t, label) == pc' = [pc EXCEPT ![t] = label]

\* Where publish_quote returns to.
AfterQuote(t) == IF t = matching_thread_ THEN "loop" ELSE "idle"

-----------------------------------------------------------------------------
(* The RPCs, and MatchingEngine on the book *)

Receive(h, label, argument) ==
  /\ main = "serving"
  /\ pc[h] = "idle"
  /\ Goto(h, label)
  /\ value' = [value EXCEPT ![h] = argument]
  /\ UNCHANGED <<book, order_lookup, in_book, undefined, executed, trades, streaming, clients, server,
                 history>>

\* The instrument of the order is dropped.
SubmitOrder(h, order) ==
  /\ submitted < MaxOrders
  /\ submitted' = submitted + 1
  /\ Receive(h, "add", [id |-> submitted, order_id |-> order.order_id, is_buy |-> order.is_buy,
                        price |-> order.price, quantity |-> order.quantity])

CancelOrder(h, id) == Receive(h, "cancel", id) /\ UNCHANGED submitted

(***************************************************************************)
(* The order that cancel_order finds, by its index: at the price where      *)
(* order_lookup saw the id last, the first such buy, or else the first such *)
(* sell.                                                                    *)
(***************************************************************************)
Cancelled(order_id) ==
  LET named == {i \in DOMAIN book : /\ book[i].order_id = order_id
                                    /\ order_id \in DOMAIN order_lookup
                                    /\ book[i].price = order_lookup[order_id]}
      bought == {i \in named : book[i].is_buy}
      candidates == IF bought # {} THEN bought ELSE named
  IN  {i \in candidates : \A j \in candidates : i <= j}

\* order_lookup.erase
Forget(order_ids) == [id \in DOMAIN order_lookup \ order_ids |-> order_lookup[id]]

\* Does the call that the thread makes or is about to make change the book?
Writes(t) ==
  CASE pc[t] = "add" -> TRUE
    [] pc[t] = "cancel" -> Cancelled(value[t]) # {}
    [] pc[t] = "match" -> Matches(book) # {}
    [] OTHER -> FALSE

EnterBook(t) ==
  /\ pc[t] \in {"add", "cancel", "match", "quote"}
  /\ t \notin in_book
  /\ in_book' = in_book \cup {t}
  /\ undefined' = \E u \in in_book : Writes(t) \/ Writes(u)
  /\ UNCHANGED <<book, order_lookup, submitted, executed, thread, streaming, clients, server, history>>

Leave(t, label) == in_book' = in_book \ {t} /\ Goto(t, label)

add_order(t) ==
  /\ t \in in_book /\ pc[t] = "add"
  /\ LET order == value[t]
     IN  /\ book' = Append(book, order)
         /\ order_lookup' = [id \in DOMAIN order_lookup \cup {order.order_id} |->
                               IF id = order.order_id THEN order.price ELSE order_lookup[id]]
  /\ Leave(t, "match")
  /\ value' = [value EXCEPT ![t] = NoQuote]
  /\ UNCHANGED <<submitted, undefined, executed, trades, streaming, clients, server, history>>

cancel_order(t) ==
  /\ t \in in_book /\ pc[t] = "cancel"
  /\ \/ /\ \E i \in Cancelled(value[t]) : book' = RemoveAt(book, i)
        /\ order_lookup' = Forget({value[t]})
        /\ Leave(t, "quote")
     \/ /\ Cancelled(value[t]) = {}
        /\ UNCHANGED <<book, order_lookup>>
        /\ Leave(t, "idle")
  /\ value' = [value EXCEPT ![t] = NoQuote]
  /\ UNCHANGED <<submitted, undefined, executed, trades, streaming, clients, server, history>>

\* An iteration of match_orders.
match_orders(t) ==
  /\ t \in in_book /\ pc[t] = "match"
  /\ \E p \in Matches(book) :
       LET trade == TradeOf(book[p[1]], book[p[2]])
           filled == {i \in {p[1], p[2]} : book[i].quantity = trade.quantity}
       IN  /\ book' = AfterTrade(book, trade)
           /\ order_lookup' = Forget({book[i].order_id : i \in filled})
  /\ executed' = executed + 1
  /\ trades' = [trades EXCEPT ![t] = Append(@, executed)]
  /\ UNCHANGED <<submitted, in_book, undefined, pc, value, streaming, clients, server, history>>

\* match_orders returns to process_trades.
Matched(t) ==
  /\ t \in in_book /\ pc[t] = "match"
  /\ Matches(book) = {}
  /\ Leave(t, IF trades[t] = <<>> THEN "quote" ELSE "process")
  /\ UNCHANGED <<book, order_lookup, submitted, undefined, executed, value, trades, streaming, clients,
                 server, history>>

TwoSided == Best(book, TRUE) # {} /\ Best(book, FALSE) # {}

Quote ==
  LET Side(is_buy) == LET order == book[CHOOSE i \in Best(book, is_buy) : TRUE]
                      IN  <<order.price, order.quantity>>
  IN  <<Side(TRUE), Side(FALSE)>>

\* Mutant: only the RPCs publish quotes.
get_quoteRpcOnly(t) ==
  /\ t \in in_book /\ pc[t] = "quote"
  /\ Leave(t, IF TwoSided /\ t # matching_thread_ THEN "publish" ELSE AfterQuote(t))
  /\ value' = [value EXCEPT ![t] = IF TwoSided THEN Quote ELSE NoQuote]
  /\ UNCHANGED <<book, order_lookup, submitted, undefined, executed, trades, streaming, clients, server,
                 history>>

\* publish_quote gets its quote; there is none when a side is empty.
get_quote(t) ==
  /\ t \in in_book /\ pc[t] = "quote"
  /\ Leave(t, IF TwoSided THEN "publish" ELSE AfterQuote(t))
  /\ value' = [value EXCEPT ![t] = IF TwoSided THEN Quote ELSE NoQuote]
  /\ UNCHANGED <<book, order_lookup, submitted, undefined, executed, trades, streaming, clients, server,
                 history>>

\* The sleep of matching_loop, and its condition.
matching_loop ==
  /\ pc[matching_thread_] = "loop"
  /\ Goto(matching_thread_, IF running_ THEN "match" ELSE "returned")
  /\ UNCHANGED <<engine, value, trades, streaming, clients, server, history>>

-----------------------------------------------------------------------------
(* broadcast_market_data, of the thread's next trade or else of its quote *)

\* Mutant: the writers are copied, and written to without the lock.
BroadcastUnlocked(t) ==
  /\ pc[t] \in {"process", "publish"}
  /\ streams_mutex_ = Nobody
  /\ writers' = [writers EXCEPT ![t] = market_data_streams_]
  /\ Goto(t, "writing")
  /\ UNCHANGED <<engine, value, trades, market_data_streams_, streams_mutex_, clients, server,
                 history>>

Broadcast(t) ==
  /\ pc[t] \in {"process", "publish"}
  /\ streams_mutex_ = Nobody
  /\ streams_mutex_' = t
  /\ writers' = [writers EXCEPT ![t] = market_data_streams_]
  /\ Goto(t, "writing")
  /\ UNCHANGED <<engine, value, trades, market_data_streams_, clients, server, history>>

\* writer->Write blocks while the client does not read, and fails once it is gone.
Write(t, s) ==
  /\ s \in writers[t]
  /\ writers' = [writers EXCEPT ![t] = @ \ {s}]
  /\ IF s \in cancelled THEN UNCHANGED <<received, seen>>
     ELSE IF trades[t] # <<>>
          THEN received' = [received EXCEPT ![s] = Append(@, Head(trades[t]))] /\ UNCHANGED seen
          ELSE seen' = [seen EXCEPT ![s] = value[t]] /\ UNCHANGED received
  /\ UNCHANGED <<engine, thread, market_data_streams_, streams_mutex_, clients, server, since>>

\* Mutant: of the trades of a call only the first is broadcast.
UnlockFirst(t) ==
  /\ pc[t] = "writing"
  /\ writers[t] = {}
  /\ streams_mutex_' = Nobody
  /\ Goto(t, IF trades[t] # <<>> THEN "quote" ELSE AfterQuote(t))
  /\ trades' = [trades EXCEPT ![t] = <<>>]
  /\ value' = [value EXCEPT ![t] = NoQuote]
  /\ UNCHANGED <<engine, market_data_streams_, writers, clients, server, history>>

Unlock(t) ==
  /\ pc[t] = "writing"
  /\ writers[t] = {}
  /\ streams_mutex_' = Nobody
  /\ \/ /\ trades[t] # <<>>
        /\ trades' = [trades EXCEPT ![t] = Tail(@)]
        /\ Goto(t, IF Len(trades[t]) = 1 THEN "quote" ELSE "process")
        /\ UNCHANGED value
     \/ /\ trades[t] = <<>>
        /\ Goto(t, AfterQuote(t))
        /\ value' = [value EXCEPT ![t] = NoQuote]
        /\ UNCHANGED trades
  /\ UNCHANGED <<engine, market_data_streams_, writers, clients, server, history>>

-----------------------------------------------------------------------------
(* StreamMarketData *)

Open(s) ==
  /\ main = "serving"
  /\ rpc[s] = "none"
  /\ rpc' = [rpc EXCEPT ![s] = "opening"]
  /\ UNCHANGED <<engine, thread, streaming, cancelled, server, history>>

\* The trades whose broadcast is over.
Done == 0..(executed - 1) \ UNION {ToSet(trades[t]) : t \in Threads}

\* Mutant: the lock_guard outlives its block.
RegisterLocked(s) ==
  /\ rpc[s] = "opening"
  /\ streams_mutex_ = Nobody
  /\ streams_mutex_' = s
  /\ market_data_streams_' = market_data_streams_ \cup {s}
  /\ rpc' = [rpc EXCEPT ![s] = "open"]
  /\ since' = [since EXCEPT ![s] = Done]
  /\ UNCHANGED <<engine, thread, writers, cancelled, server, received, seen>>

Register(s) ==
  /\ rpc[s] = "opening"
  /\ streams_mutex_ = Nobody
  /\ market_data_streams_' = market_data_streams_ \cup {s}
  /\ rpc' = [rpc EXCEPT ![s] = "open"]
  /\ since' = [since EXCEPT ![s] = Done]
  /\ UNCHANGED <<engine, thread, streams_mutex_, writers, cancelled, server, received, seen>>

\* The client goes away.
Cancel(s) ==
  /\ rpc[s] \in {"opening", "open"}
  /\ s \notin cancelled
  /\ cancelled' = cancelled \cup {s}
  /\ since' = [since EXCEPT ![s] = {}]
  /\ received' = [received EXCEPT ![s] = <<>>]
  /\ seen' = [seen EXCEPT ![s] = NoQuote]
  /\ UNCHANGED <<engine, thread, streaming, rpc, server>>

\* The poll of IsCancelled ends, and the writer is erased.
Unregister(s) ==
  /\ rpc[s] = "open"
  /\ s \in cancelled
  /\ streams_mutex_ = Nobody
  /\ market_data_streams_' = market_data_streams_ \ {s}
  /\ rpc' = [rpc EXCEPT ![s] = "returned"]
  /\ UNCHANGED <<engine, thread, streams_mutex_, writers, cancelled, server, history>>

-----------------------------------------------------------------------------
(* main *)

\* A signal: HFTServer::stop, whose Shutdown refuses new calls.
Shutdown ==
  /\ main = "serving"
  /\ main' = "stopping"
  /\ UNCHANGED <<engine, thread, streaming, clients, running_, history>>

\* Mutant: join without clearing running_.
stopRunning ==
  /\ main = "stopping"
  /\ \A h \in Handlers : pc[h] = "idle"
  /\ \A s \in Streams : rpc[s] \in {"none", "returned"}
  /\ main' = "joining"
  /\ UNCHANGED <<engine, thread, streaming, clients, running_, history>>

\* It returns when all calls have; then ~HFTServiceImpl stops the engine.
stop ==
  /\ main = "stopping"
  /\ \A h \in Handlers : pc[h] = "idle"
  /\ \A s \in Streams : rpc[s] \in {"none", "returned"}
  /\ running_' = FALSE
  /\ main' = "joining"
  /\ UNCHANGED <<engine, thread, streaming, clients, history>>

\* join; the service is destroyed.
Join ==
  /\ main = "joining"
  /\ pc[matching_thread_] = "returned"
  /\ main' = "down"
  /\ UNCHANGED <<engine, thread, streaming, clients, running_, history>>

Run(t) ==
  \/ EnterBook(t) \/ add_order(t) \/ cancel_order(t) \/ match_orders(t) \/ Matched(t) \/ get_quote(t)
  \/ t = matching_thread_ /\ matching_loop
  \/ Broadcast(t) \/ Unlock(t)

Call ==
  \/ \E h \in Handlers, order \in Orders : SubmitOrder(h, order)
  \/ \E h \in Handlers, id \in ClientIds : CancelOrder(h, id)
  \/ \E s \in Streams : Open(s) \/ Cancel(s)

Next ==
  /\ ~undefined
  /\ \/ Call
     \/ \E t \in Threads : Run(t) \/ \E s \in Streams : Write(t, s)
     \/ \E s \in Streams : Register(s) \/ Unregister(s)
     \/ Shutdown \/ stop \/ Join

Spec == Init /\ [][Next]_vars

(***************************************************************************)
(* Threads run, and one that finds streams_mutex_ free again and again gets *)
(* it.  A write ends if the client reads or is gone.  Nobody owes a call, a *)
(* cancellation or a signal.                                                *)
(***************************************************************************)
FairSpec ==
  /\ Spec
  /\ \A t \in Threads : SF_vars(~undefined /\ Run(t))
  /\ \A t \in Threads, s \in Streams :
       WF_vars(~undefined /\ s \in Readers \cup cancelled /\ Write(t, s))
  /\ \A s \in Streams : SF_vars(~undefined /\ (Register(s) \/ Unregister(s)))
  /\ WF_vars(~undefined /\ (stop \/ Join))

-----------------------------------------------------------------------------
Order == [id : 0..(MaxOrders - 1), order_id : ClientIds, is_buy : BOOLEAN, price : Int,
          quantity : Quantity]

\* Every variable has its type: the quantities that nobody checked, and what
\* becomes of them in trades, still fit.
TypeOK ==
  /\ book \in Seq(Order)
  /\ DOMAIN order_lookup \subseteq ClientIds /\ order_lookup \in [DOMAIN order_lookup -> Int]
  /\ submitted \in 0..MaxOrders /\ executed \in Nat /\ undefined \in BOOLEAN
  /\ in_book \subseteq Threads
  /\ pc \in [Threads -> {"idle", "add", "cancel", "match", "process", "quote", "publish", "writing",
                         "loop", "returned"}]
  /\ trades \in [Threads -> Seq(Nat)]
  /\ market_data_streams_ \subseteq Streams
  /\ streams_mutex_ \in Threads \cup {Nobody}
  /\ writers \in [Threads -> SUBSET Streams]
  /\ rpc \in [Streams -> {"none", "opening", "open", "returned"}]
  /\ cancelled \subseteq Streams
  /\ running_ \in BOOLEAN /\ main \in {"serving", "stopping", "joining", "down"}

(***************************************************************************)
(* Nothing is used after it is gone: broadcast_market_data writes only to   *)
(* streams whose RPC has not returned, and when main destroys the service   *)
(* no thread is in it.                                                      *)
(***************************************************************************)
NothingDangles ==
  /\ \A t \in Threads : \A s \in writers[t] : rpc[s] = "open"
  /\ main = "down" =>
       /\ \A t \in Threads : pc[t] \in {"idle", "returned"}
       /\ \A s \in Streams : rpc[s] \in {"none", "returned"}

\* The trade that the thread is writing to the streams, if it writes one.
InHand(t) == IF pc[t] = "writing" /\ trades[t] # <<>> THEN {Head(trades[t])} ELSE {}

(***************************************************************************)
(* The matching thread and the RPCs share out the trades among them; yet a  *)
(* stream gets each trade whose broadcast was not over when the stream was  *)
(* registered, and gets it once.                                            *)
(***************************************************************************)
EveryTradeOnce ==
  \A s \in market_data_streams_ \ cancelled :
    /\ IsInjective(received[s])
    /\ ToSet(received[s]) = (Done \ since[s])
         \cup UNION {InHand(t) : t \in {u \in Threads : s \notin writers[u]}}

(***************************************************************************)
(* "Broadcasting live quotes": quotes computed on an older book may be      *)
(* written after newer ones, and streams open when nothing happens, but in  *)
(* the end each open stream has last seen the quote of the book, if both    *)
(* sides of the book have orders.                                           *)
(***************************************************************************)
QuoteCatchesUp ==
  \A s \in Streams :
    <>[](rpc[s] = "open" /\ s \notin cancelled /\ TwoSided /\ ~undefined => seen[s] = Quote)

(***************************************************************************)
(* As long as clients read or go away, SubmitOrder and CancelOrder return,  *)
(* and so does the stream of a client that is gone.                         *)
(***************************************************************************)
RpcsReturn ==
  /\ \A h \in Handlers : pc[h] # "idle" ~> (pc[h] = "idle" \/ undefined)
  /\ \A s \in Streams : s \in cancelled ~> (rpc[s] = "returned" \/ undefined)

(***************************************************************************)
(* After a signal the server goes down, once every client of a stream has   *)
(* left: the RPCs end, and the matching thread is joined.                   *)
(***************************************************************************)
ShutdownCompletes ==
  (main = "stopping" /\ \A s \in Streams : rpc[s] # "none" => s \in cancelled)
    ~> (main = "down" \/ undefined)

=============================================================================
