---------------------------- MODULE OrderService ----------------------------
(***************************************************************************)
(* OrderServiceImpl and the globals behind it: the RPC handlers SubmitOrder,*)
(* CancelOrder, ModifyOrder and GetOrderBook, each on a gRPC thread of its  *)
(* own, the maps order_books_ and matchers_ under order_books_mutex_, and   *)
(* the mutex_ of each book.  (SubscribeTrades is in TradeStream.)           *)
(*                                                                         *)
(* A handler moves from one lock to the next: an action is what it does     *)
(* under one lock, and a handler that keeps a lock over several actions is  *)
(* recorded as its holder.  A book is what the module OrderBook implements, *)
(* its orders in order of arrival; matching finds the best pair, publishes  *)
(* the trade, and then logs it and reduces the orders.                      *)
(*                                                                         *)
(* Orders are those SubmitOrder's checks let through, with a positive       *)
(* quantity; ModifyOrder passes on whatever it gets.  A request that fails a *)
(* check, like an id that is not a number, changes nothing.                 *)
(***************************************************************************)
EXTENDS RestingOrders, FiniteSets

CONSTANTS Handlers,          \* the threads of the gRPC server
          Symbols,
          Prices,
          OrderQuantities,   \* of orders submitted
          ModifyQuantities,  \* of modifications
          Operations,        \* the RPCs clients call
          LogsOpen,          \* what opening a trade log may give: {TRUE}, or {TRUE, FALSE}
          MaxOrders,         \* bound: orders submitted between two restarts
          MaxRestarts,       \* bound: restarts of the process
          Nobody             \* the holder of a free mutex

ASSUME RequestsAssumption ==
  /\ Prices \subseteq Int
  /\ OrderQuantities \subseteq 1..MaxQuantity
  /\ ModifyQuantities \subseteq Quantity
  /\ Operations \subseteq {"submit", "cancel", "modify", "get"}
  /\ LogsOpen \subseteq BOOLEAN
  /\ Nobody \notin Handlers
ASSUME BoundsAssumption == MaxOrders \in Nat /\ MaxRestarts \in Nat

Ids == 1..MaxOrders

VARIABLES order_books_,        \* symbol -> the orders of its book, oldest first
          logged,              \* the symbols whose book has a trade_log_
          matchers_,           \* the symbols that have a Matcher
          order_books_mutex_,  \* its holder, or Nobody
          mutex_,              \* symbol -> the holder of the mutex_ of its book, or Nobody
          next_order_id_,
          pc,                  \* handler -> where it is
          request,             \* handler -> the request it serves
          files,               \* symbol -> the lines of its trade log file, as a set
          published,           \* history: symbol -> the trades published while it had a log
          trades,              \* history: the trades executed since the last restart
          due,                 \* history: id -> the quantity it is to trade in all
          restarts             \* history

books == <<order_books_, logged, matchers_>>
locks == <<order_books_mutex_, mutex_>>
history == <<published, trades, due, restarts>>
vars == <<books, locks, next_order_id_, pc, request, files, history>>

Order == [id : Ids, is_buy : BOOLEAN, price : Prices, quantity : Quantity]
Idle == [op |-> "none"]

Init ==
  /\ order_books_ = [symbol \in {} |-> <<>>]
  /\ logged = {}
  /\ matchers_ = {}
  /\ order_books_mutex_ = Nobody
  /\ mutex_ = [symbol \in Symbols |-> Nobody]
  /\ next_order_id_ = 1
  /\ pc = [h \in Handlers |-> "idle"]
  /\ request = [h \in Handlers |-> Idle]
  /\ trades = {}
  /\ due = [id \in {} |-> 0]
  /\ files = [symbol \in Symbols |-> {}]
  /\ published = files
  /\ restarts = 0

Goto(h, label) == pc' = [pc EXCEPT ![h] = label]

\* The handler takes the request and goes to label.
Receive(h, req, label) ==
  /\ req.op \in Operations
  /\ pc[h] = "idle"
  /\ request' = [request EXCEPT ![h] = req]
  /\ Goto(h, label)

\* The handler returns its Status.
Return(h) == Goto(h, "idle") /\ request' = [request EXCEPT ![h] = Idle]

-----------------------------------------------------------------------------
(* SubmitOrder and GetOrderBook *)

\* The checks are passed; getNextOrderId.
SubmitOrder(h, symbol, is_buy, price, quantity) ==
  /\ next_order_id_ <= MaxOrders
  /\ next_order_id_' = next_order_id_ + 1
  /\ Receive(h, [op |-> "submit", symbol |-> symbol,
                 order |-> [id |-> next_order_id_, is_buy |-> is_buy, price |-> price,
                            quantity |-> quantity]], "finding")
  /\ UNCHANGED <<books, locks, files, history>>

GetOrderBook(h, symbol) ==
  /\ Receive(h, [op |-> "get", symbol |-> symbol], "finding")
  /\ UNCHANGED <<books, locks, next_order_id_, files, history>>

\* Where getOrderBook returns to.
Found(h) == Goto(h, IF request[h].op = "submit" THEN "adding" ELSE "reading bids")

getOrderBook(h) ==
  /\ pc[h] = "finding"
  /\ order_books_mutex_ = Nobody
  /\ LET symbol == request[h].symbol
     IN  IF symbol \in DOMAIN order_books_
         THEN Found(h) /\ UNCHANGED <<books, order_books_mutex_>>
         ELSE /\ order_books_' = [s \in DOMAIN order_books_ \cup {symbol} |->
                                    IF s = symbol THEN <<>> ELSE order_books_[s]]
              /\ matchers_' = matchers_ \cup {symbol}
              /\ order_books_mutex_' = h
              /\ Goto(h, "creating")
              /\ UNCHANGED logged
  /\ UNCHANGED <<mutex_, next_order_id_, request, files, history>>

\* setTradeLog.  The constructor of TradeLog throws if the file does not open:
\* the handler returns REJECTED or an error, and the book stays in the maps.
OpenTradeLog(h) ==
  /\ pc[h] = "creating"
  /\ \/ /\ TRUE \in LogsOpen
        /\ logged' = logged \cup {request[h].symbol}
        /\ Found(h)
        /\ UNCHANGED request
     \/ /\ FALSE \in LogsOpen
        /\ Return(h)
        /\ UNCHANGED logged
  /\ order_books_mutex_' = Nobody
  /\ UNCHANGED <<order_books_, matchers_, mutex_, next_order_id_, files, history>>

addOrder(h) ==
  /\ pc[h] = "adding"
  /\ mutex_[request[h].symbol] = Nobody
  /\ LET order == request[h].order
     IN  /\ order_books_' = [order_books_ EXCEPT ![request[h].symbol] = Append(@, order)]
         /\ due' = [id \in DOMAIN due \cup {order.id} |->
                      IF id = order.id THEN order.quantity ELSE due[id]]
  /\ Goto(h, "accepted")
  /\ UNCHANGED <<logged, matchers_, locks, next_order_id_, request, files, published, trades, restarts>>

\* matchers_[symbol], read without order_books_mutex_.
FindMatcher(h) ==
  /\ pc[h] = "accepted"
  /\ request[h].symbol \in matchers_
  /\ Goto(h, "locking")
  /\ UNCHANGED <<books, locks, next_order_id_, request, files, history>>

ReadBids(h) ==
  /\ pc[h] = "reading bids"
  /\ mutex_[request[h].symbol] = Nobody
  /\ Goto(h, "reading asks")
  /\ UNCHANGED <<books, locks, next_order_id_, request, files, history>>

ReadAsks(h) ==
  /\ pc[h] = "reading asks"
  /\ mutex_[request[h].symbol] = Nobody
  /\ Return(h)
  /\ UNCHANGED <<books, locks, next_order_id_, files, history>>

-----------------------------------------------------------------------------
(* Matching, which SubmitOrder triggers *)

\* Mutant: triggerMatching without its lock.
TriggerMatchingUnlocked(h) ==
  /\ pc[h] = "locking"
  /\ Goto(h, "matching")
  /\ UNCHANGED <<books, locks, next_order_id_, request, files, history>>

TriggerMatching(h) ==
  /\ pc[h] = "locking"
  /\ mutex_[request[h].symbol] = Nobody
  /\ mutex_' = [mutex_ EXCEPT ![request[h].symbol] = h]
  /\ Goto(h, "matching")
  /\ UNCHANGED <<books, order_books_mutex_, next_order_id_, request, files, history>>

\* executeTrade up to trade_callback_, which publishes the trade.
ExecuteTrade(h) ==
  /\ pc[h] = "matching"
  /\ LET symbol == request[h].symbol
         orders == order_books_[symbol]
     IN  \E p \in Matches(orders) :
           LET match == TradeOf(orders[p[1]], orders[p[2]])
               trade == [buy_order_id |-> match.buy_order_id, sell_order_id |-> match.sell_order_id,
                         quantity |-> match.quantity, restarts |-> restarts]
           IN  /\ request' = [request EXCEPT ![h] = [op |-> "submit", symbol |-> symbol,
                                                    trade |-> trade]]
               /\ published' = IF symbol \in logged
                               THEN [published EXCEPT ![symbol] = @ \cup {trade}] ELSE published
  /\ Goto(h, "filling")
  /\ UNCHANGED <<books, locks, next_order_id_, files, trades, due, restarts>>

\* Mutant: only the trades that fill the buy are logged.
FillOrdersUnlogged(h) ==
  /\ pc[h] = "filling"
  /\ LET symbol == request[h].symbol
         trade == request[h].trade
         rest == AfterTrade(order_books_[symbol], trade)
     IN  /\ order_books_' = [order_books_ EXCEPT ![symbol] = rest]
         /\ files' = IF symbol \in logged /\ ~Rests(rest, trade.buy_order_id)
                     THEN [files EXCEPT ![symbol] = @ \cup {trade}] ELSE files
         /\ trades' = trades \cup {trade}
  /\ Goto(h, "matching")
  /\ UNCHANGED <<logged, matchers_, locks, next_order_id_, request, published, due, restarts>>

\* The trade is logged, if the book has a log, and its orders are reduced.
FillOrders(h) ==
  /\ pc[h] = "filling"
  /\ LET symbol == request[h].symbol
         trade == request[h].trade
     IN  /\ order_books_' = [order_books_ EXCEPT ![symbol] = AfterTrade(@, trade)]
         /\ files' = IF symbol \in logged THEN [files EXCEPT ![symbol] = @ \cup {trade}]
                                          ELSE files
         /\ trades' = trades \cup {trade}
  /\ Goto(h, "matching")
  /\ UNCHANGED <<logged, matchers_, locks, next_order_id_, request, published, due, restarts>>

\* Mutant: if in the place of while.
MatchingDoneEarly(h) ==
  /\ pc[h] = "matching"
  /\ Matches(order_books_[request[h].symbol]) = {} \/ "trade" \in DOMAIN request[h]
  /\ mutex_' = [mutex_ EXCEPT ![request[h].symbol] = Nobody]
  /\ Return(h)
  /\ UNCHANGED <<books, order_books_mutex_, next_order_id_, files, history>>

\* No pair is left; SubmitOrder returns ACCEPTED.
MatchingDone(h) ==
  /\ pc[h] = "matching"
  /\ Matches(order_books_[request[h].symbol]) = {}
  /\ mutex_' = [mutex_ EXCEPT ![request[h].symbol] = Nobody]
  /\ Return(h)
  /\ UNCHANGED <<books, order_books_mutex_, next_order_id_, files, history>>

-----------------------------------------------------------------------------
(* CancelOrder and ModifyOrder, which search every book *)

CancelOrder(h, id) ==
  /\ Receive(h, [op |-> "cancel", id |-> id, unsearched |-> {}], "waiting")
  /\ UNCHANGED <<books, locks, next_order_id_, files, history>>

ModifyOrder(h, id, quantity, price) ==
  /\ Receive(h, [op |-> "modify", id |-> id, unsearched |-> {}, quantity |-> quantity,
                 price |-> price], "waiting")
  /\ UNCHANGED <<books, locks, next_order_id_, files, history>>

\* order_books_mutex_ is held until the handler returns.
LockBooks(h) ==
  /\ pc[h] = "waiting"
  /\ order_books_mutex_ = Nobody
  /\ order_books_mutex_' = h
  /\ request' = [request EXCEPT ![h].unsearched = DOMAIN order_books_]
  /\ Goto(h, "searching")
  /\ UNCHANGED <<books, mutex_, next_order_id_, files, history>>

\* (Two orders trade at most once, since that fills one of them: a set will do.)
Traded(id) ==
  SumFunction([trade \in {t \in trades : id \in {t.buy_order_id, t.sell_order_id}} |->
                 trade.quantity])

\* order_map_[id].
OrderWith(orders, id) == orders[SelectInSeq(orders, LAMBDA order : order.id = id)]

\* Mutant: modifyOrder without removeFromLevel.
RequeuedTwice(orders, id, req) ==
  Append(orders, [OrderWith(orders, id) EXCEPT !.quantity = req.quantity, !.price = req.price])

\* What modifyOrder leaves of the book that has the order.
Requeued(orders, id, req) ==
  Append(Without(orders, id),
         [OrderWith(orders, id) EXCEPT !.quantity = req.quantity, !.price = req.price])

\* The book has the order: CANCELLED or MODIFIED.
ChangeOrder(h, symbol) ==
  /\ pc[h] = "searching"
  /\ symbol \in request[h].unsearched
  /\ mutex_[symbol] = Nobody
  /\ LET req == request[h]
     IN  /\ Rests(order_books_[symbol], req.id)
         /\ order_books_' = [order_books_ EXCEPT ![symbol] =
              IF req.op = "cancel" THEN Without(@, req.id) ELSE Requeued(@, req.id, req)]
         /\ due' = [due EXCEPT ![req.id] =
              Traded(req.id) + IF req.op = "cancel" THEN 0 ELSE req.quantity]
  /\ order_books_mutex_' = Nobody
  /\ Return(h)
  /\ UNCHANGED <<logged, matchers_, mutex_, next_order_id_, files, published, trades, restarts>>

\* It has not: on to the next book, in the order of the hash map.
SkipBook(h, symbol) ==
  /\ pc[h] = "searching"
  /\ symbol \in request[h].unsearched
  /\ mutex_[symbol] = Nobody
  /\ ~Rests(order_books_[symbol], request[h].id)
  /\ request' = [request EXCEPT ![h].unsearched = @ \ {symbol}]
  /\ UNCHANGED <<books, locks, next_order_id_, pc, files, history>>

\* Mutant: the early return forgets to unlock.
NotFoundLocked(h) ==
  /\ pc[h] = "searching"
  /\ request[h].unsearched = {}
  /\ Return(h)
  /\ UNCHANGED <<books, locks, next_order_id_, files, history>>

NotFound(h) ==
  /\ pc[h] = "searching"
  /\ request[h].unsearched = {}
  /\ order_books_mutex_' = Nobody
  /\ Return(h)
  /\ UNCHANGED <<books, mutex_, next_order_id_, files, history>>

-----------------------------------------------------------------------------
\* The process dies at any moment and starts again: only the files remain.
Restart ==
  /\ restarts < MaxRestarts
  /\ restarts' = restarts + 1
  /\ order_books_' = [symbol \in {} |-> <<>>]
  /\ logged' = {}
  /\ matchers_' = {}
  /\ order_books_mutex_' = Nobody
  /\ mutex_' = [symbol \in Symbols |-> Nobody]
  /\ next_order_id_' = 1
  /\ pc' = [h \in Handlers |-> "idle"]
  /\ request' = [h \in Handlers |-> Idle]
  /\ trades' = {}
  /\ due' = [id \in {} |-> 0]
  /\ UNCHANGED <<files, published>>

Call(h) ==
  \/ \E symbol \in Symbols, is_buy \in BOOLEAN, price \in Prices, quantity \in OrderQuantities :
       SubmitOrder(h, symbol, is_buy, price, quantity)
  \/ \E symbol \in Symbols : GetOrderBook(h, symbol)
  \/ \E id \in Ids : CancelOrder(h, id)
  \/ \E id \in Ids, quantity \in ModifyQuantities, price \in Prices :
       ModifyOrder(h, id, quantity, price)

Step(h) ==
  \/ getOrderBook(h) \/ OpenTradeLog(h) \/ addOrder(h) \/ FindMatcher(h)
  \/ ReadBids(h) \/ ReadAsks(h)
  \/ TriggerMatching(h) \/ ExecuteTrade(h) \/ FillOrders(h) \/ MatchingDone(h)
  \/ LockBooks(h) \/ NotFound(h)
  \/ \E symbol \in Symbols : ChangeOrder(h, symbol) \/ SkipBook(h, symbol)

Next == Restart \/ \E h \in Handlers : Call(h) \/ Step(h)

Spec == Init /\ [][Next]_vars

(***************************************************************************)
(* Handlers run, and one that finds the mutex it waits for free again and   *)
(* again gets it.  Clients owe no calls.                                    *)
(***************************************************************************)
FairSpec == Spec /\ \A h \in Handlers : SF_vars(Step(h))

-----------------------------------------------------------------------------
Labels == {"idle", "finding", "creating", "adding", "accepted", "locking", "matching", "filling",
           "reading bids", "reading asks", "waiting", "searching"}

\* Every variable has its type: what ModifyOrder did not check, and what became
\* of it in trades, still fits.
TypeOK ==
  /\ DOMAIN order_books_ \subseteq Symbols
  /\ order_books_ \in [DOMAIN order_books_ -> Seq(Order)]
  /\ logged \subseteq Symbols /\ matchers_ \subseteq Symbols
  /\ order_books_mutex_ \in Handlers \cup {Nobody}
  /\ mutex_ \in [Symbols -> Handlers \cup {Nobody}]
  /\ next_order_id_ \in 1..(MaxOrders + 1)
  /\ pc \in [Handlers -> Labels]
  /\ DOMAIN due \subseteq Ids
  /\ restarts \in 0..MaxRestarts

\* The quantity for which id rests in a book, and in all of them together.
QuantityIn(orders, id) ==
  SumFunction([i \in DOMAIN orders |-> IF orders[i].id = id THEN orders[i].quantity ELSE 0])
RestingQuantity(id) ==
  SumFunction([symbol \in DOMAIN order_books_ |-> QuantityIn(order_books_[symbol], id)])

(***************************************************************************)
(* Whatever submits, cancels, modifications and matching interleave, an     *)
(* accepted order rests for exactly what it has not traded: none is lost or *)
(* filled twice, one that was cancelled never trades again, and a           *)
(* modification neither loses nor revives a trade that was on its way.      *)
(* (Exactly, but for the width of a quantity: an order that trades with one *)
(* modified to a negative quantity grows, until it wraps.)                  *)
(***************************************************************************)
Conservation ==
  \A id \in DOMAIN due : RestingQuantity(id) = ToQuantity(due[id] - Traded(id))

(***************************************************************************)
(* "Logs executed trades to files for audit": whatever the moment of a      *)
(* crash, the log of a symbol has no trade that was not published, and      *)
(* lacks at most the one that was under way when the process died.          *)
(***************************************************************************)
AuditTrail ==
  \A symbol \in Symbols :
    LET lacking == published[symbol] \ files[symbol]
    IN  /\ files[symbol] \subseteq published[symbol]
        /\ \A trade, other \in lacking : trade.restarts = other.restarts => trade = other
        /\ \A trade \in lacking : trade.restarts = restarts =>
             \E h \in Handlers : pc[h] = "filling" /\ request[h].trade = trade

\* A handler that has added an order to the book but not finished matching it.
MatchingAhead(symbol) ==
  \E h \in Handlers : /\ pc[h] \in {"accepted", "locking", "matching", "filling"}
                      /\ request[h].symbol = symbol

(***************************************************************************)
(* "Automatically matching compatible buy and sell orders": two orders that *)
(* could trade do not rest in a book unless a handler is about to match it. *)
(***************************************************************************)
CompatibleOrdersMatch ==
  \A symbol \in DOMAIN order_books_ :
    Matches(order_books_[symbol]) # {} => MatchingAhead(symbol)

(***************************************************************************)
(* Every RPC returns: the locks, taken in the order order_books_mutex_      *)
(* before the mutex_ of a book, never leave the handlers in each other's    *)
(* way, and no handler keeps one.                                           *)
(***************************************************************************)
HandlersReturn == \A h \in Handlers : pc[h] # "idle" ~> pc[h] = "idle"

(***************************************************************************)
(* "Thread Safety": no handler looks a Matcher up in matchers_ while        *)
(* another inserts into that map.                                           *)
(***************************************************************************)
NoMatchersRace ==
  ~\E h, k \in Handlers : pc[h] = "accepted" /\ pc[k] = "creating"

(***************************************************************************)
(* "Unique order identifier": the trade logs, kept for audit and replay     *)
(* over restarts, never use one id for two orders.                          *)
(***************************************************************************)
LoggedIdsUnique ==
  LET Lines == UNION {files[symbol] : symbol \in Symbols}
  IN  \A a, b \in Lines : Parties(a) \cap Parties(b) # {} => a.restarts = b.restarts

=============================================================================
