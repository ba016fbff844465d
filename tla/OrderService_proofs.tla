-------------------------- MODULE OrderService_proofs --------------------------
(***************************************************************************)
(* Proofs about the order service, for any number of handlers, symbols,     *)
(* orders and restarts: what happens to the quantity of an order, that no   *)
(* order stays that could trade, and that the trade logs are an audit trail *)
(* whenever the process dies.                                               *)
(***************************************************************************)
EXTENDS OrderService, RestingOrders_proofs

\* The labels at which a handler has the book of its symbol.
AtBook == {"adding", "accepted", "locking", "matching", "filling", "reading bids", "reading asks"}

\* The types of the variables that say who is where and what is recorded.
ControlTypes ==
  /\ pc \in [Handlers -> Labels]
  /\ request = [h \in Handlers |-> request[h]]
  /\ mutex_ = [symbol \in Symbols |-> mutex_[symbol]]
  /\ files = [symbol \in Symbols |-> files[symbol]]
  /\ published = [symbol \in Symbols |-> published[symbol]]
  /\ restarts \in Nat
  /\ \A h \in Handlers : pc[h] \in AtBook \cup {"finding", "creating"} => request[h].symbol \in Symbols

\* Who creates or searches books holds order_books_mutex_, and who matches a
\* book its mutex_.
Locking ==
  \A h \in Handlers :
    /\ pc[h] \in {"creating", "searching"} => order_books_mutex_ = h
    /\ pc[h] \in {"matching", "filling"} => mutex_[request[h].symbol] = h

\* A handler is at a book that exists, and nobody opens its log any more.
Created ==
  \A h \in Handlers :
    /\ pc[h] \in AtBook \cup {"creating"} => request[h].symbol \in DOMAIN order_books_
    /\ pc[h] \in AtBook => \A k \in Handlers :
         pc[k] = "creating" => request[k].symbol # request[h].symbol

\* What was published is of this life or an earlier one, and what a handler is
\* about to log was published.
Published ==
  /\ \A symbol \in Symbols : \A trade \in published[symbol] :
       trade.restarts \in Nat /\ trade.restarts <= restarts
  /\ \A h \in Handlers : pc[h] = "filling" /\ request[h].symbol \in logged =>
       request[h].trade \in published[request[h].symbol]

Lacking(symbol) == published[symbol] \ files[symbol]

\* What a log lacks of this life is in the hands of the handler that matches,
\* and what it lacks of any life is one trade.
Recorded ==
  \A symbol \in Symbols :
    /\ files[symbol] \subseteq published[symbol]
    /\ \A trade \in Lacking(symbol) : trade.restarts = restarts =>
         /\ symbol \in logged
         /\ \E h \in Handlers : /\ pc[h] = "filling" /\ request[h].symbol = symbol
                                /\ request[h].trade = trade
    /\ \A trade, other \in Lacking(symbol) : trade.restarts = other.restarts => trade = other

Inv == ControlTypes /\ Locking /\ Created /\ Published /\ Recorded

LEMMA InitInv == Init => Inv
<1> SUFFICES ASSUME Init
             PROVE  Inv
  OBVIOUS
<1>1. ControlTypes /\ Locking /\ Created
  BY DEF Init, ControlTypes, Locking, Created, Labels, AtBook
<1>2. Published /\ Recorded
  BY DEF Init, Published, Recorded, Lacking
<1> QED BY <1>1, <1>2 DEF Inv

\* Where it is recorded what was traded.
Records == <<files, published, restarts>>

(***************************************************************************)
(* A step that neither publishes nor logs and lets no handler in or out of  *)
(* "filling" keeps what is recorded.                                        *)
(***************************************************************************)
LEMMA RecordsKept ==
  ASSUME Inv, NEW h \in Handlers, NEW label \in Labels,
         UNCHANGED Records,
         pc' = [pc EXCEPT ![h] = label],
         pc[h] # "filling", label # "filling",
         \A k \in Handlers \ {h} : request'[k] = request[k],
         logged \subseteq logged',
         \A k \in Handlers : pc[k] = "filling" /\ request[k].symbol \in logged'
                               => request[k].symbol \in logged
  PROVE  Published' /\ Recorded'
<1> USE DEF Inv, ControlTypes, Records
<1>1. \A k \in Handlers : pc'[k] = "filling" => k # h /\ pc[k] = "filling" /\ request'[k] = request[k]
  OBVIOUS
<1>2. \A k \in Handlers : pc[k] = "filling" => pc'[k] = "filling" /\ request'[k] = request[k]
  OBVIOUS
<1>3. Published'
  BY <1>1 DEF Published
<1>4. \A symbol \in Symbols : Lacking(symbol)' = Lacking(symbol)
  BY DEF Lacking
<1>5. Recorded'
  BY <1>2, <1>4 DEF Recorded
<1> QED BY <1>3, <1>5

\* The request a handler receives takes it to "finding" or "waiting".
LEMMA CallKeepsInv ==
  ASSUME Inv, NEW h \in Handlers, Call(h)
  PROVE  Inv'
<1>1. /\ pc[h] = "idle"
      /\ UNCHANGED <<books, locks, files, history>>
      /\ \E req : /\ request' = [request EXCEPT ![h] = req]
                  /\ \/ req.symbol \in Symbols /\ pc' = [pc EXCEPT ![h] = "finding"]
                     \/ pc' = [pc EXCEPT ![h] = "waiting"]
  <2>1. CASE \E symbol \in Symbols, is_buy \in BOOLEAN, price \in Prices, quantity \in OrderQuantities :
               SubmitOrder(h, symbol, is_buy, price, quantity)
    <3>1. PICK symbol \in Symbols, is_buy \in BOOLEAN, price \in Prices, quantity \in OrderQuantities :
            SubmitOrder(h, symbol, is_buy, price, quantity)
      BY <2>1
    <3> DEFINE order == [id |-> next_order_id_, is_buy |-> is_buy, price |-> price,
                         quantity |-> quantity]
               req == [op |-> "submit", symbol |-> symbol, order |-> order]
    <3>2. /\ pc[h] = "idle" /\ request' = [request EXCEPT ![h] = req]
          /\ pc' = [pc EXCEPT ![h] = "finding"]
          /\ UNCHANGED <<books, locks, files, history>>
      BY <3>1 DEF SubmitOrder, Receive, Goto
    <3>3. req.symbol \in Symbols
      OBVIOUS
    <3> HIDE DEF req
    <3>4. \E r : /\ request' = [request EXCEPT ![h] = r]
                 /\ \/ r.symbol \in Symbols /\ pc' = [pc EXCEPT ![h] = "finding"]
                    \/ pc' = [pc EXCEPT ![h] = "waiting"]
      BY <3>2, <3>3, Zenon
    <3> QED BY <3>2, <3>4
  <2>2. CASE \E symbol \in Symbols : GetOrderBook(h, symbol)
    <3>1. PICK symbol \in Symbols : GetOrderBook(h, symbol)
      BY <2>2
    <3> DEFINE req == [op |-> "get", symbol |-> symbol]
    <3>2. /\ pc[h] = "idle" /\ request' = [request EXCEPT ![h] = req]
          /\ pc' = [pc EXCEPT ![h] = "finding"]
          /\ UNCHANGED <<books, locks, files, history>>
      BY <3>1 DEF GetOrderBook, Receive, Goto
    <3>3. req.symbol \in Symbols
      OBVIOUS
    <3> HIDE DEF req
    <3>4. \E r : /\ request' = [request EXCEPT ![h] = r]
                 /\ \/ r.symbol \in Symbols /\ pc' = [pc EXCEPT ![h] = "finding"]
                    \/ pc' = [pc EXCEPT ![h] = "waiting"]
      BY <3>2, <3>3, Zenon
    <3> QED BY <3>2, <3>4
  <2>3. CASE \E id \in Ids : CancelOrder(h, id)
    BY <2>3 DEF CancelOrder, Receive, Goto
  <2>4. CASE \E id \in Ids, quantity \in ModifyQuantities, price \in Prices :
               ModifyOrder(h, id, quantity, price)
    BY <2>4 DEF ModifyOrder, Receive, Goto
  <2> QED BY <2>1, <2>2, <2>3, <2>4 DEF Call
<1>2. PICK label \in {"finding", "waiting"} :
        /\ pc' = [pc EXCEPT ![h] = label]
        /\ label = "finding" => request'[h].symbol \in Symbols
  BY <1>1 DEF Inv, ControlTypes
<1>3. /\ request' = [k \in Handlers |-> request'[k]]
      /\ \A k \in Handlers \ {h} : request'[k] = request[k]
  BY <1>1 DEF Inv, ControlTypes
<1>4. UNCHANGED <<order_books_, logged, order_books_mutex_, mutex_, Records>>
  BY <1>1 DEF books, locks, history, Records
<1>5. ControlTypes'
  BY <1>2, <1>3, <1>4 DEF Inv, ControlTypes, Labels, AtBook, Records
<1>6. Locking'
  BY <1>2, <1>3, <1>4 DEF Inv, ControlTypes, Locking
<1>7. Created'
  BY <1>2, <1>3, <1>4 DEF Inv, ControlTypes, Created, AtBook
<1>8. Published' /\ Recorded'
  BY <1>1, <1>2, <1>3, <1>4, RecordsKept DEF Labels
<1> QED BY <1>5, <1>6, <1>7, <1>8 DEF Inv

LEMMA BookKeepsInv ==
  ASSUME Inv, NEW h \in Handlers, getOrderBook(h) \/ OpenTradeLog(h)
  PROVE  Inv'
<1> USE DEF Inv, ControlTypes, Locking, Created
<1>1. CASE getOrderBook(h) /\ request[h].symbol \in DOMAIN order_books_
  <2>1. PICK label \in AtBook \ {"matching", "filling"} : pc' = [pc EXCEPT ![h] = label]
    BY <1>1 DEF getOrderBook, Found, Goto, AtBook
  <2>2. /\ pc[h] = "finding" /\ order_books_mutex_ = Nobody
        /\ UNCHANGED <<books, locks, request, Records>>
    BY <1>1 DEF getOrderBook, locks, Records, history
  <2>3. ControlTypes' /\ Locking'
    BY <2>1, <2>2 DEF locks, Records, AtBook, Labels
  <2>4. \A k \in Handlers : pc[k] # "creating"
    BY <2>2, RequestsAssumption
  <2>5. Created'
    BY <1>1, <2>1, <2>2, <2>4 DEF books, AtBook
  <2>6. Published' /\ Recorded'
    BY <2>1, <2>2, RecordsKept DEF books, AtBook, Labels
  <2> QED BY <2>3, <2>5, <2>6
<1>2. CASE getOrderBook(h) /\ request[h].symbol \notin DOMAIN order_books_
  <2>1. /\ pc[h] = "finding" /\ order_books_mutex_ = Nobody /\ order_books_mutex_' = h
        /\ pc' = [pc EXCEPT ![h] = "creating"]
        /\ DOMAIN order_books_' = DOMAIN order_books_ \cup {request[h].symbol}
        /\ UNCHANGED <<logged, mutex_, request, Records>>
    BY <1>2 DEF getOrderBook, Goto, Records, history
  <2>2. \A k \in Handlers : pc'[k] = IF k = h THEN "creating" ELSE pc[k]
    BY <2>1
  <2>3. \A k \in Handlers : pc[k] \notin {"creating", "searching"}
    BY <2>1, RequestsAssumption
  <2>4. ControlTypes'
    BY <2>1, <2>2 DEF Records, AtBook, Labels
  <2>5. Locking'
    BY <2>1, <2>2, <2>3
  <2>6. Created'
    BY <1>2, <2>1, <2>2, <2>3 DEF AtBook
  <2>7. Published' /\ Recorded'
    BY <2>1, RecordsKept DEF Labels
  <2> QED BY <2>4, <2>5, <2>6, <2>7
<1>3. CASE OpenTradeLog(h) /\ Found(h) /\ logged' = logged \cup {request[h].symbol}
  <2>1. PICK label \in AtBook \ {"matching", "filling"} : pc' = [pc EXCEPT ![h] = label]
    <3>1. Found(h)
      BY <1>3
    <3>2. (IF request[h].op = "submit" THEN "adding" ELSE "reading bids")
            \in AtBook \ {"matching", "filling"}
      BY DEF AtBook
    <3> QED BY <3>1, <3>2 DEF Found, Goto
  <2>2. /\ pc[h] = "creating" /\ order_books_mutex_' = Nobody
        /\ UNCHANGED <<order_books_, mutex_, Records>>
    BY <1>3 DEF OpenTradeLog, Records, history
  <2>3. UNCHANGED request
    BY <1>3, <2>1 DEF OpenTradeLog, Return, Goto, AtBook
  <2>4. \A k \in Handlers \ {h} : pc[k] \notin {"creating", "searching"}
    BY <2>2
  <2>5. ControlTypes' /\ Locking'
    BY <2>1, <2>2, <2>3, <2>4 DEF Records, AtBook, Labels
  <2>6. Created'
    BY <2>1, <2>2, <2>3, <2>4 DEF AtBook
  <2>7. \A k \in Handlers : pc[k] = "filling" => request[k].symbol # request[h].symbol
    BY <2>2 DEF AtBook
  <2>8. \A k \in Handlers : pc[k] = "filling" /\ request[k].symbol \in logged'
                              => request[k].symbol \in logged
    BY <1>3, <2>7
  <2>9. logged \subseteq logged' /\ label \in Labels \ {"filling"} /\ pc[h] # "filling"
    BY <1>3, <2>2 DEF AtBook, Labels
  <2>10. Published' /\ Recorded'
    BY <2>1, <2>2, <2>3, <2>8, <2>9, RecordsKept
  <2> QED BY <2>5, <2>6, <2>10
<1>4. CASE OpenTradeLog(h) /\ Return(h) /\ UNCHANGED logged
  <2>1. /\ pc[h] = "creating" /\ order_books_mutex_' = Nobody
        /\ UNCHANGED <<order_books_, logged, mutex_, Records>>
        /\ pc' = [pc EXCEPT ![h] = "idle"] /\ request' = [request EXCEPT ![h] = Idle]
    BY <1>4 DEF OpenTradeLog, Return, Goto, Records, history
  <2>2. ControlTypes' /\ Locking' /\ Created'
    BY <2>1 DEF Records, AtBook, Labels
  <2>3. Published' /\ Recorded'
    BY <2>1, RecordsKept DEF Labels
  <2> QED BY <2>2, <2>3
<1> QED BY <1>1, <1>2, <1>3, <1>4 DEF OpenTradeLog

(***************************************************************************)
(* The steps that change an order, a lock or nothing: the handler moves to  *)
(* a label with its request, at most its own locks change, and no record.   *)
(***************************************************************************)
LEMMA MoveKeepsInv ==
  ASSUME Inv, NEW h \in Handlers,
         addOrder(h) \/ FindMatcher(h) \/ ReadBids(h) \/ TriggerMatching(h)
  PROVE  Inv'
<1> USE DEF Inv, ControlTypes, Locking, Created
<1>1. PICK label \in AtBook \ {"filling"} :
        /\ pc' = [pc EXCEPT ![h] = label]
        /\ \/ UNCHANGED mutex_ /\ label # "matching"
           \/ /\ mutex_[request[h].symbol] = Nobody
              /\ mutex_' = [mutex_ EXCEPT ![request[h].symbol] = h]
  <2>1. CASE addOrder(h)
    <3>1. pc' = [pc EXCEPT ![h] = "accepted"] /\ UNCHANGED mutex_
      BY <2>1 DEF addOrder, Goto, locks
    <3>2. "accepted" \in AtBook \ {"filling"} /\ "accepted" # "matching"
      BY DEF AtBook
    <3> QED BY <3>1, <3>2
  <2>2. CASE FindMatcher(h)
    <3>1. pc' = [pc EXCEPT ![h] = "locking"] /\ UNCHANGED mutex_
      BY <2>2 DEF FindMatcher, Goto, locks
    <3>2. "locking" \in AtBook \ {"filling"} /\ "locking" # "matching"
      BY DEF AtBook
    <3> QED BY <3>1, <3>2
  <2>3. CASE ReadBids(h)
    <3>1. pc' = [pc EXCEPT ![h] = "reading asks"] /\ UNCHANGED mutex_
      BY <2>3 DEF ReadBids, Goto, locks
    <3>2. "reading asks" \in AtBook \ {"filling"} /\ "reading asks" # "matching"
      BY DEF AtBook
    <3> QED BY <3>1, <3>2
  <2>4. CASE TriggerMatching(h)
    BY <2>4 DEF TriggerMatching, Goto, AtBook
  <2> QED BY <2>1, <2>2, <2>3, <2>4
<1>2. /\ pc[h] \in AtBook \ {"matching", "filling"}
      /\ UNCHANGED <<logged, order_books_mutex_, request, Records>>
      /\ DOMAIN order_books_' = DOMAIN order_books_
  BY DEF addOrder, FindMatcher, ReadBids, TriggerMatching, AtBook, books, locks, history, Records
<1>3. ControlTypes'
  BY <1>1, <1>2 DEF Records, AtBook, Labels
<1>4. Locking'
  <2> SUFFICES ASSUME NEW k \in Handlers
               PROVE  /\ pc'[k] \in {"creating", "searching"} => order_books_mutex_' = k
                      /\ pc'[k] \in {"matching", "filling"} => mutex_'[request'[k].symbol] = k
    OBVIOUS
  <2>1. pc'[k] = IF k = h THEN label ELSE pc[k]
    BY <1>1
  <2>2. request' = request /\ order_books_mutex_' = order_books_mutex_
    BY <1>2
  <2>3. request[h].symbol \in Symbols
    BY <1>2
  <2>4. pc'[k] \in {"creating", "searching"} => order_books_mutex_' = k
    BY <1>1, <2>1, <2>2 DEF AtBook
  <2>5. ASSUME pc'[k] \in {"matching", "filling"}
        PROVE  mutex_'[request[k].symbol] = k
    <3>1. CASE k = h
      BY <1>1, <2>1, <2>3, <2>5, <3>1
    <3>2. CASE k # h
      <4>1. mutex_[request[k].symbol] = k /\ k # Nobody
        BY <2>1, <2>5, <3>2, RequestsAssumption
      <4>2. request[k].symbol \in Symbols
        BY <2>1, <2>5, <3>2 DEF AtBook
      <4>3. request[k].symbol # request[h].symbol \/ UNCHANGED mutex_
        BY <1>1, <4>1
      <4>4. mutex_'[request[k].symbol] = mutex_[request[k].symbol]
        BY <1>1, <4>2, <4>3
      <4> QED BY <4>1, <4>4
    <3> QED BY <3>1, <3>2
  <2> QED BY <2>2, <2>4, <2>5
<1>5. Created'
  BY <1>1, <1>2 DEF AtBook
<1>6. label \in Labels /\ label # "filling" /\ pc[h] # "filling"
  BY <1>1, <1>2 DEF AtBook, Labels
<1>7. Published' /\ Recorded'
  BY <1>1, <1>2, <1>6, RecordsKept
<1> QED BY <1>3, <1>4, <1>5, <1>7

\* The steps at the end of which a handler returns.
LEMMA ReturnKeepsInv ==
  ASSUME Inv, NEW h \in Handlers,
         ReadAsks(h) \/ MatchingDone(h) \/ NotFound(h) \/ \E symbol \in Symbols : ChangeOrder(h, symbol)
  PROVE  Inv'
<1> USE DEF Inv, ControlTypes, Locking, Created
<1>1. /\ pc[h] \in {"reading asks", "matching", "searching"}
      /\ pc' = [pc EXCEPT ![h] = "idle"] /\ request' = [request EXCEPT ![h] = Idle]
      /\ UNCHANGED <<logged, Records>>
      /\ DOMAIN order_books_' = DOMAIN order_books_
  BY DEF ReadAsks, MatchingDone, NotFound, ChangeOrder, Return, Goto, books, history, Records
<1>2. \/ UNCHANGED locks
      \/ pc[h] = "searching" /\ order_books_mutex_' = Nobody /\ UNCHANGED mutex_
      \/ /\ pc[h] = "matching" /\ UNCHANGED order_books_mutex_
         /\ mutex_' = [mutex_ EXCEPT ![request[h].symbol] = Nobody]
  BY DEF ReadAsks, MatchingDone, NotFound, ChangeOrder, locks
<1>3. ControlTypes'
  BY <1>1, <1>2 DEF Records, AtBook, Labels, locks
<1>4. Locking'
  <2> SUFFICES ASSUME NEW k \in Handlers
               PROVE  /\ pc'[k] \in {"creating", "searching"} => order_books_mutex_' = k
                      /\ pc'[k] \in {"matching", "filling"} => mutex_'[request'[k].symbol] = k
    OBVIOUS
  <2>1. CASE k = h
    BY <1>1, <2>1
  <2>2. CASE k # h
    BY <1>1, <1>2, <2>2 DEF locks, AtBook
  <2> QED BY <2>1, <2>2
<1>5. Created'
  BY <1>1 DEF AtBook
<1>6. Published' /\ Recorded'
  BY <1>1, RecordsKept DEF Labels
<1> QED BY <1>3, <1>4, <1>5, <1>6

\* The steps of a search: its start, and on to the next book.
LEMMA SearchKeepsInv ==
  ASSUME Inv, NEW h \in Handlers, LockBooks(h) \/ \E symbol \in Symbols : SkipBook(h, symbol)
  PROVE  Inv'
<1> USE DEF Inv, ControlTypes, Locking, Created
<1>1. /\ pc[h] \in {"waiting", "searching"} /\ pc' = [pc EXCEPT ![h] = "searching"]
      /\ request' = [k \in Handlers |-> request'[k]]
      /\ \A k \in Handlers \ {h} : request'[k] = request[k]
      /\ UNCHANGED <<order_books_, logged, mutex_, Records>>
  BY DEF LockBooks, SkipBook, Goto, books, locks, history, Records
<1>2. order_books_mutex_' = h /\ order_books_mutex_ \in {h, Nobody}
  BY DEF LockBooks, SkipBook, locks
<1>3. ControlTypes'
  BY <1>1 DEF Records, AtBook, Labels
<1>4. Locking'
  <2>1. \A k \in Handlers \ {h} : pc'[k] = pc[k] /\ order_books_mutex_ # k
    BY <1>1, <1>2, RequestsAssumption
  <2> SUFFICES ASSUME NEW k \in Handlers
               PROVE  /\ pc'[k] \in {"creating", "searching"} => order_books_mutex_' = k
                      /\ pc'[k] \in {"matching", "filling"} => mutex_'[request'[k].symbol] = k
    OBVIOUS
  <2>2. CASE k = h
    BY <1>1, <1>2, <2>2
  <2>3. CASE k # h
    BY <1>1, <2>1, <2>3
  <2> QED BY <2>2, <2>3
<1>5. Created'
  <2>1. \A k \in Handlers : pc'[k] \in AtBook \cup {"creating"} =>
          pc'[k] = pc[k] /\ request'[k] = request[k]
    BY <1>1 DEF AtBook
  <2> QED BY <1>1, <2>1
<1>6. Published' /\ Recorded'
  BY <1>1, RecordsKept DEF Labels
<1> QED BY <1>3, <1>4, <1>5, <1>6

(***************************************************************************)
(* Only the handler that holds mutex_ of the book has a trade in its hands, *)
(* so nothing is missing from the log when it publishes the next.           *)
(***************************************************************************)
LEMMA ExecuteTradeKeepsInv ==
  ASSUME Inv, NEW h \in Handlers, ExecuteTrade(h)
  PROVE  Inv'
<1> USE DEF Inv, ControlTypes, Locking, Created
<1> DEFINE symbol == request[h].symbol
           orders == order_books_[symbol]
<1>1. PICK p \in Matches(orders) :
        LET match == TradeOf(orders[p[1]], orders[p[2]])
            trade == [buy_order_id |-> match.buy_order_id, sell_order_id |-> match.sell_order_id,
                      quantity |-> match.quantity, restarts |-> restarts]
        IN  /\ request' = [request EXCEPT ![h] = [op |-> "submit", symbol |-> symbol,
                                                  trade |-> trade]]
            /\ published' = IF symbol \in logged
                            THEN [published EXCEPT ![symbol] = @ \cup {trade}] ELSE published
  BY DEF ExecuteTrade
<1> DEFINE match == TradeOf(orders[p[1]], orders[p[2]])
           trade == [buy_order_id |-> match.buy_order_id, sell_order_id |-> match.sell_order_id,
                     quantity |-> match.quantity, restarts |-> restarts]
           req == [op |-> "submit", symbol |-> symbol, trade |-> trade]
<1>2. request' = [request EXCEPT ![h] = req] /\ req.symbol = symbol /\ req.trade = trade
  BY <1>1
<1>3. published' = IF symbol \in logged
                   THEN [published EXCEPT ![symbol] = @ \cup {trade}] ELSE published
  BY <1>1
<1>4. trade.restarts = restarts
  OBVIOUS
<1>5. /\ pc[h] = "matching" /\ pc' = [pc EXCEPT ![h] = "filling"]
      /\ UNCHANGED <<books, locks, files, restarts>>
  BY DEF ExecuteTrade, Goto
<1>6. symbol \in Symbols
  BY <1>5 DEF AtBook
<1> HIDE DEF trade, req, symbol
<1>7. /\ request'[h].symbol = symbol /\ request'[h].trade = trade /\ request[h].symbol = symbol
      /\ \A k \in Handlers \ {h} : request'[k] = request[k]
      /\ request' = [k \in Handlers |-> request'[k]]
  BY <1>2 DEF symbol
<1>8. published' = [s \in Symbols |-> published'[s]]
  <2>1. published = [s \in Symbols |-> published[s]]
    OBVIOUS
  <2>2. CASE symbol \in logged
    BY <1>3, <2>1, <2>2
  <2>3. CASE symbol \notin logged
    BY <1>3, <2>1, <2>3
  <2> QED BY <2>2, <2>3
<1>9. ControlTypes' /\ Locking' /\ Created'
  <2>1. ControlTypes'
    BY <1>5, <1>6, <1>7, <1>8 DEF books, locks, AtBook, Labels
  <2>2. Locking'
    BY <1>5, <1>7 DEF locks
  <2>3. \A k \in Handlers : /\ pc'[k] \in AtBook <=> pc[k] \in AtBook
                            /\ pc'[k] = "creating" <=> pc[k] = "creating"
                            /\ request'[k].symbol = request[k].symbol
    BY <1>5, <1>7 DEF AtBook
  <2>4. Created'
    BY <1>5, <2>3 DEF books
  <2> QED BY <2>1, <2>2, <2>4
<1>10. \A k \in Handlers : pc[k] = "filling" => request[k].symbol # symbol
  BY <1>5, <1>7
<1>11. \A t \in Lacking(symbol) : t.restarts # restarts
  BY <1>6, <1>10 DEF Recorded
<1>12. Published'
  BY <1>3, <1>4, <1>5, <1>6, <1>7 DEF Published, books
<1>13. Recorded'
  <2> SUFFICES ASSUME NEW s \in Symbols
               PROVE  /\ files'[s] \subseteq published'[s]
                      /\ \A t \in Lacking(s)' : t.restarts = restarts' =>
                           /\ s \in logged'
                           /\ \E k \in Handlers : /\ pc'[k] = "filling" /\ request'[k].symbol = s
                                                  /\ request'[k].trade = t
                      /\ \A t, other \in Lacking(s)' : t.restarts = other.restarts => t = other
    BY DEF Recorded
  <2>1. CASE s = symbol /\ symbol \in logged
    <3>1. Lacking(s)' \subseteq Lacking(symbol) \cup {trade}
      BY <1>3, <1>5, <1>6, <2>1 DEF Lacking
    <3>2. files'[s] \subseteq published'[s]
      BY <1>3, <1>5, <1>6, <2>1 DEF Recorded
    <3>3. pc'[h] = "filling" /\ restarts' = restarts /\ logged' = logged
      BY <1>5 DEF books
    <3> QED BY <1>4, <1>6, <1>7, <1>11, <2>1, <3>1, <3>2, <3>3 DEF Recorded
  <2>2. CASE ~(s = symbol /\ symbol \in logged)
    <3>1. Lacking(s)' = Lacking(s) /\ files'[s] = files[s] /\ published'[s] = published[s]
      BY <1>3, <1>5, <1>6, <2>2 DEF Lacking
    <3>2. \A k \in Handlers : pc[k] = "filling" => pc'[k] = "filling" /\ request'[k] = request[k]
      BY <1>5, <1>7
    <3> QED BY <1>5, <3>1, <3>2 DEF Recorded, books
  <2> QED BY <2>1, <2>2
<1> QED BY <1>9, <1>12, <1>13

(***************************************************************************)
(* The trade in the hands of the handler is all that the log lacked.        *)
(***************************************************************************)
LEMMA FillOrdersKeepsInv ==
  ASSUME Inv, NEW h \in Handlers, FillOrders(h)
  PROVE  Inv'
<1> USE DEF Inv, ControlTypes, Locking, Created
<1> DEFINE symbol == request[h].symbol
           trade == request[h].trade
<1>1. /\ pc[h] = "filling" /\ pc' = [pc EXCEPT ![h] = "matching"]
      /\ UNCHANGED <<logged, locks, request, published, restarts>>
      /\ DOMAIN order_books_' = DOMAIN order_books_
  BY DEF FillOrders, Goto
<1>2. files' = IF symbol \in logged THEN [files EXCEPT ![symbol] = @ \cup {trade}] ELSE files
  BY DEF FillOrders
<1>3. symbol \in Symbols
  BY <1>1 DEF AtBook
<1>4. symbol \in logged => trade \in published[symbol]
  BY <1>1 DEF Published
<1>5. \A k \in Handlers \ {h} : pc[k] = "filling" => request[k].symbol # symbol
  BY <1>1
<1>6. /\ request[h].symbol = symbol /\ request[h].trade = trade
  OBVIOUS
<1> HIDE DEF symbol, trade
<1>7. files' = [s \in Symbols |-> files'[s]]
  <2>1. files = [s \in Symbols |-> files[s]]
    OBVIOUS
  <2>2. CASE symbol \in logged
    BY <1>2, <2>1, <2>2
  <2>3. CASE symbol \notin logged
    BY <1>2, <2>1, <2>3
  <2> QED BY <2>2, <2>3
<1>8. ControlTypes' /\ Locking' /\ Created'
  BY <1>1, <1>7 DEF locks, AtBook, Labels
<1>9. Published'
  BY <1>1 DEF Published
<1>10. Recorded'
  <2> SUFFICES ASSUME NEW s \in Symbols
               PROVE  /\ files'[s] \subseteq published'[s]
                      /\ \A t \in Lacking(s)' : t.restarts = restarts' =>
                           /\ s \in logged'
                           /\ \E k \in Handlers : /\ pc'[k] = "filling" /\ request'[k].symbol = s
                                                  /\ request'[k].trade = t
                      /\ \A t, other \in Lacking(s)' : t.restarts = other.restarts => t = other
    BY DEF Recorded
  <2>1. CASE s = symbol
    <3>1. \A t \in Lacking(s) : t.restarts = restarts => symbol \in logged /\ t = trade
      BY <1>3, <1>5, <1>6, <2>1 DEF Recorded
    <3>2. Lacking(s)' \subseteq Lacking(s) /\ (symbol \in logged => trade \notin Lacking(s)')
      BY <1>1, <1>2, <1>3, <2>1 DEF Lacking
    <3>3. files'[s] \subseteq published'[s]
      BY <1>1, <1>2, <1>3, <1>4, <2>1 DEF Recorded
    <3>4. \A t \in Lacking(s)' : t.restarts # restarts'
      BY <1>1, <3>1, <3>2
    <3> QED BY <3>2, <3>3, <3>4 DEF Recorded
  <2>2. CASE s # symbol
    <3>1. Lacking(s)' = Lacking(s) /\ files'[s] = files[s] /\ published'[s] = published[s]
      BY <1>1, <1>2, <1>3, <2>2 DEF Lacking
    <3>2. \A k \in Handlers : pc[k] = "filling" /\ request[k].symbol = s =>
            pc'[k] = "filling" /\ request'[k] = request[k]
      BY <1>1, <1>6, <2>2
    <3> QED BY <1>1, <3>1, <3>2 DEF Recorded
  <2> QED BY <2>1, <2>2
<1> QED BY <1>8, <1>9, <1>10

\* A new life: what the logs lack is of the earlier ones.
LEMMA RestartKeepsInv ==
  ASSUME Inv, Restart
  PROVE  Inv'
<1> USE DEF Inv
<1>1. ControlTypes' /\ Locking' /\ Created'
  <2>1. ControlTypes'
    <3>1. pc' \in [Handlers -> Labels] /\ restarts' \in Nat
      <4>1. pc' = [h \in Handlers |-> "idle"] /\ restarts' = restarts + 1
        BY DEF Restart
      <4>2. restarts \in Nat /\ "idle" \in Labels
        BY DEF ControlTypes, Labels
      <4> QED BY <4>1, <4>2
    <3>2. request' = [h \in Handlers |-> request'[h]] /\ mutex_' = [symbol \in Symbols |-> mutex_'[symbol]]
      BY DEF Restart
    <3>3. UNCHANGED <<files, published>>
      BY DEF Restart
    <3>4. \A h \in Handlers : pc'[h] \notin AtBook \cup {"finding", "creating"}
      BY DEF Restart, AtBook
    <3> QED BY <3>1, <3>2, <3>3, <3>4 DEF ControlTypes
  <2>2. \A h \in Handlers : pc'[h] = "idle"
    BY DEF Restart
  <2> QED BY <2>1, <2>2 DEF Locking, Created, AtBook
<1>2. Published'
  BY DEF Restart, ControlTypes, Published
<1>3. Recorded'
  <2>1. \A symbol \in Symbols : \A trade \in published[symbol] : trade.restarts # restarts'
    BY DEF Restart, ControlTypes, Published
  <2>2. /\ \A symbol \in Symbols : Lacking(symbol)' = Lacking(symbol)
        /\ UNCHANGED <<files, published>>
    BY DEF Restart, Lacking
  <2> QED BY <2>1, <2>2 DEF Recorded, Lacking
<1> QED BY <1>1, <1>2, <1>3

LEMMA NextKeepsInv == Inv /\ [Next]_vars => Inv'
<1> SUFFICES ASSUME Inv, [Next]_vars
             PROVE  Inv'
  OBVIOUS
<1>1. CASE Restart
  BY <1>1, RestartKeepsInv
<1>2. CASE \E h \in Handlers : Call(h) \/ Step(h)
  BY <1>2, CallKeepsInv, BookKeepsInv, MoveKeepsInv, ReturnKeepsInv, SearchKeepsInv,
     ExecuteTradeKeepsInv, FillOrdersKeepsInv DEF Step
<1>3. CASE UNCHANGED vars
  BY <1>3 DEF vars, books, locks, history, Inv, ControlTypes, Locking, Created, Published, Recorded,
              Lacking
<1> QED BY <1>1, <1>2, <1>3 DEF Next

LEMMA AlwaysInv == Spec => []Inv
  BY InitInv, NextKeepsInv, PTL DEF Spec

(***************************************************************************)
(* Whenever the process dies, and however handlers interleave, the log of a *)
(* symbol holds only trades that were published, and of each life of the    *)
(* process it lacks at most the one that was under way.                     *)
(***************************************************************************)
THEOREM LogsAudit == Spec => []AuditTrail
<1>1. Inv => AuditTrail
  BY DEF Inv, Recorded, Lacking, AuditTrail
<1> QED BY <1>1, AlwaysInv, PTL

-----------------------------------------------------------------------------
(* Orders *)

\* The types of the other variables.
BookTypes ==
  /\ DOMAIN order_books_ \subseteq Symbols /\ IsFiniteSet(DOMAIN order_books_)
  /\ order_books_ \in [DOMAIN order_books_ -> Seq(Order)]
  /\ logged \subseteq Symbols /\ matchers_ \subseteq Symbols
  /\ order_books_mutex_ \in Handlers \cup {Nobody}
  /\ mutex_ \in [Symbols -> Handlers \cup {Nobody}]
  /\ next_order_id_ \in 1..(MaxOrders + 1)
  /\ DOMAIN due \subseteq Ids
  /\ due \in [DOMAIN due -> Int]
  /\ restarts \in 0..MaxRestarts

\* A handler with an order that is in no book yet.
Carries(h) == pc[h] \in {"finding", "creating", "adding"} /\ request[h].op = "submit"

\* What a search is for.
SearchRequest ==
  [op : {"cancel"}, id : Ids, unsearched : SUBSET Symbols] \cup
  [op : {"modify"}, id : Ids, unsearched : SUBSET Symbols, quantity : ModifyQuantities, price : Prices]

\* What handlers bring.
RequestTypes ==
  \A h \in Handlers :
    /\ pc[h] = "adding" => request[h].op = "submit"
    /\ Carries(h) => request[h].order \in Order
    /\ pc[h] \in {"waiting", "searching"} =>
         /\ request[h].op \in Operations /\ request[h] \in SearchRequest
    /\ pc[h] = "searching" => request[h].unsearched \subseteq DOMAIN order_books_

\* An id is given out once, and the orders under way have theirs.
Numbered ==
  /\ \A id \in DOMAIN due : id < next_order_id_
  /\ \A h \in Handlers : Carries(h) =>
       request[h].order.id < next_order_id_ /\ request[h].order.id \notin DOMAIN due
  /\ \A h, k \in Handlers :
       Carries(h) /\ Carries(k) /\ request[h].order.id = request[k].order.id => h = k

\* An id rests once.
RestOnce ==
  /\ \A symbol \in DOMAIN order_books_ :
       /\ IdsOnce(order_books_[symbol])
       /\ \A order \in ToSet(order_books_[symbol]) : order.id \in DOMAIN due
  /\ \A symbol, other \in DOMAIN order_books_ : \A id \in DOMAIN due :
       Rests(order_books_[symbol], id) /\ Rests(order_books_[other], id) => symbol = other

RestsSomewhere(id) == \E symbol \in DOMAIN order_books_ : Rests(order_books_[symbol], id)

\* Two orders trade once: one of them does not rest any more.
TradeOnce ==
  /\ IsFiniteSet(trades)
  /\ \A trade \in trades :
       /\ trade.quantity \in Int
       /\ trade.buy_order_id \in DOMAIN due /\ trade.sell_order_id \in DOMAIN due
       /\ ~(RestsSomewhere(trade.buy_order_id) /\ RestsSomewhere(trade.sell_order_id))

\* The trade in the hands of a handler is one of two orders that rest.
InHand ==
  \A h \in Handlers : pc[h] = "filling" =>
    LET orders == order_books_[request[h].symbol]
    IN  \E i, j \in DOMAIN orders : IsTradeOf(orders, i, j, request[h].trade)

\* Conservation, order by order.
Accounted ==
  \A id \in DOMAIN due :
    /\ \A symbol \in DOMAIN order_books_ : \A order \in ToSet(order_books_[symbol]) :
         order.id = id => order.quantity = ToQuantity(due[id] - Traded(id))
    /\ ~RestsSomewhere(id) => ToQuantity(due[id] - Traded(id)) = 0

BookInv == BookTypes /\ RequestTypes /\ Numbered /\ RestOnce /\ TradeOnce /\ InHand /\ Accounted

-----------------------------------------------------------------------------
(* What is traded of an order *)

TradedIn(T, id) ==
  SumFunction([trade \in {t \in T : id \in {t.buy_order_id, t.sell_order_id}} |-> trade.quantity])

LEMMA TradedIsWhole ==
  ASSUME NEW T, IsFiniteSet(T), \A trade \in T : trade.quantity \in Int, NEW id
  PROVE  TradedIn(T, id) \in Int
<1> DEFINE S == {t \in T : id \in {t.buy_order_id, t.sell_order_id}}
           f == [trade \in S |-> trade.quantity]
<1>1. IsFiniteSet(S)
  BY FS_Subset
<1>2. \A trade \in S : f[trade] \in Int
  OBVIOUS
<1>3. DOMAIN f = S
  OBVIOUS
<1>4. TradedIn(T, id) = SumFunctionOnSet(f, DOMAIN f)
  BY DEF TradedIn, SumFunction
<1> HIDE DEF S, f
<1> QED BY <1>1, <1>2, <1>3, <1>4, SumType

LEMMA TradedOfNone ==
  ASSUME NEW T, NEW id, \A trade \in T : id \notin {trade.buy_order_id, trade.sell_order_id}
  PROVE  TradedIn(T, id) = 0
<1> DEFINE S == {t \in T : id \in {t.buy_order_id, t.sell_order_id}}
           f == [trade \in S |-> trade.quantity]
<1>1. DOMAIN f = S /\ S = {}
  OBVIOUS
<1>2. TradedIn(T, id) = SumFunctionOnSet(f, DOMAIN f)
  BY DEF TradedIn, SumFunction
<1> HIDE DEF f
<1> QED BY <1>1, <1>2, SumOfNone

LEMMA TradedOfOneMore ==
  ASSUME NEW T, IsFiniteSet(T), \A trade \in T : trade.quantity \in Int,
         NEW new, new \notin T, new.quantity \in Int, NEW id
  PROVE  TradedIn(T \cup {new}, id) =
           TradedIn(T, id) +
             IF id \in {new.buy_order_id, new.sell_order_id} THEN new.quantity ELSE 0
<1> DEFINE Of(X) == {t \in X : id \in {t.buy_order_id, t.sell_order_id}}
           f(X) == [trade \in Of(X) |-> trade.quantity]
           U == T \cup {new}
<1>1. IsFiniteSet(Of(T))
  BY FS_Subset
<1>2. \A X : DOMAIN f(X) = Of(X) /\ TradedIn(X, id) = SumFunctionOnSet(f(X), Of(X))
  BY DEF TradedIn, SumFunction
<1>3. CASE id \in {new.buy_order_id, new.sell_order_id}
  <2>1. Of(U) = Of(T) \cup {new} /\ new \notin Of(T)
    BY <1>3
  <2>2. f(U)[new] = new.quantity /\ \A trade \in Of(T) \cup {new} : f(U)[trade] \in Int
    BY <2>1
  <2>3. \A trade \in Of(T) : f(U)[trade] = f(T)[trade]
    OBVIOUS
  <2> HIDE DEF f, Of
  <2>4. SumFunctionOnSet(f(U), Of(T) \cup {new}) = f(U)[new] + SumFunctionOnSet(f(U), Of(T))
    BY <1>1, <2>1, <2>2, SumOfOneMore
  <2>5. SumFunctionOnSet(f(U), Of(T)) = SumFunctionOnSet(f(T), Of(T))
    BY <1>1, <2>3, SumDependsOn
  <2>6. TradedIn(T, id) \in Int
    BY TradedIsWhole
  <2>7. TradedIn(U, id) = new.quantity + TradedIn(T, id)
    BY <1>2, <2>1, <2>2, <2>4, <2>5
  <2> HIDE DEF U
  <2> QED BY <1>3, <2>6, <2>7 DEF U
<1>4. CASE id \notin {new.buy_order_id, new.sell_order_id}
  <2>1. Of(U) = Of(T)
    BY <1>4
  <2>2. TradedIn(U, id) = TradedIn(T, id)
    BY <2>1 DEF TradedIn
  <2>3. TradedIn(T, id) \in Int
    BY TradedIsWhole
  <2> QED BY <1>4, <2>2, <2>3
<1> QED BY <1>3, <1>4

LEMMA TradedIs == \A id : Traded(id) = TradedIn(trades, id)
  BY DEF Traded, TradedIn

-----------------------------------------------------------------------------
(* The parts of BookInv *)

LEMMA QuantitiesAreWhole == Quantity \subseteq Int /\ 0 \in Quantity
  BY MaxQuantityAssumption DEF Quantity

LEMMA OrderIs == Order = RestingOrder(Ids, Prices)
  BY DEF Order, RestingOrder

LEMMA RestsMeans ==
  ASSUME NEW orders, NEW id
  PROVE  Rests(orders, id) <=> \E order \in ToSet(orders) : order.id = id
  BY DEF Rests, ToSet

LEMMA NoneRest == ToSet(<<>>) = {} /\ IdsOnce(<<>>) /\ \A id : ~Rests(<<>>, id)
<1>1. DOMAIN <<>> = {}
  OBVIOUS
<1> QED BY <1>1 DEF ToSet, IdsOnce, Rests

LEMMA InitBookInv == Init => BookInv
<1> SUFFICES ASSUME Init
             PROVE  BookInv
  OBVIOUS
<1>1. DOMAIN order_books_ = {} /\ DOMAIN due = {} /\ trades = {} /\ \A h \in Handlers : pc[h] = "idle"
  BY DEF Init
<1>2. IsFiniteSet({})
  BY FS_EmptySet
<1>3. BookTypes
  <2>1. order_books_ \in [DOMAIN order_books_ -> Seq(Order)] /\ due \in [DOMAIN due -> Int]
    BY <1>1 DEF Init
  <2>2. next_order_id_ \in 1..(MaxOrders + 1) /\ restarts \in 0..MaxRestarts
    BY BoundsAssumption DEF Init
  <2> QED BY <1>1, <1>2, <2>1, <2>2 DEF Init, BookTypes
<1>4. RequestTypes /\ Numbered /\ InHand
  BY <1>1 DEF RequestTypes, Numbered, Carries, InHand
<1>5. RestOnce /\ TradeOnce /\ Accounted
  BY <1>1, <1>2 DEF RestOnce, TradeOnce, Accounted
<1> QED BY <1>3, <1>4, <1>5 DEF BookInv

(***************************************************************************)
(* Where orders rest: a book may come into being, empty.                    *)
(***************************************************************************)
LEMMA OrdersKept ==
  ASSUME BookInv, UNCHANGED <<trades, due>>,
         DOMAIN order_books_ \subseteq DOMAIN order_books_',
         \A symbol \in DOMAIN order_books_ : order_books_'[symbol] = order_books_[symbol],
         \A symbol \in DOMAIN order_books_' : symbol \notin DOMAIN order_books_ =>
           order_books_'[symbol] = <<>>
  PROVE  RestOnce' /\ TradeOnce' /\ Accounted'
<1> USE DEF BookInv
<1>1. \A symbol \in DOMAIN order_books_' : \A id : Rests(order_books_'[symbol], id) =>
        symbol \in DOMAIN order_books_ /\ Rests(order_books_[symbol], id)
  BY NoneRest
<1>2. \A symbol \in DOMAIN order_books_' : \A order \in ToSet(order_books_'[symbol]) :
        symbol \in DOMAIN order_books_ /\ order \in ToSet(order_books_[symbol])
  BY NoneRest
<1>3. \A id : RestsSomewhere(id)' <=> RestsSomewhere(id)
  BY <1>1 DEF RestsSomewhere
<1>4. RestOnce'
  <2>1. \A symbol \in DOMAIN order_books_' : IdsOnce(order_books_'[symbol])
    BY NoneRest DEF RestOnce
  <2> QED BY <1>1, <1>2, <2>1 DEF RestOnce
<1>5. TradeOnce'
  BY <1>3 DEF TradeOnce
<1>6. \A id : Traded(id)' = Traded(id)
  BY DEF Traded
<1>7. Accounted'
  BY <1>2, <1>3, <1>6 DEF Accounted
<1> QED BY <1>4, <1>5, <1>7

\* Requests: at most the handler that moves has another.
LEMMA RequestsKept ==
  ASSUME ControlTypes, BookInv, NEW h \in Handlers, NEW label \in Labels,
         pc' = [pc EXCEPT ![h] = label],
         \A k \in Handlers \ {h} : request'[k] = request[k],
         UNCHANGED <<due, next_order_id_>>, DOMAIN order_books_ \subseteq DOMAIN order_books_',
         Carries(h)' => Carries(h) /\ request'[h] = request[h],
         label = "adding" => request'[h].op = "submit",
         label \in {"waiting", "searching"} =>
           /\ request'[h].op \in Operations /\ request'[h] \in SearchRequest,
         label = "searching" => request'[h].unsearched \subseteq DOMAIN order_books_
  PROVE  RequestTypes' /\ Numbered'
<1> USE DEF BookInv, ControlTypes
<1>1. pc'[h] = label /\ \A k \in Handlers \ {h} : pc'[k] = pc[k]
  OBVIOUS
<1>2. \A k \in Handlers : Carries(k)' => Carries(k) /\ request'[k] = request[k]
  BY <1>1 DEF Carries
<1>3. RequestTypes'
  <2> SUFFICES ASSUME NEW k \in Handlers
               PROVE  /\ pc'[k] = "adding" => request'[k].op = "submit"
                      /\ Carries(k)' => request'[k].order \in Order
                      /\ pc'[k] \in {"waiting", "searching"} =>
                           /\ request'[k].op \in Operations /\ request'[k] \in SearchRequest
                      /\ pc'[k] = "searching" => request'[k].unsearched \subseteq DOMAIN order_books_'
    BY DEF RequestTypes
  <2>1. Carries(k)' => request'[k].order \in Order
    BY <1>2 DEF RequestTypes
  <2>2. CASE k = h
    BY <1>1, <2>1, <2>2
  <2>3. CASE k # h
    BY <1>1, <2>1, <2>3 DEF RequestTypes
  <2> QED BY <2>2, <2>3
<1>4. Numbered'
  BY <1>2 DEF Numbered
<1> QED BY <1>3, <1>4

\* Trades in hand: no handler gets one, and the books of those that have one stay.
LEMMA InHandKept ==
  ASSUME Inv, BookInv,
         \A k \in Handlers : pc'[k] = "filling" =>
           /\ pc[k] = "filling" /\ request'[k] = request[k]
           /\ order_books_'[request[k].symbol] = order_books_[request[k].symbol]
  PROVE  InHand'
<1> SUFFICES ASSUME NEW k \in Handlers, pc'[k] = "filling"
             PROVE  LET orders == order_books_'[request'[k].symbol]
                    IN  \E i, j \in DOMAIN orders : IsTradeOf(orders, i, j, request'[k].trade)
  BY DEF InHand
<1>1. /\ pc[k] = "filling" /\ request'[k] = request[k]
      /\ order_books_'[request[k].symbol] = order_books_[request[k].symbol]
  OBVIOUS
<1> QED BY <1>1 DEF BookInv, InHand

-----------------------------------------------------------------------------
(* The steps that change no order *)

LEMMA CallKeepsBookInv ==
  ASSUME Inv, BookInv, NEW h \in Handlers, Call(h)
  PROVE  BookInv'
<1> USE DEF Inv
<1>1. pc[h] = "idle" /\ UNCHANGED <<books, locks, files, history>>
  BY DEF Call, SubmitOrder, GetOrderBook, CancelOrder, ModifyOrder, Receive
<1>2. RestOnce' /\ TradeOnce' /\ Accounted'
  BY <1>1, OrdersKept DEF books, history
<1>3. CASE \E symbol \in Symbols, is_buy \in BOOLEAN, price \in Prices, quantity \in OrderQuantities :
             SubmitOrder(h, symbol, is_buy, price, quantity)
  <2>1. PICK symbol \in Symbols, is_buy \in BOOLEAN, price \in Prices, quantity \in OrderQuantities :
          SubmitOrder(h, symbol, is_buy, price, quantity)
    BY <1>3
  <2> DEFINE order == [id |-> next_order_id_, is_buy |-> is_buy, price |-> price,
                       quantity |-> quantity]
             req == [op |-> "submit", symbol |-> symbol, order |-> order]
  <2>2. /\ request' = [request EXCEPT ![h] = req] /\ pc' = [pc EXCEPT ![h] = "finding"]
        /\ next_order_id_' = next_order_id_ + 1 /\ next_order_id_ <= MaxOrders
    BY <2>1 DEF SubmitOrder, Receive, Goto
  <2>3. next_order_id_ \in Ids /\ next_order_id_ \in Nat
    BY <2>2, BoundsAssumption DEF BookInv, BookTypes, Ids
  <2>4. order \in Order
    <3>1. quantity \in Quantity
      BY RequestsAssumption, MaxQuantityAssumption DEF Quantity
    <3> QED BY <2>3, <3>1 DEF Order
  <2>5. order.id = next_order_id_ /\ req.op = "submit" /\ req.order = order
    OBVIOUS
  <2> HIDE DEF order, req
  <2>6. /\ request'[h] = req /\ pc'[h] = "finding"
        /\ \A k \in Handlers \ {h} : request'[k] = request[k] /\ pc'[k] = pc[k]
    BY <2>2 DEF ControlTypes
  <2>7. \A k \in Handlers \ {h} : Carries(k)' <=> Carries(k)
    BY <2>6 DEF Carries
  <2>8. due' = due /\ order_books_' = order_books_
    BY <1>1 DEF history, books
  <2>9. BookTypes'
    <3>1. next_order_id_' \in 1..(MaxOrders + 1)
      BY <2>2, <2>3, BoundsAssumption
    <3> QED BY <1>1, <3>1 DEF BookInv, BookTypes, books, locks, history
  <2>10. RequestTypes'
    BY <2>4, <2>5, <2>6, <2>7, <2>8 DEF BookInv, RequestTypes
  <2>11. Numbered'
    <3>1. \A id \in DOMAIN due : id \in Nat /\ id < next_order_id_
      BY DEF BookInv, BookTypes, Numbered, Ids
    <3>2. \A k \in Handlers : Carries(k) =>
            /\ request[k].order.id \in Nat /\ request[k].order.id < next_order_id_
            /\ request[k].order.id \notin DOMAIN due
      BY DEF BookInv, RequestTypes, Numbered, Ids, Order
    <3>3. \A k \in Handlers \ {h} : Carries(k)' => Carries(k) /\ request'[k] = request[k]
      BY <2>6, <2>7
    <3>4. \A k, l \in Handlers :
            Carries(k) /\ Carries(l) /\ request[k].order.id = request[l].order.id => k = l
      BY DEF BookInv, Numbered
    <3>5. \A id \in DOMAIN due : id < next_order_id_'
      BY <2>2, <2>3, <3>1
    <3>6. \A k \in Handlers : Carries(k)' =>
            request'[k].order.id < next_order_id_' /\ request'[k].order.id \notin DOMAIN due
      BY <2>2, <2>3, <2>5, <2>6, <3>1, <3>2, <3>3
    <3>7. \A k, l \in Handlers :
            Carries(k)' /\ Carries(l)' /\ request'[k].order.id = request'[l].order.id => k = l
      BY <2>3, <2>5, <2>6, <3>2, <3>3, <3>4
    <3> QED BY <2>8, <3>5, <3>6, <3>7 DEF Numbered
  <2>12. InHand'
    BY <2>6, <2>8, InHandKept
  <2> QED BY <1>2, <2>9, <2>10, <2>11, <2>12 DEF BookInv
<1>4. CASE ~\E symbol \in Symbols, is_buy \in BOOLEAN, price \in Prices, quantity \in OrderQuantities :
              SubmitOrder(h, symbol, is_buy, price, quantity)
  <2>1. \E req, label :
          /\ request' = [request EXCEPT ![h] = req] /\ pc' = [pc EXCEPT ![h] = label]
          /\ UNCHANGED next_order_id_
          /\ \/ label = "finding" /\ req.op = "get"
             \/ label = "waiting" /\ req.op \in Operations /\ req \in SearchRequest
    <3>1. CASE \E symbol \in Symbols : GetOrderBook(h, symbol)
      <4>1. PICK symbol \in Symbols : GetOrderBook(h, symbol)
        BY <3>1
      <4> DEFINE req == [op |-> "get", symbol |-> symbol]
      <4>2. /\ request' = [request EXCEPT ![h] = req] /\ pc' = [pc EXCEPT ![h] = "finding"]
            /\ UNCHANGED next_order_id_
        BY <4>1 DEF GetOrderBook, Receive, Goto
      <4>3. req.op = "get"
        OBVIOUS
      <4> HIDE DEF req
      <4> QED BY <4>2, <4>3
    <3>2. CASE \E id \in Ids : CancelOrder(h, id)
      <4>1. PICK id \in Ids : CancelOrder(h, id)
        BY <3>2
      <4> DEFINE req == [op |-> "cancel", id |-> id, unsearched |-> {}]
      <4>2. /\ request' = [request EXCEPT ![h] = req] /\ pc' = [pc EXCEPT ![h] = "waiting"]
            /\ UNCHANGED next_order_id_ /\ req.op \in Operations
        BY <4>1 DEF CancelOrder, Receive, Goto
      <4>3. req \in SearchRequest
        BY DEF SearchRequest
      <4> HIDE DEF req
      <4> QED BY <4>2, <4>3
    <3>3. CASE \E id \in Ids, quantity \in ModifyQuantities, price \in Prices :
                 ModifyOrder(h, id, quantity, price)
      <4>1. PICK id \in Ids, quantity \in ModifyQuantities, price \in Prices :
              ModifyOrder(h, id, quantity, price)
        BY <3>3
      <4> DEFINE req == [op |-> "modify", id |-> id, unsearched |-> {}, quantity |-> quantity,
                         price |-> price]
      <4>2. /\ request' = [request EXCEPT ![h] = req] /\ pc' = [pc EXCEPT ![h] = "waiting"]
            /\ UNCHANGED next_order_id_ /\ req.op \in Operations
        BY <4>1 DEF ModifyOrder, Receive, Goto
      <4>3. req \in SearchRequest
        BY DEF SearchRequest
      <4> HIDE DEF req
      <4> QED BY <4>2, <4>3
    <3> QED BY <1>4, <3>1, <3>2, <3>3 DEF Call
  <2>2. PICK req, label :
          /\ request' = [request EXCEPT ![h] = req] /\ pc' = [pc EXCEPT ![h] = label]
          /\ UNCHANGED next_order_id_
          /\ \/ label = "finding" /\ req.op = "get"
             \/ label = "waiting" /\ req.op \in Operations /\ req \in SearchRequest
    BY <2>1
  <2>3. label \in Labels /\ label \notin {"filling", "adding", "searching"}
    BY <2>2 DEF Labels
  <2>4. /\ request'[h] = req /\ pc'[h] = label
        /\ \A k \in Handlers \ {h} : request'[k] = request[k] /\ pc'[k] = pc[k]
    BY <2>2 DEF ControlTypes
  <2>5. due' = due /\ order_books_' = order_books_
    BY <1>1 DEF history, books
  <2>6. BookTypes'
    BY <1>1, <2>2 DEF BookInv, BookTypes, books, locks, history
  <2>7. ~Carries(h)'
    BY <2>2, <2>4 DEF Carries
  <2>8. RequestTypes' /\ Numbered'
    BY <2>2, <2>3, <2>4, <2>5, <2>7, RequestsKept
  <2>9. InHand'
    BY <2>3, <2>4, <2>5, InHandKept
  <2> QED BY <1>2, <2>6, <2>8, <2>9 DEF BookInv
<1> QED BY <1>3, <1>4

LEMMA getOrderBookKeepsBookInv ==
  ASSUME Inv, BookInv, NEW h \in Handlers, getOrderBook(h)
  PROVE  BookInv'
<1> USE DEF Inv
<1> DEFINE symbol == request[h].symbol
<1>1. pc[h] = "finding" /\ UNCHANGED <<mutex_, next_order_id_, request, files, history>> /\ symbol \in Symbols
  BY DEF getOrderBook, ControlTypes
<1>2. \/ symbol \in DOMAIN order_books_ /\ UNCHANGED <<books, order_books_mutex_>> /\ Found(h)
      \/ /\ symbol \notin DOMAIN order_books_
         /\ order_books_' = [s \in DOMAIN order_books_ \cup {symbol} |->
                               IF s = symbol THEN <<>> ELSE order_books_[s]]
         /\ matchers_' = matchers_ \cup {symbol} /\ order_books_mutex_' = h
         /\ pc' = [pc EXCEPT ![h] = "creating"] /\ UNCHANGED logged
  BY DEF getOrderBook, Goto
<1>3. PICK label \in {"adding", "reading bids", "creating"} :
        /\ pc' = [pc EXCEPT ![h] = label]
        /\ label = "adding" => request[h].op = "submit"
  BY <1>2 DEF Found, Goto
<1>4. BookTypes'
  <2>1. CASE UNCHANGED <<books, order_books_mutex_>>
    BY <1>1, <2>1 DEF BookInv, BookTypes, books, history
  <2>2. CASE symbol \notin DOMAIN order_books_
    <3>1. IsFiniteSet(DOMAIN order_books_ \cup {symbol})
      <4>1. IsFiniteSet(DOMAIN order_books_)
        BY DEF BookInv, BookTypes
      <4> HIDE DEF symbol
      <4> QED BY <4>1, FS_AddElement
    <3>2. order_books_' \in [DOMAIN order_books_' -> Seq(Order)]
      <4>1. <<>> \in Seq(Order)
        BY EmptySeq
      <4>2. \A s \in DOMAIN order_books_ : order_books_[s] \in Seq(Order)
        BY DEF BookInv, BookTypes
      <4> QED BY <1>2, <2>2, <4>1, <4>2
    <3>3. UNCHANGED <<logged, mutex_, next_order_id_, due, restarts>>
      BY <1>1, <1>2, <2>2 DEF history
    <3>4. matchers_' \subseteq Symbols /\ order_books_mutex_' \in Handlers
      BY <1>1, <1>2, <2>2 DEF BookInv, BookTypes
    <3>5. DOMAIN order_books_' = DOMAIN order_books_ \cup {symbol}
      BY <1>2, <2>2
    <3> HIDE DEF symbol
    <3> QED BY <1>1, <3>1, <3>2, <3>3, <3>4, <3>5 DEF BookInv, BookTypes
  <2> QED BY <1>2, <2>1, <2>2
<1>5. /\ DOMAIN order_books_ \subseteq DOMAIN order_books_'
      /\ \A s \in DOMAIN order_books_ : order_books_'[s] = order_books_[s]
      /\ \A s \in DOMAIN order_books_' : s \notin DOMAIN order_books_ => order_books_'[s] = <<>>
  BY <1>2 DEF books
<1>6. RestOnce' /\ TradeOnce' /\ Accounted'
  BY <1>1, <1>5, OrdersKept DEF history
<1>7. label \in Labels
  BY DEF Labels
<1>8. Carries(h)' => Carries(h) /\ request'[h] = request[h]
  BY <1>1 DEF Carries
<1>9. RequestTypes' /\ Numbered'
  BY <1>1, <1>3, <1>5, <1>7, <1>8, RequestsKept DEF history
<1>10. InHand'
  <2> SUFFICES ASSUME NEW k \in Handlers, pc'[k] = "filling"
               PROVE  /\ pc[k] = "filling" /\ request'[k] = request[k]
                      /\ order_books_'[request[k].symbol] = order_books_[request[k].symbol]
    BY InHandKept
  <2>1. pc[k] = "filling"
    BY <1>3 DEF ControlTypes
  <2>2. request[k].symbol \in DOMAIN order_books_
    BY <2>1 DEF Created, AtBook
  <2> QED BY <1>1, <1>5, <2>1, <2>2
<1> QED BY <1>4, <1>6, <1>9, <1>10 DEF BookInv

LEMMA OpenTradeLogKeepsBookInv ==
  ASSUME Inv, BookInv, NEW h \in Handlers, OpenTradeLog(h)
  PROVE  BookInv'
<1> USE DEF Inv
<1>1. /\ pc[h] = "creating" /\ order_books_mutex_' = Nobody
      /\ UNCHANGED <<order_books_, matchers_, mutex_, next_order_id_, files, history>>
      /\ request[h].symbol \in Symbols
  BY DEF OpenTradeLog, ControlTypes
<1>2. PICK label \in {"adding", "reading bids", "idle"} :
        /\ pc' = [pc EXCEPT ![h] = label]
        /\ \A k \in Handlers \ {h} : request'[k] = request[k]
        /\ label # "idle" => UNCHANGED request
        /\ label = "adding" => request[h].op = "submit"
  BY DEF OpenTradeLog, Found, Return, Goto, ControlTypes
<1>3. BookTypes'
  <2>1. logged' \subseteq Symbols
    BY <1>1 DEF OpenTradeLog, BookInv, BookTypes
  <2> QED BY <1>1, <2>1 DEF BookInv, BookTypes, history
<1>4. RestOnce' /\ TradeOnce' /\ Accounted'
  BY <1>1, OrdersKept DEF history
<1>5. label \in Labels
  BY DEF Labels
<1>6. Carries(h)' => Carries(h) /\ request'[h] = request[h]
  BY <1>1, <1>2 DEF Carries, ControlTypes
<1>7. RequestTypes' /\ Numbered'
  BY <1>1, <1>2, <1>5, <1>6, RequestsKept DEF history
<1>8. InHand'
  <2>1. \A k \in Handlers : pc'[k] = "filling" => k # h /\ pc[k] = "filling"
    BY <1>2 DEF ControlTypes
  <2> QED BY <1>1, <1>2, <2>1, InHandKept
<1> QED BY <1>3, <1>4, <1>7, <1>8 DEF BookInv

(***************************************************************************)
(* The steps of a handler that only takes or gives back a lock, or reads:   *)
(* it has no order to add, before or after.                                 *)
(***************************************************************************)
LEMMA ReadKeepsBookInv ==
  ASSUME Inv, BookInv, NEW h \in Handlers,
         FindMatcher(h) \/ ReadBids(h) \/ ReadAsks(h) \/ TriggerMatching(h) \/ MatchingDone(h) \/
         LockBooks(h) \/ NotFound(h) \/ \E symbol \in Symbols : SkipBook(h, symbol)
  PROVE  BookInv'
<1> USE DEF Inv
<1>1. UNCHANGED <<books, next_order_id_, files, history>>
  BY DEF FindMatcher, ReadBids, ReadAsks, TriggerMatching, MatchingDone, LockBooks, NotFound, SkipBook,
         books
<1>2. PICK label \in {"idle", "locking", "reading asks", "matching", "searching"} :
        /\ pc' = [pc EXCEPT ![h] = label]
        /\ \A k \in Handlers \ {h} : request'[k] = request[k]
        /\ label = "searching" => /\ pc[h] \in {"waiting", "searching"}
                                  /\ LockBooks(h) \/ \E symbol \in Symbols : SkipBook(h, symbol)
  <2>1. CASE FindMatcher(h) \/ ReadBids(h)
    BY <2>1 DEF FindMatcher, ReadBids, Goto
  <2>2. CASE TriggerMatching(h)
    BY <2>2 DEF TriggerMatching, Goto
  <2>3. CASE ReadAsks(h) \/ MatchingDone(h) \/ NotFound(h)
    <3>1. pc' = [pc EXCEPT ![h] = "idle"] /\ request' = [request EXCEPT ![h] = Idle]
      BY <2>3 DEF ReadAsks, MatchingDone, NotFound, Return, Goto
    <3> QED BY <3>1 DEF ControlTypes
  <2>4. CASE LockBooks(h) \/ \E symbol \in Symbols : SkipBook(h, symbol)
    <3>1. /\ pc[h] \in {"waiting", "searching"} /\ pc' = [pc EXCEPT ![h] = "searching"]
          /\ \A k \in Handlers \ {h} : request'[k] = request[k]
      BY <2>4 DEF LockBooks, SkipBook, Goto, ControlTypes
    <3> QED BY <2>4, <3>1
  <2> QED BY <2>1, <2>2, <2>3, <2>4
<1>3. BookTypes'
  <2>1. order_books_mutex_' \in Handlers \cup {Nobody}
    BY DEF FindMatcher, ReadBids, ReadAsks, TriggerMatching, MatchingDone, LockBooks, NotFound, SkipBook,
           locks, BookInv, BookTypes
  <2>2. mutex_' \in [Symbols -> Handlers \cup {Nobody}]
    BY DEF FindMatcher, ReadBids, ReadAsks, TriggerMatching, MatchingDone, LockBooks, NotFound, SkipBook,
           locks, BookInv, BookTypes
  <2> QED BY <1>1, <2>1, <2>2 DEF BookInv, BookTypes, books, history
<1>4. RestOnce' /\ TradeOnce' /\ Accounted'
  BY <1>1, OrdersKept DEF books, history
<1>5. ~Carries(h)' /\ label \in Labels /\ label # "adding" /\ label # "waiting"
  BY <1>2 DEF Carries, Labels, ControlTypes
<1>6. label = "searching" =>
        /\ request'[h].op \in Operations /\ request'[h] \in SearchRequest
        /\ request'[h].unsearched \subseteq DOMAIN order_books_
  <2> SUFFICES ASSUME label = "searching"
               PROVE  /\ request'[h].op \in Operations /\ request'[h] \in SearchRequest
                      /\ request'[h].unsearched \subseteq DOMAIN order_books_
    OBVIOUS
  <2>1. /\ request[h].op \in Operations /\ request[h] \in SearchRequest
    BY <1>2 DEF BookInv, RequestTypes
  <2>2. PICK U \in SUBSET DOMAIN order_books_ : request' = [request EXCEPT ![h].unsearched = U]
    <3>1. CASE LockBooks(h)
      BY <3>1 DEF LockBooks
    <3>2. CASE \E symbol \in Symbols : SkipBook(h, symbol)
      <4>1. PICK symbol \in Symbols : SkipBook(h, symbol)
        BY <3>2
      <4>2. /\ request' = [request EXCEPT ![h].unsearched = request[h].unsearched \ {symbol}]
            /\ pc[h] = "searching"
        BY <4>1 DEF SkipBook
      <4>3. request[h].unsearched \subseteq DOMAIN order_books_
        BY <4>2 DEF BookInv, RequestTypes
      <4> QED BY <4>2, <4>3
    <3> QED BY <1>2, <3>1, <3>2
  <2>3. request'[h] = [request[h] EXCEPT !.unsearched = U]
    BY <2>2 DEF ControlTypes
  <2>4. U \subseteq Symbols
    BY DEF BookInv, BookTypes
  <2> QED BY <2>1, <2>3, <2>4 DEF SearchRequest
<1>7. RequestTypes' /\ Numbered'
  BY <1>1, <1>2, <1>5, <1>6, RequestsKept DEF books, history
<1>8. InHand'
  <2>1. \A k \in Handlers : pc'[k] = "filling" => k # h /\ pc[k] = "filling"
    BY <1>2 DEF ControlTypes
  <2> QED BY <1>1, <1>2, <2>1, InHandKept DEF books
<1> QED BY <1>3, <1>4, <1>7, <1>8 DEF BookInv

\* A handler takes a pair that can trade in hand.
LEMMA ExecuteTradeKeepsBookInv ==
  ASSUME Inv, BookInv, NEW h \in Handlers, ExecuteTrade(h)
  PROVE  BookInv'
<1> USE DEF Inv
<1> DEFINE symbol == request[h].symbol
           orders == order_books_[symbol]
<1>1. /\ pc[h] = "matching" /\ pc' = [pc EXCEPT ![h] = "filling"]
      /\ UNCHANGED <<books, locks, next_order_id_, files, trades, due, restarts>>
  BY DEF ExecuteTrade, Goto
<1>2. PICK p \in Matches(orders) :
        LET match == TradeOf(orders[p[1]], orders[p[2]])
            trade == [buy_order_id |-> match.buy_order_id, sell_order_id |-> match.sell_order_id,
                      quantity |-> match.quantity, restarts |-> restarts]
        IN  request' = [request EXCEPT ![h] = [op |-> "submit", symbol |-> symbol,
                                               trade |-> trade]]
  BY DEF ExecuteTrade
<1> DEFINE match == TradeOf(orders[p[1]], orders[p[2]])
           trade == [buy_order_id |-> match.buy_order_id, sell_order_id |-> match.sell_order_id,
                     quantity |-> match.quantity, restarts |-> restarts]
<1>3. /\ request'[h].symbol = symbol /\ request'[h].trade = trade
      /\ \A k \in Handlers \ {h} : request'[k] = request[k]
  BY <1>2 DEF ControlTypes
<1>4. IsTradeOf(orders, p[1], p[2], trade)
  <2>1. p[1] \in DOMAIN orders /\ p[2] \in DOMAIN orders /\ p[1] # p[2]
    BY <1>2, MatchPlaces
  <2>2. trade.buy_order_id = orders[p[1]].id /\ trade.sell_order_id = orders[p[2]].id
    BY DEF TradeOf
  <2>3. trade.quantity = TradeOf(orders[p[1]], orders[p[2]]).quantity
    OBVIOUS
  <2> QED BY <2>1, <2>2, <2>3 DEF IsTradeOf
<1> HIDE DEF trade, match
<1>5. pc'[h] = "filling" /\ \A k \in Handlers \ {h} : pc'[k] = pc[k]
  BY <1>1 DEF ControlTypes
<1>6. BookTypes'
  BY <1>1 DEF BookInv, BookTypes, books, locks
<1>7. RestOnce' /\ TradeOnce' /\ Accounted'
  BY <1>1, OrdersKept DEF books
<1>8. RequestTypes' /\ Numbered'
  <2>1. ~Carries(h)' /\ "filling" \in Labels
    BY <1>5 DEF Carries, Labels
  <2> QED BY <1>1, <1>3, <2>1, RequestsKept DEF books
<1>9. InHand'
  <2> SUFFICES ASSUME NEW k \in Handlers, pc'[k] = "filling"
               PROVE  \E i, j \in DOMAIN order_books_[request'[k].symbol] :
                        IsTradeOf(order_books_[request'[k].symbol], i, j, request'[k].trade)
    BY <1>1 DEF InHand, books
  <2>1. CASE k = h
    <3>1. p[1] \in DOMAIN orders /\ p[2] \in DOMAIN orders
      BY <1>2, MatchPlaces
    <3> QED BY <1>3, <1>4, <2>1, <3>1
  <2>2. CASE k # h
    BY <1>3, <1>5, <2>2 DEF BookInv, InHand
  <2> QED BY <2>1, <2>2
<1> QED BY <1>6, <1>7, <1>8, <1>9 DEF BookInv

-----------------------------------------------------------------------------
(* The steps that change a book *)

(***************************************************************************)
(* One book becomes rest, of orders that rested in it or are new: an id     *)
(* still rests once, and no old id rests that did not.                      *)
(***************************************************************************)
LEMMA BookChanges ==
  ASSUME BookInv, NEW symbol \in DOMAIN order_books_, NEW rest \in Seq(Order), IdsOnce(rest),
         order_books_' = [order_books_ EXCEPT ![symbol] = rest],
         DOMAIN due \subseteq DOMAIN due',
         \A order \in ToSet(rest) :
           /\ order.id \in DOMAIN due'
           /\ order.id \in DOMAIN due => Rests(order_books_[symbol], order.id)
  PROVE  /\ RestOnce'
         /\ order_books_' \in [DOMAIN order_books_' -> Seq(Order)]
         /\ DOMAIN order_books_' = DOMAIN order_books_
         /\ order_books_'[symbol] = rest
         /\ \A other \in DOMAIN order_books_ \ {symbol} : order_books_'[other] = order_books_[other]
         /\ \A id \in DOMAIN due : RestsSomewhere(id)' => RestsSomewhere(id)
<1> USE DEF BookInv, BookTypes, RestOnce
<1>1. /\ DOMAIN order_books_' = DOMAIN order_books_ /\ order_books_'[symbol] = rest
      /\ \A other \in DOMAIN order_books_ \ {symbol} : order_books_'[other] = order_books_[other]
  OBVIOUS
<1>2. order_books_' \in [DOMAIN order_books_' -> Seq(Order)]
  BY <1>1
<1>3. \A other \in DOMAIN order_books_ : \A id \in DOMAIN due :
        Rests(order_books_'[other], id) => Rests(order_books_[other], id)
  BY <1>1, RestsMeans
<1>4. \A id \in DOMAIN due : RestsSomewhere(id)' => RestsSomewhere(id)
  BY <1>1, <1>3 DEF RestsSomewhere
<1>5. \A other \in DOMAIN order_books_ \ {symbol} : \A id :
        Rests(order_books_'[other], id) => id \in DOMAIN due
  BY <1>1, RestsMeans
<1>6. \A other \in DOMAIN order_books_' :
        IdsOnce(order_books_'[other]) /\ \A order \in ToSet(order_books_'[other]) : order.id \in DOMAIN due'
  BY <1>1
<1>7. ASSUME NEW s \in DOMAIN order_books_', NEW t \in DOMAIN order_books_', NEW id \in DOMAIN due',
             Rests(order_books_'[s], id), Rests(order_books_'[t], id)
      PROVE  s = t
  <2>1. CASE id \in DOMAIN due
    BY <1>1, <1>3, <1>7, <2>1
  <2>2. CASE id \notin DOMAIN due
    BY <1>1, <1>5, <1>7, <2>2
  <2> QED BY <2>1, <2>2
<1>8. RestOnce'
  BY <1>6, <1>7
<1> QED BY <1>1, <1>2, <1>4, <1>8

\* The trades known so far are of old ids, and what rested no more does not now.
LEMMA TradesKept ==
  ASSUME BookInv, UNCHANGED trades, DOMAIN due \subseteq DOMAIN due',
         \A id \in DOMAIN due : RestsSomewhere(id)' => RestsSomewhere(id)
  PROVE  TradeOnce' /\ \A id : Traded(id)' = Traded(id)
<1>1. TradeOnce'
  BY DEF BookInv, TradeOnce
<1> QED BY <1>1 DEF Traded

LEMMA addOrderKeepsBookInv ==
  ASSUME Inv, BookInv, NEW h \in Handlers, addOrder(h)
  PROVE  BookInv'
<1> USE DEF Inv
<1> DEFINE symbol == request[h].symbol
           orders == order_books_[symbol]
           order == request[h].order
           rest == Append(orders, order)
<1>1. /\ pc[h] = "adding" /\ pc' = [pc EXCEPT ![h] = "accepted"] /\ mutex_[symbol] = Nobody
      /\ order_books_' = [order_books_ EXCEPT ![symbol] = rest]
      /\ due' = [id \in DOMAIN due \cup {order.id} |-> IF id = order.id THEN order.quantity ELSE due[id]]
      /\ UNCHANGED <<logged, matchers_, locks, next_order_id_, request, files, published, trades,
                     restarts>>
  BY DEF addOrder, Goto
<1>2. /\ symbol \in DOMAIN order_books_ /\ Carries(h)
      /\ order \in Order /\ order.id \notin DOMAIN due /\ order.id < next_order_id_
  BY <1>1 DEF BookInv, RequestTypes, Numbered, Carries, Created, AtBook
<1>3. /\ order.id \in Ids /\ order.quantity \in Quantity /\ order.quantity \in Int
  BY <1>2, QuantitiesAreWhole DEF Order
<1>4. orders \in Seq(Order) /\ IdsOnce(orders)
  BY <1>2 DEF BookInv, BookTypes, RestOnce
<1>5. \A s \in DOMAIN order_books_ : ~Rests(order_books_[s], order.id)
  BY <1>2, RestsMeans DEF BookInv, RestOnce
<1>6. rest \in Seq(Order) /\ ToSet(rest) = ToSet(orders) \cup {order} /\ IdsOnce(rest)
  BY <1>2, <1>4, <1>5, AppendLeaves
<1>7. DOMAIN due' = DOMAIN due \cup {order.id}
  BY <1>1
<1>8. due'[order.id] = order.quantity /\ \A id \in DOMAIN due : due'[id] = due[id]
  BY <1>1, <1>2
<1>9. \A o \in ToSet(orders) : o.id \in DOMAIN due /\ Rests(orders, o.id)
  BY <1>2, RestsMeans DEF BookInv, RestOnce
<1> HIDE DEF symbol, orders, order, rest
<1>10. /\ RestOnce'
       /\ order_books_' \in [DOMAIN order_books_' -> Seq(Order)]
       /\ DOMAIN order_books_' = DOMAIN order_books_
       /\ order_books_'[symbol] = rest
       /\ \A other \in DOMAIN order_books_ \ {symbol} : order_books_'[other] = order_books_[other]
       /\ \A id \in DOMAIN due : RestsSomewhere(id)' => RestsSomewhere(id)
  <2>1. \A o \in ToSet(rest) : o.id \in DOMAIN due' /\ (o.id \in DOMAIN due => Rests(orders, o.id))
    BY <1>2, <1>6, <1>7, <1>9
  <2>2. order_books_[symbol] = orders
    BY DEF orders, symbol
  <2> QED BY <1>1, <1>2, <1>6, <1>7, <2>1, <2>2, BookChanges
<1>11. TradeOnce' /\ \A id : Traded(id)' = Traded(id)
  BY <1>1, <1>7, <1>10, TradesKept
<1>12. BookTypes'
  <2>1. due' \in [DOMAIN due' -> Int]
    <3>1. \A id \in DOMAIN due : due[id] \in Int
      BY DEF BookInv, BookTypes
    <3>2. \A id \in DOMAIN due' : due'[id] \in Int
      BY <1>3, <1>7, <1>8, <3>1
    <3> QED BY <1>1, <3>2
  <2>2. DOMAIN due' \subseteq Ids
    BY <1>3, <1>7 DEF BookInv, BookTypes
  <2> QED BY <1>1, <1>10, <2>1, <2>2 DEF BookInv, BookTypes, locks
<1>13. pc'[h] = "accepted" /\ \A k \in Handlers \ {h} : pc'[k] = pc[k]
  BY <1>1 DEF ControlTypes
<1>14. \A k \in Handlers : Carries(k)' => k # h /\ Carries(k)
  BY <1>1, <1>13 DEF Carries
<1>15. RequestTypes'
  BY <1>1, <1>10, <1>13, <1>14 DEF BookInv, RequestTypes
<1>16. Numbered'
  <2>1. \A k \in Handlers : Carries(k)' => request[k].order.id # order.id
    BY <1>2, <1>14 DEF BookInv, Numbered, order
  <2> QED BY <1>1, <1>2, <1>7, <1>14, <2>1 DEF BookInv, Numbered
<1>17. InHand'
  <2>1. \A k \in Handlers : pc[k] = "filling" =>
          request[k].symbol \in DOMAIN order_books_ /\ mutex_[request[k].symbol] = k
    BY DEF Locking, Created, AtBook
  <2>2. \A k \in Handlers : pc[k] = "filling" => request[k].symbol # symbol
    BY <1>1, <2>1, RequestsAssumption DEF symbol
  <2> QED BY <1>1, <1>10, <1>13, <2>1, <2>2, InHandKept
<1>18. Accounted'
  <2>1. \A id : Traded(id) = TradedIn(trades, id)
    BY TradedIs
  <2>2. Traded(order.id) = 0
    BY <1>2, <2>1, TradedOfNone DEF BookInv, TradeOnce
  <2>3. ASSUME NEW id, id = order.id
        PROVE  RestsSomewhere(id)'
    <3>1. Rests(order_books_'[symbol], id)
      BY <1>6, <1>10, <2>3, RestsMeans
    <3> QED BY <1>2, <1>10, <3>1 DEF RestsSomewhere
  <2>4. \A id \in DOMAIN due : RestsSomewhere(id) => RestsSomewhere(id)'
    <3>1. \A s \in DOMAIN order_books_ : \A id : Rests(order_books_[s], id) => Rests(order_books_'[s], id)
      <4>1. ToSet(orders) \subseteq ToSet(rest) /\ order_books_[symbol] = orders
        BY <1>6 DEF orders, symbol
      <4> QED BY <1>10, <4>1, RestsMeans
    <3> QED BY <1>10, <3>1 DEF RestsSomewhere
  <2>5. \A s \in DOMAIN order_books_ : \A o \in ToSet(order_books_'[s]) :
          o = order \/ (o.id \in DOMAIN due /\ o \in ToSet(order_books_[s]))
    <3> SUFFICES ASSUME NEW s \in DOMAIN order_books_, NEW o \in ToSet(order_books_'[s]), o # order
                 PROVE  o.id \in DOMAIN due /\ o \in ToSet(order_books_[s])
      OBVIOUS
    <3>1. order_books_[symbol] = orders
      BY DEF orders, symbol
    <3>2. CASE s = symbol
      BY <1>6, <1>9, <1>10, <3>1, <3>2
    <3>3. CASE s # symbol
      BY <1>10, <3>3 DEF BookInv, RestOnce
    <3> QED BY <3>2, <3>3
  <2>6. order.quantity = ToQuantity(order.quantity - 0)
    <3>1. order.quantity - 0 = order.quantity
      BY <1>3
    <3> QED BY <1>3, <3>1, QuantityWraps
  <2> SUFFICES ASSUME NEW id \in DOMAIN due'
               PROVE  /\ \A s \in DOMAIN order_books_ : \A o \in ToSet(order_books_'[s]) :
                           o.id = id => o.quantity = ToQuantity(due'[id] - Traded(id))
                      /\ ~RestsSomewhere(id)' => ToQuantity(due'[id] - Traded(id)) = 0
    BY <1>10, <1>11 DEF Accounted
  <2>7. CASE id = order.id
    <3>1. RestsSomewhere(id)'
      BY <2>3, <2>7
    <3>2. Traded(id) = 0
      BY <2>2, <2>7
    <3> QED BY <1>2, <1>8, <2>5, <2>6, <2>7, <3>1, <3>2
  <2>8. CASE id \in DOMAIN due
    BY <1>2, <1>8, <2>4, <2>5, <2>8 DEF BookInv, Accounted
  <2> QED BY <1>7, <2>7, <2>8
<1> QED BY <1>10, <1>11, <1>12, <1>15, <1>16, <1>17, <1>18 DEF BookInv

(***************************************************************************)
(* A cancelled order is to trade no more than it has; a modified one, that  *)
(* and its new quantity.                                                    *)
(***************************************************************************)
LEMMA ChangeOrderKeepsBookInv ==
  ASSUME Inv, BookInv, NEW h \in Handlers, NEW symbol \in Symbols, ChangeOrder(h, symbol)
  PROVE  BookInv'
<1> USE DEF Inv
<1> DEFINE req == request[h]
           orders == order_books_[symbol]
           id == req.id
           rest == IF req.op = "cancel" THEN Without(orders, id) ELSE Requeued(orders, id, req)
           quantity == IF req.op = "cancel" THEN 0 ELSE req.quantity
<1>1. /\ pc[h] = "searching" /\ pc' = [pc EXCEPT ![h] = "idle"] /\ mutex_[symbol] = Nobody
      /\ symbol \in req.unsearched /\ Rests(orders, id)
      /\ order_books_' = [order_books_ EXCEPT ![symbol] = rest]
      /\ due' = [due EXCEPT ![id] = Traded(id) + quantity]
      /\ request' = [request EXCEPT ![h] = Idle]
      /\ order_books_mutex_' = Nobody
      /\ UNCHANGED <<logged, matchers_, mutex_, next_order_id_, files, published, trades, restarts>>
  BY DEF ChangeOrder, Return, Goto
<1>2. /\ symbol \in DOMAIN order_books_ /\ req \in SearchRequest
  BY <1>1 DEF BookInv, RequestTypes
<1>3. quantity \in Quantity /\ quantity \in Int /\ (req.op # "cancel" => req.price \in Prices)
  BY <1>2, RequestsAssumption, QuantitiesAreWhole DEF SearchRequest
<1>4. orders \in Seq(Order) /\ IdsOnce(orders)
  BY <1>2 DEF BookInv, BookTypes, RestOnce
<1>5. /\ Without(orders, id) \in Seq(Order) /\ IdsOnce(Without(orders, id))
      /\ ToSet(Without(orders, id)) = {order \in ToSet(orders) : order.id # id}
  BY <1>4, WithoutLeaves
<1>6. /\ rest \in Seq(Order) /\ IdsOnce(rest)
      /\ \A order \in ToSet(orders) : order.id # id => order \in ToSet(rest)
      /\ \A order \in ToSet(rest) : \/ order.id # id /\ order \in ToSet(orders)
                                    \/ order.id = id /\ req.op # "cancel" /\ order.quantity = quantity
      /\ req.op # "cancel" => \E order \in ToSet(rest) : order.id = id
  <2>1. CASE req.op = "cancel"
    BY <1>5, <2>1
  <2>2. CASE req.op # "cancel"
    <3> DEFINE old == OrderWith(orders, id)
               new == [old EXCEPT !.quantity = req.quantity, !.price = req.price]
    <3>1. old \in Order /\ old.id = id
      <4>1. Place(orders, id) \in DOMAIN orders /\ orders[Place(orders, id)].id = id
        BY <1>1, <1>4, PlaceIs
      <4>2. old = orders[Place(orders, id)]
        BY DEF OrderWith, Place
      <4>3. DOMAIN orders = 1..Len(orders)
        BY <1>4, LenProperties
      <4>4. orders[Place(orders, id)] \in Order
        BY <1>4, <4>1, <4>3, ElementOfSeq
      <4> QED BY <4>1, <4>2, <4>4
    <3>2. rest = Append(Without(orders, id), new)
      BY <2>2 DEF Requeued
    <3>3. req.quantity = quantity
      BY <2>2
    <3> HIDE DEF old, rest, orders, req, quantity, id
    <3>4. new \in Order /\ new.id = id /\ new.quantity = quantity
      BY <1>3, <2>2, <3>1, <3>3 DEF Order
    <3> HIDE DEF new
    <3>5. ~Rests(Without(orders, id), new.id)
      BY <1>5, <3>4, RestsMeans
    <3>6. /\ rest \in Seq(Order) /\ IdsOnce(rest)
          /\ ToSet(rest) = ToSet(Without(orders, id)) \cup {new}
      BY <1>5, <3>2, <3>4, <3>5, AppendLeaves
    <3> QED BY <1>5, <2>2, <3>4, <3>6
  <2> QED BY <2>1, <2>2
<1>7. \A order \in ToSet(orders) : order.id \in DOMAIN due /\ Rests(orders, order.id)
  BY <1>2, RestsMeans DEF BookInv, RestOnce
<1>8. id \in DOMAIN due
  BY <1>1, <1>7, RestsMeans
<1>9. DOMAIN due' = DOMAIN due /\ due'[id] = Traded(id) + quantity
      /\ \A other \in DOMAIN due \ {id} : due'[other] = due[other]
  BY <1>1, <1>8
<1>10. order_books_[symbol] = orders
  OBVIOUS
<1> HIDE DEF orders, rest, quantity, id
<1>11. /\ RestOnce'
       /\ order_books_' \in [DOMAIN order_books_' -> Seq(Order)]
       /\ DOMAIN order_books_' = DOMAIN order_books_
       /\ order_books_'[symbol] = rest
       /\ \A other \in DOMAIN order_books_ \ {symbol} : order_books_'[other] = order_books_[other]
       /\ \A i \in DOMAIN due : RestsSomewhere(i)' => RestsSomewhere(i)
  <2>1. \A order \in ToSet(rest) : order.id \in DOMAIN due' /\ Rests(orders, order.id)
    BY <1>1, <1>6, <1>7, <1>8, <1>9
  <2> QED BY <1>1, <1>2, <1>6, <1>9, <1>10, <2>1, BookChanges
<1>12. TradeOnce' /\ \A i : Traded(i)' = Traded(i)
  BY <1>1, <1>9, <1>11, TradesKept
<1>13. \A i : Traded(i) \in Int
  BY TradedIs, TradedIsWhole DEF BookInv, TradeOnce
<1>14. BookTypes'
  <2>1. due' \in [DOMAIN due' -> Int]
    <3>1. \A i \in DOMAIN due : due[i] \in Int
      BY DEF BookInv, BookTypes
    <3>2. \A i \in DOMAIN due' : due'[i] \in Int
      BY <1>3, <1>9, <1>13, <3>1
    <3>3. due' = [i \in DOMAIN due' |-> due'[i]]
      BY <1>1 DEF BookInv, BookTypes
    <3> QED BY <3>2, <3>3
  <2> QED BY <1>1, <1>9, <1>11, <2>1 DEF BookInv, BookTypes
<1>15. /\ pc'[h] = "idle"
       /\ \A k \in Handlers \ {h} : pc'[k] = pc[k] /\ request'[k] = request[k]
  BY <1>1 DEF ControlTypes
<1>16. \A k \in Handlers : Carries(k)' => k # h /\ Carries(k) /\ request'[k] = request[k]
  BY <1>1, <1>15 DEF Carries
<1>17. RequestTypes'
  <2> SUFFICES ASSUME NEW k \in Handlers
               PROVE  /\ pc'[k] = "adding" => request'[k].op = "submit"
                      /\ Carries(k)' => request'[k].order \in Order
                      /\ pc'[k] \in {"waiting", "searching"} =>
                           /\ request'[k].op \in Operations /\ request'[k] \in SearchRequest
                      /\ pc'[k] = "searching" => request'[k].unsearched \subseteq DOMAIN order_books_'
    BY DEF RequestTypes
  <2>1. CASE k = h
    BY <1>15, <1>16, <2>1
  <2>2. CASE k # h
    BY <1>11, <1>15, <1>16, <2>2 DEF BookInv, RequestTypes
  <2> QED BY <2>1, <2>2
<1>18. Numbered'
  BY <1>1, <1>9, <1>16 DEF BookInv, Numbered
<1>19. InHand'
  <2>1. \A k \in Handlers : pc[k] = "filling" =>
          request[k].symbol \in DOMAIN order_books_ /\ mutex_[request[k].symbol] = k
    BY DEF Locking, Created, AtBook
  <2>2. \A k \in Handlers : pc[k] = "filling" => request[k].symbol # symbol
    BY <1>1, <2>1, RequestsAssumption
  <2> QED BY <1>1, <1>11, <1>15, <2>1, <2>2, InHandKept
<1>20. Accounted'
  <2> SUFFICES ASSUME NEW i \in DOMAIN due
               PROVE  /\ \A s \in DOMAIN order_books_ : \A o \in ToSet(order_books_'[s]) :
                           o.id = i => o.quantity = ToQuantity(due'[i] - Traded(i))
                      /\ ~RestsSomewhere(i)' => ToQuantity(due'[i] - Traded(i)) = 0
    BY <1>9, <1>11, <1>12 DEF Accounted
  <2>1. CASE i = id
    <3>1. \A s \in DOMAIN order_books_ \ {symbol} : ~Rests(order_books_[s], id)
      BY <1>1, <1>2, <1>8, <1>10 DEF BookInv, RestOnce
    <3>2. \A s \in DOMAIN order_books_ : \A o \in ToSet(order_books_'[s]) : o.id = i =>
            s = symbol /\ o \in ToSet(rest)
      BY <1>11, <2>1, <3>1, RestsMeans
    <3>3. ~RestsSomewhere(i)' => quantity = 0
      <4>1. CASE req.op = "cancel"
        BY <4>1 DEF quantity
      <4>2. CASE req.op # "cancel"
        <5>1. Rests(order_books_'[symbol], i)
          BY <1>6, <1>11, <2>1, <4>2, RestsMeans
        <5> QED BY <1>2, <1>11, <5>1 DEF RestsSomewhere
      <4> QED BY <4>1, <4>2
    <3>4. ToQuantity(due'[i] - Traded(i)) = quantity
      <4>1. due'[i] - Traded(i) = quantity
        BY <1>3, <1>9, <1>13, <2>1
      <4> QED BY <1>3, <4>1, QuantityWraps
    <3> QED BY <1>6, <2>1, <3>2, <3>3, <3>4
  <2>2. CASE i # id
    <3>1. \A s \in DOMAIN order_books_ : \A o \in ToSet(order_books_'[s]) :
            o.id = i => o \in ToSet(order_books_[s])
      BY <1>6, <1>10, <1>11, <2>2
    <3>2. \A s \in DOMAIN order_books_ : Rests(order_books_[s], i) => Rests(order_books_'[s], i)
      BY <1>6, <1>10, <1>11, <2>2, RestsMeans
    <3>3. RestsSomewhere(i) => RestsSomewhere(i)'
      BY <1>11, <3>2 DEF RestsSomewhere
    <3> QED BY <1>9, <2>2, <3>1, <3>3 DEF BookInv, Accounted
  <2> QED BY <2>1, <2>2
<1> QED BY <1>11, <1>12, <1>14, <1>17, <1>18, <1>19, <1>20 DEF BookInv

(***************************************************************************)
(* A trade is logged once, and takes its quantity off its two orders.       *)
(***************************************************************************)
LEMMA FillOrdersKeepsBookInv ==
  ASSUME Inv, BookInv, NEW h \in Handlers, FillOrders(h)
  PROVE  BookInv'
<1> USE DEF Inv
<1> DEFINE symbol == request[h].symbol
           trade == request[h].trade
           orders == order_books_[symbol]
           rest == AfterTrade(orders, trade)
           buy == trade.buy_order_id
           sell == trade.sell_order_id
           q == trade.quantity
<1>1. /\ pc[h] = "filling" /\ pc' = [pc EXCEPT ![h] = "matching"]
      /\ order_books_' = [order_books_ EXCEPT ![symbol] = rest]
      /\ trades' = trades \cup {trade}
      /\ UNCHANGED <<logged, matchers_, locks, next_order_id_, request, published, due, restarts>>
  BY DEF FillOrders, Goto
<1>2. symbol \in DOMAIN order_books_
  BY <1>1 DEF Created, AtBook
<1>3. orders \in Seq(Order) /\ IdsOnce(orders)
  BY <1>2 DEF BookInv, BookTypes, RestOnce
<1>4. PICK i \in DOMAIN orders, j \in DOMAIN orders : IsTradeOf(orders, i, j, trade)
  BY <1>1 DEF BookInv, InHand
<1>5. i # j /\ buy = orders[i].id /\ sell = orders[j].id
  BY <1>4 DEF IsTradeOf
<1>6. /\ rest \in Seq(Order) /\ IdsOnce(rest)
      /\ \A order \in ToSet(rest) : \E k \in DOMAIN orders :
              /\ order.id = orders[k].id
              /\ order.quantity = ToQuantity(orders[k].quantity - Share(k, i, j, trade))
      /\ \A k \in DOMAIN orders :
              \/ Rests(rest, orders[k].id)
              \/ k \in {i, j} /\ ToQuantity(orders[k].quantity - Share(k, i, j, trade)) = 0
      /\ ~(Rests(rest, buy) /\ Rests(rest, sell))
      /\ q \in Int
  <2>1. orders \in Seq(RestingOrder(Ids, Prices))
    BY <1>3, OrderIs
  <2>2. q \in Int
    BY <1>3, <1>4, <2>1, ReduceLeaves, QuantitiesAreWhole
  <2> HIDE DEF orders, trade
  <2> QED BY <1>3, <1>4, <2>1, <2>2, OrderIs, TradeLeaves
<1>7. \A k \in DOMAIN orders : orders[k] \in ToSet(orders) /\ Rests(orders, orders[k].id)
  BY DEF ToSet, Rests
<1>8. \A k \in DOMAIN orders : orders[k].id \in DOMAIN due
  BY <1>2, <1>7 DEF BookInv, RestOnce
<1>9. \A s \in DOMAIN order_books_ : \A k \in DOMAIN orders :
        Rests(order_books_[s], orders[k].id) => s = symbol
  BY <1>2, <1>7, <1>8 DEF BookInv, RestOnce
<1>10. \A k \in DOMAIN orders : orders[k].id \in {buy, sell} <=> k \in {i, j}
  BY <1>3, <1>5 DEF IdsOnce
<1>11. order_books_[symbol] = orders
  OBVIOUS
<1>12. request[h].symbol = symbol
  OBVIOUS
<1> HIDE DEF symbol, trade, orders, rest, buy, sell, q
<1>13. /\ RestOnce'
       /\ order_books_' \in [DOMAIN order_books_' -> Seq(Order)]
       /\ DOMAIN order_books_' = DOMAIN order_books_
       /\ order_books_'[symbol] = rest
       /\ \A other \in DOMAIN order_books_ \ {symbol} : order_books_'[other] = order_books_[other]
       /\ \A id \in DOMAIN due : RestsSomewhere(id)' => RestsSomewhere(id)
  <2>1. \A order \in ToSet(rest) : order.id \in DOMAIN due' /\ Rests(orders, order.id)
    BY <1>1, <1>6, <1>7, <1>8
  <2> QED BY <1>1, <1>2, <1>6, <1>11, <2>1, BookChanges
<1>14. buy \in DOMAIN due /\ sell \in DOMAIN due /\ RestsSomewhere(buy) /\ RestsSomewhere(sell)
  BY <1>2, <1>4, <1>5, <1>7, <1>8, <1>11 DEF RestsSomewhere
<1>15. trade \notin trades
  BY <1>14 DEF BookInv, TradeOnce, buy, sell
<1>16. \A id \in {buy, sell} : RestsSomewhere(id)' => Rests(rest, id)
  BY <1>4, <1>5, <1>9, <1>13 DEF RestsSomewhere
<1>17. TradeOnce'
  <2>1. IsFiniteSet(trades')
    BY <1>1, FS_AddElement DEF BookInv, TradeOnce
  <2>2. \A id \in {buy, sell} : RestsSomewhere(id)' => Rests(rest, id)
    BY <1>16
  <2>3. ASSUME NEW t \in trades'
        PROVE  /\ t.quantity \in Int
               /\ t.buy_order_id \in DOMAIN due' /\ t.sell_order_id \in DOMAIN due'
               /\ ~(RestsSomewhere(t.buy_order_id)' /\ RestsSomewhere(t.sell_order_id)')
    <3>1. CASE t = trade
      <4>1. t.quantity = q /\ t.buy_order_id = buy /\ t.sell_order_id = sell
        BY <3>1 DEF q, buy, sell
      <4> QED BY <1>1, <1>6, <1>14, <2>2, <4>1
    <3>2. CASE t \in trades
      BY <1>1, <1>13, <3>2 DEF BookInv, TradeOnce
    <3> QED BY <1>1, <3>1, <3>2
  <2> QED BY <2>1, <2>3 DEF TradeOnce
<1>18. ASSUME NEW id
       PROVE  Traded(id)' = Traded(id) + IF id \in {buy, sell} THEN q ELSE 0
  <2>1. Traded(id) = TradedIn(trades, id) /\ Traded(id)' = TradedIn(trades', id)
    BY DEF Traded, TradedIn
  <2>2. IsFiniteSet(trades) /\ \A t \in trades : t.quantity \in Int
    BY DEF BookInv, TradeOnce
  <2>3. TradedIn(trades \cup {trade}, id) = TradedIn(trades, id) + IF id \in {buy, sell} THEN q ELSE 0
    <3>1. trade.quantity \in Int
      BY <1>6 DEF q
    <3> QED BY <1>15, <2>2, <3>1, TradedOfOneMore DEF buy, sell, q
  <2> QED BY <1>1, <2>1, <2>3
<1>19. \A id : Traded(id) \in Int
  BY TradedIs, TradedIsWhole DEF BookInv, TradeOnce
<1>20. BookTypes'
  BY <1>1, <1>13 DEF BookInv, BookTypes, locks
<1>21. /\ pc'[h] = "matching" /\ \A k \in Handlers \ {h} : pc'[k] = pc[k]
  BY <1>1 DEF ControlTypes
<1>22. RequestTypes' /\ Numbered'
  <2>1. ~Carries(h)' /\ "matching" \in Labels
    BY <1>21 DEF Carries, Labels
  <2> QED BY <1>1, <1>13, <2>1, RequestsKept
<1>23. InHand'
  <2>1. \A k \in Handlers : pc[k] = "filling" =>
          request[k].symbol \in DOMAIN order_books_ /\ mutex_[request[k].symbol] = k
    BY DEF Locking, Created, AtBook
  <2>2. \A k \in Handlers \ {h} : pc[k] = "filling" => request[k].symbol # symbol
    BY <1>1, <1>12, <2>1
  <2>3. \A k \in Handlers : pc'[k] = "filling" => k # h /\ pc[k] = "filling" /\ request'[k] = request[k]
    BY <1>1, <1>21
  <2> QED BY <1>13, <2>1, <2>2, <2>3, InHandKept
<1>24. Accounted'
  <2> SUFFICES ASSUME NEW id \in DOMAIN due
               PROVE  /\ \A s \in DOMAIN order_books_ : \A o \in ToSet(order_books_'[s]) :
                           o.id = id => o.quantity = ToQuantity(due[id] - Traded(id)')
                      /\ ~RestsSomewhere(id)' => ToQuantity(due[id] - Traded(id)') = 0
    BY <1>1, <1>13 DEF Accounted
  <2>1. due[id] \in Int /\ Traded(id) \in Int /\ q \in Int
    BY <1>6, <1>19 DEF BookInv, BookTypes
  <2>2. Traded(id)' = Traded(id) + IF id \in {buy, sell} THEN q ELSE 0
    BY <1>18
  <2>3. ASSUME NEW k \in DOMAIN orders, orders[k].id = id
        PROVE  ToQuantity(orders[k].quantity - Share(k, i, j, trade)) = ToQuantity(due[id] - Traded(id)')
    <3> DEFINE share == IF id \in {buy, sell} THEN q ELSE 0
               x == due[id] - Traded(id)
    <3>1. orders[k].quantity = ToQuantity(x)
      BY <1>2, <1>7, <1>11, <2>3 DEF BookInv, Accounted
    <3>2. Share(k, i, j, trade) = share
      BY <1>10, <2>3 DEF Share, q
    <3>3. x \in Int /\ share \in Int /\ Traded(id)' = Traded(id) + share
      BY <2>1, <2>2
    <3>4. x + (-share) = due[id] - Traded(id)'
      <4> HIDE DEF share
      <4> QED BY <2>1, <3>3
    <3> HIDE DEF x, share
    <3>5. -share \in Int
      BY <3>3
    <3>6. ToQuantity(ToQuantity(x) + (-share)) = ToQuantity(x + (-share)) /\ ToQuantity(x) \in Quantity
      BY <3>3, <3>5, QuantityWraps
    <3>7. ToQuantity(x) - share = ToQuantity(x) + (-share)
      BY <3>3, <3>6, QuantitiesAreWhole
    <3> QED BY <3>1, <3>2, <3>4, <3>6, <3>7
  <2>4. ASSUME id \notin {buy, sell}
        PROVE  Traded(id)' = Traded(id)
    BY <2>1, <2>2, <2>4
  <2>5. ASSUME NEW s \in DOMAIN order_books_, NEW o \in ToSet(order_books_'[s]), o.id = id
        PROVE  o.quantity = ToQuantity(due[id] - Traded(id)')
    <3>1. CASE s = symbol
      <4>1. PICK k \in DOMAIN orders :
              o.id = orders[k].id /\ o.quantity = ToQuantity(orders[k].quantity - Share(k, i, j, trade))
        BY <1>6, <1>13, <2>5, <3>1
      <4> QED BY <2>3, <2>5, <4>1
    <3>2. CASE s # symbol
      <4>1. o \in ToSet(order_books_[s])
        BY <1>13, <3>2
      <4>2. id \notin {buy, sell}
        BY <1>4, <1>5, <1>9, <2>5, <3>2, <4>1, RestsMeans
      <4>3. o.quantity = ToQuantity(due[id] - Traded(id))
        BY <2>5, <4>1 DEF BookInv, Accounted
      <4> QED BY <2>4, <4>2, <4>3
    <3> QED BY <3>1, <3>2
  <2>6. ASSUME ~RestsSomewhere(id)'
        PROVE  ToQuantity(due[id] - Traded(id)') = 0
    <3>1. CASE ~RestsSomewhere(id)
      <4>1. id \notin {buy, sell}
        BY <1>14, <3>1
      <4>2. ToQuantity(due[id] - Traded(id)) = 0
        BY <3>1 DEF BookInv, Accounted
      <4> QED BY <2>4, <4>1, <4>2
    <3>2. CASE RestsSomewhere(id)
      <4>1. PICK s \in DOMAIN order_books_ : Rests(order_books_[s], id)
        BY <3>2 DEF RestsSomewhere
      <4>2. ~Rests(order_books_'[s], id)
        BY <1>13, <2>6 DEF RestsSomewhere
      <4>3. s = symbol
        BY <1>13, <4>1, <4>2
      <4>4. PICK k \in DOMAIN orders : orders[k].id = id
        BY <1>11, <4>1, <4>3 DEF Rests
      <4>5. ToQuantity(orders[k].quantity - Share(k, i, j, trade)) = 0
        BY <1>6, <1>13, <4>2, <4>3, <4>4
      <4> QED BY <2>3, <4>4, <4>5
    <3> QED BY <3>1, <3>2
  <2> QED BY <2>5, <2>6
<1> QED BY <1>13, <1>17, <1>20, <1>22, <1>23, <1>24 DEF BookInv

\* A new life: no order is left.
LEMMA RestartKeepsBookInv ==
  ASSUME BookInv, Restart
  PROVE  BookInv'
<1>1. /\ DOMAIN order_books_' = {} /\ DOMAIN due' = {} /\ trades' = {}
      /\ \A h \in Handlers : pc'[h] = "idle"
  BY DEF Restart
<1>2. IsFiniteSet({})
  BY FS_EmptySet
<1>3. BookTypes'
  <2>1. order_books_' \in [DOMAIN order_books_' -> Seq(Order)] /\ due' \in [DOMAIN due' -> Int]
    BY <1>1 DEF Restart
  <2>2. next_order_id_' \in 1..(MaxOrders + 1) /\ restarts' \in 0..MaxRestarts
    BY BoundsAssumption DEF Restart, BookInv, BookTypes
  <2> QED BY <1>1, <1>2, <2>1, <2>2 DEF Restart, BookTypes
<1>4. RequestTypes' /\ Numbered' /\ InHand'
  BY <1>1 DEF RequestTypes, Numbered, Carries, InHand
<1>5. RestOnce' /\ TradeOnce' /\ Accounted'
  BY <1>1, <1>2 DEF RestOnce, TradeOnce, Accounted
<1> QED BY <1>3, <1>4, <1>5 DEF BookInv

LEMMA NextKeepsBookInv == Inv /\ BookInv /\ [Next]_vars => BookInv'
<1> SUFFICES ASSUME Inv, BookInv, [Next]_vars
             PROVE  BookInv'
  OBVIOUS
<1>1. CASE Restart
  BY <1>1, RestartKeepsBookInv
<1>2. ASSUME NEW h \in Handlers, Call(h) \/ Step(h)
      PROVE  BookInv'
  <2>1. CASE \E symbol \in Symbols : ChangeOrder(h, symbol)
    BY <2>1, ChangeOrderKeepsBookInv
  <2>2. CASE ~\E symbol \in Symbols : ChangeOrder(h, symbol)
    BY <1>2, <2>2, CallKeepsBookInv, getOrderBookKeepsBookInv, OpenTradeLogKeepsBookInv,
       ReadKeepsBookInv, ExecuteTradeKeepsBookInv, addOrderKeepsBookInv, FillOrdersKeepsBookInv DEF Step
  <2> QED BY <2>1, <2>2
<1>3. CASE UNCHANGED vars
  <2>1. UNCHANGED <<books, locks, next_order_id_, pc, request, trades, due, restarts>>
    BY <1>3 DEF vars, history
  <2>2. BookTypes'
    BY <2>1 DEF BookInv, BookTypes, books, locks
  <2>3. \A h \in Handlers : Carries(h)' <=> Carries(h)
    BY <2>1 DEF Carries
  <2>4. RequestTypes' /\ Numbered'
    BY <2>1, <2>3 DEF BookInv, RequestTypes, Numbered, books
  <2>5. RestOnce' /\ TradeOnce' /\ Accounted'
    BY <2>1, OrdersKept DEF books
  <2>6. InHand'
    BY <2>1 DEF BookInv, InHand, books
  <2> QED BY <2>2, <2>4, <2>5, <2>6 DEF BookInv
<1> QED BY <1>1, <1>2, <1>3 DEF Next

LEMMA AlwaysBookInv == Spec => []BookInv
  BY InitBookInv, AlwaysInv, NextKeepsBookInv, PTL DEF Spec

-----------------------------------------------------------------------------
(* The properties *)

LEMMA QuantityOnce ==
  ASSUME NEW orders \in Seq(Order), IdsOnce(orders), NEW order \in ToSet(orders)
  PROVE  QuantityIn(orders, order.id) = order.quantity
<1> DEFINE id == order.id
           f == [i \in DOMAIN orders |-> IF orders[i].id = id THEN orders[i].quantity ELSE 0]
<1>1. DOMAIN orders = 1..Len(orders) /\ Len(orders) \in Nat
  BY LenProperties
<1>2. PICK k \in DOMAIN orders : order = orders[k]
  BY DEF ToSet
<1>3. order.quantity \in Int
  <2>1. order \in Order
    BY <1>1, <1>2, ElementOfSeq
  <2> QED BY <2>1, QuantitiesAreWhole DEF Order
<1>4. IsFiniteSet(DOMAIN orders)
  BY <1>1, FS_Interval
<1>5. f[k] = order.quantity /\ \A i \in DOMAIN orders \ {k} : f[i] = 0
  BY <1>2 DEF IdsOnce
<1>6. DOMAIN f = DOMAIN orders
  OBVIOUS
<1>7. QuantityIn(orders, id) = SumFunctionOnSet(f, DOMAIN f)
  BY DEF QuantityIn, SumFunction
<1> HIDE DEF f
<1> QED BY <1>3, <1>4, <1>5, <1>6, <1>7, SumOfOne

LEMMA QuantityNone ==
  ASSUME NEW orders \in Seq(Order), NEW id, ~Rests(orders, id)
  PROVE  QuantityIn(orders, id) = 0
<1> DEFINE f == [i \in DOMAIN orders |-> IF orders[i].id = id THEN orders[i].quantity ELSE 0]
<1>1. DOMAIN orders = 1..Len(orders) /\ Len(orders) \in Nat
  BY LenProperties
<1>2. IsFiniteSet(DOMAIN orders)
  BY <1>1, FS_Interval
<1>3. DOMAIN f = DOMAIN orders /\ \A i \in DOMAIN orders : f[i] = 0
  BY DEF Rests
<1>4. QuantityIn(orders, id) = SumFunctionOnSet(f, DOMAIN f)
  BY DEF QuantityIn, SumFunction
<1> HIDE DEF f
<1> QED BY <1>2, <1>3, <1>4, SumOfZeros

LEMMA RestingQuantityIs ==
  ASSUME BookInv, NEW id \in DOMAIN due
  PROVE  /\ \A symbol \in DOMAIN order_books_ : \A order \in ToSet(order_books_[symbol]) :
              order.id = id => RestingQuantity(id) = order.quantity
         /\ ~RestsSomewhere(id) => RestingQuantity(id) = 0
<1> DEFINE f == [symbol \in DOMAIN order_books_ |-> QuantityIn(order_books_[symbol], id)]
<1>1. /\ DOMAIN f = DOMAIN order_books_
      /\ \A symbol \in DOMAIN order_books_ : f[symbol] = QuantityIn(order_books_[symbol], id)
  OBVIOUS
<1>2. RestingQuantity(id) = SumFunctionOnSet(f, DOMAIN f)
  BY DEF RestingQuantity, SumFunction
<1> HIDE DEF f
<1>3. /\ IsFiniteSet(DOMAIN order_books_)
      /\ \A symbol \in DOMAIN order_books_ :
           order_books_[symbol] \in Seq(Order) /\ IdsOnce(order_books_[symbol])
  BY DEF BookInv, BookTypes, RestOnce
<1>4. ASSUME NEW symbol \in DOMAIN order_books_, NEW order \in ToSet(order_books_[symbol]),
             order.id = id
      PROVE  RestingQuantity(id) = order.quantity
  <2>1. Rests(order_books_[symbol], id)
    BY <1>4, RestsMeans
  <2>2. \A other \in DOMAIN order_books_ \ {symbol} : ~Rests(order_books_[other], id)
    BY <2>1 DEF BookInv, RestOnce
  <2>3. f[symbol] = order.quantity
    BY <1>1, <1>3, <1>4, QuantityOnce
  <2>4. \A other \in DOMAIN order_books_ \ {symbol} : f[other] = 0
    BY <1>1, <1>3, <2>2, QuantityNone
  <2>5. order.quantity \in Int
    <3>1. order \in Order
      <4>1. PICK k \in DOMAIN order_books_[symbol] : order = order_books_[symbol][k]
        BY DEF ToSet
      <4> QED BY <1>3, <4>1, ElementOfSeq, LenProperties
    <3> QED BY <3>1, QuantitiesAreWhole DEF Order
  <2> QED BY <1>1, <1>2, <1>3, <2>3, <2>4, <2>5, SumOfOne
<1>5. ASSUME ~RestsSomewhere(id)
      PROVE  RestingQuantity(id) = 0
  <2>1. \A symbol \in DOMAIN order_books_ : f[symbol] = 0
    BY <1>1, <1>3, <1>5, QuantityNone DEF RestsSomewhere
  <2> QED BY <1>1, <1>2, <1>3, <2>1, SumOfZeros
<1> QED BY <1>4, <1>5

(***************************************************************************)
(* Every variable keeps its type, with whatever quantities orders are       *)
(* modified to.                                                             *)
(***************************************************************************)
THEOREM TypeCorrect == Spec => []TypeOK
<1>1. Inv /\ BookInv => TypeOK
  BY DEF Inv, ControlTypes, BookInv, BookTypes, TypeOK
<1> QED BY <1>1, AlwaysInv, AlwaysBookInv, PTL

(***************************************************************************)
(* However submissions, cancellations, modifications and matching           *)
(* interleave, an accepted order rests for exactly what it is due and has   *)
(* not traded, in a quantity's width.                                       *)
(***************************************************************************)
THEOREM OrdersConserved == Spec => []Conservation
<1>1. BookInv => Conservation
  <2> SUFFICES ASSUME BookInv, NEW id \in DOMAIN due
               PROVE  RestingQuantity(id) = ToQuantity(due[id] - Traded(id))
    BY DEF Conservation
  <2>1. CASE RestsSomewhere(id)
    <3>1. PICK symbol \in DOMAIN order_books_ : Rests(order_books_[symbol], id)
      BY <2>1 DEF RestsSomewhere
    <3>2. PICK order \in ToSet(order_books_[symbol]) : order.id = id
      BY <3>1, RestsMeans
    <3> QED BY <3>1, <3>2, RestingQuantityIs DEF BookInv, Accounted
  <2>2. CASE ~RestsSomewhere(id)
    BY <2>2, RestingQuantityIs DEF BookInv, Accounted
  <2> QED BY <2>1, <2>2
<1> QED BY <1>1, AlwaysBookInv, PTL

-----------------------------------------------------------------------------
(* Compatible orders match, as long as none is modified *)

MatchingLabels == {"accepted", "locking", "matching", "filling"}

\* A step that leaves no book with new pairs, and no handler out of matching.
LEMMA CompatibleKept ==
  ASSUME Inv, CompatibleOrdersMatch, NEW h \in Handlers,
         \A symbol \in DOMAIN order_books_' : Matches(order_books_'[symbol]) # {} =>
           \/ symbol \in DOMAIN order_books_ /\ Matches(order_books_[symbol]) # {}
           \/ pc'[h] \in MatchingLabels /\ request'[h].symbol = symbol,
         \A k \in Handlers \ {h} : pc'[k] = pc[k] /\ request'[k] = request[k],
         pc[h] \in MatchingLabels =>
           \/ pc'[h] \in MatchingLabels /\ request'[h].symbol = request[h].symbol
           \/ request[h].symbol \notin DOMAIN order_books_'
           \/ Matches(order_books_'[request[h].symbol]) = {}
  PROVE  CompatibleOrdersMatch'
<1> SUFFICES ASSUME NEW symbol \in DOMAIN order_books_', Matches(order_books_'[symbol]) # {}
             PROVE  \E k \in Handlers : pc'[k] \in MatchingLabels /\ request'[k].symbol = symbol
  BY DEF CompatibleOrdersMatch, MatchingAhead, MatchingLabels
<1>1. CASE symbol \in DOMAIN order_books_ /\ Matches(order_books_[symbol]) # {}
  <2>1. PICK k \in Handlers : pc[k] \in MatchingLabels /\ request[k].symbol = symbol
    BY <1>1 DEF CompatibleOrdersMatch, MatchingAhead, MatchingLabels
  <2> QED BY <2>1
<1>2. CASE pc'[h] \in MatchingLabels /\ request'[h].symbol = symbol
  BY <1>2
<1> QED BY <1>1, <1>2

LEMMA NoneMatch == Matches(<<>>) = {}
<1>1. DOMAIN <<>> = {}
  OBVIOUS
<1> QED BY <1>1, MatchPlaces

LEMMA NextKeepsCompatible ==
  ASSUME "modify" \notin Operations, Inv, BookInv, CompatibleOrdersMatch, [Next]_vars
  PROVE  CompatibleOrdersMatch'
<1>1. CASE Restart
  <2>1. DOMAIN order_books_' = {}
    BY <1>1 DEF Restart
  <2> QED BY <2>1 DEF CompatibleOrdersMatch
<1>2. CASE UNCHANGED vars
  BY <1>2 DEF vars, books, CompatibleOrdersMatch, MatchingAhead
<1>3. ASSUME NEW h \in Handlers, Call(h) \/ Step(h)
      PROVE  CompatibleOrdersMatch'
  <2> USE DEF Inv, ControlTypes
  <2>1. CASE Call(h)
    <3>1. /\ pc[h] = "idle" /\ UNCHANGED books
          /\ \A k \in Handlers \ {h} : pc'[k] = pc[k] /\ request'[k] = request[k]
      BY <2>1 DEF Call, SubmitOrder, GetOrderBook, CancelOrder, ModifyOrder, Receive, Goto
    <3> QED BY <3>1, CompatibleKept DEF books, MatchingLabels
  <2>2. CASE getOrderBook(h)
    <3>1. /\ pc[h] = "finding"
          /\ \A k \in Handlers \ {h} : pc'[k] = pc[k] /\ request'[k] = request[k]
      BY <2>2 DEF getOrderBook, Found, Goto
    <3>2. \A s \in DOMAIN order_books_' :
            \/ s \in DOMAIN order_books_ /\ order_books_'[s] = order_books_[s]
            \/ order_books_'[s] = <<>>
      BY <2>2 DEF getOrderBook, books
    <3> QED BY <3>1, <3>2, NoneMatch, CompatibleKept DEF MatchingLabels
  <2>3. CASE OpenTradeLog(h) \/ ReadBids(h) \/ ReadAsks(h) \/ LockBooks(h) \/ NotFound(h) \/
             \E symbol \in Symbols : SkipBook(h, symbol)
    <3>1. /\ pc[h] \notin MatchingLabels /\ UNCHANGED order_books_
          /\ \A k \in Handlers \ {h} : pc'[k] = pc[k] /\ request'[k] = request[k]
      BY <2>3 DEF OpenTradeLog, ReadBids, ReadAsks, LockBooks, NotFound, SkipBook, Found, Return, Goto,
                  books, MatchingLabels
    <3> QED BY <3>1, CompatibleKept
  <2>4. CASE FindMatcher(h) \/ TriggerMatching(h)
    <3>1. /\ pc'[h] \in MatchingLabels /\ UNCHANGED <<order_books_, request>>
          /\ \A k \in Handlers \ {h} : pc'[k] = pc[k]
      BY <2>4 DEF FindMatcher, TriggerMatching, Goto, books, MatchingLabels
    <3> QED BY <3>1, CompatibleKept
  <2>5. CASE ExecuteTrade(h)
    <3>1. /\ pc'[h] \in MatchingLabels /\ UNCHANGED order_books_
          /\ request'[h].symbol = request[h].symbol
          /\ \A k \in Handlers \ {h} : pc'[k] = pc[k] /\ request'[k] = request[k]
      BY <2>5 DEF ExecuteTrade, Goto, books, MatchingLabels
    <3> QED BY <3>1, CompatibleKept
  <2>6. CASE addOrder(h) \/ FillOrders(h)
    <3>1. /\ pc'[h] \in MatchingLabels /\ UNCHANGED request
          /\ \A k \in Handlers \ {h} : pc'[k] = pc[k]
      BY <2>6 DEF addOrder, FillOrders, Goto, MatchingLabels
    <3>2. /\ DOMAIN order_books_' = DOMAIN order_books_
          /\ \A s \in DOMAIN order_books_ : s # request[h].symbol => order_books_'[s] = order_books_[s]
      BY <2>6 DEF addOrder, FillOrders
    <3> QED BY <3>1, <3>2, CompatibleKept
  <2>7. CASE MatchingDone(h)
    <3>1. /\ UNCHANGED order_books_ /\ Matches(order_books_[request[h].symbol]) = {}
          /\ \A k \in Handlers \ {h} : pc'[k] = pc[k] /\ request'[k] = request[k]
      BY <2>7 DEF MatchingDone, Return, Goto, books
    <3> QED BY <3>1, CompatibleKept
  <2>8. CASE \E symbol \in Symbols : ChangeOrder(h, symbol)
    <3>1. PICK symbol \in Symbols : ChangeOrder(h, symbol)
      BY <2>8
    <3> DEFINE orders == order_books_[symbol]
    <3>2. /\ pc[h] = "searching" /\ symbol \in request[h].unsearched
          /\ request[h].op \in Operations /\ request[h] \in SearchRequest
      BY <3>1 DEF ChangeOrder, BookInv, RequestTypes
    <3>3. symbol \in DOMAIN order_books_ /\ request[h].op = "cancel"
      BY <3>2 DEF BookInv, RequestTypes, SearchRequest
    <3>4. /\ order_books_' = [order_books_ EXCEPT ![symbol] = Without(orders, request[h].id)]
          /\ \A k \in Handlers \ {h} : pc'[k] = pc[k] /\ request'[k] = request[k]
      BY <3>1, <3>3 DEF ChangeOrder, Return, Goto
    <3>5. orders \in Seq(RestingOrder(Ids, Prices))
      BY <3>3, OrderIs DEF BookInv, BookTypes
    <3>6. Matches(Without(orders, request[h].id)) # {} => Matches(orders) # {}
      <4>1. ToSet(Without(orders, request[h].id)) \subseteq ToSet(orders)
        BY <3>5, WithoutLeaves
      <4> HIDE DEF orders
      <4> QED BY <3>5, <4>1, MatchesOfSubset, RequestsAssumption
    <3>7. \A s \in DOMAIN order_books_' : Matches(order_books_'[s]) # {} =>
            s \in DOMAIN order_books_ /\ Matches(order_books_[s]) # {}
      BY <3>4, <3>6
    <3> QED BY <3>2, <3>4, <3>7, CompatibleKept DEF MatchingLabels
  <2> QED BY <1>3, <2>1, <2>2, <2>3, <2>4, <2>5, <2>6, <2>7, <2>8 DEF Step
<1> QED BY <1>1, <1>2, <1>3 DEF Next

(***************************************************************************)
(* Unless an order is modified (modifyOrder starts no matching), two orders *)
(* that could trade never rest without a handler about to match them.       *)
(***************************************************************************)
THEOREM CompatibleOrdersAreMatched ==
  ASSUME "modify" \notin Operations
  PROVE  Spec => []CompatibleOrdersMatch
<1>1. Init => CompatibleOrdersMatch
  BY DEF Init, CompatibleOrdersMatch
<1>2. Inv /\ BookInv /\ CompatibleOrdersMatch /\ [Next]_vars => CompatibleOrdersMatch'
  BY NextKeepsCompatible
<1> QED BY <1>1, <1>2, AlwaysInv, AlwaysBookInv, PTL DEF Spec

=============================================================================
