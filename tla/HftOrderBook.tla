---------------------------- MODULE HftOrderBook ----------------------------
(***************************************************************************)
(* warpspeed::OrderBook, the book of the HFT simulator, and the calls of    *)
(* MatchingEngine on it, one at a time: add_order, which matches until it   *)
(* can no more, and cancel_order.  (HftServer has the threads around it.)   *)
(*                                                                         *)
(* Ids and quantities are the clients': nothing keeps two orders from       *)
(* having the same id, or one from having a quantity of zero or less.       *)
(* Orders are stored by value in the queues, and order_lookup only knows    *)
(* the price at which to look for an id.                                    *)
(***************************************************************************)
EXTENDS Quantities, Sequences, SequencesExt

CONSTANTS Ids,
          Prices,        \* not checked either, but numbers
          MaxPrice,      \* DBL_MAX
          SubmitQuantities,   \* of the orders clients submit
          MaxClock       \* bound: add_order calls

ASSUME PricesAssumption == MaxPrice \in Nat /\ Prices \subseteq -MaxPrice..MaxPrice
ASSUME QuantitiesAssumption == SubmitQuantities \subseteq Quantity
ASSUME MaxClockAssumption == MaxClock \in Nat

VARIABLES buy_orders,    \* price -> queue of orders
          sell_orders,
          order_lookup,  \* id -> price
          matching,      \* add_order is in match_orders
          trades,        \* history: the trades of match_orders, with the arrivals they fill
          clock,         \* history: add_order calls so far
          shared,        \* history: the ids given to an order while another of that id rested
          suspect        \* history: the arrivals of the orders with a quantity of zero or
                         \* less, and of those that traded with one

sides == <<buy_orders, sell_orders>>
history == <<shared, suspect>>
vars == <<sides, order_lookup, matching, trades, clock, history>>

\* arrived is history: when the order was added.
Order == [order_id : Ids, quantity : Quantity, arrived : 0..MaxClock]
Trade == [buy_order_id : 0..MaxClock, sell_order_id : 0..MaxClock,
          price : Prices, quantity : Quantity]

NoOrders == [p \in {} |-> <<>>]

Init ==
  /\ buy_orders = NoOrders
  /\ sell_orders = NoOrders
  /\ order_lookup = [id \in {} |-> 0]
  /\ matching = FALSE
  /\ trades = <<>>
  /\ clock = 0
  /\ shared = {} /\ suspect = {}

\* Mutant: an empty queue keeps its level.
SetLevelEmpty(orders, price, queue) ==
  [p \in DOMAIN orders \cup {price} |-> IF p = price THEN queue ELSE orders[p]]

\* orders[price] = queue; an empty one leaves the map (remove_empty_level).
SetLevel(orders, price, queue) ==
  [p \in {r \in DOMAIN orders \cup {price} : r = price => queue # <<>>} |->
     IF p = price THEN queue ELSE orders[p]]

Level(orders, price) == IF price \in DOMAIN orders THEN orders[price] ELSE <<>>

\* order_lookup.erase
Forget(lookup, ids) == [id \in DOMAIN lookup \ ids |-> lookup[id]]

InLevel(orders, price, id) ==
  \E i \in DOMAIN Level(orders, price) : Level(orders, price)[i].order_id = id

\* Some order with the id rests.
InBook(id) == \E p \in Prices : InLevel(buy_orders, p, id) \/ InLevel(sell_orders, p, id)

add_order(id, is_buy, quantity, price) ==
  /\ ~matching
  /\ clock < MaxClock
  /\ LET order == [order_id |-> id, quantity |-> quantity, arrived |-> clock]
         Added(orders) == SetLevel(orders, price, Append(Level(orders, price), order))
     IN  /\ buy_orders' = IF is_buy THEN Added(buy_orders) ELSE buy_orders
         /\ sell_orders' = IF is_buy THEN sell_orders ELSE Added(sell_orders)
  /\ order_lookup' = [i \in DOMAIN order_lookup \cup {id} |->
                        IF i = id THEN price ELSE order_lookup[i]]
  /\ matching' = TRUE
  /\ clock' = clock + 1
  /\ shared' = IF InBook(id) THEN shared \cup {id} ELSE shared
  /\ suspect' = IF quantity > 0 THEN suspect ELSE suspect \cup {clock}
  /\ UNCHANGED trades

\* remove_order_from_level takes out the first order with the id.
WithoutFirst(queue, id) ==
  RemoveAt(queue, CHOOSE i \in DOMAIN queue :
                    /\ queue[i].order_id = id
                    /\ \A j \in 1..(i - 1) : queue[j].order_id # id)

\* Mutant: cancelled on the book, but not in order_lookup.
cancel_orderRemembered(id) ==
  /\ ~matching
  /\ id \in DOMAIN order_lookup
  /\ LET price == order_lookup[id]
         Removed(orders) == SetLevel(orders, price, WithoutFirst(orders[price], id))
     IN  \/ /\ InLevel(buy_orders, price, id)
            /\ buy_orders' = Removed(buy_orders)
            /\ UNCHANGED sell_orders
         \/ /\ ~InLevel(buy_orders, price, id) /\ InLevel(sell_orders, price, id)
            /\ sell_orders' = Removed(sell_orders)
            /\ UNCHANGED buy_orders
  /\ UNCHANGED <<order_lookup, matching, trades, clock, history>>

\* The buy side is searched first.  An id that is not found changes nothing.
cancel_order(id) ==
  /\ ~matching
  /\ id \in DOMAIN order_lookup
  /\ LET price == order_lookup[id]
         Removed(orders) == SetLevel(orders, price, WithoutFirst(orders[price], id))
     IN  \/ /\ InLevel(buy_orders, price, id)
            /\ buy_orders' = Removed(buy_orders)
            /\ UNCHANGED sell_orders
         \/ /\ ~InLevel(buy_orders, price, id) /\ InLevel(sell_orders, price, id)
            /\ sell_orders' = Removed(sell_orders)
            /\ UNCHANGED buy_orders
  /\ order_lookup' = Forget(order_lookup, {id})
  /\ UNCHANGED <<matching, trades, clock, history>>

\* Mutant: begin() of a map of sells ordered like the buys.
BestSellHighest(orders) == CHOOSE p \in DOMAIN orders : \A r \in DOMAIN orders : r <= p

\* begin() of a map ordered by greater<double>, and of one by less<double>.
BestBuy(orders) == CHOOSE p \in DOMAIN orders : \A r \in DOMAIN orders : r <= p
BestSell(orders) == CHOOSE p \in DOMAIN orders : \A r \in DOMAIN orders : p <= r

\* The loop condition of match_orders and its two breaks.
Matchable ==
  /\ DOMAIN buy_orders # {} /\ DOMAIN sell_orders # {}
  /\ BestBuy(buy_orders) >= BestSell(sell_orders)
  /\ buy_orders[BestBuy(buy_orders)] # <<>> /\ sell_orders[BestSell(sell_orders)] # <<>>

\* set_quantity(quantity() - trade_quantity): the difference of two int64_t.
Left(had, quantity) == ToQuantity(had - quantity)

\* Mutant: the orders of a trade are forgotten, also the one that is not filled.
FilledBoth(orders, quantity) == {order.order_id : order \in orders}

Filled(orders, quantity) ==
  {order.order_id : order \in {o \in orders : Left(o.quantity, quantity) = 0}}

\* Mutant: a filled order stays in its queue.
TradedStays(queue, quantity) == [queue EXCEPT ![1].quantity = Left(@, quantity)]

\* The queue whose front order has traded.
Traded(queue, quantity) ==
  IF Left(Head(queue).quantity, quantity) = 0 THEN Tail(queue)
  ELSE [queue EXCEPT ![1].quantity = Left(@, quantity)]

\* One iteration of match_orders.
match_orders ==
  /\ matching
  /\ Matchable
  /\ LET best_buy == BestBuy(buy_orders)
         best_sell == BestSell(sell_orders)
         buy == Head(buy_orders[best_buy])
         sell == Head(sell_orders[best_sell])
         quantity == IF sell.quantity < buy.quantity THEN sell.quantity ELSE buy.quantity
     IN  /\ trades' = Append(trades, [buy_order_id |-> buy.arrived,
                                      sell_order_id |-> sell.arrived,
                                      price |-> best_sell, quantity |-> quantity])
         /\ order_lookup' = Forget(order_lookup, Filled({buy, sell}, quantity))
         /\ buy_orders' = SetLevel(buy_orders, best_buy, Traded(buy_orders[best_buy], quantity))
         /\ sell_orders' = SetLevel(sell_orders, best_sell, Traded(sell_orders[best_sell], quantity))
         /\ suspect' = IF suspect \cap {buy.arrived, sell.arrived} = {} THEN suspect
                       ELSE suspect \cup {buy.arrived, sell.arrived}
  /\ UNCHANGED <<matching, clock, shared>>

\* match_orders returns, and add_order publishes trades and quote.
Matched ==
  /\ matching
  /\ ~Matchable
  /\ matching' = FALSE
  /\ UNCHANGED <<sides, order_lookup, trades, clock, history>>

Next ==
  \/ \E id \in Ids, is_buy \in BOOLEAN, quantity \in SubmitQuantities, price \in Prices :
       add_order(id, is_buy, quantity, price)
  \/ \E id \in Ids : cancel_order(id)
  \/ match_orders
  \/ Matched

Spec == Init /\ [][Next]_vars

-----------------------------------------------------------------------------
IsSide(orders) == DOMAIN orders \subseteq Prices /\ orders \in [DOMAIN orders -> Seq(Order)]

\* Every variable has its type.
TypeOK ==
  /\ IsSide(buy_orders) /\ IsSide(sell_orders)
  /\ DOMAIN order_lookup \subseteq Ids /\ order_lookup \in [DOMAIN order_lookup -> Prices]
  /\ matching \in BOOLEAN
  /\ trades \in Seq(Trade)
  /\ clock \in 0..MaxClock
  /\ shared \subseteq Ids
  /\ suspect \subseteq 0..MaxClock

(***************************************************************************)
(* No level is ever left with an empty queue, not even by a cancellation:   *)
(* get_quote reads front() of the best queues unchecked, and match_orders   *)
(* would give up, at an empty one, on the orders behind it.                 *)
(***************************************************************************)
NoEmptyLevel ==
  \A orders \in {buy_orders, sell_orders} : \A p \in DOMAIN orders : orders[p] # <<>>

(***************************************************************************)
(* What order_lookup knows is true, also when clients reuse ids: an order   *)
(* with the id rests at that price, so cancel_order finds one.              *)
(***************************************************************************)
LookupSound ==
  \A id \in DOMAIN order_lookup :
    InLevel(buy_orders, order_lookup[id], id) \/ InLevel(sell_orders, order_lookup[id], id)

\* cancel_order is sent to the price at which the order rests.
Cancellable(order, price) ==
  order.order_id \in DOMAIN order_lookup /\ order_lookup[order.order_id] = price

(***************************************************************************)
(* "Cancel an active limit order not yet fully filled" (README.md:107 of    *)
(* the HFT simulator): every order that rests can be cancelled.             *)
(***************************************************************************)
RestingCancellable ==
  \A orders \in {buy_orders, sell_orders} : \A p \in DOMAIN orders : \A i \in DOMAIN orders[p] :
    Cancellable(orders[p][i], p)

(***************************************************************************)
(* An order that rests can be cancelled unless, at some time, its id was    *)
(* given to an order while another of that id rested.  A client may use an  *)
(* id again once its order is filled or cancelled.                          *)
(***************************************************************************)
OwnIdCancellable ==
  \A orders \in {buy_orders, sell_orders} : \A p \in DOMAIN orders : \A i \in DOMAIN orders[p] :
    Cancellable(orders[p][i], p) \/ orders[p][i].order_id \in shared

(***************************************************************************)
(* A quantity of zero or less, which SubmitOrder takes unchecked, spreads   *)
(* only by trading: a trade moves a positive quantity unless one of its     *)
(* orders came with such a quantity, or traded with one that had.           *)
(***************************************************************************)
PositiveTrades ==
  \A i \in DOMAIN trades :
    \/ trades[i].quantity > 0
    \/ {trades[i].buy_order_id, trades[i].sell_order_id} \cap suspect # {}

(***************************************************************************)
(* The orders follow price-time priority, as those of the order matching    *)
(* engine do.  Since ids may repeat, an order is known by its arrival.      *)
(***************************************************************************)
RestingIn(orders, is_buy) ==
  UNION {{[is_buy |-> is_buy, quantity |-> orders[p][i].quantity, price |-> p,
           arrived |-> orders[p][i].arrived] : i \in DOMAIN orders[p]} : p \in DOMAIN orders}

Resting ==
  LET rests == RestingIn(buy_orders, TRUE) \cup RestingIn(sell_orders, FALSE)
  IN  [n \in {order.arrived : order \in rests} |->
         CHOOSE order \in rests : order.arrived = n]

PriceTime == INSTANCE PriceTimePriority WITH Ids <- 0..(MaxClock - 1), resting <- Resting

\* Every step is a step of a price-time-priority book, or invisible to it.
FollowsPriceTimePriority == PriceTime!Spec

=============================================================================
