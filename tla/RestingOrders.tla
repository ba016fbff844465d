---------------------------- MODULE RestingOrders ----------------------------
(***************************************************************************)
(* A book as the parts around it see it: the sequence of its resting        *)
(* orders, oldest first, each with a side, a price, a quantity and an id    *)
(* that tells it from the others.  OrderBook and HftOrderBook implement     *)
(* this view (PriceTimePriority), with levels, queues and lookup tables.    *)
(***************************************************************************)
EXTENDS Quantities, Sequences, SequencesExt

Ahead(a, b) == IF a.is_buy THEN a.price > b.price ELSE a.price < b.price

\* The indices of the best order of a side: no other has a better price, nor
\* the same price and an earlier place.
Best(orders, is_buy) ==
  {i \in DOMAIN orders : /\ orders[i].is_buy = is_buy
                         /\ \A j \in DOMAIN orders : orders[j].is_buy = is_buy =>
                              ~Ahead(orders[j], orders[i]) /\ (j < i => Ahead(orders[i], orders[j]))}

\* The pairs that can trade now: one or none.
Matches(orders) ==
  {p \in Best(orders, TRUE) \X Best(orders, FALSE) : orders[p[1]].price >= orders[p[2]].price}

\* The trade of two orders.
TradeOf(buy, sell) ==
  [buy_order_id |-> buy.id, sell_order_id |-> sell.id,
   quantity |-> IF buy.quantity < sell.quantity THEN buy.quantity ELSE sell.quantity]

Parties(trade) == {trade.buy_order_id, trade.sell_order_id}

Reduce(orders, trade) ==
  [i \in DOMAIN orders |->
     IF orders[i].id \in Parties(trade)
     THEN [orders[i] EXCEPT !.quantity = ToQuantity(@ - trade.quantity)] ELSE orders[i]]

(***************************************************************************)
(* What stays in the queues: either order of the trade leaves when it is    *)
(* filled.  (Another that rests for 0, for which the code lets orders be    *)
(* modified and submitted, stays until it trades.)                          *)
(***************************************************************************)
Unfilled(orders, trade) ==
  LET WithoutFilled(rest) ==
        RemoveFirstMatch(rest, LAMBDA order : order.quantity = 0 /\ order.id \in Parties(trade))
  IN  WithoutFilled(WithoutFilled(orders))

\* What the trade leaves of the orders.
AfterTrade(orders, trade) == Unfilled(Reduce(orders, trade), trade)

\* What a cancellation leaves.
Without(orders, id) == RemoveFirstMatch(orders, LAMBDA order : order.id = id)

Rests(orders, id) == \E i \in DOMAIN orders : orders[i].id = id

=============================================================================
