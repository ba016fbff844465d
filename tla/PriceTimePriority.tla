------------------------- MODULE PriceTimePriority -------------------------
(***************************************************************************)
(* What an order book with price-time priority promises, with no queues,    *)
(* price levels, caches or locks: a set of resting orders, each with the    *)
(* moment it took its place, and trades that always pair the best buy with  *)
(* the best sell.  OrderBook implements this specification.                 *)
(***************************************************************************)
EXTENDS Integers, Sequences

CONSTANTS Ids,           \* order ids
          Prices,        \* limit prices, in ticks
          MaxQuantity,   \* quantities are in -MaxQuantity-1..MaxQuantity
          MaxClock       \* bound on the arrivals counted by clock

VARIABLES resting,   \* id -> order, for the orders in the book
          trades,    \* the trades executed, oldest first
          clock      \* arrivals so far

vars == <<resting, trades, clock>>

Quantity == (-MaxQuantity - 1)..MaxQuantity

Init ==
  /\ resting = [id \in {} |-> <<>>]
  /\ trades = <<>>
  /\ clock = 0

(***************************************************************************)
(* The order takes its place behind everything that arrived before: a new   *)
(* order, or a modified one, which thereby gives up the place it had.       *)
(***************************************************************************)
Place(id, order) ==
  /\ clock < MaxClock
  /\ clock' = clock + 1
  /\ resting' = [o \in DOMAIN resting \cup {id} |-> IF o = id THEN order ELSE resting[o]]
  /\ UNCHANGED trades

Submit(id, is_buy, quantity, price) ==
  /\ id \notin DOMAIN resting
  /\ Place(id, [is_buy |-> is_buy, quantity |-> quantity, price |-> price, arrived |-> clock])

Modify(id, quantity, price) ==
  /\ id \in DOMAIN resting
  /\ Place(id, [is_buy |-> resting[id].is_buy, quantity |-> quantity, price |-> price,
                arrived |-> clock])

Cancel(id) ==
  /\ id \in DOMAIN resting
  /\ resting' = [o \in DOMAIN resting \ {id} |-> resting[o]]
  /\ UNCHANGED <<trades, clock>>

\* Price priority, then time priority, among the orders of one side.
Precedes(a, b) ==
  \/ IF a.is_buy THEN a.price > b.price ELSE a.price < b.price
  \/ a.price = b.price /\ a.arrived < b.arrived

IsBest(id) ==
  /\ id \in DOMAIN resting
  /\ \A o \in DOMAIN resting \ {id} :
       resting[o].is_buy = resting[id].is_buy => Precedes(resting[id], resting[o])

\* What is left of the order after trading quantity is 32 bits wide.
Reduced(order, quantity) ==
  [order EXCEPT !.quantity =
     ((order.quantity - quantity + MaxQuantity + 1) % (2 * MaxQuantity + 2)) - MaxQuantity - 1]

(***************************************************************************)
(* The best buy meets the best sell at the seller's price, for all that the *)
(* smaller of the two still wants; an order with nothing left is gone.      *)
(***************************************************************************)
Trade(buy, sell) ==
  /\ IsBest(buy) /\ resting[buy].is_buy
  /\ IsBest(sell) /\ ~resting[sell].is_buy
  /\ resting[buy].price >= resting[sell].price
  /\ LET b == resting[buy]
         s == resting[sell]
         quantity == IF s.quantity < b.quantity THEN s.quantity ELSE b.quantity
         after == [o \in DOMAIN resting |->
                     IF o \in {buy, sell} THEN Reduced(resting[o], quantity) ELSE resting[o]]
     IN  /\ trades' = Append(trades, [buy_order_id |-> buy, sell_order_id |-> sell,
                                      price |-> s.price, quantity |-> quantity])
         /\ resting' = [o \in {p \in DOMAIN resting : p \in {buy, sell} => after[p].quantity # 0}
                          |-> after[o]]
  /\ UNCHANGED clock

Next ==
  \/ \E id \in Ids, is_buy \in BOOLEAN, quantity \in Quantity, price \in Prices :
       Submit(id, is_buy, quantity, price)
  \/ \E id \in Ids, quantity \in Quantity, price \in Prices : Modify(id, quantity, price)
  \/ \E id \in Ids : Cancel(id)
  \/ \E buy, sell \in Ids : Trade(buy, sell)

Spec == Init /\ [][Next]_vars

=============================================================================
