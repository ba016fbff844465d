----------------------------- MODULE OrderBook -----------------------------
(***************************************************************************)
(* tradeflow::OrderBook in MatchingMode::PRICE_TIME_PRIORITY, for one       *)
(* symbol.  Every public method runs under the exclusive mutex_, so         *)
(* addOrder, cancelOrder and modifyOrder are one action each.  A call of    *)
(* triggerMatching is the actions TriggerMatching (lock), MatchOrders (one  *)
(* trade per iteration of the loops) and MatchingDone (unlock); matching is *)
(* TRUE while it holds mutex_, and no other method runs then.               *)
(*                                                                         *)
(* clock and arrived are history: when each resting order took its place.   *)
(* issued is history too: the ids addOrder was ever called with, which the  *)
(* service never reuses (getNextOrderId).  So are suspect and clamped,      *)
(* which remember where a quantity of zero or less, or one that overflowed, *)
(* may have left its mark.                                                  *)
(***************************************************************************)
EXTENDS BookLevels

CONSTANTS AddQuantities,    \* quantities of new orders
          ModifyQuantities, \* quantities of modifyOrder calls
          MaxClock          \* bound: addOrder and modifyOrder calls in a behaviour

ASSUME QuantitiesAssumption ==
  AddQuantities \subseteq Quantity /\ ModifyQuantities \subseteq Quantity
ASSUME MaxClockAssumption == MaxClock \in Nat

VARIABLES order_map_,   \* id -> Order: owns every order in the book
          bid_levels_,
          ask_levels_,
          trade_log_,   \* trades passed to trade_callback_ and trade_log_
          matching,     \* triggerMatching holds mutex_
          arrived,      \* id -> moment the order took its place in its queue
          clock,
          issued,
          suspect,      \* the ids given a quantity of zero or less, and those that traded with one
          clamped       \* the sides and prices of levels whose total was clamped at zero

history == <<suspect, clamped>>
vars == <<order_map_, bid_levels_, ask_levels_, trade_log_, matching, arrived, clock, issued, history>>

Trade == [buy_order_id : Ids, sell_order_id : Ids, price : Prices, quantity : Quantity]

Init ==
  /\ order_map_ = [id \in {} |-> <<>>]
  /\ bid_levels_ = NoLevels
  /\ ask_levels_ = NoLevels
  /\ trade_log_ = <<>>
  /\ matching = FALSE
  /\ arrived = [id \in {} |-> 0]
  /\ clock = 0
  /\ issued = {}
  /\ suspect = {} /\ clamped = {}

\* order_map_[id] = order, and the moment it is queued.
Store(id, order) ==
  /\ order_map_' = Put(order_map_, id, order)
  /\ arrived' = Put(arrived, id, clock)
  /\ clock < MaxClock
  /\ clock' = clock + 1
  /\ suspect' = IF order.quantity > 0 THEN suspect ELSE suspect \cup {id}
  /\ UNCHANGED clamped

addOrder(id, is_buy, qty, px) ==
  LET order == [is_buy |-> is_buy, quantity |-> qty, price |-> px]
  IN  /\ ~matching
      /\ id \notin issued
      /\ issued' = issued \cup {id}
      /\ Store(id, order)
      /\ bid_levels_' = IF is_buy THEN AddToLevel(bid_levels_, id, order) ELSE bid_levels_
      /\ ask_levels_' = IF is_buy THEN ask_levels_ ELSE AddToLevel(ask_levels_, id, order)
      /\ UNCHANGED <<trade_log_, matching>>

\* Mutant: the Order* stays in its queue, dangling.
cancelOrderKeepQueue(id) ==
  /\ ~matching
  /\ id \in DOMAIN order_map_
  /\ order_map_' = Erase(order_map_, {id})
  /\ arrived' = Erase(arrived, {id})
  /\ UNCHANGED <<bid_levels_, ask_levels_, trade_log_, matching, clock, issued, history>>

\* An id that is not in order_map_ returns false and changes nothing.
cancelOrder(id) ==
  /\ ~matching
  /\ id \in DOMAIN order_map_
  /\ LET order == order_map_[id]
     IN  /\ bid_levels_' = IF order.is_buy THEN RemoveFromLevel(bid_levels_, id, order)
                                           ELSE bid_levels_
         /\ ask_levels_' = IF order.is_buy THEN ask_levels_
                                           ELSE RemoveFromLevel(ask_levels_, id, order)
  /\ order_map_' = Erase(order_map_, {id})
  /\ arrived' = Erase(arrived, {id})
  /\ UNCHANGED <<trade_log_, matching, clock, issued, history>>

\* Mutant: the quantity is assigned before removeFromLevel reads it.
modifyOrderQuantityFirst(id, new_qty, new_px) ==
  /\ ~matching
  /\ id \in DOMAIN order_map_
  /\ LET old == [order_map_[id] EXCEPT !.quantity = new_qty]
         new == [old EXCEPT !.price = new_px]
         Requeue(levels) == AddToLevel(RemoveFromLevel(levels, id, old), id, new)
     IN  /\ Store(id, new)
         /\ bid_levels_' = IF old.is_buy THEN Requeue(bid_levels_) ELSE bid_levels_
         /\ ask_levels_' = IF old.is_buy THEN ask_levels_ ELSE Requeue(ask_levels_)
  /\ UNCHANGED <<trade_log_, matching, issued>>

modifyOrder(id, new_qty, new_px) ==
  /\ ~matching
  /\ id \in DOMAIN order_map_
  /\ LET old == order_map_[id]
         new == [old EXCEPT !.quantity = new_qty, !.price = new_px]
         Requeue(levels) == AddToLevel(RemoveFromLevel(levels, id, old), id, new)
     IN  /\ Store(id, new)
         /\ bid_levels_' = IF old.is_buy THEN Requeue(bid_levels_) ELSE bid_levels_
         /\ ask_levels_' = IF old.is_buy THEN ask_levels_ ELSE Requeue(ask_levels_)
  /\ UNCHANGED <<trade_log_, matching, issued>>

TriggerMatching ==
  /\ ~matching
  /\ matching' = TRUE
  /\ UNCHANGED <<order_map_, bid_levels_, ask_levels_, trade_log_, arrived, clock, issued, history>>

\* Mutant: orders at the same price do not match.
MatchableStrict ==
  /\ DOMAIN bid_levels_ # {} /\ DOMAIN ask_levels_ # {}
  /\ BestBid(bid_levels_) > BestAsk(ask_levels_)

\* The loop condition of matchOrders and its first break.
Matchable ==
  /\ DOMAIN bid_levels_ # {} /\ DOMAIN ask_levels_ # {}
  /\ BestBid(bid_levels_) >= BestAsk(ask_levels_)

\* Mutant: a filled order stays.
FilledNever(left) == {}

\* The orders that leave queue and map, from what the iteration has left each.
Filled(left) == {o \in DOMAIN left : left[o] = 0}

\* Mutant: mode_ selects neither branch of matchOrders.
MatchOrdersNoBranch ==
  /\ matching
  /\ Matchable
  /\ UNCHANGED vars

\* The prices of the levels whose total match_qty can be taken from.
Covers(levels, match_qty) == {p \in DOMAIN levels : levels[p].total_quantity >= match_qty}

(***************************************************************************)
(* One iteration of matchPriceTime on the best levels: executeTrade, then   *)
(* the totals and quantities, then the filled orders leave queue and map.   *)
(* matchOrders drops a level that this leaves empty.                        *)
(***************************************************************************)
MatchOrders ==
  /\ matching
  /\ Matchable
  /\ LET best_bid == BestBid(bid_levels_)
         best_ask == BestAsk(ask_levels_)
         buy_order == Head(bid_levels_[best_bid].orders)
         sell_order == Head(ask_levels_[best_ask].orders)
         match_qty == IF order_map_[sell_order].quantity < order_map_[buy_order].quantity
                      THEN order_map_[sell_order].quantity ELSE order_map_[buy_order].quantity
         left == [o \in {buy_order, sell_order} |->
                    ToQuantity(order_map_[o].quantity - match_qty)]
         filled == Filled(left)
     IN  /\ trade_log_' = Append(trade_log_,
              [buy_order_id |-> buy_order, sell_order_id |-> sell_order,
               price |-> order_map_[sell_order].price, quantity |-> match_qty])
         /\ bid_levels_' = FillFront(bid_levels_, best_bid, match_qty, buy_order \in filled)
         /\ ask_levels_' = FillFront(ask_levels_, best_ask, match_qty, sell_order \in filled)
         /\ order_map_' = Erase(
              [o \in DOMAIN order_map_ |->
                 IF o \in DOMAIN left THEN [order_map_[o] EXCEPT !.quantity = left[o]]
                                      ELSE order_map_[o]], filled)
         /\ arrived' = Erase(arrived, filled)
         /\ suspect' = IF suspect \cap {buy_order, sell_order} = {} THEN suspect
                       ELSE suspect \cup {buy_order, sell_order}
         /\ clamped' = clamped
              \cup {<<TRUE, p>> : p \in {best_bid} \ Covers(bid_levels_, match_qty)}
              \cup {<<FALSE, p>> : p \in {best_ask} \ Covers(ask_levels_, match_qty)}
  /\ UNCHANGED <<matching, clock, issued>>

MatchingDone ==
  /\ matching
  /\ ~Matchable
  /\ matching' = FALSE
  /\ UNCHANGED <<order_map_, bid_levels_, ask_levels_, trade_log_, arrived, clock, issued, history>>

Next ==
  \/ \E id \in Ids, is_buy \in BOOLEAN, qty \in AddQuantities, px \in Prices :
       addOrder(id, is_buy, qty, px)
  \/ \E id \in Ids : cancelOrder(id)
  \/ \E id \in Ids, qty \in ModifyQuantities, px \in Prices : modifyOrder(id, qty, px)
  \/ TriggerMatching
  \/ MatchOrders
  \/ MatchingDone

Spec == Init /\ [][Next]_vars

\* The thread inside triggerMatching keeps running; callers owe nothing.
FairSpec == Spec /\ WF_vars(MatchOrders \/ MatchingDone)

-----------------------------------------------------------------------------
\* Every variable has its type, and a side holds levels only at prices.
TypeOK ==
  /\ DOMAIN order_map_ \subseteq Ids
  /\ order_map_ \in [DOMAIN order_map_ -> Order]
  /\ IsSide(bid_levels_) /\ IsSide(ask_levels_)
  /\ trade_log_ \in Seq(Trade)
  /\ matching \in BOOLEAN
  /\ arrived \in [DOMAIN order_map_ -> Nat]
  /\ clock \in 0..MaxClock
  /\ issued \in SUBSET Ids
  /\ suspect \subseteq issued
  /\ clamped \subseteq BOOLEAN \X Prices

(***************************************************************************)
(* The queues and order_map_ describe the same orders.  A queue is never    *)
(* empty and holds an id once; each Order* in it points to an order that    *)
(* order_map_ still owns (none dangles), of that side and price; and every  *)
(* order of order_map_ is queued at its price, so none is lost to matching. *)
(***************************************************************************)
BookIndexed ==
  SideIndexed(bid_levels_, TRUE, order_map_) /\ SideIndexed(ask_levels_, FALSE, order_map_)

(***************************************************************************)
(* Within a level the queue is in order of arrival, where modifyOrder       *)
(* counts as a new arrival: the order it moves goes to the back.            *)
(***************************************************************************)
TimePriority == TimeOrdered(bid_levels_, arrived) /\ TimeOrdered(ask_levels_, arrived)

\* What the orders of a queue add up to.
SumOf(queue) == SumFunction([i \in DOMAIN queue |-> order_map_[queue[i]].quantity])

(***************************************************************************)
(* "Maintain level total quantities" (OrderBook.cpp:163): the total a level *)
(* caches, which getBidLevels and getAskLevels report, is the sum of the    *)
(* quantities of the orders in its queue.                                   *)
(***************************************************************************)
LevelTotals ==
  \A levels \in {bid_levels_, ask_levels_} : \A p \in DOMAIN levels :
    levels[p].total_quantity = SumOf(levels[p].orders)

(***************************************************************************)
(* What holds of the totals whatever the quantities: they may have          *)
(* overflowed, but are still the sums of the quantities in the queues, 32   *)
(* bits wide, except at a level where matchPriceTime clamped the total.     *)
(***************************************************************************)
TotalsUpToOverflow ==
  \A is_buy \in BOOLEAN :
    LET levels == IF is_buy THEN bid_levels_ ELSE ask_levels_
    IN  \A p \in DOMAIN levels :
          \/ levels[p].total_quantity = ToQuantity(SumOf(levels[p].orders))
          \/ <<is_buy, p>> \in clamped

(***************************************************************************)
(* A quantity of zero or less, which modifyOrder takes unchecked, spreads   *)
(* only by trading: a trade moves a positive quantity unless one of its     *)
(* orders was given such a quantity, or traded with one that had been.      *)
(***************************************************************************)
PositiveTrades ==
  \A i \in DOMAIN trade_log_ :
    \/ trade_log_[i].quantity > 0
    \/ {trade_log_[i].buy_order_id, trade_log_[i].sell_order_id} \cap suspect # {}

\* Some resting buy is willing to pay what some resting sell asks.
Crossed ==
  \E b, s \in DOMAIN order_map_ :
    order_map_[b].is_buy /\ ~order_map_[s].is_buy /\ order_map_[b].price >= order_map_[s].price

\* When triggerMatching returns, no two resting orders could trade any more.
MatchingClearsTheBook == [][matching /\ ~matching' => ~Crossed']_vars

(***************************************************************************)
(* The orders, without their queues and totals, follow price-time priority. *)
(***************************************************************************)
Resting == [id \in DOMAIN order_map_ |-> [is_buy   |-> order_map_[id].is_buy,
                                          quantity |-> order_map_[id].quantity,
                                          price    |-> order_map_[id].price,
                                          arrived  |-> arrived[id]]]

PriceTime == INSTANCE PriceTimePriority WITH resting <- Resting, trades <- trade_log_

\* Every step is a step of a price-time-priority book, or invisible to it.
FollowsPriceTimePriority == PriceTime!Spec

\* triggerMatching, which holds mutex_ all along, returns.
MatchingTerminates == matching ~> ~matching

=============================================================================
