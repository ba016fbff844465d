----------------------------- MODULE BookLevels -----------------------------
(***************************************************************************)
(* The price levels of one side of tradeflow::OrderBook: the maps           *)
(* bid_levels_ and ask_levels_ and the operations on them.  A side is a      *)
(* function from the prices that have a level to that level; a level holds  *)
(* the FIFO queue of the orders resting there (the ids the Order* point to) *)
(* and the cached total of their quantities.                                *)
(***************************************************************************)
EXTENDS Quantities, Sequences, FiniteSets, SequencesExt

CONSTANTS Ids,          \* order ids the service may issue
          Prices,       \* limit prices of the orders, in ticks
          MaxPrice      \* INT64_MAX: Price is an int64_t

ASSUME PricesAssumption == MaxPrice \in Nat /\ Prices \subseteq (-MaxPrice - 1)..MaxPrice

NoLevels == [p \in {} |-> <<>>]

\* What map[key] = value and map.erase leave of a map.
Put(map, key, value) == [k \in DOMAIN map \cup {key} |-> IF k = key THEN value ELSE map[k]]
Erase(map, keys) == [k \in DOMAIN map \ keys |-> map[k]]

\* find(price), or the level emplace() creates.
LevelAt(levels, price) ==
  IF price \in DOMAIN levels THEN levels[price] ELSE [orders |-> <<>>, total_quantity |-> 0]

\* Mutant: push_front.
AddToLevelFront(levels, id, order) ==
  LET old == LevelAt(levels, order.price)
  IN  Put(levels, order.price,
        [orders         |-> <<id>> \o old.orders,
         total_quantity |-> ToQuantity(old.total_quantity + order.quantity)])

\* push_back, and the total follows.
AddToLevel(levels, id, order) ==
  LET old == LevelAt(levels, order.price)
  IN  Put(levels, order.price,
        [orders         |-> Append(old.orders, id),
         total_quantity |-> ToQuantity(old.total_quantity + order.quantity)])

\* Store level at price, or erase(it) when its queue has become empty.
StoreOrErase(levels, price, level) ==
  IF level.orders = <<>> THEN Erase(levels, {price}) ELSE Put(levels, price, level)

RemoveFromLevel(levels, id, order) ==
  IF order.price \in DOMAIN levels /\ Contains(levels[order.price].orders, id)
  THEN LET old == levels[order.price]
       IN  StoreOrErase(levels, order.price,
             [orders         |-> RemoveFirst(old.orders, id),
              total_quantity |-> ToQuantity(old.total_quantity - order.quantity)])
  ELSE levels

(***************************************************************************)
(* What one iteration of matchPriceTime does to a side: the level's total   *)
(* loses match_qty, clamped at zero, and the front order leaves the queue   *)
(* when it is filled.                                                       *)
(***************************************************************************)
FillFront(levels, price, match_qty, filled) ==
  LET old == levels[price]
  IN  StoreOrErase(levels, price,
        [orders         |-> IF filled THEN Tail(old.orders) ELSE old.orders,
         total_quantity |-> IF old.total_quantity >= match_qty
                            THEN ToQuantity(old.total_quantity - match_qty)
                            ELSE 0])

\* Mutant: rbegin() of a map ordered by less<Price>.
BestAskHighest(levels) == Max(DOMAIN levels)

\* rbegin() of a map ordered by less<Price>, and of one by greater<Price>.
BestBid(levels) == Max(DOMAIN levels)
BestAsk(levels) == Min(DOMAIN levels)

-----------------------------------------------------------------------------
Order == [is_buy : BOOLEAN, quantity : Quantity, price : Prices]
Level == [orders : Seq(Ids), total_quantity : Quantity]

IsSide(levels) == DOMAIN levels \subseteq Prices /\ levels \in [DOMAIN levels -> Level]

\* The queues of a side and the orders they point to describe the same orders.
SideIndexed(levels, is_buy, orders) ==
  /\ \A p \in DOMAIN levels :
       LET q == levels[p].orders
       IN  /\ q # <<>>
           /\ IsInjective(q)
           /\ \A i \in DOMAIN q : /\ q[i] \in DOMAIN orders
                                  /\ orders[q[i]].is_buy = is_buy
                                  /\ orders[q[i]].price = p
  /\ \A id \in DOMAIN orders : orders[id].is_buy = is_buy =>
       /\ orders[id].price \in DOMAIN levels
       /\ Contains(levels[orders[id].price].orders, id)

\* Every queue of a side is in order of arrival.
TimeOrdered(levels, arrival) ==
  \A p \in DOMAIN levels : \A i, j \in DOMAIN levels[p].orders :
    i < j => arrival[levels[p].orders[i]] < arrival[levels[p].orders[j]]

=============================================================================
