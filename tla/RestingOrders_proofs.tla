------------------------- MODULE RestingOrders_proofs -------------------------
(***************************************************************************)
(* Lemmas about a book as the services see it: what a cancellation and a    *)
(* trade leave of its orders, and when two of them can trade.               *)
(***************************************************************************)
EXTENDS RestingOrders, Collections_proofs

\* An id has one order.
IdsOnce(orders) == \A i, j \in DOMAIN orders : orders[i].id = orders[j].id => i = j

(***************************************************************************)
(* What is left of orders without the k-th.                                 *)
(***************************************************************************)
LEMMA RemoveAtLeaves ==
  ASSUME NEW S, NEW orders \in Seq(S), NEW k \in DOMAIN orders
  PROVE  /\ RemoveAt(orders, k) \in Seq(S)
         /\ ToSet(RemoveAt(orders, k)) \subseteq ToSet(orders)
         /\ IdsOnce(orders) => /\ IdsOnce(RemoveAt(orders, k))
                               /\ ToSet(RemoveAt(orders, k)) = ToSet(orders) \ {orders[k]}
<1> DEFINE r == RemoveAt(orders, k)
<1>1. DOMAIN orders = 1..Len(orders) /\ Len(orders) \in Nat
  BY LenProperties
<1>2. /\ r \in Seq(S) /\ Len(r) = Len(orders) - 1
      /\ \A i \in 1..(Len(orders) - 1) : r[i] = IF i < k THEN orders[i] ELSE orders[i + 1]
  BY <1>1, RemoveAtIndices
<1> HIDE DEF r
<1>3. DOMAIN r = 1..(Len(orders) - 1)
  BY <1>2, LenProperties
<1>4. k \in Nat /\ 1 <= k /\ k <= Len(orders)
  BY <1>1
<1>5. ASSUME NEW i \in DOMAIN r
      PROVE  \E j \in DOMAIN orders : j # k /\ orders[j] = r[i]
  <2>1. CASE i < k
    <3>1. i \in DOMAIN orders /\ i # k
      BY <1>1, <1>3, <1>4, <2>1
    <3>2. orders[i] = r[i]
      BY <1>2, <1>3, <2>1
    <3> QED BY <3>1, <3>2
  <2>2. CASE ~(i < k)
    <3>1. i + 1 \in DOMAIN orders /\ i + 1 # k
      BY <1>1, <1>3, <1>4, <2>2
    <3>2. orders[i + 1] = r[i]
      BY <1>2, <1>3, <2>2
    <3> QED BY <3>1, <3>2
  <2> QED BY <2>1, <2>2
<1>6. ASSUME NEW j \in DOMAIN orders, j # k
      PROVE  \E i \in DOMAIN r : orders[j] = r[i]
  <2>1. CASE j < k
    BY <1>1, <1>2, <1>3, <1>4, <2>1
  <2>2. CASE j > k
    <3>1. j - 1 \in 1..(Len(orders) - 1) /\ ~(j - 1 < k) /\ (j - 1) + 1 = j
      BY <1>1, <1>4, <2>2
    <3> QED BY <1>2, <1>3, <3>1
  <2> QED BY <1>1, <1>4, <1>6, <2>1, <2>2
<1>7. ToSet(r) \subseteq ToSet(orders)
  BY <1>5 DEF ToSet
<1>8. ASSUME IdsOnce(orders)
      PROVE  IdsOnce(r) /\ ToSet(r) = ToSet(orders) \ {orders[k]}
  <2>1. IdsOnce(r)
    <3> SUFFICES ASSUME NEW i \in DOMAIN r, NEW j \in DOMAIN r, r[i].id = r[j].id
                 PROVE  i = j
      BY DEF IdsOnce
    <3> DEFINE From(x) == IF x < k THEN x ELSE x + 1
    <3>1. /\ From(i) \in DOMAIN orders /\ r[i] = orders[From(i)]
          /\ From(j) \in DOMAIN orders /\ r[j] = orders[From(j)]
      BY <1>1, <1>2, <1>3, <1>4
    <3>2. From(i) = From(j)
      BY <1>8, <3>1 DEF IdsOnce
    <3> QED BY <1>3, <1>4, <3>2
  <2>2. \A j \in DOMAIN orders : j # k => orders[j] # orders[k]
    BY <1>8 DEF IdsOnce
  <2>3. ToSet(r) = ToSet(orders) \ {orders[k]}
    BY <1>5, <1>6, <2>2 DEF ToSet
  <2> QED BY <2>1, <2>3
<1> QED BY <1>2, <1>7, <1>8 DEF r

\* The first order of which a test holds.
LEMMA FirstIndex ==
  ASSUME NEW n \in Nat, NEW I \in SUBSET (1..n), I # {}
  PROVE  Min(I) \in I
<1>1. I \subseteq Nat
  OBVIOUS
<1>2. PICK i \in I : \A j \in I : i <= j
  BY <1>1, NatSetHasLeast
<1> QED BY <1>2 DEF Min

\* Where the order with the id is.
Place(orders, id) == SelectInSeq(orders, LAMBDA order : order.id = id)

LEMMA PlaceIs ==
  ASSUME NEW S, NEW orders \in Seq(S), NEW id, Rests(orders, id)
  PROVE  /\ Place(orders, id) \in DOMAIN orders
         /\ orders[Place(orders, id)].id = id
         /\ Without(orders, id) = RemoveAt(orders, Place(orders, id))
<1> DEFINE I == {i \in 1..Len(orders) : orders[i].id = id}
<1>1. DOMAIN orders = 1..Len(orders) /\ Len(orders) \in Nat
  BY LenProperties
<1>2. I # {} /\ Min(I) \in I
  BY <1>1, FirstIndex DEF Rests
<1>3. Place(orders, id) = Min(I)
  BY <1>2 DEF Place, SelectInSeq
<1>4. Without(orders, id) = RemoveAt(orders, Place(orders, id))
  BY <1>2 DEF Without, RemoveFirstMatch, Place
<1> QED BY <1>1, <1>2, <1>3, <1>4

\* A cancellation takes the order with the id out, and no other.
LEMMA WithoutLeaves ==
  ASSUME NEW S, NEW orders \in Seq(S), NEW id
  PROVE  /\ Without(orders, id) \in Seq(S)
         /\ ToSet(Without(orders, id)) \subseteq ToSet(orders)
         /\ IdsOnce(orders) =>
              /\ IdsOnce(Without(orders, id))
              /\ ToSet(Without(orders, id)) = {order \in ToSet(orders) : order.id # id}
<1>1. CASE Rests(orders, id)
  <2> DEFINE k == Place(orders, id)
  <2>1. k \in DOMAIN orders /\ orders[k].id = id /\ Without(orders, id) = RemoveAt(orders, k)
    BY <1>1, PlaceIs
  <2> HIDE DEF k
  <2>2. IdsOnce(orders) => ToSet(orders) \ {orders[k]} = {order \in ToSet(orders) : order.id # id}
    BY <2>1 DEF IdsOnce, ToSet
  <2> QED BY <2>1, <2>2, RemoveAtLeaves
<1>2. CASE ~Rests(orders, id)
  <2>1. DOMAIN orders = 1..Len(orders)
    BY LenProperties
  <2>2. Without(orders, id) = orders
    BY <1>2, <2>1 DEF Rests, Without, RemoveFirstMatch
  <2>3. \A order \in ToSet(orders) : order.id # id
    BY <1>2 DEF Rests, ToSet
  <2> QED BY <2>2, <2>3
<1> QED BY <1>1, <1>2

\* What an order more leaves.
LEMMA AppendLeaves ==
  ASSUME NEW S, NEW orders \in Seq(S), NEW order \in S
  PROVE  /\ Append(orders, order) \in Seq(S)
         /\ ToSet(Append(orders, order)) = ToSet(orders) \cup {order}
         /\ IdsOnce(orders) /\ ~Rests(orders, order.id) => IdsOnce(Append(orders, order))
<1> DEFINE more == Append(orders, order)
<1>1. DOMAIN orders = 1..Len(orders) /\ Len(orders) \in Nat
  BY LenProperties
<1>2. /\ more \in Seq(S) /\ Len(more) = Len(orders) + 1
      /\ \A i \in 1..Len(orders) : more[i] = orders[i]
      /\ more[Len(orders) + 1] = order
  BY AppendProperties
<1> HIDE DEF more
<1>3. DOMAIN more = 1..(Len(orders) + 1)
  BY <1>2, LenProperties
<1>4. \A i \in DOMAIN more : i \in DOMAIN orders \/ i = Len(orders) + 1
  BY <1>1, <1>3
<1>5. \A i \in DOMAIN orders : i \in DOMAIN more /\ more[i] = orders[i]
  BY <1>1, <1>2, <1>3
<1>6. Len(orders) + 1 \in DOMAIN more
  BY <1>1, <1>3
<1>7. ToSet(more) = ToSet(orders) \cup {order}
  BY <1>2, <1>4, <1>5, <1>6 DEF ToSet
<1>8. ASSUME IdsOnce(orders), ~Rests(orders, order.id)
      PROVE  IdsOnce(more)
  BY <1>2, <1>4, <1>5, <1>8 DEF IdsOnce, Rests
<1> QED BY <1>2, <1>7, <1>8 DEF more

-----------------------------------------------------------------------------
(* What a trade leaves *)

\* The resting orders with the ids I and the prices P.
RestingOrder(I, P) == [id : I, is_buy : BOOLEAN, price : P, quantity : Quantity]

LEMMA QuantityWraps ==
  ASSUME NEW x \in Int
  PROVE  /\ ToQuantity(x) \in Quantity
         /\ x \in Quantity => ToQuantity(x) = x
         /\ \A d \in Int : ToQuantity(ToQuantity(x) + d) = ToQuantity(x + d)
<1>1. MaxQuantity \in Nat
  BY MaxQuantityAssumption
<1>2. \A y : ToQuantity(y) = Wrap(y, MaxQuantity)
  BY DEF ToQuantity, Wrap
<1>3. Quantity = (-MaxQuantity - 1)..MaxQuantity
  BY DEF Quantity
<1> QED BY <1>1, <1>2, <1>3, WrapType, WrapFits, WrapTwice

\* The orders of a trade that are filled.
IsFilled(order, trade) == order.quantity = 0 /\ order.id \in Parties(trade)
Filled(orders, trade) == {order \in ToSet(orders) : IsFilled(order, trade)}

WithoutFilled(orders, trade) == RemoveFirstMatch(orders, LAMBDA order : IsFilled(order, trade))
FilledPlace(orders, trade) == SelectInSeq(orders, LAMBDA order : IsFilled(order, trade))

LEMMA FirstFilledLeaves ==
  ASSUME NEW S, NEW orders \in Seq(S), NEW trade
  PROVE  /\ WithoutFilled(orders, trade) \in Seq(S)
         /\ IdsOnce(orders) =>
              /\ IdsOnce(WithoutFilled(orders, trade))
              /\ \/ Filled(orders, trade) = {} /\ WithoutFilled(orders, trade) = orders
                 \/ \E order \in Filled(orders, trade) :
                      ToSet(WithoutFilled(orders, trade)) = ToSet(orders) \ {order}
<1> DEFINE I == {i \in 1..Len(orders) : IsFilled(orders[i], trade)}
           k == FilledPlace(orders, trade)
<1>1. DOMAIN orders = 1..Len(orders) /\ Len(orders) \in Nat
  BY LenProperties
<1>2. CASE I = {}
  <2>1. Filled(orders, trade) = {}
    BY <1>1, <1>2 DEF Filled, ToSet
  <2>2. WithoutFilled(orders, trade) = orders
    BY <1>2 DEF WithoutFilled, RemoveFirstMatch
  <2> QED BY <2>1, <2>2
<1>3. CASE I # {}
  <2>1. Min(I) \in I
    BY <1>1, <1>3, FirstIndex
  <2>2. k = Min(I)
    BY <2>1 DEF FilledPlace, SelectInSeq
  <2>3. WithoutFilled(orders, trade) = RemoveAt(orders, k)
    BY <2>1 DEF WithoutFilled, RemoveFirstMatch, FilledPlace
  <2>4. k \in DOMAIN orders /\ orders[k] \in Filled(orders, trade)
    BY <1>1, <2>1, <2>2 DEF Filled, ToSet
  <2> HIDE DEF k
  <2> QED BY <2>3, <2>4, RemoveAtLeaves
<1> QED BY <1>2, <1>3

\* Of at most two filled orders neither stays.
LEMMA UnfilledLeaves ==
  ASSUME NEW S, NEW orders \in Seq(S), IdsOnce(orders),
         NEW trade, NEW a, NEW b, Filled(orders, trade) \subseteq {a, b}
  PROVE  /\ Unfilled(orders, trade) \in Seq(S)
         /\ IdsOnce(Unfilled(orders, trade))
         /\ ToSet(Unfilled(orders, trade)) = ToSet(orders) \ Filled(orders, trade)
<1> DEFINE first == WithoutFilled(orders, trade)
           both == WithoutFilled(first, trade)
<1>1. Unfilled(orders, trade) = both
  BY DEF Unfilled, WithoutFilled, IsFilled
<1>2. /\ first \in Seq(S) /\ IdsOnce(first)
      /\ \/ Filled(orders, trade) = {} /\ first = orders
         \/ \E order \in Filled(orders, trade) : ToSet(first) = ToSet(orders) \ {order}
  BY FirstFilledLeaves
<1> HIDE DEF first
<1>3. /\ both \in Seq(S) /\ IdsOnce(both)
      /\ \/ Filled(first, trade) = {} /\ both = first
         \/ \E order \in Filled(first, trade) : ToSet(both) = ToSet(first) \ {order}
  BY <1>2, FirstFilledLeaves
<1> HIDE DEF both
<1>4. CASE Filled(orders, trade) = {}
  BY <1>1, <1>2, <1>3, <1>4
<1>5. CASE \E order \in Filled(orders, trade) : ToSet(first) = ToSet(orders) \ {order}
  <2>1. PICK order \in Filled(orders, trade) : ToSet(first) = ToSet(orders) \ {order}
    BY <1>5
  <2>2. Filled(first, trade) = Filled(orders, trade) \ {order}
    BY <2>1 DEF Filled
  <2>3. Filled(orders, trade) \subseteq ToSet(orders)
    BY DEF Filled
  <2>4. ToSet(both) = ToSet(orders) \ Filled(orders, trade)
    <3>1. CASE Filled(first, trade) = {} /\ both = first
      BY <2>1, <2>2, <3>1
    <3>2. CASE \E other \in Filled(first, trade) : ToSet(both) = ToSet(first) \ {other}
      BY <2>1, <2>2, <2>3, <3>2
    <3> QED BY <1>3, <3>1, <3>2
  <2> QED BY <1>1, <1>3, <2>4
<1> QED BY <1>2, <1>4, <1>5

\* trade is what the orders at i and j trade.
IsTradeOf(orders, i, j, trade) ==
  /\ i \in DOMAIN orders /\ j \in DOMAIN orders /\ i # j
  /\ trade.buy_order_id = orders[i].id
  /\ trade.sell_order_id = orders[j].id
  /\ trade.quantity = TradeOf(orders[i], orders[j]).quantity

Share(k, i, j, trade) == IF k \in {i, j} THEN trade.quantity ELSE 0

LEMMA ReduceLeaves ==
  ASSUME NEW I, NEW P, NEW orders \in Seq(RestingOrder(I, P)), IdsOnce(orders),
         NEW trade, NEW i, NEW j, IsTradeOf(orders, i, j, trade)
  PROVE  /\ trade.quantity \in Quantity
         /\ Reduce(orders, trade) \in Seq(RestingOrder(I, P))
         /\ IdsOnce(Reduce(orders, trade))
         /\ DOMAIN Reduce(orders, trade) = DOMAIN orders
         /\ \A k \in DOMAIN orders :
              /\ Reduce(orders, trade)[k].id = orders[k].id
              /\ Reduce(orders, trade)[k].is_buy = orders[k].is_buy
              /\ Reduce(orders, trade)[k].price = orders[k].price
              /\ Reduce(orders, trade)[k].quantity
                   = ToQuantity(orders[k].quantity - Share(k, i, j, trade))
         /\ \E k \in {i, j} : Reduce(orders, trade)[k].quantity = 0
<1> DEFINE r == Reduce(orders, trade)
           q == trade.quantity
<1>1. DOMAIN orders = 1..Len(orders) /\ Len(orders) \in Nat
  BY LenProperties
<1>2. \A k \in DOMAIN orders : orders[k] \in RestingOrder(I, P)
  BY <1>1, ElementOfSeq
<1>3. /\ i \in DOMAIN orders /\ j \in DOMAIN orders
      /\ q = IF orders[i].quantity < orders[j].quantity THEN orders[i].quantity ELSE orders[j].quantity
  BY DEF IsTradeOf, TradeOf
<1>4. \A k \in DOMAIN orders : orders[k].quantity \in Quantity
  BY <1>2 DEF RestingOrder
<1>5. q \in Quantity /\ q \in {orders[i].quantity, orders[j].quantity}
  BY <1>3, <1>4
<1>6. \A k \in DOMAIN orders :
        r[k] = IF k \in {i, j} THEN [orders[k] EXCEPT !.quantity = ToQuantity(@ - q)] ELSE orders[k]
  BY DEF Reduce, Parties, IsTradeOf, IdsOnce
<1>7. DOMAIN r = DOMAIN orders
  BY DEF Reduce
<1>8. Quantity \subseteq Int /\ 0 \in Quantity
  BY MaxQuantityAssumption DEF Quantity
<1>9. ASSUME NEW k
       PROVE  /\ k \in {i, j} => Share(k, i, j, trade) = q
              /\ k \notin {i, j} => Share(k, i, j, trade) = 0
  BY Zenon DEF Share
<1>10. ASSUME NEW k \in DOMAIN orders
      PROVE  /\ r[k] \in RestingOrder(I, P) /\ r[k].id = orders[k].id
             /\ r[k].is_buy = orders[k].is_buy /\ r[k].price = orders[k].price
             /\ r[k].quantity = ToQuantity(orders[k].quantity - Share(k, i, j, trade))
  <2> DEFINE left == ToQuantity(orders[k].quantity - Share(k, i, j, trade))
  <2>1. orders[k] \in RestingOrder(I, P) /\ orders[k].quantity \in Quantity
    BY <1>2, <1>4
  <2>2. orders[k].quantity - Share(k, i, j, trade) \in Int
    <3>1. Share(k, i, j, trade) \in Int
      <4>1. q \in Int
        BY <1>5, <1>8
      <4> HIDE DEF q
      <4> QED BY <1>9, <4>1
    <3>2. orders[k].quantity \in Int
      BY <1>8, <2>1
    <3> QED BY <3>1, <3>2
  <2>3. left \in Quantity
    BY <2>2, QuantityWraps
  <2>4. r[k] = [orders[k] EXCEPT !.quantity = left]
    <3>1. CASE k \in {i, j}
      <4>1. Share(k, i, j, trade) = q
        BY <1>9, <3>1
      <4> QED BY <1>6, <3>1, <4>1
    <3>2. CASE k \notin {i, j}
      <4>1. left = orders[k].quantity
        <5>1. orders[k].quantity - Share(k, i, j, trade) = orders[k].quantity
          <6>1. orders[k].quantity \in Int /\ Share(k, i, j, trade) = 0
            BY <1>8, <1>9, <2>1, <3>2
          <6> QED BY <6>1
        <5> QED BY <1>8, <2>1, <5>1, QuantityWraps
      <4>2. r[k] = orders[k]
        BY <1>6, <3>2
      <4> HIDE DEF left, r
      <4> QED BY <2>1, <4>1, <4>2 DEF RestingOrder
    <3> QED BY <3>1, <3>2
  <2> HIDE DEF left, r
  <2>5. r[k] = [id |-> orders[k].id, is_buy |-> orders[k].is_buy, price |-> orders[k].price,
                quantity |-> left]
    BY <2>1, <2>4 DEF RestingOrder
  <2> QED BY <2>1, <2>3, <2>5 DEF RestingOrder, left
<1>11. r \in Seq(RestingOrder(I, P))
  <2>1. r = [k \in 1..Len(orders) |-> r[k]]
    BY <1>1 DEF Reduce
  <2> HIDE DEF r
  <2>2. \A k \in 1..Len(orders) : r[k] \in RestingOrder(I, P)
    BY <1>1, <1>10
  <2> QED BY <1>1, <2>1, <2>2, IsASeq
<1>12. IdsOnce(r)
  BY <1>7, <1>10 DEF IdsOnce
<1>13. PICK k \in {i, j} : q = orders[k].quantity
  BY <1>5
<1>14. r[k].quantity = 0
  <2>1. r[k].quantity = ToQuantity(orders[k].quantity - q)
    <3>1. k \in DOMAIN orders
      BY <1>3, <1>13
    <3>2. Share(k, i, j, trade) = q
      BY <1>9, <1>13
    <3> QED BY <1>10, <3>1, <3>2
  <2>2. orders[k].quantity - q = 0
    <3>1. orders[k].quantity = q /\ q \in Int
      BY <1>5, <1>8, <1>13
    <3> QED BY <3>1
  <2> QED BY <1>8, <2>1, <2>2, QuantityWraps
<1> QED BY <1>5, <1>7, <1>10, <1>11, <1>12, <1>13, <1>14

(***************************************************************************)
(* A trade takes its quantity off its two orders and leaves the others as   *)
(* they were; at least one of the two is filled, and leaves, as does the    *)
(* other only when it is filled.                                            *)
(***************************************************************************)
LEMMA TradeLeaves ==
  ASSUME NEW I, NEW P, NEW orders \in Seq(RestingOrder(I, P)), IdsOnce(orders),
         NEW trade, NEW i, NEW j, IsTradeOf(orders, i, j, trade),
         NEW rest, rest = AfterTrade(orders, trade)
  PROVE  /\ rest \in Seq(RestingOrder(I, P))
         /\ IdsOnce(rest)
         /\ \A order \in ToSet(rest) : \E k \in DOMAIN orders :
              /\ order.id = orders[k].id
              /\ order.quantity = ToQuantity(orders[k].quantity - Share(k, i, j, trade))
         /\ \A k \in DOMAIN orders :
              \/ Rests(rest, orders[k].id)
              \/ k \in {i, j} /\ ToQuantity(orders[k].quantity - Share(k, i, j, trade)) = 0
         /\ ~(Rests(rest, trade.buy_order_id) /\ Rests(rest, trade.sell_order_id))
<1> DEFINE r == Reduce(orders, trade)
<1>1. /\ r \in Seq(RestingOrder(I, P)) /\ IdsOnce(r) /\ DOMAIN r = DOMAIN orders
      /\ \A k \in DOMAIN orders :
              /\ r[k].id = orders[k].id
              /\ r[k].quantity = ToQuantity(orders[k].quantity - Share(k, i, j, trade))
      /\ \E k \in {i, j} : r[k].quantity = 0
  BY ReduceLeaves
<1>2. rest = Unfilled(r, trade)
  BY DEF AfterTrade
<1> HIDE DEF r
<1>3. i \in DOMAIN orders /\ j \in DOMAIN orders
      /\ trade.buy_order_id = orders[i].id /\ trade.sell_order_id = orders[j].id
  BY DEF IsTradeOf
<1>4. \A k \in DOMAIN orders : IsFilled(r[k], trade) <=> k \in {i, j} /\ r[k].quantity = 0
  BY <1>1, <1>3 DEF IsFilled, Parties, IdsOnce
<1>5. Filled(r, trade) \subseteq {r[i], r[j]}
  BY <1>1, <1>4 DEF Filled, ToSet
<1>6. /\ rest \in Seq(RestingOrder(I, P)) /\ IdsOnce(rest)
      /\ ToSet(rest) = ToSet(r) \ Filled(r, trade)
  BY <1>1, <1>2, <1>5, UnfilledLeaves
<1>7. ASSUME NEW order \in ToSet(rest)
      PROVE  \E k \in DOMAIN orders :
               /\ order = r[k] /\ order.id = orders[k].id
               /\ order.quantity = ToQuantity(orders[k].quantity - Share(k, i, j, trade))
  <2>1. order \in ToSet(r)
    BY <1>6
  <2>2. PICK k \in DOMAIN r : order = r[k]
    BY <2>1 DEF ToSet
  <2>3. /\ k \in DOMAIN orders /\ r[k].id = orders[k].id
        /\ r[k].quantity = ToQuantity(orders[k].quantity - Share(k, i, j, trade))
    BY <1>1
  <2> QED BY <2>2, <2>3
<1>8. ASSUME NEW k \in DOMAIN orders, ~IsFilled(r[k], trade)
      PROVE  Rests(rest, orders[k].id)
  <2>1. r[k] \in ToSet(rest)
    BY <1>1, <1>6, <1>8 DEF ToSet, Filled
  <2> QED BY <1>1, <2>1 DEF ToSet, Rests
<1>9. ASSUME NEW k \in DOMAIN orders
      PROVE  \/ Rests(rest, orders[k].id)
             \/ k \in {i, j} /\ ToQuantity(orders[k].quantity - Share(k, i, j, trade)) = 0
  BY <1>1, <1>4, <1>8
<1>10. ASSUME NEW k \in DOMAIN orders, Rests(rest, orders[k].id)
       PROVE  ~IsFilled(r[k], trade)
  <2>1. PICK order \in ToSet(rest) : order.id = orders[k].id
    BY <1>10 DEF Rests, ToSet
  <2>2. PICK l \in DOMAIN orders : order = r[l] /\ order.id = orders[l].id
    BY <1>7
  <2>3. l = k
    BY <2>1, <2>2 DEF IdsOnce
  <2> QED BY <1>6, <2>1, <2>2, <2>3 DEF Filled
<1>11. ~(Rests(rest, trade.buy_order_id) /\ Rests(rest, trade.sell_order_id))
  BY <1>1, <1>3, <1>4, <1>10
<1> QED BY <1>6, <1>7, <1>9, <1>11

\* Whatever the ids, what a trade leaves of orders are orders.
LEMMA TradeLeavesOrders ==
  ASSUME NEW S, NEW orders \in Seq(S), NEW trade, trade.quantity \in Int,
         \A order \in S : order.quantity \in Int,
         \A order \in S, q \in Quantity : [order EXCEPT !.quantity = q] \in S
  PROVE  AfterTrade(orders, trade) \in Seq(S)
<1> DEFINE r == Reduce(orders, trade)
           first == WithoutFilled(r, trade)
<1>1. DOMAIN orders = 1..Len(orders) /\ Len(orders) \in Nat
  BY LenProperties
<1>2. ASSUME NEW k \in 1..Len(orders)
      PROVE  r[k] \in S
  <2>1. orders[k] \in S
    BY <1>2, ElementOfSeq
  <2>2. ToQuantity(orders[k].quantity - trade.quantity) \in Quantity
    <3>1. orders[k].quantity - trade.quantity \in Int
      BY <2>1
    <3> QED BY <3>1, QuantityWraps
  <2> QED BY <1>1, <2>1, <2>2 DEF Reduce
<1>3. r \in Seq(S)
  <2>1. r = [k \in 1..Len(orders) |-> r[k]]
    BY <1>1 DEF Reduce
  <2> HIDE DEF r
  <2> QED BY <1>1, <1>2, <2>1, IsASeq
<1> HIDE DEF r
<1>4. first \in Seq(S)
  BY <1>3, FirstFilledLeaves
<1> HIDE DEF first
<1>5. WithoutFilled(first, trade) \in Seq(S)
  BY <1>4, FirstFilledLeaves
<1> QED BY <1>5 DEF AfterTrade, Unfilled, WithoutFilled, IsFilled, first, r

-----------------------------------------------------------------------------
(* Which orders can trade *)

Better(orders, i, j) ==
  \/ Ahead(orders[i], orders[j])
  \/ orders[i].price = orders[j].price /\ i < j

\* Of some orders of a side one is the best.
LEMMA BestExists ==
  ASSUME NEW I, NEW P, P \subseteq Int, NEW orders \in Seq(RestingOrder(I, P)), NEW is_buy \in BOOLEAN,
         \E i \in DOMAIN orders : orders[i].is_buy = is_buy
  PROVE  \E i \in Best(orders, is_buy) : TRUE
<1> DEFINE side == {i \in DOMAIN orders : orders[i].is_buy = is_buy}
           First(n) == {i \in side : i <= n}
           BestOf(n) == {i \in First(n) : \A j \in First(n) : j # i => Better(orders, i, j)}
           N == {n \in 1..Len(orders) : First(n) # {} /\ BestOf(n) = {}}
<1>1. DOMAIN orders = 1..Len(orders) /\ Len(orders) \in Nat
  BY LenProperties
<1>2. \A i \in DOMAIN orders : orders[i].price \in Int
  <2>1. \A i \in DOMAIN orders : orders[i] \in RestingOrder(I, P)
    BY <1>1, ElementOfSeq
  <2> QED BY <2>1 DEF RestingOrder
<1>3. ASSUME N # {}
      PROVE  FALSE
  <2>1. N \subseteq Nat
    OBVIOUS
  <2>2. PICK n \in N : \A m \in N : n <= m
    BY <1>3, <2>1, NatSetHasLeast
  <2>3. n \in 1..Len(orders) /\ First(n) # {} /\ BestOf(n) = {}
    OBVIOUS
  <2>4. CASE First(n - 1) = {}
    <3>1. First(n) = {n}
      BY <1>1, <2>3, <2>4
    <3> QED BY <2>3, <3>1
  <2>5. CASE First(n - 1) # {}
    <3>1. n \in Nat /\ n <= Len(orders) /\ n - 1 \in Int
      BY <1>1, <2>3
    <3>2. PICK i \in side : i <= n - 1
      BY <2>5
    <3>3. i \in Nat /\ 1 <= i
      BY <1>1, <3>2
    <3>4. n - 1 \in 1..Len(orders)
      BY <1>1, <3>1, <3>2, <3>3
    <3>5. ~(n <= n - 1)
      BY <3>1
    <3>6. n - 1 \notin N
      BY <2>2, <3>5
    <3>7. BestOf(n - 1) # {}
      BY <2>5, <3>4, <3>6
    <3>8. PICK b \in First(n - 1) : \A j \in First(n - 1) : j # b => Better(orders, b, j)
      BY <3>7
    <3>9. \A j \in side : j \in Nat /\ orders[j].price \in Int /\ orders[j].is_buy = is_buy
      BY <1>1, <1>2
    <3>10. \A j \in First(n) : j = n \/ j \in First(n - 1)
      BY <3>1, <3>9
    <3>11. b \in side /\ b < n /\ b \in First(n)
      BY <3>1, <3>8, <3>9
    <3>12. n \in side => n \in First(n)
      BY <3>1
    <3>13. \A j \in First(n - 1) : j \in side /\ j < n
      BY <3>1, <3>9
    <3>14. BestOf(n) = {}
      BY <2>3
    <3>15. \A j \in First(n) : j \in side
      OBVIOUS
    <3> HIDE DEF side, First, N
    <3>16. CASE n \in side /\ Ahead(orders[n], orders[b])
      <4>1. ASSUME NEW j \in First(n), j # n
            PROVE  Better(orders, n, j)
        <5>1. j \in First(n - 1) /\ (j = b \/ Better(orders, b, j)) /\ j \in side
          BY <3>8, <3>10, <3>13, <4>1
        <5> QED BY <3>9, <3>11, <3>16, <5>1 DEF Better, Ahead
      <4> QED BY <3>12, <3>14, <3>16, <4>1
    <3>17. CASE ~(n \in side /\ Ahead(orders[n], orders[b]))
      <4>1. ASSUME NEW j \in First(n), j # b
            PROVE  Better(orders, b, j)
        <5>1. CASE j = n
          BY <3>9, <3>11, <3>15, <3>17, <4>1, <5>1 DEF Better, Ahead
        <5>2. CASE j # n
          BY <3>8, <3>10, <4>1, <5>2
        <5> QED BY <5>1, <5>2
      <4> QED BY <3>11, <3>14, <4>1
    <3> QED BY <3>16, <3>17
  <2> QED BY <2>4, <2>5
<1>4. Len(orders) \in 1..Len(orders) /\ First(Len(orders)) = side /\ side # {}
  BY <1>1
<1>5. PICK i \in side : \A j \in side : j # i => Better(orders, i, j)
  BY <1>3, <1>4
<1>6. i \in Best(orders, is_buy)
  BY <1>1, <1>2, <1>5 DEF Best, Better, Ahead
<1> QED BY <1>6

\* Who can trade: a buy and a sell of which the buy has no lower price.
Crosses(b, s) == b.is_buy /\ ~s.is_buy /\ b.price >= s.price

LEMMA MatchPlaces ==
  ASSUME NEW orders, NEW p \in Matches(orders)
  PROVE  /\ p[1] \in DOMAIN orders /\ p[2] \in DOMAIN orders /\ p[1] # p[2]
         /\ Crosses(orders[p[1]], orders[p[2]])
  BY DEF Matches, Best, Crosses

LEMMA MatchesWhenCrossed ==
  ASSUME NEW I, NEW P, P \subseteq Int, NEW orders \in Seq(RestingOrder(I, P)),
         NEW b \in ToSet(orders), NEW s \in ToSet(orders), Crosses(b, s)
  PROVE  Matches(orders) # {}
<1>1. DOMAIN orders = 1..Len(orders)
  BY LenProperties
<1>2. \A i \in DOMAIN orders : orders[i].price \in Int /\ orders[i].is_buy \in BOOLEAN
  <2>1. \A i \in DOMAIN orders : orders[i] \in RestingOrder(I, P)
    BY <1>1, ElementOfSeq
  <2> QED BY <2>1 DEF RestingOrder
<1>3. PICK i \in DOMAIN orders, j \in DOMAIN orders : b = orders[i] /\ s = orders[j]
  BY DEF ToSet
<1>4. orders[i].is_buy = TRUE /\ orders[j].is_buy = FALSE
  BY <1>2, <1>3 DEF Crosses
<1>5. PICK k \in Best(orders, TRUE) : TRUE
  BY <1>4, BestExists
<1>6. PICK l \in Best(orders, FALSE) : TRUE
  BY <1>4, BestExists
<1>7. /\ k \in DOMAIN orders /\ orders[k].is_buy /\ ~(orders[i].price > orders[k].price)
      /\ l \in DOMAIN orders /\ ~orders[l].is_buy /\ ~(orders[j].price < orders[l].price)
  BY <1>4, <1>5, <1>6 DEF Best, Ahead
<1>8. orders[k].price >= orders[l].price
  BY <1>2, <1>3, <1>7 DEF Crosses
<1>9. <<k, l>> \in Matches(orders)
  BY <1>5, <1>6, <1>8 DEF Matches
<1> QED BY <1>9

\* Fewer orders can trade no more.
LEMMA MatchesOfSubset ==
  ASSUME NEW I, NEW P, P \subseteq Int, NEW orders \in Seq(RestingOrder(I, P)),
         NEW fewer, ToSet(fewer) \subseteq ToSet(orders), Matches(fewer) # {}
  PROVE  Matches(orders) # {}
<1>1. PICK p : p \in Matches(fewer)
  OBVIOUS
<1>2. fewer[p[1]] \in ToSet(orders) /\ fewer[p[2]] \in ToSet(orders) /\ Crosses(fewer[p[1]], fewer[p[2]])
  BY <1>1, MatchPlaces DEF ToSet
<1> QED BY <1>2, MatchesWhenCrossed

=============================================================================
