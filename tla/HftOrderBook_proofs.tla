------------------------- MODULE HftOrderBook_proofs -------------------------
(***************************************************************************)
(* Proofs about the book of the HFT simulator, for any ids, prices and      *)
(* quantities that clients send, and any width of a quantity: its types,    *)
(* levels, lookup and trades, and that it implements PriceTimePriority.     *)
(***************************************************************************)
EXTENDS HftOrderBook, Collections_proofs

NonEmpty(orders) == \A p \in DOMAIN orders : orders[p] # <<>>

Inv == TypeOK /\ NoEmptyLevel /\ LookupSound

(***************************************************************************)
(* Whatever is computed, an int64_t holds a value of its type, which is the *)
(* difference itself if that is not negative.                               *)
(***************************************************************************)
LEMMA LeftType ==
  ASSUME NEW had \in Int, NEW quantity \in Int
  PROVE  Left(had, quantity) \in Quantity
BY WrapType, MaxQuantityAssumption DEF Left, ToQuantity, Wrap, Quantity

LEMMA LeftFits ==
  ASSUME NEW had \in Quantity, NEW quantity \in 0..MaxQuantity, quantity <= had
  PROVE  Left(had, quantity) = had - quantity
<1>1. had - quantity \in (-MaxQuantity - 1)..MaxQuantity
  BY MaxQuantityAssumption DEF Quantity
<1> QED BY <1>1, WrapFits, MaxQuantityAssumption DEF Left, ToQuantity, Wrap

(***************************************************************************)
(* begin() is the highest buy and the lowest sell.                          *)
(***************************************************************************)
LEMMA BestBuyIsHighest ==
  ASSUME NEW orders, IsSide(orders), DOMAIN orders # {}
  PROVE  /\ BestBuy(orders) \in DOMAIN orders
         /\ \A p \in DOMAIN orders : p <= BestBuy(orders)
<1> DEFINE T == {MaxPrice - p : p \in DOMAIN orders}
<1>1. DOMAIN orders \subseteq Int /\ \A p \in DOMAIN orders : p <= MaxPrice
  BY PricesAssumption DEF IsSide
<1>2. T \subseteq Nat /\ T # {}
  BY <1>1, PricesAssumption
<1>3. PICK x \in T : \A y \in T : x <= y
  BY <1>2, NatSetHasLeast
<1>4. PICK p \in DOMAIN orders : x = MaxPrice - p
  OBVIOUS
<1>5. \A r \in DOMAIN orders : MaxPrice - p <= MaxPrice - r
  BY <1>3, <1>4
<1>6. \A r \in DOMAIN orders : r <= p
  BY <1>1, <1>5, PricesAssumption
<1> QED BY <1>6 DEF BestBuy

LEMMA BestSellIsLowest ==
  ASSUME NEW orders, IsSide(orders), DOMAIN orders # {}
  PROVE  /\ BestSell(orders) \in DOMAIN orders
         /\ \A p \in DOMAIN orders : BestSell(orders) <= p
<1> DEFINE T == {p + MaxPrice : p \in DOMAIN orders}
<1>1. DOMAIN orders \subseteq Int /\ \A p \in DOMAIN orders : p >= -MaxPrice
  BY PricesAssumption DEF IsSide
<1>2. T \subseteq Nat /\ T # {}
  BY <1>1, PricesAssumption
<1>3. PICK x \in T : \A y \in T : x <= y
  BY <1>2, NatSetHasLeast
<1>4. PICK p \in DOMAIN orders : x = p + MaxPrice
  OBVIOUS
<1>5. \A r \in DOMAIN orders : p + MaxPrice <= r + MaxPrice
  BY <1>3, <1>4
<1>6. \A r \in DOMAIN orders : p <= r
  BY <1>1, <1>5, PricesAssumption
<1> QED BY <1>6 DEF BestSell

(***************************************************************************)
(* Setting a level changes that level only, and leaves none empty.          *)
(***************************************************************************)
LEMMA LevelType ==
  ASSUME NEW orders, IsSide(orders), NEW p
  PROVE  Level(orders, p) \in Seq(Order)
BY EmptySeq DEF Level, IsSide

LEMMA SetLevelProperties ==
  ASSUME NEW orders, IsSide(orders), NEW price \in Prices, NEW queue \in Seq(Order)
  PROVE  /\ IsSide(SetLevel(orders, price, queue))
         /\ NonEmpty(orders) => NonEmpty(SetLevel(orders, price, queue))
         /\ \A p : Level(SetLevel(orders, price, queue), p) =
                     IF p = price THEN queue ELSE Level(orders, p)
<1> DEFINE D == {r \in DOMAIN orders \cup {price} : r = price => queue # <<>>}
           after == SetLevel(orders, price, queue)
<1>1. after = [p \in D |-> IF p = price THEN queue ELSE orders[p]]
  BY DEF SetLevel
<1>2. DOMAIN after = D /\ \A p \in D : after[p] = IF p = price THEN queue ELSE orders[p]
  BY <1>1
<1>3. IsSide(after)
  BY <1>1, <1>2 DEF IsSide
<1>4. NonEmpty(orders) => NonEmpty(after)
  BY <1>2 DEF NonEmpty
<1>5. \A p : Level(after, p) = IF p = price THEN queue ELSE Level(orders, p)
  BY <1>2 DEF Level
<1> QED BY <1>3, <1>4, <1>5

Has(queue, id) == \E i \in DOMAIN queue : queue[i].order_id = id

\* No two orders of the queue have the id.
Once(queue, id) ==
  \A i, j \in DOMAIN queue : queue[i].order_id = id /\ queue[j].order_id = id => i = j

\* The orders of the queue without a positive quantity are among the doubtful.
Known(queue, doubtful) ==
  \A i \in DOMAIN queue : queue[i].quantity > 0 \/ queue[i].arrived \in doubtful

LEMMA InLevelHas ==
  ASSUME NEW orders, NEW price, NEW id
  PROVE  InLevel(orders, price, id) <=> Has(Level(orders, price), id)
BY DEF InLevel, Has

(***************************************************************************)
(* What the operations on a queue keep in it.                               *)
(***************************************************************************)
LEMMA AppendKeeps ==
  ASSUME NEW queue \in Seq(Order), NEW order \in Order
  PROVE  /\ Append(queue, order) \in Seq(Order)
         /\ \A id : Has(queue, id) \/ id = order.order_id <=> Has(Append(queue, order), id)
         /\ \A id : Once(queue, id) /\ ~(Has(queue, id) /\ id = order.order_id) =>
                     Once(Append(queue, order), id)
         /\ \A doubtful : Known(queue, doubtful) /\ (order.quantity > 0 \/ order.arrived \in doubtful) =>
                           Known(Append(queue, order), doubtful)
<1>1. /\ Append(queue, order) \in Seq(Order)
      /\ DOMAIN queue = 1..Len(queue) /\ Len(queue) \in Nat
      /\ DOMAIN Append(queue, order) = 1..(Len(queue) + 1)
      /\ \A i \in 1..Len(queue) : Append(queue, order)[i] = queue[i]
      /\ Append(queue, order)[Len(queue) + 1] = order
  BY AppendProperties, LenProperties
<1>2. \A i \in 1..(Len(queue) + 1) : i \in 1..Len(queue) \/ i = Len(queue) + 1
  BY <1>1
<1>3. \A i \in 1..Len(queue) : i \in 1..(Len(queue) + 1)
  BY <1>1
<1>4. Len(queue) + 1 \in 1..(Len(queue) + 1)
  BY <1>1
<1>5. \A id : Has(queue, id) \/ id = order.order_id <=> Has(Append(queue, order), id)
  BY <1>1, <1>2, <1>3, <1>4 DEF Has
<1>6. \A id : Once(queue, id) /\ ~(Has(queue, id) /\ id = order.order_id) =>
                Once(Append(queue, order), id)
  BY <1>1, <1>2 DEF Once, Has
<1>7. \A doubtful : Known(queue, doubtful) /\ (order.quantity > 0 \/ order.arrived \in doubtful) =>
                      Known(Append(queue, order), doubtful)
  BY <1>1, <1>2 DEF Known
<1> QED BY <1>1, <1>5, <1>6, <1>7

LEMMA TailKeeps ==
  ASSUME NEW queue \in Seq(Order), queue # <<>>
  PROVE  /\ Tail(queue) \in Seq(Order)
         /\ \A id : Has(queue, id) /\ id # Head(queue).order_id => Has(Tail(queue), id)
         /\ \A id : Has(Tail(queue), id) => Has(queue, id)
         /\ \A id : Once(queue, id) => /\ Once(Tail(queue), id)
                                       /\ id = Head(queue).order_id => ~Has(Tail(queue), id)
         /\ \A doubtful : Known(queue, doubtful) => Known(Tail(queue), doubtful)
<1>1. /\ Tail(queue) \in Seq(Order)
      /\ Len(Tail(queue)) = Len(queue) - 1
      /\ \A i \in 1..Len(Tail(queue)) : Tail(queue)[i] = queue[i + 1]
      /\ Head(queue) = queue[1]
  BY HeadTailProperties
<1>2. DOMAIN queue = 1..Len(queue) /\ DOMAIN Tail(queue) = 1..Len(Tail(queue)) /\ Len(queue) \in Nat
  BY <1>1, LenProperties
<1>3. ASSUME NEW i \in DOMAIN queue, i # 1
      PROVE  i - 1 \in DOMAIN Tail(queue) /\ Tail(queue)[i - 1] = queue[i]
  BY <1>1, <1>2, <1>3
<1>4. ASSUME NEW i \in DOMAIN Tail(queue)
      PROVE  i + 1 \in DOMAIN queue /\ i + 1 # 1 /\ Tail(queue)[i] = queue[i + 1]
  BY <1>1, <1>2, <1>4
<1>5. \A i, j \in DOMAIN Tail(queue) : i + 1 = j + 1 => i = j
  BY <1>2
<1>6. 1 \in DOMAIN queue
  BY <1>2, EmptySeq
<1>7. \A id : Once(queue, id) => /\ Once(Tail(queue), id)
                                 /\ id = Head(queue).order_id => ~Has(Tail(queue), id)
  BY <1>1, <1>4, <1>5, <1>6 DEF Once, Has
<1>8. \A doubtful : Known(queue, doubtful) => Known(Tail(queue), doubtful)
  BY <1>4 DEF Known
<1>9. /\ \A id : Has(queue, id) /\ id # Head(queue).order_id => Has(Tail(queue), id)
      /\ \A id : Has(Tail(queue), id) => Has(queue, id)
  BY <1>1, <1>3, <1>4 DEF Has
<1> QED BY <1>1, <1>7, <1>8, <1>9

\* WithoutFirst takes out one order with the id, and the others move up.
LEMMA WithoutFirstIs ==
  ASSUME NEW queue \in Seq(Order), NEW id, Has(queue, id)
  PROVE  /\ WithoutFirst(queue, id) \in Seq(Order)
         /\ Len(WithoutFirst(queue, id)) = Len(queue) - 1
         /\ \E k \in 1..Len(queue) :
              /\ queue[k].order_id = id
              /\ \A i \in 1..(Len(queue) - 1) :
                   WithoutFirst(queue, id)[i] = queue[IF i < k THEN i ELSE i + 1]
<1>1. DOMAIN queue = 1..Len(queue) /\ Len(queue) \in Nat
  BY LenProperties
<1> DEFINE T == {i \in DOMAIN queue : queue[i].order_id = id}
<1>2. T \subseteq Nat /\ T # {}
  BY <1>1 DEF Has
<1> HIDE DEF T
<1>20. PICK x \in T : \A y \in T : x <= y
  BY <1>2, NatSetHasLeast
<1> USE DEF T
<1>3. \E i \in DOMAIN queue : /\ queue[i].order_id = id
                              /\ \A j \in 1..(i - 1) : queue[j].order_id # id
  BY <1>1, <1>20
<1>4. PICK k \in DOMAIN queue : queue[k].order_id = id /\ WithoutFirst(queue, id) = RemoveAt(queue, k)
  BY <1>3 DEF WithoutFirst
<1> DEFINE a == SubSeq(queue, 1, k - 1)
           b == SubSeq(queue, k + 1, Len(queue))
<1>5. \A i \in 1..Len(queue) : queue[i] \in Order
  BY ElementOfSeq
<1>6. a \in Seq(Order) /\ Len(a) = k - 1 /\ \A i \in 1..(k - 1) : a[i] = queue[i]
  <2>1. \A i \in 1..(k - 1) : queue[i] \in Order
    BY <1>1, <1>5
  <2>2. /\ a \in Seq(Order)
        /\ Len(a) = IF 1 <= k - 1 THEN (k - 1) - 1 + 1 ELSE 0
        /\ \A i \in 1..((k - 1) - 1 + 1) : a[i] = queue[1 + i - 1]
    BY <1>1, <2>1, SubSeqProperties
  <2> QED BY <1>1, <2>2
<1>7. /\ b \in Seq(Order) /\ Len(b) = Len(queue) - k
      /\ \A i \in 1..(Len(queue) - k) : b[i] = queue[k + i]
  <2>1. \A i \in (k + 1)..Len(queue) : queue[i] \in Order
    BY <1>1, <1>5
  <2>2. /\ b \in Seq(Order)
        /\ Len(b) = IF k + 1 <= Len(queue) THEN Len(queue) - (k + 1) + 1 ELSE 0
        /\ \A i \in 1..(Len(queue) - (k + 1) + 1) : b[i] = queue[(k + 1) + i - 1]
    BY <1>1, <2>1, SubSeqProperties
  <2>3. k \in Nat /\ 1 <= k /\ k <= Len(queue)
    BY <1>1
  <2>4. Len(b) = Len(queue) - k
    <3> DEFINE m == Len(b)
               n == Len(queue)
    <3>1. n \in Nat /\ k \in Nat /\ k <= n
      BY <1>1, <2>3
    <3>2. m = IF k + 1 <= n THEN n - (k + 1) + 1 ELSE 0
      BY <2>2
    <3> HIDE DEF m, n
    <3>3. m = n - k
      BY <3>1, <3>2
    <3> QED BY <3>3 DEF m, n
  <2>5. ASSUME NEW i \in 1..(Len(queue) - k)
        PROVE  b[i] = queue[k + i]
    <3> HIDE DEF b
    <3>1. Len(queue) - (k + 1) + 1 = Len(queue) - k /\ (k + 1) + i - 1 = k + i
      BY <1>1, <2>3
    <3> QED BY <2>2, <3>1
  <2> QED BY <2>2, <2>4, <2>5
<1> HIDE DEF a, b
<1>8. /\ a \o b \in Seq(Order)
      /\ Len(a \o b) = Len(a) + Len(b)
      /\ \A i \in 1..(Len(a) + Len(b)) : (a \o b)[i] = IF i <= Len(a) THEN a[i] ELSE b[i - Len(a)]
  BY <1>6, <1>7, ConcatProperties
<1>9. WithoutFirst(queue, id) = a \o b
  BY <1>4 DEF RemoveAt, a, b
<1>10. k \in 1..Len(queue) /\ k \in Nat /\ Len(queue) \in Nat
  BY <1>1
<1>13. Len(a) = k - 1 /\ Len(b) = Len(queue) - k
  BY <1>6, <1>7
<1>14. Len(a) + Len(b) = Len(queue) - 1
  BY <1>10, <1>13
<1>15. DOMAIN (a \o b) = 1..(Len(queue) - 1)
  BY <1>8, <1>14, LenProperties
<1>16. /\ \A i \in 1..(k - 1) : (a \o b)[i] = queue[i]
       /\ \A i \in k..(Len(queue) - 1) : (a \o b)[i] = queue[i + 1]
  <2>1. ASSUME NEW i \in 1..(k - 1)
        PROVE  (a \o b)[i] = queue[i]
    <3>1. i \in 1..(Len(queue) - 1) /\ i <= k - 1
      BY <1>10
    <3> QED BY <1>6, <1>8, <1>13, <1>14, <3>1
  <2>2. ASSUME NEW i \in k..(Len(queue) - 1)
        PROVE  (a \o b)[i] = queue[i + 1]
    <3>1. i \in 1..(Len(queue) - 1) /\ ~(i <= k - 1) /\ i \in Nat
      BY <1>10
    <3>2. (a \o b)[i] = b[i - Len(a)]
      BY <1>8, <1>13, <1>14, <3>1
    <3>3. i - Len(a) = i - k + 1 /\ i - k + 1 \in 1..(Len(queue) - k) /\ k + (i - k + 1) = i + 1
      BY <1>10, <1>13, <3>1
    <3> QED BY <1>7, <3>2, <3>3
  <2> QED BY <2>1, <2>2
<1>17. ASSUME NEW i \in 1..(Len(queue) - 1)
       PROVE  (a \o b)[i] = queue[IF i < k THEN i ELSE i + 1]
  <2>1. i \in 1..(k - 1) \/ (i \in k..(Len(queue) - 1) /\ ~(i < k))
    BY <1>10
  <2>2. i \in 1..(k - 1) => i < k
    BY <1>10
  <2> QED BY <1>16, <2>1, <2>2
<1> QED BY <1>4, <1>8, <1>9, <1>10, <1>14, <1>17

LEMMA WithoutFirstKeeps ==
  ASSUME NEW queue \in Seq(Order), NEW id, Has(queue, id)
  PROVE  /\ WithoutFirst(queue, id) \in Seq(Order)
         /\ \A other : Has(queue, other) /\ other # id => Has(WithoutFirst(queue, id), other)
         /\ \A other : Has(WithoutFirst(queue, id), other) => Has(queue, other)
         /\ \A other : Once(queue, other) => Once(WithoutFirst(queue, id), other)
         /\ Once(queue, id) => ~Has(WithoutFirst(queue, id), id)
         /\ \A doubtful : Known(queue, doubtful) => Known(WithoutFirst(queue, id), doubtful)
<1> DEFINE rest == WithoutFirst(queue, id)
<1>1. DOMAIN queue = 1..Len(queue) /\ Len(queue) \in Nat
  BY LenProperties
<1>2. rest \in Seq(Order) /\ Len(rest) = Len(queue) - 1
  BY WithoutFirstIs
<1>3. PICK k \in 1..Len(queue) :
        /\ queue[k].order_id = id
        /\ \A i \in 1..(Len(queue) - 1) : rest[i] = queue[IF i < k THEN i ELSE i + 1]
  BY WithoutFirstIs
<1> HIDE DEF rest
<1>4. DOMAIN rest = 1..(Len(queue) - 1)
  BY <1>2, LenProperties
<1> DEFINE at(j) == IF j < k THEN j ELSE j + 1
           to(i) == IF i < k THEN i ELSE i - 1
<1>5. /\ \A j \in 1..(Len(queue) - 1) : at(j) \in 1..Len(queue) /\ at(j) # k
      /\ \A i, j \in 1..(Len(queue) - 1) : at(i) = at(j) => i = j
      /\ \A i \in 1..Len(queue) : i # k => to(i) \in 1..(Len(queue) - 1) /\ at(to(i)) = i
  BY <1>1
<1>6. \A j \in 1..(Len(queue) - 1) : rest[j] = queue[at(j)]
  BY <1>3
<1> HIDE DEF at, to
<1>7. \A other : Has(queue, other) /\ other # id => Has(rest, other)
  <2> SUFFICES ASSUME NEW i \in 1..Len(queue), queue[i].order_id # id
               PROVE  \E j \in 1..(Len(queue) - 1) : rest[j] = queue[i]
    BY <1>1, <1>4 DEF Has
  <2> QED BY <1>3, <1>5, <1>6
<1>8. \A other : Has(rest, other) => Has(queue, other)
  BY <1>1, <1>4, <1>5, <1>6 DEF Has
<1>9. Once(queue, id) => ~Has(rest, id)
  <2> SUFFICES ASSUME Once(queue, id), Has(rest, id)
               PROVE  FALSE
    OBVIOUS
  <2>1. PICK j \in 1..(Len(queue) - 1) : rest[j].order_id = id
    BY <1>4 DEF Has
  <2>2. at(j) \in 1..Len(queue) /\ at(j) # k /\ queue[at(j)].order_id = id /\ queue[k].order_id = id
    BY <1>3, <1>5, <1>6, <2>1
  <2> QED BY <1>1, <2>2 DEF Once
<1>10. ASSUME NEW other, Once(queue, other)
       PROVE  Once(rest, other)
  <2> SUFFICES ASSUME NEW i \in 1..(Len(queue) - 1), NEW j \in 1..(Len(queue) - 1),
                      rest[i].order_id = other, rest[j].order_id = other
               PROVE  i = j
    BY <1>4 DEF Once
  <2>1. at(i) = at(j)
    BY <1>1, <1>5, <1>6, <1>10 DEF Once
  <2> QED BY <1>5, <2>1
<1>11. \A doubtful : Known(queue, doubtful) => Known(rest, doubtful)
  BY <1>1, <1>4, <1>5, <1>6 DEF Known
<1> QED BY <1>2, <1>7, <1>8, <1>9, <1>10, <1>11 DEF rest

\* The front order leaves its queue if it is filled, or stays with what is left.
LEMMA TradedIs ==
  ASSUME NEW queue \in Seq(Order), queue # <<>>, NEW quantity \in Int,
         NEW left, left = Left(Head(queue).quantity, quantity)
  PROVE  /\ Traded(queue, quantity) \in Seq(Order)
         /\ left = 0 => Traded(queue, quantity) = Tail(queue)
         /\ left # 0 =>
              /\ DOMAIN Traded(queue, quantity) = DOMAIN queue
              /\ \A j \in DOMAIN queue : Traded(queue, quantity)[j] =
                   IF j = 1 THEN [Head(queue) EXCEPT !.quantity = left] ELSE queue[j]
<1>1. DOMAIN queue = 1..Len(queue) /\ Len(queue) \in Nat \ {0} /\ Head(queue) = queue[1]
  BY EmptySeq, LenProperties, HeadTailProperties
<1>2. queue[1] \in Order
  BY <1>1, ElementOfSeq
<1>3. CASE left = 0
  BY <1>3, HeadTailProperties DEF Traded
<1>4. CASE left # 0
  <2> DEFINE front == [Head(queue) EXCEPT !.quantity = left]
  <2>1. Traded(queue, quantity) = [queue EXCEPT ![1] = front]
    BY <1>1, <1>4 DEF Traded
  <2>2. left \in Quantity
    <3>1. queue[1].quantity \in Int
      BY <1>2, MaxQuantityAssumption DEF Order, Quantity
    <3> QED BY <1>1, <3>1, LeftType
  <2>3. front \in Order
    BY <1>1, <1>2, <2>2 DEF Order
  <2> HIDE DEF front
  <2>4. /\ Traded(queue, quantity) \in Seq(Order)
        /\ DOMAIN Traded(queue, quantity) = DOMAIN queue
        /\ \A j \in DOMAIN queue :
             Traded(queue, quantity)[j] = IF j = 1 THEN front ELSE queue[j]
    BY <1>1, <2>1, <2>3, ExceptSeq, LenProperties
  <2> QED BY <1>4, <2>4 DEF front
<1> QED BY <1>3, <1>4

\* An id leaves the queue whose front order trades only if that order is filled.
LEMMA TradedKeeps ==
  ASSUME NEW queue \in Seq(Order), queue # <<>>, NEW quantity \in Int
  PROVE  /\ Traded(queue, quantity) \in Seq(Order)
         /\ \A id : /\ Has(queue, id)
                    /\ Left(Head(queue).quantity, quantity) = 0 => id # Head(queue).order_id
                    => Has(Traded(queue, quantity), id)
         /\ \A id : Has(Traded(queue, quantity), id) => Has(queue, id)
         /\ \A id : Once(queue, id) =>
              /\ Once(Traded(queue, quantity), id)
              /\ Left(Head(queue).quantity, quantity) = 0 /\ id = Head(queue).order_id =>
                   ~Has(Traded(queue, quantity), id)
<1> DEFINE left == Left(Head(queue).quantity, quantity)
<1>1. /\ Traded(queue, quantity) \in Seq(Order)
      /\ left = 0 => Traded(queue, quantity) = Tail(queue)
      /\ left # 0 =>
           /\ DOMAIN Traded(queue, quantity) = DOMAIN queue
           /\ \A j \in DOMAIN queue : Traded(queue, quantity)[j] =
                IF j = 1 THEN [Head(queue) EXCEPT !.quantity = left] ELSE queue[j]
  BY TradedIs
<1>2. CASE left = 0
  BY <1>1, <1>2, TailKeeps
<1>3. CASE left # 0
  <2>1. DOMAIN queue = 1..Len(queue) /\ Len(queue) \in Nat \ {0} /\ Head(queue) = queue[1]
    BY EmptySeq, LenProperties, HeadTailProperties
  <2>2. queue[1] \in Order
    BY <2>1, ElementOfSeq
  <2>3. \A j \in DOMAIN queue : Traded(queue, quantity)[j].order_id = queue[j].order_id
    BY <1>1, <1>3, <2>1, <2>2 DEF Order
  <2> QED BY <1>1, <1>3, <2>3 DEF Has, Once
<1> QED BY <1>2, <1>3

-----------------------------------------------------------------------------
LEMMA InitInv == Init => Inv
<1>1. DOMAIN NoOrders = {} /\ NoOrders \in [{} -> Seq(Order)]
  BY DEF NoOrders
<1>2. Init => IsSide(buy_orders) /\ IsSide(sell_orders)
  BY <1>1 DEF Init, IsSide
<1>4. Init => /\ DOMAIN order_lookup = {} /\ order_lookup \in [{} -> Prices]
              /\ matching = FALSE /\ trades = <<>> /\ clock = 0
              /\ shared = {} /\ suspect = {}
  BY DEF Init
<1>5. Init => TypeOK
  <2>1. 0 \in 0..MaxClock /\ {} \subseteq Ids /\ {} \subseteq Prices
    BY MaxClockAssumption
  <2>2. ASSUME Init
        PROVE  TypeOK
    <3>1. order_lookup \in [DOMAIN order_lookup -> Prices]
      BY <1>4, <2>2
    <3>2. DOMAIN order_lookup \subseteq Ids /\ matching \in BOOLEAN /\ trades \in Seq(Trade)
          /\ shared \subseteq Ids /\ suspect \subseteq 0..MaxClock
      BY <1>4, <2>1, <2>2, EmptySeq
    <3>3. clock \in 0..MaxClock
      BY <1>4, <2>1, <2>2
    <3> QED BY <1>2, <2>2, <3>1, <3>2, <3>3 DEF TypeOK
  <2> QED BY <2>2
<1>3. Init => NoEmptyLevel /\ LookupSound
  BY <1>1 DEF Init, NoEmptyLevel, LookupSound
<1> QED BY <1>3, <1>5 DEF Inv

\* A side has its type and no empty level, and what is said of an id is so.
Sided(orders) == IsSide(orders) /\ NonEmpty(orders)

LEMMA InvSides == Inv <=> /\ Sided(buy_orders) /\ Sided(sell_orders)
                          /\ TypeOK /\ LookupSound
BY DEF Inv, TypeOK, NoEmptyLevel, Sided, NonEmpty

LEMMA AddOrderKeepsInv ==
  ASSUME Inv, NEW id \in Ids, NEW is_buy \in BOOLEAN, NEW quantity \in SubmitQuantities,
         NEW price \in Prices, add_order(id, is_buy, quantity, price)
  PROVE  Inv'
<1> DEFINE order == [order_id |-> id, quantity |-> quantity, arrived |-> clock]
           Added(orders) == SetLevel(orders, price, Append(Level(orders, price), order))
<1>1. order \in Order
  BY QuantitiesAssumption DEF Inv, TypeOK, Order, Quantity
<1>2. clock + 1 \in 0..MaxClock
  BY MaxClockAssumption DEF Inv, TypeOK, add_order
<1>3. ASSUME NEW orders, Sided(orders)
      PROVE  /\ Sided(Added(orders))
             /\ \A p, i : InLevel(orders, p, i) => InLevel(Added(orders), p, i)
             /\ InLevel(Added(orders), price, id)
  <2>1. Level(orders, price) \in Seq(Order)
    BY <1>3, LevelType DEF Sided
  <2>2. /\ Append(Level(orders, price), order) \in Seq(Order)
        /\ \A i : Has(Level(orders, price), i) \/ i = id => Has(Append(Level(orders, price), order), i)
    BY <1>1, <2>1, AppendKeeps
  <2>3. /\ Sided(Added(orders))
        /\ \A p : Level(Added(orders), p) =
                    IF p = price THEN Append(Level(orders, price), order) ELSE Level(orders, p)
    <3> DEFINE longer == Append(Level(orders, price), order)
    <3>1. IsSide(orders) /\ NonEmpty(orders) /\ longer \in Seq(Order)
      BY <1>3, <2>2 DEF Sided
    <3> HIDE DEF longer
    <3>2. /\ IsSide(SetLevel(orders, price, longer)) /\ NonEmpty(SetLevel(orders, price, longer))
          /\ \A p : Level(SetLevel(orders, price, longer), p) =
                      IF p = price THEN longer ELSE Level(orders, p)
      BY <3>1, SetLevelProperties
    <3> QED BY <3>2 DEF Sided, longer
  <2> QED BY <2>2, <2>3, InLevelHas
<1>4. /\ buy_orders' = IF is_buy THEN Added(buy_orders) ELSE buy_orders
      /\ sell_orders' = IF is_buy THEN sell_orders ELSE Added(sell_orders)
      /\ order_lookup' = [i \in DOMAIN order_lookup \cup {id} |->
                            IF i = id THEN price ELSE order_lookup[i]]
      /\ matching' = TRUE /\ clock' = clock + 1 /\ trades' = trades
      /\ shared' \subseteq shared \cup {id} /\ suspect' \subseteq suspect \cup {clock}
  BY DEF add_order
<1> HIDE DEF Added, order
<1>5. Sided(buy_orders)' /\ Sided(sell_orders)'
  BY <1>3, <1>4, InvSides DEF Sided, IsSide, NonEmpty
<1>6. TypeOK'
  BY <1>2, <1>4, <1>5 DEF Inv, TypeOK, Sided, IsSide
<1>7. LookupSound'
  <2> SUFFICES ASSUME NEW i \in DOMAIN order_lookup'
               PROVE  InLevel(buy_orders', order_lookup'[i], i)
                      \/ InLevel(sell_orders', order_lookup'[i], i)
    BY DEF LookupSound, InLevel, Level
  <2>1. CASE i = id
    BY <1>3, <1>4, <2>1, InvSides
  <2>2. CASE i # id
    <3>1. i \in DOMAIN order_lookup /\ order_lookup'[i] = order_lookup[i]
      BY <1>4, <2>2
    <3>2. InLevel(buy_orders, order_lookup[i], i) \/ InLevel(sell_orders, order_lookup[i], i)
      BY <3>1 DEF Inv, LookupSound
    <3> QED BY <1>3, <1>4, <3>1, <3>2, InvSides
  <2> QED BY <2>1, <2>2
<1> QED BY <1>5, <1>6, <1>7 DEF Inv, NoEmptyLevel, Sided, NonEmpty

LEMMA CancelOrderKeepsInv ==
  ASSUME Inv, NEW id \in Ids, cancel_order(id)
  PROVE  Inv'
<1> DEFINE price == order_lookup[id]
           Removed(orders) == SetLevel(orders, price, WithoutFirst(orders[price], id))
<1>1. price \in Prices
  BY DEF cancel_order, Inv, TypeOK
<1>2. ASSUME NEW orders, Sided(orders), InLevel(orders, price, id)
      PROVE  /\ Sided(Removed(orders))
             /\ \A p, i : i # id /\ InLevel(orders, p, i) => InLevel(Removed(orders), p, i)
  <2> DEFINE queue == orders[price]
  <2>1. price \in DOMAIN orders /\ Level(orders, price) = queue
    BY <1>2 DEF InLevel, Level
  <2>2. queue \in Seq(Order) /\ Has(queue, id)
    BY <1>2, <2>1, InLevelHas DEF Sided, IsSide
  <2> HIDE DEF queue
  <2>3. /\ WithoutFirst(queue, id) \in Seq(Order)
        /\ \A i : Has(queue, i) /\ i # id => Has(WithoutFirst(queue, id), i)
    BY <2>2, WithoutFirstKeeps
  <2>4. /\ Sided(Removed(orders))
        /\ \A p : Level(Removed(orders), p) =
                    IF p = price THEN WithoutFirst(queue, id) ELSE Level(orders, p)
    BY <1>1, <1>2, <2>3, SetLevelProperties DEF Sided, queue
  <2> QED BY <2>1, <2>3, <2>4, InLevelHas
<1>3. /\ \/ InLevel(buy_orders, price, id) /\ buy_orders' = Removed(buy_orders)
            /\ sell_orders' = sell_orders
         \/ InLevel(sell_orders, price, id) /\ sell_orders' = Removed(sell_orders)
            /\ buy_orders' = buy_orders
      /\ order_lookup' = Forget(order_lookup, {id})
      /\ UNCHANGED <<matching, trades, clock, history>>
  BY DEF cancel_order
<1> HIDE DEF Removed
<1>4. Sided(buy_orders) /\ Sided(sell_orders)
  BY InvSides
<1>5. Sided(buy_orders)' /\ Sided(sell_orders)'
  BY <1>2, <1>3, <1>4 DEF Sided, IsSide, NonEmpty
<1>6. /\ DOMAIN order_lookup' = DOMAIN order_lookup \ {id}
      /\ \A i \in DOMAIN order_lookup' : order_lookup'[i] = order_lookup[i]
      /\ order_lookup' \in [DOMAIN order_lookup' -> Prices]
  BY <1>3 DEF Forget, Inv, TypeOK
<1>7. TypeOK'
  BY <1>3, <1>5, <1>6 DEF Inv, TypeOK, Sided, IsSide, history
<1>8. LookupSound'
  <2> SUFFICES ASSUME NEW i \in DOMAIN order_lookup'
               PROVE  InLevel(buy_orders', order_lookup'[i], i)
                      \/ InLevel(sell_orders', order_lookup'[i], i)
    BY DEF LookupSound, InLevel, Level
  <2>1. i # id /\ (\/ InLevel(buy_orders, order_lookup'[i], i)
                   \/ InLevel(sell_orders, order_lookup'[i], i))
    BY <1>6 DEF Inv, LookupSound
  <2> QED BY <1>2, <1>3, <1>4, <2>1
<1> QED BY <1>5, <1>7, <1>8 DEF Inv, NoEmptyLevel, Sided, NonEmpty

LEMMA MatchOrdersKeepsInv ==
  ASSUME Inv, match_orders
  PROVE  Inv'
<1> DEFINE best_buy == BestBuy(buy_orders)
           best_sell == BestSell(sell_orders)
           buy == Head(buy_orders[best_buy])
           sell == Head(sell_orders[best_sell])
           quantity == IF sell.quantity < buy.quantity THEN sell.quantity ELSE buy.quantity
           After(orders, best) == SetLevel(orders, best, Traded(orders[best], quantity))
           filled == Filled({buy, sell}, quantity)
           trade == [buy_order_id |-> buy.arrived, sell_order_id |-> sell.arrived,
                     price |-> best_sell, quantity |-> quantity]
<1>1. Sided(buy_orders) /\ Sided(sell_orders)
  BY InvSides
<1>2. best_buy \in DOMAIN buy_orders /\ best_sell \in DOMAIN sell_orders
  BY <1>1, BestBuyIsHighest, BestSellIsLowest DEF match_orders, Matchable, Sided
<1>3. ASSUME NEW orders, Sided(orders), NEW best \in DOMAIN orders
      PROVE  /\ orders[best] \in Seq(Order) /\ orders[best] # <<>>
             /\ Level(orders, best) = orders[best] /\ best \in Prices
             /\ Head(orders[best]) \in Order
  <2>1. /\ orders[best] \in Seq(Order) /\ orders[best] # <<>>
        /\ Level(orders, best) = orders[best] /\ best \in Prices
    BY <1>3 DEF Sided, IsSide, NonEmpty, Level
  <2> QED BY <2>1, HeadTailProperties
<1>4. buy \in Order /\ sell \in Order
  BY <1>1, <1>2, <1>3
<1>5. quantity \in Int /\ trade \in Trade
  <2>1. quantity \in Quantity /\ buy.arrived \in 0..MaxClock /\ sell.arrived \in 0..MaxClock
    BY <1>4 DEF Order
  <2>2. best_sell \in Prices
    BY <1>1, <1>2, <1>3
  <2> HIDE DEF quantity, best_sell, buy, sell
  <2> QED BY <2>1, <2>2, MaxQuantityAssumption DEF Quantity, Trade
<1>6. /\ buy_orders' = After(buy_orders, best_buy)
      /\ sell_orders' = After(sell_orders, best_sell)
      /\ order_lookup' = Forget(order_lookup, filled)
      /\ trades' = Append(trades, trade)
      /\ suspect' \subseteq suspect \cup {buy.arrived, sell.arrived}
      /\ UNCHANGED <<matching, clock, shared>>
  BY DEF match_orders
<1>7. \A order \in {buy, sell} : Left(order.quantity, quantity) = 0 => order.order_id \in filled
  BY DEF Filled
<1> HIDE DEF filled, quantity, trade
<1>8. ASSUME NEW orders, Sided(orders), NEW best \in DOMAIN orders, Head(orders[best]) \in {buy, sell}
      PROVE  /\ Sided(After(orders, best))
             /\ \A p, i : i \notin filled /\ InLevel(orders, p, i) => InLevel(After(orders, best), p, i)
  <2>1. /\ Traded(orders[best], quantity) \in Seq(Order)
        /\ \A i : /\ Has(orders[best], i)
                  /\ Left(Head(orders[best]).quantity, quantity) = 0 => i # Head(orders[best]).order_id
                  => Has(Traded(orders[best], quantity), i)
    BY <1>3, <1>5, <1>8, TradedKeeps
  <2>2. /\ Sided(After(orders, best))
        /\ \A p : Level(After(orders, best), p) =
                    IF p = best THEN Traded(orders[best], quantity) ELSE Level(orders, p)
    BY <1>3, <1>8, <2>1, SetLevelProperties DEF Sided
  <2>3. \A i : i \notin filled /\ Has(orders[best], i) => Has(Traded(orders[best], quantity), i)
    BY <1>7, <1>8, <2>1
  <2> QED BY <1>3, <1>8, <2>2, <2>3, InLevelHas
<1>9. /\ Sided(buy_orders') /\ Sided(sell_orders')
      /\ \A p, i : i \notin filled =>
           /\ InLevel(buy_orders, p, i) => InLevel(buy_orders', p, i)
           /\ InLevel(sell_orders, p, i) => InLevel(sell_orders', p, i)
  BY <1>1, <1>2, <1>6, <1>8
<1>10. /\ DOMAIN order_lookup' = DOMAIN order_lookup \ filled
       /\ \A i \in DOMAIN order_lookup' : order_lookup'[i] = order_lookup[i]
       /\ order_lookup' \in [DOMAIN order_lookup' -> Prices]
  BY <1>6 DEF Forget, Inv, TypeOK
<1>11. TypeOK'
  <2>1. trades' \in Seq(Trade)
    BY <1>5, <1>6, AppendProperties DEF Inv, TypeOK
  <2>2. suspect' \subseteq 0..MaxClock
    BY <1>4, <1>6 DEF Inv, TypeOK, Order
  <2> QED BY <1>6, <1>9, <1>10, <2>1, <2>2 DEF Inv, TypeOK, Sided, IsSide
<1>12. LookupSound'
  <2> SUFFICES ASSUME NEW i \in DOMAIN order_lookup'
               PROVE  InLevel(buy_orders', order_lookup'[i], i)
                      \/ InLevel(sell_orders', order_lookup'[i], i)
    BY DEF LookupSound, InLevel, Level
  <2>1. i \notin filled /\ (\/ InLevel(buy_orders, order_lookup'[i], i)
                            \/ InLevel(sell_orders, order_lookup'[i], i))
    BY <1>10 DEF Inv, LookupSound
  <2> QED BY <1>9, <2>1
<1> QED BY <1>9, <1>11, <1>12 DEF Inv, NoEmptyLevel, Sided, NonEmpty

LEMMA NextKeepsInv == Inv /\ [Next]_vars => Inv'
<1> SUFFICES ASSUME Inv, [Next]_vars
             PROVE  Inv'
  OBVIOUS
<1>1. CASE \E id \in Ids, is_buy \in BOOLEAN, quantity \in SubmitQuantities, price \in Prices :
             add_order(id, is_buy, quantity, price)
  BY <1>1, AddOrderKeepsInv
<1>2. CASE \E id \in Ids : cancel_order(id)
  BY <1>2, CancelOrderKeepsInv
<1>3. CASE match_orders
  BY <1>3, MatchOrdersKeepsInv
<1>4. CASE Matched
  BY <1>4 DEF Matched, sides, history, Inv, TypeOK, IsSide, NoEmptyLevel, LookupSound, InLevel, Level
<1>5. CASE UNCHANGED vars
  BY <1>5 DEF vars, sides, history, Inv, TypeOK, IsSide, NoEmptyLevel, LookupSound, InLevel, Level
<1> QED BY <1>1, <1>2, <1>3, <1>4, <1>5 DEF Next

LEMMA Invariance == Spec => []Inv
BY InitInv, NextKeepsInv, PTL DEF Spec

\* The variables have their types, whatever quantities clients send.
THEOREM TypeCorrect == Spec => []TypeOK
BY Invariance, PTL DEF Inv

(***************************************************************************)
(* get_quote never reads the front of an empty queue, and match_orders is   *)
(* never stopped by one.                                                    *)
(***************************************************************************)
THEOREM LevelsNeverEmpty == Spec => []NoEmptyLevel
BY Invariance, PTL DEF Inv

(***************************************************************************)
(* Whatever ids clients use, and use again, cancel_order finds an order     *)
(* wherever order_lookup sends it.                                          *)
(***************************************************************************)
THEOREM LookupCorrect == Spec => []LookupSound
BY Invariance, PTL DEF Inv

-----------------------------------------------------------------------------
(***************************************************************************)
(* Orders with ids of their own.  An id is shared once it is given to an    *)
(* order while another of that id rests; one that is not is at one place of *)
(* the book at most, and that is where order_lookup sends it.               *)
(***************************************************************************)
In(p, id) == InLevel(buy_orders, p, id) \/ InLevel(sell_orders, p, id)

Alone(id) ==
  /\ \A p : Once(Level(buy_orders, p), id) /\ Once(Level(sell_orders, p), id)
  /\ \A p : ~(InLevel(buy_orders, p, id) /\ InLevel(sell_orders, p, id))
  /\ \A p : In(p, id) => id \in DOMAIN order_lookup /\ order_lookup[id] = p

Owned == \A id : id \in shared \/ Alone(id)

LEMMA InAfter ==
  ASSUME NEW p, NEW id
  PROVE  In(p, id)' <=> InLevel(buy_orders', p, id) \/ InLevel(sell_orders', p, id)
BY DEF In, InLevel, Level

LEMMA AloneAfter ==
  ASSUME NEW id
  PROVE  Alone(id)' <=>
    /\ \A p : Once(Level(buy_orders', p), id) /\ Once(Level(sell_orders', p), id)
    /\ \A p : ~(InLevel(buy_orders', p, id) /\ InLevel(sell_orders', p, id))
    /\ \A p : In(p, id)' => id \in DOMAIN order_lookup' /\ order_lookup'[id] = p
BY DEF Alone, Once, InLevel, Level

LEMMA InitOwned == Init => Owned
<1> SUFFICES ASSUME Init, NEW id PROVE Alone(id)
  BY DEF Owned
<1>1. \A p : Level(buy_orders, p) = <<>> /\ Level(sell_orders, p) = <<>>
  BY DEF Init, NoOrders, Level
<1>2. DOMAIN <<>> = {}
  OBVIOUS
<1>3. \A p : ~InLevel(buy_orders, p, id) /\ ~InLevel(sell_orders, p, id)
  BY <1>1, <1>2, InLevelHas DEF Has
<1> QED BY <1>1, <1>2, <1>3 DEF Alone, In, Once

LEMMA AddOrderKeepsOwned ==
  ASSUME Inv, Owned, NEW id \in Ids, NEW is_buy \in BOOLEAN, NEW quantity \in SubmitQuantities,
         NEW price \in Prices, add_order(id, is_buy, quantity, price)
  PROVE  Owned'
<1> DEFINE order == [order_id |-> id, quantity |-> quantity, arrived |-> clock]
           Added(orders) == SetLevel(orders, price, Append(Level(orders, price), order))
<1>1. order \in Order /\ order.order_id = id
  BY QuantitiesAssumption DEF Inv, TypeOK, Order
<1>2. ASSUME NEW orders, Sided(orders)
      PROVE  /\ \A p, i : InLevel(Added(orders), p, i) <=> InLevel(orders, p, i) \/ (p = price /\ i = id)
             /\ \A p, i : /\ Once(Level(orders, p), i)
                          /\ ~(InLevel(orders, price, id) /\ i = id)
                          => Once(Level(Added(orders), p), i)
  <2>1. Level(orders, price) \in Seq(Order)
    BY <1>2, LevelType DEF Sided
  <2>2. /\ Append(Level(orders, price), order) \in Seq(Order)
        /\ \A i : Has(Level(orders, price), i) \/ i = id <=> Has(Append(Level(orders, price), order), i)
        /\ \A i : Once(Level(orders, price), i) /\ ~(Has(Level(orders, price), i) /\ i = id)
                  => Once(Append(Level(orders, price), order), i)
    BY <1>1, <2>1, AppendKeeps
  <2>3. \A p : Level(Added(orders), p) =
                 IF p = price THEN Append(Level(orders, price), order) ELSE Level(orders, p)
    <3> DEFINE longer == Append(Level(orders, price), order)
    <3>1. IsSide(orders) /\ longer \in Seq(Order)
      BY <1>2, <2>2 DEF Sided
    <3> HIDE DEF longer
    <3>2. \A p : Level(SetLevel(orders, price, longer), p) =
                   IF p = price THEN longer ELSE Level(orders, p)
      BY <3>1, SetLevelProperties
    <3> QED BY <3>2 DEF longer
  <2> QED BY <2>2, <2>3, InLevelHas
<1>3. /\ buy_orders' = IF is_buy THEN Added(buy_orders) ELSE buy_orders
      /\ sell_orders' = IF is_buy THEN sell_orders ELSE Added(sell_orders)
      /\ order_lookup' = [i \in DOMAIN order_lookup \cup {id} |->
                            IF i = id THEN price ELSE order_lookup[i]]
      /\ shared' = IF InBook(id) THEN shared \cup {id} ELSE shared
  BY DEF add_order
<1> HIDE DEF Added, order
<1>4. Sided(buy_orders) /\ Sided(sell_orders)
  BY InvSides
<1>5. \A p, i : In(p, i)' <=> In(p, i) \/ (p = price /\ i = id)
  BY <1>2, <1>3, <1>4, InAfter DEF In
<1>6. ASSUME NEW i, Alone(i), i = id => \A p : ~In(p, id)
      PROVE  Alone(i)'
  <2>1. \A p : Once(Level(buy_orders', p), i) /\ Once(Level(sell_orders', p), i)
    BY <1>2, <1>3, <1>4, <1>6 DEF Alone, In
  <2>2. \A p : ~(InLevel(buy_orders', p, i) /\ InLevel(sell_orders', p, i))
    BY <1>2, <1>3, <1>4, <1>6 DEF Alone, In
  <2>3. \A p : In(p, i)' => i \in DOMAIN order_lookup' /\ order_lookup'[i] = p
    <3> SUFFICES ASSUME NEW p, In(p, i)'
                 PROVE  i \in DOMAIN order_lookup' /\ order_lookup'[i] = p
      OBVIOUS
    <3>1. CASE In(p, i)
      <4>1. i # id /\ i \in DOMAIN order_lookup /\ order_lookup[i] = p
        BY <1>6, <3>1 DEF Alone
      <4> QED BY <1>3, <4>1
    <3>2. CASE p = price /\ i = id
      BY <1>3, <3>2
    <3> QED BY <1>5, <3>1, <3>2
  <2> QED BY <2>1, <2>2, <2>3, AloneAfter
<1>7. (\A p : ~In(p, id)) \/ id \in shared'
  <2>1. \A p : In(p, id) => p \in Prices
    BY <1>4 DEF In, InLevel, Level, Sided, IsSide
  <2>2. (\E p : In(p, id)) => InBook(id)
    BY <2>1 DEF In, InBook
  <2> QED BY <1>3, <2>2
<1> QED BY <1>3, <1>6, <1>7 DEF Owned

\* Orders leave the book, and order_lookup forgets those that are gone.
LEMMA LeavingKeepsOwned ==
  ASSUME Inv, Owned, UNCHANGED shared, NEW gone, order_lookup' = Forget(order_lookup, gone),
         \A p, i : /\ InLevel(buy_orders', p, i) => InLevel(buy_orders, p, i)
                   /\ InLevel(sell_orders', p, i) => InLevel(sell_orders, p, i),
         \A i : Alone(i) =>
           /\ \A p : Once(Level(buy_orders', p), i) /\ Once(Level(sell_orders', p), i)
           /\ \A p : InLevel(buy_orders', p, i) \/ InLevel(sell_orders', p, i) => i \notin gone
  PROVE  Owned'
<1>1. \A p, i : In(p, i)' => In(p, i)
  <2>1. \A p, i : InLevel(buy_orders', p, i) \/ InLevel(sell_orders', p, i) => In(p, i)
    BY DEF In
  <2> QED BY <2>1, InAfter
<1>2. ASSUME NEW i, Alone(i) PROVE Alone(i)'
  <2>1. \A p : In(p, i)' => i \in DOMAIN order_lookup' /\ order_lookup'[i] = p
    <3> SUFFICES ASSUME NEW p, In(p, i)'
                 PROVE  i \in DOMAIN order_lookup' /\ order_lookup'[i] = p
      OBVIOUS
    <3>1. i \notin gone
      BY <1>2, InAfter
    <3>2. i \in DOMAIN order_lookup /\ order_lookup[i] = p
      BY <1>1, <1>2 DEF Alone
    <3> QED BY <3>1, <3>2 DEF Forget
  <2>2. \A p : ~(InLevel(buy_orders', p, i) /\ InLevel(sell_orders', p, i))
    <3>1. \A p : ~(InLevel(buy_orders, p, i) /\ InLevel(sell_orders, p, i))
      BY <1>2 DEF Alone
    <3> QED BY <3>1
  <2> QED BY <1>2, <2>1, <2>2, AloneAfter
<1> QED BY <1>2 DEF Owned

LEMMA CancelOrderKeepsOwned ==
  ASSUME Inv, Owned, NEW id \in Ids, cancel_order(id)
  PROVE  Owned'
<1> DEFINE price == order_lookup[id]
           Removed(orders) == SetLevel(orders, price, WithoutFirst(orders[price], id))
<1>1. price \in Prices
  BY DEF cancel_order, Inv, TypeOK
<1>2. ASSUME NEW orders, Sided(orders), InLevel(orders, price, id)
      PROVE  /\ \A p, i : InLevel(Removed(orders), p, i) => InLevel(orders, p, i)
             /\ \A p, i : Once(Level(orders, p), i) => Once(Level(Removed(orders), p), i)
             /\ Once(Level(orders, price), id) => ~InLevel(Removed(orders), price, id)
  <2> DEFINE queue == orders[price]
  <2>1. price \in DOMAIN orders /\ Level(orders, price) = queue
    BY <1>2 DEF InLevel, Level
  <2>2. queue \in Seq(Order) /\ Has(queue, id)
    BY <1>2, <2>1, InLevelHas DEF Sided, IsSide
  <2> HIDE DEF queue
  <2>3. /\ WithoutFirst(queue, id) \in Seq(Order)
        /\ \A i : Has(WithoutFirst(queue, id), i) => Has(queue, i)
        /\ \A i : Once(queue, i) => Once(WithoutFirst(queue, id), i)
        /\ Once(queue, id) => ~Has(WithoutFirst(queue, id), id)
    BY <2>2, WithoutFirstKeeps
  <2>4. \A p : Level(Removed(orders), p) =
                 IF p = price THEN WithoutFirst(queue, id) ELSE Level(orders, p)
    BY <1>1, <1>2, <2>3, SetLevelProperties DEF Sided, queue
  <2> QED BY <2>1, <2>3, <2>4, InLevelHas
<1>3. /\ \/ InLevel(buy_orders, price, id) /\ buy_orders' = Removed(buy_orders)
            /\ sell_orders' = sell_orders
         \/ InLevel(sell_orders, price, id) /\ sell_orders' = Removed(sell_orders)
            /\ buy_orders' = buy_orders
      /\ order_lookup' = Forget(order_lookup, {id})
      /\ UNCHANGED shared
  BY DEF cancel_order, history
<1> HIDE DEF Removed, price
<1>4. Sided(buy_orders) /\ Sided(sell_orders)
  BY InvSides
<1>5. \A p, i : /\ InLevel(buy_orders', p, i) => InLevel(buy_orders, p, i)
                /\ InLevel(sell_orders', p, i) => InLevel(sell_orders, p, i)
  BY <1>2, <1>3, <1>4
<1>6. ASSUME NEW i, Alone(i)
      PROVE  \A p : Once(Level(buy_orders', p), i) /\ Once(Level(sell_orders', p), i)
  BY <1>2, <1>3, <1>4, <1>6 DEF Alone
<1>7. ASSUME Alone(id)
      PROVE  \A p : ~InLevel(buy_orders', p, id) /\ ~InLevel(sell_orders', p, id)
  <2>1. \A p : InLevel(buy_orders, p, id) \/ InLevel(sell_orders, p, id) => p = price
    BY <1>7 DEF Alone, In, price
  <2>2. /\ \A p : Once(Level(buy_orders, p), id) /\ Once(Level(sell_orders, p), id)
        /\ ~(InLevel(buy_orders, price, id) /\ InLevel(sell_orders, price, id))
    BY <1>7 DEF Alone
  <2>3. CASE InLevel(buy_orders, price, id) /\ buy_orders' = Removed(buy_orders)
             /\ sell_orders' = sell_orders
    <3>1. ~InLevel(Removed(buy_orders), price, id)
      BY <1>2, <1>4, <2>2, <2>3
    <3> QED BY <1>5, <2>1, <2>2, <2>3, <3>1
  <2>4. CASE InLevel(sell_orders, price, id) /\ sell_orders' = Removed(sell_orders)
             /\ buy_orders' = buy_orders
    <3>1. ~InLevel(Removed(sell_orders), price, id)
      BY <1>2, <1>4, <2>2, <2>4
    <3> QED BY <1>5, <2>1, <2>2, <2>4, <3>1
  <2> QED BY <1>3, <2>3, <2>4
<1> QED BY <1>3, <1>5, <1>6, <1>7, LeavingKeepsOwned

LEMMA MatchOrdersKeepsOwned ==
  ASSUME Inv, Owned, match_orders
  PROVE  Owned'
<1> DEFINE best_buy == BestBuy(buy_orders)
           best_sell == BestSell(sell_orders)
           buy == Head(buy_orders[best_buy])
           sell == Head(sell_orders[best_sell])
           quantity == IF sell.quantity < buy.quantity THEN sell.quantity ELSE buy.quantity
           After(orders, best) == SetLevel(orders, best, Traded(orders[best], quantity))
           filled == Filled({buy, sell}, quantity)
<1>1. Sided(buy_orders) /\ Sided(sell_orders)
  BY InvSides
<1>2. best_buy \in DOMAIN buy_orders /\ best_sell \in DOMAIN sell_orders
  BY <1>1, BestBuyIsHighest, BestSellIsLowest DEF match_orders, Matchable, Sided
<1>3. ASSUME NEW orders, Sided(orders), NEW best \in DOMAIN orders
      PROVE  /\ orders[best] \in Seq(Order) /\ orders[best] # <<>>
             /\ Level(orders, best) = orders[best] /\ best \in Prices
             /\ Head(orders[best]) \in Order
             /\ InLevel(orders, best, Head(orders[best]).order_id)
  <2>1. /\ orders[best] \in Seq(Order) /\ orders[best] # <<>>
        /\ Level(orders, best) = orders[best] /\ best \in Prices
    BY <1>3 DEF Sided, IsSide, NonEmpty, Level
  <2>2. Head(orders[best]) \in Order /\ Head(orders[best]) = orders[best][1] /\ 1 \in DOMAIN orders[best]
    BY <2>1, HeadTailProperties, LenProperties, EmptySeq
  <2> QED BY <2>1, <2>2 DEF InLevel
<1>4. buy \in Order /\ sell \in Order
  BY <1>1, <1>2, <1>3
<1>5. quantity \in Int
  BY <1>4, MaxQuantityAssumption DEF Order, Quantity
<1>6. /\ buy_orders' = After(buy_orders, best_buy)
      /\ sell_orders' = After(sell_orders, best_sell)
      /\ order_lookup' = Forget(order_lookup, filled)
      /\ UNCHANGED shared
  BY DEF match_orders
<1>7. \A id \in filled : \E order \in {buy, sell} :
         Left(order.quantity, quantity) = 0 /\ order.order_id = id
  BY DEF Filled
<1> HIDE DEF filled, quantity
<1>8. ASSUME NEW orders, Sided(orders), NEW best \in DOMAIN orders
      PROVE  /\ \A p, i : InLevel(After(orders, best), p, i) => InLevel(orders, p, i)
             /\ \A p, i : Once(Level(orders, p), i) => Once(Level(After(orders, best), p), i)
             /\ \A i : /\ Once(orders[best], i)
                       /\ Left(Head(orders[best]).quantity, quantity) = 0
                       /\ i = Head(orders[best]).order_id
                       => ~InLevel(After(orders, best), best, i)
  <2>1. /\ Traded(orders[best], quantity) \in Seq(Order)
        /\ \A i : Has(Traded(orders[best], quantity), i) => Has(orders[best], i)
        /\ \A i : Once(orders[best], i) =>
             /\ Once(Traded(orders[best], quantity), i)
             /\ Left(Head(orders[best]).quantity, quantity) = 0 /\ i = Head(orders[best]).order_id =>
                  ~Has(Traded(orders[best], quantity), i)
    BY <1>3, <1>5, <1>8, TradedKeeps
  <2>2. \A p : Level(After(orders, best), p) =
                 IF p = best THEN Traded(orders[best], quantity) ELSE Level(orders, p)
    BY <1>3, <1>8, <2>1, SetLevelProperties DEF Sided
  <2> QED BY <1>3, <1>8, <2>1, <2>2, InLevelHas
<1>9. \A p, i : /\ InLevel(buy_orders', p, i) => InLevel(buy_orders, p, i)
                /\ InLevel(sell_orders', p, i) => InLevel(sell_orders, p, i)
  BY <1>1, <1>2, <1>6, <1>8
<1>10. InLevel(buy_orders, best_buy, buy.order_id) /\ InLevel(sell_orders, best_sell, sell.order_id)
  BY <1>1, <1>2, <1>3
<1>11. ASSUME NEW i, Alone(i)
       PROVE  /\ \A p : Once(Level(buy_orders', p), i) /\ Once(Level(sell_orders', p), i)
              /\ i = buy.order_id /\ Left(buy.quantity, quantity) = 0 => ~InLevel(buy_orders', best_buy, i)
              /\ i = sell.order_id /\ Left(sell.quantity, quantity) = 0 => ~InLevel(sell_orders', best_sell, i)
  <2>1. \A p : Once(Level(buy_orders, p), i) /\ Once(Level(sell_orders, p), i)
    BY <1>11 DEF Alone
  <2>2. Once(buy_orders[best_buy], i) /\ Once(sell_orders[best_sell], i)
    <3>1. Level(buy_orders, best_buy) = buy_orders[best_buy]
      BY <1>1, <1>2, <1>3
    <3>2. Level(sell_orders, best_sell) = sell_orders[best_sell]
      BY <1>1, <1>2, <1>3
    <3> QED BY <2>1, <3>1, <3>2
  <2> HIDE DEF best_buy, best_sell, After
  <2> QED BY <1>1, <1>2, <1>6, <1>8, <2>1, <2>2
<1> HIDE DEF best_buy, best_sell, buy, sell, After
<1>12. ASSUME NEW i \in filled, Alone(i), NEW p
       PROVE  ~InLevel(buy_orders', p, i) /\ ~InLevel(sell_orders', p, i)
  <2>1. \A r : ~(InLevel(buy_orders, r, i) /\ InLevel(sell_orders, r, i))
    BY <1>12 DEF Alone
  <2>2. \A r, q : (InLevel(buy_orders, r, i) \/ InLevel(sell_orders, r, i))
                 /\ (InLevel(buy_orders, q, i) \/ InLevel(sell_orders, q, i)) => r = q
    BY <1>12 DEF Alone, In
  <2>3. CASE i = buy.order_id /\ Left(buy.quantity, quantity) = 0
    BY <1>9, <1>10, <1>11, <1>12, <2>1, <2>2, <2>3
  <2>4. CASE i = sell.order_id /\ Left(sell.quantity, quantity) = 0
    BY <1>9, <1>10, <1>11, <1>12, <2>1, <2>2, <2>4
  <2> QED BY <1>7, <2>3, <2>4
<1> QED BY <1>6, <1>9, <1>11, <1>12, LeavingKeepsOwned

LEMMA NextKeepsOwned == Inv /\ Owned /\ [Next]_vars => Owned'
<1> SUFFICES ASSUME Inv, Owned, [Next]_vars
             PROVE  Owned'
  OBVIOUS
<1>1. CASE \E id \in Ids, is_buy \in BOOLEAN, quantity \in SubmitQuantities, price \in Prices :
             add_order(id, is_buy, quantity, price)
  BY <1>1, AddOrderKeepsOwned
<1>2. CASE \E id \in Ids : cancel_order(id)
  BY <1>2, CancelOrderKeepsOwned
<1>3. CASE match_orders
  BY <1>3, MatchOrdersKeepsOwned
<1>4. CASE Matched \/ UNCHANGED vars
  <2>1. UNCHANGED <<buy_orders, sell_orders, order_lookup, shared>>
    BY <1>4 DEF Matched, vars, sides, history
  <2>2. ASSUME NEW id, Alone(id) PROVE Alone(id)'
    <3>1. \A p : In(p, id)' => In(p, id)
      BY <2>1, InAfter DEF In
    <3> QED BY <2>1, <2>2, <3>1, AloneAfter DEF Alone
  <2> QED BY <2>1, <2>2 DEF Owned
<1> QED BY <1>1, <1>2, <1>3, <1>4 DEF Next

(***************************************************************************)
(* cancel_order finds each order that rests, whatever was filled, in full   *)
(* or in part, or cancelled, unless its id was once given to an order while *)
(* another of that id rested.                                               *)
(***************************************************************************)
THEOREM OwnOrdersCancellable == Spec => []OwnIdCancellable
<1>1. Inv /\ Owned => OwnIdCancellable
  <2> SUFFICES ASSUME Inv, Owned,
                      NEW orders \in {buy_orders, sell_orders}, NEW p \in DOMAIN orders,
                      NEW i \in DOMAIN orders[p], orders[p][i].order_id \notin shared
               PROVE  Cancellable(orders[p][i], p)
    BY DEF OwnIdCancellable
  <2>1. InLevel(orders, p, orders[p][i].order_id)
    BY DEF InLevel, Level
  <2>2. In(p, orders[p][i].order_id)
    BY <2>1 DEF In
  <2> QED BY <2>2 DEF Owned, Alone, Cancellable
<1> QED BY <1>1, InitInv, InitOwned, NextKeepsInv, NextKeepsOwned, PTL DEF Spec

-----------------------------------------------------------------------------
(***************************************************************************)
(* Quantities of zero or less: an order that rests with one, and one of the *)
(* orders of a trade for one, is suspect.                                   *)
(***************************************************************************)
Doubts ==
  /\ \A p : Known(Level(buy_orders, p), suspect) /\ Known(Level(sell_orders, p), suspect)
  /\ PositiveTrades

LEMMA KnownByMore ==
  ASSUME NEW queue, NEW few, Known(queue, few), NEW many, few \subseteq many
  PROVE  Known(queue, many)
BY DEF Known

LEMMA DoubtsAfter ==
  Doubts' <=> /\ \A p : Known(Level(buy_orders', p), suspect') /\ Known(Level(sell_orders', p), suspect')
              /\ \A i \in DOMAIN trades' :
                   \/ trades'[i].quantity > 0
                   \/ {trades'[i].buy_order_id, trades'[i].sell_order_id} \cap suspect' # {}
BY DEF Doubts, Known, Level, PositiveTrades

\* No more trades, more suspects, and no queue with others than those.
LEMMA DoubtsWithoutTrade ==
  ASSUME Doubts, trades' = trades, suspect \subseteq suspect',
         \A p : Known(Level(buy_orders', p), suspect') /\ Known(Level(sell_orders', p), suspect')
  PROVE  Doubts'
BY DoubtsAfter DEF Doubts, PositiveTrades

LEMMA InitDoubts == Init => Doubts
<1>1. \A p : Level(NoOrders, p) = <<>>
  BY DEF NoOrders, Level
<1>2. DOMAIN <<>> = {}
  OBVIOUS
<1> QED BY <1>1, <1>2 DEF Init, Doubts, Known, PositiveTrades

LEMMA AddOrderKeepsDoubts ==
  ASSUME Inv, Doubts, NEW id \in Ids, NEW is_buy \in BOOLEAN, NEW quantity \in SubmitQuantities,
         NEW price \in Prices, add_order(id, is_buy, quantity, price)
  PROVE  Doubts'
<1> DEFINE order == [order_id |-> id, quantity |-> quantity, arrived |-> clock]
           Added(orders) == SetLevel(orders, price, Append(Level(orders, price), order))
<1>1. order \in Order
  BY QuantitiesAssumption DEF Inv, TypeOK, Order
<1>2. /\ buy_orders' = IF is_buy THEN Added(buy_orders) ELSE buy_orders
      /\ sell_orders' = IF is_buy THEN sell_orders ELSE Added(sell_orders)
      /\ trades' = trades /\ suspect \subseteq suspect'
  BY DEF add_order
<1>3. order.quantity > 0 \/ order.arrived \in suspect'
  BY DEF add_order
<1> HIDE DEF order
<1>4. ASSUME NEW orders, Sided(orders), \A p : Known(Level(orders, p), suspect')
      PROVE  \A p : Known(Level(Added(orders), p), suspect')
  <2> DEFINE longer == Append(Level(orders, price), order)
  <2>1. Level(orders, price) \in Seq(Order)
    BY <1>4, LevelType DEF Sided
  <2>2. longer \in Seq(Order) /\ Known(longer, suspect')
    BY <1>1, <1>3, <1>4, <2>1, AppendKeeps
  <2> HIDE DEF longer
  <2>3. \A p : Level(SetLevel(orders, price, longer), p) =
                 IF p = price THEN longer ELSE Level(orders, p)
    BY <1>4, <2>2, SetLevelProperties DEF Sided
  <2>4. \A p : Known(Level(SetLevel(orders, price, longer), p), suspect')
    BY <1>4, <2>2, <2>3
  <2> QED BY <2>4 DEF longer
<1> HIDE DEF Added
<1>5. /\ Sided(buy_orders) /\ Sided(sell_orders)
      /\ \A p : Known(Level(buy_orders, p), suspect') /\ Known(Level(sell_orders, p), suspect')
  BY <1>2, InvSides, KnownByMore DEF Doubts
<1> QED BY <1>2, <1>4, <1>5, DoubtsWithoutTrade

LEMMA CancelOrderKeepsDoubts ==
  ASSUME Inv, Doubts, NEW id \in Ids, cancel_order(id)
  PROVE  Doubts'
<1> DEFINE price == order_lookup[id]
           Removed(orders) == SetLevel(orders, price, WithoutFirst(orders[price], id))
<1>1. price \in Prices
  BY DEF cancel_order, Inv, TypeOK
<1>2. ASSUME NEW orders, Sided(orders), InLevel(orders, price, id), \A p : Known(Level(orders, p), suspect)
      PROVE  \A p : Known(Level(Removed(orders), p), suspect)
  <2> DEFINE queue == orders[price]
             rest == WithoutFirst(queue, id)
  <2>1. price \in DOMAIN orders /\ Level(orders, price) = queue
    BY <1>2 DEF InLevel, Level
  <2>2. queue \in Seq(Order) /\ Has(queue, id) /\ Known(queue, suspect)
    BY <1>2, <2>1, InLevelHas DEF Sided, IsSide
  <2> HIDE DEF queue
  <2>3. rest \in Seq(Order) /\ Known(rest, suspect)
    BY <2>2, WithoutFirstKeeps
  <2> HIDE DEF rest
  <2>4. \A p : Level(SetLevel(orders, price, rest), p) = IF p = price THEN rest ELSE Level(orders, p)
    BY <1>1, <1>2, <2>3, SetLevelProperties DEF Sided
  <2>5. \A p : Known(Level(SetLevel(orders, price, rest), p), suspect)
    BY <1>2, <2>3, <2>4
  <2> QED BY <2>5 DEF rest, queue
<1>3. /\ \/ InLevel(buy_orders, price, id) /\ buy_orders' = Removed(buy_orders)
            /\ sell_orders' = sell_orders
         \/ InLevel(sell_orders, price, id) /\ sell_orders' = Removed(sell_orders)
            /\ buy_orders' = buy_orders
      /\ trades' = trades /\ suspect' = suspect
  BY DEF cancel_order, history
<1> HIDE DEF Removed
<1>4. /\ Sided(buy_orders) /\ Sided(sell_orders)
      /\ \A p : Known(Level(buy_orders, p), suspect) /\ Known(Level(sell_orders, p), suspect)
  BY InvSides DEF Doubts
<1> QED BY <1>2, <1>3, <1>4, DoubtsWithoutTrade

\* What is left of an order after a trade, unless one of the two was suspect, is not negative.
LEMMA TradedKnown ==
  ASSUME NEW queue \in Seq(Order), queue # <<>>, NEW quantity \in 1..MaxQuantity,
         quantity <= Head(queue).quantity, NEW doubtful, Known(queue, doubtful)
  PROVE  Known(Traded(queue, quantity), doubtful)
<1> DEFINE left == Left(Head(queue).quantity, quantity)
<1>1. DOMAIN queue = 1..Len(queue) /\ Len(queue) \in Nat \ {0} /\ Head(queue) = queue[1]
  BY EmptySeq, LenProperties, HeadTailProperties
<1>2. Head(queue) \in Order /\ Head(queue).quantity \in Quantity
  <2>1. Head(queue) \in Order
    BY <1>1, ElementOfSeq
  <2> QED BY <2>1 DEF Order
<1>3. left = Head(queue).quantity - quantity /\ left \in Int /\ left >= 0
  <2>1. quantity \in 0..MaxQuantity /\ quantity \in Int /\ Head(queue).quantity \in Int
    BY <1>2, MaxQuantityAssumption DEF Quantity
  <2>2. left = Head(queue).quantity - quantity
    BY <1>2, <2>1, LeftFits
  <2> QED BY <2>1, <2>2
<1>4. /\ left = 0 => Traded(queue, quantity) = Tail(queue)
      /\ left # 0 =>
           /\ DOMAIN Traded(queue, quantity) = DOMAIN queue
           /\ \A j \in DOMAIN queue : Traded(queue, quantity)[j] =
                IF j = 1 THEN [Head(queue) EXCEPT !.quantity = left] ELSE queue[j]
  BY MaxQuantityAssumption, TradedIs
<1>5. CASE left = 0
  BY <1>4, <1>5, TailKeeps
<1>6. CASE left # 0
  <2>1. left > 0
    BY <1>3, <1>6
  <2> HIDE DEF left
  <2>2. [Head(queue) EXCEPT !.quantity = left].quantity = left
    BY <1>2 DEF Order
  <2> QED BY <1>4, <1>6, <2>1, <2>2 DEF Known
<1> QED BY <1>5, <1>6

\* When the front order is suspect, whatever is left of it does not matter.
LEMMA TradedSuspect ==
  ASSUME NEW queue \in Seq(Order), queue # <<>>, NEW quantity \in Int, NEW doubtful,
         Known(queue, doubtful), Head(queue).arrived \in doubtful
  PROVE  Known(Traded(queue, quantity), doubtful)
<1> DEFINE left == Left(Head(queue).quantity, quantity)
<1>1. DOMAIN queue = 1..Len(queue) /\ Len(queue) \in Nat \ {0} /\ Head(queue) = queue[1]
  BY EmptySeq, LenProperties, HeadTailProperties
<1>2. Head(queue) \in Order
  BY <1>1, ElementOfSeq
<1>3. /\ left = 0 => Traded(queue, quantity) = Tail(queue)
      /\ left # 0 =>
           /\ DOMAIN Traded(queue, quantity) = DOMAIN queue
           /\ \A j \in DOMAIN queue : Traded(queue, quantity)[j] =
                IF j = 1 THEN [Head(queue) EXCEPT !.quantity = left] ELSE queue[j]
  BY TradedIs
<1>4. CASE left = 0
  BY <1>3, <1>4, TailKeeps
<1>5. CASE left # 0
  <2> HIDE DEF left
  <2>1. [Head(queue) EXCEPT !.quantity = left].arrived = Head(queue).arrived
    BY <1>2 DEF Order
  <2> QED BY <1>3, <1>5, <2>1 DEF Known
<1> QED BY <1>4, <1>5

LEMMA MatchOrdersKeepsDoubts ==
  ASSUME Inv, Doubts, match_orders
  PROVE  Doubts'
<1> DEFINE best_buy == BestBuy(buy_orders)
           best_sell == BestSell(sell_orders)
           buy == Head(buy_orders[best_buy])
           sell == Head(sell_orders[best_sell])
           quantity == IF sell.quantity < buy.quantity THEN sell.quantity ELSE buy.quantity
           trade == [buy_order_id |-> buy.arrived, sell_order_id |-> sell.arrived,
                     price |-> best_sell, quantity |-> quantity]
           After(orders, best) == SetLevel(orders, best, Traded(orders[best], quantity))
<1>1. /\ Sided(buy_orders) /\ Sided(sell_orders)
      /\ \A p : Known(Level(buy_orders, p), suspect) /\ Known(Level(sell_orders, p), suspect)
  BY InvSides DEF Doubts
<1>2. best_buy \in DOMAIN buy_orders /\ best_sell \in DOMAIN sell_orders
  BY <1>1, BestBuyIsHighest, BestSellIsLowest DEF match_orders, Matchable, Sided
<1>3. ASSUME NEW orders, Sided(orders), NEW best \in DOMAIN orders
      PROVE  /\ orders[best] \in Seq(Order) /\ orders[best] # <<>>
             /\ Level(orders, best) = orders[best] /\ best \in Prices
             /\ Head(orders[best]) \in Order
             /\ Head(orders[best]) = orders[best][1] /\ 1 \in DOMAIN orders[best]
  <2>1. /\ orders[best] \in Seq(Order) /\ orders[best] # <<>>
        /\ Level(orders, best) = orders[best] /\ best \in Prices
    BY <1>3 DEF Sided, IsSide, NonEmpty, Level
  <2> QED BY <2>1, HeadTailProperties, LenProperties, EmptySeq
<1>4. buy \in Order /\ sell \in Order
  BY <1>1, <1>2, <1>3
<1>5. buy.quantity \in Quantity /\ sell.quantity \in Quantity
  BY <1>4 DEF Order
<1>6. /\ buy_orders' = After(buy_orders, best_buy)
      /\ sell_orders' = After(sell_orders, best_sell)
      /\ trades' = Append(trades, trade)
      /\ suspect' = IF suspect \cap {buy.arrived, sell.arrived} = {} THEN suspect
                    ELSE suspect \cup {buy.arrived, sell.arrived}
  BY DEF match_orders
<1>7. /\ buy.quantity > 0 \/ buy.arrived \in suspect
      /\ sell.quantity > 0 \/ sell.arrived \in suspect
  <2>1. Known(buy_orders[best_buy], suspect) /\ Known(sell_orders[best_sell], suspect)
    <3>1. Level(buy_orders, best_buy) = buy_orders[best_buy]
      BY <1>1, <1>2, <1>3
    <3>2. Level(sell_orders, best_sell) = sell_orders[best_sell]
      BY <1>1, <1>2, <1>3
    <3> QED BY <1>1, <3>1, <3>2
  <2> QED BY <1>1, <1>2, <1>3, <2>1 DEF Known
<1>8. /\ quantity \in Int /\ quantity <= buy.quantity /\ quantity <= sell.quantity
      /\ quantity \in {buy.quantity, sell.quantity}
  <2> HIDE DEF buy, sell
  <2> QED BY <1>5, MaxQuantityAssumption DEF Quantity
<1>9. suspect \subseteq suspect'
  BY <1>6
<1>10. \/ quantity \in 1..MaxQuantity
       \/ buy.arrived \in suspect' /\ sell.arrived \in suspect'
  <2> HIDE DEF buy, sell, quantity
  <2>1. CASE suspect \cap {buy.arrived, sell.arrived} = {}
    BY <1>5, <1>7, <1>8, <2>1, MaxQuantityAssumption DEF Quantity
  <2>2. CASE suspect \cap {buy.arrived, sell.arrived} # {}
    BY <1>6, <2>2
  <2> QED BY <2>1, <2>2
<1>11. trade.quantity = quantity /\ trade.buy_order_id = buy.arrived /\ trade.sell_order_id = sell.arrived
  OBVIOUS
<1> HIDE DEF quantity, trade
<1>12. ASSUME NEW orders, Sided(orders), \A p : Known(Level(orders, p), suspect),
              NEW best \in DOMAIN orders, Head(orders[best]) \in {buy, sell}
       PROVE  \A p : Known(Level(After(orders, best), p), suspect')
  <2> DEFINE queue == orders[best]
             left == Traded(queue, quantity)
  <2>1. /\ queue \in Seq(Order) /\ queue # <<>>
        /\ Level(orders, best) = queue /\ best \in Prices
    BY <1>3, <1>12
  <2>2. Known(queue, suspect')
    BY <1>9, <1>12, <2>1, KnownByMore
  <2>3. quantity <= Head(queue).quantity
    BY <1>8, <1>12
  <2>4. quantity \in 1..MaxQuantity \/ Head(queue).arrived \in suspect'
    BY <1>10, <1>12
  <2> HIDE DEF queue
  <2>5. left \in Seq(Order) /\ Known(left, suspect')
    BY <1>8, <2>1, <2>2, <2>3, <2>4, TradedIs, TradedKnown, TradedSuspect
  <2> HIDE DEF left
  <2>6. \A p : Level(SetLevel(orders, best, left), p) = IF p = best THEN left ELSE Level(orders, p)
    BY <1>12, <2>1, <2>5, SetLevelProperties DEF Sided
  <2>7. \A p : Known(Level(SetLevel(orders, best, left), p), suspect')
    BY <1>9, <1>12, <2>5, <2>6, KnownByMore
  <2> QED BY <2>7 DEF left, queue
<1>13. \A p : Known(Level(buy_orders', p), suspect') /\ Known(Level(sell_orders', p), suspect')
  BY <1>1, <1>2, <1>6, <1>12
<1> HIDE DEF buy, sell
<1>14. \A i \in DOMAIN trades' :
         \/ trades'[i].quantity > 0
         \/ {trades'[i].buy_order_id, trades'[i].sell_order_id} \cap suspect' # {}
  <2> SUFFICES ASSUME NEW i \in DOMAIN trades'
               PROVE  \/ trades'[i].quantity > 0
                      \/ {trades'[i].buy_order_id, trades'[i].sell_order_id} \cap suspect' # {}
    OBVIOUS
  <2>1. trades \in Seq(Trade)
    BY DEF Inv, TypeOK
  <2>2. /\ i \in DOMAIN trades /\ trades'[i] = trades[i]
        \/ trades'[i] = trade
    <3>1. /\ Len(trades) \in Nat /\ DOMAIN trades = 1..Len(trades)
          /\ DOMAIN Append(trades, trade) = 1..(Len(trades) + 1)
          /\ \A k \in 1..Len(trades) : Append(trades, trade)[k] = trades[k]
          /\ Append(trades, trade)[Len(trades) + 1] = trade
      BY <2>1, AppendProperties, LenProperties
    <3>2. i \in 1..Len(trades) \/ i = Len(trades) + 1
      BY <1>6, <3>1
    <3> QED BY <1>6, <3>1, <3>2
  <2>3. CASE i \in DOMAIN trades /\ trades'[i] = trades[i]
    BY <1>9, <2>3 DEF Doubts, PositiveTrades
  <2>4. CASE trades'[i] = trade
    BY <1>10, <1>11, <2>4
  <2> QED BY <2>2, <2>3, <2>4
<1> QED BY <1>13, <1>14, DoubtsAfter

LEMMA NextKeepsDoubts == Inv /\ Doubts /\ [Next]_vars => Doubts'
<1> SUFFICES ASSUME Inv, Doubts, [Next]_vars
             PROVE  Doubts'
  OBVIOUS
<1>1. CASE \E id \in Ids, is_buy \in BOOLEAN, quantity \in SubmitQuantities, price \in Prices :
             add_order(id, is_buy, quantity, price)
  BY <1>1, AddOrderKeepsDoubts
<1>2. CASE \E id \in Ids : cancel_order(id)
  BY <1>2, CancelOrderKeepsDoubts
<1>3. CASE match_orders
  BY <1>3, MatchOrdersKeepsDoubts
<1>4. CASE Matched \/ UNCHANGED vars
  <2>1. UNCHANGED <<buy_orders, sell_orders, trades, suspect>>
    BY <1>4 DEF Matched, vars, sides, history
  <2> QED BY <2>1, DoubtsWithoutTrade DEF Doubts
<1> QED BY <1>1, <1>2, <1>3, <1>4 DEF Next

(***************************************************************************)
(* Whatever quantities clients send, a trade moves a positive quantity      *)
(* unless one of its orders came with a quantity of zero or less, or traded *)
(* before with an order that is suspect for the same reasons.               *)
(***************************************************************************)
THEOREM TradesArePositive == Spec => []PositiveTrades
BY InitInv, InitDoubts, NextKeepsInv, NextKeepsDoubts, PTL DEF Spec, Doubts

-----------------------------------------------------------------------------
(***************************************************************************)
(* The book of the HFT simulator implements PriceTimePriority, whatever ids *)
(* clients choose.  An order is known by its arrival: orders of the book    *)
(* arrived at different moments, those of a queue one after the other, and  *)
(* all before the present one.                                              *)
(***************************************************************************)

(* Sets of resting orders, by arrival *)

Distinct(rests) == \A o, r \in rests : o.arrived = r.arrived => o = r

ByArrival(rests) ==
  [n \in {o.arrived : o \in rests} |-> CHOOSE o \in rests : o.arrived = n]

\* The function that gives each arrival the order that arrived then.
LEMMA ByArrivalIs ==
  ASSUME NEW rests, Distinct(rests)
  PROVE  /\ \A o \in rests : o.arrived \in DOMAIN ByArrival(rests) /\ ByArrival(rests)[o.arrived] = o
         /\ \A n \in DOMAIN ByArrival(rests) : /\ ByArrival(rests)[n] \in rests
                                               /\ ByArrival(rests)[n].arrived = n
BY DEF ByArrival, Distinct

LEMMA ByArrivalUnique ==
  ASSUME NEW rests, Distinct(rests), NEW f, f = [n \in DOMAIN f |-> f[n]],
         \A o \in rests : o.arrived \in DOMAIN f /\ f[o.arrived] = o,
         \A n \in DOMAIN f : f[n] \in rests /\ f[n].arrived = n
  PROVE  ByArrival(rests) = f
<1>1. DOMAIN ByArrival(rests) = DOMAIN f
  <2>1. DOMAIN ByArrival(rests) = {o.arrived : o \in rests}
    BY DEF ByArrival
  <2>2. \A n : n \in {o.arrived : o \in rests} <=> n \in DOMAIN f
    OBVIOUS
  <2> QED BY <2>1, <2>2
<1>2. \A n \in DOMAIN f : ByArrival(rests)[n] = f[n]
  BY ByArrivalIs
<1>3. ByArrival(rests) = [n \in DOMAIN ByArrival(rests) |-> ByArrival(rests)[n]]
  BY DEF ByArrival
<1> QED BY <1>1, <1>2, <1>3

\* The order o arrived at a moment of its own.
Unlike(o, rests) == \A r \in rests : r.arrived # o.arrived

\* The function with one order more.
Plus(f, o) ==
  [n \in DOMAIN f \cup {o.arrived} |-> IF n = o.arrived THEN o ELSE f[n]]

\* An order more, an order less, and two orders that traded.
LEMMA ByArrivalAdd ==
  ASSUME NEW rests, Distinct(rests), NEW o, Unlike(o, rests),
         NEW after, after = rests \cup {o}
  PROVE  /\ Distinct(after)
         /\ ByArrival(after) = Plus(ByArrival(rests), o)
<1> DEFINE f == [n \in DOMAIN ByArrival(rests) \cup {o.arrived} |->
                   IF n = o.arrived THEN o ELSE ByArrival(rests)[n]]
<1>1. Distinct(after)
  BY DEF Distinct, Unlike
<1>2. f = [n \in DOMAIN f |-> f[n]]
  OBVIOUS
<1>3. /\ \A r \in after : r.arrived \in DOMAIN f /\ f[r.arrived] = r
      /\ \A n \in DOMAIN f : f[n] \in after /\ f[n].arrived = n
  BY ByArrivalIs DEF Unlike
<1> HIDE DEF f
<1>4. ByArrival(after) = f
  BY <1>1, <1>2, <1>3, ByArrivalUnique
<1> QED BY <1>1, <1>4 DEF f, Plus

LEMMA ByArrivalRemove ==
  ASSUME NEW rests, Distinct(rests), NEW o \in rests, NEW after, after = rests \ {o}
  PROVE  /\ Distinct(after)
         /\ ByArrival(after) = [n \in DOMAIN ByArrival(rests) \ {o.arrived} |-> ByArrival(rests)[n]]
<1> DEFINE f == [n \in DOMAIN ByArrival(rests) \ {o.arrived} |-> ByArrival(rests)[n]]
<1>1. Distinct(after)
  BY DEF Distinct
<1>2. f = [n \in DOMAIN f |-> f[n]]
  OBVIOUS
<1>3. /\ \A r \in after : r.arrived \in DOMAIN f /\ f[r.arrived] = r
      /\ \A n \in DOMAIN f : f[n] \in after /\ f[n].arrived = n
  BY ByArrivalIs DEF Distinct
<1> HIDE DEF f
<1>4. ByArrival(after) = f
  BY <1>1, <1>2, <1>3, ByArrivalUnique
<1> QED BY <1>1, <1>4 DEF f

\* What is left of an order that traded.
LeftOf(o) == IF o.quantity = 0 THEN {} ELSE {o}

\* b and s take the places of those that arrived when they did.
Exchanged(f, b, s) ==
  [n \in DOMAIN f |-> IF n = b.arrived THEN b ELSE IF n = s.arrived THEN s ELSE f[n]]

\* Those of N with nothing left are gone.
Remaining(f, N) == [n \in {m \in DOMAIN f : m \in N => f[m].quantity # 0} |-> f[n]]

LEMMA ByArrivalTrade ==
  ASSUME NEW rests, Distinct(rests), NEW b \in rests, NEW s \in rests, b # s,
         NEW b2, b2.arrived = b.arrived, NEW s2, s2.arrived = s.arrived,
         NEW left, left = (rests \ {b, s}) \cup LeftOf(b2) \cup LeftOf(s2)
  PROVE  /\ Distinct(left)
         /\ ByArrival(left) =
              Remaining(Exchanged(ByArrival(rests), b2, s2), {b.arrived, s.arrived})
<1> DEFINE after == Exchanged(ByArrival(rests), b2, s2)
           D == {m \in DOMAIN after : m \in {b.arrived, s.arrived} => after[m].quantity # 0}
           f == [n \in D |-> after[n]]
<1>1. b.arrived # s.arrived
  BY DEF Distinct
<1>2. \A r \in left : \/ r \in rests /\ r.arrived # b.arrived /\ r.arrived # s.arrived
                      \/ r = b2 /\ b2.quantity # 0
                      \/ r = s2 /\ s2.quantity # 0
  <2>1. \A o, r : r \in LeftOf(o) => r = o /\ o.quantity # 0
    BY DEF LeftOf
  <2>2. \A r \in rests \ {b, s} : r.arrived # b.arrived /\ r.arrived # s.arrived
    BY DEF Distinct
  <2> QED BY <2>1, <2>2
<1>3. Distinct(left)
  BY <1>1, <1>2 DEF Distinct
<1>4. /\ b.arrived \in DOMAIN ByArrival(rests) /\ s.arrived \in DOMAIN ByArrival(rests)
      /\ after[b.arrived] = b2 /\ after[s.arrived] = s2
      /\ DOMAIN after = DOMAIN ByArrival(rests)
  BY <1>1, ByArrivalIs DEF Exchanged
<1>5. \A n \in DOMAIN ByArrival(rests) : n # b.arrived /\ n # s.arrived =>
        after[n] = ByArrival(rests)[n] /\ after[n] \in rests /\ after[n].arrived = n
  BY ByArrivalIs DEF Exchanged
<1> HIDE DEF after
<1>6. ASSUME NEW r \in left
      PROVE  r.arrived \in D /\ after[r.arrived] = r
  BY <1>2, <1>4, <1>5, ByArrivalIs
<1>7. ASSUME NEW n \in D
      PROVE  after[n] \in left /\ after[n].arrived = n
  <2>1. CASE n = b.arrived
    BY <1>4, <2>1 DEF LeftOf
  <2>2. CASE n = s.arrived
    BY <1>4, <2>2 DEF LeftOf
  <2>3. CASE n # b.arrived /\ n # s.arrived
    <3>1. after[n] \in rests /\ after[n].arrived = n
      BY <1>4, <1>5, <2>3
    <3>2. after[n] \in rests \ {b, s}
      BY <2>3, <3>1
    <3> QED BY <3>1, <3>2
  <2> QED BY <2>1, <2>2, <2>3
<1>8. f = [n \in DOMAIN f |-> f[n]] /\ DOMAIN f = D /\ \A n \in D : f[n] = after[n]
  OBVIOUS
<1> HIDE DEF D, f
<1>9. /\ \A r \in left : r.arrived \in DOMAIN f /\ f[r.arrived] = r
      /\ \A n \in DOMAIN f : f[n] \in left /\ f[n].arrived = n
  BY <1>6, <1>7, <1>8
<1>10. ByArrival(left) = f
  BY <1>3, <1>8, <1>9, ByArrivalUnique
<1> QED BY <1>3, <1>10 DEF f, D, after, Remaining

-----------------------------------------------------------------------------
(* The orders of a queue and of a side *)

\* An order of a queue, as PriceTimePriority has it.
Rest(is_buy, price, order) ==
  [is_buy |-> is_buy, quantity |-> order.quantity, price |-> price, arrived |-> order.arrived]

RestingAt(queue, is_buy, price) == {Rest(is_buy, price, queue[i]) : i \in DOMAIN queue}

\* The orders of a queue arrived one after the other.
InTurn(queue) == \A i, j \in DOMAIN queue : i < j => queue[i].arrived < queue[j].arrived

LEMMA RestingInLevels ==
  ASSUME NEW orders, NEW is_buy, NEW o
  PROVE  o \in RestingIn(orders, is_buy) <=> \E p : o \in RestingAt(Level(orders, p), is_buy, p)
<1>1. DOMAIN <<>> = {}
  OBVIOUS
<1>2. o \in RestingIn(orders, is_buy) <=>
        \E p \in DOMAIN orders : o \in RestingAt(orders[p], is_buy, p)
  BY DEF RestingIn, RestingAt, Rest
<1>3. \A p : p \notin DOMAIN orders => RestingAt(Level(orders, p), is_buy, p) = {}
  BY <1>1 DEF RestingAt, Level
<1>4. \A p \in DOMAIN orders : Level(orders, p) = orders[p]
  BY DEF Level
<1> QED BY <1>2, <1>3, <1>4

LEMMA RestFields ==
  ASSUME NEW queue, NEW is_buy, NEW price, NEW o \in RestingAt(queue, is_buy, price)
  PROVE  o.is_buy = is_buy /\ o.price = price
BY DEF RestingAt, Rest

\* Setting a level changes the orders of that price.
LEMMA SetLevelRests ==
  ASSUME NEW orders, IsSide(orders), NEW price \in Prices, NEW queue \in Seq(Order), NEW is_buy
  PROVE  RestingIn(SetLevel(orders, price, queue), is_buy) =
           {o \in RestingIn(orders, is_buy) : o.price # price} \cup RestingAt(queue, is_buy, price)
<1> DEFINE after == SetLevel(orders, price, queue)
<1>1. \A p : Level(after, p) = IF p = price THEN queue ELSE Level(orders, p)
  BY SetLevelProperties
<1> HIDE DEF after
<1>2. ASSUME NEW o
      PROVE  o \in RestingIn(after, is_buy) <=>
               \/ o \in RestingIn(orders, is_buy) /\ o.price # price
               \/ o \in RestingAt(queue, is_buy, price)
  <2>1. o \in RestingIn(after, is_buy) <=> \E p : o \in RestingAt(Level(after, p), is_buy, p)
    BY RestingInLevels
  <2>2. o \in RestingIn(orders, is_buy) <=> \E p : o \in RestingAt(Level(orders, p), is_buy, p)
    BY RestingInLevels
  <2>3. \A p, q : o \in RestingAt(q, is_buy, p) => o.price = p
    BY RestFields
  <2> QED BY <1>1, <2>1, <2>2, <2>3
<1> QED BY <1>2 DEF after

\* The orders of a price are those of its queue.
LEMMA LevelRests ==
  ASSUME NEW orders, NEW is_buy, NEW price
  PROVE  {o \in RestingIn(orders, is_buy) : o.price = price} = RestingAt(Level(orders, price), is_buy, price)
<1>1. ASSUME NEW o
      PROVE  o \in RestingIn(orders, is_buy) /\ o.price = price
               <=> o \in RestingAt(Level(orders, price), is_buy, price)
  <2>1. o \in RestingIn(orders, is_buy) <=> \E p : o \in RestingAt(Level(orders, p), is_buy, p)
    BY RestingInLevels
  <2>2. \A p, q : o \in RestingAt(q, is_buy, p) => o.price = p
    BY RestFields
  <2> QED BY <2>1, <2>2
<1> QED BY <1>1

(***************************************************************************)
(* How the operations on a queue change its orders, and that they keep them *)
(* in turn.                                                                 *)
(***************************************************************************)
LEMMA AppendRests ==
  ASSUME NEW queue \in Seq(Order), NEW order \in Order, NEW is_buy, NEW price,
         InTurn(queue), \A i \in DOMAIN queue : queue[i].arrived < order.arrived
  PROVE  /\ InTurn(Append(queue, order))
         /\ RestingAt(Append(queue, order), is_buy, price) =
              RestingAt(queue, is_buy, price) \cup {Rest(is_buy, price, order)}
<1> DEFINE after == Append(queue, order)
<1>1. /\ DOMAIN queue = 1..Len(queue) /\ Len(queue) \in Nat
      /\ DOMAIN after = 1..(Len(queue) + 1)
      /\ \A i \in 1..Len(queue) : after[i] = queue[i]
      /\ after[Len(queue) + 1] = order
  BY AppendProperties, LenProperties
<1> HIDE DEF after
<1>2. /\ \A i \in 1..(Len(queue) + 1) : i \in 1..Len(queue) \/ i = Len(queue) + 1
      /\ \A i \in 1..Len(queue) : i \in 1..(Len(queue) + 1) /\ ~(Len(queue) + 1 < i)
      /\ Len(queue) + 1 \in 1..(Len(queue) + 1) /\ ~(Len(queue) + 1 < Len(queue) + 1)
  BY <1>1
<1>3. InTurn(after)
  BY <1>1, <1>2 DEF InTurn
<1>4. \A o : o \in RestingAt(after, is_buy, price) <=>
               o \in RestingAt(queue, is_buy, price) \/ o = Rest(is_buy, price, order)
  BY <1>1, <1>2 DEF RestingAt
<1> QED BY <1>3, <1>4 DEF after

\* The k-th order has left the queue.
OneLess(after, queue, k) ==
  /\ Len(after) = Len(queue) - 1
  /\ \A i \in 1..(Len(queue) - 1) : after[i] = queue[IF i < k THEN i ELSE i + 1]

LEMMA OneLessRests ==
  ASSUME NEW queue \in Seq(Order), NEW after \in Seq(Order), NEW k \in 1..Len(queue),
         OneLess(after, queue, k), InTurn(queue), NEW is_buy, NEW price
  PROVE  /\ InTurn(after)
         /\ RestingAt(after, is_buy, price) =
              RestingAt(queue, is_buy, price) \ {Rest(is_buy, price, queue[k])}
<1>1. /\ DOMAIN queue = 1..Len(queue) /\ Len(queue) \in Nat
      /\ DOMAIN after = 1..(Len(queue) - 1)
  BY LenProperties DEF OneLess
<1>2. \A i \in 1..Len(queue) : queue[i].arrived \in Int
  <2>1. \A i \in 1..Len(queue) : queue[i] \in Order
    BY ElementOfSeq
  <2> QED BY <2>1, MaxClockAssumption DEF Order
<1> DEFINE at(j) == IF j < k THEN j ELSE j + 1
           to(i) == IF i < k THEN i ELSE i - 1
<1>3. /\ \A j \in 1..(Len(queue) - 1) : at(j) \in 1..Len(queue) /\ at(j) # k
      /\ \A i, j \in 1..(Len(queue) - 1) : i < j => at(i) < at(j)
      /\ \A i \in 1..Len(queue) : i # k => to(i) \in 1..(Len(queue) - 1) /\ at(to(i)) = i
      /\ \A i \in 1..Len(queue) : i # k => i < k \/ k < i
  BY <1>1
<1>4. \A j \in 1..(Len(queue) - 1) : after[j] = queue[at(j)]
  BY DEF OneLess
<1> HIDE DEF at, to
<1>5. InTurn(after)
  <2> SUFFICES ASSUME NEW i \in 1..(Len(queue) - 1), NEW j \in 1..(Len(queue) - 1), i < j
               PROVE  after[i].arrived < after[j].arrived
    BY <1>1 DEF InTurn
  <2>1. at(i) \in DOMAIN queue /\ at(j) \in DOMAIN queue /\ at(i) < at(j)
    BY <1>1, <1>3
  <2>2. queue[at(i)].arrived < queue[at(j)].arrived
    BY <2>1 DEF InTurn
  <2> QED BY <1>4, <2>2
<1>6. ASSUME NEW i \in 1..Len(queue), i # k
      PROVE  queue[i].arrived # queue[k].arrived
  <2>1. queue[i].arrived < queue[k].arrived \/ queue[k].arrived < queue[i].arrived
    BY <1>1, <1>3, <1>6 DEF InTurn
  <2> QED BY <1>2, <2>1
<1>7. ASSUME NEW o
      PROVE  o \in RestingAt(after, is_buy, price) <=>
               o \in RestingAt(queue, is_buy, price) /\ o # Rest(is_buy, price, queue[k])
  <2>1. ASSUME NEW j \in 1..(Len(queue) - 1), o = Rest(is_buy, price, after[j])
        PROVE  o \in RestingAt(queue, is_buy, price) /\ o # Rest(is_buy, price, queue[k])
    <3>1. o = Rest(is_buy, price, queue[at(j)]) /\ at(j) \in 1..Len(queue) /\ at(j) # k
      BY <1>3, <1>4, <2>1
    <3>2. Rest(is_buy, price, queue[at(j)]) # Rest(is_buy, price, queue[k])
      BY <1>6, <3>1 DEF Rest
    <3> QED BY <1>1, <3>1, <3>2 DEF RestingAt
  <2>2. ASSUME NEW i \in 1..Len(queue), o = Rest(is_buy, price, queue[i]),
               o # Rest(is_buy, price, queue[k])
        PROVE  o \in RestingAt(after, is_buy, price)
    <3>1. to(i) \in 1..(Len(queue) - 1) /\ after[to(i)] = queue[i]
      BY <1>3, <1>4, <2>2
    <3> QED BY <1>1, <2>2, <3>1 DEF RestingAt
  <2> QED BY <1>1, <2>1, <2>2 DEF RestingAt
<1> QED BY <1>5, <1>7

LEMMA WithoutFirstRests ==
  ASSUME NEW queue \in Seq(Order), InTurn(queue), NEW id, Has(queue, id), NEW is_buy, NEW price
  PROVE  /\ WithoutFirst(queue, id) \in Seq(Order)
         /\ InTurn(WithoutFirst(queue, id))
         /\ \E o \in RestingAt(queue, is_buy, price) :
              RestingAt(WithoutFirst(queue, id), is_buy, price) = RestingAt(queue, is_buy, price) \ {o}
<1> DEFINE after == WithoutFirst(queue, id)
<1>1. after \in Seq(Order)
  BY WithoutFirstIs
<1>2. PICK k \in 1..Len(queue) : OneLess(after, queue, k)
  BY WithoutFirstIs DEF OneLess
<1> HIDE DEF after
<1>3. /\ InTurn(after)
      /\ RestingAt(after, is_buy, price) =
           RestingAt(queue, is_buy, price) \ {Rest(is_buy, price, queue[k])}
  BY <1>1, <1>2, OneLessRests
<1>4. Rest(is_buy, price, queue[k]) \in RestingAt(queue, is_buy, price)
  BY LenProperties DEF RestingAt
<1> QED BY <1>1, <1>3, <1>4 DEF after

\* The front of a queue in turn arrived before the others.
LEMMA FrontRests ==
  ASSUME NEW queue \in Seq(Order), queue # <<>>, InTurn(queue), NEW is_buy, NEW price,
         NEW front, front = Rest(is_buy, price, Head(queue))
  PROVE  /\ Head(queue) \in Order
         /\ front \in RestingAt(queue, is_buy, price)
         /\ \A o \in RestingAt(queue, is_buy, price) \ {front} : front.arrived < o.arrived
<1>1. DOMAIN queue = 1..Len(queue) /\ Len(queue) \in Nat \ {0} /\ Head(queue) = queue[1]
  BY EmptySeq, LenProperties, HeadTailProperties
<1>2. Head(queue) \in Order
  BY <1>1, ElementOfSeq
<1>3. front \in RestingAt(queue, is_buy, price)
  BY <1>1 DEF RestingAt
<1>4. ASSUME NEW i \in DOMAIN queue, Rest(is_buy, price, queue[i]) # front
      PROVE  front.arrived < Rest(is_buy, price, queue[i]).arrived
  <2>1. 1 < i /\ 1 \in DOMAIN queue
    BY <1>1, <1>4
  <2>2. queue[1].arrived < queue[i].arrived
    BY <2>1 DEF InTurn
  <2> QED BY <1>1, <2>2 DEF Rest
<1> QED BY <1>2, <1>3, <1>4 DEF RestingAt

LEMMA TradedRests ==
  ASSUME NEW queue \in Seq(Order), queue # <<>>, InTurn(queue), NEW quantity \in Int,
         NEW left, left = Left(Head(queue).quantity, quantity), NEW is_buy, NEW price
  PROVE  /\ Traded(queue, quantity) \in Seq(Order)
         /\ InTurn(Traded(queue, quantity))
         /\ RestingAt(Traded(queue, quantity), is_buy, price) =
              (RestingAt(queue, is_buy, price) \ {Rest(is_buy, price, Head(queue))})
                \cup (IF left = 0 THEN {}
                      ELSE {Rest(is_buy, price, [Head(queue) EXCEPT !.quantity = left])})
<1> DEFINE after == Traded(queue, quantity)
           front == [Head(queue) EXCEPT !.quantity = left]
<1>1. /\ after \in Seq(Order)
      /\ left = 0 => after = Tail(queue)
      /\ left # 0 => /\ DOMAIN after = DOMAIN queue
                     /\ \A j \in DOMAIN queue : after[j] = IF j = 1 THEN front ELSE queue[j]
  BY TradedIs
<1>2. DOMAIN queue = 1..Len(queue) /\ Len(queue) \in Nat \ {0} /\ Head(queue) = queue[1]
  BY EmptySeq, LenProperties, HeadTailProperties
<1>3. front.arrived = queue[1].arrived
  <2>1. queue[1] \in Order
    BY <1>2, ElementOfSeq
  <2> QED BY <1>2, <2>1 DEF Order
<1> HIDE DEF after, front
<1>4. CASE left = 0
  <2>1. OneLess(after, queue, 1)
    BY <1>1, <1>4, HeadTailProperties DEF OneLess
  <2>2. 1 \in 1..Len(queue)
    BY <1>2
  <2>3. /\ InTurn(after)
        /\ RestingAt(after, is_buy, price) =
             RestingAt(queue, is_buy, price) \ {Rest(is_buy, price, queue[1])}
    BY <1>1, <2>1, <2>2, OneLessRests
  <2> QED BY <1>1, <1>2, <1>4, <2>3 DEF after
<1>5. CASE left # 0
  <2>1. InTurn(after)
    BY <1>1, <1>2, <1>3, <1>5 DEF InTurn
  <2>2. \A j \in DOMAIN queue : j # 1 => Rest(is_buy, price, queue[j]) # Rest(is_buy, price, queue[1])
    <3> SUFFICES ASSUME NEW j \in DOMAIN queue, j # 1
                 PROVE  Rest(is_buy, price, queue[j]).arrived # Rest(is_buy, price, queue[1]).arrived
      OBVIOUS
    <3>1. 1 \in DOMAIN queue /\ 1 < j
      BY <1>2
    <3>2. queue[1].arrived < queue[j].arrived
      BY <3>1 DEF InTurn
    <3>3. queue[1] \in Order /\ queue[j] \in Order
      BY <1>2, <3>1, ElementOfSeq
    <3>4. queue[1].arrived \in Int /\ queue[j].arrived \in Int
      BY <3>3, MaxClockAssumption DEF Order
    <3> QED BY <3>2, <3>4 DEF Rest
  <2>3. ASSUME NEW o
        PROVE  o \in RestingAt(after, is_buy, price) <=>
                 \/ o \in RestingAt(queue, is_buy, price) /\ o # Rest(is_buy, price, queue[1])
                 \/ o = Rest(is_buy, price, front)
    <3>1. o \in RestingAt(after, is_buy, price) <=> \E j \in DOMAIN queue : o = Rest(is_buy, price, after[j])
      BY <1>1, <1>5 DEF RestingAt
    <3>4. 1 \in DOMAIN queue
      BY <1>2
    <3>2. after[1] = front /\ \A j \in DOMAIN queue : j # 1 => after[j] = queue[j]
      BY <1>1, <1>5, <3>4
    <3>3. o \in RestingAt(queue, is_buy, price) /\ o # Rest(is_buy, price, queue[1])
            <=> \E j \in DOMAIN queue : j # 1 /\ o = Rest(is_buy, price, queue[j])
      BY <2>2 DEF RestingAt
    <3> QED BY <3>1, <3>2, <3>3, <3>4
  <2> QED BY <1>1, <1>2, <1>5, <2>1, <2>3 DEF after, front
<1> QED BY <1>4, <1>5

\* Every queue of the side is in turn.
Turns(orders) == \A p : InTurn(Level(orders, p))

LEMMA RestType ==
  ASSUME NEW orders, IsSide(orders), NEW is_buy, NEW o \in RestingIn(orders, is_buy)
  PROVE  /\ o.is_buy = is_buy /\ o.quantity \in Quantity /\ o.arrived \in 0..MaxClock
         /\ o.price \in DOMAIN orders /\ o.price \in Prices
         /\ o = [is_buy |-> o.is_buy, quantity |-> o.quantity, price |-> o.price, arrived |-> o.arrived]
<1>1. PICK p \in DOMAIN orders : \E i \in DOMAIN orders[p] : o = Rest(is_buy, p, orders[p][i])
  BY DEF RestingIn, Rest
<1>2. PICK i \in DOMAIN orders[p] : o = Rest(is_buy, p, orders[p][i])
  BY <1>1
<1>3. orders[p] \in Seq(Order) /\ p \in Prices
  BY DEF IsSide
<1>4. orders[p][i] \in Order
  BY <1>3, ElementOfSeq, LenProperties
<1> QED BY <1>3, <1>4, <1>2 DEF Rest, Order

LEMMA AddedRests ==
  ASSUME NEW orders, IsSide(orders), Turns(orders), NEW price \in Prices, NEW order \in Order,
         NEW is_buy, \A o \in RestingIn(orders, is_buy) : o.arrived < order.arrived,
         NEW after, after = SetLevel(orders, price, Append(Level(orders, price), order))
  PROVE  /\ Turns(after)
         /\ RestingIn(after, is_buy) = RestingIn(orders, is_buy) \cup {Rest(is_buy, price, order)}
<1> DEFINE queue == Level(orders, price)
           longer == Append(queue, order)
<1>1. queue \in Seq(Order) /\ InTurn(queue)
  BY LevelType DEF Turns
<1>2. {o \in RestingIn(orders, is_buy) : o.price = price} = RestingAt(queue, is_buy, price)
  BY LevelRests
<1>3. \A i \in DOMAIN queue : queue[i].arrived < order.arrived
  <2> SUFFICES ASSUME NEW i \in DOMAIN queue
               PROVE  queue[i].arrived < order.arrived
    OBVIOUS
  <2>1. Rest(is_buy, price, queue[i]) \in RestingIn(orders, is_buy)
    BY <1>2 DEF RestingAt
  <2>2. Rest(is_buy, price, queue[i]).arrived < order.arrived
    BY <2>1
  <2> QED BY <2>2 DEF Rest
<1> HIDE DEF queue
<1>4. /\ longer \in Seq(Order) /\ InTurn(longer)
      /\ RestingAt(longer, is_buy, price) =
           RestingAt(queue, is_buy, price) \cup {Rest(is_buy, price, order)}
  BY <1>1, <1>3, AppendRests, AppendProperties
<1>5. after = SetLevel(orders, price, longer)
  BY DEF queue
<1> HIDE DEF longer
<1>6. /\ \A p : Level(after, p) = IF p = price THEN longer ELSE Level(orders, p)
      /\ RestingIn(after, is_buy) = {o \in RestingIn(orders, is_buy) : o.price # price}
                                      \cup RestingAt(longer, is_buy, price)
  BY <1>4, <1>5, SetLevelProperties, SetLevelRests
<1>7. Turns(after)
  BY <1>4, <1>6 DEF Turns
<1> QED BY <1>2, <1>4, <1>6, <1>7

LEMMA RemovedRests ==
  ASSUME NEW orders, IsSide(orders), Turns(orders), NEW price \in Prices, NEW id, NEW is_buy,
         InLevel(orders, price, id),
         NEW after, after = SetLevel(orders, price, WithoutFirst(orders[price], id))
  PROVE  /\ Turns(after)
         /\ \E o \in RestingIn(orders, is_buy) :
              RestingIn(after, is_buy) = RestingIn(orders, is_buy) \ {o}
<1> DEFINE queue == Level(orders, price)
           rest == WithoutFirst(queue, id)
<1>1. queue \in Seq(Order) /\ InTurn(queue) /\ Has(queue, id)
  BY LevelType, InLevelHas DEF Turns
<1>2. queue = orders[price]
  <2>1. DOMAIN <<>> = {}
    OBVIOUS
  <2> QED BY <1>1, <2>1 DEF Level, Has
<1>3. {o \in RestingIn(orders, is_buy) : o.price = price} = RestingAt(queue, is_buy, price)
  BY LevelRests
<1> HIDE DEF queue
<1>4. rest \in Seq(Order) /\ InTurn(rest)
  BY <1>1, WithoutFirstRests
<1>5. PICK o \in RestingAt(queue, is_buy, price) :
        RestingAt(rest, is_buy, price) = RestingAt(queue, is_buy, price) \ {o}
  BY <1>1, WithoutFirstRests
<1>6. after = SetLevel(orders, price, rest)
  BY <1>2
<1> HIDE DEF rest
<1>7. /\ \A p : Level(after, p) = IF p = price THEN rest ELSE Level(orders, p)
      /\ RestingIn(after, is_buy) = {r \in RestingIn(orders, is_buy) : r.price # price}
                                      \cup RestingAt(rest, is_buy, price)
  BY <1>4, <1>6, SetLevelProperties, SetLevelRests
<1>8. Turns(after)
  BY <1>4, <1>7 DEF Turns
<1>9. RestingIn(after, is_buy) = RestingIn(orders, is_buy) \ {o}
  BY <1>3, <1>5, <1>7
<1> QED BY <1>3, <1>5, <1>8, <1>9

\* The front order of the level best has traded, and front2 is what that makes of it.
FrontTraded(orders, after, is_buy, best, front, front2) ==
  /\ Turns(after)
  /\ front \in RestingIn(orders, is_buy)
  /\ \A o \in RestingIn(orders, is_buy) \ {front} : o.price = best => front.arrived < o.arrived
  /\ RestingIn(after, is_buy) = (RestingIn(orders, is_buy) \ {front}) \cup LeftOf(front2)

LEMMA TradedSideRests ==
  ASSUME NEW orders, Sided(orders), Turns(orders), NEW best \in DOMAIN orders, NEW is_buy,
         NEW quantity \in Int, NEW front, front = Rest(is_buy, best, Head(orders[best])),
         NEW front2, front2 = [front EXCEPT !.quantity = Left(front.quantity, quantity)],
         NEW after, after = SetLevel(orders, best, Traded(orders[best], quantity))
  PROVE  FrontTraded(orders, after, is_buy, best, front, front2)
<1> DEFINE left == Left(front.quantity, quantity)
           queue == orders[best]
           traded == Traded(queue, quantity)
<1>1. LeftOf(front2) = IF left = 0 THEN {} ELSE {[front EXCEPT !.quantity = left]}
  BY DEF LeftOf, Rest
<1>2. /\ queue \in Seq(Order) /\ queue # <<>> /\ InTurn(queue)
      /\ queue = Level(orders, best) /\ best \in Prices
  BY DEF Sided, IsSide, NonEmpty, Turns, Level
<1>3. {o \in RestingIn(orders, is_buy) : o.price = best} = RestingAt(queue, is_buy, best)
  BY <1>2, LevelRests
<1> HIDE DEF queue
<1>4. /\ Head(queue) \in Order
      /\ front \in RestingAt(queue, is_buy, best)
      /\ \A o \in RestingAt(queue, is_buy, best) \ {front} : front.arrived < o.arrived
  BY <1>2, FrontRests DEF queue
<1>5. /\ left = Left(Head(queue).quantity, quantity)
      /\ Rest(is_buy, best, [Head(queue) EXCEPT !.quantity = left]) = [front EXCEPT !.quantity = left]
  BY <1>4 DEF Rest, Order, queue
<1>6. /\ traded \in Seq(Order) /\ InTurn(traded)
      /\ RestingAt(traded, is_buy, best) =
           (RestingAt(queue, is_buy, best) \ {Rest(is_buy, best, Head(queue))})
             \cup (IF left = 0 THEN {} ELSE {Rest(is_buy, best, [Head(queue) EXCEPT !.quantity = left])})
  BY <1>2, <1>5, TradedRests
<1>7. after = SetLevel(orders, best, traded) /\ front = Rest(is_buy, best, Head(queue))
  BY DEF queue
<1> HIDE DEF traded
<1>8. /\ \A p : Level(after, p) = IF p = best THEN traded ELSE Level(orders, p)
      /\ RestingIn(after, is_buy) = {o \in RestingIn(orders, is_buy) : o.price # best}
                                      \cup RestingAt(traded, is_buy, best)
  BY <1>2, <1>6, <1>7, SetLevelProperties, SetLevelRests DEF Sided
<1>9. Turns(after)
  BY <1>6, <1>8 DEF Turns
<1>10. RestingAt(traded, is_buy, best) = (RestingAt(queue, is_buy, best) \ {front}) \cup LeftOf(front2)
  BY <1>1, <1>5, <1>6, <1>7
<1>11. RestingIn(after, is_buy) = (RestingIn(orders, is_buy) \ {front}) \cup LeftOf(front2)
  BY <1>3, <1>4, <1>8, <1>10
<1> QED BY <1>3, <1>4, <1>9, <1>11 DEF FrontTraded

-----------------------------------------------------------------------------
(* The steps of the book *)

Rests == RestingIn(buy_orders, TRUE) \cup RestingIn(sell_orders, FALSE)

\* The invariant about the arrivals of the orders in the book.
Arrivals ==
  /\ Turns(buy_orders) /\ Turns(sell_orders)
  /\ Distinct(Rests)
  /\ \A o \in Rests : o.arrived < clock

LEMMA RestingIs == Resting = ByArrival(Rests)
BY DEF Resting, ByArrival, Rests

LEMMA RestingAfter == Resting' = ByArrival(Rests')
BY DEF Resting, ByArrival, Rests

LEMMA ArrivalsAfter ==
  Arrivals' <=> /\ Turns(buy_orders') /\ Turns(sell_orders')
                /\ Distinct(Rests') /\ \A o \in Rests' : o.arrived < clock'
BY DEF Arrivals, Distinct, Turns, InTurn, Level

LEMMA RestsType ==
  ASSUME Inv
  PROVE  \A o \in Rests :
           /\ o.quantity \in Quantity /\ o.arrived \in 0..MaxClock
           /\ o.price \in Prices /\ o.is_buy \in BOOLEAN
           /\ o.is_buy => o \in RestingIn(buy_orders, TRUE) /\ o.price \in DOMAIN buy_orders
           /\ ~o.is_buy => o \in RestingIn(sell_orders, FALSE) /\ o.price \in DOMAIN sell_orders
<1>1. IsSide(buy_orders) /\ IsSide(sell_orders)
  BY DEF Inv, TypeOK
<1>2. \A o \in RestingIn(buy_orders, TRUE) :
        /\ o.is_buy = TRUE /\ o.quantity \in Quantity /\ o.arrived \in 0..MaxClock
        /\ o.price \in DOMAIN buy_orders /\ o.price \in Prices
  BY <1>1, RestType
<1>3. \A o \in RestingIn(sell_orders, FALSE) :
        /\ o.is_buy = FALSE /\ o.quantity \in Quantity /\ o.arrived \in 0..MaxClock
        /\ o.price \in DOMAIN sell_orders /\ o.price \in Prices
  BY <1>1, RestType
<1> QED BY <1>2, <1>3 DEF Rests

LEMMA InitRefines == Init => Arrivals /\ PriceTime!Init
<1> SUFFICES ASSUME Init PROVE Arrivals /\ PriceTime!Init
  OBVIOUS
<1>1. \A is_buy : RestingIn(NoOrders, is_buy) = {}
  BY DEF RestingIn, NoOrders
<1>2. Rests = {}
  BY <1>1 DEF Init, Rests
<1>3. \A p : Level(NoOrders, p) = <<>>
  BY DEF Level, NoOrders
<1>4. DOMAIN <<>> = {}
  OBVIOUS
<1>5. Turns(NoOrders)
  BY <1>3, <1>4 DEF Turns, InTurn
<1>6. Arrivals
  BY <1>2, <1>5 DEF Init, Arrivals, Distinct
<1>7. Resting = [n \in {} |-> <<>>]
  BY <1>2, RestingIs DEF ByArrival
<1> QED BY <1>6, <1>7 DEF Init, PriceTime!Init

LEMMA AddOrderRefines ==
  ASSUME Inv, Arrivals, NEW id \in Ids, NEW is_buy \in BOOLEAN, NEW quantity \in SubmitQuantities,
         NEW price \in Prices, add_order(id, is_buy, quantity, price)
  PROVE  Arrivals' /\ PriceTime!Submit(clock, is_buy, quantity, price)
<1> DEFINE order == [order_id |-> id, quantity |-> quantity, arrived |-> clock]
           placed == [is_buy |-> is_buy, quantity |-> quantity, price |-> price, arrived |-> clock]
           Added(orders) == SetLevel(orders, price, Append(Level(orders, price), order))
<1>1. /\ IsSide(buy_orders) /\ IsSide(sell_orders) /\ clock \in Nat
      /\ Turns(buy_orders) /\ Turns(sell_orders) /\ Distinct(Rests)
      /\ \A o \in Rests : o.arrived < clock /\ o.arrived \in 0..MaxClock
  <2>1. \A o \in Rests : o.arrived \in 0..MaxClock
    BY RestsType
  <2> QED BY <2>1, MaxClockAssumption DEF Inv, TypeOK, Arrivals
<1>2. order \in Order /\ order.arrived = clock /\ Rest(is_buy, price, order) = placed
  BY QuantitiesAssumption DEF Inv, TypeOK, Order, Quantity, Rest
<1>3. /\ buy_orders' = IF is_buy THEN Added(buy_orders) ELSE buy_orders
      /\ sell_orders' = IF is_buy THEN sell_orders ELSE Added(sell_orders)
      /\ clock < MaxClock /\ clock' = clock + 1 /\ trades' = trades
  BY DEF add_order
<1> HIDE DEF order
<1>4. ASSUME NEW orders, IsSide(orders), Turns(orders),
             \A o \in RestingIn(orders, is_buy) : o.arrived < clock
      PROVE  /\ Turns(Added(orders))
             /\ RestingIn(Added(orders), is_buy) = RestingIn(orders, is_buy) \cup {placed}
  BY <1>2, <1>4, AddedRests
<1> HIDE DEF Added
<1>5. Turns(buy_orders') /\ Turns(sell_orders') /\ Rests' = Rests \cup {placed}
  <2>1. CASE is_buy = TRUE
    <3>1. /\ Turns(Added(buy_orders))
          /\ RestingIn(Added(buy_orders), TRUE) = RestingIn(buy_orders, TRUE) \cup {placed}
      BY <1>1, <1>4, <2>1 DEF Rests
    <3>2. buy_orders' = Added(buy_orders) /\ sell_orders' = sell_orders
      BY <1>3, <2>1
    <3> HIDE DEF placed
    <3> QED BY <1>1, <3>1, <3>2 DEF Rests
  <2>2. CASE is_buy = FALSE
    <3>1. /\ Turns(Added(sell_orders))
          /\ RestingIn(Added(sell_orders), FALSE) = RestingIn(sell_orders, FALSE) \cup {placed}
      BY <1>1, <1>4, <2>2 DEF Rests
    <3>2. sell_orders' = Added(sell_orders) /\ buy_orders' = buy_orders
      BY <1>3, <2>2
    <3> HIDE DEF placed
    <3> QED BY <1>1, <3>1, <3>2 DEF Rests
  <2> QED BY <2>1, <2>2
<1>6. placed.arrived = clock
  OBVIOUS
<1> HIDE DEF placed
<1>7. Unlike(placed, Rests)
  BY <1>1, <1>6 DEF Unlike
<1>8. Distinct(Rests') /\ ByArrival(Rests') = Plus(ByArrival(Rests), placed)
  BY <1>1, <1>5, <1>7, ByArrivalAdd
<1>9. Arrivals'
  BY <1>1, <1>3, <1>5, <1>6, <1>8, ArrivalsAfter
<1>10. Resting' = [o \in DOMAIN Resting \cup {clock} |-> IF o = clock THEN placed ELSE Resting[o]]
  BY <1>6, <1>8, RestingIs, RestingAfter DEF Plus
<1>11. clock \notin DOMAIN Resting
  BY <1>1, RestingIs DEF ByArrival
<1>12. PriceTime!Place(clock, placed)
  BY <1>3, <1>10 DEF PriceTime!Place
<1> QED BY <1>9, <1>11, <1>12 DEF PriceTime!Submit, placed

LEMMA CancelOrderRefines ==
  ASSUME Inv, Arrivals, NEW id \in Ids, cancel_order(id)
  PROVE  /\ Arrivals'
         /\ \E n \in 0..(MaxClock - 1) : PriceTime!Cancel(n)
<1> DEFINE price == order_lookup[id]
           Removed(orders) == SetLevel(orders, price, WithoutFirst(orders[price], id))
<1>1. /\ IsSide(buy_orders) /\ IsSide(sell_orders) /\ price \in Prices
      /\ Turns(buy_orders) /\ Turns(sell_orders) /\ Distinct(Rests)
      /\ \A o \in Rests : o.arrived < clock /\ o.arrived \in 0..MaxClock
      /\ clock \in 0..MaxClock
  BY RestsType DEF Inv, TypeOK, Arrivals, cancel_order
<1>2. /\ \/ InLevel(buy_orders, price, id) /\ buy_orders' = Removed(buy_orders)
            /\ sell_orders' = sell_orders
         \/ InLevel(sell_orders, price, id) /\ sell_orders' = Removed(sell_orders)
            /\ buy_orders' = buy_orders
      /\ UNCHANGED <<trades, clock>>
  BY DEF cancel_order
<1>3. ASSUME NEW orders, NEW is_buy, IsSide(orders), Turns(orders), InLevel(orders, price, id)
      PROVE  /\ Turns(Removed(orders))
             /\ \E o \in RestingIn(orders, is_buy) :
                  RestingIn(Removed(orders), is_buy) = RestingIn(orders, is_buy) \ {o}
  BY <1>1, <1>3, RemovedRests
<1> HIDE DEF Removed, price
<1>4. \A o \in RestingIn(buy_orders, TRUE) : o \notin RestingIn(sell_orders, FALSE)
  <2>1. \A o \in RestingIn(buy_orders, TRUE) : o.is_buy = TRUE
    BY <1>1, RestType
  <2>2. \A o \in RestingIn(sell_orders, FALSE) : o.is_buy = FALSE
    BY <1>1, RestType
  <2> QED BY <2>1, <2>2
<1>5. Turns(buy_orders') /\ Turns(sell_orders') /\ \E o \in Rests : Rests' = Rests \ {o}
  <2>1. CASE /\ InLevel(buy_orders, price, id) /\ buy_orders' = Removed(buy_orders)
             /\ sell_orders' = sell_orders
    <3>1. PICK o \in RestingIn(buy_orders, TRUE) :
            RestingIn(buy_orders', TRUE) = RestingIn(buy_orders, TRUE) \ {o}
      BY <1>1, <1>3, <2>1
    <3>2. Turns(buy_orders') /\ Turns(sell_orders')
      BY <1>1, <1>3, <2>1
    <3>3. Rests' = Rests \ {o}
      BY <1>4, <2>1, <3>1 DEF Rests
    <3> QED BY <3>2, <3>3 DEF Rests
  <2>2. CASE /\ InLevel(sell_orders, price, id) /\ sell_orders' = Removed(sell_orders)
             /\ buy_orders' = buy_orders
    <3>1. PICK o \in RestingIn(sell_orders, FALSE) :
            RestingIn(sell_orders', FALSE) = RestingIn(sell_orders, FALSE) \ {o}
      BY <1>1, <1>3, <2>2
    <3>2. Turns(buy_orders') /\ Turns(sell_orders')
      BY <1>1, <1>3, <2>2
    <3>3. Rests' = Rests \ {o}
      BY <1>4, <2>2, <3>1 DEF Rests
    <3> QED BY <3>2, <3>3 DEF Rests
  <2> QED BY <1>2, <2>1, <2>2
<1>6. PICK o \in Rests : Rests' = Rests \ {o}
  BY <1>5
<1>7. /\ Distinct(Rests')
      /\ ByArrival(Rests') = [n \in DOMAIN ByArrival(Rests) \ {o.arrived} |-> ByArrival(Rests)[n]]
  BY <1>1, <1>6, ByArrivalRemove
<1>8. Arrivals'
  BY <1>1, <1>2, <1>5, <1>6, <1>7, ArrivalsAfter
<1>9. o.arrived \in 0..(MaxClock - 1) /\ o.arrived \in DOMAIN Resting
  BY <1>1, MaxClockAssumption, RestingIs DEF ByArrival
<1>10. Resting' = [n \in DOMAIN Resting \ {o.arrived} |-> Resting[n]]
  BY <1>7, RestingIs, RestingAfter
<1>11. PriceTime!Cancel(o.arrived)
  BY <1>2, <1>9, <1>10 DEF PriceTime!Cancel
<1> QED BY <1>8, <1>9, <1>11

LEMMA MatchOrdersRefines ==
  ASSUME Inv, Arrivals, match_orders
  PROVE  /\ Arrivals'
         /\ \E buy, sell \in 0..(MaxClock - 1) : PriceTime!Trade(buy, sell)
<1> DEFINE best_buy == BestBuy(buy_orders)
           best_sell == BestSell(sell_orders)
           buy == Head(buy_orders[best_buy])
           sell == Head(sell_orders[best_sell])
           quantity == IF sell.quantity < buy.quantity THEN sell.quantity ELSE buy.quantity
           b == Rest(TRUE, best_buy, buy)
           s == Rest(FALSE, best_sell, sell)
           b2 == [b EXCEPT !.quantity = Left(b.quantity, quantity)]
           s2 == [s EXCEPT !.quantity = Left(s.quantity, quantity)]
<1>1. /\ Sided(buy_orders) /\ Sided(sell_orders)
      /\ Turns(buy_orders) /\ Turns(sell_orders) /\ Distinct(Rests)
  BY InvSides DEF Arrivals
<1>2. /\ best_buy \in DOMAIN buy_orders /\ \A p \in DOMAIN buy_orders : p <= best_buy
      /\ best_sell \in DOMAIN sell_orders /\ \A p \in DOMAIN sell_orders : best_sell <= p
      /\ best_buy >= best_sell
  BY <1>1, BestBuyIsHighest, BestSellIsLowest DEF match_orders, Matchable, Sided
<1>3. /\ trades' = Append(trades, [buy_order_id |-> buy.arrived, sell_order_id |-> sell.arrived,
                                   price |-> best_sell, quantity |-> quantity])
      /\ buy_orders' = SetLevel(buy_orders, best_buy, Traded(buy_orders[best_buy], quantity))
      /\ sell_orders' = SetLevel(sell_orders, best_sell, Traded(sell_orders[best_sell], quantity))
      /\ clock' = clock
  BY DEF match_orders
<1>4. /\ b.quantity = buy.quantity /\ b.arrived = buy.arrived /\ b.price = best_buy /\ b.is_buy = TRUE
      /\ s.quantity = sell.quantity /\ s.arrived = sell.arrived /\ s.price = best_sell
      /\ s.is_buy = FALSE
      /\ b2.arrived = b.arrived /\ b2.quantity = Left(b.quantity, quantity)
      /\ s2.arrived = s.arrived /\ s2.quantity = Left(s.quantity, quantity)
  BY DEF Rest
<1>5. quantity \in Int
  <2>1. ASSUME NEW orders, Sided(orders), NEW best \in DOMAIN orders
        PROVE  Head(orders[best]).quantity \in Int
    <3>1. orders[best] \in Seq(Order) /\ orders[best] # <<>>
      BY <2>1 DEF Sided, IsSide, NonEmpty
    <3>2. Head(orders[best]) \in Order
      BY <3>1, HeadTailProperties
    <3> QED BY <3>2, MaxQuantityAssumption DEF Order, Quantity
  <2>2. buy.quantity \in Int /\ sell.quantity \in Int
    BY <1>1, <1>2, <2>1
  <2> QED BY <2>2
<1> HIDE DEF best_buy, best_sell, quantity
<1>6. /\ b = Rest(TRUE, best_buy, Head(buy_orders[best_buy]))
      /\ b2 = [b EXCEPT !.quantity = Left(b.quantity, quantity)]
      /\ s = Rest(FALSE, best_sell, Head(sell_orders[best_sell]))
      /\ s2 = [s EXCEPT !.quantity = Left(s.quantity, quantity)]
  OBVIOUS
<1> HIDE DEF b, s, b2, s2, buy, sell
<1>7. FrontTraded(buy_orders, buy_orders', TRUE, best_buy, b, b2)
  BY <1>1, <1>2, <1>3, <1>5, <1>6, TradedSideRests
<1>8. FrontTraded(sell_orders, sell_orders', FALSE, best_sell, s, s2)
  BY <1>1, <1>2, <1>3, <1>5, <1>6, TradedSideRests
<1>9. Rests' = (Rests \ {b, s}) \cup LeftOf(b2) \cup LeftOf(s2)
  <2>1. IsSide(buy_orders) /\ IsSide(sell_orders)
    BY <1>1 DEF Sided
  <2>2. /\ \A o \in RestingIn(buy_orders, TRUE) : o.is_buy = TRUE
        /\ \A o \in RestingIn(sell_orders, FALSE) : o.is_buy = FALSE
    BY <2>1, RestType
  <2>3. b \notin RestingIn(sell_orders, FALSE) /\ s \notin RestingIn(buy_orders, TRUE)
    BY <1>4, <2>2
  <2> QED BY <1>7, <1>8, <2>3 DEF Rests, FrontTraded
<1>10. b \in Rests /\ s \in Rests /\ b # s
  BY <1>4, <1>7, <1>8 DEF Rests, FrontTraded
<1>11. /\ Distinct(Rests')
       /\ ByArrival(Rests') =
            Remaining(Exchanged(ByArrival(Rests), b2, s2), {b.arrived, s.arrived})
  BY <1>1, <1>4, <1>9, <1>10, ByArrivalTrade
<1>12. Arrivals'
  <2>1. \A o \in Rests' : o.arrived < clock
    <3>1. \A o, r : r \in LeftOf(o) => r = o
      BY DEF LeftOf
    <3> QED BY <1>4, <1>9, <1>10, <3>1 DEF Arrivals
  <2> QED BY <1>3, <1>7, <1>8, <1>11, <2>1, ArrivalsAfter DEF FrontTraded
<1>13. /\ b.arrived \in DOMAIN Resting /\ Resting[b.arrived] = b
       /\ s.arrived \in DOMAIN Resting /\ Resting[s.arrived] = s
       /\ \A n \in DOMAIN Resting : Resting[n] \in Rests /\ Resting[n].arrived = n
  BY <1>1, <1>10, RestingIs, ByArrivalIs
<1>14. PriceTime!IsBest(b.arrived)
  <2> SUFFICES ASSUME NEW n \in DOMAIN Resting, n # b.arrived, Resting[n].is_buy = TRUE
               PROVE  PriceTime!Precedes(b, Resting[n])
    BY <1>4, <1>13 DEF PriceTime!IsBest
  <2>1. Resting[n] \in RestingIn(buy_orders, TRUE) \ {b} /\ Resting[n].price \in DOMAIN buy_orders
    BY <1>13, RestsType
  <2>2. Resting[n].price = best_buy => b.arrived < Resting[n].arrived
    BY <1>7, <2>1 DEF FrontTraded
  <2>3. Resting[n].price # best_buy => best_buy > Resting[n].price
    <3>1. DOMAIN buy_orders \subseteq Int
      BY <1>1, PricesAssumption DEF Sided, IsSide
    <3> QED BY <1>2, <2>1, <3>1
  <2> QED BY <1>4, <2>2, <2>3 DEF PriceTime!Precedes
<1>15. PriceTime!IsBest(s.arrived)
  <2> SUFFICES ASSUME NEW n \in DOMAIN Resting, n # s.arrived, Resting[n].is_buy = FALSE
               PROVE  PriceTime!Precedes(s, Resting[n])
    BY <1>4, <1>13 DEF PriceTime!IsBest
  <2>1. Resting[n] \in RestingIn(sell_orders, FALSE) \ {s} /\ Resting[n].price \in DOMAIN sell_orders
    BY <1>13, RestsType
  <2>2. Resting[n].price = best_sell => s.arrived < Resting[n].arrived
    BY <1>8, <2>1 DEF FrontTraded
  <2>3. Resting[n].price # best_sell => best_sell < Resting[n].price
    <3>1. DOMAIN sell_orders \subseteq Int
      BY <1>1, PricesAssumption DEF Sided, IsSide
    <3> QED BY <1>2, <2>1, <3>1
  <2> QED BY <1>4, <2>2, <2>3 DEF PriceTime!Precedes
<1> DEFINE after == [o \in DOMAIN Resting |->
                       IF o \in {b.arrived, s.arrived} THEN PriceTime!Reduced(Resting[o], quantity)
                       ELSE Resting[o]]
<1>16. after = Exchanged(Resting, b2, s2)
  <2>1. PriceTime!Reduced(b, quantity) = b2 /\ PriceTime!Reduced(s, quantity) = s2
    BY DEF PriceTime!Reduced, Left, ToQuantity, b2, s2
  <2>2. \A n \in DOMAIN Resting : after[n] = Exchanged(Resting, b2, s2)[n]
    BY <1>4, <1>13, <2>1 DEF Exchanged
  <2> QED BY <2>2 DEF Exchanged
<1>17. DOMAIN after = DOMAIN Resting
  OBVIOUS
<1> HIDE DEF after
<1>18. Resting' = [o \in {p \in DOMAIN Resting : p \in {b.arrived, s.arrived} => after[p].quantity # 0}
                     |-> after[o]]
  BY <1>11, <1>16, <1>17, RestingIs, RestingAfter DEF Remaining
<1>19. quantity = IF s.quantity < b.quantity THEN s.quantity ELSE b.quantity
  BY <1>4 DEF quantity
<1>20. trades' = Append(trades, [buy_order_id |-> b.arrived, sell_order_id |-> s.arrived,
                                price |-> s.price, quantity |-> quantity])
  BY <1>3, <1>4
<1>21. PriceTime!Trade(b.arrived, s.arrived)
  BY <1>2, <1>3, <1>4, <1>13, <1>14, <1>15, <1>18, <1>19, <1>20 DEF PriceTime!Trade, after
<1>22. b.arrived \in 0..(MaxClock - 1) /\ s.arrived \in 0..(MaxClock - 1)
  <2>1. clock \in 0..MaxClock /\ b.arrived < clock /\ s.arrived < clock
    BY <1>10 DEF Arrivals, Inv, TypeOK
  <2>2. b.arrived \in 0..MaxClock /\ s.arrived \in 0..MaxClock
    BY <1>10, RestsType
  <2> QED BY <2>1, <2>2, MaxClockAssumption
<1> QED BY <1>12, <1>21, <1>22

LEMMA NextRefines == Inv /\ Arrivals /\ [Next]_vars => Arrivals' /\ [PriceTime!Next]_(PriceTime!vars)
<1> SUFFICES ASSUME Inv, Arrivals, [Next]_vars
             PROVE  Arrivals' /\ [PriceTime!Next]_(PriceTime!vars)
  OBVIOUS
<1>1. ASSUME NEW id \in Ids, NEW is_buy \in BOOLEAN, NEW quantity \in SubmitQuantities, NEW price \in Prices,
             add_order(id, is_buy, quantity, price)
      PROVE  Arrivals' /\ PriceTime!Next
  <2>1. quantity \in PriceTime!Quantity
    BY QuantitiesAssumption DEF Quantity, PriceTime!Quantity
  <2>2. clock \in 0..(MaxClock - 1)
    BY <1>1, MaxClockAssumption DEF add_order, Inv, TypeOK
  <2> QED BY <1>1, <2>1, <2>2, AddOrderRefines DEF PriceTime!Next
<1>2. ASSUME NEW id \in Ids, cancel_order(id)
      PROVE  Arrivals' /\ PriceTime!Next
  BY <1>2, CancelOrderRefines DEF PriceTime!Next
<1>3. ASSUME match_orders
      PROVE  Arrivals' /\ PriceTime!Next
  BY <1>3, MatchOrdersRefines DEF PriceTime!Next
<1>4. ASSUME UNCHANGED <<sides, trades, clock>>
      PROVE  Arrivals' /\ UNCHANGED PriceTime!vars
  <2>1. Rests' = Rests /\ Turns(buy_orders') /\ Turns(sell_orders')
    BY <1>4 DEF Rests, sides, Arrivals
  <2>2. Arrivals'
    BY <1>4, <2>1, ArrivalsAfter DEF Arrivals
  <2>3. Resting' = Resting
    BY <2>1, RestingIs, RestingAfter
  <2> QED BY <1>4, <2>2, <2>3 DEF PriceTime!vars
<1>5. CASE Matched \/ UNCHANGED vars
  BY <1>4, <1>5 DEF Matched, vars
<1> QED BY <1>1, <1>2, <1>3, <1>5 DEF Next

(***************************************************************************)
(* With queues per price, and order_lookup, the book of the HFT simulator   *)
(* follows price-time priority: each trade is between the best buy and the  *)
(* best sell, at the price of the sell, for the smaller quantity.           *)
(***************************************************************************)
THEOREM Refinement == Spec => FollowsPriceTimePriority
<1>1. Spec => PriceTime!Spec
  BY InitInv, NextKeepsInv, InitRefines, NextRefines, PTL DEF Spec, PriceTime!Spec
<1> QED BY <1>1 DEF FollowsPriceTimePriority

=============================================================================
