--------------------------- MODULE OrderBook_proofs ---------------------------
(***************************************************************************)
(* Theorems about OrderBook, for any ids, prices, quantities (zero and      *)
(* negative ones included, and 32-bit wrap-around) and any number of calls: *)
(* its types, index and queues, the totals of its levels, its trades, and   *)
(* that it implements PriceTimePriority.                                    *)
(***************************************************************************)
EXTENDS OrderBook, Collections_proofs

-----------------------------------------------------------------------------
(* What the operations on the price levels of one side preserve, for any    *)
(* ids, prices and quantities.                                              *)

(***************************************************************************)
(* Whatever is computed, an int32_t holds a value of its type.              *)
(***************************************************************************)
LEMMA ToQuantityType ==
  ASSUME NEW x \in Int
  PROVE  ToQuantity(x) \in Quantity
<1> DEFINE w == 2 * MaxQuantity + 2
<1>1. w \in Nat \ {0}
  BY MaxQuantityAssumption
<1>2. (x + MaxQuantity + 1) % w \in 0..(w - 1)
  BY <1>1, MaxQuantityAssumption
<1> QED
  BY <1>2, MaxQuantityAssumption DEF ToQuantity, Quantity

(***************************************************************************)
(* orders.erase(find(...)): the queue without its k-th order, for a queue   *)
(* that holds every order once.                                             *)
(***************************************************************************)
LEMMA RemoveFirstProperties ==
  ASSUME NEW S, NEW q \in Seq(S), IsInjective(q), NEW k \in 1..Len(q)
  PROVE  /\ RemoveFirst(q, q[k]) \in Seq(S)
         /\ Len(RemoveFirst(q, q[k])) = Len(q) - 1
         /\ \A i \in 1..(Len(q) - 1) :
              RemoveFirst(q, q[k])[i] = IF i < k THEN q[i] ELSE q[i + 1]
<1>1. {j \in 1..Len(q) : q[j] = q[k]} = {k}
  BY DEF IsInjective
<1>2. Min({k}) = k
  BY DEF Min
<1>3. RemoveFirst(q, q[k]) = RemoveAt(q, k)
  BY <1>1, <1>2 DEF RemoveFirst, SelectInSeq
<1> DEFINE a == SubSeq(q, 1, k - 1)
           b == SubSeq(q, k + 1, Len(q))
<1>4. /\ a \in Seq(S)
      /\ Len(a) = k - 1
      /\ \A i \in 1..(k - 1) : a[i] = q[i]
  <2>1. \A i \in 1..(k - 1) : q[i] \in S
    BY ElementOfSeq
  <2>2. /\ a \in Seq(S)
        /\ Len(a) = IF 1 <= k - 1 THEN (k - 1) - 1 + 1 ELSE 0
        /\ \A i \in 1..((k - 1) - 1 + 1) : a[i] = q[1 + i - 1]
    BY <2>1, SubSeqProperties
  <2> QED
    BY <2>2
<1>5. /\ b \in Seq(S)
      /\ Len(b) = Len(q) - k
      /\ \A i \in 1..(Len(q) - k) : b[i] = q[k + i]
  <2>1. \A i \in (k + 1)..Len(q) : q[i] \in S
    BY ElementOfSeq
  <2>2. /\ b \in Seq(S)
        /\ Len(b) = IF k + 1 <= Len(q) THEN Len(q) - (k + 1) + 1 ELSE 0
        /\ \A i \in 1..(Len(q) - (k + 1) + 1) : b[i] = q[(k + 1) + i - 1]
    BY <2>1, SubSeqProperties
  <2> QED
    BY <2>2
<1>6. /\ a \o b \in Seq(S)
      /\ Len(a \o b) = Len(a) + Len(b)
      /\ \A i \in 1..(Len(a) + Len(b)) :
           (a \o b)[i] = IF i <= Len(a) THEN a[i] ELSE b[i - Len(a)]
  BY <1>4, <1>5, ConcatProperties
<1>7. RemoveAt(q, k) = a \o b
  BY DEF RemoveAt
<1> HIDE DEF a, b
<1>8. \A i \in 1..(Len(q) - 1) : (a \o b)[i] = IF i < k THEN q[i] ELSE q[i + 1]
  BY <1>4, <1>5, <1>6
<1>9. RemoveFirst(q, q[k]) = a \o b
  BY <1>3, <1>7
<1>10. Len(a \o b) = Len(q) - 1
  BY <1>4, <1>5, <1>6
<1> QED
  BY <1>6, <1>8, <1>9, <1>10

(***************************************************************************)
(* What SideIndexed says of one queue.                                      *)
(***************************************************************************)
QueueIndexed(q, p, is_buy, orders) ==
  /\ q # <<>>
  /\ IsInjective(q)
  /\ \A i \in DOMAIN q : /\ q[i] \in DOMAIN orders
                         /\ orders[q[i]].is_buy = is_buy
                         /\ orders[q[i]].price = p

LEMMA SideIndexedByQueue ==
  ASSUME NEW levels, NEW b, NEW orders
  PROVE  SideIndexed(levels, b, orders) <=>
           /\ \A p \in DOMAIN levels : QueueIndexed(levels[p].orders, p, b, orders)
           /\ \A id \in DOMAIN orders : orders[id].is_buy = b =>
                /\ orders[id].price \in DOMAIN levels
                /\ Contains(levels[orders[id].price].orders, id)
  BY DEF SideIndexed, QueueIndexed

(***************************************************************************)
(* A queue in which an order that was not in the book is appended.          *)
(***************************************************************************)
LEMMA QueueAppend ==
  ASSUME NEW orders, NEW id, id \notin DOMAIN orders, NEW order,
         NEW S, id \in S, NEW q \in Seq(S), NEW p, NEW b,
         order.is_buy = b, order.price = p,
         q # <<>> => QueueIndexed(q, p, b, orders)
  PROVE  /\ Append(q, id) \in Seq(S)
         /\ QueueIndexed(Append(q, id), p, b, Put(orders, id, order))
         /\ \A o \in S : Contains(Append(q, id), o) <=> (Contains(q, o) \/ o = id)
<1> DEFINE r == Append(q, id)
<1>1. /\ r \in Seq(S) /\ r # <<>> /\ Len(r) = Len(q) + 1
      /\ \A i \in 1..Len(q) : r[i] = q[i]
      /\ r[Len(q) + 1] = id
  BY AppendProperties
<1>2. DOMAIN r = 1..(Len(q) + 1) /\ DOMAIN q = 1..Len(q) /\ Len(q) \in Nat
  BY <1>1, LenProperties
<1> HIDE DEF r
<1>3. \A i \in 1..Len(q) : q[i] \in DOMAIN orders /\ orders[q[i]].is_buy = b
                           /\ orders[q[i]].price = p
  BY <1>2 DEF QueueIndexed
<1>4. \A i, j \in 1..Len(q) : q[i] = q[j] => i = j
  BY <1>2 DEF QueueIndexed, IsInjective
<1>5. IsInjective(r)
  <2>1. \A i \in 1..Len(q) : q[i] # id
    BY <1>3
  <2> QED
    BY <1>1, <1>2, <1>4, <2>1 DEF IsInjective
<1>6. \A i \in DOMAIN r : /\ r[i] \in DOMAIN Put(orders, id, order)
                          /\ Put(orders, id, order)[r[i]].is_buy = b
                          /\ Put(orders, id, order)[r[i]].price = p
  <2> SUFFICES ASSUME NEW i \in DOMAIN r
               PROVE  /\ r[i] \in DOMAIN Put(orders, id, order)
                      /\ Put(orders, id, order)[r[i]].is_buy = b
                      /\ Put(orders, id, order)[r[i]].price = p
    OBVIOUS
  <2>1. CASE i = Len(q) + 1
    BY <1>1, <2>1 DEF Put
  <2>2. CASE i \in 1..Len(q)
    BY <1>1, <1>3, <2>2 DEF Put
  <2> QED
    BY <1>2, <2>1, <2>2
<1>7. \A o \in S : Contains(r, o) <=> (Contains(q, o) \/ o = id)
  BY <1>1, <1>2 DEF Contains
<1>8. QueueIndexed(r, p, b, Put(orders, id, order))
  BY <1>1, <1>5, <1>6 DEF QueueIndexed
<1> QED
  BY <1>1, <1>7, <1>8 DEF r

(***************************************************************************)
(* addToLevel keeps a side well-formed, indexed and, when the order is the  *)
(* latest arrival, in time order.                                           *)
(***************************************************************************)
LEMMA AddToLevelPreserves ==
  ASSUME NEW levels, IsSide(levels),
         NEW orders, NEW b, SideIndexed(levels, b, orders),
         NEW id \in Ids, id \notin DOMAIN orders,
         NEW order \in Order, order.is_buy = b,
         NEW arr, NEW now, \A o \in DOMAIN orders : arr[o] < now,
         DOMAIN arr = DOMAIN orders,
         TimeOrdered(levels, arr)
  PROVE  /\ IsSide(AddToLevel(levels, id, order))
         /\ SideIndexed(AddToLevel(levels, id, order), b, Put(orders, id, order))
         /\ TimeOrdered(AddToLevel(levels, id, order), Put(arr, id, now))
<1> DEFINE px    == order.price
           old   == LevelAt(levels, px)
           q     == old.orders
           total == ToQuantity(old.total_quantity + order.quantity)
           new   == [orders |-> Append(q, id), total_quantity |-> total]
           added == Put(levels, px, new)
           after == Put(orders, id, order)
<1>1. AddToLevel(levels, id, order) = added
  BY DEF AddToLevel
<1>2. px \in Prices /\ order.quantity \in Int
  BY MaxQuantityAssumption DEF Order, Quantity
<1>3. old \in Level
  <2>1. [orders |-> <<>>, total_quantity |-> 0] \in Level
    BY EmptySeq, MaxQuantityAssumption DEF Level, Quantity
  <2> QED
    BY <2>1 DEF LevelAt, IsSide
<1>4. q \in Seq(Ids) /\ old.total_quantity \in Int
  BY <1>3, MaxQuantityAssumption DEF Level, Quantity
<1>5. total \in Quantity
  BY <1>2, <1>4, ToQuantityType
<1>6. q # <<>> => px \in DOMAIN levels /\ q = levels[px].orders
  BY DEF LevelAt
<1>7. q # <<>> => QueueIndexed(q, px, b, orders)
  BY <1>6, SideIndexedByQueue
<1>8. /\ Append(q, id) \in Seq(Ids)
      /\ QueueIndexed(Append(q, id), px, b, after)
      /\ \A o \in Ids : Contains(Append(q, id), o) <=> (Contains(q, o) \/ o = id)
  BY <1>4, <1>7, QueueAppend
<1>9. /\ DOMAIN added = DOMAIN levels \cup {px}
      /\ added[px] = new
      /\ \A p \in DOMAIN levels \ {px} : added[p] = levels[p]
  BY DEF Put
<1>10. /\ DOMAIN after = DOMAIN orders \cup {id}
       /\ after[id] = order
       /\ \A o \in DOMAIN orders : after[o] = orders[o]
  BY DEF Put
<1>11. new \in Level /\ new.orders = Append(q, id)
  BY <1>5, <1>8 DEF Level
<1> HIDE DEF px, old, q, total, new, added, after
<1>12. IsSide(added)
  <2>1. \A p \in DOMAIN added : added[p] \in Level
    BY <1>9, <1>11 DEF IsSide
  <2>2. added = [p \in DOMAIN added |-> added[p]]
    BY DEF added, Put
  <2> QED
    BY <1>2, <1>9, <2>1, <2>2 DEF IsSide
<1>13. SideIndexed(added, b, after)
  <2>1. ASSUME NEW p \in DOMAIN added
        PROVE  QueueIndexed(added[p].orders, p, b, after)
    <3>1. CASE p = px
      BY <3>1, <1>8, <1>9, <1>11
    <3>2. CASE p # px
      <4>1. p \in DOMAIN levels /\ added[p] = levels[p]
        BY <3>2, <1>9
      <4>2. QueueIndexed(levels[p].orders, p, b, orders)
        BY <4>1, SideIndexedByQueue
      <4> QED
        BY <4>1, <4>2, <1>10 DEF QueueIndexed
    <3> QED
      BY <3>1, <3>2
  <2>2. ASSUME NEW o \in DOMAIN after, after[o].is_buy = b
        PROVE  /\ after[o].price \in DOMAIN added
               /\ Contains(added[after[o].price].orders, o)
    <3>1. CASE o = id
      BY <3>1, <1>8, <1>9, <1>10, <1>11 DEF px
    <3>2. CASE o # id
      <4>1. o \in DOMAIN orders /\ after[o] = orders[o]
        BY <3>2, <1>10
      <4>2. /\ orders[o].price \in DOMAIN levels
            /\ Contains(levels[orders[o].price].orders, o)
        BY <4>1, <2>2, SideIndexedByQueue
      <4>3. CASE orders[o].price = px
        <5>1. q = levels[px].orders
          BY <4>2, <4>3 DEF q, old, LevelAt
        <5>2. o \in Ids
          BY <4>2, <4>3, <5>1, <1>4, ElementOfSeq DEF Contains
        <5> QED
          BY <4>1, <4>2, <4>3, <5>1, <5>2, <1>8, <1>9, <1>11
      <4>4. CASE orders[o].price # px
        BY <4>1, <4>2, <4>4, <1>9
      <4> QED
        BY <4>3, <4>4
    <3> QED
      BY <3>1, <3>2
  <2> QED
    BY <2>1, <2>2, SideIndexedByQueue
<1>14. TimeOrdered(added, Put(arr, id, now))
  <2> SUFFICES ASSUME NEW p \in DOMAIN added, NEW i \in DOMAIN added[p].orders,
                      NEW j \in DOMAIN added[p].orders, i < j
               PROVE  Put(arr, id, now)[added[p].orders[i]] < Put(arr, id, now)[added[p].orders[j]]
    BY DEF TimeOrdered
  <2>1. Put(arr, id, now)[id] = now /\ \A o \in DOMAIN orders : Put(arr, id, now)[o] = arr[o]
    BY DEF Put
  <2>2. CASE p # px
    <3>1. p \in DOMAIN levels /\ added[p] = levels[p]
      BY <2>2, <1>9
    <3>2. \A k \in DOMAIN levels[p].orders : levels[p].orders[k] \in DOMAIN orders
      BY <3>1 DEF SideIndexed
    <3> QED
      BY <2>1, <3>1, <3>2 DEF TimeOrdered
  <2>3. CASE p = px
    <3>1. /\ Len(q) \in Nat
          /\ \A k \in 1..Len(q) : Append(q, id)[k] = q[k]
          /\ Append(q, id)[Len(q) + 1] = id
          /\ DOMAIN Append(q, id) = 1..(Len(q) + 1)
          /\ DOMAIN q = 1..Len(q)
      BY <1>4, AppendProperties, LenProperties
    <3>2. added[p].orders = Append(q, id)
      BY <2>3, <1>9, <1>11
    <3>3. i \in 1..Len(q) /\ q[i] \in DOMAIN orders
      <4>1. i \in 1..Len(q)
        BY <3>1, <3>2
      <4> QED
        BY <4>1, <3>1, <1>7 DEF QueueIndexed
    <3>4. CASE j = Len(q) + 1
      BY <3>1, <3>2, <3>3, <3>4, <2>1
    <3>5. CASE j \in 1..Len(q)
      <4>1. px \in DOMAIN levels /\ q = levels[px].orders
        BY <3>5, <1>6, <3>1, <1>4
      <4>2. q[j] \in DOMAIN orders
        BY <4>1, <3>1, <3>5, SideIndexedByQueue DEF QueueIndexed
      <4>3. arr[q[i]] < arr[q[j]]
        BY <4>1, <3>1, <3>3, <3>5 DEF TimeOrdered
      <4> QED
        BY <4>2, <4>3, <3>1, <3>2, <3>3, <3>5, <2>1
    <3> QED
      BY <3>1, <3>2, <3>4, <3>5
  <2> QED
    BY <2>2, <2>3
<1> QED
  BY <1>1, <1>12, <1>13, <1>14 DEF after

(***************************************************************************)
(* r is q without its k-th element, the rest in the same order.             *)
(***************************************************************************)
IsWithout(r, q, k) ==
  /\ Len(r) = Len(q) - 1
  /\ \A i \in 1..(Len(q) - 1) : r[i] = IF i < k THEN q[i] ELSE q[i + 1]

LEMMA WithoutKeepsOrder ==
  ASSUME NEW S, NEW q \in Seq(S), NEW r \in Seq(S), NEW k \in 1..Len(q), IsWithout(r, q, k)
  PROVE  /\ DOMAIN q = 1..Len(q) /\ Len(q) \in Nat /\ DOMAIN r = 1..(Len(q) - 1)
         /\ \A i \in DOMAIN r : r[i] = IF i < k THEN q[i] ELSE q[i + 1]
         /\ \A i, j \in DOMAIN r : i < j =>
              \E m, n \in DOMAIN q : m < n /\ r[i] = q[m] /\ r[j] = q[n]
<1>1. /\ DOMAIN q = 1..Len(q) /\ Len(q) \in Nat
      /\ DOMAIN r = 1..(Len(q) - 1)
  BY LenProperties DEF IsWithout
<1>2. \A i \in DOMAIN r : r[i] = IF i < k THEN q[i] ELSE q[i + 1]
  BY <1>1 DEF IsWithout
<1>3. ASSUME NEW i \in DOMAIN r, NEW j \in DOMAIN r, i < j
      PROVE  \E m, n \in DOMAIN q : m < n /\ r[i] = q[m] /\ r[j] = q[n]
  <2> DEFINE m == IF i < k THEN i ELSE i + 1
             n == IF j < k THEN j ELSE j + 1
  <2>1. m \in DOMAIN q /\ n \in DOMAIN q /\ m < n
    BY <1>1, <1>3
  <2>2. r[i] = q[m] /\ r[j] = q[n]
    BY <1>2
  <2> QED
    BY <2>1, <2>2
<1> QED
  BY <1>1, <1>2, <1>3

(***************************************************************************)
(* Such a queue indexes the orders but the one taken out.                   *)
(***************************************************************************)
LEMMA QueueWithout ==
  ASSUME NEW S, NEW q \in Seq(S), NEW r \in Seq(S), NEW k \in 1..Len(q), IsWithout(r, q, k),
         NEW p, NEW b, NEW orders, QueueIndexed(q, p, b, orders)
  PROVE  /\ r # <<>> => QueueIndexed(r, p, b, Erase(orders, {q[k]}))
         /\ \A o \in DOMAIN orders : Contains(q, o) /\ o # q[k] => Contains(r, o)
<1>1. /\ DOMAIN q = 1..Len(q) /\ Len(q) \in Nat
      /\ DOMAIN r = 1..(Len(q) - 1)
  BY WithoutKeepsOrder
<1>2. \A i \in DOMAIN r : r[i] = IF i < k THEN q[i] ELSE q[i + 1]
  BY WithoutKeepsOrder
<1>3. \A i, j \in DOMAIN q : q[i] = q[j] => i = j
  BY DEF QueueIndexed, IsInjective
<1>4. \A i \in DOMAIN r : \E n \in DOMAIN q : n # k /\ r[i] = q[n]
                                        /\ n = IF i < k THEN i ELSE i + 1
  BY <1>1, <1>2
<1>6. ASSUME NEW o, Contains(q, o), o # q[k]
      PROVE  Contains(r, o)
  <2>1. PICK n \in 1..Len(q) : q[n] = o
    BY <1>6 DEF Contains
  <2>2. CASE n < k
    BY <1>1, <1>2, <2>1, <2>2 DEF Contains, IsWithout
  <2>3. CASE n > k
    <3>1. n - 1 \in DOMAIN r /\ ~(n - 1 < k) /\ (n - 1) + 1 = n
      BY <1>1, <2>3
    <3>2. r[n - 1] = o
      BY <1>2, <2>1, <3>1
    <3> QED
      BY <1>1, <3>1, <3>2 DEF Contains, IsWithout
  <2> QED
    BY <1>6, <2>1, <2>2, <2>3
<1>7. IsInjective(r)
  <2> SUFFICES ASSUME NEW i \in DOMAIN r, NEW j \in DOMAIN r, r[i] = r[j]
               PROVE  i = j
    BY DEF IsInjective
  <2> DEFINE From(x) == IF x < k THEN x ELSE x + 1
  <2>1. /\ From(i) \in DOMAIN q /\ r[i] = q[From(i)]
        /\ From(j) \in DOMAIN q /\ r[j] = q[From(j)]
    BY <1>1, <1>2
  <2>2. From(i) = From(j)
    BY <1>3, <2>1
  <2> QED BY <1>1, <2>2
<1>8. \A i \in DOMAIN r : /\ r[i] \in DOMAIN Erase(orders, {q[k]})
                          /\ Erase(orders, {q[k]})[r[i]].is_buy = b
                          /\ Erase(orders, {q[k]})[r[i]].price = p
  <2> SUFFICES ASSUME NEW i \in DOMAIN r
               PROVE  /\ r[i] \in DOMAIN Erase(orders, {q[k]})
                      /\ Erase(orders, {q[k]})[r[i]].is_buy = b
                      /\ Erase(orders, {q[k]})[r[i]].price = p
    OBVIOUS
  <2>1. PICK n \in DOMAIN q : n # k /\ r[i] = q[n]
    BY <1>4
  <2>2. q[n] # q[k]
    BY <1>1, <1>3, <2>1
  <2>3. q[n] \in DOMAIN orders /\ orders[q[n]].is_buy = b /\ orders[q[n]].price = p
    BY DEF QueueIndexed
  <2> QED
    BY <2>1, <2>2, <2>3 DEF Erase
<1> QED
  BY <1>6, <1>7, <1>8 DEF QueueIndexed

(***************************************************************************)
(* An order taken out of the queue of its level, and of the map of orders,  *)
(* leaves the side well-formed, indexed and in time order.                  *)
(***************************************************************************)
LEMMA TakeOutPreserves ==
  ASSUME NEW levels, IsSide(levels),
         NEW orders, NEW b, SideIndexed(levels, b, orders),
         NEW px \in DOMAIN levels, NEW k \in 1..Len(levels[px].orders),
         NEW r \in Seq(Ids), IsWithout(r, levels[px].orders, k),
         NEW total \in Quantity,
         NEW arr, DOMAIN arr = DOMAIN orders, TimeOrdered(levels, arr)
  PROVE  LET id    == levels[px].orders[k]
             taken == StoreOrErase(levels, px, [orders |-> r, total_quantity |-> total])
         IN  /\ IsSide(taken)
             /\ SideIndexed(taken, b, Erase(orders, {id}))
             /\ TimeOrdered(taken, Erase(arr, {id}))
<1> DEFINE q     == levels[px].orders
           id    == q[k]
           new   == [orders |-> r, total_quantity |-> total]
           taken == StoreOrErase(levels, px, new)
           after == Erase(orders, {id})
<1>1. q \in Seq(Ids) /\ QueueIndexed(q, px, b, orders)
  BY SideIndexedByQueue DEF IsSide, Level
<1>2. /\ r # <<>> => QueueIndexed(r, px, b, after)
      /\ \A o \in DOMAIN orders : Contains(q, o) /\ o # id => Contains(r, o)
      /\ \A i, j \in DOMAIN r : i < j =>
           \E m, n \in DOMAIN q : m < n /\ r[i] = q[m] /\ r[j] = q[n]
  <2>1. k \in 1..Len(q) /\ IsWithout(r, q, k)
    OBVIOUS
  <2>2. r \in Seq(Ids)
    OBVIOUS
  <2> HIDE DEF q
  <2>3. r # <<>> => QueueIndexed(r, px, b, Erase(orders, {q[k]}))
    BY <1>1, <2>1, <2>2, QueueWithout
  <2>4. \A o \in DOMAIN orders : Contains(q, o) /\ o # q[k] => Contains(r, o)
    BY <1>1, <2>1, <2>2, QueueWithout
  <2>5. \A i, j \in DOMAIN r : i < j =>
          \E m, n \in DOMAIN q : m < n /\ r[i] = q[m] /\ r[j] = q[n]
    BY <1>1, <2>1, <2>2, WithoutKeepsOrder
  <2> QED
    BY <2>3, <2>4, <2>5
<1>3. /\ DOMAIN taken = IF r = <<>> THEN DOMAIN levels \ {px} ELSE DOMAIN levels
      /\ r # <<>> => taken[px] = new
      /\ \A p \in DOMAIN levels \ {px} : taken[p] = levels[p]
  BY DEF StoreOrErase, Put, Erase
<1>4. taken = [p \in DOMAIN taken |-> taken[p]]
  BY DEF StoreOrErase, Put, Erase
<1>5. /\ DOMAIN after = DOMAIN orders \ {id}
      /\ \A o \in DOMAIN after : after[o] = orders[o]
  BY DEF Erase
<1>6. new \in Level /\ new.orders = r
  BY DEF Level
<1>7. id \in DOMAIN orders /\ orders[id].price = px /\ orders[id].is_buy = b
  BY <1>1, LenProperties DEF QueueIndexed
<1> HIDE DEF q, id, new, taken, after
<1>8. IsSide(taken)
  <2>1. \A p \in DOMAIN taken : taken[p] \in Level
    BY <1>3, <1>6 DEF IsSide
  <2> QED
    BY <1>3, <1>4, <2>1 DEF IsSide
<1>9. SideIndexed(taken, b, after)
  <2>1. ASSUME NEW p \in DOMAIN taken
        PROVE  QueueIndexed(taken[p].orders, p, b, after)
    <3>1. CASE p = px
      BY <3>1, <1>2, <1>3, <1>6
    <3>2. CASE p # px
      <4>1. p \in DOMAIN levels /\ taken[p] = levels[p]
        BY <3>2, <1>3
      <4>2. QueueIndexed(levels[p].orders, p, b, orders)
        BY <4>1, SideIndexedByQueue
      <4>3. \A i \in DOMAIN levels[p].orders : levels[p].orders[i] # id
        BY <4>2, <3>2, <1>7 DEF QueueIndexed
      <4> QED
        BY <4>1, <4>2, <4>3, <1>5 DEF QueueIndexed
    <3> QED
      BY <3>1, <3>2
  <2>2. ASSUME NEW o \in DOMAIN after, after[o].is_buy = b
        PROVE  /\ after[o].price \in DOMAIN taken
               /\ Contains(taken[after[o].price].orders, o)
    <3>1. o \in DOMAIN orders /\ o # id /\ after[o] = orders[o]
      BY <1>5
    <3>2. /\ orders[o].price \in DOMAIN levels
          /\ Contains(levels[orders[o].price].orders, o)
      BY <2>2, <3>1, SideIndexedByQueue
    <3>3. CASE orders[o].price = px
      <4>1. Contains(r, o)
        BY <3>1, <3>2, <3>3, <1>2 DEF q
      <4>2. r # <<>>
        BY <4>1 DEF Contains
      <4> QED
        BY <3>1, <3>2, <3>3, <4>1, <4>2, <1>3, <1>6
    <3>4. CASE orders[o].price # px
      BY <3>1, <3>2, <3>4, <1>3
    <3> QED
      BY <3>3, <3>4
  <2> QED
    BY <2>1, <2>2, SideIndexedByQueue
<1>10. TimeOrdered(taken, Erase(arr, {id}))
  <2> SUFFICES ASSUME NEW p \in DOMAIN taken, NEW i \in DOMAIN taken[p].orders,
                      NEW j \in DOMAIN taken[p].orders, i < j
               PROVE  Erase(arr, {id})[taken[p].orders[i]] < Erase(arr, {id})[taken[p].orders[j]]
    BY DEF TimeOrdered
  <2>1. taken[p].orders[i] \in DOMAIN after /\ taken[p].orders[j] \in DOMAIN after
    BY <1>9 DEF SideIndexed
  <2>2. \A o \in DOMAIN after : Erase(arr, {id})[o] = arr[o]
    BY <1>5 DEF Erase
  <2>3. arr[taken[p].orders[i]] < arr[taken[p].orders[j]]
    <3>1. CASE p = px
      <4>1. taken[p].orders = r
        BY <3>1, <1>3, <1>6
      <4>2. PICK m, n \in DOMAIN q : m < n /\ r[i] = q[m] /\ r[j] = q[n]
        BY <4>1, <1>2
      <4> QED
        BY <4>1, <4>2 DEF TimeOrdered, q
    <3>2. CASE p # px
      BY <3>2, <1>3 DEF TimeOrdered
    <3> QED
      BY <3>1, <3>2
  <2> QED
    BY <2>1, <2>2, <2>3
<1> QED
  BY <1>8, <1>9, <1>10 DEF q, id, new, taken, after

(***************************************************************************)
(* removeFromLevel finds the order it is given and takes it out.            *)
(***************************************************************************)
LEMMA RemoveFromLevelPreserves ==
  ASSUME NEW levels, IsSide(levels),
         NEW orders, NEW b, SideIndexed(levels, b, orders),
         NEW id \in DOMAIN orders, orders[id] \in Order, orders[id].is_buy = b,
         NEW arr, DOMAIN arr = DOMAIN orders, TimeOrdered(levels, arr)
  PROVE  LET taken == RemoveFromLevel(levels, id, orders[id])
         IN  /\ IsSide(taken)
             /\ SideIndexed(taken, b, Erase(orders, {id}))
             /\ TimeOrdered(taken, Erase(arr, {id}))
<1> DEFINE px    == orders[id].price
           q     == levels[px].orders
           total == ToQuantity(levels[px].total_quantity - orders[id].quantity)
<1>1. px \in DOMAIN levels /\ Contains(q, id)
  BY SideIndexedByQueue
<1>2. q \in Seq(Ids) /\ QueueIndexed(q, px, b, orders)
  BY <1>1, SideIndexedByQueue DEF IsSide, Level
<1>3. PICK k \in 1..Len(q) : q[k] = id
  BY <1>1 DEF Contains
<1>4. RemoveFirst(q, id) \in Seq(Ids) /\ IsWithout(RemoveFirst(q, id), q, k)
  <2>1. IsInjective(q)
    BY <1>2 DEF QueueIndexed
  <2> HIDE DEF q
  <2>2. /\ RemoveFirst(q, q[k]) \in Seq(Ids)
        /\ Len(RemoveFirst(q, q[k])) = Len(q) - 1
        /\ \A i \in 1..(Len(q) - 1) :
             RemoveFirst(q, q[k])[i] = IF i < k THEN q[i] ELSE q[i + 1]
    BY <1>2, <2>1, RemoveFirstProperties
  <2> QED
    BY <1>3, <2>2 DEF IsWithout
<1>5. total \in Quantity
  <2>1. levels[px].total_quantity \in Int /\ orders[id].quantity \in Int
    BY <1>1, MaxQuantityAssumption DEF IsSide, Level, Order, Quantity
  <2> QED
    BY <2>1, ToQuantityType
<1>6. RemoveFromLevel(levels, id, orders[id]) =
        StoreOrErase(levels, px, [orders |-> RemoveFirst(q, id), total_quantity |-> total])
  BY <1>1 DEF RemoveFromLevel
<1> HIDE DEF px, total
<1>7. LET taken == StoreOrErase(levels, px,
                     [orders |-> RemoveFirst(q, id), total_quantity |-> total])
      IN  /\ IsSide(taken)
          /\ SideIndexed(taken, b, Erase(orders, {q[k]}))
          /\ TimeOrdered(taken, Erase(arr, {q[k]}))
  BY <1>1, <1>3, <1>4, <1>5, TakeOutPreserves
<1> QED
  BY <1>3, <1>6, <1>7

(***************************************************************************)
(* A filled front order leaves its queue.                                   *)
(***************************************************************************)
LEMMA FillFrontTakesOut ==
  ASSUME NEW levels, IsSide(levels),
         NEW orders, NEW b, SideIndexed(levels, b, orders),
         NEW px \in DOMAIN levels, NEW match_qty \in Quantity,
         NEW arr, DOMAIN arr = DOMAIN orders, TimeOrdered(levels, arr)
  PROVE  LET id    == Head(levels[px].orders)
             taken == FillFront(levels, px, match_qty, TRUE)
         IN  /\ IsSide(taken)
             /\ SideIndexed(taken, b, Erase(orders, {id}))
             /\ TimeOrdered(taken, Erase(arr, {id}))
<1> DEFINE q     == levels[px].orders
           old   == levels[px].total_quantity
           total == IF old >= match_qty THEN ToQuantity(old - match_qty) ELSE 0
<1>1. q \in Seq(Ids) /\ q # <<>>
  BY DEF SideIndexed, IsSide, Level
<1>2. 1 \in 1..Len(q) /\ q[1] = Head(q)
  BY <1>1, LenProperties, EmptySeq
<1>3. Tail(q) \in Seq(Ids) /\ IsWithout(Tail(q), q, 1)
  BY <1>1, HeadTailProperties DEF IsWithout
<1>4. total \in Quantity
  <2>1. old \in Int /\ match_qty \in Int
    BY MaxQuantityAssumption DEF IsSide, Level, Quantity
  <2>2. ToQuantity(old - match_qty) \in Quantity /\ 0 \in Quantity
    BY <2>1, ToQuantityType, MaxQuantityAssumption DEF Quantity
  <2> QED
    BY <2>2
<1>5. FillFront(levels, px, match_qty, TRUE) =
        StoreOrErase(levels, px, [orders |-> Tail(q), total_quantity |-> total])
  BY DEF FillFront
<1> HIDE DEF total
<1>6. LET taken == StoreOrErase(levels, px, [orders |-> Tail(q), total_quantity |-> total])
      IN  /\ IsSide(taken)
          /\ SideIndexed(taken, b, Erase(orders, {q[1]}))
          /\ TimeOrdered(taken, Erase(arr, {q[1]}))
  BY <1>2, <1>3, <1>4, TakeOutPreserves
<1> QED
  BY <1>2, <1>5, <1>6

(***************************************************************************)
(* An order that is not filled keeps its place.                             *)
(***************************************************************************)
LEMMA FillFrontKeeps ==
  ASSUME NEW levels, IsSide(levels),
         NEW orders, NEW b, SideIndexed(levels, b, orders),
         NEW px \in DOMAIN levels, NEW match_qty \in Quantity
  PROVE  LET kept == FillFront(levels, px, match_qty, FALSE)
         IN  /\ IsSide(kept)
             /\ DOMAIN kept = DOMAIN levels
             /\ \A p \in DOMAIN levels : kept[p].orders = levels[p].orders
<1> DEFINE old   == levels[px].total_quantity
           total == IF old >= match_qty THEN ToQuantity(old - match_qty) ELSE 0
           new   == [orders |-> levels[px].orders, total_quantity |-> total]
<1>1. levels[px].orders \in Seq(Ids) /\ levels[px].orders # <<>>
  BY DEF SideIndexed, IsSide, Level
<1>2. total \in Quantity
  <2>1. old \in Int /\ match_qty \in Int
    BY MaxQuantityAssumption DEF IsSide, Level, Quantity
  <2>2. ToQuantity(old - match_qty) \in Quantity /\ 0 \in Quantity
    BY <2>1, ToQuantityType, MaxQuantityAssumption DEF Quantity
  <2> QED
    BY <2>2
<1>3. FillFront(levels, px, match_qty, FALSE) = Put(levels, px, new)
  BY <1>1 DEF FillFront, StoreOrErase
<1> HIDE DEF total
<1>4. new \in Level /\ new.orders = levels[px].orders
  BY <1>1, <1>2 DEF Level
<1> HIDE DEF new
<1>5. /\ DOMAIN Put(levels, px, new) = DOMAIN levels
      /\ Put(levels, px, new) = [p \in DOMAIN levels |-> IF p = px THEN new ELSE levels[p]]
  BY DEF Put
<1>6. IsSide(Put(levels, px, new))
  BY <1>4, <1>5 DEF IsSide
<1> QED
  BY <1>3, <1>4, <1>5, <1>6

(***************************************************************************)
(* A side does not care for the orders of the other, nor for quantities.    *)
(***************************************************************************)
LEMMA SideIndexedDependsOn ==
  ASSUME NEW levels, NEW kept, NEW b, NEW orders, NEW after,
         SideIndexed(levels, b, orders),
         DOMAIN kept = DOMAIN levels,
         \A p \in DOMAIN levels : kept[p].orders = levels[p].orders,
         \A o \in DOMAIN orders : orders[o].is_buy = b =>
           o \in DOMAIN after /\ after[o].is_buy = b /\ after[o].price = orders[o].price,
         \A o \in DOMAIN after : after[o].is_buy = b => o \in DOMAIN orders /\ orders[o].is_buy = b
  PROVE  SideIndexed(kept, b, after)
  BY DEF SideIndexed

LEMMA TimeOrderedDependsOn ==
  ASSUME NEW levels, NEW kept, NEW b, NEW orders, NEW arr, NEW after,
         SideIndexed(levels, b, orders), TimeOrdered(levels, arr),
         DOMAIN kept = DOMAIN levels,
         \A p \in DOMAIN levels : kept[p].orders = levels[p].orders,
         \A o \in DOMAIN orders : orders[o].is_buy = b => after[o] = arr[o]
  PROVE  TimeOrdered(kept, after)
  BY DEF SideIndexed, TimeOrdered

(***************************************************************************)
(* One trade, seen by one side: quantities change, the orders of filled     *)
(* leave, and of this side only the front order of the level can be filled. *)
(***************************************************************************)
LEMMA FillFrontPreserves ==
  ASSUME NEW levels, IsSide(levels),
         NEW orders, NEW b, SideIndexed(levels, b, orders),
         NEW px \in DOMAIN levels, NEW match_qty \in Quantity,
         NEW arr, DOMAIN arr = DOMAIN orders, TimeOrdered(levels, arr),
         NEW front, front = Head(levels[px].orders),
         NEW filled, \A o \in filled : o \in DOMAIN orders => (orders[o].is_buy = b => o = front),
         NEW reduced, DOMAIN reduced = DOMAIN orders,
         \A o \in DOMAIN orders : /\ reduced[o].is_buy = orders[o].is_buy
                                  /\ reduced[o].price = orders[o].price
  PROVE  LET after == FillFront(levels, px, match_qty, front \in filled)
         IN  /\ IsSide(after)
             /\ SideIndexed(after, b, Erase(reduced, filled))
             /\ TimeOrdered(after, Erase(arr, filled))
<1> DEFINE after == FillFront(levels, px, match_qty, front \in filled)
           rest  == Erase(reduced, filled)
<1>1. /\ DOMAIN rest = DOMAIN orders \ filled
      /\ \A o \in DOMAIN rest : rest[o] = reduced[o]
      /\ \A o \in DOMAIN orders \ filled : Erase(arr, filled)[o] = arr[o]
  BY DEF Erase
<1>2. SideIndexed(levels, b, reduced)
  BY SideIndexedDependsOn
<1> HIDE DEF after, rest
<1>3. CASE front \in filled
  <2> DEFINE taken == FillFront(levels, px, match_qty, TRUE)
             mid   == Erase(reduced, {front})
             marr  == Erase(arr, {front})
  <2>1. after = taken
    BY <1>3 DEF after, FillFront
  <2>2. /\ IsSide(taken)
        /\ SideIndexed(taken, b, mid)
        /\ TimeOrdered(taken, marr)
    BY <1>2, FillFrontTakesOut
  <2>3. /\ DOMAIN mid = DOMAIN orders \ {front}
        /\ \A o \in DOMAIN mid : mid[o] = reduced[o] /\ marr[o] = arr[o]
    BY DEF Erase
  <2> HIDE DEF taken, mid, marr
  <2>4. \A o \in DOMAIN mid : mid[o].is_buy = b =>
          /\ o \in DOMAIN rest /\ rest[o].is_buy = b /\ rest[o].price = mid[o].price
          /\ Erase(arr, filled)[o] = marr[o]
    BY <2>3, <1>1
  <2>5. \A o \in DOMAIN rest : rest[o].is_buy = b => o \in DOMAIN mid /\ mid[o].is_buy = b
    BY <2>3, <1>1, <1>3
  <2>6. SideIndexed(taken, b, rest)
    BY <2>2, <2>4, <2>5, SideIndexedDependsOn
  <2>7. TimeOrdered(taken, Erase(arr, filled))
    BY <2>2, <2>4, TimeOrderedDependsOn
  <2> QED
    BY <2>1, <2>2, <2>6, <2>7 DEF after, rest
<1>4. CASE front \notin filled
  <2> DEFINE kept == FillFront(levels, px, match_qty, FALSE)
  <2>1. after = kept
    BY <1>4 DEF after, FillFront
  <2>2. /\ IsSide(kept)
        /\ DOMAIN kept = DOMAIN levels
        /\ \A p \in DOMAIN levels : kept[p].orders = levels[p].orders
    BY FillFrontKeeps
  <2> HIDE DEF kept
  <2>3. \A o \in DOMAIN orders : orders[o].is_buy = b =>
          /\ o \in DOMAIN rest /\ rest[o].is_buy = b /\ rest[o].price = orders[o].price
          /\ Erase(arr, filled)[o] = arr[o]
    BY <1>1, <1>4
  <2>4. \A o \in DOMAIN rest : rest[o].is_buy = b => o \in DOMAIN orders /\ orders[o].is_buy = b
    BY <1>1
  <2>5. SideIndexed(kept, b, rest)
    BY <2>2, <2>3, <2>4, SideIndexedDependsOn
  <2>6. TimeOrdered(kept, Erase(arr, filled))
    BY <2>2, <2>3, TimeOrderedDependsOn
  <2> QED
    BY <2>1, <2>2, <2>5, <2>6 DEF after, rest
<1> QED
  BY <1>3, <1>4

(***************************************************************************)
(* rbegin() is the highest bid and the lowest ask.                          *)
(***************************************************************************)
LEMMA BestBidIsHighest ==
  ASSUME NEW levels, IsSide(levels), DOMAIN levels # {}
  PROVE  /\ BestBid(levels) \in DOMAIN levels
         /\ \A p \in DOMAIN levels : BestBid(levels) >= p
<1> DEFINE T == {MaxPrice - p : p \in DOMAIN levels}
<1>1. DOMAIN levels \subseteq Int /\ \A p \in DOMAIN levels : p <= MaxPrice
  BY PricesAssumption DEF IsSide
<1>2. T \subseteq Nat /\ T # {}
  BY <1>1, PricesAssumption
<1>3. PICK x \in T : \A y \in T : x <= y
  BY <1>2, NatSetHasLeast
<1>4. \A r \in DOMAIN levels : MaxPrice - r \in T
  OBVIOUS
<1>5. PICK p \in DOMAIN levels : x = MaxPrice - p
  OBVIOUS
<1>6. ASSUME NEW r \in DOMAIN levels
      PROVE  p >= r
  <2>1. x <= MaxPrice - r
    BY <1>3, <1>4
  <2>2. p \in Int /\ r \in Int /\ MaxPrice \in Int
    BY <1>1, PricesAssumption
  <2> QED
    BY <1>5, <2>1, <2>2
<1> QED
  BY <1>6 DEF BestBid, Max

LEMMA BestAskIsLowest ==
  ASSUME NEW levels, IsSide(levels), DOMAIN levels # {}
  PROVE  /\ BestAsk(levels) \in DOMAIN levels
         /\ \A p \in DOMAIN levels : BestAsk(levels) <= p
<1> DEFINE T == {p + MaxPrice + 1 : p \in DOMAIN levels}
<1>1. DOMAIN levels \subseteq Int /\ \A p \in DOMAIN levels : p >= -MaxPrice - 1
  BY PricesAssumption DEF IsSide
<1>2. T \subseteq Nat /\ T # {}
  BY <1>1, PricesAssumption
<1>3. PICK x \in T : \A y \in T : x <= y
  BY <1>2, NatSetHasLeast
<1>4. \A r \in DOMAIN levels : r + MaxPrice + 1 \in T
  OBVIOUS
<1>5. PICK p \in DOMAIN levels : x = p + MaxPrice + 1
  OBVIOUS
<1>6. ASSUME NEW r \in DOMAIN levels
      PROVE  p <= r
  <2>1. x <= r + MaxPrice + 1
    BY <1>3, <1>4
  <2>2. p \in Int /\ r \in Int /\ MaxPrice \in Int
    BY <1>1, PricesAssumption
  <2> QED
    BY <1>5, <2>1, <2>2
<1> QED
  BY <1>6 DEF BestAsk, Min

-----------------------------------------------------------------------------
(* The book *)

(***************************************************************************)
(* What the history variables know: an order in the book was issued, and    *)
(* arrived before now.  TimePriority rests on it, as a new order goes to    *)
(* the back of its queue.                                                   *)
(***************************************************************************)
ArrivedBefore ==
  /\ DOMAIN order_map_ \subseteq issued
  /\ \A id \in DOMAIN order_map_ : arrived[id] < clock

\* The inductive invariant.
Inv == TypeOK /\ BookIndexed /\ TimePriority /\ ArrivedBefore

(***************************************************************************)
(* The book starts empty.                                                   *)
(***************************************************************************)
LEMMA InitInv == Init => Inv
<1> SUFFICES ASSUME Init PROVE Inv
  OBVIOUS
<1>1. DOMAIN order_map_ = {} /\ DOMAIN NoLevels = {}
  BY DEF Init, NoLevels
<1>2. TypeOK
  <2>1. IsSide(bid_levels_) /\ IsSide(ask_levels_)
    BY DEF Init, IsSide, NoLevels
  <2>2. /\ order_map_ \in [DOMAIN order_map_ -> Order]
        /\ arrived \in [DOMAIN order_map_ -> Nat]
    BY <1>1 DEF Init
  <2>3. trade_log_ \in Seq(Trade) /\ clock \in 0..MaxClock
    BY MaxClockAssumption, EmptySeq DEF Init
  <2> QED
    BY <1>1, <2>1, <2>2, <2>3 DEF Init, TypeOK
<1>3. BookIndexed /\ TimePriority /\ ArrivedBefore
  BY <1>1 DEF Init, BookIndexed, SideIndexed, TimePriority, TimeOrdered, ArrivedBefore
<1> QED
  BY <1>2, <1>3 DEF Inv

(***************************************************************************)
(* Storing an order in the map.                                             *)
(***************************************************************************)
LEMMA StoreType ==
  ASSUME TypeOK, ArrivedBefore, NEW id \in Ids, NEW order \in Order, Store(id, order)
  PROVE  /\ DOMAIN order_map_' = DOMAIN order_map_ \cup {id}
         /\ DOMAIN order_map_' \subseteq Ids
         /\ order_map_' \in [DOMAIN order_map_' -> Order]
         /\ arrived' \in [DOMAIN order_map_' -> Nat]
         /\ clock' \in 0..MaxClock
         /\ \A o \in DOMAIN order_map_' : arrived'[o] < clock'
         /\ suspect' \subseteq suspect \cup {id} /\ clamped' = clamped
<1>1. /\ order_map_' = Put(order_map_, id, order)
      /\ arrived' = Put(arrived, id, clock)
      /\ clock < MaxClock /\ clock' = clock + 1
      /\ suspect' \subseteq suspect \cup {id} /\ clamped' = clamped
  BY DEF Store
<1>2. clock \in Nat /\ clock' \in 0..MaxClock
  BY <1>1, MaxClockAssumption DEF TypeOK
<1>3. /\ DOMAIN order_map_' = DOMAIN order_map_ \cup {id}
      /\ order_map_' \in [DOMAIN order_map_' -> Order]
  BY <1>1 DEF Put, TypeOK
<1>4. DOMAIN arrived = DOMAIN order_map_
  BY DEF TypeOK
<1>5. arrived' \in [DOMAIN order_map_' -> Nat]
  BY <1>1, <1>2, <1>3, <1>4 DEF Put, TypeOK
<1>6. \A o \in DOMAIN order_map_' : arrived'[o] < clock'
  BY <1>1, <1>2, <1>3, <1>4 DEF Put, TypeOK, ArrivedBefore
<1> QED
  BY <1>1, <1>2, <1>3, <1>5, <1>6 DEF TypeOK

(***************************************************************************)
(* addOrder.                                                                *)
(***************************************************************************)
LEMMA AddOrderInv ==
  ASSUME Inv, NEW id \in Ids, NEW is_buy \in BOOLEAN, NEW qty \in AddQuantities,
         NEW px \in Prices, addOrder(id, is_buy, qty, px)
  PROVE  Inv'
<1> DEFINE order == [is_buy |-> is_buy, quantity |-> qty, price |-> px]
<1> USE DEF Inv
<1>1. order \in Order /\ order.is_buy = is_buy
  BY QuantitiesAssumption DEF Order
<1>2. /\ id \notin DOMAIN order_map_
      /\ issued' = issued \cup {id}
      /\ Store(id, order)
      /\ bid_levels_' = IF is_buy THEN AddToLevel(bid_levels_, id, order) ELSE bid_levels_
      /\ ask_levels_' = IF is_buy THEN ask_levels_ ELSE AddToLevel(ask_levels_, id, order)
      /\ UNCHANGED <<trade_log_, matching>>
  BY DEF addOrder, ArrivedBefore
<1> HIDE DEF order
<1>3. /\ order_map_' = Put(order_map_, id, order)
      /\ arrived' = Put(arrived, id, clock)
  BY <1>2 DEF Store
<1>4. /\ DOMAIN order_map_' = DOMAIN order_map_ \cup {id}
      /\ DOMAIN order_map_' \subseteq Ids
      /\ order_map_' \in [DOMAIN order_map_' -> Order]
      /\ arrived' \in [DOMAIN order_map_' -> Nat]
      /\ clock' \in 0..MaxClock
      /\ \A o \in DOMAIN order_map_' : arrived'[o] < clock'
      /\ suspect' \subseteq suspect \cup {id} /\ clamped' = clamped
  BY <1>1, <1>2, StoreType
<1>5. ASSUME NEW levels, NEW b, b = is_buy,
             IsSide(levels), SideIndexed(levels, b, order_map_), TimeOrdered(levels, arrived)
      PROVE  LET added == AddToLevel(levels, id, order)
             IN  /\ IsSide(added) /\ SideIndexed(added, b, order_map_')
                 /\ TimeOrdered(added, arrived')
  <2>1. DOMAIN arrived = DOMAIN order_map_ /\ \A o \in DOMAIN order_map_ : arrived[o] < clock
    BY DEF TypeOK, ArrivedBefore
  <2> QED
    BY <1>1, <1>2, <1>3, <1>5, <2>1, AddToLevelPreserves
<1>6. ASSUME NEW levels, NEW b, b # is_buy,
             SideIndexed(levels, b, order_map_), TimeOrdered(levels, arrived)
      PROVE  SideIndexed(levels, b, order_map_') /\ TimeOrdered(levels, arrived')
  <2>1. /\ \A o \in DOMAIN order_map_ : /\ o \in DOMAIN order_map_'
                                        /\ order_map_'[o] = order_map_[o]
                                        /\ arrived'[o] = arrived[o]
        /\ \A o \in DOMAIN order_map_' : order_map_'[o].is_buy = b => o \in DOMAIN order_map_
    BY <1>1, <1>2, <1>3, <1>6 DEF Put, TypeOK
  <2> QED
    BY <2>1, <1>6, SideIndexedDependsOn, TimeOrderedDependsOn
<1>7. /\ IsSide(bid_levels_') /\ IsSide(ask_levels_')
      /\ SideIndexed(bid_levels_', TRUE, order_map_') /\ SideIndexed(ask_levels_', FALSE, order_map_')
      /\ TimeOrdered(bid_levels_', arrived') /\ TimeOrdered(ask_levels_', arrived')
  <2>1. CASE is_buy = TRUE
    BY <2>1, <1>2, <1>5, <1>6 DEF TypeOK, BookIndexed, TimePriority
  <2>2. CASE is_buy = FALSE
    BY <2>2, <1>2, <1>5, <1>6 DEF TypeOK, BookIndexed, TimePriority
  <2> QED
    BY <2>1, <2>2
<1>8. TypeOK'
  BY <1>2, <1>4, <1>7 DEF TypeOK
<1>9. ArrivedBefore'
  BY <1>2, <1>4 DEF ArrivedBefore
<1> QED
  BY <1>7, <1>8, <1>9 DEF BookIndexed, TimePriority

(***************************************************************************)
(* cancelOrder.                                                             *)
(***************************************************************************)
LEMMA CancelOrderInv ==
  ASSUME Inv, NEW id \in Ids, cancelOrder(id)
  PROVE  Inv'
<1> DEFINE order == order_map_[id]
<1> USE DEF Inv
<1>1. /\ id \in DOMAIN order_map_
      /\ bid_levels_' = IF order.is_buy THEN RemoveFromLevel(bid_levels_, id, order) ELSE bid_levels_
      /\ ask_levels_' = IF order.is_buy THEN ask_levels_ ELSE RemoveFromLevel(ask_levels_, id, order)
      /\ order_map_' = Erase(order_map_, {id})
      /\ arrived' = Erase(arrived, {id})
      /\ UNCHANGED <<trade_log_, matching, clock, issued, suspect, clamped>>
  BY DEF cancelOrder, history
<1>2. order \in Order /\ order.is_buy \in BOOLEAN /\ DOMAIN arrived = DOMAIN order_map_
  BY <1>1 DEF TypeOK, Order
<1>3. /\ DOMAIN order_map_' = DOMAIN order_map_ \ {id}
      /\ order_map_' \in [DOMAIN order_map_' -> Order]
      /\ arrived' \in [DOMAIN order_map_' -> Nat]
      /\ \A o \in DOMAIN order_map_' : order_map_'[o] = order_map_[o] /\ arrived'[o] = arrived[o]
  BY <1>1, <1>2 DEF Erase, TypeOK
<1>4. ASSUME NEW levels, NEW b, b = order.is_buy,
             IsSide(levels), SideIndexed(levels, b, order_map_), TimeOrdered(levels, arrived)
      PROVE  LET taken == RemoveFromLevel(levels, id, order)
             IN  /\ IsSide(taken) /\ SideIndexed(taken, b, order_map_')
                 /\ TimeOrdered(taken, arrived')
  BY <1>1, <1>2, <1>4, RemoveFromLevelPreserves
<1>5. ASSUME NEW levels, NEW b, b # order.is_buy,
             SideIndexed(levels, b, order_map_), TimeOrdered(levels, arrived)
      PROVE  SideIndexed(levels, b, order_map_') /\ TimeOrdered(levels, arrived')
  <2>1. \A o \in DOMAIN order_map_ : order_map_[o].is_buy = b =>
          o \in DOMAIN order_map_' /\ order_map_'[o] = order_map_[o] /\ arrived'[o] = arrived[o]
    BY <1>3, <1>5
  <2> QED
    BY <2>1, <1>3, <1>5, SideIndexedDependsOn, TimeOrderedDependsOn
<1> HIDE DEF order
<1>6. /\ IsSide(bid_levels_') /\ IsSide(ask_levels_')
      /\ SideIndexed(bid_levels_', TRUE, order_map_') /\ SideIndexed(ask_levels_', FALSE, order_map_')
      /\ TimeOrdered(bid_levels_', arrived') /\ TimeOrdered(ask_levels_', arrived')
  <2>1. CASE order.is_buy = TRUE
    BY <2>1, <1>1, <1>4, <1>5 DEF TypeOK, BookIndexed, TimePriority
  <2>2. CASE order.is_buy = FALSE
    BY <2>2, <1>1, <1>4, <1>5 DEF TypeOK, BookIndexed, TimePriority
  <2> QED
    BY <1>2, <2>1, <2>2
<1>7. TypeOK'
  BY <1>1, <1>3, <1>6 DEF TypeOK
<1>8. ArrivedBefore'
  BY <1>1, <1>3 DEF ArrivedBefore
<1> QED
  BY <1>6, <1>7, <1>8 DEF BookIndexed, TimePriority

(***************************************************************************)
(* modifyOrder: out of the old level, to the back of the new one.           *)
(***************************************************************************)
LEMMA ModifyOrderInv ==
  ASSUME Inv, NEW id \in Ids, NEW new_qty \in ModifyQuantities, NEW new_px \in Prices,
         modifyOrder(id, new_qty, new_px)
  PROVE  Inv'
<1> DEFINE old == order_map_[id]
           new == [old EXCEPT !.quantity = new_qty, !.price = new_px]
           Requeue(levels) == AddToLevel(RemoveFromLevel(levels, id, old), id, new)
           mid  == Erase(order_map_, {id})
           marr == Erase(arrived, {id})
<1> USE DEF Inv
<1>1. /\ id \in DOMAIN order_map_
      /\ Store(id, new)
      /\ bid_levels_' = IF old.is_buy THEN Requeue(bid_levels_) ELSE bid_levels_
      /\ ask_levels_' = IF old.is_buy THEN ask_levels_ ELSE Requeue(ask_levels_)
      /\ UNCHANGED <<trade_log_, matching, issued>>
  BY DEF modifyOrder
<1>2. old \in Order /\ old.is_buy \in BOOLEAN
  BY <1>1 DEF TypeOK, Order
<1>3. new \in Order /\ new.is_buy = old.is_buy
  BY <1>2, QuantitiesAssumption DEF Order
<1>4. DOMAIN arrived = DOMAIN order_map_ /\ \A o \in DOMAIN order_map_ : arrived[o] < clock
  BY DEF TypeOK, ArrivedBefore
<1>5. /\ order_map_' = Put(mid, id, new)
      /\ arrived' = Put(marr, id, clock)
  BY <1>1, <1>4 DEF Store, Put, Erase
<1>6. /\ DOMAIN order_map_' = DOMAIN order_map_ \cup {id}
      /\ DOMAIN order_map_' \subseteq Ids
      /\ order_map_' \in [DOMAIN order_map_' -> Order]
      /\ arrived' \in [DOMAIN order_map_' -> Nat]
      /\ clock' \in 0..MaxClock
      /\ \A o \in DOMAIN order_map_' : arrived'[o] < clock'
      /\ suspect' \subseteq suspect \cup {id} /\ clamped' = clamped
  BY <1>1, <1>3, StoreType
<1>7. ASSUME NEW levels, NEW b, b = old.is_buy,
             IsSide(levels), SideIndexed(levels, b, order_map_), TimeOrdered(levels, arrived)
      PROVE  /\ IsSide(Requeue(levels)) /\ SideIndexed(Requeue(levels), b, order_map_')
             /\ TimeOrdered(Requeue(levels), arrived')
  <2> DEFINE taken == RemoveFromLevel(levels, id, old)
  <2>1. /\ IsSide(taken)
        /\ SideIndexed(taken, b, mid)
        /\ TimeOrdered(taken, marr)
    BY <1>1, <1>2, <1>4, <1>7, RemoveFromLevelPreserves
  <2>2. /\ id \notin DOMAIN mid
        /\ DOMAIN marr = DOMAIN mid
        /\ \A o \in DOMAIN mid : marr[o] < clock
    BY <1>4 DEF Erase
  <2> HIDE DEF taken, mid, marr, new, old
  <2>3. /\ IsSide(AddToLevel(taken, id, new))
        /\ SideIndexed(AddToLevel(taken, id, new), b, Put(mid, id, new))
        /\ TimeOrdered(AddToLevel(taken, id, new), Put(marr, id, clock))
    BY <1>3, <1>7, <2>1, <2>2, AddToLevelPreserves
  <2> QED
    BY <1>5, <2>3 DEF taken
<1>8. ASSUME NEW levels, NEW b, b # old.is_buy,
             SideIndexed(levels, b, order_map_), TimeOrdered(levels, arrived)
      PROVE  SideIndexed(levels, b, order_map_') /\ TimeOrdered(levels, arrived')
  <2>1. \A o \in DOMAIN order_map_ : order_map_[o].is_buy = b =>
          o \in DOMAIN order_map_' /\ order_map_'[o] = order_map_[o] /\ arrived'[o] = arrived[o]
    BY <1>4, <1>5, <1>8 DEF Put, Erase
  <2>2. \A o \in DOMAIN order_map_' : order_map_'[o].is_buy = b =>
          o \in DOMAIN order_map_ /\ order_map_[o].is_buy = b
    BY <1>3, <1>5, <1>8 DEF Put, Erase
  <2> QED
    BY <2>1, <2>2, <1>8, SideIndexedDependsOn, TimeOrderedDependsOn
<1> HIDE DEF old, Requeue
<1>9. /\ IsSide(bid_levels_') /\ IsSide(ask_levels_')
      /\ SideIndexed(bid_levels_', TRUE, order_map_') /\ SideIndexed(ask_levels_', FALSE, order_map_')
      /\ TimeOrdered(bid_levels_', arrived') /\ TimeOrdered(ask_levels_', arrived')
  <2>1. CASE old.is_buy = TRUE
    BY <2>1, <1>1, <1>7, <1>8 DEF TypeOK, BookIndexed, TimePriority
  <2>2. CASE old.is_buy = FALSE
    BY <2>2, <1>1, <1>7, <1>8 DEF TypeOK, BookIndexed, TimePriority
  <2> QED
    BY <1>2, <2>1, <2>2
<1>10. TypeOK'
  BY <1>1, <1>6, <1>9 DEF TypeOK, ArrivedBefore
<1>11. ArrivedBefore'
  BY <1>1, <1>6 DEF ArrivedBefore
<1> QED
  BY <1>9, <1>10, <1>11 DEF BookIndexed, TimePriority

(***************************************************************************)
(* The orders a trade is between: the front of the best level of each side. *)
(***************************************************************************)
BestBuy == Head(bid_levels_[BestBid(bid_levels_)].orders)
BestSell == Head(ask_levels_[BestAsk(ask_levels_)].orders)

LEMMA FrontOfLevel ==
  ASSUME NEW levels, IsSide(levels), NEW b, NEW orders, SideIndexed(levels, b, orders),
         NEW px \in DOMAIN levels
  PROVE  LET front == Head(levels[px].orders)
         IN  /\ front \in DOMAIN orders
             /\ orders[front].is_buy = b
             /\ orders[front].price = px
             /\ 1 \in DOMAIN levels[px].orders
             /\ levels[px].orders[1] = front
<1>1. levels[px].orders \in Seq(Ids) /\ levels[px].orders # <<>>
  BY DEF SideIndexed, IsSide, Level
<1>2. 1 \in DOMAIN levels[px].orders /\ levels[px].orders[1] = Head(levels[px].orders)
  BY <1>1, LenProperties, EmptySeq
<1> QED
  BY <1>2 DEF SideIndexed

LEMMA BestOrders ==
  ASSUME Inv, Matchable
  PROVE  /\ BestBid(bid_levels_) \in DOMAIN bid_levels_
         /\ BestAsk(ask_levels_) \in DOMAIN ask_levels_
         /\ \A p \in DOMAIN bid_levels_ : BestBid(bid_levels_) >= p
         /\ \A p \in DOMAIN ask_levels_ : BestAsk(ask_levels_) <= p
         /\ BestBuy \in DOMAIN order_map_ /\ order_map_[BestBuy].is_buy = TRUE
         /\ BestSell \in DOMAIN order_map_ /\ order_map_[BestSell].is_buy = FALSE
         /\ order_map_[BestBuy].price = BestBid(bid_levels_)
         /\ order_map_[BestSell].price = BestAsk(ask_levels_)
<1>1. /\ IsSide(bid_levels_) /\ SideIndexed(bid_levels_, TRUE, order_map_)
      /\ IsSide(ask_levels_) /\ SideIndexed(ask_levels_, FALSE, order_map_)
  BY DEF Inv, TypeOK, BookIndexed
<1>2. /\ BestBid(bid_levels_) \in DOMAIN bid_levels_
      /\ \A p \in DOMAIN bid_levels_ : BestBid(bid_levels_) >= p
  BY <1>1, BestBidIsHighest DEF Matchable
<1>3. /\ BestAsk(ask_levels_) \in DOMAIN ask_levels_
      /\ \A p \in DOMAIN ask_levels_ : BestAsk(ask_levels_) <= p
  BY <1>1, BestAskIsLowest DEF Matchable
<1>4. /\ BestBuy \in DOMAIN order_map_ /\ order_map_[BestBuy].is_buy = TRUE
      /\ order_map_[BestBuy].price = BestBid(bid_levels_)
  <2> DEFINE px == BestBid(bid_levels_)
  <2>1. px \in DOMAIN bid_levels_
    BY <1>2
  <2> HIDE DEF px
  <2>2. ASSUME NEW b, b = TRUE
        PROVE  LET front == Head(bid_levels_[px].orders)
               IN  /\ front \in DOMAIN order_map_
                   /\ order_map_[front].is_buy = b /\ order_map_[front].price = px
    <3>1. IsSide(bid_levels_) /\ SideIndexed(bid_levels_, b, order_map_)
      BY <1>1, <2>2
    <3> QED
      BY <2>1, <3>1, FrontOfLevel
  <2> QED
    BY <2>2 DEF BestBuy, px
<1>5. /\ BestSell \in DOMAIN order_map_ /\ order_map_[BestSell].is_buy = FALSE
      /\ order_map_[BestSell].price = BestAsk(ask_levels_)
  <2> DEFINE px == BestAsk(ask_levels_)
  <2>1. px \in DOMAIN ask_levels_
    BY <1>3
  <2> HIDE DEF px
  <2>2. ASSUME NEW b, b = FALSE
        PROVE  LET front == Head(ask_levels_[px].orders)
               IN  /\ front \in DOMAIN order_map_
                   /\ order_map_[front].is_buy = b /\ order_map_[front].price = px
    <3>1. IsSide(ask_levels_) /\ SideIndexed(ask_levels_, b, order_map_)
      BY <1>1, <2>2
    <3> QED
      BY <2>1, <3>1, FrontOfLevel
  <2> QED
    BY <2>2 DEF BestSell, px
<1> QED
  BY <1>2, <1>3, <1>4, <1>5

(***************************************************************************)
(* What a step of MatchOrders does, in terms of the two orders.             *)
(***************************************************************************)
MatchQuantity ==
  IF order_map_[BestSell].quantity < order_map_[BestBuy].quantity
  THEN order_map_[BestSell].quantity ELSE order_map_[BestBuy].quantity

Left == [o \in {BestBuy, BestSell} |-> ToQuantity(order_map_[o].quantity - MatchQuantity)]

AfterTrade ==
  [o \in DOMAIN order_map_ |-> IF o \in {BestBuy, BestSell}
                              THEN [order_map_[o] EXCEPT !.quantity = Left[o]]
                              ELSE order_map_[o]]

LEMMA MatchOrdersStep ==
  ASSUME MatchOrders
  PROVE  /\ matching /\ Matchable
         /\ trade_log_' = Append(trade_log_,
              [buy_order_id |-> BestBuy, sell_order_id |-> BestSell,
               price |-> order_map_[BestSell].price, quantity |-> MatchQuantity])
         /\ bid_levels_' = FillFront(bid_levels_, BestBid(bid_levels_), MatchQuantity,
                                    BestBuy \in Filled(Left))
         /\ ask_levels_' = FillFront(ask_levels_, BestAsk(ask_levels_), MatchQuantity,
                                    BestSell \in Filled(Left))
         /\ order_map_' = Erase(AfterTrade, Filled(Left))
         /\ arrived' = Erase(arrived, Filled(Left))
         /\ suspect' = IF suspect \cap {BestBuy, BestSell} = {} THEN suspect
                       ELSE suspect \cup {BestBuy, BestSell}
         /\ clamped \subseteq clamped'
         /\ clamped' \subseteq clamped \cup {<<TRUE, BestBid(bid_levels_)>>,
                                          <<FALSE, BestAsk(ask_levels_)>>}
         /\ UNCHANGED <<matching, clock, issued>>
<1>1. DOMAIN Left = {BestBuy, BestSell}
  BY DEF Left
<1> QED
  BY <1>1 DEF MatchOrders, BestBuy, BestSell, MatchQuantity, Left, AfterTrade

\* Which levels it clamps.
LEMMA MatchOrdersClamps ==
  ASSUME MatchOrders
  PROVE  clamped' = clamped
           \cup {<<TRUE, p>> : p \in {BestBid(bid_levels_)} \ Covers(bid_levels_, MatchQuantity)}
           \cup {<<FALSE, p>> : p \in {BestAsk(ask_levels_)} \ Covers(ask_levels_, MatchQuantity)}
BY DEF MatchOrders, BestBuy, BestSell, MatchQuantity

LEMMA TradeType ==
  ASSUME Inv, Matchable
  PROVE  /\ MatchQuantity \in Quantity
         /\ \A o \in {BestBuy, BestSell} : Left[o] \in Quantity
         /\ AfterTrade \in [DOMAIN order_map_ -> Order]
         /\ \A o \in DOMAIN order_map_ : /\ AfterTrade[o].is_buy = order_map_[o].is_buy
                                         /\ AfterTrade[o].price = order_map_[o].price
<1>1. BestBuy \in DOMAIN order_map_ /\ BestSell \in DOMAIN order_map_
  BY BestOrders
<1>2. \A o \in DOMAIN order_map_ : order_map_[o] \in Order /\ order_map_[o].quantity \in Quantity
  BY DEF Inv, TypeOK, Order
<1>3. MatchQuantity \in Quantity
  BY <1>1, <1>2 DEF MatchQuantity
<1>4. \A o \in {BestBuy, BestSell} : Left[o] \in Quantity
  <2> SUFFICES ASSUME NEW o \in {BestBuy, BestSell} PROVE Left[o] \in Quantity
    OBVIOUS
  <2>1. order_map_[o].quantity - MatchQuantity \in Int
    BY <1>1, <1>2, <1>3, MaxQuantityAssumption DEF Quantity
  <2> QED
    BY <2>1, ToQuantityType DEF Left
<1>5. ASSUME NEW o \in DOMAIN order_map_
      PROVE  /\ AfterTrade[o] \in Order
             /\ AfterTrade[o].is_buy = order_map_[o].is_buy
             /\ AfterTrade[o].price = order_map_[o].price
  <2>1. order_map_[o] \in [is_buy : BOOLEAN, quantity : Quantity, price : Prices]
    BY <1>2 DEF Order
  <2>2. CASE o \in {BestBuy, BestSell}
    <3>1. AfterTrade[o] = [order_map_[o] EXCEPT !.quantity = Left[o]] /\ Left[o] \in Quantity
      BY <2>2, <1>4 DEF AfterTrade
    <3> QED
      BY <2>1, <3>1 DEF Order
  <2>3. CASE o \notin {BestBuy, BestSell}
    BY <2>1, <2>3 DEF AfterTrade, Order
  <2> QED
    BY <2>2, <2>3
<1> QED
  BY <1>3, <1>4, <1>5 DEF AfterTrade

(***************************************************************************)
(* MatchOrders: one trade.                                                  *)
(***************************************************************************)
LEMMA MatchOrdersInv ==
  ASSUME Inv, MatchOrders
  PROVE  Inv'
<1> DEFINE filled == Filled(Left)
<1> USE DEF Inv
<1>1. /\ Matchable
      /\ trade_log_' = Append(trade_log_,
           [buy_order_id |-> BestBuy, sell_order_id |-> BestSell,
            price |-> order_map_[BestSell].price, quantity |-> MatchQuantity])
      /\ bid_levels_' = FillFront(bid_levels_, BestBid(bid_levels_), MatchQuantity, BestBuy \in filled)
      /\ ask_levels_' = FillFront(ask_levels_, BestAsk(ask_levels_), MatchQuantity, BestSell \in filled)
      /\ order_map_' = Erase(AfterTrade, filled)
      /\ arrived' = Erase(arrived, filled)
      /\ UNCHANGED <<matching, clock, issued>>
  BY MatchOrdersStep
<1>2. /\ BestBid(bid_levels_) \in DOMAIN bid_levels_
      /\ BestAsk(ask_levels_) \in DOMAIN ask_levels_
      /\ BestBuy \in DOMAIN order_map_ /\ order_map_[BestBuy].is_buy = TRUE
      /\ BestSell \in DOMAIN order_map_ /\ order_map_[BestSell].is_buy = FALSE
  BY <1>1, BestOrders
<1>3. /\ MatchQuantity \in Quantity
      /\ AfterTrade \in [DOMAIN order_map_ -> Order]
      /\ \A o \in DOMAIN order_map_ : /\ AfterTrade[o].is_buy = order_map_[o].is_buy
                                      /\ AfterTrade[o].price = order_map_[o].price
  BY <1>1, TradeType
<1>4. filled \subseteq {BestBuy, BestSell}
  BY DEF Filled, Left
<1>5. DOMAIN arrived = DOMAIN order_map_ /\ DOMAIN AfterTrade = DOMAIN order_map_
  BY DEF TypeOK, AfterTrade
<1> HIDE DEF filled
<1>6. /\ IsSide(bid_levels_')
      /\ SideIndexed(bid_levels_', TRUE, order_map_')
      /\ TimeOrdered(bid_levels_', arrived')
  <2>1. \A o \in filled : o \in DOMAIN order_map_ => (order_map_[o].is_buy = TRUE => o = BestBuy)
    BY <1>2, <1>4
  <2>2. /\ IsSide(bid_levels_) /\ SideIndexed(bid_levels_, TRUE, order_map_)
        /\ TimeOrdered(bid_levels_, arrived)
    BY DEF TypeOK, BookIndexed, TimePriority
  <2> QED
    BY <1>1, <1>2, <1>3, <1>5, <2>1, <2>2, FillFrontPreserves DEF BestBuy
<1>7. /\ IsSide(ask_levels_')
      /\ SideIndexed(ask_levels_', FALSE, order_map_')
      /\ TimeOrdered(ask_levels_', arrived')
  <2>1. \A o \in filled : o \in DOMAIN order_map_ => (order_map_[o].is_buy = FALSE => o = BestSell)
    BY <1>2, <1>4
  <2>2. /\ IsSide(ask_levels_) /\ SideIndexed(ask_levels_, FALSE, order_map_)
        /\ TimeOrdered(ask_levels_, arrived)
    BY DEF TypeOK, BookIndexed, TimePriority
  <2> QED
    BY <1>1, <1>2, <1>3, <1>5, <2>1, <2>2, FillFrontPreserves DEF BestSell
<1>8. /\ DOMAIN order_map_' = DOMAIN order_map_ \ filled
      /\ order_map_' \in [DOMAIN order_map_' -> Order]
      /\ arrived' \in [DOMAIN order_map_' -> Nat]
      /\ \A o \in DOMAIN order_map_' : arrived'[o] = arrived[o]
  BY <1>1, <1>3, <1>5 DEF Erase, TypeOK
<1>9. trade_log_' \in Seq(Trade)
  <2>1. [buy_order_id |-> BestBuy, sell_order_id |-> BestSell,
         price |-> order_map_[BestSell].price, quantity |-> MatchQuantity] \in Trade
    BY <1>2, <1>3 DEF Trade, TypeOK, Order
  <2> QED
    BY <1>1, <2>1, AppendProperties DEF TypeOK
<1>10. suspect' \subseteq issued' /\ clamped' \subseteq BOOLEAN \X Prices
  <2>1. BestBuy \in issued /\ BestSell \in issued
    BY <1>2 DEF ArrivedBefore
  <2>2. /\ suspect' \subseteq suspect \cup {BestBuy, BestSell} /\ issued' = issued
        /\ clamped' \subseteq clamped \cup {<<TRUE, BestBid(bid_levels_)>>, <<FALSE, BestAsk(ask_levels_)>>}
    BY MatchOrdersStep
  <2>3. BestBid(bid_levels_) \in Prices /\ BestAsk(ask_levels_) \in Prices
    BY <1>2 DEF TypeOK, IsSide
  <2>4. <<TRUE, BestBid(bid_levels_)>> \in BOOLEAN \X Prices
        /\ <<FALSE, BestAsk(ask_levels_)>> \in BOOLEAN \X Prices
    BY <2>3
  <2>5. suspect \subseteq issued /\ clamped \subseteq BOOLEAN \X Prices
    BY DEF TypeOK
  <2>6. suspect' \subseteq issued'
    BY <2>1, <2>2, <2>5
  <2>7. clamped' \subseteq BOOLEAN \X Prices
    BY <2>2, <2>4, <2>5
  <2> QED BY <2>6, <2>7
<1>11. TypeOK'
  BY <1>1, <1>6, <1>7, <1>8, <1>9, <1>10 DEF TypeOK
<1>12. ArrivedBefore'
  BY <1>1, <1>8 DEF ArrivedBefore
<1> QED
  BY <1>6, <1>7, <1>11, <1>12 DEF BookIndexed, TimePriority

(***************************************************************************)
(* Every step keeps the invariant.                                          *)
(***************************************************************************)
LEMMA NextInv == Inv /\ [Next]_vars => Inv'
<1> SUFFICES ASSUME Inv, [Next]_vars PROVE Inv'
  OBVIOUS
<1>1. ASSUME NEW id \in Ids, NEW is_buy \in BOOLEAN, NEW qty \in AddQuantities, NEW px \in Prices,
             addOrder(id, is_buy, qty, px)
      PROVE  Inv'
  BY <1>1, AddOrderInv
<1>2. ASSUME NEW id \in Ids, cancelOrder(id)
      PROVE  Inv'
  BY <1>2, CancelOrderInv
<1>3. ASSUME NEW id \in Ids, NEW qty \in ModifyQuantities, NEW px \in Prices,
             modifyOrder(id, qty, px)
      PROVE  Inv'
  BY <1>3, ModifyOrderInv
<1>4. CASE MatchOrders
  BY <1>4, MatchOrdersInv
<1>5. ASSUME matching' \in BOOLEAN,
             UNCHANGED <<order_map_, bid_levels_, ask_levels_, trade_log_, arrived, clock, issued, history>>
      PROVE  Inv'
  BY <1>5 DEF history, Inv, TypeOK, BookIndexed, TimePriority, ArrivedBefore
<1>6. CASE TriggerMatching
  BY <1>5, <1>6 DEF TriggerMatching
<1>7. CASE MatchingDone
  BY <1>5, <1>7 DEF MatchingDone
<1>8. CASE UNCHANGED vars
  BY <1>5, <1>8 DEF vars, Inv, TypeOK
<1> QED
  BY <1>1, <1>2, <1>3, <1>4, <1>6, <1>7, <1>8 DEF Next

LEMMA Invariance == Spec => []Inv
<1> QED
  BY InitInv, NextInv, PTL DEF Spec

(***************************************************************************)
(* Every variable keeps its type.                                           *)
(***************************************************************************)
THEOREM TypeCorrect == Spec => []TypeOK
<1>1. Inv => TypeOK
  BY DEF Inv
<1> QED
  BY <1>1, Invariance, PTL

(***************************************************************************)
(* No queue ever holds a pointer to an order that is gone, and no order is  *)
(* ever missing from its queue.                                             *)
(***************************************************************************)
THEOREM IndexCorrect == Spec => []BookIndexed
<1>1. Inv => BookIndexed
  BY DEF Inv
<1> QED
  BY <1>1, Invariance, PTL

(***************************************************************************)
(* Every queue is always in order of arrival.                               *)
(***************************************************************************)
THEOREM TimePriorityCorrect == Spec => []TimePriority
<1>1. Inv => TimePriority
  BY DEF Inv
<1> QED
  BY <1>1, Invariance, PTL

-----------------------------------------------------------------------------
\* A quantity that fits an int32_t stays what it is.
LEMMA ToQuantityFits ==
  ASSUME NEW x \in 0..MaxQuantity
  PROVE  ToQuantity(x) = x
<1> DEFINE w == 2 * MaxQuantity + 2
           y == x + MaxQuantity + 1
<1>1. w \in Nat \ {0} /\ y \in 0..(w - 1)
  BY MaxQuantityAssumption
<1>2. y % w = y
  <2> HIDE DEF w, y
  <2> QED BY <1>1
<1> QED BY <1>2, MaxQuantityAssumption DEF ToQuantity

\* Wrapping once at the end is wrapping at every step.
LEMMA ToQuantityTwice ==
  ASSUME NEW x \in Int, NEW d \in Int
  PROVE  /\ ToQuantity(ToQuantity(x) + d) = ToQuantity(x + d)
         /\ ToQuantity(ToQuantity(x) - d) = ToQuantity(x - d)
<1>1. \A y : ToQuantity(y) = Wrap(y, MaxQuantity)
  BY DEF ToQuantity, Wrap
<1>2. ToQuantity(x) \in Int /\ MaxQuantity \in Nat /\ -d \in Int
  BY ToQuantityType, MaxQuantityAssumption DEF Quantity
<1>3. Wrap(Wrap(x, MaxQuantity) + d, MaxQuantity) = Wrap(x + d, MaxQuantity)
  BY <1>2, WrapTwice
<1>4. Wrap(Wrap(x, MaxQuantity) + (-d), MaxQuantity) = Wrap(x + (-d), MaxQuantity)
  BY <1>2, WrapTwice
<1>5. ToQuantity(x) + (-d) = ToQuantity(x) - d /\ x + (-d) = x - d
  BY <1>2
<1> QED BY <1>1, <1>3, <1>4, <1>5

\* An order that is not suspect rests for a positive quantity.
SoundOrders == \A o \in DOMAIN order_map_ : order_map_[o].quantity > 0 \/ o \in suspect

LEMMA StoreKeepsSound ==
  ASSUME SoundOrders, NEW id, NEW order, Store(id, order)
  PROVE  SoundOrders' /\ suspect \subseteq suspect'
BY DEF SoundOrders, Store, Put

\* Two orders that are sound trade a positive quantity, and what is left of them is sound.
LEMMA MatchingKeepsSound ==
  ASSUME Inv, SoundOrders, PositiveTrades, MatchOrders
  PROVE  SoundOrders' /\ PositiveTrades'
<1>1. /\ Matchable
      /\ trade_log_' = Append(trade_log_,
           [buy_order_id |-> BestBuy, sell_order_id |-> BestSell,
            price |-> order_map_[BestSell].price, quantity |-> MatchQuantity])
      /\ order_map_' = Erase(AfterTrade, Filled(Left))
      /\ suspect' = IF suspect \cap {BestBuy, BestSell} = {} THEN suspect
                    ELSE suspect \cup {BestBuy, BestSell}
  BY MatchOrdersStep
<1>2. BestBuy \in DOMAIN order_map_ /\ BestSell \in DOMAIN order_map_
  BY <1>1, BestOrders
<1>3. \A o \in DOMAIN order_map_ : order_map_[o] \in Order /\ order_map_[o].quantity \in Quantity
  BY DEF Inv, TypeOK, Order
<1>4. ASSUME suspect \cap {BestBuy, BestSell} = {}
      PROVE  /\ MatchQuantity \in 1..MaxQuantity
             /\ \A o \in {BestBuy, BestSell} : Left[o] \in 0..MaxQuantity
  <2>1. /\ order_map_[BestBuy].quantity \in 1..MaxQuantity
        /\ order_map_[BestSell].quantity \in 1..MaxQuantity
    BY <1>2, <1>3, <1>4, MaxQuantityAssumption DEF SoundOrders, Quantity
  <2>2. /\ MatchQuantity \in 1..MaxQuantity
        /\ \A o \in {BestBuy, BestSell} : order_map_[o].quantity - MatchQuantity \in 0..MaxQuantity
    BY <2>1, MaxQuantityAssumption DEF MatchQuantity
  <2> QED BY <2>2, ToQuantityFits DEF Left
<1>5. SoundOrders'
  <2> SUFFICES ASSUME NEW o \in DOMAIN order_map_', o \notin suspect'
               PROVE  order_map_'[o].quantity > 0
    BY DEF SoundOrders
  <2>1. o \in DOMAIN order_map_ /\ o \notin Filled(Left) /\ order_map_'[o] = AfterTrade[o]
    BY <1>1 DEF Erase, AfterTrade
  <2>2. CASE o \in {BestBuy, BestSell}
    <3>1. Left[o] # 0
      BY <2>1, <2>2 DEF Filled, Left
    <3>2. AfterTrade[o].quantity = Left[o]
      BY <1>3, <2>1, <2>2 DEF AfterTrade, Order
    <3>3. Left[o] \in 0..MaxQuantity
      BY <1>1, <1>4, <2>2
    <3> QED BY <2>1, <3>1, <3>2, <3>3
  <2>3. CASE o \notin {BestBuy, BestSell}
    <3>1. order_map_'[o] = order_map_[o] /\ o \notin suspect
      BY <1>1, <2>1, <2>3 DEF AfterTrade
    <3> QED BY <2>1, <3>1 DEF SoundOrders
  <2> QED BY <2>2, <2>3
<1>6. PositiveTrades'
  <2>1. trade_log_ \in Seq(Trade)
    BY DEF Inv, TypeOK
  <2>2. suspect \subseteq suspect'
    BY <1>1
  <2>3. MatchQuantity > 0 \/ {BestBuy, BestSell} \cap suspect' # {}
    BY <1>1, <1>4
  <2> QED BY <1>1, <2>1, <2>2, <2>3, AppendProperties, LenProperties DEF PositiveTrades
<1> QED BY <1>5, <1>6

LEMMA SoundNext ==
  ASSUME Inv, SoundOrders, PositiveTrades, [Next]_vars
  PROVE  SoundOrders' /\ PositiveTrades'
<1>1. ASSUME NEW id, NEW order, Store(id, order), UNCHANGED trade_log_
      PROVE  SoundOrders' /\ PositiveTrades'
  BY <1>1, StoreKeepsSound DEF PositiveTrades
<1>2. CASE \E id \in Ids, is_buy \in BOOLEAN, qty \in AddQuantities, px \in Prices :
             addOrder(id, is_buy, qty, px)
  BY <1>1, <1>2 DEF addOrder
<1>3. CASE \E id \in Ids, qty \in ModifyQuantities, px \in Prices : modifyOrder(id, qty, px)
  BY <1>1, <1>3 DEF modifyOrder
<1>4. CASE \E id \in Ids : cancelOrder(id)
  BY <1>4 DEF cancelOrder, Erase, SoundOrders, PositiveTrades, history
<1>5. CASE MatchOrders
  BY <1>5, MatchingKeepsSound
<1>6. CASE TriggerMatching \/ MatchingDone \/ UNCHANGED vars
  BY <1>6 DEF TriggerMatching, MatchingDone, vars, history, SoundOrders, PositiveTrades
<1> QED BY <1>2, <1>3, <1>4, <1>5, <1>6 DEF Next

LEMMA InitSound == Init => SoundOrders /\ PositiveTrades
BY DEF Init, SoundOrders, PositiveTrades

(***************************************************************************)
(* What a quantity of zero or less, which modifyOrder does not refuse, can  *)
(* spoil: a trade moves a positive quantity unless one of its orders was    *)
(* given such a quantity, or traded with one that had been.  Neither the    *)
(* width of a quantity nor any sequence of fills and modifications leaves   *)
(* another order with none, or with less.                                   *)
(***************************************************************************)
THEOREM TradesArePositive == Spec => []PositiveTrades
<1> QED
  BY InitSound, SoundNext, InitInv, NextInv, PTL DEF Spec

-----------------------------------------------------------------------------
(* When every quantity that clients send is positive, so are those that rest. *)

PositiveQuantities ==
  AddQuantities \subseteq Nat \ {0} /\ ModifyQuantities \subseteq Nat \ {0}

RestPositive == \A o \in DOMAIN order_map_ : order_map_[o].quantity > 0

\* The part of the invariant that says so.
NoneSuspect == SoundOrders /\ PositiveTrades /\ suspect = {}

LEMMA InitNoneSuspect == Init => NoneSuspect
BY InitSound DEF Init, NoneSuspect

LEMMA NextNoneSuspect ==
  ASSUME PositiveQuantities, Inv, NoneSuspect, [Next]_vars
  PROVE  NoneSuspect'
<1>1. SoundOrders' /\ PositiveTrades'
  BY SoundNext DEF NoneSuspect
<1>2. ASSUME NEW id, NEW order, order.quantity > 0, Store(id, order)
      PROVE  suspect' = suspect
  BY <1>2 DEF Store
<1>3. ASSUME NEW id \in Ids, NEW is_buy \in BOOLEAN, NEW qty \in AddQuantities, NEW px \in Prices,
             addOrder(id, is_buy, qty, px)
      PROVE  suspect' = suspect
  <2> DEFINE order == [is_buy |-> is_buy, quantity |-> qty, price |-> px]
  <2>1. Store(id, order) /\ order.quantity > 0
    BY <1>3 DEF addOrder, PositiveQuantities
  <2> HIDE DEF order
  <2> QED BY <1>2, <2>1
<1>4. ASSUME NEW id \in Ids, NEW qty \in ModifyQuantities, NEW px \in Prices,
             modifyOrder(id, qty, px)
      PROVE  suspect' = suspect
  <2> DEFINE new == [order_map_[id] EXCEPT !.quantity = qty, !.price = px]
  <2>1. id \in DOMAIN order_map_ /\ Store(id, new)
    BY <1>4 DEF modifyOrder
  <2>2. new.quantity = qty /\ qty > 0
    BY <2>1 DEF PositiveQuantities, Inv, TypeOK, Order
  <2> HIDE DEF new
  <2> QED BY <1>2, <2>1, <2>2
<1>5. ASSUME MatchOrders
      PROVE  suspect' = suspect
  BY <1>5, MatchOrdersStep DEF NoneSuspect
<1>6. ASSUME TriggerMatching \/ MatchingDone \/ UNCHANGED vars \/ \E id \in Ids : cancelOrder(id)
      PROVE  suspect' = suspect
  BY <1>6 DEF TriggerMatching, MatchingDone, cancelOrder, vars, history
<1>7. suspect' = {}
  BY <1>3, <1>4, <1>5, <1>6 DEF Next, NoneSuspect
<1> QED BY <1>1, <1>7 DEF NoneSuspect

LEMMA NoneSuspectRestPositive == NoneSuspect => RestPositive
BY DEF NoneSuspect, SoundOrders, RestPositive

-----------------------------------------------------------------------------
(***************************************************************************)
(* When the loop of matchOrders ends, no two orders could trade: each of    *)
(* them would have a level, at best as good as the ends of the maps.        *)
(***************************************************************************)
LEMMA NotMatchable ==
  ASSUME Inv, ~Matchable
  PROVE  ~Crossed
<1> SUFFICES ASSUME NEW b \in DOMAIN order_map_, NEW s \in DOMAIN order_map_,
                    order_map_[b].is_buy, ~order_map_[s].is_buy,
                    order_map_[b].price >= order_map_[s].price
             PROVE  FALSE
  BY DEF Crossed
<1>1. order_map_[b].is_buy = TRUE /\ order_map_[s].is_buy = FALSE
  BY DEF Inv, TypeOK, Order
<1>2. /\ IsSide(bid_levels_) /\ SideIndexed(bid_levels_, TRUE, order_map_)
      /\ IsSide(ask_levels_) /\ SideIndexed(ask_levels_, FALSE, order_map_)
  BY DEF Inv, TypeOK, BookIndexed
<1>3. order_map_[b].price \in DOMAIN bid_levels_ /\ order_map_[s].price \in DOMAIN ask_levels_
  BY <1>1, <1>2 DEF SideIndexed
<1>4. /\ BestBid(bid_levels_) \in DOMAIN bid_levels_ /\ BestBid(bid_levels_) >= order_map_[b].price
      /\ BestAsk(ask_levels_) \in DOMAIN ask_levels_ /\ BestAsk(ask_levels_) <= order_map_[s].price
  BY <1>2, <1>3, BestBidIsHighest, BestAskIsLowest
<1>5. DOMAIN bid_levels_ \subseteq Int /\ DOMAIN ask_levels_ \subseteq Int
  BY <1>2, PricesAssumption DEF IsSide
<1>6. BestBid(bid_levels_) >= BestAsk(ask_levels_)
  BY <1>3, <1>4, <1>5
<1> QED
  BY <1>3, <1>6 DEF Matchable

(***************************************************************************)
(* triggerMatching never returns while two resting orders could trade.      *)
(***************************************************************************)
THEOREM MatchingClears == Spec => MatchingClearsTheBook
<1>1. Inv /\ [Next]_vars => (matching /\ ~matching' => ~Crossed')
  <2> SUFFICES ASSUME Inv, [Next]_vars, matching, ~matching'
               PROVE  ~Crossed'
    OBVIOUS
  <2>1. MatchingDone
    BY DEF Next, vars, addOrder, cancelOrder, modifyOrder, TriggerMatching, MatchOrders
  <2>2. ~Crossed
    BY <2>1, NotMatchable DEF MatchingDone
  <2> QED
    BY <2>1, <2>2 DEF MatchingDone, Crossed
<1> QED
  BY <1>1, Invariance, PTL DEF Spec, MatchingClearsTheBook

-----------------------------------------------------------------------------
(***************************************************************************)
(* OrderBook implements PriceTimePriority.                                  *)
(***************************************************************************)
LEMMA InitRefines == Init => PriceTime!Init
  BY DEF Init, PriceTime!Init, Resting

LEMMA AddOrderRefines ==
  ASSUME Inv, NEW id \in Ids, NEW is_buy \in BOOLEAN, NEW qty \in AddQuantities,
         NEW px \in Prices, addOrder(id, is_buy, qty, px)
  PROVE  PriceTime!Submit(id, is_buy, qty, px)
<1> DEFINE order  == [is_buy |-> is_buy, quantity |-> qty, price |-> px]
           placed == [is_buy |-> is_buy, quantity |-> qty, price |-> px, arrived |-> clock]
<1>1. /\ id \notin DOMAIN order_map_
      /\ clock < MaxClock /\ clock' = clock + 1
      /\ order_map_' = Put(order_map_, id, order)
      /\ arrived' = Put(arrived, id, clock)
      /\ trade_log_' = trade_log_
  BY DEF addOrder, Store, Inv, ArrivedBefore
<1>2. DOMAIN arrived = DOMAIN order_map_
  BY DEF Inv, TypeOK
<1>3. Resting' = [o \in DOMAIN Resting \cup {id} |-> IF o = id THEN placed ELSE Resting[o]]
  BY <1>1, <1>2 DEF Resting, Put
<1>4. id \notin DOMAIN Resting
  BY <1>1 DEF Resting
<1> QED
  BY <1>1, <1>3, <1>4 DEF PriceTime!Submit, PriceTime!Place

LEMMA ModifyOrderRefines ==
  ASSUME Inv, NEW id \in Ids, NEW new_qty \in ModifyQuantities, NEW new_px \in Prices,
         modifyOrder(id, new_qty, new_px)
  PROVE  PriceTime!Modify(id, new_qty, new_px)
<1> DEFINE new    == [order_map_[id] EXCEPT !.quantity = new_qty, !.price = new_px]
           placed == [is_buy |-> Resting[id].is_buy, quantity |-> new_qty, price |-> new_px,
                      arrived |-> clock]
<1>1. /\ id \in DOMAIN order_map_
      /\ clock < MaxClock /\ clock' = clock + 1
      /\ order_map_' = Put(order_map_, id, new)
      /\ arrived' = Put(arrived, id, clock)
      /\ trade_log_' = trade_log_
  BY DEF modifyOrder, Store
<1>2. DOMAIN arrived = DOMAIN order_map_ /\ order_map_[id] \in Order
  BY <1>1 DEF Inv, TypeOK
<1>3. new.is_buy = order_map_[id].is_buy /\ new.quantity = new_qty /\ new.price = new_px
  BY <1>2 DEF Order
<1> HIDE DEF new
<1>4. Resting' = [o \in DOMAIN Resting \cup {id} |-> IF o = id THEN placed ELSE Resting[o]]
  BY <1>1, <1>2, <1>3 DEF Resting, Put
<1>5. id \in DOMAIN Resting
  BY <1>1 DEF Resting
<1> QED
  BY <1>1, <1>4, <1>5 DEF PriceTime!Modify, PriceTime!Place

LEMMA CancelOrderRefines ==
  ASSUME Inv, NEW id \in Ids, cancelOrder(id)
  PROVE  PriceTime!Cancel(id)
<1>1. /\ id \in DOMAIN order_map_
      /\ order_map_' = Erase(order_map_, {id})
      /\ arrived' = Erase(arrived, {id})
      /\ UNCHANGED <<trade_log_, clock>>
  BY DEF cancelOrder
<1>2. DOMAIN arrived = DOMAIN order_map_
  BY DEF Inv, TypeOK
<1>3. Resting' = [o \in DOMAIN Resting \ {id} |-> Resting[o]]
  BY <1>1, <1>2 DEF Resting, Erase
<1>4. id \in DOMAIN Resting
  BY <1>1 DEF Resting
<1> QED
  BY <1>1, <1>3, <1>4 DEF PriceTime!Cancel

(***************************************************************************)
(* The front of a level came before every other order of its price.         *)
(***************************************************************************)
LEMMA FrontArrivedFirst ==
  ASSUME NEW levels, IsSide(levels), NEW b, NEW orders, SideIndexed(levels, b, orders),
         NEW arr, TimeOrdered(levels, arr), NEW px \in DOMAIN levels,
         NEW o \in DOMAIN orders, orders[o].is_buy = b, orders[o].price = px,
         o # Head(levels[px].orders)
  PROVE  arr[Head(levels[px].orders)] < arr[o]
<1> DEFINE q == levels[px].orders
<1>1. q \in Seq(Ids) /\ Contains(q, o)
  BY DEF SideIndexed, IsSide, Level
<1>2. /\ 1 \in DOMAIN q /\ q[1] = Head(q)
      /\ DOMAIN q = 1..Len(q) /\ Len(q) \in Nat
  BY <1>1, FrontOfLevel, LenProperties
<1>3. PICK i \in DOMAIN q : q[i] = o
  BY <1>1, <1>2 DEF Contains
<1>4. 1 < i
  BY <1>2, <1>3
<1> QED
  BY <1>2, <1>3, <1>4 DEF TimeOrdered

LEMMA BestHavePriority ==
  ASSUME Inv, Matchable
  PROVE  PriceTime!IsBest(BestBuy) /\ PriceTime!IsBest(BestSell)
<1>1. /\ IsSide(bid_levels_) /\ SideIndexed(bid_levels_, TRUE, order_map_)
      /\ IsSide(ask_levels_) /\ SideIndexed(ask_levels_, FALSE, order_map_)
      /\ TimeOrdered(bid_levels_, arrived) /\ TimeOrdered(ask_levels_, arrived)
  BY DEF Inv, TypeOK, BookIndexed, TimePriority
<1>2. /\ BestBid(bid_levels_) \in DOMAIN bid_levels_
      /\ BestAsk(ask_levels_) \in DOMAIN ask_levels_
      /\ \A p \in DOMAIN bid_levels_ : BestBid(bid_levels_) >= p
      /\ \A p \in DOMAIN ask_levels_ : BestAsk(ask_levels_) <= p
      /\ BestBuy \in DOMAIN order_map_ /\ order_map_[BestBuy].is_buy = TRUE
      /\ BestSell \in DOMAIN order_map_ /\ order_map_[BestSell].is_buy = FALSE
      /\ order_map_[BestBuy].price = BestBid(bid_levels_)
      /\ order_map_[BestSell].price = BestAsk(ask_levels_)
  BY BestOrders
<1>3. DOMAIN bid_levels_ \subseteq Int /\ DOMAIN ask_levels_ \subseteq Int
  BY <1>1, PricesAssumption DEF IsSide
<1>4. /\ DOMAIN Resting = DOMAIN order_map_
      /\ \A o \in DOMAIN order_map_ : /\ Resting[o].is_buy = order_map_[o].is_buy
                                      /\ Resting[o].price = order_map_[o].price
                                      /\ Resting[o].arrived = arrived[o]
  BY DEF Resting
<1>5. ASSUME NEW o \in DOMAIN order_map_, o # BestBuy, order_map_[o].is_buy = TRUE
      PROVE  PriceTime!Precedes(Resting[BestBuy], Resting[o])
  <2>1. order_map_[o].price \in DOMAIN bid_levels_
    BY <1>1, <1>5 DEF SideIndexed
  <2>2. CASE order_map_[o].price = BestBid(bid_levels_)
    <3>1. ASSUME NEW b, b = TRUE
          PROVE  arrived[BestBuy] < arrived[o]
      <4>1. SideIndexed(bid_levels_, b, order_map_) /\ order_map_[o].is_buy = b
        BY <1>1, <1>5, <3>1
      <4> QED
        BY <1>1, <1>2, <1>5, <2>2, <4>1, FrontArrivedFirst DEF BestBuy
    <3> QED
      BY <1>2, <1>4, <2>2, <3>1 DEF PriceTime!Precedes
  <2>3. CASE order_map_[o].price # BestBid(bid_levels_)
    <3>1. BestBid(bid_levels_) > order_map_[o].price
      BY <1>2, <1>3, <2>1, <2>3
    <3> QED
      BY <1>2, <1>4, <3>1 DEF PriceTime!Precedes
  <2> QED
    BY <2>2, <2>3
<1>6. ASSUME NEW o \in DOMAIN order_map_, o # BestSell, order_map_[o].is_buy = FALSE
      PROVE  PriceTime!Precedes(Resting[BestSell], Resting[o])
  <2>1. order_map_[o].price \in DOMAIN ask_levels_
    BY <1>1, <1>6 DEF SideIndexed
  <2>2. CASE order_map_[o].price = BestAsk(ask_levels_)
    <3>1. ASSUME NEW b, b = FALSE
          PROVE  arrived[BestSell] < arrived[o]
      <4>1. SideIndexed(ask_levels_, b, order_map_) /\ order_map_[o].is_buy = b
        BY <1>1, <1>6, <3>1
      <4> QED
        BY <1>1, <1>2, <1>6, <2>2, <4>1, FrontArrivedFirst DEF BestSell
    <3> QED
      BY <1>2, <1>4, <2>2, <3>1 DEF PriceTime!Precedes
  <2>3. CASE order_map_[o].price # BestAsk(ask_levels_)
    <3>1. BestAsk(ask_levels_) < order_map_[o].price
      BY <1>2, <1>3, <2>1, <2>3
    <3> QED
      BY <1>2, <1>4, <3>1 DEF PriceTime!Precedes
  <2> QED
    BY <2>2, <2>3
<1> QED
  BY <1>2, <1>4, <1>5, <1>6 DEF PriceTime!IsBest

LEMMA MatchOrdersRefines ==
  ASSUME Inv, MatchOrders
  PROVE  PriceTime!Trade(BestBuy, BestSell)
<1> DEFINE b == Resting[BestBuy]
           s == Resting[BestSell]
           quantity == IF s.quantity < b.quantity THEN s.quantity ELSE b.quantity
           after == [o \in DOMAIN Resting |->
                       IF o \in {BestBuy, BestSell} THEN PriceTime!Reduced(Resting[o], quantity)
                                                    ELSE Resting[o]]
<1>1. /\ Matchable
      /\ trade_log_' = Append(trade_log_,
           [buy_order_id |-> BestBuy, sell_order_id |-> BestSell,
            price |-> order_map_[BestSell].price, quantity |-> MatchQuantity])
      /\ order_map_' = Erase(AfterTrade, Filled(Left))
      /\ arrived' = Erase(arrived, Filled(Left))
      /\ UNCHANGED <<matching, clock, issued>>
  BY MatchOrdersStep
<1>2. /\ BestBuy \in DOMAIN order_map_ /\ order_map_[BestBuy].is_buy = TRUE
      /\ BestSell \in DOMAIN order_map_ /\ order_map_[BestSell].is_buy = FALSE
      /\ order_map_[BestBuy].price >= order_map_[BestSell].price
  BY <1>1, BestOrders DEF Matchable
<1>3. /\ DOMAIN Resting = DOMAIN order_map_
      /\ \A o \in DOMAIN order_map_ :
           Resting[o] = [is_buy |-> order_map_[o].is_buy, quantity |-> order_map_[o].quantity,
                         price |-> order_map_[o].price, arrived |-> arrived[o]]
  BY DEF Resting
<1>4. quantity = MatchQuantity /\ s.price = order_map_[BestSell].price
  BY <1>2, <1>3 DEF MatchQuantity
<1>5. /\ DOMAIN AfterTrade = DOMAIN order_map_ /\ DOMAIN arrived = DOMAIN order_map_
      /\ DOMAIN Left = {BestBuy, BestSell}
      /\ \A o \in DOMAIN order_map_ : order_map_[o] \in Order
  BY DEF AfterTrade, Left, Inv, TypeOK
<1>6. \A o \in {BestBuy, BestSell} :
        after[o] = [is_buy |-> order_map_[o].is_buy, quantity |-> Left[o],
                    price |-> order_map_[o].price, arrived |-> arrived[o]]
  BY <1>2, <1>3, <1>4 DEF Left, ToQuantity, PriceTime!Reduced
<1>7. \A o \in DOMAIN order_map_ \ {BestBuy, BestSell} : after[o] = Resting[o]
  BY <1>3
<1>8. DOMAIN after = DOMAIN order_map_
  BY <1>3
<1> HIDE DEF after, quantity
<1>9. \A o \in DOMAIN order_map_ :
        after[o] = [is_buy |-> AfterTrade[o].is_buy, quantity |-> AfterTrade[o].quantity,
                    price |-> AfterTrade[o].price, arrived |-> arrived[o]]
  BY <1>3, <1>5, <1>6, <1>7 DEF AfterTrade, Order
<1>10. {o \in DOMAIN Resting : o \in {BestBuy, BestSell} => after[o].quantity # 0}
         = DOMAIN order_map_ \ Filled(Left)
  BY <1>3, <1>5, <1>6 DEF Filled
<1>11. Resting' = [o \in DOMAIN order_map_ \ Filled(Left) |-> after[o]]
  BY <1>1, <1>5, <1>9 DEF Resting, Erase
<1>12. PriceTime!IsBest(BestBuy) /\ PriceTime!IsBest(BestSell)
  BY <1>1, BestHavePriority
<1>13. trade_log_' = Append(trade_log_, [buy_order_id |-> BestBuy, sell_order_id |-> BestSell,
                                        price |-> s.price, quantity |-> quantity])
  BY <1>1, <1>4
<1>14. Resting' = [o \in {p \in DOMAIN Resting : p \in {BestBuy, BestSell} => after[p].quantity # 0}
                     |-> after[o]]
  BY <1>10, <1>11
<1>15. b.is_buy /\ ~s.is_buy /\ b.price >= s.price /\ clock' = clock
  BY <1>1, <1>2, <1>3
<1> QED
  BY <1>12, <1>13, <1>14, <1>15 DEF PriceTime!Trade, after, quantity

LEMMA NextRefines == Inv /\ [Next]_vars => [PriceTime!Next]_(PriceTime!vars)
<1> SUFFICES ASSUME Inv, [Next]_vars PROVE [PriceTime!Next]_(PriceTime!vars)
  OBVIOUS
<1>1. ASSUME NEW id \in Ids, NEW is_buy \in BOOLEAN, NEW qty \in AddQuantities, NEW px \in Prices,
             addOrder(id, is_buy, qty, px)
      PROVE  PriceTime!Next
  <2>1. qty \in PriceTime!Quantity
    BY QuantitiesAssumption DEF Quantity, PriceTime!Quantity
  <2> QED
    BY <1>1, <2>1, AddOrderRefines DEF PriceTime!Next
<1>2. ASSUME NEW id \in Ids, cancelOrder(id)
      PROVE  PriceTime!Next
  BY <1>2, CancelOrderRefines DEF PriceTime!Next
<1>3. ASSUME NEW id \in Ids, NEW qty \in ModifyQuantities, NEW px \in Prices,
             modifyOrder(id, qty, px)
      PROVE  PriceTime!Next
  <2>1. qty \in PriceTime!Quantity
    BY QuantitiesAssumption DEF Quantity, PriceTime!Quantity
  <2> QED
    BY <1>3, <2>1, ModifyOrderRefines DEF PriceTime!Next
<1>4. ASSUME MatchOrders
      PROVE  PriceTime!Next
  <2>1. BestBuy \in Ids /\ BestSell \in Ids
    BY <1>4, MatchOrdersStep, BestOrders DEF Inv, TypeOK
  <2> QED
    BY <1>4, <2>1, MatchOrdersRefines DEF PriceTime!Next
<1>5. ASSUME UNCHANGED <<order_map_, trade_log_, arrived, clock>>
      PROVE  UNCHANGED PriceTime!vars
  BY <1>5 DEF PriceTime!vars, Resting
<1>6. ASSUME TriggerMatching \/ MatchingDone \/ UNCHANGED vars
      PROVE  UNCHANGED PriceTime!vars
  BY <1>5, <1>6 DEF TriggerMatching, MatchingDone, vars
<1> QED
  BY <1>1, <1>2, <1>3, <1>4, <1>6 DEF Next

(***************************************************************************)
(* The queues, levels and cached totals of the order book implement         *)
(* price-time priority: every trade is between the best buy and the best    *)
(* sell, at the price of the sell, for the smaller of their quantities.     *)
(***************************************************************************)
THEOREM Refinement == Spec => FollowsPriceTimePriority
<1>1. Spec => PriceTime!Spec
  BY InitRefines, NextRefines, Invariance, PTL DEF Spec, PriceTime!Spec
<1> QED
  BY <1>1 DEF FollowsPriceTimePriority

-----------------------------------------------------------------------------
(***************************************************************************)
(* The totals of the levels.  The orders of a side at a price, and the sum  *)
(* of their quantities.                                                     *)
(***************************************************************************)
OrdersAt(orders, b, p) == {o \in DOMAIN orders : orders[o].is_buy = b /\ orders[o].price = p}
QuantityOf(orders) == [o \in DOMAIN orders |-> orders[o].quantity]
TotalAt(orders, b, p) == SumFunctionOnSet(QuantityOf(orders), OrdersAt(orders, b, p))

\* The levels of a side cache these sums, as wide as a quantity; but not all do.
Totalled(levels, b, orders, but) ==
  \A p \in DOMAIN levels :
    <<b, p>> \in but \/ levels[p].total_quantity = ToQuantity(TotalAt(orders, b, p))

IntegerQuantities(orders) == \A o \in DOMAIN orders : orders[o].quantity \in Int

\* The orders at a price are those of its queue, each once.
LEMMA OrdersAtQueue ==
  ASSUME NEW levels, IsSide(levels), NEW b, NEW orders, SideIndexed(levels, b, orders),
         NEW p \in DOMAIN levels
  PROVE  LET q == levels[p].orders
         IN  /\ q \in Seq(Ids) /\ DOMAIN q = 1..Len(q) /\ Len(q) \in Nat
             /\ \A i \in DOMAIN q : q[i] \in OrdersAt(orders, b, p)
             /\ \A o \in OrdersAt(orders, b, p) : \E i \in DOMAIN q : q[i] = o
             /\ \A i, j \in DOMAIN q : q[i] = q[j] => i = j
<1> DEFINE q == levels[p].orders
<1>1. q \in Seq(Ids)
  BY DEF IsSide, Level
<1>2. DOMAIN q = 1..Len(q) /\ Len(q) \in Nat
  BY <1>1, LenProperties
<1>3. \A i \in DOMAIN q : q[i] \in OrdersAt(orders, b, p)
  BY DEF SideIndexed, OrdersAt
<1>4. ASSUME NEW o \in OrdersAt(orders, b, p)
      PROVE  \E i \in DOMAIN q : q[i] = o
  <2>1. Contains(q, o)
    BY <1>4 DEF SideIndexed, OrdersAt
  <2> QED
    BY <2>1, <1>2 DEF Contains
<1>5. \A i, j \in DOMAIN q : q[i] = q[j] => i = j
  BY DEF SideIndexed, IsInjective
<1> QED
  BY <1>1, <1>2, <1>3, <1>4, <1>5

\* There are finitely many, none where there is no level.
LEMMA OrdersAtFinite ==
  ASSUME NEW levels, IsSide(levels), NEW b, NEW orders, SideIndexed(levels, b, orders), NEW p
  PROVE  /\ IsFiniteSet(OrdersAt(orders, b, p))
         /\ p \notin DOMAIN levels => OrdersAt(orders, b, p) = {}
<1>1. p \notin DOMAIN levels => OrdersAt(orders, b, p) = {}
  BY DEF SideIndexed, OrdersAt
<1>2. ASSUME p \in DOMAIN levels
      PROVE  IsFiniteSet(OrdersAt(orders, b, p))
  <2> DEFINE q == levels[p].orders
  <2>1. /\ q \in Seq(Ids) /\ DOMAIN q = 1..Len(q) /\ Len(q) \in Nat
        /\ \A i \in DOMAIN q : q[i] \in OrdersAt(orders, b, p)
        /\ \A o \in OrdersAt(orders, b, p) : \E i \in DOMAIN q : q[i] = o
    BY <1>2, OrdersAtQueue
  <2> HIDE DEF q
  <2> DEFINE T == OrdersAt(orders, b, p)
  <2>2. q \in [1..Len(q) -> T]
    BY <2>1, IsASeq
  <2>3. q \in Surjection(1..Len(q), T)
    BY <2>1, <2>2 DEF Surjection
  <2> QED
    BY <2>1, <2>3, FS_Interval, FS_Surjection
<1> QED
  BY <1>1, <1>2, FS_EmptySet

\* The sum over a queue is the sum over its orders.
LEMMA QueueSum ==
  ASSUME NEW levels, IsSide(levels), NEW b, NEW orders, SideIndexed(levels, b, orders),
         IntegerQuantities(orders), NEW p \in DOMAIN levels
  PROVE  LET q == levels[p].orders
         IN  SumFunction([i \in DOMAIN q |-> orders[q[i]].quantity]) = TotalAt(orders, b, p)
<1> DEFINE q == levels[p].orders
           f == [i \in DOMAIN q |-> orders[q[i]].quantity]
           e == QuantityOf(orders)
           T == OrdersAt(orders, b, p)
<1>1. /\ q \in Seq(Ids) /\ DOMAIN q = 1..Len(q) /\ Len(q) \in Nat
      /\ \A i \in DOMAIN q : q[i] \in T
      /\ \A o \in T : \E i \in DOMAIN q : q[i] = o
      /\ \A i, j \in DOMAIN q : q[i] = q[j] => i = j
  BY OrdersAtQueue
<1>2. IsFiniteSet(DOMAIN q) /\ IsFiniteSet(T)
  BY <1>1, FS_Interval, OrdersAtFinite
<1>3. \A i \in DOMAIN q : f[i] = e[q[i]] /\ f[i] \in Int
  BY <1>1 DEF OrdersAt, IntegerQuantities, QuantityOf
<1>4. DOMAIN f = DOMAIN q
  OBVIOUS
<1>5. q \in [DOMAIN q -> T]
  BY <1>1, IsASeq
<1> HIDE DEF q, f, e, T
<1>6. SumFunctionOnSet(f, DOMAIN q) = SumFunctionOnSet(e, T)
  BY <1>1, <1>2, <1>3, <1>5, SumReindexed
<1> QED
  BY <1>4, <1>6 DEF SumFunction, TotalAt, q, f, e, T

\* Erasing orders takes their quantities out of the sum.
LEMMA TotalErased ==
  ASSUME NEW orders, NEW b, NEW p, IsFiniteSet(OrdersAt(orders, b, p)), NEW gone
  PROVE  /\ OrdersAt(Erase(orders, gone), b, p) = OrdersAt(orders, b, p) \ gone
         /\ TotalAt(Erase(orders, gone), b, p) =
              SumFunctionOnSet(QuantityOf(orders), OrdersAt(orders, b, p) \ gone)
<1> DEFINE S == OrdersAt(orders, b, p) \ gone
           f == QuantityOf(Erase(orders, gone))
           e == QuantityOf(orders)
<1>1. OrdersAt(Erase(orders, gone), b, p) = S
  BY DEF OrdersAt, Erase
<1>2. \A o \in S : f[o] = e[o]
  BY DEF QuantityOf, Erase, OrdersAt
<1>3. IsFiniteSet(S)
  BY FS_Difference
<1> HIDE DEF S, f, e
<1>4. SumFunctionOnSet(f, S) = SumFunctionOnSet(e, S)
  BY <1>2, <1>3, SumDependsOn
<1> QED
  BY <1>1, <1>4 DEF TotalAt, S, f, e

LEMMA TotalType ==
  ASSUME NEW orders, NEW b, NEW p, IsFiniteSet(OrdersAt(orders, b, p)), IntegerQuantities(orders)
  PROVE  TotalAt(orders, b, p) \in Int
<1> DEFINE S == OrdersAt(orders, b, p)
           f == QuantityOf(orders)
<1>1. \A o \in S : f[o] \in Int
  BY DEF IntegerQuantities, QuantityOf, OrdersAt
<1> HIDE DEF S, f
<1>2. SumFunctionOnSet(f, S) \in Int
  BY <1>1, SumType DEF S
<1> QED
  BY <1>2 DEF TotalAt, S, f

LEMMA TotalNatural ==
  ASSUME NEW orders, NEW b, NEW p, IsFiniteSet(OrdersAt(orders, b, p)),
         \A o \in DOMAIN orders : orders[o].quantity \in Nat
  PROVE  /\ TotalAt(orders, b, p) \in Nat
         /\ \A o \in OrdersAt(orders, b, p) : orders[o].quantity <= TotalAt(orders, b, p)
<1> DEFINE S == OrdersAt(orders, b, p)
           f == QuantityOf(orders)
<1>1. \A o \in S : f[o] \in Nat /\ f[o] = orders[o].quantity
  BY DEF QuantityOf, OrdersAt
<1> HIDE DEF S, f
<1>2. SumFunctionOnSet(f, S) \in Nat /\ \A o \in S : f[o] <= SumFunctionOnSet(f, S)
  BY <1>1, SumOfNaturals DEF S
<1> QED
  BY <1>1, <1>2 DEF TotalAt, S, f

LEMMA TotalWithoutOne ==
  ASSUME NEW orders, NEW b, NEW p, IsFiniteSet(OrdersAt(orders, b, p)),
         IntegerQuantities(orders), NEW id \in OrdersAt(orders, b, p)
  PROVE  TotalAt(orders, b, p) = orders[id].quantity + TotalAt(Erase(orders, {id}), b, p)
<1> DEFINE S == OrdersAt(orders, b, p)
           f == QuantityOf(orders)
<1>1. \A o \in S : f[o] \in Int
  BY DEF IntegerQuantities, QuantityOf, OrdersAt
<1>2. f[id] = orders[id].quantity
  BY DEF QuantityOf, OrdersAt
<1>3. TotalAt(Erase(orders, {id}), b, p) = SumFunctionOnSet(f, S \ {id})
  BY TotalErased
<1>4. IsFiniteSet(S) /\ id \in S
  OBVIOUS
<1> HIDE DEF S, f
<1>5. SumFunctionOnSet(f, S) = f[id] + SumFunctionOnSet(f, S \ {id})
  BY <1>1, <1>4, SumOfOneAndRest
<1> QED
  BY <1>2, <1>3, <1>5 DEF TotalAt, S, f

\* What an operation on orders elsewhere leaves alone.
LEMMA TotalDependsOn ==
  ASSUME NEW orders, NEW after, NEW b, NEW p, IsFiniteSet(OrdersAt(orders, b, p)),
         OrdersAt(after, b, p) = OrdersAt(orders, b, p),
         \A o \in OrdersAt(orders, b, p) : after[o].quantity = orders[o].quantity
  PROVE  TotalAt(after, b, p) = TotalAt(orders, b, p)
<1> DEFINE S == OrdersAt(orders, b, p)
           f == QuantityOf(orders)
           e == QuantityOf(after)
<1>1. \A o \in S : e[o] = f[o]
  BY DEF QuantityOf, OrdersAt
<1> HIDE DEF S, f, e
<1>2. SumFunctionOnSet(e, S) = SumFunctionOnSet(f, S)
  BY <1>1, SumDependsOn DEF S
<1> QED
  BY <1>2 DEF TotalAt, S, f, e

\* An order that is not in the book yet, or one that leaves it.
LEMMA TotalWithOneMore ==
  ASSUME NEW orders, NEW b, NEW p, IsFiniteSet(OrdersAt(orders, b, p)),
         IntegerQuantities(orders), NEW id, id \notin DOMAIN orders, NEW order, order.quantity \in Int
  PROVE  LET after == Put(orders, id, order)
         IN  /\ IsFiniteSet(OrdersAt(after, b, p))
             /\ IntegerQuantities(after)
             /\ order.is_buy = b /\ order.price = p =>
                  TotalAt(after, b, p) = TotalAt(orders, b, p) + order.quantity
             /\ ~(order.is_buy = b /\ order.price = p) =>
                  TotalAt(after, b, p) = TotalAt(orders, b, p)
<1> DEFINE after == Put(orders, id, order)
<1>1. /\ DOMAIN after = DOMAIN orders \cup {id} /\ after[id] = order
      /\ \A o \in DOMAIN orders : after[o] = orders[o]
  BY DEF Put
<1>2. IntegerQuantities(after)
  BY <1>1 DEF IntegerQuantities
<1>3. CASE order.is_buy = b /\ order.price = p
  <2>1. OrdersAt(after, b, p) = OrdersAt(orders, b, p) \cup {id}
    BY <1>1, <1>3 DEF OrdersAt
  <2>2. IsFiniteSet(OrdersAt(after, b, p))
    BY <2>1, FS_AddElement
  <2> HIDE DEF after
  <2>3. TotalAt(after, b, p) = order.quantity + TotalAt(Erase(after, {id}), b, p)
    <3>1. id \in OrdersAt(after, b, p)
      BY <2>1
    <3> QED
      BY <1>1, <1>2, <2>2, <3>1, TotalWithoutOne
  <2> DEFINE rest == Erase(after, {id})
  <2>4. DOMAIN rest = DOMAIN orders /\ \A o \in DOMAIN orders : rest[o] = orders[o]
    BY <1>1 DEF Erase
  <2> HIDE DEF rest
  <2>5. OrdersAt(rest, b, p) = OrdersAt(orders, b, p)
    BY <2>4 DEF OrdersAt
  <2>6. \A o \in OrdersAt(orders, b, p) : rest[o].quantity = orders[o].quantity
    BY <2>4 DEF OrdersAt
  <2>7. TotalAt(rest, b, p) = TotalAt(orders, b, p)
    BY <2>5, <2>6, TotalDependsOn
  <2>8. TotalAt(orders, b, p) \in Int
    BY TotalType
  <2> QED
    BY <1>2, <1>3, <2>2, <2>3, <2>7, <2>8 DEF rest, after
<1>4. CASE ~(order.is_buy = b /\ order.price = p)
  <2> HIDE DEF after
  <2>1. OrdersAt(after, b, p) = OrdersAt(orders, b, p)
    BY <1>1, <1>4 DEF OrdersAt
  <2>2. \A o \in OrdersAt(orders, b, p) : after[o].quantity = orders[o].quantity
    BY <1>1 DEF OrdersAt
  <2>3. TotalAt(after, b, p) = TotalAt(orders, b, p)
    BY <2>1, <2>2, TotalDependsOn
  <2> QED
    BY <1>2, <1>4, <2>1, <2>3 DEF after
<1> QED
  BY <1>3, <1>4

LEMMA TotalWithOneLess ==
  ASSUME NEW orders, NEW b, NEW p, IsFiniteSet(OrdersAt(orders, b, p)),
         IntegerQuantities(orders), NEW id \in DOMAIN orders
  PROVE  LET after == Erase(orders, {id})
         IN  /\ IsFiniteSet(OrdersAt(after, b, p))
             /\ IntegerQuantities(after)
             /\ orders[id].is_buy = b /\ orders[id].price = p =>
                  TotalAt(after, b, p) = TotalAt(orders, b, p) - orders[id].quantity
             /\ ~(orders[id].is_buy = b /\ orders[id].price = p) =>
                  TotalAt(after, b, p) = TotalAt(orders, b, p)
<1> DEFINE after == Erase(orders, {id})
<1>1. DOMAIN after = DOMAIN orders \ {id} /\ \A o \in DOMAIN after : after[o] = orders[o]
  BY DEF Erase
<1>2. IntegerQuantities(after)
  BY <1>1 DEF IntegerQuantities
<1>3. OrdersAt(after, b, p) = OrdersAt(orders, b, p) \ {id}
  BY <1>1 DEF OrdersAt
<1>4. IsFiniteSet(OrdersAt(after, b, p))
  BY <1>3, FS_Difference
<1>5. CASE orders[id].is_buy = b /\ orders[id].price = p
  <2>1. TotalAt(orders, b, p) = orders[id].quantity + TotalAt(after, b, p)
    BY <1>5, TotalWithoutOne DEF OrdersAt
  <2>2. TotalAt(after, b, p) \in Int /\ orders[id].quantity \in Int
    BY <1>2, <1>4, TotalType DEF IntegerQuantities
  <2> HIDE DEF after
  <2>3. TotalAt(after, b, p) = TotalAt(orders, b, p) - orders[id].quantity
    BY <2>1, <2>2
  <2> QED
    BY <1>2, <1>4, <1>5, <2>3 DEF after
<1>6. CASE ~(orders[id].is_buy = b /\ orders[id].price = p)
  <2> HIDE DEF after
  <2>1. OrdersAt(after, b, p) = OrdersAt(orders, b, p)
    BY <1>3, <1>6 DEF OrdersAt
  <2>2. \A o \in OrdersAt(orders, b, p) : after[o].quantity = orders[o].quantity
    BY <1>1, <2>1 DEF OrdersAt
  <2>3. TotalAt(after, b, p) = TotalAt(orders, b, p)
    BY <2>1, <2>2, TotalDependsOn
  <2> QED
    BY <1>2, <1>4, <1>6, <2>3 DEF after
<1> QED
  BY <1>5, <1>6

LEMMA AddToLevelTotals ==
  ASSUME NEW levels, IsSide(levels), NEW b, NEW orders, SideIndexed(levels, b, orders),
         IntegerQuantities(orders), NEW but, Totalled(levels, b, orders, but),
         NEW id, id \notin DOMAIN orders, NEW order, order.is_buy = b, order.quantity \in Int
  PROVE  Totalled(AddToLevel(levels, id, order), b, Put(orders, id, order), but)
<1> DEFINE after == Put(orders, id, order)
           px == order.price
           added == AddToLevel(levels, id, order)
<1>1. \A p : /\ IsFiniteSet(OrdersAt(orders, b, p))
             /\ p \notin DOMAIN levels => OrdersAt(orders, b, p) = {}
             /\ TotalAt(orders, b, p) \in Int
  BY OrdersAtFinite, TotalType
<1>2. TotalAt(after, b, px) = TotalAt(orders, b, px) + order.quantity
  BY <1>1, TotalWithOneMore
<1>3. \A p : p # px => TotalAt(after, b, p) = TotalAt(orders, b, p)
  BY <1>1, TotalWithOneMore
<1> HIDE DEF after
<1>4. <<b, px>> \in but \/ LevelAt(levels, px).total_quantity = ToQuantity(TotalAt(orders, b, px))
  <2>1. CASE px \in DOMAIN levels
    BY <2>1 DEF LevelAt, Totalled
  <2>2. CASE px \notin DOMAIN levels
    <3>1. OrdersAt(orders, b, px) = {}
      BY <1>1, <2>2
    <3>2. TotalAt(orders, b, px) = 0
      BY <3>1, SumOfNone DEF TotalAt
    <3>3. ToQuantity(0) = 0
      BY ToQuantityFits, MaxQuantityAssumption
    <3> QED
      BY <2>2, <3>2, <3>3 DEF LevelAt
  <2> QED
    BY <2>1, <2>2
<1>5. /\ DOMAIN added = DOMAIN levels \cup {px}
      /\ added[px].total_quantity = ToQuantity(LevelAt(levels, px).total_quantity + order.quantity)
      /\ \A p \in DOMAIN levels : p # px => added[p] = levels[p]
  BY DEF AddToLevel, Put
<1>6. ToQuantity(ToQuantity(TotalAt(orders, b, px)) + order.quantity) = ToQuantity(TotalAt(after, b, px))
  <2> DEFINE total == TotalAt(orders, b, px)
             amount == order.quantity
  <2>1. total \in Int /\ amount \in Int
    BY <1>1
  <2>2. TotalAt(after, b, px) = total + amount
    BY <1>2
  <2> HIDE DEF total, amount
  <2>3. ToQuantity(ToQuantity(total) + amount) = ToQuantity(TotalAt(after, b, px))
    BY <2>1, <2>2, ToQuantityTwice
  <2> QED
    BY <2>3 DEF total, amount
<1>7. <<b, px>> \in but \/ added[px].total_quantity = ToQuantity(TotalAt(after, b, px))
  BY <1>4, <1>5, <1>6
<1> HIDE DEF added
<1>8. Totalled(added, b, after, but)
  BY <1>3, <1>5, <1>7 DEF Totalled
<1> QED
  BY <1>8 DEF added, after

LEMMA RemoveFromLevelTotals ==
  ASSUME NEW levels, IsSide(levels), NEW b, NEW orders, SideIndexed(levels, b, orders),
         IntegerQuantities(orders), NEW but, Totalled(levels, b, orders, but),
         NEW id \in DOMAIN orders, orders[id].is_buy = b
  PROVE  Totalled(RemoveFromLevel(levels, id, orders[id]), b, Erase(orders, {id}), but)
<1> DEFINE after == Erase(orders, {id})
           px == orders[id].price
           removed == RemoveFromLevel(levels, id, orders[id])
<1>1. \A p : IsFiniteSet(OrdersAt(orders, b, p)) /\ TotalAt(orders, b, p) \in Int
  BY OrdersAtFinite, TotalType
<1>2. TotalAt(after, b, px) = TotalAt(orders, b, px) - orders[id].quantity
  BY <1>1, TotalWithOneLess
<1>3. \A p : p # px => TotalAt(after, b, p) = TotalAt(orders, b, p)
  BY <1>1, TotalWithOneLess
<1>4. orders[id].quantity \in Int
  BY DEF IntegerQuantities
<1> HIDE DEF after
<1>5. /\ px \in DOMAIN levels
      /\ <<b, px>> \in but \/ levels[px].total_quantity = ToQuantity(TotalAt(orders, b, px))
  BY DEF SideIndexed, Totalled
<1>6. /\ \A p \in DOMAIN removed : p # px => p \in DOMAIN levels /\ removed[p] = levels[p]
      /\ px \in DOMAIN removed =>
           removed[px].total_quantity = ToQuantity(levels[px].total_quantity - orders[id].quantity)
  <2>1. Contains(levels[px].orders, id)
    BY DEF SideIndexed
  <2> DEFINE level == [orders |-> RemoveFirst(levels[px].orders, id),
                       total_quantity |-> ToQuantity(levels[px].total_quantity - orders[id].quantity)]
  <2>2. removed = StoreOrErase(levels, px, level)
    BY <1>5, <2>1 DEF RemoveFromLevel
  <2>3. level.total_quantity = ToQuantity(levels[px].total_quantity - orders[id].quantity)
    OBVIOUS
  <2> HIDE DEF level, removed
  <2> QED
    BY <2>2, <2>3 DEF StoreOrErase, Erase, Put
<1>7. ToQuantity(ToQuantity(TotalAt(orders, b, px)) - orders[id].quantity) = ToQuantity(TotalAt(after, b, px))
  <2> DEFINE total == TotalAt(orders, b, px)
             amount == orders[id].quantity
  <2>1. total \in Int /\ amount \in Int
    BY <1>1, <1>4
  <2>2. TotalAt(after, b, px) = total - amount
    BY <1>2
  <2> HIDE DEF total, amount
  <2>3. ToQuantity(ToQuantity(total) - amount) = ToQuantity(TotalAt(after, b, px))
    BY <2>1, <2>2, ToQuantityTwice
  <2> QED
    BY <2>3 DEF total, amount
<1>8. px \in DOMAIN removed =>
        <<b, px>> \in but \/ removed[px].total_quantity = ToQuantity(TotalAt(after, b, px))
  BY <1>5, <1>6, <1>7
<1> HIDE DEF removed
<1>9. Totalled(removed, b, after, but)
  BY <1>3, <1>6, <1>8 DEF Totalled
<1> QED
  BY <1>9 DEF removed, after

(***************************************************************************)
(* One trade, seen by one side: the front order of a level loses qty, and   *)
(* it is the only one of the side that can be filled.                       *)
(***************************************************************************)
LEMMA FillFrontTotals ==
  ASSUME NEW levels, IsSide(levels), NEW b, NEW orders, SideIndexed(levels, b, orders),
         IntegerQuantities(orders), NEW but, Totalled(levels, b, orders, but),
         NEW px \in DOMAIN levels, NEW front, front = Head(levels[px].orders),
         NEW qty \in Int,
         NEW reduced, DOMAIN reduced = DOMAIN orders, IntegerQuantities(reduced),
         \A o \in DOMAIN orders : /\ reduced[o].is_buy = orders[o].is_buy
                                  /\ reduced[o].price = orders[o].price,
         reduced[front].quantity = ToQuantity(orders[front].quantity - qty),
         \A o \in DOMAIN orders : orders[o].is_buy = b /\ o # front =>
           reduced[o].quantity = orders[o].quantity,
         NEW filled, \A o \in filled : o \in DOMAIN orders => (orders[o].is_buy = b => o = front),
         front \in filled => reduced[front].quantity = 0,
         NEW wider, but \subseteq wider, px \in Covers(levels, qty) \/ <<b, px>> \in wider
  PROVE  Totalled(FillFront(levels, px, qty, front \in filled), b, Erase(reduced, filled), wider)
<1> DEFINE after == Erase(reduced, filled)
           level == FillFront(levels, px, qty, front \in filled)
<1>1. \A p : IsFiniteSet(OrdersAt(orders, b, p)) /\ TotalAt(orders, b, p) \in Int
  BY OrdersAtFinite, TotalType
<1>2. front \in DOMAIN orders /\ orders[front].is_buy = b /\ orders[front].price = px
  BY FrontOfLevel
<1>3. \A p : OrdersAt(reduced, b, p) = OrdersAt(orders, b, p)
  BY DEF OrdersAt
<1>4. ASSUME NEW p, p # px
      PROVE  TotalAt(after, b, p) = TotalAt(orders, b, p)
  <2>1. OrdersAt(after, b, p) = OrdersAt(orders, b, p)
    BY <1>2, <1>4 DEF OrdersAt, Erase
  <2>2. \A o \in OrdersAt(orders, b, p) : after[o].quantity = orders[o].quantity
    BY <1>2, <1>4 DEF OrdersAt, Erase
  <2> HIDE DEF after
  <2> QED
    BY <1>1, <2>1, <2>2, TotalDependsOn
<1>5. /\ TotalAt(reduced, b, px) =
           TotalAt(orders, b, px) - orders[front].quantity + ToQuantity(orders[front].quantity - qty)
      /\ orders[front].quantity \in Int
  <2> DEFINE S == OrdersAt(orders, b, px)
             f == QuantityOf(orders)
             e == QuantityOf(reduced)
  <2>1. front \in S /\ f[front] = orders[front].quantity /\ e[front] = reduced[front].quantity
    BY <1>2 DEF OrdersAt, QuantityOf
  <2>2. \A o \in S : f[o] \in Int /\ e[o] \in Int
    BY DEF OrdersAt, QuantityOf, IntegerQuantities
  <2>3. \A o \in S \ {front} : f[o] = e[o]
    BY DEF OrdersAt, QuantityOf
  <2>4. TotalAt(orders, b, px) = SumFunctionOnSet(f, S) /\ TotalAt(reduced, b, px) = SumFunctionOnSet(e, S)
    BY <1>3 DEF TotalAt
  <2>5. IsFiniteSet(S)
    BY <1>1
  <2>6. orders[front].quantity \in Int
    BY <1>2 DEF IntegerQuantities
  <2> HIDE DEF S, f, e
  <2>7. SumFunctionOnSet(e, S) = SumFunctionOnSet(f, S) - f[front] + e[front]
    BY <2>1, <2>2, <2>3, <2>5, SumAfterChange
  <2> QED
    BY <1>1, <2>1, <2>4, <2>6, <2>7
<1>6. IsFiniteSet(OrdersAt(reduced, b, px)) /\ TotalAt(reduced, b, px) \in Int
  BY <1>1, <1>3, TotalType
<1>7. TotalAt(after, b, px) = TotalAt(reduced, b, px)
  <2>1. CASE front \in filled
    <3>1. OrdersAt(reduced, b, px) \ filled = OrdersAt(reduced, b, px) \ {front}
      BY <1>2, <2>1 DEF OrdersAt
    <3>2. TotalAt(after, b, px) = TotalAt(Erase(reduced, {front}), b, px)
      <4>1. TotalAt(after, b, px) =
              SumFunctionOnSet(QuantityOf(reduced), OrdersAt(reduced, b, px) \ filled)
        BY <1>6, TotalErased
      <4>2. TotalAt(Erase(reduced, {front}), b, px) =
              SumFunctionOnSet(QuantityOf(reduced), OrdersAt(reduced, b, px) \ {front})
        BY <1>6, TotalErased
      <4> QED
        BY <3>1, <4>1, <4>2
    <3>3. front \in DOMAIN reduced /\ reduced[front].is_buy = b /\ reduced[front].price = px
      BY <1>2
    <3>4. TotalAt(Erase(reduced, {front}), b, px) = TotalAt(reduced, b, px) - reduced[front].quantity
      BY <1>6, <3>3, TotalWithOneLess
    <3> QED
      BY <1>6, <2>1, <3>2, <3>4
  <2>2. CASE front \notin filled
    <3>1. OrdersAt(after, b, px) = OrdersAt(reduced, b, px)
      BY <2>2 DEF OrdersAt, Erase
    <3>2. \A o \in OrdersAt(reduced, b, px) : after[o].quantity = reduced[o].quantity
      BY <2>2 DEF OrdersAt, Erase
    <3> HIDE DEF after
    <3> QED
      BY <1>6, <3>1, <3>2, TotalDependsOn
  <2> QED
    BY <2>1, <2>2
<1> HIDE DEF after
<1>8. /\ \A p \in DOMAIN level : p # px => p \in DOMAIN levels /\ level[p] = levels[p]
      /\ px \in DOMAIN level /\ px \in Covers(levels, qty) =>
           level[px].total_quantity = ToQuantity(levels[px].total_quantity - qty)
  <2> DEFINE new == [orders |-> IF front \in filled THEN Tail(levels[px].orders) ELSE levels[px].orders,
                     total_quantity |-> IF levels[px].total_quantity >= qty
                                        THEN ToQuantity(levels[px].total_quantity - qty) ELSE 0]
  <2>1. level = StoreOrErase(levels, px, new)
    BY DEF FillFront
  <2>2. px \in Covers(levels, qty) => new.total_quantity = ToQuantity(levels[px].total_quantity - qty)
    BY DEF Covers
  <2> HIDE DEF new, level
  <2> QED
    BY <2>1, <2>2 DEF StoreOrErase, Erase, Put
<1>9. ToQuantity(TotalAt(after, b, px)) = ToQuantity(ToQuantity(TotalAt(orders, b, px)) - qty)
  <2> DEFINE T == TotalAt(orders, b, px)
             a == orders[front].quantity
  <2>1. T \in Int /\ a \in Int /\ TotalAt(after, b, px) = T - a + ToQuantity(a - qty)
    BY <1>1, <1>5, <1>7
  <2> HIDE DEF T, a
  <2>2. ToQuantity(a - qty) \in Int
    BY <2>1, ToQuantityType, MaxQuantityAssumption DEF Quantity
  <2>3. TotalAt(after, b, px) = ToQuantity(a - qty) + (T - a)
    BY <2>1, <2>2
  <2>4. ToQuantity(ToQuantity(a - qty) + (T - a)) = ToQuantity((a - qty) + (T - a))
    BY <2>1, ToQuantityTwice
  <2>5. (a - qty) + (T - a) = T - qty
    BY <2>1
  <2> QED
    BY <2>1, <2>3, <2>4, <2>5, ToQuantityTwice DEF T
<1>10. px \in DOMAIN level =>
         <<b, px>> \in wider \/ level[px].total_quantity = ToQuantity(TotalAt(after, b, px))
  <2>1. <<b, px>> \in but \/ levels[px].total_quantity = ToQuantity(TotalAt(orders, b, px))
    BY DEF Totalled
  <2> HIDE DEF level
  <2> QED
    BY <1>8, <1>9, <2>1
<1> HIDE DEF level
<1>11. Totalled(level, b, after, wider)
  BY <1>4, <1>8, <1>10 DEF Totalled
<1> QED
  BY <1>11 DEF level, after

\* The two sides cache the totals of their levels, but for those that were clamped.
Totals ==
  Totalled(bid_levels_, TRUE, order_map_, clamped) /\ Totalled(ask_levels_, FALSE, order_map_, clamped)

LEMMA OrdersSides ==
  ASSUME Inv
  PROVE  /\ IsSide(bid_levels_) /\ SideIndexed(bid_levels_, TRUE, order_map_)
         /\ IsSide(ask_levels_) /\ SideIndexed(ask_levels_, FALSE, order_map_)
         /\ IntegerQuantities(order_map_)
         /\ order_map_ = [o \in DOMAIN order_map_ |-> order_map_[o]]
         /\ \A o \in DOMAIN order_map_ : /\ order_map_[o] \in Order
                                         /\ order_map_[o].quantity \in Int
                                         /\ order_map_[o].is_buy \in BOOLEAN
                                         /\ order_map_[o].price \in Prices
         /\ \A p : IsFiniteSet(OrdersAt(order_map_, TRUE, p)) /\ IsFiniteSet(OrdersAt(order_map_, FALSE, p))
<1>1. /\ IsSide(bid_levels_) /\ SideIndexed(bid_levels_, TRUE, order_map_)
      /\ IsSide(ask_levels_) /\ SideIndexed(ask_levels_, FALSE, order_map_)
  BY DEF Inv, TypeOK, BookIndexed
<1>2. order_map_ \in [DOMAIN order_map_ -> Order]
  BY DEF Inv, TypeOK
<1>3. \A o \in DOMAIN order_map_ : /\ order_map_[o] \in Order
                                   /\ order_map_[o].quantity \in Int
                                   /\ order_map_[o].is_buy \in BOOLEAN
                                   /\ order_map_[o].price \in Prices
  BY <1>2, MaxQuantityAssumption DEF Order, Quantity
<1>4. IntegerQuantities(order_map_)
  BY <1>3 DEF IntegerQuantities
<1>5. \A p : IsFiniteSet(OrdersAt(order_map_, TRUE, p)) /\ IsFiniteSet(OrdersAt(order_map_, FALSE, p))
  BY <1>1, OrdersAtFinite
<1> QED
  BY <1>1, <1>2, <1>3, <1>4, <1>5

\* What a level caches of its queue, by way of the orders at its price.
LEMMA QueueTotals ==
  ASSUME Inv
  PROVE  /\ \A p \in DOMAIN bid_levels_ : SumOf(bid_levels_[p].orders) = TotalAt(order_map_, TRUE, p)
         /\ \A p \in DOMAIN ask_levels_ : SumOf(ask_levels_[p].orders) = TotalAt(order_map_, FALSE, p)
<1>1. ASSUME NEW levels, IsSide(levels), NEW b, SideIndexed(levels, b, order_map_),
             NEW p \in DOMAIN levels
      PROVE  SumOf(levels[p].orders) = TotalAt(order_map_, b, p)
  BY <1>1, OrdersSides, QueueSum DEF SumOf
<1> QED
  BY <1>1, OrdersSides

LEMMA TotalsMean ==
  ASSUME Inv, Totals
  PROVE  TotalsUpToOverflow
BY QueueTotals DEF TotalsUpToOverflow, Totals, Totalled

\* The levels of the side of an order that nothing happens to.
LEMMA OtherSideAdded ==
  ASSUME NEW levels, NEW b, NEW orders, IntegerQuantities(orders), NEW but, Totalled(levels, b, orders, but),
         \A p : IsFiniteSet(OrdersAt(orders, b, p)),
         NEW id, id \notin DOMAIN orders, NEW order, order.is_buy # b, order.quantity \in Int
  PROVE  Totalled(levels, b, Put(orders, id, order), but)
<1>1. ASSUME NEW p
      PROVE  TotalAt(Put(orders, id, order), b, p) = TotalAt(orders, b, p)
  <2>1. IsFiniteSet(OrdersAt(orders, b, p)) /\ ~(order.is_buy = b /\ order.price = p)
    OBVIOUS
  <2> QED
    BY <2>1, TotalWithOneMore
<1> QED
  BY <1>1 DEF Totalled

LEMMA OtherSideErased ==
  ASSUME NEW levels, NEW b, NEW orders, IntegerQuantities(orders), NEW but, Totalled(levels, b, orders, but),
         \A p : IsFiniteSet(OrdersAt(orders, b, p)),
         NEW id \in DOMAIN orders, orders[id].is_buy # b
  PROVE  Totalled(levels, b, Erase(orders, {id}), but)
<1>1. ASSUME NEW p
      PROVE  TotalAt(Erase(orders, {id}), b, p) = TotalAt(orders, b, p)
  <2>1. IsFiniteSet(OrdersAt(orders, b, p)) /\ ~(orders[id].is_buy = b /\ orders[id].price = p)
    OBVIOUS
  <2> QED
    BY <2>1, TotalWithOneLess
<1> QED
  BY <1>1 DEF Totalled

LEMMA AddOrderTotals ==
  ASSUME Inv, Totals, NEW id \in Ids,
         NEW is_buy \in BOOLEAN, NEW qty \in AddQuantities, NEW px \in Prices,
         addOrder(id, is_buy, qty, px)
  PROVE  Totals'
<1> DEFINE order == [is_buy |-> is_buy, quantity |-> qty, price |-> px]
<1>1. /\ id \notin DOMAIN order_map_
      /\ order_map_' = Put(order_map_, id, order)
      /\ bid_levels_' = IF is_buy THEN AddToLevel(bid_levels_, id, order) ELSE bid_levels_
      /\ ask_levels_' = IF is_buy THEN ask_levels_ ELSE AddToLevel(ask_levels_, id, order)
      /\ clamped' = clamped
  BY DEF addOrder, Store, Inv, ArrivedBefore
<1>2. order.is_buy = is_buy /\ order.price = px /\ order.quantity = qty /\ qty \in Int
  BY QuantitiesAssumption, MaxQuantityAssumption DEF Quantity
<1> HIDE DEF order
<1>4. CASE is_buy = TRUE
  <2>1. Totalled(bid_levels_', TRUE, order_map_', clamped')
    BY <1>1, <1>2, <1>4, OrdersSides, AddToLevelTotals DEF Totals
  <2>2. Totalled(ask_levels_', FALSE, order_map_', clamped')
    BY <1>1, <1>2, <1>4, OrdersSides, OtherSideAdded DEF Totals
  <2> QED
    BY <2>1, <2>2 DEF Totals
<1>5. CASE is_buy = FALSE
  <2>1. Totalled(ask_levels_', FALSE, order_map_', clamped')
    BY <1>1, <1>2, <1>5, OrdersSides, AddToLevelTotals DEF Totals
  <2>2. Totalled(bid_levels_', TRUE, order_map_', clamped')
    BY <1>1, <1>2, <1>5, OrdersSides, OtherSideAdded DEF Totals
  <2> QED
    BY <2>1, <2>2 DEF Totals
<1> QED
  BY <1>4, <1>5

\* What erasing an order from its side does, for cancelOrder and modifyOrder.
LEMMA RemovedTotals ==
  ASSUME Inv, Totals, NEW id \in DOMAIN order_map_
  PROVE  LET old  == order_map_[id]
             rest == Erase(order_map_, {id})
         IN  /\ old.is_buy => /\ Totalled(RemoveFromLevel(bid_levels_, id, old), TRUE, rest, clamped)
                              /\ Totalled(ask_levels_, FALSE, rest, clamped)
             /\ ~old.is_buy => /\ Totalled(bid_levels_, TRUE, rest, clamped)
                               /\ Totalled(RemoveFromLevel(ask_levels_, id, old), FALSE, rest, clamped)
<1>2. CASE order_map_[id].is_buy = TRUE
  <2>1. Totalled(RemoveFromLevel(bid_levels_, id, order_map_[id]), TRUE, Erase(order_map_, {id}), clamped)
    BY <1>2, OrdersSides, RemoveFromLevelTotals DEF Totals
  <2>2. Totalled(ask_levels_, FALSE, Erase(order_map_, {id}), clamped)
    BY <1>2, OrdersSides, OtherSideErased DEF Totals
  <2> QED
    BY <1>2, <2>1, <2>2
<1>3. CASE order_map_[id].is_buy = FALSE
  <2>1. Totalled(RemoveFromLevel(ask_levels_, id, order_map_[id]), FALSE, Erase(order_map_, {id}), clamped)
    BY <1>3, OrdersSides, RemoveFromLevelTotals DEF Totals
  <2>2. Totalled(bid_levels_, TRUE, Erase(order_map_, {id}), clamped)
    BY <1>3, OrdersSides, OtherSideErased DEF Totals
  <2> QED
    BY <1>3, <2>1, <2>2
<1> QED
  BY <1>2, <1>3, OrdersSides

LEMMA CancelOrderTotals ==
  ASSUME Inv, Totals, NEW id \in Ids, cancelOrder(id)
  PROVE  Totals'
<1>1. /\ id \in DOMAIN order_map_
      /\ order_map_' = Erase(order_map_, {id})
      /\ bid_levels_' = IF order_map_[id].is_buy THEN RemoveFromLevel(bid_levels_, id, order_map_[id])
                        ELSE bid_levels_
      /\ ask_levels_' = IF order_map_[id].is_buy THEN ask_levels_
                        ELSE RemoveFromLevel(ask_levels_, id, order_map_[id])
      /\ clamped' = clamped
  BY DEF cancelOrder, history
<1>2. order_map_[id].is_buy \in BOOLEAN
  BY <1>1, OrdersSides
<1> QED
  BY <1>1, <1>2, RemovedTotals DEF Totals

LEMMA ModifyOrderTotals ==
  ASSUME Inv, Totals, NEW id \in Ids, NEW new_qty \in ModifyQuantities,
         NEW new_px \in Prices, modifyOrder(id, new_qty, new_px)
  PROVE  Totals'
<1> DEFINE old == order_map_[id]
           new == [order_map_[id] EXCEPT !.quantity = new_qty, !.price = new_px]
           rest == Erase(order_map_, {id})
<1>1. /\ id \in DOMAIN order_map_
      /\ order_map_' = Put(order_map_, id, new)
      /\ bid_levels_' = IF old.is_buy THEN AddToLevel(RemoveFromLevel(bid_levels_, id, old), id, new)
                        ELSE bid_levels_
      /\ ask_levels_' = IF old.is_buy THEN ask_levels_
                        ELSE AddToLevel(RemoveFromLevel(ask_levels_, id, old), id, new)
      /\ clamped' = clamped
  BY DEF modifyOrder, Store
<1>2. old \in Order /\ old.is_buy \in BOOLEAN
  BY <1>1, OrdersSides
<1>3. new.is_buy = old.is_buy /\ new.price = new_px /\ new.quantity = new_qty /\ new_qty \in Int
  BY <1>2, QuantitiesAssumption, MaxQuantityAssumption DEF Quantity, Order
<1>4. Put(order_map_, id, new) = Put(rest, id, new) /\ id \notin DOMAIN rest
  BY <1>1 DEF Put, Erase
<1>5. /\ IntegerQuantities(rest)
      /\ \A p : IsFiniteSet(OrdersAt(rest, TRUE, p)) /\ IsFiniteSet(OrdersAt(rest, FALSE, p))
  BY <1>1, OrdersSides, TotalWithOneLess
<1>7. /\ old.is_buy => /\ Totalled(RemoveFromLevel(bid_levels_, id, old), TRUE, rest, clamped)
                       /\ Totalled(ask_levels_, FALSE, rest, clamped)
      /\ ~old.is_buy => /\ Totalled(bid_levels_, TRUE, rest, clamped)
                        /\ Totalled(RemoveFromLevel(ask_levels_, id, old), FALSE, rest, clamped)
  BY <1>1, RemovedTotals
<1>8. DOMAIN arrived = DOMAIN order_map_ /\ TimeOrdered(bid_levels_, arrived) /\ TimeOrdered(ask_levels_, arrived)
  BY DEF Inv, TypeOK, TimePriority
<1> HIDE DEF new
<1>9. CASE old.is_buy = TRUE
  <2> DEFINE removed == RemoveFromLevel(bid_levels_, id, old)
  <2>1. IsSide(removed) /\ SideIndexed(removed, TRUE, rest)
    BY <1>1, <1>2, <1>8, <1>9, OrdersSides, RemoveFromLevelPreserves
  <2>2. Totalled(removed, TRUE, rest, clamped) /\ Totalled(ask_levels_, FALSE, rest, clamped)
    BY <1>7, <1>9
  <2> HIDE DEF removed, rest
  <2>3. Totalled(AddToLevel(removed, id, new), TRUE, Put(rest, id, new), clamped)
    BY <1>3, <1>4, <1>5, <1>9, <2>1, <2>2, AddToLevelTotals
  <2>4. Totalled(ask_levels_, FALSE, Put(rest, id, new), clamped)
    BY <1>3, <1>4, <1>5, <1>9, <2>2, OtherSideAdded
  <2> QED
    BY <1>1, <1>4, <1>9, <2>3, <2>4 DEF Totals, removed
<1>10. CASE old.is_buy = FALSE
  <2> DEFINE removed == RemoveFromLevel(ask_levels_, id, old)
  <2>1. IsSide(removed) /\ SideIndexed(removed, FALSE, rest)
    BY <1>1, <1>2, <1>8, <1>10, OrdersSides, RemoveFromLevelPreserves
  <2>2. Totalled(removed, FALSE, rest, clamped) /\ Totalled(bid_levels_, TRUE, rest, clamped)
    BY <1>7, <1>10
  <2> HIDE DEF removed, rest
  <2>3. Totalled(AddToLevel(removed, id, new), FALSE, Put(rest, id, new), clamped)
    BY <1>3, <1>4, <1>5, <1>10, <2>1, <2>2, AddToLevelTotals
  <2>4. Totalled(bid_levels_, TRUE, Put(rest, id, new), clamped)
    BY <1>3, <1>4, <1>5, <1>10, <2>2, OtherSideAdded
  <2> QED
    BY <1>1, <1>4, <1>10, <2>3, <2>4 DEF Totals, removed
<1> QED
  BY <1>2, <1>9, <1>10

LEMMA MatchOrdersTotals ==
  ASSUME Inv, Totals, MatchOrders
  PROVE  Totals'
<1> DEFINE filled == Filled(Left)
<1>1. /\ Matchable
      /\ bid_levels_' = FillFront(bid_levels_, BestBid(bid_levels_), MatchQuantity, BestBuy \in filled)
      /\ ask_levels_' = FillFront(ask_levels_, BestAsk(ask_levels_), MatchQuantity, BestSell \in filled)
      /\ order_map_' = Erase(AfterTrade, filled)
      /\ clamped \subseteq clamped'
      /\ \/ BestBid(bid_levels_) \in Covers(bid_levels_, MatchQuantity)
         \/ <<TRUE, BestBid(bid_levels_)>> \in clamped'
      /\ \/ BestAsk(ask_levels_) \in Covers(ask_levels_, MatchQuantity)
         \/ <<FALSE, BestAsk(ask_levels_)>> \in clamped'
  BY MatchOrdersStep, MatchOrdersClamps
<1>2. /\ BestBid(bid_levels_) \in DOMAIN bid_levels_ /\ BestBid(bid_levels_) \in Prices
      /\ BestAsk(ask_levels_) \in DOMAIN ask_levels_ /\ BestAsk(ask_levels_) \in Prices
      /\ BestBuy \in DOMAIN order_map_ /\ order_map_[BestBuy].is_buy = TRUE
      /\ BestSell \in DOMAIN order_map_ /\ order_map_[BestSell].is_buy = FALSE
  BY <1>1, BestOrders, OrdersSides DEF IsSide
<1>3. \A o \in DOMAIN order_map_ : order_map_[o] \in Order /\ order_map_[o].quantity \in Int
  BY OrdersSides
<1>4. MatchQuantity \in Int
  BY <1>2, <1>3 DEF MatchQuantity
<1>5. \A o \in {BestBuy, BestSell} :
        Left[o] = ToQuantity(order_map_[o].quantity - MatchQuantity) /\ Left[o] \in Int
  BY <1>2, <1>3, <1>4, ToQuantityType, MaxQuantityAssumption DEF Left, Quantity
<1>6. /\ DOMAIN AfterTrade = DOMAIN order_map_
      /\ \A o \in DOMAIN order_map_ : /\ AfterTrade[o].is_buy = order_map_[o].is_buy
                                      /\ AfterTrade[o].price = order_map_[o].price
  BY <1>1, TradeType DEF AfterTrade
<1>7. \A o \in DOMAIN order_map_ :
        AfterTrade[o].quantity = IF o \in {BestBuy, BestSell} THEN Left[o] ELSE order_map_[o].quantity
  BY <1>3 DEF AfterTrade, Order
<1>8. IntegerQuantities(AfterTrade)
  BY <1>3, <1>5, <1>6, <1>7 DEF IntegerQuantities
<1>9. filled \subseteq {BestBuy, BestSell} /\ \A o \in filled : AfterTrade[o].quantity = 0
  <2>1. filled \subseteq {BestBuy, BestSell} /\ \A o \in filled : Left[o] = 0
    BY DEF Filled, Left
  <2> HIDE DEF filled
  <2> QED
    BY <1>2, <1>7, <2>1
<1> HIDE DEF filled
<1>10. Totalled(bid_levels_', TRUE, order_map_', clamped')
  <2>2. \A o \in filled : o \in DOMAIN order_map_ => (order_map_[o].is_buy = TRUE => o = BestBuy)
    BY <1>2, <1>9
  <2>4. /\ AfterTrade[BestBuy].quantity = ToQuantity(order_map_[BestBuy].quantity - MatchQuantity)
        /\ \A o \in DOMAIN order_map_ : order_map_[o].is_buy = TRUE /\ o # BestBuy =>
             AfterTrade[o].quantity = order_map_[o].quantity
    BY <1>2, <1>5, <1>7
  <2>5. BestBuy = Head(bid_levels_[BestBid(bid_levels_)].orders)
    BY DEF BestBuy
  <2>6. BestBuy \in filled => AfterTrade[BestBuy].quantity = 0
    BY <1>9
  <2>7. /\ IsSide(bid_levels_) /\ SideIndexed(bid_levels_, TRUE, order_map_)
        /\ IntegerQuantities(order_map_) /\ Totalled(bid_levels_, TRUE, order_map_, clamped)
    BY OrdersSides DEF Totals
  <2> QED
    BY <1>1, <1>2, <1>4, <1>6, <1>8, <2>2, <2>4, <2>5, <2>6, <2>7, FillFrontTotals
<1>11. Totalled(ask_levels_', FALSE, order_map_', clamped')
  <2>2. \A o \in filled : o \in DOMAIN order_map_ => (order_map_[o].is_buy = FALSE => o = BestSell)
    BY <1>2, <1>9
  <2>4. /\ AfterTrade[BestSell].quantity = ToQuantity(order_map_[BestSell].quantity - MatchQuantity)
        /\ \A o \in DOMAIN order_map_ : order_map_[o].is_buy = FALSE /\ o # BestSell =>
             AfterTrade[o].quantity = order_map_[o].quantity
    BY <1>2, <1>5, <1>7
  <2>5. BestSell = Head(ask_levels_[BestAsk(ask_levels_)].orders)
    BY DEF BestSell
  <2>6. BestSell \in filled => AfterTrade[BestSell].quantity = 0
    BY <1>9
  <2>7. /\ IsSide(ask_levels_) /\ SideIndexed(ask_levels_, FALSE, order_map_)
        /\ IntegerQuantities(order_map_) /\ Totalled(ask_levels_, FALSE, order_map_, clamped)
    BY OrdersSides DEF Totals
  <2> QED
    BY <1>1, <1>2, <1>4, <1>6, <1>8, <2>2, <2>4, <2>5, <2>6, <2>7, FillFrontTotals
<1> QED
  BY <1>10, <1>11 DEF Totals

LEMMA TotalsNext ==
  ASSUME Inv, Totals, [Next]_vars
  PROVE  Totals'
<1>1. CASE \E id \in Ids, is_buy \in BOOLEAN, qty \in AddQuantities, px \in Prices :
             addOrder(id, is_buy, qty, px)
  BY <1>1, AddOrderTotals
<1>2. CASE \E id \in Ids : cancelOrder(id)
  BY <1>2, CancelOrderTotals
<1>3. CASE \E id \in Ids, qty \in ModifyQuantities, px \in Prices : modifyOrder(id, qty, px)
  BY <1>3, ModifyOrderTotals
<1>4. CASE MatchOrders
  BY <1>4, MatchOrdersTotals
<1>5. CASE TriggerMatching \/ MatchingDone \/ UNCHANGED vars
  BY <1>5 DEF TriggerMatching, MatchingDone, vars, history, Totals
<1> QED
  BY <1>1, <1>2, <1>3, <1>4, <1>5 DEF Next

(***************************************************************************)
(* Whatever is added, cancelled, modified and filled, and whatever the      *)
(* quantities, the total a level caches is what the orders of its queue add *)
(* up to, as wide as it is, unless matchPriceTime once clamped it.          *)
(***************************************************************************)
THEOREM TotalsCorrect == Spec => []TotalsUpToOverflow
<1>1. Init => Totals
  BY DEF Init, Totals, Totalled, NoLevels
<1>2. Inv /\ Totals /\ [Next]_vars => Totals'
  BY TotalsNext
<1>3. Inv /\ Totals => TotalsUpToOverflow
  BY TotalsMean
<1> QED
  BY <1>1, <1>2, <1>3, InitInv, NextInv, PTL DEF Spec

-----------------------------------------------------------------------------
(* When nothing overflows *)

\* What the orders at a price add up to fits in a Quantity.
TotalsFit == \A b \in BOOLEAN, p \in Prices : TotalAt(order_map_, b, p) <= MaxQuantity

\* The totals, none of which was clamped, are exact.
ExactTotals == Totals /\ clamped = {}

LEMMA TotalsExact ==
  ASSUME Inv, RestPositive, TotalsFit, ExactTotals
  PROVE  /\ \A p \in DOMAIN bid_levels_ : /\ bid_levels_[p].total_quantity = TotalAt(order_map_, TRUE, p)
                                          /\ \A o \in OrdersAt(order_map_, TRUE, p) :
                                               order_map_[o].quantity <= bid_levels_[p].total_quantity
         /\ \A p \in DOMAIN ask_levels_ : /\ ask_levels_[p].total_quantity = TotalAt(order_map_, FALSE, p)
                                          /\ \A o \in OrdersAt(order_map_, FALSE, p) :
                                               order_map_[o].quantity <= ask_levels_[p].total_quantity
<1>1. \A o \in DOMAIN order_map_ : order_map_[o].quantity \in Nat
  BY OrdersSides DEF RestPositive
<1>2. ASSUME NEW levels, IsSide(levels), NEW b \in BOOLEAN, Totalled(levels, b, order_map_, clamped),
             \A p : IsFiniteSet(OrdersAt(order_map_, b, p)), NEW p \in DOMAIN levels
      PROVE  /\ levels[p].total_quantity = TotalAt(order_map_, b, p)
             /\ \A o \in OrdersAt(order_map_, b, p) :
                  order_map_[o].quantity <= levels[p].total_quantity
  <2>1. TotalAt(order_map_, b, p) <= MaxQuantity
    BY <1>2 DEF TotalsFit, IsSide
  <2>2. /\ TotalAt(order_map_, b, p) \in Nat
        /\ \A o \in OrdersAt(order_map_, b, p) : order_map_[o].quantity <= TotalAt(order_map_, b, p)
    BY <1>1, <1>2, TotalNatural
  <2>3. ToQuantity(TotalAt(order_map_, b, p)) = TotalAt(order_map_, b, p)
    BY <2>1, <2>2, ToQuantityFits, MaxQuantityAssumption
  <2>4. levels[p].total_quantity = ToQuantity(TotalAt(order_map_, b, p))
    BY <1>2 DEF Totalled, ExactTotals
  <2> QED BY <2>2, <2>3, <2>4
<1> QED BY <1>2, OrdersSides DEF ExactTotals, Totals

LEMMA NothingClamped ==
  ASSUME Inv, RestPositive, TotalsFit, ExactTotals, MatchOrders
  PROVE  clamped' = {}
<1>1. /\ Matchable
      /\ BestBid(bid_levels_) \in DOMAIN bid_levels_ /\ BestAsk(ask_levels_) \in DOMAIN ask_levels_
      /\ BestBuy \in OrdersAt(order_map_, TRUE, BestBid(bid_levels_))
      /\ BestSell \in OrdersAt(order_map_, FALSE, BestAsk(ask_levels_))
  BY MatchOrdersStep, BestOrders DEF OrdersAt
<1>2. BestBuy \in DOMAIN order_map_ /\ BestSell \in DOMAIN order_map_
  BY <1>1 DEF OrdersAt
<1>3. order_map_[BestBuy].quantity \in Int /\ order_map_[BestSell].quantity \in Int
  BY <1>2, OrdersSides
<1>4. /\ MatchQuantity \in Int
      /\ MatchQuantity <= order_map_[BestBuy].quantity
      /\ MatchQuantity <= order_map_[BestSell].quantity
  BY <1>3 DEF MatchQuantity
<1>5. /\ order_map_[BestBuy].quantity <= bid_levels_[BestBid(bid_levels_)].total_quantity
      /\ order_map_[BestSell].quantity <= ask_levels_[BestAsk(ask_levels_)].total_quantity
  BY <1>1, TotalsExact
<1>6. /\ bid_levels_[BestBid(bid_levels_)].total_quantity \in Int
      /\ ask_levels_[BestAsk(ask_levels_)].total_quantity \in Int
  BY <1>1, OrdersSides, MaxQuantityAssumption DEF IsSide, Level, Quantity
<1>7. /\ BestBid(bid_levels_) \in Covers(bid_levels_, MatchQuantity)
      /\ BestAsk(ask_levels_) \in Covers(ask_levels_, MatchQuantity)
  BY <1>1, <1>3, <1>4, <1>5, <1>6 DEF Covers
<1> QED BY <1>7, MatchOrdersClamps DEF ExactTotals

LEMMA ExactTotalsNext ==
  ASSUME Inv, RestPositive, TotalsFit, ExactTotals, [Next]_vars
  PROVE  ExactTotals'
<1>1. Totals'
  BY TotalsNext DEF ExactTotals
<1>2. CASE MatchOrders
  BY <1>1, <1>2, NothingClamped DEF ExactTotals
<1>3. ASSUME ~MatchOrders
      PROVE  clamped' = clamped
  BY <1>3 DEF Next, addOrder, cancelOrder, modifyOrder, Store, TriggerMatching, MatchingDone, vars, history
<1> QED BY <1>1, <1>2, <1>3 DEF ExactTotals

(***************************************************************************)
(* If clients send positive quantities, and the orders at a price never add *)
(* up to more than a Quantity holds, the total a level caches through all   *)
(* additions, cancellations, modifications and partial fills is theirs: the *)
(* clamp in matchPriceTime never hides a difference.                        *)
(***************************************************************************)
THEOREM LevelTotalsCorrect ==
  ASSUME PositiveQuantities
  PROVE  Spec /\ []TotalsFit => []LevelTotals
<1>1. Init => NoneSuspect /\ ExactTotals
  BY InitNoneSuspect DEF Init, ExactTotals, Totals, Totalled, NoLevels
<1>2. Inv /\ NoneSuspect /\ [Next]_vars => NoneSuspect'
  BY NextNoneSuspect
<1>3. Inv /\ NoneSuspect /\ ExactTotals /\ TotalsFit /\ [Next]_vars => ExactTotals'
  BY ExactTotalsNext, NoneSuspectRestPositive
<1>4. Inv /\ NoneSuspect /\ ExactTotals /\ TotalsFit => LevelTotals
  BY TotalsExact, QueueTotals, NoneSuspectRestPositive DEF LevelTotals
<1> QED
  BY <1>1, <1>2, <1>3, <1>4, InitInv, NextInv, PTL DEF Spec

(***************************************************************************)
(* When do they not add up to more?  If there are so few ids, and so small  *)
(* orders, that all of them together fit a Quantity.                        *)
(***************************************************************************)
SmallOrders(most) ==
  /\ most \in Nat /\ \A q \in AddQuantities \cup ModifyQuantities : q <= most
  /\ IsFiniteSet(Ids) /\ Cardinality(Ids) * most <= MaxQuantity

AtMost(most) == \A o \in DOMAIN order_map_ : order_map_[o].quantity <= most

LEMMA AtMostNext ==
  ASSUME PositiveQuantities, NEW most, SmallOrders(most), Inv, RestPositive, AtMost(most),
         [Next]_vars
  PROVE  AtMost(most)'
<1>1. ASSUME NEW id, NEW order, order.quantity <= most, Store(id, order)
      PROVE  AtMost(most)'
  BY <1>1 DEF AtMost, Store, Put
<1>2. ASSUME NEW id \in Ids, NEW is_buy \in BOOLEAN, NEW qty \in AddQuantities, NEW px \in Prices,
             addOrder(id, is_buy, qty, px)
      PROVE  AtMost(most)'
  <2> DEFINE order == [is_buy |-> is_buy, quantity |-> qty, price |-> px]
  <2>1. Store(id, order) /\ order.quantity <= most
    BY <1>2 DEF addOrder, SmallOrders
  <2> HIDE DEF order
  <2> QED BY <1>1, <2>1
<1>3. ASSUME NEW id \in Ids, NEW qty \in ModifyQuantities, NEW px \in Prices,
             modifyOrder(id, qty, px)
      PROVE  AtMost(most)'
  <2> DEFINE new == [order_map_[id] EXCEPT !.quantity = qty, !.price = px]
  <2>1. id \in DOMAIN order_map_ /\ Store(id, new)
    BY <1>3 DEF modifyOrder
  <2>2. new.quantity = qty /\ qty <= most
    BY <2>1 DEF SmallOrders, Inv, TypeOK, Order
  <2> HIDE DEF new
  <2> QED BY <1>1, <2>1, <2>2
<1>4. CASE MatchOrders
  <2>1. Matchable /\ order_map_' = Erase(AfterTrade, Filled(Left))
    BY <1>4, MatchOrdersStep
  <2>2. BestBuy \in DOMAIN order_map_ /\ BestSell \in DOMAIN order_map_
    BY <2>1, BestOrders
  <2>3. \A o \in DOMAIN order_map_ : order_map_[o] \in Order /\ order_map_[o].quantity \in 1..MaxQuantity
    <3>1. \A o \in DOMAIN order_map_ : order_map_[o] \in Order /\ order_map_[o].quantity \in Quantity
      BY DEF Inv, TypeOK, Order
    <3> QED BY <3>1, MaxQuantityAssumption DEF RestPositive, Quantity
  <2>4. \A o \in {BestBuy, BestSell} :
          /\ order_map_[o].quantity - MatchQuantity \in 0..MaxQuantity
          /\ order_map_[o].quantity - MatchQuantity <= order_map_[o].quantity
    BY <2>2, <2>3, MaxQuantityAssumption DEF MatchQuantity
  <2>5. \A o \in {BestBuy, BestSell} : Left[o] = order_map_[o].quantity - MatchQuantity
    BY <2>4, ToQuantityFits DEF Left
  <2> SUFFICES ASSUME NEW o \in DOMAIN order_map_'
               PROVE  order_map_'[o].quantity <= most
    BY DEF AtMost
  <2>6. o \in DOMAIN order_map_ /\ order_map_'[o] = AfterTrade[o]
    BY <2>1 DEF Erase, AfterTrade
  <2>7. order_map_[o].quantity <= most /\ most \in Nat /\ order_map_[o].quantity \in Int
    BY <2>3, <2>6 DEF AtMost, SmallOrders
  <2>8. CASE o \in {BestBuy, BestSell}
    <3>1. AfterTrade[o].quantity = Left[o]
      BY <2>3, <2>6, <2>8 DEF AfterTrade, Order
    <3> QED BY <2>4, <2>5, <2>6, <2>7, <2>8, <3>1
  <2>9. CASE o \notin {BestBuy, BestSell}
    BY <2>6, <2>7, <2>9 DEF AfterTrade
  <2> QED BY <2>8, <2>9
<1>5. CASE \E id \in Ids : cancelOrder(id)
  BY <1>5 DEF cancelOrder, Erase, AtMost
<1>6. CASE TriggerMatching \/ MatchingDone \/ UNCHANGED vars
  BY <1>6 DEF TriggerMatching, MatchingDone, vars, AtMost
<1> QED BY <1>2, <1>3, <1>4, <1>5, <1>6 DEF Next

LEMMA AtMostFits ==
  ASSUME NEW most, SmallOrders(most), Inv, RestPositive, AtMost(most)
  PROVE  TotalsFit
<1> SUFFICES ASSUME NEW b \in BOOLEAN, NEW p \in Prices
             PROVE  TotalAt(order_map_, b, p) <= MaxQuantity
  BY DEF TotalsFit
<1> DEFINE S == OrdersAt(order_map_, b, p)
           f == QuantityOf(order_map_)
<1>1. S \subseteq Ids
  BY DEF OrdersAt, Inv, TypeOK
<1>2. /\ IsFiniteSet(S) /\ Cardinality(S) <= Cardinality(Ids)
      /\ Cardinality(S) \in Nat /\ Cardinality(Ids) \in Nat
  BY <1>1, FS_Subset, FS_CardinalityType DEF SmallOrders
<1>3. \A o \in S : f[o] \in Nat /\ f[o] <= most
  <2>1. \A o \in DOMAIN order_map_ : order_map_[o].quantity \in Nat
    BY OrdersSides DEF RestPositive
  <2> QED BY <2>1 DEF OrdersAt, QuantityOf, AtMost
<1>4. most \in Nat /\ Cardinality(Ids) * most <= MaxQuantity
  BY DEF SmallOrders
<1> HIDE DEF S, f
<1>5. SumFunctionOnSet(f, S) <= Cardinality(S) * most /\ SumFunctionOnSet(f, S) \in Nat
  BY <1>2, <1>3, <1>4, SumOfBounded, SumOfNaturals
<1>6. \A c, d, m \in Nat : c <= d => c * m <= d * m /\ c * m \in Nat /\ d * m \in Nat
  OBVIOUS
<1>7. SumFunctionOnSet(f, S) <= MaxQuantity
  <2>1. Cardinality(S) * most <= Cardinality(Ids) * most /\ Cardinality(S) * most \in Nat
        /\ Cardinality(Ids) * most \in Nat
    BY <1>2, <1>4, <1>6
  <2> QED BY <1>4, <1>5, <2>1, MaxQuantityAssumption
<1> QED BY <1>7 DEF TotalAt, S, f

(***************************************************************************)
(* The totals that the levels cache are right as long as all the orders     *)
(* together fit an int32_t, whatever is added, cancelled, modified and      *)
(* filled.                                                                  *)
(***************************************************************************)
THEOREM LevelTotalsOfSmallOrders ==
  ASSUME PositiveQuantities, NEW most, SmallOrders(most)
  PROVE  Spec => []LevelTotals
<1>1. Init => NoneSuspect /\ AtMost(most)
  BY InitNoneSuspect DEF Init, AtMost
<1>2. Inv /\ NoneSuspect /\ [Next]_vars => NoneSuspect'
  BY NextNoneSuspect
<1>3. Inv /\ NoneSuspect /\ AtMost(most) /\ [Next]_vars => AtMost(most)'
  BY AtMostNext, NoneSuspectRestPositive
<1>4. Inv /\ NoneSuspect /\ AtMost(most) => TotalsFit
  BY AtMostFits, NoneSuspectRestPositive
<1> QED
  BY <1>1, <1>2, <1>3, <1>4, InitInv, NextInv, LevelTotalsCorrect, PTL DEF Spec

=============================================================================
