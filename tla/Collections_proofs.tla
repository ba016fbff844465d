-------------------------- MODULE Collections_proofs --------------------------
(***************************************************************************)
(* Lemmas about sequences and sums that proofs about several parts rest on. *)
(* A sum (SumFunctionOnSet) is a recursion over a finite set, one element   *)
(* after the other: what holds of it is shown by a smallest set for which   *)
(* it would fail.                                                           *)
(***************************************************************************)
EXTENDS Integers, Sequences, FiniteSets, SequencesExt,
        SequenceTheorems, FiniteSetTheorems, WellFoundedInduction, TLAPS

LEMMA NatSetHasLeast ==
  ASSUME NEW T, T \subseteq Nat, T # {}
  PROVE  \E x \in T : \A y \in T : x <= y
<1>1. PICK x \in T : \A y \in T : ~(<<y, x>> \in OpToRel(<, Nat))
  BY WFMin, NatLessThanWellFounded
<1>2. \A y \in T : <<y, x>> \in Nat \X Nat
  OBVIOUS
<1>3. \A y \in T : ~(y < x)
  BY <1>1, <1>2 DEF OpToRel
<1> QED BY <1>3

\* Of the finite sets of which something holds there is a smallest.
LEMMA SmallestSet ==
  ASSUME NEW C, C # {}, \A T \in C : IsFiniteSet(T)
  PROVE  \E T \in C : \A U : U \subseteq T /\ U # T => U \notin C
<1> DEFINE N == {Cardinality(T) : T \in C}
<1>1. N \subseteq Nat /\ N # {}
  BY FS_CardinalityType
<1>2. PICK n \in N : \A k \in N : n <= k
  BY <1>1, NatSetHasLeast
<1>3. PICK T \in C : n = Cardinality(T)
  OBVIOUS
<1>4. ASSUME NEW U, U \subseteq T, U # T, U \in C
      PROVE  FALSE
  <2>1. Cardinality(U) \in N /\ Cardinality(T) \in Nat /\ Cardinality(U) \in Nat
    BY <1>4, FS_CardinalityType
  <2>2. Cardinality(U) <= Cardinality(T) /\ Cardinality(U) # Cardinality(T)
    BY <1>4, FS_Subset
  <2> QED BY <1>2, <1>3, <2>1, <2>2
<1> QED BY <1>4

-----------------------------------------------------------------------------
(* The recursion *)

Pick(S) == CHOOSE x \in S : TRUE

\* g has the sums of f over the subsets of S.
IsSum(g, f, S) ==
  g = [s \in SUBSET S |-> IF s = {} THEN 0 ELSE f[Pick(s)] + g[s \ {Pick(s)}]]

LEMMA PickIn == \A S : S # {} => Pick(S) \in S
  BY DEF Pick

LEMMA IsSumMeans ==
  ASSUME NEW f, NEW S, NEW g, IsSum(g, f, S), NEW T, T \subseteq S
  PROVE  g[T] = IF T = {} THEN 0 ELSE f[Pick(T)] + g[T \ {Pick(T)}]
  BY DEF IsSum

LEMMA SumsAgree ==
  ASSUME NEW f, NEW e, NEW S, NEW T, NEW g, NEW h, IsSum(g, f, S), IsSum(h, e, T),
         NEW U, U \subseteq S, U \subseteq T, IsFiniteSet(U), \A x \in U : f[x] = e[x]
  PROVE  g[U] = h[U]
<1> DEFINE C == {V \in SUBSET U : g[V] # h[V]}
<1>1. CASE C # {}
  <2>1. \A V \in C : IsFiniteSet(V)
    BY FS_Subset
  <2>2. PICK V \in C : \A W : W \subseteq V /\ W # V => W \notin C
    BY <1>1, <2>1, SmallestSet
  <2>3. V \subseteq S /\ V \subseteq T
    OBVIOUS
  <2>4. /\ g[V] = IF V = {} THEN 0 ELSE f[Pick(V)] + g[V \ {Pick(V)}]
        /\ h[V] = IF V = {} THEN 0 ELSE e[Pick(V)] + h[V \ {Pick(V)}]
    BY <2>3, IsSumMeans
  <2>5. V # {} => /\ Pick(V) \in U
                  /\ V \ {Pick(V)} \subseteq V /\ V \ {Pick(V)} # V
    BY PickIn
  <2>6. V # {} => g[V \ {Pick(V)}] = h[V \ {Pick(V)}]
    BY <2>2, <2>5
  <2> QED BY <2>4, <2>5, <2>6
<1> QED BY <1>1

LEMMA SumExists ==
  ASSUME NEW f, NEW S, IsFiniteSet(S)
  PROVE  \E g : IsSum(g, f, S)
<1> DEFINE C == {V \in SUBSET S : ~\E g : IsSum(g, f, V)}
<1>1. CASE C # {}
  <2>1. \A V \in C : IsFiniteSet(V)
    BY FS_Subset
  <2>2. PICK V \in C : \A W : W \subseteq V /\ W # V => W \notin C
    BY <1>1, <2>1, SmallestSet
  <2>3. IsFiniteSet(V) /\ V \subseteq S
    BY <2>1
  <2> DEFINE G(W) == CHOOSE g : IsSum(g, f, W)
             Less(W) == W \ {Pick(W)}
             g == [s \in SUBSET V |-> IF s = {} THEN 0 ELSE f[Pick(s)] + G(Less(s))[Less(s)]]
  <2>4. ASSUME NEW W, W \subseteq V, W # V
        PROVE  IsSum(G(W), f, W)
    <3>1. \E gw : IsSum(gw, f, W)
      BY <2>2, <2>3, <2>4
    <3> QED BY <3>1
  <2>5. ASSUME NEW s, s \subseteq V, s # {}
        PROVE  Less(s) \subseteq V /\ Less(s) # V /\ IsFiniteSet(Less(s))
    BY <2>3, <2>5, PickIn, FS_Subset
  <2> HIDE DEF G, Less
  <2>6. ASSUME NEW s, s \subseteq V, s # {}
        PROVE  g[Less(s)] = G(Less(s))[Less(s)]
    <3> DEFINE u == Less(s)
               w == Less(u)
    <3>1. u \subseteq V /\ u # V /\ IsFiniteSet(u)
      BY <2>5, <2>6
    <3>2. IsSum(G(u), f, u)
      BY <2>4, <3>1
    <3>3. G(u)[u] = IF u = {} THEN 0 ELSE f[Pick(u)] + G(u)[u \ {Pick(u)}]
      <4> DEFINE sums == G(u)
      <4>1. IsSum(sums, f, u) /\ u \subseteq u
        BY <3>2
      <4> HIDE DEF sums, u
      <4>2. sums[u] = IF u = {} THEN 0 ELSE f[Pick(u)] + sums[u \ {Pick(u)}]
        BY <4>1, IsSumMeans
      <4> QED BY <4>2 DEF sums
    <3>4. CASE u = {}
      BY <3>1, <3>3, <3>4
    <3>5. CASE u # {}
      <4>1. w \subseteq V /\ w # V /\ IsFiniteSet(w) /\ w \subseteq u
        BY <2>5, <3>1, <3>5 DEF Less
      <4>2. IsSum(G(w), f, w)
        BY <2>4, <4>1
      <4>3. G(u)[w] = G(w)[w]
        BY <3>2, <4>1, <4>2, SumsAgree
      <4>4. g[u] = f[Pick(u)] + G(w)[w]
        BY <3>1, <3>5
      <4> QED BY <3>3, <3>5, <4>3, <4>4 DEF Less
    <3> QED BY <3>4, <3>5
  <2>7. \A s \in SUBSET V : s # {} => g[Less(s)] = G(Less(s))[Less(s)]
    BY <2>6
  <2>8. g = [s \in SUBSET V |-> IF s = {} THEN 0 ELSE f[Pick(s)] + g[Less(s)]]
    BY <2>7
  <2>9. IsSum(g, f, V)
    BY <2>8 DEF IsSum, Less
  <2> QED BY <2>2, <2>9
<1> QED BY <1>1

LEMMA SumIs ==
  ASSUME NEW f, NEW S, IsFiniteSet(S)
  PROVE  \E g : IsSum(g, f, S) /\ SumFunctionOnSet(f, S) = g[S]
<1> DEFINE g == CHOOSE iter : IsSum(iter, f, S)
<1>1. IsSum(g, f, S)
  BY SumExists
<1>2. SumFunctionOnSet(f, S) =
        (CHOOSE iter :
           iter = [s \in SUBSET S |-> IF s = {} THEN 0
                                      ELSE f[CHOOSE x \in s : TRUE] + iter[s \ {CHOOSE x \in s : TRUE}]])[S]
  BY DEF SumFunctionOnSet, FoldFunctionOnSet, MapThenFoldSet
<1>3. SumFunctionOnSet(f, S) = g[S]
  BY <1>2 DEF IsSum, Pick
<1> QED BY <1>1, <1>3

-----------------------------------------------------------------------------
(* Sums *)

LEMMA SumOfNone == ASSUME NEW f PROVE SumFunctionOnSet(f, {}) = 0
<1>1. PICK g : IsSum(g, f, {}) /\ SumFunctionOnSet(f, {}) = g[{}]
  BY SumIs, FS_EmptySet
<1> QED BY <1>1, IsSumMeans

LEMMA SumOfPick ==
  ASSUME NEW f, NEW S, IsFiniteSet(S), S # {}
  PROVE  SumFunctionOnSet(f, S) = f[Pick(S)] + SumFunctionOnSet(f, S \ {Pick(S)})
<1> DEFINE T == S \ {Pick(S)}
<1>1. IsFiniteSet(T) /\ T \subseteq S
  BY FS_Subset
<1>2. PICK g : IsSum(g, f, S) /\ SumFunctionOnSet(f, S) = g[S]
  BY SumIs
<1>3. PICK h : IsSum(h, f, T) /\ SumFunctionOnSet(f, T) = h[T]
  BY SumIs, <1>1
<1>4. g[T] = h[T]
  BY <1>1, <1>2, <1>3, SumsAgree
<1>5. g[S] = f[Pick(S)] + g[T]
  BY <1>2, IsSumMeans
<1> QED BY <1>2, <1>3, <1>4, <1>5

\* A sum depends on the summands only.
LEMMA SumDependsOn ==
  ASSUME NEW f, NEW e, NEW S, IsFiniteSet(S), \A x \in S : f[x] = e[x]
  PROVE  SumFunctionOnSet(f, S) = SumFunctionOnSet(e, S)
<1>1. PICK g : IsSum(g, f, S) /\ SumFunctionOnSet(f, S) = g[S]
  BY SumIs
<1>2. PICK h : IsSum(h, e, S) /\ SumFunctionOnSet(e, S) = h[S]
  BY SumIs
<1>3. g[S] = h[S]
  BY <1>1, <1>2, SumsAgree
<1> QED BY <1>1, <1>2, <1>3

LEMMA SumType ==
  ASSUME NEW f, NEW S, IsFiniteSet(S), \A x \in S : f[x] \in Int
  PROVE  SumFunctionOnSet(f, S) \in Int
<1> DEFINE C == {V \in SUBSET S : SumFunctionOnSet(f, V) \notin Int}
<1>1. CASE C # {}
  <2>1. \A V \in C : IsFiniteSet(V)
    BY FS_Subset
  <2>2. PICK V \in C : \A W : W \subseteq V /\ W # V => W \notin C
    BY <1>1, <2>1, SmallestSet
  <2>3. V # {}
    BY SumOfNone
  <2>4. SumFunctionOnSet(f, V) = f[Pick(V)] + SumFunctionOnSet(f, V \ {Pick(V)})
    BY <2>1, <2>3, SumOfPick
  <2>5. Pick(V) \in S /\ V \ {Pick(V)} \subseteq V /\ V \ {Pick(V)} # V
    BY <2>3, PickIn
  <2>6. SumFunctionOnSet(f, V \ {Pick(V)}) \in Int
    BY <2>2, <2>5
  <2> QED BY <2>4, <2>5, <2>6
<1> QED BY <1>1

\* The summands may be taken in any order.
LEMMA SumOfOneAndRest ==
  ASSUME NEW f, NEW S, IsFiniteSet(S), \A x \in S : f[x] \in Int, NEW a \in S
  PROVE  SumFunctionOnSet(f, S) = f[a] + SumFunctionOnSet(f, S \ {a})
<1> DEFINE Sum(V) == SumFunctionOnSet(f, V)
           C == {V \in SUBSET S : \E b \in V : Sum(V) # f[b] + Sum(V \ {b})}
<1>1. \A V : V \subseteq S => IsFiniteSet(V) /\ Sum(V) \in Int
  BY FS_Subset, SumType
<1>2. CASE C # {}
  <2>1. \A V \in C : IsFiniteSet(V)
    BY <1>1
  <2>2. PICK V \in C : \A W : W \subseteq V /\ W # V => W \notin C
    BY <1>2, <2>1, SmallestSet
  <2>3. PICK b \in V : Sum(V) # f[b] + Sum(V \ {b})
    OBVIOUS
  <2> DEFINE p == Pick(V)
             W == V \ {p}
             U == V \ {b}
  <2>4. p \in V /\ V \subseteq S /\ IsFiniteSet(V) /\ W \subseteq S /\ U \subseteq S
    BY <1>1, PickIn
  <2>5. Sum(V) = f[p] + Sum(W)
    BY <2>4, SumOfPick
  <2>6. p # b
    BY <2>3, <2>5
  <2>7. Sum(W) = f[b] + Sum(W \ {b})
    BY <2>2, <2>4, <2>6
  <2>8. Sum(U) = f[p] + Sum(U \ {p})
    BY <2>2, <2>3, <2>4, <2>6
  <2>9. W \ {b} = U \ {p} /\ W \ {b} \subseteq S
    BY <2>4
  <2>10. f[p] \in Int /\ f[b] \in Int /\ Sum(W \ {b}) \in Int
    BY <1>1, <2>3, <2>4, <2>9
  <2>11. Sum(U \ {p}) = Sum(W \ {b})
    BY <2>9
  <2>12. \A i, j, k \in Int : i + (j + k) = j + (i + k)
    OBVIOUS
  <2> HIDE DEF Sum, p, W, U
  <2>13. Sum(V) = f[b] + Sum(U)
    BY <2>5, <2>7, <2>8, <2>10, <2>11, <2>12
  <2> QED BY <2>3, <2>13 DEF U
<1> QED BY <1>2

\* A summand more, and one that changes.
LEMMA SumOfOneMore ==
  ASSUME NEW f, NEW S, IsFiniteSet(S), NEW a, a \notin S, \A x \in S \cup {a} : f[x] \in Int
  PROVE  SumFunctionOnSet(f, S \cup {a}) = f[a] + SumFunctionOnSet(f, S)
<1>1. IsFiniteSet(S \cup {a}) /\ (S \cup {a}) \ {a} = S /\ a \in S \cup {a}
  BY FS_AddElement
<1>2. SumFunctionOnSet(f, S \cup {a}) = f[a] + SumFunctionOnSet(f, (S \cup {a}) \ {a})
  BY <1>1, SumOfOneAndRest
<1> QED BY <1>1, <1>2

LEMMA SumAfterChange ==
  ASSUME NEW f, NEW e, NEW S, IsFiniteSet(S), NEW a \in S,
         \A x \in S : f[x] \in Int /\ e[x] \in Int,
         \A x \in S \ {a} : f[x] = e[x]
  PROVE  SumFunctionOnSet(e, S) = SumFunctionOnSet(f, S) - f[a] + e[a]
<1> DEFINE T == S \ {a}
<1>1. IsFiniteSet(T)
  BY FS_Subset
<1>2. SumFunctionOnSet(f, T) = SumFunctionOnSet(e, T) /\ SumFunctionOnSet(f, T) \in Int
  BY <1>1, SumDependsOn, SumType
<1>3. /\ SumFunctionOnSet(f, S) = f[a] + SumFunctionOnSet(f, T)
      /\ SumFunctionOnSet(e, S) = e[a] + SumFunctionOnSet(e, T)
  BY SumOfOneAndRest
<1> HIDE DEF T
<1> QED BY <1>2, <1>3

LEMMA SumOfZeros ==
  ASSUME NEW f, NEW S, IsFiniteSet(S), \A x \in S : f[x] = 0
  PROVE  SumFunctionOnSet(f, S) = 0
<1> DEFINE C == {V \in SUBSET S : SumFunctionOnSet(f, V) # 0}
<1>1. CASE C # {}
  <2>1. \A V \in C : IsFiniteSet(V)
    BY FS_Subset
  <2>2. PICK V \in C : \A W : W \subseteq V /\ W # V => W \notin C
    BY <1>1, <2>1, SmallestSet
  <2>3. V # {}
    BY SumOfNone
  <2>4. SumFunctionOnSet(f, V) = f[Pick(V)] + SumFunctionOnSet(f, V \ {Pick(V)})
    BY <2>1, <2>3, SumOfPick
  <2>5. Pick(V) \in S /\ V \ {Pick(V)} \subseteq V /\ V \ {Pick(V)} # V
    BY <2>3, PickIn
  <2>6. SumFunctionOnSet(f, V \ {Pick(V)}) = 0
    BY <2>2, <2>5
  <2> QED BY <2>4, <2>5, <2>6
<1> QED BY <1>1

\* At most one summand counts.
LEMMA SumOfOne ==
  ASSUME NEW f, NEW S, IsFiniteSet(S), NEW a \in S, f[a] \in Int, \A x \in S \ {a} : f[x] = 0
  PROVE  SumFunctionOnSet(f, S) = f[a]
<1>1. IsFiniteSet(S \ {a}) /\ \A x \in S : f[x] \in Int
  BY FS_Subset
<1>2. SumFunctionOnSet(f, S \ {a}) = 0
  BY <1>1, SumOfZeros
<1>3. SumFunctionOnSet(f, S) = f[a] + SumFunctionOnSet(f, S \ {a})
  BY <1>1, SumOfOneAndRest
<1> QED BY <1>2, <1>3

\* Of natural numbers the sum is one, and none of them exceeds it.
LEMMA SumOfNaturals ==
  ASSUME NEW f, NEW S, IsFiniteSet(S), \A x \in S : f[x] \in Nat
  PROVE  SumFunctionOnSet(f, S) \in Nat /\ \A x \in S : f[x] <= SumFunctionOnSet(f, S)
<1> DEFINE C == {V \in SUBSET S : SumFunctionOnSet(f, V) \notin Nat}
<1>1. ASSUME C # {}
      PROVE  FALSE
  <2>1. \A V \in C : IsFiniteSet(V)
    BY FS_Subset
  <2>2. PICK V \in C : \A W : W \subseteq V /\ W # V => W \notin C
    BY <1>1, <2>1, SmallestSet
  <2>3. V # {}
    BY SumOfNone
  <2>4. SumFunctionOnSet(f, V) = f[Pick(V)] + SumFunctionOnSet(f, V \ {Pick(V)})
    BY <2>1, <2>3, SumOfPick
  <2>5. Pick(V) \in S /\ V \ {Pick(V)} \subseteq V /\ V \ {Pick(V)} # V
    BY <2>3, PickIn
  <2>6. SumFunctionOnSet(f, V \ {Pick(V)}) \in Nat
    BY <2>2, <2>5
  <2> QED BY <2>4, <2>5, <2>6
<1>2. \A V \in SUBSET S : SumFunctionOnSet(f, V) \in Nat
  BY <1>1
<1>3. ASSUME NEW x \in S
      PROVE  f[x] <= SumFunctionOnSet(f, S)
  <2>1. SumFunctionOnSet(f, S) = f[x] + SumFunctionOnSet(f, S \ {x})
    BY SumOfOneAndRest
  <2>2. SumFunctionOnSet(f, S \ {x}) \in Nat /\ f[x] \in Nat
    BY <1>2
  <2> QED BY <2>1, <2>2
<1> QED BY <1>2, <1>3

\* Summands that are at most m.
LEMMA SumOfBounded ==
  ASSUME NEW f, NEW S, IsFiniteSet(S), NEW m \in Nat, \A x \in S : f[x] \in Nat /\ f[x] <= m
  PROVE  SumFunctionOnSet(f, S) <= Cardinality(S) * m
<1> DEFINE C == {V \in SUBSET S : ~(SumFunctionOnSet(f, V) <= Cardinality(V) * m)}
<1>1. CASE C # {}
  <2>1. \A V \in SUBSET S : IsFiniteSet(V)
    BY FS_Subset
  <2>2. PICK V \in C : \A W : W \subseteq V /\ W # V => W \notin C
    BY <1>1, <2>1, SmallestSet
  <2>3. V # {}
    <3>1. SumFunctionOnSet(f, {}) = 0 /\ Cardinality({}) = 0
      BY SumOfNone, FS_EmptySet
    <3>2. 0 <= 0 * m
      OBVIOUS
    <3> QED BY <3>1, <3>2
  <2> DEFINE W == V \ {Pick(V)}
  <2>4. Pick(V) \in S /\ W \in SUBSET S /\ W # V /\ Pick(V) \in V
    BY <2>3, PickIn
  <2>5. SumFunctionOnSet(f, V) = f[Pick(V)] + SumFunctionOnSet(f, W)
    BY <2>1, <2>3, SumOfPick
  <2>6. SumFunctionOnSet(f, W) <= Cardinality(W) * m
    BY <2>2, <2>4
  <2>7. Cardinality(W) = Cardinality(V) - 1 /\ Cardinality(V) \in Nat /\ Cardinality(W) \in Nat
    BY <2>1, <2>4, FS_RemoveElement, FS_CardinalityType
  <2>8. SumFunctionOnSet(f, W) \in Int /\ f[Pick(V)] \in Nat /\ f[Pick(V)] <= m
    BY <2>1, <2>4, SumOfNaturals
  <2>9. \A c \in Int : (c - 1) * m + m = c * m /\ c * m \in Int /\ (c - 1) * m \in Int
    OBVIOUS
  <2>10. ~(SumFunctionOnSet(f, V) <= Cardinality(V) * m)
    BY <2>2
  <2> HIDE DEF W, C
  <2> QED BY <2>5, <2>6, <2>7, <2>8, <2>9, <2>10
<1> QED BY <1>1

(***************************************************************************)
(* The sum of f over S is that of e over T if t goes through T once while   *)
(* S is gone through once, as f[x] = e[t[x]].                               *)
(***************************************************************************)
LEMMA SumReindexed ==
  ASSUME NEW f, NEW e, NEW S, NEW T, IsFiniteSet(S), IsFiniteSet(T), NEW t \in [S -> T],
         \A x, y \in S : t[x] = t[y] => x = y,
         \A y \in T : \E x \in S : t[x] = y,
         \A x \in S : f[x] = e[t[x]] /\ f[x] \in Int
  PROVE  SumFunctionOnSet(f, S) = SumFunctionOnSet(e, T)
<1> DEFINE Image(V) == {t[x] : x \in V}
           C == {V \in SUBSET S : SumFunctionOnSet(f, V) # SumFunctionOnSet(e, Image(V))}
<1>1. ASSUME C # {}
      PROVE  FALSE
  <2>1. \A V \in C : IsFiniteSet(V)
    BY FS_Subset
  <2>2. PICK V \in C : \A W : W \subseteq V /\ W # V => W \notin C
    BY <1>1, <2>1, SmallestSet
  <2>3. V # {}
    <3>1. Image({}) = {}
      OBVIOUS
    <3> QED BY <3>1, SumOfNone
  <2> DEFINE p == Pick(V)
             W == V \ {p}
  <2>4. p \in V /\ V \subseteq S /\ IsFiniteSet(V) /\ W \subseteq V /\ W # V
    BY <2>1, <2>3, PickIn
  <2>5. SumFunctionOnSet(f, W) = SumFunctionOnSet(e, Image(W))
    BY <2>2, <2>4
  <2>6. SumFunctionOnSet(f, V) = f[p] + SumFunctionOnSet(f, W)
    BY <2>3, <2>4, SumOfPick
  <2>7. /\ Image(V) \subseteq T /\ Image(W) = Image(V) \ {t[p]} /\ t[p] \in Image(V)
        /\ \A y \in Image(V) : e[y] \in Int
    BY <2>4
  <2>8. IsFiniteSet(Image(V))
    BY <2>7, FS_Subset
  <2> HIDE DEF Image
  <2>9. SumFunctionOnSet(e, Image(V)) = e[t[p]] + SumFunctionOnSet(e, Image(V) \ {t[p]})
    BY <2>7, <2>8, SumOfOneAndRest
  <2>10. f[p] = e[t[p]]
    BY <2>4
  <2> QED BY <2>5, <2>6, <2>7, <2>9, <2>10
<1>2. Image(S) = T
  OBVIOUS
<1>3. SumFunctionOnSet(f, S) = SumFunctionOnSet(e, Image(S))
  BY <1>1
<1> QED BY <1>2, <1>3

-----------------------------------------------------------------------------
(* Sequences *)

\* What RemoveAt leaves.
LEMMA RemoveAtIndices ==
  ASSUME NEW S, NEW v \in Seq(S), NEW k \in 1..Len(v)
  PROVE  /\ RemoveAt(v, k) \in Seq(S)
         /\ Len(RemoveAt(v, k)) = Len(v) - 1
         /\ \A i \in 1..(Len(v) - 1) : RemoveAt(v, k)[i] = IF i < k THEN v[i] ELSE v[i + 1]
<1> DEFINE a == SubSeq(v, 1, k - 1)
           b == SubSeq(v, k + 1, Len(v))
<1>1. k \in Nat /\ Len(v) \in Nat /\ 1 <= k /\ k <= Len(v)
  BY LenProperties
<1>2. \A i \in 1..Len(v) : v[i] \in S
  BY ElementOfSeq
<1>3. a \in Seq(S) /\ Len(a) = k - 1 /\ \A i \in 1..(k - 1) : a[i] = v[i]
  <2>1. \A i \in 1..(k - 1) : v[i] \in S
    BY <1>1, <1>2
  <2>2. /\ a \in Seq(S)
        /\ Len(a) = IF 1 <= k - 1 THEN (k - 1) - 1 + 1 ELSE 0
        /\ \A i \in 1..((k - 1) - 1 + 1) : a[i] = v[1 + i - 1]
    BY <1>1, <2>1, SubSeqProperties
  <2> QED BY <1>1, <2>2
<1>4. b \in Seq(S) /\ Len(b) = Len(v) - k /\ \A i \in 1..(Len(v) - k) : b[i] = v[k + i]
  <2>1. \A i \in (k + 1)..Len(v) : v[i] \in S
    BY <1>1, <1>2
  <2>2. /\ b \in Seq(S)
        /\ Len(b) = IF k + 1 <= Len(v) THEN Len(v) - (k + 1) + 1 ELSE 0
        /\ \A i \in 1..(Len(v) - (k + 1) + 1) : b[i] = v[(k + 1) + i - 1]
    BY <1>1, <2>1, SubSeqProperties
  <2> QED BY <1>1, <2>2
<1>5. RemoveAt(v, k) = a \o b
  BY DEF RemoveAt
<1> HIDE DEF a, b
<1>6. /\ a \o b \in Seq(S)
      /\ Len(a \o b) = Len(a) + Len(b)
      /\ \A i \in 1..(Len(a) + Len(b)) : (a \o b)[i] = IF i <= Len(a) THEN a[i] ELSE b[i - Len(a)]
  BY <1>3, <1>4, ConcatProperties
<1>7. Len(a) = k - 1 /\ Len(a) + Len(b) = Len(v) - 1
  BY <1>1, <1>3, <1>4
<1>8. ASSUME NEW i \in 1..(Len(v) - 1)
      PROVE  (a \o b)[i] = IF i < k THEN v[i] ELSE v[i + 1]
  <2>1. (a \o b)[i] = IF i <= k - 1 THEN a[i] ELSE b[i - (k - 1)]
    BY <1>6, <1>7
  <2>2. CASE i < k
    BY <1>1, <1>3, <2>1, <2>2
  <2>3. CASE ~(i < k)
    <3>1. i - (k - 1) \in 1..(Len(v) - k) /\ k + (i - (k - 1)) = i + 1
      BY <1>1, <2>3
    <3> QED BY <1>1, <1>4, <2>1, <2>3, <3>1
  <2> QED BY <2>2, <2>3
<1> QED BY <1>5, <1>6, <1>7, <1>8

-----------------------------------------------------------------------------
(* Integers of a fixed width *)

\* x modulo the 2 * M + 2 values from -M - 1 to M.
Wrap(x, M) == ((x + M + 1) % (2 * M + 2)) - M - 1

\* What a quotient and a remainder are.
LEMMA ModuloUnique ==
  ASSUME NEW w \in Nat \ {0}, NEW y \in Int, NEW q \in Int, NEW r \in 0..(w - 1), y = q * w + r
  PROVE  y % w = r
<1>1. y % w \in 0..(w - 1) /\ y = (y \div w) * w + (y % w) /\ y \div w \in Int
  OBVIOUS
<1> DEFINE d == q - (y \div w)
<1>2. d \in Int /\ d * w = (y % w) - r
  BY <1>1
<1> HIDE DEF d
<1>3. (y % w) - r < w /\ (y % w) - r > -w
  BY <1>1
<1>4. d < 1
  <2>1. d >= 1 => d * w >= w
    BY <1>2
  <2> QED BY <1>2, <1>3, <2>1
<1>5. d > -1
  <2>1. d <= -1 => d * w <= -w
    BY <1>2
  <2> QED BY <1>2, <1>3, <2>1
<1>6. d = 0
  BY <1>2, <1>4, <1>5
<1>7. d * w = 0
  BY <1>6
<1> QED BY <1>1, <1>2, <1>7

\* Wrapping gives a value of the width, and keeps one.
LEMMA WrapType ==
  ASSUME NEW M \in Nat, NEW x \in Int
  PROVE  Wrap(x, M) \in (-M - 1)..M
<1> DEFINE w == 2 * M + 2
<1>1. (x + M + 1) % w \in 0..(w - 1)
  OBVIOUS
<1> QED BY <1>1 DEF Wrap

LEMMA WrapFits ==
  ASSUME NEW M \in Nat, NEW x \in (-M - 1)..M
  PROVE  Wrap(x, M) = x
<1> DEFINE w == 2 * M + 2
           y == x + M + 1
<1>1. w \in Nat \ {0} /\ y \in 0..(w - 1)
  OBVIOUS
<1>2. y % w = y
  <2> HIDE DEF w, y
  <2> QED BY <1>1
<1> QED BY <1>2 DEF Wrap

LEMMA ModuloTwice ==
  ASSUME NEW w \in Nat \ {0}, NEW y \in Int, NEW d \in Int
  PROVE  ((y % w) + d) % w = (y + d) % w
<1>1. PICK k \in Int, r \in 0..(w - 1) : y = k * w + r /\ y % w = r
  BY y = (y \div w) * w + (y % w), y \div w \in Int, y % w \in 0..(w - 1)
<1>2. PICK l \in Int, s \in 0..(w - 1) : y + d = l * w + s /\ (y + d) % w = s
  BY y + d = ((y + d) \div w) * w + ((y + d) % w), (y + d) \div w \in Int, (y + d) % w \in 0..(w - 1)
<1>3. k * w \in Int /\ l * w \in Int /\ (l - k) * w = l * w - k * w
  BY <1>1, <1>2
<1>4. r + d = (l - k) * w + s /\ l - k \in Int /\ r + d \in Int
  BY <1>1, <1>2, <1>3
<1>5. (r + d) % w = s
  BY <1>2, <1>4, ModuloUnique
<1> QED BY <1>1, <1>2, <1>5

\* Wrapping once at the end is wrapping at every step.
LEMMA WrapTwice ==
  ASSUME NEW M \in Nat, NEW x \in Int, NEW d \in Int
  PROVE  Wrap(Wrap(x, M) + d, M) = Wrap(x + d, M)
<1> DEFINE w == 2 * M + 2
           y == x + M + 1
<1>1. w \in Nat \ {0} /\ y \in Int /\ y % w \in Int
  BY DEF w
<1>2. ((y % w) + d) % w = (y + d) % w
  <2> HIDE DEF w, y
  <2> QED BY <1>1, ModuloTwice
<1>3. Wrap(x, M) + d + M + 1 = (y % w) + d /\ x + d + M + 1 = y + d
  BY <1>1 DEF Wrap
<1>4. Wrap(Wrap(x, M) + d, M) = (((y % w) + d) % w) - M - 1 /\ Wrap(x + d, M) = ((y + d) % w) - M - 1
  BY <1>3 DEF Wrap
<1> QED BY <1>2, <1>4

=============================================================================
