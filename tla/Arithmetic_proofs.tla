--------------------------- MODULE Arithmetic_proofs ---------------------------
(***************************************************************************)
(* The arithmetic the other proofs rest on: what sums over finite sets do,     *)
(* for the ledgers, and that the code's dates are the calendar's, for the      *)
(* counters that are named by them.                                          *)
(***************************************************************************)
EXTENDS Integers, FiniteSetsExt, CivilDates, FiniteSetTheorems, WellFoundedInduction, TLAPS
-----------------------------------------------------------------------------
(* Sums.  SumFunctionOnSet(w, S) adds up w[x] over the x of S in the order    *)
(* CHOOSE picks them.  The order does not matter, and one weight that grows    *)
(* makes the sum grow by as much.  Each fact is shown of a smallest set that    *)
(* would break it.                                                          *)

\* The element a sum starts with.
First(S) == CHOOSE x \in S : TRUE

\* g adds up w over every subset of S.
AddsUp(g, w, S) ==
  g = [T \in SUBSET S |-> IF T = {} THEN 0 ELSE w[First(T)] + g[T \ {First(T)}]]

LEMMA SumIsChosen ==
  ASSUME NEW w, NEW S
  PROVE  SumFunctionOnSet(w, S) = (CHOOSE g : AddsUp(g, w, S))[S]
BY DEF SumFunctionOnSet, FoldFunctionOnSet, MapThenFoldSet, AddsUp, First

\* Among subsets of a finite set some one has no other below it.
LEMMA Smallest ==
  ASSUME NEW S, IsFiniteSet(S), NEW B, B \subseteq SUBSET S, B # {}
  PROVE  \E T \in B : \A U \in B : U \subseteq T => U = T
<1>1. IsWellFoundedOn(StrictSubsetOrdering(S), SUBSET S)
  BY FS_StrictSubsetOrderingWellFounded, FS_FiniteSubsetsOfFinite
<1>2. PICK T \in B : \A U \in B : ~ (<<U, T>> \in StrictSubsetOrdering(S))
  BY <1>1, WFMin
<1>3. ASSUME NEW U \in B, U \subseteq T, U # T PROVE FALSE
  <2>1. <<U, T>> \in StrictSubsetOrdering(S)
    BY <1>3 DEF StrictSubsetOrdering
  <2>. QED
    BY <1>2, <2>1
<1>. QED
  BY <1>3

\* Finitely many numbers have a last one: of the sets of those from one of them
\* on, the smallest is that of the last.
LEMMA LastOfFinite ==
  ASSUME NEW S, IsFiniteSet(S), \A k \in S : k \in Int, S # {}
  PROVE  \E last \in S : \A y \in S : last >= y
<1>. DEFINE Parts == {V \in SUBSET S : \E i \in S : V = {k \in S : k >= i}}
<1>1. Parts # {}
  <2>1. PICK i \in S : TRUE
    OBVIOUS
  <2>2. {k \in S : k >= i} \in Parts
    OBVIOUS
  <2>. QED
    BY <2>2
<1>2. PICK V \in Parts : \A X \in Parts : X \subseteq V => X = V
  <2>1. Parts \subseteq SUBSET S
    OBVIOUS
  <2>. HIDE DEF Parts
  <2>. QED
    BY <1>1, <2>1, Smallest
<1>3. PICK last \in S : V = {k \in S : k >= last}
  OBVIOUS
<1>4. ASSUME NEW y \in S, ~(last >= y) PROVE FALSE
  <2>. DEFINE X == {k \in S : k >= y}
  <2>1. X \in Parts
    OBVIOUS
  <2>2. \A k \in S : k >= y => k >= last
    BY <1>4
  <2>3. X \subseteq V
    BY <1>3, <2>2, Zenon
  <2>4. last \in V /\ last \notin X
    BY <1>3, <1>4
  <2>. HIDE DEF X
  <2>. QED
    BY <1>2, <2>1, <2>3, <2>4
<1>. QED
  BY <1>4

LEMMA HasLast ==
  ASSUME NEW n \in Nat, NEW S, S \subseteq 1 .. n, S # {}
  PROVE  \E last \in S : \A y \in S : last >= y
<1>1. IsFiniteSet(1 .. n)
  BY FS_Interval, 1 \in Int, n \in Int
<1>2. IsFiniteSet(S)
  BY <1>1, FS_Subset
<1>3. \A k \in S : k \in Int
  OBVIOUS
<1>. QED
  BY <1>2, <1>3, LastOfFinite

LEMMA FirstIn ==
  ASSUME NEW S, S # {}
  PROVE  First(S) \in S
BY DEF First

\* Two functions that add up w agree where both are defined.
LEMMA AddsUpAgree ==
  ASSUME NEW w, NEW S, IsFiniteSet(S), NEW T, NEW g, NEW h,
         AddsUp(g, w, S), AddsUp(h, w, T), NEW U \in SUBSET S, U \subseteq T
  PROVE  g[U] = h[U]
<1>. DEFINE Bad == {V \in SUBSET S : V \subseteq T /\ g[V] # h[V]}
<1>1. SUFFICES ASSUME Bad # {} PROVE FALSE
  OBVIOUS
<1>2. PICK V \in Bad : \A X \in Bad : X \subseteq V => X = V
  <2>1. Bad \subseteq SUBSET S
    OBVIOUS
  <2>. HIDE DEF Bad
  <2>. QED
    BY <1>1, <2>1, Smallest
<1>3. V # {}
  BY <1>2 DEF AddsUp
<1>4. g[V \ {First(V)}] = h[V \ {First(V)}]
  BY <1>2, <1>3, FirstIn
<1>5. g[V] = w[First(V)] + g[V \ {First(V)}] /\ h[V] = w[First(V)] + h[V \ {First(V)}]
  BY <1>2, <1>3 DEF AddsUp
<1>. QED
  BY <1>2, <1>4, <1>5

\* Some function adds up w.
LEMMA AddsUpExists ==
  ASSUME NEW w, NEW S, IsFiniteSet(S)
  PROVE  \E g : AddsUp(g, w, S)
<1>. DEFINE Bad == {T \in SUBSET S : ~ \E g : AddsUp(g, w, T)}
<1>1. SUFFICES ASSUME Bad # {} PROVE FALSE
  OBVIOUS
<1>2. PICK T \in Bad : \A U \in Bad : U \subseteq T => U = T
  <2>1. Bad \subseteq SUBSET S
    OBVIOUS
  <2>. HIDE DEF Bad
  <2>. QED
    BY <1>1, <2>1, Smallest
<1>. DEFINE Chosen(U) == CHOOSE g : AddsUp(g, w, U)
            Rest(U) == U \ {First(U)}
            G == [U \in SUBSET T |->
                    IF U = {} THEN 0 ELSE w[First(U)] + Chosen(Rest(U))[Rest(U)]]
<1>3. ASSUME NEW U \in SUBSET T, U # T PROVE IsFiniteSet(U) /\ AddsUp(Chosen(U), w, U)
  <2>1. U \in SUBSET S /\ U \notin Bad
    BY <1>2, <1>3
  <2>2. IsFiniteSet(U)
    BY <2>1, FS_Subset
  <2>. QED
    BY <2>1, <2>2
<1>. HIDE DEF Chosen
<1>4. ASSUME NEW U \in SUBSET T, U # {}
      PROVE  Rest(U) \in SUBSET T /\ Rest(U) # T /\ Rest(U) \subseteq U
  BY <1>4, FirstIn
<1>5. ASSUME NEW U \in SUBSET T, U # T PROVE G[U] = Chosen(U)[U]
  <2>1. CASE U = {}
    BY <1>3, <1>5, <2>1 DEF AddsUp
  <2>2. CASE U # {}
    <3>1. AddsUp(Chosen(U), w, U) /\ AddsUp(Chosen(Rest(U)), w, Rest(U)) /\ IsFiniteSet(U)
      BY <1>3, <1>4, <1>5, <2>2
    <3>2. Chosen(U)[Rest(U)] = Chosen(Rest(U))[Rest(U)]
      BY <1>4, <2>2, <3>1, AddsUpAgree
    <3>3. Chosen(U)[U] = w[First(U)] + Chosen(U)[Rest(U)]
      BY <2>2, <3>1 DEF AddsUp
    <3>. QED
      BY <2>2, <3>2, <3>3
  <2>. QED
    BY <2>1, <2>2
<1>6. ASSUME NEW U \in SUBSET T, U # {}
      PROVE  G[U] = w[First(U)] + G[Rest(U)]
  BY <1>4, <1>5, <1>6
<1>7. G = [U \in SUBSET T |-> IF U = {} THEN 0 ELSE w[First(U)] + G[Rest(U)]]
  <2>1. ASSUME NEW U \in SUBSET T
        PROVE  G[U] = IF U = {} THEN 0 ELSE w[First(U)] + G[Rest(U)]
    BY <1>6
  <2>2. G = [U \in SUBSET T |-> G[U]]
    OBVIOUS
  <2>. HIDE DEF G
  <2>. QED
    BY <2>1, <2>2
<1>8. AddsUp(G, w, T)
  BY <1>7 DEF AddsUp
<1>. QED
  BY <1>2, <1>8

-----------------------------------------------------------------------------
(* The sum, with its definition put away.                                   *)

LEMMA SumOfNone ==
  ASSUME NEW w
  PROVE  SumFunctionOnSet(w, {}) = 0
<1>1. PICK g : AddsUp(g, w, {})
  BY FS_EmptySet, AddsUpExists
<1>2. AddsUp(CHOOSE h : AddsUp(h, w, {}), w, {})
  BY <1>1
<1>. QED
  BY <1>2, SumIsChosen DEF AddsUp

LEMMA SumFromFirst ==
  ASSUME NEW w, NEW S, IsFiniteSet(S), S # {}
  PROVE  SumFunctionOnSet(w, S) = w[First(S)] + SumFunctionOnSet(w, S \ {First(S)})
<1>. DEFINE Chosen(T) == CHOOSE g : AddsUp(g, w, T)
            R == S \ {First(S)}
<1>1. R \in SUBSET S /\ IsFiniteSet(R)
  BY FS_Subset
<1>2. AddsUp(Chosen(S), w, S) /\ AddsUp(Chosen(R), w, R)
  BY <1>1, AddsUpExists
<1>3. SumFunctionOnSet(w, S) = Chosen(S)[S] /\ SumFunctionOnSet(w, R) = Chosen(R)[R]
  BY SumIsChosen
<1>. HIDE DEF Chosen, R
<1>4. Chosen(S)[R] = Chosen(R)[R]
  BY <1>1, <1>2, AddsUpAgree
<1>5. Chosen(S)[S] = w[First(S)] + Chosen(S)[R]
  BY <1>2 DEF AddsUp, R
<1>. QED
  BY <1>3, <1>4, <1>5 DEF R

\* A sum of natural numbers is one.
LEMMA SumIsNat ==
  ASSUME NEW w, NEW S, IsFiniteSet(S), \A x \in S : w[x] \in Nat
  PROVE  SumFunctionOnSet(w, S) \in Nat
<1>. DEFINE Bad == {T \in SUBSET S : SumFunctionOnSet(w, T) \notin Nat}
<1>1. SUFFICES ASSUME Bad # {} PROVE FALSE
  OBVIOUS
<1>2. PICK T \in Bad : \A U \in Bad : U \subseteq T => U = T
  <2>1. Bad \subseteq SUBSET S
    OBVIOUS
  <2>. HIDE DEF Bad
  <2>. QED
    BY <1>1, <2>1, Smallest
<1>3. T # {} /\ IsFiniteSet(T)
  <2>1. T \in SUBSET S
    BY <1>2
  <2>2. SumFunctionOnSet(w, {}) = 0
    BY SumOfNone
  <2>3. {} \notin Bad
    BY <2>2
  <2>4. T # {}
    BY <1>2, <2>3, Zenon
  <2>. QED
    BY <2>1, <2>4, FS_Subset
<1>4. First(T) \in T /\ SumFunctionOnSet(w, T \ {First(T)}) \in Nat
  BY <1>2, <1>3, FirstIn
<1>5. SumFunctionOnSet(w, T) = w[First(T)] + SumFunctionOnSet(w, T \ {First(T)})
  BY <1>3, SumFromFirst
<1>6. w[First(T)] \in Nat
  BY <1>2, <1>4
<1>. QED
  BY <1>2, <1>4, <1>5, <1>6

LEMMA SumOfZeros ==
  ASSUME NEW w, NEW S, IsFiniteSet(S), \A x \in S : w[x] = 0
  PROVE  SumFunctionOnSet(w, S) = 0
<1>. DEFINE Bad == {T \in SUBSET S : SumFunctionOnSet(w, T) # 0}
<1>1. SUFFICES ASSUME Bad # {} PROVE FALSE
  OBVIOUS
<1>2. PICK T \in Bad : \A U \in Bad : U \subseteq T => U = T
  <2>1. Bad \subseteq SUBSET S
    OBVIOUS
  <2>. HIDE DEF Bad
  <2>. QED
    BY <1>1, <2>1, Smallest
<1>3. T # {} /\ IsFiniteSet(T)
  <2>1. T \in SUBSET S /\ {} \notin Bad
    BY <1>2, SumOfNone
  <2>2. T # {}
    BY <1>2, <2>1, Zenon
  <2>. QED
    BY <2>1, <2>2, FS_Subset
<1>4. First(T) \in T /\ SumFunctionOnSet(w, T \ {First(T)}) = 0
  BY <1>2, <1>3, FirstIn
<1>5. SumFunctionOnSet(w, T) = w[First(T)] + SumFunctionOnSet(w, T \ {First(T)})
  BY <1>3, SumFromFirst
<1>6. w[First(T)] = 0
  BY <1>2, <1>4
<1>. QED
  BY <1>2, <1>4, <1>5, <1>6

\* Any element may come first.
LEMMA SumFromAny ==
  ASSUME NEW w, NEW S, IsFiniteSet(S), \A x \in S : w[x] \in Nat, NEW a \in S
  PROVE  SumFunctionOnSet(w, S) = w[a] + SumFunctionOnSet(w, S \ {a})
<1>. DEFINE Sum(T) == SumFunctionOnSet(w, T)
            Bad == {T \in SUBSET S : \E x \in T : Sum(T) # w[x] + Sum(T \ {x})}
<1>1. SUFFICES ASSUME Bad # {} PROVE FALSE
  OBVIOUS
<1>2. PICK T \in Bad : \A U \in Bad : U \subseteq T => U = T
  <2>1. Bad \subseteq SUBSET S
    OBVIOUS
  <2>. HIDE DEF Bad
  <2>. QED
    BY <1>1, <2>1, Smallest
<1>3. PICK x \in T : Sum(T) # w[x] + Sum(T \ {x})
  BY <1>2
<1>4. \A U \in SUBSET S : IsFiniteSet(U) /\ Sum(U) \in Nat
  <2>1. ASSUME NEW U \in SUBSET S PROVE IsFiniteSet(U) /\ Sum(U) \in Nat
    <3>1. IsFiniteSet(U)
      BY FS_Subset
    <3>2. \A y \in U : w[y] \in Nat
      OBVIOUS
    <3>. QED
      BY <3>1, <3>2, SumIsNat
  <2>. QED
    BY <2>1
<1>. DEFINE f == First(T)
<1>5. f \in T /\ Sum(T) = w[f] + Sum(T \ {f})
  BY <1>2, <1>3, <1>4, FirstIn, SumFromFirst
<1>6. f # x
  BY <1>3, <1>5
<1>. HIDE DEF f, Sum
<1>7. Sum(T \ {f}) = w[x] + Sum((T \ {f}) \ {x})
  BY <1>2, <1>3, <1>5, <1>6
<1>8. Sum(T \ {x}) = w[f] + Sum((T \ {x}) \ {f})
  BY <1>2, <1>3, <1>5, <1>6
<1>9. (T \ {f}) \ {x} = (T \ {x}) \ {f} /\ (T \ {x}) \ {f} \in SUBSET S
  BY <1>2
<1>10. w[x] \in Nat /\ w[f] \in Nat /\ Sum((T \ {x}) \ {f}) \in Nat
  BY <1>2, <1>3, <1>4, <1>5, <1>9
<1>11. Sum(T \ {f}) = w[x] + Sum((T \ {x}) \ {f})
  BY <1>7, <1>9
<1>12. Sum(T) = w[x] + Sum(T \ {x})
  <2>. DEFINE rest == Sum((T \ {x}) \ {f})
  <2>1. w[f] + (w[x] + rest) = w[x] + (w[f] + rest)
    BY <1>10
  <2>. QED
    BY <1>5, <1>8, <1>11, <2>1
<1>. QED
  BY <1>3, <1>12

\* An element more.
LEMMA SumWithOneMore ==
  ASSUME NEW w, NEW S, IsFiniteSet(S), NEW a, a \notin S, \A x \in S \cup {a} : w[x] \in Nat
  PROVE  SumFunctionOnSet(w, S \cup {a}) = w[a] + SumFunctionOnSet(w, S)
<1>1. IsFiniteSet(S \cup {a}) /\ (S \cup {a}) \ {a} = S
  BY FS_AddElement
<1>. QED
  BY <1>1, SumFromAny

\* Weights that are no smaller make a sum that is no smaller.
LEMMA SumIsMonotonic ==
  ASSUME NEW w, NEW v, NEW S, IsFiniteSet(S),
         \A x \in S : w[x] \in Nat /\ v[x] \in Nat /\ w[x] <= v[x]
  PROVE  SumFunctionOnSet(w, S) <= SumFunctionOnSet(v, S)
<1>. DEFINE Bad == {T \in SUBSET S : ~ (SumFunctionOnSet(w, T) <= SumFunctionOnSet(v, T))}
<1>1. SUFFICES ASSUME Bad # {} PROVE FALSE
  OBVIOUS
<1>2. PICK T \in Bad : \A U \in Bad : U \subseteq T => U = T
  <2>1. Bad \subseteq SUBSET S
    OBVIOUS
  <2>. HIDE DEF Bad
  <2>. QED
    BY <1>1, <2>1, Smallest
<1>3. T # {} /\ IsFiniteSet(T)
  <2>1. T \in SUBSET S
    BY <1>2
  <2>2. SumFunctionOnSet(w, {}) = 0 /\ SumFunctionOnSet(v, {}) = 0
    BY SumOfNone
  <2>3. {} \notin Bad
    BY <2>2
  <2>4. T # {}
    BY <1>2, <2>3, Zenon
  <2>. QED
    BY <2>1, <2>4, FS_Subset
<1>. DEFINE R == T \ {First(T)}
<1>4. /\ First(T) \in T /\ R \subseteq T /\ IsFiniteSet(R)
      /\ SumFunctionOnSet(w, R) <= SumFunctionOnSet(v, R)
  BY <1>2, <1>3, FirstIn, FS_Subset
<1>5. /\ SumFunctionOnSet(w, T) = w[First(T)] + SumFunctionOnSet(w, R)
      /\ SumFunctionOnSet(v, T) = v[First(T)] + SumFunctionOnSet(v, R)
  BY <1>3, SumFromFirst
<1>6. SumFunctionOnSet(w, R) \in Nat /\ SumFunctionOnSet(v, R) \in Nat
  BY <1>2, <1>4, SumIsNat
<1>7. w[First(T)] \in Nat /\ v[First(T)] \in Nat /\ w[First(T)] <= v[First(T)]
  BY <1>2, <1>4
<1>. QED
  BY <1>2, <1>4, <1>5, <1>6, <1>7

\* The same weights make the same sum.
LEMMA SumIsSame ==
  ASSUME NEW w, NEW v, NEW S, IsFiniteSet(S), \A x \in S : w[x] \in Nat /\ v[x] = w[x]
  PROVE  SumFunctionOnSet(v, S) = SumFunctionOnSet(w, S)
<1>1. /\ SumFunctionOnSet(w, S) <= SumFunctionOnSet(v, S)
      /\ SumFunctionOnSet(v, S) <= SumFunctionOnSet(w, S)
  <2>1. \A x \in S : w[x] <= v[x] /\ v[x] <= w[x] /\ v[x] \in Nat
    OBVIOUS
  <2>. QED
    BY <2>1, SumIsMonotonic
<1>2. SumFunctionOnSet(w, S) \in Nat /\ SumFunctionOnSet(v, S) \in Nat
  BY SumIsNat
<1>. QED
  BY <1>1, <1>2

\* One weight changes: the sum changes by as much.
LEMMA SumWithOneChanged ==
  ASSUME NEW w, NEW v, NEW S, IsFiniteSet(S), NEW a \in S,
         \A x \in S : w[x] \in Nat /\ v[x] \in Nat,
         \A x \in S \ {a} : v[x] = w[x]
  PROVE  SumFunctionOnSet(v, S) + w[a] = SumFunctionOnSet(w, S) + v[a]
<1>. DEFINE R == S \ {a}
<1>1. IsFiniteSet(R)
  BY FS_Subset
<1>2. /\ SumFunctionOnSet(w, S) = w[a] + SumFunctionOnSet(w, R)
      /\ SumFunctionOnSet(v, S) = v[a] + SumFunctionOnSet(v, R)
  BY SumFromAny
<1>3. SumFunctionOnSet(v, R) = SumFunctionOnSet(w, R)
  BY <1>1, SumIsSame
<1>4. SumFunctionOnSet(w, R) \in Nat /\ w[a] \in Nat /\ v[a] \in Nat
  BY <1>1, SumIsNat
<1>. QED
  BY <1>2, <1>3, <1>4
-----------------------------------------------------------------------------
(* The calendar.  A day lies in the one year, counted from March, that has      *)
(* begun and whose next has not; the code's divisions find that year, and the   *)
(* month in it.  Only SMT can do with numbers of this size.                     *)

\* The day of the cycle on which the year y of the cycle begins, on a first of March.
YearStart(y) == 365 * y + y \div 4 - y \div 100 + y \div 400

\* The day d of the cycle is the day r of its century c, which is not the cycle's
\* last day; s and t are what the code's divisions of it leave.
InCentury(d, c, r, s, t) ==
  /\ c \in Int /\ 0 <= c /\ c <= 3
  /\ r \in Int /\ 0 <= r /\ r <= 36523
  /\ d = 36524 * c + r
  /\ s \in Int /\ 1460 * s <= 24 * c + r /\ 24 * c + r < 1460 * s + 1460
  /\ t \in Int /\ 365 * t <= r - s /\ r - s < 365 * t + 365

\* r lies in the year t of its century,
LEMMA YearWithin ==
  ASSUME NEW d, NEW c, NEW r, NEW s, NEW t, InCentury(d, c, r, s, t)
  PROVE  /\ 0 <= t /\ t <= 99
         /\ 365 * t + t \div 4 <= r
         /\ r < 365 * (t + 1) + (t + 1) \div 4
<1>. USE DEF InCentury
<1>1. 0 <= t /\ t <= 99
  OBVIOUS
<1>2. 365 * t + t \div 4 <= r
  <2>1. \A a \in Int : 4 * a <= t => 365 * t + a <= r
    OBVIOUS
  <2>2. t \div 4 \in Int /\ 4 * (t \div 4) <= t
    OBVIOUS
  <2>. QED
    BY <2>1, <2>2
<1>3. r < 365 * (t + 1) + (t + 1) \div 4
  <2>1. \A a \in Int : t + 1 < 4 * a + 4 => r < 365 * (t + 1) + a
    OBVIOUS
  <2>2. (t + 1) \div 4 \in Int /\ t + 1 < 4 * ((t + 1) \div 4) + 4
    OBVIOUS
  <2>. QED
    BY <2>1, <2>2
<1>. QED
  BY <1>1, <1>2, <1>3

\* the code finds that year,
LEMMA YearIs ==
  ASSUME NEW d, NEW c, NEW r, NEW s, NEW t, InCentury(d, c, r, s, t)
  PROVE  YearOfEra(d) = 100 * c + t
<1>. USE DEF InCentury
<1>1. d \in Int /\ 0 <= d /\ d < 146096
  OBVIOUS
<1>2. d \div 146096 = 0
  BY <1>1
<1>3. d \div 36524 = c
  <2>1. \A x \in Int : 36524 * x <= d /\ d < 36524 * x + 36524 => x = c
    OBVIOUS
  <2>2. d \div 36524 \in Int /\ 36524 * (d \div 36524) <= d /\ d < 36524 * (d \div 36524) + 36524
    BY <1>1
  <2>. QED
    BY <2>1, <2>2
<1>4. d \div 1460 = 25 * c + s
  <2>1. \A x \in Int : 1460 * x <= d /\ d < 1460 * x + 1460 => x = 25 * c + s
    OBVIOUS
  <2>2. d \div 1460 \in Int /\ 1460 * (d \div 1460) <= d /\ d < 1460 * (d \div 1460) + 1460
    BY <1>1
  <2>. QED
    BY <2>1, <2>2
<1>5. d - d \div 1460 + d \div 36524 - d \div 146096 = 36500 * c + (r - s)
  BY <1>2, <1>3, <1>4
<1>6. (36500 * c + (r - s)) \div 365 = 100 * c + t
  <2>. DEFINE n == 36500 * c + (r - s)
  <2>1. \A x \in Int : 365 * x <= n /\ n < 365 * x + 365 => x = 100 * c + t
    OBVIOUS
  <2>2. n \div 365 \in Int /\ 365 * (n \div 365) <= n /\ n < 365 * (n \div 365) + 365
    OBVIOUS
  <2>. QED
    BY <2>1, <2>2
<1>. QED
  BY <1>5, <1>6 DEF YearOfEra

\* and this is the day it begins on.
LEMMA YearStartIs ==
  ASSUME NEW c \in Int, 0 <= c, c <= 3, NEW t \in Int, 0 <= t, t <= 99
  PROVE  YearStart(100 * c + t) = 36524 * c + 365 * t + t \div 4
<1>. DEFINE y == 100 * c + t
<1>1. y \div 400 = 0
  OBVIOUS
<1>2. y \div 100 = c
  OBVIOUS
<1>3. y \div 4 = 25 * c + t \div 4
  OBVIOUS
<1>. QED
  BY <1>1, <1>2, <1>3 DEF YearStart

\* The year of a day of the cycle is the one that has begun and whose next has not.
LEMMA YearFound ==
  ASSUME NEW d \in Int, 0 <= d, d <= 146096
  PROVE  /\ YearOfEra(d) \in Int /\ 0 <= YearOfEra(d) /\ YearOfEra(d) <= 399
         /\ YearStart(YearOfEra(d)) <= d /\ d < YearStart(YearOfEra(d) + 1)
<1>1. CASE d = 146096
  <2>1. YearOfEra(d) = 399
    BY <1>1 DEF YearOfEra
  <2>2. YearStart(399) = 145731 /\ YearStart(400) = 146097
    BY DEF YearStart
  <2>. QED
    BY <1>1, <2>1, <2>2
<1>2. CASE d # 146096
  <2>1. PICK c \in Int, r \in Int : d = 36524 * c + r /\ 0 <= c /\ c <= 3 /\ 0 <= r /\ r <= 36523
    <3>1. d \div 36524 \in Int /\ 36524 * (d \div 36524) <= d /\ d < 36524 * (d \div 36524) + 36524
      OBVIOUS
    <3>2. \A c \in Int : 36524 * c <= d /\ d < 36524 * c + 36524 =>
            /\ d - 36524 * c \in Int /\ d = 36524 * c + (d - 36524 * c) /\ 0 <= c /\ c <= 3
            /\ 0 <= d - 36524 * c /\ d - 36524 * c <= 36523
      BY <1>2
    <3>. QED
      BY <3>1, <3>2
  <2>2. PICK s \in Int : 1460 * s <= 24 * c + r /\ 24 * c + r < 1460 * s + 1460
    <3>1. /\ (24 * c + r) \div 1460 \in Int /\ 1460 * ((24 * c + r) \div 1460) <= 24 * c + r
          /\ 24 * c + r < 1460 * ((24 * c + r) \div 1460) + 1460
      OBVIOUS
    <3>. QED
      BY <3>1
  <2>3. PICK t \in Int : 365 * t <= r - s /\ r - s < 365 * t + 365
    <3>1. /\ (r - s) \div 365 \in Int /\ 365 * ((r - s) \div 365) <= r - s
          /\ r - s < 365 * ((r - s) \div 365) + 365
      OBVIOUS
    <3>. QED
      BY <3>1
  <2>4. InCentury(d, c, r, s, t)
    BY SMT, <2>1, <2>2, <2>3 DEF InCentury
  <2>5. YearOfEra(d) = 100 * c + t
    BY SMT, <2>4, YearIs
  <2>6. /\ 0 <= t /\ t <= 99
        /\ 365 * t + t \div 4 <= r
        /\ r < 365 * (t + 1) + (t + 1) \div 4
    BY SMT, <2>4, YearWithin
  <2>7. YearStart(100 * c + t) <= d
    <3>1. YearStart(100 * c + t) = 36524 * c + 365 * t + t \div 4
      BY <2>1, <2>6, YearStartIs
    <3>. QED
      BY <2>1, <2>6, <3>1
  <2>8. d < YearStart(100 * c + t + 1)
    <3>1. CASE t < 99
      <4>1. YearStart(100 * c + (t + 1)) = 36524 * c + 365 * (t + 1) + (t + 1) \div 4
        BY <2>1, <2>6, <3>1, YearStartIs
      <4>2. 100 * c + (t + 1) = 100 * c + t + 1
        BY <2>1, <2>6
      <4>. QED
        BY <2>1, <2>6, <4>1, <4>2
    <3>2. CASE t = 99
      <4>1. 100 * c + t + 1 = 100 * (c + 1)
        BY <2>1, <3>2
      <4>2. YearStart(100 * (c + 1)) >= 36524 * (c + 1)
        BY <2>1 DEF YearStart
      <4>3. d < 36524 * (c + 1)
        BY SMT, <2>1
      <4>. DEFINE e == YearStart(100 * (c + 1))
      <4>4. e \in Int
        BY SMT DEF YearStart
      <4>. HIDE DEF e
      <4>5. d < e
        BY SMT, <2>1, <4>2, <4>3, <4>4 DEF e
      <4>. QED
        BY SMT, <4>1, <4>5 DEF e
    <3>. QED
      BY <2>6, <3>1, <3>2
  <2>. QED
    BY <2>1, <2>5, <2>6, <2>7, <2>8
<1>. QED
  BY <1>1, <1>2

LEMMA YearStartType ==
  ASSUME NEW y \in Int
  PROVE  YearStart(y) \in Int
BY DEF YearStart

\* A year is as long as the February that ends it makes it.
LEMMA YearLength ==
  ASSUME NEW y \in Int
  PROVE  YearStart(y + 1) = YearStart(y) + IF Leap(y + 1) THEN 366 ELSE 365
<1>1. (y + 1) \div 4 = y \div 4 + IF (y + 1) % 4 = 0 THEN 1 ELSE 0
  BY SMT
<1>2. (y + 1) \div 100 = y \div 100 + IF (y + 1) % 100 = 0 THEN 1 ELSE 0
  BY SMT
<1>3. (y + 1) \div 400 = y \div 400 + IF (y + 1) % 400 = 0 THEN 1 ELSE 0
  BY SMT
<1>4. /\ (y + 1) % 400 = 0 => (y + 1) % 100 = 0
      /\ (y + 1) % 100 = 0 => (y + 1) % 4 = 0
  BY SMT
<1>. QED
  BY SMT, <1>1, <1>2, <1>3, <1>4 DEF YearStart, Leap

LEMMA YearStartGrows ==
  ASSUME NEW x \in Int, NEW y \in Int, x <= y
  PROVE  YearStart(x) <= YearStart(y)
<1>1. CASE x = y
  BY SMT, <1>1, YearStartType
<1>2. CASE x < y
  <2>1. /\ x \div 4 \in Int /\ 4 * (x \div 4) <= x /\ x < 4 * (x \div 4) + 4
        /\ y \div 4 \in Int /\ 4 * (y \div 4) <= y /\ y < 4 * (y \div 4) + 4
    BY SMT
  <2>2. /\ x \div 100 \in Int /\ 100 * (x \div 100) <= x /\ x < 100 * (x \div 100) + 100
        /\ y \div 100 \in Int /\ 100 * (y \div 100) <= y /\ y < 100 * (y \div 100) + 100
    BY SMT
  <2>3. /\ x \div 400 \in Int /\ 400 * (x \div 400) <= x /\ x < 400 * (x \div 400) + 400
        /\ y \div 400 \in Int /\ 400 * (y \div 400) <= y /\ y < 400 * (y \div 400) + 400
    BY SMT
  <2>. QED
    BY SMT, <1>2, <2>1, <2>2, <2>3 DEF YearStart
<1>. QED
  BY SMT, <1>1, <1>2

\* A day lies in one year.
LEMMA YearUnique ==
  ASSUME NEW n \in Int, NEW x \in Int, NEW y \in Int,
         YearStart(x) <= n, n < YearStart(x + 1), YearStart(y) <= n, n < YearStart(y + 1)
  PROVE  x = y
<1>1. ASSUME NEW a \in Int, NEW b \in Int, a < b, YearStart(b) <= n, n < YearStart(a + 1) PROVE FALSE
  <2>1. a + 1 \in Int /\ a + 1 <= b
    BY SMT, <1>1
  <2>2. YearStart(a + 1) <= YearStart(b)
    BY SMT, <2>1, YearStartGrows
  <2>. QED
    BY SMT, <1>1, <2>1, <2>2, YearStartType
<1>. QED
  BY SMT, <1>1

\* The date of the day doy of the year that begins on 1 March of y.
MonthStart(mp) == (153 * mp + 2) \div 5
MonthOf(doy) == (5 * doy + 2) \div 153
DateOf(y, doy) ==
  LET mp == MonthOf(doy)
  IN  [year  |-> IF mp < 10 THEN y ELSE y + 1,
       month |-> IF mp < 10 THEN mp + 3 ELSE mp - 9,
       day   |-> doy - MonthStart(mp) + 1]

\* The day z is the day doy of that year.
IsDay(z, y, doy) ==
  /\ y \in Int /\ doy \in Int /\ 0 <= doy /\ doy < (IF Leap(y + 1) THEN 366 ELSE 365)
  /\ z + 719468 = YearStart(y) + doy

\* The calendar repeats after 400 years.
LEMMA EraStart ==
  ASSUME NEW y \in Int, NEW era \in Int
  PROVE  YearStart(y + era * 400) = YearStart(y) + era * 146097
<1>1. (y + era * 400) \div 4 = y \div 4 + 100 * era
  BY SMT
<1>2. (y + era * 400) \div 100 = y \div 100 + 4 * era
  BY SMT
<1>3. (y + era * 400) \div 400 = y \div 400 + era
  BY SMT
<1>. QED
  BY SMT, <1>1, <1>2, <1>3 DEF YearStart

\* What the code finds is the date of the day within the year it lies in.
LEMMA Civil ==
  ASSUME NEW z \in Int
  PROVE  \E y, doy : IsDay(z, y, doy) /\ CivilFromDays(z) = DateOf(y, doy)
<1>. DEFINE n == z + 719468
            era == n \div 146097
            doe == n - era * 146097
            yoe == YearOfEra(doe)
            y == yoe + era * 400
<1>1. era \in Int /\ doe \in Int /\ 0 <= doe /\ doe <= 146096 /\ n = doe + era * 146097
  BY SMT
<1>. HIDE DEF era, doe
<1>2. /\ yoe \in Int /\ 0 <= yoe /\ yoe <= 399
      /\ YearStart(yoe) <= doe /\ doe < YearStart(yoe + 1)
  BY SMT, <1>1, YearFound
<1>3. y \in Int
  BY SMT, <1>1, <1>2
<1>4. YearStart(y) = YearStart(yoe) + era * 146097 /\ YearStart(y + 1) = YearStart(yoe + 1) + era * 146097
  <2>1. yoe + 1 \in Int /\ y + 1 = (yoe + 1) + era * 400
    BY SMT, <1>1, <1>2
  <2>. QED
    BY SMT, <1>1, <1>2, <2>1, EraStart
<1>5. YearStart(yoe) \in Int /\ YearStart(yoe + 1) \in Int
  BY SMT, <1>2, YearStartType
<1>6. IsDay(z, y, doe - YearStart(yoe))
  <2>1. YearStart(yoe + 1) = YearStart(yoe) + IF Leap(yoe + 1) THEN 366 ELSE 365
    BY SMT, <1>2, YearLength
  <2>2. YearStart(y + 1) = YearStart(y) + IF Leap(y + 1) THEN 366 ELSE 365
    BY SMT, <1>3, YearLength
  <2>. QED
    BY SMT, <1>1, <1>2, <1>3, <1>4, <1>5, <2>1, <2>2 DEF IsDay
<1>8. doe - (365 * yoe + yoe \div 4 - yoe \div 100) = doe - YearStart(yoe)
  <2>1. yoe \div 400 = 0
    BY SMT, <1>2
  <2>. QED
    BY SMT, <1>1, <1>2, <2>1 DEF YearStart
<1>9. CivilFromDays(z) = DateOf(y, doe - YearStart(yoe))
  <2>. DEFINE doy == doe - YearStart(yoe)
              mp == MonthOf(doy)
              m == IF mp < 10 THEN mp + 3 ELSE mp - 9
  <2>1. CivilFromDays(z)
          = [year |-> y + (IF m <= 2 THEN 1 ELSE 0), month |-> m, day |-> doy - MonthStart(mp) + 1]
    <3>1. (z + 719468) - ((z + 719468) \div 146097) * 146097 = doe
      BY SMT DEF doe, era
    <3>. QED
      BY SMT, <1>8, <3>1 DEF CivilFromDays, Cycle, MonthStart, MonthOf, era, doe
  <2>2. 0 <= doy /\ doy <= 365 /\ doy \in Int
    <3>1. YearStart(yoe + 1) = YearStart(yoe) + IF Leap(yoe + 1) THEN 366 ELSE 365
      BY SMT, <1>2, YearLength
    <3>. QED
      BY SMT, <1>1, <1>2, <1>5, <3>1
  <2>3. mp \in Int /\ 0 <= mp /\ mp <= 11
    BY SMT, <2>2 DEF MonthOf
  <2>4. y + (IF m <= 2 THEN 1 ELSE 0) = IF mp < 10 THEN y ELSE y + 1
    BY SMT, <1>3, <2>3
  <2>. QED
    BY SMT, <2>1, <2>4 DEF DateOf
<1>. QED
  BY SMT, <1>6, <1>9

\* The month that a day of a year lies in is the code's, of twelve that begin in March.
LEMMA MonthFound ==
  ASSUME NEW doy \in Int, 0 <= doy, doy <= 366
  PROVE  /\ MonthOf(doy) \in Int /\ 0 <= MonthOf(doy) /\ MonthOf(doy) <= 11
         /\ MonthStart(MonthOf(doy)) <= doy /\ doy < MonthStart(MonthOf(doy) + 1)
         /\ \A k \in Int : MonthStart(k) <= doy /\ doy < MonthStart(k + 1) => MonthOf(doy) = k
BY SMT DEF MonthOf, MonthStart

LEMMA DateInMonth ==
  ASSUME NEW y, NEW doy, NEW mp, MonthOf(doy) = mp
  PROVE  DateOf(y, doy) = [year  |-> IF mp < 10 THEN y ELSE y + 1,
                           month |-> IF mp < 10 THEN mp + 3 ELSE mp - 9,
                           day   |-> doy - MonthStart(mp) + 1]
BY DEF DateOf

\* Different days have different dates, for all days before and after the epoch.
THEOREM DatesDiffer ==
  ASSUME NEW a \in Int, NEW b \in Int, CivilFromDays(a) = CivilFromDays(b)
  PROVE  a = b
<1>1. PICK x, p : IsDay(a, x, p) /\ CivilFromDays(a) = DateOf(x, p)
  BY SMT, Civil
<1>2. PICK y, q : IsDay(b, y, q) /\ CivilFromDays(b) = DateOf(y, q)
  BY SMT, Civil
<1>3. x \in Int /\ y \in Int /\ YearStart(x) \in Int /\ YearStart(y) \in Int
  BY SMT, <1>1, <1>2, YearStartType DEF IsDay
<1>4. p \in Int /\ 0 <= p /\ p <= 366 /\ q \in Int /\ 0 <= q /\ q <= 366
  BY SMT, <1>1, <1>2 DEF IsDay
<1>5. DateOf(x, p) = DateOf(y, q)
  BY <1>1, <1>2, Zenon
<1>6. /\ MonthOf(p) \in Int /\ 0 <= MonthOf(p) /\ MonthOf(p) <= 11
      /\ MonthOf(q) \in Int /\ 0 <= MonthOf(q) /\ MonthOf(q) <= 11
  BY SMT, <1>4, MonthFound
<1>7. /\ DateOf(x, p).month = DateOf(y, q).month
      /\ DateOf(x, p).year = DateOf(y, q).year
      /\ DateOf(x, p).day = DateOf(y, q).day
  BY SMT, <1>5
<1>8. MonthOf(p) = MonthOf(q)
  BY SMT, <1>6, <1>7 DEF DateOf
<1>9. x = y
  <2>1. /\ DateOf(x, p).year = IF MonthOf(p) < 10 THEN x ELSE x + 1
        /\ DateOf(y, q).year = IF MonthOf(q) < 10 THEN y ELSE y + 1
    BY DEF DateOf
  <2>2. IF MonthOf(p) < 10 THEN x = y ELSE x + 1 = y + 1
    BY <1>7, <1>8, <2>1, Zenon
  <2>. QED
    BY SMT, <1>3, <1>6, <2>2
<1>10. p = q
  BY SMT, <1>4, <1>6, <1>7, <1>8 DEF DateOf, MonthStart
<1>. QED
  BY SMT, <1>1, <1>2, <1>3, <1>9, <1>10 DEF IsDay

\* Two moments fall on one counter exactly when they fall on one UTC day.
THEOREM OneKeyPerDay ==
  ASSUME NEW s \in Int, NEW t \in Int
  PROVE  DayKey(s) = DayKey(t) <=> s \div 86400 = t \div 86400
<1>. DEFINE a == s \div 86400
            b == t \div 86400
<1>1. a \in Int /\ b \in Int
  BY SMT
<1>2. DayKey(s) = CivilFromDays(a) /\ DayKey(t) = CivilFromDays(b)
  BY SMT DEF DayKey
<1>. HIDE DEF a, b
<1>3. DayKey(s) = DayKey(t) <=> a = b
  BY <1>1, <1>2, DatesDiffer, Zenon
<1>. QED
  BY SMT, <1>3 DEF a, b

\* The date of a day is the calendar's next after that of the day before.
THEOREM DatesFollow ==
  ASSUME NEW z \in Int
  PROVE  CivilFromDays(z + 1) = DayAfter(CivilFromDays(z))
<1>1. PICK y, doy : IsDay(z, y, doy) /\ CivilFromDays(z) = DateOf(y, doy)
  BY SMT, Civil
<1>2. PICK x, p : IsDay(z + 1, x, p) /\ CivilFromDays(z + 1) = DateOf(x, p)
  BY SMT, Civil
<1>3. /\ y \in Int /\ x \in Int /\ YearStart(x) \in Int /\ YearStart(y) \in Int
      /\ doy \in Int /\ 0 <= doy /\ doy <= 365 /\ p \in Int /\ 0 <= p /\ p <= 365
  BY SMT, <1>1, <1>2, YearStartType DEF IsDay
<1>. DEFINE long == IF Leap(y + 1) THEN 366 ELSE 365
            mp == MonthOf(doy)
<1>4. YearStart(y + 1) = YearStart(y) + long
  BY SMT, <1>3, YearLength
<1>5. long \in {365, 366} /\ doy < long
  BY SMT, <1>1 DEF IsDay
<1>6. /\ doy + 1 < long => x = y /\ p = doy + 1
      /\ doy + 1 = long => x = y + 1 /\ p = 0
  <2>1. ASSUME NEW w \in Int, YearStart(w) <= z + 1 + 719468, z + 1 + 719468 < YearStart(w + 1) PROVE w = x
    <3>1. YearStart(x) <= z + 1 + 719468 /\ z + 1 + 719468 < YearStart(x + 1)
      BY SMT, <1>2, <1>3, YearLength DEF IsDay
    <3>2. z + 1 + 719468 \in Int
      BY SMT
    <3>. QED
      BY SMT, <1>3, <2>1, <3>1, <3>2, YearUnique
  <2>2. z + 719468 = YearStart(y) + doy /\ z + 1 + 719468 = YearStart(x) + p
    BY SMT, <1>1, <1>2 DEF IsDay
  <2>3. ASSUME doy + 1 < long PROVE x = y /\ p = doy + 1
    <3>1. x = y
      BY SMT, <1>3, <1>4, <2>1, <2>2, <2>3
    <3>. QED
      BY SMT, <1>3, <2>2, <3>1
  <2>4. ASSUME doy + 1 = long PROVE x = y + 1 /\ p = 0
    <3>1. YearStart(y + 1) = z + 1 + 719468
      BY SMT, <1>3, <1>4, <2>2, <2>4
    <3>2. YearStart(y + 1) < YearStart(y + 1 + 1)
      BY SMT, <1>3, YearLength, YearStartType
    <3>3. x = y + 1
      BY SMT, <1>3, <2>1, <3>1, <3>2
    <3>. QED
      BY SMT, <1>3, <2>2, <3>1, <3>3
  <2>. QED
    BY SMT, <2>3, <2>4
<1>. DEFINE date == DateOf(y, doy)
            last == IF mp = 11 THEN long - 337 ELSE MonthStart(mp + 1) - MonthStart(mp)
<1>7. mp \in Int /\ 0 <= mp /\ mp <= 11 /\ MonthStart(mp) <= doy /\ doy < MonthStart(mp + 1)
  BY SMT, <1>3, MonthFound
<1>8. /\ date = [year |-> date.year, month |-> date.month, day |-> date.day]
      /\ date.year = IF mp < 10 THEN y ELSE y + 1
      /\ date.month = IF mp < 10 THEN mp + 3 ELSE mp - 9
      /\ date.day = doy - MonthStart(mp) + 1
  BY DEF DateOf
<1>. HIDE DEF mp, date
<1>9. MonthLength(date.year, date.month) = last
  <2>1. CASE mp = 11
    <3>1. date.month = 2 /\ date.year = y + 1
      BY SMT, <1>8, <2>1
    <3>. QED
      BY SMT, <2>1, <3>1 DEF MonthLength
  <2>2. CASE mp < 11
    <3>1. date.month # 2
      BY SMT, <1>7, <1>8, <2>2
    <3>2. date.month \in {4, 6, 9, 11} <=> mp \in {1, 3, 6, 8}
      BY SMT, <1>7, <1>8, <2>2
    <3>3. MonthStart(mp + 1) - MonthStart(mp) = IF mp \in {1, 3, 6, 8} THEN 30 ELSE 31
      BY SMT, <1>7, <2>2 DEF MonthStart
    <3>. QED
      BY SMT, <2>2, <3>1, <3>2, <3>3 DEF MonthLength
  <2>. QED
    BY SMT, <1>7, <2>1, <2>2
<1>10. CASE date.day < last
  <2>1. doy + 1 < long /\ MonthOf(doy + 1) = mp
    BY SMT, <1>3, <1>5, <1>7, <1>8, <1>10, MonthFound DEF MonthStart
  <2>2. x = y /\ p = doy + 1
    BY SMT, <1>6, <2>1
  <2>3. MonthOf(p) = mp
    BY SMT, <2>1, <2>2
  <2>4. p - MonthStart(mp) + 1 = date.day + 1
    BY SMT, <1>3, <1>7, <1>8, <2>2 DEF MonthStart
  <2>5. DateOf(x, p) = [year |-> date.year, month |-> date.month, day |-> date.day + 1]
    <3>1. DateOf(y, p) = [year  |-> IF mp < 10 THEN y ELSE y + 1,
                          month |-> IF mp < 10 THEN mp + 3 ELSE mp - 9,
                          day   |-> p - MonthStart(mp) + 1]
      BY <2>3, DateInMonth, Zenon
    <3>2. DateOf(x, p) = DateOf(y, p)
      BY <2>2, Zenon
    <3>. QED
      BY <1>8, <2>4, <3>1, <3>2, Zenon
  <2>6. DayAfter(date) = [date EXCEPT !.day = @ + 1]
    BY SMT, <1>9, <1>10 DEF DayAfter
  <2>. QED
    BY <1>1, <1>2, <1>8, <2>5, <2>6 DEF date
<1>11. CASE ~(date.day < last)
  <2>1. CASE mp < 11
    <3>1. doy + 1 = MonthStart(mp + 1) /\ doy + 1 < long
      BY SMT, <1>3, <1>5, <1>7, <1>8, <1>11, <2>1 DEF MonthStart
    <3>2. MonthOf(doy + 1) = mp + 1
      BY SMT, <1>7, <2>1, <3>1 DEF MonthStart, MonthOf
    <3>3. CivilFromDays(z + 1) = DateOf(y, doy + 1)
      BY SMT, <1>2, <1>6, <3>1
    <3>4. DateOf(y, doy + 1) = [year  |-> IF mp + 1 < 10 THEN y ELSE y + 1,
                                month |-> IF mp + 1 < 10 THEN mp + 4 ELSE mp - 8,
                                day   |-> 1]
      BY SMT, <1>3, <1>7, <3>1, <3>2 DEF DateOf
    <3>5. CASE mp = 9
      BY SMT, <1>1, <1>8, <1>9, <1>11, <3>3, <3>4, <3>5 DEF DayAfter, date
    <3>6. CASE mp # 9
      <4>1. date.month < 12
        BY SMT, <1>7, <1>8, <2>1, <3>6
      <4>2. DayAfter(date) = [date EXCEPT !.month = @ + 1, !.day = 1]
        BY SMT, <1>9, <1>11, <4>1 DEF DayAfter
      <4>3. DateOf(y, doy + 1) = [year |-> date.year, month |-> date.month + 1, day |-> 1]
        BY SMT, <1>3, <1>7, <1>8, <3>4, <3>6
      <4>. QED
        BY <1>1, <1>8, <3>3, <4>2, <4>3 DEF date
    <3>. QED
      BY <3>5, <3>6
  <2>2. CASE mp = 11
    <3>1. doy + 1 = long
      BY SMT, <1>3, <1>5, <1>8, <1>11, <2>2 DEF MonthStart
    <3>2. CivilFromDays(z + 1) = DateOf(y + 1, 0)
      BY SMT, <1>2, <1>6, <3>1
    <3>3. DateOf(y + 1, 0) = [year |-> y + 1, month |-> 3, day |-> 1]
      BY SMT DEF DateOf, MonthOf, MonthStart
    <3>4. date.month = 2 /\ date.year = y + 1
      BY SMT, <1>8, <2>2
    <3>5. DayAfter(date) = [date EXCEPT !.month = @ + 1, !.day = 1]
      BY SMT, <1>9, <1>11, <3>4 DEF DayAfter
    <3>6. DateOf(y + 1, 0) = [year |-> date.year, month |-> date.month + 1, day |-> 1]
      <4>1. date.month + 1 = 3
        BY SMT, <3>4
      <4>. QED
        BY <3>3, <3>4, <4>1, Zenon
    <3>. QED
      BY <1>1, <1>8, <3>2, <3>5, <3>6 DEF date
  <2>. QED
    BY SMT, <1>7, <2>1, <2>2
<1>. QED
  BY <1>10, <1>11
=============================================================================
