-------------------------- MODULE PaperNettingProofs --------------------------
(***************************************************************************)
(* The position of the market nets the listed trades: what the paper       *)
(* connector holds is the sum of what the strategy believes it holds, for  *)
(* every number of trades, quantity, price and level, with exchange side   *)
(* take-profits and any mix of market and limit entries that only go one   *)
(* way, or with market entries that reverse.                               *)
(***************************************************************************)
EXTENDS PaperTradingProofs, FiniteSetTheorems, WellFoundedInduction

-----------------------------------------------------------------------------
(* Sums over finite sets.                                                  *)

LEMMA LeastElement ==
  ASSUME NEW T \in SUBSET Nat, T # {}
  PROVE  \E n \in T : \A m \in T : n <= m
  <1>1. \E n \in T : \A m \in T : ~ (<<m, n>> \in OpToRel(<, Nat))
    BY NatLessThanWellFounded, WFMin
  <1>2. ASSUME NEW n \in T, NEW m \in T, <<m, n>> \notin OpToRel(<, Nat)
        PROVE  n <= m
    <2>1. ~(m < n)
      BY <1>2 DEF OpToRel
    <2> QED
      BY <2>1
  <1> QED
    BY <1>1, <1>2

(* Induction over the subsets of a finite set: what holds of a subset as   *)
(* soon as it holds of the subsets with one element less holds of the set. *)
LEMMA SubsetInduction ==
  ASSUME NEW S, IsFiniteSet(S), NEW P \in SUBSET SUBSET S,
         \A s \in SUBSET S : (\A x \in s : s \ {x} \in P) => s \in P
  PROVE  S \in P
  <1> DEFINE Bad == {n \in Nat : \E s \in SUBSET S : Cardinality(s) = n /\ s \notin P}
  <1>1. \A s \in SUBSET S : IsFiniteSet(s) /\ Cardinality(s) \in Nat
    BY FS_Subset, FS_CardinalityType
  <1>2. SUFFICES ASSUME Bad # {} PROVE FALSE
    BY <1>1
  <1>3. PICK n \in Bad : \A m \in Bad : n <= m
    <2>1. Bad \in SUBSET Nat
      OBVIOUS
    <2> HIDE DEF Bad
    <2> QED
      BY <1>2, <2>1, LeastElement
  <1>4. PICK s \in SUBSET S : Cardinality(s) = n /\ s \notin P
    OBVIOUS
  <1>5. PICK x \in s : s \ {x} \notin P
    BY <1>4
  <1>6. Cardinality(s \ {x}) = n - 1 /\ Cardinality(s \ {x}) \in Nat /\ s \ {x} \in SUBSET S
    BY <1>1, <1>4, <1>5, FS_RemoveElement
  <1>7. n - 1 \in Bad
    BY <1>5, <1>6
  <1>8. n \in Nat /\ ~ (n <= n - 1)
    OBVIOUS
  <1> HIDE DEF Bad
  <1> QED
    BY <1>3, <1>7, <1>8

(* g sums f over the subsets of T that have at most n elements.            *)
Small(T, n) == {s \in SUBSET T : Cardinality(s) <= n}
Sums(f, g, D) ==
  g = [s \in D |-> IF s = {} THEN 0
                   ELSE LET x == CHOOSE e \in s : TRUE IN f[x] + g[s \ {x}]]

LEMMA SumDef ==
  ASSUME NEW f, NEW S
  PROVE  SumFunctionOnSet(f, S) = (CHOOSE g : Sums(f, g, SUBSET S))[S]
  BY DEF SumFunctionOnSet, FoldFunctionOnSet, MapThenFoldSet, Sums

Step(f, g, s) == IF s = {} THEN 0 ELSE LET x == CHOOSE e \in s : TRUE IN f[x] + g[s \ {x}]

LEMMA SumsBySteps == ASSUME NEW f, NEW g, NEW D, Sums(f, g, D)
                     PROVE  \A s \in D : g[s] = Step(f, g, s)
  BY DEF Sums, Step

LEMMA SumsExist ==
  ASSUME NEW f, NEW S, IsFiniteSet(S)
  PROVE  \E g : Sums(f, g, SUBSET S)
  <1> DEFINE Bad == {n \in Nat : \A g : ~ Sums(f, g, Small(S, n))}
  <1>0. \A s \in SUBSET S : IsFiniteSet(s) /\ Cardinality(s) \in Nat /\ Cardinality(s) <= Cardinality(S)
    BY FS_Subset, FS_CardinalityType
  <1>1. SUFFICES Bad = {}
    <2>1. Cardinality(S) \in Nat
      BY FS_CardinalityType
    <2>2. Small(S, Cardinality(S)) = SUBSET S
      BY <1>0 DEF Small
    <2>3. Cardinality(S) \notin Bad
      BY <1>1
    <2>4. \E g : Sums(f, g, Small(S, Cardinality(S)))
      BY <2>1, <2>3
    <2> QED
      BY <2>2, <2>4
  <1>2. SUFFICES ASSUME Bad # {} PROVE FALSE
    OBVIOUS
  <1>3. PICK n \in Bad : \A m \in Bad : n <= m
    <2>1. Bad \in SUBSET Nat
      OBVIOUS
    <2> HIDE DEF Bad
    <2> QED
      BY <1>2, <2>1, LeastElement
  <1>4. n \in Nat
    OBVIOUS
  <1>5. CASE n = 0
    <2> DEFINE g == [s \in Small(S, 0) |-> 0]
    <2>1. \A s \in Small(S, 0) : s = {}
      BY <1>0, FS_EmptySet DEF Small
    <2>2. Sums(f, g, Small(S, 0))
      BY <2>1 DEF Sums
    <2> QED
      BY <1>5, <2>2
  <1>6. CASE n # 0
    <2>1. n - 1 \in Nat /\ n - 1 \notin Bad
      BY <1>3, <1>4, <1>6
    <2>2. PICK g : Sums(f, g, Small(S, n - 1))
      BY <2>1
    <2> DEFINE h == [s \in Small(S, n) |-> IF s \in Small(S, n - 1) THEN g[s] ELSE Step(f, g, s)]
    <2>3. \A s \in Small(S, n) : h[s] = Step(f, g, s)
      BY <2>2, SumsBySteps
    <2>4. ASSUME NEW s \in Small(S, n), s # {}, NEW x \in s
          PROVE  s \ {x} \in Small(S, n - 1) /\ s \ {x} \in Small(S, n)
      <3>1. IsFiniteSet(s) /\ s \in SUBSET S /\ Cardinality(s) \in Nat /\ Cardinality(s) <= n
        BY <1>0 DEF Small
      <3>2. Cardinality(s \ {x}) = Cardinality(s) - 1
        BY <3>1, FS_RemoveElement
      <3> QED
        BY <1>4, <3>1, <3>2 DEF Small
    <2>5. \A s \in Small(S, n - 1) : s \in Small(S, n) => h[s] = g[s]
      OBVIOUS
    <2> HIDE DEF h
    <2>6. \A s \in Small(S, n) : h[s] = Step(f, h, s)
      <3> SUFFICES ASSUME NEW s \in Small(S, n), s # {} PROVE h[s] = Step(f, h, s)
        BY <2>3 DEF Step
      <3> DEFINE x == CHOOSE e \in s : TRUE
      <3>1. x \in s
        OBVIOUS
      <3> HIDE DEF x
      <3>2. h[s \ {x}] = g[s \ {x}]
        BY <2>4, <2>5, <3>1
      <3> QED
        BY <2>3, <3>2 DEF Step, x
    <2>7. Sums(f, h, Small(S, n))
      <3>1. h = [s \in Small(S, n) |-> h[s]]
        BY DEF h
      <3>2. [s \in Small(S, n) |-> h[s]] = [s \in Small(S, n) |-> Step(f, h, s)]
        BY <2>6
      <3> QED
        BY <3>1, <3>2 DEF Sums, Step
    <2> QED
      BY <2>7
  <1> QED
    BY <1>5, <1>6

(* Two sums of one function agree, whatever sets they were defined on.     *)
SumsAll(f, g, S) == Sums(f, g, SUBSET S)

LEMMA SumsUnique ==
  ASSUME NEW f, NEW S, NEW T, IsFiniteSet(S), T \subseteq S,
         NEW g, SumsAll(f, g, S), NEW h, SumsAll(f, h, T)
  PROVE  g[T] = h[T]
  <1> DEFINE P == {s \in SUBSET T : g[s] = h[s]}
  <1>1. ASSUME NEW s \in SUBSET T, \A x \in s : s \ {x} \in P PROVE s \in P
    <2>1. g[s] = Step(f, g, s) /\ h[s] = Step(f, h, s)
      BY SumsBySteps DEF SumsAll
    <2>2. s # {} => g[s \ {CHOOSE e \in s : TRUE}] = h[s \ {CHOOSE e \in s : TRUE}]
      BY <1>1
    <2> QED
      BY <2>1, <2>2 DEF Step
  <1>2. IsFiniteSet(T) /\ P \in SUBSET SUBSET T
    BY FS_Subset
  <1> HIDE DEF P
  <1>3. T \in P
    BY <1>1, <1>2, SubsetInduction
  <1> QED
    BY <1>3 DEF P

(* The equation of the sum over a finite set.                              *)
LEMMA SumStep ==
  ASSUME NEW f, NEW S, IsFiniteSet(S)
  PROVE  SumFunctionOnSet(f, S) =
           IF S = {} THEN 0
           ELSE LET x == CHOOSE e \in S : TRUE IN f[x] + SumFunctionOnSet(f, S \ {x})
  <1>1. ASSUME NEW T \in SUBSET S
        PROVE  \E g : Sums(f, g, SUBSET T) /\ SumFunctionOnSet(f, T) = g[T]
    <2>1. \E g : Sums(f, g, SUBSET T)
      BY FS_Subset, SumsExist
    <2> DEFINE g == CHOOSE g : Sums(f, g, SUBSET T)
    <2>2. Sums(f, g, SUBSET T)
      BY <2>1
    <2>3. SumFunctionOnSet(f, T) = g[T]
      BY SumDef
    <2> QED
      BY <2>2, <2>3
  <1>2. PICK g : Sums(f, g, SUBSET S) /\ SumFunctionOnSet(f, S) = g[S]
    BY <1>1
  <1>3. ASSUME NEW T \in SUBSET S PROVE g[T] = SumFunctionOnSet(f, T)
    <2>1. PICK h : Sums(f, h, SUBSET T) /\ SumFunctionOnSet(f, T) = h[T]
      BY <1>1
    <2>2. SumsAll(f, g, S) /\ SumsAll(f, h, T) /\ T \subseteq S
      BY <1>2, <2>1 DEF SumsAll
    <2>3. g[T] = h[T]
      BY <2>2, SumsUnique
    <2> QED
      BY <2>1, <2>3
  <1>4. g[S] = Step(f, g, S)
    BY <1>2, SumsBySteps
  <1> QED
    BY <1>2, <1>3, <1>4 DEF Step

LEMMA SumEmpty == ASSUME NEW f PROVE SumFunctionOnSet(f, {}) = 0
  BY SumStep, FS_EmptySet

(* Sums of integers.                                                       *)
LEMMA SumIsInt ==
  ASSUME NEW f, NEW S, IsFiniteSet(S), \A x \in S : f[x] \in Int
  PROVE  SumFunctionOnSet(f, S) \in Int
  <1> DEFINE Sum(s) == SumFunctionOnSet(f, s)
             P == {s \in SUBSET S : Sum(s) \in Int}
  <1>1. ASSUME NEW s \in SUBSET S, \A x \in s : s \ {x} \in P PROVE s \in P
    <2>1. CASE s = {}
      BY <2>1, SumEmpty
    <2>2. CASE s # {}
      <3> DEFINE x == CHOOSE e \in s : TRUE
      <3>1. x \in s
        BY <2>2
      <3>2. Sum(s) = f[x] + Sum(s \ {x})
        BY <2>2, FS_Subset, SumStep
      <3> HIDE DEF x
      <3> QED
        BY <1>1, <3>1, <3>2
    <2> QED
      BY <2>1, <2>2
  <1>2. P \in SUBSET SUBSET S
    OBVIOUS
  <1> HIDE DEF P
  <1>3. S \in P
    BY <1>1, <1>2, SubsetInduction
  <1> QED
    BY <1>3 DEF P

(* Any element can be taken out first.                                     *)
LEMMA SumRemove ==
  ASSUME NEW f, NEW S, IsFiniteSet(S), \A x \in S : f[x] \in Int, NEW y \in S
  PROVE  SumFunctionOnSet(f, S) = f[y] + SumFunctionOnSet(f, S \ {y})
  <1> DEFINE Sum(s) == SumFunctionOnSet(f, s)
             P == {s \in SUBSET S : \A z \in s : Sum(s) = f[z] + Sum(s \ {z})}
  <1>0. \A s \in SUBSET S : IsFiniteSet(s) /\ Sum(s) \in Int
    BY FS_Subset, SumIsInt
  <1>1. ASSUME NEW s \in SUBSET S, \A x \in s : s \ {x} \in P, NEW z \in s
        PROVE  Sum(s) = f[z] + Sum(s \ {z})
    <2> DEFINE x == CHOOSE e \in s : TRUE
    <2>1. x \in s
      OBVIOUS
    <2>2. Sum(s) = f[x] + Sum(s \ {x})
      BY <1>0, SumStep
    <2> HIDE DEF x, Sum
    <2>3. CASE x = z
      BY <2>2, <2>3
    <2>4. CASE x # z
      <3>1. Sum(s \ {x}) = f[z] + Sum((s \ {x}) \ {z})
        BY <1>1, <2>1, <2>4
      <3>2. Sum(s \ {z}) = f[x] + Sum((s \ {z}) \ {x})
        BY <1>1, <2>1, <2>4
      <3>3. Sum((s \ {x}) \ {z}) = Sum((s \ {z}) \ {x}) /\ Sum((s \ {z}) \ {x}) \in Int
        <4>1. (s \ {x}) \ {z} = (s \ {z}) \ {x}
          OBVIOUS
        <4> QED
          BY <1>0, <4>1
      <3>4. f[x] \in Int /\ f[z] \in Int
        BY <2>1
      <3> QED
        BY <2>2, <3>1, <3>2, <3>3, <3>4
    <2> QED
      BY <2>3, <2>4
  <1>2. /\ P \in SUBSET SUBSET S
        /\ \A s \in SUBSET S : (\A x \in s : s \ {x} \in P) => s \in P
    BY <1>1
  <1> HIDE DEF P
  <1>3. S \in P
    BY <1>2, SubsetInduction
  <1> QED
    BY <1>3 DEF P

LEMMA SumTimes ==
  ASSUME NEW f, NEW g, NEW S, IsFiniteSet(S), NEW d \in {-1, 0, 1},
         \A x \in S : f[x] \in Int /\ g[x] = d * f[x]
  PROVE  SumFunctionOnSet(g, S) = d * SumFunctionOnSet(f, S)
  <1> DEFINE F(s) == SumFunctionOnSet(f, s)
             G(s) == SumFunctionOnSet(g, s)
             P == {s \in SUBSET S : G(s) = d * F(s)}
  <1>0. \A s \in SUBSET S : IsFiniteSet(s) /\ F(s) \in Int
    BY FS_Subset, SumIsInt
  <1>1. ASSUME NEW s \in SUBSET S, \A x \in s : s \ {x} \in P
        PROVE  G(s) = d * F(s)
    <2>1. CASE s = {}
      <3>1. G(s) = 0 /\ F(s) = 0
        BY <2>1, SumEmpty
      <3> QED
        BY <3>1
    <2>2. CASE s # {}
      <3> DEFINE x == CHOOSE e \in s : TRUE
      <3>1. x \in s
        BY <2>2
      <3>2. F(s) = f[x] + F(s \ {x}) /\ G(s) = g[x] + G(s \ {x})
        BY <1>0, <2>2, SumStep
      <3> HIDE DEF x, F, G
      <3>3. F(s \ {x}) \in Int /\ G(s \ {x}) = d * F(s \ {x})
        BY <1>0, <1>1, <3>1
      <3>4. f[x] \in Int /\ g[x] = d * f[x]
        BY <3>1
      <3> QED
        BY <3>2, <3>3, <3>4
    <2> QED
      BY <2>1, <2>2
  <1>2. /\ P \in SUBSET SUBSET S
        /\ \A s \in SUBSET S : (\A x \in s : s \ {x} \in P) => s \in P
    BY <1>1
  <1> HIDE DEF P
  <1>3. S \in P
    BY <1>2, SubsetInduction
  <1> QED
    BY <1>3 DEF P

LEMMA SumSame ==
  ASSUME NEW f, NEW g, NEW S, IsFiniteSet(S), \A x \in S : f[x] \in Int /\ g[x] = f[x]
  PROVE  SumFunctionOnSet(g, S) = SumFunctionOnSet(f, S)
  <1>1. \A x \in S : f[x] \in Int /\ g[x] = 1 * f[x]
    OBVIOUS
  <1>2. SumFunctionOnSet(g, S) = 1 * SumFunctionOnSet(f, S)
    BY <1>1, SumTimes
  <1> QED
    BY <1>2, SumIsInt

(* The terms that are zero can be left out of a sum.                       *)
LEMMA SumDropZeros ==
  ASSUME NEW f, NEW S, IsFiniteSet(S), \A x \in S : f[x] \in Int,
         NEW R \in SUBSET S, \A x \in S \ R : f[x] = 0
  PROVE  SumFunctionOnSet(f, R) = SumFunctionOnSet(f, S)
  <1> DEFINE Sum(s) == SumFunctionOnSet(f, s)
             P == {s \in SUBSET S : Sum(s \cap R) = Sum(s)}
  <1>1. ASSUME NEW s \in SUBSET S, \A x \in s : s \ {x} \in P PROVE s \in P
    <2>1. CASE s = {}
      <3>1. s \cap R = s
        BY <2>1
      <3> QED
        BY <3>1
    <2>2. CASE s # {}
      <3>1. PICK x \in s : TRUE
        BY <2>2
      <3>2. IsFiniteSet(s) /\ IsFiniteSet(s \cap R) /\ \A y \in s : f[y] \in Int
        BY FS_Subset
      <3>3. Sum(s) = f[x] + Sum(s \ {x}) /\ Sum((s \ {x}) \cap R) = Sum(s \ {x})
        BY <1>1, <3>1, <3>2, SumRemove
      <3>4. CASE x \in R
        <4>1. Sum(s \cap R) = f[x] + Sum((s \cap R) \ {x})
          BY <3>1, <3>2, <3>4, SumRemove
        <4>2. (s \cap R) \ {x} = (s \ {x}) \cap R
          OBVIOUS
        <4>3. Sum((s \cap R) \ {x}) = Sum(s \ {x})
          BY <3>3, <4>2
        <4> HIDE DEF Sum
        <4>4. Sum(s \cap R) = Sum(s)
          BY <3>3, <4>1, <4>3
        <4> QED
          BY <4>4
      <3>5. CASE x \notin R
        <4>1. s \cap R = (s \ {x}) \cap R /\ f[x] = 0
          BY <3>1, <3>5
        <4>2. Sum(s \ {x}) \in Int
          BY <3>2, FS_RemoveElement, SumIsInt
        <4>3. Sum(s \cap R) = Sum(s \ {x})
          BY <3>3, <4>1
        <4> HIDE DEF Sum
        <4>4. Sum(s \cap R) = Sum(s)
          BY <3>3, <4>1, <4>2, <4>3
        <4> QED
          BY <4>4
      <3> QED
        BY <3>4, <3>5
    <2> QED
      BY <2>1, <2>2
  <1>2. P \in SUBSET SUBSET S
    OBVIOUS
  <1>3. S \in P
    <2> HIDE DEF P
    <2> QED
      BY <1>1, <1>2, SubsetInduction
  <1>4. S \cap R = R
    OBVIOUS
  <1> QED
    BY <1>3, <1>4

LEMMA SumNat ==
  ASSUME NEW f, NEW S, IsFiniteSet(S), \A x \in S : f[x] \in Nat
  PROVE  SumFunctionOnSet(f, S) \in Nat
  <1> DEFINE Sum(s) == SumFunctionOnSet(f, s)
             P == {s \in SUBSET S : Sum(s) \in Nat}
  <1>1. ASSUME NEW s \in SUBSET S, \A x \in s : s \ {x} \in P PROVE s \in P
    <2>1. CASE s = {}
      BY <2>1, SumEmpty
    <2>2. CASE s # {}
      <3> DEFINE x == CHOOSE e \in s : TRUE
      <3>1. x \in s
        BY <2>2
      <3>2. Sum(s) = f[x] + Sum(s \ {x})
        BY <2>2, FS_Subset, SumStep
      <3> HIDE DEF x
      <3> QED
        BY <1>1, <3>1, <3>2
    <2> QED
      BY <2>1, <2>2
  <1>2. P \in SUBSET SUBSET S
    OBVIOUS
  <1> HIDE DEF P
  <1>3. S \in P
    BY <1>1, <1>2, SubsetInduction
  <1> QED
    BY <1>3 DEF P

(* No term of a sum of naturals exceeds it.                                *)
LEMMA SumBounds ==
  ASSUME NEW f, NEW S, IsFiniteSet(S), \A x \in S : f[x] \in Nat, NEW y \in S
  PROVE  f[y] <= SumFunctionOnSet(f, S)
  <1>1. SumFunctionOnSet(f, S) = f[y] + SumFunctionOnSet(f, S \ {y})
    BY SumRemove
  <1>2. SumFunctionOnSet(f, S \ {y}) \in Nat
    BY FS_RemoveElement, SumNat
  <1> QED
    BY <1>1, <1>2

-----------------------------------------------------------------------------
(* The stages of a listed trade.  It waits for its entry order, then holds *)
(* what it entered, with at most a take-profit order in the connector,     *)
(* then it has exited all of it.                                           *)

Waiting(w, r) ==
  LET id == r.entry.orderId
  IN  /\ r.entry.state = "UNDEFINED" /\ id \in OrderIds /\ r.entry.refId = id
      /\ w.book[id].direction = r.direction /\ w.book[id].quantity > 0
      /\ ~w.book[id].reduceOnly
      /\ r.entryQty = 0 /\ r.exitQty = 0
      /\ Idle(r.limit) /\ Idle(r.stop)

Held(w, r) ==
  LET id == r.limit.orderId
  IN  /\ Filled(r.entry) /\ Idle(r.entry) /\ Idle(r.stop)
      /\ r.entryQty > 0 /\ r.exitQty = 0
      /\ \/ Idle(r.limit)
         \/ /\ id \in OrderIds /\ r.limit.refId = id
            /\ w.book[id].direction = -r.direction /\ w.book[id].quantity = r.entryQty
            /\ w.book[id].reduceOnly

ExitsUnused(r) ==
  /\ ~IsClosed(r) /\ ~r.stop.closing /\ r.limit.execQty = 0 /\ r.stop.execQty = 0

Exited(r) == EntryDone(r) /\ IsClosed(r) /\ r.exitQty = r.entryQty

Stage(w, r) ==
  /\ r.direction \in Directions
  /\ \/ ExitsUnused(r) /\ (Waiting(w, r) \/ Held(w, r))
     \/ Exited(r)

OrderOf(r) == IF Idle(r.entry) THEN r.limit.orderId ELSE r.entry.orderId

(* The orders of the connector belong to the listed trades, one each.      *)
OneEach(w, list) ==
  /\ \A u, x \in list :
       OrderOf(w.trades[u]) = OrderOf(w.trades[x]) => u = x \/ OrderOf(w.trades[u]) = NoId
  /\ \A id \in OrderIds : Resting(w, id) => \E u \in list : OrderOf(w.trades[u]) = id

Staged(w, list) == \A u \in list : Stage(w, w.trades[u])

Owns(w, list) == Staged(w, list) /\ OneEach(w, list)

(* The position is the sum of what is left to the trades, which are all on *)
(* its side.                                                               *)
Left(w) == [t \in TradeIds |-> RemainingQty(w.trades[t])]

Nets(w, list) ==
  /\ IsFiniteSet(list)
  /\ w.position.quantity = SumFunctionOnSet(Left(w), list)
  /\ w.position = NoPosition \/ w.position.quantity > 0
  /\ \A t \in list : RemainingQty(w.trades[t]) > 0 => w.position.direction = w.trades[t].direction

LEMMA StageFacts ==
  ASSUME NEW w \in Worlds, NEW r \in TradeRecords, Stage(w, r)
  PROVE  /\ RemainingQty(r) \in Nat
         /\ r.direction \in {-1, 1}
         /\ IsActive(r) => ExitsUnused(r) /\ Held(w, r)
         /\ IsActive(r) => RemainingQty(r) = r.entryQty /\ RemainingQty(r) > 0
         /\ RemainingQty(r) > 0 => IsActive(r)
         /\ IsClosed(r) => Exited(r) /\ RemainingQty(r) = 0
         /\ ~IsActive(r) /\ ~IsClosed(r) => ExitsUnused(r) /\ Waiting(w, r)
         /\ ~IsCanceled(r) /\ r.entry.state # "OPENED"
         /\ OrderOf(r) # NoId => OrderOf(r) \in OrderIds /\ Resting(w, OrderOf(r))
         /\ \A id \in OrderIds : Refers(r, id) <=> OrderOf(r) = id
  <1>1. /\ r.entryQty \in Int /\ r.exitQty \in Int /\ r.direction \in {-1, 1}
        /\ RemainingQty(r) = r.entryQty - r.exitQty
    BY PaperAssumption DEF TradeRecords, RemainingQty, Stage
  <1>2. CASE ExitsUnused(r) /\ Waiting(w, r)
    <2>1. OrderOf(r) = r.entry.orderId /\ OrderOf(r) \in OrderIds /\ r.entry.refId = OrderOf(r)
      BY <1>2, NoIdAssumption DEF OrderOf, Waiting, Idle
    <2>2. Resting(w, OrderOf(r))
      BY <1>2, <2>1 DEF Resting, Waiting, NoOrder
    <2>3. \A id \in OrderIds : Refers(r, id) <=> OrderOf(r) = id
      BY <1>2, <2>1, RefersByOne DEF Waiting
    <2>4. ~IsActive(r) /\ ~IsClosed(r) /\ ~IsCanceled(r) /\ r.entry.state # "OPENED"
      BY <1>2 DEF Waiting, ExitsUnused, IsActive, IsCanceled
    <2> QED
      BY <1>1, <1>2, <2>1, <2>2, <2>3, <2>4 DEF Waiting
  <1>3. CASE ExitsUnused(r) /\ Held(w, r)
    <2>1. OrderOf(r) = r.limit.orderId /\ r.limit.refId = r.limit.orderId
      BY <1>3 DEF OrderOf, Held, Idle
    <2>2. OrderOf(r) # NoId => OrderOf(r) \in OrderIds /\ Resting(w, OrderOf(r))
      BY <1>1, <1>3, <2>1 DEF Resting, Held, NoOrder, Idle
    <2>3. \A id \in OrderIds : Refers(r, id) <=> OrderOf(r) = id
      BY <1>3, <2>1, RefersByOne DEF Held
    <2>4. IsActive(r) /\ ~IsClosed(r) /\ ~IsCanceled(r) /\ r.entry.state # "OPENED"
      BY <1>3 DEF Held, ExitsUnused, IsActive, IsCanceled, Filled
    <2> QED
      BY <1>1, <1>3, <2>2, <2>3, <2>4 DEF Held
  <1>4. CASE Exited(r)
    <2>1. OrderOf(r) = NoId
      BY <1>4 DEF OrderOf, Exited, EntryDone, Idle
    <2>2. \A id \in OrderIds : ~Refers(r, id) /\ id # NoId
      BY <1>4, NoIdAssumption DEF Refers, Exited, EntryDone, Idle
    <2>3. ~IsActive(r) /\ IsClosed(r) /\ ~IsCanceled(r) /\ r.entry.state # "OPENED"
      BY <1>4 DEF Exited, EntryDone, IsActive, IsCanceled, Filled
    <2> QED
      BY <1>1, <1>4, <2>1, <2>2, <2>3 DEF Exited
  <1> QED
    BY <1>2, <1>3, <1>4 DEF Stage

-----------------------------------------------------------------------------
(* A handler changes one trade, and the order of that trade.               *)

Touches(w, v, list, t) ==
  LET old == OrderOf(w.trades[t])
      new == OrderOf(v.trades[t])
  IN  /\ v \in Worlds
      /\ \A u \in TradeIds : u # t => v.trades[u] = w.trades[u]
      /\ Stage(v, v.trades[t])
      /\ \A x \in OrderIds : x # old /\ x # new => v.book[x] = w.book[x]
      /\ \A x \in OrderIds : x = old /\ x # new => ~Resting(v, x)
      /\ new # NoId => \A u \in list : u # t => OrderOf(w.trades[u]) # new

LEMMA StageByBook ==
  ASSUME NEW w \in Worlds, NEW v, NEW r \in TradeRecords, Stage(w, r),
         OrderOf(r) # NoId => v.book[OrderOf(r)] = w.book[OrderOf(r)]
  PROVE  Stage(v, r)
  <1>1. CASE Exited(r)
    BY <1>1 DEF Stage
  <1>2. CASE ExitsUnused(r) /\ Waiting(w, r)
    <2>1. OrderOf(r) = r.entry.orderId /\ OrderOf(r) # NoId
      BY <1>2, NoIdAssumption DEF OrderOf, Waiting, Idle
    <2>2. Waiting(v, r)
      BY <1>2, <2>1 DEF Waiting
    <2> QED
      BY <1>2, <2>2 DEF Stage
  <1>3. CASE ExitsUnused(r) /\ Held(w, r)
    <2>1. OrderOf(r) = r.limit.orderId
      BY <1>3 DEF OrderOf, Held
    <2>2. Held(v, r)
      BY <1>3, <2>1, NoIdAssumption DEF Held
    <2> QED
      BY <1>3, <2>2 DEF Stage
  <1> QED
    BY <1>1, <1>2, <1>3 DEF Stage

LEMMA TouchesOwns ==
  ASSUME NEW w \in Worlds, NEW v, NEW list \in SUBSET TradeIds, NEW t \in list,
         Staged(w, list \ {t}), OneEach(w, list), Touches(w, v, list, t)
  PROVE  Owns(v, list)
  <1> DEFINE old == OrderOf(w.trades[t])
             new == OrderOf(v.trades[t])
  <1>1. /\ v \in Worlds /\ Stage(v, v.trades[t])
        /\ \A u \in list : u # t => v.trades[u] = w.trades[u]
        /\ \A x \in OrderIds : x # old /\ x # new => v.book[x] = w.book[x]
        /\ \A x \in OrderIds : x = old /\ x # new => ~Resting(v, x)
        /\ new # NoId => \A u \in list : u # t => OrderOf(w.trades[u]) # new
    BY DEF Touches
  <1>2. \A u \in list : u # t => OrderOf(w.trades[u]) # old \/ OrderOf(w.trades[u]) = NoId
    BY DEF OneEach
  <1> HIDE DEF old, new
  <1>3. ASSUME NEW u \in list, u # t PROVE Stage(v, v.trades[u])
    <2>1. w.trades[u] \in TradeRecords /\ Stage(w, w.trades[u]) /\ v.trades[u] = w.trades[u]
      BY <1>1, <1>3, WorldUpdates DEF Staged
    <2>2. OrderOf(w.trades[u]) # NoId => OrderOf(w.trades[u]) \in OrderIds
      BY <2>1, StageFacts
    <2>3. OrderOf(w.trades[u]) # NoId
            => OrderOf(w.trades[u]) # old /\ OrderOf(w.trades[u]) # new
      BY <1>1, <1>2, <1>3
    <2>4. OrderOf(w.trades[u]) # NoId
            => v.book[OrderOf(w.trades[u])] = w.book[OrderOf(w.trades[u])]
      BY <1>1, <2>2, <2>3
    <2> QED
      BY <2>1, <2>4, StageByBook
  <1>4. Staged(v, list)
    BY <1>1, <1>3 DEF Staged
  <1>5. ASSUME NEW u \in list, NEW x \in list, u # x,
               OrderOf(v.trades[u]) = OrderOf(v.trades[x])
        PROVE  OrderOf(v.trades[u]) = NoId
    <2>1. CASE u = t
      BY <1>1, <1>5, <2>1 DEF new
    <2>2. CASE x = t
      BY <1>1, <1>5, <2>2 DEF new
    <2>3. CASE u # t /\ x # t
      <3>1. v.trades[u] = w.trades[u] /\ v.trades[x] = w.trades[x]
        BY <1>1, <2>3
      <3> QED
        BY <1>5, <3>1 DEF OneEach
    <2> QED
      BY <2>1, <2>2, <2>3
  <1>6. ASSUME NEW x \in OrderIds, Resting(v, x) PROVE \E u \in list : OrderOf(v.trades[u]) = x
    <2>1. CASE x = new
      BY <2>1 DEF new
    <2>2. CASE x # new
      <3>1. x # old
        BY <1>1, <1>6, <2>2
      <3>2. Resting(w, x)
        BY <1>1, <1>6, <2>2, <3>1 DEF Resting
      <3>3. PICK u \in list : OrderOf(w.trades[u]) = x
        BY <3>2 DEF OneEach
      <3>4. u # t
        BY <3>1, <3>3 DEF old
      <3> QED
        BY <1>1, <3>3, <3>4
    <2> QED
      BY <2>1, <2>2
  <1> QED
    BY <1>4, <1>5, <1>6 DEF Owns, OneEach

-----------------------------------------------------------------------------
(* What a trade adds to the position, or takes from it.                    *)

LEMMA LeftTypes ==
  ASSUME NEW w \in Worlds, NEW list \in SUBSET TradeIds, Staged(w, list)
  PROVE  \A u \in list : Left(w)[u] = RemainingQty(w.trades[u]) /\ Left(w)[u] \in Nat
  BY WorldUpdates, StageFacts DEF Left, Staged

(* The sum after one trade of the list changed.                            *)
LEMMA LeftChanges ==
  ASSUME NEW w \in Worlds, NEW v \in Worlds, NEW list \in SUBSET TradeIds, NEW t \in list,
         IsFiniteSet(list), Staged(w, list), Staged(v, list),
         \A u \in TradeIds : u # t => v.trades[u] = w.trades[u]
  PROVE  LET before == SumFunctionOnSet(Left(w), list)
             after  == SumFunctionOnSet(Left(v), list)
         IN  /\ before \in Nat /\ after \in Nat
             /\ RemainingQty(w.trades[t]) <= before
             /\ after = before - RemainingQty(w.trades[t]) + RemainingQty(v.trades[t])
  <1> DEFINE f == Left(w)
             g == Left(v)
             rest == list \ {t}
             before == SumFunctionOnSet(f, list)
             after  == SumFunctionOnSet(g, list)
  <1>1. \A u \in list : f[u] \in Nat /\ g[u] \in Nat
    BY LeftTypes
  <1>2. f[t] = RemainingQty(w.trades[t]) /\ g[t] = RemainingQty(v.trades[t])
    BY LeftTypes
  <1>3. \A u \in rest : g[u] = f[u]
    BY LeftTypes
  <1>4. IsFiniteSet(rest)
    BY FS_RemoveElement
  <1> HIDE DEF f, g
  <1>5. before = f[t] + SumFunctionOnSet(f, rest) /\ after = g[t] + SumFunctionOnSet(g, rest)
    BY <1>1, SumRemove
  <1>6. SumFunctionOnSet(g, rest) = SumFunctionOnSet(f, rest)
    BY <1>1, <1>3, <1>4, SumSame
  <1>7. before \in Nat /\ after \in Nat /\ f[t] <= before
    BY <1>1, SumNat, SumBounds
  <1>8. SumFunctionOnSet(f, rest) \in Nat
    BY <1>1, <1>4, SumNat
  <1> HIDE DEF before, after, rest
  <1>9. after = before - f[t] + g[t] /\ f[t] \in Nat /\ g[t] \in Nat
    BY <1>1, <1>5, <1>6, <1>7, <1>8
  <1> QED
    BY <1>2, <1>7, <1>9 DEF before, after, f, g

Less(p, qty) == IF qty < p.quantity THEN [p EXCEPT !.quantity = @ - qty] ELSE NoPosition
More(p, d, qty) == [direction |-> d, quantity |-> p.quantity + qty]

LEMMA PositionMoves ==
  ASSUME NEW p \in Positions, NEW order \in Orders, order.quantity > 0
  PROVE  /\ p = NoPosition \/ p.direction = order.direction
              => NextPosition(p, order) = More(p, order.direction, order.quantity)
         /\ p # NoPosition /\ order.reduceOnly /\ order.direction # p.direction
              => NextPosition(p, order) = Less(p, order.quantity)
  <1>1. order.quantity \in Int /\ p.quantity \in Int /\ NoPosition.quantity = 0
    BY DEF Orders, Positions, NoPosition
  <1>2. CASE p = NoPosition
    BY <1>1, <1>2 DEF NextPosition, More
  <1>3. CASE p # NoPosition
    BY <1>1, <1>3 DEF NextPosition, More, Less, Positions
  <1> QED
    BY <1>2, <1>3

(* The three ways a handler changes a listed trade.                        *)
Keeps(w, v, list, t) ==
  /\ Touches(w, v, list, t) /\ v.position = w.position
  /\ RemainingQty(v.trades[t]) = RemainingQty(w.trades[t])
  /\ v.trades[t].direction = w.trades[t].direction
  /\ v.trades[t].entry = w.trades[t].entry
  /\ IsClosed(v.trades[t]) <=> IsClosed(w.trades[t])

Leaves(w, v, list, t) ==
  /\ Touches(w, v, list, t)
  /\ v.position = Less(w.position, RemainingQty(w.trades[t]))
  /\ IsClosed(v.trades[t]) /\ IsActive(w.trades[t])
  /\ v.trades[t].direction = w.trades[t].direction
  /\ v.trades[t].entry = w.trades[t].entry

Enters(w, v, list, t) ==
  /\ Touches(w, v, list, t)
  /\ v.position = More(w.position, w.trades[t].direction, RemainingQty(v.trades[t]))
  /\ RemainingQty(w.trades[t]) = 0 /\ IsActive(v.trades[t])
  /\ v.trades[t].direction = w.trades[t].direction

(* A trade that holds something holds a part of the position.              *)
LEMMA HeldPosition ==
  ASSUME NEW w \in Worlds, NEW list \in SUBSET TradeIds, NEW t \in list,
         Owns(w, list), Nets(w, list), RemainingQty(w.trades[t]) > 0
  PROVE  /\ w.position # NoPosition
         /\ w.position.direction = w.trades[t].direction
         /\ RemainingQty(w.trades[t]) <= w.position.quantity
  <1>1. RemainingQty(w.trades[t]) <= w.position.quantity
    BY LeftChanges DEF Owns, Nets
  <1>2. w.position # NoPosition
    BY <1>1, SlotUpdates, WorldUpdates DEF NoPosition
  <1> QED
    BY <1>1, <1>2 DEF Nets

(* A position is held by some trade.                                       *)
LEMMA PositionHeld ==
  ASSUME NEW w \in Worlds, NEW list \in SUBSET TradeIds,
         Staged(w, list), Nets(w, list), w.position # NoPosition
  PROVE  \E t \in list : RemainingQty(w.trades[t]) > 0
  <1> SUFFICES ASSUME \A t \in list : ~(RemainingQty(w.trades[t]) > 0) PROVE FALSE
    OBVIOUS
  <1> DEFINE f == Left(w)
  <1>1. \A t \in list : f[t] = 0
    BY LeftTypes
  <1>2. IsFiniteSet(list) /\ SumFunctionOnSet(f, list) > 0
    BY DEF Nets
  <1> HIDE DEF f
  <1>3. \A t \in list : f[t] \in Int /\ f[t] = 0 * f[t]
    BY <1>1
  <1>4. SumFunctionOnSet(f, list) = 0 * SumFunctionOnSet(f, list)
    BY <1>2, <1>3, SumTimes
  <1>5. SumFunctionOnSet(f, list) \in Int
    BY <1>2, <1>3, SumIsInt
  <1> QED
    BY <1>2, <1>4, <1>5

LEMMA TouchedStage ==
  ASSUME NEW w \in Worlds, NEW v, NEW list \in SUBSET TradeIds, NEW t \in list,
         Owns(w, list), Touches(w, v, list, t)
  PROVE  /\ v \in Worlds /\ Owns(v, list) /\ Staged(w, list) /\ Staged(v, list)
         /\ \A u \in TradeIds : u # t => v.trades[u] = w.trades[u]
         /\ \A u \in list : RemainingQty(w.trades[u]) \in Nat /\ RemainingQty(v.trades[u]) \in Nat
  <1>1. v \in Worlds /\ Owns(v, list)
    BY TouchesOwns DEF Owns, Touches, Staged
  <1> QED
    BY <1>1, WorldUpdates, StageFacts DEF Owns, Staged, Touches

LEMMA KeepsNets ==
  ASSUME NEW w \in Worlds, NEW v, NEW list \in SUBSET TradeIds, NEW t \in list,
         Owns(w, list), Nets(w, list), Keeps(w, v, list, t)
  PROVE  v \in Worlds /\ Owns(v, list) /\ Nets(v, list)
  <1>1. /\ v \in Worlds /\ Owns(v, list) /\ Staged(w, list) /\ Staged(v, list)
        /\ \A u \in TradeIds : u # t => v.trades[u] = w.trades[u]
        /\ \A u \in list : RemainingQty(w.trades[u]) \in Nat
    BY TouchedStage DEF Keeps
  <1>2. SumFunctionOnSet(Left(v), list) = SumFunctionOnSet(Left(w), list)
    <2>1. /\ SumFunctionOnSet(Left(w), list) \in Nat
          /\ SumFunctionOnSet(Left(v), list) = SumFunctionOnSet(Left(w), list)
               - RemainingQty(w.trades[t]) + RemainingQty(v.trades[t])
      BY <1>1, LeftChanges DEF Nets
    <2> QED
      BY <1>1, <2>1 DEF Keeps
  <1>3. \A u \in list : RemainingQty(v.trades[u]) > 0 => v.position.direction = v.trades[u].direction
    BY <1>1 DEF Keeps, Nets
  <1> QED
    BY <1>1, <1>2, <1>3 DEF Keeps, Nets

LEMMA LeavesNets ==
  ASSUME NEW w \in Worlds, NEW v, NEW list \in SUBSET TradeIds, NEW t \in list,
         Owns(w, list), Nets(w, list), Leaves(w, v, list, t)
  PROVE  v \in Worlds /\ Owns(v, list) /\ Nets(v, list)
  <1> DEFINE p == w.position
             q == RemainingQty(w.trades[t])
  <1>1. /\ v \in Worlds /\ Owns(v, list) /\ Staged(w, list) /\ Staged(v, list)
        /\ \A u \in TradeIds : u # t => v.trades[u] = w.trades[u]
    BY TouchedStage DEF Leaves
  <1>2. q \in Nat /\ q > 0 /\ RemainingQty(v.trades[t]) = 0
    BY <1>1, WorldUpdates, StageFacts DEF Leaves, Staged
  <1>3. p # NoPosition /\ q <= p.quantity
    BY <1>2, HeldPosition
  <1>4. SumFunctionOnSet(Left(v), list) = p.quantity - q /\ p.quantity \in Nat
    <2>1. /\ SumFunctionOnSet(Left(w), list) \in Nat
          /\ SumFunctionOnSet(Left(v), list) = SumFunctionOnSet(Left(w), list)
               - q + RemainingQty(v.trades[t])
      BY <1>1, LeftChanges DEF Nets
    <2> QED
      BY <1>2, <2>1 DEF Nets
  <1>5. p \in Positions /\ v.position = Less(p, q)
    BY DEF Leaves, Worlds
  <1> HIDE DEF p, q
  <1>6. CASE q < p.quantity
    <2>1. v.position = [p EXCEPT !.quantity = @ - q]
      BY <1>5, <1>6 DEF Less
    <2>2. v.position.quantity = p.quantity - q /\ v.position.direction = p.direction
      BY <1>5, <2>1 DEF Positions
    <2>3. \A u \in list : RemainingQty(v.trades[u]) > 0 => v.position.direction = v.trades[u].direction
      BY <1>1, <1>2, <2>2 DEF Nets, p
    <2>4. v.position.quantity > 0
      BY <1>2, <1>4, <1>6, <2>2
    <2> QED
      BY <1>1, <1>4, <2>2, <2>3, <2>4 DEF Nets
  <1>7. CASE ~(q < p.quantity)
    <2>1. v.position = NoPosition /\ p.quantity - q = 0
      BY <1>2, <1>3, <1>4, <1>5, <1>7 DEF Less
    <2>2. SumFunctionOnSet(Left(v), list) = v.position.quantity
      BY <1>4, <2>1 DEF NoPosition
    <2>3. \A u \in list : ~(RemainingQty(v.trades[u]) > 0)
      <3> SUFFICES ASSUME NEW u \in list PROVE ~(RemainingQty(v.trades[u]) > 0)
        OBVIOUS
      <3>1. RemainingQty(v.trades[u]) <= SumFunctionOnSet(Left(v), list)
        BY <1>1, LeftChanges DEF Nets
      <3>2. RemainingQty(v.trades[u]) \in Int
        BY <1>1, WorldUpdates, SlotUpdates
      <3> QED
        BY <1>4, <2>1, <3>1, <3>2
    <2> QED
      BY <1>1, <2>1, <2>2, <2>3 DEF Nets
  <1> QED
    BY <1>6, <1>7

LEMMA EntersNets ==
  ASSUME NEW w \in Worlds, NEW v, NEW list \in SUBSET TradeIds, NEW t \in list,
         Owns(w, list), Nets(w, list), Enters(w, v, list, t),
         \A u \in list : RemainingQty(w.trades[u]) > 0
           => w.trades[u].direction = w.trades[t].direction
  PROVE  v \in Worlds /\ Owns(v, list) /\ Nets(v, list)
  <1> DEFINE p == w.position
             q == RemainingQty(v.trades[t])
             d == w.trades[t].direction
  <1>1. /\ v \in Worlds /\ Owns(v, list) /\ Staged(w, list) /\ Staged(v, list)
        /\ \A u \in TradeIds : u # t => v.trades[u] = w.trades[u]
    BY TouchedStage DEF Enters
  <1>2. q \in Nat /\ q > 0 /\ RemainingQty(w.trades[t]) = 0
    BY <1>1, WorldUpdates, StageFacts DEF Enters, Staged
  <1>3. p.quantity \in Nat /\ SumFunctionOnSet(Left(v), list) = p.quantity + q
    <2>1. /\ SumFunctionOnSet(Left(w), list) \in Nat
          /\ SumFunctionOnSet(Left(v), list) = SumFunctionOnSet(Left(w), list)
               - RemainingQty(w.trades[t]) + q
      BY <1>1, LeftChanges DEF Nets
    <2> QED
      BY <1>2, <2>1 DEF Nets
  <1>4. v.position.quantity = p.quantity + q /\ v.position.direction = d
    BY DEF Enters, More
  <1>5. \A u \in list : RemainingQty(v.trades[u]) > 0 => v.trades[u].direction = d
    BY <1>1 DEF Enters
  <1> HIDE DEF q
  <1> QED
    BY <1>1, <1>2, <1>3, <1>4, <1>5 DEF Nets

-----------------------------------------------------------------------------
(* The take-profit order of a trade: it rests, it is cancelled or it fills. *)

LEMMA LimitFills ==
  ASSUME NEW r \in TradeRecords, NEW id \in OrderIds, NEW order \in Orders, NEW price \in Nat,
         r.limit.refId = id, r.limit.orderId = id, r.limit.execQty = 0, order.quantity > 0,
         Idle(r.entry), Filled(r.entry), Idle(r.stop),
         NEW r1, r1 = OrderSignal(r, Announce(id, "OPENED")),
         NEW r2, r2 = OrderSignal(r1, Execution(id, order, price))
  PROVE  /\ Refers(r, id) /\ Refers(r1, id) /\ ~Refers(r2, id)
         /\ EntryDone(r2) /\ IsClosed(r2)
         /\ r2.entry = r.entry
         /\ r2.direction = r.direction /\ r2.entryQty = r.entryQty
         /\ r2.exitQty = r.exitQty + order.quantity
  <1> DEFINE opened == Announce(id, "OPENED")
             traded == Execution(id, order, price)
             limit  == Untraded(Acknowledge(r.limit, opened), opened)
  <1>1. /\ opened \in OrderSignals /\ opened.refId = id /\ opened.orderId = id
        /\ opened.event = "OPENED"
        /\ traded \in OrderSignals /\ traded.refId = id /\ traded.orderId = id
        /\ traded.event = "TRADED" /\ traded.completed
        /\ traded.cum = order.quantity
    BY SignalsCarry DEF Carries, Announce, Execution
  <1>2. id # NoId /\ r.limit \in Slots
    BY NoIdAssumption, SlotUpdates
  <1> HIDE DEF opened, traded
  <1>3. Acknowledge(r.limit, opened) = r.limit
    BY <1>1, <1>2 DEF Acknowledge
  <1>4. limit \in Slots /\ limit.orderId = id /\ limit.refId = id /\ limit.execQty = 0
    BY <1>1, <1>2, <1>3 DEF Untraded, Slots, States
  <1>5. ~Targets(r.entry, opened) /\ Targets(r.limit, opened)
    BY <1>1, <1>2 DEF Targets, Idle
  <1> HIDE DEF limit
  <1>6. r1 = [r EXCEPT !.limit = limit]
    BY <1>1, <1>5 DEF OrderSignal, LimitSignal, limit, opened
  <1>7. /\ r1.limit = limit /\ r1.entry = r.entry /\ r1.stop = r.stop /\ r1 \in TradeRecords
        /\ r1.direction = r.direction /\ r1.entryQty = r.entryQty /\ r1.exitQty = r.exitQty
    BY <1>4, <1>6 DEF TradeRecords
  <1>8. ~Targets(r1.entry, traded) /\ Targets(r1.limit, traded)
    BY <1>1, <1>2, <1>4, <1>7 DEF Targets, Idle
  <1>9. Acknowledge(limit, traded) = limit
    BY <1>2, <1>4 DEF Acknowledge
  <1>10. r2 = [WithExit(r1, limit, traded) EXCEPT !.limit = ExitTraded(r1, limit, traded)]
    BY <1>1, <1>7, <1>8, <1>9 DEF OrderSignal, LimitSignal, traded
  <1>11. /\ WithExit(r1, limit, traded) \in TradeRecords
         /\ WithExit(r1, limit, traded).entry = r1.entry
         /\ WithExit(r1, limit, traded).stop = r1.stop
         /\ WithExit(r1, limit, traded).direction = r1.direction
         /\ WithExit(r1, limit, traded).entryQty = r1.entryQty
         /\ WithExit(r1, limit, traded).exitQty = r1.exitQty + ExitFill(limit, traded)
    <2>1. WithExit(r1, limit, traded) \in TradeRecords
      BY <1>1, <1>4, <1>7, ExitTypes
    <2>2. \A n, m : LET e == [r1 EXCEPT !.exitQty = n, !.exitPrice = m]
                   IN  /\ e.entry = r1.entry /\ e.limit = r1.limit /\ e.stop = r1.stop
                       /\ e.direction = r1.direction /\ e.entryQty = r1.entryQty
                       /\ e.exitQty = n
      BY <1>7 DEF TradeRecords
    <2> QED
      BY <2>1, <2>2 DEF WithExit
  <1>12. Idle(ExitTraded(r1, limit, traded)) /\ Filled(ExitTraded(r1, limit, traded))
    <2>1. ExitTraded(r1, limit, traded)
            = Clear(limit, ExitState(r1, r1.exitQty + ExitFill(limit, traded), traded))
      BY <1>1 DEF ExitTraded
    <2>2. ExitState(r1, r1.exitQty + ExitFill(limit, traded), traded) = "FILLED"
      BY <1>1, <1>7 DEF ExitState
    <2> QED
      BY <2>1, <2>2, ClearIsIdle DEF Filled
  <1>13. /\ r2.limit = ExitTraded(r1, limit, traded) /\ r2.entry = r1.entry /\ r2.stop = r1.stop
         /\ r2.direction = r1.direction /\ r2.entryQty = r1.entryQty
         /\ r2.exitQty = r1.exitQty + ExitFill(limit, traded)
    BY <1>10, <1>11 DEF TradeRecords
  <1>14. r2 \in TradeRecords
    BY <1>1, <1>7, OrderSignalType DEF traded
  <1>15. Refers(r, id) /\ Refers(r1, id)
    BY <1>4, <1>7, RefersByOne
  <1>16. ~Refers(r2, id)
    BY <1>2, <1>7, <1>12, <1>13, <1>14, RefersByOne DEF Idle
  <1>17. EntryDone(r2) /\ IsClosed(r2)
    BY <1>7, <1>12, <1>13 DEF EntryDone, IsClosed
  <1>18. ExitFill(limit, traded) = order.quantity
    BY <1>1, <1>4 DEF ExitFill, Orders
  <1> QED
    BY <1>7, <1>13, <1>15, <1>16, <1>17, <1>18

(* The exit of t is filled, for all it had entered.                        *)
ExitFilled(w, v, t, qty) ==
  LET r == w.trades[t]
      e == v.trades[t]
  IN  /\ v \in Worlds /\ v.book = w.book
      /\ \A u \in TradeIds : u # t => v.trades[u] = w.trades[u]
      /\ EntryDone(e) /\ IsClosed(e) /\ e.entry = r.entry
      /\ e.direction = r.direction /\ e.entryQty = r.entryQty
      /\ e.exitQty = r.exitQty + qty

LEMMA LimitExecuted ==
  ASSUME NEW w \in Worlds, NEW list \in SUBSET TradeIds, NEW t \in list,
         NEW id \in OrderIds, NEW order \in Orders, bid \in 1..MaxPrice,
         Accepted(w.position, order), order.quantity > 0,
         w.trades[t].limit.refId = id, w.trades[t].limit.orderId = id,
         w.trades[t].limit.execQty = 0,
         Idle(w.trades[t].entry), Filled(w.trades[t].entry), Idle(w.trades[t].stop),
         \A u \in list : Refers(w.trades[u], id) => u = t
  PROVE  /\ ExitFilled(w, ExecIndMarginOrder(w, list, id, order), t, order.quantity)
         /\ ExecIndMarginOrder(w, list, id, order).position = NextPosition(w.position, order)
  <1> DEFINE v     == ExecIndMarginOrder(w, list, id, order)
             r     == w.trades[t]
             price == ExecPrice(w.position, order)
             r1    == OrderSignal(r, Announce(id, "OPENED"))
             r2    == OrderSignal(r1, Execution(id, order, price))
  <1>1. r \in TradeRecords /\ price \in Nat
    BY WorldUpdates, PriceTypes
  <1>2. v \in Worlds
    BY ExecIndMarginOrderType
  <1> HIDE DEF r1, r2
  <1>3. /\ Refers(r, id) /\ Refers(r1, id) /\ ~Refers(r2, id)
        /\ EntryDone(r2) /\ IsClosed(r2) /\ r2.entry = r.entry
        /\ r2.direction = r.direction /\ r2.entryQty = r.entryQty
        /\ r2.exitQty = r.exitQty + order.quantity
    <2> HIDE DEF price, r
    <2>1. /\ r.limit.refId = id /\ r.limit.orderId = id /\ r.limit.execQty = 0
          /\ Idle(r.entry) /\ Filled(r.entry) /\ Idle(r.stop)
      BY DEF r
    <2> QED
      BY <1>1, <2>1, LimitFills DEF r1, r2
  <1>4. OnlyRefers(w, list, t, id)
    BY <1>3 DEF OnlyRefers
  <1>5. /\ v.book = w.book /\ v.trades = [w.trades EXCEPT ![t] = r2]
        /\ v.position = NextPosition(w.position, order)
    <2>1. r1 = OrderSignal(w.trades[t], Announce(id, "OPENED"))
      BY DEF r1
    <2>2. r2 = OrderSignal(r1, Execution(id, order, ExecPrice(w.position, order)))
      BY DEF r2
    <2> HIDE DEF v, r, price
    <2>3. /\ ExecIndMarginOrder(w, list, id, order).book = w.book
          /\ ExecIndMarginOrder(w, list, id, order).trades = [w.trades EXCEPT ![t] = r2]
          /\ ExecIndMarginOrder(w, list, id, order).position = NextPosition(w.position, order)
      BY <1>3, <1>4, <2>1, <2>2, ExecutedOnce
    <2> QED
      BY <2>3 DEF v
  <1> HIDE DEF v
  <1>6. v.trades[t] = r2 /\ \A u \in TradeIds : u # t => v.trades[u] = w.trades[u]
    BY <1>5 DEF Worlds
  <1> QED
    BY <1>2, <1>3, <1>5, <1>6 DEF ExitFilled, v

(* Cancelling the take-profit of a trade that holds something.             *)
LimitDropped(w, v, t) ==
  LET r == w.trades[t]
      e == v.trades[t]
  IN  /\ v \in Worlds /\ v.position = w.position
      /\ \A u \in TradeIds : u # t => v.trades[u] = w.trades[u]
      /\ \A x \in OrderIds : x # OrderOf(r) => v.book[x] = w.book[x]
      /\ \A x \in OrderIds : x = OrderOf(r) => ~Resting(v, x)
      /\ ExitsUnused(e) /\ Held(v, e) /\ Idle(e.limit)
      /\ e.entry = r.entry /\ e.stop = r.stop /\ e.direction = r.direction
      /\ e.entryQty = r.entryQty /\ e.exitQty = r.exitQty

LEMMA CancelLimitDrops ==
  ASSUME NEW w \in Worlds, NEW t \in TradeIds,
         ExitsUnused(w.trades[t]), Held(w, w.trades[t])
  PROVE  LimitDropped(w, CancelLimit(w, t), t)
  <1> DEFINE r == w.trades[t]
             v == CancelLimit(w, t)
  <1>1. r \in TradeRecords /\ v \in Worlds
    BY WorldUpdates, CancelTypes
  <1>2. CASE Idle(r.limit)
    <2>1. v = w /\ OrderOf(r) = NoId
      BY <1>2, CancelNothing DEF OrderOf, Held, Idle
    <2> HIDE DEF v
    <2> QED
      BY <1>1, <1>2, <2>1, NoIdAssumption DEF LimitDropped, v
  <1>3. CASE ~Idle(r.limit)
    <2> DEFINE id == r.limit.orderId
               e  == [r EXCEPT !.limit = Clear(r.limit, "CANCELED")]
    <2>1. id \in OrderIds /\ OrderOf(r) = id /\ r.entryQty > 0 /\ r.entryQty \in Int
      BY <1>1, <1>3 DEF Held, OrderOf, TradeRecords
    <2>2. Resting(w, id) /\ HasOrder(r.limit)
      <3>1. w.book[id].quantity = r.entryQty /\ w.book[id].reduceOnly
        BY <1>3, Zenon DEF Held
      <3>2. w.book[id] # NoOrder
        BY <2>1, <3>1 DEF NoOrder
      <3>3. id # NoId
        BY <2>1, NoIdAssumption
      <3> QED
        BY <2>1, <3>2, <3>3, Zenon DEF Resting, HasOrder
    <2>3. v = [w EXCEPT !.book = [w.book EXCEPT ![id] = NoOrder],
                       !.trades[t].limit = Clear(r.limit, "CANCELED")]
      BY <2>2 DEF CancelLimit, Forget, Canceled, CanCancel
    <2>4. /\ v.position = w.position /\ v.book = [w.book EXCEPT ![id] = NoOrder]
          /\ v.trades = [w.trades EXCEPT ![t] = e]
      BY <2>3 DEF Worlds
    <2> HIDE DEF v
    <2>5. /\ v.trades[t] = e /\ \A u \in TradeIds : u # t => v.trades[u] = w.trades[u]
          /\ \A x \in OrderIds : x # id => v.book[x] = w.book[x]
          /\ v.book[id] = NoOrder
      BY <2>1, <2>4 DEF Worlds, Books
    <2>6. /\ e.limit = Clear(r.limit, "CANCELED")
          /\ e.entry = r.entry /\ e.stop = r.stop /\ e.direction = r.direction
          /\ e.entryQty = r.entryQty /\ e.exitQty = r.exitQty
      BY <1>1 DEF TradeRecords
    <2> HIDE DEF e
    <2>7. Idle(e.limit) /\ e.limit.state = "CANCELED" /\ e.limit.execQty = 0
      BY <2>6, ClearIsIdle DEF Clear, ResetSlot
    <2>8. ExitsUnused(e) /\ Held(v, e)
      BY <2>6, <2>7 DEF ExitsUnused, Held, IsClosed, Filled
    <2> QED
      BY <1>1, <2>1, <2>4, <2>5, <2>6, <2>7, <2>8 DEF LimitDropped, Resting, v
  <1> QED
    BY <1>2, <1>3

-----------------------------------------------------------------------------
(* close(): the trade takes what it holds out of the position.             *)

MayStop(w, list, t, id) ==
  /\ ExitsUnused(w.trades[t]) /\ Held(w, w.trades[t]) /\ Idle(w.trades[t].limit)
  /\ w.trades[t].direction \in {-1, 1}
  /\ w.position # NoPosition /\ w.position.direction = w.trades[t].direction
  /\ \A u \in list : ~Refers(w.trades[u], id)
Stopped(w, v, t) ==
  /\ ExitFilled(w, v, t, RemainingQty(w.trades[t]))
  /\ v.position = Less(w.position, RemainingQty(w.trades[t]))

LEMMA StopOrderLeaves ==
  ASSUME NEW w \in Worlds, NEW list \in SUBSET TradeIds, NEW t \in list,
         NEW id \in OrderIds, bid \in 1..MaxPrice, MayStop(w, list, t, id)
  PROVE  Stopped(w, SendStopOrder(w, list, t, id, TRUE), t)
  <1> DEFINE trade == w.trades[t]
             qty   == RemainingQty(trade)
             order == [direction |-> -trade.direction, quantity |-> qty, price |-> 0,
                       reduceOnly |-> TRUE]
             slot  == [trade.stop EXCEPT !.refId = id, !.orderedQty = qty, !.closing = TRUE]
             sent  == [w EXCEPT !.trades[t].stop = slot]
             r     == [trade EXCEPT !.stop = slot]
             v     == ExecIndMarginOrder(sent, list, id, order)
  <1> USE DEF MayStop
  <1>1. /\ trade \in TradeRecords /\ trade.stop \in Slots /\ qty \in Int /\ t \in TradeIds
        /\ qty > 0
    BY WorldUpdates, SlotUpdates DEF Held, RemainingQty, TradeRecords
  <1> HIDE DEF qty
  <1>2. /\ order \in Orders /\ order.reduceOnly /\ order.quantity = qty
        /\ order.direction # w.position.direction /\ Accepted(w.position, order)
    BY <1>1 DEF Orders, TradeRecords, Accepted
  <1>3. /\ slot \in Slots /\ slot.refId = id /\ slot.orderId = NoId /\ slot.execQty = 0
    BY <1>1 DEF Slots, Ids, Held, Idle, ExitsUnused
  <1> HIDE DEF order, slot
  <1>4. /\ r \in TradeRecords /\ r.stop = slot /\ r.entry = trade.entry /\ r.limit = trade.limit
        /\ r.direction = trade.direction /\ r.entryQty = trade.entryQty
        /\ r.exitQty = trade.exitQty
    BY <1>1, <1>3 DEF TradeRecords
  <1>5. /\ sent \in Worlds /\ sent.trades[t] = r /\ sent.book = w.book
        /\ sent.position = w.position
        /\ \A u \in TradeIds : u # t => sent.trades[u] = w.trades[u]
    BY <1>1, <1>4 DEF Worlds
  <1> HIDE DEF sent, r
  <1>6. /\ sent.trades[t].stop.refId = id /\ sent.trades[t].stop.orderId = NoId
        /\ sent.trades[t].stop.execQty = 0
        /\ Idle(sent.trades[t].entry) /\ Filled(sent.trades[t].entry)
        /\ Idle(sent.trades[t].limit)
        /\ \A u \in list : Refers(sent.trades[u], id) => u = t
        /\ Accepted(sent.position, order)
    BY <1>2, <1>3, <1>4, <1>5 DEF Held
  <1>7. /\ StopFilled(sent, v, t, order.quantity)
        /\ v.position = NextPosition(sent.position, order)
    BY <1>2, <1>5, <1>6, StopExecuted
  <1>8. SendStopOrder(w, list, t, id, TRUE) = v
    BY <1>2 DEF SendStopOrder, sent, order, slot, qty
  <1> HIDE DEF v
  <1>9. ExitFilled(w, v, t, qty)
    BY <1>1, <1>2, <1>4, <1>5, <1>6, <1>7 DEF StopFilled, ExitFilled
  <1>10. w.position \in Positions
    BY DEF Worlds
  <1>11. v.position = Less(w.position, qty)
    BY <1>1, <1>2, <1>5, <1>7, <1>10, PositionMoves
  <1> QED
    BY <1>8, <1>9, <1>11 DEF Stopped, qty

Fresh(w, list, id) == id \in OrderIds /\ ~Resting(w, id) /\ \A u \in list : ~Refers(w.trades[u], id)

LEMMA ExitFilledStage ==
  ASSUME NEW w, NEW v, NEW t, NEW qty, ExitFilled(w, v, t, qty),
         w.trades[t].direction \in Directions, w.trades[t].exitQty = 0,
         qty = w.trades[t].entryQty, qty \in Int
  PROVE  /\ Stage(v, v.trades[t]) /\ IsClosed(v.trades[t])
         /\ OrderOf(v.trades[t]) = NoId /\ RemainingQty(v.trades[t]) = 0
  <1>1. Exited(v.trades[t])
    BY DEF ExitFilled, Exited
  <1>2. RemainingQty(v.trades[t]) = 0
    BY DEF ExitFilled, RemainingQty
  <1> QED
    BY <1>1, <1>2 DEF ExitFilled, Stage, OrderOf, Exited, EntryDone, Idle

LEMMA CloseLeaves ==
  ASSUME NEW w \in Worlds, NEW list \in SUBSET TradeIds, NEW t \in list, NEW id,
         bid \in 1..MaxPrice, Owns(w, list), Nets(w, list), IsActive(w.trades[t]),
         Fresh(w, list, id)
  PROVE  Leaves(w, Close(w, list, t, id), list, t)
  <1> DEFINE r   == w.trades[t]
             qty == RemainingQty(r)
             w1  == CancelLimit(w, t)
             v   == SendStopOrder(w1, list, t, id, TRUE)
  <1>1. r \in TradeRecords /\ Stage(w, r) /\ t \in TradeIds
    BY WorldUpdates DEF Owns, Staged
  <1>2. /\ ExitsUnused(r) /\ Held(w, r) /\ qty = r.entryQty /\ qty > 0 /\ qty \in Int
        /\ r.direction \in {-1, 1} /\ r.direction \in Directions /\ r.exitQty = 0
    BY <1>1, StageFacts, SlotUpdates DEF Held, Stage
  <1>3. w.position # NoPosition /\ w.position.direction = r.direction
    BY <1>2, HeldPosition
  <1>4. LimitDropped(w, w1, t)
    BY <1>2, CancelLimitDrops
  <1>5. CancelStop(w, t) = w
    BY <1>2, CancelNothing DEF Held
  <1>6. Close(w, list, t, id) = v
    <2>1. ~w.trades[t].stop.closing
      BY <1>2 DEF ExitsUnused
    <2>2. ~(RemainingQty(w.trades[t]) <= 0)
      BY <1>2
    <2> QED
      BY <1>5, <2>1, <2>2 DEF Close
  <1>7. \A u \in list : ~Refers(w1.trades[u], id)
    <2> HIDE DEF w1
    <2>1. ASSUME NEW u \in list PROVE ~Refers(w1.trades[u], id)
      <3>1. CASE u # t
        BY <1>4, <3>1 DEF LimitDropped, Fresh
      <3>2. CASE u = t
        <4>1. w1.trades[t] \in TradeRecords
          BY <1>4, WorldUpdates DEF LimitDropped
        <4>2. /\ Idle(w1.trades[t].entry) /\ Idle(w1.trades[t].stop) /\ Idle(w1.trades[t].limit)
          BY <1>4 DEF LimitDropped, Held
        <4> QED
          BY <3>2, <4>1, <4>2, NoIdAssumption DEF Refers, Idle, Fresh
      <3> QED
        BY <3>1, <3>2
    <2> QED
      BY <2>1
  <1> HIDE DEF w1
  <1>8. /\ w1 \in Worlds /\ w1.position = w.position
        /\ ExitsUnused(w1.trades[t]) /\ Held(w1, w1.trades[t]) /\ Idle(w1.trades[t].limit)
        /\ w1.trades[t].direction = r.direction /\ w1.trades[t].entry = r.entry
        /\ w1.trades[t].entryQty = r.entryQty /\ w1.trades[t].exitQty = 0
        /\ RemainingQty(w1.trades[t]) = qty
        /\ \A u \in TradeIds : u # t => w1.trades[u] = w.trades[u]
        /\ \A x \in OrderIds : x # OrderOf(r) => w1.book[x] = w.book[x]
        /\ \A x \in OrderIds : x = OrderOf(r) => ~Resting(w1, x)
    BY <1>2, <1>4 DEF LimitDropped, RemainingQty
  <1>9. ExitFilled(w1, v, t, qty) /\ v.position = Less(w.position, qty)
    <2> HIDE DEF r, qty
    <2>1. MayStop(w1, list, t, id) /\ id \in OrderIds /\ w1 \in Worlds
      BY <1>2, <1>3, <1>7, <1>8 DEF Fresh, MayStop
    <2>2. Stopped(w1, v, t)
      BY <2>1, StopOrderLeaves, Zenon
    <2> HIDE DEF v
    <2> QED
      BY <1>8, <2>2 DEF Stopped
  <1> HIDE DEF v, r, qty
  <1>10. /\ Stage(v, v.trades[t]) /\ IsClosed(v.trades[t]) /\ OrderOf(v.trades[t]) = NoId
    BY <1>2, <1>8, <1>9, ExitFilledStage
  <1>11. Touches(w, v, list, t)
    BY <1>8, <1>9, <1>10 DEF Touches, ExitFilled, Resting, r
  <1> QED
    BY <1>6, <1>8, <1>9, <1>10, <1>11 DEF Leaves, ExitFilled, r, qty

-----------------------------------------------------------------------------
(* updateTrade(): the levels move, and the take-profit order with them.    *)

LevelOnly(r, e) ==
  /\ e.entry = r.entry /\ e.limit = r.limit /\ e.stop = r.stop
  /\ e.direction = r.direction /\ e.entryQty = r.entryQty /\ e.exitQty = r.exitQty

LEMMA LevelsMove ==
  ASSUME NEW w \in Worlds, NEW t \in TradeIds, NEW price \in Nat,
         NEW v, \/ v = [w EXCEPT !.trades[t].stopLoss = price]
                \/ v = [w EXCEPT !.trades[t].takeProfit = price]
  PROVE  /\ v \in Worlds /\ v.book = w.book /\ v.position = w.position
         /\ \A u \in TradeIds : u # t => v.trades[u] = w.trades[u]
         /\ LevelOnly(w.trades[t], v.trades[t])
  <1> DEFINE r == w.trades[t]
             a == [r EXCEPT !.stopLoss = price]
             b == [r EXCEPT !.takeProfit = price]
  <1>1. r \in TradeRecords
    BY WorldUpdates
  <1>2. LevelOnly(r, a) /\ LevelOnly(r, b)
    BY <1>1 DEF TradeRecords, LevelOnly
  <1>3. v \in Worlds
    <2>1. /\ [w EXCEPT !.trades[t].stopLoss = price] \in Worlds
          /\ [w EXCEPT !.trades[t].takeProfit = price] \in Worlds
      BY LevelUpdates
    <2> QED
      BY <2>1
  <1>4. /\ v.book = w.book /\ v.position = w.position
        /\ v.trades = [w.trades EXCEPT ![t] = a] \/ v.trades = [w.trades EXCEPT ![t] = b]
    BY DEF Worlds
  <1> HIDE DEF a, b
  <1>5. /\ v.trades[t] = a \/ v.trades[t] = b
        /\ \A u \in TradeIds : u # t => v.trades[u] = w.trades[u]
    BY <1>4 DEF Worlds
  <1> QED
    BY <1>2, <1>3, <1>4, <1>5

(* The connector keeps the take-profit of t.                               *)
ProfitResting(w, v, t, id, order) ==
  LET r == w.trades[t]
      e == v.trades[t]
  IN  /\ v \in Worlds /\ v.position = w.position
      /\ v.book = [w.book EXCEPT ![id] = order]
      /\ \A u \in TradeIds : u # t => v.trades[u] = w.trades[u]
      /\ e.limit.orderId = id /\ e.limit.refId = id
      /\ e.limit.execQty = r.limit.execQty
      /\ Filled(e.limit) <=> Filled(r.limit)
      /\ e.entry = r.entry /\ e.stop = r.stop /\ e.direction = r.direction
      /\ e.entryQty = r.entryQty /\ e.exitQty = r.exitQty

LEMMA ProfitRests ==
  ASSUME NEW w \in Worlds, NEW list \in SUBSET TradeIds, NEW t \in list,
         NEW id \in OrderIds, NEW order \in Orders,
         w.trades[t].limit.refId = id, w.trades[t].limit.orderId = NoId,
         Idle(w.trades[t].entry), Idle(w.trades[t].stop),
         \A u \in list : Refers(w.trades[u], id) => u = t
  PROVE  ProfitResting(w, RestOrder(w, list, id, order), t, id, order)
  <1> DEFINE r      == w.trades[t]
             opened == Announce(id, "OPENED")
             b      == [w EXCEPT !.book[id] = order]
             acked  == [r.limit EXCEPT !.orderId = id]
             limit  == Untraded(acked, opened)
             e      == [r EXCEPT !.limit = limit]
  <1>1. r \in TradeRecords /\ r.limit \in Slots /\ id # NoId
    BY WorldUpdates, SlotUpdates, NoIdAssumption
  <1>2. /\ b \in Worlds /\ b.trades = w.trades /\ b.book = [w.book EXCEPT ![id] = order]
        /\ b.position = w.position
    BY DEF Worlds, Books
  <1>3. Carries(opened, id) /\ opened.event = "OPENED" /\ opened.refId = id /\ opened.orderId = id
    BY SignalTypes DEF Carries, Announce, Events
  <1> HIDE DEF b, opened
  <1>4. Refers(r, id)
    BY DEF Refers
  <1>5. OnlyRefers(b, list, t, id)
    BY <1>2, <1>4 DEF OnlyRefers
  <1>6. Deliver(b, list, opened) = With(b, t, OrderSignal(b.trades[t], opened))
    BY <1>2, <1>3, <1>5, DeliverOne
  <1>7. Acknowledge(r.limit, opened) = acked
    BY <1>3 DEF Acknowledge
  <1>8. acked \in Slots
    BY <1>1 DEF Slots, Ids
  <1>9. /\ limit \in Slots /\ limit.orderId = id /\ limit.refId = id
        /\ limit.execQty = r.limit.execQty
        /\ Filled(limit) <=> Filled(r.limit)
    <2>1. limit = [acked EXCEPT !.state = IF acked.state = "NEW" THEN "OPENED" ELSE acked.state]
      BY <1>3 DEF Untraded
    <2>2. limit \in Slots
      BY <1>3, <1>8, UntradedType DEF Carries
    <2>3. /\ acked.state = r.limit.state /\ acked.orderId = id /\ acked.refId = id
          /\ acked.execQty = r.limit.execQty
      BY <1>1 DEF Slots
    <2> HIDE DEF limit, acked
    <2> QED
      BY <1>8, <2>1, <2>2, <2>3 DEF Slots, Filled
  <1> HIDE DEF limit
  <1>10. OrderSignal(r, opened) = e
    BY <1>1, <1>3, <1>7 DEF OrderSignal, Targets, LimitSignal, Idle, limit
  <1>11. e \in TradeRecords
    BY <1>1, <1>9, SlotUpdates
  <1>12. RestOrder(w, list, id, order) = With(b, t, e)
    BY <1>2, <1>6, <1>10 DEF RestOrder, b, opened
  <1>13. /\ e.limit = limit /\ e.entry = r.entry /\ e.stop = r.stop
         /\ e.direction = r.direction /\ e.entryQty = r.entryQty /\ e.exitQty = r.exitQty
    BY <1>1 DEF TradeRecords
  <1> HIDE DEF e
  <1>14. /\ With(b, t, e) \in Worlds /\ With(b, t, e).book = b.book
         /\ With(b, t, e).position = b.position
         /\ With(b, t, e).trades = [b.trades EXCEPT ![t] = e]
    BY <1>2, <1>11, WorldUpdates DEF With, Worlds
  <1> DEFINE v == With(b, t, e)
  <1> HIDE DEF v
  <1>15. /\ v.trades[t] = e /\ \A u \in TradeIds : u # t => v.trades[u] = w.trades[u]
         /\ v \in Worlds /\ v.position = w.position /\ v.book = [w.book EXCEPT ![id] = order]
    BY <1>2, <1>14 DEF Worlds, v
  <1>16. RestOrder(w, list, id, order) = v
    BY <1>12 DEF v
  <1> QED
    BY <1>9, <1>13, <1>15, <1>16 DEF ProfitResting

(* A change of the levels keeps the stage of a trade and what is left.     *)
LEMMA LevelKeeps ==
  ASSUME NEW w, NEW r, NEW e, LevelOnly(r, e)
  PROVE  /\ Stage(w, r) => Stage(w, e)
         /\ OrderOf(e) = OrderOf(r) /\ RemainingQty(e) = RemainingQty(r)
         /\ IsClosed(e) <=> IsClosed(r)
  <1>1. /\ Waiting(w, r) => Waiting(w, e)
        /\ Held(w, r) => Held(w, e)
        /\ Exited(r) => Exited(e)
        /\ ExitsUnused(r) => ExitsUnused(e)
        /\ IsClosed(e) <=> IsClosed(r)
    BY DEF LevelOnly, Waiting, Held, Exited, EntryDone, ExitsUnused, IsClosed
  <1>2. OrderOf(e) = OrderOf(r) /\ RemainingQty(e) = RemainingQty(r)
    BY DEF LevelOnly, OrderOf, RemainingQty
  <1> QED
    BY <1>1, <1>2 DEF LevelOnly, Stage

LEMMA LevelTouches ==
  ASSUME NEW w \in Worlds, NEW list \in SUBSET TradeIds, NEW t \in list, NEW price \in Nat,
         Owns(w, list),
         NEW v, \/ v = [w EXCEPT !.trades[t].stopLoss = price]
                \/ v = [w EXCEPT !.trades[t].takeProfit = price]
  PROVE  Keeps(w, v, list, t)
  <1>1. /\ v \in Worlds /\ v.book = w.book /\ v.position = w.position
        /\ \A u \in TradeIds : u # t => v.trades[u] = w.trades[u]
        /\ LevelOnly(w.trades[t], v.trades[t])
    BY LevelsMove
  <1>2. Stage(w, w.trades[t])
    BY DEF Owns, Staged
  <1>3. /\ Stage(w, v.trades[t]) /\ OrderOf(v.trades[t]) = OrderOf(w.trades[t])
        /\ RemainingQty(v.trades[t]) = RemainingQty(w.trades[t])
        /\ IsClosed(v.trades[t]) <=> IsClosed(w.trades[t])
    BY <1>1, <1>2, LevelKeeps
  <1>4. v.trades[t] \in TradeRecords
    BY <1>1, WorldUpdates
  <1>5. Stage(v, v.trades[t])
    BY <1>1, <1>3, <1>4, StageByBook
  <1>6. \A u \in list : u # t /\ OrderOf(w.trades[t]) # NoId
          => OrderOf(w.trades[u]) # OrderOf(w.trades[t])
    BY DEF Owns, OneEach
  <1>7. Touches(w, v, list, t)
    BY <1>1, <1>3, <1>5, <1>6 DEF Touches
  <1> QED
    BY <1>1, <1>3, <1>7 DEF Keeps, LevelOnly

(* The stop slot of a trade is idle: unless the modifier is MOD_DISTANT,   *)
(* modifyStopLoss() only moves the level.                                  *)
LEMMA ModifyStopLossKeeps ==
  ASSUME NEW w \in Worlds, NEW list \in SUBSET TradeIds, NEW t \in list,
         NEW id, NEW price \in Nat, NEW mod, mod # "DISTANT",
         Owns(w, list), IsActive(w.trades[t])
  PROVE  Keeps(w, ModifyStopLoss(w, list, t, id, price, mod), list, t)
  <1>1. ExitsUnused(w.trades[t]) /\ Held(w, w.trades[t])
    BY WorldUpdates, StageFacts DEF Owns, Staged
  <1>2. CancelStop(w, t) = w /\ Effective(w.trades[t].stop, mod) # "DISTANT"
    BY <1>1, CancelNothing DEF Held, Effective, HasOrder, Idle
  <1>3. ~w.trades[t].stop.closing
    BY <1>1 DEF ExitsUnused
  <1>4. ModifyStopLoss(w, list, t, id, price, mod) = [w EXCEPT !.trades[t].stopLoss = price]
    BY <1>2, <1>3 DEF ModifyStopLoss
  <1>5. Keeps(w, [w EXCEPT !.trades[t].stopLoss = price], list, t)
    BY LevelTouches
  <1> QED
    BY <1>4, <1>5

LEMMA WithFacts ==
  ASSUME NEW w \in Worlds, NEW t \in TradeIds, NEW r \in TradeRecords
  PROVE  LET v == [w EXCEPT !.trades[t] = r]
         IN  /\ v \in Worlds /\ v.trades[t] = r /\ v.book = w.book /\ v.position = w.position
             /\ \A u \in TradeIds : u # t => v.trades[u] = w.trades[u]
  BY DEF Worlds

(* The take-profit order of a trade, cancelled then sent again.            *)
LEMMA ProfitSent ==
  ASSUME NEW w \in Worlds, NEW list \in SUBSET TradeIds, NEW t \in list,
         NEW id, NEW price \in Nat, Owns(w, list), IsActive(w.trades[t]), Fresh(w, list, id),
         NEW qty, qty = RemainingQty(w.trades[t]),
         NEW order, order = [direction |-> -w.trades[t].direction, quantity |-> qty,
                             price |-> price, reduceOnly |-> TRUE],
         NEW w1, w1 = CancelLimit(w, t),
         NEW w2, w2 = [w1 EXCEPT !.trades[t].limit = [@ EXCEPT !.refId = id, !.orderedQty = qty]]
  PROVE  Keeps(w, w1, list, t) /\ Keeps(w, RestOrder(w2, list, id, order), list, t)
  <1> DEFINE r == w.trades[t]
             old == OrderOf(r)
  <1>1. /\ r \in TradeRecords /\ Stage(w, r) /\ t \in TradeIds /\ id \in OrderIds /\ id # NoId
        /\ ~Resting(w, id)
    BY WorldUpdates, NoIdAssumption DEF Owns, Staged, Fresh
  <1>2. /\ ExitsUnused(r) /\ Held(w, r) /\ qty = r.entryQty /\ qty > 0 /\ qty \in Int
        /\ r.direction \in {-1, 1} /\ r.direction \in Directions /\ r.exitQty = 0
        /\ old # NoId => old \in OrderIds /\ Resting(w, old)
    BY <1>1, StageFacts, SlotUpdates DEF Held, Stage
  <1>3. LimitDropped(w, w1, t)
    BY <1>2, CancelLimitDrops
  <1>4. /\ order \in Orders /\ order.direction = -r.direction /\ order.quantity = r.entryQty
        /\ order.reduceOnly /\ order # NoOrder
    BY <1>2 DEF Orders, NoOrder
  <1>5. \A u \in list : OrderOf(w.trades[u]) # id
    BY WorldUpdates, StageFacts DEF Fresh, Owns, Staged
  <1> HIDE DEF r, old
  <1>6. /\ w1 \in Worlds /\ w1.position = w.position
        /\ \A u \in TradeIds : u # t => w1.trades[u] = w.trades[u]
        /\ \A x \in OrderIds : x # old => w1.book[x] = w.book[x]
        /\ \A x \in OrderIds : x = old => ~Resting(w1, x)
        /\ ExitsUnused(w1.trades[t]) /\ Held(w1, w1.trades[t]) /\ Idle(w1.trades[t].limit)
        /\ w1.trades[t].entry = r.entry /\ w1.trades[t].direction = r.direction
        /\ w1.trades[t].entryQty = r.entryQty /\ w1.trades[t].exitQty = 0
    BY <1>2, <1>3 DEF LimitDropped, r, old
  <1>7. OrderOf(w1.trades[t]) = NoId
    BY <1>6 DEF OrderOf, Held, Idle
  <1>8. Keeps(w, w1, list, t)
    <2>1. Stage(w1, w1.trades[t])
      BY <1>2, <1>6 DEF Stage
    <2>2. Touches(w, w1, list, t)
      BY <1>6, <1>7, <2>1 DEF Touches, old, r
    <2>3. ~IsClosed(w1.trades[t]) /\ ~IsClosed(r)
      BY <1>2, <1>6 DEF ExitsUnused
    <2> QED
      BY <1>2, <1>6, <2>2, <2>3 DEF Keeps, RemainingQty, r
  <1> DEFINE r1 == w1.trades[t]
             limit == [r1.limit EXCEPT !.refId = id, !.orderedQty = qty]
             r2 == [r1 EXCEPT !.limit = limit]
  <1>9. r1 \in TradeRecords /\ r1.limit \in Slots
    BY <1>1, <1>6, WorldUpdates, SlotUpdates
  <1>10. /\ limit \in Slots /\ limit.refId = id /\ limit.orderId = NoId
         /\ limit.execQty = 0 /\ ~Filled(limit)
    BY <1>1, <1>2, <1>6, <1>9 DEF Slots, Ids, Idle, ExitsUnused, IsClosed, Filled
  <1> HIDE DEF limit
  <1>11. /\ r2 \in TradeRecords /\ r2.limit = limit /\ r2.entry = r1.entry /\ r2.stop = r1.stop
         /\ r2.direction = r1.direction /\ r2.entryQty = r1.entryQty /\ r2.exitQty = r1.exitQty
    BY <1>9, <1>10 DEF TradeRecords
  <1>12. /\ w2 \in Worlds /\ w2.trades[t] = r2 /\ w2.book = w1.book /\ w2.position = w.position
         /\ \A u \in TradeIds : u # t => w2.trades[u] = w.trades[u]
    <2>1. w2 = [w1 EXCEPT !.trades[t] = r2]
      BY DEF limit
    <2> HIDE DEF r2
    <2> DEFINE x == [w1 EXCEPT !.trades[t] = r2]
    <2>2. /\ x \in Worlds /\ x.trades[t] = r2 /\ x.book = w1.book
          /\ x.position = w1.position
          /\ \A u \in TradeIds : u # t => x.trades[u] = w1.trades[u]
      BY <1>1, <1>6, <1>11 DEF Worlds
    <2>3. w2 = x
      BY <2>1
    <2> HIDE DEF x
    <2> QED
      BY <1>6, <2>2, <2>3
  <1> HIDE DEF r1, r2
  <1> DEFINE v == RestOrder(w2, list, id, order)
  <1>13. ProfitResting(w2, v, t, id, order)
    <2>1. /\ w2.trades[t].limit.refId = id /\ w2.trades[t].limit.orderId = NoId
          /\ Idle(w2.trades[t].entry) /\ Idle(w2.trades[t].stop)
      BY <1>6, <1>10, <1>11, <1>12 DEF Held, r1
    <2>2. \A u \in list : Refers(w2.trades[u], id) => u = t
      BY <1>12 DEF Fresh
    <2> QED
      BY <1>1, <1>4, <1>12, <2>1, <2>2, ProfitRests
  <1> HIDE DEF v
  <1>14. /\ v \in Worlds /\ v.position = w.position
         /\ \A u \in TradeIds : u # t => v.trades[u] = w.trades[u]
         /\ v.book = [w1.book EXCEPT ![id] = order]
         /\ v.trades[t].limit.orderId = id /\ v.trades[t].limit.refId = id
         /\ v.trades[t].limit.execQty = 0 /\ ~Filled(v.trades[t].limit)
         /\ v.trades[t].entry = r.entry /\ v.trades[t].stop = r1.stop
         /\ v.trades[t].direction = r.direction
         /\ v.trades[t].entryQty = r.entryQty /\ v.trades[t].exitQty = 0
    <2>1. /\ v \in Worlds /\ v.position = w2.position
          /\ v.book = [w2.book EXCEPT ![id] = order]
          /\ \A u \in TradeIds : u # t => v.trades[u] = w2.trades[u]
          /\ v.trades[t].limit.orderId = id /\ v.trades[t].limit.refId = id
          /\ v.trades[t].limit.execQty = r2.limit.execQty
          /\ Filled(v.trades[t].limit) <=> Filled(r2.limit)
          /\ v.trades[t].entry = r2.entry /\ v.trades[t].stop = r2.stop
          /\ v.trades[t].direction = r2.direction
          /\ v.trades[t].entryQty = r2.entryQty /\ v.trades[t].exitQty = r2.exitQty
      BY <1>12, <1>13 DEF ProfitResting
    <2> QED
      BY <1>6, <1>10, <1>11, <1>12, <2>1 DEF r1
  <1>15. /\ v.book[id] = order
         /\ \A x \in OrderIds : x # id => v.book[x] = w1.book[x]
    BY <1>1, <1>6, <1>14 DEF Worlds, Books
  <1>16. ExitsUnused(v.trades[t]) /\ Held(v, v.trades[t])
    <2>1. ExitsUnused(v.trades[t])
      BY <1>1, <1>2, <1>4, <1>6, <1>14 DEF ExitsUnused, IsClosed, r1
    <2>2. /\ v.book[id].direction = -v.trades[t].direction
          /\ v.book[id].quantity = v.trades[t].entryQty /\ v.book[id].reduceOnly
      BY <1>4, <1>14, <1>15
    <2>3. /\ Filled(v.trades[t].entry) /\ Idle(v.trades[t].entry) /\ Idle(v.trades[t].stop)
          /\ v.trades[t].entryQty > 0 /\ v.trades[t].exitQty = 0
      <3>1. /\ Filled(r1.entry) /\ Idle(r1.entry) /\ Idle(r1.stop) /\ r1.entry = r.entry
        BY <1>6 DEF Held, r1
      <3> QED
        BY <1>2, <1>14, <3>1
    <2>4. Held(v, v.trades[t])
      BY <1>1, <1>14, <2>2, <2>3 DEF Held
    <2> QED
      BY <2>1, <2>4
  <1>17. OrderOf(v.trades[t]) = id
    BY <1>14, <1>16 DEF OrderOf, Held
  <1>18. Keeps(w, v, list, t)
    <2>1. Stage(v, v.trades[t])
      BY <1>2, <1>14, <1>16 DEF Stage
    <2>2. \A x \in OrderIds : x # old /\ x # id => v.book[x] = w.book[x]
      BY <1>6, <1>15
    <2>3. \A x \in OrderIds : x = old /\ x # id => ~Resting(v, x)
      BY <1>6, <1>15 DEF Resting
    <2>4. Touches(w, v, list, t)
      BY <1>5, <1>14, <1>17, <2>1, <2>2, <2>3 DEF Touches, old, r
    <2>5. ~IsClosed(v.trades[t]) /\ ~IsClosed(r)
      BY <1>2, <1>16 DEF ExitsUnused
    <2> QED
      BY <1>2, <1>14, <2>4, <2>5 DEF Keeps, RemainingQty, r
  <1> QED
    BY <1>8, <1>18 DEF v

LEMMA KeepsTransitive ==
  ASSUME NEW w \in Worlds, NEW v, NEW x, NEW list \in SUBSET TradeIds, NEW t \in list,
         Keeps(w, v, list, t), LevelOnly(v.trades[t], x.trades[t]),
         x \in Worlds, x.book = v.book, x.position = v.position,
         \A u \in TradeIds : u # t => x.trades[u] = v.trades[u]
  PROVE  Keeps(w, x, list, t)
  <1>1. /\ v \in Worlds /\ Stage(v, v.trades[t])
        /\ \A u \in TradeIds : u # t => v.trades[u] = w.trades[u]
    BY DEF Keeps, Touches
  <1>2. /\ Stage(v, x.trades[t]) /\ OrderOf(x.trades[t]) = OrderOf(v.trades[t])
        /\ RemainingQty(x.trades[t]) = RemainingQty(v.trades[t])
        /\ IsClosed(x.trades[t]) <=> IsClosed(v.trades[t])
    BY <1>1, LevelKeeps
  <1>3. x.trades[t] \in TradeRecords
    BY WorldUpdates
  <1>4. Stage(x, x.trades[t])
    BY <1>1, <1>2, <1>3, StageByBook
  <1>5. Touches(w, x, list, t)
    BY <1>1, <1>2, <1>4 DEF Keeps, Touches, Resting
  <1>6. x.trades[t].direction = v.trades[t].direction /\ x.trades[t].entry = v.trades[t].entry
    BY DEF LevelOnly
  <1> QED
    BY <1>2, <1>5, <1>6 DEF Keeps

LEMMA ModifyTakeProfitKeeps ==
  ASSUME NEW w \in Worlds, NEW list \in SUBSET TradeIds, NEW t \in list,
         NEW id, NEW price \in Nat, NEW mod,
         Owns(w, list), IsActive(w.trades[t]), Fresh(w, list, id)
  PROVE  Keeps(w, ModifyTakeProfit(w, list, t, id, price, mod), list, t)
  <1> DEFINE trade == w.trades[t]
             qty   == RemainingQty(trade)
             order == [direction |-> -trade.direction, quantity |-> qty, price |-> price,
                       reduceOnly |-> TRUE]
             w1    == CancelLimit(w, t)
             w2    == [w1 EXCEPT !.trades[t].limit = [@ EXCEPT !.refId = id, !.orderedQty = qty]]
             sent  == RestOrder(w2, list, id, order)
             w3    == IF Effective(trade.limit, mod) = "DISTANT" /\ price > 0 THEN sent ELSE w1
             x     == [w3 EXCEPT !.trades[t].takeProfit = price]
  <1>1. ~trade.stop.closing
    <2>1. ExitsUnused(trade)
      BY WorldUpdates, StageFacts DEF Owns, Staged
    <2> QED
      BY <2>1 DEF ExitsUnused
  <1>2. ModifyTakeProfit(w, list, t, id, price, mod) = x
    BY <1>1 DEF ModifyTakeProfit
  <1>3. Keeps(w, w1, list, t) /\ Keeps(w, sent, list, t)
    BY ProfitSent
  <1>4. Keeps(w, w3, list, t)
    <2> HIDE DEF w1, sent
    <2> QED
      BY <1>3
  <1> HIDE DEF w3
  <1>5. w3 \in Worlds /\ t \in TradeIds
    BY <1>4 DEF Keeps, Touches
  <1>6. /\ x \in Worlds /\ x.book = w3.book /\ x.position = w3.position
        /\ \A u \in TradeIds : u # t => x.trades[u] = w3.trades[u]
        /\ LevelOnly(w3.trades[t], x.trades[t])
    BY <1>5, LevelsMove
  <1> HIDE DEF x
  <1>7. Keeps(w, x, list, t)
    BY <1>4, <1>6, KeepsTransitive
  <1> QED
    BY <1>2, <1>7

-----------------------------------------------------------------------------
(* What every handler of a listed trade preserves.                         *)

Moves(w, v, list, t) ==
  /\ v \in Worlds /\ Owns(v, list) /\ Nets(v, list)
  /\ \A u \in TradeIds : u # t => v.trades[u] = w.trades[u]
  /\ v.trades[t].direction = w.trades[t].direction
  /\ IsClosed(w.trades[t]) => IsClosed(v.trades[t])
  /\ Filled(w.trades[t].entry) => Filled(v.trades[t].entry)

LEMMA MovesTransitive ==
  ASSUME NEW w, NEW v, NEW x, NEW list, NEW t, Moves(w, v, list, t), Moves(v, x, list, t)
  PROVE  Moves(w, x, list, t)
  BY DEF Moves

LEMMA MovesNothing ==
  ASSUME NEW w \in Worlds, NEW list, NEW t, Owns(w, list), Nets(w, list)
  PROVE  Moves(w, w, list, t)
  BY DEF Moves

LEMMA KeepsMoves ==
  ASSUME NEW w \in Worlds, NEW v, NEW list \in SUBSET TradeIds, NEW t \in list,
         Owns(w, list), Nets(w, list), Keeps(w, v, list, t)
  PROVE  /\ Moves(w, v, list, t) /\ v.trades[t].entry = w.trades[t].entry
         /\ IsClosed(v.trades[t]) <=> IsClosed(w.trades[t])
  <1>1. v \in Worlds /\ Owns(v, list) /\ Nets(v, list)
    BY KeepsNets
  <1> QED
    BY <1>1 DEF Moves, Keeps, Touches

LEMMA LeavesMoves ==
  ASSUME NEW w \in Worlds, NEW v, NEW list \in SUBSET TradeIds, NEW t \in list,
         Owns(w, list), Nets(w, list), Leaves(w, v, list, t)
  PROVE  Moves(w, v, list, t) /\ IsClosed(v.trades[t])
  <1>1. v \in Worlds /\ Owns(v, list) /\ Nets(v, list)
    BY LeavesNets
  <1> QED
    BY <1>1 DEF Moves, Leaves, Touches

LEMMA EntersMoves ==
  ASSUME NEW w \in Worlds, NEW v, NEW list \in SUBSET TradeIds, NEW t \in list,
         Owns(w, list), Nets(w, list), Enters(w, v, list, t), ~IsClosed(w.trades[t]),
         ~Filled(w.trades[t].entry),
         \A u \in list : RemainingQty(w.trades[u]) > 0
           => w.trades[u].direction = w.trades[t].direction
  PROVE  Moves(w, v, list, t)
  <1>1. v \in Worlds /\ Owns(v, list) /\ Nets(v, list)
    BY EntersNets
  <1> QED
    BY <1>1 DEF Moves, Enters, Touches

(* updateTrade() of an active trade.                                       *)
NoDistantStop == "DISTANT" \notin StopMods

LEMMA NewIdsFresh ==
  ASSUME NEW w, NEW list \in SUBSET TradeIds, NEW id \in NewIds(w)
  PROVE  Fresh(w, list, id)
  BY NewIdsAreFresh DEF FreshIds, Fresh

LEMMA OneUpdateKeeps ==
  ASSUME NoDistantStop, NEW w \in Worlds, listed \in SUBSET TradeIds, NEW t \in listed,
         Owns(w, listed), Nets(w, listed), IsActive(w.trades[t]), NEW v \in OneUpdate(w, t)
  PROVE  /\ Moves(w, v, listed, t) /\ v.trades[t].entry = w.trades[t].entry
         /\ IsClosed(v.trades[t]) <=> IsClosed(w.trades[t])
  <1>1. CASE v = w
    BY <1>1, MovesNothing
  <1>2. ASSUME NEW a \in NewIds(w) \X Levels \X StopMods,
               v = ModifyStopLoss(w, listed, t, a[1], a[2], a[3])
        PROVE  Keeps(w, v, listed, t)
    <2>1. a[2] \in Nat /\ a[3] # "DISTANT"
      BY PaperAssumption DEF NoDistantStop
    <2> QED
      BY <1>2, <2>1, ModifyStopLossKeeps
  <1>3. ASSUME NEW a \in NewIds(w) \X Levels \X ProfitMods,
               v = ModifyTakeProfit(w, listed, t, a[1], a[2], a[3])
        PROVE  Keeps(w, v, listed, t)
    <2>1. Fresh(w, listed, a[1]) /\ a[2] \in Nat
      BY NewIdsFresh, PaperAssumption
    <2> QED
      BY <1>3, <2>1, ModifyTakeProfitKeeps
  <1> QED
    BY <1>1, <1>2, <1>3, KeepsMoves DEF OneUpdate

LEMMA UpdatesKeep ==
  ASSUME NoDistantStop, NEW w \in Worlds, listed \in SUBSET TradeIds, NEW t \in listed,
         Owns(w, listed), Nets(w, listed), IsActive(w.trades[t]), NEW v \in Updates(w, t)
  PROVE  /\ Moves(w, v, listed, t) /\ v.trades[t].entry = w.trades[t].entry
         /\ IsClosed(v.trades[t]) <=> IsClosed(w.trades[t])
  <1>1. PICK u \in OneUpdate(w, t) : v \in OneUpdate(u, t)
    BY DEF Updates
  <1>2. /\ Moves(w, u, listed, t) /\ u.trades[t].entry = w.trades[t].entry
        /\ IsClosed(u.trades[t]) <=> IsClosed(w.trades[t])
    BY OneUpdateKeeps
  <1>3. u \in Worlds /\ Owns(u, listed) /\ Nets(u, listed) /\ IsActive(u.trades[t])
    BY <1>2 DEF Moves, IsActive
  <1>4. /\ Moves(u, v, listed, t) /\ v.trades[t].entry = u.trades[t].entry
        /\ IsClosed(v.trades[t]) <=> IsClosed(u.trades[t])
    BY <1>1, <1>3, OneUpdateKeeps
  <1> QED
    BY <1>2, <1>4, MovesTransitive

-----------------------------------------------------------------------------
(* open(): a new trade, with its entry executed or resting.                *)

(* The list grows by one trade, whose order was not in use.                *)
LEMMA AddedOwns ==
  ASSUME NEW w \in Worlds, NEW v \in Worlds, NEW list \in SUBSET TradeIds,
         NEW t \in TradeIds \ list, NEW id, Owns(w, list), Fresh(w, list, id),
         \A u \in TradeIds : u # t => v.trades[u] = w.trades[u],
         Stage(v, v.trades[t]), OrderOf(v.trades[t]) \in {NoId, id},
         \A x \in OrderIds : x # OrderOf(v.trades[t]) => v.book[x] = w.book[x]
  PROVE  Owns(v, list \cup {t})
  <1> DEFINE new == OrderOf(v.trades[t])
  <1>1. ASSUME NEW u \in list
        PROVE  /\ v.trades[u] = w.trades[u] /\ Stage(v, v.trades[u])
               /\ OrderOf(v.trades[u]) # new \/ OrderOf(v.trades[u]) = NoId
    <2>1. v.trades[u] = w.trades[u] /\ w.trades[u] \in TradeRecords /\ Stage(w, w.trades[u])
      BY WorldUpdates DEF Owns, Staged
    <2>2. /\ OrderOf(w.trades[u]) # NoId => OrderOf(w.trades[u]) \in OrderIds
          /\ OrderOf(w.trades[u]) # id
      BY <2>1, StageFacts DEF Fresh
    <2> QED
      BY <2>1, <2>2, StageByBook
  <1>2. \A x \in OrderIds : Resting(v, x) /\ x # new => Resting(w, x)
    BY DEF Resting
  <1> HIDE DEF new
  <1>3. Staged(v, list \cup {t})
    BY <1>1 DEF Staged
  <1>4. \A u, x \in list \cup {t} : OrderOf(v.trades[u]) = OrderOf(v.trades[x])
          => u = x \/ OrderOf(v.trades[u]) = NoId
    BY <1>1 DEF Owns, OneEach, new
  <1>5. \A x \in OrderIds : Resting(v, x) => \E u \in list \cup {t} : OrderOf(v.trades[u]) = x
    BY <1>1, <1>2 DEF Owns, OneEach, new
  <1> QED
    BY <1>3, <1>4, <1>5 DEF Owns, OneEach

LEMMA AddedLeft ==
  ASSUME NEW w \in Worlds, NEW v \in Worlds, NEW list \in SUBSET TradeIds,
         NEW t \in TradeIds \ list, IsFiniteSet(list),
         \A u \in TradeIds : u # t => v.trades[u] = w.trades[u],
         Staged(w, list), Staged(v, list \cup {t})
  PROVE  /\ IsFiniteSet(list \cup {t}) /\ SumFunctionOnSet(Left(w), list) \in Nat
         /\ RemainingQty(v.trades[t]) \in Nat
         /\ SumFunctionOnSet(Left(v), list \cup {t})
              = SumFunctionOnSet(Left(w), list) + RemainingQty(v.trades[t])
  <1> DEFINE f   == Left(w)
             g   == Left(v)
             all == list \cup {t}
  <1>1. /\ all \in SUBSET TradeIds /\ t \in all /\ all \ {t} = list /\ IsFiniteSet(all)
    BY FS_AddElement
  <1>2. \A u \in list : f[u] \in Nat /\ g[u] = f[u]
    BY LeftTypes DEF Left
  <1>3. \A u \in all : g[u] \in Nat
    BY <1>1, LeftTypes
  <1>4. g[t] = RemainingQty(v.trades[t])
    BY DEF Left
  <1> HIDE DEF f, g, all
  <1>5. SumFunctionOnSet(g, all) = g[t] + SumFunctionOnSet(g, list)
    BY <1>1, <1>3, SumRemove
  <1>6. SumFunctionOnSet(g, list) = SumFunctionOnSet(f, list)
    BY <1>2, SumSame
  <1>7. SumFunctionOnSet(f, list) \in Nat
    BY <1>2, SumNat
  <1>8. g[t] \in Nat
    BY <1>1, <1>3
  <1>9. SumFunctionOnSet(g, all) = SumFunctionOnSet(f, list) + g[t]
    BY <1>5, <1>6, <1>7, <1>8
  <1> QED
    BY <1>1, <1>4, <1>7, <1>8, <1>9 DEF f, g, all

LEMMA AddedNets ==
  ASSUME NEW w \in Worlds, NEW v \in Worlds, NEW list \in SUBSET TradeIds,
         NEW t \in TradeIds \ list, NEW d, Nets(w, list),
         \A u \in TradeIds : u # t => v.trades[u] = w.trades[u],
         Staged(w, list), Staged(v, list \cup {t}),
         v.trades[t].direction = d,
         \A u \in list : RemainingQty(w.trades[u]) > 0 => w.trades[u].direction = d,
         \/ v.position = w.position /\ RemainingQty(v.trades[t]) = 0
         \/ /\ v.position = More(w.position, d, RemainingQty(v.trades[t]))
            /\ RemainingQty(v.trades[t]) > 0
  PROVE  Nets(v, list \cup {t})
  <1> DEFINE p   == w.position
             q   == RemainingQty(v.trades[t])
             all == list \cup {t}
             sum == SumFunctionOnSet(Left(v), all)
  <1>1. IsFiniteSet(all) /\ q \in Nat /\ p.quantity \in Nat /\ sum = p.quantity + q
    BY AddedLeft DEF Nets
  <1>2. ASSUME NEW u \in all, RemainingQty(v.trades[u]) > 0
        PROVE  /\ v.trades[u].direction = d
               /\ u # t => w.position.direction = v.trades[u].direction
    BY <1>2 DEF Nets
  <1> HIDE DEF q, all, sum
  <1>3. CASE v.position = w.position /\ q = 0
    <2>1. \A u \in all : RemainingQty(v.trades[u]) > 0 => u # t
      BY <1>3 DEF q
    <2>2. v.position.quantity = sum
      BY <1>1, <1>3
    <2> QED
      BY <1>1, <1>2, <1>3, <2>1, <2>2 DEF Nets, sum, all
  <1>4. CASE v.position = More(w.position, d, q) /\ q > 0
    <2>1. v.position.quantity = sum /\ v.position.quantity > 0 /\ v.position.direction = d
      BY <1>1, <1>4 DEF More
    <2> QED
      BY <1>1, <1>2, <2>1 DEF Nets, sum, all
  <1> QED
    BY <1>3, <1>4 DEF q

(* The position is on the side of the trades that hold something.          *)
LEMMA SameSide ==
  ASSUME NEW w \in Worlds, NEW list \in SUBSET TradeIds, NEW d,
         Staged(w, list), Nets(w, list),
         \A u \in list : RemainingQty(w.trades[u]) > 0 => w.trades[u].direction = d
  PROVE  w.position = NoPosition \/ w.position.direction = d
  <1> SUFFICES ASSUME w.position # NoPosition PROVE w.position.direction = d
    OBVIOUS
  <1>1. PICK t \in list : RemainingQty(w.trades[t]) > 0
    BY PositionHeld
  <1> QED
    BY <1>1 DEF Nets

(* A trade whose entry is executed for the quantity it asked.              *)
LEMMA EnteredStage ==
  ASSUME NEW w, NEW e, EntryDone(e), e.direction \in Directions,
         NEW qty \in Nat \ {0}, e.entryQty = qty, e.exitQty = 0,
         e.limit.state \notin {"FILLED"}, e.stop.state \notin {"FILLED"},
         ~e.stop.closing, e.limit.execQty = 0, e.stop.execQty = 0
  PROVE  /\ Stage(w, e) /\ IsActive(e) /\ OrderOf(e) = NoId
         /\ RemainingQty(e) = qty /\ ~IsClosed(e) /\ Filled(e.entry)
  <1>1. ~IsClosed(e) /\ Filled(e.entry)
    BY DEF IsClosed, Filled, EntryDone
  <1>2. ExitsUnused(e) /\ Held(w, e)
    BY <1>1 DEF ExitsUnused, Held, EntryDone
  <1>3. OrderOf(e) = NoId
    BY DEF OrderOf, EntryDone, Idle
  <1>4. RemainingQty(e) = qty
    BY DEF RemainingQty
  <1>5. IsActive(e)
    BY <1>1 DEF IsActive, IsClosed, Filled
  <1> QED
    BY <1>1, <1>2, <1>3, <1>4, <1>5 DEF Stage

Opened(w, v, list, t, s) ==
  /\ v \in Worlds /\ Owns(v, list \cup {t}) /\ Nets(v, list \cup {t})
  /\ \A u \in TradeIds : u # t => v.trades[u] = w.trades[u]
  /\ v.trades[t].direction = s.direction
  /\ ~IsClosed(v.trades[t])
  /\ s.orderType = "MARKET" => Filled(v.trades[t].entry)

LEMMA NewTradeUnused ==
  ASSUME NEW id \in OrderIds, NEW s \in EntrySignals, NEW qty \in Quantities
  PROVE  LET r == NewTrade(id, s, qty)
             order == EntryOrder(s, qty)
         IN  /\ r.direction = s.direction /\ s.direction \in Directions
             /\ r.entryQty = 0 /\ r.exitQty = 0 /\ qty \in Nat \ {0}
             /\ r.limit.state = "UNDEFINED" /\ r.stop.state = "UNDEFINED"
             /\ ~r.stop.closing /\ r.limit.execQty = 0 /\ r.stop.execQty = 0
             /\ order.direction = s.direction /\ order.quantity = qty
             /\ ~order.reduceOnly
  BY PaperAssumption DEF NewTrade, EntryOrder, ResetSlot, EntrySignals

LEMMA OpenMarket ==
  ASSUME NEW w \in Worlds, NEW list \in SUBSET TradeIds, NEW t \in TradeIds \ list,
         NEW id \in FreshIds(w), NEW s \in EntrySignals, NEW qty \in Quantities,
         bid \in 1..MaxPrice, Owns(w, list), Nets(w, list),
         \A u \in list : RemainingQty(w.trades[u]) > 0 => w.trades[u].direction = s.direction,
         s.orderType = "MARKET"
  PROVE  Opened(w, Open(w, list \cup {t}, t, id, s, qty), list, t, s)
  <1> DEFINE all   == list \cup {t}
             r     == NewTrade(id, s, qty)
             order == EntryOrder(s, qty)
             w1    == [w EXCEPT !.trades[t] = r]
             v     == ExecIndMarginOrder(w1, all, id, order)
  <1>1. /\ id \in OrderIds /\ ~Resting(w, id) /\ id # NoId
        /\ \A u \in TradeIds : ~Refers(w.trades[u], id)
        /\ Fresh(w, list, id)
    BY NoIdAssumption DEF FreshIds, Fresh
  <1>2. r \in TradeRecords /\ order \in Orders
    BY <1>1, EntryRecords
  <1>3. /\ Idle(r.stop) /\ Idle(r.limit) /\ r.entry.refId = id /\ r.entry.orderId = NoId
        /\ r.entry.state = "UNDEFINED"
    BY <1>1, NewTradeIdle
  <1>4. /\ r.direction = s.direction /\ s.direction \in Directions
        /\ r.entryQty = 0 /\ r.exitQty = 0 /\ qty \in Nat \ {0}
        /\ r.limit.state = "UNDEFINED" /\ r.stop.state = "UNDEFINED"
        /\ ~r.stop.closing /\ r.limit.execQty = 0 /\ r.stop.execQty = 0
        /\ order.direction = s.direction /\ order.quantity = qty /\ ~order.reduceOnly
    BY <1>1, NewTradeUnused
  <1>5. Open(w, all, t, id, s, qty) = v
    BY DEF Open
  <1> HIDE DEF r, order
  <1>6. /\ w1 \in Worlds /\ w1.trades[t] = r /\ w1.book = w.book /\ w1.position = w.position
        /\ \A u \in TradeIds : u # t => w1.trades[u] = w.trades[u]
    BY <1>2 DEF Worlds
  <1> HIDE DEF w1
  <1>7. /\ all \in SUBSET TradeIds /\ t \in all
        /\ \A u \in all : Refers(w1.trades[u], id) => u = t
    BY <1>1, <1>6
  <1>8. /\ v \in Worlds /\ v.book = w1.book
        /\ \A u \in TradeIds : u # t => v.trades[u] = w1.trades[u]
        /\ EntryDone(v.trades[t]) /\ v.position = NextPosition(w1.position, order)
        /\ v.trades[t].limit = r.limit /\ v.trades[t].stop = r.stop
        /\ v.trades[t].direction = r.direction /\ v.trades[t].exitQty = r.exitQty
        /\ v.trades[t].entryQty = qty
    <2>1. EntryAwaits(w1.trades[t], id)
      BY <1>3, <1>6 DEF EntryAwaits
    <2> HIDE DEF all
    <2>2. Entered(w1, v, t, order)
      BY <1>1, <1>2, <1>4, <1>6, <1>7, <2>1, EntryExecuted, Zenon
    <2> HIDE DEF v
    <2> QED
      BY <1>4, <1>6, <2>2 DEF Entered
  <1> HIDE DEF v
  <1>9. v.book = w.book /\ \A u \in TradeIds : u # t => v.trades[u] = w.trades[u]
    BY <1>6, <1>8
  <1>10. /\ Stage(v, v.trades[t]) /\ OrderOf(v.trades[t]) = NoId
         /\ RemainingQty(v.trades[t]) = qty /\ ~IsClosed(v.trades[t])
         /\ Filled(v.trades[t].entry) /\ v.trades[t].direction = s.direction
    BY <1>4, <1>8, EnteredStage
  <1>11. Owns(v, all)
    BY <1>1, <1>8, <1>9, <1>10, AddedOwns, Zenon
  <1>12. v.position = More(w.position, s.direction, qty)
    <2>1. w.position = NoPosition \/ w.position.direction = s.direction
      BY SameSide DEF Owns
    <2>2. w.position \in Positions
      BY DEF Worlds
    <2> QED
      BY <1>2, <1>4, <1>6, <1>8, <2>1, <2>2, PositionMoves
  <1>13. Nets(v, all)
    BY <1>4, <1>8, <1>9, <1>10, <1>11, <1>12, AddedNets DEF Owns
  <1> QED
    BY <1>5, <1>8, <1>9, <1>10, <1>11, <1>13 DEF Opened

LEMMA OpenLimit ==
  ASSUME NEW w \in Worlds, NEW list \in SUBSET TradeIds, NEW t \in TradeIds \ list,
         NEW id \in FreshIds(w), NEW s \in EntrySignals, NEW qty \in Quantities,
         Owns(w, list), Nets(w, list),
         \A u \in list : RemainingQty(w.trades[u]) > 0 => w.trades[u].direction = s.direction,
         s.orderType # "MARKET"
  PROVE  Opened(w, Open(w, list \cup {t}, t, id, s, qty), list, t, s)
  <1> DEFINE all   == list \cup {t}
             r     == NewTrade(id, s, qty)
             order == EntryOrder(s, qty)
             w1    == [w EXCEPT !.trades[t] = r]
             v     == RestOrder(w1, all, id, order)
             e     == [r EXCEPT !.entry.orderId = id]
  <1>1. /\ id \in OrderIds /\ ~Resting(w, id) /\ id # NoId
        /\ \A u \in TradeIds : ~Refers(w.trades[u], id)
        /\ Fresh(w, list, id)
    BY NoIdAssumption DEF FreshIds, Fresh
  <1>2. r \in TradeRecords /\ order \in Orders
    BY <1>1, EntryRecords
  <1>3. /\ Idle(r.stop) /\ Idle(r.limit) /\ r.entry.refId = id /\ r.entry.orderId = NoId
        /\ r.entry.state = "UNDEFINED" /\ ~IsClosed(r)
    BY <1>1, NewTradeIdle
  <1>4. /\ r.direction = s.direction /\ s.direction \in Directions
        /\ r.entryQty = 0 /\ r.exitQty = 0 /\ qty \in Nat \ {0}
        /\ ~r.stop.closing /\ r.limit.execQty = 0 /\ r.stop.execQty = 0
        /\ order.direction = s.direction /\ order.quantity = qty /\ ~order.reduceOnly
    BY <1>1, NewTradeUnused
  <1>5. Open(w, all, t, id, s, qty) = v
    BY DEF Open
  <1> HIDE DEF r, order
  <1>6. /\ w1 \in Worlds /\ w1.trades[t] = r /\ w1.book = w.book /\ w1.position = w.position
        /\ \A u \in TradeIds : u # t => w1.trades[u] = w.trades[u]
    BY <1>2 DEF Worlds
  <1> HIDE DEF w1
  <1>7. /\ all \in SUBSET TradeIds /\ t \in all
        /\ \A u \in all : Refers(w1.trades[u], id) => u = t
    BY <1>1, <1>6
  <1>8. /\ v \in Worlds /\ v.book = [w1.book EXCEPT ![id] = order]
        /\ v.trades = [w1.trades EXCEPT ![t] = [w1.trades[t] EXCEPT !.entry.orderId = id]]
    <2>1. EntryAwaits(w1.trades[t], id)
      BY <1>3, <1>6 DEF EntryAwaits
    <2> HIDE DEF all
    <2>2. Accepts(w1, v, t, id, order)
      BY <1>1, <1>2, <1>6, <1>7, <2>1, EntryRests, Zenon
    <2> HIDE DEF v
    <2> QED
      BY <2>2 DEF Accepts
  <1>9. v.position = w.position
    <2> DEFINE b == [w1 EXCEPT !.book[id] = order]
    <2>1. b \in Worlds /\ b.position = w1.position
      BY <1>1, <1>2, <1>6 DEF Worlds, Books
    <2> HIDE DEF b
    <2>2. Deliver(b, all, Announce(id, "OPENED")).position = b.position
      BY <2>1 DEF Deliver, Worlds
    <2> QED
      BY <1>6, <2>1, <2>2 DEF RestOrder, b
  <1> HIDE DEF v
  <1>10. /\ v.trades[t] = e /\ v.book[id] = order
         /\ \A x \in OrderIds : x # id => v.book[x] = w.book[x]
         /\ \A u \in TradeIds : u # t => v.trades[u] = w.trades[u]
    BY <1>1, <1>6, <1>8 DEF Worlds, Books
  <1>11. /\ e.entry.orderId = id /\ e.entry.refId = id /\ e.entry.state = "UNDEFINED"
         /\ e.stop = r.stop /\ e.limit = r.limit /\ e.direction = r.direction
         /\ e.entryQty = r.entryQty /\ e.exitQty = r.exitQty
    BY <1>2, <1>3 DEF TradeRecords, Slots
  <1> HIDE DEF e
  <1>12. /\ Stage(v, e) /\ OrderOf(e) = id /\ RemainingQty(e) = 0 /\ ~IsClosed(e)
    <2>1. Waiting(v, e)
      BY <1>1, <1>3, <1>4, <1>10, <1>11 DEF Waiting
    <2>2. ~IsClosed(e)
      BY <1>3, <1>11 DEF IsClosed
    <2>3. ExitsUnused(e)
      BY <1>4, <1>11, <2>2 DEF ExitsUnused
    <2>4. OrderOf(e) = id
      BY <1>1, <1>11 DEF OrderOf, Idle
    <2>5. RemainingQty(e) = 0
      BY <1>4, <1>11 DEF RemainingQty
    <2> QED
      BY <1>4, <1>11, <2>1, <2>2, <2>3, <2>4, <2>5 DEF Stage
  <1>13. Owns(v, all)
    <2>1. /\ Fresh(w, list, id) /\ v \in Worlds /\ Stage(v, v.trades[t])
          /\ OrderOf(v.trades[t]) \in {NoId, id}
          /\ \A u \in TradeIds : u # t => v.trades[u] = w.trades[u]
          /\ \A x \in OrderIds : x # OrderOf(v.trades[t]) => v.book[x] = w.book[x]
      BY <1>1, <1>8, <1>10, <1>12
    <2> QED
      BY <2>1, AddedOwns, Zenon
  <1>14. Nets(v, all)
    <2>1. v.trades[t].direction = s.direction /\ RemainingQty(v.trades[t]) = 0
      BY <1>4, <1>10, <1>11, <1>12
    <2> HIDE DEF v
    <2> QED
      BY <1>8, <1>9, <1>10, <1>13, <2>1, AddedNets DEF Owns
  <1> QED
    BY <1>4, <1>5, <1>8, <1>10, <1>11, <1>12, <1>13, <1>14 DEF Opened

-----------------------------------------------------------------------------
(* update(): an order of the connector is executed.                        *)

OneSide(w, list) ==
  \A u, x \in list : ~IsClosed(w.trades[u]) /\ ~IsClosed(w.trades[x])
                       => w.trades[u].direction = w.trades[x].direction

Taken(w, id) == [w EXCEPT !.book[id] = NoOrder]

LEMMA TakenFacts ==
  ASSUME NEW w \in Worlds, NEW id \in OrderIds
  PROVE  /\ Taken(w, id) \in Worlds /\ Taken(w, id).trades = w.trades
         /\ Taken(w, id).position = w.position /\ Taken(w, id).book[id] = NoOrder
         /\ \A x \in OrderIds : x # id => Taken(w, id).book[x] = w.book[x]
         /\ w.book[id] \in Orders
  <1>1. NoOrder \in Orders
    BY DEF NoOrder, Orders
  <1> QED
    BY <1>1 DEF Worlds, Books, Taken

LEMMA TakenTouches ==
  ASSUME NEW w \in Worlds, NEW v \in Worlds, NEW list \in SUBSET TradeIds, NEW t \in list,
         NEW id \in OrderIds, OrderOf(w.trades[t]) = id, v.book = Taken(w, id).book,
         \A u \in TradeIds : u # t => v.trades[u] = w.trades[u],
         Stage(v, v.trades[t]), OrderOf(v.trades[t]) = NoId
  PROVE  /\ Touches(w, v, list, t)
         /\ \A x \in OrderIds : x # id => v.book[x] = w.book[x]
  BY TakenFacts DEF Touches, Resting

LEMMA EntryTaken ==
  ASSUME NEW w \in Worlds, NEW list \in SUBSET TradeIds, NEW t \in list, NEW id \in OrderIds,
         bid \in 1..MaxPrice, Owns(w, list), Nets(w, list), OneSide(w, list),
         OrderOf(w.trades[t]) = id, ExitsUnused(w.trades[t]), Waiting(w, w.trades[t])
  PROVE  LET v == ExecIndMarginOrder(Taken(w, id), list, id, w.book[id])
         IN  /\ Moves(w, v, list, t)
             /\ \A x \in OrderIds : x # id => v.book[x] = w.book[x]
  <1> DEFINE r     == w.trades[t]
             order == w.book[id]
             w0    == Taken(w, id)
             v     == ExecIndMarginOrder(w0, list, id, order)
             e     == v.trades[t]
  <1>1. /\ w0 \in Worlds /\ w0.trades = w.trades /\ w0.position = w.position /\ order \in Orders
        /\ r \in TradeRecords /\ Stage(w, r)
    BY TakenFacts, WorldUpdates DEF Owns, Staged
  <1>2. /\ r.entry.orderId = id /\ r.entry.refId = id
    BY NoIdAssumption DEF Waiting, OrderOf, Idle
  <1>3. /\ order.direction = r.direction /\ order.quantity > 0 /\ ~order.reduceOnly
        /\ r.entry.state = "UNDEFINED" /\ r.exitQty = 0 /\ r.entryQty = 0
        /\ Idle(r.limit) /\ Idle(r.stop)
        /\ r.direction \in Directions /\ order.quantity \in Nat \ {0}
    BY <1>1, <1>2 DEF Waiting, Stage, Orders
  <1>4. \A u \in list : Refers(w0.trades[u], id) => u = t
    BY <1>1, WorldUpdates, StageFacts, NoIdAssumption DEF Owns, Staged, OneEach
  <1> HIDE DEF w0, order
  <1>5. /\ v \in Worlds /\ v.book = w0.book
        /\ \A u \in TradeIds : u # t => v.trades[u] = w.trades[u]
        /\ EntryDone(e) /\ v.position = NextPosition(w.position, order)
        /\ e.limit = r.limit /\ e.stop = r.stop /\ e.direction = r.direction
        /\ e.exitQty = r.exitQty /\ e.entryQty = order.quantity
    <2>1. EntryAwaits(w0.trades[t], id)
      BY <1>1, <1>2, <1>3 DEF EntryAwaits
    <2>2. Entered(w0, v, t, order)
      BY <1>1, <1>3, <1>4, <2>1, EntryExecuted, Zenon
    <2> HIDE DEF v
    <2> QED
      BY <1>1, <1>3, <2>2 DEF Entered
  <1> HIDE DEF v
  <1>6. /\ Stage(v, e) /\ IsActive(e) /\ OrderOf(e) = NoId /\ RemainingQty(e) = order.quantity
    <2>1. /\ e.limit.state # "FILLED" /\ e.stop.state # "FILLED"
          /\ ~e.stop.closing /\ e.limit.execQty = 0 /\ e.stop.execQty = 0
      BY <1>5 DEF ExitsUnused, IsClosed, Filled
    <2> HIDE DEF e
    <2> QED
      BY <1>3, <1>5, <2>1, EnteredStage
  <1>7. /\ Touches(w, v, list, t)
        /\ \A x \in OrderIds : x # id => v.book[x] = w.book[x]
    BY <1>5, <1>6, TakenTouches DEF w0
  <1>8. ~IsClosed(r) /\ RemainingQty(r) = 0 /\ ~Filled(r.entry)
    BY <1>3 DEF ExitsUnused, RemainingQty, Filled
  <1>9. \A u \in list : RemainingQty(w.trades[u]) > 0 => w.trades[u].direction = r.direction
    <2> SUFFICES ASSUME NEW u \in list, RemainingQty(w.trades[u]) > 0
                 PROVE  w.trades[u].direction = r.direction
      OBVIOUS
    <2>1. IsActive(w.trades[u])
      BY WorldUpdates, StageFacts DEF Owns, Staged
    <2>2. ~IsClosed(w.trades[u])
      BY <2>1 DEF IsActive
    <2> QED
      BY <1>8, <2>2 DEF OneSide
  <1>10. v.position = More(w.position, r.direction, RemainingQty(e))
    <2>1. w.position = NoPosition \/ w.position.direction = r.direction
      <3> HIDE DEF r
      <3> QED
        BY <1>9, SameSide DEF Owns
    <2>2. w.position \in Positions
      BY DEF Worlds
    <2> QED
      BY <1>1, <1>3, <1>5, <1>6, <2>1, <2>2, PositionMoves
  <1>11. Enters(w, v, list, t)
    BY <1>5, <1>6, <1>7, <1>8, <1>10 DEF Enters
  <1>12. Moves(w, v, list, t)
    BY <1>8, <1>9, <1>11, EntersMoves
  <1> QED
    BY <1>7, <1>12 DEF v, w0, order

LEMMA LimitTaken ==
  ASSUME NEW w \in Worlds, NEW list \in SUBSET TradeIds, NEW t \in list, NEW id \in OrderIds,
         bid \in 1..MaxPrice, Owns(w, list), Nets(w, list),
         OrderOf(w.trades[t]) = id, ExitsUnused(w.trades[t]), Held(w, w.trades[t])
  PROVE  LET v == ExecIndMarginOrder(Taken(w, id), list, id, w.book[id])
         IN  /\ Moves(w, v, list, t)
             /\ \A x \in OrderIds : x # id => v.book[x] = w.book[x]
  <1> DEFINE r     == w.trades[t]
             order == w.book[id]
             w0    == Taken(w, id)
             v     == ExecIndMarginOrder(w0, list, id, order)
             e     == v.trades[t]
  <1>1. /\ w0 \in Worlds /\ w0.trades = w.trades /\ w0.position = w.position /\ order \in Orders
        /\ r \in TradeRecords /\ Stage(w, r)
    BY TakenFacts, WorldUpdates DEF Owns, Staged
  <1>2. /\ r.limit.orderId = id /\ r.limit.refId = id
    BY NoIdAssumption DEF Held, OrderOf, Idle
  <1>3. /\ order.direction = -r.direction /\ order.quantity = r.entryQty /\ order.reduceOnly
        /\ r.exitQty = 0 /\ r.entryQty > 0 /\ r.entryQty \in Int
        /\ r.limit.execQty = 0
        /\ Idle(r.entry) /\ Filled(r.entry) /\ Idle(r.stop)
        /\ r.direction \in Directions /\ r.direction \in {-1, 1}
    BY <1>1, <1>2, PaperAssumption, NoIdAssumption DEF Held, ExitsUnused, Stage, Idle, TradeRecords
  <1>4. \A u \in list : Refers(w0.trades[u], id) => u = t
    BY <1>1, WorldUpdates, StageFacts, NoIdAssumption DEF Owns, Staged, OneEach
  <1>5. RemainingQty(r) = r.entryQty
    BY <1>3 DEF RemainingQty
  <1>6. IsActive(r)
    BY <1>1, <1>3, <1>5, StageFacts
  <1>7. /\ w.position # NoPosition /\ w.position.direction = r.direction /\ w.position \in Positions
    BY <1>3, <1>5, HeldPosition DEF Worlds
  <1> HIDE DEF w0, order
  <1>8. /\ ExitFilled(w0, v, t, r.entryQty) /\ v.position = NextPosition(w.position, order)
    <2>1. /\ w0.trades[t].limit.refId = id /\ w0.trades[t].limit.orderId = id
          /\ w0.trades[t].limit.execQty = 0 /\ order.quantity > 0
          /\ Idle(w0.trades[t].entry) /\ Filled(w0.trades[t].entry)
          /\ Idle(w0.trades[t].stop) /\ Accepted(w0.position, order)
      BY <1>1, <1>2, <1>3, <1>7 DEF Accepted
    <2>2. /\ ExitFilled(w0, v, t, order.quantity)
          /\ v.position = NextPosition(w0.position, order)
      BY <1>1, <1>4, <2>1, LimitExecuted
    <2> QED
      BY <1>1, <1>3, <2>2
  <1> HIDE DEF v
  <1>9. Stage(v, e) /\ IsClosed(e) /\ OrderOf(e) = NoId
    <2>1. w0.trades[t] = r
      BY <1>1
    <2> HIDE DEF r
    <2> QED
      BY <1>3, <1>8, <2>1, ExitFilledStage
  <1>10. /\ v \in Worlds /\ v.book = w0.book
         /\ \A u \in TradeIds : u # t => v.trades[u] = w.trades[u]
         /\ e.direction = r.direction /\ e.entry = r.entry
    BY <1>1, <1>8 DEF ExitFilled
  <1>11. /\ Touches(w, v, list, t)
         /\ \A x \in OrderIds : x # id => v.book[x] = w.book[x]
    BY <1>9, <1>10, TakenTouches DEF w0
  <1>12. v.position = Less(w.position, RemainingQty(r))
    BY <1>1, <1>3, <1>5, <1>7, <1>8, PositionMoves
  <1>13. Leaves(w, v, list, t)
    BY <1>6, <1>9, <1>10, <1>11, <1>12 DEF Leaves
  <1>14. Moves(w, v, list, t)
    BY <1>13, LeavesMoves
  <1> QED
    BY <1>11, <1>14 DEF v, w0, order

LEMMA OrderTaken ==
  ASSUME NEW w \in Worlds, NEW list \in SUBSET TradeIds, NEW id \in OrderIds, Resting(w, id),
         bid \in 1..MaxPrice, Owns(w, list), Nets(w, list), OneSide(w, list)
  PROVE  LET v == ExecIndMarginOrder(Taken(w, id), list, id, w.book[id])
         IN  /\ \E t \in list : Moves(w, v, list, t)
             /\ \A x \in OrderIds : x # id => v.book[x] = w.book[x]
  <1>1. PICK t \in list : OrderOf(w.trades[t]) = id
    BY DEF Owns, OneEach
  <1>2. Stage(w, w.trades[t])
    BY DEF Owns, Staged
  <1>3. ~Exited(w.trades[t])
    BY <1>1, NoIdAssumption DEF Exited, EntryDone, OrderOf, Idle
  <1>4. CASE ExitsUnused(w.trades[t]) /\ Waiting(w, w.trades[t])
    BY <1>1, <1>4, EntryTaken
  <1>5. CASE ExitsUnused(w.trades[t]) /\ Held(w, w.trades[t])
    BY <1>1, <1>5, LimitTaken
  <1> QED
    BY <1>2, <1>3, <1>4, <1>5 DEF Stage

-----------------------------------------------------------------------------
(* The inductive invariant.                                                *)

(* A market that is never on two sides at once: the strategy only trades   *)
(* one side, or only enters at the market and closes the other side first. *)
OneWay ==
  \/ \A d, e \in Directions : d = e
  \/ EntryTypes \subseteq {"MARKET"} /\ Reversal

OpenSide(list, d) == \A t \in list : ~IsClosed(trades[t]) => trades[t].direction = d

Sided ==
  \A t, u \in listed : ~IsClosed(trades[t]) /\ ~IsClosed(trades[u])
                         => trades[t].direction = trades[u].direction

(* An entry at the market is executed before open() returns.               *)
NoneWaits == EntryTypes \subseteq {"MARKET"} => \A t \in listed : Filled(trades[t].entry)

(* Once the opposite side is closed, what is open is on the signal's side. *)
SignalSide ==
  /\ phase \in {"process", "entry"} /\ signal # NoSignal => OpenSide(listed, signal.direction)
  /\ phase = "reverse" =>
       /\ signal \in EntrySignals
       /\ \A t \in todo : trades[t].direction = -signal.direction
       /\ OpenSide(listed \ todo, signal.direction)

Closed == {t \in listed : IsClosed(trades[t])}

(* process() collects the trades whose exit is filled.                     *)
Collected ==
  /\ phase = "process" => removed \subseteq Closed /\ Closed \subseteq todo \cup removed
  /\ phase # "process" => removed = {}

Unhit(list) == \A t \in list : IsActive(trades[t]) => ~Triggered(trades[t])

Watched ==
  /\ phase = "process" => Unhit(listed \ todo)
  /\ phase = "entry" => Unhit(listed)

Core == Owns(World, listed) /\ Nets(World, listed)

NInv ==
  /\ TInv /\ TodoResting /\ Core
  /\ Sided /\ NoneWaits /\ SignalSide /\ Collected /\ Watched

LEMMA CorePrimed ==
  ASSUME Owns(World', listed'), Nets(World', listed') PROVE Core'
  BY DEF Core

LEMMA NInvTypes ==
  ASSUME NInv
  PROVE  /\ World \in Worlds /\ World.trades = trades /\ World.book = book
         /\ World.position = position /\ listed \in SUBSET TradeIds /\ IsFiniteSet(listed)
         /\ bid \in 1..MaxPrice /\ removed \subseteq listed
         /\ Owns(World, listed) /\ Nets(World, listed) /\ OneSide(World, listed)
         /\ phase \in {"reverse", "process"} => todo \subseteq listed
         /\ numClosed \in Nat /\ signal \in EntrySignals \cup {NoSignal}
         /\ \A t \in listed : trades[t] \in TradeRecords /\ Stage(World, trades[t])
  BY WorldType DEF NInv, TInv, TypeOK, TodoListed, World, Core, Nets, Owns, Staged, Sided, OneSide

LEMMA NInvInit == Init => NInv
  <1> SUFFICES ASSUME Init PROVE NInv
    OBVIOUS
  <1>1. TInv /\ World \in Worlds
    BY TInvInit, WorldType DEF TInv
  <1>2. \A id \in OrderIds : ~Resting(World, id)
    BY DEF Init, Resting, World
  <1>3. Owns(World, listed)
    BY <1>2 DEF Init, Owns, Staged, OneEach
  <1>4. Nets(World, listed)
    <2>1. World.position = NoPosition /\ listed = {}
      BY DEF Init, World
    <2>2. IsFiniteSet({}) /\ SumFunctionOnSet(Left(World), {}) = 0
      BY FS_EmptySet, SumEmpty
    <2> QED
      BY <2>1, <2>2 DEF Nets, NoPosition
  <1> QED
    BY <1>1, <1>3, <1>4
       DEF NInv, Core, TodoResting, Init, Sided, NoneWaits, SignalSide, Collected, Watched

(* A handler of one listed trade.                                          *)
Follows ==
  /\ listed' = listed
  /\ \A u \in listed : /\ trades'[u].direction = trades[u].direction
                       /\ IsClosed(trades[u]) => IsClosed(trades'[u])
                       /\ Filled(trades[u].entry) => Filled(trades'[u].entry)

LEMMA FollowsSides ==
  ASSUME Sided, NoneWaits, Follows
  PROVE  /\ Sided' /\ NoneWaits'
         /\ \A list \in SUBSET listed : \A d : OpenSide(list, d) =>
              \A u \in list : ~IsClosed(trades'[u]) => trades'[u].direction = d
  <1>1. Sided'
    BY DEF Sided, Follows, IsClosed, Filled
  <1>2. NoneWaits'
    BY DEF NoneWaits, Follows, Filled
  <1>3. \A list \in SUBSET listed : \A d : OpenSide(list, d) =>
          \A u \in list : ~IsClosed(trades'[u]) => trades'[u].direction = d
    BY DEF OpenSide, Follows
  <1> QED
    BY <1>1, <1>2, <1>3

LEMMA MovesFollow ==
  ASSUME NInv, NEW t \in listed, NEW w, Moves(World, w, listed, t), Become(w),
         listed' = listed
  PROVE  /\ World' = w /\ trades' = w.trades /\ Core' /\ Follows
         /\ \A u \in listed : u # t => trades'[u] = trades[u]
  <1>1. /\ World \in Worlds /\ listed \in SUBSET TradeIds /\ World.trades = trades
    BY NInvTypes
  <1>2. World' = w /\ trades' = w.trades
    BY BecomeWorld DEF Moves, Become
  <1>3. Core'
    BY <1>2, CorePrimed DEF Moves
  <1>4. \A u \in listed : u # t => trades'[u] = trades[u]
    BY <1>1, <1>2 DEF Moves
  <1>5. Follows
    BY <1>1, <1>2, <1>4 DEF Follows, Moves
  <1> QED
    BY <1>2, <1>3, <1>4, <1>5

(* The steps of the loop that leave the trades and the connector alone.    *)
LEMMA QuietSides ==
  ASSUME NInv, UNCHANGED <<trades, listed, book, position>>
  PROVE  Core' /\ Sided' /\ NoneWaits' /\ World' = World /\ Closed' = Closed
  <1>1. World' = World
    BY DEF World
  <1> QED
    BY <1>1, CorePrimed DEF NInv, Core, Sided, NoneWaits, Closed, IsClosed, Filled

LEMMA NInvTick == ASSUME NInv, TInv', OnTick PROVE NInv'
  <1>1. Core' /\ Sided' /\ NoneWaits'
    BY QuietSides DEF OnTick
  <1>2. Collected'
    BY DEF OnTick, NInv, Collected
  <1> QED
    BY <1>1, <1>2 DEF OnTick, NInv, TodoResting, SignalSide, Watched

LEMMA NInvSignal == ASSUME OneWay, NInv, TInv', ComputeSignal PROVE NInv'
  <1> DEFINE opposite(s) == TradesByDirection(-s.direction)
             reverse(s) == s # NoSignal /\ Reversal /\ opposite(s) # {}
  <1>1. PICK s \in EntrySignals \cup {NoSignal} :
          /\ signal' = s
          /\ phase' = IF reverse(s) THEN "reverse" ELSE "process"
          /\ todo' = IF reverse(s) THEN opposite(s) ELSE listed
    BY DEF ComputeSignal
  <1>2. /\ UNCHANGED <<trades, listed, book, position, bid, removed>> /\ numClosed' = 0
        /\ phase = "signal"
    BY DEF ComputeSignal
  <1>3. Core' /\ Sided' /\ NoneWaits' /\ Closed' = Closed
    BY <1>2, QuietSides
  <1>4. /\ \A t \in listed : trades[t].direction \in Directions
        /\ s # NoSignal => s \in EntrySignals /\ s.direction \in Directions
    BY NInvTypes DEF Stage, EntrySignals
  <1>5. \A d, e \in Directions : d # e => d = -e
    BY PaperAssumption
  <1>6. CASE reverse(s)
    <2>1. \A t \in listed \ opposite(s) : trades[t].direction = s.direction
      BY <1>4, <1>5, <1>6 DEF TradesByDirection
    <2>2. \A t \in opposite(s) : trades[t].direction = -s.direction
      BY DEF TradesByDirection
    <2>3. SignalSide'
      BY <1>1, <1>2, <1>4, <1>6, <2>1, <2>2 DEF SignalSide, OpenSide
    <2>4. Collected'
      BY <1>1, <1>2, <1>6 DEF NInv, Collected
    <2> QED
      BY <1>1, <1>3, <1>6, <2>3, <2>4 DEF NInv, TodoResting, Watched
  <1>7. CASE ~reverse(s)
    <2>1. s # NoSignal => \A t \in listed : trades[t].direction = s.direction
      BY <1>4, <1>5, <1>7 DEF OneWay, TradesByDirection
    <2>2. SignalSide'
      BY <1>1, <1>2, <1>7, <2>1 DEF SignalSide, OpenSide
    <2>3. Collected'
      BY <1>1, <1>2, <1>3, <1>7 DEF NInv, Collected, Closed
    <2>4. Watched'
      BY <1>1, <1>2, <1>7 DEF Watched, Unhit
    <2> QED
      BY <1>1, <1>3, <1>7, <2>2, <2>3, <2>4 DEF NInv, TodoResting
  <1> QED
    BY <1>6, <1>7

LEMMA NInvReversed == ASSUME NInv, TInv', Reversed PROVE NInv'
  <1>1. Core' /\ Sided' /\ NoneWaits' /\ Closed' = Closed
    BY QuietSides DEF Reversed
  <1>2. /\ phase = "reverse" /\ phase' = "process" /\ todo = {} /\ todo' = listed
        /\ UNCHANGED <<trades, listed, signal, numClosed, removed>>
    BY DEF Reversed
  <1>3. Collected'
    BY <1>1, <1>2 DEF NInv, Collected, Closed
  <1>4. SignalSide'
    BY <1>2 DEF NInv, SignalSide, OpenSide, IsClosed, Filled
  <1>5. Watched'
    BY <1>2 DEF Watched, Unhit
  <1> QED
    BY <1>1, <1>2, <1>3, <1>4, <1>5 DEF NInv, TodoResting

LEMMA NInvNoEntry == ASSUME NInv, TInv', NoOrderEntry PROVE NInv'
  <1>1. Core' /\ Sided' /\ NoneWaits' /\ World' = World
    BY QuietSides DEF NoOrderEntry
  <1>2. TodoResting'
    BY <1>1 DEF NoOrderEntry, TodoResting, RestingIds, Resting
  <1>3. Collected'
    BY DEF NoOrderEntry, NInv, Collected
  <1> QED
    BY <1>1, <1>2, <1>3 DEF NoOrderEntry, NInv, SignalSide, Watched

LEMMA NInvUpdated == ASSUME NInv, TInv', Updated PROVE NInv'
  <1>1. Core' /\ Sided' /\ NoneWaits'
    BY QuietSides DEF Updated
  <1>2. Collected'
    BY DEF Updated, NInv, Collected
  <1> QED
    BY <1>1, <1>2 DEF Updated, NInv, TodoResting, SignalSide, Watched

LEMMA NInvStutter == ASSUME NInv, TInv', UNCHANGED vars PROVE NInv'
  <1>1. Core' /\ Sided' /\ NoneWaits' /\ World' = World /\ Closed' = Closed
    BY QuietSides DEF vars
  <1>2. Collected'
    BY <1>1 DEF vars, NInv, Collected
  <1>3. SignalSide'
    BY DEF vars, NInv, SignalSide, OpenSide, IsClosed, Filled
  <1>4. Watched' /\ TodoResting'
    BY <1>1 DEF vars, NInv, Watched, Unhit, Triggered, CloseExecPrice, ask, StopLossHit,
                TakeProfitHit, TodoResting, Resting, IsActive, IsClosed, Filled
  <1> QED
    BY <1>1, <1>2, <1>3, <1>4 DEF NInv

(* closeAllByDirection() leaves none of the trades it visits open.         *)
LEMMA NInvClose ==
  ASSUME OneWay, NInv, TInv', NEW t \in TradeIds, CloseOpposite(t) PROVE NInv'
  <1> DEFINE w(id) == IF IsActive(trades[t]) THEN Close(World, listed, t, id)
                                             ELSE CancelOpen(World, t)
  <1>1. PICK id \in NewIds(World) : Become(w(id))
    BY DEF CloseOpposite
  <1>2. /\ phase = "reverse" /\ phase' = "reverse" /\ t \in todo /\ todo' = todo \ {t}
        /\ numClosed' = numClosed + 1
        /\ UNCHANGED <<listed, bid, signal, removed>>
    BY DEF CloseOpposite
  <1>3. /\ World \in Worlds /\ listed \in SUBSET TradeIds /\ World.trades = trades
        /\ bid \in 1..MaxPrice /\ Owns(World, listed) /\ Nets(World, listed)
        /\ todo \subseteq listed /\ t \in listed /\ numClosed \in Nat
        /\ trades[t] \in TradeRecords /\ Stage(World, trades[t])
    BY <1>2, NInvTypes
  <1>4. IsActive(trades[t]) \/ IsClosed(trades[t])
    <2> SUFFICES ASSUME ~IsActive(trades[t]), ~IsClosed(trades[t]) PROVE FALSE
      OBVIOUS
    <2>1. trades[t].entry.state = "UNDEFINED"
      BY <1>3, StageFacts DEF Waiting
    <2>2. CASE EntryTypes \subseteq {"MARKET"}
      BY <1>3, <2>1, <2>2 DEF NInv, NoneWaits, Filled
    <2>3. CASE \A d, e \in Directions : d = e
      <3>1. trades[t].direction = -signal.direction /\ trades[t].direction \in Directions
        BY <1>2, <1>3 DEF NInv, SignalSide, Stage
      <3>2. signal.direction \in Directions
        BY <1>2 DEF NInv, SignalSide, EntrySignals
      <3>3. \A d \in Directions : d # -d
        BY PaperAssumption
      <3> QED
        BY <2>3, <3>1, <3>2, <3>3
    <2> QED
      BY <2>2, <2>3 DEF OneWay
  <1>5. Moves(World, w(id), listed, t) /\ IsClosed(w(id).trades[t])
    <2>1. CASE IsActive(trades[t])
      <3>1. Leaves(World, Close(World, listed, t, id), listed, t)
        BY <1>3, <2>1, NewIdsFresh, CloseLeaves
      <3> QED
        BY <1>3, <2>1, <3>1, LeavesMoves
    <2>2. CASE ~IsActive(trades[t])
      <3>1. trades[t].entry.state # "OPENED"
        BY <1>3, StageFacts
      <3>2. CancelOpen(World, t) = World
        BY <1>3, <3>1, CancelNothing
      <3> QED
        BY <1>3, <1>4, <2>2, <3>2, MovesNothing
    <2> QED
      BY <2>1, <2>2
  <1> HIDE DEF w
  <1>6. /\ trades' = w(id).trades /\ Core' /\ Follows
        /\ \A u \in listed : u # t => trades'[u] = trades[u]
    BY <1>1, <1>2, <1>3, <1>5, MovesFollow
  <1>7. IsClosed(trades'[t])
    BY <1>5, <1>6
  <1>8. Sided' /\ NoneWaits'
    BY <1>6, FollowsSides DEF NInv
  <1>9. SignalSide'
    <2>1. \A u \in todo' : trades'[u].direction = -signal.direction
      BY <1>2, <1>3, <1>6 DEF NInv, SignalSide, Follows
    <2>2. \A u \in listed \ todo' : ~IsClosed(trades'[u]) => trades'[u].direction = signal.direction
      BY <1>2, <1>3, <1>6, <1>7 DEF NInv, SignalSide, OpenSide
    <2> QED
      BY <1>2, <2>1, <2>2 DEF NInv, SignalSide, OpenSide, IsClosed, Filled
  <1>10. Collected'
    BY <1>2 DEF NInv, Collected
  <1> QED
    BY <1>2, <1>6, <1>8, <1>9, <1>10 DEF NInv, TodoResting, Watched

(* process(): a trade beyond one of its levels is closed.                  *)
Processed(updated, t, id) ==
  IF IsActive(trades[t]) /\ Triggered(updated.trades[t])
  THEN Close(updated, listed, t, id) ELSE updated

LEMMA ProcessMoves ==
  ASSUME NoDistantStop, NInv, NEW t \in listed,
         NEW updated \in IF IsActive(trades[t]) THEN Updates(World, t) ELSE {World},
         NEW id \in NewIds(updated)
  PROVE  /\ Moves(World, Processed(updated, t, id), listed, t)
         /\ LET r == Processed(updated, t, id).trades[t]
            IN  /\ IsActive(r) => ~Triggered(r)
                /\ CanDelete(r) <=> IsClosed(r)
         /\ CancelOpen(Processed(updated, t, id), t) = Processed(updated, t, id)
  <1> DEFINE w == Processed(updated, t, id)
  <1>1. /\ World \in Worlds /\ listed \in SUBSET TradeIds /\ World.trades = trades
        /\ bid \in 1..MaxPrice /\ Owns(World, listed) /\ Nets(World, listed)
    BY NInvTypes
  <1>2. /\ Moves(World, updated, listed, t)
        /\ IsActive(updated.trades[t]) <=> IsActive(trades[t])
    <2>1. CASE IsActive(trades[t])
      <3>1. /\ Moves(World, updated, listed, t)
            /\ updated.trades[t].entry = trades[t].entry
            /\ IsClosed(updated.trades[t]) <=> IsClosed(trades[t])
        BY <1>1, <2>1, UpdatesKeep
      <3> QED
        BY <3>1 DEF IsActive
    <2>2. CASE ~IsActive(trades[t])
      BY <1>1, <2>2, MovesNothing
    <2> QED
      BY <2>1, <2>2
  <1>3. /\ Moves(World, w, listed, t)
        /\ IsActive(w.trades[t]) => ~Triggered(w.trades[t])
    <2>1. CASE IsActive(trades[t]) /\ Triggered(updated.trades[t])
      <3>1. w = Close(updated, listed, t, id)
        BY <2>1 DEF Processed
      <3> HIDE DEF w
      <3>2. Leaves(updated, w, listed, t)
        BY <1>1, <1>2, <2>1, <3>1, NewIdsFresh, CloseLeaves DEF Moves
      <3>3. Moves(updated, w, listed, t) /\ IsClosed(w.trades[t])
        BY <1>1, <1>2, <3>2, LeavesMoves DEF Moves
      <3> QED
        BY <1>2, <3>3, MovesTransitive DEF IsActive
    <2>2. CASE ~(IsActive(trades[t]) /\ Triggered(updated.trades[t]))
      <3>1. w = updated
        BY <2>2 DEF Processed
      <3> HIDE DEF w
      <3> QED
        BY <1>2, <2>2, <3>1
    <2> QED
      BY <2>1, <2>2
  <1> HIDE DEF w
  <1>4. /\ ~IsCanceled(w.trades[t]) /\ w.trades[t].entry.state # "OPENED"
    BY <1>1, <1>3, WorldUpdates, StageFacts DEF Moves, Owns, Staged
  <1>5. CancelOpen(w, t) = w
    BY <1>1, <1>3, <1>4, CancelNothing DEF Moves
  <1> QED
    BY <1>3, <1>4, <1>5 DEF CanDelete, w

LEMMA NInvProcess ==
  ASSUME NoDistantStop, NInv, TInv', NEW t \in TradeIds, ProcessTrade(t) PROVE NInv'
  <1> DEFINE Expired(updated, id, late) ==
               IF late THEN CancelOpen(Processed(updated, t, id), t)
               ELSE Processed(updated, t, id)
             Stepped(v) ==
               /\ Become(v)
               /\ removed' = IF CanDelete(v.trades[t]) THEN removed \cup {t} ELSE removed
  <1>1. PICK updated \in IF IsActive(trades[t]) THEN Updates(World, t) ELSE {World} :
          \E id \in NewIds(updated), late \in BOOLEAN : Stepped(Expired(updated, id, late))
    BY DEF ProcessTrade, Processed
  <1>2. PICK id \in NewIds(updated), late \in BOOLEAN : Stepped(Expired(updated, id, late))
    BY <1>1
  <1> DEFINE w == Processed(updated, t, id)
  <1>3. /\ phase = "process" /\ phase' = "process" /\ t \in todo /\ todo' = todo \ {t}
        /\ UNCHANGED <<listed, bid, signal, numClosed>>
    BY DEF ProcessTrade
  <1>4. /\ World.trades = trades /\ todo \subseteq listed /\ t \in listed
        /\ numClosed \in Nat /\ listed \in SUBSET TradeIds
    BY <1>3, NInvTypes
  <1>5. /\ Moves(World, w, listed, t)
        /\ IsActive(w.trades[t]) => ~Triggered(w.trades[t])
        /\ CanDelete(w.trades[t]) <=> IsClosed(w.trades[t])
        /\ CancelOpen(w, t) = w
    BY <1>1, <1>2, <1>4, ProcessMoves
  <1>6. /\ Become(w)
        /\ removed' = IF IsClosed(w.trades[t]) THEN removed \cup {t} ELSE removed
    BY <1>2, <1>5
  <1> HIDE DEF w
  <1>7. /\ trades' = w.trades /\ Core' /\ Follows
        /\ \A u \in listed : u # t => trades'[u] = trades[u]
    BY <1>3, <1>4, <1>5, <1>6, MovesFollow
  <1>8. Sided' /\ NoneWaits'
    BY <1>7, FollowsSides DEF NInv
  <1>9. SignalSide'
    <2>1. signal # NoSignal
            => \A u \in listed : ~IsClosed(trades'[u]) => trades'[u].direction = signal.direction
      BY <1>3, <1>7, FollowsSides DEF NInv, SignalSide
    <2> QED
      BY <1>3, <2>1 DEF SignalSide, OpenSide, IsClosed, Filled
  <1>10. Closed' = {u \in listed : IsClosed(trades'[u])}
    BY <1>3 DEF Closed, IsClosed, Filled
  <1>11. Closed \subseteq Closed'
    BY <1>7, <1>10 DEF Closed, Follows
  <1>12. removed' \subseteq Closed' /\ Closed' \subseteq todo' \cup removed'
    <2>1. removed \subseteq Closed /\ Closed \subseteq todo \cup removed
      BY <1>3 DEF NInv, Collected
    <2>2. \A u \in Closed' : u # t => u \in Closed
      BY <1>7, <1>10 DEF Closed
    <2>3. t \in Closed' <=> IsClosed(w.trades[t])
      BY <1>4, <1>7, <1>10
    <2> HIDE DEF Closed
    <2> QED
      BY <1>3, <1>6, <1>11, <2>1, <2>2, <2>3
  <1>13. Collected'
    BY <1>3, <1>12 DEF Collected
  <1>14. Watched'
    <2>1. \A r : Triggered(r)' <=> Triggered(r)
      BY <1>3 DEF Triggered, CloseExecPrice, ask, StopLossHit, TakeProfitHit
    <2>2. \A u \in listed \ todo' : IsActive(trades'[u]) => ~Triggered(trades'[u])
      BY <1>3, <1>5, <1>7 DEF NInv, Watched, Unhit
    <2> QED
      BY <1>3, <2>1, <2>2 DEF Watched, Unhit, IsActive, IsClosed, Filled
  <1> QED
    BY <1>3, <1>7, <1>8, <1>9, <1>13, <1>14 DEF NInv, TodoResting

(* The trades to delete have exited all they had entered.                  *)
LEMMA ClosedAreFlat ==
  ASSUME NInv, NEW t \in Closed
  PROVE  OrderOf(trades[t]) = NoId /\ RemainingQty(trades[t]) = 0
  <1>1. t \in listed /\ IsClosed(trades[t])
    BY DEF Closed
  <1>2. /\ World \in Worlds /\ trades[t] \in TradeRecords /\ Stage(World, trades[t])
    BY <1>1, NInvTypes
  <1>3. Exited(trades[t]) /\ RemainingQty(trades[t]) = 0
    BY <1>1, <1>2, StageFacts
  <1> QED
    BY <1>3 DEF Exited, EntryDone, Idle, OrderOf

LEMMA PurgedAreClosed ==
  ASSUME NInv, PurgeTrades PROVE removed = Closed /\ listed' = listed \ Closed
  BY DEF NInv, Collected, PurgeTrades

LEMMA NInvPurge == ASSUME NInv, TInv', PurgeTrades PROVE NInv'
  <1>1. /\ World \in Worlds /\ World.trades = trades /\ World.book = book
        /\ World.position = position
        /\ listed \in SUBSET TradeIds /\ IsFiniteSet(listed) /\ numClosed \in Nat
        /\ Owns(World, listed) /\ Nets(World, listed) /\ Closed \subseteq listed
    BY NInvTypes DEF Closed
  <1>2. /\ phase = "process" /\ phase' = "entry" /\ todo = {} /\ removed' = {}
        /\ listed' = listed \ Closed /\ UNCHANGED <<book, position, bid, signal, numClosed>>
        /\ \A u \in listed' : u \in listed /\ trades'[u] = trades[u]
        /\ World' \in Worlds /\ World'.trades = trades' /\ World'.book = book
        /\ World'.position = position
    <2>1. World' \in Worlds
      BY WorldType DEF TInv, TypeOK, World, Worlds, Books
    <2> QED
      BY <1>1, <2>1, PurgedAreClosed DEF PurgeTrades, World
  <1> DEFINE list == listed \ Closed
  <1>3. Owns(World', list)
    <2>1. \A x \in OrderIds : Resting(World', x) <=> Resting(World, x)
      BY <1>1, <1>2 DEF Resting
    <2>2. \A u \in list : Stage(World', World'.trades[u])
      BY <1>1, <1>2, StageByBook, WorldUpdates DEF Owns, Staged
    <2>3. ASSUME NEW x \in OrderIds, Resting(World, x)
          PROVE  \E u \in list : OrderOf(trades[u]) = x
      <3>1. PICK u \in listed : OrderOf(trades[u]) = x
        BY <1>1, <2>3 DEF Owns, OneEach
      <3>2. u \notin Closed
        BY <3>1, ClosedAreFlat, NoIdAssumption
      <3> QED
        BY <3>1, <3>2
    <2>4. \A u, x \in list : OrderOf(trades[u]) = OrderOf(trades[x])
            => u = x \/ OrderOf(trades[u]) = NoId
      BY <1>1 DEF Owns, OneEach
    <2> QED
      BY <1>2, <2>1, <2>2, <2>3, <2>4 DEF Owns, Staged, OneEach
  <1>4. Nets(World', list)
    <2> DEFINE f == Left(World)
               g == Left(World')
    <2>1. IsFiniteSet(list) /\ list \subseteq listed
      BY <1>1, FS_Difference
    <2>2. /\ \A u \in listed : f[u] \in Nat
          /\ \A u \in Closed : f[u] = 0
          /\ \A u \in list : g[u] = f[u]
      <3>1. \A u \in listed : f[u] \in Nat
        BY <1>1, LeftTypes DEF Owns
      <3>2. \A u \in Closed : f[u] = 0
        BY <1>1, ClosedAreFlat DEF Left
      <3>3. \A u \in list : g[u] = f[u]
        BY <1>1, <1>2 DEF Left
      <3> QED
        BY <3>1, <3>2, <3>3
    <2> HIDE DEF f, g, list
    <2>3. SumFunctionOnSet(f, list) = SumFunctionOnSet(f, listed)
      <3>1. listed \ list \subseteq Closed
        BY DEF list
      <3> QED
        BY <1>1, <2>1, <2>2, <3>1, SumDropZeros
    <2>4. SumFunctionOnSet(g, list) = SumFunctionOnSet(f, list)
      BY <2>1, <2>2, SumSame
    <2>5. \A u \in list : RemainingQty(World'.trades[u]) > 0
            => position.direction = World'.trades[u].direction
      BY <1>1, <1>2 DEF Nets, list
    <2>6. position.quantity = SumFunctionOnSet(g, list)
      BY <1>1, <2>3, <2>4 DEF Nets, f
    <2> QED
      BY <1>1, <1>2, <2>1, <2>5, <2>6 DEF Nets, g
  <1>5. Core'
    BY <1>2, <1>3, <1>4, CorePrimed
  <1>6. Sided' /\ NoneWaits' /\ SignalSide'
    <2>1. \A u \in listed' : /\ IsClosed(trades'[u]) <=> IsClosed(trades[u])
                            /\ trades'[u].direction = trades[u].direction
                            /\ Filled(trades'[u].entry) <=> Filled(trades[u].entry)
      BY <1>2
    <2>2. Sided'
      BY <1>2, <2>1 DEF NInv, Sided, IsClosed, Filled
    <2>3. NoneWaits'
      BY <1>2, <2>1 DEF NInv, NoneWaits, Filled
    <2>4. SignalSide'
      BY <1>2, <2>1 DEF NInv, SignalSide, OpenSide, IsClosed, Filled
    <2> QED
      BY <2>2, <2>3, <2>4
  <1>7. Collected'
    BY <1>2 DEF Collected
  <1>8. Watched'
    <2>1. \A r : Triggered(r)' <=> Triggered(r)
      BY <1>2 DEF Triggered, CloseExecPrice, ask, StopLossHit, TakeProfitHit
    <2>2. \A u \in listed' : IsActive(trades'[u]) => ~Triggered(trades'[u])
      BY <1>2 DEF NInv, Watched, Unhit
    <2> QED
      BY <1>2, <2>1, <2>2 DEF Watched, Unhit, IsActive, IsClosed, Filled
  <1> QED
    BY <1>2, <1>5, <1>6, <1>7, <1>8 DEF NInv, TodoResting

LEMMA NInvEntry == ASSUME NInv, TInv', OrderEntry PROVE NInv'
  <1>1. PICK t \in TradeIds \ listed, id \in NewIds(World), qty \in Quantities :
          /\ Become(Open(World, listed \cup {t}, t, id, signal, qty))
          /\ listed' = listed \cup {t}
          /\ todo' = RestingIds(Open(World, listed \cup {t}, t, id, signal, qty))
    BY DEF OrderEntry
  <1> DEFINE w == Open(World, listed \cup {t}, t, id, signal, qty)
  <1>2. /\ phase = "entry" /\ phase' = "update" /\ removed' = removed
        /\ signal # NoSignal /\ ~(Cardinality(listed) >= MaxTrades /\ numClosed < 1)
    BY DEF OrderEntry, DoOrder
  <1>3. /\ World \in Worlds /\ World.trades = trades /\ listed \in SUBSET TradeIds
        /\ bid \in 1..MaxPrice /\ Owns(World, listed) /\ Nets(World, listed)
        /\ IsFiniteSet(listed) /\ numClosed \in Nat
        /\ signal \in EntrySignals /\ id \in FreshIds(World)
    BY <1>2, NInvTypes, NewIdsAreFresh
  <1>4. \A u \in listed : ~IsClosed(trades[u]) => trades[u].direction = signal.direction
    BY <1>2 DEF NInv, SignalSide, OpenSide
  <1>5. \A u \in listed : RemainingQty(World.trades[u]) > 0
          => World.trades[u].direction = signal.direction
    <2>1. \A u \in listed : RemainingQty(trades[u]) > 0 => IsActive(trades[u])
      BY <1>3, NInvTypes, StageFacts
    <2> QED
      BY <1>3, <1>4, <2>1 DEF IsActive
  <1>6. Opened(World, w, listed, t, signal)
    BY <1>3, <1>5, OpenMarket, OpenLimit
  <1> HIDE DEF w
  <1>7. World' = w /\ trades' = w.trades
    BY <1>1, <1>6, BecomeWorld DEF Opened, Become, w
  <1>8. Core'
    BY <1>1, <1>6, <1>7, CorePrimed DEF Opened
  <1>9. /\ \A u \in listed : trades'[u] = trades[u]
        /\ trades'[t].direction = signal.direction
        /\ signal.orderType = "MARKET" => Filled(trades'[t].entry)
    BY <1>3, <1>6, <1>7 DEF Opened
  <1>10. Sided'
    <2>1. \A u \in listed' : ~IsClosed(trades'[u]) => trades'[u].direction = signal.direction
      BY <1>1, <1>4, <1>9
    <2> QED
      BY <2>1 DEF Sided, IsClosed, Filled
  <1>11. NoneWaits'
    <2>1. EntryTypes \subseteq {"MARKET"} => signal.orderType = "MARKET"
      BY <1>3 DEF EntrySignals
    <2> QED
      BY <1>1, <1>9, <2>1 DEF NInv, NoneWaits, Filled
  <1>12. Collected'
    BY <1>2 DEF NInv, Collected
  <1>13. TodoResting'
    BY <1>1, <1>7 DEF TodoResting, RestingIds, Resting, w
  <1> QED
    BY <1>2, <1>8, <1>10, <1>11, <1>12, <1>13 DEF NInv, SignalSide, Watched

LEMMA NInvUpdate ==
  ASSUME NInv, TInv', NEW id \in OrderIds, UpdateOrder(id) PROVE NInv'
  <1>1. /\ World \in Worlds /\ World.trades = trades /\ World.book = book
        /\ listed \in SUBSET TradeIds /\ bid \in 1..MaxPrice
        /\ Owns(World, listed) /\ Nets(World, listed) /\ OneSide(World, listed)
    BY NInvTypes
  <1>2. /\ phase = "update" /\ phase' = "update" /\ id \in todo /\ todo' = todo \ {id}
        /\ UNCHANGED <<listed, bid, signal, numClosed, removed>>
    BY DEF UpdateOrder
  <1>3. Resting(World, id)
    BY <1>2 DEF NInv, TodoResting
  <1>4. Collected' /\ SignalSide' /\ Watched'
    BY <1>2 DEF NInv, Collected, SignalSide, Watched
  <1>5. CASE LimitReached(book[id])
    <2> DEFINE w == ExecIndMarginOrder(Taken(World, id), listed, id, World.book[id])
    <2>1. /\ \E t \in listed : Moves(World, w, listed, t)
          /\ \A x \in OrderIds : x # id => w.book[x] = World.book[x]
      BY <1>1, <1>3, OrderTaken
    <2>2. Become(w)
      BY <1>1, <1>5 DEF UpdateOrder, Taken
    <2> HIDE DEF w
    <2>3. PICK t \in listed : Moves(World, w, listed, t)
      BY <2>1
    <2>4. World' = w /\ Core' /\ Follows
      BY <1>2, <2>2, <2>3, MovesFollow
    <2>5. Sided' /\ NoneWaits'
      BY <2>4, FollowsSides DEF NInv
    <2>6. TodoResting'
      BY <1>1, <1>2, <2>1, <2>4 DEF NInv, TodoResting, Resting
    <2> QED
      BY <1>4, <2>4, <2>5, <2>6 DEF NInv
  <1>6. CASE ~LimitReached(book[id])
    <2>1. UNCHANGED <<trades, listed, book, position>>
      BY <1>1, <1>2, <1>6 DEF UpdateOrder, Become, World
    <2>2. Core' /\ Sided' /\ NoneWaits' /\ World' = World
      BY <2>1, QuietSides
    <2>3. TodoResting'
      BY <1>2, <2>2 DEF NInv, TodoResting, Resting
    <2> QED
      BY <1>4, <2>2, <2>3 DEF NInv
  <1> QED
    BY <1>5, <1>6

LEMMA NInvNext == ASSUME NoDistantStop, OneWay PROVE NInv /\ [Next]_vars => NInv'
  <1> SUFFICES ASSUME NInv, [Next]_vars PROVE NInv'
    OBVIOUS
  <1>0. TInv'
    BY TInvNext DEF NInv
  <1>1. CASE OnTick
    BY <1>0, <1>1, NInvTick
  <1>2. CASE ComputeSignal
    BY <1>0, <1>2, NInvSignal
  <1>3. ASSUME NEW t \in TradeIds, CloseOpposite(t) PROVE NInv'
    BY <1>0, <1>3, NInvClose
  <1>4. CASE Reversed
    BY <1>0, <1>4, NInvReversed
  <1>5. ASSUME NEW t \in TradeIds, ProcessTrade(t) PROVE NInv'
    BY <1>0, <1>5, NInvProcess
  <1>6. CASE PurgeTrades
    BY <1>0, <1>6, NInvPurge
  <1>7. CASE OrderEntry
    BY <1>0, <1>7, NInvEntry
  <1>8. CASE NoOrderEntry
    BY <1>0, <1>8, NInvNoEntry
  <1>9. ASSUME NEW id \in OrderIds, UpdateOrder(id) PROVE NInv'
    BY <1>0, <1>9, NInvUpdate
  <1>10. CASE Updated
    BY <1>0, <1>10, NInvUpdated
  <1>11. CASE UNCHANGED vars
    BY <1>0, <1>11, NInvStutter
  <1> QED
    BY <1>1, <1>2, <1>3, <1>4, <1>5, <1>6, <1>7, <1>8, <1>9, <1>10, <1>11 DEF Next

-----------------------------------------------------------------------------
(* What the invariant says of the market, its orders and its trades.       *)

LEMMA NInvNets == NInv => NetPosition
  <1> SUFFICES ASSUME NInv PROVE NetPosition
    OBVIOUS
  <1> DEFINE f == Left(World)
             g == [t \in TradeIds |-> trades[t].direction * RemainingQty(trades[t])]
             d == position.direction
  <1>1. /\ World \in Worlds /\ World.trades = trades /\ World.position = position
        /\ listed \in SUBSET TradeIds /\ IsFiniteSet(listed)
        /\ Staged(World, listed) /\ Nets(World, listed)
    BY NInvTypes DEF Owns
  <1>2. d \in {-1, 0, 1}
    BY DEF NInv, TInv, TypeOK, Positions
  <1>3. ASSUME NEW t \in listed PROVE f[t] \in Int /\ g[t] = d * f[t]
    <2>1. f[t] \in Nat /\ f[t] = RemainingQty(trades[t])
      BY <1>1, LeftTypes
    <2>2. g[t] = trades[t].direction * f[t]
      BY <1>1, <2>1
    <2>3. trades[t].direction \in {-1, 1} /\ (f[t] > 0 => d = trades[t].direction)
      BY <1>1, <2>1, PaperAssumption DEF Nets, Staged, Stage
    <2> HIDE DEF f, g, d
    <2>4. CASE f[t] > 0
      BY <2>1, <2>2, <2>3, <2>4
    <2>5. CASE f[t] = 0
      BY <1>2, <2>2, <2>3, <2>5
    <2> QED
      BY <2>1, <2>4, <2>5
  <1>4. position.quantity = SumFunctionOnSet(f, listed)
    BY <1>1 DEF Nets
  <1> HIDE DEF f, g
  <1>5. SumFunctionOnSet(g, listed) = d * SumFunctionOnSet(f, listed)
    BY <1>1, <1>2, <1>3, SumTimes
  <1> QED
    BY <1>4, <1>5 DEF NetPosition, g

LEMMA NInvOrdersRest == NInv => OrdersRest
  <1> SUFFICES ASSUME NInv, NEW t \in listed,
                      NEW slot \in {trades[t].entry, trades[t].limit}, slot.orderId # NoId
               PROVE  Resting(World, slot.orderId)
    BY DEF OrdersRest
  <1>1. World \in Worlds /\ trades[t] \in TradeRecords /\ Stage(World, trades[t])
    BY NInvTypes
  <1>2. slot.orderId = OrderOf(trades[t])
    BY <1>1 DEF Stage, Waiting, Held, Exited, EntryDone, Idle, OrderOf
  <1> QED
    BY <1>1, <1>2, StageFacts

LEMMA NInvOrdersOwned == NInv => OrdersOwned
  <1> SUFFICES ASSUME NInv, NEW id \in OrderIds, Resting(World, id)
               PROVE  \E t \in listed : \A u \in listed : Refers(trades[u], id) <=> u = t
    BY DEF OrdersOwned
  <1>1. World \in Worlds /\ World.trades = trades /\ OneEach(World, listed) /\ id # NoId
    BY NInvTypes, NoIdAssumption DEF Owns
  <1>2. PICK t \in listed : OrderOf(trades[t]) = id
    BY <1>1 DEF OneEach
  <1>3. \A u \in listed : Refers(trades[u], id) <=> OrderOf(trades[u]) = id
    BY <1>1, NInvTypes, StageFacts
  <1> QED
    BY <1>1, <1>2, <1>3 DEF OneEach

LEMMA NInvSides == NInv => ExitHonoured /\ OneSided
  BY DEF NInv, Watched, Unhit, ExitHonoured, Sided, OneSided, IsActive

LEMMA LeaveFlat ==
  NInv /\ [Next]_vars => [\A t \in listed \ listed' : RemainingQty(trades[t]) = 0]_vars
  <1> SUFFICES ASSUME NInv, Next PROVE \A t \in listed \ listed' : RemainingQty(trades[t]) = 0
    OBVIOUS
  <1>1. CASE PurgeTrades
    BY <1>1, PurgedAreClosed, ClosedAreFlat
  <1>2. CASE ~PurgeTrades
    <2>1. listed \subseteq listed'
      BY <1>2 DEF Next, OnTick, ComputeSignal, CloseOpposite, Reversed, ProcessTrade,
                  OrderEntry, NoOrderEntry, UpdateOrder, Updated
    <2> QED
      BY <2>1
  <1> QED
    BY <1>1, <1>2

-----------------------------------------------------------------------------
(* The theorems: no stop-loss in the connector, and a market on one side.  *)

\* The single virtual position the connector keeps for the market is the sum of
\* what the listed trades entered and have not yet exited, in the direction of
\* those trades (_indMarginOpenPosition, Increase and Close).
THEOREM NetPositionAlways == ASSUME NoDistantStop, OneWay PROVE Spec => []NetPosition
  <1>1. NInv /\ [Next]_vars => NInv'
    BY NInvNext
  <1> QED
    BY <1>1, NInvInit, NInvNets, PTL DEF Spec

\* An orderId kept in the entry or take-profit slot of a listed trade names an
\* order that still rests in the connector: process() relies on it when it
\* leaves the take-profit to the connector.
THEOREM OrdersRestAlways == ASSUME NoDistantStop, OneWay PROVE Spec => []OrdersRest
  <1>1. NInv /\ [Next]_vars => NInv'
    BY NInvNext
  <1> QED
    BY <1>1, NInvInit, NInvOrdersRest, PTL DEF Spec

\* Every order of the connector, entry or take-profit, belongs to exactly one
\* listed trade, also when modifyTakeProfit() sends its order to the connector.
THEOREM ProfitsOwnedAlways == ASSUME NoDistantStop, OneWay PROVE Spec => []OrdersOwned
  <1>1. NInv /\ [Next]_vars => NInv'
    BY NInvNext
  <1> QED
    BY <1>1, NInvInit, NInvOrdersOwned, PTL DEF Spec

\* After StdTradeManager::process() no active trade is beyond its stop-loss or
\* take-profit level: close() took effect before process() returned.
THEOREM ExitHonouredAlways == ASSUME NoDistantStop, OneWay PROVE Spec => []ExitHonoured
  <1>1. NInv /\ [Next]_vars => NInv'
    BY NInvNext
  <1> QED
    BY <1>1, NInvInit, NInvSides, PTL DEF Spec

\* compute() never holds active trades of both directions between two
\* iterations: it closed the opposite side before the entry.
THEOREM OneSidedAlways == ASSUME NoDistantStop, OneWay PROVE Spec => []OneSided
  <1>1. NInv /\ [Next]_vars => NInv'
    BY NInvNext
  <1> QED
    BY <1>1, NInvInit, NInvSides, PTL DEF Spec

\* A trade returns to the pool only when it has exited all it had entered.
THEOREM DeletedFlatAlways == ASSUME NoDistantStop, OneWay PROVE Spec => DeletedFlat
  <1>1. NInv /\ [Next]_vars => NInv'
    BY NInvNext
  <1> QED
    BY <1>1, NInvInit, LeaveFlat, PTL DEF Spec, DeletedFlat
=============================================================================
