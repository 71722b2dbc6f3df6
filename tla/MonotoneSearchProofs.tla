-------------------------- MODULE MonotoneSearchProofs --------------------------
(****************************************************************************)
(* The search returns what it claims and forgets no selection on the way,   *)
(* for every set of candidates, costs, limits and antitone predicate.       *)
(*                                                                          *)
(* The facts about selections, packings and nodes come first.  They are     *)
(* stated of a problem p, which no step of a search changes.                *)
(****************************************************************************)
EXTENDS MonotoneSearch, SetFacts

-----------------------------------------------------------------------------
(* Costs *)

CostOf(p, S)     == MapThenSumSet(LAMBDA c : p.cost[c], S)
CheapestOf(p, B) == Min({p.cost[c] : c \in B})
BoundOf(p, B)    == MapThenSumSet(LAMBDA i : CheapestOf(p, B[i]), DOMAIN B)
SolutionsOf(p)   ==
  {S \in SUBSET p.candidates : S \notin p.surviving /\ Cardinality(S) <= p.max}

\* The same facts, of the problem of the call.
LEMMA OfTheProblem ==
  /\ \A S : Cost(S) = CostOf(problem, S)
  /\ \A B : Cheapest(B) = CheapestOf(problem, B)
  /\ \A B : BlockerBound(B) = BoundOf(problem, B)
  /\ Solutions = SolutionsOf(problem)
BY DEF Cost, CostOf, Cheapest, CheapestOf, BlockerBound, BoundOf, Solutions, SolutionsOf, Survives

\* A selection is finite, and its cost is the number of its units.
LEMMA CostIsUnits ==
  ASSUME NEW p \in Problem, NEW S \in SUBSET Candidates
  PROVE  /\ IsFiniteSet(S)
         /\ IsFiniteSet(Units(p.cost, S))
         /\ CostOf(p, S) = Cardinality(Units(p.cost, S))
         /\ CostOf(p, S) \in Nat
<1>. DEFINE f == [c \in S |-> p.cost[c]]
<1>1. IsFiniteSet(S)
  BY SearchAssumption, FS_Subset
<1>2. f \in [S -> Nat]
  BY DEF Problem
<1>3. Units(f, S) = Units(p.cost, S)
  BY DEF Units
<1>. DEFINE Folds(g) ==
              g = [s \in SUBSET S |-> IF s = {} THEN 0
                                      ELSE p.cost[CHOOSE x \in s : TRUE]
                                             + g[s \ {CHOOSE x \in s : TRUE}]]
<1>4. \A g : Sums(f, S, g) <=> Folds(g)
  <2>1. \A s \in SUBSET S : s # {} => Picked(s) \in S
    BY DEF Picked
  <2>2. \A s \in SUBSET S : s # {} => f[Picked(s)] = p.cost[Picked(s)]
    BY <2>1
  <2>. HIDE DEF f
  <2>3. QED
    BY <2>2, SMTT(60) DEF Sums, Picked
<1>5. PICK g : Sums(f, S, g)
  BY <1>1, <1>2, SumsCountUnits
<1>6. \A h : Sums(f, S, h) => h[S] = Cardinality(Units(f, S))
  BY <1>1, <1>2, SumsCountUnits
<1>7. CostOf(p, S) = (CHOOSE h : Folds(h))[S]
  BY DEF CostOf, MapThenSumSet, MapThenFoldSet
<1>. HIDE DEF f, Folds
<1>8. CostOf(p, S) = Cardinality(Units(f, S))
  <2>1. Folds(CHOOSE h : Folds(h))
    BY <1>4, <1>5
  <2>2. QED
    BY <1>4, <1>6, <1>7, <2>1
<1>9. IsFiniteSet(Units(f, S))
  BY <1>1, <1>2, UnitsFinite
<1>10. QED
  BY <1>1, <1>3, <1>8, <1>9, FS_CardinalityType

\* More candidates cost more.
LEMMA CostGrows ==
  ASSUME NEW p \in Problem, NEW T \in SUBSET Candidates, NEW S \in SUBSET T
  PROVE  CostOf(p, S) <= CostOf(p, T)
<1>1. Units(p.cost, S) \subseteq Units(p.cost, T)
  BY DEF Units
<1>2. Cardinality(Units(p.cost, S)) <= Cardinality(Units(p.cost, T))
  BY <1>1, CostIsUnits, FS_Subset
<1>3. QED
  BY <1>2, CostIsUnits

\* Selecting nothing costs nothing.
LEMMA NothingIsFree ==
  ASSUME NEW p \in Problem
  PROVE  CostOf(p, {}) = 0
<1>1. Units(p.cost, {}) = {}
  BY DEF Units
<1>2. QED
  BY <1>1, CostIsUnits, FS_EmptySet

\* The cheapest candidate of a blocker costs at most what any of it costs.
LEMMA CheapestFacts ==
  ASSUME NEW p \in Problem, NEW B \in SUBSET Candidates, B # {}
  PROVE  /\ CheapestOf(p, B) \in Nat
         /\ \E c \in B : CheapestOf(p, B) = p.cost[c]
         /\ \A c \in B : CheapestOf(p, B) <= p.cost[c]
<1>. DEFINE prices == {p.cost[c] : c \in B}
<1>1. \A c \in B : p.cost[c] \in Nat
  BY DEF Problem
<1>2. prices \in SUBSET Nat /\ prices # {}
  BY <1>1
<1>3. Min(prices) \in prices /\ \A n \in prices : Min(prices) <= n
  BY <1>2, MinOfNaturals
<1>4. QED
  BY <1>2, <1>3 DEF CheapestOf

\* The bound of a packing is the number of its units.
LEMMA BoundIsUnits ==
  ASSUME NEW p \in Problem, NEW B \in Seq(SUBSET Candidates),
         \A i \in 1 .. Len(B) : B[i] # {}
  PROVE  LET least == [i \in 1 .. Len(B) |-> CheapestOf(p, B[i])]
         IN  /\ least \in [1 .. Len(B) -> Nat]
             /\ IsFiniteSet(Units(least, 1 .. Len(B)))
             /\ BoundOf(p, B) = Cardinality(Units(least, 1 .. Len(B)))
             /\ BoundOf(p, B) \in Nat
<1>. DEFINE D == 1 .. Len(B)
            f == [i \in D |-> CheapestOf(p, B[i])]
<1>1. IsFiniteSet(D) /\ DOMAIN B = D
  <2>1. Len(B) \in Int /\ DOMAIN B = D
    OBVIOUS
  <2>2. IsFiniteSet(D)
    BY <2>1, FS_Interval
  <2>3. QED
    BY <2>1, <2>2
<1>2. f \in [D -> Nat]
  BY CheapestFacts
<1>. DEFINE Folds(g) ==
              g = [s \in SUBSET D |-> IF s = {} THEN 0
                                      ELSE CheapestOf(p, B[CHOOSE x \in s : TRUE])
                                             + g[s \ {CHOOSE x \in s : TRUE}]]
<1>3. \A g : Sums(f, D, g) <=> Folds(g)
  <2>1. \A s \in SUBSET D : s # {} => Picked(s) \in D
    BY DEF Picked
  <2>2. \A s \in SUBSET D : s # {} => f[Picked(s)] = CheapestOf(p, B[Picked(s)])
    BY <2>1
  <2>. HIDE DEF f, D
  <2>3. QED
    BY <2>2, SMTT(60) DEF Sums, Picked
<1>4. PICK g : Sums(f, D, g)
  BY <1>1, <1>2, SumsCountUnits
<1>5. \A h : Sums(f, D, h) => h[D] = Cardinality(Units(f, D))
  BY <1>1, <1>2, SumsCountUnits
<1>6. BoundOf(p, B) = (CHOOSE h : Folds(h))[D]
  BY <1>1 DEF BoundOf, MapThenSumSet, MapThenFoldSet
<1>7. IsFiniteSet(Units(f, D))
  BY <1>1, <1>2, UnitsFinite
<1>8. BoundOf(p, B) = Cardinality(Units(f, D))
  <2>. HIDE DEF f, Folds, D
  <2>1. Folds(CHOOSE h : Folds(h))
    BY <1>3, <1>4
  <2>2. QED
    BY <1>3, <1>5, <1>6, <2>1
<1>9. QED
  BY <1>2, <1>7, <1>8, FS_CardinalityType

-----------------------------------------------------------------------------
(* Packings *)

\* Disjoint blockers among the available candidates: without one of them
\* nothing suffices.
IsPacking(p, I, V, B) ==
  /\ B \in Seq(SUBSET Candidates)
  /\ \A i \in 1 .. Len(B) :
       B[i] # {} /\ B[i] \subseteq V /\ I \cup (V \ B[i]) \in p.surviving
  /\ \A i, j \in 1 .. Len(B) : i # j => B[i] \cap B[j] = {}

\* A selection of a part survives where the whole does.
LEMMA Antitone ==
  ASSUME NEW p \in Problem, NEW T \in p.surviving, NEW S \in SUBSET T
  PROVE  S \in p.surviving
BY DEF Problem

\* A rejected selection takes from every blocker, so that it costs at least
\* the bound more than what is included, and has at least so many candidates
\* more as there are blockers.
LEMMA PackingBounds ==
  ASSUME NEW p \in Problem, NEW V \in SUBSET Candidates, NEW I \in SUBSET Candidates,
         I \cap V = {}, NEW B, IsPacking(p, I, V, B),
         NEW S, I \subseteq S, S \subseteq I \cup V, S \notin p.surviving
  PROVE  /\ \A i \in 1 .. Len(B) : S \cap B[i] # {}
         /\ Cardinality(I) + Len(B) <= Cardinality(S)
         /\ CostOf(p, I) + BoundOf(p, B) <= CostOf(p, S)
<1>. DEFINE D     == 1 .. Len(B)
            taken == [i \in D |-> CHOOSE c \in S : c \in B[i]]
            rest  == S \ I
<1>1. ASSUME NEW i \in D
      PROVE  S \cap B[i] # {}
  <2>. SUFFICES ASSUME S \cap B[i] = {} PROVE FALSE
    OBVIOUS
  <2>1. S \in SUBSET (I \cup (V \ B[i]))
    OBVIOUS
  <2>2. I \cup (V \ B[i]) \in p.surviving
    BY DEF IsPacking
  <2>3. QED
    BY <2>1, <2>2, Antitone
<1>2. ASSUME NEW i \in D
      PROVE  taken[i] \in rest /\ taken[i] \in B[i]
  <2>1. taken[i] \in S /\ taken[i] \in B[i]
    BY <1>1
  <2>2. B[i] \subseteq V
    BY DEF IsPacking
  <2>3. QED
    BY <2>1, <2>2
<1>3. \A i, j \in D : taken[i] = taken[j] => i = j
  BY <1>2 DEF IsPacking
<1>4. S \in SUBSET Candidates /\ rest \in SUBSET Candidates
  OBVIOUS
<1>5. B \in Seq(SUBSET Candidates) /\ \A i \in D : B[i] # {}
  BY DEF IsPacking
<1>6. Len(B) \in Nat
  BY <1>5
<1>7. Cardinality(I) + Len(B) <= Cardinality(S)
  <2>1. taken \in Injection(D, rest)
    BY <1>2, <1>3 DEF Injection, IsInjective
  <2>2. IsFiniteSet(rest) /\ IsFiniteSet(I) /\ IsFiniteSet(S)
    BY <1>4, CostIsUnits
  <2>3. Cardinality(D) <= Cardinality(rest)
    BY <2>1, <2>2, FS_Injection
  <2>4. Cardinality(D) = Len(B)
    <3>1. \A n \in Nat : Cardinality(1 .. n) = n
      BY FS_Interval
    <3>2. QED
      BY <1>6, <3>1
  <2>5. Cardinality(rest) = Cardinality(S) - Cardinality(S \cap I)
    BY <2>2, FS_Difference
  <2>6. Cardinality(S \cap I) = Cardinality(I)
    <3>1. S \cap I = I
      OBVIOUS
    <3>2. QED
      BY <3>1
  <2>7. Cardinality(S) \in Nat /\ Cardinality(I) \in Nat /\ Cardinality(rest) \in Nat
    BY <2>2, FS_CardinalityType
  <2>. HIDE DEF D, rest
  <2>8. QED
    BY <1>6, <2>3, <2>4, <2>5, <2>6, <2>7
<1>8. CostOf(p, I) + BoundOf(p, B) <= CostOf(p, S)
  <2>. DEFINE least == [i \in D |-> CheapestOf(p, B[i])]
              units == Units(least, D)
              pays  == [u \in units |-> <<taken[u[1]], u[2]>>]
              all   == Units(p.cost, S)
              old   == Units(p.cost, I)
              new   == Units(p.cost, rest)
  <2>1. IsFiniteSet(units) /\ BoundOf(p, B) = Cardinality(units) /\ least \in [D -> Nat]
    BY <1>5, BoundIsUnits
  <2>2. ASSUME NEW u \in units
        PROVE  u[1] \in D /\ u[2] \in 1 .. least[u[1]] /\ u = <<u[1], u[2]>>
    BY DEF Units
  <2>3. ASSUME NEW u \in units
        PROVE  pays[u] \in new
    <3>1. CheapestOf(p, B[u[1]]) <= p.cost[taken[u[1]]] /\ CheapestOf(p, B[u[1]]) \in Nat
      <4>1. B[u[1]] \in SUBSET Candidates /\ B[u[1]] # {}
        BY <1>5, <2>2
      <4>2. QED
        BY <1>2, <2>2, <4>1, CheapestFacts
    <3>2. p.cost[taken[u[1]]] \in Nat
      BY <1>2, <1>4, <2>2 DEF Problem
    <3>3. u[2] \in 1 .. p.cost[taken[u[1]]]
      BY <2>2, <3>1, <3>2
    <3>4. taken[u[1]] \in rest
      BY <1>2, <2>2
    <3>. HIDE DEF taken, rest, D, least
    <3>5. QED
      BY <3>3, <3>4 DEF Units
  <2>4. ASSUME NEW u \in units, NEW w \in units, pays[u] = pays[w]
        PROVE  u = w
    <3>. HIDE DEF taken, D, least
    <3>1. taken[u[1]] = taken[w[1]] /\ u[2] = w[2]
      BY <2>4
    <3>2. QED
      BY <1>3, <2>2, <3>1
  <2>5. pays \in Injection(units, new)
    BY <2>3, <2>4 DEF Injection, IsInjective
  <2>6. IsFiniteSet(old) /\ IsFiniteSet(new) /\ IsFiniteSet(all)
    BY <1>4, CostIsUnits
  <2>7. Cardinality(units) <= Cardinality(new)
    BY <2>5, <2>6, FS_Injection
  <2>8. all = old \cup new /\ old \cap new = {}
    BY DEF Units
  <2>9. Cardinality(old \cup new) = Cardinality(old) + Cardinality(new) - Cardinality(old \cap new)
    BY <2>6, FS_Union
  <2>10. Cardinality(old \cap new) = 0
    BY <2>8, FS_EmptySet
  <2>11. Cardinality(all) = Cardinality(old \cup new)
    BY <2>8
  <2>12. CostOf(p, I) = Cardinality(old) /\ CostOf(p, S) = Cardinality(all)
    BY <1>4, CostIsUnits
  <2>13. /\ Cardinality(old) \in Nat /\ Cardinality(new) \in Nat /\ Cardinality(all) \in Nat
         /\ Cardinality(units) \in Nat
    BY <2>1, <2>6, FS_CardinalityType
  <2>. HIDE DEF all, old, new, units
  <2>14. QED
    BY <2>1, <2>7, <2>9, <2>10, <2>11, <2>12, <2>13
<1>9. QED
  BY <1>1, <1>7, <1>8

-----------------------------------------------------------------------------
(* The branch of a node *)

\* The order of the costs is strict and total.
LEMMA CheaperOrders ==
  ASSUME problem \in Problem, NEW B \in SUBSET Candidates
  PROVE  /\ \A c, d, e \in B :
              /\ ~Cheaper(c, c)
              /\ Cheaper(c, d) /\ Cheaper(d, e) => Cheaper(c, e)
              /\ c # d => Cheaper(c, d) \/ Cheaper(d, c)
<1>1. \A c \in B : c \in Nat /\ problem.cost[c] \in Nat
  BY SearchAssumption DEF Problem
<1>2. QED
  BY <1>1 DEF Cheaper

\* Counting the cheaper ones numbers the candidates of a blocker, the cheapest
\* first.
LEMMA BlockerOrder ==
  ASSUME problem \in Problem, NEW B \in SUBSET Candidates
  PROVE  /\ Cardinality(B) \in Nat
         /\ \A c \in B : Cheapers(B, c) \in 0 .. Cardinality(B) - 1
         /\ \A n \in 0 .. Cardinality(B) - 1 : \E c \in B : Cheapers(B, c) = n
         /\ \A c, d \in B : Cheapers(B, c) = Cheapers(B, d) => c = d
         /\ \A c, d \in B : Cheaper(c, d) => Cheapers(B, c) < Cheapers(B, d)
<1>. DEFINE R == {q \in B \X B : Cheaper(q[1], q[2])}
<1>1. Orders(R, B)
  BY CheaperOrders DEF Orders
<1>2. ASSUME NEW c \in B
      PROVE  Cheapers(B, c) = Rank(R, B, c)
  <2>1. {d \in B : Cheaper(d, c)} = {d \in B : <<d, c>> \in R}
    OBVIOUS
  <2>2. QED
    BY <2>1 DEF Cheapers, Rank
<1>3. \A c, d \in B : <<c, d>> \in R <=> Cheaper(c, d)
  OBVIOUS
<1>4. IsFiniteSet(B)
  BY SearchAssumption, FS_Subset
<1>. HIDE DEF R
<1>5. /\ Cardinality(B) \in Nat
      /\ \A c \in B : Rank(R, B, c) \in 0 .. Cardinality(B) - 1
      /\ \A n \in 0 .. Cardinality(B) - 1 : \E c \in B : Rank(R, B, c) = n
      /\ \A c, d \in B : Rank(R, B, c) = Rank(R, B, d) => c = d
      /\ \A c, d \in B : <<c, d>> \in R => Rank(R, B, c) < Rank(R, B, d)
  BY <1>1, <1>4, RanksNumber
<1>6. \A c \in B : Cheapers(B, c) \in 0 .. Cardinality(B) - 1
  BY <1>2, <1>5
<1>7. \A n \in 0 .. Cardinality(B) - 1 : \E c \in B : Cheapers(B, c) = n
  BY <1>2, <1>5
<1>8. \A c, d \in B : Cheapers(B, c) = Cheapers(B, d) => c = d
  BY <1>2, <1>5
<1>9. ASSUME NEW c \in B, NEW d \in B, Cheaper(c, d)
      PROVE  Cheapers(B, c) < Cheapers(B, d)
  <2>1. <<c, d>> \in R
    BY <1>3, <1>9, Zenon
  <2>2. Rank(R, B, c) < Rank(R, B, d)
    BY <1>5, <2>1, Zenon
  <2>3. QED
    BY <1>2, <2>2, Zenon
<1>10. QED
  BY <1>5, <1>6, <1>7, <1>8, <1>9

\* A blocker has a cheapest candidate, the first of its order.
LEMMA CheapestExists ==
  ASSUME problem \in Problem, NEW B \in SUBSET Candidates, B # {}
  PROVE  \E c \in B : \A d \in B : c = d \/ Cheaper(c, d)
<1>1. Cardinality(B) \in Nat /\ Cardinality(B) # 0
  <2>1. IsFiniteSet(B)
    BY SearchAssumption, FS_Subset
  <2>2. QED
    BY <2>1, FS_CardinalityType, FS_EmptySet
<1>2. 0 \in 0 .. Cardinality(B) - 1
  BY <1>1
<1>3. PICK c \in B : Cheapers(B, c) = 0
  BY <1>2, BlockerOrder
<1>4. ASSUME NEW d \in B, c # d, ~Cheaper(c, d)
      PROVE  FALSE
  <2>1. Cheaper(d, c)
    BY <1>4, CheaperOrders
  <2>2. Cheapers(B, d) < Cheapers(B, c) /\ Cheapers(B, d) \in 0 .. Cardinality(B) - 1
    BY <2>1, BlockerOrder
  <2>3. QED
    BY <1>1, <1>3, <2>2
<1>5. QED
  BY <1>4

\* select_branch takes one of the blockers.
LEMMA BranchBlockerIsOne ==
  ASSUME problem \in Problem, packing.blockers \in Seq(SUBSET Candidates),
         packing.blockers # <<>>,
         \A i \in 1 .. Len(packing.blockers) : packing.blockers[i] # {}
  PROVE  \E i \in 1 .. Len(packing.blockers) : BranchBlocker = packing.blockers[i]
<1>. DEFINE B        == packing.blockers
            D        == 1 .. Len(B)
            size(i)  == Cardinality(B[i])
            price(i) == Cheapest(B[i])
            first(i, j) ==
              \/ size(i) < size(j)
              \/ size(i) = size(j) /\ price(i) < price(j)
              \/ size(i) = size(j) /\ price(i) = price(j) /\ i <= j
<1>1. D # {} /\ D \subseteq Nat /\ DOMAIN B = D
  OBVIOUS
<1>2. ASSUME NEW i \in D
      PROVE  size(i) \in Nat /\ price(i) \in Nat
  <2>1. B[i] \in SUBSET Candidates /\ B[i] # {}
    OBVIOUS
  <2>2. IsFiniteSet(B[i])
    BY <2>1, SearchAssumption, FS_Subset
  <2>3. price(i) \in Nat
    BY <2>1, CheapestFacts, OfTheProblem
  <2>4. QED
    BY <2>2, <2>3, FS_CardinalityType
<1>3. BranchBlocker = B[CHOOSE i \in D : \A j \in D : first(i, j)]
  BY <1>1 DEF BranchBlocker
<1>. HIDE DEF B, D, size, price
<1>4. PICK i1 \in D : \A j \in D : size(i1) <= size(j)
  <2>. DEFINE sizes == {size(i) : i \in D}
  <2>1. sizes \in SUBSET Nat /\ sizes # {}
    BY <1>1, <1>2
  <2>2. Min(sizes) \in sizes /\ \A n \in sizes : Min(sizes) <= n
    BY <2>1, MinOfNaturals
  <2>3. QED
    BY <2>2
<1>5. PICK i2 \in D : /\ size(i2) = size(i1)
                      /\ \A j \in D : size(j) = size(i1) => price(i2) <= price(j)
  <2>. DEFINE prices == {price(i) : i \in {j \in D : size(j) = size(i1)}}
  <2>1. prices \in SUBSET Nat /\ prices # {}
    BY <1>2
  <2>2. Min(prices) \in prices /\ \A n \in prices : Min(prices) <= n
    BY <2>1, MinOfNaturals
  <2>3. QED
    BY <2>2
<1>6. PICK i \in D : /\ size(i) = size(i1) /\ price(i) = price(i2)
                     /\ \A j \in D : size(j) = size(i1) /\ price(j) = price(i2) => i <= j
  <2>. DEFINE last == {j \in D : size(j) = size(i1) /\ price(j) = price(i2)}
  <2>1. last \in SUBSET Nat /\ last # {}
    BY <1>1, <1>5
  <2>2. Min(last) \in last /\ \A n \in last : Min(last) <= n
    BY <2>1, MinOfNaturals
  <2>3. QED
    BY <2>2
<1>7. ASSUME NEW j \in D
      PROVE  first(i, j)
  <2>1. /\ size(i) <= size(j) /\ size(i) \in Nat /\ size(j) \in Nat
        /\ price(i) \in Nat /\ price(j) \in Nat /\ i \in Nat /\ j \in Nat
    BY <1>1, <1>2, <1>4, <1>6
  <2>2. size(i) = size(j) => price(i) <= price(j)
    BY <1>5, <1>6
  <2>3. size(i) = size(j) /\ price(i) = price(j) => i <= j
    BY <1>6
  <2>4. QED
    BY <2>1, <2>2, <2>3
<1>8. \E k \in D : \A j \in D : first(k, j)
  BY <1>7
<1>. HIDE DEF first
<1>9. (CHOOSE k \in D : \A j \in D : first(k, j)) \in D
  BY <1>8
<1>10. QED
  BY <1>3, <1>9 DEF B, D

\* The branch lists the candidates of its blocker.
LEMMA BranchLists ==
  ASSUME problem \in Problem, BranchBlocker \in SUBSET Candidates
  PROVE  /\ Branch \in Seq(BranchBlocker)
         /\ \A c \in BranchBlocker : \E n \in 1 .. Len(Branch) : Branch[n] = c
<1>. DEFINE B    == BranchBlocker
            size == Cardinality(B)
<1>1. /\ size \in Nat
      /\ \A c \in B : Cheapers(B, c) \in 0 .. size - 1
      /\ \A n \in 0 .. size - 1 : \E c \in B : Cheapers(B, c) = n
      /\ \A c, d \in B : Cheapers(B, c) = Cheapers(B, d) => c = d
  BY BlockerOrder
<1>2. Branch = [n \in 1 .. size |-> CHOOSE c \in B : Cheapers(B, c) = n - 1]
  BY DEF Branch
<1>. HIDE DEF B, size
<1>3. \A n \in 1 .. size : Branch[n] \in B /\ Cheapers(B, Branch[n]) = n - 1
  <2>. SUFFICES ASSUME NEW n \in 1 .. size
                PROVE  Branch[n] \in B /\ Cheapers(B, Branch[n]) = n - 1
    OBVIOUS
  <2>1. n - 1 \in 0 .. size - 1
    BY <1>1
  <2>2. \E c \in B : Cheapers(B, c) = n - 1
    BY <1>1, <2>1
  <2>3. QED
    BY <1>2, <2>2
<1>4. Branch \in Seq(B) /\ Len(Branch) = size
  BY <1>1, <1>2, <1>3
<1>5. ASSUME NEW c \in B
      PROVE  \E n \in 1 .. size : Branch[n] = c
  <2>1. Cheapers(B, c) \in 0 .. size - 1
    BY <1>1
  <2>2. Cheapers(B, c) + 1 \in 1 .. size /\ (Cheapers(B, c) + 1) - 1 = Cheapers(B, c)
    BY <1>1, <2>1
  <2>3. Branch[Cheapers(B, c) + 1] = c
    BY <1>1, <1>3, <2>2
  <2>4. QED
    BY <2>2, <2>3
<1>6. QED
  BY <1>4, <1>5 DEF B

-----------------------------------------------------------------------------
(* Nodes *)

\* The selections below a node.
Below(n, S) == n.included \subseteq S /\ S \subseteq n.included \cup n.available

NodeOf(p) ==
  {n \in [included : SUBSET p.candidates, available : SUBSET p.candidates] :
     n.included \cap n.available = {} /\ Cardinality(n.included) <= p.max}

\* The best selection costs no more than that.
ReachedIn(p, b, cost) == b # NoSelection /\ cost >= CostOf(p, b[1])

IsBest(p, b) == b = NoSelection \/ \E S \in SolutionsOf(p) : b = <<S>>

\* No solution is forgotten.
Covered(p, b, left) ==
  \A S \in SolutionsOf(p) :
    ReachedIn(p, b, CostOf(p, S)) \/ \E i \in 1 .. Len(left) : Below(left[i], S)

\* What a solution is, and that its cost is a number.
LEMMA SolutionFacts ==
  ASSUME NEW p \in Problem, NEW S \in SolutionsOf(p)
  PROVE  /\ S \subseteq p.candidates /\ S \in SUBSET Candidates
         /\ S \notin p.surviving /\ Cardinality(S) <= p.max
         /\ CostOf(p, S) \in Nat /\ Cardinality(S) \in Nat /\ IsFiniteSet(S)
         /\ p.max \in Nat
<1>1. /\ S \in SUBSET p.candidates /\ p.candidates \in SUBSET Candidates
      /\ S \notin p.surviving /\ Cardinality(S) <= p.max
  BY DEF SolutionsOf, Problem
<1>2. Cardinality(Candidates) \in Nat
  BY SearchAssumption, FS_CardinalityType
<1>3. p.max \in Nat
  BY <1>2 DEF Problem
<1>4. S \in SUBSET Candidates
  BY <1>1
<1>5. QED
  BY <1>1, <1>3, <1>4, CostIsUnits, FS_CardinalityType

\* A node is done once none of the selections below it is cheaper than the
\* best.
LEMMA NodeDone ==
  ASSUME NEW p \in Problem, NEW b, NEW b2, NEW left \in Seq(NodeOf(p)), left # <<>>,
         Covered(p, b, left),
         \A S \in SolutionsOf(p) : ReachedIn(p, b, CostOf(p, S)) => ReachedIn(p, b2, CostOf(p, S)),
         \A S \in SolutionsOf(p) : Below(Head(left), S) => ReachedIn(p, b2, CostOf(p, S))
  PROVE  Tail(left) \in Seq(NodeOf(p)) /\ Covered(p, b2, Tail(left))
<1>1. Tail(left) \in Seq(NodeOf(p)) /\ Len(Tail(left)) = Len(left) - 1
  OBVIOUS
<1>2. ASSUME NEW S \in SolutionsOf(p), ~ReachedIn(p, b2, CostOf(p, S))
      PROVE  \E i \in 1 .. Len(Tail(left)) : Below(Tail(left)[i], S)
  <2>1. PICK i \in 1 .. Len(left) : Below(left[i], S)
    BY <1>2 DEF Covered
  <2>2. i # 1
    <3>1. Head(left) = left[1]
      OBVIOUS
    <3>2. QED
      BY <1>2, <2>1, <3>1
  <2>3. i - 1 \in 1 .. Len(Tail(left)) /\ Tail(left)[i - 1] = left[i]
    BY <1>1, <2>2
  <2>4. QED
    BY <2>1, <2>3
<1>3. QED
  BY <1>1, <1>2 DEF Covered

\* A node may give way to children that have its solutions below them.
LEMMA NodeBranches ==
  ASSUME NEW p \in Problem, NEW b, NEW left \in Seq(NodeOf(p)), left # <<>>,
         Covered(p, b, left), NEW kids \in Seq(NodeOf(p)),
         \A S \in SolutionsOf(p) :
           Below(Head(left), S) => \E i \in 1 .. Len(kids) : Below(kids[i], S)
  PROVE  kids \o Tail(left) \in Seq(NodeOf(p)) /\ Covered(p, b, kids \o Tail(left))
<1>. DEFINE rest == Tail(left)
            all  == kids \o rest
<1>1. rest \in Seq(NodeOf(p)) /\ Len(rest) = Len(left) - 1
  OBVIOUS
<1>2. /\ all \in Seq(NodeOf(p)) /\ Len(all) = Len(kids) + Len(rest)
      /\ \A i \in 1 .. Len(kids) : all[i] = kids[i]
      /\ \A i \in 1 .. Len(rest) : all[Len(kids) + i] = rest[i]
  BY <1>1
<1>3. ASSUME NEW S \in SolutionsOf(p), ~ReachedIn(p, b, CostOf(p, S))
      PROVE  \E i \in 1 .. Len(all) : Below(all[i], S)
  <2>1. PICK i \in 1 .. Len(left) : Below(left[i], S)
    BY <1>3 DEF Covered
  <2>2. CASE i = 1
    <3>1. Below(Head(left), S)
      BY <2>1, <2>2
    <3>2. PICK k \in 1 .. Len(kids) : Below(kids[k], S)
      BY <3>1
    <3>3. k \in 1 .. Len(all) /\ all[k] = kids[k]
      BY <1>1, <1>2
    <3>4. QED
      BY <3>2, <3>3
  <2>3. CASE i # 1
    <3>1. i - 1 \in 1 .. Len(rest) /\ rest[i - 1] = left[i]
      BY <1>1, <2>3
    <3>2. Len(kids) + (i - 1) \in 1 .. Len(all) /\ all[Len(kids) + (i - 1)] = rest[i - 1]
      BY <1>1, <1>2, <3>1
    <3>3. QED
      BY <2>1, <3>1, <3>2
  <2>4. QED
    BY <2>2, <2>3
<1>4. QED
  BY <1>2, <1>3 DEF Covered

\* The best of the solutions costs the optimum.
OptimumOf(p) == Min({CostOf(p, S) : S \in SolutionsOf(p)})

\* The optimum is the cost of a solution that none undercuts.
LEMMA OptimumIs ==
  ASSUME NEW p \in Problem, NEW T \in SolutionsOf(p),
         \A S \in SolutionsOf(p) : CostOf(p, T) <= CostOf(p, S)
  PROVE  OptimumOf(p) = CostOf(p, T)
<1>. DEFINE costs == {CostOf(p, S) : S \in SolutionsOf(p)}
<1>1. costs \in SUBSET Nat /\ costs # {} /\ CostOf(p, T) \in costs
  BY SolutionFacts
<1>2. Min(costs) \in costs /\ \A n \in costs : Min(costs) <= n
  BY <1>1, MinOfNaturals
<1>3. Min(costs) <= CostOf(p, T) /\ CostOf(p, T) <= Min(costs)
  BY <1>1, <1>2
<1>4. Min(costs) \in Nat /\ CostOf(p, T) \in Nat
  BY <1>1, <1>2
<1>. HIDE DEF costs
<1>5. Min(costs) = CostOf(p, T)
  BY <1>3, <1>4
<1>6. QED
  BY <1>5 DEF OptimumOf, costs

-----------------------------------------------------------------------------
(* The inductive invariant *)

\* What a packing step is about, or the step under way itself.
Purpose == IF phase \in {"base", "trial"} THEN afterPacking ELSE phase

Typed ==
  /\ phase \in {"empty", "all", "base", "trial", "root", "grow", "grown", "minimize",
                "explore", "union", "bound", "done"}
  /\ afterPacking \in {"root", "grown", "bound"}
  /\ problem \in Problem
  /\ IsBest(problem, best)

\* No solution is cheaper than the bound of the root.
BoundsAll(p, B) ==
  BoundOf(p, B) \in Nat /\ \A S \in SolutionsOf(p) : BoundOf(p, B) <= CostOf(p, S)

RootBounds == BoundsAll(problem, root.blockers)

PackingType ==
  [included : SUBSET Candidates, available : SUBSET Candidates, used : SUBSET Candidates,
   retained : SUBSET Candidates, left : SUBSET Candidates, blockers : Seq(SUBSET Candidates),
   complete : BOOLEAN]

\* What a packing holds at every step.
PackingOf(p, k) ==
  /\ k \in PackingType
  /\ k.included \cap k.available = {}
  /\ IsPacking(p, k.included, k.available, k.blockers)
  /\ k.used \subseteq k.available
  /\ \A i \in 1 .. Len(k.blockers) : k.blockers[i] \subseteq k.used
  /\ k.blockers = <<>> => k.used = {}

\* And while the candidates are tried.
TrialOf(p, k) ==
  /\ k.used \subseteq k.retained
  /\ k.retained \subseteq k.available
  /\ k.left \subseteq k.available
  /\ k.included \cup k.retained \in p.surviving

PackingHolds ==
  Purpose \in {"root", "grown", "bound"} =>
    /\ PackingOf(problem, packing)
    /\ phase = "trial" => TrialOf(problem, packing)
    /\ Purpose = "root" => packing.included = {} /\ packing.available = problem.candidates
    /\ Purpose = "grown" => /\ packing.included = selected
                            /\ packing.available = problem.candidates \ selected
    /\ Purpose = "bound" => /\ packing.included = Node.included
                            /\ packing.available = Node.available
    /\ phase = "bound" /\ packing.complete /\ packing.blockers = <<>> =>
         packing.included \cup packing.available \in problem.surviving

\* The greedy selection stays within the limit and is rejected in the end.
GreedyHolds ==
  Purpose \in {"empty", "all", "root", "grow", "grown", "minimize"} =>
    /\ selected \subseteq problem.candidates
    /\ Cardinality(selected) <= problem.max
    /\ Purpose = "grown" => Cardinality(selected) # problem.max
    /\ phase = "minimize" => selected \notin problem.surviving
    /\ stack = <<>>

\* The tree has every solution that is cheaper than the best below a node.
TreeHolds ==
  /\ Purpose \in {"explore", "union", "bound"} =>
       stack \in Seq(NodeOf(problem)) /\ Covered(problem, best, stack)
  /\ Purpose \in {"union", "bound"} =>
       stack # <<>> /\ Node.included \in problem.surviving

SearchInv ==
  phase # "idle" =>
    Typed /\ RootBounds /\ PackingHolds /\ GreedyHolds /\ TreeHolds /\ ResultHolds

-----------------------------------------------------------------------------
(* Results *)

\* What a result says of a problem.
ResultOf(p, r) ==
  /\ r.status = "optimal" =>
       /\ r.selected \in SolutionsOf(p)
       /\ r.lower = OptimumOf(p) /\ r.upper = OptimumOf(p)
       /\ CostOf(p, r.selected) = OptimumOf(p)
  /\ r.status = "infeasible" => SolutionsOf(p) = {}
  /\ r.status = "incomplete" =>
       /\ \A S \in SolutionsOf(p) : r.lower <= CostOf(p, S)
       /\ r.upper # NoBound => /\ r.selected \in SolutionsOf(p)
                               /\ CostOf(p, r.selected) = r.upper

\* The property of a result, by the problem it answers.
LEMMA ResultIsOfProblem == ResultHolds <=> (phase = "done" => ResultOf(problem, result))
<1>1. Optimum = OptimumOf(problem)
  <2>1. {Cost(S) : S \in Solutions} = {CostOf(problem, S) : S \in SolutionsOf(problem)}
    BY OfTheProblem
  <2>2. QED
    BY <2>1 DEF Optimum, OptimumOf
<1>2. QED
  BY <1>1, OfTheProblem DEF ResultHolds, ResultOf

\* The same of the next state.
LEMMA ResultIsOfNextProblem ==
  ResultHolds' <=> (phase' = "done" => ResultOf(problem', result'))
<1>1. (ResultHolds <=> (phase = "done" => ResultOf(problem, result)))'
  BY ResultIsOfProblem, PTL
<1>2. QED
  BY <1>1

\* finish_result turns what the search knows into a true result.
LEMMA FinishIsTrue ==
  ASSUME Typed, NEW k, NEW complete \in BOOLEAN, BoundsAll(problem, k.blockers),
         complete => Covered(problem, best, <<>>),
         Finish(k, complete), problem' = problem
  PROVE  phase' = "done" /\ ResultHolds'
<1>. DEFINE p     == problem
            bound == BoundOf(p, k.blockers)
<1>1. p \in Problem /\ IsBest(p, best)
  BY DEF Typed
<1>2. BlockerBound(k.blockers) = bound /\ \A S : Cost(S) = CostOf(p, S)
  BY OfTheProblem
<1>3. bound \in Nat /\ \A S \in SolutionsOf(p) : bound <= CostOf(p, S)
  BY DEF BoundsAll
<1>4. phase' = "done"
  BY DEF Finish, Conclude, Proceed
<1>5. ASSUME best = NoSelection
      PROVE  ResultOf(p, result')
  <2>1. CASE complete
    <3>1. result' = [status |-> "infeasible", selected |-> {}, lower |-> NoBound, upper |-> NoBound]
      BY <1>5, <2>1 DEF Finish, Conclude
    <3>2. SolutionsOf(p) = {}
      BY <1>5, <2>1 DEF Covered, ReachedIn
    <3>3. QED
      BY <3>1, <3>2 DEF ResultOf
  <2>2. CASE ~complete
    <3>1. result' = [status |-> "incomplete", selected |-> {}, lower |-> bound, upper |-> NoBound]
      BY <1>2, <1>5, <2>2 DEF Finish, Conclude
    <3>. HIDE DEF bound
    <3>2. QED
      BY <1>3, <3>1 DEF ResultOf
  <2>3. QED
    BY <2>1, <2>2
<1>6. ASSUME best # NoSelection
      PROVE  ResultOf(p, result')
  <2>1. PICK B \in SolutionsOf(p) : best = <<B>>
    BY <1>1, <1>6 DEF IsBest
  <2>2. best[1] = B /\ CostOf(p, B) \in Nat
    BY <1>1, <2>1, SolutionFacts
  <2>3. CASE complete \/ bound = CostOf(p, B)
    <3>1. result' = [status |-> "optimal", selected |-> B, lower |-> CostOf(p, B),
                     upper |-> CostOf(p, B)]
      BY <1>2, <1>6, <2>2, <2>3 DEF Finish, Conclude
    <3>2. \A S \in SolutionsOf(p) : CostOf(p, B) <= CostOf(p, S)
      <4>1. CASE complete
        <5>1. \A S \in SolutionsOf(p) : ReachedIn(p, best, CostOf(p, S))
          BY <4>1 DEF Covered
        <5>2. \A S \in SolutionsOf(p) : CostOf(p, S) \in Nat
          BY <1>1, SolutionFacts
        <5>3. QED
          BY <2>2, <5>1, <5>2 DEF ReachedIn
      <4>2. CASE bound = CostOf(p, B)
        BY <1>3, <4>2
      <4>3. QED
        BY <2>3, <4>1, <4>2
    <3>3. OptimumOf(p) = CostOf(p, B)
      BY <1>1, <3>2, OptimumIs
    <3>4. QED
      BY <2>1, <3>1, <3>3 DEF ResultOf
  <2>4. CASE ~(complete \/ bound = CostOf(p, B))
    <3>1. result' = [status |-> "incomplete", selected |-> B, lower |-> bound,
                     upper |-> CostOf(p, B)]
      BY <1>2, <1>6, <2>2, <2>4 DEF Finish, Conclude
    <3>. HIDE DEF bound
    <3>2. QED
      BY <1>3, <2>1, <3>1 DEF ResultOf
  <2>5. QED
    BY <2>3, <2>4
<1>7. QED
  BY <1>4, <1>5, <1>6, ResultIsOfNextProblem

-----------------------------------------------------------------------------
(* The steps *)

\* A caller asks: the search starts with nothing.
LEMMA StepAsk == ASSUME NEW q \in Problem, BeginSearch(q) PROVE SearchInv'
<1>1. Typed'
  BY DEF BeginSearch, Typed, IsBest
<1>2. BoundOf(q, <<>>) = 0
  <2>. DEFINE f == [i \in 1 .. Len(<<>>) |-> CheapestOf(q, <<>>[i])]
  <2>1. 1 .. Len(<<>>) = {}
    OBVIOUS
  <2>2. Units(f, 1 .. Len(<<>>)) = {}
    BY <2>1 DEF Units
  <2>3. <<>> \in Seq(SUBSET Candidates) /\ \A i \in 1 .. Len(<<>>) : <<>>[i] # {}
    OBVIOUS
  <2>4. BoundOf(q, <<>>) = Cardinality(Units(f, 1 .. Len(<<>>)))
    BY <2>3, BoundIsUnits
  <2>5. QED
    BY <2>2, <2>4, FS_EmptySet
<1>3. RootBounds'
  <2>1. problem' = q /\ root'.blockers = <<>>
    BY DEF BeginSearch, NoPacking
  <2>2. \A S \in SolutionsOf(q) : CostOf(q, S) \in Nat
    BY SolutionFacts
  <2>3. QED
    BY <1>2, <2>1, <2>2 DEF RootBounds, BoundsAll
<1>4. Purpose' = "empty" /\ phase' = "empty"
  BY DEF BeginSearch, Purpose
<1>5. PackingHolds' /\ TreeHolds'
  BY <1>4 DEF PackingHolds, TreeHolds
<1>6. GreedyHolds'
  <2>1. Cardinality({}) = 0
    BY FS_EmptySet
  <2>2. q.max \in Nat
    <3>1. Cardinality(Candidates) \in Nat
      BY SearchAssumption, FS_CardinalityType
    <3>2. QED
      BY <3>1 DEF Problem
  <2>3. 0 <= q.max
    BY <2>2
  <2>4. QED
    BY <1>4, <2>1, <2>3 DEF GreedyHolds, BeginSearch
<1>7. ResultHolds'
  BY <1>4 DEF ResultHolds
<1>8. QED
  BY <1>1, <1>3, <1>5, <1>6, <1>7 DEF SearchInv

\* The empty selection is asked about: rejected, it is the optimum.
LEMMA StepEmpty == ASSUME SearchInv, EvaluateEmpty PROVE SearchInv'
<1>. DEFINE p == problem
<1>0. phase = "empty" /\ problem' = problem
  BY DEF EvaluateEmpty
<1>1. /\ Typed /\ RootBounds /\ GreedyHolds /\ p \in Problem
  BY <1>0 DEF SearchInv, Typed
<1>2. UNCHANGED <<best, stack, root, packing, afterPacking, selected>>
  BY DEF EvaluateEmpty, treeVars, packVars, greedyVars
<1>3. phase' \in {"all", "done"}
  BY DEF EvaluateEmpty, Conclude, Proceed
<1>4. Typed' /\ RootBounds'
  BY <1>0, <1>1, <1>2, <1>3 DEF Typed, RootBounds
<1>5. PackingHolds' /\ TreeHolds'
  BY <1>3 DEF PackingHolds, TreeHolds, Purpose
<1>6. GreedyHolds'
  BY <1>0, <1>1, <1>2, <1>3 DEF GreedyHolds, Purpose
<1>7. ResultHolds'
  <2>1. CASE ~Answers({})
    <3>1. result' = [status |-> "incomplete", selected |-> {}, lower |-> 0, upper |-> NoBound]
      BY <2>1 DEF EvaluateEmpty, Conclude
    <3>2. \A S \in SolutionsOf(p) : CostOf(p, S) \in Nat
      BY <1>1, SolutionFacts
    <3>3. QED
      BY <1>0, <3>1, <3>2, ResultIsOfNextProblem DEF ResultOf
  <2>2. CASE Answers({}) /\ Survives({})
    BY <2>2 DEF EvaluateEmpty, Proceed, ResultHolds
  <2>3. CASE Answers({}) /\ ~Survives({})
    <3>1. result' = [status |-> "optimal", selected |-> {}, lower |-> 0, upper |-> 0]
      BY <2>3 DEF EvaluateEmpty, Conclude
    <3>2. {} \in SolutionsOf(p)
      <4>1. Cardinality(Candidates) \in Nat
        BY SearchAssumption, FS_CardinalityType
      <4>2. p.max \in Nat
        BY <1>1, <4>1 DEF Problem
      <4>3. Cardinality({}) = 0
        BY FS_EmptySet
      <4>4. QED
        BY <2>3, <4>2, <4>3 DEF SolutionsOf, Survives
    <3>3. CostOf(p, {}) = 0
      BY <1>1, NothingIsFree
    <3>4. \A S \in SolutionsOf(p) : CostOf(p, {}) <= CostOf(p, S)
      BY <1>1, <3>3, SolutionFacts
    <3>5. OptimumOf(p) = 0
      BY <1>1, <3>2, <3>3, <3>4, OptimumIs
    <3>6. QED
      BY <1>0, <3>1, <3>2, <3>3, <3>5, ResultIsOfNextProblem DEF ResultOf
  <2>4. QED
    BY <2>1, <2>2, <2>3
<1>8. QED
  BY <1>4, <1>5, <1>6, <1>7 DEF SearchInv

\* A packing starts with no blocker.
LEMMA PackStarts ==
  ASSUME NEW p \in Problem, NEW I \in SUBSET p.candidates, NEW V \in SUBSET p.candidates,
         I \cap V = {}, NEW step, Pack(I, V, step)
  PROVE  /\ PackingOf(p, packing') /\ packing'.included = I /\ packing'.available = V
         /\ phase' = "base" /\ afterPacking' = step
<1>1. packing' = [included |-> I, available |-> V, used |-> {}, retained |-> {},
                  left |-> {}, blockers |-> <<>>, complete |-> TRUE]
  BY DEF Pack, NoPacking
<1>2. I \in SUBSET Candidates /\ V \in SUBSET Candidates
  BY DEF Problem
<1>3. <<>> \in Seq(SUBSET Candidates) /\ Len(<<>>) = 0
  OBVIOUS
<1>4. PackingOf(p, packing')
  BY <1>1, <1>2, <1>3 DEF PackingOf, PackingType, IsPacking
<1>5. QED
  BY <1>1, <1>4 DEF Pack, Proceed

\* All candidates together survive only when no selection is rejected.
LEMMA StepAll == ASSUME SearchInv, EvaluateAll PROVE SearchInv'
<1>. DEFINE p == problem
<1>0. phase = "all" /\ problem' = problem
  BY DEF EvaluateAll
<1>1. Typed /\ RootBounds /\ GreedyHolds /\ p \in Problem
  BY <1>0 DEF SearchInv, Typed
<1>2. UNCHANGED <<best, stack, root, selected>>
  BY DEF EvaluateAll, treeVars, greedyVars
<1>3. CASE Answers(p.candidates) /\ ~Survives(p.candidates)
  <2>1. Pack({}, p.candidates, "root")
    BY <1>3 DEF EvaluateAll
  <2>2. /\ PackingOf(p, packing') /\ packing'.included = {} /\ packing'.available = p.candidates
        /\ phase' = "base" /\ afterPacking' = "root"
    BY <1>1, <2>1, PackStarts
  <2>3. Typed' /\ RootBounds' /\ ResultHolds'
    BY <1>0, <1>1, <1>2, <2>2 DEF Typed, RootBounds, ResultHolds
  <2>4. Purpose' = "root"
    BY <2>2 DEF Purpose
  <2>5. PackingHolds' /\ TreeHolds'
    BY <1>0, <2>2, <2>4 DEF PackingHolds, TreeHolds
  <2>6. GreedyHolds'
    BY <1>0, <1>1, <1>2, <2>2, <2>4 DEF GreedyHolds, Purpose
  <2>7. QED
    BY <2>3, <2>5, <2>6 DEF SearchInv
<1>4. CASE ~(Answers(p.candidates) /\ ~Survives(p.candidates))
  <2>1. phase' = "done" /\ UNCHANGED afterPacking
    BY <1>4 DEF EvaluateAll, Conclude, Proceed
  <2>2. Typed' /\ RootBounds'
    BY <1>0, <1>1, <1>2, <2>1 DEF Typed, RootBounds
  <2>3. PackingHolds' /\ TreeHolds' /\ GreedyHolds'
    BY <2>1 DEF PackingHolds, TreeHolds, GreedyHolds, Purpose
  <2>4. ResultHolds'
    <3>1. CASE Answers(p.candidates)
      <4>1. result'.status = "infeasible" /\ p.candidates \in p.surviving
        BY <1>4, <3>1 DEF EvaluateAll, Conclude, Survives
      <4>2. SolutionsOf(p) = {}
        <5>. SUFFICES ASSUME NEW S \in SolutionsOf(p) PROVE FALSE
          OBVIOUS
        <5>1. S \in SUBSET p.candidates /\ S \notin p.surviving
          BY DEF SolutionsOf
        <5>2. QED
          BY <1>1, <4>1, <5>1, Antitone
      <4>3. QED
        BY <1>0, <4>1, <4>2, ResultIsOfNextProblem DEF ResultOf
    <3>2. CASE ~Answers(p.candidates)
      <4>1. result' = [status |-> "incomplete", selected |-> {}, lower |-> 0, upper |-> NoBound]
        BY <3>2 DEF EvaluateAll, Conclude
      <4>2. \A S \in SolutionsOf(p) : CostOf(p, S) \in Nat
        BY <1>1, SolutionFacts
      <4>3. QED
        BY <1>0, <4>1, <4>2, ResultIsOfNextProblem DEF ResultOf
    <3>3. QED
      BY <3>1, <3>2
  <2>5. QED
    BY <2>2, <2>3, <2>4 DEF SearchInv
<1>5. QED
  BY <1>3, <1>4
-----------------------------------------------------------------------------
(* The steps of a packing *)

\* What a step of a packing must keep.
LEMMA PackingStep ==
  ASSUME SearchInv, phase \in {"base", "trial"},
         UNCHANGED <<problem, best, stack, root, afterPacking, selected>>,
         phase' \in {"base", "trial", afterPacking},
         PackingOf(problem, packing'),
         packing'.included = packing.included, packing'.available = packing.available,
         phase' = "trial" => TrialOf(problem, packing'),
         phase' = "bound" /\ packing'.complete /\ packing'.blockers = <<>> =>
           packing'.included \cup packing'.available \in problem.surviving
  PROVE  SearchInv'
<1>1. Typed /\ RootBounds /\ PackingHolds /\ GreedyHolds /\ TreeHolds
  BY DEF SearchInv
<1>2. afterPacking \in {"root", "grown", "bound"} /\ Purpose = afterPacking
  BY <1>1 DEF Typed, Purpose
<1>3. Purpose' = afterPacking /\ phase' \in {"base", "trial", "root", "grown", "bound"}
  BY <1>2 DEF Purpose
<1>4. Node' = Node
  BY DEF Node
<1>5. Typed' /\ RootBounds' /\ ResultHolds'
  BY <1>1, <1>3 DEF Typed, RootBounds, ResultHolds
<1>6. PackingHolds'
  BY <1>1, <1>2, <1>3, <1>4 DEF PackingHolds
<1>7. GreedyHolds'
  BY <1>1, <1>2, <1>3 DEF GreedyHolds
<1>8. TreeHolds'
  BY <1>1, <1>2, <1>3, <1>4 DEF TreeHolds
<1>9. QED
  BY <1>5, <1>6, <1>7, <1>8 DEF SearchInv

\* A packing ends once the included and the used candidates are rejected
\* together, and takes another blocker otherwise.
LEMMA StepPackBase == ASSUME SearchInv, PackBase PROVE SearchInv'
<1>. DEFINE p    == problem
            k    == packing
            base == k.included \cup k.used
<1>1. phase = "base" /\ UNCHANGED <<problem, best, stack, root, afterPacking, selected>>
  BY DEF PackBase, treeVars, greedyVars
<1>2. Typed /\ PackingHolds /\ TreeHolds
  BY <1>1 DEF SearchInv
<1>3. Purpose = afterPacking /\ Purpose \in {"root", "grown", "bound"}
  BY <1>1, <1>2 DEF Typed, Purpose
<1>4. PackingOf(p, k) /\ k \in PackingType
  BY <1>2, <1>3 DEF PackingHolds, PackingOf
<1>5. CASE Answers(base) /\ Survives(base)
  <2>1. packing' = [k EXCEPT !.retained = k.used, !.left = k.available \ k.used] /\ phase' = "trial"
    BY <1>5 DEF PackBase, Proceed
  <2>2. PackingOf(p, packing')
    BY <1>4, <2>1 DEF PackingOf, PackingType
  <2>3. TrialOf(p, packing')
    BY <1>4, <1>5, <2>1 DEF PackingOf, PackingType, TrialOf, Survives
  <2>4. packing'.included = k.included /\ packing'.available = k.available
    BY <1>4, <2>1 DEF PackingType
  <2>5. QED
    BY <1>1, <2>1, <2>2, <2>3, <2>4, PackingStep
<1>6. CASE ~(Answers(base) /\ Survives(base))
  <2>1. packing' = [k EXCEPT !.complete = Answers(base)] /\ phase' = afterPacking
    BY <1>6 DEF PackBase, Proceed
  <2>2. Answers(base) \in BOOLEAN
    BY DEF Answers
  <2>3. PackingOf(p, packing') /\ packing'.included = k.included
        /\ packing'.available = k.available /\ packing'.blockers = k.blockers
        /\ packing'.complete = Answers(base)
    <3>. HIDE DEF base
    <3>1. QED
      BY <1>4, <2>1, <2>2 DEF PackingOf, PackingType
  <2>4. phase' = "bound" /\ packing'.complete /\ packing'.blockers = <<>> => FALSE
    <3>. SUFFICES ASSUME phase' = "bound", packing'.complete, packing'.blockers = <<>> PROVE FALSE
      OBVIOUS
    <3>1. ~Survives(base)
      BY <1>6, <2>3
    <3>2. base = k.included
      BY <1>4, <2>3 DEF PackingOf
    <3>3. Purpose = "bound"
      BY <1>3, <2>1
    <3>4. k.included = Node.included /\ Node.included \in problem.surviving
      BY <1>2, <3>3 DEF PackingHolds, TreeHolds
    <3>5. QED
      BY <3>1, <3>2, <3>4 DEF Survives
  <2>5. phase' # "trial"
    BY <1>3, <2>1
  <2>6. QED
    BY <1>1, <2>1, <2>3, <2>4, <2>5, PackingStep
<1>7. QED
  BY <1>5, <1>6

\* A candidate is retained when what is retained survives with it.
LEMMA StepPackTrial == ASSUME SearchInv, PackTrial PROVE SearchInv'
<1>. DEFINE p     == problem
            k     == packing
            c     == Min(k.left)
            trial == k.included \cup k.retained \cup {c}
<1>1. /\ phase = "trial" /\ k.left # {}
      /\ UNCHANGED <<problem, best, stack, root, afterPacking, selected>>
  BY DEF PackTrial, treeVars, greedyVars
<1>2. Typed /\ PackingHolds
  BY <1>1 DEF SearchInv
<1>3. Purpose = afterPacking /\ Purpose \in {"root", "grown", "bound"}
  BY <1>1, <1>2 DEF Typed, Purpose
<1>4. PackingOf(p, k) /\ k \in PackingType /\ TrialOf(p, k)
  BY <1>1, <1>2, <1>3 DEF PackingHolds, PackingOf
<1>5. c \in k.left
  <2>1. k.left \in SUBSET Nat
    BY <1>4, SearchAssumption DEF PackingType
  <2>2. QED
    BY <1>1, <2>1, MinOfNaturals
<1>6. c \in k.available /\ c \in Candidates
  BY <1>4, <1>5 DEF TrialOf, PackingType
<1>. HIDE DEF c
<1>7. CASE Answers(trial)
  <2>1. /\ packing' = [k EXCEPT !.left = @ \ {c},
                                !.retained = IF Survives(trial) THEN @ \cup {c} ELSE @]
        /\ phase' = "trial"
    BY <1>1, <1>7 DEF PackTrial, c
  <2>2. PackingOf(p, packing') /\ packing'.included = k.included /\ packing'.available = k.available
    BY <1>4, <1>6, <2>1 DEF PackingOf, PackingType
  <2>3. TrialOf(p, packing')
    <3>1. k.included \cup (k.retained \cup {c}) = trial
      OBVIOUS
    <3>2. CASE Survives(trial)
      BY <1>4, <1>6, <2>1, <3>1, <3>2 DEF PackingType, TrialOf, Survives
    <3>3. CASE ~Survives(trial)
      BY <1>4, <1>6, <2>1, <3>3 DEF PackingType, TrialOf
    <3>4. QED
      BY <3>2, <3>3
  <2>4. QED
    BY <1>1, <2>1, <2>2, <2>3, PackingStep
<1>8. CASE ~Answers(trial)
  <2>1. packing' = [k EXCEPT !.complete = FALSE] /\ phase' = afterPacking
    BY <1>8 DEF PackTrial, Proceed, c
  <2>2. PackingOf(p, packing') /\ packing'.included = k.included
        /\ packing'.available = k.available /\ packing'.complete = FALSE
    BY <1>4, <2>1 DEF PackingOf, PackingType
  <2>3. phase' # "trial"
    BY <1>3, <2>1
  <2>4. QED
    BY <1>1, <2>1, <2>2, <2>3, PackingStep
<1>9. QED
  BY <1>7, <1>8

\* What is not retained is a blocker: every rejected selection below the node
\* meets it, and no blocker before shares a candidate with it.
LEMMA StepPackBlocker == ASSUME SearchInv, PackBlocker PROVE SearchInv'
<1>. DEFINE p       == problem
            k       == packing
            blocker == k.available \ k.retained
            n       == Len(k.blockers)
<1>1. /\ phase = "trial"
      /\ UNCHANGED <<problem, best, stack, root, afterPacking, selected>>
  BY DEF PackBlocker, treeVars, greedyVars
<1>2. Typed /\ PackingHolds
  BY <1>1 DEF SearchInv
<1>3. Purpose = afterPacking /\ Purpose \in {"root", "grown", "bound"}
  BY <1>1, <1>2 DEF Typed, Purpose
<1>4. PackingOf(p, k) /\ k \in PackingType /\ TrialOf(p, k)
  BY <1>1, <1>2, <1>3 DEF PackingHolds, PackingOf
<1>5. CASE blocker = {}
  <2>1. packing' = packing /\ phase' = afterPacking
    BY <1>5 DEF PackBlocker, Proceed
  <2>2. k.available = k.retained
    BY <1>4, <1>5 DEF TrialOf
  <2>3. k.included \cup k.available \in p.surviving
    BY <1>4, <2>2 DEF TrialOf
  <2>4. QED
    BY <1>1, <1>4, <2>1, <2>3, PackingStep
<1>6. CASE blocker # {}
  <2>1. /\ packing' = [k EXCEPT !.used = @ \cup blocker, !.blockers = Append(@, blocker)]
        /\ phase' = "base"
    BY <1>6 DEF PackBlocker, Proceed
  <2>2. k.blockers \in Seq(SUBSET Candidates) /\ blocker \in SUBSET Candidates /\ n \in Nat
    BY <1>4 DEF PackingType
  <2>3. /\ packing' \in PackingType
        /\ packing'.included = k.included /\ packing'.available = k.available
        /\ packing'.used = k.used \cup blocker
        /\ packing'.blockers = Append(k.blockers, blocker)
    <3>. DEFINE more == Append(k.blockers, blocker)
                taken == k.used \cup blocker
    <3>1. more \in Seq(SUBSET Candidates)
      BY <2>2
    <3>2. taken \in SUBSET Candidates
      BY <1>4, <2>2 DEF PackingType
    <3>3. packing' = [k EXCEPT !.used = taken, !.blockers = more]
      BY <2>1
    <3>. HIDE DEF more, taken
    <3>4. /\ packing' \in PackingType /\ packing'.included = k.included
          /\ packing'.available = k.available /\ packing'.used = taken
          /\ packing'.blockers = more
      BY <1>4, <3>1, <3>2, <3>3 DEF PackingType
    <3>5. QED
      BY <3>4 DEF more, taken
  <2>. DEFINE B == packing'.blockers
  <2>4. /\ B \in Seq(SUBSET Candidates) /\ Len(B) = n + 1
        /\ B[n + 1] = blocker /\ \A i \in 1 .. n : B[i] = k.blockers[i]
    BY <2>2, <2>3
  <2>5. blocker \subseteq k.available /\ blocker \cap k.used = {}
    BY <1>4 DEF TrialOf
  <2>6. \A i \in 1 .. Len(B) : i = n + 1 \/ i \in 1 .. n
    BY <2>2, <2>4
  <2>7. k.included \cup (k.available \ blocker) \in p.surviving
    <3>1. k.available \ blocker = k.retained
      BY <1>4 DEF TrialOf
    <3>2. QED
      BY <1>4, <3>1 DEF TrialOf
  <2>8. /\ \A i \in 1 .. n : /\ k.blockers[i] # {} /\ k.blockers[i] \subseteq k.available
                             /\ k.included \cup (k.available \ k.blockers[i]) \in p.surviving
                             /\ k.blockers[i] \subseteq k.used
        /\ \A i, j \in 1 .. n : i # j => k.blockers[i] \cap k.blockers[j] = {}
    BY <1>4 DEF PackingOf, IsPacking
  <2>. HIDE DEF B, blocker, n
  <2>9. IsPacking(p, k.included, k.available, B)
    <3>1. ASSUME NEW i \in 1 .. Len(B)
          PROVE  B[i] # {} /\ B[i] \subseteq k.available /\ k.included \cup (k.available \ B[i]) \in p.surviving
      BY <1>6, <2>4, <2>5, <2>6, <2>7, <2>8
    <3>2. ASSUME NEW i \in 1 .. Len(B), NEW j \in 1 .. Len(B), i # j
          PROVE  B[i] \cap B[j] = {}
      <4>1. CASE i \in 1 .. n /\ j \in 1 .. n
        BY <2>4, <2>8, <3>2, <4>1
      <4>2. CASE i = n + 1 /\ j \in 1 .. n
        BY <2>4, <2>5, <2>8, <4>2
      <4>3. CASE i \in 1 .. n /\ j = n + 1
        BY <2>4, <2>5, <2>8, <4>3
      <4>4. QED
        BY <2>6, <3>2, <4>1, <4>2, <4>3
    <3>3. QED
      BY <2>4, <3>1, <3>2 DEF IsPacking
  <2>10. \A i \in 1 .. Len(B) : B[i] \subseteq packing'.used
    BY <2>3, <2>4, <2>6, <2>8
  <2>11. B # <<>>
    <3>1. Len(<<>>) = 0 /\ n + 1 # 0
      BY <2>2
    <3>2. QED
      BY <2>4, <3>1
  <2>12. packing'.used \subseteq packing'.available /\ k.included \cap k.available = {}
    BY <1>4, <2>3, <2>5 DEF PackingOf
  <2>13. PackingOf(p, packing')
    BY <2>3, <2>9, <2>10, <2>11, <2>12 DEF PackingOf, B
  <2>14. QED
    BY <1>1, <2>1, <2>3, <2>13, PackingStep
<1>7. QED
  BY <1>5, <1>6

-----------------------------------------------------------------------------
(* The steps of the root and of the greedy selection *)

\* A step that concludes with a true result.
LEMMA SearchEnds ==
  ASSUME Typed, UNCHANGED <<problem, best, afterPacking>>,
         RootBounds', phase' = "done", ResultHolds'
  PROVE  SearchInv'
<1>1. Typed'
  BY DEF Typed
<1>2. PackingHolds' /\ GreedyHolds' /\ TreeHolds'
  BY DEF PackingHolds, GreedyHolds, TreeHolds, Purpose
<1>3. QED
  BY <1>1, <1>2 DEF SearchInv

\* Below the first node lies every selection.
LEMMA TreeStarts ==
  ASSUME Typed, RootBounds, ExploreRoot, UNCHANGED <<problem, root, afterPacking>>,
         IsBest(problem, best')
  PROVE  SearchInv'
<1>. DEFINE p    == problem
            node == [included |-> {}, available |-> p.candidates]
<1>1. stack' = <<node>> /\ phase' = "explore" /\ Purpose' = "explore"
  BY DEF ExploreRoot, Proceed, Purpose
<1>2. Typed' /\ RootBounds' /\ ResultHolds'
  BY <1>1 DEF Typed, RootBounds, ResultHolds
<1>3. PackingHolds' /\ GreedyHolds'
  BY <1>1 DEF PackingHolds, GreedyHolds
<1>4. node \in NodeOf(p)
  <2>1. Cardinality({}) = 0
    BY FS_EmptySet
  <2>2. Cardinality(Candidates) \in Nat
    BY SearchAssumption, FS_CardinalityType
  <2>3. p.max \in Nat
    BY <2>2 DEF Typed, Problem
  <2>4. node \in [included : SUBSET p.candidates, available : SUBSET p.candidates]
    OBVIOUS
  <2>5. node.included = {} /\ node.included \cap node.available = {}
    OBVIOUS
  <2>6. Cardinality(node.included) = 0
    BY <2>1, <2>5
  <2>. HIDE DEF node
  <2>7. QED
    BY <2>3, <2>4, <2>5, <2>6 DEF NodeOf
<1>5. Covered(p, best', <<node>>)
  <2>1. \A S \in SolutionsOf(p) : Below(node, S)
    BY DEF Below, SolutionsOf
  <2>2. 1 \in 1 .. Len(<<node>>) /\ <<node>>[1] = node
    OBVIOUS
  <2>3. QED
    BY <2>1, <2>2 DEF Covered
<1>6. TreeHolds'
  BY <1>1, <1>4, <1>5 DEF TreeHolds
<1>7. QED
  BY <1>2, <1>3, <1>6 DEF SearchInv

\* update_best never makes the best dearer, and leaves none cheaper behind.
LEMMA BestKept ==
  ASSUME Typed, NEW S \in SolutionsOf(problem), UpdateBest(S)
  PROVE  /\ IsBest(problem, best')
         /\ \A x \in Nat : ReachedIn(problem, best, x) => ReachedIn(problem, best', x)
         /\ \A x \in Nat : x >= CostOf(problem, S) => ReachedIn(problem, best', x)
<1>. DEFINE p == problem
<1>1. p \in Problem /\ IsBest(p, best)
  BY DEF Typed
<1>2. CostOf(p, S) \in Nat /\ Cost(S) = CostOf(p, S)
  BY <1>1, SolutionFacts, OfTheProblem
<1>3. <<S>> # <<>> /\ <<S>>[1] = S
  OBVIOUS
<1>4. CASE best = NoSelection
  <2>1. best' = <<S>>
    BY <1>4 DEF UpdateBest
  <2>2. QED
    BY <1>2, <1>3, <1>4, <2>1 DEF IsBest, ReachedIn, NoSelection
<1>5. CASE best # NoSelection
  <2>1. PICK B \in SolutionsOf(p) : best = <<B>>
    BY <1>1, <1>5 DEF IsBest
  <2>2. best[1] = B /\ CostOf(p, B) \in Nat /\ Cost(B) = CostOf(p, B)
    BY <1>1, <2>1, SolutionFacts, OfTheProblem
  <2>3. CASE best' = <<S>> /\ CostOf(p, S) <= CostOf(p, B)
    <3>1. IsBest(p, best')
      BY <2>3 DEF IsBest
    <3>2. best' # NoSelection /\ CostOf(p, best'[1]) = CostOf(p, S)
      BY <1>3, <2>3 DEF NoSelection
    <3>3. CostOf(p, best[1]) = CostOf(p, B)
      BY <2>2
    <3>4. \A x \in Nat : x >= CostOf(p, S) => ReachedIn(p, best', x)
      BY <3>2 DEF ReachedIn
    <3>5. \A x \in Nat : ReachedIn(p, best, x) => x >= CostOf(p, S)
      BY <1>2, <2>2, <2>3, <3>3 DEF ReachedIn
    <3>6. QED
      BY <3>1, <3>4, <3>5
  <2>4. CASE best' = best /\ CostOf(p, B) <= CostOf(p, S)
    BY <1>1, <1>2, <1>5, <2>2, <2>4 DEF ReachedIn
  <2>5. \/ best' = <<S>> /\ CostOf(p, S) <= CostOf(p, B)
        \/ best' = best /\ CostOf(p, B) <= CostOf(p, S)
    BY <1>2, <1>5, <2>2 DEF UpdateBest
  <2>6. QED
    BY <2>3, <2>4, <2>5
<1>6. QED
  BY <1>4, <1>5

\* The packing of the root bounds the optimum from below.
LEMMA StepRoot == ASSUME SearchInv, Root PROVE SearchInv'
<1>. DEFINE p == problem
            k == packing
<1>1. /\ phase = "root" /\ root' = packing
      /\ UNCHANGED <<problem, best, stack, packing, afterPacking, selected>>
  BY DEF Root, treeVars, greedyVars
<1>2. Typed /\ PackingHolds /\ GreedyHolds /\ p \in Problem
  BY <1>1 DEF SearchInv, Typed
<1>3. PackingOf(p, k) /\ k.included = {} /\ k.available = p.candidates
  BY <1>1, <1>2 DEF PackingHolds, Purpose
<1>4. BoundsAll(p, k.blockers)
  <2>1. IsPacking(p, {}, p.candidates, k.blockers) /\ p.candidates \in SUBSET Candidates
    BY <1>2, <1>3 DEF PackingOf, Problem
  <2>2. k.blockers \in Seq(SUBSET Candidates) /\ \A i \in 1 .. Len(k.blockers) : k.blockers[i] # {}
    BY <2>1 DEF IsPacking
  <2>3. BoundOf(p, k.blockers) \in Nat
    BY <1>2, <2>2, BoundIsUnits
  <2>4. ASSUME NEW S \in SolutionsOf(p)
        PROVE  BoundOf(p, k.blockers) <= CostOf(p, S)
    <3>1. {} \subseteq S /\ S \subseteq {} \cup p.candidates /\ S \notin p.surviving
          /\ {} \in SUBSET Candidates /\ {} \cap p.candidates = {}
      BY DEF SolutionsOf
    <3>2. CostOf(p, {}) + BoundOf(p, k.blockers) <= CostOf(p, S)
      BY <1>2, <2>1, <3>1, PackingBounds
    <3>3. CostOf(p, {}) = 0 /\ CostOf(p, S) \in Nat
      BY <1>2, NothingIsFree, SolutionFacts
    <3>. HIDE DEF p, k
    <3>4. QED
      BY <2>3, <3>2, <3>3
  <2>5. QED
    BY <2>3, <2>4 DEF BoundsAll
<1>5. RootBounds'
  BY <1>1, <1>4 DEF RootBounds
<1>6. CASE k.complete
  <2>1. phase' = "grow"
    BY <1>6 DEF Root, Proceed
  <2>2. Typed' /\ ResultHolds'
    BY <1>1, <1>2, <2>1 DEF Typed, ResultHolds
  <2>3. PackingHolds' /\ TreeHolds'
    BY <2>1 DEF PackingHolds, TreeHolds, Purpose
  <2>4. GreedyHolds'
    BY <1>1, <1>2, <2>1 DEF GreedyHolds, Purpose
  <2>5. QED
    BY <1>5, <2>2, <2>3, <2>4 DEF SearchInv
<1>7. CASE ~k.complete
  <2>1. Finish(k, FALSE)
    BY <1>7 DEF Root
  <2>2. phase' = "done" /\ ResultHolds'
    BY <1>1, <1>2, <1>4, <2>1, FinishIsTrue
  <2>3. QED
    BY <1>1, <1>2, <1>5, <2>2, SearchEnds
<1>8. QED
  BY <1>6, <1>7

\* The greedy selection is asked about: it is minimised once it is rejected.
LEMMA StepGrowEvaluate == ASSUME SearchInv, GrowEvaluate PROVE SearchInv'
<1>. DEFINE p == problem
<1>1. phase = "grow" /\ UNCHANGED <<problem, best, root, selected>>
  BY DEF GrowEvaluate
<1>2. Typed /\ RootBounds /\ GreedyHolds /\ p \in Problem /\ IsBest(p, best)
  BY <1>1 DEF SearchInv, Typed
<1>3. selected \subseteq p.candidates /\ Cardinality(selected) <= p.max /\ stack = <<>>
  BY <1>1, <1>2 DEF GreedyHolds, Purpose
<1>4. CASE ExploreRoot /\ UNCHANGED afterPacking
  BY <1>1, <1>2, <1>4, TreeStarts
<1>5. CASE ~Survives(selected) /\ Proceed("minimize") /\ UNCHANGED <<packing, afterPacking, stack>>
  <2>1. phase' = "minimize" /\ Purpose' = "minimize"
    BY <1>5 DEF Proceed, Purpose
  <2>2. Typed' /\ RootBounds' /\ ResultHolds'
    BY <1>1, <1>2, <1>5, <2>1 DEF Typed, RootBounds, ResultHolds
  <2>3. PackingHolds' /\ TreeHolds'
    BY <2>1 DEF PackingHolds, TreeHolds
  <2>4. GreedyHolds'
    BY <1>1, <1>3, <1>5, <2>1 DEF GreedyHolds, Survives
  <2>5. QED
    BY <2>2, <2>3, <2>4 DEF SearchInv
<1>6. CASE /\ Cardinality(selected) # p.max /\ UNCHANGED stack
           /\ Pack(selected, p.candidates \ selected, "grown")
  <2>1. /\ PackingOf(p, packing') /\ packing'.included = selected
        /\ packing'.available = p.candidates \ selected
        /\ phase' = "base" /\ afterPacking' = "grown"
    <3>1. selected \cap (p.candidates \ selected) = {}
      OBVIOUS
    <3>2. QED
      BY <1>2, <1>3, <1>6, <3>1, PackStarts
  <2>2. Purpose' = "grown"
    BY <2>1 DEF Purpose
  <2>3. Typed' /\ RootBounds' /\ ResultHolds'
    BY <1>1, <1>2, <2>1 DEF Typed, RootBounds, ResultHolds
  <2>4. PackingHolds' /\ TreeHolds'
    BY <1>1, <2>1, <2>2 DEF PackingHolds, TreeHolds
  <2>5. GreedyHolds'
    BY <1>1, <1>3, <1>6, <2>1, <2>2 DEF GreedyHolds
  <2>6. QED
    BY <2>3, <2>4, <2>5 DEF SearchInv
<1>7. QED
  BY <1>4, <1>5, <1>6 DEF GrowEvaluate

\* The greedy selection grows by the cheapest candidate of the first blocker,
\* or is given up.
LEMMA StepGrow == ASSUME SearchInv, Grow PROVE SearchInv'
<1>. DEFINE p == problem
            k == packing
<1>1. phase = "grown" /\ UNCHANGED <<problem, best, root, packing, afterPacking>>
  BY DEF Grow, packVars
<1>2. Typed /\ RootBounds /\ GreedyHolds /\ PackingHolds /\ p \in Problem /\ IsBest(p, best)
  BY <1>1 DEF SearchInv, Typed
<1>3. /\ selected \subseteq p.candidates /\ Cardinality(selected) <= p.max
      /\ Cardinality(selected) # p.max /\ stack = <<>>
  BY <1>1, <1>2 DEF GreedyHolds, Purpose
<1>4. CASE ExploreRoot
  BY <1>1, <1>2, <1>4, TreeStarts
<1>5. CASE k.blockers # <<>> /\ k.complete
  <2>. DEFINE B == k.blockers[1]
              c == CHOOSE b \in B : \A d \in B : b = d \/ Cheaper(b, d)
  <2>1. PackingOf(p, k) /\ k.available = p.candidates \ selected
    BY <1>1, <1>2 DEF PackingHolds, Purpose
  <2>2. 1 \in 1 .. Len(k.blockers) /\ k.blockers \in Seq(SUBSET Candidates)
    BY <1>5, <2>1 DEF PackingOf, IsPacking
  <2>3. B \in SUBSET Candidates /\ B # {} /\ B \subseteq p.candidates \ selected
    <3>1. IsPacking(p, k.included, k.available, k.blockers)
      BY <2>1 DEF PackingOf
    <3>2. B # {} /\ B \subseteq k.available
      BY <2>2, <3>1 DEF IsPacking
    <3>3. B \in SUBSET Candidates
      BY <2>2
    <3>4. QED
      BY <2>1, <3>2, <3>3
  <2>4. \E b \in B : \A d \in B : b = d \/ Cheaper(b, d)
    BY <1>2, <2>3, CheapestExists
  <2>5. c \in B
    BY <2>4
  <2>6. phase' = "grow" /\ selected' = selected \cup {c} /\ UNCHANGED stack
    BY <1>5 DEF Grow, Proceed
  <2>. HIDE DEF c
  <2>7. selected' \subseteq p.candidates
    BY <1>3, <2>3, <2>5, <2>6
  <2>8. Cardinality(selected') <= p.max
    <3>1. selected \in SUBSET Candidates /\ IsFiniteSet(selected)
      BY <1>2, <1>3, CostIsUnits DEF Problem
    <3>2. Cardinality(selected \cup {c}) = Cardinality(selected) + 1
      BY <2>3, <2>5, <3>1, FS_AddElement
    <3>3. Cardinality(selected) \in Nat /\ Cardinality(Candidates) \in Nat
      BY <3>1, SearchAssumption, FS_CardinalityType
    <3>4. p.max \in Nat
      BY <1>2, <3>3 DEF Problem
    <3>5. Cardinality(selected') = Cardinality(selected) + 1
      BY <2>6, <3>2
    <3>6. QED
      BY <1>3, <3>3, <3>4, <3>5
  <2>9. Typed' /\ RootBounds' /\ ResultHolds'
    BY <1>1, <1>2, <2>6 DEF Typed, RootBounds, ResultHolds
  <2>10. PackingHolds' /\ TreeHolds'
    BY <2>6 DEF PackingHolds, TreeHolds, Purpose
  <2>11. GreedyHolds'
    BY <1>1, <1>3, <2>6, <2>7, <2>8 DEF GreedyHolds, Purpose
  <2>12. QED
    BY <2>9, <2>10, <2>11 DEF SearchInv
<1>6. QED
  BY <1>4, <1>5 DEF Grow

\* The greedy selection gives up a candidate when the rest is still rejected.
LEMMA StepMinimize == ASSUME SearchInv, Minimize PROVE SearchInv'
<1>. DEFINE p       == problem
            reduced == selected \ {Max(todo)}
<1>1. phase = "minimize" /\ UNCHANGED <<problem, best, root, afterPacking>>
  BY DEF Minimize, packVars
<1>2. Typed /\ RootBounds /\ GreedyHolds /\ p \in Problem /\ IsBest(p, best)
  BY <1>1 DEF SearchInv, Typed
<1>3. /\ selected \subseteq p.candidates /\ Cardinality(selected) <= p.max
      /\ selected \notin p.surviving /\ stack = <<>>
  BY <1>1, <1>2 DEF GreedyHolds, Purpose
<1>4. CASE ExploreRoot
  BY <1>1, <1>2, <1>4, TreeStarts
<1>5. CASE Answers(reduced)
  <2>1. /\ selected' = (IF Survives(reduced) THEN selected ELSE reduced)
        /\ UNCHANGED <<stack, phase>>
    BY <1>5 DEF Minimize
  <2>2. Cardinality(reduced) <= p.max /\ reduced \subseteq p.candidates
    <3>1. selected \in SUBSET Candidates /\ reduced \subseteq selected
      BY <1>2, <1>3 DEF Problem
    <3>2. IsFiniteSet(selected) /\ IsFiniteSet(reduced)
      BY <3>1, SearchAssumption, FS_Subset
    <3>3. Cardinality(reduced) <= Cardinality(selected)
      BY <3>1, <3>2, FS_Subset
    <3>4. Cardinality(selected) \in Nat /\ Cardinality(Candidates) \in Nat /\ Cardinality(reduced) \in Nat
      BY <3>2, SearchAssumption, FS_CardinalityType
    <3>5. p.max \in Nat
      BY <1>2, <3>4 DEF Problem
    <3>. HIDE DEF reduced
    <3>6. Cardinality(reduced) <= p.max
      BY <1>3, <3>3, <3>4, <3>5
    <3>7. QED
      BY <1>3, <3>1, <3>6
  <2>3. /\ selected' \subseteq p.candidates /\ Cardinality(selected') <= p.max
        /\ selected' \notin p.surviving
    <3>. HIDE DEF reduced
    <3>1. QED
      BY <1>3, <2>1, <2>2 DEF Survives
  <2>4. Typed' /\ RootBounds' /\ ResultHolds'
    BY <1>1, <1>2, <2>1 DEF Typed, RootBounds, ResultHolds
  <2>5. PackingHolds' /\ TreeHolds'
    BY <1>1, <2>1 DEF PackingHolds, TreeHolds, Purpose
  <2>6. GreedyHolds'
    BY <1>1, <1>3, <2>1, <2>3 DEF GreedyHolds, Purpose
  <2>7. QED
    BY <2>4, <2>5, <2>6 DEF SearchInv
<1>6. QED
  BY <1>4, <1>5 DEF Minimize

\* The minimised selection may be the best so far, and the tree is searched
\* from its root.
LEMMA StepMinimized == ASSUME SearchInv, Minimized PROVE SearchInv'
<1>1. /\ phase = "minimize" /\ UNCHANGED <<problem, root, afterPacking>>
      /\ UpdateBest(selected) /\ ExploreRoot
  BY DEF Minimized, packVars
<1>2. Typed /\ RootBounds /\ GreedyHolds
  BY <1>1 DEF SearchInv
<1>3. selected \in SolutionsOf(problem)
  BY <1>1, <1>2 DEF GreedyHolds, Purpose, SolutionsOf
<1>4. IsBest(problem, best')
  BY <1>1, <1>2, <1>3, BestKept
<1>5. QED
  BY <1>1, <1>2, <1>4, TreeStarts

-----------------------------------------------------------------------------
(* The steps of the tree *)

\* What the best selection reaches, it reaches at a higher cost.
LEMMA ReachedMore ==
  ASSUME NEW p \in Problem, NEW b, IsBest(p, b), NEW x \in Nat, NEW y \in Nat, x <= y,
         ReachedIn(p, b, x)
  PROVE  ReachedIn(p, b, y)
<1>1. PICK B \in SolutionsOf(p) : b = <<B>>
  BY DEF IsBest, ReachedIn
<1>2. b[1] = B /\ CostOf(p, B) \in Nat
  BY <1>1, SolutionFacts
<1>3. QED
  BY <1>2 DEF ReachedIn

\* What lies below the first node includes its candidates and costs more.
LEMMA BelowHead ==
  ASSUME NEW p \in Problem, NEW left \in Seq(NodeOf(p)), left # <<>>
  PROVE  /\ Head(left) \in NodeOf(p)
         /\ Head(left).included \subseteq p.candidates
         /\ Head(left).available \subseteq p.candidates
         /\ Head(left).included \cap Head(left).available = {}
         /\ Head(left).included \in SUBSET Candidates
         /\ Head(left).available \in SUBSET Candidates
         /\ Cardinality(Head(left).included) \in Nat
         /\ Cardinality(Head(left).included) <= p.max
         /\ CostOf(p, Head(left).included) \in Nat
         /\ \A S \in SolutionsOf(p) :
              Below(Head(left), S) => CostOf(p, Head(left).included) <= CostOf(p, S)
<1>. DEFINE n == Head(left)
<1>1. n \in NodeOf(p)
  OBVIOUS
<1>. HIDE DEF n
<1>2. /\ n.included \subseteq p.candidates /\ n.available \subseteq p.candidates
      /\ n.included \cap n.available = {} /\ Cardinality(n.included) <= p.max
  BY <1>1 DEF NodeOf
<1>3. n.included \in SUBSET Candidates /\ n.available \in SUBSET Candidates
  BY <1>2 DEF Problem
<1>4. Cardinality(n.included) \in Nat /\ CostOf(p, n.included) \in Nat
  BY <1>3, CostIsUnits, FS_CardinalityType
<1>5. ASSUME NEW S \in SolutionsOf(p), Below(n, S)
      PROVE  CostOf(p, n.included) <= CostOf(p, S)
  <2>1. S \in SUBSET Candidates /\ n.included \in SUBSET S
    BY <1>5, SolutionFacts DEF Below
  <2>2. QED
    BY <2>1, CostGrows
<1>6. QED
  BY <1>1, <1>2, <1>3, <1>4, <1>5 DEF n

\* A step that leaves the tree with every solution below a node.
LEMMA TreeGoesOn ==
  ASSUME Typed, RootBounds, UNCHANGED <<problem, root, afterPacking>>,
         IsBest(problem, best'), phase' = "explore",
         stack' \in Seq(NodeOf(problem)), Covered(problem, best', stack')
  PROVE  SearchInv'
<1>1. Purpose' = "explore"
  BY DEF Purpose
<1>2. Typed' /\ RootBounds' /\ ResultHolds'
  BY DEF Typed, RootBounds, ResultHolds
<1>3. PackingHolds' /\ GreedyHolds' /\ TreeHolds'
  BY <1>1 DEF PackingHolds, GreedyHolds, TreeHolds
<1>4. QED
  BY <1>2, <1>3 DEF SearchInv

\* A node that nothing cheaper lies below is left.
LEMMA NodeLeft ==
  ASSUME Typed, RootBounds, UNCHANGED <<problem, root, afterPacking>>,
         stack \in Seq(NodeOf(problem)), stack # <<>>, Covered(problem, best, stack),
         stack' = Tail(stack), phase' = "explore", IsBest(problem, best'),
         \A x \in Nat : ReachedIn(problem, best, x) => ReachedIn(problem, best', x),
         \A S \in SolutionsOf(problem) :
           Below(Head(stack), S) => ReachedIn(problem, best', CostOf(problem, S))
  PROVE  SearchInv'
<1>. DEFINE p == problem
<1>1. p \in Problem
  BY DEF Typed
<1>2. \A S \in SolutionsOf(p) : ReachedIn(p, best, CostOf(p, S)) => ReachedIn(p, best', CostOf(p, S))
  BY <1>1, SolutionFacts
<1>3. Tail(stack) \in Seq(NodeOf(p)) /\ Covered(p, best', Tail(stack))
  BY <1>1, <1>2, NodeDone
<1>4. QED
  BY <1>3, TreeGoesOn

\* A limit stops the search with the bound of the root.
LEMMA StepStop ==
  ASSUME Typed, RootBounds, Stop, UNCHANGED <<problem, best, root, afterPacking>>
  PROVE  SearchInv'
<1>1. BoundsAll(problem, root.blockers) /\ Finish(root, FALSE)
  BY DEF RootBounds, Stop
<1>2. phase' = "done" /\ ResultHolds'
  BY <1>1, FinishIsTrue
<1>3. RootBounds'
  BY DEF RootBounds
<1>4. QED
  BY <1>2, <1>3, SearchEnds

\* A node's own selection is asked about: rejected, it may be the best; and a
\* node that cannot beat the best is left.
LEMMA StepStartExplore == ASSUME SearchInv, StartExplore PROVE SearchInv'
<1>. DEFINE p == problem
            I == Node.included
<1>1. /\ phase = "explore" /\ stack # <<>> /\ UNCHANGED <<problem, root, afterPacking>>
  BY DEF StartExplore, packVars
<1>2. Typed /\ RootBounds /\ TreeHolds /\ p \in Problem /\ IsBest(p, best)
  BY <1>1 DEF SearchInv, Typed
<1>3. stack \in Seq(NodeOf(p)) /\ Covered(p, best, stack)
  BY <1>1, <1>2 DEF TreeHolds, Purpose
<1>4. /\ I \subseteq p.candidates /\ I \in SUBSET Candidates
      /\ Cardinality(I) \in Nat /\ Cardinality(I) <= p.max /\ CostOf(p, I) \in Nat
      /\ \A S \in SolutionsOf(p) : Below(Head(stack), S) => CostOf(p, I) <= CostOf(p, S)
  BY <1>1, <1>2, <1>3, BelowHead DEF Node
<1>5. CASE Stop /\ UNCHANGED best
  BY <1>1, <1>2, <1>5, StepStop
<1>6. CASE ~Survives(I) /\ UpdateBest(I) /\ Pop
  <2>1. stack' = Tail(stack) /\ phase' = "explore"
    BY <1>6 DEF Pop, Proceed
  <2>2. I \in SolutionsOf(p)
    BY <1>4, <1>6 DEF SolutionsOf, Survives
  <2>3. /\ IsBest(p, best')
        /\ \A x \in Nat : ReachedIn(p, best, x) => ReachedIn(p, best', x)
        /\ \A x \in Nat : x >= CostOf(p, I) => ReachedIn(p, best', x)
    BY <1>2, <1>6, <2>2, BestKept
  <2>. HIDE DEF I
  <2>4. ASSUME NEW S \in SolutionsOf(p), Below(Head(stack), S)
        PROVE  ReachedIn(p, best', CostOf(p, S))
    <3>1. CostOf(p, S) \in Nat /\ CostOf(p, I) <= CostOf(p, S)
      BY <1>2, <1>4, <2>4, SolutionFacts
    <3>. HIDE DEF p
    <3>2. CostOf(p, S) >= CostOf(p, I)
      BY <1>4, <3>1
    <3>3. QED
      BY <2>3, <3>1, <3>2
  <2>5. QED
    BY <1>1, <1>2, <1>3, <2>1, <2>3, <2>4, NodeLeft
<1>7. CASE /\ Survives(I) /\ Pop /\ UNCHANGED best
           /\ Cardinality(I) = p.max \/ Reached(Cost(I))
  <2>1. stack' = Tail(stack) /\ phase' = "explore"
    BY <1>7 DEF Pop, Proceed
  <2>2. ASSUME NEW S \in SolutionsOf(p), Below(Head(stack), S)
        PROVE  ReachedIn(p, best, CostOf(p, S))
    <3>1. /\ CostOf(p, S) \in Nat /\ CostOf(p, I) <= CostOf(p, S) /\ IsFiniteSet(S)
          /\ Cardinality(S) \in Nat /\ Cardinality(S) <= p.max /\ S \notin p.surviving
      BY <1>2, <1>4, <2>2, SolutionFacts
    <3>2. CASE Cardinality(I) = p.max
      <4>1. I \subseteq S
        BY <2>2 DEF Below, Node
      <4>2. Cardinality(I) <= Cardinality(S) /\ (Cardinality(I) = Cardinality(S) => I = S)
        BY <3>1, <4>1, FS_Subset
      <4>. HIDE DEF p, I
      <4>3. I = S
        BY <1>4, <3>1, <3>2, <4>2
      <4>4. QED
        BY <1>7, <3>1, <4>3 DEF Survives, p
    <3>3. CASE Reached(Cost(I))
      <4>1. ReachedIn(p, best, CostOf(p, I))
        BY <3>3, OfTheProblem DEF Reached, ReachedIn
      <4>2. QED
        BY <1>2, <1>4, <3>1, <4>1, ReachedMore
    <3>4. QED
      BY <1>7, <3>2, <3>3
  <2>3. IsBest(p, best') /\ best' = best
    BY <1>2, <1>7
  <2>4. QED
    BY <1>1, <1>2, <1>3, <2>1, <2>2, <2>3, NodeLeft
<1>8. CASE Survives(I) /\ Proceed("union") /\ UNCHANGED <<stack, best>>
  <2>1. phase' = "union" /\ Purpose' = "union"
    BY <1>8 DEF Proceed, Purpose
  <2>2. Typed' /\ RootBounds' /\ ResultHolds'
    BY <1>1, <1>2, <1>8, <2>1 DEF Typed, RootBounds, ResultHolds
  <2>3. PackingHolds' /\ GreedyHolds'
    BY <2>1 DEF PackingHolds, GreedyHolds
  <2>4. TreeHolds'
    BY <1>1, <1>3, <1>8, <2>1 DEF TreeHolds, Node, Survives
  <2>5. QED
    BY <2>2, <2>3, <2>4 DEF SearchInv
<1>9. QED
  BY <1>5, <1>6, <1>7, <1>8 DEF StartExplore

\* A node that survives with all that is available holds no rejected
\* selection.
LEMMA StepExploreUnion == ASSUME SearchInv, ExploreUnion PROVE SearchInv'
<1>. DEFINE p == problem
            I == Node.included
            V == Node.available
<1>1. phase = "union" /\ UNCHANGED <<problem, best, root>>
  BY DEF ExploreUnion
<1>2. Typed /\ RootBounds /\ TreeHolds /\ p \in Problem /\ IsBest(p, best)
  BY <1>1 DEF SearchInv, Typed
<1>3. stack \in Seq(NodeOf(p)) /\ Covered(p, best, stack) /\ stack # <<>> /\ I \in p.surviving
  BY <1>1, <1>2 DEF TreeHolds, Purpose
<1>4. I \subseteq p.candidates /\ V \subseteq p.candidates /\ I \cap V = {}
  BY <1>2, <1>3, BelowHead DEF Node
<1>5. CASE Stop /\ UNCHANGED afterPacking
  BY <1>1, <1>2, <1>5, StepStop
<1>6. CASE Survives(I \cup V) /\ Pop /\ UNCHANGED afterPacking
  <2>1. stack' = Tail(stack) /\ phase' = "explore"
    BY <1>6 DEF Pop, Proceed
  <2>2. ASSUME NEW S \in SolutionsOf(p), Below(Head(stack), S)
        PROVE  FALSE
    <3>1. S \in SUBSET (I \cup V) /\ I \cup V \in p.surviving /\ S \notin p.surviving
      BY <1>6, <2>2 DEF Below, Node, Survives, SolutionsOf
    <3>2. QED
      BY <1>2, <3>1, Antitone
  <2>3. QED
    BY <1>1, <1>2, <1>3, <1>6, <2>1, <2>2, NodeLeft
<1>7. CASE Pack(I, V, "bound") /\ UNCHANGED stack
  <2>1. /\ PackingOf(p, packing') /\ packing'.included = I /\ packing'.available = V
        /\ phase' = "base" /\ afterPacking' = "bound"
    BY <1>2, <1>4, <1>7, PackStarts
  <2>2. Purpose' = "bound" /\ Node' = Node
    BY <1>7, <2>1 DEF Purpose, Node
  <2>3. Typed' /\ RootBounds' /\ ResultHolds'
    BY <1>1, <1>2, <2>1 DEF Typed, RootBounds, ResultHolds
  <2>4. PackingHolds' /\ GreedyHolds'
    BY <1>1, <2>1, <2>2 DEF PackingHolds, GreedyHolds
  <2>5. TreeHolds'
    BY <1>1, <1>3, <1>7, <2>2 DEF TreeHolds
  <2>6. QED
    BY <2>3, <2>4, <2>5 DEF SearchInv
<1>8. QED
  BY <1>5, <1>6, <1>7 DEF ExploreUnion

\* The stack is empty: no rejected selection cheaper than the best was left
\* out.
LEMMA StepExplored == ASSUME SearchInv, Explored PROVE SearchInv'
<1>1. /\ phase = "explore" /\ stack = <<>> /\ Finish(root, TRUE)
      /\ UNCHANGED <<problem, best, root, afterPacking>>
  BY DEF Explored, treeVars, packVars
<1>2. Typed /\ RootBounds /\ TreeHolds
  BY <1>1 DEF SearchInv
<1>3. Covered(problem, best, <<>>)
  BY <1>1, <1>2 DEF TreeHolds, Purpose
<1>4. phase' = "done" /\ ResultHolds'
  BY <1>1, <1>2, <1>3, FinishIsTrue DEF RootBounds
<1>5. RootBounds'
  BY <1>1, <1>2 DEF RootBounds
<1>6. QED
  BY <1>1, <1>2, <1>4, <1>5, SearchEnds

\* The candidates of a branch up to one of them.
LEMMA UpToOne ==
  ASSUME NEW S, NEW s \in Seq(S), NEW i \in 1 .. Len(s)
  PROVE  ToSet(SubSeq(s, 1, i)) = {s[j] : j \in 1 .. i}
<1>1. Len(SubSeq(s, 1, i)) = i /\ SubSeq(s, 1, i) \in Seq(S)
  OBVIOUS
<1>2. \A j \in 1 .. i : SubSeq(s, 1, i)[j] = s[j]
  OBVIOUS
<1>3. DOMAIN SubSeq(s, 1, i) = 1 .. i
  BY <1>1
<1>. DEFINE part == SubSeq(s, 1, i)
<1>. HIDE DEF part
<1>4. ToSet(part) = {part[j] : j \in 1 .. i}
  BY <1>3 DEF ToSet, part
<1>5. \A j \in 1 .. i : part[j] = s[j]
  BY <1>2 DEF part
<1>6. QED
  BY <1>4, <1>5 DEF part

\* Each child is a node, and each solution below the node lies below the child
\* of its first candidate in the branch.
LEMMA ChildrenCover ==
  ASSUME NEW p \in Problem, p = problem, stack \in Seq(NodeOf(p)), stack # <<>>,
         IsPacking(p, Node.included, Node.available, packing.blockers),
         packing.blockers # <<>>,
         Cardinality(Node.included) + Len(packing.blockers) <= p.max
  PROVE  /\ Children \in Seq(NodeOf(p))
         /\ \A S \in SolutionsOf(p) :
              Below(Head(stack), S) => \E i \in 1 .. Len(Children) : Below(Children[i], S)
<1>. DEFINE I    == Node.included
            V    == Node.available
            B    == packing.blockers
            D    == 1 .. Len(Branch)
            kid(i) == [included  |-> I \cup {Branch[i]},
                       available |-> V \ ToSet(SubSeq(Branch, 1, i))]
<1>1. /\ I \subseteq p.candidates /\ V \subseteq p.candidates /\ I \cap V = {}
      /\ I \in SUBSET Candidates /\ V \in SUBSET Candidates /\ Cardinality(I) \in Nat
  BY BelowHead DEF Node
<1>2. /\ B \in Seq(SUBSET Candidates) /\ \A i \in 1 .. Len(B) : B[i] # {}
      /\ \A i \in 1 .. Len(B) : B[i] \subseteq V
  BY DEF IsPacking
<1>3. PICK b \in 1 .. Len(B) : BranchBlocker = B[b]
  BY <1>2, BranchBlockerIsOne
<1>4. BranchBlocker \in SUBSET Candidates /\ BranchBlocker \subseteq V
  BY <1>2, <1>3
<1>5. /\ Branch \in Seq(BranchBlocker)
      /\ \A c \in BranchBlocker : \E n \in D : Branch[n] = c
  BY <1>4, BranchLists
<1>6. Len(Branch) \in Nat /\ DOMAIN Branch = D /\ \A i \in D : Branch[i] \in V
  BY <1>4, <1>5, SMTT(60)
<1>7. \A i \in D : ToSet(SubSeq(Branch, 1, i)) = {Branch[j] : j \in 1 .. i}
  BY <1>5, UpToOne
<1>8. Children = [i \in D |-> kid(i)]
  BY <1>6 DEF Children
<1>9. ASSUME NEW i \in D
      PROVE  kid(i) \in NodeOf(p)
  <2>1. Branch[i] \in V /\ Branch[i] \notin I
    BY <1>1, <1>6
  <2>2. Branch[i] \in ToSet(SubSeq(Branch, 1, i))
    BY <1>6, <1>7
  <2>3. Cardinality(I \cup {Branch[i]}) <= p.max
    <3>1. IsFiniteSet(I)
      BY <1>1, SearchAssumption, FS_Subset
    <3>2. Cardinality(I \cup {Branch[i]}) = Cardinality(I) + 1
      BY <2>1, <3>1, FS_AddElement
    <3>3. Len(B) \in Nat /\ Len(B) # 0
      BY <1>2
    <3>4. Cardinality(Candidates) \in Nat
      BY SearchAssumption, FS_CardinalityType
    <3>5. p.max \in Nat
      BY <3>4 DEF Problem
    <3>6. Cardinality(I) + Len(B) <= p.max
      OBVIOUS
    <3>. HIDE DEF I, B
    <3>7. QED
      BY <1>1, <3>2, <3>3, <3>5, <3>6
  <2>4. /\ I \cup {Branch[i]} \subseteq p.candidates
        /\ V \ ToSet(SubSeq(Branch, 1, i)) \subseteq p.candidates
        /\ (I \cup {Branch[i]}) \cap (V \ ToSet(SubSeq(Branch, 1, i))) = {}
    BY <1>1, <2>1, <2>2
  <2>. HIDE DEF I, V
  <2>5. QED
    BY <2>3, <2>4 DEF NodeOf
<1>10. Children \in Seq(NodeOf(p)) /\ Len(Children) = Len(Branch)
  <2>. HIDE DEF kid
  <2>1. QED
    BY <1>6, <1>8, <1>9
<1>11. ASSUME NEW S \in SolutionsOf(p), Below(Head(stack), S)
       PROVE  \E i \in D : Below(kid(i), S)
  <2>. DEFINE takes == {i \in D : Branch[i] \in S}
  <2>1. I \subseteq S /\ S \subseteq I \cup V /\ S \notin p.surviving
    BY <1>11 DEF Below, Node, SolutionsOf
  <2>2. S \cap B[b] # {}
    BY <1>1, <2>1, PackingBounds
  <2>3. PICK c \in BranchBlocker : c \in S
    BY <1>3, <2>2
  <2>4. takes # {} /\ takes \in SUBSET Nat
    BY <1>5, <1>6, <2>3, SMTT(60)
  <2>5. PICK i \in takes : \A j \in takes : i <= j
    <3>. HIDE DEF takes
    <3>1. QED
      BY <2>4, MinOfNaturals, Zenon
  <2>6. i \in D /\ Branch[i] \in S
    OBVIOUS
  <2>7. ASSUME NEW x \in S, x \notin I, x # Branch[i]
        PROVE  x \in V \ ToSet(SubSeq(Branch, 1, i))
    <3>. SUFFICES ASSUME x \in ToSet(SubSeq(Branch, 1, i)) PROVE FALSE
      BY <2>1, <2>7
    <3>1. PICK j \in 1 .. i : x = Branch[j]
      BY <1>7, <2>6
    <3>2. j \in D /\ i \in Nat
      BY <1>6, <2>6
    <3>3. j \in takes
      BY <3>1, <3>2
    <3>4. i <= j
      BY <2>5, <3>3
    <3>5. j = i
      BY <3>2, <3>4
    <3>6. QED
      BY <2>7, <3>1, <3>5
  <2>. HIDE DEF I, V
  <2>8. Below(kid(i), S)
    BY <2>1, <2>6, <2>7 DEF Below
  <2>9. QED
    BY <2>6, <2>8
<1>12. QED
  <2>1. \A i \in D : Children[i] = kid(i)
    BY <1>8
  <2>. HIDE DEF kid
  <2>2. QED
    BY <1>10, <1>11, <2>1

\* A node is left by its bound or branches on a blocker: every rejected
\* selection below it lies below one of its children.
LEMMA StepExploreBranch == ASSUME SearchInv, ExploreBranch PROVE SearchInv'
<1>. DEFINE p == problem
            k == packing
            I == Node.included
            V == Node.available
            bound == BoundOf(p, k.blockers)
            n == Len(k.blockers)
<1>1. phase = "bound" /\ UNCHANGED <<problem, best, root, afterPacking>>
  BY DEF ExploreBranch, packVars
<1>2. Typed /\ RootBounds /\ TreeHolds /\ PackingHolds /\ p \in Problem /\ IsBest(p, best)
  BY <1>1 DEF SearchInv, Typed
<1>3. stack \in Seq(NodeOf(p)) /\ Covered(p, best, stack) /\ stack # <<>>
  BY <1>1, <1>2 DEF TreeHolds, Purpose
<1>4. /\ k.included = I /\ k.available = V /\ IsPacking(p, I, V, k.blockers)
      /\ k.complete /\ k.blockers = <<>> => I \cup V \in p.surviving
  BY <1>1, <1>2 DEF PackingHolds, PackingOf, Purpose
<1>5. /\ I \cap V = {} /\ I \in SUBSET Candidates /\ V \in SUBSET Candidates
      /\ Cardinality(I) \in Nat /\ CostOf(p, I) \in Nat
  BY <1>2, <1>3, BelowHead DEF Node
<1>6. n \in Nat /\ bound \in Nat
  <2>1. k.blockers \in Seq(SUBSET Candidates) /\ \A i \in 1 .. Len(k.blockers) : k.blockers[i] # {}
    BY <1>4 DEF IsPacking
  <2>2. n \in Nat
    BY <2>1
  <2>3. bound \in Nat
    BY <1>2, <2>1, BoundIsUnits
  <2>4. QED
    BY <2>2, <2>3
<1>7. ASSUME NEW S \in SolutionsOf(p), Below(Head(stack), S)
      PROVE  /\ Cardinality(I) + n <= Cardinality(S)
             /\ CostOf(p, I) + bound <= CostOf(p, S)
             /\ I \cup V \notin p.surviving
  <2>1. I \subseteq S /\ S \subseteq I \cup V /\ S \notin p.surviving
    BY <1>7 DEF Below, Node, SolutionsOf
  <2>2. I \cup V \notin p.surviving
    <3>1. S \in SUBSET (I \cup V)
      BY <2>1
    <3>2. QED
      BY <1>2, <2>1, <3>1, Antitone
  <2>3. QED
    BY <1>2, <1>4, <1>5, <2>1, <2>2, PackingBounds
<1>8. CASE Stop
  BY <1>1, <1>2, <1>8, StepStop
<1>9. CASE /\ Pop
           /\ \/ Cardinality(I) + n > p.max
              \/ Reached(Cost(I) + BlockerBound(k.blockers))
  <2>1. stack' = Tail(stack) /\ phase' = "explore"
    BY <1>9 DEF Pop, Proceed
  <2>2. ASSUME NEW S \in SolutionsOf(p), Below(Head(stack), S)
        PROVE  ReachedIn(p, best, CostOf(p, S))
    <3>1. /\ CostOf(p, S) \in Nat /\ Cardinality(S) \in Nat /\ Cardinality(S) <= p.max
          /\ p.max \in Nat
      BY <1>2, SolutionFacts
    <3>2. Cardinality(I) + n <= Cardinality(S) /\ CostOf(p, I) + bound <= CostOf(p, S)
      BY <1>7, <2>2
    <3>3. CASE Cardinality(I) + n > p.max
      <4>. HIDE DEF p, I, n, bound
      <4>1. QED
        BY <1>5, <1>6, <3>1, <3>2, <3>3
    <3>4. CASE Reached(Cost(I) + BlockerBound(k.blockers))
      <4>1. ReachedIn(p, best, CostOf(p, I) + bound)
        BY <3>4, OfTheProblem DEF Reached, ReachedIn
      <4>2. CostOf(p, I) + bound \in Nat
        BY <1>5, <1>6
      <4>. HIDE DEF p, I, n, bound
      <4>3. QED
        BY <1>2, <3>1, <3>2, <4>1, <4>2, ReachedMore
    <3>5. QED
      BY <1>9, <3>3, <3>4
  <2>3. IsBest(p, best') /\ best' = best
    BY <1>1, <1>2
  <2>4. QED
    BY <1>1, <1>2, <1>3, <2>1, <2>2, <2>3, NodeLeft
<1>10. CASE /\ ~(Cardinality(I) + n > p.max)
            /\ k.complete /\ Proceed("explore")
            /\ stack' = (IF k.blockers = <<>> THEN <<>> ELSE Children) \o Tail(stack)
  <2>1. phase' = "explore"
    BY <1>10 DEF Proceed
  <2>2. IsBest(p, best') /\ best' = best
    BY <1>1, <1>2
  <2>3. CASE k.blockers = <<>>
    <3>1. stack' = Tail(stack)
      <4>1. Tail(stack) \in Seq(NodeOf(p))
        BY <1>3
      <4>2. <<>> \o Tail(stack) = Tail(stack)
        BY <4>1
      <4>3. QED
        BY <1>10, <2>3, <4>2
    <3>2. ASSUME NEW S \in SolutionsOf(p), Below(Head(stack), S)
          PROVE  ReachedIn(p, best, CostOf(p, S))
      BY <1>4, <1>7, <1>10, <2>3, <3>2
    <3>3. QED
      BY <1>1, <1>2, <1>3, <2>1, <2>2, <3>1, <3>2, NodeLeft
  <2>4. CASE k.blockers # <<>>
    <3>1. Cardinality(I) + n <= p.max
      <4>1. Cardinality(Candidates) \in Nat
        BY SearchAssumption, FS_CardinalityType
      <4>2. p.max \in Nat
        BY <1>2, <4>1 DEF Problem
      <4>. HIDE DEF p, I, n
      <4>3. QED
        BY <1>5, <1>6, <1>10, <4>2
    <3>2. /\ Children \in Seq(NodeOf(p))
          /\ \A S \in SolutionsOf(p) :
               Below(Head(stack), S) => \E i \in 1 .. Len(Children) : Below(Children[i], S)
      BY <1>2, <1>3, <1>4, <2>4, <3>1, ChildrenCover
    <3>3. /\ Children \o Tail(stack) \in Seq(NodeOf(p))
          /\ Covered(p, best, Children \o Tail(stack))
      BY <1>2, <1>3, <3>2, NodeBranches
    <3>4. stack' = Children \o Tail(stack)
      BY <1>10, <2>4
    <3>5. stack' \in Seq(NodeOf(p)) /\ Covered(p, best', stack')
      BY <2>2, <3>3, <3>4
    <3>6. QED
      BY <1>1, <1>2, <2>1, <2>2, <3>5, TreeGoesOn
  <2>5. QED
    BY <2>3, <2>4
<1>11. QED
  BY <1>8, <1>9, <1>10 DEF ExploreBranch

-----------------------------------------------------------------------------
(* What holds of every search *)

\* Every step of the search keeps the invariant.
LEMMA StepSearch == ASSUME SearchInv, SearchNext PROVE SearchInv'
BY StepEmpty, StepAll, StepPackBase, StepPackTrial, StepPackBlocker, StepRoot,
   StepGrowEvaluate, StepGrow, StepMinimize, StepMinimized, StepStartExplore,
   StepExploreUnion, StepExploreBranch, StepExplored DEF SearchNext

\* So does a step in which the search rests.
LEMMA StepNothing == ASSUME SearchInv, UNCHANGED searchVars PROVE SearchInv'
<1>1. UNCHANGED <<problem, best, stack, phase, packing, afterPacking, root, selected, result>>
  BY DEF searchVars, treeVars, greedyVars, packVars
<1>2. Purpose' = Purpose /\ Node' = Node
  BY <1>1 DEF Purpose, Node
<1>3. Typed' = Typed /\ RootBounds' = RootBounds
  BY <1>1 DEF Typed, RootBounds
<1>4. PackingHolds' = PackingHolds
  BY <1>1, <1>2 DEF PackingHolds
<1>5. GreedyHolds' = GreedyHolds /\ TreeHolds' = TreeHolds
  BY <1>1, <1>2 DEF GreedyHolds, TreeHolds
<1>6. ResultHolds <=> ResultHolds'
  <2>1. ResultHolds <=> (phase = "done" => ResultOf(problem, result))
    BY ResultIsOfProblem
  <2>2. ResultHolds' <=> (phase' = "done" => ResultOf(problem', result'))
    BY ResultIsOfNextProblem
  <2>3. QED
    BY <1>1, <2>1, <2>2
<1>7. QED
  BY <1>1, <1>3, <1>4, <1>5, <1>6 DEF SearchInv

(* What every step of a search keeps: the best selection is a solution, the *)
(* bound of the root is below every solution, a packing is one at each of   *)
(* its steps, the greedy selection is within the limit, and the tree covers *)
(* every solution that is cheaper than the best (minimize_antitone).        *)
THEOREM SearchInvariant == SearchSpec => []SearchInv
<1>1. SearchInit => SearchInv
  BY DEF SearchInit, SearchInv
<1>2. SearchInv /\ [Ask \/ SearchNext]_searchVars => SearchInv'
  BY StepAsk, StepSearch, StepNothing DEF Ask
<1>3. QED
  BY <1>1, <1>2, PTL DEF SearchSpec

(* The result of every search holds, however large the problem and wherever *)
(* a limit stopped it: an optimal selection is a cheapest one, an           *)
(* infeasible problem has no solution, and the bounds of a stopped search   *)
(* enclose every solution (finish_result).                                  *)
THEOREM SearchResultHolds == SearchSpec => []ResultHolds
<1>1. SearchInv => ResultHolds
  BY DEF SearchInv, ResultHolds
<1>2. QED
  BY <1>1, SearchInvariant, PTL

(* No pruning by size, cost or packing loses a solution: each costs at      *)
(* least as much as the best so far or lies below a node still to be        *)
(* explored (explore).                                                      *)
THEOREM NoSolutionMissed == SearchSpec => []NothingMissed
<1>1. SearchInv => NothingMissed
  <2>. SUFFICES ASSUME SearchInv, phase \in {"explore", "union", "base", "trial", "bound"},
                       stack # <<>>, NEW S \in Solutions
                PROVE  \/ Reached(Cost(S))
                       \/ \E i \in DOMAIN stack :
                            /\ stack[i].included \subseteq S
                            /\ S \subseteq stack[i].included \cup stack[i].available
    BY DEF NothingMissed
  <2>1. Typed /\ GreedyHolds /\ TreeHolds
    BY DEF SearchInv
  <2>2. Purpose \in {"explore", "union", "bound"}
    BY <2>1 DEF Typed, GreedyHolds, Purpose
  <2>3. stack \in Seq(NodeOf(problem)) /\ Covered(problem, best, stack)
    BY <2>1, <2>2 DEF TreeHolds
  <2>4. S \in SolutionsOf(problem)
    BY OfTheProblem
  <2>5. DOMAIN stack = 1 .. Len(stack)
    BY <2>3
  <2>6. Reached(Cost(S)) <=> ReachedIn(problem, best, CostOf(problem, S))
    <3>1. best # NoSelection => Cost(best[1]) = CostOf(problem, best[1])
      BY OfTheProblem
    <3>2. Cost(S) = CostOf(problem, S)
      BY OfTheProblem
    <3>3. QED
      BY <3>1, <3>2 DEF Reached, ReachedIn
  <2>7. QED
    BY <2>3, <2>4, <2>5, <2>6 DEF Covered, Below
<1>2. QED
  BY <1>1, SearchInvariant, PTL
=============================================================================
