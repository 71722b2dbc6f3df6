-------------------------- MODULE SearchArtifactProofs --------------------------
(****************************************************************************)
(* The builds of SearchArtifacts: the frontiers of the parts and the plan   *)
(* composed of them are right, and the checker of an artifact accepts only  *)
(* what is true, whatever claim, proof tree and antitone predicate it is    *)
(* given.                                                                   *)
(*                                                                          *)
(* A selection that is no worse than a claim would have a way down the      *)
(* proof tree that takes only candidates of it and leaves out none of them; *)
(* a longest such way ends at no leaf and at no branch.                     *)
(****************************************************************************)
EXTENDS SearchArtifacts, MonotoneSearchProofs

-----------------------------------------------------------------------------
(* Ways down a tree *)

\* What is taken and left one step further down.
LEMMA ChildTakes ==
  ASSUME NEW tree, NEW path \in Seq(Nat), NEW i \in Nat
  PROVE  /\ Taken(tree, Append(path, i)) = Taken(tree, path) \cup {tree[path].order[i]}
         /\ Open(tree, Append(path, i)) =
              Open(tree, path) \ ToSet(SubSeq(tree[path].order, 1, i))
<1>. DEFINE q == Append(path, i)
            n == Len(path)
<1>1. /\ n \in Nat /\ DOMAIN path = 1 .. n /\ DOMAIN q = 1 .. (n + 1)
      /\ q[n + 1] = i /\ \A k \in 1 .. n : q[k] = path[k]
  OBVIOUS
<1>2. \A k \in 1 .. n : Above(q, k) = Above(path, k)
  BY <1>1 DEF Above
<1>3. Above(q, n + 1) = path
  BY <1>1 DEF Above
<1>4. 1 .. (n + 1) = (1 .. n) \cup {n + 1}
  BY <1>1
<1>. HIDE DEF q, n
<1>. DEFINE taken(r, k) == tree[Above(r, k)].order[r[k]]
            gone(r, k)  == ToSet(SubSeq(tree[Above(r, k)].order, 1, r[k]))
<1>5. \A k \in 1 .. n : taken(q, k) = taken(path, k) /\ gone(q, k) = gone(path, k)
  BY <1>1, <1>2
<1>6. taken(q, n + 1) = tree[path].order[i]
  BY <1>1, <1>3
<1>7. gone(q, n + 1) = ToSet(SubSeq(tree[path].order, 1, i))
  BY <1>1, <1>3
<1>8. /\ Taken(tree, q) = {taken(q, k) : k \in DOMAIN q}
      /\ Taken(tree, path) = {taken(path, k) : k \in DOMAIN path}
      /\ Open(tree, q) = Candidates \ UNION {gone(q, k) : k \in DOMAIN q}
      /\ Open(tree, path) = Candidates \ UNION {gone(path, k) : k \in DOMAIN path}
  BY DEF Taken, Open
<1>. HIDE DEF taken, gone
<1>9. Taken(tree, q) = Taken(tree, path) \cup {tree[path].order[i]}
  BY <1>1, <1>4, <1>5, <1>6, <1>8
<1>10. {gone(q, k) : k \in DOMAIN q} =
       {gone(path, k) : k \in DOMAIN path} \cup {ToSet(SubSeq(tree[path].order, 1, i))}
  BY <1>1, <1>4, <1>5, <1>7
<1>11. Open(tree, q) = Open(tree, path) \ ToSet(SubSeq(tree[path].order, 1, i))
  BY <1>8, <1>10
<1>12. QED
  BY <1>9, <1>11 DEF q

\* Nothing is taken at the root, and everything is left.
LEMMA RootTakes ==
  ASSUME NEW tree
  PROVE  Taken(tree, <<>>) = {} /\ Open(tree, <<>>) = Candidates
<1>1. DOMAIN <<>> = {}
  OBVIOUS
<1>2. QED
  BY <1>1 DEF Taken, Open

\* A way down to a node that takes candidates of S only and leaves none out.
Follows(tree, path, S) ==
  /\ path \in Seq(Nat) /\ path \in DOMAIN tree
  /\ Taken(tree, path) \subseteq S /\ S \subseteq Taken(tree, path) \cup Open(tree, path)
  /\ Taken(tree, path) \cap Open(tree, path) = {}
  /\ Cardinality(Taken(tree, path)) = Len(path)

\* The blockers that a verifier accepts are a packing.
LEMMA VerifiedIsPacking ==
  ASSUME NEW p, NEW I, NEW V, NEW B, BlockersVerify(p.surviving, I, V, B)
  PROVE  IsPacking(p, I, V, B)
<1>1. B \in Seq(SUBSET Candidates) /\ DOMAIN B = 1 .. Len(B) /\ Len(B) \in Nat
  BY DEF BlockersVerify
<1>2. \A i \in 1 .. Len(B) :
         /\ B[i] # {} /\ B[i] \subseteq V /\ I \cup (V \ B[i]) \in p.surviving
         /\ \A j \in 1 .. i - 1 : B[j] \cap B[i] = {}
  BY <1>1 DEF BlockersVerify
<1>3. ASSUME NEW i \in 1 .. Len(B), NEW j \in 1 .. Len(B), i # j
      PROVE  B[i] \cap B[j] = {}
  <2>1. i \in 1 .. j - 1 \/ j \in 1 .. i - 1
    BY <1>1, <1>3
  <2>2. QED
    BY <1>2, <2>1
<1>4. QED
  BY <1>1, <1>2, <1>3 DEF IsPacking

\* From a branch the way of a selection that the predicate rejects goes on.
LEMMA BranchGoesOn ==
  ASSUME NEW p \in Problem, NEW tree, NEW path, NEW S \in SUBSET Candidates,
         S \notin p.surviving, Follows(tree, path, S),
         Canonical(tree[path].order),
         BlockersVerify(p.surviving, Taken(tree, path), Open(tree, path),
                        <<ToSet(tree[path].order)>>),
         \A i \in DOMAIN tree[path].order : Append(path, i) \in DOMAIN tree
  PROVE  \E i \in Nat : Follows(tree, Append(path, i), S)
<1>. DEFINE order == tree[path].order
            I     == Taken(tree, path)
            V     == Open(tree, path)
            B     == ToSet(order)
<1>1. order \in Seq(Candidates) /\ Len(order) \in Nat /\ DOMAIN order = 1 .. Len(order)
  BY DEF Canonical
<1>2. /\ I \subseteq S /\ S \subseteq I \cup V /\ I \cap V = {} /\ Cardinality(I) = Len(path)
      /\ path \in Seq(Nat)
  BY DEF Follows
<1>3. B = {order[i] : i \in 1 .. Len(order)}
  BY <1>1 DEF ToSet
<1>4. B \subseteq V /\ I \cup (V \ B) \in p.surviving
  <2>1. 1 \in DOMAIN <<B>> /\ <<B>>[1] = B
    OBVIOUS
  <2>2. QED
    BY <2>1 DEF BlockersVerify
<1>5. S \cap B # {}
  <2>. SUFFICES ASSUME S \cap B = {} PROVE FALSE
    OBVIOUS
  <2>1. S \in SUBSET (I \cup (V \ B))
    BY <1>2
  <2>2. QED
    BY <1>4, <2>1, Antitone
<1>. DEFINE hits == {i \in 1 .. Len(order) : order[i] \in S}
<1>6. hits \in SUBSET Nat /\ hits # {}
  BY <1>1, <1>3, <1>5
<1>. DEFINE i == Min(hits)
<1>7. i \in hits /\ \A j \in hits : i <= j
  BY <1>6, MinOfNaturals
<1>8. i \in 1 .. Len(order) /\ order[i] \in S /\ i \in Nat
  BY <1>1, <1>7
<1>9. ToSet(SubSeq(order, 1, i)) = {order[j] : j \in 1 .. i}
  <2>. DEFINE sub == SubSeq(order, 1, i)
  <2>1. sub \in Seq(Candidates) /\ DOMAIN sub = 1 .. i /\ \A j \in 1 .. i : sub[j] = order[j]
    <3>. HIDE DEF order, i
    <3>1. QED
      BY <1>1, <1>8
  <2>2. ToSet(sub) = {sub[j] : j \in DOMAIN sub}
    BY DEF ToSet
  <2>. HIDE DEF sub, i
  <2>3. QED
    BY <2>1, <2>2 DEF sub
<1>10. \A j \in 1 .. i : order[j] \in S => j = i
  BY <1>1, <1>7, <1>8
<1>. HIDE DEF i, hits
<1>. DEFINE q == Append(path, i)
<1>11. /\ Taken(tree, q) = I \cup {order[i]}
       /\ Open(tree, q) = V \ {order[j] : j \in 1 .. i}
  BY <1>2, <1>8, <1>9, ChildTakes
<1>12. order[i] \in B /\ order[i] \in V /\ order[i] \notin I
  BY <1>2, <1>3, <1>4, <1>8
<1>13. q \in Seq(Nat) /\ Len(q) = Len(path) + 1
  BY <1>2, <1>8
<1>14. q \in DOMAIN tree
  BY <1>1, <1>8
<1>15. Cardinality(Taken(tree, q)) = Len(q)
  <2>1. IsFiniteSet(I)
    BY <1>2, SearchAssumption, FS_Subset
  <2>2. Cardinality(I \cup {order[i]}) = Cardinality(I) + 1
    BY <1>12, <2>1, FS_AddElement
  <2>3. QED
    BY <1>2, <1>11, <1>13, <2>2
<1>. HIDE DEF q, B, V, I, order
<1>16. Taken(tree, q) \subseteq S
  BY <1>2, <1>8, <1>11
<1>17. S \subseteq Taken(tree, q) \cup Open(tree, q)
  BY <1>2, <1>8, <1>10, <1>11
<1>18. Taken(tree, q) \cap Open(tree, q) = {}
  <2>1. order[i] \in {order[j] : j \in 1 .. i}
    BY <1>8
  <2>2. QED
    BY <1>2, <1>11, <2>1
<1>19. Follows(tree, q, S)
  BY <1>13, <1>14, <1>15, <1>16, <1>17, <1>18 DEF Follows
<1>20. QED
  BY <1>8, <1>19 DEF q

\* Costs depend on the prices only.
CostWith(prices, S)  == MapThenSumSet(LAMBDA c : prices[c], S)
BoundWith(prices, B) == MapThenSumSet(LAMBDA i : Min({prices[c] : c \in B[i]}), DOMAIN B)

\* The costs of a claim that is checked are those of the problem.
LEMMA SameCosts ==
  ASSUME NEW p, p.cost = problem.cost
  PROVE  /\ \A S : Cost(S) = CostOf(p, S)
         /\ \A B : BlockerBound(B) = BoundOf(p, B)
<1>1. /\ \A S : Cost(S) = CostWith(problem.cost, S)
      /\ \A B : BlockerBound(B) = BoundWith(problem.cost, B)
  BY DEF Cost, CostWith, BlockerBound, Cheapest, BoundWith
<1>2. /\ \A S : CostOf(p, S) = CostWith(p.cost, S)
      /\ \A B : BoundOf(p, B) = BoundWith(p.cost, B)
  BY DEF CostOf, CostWith, BoundOf, CheapestOf, BoundWith
<1>3. QED
  BY <1>1, <1>2

\* A node that verifies is a branch, where a solution that costs less than the
\* cutoff comes by.
LEMMA NoLeafOnTheWay ==
  ASSUME NEW p \in Problem, p.cost = problem.cost,
         NEW tree, NEW path, NEW cutoff, NEW S \in SolutionsOf(p),
         Follows(tree, path, S), NodeVerifies(tree, path, p.surviving, p.max, cutoff),
         cutoff # NoBound => ~(cutoff <= CostOf(p, S)),
         cutoff \in Nat \cup {NoBound}
  PROVE  /\ Canonical(tree[path].order)
         /\ BlockersVerify(p.surviving, Taken(tree, path), Open(tree, path),
                           <<ToSet(tree[path].order)>>)
         /\ \A i \in DOMAIN tree[path].order : Append(path, i) \in DOMAIN tree
<1>. DEFINE I == Taken(tree, path)
            V == Open(tree, path)
            k == tree[path].kind
            B == tree[path].blockers
<1>1. I \subseteq S /\ S \subseteq I \cup V /\ I \cap V = {}
  BY DEF Follows
<1>2. /\ S \in SUBSET Candidates /\ S \notin p.surviving /\ Cardinality(S) <= p.max
      /\ CostOf(p, S) \in Nat /\ Cardinality(S) \in Nat /\ IsFiniteSet(S)
  BY SolutionFacts
<1>3. I \in SUBSET Candidates /\ V \in SUBSET Candidates
  BY <1>1, <1>2 DEF Open
<1>4. CostOf(p, I) \in Nat /\ CostOf(p, I) <= CostOf(p, S) /\ Cardinality(I) \in Nat
  BY <1>1, <1>2, <1>3, CostIsUnits, CostGrows, FS_CardinalityType
<1>5. p.max \in Nat
  <2>1. Cardinality(Candidates) \in Nat
    BY SearchAssumption, FS_CardinalityType
  <2>2. QED
    BY <2>1 DEF Problem
<1>6. ASSUME k = "cost", cutoff # NoBound, Cost(I) >= cutoff
      PROVE  FALSE
  <2>1. CostOf(p, I) >= cutoff
    BY <1>6, SameCosts
  <2>. HIDE DEF I
  <2>2. QED
    BY <1>2, <1>4, <1>6, <2>1
<1>7. ASSUME I \cup V \in p.surviving
      PROVE  FALSE
  BY <1>1, <1>2, <1>7, Antitone
<1>8. ASSUME Cardinality(I) = p.max, I \in p.surviving
      PROVE  FALSE
  <2>1. I = S
    <3>1. IsFiniteSet(S) /\ I \subseteq S
      BY <1>1, <1>2
    <3>2. Cardinality(S) <= Cardinality(I) /\ Cardinality(I) <= Cardinality(S)
      BY <1>2, <1>8, <3>1, FS_Subset
    <3>3. Cardinality(I) = Cardinality(S) => I = S
      BY <3>1, FS_Subset
    <3>4. QED
      BY <1>2, <1>4, <3>2, <3>3
  <2>2. QED
    BY <1>2, <1>8, <2>1
<1>9. ASSUME BlockersVerify(p.surviving, I, V, B), BoundCloses(k, p.max, cutoff, I, B)
      PROVE  FALSE
  <2>1. IsPacking(p, I, V, B)
    BY <1>9, VerifiedIsPacking
  <2>2. /\ Cardinality(I) + Len(B) <= Cardinality(S)
        /\ CostOf(p, I) + BoundOf(p, B) <= CostOf(p, S)
    BY <1>1, <1>2, <1>3, <2>1, PackingBounds
  <2>3. B \in Seq(SUBSET Candidates) /\ \A i \in 1 .. Len(B) : B[i] # {}
    BY <2>1 DEF IsPacking
  <2>4. BoundOf(p, B) \in Nat /\ Len(B) \in Nat
    <3>1. Len(B) \in Nat
      BY <2>3
    <3>. HIDE DEF B
    <3>2. BoundOf(p, B) \in Nat
      BY <2>3, BoundIsUnits
    <3>3. QED
      BY <3>1, <3>2
  <2>5. BlockerBound(B) = BoundOf(p, B)
    BY SameCosts
  <2>6. CASE Cardinality(I) + Len(B) > p.max
    <3>. HIDE DEF I, B
    <3>1. QED
      BY <1>2, <1>4, <1>5, <2>2, <2>4, <2>6
  <2>7. CASE cutoff # NoBound /\ Cost(I) + BlockerBound(B) >= cutoff
    <3>1. CostOf(p, I) + BoundOf(p, B) >= cutoff
      BY <2>5, <2>7, SameCosts
    <3>. HIDE DEF I, B
    <3>2. QED
      BY <1>2, <1>4, <2>2, <2>4, <2>7, <3>1
  <2>8. QED
    BY <1>9, <2>6, <2>7 DEF BoundCloses
<1>10. QED
  BY <1>6, <1>7, <1>8, <1>9 DEF NodeVerifies

\* A tree that verifies leaves no solution that costs less than the cutoff.
LEMMA TreeCloses ==
  ASSUME NEW p \in Problem, p.cost = problem.cost, NEW tree,
         NEW cutoff \in Nat \cup {NoBound}, TreeVerifies(tree, p.surviving, p.max, cutoff),
         NEW S \in SolutionsOf(p)
  PROVE  cutoff # NoBound /\ cutoff <= CostOf(p, S)
<1>. SUFFICES ASSUME cutoff # NoBound => ~(cutoff <= CostOf(p, S))
              PROVE  FALSE
  OBVIOUS
<1>1. /\ S \in SUBSET Candidates /\ S \notin p.surviving /\ IsFiniteSet(S)
      /\ Cardinality(S) \in Nat
  BY SolutionFacts
<1>. DEFINE Missing(path) == Cardinality(S) - Len(path)
            missing == {m \in Nat : \E path \in Seq(Nat) : Follows(tree, path, S) /\ m = Missing(path)}
<1>2. ASSUME NEW path \in Seq(Nat), Follows(tree, path, S)
      PROVE  Missing(path) \in missing
  <2>1. Taken(tree, path) \subseteq S /\ Cardinality(Taken(tree, path)) = Len(path)
    BY <1>2 DEF Follows
  <2>2. Len(path) <= Cardinality(S) /\ Len(path) \in Nat
    BY <1>1, <2>1, FS_Subset
  <2>3. QED
    BY <1>1, <1>2, <2>2
<1>3. Follows(tree, <<>>, S)
  <2>1. Taken(tree, <<>>) = {} /\ Open(tree, <<>>) = Candidates
    BY RootTakes
  <2>2. Cardinality({}) = 0 /\ Len(<<>>) = 0 /\ <<>> \in Seq(Nat)
    BY FS_EmptySet
  <2>3. QED
    BY <1>1, <2>1, <2>2 DEF Follows, TreeVerifies
<1>4. missing \in SUBSET Nat /\ missing # {}
  <2>1. <<>> \in Seq(Nat)
    OBVIOUS
  <2>2. QED
    BY <1>2, <1>3, <2>1
<1>5. Min(missing) \in missing /\ \A m \in missing : Min(missing) <= m
  BY <1>4, MinOfNaturals
<1>6. PICK path \in Seq(Nat) : Follows(tree, path, S) /\ Min(missing) = Missing(path)
  BY <1>5
<1>7. NodeVerifies(tree, path, p.surviving, p.max, cutoff)
  BY <1>6 DEF TreeVerifies, Follows
<1>8. PICK i \in Nat : Follows(tree, Append(path, i), S)
  BY <1>1, <1>6, <1>7, NoLeafOnTheWay, BranchGoesOn
<1>9. Missing(Append(path, i)) \in missing
  <2>1. Append(path, i) \in Seq(Nat)
    BY <1>6
  <2>2. QED
    BY <1>2, <1>8, <2>1
<1>10. Missing(path) <= Missing(Append(path, i))
  BY <1>5, <1>6, <1>9
<1>11. Len(path) \in Nat /\ Len(Append(path, i)) = Len(path) + 1
  BY <1>6
<1>12. QED
  BY <1>1, <1>10, <1>11

-----------------------------------------------------------------------------
(* Claims *)

\* The problem that a verifier checks a claim against.
CheckedProblem(surviving, max) ==
  [candidates |-> Candidates, cost |-> problem.cost, max |-> max, surviving |-> surviving,
   oracleCalls |-> 1, searchNodes |-> 1]

\* What the criterion of a call may be: more actions never break it.
Predicate(surviving) ==
  surviving \in SUBSET SUBSET Candidates /\ \A S \in surviving : SUBSET S \subseteq surviving

\* The problem that a claim is checked against is one of the search.
LEMMA CheckedIsProblem ==
  ASSUME problem.cost \in [Candidates -> Nat \ {0}], NEW surviving, Predicate(surviving),
         NEW max \in 0 .. Cardinality(Candidates)
  PROVE  /\ CheckedProblem(surviving, max) \in Problem
         /\ CheckedProblem(surviving, max).cost = problem.cost
         /\ CheckedProblem(surviving, max).max = max
         /\ CheckedProblem(surviving, max).surviving = surviving
         /\ SolutionsOf(CheckedProblem(surviving, max)) =
              {S \in (SUBSET Candidates) \ surviving : Cardinality(S) <= max}
<1>1. Cardinality(Candidates) \in Nat
  BY SearchAssumption, FS_CardinalityType
<1>2. QED
  BY <1>1 DEF CheckedProblem, Predicate, Problem, SolutionsOf

\* A claim that a checker accepts is true, whatever made it.
LEMMA AcceptedIsTrue ==
  ASSUME problem.cost \in [Candidates -> Nat \ {0}], NEW surviving, Predicate(surviving),
         NEW max \in 0 .. Cardinality(Candidates),
         NEW c, Verifies(c, surviving, max, TRUE)
  PROVE  ClaimTrue(c, surviving, max)
<1>. DEFINE p     == CheckedProblem(surviving, max)
            plans == {S \in (SUBSET Candidates) \ surviving : Cardinality(S) <= max}
<1>1. /\ p \in Problem /\ p.cost = problem.cost /\ p.max = max /\ p.surviving = surviving
      /\ SolutionsOf(p) = plans
  BY CheckedIsProblem
<1>2. \A S : Cost(S) = CostOf(p, S)
  BY <1>1, SameCosts
<1>3. \A S \in SUBSET Candidates : Cost(S) \in Nat
  BY <1>1, <1>2, CostIsUnits
<1>4. /\ c.selected \in SUBSET Candidates /\ Cardinality(c.selected) <= max
      /\ BlockersVerify(surviving, {}, Candidates, c.blockers)
      /\ StatusVerifies(c, surviving, max, TRUE)
  BY DEF Verifies
<1>5. ASSUME c.status = "optimal"
      PROVE  c.selected \in plans /\ c.upper = LeastCost(plans)
  <2>1. /\ c.selected \notin surviving /\ c.upper = Cost(c.selected)
        /\ TreeVerifies(c.proof, surviving, max, c.upper)
    BY <1>4, <1>5 DEF StatusVerifies
  <2>2. c.selected \in plans
    BY <1>4, <2>1
  <2>3. c.upper \in Nat
    BY <1>3, <1>4, <2>1
  <2>4. ASSUME NEW S \in plans
        PROVE  c.upper <= Cost(S)
    <3>1. S \in SolutionsOf(p) /\ TreeVerifies(c.proof, p.surviving, p.max, c.upper)
      BY <1>1, <2>1
    <3>2. c.upper <= CostOf(p, S)
      BY <1>1, <2>3, <3>1, TreeCloses
    <3>3. QED
      BY <1>2, <3>2
  <2>. DEFINE costs == {Cost(S) : S \in plans}
  <2>5. costs \in SUBSET Nat /\ c.upper \in costs /\ \A n \in costs : c.upper <= n
    BY <1>3, <2>1, <2>2, <2>4
  <2>6. LeastCost(plans) = Min(costs)
    BY <2>2 DEF LeastCost
  <2>. HIDE DEF costs
  <2>7. Min(costs) \in costs /\ \A n \in costs : Min(costs) <= n
    BY <2>5, MinOfNaturals
  <2>8. Min(costs) <= c.upper /\ c.upper <= Min(costs) /\ Min(costs) \in Nat
    BY <2>5, <2>7
  <2>9. c.upper = Min(costs)
    BY <2>3, <2>8
  <2>10. QED
    BY <2>2, <2>6, <2>9
<1>6. ASSUME c.status = "infeasible"
      PROVE  plans = {}
  <2>. SUFFICES ASSUME NEW S \in plans PROVE FALSE
    OBVIOUS
  <2>1. TreeVerifies(c.proof, surviving, max, NoBound)
    BY <1>4, <1>6 DEF StatusVerifies
  <2>2. S \in SolutionsOf(p) /\ TreeVerifies(c.proof, p.surviving, p.max, NoBound)
    BY <1>1, <2>1
  <2>3. QED
    BY <1>1, <2>2, TreeCloses
<1>7. ASSUME c.status = "incomplete", call.kind = "coverage", NEW S \in plans
      PROVE  c.lower <= Cost(S)
  <2>1. c.lower = BlockerBound(c.blockers)
    BY <1>4, <1>7 DEF StatusVerifies
  <2>2. IsPacking(p, {}, Candidates, c.blockers)
    BY <1>1, <1>4, VerifiedIsPacking
  <2>3. S \in SUBSET Candidates /\ S \notin p.surviving
    BY <1>1, <1>7
  <2>4. CostOf(p, {}) + BoundOf(p, c.blockers) <= CostOf(p, S)
    BY <1>1, <2>2, <2>3, PackingBounds
  <2>5. c.blockers \in Seq(SUBSET Candidates) /\ \A i \in 1 .. Len(c.blockers) : c.blockers[i] # {}
    BY <2>2 DEF IsPacking
  <2>6. BoundOf(p, c.blockers) \in Nat
    BY <1>1, <2>5, BoundIsUnits
  <2>7. BlockerBound(c.blockers) = BoundOf(p, c.blockers) /\ CostOf(p, {}) = 0
    BY <1>1, SameCosts, NothingIsFree
  <2>8. QED
    BY <1>2, <2>1, <2>4, <2>6, <2>7
<1>8. ASSUME c.status = "incomplete", c.upper # NoBound
      PROVE  c.selected \in plans /\ Cost(c.selected) = c.upper
  BY <1>4, <1>8 DEF StatusVerifies
<1>9. QED
  BY <1>5, <1>6, <1>7, <1>8 DEF ClaimTrue

-----------------------------------------------------------------------------
(* The invariant *)

Price(S) == CostWith(call.cost, S)

\* The limits of a search are what the searches before it have left, and it
\* keeps to them.
BudgetHolds ==
  /\ spent \in [calls : 0 .. call.oracleCalls, nodes : 0 .. call.searchNodes]
  /\ stage \in {"whole", "parts"} =>
       /\ IsFiniteSet(known) /\ Cardinality(known) \in 0 .. problem.oracleCalls
       /\ nodes \in 0 .. problem.searchNodes

\* The plans of a part, none of them needless, for some numbers of activations.
Plans(part, plans) ==
  /\ \A q \in plans : q = [selected |-> q.selected, cost |-> Price(q.selected)]
  /\ {q.selected : q \in plans} \subseteq PlansWithin(part, call.max)
  /\ \A q, r \in plans : q # r => ~Dominates(q, r)

Answered(part, plans, k) ==
  \A S \in PlansWithin(part, k) : \E q \in plans : Size(q) <= k /\ q.cost <= Price(S)

\* The parts that are done have an answer for every number of activations.
Done(fs) ==
  /\ fs \in Seq(SUBSET [selected : SUBSET Candidates, cost : Nat])
  /\ Len(fs) <= Len(Parts)
  /\ \A i \in 1 .. Len(fs) :
       /\ Plans(Parts[i], fs[i])
       /\ \A k \in 0 .. call.max : Answered(Parts[i], fs[i], k)

\* The part under way has one for those below its limit, and from its bound on.
Progress(part, f) ==
  /\ f.limit \in Nat /\ f.bound \in 0 .. call.max
  /\ Plans(part, f.plans)
  /\ \A k \in 0 .. call.max :
       k < f.limit \/ f.bound <= k => Answered(part, f.plans, k)

LimitOf(f) == IF f.limit = NoBound THEN call.max ELSE f.limit

Searched(part, f, p, work) ==
  /\ p = ProblemOf(part, LimitOf(f), work)
  /\ f = FreshFrontier \/ (Progress(part, f) /\ f.limit < f.bound)

UnderWay(fs, f, p, work) ==
  /\ Len(fs) < Len(Parts)
  /\ Searched(Parts[Len(fs) + 1], f, p, work)

WholeUnderWay == problem = ProblemOf(Whole, call.max, NoWork)

PartsDone    == Done(frontiers)
Limit        == LimitOf(frontier)
PartUnderWay == UnderWay(frontiers, frontier, problem, spent)

\* A search that is done is done in one of three ways.
StatusKnown == phase = "done" => result.status \in {"optimal", "infeasible", "incomplete"}

ArtifactInv ==
  /\ call \in Calls
  /\ stage \in {"idle", "whole", "parts", "stopped", "composed", "built"}
  /\ stage = "idle" => frontiers = <<>> /\ frontier = FreshFrontier
  /\ stage # "idle" => phase # "idle" /\ problem.cost = call.cost
  /\ stage = "whole" => WholeUnderWay
  /\ stage = "parts" => PartUnderWay
  /\ stage = "composed" => Len(frontiers) = Len(Parts)
  /\ StatusKnown
  /\ BudgetHolds
  /\ PartsDone

-----------------------------------------------------------------------------
(* Calls and the problems of their parts *)

\* What the assumption on the calls says of one.
LEMMA CallFacts ==
  ASSUME call \in Calls
  PROVE  /\ call.max \in 0 .. Cardinality(Candidates) /\ call.max \in Nat
         /\ Cardinality(Candidates) \in Nat
         /\ call.cost \in [Candidates -> Nat \ {0}]
         /\ call.oracleCalls \in Nat \ {0} /\ call.searchNodes \in Nat \ {0}
         /\ Whole.states = 1 .. Len(call.needs) /\ Len(call.needs) \in Nat \ {0}
         /\ \A a \in Candidates : call.states[a] # {} /\ call.states[a] \subseteq Whole.states
         /\ \A s \in Whole.states : \A R \in call.needs[s] :
              R \subseteq {a \in Candidates : s \in call.states[a]}
<1>1. IsCall(call)
  BY CallsAssumption
<1>2. Cardinality(Candidates) \in Nat
  BY SearchAssumption, FS_CardinalityType
<1>3. call.needs \in Seq(SUBSET SUBSET Candidates) /\ call.needs # <<>>
  BY <1>1 DEF IsCall
<1>4. DOMAIN call.needs = 1 .. Len(call.needs) /\ Len(call.needs) \in Nat /\ Len(call.needs) # 0
  BY <1>3
<1>5. Whole.states = DOMAIN call.needs
  BY DEF Whole
<1>6. QED
  BY <1>1, <1>2, <1>4, <1>5 DEF IsCall

\* The smaller of two numbers.
LEMMA MinOfTwo ==
  ASSUME NEW m \in Nat, NEW n \in Nat
  PROVE  Min({m, n}) \in Nat /\ Min({m, n}) <= m /\ Min({m, n}) <= n /\ Min({m, n}) \in {m, n}
<1>1. {m, n} \in SUBSET Nat /\ {m, n} # {}
  OBVIOUS
<1>2. Min({m, n}) \in {m, n} /\ \A k \in {m, n} : Min({m, n}) <= k
  BY <1>1, MinOfNaturals
<1>3. QED
  BY <1>2

\* More actions meet what fewer do.
LEMMA PartIsPredicate ==
  ASSUME NEW part, part.actions \subseteq Candidates
  PROVE  Predicate(SurvivingIn(part))
<1>1. ASSUME NEW S \in SurvivingIn(part), NEW T \in SUBSET S
      PROVE  T \in SurvivingIn(part)
  <2>1. S \in SUBSET part.actions
    BY DEF SurvivingIn
  <2>2. PICK s \in part.states : ~Holds(s, S)
    BY DEF SurvivingIn
  <2>3. ~Holds(s, T)
    BY <2>2 DEF Holds
  <2>4. QED
    BY <2>1, <2>3 DEF SurvivingIn
<1>2. SurvivingIn(part) \in SUBSET SUBSET Candidates
  BY DEF SurvivingIn
<1>3. QED
  BY <1>1, <1>2 DEF Predicate

\* The search of a part looks for its plans within the limit.
LEMMA PartIsProblem ==
  ASSUME call \in Calls, NEW part, part.actions \subseteq Candidates, NEW limit \in Nat,
         NEW work \in [calls : 0 .. call.oracleCalls - 1, nodes : 0 .. call.searchNodes - 1]
  PROVE  LET p == ProblemOf(part, limit, work) IN
         /\ p \in Problem
         /\ p.cost = call.cost
         /\ p.oracleCalls = call.oracleCalls - work.calls
         /\ p.searchNodes = call.searchNodes - work.nodes
         /\ SolutionsOf(p) = PlansWithin(part, limit)
<1>. DEFINE p     == ProblemOf(part, limit, work)
            size  == Cardinality(part.actions)
            least == Min({limit, size})
<1>1. IsFiniteSet(part.actions) /\ size \in Nat /\ size <= Cardinality(Candidates)
  BY SearchAssumption, FS_Subset, FS_CardinalityType
<1>2. least \in Nat /\ least <= limit /\ least <= size /\ least \in {limit, size}
  BY <1>1, MinOfTwo
<1>3. /\ p.candidates = part.actions /\ p.cost = call.cost /\ p.max = least
      /\ p.surviving = SurvivingIn(part)
      /\ p.oracleCalls = call.oracleCalls - work.calls
      /\ p.searchNodes = call.searchNodes - work.nodes
  BY DEF ProblemOf
<1>4. /\ call.oracleCalls - work.calls \in Nat \ {0}
      /\ call.searchNodes - work.nodes \in Nat \ {0}
  BY CallFacts
<1>5. p \in Problem
  <2>1. least \in 0 .. Cardinality(Candidates)
    <3>. HIDE DEF least, size
    <3>1. QED
      BY <1>1, <1>2, CallFacts
  <2>2. /\ SurvivingIn(part) \in SUBSET SUBSET Candidates
        /\ \A S \in SurvivingIn(part) : SUBSET S \subseteq SurvivingIn(part)
    BY PartIsPredicate DEF Predicate
  <2>. HIDE DEF least, size
  <2>3. p \in [candidates : SUBSET Candidates, cost : [Candidates -> Nat \ {0}],
               max : 0 .. Cardinality(Candidates), surviving : SUBSET SUBSET Candidates,
               oracleCalls : Nat \ {0}, searchNodes : Nat \ {0}]
    BY <1>4, <2>1, <2>2, CallFacts DEF ProblemOf, least, size
  <2>. HIDE DEF p
  <2>4. p.max <= Cardinality(p.candidates)
    BY <1>2, <1>3 DEF size
  <2>5. QED
    BY <1>3, <2>2, <2>3, <2>4 DEF Problem
<1>6. \A S \in SUBSET part.actions : Cardinality(S) <= least <=> Cardinality(S) <= limit
  <2>. SUFFICES ASSUME NEW S \in SUBSET part.actions
                PROVE  Cardinality(S) <= least <=> Cardinality(S) <= limit
    OBVIOUS
  <2>1. Cardinality(S) \in Nat /\ Cardinality(S) <= size
    BY <1>1, FS_Subset, FS_CardinalityType
  <2>. HIDE DEF least, size
  <2>2. QED
    BY <1>1, <1>2, <2>1
<1>7. SolutionsOf(p) = PlansWithin(part, limit)
  <2>. HIDE DEF p, least
  <2>1. QED
    BY <1>3, <1>6 DEF SolutionsOf, PlansWithin
<1>8. QED
  BY <1>3, <1>5, <1>7

-----------------------------------------------------------------------------
(* The work of a search *)

\* A search learns no more than its calls allow.
LEMMA LearnsWithin ==
  ASSUME NEW S, Learn(S), IsFiniteSet(known), NEW limit \in Nat,
         problem.oracleCalls = limit, Cardinality(known) \in 0 .. limit
  PROVE  IsFiniteSet(known') /\ Cardinality(known') \in 0 .. limit
<1>1. CASE S \notin known /\ Cardinality(known) < limit
  <2>1. known' = known \cup {S}
    BY <1>1 DEF Learn, Answers
  <2>2. IsFiniteSet(known \cup {S}) /\ Cardinality(known \cup {S}) = Cardinality(known) + 1
    BY <1>1, FS_AddElement
  <2>3. QED
    BY <1>1, <2>1, <2>2
<1>2. CASE S \in known \/ ~(Cardinality(known) < limit)
  <2>1. known' = known
    BY <1>2 DEF Learn, Answers
  <2>2. QED
    BY <2>1
<1>3. QED
  BY <1>1, <1>2

\* What a step of a search leaves alone, and that it keeps to its limits.
LEMMA SearchKeeps ==
  ASSUME SearchNext, IsFiniteSet(known), NEW limit \in Nat, problem.oracleCalls = limit,
         Cardinality(known) \in 0 .. limit, NEW most \in Nat, problem.searchNodes = most,
         nodes \in 0 .. most
  PROVE  /\ problem' = problem
         /\ IsFiniteSet(known') /\ Cardinality(known') \in 0 .. limit
         /\ nodes' \in 0 .. most
<1>1. problem' = problem
  BY DEF SearchNext, EvaluateEmpty, EvaluateAll, PackBase, PackTrial, PackBlocker, Root,
         GrowEvaluate, Grow, Minimize, Minimized, StartExplore, ExploreUnion, ExploreBranch, Explored
<1>2. (\E S : Learn(S)) \/ known' = known
  <2>1. CASE EvaluateEmpty \/ EvaluateAll
    BY <2>1 DEF EvaluateEmpty, EvaluateAll
  <2>2. CASE PackBase \/ PackTrial
    BY <2>2 DEF PackBase, PackTrial
  <2>3. CASE GrowEvaluate \/ Minimize
    BY <2>3 DEF GrowEvaluate, Minimize
  <2>4. CASE StartExplore \/ ExploreUnion
    BY <2>4 DEF StartExplore, ExploreUnion
  <2>5. CASE PackBlocker \/ Root \/ Grow \/ Minimized \/ ExploreBranch \/ Explored
    BY <2>5 DEF PackBlocker, Root, Grow, Minimized, ExploreBranch, Explored
  <2>6. QED
    BY <2>1, <2>2, <2>3, <2>4, <2>5 DEF SearchNext
<1>3. nodes' = nodes \/ (nodes # most /\ nodes' = nodes + 1)
  <2>1. CASE StartExplore
    BY <2>1 DEF StartExplore
  <2>2. CASE ~StartExplore
    BY <2>2 DEF SearchNext, EvaluateEmpty, EvaluateAll, PackBase, PackTrial, PackBlocker, Root,
         GrowEvaluate, Grow, Minimize, Minimized, ExploreUnion, ExploreBranch, Explored, treeVars
  <2>3. QED
    BY <2>1, <2>2
<1>4. IsFiniteSet(known') /\ Cardinality(known') \in 0 .. limit
  BY <1>2, LearnsWithin
<1>5. nodes' \in 0 .. most
  BY <1>3
<1>6. QED
  BY <1>1, <1>4, <1>5

-----------------------------------------------------------------------------
(* Parts *)

Blocks          == {BlockOf(s) : s \in Whole.states}
BlocksBefore(B) == Cardinality({C \in Blocks : Min(C) < Min(B)})
BlockNumber(n)  == CHOOSE B \in Blocks : BlocksBefore(B) = n - 1

\* Blocks part the states, and no action counts in two of them.
LEMMA BlocksPart ==
  ASSUME call \in Calls
  PROVE  /\ \A s \in Whole.states : s \in BlockOf(s) /\ BlockOf(s) \subseteq Whole.states
         /\ \A s \in Whole.states : Unbroken(BlockOf(s))
         /\ \A s \in Whole.states : \A t \in BlockOf(s) : BlockOf(t) = BlockOf(s)
<1>. DEFINE W == Whole.states
<1>1. \A a \in Candidates : call.states[a] # {} /\ call.states[a] \subseteq W
  BY CallFacts
<1>2. ASSUME NEW s \in W
      PROVE  s \in BlockOf(s) /\ BlockOf(s) \subseteq W
  BY DEF BlockOf
<1>3. ASSUME NEW s \in W
      PROVE  Unbroken(BlockOf(s))
  <2>. SUFFICES ASSUME NEW a \in Candidates, NEW t \in call.states[a], t \in BlockOf(s),
                       NEW u \in call.states[a]
                PROVE  u \in BlockOf(s)
    BY DEF Unbroken
  <2>1. u \in W
    BY <1>1
  <2>2. ASSUME NEW B \in SUBSET W, Unbroken(B), s \in B
        PROVE  u \in B
    <3>1. t \in B
      BY <2>2 DEF BlockOf
    <3>2. QED
      BY <2>2, <3>1 DEF Unbroken
  <2>3. QED
    BY <2>1, <2>2 DEF BlockOf
<1>4. ASSUME NEW s \in W, NEW t \in BlockOf(s)
      PROVE  t \in W /\ BlockOf(t) \subseteq BlockOf(s)
  BY <1>2, <1>3 DEF BlockOf
<1>5. ASSUME NEW s \in W, NEW t \in BlockOf(s), s \notin BlockOf(t)
      PROVE  FALSE
  <2>. DEFINE rest == W \ BlockOf(t)
  <2>1. t \in W /\ Unbroken(BlockOf(t)) /\ t \in BlockOf(t)
    BY <1>2, <1>3, <1>4
  <2>2. Unbroken(rest)
    BY <1>1, <2>1 DEF Unbroken
  <2>3. rest \in SUBSET W /\ s \in rest
    BY <1>5
  <2>4. t \in rest
    BY <2>2, <2>3 DEF BlockOf
  <2>5. QED
    BY <2>1, <2>4
<1>6. ASSUME NEW s \in W, NEW t \in BlockOf(s)
      PROVE  BlockOf(t) = BlockOf(s)
  <2>1. t \in W /\ BlockOf(t) \subseteq BlockOf(s) /\ s \in BlockOf(t)
    BY <1>4, <1>5
  <2>2. BlockOf(s) \subseteq BlockOf(t)
    BY <1>4, <2>1
  <2>3. QED
    BY <2>1, <2>2
<1>7. QED
  BY <1>2, <1>3, <1>6

\* The blocks are numbered from 1 in the order of their first states.
LEMMA BlocksNumbered ==
  ASSUME call \in Calls
  PROVE  /\ IsFiniteSet(Blocks) /\ Cardinality(Blocks) \in Nat \ {0}
         /\ \A n \in 1 .. Cardinality(Blocks) : BlockNumber(n) \in Blocks
         /\ \A m, n \in 1 .. Cardinality(Blocks) : BlockNumber(m) = BlockNumber(n) => m = n
         /\ \A B \in Blocks : \E n \in 1 .. Cardinality(Blocks) : BlockNumber(n) = B
<1>. DEFINE W    == Whole.states
            R    == {q \in Blocks \X Blocks : Min(q[1]) < Min(q[2])}
            size == Cardinality(Blocks)
<1>1. W = 1 .. Len(call.needs) /\ Len(call.needs) \in Nat \ {0}
  BY CallFacts
<1>2. IsFiniteSet(W) /\ W # {} /\ W \subseteq Nat
  <2>1. IsFiniteSet(1 .. Len(call.needs))
    BY <1>1, FS_Interval
  <2>2. QED
    BY <1>1, <2>1
<1>3. \A B \in Blocks : B # {} /\ B \subseteq W
  BY BlocksPart DEF Blocks
<1>4. \A B, C \in Blocks : B \cap C # {} => B = C
  BY BlocksPart DEF Blocks
<1>5. ASSUME NEW B \in Blocks
      PROVE  Min(B) \in B /\ Min(B) \in Nat
  <2>1. B \in SUBSET Nat /\ B # {}
    BY <1>2, <1>3
  <2>2. QED
    BY <2>1, MinOfNaturals
<1>6. \A B, C \in Blocks : Min(B) = Min(C) => B = C
  BY <1>4, <1>5
<1>7. IsFiniteSet(Blocks) /\ Blocks # {}
  <2>1. Blocks \subseteq SUBSET W
    BY <1>3
  <2>2. IsFiniteSet(SUBSET W)
    BY <1>2, FS_SUBSET
  <2>3. Blocks # {}
    BY <1>2 DEF Blocks
  <2>4. QED
    BY <2>1, <2>2, <2>3, FS_Subset
<1>8. Orders(R, Blocks)
  <2>1. ASSUME NEW x \in Blocks, NEW y \in Blocks, NEW z \in Blocks
        PROVE  /\ <<x, x>> \notin R
               /\ <<x, y>> \in R /\ <<y, z>> \in R => <<x, z>> \in R
               /\ x # y => <<x, y>> \in R \/ <<y, x>> \in R
    <3>1. Min(x) \in Nat /\ Min(y) \in Nat /\ Min(z) \in Nat /\ (Min(x) = Min(y) => x = y)
      BY <1>5, <1>6
    <3>2. QED
      BY <3>1
  <2>2. QED
    BY <2>1 DEF Orders
<1>9. \A B \in Blocks : BlocksBefore(B) = Rank(R, Blocks, B)
  <2>. SUFFICES ASSUME NEW B \in Blocks PROVE BlocksBefore(B) = Rank(R, Blocks, B)
    OBVIOUS
  <2>1. {C \in Blocks : Min(C) < Min(B)} = {C \in Blocks : <<C, B>> \in R}
    OBVIOUS
  <2>2. QED
    BY <2>1 DEF BlocksBefore, Rank
<1>. HIDE DEF R
<1>10. /\ size \in Nat
       /\ \A B \in Blocks : Rank(R, Blocks, B) \in 0 .. size - 1
       /\ \A n \in 0 .. size - 1 : \E B \in Blocks : Rank(R, Blocks, B) = n
       /\ \A B, C \in Blocks : Rank(R, Blocks, B) = Rank(R, Blocks, C) => B = C
  BY <1>7, <1>8, RanksNumber
<1>11. size # 0
  BY <1>7, FS_EmptySet
<1>12. ASSUME NEW n \in 1 .. size
       PROVE  BlockNumber(n) \in Blocks /\ BlocksBefore(BlockNumber(n)) = n - 1
  <2>1. n - 1 \in 0 .. size - 1
    BY <1>10
  <2>2. \E B \in Blocks : BlocksBefore(B) = n - 1
    BY <1>9, <1>10, <2>1
  <2>3. QED
    BY <2>2 DEF BlockNumber
<1>13. ASSUME NEW m \in 1 .. size, NEW n \in 1 .. size, BlockNumber(m) = BlockNumber(n)
       PROVE  m = n
  <2>1. m - 1 = n - 1
    BY <1>12, <1>13
  <2>2. QED
    BY <2>1
<1>14. ASSUME NEW B \in Blocks
       PROVE  \E n \in 1 .. size : BlockNumber(n) = B
  <2>1. BlocksBefore(B) \in 0 .. size - 1
    BY <1>9, <1>10
  <2>2. BlocksBefore(B) + 1 \in 1 .. size /\ (BlocksBefore(B) + 1) - 1 = BlocksBefore(B)
    BY <1>10, <2>1
  <2>3. BlocksBefore(BlockNumber(BlocksBefore(B) + 1)) = BlocksBefore(B)
    BY <1>12, <2>2
  <2>4. BlockNumber(BlocksBefore(B) + 1) = B
    BY <1>9, <1>10, <1>12, <2>2, <2>3
  <2>5. QED
    BY <2>2, <2>4
<1>15. QED
  BY <1>7, <1>10, <1>11, <1>12, <1>13, <1>14

\* A part has states of its own and the actions that count in them.
LEMMA PartsPart ==
  ASSUME call \in Calls
  PROVE  /\ Len(Parts) \in Nat \ {0} /\ DOMAIN Parts = 1 .. Len(Parts)
         /\ \A i \in 1 .. Len(Parts) :
              /\ Parts[i].states \subseteq Whole.states /\ Parts[i].actions \subseteq Candidates
              /\ \A s \in Parts[i].states : \A R \in call.needs[s] : R \subseteq Parts[i].actions
         /\ \A i, j \in 1 .. Len(Parts) : i # j => Parts[i].actions \cap Parts[j].actions = {}
         /\ \A s \in Whole.states : \E i \in 1 .. Len(Parts) : s \in Parts[i].states
         /\ \A a \in Candidates : \E i \in 1 .. Len(Parts) : a \in Parts[i].actions
<1>. DEFINE size == Cardinality(Blocks)
<1>1. Parts = [n \in 1 .. size |->
                 [states  |-> BlockNumber(n),
                  actions |-> {a \in Candidates : call.states[a] \subseteq BlockNumber(n)}]]
  BY DEF Parts, Blocks, BlocksBefore, BlockNumber
<1>2. /\ size \in Nat \ {0}
      /\ \A n \in 1 .. size : BlockNumber(n) \in Blocks
      /\ \A m, n \in 1 .. size : BlockNumber(m) = BlockNumber(n) => m = n
      /\ \A B \in Blocks : \E n \in 1 .. size : BlockNumber(n) = B
  BY BlocksNumbered
<1>. HIDE DEF size
<1>3. Len(Parts) = size /\ DOMAIN Parts = 1 .. size
  BY <1>1, <1>2
<1>4. \A n \in 1 .. size :
         /\ Parts[n].states = BlockNumber(n)
         /\ Parts[n].actions = {a \in Candidates : call.states[a] \subseteq BlockNumber(n)}
  BY <1>1
<1>5. \A a \in Candidates : call.states[a] # {} /\ call.states[a] \subseteq Whole.states
  BY CallFacts
<1>6. \A B, C \in Blocks : B \cap C # {} => B = C
  BY BlocksPart DEF Blocks
<1>7. ASSUME NEW i \in 1 .. size, NEW j \in 1 .. size, i # j
      PROVE  Parts[i].actions \cap Parts[j].actions = {}
  <2>1. BlockNumber(i) \cap BlockNumber(j) = {}
    BY <1>2, <1>6, <1>7
  <2>2. QED
    BY <1>4, <1>5, <2>1
<1>8. ASSUME NEW i \in 1 .. size, NEW s \in Parts[i].states, NEW R \in call.needs[s]
      PROVE  R \subseteq Parts[i].actions
  <2>1. BlockNumber(i) \in Blocks /\ s \in BlockNumber(i)
    BY <1>2, <1>4
  <2>2. PICK t \in Whole.states : BlockNumber(i) = BlockOf(t)
    BY <2>1 DEF Blocks
  <2>3. s \in Whole.states /\ Unbroken(BlockNumber(i))
    BY <2>1, <2>2, BlocksPart
  <2>4. R \subseteq {a \in Candidates : s \in call.states[a]}
    BY <2>3, CallFacts
  <2>5. \A a \in Candidates : s \in call.states[a] => call.states[a] \subseteq BlockNumber(i)
    BY <2>1, <2>3 DEF Unbroken
  <2>6. QED
    BY <1>4, <2>4, <2>5
<1>9. ASSUME NEW s \in Whole.states
      PROVE  \E i \in 1 .. size : s \in Parts[i].states
  <2>1. BlockOf(s) \in Blocks /\ s \in BlockOf(s)
    BY BlocksPart DEF Blocks
  <2>2. QED
    BY <1>2, <1>4, <2>1
<1>10. ASSUME NEW a \in Candidates
       PROVE  \E i \in 1 .. size : a \in Parts[i].actions
  <2>1. PICK s \in Whole.states : s \in call.states[a]
    BY <1>5
  <2>2. s \in BlockOf(s) /\ Unbroken(BlockOf(s)) /\ BlockOf(s) \in Blocks
    BY BlocksPart DEF Blocks
  <2>3. call.states[a] \subseteq BlockOf(s)
    BY <2>1, <2>2 DEF Unbroken
  <2>4. PICK n \in 1 .. size : BlockNumber(n) = BlockOf(s)
    BY <1>2, <2>2
  <2>5. QED
    BY <1>4, <2>3, <2>4
<1>11. ASSUME NEW i \in 1 .. size
       PROVE  Parts[i].states \subseteq Whole.states /\ Parts[i].actions \subseteq Candidates
  BY <1>2, <1>4, BlocksPart DEF Blocks
<1>12. QED
  BY <1>2, <1>3, <1>7, <1>8, <1>9, <1>10, <1>11

-----------------------------------------------------------------------------
(* The frontier of a part *)

\* Prices are costs, once a search has begun.
LEMMA PriceFacts ==
  ASSUME call \in Calls
  PROVE  /\ \A S \in SUBSET Candidates : Price(S) \in Nat
         /\ problem.cost = call.cost => \A S : Cost(S) = Price(S)
<1>1. ASSUME NEW S \in SUBSET Candidates
      PROVE  Price(S) \in Nat
  <2>. DEFINE p == ProblemOf(Whole, call.max, NoWork)
  <2>1. Whole.actions \subseteq Candidates
    BY DEF Whole
  <2>2. NoWork \in [calls : 0 .. call.oracleCalls - 1, nodes : 0 .. call.searchNodes - 1]
    BY CallFacts DEF NoWork
  <2>3. p \in Problem /\ p.cost = call.cost
    BY <2>1, <2>2, CallFacts, PartIsProblem
  <2>. HIDE DEF p
  <2>4. CostOf(p, S) \in Nat
    BY <2>3, CostIsUnits
  <2>5. CostOf(p, S) = CostWith(p.cost, S)
    BY DEF CostOf, CostWith
  <2>6. QED
    BY <2>3, <2>4, <2>5 DEF Price
<1>2. ASSUME problem.cost = call.cost, NEW S
      PROVE  Cost(S) = Price(S)
  <2>1. Cost(S) = CostWith(problem.cost, S)
    BY DEF Cost, CostWith
  <2>2. QED
    BY <1>2, <2>1 DEF Price
<1>3. QED
  BY <1>1, <1>2

\* A plan of a part is a set of its actions; more are allowed with a larger limit.
LEMMA PlanFacts ==
  ASSUME call \in Calls, NEW part, part.actions \subseteq Candidates, NEW k, NEW S \in PlansWithin(part, k)
  PROVE  /\ S \in SUBSET Candidates /\ Price(S) \in Nat
         /\ Cardinality(S) \in Nat /\ Cardinality(S) <= k
         /\ k \in Nat => \A m \in Nat : k <= m => S \in PlansWithin(part, m)
<1>1. S \in SUBSET Candidates /\ Cardinality(S) <= k
  BY DEF PlansWithin
<1>2. IsFiniteSet(S) /\ Cardinality(S) \in Nat
  BY <1>1, SearchAssumption, FS_Subset, FS_CardinalityType
<1>3. Price(S) \in Nat
  BY <1>1, PriceFacts
<1>4. ASSUME k \in Nat, NEW m \in Nat, k <= m
      PROVE  S \in PlansWithin(part, m)
  <2>1. Cardinality(S) <= m
    BY <1>1, <1>2, <1>4
  <2>2. QED
    BY <2>1 DEF PlansWithin
<1>5. QED
  BY <1>1, <1>2, <1>3, <1>4

\* What the plans of a part are.
LEMMA PlansFacts ==
  ASSUME call \in Calls, NEW part, part.actions \subseteq Candidates,
         NEW plans, Plans(part, plans), NEW q \in plans
  PROVE  /\ q = [selected |-> q.selected, cost |-> Price(q.selected)]
         /\ q.selected \in PlansWithin(part, call.max) /\ q.selected \in SUBSET Candidates
         /\ q.cost = Price(q.selected) /\ q.cost \in Nat /\ Size(q) \in Nat
<1>1. q = [selected |-> q.selected, cost |-> Price(q.selected)]
  BY DEF Plans
<1>2. q.selected \in PlansWithin(part, call.max)
  BY DEF Plans
<1>3. /\ q.selected \in SUBSET Candidates /\ Price(q.selected) \in Nat
      /\ Cardinality(q.selected) \in Nat
  BY <1>2, PlanFacts
<1>4. q.cost = Price(q.selected)
  BY <1>1
<1>5. QED
  BY <1>1, <1>2, <1>3, <1>4 DEF Size

\* Inserting a plan keeps what the frontier answers, and answers where the plan
\* is a cheapest.
LEMMA InsertKeeps ==
  ASSUME call \in Calls, NEW part, part.actions \subseteq Candidates,
         NEW plans, Plans(part, plans), NEW S \in PlansWithin(part, call.max)
  PROVE  LET new == Insert(plans, [selected |-> S, cost |-> Price(S)]) IN
         /\ Plans(part, new)
         /\ \A k \in Nat : Answered(part, plans, k) => Answered(part, new, k)
         /\ \A k \in Nat : /\ Cardinality(S) <= k
                           /\ \A T \in PlansWithin(part, k) : Price(S) <= Price(T)
                           => Answered(part, new, k)
<1>. DEFINE q   == [selected |-> S, cost |-> Price(S)]
            new == Insert(plans, q)
<1>1. /\ S \in SUBSET Candidates /\ Price(S) \in Nat /\ Cardinality(S) \in Nat
      /\ Size(q) = Cardinality(S) /\ q.cost = Price(S) /\ q.selected = S
  BY PlanFacts DEF Size
<1>2. \A r \in plans :
         /\ r = [selected |-> r.selected, cost |-> Price(r.selected)]
         /\ r.selected \in PlansWithin(part, call.max)
         /\ r.cost = Price(r.selected) /\ r.cost \in Nat /\ Size(r) \in Nat
  BY PlansFacts
<1>3. new = plans \/ new = {r \in plans : ~Dominates(q, r)} \cup {q}
  BY DEF Insert
<1>. HIDE DEF q
<1>4. Plans(part, new)
  <2>1. CASE \E r \in plans : Dominates(r, q)
    <3>1. new = plans
      BY <2>1 DEF Insert
    <3>. HIDE DEF new
    <3>2. QED
      BY <3>1
  <2>2. CASE ~\E r \in plans : Dominates(r, q)
    <3>1. new = {r \in plans : ~Dominates(q, r)} \cup {q}
      BY <2>2 DEF Insert
    <3>. HIDE DEF new
    <3>2. \A r \in new : r = [selected |-> r.selected, cost |-> Price(r.selected)]
      BY <1>1, <1>2, <3>1 DEF q
    <3>3. {r.selected : r \in new} \subseteq PlansWithin(part, call.max)
      BY <1>1, <1>2, <3>1
    <3>4. \A r, t \in new : r # t => ~Dominates(r, t)
      BY <2>2, <3>1 DEF Plans
    <3>5. QED
      BY <3>2, <3>3, <3>4 DEF Plans
  <2>3. QED
    BY <2>1, <2>2
\* What a plan answers, one that stays answers too.
<1>5. ASSUME NEW r \in plans \cup {q}
      PROVE  \E t \in new : Size(t) <= Size(r) /\ t.cost <= r.cost
  <2>1. Size(q) \in Nat /\ q.cost \in Nat /\ Size(r) \in Nat /\ r.cost \in Nat
    BY <1>1, <1>2
  <2>2. CASE r \in new
    BY <2>1, <2>2
  <2>3. CASE r \notin new
    <3>1. \E t \in new : Dominates(t, r)
      <4>1. CASE \E t \in plans : Dominates(t, q)
        <5>1. new = plans
          BY <4>1 DEF Insert
        <5>. HIDE DEF new
        <5>2. r = q
          BY <2>3, <5>1
        <5>3. QED
          BY <4>1, <5>1, <5>2
      <4>2. CASE ~\E t \in plans : Dominates(t, q)
        <5>1. new = {t \in plans : ~Dominates(q, t)} \cup {q}
          BY <4>2 DEF Insert
        <5>. HIDE DEF new
        <5>2. QED
          BY <2>3, <5>1
      <4>3. QED
        BY <4>1, <4>2
    <3>2. QED
      BY <3>1 DEF Dominates
  <2>4. QED
    BY <2>2, <2>3
<1>6. ASSUME NEW k \in Nat, NEW T \in PlansWithin(part, k), NEW r \in plans \cup {q},
             Size(r) <= k, r.cost <= Price(T)
      PROVE  \E t \in new : Size(t) <= k /\ t.cost <= Price(T)
  <2>1. PICK t \in new : Size(t) <= Size(r) /\ t.cost <= r.cost
    BY <1>5
  <2>2. Size(r) \in Nat /\ r.cost \in Nat
    BY <1>1, <1>2
  <2>3. t \in plans \cup {q}
    BY <1>3
  <2>4. Size(t) \in Nat /\ t.cost \in Nat
    BY <1>1, <1>2, <2>3
  <2>5. Price(T) \in Nat
    BY PlanFacts
  <2>. HIDE DEF new
  <2>6. Size(t) <= k /\ t.cost <= Price(T)
    BY <1>6, <2>1, <2>2, <2>4, <2>5
  <2>7. QED
    BY <2>6
<1>. HIDE DEF new
<1>7. ASSUME NEW k \in Nat, Answered(part, plans, k)
      PROVE  Answered(part, new, k)
  BY <1>6, <1>7 DEF Answered
<1>8. ASSUME NEW k \in Nat, Cardinality(S) <= k, \A T \in PlansWithin(part, k) : Price(S) <= Price(T)
      PROVE  Answered(part, new, k)
  <2>1. Size(q) <= k /\ q.cost = Price(S)
    BY <1>1, <1>8
  <2>2. \A T \in PlansWithin(part, k) : q.cost <= Price(T)
    BY <1>8, <2>1
  <2>3. QED
    BY <1>6, <2>1, <2>2 DEF Answered
<1>9. QED
  BY <1>4, <1>7, <1>8 DEF new, q

\* What the search of a part has found when it is done.
LEMMA PartAnswered ==
  ASSUME SearchInv, ArtifactInv, stage = "parts", phase = "done", result.status # "incomplete"
  PROVE  LET part == Parts[Len(frontiers) + 1] IN
         /\ part.actions \subseteq Candidates
         /\ Limit \in 0 .. call.max
         /\ \/ /\ result.status = "optimal"
               /\ result.selected \in PlansWithin(part, Limit)
               /\ \A S \in PlansWithin(part, Limit) : Price(result.selected) <= Price(S)
            \/ result.status = "infeasible" /\ PlansWithin(part, Limit) = {}
<1>. DEFINE part == Parts[Len(frontiers) + 1]
<1>1. /\ call \in Calls /\ PartUnderWay /\ BudgetHolds /\ PartsDone /\ StatusKnown
      /\ problem.cost = call.cost
  BY DEF ArtifactInv
<1>2. problem \in Problem /\ ResultOf(problem, result)
  <2>1. Typed /\ ResultHolds
    BY DEF SearchInv
  <2>2. QED
    BY <2>1, ResultIsOfProblem DEF Typed
<1>3. part.actions \subseteq Candidates
  <2>1. Len(frontiers) + 1 \in 1 .. Len(Parts)
    BY <1>1, PartsPart DEF PartUnderWay, UnderWay, PartsDone, Done
  <2>2. QED
    BY <1>1, <2>1, PartsPart
<1>4. Limit \in 0 .. call.max
  BY <1>1, CallFacts DEF Limit, LimitOf, PartUnderWay, UnderWay, Searched, Progress,
            FreshFrontier, NoBound
<1>5. problem = ProblemOf(part, Limit, spent)
  BY <1>1 DEF PartUnderWay, UnderWay, Searched, Limit
<1>6. /\ problem.oracleCalls = call.oracleCalls - spent.calls
      /\ problem.searchNodes = call.searchNodes - spent.nodes
      /\ problem.oracleCalls \in Nat \ {0} /\ problem.searchNodes \in Nat \ {0}
  BY <1>2, <1>5 DEF ProblemOf, Problem
<1>7. spent \in [calls : 0 .. call.oracleCalls - 1, nodes : 0 .. call.searchNodes - 1]
  <2>1. spent \in [calls : 0 .. call.oracleCalls, nodes : 0 .. call.searchNodes]
    BY <1>1 DEF BudgetHolds
  <2>2. call.oracleCalls \in Nat /\ call.searchNodes \in Nat
    BY <1>1, CallFacts
  <2>3. spent.calls \in 0 .. call.oracleCalls - 1 /\ spent.nodes \in 0 .. call.searchNodes - 1
    BY <1>6, <2>1, <2>2
  <2>4. QED
    BY <2>1, <2>3
<1>. HIDE DEF part
<1>8. SolutionsOf(problem) = PlansWithin(part, Limit)
  <2>1. Limit \in Nat
    BY <1>1, <1>4, CallFacts
  <2>2. SolutionsOf(ProblemOf(part, Limit, spent)) = PlansWithin(part, Limit)
    BY <1>1, <1>3, <1>7, <2>1, PartIsProblem
  <2>3. QED
    BY <1>5, <2>2
<1>9. result.status \in {"optimal", "infeasible"}
  BY <1>1 DEF StatusKnown
<1>10. \A S : CostOf(problem, S) = Price(S)
  BY <1>1, OfTheProblem, PriceFacts
<1>11. ASSUME result.status = "optimal"
       PROVE  /\ result.selected \in PlansWithin(part, Limit)
              /\ \A S \in PlansWithin(part, Limit) : Price(result.selected) <= Price(S)
  <2>. DEFINE costs == {CostOf(problem, S) : S \in SolutionsOf(problem)}
  <2>1. /\ result.selected \in SolutionsOf(problem)
        /\ CostOf(problem, result.selected) = Min(costs)
    BY <1>2, <1>11 DEF ResultOf, OptimumOf
  <2>2. costs \in SUBSET Nat /\ costs # {}
    BY <1>2, <2>1, SolutionFacts
  <2>3. \A n \in costs : Min(costs) <= n
    BY <2>2, MinOfNaturals
  <2>4. \A S \in SolutionsOf(problem) : CostOf(problem, result.selected) <= CostOf(problem, S)
    BY <2>1, <2>3
  <2>5. QED
    BY <1>8, <1>10, <2>1, <2>4
<1>12. result.status = "infeasible" => PlansWithin(part, Limit) = {}
  BY <1>2, <1>8 DEF ResultOf
<1>13. QED
  BY <1>3, <1>4, <1>9, <1>11, <1>12 DEF part

\* So the frontier of the part goes on by one limit.
LEMMA ExtendedProgress ==
  ASSUME SearchInv, ArtifactInv, stage = "parts", phase = "done", result.status # "incomplete"
  PROVE  LET part == Parts[Len(frontiers) + 1] IN
         /\ part.actions \subseteq Candidates
         /\ Progress(part, Extended)
<1>. DEFINE part == Parts[Len(frontiers) + 1]
            S    == result.selected
            best1 == [selected |-> S, cost |-> Price(S)]
<1>1. /\ call \in Calls /\ PartUnderWay /\ problem.cost = call.cost
  BY DEF ArtifactInv
<1>2. /\ part.actions \subseteq Candidates /\ Limit \in 0 .. call.max
      /\ \/ /\ result.status = "optimal"
            /\ S \in PlansWithin(part, Limit)
            /\ \A T \in PlansWithin(part, Limit) : Price(S) <= Price(T)
         \/ result.status = "infeasible" /\ PlansWithin(part, Limit) = {}
  BY PartAnswered
<1>3. call.max \in Nat
  BY <1>1, CallFacts
<1>4. frontier = FreshFrontier \/ (Progress(part, frontier) /\ frontier.limit < frontier.bound)
  BY <1>1 DEF PartUnderWay, UnderWay, Searched, Limit
<1>5. Plan(S) = best1
  BY <1>1, PriceFacts DEF Plan
<1>. DEFINE new == IF result.status = "optimal" THEN Insert(frontier.plans, best1) ELSE frontier.plans
<1>6. Plans(part, frontier.plans)
  <2>1. CASE frontier = FreshFrontier
    BY <2>1 DEF FreshFrontier, Plans
  <2>2. CASE Progress(part, frontier)
    BY <2>2 DEF Progress
  <2>3. QED
    BY <1>4, <2>1, <2>2
<1>7. /\ Extended.plans = new
      /\ Extended.limit = frontier.limit + 1
      /\ Extended.bound = IF frontier.bound # NoBound THEN frontier.bound
                          ELSE IF result.status = "optimal" THEN Cardinality(S) ELSE 0
  BY <1>5 DEF Extended
<1>. HIDE DEF part, S, best1
<1>8. /\ Plans(part, new)
      /\ \A k \in 0 .. call.max : Answered(part, frontier.plans, k) => Answered(part, new, k)
  <2>1. CASE result.status = "optimal"
    <3>1. S \in PlansWithin(part, call.max)
      BY <1>1, <1>2, <1>3, <2>1, PlanFacts
    <3>2. /\ Plans(part, Insert(frontier.plans, best1))
          /\ \A k \in Nat : Answered(part, frontier.plans, k) =>
                            Answered(part, Insert(frontier.plans, best1), k)
      BY <1>1, <1>2, <1>6, <3>1, InsertKeeps DEF best1
    <3>3. new = Insert(frontier.plans, best1)
      BY <2>1
    <3>. HIDE DEF new
    <3>4. QED
      BY <1>3, <3>2, <3>3
  <2>2. CASE result.status # "optimal"
    BY <1>6, <2>2
  <2>3. QED
    BY <2>1, <2>2
\* The answer at the limit, and for an optimal plan at its size and above.
<1>9. ASSUME NEW k \in 0 .. call.max, k <= Limit,
             result.status = "optimal" => Cardinality(S) <= k
      PROVE  Answered(part, new, k)
  <2>1. \A T \in PlansWithin(part, k) : T \in PlansWithin(part, Limit)
    BY <1>1, <1>2, <1>3, <1>9, PlanFacts
  <2>2. CASE result.status = "optimal"
    <3>1. S \in PlansWithin(part, call.max)
      BY <1>1, <1>2, <1>3, <2>2, PlanFacts
    <3>2. \A T \in PlansWithin(part, k) : Price(S) <= Price(T)
      BY <1>2, <2>1, <2>2
    <3>3. Answered(part, Insert(frontier.plans, best1), k)
      <4>1. k \in Nat /\ Cardinality(S) <= k
        BY <1>9, <2>2
      <4>2. QED
        BY <1>1, <1>2, <1>6, <3>1, <3>2, <4>1, InsertKeeps DEF best1
    <3>4. new = Insert(frontier.plans, best1)
      BY <2>2
    <3>5. QED
      BY <3>3, <3>4
  <2>3. CASE result.status # "optimal"
    <3>1. PlansWithin(part, k) = {}
      BY <1>2, <2>1, <2>3
    <3>2. QED
      BY <3>1 DEF Answered
  <2>4. QED
    BY <2>2, <2>3
<1>10. result.status = "optimal" => Cardinality(S) \in 0 .. Limit
  <2>. SUFFICES ASSUME result.status = "optimal" PROVE Cardinality(S) \in 0 .. Limit
    OBVIOUS
  <2>1. Cardinality(S) \in Nat /\ Cardinality(S) <= Limit
    BY <1>1, <1>2, PlanFacts
  <2>2. QED
    BY <1>2, <2>1
<1>. HIDE DEF new
<1>11. CASE frontier = FreshFrontier
  <2>1. frontier.limit = NoBound /\ frontier.bound = NoBound /\ Limit = call.max
    BY <1>11 DEF FreshFrontier, Limit, LimitOf
  <2>2. /\ Extended.limit = 0
        /\ Extended.bound = IF result.status = "optimal" THEN Cardinality(S) ELSE 0
    BY <1>7, <2>1 DEF NoBound
  <2>3. Extended.bound \in 0 .. call.max
    BY <1>3, <1>10, <2>1, <2>2
  <2>4. ASSUME NEW k \in 0 .. call.max, k < Extended.limit \/ Extended.bound <= k
        PROVE  Answered(part, new, k)
    <3>1. k <= Limit /\ (result.status = "optimal" => Cardinality(S) <= k)
      BY <2>1, <2>2, <2>4
    <3>2. QED
      BY <1>9, <3>1
  <2>5. Progress(part, Extended)
    BY <1>7, <1>8, <2>2, <2>3, <2>4 DEF Progress
  <2>6. QED
    BY <1>2, <2>5 DEF part
<1>12. CASE Progress(part, frontier) /\ frontier.limit < frontier.bound
  <2>1. /\ frontier.limit \in Nat /\ frontier.bound \in 0 .. call.max
        /\ \A k \in 0 .. call.max : k < frontier.limit \/ frontier.bound <= k =>
             Answered(part, frontier.plans, k)
    BY <1>12 DEF Progress
  <2>2. Limit = frontier.limit /\ frontier.bound # NoBound
    BY <1>3, <2>1 DEF Limit, LimitOf, NoBound
  <2>3. Extended.limit = frontier.limit + 1 /\ Extended.bound = frontier.bound
    BY <1>7, <2>2
  <2>4. ASSUME NEW k \in 0 .. call.max, k < Extended.limit \/ Extended.bound <= k
        PROVE  Answered(part, new, k)
    <3>1. CASE k = frontier.limit
      <4>1. k <= Limit /\ (result.status = "optimal" => Cardinality(S) <= k)
        BY <1>10, <2>2, <3>1
      <4>2. QED
        BY <1>9, <4>1
    <3>2. CASE k # frontier.limit
      <4>1. k < frontier.limit \/ frontier.bound <= k
        BY <2>1, <2>3, <2>4, <3>2
      <4>2. QED
        BY <1>8, <2>1, <4>1
    <3>3. QED
      BY <3>1, <3>2
  <2>5. Progress(part, Extended)
    BY <1>7, <1>8, <2>1, <2>3, <2>4 DEF Progress
  <2>6. QED
    BY <1>2, <2>5 DEF part
<1>13. QED
  BY <1>4, <1>11, <1>12

-----------------------------------------------------------------------------
(* What a step leaves alone *)

\* The parts and what is known of them depend on the call alone.
LEMMA PartsStay ==
  ASSUME call' = call
  PROVE  Parts' = Parts /\ Whole' = Whole
BY DEF Parts, Whole, BlockOf, Unbroken

\* The problem of a part depends on the call alone,
LEMMA ProblemsStay ==
  ASSUME call' = call, NEW part, NEW limit, NEW work
  PROVE  ProblemOf(part, limit, work)' = ProblemOf(part, limit, work)
BY DEF ProblemOf, SurvivingIn, Holds

\* so do what its plans are,
LEMMA PlansStay ==
  ASSUME call' = call, NEW part, NEW plans
  PROVE  Plans(part, plans)' <=> Plans(part, plans)
BY DEF Plans, PlansWithin, SurvivingIn, Holds, Price

\* what they answer,
LEMMA AnsweredStays ==
  ASSUME call' = call, NEW part, NEW plans, NEW k
  PROVE  Answered(part, plans, k)' <=> Answered(part, plans, k)
BY DEF Answered, PlansWithin, SurvivingIn, Holds, Price

\* and, of the part under way, its frontier,
LEMMA ProgressStays ==
  ASSUME call' = call, NEW part, NEW f, Progress(part, f)
  PROVE  Progress(part, f)'
<1>1. PICK plans : plans = f.plans
  OBVIOUS
<1>2. Plans(part, plans)'
  BY <1>1, PlansStay DEF Progress
<1>3. ASSUME NEW k \in 0 .. call.max, k < f.limit \/ f.bound <= k
      PROVE  Answered(part, plans, k)'
  <2>1. Answered(part, plans, k)
    BY <1>1, <1>3 DEF Progress
  <2>2. QED
    BY <2>1, AnsweredStays
<1>4. f.limit \in Nat /\ f.bound \in 0 .. call.max
  BY DEF Progress
<1>5. QED
  BY <1>1, <1>2, <1>3, <1>4 DEF Progress

\* its search,
LEMMA SearchedStays ==
  ASSUME call' = call, NEW part, NEW f, NEW p, NEW work, Searched(part, f, p, work)
  PROVE  Searched(part, f, p, work)'
<1>1. PICK limit : limit = LimitOf(f)
  OBVIOUS
<1>2. LimitOf(f)' = limit
  BY <1>1 DEF LimitOf
<1>3. p = ProblemOf(part, limit, work)'
  BY <1>1, ProblemsStay DEF Searched
<1>4. p = ProblemOf(part, LimitOf(f), work)'
  BY <1>2, <1>3 DEF ProblemOf
<1>5. f = FreshFrontier \/ (Progress(part, f)' /\ f.limit < f.bound)
  BY ProgressStays DEF Searched
<1>6. QED
  BY <1>4, <1>5 DEF Searched

\* and its place behind the parts that are done,
LEMMA UnderWayStays ==
  ASSUME call' = call, NEW fs, NEW f, NEW p, NEW work, UnderWay(fs, f, p, work)
  PROVE  UnderWay(fs, f, p, work)'
<1>1. PICK part : part = Parts[Len(fs) + 1]
  OBVIOUS
<1>2. Parts' = Parts
  BY PartsStay
<1>3. Searched(part, f, p, work)'
  BY <1>1, SearchedStays DEF UnderWay
<1>4. Searched(Parts[Len(fs) + 1], f, p, work)'
  BY <1>1, <1>2, <1>3
<1>5. QED
  BY <1>2, <1>4 DEF UnderWay

\* and the frontiers of those.
LEMMA DoneStays ==
  ASSUME call' = call, NEW fs, Done(fs)
  PROVE  Done(fs)'
<1>1. Parts' = Parts
  BY PartsStay
<1>2. ASSUME NEW i \in 1 .. Len(fs)
      PROVE  Plans(Parts[i], fs[i])' /\ \A k \in 0 .. call.max : Answered(Parts[i], fs[i], k)'
  <2>1. PICK part, plans : part = Parts[i] /\ plans = fs[i]
    OBVIOUS
  <2>2. Plans(part, plans)'
    BY <2>1, PlansStay DEF Done
  <2>3. ASSUME NEW k \in 0 .. call.max
        PROVE  Answered(part, plans, k)'
    BY <2>1, AnsweredStays DEF Done
  <2>4. QED
    BY <1>1, <2>1, <2>2, <2>3
<1>3. fs \in Seq(SUBSET [selected : SUBSET Candidates, cost : Nat]) /\ Len(fs) <= Len(Parts)
  BY DEF Done
<1>4. QED
  BY <1>1, <1>2, <1>3 DEF Done

-----------------------------------------------------------------------------
(* The steps of a build *)

\* A search that begins is one of the problem it is asked for.
LEMMA SearchBegins ==
  ASSUME NEW p \in Problem, BeginSearch(p)
  PROVE  /\ SearchInv'
         /\ problem' = p /\ phase' = "empty" /\ known' = {} /\ nodes' = 0
<1>1. SearchInv'
  BY StepAsk
<1>2. QED
  BY <1>1 DEF BeginSearch

\* The next search of a part, if it is not stopped for want of calls or nodes.
LEMMA PartBegins ==
  ASSUME call \in Calls, call' = call, SearchInv, StatusKnown, phase # "idle",
         problem.cost = call.cost,
         NEW i \in 1 .. Len(Parts), NEW limit \in Nat,
         NEW work \in [calls : 0 .. call.oracleCalls, nodes : 0 .. call.searchNodes],
         spent' = work, SearchPart(i, limit)
  PROVE  /\ SearchInv' /\ StatusKnown' /\ phase' # "idle" /\ problem'.cost = call.cost
         /\ stage' \in {"parts", "stopped"}
         /\ stage' = "parts" =>
              /\ problem' = ProblemOf(Parts[i], limit, work)
              /\ IsFiniteSet(known') /\ Cardinality(known') \in 0 .. problem'.oracleCalls
              /\ nodes' \in 0 .. problem'.searchNodes
<1>1. CASE work.calls = call.oracleCalls \/ work.nodes = call.searchNodes
  <2>1. stage' = "stopped" /\ UNCHANGED searchVars
    BY <1>1 DEF SearchPart
  <2>2. SearchInv'
    BY <2>1, StepNothing
  <2>3. StatusKnown' /\ phase' = phase /\ problem' = problem
    BY <2>1 DEF StatusKnown, searchVars
  <2>4. QED
    BY <2>1, <2>2, <2>3
<1>2. CASE ~(work.calls = call.oracleCalls \/ work.nodes = call.searchNodes)
  <2>. DEFINE p == ProblemOf(Parts[i], limit, work)
  <2>1. call.oracleCalls \in Nat \ {0} /\ call.searchNodes \in Nat \ {0}
    BY CallFacts
  <2>2. work \in [calls : 0 .. call.oracleCalls - 1, nodes : 0 .. call.searchNodes - 1]
    BY <1>2, <2>1
  <2>3. Parts[i].actions \subseteq Candidates
    BY PartsPart
  <2>4. p \in Problem /\ p.cost = call.cost
    BY <2>2, <2>3, PartIsProblem
  <2>5. stage' = "parts" /\ BeginSearch(p)
    BY <1>2 DEF SearchPart
  <2>. HIDE DEF p
  <2>6. /\ SearchInv'
        /\ problem' = p /\ phase' = "empty" /\ known' = {} /\ nodes' = 0
    BY <2>4, <2>5, SearchBegins
  <2>7. IsFiniteSet(known') /\ Cardinality(known') = 0
    BY <2>6, FS_EmptySet
  <2>8. p.oracleCalls \in Nat /\ p.searchNodes \in Nat
    BY <2>4 DEF Problem
  <2>9. StatusKnown'
    BY <2>6 DEF StatusKnown
  <2>10. Cardinality(known') \in 0 .. problem'.oracleCalls /\ nodes' \in 0 .. problem'.searchNodes
    BY <2>6, <2>7, <2>8
  <2>11. problem' = ProblemOf(Parts[i], limit, work)
    BY <2>6 DEF p
  <2>12. QED
    BY <2>4, <2>5, <2>6, <2>7, <2>9, <2>10, <2>11
<1>3. QED
  BY <1>1, <1>2

\* A step of a search keeps the problem, goes on or ends in one of three ways.
LEMMA SearchGoesOn ==
  ASSUME SearchInv, SearchNext
  PROVE  problem' = problem /\ phase # "idle" /\ phase' # "idle" /\ StatusKnown'
<1>. DEFINE Goes == phase' \notin {"idle", "done"}
            Ends == \E status \in {"optimal", "infeasible", "incomplete"} :
                      \E S, lower, upper : Conclude(status, S, lower, upper)
<1>1. problem' = problem
  BY DEF SearchNext, EvaluateEmpty, EvaluateAll, PackBase, PackTrial, PackBlocker, Root,
         GrowEvaluate, Grow, Minimize, Minimized, StartExplore, ExploreUnion, ExploreBranch, Explored
<1>2. phase # "idle"
  BY DEF SearchNext, EvaluateEmpty, EvaluateAll, PackBase, PackTrial, PackBlocker, Root,
         GrowEvaluate, Grow, Minimize, Minimized, StartExplore, ExploreUnion, ExploreBranch, Explored
<1>3. afterPacking \in {"root", "grown", "bound"}
  BY <1>2 DEF SearchInv, Typed
<1>4. \A k, complete : Finish(k, complete) => Ends
  BY DEF Finish
<1>5. Stop => Ends
  BY <1>4 DEF Stop
<1>6. Pop => Goes
  BY DEF Pop, Proceed
<1>7. Goes \/ Ends
  <2>1. CASE EvaluateEmpty
    BY <2>1 DEF EvaluateEmpty, Proceed
  <2>2. CASE EvaluateAll
    BY <2>2 DEF EvaluateAll, Pack, Proceed
  <2>3. CASE PackBase
    BY <1>3, <2>3 DEF PackBase, Proceed
  <2>4. CASE PackTrial
    BY <1>3, <2>4 DEF PackTrial, Proceed
  <2>5. CASE PackBlocker
    BY <1>3, <2>5 DEF PackBlocker, Proceed
  <2>6. CASE Root
    BY <1>4, <2>6 DEF Root, Proceed
  <2>7. CASE GrowEvaluate
    BY <2>7 DEF GrowEvaluate, ExploreRoot, Pack, Proceed
  <2>8. CASE Grow
    BY <2>8 DEF Grow, ExploreRoot, Proceed
  <2>9. CASE Minimize \/ Minimized
    BY <2>9 DEF Minimize, Minimized, ExploreRoot, Proceed
  <2>10. CASE StartExplore
    <3>. HIDE DEF Goes, Ends
    <3>1. Proceed("union") => Goes
      BY DEF Proceed, Goes
    <3>2. QED
      BY <1>5, <1>6, <2>10, <3>1 DEF StartExplore
  <2>11. CASE ExploreUnion
    <3>. HIDE DEF Goes, Ends
    <3>1. Pack(Node.included, Node.available, "bound") => Goes
      BY DEF Pack, Proceed, Goes
    <3>2. QED
      BY <1>5, <1>6, <2>11, <3>1 DEF ExploreUnion
  <2>12. CASE ExploreBranch
    <3>. HIDE DEF Goes, Ends
    <3>1. Proceed("explore") => Goes
      BY DEF Proceed, Goes
    <3>2. QED
      BY <1>5, <1>6, <2>12, <3>1 DEF ExploreBranch
  <2>13. CASE Explored
    BY <1>4, <2>13 DEF Explored
  <2>14. QED
    BY <2>1, <2>2, <2>3, <2>4, <2>5, <2>6, <2>7, <2>8, <2>9, <2>10, <2>11, <2>12, <2>13
       DEF SearchNext
<1>8. Ends => phase' # "idle" /\ StatusKnown'
  BY DEF Conclude, Proceed, StatusKnown
<1>9. Goes => phase' # "idle" /\ StatusKnown'
  BY DEF StatusKnown
<1>. HIDE DEF Goes, Ends
<1>10. QED
  BY <1>1, <1>2, <1>7, <1>8, <1>9

\* What a build knows is kept while the call and the frontiers stay.
LEMMA KeepsDone ==
  ASSUME call' = call, frontiers' = frontiers, PartsDone
  PROVE  PartsDone'
<1>1. PICK fs : fs = frontiers'
  OBVIOUS
<1>2. Done(fs)'
  BY <1>1, DoneStays DEF PartsDone
<1>3. QED
  BY <1>1, <1>2 DEF PartsDone

\* The whole stays under way while the call and its problem stay.
LEMMA KeepsWhole ==
  ASSUME call' = call, problem' = ProblemOf(Whole, call.max, NoWork)
  PROVE  WholeUnderWay'
<1>1. PICK part, limit, work : part = Whole /\ limit = call.max /\ work = NoWork
  OBVIOUS
<1>2. part = Whole' /\ limit = call'.max /\ work = NoWork'
  BY <1>1, PartsStay DEF NoWork
<1>3. problem' = ProblemOf(part, limit, work)'
  BY <1>1, ProblemsStay
<1>4. QED
  BY <1>2, <1>3 DEF WholeUnderWay

\* A part stays under way while what it is about stays.
LEMMA KeepsUnderWay ==
  ASSUME call' = call, NEW fs, fs = frontiers', NEW f, f = frontier', NEW p, p = problem',
         NEW work, work = spent', UnderWay(fs, f, p, work)
  PROVE  PartUnderWay'
<1>1. UnderWay(fs, f, p, work)'
  BY UnderWayStays
<1>2. QED
  BY <1>1 DEF PartUnderWay

\* build begins with the whole or with the first part.
LEMMA StepStartBuild ==
  ASSUME SearchInv, ArtifactInv, StartBuild
  PROVE  SearchInv' /\ ArtifactInv'
<1>1. /\ call \in Calls /\ stage = "idle" /\ StatusKnown /\ PartsDone
      /\ frontiers = <<>> /\ frontier = FreshFrontier
  BY DEF ArtifactInv, StartBuild
<1>2. call' = call /\ frontiers' = frontiers /\ frontier' = frontier /\ spent' = NoWork
  BY DEF StartBuild
<1>3. /\ call.oracleCalls \in Nat \ {0} /\ call.searchNodes \in Nat \ {0} /\ call.max \in Nat
      /\ Len(Parts) \in Nat \ {0}
  BY <1>1, CallFacts, PartsPart
<1>4. NoWork \in [calls : 0 .. call.oracleCalls - 1, nodes : 0 .. call.searchNodes - 1]
  BY <1>3 DEF NoWork
<1>5. PartsDone'
  BY <1>1, <1>2, KeepsDone
<1>. DEFINE i     == IF Composes THEN 1 ELSE 0
            part  == IF Composes THEN Parts[1] ELSE Whole
            begun == ProblemOf(part, call.max, NoWork)
<1>6. BeginSearch(begun) /\ stage' = IF Composes THEN "parts" ELSE "whole"
  <2>1. CASE Composes
    <3>1. SearchPart(1, call.max)
      BY <2>1 DEF StartBuild
    <3>2. ~(spent'.calls = call.oracleCalls \/ spent'.nodes = call.searchNodes)
      BY <1>2, <1>3 DEF NoWork
    <3>3. stage' = "parts" /\ BeginSearch(ProblemOf(Parts[1], call.max, spent'))
      BY <3>1, <3>2 DEF SearchPart
    <3>4. QED
      BY <1>2, <2>1, <3>3
  <2>2. CASE ~Composes
    BY <2>2 DEF StartBuild
  <2>3. QED
    BY <2>1, <2>2
<1>7. part.actions \subseteq Candidates
  BY <1>1, <1>3, PartsPart DEF Whole
<1>8. /\ begun \in Problem /\ begun.cost = call.cost
      /\ begun.oracleCalls = call.oracleCalls /\ begun.searchNodes = call.searchNodes
  <2>. HIDE DEF part
  <2>1. /\ begun \in Problem /\ begun.cost = call.cost
        /\ begun.oracleCalls = call.oracleCalls - NoWork.calls
        /\ begun.searchNodes = call.searchNodes - NoWork.nodes
    BY <1>1, <1>3, <1>4, <1>7, PartIsProblem
  <2>. HIDE DEF begun
  <2>2. QED
    BY <1>3, <2>1 DEF NoWork
<1>. HIDE DEF begun
<1>9. SearchInv' /\ problem' = begun /\ phase' = "empty" /\ known' = {} /\ nodes' = 0
  BY <1>6, <1>8, SearchBegins
<1>10. BudgetHolds'
  <2>1. IsFiniteSet(known') /\ Cardinality(known') = 0
    BY <1>9, FS_EmptySet
  <2>2. Cardinality(known') \in 0 .. problem'.oracleCalls /\ nodes' \in 0 .. problem'.searchNodes
    BY <1>3, <1>8, <1>9, <2>1
  <2>3. spent' \in [calls : 0 .. call.oracleCalls, nodes : 0 .. call.searchNodes]
    BY <1>2, <1>3 DEF NoWork
  <2>4. QED
    BY <1>2, <2>1, <2>2, <2>3 DEF BudgetHolds
<1>11. StatusKnown'
  BY <1>9 DEF StatusKnown
<1>12. Parts' = Parts /\ Whole' = Whole
  BY <1>2, PartsStay
<1>13. stage' = "parts" => PartUnderWay'
  <2>. SUFFICES ASSUME stage' = "parts" PROVE PartUnderWay'
    OBVIOUS
  <2>1. PICK fs, f, p, work : fs = frontiers' /\ f = frontier' /\ p = problem' /\ work = spent'
    OBVIOUS
  <2>2. Composes
    BY <1>6
  <2>3. Len(fs) = 0 /\ f = FreshFrontier /\ p = begun /\ work = NoWork
    BY <1>1, <1>2, <1>9, <2>1
  <2>4. LimitOf(f) = call.max
    BY <2>3 DEF LimitOf, FreshFrontier
  <2>5. p = ProblemOf(Parts[Len(fs) + 1], LimitOf(f), work)
    BY <2>2, <2>3, <2>4 DEF begun
  <2>6. UnderWay(fs, f, p, work)
    BY <1>3, <2>3, <2>5 DEF UnderWay, Searched
  <2>7. QED
    BY <1>2, <2>1, <2>6, KeepsUnderWay
<1>14. stage' = "whole" => WholeUnderWay'
  <2>. SUFFICES ASSUME stage' = "whole" PROVE WholeUnderWay'
    OBVIOUS
  <2>1. ~Composes
    BY <1>6
  <2>2. problem' = ProblemOf(Whole, call.max, NoWork)
    BY <1>9, <2>1 DEF begun
  <2>3. QED
    BY <1>2, <2>2, KeepsWhole
<1>15. /\ call' \in Calls
       /\ stage' \in {"whole", "parts"}
       /\ phase' # "idle" /\ problem'.cost = call'.cost
  BY <1>1, <1>2, <1>6, <1>8, <1>9
<1>16. QED
  BY <1>5, <1>9, <1>10, <1>11, <1>13, <1>14, <1>15 DEF ArtifactInv

\* A frontier that is complete joins those of the parts before it.
LEMMA DoneExtends ==
  ASSUME call \in Calls, NEW fs, Done(fs), Len(fs) < Len(Parts), NEW f,
         Progress(Parts[Len(fs) + 1], f), f.limit >= f.bound
  PROVE  Done(Append(fs, f.plans)) /\ Len(Append(fs, f.plans)) = Len(fs) + 1
<1>. DEFINE part   == Parts[Len(fs) + 1]
            plans  == f.plans
            more   == Append(fs, plans)
            PlanOf == [selected : SUBSET Candidates, cost : Nat]
<1>1. fs \in Seq(SUBSET PlanOf) /\ Len(fs) \in Nat
  BY DEF Done
<1>2. /\ Len(Parts) \in Nat
      /\ part.actions \subseteq Candidates
  BY <1>1, PartsPart
<1>3. Plans(part, plans)
  BY DEF Progress
<1>4. ASSUME NEW k \in 0 .. call.max
      PROVE  Answered(part, plans, k)
  <2>1. f.limit \in Nat /\ f.bound \in 0 .. call.max /\ call.max \in Nat
    BY CallFacts DEF Progress
  <2>2. k < f.limit \/ f.bound <= k
    BY <2>1
  <2>3. QED
    BY <2>2 DEF Progress
<1>5. plans \in SUBSET PlanOf
  <2>. SUFFICES ASSUME NEW q \in plans PROVE q \in PlanOf
    OBVIOUS
  <2>. HIDE DEF part, plans
  <2>1. /\ q = [selected |-> q.selected, cost |-> Price(q.selected)]
        /\ q.selected \in SUBSET Candidates /\ Price(q.selected) \in Nat
    BY <1>2, <1>3, PlansFacts, PriceFacts
  <2>2. QED
    BY <2>1
<1>. HIDE DEF part, plans
<1>6. /\ more \in Seq(SUBSET PlanOf) /\ Len(more) = Len(fs) + 1
      /\ more[Len(fs) + 1] = plans
      /\ \A i \in 1 .. Len(fs) : more[i] = fs[i]
  BY <1>1, <1>5
<1>. HIDE DEF more, PlanOf
<1>7. ASSUME NEW i \in 1 .. Len(more)
      PROVE  Plans(Parts[i], more[i]) /\ \A k \in 0 .. call.max : Answered(Parts[i], more[i], k)
  <2>1. CASE i \in 1 .. Len(fs)
    <3>1. more[i] = fs[i]
      BY <1>6, <2>1
    <3>2. Plans(Parts[i], fs[i]) /\ \A k \in 0 .. call.max : Answered(Parts[i], fs[i], k)
      BY <2>1 DEF Done
    <3>3. QED
      BY <3>1, <3>2
  <2>2. CASE i \notin 1 .. Len(fs)
    <3>1. i = Len(fs) + 1
      BY <1>1, <1>6, <2>2
    <3>2. more[i] = plans /\ Parts[i] = part
      BY <1>6, <3>1 DEF part
    <3>3. QED
      BY <1>3, <1>4, <3>2
  <2>3. QED
    BY <2>1, <2>2
<1>8. Len(more) <= Len(Parts)
  BY <1>1, <1>2, <1>6
<1>9. Done(more)
  BY <1>6, <1>7, <1>8 DEF Done, PlanOf
<1>10. QED
  BY <1>6, <1>9 DEF more, plans

\* build_frontier takes a result.
LEMMA StepExtendFrontier ==
  ASSUME SearchInv, ArtifactInv, ExtendFrontier
  PROVE  SearchInv' /\ ArtifactInv'
<1>. DEFINE work == [calls |-> spent.calls + Cardinality(known), nodes |-> spent.nodes + nodes]
            part == Parts[Len(frontiers) + 1]
<1>1. /\ call \in Calls /\ stage = "parts" /\ phase = "done" /\ StatusKnown /\ PartsDone
      /\ PartUnderWay /\ BudgetHolds /\ problem.cost = call.cost
  BY DEF ArtifactInv, ExtendFrontier
<1>2. call' = call /\ spent' = work
  BY DEF ExtendFrontier
<1>3. /\ call.oracleCalls \in Nat \ {0} /\ call.searchNodes \in Nat \ {0} /\ call.max \in Nat
      /\ Len(Parts) \in Nat \ {0}
  BY <1>1, CallFacts, PartsPart
<1>4. work \in [calls : 0 .. call.oracleCalls, nodes : 0 .. call.searchNodes]
  <2>1. /\ spent.calls \in 0 .. call.oracleCalls /\ spent.nodes \in 0 .. call.searchNodes
        /\ Cardinality(known) \in 0 .. problem.oracleCalls /\ nodes \in 0 .. problem.searchNodes
    BY <1>1 DEF BudgetHolds
  <2>2. /\ problem.oracleCalls = call.oracleCalls - spent.calls
        /\ problem.searchNodes = call.searchNodes - spent.nodes
    BY <1>1 DEF PartUnderWay, UnderWay, Searched, ProblemOf
  <2>3. QED
    BY <1>3, <2>1, <2>2
<1>5. Len(frontiers) \in Nat /\ Len(frontiers) < Len(Parts) /\ Done(frontiers)
  BY <1>1 DEF PartUnderWay, UnderWay, PartsDone, Done
\* What follows once the frontiers hold and the search has begun or stopped.
<1>6. ASSUME PartsDone', SearchInv', StatusKnown', phase' # "idle", problem'.cost = call.cost,
             stage' \in {"parts", "stopped", "composed"},
             stage' = "parts" =>
               /\ IsFiniteSet(known') /\ Cardinality(known') \in 0 .. problem'.oracleCalls
               /\ nodes' \in 0 .. problem'.searchNodes
               /\ PartUnderWay',
             stage' = "composed" => Len(frontiers') = Len(Parts)
      PROVE  SearchInv' /\ ArtifactInv'
  <2>1. BudgetHolds'
    <3>1. spent' \in [calls : 0 .. call.oracleCalls, nodes : 0 .. call.searchNodes]
      BY <1>2, <1>4
    <3>2. QED
      BY <1>2, <1>6, <3>1 DEF BudgetHolds
  <2>2. Parts' = Parts
    BY <1>2, PartsStay
  <2>3. QED
    BY <1>1, <1>2, <1>6, <2>1, <2>2 DEF ArtifactInv
<1>7. UNCHANGED searchVars => SearchInv' /\ StatusKnown' /\ phase' = phase /\ problem' = problem
  <2>. SUFFICES ASSUME UNCHANGED searchVars
                PROVE  SearchInv' /\ StatusKnown' /\ phase' = phase /\ problem' = problem
    OBVIOUS
  <2>1. SearchInv'
    BY StepNothing
  <2>2. QED
    BY <1>1, <2>1 DEF StatusKnown, searchVars
<1>. HIDE DEF work
<1>8. CASE /\ result.status = "incomplete" /\ stage' = "stopped"
           /\ UNCHANGED <<frontiers, frontier, searchVars>>
  <2>1. PartsDone'
    BY <1>1, <1>2, <1>8, KeepsDone
  <2>2. QED
    BY <1>1, <1>6, <1>7, <1>8, <2>1
<1>9. CASE /\ result.status # "incomplete" /\ ~(Extended.limit >= Extended.bound)
           /\ frontier' = Extended /\ frontiers' = frontiers
           /\ SearchPart(Len(frontiers) + 1, Extended.limit)
  <2>1. part.actions \subseteq Candidates /\ Progress(part, Extended)
    BY <1>1, <1>9, ExtendedProgress
  <2>2. Extended.limit \in Nat /\ Extended.bound \in 0 .. call.max
    BY <2>1 DEF Progress
  <2>3. Len(frontiers) + 1 \in 1 .. Len(Parts)
    BY <1>3, <1>5
  <2>4. /\ SearchInv' /\ StatusKnown' /\ phase' # "idle" /\ problem'.cost = call.cost
        /\ stage' \in {"parts", "stopped"}
        /\ stage' = "parts" =>
             /\ problem' = ProblemOf(part, Extended.limit, work)
             /\ IsFiniteSet(known') /\ Cardinality(known') \in 0 .. problem'.oracleCalls
             /\ nodes' \in 0 .. problem'.searchNodes
    <3>. DEFINE limit == Extended.limit
    <3>1. SearchPart(Len(frontiers) + 1, limit) /\ limit \in Nat
      BY <1>9, <2>2
    <3>. HIDE DEF limit
    <3>2. /\ SearchInv' /\ StatusKnown' /\ phase' # "idle" /\ problem'.cost = call.cost
          /\ stage' \in {"parts", "stopped"}
          /\ stage' = "parts" =>
               /\ problem' = ProblemOf(Parts[Len(frontiers) + 1], limit, work)
               /\ IsFiniteSet(known') /\ Cardinality(known') \in 0 .. problem'.oracleCalls
               /\ nodes' \in 0 .. problem'.searchNodes
      BY <1>1, <1>2, <1>4, <2>3, <3>1, PartBegins
    <3>3. QED
      BY <3>2 DEF limit
  <2>5. ASSUME stage' = "parts" PROVE PartUnderWay'
    <3>1. PICK fs, f, p, w : fs = frontiers' /\ f = frontier' /\ p = problem' /\ w = spent'
      OBVIOUS
    <3>2. fs = frontiers /\ f = Extended /\ w = work /\ p = ProblemOf(part, Extended.limit, work)
      BY <1>2, <1>9, <2>4, <2>5, <3>1
    <3>3. LimitOf(f) = f.limit /\ f.limit < f.bound
      BY <1>3, <1>9, <2>2, <3>2 DEF LimitOf, NoBound
    <3>4. Searched(part, f, p, w)
      BY <2>1, <3>2, <3>3 DEF Searched
    <3>5. UnderWay(fs, f, p, w)
      BY <1>5, <3>2, <3>4 DEF UnderWay
    <3>6. QED
      BY <1>2, <3>1, <3>5, KeepsUnderWay
  <2>6. PartsDone'
    BY <1>1, <1>2, <1>9, KeepsDone
  <2>7. QED
    BY <1>6, <2>4, <2>5, <2>6
<1>10. CASE /\ result.status # "incomplete" /\ Extended.limit >= Extended.bound
            /\ frontiers' = Append(frontiers, Extended.plans)
            /\ frontier' = FreshFrontier
            /\ IF Len(frontiers') = Len(Parts)
               THEN stage' = "composed" /\ UNCHANGED searchVars
               ELSE SearchPart(Len(frontiers') + 1, call.max)
  <2>1. Progress(part, Extended)
    BY <1>1, <1>10, ExtendedProgress
  <2>2. PICK f : f = Extended
    OBVIOUS
  <2>3. Done(Append(frontiers, f.plans)) /\ Len(Append(frontiers, f.plans)) = Len(frontiers) + 1
    BY <1>1, <1>5, <1>10, <2>1, <2>2, DoneExtends
  <2>4. PICK fs : fs = frontiers'
    OBVIOUS
  <2>5. Done(fs) /\ Len(fs) = Len(frontiers) + 1
    BY <1>10, <2>2, <2>3, <2>4
  <2>6. PartsDone'
    BY <1>2, <2>4, <2>5, DoneStays DEF PartsDone
  <2>7. CASE Len(fs) = Len(Parts)
    BY <1>1, <1>6, <1>7, <1>10, <2>4, <2>6, <2>7
  <2>8. CASE Len(fs) # Len(Parts)
    <3>1. Len(fs) + 1 \in 1 .. Len(Parts)
      BY <1>3, <1>5, <2>5, <2>8
    <3>2. SearchPart(Len(fs) + 1, call.max)
      BY <1>10, <2>4, <2>8
    <3>3. /\ SearchInv' /\ StatusKnown' /\ phase' # "idle" /\ problem'.cost = call.cost
          /\ stage' \in {"parts", "stopped"}
          /\ stage' = "parts" =>
               /\ problem' = ProblemOf(Parts[Len(fs) + 1], call.max, work)
               /\ IsFiniteSet(known') /\ Cardinality(known') \in 0 .. problem'.oracleCalls
               /\ nodes' \in 0 .. problem'.searchNodes
      BY <1>1, <1>2, <1>3, <1>4, <3>1, <3>2, PartBegins
    <3>4. ASSUME stage' = "parts" PROVE PartUnderWay'
      <4>1. PICK g, p, w : g = frontier' /\ p = problem' /\ w = spent'
        OBVIOUS
      <4>2. g = FreshFrontier /\ w = work /\ p = ProblemOf(Parts[Len(fs) + 1], call.max, work)
        BY <1>2, <1>10, <3>3, <3>4, <4>1
      <4>3. LimitOf(g) = call.max
        BY <4>2 DEF LimitOf, FreshFrontier
      <4>4. Searched(Parts[Len(fs) + 1], g, p, w)
        BY <4>2, <4>3 DEF Searched
      <4>5. UnderWay(fs, g, p, w)
        BY <1>3, <3>1, <4>4, <1>5, <2>5 DEF UnderWay
      <4>6. QED
        BY <1>2, <2>4, <4>1, <4>5, KeepsUnderWay
    <3>5. QED
      BY <1>6, <2>6, <3>3, <3>4
  <2>9. QED
    BY <2>7, <2>8
<1>11. QED
  BY <1>8, <1>9, <1>10 DEF ExtendFrontier

\* While the artifact's own variables stay and the search keeps its problem.
LEMMA StepKeeps ==
  ASSUME SearchInv, ArtifactInv, UNCHANGED artifactVars, problem' = problem, StatusKnown',
         phase # "idle" => phase' # "idle",
         stage \in {"whole", "parts"} =>
           /\ IsFiniteSet(known') /\ Cardinality(known') \in 0 .. problem.oracleCalls
           /\ nodes' \in 0 .. problem.searchNodes
  PROVE  ArtifactInv'
<1>1. /\ call' = call /\ stage' = stage /\ frontiers' = frontiers /\ frontier' = frontier
      /\ spent' = spent
  BY DEF artifactVars
<1>2. call \in Calls /\ PartsDone /\ BudgetHolds
  BY DEF ArtifactInv
<1>3. PartsDone'
  BY <1>1, <1>2, KeepsDone
<1>4. ASSUME stage = "parts" PROVE PartUnderWay'
  <2>1. PICK fs, f, p, w : fs = frontiers' /\ f = frontier' /\ p = problem' /\ w = spent'
    OBVIOUS
  <2>2. UnderWay(fs, f, p, w)
    BY <1>1, <1>4, <2>1 DEF ArtifactInv, PartUnderWay
  <2>3. QED
    BY <1>1, <2>1, <2>2, KeepsUnderWay
<1>5. ASSUME stage = "whole" PROVE WholeUnderWay'
  <2>1. problem' = ProblemOf(Whole, call.max, NoWork)
    BY <1>5 DEF ArtifactInv, WholeUnderWay
  <2>2. QED
    BY <1>1, <2>1, KeepsWhole
<1>6. Parts' = Parts
  BY <1>1, PartsStay
<1>7. BudgetHolds'
  BY <1>1, <1>2 DEF BudgetHolds
<1>8. stage = "idle" => frontiers = <<>> /\ frontier = FreshFrontier
  BY DEF ArtifactInv
<1>9. stage # "idle" => phase' # "idle" /\ problem'.cost = call.cost
  BY DEF ArtifactInv
<1>10. /\ stage \in {"idle", "whole", "parts", "stopped", "composed", "built"}
       /\ stage = "composed" => Len(frontiers) = Len(Parts)
  BY DEF ArtifactInv
<1>11. QED
  BY <1>1, <1>2, <1>3, <1>4, <1>5, <1>6, <1>7, <1>8, <1>9, <1>10 DEF ArtifactInv

\* A step of a search, of the whole or of a part.
LEMMA StepSearches ==
  ASSUME SearchInv, ArtifactInv, SearchNext, UNCHANGED artifactVars
  PROVE  SearchInv' /\ ArtifactInv'
<1>1. SearchInv'
  BY StepSearch
<1>2. problem' = problem /\ phase # "idle" /\ phase' # "idle" /\ StatusKnown'
  BY SearchGoesOn
<1>3. ASSUME stage \in {"whole", "parts"}
      PROVE  /\ IsFiniteSet(known') /\ Cardinality(known') \in 0 .. problem.oracleCalls
             /\ nodes' \in 0 .. problem.searchNodes
  <2>1. /\ IsFiniteSet(known) /\ Cardinality(known) \in 0 .. problem.oracleCalls
        /\ nodes \in 0 .. problem.searchNodes
    BY <1>3 DEF ArtifactInv, BudgetHolds
  <2>2. problem.oracleCalls \in Nat /\ problem.searchNodes \in Nat
    BY <1>2 DEF SearchInv, Typed, Problem
  <2>3. PICK limit \in Nat, most \in Nat :
          limit = problem.oracleCalls /\ most = problem.searchNodes
    BY <2>2
  <2>4. QED
    BY <2>1, <2>3, SearchKeeps
<1>4. QED
  BY <1>1, <1>2, <1>3, StepKeeps

\* The artifact is built from the result.
LEMMA StepBuild ==
  ASSUME SearchInv, ArtifactInv, Build
  PROVE  SearchInv' /\ ArtifactInv'
<1>1. /\ call' = call /\ frontiers' = frontiers /\ frontier' = frontier /\ spent' = spent
      /\ UNCHANGED searchVars /\ stage' = "built"
      /\ stage # "idle"
  BY DEF Build
<1>2. SearchInv'
  BY <1>1, StepNothing
<1>3. /\ call \in Calls /\ PartsDone /\ BudgetHolds /\ StatusKnown
      /\ phase # "idle" /\ problem.cost = call.cost
  BY <1>1 DEF ArtifactInv
<1>4. StatusKnown' /\ phase' = phase /\ problem' = problem
  BY <1>1, <1>3 DEF StatusKnown, searchVars
<1>5. PartsDone'
  BY <1>1, <1>3, KeepsDone
<1>6. BudgetHolds'
  BY <1>1, <1>3 DEF BudgetHolds
<1>7. QED
  BY <1>1, <1>2, <1>3, <1>4, <1>5, <1>6 DEF ArtifactInv

\* A step that changes nothing.
LEMMA StepStays ==
  ASSUME SearchInv, ArtifactInv, UNCHANGED allSearchVars
  PROVE  SearchInv' /\ ArtifactInv'
<1>1. UNCHANGED artifactVars /\ UNCHANGED searchVars
  BY DEF allSearchVars
<1>2. SearchInv'
  BY <1>1, StepNothing
<1>3. problem' = problem /\ phase' = phase /\ known' = known /\ nodes' = nodes /\ StatusKnown'
  BY <1>1 DEF searchVars, treeVars, ArtifactInv, StatusKnown
<1>4. stage \in {"whole", "parts"} =>
        /\ IsFiniteSet(known') /\ Cardinality(known') \in 0 .. problem.oracleCalls
        /\ nodes' \in 0 .. problem.searchNodes
  BY <1>3 DEF ArtifactInv, BudgetHolds
<1>5. QED
  BY <1>1, <1>2, <1>3, <1>4, StepKeeps

\* A call that waits has nothing to show yet.
LEMMA BuildsStart ==
  ASSUME ArtifactInit
  PROVE  SearchInv /\ ArtifactInv
<1>1. /\ call \in Calls /\ stage = "idle" /\ frontiers = <<>> /\ frontier = FreshFrontier
      /\ spent = NoWork /\ phase = "idle"
  BY DEF ArtifactInit, Waiting, SearchInit
<1>2. SearchInv /\ StatusKnown
  BY <1>1 DEF SearchInv, StatusKnown
<1>3. call.oracleCalls \in Nat \ {0} /\ call.searchNodes \in Nat \ {0} /\ Len(Parts) \in Nat \ {0}
  BY <1>1, CallFacts, PartsPart
<1>4. BudgetHolds
  BY <1>1, <1>3 DEF BudgetHolds, NoWork
<1>5. PartsDone
  BY <1>1, <1>3 DEF PartsDone, Done
<1>6. QED
  BY <1>1, <1>2, <1>4, <1>5 DEF ArtifactInv

-----------------------------------------------------------------------------
(* Theorems *)

(* The search under way keeps the invariant of a search, whichever part it  *)
(* searches; and a build keeps to its limits, the frontiers of the parts    *)
(* that are done answer for every number of activations, and that of the    *)
(* part under way for those below its limit and from its bound on.          *)
THEOREM ArtifactInvariant == ArtifactSpec => [](SearchInv /\ ArtifactInv)
<1>1. ArtifactInit => SearchInv /\ ArtifactInv
  BY BuildsStart
<1>2. SearchInv /\ ArtifactInv /\ [ArtifactNext]_allSearchVars => (SearchInv /\ ArtifactInv)'
  BY StepStartBuild, StepExtendFrontier, StepBuild, StepSearches, StepStays DEF ArtifactNext
<1>3. QED
  BY <1>1, <1>2, PTL DEF ArtifactSpec

(* The result of every search of a build, of the whole or of a part, holds  *)
(* for its own problem (minimize_antitone, as search_component calls it).   *)
THEOREM BuildResultHolds == ArtifactSpec => []ResultHolds
<1>1. SearchInv => ResultHolds
  BY DEF SearchInv, ResultHolds
<1>2. QED
  BY <1>1, ArtifactInvariant, PTL

\* The predicates and limits near to those of a call are predicates and limits.
LEMMA NearIsPredicate ==
  ASSUME call \in Calls, NEW near \in Near
  PROVE  Predicate(near.surviving) /\ near.max \in 0 .. Cardinality(Candidates)
<1>. DEFINE exact    == SurvivingIn(Whole)
            rejected == (SUBSET Candidates) \ exact
<1>1. Whole.actions = Candidates
  BY DEF Whole
<1>2. Predicate(exact)
  BY <1>1, PartIsPredicate
<1>3. near.max \in 0 .. Cardinality(Candidates)
  BY DEF Near
<1>. HIDE DEF exact
<1>4. CASE near.surviving = exact
  BY <1>2, <1>3, <1>4
<1>5. CASE \E S \in rejected : (\A c \in S : S \ {c} \in exact) /\ near.surviving = exact \cup {S}
  <2>1. PICK S \in rejected : (\A c \in S : S \ {c} \in exact) /\ near.surviving = exact \cup {S}
    BY <1>5
  <2>2. ASSUME NEW T \in SUBSET S, T # S
        PROVE  T \in exact
    <3>1. PICK c \in S : c \notin T
      BY <2>2
    <3>2. T \in SUBSET (S \ {c}) /\ S \ {c} \in exact
      BY <2>1, <3>1
    <3>3. QED
      BY <1>2, <3>2 DEF Predicate
  <2>3. QED
    BY <1>2, <1>3, <2>1, <2>2 DEF Predicate
<1>6. CASE \E S \in exact : /\ \A c \in Candidates \ S : S \cup {c} \notin exact
                            /\ near.surviving = exact \ {S}
  <2>1. PICK S \in exact : /\ \A c \in Candidates \ S : S \cup {c} \notin exact
                           /\ near.surviving = exact \ {S}
    BY <1>6
  <2>2. ASSUME NEW T \in exact, S \in SUBSET T, T # S
        PROVE  FALSE
    <3>1. PICK c \in T : c \notin S
      BY <2>2
    <3>2. c \in Candidates \ S /\ S \cup {c} \in SUBSET T
      BY <1>2, <2>2, <3>1 DEF Predicate
    <3>3. S \cup {c} \in exact
      BY <1>2, <3>2 DEF Predicate
    <3>4. QED
      BY <2>1, <3>2, <3>3
  <2>3. QED
    BY <1>2, <1>3, <2>1, <2>2 DEF Predicate
<1>7. near.surviving \in {exact \cup {S} : S \in {R \in rejected : \A c \in R : R \ {c} \in exact}}
        \cup {exact \ {S} : S \in {R \in exact : \A c \in Candidates \ R : R \cup {c} \notin exact}}
        \cup {exact}
  BY DEF Near, exact
<1>8. QED
  BY <1>3, <1>4, <1>5, <1>6, <1>7

(* What the checker accepts is true, for whatever claim, predicate and      *)
(* limit it is given: a plan it calls optimal meets the criterion at the    *)
(* least cost, an infeasible call has none, and the bounds of a stopped     *)
(* search enclose the least cost (verify.rs and proof.rs of the checker).   *)
AcceptedClaimsTrue ==
  stage = "built" =>
    \A surviving \in SUBSET SUBSET Candidates, max \in 0 .. Cardinality(Candidates) :
      Predicate(surviving) =>
        \A c : Verifies(c, surviving, max, TRUE) => ClaimTrue(c, surviving, max)

\* The checker accepts no claim that is false (verify_claim of the checker).
THEOREM EveryAcceptedClaimTrue == ArtifactSpec => []AcceptedClaimsTrue
<1>1. ArtifactInv => AcceptedClaimsTrue
  <2>. SUFFICES ASSUME ArtifactInv, stage = "built",
                       NEW surviving \in SUBSET SUBSET Candidates,
                       NEW max \in 0 .. Cardinality(Candidates), Predicate(surviving),
                       NEW c, Verifies(c, surviving, max, TRUE)
                PROVE  ClaimTrue(c, surviving, max)
    BY DEF AcceptedClaimsTrue
  <2>1. problem.cost \in [Candidates -> Nat \ {0}]
    BY CallFacts DEF ArtifactInv
  <2>2. QED
    BY <2>1, AcceptedIsTrue
<1>2. QED
  BY <1>1, ArtifactInvariant, PTL

(* So is what it accepts of claims near to the one that was built, for      *)
(* predicates and limits near to those of the call (verify.rs and proof.rs  *)
(* of the checker).                                                         *)
THEOREM ClaimsAreSound == ArtifactSpec => []ClaimsSound
<1>1. ArtifactInv => ClaimsSound
  <2>. SUFFICES ASSUME ArtifactInv, stage = "built", NEW near \in Near, NEW c \in Altered,
                       Verifies(c, near.surviving, near.max, TRUE)
                PROVE  ClaimTrue(c, near.surviving, near.max)
    BY DEF ClaimsSound
  <2>1. call \in Calls /\ problem.cost \in [Candidates -> Nat \ {0}]
    BY CallFacts DEF ArtifactInv
  <2>2. Predicate(near.surviving) /\ near.max \in 0 .. Cardinality(Candidates)
    BY <2>1, NearIsPredicate
  <2>3. PICK surviving, max : surviving = near.surviving /\ max = near.max
    OBVIOUS
  <2>4. ClaimTrue(c, surviving, max)
    BY <2>1, <2>2, <2>3, AcceptedIsTrue
  <2>5. QED
    BY <2>3, <2>4
<1>2. QED
  BY <1>1, ArtifactInvariant, PTL

-----------------------------------------------------------------------------
(* The order of plans *)

\* Two selections agree on every candidate below one.
AgreeBelow(S, T, d) == \A c \in Candidates : c < d => (c \in S <=> c \in T)

\* The first candidate they differ in decides.
FirstDifference(S, T, d) ==
  /\ d \in Candidates
  /\ d \in S <=> d \notin T
  /\ AgreeBelow(S, T, d)

BeforeAt(S, T, d) ==
  /\ FirstDifference(S, T, d)
  /\ d \in S => \E t \in T : t > d
  /\ d \notin S => \A s \in S : ~(s > d)

\* Different selections have a first difference, and one of them comes first.
LEMMA DifferenceDecides ==
  ASSUME NEW S \in SUBSET Candidates, NEW T \in SUBSET Candidates, S # T
  PROVE  /\ \E d \in Candidates : FirstDifference(S, T, d)
         /\ \A d : FirstDifference(S, T, d) => (VectorBefore(S, T) <=> BeforeAt(S, T, d))
<1>. DEFINE both == SymDiff(S, T)
            e    == Min(both)
<1>1. Candidates \subseteq Nat
  BY SearchAssumption
<1>2. both \in SUBSET Nat /\ both # {} /\ both \subseteq Candidates
  BY <1>1 DEF SymDiff
<1>3. e \in both /\ \A c \in both : e <= c
  BY <1>2, MinOfNaturals
<1>4. FirstDifference(S, T, e)
  <2>1. e \in Candidates /\ (e \in S <=> e \notin T)
    BY <1>2, <1>3 DEF SymDiff
  <2>. HIDE DEF e
  <2>2. ASSUME NEW c \in Candidates, c < e, c \in both
        PROVE  FALSE
    BY <1>1, <1>3, <2>1, <2>2
  <2>3. ASSUME NEW c \in Candidates, c < e
        PROVE  c \in S <=> c \in T
    BY <2>2, <2>3 DEF SymDiff
  <2>4. QED
    BY <2>1, <2>3 DEF FirstDifference, AgreeBelow
<1>5. ASSUME NEW d, FirstDifference(S, T, d)
      PROVE  VectorBefore(S, T) <=> BeforeAt(S, T, d)
  <2>1. d \in both
    BY <1>5 DEF FirstDifference, SymDiff
  <2>2. ~(e < d)
    BY <1>2, <1>3, <1>5 DEF FirstDifference, AgreeBelow, SymDiff
  <2>3. d = e
    BY <1>1, <1>2, <1>3, <2>1, <2>2
  <2>. HIDE DEF both
  <2>4. VectorBefore(S, T) <=> IF e \in S THEN \E t \in T : t > e ELSE ~(\E s \in S : s > e)
    BY DEF VectorBefore, both
  <2>. HIDE DEF e
  <2>5. QED
    BY <1>5, <2>3, <2>4 DEF BeforeAt
<1>6. QED
  BY <1>2, <1>3, <1>4, <1>5

\* Of two different selections exactly one comes first.
LEMMA VectorsTotal ==
  ASSUME NEW S \in SUBSET Candidates, NEW T \in SUBSET Candidates, S # T
  PROVE  VectorBefore(S, T) <=> ~VectorBefore(T, S)
<1>1. PICK d \in Candidates : FirstDifference(S, T, d)
  BY DifferenceDecides
<1>2. FirstDifference(T, S, d)
  BY <1>1 DEF FirstDifference, AgreeBelow
<1>3. VectorBefore(S, T) <=> BeforeAt(S, T, d)
  BY <1>1, DifferenceDecides
<1>4. VectorBefore(T, S) <=> BeforeAt(T, S, d)
  BY <1>2, DifferenceDecides
<1>5. QED
  BY <1>1, <1>2, <1>3, <1>4 DEF BeforeAt, FirstDifference

\* It is transitive.
LEMMA VectorsTransitive ==
  ASSUME NEW S \in SUBSET Candidates, NEW T \in SUBSET Candidates, NEW U \in SUBSET Candidates,
         VectorBefore(S, T), VectorBefore(T, U)
  PROVE  VectorBefore(S, U)
<1>1. S # T /\ T # U
  BY DEF VectorBefore
<1>2. S # U
  BY <1>1, VectorsTotal
<1>3. Candidates \subseteq Nat
  BY SearchAssumption
<1>4. PICK d \in Candidates : BeforeAt(S, T, d)
  BY <1>1, DifferenceDecides
<1>5. PICK e \in Candidates : BeforeAt(T, U, e)
  BY <1>1, DifferenceDecides
<1>6. d \in Nat /\ e \in Nat
  BY <1>3
<1>7. CASE d < e
  <2>1. FirstDifference(S, U, d)
    BY <1>3, <1>4, <1>5, <1>7 DEF BeforeAt, FirstDifference, AgreeBelow
  <2>2. d \in S => \E u \in U : u > d
    <3>. SUFFICES ASSUME d \in S PROVE \E u \in U : u > d
      OBVIOUS
    <3>1. CASE e \in U
      BY <1>7, <3>1
    <3>2. CASE e \notin U
      <4>1. PICK u \in U : u > e
        BY <1>5, <3>2 DEF BeforeAt, FirstDifference
      <4>2. u \in Nat
        BY <1>3
      <4>3. u > d
        BY <1>6, <1>7, <4>1, <4>2
      <4>4. QED
        BY <4>3
    <3>3. QED
      BY <3>1, <3>2
  <2>3. d \notin S => \A s \in S : ~(s > d)
    BY <1>4 DEF BeforeAt
  <2>4. QED
    BY <1>2, <2>1, <2>2, <2>3, DifferenceDecides DEF BeforeAt
<1>8. CASE e < d
  <2>1. FirstDifference(S, U, e)
    BY <1>3, <1>4, <1>5, <1>8 DEF BeforeAt, FirstDifference, AgreeBelow
  <2>2. e \in S <=> e \in T
    BY <1>4, <1>8 DEF BeforeAt, FirstDifference, AgreeBelow
  <2>3. e \in S => \E u \in U : u > e
    BY <1>5, <2>2 DEF BeforeAt
  <2>4. e \notin S => \A s \in S : ~(s > e)
    <3>. SUFFICES ASSUME e \notin S, NEW s \in S, s > e PROVE FALSE
      OBVIOUS
    <3>1. \A t \in T : ~(t > e)
      BY <1>5, <2>2 DEF BeforeAt
    <3>2. d \notin T
      BY <1>8, <3>1
    <3>3. d \in S
      BY <1>4, <3>2 DEF BeforeAt, FirstDifference
    <3>4. PICK t \in T : t > d
      BY <1>4, <3>3 DEF BeforeAt
    <3>5. t \in Nat
      BY <1>3
    <3>6. t > e
      BY <1>6, <1>8, <3>4, <3>5
    <3>7. QED
      BY <3>1, <3>6
  <2>5. QED
    BY <1>2, <2>1, <2>3, <2>4, DifferenceDecides DEF BeforeAt
<1>9. CASE d = e
  <2>1. d \notin S /\ d \in T /\ d \notin U
    BY <1>4, <1>5, <1>9 DEF BeforeAt, FirstDifference
  <2>2. \A s \in S : ~(s > d)
    BY <1>4, <2>1 DEF BeforeAt
  <2>3. PICK f \in Candidates : FirstDifference(S, U, f)
    BY <1>2, DifferenceDecides
  <2>4. AgreeBelow(S, U, d)
    BY <1>4, <1>5, <1>9 DEF BeforeAt, FirstDifference, AgreeBelow
  <2>5. f > d
    BY <1>3, <2>1, <2>3, <2>4 DEF FirstDifference, AgreeBelow
  <2>6. f \notin S
    BY <2>2, <2>5
  <2>7. \A s \in S : ~(s > f)
    BY <1>3, <1>6, <2>2, <2>5
  <2>8. QED
    BY <1>2, <2>3, <2>6, <2>7, DifferenceDecides DEF BeforeAt
<1>10. QED
  BY <1>6, <1>7, <1>8, <1>9

\* Among some selections there is a first.
LEMMA FirstVector ==
  ASSUME NEW X \in SUBSET SUBSET Candidates, X # {}
  PROVE  \E S \in X : \A T \in X : NotAfter(S, T)
<1>. DEFINE R == {x \in X \X X : VectorBefore(x[1], x[2])}
<1>1. \A S, T \in X : <<S, T>> \in R <=> VectorBefore(S, T)
  OBVIOUS
<1>2. Orders(R, X)
  <2>. HIDE DEF R
  <2>. SUFFICES ASSUME NEW x \in X, NEW y \in X, NEW z \in X
                PROVE  /\ <<x, x>> \notin R
                       /\ <<x, y>> \in R /\ <<y, z>> \in R => <<x, z>> \in R
                       /\ x # y => <<x, y>> \in R \/ <<y, x>> \in R
    BY DEF Orders
  <2>1. ~VectorBefore(x, x)
    BY DEF VectorBefore
  <2>2. VectorBefore(x, y) /\ VectorBefore(y, z) => VectorBefore(x, z)
    BY VectorsTransitive
  <2>3. x # y => VectorBefore(x, y) \/ VectorBefore(y, x)
    BY VectorsTotal
  <2>4. QED
    BY <1>1, <2>1, <2>2, <2>3
<1>3. IsFiniteSet(X)
  BY SearchAssumption, FS_SUBSET, FS_Subset
<1>. HIDE DEF R
<1>4. Cardinality(X) \in Nat /\ Cardinality(X) # 0
  BY <1>3, FS_CardinalityType, FS_EmptySet
<1>5. PICK S \in X : Rank(R, X, S) = 0
  <2>1. 0 \in 0 .. Cardinality(X) - 1
    BY <1>4
  <2>2. QED
    BY <1>2, <1>3, <2>1, RanksNumber
<1>6. {T \in X : <<T, S>> \in R} = {}
  <2>1. IsFiniteSet({T \in X : <<T, S>> \in R})
    BY <1>3, FS_Subset
  <2>2. QED
    BY <1>5, <2>1, FS_EmptySet DEF Rank
<1>7. \A T \in X : T # S => VectorBefore(S, T)
  BY <1>1, <1>2, <1>6 DEF Orders
<1>8. QED
  BY <1>7 DEF NotAfter

\* And among some plans a best.
LEMMA BestPlan ==
  ASSUME NEW Q, Q # {}, \A q \in Q : q.selected \in SUBSET Candidates /\ q.cost \in Nat
  PROVE  \E p \in Q : \A q \in Q : Better(p, q)
<1>. DEFINE costs    == {q.cost : q \in Q}
            cheapest == {q \in Q : q.cost = Min(costs)}
            X        == {q.selected : q \in cheapest}
<1>1. costs \in SUBSET Nat /\ costs # {}
  OBVIOUS
<1>2. Min(costs) \in costs /\ \A n \in costs : Min(costs) <= n
  BY <1>1, MinOfNaturals
<1>3. X # {} /\ X \in SUBSET SUBSET Candidates
  BY <1>2
<1>4. PICK S \in X : \A T \in X : NotAfter(S, T)
  BY <1>3, FirstVector
<1>5. PICK p \in cheapest : p.selected = S
  OBVIOUS
<1>6. ASSUME NEW q \in Q
      PROVE  Better(p, q)
  <2>1. p.cost = Min(costs) /\ q.cost \in costs /\ Min(costs) <= q.cost
    BY <1>2
  <2>2. p.cost \in Nat /\ q.cost \in Nat
    OBVIOUS
  <2>3. q.cost = Min(costs) => NotAfter(p.selected, q.selected)
    BY <1>4, <1>5
  <2>. HIDE DEF costs, cheapest, X
  <2>4. QED
    BY <2>1, <2>2, <2>3 DEF Better
<1>7. QED
  BY <1>6

-----------------------------------------------------------------------------
(* The composition of the frontiers *)

\* A price is the number of its units; those of disjoint selections add up.
LEMMA PricesAdd ==
  ASSUME call \in Calls, NEW S \in SUBSET Candidates, NEW T \in SUBSET Candidates, S \cap T = {}
  PROVE  /\ Price(S \cup T) = Price(S) + Price(T)
         /\ Cardinality(S \cup T) = Cardinality(S) + Cardinality(T)
<1>. DEFINE p == ProblemOf(Whole, call.max, NoWork)
<1>1. Whole.actions \subseteq Candidates
  BY DEF Whole
<1>2. NoWork \in [calls : 0 .. call.oracleCalls - 1, nodes : 0 .. call.searchNodes - 1]
  BY CallFacts DEF NoWork
<1>3. p \in Problem /\ p.cost = call.cost
  BY <1>1, <1>2, CallFacts, PartIsProblem
<1>. HIDE DEF p
<1>4. \A X : CostOf(p, X) = Price(X)
  BY <1>3 DEF CostOf, Price, CostWith
<1>5. \A X \in SUBSET Candidates :
         /\ IsFiniteSet(X) /\ IsFiniteSet(Units(call.cost, X))
         /\ Price(X) = Cardinality(Units(call.cost, X))
  BY <1>3, <1>4, CostIsUnits
<1>6. Units(call.cost, S \cup T) = Units(call.cost, S) \cup Units(call.cost, T)
  BY DEF Units
<1>7. Units(call.cost, S) \cap Units(call.cost, T) = {}
  BY DEF Units
<1>8. Cardinality({}) = 0
  BY FS_EmptySet
<1>9. Price(S \cup T) = Cardinality(Units(call.cost, S)) + Cardinality(Units(call.cost, T)) - 0
  <2>. DEFINE A == Units(call.cost, S)
              B == Units(call.cost, T)
  <2>1. IsFiniteSet(A) /\ IsFiniteSet(B) /\ A \cap B = {}
    BY <1>5, <1>7
  <2>2. Price(S \cup T) = Cardinality(A \cup B)
    BY <1>5, <1>6
  <2>. HIDE DEF A, B
  <2>3. QED
    BY <1>8, <2>1, <2>2, FS_Union DEF A, B
<1>10. Cardinality(S \cup T) = Cardinality(S) + Cardinality(T) - 0
  BY <1>5, <1>8, FS_Union
<1>11. /\ Cardinality(S) \in Nat /\ Cardinality(T) \in Nat
       /\ Cardinality(Units(call.cost, S)) \in Nat /\ Cardinality(Units(call.cost, T)) \in Nat
  BY <1>5, FS_CardinalityType
<1>12. Price(S) = Cardinality(Units(call.cost, S)) /\ Price(T) = Cardinality(Units(call.cost, T))
  BY <1>5
<1>13. QED
  BY <1>9, <1>10, <1>11, <1>12

\* A plan of a part is a selection of its actions that meets its criteria.
LEMMA PlanMeets ==
  ASSUME NEW part, NEW max, NEW S
  PROVE  S \in PlansWithin(part, max) <=>
           /\ S \subseteq part.actions /\ Cardinality(S) <= max
           /\ \A s \in part.states : Holds(s, S)
BY DEF PlansWithin, SurvivingIn

FirstParts(n) ==
  [states  |-> UNION {Parts[i].states : i \in 1 .. n},
   actions |-> UNION {Parts[i].actions : i \in 1 .. n}]

\* The first parts have actions of their own too, and together they are the whole.
LEMMA FirstPartsFacts ==
  ASSUME call \in Calls
  PROVE  /\ FirstParts(0).states = {} /\ FirstParts(0).actions = {}
         /\ FirstParts(Len(Parts)).states = Whole.states
         /\ FirstParts(Len(Parts)).actions = Whole.actions
         /\ \A n \in 1 .. Len(Parts) :
              /\ FirstParts(n).states = FirstParts(n - 1).states \cup Parts[n].states
              /\ FirstParts(n).actions = FirstParts(n - 1).actions \cup Parts[n].actions
              /\ FirstParts(n - 1).actions \cap Parts[n].actions = {}
         /\ \A n \in 0 .. Len(Parts) :
              /\ FirstParts(n).actions \subseteq Candidates
              /\ \A s \in FirstParts(n).states : \A R \in call.needs[s] :
                   R \subseteq FirstParts(n).actions
<1>1. /\ Len(Parts) \in Nat \ {0}
      /\ \A i \in 1 .. Len(Parts) :
           /\ Parts[i].states \subseteq Whole.states /\ Parts[i].actions \subseteq Candidates
           /\ \A s \in Parts[i].states : \A R \in call.needs[s] : R \subseteq Parts[i].actions
      /\ \A i, j \in 1 .. Len(Parts) : i # j => Parts[i].actions \cap Parts[j].actions = {}
      /\ \A s \in Whole.states : \E i \in 1 .. Len(Parts) : s \in Parts[i].states
      /\ \A a \in Candidates : \E i \in 1 .. Len(Parts) : a \in Parts[i].actions
  BY PartsPart
<1>2. \A n : /\ FirstParts(n).states = UNION {Parts[i].states : i \in 1 .. n}
             /\ FirstParts(n).actions = UNION {Parts[i].actions : i \in 1 .. n}
  BY DEF FirstParts
<1>3. FirstParts(0).states = {} /\ FirstParts(0).actions = {}
  BY <1>2
<1>4. FirstParts(Len(Parts)).states = Whole.states
  <2>. DEFINE all == UNION {Parts[i].states : i \in 1 .. Len(Parts)}
  <2>1. all \subseteq Whole.states
    BY <1>1
  <2>2. Whole.states \subseteq all
    BY <1>1
  <2>3. FirstParts(Len(Parts)).states = all
    BY <1>2
  <2>. HIDE DEF all
  <2>4. QED
    BY <2>1, <2>2, <2>3
<1>5. FirstParts(Len(Parts)).actions = Whole.actions
  <2>. DEFINE all == UNION {Parts[i].actions : i \in 1 .. Len(Parts)}
  <2>1. all \subseteq Candidates
    BY <1>1
  <2>2. Candidates \subseteq all
    BY <1>1
  <2>3. FirstParts(Len(Parts)).actions = all
    BY <1>2
  <2>4. Whole.actions = Candidates
    BY DEF Whole
  <2>. HIDE DEF all
  <2>5. QED
    BY <2>1, <2>2, <2>3, <2>4
<1>6. ASSUME NEW n \in 1 .. Len(Parts)
      PROVE  /\ FirstParts(n).states = FirstParts(n - 1).states \cup Parts[n].states
             /\ FirstParts(n).actions = FirstParts(n - 1).actions \cup Parts[n].actions
             /\ FirstParts(n - 1).actions \cap Parts[n].actions = {}
  <2>1. 1 .. n = (1 .. n - 1) \cup {n} /\ 1 .. n - 1 \subseteq 1 .. Len(Parts)
    BY <1>1
  <2>2. \A i \in 1 .. n - 1 : i # n
    BY <1>1
  <2>3. FirstParts(n - 1).actions \cap Parts[n].actions = {}
    BY <1>1, <1>2, <2>1, <2>2
  <2>4. QED
    BY <1>2, <2>1, <2>3
<1>7. ASSUME NEW n \in 0 .. Len(Parts)
      PROVE  /\ FirstParts(n).actions \subseteq Candidates
             /\ \A s \in FirstParts(n).states : \A R \in call.needs[s] :
                  R \subseteq FirstParts(n).actions
  <2>1. 1 .. n \subseteq 1 .. Len(Parts)
    BY <1>1
  <2>2. QED
    BY <1>1, <1>2, <2>1
<1>8. QED
  BY <1>3, <1>4, <1>5, <1>6, <1>7

\* The plans of the first parts: none is too large, and for every selection that
\* meets their criteria there is one at most as large that costs at most as much.
PartialHolds(n, plans) ==
  /\ \A p \in plans : /\ p = [selected |-> p.selected, cost |-> Price(p.selected)]
                      /\ p.selected \in PlansWithin(FirstParts(n), call.max)
  /\ \A S \in PlansWithin(FirstParts(n), call.max) :
       \E p \in plans : Size(p) <= Cardinality(S) /\ p.cost <= Price(S)

Joined(p, q) == [selected |-> p.selected \cup q.selected, cost |-> p.cost + q.cost]

\* What the union of a plan of the first parts and one of the next is.
JoinOf(n, p, q, r) ==
  /\ r = [selected |-> r.selected, cost |-> Price(r.selected)]
  /\ r.selected \subseteq FirstParts(n).actions /\ r.selected \in SUBSET Candidates
  /\ \A s \in FirstParts(n).states : Holds(s, r.selected)
  /\ r.cost = p.cost + q.cost /\ r.cost \in Nat
  /\ p.cost \in Nat /\ q.cost \in Nat
  /\ Size(p) \in Nat /\ Size(q) \in Nat /\ Size(r) = Size(p) + Size(q)

\* The plans of different parts have no candidate in common.
LEMMA JoinedMeets ==
  ASSUME call \in Calls, NEW n \in 1 .. Len(Parts), NEW partial, PartialHolds(n - 1, partial),
         NEW plans, Plans(Parts[n], plans), NEW p \in partial, NEW q \in plans
  PROVE  JoinOf(n, p, q, Joined(p, q))
<1>. DEFINE r     == Joined(p, q)
            first == FirstParts(n - 1)
            next  == Parts[n]
<1>1. /\ first.actions \subseteq Candidates /\ next.actions \subseteq Candidates
      /\ first.actions \cap next.actions = {}
      /\ FirstParts(n).states = first.states \cup next.states
      /\ FirstParts(n).actions = first.actions \cup next.actions
  <2>1. n - 1 \in 0 .. Len(Parts)
    BY PartsPart
  <2>2. QED
    BY <2>1, FirstPartsFacts, PartsPart
<1>. HIDE DEF first, next
<1>2. p = [selected |-> p.selected, cost |-> Price(p.selected)]
      /\ p.selected \in PlansWithin(first, call.max)
  BY DEF PartialHolds, first
<1>3. q = [selected |-> q.selected, cost |-> Price(q.selected)]
      /\ q.selected \in PlansWithin(next, call.max)
  BY <1>1, PlansFacts DEF next
<1>4. /\ p.selected \subseteq first.actions /\ \A s \in first.states : Holds(s, p.selected)
      /\ q.selected \subseteq next.actions /\ \A s \in next.states : Holds(s, q.selected)
  BY <1>2, <1>3, PlanMeets
<1>5. /\ p.selected \in SUBSET Candidates /\ q.selected \in SUBSET Candidates
      /\ p.selected \cap q.selected = {}
  BY <1>1, <1>4
<1>6. p.cost = Price(p.selected) /\ q.cost = Price(q.selected)
  BY <1>2, <1>3
<1>7. r.selected = p.selected \cup q.selected /\ r.cost = p.cost + q.cost
      /\ r = [selected |-> r.selected, cost |-> r.cost]
  BY DEF Joined
<1>8. /\ Price(p.selected \cup q.selected) = Price(p.selected) + Price(q.selected)
      /\ Cardinality(p.selected \cup q.selected) = Cardinality(p.selected) + Cardinality(q.selected)
  BY <1>5, PricesAdd
<1>9. /\ Cardinality(p.selected) \in Nat /\ Cardinality(q.selected) \in Nat
      /\ Price(p.selected) \in Nat /\ Price(q.selected) \in Nat
  BY <1>1, <1>2, <1>3, PlanFacts
<1>. HIDE DEF r
<1>10. r.cost = Price(r.selected) /\ r.cost \in Nat
  BY <1>6, <1>7, <1>8, <1>9
<1>11. \A s \in FirstParts(n).states : Holds(s, r.selected)
  BY <1>1, <1>4, <1>7 DEF Holds
<1>12. Size(p) \in Nat /\ Size(q) \in Nat /\ Size(r) = Size(p) + Size(q)
  BY <1>7, <1>8, <1>9 DEF Size
<1>13. r = [selected |-> r.selected, cost |-> Price(r.selected)]
  BY <1>7, <1>10
<1>14. r.selected \subseteq FirstParts(n).actions /\ r.selected \in SUBSET Candidates
  BY <1>1, <1>4, <1>7
<1>15. QED
  BY <1>6, <1>7, <1>9, <1>10, <1>11, <1>12, <1>13, <1>14 DEF r, JoinOf

\* Joining the plans of one more part keeps what the plans of the parts hold.
LEMMA WithPlanHolds ==
  ASSUME call \in Calls, NEW n \in 1 .. Len(Parts), NEW partial, PartialHolds(n - 1, partial),
         NEW plans, Plans(Parts[n], plans),
         \A k \in 0 .. call.max : Answered(Parts[n], plans, k)
  PROVE  PartialHolds(n, WithPlan(partial, plans))
<1>. DEFINE joined == {Joined(p, q) : p \in partial, q \in plans}
            within == {r \in joined : Size(r) <= call.max}
            kept   == {r \in within : \A t \in within : Size(t) = Size(r) => Better(r, t)}
<1>1. WithPlan(partial, plans) = kept
  BY DEF WithPlan, Joined
<1>2. \A r \in joined :
         /\ r = [selected |-> r.selected, cost |-> Price(r.selected)]
         /\ r.selected \subseteq FirstParts(n).actions /\ r.selected \in SUBSET Candidates
         /\ \A s \in FirstParts(n).states : Holds(s, r.selected)
         /\ r.cost \in Nat
  <2>. SUFFICES ASSUME NEW r \in joined
                PROVE  /\ r = [selected |-> r.selected, cost |-> Price(r.selected)]
                       /\ r.selected \subseteq FirstParts(n).actions
                       /\ r.selected \in SUBSET Candidates
                       /\ \A s \in FirstParts(n).states : Holds(s, r.selected)
                       /\ r.cost \in Nat
    OBVIOUS
  <2>1. PICK p \in partial, q \in plans : r = Joined(p, q)
    OBVIOUS
  <2>2. JoinOf(n, p, q, r)
    BY <2>1, JoinedMeets
  <2>3. QED
    BY <2>2 DEF JoinOf
<1>. HIDE DEF joined
<1>3. ASSUME NEW r \in kept
      PROVE  /\ r = [selected |-> r.selected, cost |-> Price(r.selected)]
             /\ r.selected \in PlansWithin(FirstParts(n), call.max)
  BY <1>2, PlanMeets DEF Size
<1>4. ASSUME NEW S \in PlansWithin(FirstParts(n), call.max)
      PROVE  \E r \in kept : Size(r) <= Cardinality(S) /\ r.cost <= Price(S)
  <2>. DEFINE first == FirstParts(n - 1)
              next  == Parts[n]
              A     == S \cap first.actions
              B     == S \cap next.actions
  <2>1. n - 1 \in 0 .. Len(Parts)
    BY PartsPart
  <2>2. /\ first.actions \subseteq Candidates /\ next.actions \subseteq Candidates
        /\ first.actions \cap next.actions = {}
        /\ FirstParts(n).states = first.states \cup next.states
        /\ FirstParts(n).actions = first.actions \cup next.actions
        /\ \A s \in first.states : \A R \in call.needs[s] : R \subseteq first.actions
        /\ \A s \in next.states : \A R \in call.needs[s] : R \subseteq next.actions
    BY <2>1, FirstPartsFacts, PartsPart
  <2>. HIDE DEF first, next
  <2>3. /\ S \subseteq first.actions \cup next.actions /\ Cardinality(S) <= call.max
        /\ \A s \in first.states \cup next.states : Holds(s, S)
    BY <2>2, PlanMeets
  <2>4. A \cup B = S /\ A \cap B = {} /\ A \in SUBSET Candidates /\ B \in SUBSET Candidates
    BY <2>2, <2>3
  <2>5. (\A s \in first.states : Holds(s, A)) /\ (\A s \in next.states : Holds(s, B))
    BY <2>2, <2>3 DEF Holds
  <2>6. A \subseteq first.actions /\ B \subseteq next.actions
    OBVIOUS
  <2>. HIDE DEF A, B
  <2>7. Price(S) = Price(A) + Price(B) /\ Cardinality(S) = Cardinality(A) + Cardinality(B)
    BY <2>4, PricesAdd
  <2>8. /\ Cardinality(A) \in Nat /\ Cardinality(B) \in Nat
        /\ Price(A) \in Nat /\ Price(B) \in Nat /\ call.max \in Nat
    BY <2>4, SearchAssumption, FS_Subset, FS_CardinalityType, PriceFacts, CallFacts
  <2>9. Cardinality(A) <= call.max /\ Cardinality(B) \in 0 .. call.max
    BY <2>3, <2>7, <2>8
  <2>10. PICK p \in partial : Size(p) <= Cardinality(A) /\ p.cost <= Price(A)
    <3>1. A \in PlansWithin(first, call.max)
      BY <2>5, <2>6, <2>9, PlanMeets
    <3>2. QED
      BY <3>1 DEF PartialHolds, first
  <2>11. PICK q \in plans : Size(q) <= Cardinality(B) /\ q.cost <= Price(B)
    <3>1. B \in PlansWithin(next, Cardinality(B))
      BY <2>5, <2>6, <2>8, PlanMeets
    <3>2. QED
      BY <2>9, <3>1 DEF Answered, next
  <2>. DEFINE r == Joined(p, q)
  <2>12. JoinOf(n, p, q, r)
    BY JoinedMeets
  <2>. HIDE DEF r
  <2>13. /\ r.cost = p.cost + q.cost /\ p.cost \in Nat /\ q.cost \in Nat
         /\ Size(p) \in Nat /\ Size(q) \in Nat /\ Size(r) = Size(p) + Size(q)
    BY <2>12 DEF JoinOf
  <2>14. Size(r) <= Cardinality(S) /\ r.cost <= Price(S) /\ Size(r) <= call.max /\ Size(r) \in Nat
    <3>1. Size(p) + Size(q) <= Cardinality(A) + Cardinality(B)
      BY <2>8, <2>10, <2>11, <2>13
    <3>2. p.cost + q.cost <= Price(A) + Price(B)
      BY <2>8, <2>10, <2>11, <2>13
    <3>3. Size(r) <= Cardinality(S) /\ r.cost <= Price(S)
      BY <2>7, <2>13, <3>1, <3>2
    <3>4. Size(r) \in Nat /\ Cardinality(S) \in Nat
      BY <2>7, <2>8, <2>13
    <3>5. QED
      BY <2>3, <2>8, <3>3, <3>4
  <2>. DEFINE like == {t \in within : Size(t) = Size(r)}
  <2>15. r \in like
    <3>1. r \in joined
      BY DEF joined, r
    <3>2. QED
      BY <2>14, <3>1
  <2>16. \A t \in like : t.selected \in SUBSET Candidates /\ t.cost \in Nat
    BY <1>2
  <2>17. PICK t \in like : \A u \in like : Better(t, u)
    BY <2>15, <2>16, BestPlan
  <2>18. t \in kept
    BY <2>17
  <2>19. Better(t, r) /\ t.cost \in Nat /\ r.cost \in Nat
    BY <2>13, <2>15, <2>16, <2>17
  <2>20. t.cost <= r.cost /\ Size(t) = Size(r)
    BY <2>19 DEF Better
  <2>21. Price(S) \in Nat
    BY <2>7, <2>8
  <2>22. QED
    BY <2>14, <2>18, <2>19, <2>20, <2>21
<1>. HIDE DEF kept
<1>5. QED
  BY <1>1, <1>3, <1>4 DEF PartialHolds

\* The equation of the plans of the first parts.
Partials(f, n) ==
  f = [m \in 0 .. n |->
         IF m = 0 THEN {[selected |-> {}, cost |-> 0]} ELSE WithPlan(f[m - 1], frontiers[m])]

\* It has a solution up to every part.
LEMMA PartialsExist ==
  ASSUME NEW n \in Nat
  PROVE  \E f : Partials(f, n)
<1>. DEFINE missing == {m \in Nat : ~\E f : Partials(f, m)}
            least   == Min(missing)
<1>1. SUFFICES ASSUME missing # {} PROVE FALSE
  OBVIOUS
<1>2. least \in missing /\ \A m \in missing : least <= m
  BY <1>1, MinOfNaturals
<1>. HIDE DEF least
<1>3. CASE least = 0
  <2>. DEFINE f == [m \in 0 .. 0 |-> {[selected |-> {}, cost |-> 0]}]
  <2>1. Partials(f, 0)
    BY DEF Partials
  <2>2. QED
    BY <1>2, <1>3, <2>1
<1>4. CASE least # 0
  <2>. DEFINE before == least - 1
  <2>1. before \in Nat /\ before \notin missing
    BY <1>2, <1>4
  <2>2. PICK f : Partials(f, before)
    BY <2>1
  <2>. DEFINE g == [m \in 0 .. least |->
                      IF m = least THEN WithPlan(f[before], frontiers[least]) ELSE f[m]]
  <2>3. least \in Nat
    BY <1>2
  <2>4. ASSUME NEW m \in 0 .. least
        PROVE  g[m] = IF m = 0 THEN {[selected |-> {}, cost |-> 0]}
                      ELSE WithPlan(g[m - 1], frontiers[m])
    <3>1. CASE m = least
      <4>1. g[m] = WithPlan(f[before], frontiers[least])
        BY <2>3, <3>1
      <4>2. g[m - 1] = f[before]
        BY <1>4, <2>3, <3>1
      <4>. HIDE DEF g, before
      <4>3. QED
        BY <1>4, <3>1, <4>1, <4>2
    <3>2. CASE m # least
      <4>1. m \in 0 .. before /\ g[m] = f[m]
        BY <2>3, <3>2
      <4>2. f[m] = IF m = 0 THEN {[selected |-> {}, cost |-> 0]}
                   ELSE WithPlan(f[m - 1], frontiers[m])
        BY <2>2, <4>1 DEF Partials
      <4>3. m # 0 => g[m - 1] = f[m - 1]
        BY <2>3, <3>2
      <4>. HIDE DEF g, before
      <4>4. QED
        BY <4>1, <4>2, <4>3
    <3>3. QED
      BY <3>1, <3>2
  <2>5. Partials(g, least)
    <3>1. g = [m \in 0 .. least |-> g[m]]
      OBVIOUS
    <3>. HIDE DEF g
    <3>2. QED
      BY <2>4, <3>1 DEF Partials
  <2>6. QED
    BY <1>2, <2>5
<1>5. QED
  BY <1>3, <1>4

\* So the plans of the first parts are those of one part fewer and the next.
LEMMA PartialIs ==
  ASSUME Len(frontiers) \in Nat
  PROVE  Partials(Partial, Len(frontiers))
<1>1. \E f : Partials(f, Len(frontiers))
  BY PartialsExist
<1>2. Partial = CHOOSE f : Partials(f, Len(frontiers))
  BY DEF Partial, Partials
<1>3. QED
  BY <1>1, <1>2

\* The plans of the first parts hold, as far as the frontiers go.
LEMMA PartialsHold ==
  ASSUME call \in Calls, PartsDone, NEW n \in 0 .. Len(frontiers)
  PROVE  PartialHolds(n, Partial[n])
<1>. DEFINE wrong == {m \in 0 .. Len(frontiers) : ~PartialHolds(m, Partial[m])}
            least == Min(wrong)
<1>1. Len(frontiers) \in Nat /\ Len(frontiers) <= Len(Parts) /\ Len(Parts) \in Nat
  BY PartsPart DEF PartsDone, Done
<1>2. Partials(Partial, Len(frontiers))
  BY <1>1, PartialIs
<1>3. \A m \in 0 .. Len(frontiers) :
         Partial[m] = IF m = 0 THEN {[selected |-> {}, cost |-> 0]}
                      ELSE WithPlan(Partial[m - 1], frontiers[m])
  BY <1>2 DEF Partials
<1>4. SUFFICES ASSUME wrong # {} PROVE FALSE
  OBVIOUS
<1>5. least \in wrong /\ \A m \in wrong : least <= m
  <2>1. wrong \in SUBSET Nat
    BY <1>1
  <2>2. QED
    BY <1>4, <2>1, MinOfNaturals
<1>. HIDE DEF least
<1>6. CASE least = 0
  <2>1. Partial[0] = {[selected |-> {}, cost |-> 0]}
    BY <1>1, <1>3
  <2>2. Price({}) = 0 /\ Cardinality({}) = 0
    <3>. DEFINE p == ProblemOf(Whole, call.max, NoWork)
    <3>1. Whole.actions \subseteq Candidates
      BY DEF Whole
    <3>2. NoWork \in [calls : 0 .. call.oracleCalls - 1, nodes : 0 .. call.searchNodes - 1]
      BY CallFacts DEF NoWork
    <3>3. p \in Problem /\ p.cost = call.cost
      BY <3>1, <3>2, CallFacts, PartIsProblem
    <3>. HIDE DEF p
    <3>4. CostOf(p, {}) = Price({})
      BY <3>3 DEF CostOf, Price, CostWith
    <3>5. QED
      BY <3>3, <3>4, NothingIsFree, FS_EmptySet
  <2>3. {} \in PlansWithin(FirstParts(0), call.max)
    <3>1. FirstParts(0).states = {} /\ call.max \in Nat
      BY FirstPartsFacts, CallFacts
    <3>2. QED
      BY <2>2, <3>1, PlanMeets
  <2>4. \A S \in PlansWithin(FirstParts(0), call.max) : S = {}
    <3>1. FirstParts(0).actions = {}
      BY FirstPartsFacts
    <3>2. QED
      BY <3>1, PlanMeets
  <2>. DEFINE q == [selected |-> {}, cost |-> 0]
  <2>5. q.selected = {} /\ q.cost = 0 /\ q = [selected |-> q.selected, cost |-> Price(q.selected)]
    BY <2>2
  <2>6. Size(q) = 0
    BY <2>2 DEF Size
  <2>. HIDE DEF q
  <2>7. PartialHolds(0, {q})
    <3>1. \A S \in PlansWithin(FirstParts(0), call.max) :
            Size(q) <= Cardinality(S) /\ q.cost <= Price(S)
      <4>. SUFFICES ASSUME NEW S \in PlansWithin(FirstParts(0), call.max)
                    PROVE  Size(q) <= Cardinality(S) /\ q.cost <= Price(S)
        OBVIOUS
      <4>1. S = {}
        BY <2>4
      <4>2. Cardinality(S) = 0 /\ Price(S) = 0
        BY <2>2, <4>1
      <4>3. QED
        BY <2>5, <2>6, <4>2
    <3>2. QED
      BY <2>3, <2>5, <3>1 DEF PartialHolds
  <2>8. QED
    BY <1>5, <1>6, <2>1, <2>7 DEF q
<1>7. CASE least # 0
  <2>1. least \in 1 .. Len(frontiers) /\ least \in 1 .. Len(Parts) /\ least - 1 \in 0 .. Len(frontiers)
    BY <1>1, <1>5, <1>7
  <2>2. least - 1 \notin wrong
    BY <1>1, <1>5, <2>1
  <2>3. PartialHolds(least - 1, Partial[least - 1])
    BY <2>1, <2>2
  <2>4. /\ Plans(Parts[least], frontiers[least])
        /\ \A k \in 0 .. call.max : Answered(Parts[least], frontiers[least], k)
    BY <2>1 DEF PartsDone, Done
  <2>5. PartialHolds(least, WithPlan(Partial[least - 1], frontiers[least]))
    BY <2>1, <2>3, <2>4, WithPlanHolds
  <2>6. Partial[least] = WithPlan(Partial[least - 1], frontiers[least])
    BY <1>3, <1>7, <2>1
  <2>7. QED
    BY <1>5, <2>5, <2>6
<1>8. QED
  BY <1>6, <1>7

\* Two sets of selections have the same least cost when each has for every
\* selection of the other one that costs at most as much.
LEMMA SameLeastCost ==
  ASSUME call \in Calls, problem.cost = call.cost,
         NEW A \in SUBSET SUBSET Candidates, NEW B \in SUBSET SUBSET Candidates,
         \A S \in A : \E T \in B : Price(T) <= Price(S),
         \A T \in B : \E S \in A : Price(S) <= Price(T)
  PROVE  LeastCost(A) = LeastCost(B)
<1>1. \A S : Cost(S) = Price(S)
  BY PriceFacts
<1>2. \A S \in SUBSET Candidates : Price(S) \in Nat
  BY PriceFacts
<1>3. CASE A = {}
  BY <1>3 DEF LeastCost
<1>4. CASE A # {}
  <2>. DEFINE costsA == {Cost(S) : S \in A}
              costsB == {Cost(T) : T \in B}
  <2>1. B # {}
    BY <1>4
  <2>2. costsA \in SUBSET Nat /\ costsA # {} /\ costsB \in SUBSET Nat /\ costsB # {}
    BY <1>1, <1>2, <1>4, <2>1
  <2>3. /\ Min(costsA) \in costsA /\ \A n \in costsA : Min(costsA) <= n
        /\ Min(costsB) \in costsB /\ \A n \in costsB : Min(costsB) <= n
    BY <2>2, MinOfNaturals
  <2>4. \A m \in costsA : \E n \in costsB : n <= m
    BY <1>1
  <2>5. \A n \in costsB : \E m \in costsA : m <= n
    BY <1>1
  <2>6. LeastCost(A) = Min(costsA) /\ LeastCost(B) = Min(costsB)
    BY <1>4, <2>1 DEF LeastCost
  <2>. HIDE DEF costsA, costsB
  <2>7. Min(costsA) \in Nat /\ Min(costsB) \in Nat
    BY <2>2, <2>3
  <2>8. PICK n \in costsB : n <= Min(costsA)
    BY <2>3, <2>4
  <2>9. PICK m \in costsA : m <= Min(costsB)
    BY <2>3, <2>5
  <2>10. Min(costsB) <= n /\ Min(costsA) <= m /\ n \in Nat /\ m \in Nat
    BY <2>2, <2>3
  <2>11. Min(costsA) = Min(costsB)
    BY <2>7, <2>8, <2>9, <2>10
  <2>12. QED
    BY <2>6, <2>11
<1>5. QED
  BY <1>3, <1>4

\* The frontier of a part has the least costs.
LEMMA FrontierLeast ==
  ASSUME call \in Calls, problem.cost = call.cost, NEW part, part.actions \subseteq Candidates,
         NEW plans, Plans(part, plans), NEW k \in 0 .. call.max, Answered(part, plans, k)
  PROVE  LeastCost(PlansWithin(part, k)) =
         LeastCost({p.selected : p \in {q \in plans : Size(q) <= k}})
<1>. DEFINE A == PlansWithin(part, k)
            B == {p.selected : p \in {q \in plans : Size(q) <= k}}
<1>1. \A q \in plans : /\ q.selected \in PlansWithin(part, call.max)
                       /\ q.selected \in SUBSET Candidates /\ q.cost = Price(q.selected)
  BY PlansFacts
<1>2. A \in SUBSET SUBSET Candidates /\ B \in SUBSET SUBSET Candidates
  BY <1>1 DEF PlansWithin
<1>3. B \subseteq A
  BY <1>1 DEF PlansWithin, Size
<1>4. \A S \in A : \E T \in B : Price(T) <= Price(S)
  <2>. SUFFICES ASSUME NEW S \in A PROVE \E T \in B : Price(T) <= Price(S)
    OBVIOUS
  <2>1. PICK q \in plans : Size(q) <= k /\ q.cost <= Price(S)
    BY DEF Answered
  <2>2. q.selected \in B /\ Price(q.selected) <= Price(S)
    BY <1>1, <2>1
  <2>3. QED
    BY <2>2
<1>5. \A T \in B : \E S \in A : Price(S) <= Price(T)
  <2>. SUFFICES ASSUME NEW T \in B PROVE \E S \in A : Price(S) <= Price(T)
    OBVIOUS
  <2>1. T \in A /\ Price(T) \in Nat
    BY <1>2, <1>3, PriceFacts
  <2>2. Price(T) <= Price(T)
    BY <2>1
  <2>3. QED
    BY <2>1, <2>2
<1>. HIDE DEF A, B
<1>6. LeastCost(A) = LeastCost(B)
  BY <1>2, <1>4, <1>5, SameLeastCost
<1>7. QED
  BY <1>6 DEF A, B

\* The composition has the least cost of the whole.
LEMMA CompositionLeast ==
  ASSUME call \in Calls, problem.cost = call.cost, PartsDone, Len(frontiers) = Len(Parts)
  PROVE  LeastCost({p.selected : p \in Composed}) = LeastCost(PlansWithin(Whole, call.max))
<1>. DEFINE plans == Partial[Len(frontiers)]
            A     == {p.selected : p \in Composed}
            B     == PlansWithin(Whole, call.max)
<1>1. Len(frontiers) \in Nat
  BY DEF PartsDone, Done
<1>2. PartialHolds(Len(frontiers), plans)
  BY <1>1, PartialsHold
<1>3. PlansWithin(FirstParts(Len(frontiers)), call.max) = B
  <2>1. /\ FirstParts(Len(frontiers)).states = Whole.states
        /\ FirstParts(Len(frontiers)).actions = Whole.actions
    BY FirstPartsFacts
  <2>2. QED
    BY <2>1 DEF PlansWithin, SurvivingIn
<1>4. Composed = {p \in plans : \A q \in plans : Better(p, q)}
  BY DEF Composed
<1>. HIDE DEF plans
<1>5. Whole.actions = Candidates
  BY DEF Whole
<1>6. B \in SUBSET SUBSET Candidates
  BY <1>5 DEF PlansWithin
<1>7. \A p \in plans : p.selected \in B /\ p.cost = Price(p.selected)
  BY <1>2, <1>3 DEF PartialHolds
<1>8. \A p \in plans : p.selected \in SUBSET Candidates /\ p.cost \in Nat
  BY <1>6, <1>7, PriceFacts
<1>9. A \subseteq B
  BY <1>4, <1>7
<1>10. \A S \in A : \E T \in B : Price(T) <= Price(S)
  <2>. SUFFICES ASSUME NEW S \in A PROVE \E T \in B : Price(T) <= Price(S)
    OBVIOUS
  <2>1. S \in B /\ Price(S) \in Nat
    BY <1>6, <1>9, PriceFacts
  <2>2. Price(S) <= Price(S)
    BY <2>1
  <2>3. QED
    BY <2>1, <2>2
<1>11. \A T \in B : \E S \in A : Price(S) <= Price(T)
  <2>. SUFFICES ASSUME NEW T \in B PROVE \E S \in A : Price(S) <= Price(T)
    OBVIOUS
  <2>1. PICK q \in plans : q.cost <= Price(T)
    BY <1>2, <1>3 DEF PartialHolds
  <2>2. PICK p \in plans : \A r \in plans : Better(p, r)
    BY <1>8, <2>1, BestPlan
  <2>3. Better(p, q) /\ p.cost \in Nat /\ q.cost \in Nat /\ Price(T) \in Nat
    BY <1>6, <1>8, <2>2, PriceFacts
  <2>4. p.cost <= Price(T)
    BY <2>1, <2>3 DEF Better
  <2>5. p.selected \in A /\ Price(p.selected) <= Price(T)
    BY <1>4, <1>7, <2>2, <2>4
  <2>6. QED
    BY <2>5
<1>12. A \in SUBSET SUBSET Candidates
  BY <1>6, <1>9
<1>. HIDE DEF A, B
<1>13. LeastCost(A) = LeastCost(B)
  BY <1>6, <1>10, <1>11, <1>12, SameLeastCost
<1>14. QED
  BY <1>13 DEF A, B

(* The frontier of a part that is done has for every number of activations  *)
(* the least cost of a plan with at most so many, and no plan that another  *)
(* makes needless; and the plan that is composed of the frontiers is a      *)
(* cheapest plan of the whole (coverage_frontier/compose.rs).               *)
THEOREM FrontiersCompose == ArtifactSpec => []CompositionHolds
<1>1. ArtifactInv => CompositionHolds
  <2>. SUFFICES ASSUME ArtifactInv PROVE CompositionHolds
    OBVIOUS
  <2>1. call \in Calls /\ PartsDone /\ Done(frontiers)
    BY DEF ArtifactInv, PartsDone
  <2>2. Len(frontiers) \in Nat /\ DOMAIN frontiers = 1 .. Len(frontiers)
    BY <2>1 DEF Done
  <2>3. Len(frontiers) # 0 \/ stage = "composed" => problem.cost = call.cost
    <3>1. CASE stage = "idle"
      BY <3>1 DEF ArtifactInv
    <3>2. CASE stage # "idle"
      BY <3>2 DEF ArtifactInv
    <3>3. QED
      BY <3>1, <3>2
  <2>4. ASSUME NEW i \in DOMAIN frontiers
        PROVE  /\ \A p \in frontiers[i] : \A q \in frontiers[i] \ {p} : ~Dominates(p, q)
               /\ \A k \in 0 .. Min({call.max, Cardinality(Parts[i].actions)}) :
                    LeastCost(PlansWithin(Parts[i], k)) =
                    LeastCost({p.selected : p \in {q \in frontiers[i] : Size(q) <= k}})
    <3>. DEFINE part  == Parts[i]
                plans == frontiers[i]
                most  == Min({call.max, Cardinality(part.actions)})
    <3>1. i \in 1 .. Len(frontiers) /\ i \in 1 .. Len(Parts)
      BY <2>1, <2>2, PartsPart DEF Done
    <3>2. Plans(part, plans) /\ \A k \in 0 .. call.max : Answered(part, plans, k)
      BY <2>1, <3>1 DEF Done
    <3>3. part.actions \subseteq Candidates
      BY <2>1, <3>1, PartsPart
    <3>. HIDE DEF part, plans
    <3>4. call.max \in Nat /\ Cardinality(part.actions) \in Nat
      BY <2>1, <3>3, CallFacts, SearchAssumption, FS_Subset, FS_CardinalityType
    <3>5. most \in Nat /\ most <= call.max
      BY <3>4, MinOfTwo
    <3>6. problem.cost = call.cost
      BY <2>2, <2>3, <3>1
    <3>. HIDE DEF most
    <3>7. ASSUME NEW k \in 0 .. most
          PROVE  LeastCost(PlansWithin(part, k)) =
                 LeastCost({p.selected : p \in {q \in plans : Size(q) <= k}})
      <4>1. k \in 0 .. call.max
        BY <3>4, <3>5
      <4>2. QED
        BY <2>1, <3>2, <3>3, <3>6, <4>1, FrontierLeast
    <3>8. \A p \in plans : \A q \in plans \ {p} : ~Dominates(p, q)
      BY <3>2 DEF Plans
    <3>9. QED
      BY <3>7, <3>8 DEF part, plans, most
  <2>5. ASSUME stage = "composed"
        PROVE  LeastCost({p.selected : p \in Composed}) = LeastCost(PlansWithin(Whole, call.max))
    <3>1. Len(frontiers) = Len(Parts) /\ problem.cost = call.cost
      BY <2>3, <2>5 DEF ArtifactInv
    <3>2. QED
      BY <2>1, <3>1, CompositionLeast
  <2>6. QED
    BY <2>4, <2>5 DEF CompositionHolds
<1>2. QED
  BY <1>1, ArtifactInvariant, PTL
=============================================================================
