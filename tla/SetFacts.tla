-------------------------------- MODULE SetFacts --------------------------------
(****************************************************************************)
(* Facts about finite sets that the proofs of several components rest on:   *)
(* the least element of a set of naturals, the place of an element in a     *)
(* strict order, sums over a set, and functions defined by recursion.       *)
(****************************************************************************)
EXTENDS Integers, FiniteSets, FiniteSetsExt, FiniteSetTheorems, TLAPS

\* A nonempty set of naturals has a smallest element.
LEMMA MinOfNaturals ==
  ASSUME NEW S \in SUBSET Nat, S # {}
  PROVE  /\ Min(S) \in S
         /\ \A s \in S : Min(S) <= s
<1>1. PICK top \in S : TRUE
  OBVIOUS
<1>. DEFINE Upto == 0 .. top
            Below == {0 .. s : s \in {r \in S : r <= top}}
<1>2. IsFiniteSet(Upto)
  BY FS_Interval
<1>3. Below \subseteq FiniteSubsetsOf(Upto)
  <2>1. Below \subseteq SUBSET Upto
    OBVIOUS
  <2>2. QED
    BY <1>2, <2>1, FS_FiniteSubsetsOfFinite
<1>4. PICK x \in Below : \A y \in Below : <<y, x>> \notin StrictSubsetOrdering(Upto)
  <2>1. Below # {}
    BY <1>1
  <2>2. QED
    BY <1>3, <2>1, WFMin, FS_StrictSubsetOrderingWellFounded
<1>5. PICK r \in S : r <= top /\ x = 0 .. r
  OBVIOUS
<1>6. ASSUME NEW s \in S, s < r
      PROVE  FALSE
  <2>1. s <= top /\ 0 .. s \subseteq 0 .. r /\ r \in 0 .. r /\ r \notin 0 .. s
    BY <1>5, <1>6
  <2>2. 0 .. s \in SUBSET Upto /\ 0 .. r \in SUBSET Upto
    BY <1>5, <2>1
  <2>3. <<0 .. s, x>> \in StrictSubsetOrdering(Upto)
    BY <1>5, <2>1, <2>2 DEF StrictSubsetOrdering
  <2>4. 0 .. s \in Below
    BY <2>1
  <2>5. QED
    BY <1>4, <2>3, <2>4
<1>7. \A s \in S : r <= s
  BY <1>6
<1>8. QED
  BY <1>7 DEF Min

-----------------------------------------------------------------------------
(* The order of a finite set *)

\* A strict total order on a set, as a set of pairs.
Orders(R, S) ==
  \A x, y, z \in S :
    /\ <<x, x>> \notin R
    /\ <<x, y>> \in R /\ <<y, z>> \in R => <<x, z>> \in R
    /\ x # y => <<x, y>> \in R \/ <<y, x>> \in R

\* How many elements come before one.
Rank(R, S, x) == Cardinality({y \in S : <<y, x>> \in R})

\* The ranks number the elements of a finite set 0, 1, 2, ... in their order.
LEMMA RanksNumber ==
  ASSUME NEW S, IsFiniteSet(S), NEW R, Orders(R, S)
  PROVE  /\ Cardinality(S) \in Nat
         /\ \A x \in S : Rank(R, S, x) \in 0 .. Cardinality(S) - 1
         /\ \A n \in 0 .. Cardinality(S) - 1 : \E x \in S : Rank(R, S, x) = n
         /\ \A x, y \in S : Rank(R, S, x) = Rank(R, S, y) => x = y
         /\ \A x, y \in S : <<x, y>> \in R => Rank(R, S, x) < Rank(R, S, y)
<1>. DEFINE size      == Cardinality(S)
            before(x) == {y \in S : <<y, x>> \in R}
            turn      == [x \in S |-> Rank(R, S, x)]
<1>1. size \in Nat
  BY FS_CardinalityType
<1>. HIDE DEF size
<1>2. ASSUME NEW x \in S
      PROVE  IsFiniteSet(before(x)) /\ Rank(R, S, x) \in 0 .. size - 1
  <2>1. x \notin before(x)
    BY DEF Orders
  <2>2. IsFiniteSet(before(x)) /\ Cardinality(before(x)) <= size /\ Cardinality(before(x)) # size
    BY <2>1, FS_Subset DEF size
  <2>3. Cardinality(before(x)) \in Nat
    BY <2>2, FS_CardinalityType
  <2>4. QED
    BY <1>1, <2>2, <2>3 DEF Rank
<1>3. ASSUME NEW x \in S, NEW y \in S, <<x, y>> \in R
      PROVE  Rank(R, S, x) < Rank(R, S, y)
  <2>1. before(x) \subseteq before(y) /\ x \in before(y) /\ x \notin before(x)
    BY <1>3 DEF Orders
  <2>2. Cardinality(before(x)) <= Cardinality(before(y)) /\ Cardinality(before(x)) # Cardinality(before(y))
    BY <1>2, <2>1, FS_Subset
  <2>3. Cardinality(before(x)) \in Nat /\ Cardinality(before(y)) \in Nat
    BY <1>2, FS_CardinalityType
  <2>4. QED
    BY <2>2, <2>3 DEF Rank
<1>4. ASSUME NEW x \in S, NEW y \in S, Rank(R, S, x) = Rank(R, S, y)
      PROVE  x = y
  <2>. HIDE DEF before, turn
  <2>1. Rank(R, S, x) \in Int /\ Rank(R, S, y) \in Int
    BY <1>1, <1>2
  <2>2. <<x, y>> \notin R /\ <<y, x>> \notin R
    BY <1>3, <1>4, <2>1
  <2>3. QED
    BY <2>2 DEF Orders
<1>5. turn \in Injection(S, 0 .. size - 1)
  <2>1. turn \in [S -> 0 .. size - 1]
    BY <1>2
  <2>2. \A x, y \in S : turn[x] = turn[y] => x = y
    BY <1>4
  <2>3. QED
    BY <2>1, <2>2 DEF Injection, IsInjective
<1>6. IsFiniteSet(0 .. size - 1) /\ Cardinality(0 .. size - 1) = size
  BY <1>1, FS_Interval
<1>7. turn \in Surjection(S, 0 .. size - 1)
  <2>. HIDE DEF before, turn
  <2>1. IsFiniteSet(S) /\ Cardinality(S) = Cardinality(0 .. size - 1)
    BY <1>6 DEF size
  <2>2. QED
    BY <1>5, <1>6, <2>1, FS_Injection
<1>8. ASSUME NEW n \in 0 .. size - 1
      PROVE  \E x \in S : Rank(R, S, x) = n
  <2>1. \E x \in S : turn[x] = n
    BY <1>7 DEF Surjection
  <2>2. QED
    BY <2>1
<1>9. QED
  BY <1>1, <1>2, <1>3, <1>4, <1>8 DEF size

-----------------------------------------------------------------------------
(* Sums *)

\* One element for every unit of a sum of naturals over a set.
Units(f, S) == UNION {{x} \X (1 .. f[x]) : x \in S}

\* The equation that the fold of + solves, with the elements it chooses.
Picked(s) == CHOOSE x \in s : TRUE
Sums(f, S, g) ==
  g = [s \in SUBSET S |-> IF s = {} THEN 0 ELSE f[Picked(s)] + g[s \ {Picked(s)}]]

\* A sum over a finite set has finitely many units.
LEMMA UnitsFinite ==
  ASSUME NEW S, IsFiniteSet(S), NEW f \in [S -> Nat]
  PROVE  IsFiniteSet(Units(f, S))
<1>. DEFINE block == [y \in S |-> {y} \X (1 .. f[y])]
            all   == {block[y] : y \in S}
<1>1. block \in Surjection(S, all)
  BY DEF Surjection
<1>2. IsFiniteSet(all)
  BY <1>1, FS_Surjection
<1>3. \A B \in all : IsFiniteSet(B)
  <2>. SUFFICES ASSUME NEW y \in S PROVE IsFiniteSet({y} \X (1 .. f[y]))
    OBVIOUS
  <2>. f[y] \in Int
    OBVIOUS
  <2>. HIDE DEF block, all
  <2>1. IsFiniteSet({y})
    BY FS_Singleton
  <2>2. IsFiniteSet(1 .. f[y])
    BY FS_Interval
  <2>3. QED
    BY <2>1, <2>2, FS_Product
<1>4. Units(f, S) = UNION all
  BY DEF Units
<1>5. QED
  BY <1>2, <1>3, <1>4, FS_UNION

\* The units of a sum without one of its elements.
LEMMA UnitsOfRest ==
  ASSUME NEW S, IsFiniteSet(S), NEW f \in [S -> Nat], NEW x \in S
  PROVE  /\ IsFiniteSet(Units(f, S \ {x}))
         /\ IsFiniteSet(Units(f, S))
         /\ Cardinality(Units(f, S)) = f[x] + Cardinality(Units(f, S \ {x}))
<1>. DEFINE here == {x} \X (1 .. f[x])
            rest == Units(f, S \ {x})
<1>2. Units(f, S) = here \cup rest /\ here \cap rest = {}
  BY DEF Units
<1>3. IsFiniteSet(here) /\ Cardinality(here) = f[x]
  <2>1. IsFiniteSet({x}) /\ Cardinality({x}) = 1
    BY FS_Singleton
  <2>. f[x] \in Nat
    OBVIOUS
  <2>2. IsFiniteSet(1 .. f[x]) /\ Cardinality(1 .. f[x]) = f[x]
    BY FS_Interval
  <2>3. IsFiniteSet(here) /\ Cardinality(here) = Cardinality({x}) * Cardinality(1 .. f[x])
    BY <2>1, <2>2, FS_Product
  <2>. HIDE DEF here
  <2>4. QED
    BY <2>1, <2>2, <2>3
<1>4. IsFiniteSet(rest) /\ IsFiniteSet(Units(f, S))
  <2>1. IsFiniteSet(Units(f, S))
    BY UnitsFinite
  <2>2. QED
    BY <1>2, <2>1, FS_Subset
<1>5. Cardinality(rest) \in Nat /\ Cardinality({}) = 0
  BY <1>4, FS_CardinalityType, FS_EmptySet
<1>6. Cardinality(here \cup rest) = Cardinality(here) + Cardinality(rest) - Cardinality(here \cap rest)
  BY <1>3, <1>4, FS_Union
<1>7. QED
  <2>1. f[x] \in Nat
    OBVIOUS
  <2>. HIDE DEF here
  <2>2. Cardinality(Units(f, S)) = Cardinality(here) + Cardinality(rest)
    <3>. HIDE DEF rest
    <3>1. Cardinality(here) \in Nat
      BY <1>3, <2>1
    <3>2. Cardinality(Units(f, S)) = Cardinality(here \cup rest)
      BY <1>2
    <3>3. Cardinality(here \cap rest) = 0
      BY <1>2, <1>5
    <3>4. QED
      BY <1>5, <1>6, <3>1, <3>2, <3>3
  <2>3. QED
    BY <1>3, <1>4, <2>2

\* The number of units solves the equation, and nothing else does: a fold of +
\* counts the units, whatever elements it chooses.
LEMMA SumsCountUnits ==
  ASSUME NEW S, IsFiniteSet(S), NEW f \in [S -> Nat]
  PROVE  /\ \E g : Sums(f, S, g)
         /\ \A g : Sums(f, S, g) => g[S] = Cardinality(Units(f, S))
<1>. DEFINE count == [s \in SUBSET S |-> Cardinality(Units(f, s))]
<1>1. ASSUME NEW s \in SUBSET S
      PROVE  /\ s = {} => count[s] = 0
             /\ s # {} => count[s] = f[Picked(s)] + count[s \ {Picked(s)}]
  <2>1. s = {} => Units(f, s) = {}
    BY DEF Units
  <2>2. ASSUME s # {}
        PROVE  count[s] = f[Picked(s)] + count[s \ {Picked(s)}]
    <3>1. Picked(s) \in s
      BY <2>2 DEF Picked
    <3>2. IsFiniteSet(s)
      BY FS_Subset
    <3>3. [y \in s |-> f[y]] \in [s -> Nat]
      OBVIOUS
    <3>4. \A T \in SUBSET s : Units([y \in s |-> f[y]], T) = Units(f, T)
      BY DEF Units
    <3>. DEFINE h == [y \in s |-> f[y]]
    <3>5. Cardinality(Units(h, s)) = h[Picked(s)] + Cardinality(Units(h, s \ {Picked(s)}))
      BY <3>1, <3>2, <3>3, UnitsOfRest
    <3>6. h[Picked(s)] = f[Picked(s)] /\ Units(h, s) = Units(f, s)
          /\ Units(h, s \ {Picked(s)}) = Units(f, s \ {Picked(s)})
      BY <3>1, <3>4
    <3>. HIDE DEF h
    <3>7. Cardinality(Units(f, s)) = f[Picked(s)] + Cardinality(Units(f, s \ {Picked(s)}))
      BY <3>5, <3>6
    <3>8. QED
      BY <3>7
  <2>3. QED
    BY <2>1, <2>2, FS_EmptySet
<1>2. Sums(f, S, count)
  <2>1. count = [s \in SUBSET S |-> IF s = {} THEN 0 ELSE f[Picked(s)] + count[s \ {Picked(s)}]]
    BY <1>1
  <2>2. QED
    BY <2>1 DEF Sums
<1>3. ASSUME NEW g, Sums(f, S, g)
      PROVE  g[S] = count[S]
  <2>. DEFINE wrong == {s \in SUBSET S : g[s] # count[s]}
              sizes == {Cardinality(s) : s \in wrong}
  <2>. SUFFICES ASSUME wrong # {} PROVE FALSE
    OBVIOUS
  <2>1. \A s \in SUBSET S : IsFiniteSet(s) /\ Cardinality(s) \in Nat
    BY FS_Subset, FS_CardinalityType
  <2>2. sizes \in SUBSET Nat /\ sizes # {}
    BY <2>1
  <2>3. Min(sizes) \in sizes /\ \A n \in sizes : Min(sizes) <= n
    BY <2>2, MinOfNaturals
  <2>4. PICK s \in wrong : \A t \in wrong : Cardinality(s) <= Cardinality(t)
    BY <2>3
  <2>5. s # {}
    BY <1>1, <1>3 DEF Sums
  <2>6. Picked(s) \in s
    BY <2>5 DEF Picked
  <2>7. Cardinality(s \ {Picked(s)}) < Cardinality(s)
    BY <2>1, <2>6, FS_RemoveElement
  <2>8. s \ {Picked(s)} \notin wrong
    <3>1. Cardinality(s) \in Int /\ Cardinality(s \ {Picked(s)}) \in Int
      BY <2>1
    <3>. HIDE DEF wrong
    <3>2. QED
      BY <2>4, <2>7, <3>1
  <2>9. g[s] = f[Picked(s)] + g[s \ {Picked(s)}]
    BY <1>3, <2>5 DEF Sums
  <2>10. QED
    BY <1>1, <2>5, <2>8, <2>9
<1>4. QED
  BY <1>2, <1>3

-----------------------------------------------------------------------------
(* Functions defined by recursion on 0 .. n *)

\* The first number at which a property of the numbers up to n fails.
LEMMA FirstFailure ==
  ASSUME NEW n \in Nat, NEW H \in SUBSET (0 .. n), 0 \in H,
         \A k \in 1 .. n : k - 1 \in H => k \in H
  PROVE  H = 0 .. n
<1>1. ASSUME H # 0 .. n
      PROVE  FALSE
  <2>. DEFINE bad == (0 .. n) \ H
  <2>1. bad \in SUBSET Nat /\ bad # {}
    <3>1. 0 .. n \subseteq Nat
      OBVIOUS
    <3>2. QED
      BY <1>1, <3>1
  <2>. DEFINE least == Min(bad)
  <2>2. least \in bad /\ \A k \in bad : least <= k
    BY <2>1, MinOfNaturals
  <2>. HIDE DEF least
  <2>3. least \in 1 .. n /\ least - 1 \in 0 .. n
    BY <2>2
  <2>4. least - 1 \in H
    BY <2>2, <2>3
  <2>5. QED
    BY <2>2, <2>3, <2>4
<1>2. QED
  BY <1>1

\* Two functions that start alike and go on alike are the same.
GoOnAlike(n, f, g) ==
  f[0] = g[0] /\ \A k \in 1 .. n : f[k - 1] = g[k - 1] => f[k] = g[k]

\* Two such functions agree everywhere.
LEMMA SameRecursion ==
  ASSUME NEW n \in Nat, NEW f, NEW g, GoOnAlike(n, f, g)
  PROVE  \A k \in 0 .. n : f[k] = g[k]
<1>. DEFINE H == {k \in 0 .. n : f[k] = g[k]}
<1>1. H \in SUBSET (0 .. n) /\ 0 \in H
  BY DEF GoOnAlike
<1>2. ASSUME NEW k \in 1 .. n, k - 1 \in H
      PROVE  k \in H
  BY <1>2 DEF GoOnAlike
<1>3. H = 0 .. n
  <2>. HIDE DEF H
  <2>1. QED
    BY <1>1, <1>2, FirstFailure
<1>4. QED
  BY <1>3

\* The functions that start somewhere and take every step.
Recursions(n, D, base, G) ==
  {f \in [0 .. n -> D] : f[0] = base /\ \A k \in 1 .. n : f[k] = G[k][f[k - 1]]}

\* Where every step stays in a set, there is one.
LEMMA RecursionExists ==
  ASSUME NEW n \in Nat, NEW D, NEW base \in D, NEW G,
         \A k \in 1 .. n : \A x \in D : G[k][x] \in D
  PROVE  Recursions(n, D, base, G) # {}
<1>. DEFINE taken(m, f) == f[0] = base /\ \A k \in 1 .. m : f[k] = G[k][f[k - 1]]
            H           == {m \in 0 .. n : \E f \in [0 .. m -> D] : taken(m, f)}
<1>1. 0 \in H
  <2>. DEFINE g == [k \in 0 .. 0 |-> base]
  <2>1. g \in [0 .. 0 -> D] /\ g[0] = base
    OBVIOUS
  <2>2. taken(0, g)
    BY <2>1
  <2>. HIDE DEF g, taken
  <2>3. QED
    BY <2>1, <2>2
<1>2. ASSUME NEW m \in 1 .. n, m - 1 \in H
      PROVE  m \in H
  <2>1. PICK f \in [0 .. m - 1 -> D] : taken(m - 1, f)
    BY <1>2
  <2>. DEFINE g == [k \in 0 .. m |-> IF k = m THEN G[m][f[m - 1]] ELSE f[k]]
  <2>2. f[m - 1] \in D /\ G[m][f[m - 1]] \in D
    BY <2>1
  <2>3. g \in [0 .. m -> D]
    <3>1. ASSUME NEW k \in 0 .. m, k # m
          PROVE  f[k] \in D
      <4>1. k \in 0 .. m - 1
        BY <3>1
      <4>2. QED
        BY <2>1, <4>1
    <3>2. QED
      BY <2>2, <3>1
  <2>4. ASSUME NEW k \in 1 .. m
        PROVE  g[k] = G[k][g[k - 1]]
    <3>1. g[k - 1] = f[k - 1]
      OBVIOUS
    <3>2. k # m => k \in 1 .. m - 1
      OBVIOUS
    <3>3. g[k] = IF k = m THEN G[m][f[m - 1]] ELSE f[k]
      OBVIOUS
    <3>4. QED
      BY <2>1, <3>1, <3>2, <3>3
  <2>5. g[0] = base
    BY <2>1
  <2>6. taken(m, g)
    <3>. HIDE DEF g
    <3>1. QED
      BY <2>4, <2>5
  <2>. HIDE DEF g, taken
  <2>7. QED
    BY <2>3, <2>6
<1>3. H \in SUBSET (0 .. n)
  OBVIOUS
<1>4. H = 0 .. n
  <2>. HIDE DEF H
  <2>1. QED
    BY <1>1, <1>2, <1>3, FirstFailure
<1>5. PICK f \in [0 .. n -> D] : taken(n, f)
  <2>1. n \in 0 .. n
    OBVIOUS
  <2>2. n \in H
    <3>. HIDE DEF H
    <3>1. QED
      BY <1>4, <2>1
  <2>. HIDE DEF taken
  <2>3. QED
    BY <2>2
<1>6. f \in Recursions(n, D, base, G)
  BY <1>5 DEF Recursions
<1>7. QED
  BY <1>6

-----------------------------------------------------------------------------
(* Loops *)

\* A function that follows a loop to where it stops.
LoopsAs(f, D, stop, to, out) ==
  f = [x \in D |-> IF x \in stop THEN out[x] ELSE f[to[x]]]

\* A loop that comes closer to its end with every turn.
Shrinks(D, stop, to, size, n) ==
  /\ size \in [D -> 0 .. n]
  /\ \A x \in D \ stop : to[x] \in D /\ size[to[x]] < size[x]

\* A loop that shrinks is a function.
LEMMA LoopEnds ==
  ASSUME NEW D, NEW stop, NEW to, NEW out, NEW size, NEW n \in Nat,
         Shrinks(D, stop, to, size, n)
  PROVE  \E f : LoopsAs(f, D, stop, to, out)
<1>. DEFINE values  == {out[x] : x \in D}
            turn(f) == [x \in D |-> IF x \in stop THEN out[x] ELSE f[to[x]]]
            G       == [k \in 1 .. n + 2 |-> [f \in [D -> values] |-> turn(f)]]
            base    == [x \in D |-> out[x]]
<1>1. base \in [D -> values]
  OBVIOUS
<1>2. ASSUME NEW f \in [D -> values] PROVE turn(f) \in [D -> values]
  BY DEF Shrinks
<1>3. PICK g \in Recursions(n + 2, [D -> values], base, G) : TRUE
  <2>1. \A k \in 1 .. n + 2 : \A f \in [D -> values] : G[k][f] \in [D -> values]
    BY <1>2
  <2>2. n + 2 \in Nat
    OBVIOUS
  <2>. HIDE DEF G, base, values
  <2>3. QED
    BY <1>1, <2>1, <2>2, RecursionExists
<1>4. /\ g \in [0 .. n + 2 -> [D -> values]]
      /\ \A k \in 1 .. n + 2 : g[k] = G[k][g[k - 1]]
  BY <1>3 DEF Recursions
<1>5. \A k \in 1 .. n + 2 : g[k] = turn(g[k - 1])
  <2>. SUFFICES ASSUME NEW k \in 1 .. n + 2 PROVE g[k] = turn(g[k - 1])
    OBVIOUS
  <2>1. k - 1 \in 0 .. n + 2
    OBVIOUS
  <2>2. g[k - 1] \in [D -> values]
    BY <1>4, <2>1
  <2>3. G[k][g[k - 1]] = turn(g[k - 1])
    BY <2>2
  <2>4. QED
    BY <1>4, <2>3
<1>. HIDE DEF G
<1>6. ASSUME NEW k \in 0 .. n + 1, NEW x \in D
       PROVE  g[k + 1][x] = IF x \in stop THEN out[x] ELSE g[k][to[x]]
  <2>1. k + 1 \in 1 .. n + 2 /\ (k + 1) - 1 = k
    OBVIOUS
  <2>2. g[k + 1] = turn(g[k])
    BY <1>5, <2>1
  <2>3. QED
    BY <2>2
<1>. DEFINE agree(k) == \A x \in D : size[x] < k => g[k][x] = g[k + 1][x]
            H        == {k \in 0 .. n + 1 : agree(k)}
<1>7. 0 \in H
  BY DEF Shrinks
<1>8. ASSUME NEW k \in 1 .. n + 1, k - 1 \in H
      PROVE  k \in H
  <2>. SUFFICES ASSUME NEW x \in D, size[x] < k PROVE g[k][x] = g[k + 1][x]
    OBVIOUS
  <2>1. k - 1 \in 0 .. n + 1 /\ k \in 0 .. n + 1 /\ (k - 1) + 1 = k
    OBVIOUS
  <2>2. /\ g[(k - 1) + 1][x] = IF x \in stop THEN out[x] ELSE g[k - 1][to[x]]
        /\ g[k + 1][x] = IF x \in stop THEN out[x] ELSE g[k][to[x]]
    BY <1>6, <2>1
  <2>3. CASE x \in stop
    BY <2>1, <2>2, <2>3
  <2>4. CASE x \notin stop
    <3>1. to[x] \in D /\ size[to[x]] < size[x] /\ size[to[x]] \in Int /\ size[x] \in Int
      BY <2>4 DEF Shrinks
    <3>2. size[to[x]] < k - 1
      BY <3>1
    <3>3. g[k - 1][to[x]] = g[(k - 1) + 1][to[x]]
      BY <1>8, <3>1, <3>2
    <3>4. (k - 1) + 1 = k
      OBVIOUS
    <3>5. QED
      BY <2>1, <2>2, <2>4, <3>3, <3>4
  <2>5. QED
    BY <2>3, <2>4
<1>9. agree(n + 1)
  <2>1. H = 0 .. n + 1
    <3>. HIDE DEF agree
    <3>1. H \in SUBSET (0 .. n + 1) /\ n + 1 \in Nat
      OBVIOUS
    <3>. HIDE DEF H
    <3>2. QED
      BY <1>7, <1>8, <3>1, FirstFailure
  <2>2. n + 1 \in 0 .. n + 1
    OBVIOUS
  <2>. HIDE DEF agree
  <2>3. QED
    BY <2>1, <2>2
<1>. DEFINE f == g[n + 1]
<1>10. f \in [D -> values]
  <2>1. n + 1 \in 0 .. n + 2
    OBVIOUS
  <2>2. QED
    BY <1>4, <2>1
<1>11. ASSUME NEW x \in D PROVE f[x] = IF x \in stop THEN out[x] ELSE f[to[x]]
  <2>1. n + 1 \in 0 .. n + 1
    OBVIOUS
  <2>2. g[(n + 1) + 1][x] = IF x \in stop THEN out[x] ELSE g[n + 1][to[x]]
    BY <1>6, <2>1
  <2>3. size[x] < n + 1
    BY DEF Shrinks
  <2>4. g[n + 1][x] = g[(n + 1) + 1][x]
    BY <1>9, <2>1, <2>3
  <2>5. QED
    BY <2>2, <2>4
<1>. HIDE DEF f
<1>12. f = [x \in D |-> IF x \in stop THEN out[x] ELSE f[to[x]]]
  BY <1>10, <1>11
<1>13. QED
  BY <1>12 DEF LoopsAs

\* Where the loop stops, whatever its turns keep still holds.
LEMMA LoopKeeps ==
  ASSUME NEW D, NEW stop, NEW to, NEW out, NEW size, NEW n \in Nat,
         Shrinks(D, stop, to, size, n),
         NEW f, LoopsAs(f, D, stop, to, out),
         NEW J \in SUBSET D, \A x \in J \ stop : to[x] \in J,
         NEW start \in J
  PROVE  \E x \in J \cap stop : f[start] = out[x]
<1>. DEFINE lands(x) == \E y \in J \cap stop : f[x] = out[y]
            H        == {k \in 0 .. n : \A x \in J : size[x] <= k => lands(x)}
<1>0. \A x \in J : /\ x \in stop => f[x] = out[x]
                   /\ x \notin stop => f[x] = f[to[x]] /\ to[x] \in J /\ size[to[x]] < size[x]
                   /\ size[x] \in 0 .. n
  BY DEF LoopsAs, Shrinks
<1>1. \A x \in J : x \in stop => lands(x)
  BY <1>0
<1>2. \A x \in J : x \notin stop => (lands(to[x]) => lands(x))
  BY <1>0
<1>. HIDE DEF lands
<1>3. 0 \in H
  <2>1. ASSUME NEW x \in J, size[x] <= 0 PROVE lands(x)
    <3>1. CASE x \in stop
      BY <1>1, <3>1
    <3>2. CASE x \notin stop
      <4>1. to[x] \in J /\ size[to[x]] < size[x]
        BY <1>0, <3>2
      <4>2. size[to[x]] \in 0 .. n /\ size[x] \in 0 .. n
        BY <1>0, <4>1
      <4>3. QED
        BY <2>1, <4>1, <4>2
    <3>3. QED
      BY <3>1, <3>2
  <2>2. QED
    BY <2>1
<1>4. ASSUME NEW k \in 1 .. n, k - 1 \in H
      PROVE  k \in H
  <2>. SUFFICES ASSUME NEW x \in J, size[x] <= k PROVE lands(x)
    OBVIOUS
  <2>1. CASE x \in stop
    BY <1>1, <2>1
  <2>2. CASE x \notin stop
    <3>1. to[x] \in J /\ size[to[x]] < size[x] /\ size[x] \in 0 .. n
      BY <1>0, <2>2
    <3>2. size[to[x]] \in 0 .. n
      BY <1>0, <3>1
    <3>3. size[to[x]] <= k - 1
      BY <3>1, <3>2
    <3>4. QED
      BY <1>2, <1>4, <2>2, <3>1, <3>3
  <2>3. QED
    BY <2>1, <2>2
<1>5. H = 0 .. n
  <2>1. H \in SUBSET (0 .. n)
    OBVIOUS
  <2>. HIDE DEF H
  <2>2. QED
    BY <1>3, <1>4, <2>1, FirstFailure
<1>6. size[start] \in 0 .. n
  BY <1>0
<1>7. size[start] \in H
  <2>. HIDE DEF H
  <2>1. QED
    BY <1>5, <1>6
<1>8. lands(start)
  BY <1>6, <1>7
<1>9. QED
  BY <1>8 DEF lands
=============================================================================
