---------------------------- MODULE CollapseProofs ----------------------------
(****************************************************************************)
(* Theorems about the edge collapse, for every graph and every window.      *)
(* First about the graph: the schedule lists edges, and the verdict on an   *)
(* edge depends on its closed common neighbourhood only.  Then about the    *)
(* ordered and the rounds schedule: what they take from a frozen graph is   *)
(* still true when they use it, and the ordered one implements the serial.  *)
(* Then about the certificates: the edge test and the check of witnesses    *)
(* agree, the removals of every schedule are a history that the verifier    *)
(* can replay, and so it accepts what each of them returns.  And about the  *)
(* shape: a dominated edge can go without a change of the components or of  *)
(* the Euler characteristic, and no other edge goes.                        *)
(****************************************************************************)
EXTENDS CollapseVerifier, SetFacts

-----------------------------------------------------------------------------
(* The schedule *)

\* What an input is, as InputsAssumption says it.
IsInput(input) ==
  DOMAIN input \subseteq Pairs /\ \A p \in DOMAIN input : input[p] \in Level

\* What the schedules need of a list of edges: distances below infinity and
\* two ends.
IsSchedule(list) ==
  /\ list \in Seq(Edge)
  /\ \A i \in 1 .. Len(list) : list[i].u # list[i].v

\* The edges of an input are finitely many, each with two ends.
LEMMA InputEdgesTyped ==
  ASSUME NEW input, IsInput(input)
  PROVE  /\ IsFiniteSet(InputEdges(input))
         /\ InputEdges(input) \subseteq Edge
         /\ \A e \in InputEdges(input) : e.u # e.v
<1>1. \A p \in DOMAIN input : /\ p[1] \in Vertices /\ p[2] \in Vertices /\ p[1] # p[2]
                              /\ input[p] \in Level
  BY DEF IsInput, Pairs, Vertices
<1>2. InputEdges(input) \subseteq Edge /\ \A e \in InputEdges(input) : e.u # e.v
  BY <1>1 DEF InputEdges, Edge
<1>3. IsFiniteSet(DOMAIN input)
  <2>1. IsFiniteSet(Vertices)
    BY FS_Interval, GraphAssumption DEF Vertices
  <2>2. IsFiniteSet(Vertices \X Vertices)
    BY <2>1, FS_Product
  <2>3. DOMAIN input \subseteq Vertices \X Vertices
    BY DEF IsInput, Pairs
  <2>4. QED
    BY <2>2, <2>3, FS_Subset
<1>4. IsFiniteSet(InputEdges(input))
  <2>. DEFINE f == [p \in DOMAIN input |-> [u |-> p[1], v |-> p[2], value |-> input[p]]]
  <2>1. f \in Surjection(DOMAIN input, InputEdges(input))
    BY DEF Surjection, InputEdges
  <2>2. QED
    BY <1>3, <2>1, FS_Surjection
<1>5. QED
  BY <1>2, <1>4

\* The schedule order is a strict total order on edges.
LEMMA BeforeOrders ==
  ASSUME NEW e \in Edge, NEW f \in Edge, NEW g \in Edge
  PROVE  /\ ~Before(e, e)
         /\ Before(e, f) /\ Before(f, g) => Before(e, g)
         /\ e # f => Before(e, f) \/ Before(f, e)
<1>1. /\ e.u \in Int /\ e.v \in Int /\ e.value \in Int
      /\ f.u \in Int /\ f.v \in Int /\ f.value \in Int
      /\ g.u \in Int /\ g.v \in Int /\ g.value \in Int
  BY GraphAssumption DEF Edge, Vertices, Level
<1>2. e # f => e.u # f.u \/ e.v # f.v \/ e.value # f.value
  BY DEF Edge
<1>3. QED
  BY <1>1, <1>2 DEF Before

\* Counting the edges before it numbers the edges of a set 0, 1, 2, ... .
LEMMA EarlierNumbers ==
  ASSUME NEW all \in SUBSET Edge, IsFiniteSet(all)
  PROVE  /\ Cardinality(all) \in Nat
         /\ \A n \in 1 .. Cardinality(all) : \E e \in all : Earlier(all, e) = n - 1
         /\ \A e \in all : Earlier(all, e) \in 0 .. Cardinality(all) - 1
         /\ \A e, f \in all : Before(e, f) => Earlier(all, e) < Earlier(all, f)
<1>. DEFINE R == {p \in all \X all : Before(p[1], p[2])}
<1>1. Orders(R, all)
  BY BeforeOrders DEF Orders
<1>2. ASSUME NEW e \in all
      PROVE  Earlier(all, e) = Rank(R, all, e)
  <2>1. {f \in all : Before(f, e)} = {f \in all : <<f, e>> \in R}
    OBVIOUS
  <2>2. QED
    BY <2>1 DEF Earlier, Rank
<1>3. \A e, f \in all : <<e, f>> \in R <=> Before(e, f)
  OBVIOUS
<1>. HIDE DEF R
<1>4. /\ Cardinality(all) \in Nat
      /\ \A e \in all : Rank(R, all, e) \in 0 .. Cardinality(all) - 1
      /\ \A n \in 0 .. Cardinality(all) - 1 : \E e \in all : Rank(R, all, e) = n
      /\ \A e, f \in all : Rank(R, all, e) = Rank(R, all, f) => e = f
      /\ \A e, f \in all : <<e, f>> \in R => Rank(R, all, e) < Rank(R, all, f)
  BY <1>1, RanksNumber
<1>5. ASSUME NEW n \in 1 .. Cardinality(all)
      PROVE  \E e \in all : Earlier(all, e) = n - 1
  <2>1. n - 1 \in 0 .. Cardinality(all) - 1
    BY <1>4
  <2>2. QED
    BY <1>2, <1>4, <2>1
<1>6. \A e \in all : Earlier(all, e) \in 0 .. Cardinality(all) - 1
  BY <1>2, <1>4
<1>7. ASSUME NEW e \in all, NEW f \in all, Before(e, f)
      PROVE  Earlier(all, e) < Earlier(all, f)
  <2>1. Rank(R, all, e) < Rank(R, all, f)
    BY <1>3, <1>4, <1>7
  <2>2. Earlier(all, e) = Rank(R, all, e) /\ Earlier(all, f) = Rank(R, all, f)
    BY <1>2
  <2>3. QED
    BY <2>1, <2>2
<1>8. QED
  BY <1>4, <1>5, <1>6, <1>7

\* prepare lists the edges of the input, all of them, in schedule order.
THEOREM PreparedInOrder ==
  ASSUME NEW input, IsInput(input)
  PROVE  LET list == Prepared(input)
         IN  /\ IsSchedule(list)
             /\ InputEdges(input) = {list[i] : i \in 1 .. Len(list)}
             /\ \A i, j \in 1 .. Len(list) : i < j <=> Before(list[i], list[j])
<1>. DEFINE all   == InputEdges(input)
            size  == Cardinality(all)
            list  == Prepared(input)
<1>1. IsFiniteSet(all) /\ all \subseteq Edge /\ \A e \in all : e.u # e.v
  BY InputEdgesTyped
<1>2. /\ size \in Nat
      /\ \A n \in 1 .. size : \E e \in all : Earlier(all, e) = n - 1
      /\ \A e \in all : Earlier(all, e) \in 0 .. size - 1
      /\ \A e, f \in all : Before(e, f) => Earlier(all, e) < Earlier(all, f)
  BY <1>1, EarlierNumbers
<1>3. list = [n \in 1 .. size |-> CHOOSE e \in all : Earlier(all, e) = n - 1]
  BY DEF Prepared
<1>. HIDE DEF list, size, all
<1>4. \A n \in 1 .. size : list[n] \in all /\ Earlier(all, list[n]) = n - 1
  BY <1>2, <1>3
<1>5. list \in Seq(Edge) /\ Len(list) = size
  BY <1>1, <1>2, <1>3, <1>4
<1>6. IsSchedule(list)
  BY <1>1, <1>4, <1>5 DEF IsSchedule
<1>7. \A i, j \in 1 .. size : i < j <=> Before(list[i], list[j])
  <2>. SUFFICES ASSUME NEW i \in 1 .. size, NEW j \in 1 .. size
                PROVE  i < j <=> Before(list[i], list[j])
    OBVIOUS
  <2>1. list[i] \in Edge /\ list[j] \in Edge
    BY <1>1, <1>4
  <2>2. Before(list[i], list[j]) => i < j
    BY <1>2, <1>4
  <2>3. i < j => list[i] # list[j] /\ ~Before(list[j], list[i])
    BY <1>2, <1>4
  <2>4. QED
    BY <2>1, <2>2, <2>3, BeforeOrders
<1>8. all = {list[i] : i \in 1 .. size}
  <2>. SUFFICES ASSUME NEW e \in all PROVE \E i \in 1 .. size : list[i] = e
    BY <1>4
  <2>1. Earlier(all, e) \in 0 .. size - 1
    BY <1>2
  <2>2. PICK i \in 1 .. size : i = Earlier(all, e) + 1
    BY <1>2, <2>1
  <2>3. Earlier(all, list[i]) = Earlier(all, e)
    BY <1>4, <2>1, <2>2
  <2>4. list[i] = e
    BY <1>1, <1>2, <1>4, <2>1, <2>3, BeforeOrders
  <2>5. QED
    BY <2>4
<1>9. QED
  BY <1>5, <1>6, <1>7, <1>8 DEF list, all

-----------------------------------------------------------------------------
(* The neighbourhood of an edge *)

\* Some edge of the graph has these ends.
Joined(list, kept, x, y) == \E i \in kept : Ends(list[i]) = {x, y}

\* The distances of a graph are symmetric, and below infinity exactly on the
\* diagonal and along its edges.
LEMMA DistanceFacts ==
  ASSUME NEW list, IsSchedule(list), NEW kept \in SUBSET (1 .. Len(list)),
         NEW x \in Vertices, NEW y \in Vertices
  PROVE  /\ Distances(list, kept)[<<x, y>>] = Distances(list, kept)[<<y, x>>]
         /\ Distances(list, kept)[<<x, y>>] \in Int
         /\ Distances(list, kept)[<<x, y>>] < Infinity
              <=> x = y \/ Joined(list, kept, x, y)
<1>. DEFINE dist          == Distances(list, kept)
            joining(a, b) == {i \in kept : Ends(list[i]) = {a, b}}
            value(S)      == list[CHOOSE i \in S : TRUE].value
<1>1. dist = [p \in Vertices \X Vertices |->
                IF p[1] = p[2] THEN 0
                ELSE IF joining(p[1], p[2]) = {} THEN Infinity
                ELSE value(joining(p[1], p[2]))]
  BY DEF Distances
<1>2. \A S \in SUBSET kept : S # {} => value(S) \in Level
  <2>. SUFFICES ASSUME NEW S \in SUBSET kept, S # {}
                PROVE  value(S) \in Level
    OBVIOUS
  <2>1. PICK i : i = CHOOSE k \in S : TRUE
    OBVIOUS
  <2>2. i \in kept
    BY <2>1
  <2>3. list[i] \in Edge
    BY <2>2 DEF IsSchedule
  <2>4. QED
    BY <2>1, <2>3 DEF Edge
<1>3. joining(x, y) = joining(y, x) /\ joining(x, y) \subseteq kept
  OBVIOUS
<1>4. joining(x, y) # {} <=> Joined(list, kept, x, y)
  BY DEF Joined
<1>. HIDE DEF dist, joining, value
<1>5. /\ dist[<<x, y>>] = IF x = y THEN 0
                          ELSE IF joining(x, y) = {} THEN Infinity
                          ELSE value(joining(x, y))
      /\ dist[<<y, x>>] = IF y = x THEN 0
                          ELSE IF joining(y, x) = {} THEN Infinity
                          ELSE value(joining(y, x))
  BY <1>1
<1>6. 0 \in Int /\ Infinity \in Int /\ 0 < Infinity /\ \A l \in Level : l \in Int /\ l < Infinity
  BY GraphAssumption DEF Infinity, Level
<1>7. QED
  BY <1>2, <1>3, <1>4, <1>5, <1>6 DEF dist

\* What an edge of a schedule is.
LEMMA EndsTyped ==
  ASSUME NEW list, IsSchedule(list), NEW i \in 1 .. Len(list)
  PROVE  /\ list[i].u \in Vertices /\ list[i].v \in Vertices
         /\ list[i].u # list[i].v /\ list[i].value \in Level
         /\ Ends(list[i]) = {list[i].u, list[i].v}
<1>1. list[i] \in Edge /\ list[i].u # list[i].v
  BY DEF IsSchedule
<1>2. QED
  BY <1>1 DEF Edge, Ends

\* The removal of an edge only takes neighbours away.
LEMMA CommonShrinks ==
  ASSUME NEW list, IsSchedule(list), NEW kept \in SUBSET (1 .. Len(list)),
         NEW k, NEW i \in 1 .. Len(list)
  PROVE  ClosedCommon(list, kept \ {k}, i) \subseteq ClosedCommon(list, kept, i)
<1>. DEFINE e     == list[i]
            rest  == kept \ {k}
            dist  == Distances(list, kept)
            after == Distances(list, rest)
<1>1. /\ rest \in SUBSET (1 .. Len(list)) /\ rest \subseteq kept
      /\ e.u \in Vertices /\ e.v \in Vertices
  BY EndsTyped
<1>. HIDE DEF rest
<1>2. \A x, y \in Vertices : after[<<x, y>>] < Infinity => dist[<<x, y>>] < Infinity
  <2>. SUFFICES ASSUME NEW x \in Vertices, NEW y \in Vertices, after[<<x, y>>] < Infinity
                PROVE  dist[<<x, y>>] < Infinity
    OBVIOUS
  <2>1. x = y \/ Joined(list, rest, x, y)
    BY <1>1, DistanceFacts
  <2>2. x = y \/ Joined(list, kept, x, y)
    BY <1>1, <2>1 DEF Joined
  <2>3. QED
    BY <2>2, DistanceFacts
<1>. HIDE DEF dist, after
<1>3. Common(after, e) \subseteq Common(dist, e)
  BY <1>1, <1>2 DEF Common
<1>4. QED
  BY <1>3 DEF ClosedCommon, rest, dist, after

\* Two live edges see each other or neither does: an edge lies in the closed
\* common neighbourhood of another exactly when that lies in its own.
LEMMA NeighbourhoodSymmetric ==
  ASSUME NEW list, IsSchedule(list), NEW kept \in SUBSET (1 .. Len(list)),
         NEW i \in kept, NEW k \in kept,
         Ends(list[k]) \subseteq ClosedCommon(list, kept, i)
  PROVE  Ends(list[i]) \subseteq ClosedCommon(list, kept, k)
<1>. DEFINE a == list[k].u
            b == list[k].v
            c == list[i].u
            d == list[i].v
            Adjacent(x, y) == Distances(list, kept)[<<x, y>>] < Infinity
<1>1. /\ a \in Vertices /\ b \in Vertices /\ a # b /\ Ends(list[k]) = {a, b}
      /\ c \in Vertices /\ d \in Vertices /\ c # d /\ Ends(list[i]) = {c, d}
  BY EndsTyped
<1>2. \A x, y \in Vertices : Adjacent(x, y) <=> Adjacent(y, x)
  BY DistanceFacts
<1>3. Adjacent(a, b) /\ Adjacent(c, d)
  <2>1. Joined(list, kept, a, b) /\ Joined(list, kept, c, d)
    BY <1>1 DEF Joined
  <2>2. QED
    BY <1>1, <2>1, DistanceFacts
<1>4. /\ ClosedCommon(list, kept, i) =
            {c, d} \cup {x \in Vertices \ {c, d} : Adjacent(c, x) /\ Adjacent(d, x)}
      /\ ClosedCommon(list, kept, k) =
            {a, b} \cup {x \in Vertices \ {a, b} : Adjacent(a, x) /\ Adjacent(b, x)}
  BY <1>1 DEF ClosedCommon, Common
<1>. HIDE DEF a, b, c, d, Adjacent
<1>5. c \in ClosedCommon(list, kept, k) /\ d \in ClosedCommon(list, kept, k)
  BY <1>1, <1>2, <1>3, <1>4
<1>6. QED
  BY <1>1, <1>5

\* Removing an edge leaves the distances in the closed common neighbourhood of
\* every edge alone in which it does not lie, and so that neighbourhood.
LEMMA NeighbourhoodLocal ==
  ASSUME NEW list, IsSchedule(list), NEW kept \in SUBSET (1 .. Len(list)),
         NEW i \in kept, NEW k \in kept,
         ~(Ends(list[k]) \subseteq ClosedCommon(list, kept, i))
  PROVE  LET near  == ClosedCommon(list, kept, i)
             dist  == Distances(list, kept)
             after == Distances(list, kept \ {k})
         IN  /\ \A x, y \in near : after[<<x, y>>] = dist[<<x, y>>]
             /\ Common(dist, list[i]) \subseteq near
             /\ list[i].u \in near /\ list[i].v \in near
             /\ Common(after, list[i]) = Common(dist, list[i])
             /\ ClosedCommon(list, kept \ {k}, i) = near
<1>. DEFINE e     == list[i]
            near  == ClosedCommon(list, kept, i)
            rest  == kept \ {k}
            dist  == Distances(list, kept)
            after == Distances(list, rest)
<1>1. /\ e.u \in Vertices /\ e.v \in Vertices /\ Ends(e) = {e.u, e.v}
      /\ near \subseteq Vertices
  <2>1. /\ e.u \in Vertices /\ e.v \in Vertices /\ Ends(e) = {e.u, e.v}
    BY EndsTyped
  <2>2. Common(dist, e) \subseteq Vertices
    BY DEF Common
  <2>3. QED
    BY <2>1, <2>2 DEF ClosedCommon
<1>2. \A x, y \in near : after[<<x, y>>] = dist[<<x, y>>]
  <2>. SUFFICES ASSUME NEW x \in near, NEW y \in near
                PROVE  after[<<x, y>>] = dist[<<x, y>>]
    OBVIOUS
  <2>1. Ends(list[k]) # {x, y}
    OBVIOUS
  <2>. DEFINE joining(L, p) == {j \in L : Ends(list[j]) = {p[1], p[2]}}
              value(S)      == list[CHOOSE j \in S : TRUE].value
              pair          == <<x, y>>
  <2>2. \A L : Distances(list, L) =
                [p \in Vertices \X Vertices |->
                   IF p[1] = p[2] THEN 0
                   ELSE IF joining(L, p) = {} THEN Infinity
                   ELSE value(joining(L, p))]
    BY DEF Distances
  <2>3. joining(rest, pair) = joining(kept, pair)
    BY <2>1
  <2>4. pair \in Vertices \X Vertices
    BY <1>1
  <2>. HIDE DEF rest, near, joining, value, pair
  <2>5. after[pair] = dist[pair]
    BY <2>2, <2>3, <2>4
  <2>6. QED
    BY <2>5 DEF pair
<1>3. Common(dist, e) \subseteq near /\ e.u \in near /\ e.v \in near
  BY <1>1 DEF ClosedCommon
<1>4. Common(after, e) \subseteq near
  BY CommonShrinks DEF ClosedCommon
<1>. HIDE DEF near, dist, after
<1>5. Common(after, e) = Common(dist, e)
  BY <1>2, <1>3, <1>4 DEF Common
<1>6. ClosedCommon(list, kept \ {k}, i) = near
  BY <1>5 DEF ClosedCommon, near, dist, after
<1>7. QED
  BY <1>2, <1>3, <1>5, <1>6 DEF near, dist, after

\* Removing an edge leaves the verdict on every edge alone in whose closed
\* common neighbourhood it does not lie.
LEMMA VerdictLocal ==
  ASSUME NEW list, IsSchedule(list), NEW kept \in SUBSET (1 .. Len(list)),
         NEW i \in kept, NEW k \in kept,
         ~(Ends(list[k]) \subseteq ClosedCommon(list, kept, i))
  PROVE  TestEdge(list, kept \ {k}, i) = TestEdge(list, kept, i)
<1>. DEFINE e     == list[i]
            near  == ClosedCommon(list, kept, i)
            dist  == Distances(list, kept)
            after == Distances(list, kept \ {k})
<1>1. /\ \A x, y \in near : after[<<x, y>>] = dist[<<x, y>>]
      /\ Common(dist, e) \subseteq near /\ e.u \in near /\ e.v \in near
      /\ Common(after, e) = Common(dist, e)
  BY NeighbourhoodLocal
<1>. HIDE DEF near, dist, after
<1>2. Candidates(after, e) = Candidates(dist, e)
  BY <1>1 DEF Candidates
<1>3. Among(after, Candidates(after, e)) = Among(dist, Candidates(dist, e))
  <2>1. DOMAIN Candidates(dist, e) = Common(dist, e)
    BY DEF Candidates
  <2>2. \A p \in (DOMAIN Candidates(dist, e)) \X (DOMAIN Candidates(dist, e)) : after[p] = dist[p]
    BY <1>1, <2>1
  <2>3. QED
    BY <1>2, <2>2 DEF Among
<1>4. QED
  BY <1>2, <1>3 DEF TestEdge, dist, after

-----------------------------------------------------------------------------
(* The schedules *)

\* The graph that a run works on.
GraphTyped ==
  /\ IsSchedule(edges)
  /\ live \in SUBSET Positions
  /\ testAll \in BOOLEAN /\ testAllNext \in BOOLEAN

\* Every schedule starts from a graph prepared from an input, with all its
\* edges alive.
LEMMA RunInitTyped ==
  ASSUME RunInit
  PROVE  GraphTyped
<1>1. PICK input \in Inputs : edges = Prepared(input)
  BY DEF RunInit, Starts
<1>2. IsInput(input)
  BY InputsAssumption DEF IsInput
<1>3. IsSchedule(edges)
  BY <1>1, <1>2, PreparedInOrder
<1>4. QED
  BY <1>3 DEF RunInit, GraphTyped

-----------------------------------------------------------------------------
(* The ordered schedule *)

OrderedTyped ==
  /\ GraphTyped
  /\ window \in Nat \ {0}
  /\ removedAny \in BOOLEAN
  /\ position \in Nat \ {0}
  /\ members \in SUBSET Positions
  /\ phase \in {"form", "test", "retire", "done"}

\* The members that the walk has yet to reach are alive: only the edges that
\* it has passed are removed.
MembersAlive ==
  phase \in {"test", "retire"} => \A i \in members : i >= position => i \in live

OrderedInv == OrderedTyped /\ MembersAlive /\ CacheFresh

\* A run of the ordered schedule starts in its invariant: no verdict is cached
\* yet.
LEMMA OrderedInitInv == OrderedInit => OrderedInv
<1>. SUFFICES ASSUME OrderedInit PROVE OrderedInv
  OBVIOUS
<1>1. GraphTyped
  BY RunInitTyped DEF OrderedInit
<1>2. OrderedTyped
  <2>1. /\ window \in Windows /\ removedAny = FALSE /\ phase = "form" /\ position = 1
        /\ members = {}
    BY DEF OrderedInit
  <2>2. window \in Nat \ {0} /\ position \in Nat \ {0}
    BY <2>1, WindowsAssumption
  <2>. removedAny \in BOOLEAN
    BY <2>1
  <2>3. members \in SUBSET Positions
    BY <2>1
  <2>4. phase \in {"form", "test", "retire", "done"}
    BY <2>1
  <2>5. QED
    BY <1>1, <2>2, <2>3, <2>4 DEF OrderedTyped
<1>3. QED
  BY <1>2 DEF OrderedInit, OrderedInv, MembersAlive, CacheFresh

\* The steps that form a stage, test it and walk past an edge that stays.
LEMMA QuietStepInv ==
  ASSUME OrderedInv,
         FormStage \/ TestStage \/ RetireSkip \/ RetireKeep \/ EndPass
  PROVE  OrderedInv'
<1>1. UNCHANGED <<edges, live, window>>
  BY DEF FormStage, TestStage, RetireSkip, RetireKeep, EndPass, graphVars, runVars
<1>2. GraphTyped' /\ UNCHANGED Positions
  BY <1>1 DEF OrderedInv, OrderedTyped, GraphTyped, FormStage, TestStage, RetireSkip, RetireKeep,
              EndPass, graphVars, runVars, Positions
<1>3. CASE FormStage
  <2>1. /\ members' \subseteq {i \in Positions : i >= position /\ i \in live}
        /\ phase' = "test" /\ UNCHANGED <<removedAny, position>>
    BY <1>3 DEF FormStage, Due, graphVars
  <2>2. OrderedTyped'
    BY <1>1, <1>2, <2>1 DEF OrderedInv, OrderedTyped
  <2>3. MembersAlive' /\ CacheFresh'
    BY <1>1, <2>1 DEF MembersAlive, CacheFresh
  <2>4. QED
    BY <2>2, <2>3 DEF OrderedInv
<1>4. CASE TestStage
  <2>1. /\ cached' = [i \in members |-> TestEdge(edges, live, i)]
        /\ phase = "test" /\ phase' = "retire"
        /\ UNCHANGED <<removedAny, position, members>>
    BY <1>4 DEF TestStage, graphVars
  <2>2. OrderedTyped'
    BY <1>1, <1>2, <2>1 DEF OrderedInv, OrderedTyped
  <2>3. MembersAlive'
    BY <1>1, <2>1 DEF OrderedInv, MembersAlive
  <2>4. \A i \in members' : cached'[i] = TestEdge(edges', live', i)
    BY <1>1, <2>1
  <2>5. CacheFresh'
    BY <2>4 DEF CacheFresh
  <2>6. QED
    BY <2>2, <2>3, <2>5 DEF OrderedInv
<1>5. CASE RetireSkip \/ RetireKeep
  <2>1. /\ phase = "retire" /\ phase' \in {"form", "retire"}
        /\ position' = position + 1
        /\ UNCHANGED <<removedAny, members, cached, stale>>
    BY <1>5 DEF RetireSkip, RetireKeep, Advance, graphVars
  <2>2. \A i \in members : i >= position' => i >= position
    BY <2>1 DEF OrderedInv, OrderedTyped, Positions
  <2>3. QED
    BY <1>1, <1>2, <2>1, <2>2 DEF OrderedInv, OrderedTyped, MembersAlive, CacheFresh
<1>6. CASE EndPass
  <2>1. /\ phase' \in {"form", "done"} /\ position' \in {position, 1}
        /\ removedAny' \in {removedAny, FALSE} /\ UNCHANGED members
    BY <1>6 DEF EndPass
  <2>2. OrderedTyped'
    <3>1. removedAny' \in BOOLEAN
      BY <2>1 DEF OrderedInv, OrderedTyped
    <3>2. QED
      BY <1>1, <1>2, <2>1, <3>1 DEF OrderedInv, OrderedTyped
  <2>3. MembersAlive' /\ CacheFresh'
    BY <2>1 DEF MembersAlive, CacheFresh
  <2>4. QED
    BY <2>2, <2>3 DEF OrderedInv
<1>7. QED
  BY <1>3, <1>4, <1>5, <1>6

\* A removal: the members left that it does not make stale do not have the
\* removed edge in their neighbourhoods, because it does not have them in its.
LEMMA RemoveInv ==
  ASSUME OrderedInv, RetireRemove
  PROVE  OrderedInv'
<1>1. /\ phase = "retire" /\ phase' \in {"form", "retire"}
      /\ position \in live /\ position' = position + 1
      /\ live' = live \ {position} /\ stale' = stale \cup Invalidated
      /\ testAllNext' = (testAllNext \/ Bails(edges, live, position))
      /\ removedAny' = TRUE
      /\ UNCHANGED <<edges, window, testAll, members, cached>>
  BY DEF RetireRemove, Advance, Due
<1>2. OrderedTyped'
  BY <1>1 DEF OrderedInv, OrderedTyped, GraphTyped, Positions
<1>3. \A i \in members : i >= position' => i # position /\ i >= position /\ i > position
  BY <1>1 DEF OrderedInv, OrderedTyped, Positions
<1>4. MembersAlive'
  BY <1>1, <1>3 DEF OrderedInv, MembersAlive
<1>5. CacheFresh'
  <2>. SUFFICES ASSUME NEW i \in members \ stale', i >= position'
                PROVE  cached[i] = TestEdge(edges, live', i)
    BY <1>1 DEF CacheFresh
  <2>1. i \in members \ stale /\ i >= position /\ i > position /\ i \in live
    BY <1>1, <1>3 DEF OrderedInv, MembersAlive
  <2>2. ~(Ends(edges[i]) \subseteq ClosedCommon(edges, live, position))
    BY <1>1, <2>1 DEF Invalidated
  <2>3. ~(Ends(edges[position]) \subseteq ClosedCommon(edges, live, i))
    BY <1>1, <2>1, <2>2, NeighbourhoodSymmetric DEF OrderedInv, OrderedTyped, GraphTyped, Positions
  <2>4. TestEdge(edges, live', i) = TestEdge(edges, live, i)
    BY <1>1, <2>1, <2>3, VerdictLocal DEF OrderedInv, OrderedTyped, GraphTyped, Positions
  <2>5. QED
    BY <1>1, <2>1, <2>4 DEF OrderedInv, CacheFresh
<1>6. QED
  BY <1>2, <1>4, <1>5 DEF OrderedInv

\* Forming, testing, retiring and ending a pass keep the invariant of the
\* ordered schedule (ordered.rs).
LEMMA OrderedStepInv == OrderedInv /\ [OrderedNext]_orderedVars => OrderedInv'
<1>. SUFFICES ASSUME OrderedInv, [OrderedNext]_orderedVars PROVE OrderedInv'
  OBVIOUS
<1>1. CASE UNCHANGED orderedVars
  BY <1>1 DEF orderedVars, graphVars, runVars, OrderedInv, OrderedTyped, GraphTyped, Positions,
              MembersAlive, CacheFresh
<1>2. QED
  BY <1>1, QuietStepInv, RemoveInv DEF OrderedNext

\* What every step of the ordered schedule keeps: the types, the members that
\* the walk has not reached are alive, and their verdicts are fresh (ordered.rs).
THEOREM OrderedInvariant == OrderedSpec => []OrderedInv
BY OrderedInitInv, OrderedStepInv, PTL DEF OrderedSpec

\* A verdict that a worker took on the frozen graph is, when the walk uses it,
\* the verdict of the graph as it is then, whatever the window and however
\* many edges of the stage are gone.
THEOREM CacheAlwaysFresh == OrderedSpec => []CacheFresh
BY OrderedInvariant, PTL DEF OrderedInv

-----------------------------------------------------------------------------
(* The serial schedule *)

\* The serial schedule's copy of the graph says the same.
LEMMA SameGraph ==
  ASSUME NEW E, NEW L, NEW i
  PROVE  /\ Serial!TestEdge(E, L, i) = TestEdge(E, L, i)
         /\ Serial!Marked(E, L, i) = Marked(E, L, i)
         /\ Serial!Bails(E, L, i) = Bails(E, L, i)
<1>1. Serial!Distances(E, L) = Distances(E, L)
  BY DEF Serial!Distances, Distances, Serial!Vertices, Vertices, Serial!Ends, Ends,
         Serial!Infinity, Infinity
<1>2. \A d, e : Serial!Common(d, e) = Common(d, e)
  BY DEF Serial!Common, Common, Serial!Vertices, Vertices, Serial!Ends, Ends,
         Serial!Infinity, Infinity
<1>3. \A d, e : Serial!Candidates(d, e) = Candidates(d, e)
  BY DEF Serial!Candidates, Candidates, Serial!Vertices, Vertices, Serial!Ends, Ends,
         Serial!Infinity, Infinity, Serial!Common, Common, Serial!Max, Max
<1>4. \A d, e : Serial!Among(d, e) = Among(d, e)
  BY DEF Serial!Among, Among
<1>5. \A d, e : Serial!Segments(d, e) = Segments(d, e)
  BY DEF Serial!Segments, Segments, Serial!Min, Min, Serial!Dominating, Dominating
<1>6. Serial!TestEdge(E, L, i) = TestEdge(E, L, i)
  BY <1>1, <1>3, <1>4, <1>5 DEF Serial!TestEdge, TestEdge
<1>7. \A e : Serial!Ends(e) = Ends(e)
  BY DEF Serial!Ends, Ends
<1>8. Serial!ClosedCommon(E, L, i) = ClosedCommon(E, L, i)
  BY <1>1, <1>2, <1>7 DEF Serial!ClosedCommon, ClosedCommon
<1>. \A S : Serial!Cardinality(S) = Cardinality(S)
  BY DEF Serial!Cardinality, Cardinality
<1>9. Serial!Bails(E, L, i) = Bails(E, L, i)
  <2>1. ASSUME NEW x
        PROVE  Serial!ListLength(E, x) = ListLength(E, x)
    <3>1. {j \in 1 .. Len(E) : x \in Serial!Ends(E[j])} = {j \in 1 .. Len(E) : x \in Ends(E[j])}
      BY <1>7
    <3>2. QED
      BY <3>1 DEF Serial!ListLength, ListLength
  <2>2. QED
    BY <1>7, <1>8, <2>1, Zenon DEF Serial!Bails, Bails
<1>10. Serial!Marked(E, L, i) = Marked(E, L, i)
  BY <1>7, <1>8, <1>9 DEF Serial!Marked, Marked, Serial!Induced, Induced
<1>11. QED
  BY <1>6, <1>9, <1>10

\* The next due position is the same in the serial schedule's copy, and past
\* a position that is not due.
LEMMA NextDueFacts ==
  ASSUME NEW E, Len(E) \in Nat, NEW L \in SUBSET (1 .. Len(E)), NEW D, NEW T \in BOOLEAN,
         NEW k \in Nat \ {0}
  PROVE  /\ Serial!NextDue(E, L, D, T, k) = NextDue(E, L, D, T, k)
         /\ ~(k \in L /\ (T \/ k \in D)) =>
              NextDue(E, L, D, T, k) = NextDue(E, L, D, T, k + 1)
<1>. DEFINE due(n) == {i \in L : i >= n /\ (T \/ i \in D)}
<1>1. \A n : /\ NextDue(E, L, D, T, n) = IF due(n) = {} THEN Len(E) + 1 ELSE Min(due(n))
             /\ Serial!NextDue(E, L, D, T, n) = IF due(n) = {} THEN Len(E) + 1 ELSE Min(due(n))
  BY DEF NextDue, Serial!NextDue, Min, Serial!Min
<1>2. ~(k \in L /\ (T \/ k \in D)) => due(k) = due(k + 1)
  <2>1. \A i \in L : i >= k <=> i = k \/ i >= k + 1
    OBVIOUS
  <2>2. QED
    BY <2>1
<1>. HIDE DEF due
<1>3. QED
  BY <1>1, <1>2

\* The next due position is this one if it is due.
LEMMA NextDueHere ==
  ASSUME NEW E, Len(E) \in Nat, NEW L \in SUBSET (1 .. Len(E)), NEW D, NEW T \in BOOLEAN,
         NEW k \in L, T \/ k \in D
  PROVE  NextDue(E, L, D, T, k) = k
<1>. DEFINE due == {i \in L : i >= k /\ (T \/ i \in D)}
<1>1. due \subseteq L /\ k \in due /\ \A i \in due : i >= k
  OBVIOUS
<1>2. NextDue(E, L, D, T, k) = Min(due)
  BY <1>1 DEF NextDue
<1>. HIDE DEF due
<1>3. due \in SUBSET Nat /\ k \in Nat /\ due # {}
  BY <1>1
<1>4. Min(due) \in due /\ Min(due) <= k
  BY <1>1, <1>3, MinOfNaturals
<1>5. Min(due) \in Nat /\ Min(due) >= k
  BY <1>1, <1>3, <1>4
<1>6. Min(due) = k
  BY <1>3, <1>4, <1>5
<1>7. QED
  BY <1>2, <1>6

\* No position is due from here on.
LEMMA NextDueNone ==
  ASSUME NEW E, NEW L, NEW D, NEW T \in BOOLEAN, NEW k,
         \A i \in L : i >= k => ~(T \/ i \in D)
  PROVE  NextDue(E, L, D, T, k) = Len(E) + 1
<1>1. {i \in L : i >= k /\ (T \/ i \in D)} = {}
  OBVIOUS
<1>2. QED
  BY <1>1 DEF NextDue

\* The initial states of the ordered schedule stand for those of the serial one.
LEMMA SerialInit == OrderedInit => Serial!Init
<1>. SUFFICES ASSUME OrderedInit PROVE Serial!Init
  OBVIOUS
<1>1. OrderedInv
  BY OrderedInitInv
<1>2. /\ edges \in Starts /\ live = Positions /\ dirty = {} /\ testAll = TRUE
      /\ testAllNext = FALSE /\ removedAny = FALSE /\ epochs = 1 /\ steps = <<>>
      /\ phase = "form" /\ position = 1
  BY DEF OrderedInit, RunInit
<1>3. Staged /\ Len(edges) \in Nat
  BY <1>1 DEF OrderedInv, OrderedTyped, GraphTyped, IsSchedule, Staged
<1>4. NextDue(edges, live, dirty, testAll, position) = 1
  <2>1. CASE Len(edges) = 0
    <3>1. live = {}
      BY <1>2, <2>1 DEF Positions
    <3>2. QED
      BY <1>2, <2>1, <3>1 DEF NextDue
  <2>2. CASE Len(edges) # 0
    <3>1. live \in SUBSET (1 .. Len(edges)) /\ 1 \in live
      BY <1>2, <1>3, <2>2 DEF Positions
    <3>2. /\ position \in Nat \ {0} /\ position \in live
          /\ testAll \in BOOLEAN /\ (testAll \/ position \in dirty)
      BY <1>2, <3>1
    <3>3. NextDue(edges, live, dirty, testAll, position) = position
      BY <1>3, <3>1, <3>2, NextDueHere
    <3>4. QED
      BY <1>2, <3>3
  <2>3. QED
    BY <2>1, <2>2
<1>5. QED
  BY <1>2, <1>3, <1>4 DEF Serial!Init, Serial!Position, Positions

\* The state of the serial schedule that a stage stands for.
Cursor == IF phase = "done" THEN Len(edges) + 1
          ELSE NextDue(edges, live, dirty, testAll, position)

\* A walk past an edge that is not due, and the forming of a stage and its
\* test, are no step of the serial schedule.
LEMMA SerialStutter ==
  ASSUME OrderedInv, OrderedInv', FormStage \/ TestStage \/ RetireSkip
  PROVE  UNCHANGED Serial!vars
<1>1. /\ Staged /\ Staged' /\ Len(edges) \in Nat
      /\ live \in SUBSET (1 .. Len(edges)) /\ position \in Nat \ {0} /\ testAll \in BOOLEAN
  BY DEF OrderedInv, OrderedTyped, GraphTyped, IsSchedule, Staged, Positions
<1>2. UNCHANGED graphVars /\ phase # "done" /\ phase' # "done"
  BY DEF FormStage, TestStage, RetireSkip, Advance
<1>3. Cursor' = Cursor
  <2>1. CASE FormStage \/ TestStage
    BY <1>2, <2>1 DEF FormStage, TestStage, graphVars, runVars, Cursor
  <2>2. CASE RetireSkip
    <3>1. ~Due(position) /\ position' = position + 1
      BY <2>2 DEF RetireSkip, Advance
    <3>2. NextDue(edges, live, dirty, testAll, position)
            = NextDue(edges, live, dirty, testAll, position + 1)
      BY <1>1, <3>1, NextDueFacts DEF Due
    <3>3. QED
      BY <1>2, <3>1, <3>2 DEF Cursor, graphVars, runVars
  <2>3. QED
    BY <2>1, <2>2
<1>4. QED
  BY <1>1, <1>2, <1>3 DEF Serial!vars, graphVars, runVars, Cursor

\* A walk past an edge that is due is the serial schedule's test of it: the
\* cached verdict, if the walk uses one, is the verdict of the present graph.
LEMMA SerialTest ==
  ASSUME OrderedInv, OrderedInv', RetireKeep \/ RetireRemove
  PROVE  /\ Verdict = TestEdge(edges, live, position)
         /\ Cursor = position /\ position \in Positions
         /\ Cursor' = NextDue(edges, live', dirty', testAll, position + 1)
         /\ phase # "done" /\ phase' # "done"
<1>1. /\ Len(edges) \in Nat /\ live \in SUBSET (1 .. Len(edges))
      /\ position \in Nat \ {0} /\ testAll \in BOOLEAN
  BY DEF OrderedInv, OrderedTyped, GraphTyped, IsSchedule, Positions
<1>2. /\ phase = "retire" /\ phase' \in {"form", "retire"} /\ position' = position + 1
      /\ Due(position) /\ UNCHANGED <<edges, testAll>>
  BY DEF RetireKeep, RetireRemove, Advance
<1>3. Verdict = TestEdge(edges, live, position)
  BY <1>1, <1>2 DEF Verdict, OrderedInv, CacheFresh
<1>4. position \in live /\ (testAll \/ position \in dirty)
  BY <1>2 DEF Due
<1>5. NextDue(edges, live, dirty, testAll, position) = position
  BY <1>1, <1>4, NextDueHere
<1>6. QED
  BY <1>1, <1>2, <1>3, <1>4, <1>5 DEF Cursor, Positions

\* The walk keeps the edge: so does the serial schedule.
LEMMA SerialKeep ==
  ASSUME OrderedInv, OrderedInv', RetireKeep
  PROVE  Serial!Keep
<1>1. /\ Staged /\ Staged' /\ Len(edges) \in Nat
      /\ live \in SUBSET (1 .. Len(edges)) /\ position \in Nat \ {0} /\ testAll \in BOOLEAN
      /\ testAllNext \in BOOLEAN /\ removedAny \in BOOLEAN
  BY DEF OrderedInv, OrderedTyped, GraphTyped, IsSchedule, Staged, Positions
<1>2. /\ Verdict = <<>> /\ dirty' = dirty \ {position}
      /\ UNCHANGED <<edges, live, testAll, testAllNext, removedAny, epochs, steps>>
  BY DEF RetireKeep
<1>3. /\ Verdict = TestEdge(edges, live, position)
      /\ Cursor = position /\ position \in Positions
      /\ Cursor' = NextDue(edges, live', dirty', testAll, position + 1)
      /\ phase # "done" /\ phase' # "done"
  BY SerialTest
<1>4. Serial!TestEdge(edges, live, position) = TestEdge(edges, live, position)
  BY SameGraph
<1>5. Serial!NextDue(edges, live, dirty', testAll, position + 1)
        = NextDue(edges, live, dirty', testAll, position + 1)
  BY <1>1, NextDueFacts
<1>6. QED
  BY <1>1, <1>2, <1>3, <1>4, <1>5 DEF Serial!Keep, Serial!Position, Positions, Cursor

\* The walk removes the edge: so does the serial schedule.
LEMMA SerialRemove ==
  ASSUME OrderedInv, OrderedInv', RetireRemove
  PROVE  Serial!Remove
<1>1. /\ Staged /\ Staged' /\ Len(edges) \in Nat
      /\ live \in SUBSET (1 .. Len(edges)) /\ position \in Nat \ {0} /\ testAll \in BOOLEAN
      /\ testAllNext \in BOOLEAN /\ testAllNext' \in BOOLEAN
      /\ removedAny \in BOOLEAN /\ removedAny' \in BOOLEAN
  BY DEF OrderedInv, OrderedTyped, GraphTyped, IsSchedule, Staged, Positions
<1>2. /\ Verdict # <<>> /\ live' = live \ {position}
      /\ dirty' = (dirty \ {position}) \cup Marked(edges, live, position)
      /\ testAllNext' = (testAllNext \/ Bails(edges, live, position))
      /\ steps' = Append(steps, [edge |-> position, epoch |-> epochs, witnesses |-> Verdict])
      /\ removedAny' = TRUE
      /\ UNCHANGED <<edges, testAll, epochs>>
  BY DEF RetireRemove
<1>3. /\ Verdict = TestEdge(edges, live, position)
      /\ Cursor = position /\ position \in Positions
      /\ Cursor' = NextDue(edges, live', dirty', testAll, position + 1)
      /\ phase # "done" /\ phase' # "done"
  BY SerialTest
<1>4. /\ Serial!TestEdge(edges, live, position) = TestEdge(edges, live, position)
      /\ Serial!Marked(edges, live, position) = Marked(edges, live, position)
      /\ Serial!Bails(edges, live, position) = Bails(edges, live, position)
  BY SameGraph
<1>5. Serial!NextDue(edges, live', dirty', testAll, position + 1)
        = NextDue(edges, live', dirty', testAll, position + 1)
  BY <1>1, <1>2, NextDueFacts
<1>6. QED
  BY <1>1, <1>2, <1>3, <1>4, <1>5 DEF Serial!Remove, Serial!Position, Positions, Cursor

\* The end of a pass is the start of the next one, or the end of the run.
LEMMA SerialEndPass ==
  ASSUME OrderedInv, OrderedInv', EndPass
  PROVE  Serial!StartPass \/ Serial!Finish
<1>1. /\ Staged /\ Staged' /\ Len(edges) \in Nat
      /\ live \in SUBSET (1 .. Len(edges)) /\ position \in Nat \ {0} /\ testAll \in BOOLEAN
      /\ testAllNext \in BOOLEAN /\ testAllNext' \in BOOLEAN /\ testAll' \in BOOLEAN
      /\ removedAny \in BOOLEAN /\ removedAny' \in BOOLEAN
  BY DEF OrderedInv, OrderedTyped, GraphTyped, IsSchedule, Staged, Positions
<1>2. phase = "form" /\ UNCHANGED <<edges, live, dirty, steps>>
  BY DEF EndPass
<1>3. Cursor = Len(edges) + 1
  <2>1. \A i \in live : i >= position => ~(testAll \/ i \in dirty)
    BY <1>1 DEF EndPass, Due, Positions
  <2>2. QED
    BY <1>1, <1>2, <2>1, NextDueNone DEF Cursor
<1>4. CASE removedAny
  <2>1. /\ epochs' = epochs + 1 /\ testAll' = testAllNext /\ testAllNext' = FALSE
        /\ removedAny' = FALSE /\ position' = 1 /\ phase' = "form"
    BY <1>2, <1>4 DEF EndPass
  <2>2. 1 \in Nat \ {0}
    OBVIOUS
  <2>3. Cursor' = Serial!NextDue(edges, live, dirty, testAll', 1)
    BY <1>1, <1>2, <2>1, <2>2, NextDueFacts DEF Cursor
  <2>4. Serial!StartPass
    BY <1>1, <1>2, <1>3, <1>4, <2>1, <2>3 DEF Serial!StartPass, Serial!Position, Cursor
  <2>5. QED
    BY <2>4
<1>5. CASE ~removedAny
  <2>1. phase' = "done" /\ UNCHANGED <<epochs, testAll, testAllNext, removedAny>>
    BY <1>5 DEF EndPass
  <2>2. Serial!Finish
    BY <1>1, <1>2, <1>3, <1>5, <2>1 DEF Serial!Finish, Serial!Position, Cursor
  <2>3. QED
    BY <2>2
<1>6. QED
  BY <1>1, <1>4, <1>5

\* What a step of the ordered schedule does to the edges and marks is a step
\* of the serial one, or nothing.
LEMMA SerialStep ==
  OrderedInv /\ OrderedInv' /\ [OrderedNext]_orderedVars => [Serial!Next]_(Serial!vars)
<1>. SUFFICES ASSUME OrderedInv, OrderedInv', [OrderedNext]_orderedVars
              PROVE  [Serial!Next]_(Serial!vars)
  OBVIOUS
<1>1. CASE UNCHANGED orderedVars
  BY <1>1 DEF orderedVars, graphVars, runVars, Serial!vars, Staged
<1>2. CASE FormStage \/ TestStage \/ RetireSkip
  BY <1>2, SerialStutter
<1>3. CASE RetireKeep
  BY <1>3, SerialKeep DEF Serial!Next
<1>4. CASE RetireRemove
  BY <1>4, SerialRemove DEF Serial!Next
<1>5. CASE EndPass
  BY <1>5, SerialEndPass DEF Serial!Next
<1>6. QED
  BY <1>1, <1>2, <1>3, <1>4, <1>5 DEF OrderedNext

\* Whatever the window and however the verdicts were taken, a run removes what
\* the serial schedule removes, in its order and with its witnesses.
THEOREM OrderedIsSerial == OrderedSpec => RefinesSerial
<1>1. OrderedSpec => OrderedInit /\ []OrderedInv /\ [][OrderedNext]_orderedVars
  BY OrderedInvariant, PTL DEF OrderedSpec
<1>2. QED
  BY <1>1, SerialInit, SerialStep, PTL DEF RefinesSerial, Serial!Spec

-----------------------------------------------------------------------------
(* The rounds schedule *)

\* A greedy selection: who is picked is who no one picked before blocks.
IsGreedy(picked, C, blocked) ==
  \A k \in C : k \in picked <=> \A j \in picked : j < k => k \notin blocked[j]

\* There is one, whoever blocks whom.
LEMMA GreedyExists ==
  ASSUME NEW n \in Nat, NEW C \in SUBSET (1 .. n), NEW blocked
  PROVE  \E picked \in SUBSET C : IsGreedy(picked, C, blocked)
<1>. DEFINE upTo(m)   == {i \in C : i <= m}
            done(m)   == \E picked \in SUBSET upTo(m) : IsGreedy(picked, upTo(m), blocked)
            undone    == {m \in Nat : ~done(m)}
<1>0. \A i \in C : i \in Nat /\ 1 <= i /\ i <= n
  OBVIOUS
<1>1. ASSUME undone # {} PROVE FALSE
  <2>1. PICK m \in Nat : ~done(m) /\ \A l \in Nat : ~done(l) => m <= l
    <3>1. undone \in SUBSET Nat
      OBVIOUS
    <3>2. Min(undone) \in undone /\ \A l \in undone : Min(undone) <= l
      <4>. HIDE DEF undone
      <4>1. QED
        BY <1>1, <3>1, MinOfNaturals
    <3>3. QED
      BY <3>2
  <2>2. m # 0
    <3>1. upTo(0) = {}
      <4>1. \A i \in C : ~(i <= 0)
        BY <1>0
      <4>2. QED
        BY <4>1
    <3>2. IsGreedy({}, {}, blocked)
      BY DEF IsGreedy
    <3>3. QED
      BY <2>1, <3>1, <3>2
  <2>3. m - 1 \in Nat /\ ~(m <= m - 1)
    BY <2>2
  <2>4. PICK picked \in SUBSET upTo(m - 1) : IsGreedy(picked, upTo(m - 1), blocked)
    BY <2>1, <2>3
  <2>5. \A j \in picked : j \in Nat /\ j < m
    BY <2>3, <2>4
  <2>6. \A k \in upTo(m) : k # m => k \in upTo(m - 1) /\ k < m
    BY <2>3
  <2>7. CASE m \in C /\ \A j \in picked : m \notin blocked[j]
    <3>. DEFINE more == picked \cup {m}
    <3>1. more \subseteq upTo(m)
      <4>1. picked \subseteq upTo(m)
        BY <1>0, <2>4, <2>5
      <4>2. m \in upTo(m)
        BY <1>0, <2>7
      <4>3. QED
        BY <4>1, <4>2
    <3>2. IsGreedy(more, upTo(m), blocked)
      <4>. SUFFICES ASSUME NEW k \in upTo(m)
                    PROVE  k \in more <=> \A j \in more : j < k => k \notin blocked[j]
        BY DEF IsGreedy
      <4>1. CASE k = m
        BY <2>5, <2>7, <4>1
      <4>2. CASE k # m
        <5>1. k \in picked <=> \A j \in picked : j < k => k \notin blocked[j]
          BY <2>4, <2>6, <4>2 DEF IsGreedy
        <5>2. ~(m < k)
          BY <2>6, <4>2
        <5>3. QED
          BY <4>2, <5>1, <5>2
      <4>3. QED
        BY <4>1, <4>2
    <3>3. QED
      BY <2>1, <3>1, <3>2
  <2>8. CASE ~(m \in C /\ \A j \in picked : m \notin blocked[j])
    <3>1. picked \in SUBSET upTo(m)
      BY <2>3, <2>4
    <3>2. IsGreedy(picked, upTo(m), blocked)
      <4>. SUFFICES ASSUME NEW k \in upTo(m)
                    PROVE  k \in picked <=> \A j \in picked : j < k => k \notin blocked[j]
        BY DEF IsGreedy
      <4>1. CASE k = m
        <5>1. m \notin picked
          BY <2>5
        <5>2. QED
          BY <2>5, <2>8, <4>1, <5>1
      <4>2. CASE k # m
        BY <2>4, <2>6, <4>2 DEF IsGreedy
      <4>3. QED
        BY <4>1, <4>2
    <3>3. QED
      BY <2>1, <3>1, <3>2
  <2>9. QED
    BY <2>7, <2>8
<1>2. done(n)
  BY <1>1
<1>3. upTo(n) = C
  BY <1>0
<1>4. QED
  BY <1>2, <1>3

\* While the selection is under way the results are the verdicts of the graph,
\* and no edge that is still to go lies in the neighbourhood of another.
RoundsInv ==
  /\ GraphTyped
  /\ phase = "select" =>
       \A i \in DOMAIN results : i \in live /\ results[i] = TestEdge(edges, live, i)
  /\ phase = "commit" =>
       /\ selected \subseteq live
       /\ \A j, k \in selected : j # k => ~(Ends(edges[k]) \subseteq ClosedCommon(edges, live, j))
  /\ FrozenVerdictHolds

\* The four facts that make RoundsInv inductive: it starts true, and the test,
\* the selection, a removal and the next round keep it.
LEMMA RoundsInitInv == RoundsInit => RoundsInv
BY RunInitTyped DEF RoundsInit, RoundsInv, FrozenVerdictHolds

\* The tests of a round are judged on the graph that the round starts from.
LEMMA TestDueInv ==
  ASSUME RoundsInv, TestDue
  PROVE  RoundsInv'
BY DEF RoundsInv, TestDue, GraphTyped, Positions, FrozenVerdictHolds

\* Greedy is a greedy selection.
LEMMA GreedySelects ==
  ASSUME RoundsInv, phase = "select"
  PROVE  /\ Greedy \in SUBSET Contenders
         /\ IsGreedy(Greedy, Contenders, [i \in Contenders |-> Blocks(i)])
<1>. DEFINE blocked == [i \in Contenders |-> Blocks(i)]
<1>1. /\ live \in SUBSET (1 .. Len(edges)) /\ Len(edges) \in Nat /\ DOMAIN results \subseteq live
  BY DEF RoundsInv, GraphTyped, Positions, IsSchedule
<1>2. Contenders \in SUBSET (1 .. Len(edges))
  BY <1>1 DEF Contenders
<1>3. Greedy = CHOOSE picked \in SUBSET Contenders : IsGreedy(picked, Contenders, blocked)
  BY DEF Greedy, IsGreedy
<1>. HIDE DEF blocked
<1>4. \E picked \in SUBSET Contenders : IsGreedy(picked, Contenders, blocked)
  BY <1>1, <1>2, GreedyExists
<1>5. Greedy \in SUBSET Contenders /\ IsGreedy(Greedy, Contenders, blocked)
  BY <1>3, <1>4
<1>6. QED
  BY <1>5 DEF blocked

\* Nobody selected lies in the neighbourhood of another: the greedy selection
\* sees to the later ones, and neighbourhoods are symmetric.
LEMMA SelectInv ==
  ASSUME RoundsInv, Select
  PROVE  RoundsInv'
<1>. DEFINE blocked == [i \in Contenders |-> Blocks(i)]
<1>1. /\ UNCHANGED <<edges, live, testAll, testAllNext, results>> /\ selected' = Greedy
      /\ phase = "select" /\ phase' \in {"done", "commit"}
  BY DEF Select, runVars
<1>2. /\ IsSchedule(edges) /\ live \in SUBSET (1 .. Len(edges)) /\ Len(edges) \in Nat
      /\ \A i \in DOMAIN results : i \in live /\ results[i] = TestEdge(edges, live, i)
  BY <1>1 DEF RoundsInv, GraphTyped, Positions, IsSchedule
<1>3. Contenders \subseteq live /\ Contenders \subseteq DOMAIN results
  BY <1>2 DEF Contenders
<1>4. Greedy \in SUBSET Contenders /\ IsGreedy(Greedy, Contenders, blocked)
  BY <1>1, GreedySelects
<1>5. ASSUME NEW j \in Greedy, NEW k \in Greedy, j < k
      PROVE  /\ ~(Ends(edges[k]) \subseteq ClosedCommon(edges, live, j))
             /\ ~(Ends(edges[j]) \subseteq ClosedCommon(edges, live, k))
  <2>1. j \in live /\ k \in live /\ k \notin Blocks(j)
    BY <1>3, <1>4, <1>5 DEF IsGreedy
  <2>2. ~(Ends(edges[k]) \subseteq ClosedCommon(edges, live, j))
    BY <2>1 DEF Blocks, Induced
  <2>3. QED
    BY <1>2, <2>1, <2>2, NeighbourhoodSymmetric
<1>6. ASSUME NEW j \in Greedy, NEW k \in Greedy, j # k
      PROVE  ~(Ends(edges[k]) \subseteq ClosedCommon(edges, live, j))
  <2>1. j \in Nat /\ k \in Nat
    BY <1>2, <1>3, <1>4
  <2>2. j < k \/ k < j
    BY <1>6, <2>1
  <2>3. QED
    BY <1>5, <2>2
<1>7. GraphTyped'
  BY <1>1 DEF RoundsInv, GraphTyped, Positions
<1>8. FrozenVerdictHolds'
  BY <1>1, <1>2, <1>3, <1>4 DEF FrozenVerdictHolds
<1>9. QED
  BY <1>1, <1>3, <1>4, <1>6, <1>7, <1>8 DEF RoundsInv

\* A removal leaves the verdicts on the others alone.
LEMMA CommitOneInv ==
  ASSUME RoundsInv, CommitOne
  PROVE  RoundsInv'
<1>1. PICK i : i = Min(selected)
  OBVIOUS
<1>2. /\ phase = "commit" /\ phase' = "commit" /\ selected # {}
      /\ live' = live \ {i} /\ selected' = selected \ {i}
      /\ testAllNext' = (testAllNext \/ Bails(edges, live, i))
      /\ UNCHANGED <<edges, testAll, results>>
  BY <1>1 DEF CommitOne
<1>3. /\ IsSchedule(edges) /\ live \in SUBSET (1 .. Len(edges)) /\ Len(edges) \in Nat
      /\ selected \subseteq live
      /\ \A j, k \in selected : j # k => ~(Ends(edges[k]) \subseteq ClosedCommon(edges, live, j))
  BY <1>2 DEF RoundsInv, GraphTyped, Positions, IsSchedule
<1>4. i \in selected
  <2>1. selected \in SUBSET Nat
    BY <1>3
  <2>2. QED
    BY <1>1, <1>2, <2>1, MinOfNaturals
<1>5. GraphTyped'
  BY <1>2 DEF RoundsInv, GraphTyped, Positions
<1>6. ASSUME NEW j \in selected', NEW k \in selected', j # k
      PROVE  ~(Ends(edges'[k]) \subseteq ClosedCommon(edges', live', j))
  <2>1. ClosedCommon(edges, live \ {i}, j) \subseteq ClosedCommon(edges, live, j)
    BY <1>2, <1>3, CommonShrinks
  <2>2. QED
    BY <1>2, <1>3, <1>6, <2>1
<1>7. FrozenVerdictHolds'
  <2>. SUFFICES ASSUME NEW j \in selected \ {i}
                PROVE  TestEdge(edges, live \ {i}, j) = results[j]
    BY <1>2 DEF FrozenVerdictHolds
  <2>1. TestEdge(edges, live \ {i}, j) = TestEdge(edges, live, j)
    BY <1>3, <1>4, VerdictLocal
  <2>2. QED
    BY <1>2, <2>1 DEF RoundsInv, FrozenVerdictHolds
<1>8. selected' \subseteq live'
  BY <1>2, <1>3
<1>9. QED
  BY <1>2, <1>5, <1>6, <1>7, <1>8 DEF RoundsInv

\* A new round selects nothing before it tests.
LEMMA NextRoundInv ==
  ASSUME RoundsInv, NextRound
  PROVE  RoundsInv'
BY DEF RoundsInv, NextRound, GraphTyped, Positions, FrozenVerdictHolds

\* Testing, selecting, committing and starting a round keep the invariant of
\* the rounds (parallel.rs).
LEMMA RoundsStepInv == RoundsInv /\ [RoundsNext]_roundsVars => RoundsInv'
<1>. SUFFICES ASSUME RoundsInv, [RoundsNext]_roundsVars PROVE RoundsInv'
  OBVIOUS
<1>1. CASE UNCHANGED roundsVars
  BY <1>1 DEF roundsVars, runVars, RoundsInv, GraphTyped, Positions, FrozenVerdictHolds
<1>2. QED
  BY <1>1, TestDueInv, SelectInv, CommitOneInv, NextRoundInv DEF RoundsNext

\* What every step of a round keeps: the verdicts of the test are those of the
\* frozen graph, and no selected edge lies in another's neighbourhood (parallel.rs).
THEOREM RoundsInvariant == RoundsSpec => []RoundsInv
BY RoundsInitInv, RoundsStepInv, PTL DEF RoundsSpec

\* The removals of a round do not disturb each other: every edge still to be
\* removed has, in the graph as it is then, the witnesses that the workers
\* found on the frozen graph.
THEOREM RoundsCommute == RoundsSpec => []FrozenVerdictHolds
BY RoundsInvariant, PTL DEF RoundsInv

-----------------------------------------------------------------------------
(* What a run that ends has left *)

\* What the removal of an edge does to another: its verdict stands, or the
\* edge is marked, or the neighbourhood was too large to mark.
LEMMA RemovalMarks ==
  ASSUME NEW E, IsSchedule(E), NEW L \in SUBSET (1 .. Len(E)), NEW k \in L,
         NEW i \in L, i # k
  PROVE  \/ TestEdge(E, L \ {k}, i) = TestEdge(E, L, i)
         \/ i \in Marked(E, L, k)
         \/ Bails(E, L, k)
<1>1. CASE ~(Ends(E[k]) \subseteq ClosedCommon(E, L, i))
  BY <1>1, VerdictLocal
<1>2. CASE Ends(E[k]) \subseteq ClosedCommon(E, L, i)
  <2>1. Ends(E[i]) \subseteq ClosedCommon(E, L, k)
    BY <1>2, NeighbourhoodSymmetric
  <2>2. QED
    BY <2>1 DEF Marked, Induced
<1>3. QED
  BY <1>1, <1>2

\* A run that ends leaves no edge that could still be removed.
Exhausted ==
  phase = "done" => \A i \in live : TestEdge(edges, live, i) = <<>>

\* Nothing that could still be removed is forgotten: an edge whose verdict is
\* not known to be "stay" is to be tested in this pass or in the next, and
\* there is a next pass.
Waiting(i) ==
  \/ testAllNext
  \/ i \in dirty
  \/ testAll /\ i >= position

NothingForgotten ==
  /\ phase # "done" =>
       /\ \A i \in live : TestEdge(edges, live, i) = <<>> \/ Waiting(i)
       /\ testAllNext => removedAny
       /\ \A i \in live : i \in dirty /\ i < position => removedAny
  /\ Exhausted

\* The first pass tests everything, a walk that keeps an edge knows its verdict,
\* a removal marks what it disturbs, and a pass that follows takes over what is
\* left.
LEMMA NothingForgottenInit == OrderedInit => NothingForgotten
<1>. SUFFICES ASSUME OrderedInit PROVE NothingForgotten
  OBVIOUS
<1>1. /\ live = Positions /\ dirty = {} /\ testAll = TRUE /\ testAllNext = FALSE
      /\ phase = "form" /\ position = 1
  BY DEF OrderedInit, RunInit
<1>2. \A i \in live : i >= position
  BY <1>1 DEF Positions
<1>3. QED
  BY <1>1, <1>2 DEF NothingForgotten, Waiting, Exhausted

\* A step that removes no edge forgets none that should be tested: an edge
\* that is passed over or kept was judged.
LEMMA KeepForgetsNothing ==
  ASSUME OrderedInv, OrderedInv', NothingForgotten,
         FormStage \/ TestStage \/ RetireSkip \/ RetireKeep
  PROVE  NothingForgotten'
<1>1. /\ Len(edges) \in Nat /\ live \in SUBSET (1 .. Len(edges)) /\ position \in Nat \ {0}
  BY DEF OrderedInv, OrderedTyped, GraphTyped, IsSchedule, Positions
<1>2. /\ UNCHANGED <<edges, live, testAll, testAllNext, removedAny>>
      /\ phase # "done" /\ phase' # "done"
  BY DEF FormStage, TestStage, RetireSkip, RetireKeep, Advance, graphVars, runVars
<1>3. CASE FormStage \/ TestStage
  <2>1. UNCHANGED <<dirty, position>>
    BY <1>3 DEF FormStage, TestStage, graphVars, runVars
  <2>2. QED
    BY <1>2, <2>1 DEF NothingForgotten, Waiting, Exhausted
<1>4. CASE RetireSkip \/ RetireKeep
  <2>1. /\ position' = position + 1 /\ dirty \ {position} \subseteq dirty' /\ dirty' \subseteq dirty
        /\ ~(position \in live /\ position \in dirty')
        /\ position \in live => TestEdge(edges, live, position) = <<>> \/ ~Due(position)
    <3>1. CASE RetireSkip
      BY <3>1 DEF RetireSkip, Advance, Due, graphVars, runVars
    <3>2. CASE RetireKeep
      <4>1. TestEdge(edges, live, position) = <<>>
        BY <3>2, SerialTest DEF RetireKeep
      <4>2. QED
        BY <3>2, <4>1 DEF RetireKeep, Advance
    <3>3. QED
      BY <1>4, <3>1, <3>2
  <2>2. ASSUME NEW i \in live
        PROVE  TestEdge(edges, live, i) = <<>> \/ Waiting(i)'
    <3>1. CASE i = position
      BY <1>2, <2>1, <3>1 DEF Due, NothingForgotten, Waiting
    <3>2. CASE i # position
      <4>1. i >= position => i >= position'
        BY <1>1, <2>1, <3>2
      <4>2. QED
        BY <1>2, <2>1, <3>2, <4>1 DEF NothingForgotten, Waiting
    <3>3. QED
      BY <3>1, <3>2
  <2>3. ASSUME NEW i \in live, i \in dirty', i < position'
        PROVE  removedAny
    <3>1. i # position
      BY <2>1, <2>3
    <3>2. i < position
      BY <1>1, <2>1, <2>3, <3>1
    <3>3. QED
      BY <1>2, <2>1, <2>3, <3>2 DEF NothingForgotten
  <2>4. QED
    BY <1>2, <2>2, <2>3 DEF NothingForgotten, Exhausted
<1>5. QED
  BY <1>3, <1>4

\* A removal marks every edge it may have made removable.
LEMMA RemoveForgetsNothing ==
  ASSUME OrderedInv, OrderedInv', NothingForgotten, RetireRemove
  PROVE  NothingForgotten'
<1>1. /\ Len(edges) \in Nat /\ live \in SUBSET (1 .. Len(edges)) /\ position \in Nat \ {0}
      /\ IsSchedule(edges)
  BY DEF OrderedInv, OrderedTyped, GraphTyped, IsSchedule, Positions
<1>2. /\ phase # "done" /\ phase' # "done" /\ position \in live
      /\ live' = live \ {position} /\ position' = position + 1 /\ removedAny' = TRUE
      /\ dirty' = (dirty \ {position}) \cup Marked(edges, live, position)
      /\ testAllNext' = (testAllNext \/ Bails(edges, live, position))
      /\ UNCHANGED <<edges, testAll>>
  BY DEF RetireRemove, Advance, Due
<1>3. ASSUME NEW i \in live'
      PROVE  TestEdge(edges, live', i) = <<>> \/ Waiting(i)'
  <2>1. i \in live /\ i # position
    BY <1>2
  <2>2. \/ TestEdge(edges, live', i) = TestEdge(edges, live, i)
        \/ i \in Marked(edges, live, position)
        \/ Bails(edges, live, position)
    BY <1>1, <1>2, <2>1, RemovalMarks
  <2>3. i >= position => i >= position'
    BY <1>1, <1>2, <2>1
  <2>4. TestEdge(edges, live, i) = <<>> \/ Waiting(i)
    BY <1>2, <2>1 DEF NothingForgotten
  <2>5. QED
    BY <1>2, <2>1, <2>2, <2>3, <2>4 DEF Waiting
<1>4. QED
  BY <1>2, <1>3 DEF NothingForgotten, Exhausted

\* A pass that ends leaves the edges not yet judged to the next one.
LEMMA EndPassForgetsNothing ==
  ASSUME OrderedInv, OrderedInv', NothingForgotten, EndPass
  PROVE  NothingForgotten'
<1>1. /\ Len(edges) \in Nat /\ live \in SUBSET (1 .. Len(edges)) /\ position \in Nat \ {0}
  BY DEF OrderedInv, OrderedTyped, GraphTyped, IsSchedule, Positions
<1>2. phase = "form" /\ UNCHANGED <<edges, live, dirty>>
  BY DEF EndPass
<1>3. \A i \in live : i >= position => ~testAll /\ i \notin dirty
  BY <1>1 DEF EndPass, Due, Positions
<1>4. \A i \in live : \/ TestEdge(edges, live, i) = <<>>
                      \/ testAllNext
                      \/ i \in dirty /\ i < position
  <2>1. \A i \in live : i >= position \/ i < position
    BY <1>1
  <2>2. QED
    BY <1>2, <1>3, <2>1 DEF NothingForgotten, Waiting
<1>5. CASE removedAny
  <2>1. /\ testAll' = testAllNext /\ testAllNext' = FALSE
        /\ position' = 1 /\ phase' = "form"
    BY <1>2, <1>5 DEF EndPass
  <2>2. \A i \in live : i >= 1 /\ ~(i < 1)
    BY <1>1
  <2>3. QED
    BY <1>2, <1>4, <2>1, <2>2 DEF NothingForgotten, Waiting, Exhausted
<1>6. CASE ~removedAny
  <2>1. phase' = "done"
    BY <1>6 DEF EndPass
  <2>2. \A i \in live : TestEdge(edges, live, i) = <<>>
    BY <1>2, <1>4, <1>6 DEF NothingForgotten
  <2>3. QED
    BY <1>2, <2>1, <2>2 DEF NothingForgotten, Exhausted
<1>7. QED
  BY <1>5, <1>6

\* No step of the ordered schedule forgets a removable edge.
LEMMA NothingForgottenStep ==
  OrderedInv /\ OrderedInv' /\ NothingForgotten /\ [OrderedNext]_orderedVars => NothingForgotten'
<1>. SUFFICES ASSUME OrderedInv, OrderedInv', NothingForgotten, [OrderedNext]_orderedVars
              PROVE  NothingForgotten'
  OBVIOUS
<1>1. CASE UNCHANGED orderedVars
  BY <1>1 DEF orderedVars, graphVars, runVars, NothingForgotten, Waiting, Exhausted
<1>2. QED
  BY <1>1, KeepForgetsNothing, RemoveForgetsNothing, EndPassForgetsNothing DEF OrderedNext

\* A pass that tests only the dirty edges forgets none: when a run ends, no
\* edge of the graph it returns can be removed.
THEOREM OrderedExhausts == OrderedSpec => []Exhausted
<1>1. OrderedSpec => []NothingForgotten
  BY NothingForgottenStep, OrderedInvariant, NothingForgottenInit, PTL DEF OrderedSpec
<1>2. QED
  BY <1>1, PTL DEF NothingForgotten

-----------------------------------------------------------------------------
\* The same for the rounds.  An edge that the round blocks lies in the
\* neighbourhood of a selected one, which the removals before that leave alone.
Remembered(i) ==
  CASE phase = "test"   -> testAll \/ i \in dirty
    [] phase = "select" -> i \in DOMAIN results
    [] phase = "commit" -> \/ testAllNext \/ i \in dirty
                           \/ i \in selected
                           \/ \E j \in selected :
                                Ends(edges[i]) \subseteq ClosedCommon(edges, live, j)
    [] phase = "done"   -> FALSE

RoundsForgetNothing ==
  \A i \in live : TestEdge(edges, live, i) = <<>> \/ Remembered(i)

\* A removal of the round, the selection, and the other two steps.
LEMMA RoundsCommitForgetsNothing ==
  ASSUME RoundsInv, RoundsForgetNothing, CommitOne
  PROVE  RoundsForgetNothing'
<1>1. PICK m : m = Min(selected)
  OBVIOUS
<1>2. /\ phase = "commit" /\ phase' = "commit" /\ selected # {}
      /\ live' = live \ {m} /\ selected' = selected \ {m}
      /\ dirty' = dirty \cup Marked(edges, live, m)
      /\ testAllNext' = (testAllNext \/ Bails(edges, live, m))
      /\ UNCHANGED <<edges, testAll, results>>
  BY <1>1 DEF CommitOne
<1>3. /\ IsSchedule(edges) /\ live \in SUBSET (1 .. Len(edges)) /\ Len(edges) \in Nat
      /\ selected \subseteq live
      /\ \A j, k \in selected : j # k => ~(Ends(edges[k]) \subseteq ClosedCommon(edges, live, j))
  BY <1>2 DEF RoundsInv, GraphTyped, Positions, IsSchedule
<1>4. m \in selected
  <2>1. selected \in SUBSET Nat
    BY <1>3
  <2>2. QED
    BY <1>1, <1>2, <2>1, MinOfNaturals
<1>5. ASSUME NEW i \in live'
      PROVE  TestEdge(edges, live', i) = <<>> \/ Remembered(i)'
  <2>1. i \in live /\ i # m /\ m \in live
    BY <1>2, <1>3, <1>4
  <2>2. \/ TestEdge(edges, live', i) = TestEdge(edges, live, i)
        \/ i \in Marked(edges, live, m)
        \/ Bails(edges, live, m)
    BY <1>2, <1>3, <2>1, RemovalMarks
  <2>3. TestEdge(edges, live, i) = <<>> \/ Remembered(i)
    BY <2>1 DEF RoundsForgetNothing
  <2>4. ASSUME NEW j \in selected, Ends(edges[i]) \subseteq ClosedCommon(edges, live, j)
        PROVE  Remembered(i)'
    <3>1. CASE j = m
      BY <1>2, <2>1, <2>4, <3>1 DEF Remembered, Marked, Induced
    <3>2. CASE j # m
      <4>1. ~(Ends(edges[m]) \subseteq ClosedCommon(edges, live, j)) /\ j \in live
        BY <1>3, <1>4, <3>2
      <4>2. ClosedCommon(edges, live \ {m}, j) = ClosedCommon(edges, live, j)
        BY <1>3, <2>1, <4>1, NeighbourhoodLocal
      <4>3. QED
        BY <1>2, <2>4, <3>2, <4>2 DEF Remembered
    <3>3. QED
      BY <3>1, <3>2
  <2>5. QED
    BY <1>2, <2>1, <2>2, <2>3, <2>4 DEF Remembered
<1>6. QED
  BY <1>2, <1>5 DEF RoundsForgetNothing

\* A selection leaves out no edge that it or a later round would not meet
\* again: the rounds end only when nothing can be selected.
LEMMA RoundsSelectForgetsNothing ==
  ASSUME RoundsInv, RoundsForgetNothing, Select
  PROVE  RoundsForgetNothing'
<1>. DEFINE blocked == [i \in Contenders |-> Blocks(i)]
<1>1. /\ UNCHANGED <<edges, live, testAll, testAllNext, results, dirty>> /\ selected' = Greedy
      /\ phase = "select" /\ phase' = IF Greedy = {} THEN "done" ELSE "commit"
  BY DEF Select, runVars
<1>2. \A i \in DOMAIN results : i \in live /\ results[i] = TestEdge(edges, live, i)
  BY <1>1 DEF RoundsInv
<1>3. Greedy \in SUBSET Contenders /\ IsGreedy(Greedy, Contenders, blocked)
  BY <1>1, GreedySelects
<1>4. ASSUME NEW i \in live
      PROVE  \/ TestEdge(edges, live, i) = <<>>
             \/ i \in Greedy
             \/ \E j \in Greedy : Ends(edges[i]) \subseteq ClosedCommon(edges, live, j)
  <2>1. TestEdge(edges, live, i) = <<>> \/ i \in Contenders
    BY <1>1, <1>2 DEF RoundsForgetNothing, Remembered, Contenders
  <2>2. ASSUME i \in Contenders, i \notin Greedy
        PROVE  \E j \in Greedy : Ends(edges[i]) \subseteq ClosedCommon(edges, live, j)
    <3>1. PICK j \in Greedy : i \in blocked[j]
      BY <1>3, <2>2 DEF IsGreedy
    <3>2. i \in Blocks(j)
      BY <1>3, <3>1
    <3>3. QED
      BY <3>2 DEF Blocks, Induced
  <2>3. QED
    BY <2>1, <2>2
<1>5. QED
  BY <1>1, <1>4 DEF RoundsForgetNothing, Remembered

\* The tests of a round and the start of the next one forget no edge.
LEMMA RoundsOthersForgetNothing ==
  ASSUME RoundsInv, RoundsForgetNothing, TestDue \/ NextRound
  PROVE  RoundsForgetNothing'
<1>1. CASE TestDue
  BY <1>1 DEF TestDue, Due, RoundsForgetNothing, Remembered
<1>2. CASE NextRound
  BY <1>2 DEF NextRound, RoundsForgetNothing, Remembered
<1>3. QED
  BY <1>1, <1>2

\* The rounds start with every edge to be tested.
LEMMA RoundsForgetNothingInit == RoundsInit => RoundsForgetNothing
BY DEF RoundsInit, RunInit, RoundsForgetNothing, Remembered

\* No step of the rounds forgets a removable edge.
LEMMA RoundsForgetNothingStep ==
  RoundsInv /\ RoundsForgetNothing /\ [RoundsNext]_roundsVars => RoundsForgetNothing'
<1>. SUFFICES ASSUME RoundsInv, RoundsForgetNothing, [RoundsNext]_roundsVars
              PROVE  RoundsForgetNothing'
  OBVIOUS
<1>1. CASE UNCHANGED roundsVars
  BY <1>1 DEF roundsVars, runVars, RoundsForgetNothing, Remembered
<1>2. QED
  BY <1>1, RoundsCommitForgetsNothing, RoundsSelectForgetsNothing, RoundsOthersForgetNothing
     DEF RoundsNext

\* A round that removes nothing ends the run, and then no edge of the graph it
\* returns can be removed.
THEOREM RoundsExhaust == RoundsSpec => []Exhausted
<1>1. RoundsForgetNothing => Exhausted
  BY DEF RoundsForgetNothing, Remembered, Exhausted
<1>2. QED
  BY <1>1, RoundsForgetNothingInit, RoundsForgetNothingStep, RoundsInvariant, PTL DEF RoundsSpec

-----------------------------------------------------------------------------
(* The edge test and the witnesses *)

Entrants(birth, t) == {x \in DOMAIN birth : birth[x] = t}

\* The apex of the last segment reaches every new candidate.
ApexKept(dist, birth, w, t) ==
  w # <<>> /\ \A x \in Entrants(birth, t) : dist[<<w[Len(w)].apex, x>>] <= t

SegmentStep(dist, birth, t, last) ==
  IF Entrants(birth, t) = {} \/ ~last.ok \/ ApexKept(dist, birth, last.witnesses, t) THEN last
  ELSE IF Dominating(dist, birth, t) = {} THEN [last EXCEPT !.ok = FALSE]
  ELSE [last EXCEPT !.witnesses =
          Append(@, [level |-> t, apex |-> Min(Dominating(dist, birth, t))])]

\* What a sweep over the levels holds.
Swept(C) == [ok : BOOLEAN, witnesses : Seq([level : Level, apex : C])]

\* The segment that is active at a level witnesses there.
SegmentAt(dist, birth, w, k, t) ==
  /\ w[k].level <= t
  /\ \A j \in DOMAIN w : j > k => w[j].level > t
  /\ w[k].apex \in Dominating(dist, birth, t)
  /\ w[k].level = t =>
       /\ w[k].apex = Min(Dominating(dist, birth, t))
       /\ k > 1 => w[k - 1].apex \notin Dominating(dist, birth, t)

\* The segments up to a level, when every level so far had a dominating candidate.
SegmentsFit(dist, birth, w, t) ==
  /\ \A x \in DOMAIN birth : birth[x] <= t =>
       \E k \in DOMAIN w : SegmentAt(dist, birth, w, k, birth[x])
  /\ w # <<>> =>
       /\ birth[w[Len(w)].apex] <= t
       /\ \A x \in DOMAIN birth : birth[x] <= t => dist[<<w[Len(w)].apex, x>>] <= t
  /\ \A x \in DOMAIN birth : birth[x] <= t => w # <<>> /\ w[1].level <= birth[x]

SweptTo(dist, birth, s, t) ==
  /\ \A k \in DOMAIN s.witnesses :
       /\ s.witnesses[k].level <= t
       /\ \E x \in DOMAIN birth : birth[x] = s.witnesses[k].level
  /\ \A k \in 2 .. Len(s.witnesses) : s.witnesses[k - 1].level < s.witnesses[k].level
  /\ s.ok => SegmentsFit(dist, birth, s.witnesses, t)
  /\ ~s.ok => \E x \in DOMAIN birth : birth[x] <= t /\ Dominating(dist, birth, birth[x]) = {}

\* The candidates that dominate at a level, the first of them among them.
LEMMA DominatingTyped ==
  ASSUME NEW C \in SUBSET Vertices, NEW birth \in [C -> Level], NEW dist, NEW t
  PROVE  /\ Dominating(dist, birth, t) \subseteq C
         /\ Dominating(dist, birth, t) # {} =>
              Min(Dominating(dist, birth, t)) \in Dominating(dist, birth, t)
<1>1. Dominating(dist, birth, t) \subseteq C
  BY DEF Dominating
<1>2. C \subseteq Nat
  BY GraphAssumption DEF Vertices
<1>. DEFINE D == Dominating(dist, birth, t)
<1>3. D \in SUBSET Nat
  BY <1>1, <1>2
<1>4. D # {} => Min(D) \in D
  <2>. HIDE DEF D
  <2>1. QED
    BY <1>3, MinOfNaturals
<1>5. QED
  BY <1>1, <1>4

\* A level extends the segments by candidates.
LEMMA SegmentStepTyped ==
  ASSUME NEW C \in SUBSET Vertices, NEW birth \in [C -> Level], NEW dist, NEW t \in Level,
         NEW s \in Swept(C)
  PROVE  SegmentStep(dist, birth, t, s) \in Swept(C)
<1>1. CASE Dominating(dist, birth, t) = {}
  BY <1>1 DEF SegmentStep, Swept
<1>2. CASE Dominating(dist, birth, t) # {}
  <2>. DEFINE a == Min(Dominating(dist, birth, t))
              r == [level |-> t, apex |-> a]
  <2>1. a \in C
    BY <1>2, DominatingTyped
  <2>2. r \in [level : Level, apex : C]
    BY <2>1
  <2>3. s.witnesses \in Seq([level : Level, apex : C])
    BY DEF Swept
  <2>. HIDE DEF r
  <2>4. Append(s.witnesses, r) \in Seq([level : Level, apex : C])
    BY <2>2, <2>3
  <2>5. [s EXCEPT !.witnesses = Append(@, r)] \in Swept(C)
    BY <2>4 DEF Swept
  <2>6. QED
    BY <1>2, <2>5 DEF SegmentStep, r
<1>3. QED
  BY <1>1, <1>2

\* A level keeps what is true of the segments below it.
LEMMA SegmentStepFits ==
  ASSUME NEW C \in SUBSET Vertices, NEW birth \in [C -> Level], NEW dist \in [C \X C -> Int],
         NEW t \in Level, NEW s \in Swept(C), SweptTo(dist, birth, s, t - 1)
  PROVE  SweptTo(dist, birth, SegmentStep(dist, birth, t, s), t)
<1>. DEFINE w == s.witnesses
            D == Dominating(dist, birth, t)
<1>1. /\ s.ok \in BOOLEAN /\ w \in Seq([level : Level, apex : C])
      /\ DOMAIN w = 1 .. Len(w) /\ Len(w) \in Nat
      /\ \A k \in DOMAIN w : w[k].level \in Level /\ w[k].apex \in C
      /\ t \in Int /\ Level \subseteq Int /\ DOMAIN birth = C
      /\ \A x \in C : birth[x] \in Int
      /\ \A x, y \in C : dist[<<x, y>>] \in Int
  <2>1. s.ok \in BOOLEAN /\ w \in Seq([level : Level, apex : C])
    BY DEF Swept
  <2>2. DOMAIN w = 1 .. Len(w) /\ Len(w) \in Nat
    BY <2>1
  <2>3. ASSUME NEW k \in DOMAIN w
        PROVE  w[k].level \in Level /\ w[k].apex \in C
    <3>1. w[k] \in [level : Level, apex : C]
      <4>. DEFINE R == [level : Level, apex : C]
      <4>1. w \in Seq(R) /\ k \in 1 .. Len(w)
        BY <2>1, <2>2, <2>3
      <4>. HIDE DEF w, R
      <4>2. w[k] \in R
        BY <4>1
      <4>3. QED
        BY <4>2 DEF R
    <3>2. QED
      BY <3>1
  <2>4. t \in Int /\ Level \subseteq Int /\ DOMAIN birth = C
    BY GraphAssumption DEF Level
  <2>5. \A x \in C : birth[x] \in Int
    BY <2>4
  <2>6. QED
    BY <2>1, <2>2, <2>3, <2>4, <2>5
<1>2. \A x \in C : birth[x] <= t <=> birth[x] <= t - 1 \/ x \in Entrants(birth, t)
  BY <1>1 DEF Entrants
<1>3. /\ \A k \in DOMAIN w : w[k].level <= t - 1 /\ \E x \in C : birth[x] = w[k].level
      /\ \A k \in 2 .. Len(w) : w[k - 1].level < w[k].level
      /\ s.ok => SegmentsFit(dist, birth, w, t - 1)
      /\ ~s.ok => \E x \in C : birth[x] <= t - 1 /\ Dominating(dist, birth, birth[x]) = {}
  BY <1>1 DEF SweptTo
<1>4. CASE ~s.ok
  <2>1. SegmentStep(dist, birth, t, s) = s
    BY <1>4 DEF SegmentStep
  <2>2. PICK x \in C : birth[x] <= t - 1 /\ Dominating(dist, birth, birth[x]) = {}
    BY <1>3, <1>4
  <2>3. birth[x] <= t
    BY <1>1, <2>2
  <2>4. \A k \in DOMAIN w : w[k].level <= t
    <3>. HIDE DEF w
    <3>1. QED
      BY <1>1, <1>3
  <2>5. QED
    BY <1>1, <1>3, <1>4, <2>1, <2>2, <2>3, <2>4 DEF SweptTo
<1>5. CASE s.ok /\ (Entrants(birth, t) = {} \/ ApexKept(dist, birth, w, t))
  <2>1. SegmentStep(dist, birth, t, s) = s
    BY <1>5 DEF SegmentStep
  <2>2. SegmentsFit(dist, birth, w, t - 1)
    BY <1>3, <1>5
  <2>3. ASSUME w # <<>>
        PROVE  /\ w[Len(w)].apex \in C /\ Len(w) \in DOMAIN w
               /\ birth[w[Len(w)].apex] <= t
               /\ \A x \in C : birth[x] <= t => dist[<<w[Len(w)].apex, x>>] <= t
    <3>1. Len(w) \in DOMAIN w /\ w[Len(w)].apex \in C
      BY <1>1, <2>3
    <3>2. birth[w[Len(w)].apex] <= t - 1
      BY <2>2, <2>3 DEF SegmentsFit
    <3>3. ASSUME NEW x \in C, birth[x] <= t
          PROVE  dist[<<w[Len(w)].apex, x>>] <= t
      <4>1. CASE birth[x] <= t - 1
        <5>1. dist[<<w[Len(w)].apex, x>>] <= t - 1
          BY <1>1, <2>2, <2>3, <4>1 DEF SegmentsFit
        <5>2. QED
          BY <1>1, <3>1, <5>1
      <4>2. CASE x \in Entrants(birth, t)
        BY <1>5, <4>2 DEF ApexKept
      <4>3. QED
        BY <1>2, <3>3, <4>1, <4>2
    <3>4. QED
      BY <1>1, <3>1, <3>2, <3>3
  <2>4. ASSUME NEW x \in C, birth[x] <= t
        PROVE  (\E k \in DOMAIN w : SegmentAt(dist, birth, w, k, birth[x])) /\ w # <<>> /\ w[1].level <= birth[x]
    <3>1. CASE birth[x] <= t - 1
      BY <1>1, <2>2, <3>1 DEF SegmentsFit
    <3>2. CASE x \in Entrants(birth, t)
      <4>1. birth[x] = t /\ ApexKept(dist, birth, w, t) /\ w # <<>>
        BY <1>5, <3>2 DEF Entrants, ApexKept
      <4>2. w[Len(w)].apex \in D
        BY <1>1, <2>3, <4>1 DEF Dominating
      <4>3. w[Len(w)].level <= t - 1 /\ w[1].level <= t - 1 /\ Len(w) \in DOMAIN w
            /\ w[Len(w)].level \in Int /\ w[1].level \in Int
        <5>. HIDE DEF w
        <5>1. Len(w) \in DOMAIN w /\ 1 \in DOMAIN w
          BY <1>1, <2>3, <4>1
        <5>2. w[Len(w)].level \in Level /\ w[1].level \in Level
          BY <1>1, <5>1
        <5>3. QED
          BY <1>1, <1>3, <5>1, <5>2
      <4>4. SegmentAt(dist, birth, w, Len(w), t)
        BY <1>1, <4>2, <4>3 DEF SegmentAt
      <4>5. QED
        BY <1>1, <4>1, <4>3, <4>4
    <3>3. QED
      BY <1>2, <2>4, <3>1, <3>2
  <2>5. SegmentsFit(dist, birth, w, t)
    BY <1>1, <2>3, <2>4 DEF SegmentsFit
  <2>6. \A k \in DOMAIN w : w[k].level <= t
    BY <1>1, <1>3
  <2>7. QED
    BY <1>1, <1>3, <1>5, <2>1, <2>5, <2>6 DEF SweptTo
<1>6. CASE s.ok /\ Entrants(birth, t) # {} /\ ~ApexKept(dist, birth, w, t) /\ D = {}
  <2>1. /\ SegmentStep(dist, birth, t, s).ok = FALSE
        /\ SegmentStep(dist, birth, t, s).witnesses = w
    BY <1>6 DEF SegmentStep, Swept
  <2>2. PICK x \in C : birth[x] = t
    BY <1>1, <1>6 DEF Entrants
  <2>3. birth[x] <= t /\ Dominating(dist, birth, birth[x]) = {}
    BY <1>1, <1>6, <2>2
  <2>4. \A k \in DOMAIN w : w[k].level <= t
    BY <1>1, <1>3
  <2>5. QED
    BY <1>1, <1>3, <2>1, <2>3, <2>4 DEF SweptTo
<1>7. CASE s.ok /\ Entrants(birth, t) # {} /\ ~ApexKept(dist, birth, w, t) /\ D # {}
  <2>. DEFINE a == Min(D)
              r == [level |-> t, apex |-> a]
              v == Append(w, r)
  <2>1. /\ SegmentStep(dist, birth, t, s).ok
        /\ SegmentStep(dist, birth, t, s).witnesses = v
    BY <1>7 DEF SegmentStep, Swept
  <2>2. a \in D /\ D \subseteq C
    BY <1>7, DominatingTyped
  <2>3. r \in [level : Level, apex : C] /\ r.level = t /\ r.apex = a
    BY <2>2
  <2>. HIDE DEF r
  <2>4. /\ Len(v) = Len(w) + 1 /\ DOMAIN v = 1 .. Len(w) + 1 /\ v # <<>>
        /\ \A k \in DOMAIN w : v[k] = w[k]
        /\ v[Len(w) + 1] = r
        /\ \A k \in DOMAIN v : k \in DOMAIN w \/ k = Len(w) + 1
    <3>. HIDE DEF w
    <3>1. v \in Seq([level : Level, apex : C]) /\ Len(v) = Len(w) + 1
      BY <1>1, <2>3
    <3>2. \A k \in 1 .. Len(w) : v[k] = w[k]
      BY <1>1, <2>3
    <3>3. v[Len(w) + 1] = r
      BY <1>1, <2>3
    <3>4. DOMAIN v = 1 .. Len(w) + 1
      BY <3>1
    <3>. HIDE DEF v
    <3>5. v # <<>>
      BY <1>1, <3>1
    <3>6. \A k \in DOMAIN v : k \in DOMAIN w \/ k = Len(w) + 1
      BY <1>1, <3>4
    <3>7. QED
      BY <1>1, <3>1, <3>2, <3>3, <3>4, <3>5, <3>6
  <2>. HIDE DEF v, w
  <2>5. SegmentsFit(dist, birth, w, t - 1)
    BY <1>3, <1>7
  <2>6. birth[a] <= t /\ \A x \in C : birth[x] <= t => dist[<<a, x>>] <= t
    BY <1>1, <2>2 DEF Dominating
  <2>7. Len(w) + 1 \in DOMAIN v /\ Len(w) + 1 > Len(w)
    BY <1>1, <2>4
  <2>8. ASSUME w # <<>>
        PROVE  w[Len(w)].apex \notin D /\ w[Len(w)].apex \in C
    <3>1. Len(w) \in DOMAIN w /\ w[Len(w)].apex \in C
      BY <1>1, <2>8
    <3>2. PICK x \in Entrants(birth, t) : ~(dist[<<w[Len(w)].apex, x>>] <= t)
      BY <1>7, <2>8 DEF ApexKept
    <3>3. x \in DOMAIN birth /\ birth[x] <= t
      BY <1>1, <3>2 DEF Entrants
    <3>4. QED
      BY <3>1, <3>2, <3>3 DEF Dominating
  <2>9. ASSUME NEW x \in C, birth[x] <= t
        PROVE  (\E k \in DOMAIN v : SegmentAt(dist, birth, v, k, birth[x])) /\ v[1].level <= birth[x]
    <3>1. CASE birth[x] <= t - 1
      <4>1. w # <<>> /\ w[1].level <= birth[x] /\ 1 \in DOMAIN w
        BY <1>1, <2>5, <3>1 DEF SegmentsFit
      <4>2. PICK k \in DOMAIN w : SegmentAt(dist, birth, w, k, birth[x])
        BY <1>1, <2>5, <3>1 DEF SegmentsFit
      <4>3. \A j \in DOMAIN v : j > k => v[j].level > birth[x]
        <5>1. TAKE j \in DOMAIN v
        <5>2. HAVE j > k
        <5>3. CASE j \in DOMAIN w
          BY <2>4, <4>2, <5>2, <5>3 DEF SegmentAt
        <5>4. CASE j = Len(w) + 1
          BY <1>1, <2>3, <2>4, <3>1, <5>4
        <5>5. QED
          BY <2>4, <5>3, <5>4
      <4>4. k > 1 => k - 1 \in DOMAIN w
        BY <1>1
      <4>5. k \in DOMAIN v
        BY <1>1, <2>4
      <4>6. SegmentAt(dist, birth, v, k, birth[x])
        BY <2>4, <4>2, <4>3, <4>4 DEF SegmentAt
      <4>7. QED
        BY <2>4, <4>1, <4>5, <4>6
    <3>2. CASE birth[x] = t
      <4>1. \A j \in DOMAIN v : ~(j > Len(w) + 1)
        BY <1>1, <2>4
      <4>2. Len(w) + 1 > 1 => w # <<>> /\ Len(w) \in DOMAIN w /\ v[Len(w) + 1 - 1] = w[Len(w)]
        BY <1>1, <2>4
      <4>3. SegmentAt(dist, birth, v, Len(w) + 1, t)
        BY <1>1, <2>2, <2>3, <2>4, <2>8, <4>1, <4>2 DEF SegmentAt
      <4>4. v[1].level <= t
        <5>1. CASE w = <<>>
          BY <1>1, <2>3, <2>4, <5>1
        <5>2. CASE w # <<>>
          <6>1. 1 \in DOMAIN w
            BY <1>1, <5>2
          <6>2. v[1] = w[1] /\ w[1].level <= t - 1 /\ w[1].level \in Int /\ t \in Int
            BY <1>1, <1>3, <2>4, <6>1
          <6>3. QED
            BY <6>2
        <5>3. QED
          BY <5>1, <5>2
      <4>5. QED
        BY <2>7, <3>2, <4>3, <4>4
    <3>3. QED
      BY <1>1, <2>9, <3>1, <3>2
  <2>10. SegmentsFit(dist, birth, v, t)
    BY <1>1, <2>3, <2>4, <2>6, <2>9 DEF SegmentsFit
  <2>11. ASSUME NEW k \in DOMAIN v
         PROVE  v[k].level <= t /\ \E x \in C : birth[x] = v[k].level
    <3>1. PICK x \in C : birth[x] = t
      BY <1>1, <1>7 DEF Entrants
    <3>2. CASE k \in DOMAIN w
      <4>1. v[k] = w[k] /\ w[k].level <= t - 1 /\ w[k].level \in Level
        BY <1>1, <1>3, <2>4, <3>2
      <4>2. QED
        BY <1>1, <1>3, <3>2, <4>1
    <3>3. CASE k = Len(w) + 1
      BY <1>1, <2>3, <2>4, <3>1, <3>3
    <3>4. QED
      BY <2>4, <3>2, <3>3
  <2>12. ASSUME NEW k \in 2 .. Len(v)
         PROVE  v[k - 1].level < v[k].level
    <3>1. k \in Nat /\ k >= 2 /\ k <= Len(w) + 1
      BY <1>1, <2>4
    <3>2. k - 1 \in DOMAIN w /\ v[k - 1] = w[k - 1]
      <4>1. k - 1 \in 1 .. Len(w)
        BY <1>1, <3>1
      <4>2. k - 1 \in DOMAIN w
        BY <1>1, <4>1
      <4>3. QED
        BY <2>4, <4>2
    <3>3. CASE k <= Len(w)
      <4>1. k \in 2 .. Len(w) /\ k \in DOMAIN w
        BY <1>1, <3>1, <3>3
      <4>2. v[k] = w[k]
        BY <2>4, <4>1
      <4>3. w[k - 1].level < w[k].level
        BY <1>3, <4>1
      <4>4. QED
        BY <3>2, <4>2, <4>3
    <3>4. CASE k = Len(w) + 1
      <4>1. v[k].level = t
        BY <2>3, <2>4, <3>4
      <4>2. w[k - 1].level <= t - 1 /\ w[k - 1].level \in Int
        BY <1>1, <1>3, <3>2
      <4>3. QED
        BY <1>1, <3>2, <4>1, <4>2
    <3>5. QED
      BY <1>1, <3>1, <3>3, <3>4
  <2>13. QED
    BY <1>1, <2>1, <2>10, <2>11, <2>12 DEF SweptTo
<1>8. QED
  BY <1>1, <1>4, <1>5, <1>6, <1>7

\* The sweep over all levels.
LEMMA SegmentsSwept ==
  ASSUME NEW C \in SUBSET Vertices, NEW birth \in [C -> Level], NEW dist \in [C \X C -> Int]
  PROVE  /\ Segments(dist, birth) \in Swept(C)
         /\ SweptTo(dist, birth, Segments(dist, birth), MaxLevel)
<1>. DEFINE n    == MaxLevel
            D    == Swept(C)
            base == [ok |-> TRUE, witnesses |-> <<>>]
            G    == [t \in 1 .. n |-> [s \in D |-> SegmentStep(dist, birth, t, s)]]
            body(f, t) == IF t = 0 THEN base ELSE SegmentStep(dist, birth, t, f[t - 1])
            run(f) == f = [t \in 0 .. n |-> body(f, t)]
<1>1. n \in Nat /\ base \in D
  BY GraphAssumption DEF Swept
<1>2. \A t \in 1 .. n : \A s \in D : G[t][s] = SegmentStep(dist, birth, t, s) /\ G[t][s] \in D
  BY SegmentStepTyped DEF Level
<1>3. PICK g \in Recursions(n, D, base, G) : TRUE
  <2>. HIDE DEF n, D, base, G
  <2>1. QED
    BY <1>1, <1>2, RecursionExists
<1>4. g \in [0 .. n -> D] /\ g[0] = base /\ \A t \in 1 .. n : g[t] = SegmentStep(dist, birth, t, g[t - 1])
  <2>1. g \in [0 .. n -> D] /\ g[0] = base /\ \A t \in 1 .. n : g[t] = G[t][g[t - 1]]
    <3>. HIDE DEF n, D, base, G
    <3>1. QED
      BY <1>3 DEF Recursions
  <2>2. \A t \in 1 .. n : t - 1 \in 0 .. n
    BY <1>1
  <2>. HIDE DEF n, D, base, G
  <2>3. QED
    BY <1>2, <2>1, <2>2
<1>5. run(g)
  <2>1. \A t \in 0 .. n : g[t] = body(g, t)
    <3>1. \A t \in 0 .. n : t = 0 \/ t \in 1 .. n
      BY <1>1
    <3>. HIDE DEF n, base
    <3>2. QED
      BY <1>4, <3>1
  <2>2. g = [t \in 0 .. n |-> g[t]]
    BY <1>4
  <2>. HIDE DEF body, n
  <2>3. QED
    BY <2>1, <2>2
<1>6. Segments(dist, birth) = (CHOOSE f : run(f))[n]
  BY Zenon DEF Segments, SegmentStep, Entrants, ApexKept
<1>7. PICK f : run(f) /\ Segments(dist, birth) = f[n]
  <2>. HIDE DEF run
  <2>1. QED
    BY <1>5, <1>6
<1>8. \A t \in 0 .. n : f[t] = body(f, t)
  <2>. HIDE DEF body, n
  <2>1. QED
    BY <1>7
<1>9. /\ f[0] = base
      /\ \A t \in 1 .. n : f[t] = SegmentStep(dist, birth, t, f[t - 1])
  <2>1. 0 \in 0 .. n /\ \A t \in 1 .. n : t \in 0 .. n /\ t # 0
    BY <1>1
  <2>. HIDE DEF base, n
  <2>2. QED
    BY <1>8, <2>1
<1>10. \A t \in 0 .. n : f[t] \in D /\ SweptTo(dist, birth, f[t], t)
  <2>. DEFINE H == {t \in 0 .. n : f[t] \in D /\ SweptTo(dist, birth, f[t], t)}
  <2>1. 0 \in H
    <3>1. \A x \in DOMAIN birth : birth[x] \in Int /\ ~(birth[x] <= 0)
      BY DEF Level
    <3>2. SweptTo(dist, birth, base, 0)
      BY <3>1 DEF SweptTo, SegmentsFit
    <3>. HIDE DEF base, D
    <3>3. QED
      BY <1>1, <1>9, <3>2
  <2>2. ASSUME NEW t \in 1 .. n, t - 1 \in H
        PROVE  t \in H
    <3>1. t \in Level /\ t \in 0 .. n
      BY <1>1 DEF Level
    <3>2. f[t - 1] \in Swept(C) /\ SweptTo(dist, birth, f[t - 1], t - 1)
      BY <2>2
    <3>3. f[t] = SegmentStep(dist, birth, t, f[t - 1])
      BY <1>9
    <3>. DEFINE last == f[t - 1]
    <3>. HIDE DEF last
    <3>4. /\ SegmentStep(dist, birth, t, last) \in Swept(C)
          /\ SweptTo(dist, birth, SegmentStep(dist, birth, t, last), t)
      BY <3>1, <3>2, SegmentStepTyped, SegmentStepFits DEF last
    <3>5. f[t] \in Swept(C) /\ SweptTo(dist, birth, f[t], t)
      BY <3>3, <3>4 DEF last
    <3>6. QED
      BY <3>1, <3>5
  <2>3. H \in SUBSET (0 .. n)
    OBVIOUS
  <2>4. H = 0 .. n
    <3>. HIDE DEF H, n
    <3>1. QED
      BY <1>1, <2>1, <2>2, <2>3, FirstFailure
  <2>5. QED
    BY <2>4
<1>11. n \in 0 .. n
  BY <1>1
<1>. HIDE DEF D, run
<1>12. QED
  BY <1>7, <1>10, <1>11 DEF D

\* The largest of three numbers.
LEMMA MaxOfThree ==
  ASSUME NEW a \in Int, NEW b \in Int, NEW c \in Int
  PROVE  LET m == Max({a, b, c})
         IN  m \in {a, b, c} /\ a <= m /\ b <= m /\ c <= m
<1>1. \E m \in {a, b, c} : \A y \in {a, b, c} : m >= y
  <2>1. CASE a >= b /\ a >= c
    BY <2>1
  <2>2. CASE b >= a /\ b >= c
    BY <2>2
  <2>3. CASE c >= a /\ c >= b
    BY <2>3
  <2>4. QED
    BY <2>1, <2>2, <2>3
<1>2. Max({a, b, c}) \in {a, b, c} /\ \A y \in {a, b, c} : Max({a, b, c}) >= y
  BY <1>1 DEF Max
<1>. DEFINE m == Max({a, b, c})
<1>. HIDE DEF m
<1>3. m \in {a, b, c} /\ m >= a /\ m >= b /\ m >= c /\ m \in Int
  BY <1>2 DEF m
<1>4. QED
  BY <1>3 DEF m

\* The level at which a common neighbour spans a triangle with the edge.
LEMMA CandidatesTyped ==
  ASSUME NEW list, IsSchedule(list), NEW kept \in SUBSET (1 .. Len(list)), NEW i \in kept
  PROVE  LET dist  == Distances(list, kept)
             birth == Candidates(dist, list[i])
             C     == Common(dist, list[i])
         IN  /\ C \in SUBSET Vertices
             /\ birth \in [C -> Level]
             /\ \A x \in C : list[i].value <= birth[x]
             /\ list[i].value \in Level
             /\ Among(dist, birth) \in [C \X C -> Int]
             /\ \A t : Dominating(Among(dist, birth), birth, t) = Dominating(dist, birth, t)
<1>. DEFINE dist  == Distances(list, kept)
            e     == list[i]
            birth == Candidates(dist, e)
            C     == Common(dist, e)
<1>1. /\ e.u \in Vertices /\ e.v \in Vertices /\ e.value \in Level
  BY EndsTyped
<1>2. C \in SUBSET Vertices
  BY DEF Common
<1>3. \A x, y \in Vertices : dist[<<x, y>>] \in Int
  BY DistanceFacts
<1>4. ASSUME NEW x \in C
      PROVE  birth[x] \in Level /\ e.value <= birth[x]
  <2>. DEFINE a == e.value
              b == dist[<<e.u, x>>]
              c == dist[<<e.v, x>>]
  <2>1. birth[x] = Max({a, b, c})
    BY DEF Candidates
  <2>2. b \in Int /\ c \in Int /\ b < Infinity /\ c < Infinity /\ a \in 1 .. MaxLevel /\ MaxLevel \in Nat
    BY <1>1, <1>2, <1>3, GraphAssumption DEF Common, Level
  <2>. HIDE DEF a, b, c
  <2>3. Max({a, b, c}) \in {a, b, c} /\ a <= Max({a, b, c})
    <3>1. a \in Int /\ b \in Int /\ c \in Int
      BY <2>2
    <3>2. QED
      BY <3>1, MaxOfThree
  <2>4. Max({a, b, c}) \in Level /\ a <= Max({a, b, c})
    BY <2>2, <2>3 DEF Infinity, Level
  <2>5. QED
    BY <2>1, <2>4 DEF a
<1>5. DOMAIN birth = C /\ birth = [x \in C |-> birth[x]]
  BY DEF Candidates
<1>6. birth \in [C -> Level]
  <2>. HIDE DEF birth, C
  <2>1. QED
    BY <1>4, <1>5
<1>7. Among(dist, birth) = [p \in C \X C |-> dist[p]]
  BY <1>5, Zenon DEF Among
<1>8. Among(dist, birth) \in [C \X C -> Int] /\ \A x, y \in C : Among(dist, birth)[<<x, y>>] = dist[<<x, y>>]
  <2>1. \A p \in C \X C : dist[p] \in Int
    BY <1>2, <1>3
  <2>. HIDE DEF dist, birth, C
  <2>2. QED
    BY <1>7, <2>1
<1>9. ASSUME NEW t
      PROVE  Dominating(Among(dist, birth), birth, t) = Dominating(dist, birth, t)
  <2>. HIDE DEF dist, birth, C
  <2>1. QED
    BY <1>5, <1>8 DEF Dominating
<1>10. QED
  BY <1>1, <1>2, <1>4, <1>6, <1>8, <1>9

\* The segment that the check takes for active at a level.
LEMMA ActiveIs ==
  ASSUME NEW w, NEW n \in Nat, DOMAIN w = 1 .. n, NEW t, NEW k \in DOMAIN w,
         w[k].level <= t, \A j \in DOMAIN w : j > k => ~(w[j].level <= t)
  PROVE  ActiveSegment(w, t) = k
<1>. DEFINE S == {j \in DOMAIN w : w[j].level <= t}
<1>1. k \in S /\ \A j \in S : k >= j
  OBVIOUS
<1>2. S \subseteq Int
  OBVIOUS
<1>. HIDE DEF S
<1>3. Max(S) \in S /\ \A j \in S : Max(S) >= j
  BY <1>1 DEF Max
<1>4. Max(S) = k
  BY <1>1, <1>2, <1>3
<1>5. QED
  BY <1>4 DEF ActiveSegment, S

\* The test of the schedules against that of the replay: the witnesses of an
\* edge that passes are those the check expects, and an edge that fails is not
\* removable (domination.rs against verify/witness.rs).
LEMMA TestMatchesCheck ==
  ASSUME NEW list, IsSchedule(list), NEW kept \in SUBSET (1 .. Len(list)), NEW i \in kept
  PROVE  /\ TestEdge(list, kept, i) # <<>> => CheckWitnesses(list, kept, i, TestEdge(list, kept, i))
         /\ TestEdge(list, kept, i) = <<>> => ~Removable(list, kept, i)
<1>. DEFINE dist  == Distances(list, kept)
            e     == list[i]
            birth == Candidates(dist, e)
            C     == Common(dist, e)
            s     == Segments(Among(dist, birth), birth)
            w     == s.witnesses
            crit  == CriticalValues(list, kept, i)
            open  == \E x \in C : birth[x] = e.value
<1>1. /\ C \in SUBSET Vertices
      /\ birth \in [C -> Level]
      /\ \A x \in C : e.value <= birth[x]
      /\ e.value \in Level
      /\ Among(dist, birth) \in [C \X C -> Int]
      /\ \A t : Dominating(Among(dist, birth), birth, t) = Dominating(dist, birth, t)
  BY CandidatesTyped
<1>2. s \in Swept(C) /\ SweptTo(Among(dist, birth), birth, s, MaxLevel)
  BY <1>1, SegmentsSwept
<1>3. DOMAIN birth = C
  BY <1>1
<1>4. crit = {e.value} \cup {birth[x] : x \in C}
  BY <1>3 DEF CriticalValues
<1>5. \A t : DominatingAt(list, kept, i, t) = Dominating(dist, birth, t)
  BY DEF DominatingAt
<1>6. TestEdge(list, kept, i) = IF open /\ s.ok THEN w ELSE <<>>
  BY <1>3 DEF TestEdge
<1>7. \A x \in C : birth[x] <= MaxLevel /\ birth[x] \in Int
  <2>. HIDE DEF birth, C
  <2>1. QED
    BY <1>1 DEF Level
<1>. HIDE DEF s, dist, birth, C, crit, e, open
<1>8. w \in Seq([level : Level, apex : C]) /\ s.ok \in BOOLEAN
  BY <1>2 DEF Swept
<1>9. DOMAIN w = 1 .. Len(w) /\ Len(w) \in Nat
  BY <1>8
<1>10. /\ \A k \in DOMAIN w : \E x \in C : birth[x] = w[k].level
       /\ \A k \in 2 .. Len(w) : w[k - 1].level < w[k].level
       /\ s.ok => SegmentsFit(Among(dist, birth), birth, w, MaxLevel)
       /\ ~s.ok => \E x \in C : Dominating(dist, birth, birth[x]) = {}
  BY <1>1, <1>2, <1>3 DEF SweptTo
<1>11. ASSUME open, s.ok
       PROVE  CheckWitnesses(list, kept, i, w) /\ w # <<>>
  <2>1. PICK x0 \in C : birth[x0] = e.value
    BY <1>11 DEF open
  <2>2. SegmentsFit(Among(dist, birth), birth, w, MaxLevel)
    BY <1>10, <1>11
  <2>3. w # <<>> /\ w[1].level <= e.value
    BY <1>3, <1>7, <2>1, <2>2 DEF SegmentsFit
  <2>4. 1 \in DOMAIN w
    BY <1>9, <1>8, <2>3
  <2>5. w[1].level = e.value
    <3>1. PICK x \in C : birth[x] = w[1].level
      BY <1>10, <2>4
    <3>2. birth[x] \in Int /\ e.value <= birth[x] /\ birth[x] <= e.value /\ e.value \in Int
      BY <1>1, <1>7, <2>1, <2>3, <3>1
    <3>3. QED
      BY <3>1, <3>2
  <2>6. \A k \in DOMAIN w : w[k].level \in crit
    BY <1>4, <1>10
  <2>7. ASSUME NEW t \in crit
        PROVE  LET D == DominatingAt(list, kept, i, t)
                   k == ActiveSegment(w, t)
               IN  /\ w[k].apex \in D
                   /\ w[k].level = t => /\ w[k].apex = Min(D)
                                        /\ k > 1 => w[k - 1].apex \notin D
    <3>1. PICK x \in C : t = birth[x]
      BY <1>4, <2>1, <2>7
    <3>2. PICK k \in DOMAIN w : SegmentAt(Among(dist, birth), birth, w, k, t)
      BY <1>3, <1>7, <2>2, <3>1 DEF SegmentsFit
    <3>3. t \in Int
      BY <1>7, <3>1
    <3>4. \A j \in DOMAIN w : w[j].level \in Int
      BY <1>7, <1>10
    <3>5. \A j \in DOMAIN w : j > k => ~(w[j].level <= t)
      BY <3>2, <3>3, <3>4 DEF SegmentAt
    <3>6. w[k].level <= t
      BY <3>2 DEF SegmentAt
    <3>7. ActiveSegment(w, t) = k
      <4>. HIDE DEF w
      <4>1. QED
        BY <1>9, <3>5, <3>6, ActiveIs
    <3>8. DominatingAt(list, kept, i, t) = Dominating(Among(dist, birth), birth, t)
      BY <1>1, <1>5
    <3>9. QED
      BY <3>2, <3>7, <3>8 DEF SegmentAt
  <2>8. QED
    BY <1>10, <2>3, <2>5, <2>6, <2>7 DEF CheckWitnesses, e, crit
<1>12. ASSUME ~open \/ ~s.ok
       PROVE  ~Removable(list, kept, i)
  <2>1. CASE ~open
    <3>1. Dominating(dist, birth, e.value) = {}
      <4>1. \A x \in C : ~(birth[x] <= e.value)
        <5>1. \A x \in C : birth[x] \in Int /\ e.value <= birth[x] /\ birth[x] # e.value
          BY <1>1, <1>7, <2>1 DEF open
        <5>2. e.value \in Int
          BY <1>1 DEF Level
        <5>3. QED
          BY <5>1, <5>2
      <4>2. QED
        BY <1>3, <4>1 DEF Dominating
    <3>2. e.value \in crit
      BY <1>4
    <3>3. QED
      BY <1>5, <3>1, <3>2 DEF Removable, crit
  <2>2. CASE ~s.ok
    <3>1. PICK x \in C : Dominating(dist, birth, birth[x]) = {}
      BY <1>10, <2>2
    <3>2. birth[x] \in crit
      BY <1>4
    <3>3. QED
      BY <1>5, <3>1, <3>2 DEF Removable, crit
  <2>3. QED
    BY <1>12, <2>1, <2>2
<1>13. QED
  BY <1>6, <1>8, <1>11, <1>12

-----------------------------------------------------------------------------
(* The steps of a certificate *)

Step == [edge : Nat, epoch : Nat, witnesses : Seq([level : Level, apex : Vertices])]

\* The witnesses of an edge are segments.
LEMMA TestEdgeTyped ==
  ASSUME NEW list, IsSchedule(list), NEW kept \in SUBSET (1 .. Len(list)), NEW i \in kept
  PROVE  TestEdge(list, kept, i) \in Seq([level : Level, apex : Vertices])
<1>. DEFINE dist  == Distances(list, kept)
            e     == list[i]
            birth == Candidates(dist, e)
            C     == Common(dist, e)
            s     == Segments(Among(dist, birth), birth)
            R     == [level : Level, apex : C]
            T     == [level : Level, apex : Vertices]
<1>1. /\ C \in SUBSET Vertices
      /\ birth \in [C -> Level]
      /\ Among(dist, birth) \in [C \X C -> Int]
  BY CandidatesTyped
<1>2. s \in Swept(C)
  BY <1>1, SegmentsSwept
<1>3. s.witnesses \in Seq(R) /\ R \subseteq T
  BY <1>1, <1>2 DEF Swept
<1>4. TestEdge(list, kept, i) = s.witnesses \/ TestEdge(list, kept, i) = <<>>
  BY DEF TestEdge
<1>. HIDE DEF s, R, T
<1>5. s.witnesses \in Seq(T) /\ <<>> \in Seq(T)
  BY <1>3
<1>6. QED
  BY <1>4, <1>5 DEF T

\* Every removal was one that the test allowed, in the graph that the removals
\* before it left.
Allowed(list, kept, step) ==
  /\ step.edge \in kept
  /\ step.witnesses = TestEdge(list, kept, step.edge)
  /\ step.witnesses # <<>>

Replayed(list, removals) ==
  \A k \in DOMAIN removals : Allowed(list, LeftBy(list, removals, k - 1), removals[k])

\* What one more removal leaves.
LEMMA LeftByMore ==
  ASSUME NEW list, NEW removals \in Seq(Step), NEW step \in Step
  PROVE  /\ \A k \in 0 .. Len(removals) :
              LeftBy(list, Append(removals, step), k) = LeftBy(list, removals, k)
         /\ LeftBy(list, Append(removals, step), Len(removals) + 1)
              = LeftBy(list, removals, Len(removals)) \ {step.edge}
<1>. DEFINE more == Append(removals, step)
            n    == Len(removals)
<1>1. /\ n \in Nat /\ \A j \in 1 .. n : more[j] = removals[j]
      /\ more[n + 1] = step
  OBVIOUS
<1>. HIDE DEF more, n
<1>2. ASSUME NEW k \in 0 .. n
      PROVE  LeftBy(list, more, k) = LeftBy(list, removals, k)
  <2>1. \A j \in 1 .. k : more[j] = removals[j]
    BY <1>1
  <2>2. {more[j].edge : j \in 1 .. k} = {removals[j].edge : j \in 1 .. k}
    BY <2>1
  <2>3. QED
    BY <2>2 DEF LeftBy
<1>3. LeftBy(list, more, n + 1) = LeftBy(list, removals, n) \ {step.edge}
  <2>1. 1 .. n + 1 = (1 .. n) \cup {n + 1}
    BY <1>1
  <2>2. {more[j].edge : j \in 1 .. n + 1} = {more[j].edge : j \in 1 .. n} \cup {step.edge}
    BY <1>1, <2>1
  <2>3. {more[j].edge : j \in 1 .. n} = {removals[j].edge : j \in 1 .. n}
    BY <1>1
  <2>4. QED
    BY <2>2, <2>3 DEF LeftBy
<1>4. QED
  BY <1>2, <1>3 DEF more, n

\* A replay that one allowed removal extends.
LEMMA ReplayedMore ==
  ASSUME NEW list, NEW removals \in Seq(Step), NEW step \in Step, Replayed(list, removals),
         Allowed(list, LeftBy(list, removals, Len(removals)), step)
  PROVE  /\ Append(removals, step) \in Seq(Step)
         /\ Len(Append(removals, step)) = Len(removals) + 1
         /\ Append(removals, step)[Len(removals) + 1] = step
         /\ \A k \in 1 .. Len(removals) : Append(removals, step)[k] = removals[k]
         /\ Replayed(list, Append(removals, step))
<1>. DEFINE more == Append(removals, step)
            n    == Len(removals)
<1>1. /\ n \in Nat /\ \A j \in 1 .. n : more[j] = removals[j]
      /\ more[n + 1] = step
      /\ more \in Seq(Step) /\ Len(more) = n + 1
      /\ DOMAIN more = 1 .. n + 1 /\ DOMAIN removals = 1 .. n
  OBVIOUS
<1>2. \A k \in 0 .. n : LeftBy(list, more, k) = LeftBy(list, removals, k)
  BY LeftByMore
<1>. HIDE DEF more
<1>3. ASSUME NEW k \in DOMAIN more
      PROVE  Allowed(list, LeftBy(list, more, k - 1), more[k])
  <2>1. k - 1 \in 0 .. n /\ LeftBy(list, more, k - 1) = LeftBy(list, removals, k - 1)
    BY <1>1, <1>2
  <2>2. CASE k \in 1 .. n
    BY <1>1, <2>1, <2>2 DEF Replayed
  <2>3. CASE k = n + 1
    <3>1. k - 1 = n
      BY <1>1, <2>3
    <3>2. QED
      BY <1>1, <2>1, <2>3, <3>1
  <2>4. QED
    BY <1>1, <2>2, <2>3
<1>4. Replayed(list, more)
  BY <1>3 DEF Replayed
<1>5. QED
  BY <1>1, <1>4 DEF more

\* A removal that the test allowed passes the check.
LEMMA AllowedChecks ==
  ASSUME NEW list, IsSchedule(list), NEW kept \in SUBSET (1 .. Len(list)), NEW step,
         Allowed(list, kept, step)
  PROVE  CheckStep(list, kept, step)
BY TestMatchesCheck DEF Allowed, CheckStep

\* The replay of allowed removals passes the step checks one by one.
LEMMA ReplayedChecks ==
  ASSUME NEW list, IsSchedule(list), NEW removals, Replayed(list, removals)
  PROVE  \A k \in DOMAIN removals : CheckStep(list, LeftBy(list, removals, k - 1), removals[k])
<1>1. \A k : LeftBy(list, removals, k) \in SUBSET (1 .. Len(list))
  BY DEF LeftBy
<1>2. QED
  BY <1>1, AllowedChecks DEF Replayed

-----------------------------------------------------------------------------
(* The certificate of the ordered schedule *)

\* The last removal is of this pass, if it has removed an edge, else of the one
\* before.
OrderedHistory ==
  /\ steps \in Seq(Step)
  /\ Replayed(edges, steps)
  /\ live = LeftBy(edges, steps, Len(steps))
  /\ epochs \in Nat \ {0}
  /\ GroupsInOrder(steps)
  /\ steps = <<>> => ~removedAny /\ epochs = 1
  /\ steps # <<>> =>
       steps[Len(steps)].epoch = IF removedAny THEN epochs ELSE epochs - 1
  /\ steps # <<>> /\ removedAny /\ phase # "done" => steps[Len(steps)].edge < position

\* A run that removed nothing has nothing to replay.
LEMMA NothingRemoved ==
  ASSUME NEW list, Len(list) \in Nat
  PROVE  /\ <<>> \in Seq(Step)
         /\ Replayed(list, <<>>)
         /\ LeftBy(list, <<>>, Len(<<>>)) = 1 .. Len(list)
         /\ GroupsInOrder(<<>>)
<1>1. Len(<<>>) = 0 /\ DOMAIN <<>> = {} /\ 1 .. 0 = {} /\ 2 .. 0 = {}
  OBVIOUS
<1>2. LeftBy(list, <<>>, Len(<<>>)) = 1 .. Len(list)
  BY <1>1 DEF LeftBy
<1>3. QED
  BY <1>1, <1>2 DEF Replayed, GroupsInOrder

\* The ordered schedule starts without a history.
LEMMA OrderedHistoryInit == OrderedInit => OrderedHistory
<1>. SUFFICES ASSUME OrderedInit
              PROVE  OrderedHistory
  OBVIOUS
<1>1. steps = <<>> /\ live = 1 .. Len(edges) /\ epochs = 1 /\ removedAny = FALSE
  BY DEF OrderedInit, RunInit, Positions
<1>2. Len(edges) \in Nat
  BY RunInitTyped DEF OrderedInit, GraphTyped, IsSchedule
<1>3. QED
  BY <1>1, <1>2, NothingRemoved DEF OrderedHistory

\* A removal in turn keeps the groups in order.
LEMMA GroupsMore ==
  ASSUME NEW removals \in Seq(Step), NEW step \in Step, GroupsInOrder(removals),
         removals = <<>> => step.epoch = 1,
         removals # <<>> =>
           \/ step.epoch = removals[Len(removals)].epoch + 1
           \/ /\ step.epoch = removals[Len(removals)].epoch
              /\ step.edge > removals[Len(removals)].edge
  PROVE  GroupsInOrder(Append(removals, step))
<1>. DEFINE more == Append(removals, step)
            n    == Len(removals)
<1>1. /\ n \in Nat /\ \A j \in 1 .. n : more[j] = removals[j]
      /\ more[n + 1] = step /\ Len(more) = n + 1
      /\ removals = <<>> <=> n = 0
  OBVIOUS
<1>. HIDE DEF more
<1>2. more[1].epoch = 1
  <2>1. CASE n = 0
    BY <1>1, <2>1
  <2>2. CASE n # 0
    <3>1. 1 \in 1 .. n /\ removals[1].epoch = 1
      BY <1>1, <2>2 DEF GroupsInOrder
    <3>2. QED
      BY <1>1, <3>1
  <2>3. QED
    BY <2>1, <2>2
<1>3. ASSUME NEW k \in 2 .. n + 1
      PROVE  \/ more[k].epoch = more[k - 1].epoch + 1
             \/ more[k].epoch = more[k - 1].epoch /\ more[k].edge > more[k - 1].edge
  <2>1. k - 1 \in 1 .. n /\ more[k - 1] = removals[k - 1]
    BY <1>1
  <2>2. CASE k = n + 1
    <3>1. removals # <<>> /\ k - 1 = n
      BY <1>1, <2>2
    <3>2. QED
      BY <1>1, <2>1, <2>2, <3>1
  <2>3. CASE k \in 2 .. n
    <3>1. more[k] = removals[k]
      BY <1>1, <2>3
    <3>2. QED
      BY <2>1, <2>3, <3>1 DEF GroupsInOrder
  <2>4. QED
    BY <1>1, <2>2, <2>3
<1>4. QED
  BY <1>1, <1>2, <1>3 DEF GroupsInOrder, more

\* A removal of the ordered schedule is one that its certificate can replay.
LEMMA RemoveHistory ==
  ASSUME OrderedInv, OrderedHistory, RetireRemove
  PROVE  OrderedHistory'
<1>. DEFINE step == [edge |-> position, epoch |-> epochs, witnesses |-> Verdict]
<1>1. /\ IsSchedule(edges) /\ live \in SUBSET (1 .. Len(edges)) /\ position \in Nat \ {0}
      /\ Len(edges) \in Nat
  BY DEF OrderedInv, OrderedTyped, GraphTyped, IsSchedule, Positions
<1>2. /\ position \in live /\ position' = position + 1 /\ removedAny' = TRUE
      /\ live' = live \ {position} /\ Verdict # <<>> /\ phase' # "done"
      /\ steps' = Append(steps, step) /\ UNCHANGED <<edges, epochs>>
  BY DEF RetireRemove, Advance, Due
<1>3. Verdict = TestEdge(edges, live, position)
  <2>1. CASE position \in members \ stale
    BY <1>1, <2>1 DEF OrderedInv, CacheFresh, Verdict, RetireRemove
  <2>2. CASE position \notin members \ stale
    BY <2>2 DEF Verdict
  <2>3. QED
    BY <2>1, <2>2
<1>4. Verdict \in Seq([level : Level, apex : Vertices])
  BY <1>1, <1>2, <1>3, TestEdgeTyped
<1>5. step \in Step /\ step.edge = position /\ step.epoch = epochs /\ step.witnesses = Verdict
  BY <1>1, <1>4 DEF OrderedHistory, Step
<1>6. Allowed(edges, live, step)
  BY <1>2, <1>3, <1>5 DEF Allowed
<1>. HIDE DEF step
<1>7. steps \in Seq(Step) /\ Replayed(edges, steps) /\ live = LeftBy(edges, steps, Len(steps))
      /\ Len(steps) \in Nat /\ epochs \in Nat
  BY DEF OrderedHistory
<1>8. /\ steps' \in Seq(Step)
      /\ Len(steps') = Len(steps) + 1
      /\ steps'[Len(steps')] = step
      /\ Replayed(edges, steps')
      /\ LeftBy(edges, steps', Len(steps')) = live \ {position}
      /\ steps' # <<>>
  <2>. DEFINE more == Append(steps, step)
  <2>1. /\ more \in Seq(Step) /\ Len(more) = Len(steps) + 1
        /\ more[Len(steps) + 1] = step
        /\ Replayed(edges, more)
    BY <1>5, <1>6, <1>7, ReplayedMore
  <2>2. LeftBy(edges, more, Len(steps) + 1) = live \ {position}
    BY <1>5, <1>7, LeftByMore
  <2>3. more # <<>>
    BY <1>7, <2>1
  <2>. HIDE DEF more
  <2>4. steps' = more
    BY <1>2 DEF more
  <2>5. QED
    BY <2>1, <2>2, <2>3, <2>4
<1>9. GroupsInOrder(steps')
  <2>1. steps = <<>> => step.epoch = 1
    BY <1>5 DEF OrderedHistory
  <2>2. steps # <<>> =>
           \/ step.epoch = steps[Len(steps)].epoch + 1
           \/ /\ step.epoch = steps[Len(steps)].epoch
              /\ step.edge > steps[Len(steps)].edge
    <3>1. phase # "done"
      BY DEF RetireRemove
    <3>2. QED
      <4>1. CASE steps # <<>> /\ removedAny
        <5>1. Len(steps) \in 1 .. Len(steps)
          BY <1>7, <4>1
        <5>2. steps[Len(steps)] \in Step
          BY <1>7, <5>1
        <5>3. steps[Len(steps)].edge \in Nat
          BY <5>2 DEF Step
        <5>4. QED
          BY <1>1, <1>5, <3>1, <4>1, <5>3 DEF OrderedHistory
      <4>2. CASE steps # <<>> /\ ~removedAny
        BY <1>5, <1>7, <4>2 DEF OrderedHistory
      <4>3. QED
        BY <4>1, <4>2
  <2>3. GroupsInOrder(steps)
    BY DEF OrderedHistory
  <2>4. GroupsInOrder(Append(steps, step))
    BY <1>5, <1>7, <2>1, <2>2, <2>3, GroupsMore
  <2>5. QED
    BY <1>2, <2>4
<1>10. epochs' \in Nat \ {0}
  BY <1>2 DEF OrderedHistory
<1>11. steps'[Len(steps')].epoch = epochs' /\ steps'[Len(steps')].edge < position'
  BY <1>1, <1>2, <1>5, <1>8
<1>12. QED
  BY <1>2, <1>8, <1>9, <1>10, <1>11 DEF OrderedHistory

\* The steps of the ordered schedule that remove nothing leave the history.
LEMMA QuietHistory ==
  ASSUME OrderedInv, OrderedHistory,
         FormStage \/ TestStage \/ RetireSkip \/ RetireKeep \/ EndPass
  PROVE  OrderedHistory'
<1>1. UNCHANGED <<edges, live, steps>>
  BY DEF FormStage, TestStage, RetireSkip, RetireKeep, EndPass, graphVars, runVars
<1>2. position \in Nat /\ steps \in Seq(Step) /\ epochs \in Nat \ {0}
  BY DEF OrderedInv, OrderedTyped, OrderedHistory
<1>3. steps # <<>> => steps[Len(steps)].edge \in Nat
  <2>. SUFFICES ASSUME steps # <<>>
                PROVE  steps[Len(steps)].edge \in Nat
    OBVIOUS
  <2>1. Len(steps) \in 1 .. Len(steps)
    BY <1>2
  <2>2. steps[Len(steps)] \in Step
    BY <1>2, <2>1
  <2>3. QED
    BY <2>2 DEF Step
<1>4. CASE FormStage \/ TestStage \/ RetireSkip \/ RetireKeep
  <2>1. /\ UNCHANGED <<epochs, removedAny>> /\ position' \in {position, position + 1}
        /\ phase # "done"
    BY <1>4 DEF FormStage, TestStage, RetireSkip, RetireKeep, Advance, graphVars, runVars
  <2>2. steps # <<>> /\ removedAny => steps[Len(steps)].edge < position'
    BY <1>2, <1>3, <2>1 DEF OrderedHistory
  <2>3. QED
    BY <1>1, <2>1, <2>2 DEF OrderedHistory
<1>5. CASE EndPass
  <2>1. CASE removedAny
    <3>1. epochs' = epochs + 1 /\ removedAny' = FALSE /\ steps # <<>>
      BY <1>5, <2>1 DEF EndPass, OrderedHistory
    <3>2. steps[Len(steps)].epoch = epochs
      BY <2>1, <3>1 DEF OrderedHistory
    <3>3. epochs' \in Nat \ {0} /\ epochs' - 1 = epochs
      BY <1>2, <3>1
    <3>4. QED
      BY <1>1, <3>1, <3>2, <3>3 DEF OrderedHistory
  <2>2. CASE ~removedAny
    <3>1. UNCHANGED <<epochs, removedAny>>
      BY <1>5, <2>2 DEF EndPass
    <3>2. QED
      BY <1>1, <2>2, <3>1 DEF OrderedHistory
  <2>3. QED
    BY <2>1, <2>2
<1>6. QED
  BY <1>4, <1>5

-----------------------------------------------------------------------------
(* The certificate of the rounds schedule *)

\* The graph that a round starts from: without the removals of the rounds before.
Frozen(list, removals, n) ==
  (1 .. Len(list)) \ {removals[j].edge : j \in {m \in DOMAIN removals : removals[m].epoch < n}}

Apart(list, kept, j, k) == ~(Ends(list[j]) \subseteq ClosedCommon(list, kept, k))

\* Every removal was one that the test allowed in the graph before its round,
\* and apart from the others of the round.
RoundsReplayed(list, removals) ==
  \A k \in DOMAIN removals :
    /\ Allowed(list, Frozen(list, removals, removals[k].epoch), removals[k])
    /\ \A j \in DOMAIN removals :
         removals[j].epoch = removals[k].epoch /\ j # k =>
           Apart(list, Frozen(list, removals, removals[k].epoch), removals[j].edge, removals[k].edge)

\* One more removal in a round that is not over.
LEMMA RoundsReplayedMore ==
  ASSUME NEW list, NEW removals \in Seq(Step), NEW step \in Step, RoundsReplayed(list, removals),
         \A k \in DOMAIN removals : removals[k].epoch <= step.epoch,
         Allowed(list, Frozen(list, removals, step.epoch), step),
         \A k \in DOMAIN removals : removals[k].epoch = step.epoch =>
           /\ Apart(list, Frozen(list, removals, step.epoch), removals[k].edge, step.edge)
           /\ Apart(list, Frozen(list, removals, step.epoch), step.edge, removals[k].edge)
  PROVE  /\ RoundsReplayed(list, Append(removals, step))
         /\ Frozen(list, Append(removals, step), step.epoch) = Frozen(list, removals, step.epoch)
<1>. DEFINE more == Append(removals, step)
            n    == Len(removals)
<1>1. /\ n \in Nat /\ \A j \in 1 .. n : more[j] = removals[j]
      /\ more[n + 1] = step
      /\ DOMAIN more = 1 .. n + 1 /\ DOMAIN removals = 1 .. n
  OBVIOUS
<1>2. step.epoch \in Nat /\ \A k \in 1 .. n : removals[k].epoch \in Nat
  <2>1. \A k \in 1 .. n : removals[k] \in Step
    OBVIOUS
  <2>2. QED
    BY <2>1 DEF Step
<1>. HIDE DEF more, n
<1>3. ASSUME NEW m \in Nat, m <= step.epoch
      PROVE  Frozen(list, more, m) = Frozen(list, removals, m)
  <2>1. {j \in DOMAIN more : more[j].epoch < m} = {j \in DOMAIN removals : removals[j].epoch < m}
    <3>1. ~(more[n + 1].epoch < m)
      BY <1>1, <1>2, <1>3
    <3>2. \A j \in DOMAIN more : more[j].epoch < m => j \in 1 .. n
      BY <1>1, <3>1
    <3>3. \A j \in 1 .. n : j \in DOMAIN more
      BY <1>1
    <3>4. QED
      BY <1>1, <3>2, <3>3
  <2>2. {more[j].edge : j \in {k \in DOMAIN removals : removals[k].epoch < m}}
          = {removals[j].edge : j \in {k \in DOMAIN removals : removals[k].epoch < m}}
    BY <1>1
  <2>3. QED
    BY <2>1, <2>2 DEF Frozen
<1>4. Frozen(list, more, step.epoch) = Frozen(list, removals, step.epoch)
  BY <1>2, <1>3
<1>5. ASSUME NEW k \in DOMAIN more
      PROVE  /\ Allowed(list, Frozen(list, more, more[k].epoch), more[k])
             /\ \A j \in DOMAIN more :
                  more[j].epoch = more[k].epoch /\ j # k =>
                    Apart(list, Frozen(list, more, more[k].epoch), more[j].edge, more[k].edge)
  <2>1. CASE k \in 1 .. n
    <3>1. more[k] = removals[k] /\ removals[k].epoch \in Nat /\ removals[k].epoch <= step.epoch
          /\ k \in DOMAIN removals
      BY <1>1, <1>2, <2>1
    <3>2. Frozen(list, more, more[k].epoch) = Frozen(list, removals, removals[k].epoch)
      BY <1>3, <3>1
    <3>3. Allowed(list, Frozen(list, more, more[k].epoch), more[k])
      BY <3>1, <3>2 DEF RoundsReplayed
    <3>4. ASSUME NEW j \in DOMAIN more, more[j].epoch = more[k].epoch, j # k
          PROVE  Apart(list, Frozen(list, more, more[k].epoch), more[j].edge, more[k].edge)
      <4>1. CASE j \in 1 .. n
        <5>1. more[j] = removals[j] /\ j \in DOMAIN removals
          BY <1>1, <4>1
        <5>2. QED
          BY <3>1, <3>2, <3>4, <5>1 DEF RoundsReplayed
      <4>2. CASE j = n + 1
        <5>1. more[j] = step /\ removals[k].epoch = step.epoch
          BY <1>1, <3>1, <3>4, <4>2
        <5>2. QED
          BY <3>1, <3>2, <5>1
      <4>3. QED
        BY <1>1, <4>1, <4>2
    <3>5. QED
      BY <3>3, <3>4
  <2>2. CASE k = n + 1
    <3>1. more[k] = step
      BY <1>1, <2>2
    <3>2. ASSUME NEW j \in DOMAIN more, more[j].epoch = more[k].epoch, j # k
          PROVE  Apart(list, Frozen(list, more, more[k].epoch), more[j].edge, more[k].edge)
      <4>1. j \in 1 .. n
        BY <1>1, <2>2, <3>2
      <4>2. more[j] = removals[j] /\ j \in DOMAIN removals
        BY <1>1, <4>1
      <4>3. QED
        BY <1>4, <3>1, <3>2, <4>2
    <3>3. QED
      BY <1>4, <3>1, <3>2
  <2>3. QED
    BY <1>1, <2>1, <2>2
<1>6. RoundsReplayed(list, more)
  BY <1>5 DEF RoundsReplayed
<1>7. QED
  BY <1>4, <1>6 DEF more

\* All removals of a round are made on the graph before it.
RoundsHistory ==
  /\ steps \in Seq(Step)
  /\ epochs \in Nat \ {0}
  /\ RoundsReplayed(edges, steps)
  /\ live = LeftBy(edges, steps, Len(steps))
  /\ GroupsInOrder(steps)
  /\ \A k \in DOMAIN steps : steps[k].epoch <= epochs
  /\ steps = <<>> => epochs = 1
  /\ steps # <<>> => steps[Len(steps)].epoch \in {epochs - 1, epochs}
  /\ phase # "commit" => \A k \in DOMAIN steps : steps[k].epoch < epochs
  /\ phase = "commit" => selected # {} \/ (steps # <<>> /\ steps[Len(steps)].epoch = epochs)

\* The selection, what is gone of it and what is left.
SelectionStands ==
  phase = "commit" =>
    LET frozen == Frozen(edges, steps, epochs)
        gone   == {k \in DOMAIN steps : steps[k].epoch = epochs}
    IN  /\ \A i \in selected : /\ i \in frozen
                               /\ results[i] = TestEdge(edges, frozen, i)
                               /\ results[i] # <<>>
                               /\ \A k \in gone : steps[k].edge < i
        /\ \A i, j \in selected \cup {steps[k].edge : k \in gone} :
             i # j => Apart(edges, frozen, i, j)

\* A removal as the certificate records it.
LEMMA StepsTyped ==
  ASSUME NEW removals \in Seq(Step)
  PROVE  /\ Len(removals) \in Nat /\ DOMAIN removals = 1 .. Len(removals)
         /\ \A k \in DOMAIN removals :
              /\ removals[k] \in Step
              /\ removals[k].epoch \in Nat /\ removals[k].edge \in Nat
<1>1. Len(removals) \in Nat /\ DOMAIN removals = 1 .. Len(removals)
  OBVIOUS
<1>2. \A k \in DOMAIN removals : removals[k] \in Step
  OBVIOUS
<1>3. QED
  BY <1>1, <1>2 DEF Step

\* The rounds start without a history.
LEMMA RoundsHistoryInit == RoundsInit => RoundsHistory /\ SelectionStands
<1>. SUFFICES ASSUME RoundsInit
              PROVE  RoundsHistory /\ SelectionStands
  OBVIOUS
<1>1. steps = <<>> /\ live = 1 .. Len(edges) /\ epochs = 1 /\ phase = "test"
  BY DEF RoundsInit, RunInit, Positions
<1>2. Len(edges) \in Nat
  BY RunInitTyped DEF RoundsInit, GraphTyped, IsSchedule
<1>3. DOMAIN <<>> = {}
  OBVIOUS
<1>4. QED
  BY <1>1, <1>2, <1>3, NothingRemoved DEF RoundsHistory, SelectionStands, RoundsReplayed

\* With no removal of this round, the frozen graph is that of the live edges.
LEMMA FrozenIsLive ==
  ASSUME RoundsHistory, \A k \in DOMAIN steps : steps[k].epoch < epochs
  PROVE  Frozen(edges, steps, epochs) = live
<1>1. {j \in DOMAIN steps : steps[j].epoch < epochs} = 1 .. Len(steps)
  BY StepsTyped DEF RoundsHistory
<1>2. QED
  BY <1>1 DEF Frozen, LeftBy, RoundsHistory

\* A selected edge is apart from those selected before it, both ways.
LEMMA SelectHistory ==
  ASSUME RoundsInv, RoundsInv', RoundsHistory, Select
  PROVE  RoundsHistory' /\ SelectionStands'
<1>1. /\ UNCHANGED <<edges, live, steps, epochs, results>> /\ selected' = Greedy
      /\ phase = "select" /\ phase' = IF Greedy = {} THEN "done" ELSE "commit"
  BY DEF Select, runVars
<1>2. \A k \in DOMAIN steps : steps[k].epoch < epochs
  BY <1>1 DEF RoundsHistory
<1>3. Frozen(edges, steps, epochs) = live
  BY <1>2, FrozenIsLive
<1>4. RoundsHistory'
  <2>1. phase' = "commit" => selected' # {}
    BY <1>1
  <2>2. QED
    BY <1>1, <1>2, <2>1 DEF RoundsHistory
<1>5. ASSUME phase' = "commit"
      PROVE  SelectionStands'
  <2>1. {k \in DOMAIN steps : steps[k].epoch = epochs} = {}
    <3>1. \A k \in DOMAIN steps : steps[k].epoch \in Nat
      BY StepsTyped DEF RoundsHistory
    <3>2. QED
      BY <1>2, <3>1 DEF RoundsHistory
  <2>2. ASSUME NEW i \in Greedy
        PROVE  i \in live /\ results[i] = TestEdge(edges, live, i) /\ results[i] # <<>>
    <3>1. i \in Contenders
      BY <1>1, GreedySelects
    <3>2. QED
      BY <1>1, <3>1 DEF Contenders, RoundsInv
  <2>3. \A j, k \in Greedy : j # k => Apart(edges, live, k, j)
    BY <1>1, <1>5 DEF RoundsInv, Apart
  <2>4. QED
    BY <1>1, <1>3, <2>1, <2>2, <2>3 DEF SelectionStands
<1>6. QED
  BY <1>4, <1>5 DEF SelectionStands

\* A commit adds a removal of this round to the history.
LEMMA CommitHistory ==
  ASSUME RoundsInv, RoundsHistory, SelectionStands, CommitOne
  PROVE  RoundsHistory' /\ SelectionStands'
<1>1. PICK i : i = Min(selected)
  OBVIOUS
<1>. DEFINE step   == [edge |-> i, epoch |-> epochs, witnesses |-> results[i]]
            more   == Append(steps, step)
            frozen == Frozen(edges, steps, epochs)
            gone   == {k \in DOMAIN steps : steps[k].epoch = epochs}
<1>2. /\ phase = "commit" /\ phase' = "commit" /\ selected # {}
      /\ live' = live \ {i} /\ selected' = selected \ {i}
      /\ steps' = more
      /\ UNCHANGED <<edges, epochs, results>>
  BY <1>1 DEF CommitOne
<1>3. /\ IsSchedule(edges) /\ live \in SUBSET (1 .. Len(edges)) /\ Len(edges) \in Nat
      /\ selected \subseteq live
  BY <1>2 DEF RoundsInv, GraphTyped, Positions, IsSchedule
<1>4. i \in selected /\ \A j \in selected : i <= j /\ j \in Nat
  <2>1. selected \in SUBSET Nat
    BY <1>3
  <2>2. QED
    BY <1>1, <1>2, <2>1, MinOfNaturals
<1>5. /\ \A j \in selected : /\ j \in frozen /\ results[j] = TestEdge(edges, frozen, j)
                             /\ results[j] # <<>>
                             /\ \A k \in gone : steps[k].edge < j
      /\ \A j, k \in selected \cup {steps[m].edge : m \in gone} : j # k => Apart(edges, frozen, j, k)
  BY <1>2 DEF SelectionStands
<1>6. /\ steps \in Seq(Step) /\ epochs \in Nat \ {0} /\ RoundsReplayed(edges, steps)
      /\ live = LeftBy(edges, steps, Len(steps)) /\ GroupsInOrder(steps)
      /\ \A k \in DOMAIN steps : steps[k].epoch <= epochs
      /\ steps = <<>> => epochs = 1
      /\ steps # <<>> => steps[Len(steps)].epoch \in {epochs - 1, epochs}
  BY DEF RoundsHistory
<1>7. /\ Len(steps) \in Nat /\ DOMAIN steps = 1 .. Len(steps)
      /\ \A k \in DOMAIN steps : steps[k].epoch \in Nat /\ steps[k].edge \in Nat
  BY <1>6, StepsTyped
<1>8. frozen \in SUBSET (1 .. Len(edges))
  BY DEF Frozen
<1>9. step \in Step /\ step.edge = i /\ step.epoch = epochs /\ step.witnesses = results[i]
  <2>1. results[i] \in Seq([level : Level, apex : Vertices])
    BY <1>3, <1>4, <1>5, <1>8, TestEdgeTyped
  <2>2. QED
    BY <1>4, <1>6, <2>1 DEF Step
<1>10. Allowed(edges, frozen, step)
  BY <1>4, <1>5, <1>9 DEF Allowed
<1>11. ASSUME NEW k \in DOMAIN steps, steps[k].epoch = epochs
       PROVE  /\ Apart(edges, frozen, steps[k].edge, i) /\ Apart(edges, frozen, i, steps[k].edge)
              /\ steps[k].edge < i
  <2>1. k \in gone
    BY <1>11
  <2>2. steps[k].edge < i
    BY <1>4, <1>5, <2>1
  <2>3. steps[k].edge # i
    BY <1>4, <1>7, <2>2
  <2>4. QED
    BY <1>4, <1>5, <2>1, <2>2, <2>3
<1>. HIDE DEF step
<1>12. RoundsReplayed(edges, more) /\ Frozen(edges, more, epochs) = frozen
  BY <1>6, <1>9, <1>10, <1>11, RoundsReplayedMore
<1>13. /\ more \in Seq(Step) /\ Len(more) = Len(steps) + 1 /\ DOMAIN more = 1 .. Len(steps) + 1
       /\ more[Len(steps) + 1] = step
       /\ \A k \in 1 .. Len(steps) : more[k] = steps[k]
       /\ more # <<>>
  <2>1. /\ more \in Seq(Step) /\ Len(more) = Len(steps) + 1 /\ DOMAIN more = 1 .. Len(steps) + 1
        /\ more[Len(steps) + 1] = step
        /\ \A k \in 1 .. Len(steps) : more[k] = steps[k]
    BY <1>6, <1>9
  <2>. HIDE DEF more
  <2>2. more # <<>>
    BY <1>7, <2>1
  <2>3. QED
    BY <2>1, <2>2
<1>14. LeftBy(edges, more, Len(steps) + 1) = live \ {i}
  <2>1. LeftBy(edges, more, Len(steps) + 1) = LeftBy(edges, steps, Len(steps)) \ {step.edge}
    BY <1>6, <1>9, LeftByMore
  <2>2. step.edge = i /\ LeftBy(edges, steps, Len(steps)) = live
    BY <1>6, <1>9
  <2>3. QED
    BY <2>1, <2>2
<1>15. GroupsInOrder(more)
  <2>1. steps # <<>> =>
           \/ step.epoch = steps[Len(steps)].epoch + 1
           \/ /\ step.epoch = steps[Len(steps)].epoch
              /\ step.edge > steps[Len(steps)].edge
    <3>. SUFFICES ASSUME steps # <<>>
                  PROVE  \/ step.epoch = steps[Len(steps)].epoch + 1
                         \/ /\ step.epoch = steps[Len(steps)].epoch
                            /\ step.edge > steps[Len(steps)].edge
      OBVIOUS
    <3>1. Len(steps) \in DOMAIN steps
      BY <1>6
    <3>2. CASE steps[Len(steps)].epoch = epochs
      <4>1. steps[Len(steps)].edge < i
        BY <1>11, <3>1, <3>2
      <4>2. QED
        BY <1>4, <1>7, <1>9, <3>1, <3>2, <4>1
    <3>3. CASE steps[Len(steps)].epoch = epochs - 1
      BY <1>6, <1>9, <3>3
    <3>4. QED
      BY <1>6, <3>2, <3>3
  <2>2. steps = <<>> => step.epoch = 1
    BY <1>6, <1>9
  <2>3. QED
    BY <1>6, <1>9, <2>1, <2>2, GroupsMore
<1>. HIDE DEF more
<1>16. ASSUME NEW k \in DOMAIN more
       PROVE  /\ more[k].epoch <= epochs
              /\ more[k].epoch = epochs => more[k].edge = i \/ \E m \in gone : m = k /\ more[k].edge = steps[m].edge
  <2>1. CASE k \in 1 .. Len(steps)
    BY <1>6, <1>7, <1>13, <2>1
  <2>2. CASE k = Len(steps) + 1
    BY <1>6, <1>9, <1>13, <2>2
  <2>3. QED
    BY <1>7, <1>13, <2>1, <2>2
<1>17. RoundsHistory'
  <2>1. more[Len(more)].epoch = epochs
    BY <1>9, <1>13
  <2>2. \A k \in DOMAIN more : more[k].epoch <= epochs
    BY <1>16
  <2>3. live \ {i} = LeftBy(edges, more, Len(more))
    BY <1>13, <1>14
  <2>4. QED
    BY <1>2, <1>6, <1>12, <1>13, <1>15, <2>1, <2>2, <2>3 DEF RoundsHistory
<1>18. SelectionStands'
  <2>. DEFINE now == {k \in DOMAIN more : more[k].epoch = epochs}
  <2>1. \A k \in now : more[k].edge = i \/ \E m \in gone : more[k].edge = steps[m].edge
    BY <1>16
  <2>2. {more[k].edge : k \in now} \subseteq {i} \cup {steps[m].edge : m \in gone}
    BY <2>1
  <2>3. \A j, k \in (selected \ {i}) \cup {more[m].edge : m \in now} : j # k => Apart(edges, frozen, j, k)
    <3>1. (selected \ {i}) \cup {more[m].edge : m \in now} \subseteq selected \cup {steps[m].edge : m \in gone}
      BY <1>4, <2>2
    <3>. HIDE DEF now, gone, frozen
    <3>2. QED
      BY <1>5, <3>1
  <2>4. ASSUME NEW j \in selected \ {i}, NEW k \in now
        PROVE  more[k].edge < j
    <3>1. i < j /\ i \in Nat /\ j \in Nat
      BY <1>4
    <3>2. CASE more[k].edge = i
      BY <3>1, <3>2
    <3>3. CASE \E m \in gone : more[k].edge = steps[m].edge
      BY <1>5, <3>3
    <3>4. QED
      BY <2>1, <3>2, <3>3
  <2>5. Frozen(edges, more, epochs) = frozen
    BY <1>12
  <2>6. \A j \in selected \ {i} : /\ j \in frozen /\ results[j] = TestEdge(edges, frozen, j)
                                 /\ results[j] # <<>>
                                 /\ \A k \in now : more[k].edge < j
    BY <1>5, <2>4
  <2>. HIDE DEF frozen, gone
  <2>7. QED
    BY <1>2, <2>3, <2>5, <2>6 DEF SelectionStands
<1>19. QED
  BY <1>17, <1>18

\* The other steps of a round leave the history.
LEMMA RoundsOtherHistory ==
  ASSUME RoundsInv, RoundsHistory, TestDue \/ NextRound
  PROVE  RoundsHistory' /\ SelectionStands'
<1>1. UNCHANGED <<edges, live, steps>> /\ phase' # "commit"
  BY DEF TestDue, NextRound
<1>2. /\ steps \in Seq(Step) /\ epochs \in Nat \ {0}
      /\ \A k \in DOMAIN steps : steps[k].epoch <= epochs /\ steps[k].epoch \in Nat
  BY StepsTyped DEF RoundsHistory
<1>3. CASE TestDue
  BY <1>1, <1>3 DEF TestDue, RoundsHistory, SelectionStands
<1>4. CASE NextRound
  <2>1. epochs' = epochs + 1 /\ steps # <<>> /\ steps[Len(steps)].epoch = epochs
    BY <1>4 DEF NextRound, RoundsHistory
  <2>2. epochs' \in Nat \ {0} /\ epochs = epochs' - 1 /\ \A k \in DOMAIN steps : steps[k].epoch < epochs'
    BY <1>2, <2>1
  <2>3. \A k \in DOMAIN steps : steps[k].epoch <= epochs'
    BY <1>2, <2>2
  <2>4. QED
    BY <1>1, <2>1, <2>2, <2>3 DEF RoundsHistory, SelectionStands
<1>5. QED
  BY <1>3, <1>4

-----------------------------------------------------------------------------
(* The adaptive schedule *)

\* The adaptive schedule's copy of the edge test says the same.
LEMMA SameTest ==
  ASSUME NEW E, NEW L, NEW i
  PROVE  /\ Adaptive!TestEdge(E, L, i) = TestEdge(E, L, i)
         /\ \A S : Adaptive!Cardinality(S) = Cardinality(S)
<1>1. Adaptive!Distances(E, L) = Distances(E, L)
  BY DEF Adaptive!Distances, Distances, Adaptive!Vertices, Vertices, Adaptive!Ends, Ends,
         Adaptive!Infinity, Infinity
<1>2. \A d, e : Adaptive!Candidates(d, e) = Candidates(d, e)
  BY DEF Adaptive!Candidates, Candidates, Adaptive!Vertices, Vertices, Adaptive!Ends, Ends,
         Adaptive!Infinity, Infinity, Adaptive!Common, Common, Adaptive!Max, Max
<1>3. \A d, e : Adaptive!Among(d, e) = Among(d, e)
  BY DEF Adaptive!Among, Among
<1>4. \A d, e : Adaptive!Segments(d, e) = Segments(d, e)
  BY DEF Adaptive!Segments, Segments, Adaptive!Min, Min, Adaptive!Dominating, Dominating
<1>5. Adaptive!TestEdge(E, L, i) = TestEdge(E, L, i)
  BY <1>1, <1>2, <1>3, <1>4 DEF Adaptive!TestEdge, TestEdge
<1>6. \A S : Adaptive!Cardinality(S) = Cardinality(S)
  BY DEF Adaptive!Cardinality, Cardinality
<1>7. QED
  BY <1>5, <1>6

\* A score counts triangles and tetrahedra.
LEMMA ScoreTyped ==
  ASSUME NEW i
  PROVE  Adaptive!Score(i) \in Nat \X Nat
<1>1. IsFiniteSet(Adaptive!Triangles(i))
  <2>1. IsFiniteSet(Vertices)
    BY FS_Interval, GraphAssumption DEF Vertices
  <2>2. Adaptive!Triangles(i) \subseteq Vertices
    BY DEF Adaptive!Triangles, Adaptive!Common, Adaptive!Vertices, Vertices
  <2>3. QED
    BY <2>1, <2>2, FS_Subset
<1>2. IsFiniteSet(Adaptive!Tetrahedra(i))
  <2>1. IsFiniteSet(SUBSET Adaptive!Triangles(i))
    BY <1>1, FS_SUBSET
  <2>2. Adaptive!Tetrahedra(i) \subseteq SUBSET Adaptive!Triangles(i)
    BY DEF Adaptive!Tetrahedra
  <2>3. QED
    BY <2>1, <2>2, FS_Subset
<1>3. /\ Adaptive!Cardinality(Adaptive!Triangles(i)) \in Nat
      /\ Adaptive!Cardinality(Adaptive!Tetrahedra(i)) \in Nat
  BY <1>1, <1>2, FS_CardinalityType, SameTest
<1>4. QED
  BY <1>3 DEF Adaptive!Score

\* The queue of a pass holds each of its candidates once.
LEMMA QueueHolds ==
  ASSUME NEW S, IsFiniteSet(S), S \subseteq Nat
  PROVE  LET line == Adaptive!InScoreOrder(S)
         IN  /\ line \in Seq(Nat) /\ Len(line) = Cardinality(S) /\ Cardinality(S) \in Nat
             /\ \A n \in 1 .. Len(line) : line[n] \in S
             /\ \A m, n \in 1 .. Len(line) : line[m] = line[n] => m = n
<1>. DEFINE before(i, j) == LET a == Adaptive!Score(i)
                                b == Adaptive!Score(j)
                            IN  \/ a[1] > b[1]
                                \/ a[1] = b[1] /\ a[2] > b[2]
                                \/ a = b /\ i < j
            R       == {p \in S \X S : before(p[1], p[2])}
            turn(i) == Cardinality({j \in S : <<j, i>> \in R})
            size    == Cardinality(S)
            line    == [n \in 1 .. size |-> CHOOSE i \in S : turn(i) = n - 1]
<1>1. Adaptive!InScoreOrder(S) = line
  BY Zenon DEF Adaptive!InScoreOrder, Adaptive!Cardinality, Cardinality
<1>2. ASSUME NEW i \in S
      PROVE  i \in Nat /\ Adaptive!Score(i) \in Nat \X Nat
  BY ScoreTyped
<1>3. Orders(R, S)
  <2>1. ASSUME NEW i \in S, NEW j \in S, NEW k \in S
        PROVE  /\ ~before(i, i)
               /\ before(i, j) /\ before(j, k) => before(i, k)
               /\ i # j => before(i, j) \/ before(j, i)
    <3>. DEFINE a == Adaptive!Score(i)
                b == Adaptive!Score(j)
                c == Adaptive!Score(k)
    <3>1. /\ a[1] \in Nat /\ a[2] \in Nat /\ b[1] \in Nat /\ b[2] \in Nat /\ c[1] \in Nat /\ c[2] \in Nat
          /\ i \in Nat /\ j \in Nat /\ k \in Nat
          /\ a = b <=> a[1] = b[1] /\ a[2] = b[2]
          /\ b = c <=> b[1] = c[1] /\ b[2] = c[2]
          /\ a = c <=> a[1] = c[1] /\ a[2] = c[2]
      <4>1. a \in Nat \X Nat /\ b \in Nat \X Nat /\ c \in Nat \X Nat /\ i \in Nat /\ j \in Nat /\ k \in Nat
        BY <1>2
      <4>. HIDE DEF a, b, c
      <4>2. QED
        BY <4>1
    <3>2. QED
      <4>. HIDE DEF a, b, c
      <4>1. /\ ~(a[1] > a[1] \/ (a[1] = a[1] /\ a[2] > a[2]) \/ (a = a /\ i < i))
            /\ (a[1] > b[1] \/ (a[1] = b[1] /\ a[2] > b[2]) \/ (a = b /\ i < j))
                 /\ (b[1] > c[1] \/ (b[1] = c[1] /\ b[2] > c[2]) \/ (b = c /\ j < k))
                 => (a[1] > c[1] \/ (a[1] = c[1] /\ a[2] > c[2]) \/ (a = c /\ i < k))
            /\ i # j => \/ (a[1] > b[1] \/ (a[1] = b[1] /\ a[2] > b[2]) \/ (a = b /\ i < j))
                        \/ (b[1] > a[1] \/ (b[1] = a[1] /\ b[2] > a[2]) \/ (b = a /\ j < i))
        BY <3>1
      <4>2. QED
        BY <4>1 DEF a, b, c
  <2>. HIDE DEF before
  <2>2. QED
    BY <2>1 DEF Orders
<1>4. ASSUME NEW i \in S
      PROVE  turn(i) = Rank(R, S, i)
  BY DEF Rank
<1>. HIDE DEF R, before
<1>5. /\ Cardinality(S) \in Nat
      /\ \A x \in S : Rank(R, S, x) \in 0 .. Cardinality(S) - 1
      /\ \A n \in 0 .. Cardinality(S) - 1 : \E x \in S : Rank(R, S, x) = n
      /\ \A x, y \in S : Rank(R, S, x) = Rank(R, S, y) => x = y
      /\ \A x, y \in S : <<x, y>> \in R => Rank(R, S, x) < Rank(R, S, y)
  BY <1>3, RanksNumber
<1>. HIDE DEF turn
<1>6. ASSUME NEW n \in 1 .. size
      PROVE  line[n] \in S /\ turn(line[n]) = n - 1
  <2>1. n - 1 \in 0 .. size - 1
    BY <1>5
  <2>2. \E i \in S : turn(i) = n - 1
    BY <1>4, <1>5, <2>1
  <2>3. QED
    BY <2>2
<1>7. line \in Seq(Nat) /\ Len(line) = size
  <2>1. line \in [1 .. size -> Nat]
    BY <1>6
  <2>2. Cardinality(S) \in Nat
    BY <1>5
  <2>. HIDE DEF line
  <2>3. line \in [1 .. Cardinality(S) -> Nat]
    BY <2>1
  <2>4. QED
    BY <2>2, <2>3
<1>. HIDE DEF line
<1>8. ASSUME NEW m \in 1 .. size, NEW n \in 1 .. size, line[m] = line[n]
      PROVE  m = n
  <2>1. m - 1 = n - 1
    BY <1>6, <1>8
  <2>2. m \in Int /\ n \in Int
    OBVIOUS
  <2>3. QED
    BY <2>1, <2>2
<1>9. QED
  BY <1>1, <1>5, <1>6, <1>7, <1>8

QueueAlive ==
  /\ queue \in Seq(Nat) /\ queue # <<>>
  /\ \A n \in 1 .. Len(queue) : queue[n] \in live
  /\ \A m, n \in 1 .. Len(queue) : queue[m] = queue[n] => m = n

AdaptiveInv ==
  /\ IsSchedule(edges)
  /\ steps \in Seq(Step)
  /\ Replayed(edges, steps)
  /\ live = LeftBy(edges, steps, Len(steps))
  /\ \A k \in DOMAIN steps : steps[k].epoch = k
  /\ limit \in Nat \cup {NoLimit} /\ used \in Nat
  /\ limit # NoLimit => used <= limit
  /\ phase \in {"plan", "pop", "done", "limited"}
  /\ phase = "pop" => QueueAlive
  /\ phase = "limited" => limit # NoLimit /\ used = limit
  /\ Exhausted

\* The adaptive schedule starts with its invariant.
LEMMA AdaptiveInitInv == Adaptive!Init => AdaptiveInv
<1>. SUFFICES ASSUME Adaptive!Init
              PROVE  AdaptiveInv
  OBVIOUS
<1>1. /\ steps = <<>> /\ live = 1 .. Len(edges) /\ used = 0 /\ phase = "plan"
      /\ limit \in WorkLimits /\ edges \in Starts
  BY DEF Adaptive!Init, Adaptive!Position
<1>2. IsSchedule(edges) /\ Len(edges) \in Nat
  <2>1. PICK input \in Inputs : edges = Prepared(input)
    BY <1>1 DEF Starts
  <2>2. IsInput(input)
    BY InputsAssumption DEF IsInput
  <2>3. IsSchedule(edges)
    BY <2>1, <2>2, PreparedInOrder
  <2>4. QED
    BY <2>3 DEF IsSchedule
<1>3. limit \in Nat \cup {NoLimit} /\ (limit # NoLimit => used <= limit)
  BY <1>1, WorkLimitsAssumption
<1>4. QED
  BY <1>1, <1>2, <1>3, NothingRemoved DEF AdaptiveInv, Exhausted

\* What is live is finite, and so is what may be removed of it.
LEMMA LiveFinite ==
  ASSUME AdaptiveInv
  PROVE  /\ live \in SUBSET (1 .. Len(edges)) /\ Len(edges) \in Nat
         /\ IsFiniteSet(live) /\ Cardinality(live) \in Nat
         /\ \A L \in SUBSET live : IsFiniteSet(L) /\ L \subseteq Nat
<1>1. live \in SUBSET (1 .. Len(edges)) /\ Len(edges) \in Nat
  BY DEF AdaptiveInv, LeftBy, IsSchedule
<1>2. IsFiniteSet(1 .. Len(edges))
  BY <1>1, FS_Interval
<1>3. IsFiniteSet(live)
  BY <1>1, <1>2, FS_Subset
<1>4. ASSUME NEW L \in SUBSET live
      PROVE  IsFiniteSet(L) /\ L \subseteq Nat
  <2>1. L \subseteq Nat
    BY <1>1
  <2>2. IsFiniteSet(L)
    BY <1>3, FS_Subset
  <2>3. QED
    BY <2>1, <2>2
<1>5. QED
  BY <1>1, <1>3, <1>4, FS_CardinalityType

\* What may be afforded keeps to the limit.
LEMMA AffordsFits ==
  ASSUME AdaptiveInv, NEW n \in Nat
  PROVE  /\ Adaptive!Affords(n) => (limit # NoLimit => used + n <= limit)
         /\ ~Adaptive!Affords(n) => limit # NoLimit /\ limit \in Nat /\ used + n > limit
<1>1. limit \in Nat \/ limit = -1
  BY DEF AdaptiveInv, NoLimit
<1>2. used \in Nat
  BY DEF AdaptiveInv
<1>3. QED
  BY <1>1, <1>2 DEF Adaptive!Affords, NoLimit

\* Planning a pass keeps the invariant, whether it fills a queue or ends the run.
LEMMA PlanInv ==
  ASSUME AdaptiveInv, Adaptive!PlanPass \/ Adaptive!PlanLimited \/ Adaptive!RetireLimited
  PROVE  AdaptiveInv'
<1>1. UNCHANGED <<edges, live, steps, limit>>
  BY DEF Adaptive!PlanPass, Adaptive!PlanLimited, Adaptive!RetireLimited
<1>2. /\ live \in SUBSET (1 .. Len(edges)) /\ IsFiniteSet(live) /\ Cardinality(live) \in Nat
      /\ \A L \in SUBSET live : IsFiniteSet(L) /\ L \subseteq Nat
  BY LiveFinite
<1>3. \A L : Adaptive!Cardinality(L) = Cardinality(L)
  BY SameTest
<1>4. CASE Adaptive!PlanPass
  <2>. DEFINE removable == {i \in live : TestEdge(edges, live, i) # <<>>}
  <2>1. /\ queue' = Adaptive!InScoreOrder(removable)
        /\ phase' = IF removable = {} THEN "done" ELSE "pop"
        /\ used' = used + Cardinality(live)
        /\ Adaptive!Affords(Cardinality(live))
    BY <1>3, <1>4, SameTest DEF Adaptive!PlanPass
  <2>2. limit # NoLimit => used' <= limit
    BY <1>2, <2>1, AffordsFits
  <2>3. used' \in Nat
    BY <1>2, <2>1 DEF AdaptiveInv
  <2>4. IsFiniteSet(removable) /\ removable \subseteq Nat /\ removable \subseteq live
    BY <1>2
  <2>5. ASSUME removable # {}
        PROVE  QueueAlive'
    <3>. HIDE DEF removable
    <3>1. /\ queue' \in Seq(Nat) /\ Len(queue') = Cardinality(removable) /\ Cardinality(removable) \in Nat
          /\ \A n \in 1 .. Len(queue') : queue'[n] \in removable
          /\ \A m, n \in 1 .. Len(queue') : queue'[m] = queue'[n] => m = n
      BY <2>1, <2>4, QueueHolds
    <3>2. Cardinality(removable) # 0
      BY <2>4, <2>5, FS_EmptySet
    <3>3. queue' # <<>>
      BY <3>1, <3>2
    <3>4. QED
      BY <1>1, <2>4, <3>1, <3>3 DEF QueueAlive
  <2>6. ASSUME removable = {}
        PROVE  \A i \in live : TestEdge(edges, live, i) = <<>>
    BY <2>6
  <2>7. QED
    BY <1>1, <2>1, <2>2, <2>3, <2>5, <2>6 DEF AdaptiveInv, Exhausted
<1>5. CASE Adaptive!PlanLimited
  <2>1. ~Adaptive!Affords(Cardinality(live)) /\ used' = limit /\ phase' = "limited"
    BY <1>3, <1>5 DEF Adaptive!PlanLimited
  <2>2. limit # NoLimit /\ limit \in Nat
    BY <1>2, <2>1, AffordsFits
  <2>3. QED
    BY <1>1, <2>1, <2>2 DEF AdaptiveInv, Exhausted
<1>6. CASE Adaptive!RetireLimited
  <2>1. ~Adaptive!Affords(1) /\ UNCHANGED used /\ phase' = "limited"
    BY <1>6 DEF Adaptive!RetireLimited
  <2>2. limit # NoLimit /\ limit \in Nat /\ used + 1 > limit
    BY <2>1, AffordsFits
  <2>3. used <= limit /\ used \in Nat
    BY <2>2 DEF AdaptiveInv
  <2>4. used = limit
    BY <2>2, <2>3
  <2>5. QED
    BY <1>1, <2>1, <2>2, <2>4 DEF AdaptiveInv, Exhausted
<1>7. QED
  BY <1>4, <1>5, <1>6

\* A candidate that is retired, or skipped, keeps the invariant.
LEMMA CandidateInv ==
  ASSUME AdaptiveInv, Adaptive!RetireCandidate
  PROVE  AdaptiveInv'
<1>. DEFINE i    == Head(queue)
            rest == Tail(queue)
            w    == TestEdge(edges, live, i)
            step == [edge |-> i, epoch |-> Len(steps) + 1, witnesses |-> w]
<1>1. /\ phase = "pop" /\ Adaptive!Affords(1) /\ used' = used + 1
      /\ IF w = <<>> THEN UNCHANGED <<live, steps>>
         ELSE live' = live \ {i} /\ steps' = Append(steps, step)
      /\ queue' = rest /\ phase' = IF rest = <<>> THEN "plan" ELSE "pop"
      /\ UNCHANGED <<edges, limit>>
  BY SameTest DEF Adaptive!RetireCandidate, Adaptive!PopNext
<1>2. /\ IsSchedule(edges) /\ steps \in Seq(Step) /\ Replayed(edges, steps)
      /\ live = LeftBy(edges, steps, Len(steps))
      /\ \A k \in DOMAIN steps : steps[k].epoch = k
      /\ QueueAlive
  BY <1>1 DEF AdaptiveInv
<1>3. live \in SUBSET (1 .. Len(edges)) /\ Len(edges) \in Nat
  BY LiveFinite
<1>4. used' \in Nat /\ (limit # NoLimit => used' <= limit)
  BY <1>1, AffordsFits DEF AdaptiveInv
<1>5. /\ rest \in Seq(Nat) /\ Len(queue) \in Nat /\ Len(queue) >= 1 /\ Len(rest) = Len(queue) - 1
      /\ i = queue[1] /\ \A n \in 1 .. Len(rest) : rest[n] = queue[n + 1]
  BY <1>2 DEF QueueAlive
<1>6. i \in live
  BY <1>2, <1>5 DEF QueueAlive
<1>7. /\ \A n \in 1 .. Len(rest) : rest[n] \in live \ {i}
      /\ \A m, n \in 1 .. Len(rest) : rest[m] = rest[n] => m = n
  <2>1. ASSUME NEW n \in 1 .. Len(rest)
        PROVE  n + 1 \in 1 .. Len(queue) /\ 1 \in 1 .. Len(queue) /\ n + 1 # 1 /\ n \in Int
    BY <1>5
  <2>2. ASSUME NEW n \in 1 .. Len(rest)
        PROVE  rest[n] \in live \ {i}
    BY <1>2, <1>5, <2>1 DEF QueueAlive
  <2>3. ASSUME NEW m \in 1 .. Len(rest), NEW n \in 1 .. Len(rest), rest[m] = rest[n]
        PROVE  m = n
    <3>1. m + 1 = n + 1
      BY <1>2, <1>5, <2>1, <2>3 DEF QueueAlive
    <3>2. QED
      BY <2>1, <3>1
  <2>4. QED
    BY <2>2, <2>3
<1>. HIDE DEF i, rest
<1>8. CASE w = <<>>
  <2>1. QueueAlive' \/ phase' = "plan"
    BY <1>1, <1>5, <1>7, <1>8 DEF QueueAlive
  <2>2. phase' \in {"plan", "pop"}
    BY <1>1
  <2>. HIDE DEF w, step
  <2>3. QED
    BY <1>1, <1>2, <1>4, <1>8, <2>1, <2>2 DEF AdaptiveInv, Exhausted
<1>9. CASE w # <<>>
  <2>1. w \in Seq([level : Level, apex : Vertices])
    BY <1>2, <1>3, <1>6, TestEdgeTyped
  <2>2. i \in Nat /\ Len(steps) + 1 \in Nat
    BY <1>2, <1>3, <1>6
  <2>3. step \in Step /\ step.edge = i /\ step.epoch = Len(steps) + 1 /\ step.witnesses = w
    BY <2>1, <2>2 DEF Step
  <2>4. Allowed(edges, LeftBy(edges, steps, Len(steps)), step)
    BY <1>2, <1>6, <1>9, <2>3 DEF Allowed
  <2>. HIDE DEF step, w
  <2>. DEFINE more == Append(steps, step)
  <2>5. /\ more \in Seq(Step) /\ Len(more) = Len(steps) + 1
        /\ more[Len(steps) + 1] = step
        /\ \A k \in 1 .. Len(steps) : more[k] = steps[k]
        /\ Replayed(edges, more)
    BY <1>2, <2>3, <2>4, ReplayedMore
  <2>6. LeftBy(edges, more, Len(steps) + 1) = live \ {i}
    BY <1>2, <2>3, LeftByMore
  <2>7. steps' = more /\ live' = live \ {i}
    BY <1>1, <1>9
  <2>. HIDE DEF more
  <2>8. ASSUME NEW k \in DOMAIN more
        PROVE  more[k].epoch = k
    <3>1. k \in 1 .. Len(steps) + 1 /\ Len(steps) \in Nat /\ DOMAIN steps = 1 .. Len(steps)
      BY <1>2, <2>5
    <3>2. CASE k \in 1 .. Len(steps)
      BY <1>2, <2>5, <3>1, <3>2
    <3>3. CASE k = Len(steps) + 1
      BY <2>3, <2>5, <3>3
    <3>4. QED
      BY <3>1, <3>2, <3>3
  <2>9. live' = LeftBy(edges, more, Len(more))
    BY <2>5, <2>6, <2>7
  <2>10. QueueAlive' \/ phase' = "plan"
    BY <1>1, <1>5, <1>7, <2>7 DEF QueueAlive
  <2>11. phase' \in {"plan", "pop"}
    BY <1>1
  <2>12. QED
    BY <1>1, <1>2, <1>4, <2>5, <2>7, <2>8, <2>9, <2>10, <2>11 DEF AdaptiveInv, Exhausted
<1>10. QED
  BY <1>8, <1>9

\* Every step of the adaptive schedule keeps its invariant.
LEMMA AdaptiveStepInv ==
  ASSUME AdaptiveInv, Adaptive!Next
  PROVE  AdaptiveInv'
BY PlanInv, CandidateInv DEF Adaptive!Next

-----------------------------------------------------------------------------
(* The certificates of the three schedules *)

\* What every behaviour of a schedule keeps.
CollapseInv ==
  /\ schedule = "ordered" => OrderedInv /\ NothingForgotten /\ OrderedHistory
  /\ schedule = "rounds" => RoundsInv /\ RoundsForgetNothing /\ RoundsHistory /\ SelectionStands
  /\ schedule = "adaptive" => AdaptiveInv
  /\ schedule \in {"ordered", "rounds", "adaptive"}
  /\ schedule # "adaptive" => limit = NoLimit /\ used = 0 /\ phase # "limited"

\* Every step of the ordered schedule keeps its history one that can be replayed.
LEMMA OrderedHistoryStep ==
  OrderedInv /\ OrderedHistory /\ [OrderedNext]_orderedVars => OrderedHistory'
<1>. SUFFICES ASSUME OrderedInv, OrderedHistory, [OrderedNext]_orderedVars
              PROVE  OrderedHistory'
  OBVIOUS
<1>1. CASE UNCHANGED orderedVars
  BY <1>1 DEF orderedVars, graphVars, runVars, OrderedHistory
<1>2. QED
  BY <1>1, RemoveHistory, QuietHistory DEF OrderedNext

\* Every step of the rounds keeps their history one that can be replayed.
LEMMA RoundsHistoryStep ==
  RoundsInv /\ RoundsInv' /\ RoundsHistory /\ SelectionStands /\ [RoundsNext]_roundsVars
    => RoundsHistory' /\ SelectionStands'
<1>. SUFFICES ASSUME RoundsInv, RoundsInv', RoundsHistory, SelectionStands,
                     [RoundsNext]_roundsVars
              PROVE  RoundsHistory' /\ SelectionStands'
  OBVIOUS
<1>1. CASE UNCHANGED roundsVars
  BY <1>1 DEF roundsVars, runVars, RoundsHistory, SelectionStands
<1>2. QED
  BY <1>1, SelectHistory, CommitHistory, RoundsOtherHistory DEF RoundsNext

\* Whichever schedule runs, it starts with its invariant.
LEMMA CollapseInitInv == CollapseInit => CollapseInv
<1>. SUFFICES ASSUME CollapseInit
              PROVE  CollapseInv
  OBVIOUS
<1>1. CASE schedule = "ordered" /\ OrderedInit /\ AdaptiveIdle
  <2>1. limit = NoLimit /\ used = 0 /\ phase = "form"
    BY <1>1 DEF AdaptiveIdle, OrderedInit
  <2>2. QED
    BY <1>1, <2>1, OrderedInitInv, NothingForgottenInit, OrderedHistoryInit DEF CollapseInv
<1>2. CASE schedule = "rounds" /\ RoundsInit /\ AdaptiveIdle
  <2>1. limit = NoLimit /\ used = 0 /\ phase = "test"
    BY <1>2 DEF AdaptiveIdle, RoundsInit
  <2>2. QED
    BY <1>2, <2>1, RoundsInitInv, RoundsForgetNothingInit, RoundsHistoryInit DEF CollapseInv
<1>3. CASE schedule = "adaptive" /\ Adaptive!Init
  BY <1>3, AdaptiveInitInv DEF CollapseInv
<1>4. QED
  BY <1>1, <1>2, <1>3 DEF CollapseInit

\* Whichever schedule runs, its steps keep its invariant.
LEMMA CollapseStepInv == CollapseInv /\ [CollapseNext]_collapseVars => CollapseInv'
<1>. SUFFICES ASSUME CollapseInv, [CollapseNext]_collapseVars
              PROVE  CollapseInv'
  OBVIOUS
<1>1. /\ UNCHANGED schedule
      /\ schedule # "adaptive" => UNCHANGED <<limit, used>>
  BY DEF CollapseNext, collapseVars, adaptiveOnly
<1>2. CASE schedule = "ordered"
  <2>1. [OrderedNext]_orderedVars
    BY <1>2 DEF CollapseNext, collapseVars, orderedOnly, orderedVars, graphVars
  <2>2. OrderedInv /\ NothingForgotten /\ OrderedHistory
    BY <1>2 DEF CollapseInv
  <2>3. OrderedInv'
    BY <2>1, <2>2, OrderedStepInv
  <2>4. NothingForgotten' /\ OrderedHistory'
    BY <2>1, <2>2, <2>3, NothingForgottenStep, OrderedHistoryStep
  <2>5. phase' # "limited"
    BY <2>3 DEF OrderedInv, OrderedTyped
  <2>6. QED
    BY <1>1, <1>2, <2>3, <2>4, <2>5 DEF CollapseInv
<1>3. CASE schedule = "rounds"
  <2>1. [RoundsNext]_roundsVars
    BY <1>3 DEF CollapseNext, collapseVars, roundsOnly, roundsVars
  <2>2. RoundsInv /\ RoundsForgetNothing /\ RoundsHistory /\ SelectionStands /\ phase # "limited"
    BY <1>3 DEF CollapseInv
  <2>3. RoundsInv'
    BY <2>1, <2>2, RoundsStepInv
  <2>4. RoundsForgetNothing' /\ RoundsHistory' /\ SelectionStands'
    BY <2>1, <2>2, <2>3, RoundsForgetNothingStep, RoundsHistoryStep
  <2>5. phase' # "limited"
    BY <2>1, <2>2 DEF RoundsNext, TestDue, Select, CommitOne, NextRound, roundsVars
  <2>6. QED
    BY <1>1, <1>3, <2>3, <2>4, <2>5 DEF CollapseInv
<1>4. CASE schedule = "adaptive"
  <2>1. AdaptiveInv
    BY <1>4 DEF CollapseInv
  <2>2. CASE Adaptive!Next
    BY <1>1, <1>4, <2>1, <2>2, AdaptiveStepInv DEF CollapseInv
  <2>3. CASE UNCHANGED collapseVars
    <3>1. UNCHANGED <<edges, live, steps, phase, limit, used, queue>>
      BY <2>3 DEF collapseVars, runVars, adaptiveOnly
    <3>2. AdaptiveInv'
      BY <2>1, <3>1 DEF AdaptiveInv, QueueAlive, Exhausted
    <3>3. QED
      BY <1>1, <1>4, <3>2 DEF CollapseInv
  <2>4. QED
    BY <1>4, <2>2, <2>3 DEF CollapseNext
<1>5. QED
  BY <1>2, <1>3, <1>4 DEF CollapseInv

\* A run that is over has no removable edge left.
LEMMA ExhaustedNotRemovable ==
  ASSUME IsSchedule(edges), live \in SUBSET (1 .. Len(edges)), Exhausted, phase = "done"
  PROVE  \A i \in live : ~Removable(edges, live, i)
BY TestMatchesCheck DEF Exhausted

\* The certificate of the ordered schedule is one of version 1.
LEMMA OrderedAccepted ==
  ASSUME CollapseInv, schedule = "ordered", phase = "done"
  PROVE  Verifies(edges, live, Returned)
<1>1. OrderedInv /\ NothingForgotten /\ OrderedHistory /\ limit = NoLimit /\ used = 0
  BY DEF CollapseInv
<1>2. IsSchedule(edges) /\ live \in SUBSET (1 .. Len(edges)) /\ Exhausted
  BY <1>1 DEF OrderedInv, OrderedTyped, GraphTyped, Positions, NothingForgotten
<1>3. /\ Returned.version = 1 /\ Returned.steps = steps /\ Returned.complete
      /\ Returned.limit = NoLimit /\ Returned.used = 0
  BY <1>1 DEF Returned
<1>4. CheckMetadata(Returned)
  BY <1>3 DEF CheckMetadata
<1>5. ReplaySerial(edges, steps)
  BY <1>1, <1>2, ReplayedChecks DEF ReplaySerial, OrderedHistory
<1>6. live = LeftBy(edges, steps, Len(steps))
  BY <1>1 DEF OrderedHistory
<1>7. \A i \in live : ~Removable(edges, live, i)
  BY <1>2, ExhaustedNotRemovable
<1>8. (CASE Returned.version = 1 -> ReplaySerial(edges, Returned.steps)
         [] Returned.version = 2 -> ReplayRounds(edges, Returned.steps)
         [] Returned.version = 3 -> ReplayAdaptive(edges, Returned.steps))
  BY <1>3, <1>5
<1>9. QED
  BY <1>3, <1>4, <1>6, <1>7, <1>8 DEF Verifies

\* The certificate of the rounds is one of version 2.
LEMMA RoundsAccepted ==
  ASSUME CollapseInv, schedule = "rounds", phase = "done"
  PROVE  Verifies(edges, live, Returned)
<1>1. RoundsInv /\ RoundsForgetNothing /\ RoundsHistory /\ limit = NoLimit /\ used = 0
  BY DEF CollapseInv
<1>2. IsSchedule(edges) /\ live \in SUBSET (1 .. Len(edges)) /\ Exhausted
  BY <1>1 DEF RoundsInv, GraphTyped, Positions, RoundsForgetNothing, Remembered, Exhausted
<1>3. /\ Returned.version = 2 /\ Returned.steps = steps /\ Returned.complete
      /\ Returned.limit = NoLimit /\ Returned.used = 0
  BY <1>1 DEF Returned
<1>4. CheckMetadata(Returned)
  BY <1>3 DEF CheckMetadata
<1>5. ReplayRounds(edges, steps)
  <2>1. GroupsInOrder(steps) /\ RoundsReplayed(edges, steps)
    BY <1>1 DEF RoundsHistory
  <2>2. ASSUME NEW k \in DOMAIN steps
        PROVE  LET before == {j \in DOMAIN steps : steps[j].epoch < steps[k].epoch}
                   kept   == (1 .. Len(edges)) \ {steps[j].edge : j \in before}
                   round  == {j \in DOMAIN steps : steps[j].epoch = steps[k].epoch}
               IN  /\ CheckStep(edges, kept, steps[k])
                   /\ \A j \in round \ {k} :
                        ~(Ends(edges[steps[j].edge]) \subseteq ClosedCommon(edges, kept, steps[k].edge))
    <3>. DEFINE kept == Frozen(edges, steps, steps[k].epoch)
    <3>1. /\ Allowed(edges, kept, steps[k])
          /\ \A j \in DOMAIN steps : steps[j].epoch = steps[k].epoch /\ j # k =>
               ~(Ends(edges[steps[j].edge]) \subseteq ClosedCommon(edges, kept, steps[k].edge))
      BY <2>1 DEF RoundsReplayed, Apart
    <3>2. kept \in SUBSET (1 .. Len(edges))
      BY DEF Frozen
    <3>3. CheckStep(edges, kept, steps[k])
      <4>. HIDE DEF kept
      <4>1. QED
        BY <1>2, <3>1, <3>2, AllowedChecks
    <3>4. QED
      BY <3>1, <3>3 DEF Frozen
  <2>3. QED
    BY <2>1, <2>2 DEF ReplayRounds
<1>6. live = LeftBy(edges, steps, Len(steps))
  BY <1>1 DEF RoundsHistory
<1>7. \A i \in live : ~Removable(edges, live, i)
  BY <1>2, ExhaustedNotRemovable
<1>8. (CASE Returned.version = 1 -> ReplaySerial(edges, Returned.steps)
         [] Returned.version = 2 -> ReplayRounds(edges, Returned.steps)
         [] Returned.version = 3 -> ReplayAdaptive(edges, Returned.steps))
  BY <1>3, <1>5
<1>9. QED
  BY <1>3, <1>4, <1>6, <1>7, <1>8 DEF Verifies

\* The certificate of the adaptive schedule is one of version 3, limited or not.
LEMMA AdaptiveAccepted ==
  ASSUME CollapseInv, schedule = "adaptive", phase \in {"done", "limited"}
  PROVE  Verifies(edges, live, Returned)
<1>1. AdaptiveInv
  BY DEF CollapseInv
<1>2. IsSchedule(edges) /\ live \in SUBSET (1 .. Len(edges)) /\ Exhausted
  BY <1>1, LiveFinite DEF AdaptiveInv
<1>3. /\ Returned.version = 3 /\ Returned.steps = steps /\ Returned.complete = (phase = "done")
      /\ Returned.limit = limit /\ Returned.used = used
  BY DEF Returned
<1>4. CheckMetadata(Returned)
  BY <1>1, <1>3 DEF CheckMetadata, AdaptiveInv
<1>5. ReplayAdaptive(edges, steps)
  BY <1>1, <1>2, ReplayedChecks DEF ReplayAdaptive, AdaptiveInv
<1>6. live = LeftBy(edges, steps, Len(steps))
  BY <1>1 DEF AdaptiveInv
<1>7. phase = "done" => \A i \in live : ~Removable(edges, live, i)
  BY <1>2, ExhaustedNotRemovable
<1>8. (CASE Returned.version = 1 -> ReplaySerial(edges, Returned.steps)
         [] Returned.version = 2 -> ReplayRounds(edges, Returned.steps)
         [] Returned.version = 3 -> ReplayAdaptive(edges, Returned.steps))
  BY <1>3, <1>5
<1>9. QED
  BY <1>3, <1>4, <1>6, <1>7, <1>8 DEF Verifies

\* What every behaviour of a schedule keeps: the removals so far are a history
\* that its certificate can replay, and no removable edge is forgotten.
THEOREM CollapseInvariant == CollapseSpec => []CollapseInv
BY CollapseInitInv, CollapseStepInv, PTL DEF CollapseSpec

\* What a schedule returns, the verifier accepts, for every graph, window,
\* marking limit and work limit.
THEOREM CertificateAccepted == CollapseSpec => []VerifierAccepts
<1>1. CollapseInv => VerifierAccepts
  <2>. SUFFICES ASSUME CollapseInv, phase \in {"done", "limited"}
                PROVE  Verifies(edges, live, Returned)
    BY DEF VerifierAccepts
  <2>1. schedule \in {"ordered", "rounds", "adaptive"} /\ (schedule # "adaptive" => phase = "done")
    BY DEF CollapseInv
  <2>2. QED
    BY <2>1, OrderedAccepted, RoundsAccepted, AdaptiveAccepted
<1>2. QED
  BY <1>1, CollapseInvariant, PTL

-----------------------------------------------------------------------------
(* The shape of a graph *)

\* A matrix of distances.
Metric(dist) ==
  /\ \A x, y \in Vertices : dist[<<x, y>>] \in Int /\ dist[<<x, y>>] = dist[<<y, x>>]
  /\ \A x \in Vertices : dist[<<x, x>>] = 0

\* The points within a level of a set of points.
Around(dist, t, S) == {y \in Vertices : \E z \in S : dist[<<y, z>>] <= t}

\* A component holds its vertex, no other point is within the level of it, and
\* it is the least such set.
LEMMA ComponentIsLeast ==
  ASSUME NEW dist, Metric(dist), NEW t \in Level, NEW x \in Vertices
  PROVE  LET C == Component(dist, t, x)
         IN  /\ C \subseteq Vertices /\ x \in C /\ Around(dist, t, C) = C
             /\ \A S \in SUBSET Vertices : x \in S /\ Around(dist, t, S) = S => C \subseteq S
<1>. DEFINE n == NumVertices
            G == [k \in 1 .. n |-> [S \in SUBSET Vertices |-> Around(dist, t, S)]]
            D == SUBSET Vertices
            isReached(f) == f = [k \in 0 .. n |-> IF k = 0 THEN {x} ELSE Around(dist, t, f[k - 1])]
            reached == CHOOSE f : isReached(f)
<1>1. n \in Nat /\ t \in Int /\ 0 <= t /\ {x} \in D
  BY GraphAssumption DEF Level
<1>2. \A S \in D : Around(dist, t, S) \in D
  BY DEF Around
<1>3. \E f : isReached(f)
  <2>1. \A k \in 1 .. n : \A S \in D : G[k][S] \in D
    BY <1>2
  <2>. HIDE DEF G
  <2>2. PICK f : f \in Recursions(n, D, {x}, G)
    BY <1>1, <2>1, RecursionExists
  <2>3. f \in [0 .. n -> D] /\ f[0] = {x} /\ \A k \in 1 .. n : f[k] = G[k][f[k - 1]]
    BY <2>2 DEF Recursions
  <2>4. ASSUME NEW k \in 0 .. n
        PROVE  f[k] = IF k = 0 THEN {x} ELSE Around(dist, t, f[k - 1])
    <3>1. CASE k = 0
      BY <2>3, <3>1
    <3>2. CASE k # 0
      <4>1. k \in 1 .. n /\ k - 1 \in 0 .. n
        BY <1>1, <3>2
      <4>2. f[k - 1] \in D
        BY <2>3, <4>1
      <4>3. G[k][f[k - 1]] = Around(dist, t, f[k - 1])
        BY <4>1, <4>2 DEF G
      <4>4. QED
        BY <2>3, <3>2, <4>1, <4>3
    <3>3. QED
      BY <3>1, <3>2
  <2>5. f = [k \in 0 .. n |-> IF k = 0 THEN {x} ELSE Around(dist, t, f[k - 1])]
    BY <2>3, <2>4
  <2>6. QED
    BY <2>5
<1>4. isReached(reached)
  BY <1>3
<1>5. Component(dist, t, x) = reached[n]
  BY DEF Component, Around
<1>. DEFINE R == reached
<1>6. R[0] = {x} /\ \A k \in 1 .. n : R[k] = Around(dist, t, R[k - 1])
  <2>. HIDE DEF reached
  <2>1. \A k \in 0 .. n : R[k] = IF k = 0 THEN {x} ELSE Around(dist, t, R[k - 1])
    BY <1>4
  <2>2. 0 \in 0 .. n /\ \A k \in 1 .. n : k \in 0 .. n /\ k # 0
    BY <1>1
  <2>3. QED
    BY <2>1, <2>2
<1>. HIDE DEF reached, G, isReached
<1>7. \A S \in D : S \subseteq Around(dist, t, S)
  <2>. SUFFICES ASSUME NEW S \in D, NEW y \in S PROVE y \in Around(dist, t, S)
    OBVIOUS
  <2>1. dist[<<y, y>>] = 0 /\ y \in Vertices
    BY DEF Metric
  <2>2. QED
    BY <1>1, <2>1 DEF Around
<1>8. IsFiniteSet(Vertices) /\ Cardinality(Vertices) = n
  BY <1>1, FS_Interval DEF Vertices
\* After every round, either nothing is left to add or one more is in.
<1>. DEFINE H == {k \in 0 .. n : /\ R[k] \in D /\ x \in R[k]
                                 /\ \/ Around(dist, t, R[k]) = R[k]
                                    \/ Cardinality(R[k]) > k}
<1>9. H = 0 .. n
  <2>1. 0 \in H
    <3>1. Cardinality({x}) = 1
      BY FS_Singleton
    <3>2. QED
      BY <1>1, <1>6, <3>1
  <2>2. ASSUME NEW k \in 1 .. n, k - 1 \in H
        PROVE  k \in H
    <3>1. k - 1 \in 0 .. n /\ k \in 0 .. n /\ k \in Int
      BY <1>1
    <3>2. R[k - 1] \in D /\ x \in R[k - 1] /\ R[k] = Around(dist, t, R[k - 1])
      BY <1>6, <2>2
    <3>3. R[k] \in D /\ R[k - 1] \subseteq R[k]
      BY <1>2, <1>7, <3>2
    <3>4. CASE R[k] = R[k - 1]
      BY <3>1, <3>2, <3>3, <3>4
    <3>5. CASE R[k] # R[k - 1]
      <4>1. Cardinality(R[k - 1]) > k - 1
        BY <2>2, <3>2, <3>5
      <4>2. IsFiniteSet(R[k])
        BY <1>8, <3>3, FS_Subset
      <4>3. IsFiniteSet(R[k - 1]) /\ Cardinality(R[k - 1]) <= Cardinality(R[k])
            /\ Cardinality(R[k - 1]) # Cardinality(R[k])
        BY <3>3, <3>5, <4>2, FS_Subset
      <4>4. Cardinality(R[k - 1]) \in Nat /\ Cardinality(R[k]) \in Nat
        BY <4>2, <4>3, FS_CardinalityType
      <4>5. Cardinality(R[k]) > k
        BY <3>1, <4>1, <4>3, <4>4
      <4>6. QED
        BY <3>1, <3>2, <3>3, <4>5
    <3>6. QED
      BY <3>4, <3>5
  <2>3. H \in SUBSET (0 .. n)
    OBVIOUS
  <2>. HIDE DEF H
  <2>4. QED
    BY <1>1, <2>1, <2>2, <2>3, FirstFailure
<1>10. R[n] \in D /\ x \in R[n] /\ Around(dist, t, R[n]) = R[n]
  <2>1. n \in 0 .. n
    BY <1>1
  <2>2. n \in H
    BY <1>9, <2>1
  <2>3. R[n] \in D /\ x \in R[n] /\ (Around(dist, t, R[n]) = R[n] \/ Cardinality(R[n]) > n)
    BY <2>2
  <2>4. IsFiniteSet(R[n]) /\ Cardinality(R[n]) <= n
    BY <1>8, <2>3, FS_Subset
  <2>5. Cardinality(R[n]) \in Nat
    BY <2>4, FS_CardinalityType
  <2>6. ~(Cardinality(R[n]) > n)
    BY <1>1, <2>4, <2>5
  <2>7. QED
    BY <2>3, <2>6
<1>11. ASSUME NEW S \in SUBSET Vertices, x \in S, Around(dist, t, S) = S
       PROVE  R[n] \subseteq S
  <2>. DEFINE I == {k \in 0 .. n : R[k] \subseteq S}
  <2>1. 0 \in I
    BY <1>1, <1>6, <1>11
  <2>2. ASSUME NEW k \in 1 .. n, k - 1 \in I
        PROVE  k \in I
    <3>1. k \in 0 .. n
      BY <1>1
    <3>2. R[k] = Around(dist, t, R[k - 1]) /\ R[k - 1] \subseteq S
      BY <1>6, <2>2
    <3>3. Around(dist, t, R[k - 1]) \subseteq Around(dist, t, S)
      BY <3>2 DEF Around
    <3>4. QED
      BY <1>11, <3>1, <3>2, <3>3
  <2>3. I \in SUBSET (0 .. n)
    OBVIOUS
  <2>. HIDE DEF I
  <2>4. I = 0 .. n
    BY <1>1, <2>1, <2>2, <2>3, FirstFailure
  <2>5. n \in 0 .. n
    BY <1>1
  <2>6. QED
    BY <2>4, <2>5 DEF I
<1>12. QED
  BY <1>5, <1>10, <1>11

\* One matrix is the other without the edge {u, v} of value c.
WithoutEdge(dist, after, u, v, c) ==
  /\ Metric(dist) /\ Metric(after)
  /\ u \in Vertices /\ v \in Vertices /\ u # v /\ c \in Level
  /\ dist[<<u, v>>] = c /\ after[<<u, v>>] = Infinity
  /\ \A x, y \in Vertices : {x, y} # {u, v} => after[<<x, y>>] = dist[<<x, y>>]

\* At every level from its value on, a common neighbour of the ends is within
\* the level of all their common neighbours.
Dominated(dist, u, v, c) ==
  \A t \in Level : c <= t =>
    \E w \in Vertices \ {u, v} :
      /\ dist[<<u, w>>] <= t /\ dist[<<v, w>>] <= t
      /\ \A x \in Vertices : dist[<<u, x>>] <= t /\ dist[<<v, x>>] <= t => dist[<<w, x>>] <= t

\* What is within a level before and after the removal of an edge.
LEMMA WithinLevel ==
  ASSUME NEW dist, NEW after, NEW u, NEW v, NEW c, WithoutEdge(dist, after, u, v, c),
         NEW t \in Level, NEW x \in Vertices, NEW y \in Vertices
  PROVE  after[<<x, y>>] <= t <=> dist[<<x, y>>] <= t /\ ({x, y} = {u, v} => ~(c <= t))
<1>1. /\ t \in Int /\ c \in Int /\ Infinity \in Int /\ t < Infinity
  BY GraphAssumption DEF Level, Infinity, WithoutEdge
<1>2. CASE {x, y} = {u, v}
  <2>1. after[<<x, y>>] = Infinity /\ dist[<<x, y>>] = c
    <3>1. (x = u /\ y = v) \/ (x = v /\ y = u)
      BY <1>2
    <3>2. QED
      BY <3>1 DEF WithoutEdge, Metric
  <2>2. QED
    BY <1>1, <1>2, <2>1
<1>3. CASE {x, y} # {u, v}
  <2>1. after[<<x, y>>] = dist[<<x, y>>]
    BY <1>3 DEF WithoutEdge
  <2>2. QED
    BY <1>3, <2>1
<1>4. QED
  BY <1>2, <1>3

\* The sets that a level closes stay the same: the ends of the edge are joined
\* by way of the dominating point.
LEMMA AroundSame ==
  ASSUME NEW dist, NEW after, NEW u, NEW v, NEW c, WithoutEdge(dist, after, u, v, c),
         Dominated(dist, u, v, c), NEW t \in Level, NEW S \in SUBSET Vertices
  PROVE  Around(after, t, S) = S <=> Around(dist, t, S) = S
<1>1. \A x, y \in Vertices : after[<<x, y>>] <= t => dist[<<x, y>>] <= t
  BY WithinLevel
<1>2. /\ u \in Vertices /\ v \in Vertices /\ u # v
      /\ \A x, y \in Vertices : dist[<<x, y>>] = dist[<<y, x>>]
      /\ \A x \in Vertices : dist[<<x, x>>] = 0 /\ after[<<x, x>>] = 0
      /\ t \in Int /\ 0 <= t /\ c \in Level
  BY GraphAssumption DEF WithoutEdge, Metric, Level
<1>3. S \subseteq Around(after, t, S) /\ S \subseteq Around(dist, t, S)
  <2>. SUFFICES ASSUME NEW y \in S PROVE y \in Around(after, t, S) /\ y \in Around(dist, t, S)
    OBVIOUS
  <2>1. y \in Vertices /\ dist[<<y, y>>] <= t /\ after[<<y, y>>] <= t
    BY <1>2
  <2>2. QED
    BY <2>1 DEF Around
<1>4. Around(after, t, S) \subseteq Around(dist, t, S)
  BY <1>1 DEF Around
<1>5. ASSUME Around(after, t, S) = S
      PROVE  Around(dist, t, S) \subseteq S
  <2>1. \A y \in Vertices : \A z \in S : after[<<y, z>>] <= t => y \in S
    BY <1>5 DEF Around
  <2>. SUFFICES ASSUME NEW y \in Vertices, NEW z \in S, dist[<<y, z>>] <= t
                PROVE  y \in S
    BY DEF Around
  <2>2. CASE {y, z} = {u, v} /\ c <= t
    <3>1. PICK w \in Vertices \ {u, v} : dist[<<u, w>>] <= t /\ dist[<<v, w>>] <= t
      BY <2>2 DEF Dominated
    <3>2. dist[<<y, w>>] <= t /\ dist[<<w, z>>] <= t /\ {y, w} # {u, v} /\ {w, z} # {u, v}
      BY <1>2, <2>2, <3>1
    <3>3. after[<<y, w>>] <= t /\ after[<<w, z>>] <= t
      BY <3>2, WithinLevel
    <3>4. w \in S
      BY <2>1, <3>3
    <3>5. QED
      BY <2>1, <3>3, <3>4
  <2>3. CASE ~({y, z} = {u, v} /\ c <= t)
    <3>1. after[<<y, z>>] <= t
      BY <2>3, WithinLevel
    <3>2. QED
      BY <2>1, <3>1
  <2>4. QED
    BY <2>2, <2>3
<1>6. QED
  BY <1>3, <1>4, <1>5

\* A dominated edge can go without parting a component.
LEMMA ComponentsSame ==
  ASSUME NEW dist, NEW after, NEW u, NEW v, NEW c, WithoutEdge(dist, after, u, v, c),
         Dominated(dist, u, v, c), NEW t \in Level, NEW x \in Vertices
  PROVE  Component(after, t, x) = Component(dist, t, x)
<1>. DEFINE A == Component(after, t, x)
            B == Component(dist, t, x)
<1>1. Metric(dist) /\ Metric(after)
  BY DEF WithoutEdge
<1>2. /\ A \subseteq Vertices /\ x \in A /\ Around(after, t, A) = A
      /\ \A S \in SUBSET Vertices : x \in S /\ Around(after, t, S) = S => A \subseteq S
  BY <1>1, ComponentIsLeast
<1>3. /\ B \subseteq Vertices /\ x \in B /\ Around(dist, t, B) = B
      /\ \A S \in SUBSET Vertices : x \in S /\ Around(dist, t, S) = S => B \subseteq S
  BY <1>1, ComponentIsLeast
<1>. HIDE DEF A, B
<1>4. Around(dist, t, A) = A /\ Around(after, t, B) = B
  BY <1>2, <1>3, AroundSame
<1>5. A = B
  BY <1>2, <1>3, <1>4
<1>6. QED
  BY <1>5 DEF A, B

-----------------------------------------------------------------------------
(* The Euler characteristic *)

\* The simplices at a level that hold both ends of an edge.
Cofaces(dist, t, u, v) == {s \in Simplices(dist, t) : u \in s /\ v \in s}

\* A simplex with or without a point.
Toggled(s, w) == IF w \in s THEN s \ {w} ELSE s \cup {w}

\* The simplices of a level that have that parity.
OfParity(S, r) == {s \in S : Cardinality(s) % 2 = r}

\* The simplices of a level are finitely many finite sets.
LEMMA SimplicesFinite ==
  ASSUME NEW dist, NEW t
  PROVE  /\ IsFiniteSet(Simplices(dist, t))
         /\ \A s \in Simplices(dist, t) : IsFiniteSet(s) /\ Cardinality(s) \in Nat
<1>1. IsFiniteSet(Vertices)
  BY FS_Interval, GraphAssumption DEF Vertices
<1>2. IsFiniteSet(SUBSET Vertices)
  BY <1>1, FS_SUBSET
<1>3. Simplices(dist, t) \in SUBSET (SUBSET Vertices)
  BY DEF Simplices
<1>4. IsFiniteSet(Simplices(dist, t))
  BY <1>2, <1>3, FS_Subset
<1>5. ASSUME NEW s \in Simplices(dist, t)
      PROVE  IsFiniteSet(s) /\ Cardinality(s) \in Nat
  <2>1. s \in SUBSET Vertices
    BY <1>3
  <2>2. QED
    BY <1>1, <2>1, FS_Subset, FS_CardinalityType
<1>6. QED
  BY <1>4, <1>5

\* Putting a point in or out changes the parity.
LEMMA ToggledParity ==
  ASSUME NEW s, IsFiniteSet(s), NEW w
  PROVE  /\ IsFiniteSet(Toggled(s, w))
         /\ Toggled(Toggled(s, w), w) = s
         /\ Cardinality(s) % 2 = 0 => Cardinality(Toggled(s, w)) % 2 = 1
         /\ Cardinality(s) % 2 = 1 => Cardinality(Toggled(s, w)) % 2 = 0
<1>1. Cardinality(s) \in Nat
  BY FS_CardinalityType
<1>2. Toggled(Toggled(s, w), w) = s
  BY DEF Toggled
<1>3. CASE w \in s
  <2>1. Toggled(s, w) = s \ {w}
    BY <1>3 DEF Toggled
  <2>2. IsFiniteSet(s \ {w}) /\ Cardinality(s \ {w}) = Cardinality(s) - 1
    BY <1>3, FS_RemoveElement
  <2>3. QED
    BY <1>1, <1>2, <2>1, <2>2
<1>4. CASE w \notin s
  <2>1. Toggled(s, w) = s \cup {w}
    BY <1>4 DEF Toggled
  <2>2. IsFiniteSet(s \cup {w}) /\ Cardinality(s \cup {w}) = Cardinality(s) + 1
    BY <1>4, FS_AddElement
  <2>3. QED
    BY <1>1, <1>2, <2>1, <2>2
<1>5. QED
  BY <1>3, <1>4

\* The dominating point can be put into every coface of the edge, and taken
\* out of it.
LEMMA CofacesToggle ==
  ASSUME NEW dist, Metric(dist), NEW t \in Level, NEW u, NEW v,
         NEW w \in Vertices, w # u, w # v,
         \A x \in Vertices : dist[<<u, x>>] <= t /\ dist[<<v, x>>] <= t => dist[<<w, x>>] <= t,
         NEW s \in Cofaces(dist, t, u, v)
  PROVE  Toggled(s, w) \in Cofaces(dist, t, u, v)
<1>1. /\ s \in SUBSET Vertices /\ u \in s /\ v \in s
      /\ \A x, y \in s : dist[<<x, y>>] <= t
  BY DEF Cofaces, Simplices
<1>2. \A x \in s : dist[<<w, x>>] <= t /\ dist[<<x, w>>] <= t
  BY <1>1 DEF Metric
<1>3. dist[<<w, w>>] <= t
  BY GraphAssumption DEF Metric, Level
<1>4. CASE w \in s
  <2>1. Toggled(s, w) = s \ {w}
    BY <1>4 DEF Toggled
  <2>2. u \in s \ {w} /\ v \in s \ {w} /\ s \ {w} \in SUBSET Vertices
    BY <1>1
  <2>3. \A x, y \in s \ {w} : dist[<<x, y>>] <= t
    BY <1>1
  <2>4. QED
    BY <2>1, <2>2, <2>3 DEF Cofaces, Simplices
<1>5. CASE w \notin s
  <2>1. Toggled(s, w) = s \cup {w}
    BY <1>5 DEF Toggled
  <2>2. u \in s \cup {w} /\ v \in s \cup {w} /\ s \cup {w} \in SUBSET Vertices
    BY <1>1
  <2>3. ASSUME NEW x \in s \cup {w}, NEW y \in s \cup {w}
        PROVE  dist[<<x, y>>] <= t
    <3>1. CASE x = w /\ y = w
      BY <1>3, <3>1
    <3>2. CASE x # w /\ y = w
      <4>1. x \in s
        BY <3>2
      <4>2. QED
        BY <1>2, <3>2, <4>1
    <3>3. CASE x = w /\ y # w
      <4>1. y \in s
        BY <3>3
      <4>2. QED
        BY <1>2, <3>3, <4>1
    <3>4. CASE x # w /\ y # w
      BY <1>1, <3>4
    <3>5. QED
      BY <3>1, <3>2, <3>3, <3>4
  <2>. DEFINE r == s \cup {w}
  <2>4. \A x, y \in r : dist[<<x, y>>] <= t
    BY <2>3
  <2>5. u \in r /\ v \in r /\ r \in SUBSET Vertices /\ r # {}
    BY <2>2
  <2>6. Toggled(s, w) = r
    BY <2>1
  <2>. HIDE DEF r
  <2>7. r \in Simplices(dist, t)
    BY <2>4, <2>5 DEF Simplices
  <2>8. QED
    BY <2>5, <2>6, <2>7 DEF Cofaces
<1>6. QED
  BY <1>4, <1>5

\* So as many cofaces are even as are odd.
LEMMA CofacesBalance ==
  ASSUME NEW dist, Metric(dist), NEW t \in Level, NEW u, NEW v,
         NEW w \in Vertices, w # u, w # v,
         \A x \in Vertices : dist[<<u, x>>] <= t /\ dist[<<v, x>>] <= t => dist[<<w, x>>] <= t
  PROVE  LET M == Cofaces(dist, t, u, v)
         IN  /\ IsFiniteSet(OfParity(M, 0)) /\ IsFiniteSet(OfParity(M, 1))
             /\ Cardinality(OfParity(M, 0)) = Cardinality(OfParity(M, 1))
<1>. DEFINE M == Cofaces(dist, t, u, v)
            f == [s \in OfParity(M, 0) |-> Toggled(s, w)]
<1>1. /\ \A s \in M : IsFiniteSet(s) /\ Toggled(s, w) \in M
      /\ IsFiniteSet(Simplices(dist, t)) /\ M \subseteq Simplices(dist, t)
  <2>1. \A s \in M : Toggled(s, w) \in M
    BY CofacesToggle
  <2>2. M \subseteq Simplices(dist, t)
    BY DEF Cofaces
  <2>3. QED
    BY <2>1, <2>2, SimplicesFinite
<1>2. IsFiniteSet(OfParity(M, 0)) /\ IsFiniteSet(OfParity(M, 1))
  <2>1. OfParity(M, 0) \subseteq Simplices(dist, t) /\ OfParity(M, 1) \subseteq Simplices(dist, t)
    BY <1>1 DEF OfParity
  <2>2. QED
    BY <1>1, <2>1, FS_Subset
<1>. HIDE DEF M
<1>3. \A s \in OfParity(M, 0) : Toggled(s, w) \in OfParity(M, 1) /\ Toggled(Toggled(s, w), w) = s
  BY <1>1, ToggledParity DEF OfParity
<1>4. \A s \in OfParity(M, 1) : Toggled(s, w) \in OfParity(M, 0) /\ Toggled(Toggled(s, w), w) = s
  BY <1>1, ToggledParity DEF OfParity
<1>5. f \in Bijection(OfParity(M, 0), OfParity(M, 1))
  <2>1. f \in [OfParity(M, 0) -> OfParity(M, 1)]
    BY <1>3
  <2>2. \A a, b \in OfParity(M, 0) : f[a] = f[b] => a = b
    <3>. SUFFICES ASSUME NEW a \in OfParity(M, 0), NEW b \in OfParity(M, 0), f[a] = f[b]
                  PROVE  a = b
      OBVIOUS
    <3>1. Toggled(a, w) = Toggled(b, w)
      OBVIOUS
    <3>2. QED
      BY <1>3, <3>1
  <2>3. \A s \in OfParity(M, 1) : \E a \in OfParity(M, 0) : f[a] = s
    <3>. SUFFICES ASSUME NEW s \in OfParity(M, 1)
                  PROVE  \E a \in OfParity(M, 0) : f[a] = s
      OBVIOUS
    <3>1. Toggled(s, w) \in OfParity(M, 0) /\ f[Toggled(s, w)] = s
      BY <1>4
    <3>2. QED
      BY <3>1
  <2>. HIDE DEF f
  <2>4. QED
    BY <2>1, <2>2, <2>3 DEF Bijection, Injection, Surjection, IsInjective
<1>6. ExistsBijection(OfParity(M, 0), OfParity(M, 1))
  BY <1>5 DEF ExistsBijection
<1>7. Cardinality(OfParity(M, 1)) = Cardinality(OfParity(M, 0))
  BY <1>2, <1>6, FS_Bijection
<1>8. QED
  BY <1>2, <1>7 DEF M

\* The removal of an edge takes its cofaces away, at the levels where it has any.
LEMMA SimplicesLeft ==
  ASSUME NEW dist, NEW after, NEW u, NEW v, NEW c, WithoutEdge(dist, after, u, v, c),
         NEW t \in Level
  PROVE  /\ c <= t => Simplices(after, t) = Simplices(dist, t) \ Cofaces(dist, t, u, v)
         /\ ~(c <= t) => Simplices(after, t) = Simplices(dist, t)
<1>1. /\ u \in Vertices /\ v \in Vertices /\ u # v
      /\ \A x, y \in Vertices : after[<<x, y>>] <= t <=>
                                  dist[<<x, y>>] <= t /\ ({x, y} = {u, v} => ~(c <= t))
  <2>1. u \in Vertices /\ v \in Vertices /\ u # v
    BY DEF WithoutEdge
  <2>2. QED
    BY <2>1, WithinLevel
<1>2. ASSUME NEW s \in SUBSET Vertices
      PROVE  (\A x, y \in s : after[<<x, y>>] <= t)
               <=> (\A x, y \in s : dist[<<x, y>>] <= t) /\ (c <= t => ~(u \in s /\ v \in s))
  <2>1. ASSUME \A x, y \in s : after[<<x, y>>] <= t
        PROVE  (\A x, y \in s : dist[<<x, y>>] <= t) /\ (c <= t => ~(u \in s /\ v \in s))
    BY <1>1, <2>1
  <2>2. ASSUME \A x, y \in s : dist[<<x, y>>] <= t, c <= t => ~(u \in s /\ v \in s)
        PROVE  \A x, y \in s : after[<<x, y>>] <= t
    BY <1>1, <2>2
  <2>3. QED
    BY <2>1, <2>2
<1>3. ASSUME c <= t
      PROVE  Simplices(after, t) = Simplices(dist, t) \ Cofaces(dist, t, u, v)
  BY <1>2, <1>3 DEF Simplices, Cofaces
<1>4. ASSUME ~(c <= t)
      PROVE  Simplices(after, t) = Simplices(dist, t)
  BY <1>2, <1>4 DEF Simplices
<1>5. QED
  BY <1>3, <1>4

\* A dominated edge can go without changing the Euler characteristic.
LEMMA EulerSame ==
  ASSUME NEW dist, NEW after, NEW u, NEW v, NEW c, WithoutEdge(dist, after, u, v, c),
         Dominated(dist, u, v, c), NEW t \in Level
  PROVE  EulerCharacteristic(after, t) = EulerCharacteristic(dist, t)
<1>. DEFINE S == Simplices(dist, t)
            A == Simplices(after, t)
            M == Cofaces(dist, t, u, v)
<1>1. /\ EulerCharacteristic(dist, t) = Cardinality(OfParity(S, 1)) - Cardinality(OfParity(S, 0))
      /\ EulerCharacteristic(after, t) = Cardinality(OfParity(A, 1)) - Cardinality(OfParity(A, 0))
  BY DEF EulerCharacteristic, OfParity
<1>2. CASE ~(c <= t)
  <2>1. A = S
    BY <1>2, SimplicesLeft
  <2>2. QED
    BY <1>1, <2>1
<1>3. CASE c <= t
  <2>1. A = S \ M
    BY <1>3, SimplicesLeft
  <2>2. PICK w \in Vertices \ {u, v} :
          \A x \in Vertices : dist[<<u, x>>] <= t /\ dist[<<v, x>>] <= t => dist[<<w, x>>] <= t
    BY <1>3 DEF Dominated
  <2>3. /\ IsFiniteSet(OfParity(M, 0)) /\ IsFiniteSet(OfParity(M, 1))
        /\ Cardinality(OfParity(M, 0)) = Cardinality(OfParity(M, 1))
    BY <2>2, CofacesBalance DEF WithoutEdge
  <2>4. IsFiniteSet(S) /\ M \subseteq S
    BY SimplicesFinite DEF Cofaces
  <2>. HIDE DEF S, A, M
  <2>5. ASSUME NEW r
        PROVE  /\ IsFiniteSet(OfParity(S, r))
               /\ OfParity(A, r) = OfParity(S, r) \ OfParity(M, r)
               /\ OfParity(S, r) \cap OfParity(M, r) = OfParity(M, r)
    <3>1. OfParity(S, r) \subseteq S
      BY DEF OfParity
    <3>2. IsFiniteSet(OfParity(S, r))
      BY <2>4, <3>1, FS_Subset
    <3>3. QED
      BY <2>1, <2>4, <3>2 DEF OfParity
  <2>6. ASSUME NEW r \in {0, 1}
        PROVE  /\ Cardinality(OfParity(A, r)) = Cardinality(OfParity(S, r)) - Cardinality(OfParity(M, r))
               /\ Cardinality(OfParity(S, r)) \in Nat /\ Cardinality(OfParity(M, r)) \in Nat
    <3>. DEFINE X == OfParity(S, r)
                Y == OfParity(M, r)
    <3>1. IsFiniteSet(X) /\ X \cap Y = Y /\ OfParity(A, r) = X \ Y /\ IsFiniteSet(Y)
      BY <2>3, <2>5
    <3>. HIDE DEF X, Y
    <3>2. Cardinality(X \ Y) = Cardinality(X) - Cardinality(X \cap Y)
      BY <3>1, FS_Difference
    <3>3. Cardinality(X) \in Nat /\ Cardinality(Y) \in Nat
      BY <3>1, FS_CardinalityType
    <3>4. QED
      BY <3>1, <3>2, <3>3 DEF X, Y
  <2>7. /\ Cardinality(OfParity(A, 0)) = Cardinality(OfParity(S, 0)) - Cardinality(OfParity(M, 0))
        /\ Cardinality(OfParity(A, 1)) = Cardinality(OfParity(S, 1)) - Cardinality(OfParity(M, 1))
        /\ Cardinality(OfParity(S, 0)) \in Nat /\ Cardinality(OfParity(M, 0)) \in Nat
        /\ Cardinality(OfParity(S, 1)) \in Nat /\ Cardinality(OfParity(M, 1)) \in Nat
    BY <2>6
  <2>8. QED
    BY <1>1, <2>3, <2>7 DEF S, A, M
<1>4. QED
  BY <1>2, <1>3

\* A dominated edge can go: the shape of the graph is the same.
LEMMA RemovalKeepsShape ==
  ASSUME NEW dist, NEW after, NEW u, NEW v, NEW c, WithoutEdge(dist, after, u, v, c),
         Dominated(dist, u, v, c)
  PROVE  SameShape(after, dist)
BY ComponentsSame, EulerSame DEF SameShape

-----------------------------------------------------------------------------
(* The removals *)

\* No two edges of the schedule have the same ends.
Simple(list) == \A i, j \in 1 .. Len(list) : Ends(list[i]) = Ends(list[j]) => i = j

\* A prepared input is simple: it has one edge for each of its pairs.
LEMMA PreparedSimple ==
  ASSUME NEW input, IsInput(input)
  PROVE  Simple(Prepared(input))
<1>. DEFINE list == Prepared(input)
<1>1. /\ IsSchedule(list)
      /\ InputEdges(input) = {list[i] : i \in 1 .. Len(list)}
      /\ \A i, j \in 1 .. Len(list) : i < j <=> Before(list[i], list[j])
  BY PreparedInOrder
<1>2. \A i \in 1 .. Len(list) : list[i] \in Edge
  BY <1>1 DEF IsSchedule
<1>. HIDE DEF list
<1>3. ASSUME NEW e \in InputEdges(input), NEW f \in InputEdges(input), Ends(e) = Ends(f)
      PROVE  e = f
  <2>1. PICK p \in DOMAIN input : e = [u |-> p[1], v |-> p[2], value |-> input[p]]
    BY DEF InputEdges
  <2>2. PICK q \in DOMAIN input : f = [u |-> q[1], v |-> q[2], value |-> input[q]]
    BY DEF InputEdges
  <2>3. /\ p \in Vertices \X Vertices /\ p[1] < p[2]
        /\ q \in Vertices \X Vertices /\ q[1] < q[2]
    BY DEF IsInput, Pairs
  <2>4. p[1] \in Int /\ p[2] \in Int /\ q[1] \in Int /\ q[2] \in Int
    BY <2>3 DEF Vertices
  <2>5. {p[1], p[2]} = {q[1], q[2]}
    BY <1>3, <2>1, <2>2 DEF Ends
  <2>6. p[1] = q[1] /\ p[2] = q[2]
    BY <2>3, <2>4, <2>5
  <2>7. p = q
    BY <2>3, <2>6
  <2>8. QED
    BY <2>1, <2>2, <2>7
<1>4. ASSUME NEW i \in 1 .. Len(list), NEW j \in 1 .. Len(list), Ends(list[i]) = Ends(list[j])
      PROVE  i = j
  <2>1. list[i] \in InputEdges(input) /\ list[j] \in InputEdges(input)
    BY <1>1
  <2>2. list[i] = list[j]
    BY <1>3, <1>4, <2>1
  <2>3. ~Before(list[i], list[j]) /\ ~Before(list[j], list[i])
    BY <1>2, <2>2, BeforeOrders
  <2>4. QED
    BY <1>1, <2>3
<1>5. QED
  BY <1>4 DEF Simple, list

\* The distances of a graph are a matrix of distances.
LEMMA DistancesMetric ==
  ASSUME NEW list, IsSchedule(list), NEW kept \in SUBSET (1 .. Len(list))
  PROVE  Metric(Distances(list, kept))
<1>1. \A x, y \in Vertices : /\ Distances(list, kept)[<<x, y>>] \in Int
                             /\ Distances(list, kept)[<<x, y>>] = Distances(list, kept)[<<y, x>>]
  <2>. SUFFICES ASSUME NEW x \in Vertices, NEW y \in Vertices
                PROVE  /\ Distances(list, kept)[<<x, y>>] \in Int
                       /\ Distances(list, kept)[<<x, y>>] = Distances(list, kept)[<<y, x>>]
    OBVIOUS
  <2>1. QED
    BY DistanceFacts
<1>2. \A x \in Vertices : Distances(list, kept)[<<x, x>>] = 0
  <2>. SUFFICES ASSUME NEW x \in Vertices PROVE Distances(list, kept)[<<x, x>>] = 0
    OBVIOUS
  <2>. DEFINE joining(p) == {j \in kept : Ends(list[j]) = {p[1], p[2]}}
              value(S)   == list[CHOOSE j \in S : TRUE].value
              pair       == <<x, x>>
  <2>1. Distances(list, kept) =
          [p \in Vertices \X Vertices |->
             IF p[1] = p[2] THEN 0
             ELSE IF joining(p) = {} THEN Infinity ELSE value(joining(p))]
    BY DEF Distances
  <2>2. pair \in Vertices \X Vertices /\ pair[1] = pair[2]
    OBVIOUS
  <2>. HIDE DEF joining, value, pair
  <2>3. Distances(list, kept)[pair] = 0
    BY <2>1, <2>2
  <2>4. QED
    BY <2>3 DEF pair
<1>3. QED
  BY <1>1, <1>2 DEF Metric

\* A removal takes its own edge away and no other.
LEMMA RemovalTakesEdge ==
  ASSUME NEW list, IsSchedule(list), Simple(list), NEW kept \in SUBSET (1 .. Len(list)),
         NEW i \in kept
  PROVE  WithoutEdge(Distances(list, kept), Distances(list, kept \ {i}),
                     list[i].u, list[i].v, list[i].value)
<1>. DEFINE e             == list[i]
            joining(L, p) == {j \in L : Ends(list[j]) = {p[1], p[2]}}
            value(S)      == list[CHOOSE j \in S : TRUE].value
            rest          == kept \ {i}
            pair          == <<e.u, e.v>>
<1>1. \A L : Distances(list, L) =
              [p \in Vertices \X Vertices |->
                 IF p[1] = p[2] THEN 0
                 ELSE IF joining(L, p) = {} THEN Infinity
                 ELSE value(joining(L, p))]
  BY DEF Distances
<1>2. /\ e.u \in Vertices /\ e.v \in Vertices /\ e.u # e.v /\ e.value \in Level
      /\ Ends(e) = {e.u, e.v}
  BY EndsTyped
<1>3. Metric(Distances(list, kept)) /\ Metric(Distances(list, rest))
  BY DistancesMetric
<1>4. pair \in Vertices \X Vertices /\ pair[1] # pair[2] /\ {pair[1], pair[2]} = Ends(e)
  BY <1>2
<1>5. joining(kept, pair) = {i} /\ joining(rest, pair) = {}
  <2>1. \A j \in kept : Ends(list[j]) = Ends(e) => j = i
    BY DEF Simple
  <2>2. QED
    BY <1>4, <2>1
<1>6. value({i}) = e.value
  OBVIOUS
<1>7. ASSUME NEW x \in Vertices, NEW y \in Vertices, {x, y} # {e.u, e.v}
      PROVE  Distances(list, rest)[<<x, y>>] = Distances(list, kept)[<<x, y>>]
  <2>. DEFINE other == <<x, y>>
  <2>1. joining(rest, other) = joining(kept, other)
    BY <1>2, <1>7
  <2>2. other \in Vertices \X Vertices
    OBVIOUS
  <2>. HIDE DEF rest, joining, value, other
  <2>3. Distances(list, rest)[other] = Distances(list, kept)[other]
    BY <1>1, <2>1, <2>2
  <2>4. QED
    BY <2>3 DEF other
<1>8. Distances(list, kept)[pair] = e.value /\ Distances(list, rest)[pair] = Infinity
  <2>. HIDE DEF rest, joining, value, pair, e
  <2>1. ASSUME NEW L
        PROVE  Distances(list, L)[pair] = IF joining(L, pair) = {} THEN Infinity
                                          ELSE value(joining(L, pair))
    BY <1>1, <1>4
  <2>2. Distances(list, kept)[pair] = value({i})
    <3>1. joining(kept, pair) # {}
      BY <1>5
    <3>2. Distances(list, kept)[pair] = value(joining(kept, pair))
      BY <2>1, <3>1
    <3>3. QED
      BY <1>5, <3>2
  <2>3. Distances(list, rest)[pair] = Infinity
    BY <1>5, <2>1
  <2>4. QED
    BY <1>6, <2>2, <2>3
<1>. HIDE DEF e, joining, value
<1>9. WithoutEdge(Distances(list, kept), Distances(list, rest), e.u, e.v, e.value)
  BY <1>2, <1>3, <1>7, <1>8 DEF WithoutEdge
<1>10. QED
  BY <1>9 DEF e

\* Of some levels up to a level there is a last.
LEMMA LastLevel ==
  ASSUME NEW S \in SUBSET Level, NEW t \in Level, NEW s \in S, s <= t
  PROVE  \E last \in S : last <= t /\ \A r \in S : r <= t => r <= last
<1>1. t \in Int /\ \A r \in S : r \in Int
  BY GraphAssumption DEF Level
<1>. DEFINE R == {k \in Nat : t - k \in S}
<1>2. R \in SUBSET Nat /\ R # {}
  <2>1. t - s \in Nat /\ t - (t - s) = s
    BY <1>1
  <2>2. QED
    BY <2>1
<1>3. PICK k \in R : \A j \in R : k <= j
  <2>. HIDE DEF R
  <2>1. QED
    BY <1>2, MinOfNaturals
<1>4. t - k \in S /\ t - k <= t
  BY <1>1, <1>3
<1>5. ASSUME NEW r \in S, r <= t
      PROVE  r <= t - k
  <2>1. t - r \in Nat /\ t - (t - r) = r
    BY <1>1, <1>5
  <2>2. k <= t - r
    BY <1>3, <2>1
  <2>3. QED
    BY <1>1, <1>3, <2>2
<1>6. QED
  BY <1>4, <1>5

\* An edge that the test lets go is dominated: between two critical levels
\* nothing changes, and at each of them a candidate dominates.
LEMMA TestedIsDominated ==
  ASSUME NEW list, IsSchedule(list), NEW kept \in SUBSET (1 .. Len(list)), NEW i \in kept,
         TestEdge(list, kept, i) # <<>>
  PROVE  Dominated(Distances(list, kept), list[i].u, list[i].v, list[i].value)
<1>. DEFINE dist  == Distances(list, kept)
            e     == list[i]
            birth == Candidates(dist, e)
            C     == Common(dist, e)
            crit  == CriticalValues(list, kept, i)
<1>1. /\ e.u \in Vertices /\ e.v \in Vertices /\ e.u # e.v /\ e.value \in Level
      /\ Ends(e) = {e.u, e.v}
  BY EndsTyped
<1>2. Metric(dist)
  BY DistancesMetric
<1>3. C \in SUBSET Vertices /\ birth \in [C -> Level]
  BY CandidatesTyped
<1>4. /\ \A x \in C : birth[x] = Max({e.value, dist[<<e.u, x>>], dist[<<e.v, x>>]})
      /\ C = {x \in Vertices \ Ends(e) : dist[<<e.u, x>>] < Infinity /\ dist[<<e.v, x>>] < Infinity}
  BY DEF Candidates, Common
<1>5. crit = {e.value} \cup {birth[x] : x \in C}
  BY <1>3 DEF CriticalValues
<1>6. \A t \in crit : DominatingAt(list, kept, i, t) # {}
  BY TestMatchesCheck DEF CheckWitnesses
<1>7. \A t : DominatingAt(list, kept, i, t)
               = {w \in C : birth[w] <= t /\ \A x \in C : birth[x] <= t => dist[<<w, x>>] <= t}
  BY <1>3 DEF DominatingAt, Dominating
<1>. HIDE DEF dist, e, birth, C, crit
<1>8. crit \in SUBSET Level /\ e.value \in crit
  BY <1>1, <1>3, <1>5
<1>9. \A x, y \in Vertices : dist[<<x, y>>] \in Int /\ dist[<<x, y>>] = dist[<<y, x>>]
  BY <1>2 DEF Metric
<1>10. ASSUME NEW x \in C
       PROVE  /\ birth[x] \in {e.value, dist[<<e.u, x>>], dist[<<e.v, x>>]}
              /\ dist[<<e.u, x>>] <= birth[x] /\ dist[<<e.v, x>>] <= birth[x]
              /\ birth[x] \in Int /\ birth[x] \in crit
  <2>. DEFINE a == e.value
              b == dist[<<e.u, x>>]
              d == dist[<<e.v, x>>]
  <2>1. a \in Int /\ b \in Int /\ d \in Int
    <3>1. x \in Vertices
      BY <1>3
    <3>2. dist[<<e.u, x>>] \in Int /\ dist[<<e.v, x>>] \in Int
      BY <1>1, <1>9, <3>1
    <3>3. e.value \in Int
      BY <1>1 DEF Level
    <3>4. QED
      BY <3>2, <3>3
  <2>2. birth[x] \in Level
    BY <1>3
  <2>3. birth[x] \in Int /\ birth[x] \in crit
    BY <1>5, <2>2 DEF Level
  <2>4. birth[x] = Max({a, b, d})
    BY <1>4
  <2>. HIDE DEF a, b, d
  <2>5. Max({a, b, d}) \in {a, b, d} /\ b <= Max({a, b, d}) /\ d <= Max({a, b, d})
    BY <2>1, MaxOfThree
  <2>6. QED
    BY <2>3, <2>4, <2>5 DEF a, b, d
<1>11. ASSUME NEW t \in Level, e.value <= t
       PROVE  \E w \in Vertices \ {e.u, e.v} :
                /\ dist[<<e.u, w>>] <= t /\ dist[<<e.v, w>>] <= t
                /\ \A x \in Vertices : dist[<<e.u, x>>] <= t /\ dist[<<e.v, x>>] <= t
                                         => dist[<<w, x>>] <= t
  <2>1. PICK last \in crit : last <= t /\ \A r \in crit : r <= t => r <= last
    BY <1>8, <1>11, LastLevel
  <2>2. PICK w \in C : /\ birth[w] <= last
                       /\ \A x \in C : birth[x] <= last => dist[<<w, x>>] <= last
    BY <1>6, <1>7
  <2>3. last \in Int /\ t \in Int /\ Infinity \in Int /\ t < Infinity /\ e.value \in Int
    BY <1>1, <1>8, GraphAssumption DEF Level, Infinity
  <2>4. w \in Vertices \ {e.u, e.v}
    BY <1>1, <1>4
  <2>5. dist[<<e.u, w>>] <= t /\ dist[<<e.v, w>>] <= t
    <3>1. /\ dist[<<e.u, w>>] <= birth[w] /\ dist[<<e.v, w>>] <= birth[w] /\ birth[w] \in Int
          /\ dist[<<e.u, w>>] \in Int /\ dist[<<e.v, w>>] \in Int
      BY <1>1, <1>9, <1>10, <2>4
    <3>2. QED
      BY <2>1, <2>2, <2>3, <3>1
  <2>6. ASSUME NEW x \in Vertices, dist[<<e.u, x>>] <= t, dist[<<e.v, x>>] <= t
        PROVE  dist[<<w, x>>] <= t
    <3>1. CASE x \in {e.u, e.v}
      BY <1>1, <1>9, <2>4, <2>5, <3>1
    <3>2. CASE x \notin {e.u, e.v}
      <4>1. dist[<<e.u, x>>] \in Int /\ dist[<<e.v, x>>] \in Int /\ dist[<<w, x>>] \in Int
        BY <1>1, <1>9, <2>4
      <4>2. dist[<<e.u, x>>] < Infinity /\ dist[<<e.v, x>>] < Infinity
        BY <2>3, <2>6, <4>1
      <4>3. x \in C
        BY <1>1, <1>4, <3>2, <4>2
      <4>4. birth[x] <= t /\ birth[x] \in crit
        BY <1>10, <1>11, <2>6, <4>3
      <4>5. dist[<<w, x>>] <= last
        BY <2>1, <2>2, <4>3, <4>4
      <4>6. QED
        BY <2>1, <2>3, <4>1, <4>5
    <3>3. QED
      BY <3>1, <3>2
  <2>7. QED
    BY <2>4, <2>5, <2>6
<1>12. QED
  BY <1>11 DEF Dominated, dist, e

\* What the test lets go does not change the shape of the graph.
LEMMA AllowedKeepsShape ==
  ASSUME NEW list, IsSchedule(list), Simple(list), NEW kept \in SUBSET (1 .. Len(list)),
         NEW i \in kept, TestEdge(list, kept, i) # <<>>
  PROVE  SameShape(Distances(list, kept \ {i}), Distances(list, kept))
<1>. DEFINE dist  == Distances(list, kept)
            after == Distances(list, kept \ {i})
            u     == list[i].u
            v     == list[i].v
            c     == list[i].value
<1>1. WithoutEdge(dist, after, u, v, c)
  BY RemovalTakesEdge
<1>2. Dominated(dist, u, v, c)
  BY TestedIsDominated
<1>. HIDE DEF dist, after, u, v, c
<1>3. SameShape(after, dist)
  BY <1>1, <1>2, RemovalKeepsShape
<1>4. QED
  BY <1>3 DEF dist, after

\* The graph that a run works on, whichever schedule it follows.
LEMMA CollapseGraphTyped ==
  ASSUME CollapseInv
  PROVE  IsSchedule(edges) /\ live \in SUBSET (1 .. Len(edges))
<1>1. CASE schedule = "ordered"
  BY <1>1 DEF CollapseInv, OrderedInv, OrderedTyped, GraphTyped, Positions
<1>2. CASE schedule = "rounds"
  BY <1>2 DEF CollapseInv, RoundsInv, GraphTyped, Positions
<1>3. CASE schedule = "adaptive"
  BY <1>3, LiveFinite DEF CollapseInv, AdaptiveInv
<1>4. QED
  BY <1>1, <1>2, <1>3 DEF CollapseInv

\* An edge that the test lets go from the graph as it is.
Lets(i) == i \in live /\ TestEdge(edges, live, i) # <<>> /\ live' = live \ {i}

\* Every removal is one that the test allows on the graph as it is, although
\* the ordered schedule and the rounds have their verdicts from an earlier one.
LEMMA OnlyAllowedGo ==
  ASSUME CollapseInv, [CollapseNext]_collapseVars
  PROVE  edges' = edges /\ (live' = live \/ \E i \in live : Lets(i))
<1>1. CASE UNCHANGED collapseVars
  BY <1>1 DEF collapseVars, runVars
<1>2. CASE schedule = "ordered" /\ OrderedNext
  <2>1. OrderedInv
    BY <1>2 DEF CollapseInv
  <2>2. CASE FormStage \/ TestStage \/ RetireSkip \/ RetireKeep \/ EndPass
    BY <2>2 DEF FormStage, TestStage, RetireSkip, RetireKeep, EndPass, graphVars, runVars
  <2>3. CASE RetireRemove
    <3>1. /\ position \in live /\ live' = live \ {position} /\ Verdict # <<>>
          /\ phase = "retire" /\ edges' = edges
      BY <2>3 DEF RetireRemove, Due
    <3>2. Verdict = TestEdge(edges, live, position)
      <4>1. position \in Nat
        BY <2>1 DEF OrderedInv, OrderedTyped
      <4>2. CASE position \in members \ stale
        BY <2>1, <3>1, <4>1, <4>2 DEF OrderedInv, CacheFresh, Verdict
      <4>3. CASE position \notin members \ stale
        BY <4>3 DEF Verdict
      <4>4. QED
        BY <4>2, <4>3
    <3>3. Lets(position)
      BY <3>1, <3>2 DEF Lets
    <3>4. QED
      BY <3>1, <3>3
  <2>4. QED
    BY <1>2, <2>2, <2>3 DEF OrderedNext
<1>3. CASE schedule = "rounds" /\ RoundsNext
  <2>1. RoundsInv /\ SelectionStands
    BY <1>3 DEF CollapseInv
  <2>2. CASE TestDue \/ Select \/ NextRound
    BY <2>2 DEF TestDue, Select, NextRound, runVars
  <2>3. CASE CommitOne
    <3>1. PICK i : i = Min(selected)
      OBVIOUS
    <3>2. /\ phase = "commit" /\ selected # {} /\ live' = live \ {i} /\ edges' = edges
      BY <2>3, <3>1 DEF CommitOne
    <3>3. selected \in SUBSET Nat /\ selected \subseteq live
      <4>1. selected \subseteq live
        BY <2>1, <3>2 DEF RoundsInv
      <4>2. live \in SUBSET (1 .. Len(edges))
        BY CollapseGraphTyped
      <4>3. QED
        BY <4>1, <4>2
    <3>4. i \in selected
      BY <3>1, <3>2, <3>3, MinOfNaturals
    <3>5. TestEdge(edges, live, i) # <<>>
      BY <2>1, <3>2, <3>4 DEF RoundsInv, FrozenVerdictHolds, SelectionStands
    <3>6. Lets(i)
      BY <3>2, <3>3, <3>4, <3>5 DEF Lets
    <3>7. QED
      BY <3>2, <3>3, <3>4, <3>6
  <2>4. QED
    BY <1>3, <2>2, <2>3 DEF RoundsNext
<1>4. CASE schedule = "adaptive" /\ Adaptive!Next
  <2>1. AdaptiveInv
    BY <1>4 DEF CollapseInv
  <2>2. CASE Adaptive!PlanPass \/ Adaptive!PlanLimited \/ Adaptive!RetireLimited
    BY <2>2 DEF Adaptive!PlanPass, Adaptive!PlanLimited, Adaptive!RetireLimited
  <2>3. CASE Adaptive!RetireCandidate
    <3>. DEFINE i == Head(queue)
    <3>1. /\ phase = "pop" /\ edges' = edges
          /\ IF TestEdge(edges, live, i) = <<>> THEN live' = live ELSE live' = live \ {i}
      BY <2>3, SameTest DEF Adaptive!RetireCandidate
    <3>2. i \in live
      BY <2>1, <3>1 DEF AdaptiveInv, QueueAlive
    <3>. HIDE DEF i
    <3>3. CASE TestEdge(edges, live, i) # <<>>
      <4>1. Lets(i)
        BY <3>1, <3>2, <3>3 DEF Lets
      <4>2. QED
        BY <3>1, <3>2, <4>1
    <3>4. QED
      BY <3>1, <3>3
  <2>4. QED
    BY <1>4, <2>2, <2>3 DEF Adaptive!Next
<1>5. QED
  BY <1>1, <1>2, <1>3, <1>4 DEF CollapseNext

\* The shape of what is left, at every step.
ShapeInv ==
  /\ Simple(edges)
  /\ SameShape(Distances(edges, live), Distances(edges, Positions))

\* Whichever schedule runs, it starts from a simple graph with all its edges.
LEMMA ShapeInvInit == CollapseInit => ShapeInv
<1>. SUFFICES ASSUME CollapseInit PROVE ShapeInv
  OBVIOUS
<1>1. edges \in Starts /\ live = Positions
  BY DEF CollapseInit, OrderedInit, RoundsInit, RunInit, Adaptive!Init, Adaptive!Position, Positions
<1>2. PICK input \in Inputs : edges = Prepared(input)
  BY <1>1 DEF Starts
<1>3. IsInput(input)
  BY InputsAssumption DEF IsInput
<1>4. Simple(edges)
  BY <1>2, <1>3, PreparedSimple
<1>5. QED
  BY <1>1, <1>4 DEF ShapeInv, SameShape

\* Whichever schedule runs, its steps keep the shape.
LEMMA ShapeInvStep == CollapseInv /\ ShapeInv /\ [CollapseNext]_collapseVars => ShapeInv'
<1>. SUFFICES ASSUME CollapseInv, ShapeInv, [CollapseNext]_collapseVars
              PROVE  ShapeInv'
  OBVIOUS
<1>1. edges' = edges /\ Positions' = Positions /\ (live' = live \/ \E i \in live : Lets(i))
  BY OnlyAllowedGo DEF Positions
<1>2. IsSchedule(edges) /\ live \in SUBSET (1 .. Len(edges)) /\ Simple(edges)
  BY CollapseGraphTyped DEF ShapeInv
<1>3. SameShape(Distances(edges, live'), Distances(edges, live))
  <2>1. CASE live' = live
    BY <2>1 DEF SameShape
  <2>2. CASE live' # live
    <3>1. PICK i \in live : Lets(i)
      BY <1>1, <2>2
    <3>2. TestEdge(edges, live, i) # <<>> /\ live' = live \ {i}
      BY <3>1 DEF Lets
    <3>3. SameShape(Distances(edges, live \ {i}), Distances(edges, live))
      BY <1>2, <3>2, AllowedKeepsShape
    <3>4. QED
      BY <3>2, <3>3
  <2>3. QED
    BY <2>1, <2>2
<1>4. SameShape(Distances(edges, live), Distances(edges, Positions))
  BY DEF ShapeInv
<1>5. SameShape(Distances(edges, live'), Distances(edges, Positions))
  BY <1>3, <1>4 DEF SameShape
<1>6. QED
  BY <1>1, <1>2, <1>5 DEF ShapeInv

\* The collapse keeps the shape of the graph, for every graph, schedule,
\* window, marking limit and work limit: whatever a run has removed, at every
\* level the components and the Euler characteristic are those of the input.
THEOREM ShapeKept == CollapseSpec => []KeepsShape
<1>1. ShapeInv => KeepsShape
  BY DEF ShapeInv, KeepsShape
<1>2. QED
  BY <1>1, ShapeInvInit, ShapeInvStep, CollapseInvariant, PTL DEF CollapseSpec
=============================================================================
