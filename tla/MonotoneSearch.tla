----------------------------- MODULE MonotoneSearch -----------------------------
(****************************************************************************)
(* The exact search for a cheapest selection that an antitone predicate     *)
(* rejects (monotone_search.rs, minimize_antitone): a packing of disjoint   *)
(* blockers bounds the cost from below, a greedy selection from above, and  *)
(* a branch and bound closes the gap.  The calls of the oracle and the      *)
(* nodes of the tree are limited; a limit may stop the search anywhere.     *)
(*                                                                          *)
(* A sorted vector of candidates is a set; the recursion of explore is a    *)
(* stack of the nodes still to visit; the oracle's cache is the set of      *)
(* selections it holds, so that its size is the number of calls.            *)
(****************************************************************************)
EXTENDS Integers, SequencesExt

CONSTANT Candidates   \* every candidate there may be, numbered

ASSUME SearchAssumption == Candidates \subseteq Nat /\ IsFiniteSet(Candidates)

(* A call: its candidates and their costs, the largest selection, the       *)
(* selections that survive, and the two limits.                             *)
Problem ==
  {p \in [candidates : SUBSET Candidates, cost : [Candidates -> Nat \ {0}],
          max : 0 .. Cardinality(Candidates), surviving : SUBSET SUBSET Candidates,
          oracleCalls : Nat \ {0}, searchNodes : Nat \ {0}] :
     /\ p.max <= Cardinality(p.candidates)
     /\ \A S \in p.surviving : SUBSET S \subseteq p.surviving}

VARIABLES
  problem,   \* the call
  known,     \* the selections whose answer is in the cache
  nodes,     \* search_nodes
  best,      \* the cheapest rejected selection so far
  phase,     \* the next step
  packing,   \* the packing under way, or the last one
  afterPacking, \* the step that follows it
  root,      \* the packing of the root
  selected,  \* the greedy selection
  todo,      \* what the minimization still tries to leave out
  stack,     \* the nodes still to explore
  result     \* what the call returns

treeVars   == <<nodes, best, stack>>
greedyVars == <<selected, todo>>
packVars   == <<packing, afterPacking, root>>
searchVars == <<problem, known, treeVars, phase, packVars, greedyVars, result>>

NoSelection == <<>>
NoBound == -1

-----------------------------------------------------------------------------
Survives(S) == S \in problem.surviving
Cost(S)     == MapThenSumSet(LAMBDA c : problem.cost[c], S)
Cheapest(S) == Min({problem.cost[c] : c \in S})

\* Candidates in the order of their costs, then of their numbers.
Cheaper(c, d) ==
  problem.cost[c] < problem.cost[d] \/ (problem.cost[c] = problem.cost[d] /\ c < d)

BlockerBound(blockers) ==
  MapThenSumSet(LAMBDA i : Cheapest(blockers[i]), DOMAIN blockers)

\* The oracle answers from the cache, or while it has calls left.
Answers(S) == S \in known \/ Cardinality(known) < problem.oracleCalls
Learn(S)   == known' = IF Answers(S) THEN known \cup {S} ELSE known

\* The order of sorted vectors: a proper prefix comes first.
VectorBefore(S, T) ==
  LET d == Min(SymDiff(S, T))
  IN  S # T /\ IF d \in S THEN \E t \in T : t > d ELSE ~(\E s \in S : s > d)

\* update_best: a cheaper selection, or an earlier one of the same cost.
UpdateBest(S) ==
  best' = IF \/ best = NoSelection
             \/ Cost(S) < Cost(best[1])
             \/ Cost(S) = Cost(best[1]) /\ VectorBefore(S, best[1])
          THEN <<S>> ELSE best

\* A bound that the best selection already reaches.
Reached(bound) == best # NoSelection /\ bound >= Cost(best[1])

NoPacking == [included |-> {}, available |-> {}, used |-> {}, retained |-> {},
              left |-> {}, blockers |-> <<>>, complete |-> TRUE]

\* No search has been asked for.
SearchInit ==
  /\ problem = [candidates |-> {}, cost |-> <<>>, max |-> 0, surviving |-> {},
                oracleCalls |-> 0, searchNodes |-> 0]
  /\ known = {}
  /\ nodes = 0
  /\ best = NoSelection
  /\ phase = "idle"
  /\ packing = NoPacking
  /\ afterPacking = "root"
  /\ root = NoPacking
  /\ selected = {}
  /\ todo = {}
  /\ stack = <<>>
  /\ result = NoSelection

\* minimize_antitone is called.
BeginSearch(p) ==
  /\ problem' = p
  /\ known' = {}
  /\ nodes' = 0
  /\ best' = NoSelection
  /\ phase' = "empty"
  /\ packing' = NoPacking
  /\ afterPacking' = "root"
  /\ root' = NoPacking
  /\ selected' = {}
  /\ todo' = {}
  /\ stack' = <<>>
  /\ result' = NoSelection

Proceed(step) == phase' = step

Conclude(status, S, lower, upper) ==
  /\ result' = [status |-> status, selected |-> S, lower |-> lower, upper |-> upper]
  /\ Proceed("done")

-----------------------------------------------------------------------------
(* extreme_result *)

EvaluateEmpty ==
  /\ phase = "empty"
  /\ Learn({})
  /\ IF ~Answers({}) THEN Conclude("incomplete", {}, 0, NoBound)
     ELSE IF Survives({}) THEN Proceed("all") /\ UNCHANGED result
     ELSE Conclude("optimal", {}, 0, 0)
  /\ UNCHANGED <<problem, treeVars, packVars, greedyVars>>

\* pack_blockers starts.
Pack(included, available, step) ==
  /\ packing' = [NoPacking EXCEPT !.included = included, !.available = available]
  /\ afterPacking' = step
  /\ Proceed("base")

EvaluateAll ==
  /\ phase = "all"
  /\ Learn(problem.candidates)
  /\ IF Answers(problem.candidates) /\ ~Survives(problem.candidates)
     THEN Pack({}, problem.candidates, "root") /\ UNCHANGED result
     ELSE /\ IF Answers(problem.candidates) THEN Conclude("infeasible", {}, NoBound, NoBound)
             ELSE Conclude("incomplete", {}, 0, NoBound)
          /\ UNCHANGED <<packing, afterPacking>>
  /\ UNCHANGED <<problem, treeVars, root, greedyVars>>

-----------------------------------------------------------------------------
(* pack_blockers *)

\* The packing ends once the included and the used candidates are rejected
\* together, or without an answer.
PackBase ==
  LET base == packing.included \cup packing.used IN
  /\ phase = "base"
  /\ Learn(base)
  /\ IF Answers(base) /\ Survives(base)
     THEN /\ packing' = [packing EXCEPT !.retained = packing.used,
                                        !.left = packing.available \ packing.used]
          /\ Proceed("trial")
     ELSE /\ packing' = [packing EXCEPT !.complete = Answers(base)]
          /\ Proceed(afterPacking)
  /\ UNCHANGED <<problem, treeVars, afterPacking, root, greedyVars, result>>

\* A candidate is retained when what is retained survives with it.
PackTrial ==
  LET c     == Min(packing.left)
      trial == packing.included \cup packing.retained \cup {c}
  IN
  /\ phase = "trial"
  /\ packing.left # {}
  /\ Learn(trial)
  /\ IF Answers(trial)
     THEN /\ packing' = [packing EXCEPT
                           !.left = @ \ {c},
                           !.retained = IF Survives(trial) THEN @ \cup {c} ELSE @]
          /\ UNCHANGED phase
     ELSE /\ packing' = [packing EXCEPT !.complete = FALSE]
          /\ Proceed(afterPacking)
  /\ UNCHANGED <<problem, treeVars, afterPacking, root, greedyVars, result>>

\* Mutant of PackBlocker: the blocker may be used again.
PackBlockerUnused ==
  LET blocker == packing.available \ packing.retained IN
  /\ phase = "trial"
  /\ packing.left = {}
  /\ IF blocker = {} \/ Len(packing.blockers) = 2
     THEN Proceed(afterPacking) /\ UNCHANGED packing
     ELSE /\ packing' = [packing EXCEPT !.blockers = Append(@, blocker)]
          /\ Proceed("base")
  /\ UNCHANGED <<problem, known, treeVars, afterPacking, root, greedyVars, result>>

\* What is not retained is a blocker: every rejected selection meets it.
PackBlocker ==
  LET blocker == packing.available \ packing.retained IN
  /\ phase = "trial"
  /\ packing.left = {}
  /\ IF blocker = {}
     THEN Proceed(afterPacking) /\ UNCHANGED packing
     ELSE /\ packing' = [packing EXCEPT !.used = @ \cup blocker,
                                        !.blockers = Append(@, blocker)]
          /\ Proceed("base")
  /\ UNCHANGED <<problem, known, treeVars, afterPacking, root, greedyVars, result>>

-----------------------------------------------------------------------------
(* finish_result *)

\* Mutant of Finish: a search that was stopped counts as complete once it has
\* a selection.
FinishEagerly(packed, complete) ==
  LET bound == BlockerBound(packed.blockers) IN
  IF best # NoSelection
  THEN Conclude("optimal", best[1], Cost(best[1]), Cost(best[1]))
  ELSE IF complete THEN Conclude("infeasible", {}, NoBound, NoBound)
  ELSE Conclude("incomplete", {}, bound, NoBound)

Finish(packed, complete) ==
  LET bound == BlockerBound(packed.blockers) IN
  IF best # NoSelection /\ (complete \/ bound = Cost(best[1]))
  THEN Conclude("optimal", best[1], Cost(best[1]), Cost(best[1]))
  ELSE IF best # NoSelection THEN Conclude("incomplete", best[1], bound, Cost(best[1]))
  ELSE IF complete THEN Conclude("infeasible", {}, NoBound, NoBound)
  ELSE Conclude("incomplete", {}, bound, NoBound)

\* search_root: without a complete packing of the root nothing is searched.
Root ==
  /\ phase = "root"
  /\ root' = packing
  /\ IF packing.complete THEN Proceed("grow") /\ UNCHANGED result
     ELSE Finish(packing, FALSE)
  /\ UNCHANGED <<problem, known, treeVars, packing, afterPacking, greedyVars>>

-----------------------------------------------------------------------------
(* greedy_upper, with grow_greedy and minimize_greedy *)

\* The greedy selection is given up, or done: the tree is searched.
ExploreRoot ==
  /\ stack' = <<[included |-> {}, available |-> problem.candidates]>>
  /\ Proceed("explore")

\* The selection grows while it survives.
GrowEvaluate ==
  /\ phase = "grow"
  /\ Learn(selected)
  /\ \/ /\ ~Answers(selected)
        /\ ExploreRoot
        /\ UNCHANGED <<packing, afterPacking, todo>>
     \/ /\ Answers(selected)
        /\ ~Survives(selected)
        /\ todo' = selected
        /\ Proceed("minimize")
        /\ UNCHANGED <<packing, afterPacking, stack>>
     \/ /\ Answers(selected)
        /\ Survives(selected)
        /\ Cardinality(selected) = problem.max
        /\ ExploreRoot
        /\ UNCHANGED <<packing, afterPacking, todo>>
     \/ /\ Answers(selected)
        /\ Survives(selected)
        /\ Cardinality(selected) # problem.max
        /\ Pack(selected, problem.candidates \ selected, "grown")
        /\ UNCHANGED <<todo, stack>>
  /\ UNCHANGED <<problem, nodes, best, root, selected, result>>

\* By the cheapest candidate of the first blocker.
Grow ==
  /\ phase = "grown"
  /\ IF packing.blockers = <<>>
     THEN ExploreRoot /\ UNCHANGED selected
     ELSE /\ selected' = selected \cup
                {CHOOSE c \in packing.blockers[1] :
                   \A d \in packing.blockers[1] : c = d \/ Cheaper(c, d)}
          /\ IF packing.complete THEN Proceed("grow") /\ UNCHANGED stack
             ELSE ExploreRoot
  /\ UNCHANGED <<problem, known, nodes, best, packVars, todo, result>>

\* Every candidate is left out if the rest is still rejected, the last first.
Minimize ==
  LET c       == Max(todo)
      reduced == selected \ {c}
  IN
  /\ phase = "minimize"
  /\ todo # {}
  /\ Learn(reduced)
  /\ IF Answers(reduced)
     THEN /\ selected' = IF Survives(reduced) THEN selected ELSE reduced
          /\ todo' = todo \ {c}
          /\ UNCHANGED <<stack, phase>>
     ELSE ExploreRoot /\ UNCHANGED greedyVars
  /\ UNCHANGED <<problem, nodes, best, packVars, result>>

Minimized ==
  /\ phase = "minimize"
  /\ todo = {}
  /\ UpdateBest(selected)
  /\ ExploreRoot
  /\ UNCHANGED <<problem, known, nodes, packVars, greedyVars, result>>

-----------------------------------------------------------------------------
(* explore *)

Node == Head(stack)
Pop  == stack' = Tail(stack) /\ Proceed("explore")

\* A limit stops the whole search: every caller of explore breaks off.
Stop == Finish(root, FALSE) /\ UNCHANGED stack

\* start_explore, up to its second question.
StartExplore ==
  /\ phase = "explore"
  /\ stack # <<>>
  /\ IF nodes = problem.searchNodes
     THEN Stop /\ UNCHANGED <<known, nodes, best>>
     ELSE /\ nodes' = nodes + 1
          /\ Learn(Node.included)
          /\ \/ /\ ~Answers(Node.included)
                /\ Stop
                /\ UNCHANGED best
             \/ /\ Answers(Node.included)
                /\ ~Survives(Node.included)
                /\ UpdateBest(Node.included)
                /\ Pop
                /\ UNCHANGED result
             \/ /\ Answers(Node.included)
                /\ Survives(Node.included)
                /\ IF \/ Cardinality(Node.included) = problem.max
                      \/ Reached(Cost(Node.included))
                   THEN Pop ELSE Proceed("union") /\ UNCHANGED stack
                /\ UNCHANGED <<best, result>>
  /\ UNCHANGED <<problem, packVars, greedyVars>>

\* A node that survives with all that is available has no rejected selection.
ExploreUnion ==
  LET union == Node.included \cup Node.available IN
  /\ phase = "union"
  /\ Learn(union)
  /\ \/ /\ ~Answers(union)
        /\ Stop
        /\ UNCHANGED <<packing, afterPacking>>
     \/ /\ Answers(union)
        /\ Survives(union)
        /\ Pop
        /\ UNCHANGED <<packing, afterPacking, result>>
     \/ /\ Answers(union)
        /\ ~Survives(union)
        /\ Pack(Node.included, Node.available, "bound")
        /\ UNCHANGED <<stack, result>>
  /\ UNCHANGED <<problem, nodes, best, root, greedyVars>>

\* select_branch: the smallest blocker, then the cheapest, then the first.
BranchBlocker ==
  LET blockers == packing.blockers
      first(i, j) ==
        LET a == Cardinality(blockers[i])
            b == Cardinality(blockers[j])
        IN  \/ a < b
            \/ a = b /\ Cheapest(blockers[i]) < Cheapest(blockers[j])
            \/ a = b /\ Cheapest(blockers[i]) = Cheapest(blockers[j]) /\ i <= j
  IN  blockers[CHOOSE i \in DOMAIN blockers : \A j \in DOMAIN blockers : first(i, j)]

\* How many candidates of a blocker come before one.
Cheapers(blocker, c) == Cardinality({d \in blocker : Cheaper(d, c)})

\* Its candidates in the order of their costs.
Branch ==
  LET turn == [c \in BranchBlocker |-> Cheapers(BranchBlocker, c)]
  IN  [n \in 1 .. Cardinality(BranchBlocker) |-> CHOOSE c \in BranchBlocker : turn[c] = n - 1]

\* Mutant of Children: a child also leaves out the candidates after its own.
ChildrenAlone ==
  [i \in DOMAIN Branch |->
     [included  |-> Node.included \cup {Branch[i]},
      available |-> Node.available \ ToSet(Branch)]]

\* explore_branch: one child includes each candidate of the blocker and leaves
\* out those before it.
Children ==
  [i \in DOMAIN Branch |->
     [included  |-> Node.included \cup {Branch[i]},
      available |-> Node.available \ ToSet(SubSeq(Branch, 1, i))]]

\* packing_result and explore_branch.
ExploreBranch ==
  /\ phase = "bound"
  /\ IF \/ Cardinality(Node.included) + Len(packing.blockers) > problem.max
        \/ Reached(Cost(Node.included) + BlockerBound(packing.blockers))
     THEN Pop /\ UNCHANGED result
     ELSE IF ~packing.complete THEN Stop
     ELSE /\ stack' = (IF packing.blockers = <<>> THEN <<>> ELSE Children) \o Tail(stack)
          /\ Proceed("explore")
          /\ UNCHANGED result
  /\ UNCHANGED <<problem, known, nodes, best, packVars, greedyVars>>

\* The tree is explored.
Explored ==
  /\ phase = "explore"
  /\ stack = <<>>
  /\ Finish(root, TRUE)
  /\ UNCHANGED <<problem, known, treeVars, packVars, greedyVars>>

SearchNext ==
  \/ EvaluateEmpty \/ EvaluateAll
  \/ PackBase \/ PackTrial \/ PackBlocker
  \/ Root \/ GrowEvaluate \/ Grow \/ Minimize \/ Minimized
  \/ StartExplore \/ ExploreUnion \/ ExploreBranch \/ Explored

\* A caller asks for one selection after another.
Ask == phase \in {"idle", "done"} /\ \E p \in Problem : BeginSearch(p)

SearchSpec == SearchInit /\ [][Ask \/ SearchNext]_searchVars

-----------------------------------------------------------------------------
\* The selections the search looks for, and the least cost of one.
Solutions == {S \in SUBSET problem.candidates : ~Survives(S) /\ Cardinality(S) <= problem.max}
Optimum   == Min({Cost(S) : S \in Solutions})

(* The result holds for every limit: an optimal selection is a cheapest     *)
(* one, an infeasible problem has none, and a stopped search returns bounds *)
(* that enclose the optimum (finish_result).                                *)
ResultHolds ==
  phase = "done" =>
    /\ result.status = "optimal" =>
         /\ result.selected \in Solutions
         /\ result.lower = Optimum /\ result.upper = Optimum
         /\ Cost(result.selected) = Optimum
    /\ result.status = "infeasible" => Solutions = {}
    /\ result.status = "incomplete" =>
         /\ \A S \in Solutions : result.lower <= Cost(S)
         /\ result.upper # NoBound => /\ result.selected \in Solutions
                                      /\ Cost(result.selected) = result.upper

(* No solution is forgotten: while the tree is explored, each costs at      *)
(* least as much as the best so far or lies below a node still to be        *)
(* explored, whatever was pruned by size, cost or packing (explore).        *)
NothingMissed ==
  phase \in {"explore", "union", "base", "trial", "bound"} /\ stack # <<>> =>
    \A S \in Solutions :
      \/ Reached(Cost(S))
      \/ \E i \in DOMAIN stack :
           /\ stack[i].included \subseteq S
           /\ S \subseteq stack[i].included \cup stack[i].available
=============================================================================
