---------------------------- MODULE SearchArtifacts ----------------------------
(****************************************************************************)
(* The artifacts made of a search: a cheapest plan of actions that meets a  *)
(* criterion in every state, with a proof tree that no cheaper plan does    *)
(* (synthesis/artifact.rs, coverage_synthesis/artifact.rs).  A coverage     *)
(* whose actions share no state is searched part by part: each part has a   *)
(* frontier of plans, one per number of activations worth having, and the   *)
(* frontiers compose to a plan (coverage_frontier/compose.rs).  The tree is *)
(* built by asking the predicate again (monotone_proof, synthesis/proof.rs) *)
(* and checked by the producer and by an independent checker, which do not  *)
(* search.                                                                  *)
(*                                                                          *)
(* A proof tree is a function from paths to nodes: the root is at <<>>, and *)
(* the i-th child of the node at p at Append(p, i).                         *)
(*                                                                          *)
(* The limits on nodes, depth and terms of a proof are left out; the limit  *)
(* on its questions is the search's own.                                    *)
(****************************************************************************)
EXTENDS MonotoneSearch

CONSTANT Calls   \* of build

(* A call: the costs of the actions, the states where an action counts, and *)
(* for each state the selections that meet its criterion at the least.      *)
IsCall(c) ==
  /\ c.kind \in {"coverage", "synthesis"}
  /\ c.cost \in [Candidates -> Nat \ {0}]
  /\ c.max \in 0 .. Cardinality(Candidates)
  /\ c.oracleCalls \in Nat \ {0} /\ c.searchNodes \in Nat \ {0}
  /\ c.needs \in Seq(SUBSET SUBSET Candidates) \ {<<>>}
  /\ \A a \in Candidates : c.states[a] # {} /\ c.states[a] \subseteq DOMAIN c.needs
  /\ \A s \in DOMAIN c.needs : \A R \in c.needs[s] :
       R \subseteq {a \in Candidates : s \in c.states[a]}

ASSUME CallsAssumption == \A c \in Calls : IsCall(c)

VARIABLES
  call,      \* the arguments
  stage,     \* "idle", "whole", "parts", "stopped", "composed" or "built"
  frontiers, \* of the parts that are done: a set of plans each
  frontier,  \* of the part under way, and the search it waits for
  spent,     \* the work of the searches of earlier parts and limits
  claim      \* what build returns

artifactVars == <<call, stage, frontiers, frontier, spent, claim>>
allSearchVars == <<artifactVars, searchVars>>

-----------------------------------------------------------------------------
(* The predicate and its parts *)

Holds(s, S) == \E R \in call.needs[s] : R \subseteq S

Whole == [states |-> DOMAIN call.needs, actions |-> Candidates]

SurvivingIn(part) ==
  {S \in SUBSET part.actions : \E s \in part.states : ~Holds(s, S)}

\* components: states and actions are joined by the states an action counts in.
Unbroken(B) == \A a \in Candidates : call.states[a] \subseteq B \/ call.states[a] \cap B = {}

BlockOf(s) ==
  {t \in Whole.states : \A B \in SUBSET Whole.states : Unbroken(B) /\ s \in B => t \in B}

\* In the order of their first states.
Parts ==
  LET blocks    == {BlockOf(s) : s \in Whole.states}
      before(B) == Cardinality({C \in blocks : Min(C) < Min(B)})
      nth(n)    == CHOOSE B \in blocks : before(B) = n - 1
  IN  [n \in 1 .. Cardinality(blocks) |->
         [states  |-> nth(n),
          actions |-> {a \in Candidates : call.states[a] \subseteq nth(n)}]]

Composes == call.kind = "coverage" /\ Len(Parts) > 1

ProblemOf(part, limit, work) ==
  [candidates |-> part.actions, cost |-> call.cost,
   max |-> Min({limit, Cardinality(part.actions)}), surviving |-> SurvivingIn(part),
   oracleCalls |-> call.oracleCalls - work.calls,
   searchNodes |-> call.searchNodes - work.nodes]

-----------------------------------------------------------------------------
(* coverage_frontier/compose.rs *)

NoWork == [calls |-> 0, nodes |-> 0]

\* The first search of a part has the largest limit; its plan bounds the others.
FreshFrontier == [plans |-> {}, limit |-> NoBound, bound |-> NoBound]

Plan(S) == [selected |-> S, cost |-> Cost(S)]
Size(p) == Cardinality(p.selected)

NotAfter(S, T) == S = T \/ VectorBefore(S, T)

Dominates(p, q) ==
  /\ Size(p) <= Size(q)
  /\ p.cost <= q.cost
  /\ Size(p) < Size(q) \/ p.cost < q.cost \/ NotAfter(p.selected, q.selected)

\* insert_nondominated
Insert(plans, p) ==
  IF \E q \in plans : Dominates(q, p) THEN plans
  ELSE {q \in plans : ~Dominates(p, q)} \cup {p}

\* search_component: nothing is asked without calls or nodes left.
SearchPart(i, limit) ==
  IF spent'.calls = call.oracleCalls \/ spent'.nodes = call.searchNodes
  THEN stage' = "stopped" /\ UNCHANGED searchVars
  ELSE stage' = "parts" /\ BeginSearch(ProblemOf(Parts[i], limit, spent'))

StartBuild ==
  /\ stage = "idle"
  /\ spent' = NoWork
  /\ IF Composes THEN SearchPart(1, call.max)
     ELSE stage' = "whole" /\ BeginSearch(ProblemOf(Whole, call.max, NoWork))
  /\ UNCHANGED <<call, frontiers, frontier, claim>>

\* build_frontier takes a result: accept_maximum the first, accept_frontier_result
\* those of the limits below its number of activations.
Extended ==
  [plans |-> IF result.status = "optimal" THEN Insert(frontier.plans, Plan(result.selected))
             ELSE frontier.plans,
   limit |-> frontier.limit + 1,
   bound |-> IF frontier.bound # NoBound THEN frontier.bound
             ELSE IF result.status = "optimal" THEN Cardinality(result.selected) ELSE 0]

ExtendFrontier ==
  LET complete == Extended.limit >= Extended.bound
      done     == Append(frontiers, Extended.plans)
  IN
  /\ stage = "parts"
  /\ phase = "done"
  /\ spent' = [calls |-> spent.calls + Cardinality(known), nodes |-> spent.nodes + nodes]
  /\ \/ /\ result.status = "incomplete"
        /\ stage' = "stopped"
        /\ UNCHANGED <<frontiers, frontier, searchVars>>
     \/ /\ result.status # "incomplete" /\ ~complete
        /\ frontier' = Extended
        /\ SearchPart(Len(frontiers) + 1, Extended.limit)
        /\ UNCHANGED frontiers
     \/ /\ result.status # "incomplete" /\ complete
        /\ frontiers' = done
        /\ frontier' = FreshFrontier
        /\ IF Len(done) = Len(Parts)
           THEN stage' = "composed" /\ UNCHANGED searchVars
           ELSE SearchPart(Len(done) + 1, call.max)
  /\ UNCHANGED <<call, claim>>

\* Cheaper, or as cheap and earlier.
Better(p, q) == p.cost < q.cost \/ (p.cost = q.cost /\ NotAfter(p.selected, q.selected))

\* Mutant of WithPlan: the parts keep to the limit, their union need not.
WithAnyPlan(partial, plans) ==
  LET joined == {[selected |-> p.selected \cup q.selected, cost |-> p.cost + q.cost] :
                   p \in partial, q \in plans}
  IN  {p \in joined : \A q \in joined : Size(q) = Size(p) => Better(p, q)}

\* One plan per number of activations, the best of its number.
WithPlan(partial, plans) ==
  LET joined == {[selected |-> p.selected \cup q.selected, cost |-> p.cost + q.cost] :
                   p \in partial, q \in plans}
      within == {p \in joined : Size(p) <= call.max}
  IN  {p \in within : \A q \in within : Size(q) = Size(p) => Better(p, q)}

\* The plans of the first parts.
Partial[n \in 0 .. Len(frontiers)] ==
  IF n = 0 THEN {[selected |-> {}, cost |-> 0]} ELSE WithPlan(Partial[n - 1], frontiers[n])

Composed ==
  LET plans == Partial[Len(frontiers)]
  IN  {p \in plans : \A q \in plans : Better(p, q)}

-----------------------------------------------------------------------------
(* Proof trees *)

\* A node that is a leaf; checks is the number of questions that the builder
\* asked for it.
Leaf(kind, checks) == [kind |-> kind, blockers |-> <<>>, order |-> <<>>, checks |-> checks]

Tree(node) == [path \in {<<>>} |-> node]

NoProof == Tree(Leaf("none", 0))

Checks(tree) == MapThenSumSet(LAMBDA path : tree[path].checks, DOMAIN tree)

\* pack_blockers, without a cache.
Packed(surviving, included, available) ==
  LET packed[used \in SUBSET available] ==
        LET keep(kept, c) ==
              IF included \cup kept \cup {c} \in surviving THEN kept \cup {c} ELSE kept
            retained == FoldLeft(keep, used, SetToSortSeq(available \ used, <))
            blocker  == available \ retained
            asked    == 1 + Cardinality(available \ used)
        IN  IF included \cup used \notin surviving THEN [blockers |-> <<>>, checks |-> 1]
            ELSE IF blocker = {} THEN [blockers |-> <<>>, checks |-> asked]
            ELSE LET rest == packed[used \cup blocker]
                 IN  [blockers |-> <<blocker>> \o rest.blockers, checks |-> asked + rest.checks]
  IN  packed[{}]

\* The branch: the smallest blocker, then the cheapest, then the first.
SmallestBlocker(blockers) ==
  blockers[CHOOSE i \in DOMAIN blockers : \A j \in DOMAIN blockers :
             LET a == <<Cardinality(blockers[i]), Cheapest(blockers[i])>>
                 b == <<Cardinality(blockers[j]), Cheapest(blockers[j])>>
             IN  a[1] < b[1] \/ (a[1] = b[1] /\ (a[2] < b[2] \/ (a[2] = b[2] /\ i <= j)))]

\* Mutant of BranchOrder: always that of the costs.
BranchByCost(blocker) == SetToSortSeq(blocker, Cheaper)

\* A coverage branches in the order of the candidates, a synthesis in that of
\* their costs.
BranchOrder(blocker) ==
  IF call.kind = "synthesis" THEN SetToSortSeq(blocker, Cheaper)
  ELSE SetToSortSeq(blocker, <)

\* What is left for the i-th child: not the candidates of those before it.
Left(available, order, i) == available \ ToSet(SubSeq(order, 1, i))

BoundCloses(kind, max, cutoff, included, blockers) ==
  \/ kind = "size bound" /\ Cardinality(included) + Len(blockers) > max
  \/ kind = "cost bound" /\ cutoff # NoBound /\ Cost(included) + BlockerBound(blockers) >= cutoff

\* A node over the trees of its children.
Branched(node, children) ==
  LET below == UNION {{<<i>> \o path : path \in DOMAIN children[i]} : i \in DOMAIN children}
  IN  [path \in {<<>>} \cup below |->
         IF path = <<>> THEN node ELSE children[Head(path)][Tail(path)]]

\* The builder gives up on a selection that the search should have found.
Prove(surviving, max, cutoff) ==
  LET prove[included \in SUBSET Candidates, available \in SUBSET Candidates] ==
        LET packed  == Packed(surviving, included, available)
            closing == {kind \in {"size bound", "cost bound"} :
                          BoundCloses(kind, max, cutoff, included, packed.blockers)}
            order   == BranchOrder(SmallestBlocker(packed.blockers))
            child(done, i) ==
              Append(done, prove[included \cup {order[i]}, Left(available, order, i)])
        IN  IF cutoff # NoBound /\ Cost(included) >= cutoff THEN Tree(Leaf("cost", 0))
            ELSE IF Cardinality(included) = max
            THEN Tree(Leaf(IF included \in surviving THEN "limit" ELSE "failed", 1))
            ELSE IF included \cup available \in surviving THEN Tree(Leaf("maximum", 1))
            ELSE IF packed.blockers = <<>> THEN Tree(Leaf("failed", 1 + packed.checks))
            ELSE IF closing # {}
            THEN Tree([Leaf(IF "size bound" \in closing THEN "size bound" ELSE "cost bound",
                            1 + packed.checks) EXCEPT !.blockers = packed.blockers])
            ELSE Branched([Leaf("branch", 1 + packed.checks) EXCEPT !.order = order],
                          FoldLeft(child, <<>>, [i \in DOMAIN order |-> i]))
  IN  prove[{}, Candidates]

-----------------------------------------------------------------------------
(* Verification *)

\* Mutant of BlockersVerify: the witness leaves out what is included already.
BlockersAlone(surviving, included, available, blockers) ==
  \A i \in DOMAIN blockers :
    /\ blockers[i] # {}
    /\ blockers[i] \subseteq available
    /\ \A j \in 1 .. i - 1 : blockers[j] \cap blockers[i] = {}
    /\ available \ blockers[i] \in surviving

\* verify_blockers: lists of candidates, disjoint, and without one of them
\* nothing suffices.
BlockersVerify(surviving, included, available, blockers) ==
  /\ blockers \in Seq(SUBSET Candidates)
  /\ \A i \in DOMAIN blockers :
       /\ blockers[i] # {}
       /\ blockers[i] \subseteq available
       /\ \A j \in 1 .. i - 1 : blockers[j] \cap blockers[i] = {}
       /\ included \cup (available \ blockers[i]) \in surviving

\* The candidates of a blocker are written in ascending order.
Canonical(order) ==
  /\ order \in Seq(Candidates)
  /\ \A i \in 1 .. Len(order) - 1 : order[i] < order[i + 1]

\* What verify_node is called with on the way down: what is included at a path,
\* one candidate of each branch above it, and what is left out.
Above(path, k)    == SubSeq(path, 1, k - 1)
Taken(tree, path) == {tree[Above(path, k)].order[path[k]] : k \in DOMAIN path}
Open(tree, path)  ==
  Candidates \ UNION {ToSet(SubSeq(tree[Above(path, k)].order, 1, path[k])) : k \in DOMAIN path}

NodeVerifies(tree, path, surviving, max, cutoff) ==
  LET node      == tree[path]
      included  == Taken(tree, path)
      available == Open(tree, path)
  IN
  \/ /\ node.kind = "cost"
     /\ cutoff # NoBound /\ Cost(included) >= cutoff
  \/ /\ node.kind = "maximum"
     /\ included \cup available \in surviving
  \/ /\ node.kind = "limit"
     /\ Cardinality(included) = max /\ included \in surviving
  \/ /\ node.kind \in {"size bound", "cost bound"}
     /\ BlockersVerify(surviving, included, available, node.blockers)
     /\ BoundCloses(node.kind, max, cutoff, included, node.blockers)
  \/ /\ node.kind = "branch"
     /\ Canonical(node.order)
     /\ BlockersVerify(surviving, included, available, <<ToSet(node.order)>>)
     /\ \A i \in DOMAIN node.order : Append(path, i) \in DOMAIN tree
     /\ Append(path, Len(node.order) + 1) \notin DOMAIN tree

TreeVerifies(tree, surviving, max, cutoff) ==
  /\ <<>> \in DOMAIN tree
  /\ \A path \in DOMAIN tree : NodeVerifies(tree, path, surviving, max, cutoff)

\* The checker of a coverage also recomputes the lower bound of a stopped search.
StatusVerifies(c, surviving, max, checker) ==
  LET feasible == c.selected \notin surviving IN
  \/ /\ c.status = "optimal"
     /\ feasible
     /\ c.lower = Cost(c.selected) /\ c.upper = Cost(c.selected)
     /\ TreeVerifies(c.proof, surviving, max, c.upper)
  \/ /\ c.status = "infeasible"
     /\ ~feasible
     /\ c.selected = {} /\ c.lower = NoBound /\ c.upper = NoBound
     /\ TreeVerifies(c.proof, surviving, max, NoBound)
  \/ /\ c.status = "incomplete"
     /\ c.proof = NoProof
     /\ (c.upper # NoBound) <=> feasible
     /\ c.upper # NoBound => c.upper = Cost(c.selected) /\ c.lower <= c.upper
     /\ checker /\ call.kind = "coverage" => c.lower = BlockerBound(c.blockers)

Verifies(c, surviving, max, checker) ==
  /\ c.selected \subseteq Candidates /\ Cardinality(c.selected) <= max
  /\ c.work.calls <= call.oracleCalls /\ c.work.nodes <= call.searchNodes
  /\ BlockersVerify(surviving, {}, Candidates, c.blockers)
  /\ c.lower # NoBound => c.lower >= BlockerBound(c.blockers)
  /\ StatusVerifies(c, surviving, max, checker)

-----------------------------------------------------------------------------
(* build *)

\* What the search returns, whole, stopped or composed.
Found ==
  IF stage = "whole"
  THEN [status |-> result.status, selected |-> result.selected,
        lower |-> result.lower, upper |-> result.upper, blockers |-> root.blockers,
        work |-> [calls |-> Cardinality(known), nodes |-> nodes]]
  ELSE [status |-> IF stage = "stopped" THEN "incomplete"
                   ELSE IF Composed = {} THEN "infeasible" ELSE "optimal",
        selected |-> IF stage = "stopped" THEN {} ELSE UNION {p.selected : p \in Composed},
        lower |-> IF stage = "stopped" THEN 0
                  ELSE IF Composed = {} THEN NoBound ELSE Min({p.cost : p \in Composed}),
        upper |-> IF stage = "stopped" \/ Composed = {} THEN NoBound
                  ELSE Min({p.cost : p \in Composed}),
        blockers |-> <<>>, work |-> spent]

\* What the search returns, with its proof.
Proved(found) ==
  LET cutoff == IF found.status = "optimal" THEN found.upper ELSE NoBound
      proof  == IF found.status = "incomplete" THEN NoProof
                ELSE Prove(SurvivingIn(Whole), call.max, cutoff)
  IN  [status |-> found.status, selected |-> found.selected, lower |-> found.lower,
       upper |-> found.upper, blockers |-> found.blockers, work |-> found.work,
       proof |-> proof, built |-> FALSE]

\* The claim is returned when its proof stays within the questions allowed and
\* the artifact verifies.
Build ==
  /\ stage \in {"stopped", "composed"} \/ (stage = "whole" /\ phase = "done")
  /\ \E found \in {Found} : \E made \in {Proved(found)} :
       claim' = [made EXCEPT !.built =
                   /\ Checks(made.proof) <= call.oracleCalls
                   /\ Verifies(made, SurvivingIn(Whole), call.max, FALSE)]
  /\ stage' = "built"
  /\ UNCHANGED <<call, frontiers, frontier, spent, searchVars>>

NoClaim == <<>>

Waiting ==
  /\ stage = "idle"
  /\ frontiers = <<>>
  /\ frontier = FreshFrontier
  /\ spent = NoWork
  /\ claim = NoClaim
  /\ SearchInit

ArtifactInit == call \in Calls /\ Waiting

ArtifactNext ==
  \/ StartBuild \/ ExtendFrontier \/ Build
  \/ SearchNext /\ UNCHANGED artifactVars

ArtifactSpec == ArtifactInit /\ [][ArtifactNext]_allSearchVars

-----------------------------------------------------------------------------
\* The plans that meet every criterion, with at most max actions.
PlansWithin(part, max) ==
  {S \in SUBSET part.actions : S \notin SurvivingIn(part) /\ Cardinality(S) <= max}

LeastCost(plans) == IF plans = {} THEN NoBound ELSE Min({Cost(S) : S \in plans})

(* The frontier of a part that is done has for every number of activations  *)
(* the least cost of a plan with at most so many, and holds no plan that    *)
(* another makes needless; and their composition is a cheapest plan of the  *)
(* whole (coverage_frontier/compose.rs).                                    *)
CompositionHolds ==
  /\ \A i \in DOMAIN frontiers :
       /\ \A p \in frontiers[i] : \A q \in frontiers[i] \ {p} : ~Dominates(p, q)
       /\ \A k \in 0 .. Min({call.max, Cardinality(Parts[i].actions)}) :
            LeastCost(PlansWithin(Parts[i], k)) =
            LeastCost({p.selected : p \in {q \in frontiers[i] : Size(q) <= k}})
  /\ stage = "composed" =>
       LeastCost({p.selected : p \in Composed}) = LeastCost(PlansWithin(Whole, call.max))

(* A search that ended makes an artifact, unless its proof takes more       *)
(* questions than the search was allowed: the selection, the tree and the   *)
(* bounds verify, and the checker accepts them (monotone_proof/builder.rs   *)
(* against coverage/verify.rs of the checker).  A composed search that may  *)
(* not even ask once for every part stops although the empty plan may do.   *)
ArtifactAccepted ==
  stage = "built" /\ call.kind = "coverage" =>
    /\ \/ claim.built
       \/ Checks(claim.proof) > call.oracleCalls
       \/ Composes /\ call.oracleCalls < Len(Parts) /\ PlansWithin(Whole, 0) # {}
    /\ claim.built => Verifies(claim, SurvivingIn(Whole), call.max, TRUE)

\* Other predicates and limits that are near to those of the call.
Near ==
  LET exact    == SurvivingIn(Whole)
      rejected == (SUBSET Candidates) \ exact
      more == {exact \cup {S} : S \in {R \in rejected : \A c \in R : R \ {c} \in exact}}
      less == {exact \ {S} : S \in {R \in exact : \A c \in Candidates \ R : R \cup {c} \notin exact}}
  IN  [surviving : more \cup less \cup {exact},
       max : {call.max - 1, call.max, call.max + 1} \cap (0 .. Cardinality(Candidates))]

\* A claim with another selection, status or bound, for the same proof.
Altered ==
  {claim} \cup {[claim EXCEPT !.selected = S, !.lower = Cost(S), !.upper = Cost(S)] :
                  S \in SUBSET Candidates}
    \cup {[claim EXCEPT !.status = "infeasible", !.selected = {}, !.lower = NoBound,
                        !.upper = NoBound]}
    \cup {[claim EXCEPT !.status = "incomplete", !.lower = @ + 1, !.proof = NoProof]}

\* What a claim says of a predicate and a limit.  A synthesis does not prove the
\* lower bound of a stopped search.
ClaimTrue(c, surviving, max) ==
  LET plans == {S \in (SUBSET Candidates) \ surviving : Cardinality(S) <= max}
  IN  /\ c.status = "optimal" => c.selected \in plans /\ c.upper = LeastCost(plans)
      /\ c.status = "infeasible" => plans = {}
      /\ c.status = "incomplete" /\ call.kind = "coverage" => \A S \in plans : c.lower <= Cost(S)
      /\ c.status = "incomplete" /\ c.upper # NoBound =>
           c.selected \in plans /\ Cost(c.selected) = c.upper

(* What the checker accepts is true, also of claims for other calls and of  *)
(* altered ones: an optimal plan meets the criterion at the least cost, an  *)
(* infeasible call has no plan, and the bounds of a stopped search enclose  *)
(* the least cost (verify.rs, proof.rs of the checker).                     *)
ClaimsSound ==
  stage = "built" =>
    \A near \in Near : \A c \in Altered :
      Verifies(c, near.surviving, near.max, TRUE) => ClaimTrue(c, near.surviving, near.max)

(* A problem that is solved within its limits yields an artifact            *)
(* (synthesis/artifact.rs:12, "Solve a minimum-cost action problem and      *)
(* build its proof tree.").                                                 *)
SolvedIsBuilt ==
  stage = "built" /\ claim.status # "incomplete" =>
    claim.built \/ Checks(claim.proof) > call.oracleCalls
=============================================================================
