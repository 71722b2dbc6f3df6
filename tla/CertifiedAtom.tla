--------------------------- MODULE CertifiedAtom ---------------------------
(***************************************************************************)
(* One atom of a persistence program through a sequence of new weights     *)
(* (holos-tda/src/program/update/atom.rs and program/composition.rs), and  *)
(* the independent replay of the same sequence by the checker              *)
(* (holos-tda-check/src/program/trace.rs, trace_region.rs).                *)
(*                                                                         *)
(* The producer keeps its region across reuses and merges the class spaces *)
(* whose intervals have become equal.  The checker reindexes the reduction *)
(* and builds the region anew at every step, and keeps the spaces apart.   *)
(* A space is known by its set of critical pairs.                          *)
(***************************************************************************)
EXTENDS ReductionCertificate

CONSTANT Weightings       \* the weights the listed edges may take

ASSUME WeightingsAssumption ==
  \A w \in Weightings :
    /\ IsFiniteSet(DOMAIN w)
    /\ w \in [DOMAIN w -> Nat]
    /\ \A e \in DOMAIN w : e \in Nat \X Nat /\ e[1] < e[2]

VARIABLES
  weights,    \* of the current graph
  cert,       \* the reduction of the atom's artifact
  region,     \* where it may be reused
  spaces,     \* the producer's class spaces
  checked,    \* the checker's reduction and class spaces
  step        \* how the producer took the last step, and whether the checker,
              \* which returns at the first step it refuses, accepts so far

atomVars == <<weights, cert, region, spaces, checked, step>>

-----------------------------------------------------------------------------
(* Class spaces *)

Group(w, pairs) ==
  {{p \in pairs : Interval(w, p) = b} : b \in {Interval(w, p) : p \in pairs}}

\* The class spaces of a reduction: the critical pairs by interval.
SpacesOf(w, c) == Group(w, Critical(w, Pairs(w, c)))

\* reweight_explained, reweight_atom: every recorded pair is still critical,
\* no other is, and no space has two intervals.
SpacesHold(w, pairs, S) ==
  /\ Critical(w, pairs) = UNION S
  /\ \A space \in S : \A p, q \in space : Interval(w, p) = Interval(w, q)

\* merge_spaces: one space for every interval.
Merge(w, S) ==
  {UNION {space \in S : \E p \in space : Interval(w, p) = b}
     : b \in {Interval(w, p) : p \in UNION S}}

\* validate_h1_cocycle: with no triangle every cochain is a cocycle, with
\* triangles the bases may have stopped being cocycles.
CocyclesMayFail(w) == IF Triangles(w) = {} THEN {FALSE} ELSE BOOLEAN

-----------------------------------------------------------------------------

CompiledAtom(w) ==
  /\ weights = w
  /\ cert = Build(weights)
  /\ ReductionsCheck(weights, cert)
  /\ region = CompileRegion(weights, cert)
  /\ spaces = SpacesOf(weights, cert)
  /\ checked = [cert |-> cert, spaces |-> spaces]
  /\ step = [mode |-> "compiled", accepted |-> TRUE]

AtomInit == \E w \in Weightings : CompiledAtom(w)

\* Mutant of ReusableAtom: a critical pair may appear, vanish or leave its space.
ReusableAtomByGuards(w) == Accepts(region, w)

\* What the producer tests before it reuses the atom.
ReusableAtom(w) == Accepts(region, w) /\ SpacesHold(w, region.pairs, spaces)

\* The checker's own region, built at every step; what it tests before it
\* reuses the atom; the repair whose work it counts.
CheckerRegion == CompileRegion(weights, checked.cert)

CheckerReuses(w) ==
  LET own == CheckerRegion
  IN  /\ Accepts(own, w)
      /\ SpacesHold(w, own.pairs, checked.spaces)
      /\ ReductionsCheck(w, checked.cert)

CheckerWork(w) == RepairCertificate(w, checked.cert).work

\* The guards checked are part of the work of every step.
SameGuardCount == Cardinality(region.guards) = Cardinality(CheckerRegion.guards)

\* install_reused_atom: the step carries no checkpoint; the checker must be
\* able to reuse its own state.
Reuse(w) ==
  /\ ReusableAtom(w)
  /\ ReductionsCheck(w, cert)
  /\ spaces' = Merge(w, spaces)
  /\ weights' = w
  /\ step' = [mode |-> "reused",
              accepted |-> step.accepted /\ SameGuardCount /\ CheckerReuses(w)]
  /\ UNCHANGED <<cert, region, checked>>

\* Mutant of RepairedAtom: the region of the old reduction is kept.
RepairedAtomOldRegion(w, c) ==
  /\ ReductionsCheck(w, c)
  /\ weights' = w
  /\ cert' = c
  /\ spaces' = SpacesOf(w, c)
  /\ region' = region
  /\ checked' = [cert |-> c, spaces |-> spaces']

\* A new reduction that checks, its region and class spaces, and a checkpoint
\* of them.
RepairedAtom(w, c) ==
  /\ ReductionsCheck(w, c)
  /\ weights' = w
  /\ cert' = c
  /\ region' = CompileRegion(w, c)
  /\ spaces' = SpacesOf(w, c)
  /\ checked' = [cert |-> c, spaces |-> spaces']

\* check_program_topology.
SameTopology(w) == DOMAIN w = DOMAIN weights /\ ActiveEdges(w) = ActiveEdges(weights)

\* repair_atom_state: the checker must need a checkpoint as well, and must
\* count the same retained and reduced columns.
RepairAtom(w, fails) ==
  /\ SameTopology(w)
  /\ ~ReusableAtom(w) \/ fails
  /\ \E repair \in {RepairCertificate(w, cert)} :
       /\ RepairedAtom(w, repair.cert)
       /\ step' = [mode |-> "repaired",
                   accepted |-> /\ step.accepted
                                /\ SameGuardCount
                                /\ ~CheckerReuses(w) \/ fails
                                /\ CheckerWork(w) = repair.work]

\* recompile_update: other edges are listed, or an edge crosses the threshold.
RecompileAtom(w) ==
  /\ ~SameTopology(w)
  /\ \E built \in {Build(w)} : RepairedAtom(w, built)
  /\ step' = [mode |-> "recompiled", accepted |-> step.accepted]

UpdateAtom(w) ==
  \/ Reuse(w)
  \/ \E fails \in CocyclesMayFail(w) : RepairAtom(w, fails)
  \/ RecompileAtom(w)

AtomNext == \E w \in Weightings : UpdateAtom(w)

AtomSpec == AtomInit /\ [][AtomNext]_atomVars

-----------------------------------------------------------------------------
(* Properties *)

\* The reduction the atom keeps, built, reindexed or repaired any number of
\* times, gives exactly the diagram that reducing from nothing gives, at the
\* current weights and at all that its region accepts; and whatever weights come
\* next, the repair ends with a reduction that checks.
DiagramExact ==
  /\ \A w \in {weights} \cup {w \in Weightings : Accepts(region, w)} :
       \A built \in {Build(w)} : CertifiedDiagram(w, cert) = CertifiedDiagram(w, built)
  /\ Evaluate(region, weights) = CertifiedDiagram(weights, cert)
  /\ \A w \in Weightings :
       SameTopology(w) =>
         \A repair \in {RepairCertificate(w, cert)} : ReductionsCheck(w, repair.cert)

\* Whatever weights the region accepts, the reduction reindexes to them
\* legally (so that a reuse never fails half way), and the diagram that the
\* region evaluates without reducing is the one of the reduction.
AcceptedReindexes ==
  \A w \in Weightings :
    Accepts(region, w) =>
      /\ ReductionsCheck(w, cert)
      /\ Evaluate(region, w) = CertifiedDiagram(w, cert)

\* The region kept since the last repair is the one the reduction has at the
\* current weights: loading an artifact compiles it anew, and must not change
\* which updates are reused.
RegionStable == region = CompileRegion(weights, cert)

\* While the producer's spaces are the checker's, the checker takes every step
\* of the producer: it reuses what was reused, without a checkpoint, and finds
\* the same repair.
SpacesAgree == spaces = checked.spaces
CheckerFollows == [][step.accepted /\ SpacesAgree => step'.accepted]_atomVars

\* program_trace.rs:3: the trace stores "a new program checkpoint only when
\* certified reuse is not possible", so the checker, which refuses any other
\* checkpoint, accepts every trace of the producer.
CheckerAccepts == step.accepted
=============================================================================
