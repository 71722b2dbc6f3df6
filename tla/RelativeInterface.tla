-------------------------- MODULE RelativeInterface --------------------------
(***************************************************************************)
(* The core of a filtered chain complex relative to protected vertices     *)
(* (holos-tda/src/relative_interface, replayed by                          *)
(* holos-tda-check/src/relative).  Pairs of unprotected cells of equal     *)
(* value are cancelled until none is left; the cores of the parts of a     *)
(* graph are glued along the protected cells they share.                   *)
(***************************************************************************)
EXTENDS ChainComplex

\* is_protected
IsProtected(P, s) == P # {} /\ s \subseteq P

\* next_cancellation: the faces a cell can be cancelled with.
CancellableFaces(K, P, u) ==
  {l \in DOMAIN K[u].boundary : K[l].value = K[u].value /\ ~IsProtected(P, l)}

CancellableCells(K, P) ==
  {u \in PositiveCells(K) : ~IsProtected(P, u) /\ CancellableFaces(K, P, u) # {}}

\* Of the least dimension, the first cell of the order, then its first face.
NextCancellation(K, P) ==
  LET cells == CancellableCells(K, P)
      before(s, t) == \/ Dimension(s) < Dimension(t)
                      \/ Dimension(s) = Dimension(t) /\ CellBefore(K, s, t)
      u == CHOOSE u \in cells : \A w \in cells \ {u} : before(u, w)
      faces == CancellableFaces(K, P, u)
      l == CHOOSE l \in faces : \A m \in faces \ {l} : ListedBefore(l, m)
  IN  [upper |-> u, lower |-> l, coefficient |-> K[u].boundary[l]]

\* prepare_cancellation: what a replayed step is checked for.
CanCancel(K, P, step) ==
  /\ {step.upper, step.lower} \subseteq DOMAIN K
  /\ Dimension(step.lower) = Dimension(step.upper) - 1
  /\ ~IsProtected(P, step.upper)
  /\ ~IsProtected(P, step.lower)
  /\ K[step.upper].value = K[step.lower].value
  /\ step.lower \in DOMAIN K[step.upper].boundary
  /\ K[step.upper].boundary[step.lower] = step.coefficient

\* apply_cancellation: the lower cell is eliminated from every boundary by the
\* boundary of the upper cell, which its own cofaces lose.
Cancelled(K, step) ==
  LET pivot == K[step.upper].boundary
      eliminated(b) == AddScaled(b, pivot, Factor(b[step.lower], step.coefficient))
      boundary(s) == LET b == K[s].boundary
                     IN  IF step.lower \in DOMAIN b THEN eliminated(b)
                         ELSE Restrict(b, DOMAIN b \ {step.upper})
  IN  [s \in DOMAIN K \ {step.upper, step.lower} |->
         [value |-> K[s].value, boundary |-> boundary(s)]]

\* cancel_relative
RECURSIVE Core(_, _, _)
Core(K, P, steps) ==
  IF CancellableCells(K, P) = {} THEN [cells |-> K, steps |-> steps]
  ELSE LET step == NextCancellation(K, P)
       IN  Core(Cancelled(K, step), P, Append(steps, step))

\* replay_cancellations
RECURSIVE ReplayedCore(_, _, _)
ReplayedCore(K, P, steps) ==
  IF steps = <<>> THEN K
  ELSE IF ~CanCancel(K, P, Head(steps)) THEN NoComplex
  ELSE ReplayedCore(Cancelled(K, Head(steps)), P, Tail(steps))

\* check_protected_cells
FixesProtected(source, core, P) ==
  \A s \in {s \in DOMAIN source : IsProtected(P, s)} :
    s \in DOMAIN core /\ core[s] = source[s]

\* What is checked of a core and its reduction.
IsCore(K, P, core, rank, columns) ==
  /\ IsChainComplex(K)
  /\ IsChainComplex(core)
  /\ FixesProtected(K, core, P)
  /\ IsReduction(core, rank, columns)

\* from_cells, after the cancellations.
RelativeTo(K, P, core, steps) ==
  LET rank    == Rank(core)
      columns == Reduction(core, rank, <<>>)
  IN  IF ~IsCore(K, P, core, rank, columns) THEN Refused
      ELSE [kind |-> "relative", protected |-> P, source |-> K, steps |-> steps,
            core |-> core, columns |-> columns, diagram |-> BarsOf(core, rank, columns)]

Relative(K, P) ==
  LET result == Core(K, P, <<>>) IN RelativeTo(K, P, result.cells, result.steps)

\* merge_child_cells: cells that are identified must be equal.
Merged(cores) ==
  IF \E K, L \in cores : \E s \in DOMAIN K \cap DOMAIN L : K[s] # L[s] THEN NoComplex
  ELSE [s \in UNION {DOMAIN K : K \in cores} |-> (CHOOSE K \in cores : s \in DOMAIN K)[s]]

\* verify_certificate: everything a reader of a relative interface can check.
IsRelative(r) ==
  LET rank == Rank(r.core) IN
  /\ IsCore(r.source, r.protected, r.core, rank, r.columns)
  /\ r.protected \subseteq UNION {s \in DOMAIN r.source : Dimension(s) = 0}
  /\ ReplayedCore(r.source, r.protected, r.steps) = r.core
  /\ BarsOf(r.core, rank, r.columns) = r.diagram
=============================================================================
