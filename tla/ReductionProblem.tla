---------------------------- MODULE ReductionProblem ----------------------------
(****************************************************************************)
(* The input of one reduction of coboundary columns and the arithmetic on   *)
(* chains (crates/holos-tda/src/reduce/).  Chains are over Z/2: a set of    *)
(* rows, added by symmetric difference.  Rows are numbered in pivot order,  *)
(* so a pivot is a minimum; columns are numbered in reduction order.  An    *)
(* apparent facet of row r is written -r: a simplex that is not among the   *)
(* columns and whose own coboundary has pivot r.                            *)
(****************************************************************************)
EXTENDS Integers, FiniteSets, FiniteSetsExt

CONSTANTS
  NumCols,     \* columns.len()
  NumRows      \* the number of cofacets of the dimension

ASSUME SizeAssumption == NumCols \in Nat \ {0} /\ NumRows \in Nat

Cols      == 0 .. NumCols - 1
Rows      == 1 .. NumRows
Facets    == { -r : r \in Rows }
Simplices == Cols \cup Facets
Chain     == SUBSET Rows
NoPivot   == 0

\* The entry on top of the heap of a chain that is not zero.
Pivot(chain) == CHOOSE r \in chain : \A s \in chain : r <= s

\* get_pivot
LeadOf(chain) == IF chain = {} THEN NoPivot ELSE Pivot(chain)

\* What the reducers read of a filtration:
\*   cob       the coboundary of every column and of every apparent facet;
\*   apparent  the rows that zero_apparent pairs with a facet;
\*   emergent  the columns whose first cofacet has the column's own diameter.
Problem ==
  { p \in [cob : [Simplices -> Chain], apparent : SUBSET Rows, emergent : SUBSET Cols] :
      /\ \A r \in p.apparent : LeadOf(p.cob[-r]) = r
      /\ \A c \in p.emergent : p.cob[c] # {} }

\* The sum of the coboundaries of a set of simplices: add_simplex_coboundary
\* for each of them, cancelled.
Boundary(p, simplices) ==
  { r \in Rows : Cardinality({ s \in simplices : r \in p.cob[s] }) % 2 = 1 }

\* A reducer: an owner's column with its V-column, the leading term implicit.
Reducer(owner) == SymDiff({owner.col}, owner.v)

\* Mutant of Shortcut: a pivot that an apparent facet has is not left to it.
ShortcutStolen(p, c, owned) ==
  c \in p.emergent /\ Pivot(p.cob[c]) \notin owned

\* The emergent shortcut of init_coboundary: the column's first cofacet is
\* its pivot, unowned, and no apparent facet has it.
Shortcut(p, c, owned) ==
  /\ c \in p.emergent
  /\ Pivot(p.cob[c]) \notin owned
  /\ Pivot(p.cob[c]) \notin p.apparent

\* An owner installed in a pivot table, a partial function from rows.
Installed(table, r, owner) ==
  [s \in DOMAIN table \cup {r} |-> IF s = r THEN owner ELSE table[s]]

EmptyTable == [r \in {} |-> {}]

-----------------------------------------------------------------------------
(* The serial reducer as a function of its input (reduce/reduction.rs,      *)
(* reduce_dimension_impl and reduce_serial_column).                         *)

\* A column in reduction: working_cob and working_red.
Passes == [work : Chain, red : SUBSET Simplices]

Folded(now, chain, simplices) ==
  [work |-> SymDiff(now.work, chain), red |-> SymDiff(now.red, simplices)]

\* Mutant of ReduceSerialColumn: stops at a pivot that an apparent facet has.
ReduceUntilUnowned(p, pivots, c) ==
  LET pass[now \in Passes] ==
        LET r == LeadOf(now.work) IN
        IF r \in DOMAIN pivots
        THEN LET reducer == Reducer(pivots[r])
             IN  pass[Folded(now, Boundary(p, reducer), reducer)]
        ELSE [pivot |-> r, v |-> now.red]
  IN  pass[[work |-> p.cob[c], red |-> {}]]

\* One column against the pivots of the smaller columns: fold the owner of
\* the pivot, or else its apparent facet, until the pivot is genuine or the
\* column is zero.  The value is the last pivot and the simplices folded in.
ReduceSerialColumn(p, pivots, c) ==
  LET pass[now \in Passes] ==
        LET r == LeadOf(now.work) IN
        IF r \in DOMAIN pivots
        THEN LET reducer == Reducer(pivots[r])
             IN  pass[Folded(now, Boundary(p, reducer), reducer)]
        ELSE IF r \in p.apparent
        THEN pass[Folded(now, p.cob[-r], {-r})]
        ELSE [pivot |-> r, v |-> now.red]
  IN  IF Shortcut(p, c, DOMAIN pivots)
      THEN [pivot |-> Pivot(p.cob[c]), v |-> {}]
      ELSE pass[[work |-> p.cob[c], red |-> {}]]

\* The pivot registry after all columns, taken in order.
SerialPivots(p) ==
  LET after[n \in 0 .. NumCols] ==
        IF n = 0 THEN EmptyTable
        ELSE LET c    == n - 1
                 last == ReduceSerialColumn(p, after[n - 1], c)
             IN  IF last.pivot = NoPivot THEN after[n - 1]
                 ELSE Installed(after[n - 1], last.pivot, [col |-> c, v |-> last.v])
  IN  after[NumCols]

\* The pairs of a pivot table: row -> column.
OwnerOf(table) == [r \in DOMAIN table |-> table[r].col]
=============================================================================
