--------------------------- MODULE MCReductionEngine ---------------------------
(****************************************************************************)
(* Small problems for ReductionEngine.                                      *)
(****************************************************************************)
EXTENDS ReductionEngine, TLC

\* A problem from the coboundaries of the columns and of the apparent facets
\* (row -> chain), with every nonzero column eligible for the shortcut.
MakeProblem(columns, facets) ==
  [cob |-> [s \in Simplices |->
              CASE s \in Cols -> columns[s]
                [] -s \in DOMAIN facets -> facets[-s]
                [] OTHER -> {}],
   apparent |-> DOMAIN facets,
   emergent |-> {c \in Cols : columns[c] # {}}]

NoShortcut(p) == [p EXCEPT !.emergent = {}]

\* Every matrix, with and without the emergent shortcut.
AllMatrices == { MakeProblem(f, EmptyTable) : f \in [Cols -> Chain] }

\* Every matrix whose columns all meet the rows of two apparent facets.
ApparentMatrices ==
  { MakeProblem(f, [r \in {1, 2} |-> IF r = 1 THEN {1, 3} ELSE {2, 3}]) :
      f \in [Cols -> { chain \in Chain : chain \cap {1, 2} # {} }] }

MatrixProblems == AllMatrices \cup ApparentMatrices

FacetChoices ==
  UNION { { g \in [rows -> Chain] : \A r \in rows : LeadOf(g[r]) = r }
          : rows \in SUBSET Rows }

SerialProblems == { MakeProblem(f, g) : f \in [Cols -> Chain], g \in FacetChoices }

\* Every matrix with every choice of apparent facets for the serial reducer.
EngineProblems == SerialProblems \cup MatrixProblems

\* Columns that all start with row 1: every pass meets or displaces another.
Contended ==
  LET rising  == MakeProblem([c \in Cols |-> {1} \cup 2 .. c + 1], EmptyTable)
      falling == MakeProblem([c \in Cols |-> {1} \cup 2 .. NumCols - c], EmptyTable)
      equal   == MakeProblem([c \in Cols |-> {1}], EmptyTable)
  IN  {rising, falling, equal}

\* Contended matrices and one with an apparent facet in the way.
ContendedApparent ==
  Contended \cup
    { MakeProblem([c \in Cols |-> {1} \cup 2 .. c + 1], [r \in {2} |-> {2, 3}]) }

Symmetry == Permutations(Workers)
=============================================================================
