----------------------------- MODULE PivotRegistry -----------------------------
(****************************************************************************)
(* What a reduction of one dimension promises, whatever its threads do: a   *)
(* registry in which a column owns at most one pivot, a pivot passes only   *)
(* to a smaller column and is never given up, and which is closed exactly   *)
(* when it holds the pairs of the serial reduction ("The table converges to *)
(* the unique reduced pivot set", parallel.rs).                             *)
(****************************************************************************)
EXTENDS ReductionProblem

VARIABLES
  problem,   \* the input of the dimension
  owner,     \* the partial function row -> column
  open       \* columns may still change hands

registryVars == <<problem, owner, open>>

RegistryInit ==
  /\ problem \in Problem
  /\ owner = EmptyTable
  /\ open = TRUE

\* A column that owns nothing takes a free pivot, or one of a larger column.
Take(r, c) ==
  /\ open
  /\ \A s \in DOMAIN owner : owner[s] # c
  /\ r \in DOMAIN owner => c < owner[r]
  /\ owner' = Installed(owner, r, c)
  /\ UNCHANGED <<problem, open>>

Close ==
  /\ open
  /\ owner = OwnerOf(SerialPivots(problem))
  /\ open' = FALSE
  /\ UNCHANGED <<problem, owner>>

RegistryNext == (\E r \in Rows, c \in Cols : Take(r, c)) \/ Close

RegistrySpec == RegistryInit /\ [][RegistryNext]_registryVars
=============================================================================
