--------------------------- MODULE ParallelReduction ---------------------------
(****************************************************************************)
(* Concurrent reduction of the coboundary columns of one dimension          *)
(* (crates/holos-tda/src/parallel.rs with reduce/coboundary.rs and          *)
(* reduce/reduction.rs).  Worker threads take columns from a shared queue,  *)
(* reduce each against a shared table pivot -> owner, and install it under  *)
(* column-order priority: the smaller column wins a pivot and sends the     *)
(* larger owner back to the queue.                                          *)
(*                                                                          *)
(* A worker is a thread with a program counter; every step is one access to *)
(* shared memory (an atomic, a mutex section, a table lookup or a table     *)
(* entry) with the thread-local work that follows it.                       *)
(****************************************************************************)
EXTENDS ReductionProblem, Sequences

CONSTANTS
  Workers,     \* the threads of the pool the budget admits
  Problems     \* the read-only inputs (Ctx) to start from

ASSUME WorkersAssumption == IsFiniteSet(Workers) /\ Workers # {}
ASSUME ProblemAssumption == Problems \subseteq Problem

VARIABLES
  ctx,           \* the problem, read-only
  table,         \* the pivot table: a partial function, row -> owner
  next,          \* WorkQueue.next, the next undispensed column
  pending,       \* WorkQueue.pending
  hasRequeued,   \* WorkQueue.has_requeued
  requeued,      \* WorkQueue.requeued, a stack
  pc,            \* where each worker is
  done,          \* finished columns a worker has not reported yet
  col,           \* the column a worker reduces
  work,          \* working_cob
  red,           \* working_red
  pivot,         \* the pivot of the pass, NoPivot when reduced to zero
  back           \* the column a worker is about to requeue

queueVars == <<next, pending, hasRequeued, requeued>>
passVars  == <<col, work, red, pivot>>
vars      == <<ctx, table, queueVars, pc, done, passVars, back>>

-----------------------------------------------------------------------------
\* The emergent shortcut left the working column unbuilt: a pivot beside an
\* empty working column.
Built(w) == ~(pivot[w] # NoPivot /\ work[w] = {})

Goto(w, label) == pc' = [pc EXCEPT ![w] = label]

Init ==
  /\ ctx \in Problems
  /\ table = EmptyTable
  /\ next = 0
  /\ pending = NumCols
  /\ hasRequeued = FALSE
  /\ requeued = <<>>
  /\ pc = [w \in Workers |-> "take"]
  /\ done = [w \in Workers |-> 0]
  /\ col = [w \in Workers |-> 0]
  /\ work = [w \in Workers |-> {}]
  /\ red = [w \in Workers |-> {}]
  /\ pivot = [w \in Workers |-> NoPivot]
  /\ back = [w \in Workers |-> 0]

-----------------------------------------------------------------------------
(* WorkQueue::take *)

\* The load of has_requeued that gates the mutex.
ReadFlag(w) ==
  /\ pc[w] = "take"
  /\ Goto(w, IF hasRequeued THEN "pop" ELSE "dispense")
  /\ UNCHANGED <<ctx, table, queueVars, done, passVars, back>>

\* Mutant of PopRequeued: looks at the top of the stack and leaves it there.
PopPeeks(w) ==
  /\ pc[w] = "pop"
  /\ IF requeued = <<>>
     THEN Goto(w, "dispense") /\ UNCHANGED col
     ELSE /\ col' = [col EXCEPT ![w] = requeued[Len(requeued)]]
          /\ Goto(w, "init")
  /\ UNCHANGED <<ctx, table, queueVars, done, work, red, pivot, back>>

\* pop_requeued: another worker may have emptied the stack since the load.
PopRequeued(w) ==
  /\ pc[w] = "pop"
  /\ IF requeued = <<>>
     THEN /\ hasRequeued' = FALSE
          /\ Goto(w, "dispense")
          /\ UNCHANGED <<requeued, col>>
     ELSE LET top == Len(requeued)
          IN  /\ col' = [col EXCEPT ![w] = requeued[top]]
              /\ requeued' = SubSeq(requeued, 1, top - 1)
              /\ hasRequeued' = (IF top = 1 THEN FALSE ELSE hasRequeued)
              /\ Goto(w, "init")
  /\ UNCHANGED <<ctx, table, next, pending, done, work, red, pivot, back>>

\* The fetch_update that dispenses 0..len and saturates there.
Dispense(w) ==
  /\ pc[w] = "dispense"
  /\ IF next < NumCols
     THEN /\ col' = [col EXCEPT ![w] = next]
          /\ next' = next + 1
          /\ Goto(w, "init")
     ELSE /\ Goto(w, "report")
          /\ UNCHANGED <<col, next>>
  /\ UNCHANGED <<ctx, table, pending, hasRequeued, requeued, done, work, red,
                 pivot, back>>

-----------------------------------------------------------------------------
(* The dry-queue branch of worker *)

\* Mutant of Report: the private count is reported and kept.
ReportKeepsCount(w) ==
  /\ pc[w] = "report"
  /\ pending' = pending - done[w]
  /\ Goto(w, "check")
  /\ UNCHANGED <<ctx, table, next, hasRequeued, requeued, done, passVars, back>>

\* Finished columns are subtracted from pending before pending is read.
Report(w) ==
  /\ pc[w] = "report"
  /\ pending' = pending - done[w]
  /\ done' = [done EXCEPT ![w] = 0]
  /\ Goto(w, "check")
  /\ UNCHANGED <<ctx, table, next, hasRequeued, requeued, passVars, back>>

Check(w) ==
  /\ pc[w] = "check"
  /\ Goto(w, IF pending = 0 THEN "exit" ELSE "take")
  /\ UNCHANGED <<ctx, table, queueVars, done, passVars, back>>

-----------------------------------------------------------------------------
(* reduce_pass *)

\* Mutant of InitCoboundary: working_red is not cleared for the new pass.
InitKeepsReduction(w) ==
  /\ pc[w] = "init"
  /\ LET chain == ctx.cob[col[w]]
     IN  /\ work' = [work EXCEPT ![w] =
                       IF Shortcut(ctx, col[w], DOMAIN table) THEN {} ELSE chain]
         /\ pivot' = [pivot EXCEPT ![w] = LeadOf(chain)]
  /\ Goto(w, "look")
  /\ UNCHANGED <<ctx, table, queueVars, done, col, red, back>>

\* init_coboundary with its contains_key test.  The shortcut fires on the
\* column's own first cofacet when it is unowned and no apparent facet has it.
InitCoboundary(w) ==
  /\ pc[w] = "init"
  /\ LET chain == ctx.cob[col[w]]
     IN  /\ work' = [work EXCEPT ![w] =
                       IF Shortcut(ctx, col[w], DOMAIN table) THEN {} ELSE chain]
         /\ pivot' = [pivot EXCEPT ![w] = LeadOf(chain)]
  /\ red' = [red EXCEPT ![w] = {}]
  /\ Goto(w, "look")
  /\ UNCHANGED <<ctx, table, queueVars, done, col, back>>

\* A column without a pivot is reduced to zero: Pass::Essential.
Essential(w) ==
  /\ pc[w] = "look"
  /\ pivot[w] = NoPivot
  /\ done' = [done EXCEPT ![w] = @ + 1]
  /\ Goto(w, "take")
  /\ UNCHANGED <<ctx, table, queueVars, passVars, back>>

\* The pivot is owned by a smaller column in the snapshot the worker took.
OwnedBySmaller(w) ==
  pivot[w] \in DOMAIN table /\ table[pivot[w]].col < col[w]

\* Mutant of FoldReducer: a column the shortcut left unbuilt is not built first.
FoldUnbuilt(w) ==
  /\ pc[w] = "look"
  /\ pivot[w] # NoPivot
  /\ OwnedBySmaller(w)
  /\ LET reducer == Reducer(table[pivot[w]])
         chain   == SymDiff(work[w], Boundary(ctx, reducer))
     IN  /\ work' = [work EXCEPT ![w] = chain]
         /\ red' = [red EXCEPT ![w] = SymDiff(@, reducer)]
         /\ pivot' = [pivot EXCEPT ![w] = LeadOf(chain)]
  /\ UNCHANGED <<ctx, table, queueVars, pc, done, col, back>>

\* Reduce against the owner: its column and its V-column, as one snapshot.
\* An unbuilt column is built first.
FoldReducer(w) ==
  /\ pc[w] = "look"
  /\ pivot[w] # NoPivot
  /\ OwnedBySmaller(w)
  /\ LET reducer == Reducer(table[pivot[w]])
         built   == IF Built(w) THEN work[w] ELSE ctx.cob[col[w]]
         chain   == SymDiff(built, Boundary(ctx, reducer))
     IN  /\ work' = [work EXCEPT ![w] = chain]
         /\ red' = [red EXCEPT ![w] = SymDiff(@, reducer)]
         /\ pivot' = [pivot EXCEPT ![w] = LeadOf(chain)]
  /\ UNCHANGED <<ctx, table, queueVars, pc, done, col, back>>

\* reduce_apparent_facet: the working column is not rebuilt on this path.
FoldApparentFacet(w) ==
  /\ pc[w] = "look"
  /\ pivot[w] # NoPivot
  /\ ~OwnedBySmaller(w)
  /\ pivot[w] \in ctx.apparent
  /\ LET facet == -pivot[w]
         chain == SymDiff(work[w], ctx.cob[facet])
     IN  /\ work' = [work EXCEPT ![w] = chain]
         /\ red' = [red EXCEPT ![w] = SymDiff(@, {facet})]
         /\ pivot' = [pivot EXCEPT ![w] = LeadOf(chain)]
  /\ UNCHANGED <<ctx, table, queueVars, pc, done, col, back>>

\* A genuine pivot: go on to claim it.  The lookup is over; the claim locks
\* the entry again.
FoundPivot(w) ==
  /\ pc[w] = "look"
  /\ pivot[w] # NoPivot
  /\ ~OwnedBySmaller(w)
  /\ pivot[w] \notin ctx.apparent
  /\ Goto(w, "claim")
  /\ UNCHANGED <<ctx, table, queueVars, done, passVars, back>>

-----------------------------------------------------------------------------
(* claim_pivot and claim, with the match on their outcome in worker *)

\* The worker's column with its drained V-column becomes the owner.
Install(w) ==
  table' = Installed(table, pivot[w], [col |-> col[w], v |-> red[w]])

\* A free pivot.
ClaimWon(w) ==
  /\ pc[w] = "claim"
  /\ pivot[w] \notin DOMAIN table
  /\ Install(w)
  /\ done' = [done EXCEPT ![w] = @ + 1]
  /\ Goto(w, "take")
  /\ UNCHANGED <<ctx, queueVars, passVars, back>>

\* A larger incumbent is replaced and must be reduced again.
ClaimDisplaced(w) ==
  /\ pc[w] = "claim"
  /\ pivot[w] \in DOMAIN table
  /\ table[pivot[w]].col >= col[w]
  /\ back' = [back EXCEPT ![w] = table[pivot[w]].col]
  /\ Install(w)
  /\ Goto(w, "raise")
  /\ UNCHANGED <<ctx, queueVars, done, passVars>>

\* A smaller column took the pivot since the lookup: Pass::Requeue.
ClaimLost(w) ==
  /\ pc[w] = "claim"
  /\ pivot[w] \in DOMAIN table
  /\ table[pivot[w]].col < col[w]
  /\ back' = [back EXCEPT ![w] = col[w]]
  /\ Goto(w, "pushLost")
  /\ UNCHANGED <<ctx, table, queueVars, done, passVars>>

\* Mutant of RaisePending: the displaced column is not counted again.
RaiseForgotten(w) ==
  /\ pc[w] = "raise"
  /\ Goto(w, "pushDisplaced")
  /\ UNCHANGED <<ctx, table, queueVars, done, passVars, back>>

\* pending rises for the displaced column before it is pushed.
RaisePending(w) ==
  /\ pc[w] = "raise"
  /\ pending' = pending + 1
  /\ Goto(w, "pushDisplaced")
  /\ UNCHANGED <<ctx, table, next, hasRequeued, requeued, done, passVars, back>>

\* Mutant of Requeue: pushes without raising the flag.
RequeueSilently(w) ==
  /\ requeued' = Append(requeued, back[w])
  /\ UNCHANGED <<next, pending, hasRequeued>>

\* WorkQueue::requeue: push and set the flag under one lock.
Requeue(w) ==
  /\ requeued' = Append(requeued, back[w])
  /\ hasRequeued' = TRUE
  /\ UNCHANGED <<next, pending>>

\* The displacing column counts as finished once its victim is back.
PushDisplaced(w) ==
  /\ pc[w] = "pushDisplaced"
  /\ Requeue(w)
  /\ done' = [done EXCEPT ![w] = @ + 1]
  /\ Goto(w, "take")
  /\ UNCHANGED <<ctx, table, passVars, back>>

PushLost(w) ==
  /\ pc[w] = "pushLost"
  /\ Requeue(w)
  /\ Goto(w, "take")
  /\ UNCHANGED <<ctx, table, done, passVars, back>>

-----------------------------------------------------------------------------
Step(w) ==
  \/ ReadFlag(w)       \/ PopRequeued(w)    \/ Dispense(w)
  \/ Report(w)         \/ Check(w)
  \/ InitCoboundary(w) \/ Essential(w)      \/ FoldReducer(w)
  \/ FoldApparentFacet(w) \/ FoundPivot(w)
  \/ ClaimWon(w)       \/ ClaimDisplaced(w) \/ ClaimLost(w)
  \/ RaisePending(w)   \/ PushDisplaced(w)  \/ PushLost(w)

AllExited == \A w \in Workers : pc[w] = "exit"

\* The broadcast returns when every worker has: the system stops there.
Returned == AllExited /\ UNCHANGED vars

Next == (\E w \in Workers : Step(w)) \/ Returned

Spec == Init /\ [][Next]_vars

-----------------------------------------------------------------------------
(* Properties *)

Labels == {"take", "pop", "dispense", "report", "check", "exit", "init", "look",
           "claim", "raise", "pushDisplaced", "pushLost"}

Owner == [col : Cols, v : SUBSET Simplices]

\* Every variable of the reduction keeps its type.  In particular the
\* dispenser saturates at len and pending, a usize, never wraps below zero.
TypeOK ==
  /\ ctx \in Problem
  /\ DOMAIN table \subseteq Rows /\ \A r \in DOMAIN table : table[r] \in Owner
  /\ next \in 0 .. NumCols
  /\ pending \in Nat
  /\ hasRequeued \in BOOLEAN
  /\ requeued \in Seq(Cols)
  /\ pc \in [Workers -> Labels]
  /\ done \in [Workers -> Nat]
  /\ col \in [Workers -> Cols]
  /\ work \in [Workers -> Chain]
  /\ red \in [Workers -> SUBSET Simplices]
  /\ pivot \in [Workers -> Rows \cup {NoPivot}]
  /\ back \in [Workers -> Cols]

\* A worker is between taking a column and counting it as finished.
InPass(w) ==
  pc[w] \in {"init", "look", "claim", "raise", "pushDisplaced", "pushLost"}

\* "pending never reads zero with a column still in flight" (parallel.rs,
\* worker): at zero every column is dispensed, none waits on the stack and no
\* worker is in a pass, although workers report their counts late.
NoEarlyZero ==
  pending = 0 => /\ next = NumCols
                 /\ requeued = <<>>
                 /\ \A w \in Workers : ~InPass(w)

\* What pending counts: the columns not dispensed, those on the stack, one for
\* every worker in a pass, one more while a displaced column is counted and
\* not yet back on the stack, and the finished columns not yet reported.
Outstanding ==
  { <<"new", i>> : i \in next .. NumCols - 1 }
    \cup { <<"requeued", i>> : i \in 1 .. Len(requeued) }
    \cup { <<"pass", w>> : w \in { u \in Workers : InPass(u) } }
    \cup { <<"raised", w>> : w \in { u \in Workers : pc[u] = "pushDisplaced" } }
    \cup UNION { { <<"done", w, i>> : i \in 1 .. done[w] } : w \in Workers }

\* pending is exact at every step, so no report can take it below zero; and a
\* worker only claims a pivot it has found.
Accounts ==
  /\ IsFiniteSet(Outstanding)
  /\ pending = Cardinality(Outstanding)

ClaimsPivot == \A w \in Workers : pc[w] = "claim" => pivot[w] # NoPivot

\* The inductive invariant behind NoEarlyZero.
IInv == TypeOK /\ ClaimsPivot /\ Accounts

\* The column a worker alone is responsible for: the one it reduces, or the
\* one it is about to requeue.
HeldBy(w) ==
  IF pc[w] \in {"init", "look", "claim"} THEN {col[w]}
  ELSE IF pc[w] \in {"raise", "pushDisplaced", "pushLost"} THEN {back[w]}
  ELSE {}

\* Where a column is: not dispensed yet, on the stack, with a worker, or the
\* owner of a pivot.
Places(c) ==
  {<<"undispensed", i>> : i \in {n \in Cols : n = c /\ n >= next}}
    \cup {<<"requeued", i>> : i \in {n \in DOMAIN requeued : requeued[n] = c}}
    \cup {<<"held", w>> : w \in {u \in Workers : c \in HeldBy(u)}}
    \cup {<<"owner", r>> : r \in {q \in DOMAIN table : table[q].col = c}}

\* No column is ever in two places: two threads never reduce one column, a
\* displaced column is not requeued twice, no column owns two pivots.
ColumnInOnePlace == \A c \in Cols : Cardinality(Places(c)) <= 1

\* The reduced chain that a column and its V-column stand for.
ReducedChain(c, v) == SymDiff(ctx.cob[c], Boundary(ctx, v))

\* Every entry of the table is a snapshot that can be reduced against: its
\* V-column holds no column from its own on, and the chain it stands for
\* has exactly the entry's row as pivot.  A column built late, folded against
\* a stale owner or installed with another pass's V-column would break this.
OwnersReduce ==
  \A r \in DOMAIN table :
    LET owner == table[r] IN
    /\ \A s \in owner.v : s < owner.col
    /\ LeadOf(ReducedChain(owner.col, owner.v)) = r

\* The owners only ever change as the registry of PivotRegistry allows, and
\* the first worker that leaves finds the serial pairs in the table.
Registry ==
  INSTANCE PivotRegistry
    WITH problem <- ctx,
         owner   <- OwnerOf(table),
         open    <- \A w \in Workers : pc[w] # "exit"

RefinesRegistry == Registry!RegistrySpec
=============================================================================
