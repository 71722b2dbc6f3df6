------------------------ MODULE ParallelReductionProofs ------------------------
(****************************************************************************)
(* Theorems about ParallelReduction for every number of workers, columns    *)
(* and rows and for every problem.                                          *)
(****************************************************************************)
EXTENDS ReductionEngine, SetFacts, FiniteSetTheorems, TLAPS

\* A nonzero chain has a smallest row, so its pivot is one of its rows.
LEMMA PivotInChain ==
  ASSUME NEW chain \in Chain, chain # {}
  PROVE  /\ Pivot(chain) \in chain
         /\ \A s \in chain : Pivot(chain) <= s
<1>. DEFINE Below == { 1 .. r : r \in chain }
<1>1. chain \subseteq Nat /\ \A r \in chain : r >= 1 /\ r <= NumRows
  BY SizeAssumption DEF Chain, Rows
<1>2. IsFiniteSet(Rows)
  BY FS_Interval, SizeAssumption DEF Rows
<1>3. Below \subseteq FiniteSubsetsOf(Rows)
  <2>1. Below \subseteq SUBSET Rows
    BY <1>1, SizeAssumption DEF Rows
  <2>2. QED
    BY <1>2, <2>1, FS_FiniteSubsetsOfFinite
<1>4. PICK x \in Below : \A y \in Below : <<y, x>> \notin StrictSubsetOrdering(Rows)
  <2>1. Below # {}
    OBVIOUS
  <2>2. QED
    BY <1>3, <2>1, WFMin, FS_StrictSubsetOrderingWellFounded
<1>5. PICK r \in chain : x = 1 .. r
  OBVIOUS
<1>6. ASSUME NEW s \in chain, s < r
      PROVE  FALSE
  <2>1. 1 .. s \subseteq 1 .. r /\ r \in 1 .. r /\ r \notin 1 .. s
    BY <1>1, <1>6
  <2>2. 1 .. s \in SUBSET Rows /\ 1 .. r \in SUBSET Rows
    BY <1>1, SizeAssumption DEF Rows
  <2>3. <<1 .. s, x>> \in StrictSubsetOrdering(Rows)
    BY <1>5, <2>1, <2>2 DEF StrictSubsetOrdering
  <2>4. QED
    BY <1>4, <2>3
<1>7. \A s \in chain : r <= s
  BY <1>1, <1>6
<1>8. QED
  BY <1>7 DEF Pivot

\* get_pivot returns a row of the chain, or NoPivot for the zero chain.
LEMMA LeadOfType ==
  ASSUME NEW chain \in Chain
  PROVE  LeadOf(chain) \in Rows \cup {NoPivot}
BY PivotInChain DEF LeadOf, Chain

\* Folding keeps chains chains and V-columns sets of simplices.
LEMMA SumType ==
  /\ \A a, b \in Chain : SymDiff(a, b) \in Chain
  /\ \A a, b \in SUBSET Simplices : SymDiff(a, b) \in SUBSET Simplices
  /\ \A p \in Problem, S \in SUBSET Simplices : Boundary(p, S) \in Chain
  /\ \A o \in Owner : Reducer(o) \in SUBSET Simplices
  /\ \A p \in Problem, s \in Simplices : p.cob[s] \in Chain
BY DEF SymDiff, Chain, Boundary, Reducer, Owner, Simplices, Problem

\* Replacing one element of a finite set by a new one keeps its size.
LEMMA SwapElement ==
  ASSUME NEW S, IsFiniteSet(S), NEW x \in S, NEW y, y \notin S
  PROVE  /\ IsFiniteSet((S \ {x}) \cup {y})
         /\ Cardinality((S \ {x}) \cup {y}) = Cardinality(S)
<1>1. IsFiniteSet(S \ {x}) /\ Cardinality(S \ {x}) = Cardinality(S) - 1
  BY FS_RemoveElement
<1>2. Cardinality(S) \in Nat
  BY FS_CardinalityType
<1>3. y \notin S \ {x}
  OBVIOUS
<1>4. /\ IsFiniteSet((S \ {x}) \cup {y})
      /\ Cardinality((S \ {x}) \cup {y}) = Cardinality(S \ {x}) + 1
  BY <1>1, <1>3, FS_AddElement
<1>5. QED
  BY <1>1, <1>2, <1>4

-----------------------------------------------------------------------------
\* Installing the worker's column keeps the table typed.
LEMMA InstallTyped ==
  ASSUME TypeOK, NEW w \in Workers, pivot[w] # NoPivot, Install(w)
  PROVE  DOMAIN table' \subseteq Rows /\ \A r \in DOMAIN table' : table'[r] \in Owner
<1>1. [col |-> col[w], v |-> red[w]] \in Owner
  BY DEF TypeOK, Owner
<1>2. pivot[w] \in Rows
  BY DEF TypeOK
<1>3. QED
  BY <1>1, <1>2 DEF Install, Installed, TypeOK

\* Whatever a worker does, every variable keeps its type, except that for
\* pending this takes the count (ReportedCount).
LEMMA StepTyped ==
  ASSUME TypeOK, ClaimsPivot, NEW w \in Workers, Step(w), pending' \in Nat
  PROVE  TypeOK' /\ ClaimsPivot'
<1>. USE DEF Goto, queueVars, passVars, ClaimsPivot
<1>1. CASE ReadFlag(w)
  BY <1>1 DEF ReadFlag, TypeOK, Labels
<1>2. CASE PopRequeued(w)
  <2>1. CASE requeued = <<>>
    BY <1>2, <2>1 DEF PopRequeued, TypeOK, Labels
  <2>2. CASE requeued # <<>>
    <3>1. /\ Len(requeued) \in Nat /\ Len(requeued) >= 1
          /\ requeued[Len(requeued)] \in Cols
          /\ SubSeq(requeued, 1, Len(requeued) - 1) \in Seq(Cols)
      BY <2>2 DEF TypeOK
    <3>2. /\ requeued' \in Seq(Cols)
          /\ col' \in [Workers -> Cols]
          /\ hasRequeued' \in BOOLEAN
          /\ pc' = [pc EXCEPT ![w] = "init"]
          /\ UNCHANGED <<ctx, table, next, done, work, red, pivot, back>>
      BY <1>2, <2>2, <3>1 DEF PopRequeued, TypeOK
    <3>3. QED
      BY <3>2 DEF TypeOK, Labels
  <2>3. QED
    BY <2>1, <2>2
<1>3. CASE Dispense(w)
  <2>1. /\ next' \in 0 .. NumCols
        /\ col' \in [Workers -> Cols]
        /\ UNCHANGED <<ctx, table, hasRequeued, requeued, done, work, red, pivot, back>>
    <3>1. UNCHANGED <<ctx, table, hasRequeued, requeued, done, work, red, pivot, back>>
      BY <1>3 DEF Dispense
    <3>2. CASE next < NumCols
      <4>1. next \in Cols /\ next + 1 \in 0 .. NumCols
        BY <3>2, SizeAssumption DEF TypeOK, Cols
      <4>2. next' = next + 1 /\ col' = [col EXCEPT ![w] = next]
        BY <1>3, <3>2 DEF Dispense
      <4>3. QED
        BY <3>1, <4>1, <4>2 DEF TypeOK
    <3>3. CASE ~(next < NumCols)
      BY <1>3, <3>1, <3>3 DEF Dispense, TypeOK
    <3>4. QED
      BY <3>2, <3>3
  <2>2. pc' = [pc EXCEPT ![w] = "init"] \/ pc' = [pc EXCEPT ![w] = "report"]
    BY <1>3 DEF Dispense
  <2>3. QED
    BY <2>1, <2>2 DEF TypeOK, Labels
<1>4. CASE Report(w)
  BY <1>4 DEF Report, TypeOK, Labels
<1>5. CASE Check(w)
  BY <1>5 DEF Check, TypeOK, Labels
<1>6. CASE InitCoboundary(w)
  <2>1. ctx.cob[col[w]] \in Chain
    BY SumType DEF TypeOK, Simplices
  <2>2. LeadOf(ctx.cob[col[w]]) \in Rows \cup {NoPivot} /\ {} \in Chain
    BY <2>1, LeadOfType DEF Chain
  <2>3. QED
    BY <1>6, <2>1, <2>2 DEF InitCoboundary, TypeOK, Labels
<1>7. CASE Essential(w)
  BY <1>7 DEF Essential, TypeOK, Labels
<1>8. CASE FoldReducer(w)
  <2>. DEFINE reducer == Reducer(table[pivot[w]])
              built   == IF Built(w) THEN work[w] ELSE ctx.cob[col[w]]
              chain   == SymDiff(built, Boundary(ctx, reducer))
  <2>1. reducer \in SUBSET Simplices
    BY <1>8, SumType DEF FoldReducer, OwnedBySmaller, TypeOK
  <2>2. built \in Chain
    BY SumType DEF TypeOK, Simplices
  <2>3. chain \in Chain
    BY <2>1, <2>2, SumType DEF TypeOK
  <2>4. LeadOf(chain) \in Rows \cup {NoPivot}
    BY <2>3, LeadOfType
  <2>5. SymDiff(red[w], reducer) \in SUBSET Simplices
    BY <2>1, SumType DEF TypeOK
  <2>6. /\ work' = [work EXCEPT ![w] = chain]
        /\ red' = [red EXCEPT ![w] = SymDiff(red[w], reducer)]
        /\ pivot' = [pivot EXCEPT ![w] = LeadOf(chain)]
        /\ UNCHANGED <<ctx, table, queueVars, pc, done, col, back>>
        /\ pc[w] = "look"
    BY <1>8 DEF FoldReducer
  <2>. HIDE DEF reducer, built, chain
  <2>7. QED
    BY <2>3, <2>4, <2>5, <2>6 DEF TypeOK
<1>9. CASE FoldApparentFacet(w)
  <2>. DEFINE facet == -pivot[w]
              chain == SymDiff(work[w], ctx.cob[facet])
  <2>1. pivot[w] \in Rows /\ facet \in Simplices
    BY <1>9 DEF FoldApparentFacet, TypeOK, Simplices, Facets
  <2>2. chain \in Chain /\ LeadOf(chain) \in Rows \cup {NoPivot}
    BY <2>1, SumType, LeadOfType DEF TypeOK
  <2>3. SymDiff(red[w], {facet}) \in SUBSET Simplices
    BY <2>1, SumType DEF TypeOK
  <2>4. /\ work' = [work EXCEPT ![w] = chain]
        /\ red' = [red EXCEPT ![w] = SymDiff(red[w], {facet})]
        /\ pivot' = [pivot EXCEPT ![w] = LeadOf(chain)]
        /\ UNCHANGED <<ctx, table, queueVars, pc, done, col, back>>
        /\ pc[w] = "look"
    BY <1>9 DEF FoldApparentFacet
  <2>. HIDE DEF facet, chain
  <2>5. QED
    BY <2>2, <2>3, <2>4 DEF TypeOK
<1>10. CASE FoundPivot(w)
  BY <1>10 DEF FoundPivot, TypeOK, Labels
<1>11. CASE ClaimWon(w)
  <2>1. DOMAIN table' \subseteq Rows /\ \A r \in DOMAIN table' : table'[r] \in Owner
    BY <1>11, InstallTyped DEF ClaimWon
  <2>2. QED
    BY <1>11, <2>1 DEF ClaimWon, TypeOK, Labels
<1>12. CASE ClaimDisplaced(w)
  <2>1. DOMAIN table' \subseteq Rows /\ \A r \in DOMAIN table' : table'[r] \in Owner
    BY <1>12, InstallTyped DEF ClaimDisplaced
  <2>2. table[pivot[w]].col \in Cols
    BY <1>12 DEF ClaimDisplaced, TypeOK, Owner
  <2>3. QED
    BY <1>12, <2>1, <2>2 DEF ClaimDisplaced, TypeOK, Labels
<1>13. CASE ClaimLost(w)
  BY <1>13 DEF ClaimLost, TypeOK, Labels
<1>14. CASE RaisePending(w)
  BY <1>14 DEF RaisePending, TypeOK, Labels
<1>15. CASE PushDisplaced(w)
  BY <1>15 DEF PushDisplaced, Requeue, TypeOK, Labels
<1>16. CASE PushLost(w)
  BY <1>16 DEF PushLost, Requeue, TypeOK, Labels
<1>17. QED
  BY <1>1, <1>2, <1>3, <1>4, <1>5, <1>6, <1>7, <1>8, <1>9, <1>10, <1>11, <1>12,
     <1>13, <1>14, <1>15, <1>16 DEF Step

-----------------------------------------------------------------------------
\* A step that moves no column in or out of a pass, the stack, the dispenser
\* or a report leaves the count alone.
LEMMA SameCount ==
  ASSUME Accounts, UNCHANGED <<next, pending, requeued, done>>,
         \A u \in Workers : /\ InPass(u)' <=> InPass(u)
                            /\ pc'[u] = "pushDisplaced" <=> pc[u] = "pushDisplaced"
  PROVE  Accounts'
<1>1. { u \in Workers : InPass(u) }' = { u \in Workers : InPass(u) }
  OBVIOUS
<1>2. { u \in Workers : pc[u] = "pushDisplaced" }' = { u \in Workers : pc[u] = "pushDisplaced" }
  OBVIOUS
<1>3. Outstanding' = Outstanding
  BY <1>1, <1>2 DEF Outstanding
<1>4. QED
  BY <1>3 DEF Accounts

\* A step that turns one outstanding element into another leaves the count
\* alone too.
LEMMA SwapCount ==
  ASSUME Accounts, UNCHANGED pending,
         NEW x \in Outstanding, NEW y, y \notin Outstanding,
         Outstanding' = (Outstanding \ {x}) \cup {y}
  PROVE  Accounts'
BY SwapElement DEF Accounts

\* The steps that only move a worker along its pass or around the queue.
LEMMA QuietStepCounts ==
  ASSUME TypeOK, Accounts, NEW w \in Workers,
         \/ ReadFlag(w) \/ Check(w) \/ InitCoboundary(w) \/ FoldReducer(w)
         \/ FoldApparentFacet(w) \/ FoundPivot(w) \/ ClaimDisplaced(w) \/ ClaimLost(w)
  PROVE  Accounts'
<1>1. UNCHANGED <<next, pending, requeued, done>>
  BY DEF ReadFlag, Check, InitCoboundary, FoldReducer, FoldApparentFacet,
         FoundPivot, ClaimDisplaced, ClaimLost, queueVars
<1>2. \A u \in Workers : /\ InPass(u)' <=> InPass(u)
                         /\ pc'[u] = "pushDisplaced" <=> pc[u] = "pushDisplaced"
  BY DEF ReadFlag, Check, InitCoboundary, FoldReducer, FoldApparentFacet,
         FoundPivot, ClaimDisplaced, ClaimLost, InPass, Goto, TypeOK
<1>3. QED
  BY <1>1, <1>2, SameCount

\* Taking a column moves it from the dispenser into a pass.
LEMMA DispenseCounts ==
  ASSUME TypeOK, Accounts, NEW w \in Workers, Dispense(w)
  PROVE  Accounts'
<1>1. CASE next < NumCols
  <2>. DEFINE x == <<"new", next>>
              y == <<"pass", w>>
  <2>1. x \in Outstanding /\ y \notin Outstanding
    BY <1>1, SizeAssumption DEF Outstanding, TypeOK, Dispense, InPass
  <2>2. Outstanding' = (Outstanding \ {x}) \cup {y}
    BY <1>1, SizeAssumption DEF Outstanding, TypeOK, Dispense, InPass, Goto
  <2>3. QED
    BY <1>1, <2>1, <2>2, SwapCount DEF Dispense
<1>2. CASE ~(next < NumCols)
  <2>1. UNCHANGED <<next, pending, requeued, done>> /\ Goto(w, "report") /\ pc[w] = "dispense"
    BY <1>2 DEF Dispense
  <2>2. \A u \in Workers : /\ InPass(u)' <=> InPass(u)
                           /\ pc'[u] = "pushDisplaced" <=> pc[u] = "pushDisplaced"
    BY <2>1 DEF Goto, InPass, TypeOK
  <2>3. QED
    BY <2>1, <2>2, SameCount
<1>3. QED
  BY <1>1, <1>2

\* Taking a column back from the stack moves it into a pass; an empty stack
\* moves nothing.
LEMMA PopCounts ==
  ASSUME TypeOK, Accounts, NEW w \in Workers, PopRequeued(w)
  PROVE  Accounts'
<1>1. CASE requeued # <<>>
  <2>. DEFINE top == Len(requeued)
              x   == <<"requeued", top>>
              y   == <<"pass", w>>
  <2>1. top \in Nat /\ top >= 1 /\ Len(requeued') = top - 1
    BY <1>1 DEF TypeOK, PopRequeued
  <2>2. x \in Outstanding /\ y \notin Outstanding
    BY <2>1 DEF Outstanding, PopRequeued, InPass
  <2>3. Outstanding' = (Outstanding \ {x}) \cup {y}
    BY <1>1, <2>1 DEF Outstanding, TypeOK, PopRequeued, InPass, Goto
  <2>4. QED
    BY <1>1, <2>2, <2>3, SwapCount DEF PopRequeued
<1>2. CASE requeued = <<>>
  <2>1. UNCHANGED <<next, pending, requeued, done>> /\ Goto(w, "dispense") /\ pc[w] = "pop"
    BY <1>2 DEF PopRequeued
  <2>2. \A u \in Workers : /\ InPass(u)' <=> InPass(u)
                           /\ pc'[u] = "pushDisplaced" <=> pc[u] = "pushDisplaced"
    BY <2>1 DEF Goto, InPass, TypeOK
  <2>3. QED
    BY <2>1, <2>2, SameCount
<1>3. QED
  BY <1>1, <1>2

\* A column that ends its pass becomes a finished column not yet reported.
LEMMA FinishCounts ==
  ASSUME TypeOK, Accounts, NEW w \in Workers, Essential(w) \/ ClaimWon(w)
  PROVE  Accounts'
<1>. DEFINE x == <<"pass", w>>
            y == <<"done", w, done[w] + 1>>
<1>1. /\ InPass(w) /\ pc[w] # "pushDisplaced"
      /\ done' = [done EXCEPT ![w] = done[w] + 1]
      /\ UNCHANGED <<next, pending, requeued>>
      /\ Goto(w, "take")
  BY DEF Essential, ClaimWon, InPass, queueVars
<1>2. done[w] \in Nat /\ 1 .. done[w] + 1 = (1 .. done[w]) \cup {done[w] + 1}
  BY DEF TypeOK
<1>3. x \in Outstanding /\ y \notin Outstanding
  BY <1>1, <1>2 DEF Outstanding
<1>4. Outstanding' = (Outstanding \ {x}) \cup {y}
  BY <1>1, <1>2 DEF Outstanding, TypeOK, InPass, Goto
<1>5. QED
  BY <1>1, <1>3, <1>4, SwapCount

\* A column that lost its claim moves from the pass onto the stack.
LEMMA PushLostCounts ==
  ASSUME TypeOK, Accounts, NEW w \in Workers, PushLost(w)
  PROVE  Accounts'
<1>. DEFINE top == Len(requeued) + 1
            x   == <<"pass", w>>
            y   == <<"requeued", top>>
<1>1. Len(requeued) \in Nat /\ Len(requeued') = top
  BY DEF TypeOK, PushLost, Requeue
<1>2. x \in Outstanding /\ y \notin Outstanding
  BY <1>1 DEF Outstanding, PushLost, InPass
<1>3. Outstanding' = (Outstanding \ {x}) \cup {y}
  BY <1>1 DEF Outstanding, TypeOK, PushLost, Requeue, InPass, Goto
<1>4. QED
  BY <1>2, <1>3, SwapCount DEF PushLost, Requeue

\* The displacing worker counts its victim before it pushes it.
LEMMA RaiseCounts ==
  ASSUME TypeOK, Accounts, NEW w \in Workers, RaisePending(w)
  PROVE  Accounts'
<1>. DEFINE y == <<"raised", w>>
<1>1. y \notin Outstanding
  BY DEF Outstanding, RaisePending
<1>2. Outstanding' = Outstanding \cup {y}
  BY DEF Outstanding, TypeOK, RaisePending, InPass, Goto
<1>3. QED
  BY <1>1, <1>2, FS_AddElement DEF Accounts, RaisePending

\* The push turns the raised count into a stack entry and the pass into a
\* finished column.
LEMMA PushDisplacedCounts ==
  ASSUME TypeOK, Accounts, NEW w \in Workers, PushDisplaced(w)
  PROVE  Accounts'
<1>. DEFINE top == Len(requeued) + 1
            x1  == <<"raised", w>>
            y1  == <<"requeued", top>>
            x2  == <<"pass", w>>
            y2  == <<"done", w, done[w] + 1>>
            mid == (Outstanding \ {x1}) \cup {y1}
<1>1. /\ Len(requeued) \in Nat /\ Len(requeued') = top
      /\ done[w] \in Nat /\ 1 .. done[w] + 1 = (1 .. done[w]) \cup {done[w] + 1}
  BY DEF TypeOK, PushDisplaced, Requeue
<1>2. /\ x1 \in Outstanding /\ y1 \notin Outstanding
      /\ x2 \in Outstanding /\ y2 \notin Outstanding
  BY <1>1 DEF Outstanding, PushDisplaced, InPass
<1>3. x2 \in mid /\ y2 \notin mid
  BY <1>2
<1>4. IsFiniteSet(mid) /\ Cardinality(mid) = Cardinality(Outstanding)
  BY <1>2, SwapElement DEF Accounts
<1>5. Outstanding' = (mid \ {x2}) \cup {y2}
  BY <1>1 DEF Outstanding, TypeOK, PushDisplaced, Requeue, InPass, Goto
<1>6. QED
  <2>1. IsFiniteSet(Outstanding') /\ Cardinality(Outstanding') = Cardinality(mid)
    <3>. HIDE DEF mid
    <3>1. QED
      BY <1>3, <1>4, <1>5, SwapElement
  <2>2. QED
    BY <1>4, <2>1 DEF Accounts, PushDisplaced, Requeue

\* A report takes exactly the worker's finished columns out of the count, so
\* pending cannot go below zero.
LEMMA ReportCounts ==
  ASSUME TypeOK, Accounts, NEW w \in Workers, Report(w)
  PROVE  Accounts' /\ pending' \in Nat
<1>. DEFINE D == { <<"done", w, i>> : i \in 1 .. done[w] }
            f == [i \in 1 .. done[w] |-> <<"done", w, i>>]
<1>1. done[w] \in Nat
  BY DEF TypeOK
<1>2. IsFiniteSet(D) /\ Cardinality(D) = done[w]
  <2>1. f \in Bijection(1 .. done[w], D)
    BY DEF Bijection, Injection, Surjection, IsInjective
  <2>2. IsFiniteSet(1 .. done[w]) /\ Cardinality(1 .. done[w]) = done[w]
    BY <1>1, FS_Interval, SMTT(60)
  <2>. HIDE DEF D, f
  <2>3. ExistsBijection(1 .. done[w], D)
    BY <2>1 DEF ExistsBijection
  <2>4. QED
    BY <2>2, <2>3, FS_Bijection
<1>3. D \subseteq Outstanding
  BY DEF Outstanding
<1>4. Outstanding' = Outstanding \ D
  BY <1>1 DEF Outstanding, TypeOK, Report, InPass, Goto
<1>5. /\ IsFiniteSet(Outstanding \ D)
      /\ Cardinality(Outstanding \ D) = Cardinality(Outstanding) - Cardinality(D)
  <2>. HIDE DEF D
  <2>1. Outstanding \cap D = D
    BY <1>3
  <2>2. IsFiniteSet(Outstanding)
    BY DEF Accounts
  <2>3. QED
    BY <2>1, <2>2, FS_Difference
<1>6. Cardinality(Outstanding \ D) \in Nat
  BY <1>5, FS_CardinalityType
<1>7. QED
  BY <1>2, <1>4, <1>5, <1>6 DEF Accounts, Report

\* Every step of a worker keeps pending exact.
LEMMA StepCounts ==
  ASSUME TypeOK, Accounts, NEW w \in Workers, Step(w)
  PROVE  Accounts' /\ pending' \in Nat
<1>1. CASE Report(w)
  BY <1>1, ReportCounts
<1>2. CASE ~Report(w)
  <2>1. Accounts'
    BY <1>2, QuietStepCounts, DispenseCounts, PopCounts, FinishCounts,
       PushLostCounts, RaiseCounts, PushDisplacedCounts DEF Step
  <2>2. QED
    BY <2>1, FS_CardinalityType DEF Accounts
<1>3. QED
  BY <1>1, <1>2

-----------------------------------------------------------------------------
\* At the start exactly the columns of the dimension are outstanding.
LEMMA InitCounts == Init => Accounts
<1>. SUFFICES ASSUME Init PROVE Accounts
  OBVIOUS
<1>. DEFINE D == { <<"new", i>> : i \in 0 .. NumCols - 1 }
            f == [i \in 0 .. NumCols - 1 |-> <<"new", i>>]
<1>1. Outstanding = D
  BY DEF Outstanding, Init, InPass
<1>2. f \in Bijection(0 .. NumCols - 1, D)
  BY DEF Bijection, Injection, Surjection, IsInjective
<1>3. IsFiniteSet(0 .. NumCols - 1) /\ Cardinality(0 .. NumCols - 1) = NumCols
  BY FS_Interval, SizeAssumption
<1>. HIDE DEF D, f
<1>4. IsFiniteSet(D) /\ Cardinality(D) = NumCols
  BY <1>2, <1>3, FS_Bijection DEF ExistsBijection
<1>5. QED
  BY <1>1, <1>4 DEF Accounts, Init

\* At the start every variable has its type.
LEMMA InitTyped == Init => TypeOK /\ ClaimsPivot
<1>. SUFFICES ASSUME Init PROVE TypeOK /\ ClaimsPivot
  OBVIOUS
<1>1. ctx \in Problem /\ table = EmptyTable
  BY ProblemAssumption DEF Init
<1>2. DOMAIN table \subseteq Rows /\ \A r \in DOMAIN table : table[r] \in Owner
  BY <1>1 DEF EmptyTable
<1>3. 0 \in Cols /\ NumCols \in Nat /\ 0 \in 0 .. NumCols
  BY SizeAssumption DEF Cols
<1>4. /\ next \in 0 .. NumCols /\ pending \in Nat
      /\ hasRequeued \in BOOLEAN
  BY <1>3 DEF Init
<1>5. requeued \in Seq(Cols)
  BY DEF Init
<1>6. /\ pc \in [Workers -> Labels] /\ done \in [Workers -> Nat]
      /\ col \in [Workers -> Cols] /\ back \in [Workers -> Cols]
  BY <1>3 DEF Init, Labels
<1>7. /\ work \in [Workers -> Chain] /\ red \in [Workers -> SUBSET Simplices]
      /\ pivot \in [Workers -> Rows \cup {NoPivot}]
  BY DEF Init, Chain
<1>8. ClaimsPivot
  BY DEF Init, ClaimsPivot
<1>9. QED
  BY <1>1, <1>2, <1>4, <1>5, <1>6, <1>7, <1>8 DEF TypeOK

\* The inductive invariant: types and an exact pending, of one piece because
\* pending is a natural number only because it is exact.
THEOREM InductiveInvariant == Spec => []IInv
<1>1. Init => IInv
  BY InitTyped, InitCounts DEF IInv
<1>2. IInv /\ [Next]_vars => IInv'
  <2>. SUFFICES ASSUME IInv, [Next]_vars PROVE IInv'
    OBVIOUS
  <2>1. ASSUME NEW w \in Workers, Step(w) PROVE IInv'
    BY <2>1, StepCounts, StepTyped DEF IInv
  <2>2. CASE UNCHANGED vars
    <3>1. Accounts'
      BY <2>2, SameCount DEF IInv, vars, queueVars, InPass
    <3>2. TypeOK' /\ ClaimsPivot'
      BY <2>2 DEF IInv, vars, queueVars, passVars, TypeOK, ClaimsPivot
    <3>3. QED
      BY <3>1, <3>2 DEF IInv
  <2>3. QED
    BY <2>1, <2>2 DEF Next, Returned
<1>3. QED
  BY <1>1, <1>2, PTL DEF Spec

\* Type correctness: in particular pending never underflows and the dispenser
\* never leaves 0..len.
THEOREM TypeCorrect == Spec => []TypeOK
BY InductiveInvariant, PTL DEF IInv

\* pending reads zero only when every column is in its final place: a worker
\* that leaves on a zero leaves nothing behind.
THEOREM PendingIsSafe == Spec => []NoEarlyZero
<1>1. IInv => NoEarlyZero
  <2>. SUFFICES ASSUME IInv, pending = 0 PROVE NoEarlyZero
    BY DEF NoEarlyZero
  <2>1. Outstanding = {}
    BY FS_EmptySet DEF IInv, Accounts
  <2>2. next = NumCols
    <3>1. next .. NumCols - 1 = {}
      BY <2>1 DEF Outstanding
    <3>2. next \in 0 .. NumCols /\ NumCols \in Nat
      BY SizeAssumption DEF IInv, TypeOK
    <3>3. next < NumCols => next \in next .. NumCols - 1
      BY <3>2
    <3>4. QED
      BY <3>1, <3>2, <3>3
  <2>3. requeued = <<>>
    <3>1. 1 .. Len(requeued) = {}
      BY <2>1 DEF Outstanding
    <3>2. Len(requeued) \in Nat /\ (requeued # <<>> => Len(requeued) >= 1)
      BY DEF IInv, TypeOK
    <3>3. QED
      BY <3>1, <3>2
  <2>4. \A w \in Workers : ~InPass(w)
    BY <2>1 DEF Outstanding
  <2>5. QED
    BY <2>2, <2>3, <2>4 DEF NoEarlyZero
<1>2. QED
  BY <1>1, InductiveInvariant, PTL

-----------------------------------------------------------------------------
(* Where the columns are *)

\* No two places of a column differ.
OnePlace == \A c \in Cols : \A x, y \in Places(c) : x = y

\* A step that takes one column from a place it has to another, and gives no
\* other column a place it did not have, keeps every column in one place.
LEMMA MovedPlace ==
  ASSUME OnePlace, NEW c \in Cols, NEW x \in Places(c), NEW y,
         \A d \in Cols : \A z \in Places(d)' :
           \/ z \in Places(d) /\ ~(d = c /\ z = x)
           \/ d = c /\ z = y
  PROVE  OnePlace'
<1>. SUFFICES ASSUME NEW d \in Cols, NEW z1 \in Places(d)', NEW z2 \in Places(d)'
              PROVE  z1 = z2
  BY DEF OnePlace
<1>1. CASE d = c
  BY <1>1 DEF OnePlace
<1>2. CASE d # c
  BY <1>2 DEF OnePlace
<1>3. QED
  BY <1>1, <1>2

\* A step that gives no column a new place keeps every column in one place.
LEMMA KeptPlaces ==
  ASSUME OnePlace, \A d \in Cols : Places(d)' \subseteq Places(d)
  PROVE  OnePlace'
BY DEF OnePlace

\* The steps that move no column: along a pass, around the queue, or out of
\* the reduction.
LEMMA QuietStepPlaces ==
  ASSUME TypeOK, OnePlace, NEW w \in Workers,
         \/ ReadFlag(w) \/ Report(w) \/ Check(w) \/ InitCoboundary(w) \/ Essential(w)
         \/ FoldReducer(w) \/ FoldApparentFacet(w) \/ FoundPivot(w) \/ ClaimLost(w)
         \/ RaisePending(w)
  PROVE  OnePlace'
<1>1. UNCHANGED <<next, requeued, table>>
  BY DEF ReadFlag, Report, Check, InitCoboundary, Essential, FoldReducer,
         FoldApparentFacet, FoundPivot, ClaimLost, RaisePending, queueVars
<1>2. \A u \in Workers : HeldBy(u)' \subseteq HeldBy(u)
  BY DEF ReadFlag, Report, Check, InitCoboundary, Essential, FoldReducer,
         FoldApparentFacet, FoundPivot, ClaimLost, RaisePending, HeldBy, Goto,
         passVars, TypeOK
<1>3. \A d \in Cols : Places(d)' \subseteq Places(d)
  BY <1>1, <1>2 DEF Places
<1>4. QED
  BY <1>3, KeptPlaces

\* Dispensing moves a column from the dispenser to the worker.
LEMMA DispensePlaces ==
  ASSUME TypeOK, OnePlace, NEW w \in Workers, Dispense(w)
  PROVE  OnePlace'
<1>1. CASE next < NumCols
  <2>1. next \in Cols /\ next + 1 \in Nat
    BY <1>1, SizeAssumption DEF TypeOK, Cols
  <2>2. <<"undispensed", next>> \in Places(next)
    BY <2>1 DEF Places, Cols
  <2>3. /\ next' = next + 1 /\ UNCHANGED <<requeued, table>>
        /\ HeldBy(w)' = {next}
        /\ \A u \in Workers \ {w} : HeldBy(u)' = HeldBy(u)
    BY <1>1 DEF Dispense, HeldBy, Goto, TypeOK
  <2>4. \A d \in Cols : \A z \in Places(d)' :
          \/ z \in Places(d) /\ ~(d = next /\ z = <<"undispensed", next>>)
          \/ d = next /\ z = <<"held", w>>
    BY <2>1, <2>3 DEF Places, TypeOK, Cols
  <2>5. QED
    BY <2>1, <2>2, <2>4, MovedPlace
<1>2. CASE ~(next < NumCols)
  <2>1. /\ UNCHANGED <<next, requeued, table>>
        /\ \A u \in Workers : HeldBy(u)' \subseteq HeldBy(u)
    BY <1>2 DEF Dispense, HeldBy, Goto, TypeOK
  <2>2. QED
    BY <2>1, KeptPlaces DEF Places
<1>3. QED
  BY <1>1, <1>2

\* Popping moves a column from the stack to the worker.
LEMMA PopPlaces ==
  ASSUME TypeOK, OnePlace, NEW w \in Workers, PopRequeued(w)
  PROVE  OnePlace'
<1>1. CASE requeued # <<>>
  <2>. DEFINE top == Len(requeued)
              c   == requeued[top]
  <2>1. /\ top \in Nat /\ top >= 1 /\ c \in Cols
        /\ DOMAIN requeued = 1 .. top
        /\ DOMAIN requeued' = 1 .. top - 1
        /\ \A i \in 1 .. top - 1 : requeued'[i] = requeued[i]
    BY <1>1 DEF TypeOK, PopRequeued
  <2>2. <<"requeued", top>> \in Places(c)
    BY <2>1 DEF Places
  <2>3. /\ UNCHANGED <<next, table>>
        /\ HeldBy(w)' = {c}
        /\ \A u \in Workers \ {w} : HeldBy(u)' = HeldBy(u)
    BY <1>1 DEF PopRequeued, HeldBy, Goto, TypeOK
  <2>. HIDE DEF c, top
  <2>4. \A d \in Cols : \A z \in Places(d)' :
          \/ z \in Places(d) /\ ~(d = c /\ z = <<"requeued", top>>)
          \/ d = c /\ z = <<"held", w>>
    BY <2>1, <2>3 DEF Places
  <2>5. QED
    BY <2>1, <2>2, <2>4, MovedPlace
<1>2. CASE requeued = <<>>
  <2>1. /\ UNCHANGED <<next, requeued, table>>
        /\ \A u \in Workers : HeldBy(u)' \subseteq HeldBy(u)
    BY <1>2 DEF PopRequeued, HeldBy, Goto, TypeOK
  <2>2. QED
    BY <2>1, KeptPlaces DEF Places
<1>3. QED
  BY <1>1, <1>2

\* Pushing moves a column from the worker to the stack.
LEMMA PushPlaces ==
  ASSUME TypeOK, OnePlace, NEW w \in Workers, PushLost(w) \/ PushDisplaced(w)
  PROVE  OnePlace'
<1>. DEFINE top == Len(requeued) + 1
            c   == back[w]
<1>1. c \in Cols /\ <<"held", w>> \in Places(c)
  BY DEF PushLost, PushDisplaced, HeldBy, Places, TypeOK
<1>2. /\ top \in Nat
      /\ DOMAIN requeued = 1 .. top - 1
      /\ DOMAIN requeued' = 1 .. top
      /\ \A i \in 1 .. top - 1 : requeued'[i] = requeued[i]
      /\ requeued'[top] = c
  <2>1. requeued' = Append(requeued, c) /\ requeued \in Seq(Cols)
    BY DEF PushLost, PushDisplaced, Requeue, TypeOK
  <2>. HIDE DEF c
  <2>2. QED
    BY <2>1, <1>1
<1>3. /\ UNCHANGED <<next, table>>
      /\ HeldBy(w)' = {}
      /\ \A u \in Workers \ {w} : HeldBy(u)' = HeldBy(u)
  BY DEF PushLost, PushDisplaced, Requeue, HeldBy, Goto, passVars, TypeOK
<1>. HIDE DEF c, top
<1>4. \A d \in Cols : \A z \in Places(d)' :
        \/ z \in Places(d) /\ ~(d = c /\ z = <<"held", w>>)
        \/ d = c /\ z = <<"requeued", top>>
  BY <1>2, <1>3 DEF Places
<1>5. QED
  BY <1>1, <1>4, MovedPlace

\* A claim moves the worker's column to the pivot, and the owner that it
\* displaces to the worker.
LEMMA ClaimPlaces ==
  ASSUME TypeOK, ClaimsPivot, OnePlace, NEW w \in Workers, ClaimWon(w) \/ ClaimDisplaced(w)
  PROVE  OnePlace'
<1>. DEFINE c == col[w]
            r == pivot[w]
<1>1. /\ c \in Cols /\ <<"held", w>> \in Places(c)
      /\ r \in Rows
  BY DEF ClaimWon, ClaimDisplaced, HeldBy, Places, ClaimsPivot, TypeOK
<1>2. /\ UNCHANGED <<next, requeued, col>>
      /\ \A u \in Workers \ {w} : HeldBy(u)' = HeldBy(u)
      /\ DOMAIN table' = DOMAIN table \cup {r}
      /\ table'[r].col = c
      /\ \A s \in DOMAIN table \ {r} : table'[s] = table[s]
  <2>1. UNCHANGED <<next, requeued, col>> /\ Install(w)
    BY DEF ClaimWon, ClaimDisplaced, queueVars, passVars
  <2>2. \A u \in Workers \ {w} : pc'[u] = pc[u] /\ back'[u] = back[u]
    BY DEF ClaimWon, ClaimDisplaced, Goto, TypeOK
  <2>3. \A u \in Workers \ {w} : HeldBy(u)' = HeldBy(u)
    BY <2>1, <2>2 DEF HeldBy
  <2>4. table' = [s \in DOMAIN table \cup {r} |->
                    IF s = r THEN [col |-> c, v |-> red[w]] ELSE table[s]]
    BY <2>1 DEF Install, Installed
  <2>. HIDE DEF c, r
  <2>5. QED
    BY <2>1, <2>3, <2>4
<1>3. CASE ClaimWon(w)
  <2>1. HeldBy(w)' = {}
    BY <1>3 DEF ClaimWon, HeldBy, Goto, TypeOK
  <2>. HIDE DEF c, r
  <2>2. \A d \in Cols : \A z \in Places(d)' :
          \/ z \in Places(d) /\ ~(d = c /\ z = <<"held", w>>)
          \/ d = c /\ z = <<"owner", r>>
    BY <1>2, <2>1 DEF Places
  <2>3. QED
    BY <1>1, <2>2, MovedPlace
<1>4. CASE ClaimDisplaced(w)
  <2>. DEFINE b == table[r].col
  <2>1. /\ r \in DOMAIN table /\ b \in Cols
        /\ HeldBy(w)' = {b}
    BY <1>4 DEF ClaimDisplaced, HeldBy, Goto, TypeOK, Owner
  <2>2. <<"owner", r>> \in Places(b)
    BY <2>1 DEF Places
  <2>. HIDE DEF b, c, r
  <2>3. b # c
    BY <1>1, <2>2 DEF OnePlace
  <2>4. HeldBy(w) = {c}
    BY <1>4 DEF ClaimDisplaced, HeldBy, c
  <2>5. \A d \in Cols : \A z \in Places(d)' :
          \/ z \in Places(d) /\ d \notin {b, c}
          \/ d = c /\ z = <<"owner", r>>
          \/ d = b /\ z = <<"held", w>>
          \/ d = c /\ z \in Places(c) /\ z # <<"held", w>>
          \/ d = b /\ z \in Places(b) /\ z # <<"owner", r>>
    BY <1>2, <2>1, <2>4 DEF Places, b
  <2>6. QED
    BY <1>1, <2>1, <2>2, <2>3, <2>5 DEF OnePlace
<1>5. QED
  BY <1>3, <1>4

\* Where a column is, as one piece with the types.
LEMMA StepPlaces ==
  ASSUME IInv, OnePlace, [Next]_vars
  PROVE  OnePlace'
<1>1. ASSUME NEW w \in Workers, Step(w) PROVE OnePlace'
  BY <1>1, QuietStepPlaces, DispensePlaces, PopPlaces, PushPlaces, ClaimPlaces DEF Step, IInv
<1>2. CASE UNCHANGED vars
  BY <1>2, KeptPlaces DEF vars, queueVars, passVars, Places, HeldBy
<1>3. QED
  BY <1>1, <1>2 DEF Next, Returned

\* At the start every column is undispensed and nowhere else.
LEMMA InitPlaces == Init => OnePlace
<1>. SUFFICES ASSUME Init, NEW c \in Cols, NEW x \in Places(c) PROVE x = <<"undispensed", c>>
  BY DEF OnePlace
<1>1. \A u \in Workers : HeldBy(u) = {}
  BY DEF Init, HeldBy
<1>2. DOMAIN table = {} /\ DOMAIN requeued = {}
  BY DEF Init, EmptyTable
<1>3. QED
  BY <1>1, <1>2 DEF Places

\* In every state each column lies in one place.
LEMMA OnePlaceInvariant == Spec => []OnePlace
<1>1. IInv /\ OnePlace /\ [Next]_vars => OnePlace'
  BY StepPlaces
<1>2. QED
  BY <1>1, InitPlaces, InductiveInvariant, PTL DEF Spec

\* Two threads never reduce one column, a displaced column goes back to the
\* queue once, and no column owns two pivots.
THEOREM ColumnsInOnePlace == Spec => []ColumnInOnePlace
<1>1. OnePlace => ColumnInOnePlace
  <2>. SUFFICES ASSUME OnePlace, NEW c \in Cols PROVE Cardinality(Places(c)) <= 1
    BY DEF ColumnInOnePlace
  <2>1. CASE Places(c) = {}
    BY <2>1, FS_EmptySet
  <2>2. CASE Places(c) # {}
    <3>1. PICK x : Places(c) = {x}
      BY <2>2 DEF OnePlace
    <3>2. Cardinality({x}) = 1
      BY FS_Singleton
    <3>3. QED
      BY <3>1, <3>2
  <2>3. QED
    BY <2>1, <2>2
<1>2. QED
  BY <1>1, OnePlaceInvariant, PTL

-----------------------------------------------------------------------------
(* What the owners stand for *)

\* Symmetric difference is an abelian group operation on sets.
LEMMA SumAssociates ==
  ASSUME NEW A, NEW B, NEW C
  PROVE  /\ SymDiff(SymDiff(A, B), C) = SymDiff(A, SymDiff(B, C))
         /\ SymDiff({}, A) = A
         /\ SymDiff(A, {}) = A
BY DEF SymDiff

\* The simplices are finitely many.
LEMMA FiniteSimplices == IsFiniteSet(Simplices)
<1>1. IsFiniteSet(Cols) /\ IsFiniteSet(-NumRows .. -1)
  BY FS_Interval, SizeAssumption DEF Cols
<1>2. Simplices \subseteq Cols \cup (-NumRows .. -1)
  BY SizeAssumption DEF Simplices, Facets, Rows
<1>3. IsFiniteSet(Cols \cup (-NumRows .. -1))
  BY <1>1, FS_Union
<1>4. QED
  BY <1>2, <1>3, FS_Subset

\* The size of a symmetric difference has the parity of the sum of the sizes.
LEMMA SumParity ==
  ASSUME NEW A, NEW B, IsFiniteSet(A), IsFiniteSet(B)
  PROVE  /\ Cardinality(A) \in Nat /\ Cardinality(B) \in Nat
         /\ Cardinality(SymDiff(A, B)) \in Nat
         /\ \E n \in Nat : Cardinality(A) + Cardinality(B)
                             = Cardinality(SymDiff(A, B)) + 2 * n
<1>. DEFINE a == Cardinality(A)
            b == Cardinality(B)
            n == Cardinality(A \cap B)
<1>1. a \in Nat /\ b \in Nat
  BY FS_CardinalityType
<1>2. IsFiniteSet(A \cap B)
  BY FS_Intersection
<1>3. n \in Nat
  BY <1>2, FS_CardinalityType
<1>4. IsFiniteSet(A \ B) /\ Cardinality(A \ B) = a - n
  BY FS_Difference
<1>5. IsFiniteSet(B \ A) /\ Cardinality(B \ A) = b - n
  <2>1. B \cap A = A \cap B
    OBVIOUS
  <2>2. QED
    BY <2>1, FS_Difference
<1>6. Cardinality((A \ B) \cap (B \ A)) = 0
  <2>1. (A \ B) \cap (B \ A) = {}
    OBVIOUS
  <2>2. QED
    BY <2>1, FS_EmptySet
<1>7. /\ IsFiniteSet(SymDiff(A, B))
      /\ Cardinality(SymDiff(A, B)) = (a - n) + (b - n) - 0
  BY <1>4, <1>5, <1>6, FS_Union DEF SymDiff
<1>8. Cardinality(SymDiff(A, B)) \in Nat
  BY <1>7, FS_CardinalityType
<1>. HIDE DEF a, b, n
<1>9. a + b = Cardinality(SymDiff(A, B)) + 2 * n
  BY <1>1, <1>3, <1>7
<1>10. QED
  BY <1>1, <1>3, <1>8, <1>9 DEF a, b

\* add_simplex_coboundary is linear: the coboundary of a sum of simplices is
\* the sum of their coboundaries, that of one simplex is its own column.
LEMMA BoundaryLinear ==
  ASSUME NEW p \in Problem, NEW A \in SUBSET Simplices, NEW B \in SUBSET Simplices
  PROVE  Boundary(p, SymDiff(A, B)) = SymDiff(Boundary(p, A), Boundary(p, B))
<1>. DEFINE Over(S, r) == {s \in S : r \in p.cob[s]}
            Odd(S, r)  == Cardinality(Over(S, r)) % 2 = 1
<1>1. ASSUME NEW r \in Rows
      PROVE  Odd(SymDiff(A, B), r) <=> ~(Odd(A, r) <=> Odd(B, r))
  <2>1. IsFiniteSet(Over(A, r)) /\ IsFiniteSet(Over(B, r))
    BY FiniteSimplices, FS_Subset
  <2>2. Over(SymDiff(A, B), r) = SymDiff(Over(A, r), Over(B, r))
    BY DEF SymDiff
  <2>. DEFINE a == Cardinality(Over(A, r))
              b == Cardinality(Over(B, r))
              c == Cardinality(Over(SymDiff(A, B), r))
  <2>3. a \in Nat /\ b \in Nat /\ c \in Nat /\ \E n \in Nat : a + b = c + 2 * n
    <3>. DEFINE X == Over(A, r)
                Y == Over(B, r)
    <3>. HIDE DEF Over, X, Y
    <3>1. IsFiniteSet(X) /\ IsFiniteSet(Y)
      BY <2>1 DEF X, Y
    <3>2. /\ Cardinality(X) \in Nat /\ Cardinality(Y) \in Nat
          /\ Cardinality(SymDiff(X, Y)) \in Nat
          /\ \E n \in Nat : Cardinality(X) + Cardinality(Y) = Cardinality(SymDiff(X, Y)) + 2 * n
      BY <3>1, SumParity
    <3>3. QED
      BY <3>2, <2>2 DEF X, Y
  <2>. HIDE DEF a, b, c
  <2>4. c % 2 = 1 <=> ~(a % 2 = 1 <=> b % 2 = 1)
    <3>1. PICK n \in Nat : a + b = c + 2 * n
      BY <2>3
    <3>2. (a + b) % 2 = c % 2
      BY <2>3, <3>1
    <3>3. /\ a % 2 \in {0, 1} /\ b % 2 \in {0, 1} /\ c % 2 \in {0, 1}
          /\ (a + b) % 2 = (IF a % 2 = b % 2 THEN 0 ELSE 1)
      BY <2>3
    <3>4. QED
      BY <3>2, <3>3
  <2>5. QED
    BY <2>4 DEF a, b, c
<1>2. QED
  BY <1>1 DEF Boundary, SymDiff

\* The boundary of nothing, and of one simplex.
LEMMA BoundaryOfFew ==
  ASSUME NEW p \in Problem
  PROVE  /\ Boundary(p, {}) = {}
         /\ \A s \in Simplices : Boundary(p, {s}) = p.cob[s]
<1>1. Boundary(p, {}) = {}
  <2>1. \A r \in Rows : {s \in {} : r \in p.cob[s]} = {}
    OBVIOUS
  <2>2. QED
    BY <2>1, FS_EmptySet DEF Boundary
<1>2. ASSUME NEW s \in Simplices PROVE Boundary(p, {s}) = p.cob[s]
  <2>1. p.cob[s] \subseteq Rows
    BY DEF Problem, Chain
  <2>2. ASSUME NEW r \in Rows
        PROVE  Cardinality({t \in {s} : r \in p.cob[t]}) % 2 = 1 <=> r \in p.cob[s]
    <3>1. CASE r \in p.cob[s]
      <4>1. {t \in {s} : r \in p.cob[t]} = {s}
        BY <3>1
      <4>2. Cardinality({s}) = 1 /\ 1 % 2 = 1
        BY FS_Singleton
      <4>3. Cardinality({t \in {s} : r \in p.cob[t]}) % 2 = 1
        BY <4>1, <4>2, Zenon
      <4>4. QED
        BY <3>1, <4>3, Zenon
    <3>2. CASE r \notin p.cob[s]
      <4>1. {t \in {s} : r \in p.cob[t]} = {}
        BY <3>2
      <4>2. Cardinality({}) = 0 /\ 0 % 2 # 1
        BY FS_EmptySet
      <4>3. Cardinality({t \in {s} : r \in p.cob[t]}) % 2 # 1
        BY <4>1, <4>2, Zenon
      <4>4. QED
        BY <3>2, <4>3, Zenon
    <3>3. QED
      BY <3>1, <3>2, Zenon
  <2>3. QED
    BY <2>1, <2>2 DEF Boundary
<1>3. QED
  BY <1>1, <1>2

\* What a worker holds between two steps of a pass: the chain its V-column
\* stands for, or nothing yet when the shortcut took the first cofacet.
PassReduces ==
  \A w \in Workers : pc[w] \in {"look", "claim"} =>
    /\ \A s \in red[w] : s < col[w]
    /\ \/ /\ work[w] = ReducedChain(col[w], red[w])
          /\ pivot[w] = LeadOf(work[w])
       \/ /\ work[w] = {} /\ red[w] = {}
          /\ pivot[w] = LeadOf(ctx.cob[col[w]])
          /\ pivot[w] \in Rows \ ctx.apparent

\* Folding adds to the V-column and to the chain alike.
LEMMA FoldReduces ==
  ASSUME TypeOK, NEW c \in Cols, NEW v \in SUBSET Simplices, NEW more \in SUBSET Simplices
  PROVE  SymDiff(ReducedChain(c, v), Boundary(ctx, more)) = ReducedChain(c, SymDiff(v, more))
<1>1. Boundary(ctx, SymDiff(v, more)) = SymDiff(Boundary(ctx, v), Boundary(ctx, more))
  BY BoundaryLinear DEF TypeOK
<1>2. QED
  BY <1>1, SumAssociates DEF ReducedChain

\* The chain of an empty V-column is the coboundary itself.
LEMMA UnfoldedChain ==
  ASSUME TypeOK, NEW c \in Cols
  PROVE  ReducedChain(c, {}) = ctx.cob[c]
BY BoundaryOfFew, SumAssociates DEF ReducedChain, TypeOK

\* The steps of a pass keep what the worker holds; no other worker's pass is
\* touched.
LEMMA OtherPasses ==
  ASSUME TypeOK, PassReduces, NEW w \in Workers, ctx' = ctx,
         \A u \in Workers \ {w} :
           /\ pc'[u] = pc[u] /\ col'[u] = col[u] /\ work'[u] = work[u]
           /\ red'[u] = red[u] /\ pivot'[u] = pivot[u],
         pc'[w] \in {"look", "claim"} =>
           /\ \A s \in red'[w] : s < col'[w]
           /\ \/ /\ work'[w] = ReducedChain(col'[w], red'[w])
                 /\ pivot'[w] = LeadOf(work'[w])
              \/ /\ work'[w] = {} /\ red'[w] = {}
                 /\ pivot'[w] = LeadOf(ctx.cob[col'[w]])
                 /\ pivot'[w] \in Rows \ ctx.apparent
  PROVE  PassReduces'
BY DEF PassReduces, ReducedChain

\* A step of a worker changes the registers of no other.
LEMMA StepTouchesOne ==
  ASSUME TypeOK, NEW w \in Workers, Step(w)
  PROVE  /\ ctx' = ctx
         /\ \A u \in Workers \ {w} :
              /\ pc'[u] = pc[u] /\ col'[u] = col[u] /\ work'[u] = work[u]
              /\ red'[u] = red[u] /\ pivot'[u] = pivot[u]
<1>1. CASE ReadFlag(w) \/ PopRequeued(w) \/ Dispense(w) \/ Report(w) \/ Check(w)
  BY <1>1 DEF ReadFlag, PopRequeued, Dispense, Report, Check, Goto, TypeOK, passVars, queueVars
<1>2. CASE InitCoboundary(w) \/ Essential(w) \/ FoldReducer(w) \/ FoldApparentFacet(w) \/ FoundPivot(w)
  BY <1>2 DEF InitCoboundary, Essential, FoldReducer, FoldApparentFacet, FoundPivot, Goto,
              TypeOK, passVars, queueVars
<1>3. CASE \/ ClaimWon(w) \/ ClaimDisplaced(w) \/ ClaimLost(w)
           \/ RaisePending(w) \/ PushDisplaced(w) \/ PushLost(w)
  BY <1>3 DEF ClaimWon, ClaimDisplaced, ClaimLost, RaisePending, PushDisplaced, PushLost, Goto,
              TypeOK, passVars, queueVars
<1>4. QED
  BY <1>1, <1>2, <1>3 DEF Step

\* A pass starts with an empty V-column and the column's own coboundary, or
\* with the shortcut's bare pivot.
LEMMA InitPass ==
  ASSUME TypeOK, PassReduces, NEW w \in Workers, InitCoboundary(w)
  PROVE  PassReduces'
<1>. DEFINE c     == col[w]
            chain == ctx.cob[c]
<1>1. c \in Cols /\ chain \in Chain /\ ctx \in Problem
  BY SumType DEF TypeOK, Simplices
<1>2. /\ pc'[w] = "look" /\ col'[w] = c /\ red'[w] = {} /\ pivot'[w] = LeadOf(chain)
      /\ work'[w] = IF Shortcut(ctx, c, DOMAIN table) THEN {} ELSE chain
  BY DEF InitCoboundary, Goto, TypeOK, passVars
<1>3. CASE Shortcut(ctx, c, DOMAIN table)
  <2>1. c \in ctx.emergent /\ Pivot(chain) \notin ctx.apparent
    BY <1>3 DEF Shortcut
  <2>2. chain # {}
    BY <2>1 DEF TypeOK, Problem
  <2>3. LeadOf(chain) \in Rows \ ctx.apparent
    BY <1>1, <2>1, <2>2, PivotInChain DEF LeadOf, Chain
  <2>4. QED
    BY <1>2, <1>3, <2>3, OtherPasses, StepTouchesOne DEF Step
<1>4. CASE ~Shortcut(ctx, c, DOMAIN table)
  <2>1. chain = ReducedChain(c, {})
    BY <1>1, UnfoldedChain
  <2>2. QED
    BY <1>2, <1>4, <2>1, OtherPasses, StepTouchesOne DEF Step
<1>5. QED
  BY <1>3, <1>4

\* Folding an owner: its V-column ends below it, and it is below the column.
LEMMA FoldPass ==
  ASSUME TypeOK, OwnersReduce, PassReduces, NEW w \in Workers, FoldReducer(w)
  PROVE  PassReduces'
<1>. DEFINE c       == col[w]
            owner   == table[pivot[w]]
            reducer == Reducer(owner)
            built   == IF Built(w) THEN work[w] ELSE ctx.cob[c]
<1>1. /\ c \in Cols /\ owner \in Owner /\ red[w] \in SUBSET Simplices
      /\ owner.col < c /\ pivot[w] # NoPivot /\ ctx \in Problem
      /\ \A s \in owner.v : s < owner.col
  BY DEF FoldReducer, OwnedBySmaller, TypeOK, OwnersReduce
<1>2. reducer \in SUBSET Simplices
  BY <1>1, SumType
<1>3. \A s \in reducer : s < c
  <2>1. \A s \in owner.v : s \in Int
    BY <1>1, SizeAssumption DEF Owner, Simplices, Cols, Facets, Rows
  <2>2. owner.col \in Int /\ c \in Int
    BY <1>1, SizeAssumption DEF Owner, Cols
  <2>3. \A s \in reducer : s = owner.col \/ s \in owner.v
    BY DEF Reducer, SymDiff
  <2>4. QED
    BY <1>1, <2>1, <2>2, <2>3
<1>4. /\ \A s \in red[w] : s < c
      /\ built = ReducedChain(c, red[w])
  <2>1. pc[w] = "look"
    BY DEF FoldReducer
  <2>2. CASE work[w] = ReducedChain(c, red[w]) /\ pivot[w] = LeadOf(work[w])
    <3>1. Built(w)
      BY <1>1, <2>2 DEF Built, LeadOf
    <3>2. QED
      BY <2>1, <2>2, <3>1 DEF PassReduces
  <2>3. CASE work[w] = {} /\ red[w] = {}
    <3>1. ~Built(w)
      BY <1>1, <2>3 DEF Built
    <3>2. QED
      BY <1>1, <2>3, <3>1, UnfoldedChain
  <2>4. QED
    BY <2>1, <2>2, <2>3 DEF PassReduces
<1>5. /\ pc'[w] = "look" /\ col'[w] = c /\ red'[w] = SymDiff(red[w], reducer)
      /\ work'[w] = SymDiff(built, Boundary(ctx, reducer))
      /\ pivot'[w] = LeadOf(work'[w])
  BY DEF FoldReducer, TypeOK
<1>. HIDE DEF built, reducer, owner
<1>6. work'[w] = ReducedChain(c, red'[w])
  BY <1>1, <1>2, <1>4, <1>5, FoldReduces
<1>7. \A s \in red'[w] : s < c
  BY <1>3, <1>4, <1>5 DEF SymDiff
<1>8. QED
  BY <1>5, <1>6, <1>7, OtherPasses, StepTouchesOne DEF Step

\* Folding an apparent facet: a facet is no column, and the chain is built.
LEMMA FacetPass ==
  ASSUME TypeOK, PassReduces, NEW w \in Workers, FoldApparentFacet(w)
  PROVE  PassReduces'
<1>. DEFINE c     == col[w]
            facet == -pivot[w]
<1>1. /\ c \in Cols /\ red[w] \in SUBSET Simplices /\ ctx \in Problem
      /\ pivot[w] \in ctx.apparent /\ pc[w] = "look"
  BY DEF FoldApparentFacet, TypeOK
<1>2. pivot[w] \in Rows /\ facet \in Simplices /\ facet < c
  BY <1>1, SizeAssumption DEF Problem, Simplices, Facets, Rows, Cols
<1>3. /\ \A s \in red[w] : s < c
      /\ work[w] = ReducedChain(c, red[w])
  BY <1>1 DEF PassReduces
<1>4. /\ pc'[w] = "look" /\ col'[w] = c /\ red'[w] = SymDiff(red[w], {facet})
      /\ work'[w] = SymDiff(work[w], ctx.cob[facet])
      /\ pivot'[w] = LeadOf(work'[w])
  BY DEF FoldApparentFacet, TypeOK
<1>. HIDE DEF facet
<1>5. ctx.cob[facet] = Boundary(ctx, {facet})
  BY <1>1, <1>2, BoundaryOfFew
<1>6. work'[w] = ReducedChain(c, red'[w])
  <2>1. {facet} \in SUBSET Simplices
    BY <1>2
  <2>2. QED
    BY <1>1, <1>3, <1>4, <1>5, <2>1, FoldReduces
<1>7. \A s \in red'[w] : s < c
  BY <1>2, <1>3, <1>4 DEF SymDiff
<1>8. QED
  BY <1>4, <1>6, <1>7, OtherPasses, StepTouchesOne DEF Step

\* No other step changes what a worker holds while its pass goes on.
LEMMA RestOfPass ==
  ASSUME TypeOK, PassReduces, NEW w \in Workers,
         Step(w), ~InitCoboundary(w), ~FoldReducer(w), ~FoldApparentFacet(w)
  PROVE  PassReduces'
<1>1. CASE FoundPivot(w)
  <2>1. /\ pc[w] = "look" /\ UNCHANGED <<col, work, red, pivot>>
    BY <1>1 DEF FoundPivot, passVars
  <2>2. QED
    BY <2>1, OtherPasses, StepTouchesOne DEF PassReduces
<1>2. CASE ~FoundPivot(w)
  <2>1. pc'[w] \notin {"look", "claim"}
    <3>1. CASE ReadFlag(w) \/ PopRequeued(w) \/ Dispense(w) \/ Report(w) \/ Check(w)
      BY <3>1 DEF ReadFlag, PopRequeued, Dispense, Report, Check, Goto, TypeOK
    <3>2. CASE \/ Essential(w) \/ ClaimWon(w) \/ ClaimDisplaced(w) \/ ClaimLost(w)
               \/ RaisePending(w) \/ PushDisplaced(w) \/ PushLost(w)
      BY <3>2 DEF Essential, ClaimWon, ClaimDisplaced, ClaimLost, RaisePending,
                  PushDisplaced, PushLost, Goto, TypeOK
    <3>3. QED
      BY <1>2, <3>1, <3>2 DEF Step
  <2>2. QED
    BY <2>1, OtherPasses, StepTouchesOne
<1>3. QED
  BY <1>1, <1>2

\* What a claim installs is what the worker holds.
LEMMA StepOwners ==
  ASSUME TypeOK, ClaimsPivot, OwnersReduce, PassReduces, NEW w \in Workers, Step(w)
  PROVE  OwnersReduce'
<1>0. ctx' = ctx
  BY StepTouchesOne
<1>1. CASE ClaimWon(w) \/ ClaimDisplaced(w)
  <2>1. /\ pc[w] = "claim" /\ pivot[w] \in Rows
        /\ table' = Installed(table, pivot[w], [col |-> col[w], v |-> red[w]])
    BY <1>1 DEF ClaimWon, ClaimDisplaced, Install, ClaimsPivot, TypeOK
  <2>2. \A s \in red[w] : s < col[w]
    BY <2>1 DEF PassReduces
  <2>3. LeadOf(ReducedChain(col[w], red[w])) = pivot[w]
    <3>1. col[w] \in Cols
      BY DEF TypeOK
    <3>2. QED
      BY <2>1, <3>1, UnfoldedChain DEF PassReduces
  <2>4. QED
    BY <1>0, <2>1, <2>2, <2>3 DEF OwnersReduce, Installed, ReducedChain
<1>2. CASE ~ClaimWon(w) /\ ~ClaimDisplaced(w)
  <2>1. table' = table
    <3>1. CASE ReadFlag(w) \/ PopRequeued(w) \/ Dispense(w) \/ Report(w) \/ Check(w)
      BY <3>1 DEF ReadFlag, PopRequeued, Dispense, Report, Check
    <3>2. CASE \/ Essential(w) \/ InitCoboundary(w) \/ FoldReducer(w)
               \/ FoldApparentFacet(w) \/ FoundPivot(w) \/ ClaimLost(w)
               \/ RaisePending(w) \/ PushDisplaced(w) \/ PushLost(w)
      BY <3>2 DEF Essential, InitCoboundary, FoldReducer, FoldApparentFacet, FoundPivot,
                  ClaimLost, RaisePending, PushDisplaced, PushLost
    <3>3. QED
      BY <1>2, <3>1, <3>2 DEF Step
  <2>2. QED
    BY <1>0, <2>1 DEF OwnersReduce, ReducedChain
<1>3. QED
  BY <1>1, <1>2

\* Every step keeps the owners and the passes reduced.
LEMMA ReducesStep ==
  ASSUME IInv, OwnersReduce, PassReduces, [Next]_vars
  PROVE  OwnersReduce' /\ PassReduces'
<1>1. ASSUME NEW w \in Workers, Step(w) PROVE OwnersReduce' /\ PassReduces'
  BY <1>1, StepOwners, InitPass, FoldPass, FacetPass, RestOfPass DEF IInv
<1>2. CASE UNCHANGED vars
  BY <1>2 DEF vars, passVars, queueVars, OwnersReduce, PassReduces, ReducedChain
<1>3. QED
  BY <1>1, <1>2 DEF Next, Returned

\* In every state the owners and the columns of the passes are sums of columns
\* of the matrix, as their chains say.
LEMMA ReducesInvariant == Spec => [](OwnersReduce /\ PassReduces)
<1>1. Init => OwnersReduce /\ PassReduces
  BY DEF Init, OwnersReduce, PassReduces, EmptyTable
<1>2. IInv /\ (OwnersReduce /\ PassReduces) /\ [Next]_vars => (OwnersReduce /\ PassReduces)'
  BY ReducesStep
<1>3. QED
  BY <1>1, <1>2, InductiveInvariant, PTL DEF Spec

\* Whatever pivots were claimed and whoever was displaced, the stored form of
\* an owner starts from its column and leads at its pivot (claim_pivot).
THEOREM OwnersAlwaysReduce == Spec => []OwnersReduce
BY ReducesInvariant, PTL

-----------------------------------------------------------------------------
(* The pivot table as a registry *)

\* A worker leaves on a zero, and pending stays zero after it.
ExitAtZero == \A w \in Workers : pc[w] = "exit" => pending = 0

\* Once pending is zero a worker only polls: it finds nothing to take and has
\* nothing left to report.
LEMMA ZeroStays ==
  ASSUME IInv, pending = 0, NEW w \in Workers, Step(w)
  PROVE  pending' = 0
<1>1. Outstanding = {}
  BY FS_EmptySet DEF IInv, Accounts
<1>2. ~InPass(w)
  BY <1>1 DEF Outstanding
<1>3. done[w] = 0
  <2>1. done[w] \in Nat
    BY DEF IInv, TypeOK
  <2>2. done[w] >= 1 => <<"done", w, 1>> \in Outstanding
    BY <2>1 DEF Outstanding
  <2>3. QED
    BY <1>1, <2>1, <2>2
<1>4. ReadFlag(w) \/ PopRequeued(w) \/ Dispense(w) \/ Report(w) \/ Check(w)
  <2>1. pc[w] \notin {"init", "look", "claim", "raise", "pushDisplaced", "pushLost"}
    BY <1>2 DEF InPass
  <2>2. QED
    BY <2>1 DEF Step, InitCoboundary, Essential, FoldReducer, FoldApparentFacet, FoundPivot,
                ClaimWon, ClaimDisplaced, ClaimLost, RaisePending, PushDisplaced, PushLost
<1>5. pending' = pending \/ pending' = pending - done[w]
  BY <1>4 DEF ReadFlag, PopRequeued, Dispense, Report, Check, queueVars
<1>6. QED
  BY <1>3, <1>5

\* A worker that leaves, leaves at a count of zero.
LEMMA StepExits ==
  ASSUME IInv, ExitAtZero, NEW w \in Workers, Step(w)
  PROVE  ExitAtZero'
<1>1. \A u \in Workers \ {w} : pc'[u] = pc[u]
  BY StepTouchesOne DEF IInv
<1>2. CASE pending = 0
  BY <1>2, ZeroStays DEF ExitAtZero
<1>3. CASE pending # 0
  <2>1. \A u \in Workers : pc[u] # "exit"
    BY <1>3 DEF ExitAtZero
  <2>2. pc'[w] # "exit"
    <3>1. CASE ReadFlag(w) \/ PopRequeued(w) \/ Dispense(w) \/ Report(w) \/ Check(w)
      BY <1>3, <3>1 DEF ReadFlag, PopRequeued, Dispense, Report, Check, Goto, IInv, TypeOK
    <3>2. CASE InitCoboundary(w) \/ Essential(w) \/ FoldReducer(w) \/ FoldApparentFacet(w)
               \/ FoundPivot(w)
      BY <2>1, <3>2 DEF InitCoboundary, Essential, FoldReducer, FoldApparentFacet, FoundPivot,
                        Goto, IInv, TypeOK
    <3>3. CASE \/ ClaimWon(w) \/ ClaimDisplaced(w) \/ ClaimLost(w)
               \/ RaisePending(w) \/ PushDisplaced(w) \/ PushLost(w)
      BY <3>3 DEF ClaimWon, ClaimDisplaced, ClaimLost, RaisePending, PushDisplaced, PushLost,
                  Goto, IInv, TypeOK
    <3>4. QED
      BY <3>1, <3>2, <3>3 DEF Step
  <2>3. QED
    BY <1>1, <2>1, <2>2 DEF ExitAtZero
<1>4. QED
  BY <1>2, <1>3

\* The registry closes when the first worker leaves: on a zero, with the
\* owners as they are.
Closes ==
  /\ pending = 0
  /\ \A w \in Workers : pc[w] # "exit"
  /\ \E w \in Workers : pc'[w] = "exit"
  /\ UNCHANGED <<ctx, OwnerOf(table)>>

\* A claim is a Take: the column is nowhere else, so it owns nothing and is
\* not the column it displaces, and no worker has left.
LEMMA ClaimTakes ==
  ASSUME IInv, OnePlace, ExitAtZero, NEW w \in Workers, ClaimWon(w) \/ ClaimDisplaced(w)
  PROVE  \E r \in Rows, c \in Cols : Registry!Take(r, c)
<1>. DEFINE c == col[w]
            r == pivot[w]
<1>1. /\ TypeOK /\ c \in Cols /\ r \in Rows /\ pc[w] = "claim"
      /\ <<"held", w>> \in Places(c)
  BY DEF ClaimWon, ClaimDisplaced, HeldBy, Places, ClaimsPivot, TypeOK, IInv
<1>2. \A u \in Workers : pc[u] # "exit"
  <2>1. pending # 0
    <3>1. InPass(w)
      BY <1>1 DEF InPass
    <3>2. <<"pass", w>> \in Outstanding
      BY <3>1 DEF Outstanding
    <3>3. QED
      BY <3>2, FS_EmptySet DEF IInv, Accounts
  <2>2. QED
    BY <2>1 DEF ExitAtZero
<1>3. \A s \in DOMAIN table : table[s].col # c
  <2>. SUFFICES ASSUME NEW s \in DOMAIN table, table[s].col = c PROVE FALSE
    OBVIOUS
  <2>1. <<"owner", s>> \in Places(c)
    BY DEF Places
  <2>2. QED
    BY <1>1, <2>1 DEF OnePlace
<1>4. r \in DOMAIN table => c < table[r].col
  <2>. SUFFICES ASSUME r \in DOMAIN table PROVE c < table[r].col
    OBVIOUS
  <2>1. table[r].col \in Cols /\ table[r].col >= c
    BY DEF ClaimWon, ClaimDisplaced, IInv, TypeOK, Owner
  <2>2. table[r].col # c
    BY <1>3
  <2>3. QED
    BY <1>1, <2>1, <2>2, SizeAssumption DEF Cols
<1>5. /\ ctx' = ctx
      /\ \A u \in Workers : pc'[u] # "exit"
      /\ table' = Installed(table, r, [col |-> c, v |-> red[w]])
  BY <1>2 DEF ClaimWon, ClaimDisplaced, Install, Goto, IInv, TypeOK
<1>. HIDE DEF r, c
<1>6. OwnerOf(table)' = Installed(OwnerOf(table), r, c)
  BY <1>5 DEF OwnerOf, Installed
<1>7. Registry!Take(r, c)
  <2>1. DOMAIN OwnerOf(table) = DOMAIN table /\ \A s \in DOMAIN table : OwnerOf(table)[s] = table[s].col
    BY DEF OwnerOf
  <2>2. OwnerOf(table)' = Registry!Installed(OwnerOf(table), r, c)
    BY <1>6 DEF Installed, Registry!Installed
  <2>3. UNCHANGED <<ctx, \A u \in Workers : pc[u] # "exit">>
    BY <1>2, <1>5
  <2>4. QED
    BY <1>2, <1>3, <1>4, <2>1, <2>2, <2>3 DEF Registry!Take
<1>8. QED
  BY <1>1, <1>7

\* Every step takes one pivot in the registry, closes it, or leaves it alone.
LEMMA StepKeepsRegistry ==
  ASSUME IInv, OnePlace, ExitAtZero, [Next]_vars
  PROVE  \/ \E r \in Rows, c \in Cols : Registry!Take(r, c)
         \/ Closes
         \/ UNCHANGED Registry!registryVars
<1>1. ASSUME NEW w \in Workers, Step(w)
      PROVE  \/ \E r \in Rows, c \in Cols : Registry!Take(r, c)
             \/ Closes
             \/ UNCHANGED Registry!registryVars
  <2>1. CASE ClaimWon(w) \/ ClaimDisplaced(w)
    BY <2>1, ClaimTakes
  <2>2. CASE ~ClaimWon(w) /\ ~ClaimDisplaced(w)
    <3>1. UNCHANGED <<ctx, table>>
      <4>1. CASE ReadFlag(w) \/ PopRequeued(w) \/ Dispense(w) \/ Report(w) \/ Check(w)
        BY <4>1 DEF ReadFlag, PopRequeued, Dispense, Report, Check
      <4>2. CASE \/ Essential(w) \/ InitCoboundary(w) \/ FoldReducer(w)
                 \/ FoldApparentFacet(w) \/ FoundPivot(w) \/ ClaimLost(w)
                 \/ RaisePending(w) \/ PushDisplaced(w) \/ PushLost(w)
        BY <4>2 DEF Essential, InitCoboundary, FoldReducer, FoldApparentFacet, FoundPivot,
                    ClaimLost, RaisePending, PushDisplaced, PushLost
      <4>3. QED
        BY <1>1, <2>2, <4>1, <4>2 DEF Step
    <3>2. UNCHANGED OwnerOf(table)
      BY <3>1
    <3>3. CASE \E u \in Workers : pc[u] = "exit"
      <4>1. PICK u \in Workers : pc[u] = "exit"
        BY <3>3
      <4>2. pc'[u] = "exit"
        <5>1. u # w
          BY <1>1, <4>1 DEF Step, ReadFlag, PopRequeued, Dispense, Report, Check, Essential,
             InitCoboundary, FoldReducer, FoldApparentFacet, FoundPivot, ClaimWon,
             ClaimDisplaced, ClaimLost, RaisePending, PushDisplaced, PushLost
        <5>2. QED
          BY <1>1, <4>1, <5>1, StepTouchesOne DEF IInv
      <4>3. QED
        BY <3>1, <3>2, <4>1, <4>2 DEF Registry!registryVars
    <3>4. CASE ~\E u \in Workers : pc[u] = "exit"
      <4>1. CASE \E u \in Workers : pc'[u] = "exit"
        <5>1. pending = 0
          <6>1. ASSUME pending # 0 PROVE ExitAtZero' /\ pending' # 0
            <7>1. PICK u \in Workers : pc'[u] = "exit"
              BY <4>1
            <7>2. u = w
              BY <1>1, <3>4, <7>1, StepTouchesOne DEF IInv
            <7>3. Check(w)
              BY <1>1, <3>4, <7>1, <7>2
              DEF Step, ReadFlag, PopRequeued, Dispense, Report, Check, Essential,
                  InitCoboundary, FoldReducer, FoldApparentFacet, FoundPivot, ClaimWon,
                  ClaimDisplaced, ClaimLost, RaisePending, PushDisplaced, PushLost, Goto,
                  IInv, TypeOK
            <7>4. QED
              BY <1>1, <6>1, <7>3, StepExits DEF Check, queueVars
          <6>2. QED
            BY <4>1, <6>1 DEF ExitAtZero
        <5>2. QED
          BY <3>1, <3>2, <3>4, <4>1, <5>1 DEF Closes
      <4>2. CASE ~\E u \in Workers : pc'[u] = "exit"
        BY <3>1, <3>2, <3>4, <4>2 DEF Registry!registryVars
      <4>3. QED
        BY <4>1, <4>2
    <3>5. QED
      BY <3>3, <3>4
  <2>3. QED
    BY <2>1, <2>2
<1>2. CASE UNCHANGED vars
  BY <1>2 DEF vars, Registry!registryVars
<1>3. QED
  BY <1>1, <1>2 DEF Next, Returned

\* In every state a worker that left saw nothing pending.
LEMMA ExitInvariant == Spec => []ExitAtZero
<1>1. Init => ExitAtZero
  BY DEF Init, ExitAtZero
<1>2. IInv /\ ExitAtZero /\ [Next]_vars => ExitAtZero'
  <2>1. CASE UNCHANGED vars
    BY <2>1 DEF vars, queueVars, ExitAtZero
  <2>2. QED
    BY <2>1, StepExits DEF Next, Returned
<1>3. QED
  BY <1>1, <1>2, InductiveInvariant, PTL DEF Spec

\* The pivot table is a registry at every step: a pivot passes only to a
\* smaller column that owns no other, is never given up, and nothing changes
\* hands once a worker has left.
THEOREM RegistryKept ==
  Spec => /\ Registry!RegistryInit
          /\ [][(\E r \in Rows, c \in Cols : Registry!Take(r, c)) \/ Closes]_(Registry!registryVars)
<1>1. Init => Registry!RegistryInit
  <2>. SUFFICES ASSUME Init PROVE Registry!RegistryInit
    OBVIOUS
  <2>1. ctx \in Problem /\ \A w \in Workers : pc[w] # "exit"
    BY ProblemAssumption DEF Init
  <2>2. OwnerOf(table) = EmptyTable
    BY DEF Init, OwnerOf, EmptyTable
  <2>3. Registry!Problem = Problem /\ Registry!EmptyTable = EmptyTable
    BY DEF Registry!Problem, Problem, Registry!EmptyTable, EmptyTable, Registry!LeadOf, LeadOf,
           Registry!Pivot, Pivot, Registry!NoPivot, NoPivot, Registry!Chain, Chain,
           Registry!Simplices, Simplices, Registry!Facets, Facets, Registry!Cols, Cols,
           Registry!Rows, Rows
  <2>4. QED
    BY <2>1, <2>2, <2>3 DEF Registry!RegistryInit
<1>2. QED
  BY <1>1, StepKeepsRegistry, InductiveInvariant, OnePlaceInvariant, ExitInvariant, PTL DEF Spec

-----------------------------------------------------------------------------
(* The pivots of a problem *)

\* What the columns before n and the apparent facets span, and the rows that
\* a nonzero chain of it can lead at.
Before(p, n) == {-r : r \in p.apparent} \cup {c \in Cols : c < n}
Span(p, n)   == {Boundary(p, S) : S \in SUBSET Before(p, n)}
Leads(p, n)  == {Pivot(chain) : chain \in Span(p, n) \ {{}}}

\* A pivot table in which the columns before n have been dealt with: an owner
\* is reduced against what comes before it, and a column that owns nothing is
\* a sum of what comes before it.
Settled(p, owners, n) ==
  /\ DOMAIN owners \subseteq Rows \ p.apparent
  /\ \A r \in DOMAIN owners :
       /\ owners[r] \in Owner /\ owners[r].col < n
       /\ owners[r].v \subseteq Before(p, owners[r].col)
       /\ LeadOf(SymDiff(p.cob[owners[r].col], Boundary(p, owners[r].v))) = r
  /\ \A r, s \in DOMAIN owners : owners[r].col = owners[s].col => r = s
  /\ \A c \in Cols : c < n =>
       (\E r \in DOMAIN owners : owners[r].col = c) \/ p.cob[c] \in Span(p, c)

\* The parts of a span are simplices.
LEMMA BeforeType ==
  ASSUME NEW p \in Problem, NEW n
  PROVE  Before(p, n) \subseteq Simplices
BY DEF Before, Problem, Simplices, Facets

\* A span is a group of chains that grows with the columns.
LEMMA SpanGroup ==
  ASSUME NEW p \in Problem, NEW n
  PROVE  /\ {} \in Span(p, n)
         /\ Span(p, n) \subseteq Chain
         /\ \A a, b \in Span(p, n) : SymDiff(a, b) \in Span(p, n)
<1>1. {} \in Span(p, n)
  <2>1. {} = Boundary(p, {}) /\ {} \in SUBSET Before(p, n)
    BY BoundaryOfFew
  <2>2. QED
    BY <2>1, Zenon DEF Span
<1>2. Span(p, n) \subseteq Chain
  <2>. SUFFICES ASSUME NEW S \in SUBSET Before(p, n) PROVE Boundary(p, S) \in Chain
    BY DEF Span
  <2>1. S \in SUBSET Simplices
    BY BeforeType
  <2>2. QED
    BY <2>1, SumType
<1>3. ASSUME NEW a \in Span(p, n), NEW b \in Span(p, n)
      PROVE  SymDiff(a, b) \in Span(p, n)
  <2>1. PICK A \in SUBSET Before(p, n) : a = Boundary(p, A)
    BY DEF Span
  <2>2. PICK B \in SUBSET Before(p, n) : b = Boundary(p, B)
    BY DEF Span
  <2>3. A \in SUBSET Simplices /\ B \in SUBSET Simplices
    BY BeforeType
  <2>4. SymDiff(a, b) = Boundary(p, SymDiff(A, B))
    BY <2>1, <2>2, <2>3, BoundaryLinear
  <2>5. SymDiff(A, B) \in SUBSET Before(p, n)
    BY DEF SymDiff
  <2>6. QED
    BY <2>4, <2>5, Zenon DEF Span
<1>4. QED
  BY <1>1, <1>2, <1>3

\* A sum of two chains that lead at different rows leads at one of them.
LEMMA LeadOfSum ==
  ASSUME NEW a \in Chain, NEW b \in Chain, a # {}, b # {}, Pivot(a) # Pivot(b)
  PROVE  SymDiff(a, b) # {} /\ Pivot(SymDiff(a, b)) \in {Pivot(a), Pivot(b)}
<1>. DEFINE sum == SymDiff(a, b)
<1>1. sum \in Chain
  BY SumType
<1>2. /\ Pivot(a) \in a /\ \A s \in a : Pivot(a) <= s
      /\ Pivot(b) \in b /\ \A s \in b : Pivot(b) <= s
  BY PivotInChain
<1>3. /\ \A s \in a \cup b \cup sum : s \in Int
      /\ Pivot(a) \in Int /\ Pivot(b) \in Int
  <2>1. \A s \in Rows : s \in Int
    BY SizeAssumption DEF Rows
  <2>2. a \subseteq Rows /\ b \subseteq Rows /\ sum \subseteq Rows
    BY <1>1 DEF Chain
  <2>3. QED
    BY <1>2, <2>1, <2>2
<1>. DEFINE q == Pivot(a)
            t == Pivot(b)
<1>. HIDE DEF q, t
<1>4. PICK r \in sum : r \in {q, t} /\ \A s \in sum : r <= s
  <2>0. /\ q \in a /\ \A s \in a : q <= s
        /\ t \in b /\ \A s \in b : t <= s
        /\ q \in Int /\ t \in Int /\ q # t
    BY <1>2, <1>3 DEF q, t
  <2>1. CASE q < t
    <3>1. q \in sum
      BY <2>0, <2>1 DEF SymDiff
    <3>2. ASSUME NEW s \in sum PROVE q <= s
      <4>1. s \in Int /\ (s \in a \/ s \in b)
        BY <1>3 DEF SymDiff
      <4>2. QED
        BY <2>0, <2>1, <4>1
    <3>3. QED
      BY <3>1, <3>2
  <2>2. CASE t < q
    <3>1. t \in sum
      BY <2>0, <2>2 DEF SymDiff
    <3>2. ASSUME NEW s \in sum PROVE t <= s
      <4>1. s \in Int /\ (s \in a \/ s \in b)
        BY <1>3 DEF SymDiff
      <4>2. QED
        BY <2>0, <2>2, <4>1
    <3>3. QED
      BY <3>1, <3>2
  <2>3. QED
    BY <2>0, <2>1, <2>2
<1>. HIDE DEF sum
<1>5. Pivot(sum) \in sum /\ \A s \in sum : Pivot(sum) <= s
  BY <1>1, <1>4, PivotInChain
<1>6. Pivot(sum) = r
  <2>1. Pivot(sum) \in Int /\ r \in Int
    BY <1>3, <1>4, <1>5
  <2>2. Pivot(sum) <= r /\ r <= Pivot(sum)
    BY <1>4, <1>5
  <2>3. QED
    BY <2>1, <2>2
<1>7. QED
  BY <1>4, <1>6 DEF sum, q, t

\* A chain with a smallest row leads there.
LEMMA LeadAtLeast ==
  ASSUME NEW chain \in Chain, NEW r \in chain, \A s \in chain : r <= s
  PROVE  LeadOf(chain) = r
<1>1. Pivot(chain) \in chain /\ \A s \in chain : Pivot(chain) <= s
  BY PivotInChain
<1>2. r \in Int /\ Pivot(chain) \in Int
  <2>1. \A s \in chain : s \in Int
    BY SizeAssumption DEF Chain, Rows
  <2>2. QED
    BY <1>1, <2>1
<1>3. QED
  BY <1>1, <1>2 DEF LeadOf

\* A chain that leads at a row has it as its pivot.
LEMMA LeadIsPivot ==
  ASSUME NEW chain \in Chain, NEW r \in Rows
  PROVE  LeadOf(chain) = r <=> chain # {} /\ Pivot(chain) = r
BY DEF LeadOf, NoPivot, Rows

\* The apparent facets alone lead at their own rows only.
LEMMA FacetLeads ==
  ASSUME NEW p \in Problem
  PROVE  Leads(p, 0) = p.apparent
<1>. DEFINE facets == {-r : r \in p.apparent}
<1>1. /\ p.apparent \subseteq Rows /\ Rows \subseteq Int
      /\ Before(p, 0) = facets /\ facets \subseteq Simplices
  <2>1. {c \in Cols : c < 0} = {}
    BY SizeAssumption DEF Cols
  <2>2. p.apparent \subseteq Rows /\ Rows \subseteq Int
    BY DEF Problem, Rows
  <2>3. QED
    BY <2>1, <2>2, BeforeType DEF Before
<1>2. ASSUME NEW r \in p.apparent
      PROVE  /\ p.cob[-r] \in Chain /\ r \in p.cob[-r]
             /\ \A s \in p.cob[-r] : r <= s
  <2>1. -r \in Simplices
    BY <1>1
  <2>2. p.cob[-r] \in Chain /\ LeadOf(p.cob[-r]) = r
    BY <2>1, SumType DEF Problem
  <2>3. p.cob[-r] # {} /\ Pivot(p.cob[-r]) = r
    BY <1>1, <2>2, LeadIsPivot
  <2>4. QED
    BY <2>2, <2>3, PivotInChain
<1>3. ASSUME NEW r \in p.apparent
      PROVE  r \in Leads(p, 0)
  <2>1. -r \in Simplices /\ {-r} \in SUBSET Before(p, 0)
    BY <1>1
  <2>2. Boundary(p, {-r}) = p.cob[-r]
    BY <2>1, BoundaryOfFew
  <2>3. p.cob[-r] \in Span(p, 0)
    BY <2>1, <2>2 DEF Span
  <2>4. p.cob[-r] # {} /\ Pivot(p.cob[-r]) = r
    BY <1>1, <1>2, LeadAtLeast, LeadIsPivot
  <2>5. QED
    BY <2>3, <2>4 DEF Leads
<1>4. ASSUME NEW S \in SUBSET facets, Boundary(p, S) # {}
      PROVE  Pivot(Boundary(p, S)) \in p.apparent
  <2>. DEFINE rows  == {r \in p.apparent : -r \in S}
              least == Pivot(rows)
              chain == Boundary(p, S)
  <2>1. S # {}
    BY <1>4, BoundaryOfFew
  <2>2. rows \in Chain /\ rows # {}
    BY <1>1, <2>1 DEF Chain
  <2>3. least \in rows /\ \A s \in rows : least <= s
    BY <2>2, PivotInChain
  <2>4. S = {-r : r \in rows}
    OBVIOUS
  <2>. HIDE DEF least
  <2>5. chain \in Chain
    BY <1>1, SumType
  <2>6. ASSUME NEW r \in Rows, r < least
        PROVE  r \notin chain
    <3>1. {s \in S : r \in p.cob[s]} = {}
      <4>. SUFFICES ASSUME NEW q \in rows, r \in p.cob[-q] PROVE FALSE
        BY <2>4
      <4>1. q <= r /\ least <= q
        BY <1>2, <2>3
      <4>2. q \in Int /\ r \in Int /\ least \in Int
        BY <1>1, <2>3
      <4>3. QED
        BY <2>6, <4>1, <4>2
    <3>2. Cardinality({}) = 0 /\ 0 % 2 # 1
      BY FS_EmptySet
    <3>3. Cardinality({s \in S : r \in p.cob[s]}) % 2 # 1
      BY <3>1, <3>2, Zenon
    <3>4. QED
      BY <3>3 DEF Boundary
  <2>7. least \in chain
    <3>1. {s \in S : least \in p.cob[s]} = {-least}
      <4>1. -least \in S /\ least \in p.cob[-least]
        <5>1. least \in p.apparent /\ -least \in S
          BY <2>3
        <5>2. QED
          BY <1>2, <5>1
      <4>2. ASSUME NEW q \in rows, least \in p.cob[-q]
            PROVE  q = least
        <5>1. q <= least /\ least <= q
          BY <1>2, <2>3, <4>2
        <5>2. q \in Int /\ least \in Int
          BY <1>1, <2>3
        <5>3. QED
          BY <5>1, <5>2
      <4>3. \A s \in S : least \in p.cob[s] => s = -least
        <5>. SUFFICES ASSUME NEW s \in S, least \in p.cob[s] PROVE s = -least
          OBVIOUS
        <5>1. PICK q \in rows : s = -q
          BY <2>4
        <5>2. QED
          BY <4>2, <5>1
      <4>4. QED
        BY <4>1, <4>3
    <3>2. Cardinality({-least}) = 1 /\ 1 % 2 = 1
      <4>1. Cardinality({-least}) = 1
        BY FS_Singleton, Zenon
      <4>2. QED
        BY <4>1
    <3>3. Cardinality({s \in S : least \in p.cob[s]}) % 2 = 1
      BY <3>1, <3>2, Zenon
    <3>4. least \in Rows
      BY <1>1, <2>3
    <3>5. QED
      BY <3>3, <3>4 DEF Boundary
  <2>8. \A s \in chain : least <= s
    <3>1. ASSUME NEW s \in chain PROVE least <= s
      <4>1. s \in Rows /\ s \in Int /\ least \in Int
        BY <1>1, <2>3, <2>5 DEF Chain
      <4>2. ~(s < least)
        BY <2>6, <4>1
      <4>3. QED
        BY <4>1, <4>2
    <3>2. QED
      BY <3>1
  <2>. HIDE DEF chain
  <2>9. Pivot(chain) = least
    <3>1. LeadOf(chain) = least
      BY <2>5, <2>7, <2>8, LeadAtLeast
    <3>2. QED
      BY <2>7, <3>1 DEF LeadOf
  <2>10. QED
    BY <2>3, <2>9 DEF chain
<1>5. QED
  <2>1. Leads(p, 0) \subseteq p.apparent
    BY <1>1, <1>4 DEF Leads, Span
  <2>2. QED
    BY <1>3, <2>1

\* One column more, reduced against what comes before it, adds the sums with
\* the reduced chain to the span.
LEMMA SpanOfNext ==
  ASSUME NEW p \in Problem, NEW c \in Cols, NEW v \in SUBSET Before(p, c)
  PROVE  LET reduced == SymDiff(p.cob[c], Boundary(p, v)) IN
         /\ reduced \in Chain
         /\ reduced \in Span(p, c + 1)
         /\ \A chain \in Span(p, c) :
              chain \in Span(p, c + 1) /\ SymDiff(chain, reduced) \in Span(p, c + 1)
         /\ \A chain \in Span(p, c + 1) :
              chain \in Span(p, c) \/ \E more \in Span(p, c) : chain = SymDiff(more, reduced)
<1>. DEFINE reduced == SymDiff(p.cob[c], Boundary(p, v))
<1>1. /\ Before(p, c + 1) = Before(p, c) \cup {c}
      /\ c \notin Before(p, c)
      /\ c \in Simplices /\ Before(p, c) \subseteq Simplices
  <2>1. /\ c \in Int /\ \A d \in Cols : d \in Int
    BY SizeAssumption DEF Cols
  <2>2. {d \in Cols : d < c + 1} = {d \in Cols : d < c} \cup {c}
    <3>1. \A d \in Cols : d < c + 1 <=> d < c \/ d = c
      BY <2>1
    <3>2. QED
      BY <3>1
  <2>3. c \notin {-r : r \in p.apparent}
    BY SizeAssumption DEF Problem, Rows, Cols
  <2>4. QED
    BY <2>1, <2>2, <2>3, BeforeType DEF Before, Simplices
<1>2. /\ v \in SUBSET Simplices /\ {c} \in SUBSET Simplices
      /\ Boundary(p, {c}) = p.cob[c]
  BY <1>1, BoundaryOfFew
<1>3. reduced = Boundary(p, SymDiff({c}, v))
  BY <1>2, BoundaryLinear
<1>4. SymDiff({c}, v) \in SUBSET Before(p, c + 1)
  BY <1>1 DEF SymDiff
<1>5. reduced \in Span(p, c + 1) /\ reduced \in Chain
  BY <1>3, <1>4, SpanGroup DEF Span
<1>6. \A chain \in Span(p, c) : chain \in Span(p, c + 1)
  BY <1>1 DEF Span
<1>7. \A chain \in Span(p, c) : SymDiff(chain, reduced) \in Span(p, c + 1)
  BY <1>5, <1>6, SpanGroup
<1>8. ASSUME NEW chain \in Span(p, c + 1)
      PROVE  chain \in Span(p, c) \/ \E more \in Span(p, c) : chain = SymDiff(more, reduced)
  <2>1. PICK S \in SUBSET Before(p, c + 1) : chain = Boundary(p, S)
    BY DEF Span
  <2>2. CASE c \notin S
    <3>1. S \in SUBSET Before(p, c)
      BY <1>1, <2>2
    <3>2. QED
      BY <2>1, <3>1 DEF Span
  <2>3. CASE c \in S
    <3>. DEFINE T == SymDiff(S \ {c}, v)
    <3>1. T \in SUBSET Before(p, c) /\ T \in SUBSET Simplices
      BY <1>1 DEF SymDiff
    <3>2. S = SymDiff(T, SymDiff({c}, v))
      BY <1>1, <2>3 DEF SymDiff
    <3>3. SymDiff({c}, v) \in SUBSET Simplices
      BY <1>2 DEF SymDiff
    <3>. HIDE DEF T
    <3>4. chain = SymDiff(Boundary(p, T), reduced)
      BY <1>3, <2>1, <3>1, <3>2, <3>3, BoundaryLinear
    <3>5. Boundary(p, T) \in Span(p, c)
      BY <3>1 DEF Span
    <3>6. QED
      BY <3>4, <3>5
  <2>4. QED
    BY <2>2, <2>3
<1>9. QED
  BY <1>5, <1>6, <1>7, <1>8

\* A column that is a sum of what comes before it adds nothing.
LEMMA NothingAdded ==
  ASSUME NEW p \in Problem, NEW c \in Cols, p.cob[c] \in Span(p, c)
  PROVE  Span(p, c + 1) = Span(p, c)
<1>1. PICK v \in SUBSET Before(p, c) : p.cob[c] = Boundary(p, v)
  BY DEF Span
<1>. DEFINE reduced == SymDiff(p.cob[c], Boundary(p, v))
<1>2. reduced = {}
  BY <1>1 DEF SymDiff
<1>3. /\ \A chain \in Span(p, c) : chain \in Span(p, c + 1)
      /\ \A chain \in Span(p, c + 1) :
           chain \in Span(p, c) \/ \E more \in Span(p, c) : chain = SymDiff(more, reduced)
  BY SpanOfNext
<1>4. \A more : SymDiff(more, {}) = more
  BY DEF SymDiff
<1>. HIDE DEF reduced
<1>5. QED
  BY <1>2, <1>3, <1>4

\* A reduced column with a row of its own adds that row to the leads.
LEMMA OneLeadAdded ==
  ASSUME NEW p \in Problem, NEW c \in Cols, NEW v \in SUBSET Before(p, c),
         NEW r \in Rows \ Leads(p, c), LeadOf(SymDiff(p.cob[c], Boundary(p, v))) = r
  PROVE  Leads(p, c + 1) = Leads(p, c) \cup {r}
<1>. DEFINE reduced == SymDiff(p.cob[c], Boundary(p, v))
<1>1. /\ reduced \in Chain
      /\ reduced \in Span(p, c + 1)
      /\ \A chain \in Span(p, c) :
           chain \in Span(p, c + 1) /\ SymDiff(chain, reduced) \in Span(p, c + 1)
      /\ \A chain \in Span(p, c + 1) :
           chain \in Span(p, c) \/ \E more \in Span(p, c) : chain = SymDiff(more, reduced)
  BY SpanOfNext
<1>2. reduced # {} /\ Pivot(reduced) = r
  BY <1>1, LeadIsPivot
<1>. HIDE DEF reduced
<1>3. r \in Leads(p, c + 1) /\ Leads(p, c) \subseteq Leads(p, c + 1)
  BY <1>1, <1>2 DEF Leads
<1>4. ASSUME NEW chain \in Span(p, c + 1), chain # {}
      PROVE  Pivot(chain) \in Leads(p, c) \cup {r}
  <2>1. CASE chain \in Span(p, c)
    BY <1>4, <2>1 DEF Leads
  <2>2. CASE \E more \in Span(p, c) : chain = SymDiff(more, reduced)
    <3>1. PICK more \in Span(p, c) : chain = SymDiff(more, reduced)
      BY <2>2
    <3>2. CASE more = {}
      <4>1. chain = reduced
        BY <3>1, <3>2, SumAssociates
      <4>2. QED
        BY <1>2, <4>1
    <3>3. CASE more # {}
      <4>1. Pivot(more) \in Leads(p, c) /\ more \in Chain
        BY <3>3, SpanGroup DEF Leads
      <4>2. Pivot(more) # Pivot(reduced)
        BY <1>2, <4>1
      <4>3. Pivot(chain) \in {Pivot(more), Pivot(reduced)}
        BY <1>1, <1>2, <3>1, <3>3, <4>1, <4>2, LeadOfSum
      <4>4. QED
        BY <1>2, <4>1, <4>3
    <3>4. QED
      BY <3>2, <3>3
  <2>3. QED
    BY <1>1, <2>1, <2>2
<1>5. QED
  BY <1>3, <1>4 DEF Leads

\* The rows that the columns before n and the apparent facets can lead at are
\* those of the facets and of the owners among the columns.
LEMMA LeadsOfSettled ==
  ASSUME NEW p \in Problem, NEW owners, NEW N \in 0 .. NumCols, Settled(p, owners, N),
         NEW n \in 0 .. N
  PROVE  Leads(p, n) = p.apparent \cup {r \in DOMAIN owners : owners[r].col < n}
<1>. DEFINE upto(k) == p.apparent \cup {r \in DOMAIN owners : owners[r].col < k}
            H       == {k \in 0 .. N : Leads(p, k) = upto(k)}
<1>0. /\ NumCols \in Nat /\ N \in Nat /\ N <= NumCols
      /\ \A r \in DOMAIN owners : owners[r].col \in Cols /\ owners[r].col \in Int
      /\ \A r \in DOMAIN owners : 0 <= owners[r].col
  BY SizeAssumption DEF Settled, Owner, Cols
<1>1. 0 \in H
  <2>1. upto(0) = p.apparent
    BY <1>0
  <2>2. QED
    BY <1>0, <2>1, FacetLeads
<1>2. ASSUME NEW k \in 1 .. N, k - 1 \in H
      PROVE  k \in H
  <2>. DEFINE c == k - 1
  <2>1. c \in Cols /\ c \in Int /\ c < N /\ k = c + 1 /\ k \in 0 .. N
    BY <1>0, SizeAssumption DEF Cols
  <2>2. Leads(p, c) = upto(c)
    BY <1>2
  <2>3. CASE \E r \in DOMAIN owners : owners[r].col = c
    <3>1. PICK r \in DOMAIN owners : owners[r].col = c
      BY <2>3
    <3>2. /\ r \in Rows /\ r \notin p.apparent
          /\ owners[r].v \in SUBSET Before(p, c)
          /\ LeadOf(SymDiff(p.cob[c], Boundary(p, owners[r].v))) = r
      BY <3>1 DEF Settled
    <3>3. r \notin Leads(p, c)
      BY <2>1, <2>2, <3>1, <3>2
    <3>4. \A s \in DOMAIN owners : owners[s].col = c => s = r
      BY <3>1 DEF Settled
    <3>. HIDE DEF c
    <3>5. Leads(p, c + 1) = Leads(p, c) \cup {r}
      BY <2>1, <3>2, <3>3, OneLeadAdded
    <3>6. upto(c + 1) = upto(c) \cup {r}
      BY <1>0, <2>1, <3>1, <3>4
    <3>7. QED
      BY <2>1, <2>2, <3>5, <3>6
  <2>4. CASE ~\E r \in DOMAIN owners : owners[r].col = c
    <3>. HIDE DEF c
    <3>1. p.cob[c] \in Span(p, c)
      BY <2>1, <2>4 DEF Settled
    <3>2. Leads(p, c + 1) = Leads(p, c)
      BY <2>1, <3>1, NothingAdded DEF Leads
    <3>3. upto(c + 1) = upto(c)
      BY <1>0, <2>1, <2>4
    <3>4. QED
      BY <2>1, <2>2, <3>2, <3>3
  <2>5. QED
    BY <2>3, <2>4
<1>3. H = 0 .. N
  <2>. HIDE DEF H
  <2>1. H \in SUBSET (0 .. N)
    BY DEF H
  <2>2. QED
    BY <1>0, <1>1, <1>2, <2>1, FirstFailure
<1>4. QED
  BY <1>3

\* "The unique reduced pivot set" (parallel.rs): however the columns have been
\* reduced, the same columns own the same rows.
THEOREM PivotsUnique ==
  ASSUME NEW p \in Problem, NEW here, NEW there,
         Settled(p, here, NumCols), Settled(p, there, NumCols)
  PROVE  OwnerOf(here) = OwnerOf(there)
<1>1. ASSUME NEW one, NEW other, Settled(p, one, NumCols), Settled(p, other, NumCols),
             NEW r \in DOMAIN one
      PROVE  r \in DOMAIN other /\ other[r].col = one[r].col
  <2>. DEFINE c == one[r].col
  <2>1. c \in Cols /\ c \in Int /\ NumCols \in 0 .. NumCols /\ c \in 0 .. NumCols /\ c + 1 \in 0 .. NumCols /\ r \notin p.apparent
    BY <1>1, SizeAssumption DEF Settled, Owner, Cols
  <2>. HIDE DEF c
  <2>2. /\ Leads(p, c) = p.apparent \cup {s \in DOMAIN one : one[s].col < c}
        /\ Leads(p, c + 1) = p.apparent \cup {s \in DOMAIN one : one[s].col < c + 1}
    BY <1>1, <2>1, LeadsOfSettled
  <2>3. /\ Leads(p, c) = p.apparent \cup {s \in DOMAIN other : other[s].col < c}
        /\ Leads(p, c + 1) = p.apparent \cup {s \in DOMAIN other : other[s].col < c + 1}
    BY <1>1, <2>1, LeadsOfSettled
  <2>4. r \in Leads(p, c + 1) /\ r \notin Leads(p, c)
    BY <1>1, <2>1, <2>2 DEF c
  <2>5. r \in DOMAIN other /\ other[r].col < c + 1 /\ ~(other[r].col < c)
    BY <2>1, <2>3, <2>4
  <2>6. other[r].col \in Int
    BY <1>1, <2>5, SizeAssumption DEF Settled, Owner, Cols
  <2>7. QED
    BY <2>1, <2>5, <2>6 DEF c
<1>2. DOMAIN here = DOMAIN there
  BY <1>1
<1>3. \A r \in DOMAIN here : here[r].col = there[r].col
  BY <1>1
<1>4. QED
  BY <1>2, <1>3 DEF OwnerOf

-----------------------------------------------------------------------------
(* The serial reducer *)

\* The pivot tables whose owners lead at their rows.
Leading(p) ==
  {owners \in UNION {[S -> Owner] : S \in SUBSET Rows} :
     \A r \in DOMAIN owners :
       LeadOf(SymDiff(p.cob[owners[r].col], Boundary(p, owners[r].v))) = r}

\* The loop of reduce_serial_column: where it stops, a turn, what it yields,
\* and how many rows the pivot can still fall.
Stopped(p, owners) ==
  {now \in Passes : LeadOf(now.work) \notin DOMAIN owners \cup p.apparent}

Turn(p, owners) ==
  [now \in Passes |->
     LET r == LeadOf(now.work) IN
     IF r \in DOMAIN owners
     THEN Folded(now, Boundary(p, Reducer(owners[r])), Reducer(owners[r]))
     ELSE Folded(now, p.cob[-r], {-r})]

Outcome == [now \in Passes |-> [pivot |-> LeadOf(now.work), v |-> now.red]]

RowsLeft == [now \in Passes |-> IF now.work = {} THEN 0 ELSE NumRows + 1 - Pivot(now.work)]

\* Two chains that lead at one row cancel there.
LEMMA LeadsCancel ==
  ASSUME NEW a \in Chain, NEW b \in Chain, NEW r \in Rows, LeadOf(a) = r, LeadOf(b) = r
  PROVE  /\ SymDiff(a, b) \in Chain
         /\ SymDiff(a, b) # {} => Pivot(SymDiff(a, b)) > r
<1>1. SymDiff(a, b) \in Chain
  BY SumType
<1>2. /\ r \in a /\ \A s \in a : r <= s
      /\ r \in b /\ \A s \in b : r <= s
  BY LeadIsPivot, PivotInChain
<1>3. ASSUME NEW s \in SymDiff(a, b) PROVE s > r
  <2>1. s # r /\ (s \in a \/ s \in b)
    BY <1>2 DEF SymDiff
  <2>2. s \in Int /\ r \in Int
    BY <1>1, SizeAssumption DEF Chain, Rows
  <2>3. QED
    BY <1>2, <2>1, <2>2
<1>4. SymDiff(a, b) # {} => Pivot(SymDiff(a, b)) \in SymDiff(a, b)
  BY <1>1, PivotInChain
<1>5. QED
  BY <1>1, <1>3, <1>4

\* What an owner that leads at its row is folded in with.
LEMMA ReducerLeads ==
  ASSUME NEW p \in Problem, NEW owners \in Leading(p), NEW r \in DOMAIN owners
  PROVE  /\ r \in Rows
         /\ owners[r] \in Owner
         /\ Reducer(owners[r]) \in SUBSET Simplices
         /\ Boundary(p, Reducer(owners[r])) \in Chain
         /\ LeadOf(Boundary(p, Reducer(owners[r]))) = r
<1>1. r \in Rows /\ owners[r] \in Owner
  BY DEF Leading
<1>2. owners[r].col \in Simplices /\ owners[r].v \in SUBSET Simplices
  BY <1>1 DEF Owner, Simplices
<1>3. Boundary(p, Reducer(owners[r])) = SymDiff(p.cob[owners[r].col], Boundary(p, owners[r].v))
  <2>1. {owners[r].col} \in SUBSET Simplices /\ Boundary(p, {owners[r].col}) = p.cob[owners[r].col]
    BY <1>2, BoundaryOfFew
  <2>2. QED
    BY <1>2, <2>1, BoundaryLinear DEF Reducer
<1>4. LeadOf(Boundary(p, Reducer(owners[r]))) = r
  BY <1>3 DEF Leading
<1>5. QED
  BY <1>1, <1>4, SumType

\* Every turn moves the pivot on.
LEMMA TurnShrinks ==
  ASSUME NEW p \in Problem, NEW owners \in Leading(p)
  PROVE  Shrinks(Passes, Stopped(p, owners), Turn(p, owners), RowsLeft, NumRows)
<1>1. ASSUME NEW now \in Passes
      PROVE  RowsLeft[now] \in 0 .. NumRows
  <2>1. now.work \in Chain
    BY DEF Passes
  <2>2. now.work # {} => Pivot(now.work) \in Rows
    BY <2>1, PivotInChain DEF Chain
  <2>3. RowsLeft[now] = IF now.work = {} THEN 0 ELSE NumRows + 1 - Pivot(now.work)
    BY DEF RowsLeft
  <2>4. QED
    BY <2>2, <2>3, SizeAssumption DEF Rows
<1>2. ASSUME NEW now \in Passes \ Stopped(p, owners)
      PROVE  /\ Turn(p, owners)[now] \in Passes
             /\ RowsLeft[Turn(p, owners)[now]] < RowsLeft[now]
  <2>. DEFINE r    == LeadOf(now.work)
              then == Turn(p, owners)[now]
  <2>1. /\ now.work \in Chain /\ now.red \in SUBSET Simplices
        /\ r \in DOMAIN owners \/ r \in p.apparent
    BY DEF Passes, Stopped
  <2>2. r \in Rows
    BY <2>1, ReducerLeads DEF Problem
  <2>. HIDE DEF r
  <2>3. PICK chain \in Chain, simplices \in SUBSET Simplices :
          LeadOf(chain) = r /\ then = Folded(now, chain, simplices)
    <3>1. CASE r \in DOMAIN owners
      <4>1. then = Folded(now, Boundary(p, Reducer(owners[r])), Reducer(owners[r]))
        BY <3>1 DEF Turn, r
      <4>2. QED
        BY <3>1, <4>1, ReducerLeads
    <3>2. CASE r \notin DOMAIN owners
      <4>1. r \in p.apparent /\ -r \in Simplices
        BY <2>1, <2>2, <3>2 DEF Simplices, Facets
      <4>2. then = Folded(now, p.cob[-r], {-r})
        BY <3>2 DEF Turn, r
      <4>3. p.cob[-r] \in Chain /\ LeadOf(p.cob[-r]) = r /\ {-r} \in SUBSET Simplices
        BY <4>1, SumType DEF Problem
      <4>4. QED
        BY <4>2, <4>3
    <3>3. QED
      BY <3>1, <3>2
  <2>. HIDE DEF then
  <2>4. /\ then.work = SymDiff(now.work, chain)
        /\ then \in Passes
    BY <2>1, <2>3, SumType DEF Folded, Passes
  <2>5. LeadOf(now.work) = r
    BY DEF r
  <2>6. then.work # {} => Pivot(then.work) > r
    BY <2>1, <2>2, <2>3, <2>4, <2>5, LeadsCancel
  <2>7. now.work # {} /\ Pivot(now.work) = r
    BY <2>1, <2>2, <2>5, LeadIsPivot
  <2>8. then.work # {} => Pivot(then.work) \in Rows
    BY <2>4, PivotInChain DEF Passes, Chain
  <2>9. /\ RowsLeft[now] = NumRows + 1 - r
        /\ then.work = {} => RowsLeft[then] = 0
        /\ then.work # {} => RowsLeft[then] = NumRows + 1 - Pivot(then.work)
    BY <2>4, <2>7 DEF RowsLeft
  <2>10. RowsLeft[then] < RowsLeft[now]
    <3>1. CASE then.work = {}
      BY <2>2, <2>9, <3>1, SizeAssumption DEF Rows
    <3>2. CASE then.work # {}
      <4>. DEFINE q == Pivot(then.work)
      <4>1. q \in Int /\ r \in Int /\ NumRows \in Int /\ q > r
        BY <2>2, <2>6, <2>8, <3>2, SizeAssumption DEF Rows
      <4>. HIDE DEF q
      <4>2. NumRows + 1 - q < NumRows + 1 - r
        BY <4>1
      <4>3. QED
        BY <2>9, <3>2, <4>2 DEF q
    <3>3. QED
      BY <3>1, <3>2
  <2>11. QED
    BY <2>4, <2>10 DEF then
<1>3. RowsLeft \in [Passes -> 0 .. NumRows]
  <2>1. RowsLeft = [now \in Passes |-> RowsLeft[now]]
    BY DEF RowsLeft
  <2>2. QED
    BY <1>1, <2>1
<1>4. QED
  BY <1>2, <1>3 DEF Shrinks

\* The function inside ReduceSerialColumn is the loop.
LEMMA SerialLoop ==
  ASSUME NEW p \in Problem, NEW owners \in Leading(p), NEW c, ~Shortcut(p, c, DOMAIN owners)
  PROVE  \E f : /\ LoopsAs(f, Passes, Stopped(p, owners), Turn(p, owners), Outcome)
                /\ ReduceSerialColumn(p, owners, c) = f[[work |-> p.cob[c], red |-> {}]]
<1>. DEFINE body(f) ==
              [now \in Passes |->
                 LET r == LeadOf(now.work) IN
                 IF r \in DOMAIN owners
                 THEN LET reducer == Reducer(owners[r])
                      IN  f[Folded(now, Boundary(p, reducer), reducer)]
                 ELSE IF r \in p.apparent
                 THEN f[Folded(now, p.cob[-r], {-r})]
                 ELSE [pivot |-> r, v |-> now.red]]
            loop(f) ==
              [now \in Passes |-> IF now \in Stopped(p, owners) THEN Outcome[now]
                                  ELSE f[Turn(p, owners)[now]]]
<1>1. ASSUME NEW f PROVE body(f) = loop(f)
  <2>. SUFFICES ASSUME NEW now \in Passes
                PROVE  body(f)[now] = loop(f)[now]
    BY Zenon
  <2>. DEFINE r == LeadOf(now.work)
  <2>1. CASE r \in DOMAIN owners
    BY <2>1 DEF Stopped, Turn
  <2>2. CASE r \notin DOMAIN owners /\ r \in p.apparent
    BY <2>2 DEF Stopped, Turn
  <2>3. CASE r \notin DOMAIN owners /\ r \notin p.apparent
    BY <2>3 DEF Stopped, Outcome
  <2>4. QED
    BY <2>1, <2>2, <2>3
<1>2. PICK g : LoopsAs(g, Passes, Stopped(p, owners), Turn(p, owners), Outcome)
  <2>1. NumRows \in Nat
    BY SizeAssumption
  <2>2. QED
    BY <2>1, TurnShrinks, LoopEnds
<1>3. g = body(g)
  BY <1>1, <1>2, Zenon DEF LoopsAs
<1>. DEFINE f == CHOOSE f : f = body(f)
<1>4. f = body(f)
  <2>. HIDE DEF body
  <2>1. QED
    BY <1>3
<1>5. ReduceSerialColumn(p, owners, c) = f[[work |-> p.cob[c], red |-> {}]]
  BY DEF ReduceSerialColumn
<1>. HIDE DEF f
<1>6. f = loop(f)
  BY <1>1, <1>4, Zenon
<1>7. QED
  BY <1>5, <1>6, Zenon DEF LoopsAs

\* What the serial reducer makes of a column: a V-column of what its owners
\* and the apparent facets are made of, with a pivot that neither has.
LEMMA SerialColumn ==
  ASSUME NEW p \in Problem, NEW owners \in Leading(p), NEW c \in Cols,
         NEW parts \in SUBSET Simplices,
         \A r \in DOMAIN owners : Reducer(owners[r]) \subseteq parts,
         \A r \in p.apparent : -r \in parts
  PROVE  \E v \in SUBSET parts :
           LET lead == LeadOf(SymDiff(p.cob[c], Boundary(p, v))) IN
           /\ ReduceSerialColumn(p, owners, c) = [pivot |-> lead, v |-> v]
           /\ lead \notin DOMAIN owners
           /\ lead \notin p.apparent
<1>. DEFINE chain(v) == SymDiff(p.cob[c], Boundary(p, v))
<1>1. c \in Simplices /\ p.cob[c] \in Chain
  BY SumType DEF Simplices
<1>2. chain({}) = p.cob[c]
  BY BoundaryOfFew, SumAssociates
<1>3. CASE Shortcut(p, c, DOMAIN owners)
  <2>1. /\ p.cob[c] # {}
        /\ Pivot(p.cob[c]) \notin DOMAIN owners
        /\ Pivot(p.cob[c]) \notin p.apparent
    BY <1>3 DEF Shortcut, Problem
  <2>2. LeadOf(chain({})) = Pivot(p.cob[c])
    BY <1>2, <2>1 DEF LeadOf
  <2>3. ReduceSerialColumn(p, owners, c) = [pivot |-> Pivot(p.cob[c]), v |-> {}]
    BY <1>3 DEF ReduceSerialColumn
  <2>. HIDE DEF chain
  <2>4. /\ {} \in SUBSET parts
        /\ ReduceSerialColumn(p, owners, c) = [pivot |-> LeadOf(chain({})), v |-> {}]
        /\ LeadOf(chain({})) \notin DOMAIN owners
        /\ LeadOf(chain({})) \notin p.apparent
    BY <2>1, <2>2, <2>3
  <2>5. QED
    BY <2>4 DEF chain
<1>4. CASE ~Shortcut(p, c, DOMAIN owners)
  <2>. DEFINE J     == {now \in Passes : now.red \in SUBSET parts /\ now.work = chain(now.red)}
              start == [work |-> p.cob[c], red |-> {}]
  <2>1. PICK f : /\ LoopsAs(f, Passes, Stopped(p, owners), Turn(p, owners), Outcome)
                 /\ ReduceSerialColumn(p, owners, c) = f[start]
    BY <1>4, SerialLoop
  <2>2. start \in J
    BY <1>1, <1>2 DEF Passes
  <2>3. ASSUME NEW now \in J \ Stopped(p, owners) PROVE Turn(p, owners)[now] \in J
    <3>. DEFINE r    == LeadOf(now.work)
                then == Turn(p, owners)[now]
    <3>1. /\ now \in Passes /\ now.red \in SUBSET parts /\ now.work = chain(now.red)
          /\ r \in DOMAIN owners \/ r \in p.apparent
      BY DEF Stopped
    <3>. HIDE DEF r
    <3>2. PICK simplices \in SUBSET parts : then = Folded(now, Boundary(p, simplices), simplices)
      <4>1. CASE r \in DOMAIN owners
        BY <3>1, <4>1 DEF Turn, r
      <4>2. CASE r \notin DOMAIN owners
        <5>1. {-r} \in SUBSET parts /\ Boundary(p, {-r}) = p.cob[-r]
          BY <3>1, <4>2, BoundaryOfFew
        <5>2. then = Folded(now, p.cob[-r], {-r})
          BY <3>1, <4>2 DEF Turn, r
        <5>3. QED
          BY <5>1, <5>2
      <4>3. QED
        BY <4>1, <4>2
    <3>3. then \in Passes
      BY <3>1, TurnShrinks DEF Shrinks
    <3>. HIDE DEF then
    <3>4. then.red = SymDiff(now.red, simplices) /\ then.work = SymDiff(now.work, Boundary(p, simplices))
      BY <3>2 DEF Folded
    <3>5. then.red \in SUBSET parts
      BY <3>1, <3>4 DEF SymDiff
    <3>6. now.red \in SUBSET Simplices /\ simplices \in SUBSET Simplices
      BY <3>1
    <3>7. Boundary(p, then.red) = SymDiff(Boundary(p, now.red), Boundary(p, simplices))
      BY <3>4, <3>6, BoundaryLinear
    <3>8. then.work = chain(then.red)
      BY <3>1, <3>4, <3>7, SumAssociates
    <3>9. QED
      BY <3>3, <3>5, <3>8 DEF then
  <2>4. PICK now \in J \cap Stopped(p, owners) : f[start] = Outcome[now]
    <3>1. NumRows \in Nat /\ J \in SUBSET Passes
      BY SizeAssumption
    <3>. HIDE DEF J, start
    <3>2. QED
      BY <2>1, <2>2, <2>3, <3>1, TurnShrinks, LoopKeeps
  <2>5. /\ now \in Passes /\ now.red \in SUBSET parts /\ now.work = chain(now.red)
        /\ LeadOf(now.work) \notin DOMAIN owners
        /\ LeadOf(now.work) \notin p.apparent
    BY <2>4 DEF Stopped
  <2>6. ReduceSerialColumn(p, owners, c) = [pivot |-> LeadOf(now.work), v |-> now.red]
    BY <2>1, <2>4, <2>5 DEF Outcome
  <2>7. QED
    BY <2>5, <2>6
<1>5. QED
  BY <1>3, <1>4

\* The pivots after one column more.
AfterColumn(p, owners, c) ==
  LET last == ReduceSerialColumn(p, owners, c)
  IN  IF last.pivot = NoPivot THEN owners
      ELSE Installed(owners, last.pivot, [col |-> c, v |-> last.v])

\* One column more leaves every owner leading at its row.
LEMMA AfterLeads ==
  ASSUME NEW p \in Problem, NEW owners \in Leading(p), NEW c \in Cols
  PROVE  AfterColumn(p, owners, c) \in Leading(p)
<1>1. \A r \in DOMAIN owners : Reducer(owners[r]) \subseteq Simplices
  BY ReducerLeads
<1>2. \A r \in p.apparent : -r \in Simplices
  BY DEF Problem, Simplices, Facets
<1>3. PICK v \in SUBSET Simplices :
        ReduceSerialColumn(p, owners, c) =
          [pivot |-> LeadOf(SymDiff(p.cob[c], Boundary(p, v))), v |-> v]
  BY <1>1, <1>2, SerialColumn
<1>. DEFINE r     == LeadOf(SymDiff(p.cob[c], Boundary(p, v)))
            owner == [col |-> c, v |-> v]
<1>4. AfterColumn(p, owners, c) = IF r = NoPivot THEN owners ELSE Installed(owners, r, owner)
  BY <1>3 DEF AfterColumn
<1>5. r \in Rows \cup {NoPivot}
  BY SumType, LeadOfType DEF Simplices
<1>6. owner \in Owner /\ LeadOf(SymDiff(p.cob[owner.col], Boundary(p, owner.v))) = r
  BY DEF Owner
<1>. HIDE DEF r, owner
<1>7. CASE r # NoPivot
  <2>. DEFINE T == Installed(owners, r, owner)
  <2>1. /\ DOMAIN T = DOMAIN owners \cup {r} /\ T[r] = owner
        /\ \A s \in DOMAIN owners \ {r} : T[s] = owners[s]
        /\ T = [s \in DOMAIN T |-> T[s]]
    BY DEF Installed
  <2>2. DOMAIN owners \in SUBSET Rows /\ \A s \in DOMAIN owners : owners[s] \in Owner
    BY DEF Leading
  <2>. HIDE DEF T
  <2>3. DOMAIN T \in SUBSET Rows /\ T \in [DOMAIN T -> Owner]
    BY <1>5, <1>6, <1>7, <2>1, <2>2
  <2>4. \A s \in DOMAIN T : LeadOf(SymDiff(p.cob[T[s].col], Boundary(p, T[s].v))) = s
    BY <1>6, <2>1 DEF Leading
  <2>5. T \in Leading(p)
    BY <2>3, <2>4 DEF Leading
  <2>6. QED
    BY <1>4, <1>7, <2>5 DEF T
<1>8. QED
  BY <1>4, <1>7

\* One column more is dealt with: it owns the row that it leads at, which
\* nobody had, or it is a sum of what comes before it.
LEMMA AfterSettles ==
  ASSUME NEW p \in Problem, NEW owners \in Leading(p), NEW c \in Cols, Settled(p, owners, c)
  PROVE  Settled(p, AfterColumn(p, owners, c), c + 1)
<1>0. c \in Int /\ \A d \in Cols : d \in Int
  BY SizeAssumption DEF Cols
<1>1. \A r \in DOMAIN owners : Reducer(owners[r]) \subseteq Before(p, c)
  <2>. SUFFICES ASSUME NEW r \in DOMAIN owners PROVE Reducer(owners[r]) \subseteq Before(p, c)
    OBVIOUS
  <2>. DEFINE d == owners[r].col
  <2>1. d \in Cols /\ d < c /\ owners[r].v \subseteq Before(p, d)
    BY DEF Settled, Owner
  <2>. HIDE DEF d
  <2>2. Before(p, d) \cup {d} \subseteq Before(p, c)
    <3>1. \A e \in Cols : e < d => e < c
      BY <1>0, <2>1
    <3>2. QED
      BY <2>1, <3>1 DEF Before
  <2>3. Reducer(owners[r]) \subseteq {d} \cup owners[r].v
    BY DEF Reducer, SymDiff, d
  <2>4. QED
    BY <2>1, <2>2, <2>3
<1>2. \A r \in p.apparent : -r \in Before(p, c)
  BY DEF Before
<1>3. Before(p, c) \in SUBSET Simplices
  BY BeforeType
<1>4. PICK v \in SUBSET Before(p, c) :
        /\ ReduceSerialColumn(p, owners, c) =
             [pivot |-> LeadOf(SymDiff(p.cob[c], Boundary(p, v))), v |-> v]
        /\ LeadOf(SymDiff(p.cob[c], Boundary(p, v))) \notin DOMAIN owners
        /\ LeadOf(SymDiff(p.cob[c], Boundary(p, v))) \notin p.apparent
  BY <1>1, <1>2, <1>3, SerialColumn
<1>. DEFINE r     == LeadOf(SymDiff(p.cob[c], Boundary(p, v)))
            owner == [col |-> c, v |-> v]
            T     == AfterColumn(p, owners, c)
<1>5. T = IF r = NoPivot THEN owners ELSE Installed(owners, r, owner)
  BY <1>4 DEF AfterColumn
<1>6. /\ v \in SUBSET Simplices /\ SymDiff(p.cob[c], Boundary(p, v)) \in Chain
      /\ r \in Rows \cup {NoPivot} /\ r \notin DOMAIN owners /\ r \notin p.apparent
  BY <1>3, <1>4, SumType, LeadOfType DEF Simplices
<1>7. /\ owner \in Owner /\ owner.col = c /\ owner.v = v
      /\ LeadOf(SymDiff(p.cob[c], Boundary(p, v))) = r
  BY <1>6 DEF Owner
<1>8. /\ DOMAIN owners \subseteq Rows \ p.apparent
      /\ \A s \in DOMAIN owners :
           /\ owners[s] \in Owner /\ owners[s].col < c
           /\ owners[s].v \subseteq Before(p, owners[s].col)
           /\ LeadOf(SymDiff(p.cob[owners[s].col], Boundary(p, owners[s].v))) = s
      /\ \A s, t \in DOMAIN owners : owners[s].col = owners[t].col => s = t
      /\ \A d \in Cols : d < c =>
           (\E s \in DOMAIN owners : owners[s].col = d) \/ p.cob[d] \in Span(p, d)
  BY DEF Settled
<1>9. \A d \in Cols : d < c + 1 => d < c \/ d = c
  BY <1>0
<1>10. \A s \in DOMAIN owners : owners[s].col < c + 1 /\ owners[s].col # c
  <2>1. \A s \in DOMAIN owners : owners[s].col \in Int
    BY <1>0, <1>8 DEF Owner
  <2>2. QED
    BY <1>0, <1>8, <2>1
<1>. HIDE DEF owner, T
<1>11. CASE r = NoPivot
  <2>1. SymDiff(p.cob[c], Boundary(p, v)) = {}
    <3>. DEFINE chain == SymDiff(p.cob[c], Boundary(p, v))
    <3>1. chain \in Chain /\ LeadOf(chain) = NoPivot
      BY <1>6, <1>11
    <3>. HIDE DEF chain
    <3>2. chain = {}
      BY <3>1, PivotInChain DEF LeadOf, Chain, Rows, NoPivot
    <3>3. QED
      BY <3>2 DEF chain
  <2>2. p.cob[c] = Boundary(p, v)
    BY <2>1 DEF SymDiff
  <2>3. p.cob[c] \in Span(p, c)
    BY <2>2 DEF Span
  <2>4. T = owners
    BY <1>5, <1>11
  <2>. HIDE DEF r
  <2>5. QED
    BY <1>8, <1>9, <1>10, <2>3, <2>4 DEF Settled, T
<1>12. CASE r # NoPivot
  <2>. HIDE DEF r
  <2>1. T = Installed(owners, r, owner)
    BY <1>5, <1>12
  <2>2. /\ DOMAIN T = DOMAIN owners \cup {r} /\ T[r] = owner
        /\ \A s \in DOMAIN owners : T[s] = owners[s]
    BY <1>6, <2>1 DEF Installed
  <2>3. DOMAIN T \subseteq Rows \ p.apparent
    BY <1>6, <1>8, <1>12, <2>2
  <2>4. ASSUME NEW s \in DOMAIN T
        PROVE  /\ T[s] \in Owner /\ T[s].col < c + 1
               /\ T[s].v \subseteq Before(p, T[s].col)
               /\ LeadOf(SymDiff(p.cob[T[s].col], Boundary(p, T[s].v))) = s
    <3>1. CASE s \in DOMAIN owners
      <4>1. T[s] = owners[s]
        BY <2>2, <3>1
      <4>2. QED
        BY <1>8, <1>10, <3>1, <4>1
    <3>2. CASE s = r
      <4>1. T[s] = owner /\ c < c + 1
        BY <1>0, <2>2, <3>2
      <4>2. QED
        BY <1>7, <3>2, <4>1
    <3>3. QED
      BY <2>2, <3>1, <3>2
  <2>5. \A s, t \in DOMAIN T : T[s].col = T[t].col => s = t
    BY <1>7, <1>8, <1>10, <2>2
  <2>6. \A d \in Cols : d < c + 1 =>
          (\E s \in DOMAIN T : T[s].col = d) \/ p.cob[d] \in Span(p, d)
    BY <1>7, <1>8, <1>9, <2>2
  <2>7. QED
    BY <2>3, <2>4, <2>5, <2>6 DEF Settled, T
<1>13. QED
  BY <1>11, <1>12

\* The serial reduction deals with every column.
LEMMA SerialSettles ==
  ASSUME NEW p \in Problem
  PROVE  Settled(p, SerialPivots(p), NumCols)
<1>. DEFINE body(f) ==
              [n \in 0 .. NumCols |->
                 IF n = 0 THEN EmptyTable
                 ELSE LET c    == n - 1
                          last == ReduceSerialColumn(p, f[n - 1], c)
                      IN  IF last.pivot = NoPivot THEN f[n - 1]
                          ELSE Installed(f[n - 1], last.pivot, [col |-> c, v |-> last.v])]
            after == CHOOSE after : after = body(after)
            G     == [n \in 1 .. NumCols |-> [owners \in Leading(p) |-> AfterColumn(p, owners, n - 1)]]
<1>1. /\ NumCols \in Nat /\ NumCols \in 0 .. NumCols /\ 0 \in 0 .. NumCols
      /\ \A n \in 1 .. NumCols : /\ n - 1 \in Cols /\ n - 1 \in 0 .. NumCols /\ n # 0
                                 /\ n \in 0 .. NumCols
  BY SizeAssumption DEF Cols
<1>2. ASSUME NEW f
      PROVE  /\ body(f)[0] = EmptyTable
             /\ \A n \in 1 .. NumCols : body(f)[n] = AfterColumn(p, f[n - 1], n - 1)
  <2>1. body(f)[0] = EmptyTable
    BY <1>1
  <2>2. ASSUME NEW n \in 1 .. NumCols PROVE body(f)[n] = AfterColumn(p, f[n - 1], n - 1)
    BY <1>1 DEF AfterColumn
  <2>3. QED
    BY <2>1, <2>2
<1>3. SerialPivots(p) = after[NumCols]
  BY DEF SerialPivots
<1>4. EmptyTable \in Leading(p)
  <2>1. EmptyTable \in [{} -> Owner] /\ DOMAIN EmptyTable = {}
    BY DEF EmptyTable
  <2>2. QED
    BY <2>1 DEF Leading
<1>5. PICK g \in Recursions(NumCols, Leading(p), EmptyTable, G) : TRUE
  <2>1. \A n \in 1 .. NumCols : \A owners \in Leading(p) : G[n][owners] \in Leading(p)
    BY <1>1, AfterLeads
  <2>. HIDE DEF G
  <2>2. QED
    BY <1>1, <1>4, <2>1, RecursionExists
<1>6. g = body(g)
  <2>1. /\ g \in [0 .. NumCols -> Leading(p)]
        /\ g[0] = EmptyTable
        /\ \A n \in 1 .. NumCols : g[n] = G[n][g[n - 1]]
    BY <1>5 DEF Recursions
  <2>2. ASSUME NEW n \in 1 .. NumCols PROVE g[n] = body(g)[n]
    <3>1. g[n - 1] \in Leading(p)
      BY <1>1, <2>1
    <3>2. G[n][g[n - 1]] = AfterColumn(p, g[n - 1], n - 1)
      BY <3>1
    <3>. HIDE DEF body, G
    <3>3. QED
      BY <1>2, <2>1, <3>2
  <2>3. g[0] = body(g)[0]
    <3>. HIDE DEF body
    <3>1. QED
      BY <1>2, <2>1
  <2>4. DOMAIN body(g) = 0 .. NumCols /\ body(g) = [n \in 0 .. NumCols |-> body(g)[n]]
    OBVIOUS
  <2>. HIDE DEF body
  <2>5. \A n \in 0 .. NumCols : n = 0 \/ n \in 1 .. NumCols
    BY <1>1
  <2>6. \A n \in 0 .. NumCols : g[n] = body(g)[n]
    BY <2>2, <2>3, <2>5
  <2>7. QED
    BY <2>1, <2>4, <2>6
<1>. HIDE DEF body
<1>7. after = body(after)
  BY <1>6
<1>. HIDE DEF after
<1>8. /\ after[0] = EmptyTable
      /\ \A n \in 1 .. NumCols : after[n] = AfterColumn(p, after[n - 1], n - 1)
  BY <1>2, <1>7
<1>. DEFINE H == {n \in 0 .. NumCols : after[n] \in Leading(p) /\ Settled(p, after[n], n)}
<1>9. 0 \in H
  <2>1. Settled(p, EmptyTable, 0)
    BY SizeAssumption DEF Settled, EmptyTable, Cols
  <2>2. QED
    BY <1>1, <1>4, <1>8, <2>1
<1>10. ASSUME NEW n \in 1 .. NumCols, n - 1 \in H
       PROVE  n \in H
  <2>. DEFINE c == n - 1
  <2>1. c \in Cols /\ c + 1 = n /\ n \in 0 .. NumCols
    BY <1>1
  <2>2. after[c] \in Leading(p) /\ Settled(p, after[c], c)
    BY <1>10
  <2>3. after[n] = AfterColumn(p, after[c], c)
    BY <1>8
  <2>. HIDE DEF c
  <2>4. QED
    BY <2>1, <2>2, <2>3, AfterLeads, AfterSettles
<1>11. H = 0 .. NumCols
  <2>1. H \in SUBSET (0 .. NumCols)
    OBVIOUS
  <2>. HIDE DEF H
  <2>2. QED
    BY <1>1, <1>9, <1>10, <2>1, FirstFailure
<1>12. QED
  BY <1>1, <1>3, <1>11

-----------------------------------------------------------------------------
(* What the workers leave when they close the registry *)

\* The simplices a reduction folds in: columns, and the facets of apparent rows.
Foldable == Cols \cup {-r : r \in ctx.apparent}

\* V-columns hold nothing else, and no row that an apparent facet has is ever
\* claimed.
FoldsFoldable ==
  /\ \A r \in DOMAIN table : table[r].v \subseteq Foldable /\ r \notin ctx.apparent
  /\ \A w \in Workers :
       /\ pc[w] \in {"look", "claim"} => red[w] \subseteq Foldable
       /\ pc[w] = "claim" => pivot[w] \notin ctx.apparent

\* A step of a pass, or a claim, keeps it.
LEMMA StepFoldable ==
  ASSUME TypeOK, ClaimsPivot, FoldsFoldable, NEW w \in Workers, Step(w)
  PROVE  FoldsFoldable'
<1>1. /\ ctx' = ctx /\ Foldable' = Foldable
      /\ \A u \in Workers \ {w} : pc'[u] = pc[u] /\ red'[u] = red[u] /\ pivot'[u] = pivot[u]
  BY StepTouchesOne DEF Foldable
<1>2. CASE ClaimWon(w) \/ ClaimDisplaced(w)
  <2>1. /\ red[w] \subseteq Foldable /\ pivot[w] \notin ctx.apparent
        /\ table' = Installed(table, pivot[w], [col |-> col[w], v |-> red[w]])
        /\ pc'[w] \notin {"look", "claim"}
    BY <1>2 DEF ClaimWon, ClaimDisplaced, Install, FoldsFoldable, Goto, TypeOK
  <2>2. ASSUME NEW r \in DOMAIN table'
        PROVE  table'[r].v \subseteq Foldable /\ r \notin ctx.apparent
    <3>1. CASE r = pivot[w]
      <4>1. table'[r] = [col |-> col[w], v |-> red[w]]
        BY <2>1, <3>1 DEF Installed
      <4>2. QED
        BY <2>1, <3>1, <4>1
    <3>2. CASE r # pivot[w]
      <4>1. r \in DOMAIN table /\ table'[r] = table[r]
        BY <2>1, <3>2 DEF Installed
      <4>2. QED
        BY <4>1 DEF FoldsFoldable
    <3>3. QED
      BY <3>1, <3>2
  <2>3. QED
    BY <1>1, <2>1, <2>2 DEF FoldsFoldable
<1>3. CASE ~ClaimWon(w) /\ ~ClaimDisplaced(w)
  <2>1. table' = table
    <3>1. CASE ReadFlag(w) \/ PopRequeued(w) \/ Dispense(w) \/ Report(w) \/ Check(w)
      BY <3>1 DEF ReadFlag, PopRequeued, Dispense, Report, Check
    <3>2. CASE \/ Essential(w) \/ InitCoboundary(w) \/ FoldReducer(w)
               \/ FoldApparentFacet(w) \/ FoundPivot(w) \/ ClaimLost(w)
               \/ RaisePending(w) \/ PushDisplaced(w) \/ PushLost(w)
      BY <3>2 DEF Essential, InitCoboundary, FoldReducer, FoldApparentFacet, FoundPivot,
                  ClaimLost, RaisePending, PushDisplaced, PushLost
    <3>3. QED
      BY <1>3, <3>1, <3>2 DEF Step
  <2>2. /\ pc'[w] \in {"look", "claim"} => red'[w] \subseteq Foldable
        /\ pc'[w] = "claim" => pivot'[w] \notin ctx.apparent
    <3>1. CASE InitCoboundary(w)
      BY <3>1 DEF InitCoboundary, Goto, TypeOK
    <3>2. CASE FoldReducer(w)
      <4>. DEFINE owner == table[pivot[w]]
      <4>1. /\ pivot[w] \in DOMAIN table /\ pc[w] = "look" /\ pc'[w] = "look"
            /\ red'[w] = SymDiff(red[w], Reducer(owner))
        BY <3>2 DEF FoldReducer, OwnedBySmaller, TypeOK
      <4>2. owner.col \in Cols /\ owner.v \subseteq Foldable /\ red[w] \subseteq Foldable
        BY <4>1 DEF FoldsFoldable, TypeOK, Owner
      <4>. HIDE DEF owner
      <4>3. red'[w] \subseteq Foldable
        BY <4>1, <4>2 DEF SymDiff, Reducer, Foldable
      <4>4. QED
        BY <4>1, <4>3
    <3>3. CASE FoldApparentFacet(w)
      <4>1. /\ pivot[w] \in ctx.apparent /\ pc[w] = "look" /\ pc'[w] = "look"
            /\ red'[w] = SymDiff(red[w], {-pivot[w]})
        BY <3>3 DEF FoldApparentFacet, TypeOK
      <4>2. -pivot[w] \in Foldable /\ red[w] \subseteq Foldable
        BY <4>1 DEF FoldsFoldable, Foldable
      <4>3. red'[w] \subseteq Foldable
        BY <4>1, <4>2 DEF SymDiff
      <4>4. QED
        BY <4>1, <4>3
    <3>4. CASE FoundPivot(w)
      BY <3>4 DEF FoundPivot, FoldsFoldable, passVars
    <3>5. CASE ReadFlag(w) \/ PopRequeued(w) \/ Dispense(w) \/ Report(w) \/ Check(w)
      BY <3>5 DEF ReadFlag, PopRequeued, Dispense, Report, Check, Goto, TypeOK
    <3>6. CASE Essential(w) \/ ClaimLost(w) \/ RaisePending(w) \/ PushDisplaced(w) \/ PushLost(w)
      BY <3>6 DEF Essential, ClaimLost, RaisePending, PushDisplaced, PushLost, Goto, TypeOK
    <3>7. QED
      BY <1>3, <3>1, <3>2, <3>3, <3>4, <3>5, <3>6 DEF Step
  <2>3. QED
    BY <1>1, <2>1, <2>2 DEF FoldsFoldable
<1>4. QED
  BY <1>2, <1>3

\* In every state.
LEMMA FoldableInvariant == Spec => []FoldsFoldable
<1>1. Init => FoldsFoldable
  BY DEF Init, FoldsFoldable, EmptyTable
<1>2. IInv /\ FoldsFoldable /\ [Next]_vars => FoldsFoldable'
  <2>. SUFFICES ASSUME IInv, FoldsFoldable, [Next]_vars PROVE FoldsFoldable'
    OBVIOUS
  <2>1. CASE UNCHANGED vars
    BY <2>1 DEF vars, passVars, queueVars, FoldsFoldable, Foldable
  <2>2. ASSUME NEW w \in Workers, Step(w) PROVE FoldsFoldable'
    BY <2>2, StepFoldable DEF IInv
  <2>3. QED
    BY <2>1, <2>2 DEF Next, Returned
<1>3. QED
  BY <1>1, <1>2, InductiveInvariant, PTL DEF Spec

\* A column waits, is held or owns a pivot.
Somewhere(c) ==
  \/ c >= next
  \/ \E i \in DOMAIN requeued : requeued[i] = c
  \/ \E w \in Workers : c \in HeldBy(w)
  \/ \E r \in DOMAIN table : table[r].col = c

\* A column that is nowhere has been reduced to zero.
NothingLost == \A c \in Cols : Somewhere(c) \/ ctx.cob[c] \in Span(ctx, c)

\* What foldable simplices before a column are.
LEMMA FoldableBefore ==
  ASSUME TypeOK, NEW c \in Cols, NEW v \in SUBSET Foldable, \A s \in v : s < c
  PROVE  v \in SUBSET Before(ctx, c)
BY DEF Foldable, Before

\* A column reduced to zero is a sum of what comes before it.
LEMMA EssentialDepends ==
  ASSUME TypeOK, PassReduces, FoldsFoldable, NEW w \in Workers, Essential(w)
  PROVE  ctx.cob[col[w]] \in Span(ctx, col[w])
<1>. DEFINE c == col[w]
<1>1. /\ pc[w] = "look" /\ pivot[w] = NoPivot /\ c \in Cols /\ ctx \in Problem
      /\ work[w] \in Chain /\ red[w] \in SUBSET Foldable
  BY DEF Essential, TypeOK, FoldsFoldable
<1>2. NoPivot \notin Rows
  BY DEF NoPivot, Rows
<1>3. /\ \A s \in red[w] : s < c
      /\ work[w] = ReducedChain(c, red[w])
      /\ pivot[w] = LeadOf(work[w])
  BY <1>1, <1>2 DEF PassReduces
<1>4. work[w] = {}
  <2>. DEFINE chain == work[w]
  <2>1. chain \in Chain /\ LeadOf(chain) = NoPivot
    BY <1>1, <1>3
  <2>. HIDE DEF chain
  <2>2. chain = {}
    BY <1>2, <2>1, PivotInChain DEF LeadOf, Chain
  <2>3. QED
    BY <2>2 DEF chain
<1>5. red[w] \in SUBSET Before(ctx, c)
  BY <1>1, <1>3, FoldableBefore
<1>6. ctx.cob[c] = Boundary(ctx, red[w])
  BY <1>3, <1>4 DEF ReducedChain, SymDiff
<1>7. QED
  BY <1>5, <1>6 DEF Span

\* A step that leaves every column somewhere loses nothing.
LEMMA KeptSomewhere ==
  ASSUME NothingLost, ctx' = ctx, \A d \in Cols : Somewhere(d) => Somewhere(d)'
  PROVE  NothingLost'
BY DEF NothingLost, Span, Before

\* Along a pass, around the queue, or out of the reduction.
LEMMA QuietStepLoses ==
  ASSUME TypeOK, NothingLost, NEW w \in Workers,
         \/ ReadFlag(w) \/ Report(w) \/ Check(w) \/ InitCoboundary(w)
         \/ FoldReducer(w) \/ FoldApparentFacet(w) \/ FoundPivot(w) \/ ClaimLost(w)
         \/ RaisePending(w)
  PROVE  NothingLost'
<1>1. UNCHANGED <<ctx, next, requeued, table>>
  BY DEF ReadFlag, Report, Check, InitCoboundary, FoldReducer,
         FoldApparentFacet, FoundPivot, ClaimLost, RaisePending, queueVars
<1>2. \A u \in Workers : HeldBy(u) \subseteq HeldBy(u)'
  BY DEF ReadFlag, Report, Check, InitCoboundary, FoldReducer,
         FoldApparentFacet, FoundPivot, ClaimLost, RaisePending, HeldBy, Goto,
         passVars, TypeOK
<1>3. \A d \in Cols : Somewhere(d) => Somewhere(d)'
  BY <1>1, <1>2 DEF Somewhere
<1>4. QED
  BY <1>1, <1>3, KeptSomewhere

\* A worker is done with a column that it has reduced to zero.
LEMMA EssentialLoses ==
  ASSUME TypeOK, PassReduces, FoldsFoldable, NothingLost, NEW w \in Workers, Essential(w)
  PROVE  NothingLost'
<1>1. UNCHANGED <<ctx, next, requeued, table>>
  BY DEF Essential, queueVars
<1>2. HeldBy(w) = {col[w]} /\ \A u \in Workers \ {w} : HeldBy(u)' = HeldBy(u)
  BY DEF Essential, HeldBy, Goto, passVars, TypeOK
<1>3. \A d \in Cols : d # col[w] => (Somewhere(d) => Somewhere(d)')
  BY <1>1, <1>2 DEF Somewhere
<1>4. ctx.cob[col[w]] \in Span(ctx, col[w])
  BY EssentialDepends
<1>5. QED
  BY <1>1, <1>3, <1>4 DEF NothingLost, Span, Before

\* A dispensed column is held.
LEMMA DispenseLoses ==
  ASSUME TypeOK, NothingLost, NEW w \in Workers, Dispense(w)
  PROVE  NothingLost'
<1>1. CASE next < NumCols
  <2>0. next \in Int
    BY DEF TypeOK
  <2>1. /\ next' = next + 1 /\ UNCHANGED <<ctx, requeued, table>>
        /\ HeldBy(w)' = {next} /\ HeldBy(w) = {}
        /\ \A u \in Workers \ {w} : HeldBy(u)' = HeldBy(u)
    BY <1>1 DEF Dispense, HeldBy, Goto, TypeOK
  <2>2. \A d \in Cols : d >= next => d = next \/ d >= next + 1
    BY <2>0, SizeAssumption DEF Cols
  <2>3. \A d \in Cols : Somewhere(d) => Somewhere(d)'
    BY <2>1, <2>2 DEF Somewhere
  <2>4. QED
    BY <2>1, <2>3, KeptSomewhere
<1>2. CASE ~(next < NumCols)
  <2>1. /\ UNCHANGED <<ctx, next, requeued, table>>
        /\ \A u \in Workers : HeldBy(u) \subseteq HeldBy(u)'
    BY <1>2 DEF Dispense, HeldBy, Goto, TypeOK
  <2>2. \A d \in Cols : Somewhere(d) => Somewhere(d)'
    BY <2>1 DEF Somewhere
  <2>3. QED
    BY <2>1, <2>2, KeptSomewhere
<1>3. QED
  BY <1>1, <1>2

\* A popped column is held.
LEMMA PopLoses ==
  ASSUME TypeOK, NothingLost, NEW w \in Workers, PopRequeued(w)
  PROVE  NothingLost'
<1>1. CASE requeued # <<>>
  <2>. DEFINE top == Len(requeued)
              c   == requeued[top]
  <2>1. /\ top \in Nat /\ top >= 1 /\ c \in Cols
        /\ DOMAIN requeued = 1 .. top
        /\ DOMAIN requeued' = 1 .. top - 1
        /\ \A i \in 1 .. top - 1 : requeued'[i] = requeued[i]
    BY <1>1 DEF TypeOK, PopRequeued
  <2>2. /\ UNCHANGED <<ctx, next, table>>
        /\ HeldBy(w)' = {c} /\ HeldBy(w) = {}
        /\ \A u \in Workers \ {w} : HeldBy(u)' = HeldBy(u)
    BY <1>1 DEF PopRequeued, HeldBy, Goto, TypeOK
  <2>3. \A i \in DOMAIN requeued : requeued[i] = c \/ (i \in DOMAIN requeued' /\ requeued'[i] = requeued[i])
    <3>1. \A i \in 1 .. top : i = top \/ i \in 1 .. top - 1
      <4>. HIDE DEF top
      <4>1. QED
        BY <2>1
    <3>2. QED
      BY <2>1, <3>1
  <2>. HIDE DEF c, top
  <2>4. \A d \in Cols : Somewhere(d) => Somewhere(d)'
    BY <2>2, <2>3 DEF Somewhere
  <2>5. QED
    BY <2>2, <2>4, KeptSomewhere
<1>2. CASE requeued = <<>>
  <2>1. /\ UNCHANGED <<ctx, next, requeued, table>>
        /\ \A u \in Workers : HeldBy(u) \subseteq HeldBy(u)'
    BY <1>2 DEF PopRequeued, HeldBy, Goto, TypeOK
  <2>2. \A d \in Cols : Somewhere(d) => Somewhere(d)'
    BY <2>1 DEF Somewhere
  <2>3. QED
    BY <2>1, <2>2, KeptSomewhere
<1>3. QED
  BY <1>1, <1>2

\* A pushed column is on the stack.
LEMMA PushLoses ==
  ASSUME TypeOK, NothingLost, NEW w \in Workers, PushLost(w) \/ PushDisplaced(w)
  PROVE  NothingLost'
<1>. DEFINE top == Len(requeued) + 1
            c   == back[w]
<1>1. /\ UNCHANGED <<ctx, next, table>>
      /\ HeldBy(w) = {c}
      /\ \A u \in Workers \ {w} : HeldBy(u)' = HeldBy(u)
  BY DEF PushLost, PushDisplaced, Requeue, HeldBy, Goto, passVars, TypeOK
<1>2. /\ DOMAIN requeued \subseteq DOMAIN requeued'
      /\ \A i \in DOMAIN requeued : requeued'[i] = requeued[i]
      /\ top \in DOMAIN requeued'
      /\ requeued'[top] = c
  <2>1. requeued' = Append(requeued, c) /\ requeued \in Seq(Cols) /\ c \in Cols
    BY DEF PushLost, PushDisplaced, Requeue, TypeOK
  <2>. HIDE DEF c
  <2>2. QED
    BY <2>1
<1>. HIDE DEF c, top
<1>3. \A d \in Cols : Somewhere(d) => Somewhere(d)'
  BY <1>1, <1>2 DEF Somewhere
<1>4. QED
  BY <1>1, <1>3, KeptSomewhere

\* A claimed column is an owner, and a displaced owner is held.
LEMMA ClaimLoses ==
  ASSUME TypeOK, ClaimsPivot, NothingLost, NEW w \in Workers, ClaimWon(w) \/ ClaimDisplaced(w)
  PROVE  NothingLost'
<1>. DEFINE c == col[w]
            r == pivot[w]
<1>1. /\ HeldBy(w) = {c}
      /\ UNCHANGED <<ctx, next, requeued>>
      /\ \A u \in Workers \ {w} : pc'[u] = pc[u] /\ back'[u] = back[u] /\ col'[u] = col[u]
      /\ table' = [s \in DOMAIN table \cup {r} |->
                    IF s = r THEN [col |-> c, v |-> red[w]] ELSE table[s]]
  BY DEF ClaimWon, ClaimDisplaced, queueVars, passVars, HeldBy, Goto, TypeOK, Install, Installed
<1>2. \A u \in Workers \ {w} : HeldBy(u)' = HeldBy(u)
  BY <1>1 DEF HeldBy
<1>3. r \in DOMAIN table => HeldBy(w)' = {table[r].col}
  BY DEF ClaimWon, ClaimDisplaced, HeldBy, Goto, TypeOK
<1>. HIDE DEF c, r
<1>4. /\ DOMAIN table' = DOMAIN table \cup {r}
      /\ table'[r].col = c
      /\ \A s \in DOMAIN table \ {r} : table'[s] = table[s]
  BY <1>1
<1>5. \A d \in Cols : Somewhere(d) => Somewhere(d)'
  BY <1>1, <1>2, <1>3, <1>4 DEF Somewhere
<1>6. QED
  BY <1>1, <1>5, KeptSomewhere

\* No step loses a column.
LEMMA StepLoses ==
  ASSUME IInv, PassReduces, FoldsFoldable, NothingLost, [Next]_vars
  PROVE  NothingLost'
<1>1. ASSUME NEW w \in Workers, Step(w) PROVE NothingLost'
  BY <1>1, QuietStepLoses, EssentialLoses, DispenseLoses, PopLoses, PushLoses, ClaimLoses
     DEF Step, IInv
<1>2. CASE UNCHANGED vars
  BY <1>2 DEF vars, queueVars, passVars, NothingLost, Somewhere, HeldBy, Span, Before
<1>3. QED
  BY <1>1, <1>2 DEF Next, Returned

\* Every column waits, is held, owns a pivot, or has been reduced to zero.
LEMMA NothingLostInvariant == Spec => []NothingLost
<1>1. Init => NothingLost
  BY SizeAssumption DEF Init, NothingLost, Somewhere, Cols
<1>2. IInv /\ PassReduces /\ FoldsFoldable /\ NothingLost /\ [Next]_vars => NothingLost'
  BY StepLoses
<1>3. QED
  BY <1>1, <1>2, InductiveInvariant, ReducesInvariant, FoldableInvariant, PTL DEF Spec

\* With nothing pending, the table has dealt with every column.
LEMMA ZeroSettles ==
  ASSUME TypeOK, NoEarlyZero, OnePlace, OwnersReduce, FoldsFoldable, NothingLost, pending = 0
  PROVE  Settled(ctx, table, NumCols)
<1>1. DOMAIN table \subseteq Rows \ ctx.apparent
  BY DEF TypeOK, FoldsFoldable
<1>2. ASSUME NEW r \in DOMAIN table
      PROVE  /\ table[r] \in Owner /\ table[r].col < NumCols
             /\ table[r].v \subseteq Before(ctx, table[r].col)
             /\ LeadOf(SymDiff(ctx.cob[table[r].col], Boundary(ctx, table[r].v))) = r
  <2>. DEFINE c == table[r].col
              v == table[r].v
  <2>1. table[r] \in Owner /\ c \in Cols /\ c < NumCols
    BY SizeAssumption DEF TypeOK, Owner, Cols
  <2>2. v \in SUBSET Foldable /\ (\A s \in v : s < c) /\ LeadOf(ReducedChain(c, v)) = r
    BY DEF FoldsFoldable, OwnersReduce
  <2>. HIDE DEF c, v
  <2>3. v \in SUBSET Before(ctx, c)
    BY <2>1, <2>2, FoldableBefore
  <2>4. QED
    BY <2>1, <2>2, <2>3 DEF ReducedChain, c, v
<1>3. ASSUME NEW r \in DOMAIN table, NEW s \in DOMAIN table, table[r].col = table[s].col
      PROVE  r = s
  <2>1. table[r].col \in Cols
    BY DEF TypeOK, Owner
  <2>2. <<"owner", r>> \in Places(table[r].col) /\ <<"owner", s>> \in Places(table[r].col)
    BY <1>3 DEF Places
  <2>3. <<"owner", r>> = <<"owner", s>>
    BY <2>1, <2>2 DEF OnePlace
  <2>4. QED
    BY <2>3
<1>4. ASSUME NEW c \in Cols
      PROVE  (\E r \in DOMAIN table : table[r].col = c) \/ ctx.cob[c] \in Span(ctx, c)
  <2>1. /\ next = NumCols /\ requeued = <<>>
        /\ \A w \in Workers : HeldBy(w) = {}
    BY DEF NoEarlyZero, HeldBy, InPass
  <2>2. ~(c >= next) /\ DOMAIN requeued = {}
    BY <2>1, SizeAssumption DEF Cols
  <2>3. QED
    BY <2>1, <2>2 DEF NothingLost, Somewhere
<1>5. QED
  BY <1>1, <1>2, <1>3, <1>4 DEF Settled

\* The operators of the registry are those of the problem.
LEMMA SamePivots ==
  ASSUME NEW p
  PROVE  Registry!OwnerOf(Registry!SerialPivots(p)) = OwnerOf(SerialPivots(p))
<1>1. Registry!SerialPivots(p) = SerialPivots(p)
  BY DEF Registry!SerialPivots, SerialPivots, Registry!ReduceSerialColumn, ReduceSerialColumn,
         Registry!Shortcut, Shortcut, Registry!Installed, Installed, Registry!Passes, Passes,
         Registry!Folded, Folded, Registry!Reducer, Reducer, Registry!Boundary, Boundary,
         Registry!Cardinality, Cardinality, Registry!SymDiff, SymDiff, Registry!LeadOf, LeadOf,
         Registry!Pivot, Pivot, Registry!NoPivot, NoPivot, Registry!Chain, Chain,
         Registry!Simplices, Simplices, Registry!Facets, Facets, Registry!Cols, Cols,
         Registry!Rows, Rows, Registry!EmptyTable, EmptyTable
<1>2. QED
  BY <1>1 DEF Registry!OwnerOf, OwnerOf

\* When the first worker leaves, the registry holds the serial pairs.
LEMMA ClosesExactly ==
  ASSUME TypeOK, NoEarlyZero, OnePlace, OwnersReduce, FoldsFoldable, NothingLost, Closes
  PROVE  Registry!Close
<1>1. ctx \in Problem /\ pending = 0
  BY DEF TypeOK, Closes
<1>2. Settled(ctx, table, NumCols) /\ Settled(ctx, SerialPivots(ctx), NumCols)
  BY <1>1, ZeroSettles, SerialSettles
<1>3. OwnerOf(table) = OwnerOf(SerialPivots(ctx))
  BY <1>1, <1>2, PivotsUnique
<1>4. OwnerOf(table) = Registry!OwnerOf(Registry!SerialPivots(ctx))
  BY <1>3, SamePivots
<1>5. QED
  BY <1>4 DEF Closes, Registry!Close

\* The reduction implements the registry: whatever the threads do, the pivots
\* change hands as it allows, and what the last of them leaves behind is what
\* the serial reduction computes (parallel.rs).
THEOREM RegistryRefined == Spec => RefinesRegistry
<1>1. /\ TypeOK /\ NoEarlyZero /\ OnePlace /\ OwnersReduce /\ FoldsFoldable /\ NothingLost
      /\ [(\E r \in Rows, c \in Cols : Registry!Take(r, c)) \/ Closes]_(Registry!registryVars)
      => [Registry!RegistryNext]_(Registry!registryVars)
  <2>1. Registry!Rows = Rows /\ Registry!Cols = Cols
    BY DEF Registry!Rows, Rows, Registry!Cols, Cols
  <2>2. QED
    BY <2>1, ClosesExactly DEF Registry!RegistryNext
<1>2. QED
  BY <1>1, RegistryKept, TypeCorrect, PendingIsSafe, OnePlaceInvariant, OwnersAlwaysReduce,
     FoldableInvariant, NothingLostInvariant, PTL
     DEF RefinesRegistry, Registry!RegistrySpec

-----------------------------------------------------------------------------
(* The ranks that the pivots of the serial reducer are compared with *)

\* The chains of a span, cut off after a row.
Cut(p, r, n) == {chain \cap (1 .. r) : chain \in Span(p, n)}

\* The rows up to a row at which the span leads.
LeadsUpTo(p, r, n) == Leads(p, n) \cap (1 .. r)

\* A power of two is the power of one exponent.
LEMMA SamePower ==
  ASSUME NEW j \in Nat, NEW k \in Nat, 2 ^ j = 2 ^ k
  PROVE  j = k
<1>1. ASSUME NEW a \in Nat, NEW b \in Nat, a < b
      PROVE  2 ^ a # 2 ^ b
  <2>1. /\ IsFiniteSet(1 .. a) /\ Cardinality(1 .. a) = a
        /\ IsFiniteSet(1 .. b) /\ Cardinality(1 .. b) = b
    BY FS_Interval
  <2>2. /\ Cardinality(SUBSET (1 .. a)) = 2 ^ a
        /\ IsFiniteSet(SUBSET (1 .. b)) /\ Cardinality(SUBSET (1 .. b)) = 2 ^ b
    <3>1. /\ Cardinality(SUBSET (1 .. a)) = 2 ^ Cardinality(1 .. a)
          /\ IsFiniteSet(SUBSET (1 .. b)) /\ Cardinality(SUBSET (1 .. b)) = 2 ^ Cardinality(1 .. b)
      BY <2>1, FS_SUBSET
    <3>2. QED
      BY <2>1, <3>1, Zenon
  <2>3. SUBSET (1 .. a) \in SUBSET (SUBSET (1 .. b)) /\ SUBSET (1 .. a) # SUBSET (1 .. b)
    <3>1. 1 .. a \subseteq 1 .. b /\ b \in 1 .. b /\ b \notin 1 .. a
      BY <1>1
    <3>2. QED
      BY <3>1
  <2>4. Cardinality(SUBSET (1 .. a)) # Cardinality(SUBSET (1 .. b))
    BY <2>2, <2>3, FS_Subset
  <2>5. QED
    BY <2>2, <2>4, Zenon
<1>2. QED
  BY <1>1

\* Chains of a span that agree where it leads agree up to that row.
LEMMA CutByLeads ==
  ASSUME NEW p \in Problem, NEW n, NEW r \in 0 .. NumRows,
         NEW a \in Cut(p, r, n), NEW b \in Cut(p, r, n),
         a \cap Leads(p, n) = b \cap Leads(p, n)
  PROVE  a = b
<1>1. PICK x \in Span(p, n) : a = x \cap (1 .. r)
  BY DEF Cut
<1>2. PICK y \in Span(p, n) : b = y \cap (1 .. r)
  BY DEF Cut
<1>. DEFINE z == SymDiff(x, y)
<1>3. z \in Span(p, n) /\ z \in Chain
  BY SpanGroup
<1>4. ASSUME NEW s \in z, s \in 1 .. r
      PROVE  FALSE
  <2>. HIDE DEF z
  <2>1. /\ Pivot(z) \in z /\ Pivot(z) <= s /\ Pivot(z) \in Leads(p, n)
    BY <1>3, <1>4, PivotInChain DEF Leads
  <2>2. Pivot(z) \in 1 .. r
    <3>1. Pivot(z) \in Rows
      BY <1>3, <2>1 DEF Chain
    <3>2. Pivot(z) \in Int /\ Pivot(z) >= 1 /\ s \in Int /\ s <= r /\ r \in Int
      BY <1>4, <3>1, SizeAssumption DEF Rows
    <3>3. QED
      BY <2>1, <3>2
  <2>3. Pivot(z) \in a <=> Pivot(z) \in b
    BY <2>1
  <2>4. Pivot(z) \in x <=> Pivot(z) \in y
    BY <1>1, <1>2, <2>2, <2>3
  <2>5. QED
    BY <2>1, <2>4 DEF z, SymDiff
<1>5. \A s \in 1 .. r : s \in x <=> s \in y
  BY <1>4 DEF SymDiff
<1>6. QED
  BY <1>1, <1>2, <1>5

\* Every set of the rows at which a span leads is met by a chain of it.
LEMMA CutOfAnyLeads ==
  ASSUME NEW p \in Problem, NEW n, NEW r \in 0 .. NumRows,
         NEW A \in SUBSET LeadsUpTo(p, r, n)
  PROVE  \E a \in Cut(p, r, n) : a \cap Leads(p, n) = A
<1>. DEFINE agree(chain, k) == \A s \in Leads(p, n) : s <= k => (s \in chain <=> s \in A)
            H == {k \in 0 .. r : \E chain \in Span(p, n) : agree(chain, k)}
<1>0. /\ r \in Nat /\ \A s \in Leads(p, n) : s \in Rows /\ s \in Int /\ s >= 1
  <2>1. \A chain \in Span(p, n) \ {{}} : Pivot(chain) \in Rows
    BY SpanGroup, PivotInChain DEF Chain
  <2>2. Leads(p, n) \subseteq Rows
    BY <2>1 DEF Leads
  <2>3. QED
    BY <2>2, SizeAssumption DEF Rows
<1>1. 0 \in H
  <2>1. {} \in Span(p, n)
    BY SpanGroup
  <2>2. agree({}, 0)
    BY <1>0
  <2>. HIDE DEF agree
  <2>3. QED
    BY <1>0, <2>1, <2>2
<1>2. ASSUME NEW k \in 1 .. r, k - 1 \in H
      PROVE  k \in H
  <2>1. PICK chain \in Span(p, n) : agree(chain, k - 1)
    BY <1>2
  <2>2. k \in Int /\ k \in 0 .. r /\ \A s \in Leads(p, n) : s <= k => s <= k - 1 \/ s = k
    BY <1>0
  <2>3. CASE k \in Leads(p, n) => (k \in chain <=> k \in A)
    <3>1. agree(chain, k)
      BY <2>1, <2>2, <2>3
    <3>. HIDE DEF agree
    <3>2. QED
      BY <2>2, <3>1
  <2>4. CASE ~(k \in Leads(p, n) => (k \in chain <=> k \in A))
    <3>1. PICK more \in Span(p, n) \ {{}} : Pivot(more) = k
      BY <2>4 DEF Leads
    <3>2. k \in more /\ (\A s \in more : k <= s) /\ \A s \in more : s \in Int
      <4>1. more \in Chain /\ more # {}
        BY SpanGroup
      <4>2. \A s \in more : s \in Int
        BY <4>1, SizeAssumption DEF Chain, Rows
      <4>3. QED
        BY <3>1, <4>1, <4>2, PivotInChain
    <3>. DEFINE sum == SymDiff(chain, more)
    <3>3. sum \in Span(p, n)
      BY SpanGroup
    <3>4. agree(sum, k)
      <4>. SUFFICES ASSUME NEW s \in Leads(p, n), s <= k PROVE s \in sum <=> s \in A
        OBVIOUS
      <4>1. CASE s = k
        BY <2>4, <3>2, <4>1 DEF SymDiff
      <4>2. CASE s # k
        <5>1. s <= k - 1 /\ s \in Int /\ s < k
          BY <1>0, <2>2, <4>2
        <5>2. s \notin more
          BY <2>2, <3>2, <5>1
        <5>3. QED
          BY <2>1, <5>1, <5>2 DEF SymDiff
      <4>3. QED
        BY <4>1, <4>2
    <3>. HIDE DEF sum, agree
    <3>5. QED
      BY <2>2, <3>3, <3>4
  <2>5. QED
    BY <2>3, <2>4
<1>3. H = 0 .. r
  <2>1. H \in SUBSET (0 .. r)
    OBVIOUS
  <2>. HIDE DEF H
  <2>2. QED
    BY <1>0, <1>1, <1>2, <2>1, FirstFailure
<1>4. r \in H
  <2>. HIDE DEF H
  <2>1. QED
    BY <1>0, <1>3
<1>5. PICK chain \in Span(p, n) : agree(chain, r)
  BY <1>4
<1>6. chain \cap (1 .. r) \in Cut(p, r, n)
  BY DEF Cut
<1>7. (chain \cap (1 .. r)) \cap Leads(p, n) = A
  <2>1. \A s \in Leads(p, n) : s <= r <=> s \in 1 .. r
    BY <1>0
  <2>2. A \subseteq Leads(p, n) /\ A \subseteq 1 .. r
    BY DEF LeadsUpTo
  <2>3. QED
    BY <1>5, <2>1, <2>2
<1>8. QED
  BY <1>6, <1>7

\* A span has as many chains up to a row as it has sets of rows to lead at.
LEMMA CutsCounted ==
  ASSUME NEW p \in Problem, NEW n, NEW r \in 0 .. NumRows
  PROVE  /\ Cardinality(LeadsUpTo(p, r, n)) \in 0 .. NumRows
         /\ Cardinality(Cut(p, r, n)) = 2 ^ Cardinality(LeadsUpTo(p, r, n))
<1>. DEFINE L == LeadsUpTo(p, r, n)
            C == Cut(p, r, n)
            f == [a \in C |-> a \cap Leads(p, n)]
<1>1. L \subseteq Rows
  <2>1. \A s \in 1 .. r : s \in Rows
    BY SizeAssumption DEF Rows
  <2>2. QED
    BY <2>1 DEF LeadsUpTo
<1>2. IsFiniteSet(L) /\ Cardinality(L) \in 0 .. NumRows
  <2>1. IsFiniteSet(Rows) /\ Cardinality(Rows) = NumRows
    BY FS_Interval, SizeAssumption DEF Rows
  <2>2. IsFiniteSet(L) /\ Cardinality(L) <= Cardinality(Rows)
    BY <1>1, <2>1, FS_Subset
  <2>3. Cardinality(L) \in Nat
    BY <2>2, FS_CardinalityType
  <2>4. QED
    BY <2>1, <2>2, <2>3, SizeAssumption
<1>3. f \in [C -> SUBSET L]
  <2>1. \A a \in C : a \subseteq 1 .. r
    BY DEF Cut
  <2>2. \A a \in C : a \cap Leads(p, n) \in SUBSET L
    BY <2>1 DEF LeadsUpTo
  <2>3. QED
    BY <2>2
<1>4. \A a, b \in C : f[a] = f[b] => a = b
  <2>. SUFFICES ASSUME NEW a \in C, NEW b \in C, f[a] = f[b] PROVE a = b
    OBVIOUS
  <2>1. a \cap Leads(p, n) = b \cap Leads(p, n)
    OBVIOUS
  <2>2. QED
    BY <2>1, CutByLeads
<1>5. \A A \in SUBSET L : \E a \in C : f[a] = A
  BY CutOfAnyLeads
<1>. HIDE DEF f
<1>6. f \in Bijection(C, SUBSET L)
  BY <1>3, <1>4, <1>5 DEF Bijection, Injection, Surjection, IsInjective
<1>7. f \in Injection(C, SUBSET L) /\ f \in Surjection(C, SUBSET L)
  BY <1>6 DEF Bijection
<1>8. IsFiniteSet(SUBSET L) /\ Cardinality(SUBSET L) = 2 ^ Cardinality(L)
  BY <1>2, FS_SUBSET
<1>9. Cardinality(C) = Cardinality(SUBSET L)
  <2>. HIDE DEF C, L
  <2>1. QED
    BY <1>7, <1>8, FS_Injection
<1>10. QED
  BY <1>2, <1>8, <1>9, Zenon

\* The rank of a submatrix is the number of rows at which its span leads.
LEMMA RankCountsLeads ==
  ASSUME TypeOK, NEW n \in 0 .. NumCols, NEW r \in 0 .. NumRows
  PROVE  RankOn(r, n) = Cardinality(LeadsUpTo(ctx, r, n))
<1>. DEFINE k == Cardinality(LeadsUpTo(ctx, r, n))
<1>1. ctx \in Problem
  BY DEF TypeOK
<1>2. ApparentFacets \cup (0 .. n - 1) = Before(ctx, n)
  <2>1. \A c : c \in 0 .. n - 1 <=> c \in Cols /\ c < n
    BY SizeAssumption DEF Cols
  <2>2. 0 .. n - 1 = {c \in Cols : c < n}
    BY <2>1
  <2>3. QED
    BY <2>2 DEF ApparentFacets, Before
<1>3. SpanOn(r, n) = Cut(ctx, r, n)
  <2>1. SpanOn(r, n) = {Boundary(ctx, S) \cap (1 .. r) : S \in SUBSET Before(ctx, n)}
    BY <1>2, Zenon DEF SpanOn
  <2>2. QED
    BY <2>1 DEF Cut, Span
<1>4. k \in 0 .. NumRows /\ Cardinality(SpanOn(r, n)) = 2 ^ k
  BY <1>1, <1>3, CutsCounted
<1>. HIDE DEF k
<1>5. ASSUME NEW j \in 0 .. NumRows, 2 ^ j = Cardinality(SpanOn(r, n))
      PROVE  j = k
  <2>1. j \in Nat /\ k \in Nat
    BY <1>4, SizeAssumption
  <2>2. 2 ^ j = 2 ^ k
    BY <1>4, <1>5, Zenon
  <2>3. QED
    BY <2>1, <2>2, SamePower
<1>6. 2 ^ k = Cardinality(SpanOn(r, n))
  BY <1>4
<1>7. (CHOOSE j \in 0 .. NumRows : 2 ^ j = Cardinality(SpanOn(r, n))) = k
  BY <1>4, <1>5, <1>6, Zenon
<1>8. QED
  BY <1>7, Zenon DEF RankOn, k

\* One row more raises the rank by one when the span leads there.
LEMMA RankRises ==
  ASSUME TypeOK, NEW n \in 0 .. NumCols, NEW r \in Rows
  PROVE  /\ RankOn(r - 1, n) \in Int
         /\ RankOn(r, n) = RankOn(r - 1, n) + (IF r \in Leads(ctx, n) THEN 1 ELSE 0)
<1>. DEFINE less == LeadsUpTo(ctx, r - 1, n)
            L    == LeadsUpTo(ctx, r, n)
<1>1. r \in 0 .. NumRows /\ r - 1 \in 0 .. NumRows /\ r \in Int
  BY SizeAssumption DEF Rows
<1>2. RankOn(r, n) = Cardinality(L) /\ RankOn(r - 1, n) = Cardinality(less)
  BY <1>1, RankCountsLeads
<1>3. 1 .. r = (1 .. r - 1) \cup {r} /\ r \notin 1 .. r - 1
  BY <1>1, SizeAssumption DEF Rows
<1>4. IsFiniteSet(less) /\ Cardinality(less) \in Int
  <2>1. IsFiniteSet(1 .. r - 1) /\ less \in SUBSET (1 .. r - 1)
    BY <1>1, FS_Interval DEF LeadsUpTo
  <2>2. IsFiniteSet(less)
    <3>. HIDE DEF less
    <3>1. QED
      BY <2>1, FS_Subset
  <2>3. QED
    BY <2>2, FS_CardinalityType
<1>5. CASE r \in Leads(ctx, n)
  <2>1. L = less \cup {r} /\ r \notin less
    BY <1>3, <1>5 DEF LeadsUpTo
  <2>. HIDE DEF L, less
  <2>2. Cardinality(L) = Cardinality(less) + 1
    BY <1>4, <2>1, FS_AddElement
  <2>3. QED
    BY <1>2, <1>4, <1>5, <2>2
<1>6. CASE r \notin Leads(ctx, n)
  <2>1. L = less
    BY <1>3, <1>6 DEF LeadsUpTo
  <2>. HIDE DEF L, less
  <2>2. QED
    BY <1>2, <1>4, <1>6, <2>1
<1>7. QED
  BY <1>5, <1>6

\* The ranks determine the pairs of a table that has dealt with the columns.
LEMMA RanksGivePairs ==
  ASSUME TypeOK, NEW owners, NEW n \in 0 .. NumCols, Settled(ctx, owners, n)
  PROVE  { <<r, owners[r].col>> : r \in DOMAIN owners } = RankPairs(n)
<1>1. /\ ctx \in Problem /\ NumCols \in Nat /\ n \in Int
      /\ \A r \in DOMAIN owners : /\ r \in Rows /\ r \notin ctx.apparent
                                  /\ owners[r].col \in 0 .. n - 1
                                  /\ owners[r].col \in Int
  BY SizeAssumption DEF TypeOK, Settled, Owner, Cols
<1>2. ASSUME NEW r \in Rows, NEW c \in 0 .. n - 1
      PROVE  /\ r \in Leads(ctx, c) <=>
                  r \in ctx.apparent \/ (r \in DOMAIN owners /\ owners[r].col < c)
             /\ r \in Leads(ctx, c + 1) <=>
                  r \in ctx.apparent \/ (r \in DOMAIN owners /\ owners[r].col < c + 1)
  <2>1. c \in 0 .. n /\ c + 1 \in 0 .. n
    BY <1>1
  <2>2. /\ Leads(ctx, c) = ctx.apparent \cup {s \in DOMAIN owners : owners[s].col < c}
        /\ Leads(ctx, c + 1) = ctx.apparent \cup {s \in DOMAIN owners : owners[s].col < c + 1}
    BY <1>1, <2>1, LeadsOfSettled
  <2>3. QED
    BY <2>2
<1>3. ASSUME NEW r \in Rows, NEW c \in 0 .. n - 1
      PROVE  (RankOn(r, c + 1) - RankOn(r - 1, c + 1) - RankOn(r, c) + RankOn(r - 1, c) = 1)
               <=> r \in DOMAIN owners /\ owners[r].col = c
  <2>. DEFINE one == RankOn(r - 1, c + 1)
              two == RankOn(r - 1, c)
  <2>1. c \in 0 .. NumCols /\ c + 1 \in 0 .. NumCols /\ c \in Int
    BY <1>1
  <2>2. /\ one \in Int /\ two \in Int
        /\ RankOn(r, c + 1) = one + (IF r \in Leads(ctx, c + 1) THEN 1 ELSE 0)
        /\ RankOn(r, c) = two + (IF r \in Leads(ctx, c) THEN 1 ELSE 0)
    BY <2>1, RankRises
  <2>. HIDE DEF one, two
  <2>3. (RankOn(r, c + 1) - one - RankOn(r, c) + two = 1)
          <=> r \in Leads(ctx, c + 1) /\ r \notin Leads(ctx, c)
    BY <2>2
  <2>4. r \in Leads(ctx, c + 1) /\ r \notin Leads(ctx, c)
          <=> r \in DOMAIN owners /\ owners[r].col = c
    BY <1>1, <1>2, <2>1
  <2>5. QED
    BY <2>3, <2>4 DEF one, two
<1>4. ASSUME NEW rc
      PROVE  rc \in { <<r, owners[r].col>> : r \in DOMAIN owners } <=> rc \in RankPairs(n)
  <2>1. ASSUME NEW r \in DOMAIN owners, rc = <<r, owners[r].col>>
        PROVE  rc \in RankPairs(n)
    <3>. DEFINE c == owners[r].col
    <3>1. r \in Rows /\ c \in 0 .. n - 1 /\ rc \in Rows \X (0 .. n - 1) /\ rc[1] = r /\ rc[2] = c
      BY <1>1, <2>1
    <3>. HIDE DEF c
    <3>2. RankOn(r, c + 1) - RankOn(r - 1, c + 1) - RankOn(r, c) + RankOn(r - 1, c) = 1
      BY <1>3, <3>1 DEF c
    <3>3. QED
      BY <3>1, <3>2 DEF RankPairs
  <2>2. ASSUME rc \in RankPairs(n)
        PROVE  \E r \in DOMAIN owners : rc = <<r, owners[r].col>>
    <3>1. /\ rc \in Rows \X (0 .. n - 1)
          /\ RankOn(rc[1], rc[2] + 1) - RankOn(rc[1] - 1, rc[2] + 1)
               - RankOn(rc[1], rc[2]) + RankOn(rc[1] - 1, rc[2]) = 1
      BY <2>2 DEF RankPairs
    <3>2. rc[1] \in Rows /\ rc[2] \in 0 .. n - 1 /\ rc = <<rc[1], rc[2]>>
      BY <3>1
    <3>3. rc[1] \in DOMAIN owners /\ owners[rc[1]].col = rc[2]
      BY <1>3, <3>1, <3>2
    <3>4. QED
      BY <3>2, <3>3
  <2>3. QED
    BY <2>1, <2>2
<1>5. QED
  BY <1>4

\* The engine leaves the threads alone, or lets one of them take a step.
LEMMA EngineRuns == EngineSpec => Spec
<1>1. EngineInit => Init
  BY DEF EngineInit
<1>2. [EngineNext]_allVars => [Next]_vars
  <2>1. CASE ReduceColumn
    BY <2>1 DEF ReduceColumn
  <2>2. CASE \E w \in Workers : StepInPool(w)
    BY <2>2 DEF StepInPool, Next
  <2>3. CASE PoolReturned
    BY <2>3 DEF PoolReturned, Next
  <2>4. CASE Finished \/ UNCHANGED allVars
    BY <2>4 DEF Finished, allVars
  <2>5. QED
    BY <2>1, <2>2, <2>3, <2>4 DEF EngineNext
<1>3. QED
  BY <1>1, <1>2, PTL DEF EngineSpec, Spec

\* The serial reducer has dealt with the columns before its position.
SerialSettled ==
  budget = 1 => /\ position \in 0 .. NumCols
                /\ pivots \in Leading(ctx)
                /\ Settled(ctx, pivots, position)

\* After every column the serial table holds exactly the pairs that the ranks
\* of the submatrices determine (reduce/reduction.rs).
THEOREM SerialPairsByRank == EngineSpec => []PairsByRank
<1>1. EngineInit /\ TypeOK => SerialSettled
  <2>. SUFFICES ASSUME EngineInit, TypeOK PROVE SerialSettled
    OBVIOUS
  <2>1. pivots = EmptyTable /\ position = 0 /\ position \in 0 .. NumCols
    BY SizeAssumption DEF EngineInit
  <2>2. EmptyTable \in Leading(ctx)
    <3>1. EmptyTable \in [{} -> Owner] /\ DOMAIN EmptyTable = {}
      BY DEF EmptyTable
    <3>2. QED
      BY <3>1 DEF Leading
  <2>3. Settled(ctx, EmptyTable, 0)
    BY SizeAssumption DEF Settled, EmptyTable, Cols
  <2>4. QED
    BY <2>1, <2>2, <2>3 DEF SerialSettled
<1>2. TypeOK /\ SerialSettled /\ [EngineNext]_allVars => SerialSettled'
  <2>. SUFFICES ASSUME TypeOK, SerialSettled, [EngineNext]_allVars PROVE SerialSettled'
    OBVIOUS
  <2>1. CASE ReduceColumn
    <3>1. /\ budget = 1 /\ position < NumCols /\ position' = position + 1
          /\ pivots' = AfterColumn(ctx, pivots, position)
          /\ ctx' = ctx
      BY <2>1 DEF ReduceColumn, AfterColumn, vars
    <3>2. /\ ctx \in Problem /\ position \in Cols
          /\ pivots \in Leading(ctx) /\ Settled(ctx, pivots, position)
          /\ position + 1 \in 0 .. NumCols
      BY <3>1, SizeAssumption DEF TypeOK, SerialSettled, Cols
    <3>3. pivots' \in Leading(ctx) /\ Settled(ctx, pivots', position + 1)
      BY <3>1, <3>2, AfterLeads, AfterSettles
    <3>4. Settled(ctx, pivots, position)' = Settled(ctx, pivots', position + 1)
      BY <3>1 DEF Settled, Span, Before
    <3>5. Leading(ctx)' = Leading(ctx)
      BY <3>1 DEF Leading
    <3>6. QED
      BY <3>1, <3>2, <3>3, <3>4, <3>5 DEF SerialSettled
  <2>2. CASE UNCHANGED <<ctx, serialVars>>
    BY <2>2 DEF SerialSettled, serialVars, Settled, Leading, Span, Before
  <2>3. CASE budget = 2 /\ UNCHANGED serialVars
    BY <2>3 DEF SerialSettled, serialVars
  <2>4. CASE (\E w \in Workers : StepInPool(w)) \/ PoolReturned
    BY <2>3, <2>4 DEF StepInPool, PoolReturned
  <2>5. CASE Finished \/ UNCHANGED allVars
    BY <2>2, <2>5 DEF Finished, allVars, vars
  <2>6. QED
    BY <2>1, <2>4, <2>5 DEF EngineNext
<1>3. TypeOK /\ SerialSettled => PairsByRank
  BY RanksGivePairs DEF SerialSettled, PairsByRank
<1>4. QED
  BY <1>1, <1>2, <1>3, EngineRuns, TypeCorrect, PTL DEF EngineSpec
=============================================================================
