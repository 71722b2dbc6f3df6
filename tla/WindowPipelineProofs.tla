-------------------------- MODULE WindowPipelineProofs --------------------------
(****************************************************************************)
(* Theorems about the parse of a point cloud and the pipeline that feeds    *)
(* it, for every file, window size, budget and point of failure: a text cut *)
(* at newlines, window by window and chunk by chunk, parses to what it      *)
(* parses to whole, and the pipeline brings its windows in file order.      *)
(****************************************************************************)
EXTENDS WindowPipeline, SetFacts, SequenceTheorems

-----------------------------------------------------------------------------
(* The lines of a text *)

\* The number under a line's numbers or words goes up by one token.
LEMMA WithTokenTyped ==
  ASSUME NEW t \in Seq(Token), NEW p \in 1 .. Len(t), NEW lines \in Seq(Line)
  PROVE  WithToken(lines, t, p) \in Seq(Line)
<1>. DEFINE begun == IF p = 1 \/ t[p - 1] = "newline" THEN Append(lines, NewLine) ELSE lines
            n     == Len(begun)
<1>1. NewLine \in Line
  BY DEF NewLine, Line
<1>2. begun \in Seq(Line)
  BY <1>1
<1>3. WithToken(lines, t, p) =
        CASE t[p] = "number"  -> [begun EXCEPT ![n].width = @ + 1]
          [] t[p] = "word"    -> [begun EXCEPT ![n].word = TRUE]
          [] t[p] = "newline" -> begun
  BY DEF WithToken
<1>. HIDE DEF begun
<1>4. begun \in [1 .. n -> Line] /\ n \in Nat
  BY <1>2
<1>5. [begun EXCEPT ![n].width = @ + 1] \in [1 .. n -> Line]
  <2>. DEFINE wider == [begun[n] EXCEPT !.width = @ + 1]
  <2>1. n \in 1 .. n => wider \in Line
    BY <1>4, SMTT(60) DEF Line
  <2>2. [begun EXCEPT ![n] = wider] \in [1 .. n -> Line]
    <3>. HIDE DEF wider
    <3>1. QED
      BY <1>4, <2>1
  <2>3. QED
    BY <2>2
<1>6. [begun EXCEPT ![n].word = TRUE] \in [1 .. n -> Line]
  BY <1>4 DEF Line
<1>7. \A s \in [1 .. n -> Line] : s \in Seq(Line)
  BY <1>4
<1>8. t[p] \in {"number", "word", "newline"}
  BY DEF Token
<1>9. QED
  BY <1>2, <1>3, <1>5, <1>6, <1>7, <1>8

\* A function that lists the lines up to every token of a text.
LineRun(t, f) ==
  f = [p \in 0 .. Len(t) |-> IF p = 0 THEN <<>> ELSE WithToken(f[p - 1], t, p)]

\* Its steps, one by one.
LEMMA LineRunSteps ==
  ASSUME NEW t \in Seq(Token), NEW f, LineRun(t, f)
  PROVE  f[0] = <<>> /\ \A p \in 1 .. Len(t) : f[p] = WithToken(f[p - 1], t, p)
<1>. DEFINE step(p) == WithToken(f[p - 1], t, p)
<1>1. f = [p \in 0 .. Len(t) |-> IF p = 0 THEN <<>> ELSE step(p)]
  BY DEF LineRun
<1>2. Len(t) \in Nat
  OBVIOUS
<1>. HIDE DEF step
<1>3. f[0] = <<>> /\ \A p \in 1 .. Len(t) : f[p] = step(p)
  BY <1>1, <1>2
<1>4. QED
  BY <1>3 DEF step

\* The lines of a text are those up to its last token.
LEMMA LinesOf ==
  ASSUME NEW t \in Seq(Token)
  PROVE  \E f \in [0 .. Len(t) -> Seq(Line)] :
            LineRun(t, f) /\ Lines(t) = f[Len(t)]
<1>. DEFINE n == Len(t)
            G == [p \in 1 .. n |-> [lines \in Seq(Line) |-> WithToken(lines, t, p)]]
            D == Seq(Line)
<1>1. n \in Nat /\ <<>> \in D
  OBVIOUS
<1>2. G \in [1 .. n -> [D -> D]]
  BY WithTokenTyped
<1>3. PICK f \in [0 .. n -> D] : f[0] = <<>> /\ \A p \in 1 .. n : f[p] = G[p][f[p - 1]]
  <2>. DEFINE base == <<>>
  <2>1. n \in Nat /\ base \in D /\ \A k \in 1 .. n : \A x \in D : G[k][x] \in D
    BY <1>1, <1>2
  <2>2. PICK f \in Recursions(n, D, base, G) : TRUE
    <3>. HIDE DEF n, G, D, base
    <3>1. QED
      BY <2>1, RecursionExists
  <2>3. f \in [0 .. n -> D] /\ f[0] = base /\ \A p \in 1 .. n : f[p] = G[p][f[p - 1]]
    <3>. HIDE DEF n, G, D, base
    <3>1. QED
      BY <2>2 DEF Recursions
  <2>4. QED
    BY <2>3
<1>4. ASSUME NEW p \in 1 .. n
      PROVE  f[p] = WithToken(f[p - 1], t, p)
  <2>1. p - 1 \in 0 .. n
    BY <1>1
  <2>2. f[p - 1] \in Seq(Line)
    <3>. HIDE DEF n
    <3>1. QED
      BY <1>3, <2>1
  <2>3. G[p] = [lines \in Seq(Line) |-> WithToken(lines, t, p)]
    OBVIOUS
  <2>4. QED
    BY <1>3, <2>2, <2>3
<1>5. LineRun(t, f)
  <2>. DEFINE step(p) == WithToken(f[p - 1], t, p)
  <2>1. \A p \in 1 .. n : f[p] = step(p)
    BY <1>4
  <2>2. f = [p \in 0 .. n |-> IF p = 0 THEN <<>> ELSE step(p)]
    <3>. HIDE DEF step
    <3>1. QED
      BY <1>1, <1>3, <2>1
  <2>3. QED
    BY <2>2 DEF LineRun
<1>6. \A g : LineRun(t, g) => g[n] = f[n]
  <2>1. SUFFICES ASSUME NEW g, LineRun(t, g)
                 PROVE  g[n] = f[n]
    OBVIOUS
  <2>2. g[0] = f[0]
    BY <1>5, <2>1, LineRunSteps
  <2>3. ASSUME NEW p \in 1 .. n, g[p - 1] = f[p - 1]
        PROVE  g[p] = f[p]
    <3>1. g[p] = WithToken(g[p - 1], t, p)
      BY <2>1, LineRunSteps
    <3>2. QED
      BY <1>4, <2>3, <3>1
  <2>4. GoOnAlike(n, g, f)
    BY <2>2, <2>3 DEF GoOnAlike
  <2>5. \A p \in 0 .. n : g[p] = f[p]
    BY <1>1, <2>4, SameRecursion
  <2>6. QED
    BY <1>1, <2>5
<1>7. Lines(t) = (CHOOSE g : LineRun(t, g))[n]
  BY DEF Lines, LineRun
<1>8. LineRun(t, CHOOSE g : LineRun(t, g))
  BY <1>5
<1>9. QED
  BY <1>5, <1>6, <1>7, <1>8

\* A token ends or begins a line whatever the rest of the text is.
LEMMA WithTokenLocal ==
  ASSUME NEW lines, NEW t, NEW p \in Int, NEW s, NEW q \in Int,
         t[p] = s[q],
         (p = 1 \/ t[p - 1] = "newline") <=> (q = 1 \/ s[q - 1] = "newline")
  PROVE  WithToken(lines, t, p) = WithToken(lines, s, q)
BY DEF WithToken

\* A token starts at most one line.
LEMMA WithTokenCount ==
  ASSUME NEW t \in Seq(Token), NEW p \in 1 .. Len(t), NEW lines \in Seq(Line)
  PROVE  Len(WithToken(lines, t, p)) =
           Len(lines) + (IF p = 1 \/ t[p - 1] = "newline" THEN 1 ELSE 0)
<1>. DEFINE begun == IF p = 1 \/ t[p - 1] = "newline" THEN Append(lines, NewLine) ELSE lines
            n     == Len(begun)
<1>1. NewLine \in Line
  BY DEF NewLine, Line
<1>2. begun \in Seq(Line) /\ n = Len(lines) + (IF p = 1 \/ t[p - 1] = "newline" THEN 1 ELSE 0)
  BY <1>1
<1>3. WithToken(lines, t, p) =
        CASE t[p] = "number"  -> [begun EXCEPT ![n].width = @ + 1]
          [] t[p] = "word"    -> [begun EXCEPT ![n].word = TRUE]
          [] t[p] = "newline" -> begun
  BY DEF WithToken
<1>. HIDE DEF begun
<1>4. \A e : DOMAIN [begun EXCEPT ![n] = e] = 1 .. n
  BY <1>2
<1>5. DOMAIN [begun EXCEPT ![n].width = @ + 1] = 1 .. n
  BY <1>4
<1>6. DOMAIN [begun EXCEPT ![n].word = TRUE] = 1 .. n
  BY <1>4
<1>7. t[p] \in {"number", "word", "newline"}
  BY DEF Token
<1>8. DOMAIN WithToken(lines, t, p) = 1 .. n
  BY <1>2, <1>3, <1>5, <1>6, <1>7
<1>9. WithToken(lines, t, p) \in Seq(Line)
  BY WithTokenTyped
<1>10. QED
  BY <1>2, <1>8, <1>9

\* A line keeps its type when it takes a token.
LEMMA LineTakes ==
  ASSUME NEW line \in Line
  PROVE  [line EXCEPT !.width = @ + 1] \in Line /\ [line EXCEPT !.word = TRUE] \in Line
<1>1. line.width + 1 \in Nat
  BY DEF Line
<1>. DEFINE w == line.width + 1
<1>2. [line EXCEPT !.width = w] \in Line
  <2>. HIDE DEF w
  <2>1. w \in Nat
    BY <1>1 DEF w
  <2>2. QED
    BY <2>1, Zenon DEF Line
<1>3. [line EXCEPT !.word = TRUE] \in Line
  BY Zenon DEF Line
<1>4. QED
  BY <1>2, <1>3

\* An element changed, and one sequence after another, as names that a prover
\* need not look into.
Put(s, n, x) == [s EXCEPT ![n] = x]
After(a, b) == a \o b

\* A change of an element after a sequence.
LEMMA ExceptAfter ==
  ASSUME NEW S, NEW a \in Seq(S), NEW b \in Seq(S), NEW x \in S,
         NEW n, n \in 1 .. Len(b), NEW k, k = Len(a) + n
  PROVE  Put(After(a, b), k, x) = After(a, Put(b, n, x))
<1>. DEFINE m     == Len(a)
            c     == a \o b
            d     == [b EXCEPT ![n] = x]
            left  == [c EXCEPT ![m + n] = x]
            right == a \o d
<1>1. c \in Seq(S) /\ Len(c) = m + Len(b) /\ m \in Nat /\ Len(b) \in Nat
        /\ \A j \in 1 .. m + Len(b) : c[j] = IF j <= m THEN a[j] ELSE b[j - m]
  BY ConcatProperties
<1>2. d \in Seq(S) /\ Len(d) = Len(b)
        /\ \A j \in 1 .. Len(b) : d[j] = IF j = n THEN x ELSE b[j]
  BY ExceptSeq
<1>3. right \in Seq(S) /\ Len(right) = m + Len(b)
        /\ \A j \in 1 .. m + Len(b) : right[j] = IF j <= m THEN a[j] ELSE d[j - m]
  <2>. HIDE DEF d
  <2>1. right \in Seq(S) /\ Len(right) = Len(a) + Len(d)
          /\ \A j \in 1 .. Len(a) + Len(d) : right[j] = IF j <= Len(a) THEN a[j] ELSE d[j - Len(a)]
    BY <1>2, ConcatProperties
  <2>2. QED
    BY <1>2, <2>1
<1>4. m + n \in 1 .. Len(c)
  BY <1>1
<1>5. left \in Seq(S) /\ Len(left) = Len(c)
        /\ \A j \in 1 .. Len(c) : left[j] = IF j = m + n THEN x ELSE c[j]
  <2>. HIDE DEF c, m
  <2>1. QED
    BY <1>1, <1>4, ExceptSeq
<1>. HIDE DEF c, d, left, right, m
<1>6. ASSUME NEW j \in 1 .. Len(left)
      PROVE  left[j] = right[j]
  <2>1. j \in 1 .. m + Len(b)
    BY <1>1, <1>5
  <2>2. CASE j <= m
    <3>1. j # m + n
      BY <1>1, <2>2
    <3>2. QED
      BY <1>1, <1>3, <1>5, <2>1, <2>2, <3>1
  <2>3. CASE ~(j <= m)
    <3>1. j - m \in 1 .. Len(b) /\ (j = m + n <=> j - m = n)
      BY <1>1, <2>1, <2>3
    <3>2. c[j] = b[j - m]
      BY <1>1, <2>1, <2>3
    <3>3. right[j] = d[j - m]
      BY <1>3, <2>1, <2>3
    <3>4. left[j] = IF j = m + n THEN x ELSE c[j]
      BY <1>5
    <3>5. QED
      BY <1>2, <3>1, <3>2, <3>3, <3>4
  <2>4. QED
    BY <2>2, <2>3
<1>7. left = right
  BY <1>1, <1>3, <1>5, <1>6, SeqEqual
<1>8. QED
  BY <1>7 DEF left, right, c, d, m, Put, After

\* The line under a token is the last one, whatever lines come before.
LEMMA WithTokenAfter ==
  ASSUME NEW t \in Seq(Token), NEW p \in 1 .. Len(t), NEW a \in Seq(Line), NEW b \in Seq(Line),
         p = 1 \/ b # <<>>
  PROVE  WithToken(a \o b, t, p) = a \o WithToken(b, t, p)
<1>. DEFINE starts == p = 1 \/ t[p - 1] = "newline"
            begun  == IF starts THEN Append(b, NewLine) ELSE b
            whole  == IF starts THEN Append(a \o b, NewLine) ELSE a \o b
            n      == Len(begun)
            m      == Len(a)
<1>1. NewLine \in Line
  BY DEF NewLine, Line
<1>2. begun \in Seq(Line) /\ n \in Nat \ {0} /\ m \in Nat
  BY <1>1
<1>3. whole = After(a, begun)
  BY <1>1, SMTT(60) DEF After
<1>4. ASSUME NEW x \in Line
      PROVE  Put(After(a, begun), m + n, x) = After(a, Put(begun, n, x))
  <2>. DEFINE k == m + n
  <2>1. begun \in Seq(Line) /\ n \in 1 .. Len(begun) /\ k = Len(a) + n
    <3>. HIDE DEF begun
    <3>1. QED
      BY <1>2
  <2>2. Put(After(a, begun), k, x) = After(a, Put(begun, n, x))
    <3>. HIDE DEF begun, n, m, k
    <3>1. QED
      BY <2>1, ExceptAfter, SMTT(60)
  <2>3. QED
    BY <2>2
<1>. DEFINE wider == [begun[n] EXCEPT !.width = @ + 1]
            wordy == [begun[n] EXCEPT !.word = TRUE]
<1>5. wider \in Line /\ wordy \in Line /\ After(a, begun)[m + n] = begun[n]
  <2>. HIDE DEF begun
  <2>1. begun[n] \in Line
    BY <1>2
  <2>2. After(a, begun)[m + n] = begun[n]
    BY <1>2 DEF After
  <2>3. wider \in Line
    BY <2>1, LineTakes
  <2>4. wordy \in Line
    BY <2>1, LineTakes
  <2>5. QED
    BY <2>2, <2>3, <2>4
<1>6. Len(whole) = m + n
  <2>. HIDE DEF begun, whole
  <2>1. QED
    BY <1>2, <1>3 DEF After
<1>7. WithToken(a \o b, t, p) =
        CASE t[p] = "number"  -> [whole EXCEPT ![m + n].width = @ + 1]
          [] t[p] = "word"    -> [whole EXCEPT ![m + n].word = TRUE]
          [] t[p] = "newline" -> whole
  BY <1>6 DEF WithToken
<1>8. WithToken(b, t, p) =
        CASE t[p] = "number"  -> Put(begun, n, wider)
          [] t[p] = "word"    -> Put(begun, n, wordy)
          [] t[p] = "newline" -> begun
  BY DEF WithToken, Put
<1>9. t[p] \in {"number", "word", "newline"}
  BY DEF Token
<1>. HIDE DEF begun, whole, n, m
<1>10. [whole EXCEPT ![m + n].width = @ + 1] = Put(whole, m + n, wider)
  BY <1>3, <1>5 DEF Put
<1>11. [whole EXCEPT ![m + n].word = TRUE] = Put(whole, m + n, wordy)
  BY <1>3, <1>5 DEF Put
<1>. HIDE DEF wider, wordy
<1>12. Put(whole, m + n, wider) = After(a, Put(begun, n, wider))
  BY <1>3, <1>4, <1>5
<1>13. Put(whole, m + n, wordy) = After(a, Put(begun, n, wordy))
  BY <1>3, <1>4, <1>5
<1>14. WithToken(a \o b, t, p) = After(a, WithToken(b, t, p))
  BY <1>3, <1>7, <1>8, <1>9, <1>10, <1>11, <1>12, <1>13
<1>15. QED
  BY <1>14 DEF After

\* A text that breaks no line at its end.
EndsLine(t) == t = <<>> \/ t[Len(t)] = "newline"

\* The first tokens of a longer text make the lines they make alone.
LEMMA LinesOfPrefix ==
  ASSUME NEW u \in Seq(Token), NEW w \in Seq(Token), NEW t \in Seq(Token), t = After(u, w),
         NEW f, LineRun(u, f), NEW g, LineRun(t, g)
  PROVE  \A p \in 0 .. Len(u) : g[p] = f[p]
<1>. DEFINE m == Len(u)
<1>1. m \in Nat /\ Len(t) = m + Len(w) /\ Len(w) \in Nat
        /\ \A i \in 1 .. m : t[i] = u[i]
  BY DEF After
<1>. HIDE DEF m
<1>2. g[0] = f[0]
  <2>1. f[0] = <<>>
    BY LineRunSteps
  <2>2. g[0] = <<>>
    BY LineRunSteps
  <2>3. QED
    BY <2>1, <2>2
<1>3. ASSUME NEW p \in 1 .. m, g[p - 1] = f[p - 1]
      PROVE  g[p] = f[p]
  <2>1. p \in 1 .. Len(t) /\ p \in 1 .. Len(u)
    BY <1>1 DEF m
  <2>2. g[p] = WithToken(g[p - 1], t, p) /\ f[p] = WithToken(f[p - 1], u, p)
    BY <2>1, LineRunSteps
  <2>3. t[p] = u[p] /\ ((p = 1 \/ t[p - 1] = "newline") <=> (p = 1 \/ u[p - 1] = "newline"))
    <3>1. t[p] = u[p]
      BY <1>1
    <3>2. p # 1 => t[p - 1] = u[p - 1]
      BY <1>1
    <3>3. QED
      BY <3>1, <3>2
  <2>4. WithToken(f[p - 1], t, p) = WithToken(f[p - 1], u, p)
    BY <1>1, <2>3, WithTokenLocal
  <2>5. QED
    BY <1>3, <2>2, <2>4
<1>4. m \in Nat
  BY <1>1
<1>5. \A p \in 0 .. m : g[p] = f[p]
  <2>1. GoOnAlike(m, g, f)
    BY <1>2, <1>3 DEF GoOnAlike
  <2>2. QED
    BY <1>4, <2>1, SameRecursion
<1>6. QED
  BY <1>5 DEF m

\* A text that is not empty has a line.
LEMMA LineRunBegun ==
  ASSUME NEW t \in Seq(Token), NEW f \in [0 .. Len(t) -> Seq(Line)], LineRun(t, f)
  PROVE  \A p \in 1 .. Len(t) : f[p] \in Seq(Line) /\ f[p] # <<>>
<1>. DEFINE n == Len(t)
            H == {p \in 0 .. n : p = 0 \/ Len(f[p]) # 0}
<1>1. n \in Nat
  OBVIOUS
<1>2. ASSUME NEW p \in 1 .. n
      PROVE  /\ f[p] \in Seq(Line) /\ f[p - 1] \in Seq(Line)
             /\ Len(f[p]) = Len(f[p - 1]) + (IF p = 1 \/ t[p - 1] = "newline" THEN 1 ELSE 0)
  <2>1. p \in 1 .. Len(t) /\ p \in 0 .. Len(t) /\ p - 1 \in 0 .. Len(t)
    BY <1>1
  <2>2. f[p] \in Seq(Line) /\ f[p - 1] \in Seq(Line)
    BY <2>1
  <2>3. f[p] = WithToken(f[p - 1], t, p)
    BY <2>1, LineRunSteps
  <2>4. QED
    BY <2>1, <2>2, <2>3, WithTokenCount
<1>3. ASSUME NEW p \in 1 .. n, p - 1 \in H
      PROVE  p \in H
  <2>1. Len(f[p - 1]) \in Nat
    BY <1>2
  <2>2. p = 1 \/ Len(f[p - 1]) # 0
    BY <1>3
  <2>3. Len(f[p]) # 0
    BY <1>2, <2>1, <2>2
  <2>4. QED
    BY <2>3
<1>4. H \in SUBSET (0 .. n) /\ 0 \in H
  BY <1>1
<1>5. H = 0 .. n
  <2>. HIDE DEF H, n
  <2>1. QED
    BY <1>1, <1>3, <1>4, FirstFailure
<1>6. ASSUME NEW p \in 1 .. n
      PROVE  f[p] \in Seq(Line) /\ f[p] # <<>>
  <2>1. p \in H
    <3>. HIDE DEF H
    <3>1. QED
      BY <1>5
  <2>2. f[p] \in Seq(Line) /\ Len(f[p]) # 0
    BY <1>2, <2>1
  <2>3. QED
    BY <2>2
<1>7. QED
  BY <1>6

\* The lines of a text that is cut at the end of a line are those of its parts.
LEMMA LinesConcat ==
  ASSUME NEW u \in Seq(Token), NEW w \in Seq(Token), EndsLine(u)
  PROVE  Lines(u \o w) = Lines(u) \o Lines(w)
<1>. DEFINE m == Len(u)
            n == Len(w)
            t == u \o w
<1>1. m \in Nat /\ n \in Nat /\ t \in Seq(Token) /\ Len(t) = m + n
        /\ (\A i \in 1 .. m : t[i] = u[i])
        /\ (\A i \in 1 .. n : t[m + i] = w[i])
  OBVIOUS
<1>2. PICK f \in [0 .. Len(u) -> Seq(Line)] : LineRun(u, f) /\ Lines(u) = f[Len(u)]
  BY LinesOf
<1>3. PICK g \in [0 .. Len(w) -> Seq(Line)] : LineRun(w, g) /\ Lines(w) = g[Len(w)]
  BY LinesOf
<1>4. t \in Seq(Token)
  BY <1>1
<1>5. PICK h \in [0 .. Len(t) -> Seq(Line)] : LineRun(t, h) /\ Lines(t) = h[Len(t)]
  <2>. HIDE DEF t
  <2>1. QED
    BY <1>4, LinesOf
<1>6. h[m] = f[m]
  <2>1. \A p \in 0 .. Len(u) : h[p] = f[p]
    <3>1. t = After(u, w)
      BY DEF After
    <3>. HIDE DEF t
    <3>2. QED
      BY <1>2, <1>4, <1>5, <3>1, LinesOfPrefix
  <2>2. QED
    BY <1>1, <2>1
<1>7. f[m] \in Seq(Line)
  <2>1. m \in 0 .. Len(u)
    OBVIOUS
  <2>. HIDE DEF m
  <2>2. QED
    BY <2>1
<1>8. \A q \in 1 .. n : g[q] \in Seq(Line) /\ g[q] # <<>>
  BY <1>1, <1>3, LineRunBegun
<1>9. g[0] = <<>>
  BY <1>3, LineRunSteps
<1>. DEFINE shifted == [q \in 0 .. n |-> h[m + q]]
            joined  == [q \in 0 .. n |-> After(f[m], g[q])]
<1>10. shifted[0] = joined[0]
  <2>1. After(f[m], <<>>) = f[m]
    BY <1>7 DEF After
  <2>2. joined[0] = After(f[m], g[0]) /\ shifted[0] = h[m]
    BY <1>1
  <2>3. QED
    BY <1>6, <1>9, <2>1, <2>2
<1>11. ASSUME NEW q \in 1 .. n, shifted[q - 1] = joined[q - 1]
       PROVE  shifted[q] = joined[q]
  <2>1. q \in 1 .. Len(w) /\ q - 1 \in 0 .. Len(w) /\ q - 1 \in 0 .. n /\ q \in 0 .. n
          /\ m + q \in 1 .. Len(t) /\ (m + q) - 1 = m + (q - 1)
    <3>. HIDE DEF m, t
    <3>1. QED
      BY <1>1
  <2>2. g[q] = WithToken(g[q - 1], w, q)
    BY <1>3, <2>1, LineRunSteps
  <2>3. h[m + q] = WithToken(h[m + (q - 1)], t, m + q)
    <3>1. h[m + q] = WithToken(h[(m + q) - 1], t, m + q)
      <4>. DEFINE k == m + q
      <4>1. k \in 1 .. Len(t)
        BY <2>1
      <4>. HIDE DEF k, t
      <4>2. h[k] = WithToken(h[k - 1], t, k)
        BY <1>4, <1>5, <4>1, LineRunSteps
      <4>3. QED
        BY <4>2 DEF k
    <3>2. QED
      BY <2>1, <3>1
  <2>4. h[m + (q - 1)] = After(f[m], g[q - 1])
    <3>1. shifted[q - 1] = h[m + (q - 1)] /\ joined[q - 1] = After(f[m], g[q - 1])
      BY <2>1
    <3>2. QED
      BY <1>11, <3>1
  <2>5. t[m + q] = w[q]
    BY <1>1
  <2>6. (m + q = 1 \/ t[(m + q) - 1] = "newline") <=> (q = 1 \/ w[q - 1] = "newline")
    <3>1. CASE q = 1
      <4>1. m # 0 => t[m] = "newline"
        BY <1>1 DEF EndsLine
      <4>2. (m + q) - 1 = m
        BY <1>1, <3>1
      <4>3. m + q = 1 \/ t[(m + q) - 1] = "newline"
        BY <1>1, <3>1, <4>1, <4>2
      <4>4. QED
        BY <3>1, <4>3
    <3>2. CASE q # 1
      <4>1. q - 1 \in 1 .. n /\ m + q # 1
        BY <1>1, <3>2
      <4>2. t[m + (q - 1)] = w[q - 1]
        BY <1>1, <4>1
      <4>3. QED
        BY <2>1, <3>2, <4>1, <4>2
    <3>3. QED
      BY <3>1, <3>2
  <2>7. WithToken(After(f[m], g[q - 1]), t, m + q) = WithToken(After(f[m], g[q - 1]), w, q)
    <3>. DEFINE k == m + q
                lines == After(f[m], g[q - 1])
    <3>1. t[k] = w[q] /\ ((k = 1 \/ t[k - 1] = "newline") <=> (q = 1 \/ w[q - 1] = "newline"))
      BY <2>5, <2>6
    <3>. k \in Int
      BY <1>1
    <3>2. WithToken(lines, t, k) = WithToken(lines, w, q)
      <4>. HIDE DEF k, t, lines
      <4>1. QED
        BY <3>1, WithTokenLocal
    <3>3. QED
      BY <3>2
  <2>8. WithToken(After(f[m], g[q - 1]), w, q) = After(f[m], g[q])
    <3>1. q = 1 \/ g[q - 1] # <<>>
      <4>1. q # 1 => q - 1 \in 1 .. n
        BY <1>1
      <4>2. QED
        BY <1>8, <4>1
    <3>2. g[q - 1] \in Seq(Line)
      BY <1>3, <2>1
    <3>3. WithToken(f[m] \o g[q - 1], w, q) = f[m] \o WithToken(g[q - 1], w, q)
      <4>. DEFINE a == f[m]
                  b == g[q - 1]
      <4>1. a \in Seq(Line) /\ b \in Seq(Line) /\ (q = 1 \/ b # <<>>)
        BY <1>7, <3>1, <3>2
      <4>. HIDE DEF a, b
      <4>2. WithToken(a \o b, w, q) = a \o WithToken(b, w, q)
        BY <2>1, <4>1, WithTokenAfter
      <4>3. QED
        BY <4>2 DEF a, b
    <3>4. QED
      BY <2>2, <3>3 DEF After
  <2>9. shifted[q] = h[m + q] /\ joined[q] = After(f[m], g[q])
    BY <2>1
  <2>10. QED
    <3>. HIDE DEF t, m
    <3>1. QED
      BY <2>3, <2>4, <2>7, <2>8, <2>9
<1>12. shifted[n] = joined[n]
  <2>. HIDE DEF shifted, joined
  <2>1. \A q \in 0 .. n : shifted[q] = joined[q]
    <3>1. n \in Nat
      OBVIOUS
    <3>. HIDE DEF n
    <3>2. GoOnAlike(n, shifted, joined)
      BY <1>10, <1>11 DEF GoOnAlike
    <3>3. QED
      BY <3>1, <3>2, SameRecursion
  <2>2. QED
    BY <1>1, <2>1
<1>13. h[m + n] = After(f[m], g[n])
  BY <1>1, <1>12
<1>14. QED
  BY <1>1, <1>2, <1>3, <1>5, <1>13 DEF After

\* A text that breaks no line at its end has a line for every newline.
LEMMA LinesCounted ==
  ASSUME NEW t \in Seq(Token), EndsLine(t)
  PROVE  Len(Lines(t)) = Newlines(t)
<1>. DEFINE n         == Len(t)
            breaks(p) == {q \in 1 .. p : t[q] = "newline"}
            size(p)   == Cardinality(breaks(p))
            open(p)   == IF p = 0 \/ t[p] = "newline" THEN 0 ELSE 1
            counted   == [p \in 0 .. n |-> size(p) + open(p)]
<1>1. n \in Nat
  OBVIOUS
<1>2. PICK f \in [0 .. Len(t) -> Seq(Line)] : LineRun(t, f) /\ Lines(t) = f[Len(t)]
  BY LinesOf
<1>. DEFINE lengths == [p \in 0 .. n |-> Len(f[p])]
<1>3. ASSUME NEW p \in 0 .. n
      PROVE  IsFiniteSet(breaks(p)) /\ size(p) \in Nat
  <2>1. IsFiniteSet(1 .. p) /\ breaks(p) \in SUBSET (1 .. p)
    BY FS_Interval
  <2>2. IsFiniteSet(breaks(p))
    <3>. HIDE DEF breaks
    <3>1. QED
      BY <2>1, FS_Subset
  <2>3. QED
    <3>. HIDE DEF breaks
    <3>1. QED
      BY <2>2, FS_CardinalityType
<1>4. size(0) = 0
  <2>1. breaks(0) = {}
    OBVIOUS
  <2>2. QED
    <3>. HIDE DEF breaks
    <3>1. QED
      BY <2>1, FS_EmptySet
<1>5. ASSUME NEW p \in 1 .. n
      PROVE  size(p) = size(p - 1) + (IF t[p] = "newline" THEN 1 ELSE 0)
  <2>0. p - 1 \in 0 .. n
    BY <1>1
  <2>1. CASE t[p] = "newline"
    <3>1. breaks(p) = breaks(p - 1) \cup {p} /\ p \notin breaks(p - 1)
      BY <1>1, <2>1
    <3>2. IsFiniteSet(breaks(p - 1))
      BY <1>3, <2>0
    <3>3. Cardinality(breaks(p)) = Cardinality(breaks(p - 1)) + 1
      <4>. HIDE DEF breaks
      <4>1. QED
        BY <3>1, <3>2, FS_AddElement
    <3>4. QED
      BY <2>1, <3>3
  <2>2. CASE t[p] # "newline"
    <3>1. breaks(p) = breaks(p - 1)
      BY <1>1, <2>2
    <3>2. size(p) = size(p - 1)
      BY <3>1
    <3>3. size(p - 1) \in Nat
      BY <1>3, <2>0
    <3>4. QED
      <4>. HIDE DEF size
      <4>1. QED
        BY <2>2, <3>2, <3>3
  <2>3. QED
    BY <2>1, <2>2
<1>6. lengths[0] = counted[0]
  <2>1. f[0] = <<>>
    BY <1>2, LineRunSteps
  <2>2. lengths[0] = 0
    BY <1>1, <2>1
  <2>3. counted[0] = 0
    <3>. HIDE DEF size
    <3>1. QED
      BY <1>1, <1>4
  <2>4. QED
    BY <2>2, <2>3
<1>7. ASSUME NEW p \in 1 .. n, lengths[p - 1] = counted[p - 1]
      PROVE  lengths[p] = counted[p]
  <2>1. p \in 1 .. Len(t) /\ p \in 0 .. Len(t) /\ p - 1 \in 0 .. Len(t)
          /\ p \in 0 .. n /\ p - 1 \in 0 .. n
    BY <1>1
  <2>2. f[p - 1] \in Seq(Line) /\ f[p] = WithToken(f[p - 1], t, p)
    BY <1>2, <2>1, LineRunSteps
  <2>3. Len(f[p]) = Len(f[p - 1]) + (IF p = 1 \/ t[p - 1] = "newline" THEN 1 ELSE 0)
    BY <2>1, <2>2, WithTokenCount
  <2>4. Len(f[p - 1]) = size(p - 1) + open(p - 1)
    <3>. HIDE DEF size, open
    <3>1. lengths[p - 1] = Len(f[p - 1]) /\ counted[p - 1] = size(p - 1) + open(p - 1)
      BY <2>1
    <3>2. QED
      BY <1>7, <3>1
  <2>5. size(p - 1) \in Nat /\ size(p) \in Nat
    BY <1>3, <2>1
  <2>6. Len(f[p]) = size(p - 1) + 1
    <3>. HIDE DEF size
    <3>1. QED
      BY <2>1, <2>3, <2>4, <2>5
  <2>7. size(p) + open(p) = size(p - 1) + 1
    <3>. HIDE DEF size
    <3>1. QED
      BY <1>5, <2>1, <2>5
  <2>8. QED
    <3>. HIDE DEF size, open
    <3>1. QED
      BY <2>1, <2>6, <2>7
<1>8. lengths[n] = counted[n]
  <2>1. GoOnAlike(n, lengths, counted)
    <3>. HIDE DEF n, lengths, counted
    <3>1. QED
      BY <1>6, <1>7 DEF GoOnAlike
  <2>2. \A p \in 0 .. n : lengths[p] = counted[p]
    <3>. HIDE DEF n, lengths, counted
    <3>1. QED
      BY <1>1, <2>1, SameRecursion
  <2>3. QED
    <3>. HIDE DEF lengths, counted
    <3>1. QED
      BY <1>1, <2>2
<1>9. lengths[n] = Len(Lines(t))
  BY <1>1, <1>2
<1>10. counted[n] = size(n) + open(n)
  <2>. HIDE DEF size, open
  <2>1. QED
    BY <1>1
<1>11. open(n) = 0
  BY DEF EndsLine
<1>12. size(n) = Newlines(t)
  <2>1. breaks(n) = {p \in DOMAIN t : t[p] = "newline"}
    OBVIOUS
  <2>2. QED
    BY <2>1 DEF Newlines
<1>13. size(n) \in Nat
  BY <1>1, <1>3
<1>14. size(n) + open(n) = size(n)
  <2>. HIDE DEF size
  <2>1. QED
    BY <1>11, <1>13
<1>15. Len(Lines(t)) = size(n) + open(n)
  <2>. HIDE DEF size, open, lengths, counted
  <2>1. QED
    BY <1>8, <1>9, <1>10
<1>16. QED
  BY <1>12, <1>14, <1>15

-----------------------------------------------------------------------------
(* The points and the error of lines *)

\* The width of the first point.
Width(lines) == lines[FirstPoint(lines)].width

\* The points of one width.
Copies(k, w) == [i \in 1 .. k |-> w]

\* Copies of one width are widths, and join to as many as both together.
LEMMA CopiesJoin ==
  ASSUME NEW k \in Nat, NEW l \in Nat, NEW w \in Nat
  PROVE  /\ Copies(k, w) \in Seq(Nat)
         /\ Len(Copies(k, w)) = k
         /\ k > 0 => Copies(k, w) # <<>> /\ Head(Copies(k, w)) = w
         /\ Copies(k, w) \o Copies(l, w) = Copies(k + l, w)
<1>1. \A j \in Nat : Copies(j, w) \in Seq(Nat) /\ Len(Copies(j, w)) = j
        /\ \A i \in 1 .. j : Copies(j, w)[i] = w
  BY DEF Copies
<1>2. k > 0 => Copies(k, w) # <<>> /\ Head(Copies(k, w)) = w
  BY <1>1
<1>. DEFINE left  == Copies(k, w) \o Copies(l, w)
            right == Copies(k + l, w)
<1>3. left \in Seq(Nat) /\ Len(left) = k + l
        /\ \A i \in 1 .. k + l : left[i] = IF i <= k THEN Copies(k, w)[i] ELSE Copies(l, w)[i - k]
  <2>. DEFINE p == Copies(k, w)
              q == Copies(l, w)
  <2>1. p \in Seq(Nat) /\ q \in Seq(Nat) /\ Len(p) = k /\ Len(q) = l
    BY <1>1
  <2>2. p \o q \in Seq(Nat) /\ Len(p \o q) = Len(p) + Len(q)
          /\ \A i \in 1 .. Len(p) + Len(q) : (p \o q)[i] = IF i <= Len(p) THEN p[i] ELSE q[i - Len(p)]
    <3>. HIDE DEF p, q
    <3>1. QED
      BY <2>1, ConcatProperties
  <2>3. left = p \o q
    OBVIOUS
  <2>4. QED
    <3>. HIDE DEF left
    <3>1. QED
      BY <2>1, <2>2, <2>3
<1>4. right \in Seq(Nat) /\ Len(right) = k + l /\ \A i \in 1 .. k + l : right[i] = w
  BY <1>1
<1>5. \A i \in 1 .. k + l : left[i] = w
  <2>1. ASSUME NEW i \in 1 .. k + l
        PROVE  left[i] = w
    <3>1. CASE i <= k
      <4>1. i \in 1 .. k
        BY <3>1
      <4>. HIDE DEF left
      <4>2. QED
        BY <1>1, <1>3, <3>1, <4>1
    <3>2. CASE ~(i <= k)
      <4>1. i - k \in 1 .. l
        BY <3>2
      <4>. HIDE DEF left
      <4>2. QED
        BY <1>1, <1>3, <3>2, <4>1
    <3>3. QED
      BY <3>1, <3>2
  <2>2. QED
    BY <2>1
<1>6. left = right
  <2>. HIDE DEF left, right
  <2>1. QED
    BY <1>3, <1>4, <1>5, SeqEqual
<1>7. QED
  BY <1>1, <1>2, <1>6

\* Where the points and the wrong lines are.
LEMMA LineFacts ==
  ASSUME NEW lines \in Seq(Line)
  PROVE  /\ DOMAIN lines = 1 .. Len(lines) /\ Len(lines) \in Nat
         /\ \A n \in 1 .. Len(lines) : lines[n].width \in Nat
         /\ PointLines(lines) \subseteq 1 .. Len(lines)
         /\ WrongLines(lines) \subseteq 1 .. Len(lines)
         /\ KeptPoints(lines) \subseteq PointLines(lines)
         /\ PointLines(lines) # {} =>
              /\ FirstPoint(lines) \in PointLines(lines)
              /\ \A n \in PointLines(lines) : FirstPoint(lines) <= n
              /\ Width(lines) \in Nat /\ Width(lines) > 0
         /\ KeptPoints(lines) # {} => FirstPoint(lines) \in KeptPoints(lines)
         /\ WrongLines(lines) = {} => KeptPoints(lines) = PointLines(lines)
         /\ IsFiniteSet(PointLines(lines)) /\ IsFiniteSet(KeptPoints(lines))
         /\ WrongLines(lines) # {} =>
              /\ Min(WrongLines(lines)) \in WrongLines(lines)
              /\ \A n \in WrongLines(lines) : Min(WrongLines(lines)) <= n
<1>. DEFINE n == Len(lines)
<1>1. DOMAIN lines = 1 .. n /\ n \in Nat
  OBVIOUS
<1>2. ASSUME NEW i \in 1 .. n
      PROVE  lines[i].width \in Nat
  <2>1. lines[i] \in Line
    OBVIOUS
  <2>2. QED
    BY <2>1 DEF Line
<1>3. PointLines(lines) \subseteq 1 .. n /\ WrongLines(lines) \subseteq 1 .. n
  <2>1. PointLines(lines) \subseteq 1 .. n
    BY <1>1 DEF PointLines
  <2>2. {i \in DOMAIN lines : lines[i].word} \subseteq 1 .. n
    BY <1>1
  <2>3. QED
    BY <2>1, <2>2 DEF WrongLines
<1>4. KeptPoints(lines) \subseteq PointLines(lines)
  BY DEF KeptPoints
<1>5. ASSUME PointLines(lines) # {}
      PROVE  /\ FirstPoint(lines) \in PointLines(lines)
             /\ \A i \in PointLines(lines) : FirstPoint(lines) <= i
             /\ Width(lines) \in Nat /\ Width(lines) > 0
  <2>1. PointLines(lines) \in SUBSET Nat
    BY <1>1, <1>3
  <2>2. FirstPoint(lines) \in PointLines(lines)
          /\ \A i \in PointLines(lines) : FirstPoint(lines) <= i
    BY <1>5, <2>1, MinOfNaturals DEF FirstPoint
  <2>3. FirstPoint(lines) \in 1 .. n /\ lines[FirstPoint(lines)].width > 0
    BY <1>3, <2>2 DEF PointLines
  <2>4. Width(lines) \in Nat /\ Width(lines) > 0
    BY <1>2, <2>3 DEF Width
  <2>5. QED
    BY <2>2, <2>4
<1>6. ASSUME KeptPoints(lines) # {}
      PROVE  FirstPoint(lines) \in KeptPoints(lines)
  <2>1. PICK i \in KeptPoints(lines) : TRUE
    BY <1>6
  <2>2. i \in PointLines(lines) /\ \A w \in WrongLines(lines) : i < w
    BY <2>1 DEF KeptPoints
  <2>3. FirstPoint(lines) \in PointLines(lines) /\ FirstPoint(lines) <= i
    BY <1>5, <2>2
  <2>4. ASSUME NEW w \in WrongLines(lines)
        PROVE  FirstPoint(lines) < w
    <3>1. i < w /\ w \in 1 .. n /\ i \in 1 .. n /\ FirstPoint(lines) \in 1 .. n
      BY <1>3, <2>2, <2>3
    <3>2. QED
      BY <1>1, <2>3, <3>1
  <2>5. QED
    BY <2>3, <2>4 DEF KeptPoints
<1>7. WrongLines(lines) = {} => KeptPoints(lines) = PointLines(lines)
  BY DEF KeptPoints
<1>8. IsFiniteSet(PointLines(lines)) /\ IsFiniteSet(KeptPoints(lines))
  <2>1. IsFiniteSet(1 .. n)
    BY <1>1, FS_Interval
  <2>2. QED
    BY <1>3, <1>4, <2>1, FS_Subset
<1>9. ASSUME WrongLines(lines) # {}
      PROVE  /\ Min(WrongLines(lines)) \in WrongLines(lines)
             /\ \A i \in WrongLines(lines) : Min(WrongLines(lines)) <= i
  <2>1. WrongLines(lines) \in SUBSET Nat
    BY <1>1, <1>3
  <2>2. QED
    BY <1>9, <2>1, MinOfNaturals
<1>10. QED
  BY <1>1, <1>2, <1>3, <1>4, <1>5, <1>6, <1>7, <1>8, <1>9

\* A least element of a set of naturals is the only one.
LEMMA LeastIs ==
  ASSUME NEW S \in SUBSET Nat, NEW x \in S, \A y \in S : x <= y
  PROVE  Min(S) = x
<1>1. Min(S) \in S /\ \A y \in S : Min(S) <= y
  BY MinOfNaturals
<1>2. Min(S) <= x /\ x <= Min(S)
  BY <1>1
<1>3. Min(S) \in Nat /\ x \in Nat
  BY <1>1
<1>4. QED
  BY <1>2, <1>3

\* Where the points and the wrong lines of joined lines are.
LEMMA JoinedLines ==
  ASSUME NEW a \in Seq(Line), NEW b \in Seq(Line), NEW c \in Seq(Line), c = After(a, b)
  PROVE  LET m == Len(a) IN
         /\ Len(c) = m + Len(b)
         /\ \A x \in 1 .. m : c[x] = a[x] /\ (x \in PointLines(c) <=> x \in PointLines(a))
         /\ \A x \in 1 .. Len(b) : c[m + x] = b[x] /\ (m + x \in PointLines(c) <=> x \in PointLines(b))
<1>. DEFINE m == Len(a)
            n == Len(b)
<1>1. m \in Nat /\ n \in Nat /\ Len(c) = m + n
        /\ (\A x \in 1 .. m : c[x] = a[x])
        /\ (\A x \in 1 .. n : c[m + x] = b[x])
  BY DEF After
<1>2. DOMAIN a = 1 .. m /\ DOMAIN b = 1 .. n /\ DOMAIN c = 1 .. m + n
  BY <1>1
<1>. HIDE DEF m, n
<1>3. ASSUME NEW x \in 1 .. m
      PROVE  x \in PointLines(c) <=> x \in PointLines(a)
  <2>1. x \in DOMAIN c /\ x \in DOMAIN a /\ c[x] = a[x]
    BY <1>1, <1>2
  <2>2. QED
    BY <2>1 DEF PointLines
<1>4. ASSUME NEW x \in 1 .. n
      PROVE  m + x \in PointLines(c) <=> x \in PointLines(b)
  <2>1. m + x \in DOMAIN c /\ x \in DOMAIN b /\ c[m + x] = b[x]
    BY <1>1, <1>2
  <2>2. QED
    BY <2>1 DEF PointLines
<1>5. QED
  BY <1>1, <1>3, <1>4 DEF m, n

\* The first point and the wrong lines of lines joined: those of the first
\* part stay, those of the second shift, measured against the first point of
\* both.
LEMMA JoinedWrong ==
  ASSUME NEW a \in Seq(Line), NEW b \in Seq(Line), NEW c \in Seq(Line), c = After(a, b)
  PROVE  LET m == Len(a) IN
         /\ PointLines(a) # {} => FirstPoint(c) = FirstPoint(a) /\ Width(c) = Width(a)
         /\ PointLines(a) = {} /\ PointLines(b) # {} =>
              FirstPoint(c) = m + FirstPoint(b) /\ Width(c) = Width(b)
         /\ \A x \in 1 .. m : x \in WrongLines(c) <=> x \in WrongLines(a)
         /\ \A x \in 1 .. Len(b) :
              m + x \in WrongLines(c) <=>
                \/ b[x].word
                \/ /\ x \in PointLines(b)
                   /\ b[x].width # (IF PointLines(a) # {} THEN Width(a) ELSE Width(b))
<1>. DEFINE m == Len(a)
            n == Len(b)
<1>1. m \in Nat /\ n \in Nat /\ Len(c) = m + n
        /\ (\A x \in 1 .. m : c[x] = a[x] /\ (x \in PointLines(c) <=> x \in PointLines(a)))
        /\ (\A x \in 1 .. n : c[m + x] = b[x] /\ (m + x \in PointLines(c) <=> x \in PointLines(b)))
  BY JoinedLines, LineFacts
<1>2. DOMAIN a = 1 .. m /\ DOMAIN b = 1 .. n /\ DOMAIN c = 1 .. m + n
        /\ PointLines(a) \subseteq 1 .. m /\ PointLines(b) \subseteq 1 .. n
        /\ PointLines(c) \subseteq 1 .. m + n
  BY <1>1, LineFacts
<1>. HIDE DEF m, n
<1>3. ASSUME NEW x \in 1 .. m + n, ~(x \in 1 .. m)
      PROVE  x - m \in 1 .. n /\ x = m + (x - m)
  BY <1>1, <1>3
<1>4. PointLines(c) \in SUBSET Nat
  BY <1>1, <1>2
<1>5. ASSUME PointLines(a) # {}
      PROVE  FirstPoint(c) = FirstPoint(a) /\ Width(c) = Width(a)
  <2>1. FirstPoint(a) \in PointLines(a) /\ \A x \in PointLines(a) : FirstPoint(a) <= x
    BY <1>5, LineFacts
  <2>2. FirstPoint(a) \in 1 .. m
    BY <1>2, <2>1
  <2>3. FirstPoint(a) \in PointLines(c)
    BY <1>1, <2>1, <2>2
  <2>4. ASSUME NEW x \in PointLines(c)
        PROVE  FirstPoint(a) <= x
    <3>1. CASE x \in 1 .. m
      BY <1>1, <2>1, <3>1
    <3>2. CASE ~(x \in 1 .. m)
      <4>1. x \in 1 .. m + n
        BY <1>2
      <4>2. QED
        BY <1>1, <2>2, <3>2, <4>1
    <3>3. QED
      BY <3>1, <3>2
  <2>5. FirstPoint(c) = FirstPoint(a)
    BY <1>4, <2>3, <2>4, LeastIs DEF FirstPoint
  <2>6. QED
    BY <1>1, <2>2, <2>5 DEF Width
<1>6. ASSUME PointLines(a) = {}, PointLines(b) # {}
      PROVE  FirstPoint(c) = m + FirstPoint(b) /\ Width(c) = Width(b)
  <2>1. FirstPoint(b) \in PointLines(b) /\ \A x \in PointLines(b) : FirstPoint(b) <= x
    BY <1>6, LineFacts
  <2>2. FirstPoint(b) \in 1 .. n
    BY <1>2, <2>1
  <2>. DEFINE first == m + FirstPoint(b)
  <2>3. first \in PointLines(c)
    BY <1>1, <2>1, <2>2
  <2>4. ASSUME NEW x \in PointLines(c)
        PROVE  first <= x
    <3>1. x \in 1 .. m + n /\ ~(x \in 1 .. m)
      BY <1>1, <1>2, <1>6
    <3>2. x - m \in 1 .. n /\ x = m + (x - m)
      BY <1>3, <3>1
    <3>3. x - m \in PointLines(b)
      BY <1>1, <3>2
    <3>4. QED
      BY <1>1, <2>1, <2>2, <3>2, <3>3
  <2>5. FirstPoint(c) = first
    <3>. HIDE DEF first
    <3>1. QED
      BY <1>4, <2>3, <2>4, LeastIs DEF FirstPoint
  <2>6. QED
    BY <1>1, <2>2, <2>5 DEF Width
<1>7. ASSUME NEW x \in 1 .. m
      PROVE  x \in WrongLines(c) <=> x \in WrongLines(a)
  <2>1. x \in WrongLines(c) <=> c[x].word \/ (x \in PointLines(c) /\ c[x].width # Width(c))
    BY <1>1, <1>2 DEF WrongLines, Width
  <2>2. x \in WrongLines(a) <=> a[x].word \/ (x \in PointLines(a) /\ a[x].width # Width(a))
    BY <1>1, <1>2 DEF WrongLines, Width
  <2>3. QED
    BY <1>1, <1>5, <2>1, <2>2
<1>8. ASSUME NEW x \in 1 .. n
      PROVE  m + x \in WrongLines(c) <=>
               \/ b[x].word
               \/ /\ x \in PointLines(b)
                  /\ b[x].width # (IF PointLines(a) # {} THEN Width(a) ELSE Width(b))
  <2>1. m + x \in DOMAIN c
    BY <1>1, <1>2
  <2>2. m + x \in WrongLines(c) <=>
          c[m + x].word \/ (m + x \in PointLines(c) /\ c[m + x].width # Width(c))
    BY <2>1 DEF WrongLines, Width
  <2>3. x \in PointLines(b) => Width(c) = IF PointLines(a) # {} THEN Width(a) ELSE Width(b)
    BY <1>5, <1>6
  <2>4. c[m + x] = b[x] /\ (m + x \in PointLines(c) <=> x \in PointLines(b))
    BY <1>1
  <2>5. QED
    BY <2>2, <2>3, <2>4
<1>9. QED
  BY <1>5, <1>6, <1>7, <1>8 DEF m, n

\* What a parse gathers from lines.
Sunk(lines) == Merge(EmptySink, ParseLines(lines, 1))

\* The error of lines says where, what and, when widths differ, which.
LEMMA ErrorsAreErrors ==
  ASSUME NEW at, NEW w, NEW v
  PROVE  /\ [line |-> at, what |-> "not a number"] # <<>>
         /\ [line |-> at, what |-> "point has", width |-> w, expected |-> v] # <<>>
<1>1. DOMAIN [line |-> at, what |-> "not a number"] # {}
  OBVIOUS
<1>2. DOMAIN [line |-> at, what |-> "point has", width |-> w, expected |-> v] # {}
  OBVIOUS
<1>3. DOMAIN <<>> = {}
  OBVIOUS
<1>4. [line |-> at, what |-> "not a number"] # <<>>
  BY <1>1, <1>3, Zenon
<1>5. [line |-> at, what |-> "point has", width |-> w, expected |-> v] # <<>>
  BY <1>2, <1>3, Zenon
<1>6. QED
  BY <1>4, <1>5

\* Lines have an error when one of them is wrong, and only then.
LEMMA ErrorFacts ==
  ASSUME NEW lines, NEW from
  PROVE  FirstError(lines, from) = NoError <=> WrongLines(lines) = {}
<1>. DEFINE bad == Min(WrongLines(lines))
            at  == from + bad - 1
            w   == lines[bad].width
            v   == Width(lines)
<1>1. FirstError(lines, from) =
        IF WrongLines(lines) = {} THEN <<>>
        ELSE IF lines[bad].word THEN [line |-> at, what |-> "not a number"]
        ELSE [line |-> at, what |-> "point has", width |-> w, expected |-> v]
  BY DEF FirstError, NoError, Width
<1>. HIDE DEF at, w, v
<1>2. QED
  BY <1>1, ErrorsAreErrors, Zenon DEF NoError

\* The points of a chunk, all of one width.
LEMMA ChunkPoints ==
  ASSUME NEW lines \in Seq(Line)
  PROVE  LET k == Cardinality(KeptPoints(lines)) IN
         /\ k \in Nat
         /\ k = 0 <=> KeptPoints(lines) = {}
         /\ k = 0 => Copies(k, Width(lines)) = <<>>
         /\ k # 0 => /\ Width(lines) \in Nat /\ Width(lines) > 0
                     /\ Copies(k, Width(lines)) # <<>>
                     /\ Head(Copies(k, Width(lines))) = Width(lines)
<1>. DEFINE k == Cardinality(KeptPoints(lines))
<1>1. k \in Nat /\ (k = 0 <=> KeptPoints(lines) = {})
  BY LineFacts, FS_CardinalityType, FS_EmptySet
<1>. HIDE DEF k
<1>2. k = 0 => Copies(k, Width(lines)) = <<>>
  BY DEF Copies
<1>3. k # 0 => Width(lines) \in Nat /\ Width(lines) > 0
  BY <1>1, LineFacts
<1>4. k # 0 => /\ Copies(k, Width(lines)) # <<>>
               /\ Head(Copies(k, Width(lines))) = Width(lines)
  <2>. DEFINE w == Width(lines)
  <2>1. SUFFICES ASSUME k # 0
                 PROVE  Copies(k, w) # <<>> /\ Head(Copies(k, w)) = w
    OBVIOUS
  <2>2. w \in Nat /\ k > 0
    BY <1>1, <1>3, <2>1
  <2>. HIDE DEF w
  <2>3. QED
    BY <1>1, <2>2, CopiesJoin
<1>5. QED
  BY <1>1, <1>2, <1>3, <1>4 DEF k

\* The first chunk that is merged is what its points and its error are.
LEMMA MergedFirst ==
  ASSUME NEW lines \in Seq(Line), NEW from
  PROVE  Merge(EmptySink, ParseLines(lines, from)) =
           [width  |-> IF KeptPoints(lines) = {} THEN 0 ELSE Width(lines),
            points |-> Copies(Cardinality(KeptPoints(lines)), Width(lines)),
            error  |-> FirstError(lines, from)]
<1>. DEFINE k      == Cardinality(KeptPoints(lines))
            points == Copies(k, Width(lines))
            chunk  == ParseLines(lines, from)
            width  == IF points = <<>> THEN 0 ELSE Head(points)
<1>1. chunk.points = points /\ chunk.error = FirstError(lines, from)
  BY DEF ParseLines, Copies, Width
<1>2. k \in Nat /\ (k = 0 <=> KeptPoints(lines) = {})
        /\ (k = 0 => points = <<>>)
        /\ (k # 0 => /\ Width(lines) \in Nat /\ points # <<>>
                     /\ Head(points) = Width(lines))
  BY ChunkPoints
<1>3. width = IF KeptPoints(lines) = {} THEN 0 ELSE Width(lines)
  <2>. HIDE DEF points, k
  <2>1. QED
    BY <1>2
<1>4. points \in Seq(Nat)
  <2>1. CASE k = 0
    <3>. HIDE DEF points, k
    <3>1. QED
      BY <1>2, <2>1
  <2>2. CASE k # 0
    <3>. HIDE DEF k
    <3>1. QED
      BY <1>2, <2>2, CopiesJoin
  <2>3. QED
    BY <2>1, <2>2
<1>5. <<>> \o points = points
  <2>. HIDE DEF points
  <2>1. QED
    BY <1>4
<1>6. EmptySink.width = 0 /\ EmptySink.points = <<>> /\ EmptySink.error = NoError
  BY DEF EmptySink
<1>. HIDE DEF points, chunk, k
<1>7. Merge(EmptySink, chunk) =
        [width |-> width, points |-> points, error |-> FirstError(lines, from)]
  <2>1. Merge(EmptySink, chunk) =
          [width  |-> IF chunk.points = <<>> THEN EmptySink.width ELSE Head(chunk.points),
           points |-> EmptySink.points \o chunk.points,
           error  |-> chunk.error]
    BY <1>6 DEF Merge
  <2>2. QED
    BY <1>1, <1>5, <1>6, <2>1
<1>8. QED
  BY <1>3, <1>7 DEF points, chunk, k

\* The error of a line, where points of another width come first.
ErrorOf(line, at, width) ==
  IF line.word THEN [line |-> at, what |-> "not a number"]
  ELSE [line |-> at, what |-> "point has", width |-> line.width, expected |-> width]

\* The points of lines, merged into an empty sink.
LEMMA SunkIs ==
  ASSUME NEW lines \in Seq(Line)
  PROVE  Sunk(lines) =
           [width  |-> IF KeptPoints(lines) = {} THEN 0 ELSE Width(lines),
            points |-> Copies(Cardinality(KeptPoints(lines)), Width(lines)),
            error  |-> FirstError(lines, 1)]
BY MergedFirst DEF Sunk

\* The error of lines is that of the first wrong one.
LEMMA ErrorIs ==
  ASSUME NEW lines \in Seq(Line), NEW from \in Int, NEW e \in Int, e \in WrongLines(lines),
         \A x \in WrongLines(lines) : e <= x
  PROVE  FirstError(lines, from) = ErrorOf(lines[e], from + e - 1, Width(lines))
<1>1. WrongLines(lines) \in SUBSET Nat
  BY LineFacts
<1>2. Min(WrongLines(lines)) = e
  BY <1>1, LeastIs
<1>3. WrongLines(lines) # {}
  OBVIOUS
<1>4. QED
  BY <1>2, <1>3, Zenon DEF FirstError, ErrorOf, Width

\* The points of lines, when the first is known to be kept or none is.
LEMMA SunkOfNone ==
  ASSUME NEW lines \in Seq(Line), KeptPoints(lines) = {}
  PROVE  Sunk(lines) = [width |-> 0, points |-> <<>>, error |-> FirstError(lines, 1)]
<1>1. Copies(Cardinality(KeptPoints(lines)), Width(lines)) = <<>>
  BY ChunkPoints
<1>2. QED
  BY <1>1, SunkIs

\* The lines of b that are wrong when those of a come before.
WrongAfter(a, b) ==
  {x \in 1 .. Len(b) :
     \/ b[x].word
     \/ /\ x \in PointLines(b)
        /\ b[x].width # (IF PointLines(a) # {} THEN Width(a) ELSE Width(b))}

\* What comes before a wrong line is all that counts.
LEMMA SunkAfterError ==
  ASSUME NEW a \in Seq(Line), NEW b \in Seq(Line), NEW c \in Seq(Line), c = After(a, b),
         WrongLines(a) # {}
  PROVE  Sunk(c) = Sunk(a)
<1>. DEFINE m == Len(a)
            n == Len(b)
            e == Min(WrongLines(a))
<1>1. m \in Nat /\ n \in Nat /\ Len(c) = m + n
        /\ (\A x \in 1 .. m : c[x] = a[x] /\ (x \in PointLines(c) <=> x \in PointLines(a)))
  BY JoinedLines, LineFacts
<1>2. e \in WrongLines(a) /\ (\A x \in WrongLines(a) : e <= x) /\ WrongLines(a) \subseteq 1 .. m
  BY LineFacts
<1>3. \A x \in 1 .. m : x \in WrongLines(c) <=> x \in WrongLines(a)
  BY JoinedWrong
<1>4. PointLines(a) # {} => Width(c) = Width(a)
  BY JoinedWrong
<1>5. WrongLines(c) \subseteq 1 .. m + n /\ PointLines(c) \subseteq 1 .. m + n
        /\ PointLines(a) \subseteq 1 .. m
  BY <1>1, LineFacts
<1>. HIDE DEF m, n, e
<1>6. e \in 1 .. m /\ e \in WrongLines(c) /\ \A x \in WrongLines(c) : e <= x
  <2>1. e \in 1 .. m /\ e \in WrongLines(c)
    BY <1>2, <1>3
  <2>2. ASSUME NEW x \in WrongLines(c)
        PROVE  e <= x
    <3>1. CASE x \in 1 .. m
      BY <1>2, <1>3, <3>1
    <3>2. CASE ~(x \in 1 .. m)
      <4>1. x \in 1 .. m + n
        BY <1>5
      <4>2. QED
        BY <1>1, <2>1, <3>2, <4>1
    <3>3. QED
      BY <3>1, <3>2
  <2>3. QED
    BY <2>1, <2>2
<1>7. KeptPoints(c) = KeptPoints(a)
  <2>1. ASSUME NEW x \in KeptPoints(c)
        PROVE  x \in KeptPoints(a)
    <3>1. x \in PointLines(c) /\ \A w \in WrongLines(c) : x < w
      BY DEF KeptPoints
    <3>2. x \in 1 .. m
      <4>1. x < e /\ x \in 1 .. m + n
        BY <1>5, <1>6, <3>1
      <4>2. QED
        BY <1>1, <1>6, <4>1
    <3>3. x \in PointLines(a)
      BY <1>1, <3>1, <3>2
    <3>4. \A w \in WrongLines(a) : x < w
      BY <1>2, <1>3, <3>1
    <3>5. QED
      BY <3>3, <3>4 DEF KeptPoints
  <2>2. ASSUME NEW x \in KeptPoints(a)
        PROVE  x \in KeptPoints(c)
    <3>1. x \in PointLines(a) /\ \A w \in WrongLines(a) : x < w
      BY DEF KeptPoints
    <3>2. x \in 1 .. m /\ x \in PointLines(c)
      BY <1>1, <1>5, <3>1
    <3>3. ASSUME NEW w \in WrongLines(c)
          PROVE  x < w
      <4>1. x < e /\ e <= w /\ w \in 1 .. m + n
        BY <1>2, <1>5, <1>6, <3>1
      <4>2. QED
        BY <1>1, <1>6, <3>2, <4>1
    <3>4. QED
      BY <3>2, <3>3 DEF KeptPoints
  <2>3. QED
    BY <2>1, <2>2
<1>8. FirstError(c, 1) = FirstError(a, 1)
  <2>1. c[e] = a[e]
    BY <1>1, <1>6
  <2>2. ~a[e].word => e \in PointLines(a)
    BY <1>2 DEF WrongLines
  <2>3. ~a[e].word => Width(c) = Width(a)
    BY <1>4, <2>2
  <2>0. 1 \in Int /\ e \in Int
    BY <1>6
  <2>4. FirstError(c, 1) = ErrorOf(c[e], 1 + e - 1, Width(c))
    BY <1>6, <2>0, ErrorIs, Zenon
  <2>5. FirstError(a, 1) = ErrorOf(a[e], 1 + e - 1, Width(a))
    BY <1>2, <1>6, ErrorIs
  <2>6. ErrorOf(a[e], 1 + e - 1, Width(c)) = ErrorOf(a[e], 1 + e - 1, Width(a))
    BY <2>3 DEF ErrorOf
  <2>7. QED
    BY <2>1, <2>4, <2>5, <2>6
<1>9. CASE KeptPoints(a) = {}
  BY <1>7, <1>8, <1>9, SunkOfNone
<1>10. CASE KeptPoints(a) # {}
  <2>1. PointLines(a) # {}
    BY <1>10, LineFacts
  <2>2. Width(c) = Width(a)
    BY <1>4, <2>1
  <2>3. QED
    BY <1>7, <1>8, <2>2, SunkIs
<1>11. QED
  BY <1>9, <1>10

\* The errors and the points of lines that come after ones without an error.
LEMMA AfterCorrect ==
  ASSUME NEW a \in Seq(Line), NEW b \in Seq(Line), NEW c \in Seq(Line), c = After(a, b),
         WrongLines(a) = {}
  PROVE  LET m == Len(a)
             V == WrongAfter(a, b)
         IN
         /\ V \in SUBSET Nat
         /\ V = {} => WrongLines(c) = {}
         /\ \A e \in V : (\A x \in V : e <= x) =>
              FirstError(c, 1) = ErrorOf(b[e], m + e, Width(c))
         /\ \A x \in 1 .. m : x \in KeptPoints(c) <=> x \in PointLines(a)
         /\ \A x \in 1 .. Len(b) :
              m + x \in KeptPoints(c) <=> x \in PointLines(b) /\ \A w \in V : x < w
<1>. DEFINE m == Len(a)
            n == Len(b)
            V == WrongAfter(a, b)
<1>1. m \in Nat /\ n \in Nat /\ Len(c) = m + n
        /\ (\A x \in 1 .. m : x \in PointLines(c) <=> x \in PointLines(a))
        /\ (\A x \in 1 .. n : c[m + x] = b[x] /\ (m + x \in PointLines(c) <=> x \in PointLines(b)))
  BY JoinedLines, LineFacts
<1>2. \A x \in 1 .. m : x \notin WrongLines(c)
  BY JoinedWrong
<1>3. \A x \in 1 .. n : m + x \in WrongLines(c) <=> x \in V
  BY JoinedWrong DEF WrongAfter
<1>4. V \subseteq 1 .. n
  BY DEF WrongAfter
<1>5. WrongLines(c) \subseteq 1 .. m + n
  BY <1>1, LineFacts
<1>. HIDE DEF m, n, V
<1>6. ASSUME NEW w \in WrongLines(c)
      PROVE  w - m \in 1 .. n /\ w = m + (w - m) /\ w - m \in V
  <2>1. w \in 1 .. m + n /\ ~(w \in 1 .. m)
    BY <1>2, <1>5
  <2>2. w - m \in 1 .. n /\ w = m + (w - m)
    BY <1>1, <2>1
  <2>3. QED
    BY <1>3, <2>2
<1>7. V = {} => WrongLines(c) = {}
  BY <1>6
<1>8. ASSUME NEW e \in V, \A x \in V : e <= x
      PROVE  FirstError(c, 1) = ErrorOf(b[e], m + e, Width(c))
  <2>. DEFINE k == m + e
  <2>1. e \in 1 .. n /\ k \in Int /\ k \in WrongLines(c) /\ 1 + k - 1 = k
    BY <1>1, <1>3, <1>4
  <2>2. ASSUME NEW w \in WrongLines(c)
        PROVE  k <= w
    <3>1. e <= w - m /\ w = m + (w - m) /\ w - m \in 1 .. n
      BY <1>6, <1>8
    <3>2. QED
      BY <1>1, <2>1, <3>1
  <2>3. c[k] = b[e]
    BY <1>1, <2>1
  <2>. HIDE DEF k
  <2>0. 1 \in Int
    OBVIOUS
  <2>4. FirstError(c, 1) = ErrorOf(c[k], 1 + k - 1, Width(c))
    BY <2>0, <2>1, <2>2, ErrorIs, Zenon
  <2>5. QED
    BY <2>1, <2>3, <2>4 DEF k
<1>9. ASSUME NEW x \in 1 .. m
      PROVE  x \in KeptPoints(c) <=> x \in PointLines(a)
  <2>1. \A w \in WrongLines(c) : x < w
    BY <1>1, <1>6
  <2>2. QED
    BY <1>1, <2>1 DEF KeptPoints
<1>10. ASSUME NEW x \in 1 .. n
       PROVE  m + x \in KeptPoints(c) <=> x \in PointLines(b) /\ \A w \in V : x < w
  <2>1. ASSUME \A w \in V : x < w, NEW w \in WrongLines(c)
        PROVE  m + x < w
    <3>1. x < w - m /\ w = m + (w - m) /\ w - m \in 1 .. n
      BY <1>6, <2>1
    <3>2. QED
      BY <1>1, <3>1
  <2>2. ASSUME \A w \in WrongLines(c) : m + x < w, NEW w \in V
        PROVE  x < w
    <3>1. w \in 1 .. n /\ m + w \in WrongLines(c)
      BY <1>3, <1>4
    <3>2. m + x < m + w
      BY <2>2, <3>1
    <3>3. QED
      BY <1>1, <3>1, <3>2
  <2>3. m + x \in PointLines(c) <=> x \in PointLines(b)
    BY <1>1
  <2>4. m + x \in KeptPoints(c) <=> m + x \in PointLines(c) /\ \A w \in WrongLines(c) : m + x < w
    BY DEF KeptPoints
  <2>5. QED
    BY <2>1, <2>2, <2>3, <2>4
<1>11. V \in SUBSET Nat
  BY <1>1, <1>4
<1>12. QED
  BY <1>7, <1>8, <1>9, <1>10, <1>11 DEF m, n, V

\* The numbers up to m of a set, and those beyond, counted from m.
Apart(S, m, n, P, K) ==
  /\ P \subseteq 1 .. m /\ K \subseteq 1 .. n /\ S \subseteq 1 .. m + n
  /\ \A x \in 1 .. m : x \in S <=> x \in P
  /\ \A x \in 1 .. n : m + x \in S <=> x \in K

\* Such a set has as many members as its two parts.
LEMMA CountedApart ==
  ASSUME NEW m \in Nat, NEW n \in Nat, NEW P, NEW K, NEW S, Apart(S, m, n, P, K)
  PROVE  Cardinality(S) = Cardinality(P) + Cardinality(K)
<1>. DEFINE beyond == {x \in S : x > m}
            shift  == [x \in K |-> m + x]
<1>0. /\ P \in SUBSET (1 .. m) /\ K \in SUBSET (1 .. n) /\ S \in SUBSET (1 .. m + n)
      /\ \A x \in 1 .. m : x \in S <=> x \in P
      /\ \A x \in 1 .. n : m + x \in S <=> x \in K
  BY DEF Apart
<1>1. S = P \cup beyond /\ P \cap beyond = {}
  <2>1. ASSUME NEW x \in S
        PROVE  x \in P \/ x > m
    <3>1. x \in 1 .. m + n
      BY <1>0
    <3>2. x \in 1 .. m \/ x > m
      BY <3>1
    <3>3. QED
      BY <1>0, <3>2
  <2>2. ASSUME NEW x \in P
        PROVE  x \in S /\ ~(x > m)
    <3>1. x \in 1 .. m
      BY <1>0
    <3>2. QED
      BY <1>0, <3>1
  <2>3. QED
    BY <2>1, <2>2
<1>2. IsFiniteSet(P) /\ IsFiniteSet(K) /\ IsFiniteSet(S)
  <2>. DEFINE k == m + n
  <2>1. 1 \in Int /\ m \in Int /\ n \in Int /\ k \in Int
    OBVIOUS
  <2>2. S \in SUBSET (1 .. k)
    BY <1>0
  <2>. HIDE DEF k
  <2>3. IsFiniteSet(1 .. m) /\ IsFiniteSet(1 .. n) /\ IsFiniteSet(1 .. k)
    BY <2>1, FS_Interval
  <2>4. IsFiniteSet(P)
    BY <1>0, <2>3, FS_Subset
  <2>5. IsFiniteSet(K)
    BY <1>0, <2>3, FS_Subset
  <2>6. IsFiniteSet(S)
    BY <2>2, <2>3, FS_Subset
  <2>7. QED
    BY <2>4, <2>5, <2>6
<1>3. IsFiniteSet(beyond)
  BY <1>2, FS_Subset
<1>4. shift \in Bijection(K, beyond)
  <2>1. \A x \in K : m + x \in beyond /\ x \in Nat
    BY <1>0
  <2>2. \A x \in beyond : x - m \in K /\ x = m + (x - m)
    <3>1. ASSUME NEW x \in beyond
          PROVE  x - m \in K /\ x = m + (x - m)
      <4>1. x - m \in 1 .. n /\ x = m + (x - m)
        BY <1>0
      <4>2. QED
        BY <1>0, <4>1
    <3>2. QED
      BY <3>1
  <2>3. \A x, y \in K : m + x = m + y => x = y
    BY <2>1
  <2>4. \A x \in K : shift[x] = m + x
    OBVIOUS
  <2>5. shift \in [K -> beyond]
    BY <2>1
  <2>. HIDE DEF shift, beyond
  <2>6. DOMAIN shift = K /\ \A x, y \in K : shift[x] = shift[y] => x = y
    BY <2>3, <2>4, <2>5
  <2>7. \A y \in beyond : \E x \in K : shift[x] = y
    BY <2>2, <2>4
  <2>8. QED
    BY <2>5, <2>6, <2>7 DEF Bijection, Injection, Surjection, IsInjective
<1>5. Cardinality(beyond) = Cardinality(K)
  <2>. HIDE DEF beyond, shift
  <2>1. ExistsBijection(K, beyond)
    BY <1>4 DEF ExistsBijection
  <2>2. QED
    BY <1>2, <2>1, FS_Bijection
<1>6. Cardinality(P \cup beyond) = Cardinality(P) + Cardinality(beyond) - Cardinality({})
  <2>. HIDE DEF beyond
  <2>1. QED
    BY <1>1, <1>2, <1>3, FS_Union
<1>7. Cardinality({}) = 0 /\ Cardinality(P) \in Nat /\ Cardinality(K) \in Nat
  BY <1>2, FS_EmptySet, FS_CardinalityType
<1>. HIDE DEF beyond
<1>8. QED
  BY <1>1, <1>5, <1>6, <1>7

\* Where the widths agree, points and error of later lines are carried over.
LEMMA CarriedOver ==
  ASSUME NEW a \in Seq(Line), NEW b \in Seq(Line), NEW c \in Seq(Line), c = After(a, b),
         WrongLines(a) = {},
         PointLines(a) = {} \/ KeptPoints(b) = {} \/ Width(a) = Width(b)
  PROVE  /\ FirstError(c, 1) = FirstError(b, 1 + Len(a))
         /\ Cardinality(KeptPoints(c)) = Cardinality(PointLines(a)) + Cardinality(KeptPoints(b))
<1>. DEFINE m == Len(a)
            n == Len(b)
            V == WrongAfter(a, b)
            e == Min(WrongLines(b))
<1>1. V \in SUBSET Nat /\ (V = {} => WrongLines(c) = {})
        /\ (\A x \in V : (\A y \in V : x <= y) => FirstError(c, 1) = ErrorOf(b[x], m + x, Width(c)))
        /\ (\A x \in 1 .. m : x \in KeptPoints(c) <=> x \in PointLines(a))
        /\ (\A x \in 1 .. n :
              m + x \in KeptPoints(c) <=> x \in PointLines(b) /\ \A w \in V : x < w)
  BY AfterCorrect
<1>2. m \in Nat /\ n \in Nat /\ Len(c) = m + n /\ DOMAIN b = 1 .. n
        /\ PointLines(a) \subseteq 1 .. m /\ KeptPoints(b) \subseteq 1 .. n
        /\ KeptPoints(c) \subseteq 1 .. m + n /\ PointLines(b) \subseteq 1 .. n
        /\ WrongLines(b) \subseteq 1 .. n
  <2>1. Len(c) = m + n
    BY JoinedLines
  <2>2. QED
    BY <2>1, LineFacts
<1>3. WrongLines(b) # {} => e \in WrongLines(b) /\ \A x \in WrongLines(b) : e <= x
  BY LineFacts
<1>4. PointLines(b) # {} =>
        FirstPoint(b) \in PointLines(b) /\ \A x \in PointLines(b) : FirstPoint(b) <= x
  BY LineFacts
<1>5. \A x : x \in WrongLines(b) <=>
               x \in 1 .. n /\ (b[x].word \/ (x \in PointLines(b) /\ b[x].width # Width(b)))
  BY <1>2 DEF WrongLines, Width
<1>6. \A x : x \in V <=>
               /\ x \in 1 .. n
               /\ \/ b[x].word
                  \/ /\ x \in PointLines(b)
                     /\ b[x].width # (IF PointLines(a) # {} THEN Width(a) ELSE Width(b))
  BY DEF WrongAfter
<1>7. \A x \in PointLines(b) : ~b[x].word
  BY DEF PointLines
<1>. DEFINE alike == PointLines(a) = {} \/ PointLines(b) = {} \/ Width(a) = Width(b)
<1>8. \A x : x \in KeptPoints(b) <=> x \in PointLines(b) /\ \A w \in WrongLines(b) : x < w
  BY DEF KeptPoints
<1>. HIDE DEF m, n, V, e
<1>9. alike => V = WrongLines(b)
  BY <1>5, <1>6
<1>10. ASSUME ~alike
       PROVE  /\ e \in WrongLines(b) /\ e \in V /\ b[e].word
              /\ \A x \in V : e <= x
              /\ \A x \in PointLines(b) : e < x
  <2>1. FirstPoint(b) \in PointLines(b) /\ \A x \in PointLines(b) : FirstPoint(b) <= x
    BY <1>4, <1>10
  <2>2. FirstPoint(b) \notin KeptPoints(b)
    BY <1>10
  <2>3. PICK w \in WrongLines(b) : ~(FirstPoint(b) < w)
    BY <1>8, <2>1, <2>2
  <2>4. FirstPoint(b) \in 1 .. n /\ w \in 1 .. n
    BY <1>2, <2>1
  <2>5. w # FirstPoint(b)
    BY <1>5, <1>7, <2>1 DEF Width
  <2>6. e \in WrongLines(b) /\ e <= w /\ (\A x \in WrongLines(b) : e <= x) /\ e \in 1 .. n
    BY <1>2, <1>3
  <2>7. e < FirstPoint(b)
    BY <1>2, <2>3, <2>4, <2>5, <2>6
  <2>8. \A x \in PointLines(b) : e < x
    <3>1. \A x \in PointLines(b) : x \in 1 .. n /\ FirstPoint(b) <= x
      BY <1>2, <2>1
    <3>2. QED
      BY <1>2, <2>4, <2>6, <2>7, <3>1
  <2>9. b[e].word
    <3>1. e \notin PointLines(b)
      BY <1>2, <2>6, <2>8
    <3>2. QED
      BY <1>5, <2>6, <3>1
  <2>10. e \in V
    BY <1>6, <2>6, <2>9
  <2>11. ASSUME NEW x \in V
         PROVE  e <= x
    <3>1. CASE b[x].word
      <4>1. x \in WrongLines(b)
        BY <1>5, <1>6, <3>1
      <4>2. QED
        BY <2>6, <4>1
    <3>2. CASE x \in PointLines(b)
      <4>1. e < x /\ x \in 1 .. n
        BY <1>6, <2>8, <3>2
      <4>2. QED
        BY <1>2, <2>6, <4>1
    <3>3. QED
      BY <1>6, <3>1, <3>2
  <2>12. QED
    BY <2>6, <2>8, <2>9, <2>10, <2>11
<1>11. (V = {} <=> WrongLines(b) = {})
         /\ (WrongLines(b) # {} => e \in V /\ \A x \in V : e <= x)
  BY <1>3, <1>9, <1>10
<1>12. FirstError(c, 1) = FirstError(b, 1 + m)
  <2>1. CASE WrongLines(b) = {}
    <3>1. FirstError(c, 1) = NoError
      BY <1>1, <1>11, <2>1, ErrorFacts
    <3>2. FirstError(b, 1 + m) = NoError
      BY <2>1, ErrorFacts
    <3>3. QED
      BY <3>1, <3>2
  <2>2. CASE WrongLines(b) # {}
    <3>. DEFINE from == 1 + m
    <3>1. e \in Int /\ from \in Int /\ e \in 1 .. n /\ from + e - 1 = m + e
      BY <1>2, <1>3, <2>2
    <3>2. e \in WrongLines(b) /\ \A x \in WrongLines(b) : e <= x
      BY <1>3, <2>2
    <3>3. FirstError(b, from) = ErrorOf(b[e], from + e - 1, Width(b))
      <4>. HIDE DEF from
      <4>1. QED
        BY <3>1, <3>2, ErrorIs, Zenon
    <3>4. FirstError(c, 1) = ErrorOf(b[e], m + e, Width(c))
      BY <1>1, <1>11, <2>2
    <3>5. ~b[e].word => Width(c) = Width(b)
      <4>1. SUFFICES ASSUME ~b[e].word
                     PROVE  Width(c) = Width(b)
        OBVIOUS
      <4>2. e \in PointLines(b)
        BY <1>5, <3>2, <4>1
      <4>3. alike
        BY <1>10, <4>1
      <4>4. PointLines(a) # {} => Width(a) = Width(b)
        BY <4>2, <4>3
      <4>5. QED
        BY <4>2, <4>4, JoinedWrong
    <3>6. ErrorOf(b[e], m + e, Width(c)) = ErrorOf(b[e], m + e, Width(b))
      BY <3>5 DEF ErrorOf
    <3>7. QED
      BY <3>1, <3>3, <3>4, <3>6
  <2>3. QED
    BY <2>1, <2>2
<1>13. \A x \in 1 .. n : m + x \in KeptPoints(c) <=> x \in KeptPoints(b)
  <2>1. CASE alike
    BY <1>1, <1>8, <1>9, <2>1
  <2>2. CASE ~alike
    <3>1. \A x \in PointLines(b) : ~(x < e)
      <4>1. \A x \in PointLines(b) : e < x /\ x \in 1 .. n /\ e \in 1 .. n
        BY <1>2, <1>10, <2>2
      <4>2. QED
        BY <1>2, <4>1
    <3>2. e \in V /\ e \in WrongLines(b)
      BY <1>10, <2>2
    <3>3. QED
      BY <1>1, <1>8, <3>1, <3>2
  <2>3. QED
    BY <2>1, <2>2
<1>14. Cardinality(KeptPoints(c)) = Cardinality(PointLines(a)) + Cardinality(KeptPoints(b))
  <2>. DEFINE P == PointLines(a)
              K == KeptPoints(b)
              S == KeptPoints(c)
  <2>1. Apart(S, m, n, P, K) /\ m \in Nat /\ n \in Nat
    BY <1>1, <1>2, <1>13 DEF Apart
  <2>. HIDE DEF P, K, S
  <2>2. Cardinality(S) = Cardinality(P) + Cardinality(K)
    BY <2>1, CountedApart
  <2>3. S = KeptPoints(c) /\ P = PointLines(a) /\ K = KeptPoints(b)
    BY DEF S, P, K
  <2>4. QED
    BY <2>2, <2>3
<1>15. QED
  BY <1>12, <1>14 DEF m

\* A chunk by its points and its error.
LEMMA ChunkIs ==
  ASSUME NEW lines, NEW from
  PROVE  LET chunk == ParseLines(lines, from) IN
         /\ chunk.points = Copies(Cardinality(KeptPoints(lines)), Width(lines))
         /\ chunk.error = FirstError(lines, from)
         /\ KeptPoints(lines) # {} => chunk.line = from + FirstPoint(lines) - 1
BY DEF ParseLines, Copies, Width

\* Where the widths disagree, the first point of later lines is an error.
LEMMA Mismatch ==
  ASSUME NEW a \in Seq(Line), NEW b \in Seq(Line), NEW c \in Seq(Line), c = After(a, b),
         WrongLines(a) = {}, PointLines(a) # {}, KeptPoints(b) # {}, Width(a) # Width(b)
  PROVE  /\ FirstError(c, 1) =
              [line |-> Len(a) + FirstPoint(b), what |-> "point has", width |-> Width(b),
               expected |-> Width(a)]
         /\ Cardinality(KeptPoints(c)) = Cardinality(PointLines(a))
<1>. DEFINE m == Len(a)
            n == Len(b)
            V == WrongAfter(a, b)
            f == FirstPoint(b)
<1>1. (\A x \in V : (\A y \in V : x <= y) => FirstError(c, 1) = ErrorOf(b[x], m + x, Width(c)))
        /\ (\A x \in 1 .. m : x \in KeptPoints(c) <=> x \in PointLines(a))
        /\ (\A x \in 1 .. n :
              m + x \in KeptPoints(c) <=> x \in PointLines(b) /\ \A w \in V : x < w)
  BY AfterCorrect
<1>2. m \in Nat /\ n \in Nat /\ Len(c) = m + n /\ DOMAIN b = 1 .. n
        /\ PointLines(a) \subseteq 1 .. m
        /\ KeptPoints(c) \subseteq 1 .. m + n /\ PointLines(b) \subseteq 1 .. n
  <2>1. Len(c) = m + n
    BY JoinedLines
  <2>2. KeptPoints(c) \subseteq PointLines(c) /\ PointLines(c) \subseteq 1 .. Len(c)
    BY LineFacts
  <2>3. QED
    BY <2>1, <2>2, LineFacts
<1>3. f \in KeptPoints(b) /\ f \in PointLines(b) /\ \A x \in PointLines(b) : f <= x
  BY LineFacts
<1>4. \A w \in WrongLines(b) : f < w
  BY <1>3 DEF KeptPoints
<1>5. ~b[f].word /\ b[f].width = Width(b)
  BY <1>3 DEF PointLines, Width
<1>6. Width(c) = Width(a)
  BY JoinedWrong
<1>. HIDE DEF m, n, f
<1>7. f \in V
  BY <1>2, <1>3, <1>5 DEF WrongAfter
<1>8. ASSUME NEW x \in V
      PROVE  f <= x
  <2>1. x \in 1 .. n /\ (b[x].word \/ x \in PointLines(b))
    BY DEF WrongAfter, n
  <2>2. CASE b[x].word
    <3>1. x \in WrongLines(b)
      BY <1>2, <2>1, <2>2 DEF WrongLines
    <3>2. f < x /\ f \in 1 .. n
      BY <1>2, <1>3, <1>4, <3>1
    <3>3. QED
      BY <2>1, <3>2
  <2>3. CASE x \in PointLines(b)
    BY <1>3, <2>3
  <2>4. QED
    BY <2>1, <2>2, <2>3
<1>9. FirstError(c, 1) = ErrorOf(b[f], m + f, Width(c))
  BY <1>1, <1>7, <1>8
<1>10. FirstError(c, 1) =
         [line |-> m + f, what |-> "point has", width |-> Width(b), expected |-> Width(a)]
  BY <1>5, <1>6, <1>9 DEF ErrorOf
<1>11. \A x \in 1 .. n : m + x \in KeptPoints(c) <=> x \in {}
  <2>1. ASSUME NEW x \in 1 .. n, m + x \in KeptPoints(c)
        PROVE  FALSE
    <3>1. x \in PointLines(b) /\ x < f
      BY <1>1, <1>7, <2>1
    <3>2. f <= x /\ f \in 1 .. n
      BY <1>2, <1>3, <3>1
    <3>3. QED
      BY <1>2, <3>1, <3>2
  <2>2. QED
    BY <2>1
<1>12. Cardinality(KeptPoints(c)) = Cardinality(PointLines(a))
  <2>. DEFINE P == PointLines(a)
              S == KeptPoints(c)
              K == {}
  <2>1. Apart(S, m, n, P, K) /\ m \in Nat /\ n \in Nat
    BY <1>1, <1>2, <1>11 DEF Apart
  <2>2. Cardinality(K) = 0 /\ Cardinality(P) \in Nat
    BY LineFacts, FS_EmptySet, FS_CardinalityType
  <2>. HIDE DEF P, K, S
  <2>3. Cardinality(S) = Cardinality(P) + Cardinality(K)
    BY <2>1, CountedApart
  <2>4. Cardinality(S) = Cardinality(P)
    BY <2>2, <2>3
  <2>5. S = KeptPoints(c) /\ P = PointLines(a)
    BY DEF S, P
  <2>6. QED
    BY <2>4, <2>5
<1>13. QED
  BY <1>10, <1>12 DEF m, f

\* What a merge does to points without an error.
Clean(w, p) == [width |-> w, points |-> p, error |-> NoError]

WidthOf(w, chunk) == IF chunk.points = <<>> THEN w ELSE Head(chunk.points)

Refused(w, p, chunk, x) ==
  [width |-> w, points |-> p,
   error |-> [line |-> chunk.line, what |-> "point has", width |-> x, expected |-> w]]

Gathered(p, chunk, x) ==
  [width |-> x, points |-> p \o chunk.points, error |-> chunk.error]

\* A chunk merged into a sink without an error: refused for the width of its
\* first point, or gathered.
LEMMA MergeIs ==
  ASSUME NEW w, NEW p, NEW chunk, NEW x, x = WidthOf(w, chunk)
  PROVE  /\ w \notin {0, x} => Merge(Clean(w, p), chunk) = Refused(w, p, chunk, x)
         /\ w \in {0, x} => Merge(Clean(w, p), chunk) = Gathered(p, chunk, x)
<1>. DEFINE s   == [width |-> w, points |-> p, error |-> NoError]
            err == [line |-> chunk.line, what |-> "point has", width |-> x, expected |-> w]
<1>1. s.width = w /\ s.points = p /\ s.error = NoError
  OBVIOUS
<1>2. \A e : [s EXCEPT !.error = e] = [width |-> w, points |-> p, error |-> e]
  OBVIOUS
<1>3. Merge(s, chunk) = IF w \notin {0, x} THEN [s EXCEPT !.error = err]
                        ELSE [width |-> x, points |-> p \o chunk.points, error |-> chunk.error]
  <2>. HIDE DEF s
  <2>1. QED
    BY <1>1, Zenon DEF Merge, WidthOf
<1>. HIDE DEF err
<1>4. [s EXCEPT !.error = err] = [width |-> w, points |-> p, error |-> err]
  BY <1>2
<1>5. QED
  BY <1>3, <1>4 DEF err, Clean, Refused, Gathered

\* Chunks merge to what their lines together come to.
LEMMA MergeSunk ==
  ASSUME NEW a \in Seq(Line), NEW b \in Seq(Line), NEW c \in Seq(Line), c = After(a, b)
  PROVE  Merge(Sunk(a), ParseLines(b, 1 + Len(a))) = Sunk(c)
<1>. DEFINE m     == Len(a)
            chunk == ParseLines(b, 1 + m)
            k     == Cardinality(PointLines(a))
            l     == Cardinality(KeptPoints(b))
<1>0. m \in Nat
  OBVIOUS
<1>1. /\ chunk.points = Copies(l, Width(b))
      /\ chunk.error = FirstError(b, 1 + m)
      /\ KeptPoints(b) # {} => chunk.line = 1 + m + FirstPoint(b) - 1
  BY ChunkIs
<1>2. Sunk(c) = [width  |-> IF KeptPoints(c) = {} THEN 0 ELSE Width(c),
                 points |-> Copies(Cardinality(KeptPoints(c)), Width(c)),
                 error  |-> FirstError(c, 1)]
  BY SunkIs
<1>3. Cardinality(KeptPoints(c)) \in Nat
        /\ (Cardinality(KeptPoints(c)) = 0 <=> KeptPoints(c) = {})
  BY ChunkPoints
<1>4. l \in Nat /\ (l = 0 <=> KeptPoints(b) = {}) /\ (l = 0 => Copies(l, Width(b)) = <<>>)
        /\ (l # 0 => /\ Width(b) \in Nat /\ Width(b) > 0
                     /\ Copies(l, Width(b)) # <<>> /\ Head(Copies(l, Width(b))) = Width(b))
  BY ChunkPoints
<1>5. CASE WrongLines(a) # {}
  <2>1. Sunk(a).error # NoError
    BY <1>5, SunkIs, ErrorFacts
  <2>2. Merge(Sunk(a), chunk) = Sunk(a)
    <3>. HIDE DEF chunk
    <3>1. QED
      BY <2>1 DEF Merge
  <2>3. QED
    BY <1>5, <2>2, SunkAfterError
<1>6. CASE WrongLines(a) = {} /\ PointLines(a) = {}
  <2>1. FirstError(a, 1) = NoError /\ KeptPoints(a) = {}
    BY <1>6, ErrorFacts, LineFacts
  <2>2. Sunk(a) = EmptySink
    BY <2>1, SunkOfNone DEF EmptySink
  <2>3. Merge(EmptySink, chunk) =
          [width  |-> IF KeptPoints(b) = {} THEN 0 ELSE Width(b),
           points |-> Copies(l, Width(b)),
           error  |-> FirstError(b, 1 + m)]
    BY MergedFirst
  <2>4. FirstError(c, 1) = FirstError(b, 1 + m) /\ Cardinality(KeptPoints(c)) = k + l
    BY <1>6, CarriedOver
  <2>5. k = 0
    BY <1>6, FS_EmptySet
  <2>. HIDE DEF k, l, m, chunk
  <2>6. Cardinality(KeptPoints(c)) = l /\ (KeptPoints(c) = {} <=> KeptPoints(b) = {})
    BY <1>3, <1>4, <2>4, <2>5
  <2>7. KeptPoints(b) # {} => Width(c) = Width(b)
    <3>1. KeptPoints(b) # {} => PointLines(b) # {}
      BY LineFacts
    <3>2. QED
      BY <1>6, <3>1, JoinedWrong
  <2>8. KeptPoints(b) = {} => Copies(l, Width(c)) = Copies(l, Width(b))
    BY <1>4 DEF Copies
  <2>9. Sunk(c) = Merge(EmptySink, chunk)
    BY <1>2, <2>3, <2>4, <2>6, <2>7, <2>8
  <2>10. QED
    BY <2>2, <2>9 DEF chunk, m
<1>7. CASE WrongLines(a) = {} /\ PointLines(a) # {}
  <2>. DEFINE w == Width(a)
  <2>1. FirstError(a, 1) = NoError /\ KeptPoints(a) = PointLines(a) /\ w \in Nat /\ w > 0
    BY <1>7, ErrorFacts, LineFacts
  <2>2. Sunk(a) = [width |-> w, points |-> Copies(k, w), error |-> NoError]
    BY <1>7, <2>1, SunkIs
  <2>3. k \in Nat /\ k # 0
    BY <1>7, LineFacts, FS_CardinalityType, FS_EmptySet
  <2>4. Width(c) = w
    BY <1>7, JoinedWrong
  <2>. DEFINE width == IF chunk.points = <<>> THEN w ELSE Head(chunk.points)
  <2>. HIDE DEF chunk, k, l, m, w
  <2>5. CASE KeptPoints(b) # {} /\ w # Width(b)
    <3>1. width = Width(b) /\ w \notin {0, width}
      BY <1>1, <1>4, <2>1, <2>5
    <3>3. Merge(Sunk(a), chunk) =
            [width |-> w, points |-> Copies(k, w),
             error |-> [line |-> chunk.line, what |-> "point has",
                        width |-> Width(b), expected |-> w]]
      <4>. HIDE DEF width
      <4>1. width = WidthOf(w, chunk)
        BY DEF width, WidthOf
      <4>2. Merge(Clean(w, Copies(k, w)), chunk) = Refused(w, Copies(k, w), chunk, width)
        BY <3>1, <4>1, MergeIs
      <4>3. QED
        BY <2>2, <3>1, <4>2 DEF Clean, Refused
    <3>4. FirstError(c, 1) = [line |-> m + FirstPoint(b), what |-> "point has",
                              width |-> Width(b), expected |-> w]
            /\ Cardinality(KeptPoints(c)) = k
      BY <1>7, <2>5, Mismatch DEF m, k, w
    <3>5. chunk.line = m + FirstPoint(b)
      <4>1. FirstPoint(b) \in Nat
        <5>1. FirstPoint(b) \in PointLines(b) /\ PointLines(b) \subseteq 1 .. Len(b) /\ Len(b) \in Nat
          BY <2>5, LineFacts
        <5>2. QED
          BY <5>1
      <4>2. chunk.line = 1 + m + FirstPoint(b) - 1
        BY <1>1, <2>5
      <4>. DEFINE first == FirstPoint(b)
      <4>3. 1 + m + first - 1 = m + first
        <5>. HIDE DEF first
        <5>1. first \in Nat /\ m \in Nat
          BY <1>0, <4>1 DEF first
        <5>2. QED
          BY <5>1
      <4>4. QED
        BY <4>2, <4>3
    <3>6. QED
      BY <1>2, <1>3, <2>3, <2>4, <3>3, <3>4, <3>5 DEF chunk, m
  <2>6. CASE ~(KeptPoints(b) # {} /\ w # Width(b))
    <3>1. width = w
      BY <1>1, <1>4, <2>6
    <3>2. Copies(k, w) \o chunk.points = Copies(k + l, w)
      <4>1. CASE KeptPoints(b) = {}
        <5>1. l = 0 /\ chunk.points = <<>>
          BY <1>1, <1>4, <4>1
        <5>2. Copies(k, w) \in Seq(Nat)
          BY <2>1, <2>3, CopiesJoin
        <5>3. Copies(k, w) \o <<>> = Copies(k, w)
          BY <5>2
        <5>4. k + l = k
          BY <2>3, <5>1
        <5>5. QED
          BY <5>1, <5>3, <5>4
      <4>2. CASE KeptPoints(b) # {}
        <5>1. chunk.points = Copies(l, w)
          BY <1>1, <2>6, <4>2
        <5>2. Copies(k, w) \o Copies(l, w) = Copies(k + l, w)
          <6>1. k \in Nat /\ l \in Nat /\ w \in Nat
            BY <1>4, <2>1, <2>3, Zenon
          <6>2. QED
            BY <6>1, CopiesJoin, Zenon
        <5>3. QED
          BY <5>1, <5>2, Zenon
      <4>3. QED
        BY <4>1, <4>2
    <3>3. Merge(Sunk(a), chunk) =
            [width |-> w, points |-> Copies(k, w) \o chunk.points, error |-> chunk.error]
      <4>. HIDE DEF width
      <4>1. width = WidthOf(w, chunk)
        BY DEF width, WidthOf
      <4>2. w \in {0, width}
        BY <3>1
      <4>3. Merge(Clean(w, Copies(k, w)), chunk) = Gathered(Copies(k, w), chunk, width)
        BY <4>1, <4>2, MergeIs
      <4>4. QED
        BY <2>2, <3>1, <4>3 DEF Clean, Gathered
    <3>4. FirstError(c, 1) = FirstError(b, 1 + m) /\ Cardinality(KeptPoints(c)) = k + l
      BY <1>7, <2>6, CarriedOver DEF m, k, l, w
    <3>5. KeptPoints(c) # {}
      BY <1>3, <1>4, <2>3, <3>4
    <3>6. QED
      BY <1>1, <1>2, <2>4, <3>2, <3>3, <3>4, <3>5 DEF chunk, m
  <2>7. QED
    BY <2>5, <2>6
<1>8. QED
  BY <1>5, <1>6, <1>7

\* No lines leave the points as they are.
LEMMA MergeNothing ==
  ASSUME NEW a \in Seq(Line), NEW from
  PROVE  Merge(Sunk(a), ParseLines(<<>>, from)) = Sunk(a)
<1>. DEFINE first == 1 + Len(a)
            none  == <<>>
<1>1. KeptPoints(none) = {} /\ WrongLines(none) = {}
  BY DEF KeptPoints, WrongLines, PointLines
<1>. HIDE DEF none
<1>2. ParseLines(none, from) = ParseLines(none, first)
  BY <1>1 DEF ParseLines, FirstError
<1>3. none \in Seq(Line) /\ a = After(a, none)
  BY DEF none, After
<1>4. Merge(Sunk(a), ParseLines(none, first)) = Sunk(a)
  BY <1>3, MergeSunk
<1>5. QED
  BY <1>2, <1>4 DEF none

-----------------------------------------------------------------------------
(* The chunks of a text *)

\* A place where a text may be cut.
AtLineEnd(t, x) == x = 0 \/ x = Len(t) \/ t[x] = "newline"

\* The end of a line is such a place, and no earlier.
LEMMA LineEndIs ==
  ASSUME NEW t \in Seq(Token), NEW from \in Nat
  PROVE  /\ LineEnd(t, from) \in 0 .. Len(t)
         /\ from <= Len(t) => from <= LineEnd(t, from)
         /\ AtLineEnd(t, LineEnd(t, from))
<1>. DEFINE ends == {n \in from + 1 .. Len(t) : t[n] = "newline"}
<1>1. Len(t) \in Nat
  OBVIOUS
<1>2. LineEnd(t, from) = IF ends = {} THEN Len(t) ELSE Min(ends)
  BY DEF LineEnd
<1>3. ends \in SUBSET Nat
  BY <1>1
<1>4. \A n \in ends : n \in 0 .. Len(t) /\ from <= n /\ t[n] = "newline"
  BY <1>1
<1>. HIDE DEF ends
<1>5. ends # {} => Min(ends) \in ends
  BY <1>3, MinOfNaturals
<1>6. QED
  BY <1>1, <1>2, <1>4, <1>5 DEF AtLineEnd

\* The larger of two numbers.
LEMMA MaxOfTwo ==
  ASSUME NEW x \in Int, NEW y \in Int
  PROVE  Max({x, y}) = IF x <= y THEN y ELSE x
<1>1. \A z \in {x, y} : (\A v \in {x, y} : z >= v) <=> z = IF x <= y THEN y ELSE x
  OBVIOUS
<1>2. Max({x, y}) \in {x, y} /\ \A v \in {x, y} : Max({x, y}) >= v
  BY <1>1 DEF Max
<1>3. QED
  BY <1>1, <1>2

\* Cuts of a text, in order and each at the end of a line.
GoodCuts(t) ==
  {s \in Seq(0 .. Len(t)) :
     /\ s # <<>>
     /\ s[1] = 0
     /\ \A k \in 1 .. Len(s) - 1 : s[k] <= s[k + 1]
     /\ \A k \in 1 .. Len(s) : AtLineEnd(t, s[k])}

\* One more cut, at the end of a line and not before the last one.
LEMMA NextCut ==
  ASSUME NEW t \in Seq(Token), NEW s \in GoodCuts(t), NEW x \in 0 .. Len(t),
         AtLineEnd(t, x), Last(s) <= x
  PROVE  Append(s, x) \in GoodCuts(t) /\ Len(Append(s, x)) = Len(s) + 1
<1>. DEFINE n == Len(s)
            r == Append(s, x)
<1>1. s \in Seq(0 .. Len(t)) /\ n \in Nat /\ n # 0 /\ s[1] = 0
        /\ (\A k \in 1 .. n - 1 : s[k] <= s[k + 1])
        /\ (\A k \in 1 .. n : AtLineEnd(t, s[k]))
  BY DEF GoodCuts
<1>2. r \in Seq(0 .. Len(t)) /\ Len(r) = n + 1 /\ r[n + 1] = x /\ \A k \in 1 .. n : r[k] = s[k]
  BY <1>1
<1>3. s[n] <= x
  BY DEF Last
<1>. HIDE DEF n, r
<1>4. r # <<>> /\ r[1] = 0
  BY <1>1, <1>2
<1>5. ASSUME NEW k \in 1 .. Len(r) - 1
      PROVE  r[k] <= r[k + 1]
  <2>1. k \in 1 .. n
    BY <1>1, <1>2
  <2>2. CASE k = n
    BY <1>1, <1>2, <1>3, <2>1, <2>2
  <2>3. CASE k # n
    <3>1. k \in 1 .. n - 1 /\ k + 1 \in 1 .. n
      BY <1>1, <2>1, <2>3
    <3>2. QED
      BY <1>1, <1>2, <2>1, <3>1
  <2>4. QED
    BY <2>2, <2>3
<1>6. ASSUME NEW k \in 1 .. Len(r)
      PROVE  AtLineEnd(t, r[k])
  <2>1. k \in 1 .. n \/ k = n + 1
    BY <1>1, <1>2
  <2>2. QED
    BY <1>1, <1>2, <2>1
<1>7. QED
  BY <1>2, <1>4, <1>5, <1>6 DEF GoodCuts, n, r

\* A function that lists the cuts up to every chunk.
CutRun(t, w, f) ==
  f = [k \in 0 .. w - 1 |->
        IF k = 0 THEN <<0>>
        ELSE LET cuts == f[k - 1]
             IN  Append(cuts, LineEnd(t, Max({(Len(t) \div w) * k, Last(cuts)})))]

\* A text is cut into as many chunks as asked for, in order, at ends of lines.
LEMMA CutsAreGood ==
  ASSUME NEW t \in Seq(Token), NEW w \in Nat \ {0}
  PROVE  LET cuts == Cuts(t, w) IN
         /\ cuts \in GoodCuts(t) /\ Len(cuts) = w + 1
         /\ cuts[1] = 0 /\ cuts[w + 1] = Len(t)
<1>. DEFINE n       == w - 1
            D       == GoodCuts(t)
            at      == [k \in 1 .. n |-> (Len(t) \div w) * k]
            next(k, s) == Append(s, LineEnd(t, Max({at[k], Last(s)})))
            G       == [k \in 1 .. n |-> [s \in D |-> next(k, s)]]
            base    == <<0>>
<1>1. n \in Nat /\ Len(t) \in Nat
  OBVIOUS
<1>2. base \in D
  BY <1>1 DEF GoodCuts, AtLineEnd
<1>3. \A k \in 1 .. n : at[k] \in Int
  <2>1. Len(t) \div w \in Int
    BY <1>1
  <2>. DEFINE d == Len(t) \div w
  <2>2. \A k \in 1 .. n : d * k \in Int
    <3>. HIDE DEF d, n
    <3>1. QED
      BY <2>1 DEF d
  <2>3. QED
    BY <2>2
<1>. HIDE DEF at, D
<1>4. ASSUME NEW k \in 1 .. n, NEW s \in D
      PROVE  next(k, s) \in D /\ Len(next(k, s)) = Len(s) + 1
  <2>1. Last(s) \in 0 .. Len(t)
    BY DEF D, GoodCuts, Last
  <2>. DEFINE from == Max({at[k], Last(s)})
  <2>2. from = IF at[k] <= Last(s) THEN Last(s) ELSE at[k]
    <3>1. at[k] \in Int /\ Last(s) \in Int
      BY <1>1, <1>3, <2>1
    <3>2. QED
      BY <3>1, MaxOfTwo
  <2>3. from \in Nat /\ Last(s) <= from
    <3>. HIDE DEF from
    <3>1. QED
      BY <1>1, <1>3, <2>1, <2>2
  <2>. DEFINE x == LineEnd(t, from)
  <2>4. x \in 0 .. Len(t) /\ (from <= Len(t) => from <= x) /\ AtLineEnd(t, x)
    <3>. HIDE DEF from
    <3>1. QED
      BY <2>3, LineEndIs
  <2>5. Last(s) <= x
    <3>1. CASE from <= Len(t)
      <4>. HIDE DEF from, x
      <4>1. QED
        BY <1>1, <2>1, <2>3, <2>4, <3>1
    <3>2. CASE ~(from <= Len(t))
      <4>1. x = Len(t)
        <5>1. from + 1 .. Len(t) = {}
          <6>. HIDE DEF from
          <6>1. QED
            BY <1>1, <2>3, <3>2
        <5>2. QED
          BY <5>1 DEF LineEnd
      <4>. HIDE DEF x
      <4>2. QED
        BY <1>1, <2>1, <4>1
    <3>3. QED
      BY <3>1, <3>2
  <2>6. s \in GoodCuts(t)
    BY DEF D
  <2>. HIDE DEF x
  <2>7. Append(s, x) \in GoodCuts(t) /\ Len(Append(s, x)) = Len(s) + 1
    BY <2>4, <2>5, <2>6, NextCut
  <2>8. QED
    BY <2>7 DEF D, x
<1>5. PICK f \in Recursions(n, D, base, G) : TRUE
  <2>1. \A k \in 1 .. n : \A s \in D : G[k][s] \in D
    BY <1>4
  <2>. HIDE DEF G, n, base
  <2>2. QED
    BY <1>1, <1>2, <2>1, RecursionExists
<1>6. f \in [0 .. n -> D] /\ f[0] = base /\ \A k \in 1 .. n : f[k] = G[k][f[k - 1]]
  <2>. HIDE DEF G, n, base
  <2>1. QED
    BY <1>5 DEF Recursions
<1>7. \A k \in 1 .. n : f[k - 1] \in D
  <2>1. \A k \in 1 .. n : k - 1 \in 0 .. n
    BY <1>1
  <2>2. QED
    BY <1>6, <2>1
<1>8. \A k \in 1 .. n : f[k] = next(k, f[k - 1])
  <2>. HIDE DEF next
  <2>1. \A k \in 1 .. n : \A s \in D : G[k][s] = next(k, s)
    OBVIOUS
  <2>. HIDE DEF G
  <2>2. QED
    BY <1>6, <1>7, <2>1
<1>9. CutRun(t, w, f)
  <2>1. f = [k \in 0 .. n |-> IF k = 0 THEN base ELSE next(k, f[k - 1])]
    <3>. HIDE DEF next
    <3>1. QED
      BY <1>1, <1>6, <1>8
  <2>2. \A k \in 0 .. n : k # 0 => at[k] = (Len(t) \div w) * k
    BY <1>1 DEF at
  <2>3. QED
    BY <2>1, <2>2 DEF CutRun
<1>10. \A g : CutRun(t, w, g) => g[n] = f[n]
  <2>1. SUFFICES ASSUME NEW g, CutRun(t, w, g)
                 PROVE  g[n] = f[n]
    OBVIOUS
  <2>2. g[0] = base /\ \A k \in 1 .. n : g[k] = next(k, g[k - 1])
    <3>. DEFINE step(k) ==
                  Append(g[k - 1], LineEnd(t, Max({(Len(t) \div w) * k, Last(g[k - 1])})))
    <3>1. g = [k \in 0 .. n |-> IF k = 0 THEN base ELSE step(k)]
      BY <2>1 DEF CutRun
    <3>2. \A k \in 1 .. n : step(k) = next(k, g[k - 1])
      BY DEF at
    <3>. HIDE DEF step, next, base
    <3>3. QED
      BY <1>1, <3>1, <3>2
  <2>3. GoOnAlike(n, g, f)
    <3>. HIDE DEF next, n
    <3>1. QED
      BY <1>6, <1>8, <2>2 DEF GoOnAlike
  <2>. HIDE DEF n
  <2>4. \A k \in 0 .. n : g[k] = f[k]
    BY <1>1, <2>3, SameRecursion
  <2>5. QED
    BY <1>1, <2>4
<1>11. Cuts(t, w) = Append((CHOOSE g : CutRun(t, w, g))[n], Len(t))
  BY DEF Cuts, CutRun
<1>12. Cuts(t, w) = Append(f[n], Len(t))
  <2>1. CutRun(t, w, CHOOSE g : CutRun(t, w, g))
    BY <1>9
  <2>2. QED
    BY <1>10, <1>11, <2>1
<1>13. f[n] \in D /\ Len(f[n]) = w
  <2>. DEFINE H == {k \in 0 .. n : Len(f[k]) = k + 1}
  <2>1. H \in SUBSET (0 .. n) /\ 0 \in H
    BY <1>1, <1>6
  <2>2. ASSUME NEW k \in 1 .. n, k - 1 \in H
        PROVE  k \in H
    <3>1. Len(f[k]) = Len(f[k - 1]) + 1
      <4>. HIDE DEF next
      <4>1. QED
        BY <1>4, <1>7, <1>8
    <3>2. Len(f[k - 1]) = k
      BY <1>1, <2>2
    <3>3. QED
      BY <1>1, <3>1, <3>2
  <2>3. H = 0 .. n
    <3>. HIDE DEF H, n
    <3>1. QED
      BY <1>1, <2>1, <2>2, FirstFailure
  <2>4. n \in 0 .. n
    BY <1>1
  <2>5. n \in H
    <3>. HIDE DEF H
    <3>1. QED
      BY <2>3, <2>4
  <2>6. QED
    BY <1>6, <2>4, <2>5
<1>14. Append(f[n], Len(t)) \in GoodCuts(t) /\ Len(Append(f[n], Len(t))) = w + 1
  <2>. DEFINE s == f[n]
              x == Len(t)
  <2>1. s \in GoodCuts(t) /\ Len(s) = w
    BY <1>13 DEF D
  <2>2. Last(s) \in 0 .. x
    <3>. HIDE DEF s
    <3>1. QED
      BY <2>1 DEF GoodCuts, Last
  <2>3. x \in 0 .. Len(t) /\ AtLineEnd(t, x) /\ Last(s) <= x
    BY <1>1, <2>2 DEF AtLineEnd
  <2>. HIDE DEF s, x
  <2>4. Append(s, x) \in GoodCuts(t) /\ Len(Append(s, x)) = Len(s) + 1
    BY <2>1, <2>3, NextCut
  <2>5. QED
    BY <2>1, <2>4 DEF s, x
<1>15. Append(f[n], Len(t))[w + 1] = Len(t)
  <2>1. f[n] \in Seq(0 .. Len(t)) /\ Len(f[n]) = w
    BY <1>13 DEF D, GoodCuts
  <2>2. QED
    BY <2>1
<1>16. Append(f[n], Len(t))[1] = 0
  BY <1>14 DEF GoodCuts
<1>17. QED
  BY <1>12, <1>14, <1>15, <1>16

\* The lines of a text are lines, and an empty text has none.
LEMMA LinesTyped ==
  /\ \A t \in Seq(Token) : Lines(t) \in Seq(Line)
  /\ Lines(<<>>) = <<>>
<1>1. ASSUME NEW t \in Seq(Token)
      PROVE  Lines(t) \in Seq(Line)
  <2>1. PICK f \in [0 .. Len(t) -> Seq(Line)] : Lines(t) = f[Len(t)]
    BY LinesOf
  <2>2. Len(t) \in 0 .. Len(t)
    OBVIOUS
  <2>. DEFINE n == Len(t)
  <2>. HIDE DEF n
  <2>3. f[n] \in Seq(Line)
    BY <2>1, <2>2 DEF n
  <2>4. QED
    BY <2>1, <2>3 DEF n
<1>2. Lines(<<>>) = <<>>
  <2>. DEFINE none == <<>>
  <2>1. none \in Seq(Token) /\ EndsLine(none)
    BY DEF EndsLine
  <2>2. Newlines(none) = 0
    <3>1. {p \in DOMAIN none : none[p] = "newline"} = {}
      OBVIOUS
    <3>2. QED
      BY <3>1, FS_EmptySet DEF Newlines
  <2>. HIDE DEF none
  <2>3. Len(Lines(none)) = 0 /\ Lines(none) \in Seq(Line)
    BY <1>1, <2>1, <2>2, LinesCounted
  <2>4. Lines(none) = <<>>
    BY <2>3
  <2>5. QED
    BY <2>4 DEF none
<1>3. QED
  BY <1>1, <1>2

\* The first x tokens of a text.
UpTo(t, x) == SubSeq(t, 1, x)

\* What lies between two places of a text.
Between(t, x, y) == SubSeq(t, x + 1, y)

\* The parts of a text at two places, and how they join.
LEMMA Pieces ==
  ASSUME NEW t \in Seq(Token), NEW x \in Nat, NEW y \in Nat, x <= y, y <= Len(t)
  PROVE  /\ UpTo(t, x) \in Seq(Token) /\ Len(UpTo(t, x)) = x
         /\ Between(t, x, y) \in Seq(Token) /\ Len(Between(t, x, y)) = y - x
         /\ \A i \in 1 .. y - x : Between(t, x, y)[i] = t[x + i]
         /\ After(UpTo(t, x), Between(t, x, y)) = UpTo(t, y)
         /\ EndsLine(UpTo(t, x)) <=> x = 0 \/ t[x] = "newline"
<1>1. Len(t) \in Nat
  OBVIOUS
<1>2. UpTo(t, x) \in Seq(Token) /\ Len(UpTo(t, x)) = x /\ \A i \in 1 .. x : UpTo(t, x)[i] = t[i]
  <2>1. \A i \in 1 .. x : t[i] \in Token
    BY <1>1
  <2>2. QED
    BY <2>1 DEF UpTo
<1>3. /\ Between(t, x, y) \in Seq(Token) /\ Len(Between(t, x, y)) = y - x
      /\ \A i \in 1 .. y - x : Between(t, x, y)[i] = t[x + i]
  <2>. DEFINE m == x + 1
              s == SubSeq(t, m, y)
  <2>1. \A i \in m .. y : t[i] \in Token
    BY <1>1
  <2>2. m \in Int /\ y \in Int
    OBVIOUS
  <2>3. s \in Seq(Token) /\ Len(s) = (IF m <= y THEN y - m + 1 ELSE 0)
          /\ \A i \in 1 .. y - m + 1 : s[i] = t[m + i - 1]
    <3>. HIDE DEF m
    <3>1. QED
      BY <2>1, <2>2, SubSeqProperties
  <2>4. y - m + 1 = y - x
    OBVIOUS
  <2>5. \A i \in 1 .. y - x : m + i - 1 = x + i
    OBVIOUS
  <2>6. (IF m <= y THEN y - m + 1 ELSE 0) = y - x
    OBVIOUS
  <2>. HIDE DEF m
  <2>7. s \in Seq(Token) /\ Len(s) = y - x /\ \A i \in 1 .. y - x : s[i] = t[x + i]
    BY <2>3, <2>4, <2>5, <2>6
  <2>8. QED
    BY <2>7 DEF Between, m
<1>4. After(UpTo(t, x), Between(t, x, y)) = UpTo(t, y)
  <2>1. 1 \in 1 .. Len(t) + 1 /\ x \in 1 - 1 .. Len(t) /\ y \in x .. Len(t)
    BY <1>1
  <2>2. SubSeq(t, 1, x) \o SubSeq(t, x + 1, y) = SubSeq(t, 1, y)
    BY <2>1, ConcatAdjacentSubSeq
  <2>3. QED
    BY <2>2 DEF After, UpTo, Between
<1>5. EndsLine(UpTo(t, x)) <=> x = 0 \/ t[x] = "newline"
  <2>. DEFINE s == UpTo(t, x)
  <2>1. s = <<>> <=> x = 0
    <3>1. s \in Seq(Token) /\ Len(s) = x
      BY <1>2
    <3>. HIDE DEF s
    <3>2. QED
      BY <3>1
  <2>2. x # 0 => s[Len(s)] = t[x]
    BY <1>2
  <2>3. QED
    BY <2>1, <2>2 DEF EndsLine
<1>6. QED
  BY <1>2, <1>3, <1>4, <1>5

\* Texts that break no line at their end join to one that does not.
LEMMA JoinedTexts ==
  ASSUME NEW u \in Seq(Token), NEW w \in Seq(Token)
  PROVE  /\ After(u, w) \in Seq(Token)
         /\ Len(After(u, w)) = Len(u) + Len(w)
         /\ EndsLine(u) /\ EndsLine(w) => EndsLine(After(u, w))
         /\ EndsLine(After(u, w)) => EndsLine(w)
         /\ w = <<>> => After(u, w) = u
         /\ u = <<>> => After(u, w) = w
         /\ EndsLine(u) => Lines(After(u, w)) = After(Lines(u), Lines(w))
<1>. DEFINE t == After(u, w)
<1>1. t \in Seq(Token) /\ Len(t) = Len(u) + Len(w)
        /\ (w # <<>> => t[Len(t)] = w[Len(w)])
        /\ (w = <<>> => t = u) /\ (u = <<>> => t = w)
  BY DEF After
<1>2. w # <<>> => t # <<>>
  <2>1. w # <<>> => Len(t) # 0
    BY <1>1
  <2>2. QED
    BY <2>1
<1>. HIDE DEF t
<1>3. EndsLine(u) /\ EndsLine(w) => EndsLine(t)
  BY <1>1 DEF EndsLine
<1>4. EndsLine(t) => EndsLine(w)
  BY <1>1, <1>2 DEF EndsLine
<1>5. EndsLine(u) => Lines(u \o w) = Lines(u) \o Lines(w)
  BY LinesConcat
<1>6. QED
  BY <1>1, <1>3, <1>4, <1>5 DEF t, After

\* Texts may be joined in any grouping.
LEMMA AfterAfter ==
  ASSUME NEW S, NEW a \in Seq(S), NEW b \in Seq(S), NEW c \in Seq(S)
  PROVE  After(After(a, b), c) = After(a, After(b, c))
BY ConcatAssociative DEF After

\* An empty text adds nothing.
LEMMA AfterNothing ==
  ASSUME NEW t \in Seq(Token)
  PROVE  After(<<>>, t) = t /\ After(t, <<>>) = t
BY DEF After

\* One more chunk: the lines up to it and its own.
LEMMA NextChunk ==
  ASSUME NEW u \in Seq(Token), NEW t \in Seq(Token), EndsLine(u),
         NEW x \in Nat, NEW y \in Nat, x <= y, y <= Len(t), AtLineEnd(t, x)
  PROVE  Merge(Sunk(Lines(After(u, UpTo(t, x)))),
               ParseChunk(Between(t, x, y), 1 + Len(Lines(u)) + Newlines(UpTo(t, x))))
           = Sunk(Lines(After(u, UpTo(t, y))))
<1>. DEFINE before == UpTo(t, x)
            piece  == Between(t, x, y)
            a      == Lines(After(u, before))
            from   == 1 + Len(Lines(u)) + Newlines(before)
<1>1. before \in Seq(Token) /\ piece \in Seq(Token) /\ Len(piece) = y - x
        /\ After(before, piece) = UpTo(t, y)
        /\ (EndsLine(before) <=> x = 0 \/ t[x] = "newline")
  BY Pieces
<1>. HIDE DEF before, piece
<1>2. After(u, before) \in Seq(Token) /\ a \in Seq(Line)
  BY <1>1, JoinedTexts, LinesTyped
<1>3. CASE EndsLine(before)
  <2>1. EndsLine(After(u, before)) /\ a = After(Lines(u), Lines(before))
    BY <1>1, <1>3, JoinedTexts
  <2>2. Lines(u) \in Seq(Line) /\ Lines(before) \in Seq(Line) /\ Lines(piece) \in Seq(Line)
    BY <1>1, LinesTyped
  <2>3. Len(a) = Len(Lines(u)) + Len(Lines(before))
    BY <2>1, <2>2 DEF After
  <2>4. Len(Lines(before)) = Newlines(before)
    BY <1>1, <1>3, LinesCounted
  <2>5. from = 1 + Len(a)
    <3>1. Len(Lines(u)) \in Nat /\ Len(Lines(before)) \in Nat
      BY <2>2
    <3>2. QED
      BY <2>3, <2>4, <3>1
  <2>6. After(After(u, before), piece) = After(u, UpTo(t, y))
    <3>1. After(u, After(before, piece)) = After(After(u, before), piece)
      BY <1>1, AfterAfter
    <3>2. QED
      BY <1>1, <3>1
  <2>7. Lines(After(u, UpTo(t, y))) = After(a, Lines(piece))
    BY <1>1, <1>2, <2>1, <2>6, JoinedTexts
  <2>. DEFINE b == Lines(piece)
              c == Lines(After(u, UpTo(t, y)))
  <2>8. a \in Seq(Line) /\ b \in Seq(Line) /\ c \in Seq(Line) /\ c = After(a, b)
    <3>1. After(a, Lines(piece)) \in Seq(Line)
      <4>. HIDE DEF a
      <4>1. QED
        BY <1>2, <2>2 DEF After
    <3>2. QED
      BY <1>2, <2>2, <2>7, <3>1
  <2>9. Merge(Sunk(a), ParseLines(b, 1 + Len(a))) = Sunk(c)
    <3>. HIDE DEF a, b, c
    <3>1. QED
      BY <2>8, MergeSunk
  <2>10. ParseChunk(piece, from) = ParseLines(b, 1 + Len(a))
    BY <2>5 DEF ParseChunk
  <2>11. QED
    BY <2>9, <2>10 DEF before, piece
<1>4. CASE ~EndsLine(before)
  <2>1. x = Len(t) /\ x = y
    BY <1>1, <1>4 DEF AtLineEnd
  <2>2. piece = <<>>
    BY <1>1, <2>1
  <2>3. ParseChunk(piece, from) = ParseLines(<<>>, from)
    BY <2>2, LinesTyped DEF ParseChunk
  <2>4. Merge(Sunk(a), ParseLines(<<>>, from)) = Sunk(a)
    <3>. HIDE DEF a, from
    <3>1. QED
      BY <1>2, MergeNothing
  <2>5. UpTo(t, y) = before
    BY <2>1 DEF before
  <2>6. QED
    BY <2>3, <2>4, <2>5 DEF before, piece
<1>5. QED
  BY <1>3, <1>4

\* A function that lists the points gathered up to every chunk.
MergeRun(s, chunks, w, f) ==
  f = [k \in 0 .. w |-> IF k = 0 THEN s ELSE LET merged == f[k - 1] IN Merge(merged, chunks[k])]

\* Points and error do not depend on the chunks: a text parsed after others,
\* in as many chunks as there are threads, comes to what all the lines do
\* (points.rs:27-28).
THEOREM ChunksDoNotMatter ==
  ASSUME NEW u \in Seq(Token), NEW t \in Seq(Token), EndsLine(u),
         NEW threads \in Nat \ {0}, NEW minBytes \in Nat
  PROVE  ParseWindow(Sunk(Lines(u)), t, 1 + Len(Lines(u)), threads, minBytes)
           = Sunk(Lines(After(u, t)))
<1>. DEFINE w      == IF threads > 1 /\ Len(t) >= minBytes THEN threads ELSE 1
            first  == 1 + Len(Lines(u))
            chunks == MapChunks(t, first, w)
            cuts   == Cuts(t, w)
            s      == Sunk(Lines(u))
            g      == [k \in 0 .. w |-> Sunk(Lines(After(u, UpTo(t, cuts[k + 1]))))]
<1>1. w \in Nat \ {0} /\ w \in Nat
  OBVIOUS
<1>. HIDE DEF w
<1>2. cuts \in GoodCuts(t) /\ Len(cuts) = w + 1 /\ cuts[1] = 0 /\ cuts[w + 1] = Len(t)
  BY <1>1, CutsAreGood
<1>. HIDE DEF cuts
<1>3. /\ \A k \in 1 .. w + 1 : cuts[k] \in 0 .. Len(t) /\ AtLineEnd(t, cuts[k])
      /\ \A k \in 1 .. w : cuts[k] <= cuts[k + 1]
  <2>1. cuts \in Seq(0 .. Len(t))
          /\ (\A k \in 1 .. Len(cuts) - 1 : cuts[k] <= cuts[k + 1])
          /\ (\A k \in 1 .. Len(cuts) : AtLineEnd(t, cuts[k]))
    BY <1>2 DEF GoodCuts
  <2>2. Len(cuts) - 1 = w
    BY <1>1, <1>2
  <2>3. QED
    BY <1>1, <1>2, <2>1, <2>2
<1>4. g[0] = s
  <2>1. UpTo(t, 0) = <<>>
    BY DEF UpTo
  <2>2. After(u, UpTo(t, 0)) = u
    BY <2>1 DEF After
  <2>3. g[0] = Sunk(Lines(After(u, UpTo(t, cuts[1]))))
    BY <1>1
  <2>4. QED
    BY <1>2, <2>2, <2>3
<1>5. ASSUME NEW k \in 1 .. w
      PROVE  Merge(g[k - 1], chunks[k]) = g[k]
  <2>. DEFINE x == cuts[k]
              y == cuts[k + 1]
  <2>1. x \in Nat /\ y \in Nat /\ x <= y /\ y <= Len(t) /\ AtLineEnd(t, x)
    <3>1. k \in 1 .. w + 1 /\ k + 1 \in 1 .. w + 1
      BY <1>1
    <3>2. QED
      BY <1>3, <3>1
  <2>2. chunks[k] = ParseChunk(Between(t, x, y), first + Newlines(UpTo(t, x)))
    <3>1. chunks[k] = ParseChunk(SubSeq(t, cuts[k] + 1, cuts[k + 1]),
                                 first + Newlines(SubSeq(t, 1, cuts[k])))
      BY DEF MapChunks, cuts
    <3>2. QED
      BY <3>1 DEF Between, UpTo
  <2>3. g[k - 1] = Sunk(Lines(After(u, UpTo(t, x)))) /\ g[k] = Sunk(Lines(After(u, UpTo(t, y))))
    <3>1. k - 1 \in 0 .. w /\ (k - 1) + 1 = k /\ k \in 0 .. w
      BY <1>1
    <3>2. g[k - 1] = Sunk(Lines(After(u, UpTo(t, cuts[(k - 1) + 1]))))
      BY <3>1
    <3>3. QED
      BY <3>1, <3>2
  <2>. HIDE DEF x, y, g, chunks
  <2>4. Merge(Sunk(Lines(After(u, UpTo(t, x)))),
              ParseChunk(Between(t, x, y), 1 + Len(Lines(u)) + Newlines(UpTo(t, x))))
          = Sunk(Lines(After(u, UpTo(t, y))))
    BY <2>1, NextChunk
  <2>5. QED
    BY <2>2, <2>3, <2>4
<1>6. MergeRun(s, chunks, w, g)
  <2>1. g = [k \in 0 .. w |-> IF k = 0 THEN s ELSE Merge(g[k - 1], chunks[k])]
    <3>1. \A k \in 0 .. w : k # 0 => k \in 1 .. w
      BY <1>1
    <3>2. \A k \in 0 .. w : g[k] = IF k = 0 THEN s ELSE Merge(g[k - 1], chunks[k])
      <4>. HIDE DEF g, s, chunks
      <4>1. QED
        BY <1>4, <1>5, <3>1
    <3>3. g = [k \in 0 .. w |-> g[k]]
      OBVIOUS
    <3>. HIDE DEF g, s, chunks
    <3>4. QED
      BY <3>2, <3>3
  <2>. HIDE DEF g, s, chunks
  <2>2. QED
    BY <2>1 DEF MergeRun
<1>7. \A f : MergeRun(s, chunks, w, f) => f[w] = g[w]
  <2>. HIDE DEF s, chunks, g
  <2>1. SUFFICES ASSUME NEW f, MergeRun(s, chunks, w, f)
                 PROVE  f[w] = g[w]
    OBVIOUS
  <2>2. f[0] = s /\ \A k \in 1 .. w : f[k] = Merge(f[k - 1], chunks[k])
    BY <1>1, <2>1 DEF MergeRun
  <2>3. GoOnAlike(w, f, g)
    BY <1>4, <1>5, <2>2 DEF GoOnAlike
  <2>4. QED
    BY <1>1, <2>3, SameRecursion
<1>8. ParseWindow(s, t, first, threads, minBytes) = (CHOOSE f : MergeRun(s, chunks, w, f))[w]
  BY DEF ParseWindow, MergeRun, w
<1>9. ParseWindow(s, t, first, threads, minBytes) = g[w]
  <2>. HIDE DEF s, chunks, g, first
  <2>1. MergeRun(s, chunks, w, CHOOSE f : MergeRun(s, chunks, w, f))
    BY <1>6
  <2>2. QED
    BY <1>7, <1>8, <2>1
<1>10. g[w] = Sunk(Lines(After(u, t)))
  <2>1. g[w] = Sunk(Lines(After(u, UpTo(t, cuts[w + 1]))))
    BY <1>1
  <2>2. UpTo(t, Len(t)) = t
    BY SubSeqFull DEF UpTo
  <2>3. QED
    BY <1>2, <2>1, <2>2
<1>11. QED
  BY <1>9, <1>10

-----------------------------------------------------------------------------
(* The pipeline *)

\* What the reader sends: a window, or that a read failed.
Message == [window : Seq(Token), failed : BOOLEAN]

PipelineType ==
  /\ input \in Inputs
  /\ windows \in [offset : Nat, remaining : Nat, carry : Seq(Token), done : BOOLEAN]
  /\ windows.offset <= Len(input.file)
  /\ readerPc \in {"recv", "fill", "send", "exit"}
  /\ callerPc \in {"recv", "fill", "parse", "give", "leave", "drop", "join", "returned"}
  /\ readerPc = "send" => filled \in Message
  /\ full # <<>> => full[1] \in Message
  /\ text \in Seq(Token)
  /\ parsed \in Seq(Token)
  /\ failed \in BOOLEAN

\* The caller has not ended the parse.
Flowing == callerPc \in {"recv", "fill", "parse", "give"}

\* One thread has no reader and no channels; two keep their ends open as long
\* as the parse goes on.
SidesAgree ==
  /\ callerPc \in {"recv", "give", "leave", "drop", "join"} => Parallel
  /\ callerPc = "fill" => ~Parallel
  /\ ~Parallel => readerPc = "exit" /\ full = <<>>
  /\ Parallel /\ Flowing => receiving /\ returning

\* A read of the file fails somewhere.
CannotRead == input.readable <= Len(input.file)

\* A message is a failed read or some of the file.
Meant(message) ==
  IF message.failed THEN CannotRead /\ message.window = <<>> ELSE message.window # <<>>

\* So is every message, and the caller parses no empty window.
MessagesMeant ==
  /\ readerPc = "send" => Meant(filled)
  /\ full # <<>> => Meant(full[1])
  /\ callerPc = "parse" => text # <<>>
  /\ failed => CannotRead

\* A text that was read to its end was read whole.
DoneAtEnd == windows.done => windows.offset = Len(input.file) /\ windows.carry = <<>>

\* What was read and is not parsed yet: in the caller's hands, in the channel,
\* on its way there, and carried over to the next window.
Hand    == IF callerPc = "parse" THEN text ELSE <<>>
Channel == IF full = <<>> THEN <<>> ELSE full[1].window
Sending == IF readerPc = "send" THEN filled.window ELSE <<>>

Unsent     == After(Sending, windows.carry)
Unreceived == After(Channel, Unsent)
Unparsed   == After(Hand, Unreceived)

\* Only the last window may break a line at its end.
Ended(piece, rest) == EndsLine(piece) \/ (windows.done /\ rest = <<>>)

\* As long as the parse goes on, nothing that was read is lost, doubled or out
\* of order, and a reader that left has read everything or says it failed.
NothingLost ==
  Flowing =>
    /\ After(parsed, Unparsed) = UpTo(input.file, windows.offset)
    /\ Ended(parsed, Unparsed)
    /\ Ended(Hand, Unreceived)
    /\ Ended(Channel, Unsent)
    /\ Ended(Sending, windows.carry)
    /\ ~failed
    /\ sink.error = NoError
    /\ Parallel /\ readerPc = "exit" => windows.done \/ (full # <<>> /\ full[1].failed)

\* The points are those of all lines parsed so far, and the lines are counted.
SinkIsSerial ==
  /\ sink = Sunk(Lines(parsed))
  /\ EndsLine(parsed) => firstLine = 1 + Len(Lines(parsed))

\* The text begins with p.
Begins(p, t) == Len(p) <= Len(t) /\ UpTo(t, Len(p)) = p

\* How a parse may end: a read failed, all was parsed, or a line that does not
\* depend on what follows is wrong.
EndedRightly ==
  ~Flowing =>
    \/ failed /\ sink.error = NoError
    \/ ~failed /\ parsed = input.file
    \/ ~failed /\ sink.error # NoError /\ EndsLine(parsed) /\ Begins(parsed, input.file)

PipelineInvariant ==
  /\ PipelineType
  /\ SidesAgree
  /\ MessagesMeant
  /\ DoneAtEnd
  /\ NothingLost
  /\ SinkIsSerial
  /\ EndedRightly

-----------------------------------------------------------------------------
(* One read *)

\* The last newline of a text, and 0 when it has none.
LEMMA LastNewline ==
  ASSUME NEW t \in Seq(Token)
  PROVE  LET last == SelectLastInSeq(t, LAMBDA token : token = "newline") IN
         /\ last \in 0 .. Len(t)
         /\ last # 0 => t[last] = "newline"
         /\ Contains(t, "newline") <=> last # 0
<1>. DEFINE n    == Len(t)
            I    == {i \in 1 .. n : t[i] = "newline"}
            last == SelectLastInSeq(t, LAMBDA token : token = "newline")
            from == {n - i : i \in I}
            low  == Min(from)
<1>0. n \in Nat
  OBVIOUS
<1>1. last = IF I # {} THEN Max(I) ELSE 0
  BY DEF SelectLastInSeq
<1>2. Contains(t, "newline") <=> I # {}
  BY DEF Contains
<1>3. ASSUME I # {}
      PROVE  Max(I) \in I
  <2>1. from \in SUBSET Nat /\ from # {}
    BY <1>0, <1>3
  <2>2. low \in from /\ \A k \in from : low <= k
    <3>. HIDE DEF from
    <3>1. QED
      BY <2>1, MinOfNaturals
  <2>3. PICK top \in I : low = n - top
    BY <2>2
  <2>4. \A i \in I : top >= i
    <3>1. ASSUME NEW i \in I
          PROVE  top >= i
      <4>1. n - i \in from
        OBVIOUS
      <4>2. n - top <= n - i /\ i \in 1 .. n /\ top \in 1 .. n
        <5>. HIDE DEF from, low
        <5>1. QED
          BY <2>2, <2>3, <4>1
      <4>3. QED
        BY <1>0, <4>2
    <3>2. QED
      BY <3>1
  <2>. HIDE DEF I
  <2>5. QED
    BY <2>4 DEF Max
<1>4. \A i \in I : i \in 0 .. n /\ i # 0 /\ t[i] = "newline"
  BY <1>0
<1>. HIDE DEF I, last
<1>5. last \in 0 .. n /\ (last # 0 => t[last] = "newline") /\ (last # 0 <=> I # {})
  BY <1>0, <1>1, <1>3, <1>4
<1>6. QED
  BY <1>2, <1>5 DEF last

\* The smaller of two numbers.
LEMMA MinOfTwo ==
  ASSUME NEW x \in Int, NEW y \in Int
  PROVE  Min({x, y}) = IF x <= y THEN x ELSE y
<1>1. \A z \in {x, y} : (\A v \in {x, y} : z <= v) <=> z = IF x <= y THEN x ELSE y
  OBVIOUS
<1>2. Min({x, y}) \in {x, y} /\ \A v \in {x, y} : Min({x, y}) <= v
  BY <1>1 DEF Min
<1>3. QED
  BY <1>1, <1>2

\* The input of a run.
LEMMA InputTyped ==
  ASSUME PipelineType
  PROVE  /\ input.file \in Seq(Token) /\ Len(input.file) \in Nat
         /\ input.size \in Nat /\ input.size > 0
         /\ input.threads \in Nat /\ input.threads > 0
         /\ input.minBytes \in Nat
<1>1. input \in Input
  BY PipelineAssumption DEF PipelineType
<1>2. QED
  BY <1>1 DEF Input

\* How much a read asks for, and how much it gets.
LEMMA WantGot ==
  ASSUME PipelineType
  PROVE  /\ Want \in Nat /\ Got \in Nat /\ Got <= Want
         /\ windows.offset + Got <= Len(input.file)
         /\ Got < Want => windows.offset + Got = Len(input.file)
<1>. DEFINE r == windows.remaining + 1
            z == input.size
            x == Len(input.file) - windows.offset
<1>1. windows.remaining \in Nat /\ windows.offset \in Nat /\ windows.offset <= Len(input.file)
  BY DEF PipelineType
<1>2. z \in Nat /\ z > 0 /\ Len(input.file) \in Nat
  BY InputTyped
<1>3. r \in Int /\ r > 0 /\ z \in Int /\ x \in Int /\ x >= 0
  BY <1>1, <1>2
<1>4. Want = IF r <= z THEN r ELSE z
  <2>1. Want = Min({r, z})
    BY DEF Want
  <2>. HIDE DEF r, z
  <2>2. QED
    BY <1>3, <2>1, MinOfTwo
<1>5. Want \in Nat /\ Want > 0
  <2>. HIDE DEF r, z
  <2>1. QED
    BY <1>2, <1>3, <1>4
<1>6. Got = IF Want <= x THEN Want ELSE x
  <2>1. Got = Min({Want, x})
    BY DEF Got
  <2>. HIDE DEF x
  <2>2. QED
    BY <1>3, <1>5, <2>1, MinOfTwo
<1>7. QED
  BY <1>1, <1>2, <1>3, <1>5, <1>6

\* A read that succeeds cuts what lies in the buffer in two, at the end of a
\* line or at the end of the file.
LEMMA ReadIs ==
  ASSUME PipelineType, ~windows.done, Verdict # "failed", Read
  PROVE  LET window == IF Verdict = "window" THEN NextWindow ELSE <<>> IN
         /\ windows' \in [offset : Nat, remaining : Nat, carry : Seq(Token), done : BOOLEAN]
         /\ windows'.offset <= Len(input.file)
         /\ windows.offset <= windows'.offset
         /\ window \in Seq(Token)
         /\ After(window, windows'.carry) =
              After(windows.carry, Between(input.file, windows.offset, windows'.offset))
         /\ windows'.done => windows'.offset = Len(input.file) /\ windows'.carry = <<>>
         /\ EndsLine(window) \/ (windows'.done /\ windows'.carry = <<>>)
         /\ Verdict = "window" => window # <<>>
         /\ Verdict = "end" => windows'.done
<1>. DEFINE t      == input.file
            o      == windows.offset
            e      == o + Got
            window == IF Verdict = "window" THEN NextWindow ELSE <<>>
            last   == SelectLastInSeq(Buffer, LAMBDA token : token = "newline")
<1>1. t \in Seq(Token) /\ Len(t) \in Nat /\ o \in Nat /\ windows.remaining \in Nat
        /\ windows.carry \in Seq(Token)
  BY InputTyped DEF PipelineType
<1>2. Want \in Nat /\ Got \in Nat /\ Got <= Want /\ e <= Len(t) /\ (Got < Want => e = Len(t))
  BY WantGot
<1>3. e \in Nat /\ o <= e
  <2>. HIDE DEF o
  <2>1. QED
    BY <1>1, <1>2
<1>4. Between(t, o, e) \in Seq(Token)
  <2>. HIDE DEF e, o, t
  <2>1. QED
    BY <1>1, <1>2, <1>3, Pieces
<1>5. Buffer = After(windows.carry, Between(t, o, e)) /\ Buffer \in Seq(Token)
  <2>1. Buffer = After(windows.carry, Between(t, o, e))
    BY DEF Buffer, After, Between
  <2>. HIDE DEF e, o, t
  <2>2. QED
    BY <1>1, <1>4, <2>1, JoinedTexts
<1>6. /\ windows'.offset = e
      /\ windows'.carry = Between(Buffer, CutAt, Len(Buffer))
      /\ windows'.done \in BOOLEAN /\ (windows'.done <=> Got < Want)
      /\ windows'.remaining = Max({0, windows.remaining - Got})
      /\ windows' = [offset |-> windows'.offset, remaining |-> windows'.remaining,
                     carry |-> windows'.carry, done |-> windows'.done]
  <2>. DEFINE r == Max({0, windows.remaining - Got})
              c == Between(Buffer, CutAt, Len(Buffer))
              d == Got < Want
  <2>1. windows' = [offset |-> e, remaining |-> r, carry |-> c, done |-> d]
    BY DEF Read, Between
  <2>2. d \in BOOLEAN
    OBVIOUS
  <2>. HIDE DEF e, r, c, d
  <2>3. windows'.done \in BOOLEAN /\ (windows'.done <=> d)
    BY <2>1, <2>2, Zenon
  <2>4. /\ windows'.offset = e /\ windows'.carry = c /\ windows'.remaining = r
        /\ windows' = [offset |-> windows'.offset, remaining |-> windows'.remaining,
                       carry |-> windows'.carry, done |-> windows'.done]
    BY <2>1
  <2>5. QED
    BY <2>3, <2>4 DEF r, c, d
<1>7. windows'.remaining \in Nat
  <2>. DEFINE d == windows.remaining - Got
  <2>1. d \in Int /\ 0 \in Int
    BY <1>1, <1>2
  <2>2. windows'.remaining = Max({0, d})
    BY <1>6
  <2>. HIDE DEF d
  <2>3. Max({0, d}) = IF 0 <= d THEN d ELSE 0
    BY <2>1, MaxOfTwo
  <2>4. QED
    BY <2>1, <2>2, <2>3
<1>8. Len(Buffer) \in Nat /\ UpTo(Buffer, Len(Buffer)) = Buffer
  BY <1>5, SubSeqFull DEF UpTo
<1>9. last \in 0 .. Len(Buffer) /\ (last # 0 => Buffer[last] = "newline")
        /\ (Contains(Buffer, "newline") <=> last # 0)
  BY <1>5, LastNewline
<1>10. CutAt = (IF Got < Want THEN Len(Buffer) ELSE last) /\ NextWindow = UpTo(Buffer, CutAt)
  BY DEF CutAt, NextWindow, UpTo
<1>11. Verdict = IF Got = Want THEN (IF Contains(Buffer, "newline") THEN "window" ELSE "more")
                 ELSE IF Buffer = <<>> THEN "end" ELSE "window"
  BY DEF Verdict
<1>. HIDE DEF t, o, e, last
<1>12. CutAt \in Nat /\ CutAt <= Len(Buffer)
  BY <1>8, <1>9, <1>10
<1>13. /\ UpTo(Buffer, CutAt) \in Seq(Token) /\ Len(UpTo(Buffer, CutAt)) = CutAt
       /\ windows'.carry \in Seq(Token) /\ Len(windows'.carry) = Len(Buffer) - CutAt
       /\ After(UpTo(Buffer, CutAt), windows'.carry) = Buffer
       /\ (EndsLine(UpTo(Buffer, CutAt)) <=> CutAt = 0 \/ Buffer[CutAt] = "newline")
  <2>. DEFINE n == Len(Buffer)
  <2>1. n \in Nat /\ CutAt <= n /\ n <= Len(Buffer) /\ UpTo(Buffer, n) = Buffer
          /\ windows'.carry = Between(Buffer, CutAt, n)
    BY <1>6, <1>8, <1>12
  <2>. HIDE DEF n
  <2>2. /\ UpTo(Buffer, CutAt) \in Seq(Token) /\ Len(UpTo(Buffer, CutAt)) = CutAt
        /\ Between(Buffer, CutAt, n) \in Seq(Token) /\ Len(Between(Buffer, CutAt, n)) = n - CutAt
        /\ After(UpTo(Buffer, CutAt), Between(Buffer, CutAt, n)) = UpTo(Buffer, n)
        /\ (EndsLine(UpTo(Buffer, CutAt)) <=> CutAt = 0 \/ Buffer[CutAt] = "newline")
    BY <1>5, <1>12, <2>1, Pieces
  <2>3. QED
    BY <2>1, <2>2 DEF n
<1>14. window = UpTo(Buffer, CutAt)
  <2>1. CASE Verdict = "window"
    BY <1>10, <2>1
  <2>2. CASE Verdict # "window"
    <3>1. CutAt = 0
      <4>1. CASE Got = Want
        BY <1>2, <1>9, <1>10, <1>11, <2>2, <4>1
      <4>2. CASE Got # Want
        <5>1. Buffer = <<>> /\ CutAt = Len(Buffer)
          BY <1>2, <1>10, <1>11, <2>2, <4>2
        <5>2. QED
          BY <5>1
      <4>3. QED
        BY <4>1, <4>2
    <3>2. UpTo(Buffer, CutAt) = <<>>
      BY <1>13, <3>1
    <3>3. QED
      BY <2>2, <3>2
  <2>3. QED
    BY <2>1, <2>2
<1>15. windows'.done => windows'.carry = <<>>
  <2>1. windows'.done => Len(windows'.carry) = 0
    BY <1>6, <1>8, <1>10, <1>13
  <2>2. QED
    BY <1>13, <2>1
<1>16. EndsLine(window) \/ windows'.done
  BY <1>2, <1>6, <1>9, <1>10, <1>13, <1>14
<1>17. Verdict = "window" => window # <<>>
  <2>1. SUFFICES ASSUME Verdict = "window"
                 PROVE  CutAt # 0
    <3>1. UpTo(Buffer, CutAt) = <<>> => CutAt = 0
      BY <1>13
    <3>. HIDE DEF window
    <3>2. QED
      BY <1>14, <3>1
  <2>2. CASE Got = Want
    BY <1>2, <1>9, <1>10, <1>11, <2>1, <2>2
  <2>3. CASE Got # Want
    <3>1. Buffer # <<>> /\ CutAt = Len(Buffer)
      BY <1>2, <1>10, <1>11, <2>1, <2>3
    <3>2. Len(Buffer) # 0
      BY <1>5, <3>1
    <3>3. QED
      BY <3>1, <3>2
  <2>4. QED
    BY <2>2, <2>3
<1>18. Verdict = "end" => windows'.done
  BY <1>2, <1>6, <1>11
<1>19. windows' \in [offset : Nat, remaining : Nat, carry : Seq(Token), done : BOOLEAN]
  BY <1>3, <1>6, <1>7, <1>13
<1>20. windows'.done => windows'.offset = Len(t)
  BY <1>2, <1>6
<1>. HIDE DEF window
<1>21. window \in Seq(Token) /\ After(window, windows'.carry) = After(windows.carry, Between(t, o, windows'.offset))
  BY <1>5, <1>6, <1>13, <1>14
<1>22. windows'.offset <= Len(t) /\ o <= windows'.offset
  BY <1>2, <1>3, <1>6
<1>23. QED
  BY <1>15, <1>16, <1>17, <1>18, <1>19, <1>20, <1>21, <1>22 DEF t, o, window

-----------------------------------------------------------------------------
(* The steps of the pipeline keep the invariant *)

\* All that was read is text.
LEMMA PiecesTyped ==
  ASSUME PipelineType
  PROVE  /\ Hand \in Seq(Token) /\ Channel \in Seq(Token) /\ Sending \in Seq(Token)
         /\ windows.carry \in Seq(Token) /\ parsed \in Seq(Token) /\ text \in Seq(Token)
         /\ Unsent \in Seq(Token) /\ Unreceived \in Seq(Token) /\ Unparsed \in Seq(Token)
<1>1. /\ Hand \in Seq(Token) /\ Channel \in Seq(Token) /\ Sending \in Seq(Token)
      /\ windows.carry \in Seq(Token) /\ parsed \in Seq(Token) /\ text \in Seq(Token)
  <2>1. Hand \in Seq(Token)
    BY DEF PipelineType, Hand
  <2>2. Channel \in Seq(Token)
    BY DEF PipelineType, Channel, Message
  <2>3. Sending \in Seq(Token)
    BY DEF PipelineType, Sending, Message
  <2>4. windows.carry \in Seq(Token) /\ parsed \in Seq(Token) /\ text \in Seq(Token)
    BY DEF PipelineType
  <2>5. QED
    BY <2>1, <2>2, <2>3, <2>4
<1>2. Unsent \in Seq(Token)
  BY <1>1, JoinedTexts DEF Unsent
<1>3. Unreceived \in Seq(Token)
  BY <1>1, <1>2, JoinedTexts DEF Unreceived
<1>4. Unparsed \in Seq(Token)
  BY <1>1, <1>3, JoinedTexts DEF Unparsed
<1>5. QED
  BY <1>1, <1>2, <1>3, <1>4

\* A step that moves none of the text.
LEMMA NothingMoves ==
  ASSUME NothingLost,
         UNCHANGED <<input, windows, parsed, sink, failed>>,
         Hand' = Hand, Channel' = Channel, Sending' = Sending,
         Flowing' => Flowing,
         Flowing' /\ Parallel /\ readerPc' = "exit" =>
           windows.done \/ (full' # <<>> /\ full'[1].failed)
  PROVE  NothingLost'
<1>1. Unsent' = Unsent
  BY DEF Unsent
<1>2. Unreceived' = Unreceived
  BY <1>1 DEF Unreceived
<1>3. Unparsed' = Unparsed
  BY <1>2 DEF Unparsed
<1>4. Parallel' = Parallel
  BY DEF Parallel
<1>5. SUFFICES ASSUME Flowing'
               PROVE  NothingLost'
  BY DEF NothingLost
<1>6. /\ After(parsed, Unparsed) = UpTo(input.file, windows.offset)
      /\ Ended(parsed, Unparsed)
      /\ Ended(Hand, Unreceived)
      /\ Ended(Channel, Unsent)
      /\ Ended(Sending, windows.carry)
      /\ ~failed
      /\ sink.error = NoError
  BY <1>5 DEF NothingLost
<1>7. /\ After(parsed', Unparsed') = UpTo(input'.file, windows'.offset)
      /\ Ended(parsed, Unparsed)' /\ Ended(Hand, Unreceived)' /\ Ended(Channel, Unsent)'
      /\ Ended(Sending, windows.carry)'
      /\ ~failed' /\ sink'.error = NoError
  BY <1>1, <1>2, <1>3, <1>6 DEF Ended
<1>8. Parallel' /\ readerPc' = "exit" => windows'.done \/ (full' # <<>> /\ full'[1].failed)
  BY <1>4, <1>5
<1>9. QED
  BY <1>7, <1>8 DEF NothingLost

\* The step changes nothing the result depends on.
LEMMA ResultStays ==
  ASSUME UNCHANGED <<input, parsed, sink, failed, firstLine>>
  PROVE  /\ SinkIsSerial => SinkIsSerial'
         /\ EndedRightly /\ (Flowing => Flowing') => EndedRightly'
<1>1. SinkIsSerial => SinkIsSerial'
  BY DEF SinkIsSerial
<1>2. EndedRightly /\ (Flowing => Flowing') => EndedRightly'
  BY DEF EndedRightly
<1>3. QED
  BY <1>1, <1>2

\* The reader takes a buffer, or leaves after the caller has.
LEMMA RecvEmptyStep ==
  ASSUME PipelineInvariant, RecvEmpty
  PROVE  PipelineInvariant'
<1>1. /\ UNCHANGED <<input, windows, filled, full, receiving, returning, callerPc>>
      /\ UNCHANGED <<text, firstLine, sink, failed, parsed>>
      /\ readerPc = "recv" /\ readerPc' \in {"fill", "exit"}
      /\ readerPc' = "exit" => ~returning
  BY DEF RecvEmpty, parseVars
<1>2. PipelineType'
  BY <1>1 DEF PipelineInvariant, PipelineType
<1>3. Parallel' = Parallel /\ Flowing' = Flowing
  BY <1>1 DEF Parallel, Flowing
<1>4. SidesAgree'
  BY <1>1, <1>3 DEF PipelineInvariant, SidesAgree
<1>5. MessagesMeant'
  BY <1>1 DEF PipelineInvariant, MessagesMeant, Meant, CannotRead
<1>6. DoneAtEnd'
  BY <1>1 DEF PipelineInvariant, DoneAtEnd
<1>7. NothingLost'
  <2>1. Hand' = Hand /\ Channel' = Channel /\ Sending' = Sending
    BY <1>1 DEF Hand, Channel, Sending
  <2>2. Flowing' /\ Parallel => readerPc' # "exit"
    BY <1>1, <1>3 DEF PipelineInvariant, SidesAgree
  <2>3. QED
    BY <1>1, <1>3, <2>1, <2>2, NothingMoves DEF PipelineInvariant
<1>8. SinkIsSerial' /\ EndedRightly'
  BY <1>1, <1>3, ResultStays DEF PipelineInvariant
<1>9. QED
  BY <1>2, <1>4, <1>5, <1>6, <1>7, <1>8 DEF PipelineInvariant

\* A window or a failure crosses, or the reader leaves after the caller has.
LEMMA SendStep ==
  ASSUME PipelineInvariant, Send
  PROVE  PipelineInvariant'
<1>1. /\ UNCHANGED <<input, windows, filled, receiving, returning, callerPc>>
      /\ UNCHANGED <<text, firstLine, sink, failed, parsed>>
      /\ readerPc = "send"
      /\ \/ /\ receiving /\ full = <<>> /\ full' = <<filled>>
            /\ readerPc' = IF filled.failed THEN "exit" ELSE "recv"
         \/ ~receiving /\ readerPc' = "exit" /\ full' = full
  BY DEF Send, parseVars
<1>2. full' = full \/ (full' # <<>> /\ full'[1] = filled)
  BY <1>1
<1>3. PipelineType'
  <2>1. filled \in Message
    BY <1>1 DEF PipelineInvariant, PipelineType
  <2>2. full' # <<>> => full'[1] \in Message
    BY <1>2, <2>1 DEF PipelineInvariant, PipelineType
  <2>3. readerPc' \in {"recv", "exit"}
    BY <1>1
  <2>4. QED
    BY <1>1, <2>2, <2>3 DEF PipelineInvariant, PipelineType
<1>4. Parallel' = Parallel /\ Flowing' = Flowing /\ Parallel
  BY <1>1 DEF Parallel, Flowing, PipelineInvariant, SidesAgree
<1>5. SidesAgree'
  BY <1>1, <1>4 DEF PipelineInvariant, SidesAgree
<1>6. MessagesMeant'
  <2>1. Meant(filled)
    BY <1>1 DEF PipelineInvariant, MessagesMeant
  <2>2. full' # <<>> => Meant(full'[1])
    BY <1>2, <2>1 DEF PipelineInvariant, MessagesMeant
  <2>3. readerPc' # "send"
    BY <1>1
  <2>4. CannotRead' = CannotRead
    BY <1>1 DEF CannotRead
  <2>5. full' # <<>> => Meant(full[1])'
    BY <2>2, <2>4 DEF Meant
  <2>6. QED
    BY <1>1, <2>3, <2>4, <2>5 DEF PipelineInvariant, MessagesMeant
<1>7. DoneAtEnd'
  BY <1>1 DEF PipelineInvariant, DoneAtEnd
<1>8. NothingLost'
  <2>1. SUFFICES ASSUME Flowing
                 PROVE  NothingLost'
    BY <1>4 DEF NothingLost
  <2>2. full = <<>> /\ full' = <<filled>> /\ (readerPc' = "exit" => filled.failed)
    BY <1>1, <1>4, <2>1 DEF PipelineInvariant, SidesAgree
  <2>3. /\ After(parsed, Unparsed) = UpTo(input.file, windows.offset)
        /\ Ended(parsed, Unparsed) /\ Ended(Hand, Unreceived)
        /\ Ended(Sending, windows.carry) /\ ~failed /\ sink.error = NoError
    BY <2>1 DEF PipelineInvariant, NothingLost
  <2>4. Channel = <<>> /\ Channel' = Sending /\ Sending' = <<>> /\ Hand' = Hand
          /\ windows' = windows
    BY <1>1, <2>2 DEF Channel, Sending, Hand
  <2>5. Sending \in Seq(Token) /\ windows.carry \in Seq(Token) /\ Unsent \in Seq(Token)
          /\ <<>> \in Seq(Token)
    BY PiecesTyped DEF PipelineInvariant
  <2>6. Unsent' = windows.carry
    BY <2>4, <2>5, JoinedTexts DEF Unsent
  <2>7. Unreceived' = Unsent /\ Unreceived = Unsent
    BY <2>4, <2>5, <2>6, JoinedTexts DEF Unreceived, Unsent
  <2>8. Unparsed' = Unparsed
    BY <2>4, <2>7 DEF Unparsed
  <2>9. Ended(parsed, Unparsed)' /\ Ended(Hand, Unreceived)'
    BY <1>1, <2>3, <2>4, <2>7, <2>8 DEF Ended
  <2>10. Ended(Channel, Unsent)'
    BY <1>1, <2>3, <2>4, <2>6 DEF Ended
  <2>11. Ended(Sending, windows.carry)'
    BY <2>4 DEF Ended, EndsLine
  <2>12. readerPc' = "exit" => full' # <<>> /\ full'[1].failed
    BY <2>2
  <2>13. QED
    BY <1>1, <2>3, <2>8, <2>9, <2>10, <2>11, <2>12 DEF NothingLost
<1>9. SinkIsSerial' /\ EndedRightly'
  BY <1>1, <1>4, ResultStays DEF PipelineInvariant
<1>10. QED
  BY <1>3, <1>5, <1>6, <1>7, <1>8, <1>9 DEF PipelineInvariant

\* What a turn of either reader reads, and what becomes of it.
LEMMA TurnIs ==
  ASSUME PipelineType, DoneAtEnd,
         IF windows.done \/ Verdict = "failed" THEN UNCHANGED windows ELSE Read
  PROVE  LET window == IF Verdict = "window" THEN NextWindow ELSE <<>> IN
         /\ windows' \in [offset : Nat, remaining : Nat, carry : Seq(Token), done : BOOLEAN]
         /\ windows'.offset <= Len(input.file) /\ windows.offset <= windows'.offset
         /\ window \in Seq(Token)
         /\ After(window, windows'.carry) =
              After(windows.carry, Between(input.file, windows.offset, windows'.offset))
         /\ windows'.done => windows'.offset = Len(input.file) /\ windows'.carry = <<>>
         /\ EndsLine(window) \/ (windows'.done /\ windows'.carry = <<>>)
         /\ Verdict = "window" <=> window # <<>>
         /\ Verdict = "end" => windows'.done
         /\ windows.done => windows' = windows /\ Verdict = "end"
         /\ Verdict = "failed" => CannotRead
         /\ Verdict \in {"end", "failed", "window", "more"}
<1>. DEFINE window == IF Verdict = "window" THEN NextWindow ELSE <<>>
<1>1. Verdict \in {"end", "failed", "window", "more"} /\ (windows.done => Verdict = "end")
        /\ (Verdict = "failed" => CannotRead)
  BY DEF Verdict, Fails, CannotRead
<1>2. CASE windows.done \/ Verdict = "failed"
  <2>1. windows' = windows /\ window = <<>> /\ Verdict # "window"
    BY <1>1, <1>2
  <2>2. windows \in [offset : Nat, remaining : Nat, carry : Seq(Token), done : BOOLEAN]
          /\ windows.offset <= Len(input.file) /\ windows.offset \in Nat
          /\ windows.carry \in Seq(Token)
    BY DEF PipelineType
  <2>3. Between(input.file, windows.offset, windows.offset) = <<>>
    <3>. DEFINE o == windows.offset
                s == SubSeq(input.file, o + 1, o)
    <3>1. o \in Int /\ o + 1 \in Int /\ o < o + 1
      BY <2>2
    <3>. HIDE DEF o
    <3>2. s = <<>>
      BY <3>1, SubSeqEmpty
    <3>3. QED
      BY <3>2 DEF Between, o
  <2>4. After(<<>>, windows.carry) = windows.carry /\ After(windows.carry, <<>>) = windows.carry
    BY <2>2, AfterNothing
  <2>5. EndsLine(<<>>) /\ <<>> \in Seq(Token)
    BY DEF EndsLine
  <2>6. Verdict = "end" => windows.done
    BY <1>1, <1>2
  <2>. HIDE DEF window
  <2>7. QED
    BY <1>1, <2>1, <2>2, <2>3, <2>4, <2>5, <2>6 DEF DoneAtEnd, window
<1>3. CASE ~(windows.done \/ Verdict = "failed")
  <2>1. Verdict # "window" => window = <<>>
    OBVIOUS
  <2>2. /\ windows' \in [offset : Nat, remaining : Nat, carry : Seq(Token), done : BOOLEAN]
        /\ windows'.offset <= Len(input.file)
        /\ windows.offset <= windows'.offset
        /\ window \in Seq(Token)
        /\ After(window, windows'.carry) =
             After(windows.carry, Between(input.file, windows.offset, windows'.offset))
        /\ windows'.done => windows'.offset = Len(input.file) /\ windows'.carry = <<>>
        /\ EndsLine(window) \/ (windows'.done /\ windows'.carry = <<>>)
        /\ Verdict = "window" => window # <<>>
        /\ Verdict = "end" => windows'.done
    BY <1>3, ReadIs
  <2>. HIDE DEF window
  <2>3. QED
    BY <1>1, <1>3, <2>1, <2>2 DEF window
<1>4. QED
  BY <1>2, <1>3

\* What is read comes after all that was read before.
LEMMA ReadComesLast ==
  ASSUME NEW p \in Seq(Token), NEW h \in Seq(Token), NEW c \in Seq(Token),
         NEW r \in Seq(Token), NEW b \in Seq(Token)
  PROVE  After(p, After(h, After(c, After(r, b)))) = After(After(p, After(h, After(c, r))), b)
<1>1. After(c, r) \in Seq(Token) /\ After(h, After(c, r)) \in Seq(Token)
  BY JoinedTexts
<1>2. After(c, After(r, b)) = After(After(c, r), b)
  BY AfterAfter
<1>3. After(h, After(After(c, r), b)) = After(After(h, After(c, r)), b)
  BY <1>1, AfterAfter
<1>4. After(p, After(After(h, After(c, r)), b)) = After(After(p, After(h, After(c, r))), b)
  BY <1>1, AfterAfter
<1>5. QED
  BY <1>2, <1>3, <1>4

\* What the reader reads comes after all that was read before.
LEMMA FillStep ==
  ASSUME PipelineInvariant, Fill
  PROVE  PipelineInvariant'
<1>. DEFINE window == IF Verdict = "window" THEN NextWindow ELSE <<>>
            t      == input.file
<1>0. PipelineType /\ DoneAtEnd
  BY DEF PipelineInvariant
<1>1. /\ UNCHANGED <<input, full, empty, receiving, returning, callerPc>>
      /\ UNCHANGED <<text, firstLine, sink, failed, parsed>>
      /\ readerPc = "fill"
      /\ IF windows.done \/ Verdict = "failed" THEN UNCHANGED windows ELSE Read
      /\ filled' = [window |-> window, failed |-> Verdict = "failed"]
      /\ readerPc' = CASE Verdict = "more" -> "fill"
                       [] Verdict = "end"  -> "exit"
                       [] OTHER            -> "send"
  BY DEF Fill, parseVars, channels
<1>2. /\ windows' \in [offset : Nat, remaining : Nat, carry : Seq(Token), done : BOOLEAN]
      /\ windows'.offset <= Len(t) /\ windows.offset <= windows'.offset
      /\ window \in Seq(Token)
      /\ After(window, windows'.carry) =
           After(windows.carry, Between(t, windows.offset, windows'.offset))
      /\ windows'.done => windows'.offset = Len(t) /\ windows'.carry = <<>>
      /\ EndsLine(window) \/ (windows'.done /\ windows'.carry = <<>>)
      /\ Verdict = "window" <=> window # <<>>
      /\ Verdict = "end" => windows'.done
      /\ windows.done => windows' = windows /\ Verdict = "end"
      /\ Verdict = "failed" => CannotRead
      /\ Verdict \in {"end", "failed", "window", "more"}
  BY <1>0, <1>1, TurnIs
<1>. HIDE DEF window, t
<1>3. /\ filled'.window = window /\ filled' \in Message
      /\ filled'.failed <=> Verdict = "failed"
  <2>. DEFINE bad == Verdict = "failed"
  <2>1. bad \in BOOLEAN
    OBVIOUS
  <2>. HIDE DEF bad
  <2>2. filled' = [window |-> window, failed |-> bad]
    BY <1>1 DEF bad
  <2>3. filled'.window = window /\ filled' \in Message
    BY <1>2, <2>1, <2>2 DEF Message
  <2>4. filled'.failed <=> bad
    BY <2>2, Zenon
  <2>5. QED
    BY <2>3, <2>4 DEF bad
<1>4. /\ Verdict = "more" => readerPc' = "fill"
      /\ Verdict = "end" => readerPc' = "exit"
      /\ Verdict \in {"failed", "window"} => readerPc' = "send"
  BY <1>1
<1>5. PipelineType'
  <2>1. readerPc' \in {"recv", "fill", "send", "exit"}
    BY <1>2, <1>4
  <2>2. windows'.offset <= Len(input'.file)
    BY <1>1, <1>2 DEF t
  <2>3. QED
    BY <1>0, <1>1, <1>2, <1>3, <2>1, <2>2 DEF PipelineType
<1>6. Parallel' = Parallel /\ Flowing' = Flowing /\ Parallel
  BY <1>1 DEF Parallel, Flowing, PipelineInvariant, SidesAgree
<1>7. SidesAgree'
  BY <1>1, <1>6 DEF PipelineInvariant, SidesAgree
<1>8. CannotRead' = CannotRead
  BY <1>1 DEF CannotRead
<1>9. MessagesMeant'
  <2>1. readerPc' = "send" => Meant(filled)'
    <3>1. readerPc' = "send" => Verdict \in {"failed", "window"}
      BY <1>2, <1>4
    <3>2. Verdict = "failed" => Meant(filled)'
      BY <1>2, <1>3, <1>8 DEF Meant
    <3>3. Verdict = "window" => Meant(filled)'
      BY <1>2, <1>3, <1>8 DEF Meant
    <3>4. QED
      BY <3>1, <3>2, <3>3
  <2>2. full' # <<>> => Meant(full[1])'
    BY <1>1, <1>8 DEF PipelineInvariant, MessagesMeant, Meant
  <2>3. QED
    BY <1>1, <1>8, <2>1, <2>2 DEF PipelineInvariant, MessagesMeant
<1>10. DoneAtEnd'
  BY <1>1, <1>2 DEF DoneAtEnd, t
<1>11. NothingLost'
  <2>1. SUFFICES ASSUME Flowing
                 PROVE  NothingLost'
    BY <1>6 DEF NothingLost
  <2>2. /\ After(parsed, Unparsed) = UpTo(t, windows.offset)
        /\ Ended(parsed, Unparsed) /\ Ended(Hand, Unreceived) /\ Ended(Channel, Unsent)
        /\ ~failed /\ sink.error = NoError
    BY <2>1 DEF PipelineInvariant, NothingLost, t
  <2>3. Sending = <<>> /\ Hand' = Hand /\ Channel' = Channel
    BY <1>1 DEF Sending, Hand, Channel
  <2>4. Sending' = window
    <3>1. readerPc' # "send" => window = <<>>
      BY <1>2, <1>4
    <3>2. QED
      BY <1>3, <3>1 DEF Sending
  <2>5. Hand \in Seq(Token) /\ Channel \in Seq(Token) /\ windows.carry \in Seq(Token)
          /\ parsed \in Seq(Token)
    BY <1>0, PiecesTyped
  <2>. DEFINE b == Between(t, windows.offset, windows'.offset)
  <2>6. b \in Seq(Token) /\ After(UpTo(t, windows.offset), b) = UpTo(t, windows'.offset)
    <3>. DEFINE o == windows.offset
                e == windows'.offset
    <3>1. t \in Seq(Token) /\ o \in Nat /\ e \in Nat /\ o <= e /\ e <= Len(t)
      BY <1>0, <1>2, InputTyped DEF PipelineType, t
    <3>. HIDE DEF o, e
    <3>2. Between(t, o, e) \in Seq(Token) /\ After(UpTo(t, o), Between(t, o, e)) = UpTo(t, e)
      BY <3>1, Pieces
    <3>3. QED
      BY <3>2 DEF o, e
  <2>. HIDE DEF b
  <2>7. Unsent = windows.carry
    BY <2>3, <2>5, EmptySeq, JoinedTexts DEF Unsent
  <2>8. Unsent' = After(Unsent, b)
    BY <1>2, <2>4, <2>7 DEF Unsent, b
  <2>9. Unparsed = After(Hand, After(Channel, windows.carry))
          /\ Unparsed' = After(Hand, After(Channel, After(windows.carry, b)))
    BY <2>3, <2>7, <2>8 DEF Unparsed, Unreceived
  <2>10. After(parsed, Unparsed') = UpTo(t, windows'.offset)
    BY <2>2, <2>5, <2>6, <2>9, ReadComesLast, SMTT(60)
  <2>11. windows.done => windows'.done /\ Unsent' = Unsent /\ Unreceived' = Unreceived
                           /\ Unparsed' = Unparsed
    <3>1. SUFFICES ASSUME windows.done
                   PROVE  windows' = windows /\ Unsent' = Unsent
      BY <2>3 DEF Unreceived, Unparsed
    <3>2. windows' = windows /\ Sending' = <<>>
      BY <1>2, <2>4, <3>1
    <3>3. QED
      BY <2>3, <3>2 DEF Unsent
  <2>12. Ended(parsed, Unparsed)' /\ Ended(Hand, Unreceived)' /\ Ended(Channel, Unsent)'
    BY <1>1, <2>2, <2>3, <2>11 DEF Ended
  <2>13. Ended(Sending, windows.carry)'
    BY <1>2, <2>4 DEF Ended
  <2>14. readerPc' = "exit" => windows'.done
    BY <1>2, <1>4
  <2>15. After(parsed', Unparsed') = UpTo(input'.file, windows'.offset)
    BY <1>1, <2>10 DEF t
  <2>16. QED
    BY <1>1, <2>2, <2>12, <2>13, <2>14, <2>15 DEF NothingLost
<1>12. SinkIsSerial' /\ EndedRightly'
  BY <1>1, <1>6, ResultStays DEF PipelineInvariant
<1>13. QED
  BY <1>5, <1>7, <1>9, <1>10, <1>11, <1>12 DEF PipelineInvariant

\* On one thread the caller reads, and parses what it read next.
LEMMA FillSeriallyStep ==
  ASSUME PipelineInvariant, FillSerially
  PROVE  PipelineInvariant'
<1>. DEFINE window == IF Verdict = "window" THEN NextWindow ELSE <<>>
            t      == input.file
<1>0. PipelineType /\ DoneAtEnd /\ SidesAgree
  BY DEF PipelineInvariant
<1>1. /\ UNCHANGED <<input, readerPc, filled, full, empty, receiving, returning>>
      /\ UNCHANGED <<firstLine, sink, parsed>>
      /\ callerPc = "fill"
      /\ IF windows.done \/ Verdict = "failed" THEN UNCHANGED windows ELSE Read
      /\ text' = window
      /\ failed' = (Verdict = "failed")
      /\ callerPc' = CASE Verdict = "more"   -> "fill"
                       [] Verdict = "window" -> "parse"
                       [] OTHER              -> "returned"
  BY DEF FillSerially, channels
<1>2. /\ windows' \in [offset : Nat, remaining : Nat, carry : Seq(Token), done : BOOLEAN]
      /\ windows'.offset <= Len(t) /\ windows.offset <= windows'.offset
      /\ window \in Seq(Token)
      /\ After(window, windows'.carry) =
           After(windows.carry, Between(t, windows.offset, windows'.offset))
      /\ windows'.done => windows'.offset = Len(t) /\ windows'.carry = <<>>
      /\ EndsLine(window) \/ (windows'.done /\ windows'.carry = <<>>)
      /\ Verdict = "window" <=> window # <<>>
      /\ Verdict = "end" => windows'.done
      /\ windows.done => windows' = windows /\ Verdict = "end"
      /\ Verdict = "failed" => CannotRead
      /\ Verdict \in {"end", "failed", "window", "more"}
  BY <1>0, <1>1, TurnIs
<1>. HIDE DEF window, t
<1>3. failed' \in BOOLEAN /\ (failed' <=> Verdict = "failed")
  <2>. DEFINE bad == Verdict = "failed"
  <2>1. bad \in BOOLEAN /\ failed' = bad
    BY <1>1
  <2>. HIDE DEF bad
  <2>2. failed' \in BOOLEAN /\ (failed' <=> bad)
    BY <2>1, Zenon
  <2>3. QED
    BY <2>2 DEF bad
<1>4. /\ Verdict = "more" => callerPc' = "fill"
      /\ Verdict = "window" => callerPc' = "parse"
      /\ Verdict \in {"failed", "end"} => callerPc' = "returned"
  BY <1>1
<1>5. ~Parallel /\ Parallel' = Parallel /\ full = <<>> /\ readerPc = "exit"
  BY <1>0, <1>1 DEF SidesAgree, Parallel
<1>6. PipelineType'
  <2>1. callerPc' \in {"fill", "parse", "returned"}
    BY <1>2, <1>4
  <2>2. windows'.offset <= Len(input'.file)
    BY <1>1, <1>2 DEF t
  <2>3. full' = <<>> /\ readerPc' = "exit"
    BY <1>1, <1>5
  <2>4. text' \in Seq(Token)
    BY <1>1, <1>2
  <2>5. QED
    BY <1>0, <1>1, <1>2, <1>3, <2>1, <2>2, <2>3, <2>4 DEF PipelineType
<1>7. SidesAgree'
  <2>1. callerPc' \in {"fill", "parse", "returned"}
    BY <1>2, <1>4
  <2>2. QED
    BY <1>1, <1>5, <2>1 DEF SidesAgree
<1>8. CannotRead' = CannotRead
  BY <1>1 DEF CannotRead
<1>9. MessagesMeant'
  <2>1. readerPc' # "send" /\ full' = <<>>
    BY <1>1, <1>5
  <2>2. callerPc' = "parse" => text' # <<>>
    BY <1>1, <1>2, <1>4
  <2>3. QED
    BY <1>2, <1>3, <1>8, <2>1, <2>2 DEF MessagesMeant
<1>10. DoneAtEnd'
  BY <1>1, <1>2 DEF DoneAtEnd, t
<1>11. /\ After(parsed, Unparsed) = UpTo(t, windows.offset)
       /\ Ended(parsed, Unparsed)
       /\ ~failed /\ sink.error = NoError
  <2>1. Flowing
    BY <1>1 DEF Flowing
  <2>2. QED
    BY <2>1 DEF PipelineInvariant, NothingLost, t
<1>12. windows.carry \in Seq(Token) /\ windows'.carry \in Seq(Token) /\ parsed \in Seq(Token)
         /\ <<>> \in Seq(Token)
  BY <1>0, <1>2, PiecesTyped, EmptySeq
<1>13. Unparsed = windows.carry
  <2>1. Hand = <<>> /\ Channel = <<>> /\ Sending = <<>>
    BY <1>1, <1>5 DEF Hand, Channel, Sending
  <2>2. QED
    BY <1>12, <2>1, AfterNothing DEF Unparsed, Unreceived, Unsent
<1>14. Hand' = window /\ Unsent' = windows'.carry /\ Unreceived' = windows'.carry
         /\ Channel' = <<>> /\ Sending' = <<>>
  <2>1. callerPc' # "parse" => window = <<>>
    BY <1>2, <1>4
  <2>2. Hand' = window /\ Channel' = <<>> /\ Sending' = <<>>
    BY <1>1, <1>5, <2>1 DEF Hand, Channel, Sending
  <2>3. QED
    BY <1>12, <2>2, AfterNothing DEF Unreceived, Unsent
<1>15. After(parsed, Unparsed') = UpTo(t, windows'.offset)
  <2>. DEFINE o == windows.offset
              e == windows'.offset
              b == Between(t, o, e)
  <2>1. t \in Seq(Token) /\ o \in Nat /\ e \in Nat /\ o <= e /\ e <= Len(t)
    BY <1>0, <1>2, InputTyped DEF PipelineType, t
  <2>2. Unparsed' = After(windows.carry, b)
    BY <1>2, <1>14 DEF Unparsed
  <2>. HIDE DEF o, e
  <2>3. b \in Seq(Token) /\ After(UpTo(t, o), b) = UpTo(t, e)
    BY <2>1, Pieces
  <2>. HIDE DEF b
  <2>4. After(parsed, After(windows.carry, b)) = After(After(parsed, windows.carry), b)
    BY <1>12, <2>3, AfterAfter
  <2>5. QED
    BY <1>11, <1>13, <2>2, <2>3, <2>4 DEF o, e
<1>16. NothingLost'
  <2>1. SUFFICES ASSUME Flowing'
                 PROVE  NothingLost'
    BY DEF NothingLost
  <2>2. Verdict \in {"more", "window"}
    BY <1>2, <1>4, <2>1 DEF Flowing
  <2>3. EndsLine(parsed)
    BY <1>2, <1>11, <2>2 DEF Ended
  <2>4. Ended(parsed, Unparsed)'
    BY <1>1, <2>3 DEF Ended
  <2>5. Ended(Hand, Unreceived)'
    BY <1>2, <1>14 DEF Ended
  <2>6. Ended(Channel, Unsent)' /\ Ended(Sending, windows.carry)'
    BY <1>14 DEF Ended, EndsLine
  <2>7. ~failed' /\ sink'.error = NoError /\ ~Parallel'
    BY <1>1, <1>3, <1>5, <1>11, <2>2
  <2>8. After(parsed', Unparsed') = UpTo(input'.file, windows'.offset)
    BY <1>1, <1>15 DEF t
  <2>9. QED
    BY <2>4, <2>5, <2>6, <2>7, <2>8 DEF NothingLost
<1>17. SinkIsSerial'
  BY <1>1 DEF PipelineInvariant, SinkIsSerial
<1>18. EndedRightly'
  <2>1. SUFFICES ASSUME ~Flowing'
                 PROVE  EndedRightly'
    BY DEF EndedRightly
  <2>2. Verdict \in {"failed", "end"}
    BY <1>2, <1>4, <2>1 DEF Flowing
  <2>3. CASE Verdict = "failed"
    <3>1. failed' /\ sink'.error = NoError
      BY <1>1, <1>3, <1>11, <2>3
    <3>2. QED
      BY <3>1 DEF EndedRightly
  <2>4. CASE Verdict = "end"
    <3>1. windows'.carry = <<>> /\ windows'.offset = Len(t) /\ window = <<>>
      BY <1>2, <2>4
    <3>2. Unparsed' = <<>>
      BY <1>12, <1>14, <3>1, AfterNothing DEF Unparsed
    <3>3. After(parsed, <<>>) = parsed /\ UpTo(t, Len(t)) = t
      <4>1. t \in Seq(Token)
        BY <1>0, InputTyped DEF t
      <4>2. QED
        BY <1>12, <4>1, AfterNothing, SubSeqFull DEF UpTo
    <3>4. parsed' = input'.file /\ ~failed'
      BY <1>1, <1>3, <1>15, <2>4, <3>1, <3>2, <3>3 DEF t
    <3>5. QED
      BY <3>4 DEF EndedRightly
  <2>5. QED
    BY <2>2, <2>3, <2>4
<1>19. QED
  BY <1>6, <1>7, <1>9, <1>10, <1>16, <1>17, <1>18 DEF PipelineInvariant

\* The caller takes a window, or ends the parse: on a failed read, or when the
\* reader has left and nothing is in the channel.
LEMMA RecvFullStep ==
  ASSUME PipelineInvariant, RecvFull
  PROVE  PipelineInvariant'
<1>0. PipelineType /\ DoneAtEnd /\ SidesAgree /\ MessagesMeant
  BY DEF PipelineInvariant
<1>1. /\ UNCHANGED <<input, windows, readerPc, filled, empty, receiving, returning>>
      /\ UNCHANGED <<firstLine, sink, parsed>>
      /\ callerPc = "recv"
      /\ \/ /\ full # <<>> /\ full' = <<>> /\ text' = full[1].window
            /\ failed' = full[1].failed
            /\ callerPc' = IF failed' THEN "leave" ELSE "parse"
         \/ /\ full = <<>> /\ readerPc = "exit" /\ callerPc' = "leave"
            /\ UNCHANGED <<full, text, failed>>
  BY DEF RecvFull, readerVars
<1>2. Flowing /\ Parallel /\ Parallel' = Parallel
  BY <1>0, <1>1 DEF Flowing, SidesAgree, Parallel
<1>3. /\ After(parsed, Unparsed) = UpTo(input.file, windows.offset)
      /\ Ended(parsed, Unparsed) /\ Ended(Hand, Unreceived) /\ Ended(Channel, Unsent)
      /\ Ended(Sending, windows.carry)
      /\ ~failed /\ sink.error = NoError
      /\ readerPc = "exit" => windows.done \/ (full # <<>> /\ full[1].failed)
  BY <1>2 DEF PipelineInvariant, NothingLost
<1>4. full # <<>> => full[1].window \in Seq(Token) /\ full[1].failed \in BOOLEAN /\ Meant(full[1])
  BY <1>0 DEF PipelineType, Message, MessagesMeant
<1>5. PipelineType'
  BY <1>0, <1>1, <1>4 DEF PipelineType
<1>6. SidesAgree'
  BY <1>0, <1>1, <1>2 DEF SidesAgree, Flowing
<1>7. CannotRead' = CannotRead
  BY <1>1 DEF CannotRead
<1>8. MessagesMeant'
  <2>1. full' = <<>>
    BY <1>1
  <2>2. readerPc' = "send" => Meant(filled)'
    BY <1>0, <1>1, <1>7 DEF MessagesMeant, Meant
  <2>3. callerPc' = "parse" => text' # <<>>
    BY <1>1, <1>4 DEF Meant
  <2>4. failed' => CannotRead
    BY <1>1, <1>3, <1>4 DEF Meant
  <2>5. QED
    BY <1>7, <2>1, <2>2, <2>3, <2>4 DEF MessagesMeant
<1>9. DoneAtEnd'
  BY <1>0, <1>1 DEF DoneAtEnd
<1>10. Hand = <<>> /\ Sending' = Sending /\ Unsent' = Unsent
  BY <1>1 DEF Hand, Sending, Unsent
<1>11. Channel \in Seq(Token) /\ Unsent \in Seq(Token) /\ Unreceived \in Seq(Token)
         /\ windows.carry \in Seq(Token) /\ parsed \in Seq(Token)
  BY <1>0, PiecesTyped
<1>12. Unparsed = Unreceived
  BY <1>10, <1>11, AfterNothing DEF Unparsed
<1>13. NothingLost'
  <2>1. SUFFICES ASSUME Flowing'
                 PROVE  NothingLost'
    BY DEF NothingLost
  <2>2. full # <<>> /\ full' = <<>> /\ text' = full[1].window /\ ~full[1].failed /\ ~failed'
          /\ callerPc' = "parse"
    BY <1>1, <2>1 DEF Flowing
  <2>3. Hand' = Channel /\ Channel' = <<>>
    BY <2>2 DEF Hand, Channel
  <2>4. Unreceived' = Unsent
    BY <1>10, <1>11, <2>3, AfterNothing DEF Unreceived
  <2>5. Unparsed' = Unparsed
    BY <1>12, <2>3, <2>4 DEF Unparsed, Unreceived
  <2>6. Ended(parsed, Unparsed)' /\ Ended(Hand, Unreceived)' /\ Ended(Sending, windows.carry)'
    BY <1>1, <1>3, <1>10, <2>3, <2>4, <2>5 DEF Ended
  <2>7. Ended(Channel, Unsent)'
    BY <2>3 DEF Ended, EndsLine
  <2>8. readerPc' = "exit" => windows'.done
    BY <1>1, <1>3, <2>2
  <2>9. QED
    BY <1>1, <1>3, <2>2, <2>5, <2>6, <2>7, <2>8 DEF NothingLost
<1>14. SinkIsSerial'
  BY <1>1 DEF PipelineInvariant, SinkIsSerial
<1>15. EndedRightly'
  <2>1. SUFFICES ASSUME ~Flowing'
                 PROVE  EndedRightly'
    BY DEF EndedRightly
  <2>2. CASE full # <<>>
    <3>1. failed'
      BY <1>1, <2>1, <2>2 DEF Flowing
    <3>2. QED
      BY <1>1, <1>3, <3>1 DEF EndedRightly
  <2>3. CASE full = <<>>
    <3>1. readerPc = "exit" /\ ~failed'
      BY <1>1, <1>3, <2>3
    <3>2. windows.offset = Len(input.file) /\ windows.carry = <<>>
      BY <1>0, <1>3, <2>3, <3>1 DEF DoneAtEnd
    <3>3. Unparsed = <<>>
      <4>1. Channel = <<>> /\ Sending = <<>>
        BY <2>3, <3>1 DEF Channel, Sending
      <4>2. QED
        BY <1>11, <1>12, <3>2, <4>1, AfterNothing DEF Unreceived, Unsent
    <3>4. After(parsed, <<>>) = parsed /\ UpTo(input.file, Len(input.file)) = input.file
      <4>1. input.file \in Seq(Token)
        BY <1>0, InputTyped
      <4>2. QED
        BY <1>11, <4>1, AfterNothing, SubSeqFull DEF UpTo
    <3>5. parsed' = input'.file
      BY <1>1, <1>3, <3>2, <3>3, <3>4
    <3>6. QED
      BY <3>1, <3>5 DEF EndedRightly
  <2>4. QED
    BY <2>2, <2>3
<1>16. QED
  BY <1>5, <1>6, <1>8, <1>9, <1>13, <1>14, <1>15 DEF PipelineInvariant

\* The buffer goes back: nothing of the text moves.
LEMMA GiveBackStep ==
  ASSUME PipelineInvariant, GiveBack
  PROVE  PipelineInvariant'
<1>1. /\ UNCHANGED <<input, windows, readerPc, filled, full, receiving, returning>>
      /\ UNCHANGED <<text, firstLine, sink, failed, parsed>>
      /\ callerPc = "give" /\ callerPc' = "recv"
  BY DEF GiveBack, readerVars, parseVars
<1>2. Flowing /\ Flowing' /\ Parallel' = Parallel
  BY <1>1 DEF Parallel, Flowing
<1>3. PipelineType'
  BY <1>1 DEF PipelineInvariant, PipelineType
<1>4. SidesAgree'
  BY <1>1, <1>2 DEF PipelineInvariant, SidesAgree
<1>5. MessagesMeant'
  BY <1>1 DEF PipelineInvariant, MessagesMeant, Meant, CannotRead
<1>6. DoneAtEnd'
  BY <1>1 DEF PipelineInvariant, DoneAtEnd
<1>7. NothingLost'
  <2>1. Hand' = Hand /\ Channel' = Channel /\ Sending' = Sending
    BY <1>1 DEF Hand, Channel, Sending
  <2>2. Parallel /\ readerPc' = "exit" => windows.done \/ (full' # <<>> /\ full'[1].failed)
    BY <1>1, <1>2 DEF PipelineInvariant, NothingLost
  <2>3. QED
    BY <1>1, <1>2, <2>1, <2>2, NothingMoves DEF PipelineInvariant
<1>8. SinkIsSerial' /\ EndedRightly'
  BY <1>1, <1>2, ResultStays DEF PipelineInvariant
<1>9. QED
  BY <1>3, <1>4, <1>5, <1>6, <1>7, <1>8 DEF PipelineInvariant

\* A caller that ended the parse drops its ends, and what is in the channel
\* with them; then it waits.
LEMMA LeavingStep ==
  ASSUME PipelineInvariant, DropFull \/ DropEmpty \/ Join
  PROVE  PipelineInvariant'
<1>1. /\ UNCHANGED <<input, windows, readerPc, filled>>
      /\ UNCHANGED <<text, firstLine, sink, failed, parsed>>
      /\ full' \in {<<>>, full}
      /\ callerPc \in {"leave", "drop", "join"}
      /\ callerPc' \in {"drop", "join", "returned"}
  BY DEF DropFull, DropEmpty, Join, readerVars, parseVars, channels
<1>2. ~Flowing /\ ~Flowing' /\ Parallel' = Parallel /\ CannotRead' = CannotRead
  BY <1>1 DEF Parallel, Flowing, CannotRead
<1>3. PipelineType'
  BY <1>1 DEF PipelineInvariant, PipelineType
<1>4. SidesAgree'
  <2>1. Parallel
    BY <1>1 DEF PipelineInvariant, SidesAgree
  <2>2. QED
    BY <1>1, <1>2, <2>1 DEF SidesAgree
<1>5. MessagesMeant'
  BY <1>1, <1>2 DEF PipelineInvariant, MessagesMeant, Meant
<1>6. DoneAtEnd'
  BY <1>1 DEF PipelineInvariant, DoneAtEnd
<1>7. NothingLost'
  BY <1>2 DEF NothingLost
<1>8. SinkIsSerial' /\ EndedRightly'
  BY <1>1, <1>2, ResultStays DEF PipelineInvariant
<1>9. QED
  BY <1>3, <1>4, <1>5, <1>6, <1>7, <1>8 DEF PipelineInvariant

\* A window parsed after others comes to what the lines of all come to.
LEMMA WindowParsed ==
  ASSUME PipelineType, SinkIsSerial, EndsLine(parsed)
  PROVE  ParseWindow(sink, text, firstLine, input.threads, input.minBytes)
           = Sunk(Lines(After(parsed, text)))
<1>1. sink = Sunk(Lines(parsed)) /\ firstLine = 1 + Len(Lines(parsed))
  BY DEF SinkIsSerial
<1>2. input.threads \in Nat \ {0} /\ input.minBytes \in Nat
  BY InputTyped
<1>3. parsed \in Seq(Token) /\ text \in Seq(Token)
  BY DEF PipelineType
<1>. DEFINE threads  == input.threads
            minBytes == input.minBytes
<1>. HIDE DEF threads, minBytes
<1>4. threads \in Nat \ {0} /\ minBytes \in Nat
  BY <1>2 DEF threads, minBytes
<1>5. ParseWindow(Sunk(Lines(parsed)), text, 1 + Len(Lines(parsed)), threads, minBytes)
        = Sunk(Lines(After(parsed, text)))
  BY <1>3, <1>4, ChunksDoNotMatter
<1>6. QED
  BY <1>1, <1>5 DEF threads, minBytes

\* A part of a text that is followed by the rest begins what lies before it.
LEMMA BeginsIs ==
  ASSUME NEW p \in Seq(Token), NEW rest \in Seq(Token), NEW t \in Seq(Token), NEW x \in Nat,
         x <= Len(t), After(p, rest) = UpTo(t, x)
  PROVE  Begins(p, t)
<1>1. Len(t) \in Nat /\ Len(p) \in Nat /\ Len(rest) \in Nat
  OBVIOUS
<1>2. Len(UpTo(t, x)) = x /\ \A i \in 1 .. x : UpTo(t, x)[i] = t[i]
  BY <1>1 DEF UpTo
<1>3. Len(After(p, rest)) = Len(p) + Len(rest) /\ \A i \in 1 .. Len(p) : After(p, rest)[i] = p[i]
  BY <1>1 DEF After
<1>4. Len(p) <= x /\ \A i \in 1 .. Len(p) : p[i] = t[i]
  BY <1>1, <1>2, <1>3
<1>. DEFINE n == Len(p)
            s == UpTo(t, n)
<1>5. n \in Nat /\ n <= Len(t)
  BY <1>1, <1>4
<1>6. s \in Seq(Token) /\ Len(s) = n /\ \A i \in 1 .. n : s[i] = t[i]
  <2>. HIDE DEF n
  <2>1. \A i \in 1 .. n : t[i] \in Token
    BY <1>1, <1>5
  <2>2. QED
    BY <1>5, <2>1 DEF UpTo
<1>7. \A i \in 1 .. n : s[i] = p[i]
  BY <1>4, <1>6
<1>. HIDE DEF s
<1>8. s = p
  BY <1>6, <1>7, SeqEqual
<1>9. QED
  BY <1>5, <1>8 DEF s, Begins

\* A window is parsed: it follows whole lines, and an error in it either ends
\* the file or lies in a line that nothing read later can change.
LEMMA ParseStep ==
  ASSUME PipelineInvariant, Parse
  PROVE  PipelineInvariant'
<1>. DEFINE t == input.file
            o == windows.offset
            q == After(parsed, text)
<1>0. PipelineType /\ DoneAtEnd /\ SidesAgree /\ MessagesMeant /\ SinkIsSerial
  BY DEF PipelineInvariant
<1>1. /\ UNCHANGED <<input, windows, readerPc, filled, full, empty, receiving, returning>>
      /\ UNCHANGED <<text, failed>>
      /\ callerPc = "parse"
      /\ sink' = ParseWindow(sink, text, firstLine, input.threads, input.minBytes)
      /\ firstLine' = firstLine + Newlines(text)
      /\ parsed' = q
      /\ callerPc' = IF sink'.error = NoError THEN (IF Parallel THEN "give" ELSE "fill")
                     ELSE (IF Parallel THEN "leave" ELSE "returned")
  BY DEF Parse, readerVars, channels, After
<1>2. Flowing /\ Parallel' = Parallel /\ CannotRead' = CannotRead /\ text # <<>> /\ Hand = text
  BY <1>0, <1>1 DEF Flowing, Parallel, CannotRead, MessagesMeant, Hand
<1>3. /\ After(parsed, Unparsed) = UpTo(t, o)
      /\ Ended(parsed, Unparsed) /\ Ended(text, Unreceived) /\ Ended(Channel, Unsent)
      /\ Ended(Sending, windows.carry)
      /\ ~failed
      /\ Parallel /\ readerPc = "exit" => windows.done \/ (full # <<>> /\ full[1].failed)
  BY <1>2 DEF PipelineInvariant, NothingLost
<1>4. /\ parsed \in Seq(Token) /\ text \in Seq(Token) /\ Unreceived \in Seq(Token)
      /\ t \in Seq(Token) /\ o \in Nat /\ o <= Len(t)
  BY <1>0, PiecesTyped, InputTyped DEF PipelineType
<1>5. Unparsed = After(text, Unreceived)
  BY <1>2 DEF Unparsed
<1>6. EndsLine(parsed)
  <2>1. Len(Unparsed) = Len(text) + Len(Unreceived) /\ Unparsed \in Seq(Token)
    BY <1>4, <1>5, JoinedTexts
  <2>2. Len(text) # 0
    BY <1>2, <1>4
  <2>3. Unparsed # <<>>
    BY <1>4, <2>1, <2>2
  <2>4. QED
    BY <1>3, <2>3 DEF Ended
<1>. HIDE DEF t, o, q
<1>7. q \in Seq(Token)
  BY <1>4, JoinedTexts DEF q
<1>8. After(q, Unreceived) = UpTo(t, o)
  <2>1. After(After(parsed, text), Unreceived) = After(parsed, After(text, Unreceived))
    BY <1>4, AfterAfter
  <2>2. QED
    BY <1>3, <1>5, <2>1 DEF q
<1>9. sink' = Sunk(Lines(q))
  BY <1>0, <1>1, <1>6, WindowParsed DEF q
<1>10. PipelineType'
  <2>1. callerPc' \in {"give", "fill", "leave", "returned"}
    BY <1>1
  <2>2. QED
    BY <1>0, <1>1, <1>7, <2>1 DEF PipelineType
<1>11. SidesAgree'
  <2>1. /\ Parallel => callerPc' \in {"give", "leave"}
        /\ ~Parallel => callerPc' \in {"fill", "returned"}
    BY <1>1
  <2>2. QED
    BY <1>0, <1>1, <1>2, <2>1 DEF SidesAgree
<1>12. MessagesMeant'
  <2>1. callerPc' # "parse"
    BY <1>1
  <2>2. QED
    BY <1>0, <1>1, <1>2, <2>1 DEF MessagesMeant, Meant
<1>13. DoneAtEnd'
  BY <1>0, <1>1 DEF DoneAtEnd
<1>14. Hand' = <<>> /\ Channel' = Channel /\ Sending' = Sending /\ Unsent' = Unsent
         /\ Unreceived' = Unreceived
  <2>1. callerPc' # "parse"
    BY <1>1
  <2>2. Hand' = <<>> /\ Channel' = Channel /\ Sending' = Sending
    BY <1>1, <2>1 DEF Hand, Channel, Sending
  <2>3. QED
    BY <1>1, <2>2 DEF Unsent, Unreceived
<1>15. Unparsed' = Unreceived
  BY <1>4, <1>14, AfterNothing DEF Unparsed
<1>16. EndsLine(q) \/ (windows.done /\ Unreceived = <<>>)
  <2>1. EndsLine(text) => EndsLine(q)
    BY <1>4, <1>6, JoinedTexts DEF q
  <2>2. QED
    BY <1>3, <2>1 DEF Ended
<1>17. NothingLost'
  <2>1. SUFFICES ASSUME Flowing'
                 PROVE  NothingLost'
    BY DEF NothingLost
  <2>2. sink'.error = NoError
    BY <1>1, <2>1 DEF Flowing
  <2>3. Ended(parsed, Unparsed)'
    BY <1>1, <1>15, <1>16 DEF Ended
  <2>4. Ended(Hand, Unreceived)'
    BY <1>14 DEF Ended, EndsLine
  <2>5. Ended(Channel, Unsent)' /\ Ended(Sending, windows.carry)'
    BY <1>1, <1>3, <1>14 DEF Ended
  <2>6. After(parsed', Unparsed') = UpTo(input'.file, windows'.offset)
    BY <1>1, <1>8, <1>15 DEF t, o
  <2>7. QED
    BY <1>1, <1>2, <1>3, <2>2, <2>3, <2>4, <2>5, <2>6 DEF NothingLost
<1>18. SinkIsSerial'
  <2>1. ASSUME EndsLine(q)
        PROVE  firstLine' = 1 + Len(Lines(q))
    <3>1. EndsLine(text)
      BY <1>4, <2>1, JoinedTexts DEF q
    <3>2. Len(Lines(text)) = Newlines(text)
      BY <1>4, <3>1, LinesCounted
    <3>3. Lines(q) = After(Lines(parsed), Lines(text))
      BY <1>4, <1>6, JoinedTexts DEF q
    <3>4. Lines(parsed) \in Seq(Line) /\ Lines(text) \in Seq(Line)
      BY <1>4, LinesTyped
    <3>5. Len(Lines(q)) = Len(Lines(parsed)) + Len(Lines(text))
      BY <3>3, <3>4 DEF After
    <3>6. firstLine = 1 + Len(Lines(parsed))
      BY <1>0, <1>6 DEF SinkIsSerial
    <3>7. Len(Lines(parsed)) \in Nat /\ Len(Lines(text)) \in Nat
      BY <3>4
    <3>8. QED
      BY <1>1, <3>2, <3>5, <3>6, <3>7
  <2>2. QED
    BY <1>1, <1>9, <2>1 DEF SinkIsSerial
<1>19. EndedRightly'
  <2>1. SUFFICES ASSUME ~Flowing'
                 PROVE  EndedRightly'
    BY DEF EndedRightly
  <2>2. sink'.error # NoError /\ ~failed'
    BY <1>1, <1>3, <2>1 DEF Flowing
  <2>3. CASE EndsLine(q)
    <3>1. Begins(q, t)
      BY <1>4, <1>7, <1>8, BeginsIs
    <3>2. QED
      BY <1>1, <2>2, <2>3, <3>1 DEF EndedRightly, t
  <2>4. CASE windows.done /\ Unreceived = <<>>
    <3>1. After(q, Unreceived) = q /\ UpTo(t, Len(t)) = t
      BY <1>4, <1>7, <2>4, AfterNothing, SubSeqFull DEF UpTo
    <3>2. o = Len(t)
      BY <1>0, <2>4 DEF DoneAtEnd, o, t
    <3>3. parsed' = input'.file
      BY <1>1, <1>8, <3>1, <3>2 DEF t
    <3>4. QED
      BY <2>2, <3>3 DEF EndedRightly
  <2>5. QED
    BY <1>16, <2>3, <2>4
<1>20. QED
  BY <1>10, <1>11, <1>12, <1>13, <1>17, <1>18, <1>19 DEF PipelineInvariant

\* A run begins with nothing read and nothing parsed.
LEMMA InitStep ==
  ASSUME PipelineInit
  PROVE  PipelineInvariant
<1>0. /\ input \in Inputs
      /\ windows = [offset |-> 0, remaining |-> input.reported, carry |-> <<>>, done |-> FALSE]
      /\ readerPc = IF Parallel THEN "recv" ELSE "exit"
      /\ callerPc = IF Parallel THEN "recv" ELSE "fill"
      /\ full = <<>> /\ receiving = Parallel /\ returning = Parallel
      /\ text = <<>> /\ firstLine = 1 /\ sink = EmptySink /\ failed = FALSE /\ parsed = <<>>
  BY DEF PipelineInit
<1>1. input \in Input /\ <<>> \in Seq(Token) /\ <<>> \in Seq(Line)
  BY <1>0, PipelineAssumption
<1>2. input.file \in Seq(Token) /\ Len(input.file) \in Nat /\ input.reported \in Nat
  BY <1>1 DEF Input
<1>3. PipelineType
  <2>1. windows \in [offset : Nat, remaining : Nat, carry : Seq(Token), done : BOOLEAN]
          /\ windows.offset = 0
    <3>. DEFINE r == input.reported
    <3>. HIDE DEF r
    <3>1. r \in Nat /\ windows = [offset |-> 0, remaining |-> r, carry |-> <<>>, done |-> FALSE]
      BY <1>0, <1>2 DEF r
    <3>2. QED
      BY <1>1, <3>1
  <2>2. readerPc \in {"recv", "exit"} /\ callerPc \in {"recv", "fill"}
    BY <1>0
  <2>3. text \in Seq(Token) /\ parsed \in Seq(Token) /\ failed \in BOOLEAN
    BY <1>0, <1>1
  <2>4. readerPc # "send" /\ full = <<>>
    BY <1>0, <2>2
  <2>5. QED
    BY <1>0, <1>2, <2>1, <2>2, <2>3, <2>4 DEF PipelineType
<1>4. SidesAgree
  BY <1>0 DEF SidesAgree, Flowing, Parallel
<1>5. MessagesMeant /\ DoneAtEnd
  BY <1>0 DEF MessagesMeant, DoneAtEnd
<1>6. Lines(<<>>) = <<>> /\ EndsLine(<<>>)
  BY LinesTyped DEF EndsLine
<1>7. SinkIsSerial
  <2>. DEFINE none == <<>>
  <2>1. KeptPoints(none) = {} /\ WrongLines(none) = {}
    BY DEF KeptPoints, WrongLines, PointLines
  <2>2. none \in Seq(Line) /\ Len(none) = 0
    BY <1>1
  <2>. HIDE DEF none
  <2>3. FirstError(none, 1) = NoError
    BY <2>1, ErrorFacts
  <2>4. Sunk(none) = [width |-> 0, points |-> <<>>, error |-> NoError]
    BY <2>1, <2>2, <2>3, SunkOfNone
  <2>5. sink = Sunk(Lines(parsed)) /\ Len(Lines(parsed)) = 0
    BY <1>0, <1>6, <2>2, <2>4 DEF none, EmptySink
  <2>6. QED
    BY <1>0, <2>5 DEF SinkIsSerial
<1>8. NothingLost
  <2>1. Hand = <<>> /\ Channel = <<>> /\ Sending = <<>> /\ windows.carry = <<>>
    BY <1>0 DEF Hand, Channel, Sending
  <2>2. Unsent = <<>>
    BY <1>1, <2>1, AfterNothing DEF Unsent
  <2>3. Unreceived = <<>>
    BY <1>1, <2>1, <2>2, AfterNothing DEF Unreceived
  <2>4. Unparsed = <<>>
    BY <1>1, <2>1, <2>3, AfterNothing DEF Unparsed
  <2>5. After(parsed, Unparsed) = <<>> /\ UpTo(input.file, windows.offset) = <<>>
    <3>1. UpTo(input.file, 0) = <<>>
      BY <1>2 DEF UpTo
    <3>2. windows.offset = 0
      BY <1>0
    <3>3. QED
      BY <1>0, <1>1, <2>4, <3>1, <3>2, AfterNothing
  <2>6. sink.error = NoError
    BY <1>0 DEF EmptySink
  <2>7. Parallel => readerPc # "exit"
    BY <1>0
  <2>8. Ended(parsed, Unparsed) /\ Ended(Hand, Unreceived) /\ Ended(Channel, Unsent)
          /\ Ended(Sending, windows.carry)
    BY <1>0, <1>6, <2>1 DEF Ended
  <2>9. QED
    BY <1>0, <2>5, <2>6, <2>7, <2>8 DEF NothingLost
<1>9. EndedRightly
  BY <1>0 DEF EndedRightly, Flowing
<1>10. QED
  BY <1>3, <1>4, <1>5, <1>7, <1>8, <1>9 DEF PipelineInvariant

\* A whole text parsed line after line: the points of its lines.
LEMMA SerialIs ==
  ASSUME NEW t \in Seq(Token)
  PROVE  ParseSerially(t) = Sunk(Lines(t))
<1>. DEFINE none == <<>>
<1>1. none \in Seq(Token) /\ EndsLine(none) /\ Lines(none) = none /\ After(none, t) = t
  BY LinesTyped, AfterNothing DEF EndsLine
<1>2. Len(Lines(none)) = 0 /\ 1 + 0 = 1 /\ 1 \in Nat \ {0} /\ 0 \in Nat
  BY <1>1
<1>3. Sunk(Lines(none)) = EmptySink
  <2>1. KeptPoints(none) = {} /\ WrongLines(none) = {} /\ none \in Seq(Line)
    BY DEF KeptPoints, WrongLines, PointLines
  <2>. HIDE DEF none
  <2>2. FirstError(none, 1) = NoError
    BY <2>1, ErrorFacts
  <2>3. QED
    BY <1>1, <2>1, <2>2, SunkOfNone DEF EmptySink
<1>. HIDE DEF none
<1>4. ParseWindow(Sunk(Lines(none)), t, 1 + Len(Lines(none)), 1, 0) = Sunk(Lines(After(none, t)))
  <2>. DEFINE threads  == 1
              minBytes == 0
  <2>1. threads \in Nat \ {0} /\ minBytes \in Nat
    OBVIOUS
  <2>. HIDE DEF threads, minBytes
  <2>2. ParseWindow(Sunk(Lines(none)), t, 1 + Len(Lines(none)), threads, minBytes)
          = Sunk(Lines(After(none, t)))
    BY <1>1, <2>1, ChunksDoNotMatter
  <2>3. QED
    BY <2>2 DEF threads, minBytes
<1>5. QED
  BY <1>1, <1>2, <1>3, <1>4 DEF ParseSerially

\* What the invariant says of a call that returned.
LEMMA InvariantImpliesResult ==
  ASSUME PipelineInvariant
  PROVE  ResultIsSerial
<1>. DEFINE t == input.file
            n == Len(parsed)
            b == Between(t, n, Len(t))
<1>1. SUFFICES ASSUME callerPc = "returned"
               PROVE  IF failed
                      THEN /\ input.readable <= Len(input.file)
                           /\ sink = ParseSerially(parsed) /\ sink.error = NoError
                      ELSE /\ sink.error = ParseSerially(t).error
                           /\ ParseSerially(t).error = NoError => sink = ParseSerially(t)
  BY DEF ResultIsSerial
<1>2. PipelineType /\ MessagesMeant /\ SinkIsSerial /\ EndedRightly /\ ~Flowing
  BY <1>1 DEF PipelineInvariant, Flowing
<1>3. t \in Seq(Token) /\ parsed \in Seq(Token) /\ Len(t) \in Nat /\ n \in Nat
  BY <1>2, InputTyped DEF PipelineType
<1>4. ParseSerially(t) = Sunk(Lines(t)) /\ ParseSerially(parsed) = Sunk(Lines(parsed))
  BY <1>3, SerialIs
<1>5. sink = Sunk(Lines(parsed))
  BY <1>2 DEF SinkIsSerial
<1>6. CASE failed
  <2>1. input.readable <= Len(input.file)
    BY <1>2, <1>6 DEF MessagesMeant, CannotRead
  <2>2. sink.error = NoError
    BY <1>2, <1>6 DEF EndedRightly
  <2>3. QED
    BY <1>4, <1>5, <1>6, <2>1, <2>2
<1>7. CASE ~failed /\ parsed = t
  BY <1>4, <1>5, <1>7
<1>8. CASE ~failed /\ sink.error # NoError /\ EndsLine(parsed) /\ Begins(parsed, t)
  <2>1. n <= Len(t) /\ UpTo(t, n) = parsed
    BY <1>8 DEF Begins
  <2>2. b \in Seq(Token) /\ t = After(parsed, b)
    <3>. DEFINE m == Len(t)
    <3>1. m \in Nat /\ n <= m /\ m <= Len(t) /\ UpTo(t, m) = t
      BY <1>3, <2>1, SubSeqFull DEF UpTo
    <3>. HIDE DEF m, n, t
    <3>2. Between(t, n, m) \in Seq(Token) /\ After(UpTo(t, n), Between(t, n, m)) = UpTo(t, m)
      BY <1>3, <3>1, Pieces
    <3>3. QED
      BY <2>1, <3>1, <3>2 DEF m, n, t
  <2>. HIDE DEF t, n, b
  <2>3. Lines(t) = After(Lines(parsed), Lines(b))
    <3>1. Lines(After(parsed, b)) = After(Lines(parsed), Lines(b))
      BY <1>3, <1>8, <2>2, JoinedTexts
    <3>2. QED
      BY <2>2, <3>1, Zenon
  <2>4. Lines(parsed) \in Seq(Line) /\ Lines(b) \in Seq(Line) /\ Lines(t) \in Seq(Line)
    BY <1>3, <2>2, LinesTyped
  <2>5. sink.error = FirstError(Lines(parsed), 1)
    BY <1>5, <2>4, SunkIs
  <2>6. WrongLines(Lines(parsed)) # {}
    BY <1>8, <2>5, ErrorFacts
  <2>7. Sunk(Lines(t)) = Sunk(Lines(parsed))
    <3>. DEFINE x == Lines(parsed)
                y == Lines(b)
                z == Lines(t)
    <3>. HIDE DEF x, y, z
    <3>1. x \in Seq(Line) /\ y \in Seq(Line) /\ z \in Seq(Line) /\ z = After(x, y)
            /\ WrongLines(x) # {}
      BY <2>3, <2>4, <2>6 DEF x, y, z
    <3>2. Sunk(z) = Sunk(x)
      BY <3>1, SunkAfterError
    <3>3. QED
      BY <3>2 DEF x, z
  <2>8. QED
    BY <1>4, <1>5, <1>8, <2>7
<1>9. QED
  BY <1>2, <1>6, <1>7, <1>8 DEF EndedRightly, t

\* The pipeline keeps its invariant: between the file and the points nothing
\* is lost, doubled or out of order, whichever side runs first and whichever
\* ends first, for every file, window size, thread count and chunk size.
THEOREM PipelineInvariantHolds == PipelineSpec => []PipelineInvariant
<1>1. PipelineInit => PipelineInvariant
  BY InitStep
<1>2. PipelineInvariant /\ [PipelineNext]_pipelineVars => PipelineInvariant'
  <2>1. SUFFICES ASSUME PipelineInvariant, [PipelineNext]_pipelineVars
                 PROVE  PipelineInvariant'
    OBVIOUS
  <2>2. CASE Reader
    <3>1. RecvEmpty \/ Fill \/ Send
      BY <2>2 DEF Reader
    <3>2. QED
      BY <2>1, <3>1, RecvEmptyStep, FillStep, SendStep
  <2>3. CASE Pass
    <3>1. RecvFull \/ FillSerially \/ GiveBack \/ DropFull \/ DropEmpty \/ Join
      BY <2>3 DEF Pass
    <3>2. QED
      BY <2>1, <3>1, RecvFullStep, FillSeriallyStep, GiveBackStep, LeavingStep
  <2>4. CASE Parse
    BY <2>1, <2>4, ParseStep
  <2>5. CASE UNCHANGED pipelineVars
    <3>1. UNCHANGED <<input, windows, readerPc, filled, full, receiving, returning, callerPc>>
            /\ UNCHANGED <<text, firstLine, sink, failed, parsed>>
      BY <2>5 DEF pipelineVars, readerVars, channels, parseVars
    <3>2. PipelineType'
      BY <2>1, <3>1 DEF PipelineInvariant, PipelineType
    <3>3. Parallel' = Parallel /\ Flowing' = Flowing
      BY <3>1 DEF Parallel, Flowing
    <3>4. SidesAgree'
      BY <2>1, <3>1, <3>3 DEF PipelineInvariant, SidesAgree
    <3>5. MessagesMeant' /\ DoneAtEnd'
      BY <2>1, <3>1 DEF PipelineInvariant, MessagesMeant, Meant, CannotRead, DoneAtEnd
    <3>6. Hand' = Hand /\ Channel' = Channel /\ Sending' = Sending
      BY <3>1 DEF Hand, Channel, Sending
    <3>7. NothingLost'
      <4>1. Flowing /\ Parallel /\ readerPc = "exit" =>
              windows.done \/ (full # <<>> /\ full[1].failed)
        BY <2>1 DEF PipelineInvariant, NothingLost
      <4>2. QED
        BY <2>1, <3>1, <3>3, <3>6, <4>1, NothingMoves DEF PipelineInvariant
    <3>8. SinkIsSerial' /\ EndedRightly'
      BY <2>1, <3>1, <3>3, ResultStays DEF PipelineInvariant
    <3>9. QED
      BY <3>2, <3>4, <3>5, <3>7, <3>8 DEF PipelineInvariant
  <2>6. QED
    BY <2>1, <2>2, <2>3, <2>4, <2>5 DEF PipelineNext, Caller
<1>3. QED
  BY <1>1, <1>2, PTL DEF PipelineSpec

\* Points and error do not depend on the threads, on the chunks or on the
\* windows (points.rs:27-28), and a failed read is reported unless an error in
\* the text before it is.
THEOREM ResultAlwaysSerial == PipelineSpec => []ResultIsSerial
<1>1. PipelineInvariant => ResultIsSerial
  BY InvariantImpliesResult
<1>2. QED
  BY <1>1, PipelineInvariantHolds, PTL
=============================================================================
