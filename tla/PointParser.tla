------------------------------ MODULE PointParser ------------------------------
(****************************************************************************)
(* The parse of a point cloud (io/scanner.rs, io/points.rs): a text is      *)
(* split into line chunks, every chunk is parsed on its own, and the chunks *)
(* are merged in file order.                                                *)
(*                                                                          *)
(* A text is a sequence of "number", "word" and "newline".  A line is a     *)
(* point with as many coordinates as it has numbers, an error when it has a *)
(* word, and skipped when it has neither.                                   *)
(****************************************************************************)
EXTENDS Integers, SequencesExt

Token == {"number", "word", "newline"}

\* The outcome of a parse that met no error, or has not yet.
NoError == <<>>

Newlines(text) == Cardinality({p \in DOMAIN text : text[p] = "newline"})

\* A line, by the numbers it holds and whether it holds a word.
Line == [width : Nat, word : BOOLEAN]

NewLine == [width |-> 0, word |-> FALSE]

\* The lines up to a token of a text, from those up to the token before it.
WithToken(lines, text, p) ==
  LET begun == IF p = 1 \/ text[p - 1] = "newline" THEN Append(lines, NewLine) ELSE lines
      n     == Len(begun)
  IN  CASE text[p] = "number"  -> [begun EXCEPT ![n].width = @ + 1]
        [] text[p] = "word"    -> [begun EXCEPT ![n].word = TRUE]
        [] text[p] = "newline" -> begun

\* The lines of a text; a newline at the end starts none.
Lines(text) ==
  LET upTo[p \in 0 .. Len(text)] ==
        IF p = 0 THEN <<>> ELSE WithToken(upTo[p - 1], text, p)
  IN  upTo[Len(text)]

-----------------------------------------------------------------------------
\* The end of the line in which offset `from` lies, its newline included.
LineEnd(text, from) ==
  LET ends == {n \in from + 1 .. Len(text) : text[n] = "newline"}
  IN  IF ends = {} THEN Len(text) ELSE Min(ends)

\* Where the chunks of a text begin, and where the last one ends.
Cuts(text, workers) ==
  LET upTo[k \in 0 .. workers - 1] ==
        IF k = 0 THEN <<0>>
        ELSE LET cuts == upTo[k - 1]
             IN  Append(cuts, LineEnd(text, Max({(Len(text) \div workers) * k, Last(cuts)})))
  IN  Append(upTo[workers - 1], Len(text))

\* The lines that hold a point, and the first of them.
PointLines(lines) == {n \in DOMAIN lines : ~lines[n].word /\ lines[n].width > 0}
FirstPoint(lines) == Min(PointLines(lines))

\* The lines that end a parse: one with a word, or with a point of another
\* width than the first.
WrongLines(lines) ==
  LET width == lines[FirstPoint(lines)].width
  IN  {n \in DOMAIN lines : lines[n].word}
        \cup {n \in PointLines(lines) : lines[n].width # width}

\* The points before the first wrong line, and the error of that line.
KeptPoints(lines) ==
  LET wrong == WrongLines(lines) IN {n \in PointLines(lines) : \A w \in wrong : n < w}

FirstError(lines, firstLine) ==
  LET wrong == Min(WrongLines(lines))
      at    == firstLine + wrong - 1
  IN  IF WrongLines(lines) = {} THEN NoError
      ELSE IF lines[wrong].word THEN [line |-> at, what |-> "not a number"]
      ELSE [line |-> at, what |-> "point has", width |-> lines[wrong].width,
            expected |-> lines[FirstPoint(lines)].width]

\* What comes of lines: the line of the first point, the points, the error.
ParseLines(lines, firstLine) ==
  LET kept  == KeptPoints(lines)
      first == FirstPoint(lines)
  IN  [line   |-> IF kept = {} THEN 0 ELSE firstLine + first - 1,
       points |-> [i \in 1 .. Cardinality(kept) |-> lines[first].width],
       error  |-> FirstError(lines, firstLine)]

\* A chunk, parsed on its own.
ParseChunk(text, firstLine) == ParseLines(Lines(text), firstLine)

\* Mutant of MapChunks: the lines of a chunk are numbered from the window's.
MapChunksFromWindow(text, firstLine, workers) ==
  LET cuts == Cuts(text, workers)
  IN  [k \in 1 .. workers |-> ParseChunk(SubSeq(text, cuts[k] + 1, cuts[k + 1]), firstLine)]

\* The chunks of a text, each parsed with the number of its first line.
MapChunks(text, firstLine, workers) ==
  LET cuts == Cuts(text, workers)
  IN  [k \in 1 .. workers |->
         ParseChunk(SubSeq(text, cuts[k] + 1, cuts[k + 1]),
                    firstLine + Newlines(SubSeq(text, 1, cuts[k])))]

-----------------------------------------------------------------------------
\* The points gathered so far: the width of the first one (0 before it is
\* read), their widths, and the error that ended the parse.
EmptySink == [width |-> 0, points |-> <<>>, error |-> NoError]

\* The next chunk in file order is merged; its first point is measured
\* against the first point of the file.
Merge(sink, chunk) ==
  LET width == IF chunk.points = <<>> THEN sink.width ELSE Head(chunk.points)
  IN  IF sink.error # NoError THEN sink
      ELSE IF sink.width \notin {0, width}
      THEN [sink EXCEPT !.error = [line |-> chunk.line, what |-> "point has",
                                   width |-> width, expected |-> sink.width]]
      ELSE [width  |-> width,
            points |-> sink.points \o chunk.points,
            error  |-> chunk.error]

\* One window of a text is parsed on as many workers as its size deserves.
ParseWindow(sink, text, firstLine, threads, minBytes) ==
  LET workers == IF threads > 1 /\ Len(text) >= minBytes THEN threads ELSE 1
      chunks  == MapChunks(text, firstLine, workers)
      upTo[k \in 0 .. workers] ==
        IF k = 0 THEN sink
        ELSE LET merged == upTo[k - 1] IN Merge(merged, chunks[k])
  IN  upTo[workers]

\* A whole text parsed as one chunk, line after line.
ParseSerially(text) == ParseWindow(EmptySink, text, 1, 1, 0)
=============================================================================
