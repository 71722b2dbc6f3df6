----------------------------- MODULE WindowPipeline -----------------------------
(****************************************************************************)
(* The windowed reader of a file (io/window.rs, for_each_window) with the   *)
(* point-cloud parse as its consumer: a reader thread cuts the file into    *)
(* windows that end at newlines and sends them over a bounded channel; the  *)
(* caller's thread parses them and sends the buffers back.  Either side may *)
(* stop early.  On one thread the reads and the parses alternate.           *)
(****************************************************************************)
EXTENDS PointParser

CONSTANTS
  Inputs,     \* the files and budgets a run may start from
  Buffers     \* how many buffers rotate, and the capacity of their way back

(* An input: the file's tokens, the size a window is read in, the length    *)
(* the file reported, how many tokens can be read before a read fails, the  *)
(* threads of the budget, and the smallest window that is split.            *)
Input ==
  [file : Seq(Token), size : Nat \ {0}, reported : Nat, readable : Nat,
   threads : Nat \ {0}, minBytes : Nat]

ASSUME PipelineAssumption == Inputs \subseteq Input /\ Buffers \in Nat \ {0}

VARIABLES
  input,      \* the input of the run
  windows,    \* the Windows of the reader: offset, remaining, carry, done
  readerPc,   \* the reader: "recv", "fill", "send", "exit"
  filled,     \* what the reader is about to send: a window or "failed"
  full,       \* the channel of windows, of capacity 1
  empty,      \* how many buffers lie in the channel back
  receiving,  \* the caller's end of the channel of windows is alive
  returning,  \* the caller's end of the channel back is alive
  callerPc,   \* the caller: "recv", "fill", "parse", "give", "leave", "drop",
              \* "join", "returned"
  text,       \* the window in the caller's hands
  firstLine,  \* the number of its first line
  sink,       \* the points gathered so far, and the error of the parse
  failed,     \* the reader reported a failed read
  parsed      \* history: the tokens parsed so far

readerVars   == <<windows, readerPc, filled>>
channels     == <<full, empty, receiving, returning>>
parseVars    == <<text, firstLine, sink, failed, parsed>>
pipelineVars == <<input, readerVars, channels, callerPc, parseVars>>

Parallel == input.threads > 1

PipelineInit ==
  /\ input \in Inputs
  /\ windows = [offset |-> 0, remaining |-> input.reported, carry |-> <<>>, done |-> FALSE]
  /\ readerPc = IF Parallel THEN "recv" ELSE "exit"
  /\ filled = <<>>
  /\ full = <<>>
  /\ empty = IF Parallel THEN Buffers ELSE 0
  /\ receiving = Parallel
  /\ returning = Parallel
  /\ callerPc = IF Parallel THEN "recv" ELSE "fill"
  /\ text = <<>>
  /\ firstLine = 1
  /\ sink = EmptySink
  /\ failed = FALSE
  /\ parsed = <<>>

-----------------------------------------------------------------------------
(* Windows::next_into: the reads that fill one buffer *)

\* How many tokens the next read asks for: one past the reported length, at
\* most a window.
Want == Min({windows.remaining + 1, input.size})
Got  == Min({Want, Len(input.file) - windows.offset})

\* The buffer after the next read.  While a buffer fills, the model keeps it
\* in the carry, which the code has emptied into it.
Buffer == windows.carry \o SubSeq(input.file, windows.offset + 1, windows.offset + Got)

\* The read goes as far as the token at which reads fail, which is none past
\* the end of the file.
Fails == input.readable <= Len(input.file) /\ windows.offset + Want > input.readable

\* What the next read comes to: a read that falls short is the last; else the
\* window is cut at its last newline, and read on when it has none.
Verdict ==
  IF windows.done THEN "end"
  ELSE IF Fails THEN "failed"
  ELSE IF Got = Want THEN (IF Contains(Buffer, "newline") THEN "window" ELSE "more")
  ELSE IF Buffer = <<>> THEN "end"
  ELSE "window"

\* The length of the buffer up to its last newline, or of all of the last one.
CutAt ==
  IF Got < Want THEN Len(Buffer)
  ELSE SelectLastInSeq(Buffer, LAMBDA token : token = "newline")

NextWindow == SubSeq(Buffer, 1, CutAt)

\* Mutant of Read: what follows the last newline is not kept.
ReadForgets ==
  windows' = [offset    |-> windows.offset + Got,
              remaining |-> Max({0, windows.remaining - Got}),
              carry     |-> IF Verdict = "more" THEN Buffer ELSE <<>>,
              done      |-> Got < Want]

\* One read of the loop in next_into.
Read ==
  windows' = [offset    |-> windows.offset + Got,
              remaining |-> Max({0, windows.remaining - Got}),
              carry     |-> SubSeq(Buffer, CutAt + 1, Len(Buffer)),
              done      |-> Got < Want]

-----------------------------------------------------------------------------
(* The reader thread *)

\* The reader takes an empty buffer, or leaves when none can come any more.
RecvEmpty ==
  /\ readerPc = "recv"
  /\ \/ /\ empty > 0
        /\ empty' = empty - 1
        /\ readerPc' = "fill"
     \/ /\ empty = 0
        /\ ~returning
        /\ readerPc' = "exit"
        /\ UNCHANGED empty
  /\ UNCHANGED <<input, windows, filled, full, receiving, returning, callerPc, parseVars>>

\* The reader reads into its buffer until a window is complete.
Fill ==
  /\ readerPc = "fill"
  /\ IF windows.done \/ Verdict = "failed" THEN UNCHANGED windows ELSE Read
  /\ filled' = [window |-> IF Verdict = "window" THEN NextWindow ELSE <<>>,
                failed |-> Verdict = "failed"]
  /\ readerPc' = CASE Verdict = "more" -> "fill"
                   [] Verdict = "end"  -> "exit"
                   [] OTHER            -> "send"
  /\ UNCHANGED <<input, channels, callerPc, parseVars>>

\* The window crosses when the channel has room.  After a failed read, or
\* when nobody receives any more, the reader leaves.
Send ==
  /\ readerPc = "send"
  /\ \/ /\ receiving
        /\ full = <<>>
        /\ full' = <<filled>>
        /\ readerPc' = IF filled.failed THEN "exit" ELSE "recv"
     \/ /\ ~receiving
        /\ readerPc' = "exit"
        /\ UNCHANGED full
  /\ UNCHANGED <<input, windows, filled, empty, receiving, returning, callerPc, parseVars>>

Reader == RecvEmpty \/ Fill \/ Send

-----------------------------------------------------------------------------
(* The caller's thread *)

\* The caller takes the next window, or leaves: on a failed read, and when
\* the reader is gone and nothing is left in the channel.
RecvFull ==
  /\ callerPc = "recv"
  /\ \/ /\ full # <<>>
        /\ full' = <<>>
        /\ text' = full[1].window
        /\ failed' = full[1].failed
        /\ callerPc' = IF failed' THEN "leave" ELSE "parse"
     \/ /\ full = <<>>
        /\ readerPc = "exit"
        /\ callerPc' = "leave"
        /\ UNCHANGED <<full, text, failed>>
  /\ UNCHANGED <<input, readerVars, empty, receiving, returning, firstLine, sink, parsed>>

\* On one thread the caller reads the next window itself.
FillSerially ==
  /\ callerPc = "fill"
  /\ IF windows.done \/ Verdict = "failed" THEN UNCHANGED windows ELSE Read
  /\ text' = IF Verdict = "window" THEN NextWindow ELSE <<>>
  /\ failed' = (Verdict = "failed")
  /\ callerPc' = CASE Verdict = "more"   -> "fill"
             [] Verdict = "window" -> "parse"
             [] OTHER              -> "returned"
  /\ UNCHANGED <<input, readerPc, filled, channels, firstLine, sink, parsed>>

\* consume: the window is parsed, in chunks when it is large; an error ends
\* the parse.
Parse ==
  /\ callerPc = "parse"
  /\ sink' = ParseWindow(sink, text, firstLine, input.threads, input.minBytes)
  /\ firstLine' = firstLine + Newlines(text)
  /\ parsed' = parsed \o text
  /\ callerPc' = IF sink'.error = NoError THEN (IF Parallel THEN "give" ELSE "fill")
           ELSE (IF Parallel THEN "leave" ELSE "returned")
  /\ UNCHANGED <<input, readerVars, channels, text, failed>>

\* The buffer goes back; a reader that is gone does not take it.
GiveBack ==
  /\ callerPc = "give"
  /\ empty < Buffers \/ readerPc = "exit"
  /\ empty' = IF readerPc = "exit" THEN empty ELSE empty + 1
  /\ callerPc' = "recv"
  /\ UNCHANGED <<input, readerVars, full, receiving, returning, parseVars>>

\* The caller's ends drop one after the other, with the loop and with the
\* closure; then the scope waits for the reader.
DropFull ==
  /\ callerPc = "leave"
  /\ receiving' = FALSE
  /\ full' = <<>>
  /\ callerPc' = "drop"
  /\ UNCHANGED <<input, readerVars, empty, returning, parseVars>>

\* Mutant of DropEmpty: the way back outlives the closure.
KeepEmpty ==
  /\ callerPc = "drop"
  /\ callerPc' = "join"
  /\ UNCHANGED <<input, readerVars, channels, parseVars>>

DropEmpty ==
  /\ callerPc = "drop"
  /\ returning' = FALSE
  /\ callerPc' = "join"
  /\ UNCHANGED <<input, readerVars, full, empty, receiving, parseVars>>

Join ==
  /\ callerPc = "join"
  /\ readerPc = "exit"
  /\ callerPc' = "returned"
  /\ UNCHANGED <<input, readerVars, channels, parseVars>>

Pass == RecvFull \/ FillSerially \/ GiveBack \/ DropFull \/ DropEmpty \/ Join

Caller == Pass \/ Parse

PipelineNext == Reader \/ Caller

PipelineSpec == PipelineInit /\ [][PipelineNext]_pipelineVars

\* A parse is the only step that leaves "parse": fairness need not name what
\* it computes.
Parsed == callerPc = "parse" /\ callerPc' \in {"give", "fill", "leave", "returned"}

-----------------------------------------------------------------------------
(* Points and error do not depend on the threads, on the chunks or on the   *)
(* windows (points.rs:27-28): what the call returns is what one thread finds*)
(* that reads the whole file line by line.  A failed read is reported       *)
(* unless an error in the text before it is.                                *)
ResultIsSerial ==
  callerPc = "returned" =>
    LET serial == ParseSerially(input.file)
    IN  IF failed
        THEN /\ input.readable <= Len(input.file)
             /\ sink = ParseSerially(parsed) /\ sink.error = NoError
        ELSE sink.error = serial.error /\ (serial.error = NoError => sink = serial)

(* Both threads end, also when one of them stops early: neither waits for   *)
(* ever on a channel (window.rs:68-69).                                     *)
Termination == <>(callerPc = "returned" /\ readerPc = "exit")
=============================================================================
