------------------------------ MODULE RowStream ------------------------------
(***************************************************************************)
(* Standard output, piece by piece: main()'s write_line and write_blob, the *)
(* LineWriter that std::io::stdout() puts in front of the file descriptor,  *)
(* and a reader who may stop reading.  In Session a line is written or it   *)
(* fails; here a write call may take part of the buffer, fail half-way      *)
(* through a line, and leave a rest that std writes again while the process *)
(* exits.                                                                   *)
(***************************************************************************)
EXTENDS Naturals, Sequences, FiniteSets

Seqs == INSTANCE SequencesExt

CONSTANTS
  MaxJobs,   \* most jobs in one answer
  Pieces,    \* write_all calls to_writer makes for one JSON text
  BufCap,    \* pieces the LineWriter holds
  SinkCap    \* pieces the pipe holds

ASSUME StreamAssumption ==
  /\ MaxJobs \in Nat
  /\ Pieces \in Nat \ {0} /\ BufCap \in Nat \ {0} /\ SinkCap \in Nat \ {0}

VARIABLES
  jobs,     \* jobs in the answer
  jsonl,    \* --jsonl was given
  pc,       \* what the writer does next
  line,     \* the line being written: 0 the header (or the blob), n job n
  piece,    \* its next piece
  result,   \* result of the writes so far
  buf,      \* what the LineWriter holds
  sink,     \* what the pipe holds
  got,      \* what the reader has read
  open      \* the reader holds its end of the pipe

modeVars == <<jobs, jsonl>>
writerVars == <<pc, line, piece, result>>
vars == <<modeVars, writerVars, buf, sink, got, open>>

------------------------------------------------------------------------------
(* What is written.  A piece is <<line, number>>; the last one of a line   *)
(* is its newline, which no earlier piece can contain.                     *)

NL == Pieces + 1

\* Mutant: one job too many is asked of the list.
OneTooMany == IF jsonl THEN jobs + 1 ELSE 0

LastLine == IF jsonl THEN jobs ELSE 0

\* Mutant: a JSON text without the newline after it.
BareText(n) == [i \in 1..Pieces |-> <<n, i>>]

LineText(n) == [i \in 1..NL |-> <<n, i>>]

\* Mutant: the header is written before the count is known.
UnknownCount == 0

(* job_count in the meta object.                                           *)
HeaderCount == jobs

Writing == {"put", "full", "flush", "cleanup"}

TypeOK ==
  /\ jobs \in 0..MaxJobs
  /\ jsonl \in BOOLEAN
  /\ pc \in Writing \cup {"decode", "exited", "killed"}
  /\ line \in 0..(MaxJobs + 1)
  /\ piece \in 1..NL
  /\ result \in {"ok", "err"}
  /\ buf \in Seq((0..MaxJobs) \X (1..NL)) /\ Len(buf) <= BufCap
  /\ sink \in Seq((0..MaxJobs) \X (1..NL)) /\ Len(sink) <= SinkCap
  /\ got \in Seq((0..MaxJobs) \X (1..NL))
  /\ open \in BOOLEAN

Init ==
  /\ jobs \in 0..MaxJobs
  /\ jsonl \in BOOLEAN
  /\ pc = "decode"
  /\ line = 0
  /\ piece = 1
  /\ result = "ok"
  /\ buf = <<>>
  /\ sink = <<>>
  /\ got = <<>>
  /\ open \in BOOLEAN

------------------------------------------------------------------------------
(* The writer.                                                             *)

(* The header, then job after job; in the default mode one blob.           *)
BeginLine ==
  /\ pc = "decode"
  /\ line <= LastLine
  /\ pc' = "put"
  /\ UNCHANGED <<modeVars, line, piece, result, buf, sink, got, open>>

AllWritten ==
  /\ pc = "decode"
  /\ line > LastLine
  /\ pc' = "cleanup"
  /\ UNCHANGED <<modeVars, line, piece, result, buf, sink, got, open>>

\* Mutant: lines are left in a buffer that is flushed at the end.
BatchLines == "decode"

(* out.flush() -- and LineWriter does as much at every newline.            *)
AfterLine == "flush"

(* One write_all of to_writer, or the newline after it.                    *)
PutPiece ==
  /\ pc = "put"
  /\ Len(buf) < BufCap
  /\ buf' = Append(buf, LineText(line)[piece])
  /\ \/ /\ piece < Len(LineText(line))
        /\ piece' = piece + 1
        /\ UNCHANGED <<pc, line>>
     \/ /\ piece = Len(LineText(line))
        /\ pc' = AfterLine
        /\ line' = line + 1
        /\ piece' = 1
  /\ UNCHANGED <<modeVars, result, sink, got, open>>

BufferFull ==
  /\ pc = "put"
  /\ Len(buf) = BufCap
  /\ pc' = "full"
  /\ UNCHANGED <<modeVars, line, piece, result, buf, sink, got, open>>

(* One write(2): it takes what fits, perhaps less than the buffer holds.   *)
WriteSome ==
  /\ pc \in Writing \ {"put"}
  /\ open
  /\ \E n \in 1..Len(buf) :
       /\ Len(sink) + n <= SinkCap
       /\ sink' = sink \o SubSeq(buf, 1, n)
       /\ buf' = SubSeq(buf, n + 1, Len(buf))
  /\ UNCHANGED <<modeVars, writerVars, got, open>>

AfterFlush ==
  CASE pc = "full" -> "put"
    [] pc = "flush" -> "decode"
    [] pc = "cleanup" -> "exited"

Flushed ==
  /\ pc \in Writing \ {"put"}
  /\ buf = <<>>
  /\ pc' = AfterFlush
  /\ UNCHANGED <<modeVars, line, piece, result, buf, sink, got, open>>

\* Mutants: the error of a write is dropped and the next line is written;
\* the write is tried again, whatever the error.
IgnoreError ==
  /\ pc' = IF pc = "cleanup" THEN "exited" ELSE "decode"
  /\ line' = IF pc = "full" THEN line + 1 ELSE line
  /\ piece' = 1
  /\ UNCHANGED result
TryAgain == UNCHANGED writerVars

(* `?' leaves the closure and stream_jobs, main() returns; the buffer keeps *)
(* what was not taken, and std tries it once more, deaf to errors, on exit. *)
OnWriteError ==
  /\ \/ pc = "cleanup" /\ pc' = "exited" /\ UNCHANGED result
     \/ pc # "cleanup" /\ pc' = "cleanup" /\ result' = "err"
  /\ UNCHANGED <<line, piece>>

BrokenPipe ==
  /\ pc \in Writing \ {"put"}
  /\ buf # <<>>
  /\ ~open
  /\ OnWriteError
  /\ UNCHANGED <<modeVars, buf, sink, got, open>>

(* Any other error, say a full disk, which need not last.                  *)
WriteError ==
  /\ pc \in Writing \ {"put"}
  /\ buf # <<>>
  /\ open
  /\ OnWriteError
  /\ UNCHANGED <<modeVars, buf, sink, got, open>>

------------------------------------------------------------------------------
(* The reader, and the end of the process.                                 *)

Ended == pc \in {"exited", "killed"}

Read ==
  /\ open
  /\ \E n \in 1..Len(sink) :
       /\ got' = got \o SubSeq(sink, 1, n)
       /\ sink' = SubSeq(sink, n + 1, Len(sink))
  /\ UNCHANGED <<modeVars, writerVars, buf, open>>

StopReading ==
  /\ open
  /\ ~Ended
  /\ open' = FALSE
  /\ UNCHANGED <<modeVars, writerVars, buf, sink, got>>

Kill ==
  /\ ~Ended
  /\ pc' = "killed"
  /\ UNCHANGED <<modeVars, line, piece, result, buf, sink, got, open>>

Terminated == Ended /\ (sink = <<>> \/ ~open) /\ UNCHANGED vars

Write == BeginLine \/ AllWritten \/ PutPiece \/ BufferFull \/ WriteSome \/ Flushed \/ BrokenPipe

Next == Write \/ WriteError \/ Read \/ StopReading \/ Kill \/ Terminated

Spec == Init /\ [][Next]_vars

(* The writer runs while it can, and a reader who has not gone away reads. *)
FairSpec == Spec /\ WF_vars(Write) /\ WF_vars(Read)

------------------------------------------------------------------------------
(* Properties.                                                             *)

Taken == got \o sink        \* what write(2) has accepted, in order

(* The whole output: the header and every job's line, in order, each JSON  *)
(* text followed by its newline.                                           *)
Whole == [i \in 1..((LastLine + 1) * NL) |-> <<(i - 1) \div NL, ((i - 1) % NL) + 1>>]

(* Nothing is lost, doubled or out of order on its way out, even when a    *)
(* write was cut short and its rest written again at exit.                 *)
StreamIntact == Seqs!IsPrefix(Taken \o buf, Whole)

(* Before the next job is decoded every earlier line has left the process: *)
(* a reader can process a job while the next one is being decoded          *)
(* (main.rs:244-247).                                                      *)
LinesOutBeforeDecode == pc = "decode" => buf = <<>> /\ Len(Taken) = line * NL

(* Status 0 is only given for a stream the descriptor accepted in full.    *)
SuccessIsComplete == pc = "exited" /\ result = "ok" => Taken = Whole

(* What a reader of --jsonl makes of what came: the texts that fill a line *)
(* (the last perhaps without its newline), the first of them the header.   *)
GoodTexts ==
  {i \in Pieces..Len(got) :
     /\ SubSeq(got, i - Pieces + 1, i) = SubSeq(LineText(got[i][1]), 1, Pieces)
     /\ i = Pieces \/ got[i - Pieces][2] = NL
     /\ i = Len(got) \/ got[i + 1][2] = NL}
Trusts == Pieces \in GoodTexts /\ Cardinality(GoodTexts) = HeaderCount + 1

(* At end of file such a reader, who knows nothing but job_count, is right *)
(* about the stream: it is trusted exactly when every job came, in order   *)
(* and once, whatever happened to the writer (main.rs:229-232).                *)
AtEof == Ended /\ open /\ sink = <<>>
TruncationNoticed == AtEof /\ jsonl => (Trusts <=> got \in {Whole, Seqs!Front(Whole)})

(* The refinement mapping: a line is written when its newline is taken.    *)
writtenBar == Cardinality({i \in 1..Len(Taken) : Taken[i][2] = NL})

stateBar ==
  CASE pc = "killed" -> "killed"
    [] pc = "exited" -> IF result = "ok" THEN "success" ELSE "failure"
    [] pc = "cleanup" /\ result = "err" ->
         IF piece = 1 /\ writtenBar = line THEN "failedLate" ELSE "failed"
    [] OTHER -> "writing"

Lines == INSTANCE LineOutput WITH
  total <- LastLine + 1, written <- writtenBar, state <- stateBar

(* Seen from afar lines are written whole, one by one, or the run fails at *)
(* one of them and at most that one still gets out during the exit.        *)
WritesLines == Lines!Spec

(* The writer ends whether the reader stays or leaves; only a reader who   *)
(* stays without reading can hold it up.                                   *)
Termination == <>Ended

Came(n) == \E i \in 1..Len(got) : got[i] = <<n, Pieces>>

(* A line that was begun reaches a reader who stays, unless the process    *)
(* dies or a write fails.                                                  *)
LineArrives ==
  \A n \in 0..MaxJobs :
    (pc = "put" /\ line = n) ~> (Came(n) \/ ~open \/ pc = "killed" \/ result = "err")
==============================================================================
