------------------------------ MODULE Fastsacct ------------------------------
(***************************************************************************)
(* The whole process: Session decides what is written and what a failed    *)
(* write means, RowStream gets the bytes out.  Session's choice between a  *)
(* line written and a line failed is made here by the stream: the two      *)
(* modules share the result of the write (outcome), job_count and --jsonl, *)
(* and the call of write_line or write_blob ends in both at once.  The     *)
(* connection to slurmdbd is held while a reader is slow.                  *)
(***************************************************************************)
EXTENDS Naturals, Sequences

CONSTANTS
  Release, Files, None, MaxLookups, MaxJobs, Implemented,   \* as in Session
  Pieces, BufCap, SinkCap,                                  \* as in RowStream
  Starts      \* command lines a process can be started with

VARIABLES
  disk, image, global, errno, opened, closed, list, itr, left, fault,
  args, stderrOk, pc, code, report, abi, conn, sampled, walk, count, decoded, lines, outcome,
  out,        \* RowStream's pc: what the LineWriter does next
  line, piece, buf, sink, got, open

sessionVars ==
  <<disk, image, global, errno, opened, closed, list, itr, left, fault, args, stderrOk, pc,
    code, report, abi, conn, sampled, walk, count, decoded, lines, outcome>>
streamVars == <<out, line, piece, buf, sink, got, open>>
vars == <<sessionVars, streamVars>>

(* With their theorems, which Fastsacct_proofs builds on.                  *)
S == INSTANCE Session_proofs
R == INSTANCE RowStreamLines_proofs WITH
       jobs <- count, jsonl <- args.jsonl, pc <- out, result <- outcome

ASSUME StartsAssumption == Starts \subseteq S!Args

(* What Session and RowStream assume of their constants.                   *)
ASSUME PartsAssumption ==
  /\ Files \subseteq [release : Release, version : BOOLEAN, api : BOOLEAN]
  /\ None \notin Files /\ None \notin Release
  /\ Implemented \subseteq Release
  /\ MaxLookups \in Nat /\ MaxJobs \in Nat
  /\ Pieces \in Nat \ {0} /\ BufCap \in Nat \ {0} /\ SinkCap \in Nat \ {0}

Init ==
  /\ S!Init
  /\ args \in Starts
  /\ out = "decode"
  /\ line = 0
  /\ piece = 1
  /\ buf = <<>>
  /\ sink = <<>>
  /\ got = <<>>
  /\ open \in BOOLEAN

------------------------------------------------------------------------------
(* Everything main() does apart from standard output.                      *)
OwnStep ==
  /\ \/ S!Parse \/ S!New \/ S!Query
     \/ S!Iterate \/ S!NextRecord \/ S!CollectJob \/ S!DestroyIterator \/ S!DestroyList
     \/ S!CloseDb \/ S!MatchResult \/ S!DropSlurmdb
  /\ UNCHANGED streamVars

(* A call of write_line or write_blob: the three statements that make one, *)
(* and what each does with the result.                                     *)
WriteCall == S!WriteHeader \/ S!StreamJob \/ S!WriteBlob

AtWriteCall == pc \in {"header", "blob"} \/ (pc = "each" /\ args.jsonl)

BeginLine ==
  /\ AtWriteCall
  /\ UNCHANGED sessionVars
  /\ R!BeginLine

InLine ==
  /\ UNCHANGED sessionVars
  /\ \/ R!PutPiece
     \/ R!BufferFull
     \/ out \in {"full", "flush"} /\ R!WriteSome
     \/ out = "full" /\ R!Flushed

(* The line is out, or the reader has gone.                                *)
EndLine ==
  /\ AtWriteCall
  /\ out # "cleanup"
  /\ WriteCall
  /\ \/ out = "flush" /\ R!Flushed
     \/ R!BrokenPipe

FailLine ==
  /\ AtWriteCall
  /\ out # "cleanup"
  /\ WriteCall
  /\ R!WriteError

(* After main() std flushes what the LineWriter still holds, once and deaf *)
(* to errors; a run that has written nothing has nothing to flush.         *)
AtExit ==
  /\ pc = "exit"
  /\ UNCHANGED sessionVars
  /\ \/ R!AllWritten
     \/ out = "cleanup" /\ R!WriteSome

Exit ==
  /\ S!Exit
  /\ \/ out = "cleanup" /\ (R!Flushed \/ R!BrokenPipe)
     \/ out = "decode" /\ line = 0 /\ out' = "exited" /\ UNCHANGED <<line, piece, buf, sink, got, open>>

FailExit ==
  /\ S!Exit
  /\ out = "cleanup"
  /\ R!WriteError

------------------------------------------------------------------------------
Read == UNCHANGED sessionVars /\ R!Read
StopReading == UNCHANGED sessionVars /\ R!StopReading
StderrBreaks == S!StderrBreaks /\ UNCHANGED streamVars
Kill == S!Kill /\ R!Kill

Terminated == S!Ended /\ UNCHANGED sessionVars /\ R!Terminated

Process == OwnStep \/ BeginLine \/ InLine \/ EndLine \/ AtExit \/ Exit

Next ==
  \/ Process \/ FailLine \/ FailExit
  \/ Read \/ StopReading \/ StderrBreaks \/ Kill \/ Terminated

Spec == Init /\ [][Next]_vars

(* The process runs while the pipe lets it, every RPC returns, and a       *)
(* reader who has not gone away reads.                                     *)
FairSpec == Spec /\ WF_vars(Process) /\ WF_vars(Read)

------------------------------------------------------------------------------
(* Properties.                                                             *)

Newlines == R!writtenBar

(* Session's view of the stream -- a line is written or it fails -- is the *)
(* truth about the bytes: every line it counts has left the process with   *)
(* its newline, and at most the line it is writing, or the one that failed *)
(* and went out during the exit, is ahead of the count.                    *)
LinesAreOut ==
  /\ lines <= Newlines /\ Newlines <= lines + 1
  /\ out = "decode" => Newlines = lines

(* Status 0 means that the descriptor has taken the header or the blob and *)
(* a line for every job slurmdbd answered, all of them decoded, in order,  *)
(* and nothing else (main.rs:238-269).                                     *)
StatusZeroIsWhole ==
  pc = "exited" /\ code = 0 => R!Taken = R!Whole /\ decoded = count /\ conn = "null"

(* What reaches standard output once the connection is closed is the rest  *)
(* of a line that failed before, in a run that reports the failure: no     *)
(* successful run leaves output to the flush at exit, where an error would *)
(* go unnoticed.                                                           *)
NoLateOutput ==
  [][R!Taken' # R!Taken /\ closed = 1 => outcome = "err" /\ code \in {1, 101}]_vars

(* The accounting daemon gets its connection back however slow the reader  *)
(* of standard output is, provided it reads or leaves: no write, walk or   *)
(* panic keeps the connection for ever, save in a process that is killed.  *)
ConnectionReleased == opened = 1 ~> (closed = 1 \/ pc = "killed")
=============================================================================
