---------------------------- MODULE RowStreamInv ----------------------------
(***************************************************************************)
(* The inductive invariant behind the theorems of RowStream_proofs.  What  *)
(* the LineWriter was given is one sequence, cut into what the reader has, *)
(* what the pipe holds and what the buffer holds; line and piece say how   *)
(* long it is.  BytesInv and CallInv do not mention the number of jobs:    *)
(* Fastsacct, where it becomes known on the way, uses them as they are.    *)
(***************************************************************************)
EXTENDS RowStream

Piece == Nat \X (1..NL)

Put == line * NL + piece - 1        \* pieces given to the LineWriter so far

PieceAt(i) == <<(i - 1) \div NL, ((i - 1) % NL) + 1>>

(* Everything given is still somewhere, in order; the buffer holds pieces  *)
(* of the line being written, or of the one just ended.                    *)
BytesInv ==
  /\ line \in Nat
  /\ piece \in 1..NL
  /\ got \in Seq(Piece) /\ sink \in Seq(Piece) /\ buf \in Seq(Piece)
  /\ Taken \o buf = [i \in 1..Put |-> PieceAt(i)]
  /\ Len(buf) < piece \/ (piece = 1 /\ line > 0 /\ Len(buf) <= NL)

(* Where a call of write_line stands.                                      *)
CallInv ==
  /\ pc = "decode" => buf = <<>> /\ piece = 1
  /\ pc \in {"put", "full"} => Len(buf) < piece
  /\ pc = "full" => Len(buf) <= BufCap /\ piece > 1
  /\ pc = "flush" => piece = 1 /\ line > 0

(* How far the walk has come, and what a result of "ok" is worth.          *)
JobsInv ==
  /\ line <= LastLine + 1
  /\ piece > 1 \/ pc \in {"put", "full"} => line <= LastLine
  /\ pc \in {"decode", "put", "full", "flush"} => result = "ok"
  /\ pc \in {"cleanup", "exited"} /\ result = "ok" => line = LastLine + 1 /\ buf = <<>>

IInv == TypeOK /\ BytesInv /\ CallInv /\ JobsInv
=============================================================================
