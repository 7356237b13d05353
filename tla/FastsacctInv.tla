---------------------------- MODULE FastsacctInv ----------------------------
(***************************************************************************)
(* The inductive invariant behind the theorems of Fastsacct_proofs: those  *)
(* of Session and of the bytes of RowStream, and how the call the one is   *)
(* at and the line the other is in belong together.                        *)
(***************************************************************************)
EXTENDS Fastsacct

(* The LineWriter moves in step with main().                               *)
StepInv ==
  /\ out \in R!Writing \cup {"decode", "exited", "killed"}
  /\ out \in {"put", "full", "flush"} => AtWriteCall
  /\ out = "killed" <=> pc = "killed"
  /\ out = "exited" <=> pc = "exited"
  /\ out = "cleanup" => outcome = "err" \/ pc = "exit"
  /\ outcome = "err" => out \in {"cleanup", "exited", "killed"}

(* The line being put is the one Session counts next; behind its last      *)
(* piece the stream is one line ahead, until the call returns or for ever, *)
(* when it failed just there.                                              *)
LineInv ==
  /\ \/ line = lines /\ (piece = 1 => buf = <<>>)
     \/ line = lines + 1 /\ piece = 1
  /\ out \in {"decode", "put", "full"} => line = lines
  /\ out = "flush" => line = lines + 1
  /\ out \in {"cleanup", "exited"} /\ outcome = "ok" => line = lines /\ piece = 1

IInv == S!IInv /\ R!BytesInv /\ R!CallInv /\ StepInv /\ LineInv
=============================================================================
