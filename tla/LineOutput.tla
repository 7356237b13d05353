----------------------------- MODULE LineOutput -----------------------------
(***************************************************************************)
(* Standard output as the rest of the program sees it: lines that are      *)
(* written whole or fail.  A failed line is the last one, its failure is   *)
(* reported by the exit status, and at most that very line can still turn  *)
(* up afterwards.                                                          *)
(***************************************************************************)
EXTENDS Naturals

CONSTANT MaxJobs    \* most jobs in one answer

VARIABLES
  total,    \* lines there are to write
  written,  \* lines written whole
  state     \* how the writer stands

vars == <<total, written, state>>

Init ==
  /\ total \in 1..(MaxJobs + 1)
  /\ written = 0
  /\ state = "writing"

WriteLine ==
  /\ state = "writing"
  /\ written < total
  /\ written' = written + 1
  /\ UNCHANGED <<total, state>>

FailLine ==
  /\ state = "writing"
  /\ written < total
  /\ state' = "failed"
  /\ UNCHANGED <<total, written>>

(* The rest of the failed line went out during the exit after all.         *)
LateLine ==
  /\ state = "failed"
  /\ written' = written + 1
  /\ state' = "failedLate"
  /\ UNCHANGED total

Finish ==
  /\ \/ state = "writing" /\ written = total /\ state' = "success"
     \/ state \in {"failed", "failedLate"} /\ state' = "failure"
  /\ UNCHANGED <<total, written>>

Die ==
  /\ state \notin {"success", "failure"}
  /\ state' = "killed"
  /\ UNCHANGED <<total, written>>

Next == WriteLine \/ FailLine \/ LateLine \/ Finish \/ Die

Spec == Init /\ [][Next]_vars
=============================================================================
