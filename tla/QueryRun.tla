------------------------------ MODULE QueryRun ------------------------------
(***************************************************************************)
(* What one run of fastsacct promises to the accounting daemon and to its  *)
(* caller, with no library, list or errno in sight: at most one session;   *)
(* at most one answer, obtained inside it; jobs delivered only inside it   *)
(* and never more than were answered; no exit while the session is open;   *)
(* status 0 only when every job was delivered, status 2 only when no       *)
(* session was ever opened.  A killed process promises nothing.            *)
(***************************************************************************)
EXTENDS Naturals

CONSTANT MaxJobs    \* most jobs one answer can hold

VARIABLES
  session,     \* the connection to slurmdbd
  answer,      \* jobs in the answer to the query
  delivered,   \* jobs the caller has received
  status       \* exit status, or how the process stands

vars == <<session, answer, delivered, status>>

Unanswered == MaxJobs + 1

Init ==
  /\ session = "none"
  /\ answer = Unanswered
  /\ delivered = 0
  /\ status = "running"

Connect ==
  /\ session = "none"
  /\ session' = "open"
  /\ UNCHANGED <<answer, delivered, status>>

Answer ==
  /\ session = "open"
  /\ answer = Unanswered
  /\ answer' \in 0..MaxJobs
  /\ UNCHANGED <<session, delivered, status>>

Deliver ==
  /\ session = "open"
  /\ answer # Unanswered
  /\ delivered' \in (delivered + 1)..answer
  /\ UNCHANGED <<session, answer, status>>

Disconnect ==
  /\ session = "open"
  /\ session' = "closed"
  /\ UNCHANGED <<answer, delivered, status>>

Finish ==
  /\ session # "open"
  /\ \/ status' = "complete" /\ session = "closed" /\ delivered = answer
     \/ status' = "usage" /\ session = "none"
     \/ status' = "failed"
  /\ UNCHANGED <<session, answer, delivered>>

Die ==
  /\ status' = "killed"
  /\ UNCHANGED <<session, answer, delivered>>

Next ==
  /\ status = "running"
  /\ Connect \/ Answer \/ Deliver \/ Disconnect \/ Finish \/ Die

Spec == Init /\ [][Next]_vars
=============================================================================
