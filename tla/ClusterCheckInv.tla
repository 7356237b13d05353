--------------------------- MODULE ClusterCheckInv ---------------------------
(***************************************************************************)
(* The inductive invariant of ClusterCheck.  What fastsacct printed is     *)
(* what its decoders make of the records, save for the one value that was  *)
(* spoilt; what sacct printed are the same records, a moment later; and    *)
(* the loop has found every difference of the jobs behind it.              *)
(***************************************************************************)
EXTENDS ClusterCheck

Right(i) == job_to_value(stored[i])

(* One value of job i is another record's: the ghost tells which, and what *)
(* it was.                                                                 *)
SpoiltAt(i, key, wrong) ==
  /\ i \in DOMAIN stored /\ wrong \in WrongObjects
  /\ key \in (DOMAIN Right(i) \cap DOMAIN wrong) \ NotCompared
  /\ wrong[key] # Right(i)[key]
  /\ spoilt = <<i, key, Right(i)[key]>>
  /\ fa = [j \in DOMAIN stored |->
             IF j = i THEN [Right(i) EXCEPT ![key] = wrong[key]] ELSE Right(j)]

FastsacctInv ==
  IF pc = "fastsacct" THEN fa = <<>> /\ spoilt = <<>>
  ELSE IF spoilt = <<>> THEN fa = [j \in DOMAIN stored |-> Right(j)]
  ELSE \E i \in DOMAIN stored, wrong \in WrongObjects :
         \E key \in DOMAIN wrong : SpoiltAt(i, key, wrong)

SacctInv ==
  IF pc \in {"fastsacct", "sacct"} THEN sa = <<>>
  ELSE \E drift \in 0..1 : sa = [i \in DOMAIN stored |-> SacctJob(Aged(stored[i], drift))]

(* Every difference of a job behind the loop, and no other.                *)
LoopInv ==
  /\ pc \in {"fastsacct", "sacct"} => next = 1
  /\ mismatches = UNION {Note(FieldsOfJob(i), i) : i \in 1..(next - 1)}

ReportInv ==
  /\ pc = "done" => next \notin DOMAIN fa
  /\ exit = IF pc = "done" /\ mismatches # {} THEN 1 ELSE 0

IInv == TypeOK /\ FastsacctInv /\ SacctInv /\ LoopInv /\ ReportInv
=============================================================================
