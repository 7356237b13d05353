---------------------------- MODULE JobRecordInv ----------------------------
(***************************************************************************)
(* The inductive invariant of JobRecord: the walk has gone through the     *)
(* rows behind next, each once, and has left out none that is misread.     *)
(***************************************************************************)
EXTENDS JobRecord

RowKeys(rows, n) == [i \in 1..n |-> rows[i].key]

(* Keys in the order of the table, after it those of the exit code.        *)
KeysInv ==
  keys = IF Decoded THEN RowKeys(JobFields(abi), Len(JobFields(abi))) \o ExitKeys
         ELSE RowKeys(JobFields(abi), next - 1)

Behind == {JobFields(abi)[i] : i \in {i \in DOMAIN JobFields(abi) : i < next}}

MisreadInv == misread = {row \in Behind : ~ReadsField(row, abi, lib)}

IInv == TypeOK /\ KeysInv /\ MisreadInv
=============================================================================
