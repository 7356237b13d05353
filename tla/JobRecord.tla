----------------------------- MODULE JobRecord -----------------------------
(***************************************************************************)
(* job_to_value of src/src/slurmdb.rs driven by the tables of src/src/abi: *)
(* a slurmdb_job_rec_t, which the library of one release has laid out as   *)
(* its header says, is read, row after row, at the offsets of the mirror   *)
(* in the ABI module of one release.  The two releases differ when --abi   *)
(* names another one than the library's.  The rows are taken kind by kind: *)
(* their order is only the order of output.                                *)
(***************************************************************************)
EXTENDS JobLayout

VARIABLES
  lib,      \* release of the library whose records are read
  abi,      \* release of the ABI module in use
  next,     \* next row of JOB_FIELDS
  keys,     \* keys inserted into the JSON object, in order
  misread   \* rows whose bytes are not one field of the right type

vars == <<lib, abi, next, keys, misread>>

\* Mutant: the exit code expanded under the key of the raw status.
RawExitKeys == <<"exitcode", "exitcode_signal">>

(* Keys job_to_value adds after the table, TRES expansions aside.          *)
ExitKeys == <<"exitcode_return_code", "exitcode_signal">>

KindType(kind) ==
  CASE kind = "Str" -> "char*" [] kind = "U16" -> "u16" [] kind = "U64" -> "u64"
    [] kind = "Time" -> "i64" [] OTHER -> "u32"

(* The bytes a row of ABI a names in a record of library l are a field of  *)
(* the row's name and of the type its kind reads.                          *)
ReadsField(row, a, l) ==
  LET struct == slurmdb_job_rec_t(l)
  IN  \E i \in DOMAIN struct :
        /\ struct[i].name = row.field
        /\ struct[i].type = KindType(row.kind)
        /\ Offsets(struct)[i] = Offset(JobRec(a), row.field)

(* The field of this name, of one type on both sides, is where the mirror  *)
(* has it.                                                                 *)
ReadsThrough(mirror, struct, name) ==
  \E i \in DOMAIN struct :
    /\ struct[i] = mirror[Position(mirror, name)] /\ struct[i].name = name
    /\ Offsets(struct)[i] = Offset(mirror, name)

------------------------------------------------------------------------------
TypeOK ==
  /\ lib \in Release /\ abi \in Release
  /\ next \in 1..(Len(JobFields(abi)) + 2)
  /\ Len(keys) <= Len(JobFields(abi)) + Len(ExitKeys)
  /\ misread \subseteq ToSet(JobFields(abi))

Init ==
  /\ lib \in Release
  /\ abi \in Release
  /\ next = 1
  /\ keys = <<>>
  /\ misread = {}

ReadRow ==
  /\ next <= Len(JobFields(abi))
  /\ LET row == JobFields(abi)[next]
     IN  /\ keys' = Append(keys, row.key)
         /\ misread' = IF ReadsField(row, abi, lib) THEN misread ELSE misread \cup {row}
  /\ next' = next + 1
  /\ UNCHANGED <<lib, abi>>

\* Mutant: derived_ec expanded under the keys of exitcode.
AddDerivedToo ==
  /\ next = Len(JobFields(abi)) + 1
  /\ keys' = keys \o ExitKeys \o ExitKeys
  /\ next' = next + 1
  /\ UNCHANGED <<lib, abi, misread>>

AddExitCode ==
  /\ next = Len(JobFields(abi)) + 1
  /\ keys' = keys \o ExitKeys
  /\ next' = next + 1
  /\ UNCHANGED <<lib, abi, misread>>

Decoded == next > Len(JobFields(abi)) + 1
Terminated == Decoded /\ UNCHANGED vars

Next == ReadRow \/ AddExitCode \/ Terminated

Spec == Init /\ [][Next]_vars

------------------------------------------------------------------------------
(* Properties.                                                             *)

(* With the library's own ABI module, and with 25.05 and 25.11 taken for   *)
(* each other, every row reads one whole field, the one it names, as the   *)
(* C type the header gives it: nothing checks the mirror against the       *)
(* header, nor kind against field when the table is built (job_fields!,    *)
(* abi/mod.rs:158-167).                                                    *)
SameLayout == lib = abi \/ {lib, abi} = {"25.05", "25.11"}

EveryRowReadRight == SameLayout => misread = {}

(* No key of the table or of the exit code is inserted twice: serde_json's *)
(* Map would keep the later value without a word.                          *)
NoKeyTwice == \A i, j \in DOMAIN keys : keys[i] = keys[j] => i = j

(* A --abi that is wrong about the layout is never harmless: by the end of *)
(* the walk a pointer was read where the library keeps none, or a number   *)
(* is garbage.  Nothing in fastsacct notices.                              *)
WrongAbiMisreads == Decoded /\ ~SameLayout => misread # {}

(* A wrong --abi does not reach the TRES names, and neither does a mirror  *)
(* without the modifier of 25.11: whatever the header of the library says  *)
(* and whichever mirror --abi picks, fetch_tres finds id, name and type,   *)
(* each where it is and as what it is (slurmdb.rs:551-566).  Nothing keeps *)
(* the next release from moving them.                                      *)
LookupsReadRight ==
  \A field \in LookupFields :
    ReadsThrough(TresRecOf(abi), slurmdb_tres_rec_t(lib), field)

(* The record structs of slurmdb.rs "mirror the real headers               *)
(* field-for-field in order" (slurmdb.rs:49-50): the ABI module of a       *)
(* release picks the mirror of what its header declares.                   *)
TresRecMirrored == lib = abi => TresRecOf(abi) = slurmdb_tres_rec_t(lib)

(* Across releases the struct has "only ever grown by appending fields at  *)
(* the end" (abi/mod.rs:23-24): an older record is a prefix of a newer one.*)
OnlyAppended ==
  \A older, newer \in DOMAIN Releases :
    older < newer /\ Releases[older] = abi /\ Releases[newer] = lib =>
      IsPrefix(slurmdb_job_rec_t(abi), slurmdb_job_rec_t(lib))
==============================================================================
