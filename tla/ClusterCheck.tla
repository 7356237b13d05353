---------------------------- MODULE ClusterCheck ----------------------------
(***************************************************************************)
(* The validation on a real cluster: cluster-check.sh runs fastsacct and   *)
(* then sacct for one query, src/cluster_diff.py compares what they print. *)
(* fastsacct's side is JobValue; sacct's is external, the same records as  *)
(* its data_parser prints them.  Between the two dumps running jobs go on. *)
(* To see what the comparison is worth, one value of fastsacct's answer    *)
(* may be spoilt, as a wrong decoder would.                                *)
(***************************************************************************)
EXTENDS JobValue, Functions

CONSTANTS
  Stored,    \* sequences of job records the daemon can hold
  Specimen   \* records whose values a wrong decoder can yield instead

(* A TRES string is NULL or "<id>=<count>,..." with two unsigned numbers.  *)
Numeral == [1..1 -> 0..(U64 - 1)]
TresString == {Null} \cup ({"text"} \X Seq(Numeral \X Numeral))

JobRecord ==
  [jobid : 0..(U32 - 1), account : {Null} \cup ({"string"} \X STRING),
   array_task_id : 0..(U32 - 1), exitcode : 0..(U32 - 1), flags : 0..(U32 - 1),
   priority : 0..(U32 - 1), qosid : 0..(U32 - 1), req_mem : 0..(U64 - 1),
   state : 0..(U32 - 1), elapsed : 0..(U32 - 1), timelimit : 0..(U32 - 1),
   tres_alloc_str : TresString, tres_req_str : TresString]

ASSUME RecordAssumption == Stored \subseteq Seq(JobRecord) /\ Specimen \subseteq JobRecord

VARIABLES
  stored,      \* the daemon's answer, the same to both
  fa,          \* fastsacct.json, object by object
  sa,          \* sacct.json
  pc,          \* where cluster-check.sh is
  next,        \* the job of fa compared next
  mismatches,  \* Diff.mismatches: field and job
  exit,        \* the script's exit status
  spoilt       \* ghost: the field that was spoilt, <<job, key, right value>>

vars == <<stored, fa, sa, pc, next, mismatches, exit, spoilt>>

TypeOK ==
  /\ stored \in Stored
  /\ DOMAIN fa \in {{}, DOMAIN stored} /\ DOMAIN sa \in {{}, DOMAIN stored}
  /\ pc \in {"fastsacct", "sacct", "compare", "done"}
  /\ next \in 1..(Len(stored) + 1)
  /\ \A m \in mismatches : m.job < next
  /\ exit \in {0, 1}

Init ==
  /\ stored \in Stored
  /\ fa = <<>>
  /\ sa = <<>>
  /\ pc = "fastsacct"
  /\ next = 1
  /\ mismatches = {}
  /\ exit = 0
  /\ spoilt = <<>>

------------------------------------------------------------------------------
(* What sacct prints.                                                      *)

(* {set, infinite, number}                                                 *)
Wrapped(n) ==
  [set |-> n \notin {NO_VAL, INFINITE}, infinite |-> n = INFINITE,
   number |-> IF n \in {NO_VAL, INFINITE} THEN 0 ELSE n]

(* The wait macros of the C library.                                       *)
ReturnCode(status) ==
  Wrapped(IF status # NO_VAL /\ status % 128 = 0 THEN (status \div 256) % 256 ELSE NO_VAL)
Signal(status) ==
  Wrapped(IF status # NO_VAL /\ status % 128 \in 1..126 THEN status % 128 ELSE NO_VAL)

MEM_PER_CPU == HALF

(* Counts are signed; a TRES the cluster does not know has no type.        *)
SacctTres(pairs) ==
  [i \in DOMAIN pairs |->
     LET id == pairs[i][1][1]
         count == pairs[i][2][1]
     IN  [id |-> id, count |-> IF 2 * count >= U64 THEN count - U64 ELSE count,
          type |-> IF id \in DOMAIN tres_by_id THEN tres_by_id[id].type ELSE <<>>,
          name |-> IF id \in DOMAIN tres_by_id THEN tres_by_id[id].name ELSE <<>>]]

SacctJob(job) ==
  [job_id |-> Num(job.jobid),
   account |-> IF job.account = Null THEN Str("") ELSE job.account,
   task_id |-> Wrapped(job.array_task_id),
   priority |-> Wrapped(job.priority),
   limit |-> Wrapped(job.timelimit),
   elapsed |-> Num(job.elapsed),
   state |-> List(job_state(job.state)),
   flags |-> List(job_flags(job.flags)),
   qos |-> Str(qos_name(job.qosid)),
   memory_per_cpu |-> Wrapped(IF job.req_mem >= MEM_PER_CPU THEN job.req_mem - MEM_PER_CPU ELSE NO_VAL),
   memory_per_node |-> Wrapped(IF job.req_mem < MEM_PER_CPU THEN job.req_mem ELSE NO_VAL),
   allocated |-> SacctTres(Pairs(job.tres_alloc_str)),
   requested |-> SacctTres(Pairs(job.tres_req_str)),
   return_code |-> ReturnCode(job.exitcode),
   signal |-> Signal(job.exitcode)]

------------------------------------------------------------------------------
(* compare_all, field by field: the set of fields that differ.             *)

unwrap(w) == IF w.infinite THEN "inf" ELSE IF ~w.set THEN "unset" ELSE "v"

Sentinels == {Num(NO_VAL), Num(INFINITE)}

Differs(field, ok) == IF ok THEN {} ELSE {field}

eq_sentinel(field, fa_v, sa_v) ==
  Differs(field, fa_v = sa_v \/ (sa_v \in {Num(0), Str("")} /\ fa_v \in Sentinels \cup {Null}))

eq_wrapped(field, fa_v, w, null_on_unset, zero_on_inf) ==
  LET unsetOk == IF null_on_unset THEN fa_v = Null ELSE fa_v \in Sentinels
  IN  Differs(field,
        CASE unwrap(w) = "v" -> fa_v = Num(w.number)
          [] unwrap(w) = "inf" -> IF zero_on_inf THEN fa_v = Num(0) ELSE unsetOk
          [] unwrap(w) = "unset" -> unsetOk)

Active == {"RUNNING", "COMPLETING", "CONFIGURING", "RESIZING", "PENDING"}
Ongoing(states) == ToSet(states) \cap Active # {}
IsActive(f) == Ongoing(f[Key("state")][2])

ReturnCodeDiffers(f, s) ==
  LET fa_v == f[Key("exitcode_return_code")]
  IN  Differs("exitcode_return_code",
        /\ unwrap(s.return_code) = "v" => fa_v = Num(s.return_code.number)
        /\ unwrap(s.return_code) = "unset" => fa_v = Null)

HasSignal(s) == unwrap(s.signal) = "v" /\ s.signal.number > 0

\* Mutant: the signal is only looked at where sacct has one.
SignalIfAny(f, s) ==
  ReturnCodeDiffers(f, s)
  \cup Differs("exitcode_signal",
         HasSignal(s) => f[Key("exitcode_signal")] = Num(s.signal.number))

compare_exit_code(f, s) ==
  ReturnCodeDiffers(f, s)
  \cup Differs("exitcode_signal",
         f[Key("exitcode_signal")] = IF HasSignal(s) THEN Num(s.signal.number) ELSE Null)

CompareMem(f, s) ==
  LET mem == f[Key("req_mem")]
      Given(w) == unwrap(w) = "v" /\ w.number # 0
  IN  Differs("req_mem",
        CASE Given(s.memory_per_cpu) -> mem = Num(MEM_PER_CPU + s.memory_per_cpu.number)
          [] Given(s.memory_per_node) /\ ~Given(s.memory_per_cpu) -> mem = Num(s.memory_per_node.number)
          [] OTHER -> mem \in Sentinels \cup {Num(0)})

rebuild_tres_str(entries) ==
  [i \in DOMAIN entries |-> <<Some(entries[i].id), Some(entries[i].count % U64)>>]

(* partition(":"), and the key rules a second time, in Python.             *)
expand_tres(entries, prefix) ==
  LET Words(text) == SelectSeq(text, LAMBDA token : token \notin Separators)
      Cut(e) == SelectInSeq(e.name, LAMBDA token : token = ":")
      Base(e) == IF Cut(e) = 0 THEN e.name ELSE SubSeq(e.name, 1, Cut(e) - 1)
      GresType(e) == IF Cut(e) = 0 THEN <<>> ELSE SubSeq(e.name, Cut(e) + 1, Len(e.name))
      Type(e) == IF Words(e.type) = <<>> THEN <<"id", ToString(e.id)>> ELSE Words(e.type)
      Under(e) == <<prefix, Type(e) \o Words(Base(e))>>
      Added(e) ==
        [key \in {Under(e)} \cup (IF GresType(e) = <<>> THEN {} ELSE {TypeKey(Under(e))}) |->
           IF key = Under(e) THEN Num(e.count) ELSE Text(GresType(e))]
  IN  Inserted([i \in DOMAIN entries |-> Added(entries[i])])

CompareTres(f, str, prefix, entries) ==
  LET expansion == {key \in DOMAIN f : key[1] = prefix}
  IN  Differs(str, Pairs(f[Key(str)]) = rebuild_tres_str(entries))
      \cup Differs(prefix, Restrict(f, expansion) = expand_tres(entries, prefix))

Compare(f, s) ==
  eq_sentinel("account", f[Key("account")], s.account)
  \cup (IF IsActive(f) THEN {} ELSE eq_sentinel("time_elapsed", f[Key("time_elapsed")], s.elapsed))
  \cup eq_wrapped("priority", f[Key("priority")], s.priority, FALSE, FALSE)
  \cup eq_wrapped("array_task_id", f[Key("array_task_id")], s.task_id, TRUE, FALSE)
  \cup eq_wrapped("time_timelimit", f[Key("time_timelimit")], s.limit, FALSE, TRUE)
  \cup Differs("state", f[Key("state")] = s.state)
  \cup Differs("flags", f[Key("flags")] = s.flags)
  \cup eq_sentinel("qos", f[Key("qos")], s.qos)
  \cup CompareMem(f, s)
  \cup CompareTres(f, "tres_alloc_str", "allocated", s.allocated)
  \cup CompareTres(f, "tres_req_str", "requested", s.requested)
  \cup compare_exit_code(f, s)

(* sa_by_id: a later record of an id replaces an earlier one.              *)
Found(id) == {i \in DOMAIN sa : sa[i].job_id = id}

------------------------------------------------------------------------------
RunFastsacct ==
  /\ pc = "fastsacct"
  /\ fa' = [i \in DOMAIN stored |-> job_to_value(stored[i])]
  /\ pc' = "sacct"
  /\ UNCHANGED <<stored, sa, next, mismatches, exit, spoilt>>

(* SKIPPED, of the fields modelled here.                                   *)
NotCompared == {Key("exitcode")}

WrongObjects == {job_to_value(job) : job \in Specimen}

(* A decoder is wrong about one value of one job.                          *)
Spoil ==
  /\ pc = "sacct"
  /\ spoilt = <<>>
  /\ \E i \in DOMAIN fa, wrong \in WrongObjects :
       \E key \in (DOMAIN fa[i] \cap DOMAIN wrong) \ NotCompared :
         /\ fa[i][key] # wrong[key]
         /\ fa' = [fa EXCEPT ![i][key] = wrong[key]]
         /\ spoilt' = <<i, key, fa[i][key]>>
  /\ UNCHANGED <<stored, sa, pc, next, mismatches, exit>>

(* A job that runs when sacct asks has run longer.                         *)
Aged(job, drift) ==
  [job EXCEPT !.elapsed = @ + IF Ongoing(job_state(job.state)) THEN drift ELSE 0]

RunSacct ==
  /\ pc = "sacct"
  /\ \E drift \in 0..1 : sa' = [i \in DOMAIN stored |-> SacctJob(Aged(stored[i], drift))]
  /\ pc' = "compare"
  /\ UNCHANGED <<stored, fa, next, mismatches, exit, spoilt>>

FieldsOfJob(i) ==
  LET found == Found(fa[i][Key("job_id")])
  IN  IF found = {} THEN {"<presence>"} ELSE Compare(fa[i], sa[Max(found)])

Note(fields, i) == {[field |-> field, job |-> i] : field \in fields}

\* Mutant: the loop advances twice.
EveryOtherJob ==
  /\ pc = "compare"
  /\ next \in DOMAIN fa
  /\ mismatches' = mismatches \cup Note(FieldsOfJob(next), next)
  /\ next' = next + 2
  /\ UNCHANGED <<stored, fa, sa, pc, exit, spoilt>>

CompareJob ==
  /\ pc = "compare"
  /\ next \in DOMAIN fa
  /\ mismatches' = mismatches \cup Note(FieldsOfJob(next), next)
  /\ next' = next + 1
  /\ UNCHANGED <<stored, fa, sa, pc, exit, spoilt>>

Report ==
  /\ pc = "compare"
  /\ next \notin DOMAIN fa
  /\ exit' = IF mismatches = {} THEN 0 ELSE 1
  /\ pc' = "done"
  /\ UNCHANGED <<stored, fa, sa, next, mismatches, spoilt>>

Terminated == pc = "done" /\ UNCHANGED vars

Next == RunFastsacct \/ Spoil \/ RunSacct \/ CompareJob \/ Report \/ Terminated

Spec == Init /\ [][Next]_vars

------------------------------------------------------------------------------
(* Properties.                                                             *)

OneRecordPerId ==
  \A i, j \in DOMAIN fa : fa[i][Key("job_id")] = fa[j][Key("job_id")] => i = j

(* A memory per CPU of nothing, which sacct prints as no memory at all.    *)
NoMemoryPerCpu == {MEM_PER_CPU + n : n \in {0, NO_VAL, INFINITE}}

(* fastsacct's decoders and sacct's agree about every job under the rules  *)
(* of cluster_diff.py -- signed counts, exit pair, sentinels, memory per   *)
(* CPU, keys of the expansion, running jobs that tick on -- as long as no  *)
(* two records share a job id and none has a memory per CPU of nothing.    *)
AgreesWithSacct ==
  /\ pc = "done" /\ spoilt = <<>> /\ OneRecordPerId
  /\ \A i \in DOMAIN stored : stored[i].req_mem \notin NoMemoryPerCpu
  => exit = 0

(* The values the comparison takes for one another, by design: what sacct  *)
(* prints as 0, "" or unset.                                               *)
Blank ==
  {Null, Str(""), Text(<<>>)} \cup {Num(n) : n \in {0, NO_VAL, INFINITE} \cup NoMemoryPerCpu}

Excused ==
  LET f == fa[spoilt[1]]
      key == spoilt[2]
  IN  \/ f[key] \in Blank /\ spoilt[3] \in Blank
      \/ key = Key("time_elapsed") /\ IsActive(f)

(* A wrong value in any compared field of any job ends in status 1: no     *)
(* tolerance for sentinels, unset wrappers or live jobs lets a wrong value *)
(* through that is neither blank nor a running job's elapsed time.  (With  *)
(* two records of one id it can happen: the first is held against the last.) *)
CorruptionCaught ==
  pc = "done" /\ spoilt # <<>> /\ exit = 0 /\ OneRecordPerId => Excused

(* "exit code 1 on any hard-field mismatch" (cluster-check.sh:55): with    *)
(* nothing spoilt there is no mismatch, hence no exit code 1.              *)
SameAnswerAccepted == pc = "done" /\ spoilt = <<>> => exit = 0

(* Every count of tres_alloc_str is "also expanded into                    *)
(* allocated_<type>[_<name>]" fields (README.md:95-97).                    *)
EveryCountShown ==
  \A i \in DOMAIN fa :
    spoilt = <<>> =>
      \A entry \in ToSet(parse_tres(Pairs(stored[i].tres_alloc_str))) :
        fa[i][TresKey("allocated", entry)] = Num(entry.count)
==============================================================================
