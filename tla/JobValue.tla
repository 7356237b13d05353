------------------------------ MODULE JobValue ------------------------------
(***************************************************************************)
(* What job_to_value of src/src/slurmdb.rs makes of the fields of one job  *)
(* record, with the decoders of src/src/decode.rs.  Which bytes the fields *)
(* come from is JobLayout's; here they have their values.                  *)
(***************************************************************************)
EXTENDS Integers, Sequences, SequencesExt, FiniteSetsExt, TLC

CONSTANTS
  U32,         \* how many values a uint32_t has
  U64,         \* how many values a uint64_t has
  tres_by_id,  \* TRES table of the cluster: id to type and name
  qos_by_id    \* QOS table of the cluster: id to name

(* A wait status and the state bits have to fit below the sentinels, the   *)
(* sentinels below the top bit of a uint64_t.                              *)
ASSUME WidthAssumption ==
  /\ U32 \in Nat /\ U32 > 512 * 256
  /\ U64 \in Nat /\ U64 % 2 = 0 /\ U64 >= 2 * U32

NO_VAL == U32 - 2
INFINITE == U32 - 1

(* A JSON value carries its type.  A key is the text it begins with and    *)
(* the words that follow it between underscores.                           *)
Key(name) == <<name, <<>>>>
Null == <<"null">>
Num(n) == <<"number", n>>
Str(s) == <<"string", s>>
Text(words) == <<"text", words>>      \* a string of several words or pairs
List(l) == <<"list", l>>

(* Optional numbers: what a str parses to, what an Option<u32> holds.      *)
Nothing == <<>>
Some(n) == <<n>>
Default(opt) == IF opt = Nothing THEN 0 ELSE opt[1]
NumOrNull(opt) == IF opt = Nothing THEN Null ELSE Num(opt[1])

------------------------------------------------------------------------------
(* State and flags: a base value in the low byte, bits above it.           *)

JOB_STATE_BASE ==
  <<"PENDING", "RUNNING", "SUSPENDED", "COMPLETED", "CANCELLED", "FAILED", "TIMEOUT",
    "NODE_FAIL", "PREEMPTED", "BOOT_FAIL", "DEADLINE", "OUT_OF_MEMORY">>

JOB_STATE_FLAG_BITS ==
  <<<<8, "LAUNCH_FAILED">>, <<10, "REQUEUED">>, <<11, "REQUEUE_HOLD">>, <<12, "SPECIAL_EXIT">>,
    <<13, "RESIZING">>, <<14, "CONFIGURING">>, <<15, "COMPLETING">>, <<16, "STOPPED">>,
    <<17, "RECONFIG_FAIL">>, <<18, "POWER_UP_NODE">>, <<19, "REVOKED">>, <<20, "REQUEUE_FED">>,
    <<21, "RESV_DEL_HOLD">>, <<22, "SIGNALING">>, <<23, "STAGE_OUT">>, <<24, "EXPEDITING">>>>

FLAG_BITS ==
  <<<<0, "NOT_SET">>, <<1, "STARTED_ON_SUBMIT">>, <<2, "STARTED_ON_SCHEDULE">>,
    <<3, "STARTED_ON_BACKFILL">>, <<4, "START_RECEIVED">>, <<5, "JOB_ALTERED">>>>

HasBit(raw, bit) == (raw \div 2^bit) % 2 = 1

BitNames(raw, table) ==
  LET set == SelectSeq(table, LAMBDA entry : HasBit(raw, entry[1]))
  IN  [i \in DOMAIN set |-> set[i][2]]

If(cond, name) == IF cond THEN <<name>> ELSE <<>>

job_state(raw) ==
  LET base == (raw % 256) + 1
  IN  (IF base \in DOMAIN JOB_STATE_BASE THEN <<JOB_STATE_BASE[base]>> ELSE <<>>)
        \o BitNames(raw, JOB_STATE_FLAG_BITS)

job_flags(raw) ==
  If(raw = 0, "NONE") \o If(raw = 15, "CLEAR_SCHEDULING") \o BitNames(raw, FLAG_BITS)

------------------------------------------------------------------------------
(* The exit status and the QOS.                                            *)

(* The return code and the signal of a wait status.                        *)
process_exit_code(raw) ==
  LET low7 == raw % 128
  IN  CASE raw = NO_VAL -> <<Nothing, Nothing>>
        [] raw # NO_VAL /\ low7 = 0 -> <<Some((raw \div 256) % 256), Nothing>>
        [] raw # NO_VAL /\ low7 \notin {0, 127} -> <<Nothing, Some(low7)>>
        [] OTHER -> <<Nothing, Nothing>>

qos_name(qid) ==
  CASE qid \in {0, INFINITE} -> ""
    [] qid \notin DOMAIN qos_by_id /\ qid \notin {0, INFINITE} -> "Unknown"
    [] OTHER -> IF qos_by_id[qid] = "" THEN ToString(qid) ELSE qos_by_id[qid]

------------------------------------------------------------------------------
(* TRES.  A TRES string is a sequence of pairs <<id, count>>, each half a  *)
(* numeral or no number at all; <<>> is the empty pair between two commas. *)
(* A name is a sequence of words and separators.                           *)

HALF == U64 \div 2

AsI64(n) == IF n >= HALF THEN n - U64 ELSE n

InRange(numeral, lo, hi) ==
  IF numeral # Nothing /\ numeral[1] >= lo /\ numeral[1] <= hi THEN numeral ELSE Nothing

ParseU64(numeral) == InRange(numeral, 0, U64 - 1)
ParseI64(numeral) == InRange(numeral, -HALF, HALF - 1)

\* Mutant: a count that does not fit an int64 counts as unreadable.
SignedOnly(numeral) == Default(ParseI64(numeral))

Count(numeral) ==
  IF ParseU64(numeral) # Nothing THEN AsI64(ParseU64(numeral)[1]) ELSE Default(ParseI64(numeral))

(* The entry of each pair; an empty pair has none.                         *)
parse_tres(raw) ==
  [i \in {i \in DOMAIN raw : raw[i] # <<>>} |->
     LET id == Default(ParseU64(raw[i][1]))
         known == id \in DOMAIN tres_by_id
     IN  [id |-> id, count |-> Count(raw[i][2]),
          type |-> IF known THEN tres_by_id[id].type ELSE <<>>,
          name |-> IF known THEN tres_by_id[id].name ELSE <<>>]]

Separators == {":", "/", "_", " ", "-"}

tres_key_part(text) == SelectSeq(text, LAMBDA token : token \notin Separators)

(* name.split_once(':'): the GRES and its model.                           *)
Colon(name) == SelectInSeq(name, LAMBDA token : token = ":")
BaseName(name) == IF Colon(name) = 0 THEN name ELSE SubSeq(name, 1, Colon(name) - 1)
Model(name) == IF Colon(name) = 0 THEN <<>> ELSE SubSeq(name, Colon(name) + 1, Len(name))

TresKey(prefix, entry) ==
  LET type == tres_key_part(entry.type)
  IN  <<prefix, (IF type = <<>> THEN <<"id", ToString(entry.id)>> ELSE type)
                  \o tres_key_part(BaseName(entry.name))>>

(* <key>_type                                                              *)
TypeKey(key) == <<key[1], key[2] \o <<"type">>>>

(* Map::insert, map after map: the last one that has a key gives its value.*)
Inserted(maps) ==
  [key \in UNION {DOMAIN maps[i] : i \in DOMAIN maps} |->
     maps[Max({i \in DOMAIN maps : key \in DOMAIN maps[i]})][key]]

tres_flat_fields(prefix, raw) ==
  LET entries == parse_tres(raw)
      Fields(entry) ==
        LET key == TresKey(prefix, entry)
            model == Model(entry.name)
        IN  [k \in {key} \cup (IF model = <<>> THEN {} ELSE {TypeKey(key)}) |->
               IF k = key THEN Num(entry.count) ELSE Text(model)]
  IN  Inserted([i \in DOMAIN entries |-> Fields(entries[i])])

------------------------------------------------------------------------------
(* The object.                                                             *)

NoVal32(n) == IF n \in {NO_VAL, INFINITE} THEN Null ELSE Num(n)

U32Inf0(n) == Num(IF n = INFINITE THEN 0 ELSE n)

(* The rows of the table, one of each kind and those the checks compare.   *)
TableRows(job) ==
  [account |-> job.account,
   array_task_id |-> NoVal32(job.array_task_id),
   exitcode |-> Num(job.exitcode),
   flags |-> List(job_flags(job.flags)),
   job_id |-> Num(job.jobid),
   priority |-> Num(job.priority),
   qos |-> Str(qos_name(job.qosid)),
   req_mem |-> Num(job.req_mem),
   state |-> List(job_state(job.state)),
   time_elapsed |-> Num(job.elapsed),
   time_timelimit |-> U32Inf0(job.timelimit),
   tres_alloc_str |-> job.tres_alloc_str,
   tres_req_str |-> job.tres_req_str]

ExitFields(job) ==
  LET decoded == process_exit_code(job.exitcode)
  IN  [exitcode_return_code |-> NumOrNull(decoded[1]), exitcode_signal |-> NumOrNull(decoded[2])]

Named(rows) == [key \in {Key(name) : name \in DOMAIN rows} |-> rows[key[1]]]

(* as_str().unwrap_or_default(): a NULL string has no pairs.               *)
Pairs(value) == IF value = Null THEN <<>> ELSE value[2]

job_to_value(job) ==
  Inserted(<<Named(TableRows(job)),
             tres_flat_fields("allocated", Pairs(job.tres_alloc_str)),
             tres_flat_fields("requested", Pairs(job.tres_req_str)),
             Named(ExitFields(job))>>)
==============================================================================
