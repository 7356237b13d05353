----------------------------- MODULE JobLayout -----------------------------
(***************************************************************************)
(* The records of libslurmdb as the headers in src/mock/include declare    *)
(* them, release by release, the mirrors of src/src/abi and                *)
(* src/src/slurmdb.rs through which fastsacct reads them, where C puts     *)
(* their fields, and the tables of rows.                                   *)
(***************************************************************************)
EXTENDS Naturals, Sequences, SequencesExt

Releases == <<"24.11", "25.05", "25.11", "26.05">>
Release == ToSet(Releases)

------------------------------------------------------------------------------
(* Structs, field by field, and how two of them differ.                    *)

Char(name) == [name |-> name, type |-> "char*"]
Ptr(name) == [name |-> name, type |-> "void*"]
U16(name) == [name |-> name, type |-> "u16"]
U32(name) == [name |-> name, type |-> "u32"]
U64(name) == [name |-> name, type |-> "u64"]
I8(name) == [name |-> name, type |-> "i8"]
I64(name) == [name |-> name, type |-> "i64"]

Position(rec, name) == CHOOSE i \in DOMAIN rec : rec[i].name = name
Before(rec, name, new) == InsertAt(rec, Position(rec, name), new)
Without(rec, name) == RemoveAt(rec, Position(rec, name))

------------------------------------------------------------------------------
(* The records of the library, as slurm/slurmdb.h of each release declares *)
(* them.  A C type goes by the name of the Rust type of its values.        *)

JobHeader25_05 ==
  <<Char("account"), Char("admin_comment"), U32("alloc_nodes"),
    U32("array_job_id"), U32("array_max_tasks"), U32("array_task_id"),
    Char("array_task_str"), U32("associd"), Char("blockid"), Char("cluster"),
    Char("constraints"), Char("container"), U64("db_index"), U32("derived_ec"),
    Char("derived_es"), U32("elapsed"), I64("eligible"), I64("end"), Char("env"),
    U32("exitcode"), Char("extra"), Char("failed_node"), U32("flags"),
    Ptr("first_step_ptr"), U32("gid"), U32("het_job_id"), U32("het_job_offset"),
    U32("jobid"), Char("jobname"), Char("lineage"), Char("licenses"),
    Char("mcs_label"), Char("nodes"), Char("partition"), U32("priority"),
    U32("qosid"), Char("qos_req"), U32("req_cpus"), U64("req_mem"), U32("requid"),
    U16("restart_cnt"), U32("resvid"), Char("resv_name"), Char("resv_req"),
    Char("script"), U16("segment_size"), U32("show_full"), I64("start"),
    U32("state"), U32("state_reason_prev"), Ptr("steps"), Char("std_err"),
    Char("std_in"), Char("std_out"), I64("submit"), Char("submit_line"),
    U32("suspended"), Char("system_comment"), U64("sys_cpu_sec"),
    U64("sys_cpu_usec"), U32("timelimit"), U64("tot_cpu_sec"),
    U64("tot_cpu_usec"), Char("tres_alloc_str"), Char("tres_req_str"), U32("uid"),
    Char("used_gres"), Char("user"), U64("user_cpu_sec"), U64("user_cpu_usec"),
    Char("wckey"), U32("wckeyid"), Char("work_dir")>>

slurmdb_job_rec_t(r) ==
  CASE r = "24.11" ->
         Without(Without(Before(JobHeader25_05, "lineage", U32("lft")), "resv_req"),
                 "segment_size")
    [] r \in {"25.05", "25.11"} -> JobHeader25_05
    [] r = "26.05" ->
         Before(Before(Before(JobHeader25_05, "exitcode", Char("exclusive")),
                       "partition", Char("oversubscribe")),
                "start", U64("sluid"))

(* `char modifier' has been there since 25.11.  Its `type' is called       *)
(* tres_type here, as in the mirror.                                       *)
slurmdb_tres_rec_t(r) ==
  IF r \in {"24.11", "25.05"}
  THEN <<U64("alloc_secs"), U32("rec_count"), U64("count"), U32("id"),
         Char("name"), Char("tres_type")>>
  ELSE <<U64("alloc_secs"), U32("rec_count"), U64("count"), U32("id"), I8("modifier"),
         Char("name"), Char("tres_type")>>

------------------------------------------------------------------------------
(* The mirrors, by the names of their fields.                              *)

JobRec25_05 ==
  <<Char("account"), Char("admin_comment"), U32("alloc_nodes"),
    U32("array_job_id"), U32("array_max_tasks"), U32("array_task_id"),
    Char("array_task_str"), U32("associd"), Char("blockid"), Char("cluster"),
    Char("constraints"), Char("container"), U64("db_index"), U32("derived_ec"),
    Char("derived_es"), U32("elapsed"), I64("eligible"), I64("end"), Char("env"),
    U32("exitcode"), Char("extra"), Char("failed_node"), U32("flags"),
    Ptr("first_step_ptr"), U32("gid"), U32("het_job_id"), U32("het_job_offset"),
    U32("jobid"), Char("jobname"), Char("lineage"), Char("licenses"),
    Char("mcs_label"), Char("nodes"), Char("partition"), U32("priority"),
    U32("qosid"), Char("qos_req"), U32("req_cpus"), U64("req_mem"), U32("requid"),
    U16("restart_cnt"), U32("resvid"), Char("resv_name"), Char("resv_req"),
    Char("script"), U16("segment_size"), U32("show_full"), I64("start"),
    U32("state"), U32("state_reason_prev"), Ptr("steps"), Char("std_err"),
    Char("std_in"), Char("std_out"), I64("submit"), Char("submit_line"),
    U32("suspended"), Char("system_comment"), U64("sys_cpu_sec"),
    U64("sys_cpu_usec"), U32("timelimit"), U64("tot_cpu_sec"),
    U64("tot_cpu_usec"), Char("tres_alloc_str"), Char("tres_req_str"), U32("uid"),
    Char("used_gres"), Char("user"), U64("user_cpu_sec"), U64("user_cpu_usec"),
    Char("wckey"), U32("wckeyid"), Char("work_dir")>>

(* The other mirrors, as their module comments describe them: by what they *)
(* have and lack against their neighbour.                                  *)
JobRec24_11 ==
  Without(Without(Before(JobRec25_05, "lineage", U32("lft")), "resv_req"), "segment_size")
JobRec26_05 ==
  Before(Before(Before(JobRec25_05, "exitcode", Char("exclusive")),
                "partition", Char("oversubscribe")),
         "start", U64("sluid"))

\* Mutant: v25_11 re-exports the record of 26.05 instead of that of 25.05.
NewerRecord(r) ==
  CASE r = "24.11" -> JobRec24_11
    [] r = "25.05" -> JobRec25_05
    [] r \in {"25.11", "26.05"} -> JobRec26_05

JobRec(r) ==
  CASE r = "24.11" -> JobRec24_11
    [] r \in {"25.05", "25.11"} -> JobRec25_05
    [] r = "26.05" -> JobRec26_05

------------------------------------------------------------------------------
(* #[repr(C)] on LP64: each field at the next multiple of its size.        *)

Size(type) ==
  CASE type = "i8" -> 1 [] type = "u16" -> 2 [] type = "u32" -> 4 [] OTHER -> 8

Align(at, type) == ((at + Size(type) - 1) \div Size(type)) * Size(type)

Offsets(rec) ==
  LET at[i \in 1..Len(rec)] ==
        Align(IF i = 1 THEN 0 ELSE at[i - 1] + Size(rec[i - 1].type), rec[i].type)
  IN  at

Offset(rec, name) == Offsets(rec)[Position(rec, name)]

------------------------------------------------------------------------------
(* The TRES record is mirrored twice, and tres_rec_has_modifier picks the  *)
(* mirror: that of 26.05 alone has `char modifier' between id and name.    *)

TresRec ==
  <<U64("alloc_secs"), U32("rec_count"), U64("count"), U32("id"), Char("name"), Char("tres_type")>>

\* Mutant: the modifier mirrored on the wrong side of id.
ModifierBeforeId == Before(TresRec, "id", I8("modifier"))

TresRecWithModifier ==
  <<U64("alloc_secs"), U32("rec_count"), U64("count"), U32("id"), I8("modifier"),
    Char("name"), Char("tres_type")>>

TresRecOf(r) == IF r = "26.05" THEN TresRecWithModifier ELSE TresRec

(* What fetch_tres copies out of a TRES record.                            *)
LookupFields == {"id", "name", "tres_type"}

------------------------------------------------------------------------------
(* JOB_FIELDS: key, struct field and kind of each row.                     *)

Row(key, field, kind) == [key |-> key, field |-> field, kind |-> kind]
StrRow(name) == Row(name, name, "Str")
U16Row(name) == Row(name, name, "U16")
U32Row(name) == Row(name, name, "U32")
U64Row(name) == Row(name, name, "U64")

SharedFields ==
  <<StrRow("account"), StrRow("admin_comment"), StrRow("array_task_str"),
    StrRow("blockid"), StrRow("cluster"), StrRow("constraints"),
    StrRow("container"), StrRow("extra"), StrRow("failed_node"),
    StrRow("lineage"), StrRow("licenses"), StrRow("mcs_label"), StrRow("nodes"),
    StrRow("partition"), StrRow("qos_req"), StrRow("resv_name"),
    StrRow("std_err"), StrRow("std_in"), StrRow("std_out"), StrRow("submit_line"),
    StrRow("system_comment"), StrRow("tres_alloc_str"), StrRow("tres_req_str"),
    StrRow("used_gres"), StrRow("user"), StrRow("wckey"), StrRow("work_dir"),
    U32Row("alloc_nodes"), U32Row("array_job_id"), U32Row("array_max_tasks"),
    U32Row("associd"), U32Row("derived_ec"), U32Row("exitcode"), U32Row("gid"),
    U32Row("het_job_id"), U32Row("het_job_offset"), U32Row("priority"),
    U32Row("req_cpus"), U32Row("requid"), U32Row("resvid"), U32Row("show_full"),
    U32Row("state_reason_prev"), U32Row("uid"), U32Row("wckeyid"),
    U16Row("restart_cnt"), U64Row("db_index"), U64Row("req_mem"),
    U64Row("sys_cpu_sec"), U64Row("sys_cpu_usec"), U64Row("tot_cpu_sec"),
    U64Row("tot_cpu_usec"), U64Row("user_cpu_sec"), U64Row("user_cpu_usec"),
    Row("comment", "derived_es", "Str"), Row("name", "jobname", "Str"),
    Row("job_id", "jobid", "U32"), Row("time_elapsed", "elapsed", "U32"),
    Row("time_suspended", "suspended", "U32"),
    Row("time_eligible", "eligible", "Time"), Row("time_end", "end", "Time"),
    Row("time_start", "start", "Time"), Row("time_submit", "submit", "Time"),
    Row("array_task_id", "array_task_id", "NoVal32"),
    Row("time_timelimit", "timelimit", "U32Inf0"), Row("flags", "flags", "Flags"),
    Row("group", "gid", "Group"), Row("qos", "qosid", "QosName"),
    Row("state", "state", "JobState")>>

JobFields25_05 == SharedFields \o <<StrRow("resv_req"), U16Row("segment_size")>>

\* Mutant: the 26.05 table copied from 25.05 with sluid read as 32 bits.
NarrowSluid ==
  JobFields25_05 \o <<StrRow("exclusive"), StrRow("oversubscribe"), U32Row("sluid")>>

JobFields26_05 ==
  JobFields25_05 \o <<StrRow("exclusive"), StrRow("oversubscribe"), U64Row("sluid")>>

JobFields(r) ==
  CASE r = "24.11" -> SharedFields \o <<U32Row("lft")>>
    [] r \in {"25.05", "25.11"} -> JobFields25_05
    [] r = "26.05" -> JobFields26_05
==============================================================================
