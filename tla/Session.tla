------------------------------- MODULE Session -------------------------------
(***************************************************************************)
(* One run of the fastsacct process: main() of src/src/main.rs with the    *)
(* calls it makes into src/src/slurmdb.rs, in program order.  An action    *)
(* ends where the outside world can interfere or the code can leave:       *)
(* at a print to stderr, a library call that can fail, a write to stdout.  *)
(* Three things happen at any moment without the process asking: the       *)
(* library file is replaced, the reader of stderr goes away, the process   *)
(* is killed.                                                              *)
(***************************************************************************)
EXTENDS SlurmLib

CONSTANT Implemented    \* the releases of abi::all()

ASSUME ImplementedAssumption == Implemented \subseteq Release

VARIABLES
  args,      \* the command line and the timezone the process was started with
  stderrOk,  \* somebody still holds the read end of stderr
  pc,        \* the next statement of main()
  code,      \* the status main() is about to exit with
  report,    \* what the last error line on stderr says
  abi,       \* the ABI module chosen for decoding
  conn,      \* the conn field of the Slurmdb value
  sampled,   \* the errno_now() taken after the last fallible call
  walk,      \* the list list_foreach_try is walking
  count,     \* job_count
  decoded,   \* job records turned into JSON values
  lines,     \* complete lines on stdout
  outcome    \* result of writing stdout so far

startVars == <<args, stderrOk>>
endVars == <<code, report>>
keyVars == <<abi, conn, sampled>>
outVars == <<walk, count, decoded, lines, outcome>>
ownVars == <<startVars, pc, endVars, keyVars, outVars>>
vars == <<libVars, ownVars>>

(* cli names the first check of the command line that fails; --help is no  *)
(* run.                                                                    *)
Args == [cli : {"ok", "clap", "bad"}, utc : BOOLEAN, abi : Implemented \cup {None},
         jsonl : BOOLEAN, debug : BOOLEAN, accounts : BOOLEAN]

Unknown == MaxJobs + 1      \* no job_count yet

WalkPc == {"iterate", "next", "each", "itrDestroy", "listDestroy"}
Pc == {"parse", "select", "probed", "dlopen", "init", "connect", "tres", "qos", "fetched",
       "cond", "query", "queryLog", "condFree", "queryNull", "header", "blob", "close",
       "result", "drop", "exit", "exited", "killed"} \cup WalkPc

TypeOK ==
  /\ LibTypeOK
  /\ args \in Args
  /\ stderrOk \in BOOLEAN
  /\ pc \in Pc
  /\ code \in {0, 1, 2, 101}
  /\ report \in Errno \cup {"none", "usage", "timezone", "detect", "load", "output"}
  /\ abi \in Implemented \cup {None}
  /\ conn \in {"unbuilt", "set", "null"}
  /\ sampled \in Errno
  /\ walk \in {"tres", "qos", "jobs"}
  /\ count \in 0..Unknown
  /\ decoded \in 0..MaxJobs
  /\ lines \in 0..(MaxJobs + 1)
  /\ outcome \in {"ok", "err"}

Init ==
  /\ LibInit
  /\ args \in Args
  /\ stderrOk \in BOOLEAN
  /\ pc = "parse"
  /\ code = 0
  /\ report = "none"
  /\ abi = None
  /\ conn = "unbuilt"
  /\ sampled = "clear"
  /\ walk = "tres"
  /\ count = Unknown
  /\ decoded = 0
  /\ lines = 0
  /\ outcome = "ok"

------------------------------------------------------------------------------
(* Diagnostics.  eprintln! panics when stderr is a broken pipe; the panic  *)
(* unwinds main(), which drops the Slurmdb value.                          *)

Panic == code' = 101 /\ pc' = "drop"

Eprintln(next) ==
  \/ stderrOk /\ pc' = next /\ UNCHANGED code
  \/ ~stderrOk /\ Panic

DebugLog(next) ==
  \/ args.debug /\ Eprintln(next)
  \/ ~args.debug /\ pc' = next /\ UNCHANGED code

(* return runtime_error(msg): the message, then status 1.                  *)
RuntimeError(msg) ==
  /\ report' = msg
  /\ \/ stderrOk /\ code' = 1 /\ pc' = "drop"
     \/ ~stderrOk /\ Panic

Continue(next) == pc' = next /\ UNCHANGED endVars

------------------------------------------------------------------------------
(* Command line and ABI.                                                   *)

(* clap exits by itself and ignores a failed print; cli_error does not.    *)
CliError ==
  /\ pc = "parse"
  /\ args.cli # "ok"
  /\ report' = "usage"
  /\ \/ (stderrOk \/ args.cli = "clap") /\ code' = 2 /\ pc' = "exit"
     \/ ~stderrOk /\ args.cli # "clap" /\ Panic
  /\ UNCHANGED <<libVars, startVars, keyVars, outVars>>

RequireUtc ==
  /\ pc = "parse"
  /\ args.cli = "ok"
  /\ \/ args.utc /\ Continue("select")
     \/ ~args.utc /\ RuntimeError("timezone")
  /\ UNCHANGED <<libVars, startVars, keyVars, outVars>>

AbiByVersion ==
  /\ pc = "select"
  /\ args.abi # None
  /\ abi' = args.abi
  /\ Continue("dlopen")
  /\ UNCHANGED <<libVars, startVars, conn, sampled, outVars>>

(* probe_api_major never dlcloses its RTLD_LOCAL handle.                   *)
ProbeDlopen ==
  /\ pc = "select"
  /\ args.abi = None
  /\ \/ DlopenAs("RTLD_LOCAL") /\ Continue("probed")
     \/ DlopenFails /\ RuntimeError("detect")
  /\ UNCHANGED <<disk, errno, connVars, listVars, fault, startVars, keyVars, outVars>>

DetectAbi ==
  /\ pc = "probed"
  /\ LET known == image.version /\ image.release \in Implemented
     IN  \/ known /\ abi' = image.release /\ Eprintln("dlopen") /\ UNCHANGED report
         \/ ~known /\ RuntimeError("detect") /\ UNCHANGED abi
  /\ MayClobber
  /\ UNCHANGED <<loadVars, connVars, listVars, fault, startVars, conn, sampled, outVars>>

------------------------------------------------------------------------------
(* Slurmdb::new.                                                           *)

MainDlopen ==
  /\ pc = "dlopen"
  /\ \/ DlopenAs("RTLD_GLOBAL") /\ image'.api /\ Continue("init")
     \/ DlopenAs("RTLD_GLOBAL") /\ ~image'.api /\ RuntimeError("load")
     \/ DlopenFails /\ RuntimeError("load")
  /\ UNCHANGED <<disk, errno, connVars, listVars, fault, startVars, keyVars, outVars>>

(* slurm_init and, under --debug, the line on slurm_conf.                  *)
SlurmInit ==
  /\ pc = "init"
  /\ DebugLog("connect")
  /\ MayClobber
  /\ UNCHANGED <<loadVars, connVars, listVars, fault, startVars, report, keyVars, outVars>>

(* The daemon may be down; a plugin cannot load outside the global scope.  *)
(* errno_now() follows the call directly.  On success the value that owns  *)
(* the connection is on the stack from here on.                            *)
ConnectionGet ==
  /\ pc = "connect"
  /\ \/ /\ global
        /\ opened' = opened + 1
        /\ MayClobber
        /\ conn' = "set"
        /\ Continue("tres")
     \/ /\ errno' = "connect"
        /\ RuntimeError(errno')
        /\ UNCHANGED <<opened, conn>>
  /\ sampled' = errno'
  /\ UNCHANGED <<loadVars, closed, listVars, fault, startVars, abi, outVars>>

(* NULL (tracking off, or a failed RPC) yields an empty map, not an error. *)
Fetch(l, next) ==
  /\ pc = l
  /\ MayClobber
  /\ \/ (\E n \in 0..MaxLookups : ReturnList(l, n)) /\ walk' = l /\ Continue("iterate")
     \/ ReturnNull /\ Continue(next) /\ UNCHANGED walk
  /\ UNCHANGED <<loadVars, connVars, startVars, keyVars, count, decoded, lines, outcome>>

FetchTres == Fetch("tres", "qos")
FetchQos == Fetch("qos", "fetched")

DebugFetched ==
  /\ pc = "fetched"
  /\ DebugLog("cond")
  /\ MayClobber
  /\ UNCHANGED <<loadVars, connVars, listVars, fault, startVars, report, keyVars, outVars>>

------------------------------------------------------------------------------
(* list_foreach_try, shared by the three walks.                            *)

AfterWalk ==
  CASE walk = "tres" -> "qos"
    [] walk = "qos" -> "fetched"
    [] walk = "jobs" -> IF args.jsonl THEN "close" ELSE "blob"

Iterate ==
  /\ pc = "iterate"
  /\ IteratorCreate(walk)
  /\ Continue("next")
  /\ UNCHANGED <<loadVars, errno, connVars, startVars, keyVars, outVars>>

EachRecord == IF walk = "jobs" THEN "each" ELSE "next"

\* Mutant: slurm_list_next's NULL is taken for one more record.
NextUnchecked == EachRecord

AfterNext == IF left = 0 THEN "itrDestroy" ELSE EachRecord

(* The closure over a TRES or QOS record only copies it.                   *)
NextRecord ==
  /\ pc = "next"
  /\ ListNext(walk)
  /\ Continue(AfterNext)
  /\ UNCHANGED <<loadVars, errno, connVars, startVars, keyVars, outVars>>

CollectJob ==
  /\ pc = "each"
  /\ ~args.jsonl
  /\ decoded' = decoded + 1
  /\ Continue("next")
  /\ UNCHANGED <<libVars, startVars, keyVars, walk, count, lines, outcome>>

\* Mutants: the error is returned at once, is returned without destroying
\* the iterator, is noted and the walk goes on.
ReturnOnError == "close"
LeaveIterator == "listDestroy"
GoOnAfterError == "next"

(* A write that fails breaks out of the walk.                              *)
AfterRowError == "itrDestroy"

StreamJob ==
  /\ pc = "each"
  /\ args.jsonl
  /\ decoded' = decoded + 1
  /\ \/ lines' = lines + 1 /\ Continue("next") /\ UNCHANGED outcome
     \/ outcome' = "err" /\ Continue(AfterRowError) /\ UNCHANGED lines
  /\ UNCHANGED <<libVars, startVars, keyVars, walk, count>>

DestroyIterator ==
  /\ pc = "itrDestroy"
  /\ IteratorDestroy(walk)
  /\ Continue("listDestroy")
  /\ UNCHANGED <<loadVars, errno, connVars, startVars, keyVars, outVars>>

DestroyList ==
  /\ pc = "listDestroy"
  /\ ListDestroy(walk)
  /\ Continue(AfterWalk)
  /\ UNCHANGED <<loadVars, errno, connVars, startVars, keyVars, outVars>>

------------------------------------------------------------------------------
(* jobs_get.                                                               *)

(* No -A entry left after trimming: acct_list stays NULL.                  *)
BuildCond ==
  /\ pc = "cond"
  /\ \/ args.accounts /\ CreateList("acct")
     \/ ~args.accounts /\ UNCHANGED list
  /\ DebugLog("query")
  /\ MayClobber
  /\ UNCHANGED <<loadVars, connVars, itr, left, fault, startVars, report, keyVars, outVars>>

(* errno_now() follows the call directly.                                  *)
JobsGet ==
  /\ pc = "query"
  /\ \/ \E n \in 0..MaxJobs : ReturnList("jobs", n) /\ MayClobber
     \/ ReturnNull /\ errno' = "query"
  /\ sampled' = errno'
  /\ Continue("queryLog")
  /\ UNCHANGED <<loadVars, connVars, startVars, abi, conn, outVars>>

DebugQuery ==
  /\ pc = "queryLog"
  /\ DebugLog("condFree")
  /\ MayClobber
  /\ UNCHANGED <<loadVars, connVars, listVars, fault, startVars, report, keyVars, outVars>>

(* slurmdb_destroy_job_cond_members, which skips a NULL acct_list.         *)
DestroyCond ==
  /\ pc = "condFree"
  /\ list' = [list EXCEPT !["acct"] = IF @ = "none" THEN "none" ELSE "freed"]
  /\ Requires(list["acct"] # "freed")
  /\ MayClobber
  /\ Continue("queryNull")
  /\ UNCHANGED <<loadVars, connVars, itr, left, startVars, keyVars, outVars>>

(* Slurmdb::close: the field is nulled before the call.                    *)
Close == conn' = "null" /\ ConnectionClose

\* Mutant: errno_now() is called where the message is built.
LateErrno == errno

(* The errno whose strerror text jobs_get returns.                         *)
QueryError == sampled

QueryFailed ==
  /\ pc = "queryNull"
  /\ list["jobs"] = "none"
  /\ Close
  /\ RuntimeError(QueryError)
  /\ UNCHANGED <<loadVars, errno, listVars, startVars, abi, sampled, outVars>>

QueryAnswered ==
  /\ pc = "queryNull"
  /\ list["jobs"] # "none"
  /\ count' = left
  /\ walk' = "jobs"
  /\ Continue(IF args.jsonl THEN "header" ELSE "iterate")
  /\ UNCHANGED <<libVars, startVars, keyVars, decoded, lines, outcome>>

------------------------------------------------------------------------------
(* Output and the way out.                                                 *)

(* A header that cannot be written skips stream_jobs altogether.           *)
WriteHeader ==
  /\ pc = "header"
  /\ \/ lines' = lines + 1 /\ Continue("iterate") /\ UNCHANGED outcome
     \/ outcome' = "err" /\ Continue("close") /\ UNCHANGED lines
  /\ UNCHANGED <<libVars, startVars, keyVars, walk, count, decoded>>

WriteBlob ==
  /\ pc = "blob"
  /\ \/ lines' = lines + 1 /\ UNCHANGED outcome
     \/ outcome' = "err" /\ UNCHANGED lines
  /\ Continue("close")
  /\ UNCHANGED <<libVars, startVars, keyVars, walk, count, decoded>>

CloseDb ==
  /\ pc = "close"
  /\ Close
  /\ Continue("result")
  /\ UNCHANGED <<loadVars, errno, listVars, startVars, abi, sampled, outVars>>

\* Mutant: a run that has written something counts as a success.
WroteSomething == lines > 0

Succeeded == outcome = "ok"

MatchResult ==
  /\ pc = "result"
  /\ \/ Succeeded /\ code' = 0 /\ pc' = "drop" /\ UNCHANGED report
     \/ ~Succeeded /\ RuntimeError("output")
  /\ UNCHANGED <<libVars, startVars, keyVars, outVars>>

\* Mutant: Slurmdb does not implement Drop.
DropNothing == UNCHANGED <<connVars, conn, fault>>

(* Drop for Slurmdb, on return from main() and on unwinding alike.         *)
DropConn ==
  \/ conn = "set" /\ Close
  \/ conn # "set" /\ UNCHANGED <<connVars, conn, fault>>

DropSlurmdb ==
  /\ pc = "drop"
  /\ DropConn
  /\ Continue("exit")
  /\ UNCHANGED <<loadVars, errno, listVars, startVars, abi, sampled, outVars>>

Exit ==
  /\ pc = "exit"
  /\ Continue("exited")
  /\ UNCHANGED <<libVars, startVars, keyVars, outVars>>

------------------------------------------------------------------------------
(* What happens to the process from outside.                               *)

Ended == pc \in {"exited", "killed"}

UpgradeLibrary ==
  /\ ~Ended
  /\ ReplaceFile
  /\ UNCHANGED ownVars

StderrBreaks ==
  /\ ~Ended
  /\ stderrOk
  /\ stderrOk' = FALSE
  /\ UNCHANGED <<libVars, args, pc, endVars, keyVars, outVars>>

Kill ==
  /\ ~Ended
  /\ Continue("killed")
  /\ UNCHANGED <<libVars, startVars, keyVars, outVars>>

Terminated == Ended /\ UNCHANGED vars

Parse == CliError \/ RequireUtc \/ AbiByVersion \/ ProbeDlopen \/ DetectAbi
New == MainDlopen \/ SlurmInit \/ ConnectionGet \/ FetchTres \/ FetchQos \/ DebugFetched
Walk == Iterate \/ NextRecord \/ CollectJob \/ StreamJob \/ DestroyIterator \/ DestroyList
Query == BuildCond \/ JobsGet \/ DebugQuery \/ DestroyCond \/ QueryFailed \/ QueryAnswered
Finish == WriteHeader \/ WriteBlob \/ CloseDb \/ MatchResult \/ DropSlurmdb \/ Exit

Step == Parse \/ New \/ Walk \/ Query \/ Finish
Environment == UpgradeLibrary \/ StderrBreaks \/ Kill

Next == Step \/ Environment \/ Terminated

Spec == Init /\ [][Next]_vars

(* The process keeps running until it ends; every RPC returns.             *)
FairSpec == Spec /\ WF_vars(Step)

------------------------------------------------------------------------------
(* Properties.                                                             *)

(* Whatever the run meets -- a refused connection, a failed query, a write *)
(* error, a panic on a broken stderr -- the connection slurmdb_connection_ *)
(* get handed out is closed exactly once when the process exits by itself, *)
(* by db.close() or by Drop, and never twice (main.rs:211-264, Drop).      *)
ClosedExactlyOnce ==
  /\ closed <= opened
  /\ pc = "exited" => closed = opened

(* No call of the C library on a freed list, a dead iterator or a closed   *)
(* connection, in any of the three list walks and on every error path.     *)
NoContractBreach == ~fault

(* At a normal exit every C list has been destroyed -- acct_list by        *)
(* slurmdb_destroy_job_cond_members, the others by list_foreach_try, also  *)
(* when a write fails half-way -- except the job list when not even the    *)
(* header line could be written.                                           *)
ListsReleased ==
  pc = "exited" /\ code \in {0, 1, 2} =>
    \A l \in Lists : list[l] = "live" => l = "jobs" /\ args.jsonl /\ lines = 0 /\ outcome = "err"

(* The doc comment of jobs_get: the caller decodes the list it returns     *)
(* "via stream_jobs, which also destroys it", so no normal exit leaves it. *)
JobListAlwaysDestroyed ==
  pc = "exited" /\ code \in {0, 1} => list["jobs"] # "live"

(* An auto-detected ABI is the ABI of the very image the process queries,  *)
(* even when the file is replaced between the probe and the main dlopen.   *)
LibraryMatchesAbi ==
  global /\ args.abi = None => abi = image.release

(* An errno reported to the user was set by the call that failed: connect  *)
(* when no connection was had, query when one was; never the leftover of a *)
(* print or of a cleanup call in between.                                  *)
ReportNamesFailingCall ==
  report \in Errno => report = IF opened = 0 THEN "connect" ELSE "query"

(* Once a line could not be written, nothing more is decoded or written.   *)
NothingAfterFailedWrite ==
  [][outcome = "err" => UNCHANGED <<decoded, lines, outcome>>]_vars

(* The refinement mapping.  A job of the blob is delivered with the blob.  *)
sessionBar == IF opened = 0 THEN "none" ELSE IF closed = 0 THEN "open" ELSE "closed"

deliveredBar ==
  IF lines = 0 THEN 0 ELSE IF args.jsonl THEN lines - 1 ELSE decoded

statusBar ==
  CASE pc = "killed" -> "killed"
    [] pc = "exited" /\ code = 0 -> "complete"
    [] pc = "exited" /\ code = 2 -> "usage"
    [] pc = "exited" /\ code \notin {0, 2} -> "failed"
    [] OTHER -> "running"

Promise == INSTANCE QueryRun WITH
  session <- sessionBar, answer <- count, delivered <- deliveredBar, status <- statusBar

(* One run keeps the promise of QueryRun: a single session, every job it   *)
(* answered delivered before status 0, no session left open at any exit,   *)
(* none ever opened before status 2.                                       *)
KeepsPromise == Promise!Spec

(* Every run ends: no walk, retry or error path goes round for ever, as    *)
(* long as every RPC returns.                                              *)
Termination == <>Ended
==============================================================================
