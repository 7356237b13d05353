----------------------------- MODULE SessionInv -----------------------------
(***************************************************************************)
(* The inductive invariant behind the theorems of Session_proofs: what is  *)
(* true at each statement of main() of the connection, the loaded image,   *)
(* the C lists, the counters and the error report.                         *)
(***************************************************************************)
EXTENDS Session

BeforeConn == {"parse", "select", "probed", "dlopen", "init", "connect"}
DuringConn == WalkPc \cup {"tres", "qos", "fetched", "cond", "query", "queryLog",
                "condFree", "queryNull", "header", "blob", "close"}
Leaving == {"drop", "exit", "exited", "killed"}

Walking(l) == pc \in WalkPc /\ walk = l

(* The conn field mirrors the state of the connection, everywhere.         *)
ConnInv ==
  /\ \/ conn = "unbuilt" /\ opened = 0 /\ closed = 0
     \/ conn = "set" /\ opened = 1 /\ closed = 0
     \/ conn = "null" /\ opened = 1 /\ closed = 1
  /\ pc \in BeforeConn => conn = "unbuilt"
  /\ pc \in DuringConn => conn = "set"
  /\ pc = "result" => conn = "null"
  /\ pc \in {"exit", "exited"} => conn # "set"

(* Which image is mapped, and that an auto-detected ABI came from it.      *)
LoadInv ==
  /\ pc \in {"parse", "select"} => image = None
  /\ pc \in {"parse", "select", "probed", "dlopen"} => ~global
  /\ pc = "probed" => args.abi = None /\ image # None
  /\ pc = "dlopen" /\ args.abi = None => image # None /\ abi = image.release
  /\ global /\ args.abi = None => abi = image.release

(* At each pc, which lists are live, and whether an iterator is.           *)
ListInv ==
  /\ itr <=> pc \in {"next", "each", "itrDestroy"} \/ (pc = "killed" /\ itr)
  /\ pc \in BeforeConn => \A l \in Lists : list[l] = "none"
  /\ \A l \in {"tres", "qos"} : list[l] = "live" => Walking(l) \/ pc = "killed"
  /\ pc \in WalkPc => list[walk] = "live"
  /\ pc = "each" => walk = "jobs"
  /\ list["acct"] = "live" => pc \in {"query", "queryLog", "condFree", "killed"} \/ code = 101
  /\ pc \in {"tres", "qos", "fetched", "cond"} \/ Walking("tres") \/ Walking("qos")
       => list["acct"] = "none"
  /\ pc \in {"query", "queryLog", "condFree"} => list["acct"] # "freed"
  /\ pc \in {"tres", "qos", "fetched", "cond", "query"} \/ Walking("tres") \/ Walking("qos")
       => list["jobs"] = "none"
  /\ pc \in {"queryLog", "condFree", "queryNull"} => list["jobs"] # "freed"
  /\ pc = "header" => list["jobs"] = "live"
  /\ pc = "blob" => list["jobs"] # "live"
  /\ list["jobs"] = "live" /\ pc \in {"close", "result", "drop", "exit", "exited"}
       => code = 101 \/ (args.jsonl /\ lines = 0 /\ outcome = "err")

(* The job counters add up: what is decoded and what is left make count.   *)
Answered == pc \in {"header", "blob", "close", "result"} \/ Walking("jobs")

CountInv ==
  /\ Answered => count \in 0..MaxJobs
  /\ ~Answered /\ pc \notin Leaving => count = Unknown
  /\ count = Unknown => decoded = 0 /\ lines = 0 /\ outcome = "ok"
  /\ list["jobs"] = "live" => left <= MaxJobs
  /\ decoded <= count
  /\ pc = "header" => args.jsonl /\ walk = "jobs" /\ left = count /\ decoded = 0 /\ lines = 0
                        /\ outcome = "ok"
  /\ Walking("jobs") /\ pc \in {"iterate", "next"} => decoded + left = count /\ outcome = "ok"
  /\ pc = "each" => decoded + left + 1 = count /\ outcome = "ok"
  /\ pc \in {"itrDestroy", "listDestroy"} /\ walk = "jobs" /\ outcome = "ok" => decoded = count

(* stdout: under --jsonl a header and one line per job, else one blob.     *)
OutInv ==
  /\ args.jsonl /\ outcome = "ok" => IF lines = 0 THEN decoded = 0 ELSE lines = decoded + 1
  /\ args.jsonl /\ outcome = "err" => lines = decoded
  /\ args.jsonl /\ Walking("jobs") => lines > 0 \/ outcome = "err"
  /\ ~args.jsonl => lines = 0 \/ (lines = 1 /\ decoded = count)
  /\ ~args.jsonl /\ pc \in WalkPc \cup {"blob"} => lines = 0 /\ outcome = "ok"
  /\ pc = "blob" => ~args.jsonl /\ decoded = count
  /\ pc \in {"close", "result"} /\ outcome = "ok" => decoded = count /\ lines > 0

(* How the run is about to end: status 0 needs all of it, 2 nothing.       *)
EndInv ==
  /\ pc \notin Leaving => code = 0 /\ report = "none"
  /\ pc \in {"drop", "exit", "exited"} /\ code = 0 =>
       /\ conn = "null"
       /\ outcome = "ok" /\ lines > 0 /\ count # Unknown /\ decoded = count
  /\ code = 2 => conn = "unbuilt" /\ \A l \in Lists : list[l] = "none"
  /\ report \in Errno => report = IF opened = 0 THEN "connect" ELSE "query"
  /\ pc \in {"queryLog", "condFree", "queryNull"} /\ list["jobs"] = "none" => sampled = "query"

IInv == TypeOK /\ ConnInv /\ LoadInv /\ ListInv /\ CountInv /\ OutInv /\ EndInv /\ ~fault
=============================================================================
