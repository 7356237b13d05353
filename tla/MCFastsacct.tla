---------------------------- MODULE MCFastsacct ----------------------------
(* Command lines and the library for the TLC runs of Fastsacct: the run    *)
(* gets as far as the daemon, and --debug may panic on a broken stderr.    *)
EXTENDS Fastsacct

Queries ==
  [cli : {"ok"}, utc : {TRUE}, abi : Implemented, jsonl : BOOLEAN, debug : BOOLEAN,
   accounts : {FALSE}]

OneFile == {[release |-> r, version |-> TRUE, api |-> TRUE] : r \in Implemented}
=============================================================================
