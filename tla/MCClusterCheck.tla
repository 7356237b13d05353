--------------------------- MODULE MCClusterCheck ---------------------------
(* Records, TRES and QOS tables for the TLC runs of ClusterCheck.  Every   *)
(* record differs from a typical one in one field, through the values at   *)
(* which its decoder changes branch.                                       *)
EXTENDS ClusterCheck

Tres ==
  (1 :> [type |-> <<"cpu">>, name |-> <<>>]) @@
  (3 :> [type |-> <<"energy">>, name |-> <<>>]) @@
  (1001 :> [type |-> <<"gres">>, name |-> <<"gpu">>]) @@
  (1002 :> [type |-> <<"gres">>, name |-> <<"gpu", ":", "a100">>]) @@
  (1003 :> [type |-> <<"gres">>, name |-> <<"gpu", ":", "h100">>]) @@
  (1004 :> [type |-> <<"license">>, name |-> <<"foo", "/", "bar">>])

Qos == (1 :> "normal") @@ (2 :> "")

Unknown == U64 - 2      \* a count of -2 on the wire

(* TRES strings as slurmctld writes them: ids in order, each once; 1005 is *)
(* missing from the cluster's table.                                       *)
Ids == <<1, 3, 1001, 1002, 1003, 1004, 1005>>
TresStrings ==
  {LET ids == SetToSortSeq(S, LAMBDA a, b : a < b)
   IN  Text([i \in DOMAIN ids |->
               <<Some(ids[i]), Some(IF ids[i] = 3 THEN Unknown ELSE ids[i] % 1000)>>]) :
     S \in UNION {kSubset(k, ToSet(Ids)) : k \in 1..3}}

Typical ==
  [jobid |-> 1, account |-> Str("lab"), array_task_id |-> NO_VAL, exitcode |-> 0, flags |-> 8,
   priority |-> 100, qosid |-> 1, req_mem |-> 4, state |-> 3, elapsed |-> 60, timelimit |-> 30,
   tres_alloc_str |-> Text(<<<<Some(1), Some(4)>>>>),
   tres_req_str |-> Text(<<<<Some(1), Some(2)>>>>)]

Plain ==
  {Typical}
  \cup {[Typical EXCEPT !.account = Null]}
  \cup {[Typical EXCEPT !.array_task_id = n] : n \in {0, 3, INFINITE}}
  \cup {[Typical EXCEPT !.exitcode = n] :
          n \in {2 * 256, 255 * 256, 9, 128 + 9, 126, 127, 255, 65535, NO_VAL}}
  \cup {[Typical EXCEPT !.flags = n] : n \in {0, 15, 48}}
  \cup {[Typical EXCEPT !.priority = n] : n \in {0, NO_VAL, INFINITE}}
  \cup {[Typical EXCEPT !.qosid = n] : n \in {0, 2, 9, INFINITE}}
  \cup {[Typical EXCEPT !.req_mem = n] : n \in {0, NO_VAL, MEM_PER_CPU, MEM_PER_CPU + 4}}
  \cup {[Typical EXCEPT !.state = n] : n \in {0, 1, 12, 3 + 2^15, 1 + 2^16}}
  \cup {[Typical EXCEPT !.timelimit = n] : n \in {0, NO_VAL, INFINITE}}
  \cup {[Typical EXCEPT !.tres_alloc_str = Null], [Typical EXCEPT !.tres_req_str = Null],
           [Typical EXCEPT !.tres_req_str = Text(<<>>)]}

WithTres ==
  {[Typical EXCEPT !.tres_alloc_str = t] : t \in TresStrings}
  \cup {[Typical EXCEPT !.tres_req_str = t] : t \in {t \in TresStrings : Len(t[2]) = 1}}

(* A second record beside the first: another job, or the same one after it *)
(* was requeued.                                                           *)
Second == {[Typical EXCEPT !.jobid = 2, !.exitcode = 9], [Typical EXCEPT !.exitcode = 9]}

Alone == {<<j>> : j \in Plain \cup WithTres}
Answers == Alone \cup {<<j, k>> : j \in Plain, k \in Second}
Requeued == {<<Typical, k>> : k \in Second}

(* What another decoder could have made of it.                             *)
WrongValues ==
  {[Typical EXCEPT !.jobid = 7]} \cup Plain \cup {j \in WithTres : Len(Pairs(j.tres_alloc_str)) # 3}
=============================================================================
