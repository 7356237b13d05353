---------------------------- MODULE MCJobRecord ----------------------------
(* The offsets the unit tests of the abi modules assert, against the ones  *)
(* JobRecord computes.                                                     *)
EXTENDS JobRecord

At(r, pairs) == \A p \in pairs : Offset(JobRec(r), p[1]) = p[2]

ASSUME OffsetsAsTested ==
  /\ At("24.11", {<<"account", 0>>, <<"db_index", 80>>, <<"jobname", 192>>, <<"lft", 200>>,
                  <<"lineage", 208>>, <<"resv_name", 296>>, <<"script", 304>>,
                  <<"show_full", 312>>, <<"work_dir", 512>>})
  /\ At("25.05", {<<"account", 0>>, <<"admin_comment", 8>>, <<"alloc_nodes", 16>>,
                  <<"db_index", 80>>, <<"eligible", 112>>, <<"restart_cnt", 276>>,
                  <<"show_full", 316>>, <<"work_dir", 512>>})
  /\ At("26.05", {<<"env", 128>>, <<"exclusive", 136>>, <<"exitcode", 144>>, <<"nodes", 232>>,
                  <<"oversubscribe", 240>>, <<"partition", 248>>, <<"show_full", 332>>,
                  <<"sluid", 336>>, <<"start", 344>>, <<"work_dir", 536>>})
=============================================================================
