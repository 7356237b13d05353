--------------------------- MODULE Session_proofs ---------------------------
(***************************************************************************)
(* Theorems about Session for every set of library files, every number of  *)
(* TRES and QOS records and every number of jobs.  All of them rest on the *)
(* inductive invariant IInv of SessionInv.                                 *)
(***************************************************************************)
EXTENDS SessionInv, TLAPS

(* No connection, image or list exists when main() starts.                 *)
LEMMA InitInv == Init => IInv
<1> SUFFICES ASSUME Init PROVE IInv
  OBVIOUS
<1> USE DEF Init, LibInit
<1>1. global \in BOOLEAN /\ itr \in BOOLEAN /\ fault \in BOOLEAN /\ ~global /\ ~itr /\ ~fault
  BY Zenon
<1>2. list \in [Lists -> {"none", "live", "freed"}] /\ \A l \in Lists : list[l] = "none"
  OBVIOUS
<1>3. TypeOK
  BY <1>1, <1>2, SizeAssumption, SMTT(30) DEF TypeOK, LibTypeOK, Pc, Errno, Unknown
<1>4. ConnInv /\ LoadInv
  BY <1>1 DEF ConnInv, LoadInv, BeforeConn, DuringConn, WalkPc
<1>5. ListInv
  BY <1>1, <1>2 DEF ListInv, WalkPc, Lists, Walking
<1>6. CountInv /\ OutInv
  BY <1>2, SizeAssumption DEF CountInv, OutInv, Answered, Walking, WalkPc, Unknown, Lists
<1>7. EndInv
  BY DEF EndInv, Leaving, Errno
<1>8. QED
  BY <1>1, <1>3, <1>4, <1>5, <1>6, <1>7 DEF IInv

(* Reading the command line and choosing the ABI touches no connection and *)
(* no list.                                                                *)
LEMMA ParseStep == IInv /\ Parse => IInv'
<1> SUFFICES ASSUME IInv, Parse PROVE IInv'
  OBVIOUS
<1> USE FilesAssumption, SizeAssumption, ImplementedAssumption
      DEF IInv, ConnInv, LoadInv, ListInv, CountInv, OutInv, EndInv, BeforeConn,
          DuringConn, Leaving, Walking, Answered, TypeOK, LibTypeOK, Args, Pc, WalkPc,
          Lists, Errno, Unknown, libVars, loadVars, connVars, listVars, ownVars,
          startVars, endVars, keyVars, outVars, vars
<1>1. CASE CliError
  BY <1>1, SMTT(60) DEF CliError, Panic
<1>2. CASE RequireUtc
  BY <1>2, SMTT(60) DEF RequireUtc, Continue, RuntimeError, Panic
<1>3. CASE AbiByVersion
  BY <1>3, SMTT(60) DEF AbiByVersion, Continue
<1>4. CASE ProbeDlopen
  BY <1>4, SMTT(60) DEF ProbeDlopen, DlopenAs, DlopenFails, Dlopened, Continue, RuntimeError, Panic
<1>5. CASE DetectAbi
  BY <1>5, SMTT(60) DEF DetectAbi, Eprintln, RuntimeError, Panic, MayClobber
<1>6. QED
  BY <1>1, <1>2, <1>3, <1>4, <1>5 DEF Parse

(* Slurmdb::new: the connection is set from the moment it exists, each     *)
(* lookup list is live exactly while it is walked.                         *)
LEMMA NewStep == IInv /\ New => IInv'
<1> SUFFICES ASSUME IInv, New PROVE IInv'
  OBVIOUS
<1> USE FilesAssumption, SizeAssumption, ImplementedAssumption
      DEF IInv, ConnInv, LoadInv, ListInv, CountInv, OutInv, EndInv, BeforeConn,
          DuringConn, Leaving, Walking, Answered, TypeOK, LibTypeOK, Args, Pc, WalkPc,
          Lists, Errno, Unknown, libVars, loadVars, connVars, listVars, ownVars,
          startVars, endVars, keyVars, outVars, vars
<1>1. CASE MainDlopen
  <2>1. global' \in BOOLEAN
    BY <1>1, Zenon DEF MainDlopen, DlopenAs, DlopenFails, IInv, TypeOK, LibTypeOK
  <2>2. QED
    BY <1>1, <2>1, SMTT(60) DEF MainDlopen, DlopenAs, DlopenFails, Dlopened, Continue, RuntimeError, Panic
<1>2. CASE SlurmInit
  BY <1>2, SMTT(60) DEF SlurmInit, DebugLog, Eprintln, Panic, MayClobber
<1>3. CASE ConnectionGet
  BY <1>3, SMTT(60) DEF ConnectionGet, Continue, RuntimeError, Panic, MayClobber
<1>4. CASE FetchTres
  BY <1>4, SMTT(60) DEF FetchTres, Fetch, ReturnList, CreateList, ReturnNull, Requires, Continue, MayClobber
<1>5. CASE FetchQos
  BY <1>5, SMTT(60) DEF FetchQos, Fetch, ReturnList, CreateList, ReturnNull, Requires, Continue, MayClobber
<1>6. CASE DebugFetched
  BY <1>6, SMTT(60) DEF DebugFetched, DebugLog, Eprintln, Panic, MayClobber
<1>7. QED
  BY <1>1, <1>2, <1>3, <1>4, <1>5, <1>6 DEF New

(* list_foreach_try: what is decoded and what is left always make up the   *)
(* count.                                                                  *)
LEMMA WalkStep == IInv /\ Walk => IInv'
<1> SUFFICES ASSUME IInv, Walk PROVE IInv'
  OBVIOUS
<1> USE FilesAssumption, SizeAssumption, ImplementedAssumption
      DEF IInv, ConnInv, LoadInv, ListInv, CountInv, OutInv, EndInv, BeforeConn,
          DuringConn, Leaving, Walking, Answered, TypeOK, LibTypeOK, Args, Pc, WalkPc,
          Lists, Errno, Unknown, libVars, loadVars, connVars, listVars, ownVars,
          startVars, endVars, keyVars, outVars, vars
<1>1. CASE Iterate
  BY <1>1, SMTT(60) DEF Iterate, IteratorCreate, Requires, Continue
<1>2. CASE NextRecord
  BY <1>2, SMTT(60) DEF NextRecord, ListNext, Requires, Continue, AfterNext, EachRecord
<1>3. CASE CollectJob
  BY <1>3, SMTT(60) DEF CollectJob, Continue
<1>4. CASE StreamJob
  BY <1>4, SMTT(60) DEF StreamJob, Continue, AfterRowError
<1>5. CASE DestroyIterator
  <2>1. itr' \in BOOLEAN
    BY <1>5, Zenon DEF DestroyIterator, IteratorDestroy
  <2>2. QED
    BY <1>5, <2>1, SMTT(60) DEF DestroyIterator, IteratorDestroy, Requires, Continue
<1>6. CASE DestroyList
  BY <1>6, SMTT(60) DEF DestroyList, ListDestroy, Requires, Continue, AfterWalk
<1>7. QED
  BY <1>1, <1>2, <1>3, <1>4, <1>5, <1>6 DEF Walk

(* jobs_get: acct_list lives from BuildCond to DestroyCond, the job list   *)
(* from the RPC on.                                                        *)
LEMMA QueryStep == IInv /\ Query => IInv'
<1> SUFFICES ASSUME IInv, Query PROVE IInv'
  OBVIOUS
<1> USE FilesAssumption, SizeAssumption, ImplementedAssumption
      DEF IInv, ConnInv, LoadInv, ListInv, CountInv, OutInv, EndInv, BeforeConn,
          DuringConn, Leaving, Walking, Answered, TypeOK, LibTypeOK, Args, Pc, WalkPc,
          Lists, Errno, Unknown, libVars, loadVars, connVars, listVars, ownVars,
          startVars, endVars, keyVars, outVars, vars
<1>1. CASE BuildCond
  BY <1>1, SMTT(60) DEF BuildCond, CreateList, DebugLog, Eprintln, Panic, MayClobber
<1>2. CASE JobsGet
  BY <1>2, SMTT(60) DEF JobsGet, ReturnList, CreateList, ReturnNull, Requires, Continue, MayClobber
<1>3. CASE DebugQuery
  BY <1>3, SMTT(60) DEF DebugQuery, DebugLog, Eprintln, Panic, MayClobber
<1>4. CASE DestroyCond
  BY <1>4, SMTT(60) DEF DestroyCond, Requires, MayClobber, Continue
<1>5. CASE QueryFailed
  BY <1>5, SMTT(60) DEF QueryFailed, Close, ConnectionClose, Requires, RuntimeError, Panic, QueryError
<1>6. CASE QueryAnswered
  BY <1>6, SMTT(60) DEF QueryAnswered, Continue
<1>7. QED
  BY <1>1, <1>2, <1>3, <1>4, <1>5, <1>6 DEF Query

(* Writing and leaving: every way to the exit goes through Close or Drop.  *)
LEMMA FinishStep == IInv /\ Finish => IInv'
<1> SUFFICES ASSUME IInv, Finish PROVE IInv'
  OBVIOUS
<1> USE FilesAssumption, SizeAssumption, ImplementedAssumption
      DEF IInv, ConnInv, LoadInv, ListInv, CountInv, OutInv, EndInv, BeforeConn,
          DuringConn, Leaving, Walking, Answered, TypeOK, LibTypeOK, Args, Pc, WalkPc,
          Lists, Errno, Unknown, libVars, loadVars, connVars, listVars, ownVars,
          startVars, endVars, keyVars, outVars, vars
<1>1. CASE WriteHeader
  BY <1>1, SMTT(60) DEF WriteHeader, Continue
<1>2. CASE WriteBlob
  BY <1>2, SMTT(60) DEF WriteBlob, Continue
<1>3. CASE CloseDb
  BY <1>3, SMTT(60) DEF CloseDb, Close, ConnectionClose, Requires, Continue
<1>4. CASE MatchResult
  BY <1>4, SMTT(60) DEF MatchResult, Succeeded, RuntimeError, Panic
<1>5. CASE DropSlurmdb
  BY <1>5, SMTT(60) DEF DropSlurmdb, DropConn, Close, ConnectionClose, Requires, Continue
<1>6. CASE Exit
  BY <1>6, SMTT(60) DEF Exit, Continue
<1>7. QED
  BY <1>1, <1>2, <1>3, <1>4, <1>5, <1>6 DEF Finish

(* Nothing outside the process disturbs the invariant.                     *)
LEMMA EnvironmentStep == IInv /\ Environment => IInv'
<1> SUFFICES ASSUME IInv, Environment PROVE IInv'
  OBVIOUS
<1> USE FilesAssumption, SizeAssumption, ImplementedAssumption
      DEF IInv, ConnInv, LoadInv, ListInv, CountInv, OutInv, EndInv, BeforeConn,
          DuringConn, Leaving, Walking, Answered, TypeOK, LibTypeOK, Args, Pc, WalkPc,
          Lists, Errno, Unknown, libVars, loadVars, connVars, listVars, ownVars,
          startVars, endVars, keyVars, outVars, vars
<1>1. CASE UpgradeLibrary
  BY <1>1, SMTT(60) DEF UpgradeLibrary, ReplaceFile, Ended
<1>2. CASE StderrBreaks
  <2>1. stderrOk' \in BOOLEAN
    BY <1>2, Zenon DEF StderrBreaks
  <2>2. QED
    BY <1>2, <2>1, SMTT(60) DEF StderrBreaks, Ended
<1>3. CASE Kill
  BY <1>3, SMTT(60) DEF Kill, Ended, Continue
<1>4. QED
  BY <1>1, <1>2, <1>3 DEF Environment

(* A step that changes nothing keeps the invariant.                        *)
LEMMA StutterInv == IInv /\ UNCHANGED vars => IInv'
  BY DEF vars, libVars, ownVars, startVars, endVars, keyVars, outVars, IInv, TypeOK, LibTypeOK,
         ConnInv, LoadInv, ListInv, CountInv, OutInv, EndInv, Walking, Answered

(* The invariant holds at every statement of main(), in every run.         *)
THEOREM Inductive == Spec => []IInv
<1>1. IInv /\ [Next]_vars => IInv'
  BY ParseStep, NewStep, WalkStep, QueryStep, FinishStep, EnvironmentStep, StutterInv
  DEF Next, Step, Environment, Terminated
<1>2. QED
  BY <1>1, InitInv, PTL DEF Spec

-----------------------------------------------------------------------------
(* Every variable keeps its type.                                          *)
THEOREM TypeCorrect == Spec => []TypeOK
  BY Inductive, PTL DEF IInv

(* On every way out, panics included, the connection is closed once.       *)
THEOREM ConnectionClosed == Spec => []ClosedExactlyOnce
<1>1. IInv => ClosedExactlyOnce
  BY DEF IInv, ConnInv, ClosedExactlyOnce
<1>2. QED
  BY <1>1, Inductive, PTL

(* No call on a freed list, a dead iterator or a closed connection.        *)
THEOREM ContractKept == Spec => []NoContractBreach
<1>1. IInv => NoContractBreach
  BY DEF IInv, NoContractBreach
<1>2. QED
  BY <1>1, Inductive, PTL

(* A normal exit leaves no list, save the jobs behind a failed header.     *)
THEOREM ListsFreed == Spec => []ListsReleased
<1>1. IInv => ListsReleased
  BY DEF IInv, ListInv, ListsReleased, Lists, Walking, WalkPc
<1>2. QED
  BY <1>1, Inductive, PTL

(* The ABI found by probing is that of the image the process queries.      *)
THEOREM ProbedImageUsed == Spec => []LibraryMatchesAbi
<1>1. IInv => LibraryMatchesAbi
  BY DEF IInv, LoadInv, LibraryMatchesAbi
<1>2. QED
  BY <1>1, Inductive, PTL

(* The errno in the error line is that of the call that failed.            *)
THEOREM ReportTruthful == Spec => []ReportNamesFailingCall
<1>1. IInv => ReportNamesFailingCall
  BY DEF IInv, EndInv, ReportNamesFailingCall
<1>2. QED
  BY <1>1, Inductive, PTL

(* A failed write is the last thing that happens to the output.            *)
THEOREM OutputStops == Spec => NothingAfterFailedWrite
<1>1. IInv /\ [Next]_vars => [outcome = "err" => UNCHANGED <<decoded, lines, outcome>>]_vars
  <2> SUFFICES ASSUME IInv, Next, outcome = "err"
               PROVE  UNCHANGED <<decoded, lines, outcome>>
    OBVIOUS
  <2>1. pc \notin {"header", "each", "blob"}
    BY DEF IInv, CountInv, OutInv
  <2> USE DEF libVars, ownVars, outVars, vars
  <2>2. CASE Parse
    BY <2>2 DEF Parse, CliError, RequireUtc, AbiByVersion, ProbeDlopen, DetectAbi
  <2>3. CASE New
    BY <2>3 DEF New, MainDlopen, SlurmInit, ConnectionGet, FetchTres, FetchQos, Fetch, DebugFetched
  <2>4. CASE Walk
    BY <2>1, <2>4 DEF Walk, Iterate, NextRecord, CollectJob, StreamJob, DestroyIterator,
                      DestroyList
  <2>5. CASE Query
    BY <2>5 DEF Query, BuildCond, JobsGet, DebugQuery, DestroyCond, QueryFailed, QueryAnswered
  <2>6. CASE Finish
    BY <2>1, <2>6 DEF Finish, WriteHeader, WriteBlob, CloseDb, MatchResult, DropSlurmdb, Exit
  <2>7. CASE Environment \/ Terminated
    BY <2>7 DEF Environment, UpgradeLibrary, StderrBreaks, Kill, Terminated
  <2>8. QED
    BY <2>2, <2>3, <2>4, <2>5, <2>6, <2>7 DEF Next, Step
<1>2. QED
  BY <1>1, Inductive, PTL DEF Spec, NothingAfterFailedWrite

-----------------------------------------------------------------------------
(* Session implements QueryRun under the refinement mapping of Session.    *)
LEMMA InitRefines == Init => Promise!Init
  BY SizeAssumption DEF Init, LibInit, Promise!Init, Promise!Unanswered, Unknown, sessionBar,
     deliveredBar, statusBar

(* A step that neither ends the run nor touches what the mapping reads.    *)
LEMMA BarFrame ==
  ASSUME pc \notin {"exited", "killed"}, pc' \notin {"exited", "killed"},
         UNCHANGED <<opened, closed, count>>, UNCHANGED deliveredBar
  PROVE  UNCHANGED <<sessionBar, count, deliveredBar, statusBar>>
  BY DEF sessionBar, statusBar

(* Delivery is a matter of lines, of jobs decoded and of the mode alone.   *)
LEMMA DeliveredFrame ==
  ASSUME UNCHANGED <<args, decoded, lines>>
  PROVE  UNCHANGED deliveredBar
  BY DEF deliveredBar

(* A step of the abstract run that is not its end.                         *)
LEMMA Running ==
  ASSUME pc \notin {"exited", "killed"}, pc' \notin {"exited", "killed"}
  PROVE  statusBar = "running" /\ statusBar' = "running"
  BY DEF statusBar

(* Nothing the daemon or the caller sees before Slurmdb::new.              *)
LEMMA ParseRefines == IInv /\ Parse => UNCHANGED <<sessionBar, count, deliveredBar, statusBar>>
<1> SUFFICES ASSUME IInv, Parse PROVE UNCHANGED <<sessionBar, count, deliveredBar, statusBar>>
  OBVIOUS
<1>1. pc \notin {"exited", "killed"} /\ pc' \notin {"exited", "killed"}
  BY DEF Parse, CliError, RequireUtc, AbiByVersion, ProbeDlopen, DetectAbi, Continue,
         RuntimeError, Eprintln, Panic
<1>2. UNCHANGED <<opened, closed, count, args, decoded, lines>>
  BY DEF Parse, CliError, RequireUtc, AbiByVersion, ProbeDlopen, DetectAbi, libVars, connVars,
         startVars, outVars
<1>3. QED
  BY <1>1, <1>2, BarFrame, DeliveredFrame

(* Slurmdb::new opens the one session and shows nothing else.              *)
LEMMA NewRefines ==
  IInv /\ New => Promise!Next \/ UNCHANGED <<sessionBar, count, deliveredBar, statusBar>>
<1> SUFFICES ASSUME IInv, New
             PROVE  Promise!Next \/ UNCHANGED <<sessionBar, count, deliveredBar, statusBar>>
  OBVIOUS
<1>1. pc \notin {"exited", "killed"} /\ pc' \notin {"exited", "killed"}
  BY DEF New, MainDlopen, SlurmInit, ConnectionGet, FetchTres, FetchQos, Fetch, DebugFetched,
         Continue, RuntimeError, DebugLog, Eprintln, Panic
<1>2. UNCHANGED <<closed, count, args, decoded, lines>>
  BY DEF New, MainDlopen, SlurmInit, ConnectionGet, FetchTres, FetchQos, Fetch, DebugFetched,
         connVars, startVars, outVars
<1>3. CASE UNCHANGED opened
  BY <1>1, <1>2, <1>3, BarFrame, DeliveredFrame
<1>4. CASE opened' # opened
  <2>1. opened = 0 /\ closed = 0 /\ opened' = 1
    BY <1>4 DEF New, MainDlopen, SlurmInit, ConnectionGet, FetchTres, FetchQos, Fetch,
                DebugFetched, connVars, IInv, ConnInv, BeforeConn
  <2>2. Promise!Connect /\ statusBar = "running"
    BY <1>1, <1>2, <2>1, Running, DeliveredFrame DEF Promise!Connect, sessionBar
  <2>3. QED
    BY <2>2 DEF Promise!Next
<1>5. QED
  BY <1>3, <1>4

(* A walk delivers at most one more job, inside the session.              *)
LEMMA WalkRefines ==
  IInv /\ Walk => Promise!Next \/ UNCHANGED <<sessionBar, count, deliveredBar, statusBar>>
<1> SUFFICES ASSUME IInv, Walk
             PROVE  Promise!Next \/ UNCHANGED <<sessionBar, count, deliveredBar, statusBar>>
  OBVIOUS
<1>1. /\ pc \in WalkPc
      /\ pc' \notin {"exited", "killed"}
  BY DEF Walk, Iterate, NextRecord, CollectJob, StreamJob, DestroyIterator, DestroyList, WalkPc,
         Continue, AfterNext, EachRecord, AfterRowError, AfterWalk, IInv, TypeOK
<1>2. pc \notin {"exited", "killed"}
  BY <1>1 DEF WalkPc
<1>3. UNCHANGED <<opened, closed, count, args>>
  BY DEF Walk, Iterate, NextRecord, CollectJob, StreamJob, DestroyIterator, DestroyList, libVars,
         connVars, startVars, outVars
<1>4. CASE UNCHANGED <<decoded, lines>>
  BY <1>2, <1>1, <1>3, <1>4, BarFrame, DeliveredFrame
<1>5. CASE CollectJob
  <2>1. lines = 0 /\ lines' = 0
    BY <1>1, <1>5 DEF CollectJob, IInv, OutInv
  <2>2. UNCHANGED deliveredBar
    BY <2>1 DEF deliveredBar
  <2>3. QED
    BY <1>1, <1>2, <1>3, <2>2, BarFrame
<1>6. CASE StreamJob
  <2>1. /\ lines > 0 /\ lines = decoded + 1 /\ decoded + left + 1 = count
        /\ count \in 0..MaxJobs /\ left \in Nat /\ decoded \in Nat
        /\ conn = "set" /\ opened = 1 /\ closed = 0
    BY <1>1, <1>6, SizeAssumption
    DEF StreamJob, IInv, TypeOK, LibTypeOK, ConnInv, OutInv, CountInv, ListInv, Walking, Answered,
        DuringConn, WalkPc
  <2>2. CASE lines' = lines
    <3>1. UNCHANGED deliveredBar
      BY <1>3, <1>6, <2>2 DEF deliveredBar, StreamJob
    <3>2. QED
      BY <1>1, <1>2, <1>3, <3>1, BarFrame
  <2>3. CASE lines' = lines + 1
    <3>1. deliveredBar = decoded /\ deliveredBar' = decoded + 1 /\ decoded + 1 \in 1..count
      BY <1>3, <1>6, <2>1, <2>3 DEF deliveredBar, StreamJob
    <3>2. Promise!Deliver /\ statusBar = "running"
      BY <1>1, <1>2, <1>3, <2>1, <3>1, Running, SizeAssumption
      DEF Promise!Deliver, Promise!Unanswered, sessionBar
    <3>3. QED
      BY <3>2 DEF Promise!Next
  <2>4. QED
    BY <1>6, <2>2, <2>3 DEF StreamJob
<1>7. QED
  BY <1>4, <1>5, <1>6
  DEF Walk, Iterate, NextRecord, DestroyIterator, DestroyList, outVars

(* jobs_get obtains the one answer, or closes the session without one.     *)
LEMMA QueryRefines ==
  IInv /\ Query => Promise!Next \/ UNCHANGED <<sessionBar, count, deliveredBar, statusBar>>
<1> SUFFICES ASSUME IInv, Query
             PROVE  Promise!Next \/ UNCHANGED <<sessionBar, count, deliveredBar, statusBar>>
  OBVIOUS
<1>1. pc \notin {"exited", "killed"} /\ pc' \notin {"exited", "killed"}
  BY DEF Query, BuildCond, JobsGet, DebugQuery, DestroyCond, QueryFailed, QueryAnswered, Continue,
         RuntimeError, DebugLog, Eprintln, Panic
<1>2. UNCHANGED <<args, decoded, lines>>
  BY DEF Query, BuildCond, JobsGet, DebugQuery, DestroyCond, QueryFailed, QueryAnswered, startVars,
         outVars
<1>3. conn = "set" /\ opened = 1 /\ closed = 0
  BY DEF Query, BuildCond, JobsGet, DebugQuery, DestroyCond, QueryFailed, QueryAnswered, IInv,
         ConnInv, DuringConn
<1>4. CASE UNCHANGED <<opened, closed, count>>
  BY <1>1, <1>2, <1>4, BarFrame, DeliveredFrame
<1>5. CASE QueryFailed
  <2>1. UNCHANGED <<opened, count>> /\ closed' = 1
    BY <1>3, <1>5 DEF QueryFailed, Close, ConnectionClose, outVars
  <2>2. Promise!Disconnect /\ statusBar = "running"
    BY <1>1, <1>2, <1>3, <2>1, Running, DeliveredFrame DEF Promise!Disconnect, sessionBar
  <2>3. QED
    BY <2>2 DEF Promise!Next
<1>6. CASE QueryAnswered
  <2>1. UNCHANGED <<opened, closed>> /\ count = Unknown /\ count' \in 0..MaxJobs
    BY <1>6, SizeAssumption
    DEF QueryAnswered, libVars, IInv, TypeOK, LibTypeOK, ListInv, CountInv, Answered, Walking,
        WalkPc, Leaving, Lists
  <2>2. Promise!Answer /\ statusBar = "running"
    BY <1>1, <1>2, <1>3, <2>1, Running, DeliveredFrame
    DEF Promise!Answer, Promise!Unanswered, Unknown, sessionBar
  <2>3. QED
    BY <2>2 DEF Promise!Next
<1>7. QED
  BY <1>4, <1>5, <1>6
  DEF Query, BuildCond, JobsGet, DebugQuery, DestroyCond, connVars, outVars

(* The way out delivers the blob, closes the session and ends the run.     *)
LEMMA FinishRefines ==
  IInv /\ Finish => Promise!Next \/ UNCHANGED <<sessionBar, count, deliveredBar, statusBar>>
<1> SUFFICES ASSUME IInv, Finish
             PROVE  Promise!Next \/ UNCHANGED <<sessionBar, count, deliveredBar, statusBar>>
  OBVIOUS
<1>1. pc \notin {"exited", "killed"} /\ pc' # "killed" /\ (pc' = "exited" => Exit)
  BY DEF Finish, WriteHeader, WriteBlob, CloseDb, MatchResult, DropSlurmdb, Exit, Continue,
         RuntimeError, Panic
<1>2. UNCHANGED <<opened, count, args, decoded>>
  BY DEF Finish, WriteHeader, WriteBlob, CloseDb, MatchResult, DropSlurmdb, DropConn, Close,
         ConnectionClose, Exit, libVars, connVars, startVars, outVars
<1>3. CASE WriteHeader
  <2>1. lines = 0 /\ lines' \in {0, 1} /\ UNCHANGED closed /\ pc' # "exited" /\ args.jsonl
    BY <1>3 DEF WriteHeader, IInv, CountInv, libVars, connVars, Continue
  <2>2. UNCHANGED deliveredBar
    BY <1>2, <2>1 DEF deliveredBar
  <2>3. QED
    BY <1>1, <1>2, <2>1, <2>2, BarFrame
<1>4. CASE WriteBlob
  <2>1. /\ lines = 0 /\ lines' \in {0, 1} /\ UNCHANGED closed /\ pc' # "exited" /\ ~args.jsonl
        /\ opened = 1 /\ closed = 0 /\ decoded = count /\ count \in 0..MaxJobs
    BY <1>4 DEF WriteBlob, IInv, ConnInv, CountInv, OutInv, DuringConn, Answered, libVars, connVars,
                Continue
  <2>2. deliveredBar = 0 /\ deliveredBar' = IF lines' = 0 THEN 0 ELSE count
    BY <1>2, <2>1 DEF deliveredBar
  <2>3. CASE lines' = 0 \/ count = 0
    BY <1>1, <1>2, <2>1, <2>2, <2>3, BarFrame
  <2>4. CASE lines' = 1 /\ count # 0
    <3>1. Promise!Deliver /\ statusBar = "running"
      BY <1>1, <1>2, <2>1, <2>2, <2>4, Running, SizeAssumption
      DEF Promise!Deliver, Promise!Unanswered, sessionBar
    <3>2. QED
      BY <3>1 DEF Promise!Next
  <2>5. QED
    BY <2>1, <2>3, <2>4
<1>5. CASE CloseDb \/ DropSlurmdb
  <2>1. UNCHANGED lines /\ pc' # "exited"
    BY <1>5 DEF CloseDb, DropSlurmdb, Continue, outVars
  <2>2. \/ UNCHANGED closed
        \/ opened = 1 /\ closed = 0 /\ closed' = 1
    BY <1>5 DEF CloseDb, DropSlurmdb, DropConn, Close, ConnectionClose, connVars, IInv, ConnInv,
                DuringConn
  <2>3. CASE UNCHANGED closed
    BY <1>1, <1>2, <2>1, <2>3, BarFrame, DeliveredFrame
  <2>4. CASE opened = 1 /\ closed = 0 /\ closed' = 1
    <3>1. Promise!Disconnect /\ statusBar = "running"
      BY <1>1, <1>2, <2>1, <2>4, Running, DeliveredFrame DEF Promise!Disconnect, sessionBar
    <3>2. QED
      BY <3>1 DEF Promise!Next
  <2>5. QED
    BY <2>2, <2>3, <2>4
<1>6. CASE MatchResult
  <2>1. UNCHANGED <<closed, lines>> /\ pc' # "exited"
    BY <1>6 DEF MatchResult, RuntimeError, Panic, libVars, connVars, outVars
  <2>2. QED
    BY <1>1, <1>2, <2>1, BarFrame, DeliveredFrame
<1>7. CASE Exit
  <2>1. UNCHANGED <<closed, lines, code>> /\ pc' = "exited"
    BY <1>7 DEF Exit, Continue, libVars, connVars, endVars, outVars
  <2>2. UNCHANGED <<sessionBar, deliveredBar>>
    BY <1>2, <2>1, DeliveredFrame DEF sessionBar
  <2>3. statusBar = "running"
    BY <1>1 DEF statusBar
  <2>4. conn # "set" /\ sessionBar # "open"
    BY <1>7 DEF Exit, IInv, ConnInv, sessionBar
  <2>5. CASE code = 0
    <3>1. /\ conn = "null" /\ lines > 0 /\ decoded = count /\ outcome = "ok"
          /\ decoded \in Nat /\ lines \in Nat
      BY <1>7, <2>5, SizeAssumption DEF Exit, IInv, EndInv, TypeOK
    <3>2. sessionBar = "closed"
      BY <3>1 DEF IInv, ConnInv, sessionBar
    <3>3. deliveredBar = count
      BY <3>1 DEF IInv, OutInv, deliveredBar
    <3>4. statusBar' = "complete"
      BY <2>1, <2>5 DEF statusBar
    <3>5. QED
      BY <1>2, <2>2, <2>3, <2>4, <3>2, <3>3, <3>4 DEF Promise!Next, Promise!Finish
  <2>6. CASE code = 2
    <3>1. sessionBar = "none"
      BY <2>6 DEF IInv, EndInv, ConnInv, sessionBar
    <3>2. statusBar' = "usage"
      BY <2>1, <2>6 DEF statusBar
    <3>3. QED
      BY <1>2, <2>2, <2>3, <2>4, <3>1, <3>2 DEF Promise!Next, Promise!Finish
  <2>7. CASE code \notin {0, 2}
    <3>1. statusBar' = "failed"
      BY <2>1, <2>7 DEF statusBar
    <3>2. QED
      BY <1>2, <2>2, <2>3, <2>4, <3>1 DEF Promise!Next, Promise!Finish
  <2>8. QED
    BY <2>5, <2>6, <2>7
<1>8. QED
  BY <1>3, <1>4, <1>5, <1>6, <1>7 DEF Finish

(* Of what happens from outside, only a kill shows.                        *)
LEMMA EnvironmentRefines ==
  Environment => Promise!Next \/ UNCHANGED <<sessionBar, count, deliveredBar, statusBar>>
<1>1. CASE UpgradeLibrary \/ StderrBreaks
  BY <1>1 DEF UpgradeLibrary, ReplaceFile, StderrBreaks, libVars, connVars, ownVars, startVars,
              endVars, outVars, sessionBar, deliveredBar, statusBar
<1>2. CASE Kill
  <2>1. statusBar = "running" /\ statusBar' = "killed"
    BY <1>2 DEF Kill, Ended, Continue, statusBar
  <2>2. UNCHANGED <<sessionBar, count, deliveredBar>>
    BY <1>2 DEF Kill, libVars, startVars, outVars, sessionBar, deliveredBar
  <2>3. QED
    BY <2>1, <2>2 DEF Promise!Next, Promise!Die
<1>3. QED
  BY <1>1, <1>2 DEF Environment

(* A step that changes nothing shows nothing.                              *)
LEMMA StutterRefines == UNCHANGED vars => UNCHANGED <<sessionBar, count, deliveredBar, statusBar>>
  BY DEF vars, libVars, ownVars, startVars, endVars, outVars, sessionBar, deliveredBar, statusBar

(* Session implements the promise: every step of the code is a step of     *)
(* QueryRun or does not show there.                                        *)
THEOREM Refinement == Spec => KeepsPromise
<1>1. IInv /\ [Next]_vars => [Promise!Next]_(Promise!vars)
  BY ParseRefines, NewRefines, WalkRefines, QueryRefines, FinishRefines, EnvironmentRefines,
     StutterRefines
  DEF Next, Step, Terminated, Promise!vars
<1>2. QED
  BY <1>1, InitRefines, Inductive, PTL DEF Spec, KeepsPromise, Promise!Spec
=============================================================================
