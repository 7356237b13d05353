-------------------------- MODULE Fastsacct_proofs --------------------------
(***************************************************************************)
(* Theorems about the whole process.  What Session_proofs shows of main()  *)
(* and RowStream_proofs of the bytes is taken over, instance by instance;  *)
(* new is how the two fit together.                                        *)
(***************************************************************************)
EXTENDS FastsacctInv, TLAPS

------------------------------------------------------------------------------
(* Every step is one of Session, or none.                                  *)

LEMMA StepOfSession == [Next]_vars => [S!Next]_(S!vars)
<1> SUFFICES ASSUME [Next]_vars PROVE [S!Next]_(S!vars)
  OBVIOUS
<1>1. UNCHANGED sessionVars => UNCHANGED S!vars
  BY DEF sessionVars, S!vars, S!libVars, S!connVars, S!listVars, S!loadVars, S!ownVars,
         S!startVars, S!endVars, S!keyVars, S!outVars
<1>2. CASE OwnStep
  BY <1>2 DEF OwnStep, S!Next, S!Step, S!Walk, S!Finish
<1>3. CASE EndLine \/ FailLine
  BY <1>3 DEF EndLine, FailLine, WriteCall, S!Next, S!Step, S!Walk, S!Finish
<1>4. CASE Exit \/ FailExit \/ Kill \/ StderrBreaks
  BY <1>4 DEF Exit, FailExit, Kill, StderrBreaks, S!Next, S!Step, S!Finish, S!Environment
<1>5. CASE BeginLine \/ InLine \/ AtExit \/ Read \/ StopReading \/ Terminated \/ UNCHANGED vars
  BY <1>1, <1>5 DEF BeginLine, InLine, AtExit, Read, StopReading, Terminated, vars
<1>6. QED
  BY <1>2, <1>3, <1>4, <1>5 DEF Next, Process

LEMMA SessionKept == S!IInv /\ [Next]_vars => S!IInv'
<1>1. S!IInv /\ [S!Next]_(S!vars) => S!IInv'
  BY PartsAssumption, S!ParseStep, S!NewStep, S!WalkStep, S!QueryStep, S!FinishStep,
     S!EnvironmentStep, S!StutterInv
  DEF S!Next, S!Step, S!Terminated
<1>2. QED
  BY <1>1, StepOfSession

(* Every run of the process is a run of Session: whatever is proved of     *)
(* Session holds of it, with a real stream behind standard output.         *)
THEOREM ImplementsSession == Spec => S!Spec
<1>1. Init => S!Init
  BY DEF Init
<1>2. QED
  BY <1>1, StepOfSession, PTL DEF Spec, S!Spec

------------------------------------------------------------------------------
(* What Session's steps do to what the two modules share.                  *)

(* At a call nothing has failed yet and the connection is open.            *)
LEMMA AtCall ==
  S!IInv /\ AtWriteCall =>
    outcome = "ok" /\ closed = 0 /\ pc \notin {"exit", "exited", "killed"}
BY DEF AtWriteCall, S!IInv, S!ConnInv, S!DuringConn, S!CountInv, S!OutInv, S!WalkPc

LEMMA Call ==
  S!IInv /\ WriteCall =>
    /\ \/ lines' = lines + 1 /\ outcome' = outcome
       \/ lines' = lines /\ outcome' = "err"
    /\ pc' \notin {"exit", "exited", "killed"}
BY DEF WriteCall, S!WriteHeader, S!StreamJob, S!WriteBlob, S!Continue, S!AfterRowError

(* The rest of main() writes nothing.                                      *)
LEMMA Own ==
  S!IInv /\ OwnStep =>
    /\ UNCHANGED <<lines, outcome>>
    /\ ~AtWriteCall
    /\ pc \notin {"exit", "exited", "killed"} /\ pc' \notin {"exited", "killed"}
<1> SUFFICES ASSUME S!IInv, OwnStep
             PROVE  /\ UNCHANGED <<lines, outcome>>
                    /\ ~AtWriteCall
                    /\ pc \notin {"exit", "exited", "killed"} /\ pc' \notin {"exited", "killed"}
  OBVIOUS
<1> USE DEF AtWriteCall, S!outVars, S!Continue, S!Panic, S!RuntimeError, S!Eprintln, S!DebugLog
<1>1. CASE S!Parse
  BY <1>1 DEF S!Parse, S!CliError, S!RequireUtc, S!AbiByVersion, S!ProbeDlopen, S!DetectAbi
<1>2. CASE S!New
  BY <1>2 DEF S!New, S!MainDlopen, S!SlurmInit, S!ConnectionGet, S!FetchTres, S!FetchQos, S!Fetch,
              S!DebugFetched
<1>3. CASE S!Query
  BY <1>3 DEF S!Query, S!BuildCond, S!JobsGet, S!DebugQuery, S!DestroyCond, S!QueryFailed,
              S!QueryAnswered
<1>4. CASE S!Iterate \/ S!NextRecord \/ S!CollectJob \/ S!DestroyIterator \/ S!DestroyList
  <2>1. walk \in {"tres", "qos", "jobs"}
    BY DEF S!IInv, S!TypeOK
  <2>2. QED
    BY <1>4, <2>1 DEF S!Iterate, S!NextRecord, S!CollectJob, S!DestroyIterator, S!DestroyList,
                      S!AfterNext, S!EachRecord, S!AfterWalk
<1>5. CASE S!CloseDb \/ S!MatchResult \/ S!DropSlurmdb
  BY <1>5 DEF S!CloseDb, S!MatchResult, S!DropSlurmdb
<1>6. QED
  BY <1>1, <1>2, <1>3, <1>4, <1>5 DEF OwnStep

------------------------------------------------------------------------------
(* The inductive invariant.                                                *)

LEMMA InitInv == Init => IInv
<1> SUFFICES ASSUME Init PROVE IInv
  OBVIOUS
<1>1. S!IInv
  BY PartsAssumption, S!InitInv DEF Init
<1>2. R!BytesInv /\ R!CallInv
  BY PartsAssumption, R!InitBytes DEF Init
<1>3. StepInv /\ LineInv
  BY DEF Init, S!Init, StepInv, LineInv, R!Writing
<1>4. QED
  BY <1>1, <1>2, <1>3 DEF IInv

(* The stream's own invariant needs nothing but the stream's own steps.    *)
LEMMA StreamMoves ==
  Next => \/ UNCHANGED streamVars
          \/ R!Write \/ R!WriteError \/ R!Read \/ R!StopReading \/ R!Kill
          \/ out = "decode" /\ out' = "exited" /\ UNCHANGED <<line, piece, buf, sink, got, open>>
BY DEF Next, Process, OwnStep, BeginLine, InLine, EndLine, FailLine, AtExit, Exit, FailExit, Read,
       StopReading, StderrBreaks, Kill, Terminated, R!Write, R!Terminated, R!vars, R!writerVars,
       streamVars

LEMMA BytesKept == R!BytesInv /\ R!CallInv /\ [Next]_vars => R!BytesInv' /\ R!CallInv'
<1> SUFFICES ASSUME R!BytesInv, R!CallInv, [Next]_vars PROVE R!BytesInv' /\ R!CallInv'
  OBVIOUS
<1>1. CASE R!Write \/ R!WriteError \/ R!Read \/ R!StopReading \/ R!Kill
  BY <1>1, PartsAssumption, R!StreamKept
<1>2. CASE /\ UNCHANGED <<line, piece, buf, sink, got>>
           /\ out' = out \/ (out = "decode" /\ out' = "exited")
  <2>1. R!BytesInv'
    BY <1>2, PartsAssumption, R!SameBytes
  <2>2. R!CallInv'
    BY <1>2 DEF R!CallInv
  <2>3. QED
    BY <2>1, <2>2
<1>3. QED
  BY <1>1, <1>2, StreamMoves DEF vars, streamVars

(* Session moves and the stream rests.                                     *)
LEMMA OwnFits ==
  IInv /\ (OwnStep \/ StderrBreaks) => StepInv' /\ LineInv'
<1> SUFFICES ASSUME IInv, OwnStep \/ StderrBreaks PROVE StepInv' /\ LineInv'
  OBVIOUS
<1>1. StepInv /\ LineInv /\ S!IInv
  BY DEF IInv
<1>2. UNCHANGED <<lines, outcome>> /\ UNCHANGED <<out, line, piece, buf>>
  BY <1>1, Own DEF OwnStep, StderrBreaks, S!StderrBreaks, S!outVars, streamVars
<1>3. LineInv'
  BY <1>1, <1>2 DEF LineInv
<1>4. CASE OwnStep
  <2>1. ~AtWriteCall /\ pc \notin {"exit", "exited", "killed"} /\ pc' \notin {"exited", "killed"}
    BY <1>1, <1>4, Own
  <2>2. StepInv'
    BY <1>1, <1>2, <2>1 DEF StepInv, R!Writing
  <2>3. QED
    BY <1>3, <2>2
<1>5. CASE StderrBreaks
  <2>1. UNCHANGED <<pc, args>>
    BY <1>5 DEF StderrBreaks, S!StderrBreaks
  <2>2. StepInv'
    BY <1>1, <1>2, <2>1 DEF StepInv, AtWriteCall, R!Writing
  <2>3. QED
    BY <1>3, <2>2
<1>6. QED
  BY <1>4, <1>5

(* The stream moves within a call and Session rests.                       *)
LEMMA StreamFits ==
  IInv /\ (BeginLine \/ InLine \/ AtExit \/ Read \/ StopReading) => StepInv' /\ LineInv'
<1> SUFFICES ASSUME IInv, BeginLine \/ InLine \/ AtExit \/ Read \/ StopReading
             PROVE  StepInv' /\ LineInv'
  OBVIOUS
<1>1. StepInv /\ LineInv /\ R!CallInv
  BY DEF IInv
<1>2. UNCHANGED <<pc, args, lines, outcome>> /\ (AtWriteCall' <=> AtWriteCall)
  BY DEF BeginLine, InLine, AtExit, Read, StopReading, sessionVars, AtWriteCall
<1>3. CASE BeginLine
  <2>1. out = "decode" /\ out' = "put" /\ AtWriteCall /\ UNCHANGED <<line, piece, buf>>
    BY <1>3 DEF BeginLine, R!BeginLine
  <2>2. QED
    BY <1>1, <1>2, <2>1 DEF StepInv, LineInv, R!CallInv, R!Writing
<1>4. CASE R!PutPiece
  <2>1. /\ out = "put" /\ piece \in 1..R!NL /\ line \in Nat
        /\ \/ piece' = piece + 1 /\ line' = line /\ out' = "put"
           \/ piece' = 1 /\ line' = line + 1 /\ out' = "flush"
    BY <1>4 DEF R!PutPiece, R!AfterLine, IInv, R!BytesInv
  <2>2. StepInv'
    BY <1>1, <1>2, <2>1 DEF StepInv, R!Writing
  <2>3. LineInv'
    BY <1>1, <1>2, <2>1 DEF LineInv
  <2>4. QED
    BY <2>2, <2>3
<1>5. CASE R!BufferFull \/ R!AllWritten \/ (out = "full" /\ R!Flushed)
  <2>1. /\ UNCHANGED <<line, piece, buf>>
        /\ \/ out = "put" /\ out' = "full"
           \/ out = "decode" /\ out' = "cleanup"
           \/ out = "full" /\ out' = "put"
    BY <1>5 DEF R!BufferFull, R!AllWritten, R!Flushed, R!AfterFlush
  <2>2. out' = "cleanup" => pc = "exit"
    BY <1>5, <2>1 DEF InLine, AtExit, BeginLine, Read, StopReading, R!BeginLine, R!PutPiece,
                      R!BufferFull, R!WriteSome, R!Flushed, R!Read, R!StopReading, R!writerVars
  <2>3. QED
    BY <1>1, <1>2, <2>1, <2>2 DEF StepInv, LineInv, R!CallInv, R!Writing
<1>6. CASE R!WriteSome
  <2>1. UNCHANGED <<out, line, piece>> /\ buf # <<>>
    BY <1>6 DEF R!WriteSome, R!writerVars
  <2>2. QED
    BY <1>1, <1>2, <2>1 DEF StepInv, LineInv
<1>7. CASE Read \/ StopReading
  <2>1. UNCHANGED <<out, line, piece, buf>>
    BY <1>7 DEF Read, StopReading, R!Read, R!StopReading, R!writerVars
  <2>2. QED
    BY <1>1, <1>2, <2>1 DEF StepInv, LineInv
<1>8. QED
  BY <1>3, <1>4, <1>5, <1>6, <1>7 DEF InLine, AtExit

(* A call returns in both: the line is counted when it is out, and the     *)
(* result is an error when a write failed.                                 *)
LEMMA CallFits == IInv /\ (EndLine \/ FailLine) => StepInv' /\ LineInv'
<1> SUFFICES ASSUME IInv, EndLine \/ FailLine PROVE StepInv' /\ LineInv'
  OBVIOUS
<1>1. StepInv /\ LineInv /\ R!CallInv /\ S!IInv
  BY DEF IInv
<1>2. outcome = "ok" /\ out # "cleanup"
  BY <1>1, AtCall DEF EndLine, FailLine
<1>3. /\ \/ lines' = lines + 1 /\ outcome' = outcome
         \/ lines' = lines /\ outcome' = "err"
      /\ pc' \notin {"exit", "exited", "killed"}
  BY <1>1, Call DEF EndLine, FailLine
<1>4. CASE out = "flush" /\ R!Flushed
  <2>1. out' = "decode" /\ UNCHANGED <<line, piece, buf, outcome>> /\ buf = <<>>
    BY <1>4 DEF R!Flushed, R!AfterFlush
  <2>2. lines' = lines + 1
    BY <1>2, <1>3, <2>1
  <2>3. QED
    BY <1>1, <1>2, <1>3, <1>4, <2>1, <2>2 DEF StepInv, LineInv, R!Writing
<1>5. CASE R!BrokenPipe \/ R!WriteError
  <2>1. out' = "cleanup" /\ outcome' = "err" /\ UNCHANGED <<line, piece, buf>>
    BY <1>2, <1>5 DEF R!BrokenPipe, R!WriteError, R!OnWriteError
  <2>2. lines' = lines
    BY <1>2, <1>3, <2>1
  <2>3. QED
    BY <1>1, <1>3, <2>1, <2>2 DEF StepInv, LineInv, R!Writing
<1>6. QED
  BY <1>4, <1>5 DEF EndLine, FailLine

(* The process ends in both.                                               *)
LEMMA EndFits == IInv /\ (Exit \/ FailExit \/ Kill) => StepInv' /\ LineInv'
<1> SUFFICES ASSUME IInv, Exit \/ FailExit \/ Kill PROVE StepInv' /\ LineInv'
  OBVIOUS
<1>1. StepInv /\ LineInv /\ R!CallInv
  BY DEF IInv
<1>2. UNCHANGED <<lines, outcome, line, piece, buf>>
  BY DEF Exit, FailExit, Kill, S!Exit, S!Kill, S!outVars, R!Flushed, R!BrokenPipe, R!WriteError,
         R!OnWriteError, R!Kill
<1>3. CASE Exit \/ FailExit
  <2>1. /\ pc' = "exited" /\ out' = "exited"
        /\ out = "cleanup" \/ (out = "decode" /\ piece = 1)
    BY <1>1, <1>3 DEF Exit, FailExit, S!Exit, S!Continue, R!Flushed, R!AfterFlush, R!BrokenPipe,
                      R!WriteError, R!OnWriteError, R!CallInv
  <2>2. QED
    BY <1>1, <1>2, <2>1 DEF StepInv, LineInv, R!Writing
<1>4. CASE Kill
  <2>1. pc' = "killed" /\ out' = "killed"
    BY <1>4 DEF Kill, S!Kill, S!Continue, R!Kill
  <2>2. QED
    BY <1>1, <1>2, <2>1 DEF StepInv, LineInv, R!Writing
<1>5. QED
  BY <1>3, <1>4

(* The invariant holds initially and every step keeps it.                  *)
THEOREM Inductive == Spec => []IInv
<1>1. IInv /\ [Next]_vars => S!IInv' /\ R!BytesInv' /\ R!CallInv'
  BY SessionKept, BytesKept DEF IInv
<1>2. IInv /\ [Next]_vars => StepInv' /\ LineInv'
  <2>1. IInv /\ UNCHANGED vars => StepInv' /\ LineInv'
    BY DEF IInv, StepInv, LineInv, AtWriteCall, R!Writing, vars, sessionVars, streamVars
  <2>2. Terminated => UNCHANGED vars
    BY DEF Terminated, R!Terminated, R!vars, R!writerVars, vars, streamVars
  <2>3. QED
    BY <2>1, <2>2, OwnFits, StreamFits, CallFits, EndFits DEF Next, Process
<1>3. IInv /\ [Next]_vars => IInv'
  BY <1>1, <1>2 DEF IInv
<1>4. QED
  BY InitInv, <1>3, PTL DEF Spec

------------------------------------------------------------------------------
(* What the invariant says.                                                *)

(* Session's view of the stream is the truth about the bytes.              *)
LEMMA OutNow == IInv => LinesAreOut
<1> SUFFICES ASSUME IInv PROVE LinesAreOut
  OBVIOUS
<1>1. R!BytesInv /\ R!CallInv /\ LineInv /\ lines \in Nat
  BY DEF IInv, S!IInv, S!TypeOK
<1>2. Newlines = IF piece = 1 /\ buf # <<>> THEN line - 1 ELSE line
  BY <1>1, PartsAssumption, R!WrittenNow DEF Newlines
<1>3. QED
  BY <1>1, <1>2 DEF LinesAreOut, LineInv, R!CallInv

(* Status 0 means the whole answer.                                        *)
LEMMA WholeNow == IInv => StatusZeroIsWhole
<1> SUFFICES ASSUME IInv, pc = "exited", code = 0
             PROVE  R!Taken = R!Whole /\ decoded = count /\ conn = "null"
  BY DEF StatusZeroIsWhole
<1>1. S!IInv /\ R!BytesInv /\ StepInv /\ LineInv
  BY DEF IInv
<1>2. /\ conn = "null" /\ outcome = "ok" /\ decoded = count /\ lines > 0 /\ lines \in Nat
      /\ decoded \in Nat
  BY <1>1, PartsAssumption DEF S!IInv, S!EndInv, S!TypeOK
<1>3. lines = R!LastLine + 1
  BY <1>1, <1>2 DEF S!IInv, S!OutInv, R!LastLine
<1>4. line = lines /\ piece = 1 /\ buf = <<>>
  BY <1>1, <1>2 DEF StepInv, LineInv
<1>5. R!Put = (R!LastLine + 1) * R!NL /\ R!Put = Len(R!Taken) + Len(buf) /\ R!Taken = R!Given(Len(R!Taken))
  <2>1. R!Put = line * R!NL + 1 - 1
    BY <1>4 DEF R!Put
  <2>2. line * R!NL \in Nat
    BY <1>1, PartsAssumption, R!Lengths, Z3 DEF R!BytesInv
  <2>3. QED
    BY <1>1, <1>3, <1>4, <2>1, <2>2, PartsAssumption, R!TakenNow
<1>6. Len(R!Taken) = (R!LastLine + 1) * R!NL
  <2>1. Len(buf) = 0 /\ Len(R!Taken) \in Nat
    BY <1>1, <1>4, PartsAssumption, R!TakenNow
  <2>2. QED
    BY <1>5, <2>1
<1>7. QED
  BY <1>2, <1>5, <1>6, PartsAssumption, R!WholeIsGiven

(* Nothing but a write(2) takes bytes.                                     *)
LEMMA OnlyWrites ==
  IInv /\ [Next]_vars /\ R!Taken' # R!Taken => R!WriteSome /\ (InLine \/ AtExit)
<1> SUFFICES ASSUME IInv, [Next]_vars, ~(R!WriteSome /\ (InLine \/ AtExit))
             PROVE  R!Taken' = R!Taken
  OBVIOUS
<1>1. CASE R!Read
  BY <1>1, PartsAssumption, R!ReadBytes DEF IInv
<1>2. CASE UNCHANGED <<sink, got>>
  BY <1>2 DEF R!Taken
<1>3. QED
  BY <1>1, <1>2
  DEF Next, Process, OwnStep, BeginLine, InLine, EndLine, FailLine, AtExit, Exit, FailExit, Read,
      StopReading, StderrBreaks, Kill, Terminated, R!Terminated, R!vars, R!BeginLine, R!AllWritten,
      R!PutPiece, R!BufferFull, R!Flushed, R!BrokenPipe, R!WriteError, R!StopReading, R!Kill,
      streamVars, vars

(* After the close only the rest of a failed line comes out.               *)
LEMMA LateNow == IInv /\ [Next]_vars /\ R!Taken' # R!Taken /\ closed = 1
                   => outcome = "err" /\ code \in {1, 101}
<1> SUFFICES ASSUME IInv, [Next]_vars, R!Taken' # R!Taken, closed = 1
             PROVE  outcome = "err" /\ code \in {1, 101}
  OBVIOUS
<1>1. S!IInv /\ StepInv /\ LineInv
  BY DEF IInv
<1>2. R!WriteSome /\ (InLine \/ AtExit)
  BY OnlyWrites
<1>3. out \in R!Writing \ {"put"} /\ buf # <<>>
  BY <1>2 DEF R!WriteSome
<1>4. out \notin {"full", "flush"}
  BY <1>1, AtCall DEF StepInv
<1>5. out = "cleanup" /\ pc = "exit"
  BY <1>2, <1>3, <1>4
  DEF InLine, AtExit, R!Writing, R!PutPiece, R!BufferFull, R!Flushed, R!AllWritten
<1>6. outcome = "err"
  BY <1>1, <1>3, <1>5 DEF LineInv, S!IInv, S!TypeOK
<1>7. code \in {0, 1, 2, 101} /\ code # 0 /\ code # 2
  BY <1>1, <1>5, <1>6 DEF S!IInv, S!TypeOK, S!EndInv, S!ConnInv
<1>8. QED
  BY <1>6, <1>7

(* At every step of a run Session's count of lines is what has left the    *)
(* process, but for the line it is in.                                     *)
THEOREM CountIsTrue == Spec => []LinesAreOut
BY OutNow, Inductive, PTL

(* Status 0 means that the descriptor took the header or the blob and a    *)
(* line for every job slurmdbd answered, and that the session is closed.   *)
THEOREM ZeroIsWhole == Spec => []StatusZeroIsWhole
BY WholeNow, Inductive, PTL

(* No run that reports success leaves output to the flush at exit.         *)
THEOREM LateIsFailure == Spec => NoLateOutput
<1>1. IInv /\ [Next]_vars => [R!Taken' # R!Taken /\ closed = 1 => outcome = "err" /\ code \in {1, 101}]_vars
  BY LateNow
<1>2. QED
  BY <1>1, Inductive, PTL DEF Spec, NoLateOutput
====================================================================================
