----------------------- MODULE RowStreamLines_proofs -----------------------
(***************************************************************************)
(* RowStream counted in lines: it implements LineOutput, and its reader's  *)
(* rule about job_count is right.  Both count the pieces of the output     *)
(* that stand at a given place of their line.                              *)
(***************************************************************************)
EXTENDS RowStream_proofs

------------------------------------------------------------------------------
(* Counting.                                                               *)

(* The k-th pieces of m lines are m pieces.                                *)
LEMMA Multiples ==
  ASSUME NEW m \in Nat, NEW d \in Nat
  PROVE  Cardinality({j * NL - d : j \in 1..m}) = m
<1> DEFINE S == {j * NL - d : j \in 1..m}
           f == [j \in 1..m |-> j * NL - d]
<1>1. f \in [1..m -> S] /\ \A s \in S : \E j \in 1..m : f[j] = s
  OBVIOUS
<1>2. ASSUME NEW i \in 1..m, NEW j \in 1..m, f[i] = f[j] PROVE i = j
  <2>1. i * NL \in Nat /\ j * NL \in Nat /\ i * NL = j * NL
    <3>1. i * NL \in Nat /\ j * NL \in Nat
      BY Lengths, Z3
    <3>2. i * NL - d = j * NL - d
      BY <1>2
    <3>3. QED
      BY <3>1, <3>2
  <2>2. CASE i < j
    BY <2>1, <2>2, LinesFit, Lengths
  <2>3. CASE j < i
    BY <2>1, <2>3, LinesFit, Lengths
  <2>4. QED
    BY <2>2, <2>3
<1>3. f \in Bijection(1..m, S)
  BY <1>1, <1>2 DEF Bijection, Injection, Surjection, IsInjective
<1>4. ExistsBijection(1..m, S)
  BY <1>3 DEF ExistsBijection
<1> HIDE DEF S
<1>5. Cardinality(S) = m
  BY <1>4, FS_CountingElements
<1>6. QED
  BY <1>5 DEF S

(* Every place is in some line.                                            *)
LEMMA LineOfPlace ==
  ASSUME NEW i \in Nat \ {0}
  PROVE  \E n \in Nat, k \in 1..NL : i = n * NL + k
<1>1. (i - 1) \div NL \in Nat /\ (i - 1) % NL \in 0..(NL - 1)
      /\ i - 1 = NL * ((i - 1) \div NL) + ((i - 1) % NL)
  <2>1. i - 1 \in Int /\ NL \in Int /\ NL > 0
    BY Lengths
  <2>2. QED
    BY <2>1, Z3
<1>2. i = ((i - 1) \div NL) * NL + (((i - 1) % NL) + 1)
  <2> DEFINE q == (i - 1) \div NL
             r == (i - 1) % NL
  <2>1. q * NL \in Nat
    BY <1>1, Lengths, Z3
  <2>2. i - 1 = q * NL + r /\ r \in Nat
    BY <1>1, Lengths
  <2> HIDE DEF q, r
  <2>3. i = q * NL + (r + 1)
    BY <2>1, <2>2
  <2>4. QED
    BY <2>3 DEF q, r
<1>3. ((i - 1) % NL) + 1 \in 1..NL
  BY <1>1, Lengths
<1>4. QED
  BY <1>1, <1>2, <1>3

(* Of t pieces that end in line w, w are newlines.                         *)
LEMMA Newlines ==
  ASSUME NEW t \in Nat, NEW w \in Nat, w * NL <= t, t < w * NL + NL
  PROVE  Cardinality({i \in 1..t : PieceAt(i)[2] = NL}) = w
<1>1. ASSUME NEW i \in 1..t, PieceAt(i)[2] = NL PROVE i \in {j * NL - 0 : j \in 1..w}
  <2>1. PICK n \in Nat, k \in 1..NL : i = n * NL + k
    BY LineOfPlace
  <2>2. k = NL
    BY <1>1, <2>1, PieceOfLine
  <2>3. n * NL \in Nat /\ (n + 1) * NL = n * NL + NL /\ w * NL \in Nat
    BY Lengths, Z3
  <2>4. n < w
    <3> SUFFICES ASSUME w <= n PROVE FALSE
      OBVIOUS
    <3>1. w * NL <= n * NL
      BY <2>3, LinesFit, Lengths
    <3>2. QED
      BY <2>1, <2>2, <2>3, <3>1, Lengths
  <2>5. n + 1 \in 1..w /\ i = (n + 1) * NL - 0
    BY <2>1, <2>2, <2>3, <2>4, Lengths
  <2>6. QED
    BY <2>5
<1>2. ASSUME NEW j \in 1..w PROVE j * NL - 0 \in 1..t /\ PieceAt(j * NL - 0)[2] = NL
  <2>1. j - 1 \in Nat /\ (j - 1) * NL + NL = j * NL /\ j * NL \in Nat /\ (j - 1) * NL \in Nat
        /\ w * NL \in Nat
    BY Lengths, Z3
  <2>2. j * NL <= w * NL
    BY <2>1, LinesFit, Lengths
  <2>3. j * NL - 0 = (j - 1) * NL + NL
    BY <2>1
  <2>4. j * NL - 0 \in 1..t
    BY <2>1, <2>2, Lengths
  <2>5. PieceAt((j - 1) * NL + NL) = <<j - 1, NL>>
    <3>1. j - 1 \in Nat /\ NL \in 1..NL
      BY <2>1, Lengths
    <3>2. QED
      BY <3>1, PieceOfLine
  <2>6. QED
    BY <2>3, <2>4, <2>5
<1>3. {i \in 1..t : PieceAt(i)[2] = NL} = {j * NL - 0 : j \in 1..w}
  BY <1>1, <1>2
<1>4. QED
  BY <1>3, Multiples
------------------------------------------------------------------------------
(* How many lines are out.                                                 *)

(* What the buffer holds begins inside the last line not yet out whole.    *)
LEMMA WrittenNow ==
  BytesInv => /\ writtenBar = IF piece = 1 /\ buf # <<>> THEN line - 1 ELSE line
              /\ piece = 1 /\ buf # <<>> => line > 0
<1> SUFFICES ASSUME BytesInv
             PROVE  /\ writtenBar = IF piece = 1 /\ buf # <<>> THEN line - 1 ELSE line
                    /\ piece = 1 /\ buf # <<>> => line > 0
  OBVIOUS
<1>1. /\ Len(Taken) \in Nat /\ Len(buf) \in Nat /\ Len(Taken) + Len(buf) = Put
      /\ Taken = Given(Len(Taken)) /\ (buf = <<>> <=> Len(buf) = 0)
      /\ line \in Nat /\ piece \in 1..NL
      /\ (Len(buf) < piece \/ (piece = 1 /\ line > 0 /\ Len(buf) <= NL))
  BY TakenNow, EmptySeq, LenProperties DEF BytesInv
<1> DEFINE t == Len(Taken)
           w == IF piece = 1 /\ buf # <<>> THEN line - 1 ELSE line
<1>2. w \in Nat /\ (piece = 1 /\ buf # <<>> => line > 0)
  BY <1>1
<1>3. line * NL \in Nat /\ (line > 0 => (line - 1) * NL = line * NL - NL)
  BY <1>1, Lengths, Z3
<1>4. w * NL <= t /\ t < w * NL + NL
  <2>1. t + Len(buf) = line * NL + piece - 1
    BY <1>1 DEF Put
  <2>2. CASE piece = 1 /\ buf # <<>>
    <3>1. line > 0 /\ w * NL = line * NL - NL /\ 0 < Len(buf) /\ Len(buf) <= NL
      BY <1>1, <1>2, <1>3, <2>2
    <3>2. QED
      BY <1>1, <1>3, <2>1, <2>2, <3>1, Lengths
  <2>3. CASE ~(piece = 1 /\ buf # <<>>)
    <3>1. w * NL = line * NL /\ Len(buf) < piece
      BY <1>1, <2>3
    <3>2. QED
      BY <1>1, <1>3, <2>1, <3>1, Lengths
  <2>4. QED
    BY <2>2, <2>3
<1>5. {i \in 1..t : Taken[i][2] = NL} = {i \in 1..t : PieceAt(i)[2] = NL}
  BY <1>1 DEF Given
<1> HIDE DEF w, t
<1>6. writtenBar = w
  <2>1. t \in Nat
    BY <1>1 DEF t
  <2>2. Cardinality({i \in 1..t : PieceAt(i)[2] = NL}) = w
    BY <1>2, <1>4, <2>1, Newlines
  <2>3. QED
    BY <1>5, <2>2 DEF writtenBar, t
<1>7. QED
  BY <1>2, <1>6 DEF w

------------------------------------------------------------------------------
(* RowStream implements LineOutput.                                        *)

total == LastLine + 1
barVars == <<total, writtenBar, stateBar>>

LEMMA InitLines == ASSUME Init PROVE Lines!Init
<1>1. IInv /\ LastLine \in 0..MaxJobs
  BY InitInv, JobsFacts DEF IInv
<1>2. writtenBar = 0
  BY <1>1, WrittenNow DEF Init, IInv
<1>3. stateBar = "writing"
  BY DEF Init, stateBar
<1>4. QED
  BY <1>1, <1>2, <1>3, StreamAssumption DEF Lines!Init

(* The mapped state without the count of lines.                            *)
BarInv ==
  /\ line \in Nat /\ piece \in 1..NL /\ LastLine \in Nat /\ line <= LastLine + 1
  /\ writtenBar = IF piece = 1 /\ buf # <<>> THEN line - 1 ELSE line
  /\ stateBar = CASE pc = "killed" -> "killed"
                  [] pc = "exited" -> IF result = "ok" THEN "success" ELSE "failure"
                  [] pc = "cleanup" /\ result = "err" ->
                       IF piece = 1 /\ buf = <<>> THEN "failedLate" ELSE "failed"
                  [] OTHER -> "writing"

LEMMA BarsNow == IInv => BarInv
<1> SUFFICES ASSUME IInv PROVE BarInv
  OBVIOUS
<1>1. line \in Nat /\ piece \in 1..NL /\ LastLine \in Nat /\ line <= LastLine + 1
  BY JobsFacts DEF IInv, BytesInv, JobsInv
<1>2. writtenBar = IF piece = 1 /\ buf # <<>> THEN line - 1 ELSE line
  BY WrittenNow DEF IInv
<1>3. piece = 1 => (writtenBar = line <=> buf = <<>>)
  BY <1>1, <1>2
<1>4. QED
  BY <1>1, <1>2, <1>3 DEF stateBar, BarInv

(* Steps between the writes.                                               *)
LEMMA QuietLines ==
  BarInv /\ BarInv' /\ IInv /\ (BeginLine \/ AllWritten \/ PutPiece \/ BufferFull \/ Read \/ StopReading)
    => UNCHANGED barVars
<1> SUFFICES ASSUME BarInv, BarInv', IInv,
                    BeginLine \/ AllWritten \/ PutPiece \/ BufferFull \/ Read \/ StopReading
             PROVE  UNCHANGED barVars
  OBVIOUS
<1>1. LastLine' = LastLine
  BY DEF BeginLine, AllWritten, PutPiece, BufferFull, Read, StopReading, modeVars, LastLine
<1>2. CASE PutPiece
  <2>1. /\ pc = "put" /\ LineText(line)[piece] = <<line, piece>> /\ Len(LineText(line)) = NL
        /\ buf \in Seq(Piece) /\ (piece = 1 => Len(buf) < 1) /\ NL >= 2 /\ NL \in Nat
    BY <1>2, Lengths DEF PutPiece, IInv, BytesInv, CallInv, LineText, BarInv
  <2>2. /\ piece = 1 => buf = <<>>
        /\ buf' # <<>>
    BY <1>2, <2>1, EmptySeq, LenProperties, AppendProperties, Lengths DEF PutPiece, IInv, BytesInv
  <2>3. \/ piece < NL /\ piece' = piece + 1 /\ line' = line /\ pc' = "put"
        \/ piece = NL /\ piece' = 1 /\ line' = line + 1 /\ pc' = "flush"
    BY <1>2, <2>1 DEF PutPiece, AfterLine
  <2>4. writtenBar' = writtenBar
    BY <2>1, <2>2, <2>3 DEF BarInv
  <2>5. stateBar = "writing" /\ stateBar' = "writing"
    BY <2>1, <2>3 DEF BarInv
  <2>6. QED
    BY <1>1, <2>4, <2>5 DEF barVars, total
<1>3. CASE BeginLine \/ AllWritten \/ BufferFull
  BY <1>1, <1>3 DEF BeginLine, AllWritten, BufferFull, BarInv, IInv, JobsInv, barVars, total
<1>4. CASE Read \/ StopReading
  BY <1>1, <1>4 DEF Read, StopReading, writerVars, BarInv, barVars, total
<1>5. QED
  BY <1>2, <1>3, <1>4

(* A write that takes the newline writes the line, or the failed one late. *)
LEMMA TakeLines ==
  BarInv /\ BarInv' /\ IInv /\ WriteSome => [Lines!WriteLine \/ Lines!LateLine]_barVars
<1> SUFFICES ASSUME BarInv, BarInv', IInv, WriteSome
             PROVE  [Lines!WriteLine \/ Lines!LateLine]_barVars
  OBVIOUS
<1>1. UNCHANGED <<jobs, jsonl, pc, line, piece, result>> /\ buf # <<>>
  BY EmptySeq DEF WriteSome, modeVars, writerVars
<1>2. LastLine' = LastLine
  BY <1>1 DEF LastLine
<1>3. CASE piece = 1 /\ buf' = <<>> /\ pc = "cleanup"
  <2>1. result = "err"
    BY <1>1, <1>3 DEF IInv, JobsInv, TypeOK
  <2>2. Lines!LateLine
    BY <1>1, <1>2, <1>3, <2>1 DEF BarInv, Lines!LateLine
  <2>3. QED
    BY <2>2
<1>4. CASE piece = 1 /\ buf' = <<>> /\ pc # "cleanup"
  BY <1>1, <1>2, <1>4 DEF BarInv, Lines!WriteLine, WriteSome, Writing
<1>5. CASE ~(piece = 1 /\ buf' = <<>>)
  BY <1>1, <1>2, <1>5 DEF BarInv, barVars, total
<1>6. QED
  BY <1>3, <1>4, <1>5

(* A failed write fails its line, or is the last thing at exit.            *)
LEMMA FailLines ==
  BarInv /\ BarInv' /\ IInv /\ (Flushed \/ BrokenPipe \/ WriteError)
    => [Lines!FailLine \/ Lines!Finish]_barVars
<1> SUFFICES ASSUME BarInv, BarInv', IInv, Flushed \/ BrokenPipe \/ WriteError
             PROVE  [Lines!FailLine \/ Lines!Finish]_barVars
  OBVIOUS
<1>1. UNCHANGED <<jobs, jsonl, line, piece, buf>> /\ LastLine' = LastLine
  BY DEF Flushed, BrokenPipe, WriteError, OnWriteError, modeVars, LastLine
<1>2. TypeOK /\ JobsInv /\ CallInv /\ result \in {"ok", "err"}
  BY DEF IInv, TypeOK
<1>3. CASE Flushed /\ pc # "cleanup"
  BY <1>1, <1>2, <1>3 DEF Flushed, AfterFlush, Writing, BarInv, barVars, total
<1>4. CASE Flushed /\ pc = "cleanup"
  <2>1. pc' = "exited" /\ result' = result /\ buf = <<>>
    BY <1>4 DEF Flushed, AfterFlush
  <2>2. Lines!Finish
    BY <1>1, <1>2, <1>4, <2>1 DEF BarInv, JobsInv, Lines!Finish
  <2>3. QED
    BY <2>2
<1>5. CASE (BrokenPipe \/ WriteError) /\ pc = "cleanup"
  <2>1. pc' = "exited" /\ result' = result /\ buf # <<>> /\ result = "err"
    BY <1>2, <1>5 DEF BrokenPipe, WriteError, OnWriteError, JobsInv
  <2>2. Lines!Finish
    BY <1>1, <1>5, <2>1 DEF BarInv, Lines!Finish
  <2>3. QED
    BY <2>2
<1>6. CASE (BrokenPipe \/ WriteError) /\ pc # "cleanup"
  <2>1. pc' = "cleanup" /\ result' = "err" /\ buf # <<>> /\ pc \in {"full", "flush"}
    BY <1>6 DEF BrokenPipe, WriteError, OnWriteError, Writing
  <2>2. writtenBar < LastLine + 1
    BY <1>2, <2>1 DEF BarInv, JobsInv, CallInv
  <2>3. Lines!FailLine
    BY <1>1, <2>1, <2>2 DEF BarInv, Lines!FailLine
  <2>4. QED
    BY <2>3
<1>7. QED
  BY <1>3, <1>4, <1>5, <1>6

LEMMA KillLines == BarInv /\ BarInv' /\ IInv /\ Kill => Lines!Die
BY DEF BarInv, IInv, TypeOK, Kill, Ended, modeVars, LastLine, Lines!Die

LEMMA StepLines == BarInv /\ BarInv' /\ IInv /\ [Next]_vars => [Lines!Next]_(Lines!vars)
<1> SUFFICES ASSUME BarInv, BarInv', IInv, [Next]_vars PROVE [Lines!Next]_(Lines!vars)
  OBVIOUS
<1>1. CASE UNCHANGED vars
  <2>1. UNCHANGED <<jobs, jsonl, pc, line, piece, result, buf>>
    BY <1>1 DEF vars, modeVars, writerVars
  <2>2. QED
    BY <2>1 DEF BarInv, LastLine, Lines!vars
<1>2. CASE Next /\ ~UNCHANGED vars
  BY <1>2, QuietLines, TakeLines, FailLines, KillLines
     DEF Next, Write, Terminated, Lines!Next, Lines!vars, barVars, total
<1>3. QED
  BY <1>1, <1>2

(* Counted in lines the stream is LineOutput: lines go out whole and one   *)
(* by one, or the run fails at one of them, says so, and at most that line *)
(* still gets out during the exit.                                         *)
THEOREM ImplementsLineOutput == Spec => WritesLines
<1>1. Spec => [](BarInv /\ IInv)
  BY Inductive, BarsNow, PTL
<1>2. QED
  BY <1>1, InitLines, StepLines, PTL DEF Spec, WritesLines, Lines!Spec

------------------------------------------------------------------------------
(* What a reader of --jsonl makes of the end of the stream.                *)

LEMMA TextOf ==
  ASSUME NEW n \in Nat
  PROVE  SubSeq(LineText(n), 1, Pieces) = [k \in 1..Pieces |-> <<n, k>>]
BY Lengths DEF LineText

LEMMA TextHad ==
  ASSUME NEW i \in Pieces..Len(got), got \in Seq(Piece)
  PROVE  SubSeq(got, i - Pieces + 1, i) = [k \in 1..Pieces |-> got[i - Pieces + k]]
<1>1. Len(got) \in Nat
  BY LenProperties
<1>2. SubSeq(got, i - Pieces + 1, i) = [k \in 1..(i - (i - Pieces + 1) + 1) |-> got[(i - Pieces + 1) + k - 1]]
  BY <1>1, Lengths
<1>3. QED
  BY <1>1, <1>2, Lengths

(* The texts a reader finds are those of the lines it has, the last one    *)
(* perhaps without its newline.                                            *)
LEMMA GoodAre ==
  ASSUME NEW L \in Nat, NEW t \in Nat, got = Given(L), t * NL <= L + 1, L + 1 < t * NL + NL
  PROVE  GoodTexts = {j * NL - 1 : j \in 1..t}
<1>1. Len(got) = L /\ got \in Seq(Piece) /\ \A i \in 1..L : got[i] = PieceAt(i)
  BY GivenLength
<1>2. ASSUME NEW i \in GoodTexts PROVE i \in {j * NL - 1 : j \in 1..t}
  <2>1. i \in Pieces..L /\ i \in 1..L
    BY <1>1, Lengths DEF GoodTexts
  <2>2. PICK n \in Nat, k \in 1..NL : i = n * NL + k
    BY <2>1, LineOfPlace
  <2>3. got[i] = <<n, k>>
    BY <1>1, <2>1, <2>2, PieceOfLine
  <2>4. SubSeq(got, i - Pieces + 1, i) = SubSeq(LineText(n), 1, Pieces)
    <3>1. SubSeq(got, i - Pieces + 1, i) = SubSeq(LineText(got[i][1]), 1, Pieces)
      BY <1>2, Zenon DEF GoodTexts
    <3>2. got[i][1] = n
      BY <2>3
    <3>3. QED
      BY <3>1, <3>2, Zenon
  <2>5. SubSeq(got, i - Pieces + 1, i)[Pieces] = got[i]
    BY <1>1, <2>1, TextHad, Lengths
  <2>6. SubSeq(LineText(n), 1, Pieces)[Pieces] = <<n, Pieces>>
    BY TextOf, Lengths
  <2>7. k = NL - 1
    <3>1. got[i] = <<n, Pieces>>
      BY <2>4, <2>5, <2>6
    <3>2. QED
      BY <2>3, <3>1, Lengths
  <2>8. (n + 1) * NL = n * NL + NL /\ n * NL \in Nat /\ t * NL \in Nat
    BY Lengths, Z3
  <2>9. n < t
    <3> SUFFICES ASSUME t <= n PROVE FALSE
      OBVIOUS
    <3>1. t * NL <= n * NL
      BY <2>8, LinesFit, Lengths
    <3>2. QED
      BY <2>1, <2>2, <2>7, <2>8, <3>1, Lengths
  <2>10. n + 1 \in 1..t /\ i = (n + 1) * NL - 1
    BY <2>2, <2>7, <2>8, <2>9, Lengths
  <2>11. QED
    BY <2>10
<1>3. ASSUME NEW j \in 1..t PROVE j * NL - 1 \in GoodTexts
  <2>1. PICK n \in Nat : n = j - 1
    OBVIOUS
  <2>2. n * NL + NL = j * NL /\ j * NL \in Nat /\ n * NL \in Nat /\ t * NL \in Nat
    BY <2>1, Lengths, Z3
  <2>3. j * NL <= t * NL
    BY <2>2, LinesFit, Lengths
  <2>4. PICK i \in Nat : i = j * NL - 1 /\ i = n * NL + Pieces
    BY <2>2, Lengths
  <2>5. i \in Pieces..L
    BY <2>2, <2>3, <2>4, Lengths
  <2>6. ASSUME NEW k \in 1..NL, n * NL + k <= L PROVE got[n * NL + k] = <<n, k>>
    <3>1. n * NL + k \in 1..L /\ PieceAt(n * NL + k) = <<n, k>>
      BY <2>2, <2>6, PieceOfLine
    <3>2. QED
      BY <1>1, <3>1
  <2>7. SubSeq(got, i - Pieces + 1, i) = SubSeq(LineText(got[i][1]), 1, Pieces)
    <3>1. got[i] = <<n, Pieces>>
      BY <2>4, <2>5, <2>6, Lengths
    <3>2. SubSeq(got, i - Pieces + 1, i) = [k \in 1..Pieces |-> got[i - Pieces + k]]
      BY <1>1, <2>5, TextHad
    <3>3. ASSUME NEW k \in 1..Pieces PROVE got[i - Pieces + k] = <<n, k>>
      <4>1. i - Pieces + k = n * NL + k /\ k \in 1..NL /\ n * NL + k <= L
        BY <2>2, <2>4, <2>5, Lengths
      <4>2. QED
        BY <2>6, <4>1
    <3>4. SubSeq(got, i - Pieces + 1, i) = [k \in 1..Pieces |-> <<n, k>>]
      BY <3>2, <3>3
    <3>5. got[i][1] = n
      BY <3>1
    <3>6. QED
      BY <2>1, <3>4, <3>5, TextOf, Zenon
  <2>8. i = Pieces \/ got[i - Pieces][2] = NL
    <3>1. CASE n = 0
      BY <2>2, <2>4, <3>1, Lengths, Z3
    <3>2. CASE n # 0
      <4>1. n - 1 \in Nat /\ (n - 1) * NL + NL = n * NL /\ NL \in 1..NL
        BY <3>2, Lengths, Z3
      <4>2. i - Pieces = n * NL /\ n * NL \in 1..L
        BY <2>2, <2>4, <2>5, <4>1, Lengths
      <4>3. PieceAt((n - 1) * NL + NL) = <<n - 1, NL>>
        BY <4>1, PieceOfLine
      <4>4. QED
        BY <1>1, <4>1, <4>2, <4>3
    <3>3. QED
      BY <3>1, <3>2
  <2>9. i = Len(got) \/ got[i + 1][2] = NL
    BY <1>1, <2>2, <2>4, <2>5, <2>6, Lengths
  <2>10. QED
    BY <1>1, <2>4, <2>5, <2>7, <2>8, <2>9 DEF GoodTexts
<1>4. QED
  BY <1>2, <1>3

(* Of what the output starts with, a reader trusts all of it, or all but   *)
(* the last newline.                                                       *)
LEMMA NoticedNow == IInv => TruncationNoticed
<1> SUFFICES ASSUME IInv, AtEof, jsonl PROVE Trusts <=> got \in {Whole, Seqs!Front(Whole)}
  BY DEF TruncationNoticed
<1> DEFINE M == (jobs + 1) * NL
           L == Len(got)
           t == (L + 1) \div NL
<1>1. jobs \in Nat /\ LastLine = jobs /\ sink = <<>> /\ got \in Seq(Piece)
  BY StreamAssumption DEF IInv, TypeOK, BytesInv, LastLine, AtEof
<1>2. Taken = got
  BY <1>1, ConcatEmptySeq DEF Taken
<1>3. L \in Nat /\ M \in Nat /\ L <= M /\ got = Given(L) /\ Whole = Given(M)
  <2>1. Put \in Nat /\ Put <= M /\ M \in Nat
    BY <1>1, HowMuch
  <2>2. L \in Nat /\ L <= Put /\ got = Given(L)
    BY <1>2, <2>1, TakenNow DEF IInv
  <2>3. Whole = Given(M)
    BY <1>1, WholeIsGiven
  <2>4. QED
    BY <2>1, <2>2, <2>3
<1>4. t \in Nat /\ t * NL <= L + 1 /\ L + 1 < t * NL + NL
  <2>1. L + 1 \in Nat /\ NL \in Nat /\ NL > 0
    BY <1>3, Lengths
  <2> HIDE DEF L
  <2>2. QED
    BY <2>1, Z3
<1>5. M >= NL /\ M >= 2 /\ M = jobs * NL + NL /\ jobs * NL \in Nat
  BY <1>1, Lengths, Z3
<1> HIDE DEF t, L, M
<1>6. GoodTexts = {j * NL - 1 : j \in 1..t} /\ Cardinality(GoodTexts) = t
  <2>1. GoodTexts = {j * NL - 1 : j \in 1..t}
    BY <1>3, <1>4, GoodAre
  <2>2. QED
    BY <1>4, <2>1, Multiples
<1>7. Trusts <=> t = jobs + 1
  <2>1. t >= 1 => Pieces \in GoodTexts
    <3>1. 1 * NL - 1 = Pieces
      BY Lengths
    <3>2. QED
      BY <1>4, <1>6, <3>1
  <2>2. QED
    BY <1>1, <1>6, <2>1 DEF Trusts, HeaderCount
<1>8. t = jobs + 1 <=> L = M \/ L = M - 1
  <2>1. t * NL \in Nat
    BY <1>4, Lengths, Z3
  <2>2. ASSUME t = jobs + 1 PROVE L = M \/ L = M - 1
    <3>1. t * NL = M
      BY <2>2 DEF M
    <3>2. QED
      BY <1>3, <1>4, <3>1
  <2>3. ASSUME L = M \/ L = M - 1 PROVE t = jobs + 1
    <3>1. CASE t < jobs + 1
      <4>1. t * NL + NL <= M
        BY <1>1, <1>4, <3>1, LinesFit DEF M
      <4>2. QED
        BY <1>3, <1>4, <2>1, <2>3, <4>1, Lengths
    <3>2. CASE jobs + 1 < t
      <4>1. M + NL <= t * NL
        BY <1>1, <1>4, <3>2, LinesFit DEF M
      <4>2. QED
        BY <1>3, <1>4, <2>1, <2>3, <4>1, Lengths
    <3>3. QED
      BY <1>1, <1>4, <3>1, <3>2
  <2>4. QED
    BY <2>2, <2>3
<1>9. got = Whole <=> L = M
  BY <1>3, GivenLength
<1>10. got = Seqs!Front(Whole) <=> L = M - 1
  <2>1. Len(Whole) = M /\ \A i \in 1..M : Whole[i] = PieceAt(i)
    BY <1>3, GivenLength
  <2>2. Seqs!Front(Whole) = Given(M - 1)
    BY <1>3, <1>5, <2>1 DEF Seqs!Front, Given
  <2>3. M - 1 \in Nat
    BY <1>3, <1>5
  <2>4. QED
    BY <1>3, <2>2, <2>3, GivenLength
<1>11. QED
  BY <1>7, <1>8, <1>9, <1>10

(* A reader of --jsonl that sees the end of the stream and knows nothing   *)
(* but job_count trusts exactly the streams that carry every job, in order *)
(* and once, whatever ended the writer and wherever.                       *)
THEOREM Noticed == Spec => []TruncationNoticed
BY NoticedNow, Inductive, PTL
===========================================================================================
