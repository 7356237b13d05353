-------------------------- MODULE RowStream_proofs --------------------------
(***************************************************************************)
(* Theorems about RowStream for every number of jobs, every length of a    *)
(* line and every size of buffer and pipe.  All rest on the inductive      *)
(* invariant IInv of RowStreamInv.                                         *)
(***************************************************************************)
EXTENDS RowStreamInv, SequenceTheorems, FiniteSetTheorems, TLAPS

------------------------------------------------------------------------------
(* Places and sequences.                                                   *)

LEMMA Lengths == NL \in Nat /\ NL >= 2 /\ Pieces = NL - 1
  BY StreamAssumption DEF NL

(* Lines are NL pieces long, so line n starts behind n * NL of them.       *)
LEMMA PieceOfLine ==
  ASSUME NEW n \in Nat, NEW k \in 1..NL
  PROVE  /\ n * NL + k \in Nat \ {0}
         /\ PieceAt(n * NL + k) = <<n, k>>
<1>1. (n * NL + k - 1) \div NL = n /\ (n * NL + k - 1) % NL = k - 1
  BY Lengths, Z3
<1>2. QED
  BY <1>1, Lengths DEF PieceAt

LEMMA LinesFit ==
  ASSUME NEW m \in Nat, NEW n \in Nat, m < n
  PROVE  m * NL + NL <= n * NL
  BY Lengths, Z3

LEMMA PutType == line \in Nat /\ piece \in 1..NL => Put \in Nat
<1> SUFFICES ASSUME line \in Nat, piece \in 1..NL PROVE Put \in Nat
  OBVIOUS
<1>1. line * NL \in Nat
  BY Lengths, Z3
<1>2. QED
  BY <1>1, Lengths DEF Put

(* A sequence cut in two is still all of it.                               *)
LEMMA CutInTwo ==
  ASSUME NEW T, NEW s \in Seq(T), NEW n \in 0..Len(s)
  PROVE  /\ SubSeq(s, 1, n) \in Seq(T) /\ Len(SubSeq(s, 1, n)) = n
         /\ SubSeq(s, n + 1, Len(s)) \in Seq(T) /\ Len(SubSeq(s, n + 1, Len(s))) = Len(s) - n
         /\ SubSeq(s, 1, n) \o SubSeq(s, n + 1, Len(s)) = s
<1>1. Len(s) \in Nat /\ \A i \in 1..Len(s) : s[i] \in T
  BY LenProperties
<1>2. SubSeq(s, 1, n) \in Seq(T) /\ Len(SubSeq(s, 1, n)) = n
  BY <1>1, SubSeqProperties
<1>3. SubSeq(s, n + 1, Len(s)) \in Seq(T) /\ Len(SubSeq(s, n + 1, Len(s))) = Len(s) - n
  BY <1>1, SubSeqProperties
<1>4. SubSeq(s, 1, n) \o SubSeq(s, n + 1, Len(s)) = SubSeq(s, 1, Len(s))
  <2>1. 1 \in 1..(Len(s) + 1) /\ n \in (1 - 1)..Len(s) /\ Len(s) \in n..Len(s)
    BY <1>1
  <2>2. QED
    BY <2>1, ConcatAdjacentSubSeq, Zenon
<1>5. QED
  BY <1>2, <1>3, <1>4, SubSeqFull

------------------------------------------------------------------------------
(* BytesInv, action by action.                                             *)

(* What the three of them have is one sequence, however it is cut.         *)
LEMMA Rejoin ==
  ASSUME NEW r \in Seq(Piece), NEW s \in Seq(Piece), NEW t \in Seq(Piece)
  PROVE  r \o s \in Seq(Piece) /\ (r \o s) \o t = r \o (s \o t)
BY ConcatProperties, ConcatAssociative

Given(n) == [i \in 1..n |-> PieceAt(i)]

LEMMA BytesFrame ==
  ASSUME line' \in Nat, piece' \in 1..NL,
         got' \in Seq(Piece), sink' \in Seq(Piece), buf' \in Seq(Piece),
         (Taken \o buf)' = Given(Put'),
         Len(buf') < piece' \/ (piece' = 1 /\ line' > 0 /\ Len(buf') <= NL)
  PROVE  BytesInv'
BY DEF BytesInv, Given, PieceAt, Piece, NL

LEMMA BytesNow == BytesInv => Taken \o buf = Given(Put) /\ Taken \in Seq(Piece)
BY Rejoin DEF BytesInv, Given, Taken

(* The next piece of the line is put where the output needs it.            *)
LEMMA PutPieceBytes == BytesInv /\ Len(buf) < piece /\ PutPiece => BytesInv'
<1> SUFFICES ASSUME BytesInv, Len(buf) < piece, PutPiece PROVE BytesInv'
  OBVIOUS
<1> DEFINE p == <<line, piece>>
<1>1. /\ p \in Piece /\ LineText(line)[piece] = p /\ Len(LineText(line)) = NL
      /\ line \in Nat /\ piece \in 1..NL /\ buf \in Seq(Piece)
      /\ got \in Seq(Piece) /\ sink \in Seq(Piece)
  BY Lengths DEF Piece, LineText, BytesInv
<1> HIDE DEF p
<1>2. /\ got' = got /\ sink' = sink /\ buf' = Append(buf, p)
      /\ \/ piece < NL /\ piece' = piece + 1 /\ line' = line
         \/ piece = NL /\ piece' = 1 /\ line' = line + 1
  BY <1>1 DEF PutPiece
<1>3. buf' \in Seq(Piece) /\ Len(buf') = Len(buf) + 1 /\ Len(buf) \in Nat
  BY <1>1, <1>2, AppendProperties
<1>4. line' \in Nat /\ piece' \in 1..NL
  BY <1>1, <1>2, Lengths
<1>5. Put' = Put + 1 /\ Put + 1 = line * NL + piece
  <2>1. line * NL \in Nat /\ (line + 1) * NL = line * NL + NL
    BY <1>1, Lengths, Z3
  <2>2. Put = line * NL + piece - 1 /\ Put' = line' * NL + piece' - 1
    BY DEF Put, NL
  <2>3. CASE piece < NL
    BY <1>1, <1>2, <2>1, <2>2, <2>3, Lengths
  <2>4. CASE piece = NL
    <3>1. line' = line + 1 /\ piece' = 1
      BY <1>1, <1>2, <2>4, Lengths
    <3>2. QED
      BY <1>1, <2>1, <2>2, <2>4, <3>1, Lengths
  <2>5. QED
    BY <1>1, <2>3, <2>4
<1>6. Put \in Nat
  BY <1>1, PutType
<1>7. (Taken \o buf)' = Append(Taken \o buf, p)
  <2>1. buf' = buf \o <<p>> /\ <<p>> \in Seq(Piece)
    BY <1>1, <1>2, AppendIsConcat
  <2>2. Taken \in Seq(Piece) /\ Taken \o buf \in Seq(Piece)
    BY <1>1, Rejoin DEF Taken
  <2>3. Taken \o buf' = (Taken \o buf) \o <<p>>
    BY <1>1, <2>1, <2>2, Rejoin
  <2>4. QED
    BY <1>1, <1>2, <2>2, <2>3, AppendIsConcat DEF Taken
<1>8. PieceAt(Put + 1) = p
  BY <1>1, <1>5, PieceOfLine DEF p
<1>9. Append(Given(Put), PieceAt(Put + 1)) = Given(Put + 1)
  BY <1>6 DEF Given
<1>10. (Taken \o buf)' = Given(Put')
  BY <1>5, <1>7, <1>8, <1>9, BytesNow
<1>11. Len(buf') < piece' \/ (piece' = 1 /\ line' > 0 /\ Len(buf') <= NL)
  BY <1>1, <1>2, <1>3, Lengths
<1>12. QED
  BY <1>1, <1>2, <1>3, <1>4, <1>10, <1>11, BytesFrame

(* One write(2) moves the front of the buffer to the end of the pipe.      *)
LEMMA WriteSomeBytes == BytesInv /\ WriteSome => BytesInv' /\ Len(buf') < Len(buf) /\ Len(buf') \in Nat
<1> SUFFICES ASSUME BytesInv, WriteSome
             PROVE  BytesInv' /\ Len(buf') < Len(buf) /\ Len(buf') \in Nat
  OBVIOUS
<1>1. PICK n \in 1..Len(buf) :
        sink' = sink \o SubSeq(buf, 1, n) /\ buf' = SubSeq(buf, n + 1, Len(buf))
  BY DEF WriteSome
<1>2. /\ got' = got /\ line' = line /\ piece' = piece
      /\ got \in Seq(Piece) /\ sink \in Seq(Piece) /\ buf \in Seq(Piece)
      /\ line \in Nat /\ piece \in 1..NL
  BY DEF WriteSome, writerVars, BytesInv
<1>3. Len(buf) \in Nat /\ n \in 0..Len(buf)
  BY <1>2, LenProperties
<1>4. buf' \in Seq(Piece) /\ Len(buf') = Len(buf) - n
  BY <1>1, <1>2, <1>3, CutInTwo
<1>5. PICK front : front \in Seq(Piece) /\ sink' = sink \o front /\ front \o buf' = buf
  BY <1>1, <1>2, <1>3, CutInTwo
<1>6. sink' \in Seq(Piece) /\ Taken \in Seq(Piece)
  BY <1>2, <1>4, <1>5, Rejoin DEF Taken
<1>7. Taken' = Taken \o front
  <2>1. got \in Seq(Piece) /\ sink \in Seq(Piece) /\ front \in Seq(Piece)
    BY <1>2, <1>5
  <2>2. (got \o sink) \o front = got \o (sink \o front)
    BY <2>1, Rejoin
  <2>3. QED
    BY <1>2, <1>5, <2>2 DEF Taken
<1>8. (Taken \o buf)' = Taken \o buf
  <2>1. Taken \in Seq(Piece) /\ front \in Seq(Piece) /\ buf' \in Seq(Piece)
    BY <1>4, <1>5, <1>6
  <2>2. (Taken \o front) \o buf' = Taken \o (front \o buf')
    BY <2>1, Rejoin
  <2>3. QED
    BY <1>5, <1>7, <2>2
<1>9. (Taken \o buf)' = Given(Put')
  BY <1>2, <1>8, BytesNow DEF Put
<1>10. Len(buf') < Len(buf) /\ Len(buf') \in Nat
  BY <1>3, <1>4
<1>11. Len(buf') < piece' \/ (piece' = 1 /\ line' > 0 /\ Len(buf') <= NL)
  BY <1>2, <1>3, <1>10, Lengths DEF BytesInv
<1>12. QED
  BY <1>2, <1>4, <1>6, <1>9, <1>10, <1>11, BytesFrame

(* The reader moves the front of the pipe to what it has.                  *)
LEMMA ReadBytes == BytesInv /\ Read => BytesInv' /\ UNCHANGED Taken
<1> SUFFICES ASSUME BytesInv, Read PROVE BytesInv' /\ UNCHANGED Taken
  OBVIOUS
<1>1. PICK n \in 1..Len(sink) :
        got' = got \o SubSeq(sink, 1, n) /\ sink' = SubSeq(sink, n + 1, Len(sink))
  BY DEF Read
<1>2. /\ buf' = buf /\ line' = line /\ piece' = piece
      /\ got \in Seq(Piece) /\ sink \in Seq(Piece) /\ buf \in Seq(Piece)
      /\ line \in Nat /\ piece \in 1..NL
  BY DEF Read, writerVars, BytesInv
<1>3. Len(sink) \in Nat /\ n \in 0..Len(sink)
  BY <1>2, LenProperties
<1>4. sink' \in Seq(Piece)
  BY <1>1, <1>2, <1>3, CutInTwo
<1>5. PICK front : front \in Seq(Piece) /\ got' = got \o front /\ front \o sink' = sink
  BY <1>1, <1>2, <1>3, CutInTwo
<1>6. got' \in Seq(Piece) /\ Taken' = Taken
  <2>1. got \in Seq(Piece) /\ front \in Seq(Piece) /\ sink' \in Seq(Piece)
    BY <1>2, <1>4, <1>5
  <2>2. got \o front \in Seq(Piece) /\ (got \o front) \o sink' = got \o (front \o sink')
    BY <2>1, Rejoin
  <2>3. QED
    BY <1>5, <2>2 DEF Taken
<1>7. (Taken \o buf)' = Given(Put')
  BY <1>2, <1>6, BytesNow DEF Put
<1>8. Len(buf') < piece' \/ (piece' = 1 /\ line' > 0 /\ Len(buf') <= NL)
  BY <1>2 DEF BytesInv
<1>9. QED
  BY <1>2, <1>4, <1>6, <1>7, <1>8, BytesFrame

LEMMA SameBytes == BytesInv /\ UNCHANGED <<line, piece, got, sink, buf>> => BytesInv' /\ UNCHANGED Taken
<1> SUFFICES ASSUME BytesInv, UNCHANGED <<line, piece, got, sink, buf>>
             PROVE  BytesInv' /\ UNCHANGED Taken
  OBVIOUS
<1>1. Taken' = Taken /\ (Taken \o buf)' = Given(Put')
  BY BytesNow DEF Taken, Put
<1>2. QED
  BY <1>1, BytesFrame DEF BytesInv

(* Nothing is given yet.                                                   *)
LEMMA InitBytes ==
  pc = "decode" /\ line = 0 /\ piece = 1 /\ buf = <<>> /\ sink = <<>> /\ got = <<>>
    => BytesInv /\ CallInv
<1> SUFFICES ASSUME pc = "decode", line = 0, piece = 1, buf = <<>>, sink = <<>>, got = <<>>
             PROVE  BytesInv /\ CallInv
  OBVIOUS
<1>1. Taken \o buf = <<>>
  BY EmptySeq DEF Taken
<1>2. Put = 0
  BY Lengths, Z3 DEF Put
<1>3. BytesInv
  BY <1>1, <1>2, EmptySeq, Lengths DEF BytesInv
<1>4. QED
  BY <1>3 DEF CallInv

(* No step of the stream, taken for itself, disturbs its bytes or leaves a *)
(* call where it cannot stand.                                             *)
LEMMA StreamKept ==
  BytesInv /\ CallInv /\ (Write \/ WriteError \/ Read \/ StopReading \/ Kill) => BytesInv' /\ CallInv'
<1> SUFFICES ASSUME BytesInv, CallInv, Write \/ WriteError \/ Read \/ StopReading \/ Kill
             PROVE  BytesInv' /\ CallInv'
  OBVIOUS
<1>1. /\ line \in Nat /\ piece \in 1..NL /\ NL \in Nat /\ NL >= 2 /\ buf \in Seq(Piece)
      /\ Len(buf) \in Nat /\ (buf = <<>> => Len(buf) = 0) /\ BufCap \in Nat \ {0}
  BY Lengths, EmptySeq, LenProperties, StreamAssumption DEF BytesInv
<1>2. CASE BeginLine \/ AllWritten \/ BufferFull \/ Flushed \/ BrokenPipe \/ WriteError \/ Kill
  <2>1. UNCHANGED <<line, piece, got, sink, buf>>
    BY <1>2 DEF BeginLine, AllWritten, BufferFull, Flushed, BrokenPipe, WriteError, OnWriteError, Kill
  <2>2. CallInv'
    BY <1>1, <1>2, <2>1
       DEF CallInv, BeginLine, AllWritten, BufferFull, Flushed, AfterFlush, Writing, BrokenPipe,
           WriteError, OnWriteError, Kill
  <2>3. QED
    BY <2>1, <2>2, SameBytes
<1>3. CASE PutPiece
  <2>1. Len(buf) < piece
    BY <1>3 DEF PutPiece, CallInv
  <2>2. LineText(line)[piece] = <<line, piece>> /\ Len(LineText(line)) = NL /\ <<line, piece>> \in Piece
    BY <1>1 DEF LineText, Piece
  <2>3. /\ buf' = Append(buf, <<line, piece>>)
        /\ \/ piece' = piece + 1 /\ line' = line /\ pc' = "put"
           \/ piece' = 1 /\ line' = line + 1 /\ pc' = "flush"
    BY <1>3, <2>2 DEF PutPiece, AfterLine
  <2>4. Len(buf') = Len(buf) + 1
    BY <1>1, <2>2, <2>3, AppendProperties
  <2>5. CallInv'
    BY <1>1, <2>1, <2>3, <2>4 DEF CallInv
  <2>6. QED
    BY <1>3, <2>1, <2>5, PutPieceBytes
<1>4. CASE WriteSome
  <2>1. BytesInv' /\ Len(buf') < Len(buf) /\ Len(buf') \in Nat
    BY <1>4, WriteSomeBytes
  <2>2. UNCHANGED <<pc, line, piece>> /\ pc # "decode"
    BY <1>4 DEF WriteSome, writerVars, Writing
  <2>3. QED
    BY <1>1, <2>1, <2>2 DEF CallInv
<1>5. CASE Read \/ StopReading
  <2>1. UNCHANGED <<pc, line, piece, buf>>
    BY <1>5 DEF Read, StopReading, writerVars
  <2>2. BytesInv'
    BY <1>5, ReadBytes, SameBytes DEF StopReading, writerVars
  <2>3. QED
    BY <2>1, <2>2 DEF CallInv
<1>6. QED
  BY <1>2, <1>3, <1>4, <1>5 DEF Write

------------------------------------------------------------------------------
(* The inductive invariant.                                                *)

LinePiece == (0..MaxJobs) \X (1..NL)

(* TypeOK with the types of the small variables and of the contents apart. *)
LEMMA TypeParts ==
  TypeOK => /\ line \in 0..(MaxJobs + 1) /\ piece \in 1..NL /\ result \in {"ok", "err"}
            /\ pc \in Writing \cup {"decode", "exited", "killed"}
            /\ buf \in Seq(LinePiece) /\ Len(buf) <= BufCap
            /\ sink \in Seq(LinePiece) /\ Len(sink) <= SinkCap
            /\ got \in Seq(LinePiece)
BY DEF TypeOK, LinePiece

LEMMA TypeFrame ==
  ASSUME TypeOK, UNCHANGED <<jobs, jsonl>>, open' \in BOOLEAN,
         line' \in 0..(MaxJobs + 1), piece' \in 1..NL, result' \in {"ok", "err"},
         pc' \in Writing \cup {"decode", "exited", "killed"},
         buf' \in Seq(LinePiece), Len(buf') <= BufCap,
         sink' \in Seq(LinePiece), Len(sink') <= SinkCap, got' \in Seq(LinePiece)
  PROVE  TypeOK'
BY DEF TypeOK, LinePiece, Writing, NL

LEMMA JobsFacts == TypeOK => LastLine \in 0..MaxJobs /\ MaxJobs \in Nat
BY StreamAssumption DEF TypeOK, LastLine

LEMMA InitInv == Init => IInv
<1> SUFFICES ASSUME Init PROVE IInv
  OBVIOUS
<1> USE DEF Init
<1>1. LastLine \in 0..MaxJobs
  BY StreamAssumption DEF LastLine
<1>2. TypeOK
  BY StreamAssumption, Lengths, EmptySeq DEF TypeOK
<1>3. BytesInv /\ CallInv
  BY InitBytes
<1>4. JobsInv
  BY <1>1 DEF JobsInv
<1>5. QED
  BY <1>2, <1>3, <1>4 DEF IInv

(* What moves from one place to the next keeps its type.                   *)
LEMMA MovedType ==
  ASSUME NEW T, NEW r \in Seq(T), NEW s \in Seq(T), NEW n \in 1..Len(s)
  PROVE  /\ r \o SubSeq(s, 1, n) \in Seq(T) /\ Len(r \o SubSeq(s, 1, n)) = Len(r) + n
         /\ SubSeq(s, n + 1, Len(s)) \in Seq(T) /\ Len(SubSeq(s, n + 1, Len(s))) <= Len(s)
<1>1. Len(s) \in Nat /\ Len(r) \in Nat /\ n \in 0..Len(s)
  BY LenProperties
<1>2. SubSeq(s, 1, n) \in Seq(T) /\ Len(SubSeq(s, 1, n)) = n
  BY <1>1, CutInTwo
<1>3. r \o SubSeq(s, 1, n) \in Seq(T) /\ Len(r \o SubSeq(s, 1, n)) = Len(r) + n
  BY <1>2, ConcatProperties
<1>4. SubSeq(s, n + 1, Len(s)) \in Seq(T) /\ Len(SubSeq(s, n + 1, Len(s))) = Len(s) - n
  BY <1>1, CutInTwo
<1>5. QED
  BY <1>1, <1>3, <1>4

(* The writer's steps that move no byte.                                   *)
LEMMA ControlStep ==
  IInv /\ (BeginLine \/ AllWritten \/ BufferFull \/ Flushed \/ BrokenPipe \/ WriteError) => IInv'
<1> SUFFICES ASSUME IInv, BeginLine \/ AllWritten \/ BufferFull \/ Flushed \/ BrokenPipe \/ WriteError
             PROVE  IInv'
  OBVIOUS
<1>1. UNCHANGED <<jobs, jsonl, line, piece, got, sink, buf, open>>
  BY DEF BeginLine, AllWritten, BufferFull, Flushed, BrokenPipe, WriteError, OnWriteError, modeVars
<1>2. BytesInv' /\ LastLine' = LastLine
  BY <1>1, SameBytes DEF IInv, LastLine
<1>3. TypeOK /\ BytesInv /\ CallInv /\ JobsInv /\ LastLine \in 0..MaxJobs /\ NL \in Nat /\ NL >= 2
  BY JobsFacts, Lengths DEF IInv
<1>4. line \in Nat /\ piece \in 1..NL /\ (buf = <<>> => Len(buf) = 0) /\ Len(buf) \in Nat
  BY <1>3, EmptySeq, LenProperties DEF BytesInv
<1>5. pc' \in Writing \cup {"decode", "exited", "killed"} /\ result' \in {"ok", "err"}
  BY <1>3 DEF TypeOK, Writing, BeginLine, AllWritten, BufferFull, Flushed, AfterFlush, BrokenPipe,
              WriteError, OnWriteError
<1>6. TypeOK'
  BY <1>1, <1>3, <1>5 DEF TypeOK, Writing, NL
<1>7. CallInv' /\ JobsInv'
  <2> USE <1>1, <1>2, <1>3, <1>4 DEF CallInv, JobsInv
  <2>1. CASE BeginLine
    BY <2>1 DEF BeginLine
  <2>2. CASE AllWritten
    BY <2>2 DEF AllWritten
  <2>3. CASE BufferFull
    BY <2>3, StreamAssumption DEF BufferFull
  <2>4. CASE Flushed
    BY <2>4 DEF Flushed, AfterFlush, Writing
  <2>5. CASE BrokenPipe \/ WriteError
    BY <2>5 DEF BrokenPipe, WriteError, OnWriteError, Writing
  <2>6. QED
    BY <2>1, <2>2, <2>3, <2>4, <2>5
<1>8. QED
  BY <1>2, <1>6, <1>7 DEF IInv

LEMMA PutPieceStep == IInv /\ PutPiece => IInv'
<1> SUFFICES ASSUME IInv, PutPiece PROVE IInv'
  OBVIOUS
<1>1. TypeOK /\ BytesInv /\ CallInv /\ JobsInv /\ LastLine \in 0..MaxJobs /\ NL \in Nat /\ NL >= 2
  BY JobsFacts, Lengths DEF IInv
<1>2. /\ pc = "put" /\ Len(buf) < BufCap /\ Len(buf) < piece /\ line <= LastLine /\ result = "ok"
      /\ line \in 0..MaxJobs /\ piece \in 1..NL
  BY <1>1, TypeParts, StreamAssumption DEF PutPiece, CallInv, JobsInv
<1>3. LineText(line)[piece] = <<line, piece>> /\ Len(LineText(line)) = NL
  BY <1>1, <1>2 DEF LineText
<1>4. /\ UNCHANGED <<jobs, jsonl, result, sink, got, open>>
      /\ buf' = Append(buf, <<line, piece>>)
      /\ \/ piece < NL /\ piece' = piece + 1 /\ line' = line /\ pc' = "put"
         \/ piece = NL /\ piece' = 1 /\ line' = line + 1 /\ pc' = "flush"
  BY <1>2, <1>3 DEF PutPiece, modeVars, AfterLine
<1>5. BytesInv' /\ LastLine' = LastLine
  BY <1>1, <1>2, <1>4, PutPieceBytes DEF LastLine
<1>6. buf' \in Seq(LinePiece) /\ Len(buf') = Len(buf) + 1 /\ Len(buf) \in Nat
  <2>1. buf \in Seq(LinePiece) /\ <<line, piece>> \in LinePiece
    BY <1>1, <1>2, TypeParts DEF LinePiece
  <2>2. QED
    BY <1>4, <2>1, AppendProperties
<1>7. TypeOK'
  <2>1. line' \in 0..(MaxJobs + 1) /\ piece' \in 1..NL /\ Len(buf') <= BufCap
    BY <1>1, <1>2, <1>4, <1>6, StreamAssumption
  <2>2. pc' \in Writing \cup {"decode", "exited", "killed"} /\ open' \in BOOLEAN
    BY <1>1, <1>4 DEF Writing, TypeOK
  <2>3. QED
    BY <1>1, <1>4, <1>6, <2>1, <2>2, TypeParts, TypeFrame
<1>8. CallInv' /\ JobsInv'
  BY <1>1, <1>2, <1>4, <1>5, <1>6 DEF CallInv, JobsInv
<1>9. QED
  BY <1>5, <1>7, <1>8 DEF IInv

LEMMA WriteSomeStep == IInv /\ WriteSome => IInv'
<1> SUFFICES ASSUME IInv, WriteSome PROVE IInv'
  OBVIOUS
<1>1. TypeOK /\ BytesInv /\ CallInv /\ JobsInv
  BY DEF IInv
<1>2. UNCHANGED <<jobs, jsonl, pc, line, piece, result, got, open>>
  BY DEF WriteSome, modeVars, writerVars
<1>3. BytesInv' /\ LastLine' = LastLine /\ Len(buf') < Len(buf) /\ Len(buf') \in Nat
  BY <1>1, <1>2, WriteSomeBytes DEF LastLine
<1>4. buf # <<>> /\ Len(buf) \in Nat
  BY <1>1, <1>3, EmptySeq, LenProperties DEF BytesInv
<1>5. PICK n \in 1..Len(buf) : /\ Len(sink) + n <= SinkCap /\ sink' = sink \o SubSeq(buf, 1, n)
                               /\ buf' = SubSeq(buf, n + 1, Len(buf))
  BY DEF WriteSome
<1>6. /\ buf' \in Seq(LinePiece) /\ sink' \in Seq(LinePiece)
      /\ Len(sink') = Len(sink) + n /\ Len(buf') <= Len(buf)
  <2>1. buf \in Seq(LinePiece) /\ sink \in Seq(LinePiece)
    BY <1>1, TypeParts
  <2>2. QED
    BY <1>5, <2>1, MovedType
<1>7. TypeOK'
  <2>1. Len(buf') <= BufCap /\ Len(sink') <= SinkCap
    BY <1>1, <1>3, <1>4, <1>5, <1>6, TypeParts, StreamAssumption
  <2>2. open' \in BOOLEAN
    BY <1>1, <1>2 DEF TypeOK
  <2>3. QED
    BY <1>1, <1>2, <1>6, <2>1, <2>2, TypeParts, TypeFrame
<1>8. CallInv' /\ JobsInv'
  BY <1>1, <1>2, <1>3, <1>4, StreamAssumption DEF CallInv, JobsInv, BytesInv
<1>9. QED
  BY <1>3, <1>7, <1>8 DEF IInv

LEMMA ReaderStep == IInv /\ (Read \/ StopReading) => IInv'
<1> SUFFICES ASSUME IInv, Read \/ StopReading PROVE IInv'
  OBVIOUS
<1>1. TypeOK /\ BytesInv /\ CallInv /\ JobsInv
  BY DEF IInv
<1>2. UNCHANGED <<jobs, jsonl, pc, line, piece, result, buf>>
  BY DEF Read, StopReading, modeVars, writerVars
<1>3. CallInv' /\ JobsInv'
  BY <1>1, <1>2 DEF CallInv, JobsInv, LastLine
<1>4. BytesInv'
  BY <1>1, <1>2, ReadBytes, SameBytes DEF StopReading
<1>5. CASE Read
  <2>1. PICK n \in 1..Len(sink) : /\ got' = got \o SubSeq(sink, 1, n)
                                  /\ sink' = SubSeq(sink, n + 1, Len(sink))
    BY <1>5 DEF Read
  <2>2. got \in Seq(LinePiece) /\ sink \in Seq(LinePiece) /\ Len(sink) <= SinkCap
    BY <1>1, TypeParts
  <2>3. /\ got' \in Seq(LinePiece) /\ sink' \in Seq(LinePiece)
        /\ Len(sink') <= Len(sink) /\ Len(sink) \in Nat /\ Len(sink') \in Nat
    BY <2>1, <2>2, MovedType, LenProperties
  <2>4. TypeOK'
    <3>1. Len(sink') <= SinkCap /\ open' \in BOOLEAN
      BY <1>1, <1>5, <2>2, <2>3, StreamAssumption DEF Read, TypeOK
    <3>2. QED
      BY <1>1, <1>2, <2>3, <3>1, TypeParts, TypeFrame
  <2>5. QED
    BY <1>3, <1>4, <2>4 DEF IInv
<1>6. CASE StopReading
  <2>1. TypeOK'
    BY <1>1, <1>2, <1>6 DEF StopReading, TypeOK, Writing, NL
  <2>2. QED
    BY <1>3, <1>4, <2>1 DEF IInv
<1>7. QED
  BY <1>5, <1>6

LEMMA KillStep == IInv /\ Kill => IInv'
<1> SUFFICES ASSUME IInv, Kill PROVE IInv'
  OBVIOUS
<1>1. UNCHANGED <<jobs, jsonl, line, piece, result, buf, sink, got, open>> /\ pc' = "killed"
  BY DEF Kill, modeVars
<1>2. BytesInv'
  BY <1>1, SameBytes DEF IInv
<1>3. TypeOK' /\ CallInv' /\ JobsInv'
  BY <1>1 DEF IInv, TypeOK, CallInv, JobsInv, LastLine, Writing, NL
<1>4. QED
  BY <1>2, <1>3 DEF IInv

(* The invariant holds initially and every step keeps it.                  *)
THEOREM Inductive == Spec => []IInv
<1>1. IInv /\ UNCHANGED vars => IInv'
  BY SameBytes DEF IInv, TypeOK, CallInv, JobsInv, LastLine, NL, Writing, vars, modeVars, writerVars
<1>2. IInv /\ [Next]_vars => IInv'
  BY <1>1, ControlStep, PutPieceStep, WriteSomeStep, ReaderStep, KillStep DEF Next, Write, Terminated
<1>3. QED
  BY InitInv, <1>2, PTL DEF Spec

------------------------------------------------------------------------------
(* What the invariant says of the stream.                                  *)

LEMMA GivenLength ==
  ASSUME NEW n \in Nat
  PROVE  Given(n) \in Seq(Piece) /\ Len(Given(n)) = n /\ \A i \in 1..n : Given(n)[i] = PieceAt(i)
<1>1. \A i \in 1..n : PieceAt(i) \in Piece
  <2> SUFFICES ASSUME NEW i \in 1..n PROVE PieceAt(i) \in Piece
    OBVIOUS
  <2>1. (i - 1) \div NL \in Nat /\ (i - 1) % NL \in 0..(NL - 1)
    BY Lengths, Z3
  <2>2. QED
    BY <2>1, Lengths DEF PieceAt, Piece
<1>2. QED
  BY <1>1 DEF Given

LEMMA WholeIsGiven == Whole = Given((LastLine + 1) * NL)
BY DEF Whole, Given, PieceAt

(* How much was given, of how much there is to give.                       *)
LEMMA HowMuch ==
  ASSUME IInv
  PROVE  /\ Put \in Nat /\ (LastLine + 1) * NL \in Nat
         /\ Put <= (LastLine + 1) * NL
         /\ line = LastLine + 1 => Put = (LastLine + 1) * NL
<1>1. LastLine \in Nat /\ line \in Nat /\ piece \in 1..NL /\ line <= LastLine + 1
      /\ (line = LastLine + 1 => piece = 1)
  BY JobsFacts, StreamAssumption DEF IInv, BytesInv, JobsInv
<1>2. (LastLine + 1) * NL \in Nat /\ line * NL \in Nat
  BY <1>1, Lengths, Z3
<1>3. CASE line = LastLine + 1
  BY <1>1, <1>2, <1>3 DEF Put
<1>4. CASE line < LastLine + 1
  <2>1. line * NL + NL <= (LastLine + 1) * NL
    BY <1>1, <1>4, LinesFit
  <2>2. QED
    BY <1>1, <1>2, <1>4, <2>1, Lengths DEF Put
<1>5. QED
  BY <1>1, <1>3, <1>4

(* Nothing is lost, doubled or out of order.                               *)
LEMMA IntactNow == IInv => StreamIntact
<1> SUFFICES ASSUME IInv PROVE StreamIntact
  OBVIOUS
<1> DEFINE M == (LastLine + 1) * NL
<1>1. Put \in Nat /\ M \in Nat /\ Put <= M
  BY HowMuch
<1>2. Taken \o buf = Given(Put) /\ Whole = Given(M)
  BY BytesNow, WholeIsGiven DEF IInv
<1> HIDE DEF M
<1>3. Len(Given(Put)) = Put /\ Len(Given(M)) = M
  BY <1>1, GivenLength
<1>4. SubSeq(Given(Put), 1, Put) = SubSeq(Given(M), 1, Put)
  BY <1>1 DEF Given
<1>5. QED
  BY <1>1, <1>2, <1>3, <1>4 DEF StreamIntact, Seqs!IsPrefix

LEMMA TakenNow ==
  ASSUME BytesInv
  PROVE  /\ Len(Taken) \in Nat /\ Len(buf) \in Nat /\ Len(Taken) + Len(buf) = Put /\ Put \in Nat
         /\ Taken = Given(Len(Taken))
<1>1. Taken \in Seq(Piece) /\ buf \in Seq(Piece) /\ Taken \o buf = Given(Put)
  BY BytesNow DEF BytesInv
<1>2. Put \in Nat
  BY PutType DEF BytesInv
<1>3. Len(Taken) \in Nat /\ Len(buf) \in Nat
  BY <1>1, LenProperties
<1>4. /\ Len(Taken \o buf) = Len(Taken) + Len(buf)
      /\ \A i \in 1..Len(Taken) : (Taken \o buf)[i] = Taken[i]
  BY <1>1, <1>3, ConcatProperties
<1>5. Len(Taken) + Len(buf) = Put
  BY <1>1, <1>2, <1>4, GivenLength
<1>6. ASSUME NEW i \in 1..Len(Taken) PROVE Taken[i] = Given(Len(Taken))[i]
  <2>1. i \in 1..Put
    BY <1>2, <1>3, <1>5
  <2>2. Given(Put)[i] = PieceAt(i) /\ Given(Len(Taken))[i] = PieceAt(i)
    BY <1>2, <1>3, <2>1, GivenLength
  <2>3. QED
    BY <1>1, <1>4, <2>2
<1>7. QED
  BY <1>1, <1>2, <1>3, <1>5, <1>6, GivenLength, SeqEqual

LEMMA OutNow == IInv => LinesOutBeforeDecode
<1> SUFFICES ASSUME IInv, pc = "decode" PROVE buf = <<>> /\ Len(Taken) = line * NL
  BY DEF LinesOutBeforeDecode
<1>1. buf = <<>> /\ piece = 1 /\ line \in Nat
  BY DEF IInv, CallInv, BytesInv
<1>2. Len(Taken) + Len(buf) = Put /\ Len(buf) = 0 /\ Len(Taken) \in Nat
  BY <1>1, TakenNow, EmptySeq DEF IInv
<1>3. line * NL \in Nat
  BY <1>1, Lengths, Z3
<1>4. QED
  BY <1>1, <1>2, <1>3 DEF Put

LEMMA CompleteNow == IInv => SuccessIsComplete
<1> SUFFICES ASSUME IInv, pc = "exited", result = "ok" PROVE Taken = Whole
  BY DEF SuccessIsComplete
<1>1. line = LastLine + 1 /\ buf = <<>>
  BY DEF IInv, JobsInv
<1>2. Put = (LastLine + 1) * NL
  BY <1>1, HowMuch
<1>3. Len(Taken) = Put /\ Taken = Given(Len(Taken))
  BY <1>1, TakenNow, EmptySeq DEF IInv
<1>4. QED
  BY <1>2, <1>3, WholeIsGiven

(* Every value of a variable has its type.                                 *)
THEOREM TypeCorrect == Spec => []TypeOK
<1>1. IInv => TypeOK
  BY DEF IInv
<1>2. QED
  BY <1>1, Inductive, PTL

(* However the bytes are cut into write(2) calls and whatever fails, what  *)
(* has left the process and what it still holds is the front of the        *)
(* output: no piece is lost, doubled or out of order.                      *)
THEOREM Intact == Spec => []StreamIntact
BY IntactNow, Inductive, PTL

(* No job is decoded while a line before it is still in the buffer.        *)
THEOREM OutBeforeDecode == Spec => []LinesOutBeforeDecode
BY OutNow, Inductive, PTL

(* Status 0 means that the descriptor has taken the header (or the blob)   *)
(* and every line.                                                         *)
THEOREM SuccessComplete == Spec => []SuccessIsComplete
BY CompleteNow, Inductive, PTL
=============================================================================
