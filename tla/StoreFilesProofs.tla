--------------------------- MODULE StoreFilesProofs ---------------------------
(***************************************************************************)
(* What is written is durable, and what is read is whole, for files and    *)
(* limits of any length, however the calls are cut short, and however      *)
(* often the file is changed while it is read.                             *)
(***************************************************************************)
EXTENDS StoreFiles, SequenceTheorems, TLAPS

(* Where the writer stands: the file is the beginning of its bytes, and    *)
(* only all of them make it immutable.                                     *)
WriterInv ==
    /\ pc \in {"create", "write", "sync"} =>
         bytes # Nil /\ changes = 0 /\ outcome = "none"
    /\ pc = "create" => kind = "absent"
    /\ pc = "sync" => taken = Len(bytes)
    /\ bytes # Nil =>
         /\ taken <= Len(bytes)
         /\ changes = 0 => file = SubSeq(bytes, 1, taken)
         /\ kind \in {"absent", "writable", "plain"}
         /\ kind = "plain" => taken = Len(bytes)
    /\ WrittenIsDurable

(* Where the reader stands: it has the beginning of a file that nobody     *)
(* changed, and all of it when it looks for more.                          *)
ReaderInv ==
    /\ outcome # "none" => pc = "done"
    /\ pc \notin {"read", "extra", "done"} => result = <<>>
    /\ pc \in {"read", "extra"} =>
         /\ kind = "plain"
         /\ changes = 0 => size = Len(file) /\ result = SubSeq(file, 1, offset)
    /\ pc = "extra" => offset = size
    /\ outcome = "returned" => kind = "plain" /\ (changes = 0 => result = file)
    /\ NoPrefix

FilesInv == TypeOK /\ WriterInv /\ ReaderInv

-----------------------------------------------------------------------------

LEMMA Lengths == MaxLength \in Nat /\ MaxPiece \in Nat
  BY BoundAssumption

LEMMA TextsAreSequences ==
  ASSUME NEW longest \in Nat, NEW text \in Texts(longest)
  PROVE  text \in Seq(Alphabet)
  BY SeqDef DEF Texts

LEMMA ContentsAreTexts == \A content \in Contents : content \in Seq(Alphabet)
  BY Lengths, TextsAreSequences DEF Contents

(* A piece of a text is a text of the length one expects.                  *)
LEMMA Piece ==
  ASSUME NEW text \in Seq(Alphabet), NEW m \in 1..Len(text) + 1, NEW n \in (m - 1)..Len(text)
  PROVE  SubSeq(text, m, n) \in Seq(Alphabet) /\ Len(SubSeq(text, m, n)) = n - m + 1
<1>1. Len(text) \in Nat /\ \A i \in m..n : text[i] \in Alphabet
  BY LenProperties, ElementOfSeq
<1> QED
  BY <1>1, SubSeqProperties

(* What one more call takes continues what the calls before it took.       *)
LEMMA Continued ==
  ASSUME NEW text \in Seq(Alphabet), NEW have \in 0..Len(text),
         NEW count \in 1..(Len(text) - have)
  PROVE  /\ SubSeq(text, have + 1, have + count) \in Seq(Alphabet)
         /\ Len(SubSeq(text, have + 1, have + count)) = count
         /\ SubSeq(text, 1, have) \o SubSeq(text, have + 1, have + count)
              = SubSeq(text, 1, have + count)
<1>1. Len(text) \in Nat
  BY LenProperties
<1>2. /\ have + 1 \in 1..Len(text) + 1
      /\ have + count \in have..Len(text)
      /\ 1 \in 1..Len(text) + 1 /\ have \in 0..Len(text)
  BY <1>1
<1>3. SubSeq(text, 1, have) \o SubSeq(text, have + 1, have + count)
        = SubSeq(text, 1, have + count)
  BY <1>1, <1>2, ConcatAdjacentSubSeq
<1>4. have + count \in ((have + 1) - 1)..Len(text)
  BY <1>1
<1> QED
  BY <1>1, <1>2, <1>3, <1>4, Piece

LEMMA InitFiles == Init => FilesInv
<1> SUFFICES ASSUME Init PROVE FilesInv
  OBVIOUS
<1>1. file \in Seq(Alphabet) /\ bytes \in Seq(Alphabet) \cup {Nil}
      /\ (bytes # Nil => bytes \in Seq(Alphabet))
  BY ContentsAreTexts, EmptySeq DEF Init
<1>2. Len(<<>>) = 0 /\ <<>> \in Seq(Alphabet)
  BY EmptySeq
<1>3. SubSeq(bytes, 1, 0) = <<>>
  BY SubSeqEmpty
<1>4. TypeOK
  BY <1>1, <1>2, BoundAssumption DEF Init, TypeOK, offset, Kinds
<1>5. bytes # Nil => pc = "create" /\ kind = "absent" /\ file = <<>> /\ Len(bytes) \in Nat
  BY <1>1, LenProperties, ContentsAreTexts, NilAssumption DEF Init
<1>6. bytes = Nil => pc = "open"
  BY ContentsAreTexts, NilAssumption DEF Init
<1>7. WriterInv
  <2>1. taken = 0 /\ changes = 0 /\ outcome = "none" /\ written = "none"
    BY DEF Init
  <2>2. bytes # Nil => taken <= Len(bytes) /\ file = SubSeq(bytes, 1, taken)
    BY <2>1, <1>3, <1>5
  <2>3. pc \in {"create", "open"} /\ (pc = "create" => bytes # Nil /\ kind = "absent")
    BY <1>5, <1>6, ContentsAreTexts, NilAssumption DEF Init
  <2> QED
    BY <2>1, <2>2, <2>3, <1>5, <1>6 DEF WriterInv, WrittenIsDurable
<1>8. ReaderInv
  BY DEF Init, ReaderInv, NoPrefix
<1> QED
  BY <1>4, <1>7, <1>8 DEF FilesInv

-----------------------------------------------------------------------------
(* The writer.                                                             *)

LEMMA CreateKeeps == FilesInv /\ Create => FilesInv'
  BY DEF FilesInv, TypeOK, WriterInv, ReaderInv, WrittenIsDurable, NoPrefix, Create,
         WriterEnds, reader, offset, Kinds

LEMMA WriteSomeKeeps == FilesInv /\ WriteSome => FilesInv'
<1> SUFFICES ASSUME FilesInv, WriteSome PROVE FilesInv'
  OBVIOUS
<1>0. /\ bytes \in Seq(Alphabet) /\ Len(bytes) \in Nat /\ taken \in 0..Len(bytes)
      /\ file = SubSeq(bytes, 1, taken) /\ file \in Seq(Alphabet)
      /\ pc = "write" /\ bytes # Nil
  BY LenProperties DEF FilesInv, TypeOK, WriterInv, WriteSome
<1> PICK count \in 1..(Len(bytes) - taken) :
           /\ file' = file \o SubSeq(bytes, taken + 1, taken + count)
           /\ taken' = taken + count
  BY DEF WriteSome
<1>1. file' = SubSeq(bytes, 1, taken') /\ file' \in Seq(Alphabet)
      /\ taken' \in Nat /\ taken' <= Len(bytes)
  BY <1>0, Continued, ConcatProperties
<1>2. kind # "plain"
  BY <1>0 DEF FilesInv, WriterInv, WriteSome
<1>3. TypeOK'
  BY <1>0, <1>1 DEF FilesInv, TypeOK, WriteSome, reader, offset
<1>4. WriterInv'
  BY <1>0, <1>1, <1>2 DEF FilesInv, WriterInv, WrittenIsDurable, WriteSome, reader
<1>5. ReaderInv'
  BY <1>0, <1>1, <1>2 DEF FilesInv, WriterInv, ReaderInv, NoPrefix, WriteSome, reader, offset
<1> QED
  BY <1>3, <1>4, <1>5 DEF FilesInv

LEMMA SealFileKeeps == FilesInv /\ SealFile => FilesInv'
  BY DEF FilesInv, TypeOK, WriterInv, ReaderInv, WrittenIsDurable, NoPrefix, SealFile,
         writer, reader, offset, Kinds

(* All of the bytes were written, and all that was written is flushed.     *)
LEMMA SyncFileKeeps == FilesInv /\ SyncFile => FilesInv'
<1> SUFFICES ASSUME FilesInv, SyncFile PROVE FilesInv'
  OBVIOUS
<1>1. bytes \in Seq(Alphabet) /\ file = SubSeq(bytes, 1, Len(bytes))
  BY DEF FilesInv, TypeOK, WriterInv, SyncFile
<1>2. file = bytes
  BY <1>1, SubSeqFull
<1> QED
  BY <1>2 DEF FilesInv, TypeOK, WriterInv, ReaderInv, WrittenIsDurable, NoPrefix, SyncFile,
         WriterEnds, reader, offset, Kinds

LEMMA EndKeeps == FilesInv /\ (FailFile \/ Kill) => FilesInv'
  BY DEF FilesInv, TypeOK, WriterInv, ReaderInv, WrittenIsDurable, NoPrefix, FailFile, Kill,
         WriterEnds, reader, offset, Kinds

-----------------------------------------------------------------------------
(* The reader.                                                             *)

LEMMA OpenKeeps == FilesInv /\ Open => FilesInv'
  BY DEF FilesInv, TypeOK, WriterInv, ReaderInv, WrittenIsDurable, NoPrefix, Open,
         Return, writer, offset, Kinds

LEMMA StatusKeeps == FilesInv /\ Status => FilesInv'
<1> SUFFICES ASSUME FilesInv, Status PROVE FilesInv'
  OBVIOUS
<1>1. Len(file) \in Nat /\ SubSeq(file, 1, 0) = <<>> /\ Len(<<>>) = 0
  BY LenProperties, SubSeqEmpty DEF FilesInv, TypeOK
<1>2. result = <<>> /\ pc = "stat"
  BY DEF FilesInv, ReaderInv, Status, Examine
<1>3. file \in Seq(Alphabet) /\ <<file>> \in Seq(Seq(Alphabet))
  BY DEF FilesInv, TypeOK
<1>4. versions' \in Seq(Seq(Alphabet))
  BY <1>3 DEF FilesInv, TypeOK, Status, Examine
<1>5. /\ UNCHANGED <<writer, result, file, kind, changes, interrupts>>
      /\ \/ /\ pc' = "read" /\ size' = Len(file) /\ outcome' = outcome
            /\ kind = "plain" /\ size' \in 0..MaximumSize
         \/ pc' = "done" /\ outcome' = "refused" /\ size' = size
  BY <1>1, <1>2, BoundAssumption DEF Status, Examine, Return
<1>6. TypeOK'
  BY <1>1, <1>2, <1>4, <1>5 DEF FilesInv, TypeOK, writer, offset
<1>7. WriterInv'
  BY <1>2, <1>5 DEF FilesInv, WriterInv, WrittenIsDurable, writer
<1>8. ReaderInv'
  BY <1>1, <1>2, <1>5 DEF FilesInv, ReaderInv, NoPrefix, writer, offset
<1> QED
  BY <1>6, <1>7, <1>8 DEF FilesInv

LEMMA ReadSomeKeeps == FilesInv /\ ReadSome => FilesInv'
<1> SUFFICES ASSUME FilesInv, ReadSome PROVE FilesInv'
  OBVIOUS
<1>0. /\ file \in Seq(Alphabet) /\ Len(file) \in Nat /\ result \in Seq(Alphabet)
      /\ size \in Nat /\ Len(result) \in 0..Len(file)
  BY LenProperties, BoundAssumption DEF FilesInv, TypeOK, ReadSome, offset
<1> PICK count \in 1..(size - Len(result)) :
           /\ Len(result) + count <= Len(file)
           /\ result' = result \o SubSeq(file, Len(result) + 1, Len(result) + count)
  BY DEF ReadSome, offset
<1>1. /\ SubSeq(file, Len(result) + 1, Len(result) + count) \in Seq(Alphabet)
      /\ Len(SubSeq(file, Len(result) + 1, Len(result) + count)) = count
      /\ SubSeq(file, 1, Len(result))
           \o SubSeq(file, Len(result) + 1, Len(result) + count)
           = SubSeq(file, 1, Len(result) + count)
  <2>1. count \in 1..(Len(file) - Len(result))
    BY <1>0
  <2> QED
    BY <1>0, <2>1, Continued
<1>2. result' \in Seq(Alphabet) /\ Len(result') = Len(result) + count
  BY <1>0, <1>1, ConcatProperties
<1>3. result = SubSeq(file, 1, Len(result)) => result' = SubSeq(file, 1, Len(result'))
  BY <1>1, <1>2
<1>4. TypeOK'
  BY <1>0, <1>2 DEF FilesInv, TypeOK, ReadSome, writer, offset
<1>5. WriterInv'
  BY DEF FilesInv, WriterInv, WrittenIsDurable, ReadSome, writer
<1>6. ReaderInv'
  BY <1>3 DEF FilesInv, ReaderInv, NoPrefix, ReadSome, writer, offset
<1> QED
  BY <1>4, <1>5, <1>6 DEF FilesInv

LEMMA FinishLoopKeeps == FilesInv /\ FinishLoop => FilesInv'
<1> SUFFICES ASSUME FilesInv, FinishLoop PROVE FilesInv'
  OBVIOUS
<1>1. Len(result) \in Nat /\ size \in Nat
  BY LenProperties, BoundAssumption DEF FilesInv, TypeOK
<1> QED
  BY <1>1 DEF FilesInv, TypeOK, WriterInv, ReaderInv, WrittenIsDurable, NoPrefix,
     FinishLoop, writer, reader, offset

(* The read after the last one finds nothing: all of the file was read.    *)
LEMMA ReadExtraKeeps == FilesInv /\ ReadExtra => FilesInv'
<1> SUFFICES ASSUME FilesInv, ReadExtra PROVE FilesInv'
  OBVIOUS
<1>1. Len(result) \in Nat /\ Len(file) \in Nat /\ SubSeq(file, 1, Len(file)) = file
  BY LenProperties, SubSeqFull DEF FilesInv, TypeOK
<1>2. changes = 0 => result = file
  BY <1>1 DEF FilesInv, ReaderInv, ReadExtra, offset
<1>3. kind = "plain" /\ pc = "extra" /\ outcome = "none"
  BY DEF FilesInv, ReaderInv, ReadExtra
<1>4. outcome' = "returned" => Len(file) <= Len(result)
  BY <1>1 DEF ReadExtra, Return, offset
<1>5. UNCHANGED <<writer, size, result, versions, file, kind, changes, interrupts>>
      /\ pc' = "done" /\ outcome' \in {"refused", "returned"}
  BY DEF ReadExtra, Return
<1>6. TypeOK'
  BY <1>5 DEF FilesInv, TypeOK, writer, offset
<1>7. WriterInv'
  BY <1>5 DEF FilesInv, WriterInv, WrittenIsDurable, writer
<1>8. ReaderInv'
  BY <1>2, <1>3, <1>4, <1>5 DEF ReaderInv, NoPrefix
<1> QED
  BY <1>6, <1>7, <1>8 DEF FilesInv

LEMMA RefuseKeeps == FilesInv /\ (ReadNothing \/ FailRead) => FilesInv'
  BY DEF FilesInv, TypeOK, WriterInv, ReaderInv, WrittenIsDurable, NoPrefix, ReadNothing,
         FailRead, Return, writer, offset

LEMMA InterruptKeeps == FilesInv /\ Interrupt => FilesInv'
  BY DEF FilesInv, TypeOK, WriterInv, ReaderInv, WrittenIsDurable, NoPrefix, Interrupt,
         writer, reader, offset

LEMMA ChangedFile == FilesInv /\ Change => file' \in Seq(Alphabet)
<1> SUFFICES ASSUME FilesInv, Change PROVE file' \in Seq(Alphabet)
  OBVIOUS
<1>0. file \in Seq(Alphabet) /\ Len(file) \in Nat
  BY LenProperties DEF FilesInv, TypeOK
<1>1. ASSUME NEW n \in 0..Len(file) PROVE SubSeq(file, 1, n) \in Seq(Alphabet)
  BY <1>0, <1>1, Piece
<1>2. ASSUME NEW at \in 0..Len(file), NEW piece \in Texts(MaxPiece)
      PROVE  Overwritten(at, piece) \in Seq(Alphabet)
  <2>1. piece \in Seq(Alphabet) /\ Len(piece) \in Nat
    BY Lengths, TextsAreSequences, LenProperties
  <2>2. SubSeq(file, at + Len(piece) + 1, Len(file)) \in Seq(Alphabet)
    <3>1. CASE at + Len(piece) <= Len(file)
      BY <1>0, <2>1, <3>1, Piece
    <3>2. CASE at + Len(piece) > Len(file)
      <4>1. /\ at + Len(piece) + 1 \in Int /\ Len(file) \in Int
            /\ Len(file) < at + Len(piece) + 1
        BY <1>0, <2>1, <3>2
      <4>2. SubSeq(file, at + Len(piece) + 1, Len(file)) = <<>>
        BY <4>1, SubSeqEmpty
      <4> QED
        BY <4>2, EmptySeq
    <3> QED
      BY <1>0, <2>1, <3>1, <3>2
  <2> QED
    BY <1>1, <2>1, <2>2, ConcatProperties DEF Overwritten
<1> QED
  BY <1>1, <1>2 DEF Change

LEMMA ChangeKeeps == FilesInv /\ Change => FilesInv'
<1> SUFFICES ASSUME FilesInv, Change PROVE FilesInv'
  OBVIOUS
<1>0. file' \in Seq(Alphabet) /\ versions \in Seq(Seq(Alphabet))
  BY ChangedFile DEF FilesInv, TypeOK
<1>1. file' \in Seq(Alphabet) /\ versions' \in Seq(Seq(Alphabet))
  BY <1>0, AppendProperties DEF Change
<1>2. changes' # 0 /\ changes' \in Nat
  BY DEF FilesInv, TypeOK, Change
<1> QED
  BY <1>1, <1>2 DEF FilesInv, TypeOK, WriterInv, ReaderInv, WrittenIsDurable, NoPrefix,
     Change, writer, offset

-----------------------------------------------------------------------------

(* The writer and the reader stand where their place in the code says.     *)
THEOREM FilesInvariant == Spec => []FilesInv
<1>1. Init => FilesInv
  BY InitFiles
<1>2. FilesInv /\ [Next]_vars => FilesInv'
  <2> SUFFICES ASSUME FilesInv, [Next]_vars PROVE FilesInv'
    OBVIOUS
  <2>1. CASE Step
    BY <2>1, CreateKeeps, WriteSomeKeeps, SealFileKeeps, SyncFileKeeps, OpenKeeps, StatusKeeps,
       ReadSomeKeeps, FinishLoopKeeps, ReadExtraKeeps, RefuseKeeps DEF Step
  <2>2. CASE FailFile \/ Kill \/ FailRead \/ Interrupt \/ Change
    BY <2>2, EndKeeps, RefuseKeeps, InterruptKeeps, ChangeKeeps
  <2>3. CASE Done \/ UNCHANGED vars
    <3>1. UNCHANGED <<bytes, file, kind, flushed, written, pc, taken, size, result, outcome,
                      changes, interrupts, versions>>
      BY <2>3 DEF Done, vars, writer, reader
    <3>2. TypeOK'
      BY <3>1 DEF FilesInv, TypeOK, offset
    <3>3. WriterInv'
      BY <3>1 DEF FilesInv, WriterInv, WrittenIsDurable
    <3>4. ReaderInv'
      BY <3>1 DEF FilesInv, ReaderInv, NoPrefix, offset
    <3> QED
      BY <3>2, <3>3, <3>4 DEF FilesInv
  <2> QED
    BY <2>1, <2>2, <2>3 DEF Next
<1> QED
  BY <1>1, <1>2, PTL DEF Spec

(* Every variable keeps its type, and the buffer its limit.                *)
THEOREM FilesTypes == Spec => []TypeOK
<1>1. FilesInv => TypeOK
  BY DEF FilesInv
<1> QED
  BY <1>1, FilesInvariant, PTL

(* What is returned is never the beginning of a longer file, whatever      *)
(* happens to it meanwhile.                                                *)
THEOREM NothingMissing == Spec => []NoPrefix
<1>1. FilesInv => NoPrefix
  BY DEF FilesInv, ReaderInv
<1> QED
  BY <1>1, FilesInvariant, PTL

(* What a writer takes to its rename is on the disk to the last byte.      *)
THEOREM DurableWrites == Spec => []WrittenIsDurable
<1>1. FilesInv => WrittenIsDurable
  BY DEF FilesInv, WriterInv
<1> QED
  BY <1>1, FilesInvariant, PTL

(* Each step leaves less to do, and what others do to the file leaves as   *)
(* much: the reader goes by what fstat promised, and not by the file.      *)
LEMMA StepsDescend ==
  ASSUME FilesInv, FilesInv', [Next]_vars, vars' # vars
  PROVE  /\ StepsLeft' <= StepsLeft
         /\ UNCHANGED <<changes, interrupts>> => StepsLeft' < StepsLeft
<1> DEFINE Descends == StepsLeft' \in Int /\ StepsLeft' < StepsLeft
<1>0. /\ TypeOK /\ TypeOK' /\ MaximumSize \in Nat
      /\ Len(result) \in Nat /\ Len(result') \in Nat
      /\ offset <= size /\ size \in 0..MaximumSize
  BY LenProperties, BoundAssumption DEF FilesInv, TypeOK, offset
<1>1. pc \in {"create", "write"} => Len(bytes) \in Nat /\ taken \in 0..Len(bytes)
  BY <1>0, LenProperties DEF FilesInv, TypeOK, WriterInv
<1>2. /\ pc = "create" => StepsLeft = MaximumSize + Len(bytes) + 7
      /\ pc = "write" => StepsLeft = MaximumSize + (Len(bytes) - taken) + 6
      /\ pc = "sync" => StepsLeft = MaximumSize + 5
      /\ pc = "open" => StepsLeft = MaximumSize + 4
      /\ pc = "stat" => StepsLeft = MaximumSize + 3
      /\ pc = "read" => StepsLeft = (size - offset) + 2
      /\ pc = "extra" => StepsLeft = 1
      /\ pc = "done" => StepsLeft = 0
      /\ pc' = "create" => StepsLeft' = MaximumSize + Len(bytes') + 7
      /\ pc' = "write" => StepsLeft' = MaximumSize + (Len(bytes') - taken') + 6
      /\ pc' = "sync" => StepsLeft' = MaximumSize + 5
      /\ pc' = "open" => StepsLeft' = MaximumSize + 4
      /\ pc' = "stat" => StepsLeft' = MaximumSize + 3
      /\ pc' = "read" => StepsLeft' = (size' - offset') + 2
      /\ pc' = "extra" => StepsLeft' = 1
      /\ pc' = "done" => StepsLeft' = 0
  BY DEF StepsLeft
<1>3. ASSUME Create \/ WriteSome \/ SealFile \/ SyncFile \/ FailFile \/ Kill
      PROVE  Descends
  <2>1. CASE Create
    <3>1. /\ pc = "create" /\ bytes' = bytes /\ taken' = taken
          /\ pc' = "write" \/ pc' = "open"
      BY <2>1 DEF Create, WriterEnds
    <3>2. /\ StepsLeft = MaximumSize + Len(bytes) + 7
          /\ \/ StepsLeft' = MaximumSize + (Len(bytes) - taken) + 6
             \/ StepsLeft' = MaximumSize + 4
      BY <1>2, <3>1
    <3> QED
      BY <1>0, <1>1, <3>1, <3>2
  <2>2. CASE WriteSome
    <3>1. PICK count \in 1..(Len(bytes) - taken) : taken' = taken + count
      BY <2>2 DEF WriteSome
    <3>2. pc = "write" /\ pc' = "write" /\ bytes' = bytes
      BY <2>2 DEF WriteSome
    <3>3. /\ StepsLeft = MaximumSize + (Len(bytes) - taken) + 6
          /\ StepsLeft' = MaximumSize + (Len(bytes) - taken') + 6
      BY <1>2, <3>2
    <3>4. MaximumSize \in Nat /\ Len(bytes) \in Nat /\ taken \in 0..Len(bytes)
      BY <1>0, <1>1, <3>2
    <3> QED
      BY <3>1, <3>3, <3>4
  <2>3. CASE SealFile \/ SyncFile
    BY <1>0, <1>1, <1>2, <2>3 DEF SealFile, SyncFile, WriterEnds
  <2>4. CASE FailFile \/ Kill
    BY <1>0, <1>1, <1>2, <2>4 DEF FailFile, Kill, WriterEnds
  <2> QED
    BY <1>3, <2>1, <2>2, <2>3, <2>4
<1>4. ASSUME Open \/ Status \/ FinishLoop \/ ReadExtra \/ ReadNothing \/ FailRead
      PROVE  Descends
  <2>1. CASE Open \/ Status
    <3>1. \/ pc = "open" /\ pc' \in {"stat", "done"}
          \/ pc = "stat" /\ pc' = "done"
          \/ pc = "stat" /\ pc' = "read" /\ size' - offset' <= MaximumSize
      BY <1>0, <2>1 DEF Open, Status, Examine, Return, FilesInv, ReaderInv, offset, TypeOK
    <3>2. size' - offset' \in Int
      BY <1>0 DEF TypeOK, offset
    <3> QED
      BY <1>2, <3>1, <3>2, BoundAssumption
  <2>2. CASE FinishLoop \/ ReadExtra \/ ReadNothing \/ FailRead
    BY <1>0, <1>2, <2>2 DEF FinishLoop, ReadExtra, ReadNothing, FailRead, Return, offset
  <2> QED
    BY <1>4, <2>1, <2>2
<1>5. ASSUME ReadSome PROVE Descends
  <2>1. Len(result') > Len(result) /\ size' = size /\ pc = "read" /\ pc' = "read"
    <3>1. PICK count \in 1..(size - offset) :
             /\ offset + count <= Len(file)
             /\ result' = result \o SubSeq(file, offset + 1, offset + count)
      BY <1>5 DEF ReadSome
    <3>2. Len(SubSeq(file, offset + 1, offset + count)) = count
      <4>1. offset \in 0..Len(file) /\ count \in 1..(Len(file) - offset)
        BY <1>0, <3>1, LenProperties DEF TypeOK, offset
      <4> QED
        BY <1>0, <4>1, Continued DEF TypeOK
    <3>3. SubSeq(file, offset + 1, offset + count) \in Seq(Alphabet)
      <4>1. offset \in 0..Len(file) /\ count \in 1..(Len(file) - offset)
        BY <1>0, <3>1, LenProperties DEF TypeOK, offset
      <4> QED
        BY <1>0, <4>1, Continued DEF TypeOK
    <3>4. Len(result') = Len(result) + count
      <4>1. result \in Seq(Alphabet)
        BY <1>0 DEF TypeOK
      <4> QED
        BY <3>1, <3>2, <3>3, <4>1, ConcatProperties
    <3>5. size' = size /\ pc = "read" /\ pc' = "read"
      BY <1>5 DEF ReadSome
    <3> QED
      BY <1>0, <3>4, <3>5
  <2>2. size \in Int /\ Len(result) \in Int /\ Len(result') \in Int
    BY <1>0
  <2> QED
    BY <1>2, <2>1, <2>2 DEF offset
<1>6. ASSUME Interrupt \/ Change
      PROVE  /\ StepsLeft' <= StepsLeft
             /\ changes' # changes \/ interrupts' # interrupts
  <2>1. changes' # changes \/ interrupts' # interrupts
    BY <1>0, <1>6 DEF Interrupt, Change, TypeOK
  <2>2. StepsLeft \in Int
    BY <1>0, <1>1, <1>2, <1>6 DEF Interrupt, Change, offset
  <2>3. StepsLeft' = StepsLeft
    BY <1>2, <1>6 DEF Interrupt, Change, writer, reader, offset
  <2> QED
    BY <2>1, <2>2, <2>3
<1>7. ASSUME Descends PROVE StepsLeft' <= StepsLeft
  <2>1. StepsLeft \in Int
    <3>1. pc \in {"create", "write", "sync", "open", "stat", "read", "extra", "done"}
      BY <1>0 DEF TypeOK
    <3>2. size - offset \in Int
      BY <1>0 DEF offset
    <3>3. MaximumSize \in Int
      BY <1>0
    <3>4. CASE pc \in {"create", "write"}
      BY <1>1, <1>2, <3>3, <3>4
    <3>5. CASE pc \notin {"create", "write"}
      BY <1>2, <3>1, <3>2, <3>3, <3>5
    <3> QED
      BY <3>4, <3>5
  <2> QED
    BY <1>7, <2>1
<1> QED
  BY <1>3, <1>4, <1>5, <1>6, <1>7 DEF Next, Step, Done

(* Writer and reader take at most StepsLeft more steps of their own,       *)
(* whoever changes the file and however often: read_file_at and write_all  *)
(* never start over.                                                       *)
THEOREM LoopsGoForward == Spec => LoopsAdvance
<1>1. FilesInv /\ FilesInv' /\ [Next]_vars
        => [/\ StepsLeft' <= StepsLeft
            /\ UNCHANGED <<changes, interrupts>> => StepsLeft' < StepsLeft]_vars
  <2> SUFFICES ASSUME FilesInv, FilesInv', [Next]_vars, vars' # vars
               PROVE  /\ StepsLeft' <= StepsLeft
                      /\ UNCHANGED <<changes, interrupts>> => StepsLeft' < StepsLeft
    OBVIOUS
  <2> QED
    BY StepsDescend
<1> QED
  BY <1>1, FilesInvariant, PTL DEF Spec, LoopsAdvance

LEMMA WholeFiles == FilesInv => AcceptedIsWhole
<1> SUFFICES ASSUME FilesInv, outcome = "returned", bytes # Nil, changes = 0
             PROVE  result = bytes
  BY DEF AcceptedIsWhole
<1>1. bytes \in Seq(Alphabet) /\ result = file /\ file = SubSeq(bytes, 1, Len(bytes))
  BY DEF FilesInv, TypeOK, WriterInv, ReaderInv
<1> QED
  BY <1>1, SubSeqFull

(* A reader that accepts a file of the store has all that was written.     *)
THEOREM AcceptedFilesAreWhole == Spec => []AcceptedIsWhole
  BY WholeFiles, FilesInvariant, PTL

-----------------------------------------------------------------------------
(* The selector.                                                           *)

LEMMA Symbols ==
    /\ Sha256 \in Alphabet /\ OtherAlgo \in Alphabet /\ Newline \in Alphabet
    /\ Hex \subseteq Alphabet /\ Newline \notin Hex
    /\ Newline # Sha256 /\ Newline # OtherAlgo
  BY SymbolsAssumption DEF Alphabet

(* A text without what follows its first symbols.                          *)
LEMMA Beginning ==
  ASSUME NEW text \in Seq(Alphabet), NEW n \in Nat, n <= Len(text)
  PROVE  /\ SubSeq(text, 1, n) \in Seq(Alphabet) /\ Len(SubSeq(text, 1, n)) = n
         /\ \A i \in 1..n : SubSeq(text, 1, n)[i] = text[i]
<1>1. \A i \in 1..n : text[i] \in Alphabet
  BY LenProperties, ElementOfSeq
<1>2. /\ SubSeq(text, 1, n) \in Seq(Alphabet)
      /\ Len(SubSeq(text, 1, n)) = IF 1 <= n THEN n - 1 + 1 ELSE 0
      /\ \A i \in 1..(n - 1 + 1) : SubSeq(text, 1, n)[i] = text[1 + i - 1]
  BY <1>1, SubSeqProperties
<1>3. Len(SubSeq(text, 1, n)) = n
  BY <1>2
<1>4. ASSUME NEW i \in 1..n PROVE SubSeq(text, 1, n)[i] = text[i]
  <2>1. i \in 1..(n - 1 + 1) /\ 1 + i - 1 = i
    OBVIOUS
  <2> QED
    BY <2>1, <1>2
<1> QED
  BY <1>2, <1>3, <1>4

(* What leads to a generation is the text that is written to select it.    *)
LEMMA SelectorIsExact ==
  ASSUME NEW text \in Seq(Alphabet), Selected(text) # Refused
  PROVE  text = SelectorText(<<Sha256>> \o Selected(text))
<1> DEFINE identity == SubSeq(text, 1, Len(text) - 1)
           name == SubSeq(identity, 2, Len(identity))
<1>1. /\ ParseSelector(text) # Refused
      /\ GenerationName(ParseSelector(text)) = Selected(text)
  BY DEF Selected
<1>2. text # <<>> /\ text[Len(text)] = Newline /\ ParseSelector(text) = Parse(identity)
  BY <1>1 DEF ParseSelector
<1>3. ParseSelector(text) = identity
  BY <1>1, <1>2 DEF Parse
<1>4. Len(text) \in Nat \ {0}
  BY <1>2, EmptySeq
<1>5. identity \in Seq(Alphabet) /\ Len(identity) = Len(text) - 1
      /\ \A i \in 1..(Len(text) - 1) : identity[i] = text[i]
  <2>1. Len(text) - 1 \in Nat /\ Len(text) - 1 <= Len(text)
    BY <1>4
  <2> QED
    BY <2>1, Beginning
<1>6. Selected(text) = name /\ Len(identity) = Digits + 1 /\ identity[1] = Sha256
  BY <1>1, <1>3 DEF GenerationName
<1> HIDE DEF identity, name
<1>7. <<Sha256>> \o name = identity
  <2>1. Len(identity) \in Nat /\ 1 \in 1..Len(identity) /\ Len(identity) \in 1..Len(identity)
    BY <1>6, DigitsAssumption
  <2>2. SubSeq(identity, 1, Len(identity)) = <<identity[1]>> \o SubSeq(identity, 2, Len(identity))
    BY <2>1, <1>5, SubSeqRecursiveFirst
  <2> QED
    BY <2>2, <1>5, <1>6, SubSeqFull DEF name
<1>8. Append(identity, Newline) = text
  <2>1. /\ Append(identity, Newline) \in Seq(Alphabet)
        /\ Len(Append(identity, Newline)) = Len(text)
        /\ \A i \in 1..Len(identity) : Append(identity, Newline)[i] = identity[i]
        /\ Append(identity, Newline)[Len(identity) + 1] = Newline
    BY <1>4, <1>5, Symbols, AppendProperties
  <2>2. \A i \in 1..Len(text) : Append(identity, Newline)[i] = text[i]
    BY <2>1, <1>2, <1>4, <1>5
  <2> QED
    BY <2>1, <2>2, SeqEqual
<1> QED
  BY <1>6, <1>7, <1>8 DEF SelectorText

(* The text written for an identity leads to the generation of its name.   *)
LEMMA SelectorLeadsBack ==
  ASSUME NEW name \in [1..Digits -> Hex]
  PROVE  /\ SelectorText(<<Sha256>> \o name) \in Seq(Alphabet)
         /\ Selected(SelectorText(<<Sha256>> \o name)) = name
<1> DEFINE identity == <<Sha256>> \o name
           text == SelectorText(identity)
<1>1. name \in Seq(Alphabet) /\ Len(name) = Digits /\ \A i \in 1..Digits : name[i] \in Hex
  <2>1. name \in [1..Digits -> Alphabet]
    BY Symbols
  <2>2. name \in Seq(Alphabet)
    BY <2>1, SeqDef, DigitsAssumption
  <2> QED
    BY <2>2, LenProperties, DigitsAssumption
<1>2. /\ identity \in Seq(Alphabet) /\ Len(identity) = Digits + 1
      /\ identity[1] = Sha256 /\ \A i \in 2..Len(identity) : identity[i] = name[i - 1]
  <2>1. <<Sha256>> \in Seq(Alphabet) /\ Len(<<Sha256>>) = 1 /\ <<Sha256>>[1] = Sha256
    BY Symbols
  <2> QED
    BY <2>1, <1>1, DigitsAssumption, ConcatProperties
<1> HIDE DEF identity
<1>3. /\ text \in Seq(Alphabet) /\ Len(text) = Digits + 2 /\ text[Digits + 2] = Newline
      /\ \A i \in 1..Digits + 1 : text[i] = identity[i]
  BY <1>2, Symbols, DigitsAssumption, AppendProperties DEF SelectorText
<1> HIDE DEF text
<1>4. SubSeq(text, 1, Len(text) - 1) = identity
  <2>2. /\ SubSeq(text, 1, Digits + 1) \in Seq(Alphabet)
        /\ Len(SubSeq(text, 1, Digits + 1)) = Digits + 1
        /\ \A i \in 1..Digits + 1 : SubSeq(text, 1, Digits + 1)[i] = text[i]
    BY <1>3, DigitsAssumption, Beginning
  <2>3. SubSeq(text, 1, Digits + 1) = identity
    BY <2>2, <1>2, <1>3, SeqEqual
  <2> QED
    BY <2>3, <1>3, DigitsAssumption
<1>5. \A i \in 2..Len(identity) : identity[i] \in Hex
  BY <1>1, <1>2, DigitsAssumption
<1>6. \A i \in 1..(Len(text) - 1) : text[i] # Newline
  <2> SUFFICES ASSUME NEW i \in 1..(Len(text) - 1) PROVE text[i] # Newline
    OBVIOUS
  <2>1. text[i] = identity[i] /\ (i = 1 \/ i \in 2..Len(identity))
    BY <1>2, <1>3, DigitsAssumption
  <2> QED
    BY <2>1, <1>2, <1>5, Symbols
<1>7. Parse(identity) = identity
  <2>1. identity # <<>>
    BY <1>2, DigitsAssumption, EmptySeq
  <2> QED
    BY <2>1, <1>2, <1>5 DEF Parse
<1>8. ParseSelector(text) = identity
  <2>1. text # <<>>
    BY <1>3, DigitsAssumption, EmptySeq
  <2> QED
    BY <2>1, <1>3, <1>4, <1>6, <1>7 DEF ParseSelector
<1>9. GenerationName(identity) = name
  <2>1. GenerationName(identity) = SubSeq(identity, 2, Len(identity))
    BY <1>2 DEF GenerationName
  <2>2. \A i \in 2..Len(identity) : identity[i] \in Alphabet
    BY <1>5, Symbols
  <2>3. /\ SubSeq(identity, 2, Len(identity)) \in Seq(Alphabet)
        /\ Len(SubSeq(identity, 2, Len(identity))) = Digits
        /\ \A i \in 1..Digits : SubSeq(identity, 2, Len(identity))[i] = name[i]
    <3>1. /\ 2 \in Int /\ Len(identity) \in Int /\ 2 <= Len(identity)
          /\ Len(identity) - 2 + 1 = Digits
      BY <1>2, DigitsAssumption
    <3>2. /\ SubSeq(identity, 2, Len(identity)) \in Seq(Alphabet)
          /\ Len(SubSeq(identity, 2, Len(identity))) = Digits
          /\ \A i \in 1..Digits : SubSeq(identity, 2, Len(identity))[i] = identity[2 + i - 1]
      BY <2>2, <3>1, SubSeqProperties
    <3> QED
      BY <3>2, <1>2, DigitsAssumption
  <2>4. SubSeq(identity, 2, Len(identity)) = name
    BY <2>3, <1>1, SeqEqual
  <2> QED
    BY <2>1, <2>4
<1> QED
  BY <1>2, <1>3, <1>8, <1>9, RefusedAssumption DEF Selected, identity, text

(* No two contents select the same generation, and nothing cut, padded or  *)
(* joined is taken for a selector.                                         *)
THEOREM ExactSelectors == Spec => []SelectorsAreExact
<1>1. FilesInv => SelectorsAreExact
  BY SelectorIsExact DEF FilesInv, TypeOK, SelectorsAreExact
<1> QED
  BY <1>1, FilesInvariant, PTL

(* A selector that was written leads its reader to the generation of the   *)
(* identity it was written for.                                            *)
THEOREM WrittenSelectors == Spec => []SelectorsReadBack
<1>1. FilesInv => SelectorsReadBack
  <2> SUFFICES ASSUME FilesInv, outcome = "returned", changes = 0,
                      NEW name \in [1..Digits -> Hex],
                      bytes = SelectorText(<<Sha256>> \o name)
               PROVE  Selected(result) = name
    BY DEF SelectorsReadBack
  <2>1. bytes # Nil
    BY SelectorLeadsBack, NilAssumption
  <2> QED
    BY <2>1, WholeFiles, SelectorLeadsBack DEF AcceptedIsWhole
<1> QED
  BY <1>1, FilesInvariant, PTL

-----------------------------------------------------------------------------
(* Changes under the reader.                                               *)

(* What the reader has is the beginning of a text that is in order, and    *)
(* the file is the newest version.                                         *)
Seen ==
    /\ versions # <<>> /\ versions[Len(versions)] = file
    /\ Len(versions[1]) = size /\ InOrder(result)

OrderInv ==
    /\ pc \in {"read", "extra"} => Seen
    /\ outcome = "returned" => Seen /\ offset = size

LEMMA LastOf ==
  ASSUME versions \in Seq(Seq(Alphabet)), versions # <<>>
  PROVE  Len(versions) \in Nat \ {0} /\ \A i \in 1..Len(versions) : versions[i] \in Seq(Alphabet)
  BY EmptySeq, LenProperties, ElementOfSeq

LEMMA OrderStatus == FilesInv /\ OrderInv /\ Status => OrderInv'
<1> SUFFICES ASSUME FilesInv, Status PROVE OrderInv'
  OBVIOUS
<1>1. /\ file \in Seq(Alphabet) /\ result = <<>> /\ outcome = "none" /\ UNCHANGED <<result, file>>
  BY DEF FilesInv, TypeOK, ReaderInv, Status, Examine
<1>2. CASE pc' = "read"
  <2>1. versions' = <<file>> /\ size' = Len(file) /\ outcome' = "none"
    BY <1>1, <1>2 DEF Status, Examine, Return
  <2>2. versions' # <<>> /\ Len(versions') = 1 /\ versions'[1] = file
    BY <2>1
  <2>3. Len(result') = 0
    BY <1>1
  <2> DEFINE at == [i \in 1..Len(result') |-> 1]
  <2>4. /\ at \in [1..Len(result') -> 1..Len(versions')]
        /\ \A i \in 1..Len(result') : FALSE
    BY <2>2, <2>3
  <2> HIDE DEF at
  <2>5. InOrder(result)'
    BY <2>4 DEF InOrder
  <2> QED
    BY <1>1, <2>1, <2>2, <2>5 DEF OrderInv, Seen
<1>3. CASE pc' = "done" /\ outcome' = "refused"
  BY <1>3 DEF OrderInv
<1> QED
  BY <1>2, <1>3 DEF Status, Examine, Return

(* What is read now was there now, and what was read before, before.       *)
LEMMA OrderRead == FilesInv /\ OrderInv /\ ReadSome => OrderInv'
<1> SUFFICES ASSUME FilesInv, OrderInv, ReadSome PROVE OrderInv'
  OBVIOUS
<1>0. /\ file \in Seq(Alphabet) /\ Len(file) \in Nat /\ result \in Seq(Alphabet)
      /\ size \in Nat /\ Len(result) \in 0..Len(file) /\ pc = "read" /\ outcome = "none"
      /\ UNCHANGED <<size, outcome, versions, file, pc>>
  BY LenProperties, BoundAssumption DEF FilesInv, TypeOK, ReaderInv, ReadSome, offset
<1>1. Seen /\ Len(versions) \in Nat \ {0}
  BY <1>0, LastOf DEF OrderInv, Seen, FilesInv, TypeOK
<1> PICK count \in 1..(size - Len(result)) :
           /\ Len(result) + count <= Len(file)
           /\ result' = result \o SubSeq(file, Len(result) + 1, Len(result) + count)
  BY DEF ReadSome, offset
<1> DEFINE more == SubSeq(file, Len(result) + 1, Len(result) + count)
<1>2. /\ more \in Seq(Alphabet) /\ Len(more) = count
      /\ \A i \in 1..count : more[i] = file[Len(result) + i]
  <2>1. count \in 1..(Len(file) - Len(result))
    BY <1>0
  <2>2. more \in Seq(Alphabet) /\ Len(more) = count
    BY <1>0, <2>1, Continued
  <2>3. \A i \in (Len(result) + 1)..(Len(result) + count) : file[i] \in Alphabet
    <3>1. \A i \in 1..Len(file) : file[i] \in Alphabet
      BY <1>0, ElementOfSeq
    <3> QED
      BY <1>0, <2>1, <3>1
  <2>4. ASSUME NEW i \in 1..count PROVE more[i] = file[Len(result) + i]
    <3>1. /\ Len(result) + 1 \in Int /\ Len(result) + count \in Int
          /\ i \in 1..((Len(result) + count) - (Len(result) + 1) + 1)
          /\ Len(result) + 1 + i - 1 = Len(result) + i
      BY <1>0
    <3>2. more[i] = file[Len(result) + 1 + i - 1]
      BY <2>3, <3>1, SubSeqProperties
    <3> QED
      BY <3>1, <3>2
  <2> QED
    BY <2>2, <2>4
<1> HIDE DEF more
<1>3. /\ Len(result') = Len(result) + count
      /\ \A i \in 1..Len(result') :
           result'[i] = IF i <= Len(result) THEN result[i] ELSE file[i]
  <2>1. /\ Len(result \o more) = Len(result) + count
        /\ \A i \in 1..(Len(result) + count) :
             (result \o more)[i] = IF i <= Len(result) THEN result[i] ELSE more[i - Len(result)]
    BY <1>0, <1>2, ConcatProperties
  <2> QED
    BY <1>0, <1>2, <2>1 DEF more
<1>4. PICK at \in [1..Len(result) -> 1..Len(versions)] :
        /\ \A i \in 1..Len(result) :
             i <= Len(versions[at[i]]) /\ result[i] = versions[at[i]][i]
        /\ \A i, j \in 1..Len(result) : i <= j => at[i] <= at[j]
  BY <1>1 DEF Seen, InOrder
<1> DEFINE now == [i \in 1..Len(result') |-> IF i <= Len(result) THEN at[i] ELSE Len(versions)]
<1>5. now \in [1..Len(result') -> 1..Len(versions)]
  BY <1>0, <1>1, <1>3, <1>4
<1>6. \A i \in 1..Len(result') :
        i <= Len(versions[now[i]]) /\ result'[i] = versions[now[i]][i]
  <2>1. versions[Len(versions)] = file
    BY <1>1 DEF Seen
  <2> SUFFICES ASSUME NEW i \in 1..Len(result')
               PROVE  i <= Len(versions[now[i]]) /\ result'[i] = versions[now[i]][i]
    OBVIOUS
  <2>2. CASE i <= Len(result)
    BY <1>0, <1>3, <1>4, <2>2
  <2>3. CASE i > Len(result)
    BY <1>0, <1>3, <2>1, <2>3
  <2> QED
    BY <1>0, <1>3, <2>2, <2>3
<1>7. \A i, j \in 1..Len(result') : i <= j => now[i] <= now[j]
  <2> SUFFICES ASSUME NEW i \in 1..Len(result'), NEW j \in 1..Len(result'), i <= j
               PROVE  now[i] <= now[j]
    OBVIOUS
  <2>1. CASE j <= Len(result)
    BY <1>3, <1>4, <2>1
  <2>2. CASE j > Len(result)
    BY <1>3, <1>5, <2>2
  <2> QED
    BY <1>3, <2>1, <2>2
<1>8. InOrder(result)'
  BY <1>0, <1>5, <1>6, <1>7 DEF InOrder
<1> QED
  BY <1>0, <1>1, <1>8 DEF OrderInv, Seen

(* A change adds a version; those that were read from stay.                *)
LEMMA OrderChange == FilesInv /\ OrderInv /\ Change => OrderInv'
<1> SUFFICES ASSUME FilesInv, OrderInv, Change PROVE OrderInv'
  OBVIOUS
<1>0. /\ UNCHANGED <<size, result, outcome, pc>> /\ outcome = "none"
      /\ file' \in Seq(Alphabet) /\ versions \in Seq(Seq(Alphabet))
  BY ChangedFile DEF Change, FilesInv, TypeOK, ReaderInv
<1>1. CASE pc = "stat"
  BY <1>0, <1>1 DEF OrderInv
<1>2. CASE pc \in {"read", "extra"}
  <2>1. Seen /\ versions # <<>> /\ Len(versions) \in Nat \ {0}
    BY <1>0, <1>2, LastOf DEF OrderInv, Seen
  <2>2. versions' = Append(versions, file')
    BY <1>2 DEF Change
  <2>3. /\ Len(versions') = Len(versions) + 1 /\ versions'[Len(versions')] = file'
        /\ \A i \in 1..Len(versions) : versions'[i] = versions[i]
    BY <1>0, <2>1, <2>2, AppendProperties
  <2>4. versions' # <<>> /\ versions'[1] = versions[1]
    BY <2>1, <2>3
  <2>5. PICK at \in [1..Len(result) -> 1..Len(versions)] :
          /\ \A i \in 1..Len(result) :
               i <= Len(versions[at[i]]) /\ result[i] = versions[at[i]][i]
          /\ \A i, j \in 1..Len(result) : i <= j => at[i] <= at[j]
    BY <2>1 DEF Seen, InOrder
  <2>6. at \in [1..Len(result') -> 1..Len(versions')]
    BY <1>0, <2>1, <2>3, <2>5
  <2>7. /\ \A i \in 1..Len(result') :
             i <= Len(versions'[at[i]]) /\ result'[i] = versions'[at[i]][i]
        /\ \A i, j \in 1..Len(result') : i <= j => at[i] <= at[j]
    BY <1>0, <2>3, <2>5
  <2>8. InOrder(result)'
    BY <2>6, <2>7 DEF InOrder
  <2> QED
    BY <1>0, <2>1, <2>3, <2>4, <2>8 DEF OrderInv, Seen
<1> QED
  BY <1>1, <1>2 DEF Change

LEMMA OrderReadExtra == FilesInv /\ OrderInv /\ ReadExtra => OrderInv'
<1> SUFFICES ASSUME FilesInv, OrderInv, ReadExtra PROVE OrderInv'
  OBVIOUS
<1>1. Seen /\ offset = size /\ UNCHANGED <<result, versions, size, file>> /\ pc' = "done"
  BY DEF FilesInv, ReaderInv, OrderInv, ReadExtra, Return
<1> QED
  BY <1>1 DEF OrderInv, Seen, InOrder, offset

(* What was read so far was in the file in the order it was read in,       *)
(* whoever changes the file and however often.                             *)
THEOREM OrderInvariant == Spec => []OrderInv
<1>1. Init => OrderInv
  BY DEF Init, OrderInv
<1>2. FilesInv /\ OrderInv /\ [Next]_vars => OrderInv'
  <2> SUFFICES ASSUME FilesInv, OrderInv, [Next]_vars PROVE OrderInv'
    OBVIOUS
  <2>1. CASE Create \/ WriteSome \/ SealFile \/ SyncFile \/ FailFile \/ Kill \/ Open
    <3>1. pc' \notin {"read", "extra"} /\ outcome' # "returned"
      BY <2>1 DEF Create, WriteSome, SealFile, SyncFile, FailFile, Kill, Open, Return,
         WriterEnds, reader, FilesInv, ReaderInv
    <3> QED
      BY <3>1 DEF OrderInv
  <2>2. CASE ReadNothing \/ FailRead
    BY <2>2 DEF ReadNothing, FailRead, Return, OrderInv
  <2>3. CASE FinishLoop \/ Interrupt \/ Done \/ UNCHANGED vars
    <3>1. /\ UNCHANGED <<file, size, result, outcome, versions>>
          /\ pc' \in {"read", "extra"} => pc \in {"read", "extra"}
      BY <2>3 DEF FinishLoop, Interrupt, Done, vars, writer, reader
    <3> QED
      BY <3>1 DEF OrderInv, Seen, InOrder, offset
  <2> QED
    BY <2>1, <2>2, <2>3, OrderStatus, OrderRead, OrderChange, OrderReadExtra DEF Next, Step
<1> QED
  BY <1>1, <1>2, FilesInvariant, PTL DEF Spec

(* Each byte that is returned was in the file at its place, the later ones *)
(* at no earlier time, for files of any length, reads cut at any place and *)
(* any number of changes.                                                  *)
THEOREM BytesInOrder == Spec => []ResultInOrder
<1>1. OrderInv => ResultInOrder
  BY DEF OrderInv, Seen, ResultInOrder, offset
<1> QED
  BY <1>1, OrderInvariant, PTL

(* A change of one byte, a cut or an append is returned as a whole or not  *)
(* at all, when there is but one.                                          *)
THEOREM SmallChangesNotHalved == Spec => []SmallChangesAreWhole
<1>1. FilesInv /\ OrderInv => SmallChangesAreWhole
  <2> DEFINE before == versions[1]
             after  == versions[2]
             differ == {i \in 1..Len(before) : i <= Len(after) /\ before[i] # after[i]}
  <2> SUFFICES ASSUME FilesInv, OrderInv, outcome = "returned", Len(versions) = 2,
                      \A i, j \in differ : i = j
               PROVE  result \in {before, after}
    BY DEF SmallChangesAreWhole
  <2>1. Seen /\ Len(result) = size /\ result \in Seq(Alphabet)
    BY DEF OrderInv, FilesInv, TypeOK, offset
  <2>2. /\ before \in Seq(Alphabet) /\ after \in Seq(Alphabet) /\ after = file
        /\ Len(before) = Len(result) /\ Len(after) \in Nat /\ Len(result) \in Nat
        /\ Len(after) <= Len(result)
    <3>1. before \in Seq(Alphabet) /\ after \in Seq(Alphabet)
      BY <2>1, LastOf DEF Seen, FilesInv, TypeOK
    <3> QED
      BY <2>1, <3>1, LenProperties DEF Seen, FilesInv, ReaderInv, NoPrefix
  <2>3. PICK at \in [1..Len(result) -> 1..2] :
          /\ \A i \in 1..Len(result) :
               i <= Len(versions[at[i]]) /\ result[i] = versions[at[i]][i]
          /\ \A i, j \in 1..Len(result) : i <= j => at[i] <= at[j]
    BY <2>1 DEF Seen, InOrder
  <2>4. CASE \A i \in 1..Len(result) : result[i] = before[i]
    BY <2>1, <2>2, <2>4, SeqEqual
  <2>5. CASE \E d \in 1..Len(result) : result[d] # before[d]
    <3> PICK d \in 1..Len(result) : result[d] # before[d]
      BY <2>5
    <3>1. at[d] = 2 /\ d <= Len(after) /\ d \in differ
      <4>1. at[d] = 2
        BY <2>3
      <4>2. d <= Len(after) /\ result[d] = after[d]
        BY <2>3, <4>1
      <4> QED
        BY <2>2, <4>1, <4>2
    <3>2. at[Len(result)] = 2 /\ Len(after) = Len(result)
      BY <2>2, <2>3, <3>1
    <3>3. ASSUME NEW i \in 1..Len(result) PROVE result[i] = after[i]
      <4>1. CASE at[i] = 2
        BY <2>3, <4>1
      <4>2. CASE at[i] = 1
        <5>1. i # d /\ result[i] = before[i]
          BY <2>3, <3>1, <4>2
        <5>2. i \notin differ
          BY <3>1, <5>1
        <5> QED
          BY <2>2, <3>2, <5>1, <5>2
      <4> QED
        BY <2>3, <4>1, <4>2
    <3> QED
      BY <2>1, <2>2, <3>2, <3>3, SeqEqual
  <2> QED
    BY <2>4, <2>5
<1> QED
  BY <1>1, FilesInvariant, OrderInvariant, PTL
=============================================================================
