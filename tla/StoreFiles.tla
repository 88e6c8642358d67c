----------------------------- MODULE StoreFiles -----------------------------
(***************************************************************************)
(* One small file of the store, written once and read once by              *)
(* canonical_generation_store.cpp.                                         *)
(*                                                                         *)
(* write_publication_file, write_current_temporary and the first half of   *)
(* write_atomic_metadata create it writable, write(2) all of it, make it   *)
(* immutable and synchronise it. A failure unlinks it, if it can; a kill   *)
(* leaves it as it is. read_file_at opens it, looks at it with fstat,      *)
(* read(2)s what fstat promised and once more to find the end. Both calls  *)
(* may be cut short or interrupted, and while the file is read somebody    *)
(* else may write any bytes at any place of it, or cut it. Instead of a    *)
(* file of the store, the reader may also meet any other one.              *)
(***************************************************************************)
EXTENDS SelectorCodec

CONSTANTS
    Nil,            \* no writer
    MaximumSize,    \* maximum_size, the limit the caller gives
    MaxLength,      \* bound on the length of a file
    MaxPiece,       \* bound on the bytes of one write of another writer
    MaxChanges,     \* bound on its writes and cuts
    MaxInterrupts   \* bound on EINTR

ASSUME BoundAssumption ==
    {MaximumSize, MaxLength, MaxPiece, MaxChanges, MaxInterrupts} \subseteq Nat
ASSUME NilAssumption   == Nil \notin Seq(Alphabet)

VARIABLES
    bytes,       \* what the writer was given, or Nil
    file,        \* the bytes of the file
    kind,        \* how fstat describes it, or that it is not there
    flushed,     \* what of it is on the disk
    written,     \* how the writer ended
    pc,          \* where the writer stands, and then the reader
    taken,       \* how much write(2) says it has taken
    size,        \* st_size
    result,      \* the bytes read so far; offset is their number
    outcome,     \* how the reader ended
    changes, interrupts,
    versions     \* ghost: what the file has held since fstat, in order

writer == <<bytes, flushed, written, taken>>
reader == <<size, result, outcome, versions>>
vars   == <<writer, reader, file, kind, pc, changes, interrupts>>

Texts(longest) == UNION {[1..n -> Alphabet] : n \in 0..longest}
Contents == Texts(MaxLength)
Kinds == {"absent", "unopenable", "irregular", "linked", "writable", "plain"}
offset == Len(result)

Init ==
    /\ \/ bytes \in Contents /\ pc = "create" /\ kind = "absent" /\ file = <<>>
       \/ bytes = Nil /\ pc = "open" /\ kind \in Kinds /\ file \in Contents
    /\ flushed = <<>> /\ written = "none" /\ taken = 0
    /\ size = 0 /\ result = <<>> /\ outcome = "none" /\ versions = <<>>
    /\ changes = 0 /\ interrupts = 0

-----------------------------------------------------------------------------
(* The writer. When it is gone, the reader comes.                          *)

WriterEnds(how) == pc' = "open" /\ written' = how

(* openat(O_CREAT | O_EXCL); a name that is taken fails before the try.    *)
Create ==
    /\ pc = "create"
    /\ \/ kind' = "writable" /\ pc' = "write" /\ UNCHANGED written
       \/ WriterEnds("failed") /\ UNCHANGED kind
    /\ UNCHANGED <<bytes, flushed, taken, reader, file, changes, interrupts>>

(* write(2) takes any number of the bytes it is given.                     *)
WriteSome ==
    /\ pc = "write" /\ taken < Len(bytes)
    /\ \E count \in 1..(Len(bytes) - taken) :
         /\ file' = file \o SubSeq(bytes, taken + 1, taken + count)
         /\ taken' = taken + count
    /\ UNCHANGED <<bytes, flushed, written, reader, kind, pc, changes, interrupts>>

(* fchmod(0444), once everything is written.                               *)
SealFile ==
    /\ pc = "write" /\ taken = Len(bytes)
    /\ kind' = "plain" /\ pc' = "sync"
    /\ UNCHANGED <<writer, reader, file, changes, interrupts>>

(* Variant of SyncFile: the success of fsync is not looked at.             *)
SyncFileUnchecked ==
    /\ pc = "sync"
    /\ flushed' \in {flushed, file}
    /\ WriterEnds("written")
    /\ UNCHANGED <<bytes, taken, reader, file, kind, changes, interrupts>>

SyncFile ==
    /\ pc = "sync"
    /\ flushed' = file
    /\ WriterEnds("written")
    /\ UNCHANGED <<bytes, taken, reader, file, kind, changes, interrupts>>

(* An error of any of these, or a write(2) that takes nothing, throws; the *)
(* clean-up may fail unnoticed.                                            *)
FailFile ==
    /\ pc \in {"write", "sync"}
    /\ WriterEnds("failed") /\ kind' \in {kind, "absent"}
    /\ UNCHANGED <<bytes, flushed, taken, reader, file, changes, interrupts>>

(* The process is killed.                                                  *)
Kill ==
    /\ pc \in {"write", "sync"}
    /\ WriterEnds("killed")
    /\ UNCHANGED <<bytes, flushed, taken, reader, file, kind, changes, interrupts>>

-----------------------------------------------------------------------------
(* The reader.                                                             *)

Return(answer) == pc' = "done" /\ outcome' = answer

(* A file that is missing is an answer where it is optional.               *)
Open ==
    /\ pc = "open"
    /\ \/ kind \notin {"absent", "unopenable"} /\ pc' = "stat" /\ UNCHANGED outcome
       \/ kind = "absent" /\ \E optional \in BOOLEAN :
                               Return(IF optional THEN "missing" ELSE "refused")
       \/ kind = "unopenable" /\ Return("refused")
    /\ UNCHANGED <<writer, size, result, versions, file, kind, changes, interrupts>>

(* What fstat says decides whether the file is read, and how far.          *)
Examine(kinds, limit) ==
    /\ pc = "stat"
    /\ IF kind \in kinds /\ Len(file) <= limit
       THEN pc' = "read" /\ size' = Len(file) /\ versions' = <<file>> /\ UNCHANGED outcome
       ELSE Return("refused") /\ UNCHANGED <<size, versions>>
    /\ UNCHANGED <<writer, result, file, kind, changes, interrupts>>

(* Variants of Status: the limit is one byte too far; the mode is not      *)
(* looked at.                                                              *)
StatusUnlimited == Examine({"plain"}, MaximumSize + 1)
StatusWritable  == Examine({"plain", "writable"}, MaximumSize)

(* A regular file with one link, not writable, not too long.               *)
Status == Examine({"plain"}, MaximumSize)

(* Variant of ReadSome: the bytes are taken from the front of the file.    *)
ReadSomeRewinding ==
    /\ pc = "read" /\ offset < size /\ offset < Len(file)
    /\ \E count \in 1..(size - offset) :
         /\ offset + count <= Len(file)
         /\ result' = result \o SubSeq(file, 1, count)
    /\ UNCHANGED <<writer, size, outcome, versions, file, kind, pc, changes, interrupts>>

(* read(2) returns any number of the bytes asked for that are there.       *)
ReadSome ==
    /\ pc = "read" /\ offset < size /\ offset < Len(file)
    /\ \E count \in 1..(size - offset) :
         /\ offset + count <= Len(file)
         /\ result' = result \o SubSeq(file, offset + 1, offset + count)
    /\ UNCHANGED <<writer, size, outcome, versions, file, kind, pc, changes, interrupts>>

(* Variants of ReadNothing: the end of the file is not an error; a file    *)
(* that was cut is read anew.                                              *)
ReadNothingAgain ==
    /\ pc = "read" /\ offset < size /\ offset >= Len(file)
    /\ UNCHANGED vars
ReadNothingAnew ==
    /\ pc = "read" /\ offset < size /\ offset >= Len(file)
    /\ pc' = "stat" /\ result' = <<>>
    /\ UNCHANGED <<writer, size, outcome, versions, file, kind, changes, interrupts>>

(* It returns 0 at the end of a file that was cut.                         *)
ReadNothing ==
    /\ pc = "read" /\ offset < size /\ offset >= Len(file)
    /\ Return("refused")
    /\ UNCHANGED <<writer, size, result, versions, file, kind, changes, interrupts>>

FinishLoop ==
    /\ pc = "read" /\ offset >= size
    /\ pc' = "extra"
    /\ UNCHANGED <<writer, reader, file, kind, changes, interrupts>>

(* Variant of ReadExtra: the file is not read to its end.                  *)
ReadExtraNever ==
    /\ pc = "extra" /\ Return("returned")
    /\ UNCHANGED <<writer, size, result, versions, file, kind, changes, interrupts>>

(* One byte more than fstat promised must not be there.                    *)
ReadExtra ==
    /\ pc = "extra"
    /\ Return(IF Len(file) > offset THEN "refused" ELSE "returned")
    /\ UNCHANGED <<writer, size, result, versions, file, kind, changes, interrupts>>

(* Any error but EINTR throws.                                             *)
FailRead ==
    /\ pc \in {"stat", "read", "extra"}
    /\ Return("refused")
    /\ UNCHANGED <<writer, size, result, versions, file, kind, changes, interrupts>>

-----------------------------------------------------------------------------

(* EINTR is tried again.                                                   *)
Interrupt ==
    /\ pc \in {"write", "sync", "read", "extra"}
    /\ interrupts < MaxInterrupts
    /\ interrupts' = interrupts + 1
    /\ UNCHANGED <<writer, reader, file, kind, pc, changes>>

(* The file, after another writer put a piece at this place: over as many  *)
(* bytes as the piece has, and longer where it ends beyond the file.       *)
Overwritten(at, piece) ==
    SubSeq(file, 1, at) \o piece \o SubSeq(file, at + Len(piece) + 1, Len(file))

(* Between any two calls of the reader, somebody writes or cuts.           *)
Change ==
    /\ pc \in {"stat", "read", "extra"}
    /\ changes < MaxChanges
    /\ changes' = changes + 1
    /\ \/ \E at \in 0..Len(file), piece \in Texts(MaxPiece) :
            at + Len(piece) <= MaxLength /\ file' = Overwritten(at, piece)
       \/ \E n \in 0..Len(file) : file' = SubSeq(file, 1, n)
    /\ versions' = IF pc = "stat" THEN versions ELSE Append(versions, file')
    /\ UNCHANGED <<writer, size, result, outcome, kind, pc, interrupts>>

Done == pc = "done" /\ UNCHANGED vars

Step == \/ Create \/ WriteSome \/ SealFile \/ SyncFile
        \/ Open \/ Status \/ ReadSome \/ ReadNothing \/ FinishLoop \/ ReadExtra

Next == Step \/ FailFile \/ Kill \/ FailRead \/ Interrupt \/ Change \/ Done

Spec == Init /\ [][Next]_vars

(* Files are opened O_NONBLOCK and locks are not taken here: no call waits.*)
LiveSpec == Spec /\ WF_vars(Step)

-----------------------------------------------------------------------------

(* Every variable keeps its type, and the buffer its limit.                *)
TypeOK ==
    /\ bytes \in Seq(Alphabet) \cup {Nil}
    /\ file \in Seq(Alphabet) /\ flushed \in Seq(Alphabet) /\ result \in Seq(Alphabet)
    /\ kind \in Kinds /\ written \in {"none", "written", "failed", "killed"}
    /\ pc \in {"create", "write", "sync", "open", "stat", "read", "extra", "done"}
    /\ outcome \in {"none", "missing", "refused", "returned"}
    /\ taken \in Nat /\ size \in 0..MaximumSize /\ offset <= size
    /\ changes \in Nat /\ interrupts \in Nat
    /\ versions \in Seq(Seq(Alphabet))

(* Each byte of the text was in the file at its place, the later ones at   *)
(* no earlier time.                                                        *)
InOrder(text) ==
    \E at \in [1..Len(text) -> 1..Len(versions)] :
      /\ \A i \in 1..Len(text) :
           i <= Len(versions[at[i]]) /\ text[i] = versions[at[i]][i]
      /\ \A i, j \in 1..Len(text) : i <= j => at[i] <= at[j]

(* The length of what is returned is the one fstat saw, and its bytes are  *)
(* the file's, in the order of the file and of time, however often it was  *)
(* changed and the reads were cut and interrupted: no byte is skipped,     *)
(* read twice or older than one before it. A write of several bytes that   *)
(* comes between two reads may be returned by halves.                      *)
ResultInOrder ==
    outcome = "returned" => Len(result) = Len(versions[1]) /\ InOrder(result)

(* A single change that differs from what was there in one byte only, or   *)
(* only beyond the end of the shorter one, is not returned by halves: the  *)
(* result is what the file held before it or after it.                     *)
SmallChangesAreWhole ==
    outcome = "returned" /\ Len(versions) = 2 =>
      LET before == versions[1]
          after  == versions[2]
          differ == {i \in 1..Len(before) : i <= Len(after) /\ before[i] # after[i]}
      IN  (\A i, j \in differ : i = j) => result \in {before, after}

(* What is returned is never the beginning of a longer file: one that grew *)
(* while it was read is refused.                                           *)
NoPrefix == outcome = "returned" => Len(file) <= Len(result)

(* A reader that accepts a file of the store gets all of what its writer   *)
(* was given: what a kill, an error or a failed clean-up leaves            *)
(* half-written is told by its mode.                                       *)
AcceptedIsWhole ==
    outcome = "returned" /\ bytes # Nil /\ changes = 0 => result = bytes

(* A writer that goes on to its rename has every byte on the disk, however *)
(* the writes were cut.                                                    *)
WrittenIsDurable == written = "written" => flushed = bytes

(* A file that leads a reader to a generation is, to the byte, the one     *)
(* that is written to select it: no two contents select the same           *)
(* generation, and nothing cut, padded or joined is taken for a selector.  *)
SelectorsAreExact ==
    outcome = "returned" /\ Selected(result) # Refused
      => result = SelectorText(<<Sha256>> \o Selected(result))

(* A selector that was written for an identity the store uses leads its    *)
(* reader to the generation installed under that identity's name.          *)
SelectorsReadBack ==
    outcome = "returned" /\ changes = 0 =>
      \A name \in [1..Digits -> Hex] :
        bytes = SelectorText(<<Sha256>> \o name) => Selected(result) = name

(* The most steps that writer and reader may still take.                   *)
StepsLeft ==
    CASE pc = "create" -> MaximumSize + Len(bytes) + 7
      [] pc = "write"  -> MaximumSize + (Len(bytes) - taken) + 6
      [] pc = "sync"   -> MaximumSize + 5
      [] pc = "open"   -> MaximumSize + 4
      [] pc = "stat"   -> MaximumSize + 3
      [] pc = "read"   -> (size - offset) + 2
      [] pc = "extra"  -> 1
      [] pc = "done"   -> 0

(* Nothing that is done to the file gives the loops more to do, and        *)
(* nothing but an interrupt makes them try again: the reader never starts  *)
(* over, however often the file changes under it.                          *)
LoopsAdvance ==
    [][/\ StepsLeft' <= StepsLeft
       /\ UNCHANGED <<changes, interrupts>> => StepsLeft' < StepsLeft]_vars

(* Both loops end, also that of a reader whose file was cut.               *)
LoopsEnd == <>(pc = "done")
=============================================================================
