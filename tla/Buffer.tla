------------------------------- MODULE Buffer -------------------------------
(***************************************************************************)
(* utils/Buffer.{h,cpp}: the growing byte buffer of a connection.          *)
(*                                                                         *)
(*      | prependable |  readable  |  writable  |                          *)
(*      0        readerIndex_  writerIndex_   Len(buffer_)                 *)
(*                                                                         *)
(* Bytes are numbered as in ByteQueue; 0 is a byte nobody wrote.  An       *)
(* assertion that fails ends the process.                                  *)
(***************************************************************************)
EXTENDS Naturals, Sequences

CONSTANTS
  kInitialSize,  \* size of a new buffer (1024)
  TmpSize,       \* sizeof tmpBuf in readFD (65536)
  MaxAppend,     \* bound: bytes added by one append or ensured at once
  MaxBytes       \* bound: bytes written in a behaviour

ASSUME BufferAssumption ==
  /\ kInitialSize \in Nat \ {0}
  /\ TmpSize \in Nat
  /\ MaxAppend \in Nat
  /\ MaxBytes \in Nat

VARIABLES
  buffer_,       \* the vector's bytes
  readerIndex_,
  writerIndex_,
  given,         \* number of bytes written so far
  aborted        \* has an assertion failed?

vars == <<buffer_, readerIndex_, writerIndex_, given, aborted>>

Bytes == 0 .. MaxBytes

TypeOK ==
  /\ buffer_ \in Seq(Bytes)
  /\ Len(buffer_) >= kInitialSize
  /\ readerIndex_ \in Nat
  /\ writerIndex_ \in Nat
  /\ readerIndex_ <= writerIndex_
  /\ writerIndex_ <= Len(buffer_)
  /\ given \in 0 .. MaxBytes
  /\ aborted \in BOOLEAN

Zeros(n) == [i \in 1 .. n |-> 0]

Init ==
  /\ buffer_ = Zeros(kInitialSize)
  /\ readerIndex_ = 0
  /\ writerIndex_ = 0
  /\ given = 0
  /\ aborted = FALSE

readableBytes == writerIndex_ - readerIndex_
writableBytes == Len(buffer_) - writerIndex_

-----------------------------------------------------------------------------
(* A buffer as a value: what a call sees after the calls before it in the  *)
(* same action.                                                            *)

This == [cells |-> buffer_, reader |-> readerIndex_, writer |-> writerIndex_]

RoomFromReader(b) == Len(b.cells) - b.reader
Room(b) == Len(b.cells) - b.writer

Becomes(b) ==
  /\ buffer_' = b.cells
  /\ readerIndex_' = b.reader
  /\ writerIndex_' = b.writer

(* Copies data behind the readable bytes; hasWritten.                      *)
Written(b, data) ==
  [b EXCEPT
     !.cells = [i \in DOMAIN b.cells |->
                  IF b.writer < i /\ i <= b.writer + Len(data)
                    THEN data[i - b.writer] ELSE b.cells[i]],
     !.writer = b.writer + Len(data)]

(* dataTopping moves the readable bytes to the front.                      *)
ToppedForgetful(b) ==
  [b EXCEPT !.reader = 0, !.writer = b.writer - b.reader]
Topped(b) ==
  [cells  |-> [i \in DOMAIN b.cells |->
                 IF i <= b.writer - b.reader THEN b.cells[b.reader + i] ELSE b.cells[i]],
   reader |-> 0,
   writer |-> b.writer - b.reader]

(* The size makeSpace grows to: doubled at least once, until len fits in   *)
(* the whole vector, which is not the same as in its free part.            *)
NewSizeNotDoubled(size, len) == IF len > size THEN len ELSE size
NewSize(size, len) ==
  size * 2 ^ (CHOOSE k \in 1 .. len :
                /\ size * 2 ^ k >= len
                /\ \A j \in 1 .. k - 1 : size * 2 ^ j < len)

Grown(b, len) ==
  [b EXCEPT !.cells = @ \o Zeros(NewSize(Len(@), len) - Len(@))]

(* The test by which makeSpace decides to move instead of growing.         *)
FitsWithoutTopping(b, len) == FALSE
FitsAfterTopping(b, len) == Room(b) + b.reader >= len

(* ensureWritable and makeSpace.                                           *)
Ensured(b, len) ==
  IF Room(b) >= len THEN b
  ELSE IF FitsAfterTopping(b, len) THEN Topped(b)
  ELSE Grown(b, len)

-----------------------------------------------------------------------------

Fresh(skip, n) == [i \in 1 .. n |-> given + skip + i]

Abort == aborted' = TRUE /\ UNCHANGED <<buffer_, readerIndex_, writerIndex_, given>>

(* append of the n bytes after byte number skip of this action to b; the   *)
(* assertions of ensureWritable, makeSpace and hasWritten.                 *)
AppendTo(b, skip, n) ==
  LET e == Ensured(b, n) IN
  IF Room(e) >= n
    THEN /\ Becomes(Written(e, Fresh(skip, n)))
         /\ given' = given + skip + n
         /\ UNCHANGED aborted
    ELSE Abort

AppendBytes(n) ==
  /\ given + n <= MaxBytes
  /\ AppendTo(This, 0, n)

EnsureWritable(len) ==
  LET e == Ensured(This, len) IN
  IF Room(e) >= len THEN Becomes(e) /\ UNCHANGED <<given, aborted>> ELSE Abort

(* readv of n bytes into the free part and, when that is smaller than      *)
(* tmpBuf, into tmpBuf, whose content is then appended.                    *)
ReadFD(n) ==
  /\ n <= writableBytes + (IF writableBytes < TmpSize THEN TmpSize ELSE 0)
  /\ given + n <= MaxBytes
  /\ IF n <= writableBytes
       THEN /\ Becomes(Written(This, Fresh(0, n)))
            /\ given' = given + n
            /\ UNCHANGED aborted
       ELSE AppendTo(Written(This, Fresh(0, writableBytes)), writableBytes, n - writableBytes)

(* retrieve, and the functions that return what they retrieve.             *)
Retrieve(n) ==
  /\ n <= readableBytes
  /\ IF n < readableBytes
       THEN readerIndex_' = readerIndex_ + n /\ UNCHANGED writerIndex_
       ELSE readerIndex_' = 0 /\ writerIndex_' = 0
  /\ UNCHANGED <<buffer_, given, aborted>>

UndoWrite(n) ==
  /\ n <= readableBytes
  /\ writerIndex_' = writerIndex_ - n
  /\ UNCHANGED <<buffer_, readerIndex_, given, aborted>>

Next ==
  /\ ~aborted
  /\ \/ \E n \in 1 .. MaxAppend : AppendBytes(n) \/ EnsureWritable(n)
     \/ \E n \in 1 .. MaxBytes : ReadFD(n)
     \/ \E n \in 1 .. readableBytes : Retrieve(n) \/ UndoWrite(n)

Spec == Init /\ [][Next]_vars

-----------------------------------------------------------------------------

Readable == [i \in 1 .. readableBytes |-> buffer_[readerIndex_ + i]]

Queue == INSTANCE ByteQueue WITH queue <- Readable

(* Growing, moving and reading past the end through tmpBuf never lose,     *)
(* repeat or reorder a byte (Buffer.h:63-67, 106-122, 159-191,             *)
(* Buffer.cpp:11-35).                                                      *)
ImplementsByteQueue == Queue!Spec

(* After makeSpace there is room for what was asked for: the assertions    *)
(* of Buffer.h:111 and 190.                                                *)
SpaceIsMade == ~aborted

(* Bytes that arrive make the vector grow only when they do not fit in it  *)
(* even after the readable bytes have been moved to the front              *)
(* (Buffer.h:180-189).                                                     *)
GrowsOnlyWhenFull ==
  [][(given' > given /\ Len(buffer_') > Len(buffer_))
       => (writerIndex_' - readerIndex_' > Len(buffer_))]_vars

=============================================================================
