------------------------------- MODULE Buffer -------------------------------
(***************************************************************************)
(* The buffer every connection reads into and writes from (matelib/        *)
(* Buffer.cc, Buffer.h): a vector of bytes with a read and a write index.  *)
(* It is grown, or its data moved to the front, when there is no room      *)
(* behind the write index.                                                 *)
(*                                                                         *)
(* A buffer is a record.  Only the cells below size are the vector's; what *)
(* is in the others is never read.  The operators are the member           *)
(* functions, and their guards the asserts of those.                       *)
(***************************************************************************)
EXTENDS Naturals, Sequences

CONSTANT Char

kCheapPrepend == 8
kInitialSize == 1024

\* readFd's buffer on the stack.
ExtraSize == 65536

VARIABLE buf

Buffers == [cells : [Nat -> Char], size : Nat, readIndex : Nat, writeIndex : Nat]

\* The indices are in the vector, and in order.
Valid(b) ==
  /\ b \in Buffers
  /\ kCheapPrepend <= b.readIndex
  /\ b.readIndex <= b.writeIndex
  /\ b.writeIndex <= b.size

ReadableBytes(b)  == b.writeIndex - b.readIndex
WriteableBytes(b) == b.size - b.writeIndex

\* What can be read: from peek() to beginWrite().
Contents(b) == [k \in 1 .. ReadableBytes(b) |-> b.cells[b.readIndex + k - 1]]

-----------------------------------------------------------------------------
(* ensureWritableBytes, append and readFd.                                 *)

\* std::copy(data, data + len, begin() + at).
Written(cells, at, data) ==
  [i \in Nat |-> IF i \in at .. at + Len(data) - 1 THEN data[i - at + 1] ELSE cells[i]]

MustGrow(b, len) == WriteableBytes(b) + b.readIndex < len + kCheapPrepend

\* vector::resize to more bytes.
Resized(b, size) ==
  [cells |-> b.cells, size |-> size, readIndex |-> b.readIndex, writeIndex |-> b.writeIndex]

\* The data moved to the front.
MovedToFront(b) ==
  [cells |-> Written(b.cells, kCheapPrepend, Contents(b)), size |-> b.size,
   readIndex |-> kCheapPrepend, writeIndex |-> kCheapPrepend + ReadableBytes(b)]

EnsureWritableBytes(b, len) ==
  IF WriteableBytes(b) >= len THEN b
  ELSE IF MustGrow(b, len) THEN Resized(b, b.writeIndex + len)
  ELSE MovedToFront(b)

\* Data copied to beginWrite(), where there is room for it.
Filled(b, data) ==
  [cells |-> Written(b.cells, b.writeIndex, data), size |-> b.size,
   readIndex |-> b.readIndex, writeIndex |-> b.writeIndex + Len(data)]

Append_(b, data) == Filled(EnsureWritableBytes(b, Len(data)), data)

\* What readv put behind the write index, and the rest from the stack.
ReadInto(b, data) ==
  IF Len(data) <= WriteableBytes(b)
    THEN Filled(b, data)
    ELSE Append_(Filled(b, SubSeq(data, 1, WriteableBytes(b))),
                 SubSeq(data, WriteableBytes(b) + 1, Len(data)))

-----------------------------------------------------------------------------
(* retrieve and erase.                                                     *)

RetrieveAll(b) ==
  [cells |-> b.cells, size |-> b.size, readIndex |-> kCheapPrepend, writeIndex |-> kCheapPrepend]

Advanced(b, n) ==
  [cells |-> b.cells, size |-> b.size, readIndex |-> b.readIndex + n, writeIndex |-> b.writeIndex]

Retrieve(b, n) == IF n < ReadableBytes(b) THEN Advanced(b, n) ELSE RetrieveAll(b)

\* vector::erase of len bytes at start: what is behind them moves up.
Shifted(cells, start, len) == [i \in Nat |-> IF i < start THEN cells[i] ELSE cells[i + len]]

Shortened(b, start, len) ==
  [cells |-> Shifted(b.cells, start, len), size |-> b.size - len,
   readIndex |-> b.readIndex, writeIndex |-> b.writeIndex - len]

Erase(b, start, len) ==
  IF start = b.readIndex THEN Retrieve(b, len) ELSE Shortened(b, start, len)

-----------------------------------------------------------------------------
BufferInit ==
  \E cells \in [Nat -> Char] :
    buf = [cells |-> cells, size |-> kCheapPrepend + kInitialSize,
           readIndex |-> kCheapPrepend, writeIndex |-> kCheapPrepend]

DoAppend == \E data \in Seq(Char) : buf' = Append_(buf, data)

\* readFd of n bytes: readv fills the vector and at most the stack's buffer.
DoReadFd ==
  \E data \in Seq(Char) :
    /\ Len(data) <= WriteableBytes(buf) + ExtraSize
    /\ buf' = ReadInto(buf, data)

\* retrieve, retrieveUntil and retrieveAsString.
DoRetrieve ==
  \E n \in Nat :
    /\ n <= ReadableBytes(buf)
    /\ buf' = Retrieve(buf, n)

\* retrieveAll and clear.
DoRetrieveAll == buf' = RetrieveAll(buf)

DoErase ==
  \E start, len \in Nat :
    /\ buf.readIndex <= start
    /\ start + len <= buf.writeIndex
    /\ buf' = Erase(buf, start, len)

BufferNext == DoAppend \/ DoReadFd \/ DoRetrieve \/ DoRetrieveAll \/ DoErase

BufferSpec == BufferInit /\ [][BufferNext]_buf

-----------------------------------------------------------------------------
(* Properties.                                                             *)

\* The indices stay in the vector (every operation).
IndicesValid == Valid(buf)

\* The data is moved only if there is room in front of it: the assert of
\* ensureWritableBytes.
MoveHasRoom ==
  \A len \in Nat :
    WriteableBytes(buf) < len /\ ~MustGrow(buf, len) => kCheapPrepend < buf.readIndex

\* The buffer is a queue of bytes, however it is laid out.
Queue == INSTANCE ByteQueue WITH queue <- Contents(buf)
ImplementsByteQueue == Queue!Spec
=============================================================================
