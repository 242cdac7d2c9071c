---------------------------- MODULE Bytes_proofs ----------------------------
(***************************************************************************)
(* Proofs about what holds bytes, for any bytes and any sizes.             *)
(*                                                                         *)
(* Buffer: the indices stay in the vector, and the buffer implements the   *)
(* abstract queue of bytes.                                                *)
(*                                                                         *)
(* Serializer: what is put into a stream is taken out of it again: an      *)
(* object of any size, a string up to 65535 bytes, and so the answer to a  *)
(* call, in both byte orders, whatever follows in the stream.              *)
(*                                                                         *)
(* Rpc: a call whose messages are each read as a whole returns what the    *)
(* function makes of its own arguments.                                    *)
(***************************************************************************)
EXTENDS Buffer, Rpc, SequenceTheorems, NaturalsInduction, WellFoundedInduction, TLAPS

-----------------------------------------------------------------------------
(* Buffer.                                                                 *)

\* What can be read is a sequence of as many bytes as readableBytes() says.
LEMMA ContentsType ==
  ASSUME NEW b, Valid(b)
  PROVE  /\ Contents(b) \in Seq(Char)
         /\ Len(Contents(b)) = ReadableBytes(b)
         /\ ReadableBytes(b) \in Nat
         /\ \A k \in 1 .. ReadableBytes(b) : Contents(b)[k] = b.cells[b.readIndex + k - 1]
<1>1. ReadableBytes(b) \in Nat
  BY DEF Valid, Buffers, ReadableBytes, kCheapPrepend
<1>2. \A k \in 1 .. ReadableBytes(b) : b.cells[b.readIndex + k - 1] \in Char
  BY <1>1 DEF Valid, Buffers, ReadableBytes, kCheapPrepend
<1>3. Contents(b) \in [1 .. ReadableBytes(b) -> Char]
  BY <1>2 DEF Contents
<1>4. Contents(b) \in Seq(Char) /\ Len(Contents(b)) = ReadableBytes(b)
  BY <1>1, <1>3
<1> QED
  BY <1>1, <1>4 DEF Contents

\* A sequence with the readable bytes is the contents.
LEMMA ContentsAre ==
  ASSUME NEW b, Valid(b), NEW s \in Seq(Char), Len(s) = ReadableBytes(b),
         \A k \in 1 .. ReadableBytes(b) : b.cells[b.readIndex + k - 1] = s[k]
  PROVE  Contents(b) = s
<1>1. Contents(b) \in Seq(Char) /\ Len(Contents(b)) = Len(s)
  BY ContentsType
<1>2. \A k \in 1 .. Len(Contents(b)) : Contents(b)[k] = s[k]
  BY ContentsType
<1> QED
  BY <1>1, <1>2, SeqEqual

\* What a valid buffer is made of.
LEMMA ValidParts ==
  ASSUME NEW b, Valid(b)
  PROVE  /\ b.cells \in [Nat -> Char]
         /\ b.size \in Nat /\ b.readIndex \in Nat /\ b.writeIndex \in Nat
         /\ 8 <= b.readIndex /\ b.readIndex <= b.writeIndex /\ b.writeIndex <= b.size
         /\ ReadableBytes(b) = b.writeIndex - b.readIndex /\ ReadableBytes(b) \in Nat
         /\ WriteableBytes(b) = b.size - b.writeIndex /\ WriteableBytes(b) \in Nat
  BY DEF Valid, Buffers, ReadableBytes, WriteableBytes, kCheapPrepend

\* A record with these parts is a valid buffer.
LEMMA ValidRecord ==
  ASSUME NEW cells \in [Nat -> Char], NEW size \in Nat, NEW r \in Nat, NEW w \in Nat,
         8 <= r, r <= w, w <= size
  PROVE  Valid([cells |-> cells, size |-> size, readIndex |-> r, writeIndex |-> w])
  BY DEF Valid, Buffers, kCheapPrepend

\* std::copy writes bytes, and leaves the cells before them.
LEMMA WrittenCells ==
  ASSUME NEW cells \in [Nat -> Char], NEW at \in Nat, NEW data \in Seq(Char)
  PROVE  /\ Written(cells, at, data) \in [Nat -> Char]
         /\ \A i \in Nat : i < at => Written(cells, at, data)[i] = cells[i]
         /\ \A k \in 1 .. Len(data) : Written(cells, at, data)[at + k - 1] = data[k]
<1>1. Len(data) \in Nat /\ \A k \in 1 .. Len(data) : data[k] \in Char
  OBVIOUS
<1>2. \A i \in Nat : i \in at .. at + Len(data) - 1 => i - at + 1 \in 1 .. Len(data)
  BY <1>1
<1>3. \A i \in Nat :
        (IF i \in at .. at + Len(data) - 1 THEN data[i - at + 1] ELSE cells[i]) \in Char
  BY <1>1, <1>2
<1>4. \A k \in 1 .. Len(data) :
        /\ at + k - 1 \in Nat
        /\ at + k - 1 \in at .. at + Len(data) - 1
        /\ (at + k - 1) - at + 1 = k
  BY <1>1
<1> QED
  BY <1>1, <1>3, <1>4 DEF Written

\* The bytes behind the first m.
LEMMA WhatFollows ==
  ASSUME NEW data \in Seq(Char), NEW m \in Nat, m <= Len(data)
  PROVE  /\ SubSeq(data, m + 1, Len(data)) \in Seq(Char)
         /\ Len(SubSeq(data, m + 1, Len(data))) = Len(data) - m
         /\ \A k \in 1 .. Len(data) - m : SubSeq(data, m + 1, Len(data))[k] = data[m + k]
<1>1. Len(data) \in Nat /\ \A k \in 1 .. Len(data) : data[k] \in Char
  OBVIOUS
<1> QED
  BY <1>1, SubSeqProperties

\* A sequence is its first bytes and then the others.
LEMMA CutInTwo ==
  ASSUME NEW data \in Seq(Char), NEW m \in Nat, m <= Len(data)
  PROVE  /\ SubSeq(data, 1, m) \in Seq(Char)
         /\ Len(SubSeq(data, 1, m)) = m
         /\ SubSeq(data, m + 1, Len(data)) \in Seq(Char)
         /\ Len(SubSeq(data, m + 1, Len(data))) = Len(data) - m
         /\ SubSeq(data, 1, m) \o SubSeq(data, m + 1, Len(data)) = data
<1> DEFINE first == SubSeq(data, 1, m)
           rest == SubSeq(data, m + 1, Len(data))
<1>1. Len(data) \in Nat /\ \A k \in 1 .. Len(data) : data[k] \in Char
  OBVIOUS
<1>2. /\ first \in Seq(Char) /\ Len(first) = m
      /\ \A k \in 1 .. m : first[k] = data[k]
  BY <1>1, SubSeqProperties
<1>3. /\ rest \in Seq(Char) /\ Len(rest) = Len(data) - m
      /\ \A k \in 1 .. Len(data) - m : rest[k] = data[m + k]
  BY WhatFollows
<1> HIDE DEF first, rest
<1>4. /\ first \o rest \in Seq(Char)
      /\ Len(first \o rest) = Len(data)
      /\ \A k \in 1 .. Len(data) :
           (first \o rest)[k] = IF k <= m THEN first[k] ELSE rest[k - m]
  BY <1>1, <1>2, <1>3, ConcatProperties
<1>5. \A k \in 1 .. Len(data) : (first \o rest)[k] = data[k]
  BY <1>1, <1>2, <1>3, <1>4
<1>6. first \o rest = data
  BY <1>4, <1>5, SeqEqual
<1> QED
  BY <1>2, <1>3, <1>6 DEF first, rest

\* Data copied to beginWrite() is behind what was there.
LEMMA FilledAppends ==
  ASSUME NEW b, Valid(b), NEW data \in Seq(Char), Len(data) <= WriteableBytes(b)
  PROVE  /\ Valid(Filled(b, data))
         /\ Contents(Filled(b, data)) = Contents(b) \o data
<1> DEFINE new == Written(b.cells, b.writeIndex, data)
           f == Filled(b, data)
<1>1. Len(data) \in Nat
  OBVIOUS
<1>2. /\ new \in [Nat -> Char]
      /\ \A i \in Nat : i < b.writeIndex => new[i] = b.cells[i]
      /\ \A k \in 1 .. Len(data) : new[b.writeIndex + k - 1] = data[k]
  <2>1. b.cells \in [Nat -> Char] /\ b.writeIndex \in Nat
    BY ValidParts
  <2> QED
    BY <2>1, WrittenCells
<1>3. f.cells = new /\ f.size = b.size /\ f.readIndex = b.readIndex
      /\ f.writeIndex = b.writeIndex + Len(data)
  BY DEF Filled
<1>4. Valid(f)
  <2>1. /\ b.size \in Nat /\ b.readIndex \in Nat
        /\ 8 <= b.readIndex
        /\ b.writeIndex + Len(data) \in Nat
        /\ b.readIndex <= b.writeIndex + Len(data)
        /\ b.writeIndex + Len(data) <= b.size
    BY <1>1, ValidParts
  <2> HIDE DEF new
  <2>2. Valid([cells |-> new, size |-> b.size, readIndex |-> b.readIndex,
               writeIndex |-> b.writeIndex + Len(data)])
    BY <1>2, <2>1, ValidRecord
  <2> QED
    BY <2>2 DEF Filled, new
<1> HIDE DEF new, f
<1>5. ReadableBytes(b) \in Nat /\ ReadableBytes(f) = ReadableBytes(b) + Len(data)
      /\ b.readIndex \in Nat /\ b.writeIndex \in Nat
      /\ b.writeIndex = b.readIndex + ReadableBytes(b)
  BY <1>1, <1>3, ValidParts DEF ReadableBytes
<1>6. /\ Contents(b) \in Seq(Char) /\ Len(Contents(b)) = ReadableBytes(b)
      /\ Contents(b) \o data \in Seq(Char) /\ Len(Contents(b) \o data) = ReadableBytes(f)
      /\ \A k \in 1 .. ReadableBytes(b) : Contents(b)[k] = b.cells[b.readIndex + k - 1]
  <2>1. /\ Contents(b) \in Seq(Char) /\ Len(Contents(b)) = ReadableBytes(b)
        /\ \A k \in 1 .. ReadableBytes(b) : Contents(b)[k] = b.cells[b.readIndex + k - 1]
    BY ContentsType
  <2>2. /\ Contents(b) \o data \in Seq(Char)
        /\ Len(Contents(b) \o data) = Len(Contents(b)) + Len(data)
    BY <2>1, ConcatProperties
  <2> QED
    BY <2>1, <2>2, <1>5
<1>7. ASSUME NEW k \in 1 .. ReadableBytes(f)
      PROVE  f.cells[f.readIndex + k - 1] = (Contents(b) \o data)[k]
  <2>1. /\ k \in Nat /\ 1 <= k /\ k <= ReadableBytes(b) + Len(data)
        /\ k <= ReadableBytes(b) \/ k > ReadableBytes(b)
    BY <1>1, <1>5
  <2>2. CASE k <= ReadableBytes(b)
    <3>1. k \in 1 .. ReadableBytes(b) /\ b.readIndex + k - 1 \in Nat
          /\ b.readIndex + k - 1 < b.writeIndex
      BY <2>1, <2>2, <1>5
    <3>2. (Contents(b) \o data)[k] = Contents(b)[k]
      BY <3>1, <1>6, <1>5, <1>1
    <3> QED
      BY <3>1, <3>2, <1>2, <1>3, <1>6
  <2>3. CASE k > ReadableBytes(b)
    <3>1. k - ReadableBytes(b) \in 1 .. Len(data)
      BY <2>1, <2>3, <1>1, <1>5
    <3>2. (Contents(b) \o data)[k] = data[k - ReadableBytes(b)]
      BY <2>1, <2>3, <1>6, <1>5, <1>1
    <3>3. b.writeIndex + (k - ReadableBytes(b)) - 1 = b.readIndex + k - 1
      BY <2>1, <1>5
    <3>4. new[b.writeIndex + (k - ReadableBytes(b)) - 1] = data[k - ReadableBytes(b)]
      BY <3>1, <1>2
    <3> QED
      BY <3>2, <3>3, <3>4, <1>3
  <2> QED
    BY <2>1, <2>2, <2>3
<1>8. Contents(f) = Contents(b) \o data
  BY <1>4, <1>6, <1>7, ContentsAre
<1> QED
  BY <1>4, <1>8 DEF f

\* ensureWritableBytes makes room and leaves what can be read.
LEMMA EnsureMakesRoom ==
  ASSUME NEW b, Valid(b), NEW len \in Nat
  PROVE  /\ Valid(EnsureWritableBytes(b, len))
         /\ Contents(EnsureWritableBytes(b, len)) = Contents(b)
         /\ len <= WriteableBytes(EnsureWritableBytes(b, len))
<1> USE DEF kCheapPrepend
<1>1. /\ b.cells \in [Nat -> Char]
      /\ b.size \in Nat /\ b.readIndex \in Nat /\ b.writeIndex \in Nat
      /\ 8 <= b.readIndex /\ b.readIndex <= b.writeIndex /\ b.writeIndex <= b.size
      /\ ReadableBytes(b) = b.writeIndex - b.readIndex /\ ReadableBytes(b) \in Nat
      /\ WriteableBytes(b) = b.size - b.writeIndex /\ WriteableBytes(b) \in Nat
  BY ValidParts
<1>2. CASE WriteableBytes(b) >= len
  BY <1>1, <1>2 DEF EnsureWritableBytes
<1>3. CASE WriteableBytes(b) < len /\ MustGrow(b, len)
  <2> DEFINE f == Resized(b, b.writeIndex + len)
  <2>1. EnsureWritableBytes(b, len) = f
    BY <1>1, <1>3 DEF EnsureWritableBytes
  <2>2. Valid(f)
    BY <1>1, ValidRecord DEF Resized
  <2>3. Contents(f) = Contents(b)
    BY DEF Contents, ReadableBytes, Resized
  <2>4. len <= WriteableBytes(f)
    BY <1>1 DEF WriteableBytes, Resized
  <2> QED
    BY <2>1, <2>2, <2>3, <2>4
<1>4. CASE WriteableBytes(b) < len /\ ~MustGrow(b, len)
  <2> DEFINE new == Written(b.cells, 8, Contents(b))
             f == MovedToFront(b)
  <2>1. EnsureWritableBytes(b, len) = f
    BY <1>1, <1>4 DEF EnsureWritableBytes
  <2>2. /\ Contents(b) \in Seq(Char) /\ Len(Contents(b)) = ReadableBytes(b)
    BY ContentsType
  <2>3. /\ new \in [Nat -> Char]
        /\ \A k \in 1 .. ReadableBytes(b) : new[8 + k - 1] = Contents(b)[k]
    <3>1. \A k \in 1 .. Len(Contents(b)) : new[8 + k - 1] = Contents(b)[k]
      BY <1>1, <2>2, WrittenCells, SMTT(30)
    <3> QED
      BY <1>1, <2>2, <3>1, WrittenCells
  <2>4. f.cells = new /\ f.size = b.size /\ f.readIndex = 8
        /\ f.writeIndex = 8 + ReadableBytes(b)
    BY DEF MovedToFront
  <2> HIDE DEF new
  <2>5. Valid(f)
    <3>1. /\ 8 + ReadableBytes(b) \in Nat /\ 8 <= 8 + ReadableBytes(b)
          /\ 8 + ReadableBytes(b) <= b.size
      BY <1>1
    <3>2. Valid([cells |-> new, size |-> b.size, readIndex |-> 8,
                 writeIndex |-> 8 + ReadableBytes(b)])
      BY <1>1, <2>3, <3>1, ValidRecord
    <3> QED
      BY <3>2 DEF MovedToFront, new
  <2> HIDE DEF f
  <2>6. ReadableBytes(f) = ReadableBytes(b)
    BY <1>1, <2>4 DEF ReadableBytes
  <2>7. Contents(f) = Contents(b)
    BY <2>2, <2>3, <2>4, <2>5, <2>6, ContentsAre
  <2>8. len <= WriteableBytes(f)
    BY <1>1, <1>4, <2>4 DEF WriteableBytes, MustGrow
  <2> QED
    BY <2>1, <2>5, <2>7, <2>8
<1>5. WriteableBytes(b) >= len \/ WriteableBytes(b) < len
  BY <1>1
<1> QED
  BY <1>2, <1>3, <1>4, <1>5

\* append puts the data behind what was there, whatever room there was.
LEMMA AppendAppends ==
  ASSUME NEW b, Valid(b), NEW data \in Seq(Char)
  PROVE  /\ Valid(Append_(b, data))
         /\ Contents(Append_(b, data)) = Contents(b) \o data
<1>1. Len(data) \in Nat
  OBVIOUS
<1>2. /\ Valid(EnsureWritableBytes(b, Len(data)))
      /\ Contents(EnsureWritableBytes(b, Len(data))) = Contents(b)
      /\ Len(data) <= WriteableBytes(EnsureWritableBytes(b, Len(data)))
  BY <1>1, EnsureMakesRoom
<1> QED
  BY <1>2, FilledAppends DEF Append_

\* readFd puts what it read behind what was there, in one piece though it was
\* read into two.
LEMMA ReadIntoAppends ==
  ASSUME NEW b, Valid(b), NEW data \in Seq(Char)
  PROVE  /\ Valid(ReadInto(b, data))
         /\ Contents(ReadInto(b, data)) = Contents(b) \o data
<1>1. Len(data) \in Nat /\ WriteableBytes(b) \in Nat
  BY ValidParts
<1>2. CASE Len(data) <= WriteableBytes(b)
  BY <1>2, FilledAppends DEF ReadInto
<1>3. CASE ~(Len(data) <= WriteableBytes(b))
  <2> DEFINE m == WriteableBytes(b)
             first == SubSeq(data, 1, m)
             rest == SubSeq(data, m + 1, Len(data))
  <2>1. /\ first \in Seq(Char) /\ Len(first) = m
        /\ rest \in Seq(Char) /\ Len(rest) = Len(data) - m
        /\ first \o rest = data
    <3>1. m \in Nat /\ m <= Len(data)
      BY <1>1, <1>3
    <3> HIDE DEF m
    <3> QED
      BY <3>1, CutInTwo DEF first, rest
  <2> HIDE DEF first, rest
  <2>2. Valid(Filled(b, first)) /\ Contents(Filled(b, first)) = Contents(b) \o first
    <3>1. Len(first) <= WriteableBytes(b)
      BY <1>1, <2>1
    <3> QED
      BY <2>1, <3>1, FilledAppends
  <2>3. ReadInto(b, data) = Append_(Filled(b, first), rest)
    BY <1>3 DEF ReadInto, first, rest
  <2>4. /\ Valid(ReadInto(b, data))
        /\ Contents(ReadInto(b, data)) = (Contents(b) \o first) \o rest
    BY <2>1, <2>2, <2>3, AppendAppends
  <2>5. (Contents(b) \o first) \o rest = Contents(b) \o (first \o rest)
    <3>1. Contents(b) \in Seq(Char) /\ first \in Seq(Char) /\ rest \in Seq(Char)
      BY <2>1, ContentsType
    <3>2. \A s, t, u \in Seq(Char) : (s \o t) \o u = s \o (t \o u)
      <4> TAKE s \in Seq(Char), t \in Seq(Char), u \in Seq(Char)
      <4> QED
        BY ConcatAssociative
    <3> QED
      BY <3>1, <3>2, ZenonT(60)
  <2> QED
    BY <2>1, <2>4, <2>5
<1> QED
  BY <1>2, <1>3

\* retrieve takes from the front, and of an emptied buffer both indices return
\* to the start.
LEMMA RetrieveTakes ==
  ASSUME NEW b, Valid(b), NEW n \in Nat, n <= ReadableBytes(b)
  PROVE  /\ Valid(Retrieve(b, n))
         /\ Contents(Retrieve(b, n)) = SubSeq(Contents(b), n + 1, Len(Contents(b)))
<1> USE DEF kCheapPrepend
<1> DEFINE left == SubSeq(Contents(b), n + 1, Len(Contents(b)))
           f == Retrieve(b, n)
<1>1. /\ b.cells \in [Nat -> Char]
      /\ b.size \in Nat /\ b.readIndex \in Nat /\ b.writeIndex \in Nat
      /\ 8 <= b.readIndex /\ b.readIndex <= b.writeIndex /\ b.writeIndex <= b.size
      /\ ReadableBytes(b) = b.writeIndex - b.readIndex /\ ReadableBytes(b) \in Nat
  BY ValidParts
<1>2. /\ Contents(b) \in Seq(Char) /\ Len(Contents(b)) = ReadableBytes(b)
      /\ \A k \in 1 .. ReadableBytes(b) : Contents(b)[k] = b.cells[b.readIndex + k - 1]
  BY ContentsType
<1>3. /\ left \in Seq(Char) /\ Len(left) = ReadableBytes(b) - n
      /\ \A k \in 1 .. ReadableBytes(b) - n : left[k] = Contents(b)[n + k]
  <2>1. PICK c \in Seq(Char) : c = Contents(b)
    BY <1>2
  <2>2. Len(c) = ReadableBytes(b)
    BY <1>2, <2>1
  <2>3. /\ SubSeq(c, n + 1, Len(c)) \in Seq(Char)
        /\ Len(SubSeq(c, n + 1, Len(c))) = Len(c) - n
        /\ \A k \in 1 .. Len(c) - n : SubSeq(c, n + 1, Len(c))[k] = c[n + k]
    BY <2>2, WhatFollows
  <2> QED
    BY <2>1, <2>2, <2>3, Zenon
<1> HIDE DEF left
<1>4. /\ Valid(f) /\ ReadableBytes(f) = ReadableBytes(b) - n /\ f.cells = b.cells
      /\ n < ReadableBytes(b) => f.readIndex = b.readIndex + n
  <2>1. CASE n < ReadableBytes(b)
    <3>1. f = Advanced(b, n)
      BY <2>1 DEF Retrieve
    <3>2. b.readIndex + n \in Nat /\ 8 <= b.readIndex + n /\ b.readIndex + n <= b.writeIndex
      BY <1>1, <2>1
    <3> QED
      BY <1>1, <3>1, <3>2, ValidRecord DEF Advanced, ReadableBytes
  <2>2. CASE ~(n < ReadableBytes(b))
    <3>1. f = RetrieveAll(b) /\ n = ReadableBytes(b)
      BY <1>1, <2>2 DEF Retrieve
    <3> QED
      BY <1>1, <2>2, <3>1, ValidRecord DEF RetrieveAll, ReadableBytes
  <2> QED
    BY <2>1, <2>2
<1> HIDE DEF f
<1>5. ASSUME NEW k \in 1 .. ReadableBytes(f)
      PROVE  f.cells[f.readIndex + k - 1] = left[k]
  <2>1. k \in Nat /\ 1 <= k /\ k <= ReadableBytes(b) - n
    BY <1>1, <1>4
  <2>2. /\ k \in 1 .. ReadableBytes(b) - n /\ n + k \in 1 .. ReadableBytes(b)
        /\ f.readIndex = b.readIndex + n
        /\ f.readIndex + k - 1 = b.readIndex + (n + k) - 1
    BY <1>1, <1>4, <2>1
  <2> QED
    BY <1>2, <1>3, <1>4, <2>2
<1>6. Contents(f) = left
  BY <1>3, <1>4, <1>5, ContentsAre
<1> QED
  BY <1>4, <1>6 DEF f, left

\* retrieveAll leaves nothing.
LEMMA RetrieveAllTakesAll ==
  ASSUME NEW b, Valid(b)
  PROVE  Valid(RetrieveAll(b)) /\ Contents(RetrieveAll(b)) = <<>>
<1> USE DEF kCheapPrepend
<1>1. Valid(RetrieveAll(b))
  BY ValidParts, ValidRecord DEF RetrieveAll
<1>2. ReadableBytes(RetrieveAll(b)) = 0
  BY DEF RetrieveAll, ReadableBytes
<1>3. Contents(RetrieveAll(b)) \in Seq(Char) /\ Len(Contents(RetrieveAll(b))) = 0
  BY <1>1, <1>2, ContentsType
<1> QED
  BY <1>1, <1>3

\* The cells behind the erased ones move up.
LEMMA ShiftedCells ==
  ASSUME NEW cells \in [Nat -> Char], NEW start \in Nat, NEW len \in Nat
  PROVE  /\ Shifted(cells, start, len) \in [Nat -> Char]
         /\ \A i \in Nat : i < start => Shifted(cells, start, len)[i] = cells[i]
         /\ \A i \in Nat : i >= start => Shifted(cells, start, len)[i] = cells[i + len]
<1>1. \A i \in Nat : (IF i < start THEN cells[i] ELSE cells[i + len]) \in Char
  OBVIOUS
<1> QED
  BY <1>1 DEF Shifted

\* What is left of a sequence when n elements after the first k are cut out.
Without(s, k, n) == SubSeq(s, 1, k) \o SubSeq(s, k + n + 1, Len(s))

\* The elements before the cut stay where they are, those behind it move up.
LEMMA CutOut ==
  ASSUME NEW s \in Seq(Char), NEW k \in Nat, NEW n \in Nat, k + n <= Len(s)
  PROVE  /\ Without(s, k, n) \in Seq(Char)
         /\ Len(Without(s, k, n)) = Len(s) - n
         /\ \A i \in 1 .. Len(s) - n :
              Without(s, k, n)[i] = IF i <= k THEN s[i] ELSE s[i + n]
<1> DEFINE first == SubSeq(s, 1, k)
           rest == SubSeq(s, k + n + 1, Len(s))
           t == first \o rest
<1>1. Len(s) \in Nat /\ k + n \in Nat /\ k <= Len(s) /\ \A i \in 1 .. Len(s) : s[i] \in Char
  OBVIOUS
<1>2. /\ first \in Seq(Char) /\ Len(first) = k
      /\ \A i \in 1 .. k : first[i] = s[i]
  <2>1. first \in Seq(Char) /\ Len(first) = k
    BY <1>1, CutInTwo
  <2> QED
    BY <1>1, <2>1, SubSeqProperties
<1>3. /\ rest \in Seq(Char) /\ Len(rest) = Len(s) - (k + n)
      /\ \A i \in 1 .. Len(s) - (k + n) : rest[i] = s[(k + n) + i]
  <2>1. rest \in Seq(Char) /\ Len(rest) = Len(s) - (k + n)
    BY <1>1, CutInTwo
  <2> QED
    BY <1>1, <2>1, SubSeqProperties
<1> HIDE DEF first, rest
<1>4. /\ t \in Seq(Char)
      /\ Len(t) = k + (Len(s) - (k + n))
      /\ \A i \in 1 .. k + (Len(s) - (k + n)) : t[i] = IF i <= k THEN first[i] ELSE rest[i - k]
  BY <1>2, <1>3, ConcatProperties
<1> HIDE DEF t
<1>5. k + (Len(s) - (k + n)) = Len(s) - n
  BY <1>1
<1>6. ASSUME NEW i \in 1 .. Len(s) - n
      PROVE  t[i] = IF i <= k THEN s[i] ELSE s[i + n]
  <2>1. CASE i <= k
    BY <1>1, <1>2, <1>4, <1>5, <2>1
  <2>2. CASE ~(i <= k)
    <3>1. i - k \in 1 .. Len(s) - (k + n) /\ (k + n) + (i - k) = i + n
      BY <1>1, <2>2
    <3> QED
      BY <1>3, <1>4, <1>5, <2>2, <3>1
  <2> QED
    BY <2>1, <2>2
<1> QED
  BY <1>4, <1>5, <1>6 DEF t, first, rest, Without

\* What is left of the readable bytes when some are cut out.
LEMMA CutOutContents ==
  ASSUME NEW b, Valid(b), NEW k \in Nat, NEW n \in Nat, k + n <= ReadableBytes(b)
  PROVE  /\ Without(Contents(b), k, n) \in Seq(Char)
         /\ Len(Without(Contents(b), k, n)) = ReadableBytes(b) - n
         /\ \A i \in 1 .. ReadableBytes(b) - n :
              Without(Contents(b), k, n)[i]
                = IF i <= k THEN Contents(b)[i] ELSE Contents(b)[i + n]
<1>1. Contents(b) \in Seq(Char) /\ Len(Contents(b)) = ReadableBytes(b)
  BY ContentsType
<1>2. PICK s \in Seq(Char) : s = Contents(b)
  BY <1>1
<1>3. k + n <= Len(s)
  BY <1>1, <1>2
<1>4. /\ Without(s, k, n) \in Seq(Char)
      /\ Len(Without(s, k, n)) = Len(s) - n
      /\ \A i \in 1 .. Len(s) - n :
           Without(s, k, n)[i] = IF i <= k THEN s[i] ELSE s[i + n]
  BY <1>3, CutOut
<1>5. Len(s) = ReadableBytes(b)
  BY <1>1, <1>2
<1> QED
  BY <1>2, <1>4, <1>5, Zenon

\* erase cuts bytes out of the middle, or takes them from the front.
LEMMA EraseCuts ==
  ASSUME NEW b, Valid(b), NEW start \in Nat, NEW len \in Nat,
         b.readIndex <= start, start + len <= b.writeIndex
  PROVE  LET k == start - b.readIndex
         IN  /\ Valid(Erase(b, start, len))
             /\ k \in Nat /\ k + len <= Len(Contents(b))
             /\ Contents(Erase(b, start, len)) = Without(Contents(b), k, len)
<1> DEFINE k == start - b.readIndex
           left == Without(Contents(b), k, len)
           f == Erase(b, start, len)
<1>1. /\ b.cells \in [Nat -> Char]
      /\ b.size \in Nat /\ b.readIndex \in Nat /\ b.writeIndex \in Nat
      /\ 8 <= b.readIndex /\ b.readIndex <= b.writeIndex /\ b.writeIndex <= b.size
      /\ ReadableBytes(b) = b.writeIndex - b.readIndex /\ ReadableBytes(b) \in Nat
  BY ValidParts
<1>2. /\ Contents(b) \in Seq(Char) /\ Len(Contents(b)) = ReadableBytes(b)
      /\ \A i \in 1 .. ReadableBytes(b) : Contents(b)[i] = b.cells[b.readIndex + i - 1]
  BY ContentsType
<1>3. k \in Nat /\ start = b.readIndex + k /\ k + len <= Len(Contents(b))
  BY <1>1, <1>2, SMTT(30)
<1> HIDE DEF k
<1>4. /\ left \in Seq(Char) /\ Len(left) = ReadableBytes(b) - len
      /\ \A i \in 1 .. ReadableBytes(b) - len :
           left[i] = IF i <= k THEN Contents(b)[i] ELSE Contents(b)[i + len]
  <2>1. k + len <= ReadableBytes(b)
    BY <1>2, <1>3
  <2>2. PICK m \in Nat : m = k
    BY <1>3
  <2>3. /\ Without(Contents(b), m, len) \in Seq(Char)
        /\ Len(Without(Contents(b), m, len)) = ReadableBytes(b) - len
        /\ \A i \in 1 .. ReadableBytes(b) - len :
             Without(Contents(b), m, len)[i]
               = IF i <= m THEN Contents(b)[i] ELSE Contents(b)[i + len]
    BY <2>1, <2>2, CutOutContents
  <2> QED
    BY <2>2, <2>3
<1> HIDE DEF left
<1>5. CASE start = b.readIndex
  <2>1. f = Retrieve(b, len) /\ k = 0 /\ len <= ReadableBytes(b)
    <3>1. f = Retrieve(b, len)
      BY <1>5 DEF Erase
    <3>2. k = 0
      BY <1>1, <1>5 DEF k
    <3> HIDE DEF f
    <3> QED
      BY <1>1, <1>2, <1>3, <3>1, <3>2
  <2>2. Valid(f)
    BY <2>1, RetrieveTakes
  <2>3. Contents(f) = SubSeq(Contents(b), len + 1, Len(Contents(b)))
    BY <2>1, RetrieveTakes
  <2>4. SubSeq(Contents(b), 1, 0) = <<>>
    BY SubSeqEmpty
  <2>5. SubSeq(Contents(b), len + 1, Len(Contents(b))) \in Seq(Char)
    BY <1>2, <1>3, <2>1, CutInTwo
  <2>6. left = SubSeq(Contents(b), len + 1, Len(Contents(b)))
    BY <2>1, <2>4, <2>5, ConcatEmptySeq DEF left, Without
  <2> QED
    BY <1>3, <2>2, <2>3, <2>6 DEF k, left
<1>6. CASE start # b.readIndex
  <2> DEFINE new == Shifted(b.cells, start, len)
  <2>1. /\ new \in [Nat -> Char]
        /\ \A i \in Nat : i < start => new[i] = b.cells[i]
        /\ \A i \in Nat : i >= start => new[i] = b.cells[i + len]
    <3>1. b.cells \in [Nat -> Char]
      BY <1>1
    <3> QED
      BY <3>1, ShiftedCells
  <2>2. f = Shortened(b, start, len)
    BY <1>6 DEF Erase
  <2>3. f.cells = new /\ f.size = b.size - len /\ f.readIndex = b.readIndex
        /\ f.writeIndex = b.writeIndex - len
    BY <2>2 DEF Shortened
  <2> HIDE DEF new
  <2>4. Valid(f)
    <3>1. /\ b.size - len \in Nat /\ b.writeIndex - len \in Nat
          /\ b.readIndex <= b.writeIndex - len /\ b.writeIndex - len <= b.size - len
      BY <1>1
    <3>2. Valid([cells |-> new, size |-> b.size - len, readIndex |-> b.readIndex,
                 writeIndex |-> b.writeIndex - len])
      BY <1>1, <2>1, <3>1, ValidRecord
    <3> QED
      BY <2>2, <3>2 DEF Shortened, new
  <2> HIDE DEF f
  <2>5. ReadableBytes(f) = ReadableBytes(b) - len
    BY <1>1, <2>3 DEF ReadableBytes
  <2>6. ASSUME NEW i \in 1 .. ReadableBytes(f)
        PROVE  f.cells[f.readIndex + i - 1] = left[i]
    <3>1. i \in 1 .. ReadableBytes(b) - len /\ i \in Nat /\ 1 <= i
      BY <1>1, <2>5
    <3>4. start = b.readIndex + k /\ k \in Nat /\ b.readIndex \in Nat /\ ReadableBytes(b) \in Nat
      BY <1>1, <1>3
    <3>2. CASE i <= k
      <4>1. i \in 1 .. ReadableBytes(b) /\ b.readIndex + i - 1 \in Nat
            /\ b.readIndex + i - 1 < start
        BY <3>1, <3>2, <3>4
      <4>2. left[i] = Contents(b)[i]
        BY <1>4, <3>1, <3>2
      <4>3. Contents(b)[i] = b.cells[b.readIndex + i - 1]
        BY <1>2, <4>1
      <4>4. new[b.readIndex + i - 1] = b.cells[b.readIndex + i - 1]
        BY <2>1, <4>1
      <4> QED
        BY <2>3, <4>2, <4>3, <4>4
    <3>3. CASE ~(i <= k)
      <4>1. i + len \in 1 .. ReadableBytes(b) /\ b.readIndex + i - 1 \in Nat
            /\ b.readIndex + i - 1 >= start
            /\ (b.readIndex + i - 1) + len = b.readIndex + (i + len) - 1
        BY <3>1, <3>3, <3>4
      <4>2. left[i] = Contents(b)[i + len]
        BY <1>4, <3>1, <3>3
      <4>3. Contents(b)[i + len] = b.cells[b.readIndex + (i + len) - 1]
        BY <1>2, <4>1
      <4>4. new[b.readIndex + i - 1] = b.cells[(b.readIndex + i - 1) + len]
        BY <2>1, <4>1
      <4> QED
        BY <2>3, <4>1, <4>2, <4>3, <4>4
    <3> QED
      BY <3>2, <3>3
  <2>7. Contents(f) = left
    BY <1>4, <2>4, <2>5, <2>6, ContentsAre
  <2> QED
    BY <1>3, <2>4, <2>7 DEF k, left, f
<1> QED
  BY <1>5, <1>6

-----------------------------------------------------------------------------
\* Every operation keeps the indices in the vector and is an operation of the
\* queue of bytes.
LEMMA EveryStep ==
  ASSUME Valid(buf), [BufferNext]_buf
  PROVE  Valid(buf') /\ [Queue!Next]_(Contents(buf))
<1> DEFINE c == Contents(buf)
<1>1. c \in Seq(Char) /\ Len(c) = ReadableBytes(buf) /\ ReadableBytes(buf) \in Nat
  BY ContentsType
<1>2. c' = Contents(buf')
  BY DEF Contents, ReadableBytes
<1>3. ASSUME NEW data \in Seq(Char), c' = c \o data  PROVE Queue!Next
  BY <1>3 DEF Queue!Next, Queue!Put
<1>4. ASSUME NEW n \in Nat, n <= Len(c), c' = SubSeq(c, n + 1, Len(c))  PROVE Queue!Next
  BY <1>4 DEF Queue!Next, Queue!Take
<1>5. ASSUME NEW k \in Nat, NEW n \in Nat, k + n <= Len(c), c' = Without(c, k, n)
      PROVE  Queue!Next
  BY <1>5 DEF Queue!Next, Queue!Cut, Without
<1> HIDE DEF c
<1>6. CASE DoAppend
  <2>1. PICK data \in Seq(Char) : buf' = Append_(buf, data)
    BY <1>6 DEF DoAppend
  <2>2. Valid(buf') /\ c' = c \o data
    BY <1>2, <2>1, AppendAppends DEF c
  <2> QED
    BY <1>3, <2>2 DEF c
<1>7. CASE DoReadFd
  <2>1. PICK data \in Seq(Char) : buf' = ReadInto(buf, data)
    BY <1>7 DEF DoReadFd
  <2>2. Valid(buf') /\ c' = c \o data
    BY <1>2, <2>1, ReadIntoAppends DEF c
  <2> QED
    BY <1>3, <2>2 DEF c
<1>8. CASE DoRetrieve
  <2>1. PICK n \in Nat : n <= ReadableBytes(buf) /\ buf' = Retrieve(buf, n)
    BY <1>8 DEF DoRetrieve
  <2>2. Valid(buf') /\ c' = SubSeq(c, n + 1, Len(c))
    BY <1>2, <2>1, RetrieveTakes DEF c
  <2> QED
    BY <1>1, <1>4, <2>1, <2>2 DEF c
<1>9. CASE DoRetrieveAll
  <2>1. Valid(buf') /\ c' = <<>>
    BY <1>2, <1>9, RetrieveAllTakesAll DEF DoRetrieveAll
  <2>2. SubSeq(c, Len(c) + 1, Len(c)) = <<>>
    BY <1>1, SubSeqEmpty
  <2>3. Len(c) \in Nat /\ Len(c) <= Len(c) /\ c' = SubSeq(c, Len(c) + 1, Len(c))
    BY <1>1, <2>1, <2>2
  <2> QED
    BY <1>4, <2>1, <2>3 DEF c
<1>10. CASE DoErase
  <2>1. PICK start \in Nat, len \in Nat :
          /\ buf.readIndex <= start /\ start + len <= buf.writeIndex
          /\ buf' = Erase(buf, start, len)
    BY <1>10 DEF DoErase
  <2> DEFINE k == start - buf.readIndex
  <2>2. /\ Valid(buf') /\ k \in Nat /\ k + len <= Len(c)
        /\ c' = Without(c, k, len)
    BY <1>2, <2>1, EraseCuts DEF c
  <2> HIDE DEF k
  <2> QED
    BY <1>5, <2>2 DEF c
<1>11. CASE UNCHANGED buf
  <2>1. buf' = buf /\ c' = c
    BY <1>2, <1>11 DEF c
  <2> QED
    BY <2>1 DEF c
<1> QED
  BY <1>6, <1>7, <1>8, <1>9, <1>10, <1>11 DEF BufferNext

\* A new buffer is valid and holds nothing.
LEMMA NewBuffer ==
  ASSUME BufferInit
  PROVE  Valid(buf) /\ Queue!Init
<1> USE DEF kCheapPrepend, kInitialSize
<1>1. Valid(buf) /\ ReadableBytes(buf) = 0
  BY DEF BufferInit, Valid, Buffers, ReadableBytes
<1>2. Contents(buf) \in Seq(Char) /\ Len(Contents(buf)) = 0
  BY <1>1, ContentsType
<1> QED
  BY <1>1, <1>2 DEF Queue!Init

\* The read and write indices never leave the vector nor cross, whatever is
\* appended, read, retrieved and erased (Buffer.cc, Buffer.h).
THEOREM IndicesAlwaysValid == BufferSpec => []IndicesValid
<1>1. BufferInit => IndicesValid
  BY NewBuffer DEF IndicesValid
<1>2. IndicesValid /\ [BufferNext]_buf => IndicesValid'
  <2>1. Valid(buf') <=> IndicesValid'
    BY DEF IndicesValid
  <2> QED
    BY <2>1, EveryStep DEF IndicesValid
<1> QED
  BY <1>1, <1>2, PTL DEF BufferSpec

\* The assert of ensureWritableBytes never fails: when the data is moved to the
\* front there is room in front of it (Buffer.cc:64).
THEOREM MoveAlwaysHasRoom == BufferSpec => []MoveHasRoom
<1>1. IndicesValid => MoveHasRoom
  BY ValidParts DEF IndicesValid, MoveHasRoom, MustGrow, kCheapPrepend
<1> QED
  BY <1>1, IndicesAlwaysValid, PTL

\* Whatever is moved, grown and wrapped, the bytes are read in the order they
\* were written, each of them once (Buffer.cc, Buffer.h).
THEOREM BufferIsAQueue == BufferSpec => ImplementsByteQueue
<1>1. BufferInit => Queue!Init
  BY NewBuffer
<1>2. IndicesValid /\ [BufferNext]_buf => [Queue!Next]_(Contents(buf))
  BY EveryStep DEF IndicesValid
<1> QED
  BY <1>1, <1>2, IndicesAlwaysValid, PTL DEF BufferSpec, ImplementsByteQueue, Queue!Spec

-----------------------------------------------------------------------------
(* Serializer.                                                             *)

\* The first part of a stream, and what is left of it.
LEMMA FrontAndRest ==
  ASSUME NEW S, NEW a \in Seq(S), NEW b \in Seq(S)
  PROVE  /\ SubSeq(a \o b, 1, Len(a)) = a
         /\ Rest(a \o b, Len(a)) = b
         /\ a \o b \in Seq(S) /\ Len(a \o b) = Len(a) + Len(b)
<1>1. a \o b \in Seq(S) /\ Len(a \o b) = Len(a) + Len(b)
  OBVIOUS
<1>2. Len(a) \in Nat /\ Len(b) \in Nat
  OBVIOUS
<1>3. SubSeq(a \o b, 1, Len(a)) = a
  <2> DEFINE s == SubSeq(a \o b, 1, Len(a))
  <2>1. s \in Seq(S) /\ Len(s) = Len(a)
    BY <1>1, <1>2
  <2>2. \A i \in 1 .. Len(a) : s[i] = a[i]
    BY <1>1, <1>2
  <2> HIDE DEF s
  <2>3. s = a
    BY <2>1, <2>2, SeqEqual
  <2> QED BY <2>3 DEF s
<1>4. Rest(a \o b, Len(a)) = b
  <2> DEFINE s == SubSeq(a \o b, Len(a) + 1, Len(a \o b))
  <2>1. s \in Seq(S) /\ Len(s) = Len(b)
    BY <1>1, <1>2
  <2>2. \A i \in 1 .. Len(b) : s[i] = b[i]
    BY <1>1, <1>2
  <2> HIDE DEF s
  <2>3. s = b
    BY <2>1, <2>2, SeqEqual
  <2> QED BY <2>3 DEF s, Rest
<1> QED BY <1>1, <1>3, <1>4

\* Either byte order, applied twice, changes nothing (reverse2LittleEndian).
LEMMA OrderedTwice ==
  ASSUME NEW b \in Seq(Byte)
  PROVE  Ordered(b) \in Seq(Byte) /\ Len(Ordered(b)) = Len(b) /\ Ordered(Ordered(b)) = b
<1>1. Reversed(b) \in Seq(Byte) /\ Len(Reversed(b)) = Len(b)
  BY DEF Reversed
<1>2. Reversed(Reversed(b)) = b
  <2> DEFINE r == Reversed(b)
             s == Reversed(r)
  <2>1. \A i \in 1 .. Len(b) : r[i] = b[Len(b) + 1 - i]
    BY DEF Reversed
  <2>2. r \in Seq(Byte) /\ Len(r) = Len(b)
    BY <1>1
  <2> HIDE DEF r
  <2>3. s \in Seq(Byte) /\ Len(s) = Len(b)
    BY <2>2 DEF Reversed
  <2>4. \A i \in 1 .. Len(b) : s[i] = r[Len(b) + 1 - i]
    BY <2>2 DEF Reversed
  <2> HIDE DEF s
  <2>5. \A i \in 1 .. Len(b) : s[i] = b[i]
    <3> SUFFICES ASSUME NEW i \in 1 .. Len(b) PROVE s[i] = b[i]
      OBVIOUS
    <3>1. Len(b) + 1 - i \in 1 .. Len(b) /\ Len(b) + 1 - (Len(b) + 1 - i) = i
      OBVIOUS
    <3> QED BY <2>1, <2>4, <3>1
  <2>6. s = b
    BY <2>3, <2>5, SeqEqual
  <2> QED BY <2>6 DEF s, r
<1> QED BY <1>1, <1>2 DEF Ordered

-----------------------------------------------------------------------------
(* The length of a string.                                                 *)

\* Two bytes hold any length up to MaxLength (inputObj, outputObj).
LEMMA MarkHolds ==
  ASSUME NEW n \in 0 .. MaxLength
  PROVE  Mark(n) \in Seq(Byte) /\ Len(Mark(n)) = 2 /\ MarkValue(Mark(n)) = n
<1> DEFINE q == n \div Base
           r == n % Base
<1>1. Base \in Nat /\ Base > 2
  BY BaseAssumption
<1>2. Base * Base \in Nat
  BY <1>1, Z3
<1>3. n \in Nat /\ n < Base * Base
  BY <1>2 DEF MaxLength
<1>4. q \in Nat /\ r \in Nat /\ r < Base
  BY <1>1, <1>3, Z3
<1>5. n = Base * q + r
  BY <1>1, <1>3, Z3
<1>6. q < Base
  <2> HIDE DEF q, r
  <2> SUFFICES ASSUME q >= Base PROVE FALSE
    BY <1>1, <1>4
  <2>1. PICK d \in Nat : q = Base + d
    <3>1. q - Base \in Nat /\ q = Base + (q - Base)
      BY <1>1, <1>4
    <3> QED BY <3>1
  <2>2. Base * q = Base * Base + Base * d
    BY <1>1, <2>1, Z3
  <2>3. Base * d \in Nat /\ Base * q \in Nat
    BY <1>1, <1>4, <2>1, Z3
  <2> QED BY <1>2, <1>3, <1>4, <1>5, <2>2, <2>3
<1>7. q % Base = q
  <2> HIDE DEF q, r
  <2> QED BY <1>1, <1>4, <1>6, Z3
<1>8. Mark(n) = <<r, q>>
  BY <1>7 DEF Mark
<1> HIDE DEF q, r
<1>9. r \in Byte /\ q \in Byte
  BY <1>1, <1>4, <1>6 DEF Byte
<1>10. Mark(n) \in Seq(Byte) /\ Len(Mark(n)) = 2
  BY <1>8, <1>9
<1>11. MarkValue(Mark(n)) = r + Base * q
  BY <1>8 DEF MarkValue
<1>12. Base * q \in Nat
  BY <1>1, <1>4, Z3
<1> QED BY <1>4, <1>5, <1>10, <1>11, <1>12

\* A length up to MaxLength is what a uint16_t keeps of it (inputObj).
LEMMA LengthKept ==
  ASSUME NEW n \in 0 .. MaxLength
  PROVE  (n % (MaxLength + 1)) = n
<1> DEFINE m == MaxLength
<1>1. m \in Nat
  <2>1. Base \in Nat /\ Base > 2
    BY BaseAssumption
  <2>2. Base * Base \in Nat /\ Base * Base > 0
    BY <2>1, Z3
  <2> QED BY <2>2 DEF MaxLength
<1>2. n \in Nat /\ n <= m
  BY <1>1
<1> HIDE DEF m
<1>3. n < m + 1
  BY <1>1, <1>2
<1>4. (n % (m + 1)) = n
  BY <1>1, <1>2, <1>3, Z3
<1> QED BY <1>4 DEF m

\* A string without a NUL is as long as strlen says.
LEMMA StrlenIsLen ==
  ASSUME NEW str \in Seq(Byte), \A i \in 1 .. Len(str) : str[i] # 0
  PROVE  Strlen(str) = Len(str)
<1> DEFINE P(n) == /\ \A i \in 1 .. n : str[i] # 0
                   /\ n < Len(str) => str[n + 1] = 0
<1>1. Len(str) \in 0 .. Len(str) /\ P(Len(str))
  OBVIOUS
<1>2. \A n \in 0 .. Len(str) : P(n) => n = Len(str)
  <2> SUFFICES ASSUME NEW n \in 0 .. Len(str), P(n), n # Len(str) PROVE FALSE
    OBVIOUS
  <2>1. n + 1 \in 1 .. Len(str)
    OBVIOUS
  <2> QED BY <2>1
<1>3. Strlen(str) = CHOOSE n \in 0 .. Len(str) : P(n)
  BY DEF Strlen
<1> HIDE DEF P
<1>4. (CHOOSE n \in 0 .. Len(str) : P(n)) \in 0 .. Len(str)
      /\ P(CHOOSE n \in 0 .. Len(str) : P(n))
  BY <1>1
<1> QED BY <1>2, <1>3, <1>4

-----------------------------------------------------------------------------
(***************************************************************************)
(* An object that was put in is taken out as it was, whatever follows it   *)
(* (inputObj, outputObj).                                                  *)
(***************************************************************************)
THEOREM ObjectsRoundTrip ==
  ASSUME NEW b \in Seq(Byte), NEW rest \in Seq(Byte), NEW old
  PROVE  GetObject(PutObject(<<>>, b) \o rest, Len(b), old)
           = [ok |-> TRUE, value |-> b, rest |-> rest]
<1> DEFINE a == Ordered(b)
<1>1. a \in Seq(Byte) /\ Len(a) = Len(b) /\ Ordered(a) = b
  BY OrderedTwice
<1> HIDE DEF a
<1>2. PutObject(<<>>, b) = a
  BY <1>1 DEF PutObject, a
<1>3. /\ SubSeq(a \o rest, 1, Len(b)) = a
      /\ Rest(a \o rest, Len(b)) = rest
      /\ Len(a \o rest) = Len(b) + Len(rest)
  BY <1>1, FrontAndRest
<1>4. Len(a \o rest) >= Len(b)
  BY <1>3
<1> QED BY <1>1, <1>2, <1>3, <1>4 DEF GetObject

(***************************************************************************)
(* A string of at most 65535 bytes, none of them NUL, is taken out as it   *)
(* was put in, and the assert of Buffer::retrieve holds, whatever follows  *)
(* it (inputObj, outputObj).  Longer ones are cut, and the ones with a NUL *)
(* end there: for these the theorem says nothing.                          *)
(***************************************************************************)
THEOREM StringsRoundTrip ==
  ASSUME NEW str \in Seq(Byte), NEW rest \in Seq(Byte),
         Len(str) <= MaxLength, \A i \in 1 .. Len(str) : str[i] # 0
  PROVE  GetString(PutString(<<>>, str) \o rest)
           = [ok |-> TRUE, value |-> str, rest |-> rest]
<1> DEFINE n == Len(str)
           a == Ordered(Mark(n))
<1>1. Base \in Nat /\ Base > 2 /\ Base * Base \in Nat /\ MaxLength + 1 = Base * Base
  <2>1. Base \in Nat /\ Base > 2
    BY BaseAssumption
  <2>2. Base * Base \in Nat
    BY <2>1, Z3
  <2> QED BY <2>1, <2>2 DEF MaxLength
<1>2. n \in 0 .. MaxLength /\ Strlen(str) = n
  BY <1>1, StrlenIsLen
<1>3. (n % (MaxLength + 1)) = n
  BY <1>2, LengthKept
<1>4. Mark(n) \in Seq(Byte) /\ Len(Mark(n)) = 2 /\ MarkValue(Mark(n)) = n
  BY <1>2, MarkHolds
<1>5. a \in Seq(Byte) /\ Len(a) = 2 /\ Ordered(a) = Mark(n)
  BY <1>4, OrderedTwice
<1>6. SubSeq(str, 1, n) = str
  OBVIOUS
<1>7. PutString(<<>>, str) = a \o str
  <2>1. PutString(<<>>, str) = (<<>> \o a) \o SubSeq(str, 1, n)
    BY <1>2, <1>3 DEF PutString
  <2> HIDE DEF a
  <2>2. <<>> \o a = a
    BY <1>5
  <2> QED BY <1>6, <2>1, <2>2
<1> HIDE DEF a
<1> DEFINE tail == str \o rest
           stream == a \o tail
<1>8. PutString(<<>>, str) \o rest = stream
  <2>1. (a \o str) \o rest = a \o (str \o rest)
    BY <1>5, SMTT(60)
  <2> QED BY <1>7, <2>1
<1>9. tail \in Seq(Byte) /\ Len(tail) = n + Len(rest)
  OBVIOUS
<1>10. SubSeq(tail, 1, n) = str /\ Rest(tail, n) = rest
  BY FrontAndRest
<1> HIDE DEF tail
<1>11. /\ SubSeq(stream, 1, 2) = a
       /\ Rest(stream, 2) = tail
       /\ Len(stream) = 2 + Len(tail)
  <2>1. /\ SubSeq(a \o tail, 1, Len(a)) = a
        /\ Rest(a \o tail, Len(a)) = tail
        /\ Len(a \o tail) = Len(a) + Len(tail)
    BY <1>5, <1>9, FrontAndRest
  <2> QED BY <1>5, <2>1
<1> HIDE DEF stream
<1>12. MarkValue(Ordered(SubSeq(stream, 1, 2))) = n
  BY <1>4, <1>5, <1>11
<1>13. Len(stream) >= 2 /\ Len(tail) >= n /\ n \in Nat
  BY <1>9, <1>11
<1>14. GetString(stream) = [ok |-> TRUE, value |-> SubSeq(tail, 1, n), rest |-> Rest(tail, n)]
  <2>1. ~(Len(stream) < 2) /\ ~(Len(tail) < n)
    BY <1>9, <1>13, <1>11
  <2> QED BY <2>1, <1>11, <1>12 DEF GetString
<1> QED BY <1>8, <1>10, <1>14

-----------------------------------------------------------------------------
(* Values of any type, and tuples of them.                                 *)

\* What is put goes behind what is there (inputObj).
LEMMA PutIsAppended ==
  ASSUME NEW stream \in Seq(Byte), NEW b \in Seq(Byte)
  PROVE  PutObject(stream, b) = stream \o PutObject(<<>>, b)
         /\ PutObject(<<>>, b) \in Seq(Byte)
BY OrderedTwice DEF PutObject

\* Likewise of a string.
LEMMA StringIsAppended ==
  ASSUME NEW stream \in Seq(Byte), NEW str \in Seq(Byte),
         Len(str) <= MaxLength, \A i \in 1 .. Len(str) : str[i] # 0
  PROVE  PutString(stream, str) = stream \o PutString(<<>>, str)
         /\ PutString(<<>>, str) \in Seq(Byte)
<1> DEFINE a == Ordered(Mark(Strlen(str)))
           t == SubSeq(str, 1, Strlen(str) % (MaxLength + 1))
<1>1. Strlen(str) = Len(str) /\ Len(str) \in 0 .. MaxLength
  <2>1. Base * Base \in Nat
    BY BaseAssumption, Z3
  <2> QED BY <2>1, StrlenIsLen DEF MaxLength
<1>2. a \in Seq(Byte)
  BY <1>1, MarkHolds, OrderedTwice
<1>3. t \in Seq(Byte)
  <2>1. (Len(str) % (MaxLength + 1)) = Len(str)
    BY <1>1, LengthKept
  <2>2. t = SubSeq(str, 1, Len(str))
    BY <1>1, <2>1
  <2> HIDE DEF t
  <2>3. SubSeq(str, 1, Len(str)) \in Seq(Byte)
    OBVIOUS
  <2> QED BY <2>2, <2>3
<1>4. PutString(stream, str) = (stream \o a) \o t /\ PutString(<<>>, str) = (<<>> \o a) \o t
  BY DEF PutString
<1> HIDE DEF a, t
<1>5. <<>> \o a = a
  BY <1>2
<1>6. (stream \o a) \o t = stream \o (a \o t)
  BY <1>2, <1>3, SMTT(60)
<1>7. a \o t \in Seq(Byte)
  BY <1>2, <1>3
<1> QED BY <1>4, <1>5, <1>6, <1>7

\* What holds at 0, and at each index after one where it holds, holds at every index.
LEMMA EveryIndex ==
  ASSUME NEW n \in Nat, NEW S, 0 \in S, \A i \in 0 .. n - 1 : i \in S => i + 1 \in S
  PROVE  0 .. n \subseteq S
<1> SUFFICES ASSUME ~(0 .. n \subseteq S) PROVE FALSE
  OBVIOUS
<1> DEFINE R == {ss \in Nat \X Nat : ss[1] < ss[2]}
           T == {i \in 0 .. n : i \notin S}
<1>1. IsWellFoundedOn(R, Nat)
  BY NatLessThanWellFounded DEF OpToRel
<1>2. T \subseteq Nat /\ T # {}
  OBVIOUS
<1>3. ASSUME NEW x \in Nat, NEW y \in Nat, <<y, x>> \notin R PROVE ~(y < x)
  BY <1>3
<1> HIDE DEF R
<1>4. \E x \in T : \A y \in T : <<y, x>> \notin R
  <2> HIDE DEF T
  <2> QED BY <1>1, <1>2, WFMin
<1>5. PICK x \in T : \A y \in T : ~(y < x)
  BY <1>2, <1>3, <1>4
<1>6. x # 0 /\ x - 1 \in 0 .. n - 1 /\ x - 1 \notin T
  BY <1>5
<1>7. x - 1 \in S /\ (x - 1) + 1 = x
  BY <1>6
<1> QED BY <1>5, <1>6, <1>7

\* The streams while arguments are packed, and what has been taken from one.
Packed(put, st, types, args) ==
  /\ put[0] = st
  /\ \A j \in 1 .. Len(types) : put[j] = Put(put[j - 1], types[j], args[j])

NextTaken(r, type) ==
  LET v == Get(r.rest, type, Zero(type))
  IN  [ok |-> r.ok /\ v.ok, value |-> Append(r.value, v.value), rest |-> v.rest]

Taken(get, st, types) ==
  /\ get[0] = [ok |-> TRUE, value |-> <<>>, rest |-> st]
  /\ \A j \in 1 .. Len(types) : get[j] = NextTaken(get[j - 1], types[j])

\* The arguments are packed one behind the other (packageArgs).
LEMMA PackedOneByOne ==
  ASSUME NEW st, NEW types, NEW args, Len(types) \in Nat
  PROVE  \E put : Packed(put, st, types, args) /\ PackageArgs(st, types, args) = put[Len(types)]
<1> DEFINE n == Len(types)
           Steps(f, m) ==
             f = [j \in 0 .. m |-> IF j = 0 THEN st ELSE Put(f[j - 1], types[j], args[j])]
           S == {m \in 0 .. n : \E f : Steps(f, m)}
<1>1. 0 \in S
  <2> DEFINE f == [j \in 0 .. 0 |-> st]
             g == [j \in 0 .. 0 |-> IF j = 0 THEN st ELSE Put(f[j - 1], types[j], args[j])]
  <2>1. f = g
    OBVIOUS
  <2> HIDE DEF f
  <2>2. Steps(f, 0)
    BY <2>1
  <2> HIDE DEF Steps
  <2> QED BY <2>2
<1>2. ASSUME NEW m \in 0 .. n - 1, m \in S PROVE m + 1 \in S
  <2>1. PICK f : Steps(f, m)
    BY <1>2
  <2> DEFINE g == [j \in 0 .. m + 1 |->
                     IF j = 0 THEN st ELSE Put(f[j - 1], types[j], args[j])]
  <2>2. \A j \in 0 .. m : g[j] = f[j]
    BY <2>1
  <2>3. g = [j \in 0 .. m + 1 |-> IF j = 0 THEN st ELSE Put(g[j - 1], types[j], args[j])]
    <3> DEFINE h == [j \in 0 .. m + 1 |->
                       IF j = 0 THEN st ELSE Put(g[j - 1], types[j], args[j])]
    <3>1. \A j \in 0 .. m + 1 : j # 0 => f[j - 1] = g[j - 1]
      <4> HIDE DEF g
      <4>1. \A j \in 0 .. m + 1 : j # 0 => j - 1 \in 0 .. m
        OBVIOUS
      <4> QED BY <2>2, <4>1
    <3>2. \A j \in 0 .. m + 1 : g[j] = h[j]
      BY <3>1
    <3> QED BY <3>2
  <2> HIDE DEF g
  <2>4. Steps(g, m + 1)
    BY <2>3
  <2> HIDE DEF Steps
  <2> QED BY <2>4
<1>3. n \in S
  <2>1. n \in Nat /\ \A m \in 0 .. n - 1 : m \in S => m + 1 \in S
    BY <1>2
  <2> HIDE DEF S, n
  <2>2. 0 .. n \subseteq S
    BY <1>1, <2>1, EveryIndex
  <2> QED BY <2>1, <2>2
<1> DEFINE put[i \in 0 .. Len(types)] == IF i = 0 THEN st ELSE Put(put[i - 1], types[i], args[i])
<1>4. put = [i \in 0 .. Len(types) |-> IF i = 0 THEN st ELSE Put(put[i - 1], types[i], args[i])]
  BY <1>3 DEF put
<1>5. PackageArgs(st, types, args) = put[Len(types)]
  BY DEF PackageArgs
<1> HIDE DEF put
<1>6. put[0] = st /\ \A j \in 1 .. Len(types) : put[j] = Put(put[j - 1], types[j], args[j])
  BY <1>4
<1> QED BY <1>5, <1>6 DEF Packed

\* What a variable that was value-initialised is set to, one after the other (getTuple).
LEMMA TakenOneByOne ==
  ASSUME NEW st, NEW types, Len(types) \in Nat
  PROVE  \E get : Taken(get, st, types) /\ GetTuple(st, types) = get[Len(types)]
<1> DEFINE n == Len(types)
           new == [ok |-> TRUE, value |-> <<>>, rest |-> st]
           Next_(r, j) == NextTaken(r, types[j])
           Steps(f, m) == f = [j \in 0 .. m |-> IF j = 0 THEN new ELSE Next_(f[j - 1], j)]
           S == {m \in 0 .. n : \E f : Steps(f, m)}
<1> DEFINE get[i \in 0 .. Len(types)] == IF i = 0 THEN new ELSE Next_(get[i - 1], i)
<1>1. GetTuple(st, types) = get[Len(types)]
  BY DEF GetTuple, NextTaken
<1> HIDE DEF new, Next_
<1>2. 0 \in S
  <2> DEFINE f == [j \in 0 .. 0 |-> new]
             g == [j \in 0 .. 0 |-> IF j = 0 THEN new ELSE Next_(f[j - 1], j)]
  <2>1. f = g
    OBVIOUS
  <2> HIDE DEF f
  <2>2. Steps(f, 0)
    BY <2>1
  <2> HIDE DEF Steps
  <2> QED BY <2>2
<1>3. ASSUME NEW m \in 0 .. n - 1, m \in S PROVE m + 1 \in S
  <2>1. PICK f : Steps(f, m)
    BY <1>3
  <2> DEFINE g == [j \in 0 .. m + 1 |-> IF j = 0 THEN new ELSE Next_(f[j - 1], j)]
  <2>2. \A j \in 0 .. m : g[j] = f[j]
    BY <2>1
  <2>3. g = [j \in 0 .. m + 1 |-> IF j = 0 THEN new ELSE Next_(g[j - 1], j)]
    <3>1. \A j \in 0 .. m + 1 : j # 0 => f[j - 1] = g[j - 1]
      BY <2>2
    <3> QED BY <3>1
  <2> HIDE DEF g
  <2>4. Steps(g, m + 1)
    BY <2>3
  <2> HIDE DEF Steps
  <2> QED BY <2>4
<1>4. n \in S
  <2>1. n \in Nat /\ \A m \in 0 .. n - 1 : m \in S => m + 1 \in S
    BY <1>3
  <2> HIDE DEF S, n
  <2>2. 0 .. n \subseteq S
    BY <1>2, <2>1, EveryIndex
  <2> QED BY <2>1, <2>2
<1>5. get = [i \in 0 .. Len(types) |-> IF i = 0 THEN new ELSE Next_(get[i - 1], i)]
  BY <1>4 DEF get
<1> HIDE DEF get
<1>6. get[0] = new /\ \A j \in 1 .. Len(types) : get[j] = Next_(get[j - 1], j)
  BY <1>5
<1> QED BY <1>1, <1>6 DEF new, Next_, Taken

\* A value of any type goes behind what is there, and is taken out as it was.
LEMMA ValuesRoundTrip ==
  ASSUME NEW type, NEW v, IsValue(v, type)
  PROVE  /\ Put(<<>>, type, v) \in Seq(Byte)
         /\ \A stream \in Seq(Byte) : Put(stream, type, v) = stream \o Put(<<>>, type, v)
         /\ \A rest \in Seq(Byte) : \A old :
              Get(Put(<<>>, type, v) \o rest, type, old)
                = [ok |-> TRUE, value |-> v, rest |-> rest]
<1>1. CASE type = String
  <2>1. v \in Seq(Byte) /\ Len(v) <= MaxLength /\ \A i \in 1 .. Len(v) : v[i] # 0
    BY <1>1 DEF IsValue, IsText
  <2>2. PutString(<<>>, v) \in Seq(Byte)
    BY <2>1, StringIsAppended, EmptySeq
  <2>3. ASSUME NEW stream \in Seq(Byte) PROVE PutString(stream, v) = stream \o PutString(<<>>, v)
    BY <2>1, StringIsAppended
  <2>4. ASSUME NEW rest \in Seq(Byte)
        PROVE  GetString(PutString(<<>>, v) \o rest) = [ok |-> TRUE, value |-> v, rest |-> rest]
    BY <2>1, StringsRoundTrip
  <2> QED BY <1>1, <2>2, <2>3, <2>4 DEF Put, Get
<1>2. CASE type # String
  <2>1. v \in Seq(Byte) /\ Len(v) = type
    BY <1>2 DEF IsValue
  <2>2. PutObject(<<>>, v) \in Seq(Byte)
    BY <2>1, PutIsAppended, EmptySeq
  <2>3. ASSUME NEW stream \in Seq(Byte) PROVE PutObject(stream, v) = stream \o PutObject(<<>>, v)
    BY <2>1, PutIsAppended
  <2>4. ASSUME NEW rest \in Seq(Byte), NEW old
        PROVE  GetObject(PutObject(<<>>, v) \o rest, type, old)
                 = [ok |-> TRUE, value |-> v, rest |-> rest]
    BY <2>1, ObjectsRoundTrip
  <2> QED BY <1>2, <2>2, <2>3, <2>4 DEF Put, Get
<1> QED BY <1>1, <1>2

\* What is put in front of two streams that are the same is what differs.
LEMMA SameFront ==
  ASSUME NEW a \in Seq(Byte), NEW b \in Seq(Byte), NEW c \in Seq(Byte), a \o b = a \o c
  PROVE  b = c
<1>1. Rest(a \o b, Len(a)) = b /\ Rest(a \o c, Len(a)) = c
  BY FrontAndRest
<1> QED BY <1>1

\* Streams can be joined in any order.
LEMMA Associative ==
  ASSUME NEW a \in Seq(Byte), NEW b \in Seq(Byte), NEW c \in Seq(Byte)
  PROVE  (a \o b) \o c = a \o (b \o c) /\ b \o c \in Seq(Byte) /\ a \o b \in Seq(Byte)
BY SMTT(60)

\* Two streams, one behind the other, as a single value.
Joined(s, t) == s \o t

\* What is joined can be joined in any order.
LEMMA Joining ==
  ASSUME NEW a \in Seq(Byte), NEW b \in Seq(Byte), NEW c \in Seq(Byte)
  PROVE  Joined(Joined(a, b), c) = Joined(a, Joined(b, c)) /\ Joined(b, c) \in Seq(Byte)
BY SMTT(60) DEF Joined

(***************************************************************************)
(* The arguments of a call are taken out as they were put in, each of its  *)
(* own type (packageArgs, getTuple).                                       *)
(***************************************************************************)
THEOREM TuplesRoundTrip ==
  ASSUME NEW st \in Seq(Byte), NEW types, NEW args, Len(types) \in Nat,
         args \in Seq(Seq(Byte)), Len(args) = Len(types),
         \A i \in 1 .. Len(types) : IsValue(args[i], types[i])
  PROVE  \E packed \in Seq(Byte) :
           /\ PackageArgs(st, types, args) = st \o packed
           /\ GetTuple(packed, types) = [ok |-> TRUE, value |-> args, rest |-> <<>>]
<1> DEFINE n == Len(types)
<1>1. PICK put : Packed(put, st, types, args) /\ PackageArgs(st, types, args) = put[n]
  BY PackedOneByOne
<1>2. /\ put[0] = st
      /\ \A j \in 1 .. n : put[j] = Put(put[j - 1], types[j], args[j])
  BY <1>1 DEF Packed
<1> DEFINE p(j) == Put(<<>>, types[j], args[j])
<1>3. ASSUME NEW j \in 1 .. n
      PROVE  /\ p(j) \in Seq(Byte)
             /\ \A stream \in Seq(Byte) : Put(stream, types[j], args[j]) = stream \o p(j)
             /\ \A rest \in Seq(Byte) : \A old :
                  Get(p(j) \o rest, types[j], old) = [ok |-> TRUE, value |-> args[j], rest |-> rest]
  BY ValuesRoundTrip
<1> HIDE DEF p
<1>4. \A j \in 0 .. n : put[j] \in Seq(Byte)
  <2> DEFINE S == {j \in 0 .. n : put[j] \in Seq(Byte)}
  <2>1. 0 \in S
    BY <1>2
  <2>2. ASSUME NEW m \in 0 .. n - 1, m \in S PROVE m + 1 \in S
    <3>1. m + 1 \in 1 .. n /\ (m + 1) - 1 = m /\ put[m] \in Seq(Byte)
      BY <2>2
    <3>2. put[m + 1] = put[m] \o p(m + 1) /\ p(m + 1) \in Seq(Byte)
      BY <1>2, <1>3, <3>1
    <3>3. put[m + 1] \in Seq(Byte)
      BY <3>1, <3>2, Associative
    <3> QED BY <3>1, <3>3
  <2>3. n \in Nat /\ \A m \in 0 .. n - 1 : m \in S => m + 1 \in S
    BY <2>2
  <2>4. 0 .. n \subseteq S
    <3> HIDE DEF S, n
    <3> QED BY <2>1, <2>3, EveryIndex
  <2> QED BY <2>4
<1>5. \A j \in 1 .. n : put[j] = put[j - 1] \o p(j)
  <2> SUFFICES ASSUME NEW j \in 1 .. n PROVE put[j] = put[j - 1] \o p(j)
    OBVIOUS
  <2>1. put[j - 1] \in Seq(Byte)
    BY <1>4
  <2> QED BY <1>2, <1>3, <2>1
<1> DEFINE Leads(i, j) == \E t \in Seq(Byte) : put[j] = put[i] \o t
<1>6. ASSUME NEW i \in 0 .. n PROVE Leads(i, n)
  <2>1. Leads(i, i)
    <3>1. put[i] \in Seq(Byte)
      BY <1>4
    <3>2. put[i] = put[i] \o <<>>
      BY <3>1
    <3> QED BY <3>2, EmptySeq
  <2>2. ASSUME NEW m \in 0 .. n - 1, Leads(i, m) PROVE Leads(i, m + 1)
    <3>1. m + 1 \in 1 .. n /\ (m + 1) - 1 = m
      OBVIOUS
    <3>2. PICK t \in Seq(Byte) : put[m] = put[i] \o t
      BY <2>2
    <3>3. put[m + 1] = put[m] \o p(m + 1) /\ p(m + 1) \in Seq(Byte) /\ put[i] \in Seq(Byte)
      BY <1>3, <1>4, <1>5, <3>1
    <3>4. (put[i] \o t) \o p(m + 1) = put[i] \o (t \o p(m + 1)) /\ t \o p(m + 1) \in Seq(Byte)
      <4> DEFINE a == put[i]
                 q == p(m + 1)
      <4>1. q \in Seq(Byte) /\ a \in Seq(Byte)
        BY <3>3
      <4> HIDE DEF a, q
      <4>2. Joined(Joined(a, t), q) = Joined(a, Joined(t, q)) /\ Joined(t, q) \in Seq(Byte)
        BY <3>2, <4>1, Joining
      <4> QED BY <4>2, Zenon DEF a, q, Joined
    <3> QED BY <3>2, <3>3, <3>4
  <2> HIDE DEF Leads
  <2> DEFINE S == {j \in 0 .. n : j < i \/ Leads(i, j)}
  <2>3. 0 \in S
    BY <2>1
  <2>4. n \in Nat /\ \A m \in 0 .. n - 1 : m \in S => m + 1 \in S
    <3>1. ASSUME NEW m \in 0 .. n - 1, m \in S PROVE m + 1 \in S
      <4>1. CASE m < i
        BY <2>1, <4>1
      <4>2. CASE m >= i
        BY <2>2, <3>1, <4>2
      <4> QED BY <4>1, <4>2
    <3> QED BY <3>1
  <2>5. 0 .. n \subseteq S
    <3> HIDE DEF S, n
    <3> QED BY <2>3, <2>4, EveryIndex
  <2> QED BY <2>5
<1>7. PICK packed \in Seq(Byte) : put[n] = st \o packed
  <2>1. Leads(0, n)
    BY <1>6
  <2> QED BY <1>2, <2>1
<1>8. PICK get : Taken(get, packed, types) /\ GetTuple(packed, types) = get[n]
  BY TakenOneByOne
<1> DEFINE Good(j) == \E rest \in Seq(Byte) :
             /\ put[n] = put[j] \o rest
             /\ get[j] = [ok |-> TRUE, value |-> SubSeq(args, 1, j), rest |-> rest]
           S == {j \in 0 .. n : Good(j)}
<1>9. 0 \in S
  <2>1. SubSeq(args, 1, 0) = <<>>
    OBVIOUS
  <2>2. get[0] = [ok |-> TRUE, value |-> SubSeq(args, 1, 0), rest |-> packed]
    BY <1>8, <2>1 DEF Taken
  <2>3. Good(0)
    BY <1>2, <1>7, <2>2
  <2> HIDE DEF Good
  <2> QED BY <2>3
<1>10. ASSUME NEW m \in 0 .. n - 1, m \in S PROVE m + 1 \in S
  <2> DEFINE j == m + 1
  <2>1. j \in 1 .. n /\ j \in 0 .. n /\ j - 1 = m
    OBVIOUS
  <2> HIDE DEF j
  <2>2. PICK rest \in Seq(Byte) :
          /\ put[n] = put[m] \o rest
          /\ get[m] = [ok |-> TRUE, value |-> SubSeq(args, 1, m), rest |-> rest]
    BY <1>10
  <2>3. PICK t \in Seq(Byte) : put[n] = put[j] \o t
    <3>1. Leads(j, n)
      <4> HIDE DEF Leads
      <4> QED BY <1>6, <2>1
    <3> QED BY <3>1
  <2>4. put[j] = put[m] \o p(j) /\ p(j) \in Seq(Byte) /\ put[m] \in Seq(Byte)
    <3>1. put[j] = put[j - 1] \o p(j)
      BY <1>5, <2>1
    <3>2. put[j - 1] = put[m]
      BY <2>1
    <3>3. p(j) \in Seq(Byte)
      BY <1>3, <2>1
    <3>4. put[m] \in Seq(Byte)
      BY <1>4
    <3> QED BY <3>1, <3>2, <3>3, <3>4
  <2>5. rest = p(j) \o t
    <3> DEFINE q == p(j)
    <3>0. q \in Seq(Byte) /\ put[m] \in Seq(Byte) /\ put[n] = (put[m] \o q) \o t
      BY <2>3, <2>4
    <3> DEFINE a == put[m]
    <3> HIDE DEF a, q, n
    <3>1. put[n] = a \o (q \o t) /\ q \o t \in Seq(Byte)
      <4>1. a \in Seq(Byte)
        BY <3>0 DEF a
      <4>2. (a \o q) \o t = a \o (q \o t) /\ q \o t \in Seq(Byte)
        BY <3>0, <4>1, Associative
      <4> QED BY <3>0, <4>2 DEF a
    <3>2. rest = q \o t
      BY <2>2, <3>0, <3>1, SameFront DEF a
    <3> QED BY <3>2 DEF q
  <2>6. Get(rest, types[j], Zero(types[j])) = [ok |-> TRUE, value |-> args[j], rest |-> t]
    BY <1>3, <2>1, <2>5
  <2>7. get[j] = [ok |-> TRUE, value |-> Append(SubSeq(args, 1, m), args[j]), rest |-> t]
    <3> DEFINE v == Get(get[m].rest, types[j], Zero(types[j]))
    <3>1. v = [ok |-> TRUE, value |-> args[j], rest |-> t]
      BY <2>2, <2>6
    <3>2. get[j] = [ok    |-> get[m].ok /\ v.ok,
                    value |-> Append(get[m].value, v.value),
                    rest  |-> v.rest]
      <4>1. get[j] = NextTaken(get[m], types[j])
        BY <1>8, <2>1 DEF Taken
      <4> QED BY <4>1 DEF NextTaken
    <3> HIDE DEF v
    <3> DEFINE ok == get[m].ok /\ v.ok
    <3>3. ok = TRUE
      BY <2>2, <3>1
    <3> HIDE DEF ok
    <3>4. get[j] = [ok |-> ok, value |-> Append(get[m].value, v.value), rest |-> v.rest]
      BY <3>2 DEF ok
    <3>5. get[m].value = SubSeq(args, 1, m) /\ v.value = args[j] /\ v.rest = t
      BY <2>2, <3>1
    <3> QED BY <3>3, <3>4, <3>5
  <2>8. Append(SubSeq(args, 1, m), args[j]) = SubSeq(args, 1, j)
    <3> DEFINE a == Append(SubSeq(args, 1, m), args[m + 1])
               b == SubSeq(args, 1, m + 1)
    <3>1. m + 1 \in 1 .. Len(args) /\ args[m + 1] \in Seq(Byte)
      OBVIOUS
    <3>2. a \in Seq(Seq(Byte)) /\ Len(a) = m + 1 /\ b \in Seq(Seq(Byte)) /\ Len(b) = m + 1
      BY <3>1
    <3>3. \A i \in 1 .. m + 1 : a[i] = b[i]
      BY <3>1
    <3> HIDE DEF a, b
    <3>4. a = b
      BY <3>2, <3>3, SeqEqual
    <3> QED BY <3>4 DEF a, b, j
  <2>9. Good(j)
    BY <2>3, <2>7, <2>8
  <2> HIDE DEF Good
  <2> QED BY <2>1, <2>9 DEF j
<1>11. n \in S
  <2>1. n \in Nat /\ \A m \in 0 .. n - 1 : m \in S => m + 1 \in S
    BY <1>10
  <2> HIDE DEF S, n
  <2>2. 0 .. n \subseteq S
    BY <1>9, <2>1, EveryIndex
  <2> QED BY <2>1, <2>2
<1>12. PICK rest \in Seq(Byte) :
         /\ put[n] = put[n] \o rest
         /\ get[n] = [ok |-> TRUE, value |-> SubSeq(args, 1, n), rest |-> rest]
  BY <1>11
<1>13. rest = <<>>
  <2>1. put[n] \in Seq(Byte) /\ put[n] = put[n] \o <<>>
    BY <1>4
  <2> QED BY <1>12, <2>1, SameFront, EmptySeq
<1>14. SubSeq(args, 1, n) = args
  OBVIOUS
<1>15. GetTuple(packed, types) = [ok |-> TRUE, value |-> args, rest |-> <<>>]
  BY <1>8, <1>12, <1>13, <1>14
<1> QED BY <1>1, <1>7, <1>15

-----------------------------------------------------------------------------
(* The answer to a call.                                                   *)

\* A code as it lies in memory; different codes differ there.
LEMMA CodesDiffer ==
  ASSUME NEW a \in 0 .. 2, NEW b \in 0 .. 2
  PROVE  /\ CodeObject(a) \in Seq(Byte) /\ Len(CodeObject(a)) = CodeBytes
         /\ CodeObject(a) = CodeObject(b) => a = b
<1>1. CodeObject(a) \in Seq(Byte) /\ Len(CodeObject(a)) = CodeBytes
  BY BaseAssumption, CodeAssumption DEF CodeObject, Byte
<1>2. CodeObject(a)[1] = a /\ CodeObject(b)[1] = b
  BY CodeAssumption DEF CodeObject
<1> QED BY <1>1, <1>2

\* A code and a message, and what is behind them: what operator>> of value_t finds.
LEMMA HeadIsRead ==
  ASSUME NEW code \in Seq(Byte), Len(code) = CodeBytes,
         NEW msg, IsText(msg), NEW r \in Seq(Byte), NEW type, NEW uninit
  PROVE  /\ PutString(PutObject(<<>>, code), msg) \in Seq(Byte)
         /\ \A v :
              /\ code = CodeObject(RPC_SUCCESS)
              /\ Get(r, type, uninit) = [ok |-> TRUE, value |-> v, rest |-> <<>>]
              => GetValue(PutString(PutObject(<<>>, code), msg) \o r, type, uninit)
                   = [ok |-> TRUE, code |-> code, msg |-> msg, value |-> v]
         /\ code # CodeObject(RPC_SUCCESS)
              => GetValue(PutString(PutObject(<<>>, code), msg) \o r, type, uninit)
                   = [ok |-> TRUE, code |-> code, msg |-> msg, value |-> uninit]
<1> DEFINE c == PutObject(<<>>, code)
           m == PutString(<<>>, msg)
           rest == m \o r
           stream == PutString(c, msg) \o r
<1>1. msg \in Seq(Byte) /\ Len(msg) <= MaxLength /\ \A i \in 1 .. Len(msg) : msg[i] # 0
  BY DEF IsText
<1>2. c \in Seq(Byte) /\ m \in Seq(Byte)
  BY <1>1, PutIsAppended, StringIsAppended, EmptySeq
<1>3. PutString(c, msg) = c \o m
  <2> HIDE DEF c
  <2> QED BY <1>1, <1>2, StringIsAppended
<1>4. GetString(rest) = [ok |-> TRUE, value |-> msg, rest |-> r]
  BY <1>1, StringsRoundTrip
<1>5. rest \in Seq(Byte) /\ stream = c \o rest /\ PutString(c, msg) \in Seq(Byte)
  <2> HIDE DEF c, m
  <2>1. (c \o m) \o r = c \o (m \o r) /\ m \o r \in Seq(Byte) /\ c \o m \in Seq(Byte)
    BY <1>2, Associative
  <2> QED BY <1>3, <2>1
<1> HIDE DEF rest
<1>6. GetObject(c \o rest, CodeBytes, CodeObject(RPC_SUCCESS))
        = [ok |-> TRUE, value |-> code, rest |-> rest]
  BY <1>5, ObjectsRoundTrip
<1>7. GetObject(stream, CodeBytes, CodeObject(RPC_SUCCESS))
        = [ok |-> TRUE, value |-> code, rest |-> rest]
  <2> HIDE DEF c, stream
  <2> QED BY <1>5, <1>6
<1> HIDE DEF stream
<1> DEFINE first == GetObject(stream, CodeBytes, CodeObject(RPC_SUCCESS))
           second == GetString(first.rest)
           third == IF first.value = CodeObject(RPC_SUCCESS)
                      THEN Get(second.rest, type, uninit)
                      ELSE [ok |-> TRUE, value |-> uninit, rest |-> second.rest]
           ok == second.ok /\ third.ok
<1>8. GetValue(stream, type, uninit)
        = [ok |-> ok, code |-> first.value, msg |-> second.value, value |-> third.value]
  BY DEF GetValue
<1>9. first.value = code /\ first.rest = rest
  BY <1>7
<1> HIDE DEF first
<1>10. second.ok = TRUE /\ second.value = msg /\ second.rest = r
  BY <1>4, <1>9
<1> HIDE DEF second
<1>11. third = IF code = CodeObject(RPC_SUCCESS)
                  THEN Get(r, type, uninit)
                  ELSE [ok |-> TRUE, value |-> uninit, rest |-> r]
  BY <1>9, <1>10
<1> HIDE DEF third
<1>12. ASSUME third.ok = TRUE
       PROVE  GetValue(stream, type, uninit)
                = [ok |-> TRUE, code |-> code, msg |-> msg, value |-> third.value]
  <2>1. ok = TRUE
    BY <1>10, <1>12
  <2> HIDE DEF ok
  <2> QED BY <1>8, <1>9, <1>10, <2>1
<1>13. ASSUME NEW v, code = CodeObject(RPC_SUCCESS),
              Get(r, type, uninit) = [ok |-> TRUE, value |-> v, rest |-> <<>>]
       PROVE  GetValue(stream, type, uninit)
                = [ok |-> TRUE, code |-> code, msg |-> msg, value |-> v]
  <2>1. third.ok = TRUE /\ third.value = v
    BY <1>11, <1>13
  <2> QED BY <1>12, <2>1
<1>14. ASSUME code # CodeObject(RPC_SUCCESS)
       PROVE  GetValue(stream, type, uninit)
                = [ok |-> TRUE, code |-> code, msg |-> msg, value |-> uninit]
  <2>1. third.ok = TRUE /\ third.value = uninit
    BY <1>11, <1>14
  <2> QED BY <1>12, <2>1
<1> QED BY <1>5, <1>13, <1>14 DEF stream

(***************************************************************************)
(* The answer to a call, whatever the type of its result: the client reads *)
(* the code, the message and the result that the server wrote, and nothing *)
(* of what it held before (operator<< and operator>> of value_t).          *)
(***************************************************************************)
THEOREM AnswersRoundTrip ==
  ASSUME NEW type, NEW v, IsValue(v, type), NEW msg, IsText(msg)
  PROVE  \A uninit :
           GetValue(PutValue(<<>>, type, RPC_SUCCESS, msg, v), type, uninit)
             = [ok |-> TRUE, code |-> CodeObject(RPC_SUCCESS), msg |-> msg, value |-> v]
<1> TAKE uninit
<1> DEFINE code == CodeObject(RPC_SUCCESS)
           head == PutString(PutObject(<<>>, code), msg)
           r == Put(<<>>, type, v)
<1>1. code \in Seq(Byte) /\ Len(code) = CodeBytes
  BY CodesDiffer DEF RPC_SUCCESS
<1>2. r \in Seq(Byte) /\ r \o <<>> = r
  <2>1. r \in Seq(Byte)
    BY ValuesRoundTrip
  <2> HIDE DEF r
  <2> QED BY <2>1
<1>3. Get(r, type, uninit) = [ok |-> TRUE, value |-> v, rest |-> <<>>]
  <2>1. \A old : Get(r \o <<>>, type, old) = [ok |-> TRUE, value |-> v, rest |-> <<>>]
    <3>1. <<>> \in Seq(Byte)
      BY EmptySeq
    <3> QED BY <3>1, ValuesRoundTrip, Zenon
  <2> HIDE DEF r
  <2> QED BY <1>2, <2>1
<1>4. /\ head \in Seq(Byte)
      /\ GetValue(head \o r, type, uninit)
           = [ok |-> TRUE, code |-> code, msg |-> msg, value |-> v]
  <2>1. code = CodeObject(RPC_SUCCESS)
    OBVIOUS
  <2> HIDE DEF code, r
  <2> QED BY <1>1, <1>2, <1>3, <2>1, HeadIsRead
<1>5. PutValue(<<>>, type, RPC_SUCCESS, msg, v) = head \o r
  <2>1. PutValue(<<>>, type, RPC_SUCCESS, msg, v) = Put(head, type, v)
    BY DEF PutValue
  <2> HIDE DEF head
  <2> QED BY <1>4, <2>1, ValuesRoundTrip
<1> QED BY <1>4, <1>5

\* The answer to a call of a function that is not bound.
LEMMA FailuresRoundTrip ==
  ASSUME NEW type, NEW msg, IsText(msg), NEW uninit
  PROVE  GetValue(PutString(PutObject(<<>>, CodeObject(RPC_FUNCTION_NOTBIND)), msg), type, uninit)
           = [ok |-> TRUE, code |-> CodeObject(RPC_FUNCTION_NOTBIND), msg |-> msg,
              value |-> uninit]
<1> DEFINE code == CodeObject(RPC_FUNCTION_NOTBIND)
           head == PutString(PutObject(<<>>, code), msg)
<1>1. code \in Seq(Byte) /\ Len(code) = CodeBytes /\ code # CodeObject(RPC_SUCCESS)
  BY CodesDiffer DEF RPC_SUCCESS, RPC_FUNCTION_NOTBIND
<1> HIDE DEF code
<1>2. /\ head \in Seq(Byte)
      /\ GetValue(head \o <<>>, type, uninit)
           = [ok |-> TRUE, code |-> code, msg |-> msg, value |-> uninit]
  <2> DEFINE r == <<>>
  <2>1. r \in Seq(Byte)
    BY EmptySeq
  <2> HIDE DEF r
  <2>2. /\ head \in Seq(Byte)
        /\ GetValue(head \o r, type, uninit)
             = [ok |-> TRUE, code |-> code, msg |-> msg, value |-> uninit]
    BY <1>1, <2>1, HeadIsRead
  <2> QED BY <2>2 DEF r
<1>3. head \o <<>> = head
  <2> HIDE DEF head
  <2> QED BY <1>2
<1> QED BY <1>2, <1>3 DEF code

-----------------------------------------------------------------------------
(* Rpc.                                                                    *)

\* What a call sends, and what it is answered.
Request(k) == PackageArgs(PutString(<<>>, k.func), k.types, k.args)
Reply(k) ==
  IF k.func \in DOMAIN Types
    THEN CallProxy(k.func, k.args)
    ELSE PutString(PutObject(<<>>, CodeObject(RPC_FUNCTION_NOTBIND)), NotBound(k.func))

\* The server answers a whole request with what the function makes of its arguments
\* (RpcServer::onMessage, callproxyImpl).
LEMMA RequestsAnswered ==
  ASSUME NEW c \in Clients, NEW k \in Calls[c]
  PROVE  Request(k) \in Seq(Byte) /\ Answer(Request(k)) = [ok |-> TRUE, stream |-> Reply(k)]
<1> DEFINE f == k.func
           name == PutString(<<>>, f)
<1>1. /\ IsText(f)
      /\ Len(k.types) \in Nat /\ k.args \in Seq(Seq(Byte)) /\ Len(k.args) = Len(k.types)
      /\ \A i \in 1 .. Len(k.types) : IsValue(k.args[i], k.types[i])
      /\ f \in DOMAIN Types => k.types = Types[f]
  BY CallsAssumption
<1> HIDE DEF f
<1>2. f \in Seq(Byte) /\ Len(f) <= MaxLength /\ \A i \in 1 .. Len(f) : f[i] # 0
  BY <1>1 DEF IsText
<1>3. name \in Seq(Byte)
  BY <1>2, StringIsAppended, EmptySeq
<1> HIDE DEF name
<1>4. PICK packed \in Seq(Byte) :
        /\ PackageArgs(name, k.types, k.args) = name \o packed
        /\ GetTuple(packed, k.types) = [ok |-> TRUE, value |-> k.args, rest |-> <<>>]
  BY <1>1, <1>3, TuplesRoundTrip
<1>5. Request(k) = name \o packed /\ name \o packed \in Seq(Byte)
  BY <1>3, <1>4 DEF Request, name, f
<1>6. GetString(name \o packed) = [ok |-> TRUE, value |-> f, rest |-> packed]
  BY <1>2, <1>4, StringsRoundTrip DEF name
<1> DEFINE stream == name \o packed
           got == GetString(stream)
           args == IF got.value \in DOMAIN Types
                     THEN GetTuple(got.rest, Types[got.value]) ELSE got
           ok == got.ok /\ args.ok
           answer == IF got.value \in DOMAIN Types
                       THEN CallProxy(got.value, args.value)
                       ELSE PutString(PutObject(<<>>, CodeObject(RPC_FUNCTION_NOTBIND)),
                                      NotBound(got.value))
<1>7. Answer(stream) = [ok |-> ok, stream |-> answer]
  BY DEF Answer
<1>8. got.ok = TRUE /\ got.value = f /\ got.rest = packed
  BY <1>6
<1> HIDE DEF stream, got
<1>9. args.ok = TRUE /\ (f \in DOMAIN Types => args.value = k.args)
  BY <1>1, <1>4, <1>8
<1> HIDE DEF args
<1>10. ok = TRUE
  BY <1>8, <1>9
<1> HIDE DEF ok
<1>11. answer = Reply(k)
  BY <1>8, <1>9 DEF Reply, f
<1> HIDE DEF answer
<1> QED BY <1>5, <1>7, <1>10, <1>11 DEF stream

\* An answer is bytes.
LEMMA RepliesAreBytes ==
  ASSUME NEW c \in Clients, NEW k \in Calls[c]
  PROVE  Reply(k) \in Seq(Byte)
<1> DEFINE head(code, msg) == PutString(PutObject(<<>>, CodeObject(code)), msg)
<1>1. ASSUME NEW code \in 0 .. 2, NEW msg, IsText(msg) PROVE head(code, msg) \in Seq(Byte)
  <2>1. CodeObject(code) \in Seq(Byte) /\ Len(CodeObject(code)) = CodeBytes /\ <<>> \in Seq(Byte)
    BY CodesDiffer, EmptySeq
  <2> QED BY <1>1, <2>1, HeadIsRead
<1>2. CASE k.func \in DOMAIN Types
  <2> DEFINE v == Run(k.func, k.args)
             type == k.result
  <2>1. IsValue(v, type) /\ type = ResultType[k.func]
    BY <1>2, CallsAssumption
  <2>2. IsText(<<>>)
    <3>1. Base * Base \in Nat /\ Base * Base > 0
      BY BaseAssumption, Z3
    <3> QED BY <3>1, EmptySeq DEF IsText, MaxLength
  <2>3. head(RPC_SUCCESS, <<>>) \in Seq(Byte)
    BY <1>1, <2>2 DEF RPC_SUCCESS
  <2>4. Reply(k) = Put(head(RPC_SUCCESS, <<>>), type, v)
    BY <1>2, <2>1 DEF Reply, CallProxy, PutValue
  <2> HIDE DEF head, v, type
  <2>5. Put(head(RPC_SUCCESS, <<>>), type, v) = head(RPC_SUCCESS, <<>>) \o Put(<<>>, type, v)
        /\ Put(<<>>, type, v) \in Seq(Byte)
    BY <2>1, <2>3, ValuesRoundTrip
  <2>6. head(RPC_SUCCESS, <<>>) \o Put(<<>>, type, v) \in Seq(Byte)
    BY <2>3, <2>5, Associative, EmptySeq
  <2> QED BY <2>4, <2>5, <2>6
<1>3. CASE k.func \notin DOMAIN Types
  <2>1. IsText(NotBound(k.func))
    BY <1>3, CallsAssumption
  <2>2. Reply(k) = head(RPC_FUNCTION_NOTBIND, NotBound(k.func))
    BY <1>3 DEF Reply
  <2> HIDE DEF head
  <2> QED BY <1>1, <2>1, <2>2 DEF RPC_FUNCTION_NOTBIND
<1> QED BY <1>2, <1>3

\* And the client reads from a whole answer what the call should return
\* (RpcClient::netCall).
LEMMA RepliesRead ==
  ASSUME NEW c \in Clients, NEW k \in Calls[c]
  PROVE  LET val == GetValue(Reply(k), k.result, Uninit)
         IN  /\ val.ok = TRUE
             /\ val.code = Expected(k).code /\ val.value = Expected(k).value
             /\ val.code # CodeObject(RPC_RECV_TIMEOUT)
             /\ Expected(k) = [code |-> val.code, value |-> val.value]
<1>1. CASE k.func \in DOMAIN Types
  <2>1. k.result = ResultType[k.func] /\ IsValue(Run(k.func, k.args), k.result)
    BY <1>1, CallsAssumption
  <2>2. IsText(<<>>)
    <3>1. Base * Base \in Nat /\ Base * Base > 0
      BY BaseAssumption, Z3
    <3> QED BY <3>1, EmptySeq DEF IsText, MaxLength
  <2> DEFINE v == Run(k.func, k.args)
             msg == <<>>
             type == k.result
  <2>3. IsValue(v, type) /\ IsText(msg)
    BY <2>1, <2>2
  <2> HIDE DEF v, msg, type
  <2>4. GetValue(PutValue(<<>>, type, RPC_SUCCESS, msg, v), type, Uninit)
          = [ok |-> TRUE, code |-> CodeObject(RPC_SUCCESS), msg |-> msg, value |-> v]
    BY <2>3, AnswersRoundTrip
  <2>5. Reply(k) = PutValue(<<>>, type, RPC_SUCCESS, msg, v)
    BY <1>1, <2>1 DEF Reply, CallProxy, v, msg, type
  <2>6. CodeObject(RPC_SUCCESS) # CodeObject(RPC_RECV_TIMEOUT)
    BY CodesDiffer DEF RPC_SUCCESS, RPC_RECV_TIMEOUT
  <2>7. Expected(k) = [code |-> CodeObject(RPC_SUCCESS), value |-> v]
    BY <1>1 DEF Expected, v
  <2> QED BY <2>4, <2>6, <2>7, <2>5 DEF type
<1>2. CASE k.func \notin DOMAIN Types
  <2> DEFINE code == CodeObject(RPC_FUNCTION_NOTBIND)
             msg == NotBound(k.func)
  <2>1. IsText(msg)
    BY <1>2, CallsAssumption
  <2>2. GetValue(PutString(PutObject(<<>>, code), msg), k.result, Uninit)
          = [ok |-> TRUE, code |-> code, msg |-> msg, value |-> Uninit]
    BY <2>1, FailuresRoundTrip
  <2>3. Reply(k) = PutString(PutObject(<<>>, code), msg)
    BY <1>2 DEF Reply
  <2>4. code # CodeObject(RPC_RECV_TIMEOUT)
    BY CodesDiffer DEF RPC_FUNCTION_NOTBIND, RPC_RECV_TIMEOUT
  <2>5. Expected(k) = [code |-> code, value |-> Uninit]
    BY <1>2 DEF Expected
  <2> HIDE DEF code, msg
  <2> QED BY <2>2, <2>3, <2>4, <2>5
<1> QED BY <1>1, <1>2

\* A connection whose messages were each read as a whole has one message under way at
\* most: the request of the call its client is in, or the answer to it.
UncutInv(c) ==
  /\ client[c] = "calling" =>
       \/ toServer[c] = Request(call[c]) /\ toClient[c] = <<>>
       \/ toServer[c] = <<>> /\ toClient[c] = Reply(call[c])
  /\ client[c] # "calling" => toClient[c] = <<>> /\ (timedOut[c] \/ toServer[c] = <<>>)
  /\ timedOut[c] => server = "down"
  /\ client[c] = "gone" => tries[c] = MaxTries

\* What its calls have returned.
Outcomes(c) ==
  [call : Calls[c], result : {Expected(k) : k \in Calls[c]} \cup {TimeoutResult}]
ResultsInv(c) ==
  /\ results[c] \in Seq(Outcomes(c))
  /\ \A i \in 1 .. Len(results[c]) :
       \/ results[c][i].result = Expected(results[c][i].call)
       \/ server = "down" /\ results[c][i].result = TimeoutResult

\* One conjunct per variable, then the connections: nothing is left in a serializer or
\* an input buffer between two messages.
CallInv ==
  /\ server \in {"new", "listening", "down"}
  /\ serializer = [t \in Threads |-> <<>>]
  /\ input = [c \in Clients |-> <<>>]
  /\ toServer = [c \in Clients |-> toServer[c]]
  /\ toClient = [c \in Clients |-> toClient[c]]
  /\ client \in [Clients -> {"new", "ready", "calling", "gone"}]
  /\ tries = [c \in Clients |-> tries[c]]
  /\ timedOut \in [Clients -> BOOLEAN]
  /\ call = [c \in Clients |-> call[c]]
  /\ results = [c \in Clients |-> results[c]]
  /\ cut \in [Clients -> BOOLEAN]
  /\ \A c \in Clients : client[c] = "calling" => call[c] \in Calls[c]
  /\ \A c \in Clients : ~cut[c] => UncutInv(c) /\ ResultsInv(c)

\* The parts of the invariant, in the form the steps use.
LEMMA CallInvParts ==
  ASSUME CallInv, NEW c \in Clients
  PROVE  /\ input[c] = <<>> /\ SerializerOf(c) = <<>>
         /\ client[c] \in {"new", "ready", "calling", "gone"}
         /\ timedOut[c] \in BOOLEAN /\ cut[c] \in BOOLEAN
BY ThreadsAssumption DEF CallInv, SerializerOf

\* Connections whose variables a step leaves alone are as they were; a server that is
\* down stays down.
LEMMA OthersKept ==
  ASSUME NEW c \in Clients, ~cut[c] => UncutInv(c) /\ ResultsInv(c), cut'[c] = cut[c],
         client'[c] = client[c], toServer'[c] = toServer[c], toClient'[c] = toClient[c],
         call'[c] = call[c], timedOut'[c] = timedOut[c], results'[c] = results[c],
         tries'[c] = tries[c] \/ client[c] # "gone", server = "down" => server' = "down"
  PROVE  ~cut'[c] => UncutInv(c)' /\ ResultsInv(c)'
<1> SUFFICES ASSUME ~cut[c] PROVE UncutInv(c)' /\ ResultsInv(c)'
  OBVIOUS
<1>1. UncutInv(c)'
  BY DEF UncutInv, Request, Reply
<1>2. ResultsInv(c)'
  BY DEF ResultsInv, Outcomes, Expected, TimeoutResult
<1> QED BY <1>1, <1>2

\* Every call starts on empty streams (RpcServer::start, RpcClient::connect).
LEMMA InitCallInv == Init => CallInv
<1> SUFFICES ASSUME Init PROVE CallInv
  OBVIOUS
<1>1. \A c \in Clients : UncutInv(c)
  BY DEF Init, UncutInv
<1>2. \A c \in Clients : ResultsInv(c)
  <2> SUFFICES ASSUME NEW c \in Clients PROVE ResultsInv(c)
    OBVIOUS
  <2>1. results[c] = <<>>
    BY DEF Init
  <2>2. <<>> \in Seq(Outcomes(c)) /\ Len(<<>>) = 0
    BY EmptySeq
  <2> QED BY <2>1, <2>2 DEF ResultsInv
<1> QED BY <1>1, <1>2 DEF Init, CallInv

\* A message is handled: a whole one is the request of the client's call.
LEMMA ServerReadCall ==
  ASSUME CallInv, NEW c \in Clients, NEW n \in 1 .. Len(toServer[c]), ServerRead(c, n)
  PROVE  CallInv'
<1> DEFINE bytes == SubSeq(toServer[c], 1, n)
           answer == Answer(bytes)
<1>1. input[c] = <<>> /\ SerializerOf(c) = <<>> /\ ThreadOf[c] \in Threads
  BY CallInvParts, ThreadsAssumption
<1>2. server = "listening" /\ UNCHANGED clientVars
      /\ toServer' = [toServer EXCEPT ![c] = Rest(@, n)]
      /\ cut' = [cut EXCEPT ![c] = @ \/ n < Len(toServer[c])]
  BY DEF ServerRead
<1>3. OnMessage(c, bytes)
  BY DEF ServerRead
<1>4. input' = input
  <2>1. input' = [input EXCEPT ![c] = <<>>]
    BY <1>1, <1>3 DEF OnMessage
  <2> QED BY <2>1 DEF CallInv
<1>5. ASSUME ~cut'[c]
      PROVE  /\ ~cut[c] /\ client[c] = "calling" /\ call[c] \in Calls[c] /\ ~timedOut[c]
             /\ toServer[c] = Request(call[c]) /\ toClient[c] = <<>>
             /\ Len(toServer[c]) = n
  <2>1. ~cut[c] /\ ~(n < Len(toServer[c]))
    BY <1>2, <1>5 DEF CallInv
  <2>2. UncutInv(c) /\ ~timedOut[c] /\ (client[c] = "calling" => call[c] \in Calls[c])
    BY <1>2, <2>1 DEF CallInv, UncutInv
  <2>3. toServer[c] # <<>>
    OBVIOUS
  <2>4. client[c] = "calling" /\ toServer[c] = Request(call[c]) /\ toClient[c] = <<>>
    BY <2>2, <2>3 DEF UncutInv
  <2>5. Len(Request(call[c])) \in Nat
    BY <2>2, <2>4, RequestsAnswered
  <2> QED BY <2>1, <2>2, <2>4, <2>5
<1>6. /\ serializer' = serializer
      /\ server' \in {"listening", "down"}
      /\ toClient' = [d \in Clients |-> toClient'[d]]
      /\ \A d \in Clients \ {c} : toClient'[d] = toClient[d]
  BY <1>1, <1>2, <1>3 DEF OnMessage, CallInv
<1>7. \A d \in Clients \ {c} : ~cut'[d] => UncutInv(d)' /\ ResultsInv(d)'
  <2> SUFFICES ASSUME NEW d \in Clients \ {c} PROVE ~cut'[d] => UncutInv(d)' /\ ResultsInv(d)'
    OBVIOUS
  <2>1. /\ ~cut[d] => UncutInv(d) /\ ResultsInv(d)
        /\ cut'[d] = cut[d] /\ toServer'[d] = toServer[d]
    BY <1>2 DEF CallInv
  <2>2. /\ client'[d] = client[d] /\ call'[d] = call[d] /\ timedOut'[d] = timedOut[d]
        /\ results'[d] = results[d] /\ tries'[d] = tries[d]
    BY <1>2 DEF clientVars
  <2> QED BY <1>2, <1>6, <2>1, <2>2, OthersKept
<1>8. ASSUME ~cut'[c] PROVE UncutInv(c)' /\ ResultsInv(c)'
  <2> DEFINE k == call[c]
  <2>1. /\ client[c] = "calling" /\ k \in Calls[c] /\ ~timedOut[c] /\ ~cut[c]
        /\ toServer[c] = Request(k) /\ toClient[c] = <<>> /\ n = Len(toServer[c])
    BY <1>5, <1>8
  <2>2. Request(k) \in Seq(Byte) /\ Answer(Request(k)) = [ok |-> TRUE, stream |-> Reply(k)]
    BY <2>1, RequestsAnswered
  <2>3. bytes = Request(k)
    BY <2>1, <2>2
  <2>4. <<>> \o bytes = bytes
    BY <2>2, <2>3
  <2>5. server' = server /\ toClient' = [toClient EXCEPT ![c] = @ \o Reply(k)]
    <3>1. Answer(input[c] \o bytes) = [ok |-> TRUE, stream |-> Reply(k)]
      BY <1>1, <2>2, <2>3, <2>4
    <3> HIDE DEF bytes, k
    <3> QED BY <1>3, <3>1 DEF OnMessage
  <2>6. toClient'[c] = Reply(k)
    <3>1. toClient'[c] = <<>> \o Reply(k)
      BY <2>1, <2>5 DEF CallInv
    <3>2. Reply(k) \in Seq(Byte)
      BY <2>1, RepliesAreBytes
    <3> QED BY <3>1, <3>2
  <2>7. toServer'[c] = <<>>
    <3>1. toServer'[c] = Rest(Request(k), Len(Request(k)))
      BY <1>2, <2>1 DEF CallInv
    <3> QED BY <2>2, <3>1 DEF Rest
  <2>8. /\ client'[c] = "calling" /\ call'[c] = k /\ timedOut'[c] = timedOut[c]
        /\ results' = results
    BY <1>2, <2>1 DEF clientVars
  <2>9. UncutInv(c)'
    BY <2>1, <2>6, <2>7, <2>8 DEF UncutInv, Reply
  <2>10. ResultsInv(c)
    BY <2>1 DEF CallInv
  <2>11. ResultsInv(c)'
    BY <2>5, <2>8, <2>10 DEF ResultsInv, Outcomes, Expected, TimeoutResult
  <2> QED BY <2>9, <2>11
<1>9. \A d \in Clients : ~cut'[d] => UncutInv(d)' /\ ResultsInv(d)'
  BY <1>7, <1>8
<1>10. /\ toServer' = [d \in Clients |-> toServer'[d]]
       /\ cut' \in [Clients -> BOOLEAN]
  BY <1>2 DEF CallInv
<1>11. /\ client' \in [Clients -> {"new", "ready", "calling", "gone"}]
       /\ tries' = [d \in Clients |-> tries'[d]]
       /\ timedOut' \in [Clients -> BOOLEAN]
       /\ call' = [d \in Clients |-> call'[d]]
       /\ results' = [d \in Clients |-> results'[d]]
       /\ \A d \in Clients : client'[d] = "calling" => call'[d] \in Calls[d]
  BY <1>2 DEF clientVars, CallInv
<1>12. serializer' = [t \in Threads |-> <<>>] /\ input' = [d \in Clients |-> <<>>]
  BY <1>4, <1>6 DEF CallInv
<1>13. server' \in {"new", "listening", "down"}
  BY <1>6
<1> QED BY <1>6, <1>9, <1>10, <1>11, <1>12, <1>13 DEF CallInv

\* A step of one connection: the others' variables, the server and its buffers stay.
Only(c) ==
  /\ UNCHANGED <<server, serializer, input>>
  /\ toServer' = [toServer EXCEPT ![c] = toServer'[c]]
  /\ toClient' = [toClient EXCEPT ![c] = toClient'[c]]
  /\ client' = [client EXCEPT ![c] = client'[c]]
  /\ tries' = [tries EXCEPT ![c] = tries'[c]]
  /\ timedOut' = [timedOut EXCEPT ![c] = timedOut'[c]]
  /\ call' = [call EXCEPT ![c] = call'[c]]
  /\ results' = [results EXCEPT ![c] = results'[c]]
  /\ cut' = [cut EXCEPT ![c] = cut'[c]]

\* It keeps the invariant if it keeps the connection's part.
LEMMA ConnectionStep ==
  ASSUME CallInv, NEW c \in Clients, Only(c),
         client'[c] \in {"new", "ready", "calling", "gone"},
         timedOut'[c] \in BOOLEAN, cut'[c] \in BOOLEAN,
         client'[c] = "calling" => call'[c] \in Calls[c],
         ~cut'[c] => UncutInv(c)' /\ ResultsInv(c)'
  PROVE  CallInv'
<1>1. ASSUME NEW d \in Clients, d # c PROVE ~cut'[d] => UncutInv(d)' /\ ResultsInv(d)'
  <2>1. /\ toServer'[d] = toServer[d] /\ toClient'[d] = toClient[d] /\ client'[d] = client[d]
        /\ tries'[d] = tries[d] /\ timedOut'[d] = timedOut[d] /\ call'[d] = call[d]
        /\ results'[d] = results[d] /\ cut'[d] = cut[d]
    BY <1>1 DEF CallInv, Only
  <2>2. ~cut[d] => UncutInv(d) /\ ResultsInv(d)
    BY DEF CallInv, Only
  <2> QED BY <2>1, <2>2, OthersKept DEF Only
<1>2. \A d \in Clients : ~cut'[d] => UncutInv(d)' /\ ResultsInv(d)'
  BY <1>1
<1>3. \A d \in Clients : client'[d] = "calling" => call'[d] \in Calls[d]
  BY DEF CallInv, Only
<1>4. /\ serializer' = [t \in Threads |-> <<>>]
      /\ input' = [d \in Clients |-> <<>>]
      /\ server' \in {"new", "listening", "down"}
  BY DEF CallInv, Only
<1>5. /\ toServer' = [d \in Clients |-> toServer'[d]]
      /\ toClient' = [d \in Clients |-> toClient'[d]]
      /\ tries' = [d \in Clients |-> tries'[d]]
  BY DEF CallInv, Only
<1>6. /\ client' \in [Clients -> {"new", "ready", "calling", "gone"}]
      /\ timedOut' \in [Clients -> BOOLEAN]
      /\ cut' \in [Clients -> BOOLEAN]
  BY DEF CallInv, Only
<1>7. /\ call' = [d \in Clients |-> call'[d]]
      /\ results' = [d \in Clients |-> results'[d]]
  BY DEF CallInv, Only
<1> QED BY <1>2, <1>3, <1>4, <1>5, <1>6, <1>7 DEF CallInv

\* A result is added: what the call should return, or a timeout if the server is gone.
LEMMA ResultAdded ==
  ASSUME NEW c \in Clients, ResultsInv(c), NEW k \in Calls[c], NEW r,
         r = Expected(k) \/ (server = "down" /\ r = TimeoutResult),
         results'[c] = Append(results[c], [call |-> k, result |-> r]), server' = server
  PROVE  ResultsInv(c)'
<1> DEFINE e == [call |-> k, result |-> r]
           s == results[c]
<1>1. e \in Outcomes(c)
  BY DEF Outcomes
<1>2. s \in Seq(Outcomes(c)) /\ results'[c] = Append(s, e)
  BY DEF ResultsInv
<1> DEFINE S == Outcomes(c)
<1> HIDE DEF s, S, e
<1>3. /\ Append(s, e) \in Seq(S) /\ Len(Append(s, e)) = Len(s) + 1
      /\ \A i \in 1 .. Len(s) : Append(s, e)[i] = s[i]
      /\ Append(s, e)[Len(s) + 1] = e /\ Len(s) \in Nat
  BY <1>1, <1>2 DEF S
<1>4. \A i \in 1 .. Len(s) : \/ s[i].result = Expected(s[i].call)
                             \/ server = "down" /\ s[i].result = TimeoutResult
  BY DEF ResultsInv, s
<1>5. e.result = Expected(e.call) \/ (server = "down" /\ e.result = TimeoutResult)
  BY DEF e
<1>6. \A i \in 1 .. Len(s) + 1 :
        \/ Append(s, e)[i].result = Expected(Append(s, e)[i].call)
        \/ server = "down" /\ Append(s, e)[i].result = TimeoutResult
  <2> SUFFICES ASSUME NEW i \in 1 .. Len(s) + 1
               PROVE  \/ Append(s, e)[i].result = Expected(Append(s, e)[i].call)
                      \/ server = "down" /\ Append(s, e)[i].result = TimeoutResult
    OBVIOUS
  <2>1. CASE i \in 1 .. Len(s)
    BY <1>3, <1>4, <2>1
  <2>2. CASE i = Len(s) + 1
    BY <1>3, <1>5, <2>2
  <2> QED BY <1>3, <2>1, <2>2
<1> QED BY <1>2, <1>3, <1>6 DEF ResultsInv, S, Outcomes, Expected, TimeoutResult

\* The connection's parts, where it was not cut.
LEMMA ConnectionParts ==
  ASSUME CallInv, NEW c \in Clients
  PROVE  /\ ~cut[c] => UncutInv(c) /\ ResultsInv(c)
         /\ client[c] = "calling" => call[c] \in Calls[c]
BY DEF CallInv

\* A client that connects, or does not, has nothing under way.
LEMMA ConnectCall ==
  ASSUME CallInv, NEW c \in Clients, Connect(c)
  PROVE  CallInv'
<1>1. /\ client[c] = "new" /\ client' = [client EXCEPT ![c] = "ready"] /\ client'[c] = "ready"
      /\ UNCHANGED <<serverVars, wires, tries, timedOut, call, results, cut>>
  BY DEF Connect, CallInv
<1>2. ASSUME ~cut'[c] PROVE UncutInv(c)' /\ ResultsInv(c)'
  <2>1. UncutInv(c) /\ ResultsInv(c)
    BY <1>1, <1>2, ConnectionParts
  <2>2. UncutInv(c)'
    BY <1>1, <2>1 DEF UncutInv, serverVars, wires
  <2>3. ResultsInv(c)'
    BY <1>1, <2>1 DEF ResultsInv, Outcomes, Expected, TimeoutResult, serverVars
  <2> QED BY <2>2, <2>3
<1>3. timedOut'[c] \in BOOLEAN /\ cut'[c] \in BOOLEAN
  BY <1>1, CallInvParts
<1>4. Only(c)
  BY <1>1 DEF CallInv, Only, serverVars, wires
<1> QED BY <1>1, <1>2, <1>3, <1>4, ConnectionStep

\* A try more: only a client that is gone is promised anything of them.
LEMMA RefusedCall ==
  ASSUME CallInv, NEW c \in Clients, ConnectRefused(c)
  PROVE  CallInv'
<1>1. /\ client[c] = "new" /\ tries' = [tries EXCEPT ![c] = @ + 1]
      /\ UNCHANGED <<serverVars, wires, client, timedOut, call, results, cut>>
  BY DEF ConnectRefused
<1>2. ASSUME ~cut'[c] PROVE UncutInv(c)' /\ ResultsInv(c)'
  <2>1. UncutInv(c) /\ ResultsInv(c)
    BY <1>1, <1>2, ConnectionParts
  <2>2. UncutInv(c)'
    BY <1>1, <2>1 DEF UncutInv, serverVars, wires
  <2>3. ResultsInv(c)'
    BY <1>1, <2>1 DEF ResultsInv, Outcomes, Expected, TimeoutResult, serverVars
  <2> QED BY <2>2, <2>3
<1>3. /\ timedOut'[c] \in BOOLEAN /\ cut'[c] \in BOOLEAN
      /\ client'[c] \in {"new", "ready", "calling", "gone"} /\ client'[c] # "calling"
  BY <1>1, CallInvParts
<1>4. Only(c)
  BY <1>1 DEF CallInv, Only, serverVars, wires
<1> QED BY <1>2, <1>3, <1>4, ConnectionStep

\* A client gives up only after the last try.
LEMMA GiveUpCall ==
  ASSUME CallInv, NEW c \in Clients, GiveUp(c)
  PROVE  CallInv'
<1>1. /\ client[c] = "new" /\ tries[c] = MaxTries
      /\ client' = [client EXCEPT ![c] = "gone"] /\ client'[c] = "gone"
      /\ UNCHANGED <<serverVars, wires, tries, timedOut, call, results, cut>>
  BY DEF GiveUp, CallInv
<1>2. ASSUME ~cut'[c] PROVE UncutInv(c)' /\ ResultsInv(c)'
  <2>1. UncutInv(c) /\ ResultsInv(c)
    BY <1>1, <1>2, ConnectionParts
  <2>2. UncutInv(c)'
    BY <1>1, <2>1 DEF UncutInv, serverVars, wires
  <2>3. ResultsInv(c)'
    BY <1>1, <2>1 DEF ResultsInv, Outcomes, Expected, TimeoutResult, serverVars
  <2> QED BY <2>2, <2>3
<1>3. timedOut'[c] \in BOOLEAN /\ cut'[c] \in BOOLEAN
  BY <1>1, CallInvParts
<1>4. Only(c)
  BY <1>1 DEF CallInv, Only, serverVars, wires
<1> QED BY <1>1, <1>2, <1>3, <1>4, ConnectionStep

\* Nothing waits to be read where a call is made: what is under way is its request.
LEMMA CallCall ==
  ASSUME CallInv, NEW c \in Clients, NEW k \in Calls[c], Call(c, k)
  PROVE  CallInv'
<1>1. /\ client[c] = "ready" /\ ~timedOut[c]
      /\ client' = [client EXCEPT ![c] = "calling"] /\ client'[c] = "calling"
      /\ call' = [call EXCEPT ![c] = k] /\ call'[c] = k
      /\ toServer' = [toServer EXCEPT ![c] = @ \o Request(k)]
      /\ toServer'[c] = toServer[c] \o Request(k)
      /\ UNCHANGED <<serverVars, toClient, tries, timedOut, results, cut>>
  BY DEF Call, CallInv, Request
<1>2. ASSUME ~cut'[c] PROVE UncutInv(c)' /\ ResultsInv(c)'
  <2>1. UncutInv(c) /\ ResultsInv(c)
    BY <1>1, <1>2, ConnectionParts
  <2>2. toServer[c] = <<>> /\ toClient[c] = <<>>
    BY <1>1, <2>1 DEF UncutInv
  <2>3. toServer'[c] = Request(k)
    <3>1. Request(k) \in Seq(Byte)
      BY RequestsAnswered
    <3>2. <<>> \o Request(k) = Request(k)
      BY <3>1
    <3> QED BY <1>1, <2>2, <3>2
  <2>4. UncutInv(c)'
    BY <1>1, <2>2, <2>3 DEF UncutInv, serverVars, Request, Reply
  <2>5. ResultsInv(c)'
    BY <1>1, <2>1 DEF ResultsInv, Outcomes, Expected, TimeoutResult, serverVars
  <2> QED BY <2>4, <2>5
<1>3. timedOut'[c] \in BOOLEAN /\ cut'[c] \in BOOLEAN
  BY <1>1, CallInvParts
<1>4. Only(c)
  BY <1>1 DEF CallInv, Only, serverVars, wires
<1> QED BY <1>1, <1>2, <1>3, <1>4, ConnectionStep

\* A call fails at once only where the server is gone.
LEMMA LateCall ==
  ASSUME CallInv, NEW c \in Clients, NEW k \in Calls[c], CallAfterTimeout(c, k)
  PROVE  CallInv'
<1> DEFINE e == [call |-> k, result |-> TimeoutResult]
<1>1. /\ client[c] = "ready" /\ timedOut[c]
      /\ results' = [results EXCEPT ![c] = Append(@, e)] /\ results'[c] = Append(results[c], e)
      /\ UNCHANGED <<serverVars, wires, client, tries, timedOut, call, cut>>
  BY DEF CallAfterTimeout, Returned, CallInv
<1>2. ASSUME ~cut'[c] PROVE UncutInv(c)' /\ ResultsInv(c)'
  <2>1. UncutInv(c) /\ ResultsInv(c)
    BY <1>1, <1>2, ConnectionParts
  <2>2. UncutInv(c)'
    BY <1>1, <2>1 DEF UncutInv, serverVars, wires
  <2>3. server = "down" /\ server' = server
    BY <1>1, <2>1 DEF UncutInv, serverVars
  <2>4. ResultsInv(c)'
    BY <1>1, <2>1, <2>3, ResultAdded
  <2> QED BY <2>2, <2>4
<1>3. /\ timedOut'[c] \in BOOLEAN /\ cut'[c] \in BOOLEAN
      /\ client'[c] \in {"new", "ready", "calling", "gone"} /\ client'[c] # "calling"
  BY <1>1, CallInvParts
<1>4. Only(c)
  BY <1>1 DEF CallInv, Only, serverVars, wires
<1> QED BY <1>2, <1>3, <1>4, ConnectionStep

\* What is read is the answer to the call, if it is read as a whole.
LEMMA ReceiveCall ==
  ASSUME CallInv, NEW c \in Clients, NEW n \in 1 .. Len(toClient[c]), Receive(c, n)
  PROVE  CallInv'
<1> DEFINE k == call[c]
           val == GetValue(SubSeq(toClient[c], 1, n), k.result, Uninit)
           result == [code |-> val.code, value |-> val.value]
           e == [call |-> k, result |-> result]
<1>1. /\ client[c] = "calling" /\ k \in Calls[c]
      /\ toClient' = [toClient EXCEPT ![c] = Rest(@, n)]
      /\ toClient'[c] = Rest(toClient[c], n)
      /\ cut' = [cut EXCEPT ![c] = @ \/ n < Len(toClient[c])]
      /\ cut'[c] = (cut[c] \/ n < Len(toClient[c]))
      /\ UNCHANGED <<serverVars, toServer, tries>>
  BY ConnectionParts DEF Receive, CallInv
<1>2. \/ /\ val.ok
         /\ client' = [client EXCEPT ![c] = "ready"]
         /\ call' = [call EXCEPT ![c] = NoCall]
         /\ timedOut' = [timedOut EXCEPT ![c] = val.code = CodeObject(RPC_RECV_TIMEOUT)]
         /\ results' = [results EXCEPT ![c] = Append(@, e)]
      \/ /\ ~val.ok
         /\ client' = [client EXCEPT ![c] = "gone"]
         /\ UNCHANGED <<call, timedOut, results>>
  BY DEF Receive, Returned
<1>3. ASSUME ~cut'[c]
      PROVE  /\ UncutInv(c) /\ ResultsInv(c) /\ toServer[c] = <<>>
             /\ toClient'[c] = <<>>
             /\ val.ok = TRUE /\ val.code # CodeObject(RPC_RECV_TIMEOUT) /\ result = Expected(k)
  <2>1. UncutInv(c) /\ ResultsInv(c) /\ ~(n < Len(toClient[c]))
    BY <1>1, <1>3, ConnectionParts
  <2>2. toClient[c] # <<>>
    OBVIOUS
  <2>3. toServer[c] = <<>> /\ toClient[c] = Reply(k)
    BY <1>1, <2>1, <2>2 DEF UncutInv
  <2>4. Reply(k) \in Seq(Byte)
    BY <1>1, RepliesAreBytes
  <2>5. n = Len(Reply(k)) /\ SubSeq(toClient[c], 1, n) = Reply(k) /\ Rest(toClient[c], n) = <<>>
    BY <2>1, <2>3, <2>4 DEF Rest
  <2>6. val = GetValue(Reply(k), k.result, Uninit)
    BY <2>5
  <2> DEFINE read == GetValue(Reply(k), k.result, Uninit)
  <2>7. /\ read.ok = TRUE /\ read.code # CodeObject(RPC_RECV_TIMEOUT)
        /\ Expected(k) = [code |-> read.code, value |-> read.value]
    BY <1>1, RepliesRead
  <2> HIDE DEF read, val
  <2>8. val = read
    BY <2>6 DEF read
  <2>9. result = Expected(k) /\ val.ok = TRUE /\ val.code # CodeObject(RPC_RECV_TIMEOUT)
    BY <2>7, <2>8
  <2> QED BY <1>1, <2>1, <2>3, <2>5, <2>9
<1> HIDE DEF val, k
<1>4. CASE val.ok
  <2>1. /\ client' = [client EXCEPT ![c] = "ready"] /\ client'[c] = "ready"
        /\ call' = [call EXCEPT ![c] = NoCall]
        /\ timedOut' = [timedOut EXCEPT ![c] = val.code = CodeObject(RPC_RECV_TIMEOUT)]
        /\ timedOut'[c] = (val.code = CodeObject(RPC_RECV_TIMEOUT))
        /\ results' = [results EXCEPT ![c] = Append(@, e)]
        /\ results'[c] = Append(results[c], e)
    BY <1>2, <1>4 DEF CallInv
  <2>2. ASSUME ~cut'[c] PROVE UncutInv(c)' /\ ResultsInv(c)'
    <3>1. /\ ResultsInv(c) /\ toServer[c] = <<>> /\ toClient'[c] = <<>>
          /\ val.code # CodeObject(RPC_RECV_TIMEOUT) /\ result = Expected(k)
      BY <1>3, <2>2
    <3>2. timedOut'[c] = FALSE /\ toServer'[c] = <<>>
      BY <1>1, <2>1, <3>1
    <3>3. UncutInv(c)'
      BY <2>1, <3>1, <3>2 DEF UncutInv
    <3> HIDE DEF result
    <3>4. ResultsInv(c)'
      BY <1>1, <2>1, <3>1, ResultAdded DEF serverVars
    <3> QED BY <3>3, <3>4
  <2>3. timedOut'[c] \in BOOLEAN /\ cut'[c] \in BOOLEAN
    BY <1>1, <2>1, CallInvParts
  <2>4. Only(c)
    BY <1>1, <2>1 DEF CallInv, Only, serverVars
  <2> QED BY <2>1, <2>2, <2>3, <2>4, ConnectionStep
<1>5. CASE ~val.ok
  <2>1. /\ client' = [client EXCEPT ![c] = "gone"] /\ client'[c] = "gone"
        /\ UNCHANGED <<call, timedOut, results>>
    BY <1>2, <1>5 DEF CallInv
  <2>2. cut'[c]
    BY <1>1, <1>3, <1>5, CallInvParts
  <2>3. timedOut'[c] \in BOOLEAN /\ cut'[c] \in BOOLEAN
    BY <1>1, <2>1, CallInvParts
  <2>4. Only(c)
    BY <1>1, <2>1 DEF CallInv, Only, serverVars
  <2> QED BY <2>1, <2>2, <2>3, <2>4, ConnectionStep
<1> QED BY <1>4, <1>5

\* A server that is gone has sent nothing that was not read.
LEMMA FailsCall ==
  ASSUME CallInv, NEW c \in Clients, ReceiveFails(c)
  PROVE  CallInv'
<1> DEFINE k == call[c]
           e == [call |-> k, result |-> TimeoutResult]
<1>1. /\ client[c] = "calling" /\ k \in Calls[c] /\ server = "down" /\ toClient[c] = <<>>
      /\ client' = [client EXCEPT ![c] = "ready"] /\ client'[c] = "ready"
      /\ call' = [call EXCEPT ![c] = NoCall]
      /\ timedOut' = [timedOut EXCEPT ![c] = TRUE] /\ timedOut'[c] = TRUE
      /\ results' = [results EXCEPT ![c] = Append(@, e)]
      /\ results'[c] = Append(results[c], e)
      /\ UNCHANGED <<serverVars, wires, tries, cut>>
  BY ConnectionParts DEF ReceiveFails, Returned, CallInv
<1> HIDE DEF k
<1>2. ASSUME ~cut'[c] PROVE UncutInv(c)' /\ ResultsInv(c)'
  <2>1. UncutInv(c) /\ ResultsInv(c)
    BY <1>1, <1>2, ConnectionParts
  <2>2. UncutInv(c)'
    BY <1>1 DEF UncutInv, serverVars, wires
  <2>3. server' = server
    BY <1>1 DEF serverVars
  <2>4. ResultsInv(c)'
    BY <1>1, <2>1, <2>3, ResultAdded
  <2> QED BY <2>2, <2>4
<1>3. timedOut'[c] \in BOOLEAN /\ cut'[c] \in BOOLEAN
  BY <1>1, CallInvParts
<1>4. Only(c)
  BY <1>1 DEF CallInv, Only, serverVars, wires
<1> QED BY <1>1, <1>2, <1>3, <1>4, ConnectionStep

\* The server's process starts and ends: the connections are as they were.
LEMMA ServerCall ==
  ASSUME CallInv, Start \/ Stop \/ UNCHANGED vars
  PROVE  CallInv'
<1>1. /\ UNCHANGED <<input, wires, clientVars, cut>>
      /\ serializer' = [t \in Threads |-> <<>>]
      /\ server' \in {"new", "listening", "down"}
      /\ server = "down" => server' = "down"
  BY DEF Start, Stop, NewSerializers, vars, wires, clientVars, CallInv
<1>2. ASSUME NEW c \in Clients PROVE ~cut'[c] => UncutInv(c)' /\ ResultsInv(c)'
  <2>1. ~cut[c] => UncutInv(c) /\ ResultsInv(c)
    BY ConnectionParts
  <2> QED BY <1>1, <2>1, OthersKept DEF wires, clientVars
<1> QED BY <1>1, <1>2 DEF CallInv, wires, clientVars

\* Every step.
LEMMA NextCallInv == CallInv /\ [Next]_vars => CallInv'
<1> SUFFICES ASSUME CallInv, [Next]_vars PROVE CallInv'
  OBVIOUS
<1>1. CASE Start \/ Stop \/ UNCHANGED vars
  BY <1>1, ServerCall
<1>2. ASSUME NEW c \in Clients, ServerStep(c) PROVE CallInv'
  BY <1>2, ServerReadCall DEF ServerStep
<1>3. ASSUME NEW c \in Clients, ClientStep(c) PROVE CallInv'
  BY <1>3, ReceiveCall, FailsCall DEF ClientStep
<1>4. ASSUME NEW c \in Clients, Connect(c) \/ ConnectRefused(c) \/ GiveUp(c) PROVE CallInv'
  BY <1>4, ConnectCall, RefusedCall, GiveUpCall
<1>5. ASSUME NEW c \in Clients, NEW k \in Calls[c], Call(c, k) \/ CallAfterTimeout(c, k)
      PROVE  CallInv'
  BY <1>5, CallCall, LateCall
<1> QED BY <1>1, <1>2, <1>3, <1>4, <1>5 DEF Next

(***************************************************************************)
(* Every call whose messages were each read as a whole returns what the    *)
(* function makes of its own arguments, or a timeout once the server is    *)
(* gone: for any number of clients, threads and calls, any types and any   *)
(* bytes, whatever the thread's other connections called or had cut        *)
(* (RpcServer::onMessage, RpcClient::netCall).                             *)
(***************************************************************************)
THEOREM CallsAnswered == Spec => []WholeCallsAnswered
<1>1. CallInv => WholeCallsAnswered
  <2> SUFFICES ASSUME CallInv, NEW c \in Clients, ~cut[c], NEW i \in DOMAIN results[c]
               PROVE  \/ results[c][i].result = Expected(results[c][i].call)
                      \/ server = "down" /\ results[c][i].result = TimeoutResult
    BY DEF WholeCallsAnswered
  <2>1. ResultsInv(c)
    BY ConnectionParts
  <2>2. DOMAIN results[c] = 1 .. Len(results[c])
    BY <2>1 DEF ResultsInv
  <2> QED BY <2>1, <2>2 DEF ResultsInv
<1> QED BY <1>1, InitCallInv, NextCallInv, PTL DEF Spec

(***************************************************************************)
(* A client's process ends only because it could not connect, or because   *)
(* of an answer that came in pieces (RpcClient::netCall, connect).         *)
(***************************************************************************)
THEOREM AnswersRead == Spec => []WholeAnswersRead
<1>1. CallInv => WholeAnswersRead
  BY DEF CallInv, UncutInv, WholeAnswersRead
<1> QED BY <1>1, InitCallInv, NextCallInv, PTL DEF Spec
=============================================================================
