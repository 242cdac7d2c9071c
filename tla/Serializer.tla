----------------------------- MODULE Serializer -----------------------------
(***************************************************************************)
(* The serializer of the RPC library (rpc/Serializer.h): a stream of bytes *)
(* to which objects and strings are appended and from whose front they are *)
(* taken.  The stream is what can be read from a Buffer (see Buffer.tla);  *)
(* an object is its bytes in memory, lowest first.                         *)
(*                                                                         *)
(* An operation that takes yields a record: the value, what is left of the *)
(* stream, and whether Buffer::retrieve's assert held (ok).                *)
(***************************************************************************)
EXTENDS Naturals, Sequences

CONSTANTS
  Base,       \* how many values a byte has, 256 in the code
  ByteOrder,  \* byteOrder_
  CodeBytes   \* sizeof(RpcStateCode)

Byte == 0 .. Base - 1

ASSUME BaseAssumption == Base \in Nat /\ Base > 2
ASSUME ByteOrderAssumption == ByteOrder \in {"BigEndian", "LittleEndian"}
ASSUME CodeAssumption == CodeBytes \in Nat \ {0}

Reversed(b) == [i \in 1 .. Len(b) |-> b[Len(b) + 1 - i]]

\* reverse2LittleEndian: from the memory's order to the stream's, and back.
Ordered(b) == IF ByteOrder = "BigEndian" THEN Reversed(b) ELSE b

\* The length of a string, as a uint16_t in memory.
Mark(n) == <<n % Base, (n \div Base) % Base>>
MarkValue(b) == b[1] + Base * b[2]
MaxLength == Base * Base - 1

\* strlen: a string ends at its first NUL.
Strlen(str) ==
  CHOOSE n \in 0 .. Len(str) :
    /\ \A i \in 1 .. n : str[i] # 0
    /\ n < Len(str) => str[n + 1] = 0

-----------------------------------------------------------------------------
(* operator<<.                                                             *)

\* inputObj of an object.
PutObject(stream, b) == stream \o Ordered(b)

\* inputObj of a string, whose length is cut to a uint16_t.
PutString(stream, str) ==
  stream \o Ordered(Mark(Strlen(str))) \o SubSeq(str, 1, Strlen(str) % (MaxLength + 1))

-----------------------------------------------------------------------------
(* operator>>.                                                             *)

\* Buffer::retrieve.
Rest(stream, n) == SubSeq(stream, n + 1, Len(stream))

\* outputObj of an object of n bytes, which keeps its value if they are not there.
GetObject(stream, n, old) ==
  IF Len(stream) >= n
    THEN [ok |-> TRUE, value |-> Ordered(SubSeq(stream, 1, n)), rest |-> Rest(stream, n)]
    ELSE [ok |-> TRUE, value |-> old, rest |-> stream]

\* outputObj of a string, inserted before what the string holds: nothing, wherever
\* the library calls it.
GetString(stream) ==
  IF Len(stream) < 2
    THEN [ok |-> FALSE, value |-> <<>>, rest |-> <<>>]
    ELSE LET len  == MarkValue(Ordered(SubSeq(stream, 1, 2)))
             rest == Rest(stream, 2)
         IN  IF Len(rest) < len
               THEN [ok |-> FALSE, value |-> <<>>, rest |-> <<>>]
               ELSE [ok |-> TRUE, value |-> SubSeq(rest, 1, len), rest |-> Rest(rest, len)]

-----------------------------------------------------------------------------
(* Values of a type, and tuples of them.  A type is the number of bytes of *)
(* its objects, and 0 stands for std::string.                              *)

String == 0

Put(stream, type, v) == IF type = String THEN PutString(stream, v) ELSE PutObject(stream, v)

\* old is what the variable holds before.
Get(stream, type, old) ==
  IF type = String THEN GetString(stream) ELSE GetObject(stream, type, old)

\* What a variable that was value-initialised holds.
Zero(type) == [i \in 1 .. type |-> 0]

\* What arrives as it was sent: a string that is neither cut nor ended early, a value
\* of a type.
IsText(str) == str \in Seq(Byte) /\ Len(str) <= MaxLength /\ \A i \in 1 .. Len(str) : str[i] # 0
IsValue(v, type) ==
  IF type = String THEN IsText(v) ELSE type \in Nat /\ v \in Seq(Byte) /\ Len(v) = type

\* packageArgs.
PackageArgs(stream, types, args) ==
  LET put[i \in 0 .. Len(types)] ==
        IF i = 0 THEN stream ELSE Put(put[i - 1], types[i], args[i])
  IN  put[Len(types)]

\* getTuple, one element after the other into a tuple of zeros.
GetTuple(stream, types) ==
  LET get[i \in 0 .. Len(types)] ==
        IF i = 0
          THEN [ok |-> TRUE, value |-> <<>>, rest |-> stream]
          ELSE LET v == Get(get[i - 1].rest, types[i], Zero(types[i]))
               IN  [ok    |-> get[i - 1].ok /\ v.ok,
                    value |-> Append(get[i - 1].value, v.value),
                    rest  |-> v.rest]
  IN  get[Len(types)]

-----------------------------------------------------------------------------
(* value_t, what a call returns.                                           *)

RPC_SUCCESS == 0
RPC_FUNCTION_NOTBIND == 1
RPC_RECV_TIMEOUT == 2

\* stateCode_ as it lies in memory.
CodeObject(code) == [i \in 1 .. CodeBytes |-> IF i = 1 THEN code ELSE 0]

\* type_xx: a function without a result answers with an int8_t.
Void == <<0>>

\* Faulty variant: no message when there is nothing to say.
PutValueNoMessage(stream, type, code, msg, v) ==
  Put(PutObject(stream, CodeObject(code)), type, v)

\* operator<<: value_t's parts are there whatever the code.
PutValue(stream, type, code, msg, v) ==
  Put(PutString(PutObject(stream, CodeObject(code)), msg), type, v)

\* operator>> into a new value_t, whose value_ is uninit unless it is read.
GetValue(stream, type, uninit) ==
  LET code == GetObject(stream, CodeBytes, CodeObject(RPC_SUCCESS))
      msg  == GetString(code.rest)
      v    == IF code.value = CodeObject(RPC_SUCCESS)
                THEN Get(msg.rest, type, uninit)
                ELSE [ok |-> TRUE, value |-> uninit, rest |-> msg.rest]
  IN  [ok |-> msg.ok /\ v.ok, code |-> code.value, msg |-> msg.value, value |-> v.value]
=============================================================================
