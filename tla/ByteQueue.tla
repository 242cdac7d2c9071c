------------------------------ MODULE ByteQueue ------------------------------
(***************************************************************************)
(* What a Buffer promises: a queue of bytes.  Bytes are put at its end,    *)
(* taken from its front, and may be cut out of its middle; what is left    *)
(* stays as it was and in order.                                           *)
(***************************************************************************)
EXTENDS Naturals, Sequences

CONSTANT Char

VARIABLE queue

Init == queue = <<>>

Put(data) == queue' = queue \o data

Take(n) ==
  /\ n <= Len(queue)
  /\ queue' = SubSeq(queue, n + 1, Len(queue))

\* n bytes go, after the first k.
Cut(k, n) ==
  /\ k + n <= Len(queue)
  /\ queue' = SubSeq(queue, 1, k) \o SubSeq(queue, k + n + 1, Len(queue))

Next ==
  \/ \E data \in Seq(Char) : Put(data)
  \/ \E n \in Nat : Take(n)
  \/ \E k, n \in Nat : Cut(k, n)

Spec == Init /\ [][Next]_queue
=============================================================================
