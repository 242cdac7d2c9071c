------------------------ MODULE TcpConnection_proofs ------------------------
(***************************************************************************)
(* Proofs about a connection, for any number of other threads, messages    *)
(* and send buffers of any size: the types, the order of the stream, the   *)
(* graceful shutdown, the order of the callbacks, and the life of the      *)
(* object, up to the asserts that a step out of turn would fail.           *)
(***************************************************************************)
EXTENDS TcpConnection, SequenceTheorems, TLAPS

-----------------------------------------------------------------------------
(* Sequences.                                                              *)

LEMMA Concat ==
  ASSUME NEW S, NEW s \in Seq(S), NEW t \in Seq(S)
  PROVE  /\ s \o t \in Seq(S) /\ Len(s \o t) = Len(s) + Len(t)
         /\ \A i \in 1 .. Len(s) : (s \o t)[i] = s[i]
         /\ \A i \in 1 .. Len(t) : (s \o t)[Len(s) + i] = t[i]
  OBVIOUS

LEMMA Associative ==
  ASSUME NEW r \in Seq(Nat), NEW s \in Seq(Nat), NEW t \in Seq(Nat)
  PROVE  (r \o s) \o t = r \o (s \o t)
  BY ConcatAssociative, SMTT(30)

LEMMA Cut ==
  ASSUME NEW S, NEW s \in Seq(S), NEW n \in 0 .. Len(s)
  PROVE  /\ SubSeq(s, 1, n) \in Seq(S)
         /\ SubSeq(s, n + 1, Len(s)) \in Seq(S)
         /\ SubSeq(s, 1, n) \o SubSeq(s, n + 1, Len(s)) = s
<1> DEFINE a == SubSeq(s, 1, n)
           b == SubSeq(s, n + 1, Len(s))
<1>1. Len(s) \in Nat /\ n \in Nat
  OBVIOUS
<1>2. a \in Seq(S) /\ Len(a) = n /\ \A i \in 1 .. n : a[i] = s[i]
  OBVIOUS
<1>3. b \in Seq(S) /\ Len(b) = Len(s) - n /\ \A i \in 1 .. Len(s) - n : b[i] = s[n + i]
  BY <1>1
<1> HIDE DEF a, b
<1>c. /\ a \o b \in Seq(S) /\ Len(a \o b) = Len(a) + Len(b)
      /\ \A i \in 1 .. Len(a) : (a \o b)[i] = a[i]
      /\ \A i \in 1 .. Len(b) : (a \o b)[Len(a) + i] = b[i]
  BY <1>2, <1>3, Concat
<1> DEFINE c == a \o b
<1> HIDE DEF c
<1>4. c \in Seq(S) /\ Len(c) = Len(s)
  BY <1>1, <1>2, <1>3, <1>c DEF c
<1>5. ASSUME NEW i \in 1 .. Len(s) PROVE c[i] = s[i]
  <2>1. CASE i <= n
    <3>1. i \in 1 .. n
      BY <1>1, <2>1
    <3> QED BY <1>2, <1>c, <3>1 DEF c
  <2>2. CASE i > n
    <3>1. i - n \in 1 .. Len(s) - n /\ n + (i - n) = i
      BY <1>1, <2>2
    <3>2. c[n + (i - n)] = b[i - n]
      BY <1>2, <1>3, <1>c, <3>1 DEF c
    <3> QED BY <1>3, <3>1, <3>2
  <2> QED BY <1>1, <2>1, <2>2
<1>6. c = s
  BY <1>4, <1>5, SeqEqual
<1> QED BY <1>2, <1>3, <1>6 DEF a, b, c

LEMMA UnitsType ==
  ASSUME NEW from \in Nat, NEW n \in Nat
  PROVE  /\ Units(from, n) \in Seq(Nat) /\ Len(Units(from, n)) = n
         /\ \A i \in 1 .. n : Units(from, n)[i] = from + i
  BY DEF Units

\* The units of a message go on where the ones before it end.
LEMMA UnitsJoin ==
  ASSUME NEW a \in Nat, NEW n \in Nat
  PROVE  Units(0, a) \o Units(a, n) = Units(0, a + n)
<1> DEFINE u == Units(0, a)
           v == Units(a, n)
           w == Units(0, a + n)
<1>1. /\ u \in Seq(Nat) /\ Len(u) = a /\ \A i \in 1 .. a : u[i] = 0 + i
      /\ v \in Seq(Nat) /\ Len(v) = n /\ \A i \in 1 .. n : v[i] = a + i
      /\ w \in Seq(Nat) /\ Len(w) = a + n /\ \A i \in 1 .. a + n : w[i] = 0 + i
  <2>1. a + n \in Nat /\ 0 \in Nat
    OBVIOUS
  <2>2. u \in Seq(Nat) /\ Len(u) = a /\ \A i \in 1 .. a : u[i] = 0 + i
    BY <2>1, UnitsType
  <2>3. v \in Seq(Nat) /\ Len(v) = n /\ \A i \in 1 .. n : v[i] = a + i
    BY UnitsType
  <2>4. w \in Seq(Nat) /\ Len(w) = a + n /\ \A i \in 1 .. a + n : w[i] = 0 + i
    BY <2>1, UnitsType
  <2> HIDE DEF u, v, w
  <2> QED BY <2>2, <2>3, <2>4
<1> HIDE DEF u, v, w
<1>2. /\ u \o v \in Seq(Nat) /\ Len(u \o v) = a + n
      /\ \A i \in 1 .. a : (u \o v)[i] = u[i]
      /\ \A i \in 1 .. n : (u \o v)[a + i] = v[i]
  <2>1. /\ u \o v \in Seq(Nat) /\ Len(u \o v) = Len(u) + Len(v)
        /\ \A i \in 1 .. Len(u) : (u \o v)[i] = u[i]
        /\ \A i \in 1 .. Len(v) : (u \o v)[Len(u) + i] = v[i]
    <3>1. u \in Seq(Nat) /\ v \in Seq(Nat)
      BY <1>1
    <3> QED BY <3>1, Concat
  <2> DEFINE c == u \o v
  <2>2. /\ c \in Seq(Nat) /\ Len(c) = Len(u) + Len(v)
        /\ \A i \in 1 .. Len(u) : c[i] = u[i]
        /\ \A i \in 1 .. Len(v) : c[Len(u) + i] = v[i]
    BY <2>1
  <2> HIDE DEF c
  <2>3. /\ c \in Seq(Nat) /\ Len(c) = a + n
        /\ \A i \in 1 .. a : c[i] = u[i]
        /\ \A i \in 1 .. n : c[a + i] = v[i]
    BY <1>1, <2>2
  <2> QED BY <2>3 DEF c
<1> DEFINE c == u \o v
<1>5. /\ c \in Seq(Nat) /\ Len(c) = a + n
      /\ \A i \in 1 .. a : c[i] = u[i]
      /\ \A i \in 1 .. n : c[a + i] = v[i]
  BY <1>2
<1> HIDE DEF c
<1>3. ASSUME NEW i \in 1 .. a + n PROVE c[i] = w[i]
  <2>1. CASE i <= a
    <3>1. i \in 1 .. a
      BY <2>1
    <3> QED BY <1>1, <1>5, <3>1
  <2>2. CASE i > a
    <3>1. i - a \in 1 .. n /\ a + (i - a) = i
      BY <2>2
    <3>2. c[a + (i - a)] = v[i - a]
      BY <1>5, <3>1
    <3>3. w[i] = 0 + i /\ v[i - a] = a + (i - a)
      BY <1>1, <3>1
    <3> QED BY <3>1, <3>2, <3>3
  <2> QED BY <2>1, <2>2
<1>4. c = w
  BY <1>1, <1>5, <1>3, SeqEqual
<1> QED BY <1>4 DEF c, u, v, w

-----------------------------------------------------------------------------
(* The channel.                                                            *)

\* What epoll watches for is nothing, or what is asked for.
LEMMA ChannelChanges ==
  ASSUME NEW ch \in ChannelType
  PROVE  /\ \A e \in {EnableReading(ch), EnableWriting(ch), DisableWriting(ch),
                      DisableAll(ch)} :
              e \in ChannelType /\ e.watched \in {e.events, Unwatched}
         /\ EnableReading(ch).events = ch.events \cup {"read"}
         /\ EnableWriting(ch).events = ch.events \cup {"write"}
         /\ DisableWriting(ch).events = ch.events \ {"write"}
         /\ DisableAll(ch).events = {}
         /\ RemoveChannel(ch) \in ChannelType
         /\ RemoveChannel(ch).events = ch.events
         /\ RemoveChannel(ch).watched = Unwatched
<1>1. ASSUME NEW c \in ChannelType
      PROVE  /\ UpdateChannel(c) \in ChannelType
             /\ UpdateChannel(c).events = c.events
             /\ UpdateChannel(c).watched \in {c.events, Unwatched}
  <2> DEFINE W == (SUBSET Events) \cup {Unwatched}
  <2>1. c.events \in SUBSET Events /\ Unwatched \in W
    <3>1. c.events \in SUBSET Events
      BY DEF ChannelType
    <3>2. Unwatched \in W
      OBVIOUS
    <3> QED BY <3>1, <3>2
  <2>4. c.events \in W
    BY <2>1
  <2>2. UpdateChannel(c) \in
          {[c EXCEPT !.watched = Unwatched, !.state = kDeleted],
           [c EXCEPT !.watched = c.events, !.state = kAdded]}
    <3>1. CASE c.state = kAdded /\ c.events = {}
      BY <3>1 DEF UpdateChannel, Unwatch, ChannelType
    <3>2. CASE ~(c.state = kAdded /\ c.events = {})
      BY <3>2 DEF UpdateChannel, Watch, ChannelType
    <3> QED BY <3>1, <3>2
  <2>3. ASSUME NEW w \in W, NEW k \in {kNew, kAdded, kDeleted}
        PROVE  LET d == [c EXCEPT !.watched = w, !.state = k]
               IN  d \in ChannelType /\ d.events = c.events /\ d.watched = w
    BY DEF ChannelType
  <2> HIDE DEF W
  <2> QED BY <2>1, <2>2, <2>3, <2>4
<1>2. ASSUME NEW s \in SUBSET Events
      PROVE  [ch EXCEPT !.events = s] \in ChannelType /\ [ch EXCEPT !.events = s].events = s
  BY DEF ChannelType
<1>3. /\ ch.events \cup {"read"} \in SUBSET Events
      /\ ch.events \cup {"write"} \in SUBSET Events
      /\ ch.events \ {"write"} \in SUBSET Events
      /\ {} \in SUBSET Events
  BY DEF ChannelType, Events
<1>4. /\ EnableReading(ch) \in ChannelType
      /\ EnableReading(ch).events = ch.events \cup {"read"}
      /\ EnableReading(ch).watched \in {EnableReading(ch).events, Unwatched}
  BY <1>1, <1>2, <1>3 DEF EnableReading
<1>5. /\ EnableWriting(ch) \in ChannelType
      /\ EnableWriting(ch).events = ch.events \cup {"write"}
      /\ EnableWriting(ch).watched \in {EnableWriting(ch).events, Unwatched}
  BY <1>1, <1>2, <1>3 DEF EnableWriting
<1>6. /\ DisableWriting(ch) \in ChannelType
      /\ DisableWriting(ch).events = ch.events \ {"write"}
      /\ DisableWriting(ch).watched \in {DisableWriting(ch).events, Unwatched}
  BY <1>1, <1>2, <1>3 DEF DisableWriting
<1>7. /\ DisableAll(ch) \in ChannelType
      /\ DisableAll(ch).events = {}
      /\ DisableAll(ch).watched \in {DisableAll(ch).events, Unwatched}
  BY <1>1, <1>2, <1>3 DEF DisableAll
<1>8. /\ RemoveChannel(ch) \in ChannelType
      /\ RemoveChannel(ch).events = ch.events
      /\ RemoveChannel(ch).watched = Unwatched
  <2>1. RemoveChannel(ch) = [ch EXCEPT !.watched = Unwatched, !.state = kNew]
    BY DEF RemoveChannel, Unwatch, ChannelType
  <2> DEFINE W == (SUBSET Events) \cup {Unwatched}
  <2>2. ASSUME NEW w \in W, NEW k \in {kNew, kAdded, kDeleted}
        PROVE  LET d == [ch EXCEPT !.watched = w, !.state = k]
               IN  d \in ChannelType /\ d.events = ch.events /\ d.watched = w
    BY DEF ChannelType
  <2>3. Unwatched \in W
    OBVIOUS
  <2> HIDE DEF W
  <2> QED BY <2>1, <2>2, <2>3
<1> QED BY <1>4, <1>5, <1>6, <1>7, <1>8

-----------------------------------------------------------------------------
(* The socket.                                                             *)

SockType == [room : 0 .. SndBuf, wrShut : BOOLEAN, err : {"none", "reset", "dead"},
             fin : BOOLEAN, input : BOOLEAN]

LEMMA RoomChange ==
  ASSUME NEW s \in SockType, NEW r \in 0 .. SndBuf
  PROVE  /\ [s EXCEPT !.room = r] \in SockType
         /\ [s EXCEPT !.room = r].wrShut = s.wrShut
         /\ [s EXCEPT !.room = r].err = s.err
  BY DEF SockType

LEMMA SockChanges ==
  ASSUME NEW s \in SockType
  PROVE  /\ \A e \in {"none", "reset", "dead"} :
              LET t == [s EXCEPT !.err = e]
              IN  t \in SockType /\ t.wrShut = s.wrShut /\ t.err = e /\ t.room = s.room
         /\ LET t == [s EXCEPT !.wrShut = TRUE]
            IN  t \in SockType /\ t.wrShut = TRUE /\ t.err = s.err
         /\ \A b \in BOOLEAN :
              /\ LET t == [s EXCEPT !.input = b]
                 IN  t \in SockType /\ t.wrShut = s.wrShut /\ t.err = s.err
              /\ LET t == [s EXCEPT !.fin = b]
                 IN  t \in SockType /\ t.wrShut = s.wrShut /\ t.err = s.err
  BY DEF SockType

\* A call on a socket takes its pending error, no more.
LEMMA AfterCallType ==
  ASSUME sock \in SockType
  PROVE  /\ AfterCall \in SockType
         /\ AfterCall.room = sock.room
         /\ AfterCall.wrShut = sock.wrShut
         /\ AfterCall.err = "none" <=> sock.err = "none"
<1>1. CASE sock.err = "reset"
  <2>1. AfterCall = [sock EXCEPT !.err = "dead"]
    BY <1>1 DEF AfterCall
  <2> QED BY <1>1, <2>1, SockChanges
<1>2. CASE sock.err # "reset"
  BY <1>2 DEF AfterCall
<1> QED BY <1>1, <1>2

\* write takes what there is room for.
LEMMA FitsType ==
  ASSUME sock \in SockType, NEW n \in Nat
  PROVE  Fits(n) \in 0 .. n /\ sock.room - Fits(n) \in 0 .. SndBuf
<1>1. sock.room \in 0 .. SndBuf /\ SndBuf \in Nat
  BY SizesAssumption DEF SockType
<1> QED BY <1>1 DEF Fits

LEMMA ShutdownType ==
  ASSUME NEW s \in SockType, NEW ch
  PROVE  /\ ShutdownInLoop(s, ch) \in SockType
         /\ ShutdownInLoop(s, ch).err = s.err
         /\ ShutdownInLoop(s, ch).wrShut => s.wrShut \/ ~IsWriting(ch)
<1>1. CASE IsWriting(ch)
  BY <1>1 DEF ShutdownInLoop
<1>2. CASE ~IsWriting(ch)
  BY <1>2, SockChanges DEF ShutdownInLoop
<1> QED BY <1>1, <1>2

-----------------------------------------------------------------------------
(* The data: what sendInThread and handleWrite do.                         *)

\* What waits is being written, and then the write half is not shut.
Flushing(out, ch, s) ==
  /\ out # <<>> => IsWriting(ch)
  /\ s.wrShut /\ s.err = "none" => ~IsWriting(ch)

DataType ==
  /\ sock \in SockType
  /\ channel \in ChannelType
  /\ wire \in Seq(Nat)
  /\ output \in Seq(Nat)
  /\ accepted \in Nat

\* sendInThread, with the choices it makes by name.
LEMMA SendInThreadCases ==
  ASSUME SendInThread
  PROVE  \/ /\ UNCHANGED <<wire, output, accepted, channel>>
            /\ sock' \in {sock, AfterCall}
         \/ \E n \in {0, Fits(MsgLen)} :
              LET data == Units(accepted, MsgLen)
                  kept == SubSeq(data, n + 1, MsgLen)
              IN  /\ ~(Direct /\ Broken)
                  /\ n # 0 => Direct
                  /\ wire' = wire \o SubSeq(data, 1, n)
                  /\ output' = output \o kept
                  /\ accepted' = accepted + MsgLen
                  /\ sock' = IF Direct THEN [AfterCall EXCEPT !.room = @ - n] ELSE sock
                  /\ channel' = IF kept # <<>> /\ ~IsWriting(channel)
                                  THEN EnableWriting(channel) ELSE channel
<1>1. CASE state = "kDisconnected" \/ (Direct /\ Broken)
  BY <1>1 DEF SendInThread, dataVars
<1>2. CASE ~(state = "kDisconnected" \/ (Direct /\ Broken))
  <2> DEFINE n == IF Direct /\ sock.err = "none" THEN Fits(MsgLen) ELSE 0
  <2>1. n \in {0, Fits(MsgLen)} /\ (n # 0 => Direct)
    OBVIOUS
  <2>2. LET data == Units(accepted, MsgLen)
            kept == SubSeq(data, n + 1, MsgLen)
        IN  /\ wire' = wire \o SubSeq(data, 1, n)
            /\ output' = output \o kept
            /\ accepted' = accepted + MsgLen
            /\ sock' = IF Direct THEN [AfterCall EXCEPT !.room = @ - n] ELSE sock
            /\ channel' = IF kept # <<>> /\ ~IsWriting(channel)
                            THEN EnableWriting(channel) ELSE channel
    BY <1>2 DEF SendInThread
  <2> HIDE DEF n
  <2> QED BY <1>2, <2>1, <2>2
<1> QED BY <1>1, <1>2

LEMMA SendInThreadKeeps ==
  ASSUME DataType, StreamInOrder, SendInThread
  PROVE  /\ DataType' /\ StreamInOrder'
         /\ channel' \in {channel, EnableWriting(channel)}
         /\ Flushing(output, channel, sock) => Flushing(output', channel', sock')
<1>1. CASE /\ UNCHANGED <<wire, output, accepted, channel>>
           /\ sock' \in {sock, AfterCall}
  <2>1. sock' \in SockType /\ sock'.wrShut = sock.wrShut /\ (sock'.err = "none" <=> sock.err = "none")
    BY <1>1, AfterCallType DEF DataType
  <2> QED BY <1>1, <2>1 DEF DataType, StreamInOrder, Flushing
<1>2. CASE \E n \in {0, Fits(MsgLen)} :
              LET data == Units(accepted, MsgLen)
                  kept == SubSeq(data, n + 1, MsgLen)
              IN  /\ ~(Direct /\ Broken)
                  /\ n # 0 => Direct
                  /\ wire' = wire \o SubSeq(data, 1, n)
                  /\ output' = output \o kept
                  /\ accepted' = accepted + MsgLen
                  /\ sock' = IF Direct THEN [AfterCall EXCEPT !.room = @ - n] ELSE sock
                  /\ channel' = IF kept # <<>> /\ ~IsWriting(channel)
                                  THEN EnableWriting(channel) ELSE channel
  <2> DEFINE data == Units(accepted, MsgLen)
  <2>1. PICK n \in {0, Fits(MsgLen)} :
          /\ ~(Direct /\ Broken)
          /\ n # 0 => Direct
          /\ wire' = wire \o SubSeq(data, 1, n)
          /\ output' = output \o SubSeq(data, n + 1, MsgLen)
          /\ accepted' = accepted + MsgLen
          /\ sock' = IF Direct THEN [AfterCall EXCEPT !.room = @ - n] ELSE sock
          /\ channel' = IF SubSeq(data, n + 1, MsgLen) # <<>> /\ ~IsWriting(channel)
                          THEN EnableWriting(channel) ELSE channel
    BY <1>2
  <2>2. MsgLen \in Nat /\ accepted \in Nat /\ accepted + MsgLen \in Nat
    BY SizesAssumption DEF DataType
  <2>3. n \in 0 .. MsgLen /\ sock.room - n \in 0 .. SndBuf
    <3>1. sock.room \in 0 .. SndBuf /\ sock.room - 0 = sock.room
      BY SizesAssumption DEF DataType, SockType
    <3>2. CASE n = 0
      BY <2>2, <3>1, <3>2
    <3>3. CASE n = Fits(MsgLen)
      BY <2>2, <3>3, FitsType DEF DataType
    <3> QED BY <3>2, <3>3
  <2>4. data \in Seq(Nat) /\ Len(data) = MsgLen
    BY <2>2, UnitsType
  <2> DEFINE front == SubSeq(data, 1, n)
             kept  == SubSeq(data, n + 1, MsgLen)
  <2> HIDE DEF data
  <2>5. front \in Seq(Nat) /\ kept \in Seq(Nat) /\ front \o kept = data
    BY <2>3, <2>4, Cut
  <2>6. n = 0 => front = <<>>
    BY <2>4
  <2>7. /\ wire' = wire \o front /\ output' = output \o kept
        /\ channel' = IF kept # <<>> /\ ~IsWriting(channel)
                        THEN EnableWriting(channel) ELSE channel
    BY <2>1
  <2> HIDE DEF front, kept
  <2>8. /\ sock' \in SockType /\ sock'.wrShut = sock.wrShut
        /\ sock'.err = "none" <=> sock.err = "none"
    <3>1. CASE Direct
      <4> DEFINE a == AfterCall
      <4>1. /\ a \in SockType /\ a.room = sock.room /\ a.wrShut = sock.wrShut
            /\ a.err = "none" <=> sock.err = "none"
        BY AfterCallType DEF DataType
      <4>2. sock' = [a EXCEPT !.room = a.room - n]
        BY <2>1, <3>1
      <4> DEFINE r == a.room - n
      <4>3. r \in 0 .. SndBuf
        BY <2>3, <4>1
      <4> HIDE DEF a, r
      <4>4. sock' = [a EXCEPT !.room = r]
        BY <4>2 DEF r
      <4> QED BY <4>1, <4>3, <4>4, RoomChange
    <3>2. CASE ~Direct
      BY <2>1, <3>2 DEF DataType
    <3> QED BY <3>1, <3>2
  <2>9. channel' \in {channel, EnableWriting(channel)} /\ channel' \in ChannelType
    BY <2>7, ChannelChanges DEF DataType
  <2>10. DataType'
    <3>1. wire' \in Seq(Nat) /\ output' \in Seq(Nat)
      BY <2>5, <2>7, Concat DEF DataType
    <3> QED BY <2>1, <2>2, <2>8, <2>9, <3>1 DEF DataType
  <2>11. StreamInOrder'
    <3>1. wire \o output = Units(0, accepted)
      BY DEF StreamInOrder
    <3>2. Units(0, accepted) \o data = Units(0, accepted + MsgLen)
      BY <2>2, UnitsJoin DEF data
    <3>3. wire' \o output' = (wire \o output) \o data
      <4>1. CASE Direct
        <5>1. output = <<>> /\ wire \o output = wire /\ output' = kept
          BY <2>5, <2>7, <4>1, ConcatEmptySeq DEF Direct, DataType
        <5>2. (wire \o front) \o kept = wire \o (front \o kept)
          <6>1. /\ wire \in Seq(Nat) /\ output \in Seq(Nat)
                /\ front \in Seq(Nat) /\ kept \in Seq(Nat)
            BY <2>5 DEF DataType
          <6> QED BY <6>1, Associative, SMTT(30)
        <5> QED BY <2>5, <2>7, <5>1, <5>2
      <4>2. CASE ~Direct
        <5>1. front = <<>>
          BY <2>1, <2>6, <4>2
        <5>2. wire' = wire /\ kept = data
          BY <2>5, <2>7, <5>1, ConcatEmptySeq DEF DataType
        <5>3. wire \o (output \o kept) = (wire \o output) \o kept
          <6>1. /\ wire \in Seq(Nat) /\ output \in Seq(Nat)
                /\ front \in Seq(Nat) /\ kept \in Seq(Nat)
            BY <2>5 DEF DataType
          <6> QED BY <6>1, Associative, SMTT(30)
        <5> QED BY <2>7, <5>2, <5>3
      <4> QED BY <4>1, <4>2
    <3> QED BY <2>1, <3>1, <3>2, <3>3 DEF StreamInOrder
  <2>12. ASSUME Flushing(output, channel, sock) PROVE Flushing(output', channel', sock')
    <3>1. IsWriting(EnableWriting(channel))
      BY ChannelChanges DEF DataType, IsWriting
    <3>2. output' # <<>> => IsWriting(channel')
      <4>1. kept = <<>> => output' = output
        BY <2>7, ConcatEmptySeq DEF DataType
      <4> QED BY <2>7, <2>12, <3>1, <4>1 DEF Flushing
    <3>3. ASSUME sock'.wrShut, sock'.err = "none" PROVE ~IsWriting(channel')
      <4>1. sock.wrShut /\ sock.err = "none" /\ ~IsWriting(channel)
        BY <2>8, <2>12, <3>3 DEF Flushing
      <4>2. output = <<>>
        BY <2>12, <4>1 DEF Flushing
      <4>3. Direct /\ Broken
        BY <4>1, <4>2 DEF Direct, Broken
      <4> QED BY <2>1, <4>3
    <3> QED BY <3>2, <3>3 DEF Flushing
  <2> QED BY <2>9, <2>10, <2>11, <2>12
<1> QED BY <1>1, <1>2, SendInThreadCases

LEMMA HandleWriteKeeps ==
  ASSUME DataType, StreamInOrder, HandleWrite
  PROVE  /\ DataType' /\ StreamInOrder'
         /\ channel' \in {channel, DisableWriting(channel)}
         /\ Flushing(output, channel, sock) => Flushing(output', channel', sock')
<1> DEFINE n    == IF sock.wrShut \/ sock.err # "none" THEN 0 ELSE Fits(Len(output))
           rest == SubSeq(output, n + 1, Len(output))
           ch   == IF n > 0 /\ rest = <<>> THEN DisableWriting(channel) ELSE channel
           a    == AfterCall
           s    == [a EXCEPT !.room = a.room - n]
<1>1. accepted' = accepted
  BY DEF HandleWrite
<1>2. CASE ~IsWriting(channel)
  <2>1. UNCHANGED <<wire, output, channel, sock>>
    BY <1>2 DEF HandleWrite
  <2> QED BY <1>1, <2>1 DEF DataType, StreamInOrder, Flushing
<1>3. CASE IsWriting(channel)
  <2>1. /\ wire' = wire \o SubSeq(output, 1, n)
        /\ output' = rest
        /\ channel' = ch
        /\ sock' = DeferredShutdown(s, channel, ch)
    BY <1>3 DEF HandleWrite
  <2>2. Len(output) \in Nat /\ output \in Seq(Nat)
    BY DEF DataType
  <2>3. n \in 0 .. Len(output) /\ sock.room - n \in 0 .. SndBuf
    <3>1. sock.room \in 0 .. SndBuf /\ sock.room - 0 = sock.room
      BY SizesAssumption DEF DataType, SockType
    <3>2. /\ Fits(Len(output)) \in 0 .. Len(output)
          /\ sock.room - Fits(Len(output)) \in 0 .. SndBuf
      BY <2>2, FitsType DEF DataType
    <3> QED BY <2>2, <3>1, <3>2
  <2> HIDE DEF n
  <2>4. /\ SubSeq(output, 1, n) \in Seq(Nat) /\ rest \in Seq(Nat)
        /\ SubSeq(output, 1, n) \o rest = output
    BY <2>2, <2>3, Cut
  <2>5. output = <<>> => rest = <<>>
    BY <2>2, <2>3
  <2> DEFINE front == SubSeq(output, 1, n)
  <2>6. front \in Seq(Nat) /\ front \o rest = output /\ wire' = wire \o front
    BY <2>1, <2>4
  <2> HIDE DEF front, rest
  <2>7. /\ s \in SockType /\ s.wrShut = sock.wrShut
        /\ s.err = "none" <=> sock.err = "none"
    <3>1. /\ a \in SockType /\ a.room = sock.room /\ a.wrShut = sock.wrShut
          /\ a.err = "none" <=> sock.err = "none"
      BY AfterCallType DEF DataType
    <3> DEFINE r == a.room - n
    <3>2. r \in 0 .. SndBuf
      BY <2>3, <3>1
    <3>3. s = [a EXCEPT !.room = r]
      OBVIOUS
    <3> HIDE DEF a, r, s
    <3> QED BY <3>1, <3>2, <3>3, RoomChange
  <2> HIDE DEF s
  <2>8. ch \in {channel, DisableWriting(channel)} /\ ch \in ChannelType
    BY ChannelChanges DEF DataType
  <2>9. /\ sock' \in SockType /\ sock'.err = s.err
        /\ sock'.wrShut => s.wrShut \/ ~IsWriting(ch)
    BY <2>1, <2>7, ShutdownType DEF DeferredShutdown
  <2>10. DataType'
    BY <1>1, <2>1, <2>4, <2>6, <2>8, <2>9, Concat DEF DataType
  <2>11. StreamInOrder'
    <3>1. (wire \o front) \o rest = wire \o (front \o rest)
      <4>1. wire \in Seq(Nat) /\ front \in Seq(Nat) /\ rest \in Seq(Nat)
        BY <2>4, <2>6 DEF DataType
      <4> QED BY <4>1, Associative
    <3> QED BY <1>1, <2>1, <2>6, <3>1 DEF StreamInOrder
  <2>12. ASSUME Flushing(output, channel, sock) PROVE Flushing(output', channel', sock')
    <3>1. output' # <<>> => IsWriting(channel')
      BY <1>3, <2>1
    <3>2. ~(sock.wrShut /\ sock.err = "none")
      BY <1>3, <2>12 DEF Flushing
    <3>3. sock'.wrShut /\ sock'.err = "none" => ~IsWriting(channel')
      BY <2>1, <2>7, <2>9, <3>2
    <3> QED BY <3>1, <3>3 DEF Flushing
  <2> QED BY <2>1, <2>8, <2>10, <2>11, <2>12
<1> QED BY <1>2, <1>3

-----------------------------------------------------------------------------
(* The types of what is not data.                                          *)

Calls == {"up", "down"}

ControlType ==
  /\ sameLoop \in BOOLEAN
  /\ state \in States
  /\ ioPc \in {"poll", "event", "callback", "cleanup", "remove", "swap", "functors", "stopped",
               "aborted"}
  /\ after \in {"event", "cleanup", "remove", "functors"}
  /\ revents \in SUBSET {"close", "err", "read", "write"}
  /\ pending \in Seq(Functors)
  /\ batch \in Seq(Functors)
  /\ batchHolds \in BOOLEAN
  /\ removals \in Nat
  /\ inMap \in BOOLEAN
  /\ holders \in SUBSET Users
  /\ userPc \in [Users -> {"idle", "send", "setState", "shutdown"}]
  /\ serverAlive \in BOOLEAN
  /\ failure \in {"none", "handleClose", "remove", "freed"}
  /\ callbacks \in Seq(Calls)
  /\ overClose \in BOOLEAN
  /\ late \in BOOLEAN
  /\ sends \in Nat
  /\ received \in Nat

LEMMA TypeOKParts == TypeOK <=> ControlType /\ DataType
  BY DEF TypeOK, ControlType, DataType, SockType, Calls

\* Functors that are queued, swapped and run.
LEMMA QueueTypes ==
  ASSUME NEW q \in Seq(Functors)
  PROVE  /\ \A f \in Functors : Append(q, f) \in Seq(Functors)
         /\ q # <<>> => Tail(q) \in Seq(Functors) /\ Head(q) \in Functors
         /\ <<>> \in Seq(Functors)
  OBVIOUS

LEMMA CallTypes ==
  ASSUME NEW c \in Seq(Calls)
  PROVE  Append(c, "up") \in Seq(Calls) /\ Append(c, "down") \in Seq(Calls)
  BY DEF Calls

LEMMA RunInLoopTypes ==
  ASSUME ControlType, NEW f \in Functors, RunInLoop(f)
  PROVE  /\ pending' \in Seq(Functors)
         /\ ioPc' \in {"poll", "event", "callback", "cleanup", "remove", "swap", "functors",
                       "stopped", "aborted"}
         /\ failure' \in {"none", "handleClose", "remove", "freed"}
         /\ late' \in BOOLEAN
  BY QueueTypes DEF RunInLoop, Fail, Post, ControlType

LEMMA LoopTypes ==
  ASSUME ControlType, IoLoop
  PROVE  ControlType'
<1> USE DEF ioVars, queueVars, ownerVars, dataVars, envVars
<1>f. /\ "established" \in Functors /\ "destroyed" \in Functors
      /\ "send" \in Functors /\ "shutdown" \in Functors
  BY DEF Functors
<1>s. States = {"kConnecting", "kConnected", "kDisconnecting", "kDisconnected"}
  BY DEF States
<1>1. CASE LoopSend
  BY <1>1 DEF LoopSend, ControlType
<1>2. CASE LoopShutdown
  BY <1>2, <1>s DEF LoopShutdown, ControlType
<1>3. ASSUME NEW u \in Users, GiveRef(u) PROVE ControlType'
  BY <1>3 DEF GiveRef, ControlType
<1>4. CASE CallbackReturns
  BY <1>4 DEF CallbackReturns, ControlType
<1>5. CASE PollEvents
  <2>1. revents' \in SUBSET {"close", "err", "read", "write"}
    BY <1>5 DEF PollEvents, Handled
  <2> QED BY <1>5, <2>1 DEF PollEvents, ControlType
<1>6. CASE PollWakeup
  BY <1>6 DEF PollWakeup, ControlType
<1>7. CASE HandleError
  BY <1>7 DEF HandleError, ControlType
<1>8. CASE HandleMessage
  BY <1>8 DEF HandleMessage, ControlType
<1>9. ASSUME NEW e \in {"read", "close"}, HandleClose(e) PROVE ControlType'
  <2>1. /\ state' \in {state, "kDisconnected"} /\ after' \in {after, "cleanup"}
        /\ callbacks' \in {callbacks, Append(callbacks, "down")}
        /\ ioPc' \in {"callback", "aborted"} /\ failure' \in {failure, "handleClose"}
    BY <1>9 DEF HandleClose, Fail
  <2>2. callbacks' \in Seq(Calls)
    BY <2>1, CallTypes DEF ControlType
  <2>3. revents' = revents \ {e} /\ UNCHANGED <<queueVars, ownerVars, envVars>>
    BY <1>9 DEF HandleClose
  <2> QED BY <1>s, <2>1, <2>2, <2>3 DEF ControlType
<1>10. CASE Cleanup
  <2>0. removals + 1 \in Nat
    BY DEF ControlType
  <2>1. /\ inMap' \in BOOLEAN /\ removals' \in Nat
        /\ (pending' = Append(pending, "destroyed") \/ pending' = pending)
    <3>1. CASE sameLoop
      BY <1>10, <3>1 DEF Cleanup, Post, ControlType
    <3>2. CASE ~sameLoop
      BY <1>10, <2>0, <3>2 DEF Cleanup, ControlType
    <3> QED BY <3>1, <3>2
  <2>2. pending' \in Seq(Functors)
    BY <1>f, <2>1, QueueTypes DEF ControlType
  <2>3. ioPc' \in {"event", "aborted"} /\ failure' \in {failure, "freed"}
    BY <1>10 DEF Cleanup, Fail
  <2> QED BY <1>10, <2>1, <2>2, <2>3 DEF Cleanup, ControlType
<1>11. CASE HandleWrite
  BY <1>11 DEF HandleWrite, ControlType
<1>12. CASE EventsDone
  BY <1>12 DEF EventsDone, ControlType
<1>13. CASE StopLoop
  BY <1>13, QueueTypes DEF StopLoop, ControlType
<1>14. CASE SwapFunctors
  BY <1>14, QueueTypes DEF SwapFunctors, ControlType
<1>15. CASE FunctorsDone
  BY <1>15 DEF FunctorsDone, ControlType
<1>16. CASE ConnectionEstablished
  <2>1. batch' \in Seq(Functors) /\ callbacks' \in Seq(Calls)
    BY <1>16, QueueTypes, CallTypes DEF ConnectionEstablished, NextFunctor, ControlType
  <2> QED BY <1>16, <1>s, <2>1 DEF ConnectionEstablished, ControlType
<1>17. CASE ConnectionDestroyed
  <2>1. /\ state' \in {state, "kDisconnected"} /\ after' \in {after, "remove"}
        /\ callbacks' \in {callbacks, Append(callbacks, "down")}
        /\ ioPc' \in {"callback", "remove"}
    BY <1>17 DEF ConnectionDestroyed
  <2>2. batch' \in Seq(Functors) /\ callbacks' \in Seq(Calls)
    BY <1>17, <2>1, QueueTypes, CallTypes DEF ConnectionDestroyed, NextFunctor, ControlType
  <2>3. UNCHANGED <<revents, pending, batchHolds, removals, ownerVars, failure, envVars>>
    BY <1>17 DEF ConnectionDestroyed
  <2> QED BY <1>s, <2>1, <2>2, <2>3 DEF ControlType
<1>18. CASE RemoveFromPoller
  BY <1>18 DEF RemoveFromPoller, Fail, ControlType
<1>19. CASE RunSend
  BY <1>19, QueueTypes DEF RunSend, NextFunctor, Fail, ControlType
<1>20. CASE RunShutdown
  BY <1>20, QueueTypes DEF RunShutdown, NextFunctor, Fail, ControlType
<1> QED BY <1>1, <1>2, <1>3, <1>4, <1>5, <1>6, <1>7, <1>8, <1>9, <1>10, <1>11, <1>12, <1>13,
           <1>14, <1>15, <1>16, <1>17, <1>18, <1>19, <1>20 DEF IoLoop

LEMMA ControlTypes ==
  ASSUME ControlType, [Next]_vars
  PROVE  ControlType'
<1> USE DEF ioVars, queueVars, ownerVars, dataVars, envVars
<1>f. "destroyed" \in Functors /\ "send" \in Functors /\ "shutdown" \in Functors
  BY DEF Functors
<1>1. CASE IoLoop
  BY <1>1, LoopTypes
<1>2. ASSUME NEW u \in Users, User(u) PROVE ControlType'
  <2>1. CASE SendCheck(u)
    BY <2>1 DEF SendCheck, ControlType
  <2>2. CASE SendPost(u)
    BY <2>2, <1>f, RunInLoopTypes DEF SendPost, ControlType
  <2>3. CASE ShutdownCheck(u)
    BY <2>3 DEF ShutdownCheck, ControlType
  <2>4. CASE ShutdownSet(u)
    BY <2>4 DEF ShutdownSet, States, ControlType
  <2>5. CASE ShutdownPost(u)
    BY <2>5, <1>f, RunInLoopTypes DEF ShutdownPost, ControlType
  <2>6. CASE DropRef(u)
    BY <2>6 DEF DropRef, ControlType
  <2> QED BY <1>2, <2>1, <2>2, <2>3, <2>4, <2>5, <2>6 DEF User
<1>3. CASE RemoveConnectionInLoop
  <2>0. removals' \in Nat
    BY <1>3 DEF RemoveConnectionInLoop, ControlType
  <2>1. /\ inMap' \in BOOLEAN /\ removals' \in Nat
        /\ (pending' = Append(pending, "destroyed") \/ pending' = pending)
    <3>1. CASE serverAlive
      BY <1>3, <2>0, <3>1 DEF RemoveConnectionInLoop, Post, ControlType
    <3>2. CASE ~serverAlive
      BY <1>3, <2>0, <3>2 DEF RemoveConnectionInLoop, ControlType
    <3> QED BY <3>1, <3>2
  <2>2. pending' \in Seq(Functors)
    BY <1>f, <2>1, QueueTypes DEF ControlType
  <2> QED BY <1>3, <2>1, <2>2 DEF RemoveConnectionInLoop, Fail, ControlType
<1>4. CASE DestroyServer
  <2>1. /\ pending' \in {pending, Append(pending, "destroyed")}
        /\ batch' \in {batch, <<"destroyed">>}
        /\ batchHolds' \in {batchHolds, TRUE} /\ ioPc' \in {ioPc, "functors"}
    BY <1>4 DEF DestroyServer, Post
  <2>2. <<"destroyed">> \in Seq(Functors)
    BY <1>f
  <2>3. pending' \in Seq(Functors) /\ batch' \in Seq(Functors)
    BY <1>f, <2>1, <2>2, QueueTypes DEF ControlType
  <2> QED BY <1>4, <2>1, <2>3 DEF DestroyServer, ControlType
<1>5. CASE Peer
  BY <1>5 DEF Peer, PeerSends, PeerDrains, PeerCloses, PeerResets, Environment, ControlType
<1>6. CASE UNCHANGED vars
  BY <1>6 DEF vars, ControlType
<1> QED BY <1>1, <1>2, <1>3, <1>4, <1>5, <1>6 DEF Next

-----------------------------------------------------------------------------
(* The stream and the half-close.                                          *)

\* The connection has not gone down.
NotDown == callbacks \in {<<>>, <<"up">>}

\* FlushedBeforeShutdown alone is not inductive: what handleWrite has yet to send
\* must also keep the channel writing, and the write half open.
FlushInv == NotDown => Flushing(output, channel, sock)

StreamInv == ControlType /\ DataType /\ StreamInOrder /\ FlushInv

LEMMA CallsGrow ==
  ASSUME NEW c \in Seq(Calls)
  PROVE  /\ Append(c, "down") \notin {<<>>, <<"up">>}
         /\ Append(c, "up") \in {<<>>, <<"up">>} => c = <<>>
<1>1. ASSUME NEW x \in Calls
      PROVE  /\ Len(Append(c, x)) = Len(c) + 1 /\ Append(c, x)[Len(c) + 1] = x
             /\ Len(c) \in Nat
  OBVIOUS
<1>2. "up" \in Calls /\ "down" \in Calls
  BY DEF Calls
<1>3. Len(<<>>) = 0 /\ Len(<<"up">>) = 1 /\ <<"up">>[1] = "up"
  OBVIOUS
<1>4. ASSUME NEW x \in Calls, Append(c, x) \in {<<>>, <<"up">>}
      PROVE  Len(c) = 0 /\ x = "up"
  <2>1. Len(Append(c, x)) # 0
    BY <1>1
  <2>2. Append(c, x) = <<"up">>
    BY <1>3, <1>4, <2>1
  <2>3. Len(c) = 0
    <3> DEFINE n == Len(c)
    <3>1. Len(Append(c, x)) = n + 1 /\ n \in Nat
      BY <1>1, LenProperties
    <3>2. n + 1 = 1
      BY <1>3, <2>2, <3>1
    <3> HIDE DEF n
    <3>3. n = 0
      BY <3>1, <3>2
    <3> QED BY <3>3 DEF n
  <2> QED BY <1>1, <1>3, <2>2, <2>3
<1>5. Len(c) = 0 => c = <<>>
  BY EmptySeq
<1> QED BY <1>2, <1>4, <1>5

\* The socket changes in what FlushInv does not speak of, or gets an error.
LEMMA SameFlushing ==
  ASSUME StreamInv, callbacks' = callbacks, UNCHANGED <<output, wire, accepted, channel>>,
         sock' \in SockType, sock'.wrShut => sock.wrShut \/ ~IsWriting(channel),
         sock'.err = "none" => sock.err = "none"
  PROVE  DataType' /\ StreamInOrder' /\ FlushInv'
<1>1. Flushing(output, channel, sock) => Flushing(output', channel', sock')
  BY DEF Flushing
<1> QED BY <1>1 DEF StreamInv, DataType, StreamInOrder, FlushInv, NotDown

LEMMA Untouched ==
  ASSUME StreamInv, UNCHANGED <<output, wire, accepted, channel, sock, callbacks>>
  PROVE  DataType' /\ StreamInOrder' /\ FlushInv'
  BY DEF StreamInv, DataType, StreamInOrder, FlushInv, NotDown

\* The connection goes down: nothing is asked for any more.
LEMMA GoesDown ==
  ASSUME StreamInv, UNCHANGED <<output, wire, accepted, sock>>,
         channel' \in ChannelType, callbacks' = Append(callbacks, "down")
  PROVE  DataType' /\ StreamInOrder' /\ FlushInv'
<1>1. ~NotDown'
  BY CallsGrow DEF StreamInv, ControlType, NotDown
<1> QED BY <1>1 DEF StreamInv, DataType, StreamInOrder, FlushInv

LEMMA LoopStream ==
  ASSUME StreamInv, IoLoop
  PROVE  DataType' /\ StreamInOrder' /\ FlushInv'
<1> USE DEF dataVars
<1>t. DataType /\ ControlType /\ StreamInOrder /\ FlushInv /\ sock \in SockType /\ channel \in ChannelType
  BY DEF StreamInv, DataType
<1>1. ASSUME SendInThread, callbacks' = callbacks
      PROVE  DataType' /\ StreamInOrder' /\ FlushInv'
  BY <1>1, <1>t, SendInThreadKeeps DEF FlushInv, NotDown
<1>2. CASE LoopSend
  <2>1. CASE state = "kConnected"
    BY <1>1, <1>2, <2>1 DEF LoopSend
  <2>2. CASE state # "kConnected"
    BY <1>2, <2>2, Untouched DEF LoopSend
  <2> QED BY <2>1, <2>2
<1>3. CASE RunSend
  <2>1. CASE Alive
    BY <1>1, <1>3, <2>1 DEF RunSend
  <2>2. CASE ~Alive
    BY <1>3, <2>2, Untouched DEF RunSend
  <2> QED BY <2>1, <2>2
<1>4. ASSUME sock' = ShutdownInLoop(sock, channel), callbacks' = callbacks,
             UNCHANGED <<dataVars, channel>>
      PROVE  DataType' /\ StreamInOrder' /\ FlushInv'
  BY <1>4, <1>t, ShutdownType, SameFlushing
<1>5. CASE LoopShutdown
  BY <1>4, <1>5 DEF LoopShutdown
<1>6. CASE RunShutdown
  <2>1. CASE Alive
    BY <1>4, <1>6, <2>1 DEF RunShutdown
  <2>2. CASE ~Alive
    BY <1>6, <2>2, Untouched DEF RunShutdown
  <2> QED BY <2>1, <2>2
<1>7. CASE HandleWrite
  BY <1>7, <1>t, HandleWriteKeeps DEF HandleWrite, FlushInv, NotDown
<1>8. CASE HandleError
  BY <1>8, <1>t, AfterCallType, SameFlushing DEF HandleError
<1>9. CASE HandleMessage
  BY <1>9, <1>t, SockChanges, SameFlushing DEF HandleMessage
<1>10. ASSUME NEW e \in {"read", "close"}, HandleClose(e)
       PROVE  DataType' /\ StreamInOrder' /\ FlushInv'
  <2>1. CASE state \in {"kConnected", "kDisconnecting"}
    BY <1>10, <1>t, <2>1, ChannelChanges, GoesDown DEF HandleClose
  <2>2. CASE state \notin {"kConnected", "kDisconnecting"}
    BY <1>10, <2>2, Untouched DEF HandleClose
  <2> QED BY <2>1, <2>2
<1>11. CASE ConnectionDestroyed
  <2>1. CASE state = "kConnected"
    BY <1>11, <1>t, <2>1, ChannelChanges, GoesDown DEF ConnectionDestroyed
  <2>2. CASE state # "kConnected"
    BY <1>11, <2>2, Untouched DEF ConnectionDestroyed
  <2> QED BY <2>1, <2>2
<1>12. ASSUME channel' \in ChannelType, UNCHANGED <<dataVars, sock>>,
              IsWriting(channel') <=> IsWriting(channel), NotDown' => NotDown
       PROVE  DataType' /\ StreamInOrder' /\ FlushInv'
  BY <1>12, <1>t DEF DataType, StreamInOrder, FlushInv, Flushing
<1>13. CASE ConnectionEstablished
  <2>1. channel' = EnableReading(channel) /\ callbacks' = Append(callbacks, "up")
        /\ UNCHANGED <<dataVars, sock>>
    BY <1>13 DEF ConnectionEstablished
  <2>2. channel' \in ChannelType /\ (IsWriting(channel') <=> IsWriting(channel))
    BY <1>t, <2>1, ChannelChanges DEF IsWriting
  <2>3. NotDown' => NotDown
    BY <1>t, <2>1, CallsGrow DEF NotDown, ControlType
  <2> QED BY <1>12, <2>1, <2>2, <2>3
<1>14. CASE RemoveFromPoller
  <2>1. channel' = RemoveChannel(channel) \/ channel' = channel
    BY <1>14 DEF RemoveFromPoller
  <2>2. channel' \in ChannelType /\ (IsWriting(channel') <=> IsWriting(channel))
    BY <1>t, <2>1, ChannelChanges DEF IsWriting
  <2>3. UNCHANGED <<dataVars, sock>> /\ callbacks' = callbacks
    BY <1>14 DEF RemoveFromPoller
  <2> QED BY <1>12, <2>2, <2>3 DEF NotDown
<1>15. CASE \/ \E u \in Users : GiveRef(u)
            \/ CallbackReturns \/ PollEvents \/ PollWakeup \/ Cleanup \/ EventsDone \/ StopLoop
            \/ SwapFunctors \/ FunctorsDone
  BY <1>15, Untouched DEF GiveRef, CallbackReturns, PollEvents, PollWakeup, Cleanup, EventsDone,
                          StopLoop, SwapFunctors, FunctorsDone
<1> QED BY <1>2, <1>3, <1>5, <1>6, <1>7, <1>8, <1>9, <1>10, <1>11, <1>13, <1>14, <1>15 DEF IoLoop

LEMMA StreamStep ==
  ASSUME StreamInv, [Next]_vars
  PROVE  StreamInv'
<1>c. ControlType'
  BY ControlTypes DEF StreamInv
<1>t. sock \in SockType
  BY DEF StreamInv, DataType
<1>1. CASE IoLoop
  BY <1>1, <1>c, LoopStream DEF StreamInv
<1>2. CASE \/ \E u \in Users : User(u)
           \/ RemoveConnectionInLoop \/ DestroyServer \/ UNCHANGED vars
  BY <1>2, <1>c, Untouched
     DEF StreamInv, User, SendCheck, SendPost, ShutdownCheck, ShutdownSet, ShutdownPost, DropRef,
         RemoveConnectionInLoop, DestroyServer, vars, dataVars
<1>3. CASE Peer
  <2>1. sock' \in SockType /\ sock'.wrShut = sock.wrShut
        /\ (sock'.err = "none" => sock.err = "none")
    <3>1. CASE PeerSends
      BY <1>t, <3>1, SockChanges DEF PeerSends, Environment
    <3>2. CASE PeerDrains
      <4>1. SndBuf \in 0 .. SndBuf
        BY SizesAssumption
      <4> QED BY <1>t, <3>2, <4>1, RoomChange DEF PeerDrains, Environment
    <3>3. CASE PeerCloses
      BY <1>t, <3>3, SockChanges DEF PeerCloses, Environment
    <3>4. CASE PeerResets
      BY <1>t, <3>4, SockChanges DEF PeerResets, Environment
    <3> QED BY <1>3, <3>1, <3>2, <3>3, <3>4 DEF Peer
  <2>2. UNCHANGED <<output, wire, accepted, channel, callbacks>>
    BY <1>3 DEF Peer, PeerSends, PeerDrains, PeerCloses, PeerResets, Environment, dataVars
  <2> QED BY <1>c, <2>1, <2>2, SameFlushing DEF StreamInv
<1> QED BY <1>1, <1>2, <1>3 DEF Next

LEMMA InitStream == Init => StreamInv
<1> SUFFICES ASSUME Init PROVE StreamInv
  OBVIOUS
<1>1. DataType
  <2>1. /\ NewChannel \in ChannelType
        /\ SndBuf \in 0 .. SndBuf
    BY SizesAssumption DEF NewChannel, ChannelType, Events, kNew, kAdded, kDeleted
  <2> QED BY <2>1 DEF Init, DataType, SockType
<1>2. ControlType
  <2>1. <<>> \in Seq(Functors) /\ <<"established">> \in Seq(Functors) /\ <<>> \in Seq(Calls)
    BY DEF Functors
  <2> QED BY <2>1 DEF Init, ControlType, States
<1>3. StreamInOrder
  <2>1. <<>> \o <<>> = <<>>
    OBVIOUS
  <2>2. Units(0, 0) = <<>>
    BY DEF Units
  <2> QED BY <2>1, <2>2 DEF Init, StreamInOrder
<1>4. FlushInv
  BY DEF Init, FlushInv, Flushing
<1> QED BY <1>1, <1>2, <1>3, <1>4 DEF StreamInv

\* What is proved of the connection's data holds in every reachable state.
THEOREM Stream == Spec => []StreamInv
<1>1. Init => StreamInv
  BY InitStream
<1>2. StreamInv /\ [Next]_vars => StreamInv'
  BY StreamStep
<1> QED BY <1>1, <1>2, PTL DEF Spec

\* Every variable keeps its type: among them, the socket's room stays within its
\* buffer whatever handleWrite and sendInThread give it.
THEOREM TypeCorrect == Spec => []TypeOK
<1>1. StreamInv => TypeOK
  BY TypeOKParts DEF StreamInv
<1> QED BY <1>1, Stream, PTL

\* The bytes given to the socket, followed by outputBuffer_, are those that
\* sendInThread accepted, in its order: for any number of threads, any message and
\* any room in the socket.
THEOREM BytesInOrder == Spec => []StreamInOrder
<1>1. StreamInv => StreamInOrder
  BY DEF StreamInv
<1> QED BY <1>1, Stream, PTL

\* shutdownInLoop and the deferred shutdown of handleWrite shut the write half only
\* of an up connection whose outputBuffer_ has been flushed.
THEOREM GracefulShutdown == Spec => []FlushedBeforeShutdown
<1>1. StreamInv => FlushedBeforeShutdown
  BY DEF StreamInv, FlushInv, NotDown, Flushing, FlushedBeforeShutdown
<1> QED BY <1>1, Stream, PTL

-----------------------------------------------------------------------------
(* The order of the callbacks.                                             *)

\* CallbackProtocol is about callbacks alone; it holds because state_ tells what the
\* user has been called with, because connectionEstablished runs first and once, and
\* because only a connection that is up asks its poller to be told of input.
Established(q) == \A i \in DOMAIN q : q[i] = "established" => i = 1 /\ state = "kConnecting"

CallsOfState ==
  \/ state = "kConnecting" /\ callbacks = <<>>
  \/ state \in {"kConnected", "kDisconnecting"} /\ callbacks = <<"up">>
  \/ state = "kDisconnected" /\ callbacks = <<"up", "down">>

FirstOnce ==
  /\ Established(pending) /\ Established(batch)
  /\ (\E i \in DOMAIN pending : pending[i] = "established") => batch = <<>>

StateInv ==
  /\ \A u \in Users : userPc[u] = "setState" => state # "kConnecting"
  /\ FirstOnce
  /\ ~overClose => CallsOfState

Up == callbacks = <<"up">>

Reads(ch) == "read" \in ch.events \cup ch.watched

\* Outside Channel::handleEvent there is no event left to handle.
EventsHandled ==
  ioPc \in {"poll", "swap", "functors", "remove"} \/ (InCallback /\ after \in {"functors", "remove"})

ReadInv ==
  /\ EventsHandled => revents = {}
  /\ ~overClose => /\ Reads(channel) => Up
                   /\ "read" \in revents => Up /\ "close" \notin revents
                   /\ InCallback /\ after = "event" => Up

\* Queueing anything but connectionEstablished.
LEMMA EstablishedAppend ==
  ASSUME ControlType, NEW f \in Functors \ {"established"}, pending' = Append(pending, f),
         batch' = batch, state' = state, FirstOnce
  PROVE  FirstOnce'
<1>1. \A i \in DOMAIN pending' : pending'[i] = "established"
         => i \in DOMAIN pending /\ pending[i] = "established"
  BY AppendProperties, LenProperties DEF ControlType
<1> QED BY <1>1 DEF FirstOnce, Established

\* Once a functor has been taken out, no connectionEstablished waits.
LEMMA EstablishedTail ==
  ASSUME ControlType, FirstOnce, NEW f, NextFunctor(f), pending' = pending
  PROVE  FirstOnce' /\ (f = "established" => state = "kConnecting")
<1>1. batch # <<>> /\ batch' = Tail(batch) /\ batch \in Seq(Functors) /\ Head(batch) = f
  BY DEF NextFunctor, ControlType
<1>2. \A i \in DOMAIN batch' : i + 1 \in DOMAIN batch /\ batch'[i] = batch[i + 1] /\ i + 1 # 1
  BY <1>1, HeadTailProperties, LenProperties
<1>3. \A i \in DOMAIN batch' : batch'[i] # "established"
  BY <1>2 DEF FirstOnce, Established
<1>4. \A i \in DOMAIN pending : pending[i] # "established"
  BY <1>1 DEF FirstOnce
<1>5. 1 \in DOMAIN batch /\ batch[1] = f
  BY <1>1, LenProperties, EmptySeq
<1>6. FirstOnce'
  BY <1>3, <1>4 DEF FirstOnce, Established
<1> QED BY <1>1, <1>5, <1>6 DEF FirstOnce, Established

\* What is not the queues, state_ or the calls.
LEMMA SameState ==
  ASSUME StateInv, UNCHANGED <<state, callbacks, overClose>>, FirstOnce',
         \A u \in Users : userPc'[u] = "setState" => userPc[u] = "setState" \/ state = "kConnected"
  PROVE  StateInv'
  BY DEF StateInv, CallsOfState

LEMMA StateStep ==
  ASSUME ControlType, StateInv, [Next]_vars
  PROVE  StateInv'
<1> USE DEF ioVars, queueVars, ownerVars, dataVars, envVars
<1>q. FirstOnce
  BY DEF StateInv
<1>p. ASSUME UNCHANGED <<state, pending, batch>> PROVE FirstOnce'
  BY <1>p, <1>q DEF FirstOnce, Established
<1>d. \A f \in {"destroyed", "send", "shutdown"} : f \in Functors \ {"established"}
  BY DEF Functors
<1>a. ASSUME UNCHANGED <<state, callbacks, overClose, batch, userPc>>,
             pending' = pending \/ pending' = Append(pending, "destroyed")
      PROVE  StateInv'
  BY <1>a, <1>p, <1>q, <1>d, EstablishedAppend, SameState
<1>b. ASSUME UNCHANGED <<callbacks, overClose, userPc>>, state' = state, FirstOnce'
      PROVE  StateInv'
  BY <1>b, SameState
<1>1. CASE LoopSend \/ (\E u \in Users : GiveRef(u)) \/ CallbackReturns \/ PollEvents \/ PollWakeup
           \/ HandleError \/ HandleMessage \/ Cleanup \/ HandleWrite \/ EventsDone
           \/ RemoveFromPoller \/ RemoveConnectionInLoop \/ Peer \/ UNCHANGED vars
  <2>1. UNCHANGED <<state, callbacks, overClose, batch, userPc>>
    BY <1>1 DEF LoopSend, GiveRef, CallbackReturns, PollEvents, PollWakeup, HandleError,
                HandleMessage, Cleanup, HandleWrite, EventsDone, RemoveFromPoller,
                RemoveConnectionInLoop, Peer, PeerSends, PeerDrains,
                PeerCloses, PeerResets, Environment, vars
  <2>2. pending' = pending \/ pending' = Append(pending, "destroyed")
    BY <1>1 DEF LoopSend, GiveRef, CallbackReturns, PollEvents, PollWakeup, HandleError,
                HandleMessage, Cleanup, HandleWrite, EventsDone, RemoveFromPoller,
                RemoveConnectionInLoop, Peer, PeerSends, PeerDrains,
                PeerCloses, PeerResets, Environment, vars, Post
  <2> QED BY <2>1, <2>2, <1>a
<1>2. CASE LoopShutdown
  BY <1>2 DEF LoopShutdown, StateInv, FirstOnce, Established, CallsOfState
<1>3. ASSUME NEW e \in {"read", "close"}, HandleClose(e) PROVE StateInv'
  <2>1. CASE state \in {"kConnected", "kDisconnecting"}
    <3>1. /\ state' = "kDisconnected" /\ callbacks' = Append(callbacks, "down")
          /\ UNCHANGED <<pending, batch, userPc, overClose>>
      BY <1>3, <2>1 DEF HandleClose
    <3>2. <<"up", "down">> = Append(<<"up">>, "down")
      OBVIOUS
    <3> QED BY <2>1, <3>1, <3>2 DEF StateInv, FirstOnce, Established, CallsOfState
  <2>2. CASE state \notin {"kConnected", "kDisconnecting"}
    <3>1. UNCHANGED <<state, callbacks, overClose, pending, batch, userPc>>
      BY <1>3, <2>2 DEF HandleClose
    <3> QED BY <3>1, <1>a
  <2> QED BY <2>1, <2>2
<1>4. CASE StopLoop
  <2>1. FirstOnce'
    BY <1>4, <1>q DEF StopLoop, FirstOnce, Established
  <2> QED BY <1>4, <2>1, <1>b DEF StopLoop
<1>5. CASE SwapFunctors
  <2>1. FirstOnce'
    BY <1>5, <1>q DEF SwapFunctors, FirstOnce, Established
  <2> QED BY <1>5, <2>1, <1>b DEF SwapFunctors
<1>6. CASE FunctorsDone
  BY <1>6, <1>p, <1>b DEF FunctorsDone
<1>7. CASE ConnectionEstablished
  <2>1. FirstOnce' /\ state = "kConnecting"
    BY <1>7, <1>q, EstablishedTail DEF ConnectionEstablished
  <2>2. state' = "kConnected" /\ callbacks' = Append(callbacks, "up")
        /\ UNCHANGED <<userPc, overClose>>
    BY <1>7 DEF ConnectionEstablished
  <2>3. <<"up">> = Append(<<>>, "up")
    OBVIOUS
  <2> QED BY <2>1, <2>2, <2>3 DEF StateInv, CallsOfState
<1>8. CASE ConnectionDestroyed
  <2>1. UNCHANGED <<userPc, overClose>>
    BY <1>8 DEF ConnectionDestroyed
  <2>3. FirstOnce'
    BY <1>8, <1>q, EstablishedTail DEF ConnectionDestroyed
  <2>4. CASE state = "kConnected"
    <3>1. state' = "kDisconnected" /\ callbacks' = Append(callbacks, "down")
      BY <1>8, <2>4 DEF ConnectionDestroyed
    <3>2. <<"up", "down">> = Append(<<"up">>, "down")
      OBVIOUS
    <3> QED BY <2>1, <2>3, <2>4, <3>1, <3>2 DEF StateInv, CallsOfState
  <2>5. CASE state # "kConnected"
    BY <1>8, <2>1, <2>3, <2>5, <1>b DEF ConnectionDestroyed
  <2> QED BY <2>4, <2>5
<1>9. CASE RunSend \/ RunShutdown
  <2>1. FirstOnce'
    <3>1. PICK f \in {"send", "shutdown"} : NextFunctor(f)
      BY <1>9 DEF RunSend, RunShutdown
    <3>2. pending' = pending
      BY <1>9 DEF RunSend, RunShutdown
    <3> QED BY <1>q, <3>1, <3>2, EstablishedTail
  <2> QED BY <1>9, <2>1, <1>b DEF RunSend, RunShutdown
<1>10. ASSUME NEW u \in Users, User(u) PROVE StateInv'
  <2>t. userPc \in [Users -> {"idle", "send", "setState", "shutdown"}]
    BY DEF ControlType
  <2>1. CASE SendCheck(u)
    BY <2>1, <2>t, <1>p, SameState DEF SendCheck
  <2>2. CASE ShutdownCheck(u)
    BY <2>2, <2>t, <1>p, SameState DEF ShutdownCheck
  <2>3. CASE DropRef(u)
    BY <2>3, <1>a DEF DropRef
  <2>4. CASE SendPost(u) \/ ShutdownPost(u)
    <3>1. PICK f \in {"send", "shutdown"} : RunInLoop(f)
      BY <2>4 DEF SendPost, ShutdownPost
    <3>2. UNCHANGED <<state, batch, callbacks, overClose>>
          /\ userPc' = [userPc EXCEPT ![u] = "idle"]
      BY <2>4 DEF SendPost, ShutdownPost
    <3>3. pending' = pending \/ pending' = Append(pending, f)
      BY <3>1 DEF RunInLoop, Post
    <3>4. FirstOnce'
      BY <1>p, <1>q, <1>d, <3>2, <3>3, EstablishedAppend
    <3> QED BY <2>t, <3>2, <3>4, SameState
  <2>5. CASE ShutdownSet(u)
    <3>1. /\ userPc[u] = "setState" /\ state' = "kDisconnecting"
          /\ overClose' = (overClose \/ state = "kDisconnected")
          /\ UNCHANGED <<pending, batch, callbacks>>
      BY <2>5 DEF ShutdownSet
    <3>2. state # "kConnecting"
      BY <3>1 DEF StateInv
    <3>3. FirstOnce'
      BY <1>q, <3>1, <3>2 DEF FirstOnce, Established
    <3>4. ~overClose' => CallsOfState'
      BY <3>1, <3>2 DEF StateInv, CallsOfState
    <3> QED BY <3>1, <3>3, <3>4 DEF StateInv
  <2> QED BY <1>10, <2>1, <2>2, <2>3, <2>4, <2>5 DEF User
<1>11. CASE DestroyServer
  <2>1. UNCHANGED <<state, callbacks, overClose, userPc>>
    BY <1>11 DEF DestroyServer
  <2>2. CASE inMap /\ sameLoop
    <3>1. pending' = pending /\ batch' = <<"destroyed">> /\ state # "kConnecting"
      BY <1>11, <2>2 DEF DestroyServer
    <3>2. \A i \in DOMAIN batch' : batch'[i] # "established"
      BY <3>1
    <3>3. \A i \in DOMAIN pending : pending[i] # "established"
      BY <1>q, <3>1 DEF FirstOnce, Established
    <3>4. FirstOnce'
      BY <3>1, <3>2, <3>3 DEF FirstOnce, Established
    <3> QED BY <1>b, <2>1, <3>4
  <2>3. CASE ~(inMap /\ sameLoop)
    <3>1. batch' = batch /\ (pending' = pending \/ pending' = Append(pending, "destroyed"))
      BY <1>11, <2>3 DEF DestroyServer, Post
    <3> QED BY <1>a, <2>1, <3>1
  <2> QED BY <2>2, <2>3
<1> QED BY <1>1, <1>2, <1>3, <1>4, <1>5, <1>6, <1>7, <1>8, <1>9, <1>10, <1>11 DEF Next, IoLoop

LEMMA ReadsLess ==
  ASSUME channel \in ChannelType,
         channel' \in {channel, EnableWriting(channel), DisableWriting(channel),
                      RemoveChannel(channel)},
         Reads(channel')
  PROVE  Reads(channel)
<1>1. "read" \notin Unwatched
  BY DEF Unwatched
<1> QED BY <1>1, ChannelChanges DEF Reads

LEMMA ReadsNone ==
  ASSUME channel \in ChannelType
  PROVE  ~Reads(DisableAll(channel))
<1>1. "read" \notin Unwatched
  BY DEF Unwatched
<1> QED BY <1>1, ChannelChanges DEF Reads

\* No event is added, and the calls are the same.
LEMMA SameReads ==
  ASSUME ReadInv, channel \in ChannelType, UNCHANGED callbacks, revents' \subseteq revents,
         overClose => overClose',
         channel' \in {channel, EnableWriting(channel), DisableWriting(channel),
                      RemoveChannel(channel)},
         EventsHandled' => EventsHandled \/ revents' = {},
         (InCallback /\ after = "event")' => (InCallback /\ after = "event") \/ "read" \in revents
  PROVE  ReadInv'
<1>1. Reads(channel') => Reads(channel)
  BY ReadsLess
<1> QED BY <1>1 DEF ReadInv, Up

LEMMA ReadStep ==
  ASSUME ControlType, DataType, StreamInOrder, StateInv, ReadInv, [Next]_vars
  PROVE  ReadInv'
<1> USE DEF ioVars, queueVars, ownerVars, dataVars, envVars
<1>t. channel \in ChannelType
  BY DEF DataType
<1>s. ASSUME UNCHANGED <<callbacks, overClose, ioPc, after, revents>>,
             channel' \in {channel, EnableWriting(channel), DisableWriting(channel)}
      PROVE  ReadInv'
  BY <1>s, <1>t, SameReads DEF EventsHandled, InCallback
<1>1. ASSUME SendInThread, UNCHANGED <<callbacks, overClose, ioPc, after, revents>>
      PROVE  ReadInv'
  BY <1>1, <1>s, SendInThreadKeeps
<1>2. CASE LoopSend
  BY <1>1, <1>2, <1>s DEF LoopSend
<1>f. ASSUME UNCHANGED <<callbacks, overClose, after, revents>>, ioPc' \in {ioPc, "aborted"},
             channel' = channel
      PROVE  ReadInv'
  BY <1>f, <1>t, SameReads DEF EventsHandled, InCallback
<1>3. CASE RunSend
  <2>1. CASE Alive
    BY <1>1, <1>3, <2>1 DEF RunSend
  <2>2. CASE ~Alive
    BY <1>3, <1>f, <2>2 DEF RunSend, Fail
  <2> QED BY <2>1, <2>2
<1>4. CASE RunShutdown \/ LoopShutdown \/ (\E u \in Users : GiveRef(u))
           \/ RemoveConnectionInLoop \/ Peer \/ UNCHANGED vars
  <2>1. UNCHANGED <<callbacks, overClose, after, revents, channel>>
    BY <1>4 DEF RunShutdown, LoopShutdown, GiveRef, RemoveConnectionInLoop, Peer,
                PeerSends, PeerDrains, PeerCloses, PeerResets, Environment, vars
  <2>2. ioPc' \in {ioPc, "aborted"}
    BY <1>4 DEF RunShutdown, LoopShutdown, GiveRef, RemoveConnectionInLoop, Peer,
                PeerSends, PeerDrains, PeerCloses, PeerResets, Environment, vars, Fail
  <2> QED BY <1>f, <2>1, <2>2
<1>5. ASSUME NEW u \in Users, User(u) PROVE ReadInv'
  <2>0. overClose' = overClose \/ overClose' = (overClose \/ state = "kDisconnected")
    BY <1>5 DEF User, SendCheck, SendPost, ShutdownCheck, ShutdownSet, ShutdownPost, DropRef
  <2>c. overClose => overClose'
    BY <2>0
  <2>1. UNCHANGED <<callbacks, after, revents, channel>>
    BY <1>5 DEF User, SendCheck, SendPost, ShutdownCheck, ShutdownSet, ShutdownPost, DropRef
  <2>2. ioPc' \in {ioPc, "aborted"}
    BY <1>5 DEF User, SendCheck, SendPost, ShutdownCheck, ShutdownSet, ShutdownPost, DropRef,
                RunInLoop, Fail
  <2> QED BY <1>t, <2>1, <2>2, <2>c, SameReads DEF EventsHandled, InCallback
<1>6. CASE CallbackReturns
  <2>1. ioPc = "callback" /\ ioPc' = after /\ UNCHANGED <<callbacks, overClose, after, revents, channel>>
    BY <1>6 DEF CallbackReturns, InCallback
  <2>2. EventsHandled' => EventsHandled
    BY <2>1 DEF EventsHandled, InCallback, ControlType
  <2>3. ~InCallback'
    BY <2>1 DEF InCallback, ControlType
  <2> QED BY <1>t, <2>1, <2>2, <2>3, SameReads
<1>7. CASE PollEvents
  <2>1. ioPc' = "event" /\ UNCHANGED <<callbacks, overClose, after, channel>>
        /\ revents' = Handled(Ready)
    BY <1>7 DEF PollEvents
  <2>2. "read" \in revents' => "read" \in Ready /\ "close" \notin revents'
    BY <2>1 DEF Handled
  <2>3. "read" \in Ready => Reads(channel)
    BY DEF Ready, Reported, Reads
  <2> QED BY <2>1, <2>2, <2>3 DEF ReadInv, EventsHandled, InCallback, Up, Reads
<1>8. CASE PollWakeup \/ EventsDone \/ StopLoop \/ SwapFunctors \/ FunctorsDone \/ Cleanup
  <2>1. UNCHANGED <<callbacks, overClose, revents, channel>> /\ ioPc' # "callback"
    BY <1>8 DEF PollWakeup, EventsDone, StopLoop, SwapFunctors, FunctorsDone, Cleanup, Fail
  <2>2. EventsHandled' => EventsHandled \/ revents' = {}
    BY <1>8 DEF PollWakeup, EventsDone, StopLoop, SwapFunctors, FunctorsDone, Cleanup, Fail,
                EventsHandled, InCallback
  <2> QED BY <1>t, <2>1, <2>2, SameReads DEF InCallback
<1>9. CASE HandleError \/ HandleWrite
  <2>1. UNCHANGED <<callbacks, overClose, ioPc, after>> /\ ioPc = "event" /\ revents' \subseteq revents
    BY <1>9 DEF HandleError, HandleWrite
  <2>2. channel' \in {channel, DisableWriting(channel)}
    BY <1>9, HandleWriteKeeps DEF HandleError
  <2> QED BY <1>t, <2>1, <2>2, SameReads DEF EventsHandled, InCallback
<1>10. CASE HandleMessage
  <2>1. /\ UNCHANGED <<callbacks, overClose, channel>> /\ revents' = revents \ {"read"}
        /\ "read" \in revents /\ ioPc' = "callback" /\ after' = "event"
    BY <1>10 DEF HandleMessage, TurnOf
  <2> QED BY <1>t, <2>1, SameReads DEF EventsHandled, InCallback
<1>11. ASSUME NEW e \in {"read", "close"}, HandleClose(e) PROVE ReadInv'
  <2>1. e \in revents /\ revents' = revents \ {e} /\ overClose' = overClose /\ ioPc = "event"
    BY <1>11 DEF HandleClose, TurnOf
  <2>2. CASE state \in {"kConnected", "kDisconnecting"}
    <3>1. ioPc' = "callback" /\ after' = "cleanup" /\ channel' = DisableAll(channel)
      BY <1>11, <2>2 DEF HandleClose
    <3>2. ~overClose => "read" \notin revents'
      BY <2>1 DEF ReadInv
    <3>3. ~Reads(channel')
      BY <1>t, <3>1, ReadsNone
    <3> QED BY <2>1, <3>1, <3>2, <3>3 DEF ReadInv, EventsHandled, InCallback
  <2>3. CASE state \notin {"kConnected", "kDisconnecting"}
    <3>1. ioPc' = "aborted" /\ UNCHANGED <<channel, callbacks, after>>
      BY <1>11, <2>3 DEF HandleClose, Fail
    <3> QED BY <1>t, <2>1, <3>1, SameReads DEF EventsHandled, InCallback
  <2> QED BY <2>2, <2>3
<1>12. CASE ConnectionEstablished
  <2>1. /\ ioPc = "functors" /\ ioPc' = "callback" /\ after' = "functors"
        /\ callbacks' = Append(callbacks, "up") /\ UNCHANGED <<revents, overClose>>
    BY <1>12 DEF ConnectionEstablished, NextFunctor
  <2>2. state = "kConnecting"
    BY <1>12, EstablishedTail DEF ConnectionEstablished, StateInv
  <2>3. ~overClose => callbacks = <<>>
    BY <2>2 DEF StateInv, CallsOfState
  <2>4. Append(<<>>, "up") = <<"up">>
    OBVIOUS
  <2>5. revents' = {}
    BY <2>1 DEF ReadInv, EventsHandled
  <2> QED BY <2>1, <2>3, <2>4, <2>5 DEF ReadInv, Up
<1>13. CASE ConnectionDestroyed
  <2>1. ioPc = "functors" /\ revents' = revents /\ overClose' = overClose
    BY <1>13 DEF ConnectionDestroyed, NextFunctor
  <2>2. revents' = {}
    BY <2>1 DEF ReadInv, EventsHandled
  <2>3. CASE state = "kConnected"
    <3>1. after' = "remove" /\ channel' = DisableAll(channel)
      BY <1>13, <2>3 DEF ConnectionDestroyed
    <3>2. ~Reads(channel')
      BY <1>t, <3>1, ReadsNone
    <3> QED BY <2>2, <3>1, <3>2 DEF ReadInv
  <2>4. CASE state # "kConnected"
    <3>1. ioPc' = "remove" /\ UNCHANGED <<channel, callbacks, after>>
      BY <1>13, <2>4 DEF ConnectionDestroyed
    <3> QED BY <1>t, <2>1, <2>2, <3>1, SameReads DEF InCallback
  <2> QED BY <2>3, <2>4
<1>14. CASE RemoveFromPoller
  <2>1. ioPc = "remove" /\ ioPc' \in {"functors", "aborted"}
        /\ UNCHANGED <<callbacks, overClose, after, revents>>
    BY <1>14 DEF RemoveFromPoller, Fail
  <2>2. channel' \in {channel, RemoveChannel(channel)}
    BY <1>14 DEF RemoveFromPoller
  <2> QED BY <1>t, <2>1, <2>2, SameReads DEF EventsHandled, InCallback
<1>15. CASE DestroyServer
  <2>1. UNCHANGED <<callbacks, overClose, after, revents, channel>>
    BY <1>15 DEF DestroyServer
  <2>2. ioPc' = ioPc \/ (ioPc = "poll" /\ ioPc' = "functors")
    BY <1>15 DEF DestroyServer
  <2> QED BY <1>t, <2>1, <2>2, SameReads DEF EventsHandled, InCallback
<1> QED BY <1>2, <1>3, <1>4, <1>5, <1>6, <1>7, <1>8, <1>9, <1>10, <1>11, <1>12, <1>13, <1>14,
           <1>15 DEF Next, IoLoop, Peer

LEMMA InitCallbacks == Init => StateInv /\ ReadInv
<1> SUFFICES ASSUME Init PROVE StateInv /\ ReadInv
  OBVIOUS
<1>1. StateInv
  <2>1. pending = <<"established">> /\ batch = <<>> /\ state = "kConnecting" /\ callbacks = <<>>
    BY DEF Init
  <2>2. FirstOnce
    BY <2>1 DEF FirstOnce, Established
  <2>3. \A u \in Users : userPc[u] # "setState"
    BY DEF Init
  <2> QED BY <2>1, <2>2, <2>3 DEF StateInv, CallsOfState
<1>2. ReadInv
  <2>1. ~Reads(NewChannel)
    BY DEF Reads, NewChannel, Unwatched
  <2>2. channel = NewChannel /\ revents = {} /\ ~InCallback
    BY DEF Init, InCallback
  <2> QED BY <2>1, <2>2 DEF ReadInv
<1> QED BY <1>1, <1>2

\* The user's callbacks come in their order: up once, down at most once, messages
\* only in between, whatever threads shut down and whether or not the server is
\* destroyed, unless a shutdown overwrites kDisconnected (connectionEstablished,
\* handleClose, connectionDestroyed).
THEOREM CallbacksInOrder == Spec => []CallbackProtocol
<1> DEFINE Inv == StreamInv /\ StateInv /\ ReadInv
<1>1. Init => Inv
  BY InitStream, InitCallbacks
<1>2. Inv /\ [Next]_vars => Inv'
  <2> SUFFICES ASSUME Inv, [Next]_vars PROVE Inv'
    OBVIOUS
  <2>1. ControlType /\ DataType /\ StreamInOrder
    BY DEF StreamInv
  <2> QED BY <2>1, StreamStep, StateStep, ReadStep
<1>3. Inv => CallbackProtocol
  BY DEF StateInv, CallsOfState, ReadInv, Up, CallbackProtocol
<1> QED BY <1>1, <1>2, <1>3, PTL DEF Spec

-----------------------------------------------------------------------------
(* The life of the object, and its asserts.                                *)

\* connectionDestroyed is in a queue once, or not at all.
Destroys(q) == \E i \in DOMAIN q : q[i] = "destroyed"
AtMostOnce(q) == \A i, j \in DOMAIN q : q[i] = "destroyed" /\ q[j] = "destroyed" => i = j

Holds(q) == \E i \in DOMAIN q : q[i] \in Holding
Raw(q) == \E i \in DOMAIN q : q[i] \notin Holding

\* removeConnection is about to be called, or connectionDestroyed to remove the channel.
Closing == ioPc = "cleanup" \/ (InCallback /\ after = "cleanup")
Removing == ioPc = "remove" \/ (InCallback /\ after = "remove")

\* How far the removal of a connection is.  It goes from one place to the next:
\* handleClose, the base loop, the two queues of the I/O loop, connectionDestroyed.
Stages == {"open", "closing", "asked", "queued", "running", "removing", "gone"}

Stage(k) ==
  /\ Closing <=> k = "closing"
  /\ removals = (IF k = "asked" THEN 1 ELSE 0)
  /\ Destroys(pending) <=> k = "queued"
  /\ Destroys(batch) <=> k = "running"
  /\ Removing <=> k = "removing"
  /\ inMap <=> k \in {"open", "closing", "asked"}
  /\ state = "kDisconnected" <=> k # "open"

\* The channel at each of them: it is watched while the connection is open.
ChannelAt(k) ==
  /\ k = "open" /\ state = "kConnecting" => channel = NewChannel
  /\ k = "open" /\ state # "kConnecting" => channel.state = kAdded /\ "read" \in channel.events
  /\ k # "open" => /\ channel.events = {} /\ channel.watched = Unwatched
                   /\ channel.state = IF k = "gone" THEN kNew ELSE kDeleted

StageInv ==
  /\ AtMostOnce(pending) /\ AtMostOnce(batch)
  /\ \E k \in Stages : Stage(k) /\ ChannelAt(k) /\ (k = "gone" => ioPc # "event")

\* The batch keeps the connection as long as a functor that must has not returned.
BatchInv ==
  /\ ioPc \in {"poll", "event", "cleanup", "swap"} \/ (InCallback /\ after \in {"event", "cleanup"})
       => batch = <<>>
  /\ Holds(batch) \/ Removing \/ (InCallback /\ after = "functors") => batchHolds

\* Other threads come in with the first callback, and a call of theirs is made under
\* their shared_ptr.
UserInv ==
  /\ state = "kConnecting" => ~InCallback /\ holders = {} /\ ~Raw(pending) /\ ~Raw(batch)
  /\ \A u \in Users : userPc[u] # "idle" => u \in holders

\* What threads queued in time runs before the connection may go.  Out of the map, either
\* connectionDestroyed still waits behind it, or its turn has come with that of
\* connectionDestroyed, whose shared_ptr the batch keeps to its end.
FunctorInv ==
  ~late /\ ~inMap /\ ~Destroys(pending) => ~Raw(pending) /\ (Raw(batch) => batchHolds)

Life ==
  /\ StageInv
  /\ BatchInv
  /\ UserInv
  /\ FunctorInv
  /\ "close" \in revents => Up
  /\ ioPc # "stopped"
  /\ ~late => failure = "none"

LifeInv == Undisturbed => Life

\* What is proved above of every state.
ConnectionInv == ControlType /\ DataType /\ StreamInOrder /\ StateInv /\ ReadInv

\* What a channel that is watched, or new, becomes.
LEMMA ChannelStates ==
  ASSUME NEW ch \in ChannelType
  PROVE  /\ ch.state = kAdded /\ "read" \in ch.events =>
              \A e \in {ch, EnableWriting(ch), DisableWriting(ch)} :
                e.state = kAdded /\ "read" \in e.events
         /\ ch = NewChannel => LET e == EnableReading(ch)
                               IN  e.state = kAdded /\ "read" \in e.events
         /\ ch.state = kAdded => LET e == DisableAll(ch)
                                 IN  e.state = kDeleted /\ e.events = {} /\ e.watched = Unwatched
         /\ RemoveChannel(ch).state = kNew
<1>1. ASSUME NEW c \in ChannelType
      PROVE  /\ ~(c.state = kAdded /\ c.events = {}) => UpdateChannel(c).state = kAdded
             /\ c.state = kAdded /\ c.events = {} => /\ UpdateChannel(c).state = kDeleted
                                                     /\ UpdateChannel(c).watched = Unwatched
  BY DEF UpdateChannel, Watch, Unwatch, ChannelType
<1>2. ASSUME NEW s \in SUBSET Events
      PROVE  /\ [ch EXCEPT !.events = s] \in ChannelType /\ [ch EXCEPT !.events = s].events = s
             /\ [ch EXCEPT !.events = s].state = ch.state
  BY DEF ChannelType
<1>3. /\ ch.events \cup {"read"} \in SUBSET Events
      /\ ch.events \cup {"write"} \in SUBSET Events
      /\ ch.events \ {"write"} \in SUBSET Events
      /\ {} \in SUBSET Events
  BY DEF ChannelType, Events
<1>4. EnableReading(ch).state = kAdded
  BY <1>1, <1>2, <1>3 DEF EnableReading
<1>5. EnableWriting(ch).state = kAdded
  BY <1>1, <1>2, <1>3 DEF EnableWriting
<1>6. "read" \in ch.events => DisableWriting(ch).state = kAdded
  <2>1. "read" \in ch.events => "read" \in ch.events \ {"write"}
    OBVIOUS
  <2> QED BY <1>1, <1>2, <1>3, <2>1 DEF DisableWriting
<1>7. ch.state = kAdded => DisableAll(ch).state = kDeleted /\ DisableAll(ch).watched = Unwatched
  BY <1>1, <1>2, <1>3 DEF DisableAll
<1>8. RemoveChannel(ch).state = kNew
  BY DEF RemoveChannel, Unwatch, ChannelType
<1> QED BY <1>4, <1>5, <1>6, <1>7, <1>8, ChannelChanges

\* One more functor.
LEMMA MoreFunctors ==
  ASSUME NEW q \in Seq(Functors), NEW f \in Functors
  PROVE  /\ Destroys(Append(q, f)) <=> Destroys(q) \/ f = "destroyed"
         /\ Raw(Append(q, f)) <=> Raw(q) \/ f \notin Holding
         /\ AtMostOnce(q) /\ ~(f = "destroyed" /\ Destroys(q)) => AtMostOnce(Append(q, f))
<1> DEFINE r == Append(q, f)
           n == Len(q) + 1
<1>1. /\ DOMAIN r = DOMAIN q \cup {n} /\ r[n] = f
      /\ \A i \in DOMAIN q : r[i] = q[i] /\ i # n
  <2>1. /\ r \in Seq(Functors) /\ Len(r) = n /\ Len(q) \in Nat
        /\ \A i \in 1 .. Len(q) : r[i] = q[i]
        /\ r[n] = f
    BY AppendProperties, LenProperties
  <2>2. DOMAIN q = 1 .. Len(q) /\ DOMAIN r = 1 .. Len(r)
    BY <2>1, LenProperties
  <2> HIDE DEF r
  <2> QED BY <2>1, <2>2
<1> HIDE DEF r, n
<1>2. Destroys(r) <=> Destroys(q) \/ f = "destroyed"
  BY <1>1 DEF Destroys
<1>3. Raw(r) <=> Raw(q) \/ f \notin Holding
  BY <1>1 DEF Raw
<1>4. AtMostOnce(q) /\ ~(f = "destroyed" /\ Destroys(q)) => AtMostOnce(r)
  BY <1>1 DEF AtMostOnce, Destroys
<1> QED BY <1>2, <1>3, <1>4 DEF r

\* One functor less.
LEMMA LessFunctors ==
  ASSUME NEW q \in Seq(Functors), q # <<>>
  PROVE  LET h == Head(q)
             t == Tail(q)
         IN  /\ AtMostOnce(q) => AtMostOnce(t) /\ ~(h = "destroyed" /\ Destroys(t))
             /\ Destroys(q) <=> Destroys(t) \/ h = "destroyed"
             /\ Raw(q) <=> Raw(t) \/ h \notin Holding
             /\ Holds(q) <=> Holds(t) \/ h \in Holding
<1> DEFINE h == Head(q)
           t == Tail(q)
<1>1. /\ 1 \in DOMAIN q /\ q[1] = h
      /\ \A i \in DOMAIN t : i + 1 \in DOMAIN q /\ t[i] = q[i + 1] /\ i + 1 # 1 /\ i \in Nat
      /\ \A j \in DOMAIN q : j = 1 \/ (j - 1 \in DOMAIN t /\ t[j - 1] = q[j])
  <2>1. /\ t \in Seq(Functors) /\ Len(t) = Len(q) - 1 /\ h = q[1]
        /\ \A i \in 1 .. Len(t) : t[i] = q[i + 1]
    BY HeadTailProperties
  <2>2. /\ DOMAIN q = 1 .. Len(q) /\ DOMAIN t = 1 .. Len(t) /\ Len(q) \in Nat /\ Len(q) # 0
    BY <2>1, LenProperties, EmptySeq
  <2> HIDE DEF t, h
  <2>3. 1 \in DOMAIN q
    BY <2>2
  <2>4. \A i \in DOMAIN t : i + 1 \in DOMAIN q /\ t[i] = q[i + 1] /\ i + 1 # 1 /\ i \in Nat
    BY <2>1, <2>2
  <2>5. ASSUME NEW j \in DOMAIN q, j # 1
        PROVE  j - 1 \in DOMAIN t /\ t[j - 1] = q[j]
    <3>1. j - 1 \in DOMAIN t /\ (j - 1) + 1 = j
      BY <2>1, <2>2, <2>5
    <3> QED BY <2>1, <2>2, <3>1
  <2> QED BY <2>1, <2>3, <2>4, <2>5
<1> HIDE DEF t, h
<1>2. Destroys(q) <=> Destroys(t) \/ h = "destroyed"
  BY <1>1 DEF Destroys
<1>3. Raw(q) <=> Raw(t) \/ h \notin Holding
  BY <1>1 DEF Raw
<1>4. Holds(q) <=> Holds(t) \/ h \in Holding
  BY <1>1 DEF Holds
<1>5. ASSUME AtMostOnce(q), NEW i \in DOMAIN t, NEW j \in DOMAIN t,
             t[i] = "destroyed", t[j] = "destroyed"
      PROVE  i = j
  <2>1. i + 1 = j + 1
    BY <1>1, <1>5 DEF AtMostOnce
  <2> QED BY <1>1, <2>1
<1>6. ASSUME AtMostOnce(q), h = "destroyed", Destroys(t) PROVE FALSE
  <2>1. PICK i \in DOMAIN t : t[i] = "destroyed"
    BY <1>6 DEF Destroys
  <2> QED BY <1>1, <1>6, <2>1 DEF AtMostOnce
<1>7. AtMostOnce(q) => AtMostOnce(t)
  BY <1>5 DEF AtMostOnce
<1> QED BY <1>2, <1>3, <1>4, <1>6, <1>7 DEF h, t

LEMMA NoFunctors == ~Destroys(<<>>) /\ ~Raw(<<>>) /\ ~Holds(<<>>) /\ AtMostOnce(<<>>)
  BY DEF Destroys, Raw, Holds, AtMostOnce

\* A step after which the removal is where it was, and the channel watched if it was.
LEMMA SameStage ==
  ASSUME StageInv, UNCHANGED <<removals, inMap>>,
         Closing' <=> Closing, Removing' <=> Removing,
         Destroys(pending') <=> Destroys(pending), Destroys(batch') <=> Destroys(batch),
         AtMostOnce(pending'), AtMostOnce(batch'),
         state' = "kDisconnected" <=> state = "kDisconnected",
         state' = "kConnecting" <=> state = "kConnecting",
         \/ channel' = channel
         \/ /\ state \notin {"kConnecting", "kDisconnected"}
            /\ channel'.state = kAdded /\ "read" \in channel'.events,
         ioPc' = "event" => ioPc = "event" \/ state # "kDisconnected"
  PROVE  StageInv'
<1>1. PICK k \in Stages : Stage(k) /\ ChannelAt(k) /\ (k = "gone" => ioPc # "event")
  BY DEF StageInv
<1>2. Stage(k)'
  BY <1>1 DEF Stage
<1>3. ChannelAt(k)'
  BY <1>1 DEF ChannelAt, Stage
<1>4. k = "gone" => ioPc' # "event"
  BY <1>1 DEF Stage
<1> QED BY <1>1, <1>2, <1>3, <1>4 DEF StageInv

\* A step that does not touch the queues.
LEMMA SameQueues ==
  ASSUME StageInv, UNCHANGED <<removals, inMap, pending, batch>>,
         Closing' <=> Closing, Removing' <=> Removing,
         state' = "kDisconnected" <=> state = "kDisconnected",
         state' = "kConnecting" <=> state = "kConnecting",
         \/ channel' = channel
         \/ /\ state \notin {"kConnecting", "kDisconnected"}
            /\ channel'.state = kAdded /\ "read" \in channel'.events,
         ioPc' = "event" => ioPc = "event" \/ state # "kDisconnected"
  PROVE  StageInv'
  BY SameStage DEF StageInv

\* What the invariant says of a connection that is open, and of the next step.
LEMMA StageFacts ==
  ASSUME DataType, StageInv
  PROVE  /\ state # "kDisconnected" => /\ inMap /\ removals = 0 /\ ~Closing /\ ~Removing
                                       /\ ~Destroys(pending) /\ ~Destroys(batch)
         /\ state \notin {"kConnecting", "kDisconnected"} =>
              channel.state = kAdded /\ "read" \in channel.events
         /\ state = "kConnecting" => channel = NewChannel
         /\ state = "kDisconnected" => channel.events = {} /\ channel.watched = Unwatched
         /\ Removing => MayRemove(channel)
         /\ ioPc = "event" => Alive \/ Destroys(batch)
         /\ inMap \/ removals > 0 \/ Destroys(pending) \/ Closing \/ Destroys(batch) \/ Removing
              \/ channel.state = kNew
<1>1. PICK k \in Stages : Stage(k) /\ ChannelAt(k) /\ (k = "gone" => ioPc # "event")
  BY DEF StageInv
<1>2. kDeleted # kNew
  BY DEF kDeleted, kNew
<1>3. Destroys(pending) => \E i \in DOMAIN pending : pending[i] \in Holding
  BY DEF Destroys, Holding
<1>4. Removing => MayRemove(channel)
  BY <1>1, <1>2 DEF Stage, ChannelAt, MayRemove
<1>5. ioPc = "event" => k \in {"open", "asked", "queued", "running", "closing"}
  BY <1>1 DEF Stages, Stage, Removing, InCallback
<1>6. ioPc = "event" => Alive \/ Destroys(batch)
  BY <1>1, <1>3, <1>5 DEF Stage, Alive, Closing
<1>7. state # "kDisconnected" => k = "open"
  BY <1>1 DEF Stage
<1>8. \/ inMap \/ removals > 0 \/ Destroys(pending) \/ Closing \/ Destroys(batch) \/ Removing
      \/ channel.state = kNew
  BY <1>1 DEF Stages, Stage, ChannelAt
<1> QED BY <1>1, <1>4, <1>6, <1>7, <1>8 DEF Stage, ChannelAt

\* A connection that is up is open, and knows its users.
LEMMA UpIsOpen ==
  ASSUME StateInv, ~overClose, Up
  PROVE  state \notin {"kConnecting", "kDisconnected"}
<1>1. <<"up">> # <<>> /\ <<"up">> # <<"up", "down">>
  OBVIOUS
<1> QED BY <1>1 DEF StateInv, CallsOfState, Up

LEMMA SendInThreadChannel ==
  ASSUME DataType, StreamInOrder, StageInv, SendInThread, state # "kConnecting"
  PROVE  \/ channel' = channel
         \/ /\ state \notin {"kConnecting", "kDisconnected"}
            /\ channel'.state = kAdded /\ "read" \in channel'.events
<1>1. CASE state = "kDisconnected"
  BY <1>1 DEF SendInThread
<1>2. CASE state # "kDisconnected"
  <2>1. channel \in ChannelType /\ channel.state = kAdded /\ "read" \in channel.events
    BY <1>2, StageFacts DEF DataType
  <2>2. channel' \in {channel, EnableWriting(channel)}
    BY SendInThreadKeeps
  <2> QED BY <1>2, <2>1, <2>2, ChannelStates
<1> QED BY <1>1, <1>2

\* The steps that leave the removal where it is.
LEMMA QuietStage ==
  ASSUME ConnectionInv, Life, Undisturbed, Undisturbed',
         \/ LoopSend \/ LoopShutdown \/ (\E u \in Users : GiveRef(u)) \/ CallbackReturns
         \/ PollEvents \/ PollWakeup \/ HandleError \/ HandleMessage \/ HandleWrite \/ EventsDone
         \/ FunctorsDone \/ RunSend \/ RunShutdown \/ (\E u \in Users : User(u)) \/ Peer
         \/ UNCHANGED vars
  PROVE  StageInv'
<1> USE DEF ioVars, queueVars, ownerVars, dataVars, envVars
<1>i. /\ ControlType /\ DataType /\ StreamInOrder /\ StateInv /\ ReadInv
      /\ StageInv /\ UserInv /\ ioPc # "stopped" /\ ~overClose /\ ~overClose'
      /\ batch \in Seq(Functors) /\ pending \in Seq(Functors) /\ channel \in ChannelType
      /\ AtMostOnce(pending) /\ AtMostOnce(batch)
  BY DEF ConnectionInv, Life, Undisturbed, ControlType, DataType, StageInv
<1>u. Up => state \notin {"kConnecting", "kDisconnected"}
  BY <1>i, UpIsOpen
<1>s. ASSUME UNCHANGED <<state, channel, removals, inMap, pending, batch, ioPc, after>>
      PROVE  StageInv'
  BY <1>i, <1>s, SameQueues DEF Closing, Removing, InCallback
<1>1. CASE (\E u \in Users : GiveRef(u)) \/ HandleError \/ Peer \/ UNCHANGED vars
  BY <1>1, <1>s DEF GiveRef, HandleError, Peer, PeerSends, PeerDrains, PeerCloses, PeerResets,
     Environment, vars
<1>2. CASE LoopSend
  <2>1. /\ UNCHANGED <<state, removals, inMap, pending, batch, ioPc, after>>
        /\ SendInThread \/ channel' = channel
        /\ InCallback
    BY <1>2 DEF LoopSend
  <2>2. state # "kConnecting"
    BY <1>i, <2>1 DEF UserInv
  <2> QED BY <1>i, <2>1, <2>2, SendInThreadChannel, SameQueues DEF Closing, Removing, InCallback
<1>3. CASE LoopShutdown
  <2>1. /\ UNCHANGED <<channel, removals, inMap, pending, batch, ioPc, after>>
        /\ state = "kConnected" /\ state' = "kDisconnecting"
    BY <1>3 DEF LoopShutdown
  <2> QED BY <1>i, <2>1, SameQueues DEF Closing, Removing, InCallback
<1>4. CASE CallbackReturns
  <2>1. /\ UNCHANGED <<state, channel, removals, inMap, pending, batch, after>>
        /\ ioPc = "callback" /\ ioPc' = after
    BY <1>4 DEF CallbackReturns, InCallback
  <2>2. ioPc' = "event" => state # "kDisconnected"
    BY <1>i, <1>u, <2>1 DEF ReadInv, InCallback
  <2>3. (Closing' <=> Closing) /\ (Removing' <=> Removing)
    BY <1>i, <2>1 DEF Closing, Removing, InCallback, ControlType
  <2> QED BY <1>i, <2>1, <2>2, <2>3, SameQueues
<1>5. CASE PollEvents
  <2>1. /\ UNCHANGED <<state, channel, removals, inMap, pending, batch, after>>
        /\ ioPc = "poll" /\ ioPc' = "event" /\ Ready # {}
    BY <1>5 DEF PollEvents
  <2>2. channel.watched # Unwatched
    BY <2>1 DEF Ready, Reported
  <2>3. state # "kDisconnected"
    BY <1>i, <2>2, StageFacts
  <2> QED BY <1>i, <2>1, <2>3, SameQueues DEF Closing, Removing, InCallback
<1>6. CASE PollWakeup \/ EventsDone \/ FunctorsDone
  <2>1. /\ UNCHANGED <<state, channel, removals, inMap, pending, batch, after>>
        /\ ioPc \in {"poll", "event", "functors"} /\ ioPc' \in {"swap", "poll"}
    BY <1>6 DEF PollWakeup, EventsDone, FunctorsDone
  <2> QED BY <1>i, <2>1, SameQueues DEF Closing, Removing, InCallback
<1>7. CASE HandleMessage
  <2>1. /\ UNCHANGED <<state, channel, removals, inMap, pending, batch>>
        /\ ioPc = "event" /\ ioPc' = "callback" /\ after' = "event"
    BY <1>7 DEF HandleMessage
  <2> QED BY <1>i, <2>1, SameQueues DEF Closing, Removing, InCallback
<1>8. CASE HandleWrite
  <2>1. /\ UNCHANGED <<state, removals, inMap, pending, batch, ioPc, after>>
        /\ ~IsWriting(channel) => channel' = channel
        /\ channel' \in {channel, DisableWriting(channel)}
    BY <1>8, <1>i, HandleWriteKeeps DEF HandleWrite
  <2>2. \/ channel' = channel
        \/ /\ state \notin {"kConnecting", "kDisconnected"}
           /\ channel'.state = kAdded /\ "read" \in channel'.events
    <3>1. CASE state = "kDisconnected" \/ state = "kConnecting"
      <4>1. channel.events = {}
        BY <1>i, <3>1, StageFacts DEF NewChannel
      <4> QED BY <2>1, <4>1 DEF IsWriting
    <3>2. CASE state \notin {"kConnecting", "kDisconnected"}
      <4>1. channel.state = kAdded /\ "read" \in channel.events
        BY <1>i, <3>2, StageFacts
      <4> QED BY <1>i, <2>1, <3>2, <4>1, ChannelStates
    <3> QED BY <3>1, <3>2
  <2> QED BY <1>i, <2>1, <2>2, SameQueues DEF Closing, Removing, InCallback
<1>9. CASE RunSend \/ RunShutdown
  <2>1. /\ UNCHANGED <<state, removals, inMap, pending, after>>
        /\ ioPc = "functors" /\ ioPc' \in {ioPc, "aborted"}
        /\ batch # <<>> /\ Head(batch) \in {"send", "shutdown"} /\ batch' = Tail(batch)
        /\ SendInThread \/ channel' = channel
    BY <1>9 DEF RunSend, RunShutdown, NextFunctor, Fail
  <2>2. Head(batch) \notin Holding /\ Head(batch) # "destroyed"
    BY <2>1 DEF Holding
  <2>3. /\ AtMostOnce(batch') /\ (Destroys(batch') <=> Destroys(batch))
        /\ Raw(batch)
    BY <1>i, <2>1, <2>2, LessFunctors
  <2>4. state # "kConnecting"
    BY <1>i, <2>3 DEF UserInv
  <2> QED BY <1>i, <2>1, <2>3, <2>4, SendInThreadChannel, SameStage DEF Closing, Removing, InCallback
<1>10. ASSUME NEW u \in Users, User(u) PROVE StageInv'
  <2>1. CASE SendCheck(u) \/ ShutdownCheck(u) \/ DropRef(u)
    BY <1>s, <2>1 DEF SendCheck, ShutdownCheck, DropRef
  <2>2. CASE ShutdownSet(u)
    <3>1. /\ UNCHANGED <<channel, removals, inMap, pending, batch, ioPc, after>>
          /\ userPc[u] = "setState" /\ state' = "kDisconnecting"
          /\ overClose' = (overClose \/ state = "kDisconnected")
      BY <2>2 DEF ShutdownSet
    <3>2. state \notin {"kConnecting", "kDisconnected"}
      BY <1>i, <3>1 DEF StateInv
    <3> QED BY <1>i, <3>1, <3>2, SameQueues DEF Closing, Removing, InCallback
  <2>3. CASE SendPost(u) \/ ShutdownPost(u)
    <3>1. PICK f \in {"send", "shutdown"} : RunInLoop(f)
      BY <2>3 DEF SendPost, ShutdownPost
    <3>2. pending' = Append(pending, f) /\ ioPc' = ioPc
      BY <1>i, <3>1 DEF RunInLoop, Post
    <3>3. UNCHANGED <<state, channel, removals, inMap, batch, after>>
      BY <2>3 DEF SendPost, ShutdownPost
    <3>4. f \in Functors /\ f # "destroyed"
      BY DEF Functors
    <3>5. AtMostOnce(pending') /\ (Destroys(pending') <=> Destroys(pending))
      BY <1>i, <3>2, <3>4, MoreFunctors
    <3> QED BY <1>i, <3>2, <3>3, <3>5, SameStage DEF Closing, Removing, InCallback
  <2> QED BY <1>10, <2>1, <2>2, <2>3 DEF User
<1> QED BY <1>1, <1>2, <1>3, <1>4, <1>5, <1>6, <1>7, <1>8, <1>9, <1>10

\* The callbacks of handleClose find the connection open.
LEMMA ClosedWhenUp ==
  ASSUME ConnectionInv, Life, Undisturbed, NEW e \in {"read", "close"}, HandleClose(e)
  PROVE  /\ state \in {"kConnected", "kDisconnecting"}
         /\ channel.state = kAdded /\ channel \in ChannelType
<1>1. e \in revents
  BY DEF HandleClose, TurnOf
<1>2. Up
  BY <1>1 DEF ConnectionInv, ReadInv, Undisturbed, Life
<1>3. state \notin {"kConnecting", "kDisconnected"}
  BY <1>2, UpIsOpen DEF ConnectionInv, Undisturbed
<1> QED BY <1>3, StageFacts DEF ConnectionInv, ControlType, States, DataType, Life

\* The steps by which a connection that has gone down is taken out of the map and
\* the poller.
LEMMA RemovalStage ==
  ASSUME ConnectionInv, Life, Undisturbed, Undisturbed',
         \/ (\E e \in {"read", "close"} : HandleClose(e)) \/ Cleanup \/ RemoveConnectionInLoop
         \/ SwapFunctors \/ ConnectionEstablished \/ ConnectionDestroyed \/ RemoveFromPoller
  PROVE  StageInv'
<1> USE DEF ioVars, queueVars, ownerVars, dataVars, envVars
<1>i. /\ ControlType /\ DataType /\ StateInv /\ ReadInv /\ BatchInv
      /\ StageInv /\ serverAlive
      /\ batch \in Seq(Functors) /\ pending \in Seq(Functors) /\ channel \in ChannelType
      /\ AtMostOnce(pending) /\ AtMostOnce(batch)
  BY DEF ConnectionInv, Life, Undisturbed, ControlType, DataType, StageInv
<1>k. PICK k \in Stages : Stage(k) /\ ChannelAt(k) /\ (k = "gone" => ioPc # "event")
  BY <1>i DEF StageInv
<1>f. "destroyed" \in Functors
  BY DEF Functors
<1>1. ASSUME NEW e \in {"read", "close"}, HandleClose(e) PROVE StageInv'
  <2>1. /\ state \in {"kConnected", "kDisconnecting"}
        /\ channel.state = kAdded /\ channel \in ChannelType
    BY <1>1, ClosedWhenUp
  <2>2. /\ UNCHANGED <<removals, inMap, pending, batch>> /\ ioPc = "event"
        /\ state' = "kDisconnected" /\ channel' = DisableAll(channel)
        /\ ioPc' = "callback" /\ after' = "cleanup"
    BY <1>1, <2>1 DEF HandleClose
  <2>3. k = "open"
    BY <1>k, <2>1 DEF Stage
  <2>4. Stage("closing")'
    BY <1>k, <2>2, <2>3 DEF Stage, Closing, Removing, InCallback
  <2>5. ChannelAt("closing")'
    BY <2>1, <2>2, ChannelStates DEF ChannelAt
  <2> QED BY <1>i, <2>2, <2>4, <2>5 DEF StageInv, Stages
<1>2. CASE Cleanup
  <2>1. /\ UNCHANGED <<state, channel, batch, after>> /\ ioPc = "cleanup" /\ ioPc' = "event"
    BY <1>2, <1>i DEF Cleanup
  <2>2. k = "closing"
    BY <1>k, <2>1 DEF Stage, Closing
  <2>3. CASE sameLoop
    <3>1. inMap' = FALSE /\ pending' = Append(pending, "destroyed") /\ removals' = removals
      BY <1>2, <1>i, <2>3 DEF Cleanup, Post
    <3>2. AtMostOnce(pending') /\ Destroys(pending')
      BY <1>f, <1>i, <1>k, <2>2, <3>1, MoreFunctors DEF Stage
    <3>3. Stage("queued")'
      BY <1>k, <2>1, <2>2, <3>1, <3>2 DEF Stage, Closing, Removing, InCallback
    <3>4. ChannelAt("queued")'
      BY <1>k, <2>1, <2>2 DEF ChannelAt
    <3> QED BY <1>i, <2>1, <3>2, <3>3, <3>4 DEF StageInv, Stages
  <2>4. CASE ~sameLoop
    <3>1. inMap' = inMap /\ pending' = pending /\ removals' = removals + 1
      BY <1>2, <2>4 DEF Cleanup
    <3>2. Stage("asked")'
      BY <1>k, <2>1, <2>2, <3>1 DEF Stage, Closing, Removing, InCallback
    <3>3. ChannelAt("asked")'
      BY <1>k, <2>1, <2>2 DEF ChannelAt
    <3> QED BY <1>i, <2>1, <3>1, <3>2, <3>3 DEF StageInv, Stages
  <2> QED BY <2>3, <2>4
<1>3. CASE RemoveConnectionInLoop
  <2>1. /\ UNCHANGED <<state, channel, batch, ioPc, after>>
        /\ removals > 0 /\ removals' = removals - 1
        /\ inMap' = FALSE /\ pending' = Append(pending, "destroyed")
    BY <1>3, <1>i DEF RemoveConnectionInLoop, Post
  <2>2. k = "asked"
    BY <1>k, <2>1 DEF Stage
  <2>3. AtMostOnce(pending') /\ Destroys(pending')
    BY <1>f, <1>i, <1>k, <2>1, <2>2, MoreFunctors DEF Stage
  <2>4. Stage("queued")'
    BY <1>k, <2>1, <2>2, <2>3 DEF Stage, Closing, Removing, InCallback
  <2>5. ChannelAt("queued")'
    BY <1>k, <2>1, <2>2 DEF ChannelAt
  <2> QED BY <1>i, <2>1, <2>3, <2>4, <2>5 DEF StageInv, Stages
<1>4. CASE SwapFunctors
  <2>1. /\ UNCHANGED <<state, channel, removals, inMap, after>>
        /\ batch' = pending /\ pending' = <<>> /\ ioPc = "swap" /\ ioPc' = "functors"
    BY <1>4 DEF SwapFunctors
  <2>2. batch = <<>>
    BY <1>i, <2>1 DEF BatchInv
  <2>3. k # "running" /\ ~Destroys(pending') /\ AtMostOnce(pending') /\ AtMostOnce(batch')
    BY <1>i, <1>k, <2>1, <2>2, NoFunctors DEF Stage
  <2>4. CASE k = "queued"
    <3>1. Stage("running")'
      BY <1>k, <2>1, <2>3, <2>4 DEF Stage, Closing, Removing, InCallback
    <3>2. ChannelAt("running")'
      BY <1>k, <2>1, <2>4 DEF ChannelAt
    <3> QED BY <2>1, <2>3, <3>1, <3>2 DEF StageInv, Stages
  <2>5. CASE k # "queued"
    <3>1. Stage(k)'
      BY <1>k, <2>1, <2>3, <2>5 DEF Stage, Closing, Removing, InCallback
    <3>2. ChannelAt(k)'
      BY <1>k, <2>1 DEF ChannelAt
    <3> QED BY <2>1, <2>3, <3>1, <3>2 DEF StageInv
  <2> QED BY <2>4, <2>5
<1>5. CASE ConnectionEstablished
  <2>1. /\ UNCHANGED <<removals, inMap, pending>> /\ state' = "kConnected"
        /\ channel' = EnableReading(channel) /\ ioPc = "functors" /\ ioPc' = "callback"
        /\ after' = "functors"
        /\ batch # <<>> /\ Head(batch) = "established" /\ batch' = Tail(batch)
    BY <1>5 DEF ConnectionEstablished, NextFunctor
  <2>2. state = "kConnecting"
    BY <1>i, <1>5, EstablishedTail DEF ConnectionEstablished, StateInv
  <2>3. k = "open" /\ channel = NewChannel
    BY <1>k, <2>2 DEF Stage, ChannelAt
  <2>4. AtMostOnce(batch') /\ ~Destroys(batch')
    BY <1>i, <1>k, <2>1, <2>3, LessFunctors DEF Stage
  <2>5. Stage("open")'
    BY <1>k, <2>1, <2>3, <2>4 DEF Stage, Closing, Removing, InCallback
  <2>6. ChannelAt("open")'
    BY <1>i, <2>1, <2>3, ChannelStates DEF ChannelAt
  <2> QED BY <1>i, <2>1, <2>4, <2>5, <2>6 DEF StageInv, Stages
<1>6. CASE ConnectionDestroyed
  <2>1. /\ UNCHANGED <<removals, inMap, pending>> /\ ioPc = "functors"
        /\ batch # <<>> /\ Head(batch) = "destroyed" /\ batch' = Tail(batch)
    BY <1>6 DEF ConnectionDestroyed, NextFunctor
  <2>2. Destroys(batch) /\ AtMostOnce(batch') /\ ~Destroys(batch')
    BY <1>i, <2>1, LessFunctors
  <2>3. k = "running" /\ state = "kDisconnected"
    BY <1>k, <2>2 DEF Stage
  <2>4. ioPc' = "remove" /\ UNCHANGED <<state, channel, after>>
    BY <1>6, <2>3 DEF ConnectionDestroyed
  <2>5. Stage("removing")'
    BY <1>k, <2>1, <2>2, <2>3, <2>4 DEF Stage, Closing, Removing, InCallback
  <2>6. ChannelAt("removing")'
    BY <1>k, <2>3, <2>4 DEF ChannelAt
  <2> QED BY <1>i, <2>1, <2>2, <2>4, <2>5, <2>6 DEF StageInv, Stages
<1>7. CASE RemoveFromPoller
  <2>1. ioPc = "remove" /\ UNCHANGED <<state, removals, inMap, pending, batch, after>>
    BY <1>7 DEF RemoveFromPoller
  <2>2. k = "removing" /\ MayRemove(channel)
    BY <1>i, <1>k, <2>1, StageFacts DEF Stage, Removing
  <2>3. channel' = RemoveChannel(channel) /\ ioPc' = "functors"
    BY <1>7, <2>2 DEF RemoveFromPoller
  <2>4. Stage("gone")'
    BY <1>k, <2>1, <2>2, <2>3 DEF Stage, Closing, Removing, InCallback
  <2>5. ChannelAt("gone")'
    BY <1>i, <1>k, <2>1, <2>2, <2>3, ChannelStates, ChannelChanges DEF ChannelAt
  <2> QED BY <1>i, <2>1, <2>3, <2>4, <2>5 DEF StageInv, Stages
<1> QED BY <1>1, <1>2, <1>3, <1>4, <1>5, <1>6, <1>7

LEMMA StageStep ==
  ASSUME ConnectionInv, Life, Undisturbed, Undisturbed', [Next]_vars
  PROVE  StageInv'
<1>1. ~StopLoop /\ ~DestroyServer
  BY DEF StopLoop, DestroyServer, Undisturbed
<1> QED BY <1>1, QuietStage, RemovalStage DEF Next, IoLoop

\* What runs in the batch is held by the batch.
LEMMA BatchStep ==
  ASSUME ConnectionInv, Life, Undisturbed, Undisturbed', [Next]_vars
  PROVE  BatchInv'
<1> USE DEF ioVars, queueVars, ownerVars, dataVars, envVars
<1>i. /\ ControlType /\ StateInv /\ ReadInv /\ BatchInv /\ serverAlive /\ ioPc # "stopped"
      /\ batch \in Seq(Functors)
  BY DEF ConnectionInv, Life, Undisturbed, ControlType
<1>s. ASSUME UNCHANGED <<ioPc, after, batch, batchHolds>> PROVE BatchInv'
  BY <1>i, <1>s DEF BatchInv, Removing, InCallback
<1>1. CASE LoopSend \/ LoopShutdown \/ (\E u \in Users : GiveRef(u)) \/ HandleError \/ HandleWrite
           \/ RemoveConnectionInLoop \/ Peer \/ UNCHANGED vars
  BY <1>1, <1>i, <1>s DEF LoopSend, LoopShutdown, GiveRef, HandleError, HandleWrite, Peer, PeerSends,
     PeerDrains, PeerCloses, PeerResets, Environment, vars, RemoveConnectionInLoop
<1>2. ASSUME NEW u \in Users, User(u) PROVE BatchInv'
  BY <1>2, <1>i, <1>s DEF User, SendCheck, SendPost, ShutdownCheck, ShutdownSet, ShutdownPost, DropRef,
     RunInLoop, Fail
<1>3. CASE CallbackReturns
  BY <1>3, <1>i DEF CallbackReturns, BatchInv, Removing, InCallback, ControlType
<1>4. CASE PollEvents \/ PollWakeup \/ EventsDone \/ Cleanup \/ HandleMessage
           \/ (\E e \in {"read", "close"} : HandleClose(e))
  <2>1. /\ ioPc \in {"poll", "event", "cleanup"} /\ UNCHANGED <<batch, batchHolds>>
        /\ \/ ioPc' \in {"event", "swap", "aborted"}
           \/ ioPc' = "callback" /\ after' \in {"event", "cleanup"}
    BY <1>4 DEF PollEvents, PollWakeup, EventsDone, Cleanup, HandleMessage, HandleClose, Fail
  <2>2. batch = <<>> /\ ~Holds(batch)
    BY <1>i, <2>1, NoFunctors DEF BatchInv
  <2> QED BY <2>1, <2>2 DEF BatchInv, Removing, InCallback
<1>5. CASE SwapFunctors
  <2>1. /\ ioPc' = "functors" /\ batch' = pending
        /\ batchHolds' = (\E i \in DOMAIN pending : pending[i] \in Holding)
    BY <1>5 DEF SwapFunctors
  <2> QED BY <2>1 DEF BatchInv, Removing, InCallback, Holds
<1>6. CASE FunctorsDone
  <2>1. batch' = <<>> /\ ioPc' = "poll"
    BY <1>6 DEF FunctorsDone
  <2> QED BY <2>1, NoFunctors DEF BatchInv, Removing, InCallback
<1>7. CASE RemoveFromPoller
  <2>1. ioPc = "remove" /\ ioPc' \in {"functors", "aborted"} /\ UNCHANGED <<batch, batchHolds>>
    BY <1>7 DEF RemoveFromPoller, Fail
  <2> QED BY <1>i, <2>1 DEF BatchInv, Removing, InCallback
<1>8. ASSUME NEW f, NextFunctor(f), UNCHANGED batchHolds,
             \/ ioPc' \in {"functors", "aborted"}
             \/ f \in Holding /\ (ioPc' = "remove" \/ (ioPc' = "callback" /\ after' \in {"functors", "remove"}))
      PROVE  BatchInv'
  <2>1. batch # <<>> /\ batch' = Tail(batch) /\ Head(batch) = f
    BY <1>8 DEF NextFunctor
  <2>2. Holds(batch) <=> Holds(batch') \/ f \in Holding
    BY <1>i, <2>1, LessFunctors
  <2> QED BY <1>i, <1>8, <2>2 DEF BatchInv, Removing, InCallback
<1>9. CASE ConnectionEstablished
  BY <1>8, <1>9 DEF ConnectionEstablished, Holding
<1>10. CASE ConnectionDestroyed
  BY <1>8, <1>10 DEF ConnectionDestroyed, Holding
<1>11. CASE RunSend
  <2>1. NextFunctor("send") /\ UNCHANGED batchHolds /\ ioPc' \in {ioPc, "aborted"} /\ ioPc = "functors"
    BY <1>11 DEF RunSend, NextFunctor, Fail
  <2> QED BY <1>8, <2>1
<1>12. CASE RunShutdown
  <2>1. NextFunctor("shutdown") /\ UNCHANGED batchHolds /\ ioPc' \in {ioPc, "aborted"} /\ ioPc = "functors"
    BY <1>12 DEF RunShutdown, NextFunctor, Fail
  <2> QED BY <1>8, <2>1
<1>13. ~StopLoop /\ ~DestroyServer
  BY DEF StopLoop, DestroyServer, Undisturbed
<1> QED BY <1>1, <1>2, <1>3, <1>4, <1>5, <1>6, <1>7, <1>9, <1>10, <1>11, <1>12, <1>13 DEF Next, IoLoop

\* Other threads, and what they have queued.
LEMMA UserStep ==
  ASSUME ConnectionInv, Life, Undisturbed, Undisturbed', [Next]_vars
  PROVE  UserInv'
<1> USE DEF ioVars, queueVars, ownerVars, dataVars, envVars
<1>i. /\ ControlType /\ StateInv /\ ReadInv /\ UserInv /\ serverAlive /\ ~overClose /\ ioPc # "stopped"
      /\ batch \in Seq(Functors) /\ pending \in Seq(Functors)
      /\ userPc \in [Users -> {"idle", "send", "setState", "shutdown"}]
  BY DEF ConnectionInv, Life, Undisturbed, ControlType
<1>s. ASSUME UNCHANGED <<holders, userPc>>,
             Raw(pending') \/ Raw(batch') => Raw(pending) \/ Raw(batch),
             state' = "kConnecting" => state = "kConnecting" /\ (InCallback' => InCallback)
      PROVE  UserInv'
  BY <1>i, <1>s DEF UserInv
<1>1. CASE LoopSend \/ LoopShutdown \/ CallbackReturns \/ PollEvents \/ PollWakeup \/ HandleError
           \/ HandleWrite \/ EventsDone \/ FunctorsDone \/ RemoveFromPoller \/ Peer \/ UNCHANGED vars
  <2>1. /\ UNCHANGED <<holders, userPc, pending, batch>>
        /\ state' = state \/ state' = "kDisconnecting"
        /\ ioPc' = "callback" => ioPc = "callback"
    BY <1>1, <1>i DEF LoopSend, LoopShutdown, CallbackReturns, PollEvents, PollWakeup, HandleError,
       HandleWrite, EventsDone, FunctorsDone, RemoveFromPoller, Peer, PeerSends, PeerDrains,
       PeerCloses, PeerResets, Environment, vars, Fail, ControlType
  <2> QED BY <1>s, <2>1 DEF InCallback
<1>2. CASE HandleMessage
  <2>1. UNCHANGED <<holders, userPc, pending, batch, state>> /\ "read" \in revents
    BY <1>2 DEF HandleMessage, TurnOf
  <2>2. state # "kConnecting"
    BY <1>i, <2>1, UpIsOpen DEF ReadInv
  <2> QED BY <1>s, <2>1, <2>2
<1>3. ASSUME NEW e \in {"read", "close"}, HandleClose(e) PROVE UserInv'
  <2>1. UNCHANGED <<holders, userPc, pending, batch>> /\ state' = "kDisconnected"
    BY <1>3, ClosedWhenUp DEF HandleClose
  <2> QED BY <1>s, <2>1
<1>4. CASE Cleanup \/ RemoveConnectionInLoop
  <2>1. /\ UNCHANGED <<holders, userPc, batch, state>> /\ ioPc' \in {ioPc, "event"}
        /\ pending' = pending \/ pending' = Append(pending, "destroyed")
    BY <1>4, <1>i DEF Cleanup, RemoveConnectionInLoop, Post
  <2>2. "destroyed" \in Functors /\ "destroyed" \in Holding
    BY DEF Functors, Holding
  <2>3. Raw(Append(pending, "destroyed")) <=> Raw(pending)
    BY <1>i, <2>2, MoreFunctors
  <2>4. Raw(pending') <=> Raw(pending)
    BY <2>1, <2>3
  <2> QED BY <1>s, <2>1, <2>4 DEF InCallback
<1>5. CASE SwapFunctors
  <2>1. /\ UNCHANGED <<holders, userPc, state>> /\ ioPc' = "functors"
        /\ batch' = pending /\ pending' = <<>>
    BY <1>5 DEF SwapFunctors
  <2> QED BY <1>s, <2>1, NoFunctors DEF InCallback
<1>6. CASE ConnectionEstablished \/ ConnectionDestroyed \/ RunSend \/ RunShutdown
  <2>1. /\ UNCHANGED <<holders, userPc, pending>>
        /\ batch # <<>> /\ batch' = Tail(batch)
        /\ \/ state' \in {"kConnected", "kDisconnected"}
           \/ state' = state /\ ioPc' # "callback"
    BY <1>6 DEF ConnectionEstablished, ConnectionDestroyed, RunSend, RunShutdown, NextFunctor, Fail
  <2>2. Raw(batch') => Raw(batch)
    BY <1>i, <2>1, LessFunctors
  <2> QED BY <1>s, <2>1, <2>2 DEF InCallback
<1>7. ASSUME NEW u \in Users, GiveRef(u) PROVE UserInv'
  <2>1. InCallback /\ holders' = holders \cup {u} /\ UNCHANGED <<state, pending, batch, userPc>>
    BY <1>7 DEF GiveRef
  <2> QED BY <1>i, <2>1 DEF UserInv
<1>8. ASSUME NEW u \in Users, User(u) PROVE UserInv'
  <2>1. CASE SendCheck(u) \/ ShutdownCheck(u)
    <3>1. /\ u \in holders /\ UNCHANGED <<state, ioPc, holders, pending, batch>>
          /\ \A v \in Users \ {u} : userPc'[v] = userPc[v]
      BY <1>i, <2>1 DEF SendCheck, ShutdownCheck
    <3> QED BY <1>i, <3>1 DEF UserInv, InCallback
  <2>2. CASE ShutdownSet(u)
    <3>1. /\ userPc[u] = "setState" /\ state' = "kDisconnecting" /\ UNCHANGED <<holders, pending, batch>>
          /\ \A v \in Users \ {u} : userPc'[v] = userPc[v]
      BY <1>i, <2>2 DEF ShutdownSet
    <3> QED BY <1>i, <3>1 DEF UserInv
  <2>3. CASE SendPost(u) \/ ShutdownPost(u)
    <3>1. PICK f \in {"send", "shutdown"} : RunInLoop(f)
      BY <2>3 DEF SendPost, ShutdownPost
    <3>2. /\ UNCHANGED <<state, holders, batch>> /\ userPc[u] # "idle" /\ ioPc' = ioPc
          /\ \A v \in Users : userPc'[v] # "idle" => userPc[v] # "idle"
      BY <1>i, <2>3, <3>1 DEF SendPost, ShutdownPost, RunInLoop
    <3>3. u \in holders /\ state # "kConnecting"
      BY <1>i, <3>2 DEF UserInv
    <3> QED BY <1>i, <3>2, <3>3 DEF UserInv
  <2>4. CASE DropRef(u)
    <3>1. /\ UNCHANGED <<state, ioPc, userPc, pending, batch>> /\ holders' = holders \ {u}
          /\ userPc[u] = "idle"
      BY <2>4 DEF DropRef
    <3> QED BY <1>i, <3>1 DEF UserInv, InCallback
  <2> QED BY <1>8, <2>1, <2>2, <2>3, <2>4 DEF User
<1>9. ~StopLoop /\ ~DestroyServer
  BY DEF StopLoop, DestroyServer, Undisturbed
<1> QED BY <1>1, <1>2, <1>3, <1>4, <1>5, <1>6, <1>7, <1>8, <1>9 DEF Next, IoLoop

\* A thread's functor goes the way of connectionDestroyed, before it.
LEMMA FunctorStep ==
  ASSUME ConnectionInv, Life, Undisturbed, Undisturbed', [Next]_vars
  PROVE  FunctorInv'
<1> USE DEF ioVars, queueVars, ownerVars, dataVars, envVars
<1>i. /\ FunctorInv /\ serverAlive /\ ioPc # "stopped"
      /\ batch \in Seq(Functors) /\ pending \in Seq(Functors)
  BY DEF ConnectionInv, Life, Undisturbed, ControlType
<1>f. "destroyed" \in Functors
  BY DEF Functors
<1>s. ASSUME UNCHANGED <<late, inMap, pending>>,
             batch' = <<>> \/ (batchHolds' = batchHolds /\ (Raw(batch') => Raw(batch)))
      PROVE  FunctorInv'
  BY <1>i, <1>s, NoFunctors DEF FunctorInv
<1>1. CASE LoopSend \/ LoopShutdown \/ (\E u \in Users : GiveRef(u)) \/ CallbackReturns \/ PollEvents
           \/ PollWakeup \/ HandleError \/ HandleMessage \/ (\E e \in {"read", "close"} : HandleClose(e))
           \/ HandleWrite \/ EventsDone \/ RemoveFromPoller \/ Peer \/ UNCHANGED vars
  <2>1. UNCHANGED <<late, inMap, pending, batch, batchHolds>>
    BY <1>1 DEF LoopSend, LoopShutdown, GiveRef, CallbackReturns, PollEvents, PollWakeup, HandleError,
       HandleMessage, HandleClose, HandleWrite, EventsDone, RemoveFromPoller, Peer, PeerSends,
       PeerDrains, PeerCloses, PeerResets, Environment, vars
  <2> QED BY <1>s, <2>1
<1>2. CASE Cleanup \/ RemoveConnectionInLoop
  <2>1. /\ UNCHANGED <<late, batch, batchHolds>>
        /\ pending' = Append(pending, "destroyed") \/ (pending' = pending /\ inMap' = inMap)
    BY <1>2, <1>i DEF Cleanup, RemoveConnectionInLoop, Post
  <2>2. Destroys(Append(pending, "destroyed"))
    BY <1>f, <1>i, MoreFunctors
  <2> QED BY <1>s, <2>1, <2>2 DEF FunctorInv
<1>3. CASE SwapFunctors
  <2>1. /\ UNCHANGED <<late, inMap>> /\ batch' = pending /\ pending' = <<>>
        /\ batchHolds' = (\E i \in DOMAIN pending : pending[i] \in Holding)
    BY <1>3 DEF SwapFunctors
  <2>2. Destroys(pending) => batchHolds'
    BY <2>1 DEF Destroys, Holding
  <2> QED BY <1>i, <2>1, <2>2, NoFunctors DEF FunctorInv
<1>4. CASE FunctorsDone
  BY <1>4, <1>s DEF FunctorsDone
<1>5. CASE ConnectionEstablished \/ ConnectionDestroyed \/ RunSend \/ RunShutdown
  <2>1. /\ UNCHANGED <<late, inMap, pending, batchHolds>>
        /\ batch # <<>> /\ batch' = Tail(batch)
    BY <1>5 DEF ConnectionEstablished, ConnectionDestroyed, RunSend, RunShutdown, NextFunctor
  <2>2. Raw(batch') => Raw(batch)
    BY <1>i, <2>1, LessFunctors
  <2> QED BY <1>s, <2>1, <2>2
<1>6. ASSUME NEW u \in Users, User(u) PROVE FunctorInv'
  <2>1. CASE SendCheck(u) \/ ShutdownCheck(u) \/ ShutdownSet(u) \/ DropRef(u)
    BY <2>1, <1>s DEF SendCheck, ShutdownCheck, ShutdownSet, DropRef
  <2>2. CASE SendPost(u) \/ ShutdownPost(u)
    <3>1. late' = (late \/ ~inMap) /\ inMap' = inMap
      BY <2>2 DEF SendPost, ShutdownPost, RunInLoop
    <3> QED BY <3>1 DEF FunctorInv
  <2> QED BY <1>6, <2>1, <2>2 DEF User
<1>7. ~StopLoop /\ ~DestroyServer
  BY DEF StopLoop, DestroyServer, Undisturbed
<1> QED BY <1>1, <1>2, <1>3, <1>4, <1>5, <1>6, <1>7 DEF Next, IoLoop

\* A call that came too late has come too late.
LEMMA LateStays ==
  ASSUME [Next]_vars
  PROVE  late => late'
<1> USE DEF ioVars, queueVars, ownerVars, dataVars, envVars
<1> QED BY DEF Next, IoLoop, User, Peer, vars, LoopSend, LoopShutdown, GiveRef, CallbackReturns, PollEvents,
     PollWakeup, HandleError, HandleMessage, HandleClose, Cleanup, HandleWrite, EventsDone, StopLoop,
     SwapFunctors, FunctorsDone, ConnectionEstablished, ConnectionDestroyed, RemoveFromPoller, RunSend,
     RunShutdown, SendCheck, SendPost, ShutdownCheck, ShutdownSet, ShutdownPost, DropRef,
     RemoveConnectionInLoop, DestroyServer, PeerSends, PeerDrains, PeerCloses, PeerResets, Environment, RunInLoop

\* Only a connection that is up is closed by a hangup, its loop lives as long as its
\* server, and no assert fails.
LEMMA FailureStep ==
  ASSUME ConnectionInv, Life, Undisturbed, Undisturbed', [Next]_vars
  PROVE  /\ "close" \in revents' => Up'
         /\ ioPc' # "stopped"
         /\ ~late' => failure' = "none"
<1> USE DEF ioVars, queueVars, ownerVars, dataVars, envVars
<1>i. /\ ControlType /\ DataType /\ StateInv /\ ReadInv /\ StageInv /\ BatchInv /\ UserInv /\ FunctorInv
      /\ serverAlive /\ ~overClose
      /\ "close" \in revents => Up
      /\ ioPc # "stopped"
      /\ ~late => failure = "none"
      /\ batch \in Seq(Functors)
  BY DEF ConnectionInv, Life, Undisturbed, ControlType
<1>l. late => late'
  BY LateStays
<1>s. ASSUME UNCHANGED <<callbacks, failure>>, revents' \subseteq revents, ioPc' # "stopped"
      PROVE  /\ "close" \in revents' => Up'
             /\ ioPc' # "stopped"
             /\ ~late' => failure' = "none"
  BY <1>i, <1>l, <1>s DEF Up
<1>1. CASE LoopSend \/ LoopShutdown \/ (\E u \in Users : GiveRef(u)) \/ CallbackReturns \/ PollWakeup
           \/ HandleError \/ HandleMessage \/ HandleWrite \/ EventsDone \/ Cleanup \/ SwapFunctors
           \/ FunctorsDone \/ RemoveConnectionInLoop \/ Peer \/ UNCHANGED vars
  <2>1. /\ UNCHANGED <<callbacks, failure>> /\ revents' \subseteq revents
        /\ ioPc' \in {ioPc, after, "swap", "callback", "event", "functors", "poll"}
    BY <1>1, <1>i DEF LoopSend, LoopShutdown, GiveRef, CallbackReturns, PollWakeup, HandleError,
       HandleMessage, HandleWrite, EventsDone, Cleanup, SwapFunctors, FunctorsDone,
       RemoveConnectionInLoop, Peer, PeerSends, PeerDrains, PeerCloses, PeerResets, Environment, vars
  <2> QED BY <1>i, <1>s, <2>1 DEF ControlType
<1>2. CASE PollEvents
  <2>1. revents' = Handled(Ready) /\ ioPc' = "event" /\ UNCHANGED <<callbacks, failure>>
    BY <1>2 DEF PollEvents
  <2>2. "close" \in revents' => channel.watched # Unwatched
    BY <2>1 DEF Handled, Ready, Reported
  <2>3. channel.watched # Unwatched => state \in {"kConnected", "kDisconnecting"}
    BY <1>i, StageFacts DEF NewChannel, ControlType, States
  <2>4. state \in {"kConnected", "kDisconnecting"} => Up
    BY <1>i DEF StateInv, CallsOfState, Up
  <2> QED BY <1>i, <1>l, <2>1, <2>2, <2>3, <2>4 DEF Up
<1>3. ASSUME NEW e \in {"read", "close"}, HandleClose(e)
      PROVE  /\ "close" \in revents' => Up'
             /\ ioPc' # "stopped"
             /\ ~late' => failure' = "none"
  <2>1. ioPc' = "callback" /\ failure' = failure /\ revents' = revents \ {e} /\ e \in revents
    BY <1>3, ClosedWhenUp DEF HandleClose, TurnOf
  <2>2. "close" \notin revents'
    BY <1>i, <2>1 DEF ReadInv
  <2> QED BY <1>i, <1>l, <2>1, <2>2
<1>4. CASE ConnectionEstablished \/ ConnectionDestroyed
  <2>1. UNCHANGED <<revents, failure>> /\ ioPc' \in {"callback", "remove"} /\ ioPc = "functors"
    BY <1>4 DEF ConnectionEstablished, ConnectionDestroyed, NextFunctor
  <2>2. revents = {}
    BY <1>i, <2>1 DEF ReadInv, EventsHandled
  <2> QED BY <1>i, <1>l, <2>1, <2>2
<1>5. CASE RemoveFromPoller
  <2>1. MayRemove(channel)
    BY <1>5, <1>i, StageFacts DEF RemoveFromPoller, Removing
  <2>2. ioPc' = "functors" /\ UNCHANGED <<callbacks, revents, failure>>
    BY <1>5, <2>1 DEF RemoveFromPoller
  <2> QED BY <1>s, <2>2
<1>6. CASE RunSend \/ RunShutdown
  <2>1. /\ batch # <<>> /\ Head(batch) \in {"send", "shutdown"} /\ ioPc = "functors"
        /\ UNCHANGED <<callbacks, revents>> /\ ioPc' \in {ioPc, "aborted"}
        /\ Alive => failure' = failure
    BY <1>6 DEF RunSend, RunShutdown, NextFunctor, Fail
  <2>2. Raw(batch)
    BY <1>i, <2>1, LessFunctors DEF Holding
  <2>3. Destroys(pending) => \E i \in DOMAIN pending : pending[i] \in Holding
    BY DEF Destroys, Holding
  <2>4. ~late => Alive
    BY <1>i, <2>2, <2>3 DEF FunctorInv, Alive
  <2> QED BY <1>i, <1>l, <2>1, <2>4 DEF Up
<1>7. ASSUME NEW u \in Users, User(u)
      PROVE  /\ "close" \in revents' => Up'
             /\ ioPc' # "stopped"
             /\ ~late' => failure' = "none"
  <2>1. UNCHANGED <<callbacks, revents, failure, ioPc>>
    BY <1>7, <1>i DEF User, SendCheck, SendPost, ShutdownCheck, ShutdownSet, ShutdownPost, DropRef,
       RunInLoop
  <2> QED BY <1>i, <1>s, <2>1
<1>8. ~StopLoop /\ ~DestroyServer
  BY DEF StopLoop, DestroyServer, Undisturbed
<1> QED BY <1>1, <1>2, <1>3, <1>4, <1>5, <1>6, <1>7, <1>8 DEF Next, IoLoop

\* What disturbs the protocol is never undone.
LEMMA DisturbedStays ==
  ASSUME ControlType, [Next]_vars, Undisturbed'
  PROVE  Undisturbed
<1> USE DEF ioVars, queueVars, ownerVars, dataVars, envVars
<1>1. overClose => overClose'
  BY DEF Next, IoLoop, User, Peer, vars, LoopSend, LoopShutdown, GiveRef, CallbackReturns, PollEvents,
     PollWakeup, HandleError, HandleMessage, HandleClose, Cleanup, HandleWrite, EventsDone, StopLoop,
     SwapFunctors, FunctorsDone, ConnectionEstablished, ConnectionDestroyed, RemoveFromPoller, RunSend,
     RunShutdown, SendCheck, SendPost, ShutdownCheck, ShutdownSet, ShutdownPost, DropRef,
     RemoveConnectionInLoop, DestroyServer, PeerSends, PeerDrains, PeerCloses, PeerResets, Environment
<1>2. serverAlive' => serverAlive
  BY DEF Next, IoLoop, User, Peer, vars, LoopSend, LoopShutdown, GiveRef, CallbackReturns, PollEvents,
     PollWakeup, HandleError, HandleMessage, HandleClose, Cleanup, HandleWrite, EventsDone, StopLoop,
     SwapFunctors, FunctorsDone, ConnectionEstablished, ConnectionDestroyed, RemoveFromPoller, RunSend,
     RunShutdown, SendCheck, SendPost, ShutdownCheck, ShutdownSet, ShutdownPost, DropRef,
     RemoveConnectionInLoop, DestroyServer, PeerSends, PeerDrains, PeerCloses, PeerResets, Environment
<1> QED BY <1>1, <1>2 DEF Undisturbed, ControlType

LEMMA InitLife == Init => LifeInv
<1> SUFFICES ASSUME Init PROVE LifeInv
  OBVIOUS
<1>1. /\ pending = <<"established">> /\ batch = <<>> /\ state = "kConnecting" /\ ioPc = "poll"
      /\ removals = 0 /\ inMap = TRUE /\ channel = NewChannel /\ holders = {} /\ revents = {}
      /\ failure = "none" /\ \A u \in Users : userPc[u] = "idle"
  BY DEF Init
<1>2. ~Destroys(pending) /\ ~Raw(pending) /\ AtMostOnce(pending)
  BY <1>1 DEF Destroys, Raw, AtMostOnce, Holding
<1>3. StageInv
  <2>1. Stage("open") /\ ChannelAt("open")
    BY <1>1, <1>2, NoFunctors DEF Stage, ChannelAt, Closing, Removing, InCallback
  <2> QED BY <1>1, <1>2, <2>1, NoFunctors DEF StageInv, Stages
<1>4. BatchInv
  BY <1>1, NoFunctors DEF BatchInv, Removing, InCallback
<1>5. UserInv
  BY <1>1, <1>2, NoFunctors DEF UserInv, InCallback
<1>6. FunctorInv
  BY <1>1 DEF FunctorInv
<1> QED BY <1>1, <1>3, <1>4, <1>5, <1>6 DEF LifeInv, Life

\* While its server lives and no shutdown overwrites kDisconnected, a connection goes
\* through the stages of its removal one by one.
THEOREM OrderlyLife == Spec => [](ConnectionInv /\ LifeInv)
<1> DEFINE Inv == StreamInv /\ StateInv /\ ReadInv /\ LifeInv
<1>1. Init => Inv
  BY InitStream, InitCallbacks, InitLife
<1>2. Inv /\ [Next]_vars => Inv'
  <2> SUFFICES ASSUME Inv, [Next]_vars PROVE Inv'
    OBVIOUS
  <2>1. ControlType /\ DataType /\ StreamInOrder
    BY DEF StreamInv
  <2>2. ASSUME Undisturbed' PROVE Life'
    <3>1. Undisturbed /\ Life /\ ConnectionInv
      BY <2>1, <2>2, DisturbedStays DEF LifeInv, ConnectionInv
    <3> QED BY <2>2, <3>1, StageStep, BatchStep, UserStep, FunctorStep, FailureStep DEF Life
  <2> QED BY <2>1, <2>2, StreamStep, StateStep, ReadStep DEF LifeInv
<1>3. Inv => ConnectionInv /\ LifeInv
  BY DEF StreamInv, ConnectionInv
<1> QED BY <1>1, <1>2, <1>3, PTL DEF Spec

\* No assert of the connection, its channel or its poller fails, and no functor bound to
\* a raw this meets a freed one, for any number of other threads, which drop their
\* shared_ptr when they like: the functors they queue before connectionDestroyed run
\* before the shared_ptr that is bound there goes (handleClose, Channel::remove,
\* sendInLoop, shutdownInLoop).
THEOREM NothingFails == Spec => []NoFailure
<1>1. ConnectionInv /\ LifeInv => NoFailure
  BY DEF LifeInv, Life, NoFailure
<1> QED BY <1>1, OrderlyLife, PTL

\* The object outlives the handlers that run on it, and is freed only when the poller
\* has forgotten its channel (removeConnectionInLoop, connectionDestroyed).
THEOREM FreedAfterUse == Spec => []NeverFreedInUse
<1>1. ASSUME ConnectionInv, LifeInv, Undisturbed
      PROVE  /\ ioPc \in {"event", "callback", "cleanup", "remove"} => Alive
             /\ ~Alive => channel.state = kNew
  <2>1. /\ DataType /\ StageInv /\ BatchInv /\ ControlType
    BY <1>1 DEF LifeInv, Life, ConnectionInv
  <2>2. Destroys(batch) \/ Removing \/ (InCallback /\ after = "functors") => batchHolds
    BY <2>1 DEF BatchInv, Destroys, Holds, Holding
  <2>3. Destroys(pending) => \E i \in DOMAIN pending : pending[i] \in Holding
    BY DEF Destroys, Holding
  <2>4. ioPc = "event" => Alive
    BY <2>1, <2>2, StageFacts DEF Alive
  <2>5. ioPc = "callback" => Alive
    BY <2>1, <2>2 DEF Alive, Removing, InCallback, ControlType
  <2>6. ~Alive => channel.state = kNew
    BY <2>1, <2>2, <2>3, StageFacts DEF Alive, Closing, InCallback
  <2> QED BY <2>2, <2>4, <2>5, <2>6 DEF Alive, Removing
<1>2. ConnectionInv /\ LifeInv => NeverFreedInUse
  BY <1>1 DEF NeverFreedInUse
<1> QED BY <1>2, OrderlyLife, PTL
=============================================================================
