-------------------------- MODULE HttpServer_proofs --------------------------
(***************************************************************************)
(* Proofs about HttpServer, for any connections and any requests: the      *)
(* context that a thread's connections share is ready for each message,    *)
(* and a connection whose messages have each been one request gets its own *)
(* answers, whatever the others send.                                      *)
(***************************************************************************)
EXTENDS HttpServer, SequenceTheorems, TLAPS

(***************************************************************************)
(* The inductive invariant.                                                *)
(***************************************************************************)

\* In its first state the parser knows nothing of a request but, from a line it
\* rejected, a path; and that is the state it is in between two messages.
ContextInv ==
  /\ context.state = "kExpectRequestLine" => context = [Fresh EXCEPT !.path = context.path]
  /\ current = NoConn => context.state = "kExpectRequestLine"

\* The request in the message that was read last.
LastRead(c) == asked[c][reads[c]]

\* What has arrived and what has not make up the request that c's next message may be.
WireInv(c) ==
  /\ reads[c] <= Len(asked[c])
  /\ Len(asked[c]) = reads[c] => unsent[c] = <<>> /\ wire[c] = <<>>
  /\ Len(asked[c]) = reads[c] + 1 => wire[c] \o unsent[c] = LinesOf(asked[c][reads[c] + 1])

\* How far the parser has come with request r: what is in the buffer is the rest of it.
AtRequestLine(c, r) ==
  context.state = "kExpectRequestLine" /\ buffer[c] = LinesOf(r)
AtHeaders(c, r) ==
  /\ context.state = "kExpectHeaders"
  /\ \/ ~context.close /\ buffer[c] = Tail(LinesOf(r))
     \/ context.close /\ r.close /\ buffer[c] = <<EmptyLine>>
AtEnd(c, r) ==
  context.state = "kGotAll" /\ context.close = r.close /\ buffer[c] = <<>>

ParseInv(c, r) ==
  \/ AtRequestLine(c, r)
  \/ /\ r.version # "kUnknown"
     /\ context.path = r.path /\ context.version = r.version
     /\ AtHeaders(c, r) \/ AtEnd(c, r)

\* The answers given so far are the right ones, and only the last may have closed.
AnswersInv(c) ==
  /\ Len(answers[c]) <= reads[c]
  /\ \A i \in 1 .. Len(answers[c]) : answers[c][i] = Expected(asked[c][i])
  /\ \A i \in 1 .. Len(answers[c]) - 1 : ~answers[c][i].close

\* An open connection has been answered everything but what is being parsed, and
\* one that is not has been told so.
ProgressInv(c) ==
  /\ ~open[c] => Len(answers[c]) > 0 /\ answers[c][Len(answers[c])].close
  /\ open[c] =>
       /\ \A i \in 1 .. Len(answers[c]) : ~answers[c][i].close
       /\ current # c => Len(answers[c]) = reads[c] /\ buffer[c] = <<>>
       /\ current = c => Len(answers[c]) + 1 = reads[c] /\ ParseInv(c, LastRead(c))

ConnInv(c) == WireInv(c) /\ AnswersInv(c) /\ ProgressInv(c)

IInv == TypeOK /\ ContextInv /\ \A c \in Conns : ~cut[c] => ConnInv(c)

-----------------------------------------------------------------------------
(* Types.                                                                  *)

\* The lines of a request are lines, the first of them its request line, which is
\* wrong only if its version is unknown (processRequestLine).
LEMMA LinesOfFacts ==
  ASSUME NEW r \in Requests
  PROVE  /\ r.path \in Paths /\ r.path # NoPath
         /\ r.version \in Versions /\ r.close \in BOOLEAN
         /\ LinesOf(r) \in Seq(Lines) /\ LinesOf(r) # <<>>
         /\ Head(LinesOf(r)) = RequestLine(r)
         /\ Tail(LinesOf(r)) = IF r.close THEN <<CloseHeader, EmptyLine>> ELSE <<EmptyLine>>
<1>1. r \in [path : Paths, version : Versions, close : BOOLEAN]
  BY RequestsAssumption
<1>2. /\ RequestLine(r) \in Lines /\ CloseHeader \in Lines /\ EmptyLine \in Lines
  BY <1>1 DEF RequestLine, CloseHeader, EmptyLine, Lines, Versions
<1>3. CASE r.close
  BY <1>1, <1>2, <1>3, PathsAssumption DEF LinesOf
<1>4. CASE ~r.close
  BY <1>1, <1>2, <1>4, PathsAssumption DEF LinesOf
<1> QED BY <1>3, <1>4

LEMMA FreshTyped == Fresh \in Contexts
BY DEF Fresh, Contexts, Versions

LEMMA ResponseTyped ==
  ASSUME context \in Contexts
  PROVE  Response \in Answers /\ BadRequest \in Answers
BY DEF Response, BadRequest, Answers, Contexts, Versions

LEMMA TypeStep ==
  ASSUME TypeOK, [Next]_vars
  PROVE  TypeOK'
<1> USE DEF TypeOK
<1>1. ASSUME NEW c \in Conns, NEW r \in Requests, Ask(c, r) PROVE TypeOK'
  <2>1. LinesOf(r) \in Seq(Lines) /\ Append(asked[c], r) \in Seq(Requests)
    BY <1>1, LinesOfFacts
  <2>2. unsent' \in [Conns -> Seq(Lines)] /\ asked' \in [Conns -> Seq(Requests)]
    BY <1>1, <2>1 DEF Ask
  <2>3. UNCHANGED <<context, current, buffer, wire, readable, begun, open, answers, reads, cut>>
    BY <1>1 DEF Ask
  <2> QED BY <2>2, <2>3
<1>2. ASSUME NEW c \in Conns, SendLine(c) PROVE TypeOK'
  <2>1. Head(unsent[c]) \in Lines /\ Tail(unsent[c]) \in Seq(Lines)
    BY <1>2 DEF SendLine
  <2>2. /\ unsent' \in [Conns -> Seq(Lines)] /\ wire' \in [Conns -> Seq(Lines)]
        /\ begun' \in [Conns -> BOOLEAN] /\ readable' \in [Conns -> BOOLEAN]
    BY <1>2, <2>1, SMTT(30) DEF SendLine
  <2>3. UNCHANGED <<context, current, buffer, open, answers, asked, reads, cut>>
    BY <1>2 DEF SendLine
  <2> QED BY <2>2, <2>3
<1>3. ASSUME NEW c \in Conns, SendPart(c) PROVE TypeOK'
  BY <1>3 DEF SendPart
<1>4. ASSUME NEW c \in Conns, Receive(c) PROVE TypeOK'
  BY <1>4 DEF Receive, client
<1>5. ASSUME NEW c \in Conns, buffer[c] # <<>>
      PROVE  Head(buffer[c]) \in Lines /\ Tail(buffer[c]) \in Seq(Lines)
  BY <1>5
<1>6. ASSUME NEW c \in Conns, NEW answer \in Answers, Send(c, answer)
      PROVE  /\ answers' \in [Conns -> Seq(Answers)]
             /\ open' \in [Conns -> BOOLEAN]
             /\ current' \in Conns \cup {NoConn}
  <2>1. answer.close \in BOOLEAN /\ open[c] \in BOOLEAN
    BY DEF Answers
  <2>2. Append(answers[c], answer) \in Seq(Answers) /\ answers[c] \in Seq(Answers)
    BY <1>6
  <2>3. answers' \in [Conns -> Seq(Answers)]
    BY <1>6, <2>2 DEF Send
  <2> QED BY <1>6, <2>1, <2>3 DEF Send
<1>7. ASSUME NEW c \in Conns, ParseRequestLine(c) PROVE TypeOK'
  <2>1. Head(buffer[c]) \in Lines /\ Tail(buffer[c]) \in Seq(Lines)
    BY <1>5, <1>7 DEF ParseRequestLine
  <2>2. context' \in Contexts
    BY <1>7, <2>1 DEF ParseRequestLine, Contexts, Lines
  <2> QED BY <1>7, <2>1, <2>2 DEF ParseRequestLine, client
<1>8. ASSUME NEW c \in Conns, ParseHeader(c) PROVE TypeOK'
  <2>1. Head(buffer[c]) \in Lines /\ Tail(buffer[c]) \in Seq(Lines)
    BY <1>5, <1>8 DEF ParseHeader
  <2>2. context' \in Contexts
    BY <1>8, <2>1 DEF ParseHeader, Contexts, Lines
  <2> QED BY <1>8, <2>1, <2>2 DEF ParseHeader, client
<1>9. ASSUME NEW c \in Conns, HeadersDone(c) PROVE TypeOK'
  <2>1. Tail(buffer[c]) \in Seq(Lines)
    BY <1>5, <1>9 DEF HeadersDone
  <2>2. context' \in Contexts
    BY <1>9 DEF HeadersDone, Contexts
  <2> QED BY <1>9, <2>1, <2>2 DEF HeadersDone, client
<1>10. ASSUME NEW c \in Conns, RejectRequest(c) PROVE TypeOK'
  <2>1. Head(buffer[c]) \in Lines
    BY <1>5, <1>10 DEF RejectRequest
  <2>2. context' \in Contexts
    BY <1>10, <2>1 DEF RejectRequest, Contexts, Lines
  <2> QED BY <1>6, <1>10, <2>2, ResponseTyped DEF RejectRequest, client
<1>11. ASSUME NEW c \in Conns, AnswerRequest(c) PROVE TypeOK'
  BY <1>6, <1>11, ResponseTyped, FreshTyped DEF AnswerRequest, Reset, client
<1>12. CASE UNCHANGED vars
  BY <1>12 DEF vars
<1> QED BY <1>1, <1>2, <1>3, <1>4, <1>7, <1>8, <1>9, <1>10, <1>11, <1>12
        DEF Next, OnMessage

-----------------------------------------------------------------------------
(* The context.  A message that is rejected leaves the parser where it was *)
(* and sets nothing but the path; one that is answered resets it.          *)
LEMMA ContextStep ==
  ASSUME TypeOK, ContextInv, [Next]_vars
  PROVE  ContextInv'
<1> USE DEF ContextInv
<1>1. context \in Contexts
  BY DEF TypeOK
<1>2. ASSUME UNCHANGED <<context, current>> PROVE ContextInv'
  BY <1>2
<1>3. ASSUME NEW c \in Conns, Receive(c) PROVE ContextInv'
  BY <1>3, ConnsAssumption DEF Receive
<1>4. ASSUME NEW c \in Conns, ParseRequestLine(c) \/ ParseHeader(c) \/ HeadersDone(c)
      PROVE  ContextInv'
  <2>1. current' # NoConn
    BY <1>4, ConnsAssumption DEF ParseRequestLine, ParseHeader, HeadersDone, Parsing
  <2>2. context'.state \in {"kExpectHeaders", "kGotAll"}
    BY <1>1, <1>4 DEF ParseRequestLine, ParseHeader, HeadersDone, Parsing, Contexts
  <2> QED BY <2>1, <2>2
<1>5. ASSUME NEW c \in Conns, RejectRequest(c) PROVE ContextInv'
  <2>1. /\ context.state = "kExpectRequestLine"
        /\ \/ context' = context
           \/ context' = [context EXCEPT !.path = Head(buffer[c]).path]
    BY <1>5 DEF RejectRequest, Parsing
  <2>2. context = [Fresh EXCEPT !.path = context.path]
    BY <2>1
  <2> QED BY <1>1, <2>1, <2>2 DEF Fresh, Contexts
<1>6. ASSUME NEW c \in Conns, AnswerRequest(c) PROVE ContextInv'
  BY <1>6 DEF AnswerRequest, Reset, Fresh
<1>7. ASSUME NEW c \in Conns, (\E r \in Requests : Ask(c, r)) \/ SendLine(c) \/ SendPart(c)
      PROVE  ContextInv'
  BY <1>2, <1>7 DEF Ask, SendLine, SendPart
<1>8. CASE UNCHANGED vars
  BY <1>2, <1>8 DEF vars
<1> QED BY <1>3, <1>4, <1>5, <1>6, <1>7, <1>8 DEF Next, OnMessage

-----------------------------------------------------------------------------
(* A connection keeps what holds of it while others are served.            *)
Same(d) ==
  /\ buffer'[d] = buffer[d] /\ wire'[d] = wire[d] /\ unsent'[d] = unsent[d]
  /\ open'[d] = open[d] /\ answers'[d] = answers[d]
  /\ asked'[d] = asked[d] /\ reads'[d] = reads[d]

LEMMA SameKeeps ==
  ASSUME NEW d \in Conns, ConnInv(d), Same(d),
         (current' = d) <=> (current = d), current = d => context' = context
  PROVE  ConnInv(d)'
<1>1. WireInv(d)'
  BY DEF ConnInv, WireInv, Same
<1>2. AnswersInv(d)'
  BY DEF ConnInv, AnswersInv, Same
<1>3. current = d => (ParseInv(d, LastRead(d)) <=> ParseInv(d, LastRead(d))')
  BY DEF Same, ParseInv, LastRead, AtRequestLine, AtHeaders, AtEnd
<1>4. ProgressInv(d)'
  BY <1>3 DEF ConnInv, ProgressInv, Same
<1> QED BY <1>1, <1>2, <1>4 DEF ConnInv

\* What a step on one connection leaves alone of another.
LEMMA OthersKeep ==
  ASSUME TypeOK, NEW c \in Conns, NEW d \in Conns, d # c, ConnInv(d),
         (\E r \in Requests : Ask(c, r)) \/ SendLine(c) \/ SendPart(c)
           \/ Receive(c) \/ OnMessage(c)
  PROVE  ConnInv(d)'
<1> USE DEF TypeOK
<1>1. CASE \E r \in Requests : Ask(c, r)
  <2>1. Same(d) /\ UNCHANGED <<context, current>>
    BY <1>1 DEF Ask, Same
  <2> QED BY <2>1, SameKeeps
<1>2. CASE SendLine(c) \/ SendPart(c)
  <2>1. Same(d) /\ UNCHANGED <<context, current>>
    BY <1>2 DEF SendLine, SendPart, Same
  <2> QED BY <2>1, SameKeeps
<1>3. CASE Receive(c)
  <2>1. Same(d) /\ current # d /\ current' # d
    BY <1>3, ConnsAssumption DEF Receive, client, Same
  <2> QED BY <2>1, SameKeeps
<1>4. CASE OnMessage(c)
  <2>1. current = c /\ current' \in {c, NoConn}
    BY <1>4 DEF OnMessage, ParseRequestLine, ParseHeader, HeadersDone, RejectRequest,
                AnswerRequest, Send, Parsing
  <2>2. Same(d)
    BY <1>4 DEF OnMessage, ParseRequestLine, ParseHeader, HeadersDone, RejectRequest,
                AnswerRequest, Send, client, Same
  <2> QED BY <2>1, <2>2, SameKeeps, ConnsAssumption
<1> QED BY <1>1, <1>2, <1>3, <1>4

-----------------------------------------------------------------------------
(* The client's steps.                                                     *)

LEMMA AskKeeps ==
  ASSUME TypeOK, NEW c \in Conns, NEW r \in Requests, Ask(c, r), ConnInv(c)
  PROVE  ConnInv(c)'
<1> USE DEF TypeOK
<1>1. /\ asked[c] \in Seq(Requests) /\ reads[c] \in Nat /\ unsent[c] = <<>>
      /\ asked'[c] = Append(asked[c], r) /\ unsent'[c] = LinesOf(r)
      /\ wire'[c] = wire[c] /\ reads'[c] = reads[c] /\ answers'[c] = answers[c]
      /\ buffer'[c] = buffer[c] /\ open'[c] = open[c]
      /\ UNCHANGED <<context, current>>
  BY DEF Ask
<1>2. /\ Len(asked'[c]) = Len(asked[c]) + 1 /\ Len(asked[c]) \in Nat
      /\ asked'[c][Len(asked[c]) + 1] = r
      /\ \A i \in 1 .. Len(asked[c]) : asked'[c][i] = asked[c][i]
  BY <1>1
<1>3. WireInv(c)'
  <2>1. reads[c] <= Len(asked[c])
    BY DEF ConnInv, WireInv
  <2>2. CASE Len(asked[c]) = reads[c]
    <3>1. wire[c] = <<>> /\ LinesOf(r) \in Seq(Lines)
      BY <2>2, LinesOfFacts DEF ConnInv, WireInv
    <3>2. wire[c] \o LinesOf(r) = LinesOf(r)
      BY <3>1
    <3>3. wire'[c] \o unsent'[c] = LinesOf(asked'[c][reads'[c] + 1])
      BY <1>1, <1>2, <2>2, <3>2
    <3>4. reads'[c] <= Len(asked'[c]) /\ Len(asked'[c]) # reads'[c]
      BY <1>1, <1>2, <2>2
    <3> QED BY <3>3, <3>4 DEF WireInv
  <2>3. CASE Len(asked[c]) # reads[c]
    <3> DEFINE m == Len(asked[c])
    <3>1. m \in Nat /\ reads[c] \in Nat /\ reads[c] <= m /\ m # reads[c]
      BY <1>1, <1>2, <2>1, <2>3
    <3>2. Len(asked'[c]) = m + 1 /\ reads'[c] = reads[c]
      BY <1>1, <1>2
    <3> HIDE DEF m
    <3>3. reads[c] <= m + 1 /\ m + 1 # reads[c] /\ m + 1 # reads[c] + 1
      BY <3>1
    <3>4. /\ reads'[c] <= Len(asked'[c]) /\ Len(asked'[c]) # reads'[c]
          /\ Len(asked'[c]) # reads'[c] + 1
      BY ONLY <3>2, <3>3
    <3> QED BY <3>4 DEF WireInv
  <2> QED BY <2>2, <2>3
<1>4. /\ Len(answers[c]) \in Nat /\ Len(answers[c]) <= reads[c] /\ reads[c] <= Len(asked[c])
      /\ \A i \in 1 .. Len(answers[c]) : asked'[c][i] = asked[c][i]
  BY <1>2 DEF ConnInv, AnswersInv, WireInv
<1>5. AnswersInv(c)'
  BY <1>1, <1>4 DEF ConnInv, AnswersInv
<1>6. ProgressInv(c)'
  <2>1. open[c] /\ current = c => reads[c] > 0 /\ LastRead(c)' = LastRead(c)
    BY <1>1, <1>2, <1>4 DEF ConnInv, ProgressInv, LastRead
  <2>2. open[c] /\ current = c => ParseInv(c, LastRead(c))'
    BY <1>1, <2>1 DEF ConnInv, ProgressInv, ParseInv, AtRequestLine, AtHeaders, AtEnd
  <2> QED BY <1>1, <2>2 DEF ConnInv, ProgressInv
<1> QED BY <1>3, <1>5, <1>6 DEF ConnInv

\* The first of what is behind becomes the last of what is before.
LEMMA HeadMoves ==
  ASSUME NEW S, NEW s \in Seq(S), NEW t \in Seq(S), t # <<>>
  PROVE  Append(s, Head(t)) \o Tail(t) = s \o t
<1> DEFINE l == Append(s, Head(t)) \o Tail(t)
           r == s \o t
<1>1. /\ Head(t) \in S /\ Tail(t) \in Seq(S) /\ Append(s, Head(t)) \in Seq(S)
      /\ Len(s) \in Nat /\ Len(t) \in Nat /\ Len(t) > 0
      /\ Len(Append(s, Head(t))) = Len(s) + 1 /\ Len(Tail(t)) = Len(t) - 1
  OBVIOUS
<1>2. /\ l \in Seq(S) /\ r \in Seq(S)
      /\ Len(l) = Len(s) + Len(t) /\ Len(r) = Len(s) + Len(t)
  BY <1>1
<1>3. ASSUME NEW i \in 1 .. Len(s) + Len(t) PROVE l[i] = r[i]
  <2>1. CASE i <= Len(s)
    BY <1>1, <2>1
  <2>2. CASE i = Len(s) + 1
    BY <1>1, <2>2
  <2>3. CASE i > Len(s) + 1
    <3>1. l[i] = Tail(t)[i - (Len(s) + 1)]
      BY <1>1, <2>3
    <3>2. Tail(t)[i - (Len(s) + 1)] = t[i - Len(s)]
      BY <1>1, <2>3
    <3>3. r[i] = t[i - Len(s)]
      BY <1>1, <2>3
    <3> QED BY <3>1, <3>2, <3>3
  <2> QED BY <1>1, <2>1, <2>2, <2>3
<1> HIDE DEF l, r
<1>4. l = r
  BY <1>2, <1>3, SeqEqual
<1> QED BY <1>4 DEF l, r

LEMMA SendLineKeeps ==
  ASSUME TypeOK, NEW c \in Conns, SendLine(c) \/ SendPart(c), ConnInv(c)
  PROVE  ConnInv(c)'
<1> USE DEF TypeOK
<1>1. CASE SendPart(c)
  <2>1. Same(c) /\ UNCHANGED <<context, current>>
    BY <1>1 DEF SendPart, Same
  <2> QED BY <2>1, SameKeeps
<1>2. CASE SendLine(c)
  <2>1. /\ wire[c] \in Seq(Lines) /\ unsent[c] \in Seq(Lines) /\ unsent[c] # <<>>
        /\ wire'[c] = Append(wire[c], Head(unsent[c])) /\ unsent'[c] = Tail(unsent[c])
        /\ asked'[c] = asked[c] /\ reads'[c] = reads[c] /\ answers'[c] = answers[c]
        /\ buffer'[c] = buffer[c] /\ open'[c] = open[c]
        /\ UNCHANGED <<context, current>>
    BY <1>2 DEF SendLine
  <2>2. wire'[c] \o unsent'[c] = wire[c] \o unsent[c]
    BY <2>1, HeadMoves
  <2>3. WireInv(c)'
    BY <2>1, <2>2 DEF ConnInv, WireInv
  <2>4. AnswersInv(c)'
    BY <2>1 DEF ConnInv, AnswersInv
  <2>5. ProgressInv(c)'
    BY <2>1 DEF ConnInv, ProgressInv, LastRead, ParseInv, AtRequestLine, AtHeaders, AtEnd
  <2> QED BY <2>3, <2>4, <2>5 DEF ConnInv
<1> QED BY <1>1, <1>2

-----------------------------------------------------------------------------
(* The server's steps.                                                     *)

\* The message may be one request, and the context is ready for it (handleRead).
LEMMA ReceiveKeeps ==
  ASSUME TypeOK, ContextInv, NEW c \in Conns, Receive(c),
         ~cut[c] => ConnInv(c), ~cut'[c]
  PROVE  ConnInv(c)'
<1> USE DEF TypeOK
<1>1. ~cut[c] /\ unsent[c] = <<>> /\ Len(asked[c]) = reads[c] + 1
  BY DEF Receive
<1>2. /\ wire'[c] = <<>> /\ unsent'[c] = <<>> /\ asked'[c] = asked[c]
      /\ reads[c] \in Nat /\ reads'[c] = reads[c] + 1
      /\ answers'[c] = answers[c] /\ open'[c] = open[c]
      /\ buffer'[c] = buffer[c] \o wire[c] /\ current' = c /\ current # c
      /\ context' = context /\ context.state = "kExpectRequestLine"
  BY <1>1, ConnsAssumption DEF Receive, client, ContextInv
<1>3. wire[c] = LinesOf(LastRead(c)')
  <2>1. wire[c] \in Seq(Lines) /\ wire[c] \o <<>> = wire[c]
    OBVIOUS
  <2> QED BY <1>1, <1>2, <2>1 DEF ConnInv, WireInv, LastRead
<1>4. WireInv(c)'
  BY <1>1, <1>2 DEF WireInv
<1>5. AnswersInv(c)'
  <2>1. Len(answers[c]) \in Nat
    OBVIOUS
  <2> QED BY <1>1, <1>2, <2>1 DEF ConnInv, AnswersInv
<1>6. open[c] => ParseInv(c, LastRead(c))'
  <2> SUFFICES ASSUME open[c] PROVE ParseInv(c, LastRead(c))'
    OBVIOUS
  <2>1. buffer[c] = <<>> /\ wire[c] \in Seq(Lines)
    BY <1>1, <1>2 DEF ConnInv, ProgressInv
  <2>2. buffer'[c] = LinesOf(LastRead(c)')
    BY <1>2, <1>3, <2>1
  <2> QED BY <1>2, <2>2 DEF ParseInv, AtRequestLine
<1>7. ProgressInv(c)'
  BY <1>1, <1>2, <1>6 DEF ConnInv, ProgressInv
<1> QED BY <1>4, <1>5, <1>7 DEF ConnInv

\* The request that is being parsed on an open connection.
LEMMA LastReadIsARequest ==
  ASSUME TypeOK, NEW c \in Conns, ConnInv(c), current = c, open[c]
  PROVE  LastRead(c) \in Requests /\ ParseInv(c, LastRead(c))
<1> USE DEF TypeOK
<1>1. Len(answers[c]) \in Nat /\ reads[c] \in Nat /\ asked[c] \in Seq(Requests)
  OBVIOUS
<1>2. Len(answers[c]) + 1 = reads[c] /\ reads[c] <= Len(asked[c]) /\ ParseInv(c, LastRead(c))
  BY DEF ConnInv, WireInv, ProgressInv
<1>3. reads[c] \in 1 .. Len(asked[c])
  BY <1>1, <1>2
<1> QED BY <1>1, <1>2, <1>3 DEF LastRead

\* A line is parsed.
LEMMA ParseKeeps ==
  ASSUME TypeOK, NEW c \in Conns, ConnInv(c), current = c,
         UNCHANGED <<current, wire, unsent, asked, open, answers, reads>>,
         open[c] => ParseInv(c, LastRead(c))'
  PROVE  ConnInv(c)'
<1>1. WireInv(c)'
  BY DEF ConnInv, WireInv
<1>2. AnswersInv(c)'
  BY DEF ConnInv, AnswersInv
<1>3. ProgressInv(c)'
  BY DEF ConnInv, ProgressInv
<1> QED BY <1>1, <1>2, <1>3 DEF ConnInv

LEMMA LineKeeps ==
  ASSUME TypeOK, ContextInv, NEW c \in Conns, ConnInv(c),
         ParseRequestLine(c) \/ ParseHeader(c) \/ HeadersDone(c)
  PROVE  ConnInv(c)'
<1> DEFINE r == LastRead(c)
<1>1. /\ current = c /\ buffer[c] # <<>> /\ buffer'[c] = Tail(buffer[c])
      /\ UNCHANGED <<current, wire, unsent, asked, open, answers, reads>>
  BY DEF ParseRequestLine, ParseHeader, HeadersDone, Parsing, client, TypeOK
<1>2. r' = r
  BY <1>1 DEF LastRead
<1>3. SUFFICES ASSUME open[c] PROVE ParseInv(c, r)'
  BY <1>1, <1>2, ParseKeeps
<1>4. r \in Requests /\ ParseInv(c, r)
  BY <1>1, <1>3, LastReadIsARequest
<1> HIDE DEF r
<1>5. /\ r.path # NoPath /\ r.close \in BOOLEAN
      /\ Head(LinesOf(r)) = RequestLine(r)
      /\ Tail(LinesOf(r)) = IF r.close THEN <<CloseHeader, EmptyLine>> ELSE <<EmptyLine>>
  BY <1>4, LinesOfFacts
<1>6. context \in Contexts
  BY DEF TypeOK
<1>7. CASE ParseRequestLine(c)
  <2>1. AtRequestLine(c, r)
    BY <1>4, <1>7 DEF ParseRequestLine, Parsing, ParseInv, AtHeaders, AtEnd
  <2>2. Head(buffer[c]) = RequestLine(r) /\ buffer'[c] = Tail(LinesOf(r))
    BY <1>1, <1>5, <2>1 DEF AtRequestLine
  <2>3. ~context.close
    BY <2>1 DEF AtRequestLine, ContextInv, Fresh
  <2>4. /\ context'.state = "kExpectHeaders" /\ ~context'.close
        /\ context'.path = r.path /\ context'.version = r.version
        /\ r.version # "kUnknown"
    BY <1>6, <1>7, <2>2, <2>3 DEF ParseRequestLine, ValidRequestLine, RequestLine, Contexts
  <2> QED BY <1>2, <2>2, <2>4 DEF ParseInv, AtHeaders
<1>8. CASE ParseHeader(c) \/ HeadersDone(c)
  <2>1. /\ AtHeaders(c, r) /\ r.version # "kUnknown"
        /\ context.path = r.path /\ context.version = r.version
    BY <1>4, <1>8 DEF ParseHeader, HeadersDone, Parsing, ParseInv, AtRequestLine, AtEnd
  <2>2. CASE ~context.close /\ r.close
    <3>1. buffer[c] = <<CloseHeader, EmptyLine>>
      BY <1>5, <2>1, <2>2 DEF AtHeaders
    <3>2. Head(buffer[c]) = CloseHeader /\ buffer'[c] = <<EmptyLine>>
      BY <1>1, <3>1
    <3>3. CloseHeader.colon /\ CloseHeader.close
      BY DEF CloseHeader
    <3>4. context' = [context EXCEPT !.close = @ \/ Head(buffer[c]).close]
      BY <1>8, <3>2, <3>3 DEF ParseHeader, HeadersDone
    <3>5. /\ context'.state = "kExpectHeaders" /\ context'.close
          /\ context'.path = r.path /\ context'.version = r.version
      BY <1>6, <2>1, <3>2, <3>3, <3>4 DEF AtHeaders, Contexts
    <3> QED BY <1>2, <2>1, <2>2, <3>2, <3>5 DEF ParseInv, AtHeaders
  <2>3. CASE context.close <=> r.close
    <3>1. buffer[c] = <<EmptyLine>>
      BY <1>5, <2>1, <2>3 DEF AtHeaders
    <3>2. Head(buffer[c]) = EmptyLine /\ buffer'[c] = <<>>
      BY <1>1, <3>1
    <3>3. context' = [context EXCEPT !.state = "kGotAll"]
      BY <1>8, <3>2 DEF ParseHeader, HeadersDone, EmptyLine
    <3>4. /\ context'.state = "kGotAll" /\ context'.close = context.close
          /\ context'.path = r.path /\ context'.version = r.version
      BY <1>6, <2>1, <3>3 DEF Contexts
    <3>5. context.close = r.close
      BY <1>5, <1>6, <2>3 DEF Contexts
    <3> QED BY <1>2, <2>1, <3>2, <3>4, <3>5 DEF ParseInv, AtEnd
  <2>4. context.close => r.close
    BY <2>1 DEF AtHeaders
  <2> QED BY <2>2, <2>3, <2>4
<1> QED BY <1>7, <1>8

\* The message has been parsed, and is answered: on an open connection by what it
\* asks for itself, and either it closes or nothing is left to be parsed.
LEMMA AnswerKeeps ==
  ASSUME TypeOK, NEW c \in Conns, ConnInv(c), current = c,
         NEW answer \in Answers, Send(c, answer),
         UNCHANGED <<buffer, wire, unsent, asked, reads>>,
         open[c] => /\ answer = Expected(LastRead(c))
                    /\ answer.close \/ buffer[c] = <<>>
  PROVE  ConnInv(c)'
<1> USE DEF TypeOK
<1>1. WireInv(c)'
  BY DEF ConnInv, WireInv
<1>2. current' # c /\ open'[c] = (open[c] /\ ~answer.close)
  BY ConnsAssumption DEF Send
<1>3. CASE ~open[c]
  <2>1. answers'[c] = answers[c] /\ ~open'[c]
    BY <1>2, <1>3 DEF Send
  <2>2. AnswersInv(c)'
    BY <2>1 DEF ConnInv, AnswersInv
  <2>3. ProgressInv(c)'
    BY <1>3, <2>1 DEF ConnInv, ProgressInv
  <2> QED BY <1>1, <2>2, <2>3 DEF ConnInv
<1>4. CASE open[c]
  <2> DEFINE n == Len(answers[c])
  <2>1. /\ n \in Nat /\ n + 1 = reads[c]
        /\ \A i \in 1 .. n : answers[c][i] = Expected(asked[c][i])
        /\ \A i \in 1 .. n : ~answers[c][i].close
    BY <1>4 DEF ConnInv, AnswersInv, ProgressInv
  <2>2. /\ Len(answers'[c]) = n + 1 /\ answers'[c][n + 1] = answer
        /\ \A i \in 1 .. n : answers'[c][i] = answers[c][i]
    <3>1. answers'[c] = Append(answers[c], answer) /\ answers[c] \in Seq(Answers)
      BY <1>4 DEF Send
    <3> QED BY <3>1
  <2> HIDE DEF n
  <2>3. answer = Expected(asked[c][n + 1])
    BY <1>4, <2>1 DEF LastRead
  <2>4. asked'[c] = asked[c] /\ reads'[c] = reads[c] /\ buffer'[c] = buffer[c]
    OBVIOUS
  <2>5. \A i \in 1 .. n + 1 : i = n + 1 \/ i \in 1 .. n
    BY <2>1
  <2>6. AnswersInv(c)'
    <3>1. \A i \in 1 .. n + 1 : answers'[c][i] = Expected(asked'[c][i])
      BY <2>1, <2>2, <2>3, <2>4, <2>5
    <3>2. \A i \in 1 .. n : ~answers'[c][i].close
      BY <2>1, <2>2
    <3>3. (n + 1) - 1 = n /\ n + 1 <= reads'[c]
      BY <2>1, <2>4
    <3> QED BY <2>2, <3>1, <3>2, <3>3 DEF AnswersInv
  <2>7. ProgressInv(c)'
    <3>1. CASE answer.close
      <4>1. ~open'[c]
        BY <1>2, <3>1, Zenon
      <4>2. n + 1 > 0 /\ answers'[c][n + 1].close
        BY <2>1, <2>2, <3>1
      <4> QED BY <2>2, <4>1, <4>2 DEF ProgressInv
    <3>2. CASE ~answer.close
      <4>1. \A i \in 1 .. n + 1 : ~answers'[c][i].close
        BY <2>1, <2>2, <2>5, <3>2
      <4>2. open'[c] /\ buffer'[c] = <<>>
        BY <1>2, <1>4, <2>4, <3>2
      <4> QED BY <1>2, <2>1, <2>2, <2>4, <4>1, <4>2 DEF ProgressInv
    <3> QED BY <3>1, <3>2
  <2> QED BY <1>1, <2>6, <2>7 DEF ConnInv
<1> QED BY <1>3, <1>4

\* A request line that is rejected is of an unknown version: its path is not empty.
LEMMA RejectKeeps ==
  ASSUME TypeOK, NEW c \in Conns, ConnInv(c), RejectRequest(c)
  PROVE  ConnInv(c)'
<1>1. /\ current = c /\ Send(c, BadRequest) /\ BadRequest \in Answers
      /\ UNCHANGED <<buffer, wire, unsent, asked, reads>>
  BY ResponseTyped DEF RejectRequest, Parsing, client, TypeOK
<1>2. open[c] => BadRequest = Expected(LastRead(c))
  <2> DEFINE r == LastRead(c)
  <2> SUFFICES ASSUME open[c] PROVE BadRequest = Expected(r)
    OBVIOUS
  <2>1. r \in Requests /\ ParseInv(c, r)
    BY <1>1, LastReadIsARequest
  <2> HIDE DEF r
  <2>2. AtRequestLine(c, r)
    BY <2>1 DEF RejectRequest, Parsing, ParseInv, AtHeaders, AtEnd
  <2>3. Head(buffer[c]) = RequestLine(r) /\ r.path # NoPath
    BY <2>1, <2>2, LinesOfFacts DEF AtRequestLine
  <2>4. r.version = "kUnknown"
    BY <2>3 DEF RejectRequest, ValidRequestLine, RequestLine
  <2> QED BY <2>4 DEF Expected
<1>3. BadRequest.close
  BY DEF BadRequest
<1> QED BY <1>1, <1>2, <1>3, AnswerKeeps

\* An answer to a whole request comes when the request has been parsed to its end.
LEMMA AnswerRequestKeeps ==
  ASSUME TypeOK, NEW c \in Conns, ConnInv(c), AnswerRequest(c)
  PROVE  ConnInv(c)'
<1>1. /\ current = c /\ Send(c, Response) /\ Response \in Answers
      /\ UNCHANGED <<buffer, wire, unsent, asked, reads>>
  BY ResponseTyped DEF AnswerRequest, client, TypeOK
<1>2. open[c] => Response = Expected(LastRead(c)) /\ buffer[c] = <<>>
  <2> DEFINE r == LastRead(c)
  <2> SUFFICES ASSUME open[c] PROVE Response = Expected(r) /\ buffer[c] = <<>>
    OBVIOUS
  <2>1. r \in Requests /\ ParseInv(c, r)
    BY <1>1, LastReadIsARequest
  <2> HIDE DEF r
  <2>2. LinesOf(r) # <<>> /\ Tail(LinesOf(r)) # <<>> /\ <<EmptyLine>> # <<>>
    <3>1. Tail(LinesOf(r)) \in {<<CloseHeader, EmptyLine>>, <<EmptyLine>>}
      BY <2>1, LinesOfFacts
    <3>2. <<CloseHeader, EmptyLine>> # <<>> /\ <<EmptyLine>> # <<>>
      OBVIOUS
    <3> QED BY <2>1, <3>1, <3>2, LinesOfFacts
  <2>3. /\ AtEnd(c, r) /\ r.version # "kUnknown"
        /\ context.path = r.path /\ context.version = r.version
    BY <2>1, <2>2 DEF AnswerRequest, ParseInv, AtRequestLine, AtHeaders
  <2> QED BY <2>3 DEF AtEnd, Response, Expected
<1> QED BY <1>1, <1>2, AnswerKeeps

-----------------------------------------------------------------------------
LEMMA ConnStep ==
  ASSUME IInv, [Next]_vars, NEW d \in Conns, ~cut'[d]
  PROVE  ConnInv(d)'
<1>1. TypeOK /\ ContextInv /\ (~cut[d] => ConnInv(d))
  BY DEF IInv
<1>2. CASE UNCHANGED vars
  <2>1. Same(d) /\ UNCHANGED <<context, current>> /\ ~cut[d]
    BY <1>2 DEF vars, Same
  <2> QED BY <1>1, <2>1, SameKeeps
<1>3. CASE Next
  <2>1. PICK c \in Conns : (\E r \in Requests : Ask(c, r)) \/ SendLine(c) \/ SendPart(c)
                             \/ Receive(c) \/ OnMessage(c)
    BY <1>3 DEF Next
  <2>2. CASE Receive(d) /\ c = d
    BY <1>1, <2>2, ReceiveKeeps
  <2>3. ~(c = d /\ Receive(d)) => ConnInv(d)
    <3>1. c # d \/ ~Receive(c) => cut'[d] = cut[d]
      BY <1>1, <2>1 DEF Ask, SendLine, SendPart, Receive, OnMessage, ParseRequestLine,
            ParseHeader, HeadersDone, RejectRequest, AnswerRequest, TypeOK
    <3> QED BY <1>1, <3>1
  <2>4. CASE c # d
    BY <1>1, <2>1, <2>3, <2>4, OthersKeep
  <2>5. CASE c = d /\ ~Receive(d)
    <3>1. ConnInv(d)
      BY <2>3, <2>5
    <3>2. CASE \E r \in Requests : Ask(d, r)
      BY <1>1, <3>1, <3>2, AskKeeps
    <3>3. CASE SendLine(d) \/ SendPart(d)
      BY <1>1, <3>1, <3>3, SendLineKeeps
    <3>4. CASE ParseRequestLine(d) \/ ParseHeader(d) \/ HeadersDone(d)
      BY <1>1, <3>1, <3>4, LineKeeps
    <3>5. CASE RejectRequest(d)
      BY <1>1, <3>1, <3>5, RejectKeeps
    <3>6. CASE AnswerRequest(d)
      BY <1>1, <3>1, <3>6, AnswerRequestKeeps
    <3> QED BY <2>1, <2>5, <3>2, <3>3, <3>4, <3>5, <3>6 DEF OnMessage
  <2> QED BY <2>2, <2>4, <2>5
<1> QED BY <1>2, <1>3

LEMMA InitKeeps == Init => IInv
<1> SUFFICES ASSUME Init PROVE IInv
  OBVIOUS
<1>1. TypeOK
  BY FreshTyped DEF Init, TypeOK
<1>2. ContextInv
  BY DEF Init, ContextInv, Fresh
<1>3. ASSUME NEW c \in Conns PROVE ConnInv(c)
  <2>1. /\ reads[c] = 0 /\ asked[c] = <<>> /\ answers[c] = <<>> /\ buffer[c] = <<>>
        /\ wire[c] = <<>> /\ unsent[c] = <<>> /\ open[c] /\ current # c
    BY ConnsAssumption DEF Init
  <2> QED BY <2>1 DEF ConnInv, WireInv, AnswersInv, ProgressInv
<1> QED BY <1>1, <1>2, <1>3 DEF IInv

(***************************************************************************)
(* The invariant holds of every reachable state.                           *)
(***************************************************************************)
THEOREM Invariant == Spec => []IInv
<1>1. IInv /\ [Next]_vars => IInv'
  BY TypeStep, ContextStep, ConnStep DEF IInv
<1> QED BY <1>1, InitKeeps, PTL DEF Spec

(***************************************************************************)
(* Between two messages the context that all connections of the thread     *)
(* share holds nothing of a request but the path of a rejected line        *)
(* (HttpContext::reset, which onMessage calls after each answer).          *)
(***************************************************************************)
THEOREM ContextAlwaysReady == Spec => []ContextReady
<1>1. IInv => ContextReady
  BY DEF IInv, ContextInv, ContextReady
<1> QED BY <1>1, Invariant, PTL

(***************************************************************************)
(* A connection whose messages have each been one request is answered by   *)
(* what each of them asked for, up to the first answer that closes it,     *)
(* whatever the thread's other connections send and in whatever order      *)
(* (onMessage).                                                            *)
(***************************************************************************)
THEOREM RequestsAnswered == Spec => []WholeRequestsAnswered
<1>1. IInv => WholeRequestsAnswered
  <2> SUFFICES ASSUME IInv, NEW c \in Conns, ~cut[c], current # c
               PROVE  LET n == Len(answers[c])
                      IN  /\ n <= reads[c]
                          /\ \A i \in 1 .. n : answers[c][i] = Expected(asked[c][i])
                          /\ \A i \in 1 .. n - 1 : ~answers[c][i].close
                          /\ n < reads[c] => n > 0 /\ answers[c][n].close
    BY DEF WholeRequestsAnswered
  <2>1. ConnInv(c) /\ Len(answers[c]) \in Nat /\ reads[c] \in Nat
    BY DEF IInv, TypeOK
  <2>2. AnswersInv(c)
    BY <2>1 DEF ConnInv
  <2>3. Len(answers[c]) < reads[c] => ~open[c]
    BY <2>1 DEF ConnInv, ProgressInv
  <2>4. ~open[c] => Len(answers[c]) > 0 /\ answers[c][Len(answers[c])].close
    BY <2>1 DEF ConnInv, ProgressInv
  <2> QED BY <2>2, <2>3, <2>4 DEF AnswersInv
<1> QED BY <1>1, Invariant, PTL
=============================================================================
