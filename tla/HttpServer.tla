----------------------------- MODULE HttpServer -----------------------------
(***************************************************************************)
(* The HTTP server (http/HttpServer.cc, HttpContext.cc, HttpRequest.h) on  *)
(* one I/O thread: all the thread's connections share one HttpContext      *)
(* (threadLocalContext_), which parses what each message brings and is     *)
(* reset after each answer.                                                *)
(*                                                                         *)
(* A connection's bytes are a sequence of lines; TCP cuts it anywhere, and *)
(* of a cut inside a line the parser sees only that the line's CRLF is not *)
(* there yet.  A line is what the parser can tell about it.  Requests have *)
(* no body: the parser does not support one.                               *)
(***************************************************************************)
EXTENDS Naturals, Sequences

CONSTANTS
  Conns,        \* the connections of the thread
  Paths,        \* request paths
  ClosingPaths, \* those for which the user's callback closes the connection
  Requests,     \* what clients ask
  NoConn,       \* not a connection
  NoPath,       \* path_ when it is empty
  MaxRequests   \* bound: how many requests there are on each connection

Versions == {"kUnknown", "kHttp10", "kHttp11"}

\* A path, a version (HTTP/2 and the like are "kUnknown") and whether there is a
\* header "Connection: close".
ASSUME RequestsAssumption ==
  Requests \subseteq [path : Paths, version : Versions, close : BOOLEAN]

ASSUME ConnsAssumption == NoConn \notin Conns
ASSUME PathsAssumption == NoPath \notin Paths
ASSUME BoundAssumption == MaxRequests \in [Conns -> Nat]

VARIABLES
  context,   \* the thread's HttpContext: state_, and what it has of a request
  current,   \* the connection whose message is being handled
  buffer,    \* inputBuffer_ of each connection, in whole lines
  wire,      \* the lines that have arrived since it was read
  readable,  \* anything has, be it a part of a line
  unsent,    \* the lines its client has yet to send of a request
  begun,     \* and has sent a part of the first of them
  open,      \* the connection is not shut down
  answers,   \* what was sent on it
  asked,     \* history: the requests its client began to send
  reads,     \* history: the messages handled that were exactly one request
  cut        \* history: some message was not

vars == <<context, current, buffer, wire, readable, unsent, begun, open, answers, asked, reads, cut>>

client == <<unsent, begun, asked>>

\* A line.  As a request line it has a path and a version, or is wrong; as a header
\* it has a colon, or ends the headers.
RequestLine(r) == [path |-> r.path, version |-> r.version, colon |-> FALSE, close |-> FALSE]
CloseHeader == [path |-> NoPath, version |-> "kUnknown", colon |-> TRUE, close |-> TRUE]
EmptyLine   == [path |-> NoPath, version |-> "kUnknown", colon |-> FALSE, close |-> FALSE]

LinesOf(r) == IF r.close THEN <<RequestLine(r), CloseHeader, EmptyLine>>
                         ELSE <<RequestLine(r), EmptyLine>>

Lines == [path : Paths \cup {NoPath}, version : Versions, colon : BOOLEAN, close : BOOLEAN]

\* kExpectBody is left at once, and never seen.
Contexts == [state : {"kExpectRequestLine", "kExpectHeaders", "kGotAll"},
             path : Paths \cup {NoPath}, version : Versions, close : BOOLEAN]

\* A context that was made, or reset.
Fresh == [state |-> "kExpectRequestLine", path |-> NoPath, version |-> "kUnknown",
          close |-> FALSE]

\* An answer: what the user's callback made of a request, or status 400.
Answers == [ok : BOOLEAN, path : Paths \cup {NoPath}, version : Versions, close : BOOLEAN]
BadRequest == [ok |-> FALSE, path |-> NoPath, version |-> "kUnknown", close |-> TRUE]

TypeOK ==
  /\ context \in Contexts
  /\ current \in Conns \cup {NoConn}
  /\ buffer \in [Conns -> Seq(Lines)]
  /\ wire \in [Conns -> Seq(Lines)]
  /\ readable \in [Conns -> BOOLEAN]
  /\ unsent \in [Conns -> Seq(Lines)]
  /\ begun \in [Conns -> BOOLEAN]
  /\ open \in [Conns -> BOOLEAN]
  /\ answers \in [Conns -> Seq(Answers)]
  /\ asked \in [Conns -> Seq(Requests)]
  /\ reads \in [Conns -> Nat]
  /\ cut \in [Conns -> BOOLEAN]

Init ==
  /\ context = Fresh
  /\ current = NoConn
  /\ buffer = [c \in Conns |-> <<>>]
  /\ wire = [c \in Conns |-> <<>>]
  /\ readable = [c \in Conns |-> FALSE]
  /\ unsent = [c \in Conns |-> <<>>]
  /\ begun = [c \in Conns |-> FALSE]
  /\ open = [c \in Conns |-> TRUE]
  /\ answers = [c \in Conns |-> <<>>]
  /\ asked = [c \in Conns |-> <<>>]
  /\ reads = [c \in Conns |-> 0]
  /\ cut = [c \in Conns |-> FALSE]

-----------------------------------------------------------------------------
(* The clients.                                                            *)

Ask(c, r) ==
  /\ unsent[c] = <<>> /\ Len(asked[c]) < MaxRequests[c]
  /\ unsent' = [unsent EXCEPT ![c] = LinesOf(r)]
  /\ asked' = [asked EXCEPT ![c] = Append(@, r)]
  /\ UNCHANGED <<context, current, buffer, wire, readable, begun, open, answers, reads, cut>>

\* A line, or the rest of it, arrives.
SendLine(c) ==
  /\ unsent[c] # <<>>
  /\ unsent' = [unsent EXCEPT ![c] = Tail(@)]
  /\ begun' = [begun EXCEPT ![c] = FALSE]
  /\ wire' = [wire EXCEPT ![c] = Append(@, Head(unsent[c]))]
  /\ readable' = [readable EXCEPT ![c] = TRUE]
  /\ UNCHANGED <<context, current, buffer, open, answers, asked, reads, cut>>

\* A part of a line arrives.
SendPart(c) ==
  /\ unsent[c] # <<>> /\ ~begun[c]
  /\ begun' = [begun EXCEPT ![c] = TRUE]
  /\ readable' = [readable EXCEPT ![c] = TRUE]
  /\ UNCHANGED <<context, current, buffer, wire, unsent, open, answers, asked, reads, cut>>

-----------------------------------------------------------------------------
(* onMessage: readFd, parseRequest, the answer.                            *)

\* handleRead: all that has arrived is read, and messageCallback_ is called.
Receive(c) ==
  /\ current = NoConn /\ readable[c]
  /\ current' = c
  /\ buffer' = [buffer EXCEPT ![c] = @ \o wire[c]]
  /\ wire' = [wire EXCEPT ![c] = <<>>]
  /\ readable' = [readable EXCEPT ![c] = FALSE]
  /\ LET whole == ~cut[c] /\ unsent[c] = <<>> /\ Len(asked[c]) = reads[c] + 1
     IN  /\ reads' = [reads EXCEPT ![c] = IF whole THEN @ + 1 ELSE @]
         /\ cut' = [cut EXCEPT ![c] = ~whole]
  /\ UNCHANGED <<context, client, open, answers>>

\* The message is c's and the parser in state s.
Parsing(c, s) == current = c /\ context.state = s

ValidRequestLine(line) == line.path # NoPath /\ line.version # "kUnknown"

\* A request line, and receiveRequestLine.
ParseRequestLine(c) ==
  /\ Parsing(c, "kExpectRequestLine") /\ buffer[c] # <<>>
  /\ ValidRequestLine(Head(buffer[c]))
  /\ context' = [context EXCEPT !.state = "kExpectHeaders", !.path = Head(buffer[c]).path,
                                !.version = Head(buffer[c]).version]
  /\ buffer' = [buffer EXCEPT ![c] = Tail(@)]
  /\ UNCHANGED <<current, wire, readable, client, open, answers, reads, cut>>

\* A header.
ParseHeader(c) ==
  /\ Parsing(c, "kExpectHeaders") /\ buffer[c] # <<>>
  /\ Head(buffer[c]).colon
  /\ context' = [context EXCEPT !.close = @ \/ Head(buffer[c]).close]
  /\ buffer' = [buffer EXCEPT ![c] = Tail(@)]
  /\ UNCHANGED <<current, wire, readable, client, open, answers, reads, cut>>

\* A line without a colon: receiveHeaders, and receiveBody of no body.
HeadersDone(c) ==
  /\ Parsing(c, "kExpectHeaders") /\ buffer[c] # <<>>
  /\ ~Head(buffer[c]).colon
  /\ context' = [context EXCEPT !.state = "kGotAll"]
  /\ buffer' = [buffer EXCEPT ![c] = Tail(@)]
  /\ UNCHANGED <<current, wire, readable, client, open, answers, reads, cut>>

\* conn->send and, if it asks for it, conn->shutdown.
Send(c, answer) ==
  /\ answers' = [answers EXCEPT ![c] = IF open[c] THEN Append(@, answer) ELSE @]
  /\ open' = [open EXCEPT ![c] = @ /\ ~answer.close]
  /\ current' = NoConn

\* A wrong request line, which stays in the buffer.  processRequestLine has set
\* the path if there is one.
RejectRequest(c) ==
  /\ Parsing(c, "kExpectRequestLine") /\ buffer[c] # <<>>
  /\ LET line == Head(buffer[c])
     IN  /\ ~ValidRequestLine(line)
         /\ context' = IF line.path # NoPath THEN [context EXCEPT !.path = line.path] ELSE context
  /\ Send(c, BadRequest)
  /\ UNCHANGED <<buffer, wire, readable, client, reads, cut>>

\* What the user's callback answers to the request in the context.
Response == [ok |-> TRUE, path |-> context.path, version |-> context.version,
             close |-> \/ context.close \/ context.version = "kHttp10"
                       \/ context.path \in ClosingPaths]

\* Faulty variant: reset leaves the headers.
ResetKeepingHeaders == context' = [Fresh EXCEPT !.close = context.close]

\* HttpContext::reset.
Reset == context' = Fresh

\* Faulty variant: the context is reset only if the connection is kept.
AnswerResetIfOpen(c) ==
  /\ current = c
  /\ context.state = "kGotAll" \/ buffer[c] = <<>>
  /\ Send(c, Response)
  /\ IF Response.close THEN UNCHANGED context ELSE Reset
  /\ UNCHANGED <<buffer, wire, readable, client, reads, cut>>

\* parseRequest returned true: the request is complete, or nothing more of it is
\* there.  Either is answered.
AnswerRequest(c) ==
  /\ current = c
  /\ context.state = "kGotAll" \/ buffer[c] = <<>>
  /\ Send(c, Response)
  /\ Reset
  /\ UNCHANGED <<buffer, wire, readable, client, reads, cut>>

OnMessage(c) ==
  \/ ParseRequestLine(c) \/ ParseHeader(c) \/ HeadersDone(c)
  \/ RejectRequest(c) \/ AnswerRequest(c)

-----------------------------------------------------------------------------
Next ==
  \E c \in Conns :
    \/ \E r \in Requests : Ask(c, r)
    \/ SendLine(c) \/ SendPart(c)
    \/ Receive(c) \/ OnMessage(c)

Spec == Init /\ [][Next]_vars

-----------------------------------------------------------------------------
(* Properties.                                                             *)

Expected(r) ==
  IF r.version = "kUnknown"
    THEN BadRequest
    ELSE [ok |-> TRUE, path |-> r.path, version |-> r.version,
          close |-> r.close \/ r.version = "kHttp10" \/ r.path \in ClosingPaths]

\* On a connection whose messages have each been one request, every request has
\* been answered by what it asked for itself, up to the first answer that closes
\* the connection, whatever the thread's other connections left in the context or
\* were in the middle of (onMessage, reset).
WholeRequestsAnswered ==
  \A c \in Conns : ~cut[c] /\ current # c =>
    LET n == Len(answers[c])
    IN  /\ n <= reads[c]
        /\ \A i \in 1 .. n : answers[c][i] = Expected(asked[c][i])
        /\ \A i \in 1 .. n - 1 : ~answers[c][i].close
        /\ n < reads[c] => n > 0 /\ answers[c][n].close

\* Between two messages nothing of a request is left in the context that the next
\* one, of any connection, starts from (reset), save the path of a rejected line.
\* In state kGotAll parseRequest would not return.
ContextReady == current = NoConn => context = [Fresh EXCEPT !.path = context.path]
=============================================================================
