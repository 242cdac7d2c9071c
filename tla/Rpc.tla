--------------------------------- MODULE Rpc ---------------------------------
(***************************************************************************)
(* Remote procedure calls (rpc/RpcServer.cc, rpc/RpcClient.h): clients     *)
(* that block in a call, and a server on a TcpServer whose I/O threads     *)
(* each have one Serializer for all their connections (ThreadLocal).       *)
(*                                                                         *)
(* A message has no frame: either side takes what one read brings for a    *)
(* whole message.  TCP keeps the order of the bytes but may cut them       *)
(* anywhere; a read takes any part of what is under way.  An I/O thread    *)
(* handles a message without looking at anything another thread writes, so *)
(* that one message is one step.                                           *)
(***************************************************************************)
EXTENDS Serializer

CONSTANTS
  Clients,
  Threads,      \* the server's I/O threads
  ThreadOf,     \* the thread of each client's connection
  Types,        \* the bound functions: the types of their arguments
  ResultType,   \* and of their results
  Run(_, _),    \* what the user's function returns
  NotBound(_),  \* the message about a function that is not bound
  Calls,        \* what each client calls: the function, the arguments, their types
  Uninit,       \* an uninitialised value
  NoCall,       \* not a call
  MaxTries,     \* how often a client tries to connect, 10 in the code
  MaxCalls      \* bound: how many calls each client makes

ASSUME ThreadsAssumption == ThreadOf \in [Clients -> Threads]
ASSUME BoundAssumption == MaxTries \in Nat /\ MaxCalls \in [Clients -> Nat]

\* Calls are as the functions are bound: nothing in a message tells the server the
\* types.  Strings are not longer than a uint16_t says and have no NUL in them.
ASSUME CallsAssumption ==
  \A c \in Clients : \A k \in Calls[c] :
    /\ IsText(k.func)
    /\ Len(k.types) \in Nat /\ k.args \in Seq(Seq(Byte)) /\ Len(k.args) = Len(k.types)
    /\ \A i \in 1 .. Len(k.types) : IsValue(k.args[i], k.types[i])
    /\ IF k.func \in DOMAIN Types
         THEN /\ k.types = Types[k.func] /\ k.result = ResultType[k.func]
              /\ IsValue(Run(k.func, k.args), k.result)
         ELSE IsText(NotBound(k.func))

VARIABLES
  server,      \* "new", "listening", or "down": the process is gone
  serializer,  \* each thread's serializer
  input,       \* inputBuffer_ of each client's connection
  toServer,    \* the bytes under way on it, each way
  toClient,
  client,      \* "new", "ready", "calling", or "gone": the process is gone
  tries,       \* how often it tried to connect
  timedOut,    \* stateCode_ = RPC_RECV_TIMEOUT
  call,        \* the call it is in
  results,     \* history: its calls, and what they returned
  cut          \* history: a message on its connection was not read as a whole

vars == <<server, serializer, input, toServer, toClient, client, tries, timedOut, call,
          results, cut>>

serverVars == <<server, serializer, input>>
clientVars == <<client, tries, timedOut, call, results>>
wires == <<toServer, toClient>>

Stream == Seq(Byte)

TypeOK ==
  /\ server \in {"new", "listening", "down"}
  /\ serializer \in [Threads -> Stream]
  /\ input \in [Clients -> Stream]
  /\ toServer \in [Clients -> Stream]
  /\ toClient \in [Clients -> Stream]
  /\ client \in [Clients -> {"new", "ready", "calling", "gone"}]
  /\ tries \in [Clients -> 0 .. MaxTries]
  /\ timedOut \in [Clients -> BOOLEAN]
  /\ \A c \in Clients : call[c] \in Calls[c] \cup {NoCall}
  /\ cut \in [Clients -> BOOLEAN]

Init ==
  /\ server = "new"
  /\ serializer = [t \in Threads |-> <<>>]
  /\ input = [c \in Clients |-> <<>>]
  /\ toServer = [c \in Clients |-> <<>>]
  /\ toClient = [c \in Clients |-> <<>>]
  /\ client = [c \in Clients |-> "new"]
  /\ tries = [c \in Clients |-> 0]
  /\ timedOut = [c \in Clients |-> FALSE]
  /\ call = [c \in Clients |-> NoCall]
  /\ results = [c \in Clients |-> <<>>]
  /\ cut = [c \in Clients |-> FALSE]

-----------------------------------------------------------------------------
(* The server.                                                             *)

\* ThreadLocal::initValue, which every I/O thread runs before its loop.
NewSerializers == [t \in Threads |-> <<>>]

\* ThreadLocal::value, in the thread of c's connection.
SerializerOf(c) == serializer[ThreadOf[c]]

\* start: a serializer for each thread, then listen.
Start ==
  /\ server = "new"
  /\ server' = "listening"
  /\ serializer' = NewSerializers
  /\ UNCHANGED <<input, wires, clientVars, cut>>

\* The process ends.
Stop ==
  /\ server = "listening"
  /\ server' = "down"
  /\ UNCHANGED <<serializer, input, wires, clientVars, cut>>

\* callproxyImpl: the arguments from the stream, the call, its result in their place.
CallProxy(f, args) ==
  PutValue(<<>>, ResultType[f], RPC_SUCCESS, <<>>, Run(f, args))

\* Faulty variant: a call of a function that is not bound gets no answer.
AnswerIfBound(stream) ==
  LET name == GetString(stream)
      args == IF name.value \in DOMAIN Types THEN GetTuple(name.rest, Types[name.value]) ELSE name
  IN  [ok |-> name.ok /\ args.ok,
       stream |-> IF name.value \in DOMAIN Types THEN CallProxy(name.value, args.value) ELSE <<>>]

\* The answer to what is in the stream, and whether the asserts hold.
Answer(stream) ==
  LET name == GetString(stream)
      args == IF name.value \in DOMAIN Types THEN GetTuple(name.rest, Types[name.value]) ELSE name
  IN  [ok |-> name.ok /\ args.ok,
       stream |-> IF name.value \in DOMAIN Types
                    THEN CallProxy(name.value, args.value)
                    ELSE PutString(PutObject(<<>>, CodeObject(RPC_FUNCTION_NOTBIND)),
                                   NotBound(name.value))]

\* Faulty variant: the serializer is not cleared when the answer has been sent.
OnMessageKeepingAnswer(c, bytes) ==
  LET answer == Answer(input[c] \o bytes)
  IN  /\ input' = [input EXCEPT ![c] = SerializerOf(c)]
      /\ IF answer.ok
           THEN /\ toClient' = [toClient EXCEPT ![c] = @ \o answer.stream]
                /\ serializer' = [serializer EXCEPT ![ThreadOf[c]] = answer.stream]
                /\ UNCHANGED server
           ELSE /\ server' = "down"
                /\ UNCHANGED <<serializer, toClient>>

\* onMessage, with what handleRead has read.  A failed assert ends the process.
OnMessage(c, bytes) ==
  LET answer == Answer(input[c] \o bytes)
  IN  /\ input' = [input EXCEPT ![c] = SerializerOf(c)]
      /\ IF answer.ok
           THEN /\ toClient' = [toClient EXCEPT ![c] = @ \o answer.stream]
                /\ serializer' = [serializer EXCEPT ![ThreadOf[c]] = <<>>]
                /\ UNCHANGED server
           ELSE /\ server' = "down"
                /\ UNCHANGED <<serializer, toClient>>

\* The first n bytes under way to the server are read.
ServerRead(c, n) ==
  /\ server = "listening"
  /\ OnMessage(c, SubSeq(toServer[c], 1, n))
  /\ toServer' = [toServer EXCEPT ![c] = Rest(@, n)]
  /\ cut' = [cut EXCEPT ![c] = @ \/ n < Len(toServer[c])]
  /\ UNCHANGED clientVars

-----------------------------------------------------------------------------
(* A client.                                                               *)

\* connect gets through.
Connect(c) ==
  /\ client[c] = "new" /\ server = "listening" /\ tries[c] < MaxTries
  /\ client' = [client EXCEPT ![c] = "ready"]
  /\ UNCHANGED <<serverVars, wires, tries, timedOut, call, results, cut>>

\* Or is refused, and tried again later.
ConnectRefused(c) ==
  /\ client[c] = "new" /\ server # "listening" /\ tries[c] < MaxTries
  /\ tries' = [tries EXCEPT ![c] = @ + 1]
  /\ UNCHANGED <<serverVars, client, wires, timedOut, call, results, cut>>

\* After the last try the process exits.
GiveUp(c) ==
  /\ client[c] = "new" /\ tries[c] = MaxTries
  /\ client' = [client EXCEPT ![c] = "gone"]
  /\ UNCHANGED <<serverVars, wires, tries, timedOut, call, results, cut>>

Returned(c, k, result) ==
  results' = [results EXCEPT ![c] = Append(@, [call |-> k, result |-> result])]

\* What a call returns that did not get an answer.
TimeoutResult == [code |-> CodeObject(RPC_RECV_TIMEOUT), value |-> Uninit]

\* call: the function's name and the arguments are packed and written.
Call(c, k) ==
  /\ client[c] = "ready" /\ ~timedOut[c] /\ Len(results[c]) < MaxCalls[c]
  /\ client' = [client EXCEPT ![c] = "calling"]
  /\ call' = [call EXCEPT ![c] = k]
  /\ toServer' = [toServer EXCEPT ![c] =
       @ \o PackageArgs(PutString(<<>>, k.func), k.types, k.args)]
  /\ UNCHANGED <<serverVars, toClient, tries, timedOut, results, cut>>

\* Once a call has failed, the next ones fail at once.
CallAfterTimeout(c, k) ==
  /\ client[c] = "ready" /\ timedOut[c] /\ Len(results[c]) < MaxCalls[c]
  /\ Returned(c, k, TimeoutResult)
  /\ UNCHANGED <<serverVars, wires, client, tries, timedOut, call, cut>>

\* netCall reads something and takes it for the value.  The rest of it is dropped.
Receive(c, n) ==
  /\ client[c] = "calling"
  /\ LET val == GetValue(SubSeq(toClient[c], 1, n), call[c].result, Uninit)
     IN  IF val.ok
           THEN /\ client' = [client EXCEPT ![c] = "ready"]
                /\ call' = [call EXCEPT ![c] = NoCall]
                /\ timedOut' = [timedOut EXCEPT ![c] = val.code = CodeObject(RPC_RECV_TIMEOUT)]
                /\ Returned(c, call[c], [code |-> val.code, value |-> val.value])
           ELSE /\ client' = [client EXCEPT ![c] = "gone"]
                /\ UNCHANGED <<call, timedOut, results>>
  /\ toClient' = [toClient EXCEPT ![c] = Rest(@, n)]
  /\ cut' = [cut EXCEPT ![c] = @ \/ n < Len(toClient[c])]
  /\ UNCHANGED <<serverVars, toServer, tries>>

\* Or finds that the server has closed the connection.
ReceiveFails(c) ==
  /\ client[c] = "calling" /\ server = "down" /\ toClient[c] = <<>>
  /\ client' = [client EXCEPT ![c] = "ready"]
  /\ call' = [call EXCEPT ![c] = NoCall]
  /\ timedOut' = [timedOut EXCEPT ![c] = TRUE]
  /\ Returned(c, call[c], TimeoutResult)
  /\ UNCHANGED <<serverVars, wires, tries, cut>>

-----------------------------------------------------------------------------
ServerStep(c) == \E n \in 1 .. Len(toServer[c]) : ServerRead(c, n)
ClientStep(c) == \/ \E n \in 1 .. Len(toClient[c]) : Receive(c, n)
                 \/ ReceiveFails(c)

Next ==
  \/ Start \/ Stop
  \/ \E c \in Clients :
       \/ ServerStep(c) \/ ClientStep(c)
       \/ Connect(c) \/ ConnectRefused(c) \/ GiveUp(c)
       \/ \E k \in Calls[c] : Call(c, k) \/ CallAfterTimeout(c, k)

Spec == Init /\ [][Next]_vars

\* The server's threads handle what arrives, and a client that calls reads.
FairSpec == Spec /\ \A c \in Clients : WF_vars(ServerStep(c)) /\ WF_vars(ClientStep(c))

-----------------------------------------------------------------------------
(* Properties.                                                             *)

\* What a call should return.
Expected(k) ==
  IF k.func \in DOMAIN Types
    THEN [code |-> CodeObject(RPC_SUCCESS), value |-> Run(k.func, k.args)]
    ELSE [code |-> CodeObject(RPC_FUNCTION_NOTBIND), value |-> Uninit]

\* On a connection whose messages were each read as a whole, a call returns what the
\* function makes of its own arguments, or a timeout if the server is gone, whatever
\* the thread's other connections called meanwhile or had cut (onMessage, netCall).
WholeCallsAnswered ==
  \A c \in Clients : ~cut[c] =>
    \A i \in DOMAIN results[c] :
      \/ results[c][i].result = Expected(results[c][i].call)
      \/ server = "down" /\ results[c][i].result = TimeoutResult

\* A client's process does not end because of an answer that came as a whole.
WholeAnswersRead ==
  \A c \in Clients : client[c] = "gone" => cut[c] \/ tries[c] = MaxTries

\* A call returns, although nothing on the client's side limits the wait: the server
\* answers whatever it reads, or its process ends.
CallsReturn == \A c \in Clients : client[c] = "calling" ~> client[c] # "calling"
=============================================================================
