-------------------------------- MODULE MCRpc --------------------------------
(***************************************************************************)
(* Instances of Rpc for TLC.  Bytes have three values, so that a string is *)
(* at most eight bytes long.                                               *)
(***************************************************************************)
EXTENDS Rpc, TLC

CONSTANTS c1, c2, t1

MCThreadOf == [c \in Clients |-> t1]

add == <<1>>
getName == <<2>>

\* int add(int, int) and string getName(), an int in one byte.
MCTypes == (add :> <<1, 1>>) @@ (getName :> <<>>)
MCResultType == (add :> 1) @@ (getName :> String)
MCRun(f, args) ==
  IF f = add THEN <<(args[1][1] + args[2][1]) % Base>> ELSE <<2, 1>>
MCNotBound(name) == <<1>> \o name

Add(a, b) ==
  [func |-> add, types |-> <<1, 1>>, args |-> <<<<a>>, <<b>>>>, result |-> 1]
GetName == [func |-> getName, types |-> <<>>, args |-> <<>>, result |-> String]
Unbound == [func |-> <<1, 1>>, types |-> <<String>>, args |-> <<<<1>>>>, result |-> 1]

MCCalls == (c1 :> {Add(1, 1), GetName}) @@ (c2 :> {Add(2, 2), Unbound})

MCUninit == <<Base>>
MCMaxCalls == (c1 :> 2) @@ (c2 :> 1)
=============================================================================
