---------------------------- MODULE MCHttpServer ----------------------------
(***************************************************************************)
(* Instances of HttpServer for TLC.                                        *)
(***************************************************************************)
EXTENDS HttpServer, TLC

CONSTANTS c1, c2, page, missing

Plain == [path |-> page, version |-> "kHttp11", close |-> FALSE]

\* A plain request, one that asks to close, one of an old and one of an unknown
\* version, and one that the callback closes.
MCRequests ==
  {Plain, [Plain EXCEPT !.close = TRUE], [Plain EXCEPT !.version = "kHttp10"],
   [Plain EXCEPT !.version = "kUnknown"], [Plain EXCEPT !.path = missing]}

MCMaxRequests == (c1 :> 2) @@ (c2 :> 1)
=============================================================================
