----------------------------- MODULE MCRpcChannel ----------------------------
EXTENDS RpcChannel, TLC

\* The loop of the calling thread serves the call.
Live == {"fresh", "running"}

-----------------------------------------------------------------------------
(* Addresses *)

SomeNumbers == "80" :> 80 @@ "1000" :> 1000 @@ "70000" :> 70000
SomeQuads == {"127.0.0.1"}

\* One stub of each name, with an address and without one, and a name for the second time
SomeStubs ==
  LET stub(name, port) == [name |-> <<name>>, timeout |-> "1000", ip |-> "127.0.0.1",
                           port |-> port]
  IN  <<stub("order", "80"), stub("far", "70000"), stub("far", "80")>>

\* An address, one with a port that is no number or too large, one without an ip, a stub,
\* one without an address, a name nobody knows
SomeTargets ==
  {<<"127.0.0.1", "80">>, <<"127.0.0.1", "http">>, <<"127.0.0.1", "70000">>, <<"", "80">>,
   <<"order">>, <<"far">>, <<"elsewhere">>}
==============================================================================
