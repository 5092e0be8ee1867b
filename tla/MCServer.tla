------------------------------ MODULE MCServer -------------------------------
(* Instances of Server for TLC; the values are in the .cfg files. *)
EXTENDS Server, TLC

CONSTANTS c1, c2

\* Two requests on one connection, one on the other.
TwoAndOne == c1 :> 2 @@ c2 :> 1

Two == [c \in Conns |-> 2]

-----------------------------------------------------------------------------
(* Configuration files *)

SomeNumbers == "12345" :> 12345 @@ "4" :> 4 @@ "-1" :> -1 @@ "500" :> 500 @@ "70000" :> 70000
SomeQuads == {"127.0.0.1"}

\* conf/rocket.xml: what is below its element "stub" is not read.
RocketXml ==
  [loads |-> TRUE,
   texts |-> [name \in {"root", "log", "server", "log_file_name", "log_file_path"} |-> "test"]
             @@ "log_level" :> "DEBUG" @@ "log_max_file_size" :> "500"
             @@ "log_flush_interval" :> "500" @@ "port" :> "12345" @@ "io_threads" :> "4",
   stubs |-> <<>>]

\* Threads a vector cannot hold; one entry of "stubs" too many, the first of which is kept
\* and has no valid address
NegativeXml ==
  LET stub(port) == [name |-> <<"order">>, timeout |-> "500", ip |-> "127.0.0.1",
                     port |-> port]
  IN  [RocketXml EXCEPT !.texts["io_threads"] = "-1",
                        !.stubs = <<stub("70000"), stub("12345")>>]

\* conf/rocket_client.xml has no element "server".
ClientXml ==
  [RocketXml EXCEPT !.texts = [name \in DOMAIN @ \ {"server", "port", "io_threads"} |-> @[name]]]

\* A stub without an element, a number that is none
StubXml == [RocketXml EXCEPT !.stubs = <<[name |-> <<"order">>, ip |-> "127.0.0.1"]>>]
WordXml == [RocketXml EXCEPT !.texts["port"] = "http"]

SomeFiles == {RocketXml, NegativeXml, ClientXml, StubXml, WordXml}
==============================================================================
