------------------------------- MODULE Config --------------------------------
(***************************************************************************)
(* What the program makes of its configuration file and of the addresses   *)
(* in it: Config (common/config.cpp), IPNetAddr (net/TCP/net_addr.cpp) and *)
(* RpcChannel::FindAddr.  Operators only; Server and RpcChannel use them.  *)
(*                                                                         *)
(* A file is a record: whether LoadFile takes it, its elements with their  *)
(* texts, and the rpc_server elements below "stubs", each with its         *)
(* children.  An address as a text is the sequence of its parts: what is   *)
(* in front of the first colon and, if there is one, what is behind it.    *)
(* A pointer is a sequence of at most one element; <<>> is nullptr.        *)
(***************************************************************************)
EXTENDS Integers, Sequences

CONSTANTS
  Numbers,  \* what std::stoi makes of each text that it takes; it throws for others
  Quads     \* the texts that inet_addr takes

ASSUME ConfigAssumption == \A text \in DOMAIN Numbers : Numbers[text] \in Int

Null == <<>>

-----------------------------------------------------------------------------
(* IPNetAddr *)

\* What CheckValid asks of the two parts, the port being a number.
ValidParts(ip, port) == ip # "" /\ port \in 0..65535 /\ ip \in Quads

\* Both parts are there, so that CheckValid reads the port.
Complete(text) == Len(text) = 2 /\ text[1] # "" /\ text[2] # ""

\* CheckValid lets the exception of std::stoi pass.
CheckThrows(text) == Complete(text) /\ text[2] \notin DOMAIN Numbers

CheckValid(text) == Complete(text) /\ ValidParts(text[1], Numbers[text[2]])

\* The two constructors; the first one takes the port as a uint16_t.
IPNetAddr(ip, port) == [ip |-> ip, port |-> port % 65536]
IPNetAddrOf(text) == IPNetAddr(text[1], Numbers[text[2]])

-----------------------------------------------------------------------------
(* The constructor of Config *)

Sections == {"root", "log", "server"}
LogTexts == {"log_level", "log_file_name", "log_file_path", "log_max_file_size",
             "log_flush_interval"}
ServerTexts == {"port", "io_threads"}
StubTexts == {"name", "timeout", "ip", "port"}

\* The element is there and has a text that std::stoi takes.
HasNumber(texts, name) == name \in DOMAIN texts /\ texts[name] \in DOMAIN Numbers

\* An element that an entry does not have is read through a null pointer.
StubCrashes(node) ==
  ~(StubTexts \subseteq DOMAIN node /\ HasNumber(node, "timeout") /\ HasNumber(node, "port"))

\* Rpcstub: a stub whose address is not valid keeps a null one.
Rpcstub(node) ==
  [timeout |-> Numbers[node.timeout],
   addr |-> IF ValidParts(node.ip, Numbers[node.port])
            THEN <<IPNetAddr(node.ip, Numbers[node.port])>> ELSE Null]

\* m_rpc_stubs: insert keeps the first entry of a name.
RpcStubs(nodes) ==
  LET First(name) == CHOOSE i \in DOMAIN nodes :
                       nodes[i].name = name /\ \A j \in 1..(i - 1) : nodes[j].name # name
  IN  [name \in {nodes[i].name : i \in DOMAIN nodes} |-> Rpcstub(nodes[First(name)])]

\* The process ends in the constructor: it exits for a file or an element it cannot
\* read, and an exception of std::stoi is not caught.
Rejects(file) ==
  \/ ~file.loads
  \/ ~(Sections \cup LogTexts \cup ServerTexts) \subseteq DOMAIN file.texts
  \/ \E name \in {"log_max_file_size", "log_flush_interval"} \cup ServerTexts :
       ~HasNumber(file.texts, name)
  \/ \E i \in DOMAIN file.stubs : StubCrashes(file.stubs[i])

ConfigOf(file) ==
  [log_level |-> file.texts["log_level"],
   log_flush_interval |-> Numbers[file.texts["log_flush_interval"]],
   port |-> Numbers[file.texts["port"]],
   io_threads |-> Numbers[file.texts["io_threads"]],
   rpc_stubs |-> RpcStubs(file.stubs)]

\* The program was started without the name of a file.
DefaultConfig ==
  [log_level |-> "DEBUG", log_flush_interval |-> 0, port |-> 0, io_threads |-> 0,
   rpc_stubs |-> RpcStubs(<<>>)]

-----------------------------------------------------------------------------
(* RpcChannel::FindAddr *)

\* An address, or the name of a stub, whose address may be null
FindAddr(text, rpc_stubs) ==
  IF CheckValid(text) THEN <<IPNetAddrOf(text)>>
  ELSE IF text \in DOMAIN rpc_stubs THEN rpc_stubs[text].addr
  ELSE Null
=============================================================================
