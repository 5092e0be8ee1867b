------------------------------ MODULE Dispatch ------------------------------
(***************************************************************************)
(* RpcDispatcher and the services of one IO thread: requests dispatched to *)
(* services that answer at once, later, or never; the RpcInterface that    *)
(* the generated code makes for each request and that answers from its     *)
(* destructor; the calls services make to other servers in the meantime;   *)
(* RunTime, which all of them share; and the ids those calls carry.        *)
(*                                                                         *)
(* Everything runs on the IO thread that getIOthread returns, one callback *)
(* after the other. What becomes of a reply is in Server and PacketStream, *)
(* what becomes of a call in RpcChannel.                                   *)
(***************************************************************************)
EXTENDS MsgId, FiniteSets

CONSTANTS
  Requests,        \* the requests, each with its own id
  Names,           \* method names that requests carry: sequences of the parts between dots
  Services,        \* the services: a function from names to sets of methods
  Plain,           \* the names of those not made by the generator
  MaxCalls         \* bound: calls made

NoRequest == "none"

ASSUME RequestAssumption == NoRequest \notin Requests

VARIABLES
  services,        \* the names in m_service_map
  runtime,         \* RunTime: the request that set message id and method last
  phase,           \* of each request
  response,        \* the code in the response of each request
  replies,         \* the codes connection->reply was called with, for each request
  calls,           \* the calls made: for whom, with what id, and whether it is out
  generator        \* of message ids, for this thread

vars == << services, runtime, phase, response, replies, calls, generator >>

ErrorCodes == { "parse_service_name", "service_not_found", "method_not_found",
                "failed_deserialize" }

\* "given up": dispatch or a plain service returned without running the closure.
Phases == {"new", "kept", "answered", "given up"}
Codes == {"none", "ok", "failed"} \cup ErrorCodes

IdOf(r) == << "request", r >>
Unread == << "unread", <<>> >>
Generated(no) == << "generated", no >>

Ids == { IdOf(r) : r \in Requests } \cup {Unread}
         \cup { Generated(no) : no \in Digits \cup {NoId} }
Calls == [ for : Requests \cup {NoRequest}, id : Ids, out : BOOLEAN ]

Init ==
  /\ services = {}
  /\ runtime = NoRequest
  /\ phase = [r \in Requests |-> "new"]
  /\ response = [r \in Requests |-> "none"]
  /\ replies = [r \in Requests |-> <<>>]
  /\ calls = <<>>
  /\ generator = [no |-> NoId, draws |-> 0]

Out(k) == calls[k].out
OutFor(r) == { k \in DOMAIN calls : calls[k].for = r /\ calls[k].out }

RegisterService(name) ==
  /\ services' = services \cup {name}
  /\ UNCHANGED << runtime, phase, response, replies, calls, generator >>

\* parseServiceFullName: find_last_of('.')
parses(name)      == Len(name) >= 2
service_name(name) == SubSeq(name, 1, Len(name) - 1)
method_name(name)  == name[Len(name)]

\* What keeps dispatch from calling the service, "none" if nothing does.
Obstacle(name, well_formed) ==
  CASE ~parses(name)                                       -> "parse_service_name"
    [] parses(name) /\ service_name(name) \notin services  -> "service_not_found"
    [] parses(name) /\ service_name(name) \in services
         /\ method_name(name) \notin Services[service_name(name)] -> "method_not_found"
    [] OTHER -> IF well_formed THEN "none" ELSE "failed_deserialize"

(* dispatch fills the response with the error and returns; nobody sends it. *)
DispatchFails(r, name, well_formed) ==
  /\ phase[r] = "new"
  /\ Obstacle(name, well_formed) # "none"
  /\ phase' = [phase EXCEPT ![r] = "given up"]
  /\ response' = [response EXCEPT ![r] = Obstacle(name, well_formed)]
  /\ UNCHANGED << services, runtime, replies, calls, generator >>

Call(r, id) == [for |-> r, id |-> id, out |-> TRUE]

\* RpcChannel::CallMethod, for a controller without an id, when RunTime has that of current
CallId(current, g) == IF current # NoRequest THEN IdOf(current) ELSE Generated(g.no)

CallsFor(r, n, current) == [k \in 1 .. n |-> Call(r, CallId(current, generator))]

(* Everything that holds the interface is gone: its destructor runs the closure of the
   request, which replies, and deletes messages, closure and controller. *)
Released(r, code) ==
  /\ phase' = [phase EXCEPT ![r] = "answered"]
  /\ replies' = [replies EXCEPT ![r] = Append(@, code)]

Keeps(r) ==
  /\ phase' = [phase EXCEPT ![r] = "kept"]
  /\ UNCHANGED replies

ReleasedAtOnce(out, r, code) == Released(r, code)

ReleasedUnless(out, r, code) == IF out = {} THEN Released(r, code) ELSE Keeps(r)

(* CALL_RPC_INTERFACE of the generated server.cpp: run() makes n calls, each of which
   holds the interface by a closure of newRpcClosure, and returns or throws. *)
DispatchGenerated(r, name, n, code) ==
  /\ phase[r] = "new"
  /\ Obstacle(name, TRUE) = "none" /\ service_name(name) \notin Plain
  /\ Len(calls) + n <= MaxCalls
  /\ runtime' = r
  /\ response' = [response EXCEPT ![r] = code]
  /\ calls' = calls \o CallsFor(r, n, runtime')
  /\ ReleasedUnless(1 .. n, r, code)
  /\ UNCHANGED << services, generator >>

(* A service written against protobuf's interface, as in test_rpc_server.cpp: it runs the
   closure, or returns without (a price below 10). *)
DispatchPlain(r, name, answers) ==
  /\ phase[r] = "new"
  /\ Obstacle(name, TRUE) = "none" /\ service_name(name) \in Plain
  /\ runtime' = r
  /\ response' = [response EXCEPT ![r] = IF answers THEN "ok" ELSE "failed"]
  /\ IF answers THEN Released(r, "ok")
                ELSE /\ phase' = [phase EXCEPT ![r] = "given up"]
                     /\ UNCHANGED replies
  /\ UNCHANGED << services, calls, generator >>

(* RpcClosure::Run for the answer of call k: what the service does with it may make n
   more calls, and sets a code or throws, which set_error turns into one. Then the closure
   lets go of the interface. *)
CallReturns(k, n, code) ==
  LET r == calls[k].for IN
  /\ r # NoRequest /\ Out(k)
  /\ Len(calls) + n <= MaxCalls
  /\ response' = [response EXCEPT ![r] = code]
  /\ calls' = [calls EXCEPT ![k].out = FALSE] \o CallsFor(r, n, runtime)
  /\ ReleasedUnless((OutFor(r) \ {k}) \cup (1 .. n), r, code)
  /\ UNCHANGED << services, runtime, generator >>

(* Call k fails: callBack does not run the closure, which goes with the channel. *)
CallFails(k) ==
  LET r == calls[k].for IN
  /\ r # NoRequest /\ Out(k)
  /\ calls' = [calls EXCEPT ![k].out = FALSE]
  /\ ReleasedUnless(OutFor(r) \ {k}, r, response[r])
  /\ UNCHANGED << services, runtime, response, generator >>

(* A call for no request: a program that is a client only, or a callback of a timer. *)
OwnCall(random) ==
  LET next == generateMsgId(generator, random) IN
  /\ Len(calls) < MaxCalls
  /\ generator' = IF runtime = NoRequest THEN next ELSE generator
  /\ calls' = Append(calls, [Call(NoRequest, CallId(runtime, next)) EXCEPT !.out = FALSE])
  /\ UNCHANGED << services, runtime, phase, response, replies >>

\* /dev/urandom cannot be read: the id stays empty, and the coder puts "114514" in.
OwnCallUnread ==
  /\ runtime = NoRequest /\ Draws(generator)
  /\ Len(calls) < MaxCalls
  /\ calls' = Append(calls, [Call(NoRequest, Unread) EXCEPT !.out = FALSE])
  /\ UNCHANGED << services, runtime, phase, response, replies, generator >>

Answers == {"ok", "failed"}

Dispatched(r) ==
  \E name \in Names :
    \/ \E well_formed \in BOOLEAN : DispatchFails(r, name, well_formed)
    \/ \E n \in 0 .. 2, code \in Answers : DispatchGenerated(r, name, n, code)
    \/ \E answers \in BOOLEAN : DispatchPlain(r, name, answers)

Ends(k) == CallFails(k) \/ \E n \in 0 .. 1, code \in Answers : CallReturns(k, n, code)

Next ==
  \/ \E name \in DOMAIN Services : RegisterService(name)
  \/ \E r \in Requests : Dispatched(r)
  \/ \E k \in DOMAIN calls : Ends(k)
  \/ \E random \in Digits : OwnCall(random)
  \/ OwnCallUnread

Spec == Init /\ [][Next]_vars
-----------------------------------------------------------------------------
TypeOK ==
  /\ services \subseteq DOMAIN Services
  /\ runtime \in Requests \cup {NoRequest}
  /\ phase \in [Requests -> Phases]
  /\ response \in [Requests -> Codes]
  /\ replies \in [Requests -> Seq(Codes)]
  /\ calls \in Seq(Calls)
  /\ generator \in Generators

(* An interface lives exactly as long as a closure of a call holds it, and answers when
   it dies: a request handed to a generated service is answered once, not while a call for
   it is out, and is not left in a service that has nothing to wait for. *)
AnsweredOnRelease ==
  \A r \in Requests :
    /\ phase[r] = "kept" <=> OutFor(r) # {}
    /\ phase[r] \in {"new", "kept"} => replies[r] = <<>>
    /\ phase[r] = "answered" => replies[r] = << response[r] >>

(* UML/RPC/RpcDispatcherSequence.puml returns these errors of dispatch to the connection, and
   tcp_connection.cpp:122 has the response of every request put into the send buffer. The
   code does not ensure it: dispatch fills the response and returns, and nobody replies. *)
ErrorsAreReplied ==
  \A r \in Requests :
    response[r] \in ErrorCodes \ {"parse_service_name"} => replies[r] = << response[r] >>

(* The ids a thread makes up go to calls that are for no request, and count up by one, over
   the carries of all digits and around, except where they are drawn. *)
NewOwnIds ==
  \A k \in DOMAIN calls' \ DOMAIN calls, no \in Digits :
    calls'[k].id = Generated(no) =>
      /\ calls'[k].for = NoRequest
      /\ generator.no # NoId /\ generator'.draws = generator.draws
           => Follows(generator.no, no)

OwnIdsCount == [][NewOwnIds]_vars

(* rpc_channel.cpp:73 says that the id of a request is passed through to the calls made for
   it. The code does not ensure it: RunTime holds the id of the request dispatched last,
   which may be another one when an answer makes the service call again. *)
IdPassedThrough ==
  \A k \in DOMAIN calls : calls[k].for # NoRequest => calls[k].id = IdOf(calls[k].for)
=============================================================================
