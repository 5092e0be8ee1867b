------------------------------- MODULE Server --------------------------------
(***************************************************************************)
(* The server side: TcpServer and its acceptor on the main loop, an IO     *)
(* thread, the TcpConnections it serves and what RpcDispatcher does with   *)
(* their requests (net/TCP, net/io_thread.cpp, net/rpc/rpc_dispatcher.cpp).*)
(*                                                                         *)
(* There is one IO thread: getIOthread never moves on from the first.  The *)
(* server never closes the descriptor of a connection, so a connection is  *)
(* identified with its descriptor and its FdEvent.  The tasks of the IO    *)
(* loop are one queue (ImplementsMailbox of EventLoop), and handlers run   *)
(* before the next epoll_wait (HandlersRunBeforeWait).                     *)
(*                                                                         *)
(* Messages are whole: a read or a write takes some of them.               *)
(***************************************************************************)
EXTENDS Integers, Sequences, FiniteSets, SequencesExt, Config

CONSTANTS
  Files,       \* the configuration files the server may be started with
  Conns,       \* the connections clients may make
  MaxRequests, \* bound: requests on each connection
  MaxWire      \* bound: replies on a connection when a write is cut short

ASSUME ServerAssumption ==
  IsFiniteSet(Conns) /\ MaxRequests \in [Conns -> Nat] /\ MaxWire \in Nat

Events == {"in", "out"}
Handlers == {"onRead", "onWrite"}
Tasks == [kind : Handlers \cup {"add", "clear"}, of : Conns]

VARIABLES
  config,  \* g_config
  mainpc,  \* main thread: "config", "listen" and "threads" (in the constructor of
           \* TcpServer), "ready" (TcpServer exists), "loop"
  iopc,    \* IO thread: "new", "ready" (waits for start), "looping"
  dead,    \* the process is gone: a wild pointer, or SIGPIPE
  stage,   \* of a connection: "none", "backlog", "constructed" (in onAccept),
           \* "client" (in m_client), "destroyed"
  backlog, \* connections the kernel holds for accept(2)
  peer,    \* the client's end: "none", "open", "closed"
  sent,    \* how many requests the client has sent; they are numbered in that order
  read,    \* how many of them onRead has read
  state,   \* TcpConnection::m_state
  mask,    \* the events of its FdEvent; EPOLLERR, always among them, is left out
  listed,  \* the IO loop has the descriptor in its epoll set
  tasks,   \* of the IO loop
  calls,   \* requests a service works on and has not answered
  out,     \* m_out_buffer: the replies to be written
  wire     \* the replies written to the socket

threadVars == <<config, mainpc, iopc>>
netVars == <<backlog, peer, sent>>
connVars == <<state, mask, listed>>
replyVars == <<calls, out>>
vars == <<config, mainpc, iopc, dead, stage, backlog, peer, sent, read, state, mask,
          listed, tasks, calls, out, wire>>

Init ==
  /\ config = Null
  /\ mainpc = "config" /\ iopc = "new" /\ dead = FALSE
  /\ stage = [c \in Conns |-> "none"]
  /\ backlog = <<>>
  /\ peer = [c \in Conns |-> "none"]
  /\ sent = [c \in Conns |-> 0] /\ read = [c \in Conns |-> 0]
  /\ state = [c \in Conns |-> "NotConnected"]
  /\ mask = [c \in Conns |-> {}] /\ listed = [c \in Conns |-> FALSE]
  /\ tasks = <<>>
  /\ calls = [c \in Conns |-> {}]
  /\ out = [c \in Conns |-> <<>>] /\ wire = [c \in Conns |-> <<>>]

Alive == ~dead

\* Wild pointer or signal: the process ends.
Die == dead' = TRUE /\ UNCHANGED <<threadVars, stage, netVars, read, connVars, tasks,
                                    replyVars, wire>>

-----------------------------------------------------------------------------
(* Clients *)

\* The kernel takes connections from the end of the constructor of TcpAcceptor.
Connects(c) ==
  /\ Alive /\ mainpc \in {"threads", "ready", "loop"} /\ peer[c] = "none"
  /\ peer' = [peer EXCEPT ![c] = "open"]
  /\ stage' = [stage EXCEPT ![c] = "backlog"]
  /\ backlog' = Append(backlog, c)
  /\ UNCHANGED <<threadVars, dead, sent, read, connVars, tasks, replyVars, wire>>

Sends(c) ==
  /\ Alive /\ peer[c] = "open" /\ sent[c] < MaxRequests[c]
  /\ sent' = [sent EXCEPT ![c] = @ + 1]
  /\ UNCHANGED <<threadVars, dead, stage, backlog, peer, read, connVars, tasks, replyVars,
                 wire>>

Closes(c) ==
  /\ Alive /\ peer[c] = "open"
  /\ peer' = [peer EXCEPT ![c] = "closed"]
  /\ UNCHANGED <<threadVars, dead, stage, backlog, sent, read, connVars, tasks, replyVars,
                 wire>>

-----------------------------------------------------------------------------
(* Start-up: the main function of a server (the tests have one, and the generator makes
   them), the constructor of TcpServer, and the semaphores of IOThread *)

Configs == {DefaultConfig} \cup {ConfigOf(file) : file \in {f \in Files : ~Rejects(f)}}

IOThreads == config[1].io_threads

\* Config::setGlobalConfig; main goes on without the name of a file.
Configure ==
  /\ Alive /\ mainpc = "config"
  /\ config' \in {<<c>> : c \in Configs}
  /\ mainpc' = "listen"
  /\ UNCHANGED <<iopc, dead, stage, netVars, read, connVars, tasks, replyVars, wire>>

LocalAddr == IPNetAddr("127.0.0.1", config[1].port)

\* The constructor of TcpAcceptor
Listen ==
  /\ Alive /\ mainpc = "listen"
  /\ ValidParts(LocalAddr.ip, LocalAddr.port)
  /\ mainpc' = "threads"
  /\ UNCHANGED <<config, iopc, dead, stage, netVars, read, connVars, tasks, replyVars, wire>>

\* IOThread::Main up to the post of m_init_semaphore.
IOReady ==
  /\ Alive /\ iopc = "new" /\ mainpc = "threads" /\ IOThreads > 0
  /\ iopc' = "ready"
  /\ UNCHANGED <<config, mainpc, dead, stage, netVars, read, connVars, tasks, replyVars, wire>>

\* The constructor of IOthreadGroup, which makes the threads and waits for each.
MainReady ==
  /\ Alive /\ mainpc = "threads" /\ IOThreads >= 0
  /\ IOThreads > 0 => iopc # "new"
  /\ mainpc' = "ready"
  /\ UNCHANGED <<config, iopc, dead, stage, netVars, read, connVars, tasks, replyVars, wire>>

\* The ways in which that ends the process: the file; socket, bind, listen or the
\* address; a vector of less than no threads.
StartFails ==
  /\ Alive
  /\ \/ mainpc = "config" /\ \E file \in Files : Rejects(file)
     \/ mainpc = "listen"
     \/ mainpc = "threads" /\ IOThreads < 0
  /\ Die

\* TcpServer::start: posts m_start_semaphore and enters the main loop.
Start ==
  /\ Alive /\ mainpc = "ready"
  /\ mainpc' = "loop"
  /\ UNCHANGED <<config, iopc, dead, stage, netVars, read, connVars, tasks, replyVars, wire>>

\* IOThread::Main after m_start_semaphore.
IOLoops ==
  /\ Alive /\ iopc = "ready" /\ mainpc = "loop"
  /\ iopc' = "looping"
  /\ UNCHANGED <<config, mainpc, dead, stage, netVars, read, connVars, tasks, replyVars, wire>>

-----------------------------------------------------------------------------
(* The main loop *)

\* The main loop is in no callback.
MainIdle == Alive /\ mainpc = "loop" /\ \A c \in Conns : stage[c] # "constructed"

\* The constructor of TcpConnection: listenRead, which posts the registration to the IO
\* loop.  From here that loop may run onRead.
Construct(c) ==
  /\ stage' = [stage EXCEPT ![c] = "constructed"]
  /\ mask' = [mask EXCEPT ![c] = @ \cup {"in"}]
  /\ tasks' = Append(tasks, [kind |-> "add", of |-> c])

\* onAccept up to the end of that constructor; getIOthread returns the first thread.
Accept ==
  /\ MainIdle /\ backlog # <<>> /\ IOThreads > 0
  /\ Construct(Head(backlog))
  /\ backlog' = Tail(backlog)
  /\ UNCHANGED <<threadVars, dead, peer, sent, read, state, listed, replyVars, wire>>

\* getIOthread reads the first element of an empty vector.
AcceptWithoutThread ==
  /\ MainIdle /\ backlog # <<>> /\ IOThreads = 0
  /\ Die

\* onAccept when accept(2) fails, say for want of descriptors: the connection is made
\* for descriptor -1, and getFdEvent reads in front of its table.
AcceptFails ==
  /\ MainIdle /\ backlog # <<>>
  /\ Die

\* setState takes any state for Connected.
setState(c) == state' = [state EXCEPT ![c] = "Connected"]

\* onAccept after the constructor.
Handover(c) ==
  /\ Alive /\ stage[c] = "constructed"
  /\ setState(c)
  /\ stage' = [stage EXCEPT ![c] = "client"]
  /\ UNCHANGED <<threadVars, dead, netVars, read, mask, listed, tasks, replyVars, wire>>

\* What clearClientTimer erases from m_client, which destroys it.
Droppable == {c \in Conns : stage[c] = "client" /\ state[c] = "Closed"}

ClearClientTimer ==
  /\ MainIdle /\ Droppable # {}
  /\ stage' = [c \in Conns |-> IF c \in Droppable THEN "destroyed" ELSE stage[c]]
  /\ UNCHANGED <<threadVars, dead, netVars, read, connVars, tasks, replyVars, wire>>

-----------------------------------------------------------------------------
(* The IO loop *)

IOLooping == Alive /\ iopc = "looping"

\* It runs a task of this kind for c; a handler of a destroyed connection is not one.
Runs(kind, c) ==
  /\ IOLooping /\ tasks # <<>>
  /\ Head(tasks) = [kind |-> kind, of |-> c]
  /\ kind # "add" => stage[c] # "destroyed"

RunAdd(c) ==
  /\ Runs("add", c)
  /\ tasks' = Tail(tasks)
  /\ listed' = [listed EXCEPT ![c] = TRUE]
  /\ UNCHANGED <<threadVars, dead, stage, netVars, read, state, mask, replyVars, wire>>

\* A handler is bound to a raw pointer, and clearClientTimer runs on the main thread.
RunsDestroyed ==
  /\ IOLooping /\ tasks # <<>>
  /\ Head(tasks).kind # "add" /\ stage[Head(tasks).of] = "destroyed"
  /\ Die

\* What the descriptor of c would have epoll_wait queue.
Due(h, c) ==
  /\ listed[c]
  /\ \/ h = "onRead" /\ "in" \in mask[c] /\ (sent[c] > read[c] \/ peer[c] = "closed")
     \/ h = "onWrite" /\ "out" \in mask[c]

Ready == {t \in [kind : Handlers, of : Conns] : Due(t.kind, t.of)}

\* The orders in which it may queue them: IN and OUT of a connection together.
Orders ==
  {s \in [1..Cardinality(Ready) -> Ready] :
     \A i, j \in DOMAIN s :
       /\ s[i] = s[j] => i = j
       /\ s[i].of = s[j].of /\ s[i].kind = "onRead" /\ s[j].kind = "onWrite" => j = i + 1}

\* epoll_wait and the dispatch of what it returns; the descriptors that report EPOLLERR,
\* after a reset by the client, leave the epoll set.
EpollRound ==
  /\ IOLooping /\ Ready # {}
  /\ \A i \in DOMAIN tasks : tasks[i].kind = "add"
  /\ \E order \in Orders : tasks' = tasks \o order
  /\ \E reset \in SUBSET {c \in Conns : peer[c] = "closed" /\ \E h \in Handlers : Due(h, c)} :
       listed' = [c \in Conns |-> listed[c] /\ c \notin reset]
  /\ UNCHANGED <<threadVars, dead, stage, netVars, read, state, mask, replyVars, wire>>

\* Defect: the descriptor stays in the epoll set.
ClearedKeepsListed(c) ==
  state' = [state EXCEPT ![c] = "Closed"] /\ UNCHANGED <<mask, listed>>

\* clear, of a connection that is not closed yet.
Cleared(c) ==
  /\ mask' = [mask EXCEPT ![c] = {}]
  /\ listed' = [listed EXCEPT ![c] = FALSE]
  /\ state' = [state EXCEPT ![c] = "Closed"]

clear(c) == IF state[c] = "Closed" THEN UNCHANGED connVars ELSE Cleared(c)

\* onRead and onWrite look at the state, which onAccept may not have set yet ...
FindsUnconnected(c) ==
  /\ \E h \in Handlers : Runs(h, c)
  /\ state[c] # "Connected"
  /\ tasks' = [tasks EXCEPT ![1].kind = "clear"]
  /\ UNCHANGED <<threadVars, dead, stage, netVars, read, connVars, replyVars, wire>>

\* ... and call clear, after onAccept may have set it.
ThenClears(c) ==
  /\ Runs("clear", c)
  /\ clear(c)
  /\ tasks' = Tail(tasks)
  /\ UNCHANGED <<threadVars, dead, stage, netVars, read, replyVars, wire>>

-----------------------------------------------------------------------------
(* Reading, dispatching and replying *)

\* Defects: decode takes a request that has not arrived; the newest reply goes first;
\* OUT is not registered.
DecodedOneMore(c) == (read[c] + 1)..(sent[c] + 1)
InFront(c, replies) == replies \o out[c]
ListensNot(c) == UNCHANGED <<mask, listed>>

\* TinyPBCoder::decode and encode.
Decoded(c) == (read[c] + 1)..sent[c]
Encoded(c, replies) == out[c] \o replies

\* listenWrite, on the loop's thread.
listenWrite(c) ==
  /\ mask' = [mask EXCEPT ![c] = @ \cup {"out"}]
  /\ listed' = [listed EXCEPT ![c] = TRUE]

\* TcpConnection::reply, for each of them in turn.
reply(c, replies) ==
  /\ out' = [out EXCEPT ![c] = Encoded(c, replies)]
  /\ IF replies = <<>> THEN UNCHANGED <<mask, listed>> ELSE listenWrite(c)

\* The orders of requests that execute may answer: that in which they came.
InTurn(requests) ==
  {s \in UNION {[1..n -> requests] : n \in 0..Cardinality(requests)} :
     \A i, j \in DOMAIN s : i < j => s[i] < s[j]}

\* onRead with data, or with nothing left to read: execute dispatches the requests in
\* turn.  Each is answered by its service at once, or kept by it, or it goes without an
\* answer: dispatch returns on an error, the service does not run its closure, or
\* moveWriteIndex refused the bytes because they filled the buffer.
ReadsRequests(c) ==
  /\ Runs("onRead", c) /\ state[c] = "Connected"
  /\ sent[c] > read[c] \/ peer[c] = "open"
  /\ read' = [read EXCEPT ![c] = sent[c]]
  /\ \E now \in InTurn(Decoded(c)) : \E kept \in SUBSET (Decoded(c) \ ToSet(now)) :
       /\ calls' = [calls EXCEPT ![c] = @ \cup kept]
       /\ reply(c, now)
  /\ tasks' = Tail(tasks)
  /\ UNCHANGED <<threadVars, dead, stage, netVars, state, wire>>

\* onRead with end of file: what it read before goes with the connection.
ReadsEnd(c) ==
  /\ Runs("onRead", c) /\ state[c] = "Connected"
  /\ peer[c] = "closed"
  /\ read' = [read EXCEPT ![c] = sent[c]]
  /\ Cleared(c)
  /\ tasks' = Tail(tasks)
  /\ UNCHANGED <<threadVars, dead, stage, netVars, replyVars, wire>>

\* A service on the IO thread runs a closure that it kept.
RepliesLate(c) ==
  /\ IOLooping /\ stage[c] # "destroyed"
  /\ \E r \in calls[c] :
       /\ calls' = [calls EXCEPT ![c] = @ \ {r}]
       /\ reply(c, <<r>>)
  /\ UNCHANGED <<threadVars, dead, stage, netVars, read, state, tasks, wire>>

\* The closure holds a raw pointer to its connection.
RepliesDestroyed(c) ==
  /\ IOLooping /\ stage[c] = "destroyed" /\ calls[c] # {}
  /\ Die

-----------------------------------------------------------------------------
(* Writing *)

\* Defects: OUT is cancelled after a short write; IN is cancelled with OUT.
CancelledAlways(c) == [mask EXCEPT ![c] = @ \ {"out"}]
CancelledBoth(c) == [mask EXCEPT ![c] = {}]

\* What a short write and a complete one make of the FdEvent.
Keeps(c) == mask
Cancelled(c) == [mask EXCEPT ![c] = @ \ {"out"}]

\* onWrite: all of m_out_buffer is written, from the read index, which never moves.
WritesAll(c) ==
  /\ Runs("onWrite", c) /\ state[c] = "Connected"
  /\ wire' = [wire EXCEPT ![c] = @ \o out[c]]
  /\ mask' = Cancelled(c)
  /\ listed' = [listed EXCEPT ![c] = TRUE]
  /\ tasks' = Tail(tasks)
  /\ UNCHANGED <<threadVars, dead, stage, netVars, read, state, replyVars>>

\* onWrite: some of it is written, then write(2) gives EAGAIN.
WritesSome(c) ==
  /\ Runs("onWrite", c) /\ state[c] = "Connected"
  /\ \E k \in 0..Len(out[c]) :
       /\ Len(wire[c]) + k <= MaxWire
       /\ wire' = [wire EXCEPT ![c] = @ \o SubSeq(out[c], 1, k)]
  /\ mask' = Keeps(c)
  /\ tasks' = Tail(tasks)
  /\ UNCHANGED <<threadVars, dead, stage, netVars, read, state, listed, replyVars>>

\* onWrite to a client that has gone: SIGPIPE, which is not ignored.
WritesToNobody(c) ==
  /\ Runs("onWrite", c) /\ state[c] = "Connected" /\ peer[c] = "closed"
  /\ Die

-----------------------------------------------------------------------------
StartUp == Configure \/ Listen \/ MainReady \/ Start
Main == StartUp \/ StartFails \/ Accept \/ AcceptWithoutThread \/ AcceptFails
        \/ ClearClientTimer
        \/ \E c \in Conns : Handover(c)
IO == IOReady \/ IOLoops \/ EpollRound \/ RunsDestroyed
      \/ \E c \in Conns : RunAdd(c) \/ FindsUnconnected(c) \/ ThenClears(c)
           \/ ReadsRequests(c) \/ ReadsEnd(c)
           \/ WritesAll(c) \/ WritesSome(c) \/ WritesToNobody(c)
Services == \E c \in Conns : RepliesLate(c) \/ RepliesDestroyed(c)
Clients == \E c \in Conns : Connects(c) \/ Sends(c) \/ Closes(c)

Next == Main \/ IO \/ Services \/ Clients

\* Both threads are scheduled, and clearClientTimer is a repeated timer.  A client that
\* is sent something reads it, so that a write is not cut short for ever.  Nothing is
\* asked of services, or of what clients send.
Fairness ==
  /\ WF_vars(StartUp \/ Accept)
  /\ WF_vars(\E c \in Conns : Handover(c))
  /\ WF_vars(ClearClientTimer)
  /\ WF_vars(IO)
  /\ \A c \in Conns : SF_vars(WritesAll(c))

Spec == Init /\ [][Next]_vars /\ Fairness

-----------------------------------------------------------------------------
(* Properties *)

\* Types; onRead never counts more than the client sent, and a connection object exists
\* only for what accept(2) returned (the fields and enums of TcpConnection).
TypeOK ==
  /\ config \in {Null} \cup {<<c>> : c \in Configs}
  /\ config = Null => mainpc = "config"
  /\ mainpc \in {"config", "listen", "threads", "ready", "loop"}
  /\ iopc \in {"new", "ready", "looping"}
  /\ dead \in BOOLEAN
  /\ stage \in [Conns -> {"none", "backlog", "constructed", "client", "destroyed"}]
  /\ backlog \in Seq(Conns)
  /\ peer \in [Conns -> {"none", "open", "closed"}]
  /\ sent \in [Conns -> Nat] /\ read \in [Conns -> Nat]
  /\ \A c \in Conns : read[c] <= sent[c] /\ sent[c] <= MaxRequests[c]
  /\ state \in [Conns -> {"NotConnected", "Connected", "Closed"}]
  /\ mask \in [Conns -> SUBSET Events] /\ listed \in [Conns -> BOOLEAN]
  /\ tasks \in Seq(Tasks)
  /\ calls \in [Conns -> SUBSET Nat] /\ \A c \in Conns : calls[c] \subseteq 1..read[c]
  /\ out \in [Conns -> Seq(Nat)] /\ wire \in [Conns -> Seq(Nat)]

\* However often m_out_buffer is written from its start, the client sees the replies
\* for the first time in the order in which the services gave them (reply, onWrite).
AnswersInOrder ==
  \A c \in Conns : \A n \in DOMAIN wire[c] :
    \E j \in DOMAIN out[c] :
      /\ wire[c][n] = out[c][j]
      /\ \A i \in 1..(j - 1) : \E m \in 1..(n - 1) : wire[c][m] = out[c][i]

\* A reply that has not been written keeps OUT registered, whatever onRead, onWrite and
\* late closures do to the one FdEvent of the connection, as long as the client is there.
UnsentIsWatched ==
  \A c \in Conns :
    (state[c] = "Connected" /\ peer[c] = "open" /\ ~ToSet(out[c]) \subseteq ToSet(wire[c]))
      => listed[c] /\ "out" \in mask[c]

\* clearClientTimer may destroy a connection while a handler of it is queued, but that is
\* never onRead: clear takes the descriptor from the epoll set before it is closed.
NoReadAfterDestroy ==
  \A i \in DOMAIN tasks : stage[tasks[i].of] = "destroyed" => tasks[i].kind # "onRead"

\* Requests that wait on a connection registered for reading are read, or the connection
\* is closed (onRead; registrations survive the writes in between).
RequestsRead ==
  \A c \in Conns :
    (state[c] = "Connected" /\ listed[c] /\ "in" \in mask[c] /\ sent[c] > read[c])
      ~> (sent[c] = read[c] \/ state[c] = "Closed" \/ dead)

\* Replies given while the client is there reach it, all of them, unless it leaves first
\* (reply, listenWrite, onWrite).
RepliedIsSent ==
  \A c \in Conns :
    (state[c] = "Connected" /\ out[c] # <<>>)
      ~> (ToSet(out[c]) = ToSet(wire[c]) \/ peer[c] = "closed" \/ dead)

\* UML/TCP/tcp_write_sequence.puml has onWrite remove from the buffer what it has sent:
\* no reply would be written twice.
SentOnce == \A c \in Conns : IsInjective(wire[c])
==============================================================================
