----------------------------- MODULE RpcChannel ------------------------------
(***************************************************************************)
(* One RPC on the client side: RpcChannel::CallMethod with its controller  *)
(* and closure (net/rpc/rpc_channel.cpp, rpc_controller.cpp), over a       *)
(* TcpClient and its TcpConnection (net/TCP), driven by the EventLoop of   *)
(* the calling thread.                                                     *)
(*                                                                         *)
(* Everything after CallMethod happens in handlers that the loop queues in *)
(* one round of epoll_wait and runs, all of them and in order, before the  *)
(* next round (HandlersRunBeforeWait and ImplementsMailbox of EventLoop).  *)
(*                                                                         *)
(* The caller keeps the channel alive.  Messages are whole: how bytes are  *)
(* buffered and framed is not a subject of this module, nor are write(2)   *)
(* errors other than EAGAIN.                                               *)
(***************************************************************************)
EXTENDS Integers, Sequences, Config

CONSTANTS
  Targets,     \* the texts of the addresses channels are made for
  Stubs,       \* the entries below "stubs" of the configuration
  LoopStates,  \* what the thread's loop may have done before the call, of
               \* "fresh" (never entered), "running", "exited" (after a stop)
  StaleFds,    \* whether m_listen_fds may still list the number of the socket,
               \* left there by a client that was destroyed: a set of BOOLEANs
  MaxAnswers   \* bound: answers of the server to one request

ASSUME LoopAssumption ==
  /\ LoopStates \subseteq {"fresh", "running", "exited"}
  /\ StaleFds \subseteq BOOLEAN
  /\ MaxAnswers \in Nat

Answers == {"ok", "error", "garbled"}   \* error code 0, another one, unparsable body
Handlers == {"timer", "connect", "onWrite", "onRead"}
EpollEvents == {"in", "out", "err"}
Codes == {"none", "init", "serialize", "timeout", "connect", "remote", "deserialize"}

Controllers ==
  [finished : BOOLEAN, failed : BOOLEAN, canceled : BOOLEAN, code : Codes]

VARIABLES
  phase,     \* "none" (no channel yet), "made", "idle" (initialised), "called", or
             \* "crashed" (null pointer dereferenced, exception not caught)
  ctl,       \* the RpcController: m_is_finished, m_is_failed, m_is_canceled, m_error_code
  runs,      \* how often the closure has run
  timer,     \* the call's TimerEvent: "none", "pending", "queued", "fired"
  loop,      \* the EventLoop: LoopStates, or "stopping" once stop() was called
  queue,     \* handlers queued by the loop and not yet run
  peer,      \* the TCP handshake: "none", "inprogress", "accepted", "refused"
  conn,      \* TcpConnection::m_state
  mask,      \* events of m_fd_event: "in", "out", and "err" (EPOLLERR)
  outCb,     \* m_write_callback of m_fd_event
  listed,    \* the fd is in m_listen_fds
  known,     \* the kernel has the fd in the interest list
  watched,   \* the events it has it for
  writeDone, \* m_write_done holds the request
  readDone,  \* m_read_done holds the call's message id
  sent,      \* the request is out
  inbox,     \* answers received by the kernel and not yet read
  answers,   \* how many answers the server has sent
  closed     \* the peer has closed the connection

epollVars == <<listed, known, watched>>
fdVars == <<mask, outCb, epollVars>>
doneVars == <<writeDone, readDone>>
netVars == <<peer, inbox, answers, closed>>
vars == <<phase, ctl, runs, timer, loop, queue, peer, conn, mask, outCb, listed, known,
          watched, writeDone, readDone, sent, inbox, answers, closed>>

Init ==
  /\ phase = "none"
  /\ ctl = [finished |-> FALSE, failed |-> FALSE, canceled |-> FALSE, code |-> "none"]
  /\ runs = 0
  /\ timer = "none"
  /\ loop \in LoopStates
  /\ queue = <<>>
  /\ peer = "none" /\ conn = "NotConnected"
  /\ mask = {} /\ outCb = "connect"
  /\ listed \in StaleFds /\ known = FALSE /\ watched = {}
  /\ writeDone = FALSE /\ readDone = FALSE /\ sent = FALSE
  /\ inbox = <<>> /\ answers = 0 /\ closed = FALSE

-----------------------------------------------------------------------------
(* The controller and the closure *)

SetError(c, code) == [c EXCEPT !.failed = TRUE, !.finished = TRUE, !.code = code]

StartCancel(c) == [c EXCEPT !.canceled = TRUE, !.finished = TRUE]

\* EventLoop::stop, called from the loop's own thread; TcpClient::stop calls it only
\* when the loop was ever entered.
Stop == IF loop = "running" THEN "stopping" ELSE loop

\* RpcChannel::callBack, entered with the controller in state c: returns early when
\* it is finished; else runs the closure, which may stop the loop.
callBack(c) ==
  IF c.finished
  THEN ctl' = c /\ UNCHANGED <<runs, loop>>
  ELSE /\ ctl' = [c EXCEPT !.finished = TRUE]
       /\ runs' = runs + 1
       /\ loop' \in {loop, Stop}

-----------------------------------------------------------------------------
(* m_fd_event in the loop's epoll set *)

\* Defect: EPOLLERR is asked for only with an error callback, which nobody passes.
ListensOnly(events, event) == events \cup {event}

\* FdEvent::listen.  No error callback is ever set, so EPOLLERR comes with every event;
\* cancle takes an event out and leaves EPOLLERR in.
Listens(events, event) == events \cup {event, "err"}

\* addEpollEvent: EPOLL_CTL_ADD, or EPOLL_CTL_MOD for a listed fd, which fails when
\* the kernel does not know it.
AddEpollEvent ==
  /\ listed' = TRUE
  /\ known' = (known \/ ~listed)
  /\ watched' = IF known \/ ~listed THEN mask' ELSE {}

\* deleteEpollEvent: nothing for a fd that is not listed.
DeleteEpollEvent ==
  IF listed
  THEN listed' = FALSE /\ known' = FALSE /\ watched' = {}
  ELSE UNCHANGED epollVars

\* TcpConnection::clear
Clear ==
  IF conn = "Closed"
  THEN UNCHANGED <<mask, epollVars, conn>>
  ELSE /\ mask' = mask \ {"in", "out"}
       /\ DeleteEpollEvent
       /\ conn' = "Closed"

\* writeMessage: pushSendMessage and listenWrite, in the state that loop and epoll
\* set were left in by the caller (wasListed, wasKnown).
WriteMessage(wasListed, wasKnown) ==
  /\ writeDone' = TRUE
  /\ mask' = Listens(mask, "out")
  /\ outCb' = "onWrite"
  /\ listed' = TRUE
  /\ known' = (wasKnown \/ ~wasListed)
  /\ watched' = IF wasKnown \/ ~wasListed THEN mask' ELSE {}

-----------------------------------------------------------------------------
(* The channel *)

\* FindAddr finds an address: it throws no exception and reads no null pointer.
Finds(text) == ~CheckThrows(text) /\ FindAddr(text, RpcStubs(Stubs)) # Null

\* NEWRPCCHANNEL: FindAddr, and the constructors of RpcChannel and TcpClient, which read
\* the address at once.
NewChannel ==
  /\ phase = "none"
  /\ \E text \in Targets : phase' = IF Finds(text) THEN "made" ELSE "crashed"
  /\ UNCHANGED <<ctl, runs, timer, loop, queue, netVars, conn, fdVars, doneVars, sent>>

\* RpcChannel::Init, which does nothing for a channel that is initialised.
InitChannel ==
  /\ phase = "made" /\ phase' = "idle"
  /\ UNCHANGED <<ctl, runs, timer, loop, queue, netVars, conn, fdVars, doneVars, sent>>

-----------------------------------------------------------------------------
(* CallMethod *)

\* No RpcController is passed: the branch that reports it writes to the null pointer.
CallWithoutController ==
  /\ phase \in {"made", "idle"} /\ phase' = "crashed"
  /\ UNCHANGED <<ctl, runs, timer, loop, queue, netVars, conn, fdVars, doneVars, sent>>

\* A null request, response or closure; a request that does not serialize.
CallRejected ==
  /\ phase = "idle" /\ phase' = "called"
  /\ \E code \in {"init", "serialize"} : callBack(SetError(ctl, code))
  /\ UNCHANGED <<timer, queue, netVars, conn, fdVars, doneVars, sent>>

\* The channel was not initialised: the error goes to the controller that was passed
\* in, but callBack takes the channel's own, which is null.  A null request, response or
\* closure ends the same way.
CallNotInit ==
  /\ phase = "made" /\ phase' = "crashed"
  /\ ctl' = SetError(ctl, "init")
  /\ UNCHANGED <<runs, loop, timer, queue, netVars, conn, fdVars, doneVars, sent>>

\* The call goes ahead: its timer is added, then TcpClient::connect.

\* Defect: the timer is not added.
NoTimer == UNCHANGED timer

\* The two things CallMethod sets up while connect(2) is under way.
AddCallTimer == timer' = "pending"
ListenConnect == mask' = Listens(mask, "out") /\ outCb' = "connect"

\* connect(2) is under way; the loop is entered unless it says it is looping.
CallConnecting ==
  /\ phase = "idle" /\ phase' = "called"
  /\ AddCallTimer
  /\ peer' = "inprogress"
  /\ ListenConnect
  /\ AddEpollEvent
  /\ loop' = IF loop = "fresh" THEN "running" ELSE loop
  /\ UNCHANGED <<ctl, runs, queue, conn, doneVars, sent, inbox, answers, closed>>

\* connect(2) succeeded at once: done runs at once, and the loop is not entered.
CallConnected ==
  /\ phase = "idle" /\ phase' = "called"
  /\ AddCallTimer
  /\ peer' = "accepted"
  /\ conn' = "Connected"
  /\ WriteMessage(listed, known)
  /\ UNCHANGED <<ctl, runs, loop, queue, readDone, sent, inbox, answers, closed>>

\* connect(2) failed at once: done reports it.
CallConnectFails ==
  /\ phase = "idle" /\ phase' = "called"
  /\ AddCallTimer
  /\ peer' = "refused"
  /\ callBack(SetError(ctl, "connect"))
  /\ UNCHANGED <<queue, conn, fdVars, doneVars, sent, inbox, answers, closed>>

CallMethod ==
  \/ CallWithoutController \/ CallRejected \/ CallNotInit
  \/ CallConnecting \/ CallConnected \/ CallConnectFails

-----------------------------------------------------------------------------
(* The network and the server *)

ConnectResolves ==
  /\ peer = "inprogress"
  /\ peer' \in {"accepted", "refused"}
  /\ UNCHANGED <<phase, ctl, runs, timer, loop, queue, conn, fdVars, doneVars, sent,
                 inbox, answers, closed>>

\* The server answers, possibly more than once: a request may reach it twice.
ServerAnswers ==
  /\ sent /\ ~closed /\ answers < MaxAnswers
  /\ \E a \in Answers : inbox' = Append(inbox, a)
  /\ answers' = answers + 1
  /\ UNCHANGED <<phase, ctl, runs, timer, loop, queue, peer, conn, fdVars, doneVars, sent,
                 closed>>

PeerCloses ==
  /\ peer = "accepted" /\ ~closed
  /\ closed' = TRUE
  /\ UNCHANGED <<phase, ctl, runs, timer, loop, queue, peer, conn, fdVars, doneVars, sent,
                 inbox, answers>>

-----------------------------------------------------------------------------
(* The loop *)

Ready ==
  (IF timer = "pending" THEN {"timer"} ELSE {})
    \cup (IF "out" \in watched /\ peer \in {"accepted", "refused"} THEN {outCb} ELSE {})
    \cup (IF "in" \in watched /\ (inbox # <<>> \/ closed) THEN {"onRead"} ELSE {})

\* What one return of epoll_wait may queue out of the handlers S: those of one
\* descriptor together, in the order IN, OUT.
Orders(S) ==
  {s \in UNION {[1..n -> S] : n \in 1..3} :
     \A i, j \in DOMAIN s :
       /\ s[i] = s[j] => i = j
       /\ s[i] = "onRead" /\ s[j] = outCb => j = i + 1}

\* One return of epoll_wait.  Whether the timer is due, and whether the socket can
\* take data, is open: any of the ready handlers may be reported.  A connection that
\* was refused, or may have been reset, reports EPOLLERR with all of its own, and the
\* loop deletes the fd before they run.
EpollRound(reported) ==
  /\ loop = "running" /\ queue = <<>>
  /\ queue' = reported
  /\ timer' = IF \E i \in DOMAIN reported : reported[i] = "timer" THEN "queued" ELSE timer
  /\ \/ UNCHANGED epollVars
     \/ /\ peer = "refused" \/ closed
        /\ Ready \ {"timer"} # {}
        /\ \A h \in Ready \ {"timer"} : \E i \in DOMAIN reported : reported[i] = h
        /\ DeleteEpollEvent
  /\ UNCHANGED <<phase, ctl, runs, loop, netVars, conn, mask, outCb, doneVars, sent>>

\* The stop flag is looked at once the batch is done.
LoopExits ==
  /\ loop = "stopping" /\ queue = <<>>
  /\ loop' = "exited"
  /\ UNCHANGED <<phase, ctl, runs, timer, queue, netVars, conn, fdVars, doneVars, sent>>

Take(h) ==
  /\ loop \in {"running", "stopping"}
  /\ queue # <<>> /\ Head(queue) = h
  /\ queue' = Tail(queue)
  /\ UNCHANGED phase

-----------------------------------------------------------------------------
(* The handlers *)

\* Defects: the timer does not look at m_is_finished; it gives up on a closed connection.
NeverTooLate == FALSE
LateOrClosed == ctl.finished \/ conn = "Closed"

TooLate == ctl.finished

\* The callback of the call's timer.
OnTimeout ==
  /\ Take("timer")
  /\ timer' = "fired"
  /\ IF TooLate
     THEN UNCHANGED <<ctl, runs, loop>>
     ELSE callBack(SetError(StartCancel(ctl), "timeout"))
  /\ UNCHANGED <<netVars, conn, fdVars, doneVars, sent>>

\* The write callback that connect installed.  connect(2) tells how it went; the fd
\* leaves the epoll set; done goes on to writeMessage, whether or not the call is
\* already finished.
OnConnected ==
  /\ Take("connect") /\ peer = "accepted"
  /\ conn' = "Connected"
  /\ WriteMessage(FALSE, FALSE)
  /\ UNCHANGED <<ctl, runs, timer, loop, netVars, readDone, sent>>

\* Refused, or reset before the handler ran: the socket is closed, a new one takes
\* its number, done reports the error.
OnConnectFailed ==
  /\ Take("connect")
  /\ peer = "refused" \/ closed
  /\ listed' = FALSE /\ known' = FALSE /\ watched' = {}
  /\ callBack(SetError(ctl, "connect"))
  /\ UNCHANGED <<timer, netVars, conn, mask, outCb, doneVars, sent>>

\* Defect: m_write_done is not cleared.
AwaitAnswerAgain ==
  /\ readDone' = (readDone \/ writeDone)
  /\ UNCHANGED writeDone

\* The callback of the request, which onWrite runs for the whole of m_write_done:
\* readMessage registers the read callback and listens for IN.
AwaitAnswer ==
  /\ readDone' = (readDone \/ writeDone)
  /\ writeDone' = FALSE

\* Defect: OUT is cancelled after the callback, and IN with it.
MaskCleared == mask \ {"in", "out"}

MaskWritten == IF writeDone THEN Listens(mask \ {"out"}, "in") ELSE mask \ {"out"}

\* onWrite with everything written: OUT is cancelled.
OnWriteAll ==
  /\ Take("onWrite") /\ conn = "Connected"
  /\ sent' = TRUE
  /\ mask' = MaskWritten
  /\ AddEpollEvent
  /\ AwaitAnswer
  /\ UNCHANGED <<ctl, runs, timer, loop, netVars, conn, outCb>>

\* onWrite stopped by EAGAIN: OUT stays, and the callback of the request runs now.
OnWritePart ==
  /\ Take("onWrite") /\ conn = "Connected"
  /\ IF writeDone
     THEN mask' = Listens(mask, "in") /\ AddEpollEvent
     ELSE UNCHANGED <<mask, epollVars>>
  /\ AwaitAnswer
  /\ UNCHANGED <<ctl, runs, timer, loop, netVars, conn, outCb, sent>>

\* onRead with data: execute() decodes all of it, and the first answer with the
\* call's id takes the read callback with it.
OnReadAnswer ==
  /\ Take("onRead") /\ conn = "Connected" /\ inbox # <<>>
  /\ IF readDone
     THEN \/ Head(inbox) = "garbled" /\ callBack(SetError(ctl, "deserialize"))
          \/ Head(inbox) = "error" /\ callBack(SetError(ctl, "remote"))
          \/ Head(inbox) = "ok" /\ callBack(ctl)
     ELSE UNCHANGED <<ctl, runs, loop>>
  /\ readDone' = FALSE
  /\ inbox' = <<>>
  /\ UNCHANGED <<timer, peer, answers, closed, conn, fdVars, writeDone, sent>>

\* The data ends where m_in_buffer does: moveWriteIndex refuses to move, and the
\* bytes are lost.
OnReadNothing ==
  /\ Take("onRead") /\ conn = "Connected" /\ inbox # <<>> /\ ~closed
  /\ inbox' = <<>>
  /\ UNCHANGED <<ctl, runs, timer, loop, peer, answers, closed, conn, fdVars, doneVars, sent>>

\* onRead that comes to the end of the stream.  Data in front of it, when it filled
\* m_in_buffer, was read but is not decoded.
OnReadClose ==
  /\ Take("onRead") /\ conn = "Connected" /\ closed
  /\ inbox' = <<>>
  /\ Clear
  /\ UNCHANGED <<ctl, runs, timer, loop, peer, answers, closed, outCb, doneVars, sent>>

\* onRead or onWrite of a connection that an earlier handler of the batch closed.
OnClosed ==
  /\ Take("onRead") \/ Take("onWrite")
  /\ conn # "Connected"
  /\ Clear
  /\ UNCHANGED <<ctl, runs, timer, loop, netVars, outCb, doneVars, sent>>

RunHandler ==
  \/ OnTimeout \/ OnConnected \/ OnConnectFailed
  \/ OnWriteAll \/ OnWritePart \/ OnReadAnswer \/ OnReadNothing \/ OnReadClose
  \/ OnClosed

-----------------------------------------------------------------------------
EpollWait == \E reported \in Orders(Ready) : EpollRound(reported)

TimerDue == \E reported \in Orders(Ready) :
              EpollRound(reported) /\ timer' = "queued"

Next ==
  \/ NewChannel \/ InitChannel \/ CallMethod
  \/ ConnectResolves \/ ServerAnswers \/ PeerCloses
  \/ EpollWait \/ LoopExits
  \/ RunHandler

SafeSpec == Init /\ [][Next]_vars

\* The loop's thread is scheduled and runs what it queued.  A readable descriptor is
\* reported sooner or later, however many others are: registration is
\* level-triggered and the kernel rotates its ready list.  The timer of a call
\* does expire.  Nothing is asked of the network or the server.
Fairness ==
  /\ WF_vars(RunHandler)
  /\ WF_vars(EpollWait)
  /\ SF_vars(TimerDue)
  /\ WF_vars(LoopExits)

Spec == SafeSpec /\ Fairness

-----------------------------------------------------------------------------
(* Properties *)

BeforeCall == {"none", "made", "idle"}

\* Every variable stays in its type: the controller's fields, TcpConnection::m_state, the
\* epoll mask of the socket, in which EPOLLERR is with the first event and remains.
TypeOK ==
  /\ phase \in BeforeCall \cup {"called", "crashed"}
  /\ ctl \in Controllers
  /\ runs \in Nat
  /\ timer \in {"none", "pending", "queued", "fired"}
  /\ loop \in {"fresh", "running", "stopping", "exited"}
  /\ queue \in Seq(Handlers)
  /\ peer \in {"none", "inprogress", "accepted", "refused"}
  /\ conn \in {"NotConnected", "Connected", "Closed"}
  /\ mask \subseteq EpollEvents /\ watched \subseteq EpollEvents
  /\ mask # {} => "err" \in mask
  /\ outCb \in {"connect", "onWrite"}
  /\ listed \in BOOLEAN /\ known \in BOOLEAN
  /\ writeDone \in BOOLEAN /\ readDone \in BOOLEAN /\ sent \in BOOLEAN
  /\ inbox \in Seq(Answers) /\ answers \in Nat /\ closed \in BOOLEAN

\* Timeout, connect error, answers and close, in whatever order the handlers run,
\* decide the call once: the closure runs exactly once for a success and at most once
\* in all, and neither the late timer nor a second answer turns a success into a failure.
OC == INSTANCE OneShotCall
        WITH outcome <- IF ~ctl.finished THEN "open"
                        ELSE IF ctl.failed THEN "failure" ELSE "success"

ImplementsOneShotCall == OC!OSpec

\* Why a success is final, the inductive invariant: the connect handler is queued at
\* most once and comes before any request; a request becomes a read callback once;
\* a success took the read callback with it, and none is left to register another.
Success == ctl.finished /\ ~ctl.failed
Queued(h) == \E i \in DOMAIN queue : queue[i] = h

CallInv ==
  /\ ctl.failed => ctl.finished
  /\ runs <= 1 /\ (runs = 1 => ctl.finished) /\ (Success => runs = 1)
  /\ Success => ~writeDone /\ ~readDone /\ outCb = "onWrite"
  /\ outCb = "connect" => ~writeDone /\ ~readDone
  /\ ~(writeDone /\ readDone)
  /\ Queued("connect") => outCb = "connect"
  /\ \A i, j \in DOMAIN queue : queue[i] = queue[j] => i = j
  /\ phase \in BeforeCall => /\ ~ctl.finished /\ queue = <<>> /\ outCb = "connect"
                             /\ timer = "none" /\ watched = {}

\* A call that is not decided has a timer that will decide it: no handler may take
\* the timer without finishing the controller.
TimerCovers ==
  phase = "called" /\ ~ctl.finished => timer \in {"pending", "queued"}

\* The registrations of an open connection, which the writes that cancel OUT, the two
\* epoll_ctl of onWrite and the deletion on EPOLLERR must not lose: a call that waits
\* for its answer is listening for it, or the handler that will see the end of the
\* connection is queued; a request not yet written has its write handler registered or
\* queued.
RegistrationKept ==
  conn = "Connected" =>
    /\ readDone => "in" \in watched \/ Queued("onRead")
    /\ writeDone => (outCb = "onWrite" /\ "out" \in watched) \/ Queued("onWrite")

\* Every call made on a thread whose loop runs is decided, whatever the network
\* and the server do.
CallFinishes == phase = "called" /\ loop = "running" ~> ctl.finished

\* UML/RPC/RPCChannelActivity.puml has "Set Error in Controller" followed by "Execute
\* callback" on every failing branch: the closure of a failed call runs, here of one that
\* went ahead, so that it has a timer.  The code does not ensure it: SetError marks the
\* controller as finished, and callBack returns early for a finished controller.
FailureRunsClosure == timer # "none" /\ ctl.failed ~> runs > 0

\* tcp_client.h:22 says of connect that done is called whether it succeeds or not.
\* The code does not ensure it.  isLooping() stays true when loop() has returned, so
\* that connect does not enter the loop; and a number that is still in m_listen_fds
\* is given to EPOLL_CTL_MOD, which fails.
ConnectDoneRuns ==
  peer = "accepted" ~> conn # "NotConnected" \/ ctl.code = "connect"
=============================================================================
