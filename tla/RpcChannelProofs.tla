--------------------------- MODULE RpcChannelProofs --------------------------
(***************************************************************************)
(* What RpcChannel guarantees for every combination of loop states, every  *)
(* stale descriptor table and any number of answers.  The argument is in   *)
(* CallInv: only the read callback can decide a call with success, and the *)
(* handlers that could register it again are gone by then.                 *)
(***************************************************************************)
EXTENDS RpcChannel, TLAPS

\* One report queues known handlers, each at most once, all of them ready.
LEMMA OrdersFacts ==
  ASSUME NEW S \in SUBSET Handlers, NEW s \in Orders(S)
  PROVE  /\ s \in Seq(Handlers)
         /\ \A i \in DOMAIN s : s[i] \in S
         /\ \A i, j \in DOMAIN s : s[i] = s[j] => i = j
<1>1. PICK n \in 1..3 : s \in [1..n -> S]
  BY DEF Orders
<1>2. s \in Seq(S) /\ Seq(S) \subseteq Seq(Handlers)
  BY <1>1
<1> QED
  BY <1>1, <1>2 DEF Orders

\* Taking the first handler leaves the others queued, each still once.
LEMMA TailFacts ==
  ASSUME queue \in Seq(Handlers), queue # <<>>
  PROVE  /\ Tail(queue) \in Seq(Handlers)
         /\ Head(queue) \in Handlers
         /\ Head(queue) = queue[1]
         /\ \A i \in DOMAIN Tail(queue) : i + 1 \in DOMAIN queue /\ Tail(queue)[i] = queue[i + 1]
         /\ \A i \in DOMAIN Tail(queue) : i + 1 # 1
OBVIOUS

\* Whatever handler is taken, its successors keep the queue's part of the invariant.
LEMMA TakeFacts ==
  ASSUME queue \in Seq(Handlers), NEW h \in Handlers, Take(h),
         \A i, j \in DOMAIN queue : queue[i] = queue[j] => i = j
  PROVE  /\ queue' \in Seq(Handlers)
         /\ Queued(h)
         /\ ~Queued(h)'
         /\ \A g \in Handlers : Queued(g)' => Queued(g)
         /\ \A i, j \in DOMAIN queue' : queue'[i] = queue'[j] => i = j
         /\ phase' = phase
<1>1. queue # <<>> /\ Head(queue) = h /\ queue' = Tail(queue) /\ phase' = phase
  BY DEF Take
<1>2. /\ Tail(queue) \in Seq(Handlers)
      /\ Head(queue) = queue[1]
      /\ \A i \in DOMAIN Tail(queue) : i + 1 \in DOMAIN queue /\ Tail(queue)[i] = queue[i + 1]
      /\ \A i \in DOMAIN Tail(queue) : i + 1 # 1
  BY <1>1, TailFacts
<1>3. 1 \in DOMAIN queue
  BY <1>1
<1>4. \A i \in DOMAIN queue' : i \in Int
  BY <1>1, <1>2
<1> QED
  BY <1>1, <1>2, <1>3, <1>4 DEF Queued

\* The controller stays in its type.
LEMMA ControllerTypes ==
  ASSUME NEW c \in Controllers, NEW code \in Codes
  PROVE  /\ SetError(c, code) \in Controllers
         /\ SetError(c, code).finished /\ SetError(c, code).failed
         /\ StartCancel(c) \in Controllers
BY DEF SetError, StartCancel, Controllers

LoopPcs == {"fresh", "running", "stopping", "exited"}

\* callBack: nothing for a finished controller, else one run of the closure.
LEMMA CallBackFacts ==
  ASSUME NEW c \in Controllers, callBack(c), loop \in LoopPcs
  PROVE  /\ ctl' \in Controllers
         /\ loop' \in LoopPcs
         /\ c.finished => ctl' = c /\ runs' = runs
         /\ ~c.finished => /\ runs' = runs + 1
                           /\ ctl'.finished /\ ctl'.failed = c.failed
BY DEF callBack, Stop, Controllers, LoopPcs

\* SetError in front of callBack: it finds the controller finished and returns early.
LEMMA ErrorFacts ==
  ASSUME NEW c \in Controllers, NEW code \in Codes, callBack(SetError(c, code)),
         loop \in LoopPcs
  PROVE  /\ ctl' \in Controllers
         /\ loop' \in LoopPcs
         /\ runs' = runs
         /\ ctl'.finished /\ ctl'.failed
BY ControllerTypes, CallBackFacts

-----------------------------------------------------------------------------
(* Types *)

\* What epoll_ctl leaves is in its type.
LEMMA EpollTypes ==
  ASSUME TypeOK
  PROVE  /\ AddEpollEvent /\ mask' \subseteq EpollEvents =>
              listed' \in BOOLEAN /\ known' \in BOOLEAN /\ watched' \subseteq EpollEvents
         /\ DeleteEpollEvent =>
              listed' \in BOOLEAN /\ known' \in BOOLEAN /\ watched' \subseteq EpollEvents
         /\ \A l, k \in BOOLEAN : WriteMessage(l, k) =>
              /\ listed' \in BOOLEAN /\ known' \in BOOLEAN /\ watched' \subseteq EpollEvents
              /\ mask' \subseteq EpollEvents /\ "err" \in mask'
              /\ outCb' = "onWrite" /\ writeDone' = TRUE
BY DEF TypeOK, AddEpollEvent, DeleteEpollEvent, WriteMessage, Listens, EpollEvents, epollVars

\* EPOLLERR comes with whatever is listened for.
LEMMA ListenTypes ==
  ASSUME TypeOK, NEW event \in {"in", "out"}
  PROVE  /\ Listens(mask, event) \subseteq EpollEvents /\ "err" \in Listens(mask, event)
         /\ Listens(mask \ {"out"}, event) \subseteq EpollEvents
         /\ "err" \in Listens(mask \ {"out"}, event)
BY DEF TypeOK, Listens, EpollEvents

\* TcpConnection::clear leaves types alone, closed or not.
LEMMA ClearTypes ==
  ASSUME TypeOK, Clear
  PROVE  /\ listed' \in BOOLEAN /\ known' \in BOOLEAN /\ watched' \subseteq EpollEvents
         /\ mask' \subseteq EpollEvents /\ (mask' # {} => "err" \in mask')
         /\ conn' \in {"NotConnected", "Connected", "Closed"}
<1>1. CASE conn = "Closed"
  BY <1>1 DEF Clear, TypeOK, epollVars
<1>2. CASE conn # "Closed"
  <2>1. mask' = mask \ {"in", "out"} /\ DeleteEpollEvent /\ conn' = "Closed"
    BY <1>2 DEF Clear
  <2>2. mask' \subseteq EpollEvents /\ (mask' # {} => "err" \in mask')
    BY <2>1 DEF TypeOK
  <2> QED
    BY <2>1, <2>2, EpollTypes
<1> QED
  BY <1>1, <1>2

\* The first handlers of the batch, and the handlers the socket can have ready.
LEMMA ReadyFacts ==
  ASSUME TypeOK
  PROVE  Ready \in SUBSET Handlers
BY DEF TypeOK, Ready, Handlers

\* What happens before the call makes the channel, or fails to, and nothing else.
LEMMA ChannelSteps ==
  ASSUME NewChannel \/ InitChannel
  PROVE  /\ phase \in BeforeCall /\ phase' \in BeforeCall \cup {"crashed"}
         /\ UNCHANGED <<ctl, runs, timer, loop, queue, peer, conn, mask, outCb, listed, known,
                       watched, writeDone, readDone, sent, inbox, answers, closed>>
<1> USE DEF netVars, fdVars, epollVars, doneVars, BeforeCall
<1>1. CASE NewChannel
  <2>1. phase' \in {"made", "crashed"}
    BY <1>1 DEF NewChannel
  <2> QED
    BY <1>1, <2>1 DEF NewChannel
<1>2. CASE InitChannel
  BY <1>2 DEF InitChannel
<1> QED
  BY <1>1, <1>2

\* CallMethod keeps the types.
LEMMA CallTypes ==
  ASSUME TypeOK, CallMethod
  PROVE  TypeOK'
<1> USE DEF TypeOK, BeforeCall, netVars, fdVars, epollVars, doneVars
<1>0. {"init", "serialize", "connect"} \subseteq Codes /\ loop \in LoopPcs
  BY DEF Codes, LoopPcs
<1>1. CASE CallRejected
  <2>1. PICK code \in {"init", "serialize"} : callBack(SetError(ctl, code))
    BY <1>1 DEF CallRejected
  <2>2. ctl' \in Controllers /\ loop' \in LoopPcs /\ runs' = runs
    BY <1>0, <2>1, ErrorFacts
  <2> QED
    BY <1>1, <2>2 DEF CallRejected, LoopPcs
<1>2. CASE CallNotInit
  <2>1. ctl' \in Controllers
    BY <1>0, <1>2, ControllerTypes DEF CallNotInit
  <2>2. /\ phase' = "crashed"
        /\ UNCHANGED <<runs, loop, timer, queue, netVars, conn, fdVars, doneVars, sent>>
    BY <1>2 DEF CallNotInit
  <2> QED
    BY <2>1, <2>2
<1>3. CASE CallConnecting
  BY <1>3, EpollTypes, ListenTypes DEF CallConnecting, AddCallTimer, ListenConnect
<1>4. CASE CallConnected
  BY <1>4, EpollTypes DEF CallConnected, AddCallTimer
<1>5. CASE CallConnectFails
  BY <1>0, <1>5, ErrorFacts DEF CallConnectFails, AddCallTimer, LoopPcs
<1>6. CASE CallWithoutController
  BY <1>6 DEF CallWithoutController
<1> QED
  BY <1>1, <1>2, <1>3, <1>4, <1>5, <1>6 DEF CallMethod

\* A handler keeps the types.
LEMMA HandlerTypes ==
  ASSUME TypeOK, RunHandler
  PROVE  TypeOK'
<1> USE DEF TypeOK, netVars, fdVars, epollVars, doneVars
<1>0. {"timeout", "connect", "deserialize", "remote"} \subseteq Codes /\ loop \in LoopPcs
  BY DEF Codes, LoopPcs
<1>a. ASSUME NEW h \in Handlers, Take(h)
      PROVE  queue' \in Seq(Handlers) /\ phase' = phase
  BY <1>a, TailFacts DEF Take
<1>b. {"timer", "connect", "onWrite", "onRead"} = Handlers
  BY DEF Handlers
<1>d. <<>> \in Seq(Answers)
  OBVIOUS
<1>1. CASE OnTimeout
  <2>1. CASE ctl.finished
    BY <1>1, <1>a, <1>b, <2>1 DEF OnTimeout, TooLate
  <2>2. CASE ~ctl.finished
    BY <1>0, <1>1, <1>a, <1>b, <2>2, ControllerTypes, ErrorFacts DEF OnTimeout, TooLate, LoopPcs
  <2> QED
    BY <2>1, <2>2
<1>2. CASE OnConnected
  BY <1>2, <1>a, <1>b, EpollTypes DEF OnConnected
<1>3. CASE OnConnectFailed
  BY <1>0, <1>3, <1>a, <1>b, ErrorFacts DEF OnConnectFailed, LoopPcs
<1>4. CASE OnWriteAll
  <2>1. mask' \subseteq EpollEvents /\ (mask' # {} => "err" \in mask')
    BY <1>4, ListenTypes DEF OnWriteAll, MaskWritten
  <2> QED
    BY <1>4, <1>a, <1>b, <2>1, EpollTypes DEF OnWriteAll, AwaitAnswer
<1>5. CASE OnWritePart
  <2>1. CASE writeDone
    BY <1>5, <1>a, <1>b, <2>1, EpollTypes, ListenTypes DEF OnWritePart, AwaitAnswer
  <2>2. CASE ~writeDone
    <3>1. readDone' = (readDone \/ writeDone) /\ writeDone' = FALSE /\ Take("onWrite")
      BY <1>5 DEF OnWritePart, AwaitAnswer
    <3>2. UNCHANGED <<mask, listed, known, watched, ctl, runs, timer, loop, peer, inbox,
                      answers, closed, conn, outCb, sent>>
      BY <1>5, <2>2 DEF OnWritePart
    <3>3. readDone' \in BOOLEAN /\ writeDone' \in BOOLEAN
      BY <3>1
    <3>4. queue' \in Seq(Handlers) /\ phase' = phase
      BY <1>a, <1>b, <3>1
    <3> QED
      BY <3>2, <3>3, <3>4
  <2> QED
    BY <2>1, <2>2
<1>6. CASE OnReadAnswer
  <2>1. ctl' \in Controllers /\ loop' \in LoopPcs /\ runs' \in Nat
    <3>1. CASE ~readDone
      BY <1>0, <1>6, <3>1 DEF OnReadAnswer
    <3>2. CASE callBack(SetError(ctl, "deserialize")) \/ callBack(SetError(ctl, "remote"))
      BY <1>0, <3>2, ErrorFacts
    <3>3. CASE callBack(ctl)
      BY <1>0, <3>3, CallBackFacts
    <3> QED
      BY <1>6, <3>1, <3>2, <3>3 DEF OnReadAnswer
  <2> QED
    BY <1>6, <1>a, <1>b, <1>d, <2>1 DEF OnReadAnswer, LoopPcs
<1>7. CASE OnReadNothing
  BY <1>7, <1>a, <1>b, <1>d DEF OnReadNothing
<1>8. CASE OnReadClose
  BY <1>8, <1>a, <1>b, <1>d, ClearTypes DEF OnReadClose
<1>9. CASE OnClosed
  BY <1>9, <1>a, <1>b, ClearTypes DEF OnClosed
<1> QED
  BY <1>1, <1>2, <1>3, <1>4, <1>5, <1>6, <1>7, <1>8, <1>9 DEF RunHandler

\* Every step keeps the types.
LEMMA StepTypes ==
  ASSUME TypeOK, [Next]_vars
  PROVE  TypeOK'
<1> USE DEF netVars, fdVars, epollVars, doneVars
<1>1. CASE ConnectResolves
  BY <1>1 DEF ConnectResolves, TypeOK
<1>2. CASE ServerAnswers
  BY <1>2 DEF ServerAnswers, TypeOK
<1>3. CASE PeerCloses
  BY <1>3 DEF PeerCloses, TypeOK
<1>4. CASE EpollWait
  <2>1. PICK s \in Orders(Ready) : EpollRound(s)
    BY <1>4 DEF EpollWait
  <2>2. s \in Seq(Handlers)
    BY OrdersFacts, ReadyFacts
  <2>3. listed' \in BOOLEAN /\ known' \in BOOLEAN /\ watched' \subseteq EpollEvents
    <3>1. CASE UNCHANGED epollVars
      BY <3>1 DEF TypeOK
    <3>2. CASE DeleteEpollEvent
      BY <3>2, EpollTypes
    <3> QED
      BY <2>1, <3>1, <3>2 DEF EpollRound
  <2>4. timer' \in {"pending", "none", "queued", "fired"} /\ queue' = s
    BY <2>1 DEF EpollRound, TypeOK
  <2>5. UNCHANGED <<phase, ctl, runs, loop, peer, inbox, answers, closed, conn, mask,
                    outCb, writeDone, readDone, sent>>
    BY <2>1 DEF EpollRound
  <2> QED
    BY <2>2, <2>3, <2>4, <2>5 DEF TypeOK
<1>5. CASE LoopExits
  BY <1>5 DEF LoopExits, TypeOK
<1>6. CASE UNCHANGED vars
  BY <1>6 DEF vars, TypeOK
<1>7. CASE NewChannel \/ InitChannel
  <2>1. phase' \in BeforeCall \cup {"called", "crashed"}
    BY <1>7, ChannelSteps
  <2>2. UNCHANGED <<ctl, runs, timer, loop, queue, peer, conn, mask, outCb, listed, known,
                    watched, writeDone, readDone, sent, inbox, answers, closed>>
    BY <1>7, ChannelSteps
  <2> QED
    BY <2>1, <2>2 DEF TypeOK
<1> QED
  BY <1>1, <1>2, <1>3, <1>4, <1>5, <1>6, <1>7, CallTypes, HandlerTypes DEF Next

\* RpcChannel is type correct: controller, socket state, epoll mask and queue.
THEOREM RpcTypeCorrect == SafeSpec => []TypeOK
<1>1. Init => TypeOK
  <2> SUFFICES ASSUME Init PROVE TypeOK
    OBVIOUS
  <2>1. ctl \in Controllers
    BY DEF Init, Controllers, Codes
  <2>2. queue \in Seq(Handlers) /\ inbox \in Seq(Answers)
    BY DEF Init
  <2>3. loop \in {"fresh", "running", "exited"} /\ listed \in BOOLEAN
    BY LoopAssumption DEF Init
  <2> QED
    BY <2>1, <2>2, <2>3 DEF Init, TypeOK, BeforeCall
<1>2. TypeOK /\ [Next]_vars => TypeOK'
  BY StepTypes
<1> QED
  BY <1>1, <1>2, PTL DEF SafeSpec

-----------------------------------------------------------------------------
(* The call is decided once *)

\* The steps that leave everything CallInv speaks of alone.
LEMMA CallInvFrame ==
  ASSUME CallInv,
         UNCHANGED <<phase, ctl, runs, queue, outCb, writeDone, readDone, timer, watched>>
  PROVE  CallInv'
BY DEF CallInv, Success, Queued

\* The entry of a call: nothing is queued and nothing is decided yet.
LEMMA CallKeepsInv ==
  ASSUME TypeOK, CallInv, CallMethod
  PROVE  CallInv'
<1>0. /\ ~ctl.finished /\ ~ctl.failed /\ runs = 0 /\ queue = <<>> /\ outCb = "connect"
      /\ ~writeDone /\ ~readDone
  <2>1. phase \in BeforeCall
    BY DEF CallMethod, CallWithoutController, CallRejected, CallNotInit, CallConnecting,
           CallConnected, CallConnectFails, BeforeCall
  <2>2. runs \in Nat /\ runs <= 1 /\ (runs = 1 => ctl.finished)
    BY DEF TypeOK, CallInv
  <2> QED
    BY <2>1, <2>2 DEF CallInv
<1>1. ctl \in Controllers /\ loop \in LoopPcs
  BY DEF TypeOK, LoopPcs
<1>2. {"init", "serialize", "connect"} \subseteq Codes
  BY DEF Codes
<1>3. CASE CallRejected \/ CallConnectFails
  <2>1. runs' = runs /\ ctl'.finished /\ ctl'.failed
    BY <1>1, <1>2, <1>3, ErrorFacts DEF CallRejected, CallConnectFails, AddCallTimer
  <2>2. phase' = "called" /\ UNCHANGED <<queue, outCb, writeDone, readDone>>
    BY <1>3 DEF CallRejected, CallConnectFails, AddCallTimer, fdVars, doneVars
  <2> QED
    BY <1>0, <2>1, <2>2 DEF CallInv, Success, Queued, BeforeCall
<1>4. CASE CallNotInit
  <2>1. runs' = runs /\ ctl'.finished /\ ctl'.failed
    BY <1>1, <1>2, <1>4, ControllerTypes DEF CallNotInit
  <2>2. phase' = "crashed" /\ UNCHANGED <<queue, outCb, writeDone, readDone>>
    BY <1>4 DEF CallNotInit, fdVars, doneVars
  <2> QED
    BY <1>0, <2>1, <2>2 DEF CallInv, Success, Queued, BeforeCall
<1>5. CASE CallConnecting
  BY <1>0, <1>5 DEF CallConnecting, AddCallTimer, ListenConnect, CallInv, Success, Queued,
      doneVars, BeforeCall
<1>6. CASE CallConnected
  BY <1>0, <1>6 DEF CallConnected, AddCallTimer, WriteMessage, CallInv, Success, Queued,
      BeforeCall
<1>7. CASE CallWithoutController
  <2>1. phase' = "crashed" /\ UNCHANGED <<ctl, runs, queue, outCb, writeDone, readDone>>
    BY <1>7 DEF CallWithoutController, fdVars, doneVars
  <2> QED
    BY <1>0, <2>1 DEF CallInv, Success, Queued, BeforeCall
<1> QED
  BY <1>3, <1>4, <1>5, <1>6, <1>7 DEF CallMethod

\* epoll_wait queues the connect handler only while it is the write callback.
LEMMA RoundKeepsInv ==
  ASSUME TypeOK, CallInv, NEW s \in Orders(Ready), EpollRound(s)
  PROVE  CallInv'
<1>1. /\ \A i \in DOMAIN s : s[i] \in Ready
      /\ \A i, j \in DOMAIN s : s[i] = s[j] => i = j
  BY OrdersFacts, ReadyFacts
<1>2. "connect" \in Ready => outCb = "connect"
  BY DEF Ready, TypeOK
<1>3. queue' = s /\ UNCHANGED <<phase, ctl, runs, outCb, writeDone, readDone>>
  BY DEF EpollRound, doneVars
<1>4. phase \notin BeforeCall
  <2>1. Ready # {}
    BY DEF Orders
  <2> QED
    BY <2>1 DEF Ready, CallInv
<1> QED
  BY <1>1, <1>2, <1>3, <1>4 DEF CallInv, Success, Queued

\* A handler: success comes from the read callback alone, the connect handler finds
\* the call before any request, and a request is turned into a read callback once.
LEMMA HandlerKeepsInv ==
  ASSUME TypeOK, CallInv, RunHandler
  PROVE  CallInv'
<1> DEFINE QueueOK == /\ Queued("connect") => outCb = "connect"
                      /\ \A i, j \in DOMAIN queue : queue[i] = queue[j] => i = j
<1>0. /\ ctl \in Controllers /\ loop \in LoopPcs /\ runs \in Nat
      /\ writeDone \in BOOLEAN /\ readDone \in BOOLEAN
      /\ outCb \in {"connect", "onWrite"}
  BY DEF TypeOK, LoopPcs
<1>1. {"timeout", "connect", "deserialize", "remote"} \subseteq Codes
  BY DEF Codes
<1>a. ASSUME NEW h \in Handlers, Take(h)
      PROVE  /\ phase' = phase /\ phase \notin BeforeCall
             /\ Queued(h) /\ ~Queued(h)'
             /\ Queued("connect")' => Queued("connect")
             /\ (\A i, j \in DOMAIN queue : queue[i] = queue[j] => i = j)'
  <2>1. queue \in Seq(Handlers) /\ \A i, j \in DOMAIN queue : queue[i] = queue[j] => i = j
    BY DEF TypeOK, CallInv
  <2>2. "connect" \in Handlers
    BY DEF Handlers
  <2>3. phase \notin BeforeCall
    BY <1>a DEF Take, CallInv
  <2> QED
    BY <1>a, <2>1, <2>2, <2>3, TakeFacts
<1>b. {"timer", "connect", "onWrite", "onRead"} = Handlers
  BY DEF Handlers
<1>2. CASE OnTimeout
  <2>1. UNCHANGED <<outCb, writeDone, readDone>>
    BY <1>2 DEF OnTimeout, TooLate, fdVars, doneVars
  <2>2. CASE ctl.finished
    BY <1>2, <1>a, <1>b, <2>1, <2>2 DEF OnTimeout, TooLate, CallInv, Success
  <2>3. CASE ~ctl.finished
    <3>1. runs' = runs /\ ctl'.finished /\ ctl'.failed
      BY <1>0, <1>1, <1>2, <2>3, ControllerTypes, ErrorFacts DEF OnTimeout, TooLate
    <3> QED
      BY <1>2, <1>a, <1>b, <2>1, <2>3, <3>1 DEF OnTimeout, TooLate, CallInv, Success
  <2> QED
    BY <2>2, <2>3
<1>3. CASE OnConnected
  <2>1. /\ UNCHANGED <<ctl, runs, readDone>>
        /\ writeDone' = TRUE /\ outCb' = "onWrite"
    BY <1>3 DEF OnConnected, WriteMessage
  <2>2. Queued("connect") /\ ~Queued("connect")' /\ phase' \notin BeforeCall
    BY <1>3, <1>a, <1>b DEF OnConnected
  <2>3. (\A i, j \in DOMAIN queue : queue[i] = queue[j] => i = j)'
    BY <1>3, <1>a, <1>b DEF OnConnected
  <2> QED
    BY <2>1, <2>2, <2>3 DEF CallInv, Success
<1>4. CASE OnConnectFailed
  <2>1. runs' = runs /\ ctl'.finished /\ ctl'.failed
    BY <1>0, <1>1, <1>4, ErrorFacts DEF OnConnectFailed
  <2>2. UNCHANGED <<outCb, writeDone, readDone>>
    BY <1>4 DEF OnConnectFailed, doneVars
  <2>3. Queued("connect")
    BY <1>4, <1>a, <1>b DEF OnConnectFailed
  <2> QED
    BY <1>4, <1>a, <1>b, <2>1, <2>2, <2>3 DEF OnConnectFailed, CallInv, Success
<1>5. CASE OnWriteAll \/ OnWritePart
  <2>1. /\ UNCHANGED <<ctl, runs, outCb>>
        /\ readDone' = (readDone \/ writeDone) /\ writeDone' = FALSE
    BY <1>5 DEF OnWriteAll, MaskWritten, OnWritePart, AwaitAnswer
  <2>2. Take("onWrite")
    BY <1>5 DEF OnWriteAll, MaskWritten, OnWritePart
  <2> QED
    BY <1>a, <1>b, <2>1, <2>2 DEF CallInv, Success
<1>6. CASE OnReadAnswer
  <2>1. UNCHANGED <<outCb, writeDone>> /\ readDone' = FALSE
    BY <1>6 DEF OnReadAnswer, fdVars
  <2>2. CASE ~readDone
    BY <1>6, <1>a, <1>b, <2>1, <2>2 DEF OnReadAnswer, CallInv, Success
  <2>3. CASE readDone
    <3>1. outCb = "onWrite" /\ ~writeDone /\ ~Success
      BY <1>0, <2>3 DEF CallInv
    <3>2. /\ ctl'.failed => ctl'.finished
          /\ runs' <= 1 /\ (runs' = 1 => ctl'.finished) /\ (Success' => runs' = 1)
      <4>0. /\ runs <= 1 /\ (runs = 1 => ctl.finished) /\ (ctl.failed => ctl.finished)
            /\ (~ctl.finished => runs = 0)
        BY <1>0 DEF CallInv
      <4>1. CASE callBack(SetError(ctl, "deserialize")) \/ callBack(SetError(ctl, "remote"))
        BY <1>0, <1>1, <4>0, <4>1, ErrorFacts DEF Success
      <4>2. CASE callBack(ctl)
        <5>1. CASE ctl.finished
          BY <1>0, <3>1, <4>0, <4>2, <5>1, CallBackFacts DEF Success
        <5>2. CASE ~ctl.finished
          BY <1>0, <4>0, <4>2, <5>2, CallBackFacts DEF Success
        <5> QED
          BY <5>1, <5>2
      <4> QED
        BY <1>6, <2>3, <4>1, <4>2 DEF OnReadAnswer
    <3> QED
      BY <1>6, <1>a, <1>b, <2>1, <3>1, <3>2 DEF OnReadAnswer, CallInv
  <2> QED
    BY <2>2, <2>3
<1>7. CASE OnReadNothing \/ OnReadClose \/ OnClosed
  <2>1. UNCHANGED <<ctl, runs, outCb, writeDone, readDone>>
    BY <1>7 DEF OnReadNothing, OnReadClose, OnClosed, fdVars, doneVars
  <2>2. Take("onRead") \/ Take("onWrite")
    BY <1>7 DEF OnReadNothing, OnReadClose, OnClosed
  <2> QED
    BY <1>a, <1>b, <2>1, <2>2 DEF CallInv, Success
<1> QED
  BY <1>2, <1>3, <1>4, <1>5, <1>6, <1>7 DEF RunHandler

\* The inductive invariant of the call holds in every run: the closure runs at most once
\* and has run with a success, and no read callback is left behind by one.
THEOREM CallInvariant == SafeSpec => []CallInv
<1>1. Init => CallInv
  BY DEF Init, CallInv, Success, Queued
<1>2. TypeOK /\ CallInv /\ [Next]_vars => CallInv'
  <2> SUFFICES ASSUME TypeOK, CallInv, [Next]_vars PROVE CallInv'
    OBVIOUS
  <2> USE DEF netVars, fdVars, epollVars, doneVars
  <2>1. CASE ConnectResolves
    BY <2>1, CallInvFrame DEF ConnectResolves
  <2>2. CASE ServerAnswers
    BY <2>2, CallInvFrame DEF ServerAnswers
  <2>3. CASE PeerCloses
    BY <2>3, CallInvFrame DEF PeerCloses
  <2>4. CASE LoopExits
    BY <2>4, CallInvFrame DEF LoopExits
  <2>5. CASE UNCHANGED vars
    BY <2>5, CallInvFrame DEF vars
  <2>6. CASE EpollWait
    BY <2>6, RoundKeepsInv DEF EpollWait
  <2>7. CASE NewChannel \/ InitChannel
    BY <2>7, ChannelSteps DEF CallInv, Success, Queued, BeforeCall
  <2> QED
    BY <2>1, <2>2, <2>3, <2>4, <2>5, <2>6, <2>7, CallKeepsInv, HandlerKeepsInv DEF Next
<1> QED
  BY <1>1, <1>2, RpcTypeCorrect, PTL DEF SafeSpec

-----------------------------------------------------------------------------
(* The refinement *)

\* What an error, or a finished call, does to the abstract call.
LEMMA Decides ==
  ASSUME CallInv, CallInv', ctl.failed \in BOOLEAN, ctl.finished \in BOOLEAN,
         runs \in Nat, runs' \in Nat,
         \/ ctl' = ctl /\ runs' = runs
         \/ ctl'.finished /\ ctl'.failed /\ ~Success /\ (ctl.finished => runs' = runs)
         \/ ctl'.finished /\ ~ctl'.failed /\ ~ctl.finished
  PROVE  OC!ONext \/ UNCHANGED OC!ovars
<1>1. CASE ctl' = ctl /\ runs' = runs
  BY <1>1 DEF OC!ovars
<1>2. CASE ctl'.finished /\ ctl'.failed /\ ~Success /\ (ctl.finished => runs' = runs)
  <2>1. ~ctl.finished => runs = 0 /\ runs' \in {0, 1}
    BY DEF CallInv
  <2> QED
    BY <1>2, <2>1 DEF OC!ovars, OC!ONext, OC!Fail, CallInv, Success
<1>3. CASE ctl'.finished /\ ~ctl'.failed /\ ~ctl.finished
  <2>1. runs = 0 /\ runs' = 1
    BY <1>3 DEF CallInv, Success
  <2> QED
    BY <1>3, <2>1 DEF OC!ONext, OC!Succeed
<1> QED
  BY <1>1, <1>2, <1>3

\* Every step leaves the controller and the closure alone, fails a call that has not
\* succeeded, or ends an open one with success.
LEMMA ControllerSteps ==
  ASSUME TypeOK, CallInv, [Next]_vars
  PROVE  \/ ctl' = ctl /\ runs' = runs
         \/ ctl'.finished /\ ctl'.failed /\ ~Success /\ (ctl.finished => runs' = runs)
         \/ ctl'.finished /\ ~ctl'.failed /\ ~ctl.finished
<1>0. ctl \in Controllers /\ loop \in LoopPcs
  BY DEF TypeOK, LoopPcs
<1>1. Codes = {"none", "init", "serialize", "timeout", "connect", "remote", "deserialize"}
  BY DEF Codes
<1>a. \A c \in Codes : callBack(SetError(ctl, c)) =>
                           ctl'.finished /\ ctl'.failed /\ runs' = runs
  BY <1>0, ErrorFacts
<1>2. CASE CallMethod
  <2>1. runs' = runs /\ (ctl' = ctl \/ (ctl'.finished /\ ctl'.failed))
    BY <1>0, <1>1, <1>2, <1>a, ControllerTypes
    DEF CallMethod, CallWithoutController, CallRejected, CallNotInit, CallConnecting,
        AddCallTimer, ListenConnect, CallConnected, CallConnectFails
  <2>2. phase \in BeforeCall
    BY <1>2 DEF CallMethod, CallWithoutController, CallRejected, CallNotInit, CallConnecting, AddCallTimer,
                ListenConnect, CallConnected, CallConnectFails, BeforeCall
  <2> QED
    BY <2>1, <2>2 DEF CallInv, Success
<1>3. CASE OnTimeout
  <2>1. CASE ctl.finished
    BY <1>3, <2>1 DEF OnTimeout, TooLate
  <2>2. CASE ~ctl.finished
    BY <1>0, <1>1, <1>3, <2>2, ControllerTypes, ErrorFacts DEF OnTimeout, TooLate, Success
  <2> QED
    BY <2>1, <2>2
<1>4. CASE OnConnectFailed
  <2>1. Queued("connect")
    BY <1>4, TakeFacts DEF OnConnectFailed, TypeOK, CallInv, Handlers
  <2> QED
    BY <1>1, <1>4, <1>a, <2>1 DEF OnConnectFailed, CallInv
<1>5. CASE OnReadAnswer
  <2>1. CASE ~readDone
    BY <1>5, <2>1 DEF OnReadAnswer
  <2>2. CASE readDone
    <3>1. ~Success
      BY <2>2 DEF CallInv
    <3>2. callBack(ctl) => \/ ctl' = ctl /\ runs' = runs
                           \/ ctl'.finished /\ ctl'.failed = ctl.failed
      BY <1>0, CallBackFacts
    <3>3. ctl.failed => ctl.finished
      BY DEF CallInv
    <3>4. callBack(ctl) => (ctl' = ctl /\ runs' = runs) \/ ~ctl.finished
      BY <1>0, CallBackFacts
    <3> QED
      BY <1>1, <1>5, <1>a, <2>2, <3>1, <3>2, <3>3, <3>4 DEF OnReadAnswer
  <2> QED
    BY <2>1, <2>2
<1>6. CASE EpollWait
  BY <1>6 DEF EpollWait, EpollRound
<1>7. CASE NewChannel \/ InitChannel
  BY <1>7, ChannelSteps
<1> QED
  BY <1>2, <1>3, <1>4, <1>5, <1>6, <1>7
  DEF Next, RunHandler, OnConnected, OnWriteAll, MaskWritten, OnWritePart, OnReadNothing,
      OnReadClose, OnClosed, ConnectResolves, ServerAnswers, PeerCloses, LoopExits, vars

\* The client side of an RPC implements OneShotCall, for any number of answers and
\* whatever the loop did before the call.
THEOREM RpcDecidesOnce == SafeSpec => ImplementsOneShotCall
<1>1. Init => OC!OInit
  BY DEF Init, OC!OInit
<1>2. TypeOK /\ CallInv /\ CallInv' /\ [Next]_vars => [OC!ONext]_(OC!ovars)
  <2> SUFFICES ASSUME TypeOK, CallInv, CallInv', [Next]_vars
               PROVE  OC!ONext \/ UNCHANGED OC!ovars
    OBVIOUS
  <2>1. ctl.failed \in BOOLEAN /\ ctl.finished \in BOOLEAN
    BY DEF TypeOK, Controllers
  <2>2. runs \in Nat /\ runs' \in Nat
    BY StepTypes DEF TypeOK
  <2>3. \/ ctl' = ctl /\ runs' = runs
        \/ ctl'.finished /\ ctl'.failed /\ ~Success /\ (ctl.finished => runs' = runs)
        \/ ctl'.finished /\ ~ctl'.failed /\ ~ctl.finished
    BY ControllerSteps
  <2> QED
    BY <2>1, <2>2, <2>3, Decides
<1> QED
  BY <1>1, <1>2, RpcTypeCorrect, CallInvariant, PTL DEF SafeSpec, ImplementsOneShotCall,
      OC!OSpec

-----------------------------------------------------------------------------
(* The timer *)

\* An undecided call has its timer, whatever the network, the server and the other
\* handlers do: the only handler that uses the timer up finishes the controller.
THEOREM RpcTimerCovers == SafeSpec => []TimerCovers
<1>1. Init => TimerCovers
  BY DEF Init, TimerCovers
<1>2. TypeOK /\ CallInv /\ TimerCovers /\ [Next]_vars => TimerCovers'
  <2> SUFFICES ASSUME TypeOK, CallInv, TimerCovers, [Next]_vars PROVE TimerCovers'
    OBVIOUS
  <2>0. ctl \in Controllers /\ loop \in LoopPcs
    BY DEF TypeOK, LoopPcs
  <2>1. ctl' = ctl \/ ctl'.finished
    BY ControllerSteps
  <2>2. CASE CallMethod
    <3>1. CASE CallRejected
      BY <2>0, <3>1, ErrorFacts DEF CallRejected, TimerCovers, Codes
    <3>2. CASE CallNotInit \/ CallWithoutController
      BY <3>2 DEF CallNotInit, CallWithoutController, TimerCovers
    <3>3. CASE CallConnecting \/ CallConnected \/ CallConnectFails
      BY <3>3 DEF CallConnecting, AddCallTimer, ListenConnect, CallConnected,
          CallConnectFails, TimerCovers
    <3> QED
      BY <2>2, <3>1, <3>2, <3>3 DEF CallMethod
  <2>3. CASE OnTimeout
    <3>1. ctl'.finished
      <4>1. CASE ctl.finished
        BY <2>3, <4>1 DEF OnTimeout, TooLate
      <4>2. CASE ~ctl.finished
        BY <2>0, <2>3, <4>2, ControllerTypes, ErrorFacts DEF OnTimeout, TooLate, Codes
      <4> QED
        BY <4>1, <4>2
    <3> QED
      BY <3>1 DEF TimerCovers
  <2>4. CASE EpollWait
    BY <2>4 DEF EpollWait, EpollRound, TimerCovers
  <2>5. CASE UNCHANGED <<phase, timer>>
    BY <2>1, <2>5 DEF TimerCovers
  <2>6. CASE NewChannel \/ InitChannel
    BY <2>6, ChannelSteps DEF TimerCovers, BeforeCall
  <2> QED
    BY <2>2, <2>3, <2>4, <2>5, <2>6
    DEF Next, RunHandler, Take, OnConnected, OnConnectFailed, OnWriteAll, MaskWritten,
        OnWritePart, OnReadAnswer, OnReadNothing, OnReadClose, OnClosed, ConnectResolves,
        ServerAnswers, PeerCloses, LoopExits, vars
<1> QED
  BY <1>1, <1>2, RpcTypeCorrect, CallInvariant, PTL DEF SafeSpec

-----------------------------------------------------------------------------
(* The registrations of an open connection.  What is lost to an EPOLLERR was queued in
   the same batch, and a handler that takes its place registers the mask again, which
   still has what is awaited.  This needs a kernel that knows the listed fd, so a number
   that m_listen_fds does not hold already when the call begins.                       *)
RegistrationInv ==
  /\ phase \in BeforeCall => conn = "NotConnected" /\ ~listed
  /\ conn = "Connected" =>
       /\ outCb = "onWrite" /\ peer = "accepted"
       /\ listed => known
       /\ readDone => "in" \in mask /\ ("in" \in watched \/ (closed /\ Queued("onRead")))
       /\ writeDone => "out" \in watched \/ Queued("onWrite")

LEMMA TakenLeavesOthers ==
  ASSUME TypeOK, CallInv, NEW h \in Handlers, Take(h), NEW g \in Handlers \ {h}, Queued(g)
  PROVE  Queued(g)'
<1>1. queue \in Seq(Handlers) /\ queue # <<>> /\ Head(queue) = h /\ queue' = Tail(queue)
  BY DEF TypeOK, Take
<1>2. PICK i \in 1 .. Len(queue) : queue[i] = g
  BY <1>1 DEF Queued
<1>3. i # 1
  BY <1>1, <1>2
<1>4. Len(queue) \in Nat /\ Len(Tail(queue)) = Len(queue) - 1
  BY <1>1
<1>5. i - 1 \in 1 .. Len(Tail(queue))
  BY <1>2, <1>3, <1>4
<1>6. Tail(queue)[i - 1] = queue[(i - 1) + 1]
  BY <1>1, <1>5
<1>7. (i - 1) + 1 = i
  BY <1>2
<1>8. DOMAIN Tail(queue) = 1 .. Len(Tail(queue))
  BY <1>1
<1> QED
  BY <1>1, <1>2, <1>5, <1>6, <1>7, <1>8 DEF Queued

LEMMA CallRegisters ==
  ASSUME TypeOK, CallInv, RegistrationInv, CallMethod
  PROVE  RegistrationInv'
<1>1. conn = "NotConnected" /\ listed = FALSE /\ ~readDone
  <2>1. phase \in BeforeCall
    BY DEF CallMethod, CallWithoutController, CallRejected, CallNotInit, CallConnecting,
           CallConnected, CallConnectFails, BeforeCall
  <2> QED
    BY <2>1 DEF RegistrationInv, TypeOK, CallInv
<1>2. CASE CallConnected
  BY <1>1, <1>2 DEF CallConnected, WriteMessage, Listens, RegistrationInv, BeforeCall
<1>3. CASE ~CallConnected
  <2>1. phase' \notin BeforeCall /\ conn' = conn
    BY <1>3 DEF CallMethod, CallWithoutController, CallRejected, CallNotInit, CallConnecting, CallConnectFails,
                BeforeCall
  <2> QED
    BY <1>1, <2>1 DEF RegistrationInv
<1> QED
  BY <1>2, <1>3

\* A batch that costs the registration holds every handler the registration stood for.
LEMMA RoundRegisters ==
  ASSUME TypeOK, CallInv, RegistrationInv, NEW s \in Orders(Ready), EpollRound(s)
  PROVE  RegistrationInv'
<1>1. /\ queue = <<>> /\ queue' = s /\ UNCHANGED << phase, conn, mask, outCb, writeDone, readDone,
                                                    peer, inbox, closed >>
  BY DEF EpollRound, netVars, doneVars
<1>2. \A h : ~Queued(h)
  BY <1>1 DEF Queued
<1>3. listed' => listed
  BY DEF EpollRound, DeleteEpollEvent, epollVars, TypeOK
<1>4. ASSUME conn = "Connected"
      PROVE  /\ listed' => known'
             /\ readDone => "in" \in watched' \/ (closed /\ Queued("onRead")')
             /\ writeDone => "out" \in watched' \/ Queued("onWrite")'
  <2>1. /\ outCb = "onWrite" /\ peer = "accepted" /\ (listed => known)
        /\ readDone => "in" \in watched
        /\ writeDone => "out" \in watched
    BY <1>2, <1>4 DEF RegistrationInv
  <2>2. CASE UNCHANGED epollVars
    BY <2>1, <2>2 DEF epollVars
  <2>3. CASE /\ peer = "refused" \/ closed
             /\ \A h \in Ready \ {"timer"} : \E i \in DOMAIN s : s[i] = h
             /\ DeleteEpollEvent
    <3>1. closed
      BY <2>1, <2>3
    <3>2. readDone => "onRead" \in Ready \ {"timer"}
      BY <2>1, <3>1 DEF Ready
    <3>3. writeDone => "onWrite" \in Ready \ {"timer"}
      BY <2>1 DEF Ready
    <3>4. /\ readDone => Queued("onRead")'
          /\ writeDone => Queued("onWrite")'
      BY <1>1, <2>3, <3>2, <3>3 DEF Queued
    <3>5. listed' => known'
      BY <2>1, <2>3 DEF DeleteEpollEvent, epollVars
    <3> QED
      BY <3>1, <3>4, <3>5
  <2> QED
    BY <2>2, <2>3 DEF EpollRound
<1> QED
  BY <1>1, <1>3, <1>4 DEF RegistrationInv

LEMMA HandlerRegisters ==
  ASSUME TypeOK, CallInv, RegistrationInv, RunHandler
  PROVE  RegistrationInv'
<1>1. {"timer", "connect", "onWrite", "onRead"} = Handlers
  BY DEF Handlers
<1>2. ASSUME NEW h, Take(h)
      PROVE  /\ phase' = phase /\ phase \notin BeforeCall /\ Queued(h)
             /\ \A g \in Handlers \ {h} : Queued(g) => Queued(g)'
  <2>1. queue \in Seq(Handlers) /\ queue # <<>> /\ Head(queue) = h
    BY <1>2 DEF Take, TypeOK
  <2>2. h \in Handlers /\ Queued(h)
    <3>1. 1 \in DOMAIN queue /\ queue[1] = h /\ queue[1] \in Handlers
      BY <2>1
    <3> QED
      BY <3>1 DEF Queued
  <2>3. phase \notin BeforeCall
    BY <2>1 DEF CallInv
  <2> QED
    BY <1>2, <2>2, <2>3, TakenLeavesOthers DEF Take
<1>3. CASE OnConnected
  <2>1. Take("connect") /\ peer = "accepted" /\ peer' = peer /\ readDone' = readDone
          /\ outCb' = "onWrite" /\ "out" \in watched' /\ known' = TRUE
    BY <1>3 DEF OnConnected, WriteMessage, Listens, netVars
  <2>2. ~readDone
    BY <1>2, <2>1 DEF CallInv
  <2> QED
    BY <1>2, <2>1, <2>2 DEF RegistrationInv
<1>4. CASE OnConnectFailed
  <2>1. Take("connect") /\ conn' = conn
    BY <1>4 DEF OnConnectFailed
  <2>2. conn # "Connected"
    BY <1>2, <2>1 DEF RegistrationInv, CallInv
  <2> QED
    BY <1>2, <2>1, <2>2 DEF RegistrationInv
<1>5. CASE OnTimeout
  <2>1. /\ Take("timer")
        /\ UNCHANGED << conn, mask, outCb, listed, known, watched, peer, closed, writeDone, readDone >>
    BY <1>5 DEF OnTimeout, netVars, fdVars, epollVars, doneVars
  <2>2. /\ Queued("onRead") => Queued("onRead")'
        /\ Queued("onWrite") => Queued("onWrite")'
        /\ phase' \notin BeforeCall
    BY <1>1, <1>2, <2>1
  <2>3. ASSUME conn = "Connected"
        PROVE  /\ outCb' = "onWrite" /\ peer' = "accepted"
               /\ listed' => known'
               /\ readDone' => "in" \in mask' /\ ("in" \in watched' \/ (closed' /\ Queued("onRead")'))
               /\ writeDone' => "out" \in watched' \/ Queued("onWrite")'
    <3>1. /\ outCb = "onWrite" /\ peer = "accepted"
          /\ listed => known
          /\ readDone => "in" \in mask /\ ("in" \in watched \/ (closed /\ Queued("onRead")))
          /\ writeDone => "out" \in watched \/ Queued("onWrite")
      BY <2>3, Zenon DEF RegistrationInv
    <3> QED
      BY <2>1, <2>2, <3>1, Zenon
  <2>4. conn' = conn
    BY <2>1
  <2> QED
    BY <2>2, <2>3, <2>4, Zenon DEF RegistrationInv
<1>6. CASE OnWriteAll \/ OnWritePart
  <2>1. /\ Take("onWrite") /\ conn = "Connected" /\ conn' = conn
        /\ UNCHANGED << outCb, peer, closed >>
        /\ writeDone' = FALSE /\ readDone' = (readDone \/ writeDone)
    BY <1>6 DEF OnWriteAll, OnWritePart, AwaitAnswer, netVars
  <2>2. /\ outCb = "onWrite" /\ peer = "accepted" /\ (listed => known)
        /\ readDone => "in" \in mask /\ ("in" \in watched \/ (closed /\ Queued("onRead")))
    BY <2>1 DEF RegistrationInv
  <2>3. phase' \notin BeforeCall /\ (Queued("onRead") => Queued("onRead")')
    BY <1>1, <1>2, <2>1
  <2>4. CASE mask' = mask /\ UNCHANGED epollVars /\ ~writeDone
    BY <2>1, <2>2, <2>3, <2>4 DEF RegistrationInv, epollVars
  <2>5. CASE AddEpollEvent /\ (readDone \/ writeDone => "in" \in mask')
    <3>1. watched' = mask' /\ known'
      BY <2>2, <2>5 DEF AddEpollEvent
    <3> QED
      BY <2>1, <2>2, <2>3, <2>5, <3>1 DEF RegistrationInv
  <2>6. CASE OnWriteAll
    BY <2>2, <2>5, <2>6 DEF OnWriteAll, MaskWritten, Listens
  <2>7. CASE OnWritePart
    BY <2>2, <2>4, <2>5, <2>7 DEF OnWritePart, Listens
  <2> QED
    BY <1>6, <2>6, <2>7
<1>7. CASE OnReadAnswer \/ OnReadNothing
  <2>1. /\ Take("onRead") /\ conn = "Connected" /\ conn' = conn
        /\ UNCHANGED << mask, outCb, listed, known, watched, peer, closed, writeDone >>
    BY <1>7 DEF OnReadAnswer, OnReadNothing, fdVars, epollVars, doneVars
  <2>2. readDone' => readDone /\ ~closed
    BY <1>7 DEF OnReadAnswer, OnReadNothing, doneVars
  <2>3. phase' \notin BeforeCall /\ (Queued("onWrite") => Queued("onWrite")')
    BY <1>1, <1>2, <2>1
  <2> QED
    BY <2>1, <2>2, <2>3 DEF RegistrationInv
<1>8. CASE OnReadClose \/ OnClosed
  <2>1. phase' = phase /\ phase \notin BeforeCall
    BY <1>2, <1>8 DEF OnReadClose, OnClosed
  <2>2. conn' # "Connected"
    BY <1>8 DEF OnReadClose, OnClosed, Clear
  <2> QED
    BY <2>1, <2>2 DEF RegistrationInv
<1> QED
  BY <1>3, <1>4, <1>5, <1>6, <1>7, <1>8 DEF RunHandler

\* In whatever order a batch runs its handlers and whatever it costs the fd: an open
\* connection that awaits its answer, or has its request still to write, is registered
\* for it or has the handler queued.
THEOREM RpcRegistrationKept ==
  ASSUME StaleFds = {FALSE}
  PROVE  SafeSpec => []RegistrationKept
<1>1. Init => RegistrationInv
  BY DEF Init, RegistrationInv
<1>2. TypeOK /\ CallInv /\ RegistrationInv /\ [Next]_vars => RegistrationInv'
  <2> SUFFICES ASSUME TypeOK, CallInv, RegistrationInv, [Next]_vars PROVE RegistrationInv'
    OBVIOUS
  <2>1. CASE EpollWait
    BY <2>1, RoundRegisters DEF EpollWait
  <2>2. CASE ConnectResolves \/ ServerAnswers \/ PeerCloses \/ LoopExits \/ UNCHANGED vars
    <3>1. /\ UNCHANGED << phase, conn, mask, outCb, listed, known, watched, writeDone, readDone,
                          queue >>
          /\ closed => closed'
          /\ peer = "accepted" => peer' = "accepted"
      BY <2>2 DEF ConnectResolves, ServerAnswers, PeerCloses, LoopExits, vars, netVars, fdVars,
                  epollVars, doneVars
    <3>2. \A h : Queued(h)' <=> Queued(h)
      BY <3>1 DEF Queued
    <3> QED
      BY <3>1, <3>2 DEF RegistrationInv
  <2>3. CASE NewChannel \/ InitChannel
    <3>1. /\ phase \in BeforeCall
          /\ UNCHANGED << conn, mask, outCb, listed, known, watched, writeDone, readDone, queue,
                          closed, peer >>
      BY <2>3, ChannelSteps
    <3>2. conn = "NotConnected" /\ ~listed
      BY <3>1 DEF RegistrationInv
    <3> QED
      BY <3>1, <3>2 DEF RegistrationInv
  <2> QED
    BY <2>1, <2>2, <2>3, CallRegisters, HandlerRegisters DEF Next
<1>3. RegistrationInv => RegistrationKept
  BY DEF RegistrationInv, RegistrationKept
<1> QED
  BY <1>1, <1>2, <1>3, RpcTypeCorrect, CallInvariant, PTL DEF SafeSpec
==============================================================================
