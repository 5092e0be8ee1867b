--------------------------- MODULE EventLoopProofs ---------------------------
(***************************************************************************)
(* Proofs about EventLoop, for any number of threads, descriptors and      *)
(* queued tasks: the type invariant, that every handler has run when the   *)
(* loop blocks, that a blocked loop is woken, and that the two queues      *)
(* implement TaskMailbox (its safety part; TLC checks its liveness).       *)
(***************************************************************************)
EXTENDS EventLoop, SequenceTheorems, FiniteSetTheorems, TLAPS

\* The tasks that threads queue and those that the loop queues are tasks, and no
\* task of the first kind is a handler.
LEMMA TaskKinds ==
  /\ \A f \in Fds : AddFd(f) \in Posts /\ DelFd(f) \in Posts
  /\ \A t \in Threads : UserCb(t) \in Posts
  /\ \A f \in Fds \cup {WakeFd}, e \in Triggers : Handler(f, e) \in Handlers
  /\ \A x \in Posts : x \in Task /\ x \notin Handlers
  /\ \A x \in Handlers : x \in Task
  /\ \A x \in Task : x # NoTask
BY NoTaskAssumption DEF AddFd, DelFd, UserCb, Handler, Posts, Handlers, Task, Triggers

\* epoll_ctl and m_listen_fds stay within the descriptors.
LEMMA EpollTypes ==
  ASSUME listenFds \subseteq Fds, kernel \subseteq Fds, NEW f,
         (f \in Fds /\ ADD_TO_EPOLL(f)) \/ DELETE_FROM_EPOLL(f)
  PROVE  listenFds' \subseteq Fds /\ kernel' \subseteq Fds
BY DEF ADD_TO_EPOLL, DELETE_FROM_EPOLL

\* A callback leaves the types alone.
LEMMA RunTaskType ==
  ASSUME TypeOK, RunTask
  PROVE  TypeOK'
<1>1. ReturnFromCallback
  BY DEF RunTask, RunAdd, RunDelete, DrainWakeup, RunNoCall, RunCallsAdd,
         RunCallsDelete, RunCallsStop, RunClosesFd
<1>2. cb \in Task
  BY <1>1 DEF TypeOK, ReturnFromCallback
<1>3. stopFlag' \in BOOLEAN /\ signalled' \in BOOLEAN
  BY DEF TypeOK, fdVars, RunTask, RunAdd, RunDelete, DrainWakeup, RunNoCall, RunCallsAdd,
         RunCallsDelete, RunCallsStop, RunClosesFd
<1>4. ready' \in [Fds -> SUBSET Triggers]
  <2>1. ASSUME Consume, AppCallback PROVE ready' \in [Fds -> SUBSET Triggers]
    BY <2>1 DEF Consume, AppCallback, TypeOK
  <2>2. CASE RunClosesFd
    BY <2>2 DEF RunClosesFd, TypeOK
  <2>. QED
    BY <2>1, <2>2 DEF TypeOK, fdVars, RunTask, RunAdd, RunDelete, DrainWakeup, RunNoCall,
                      RunCallsAdd, RunCallsDelete, RunCallsStop
<1>5. listenFds' \subseteq Fds /\ kernel' \subseteq Fds
  <2>1. CASE RunAdd
    <3>1. cb.of \in Fds
      BY <1>2, <2>1 DEF RunAdd, Task, Posts, Handlers, Triggers
    <3>. QED
      BY <2>1, <3>1, EpollTypes DEF RunAdd, TypeOK
  <2>2. CASE RunDelete
    BY <2>2, EpollTypes DEF RunDelete, TypeOK
  <2>3. CASE RunCallsAdd \/ RunCallsDelete
    BY <2>3, EpollTypes DEF RunCallsAdd, RunCallsDelete, TypeOK
  <2>. QED
    BY <2>1, <2>2, <2>3 DEF TypeOK, fdVars, RunTask, DrainWakeup, RunNoCall,
                            RunCallsStop, RunClosesFd
<1>. QED
  BY <1>1, <1>3, <1>4, <1>5 DEF ReturnFromCallback, threadVars, TypeOK

\* What epoll_wait reports is a sequence of typed events.
LEMMA ReportTypes ==
  ASSUME TypeOK, EpollReturn
  PROVE  events' \in Seq(EpollEvents)
<1>1. ReadyFds \subseteq Fds \cup {WakeFd}
  BY DEF ReadyFds, TypeOK
<1>2. \A f \in ReadyFds : Conditions(f) \in SUBSET Triggers
  BY <1>1 DEF Conditions, TypeOK, Triggers
<1>. DEFINE n == IF Cardinality(ReadyFds) < MaxEvent THEN Cardinality(ReadyFds) ELSE MaxEvent
<1>3. PICK s \in [1..n -> ReadyFds] :
        events' = [i \in DOMAIN s |-> [fd |-> s[i], evs |-> Conditions(s[i])]]
  BY DEF EpollReturn, Reports
<1>4. n \in Nat
  <2>1. IsFiniteSet(Fds \cup {WakeFd})
    BY FdAssumption, FS_AddElement
  <2>2. IsFiniteSet(ReadyFds)
    BY <1>1, <2>1, FS_Subset
  <2>. QED
    BY <2>2, FS_CardinalityType, MaxEventAssumption
<1>5. DOMAIN s = 1..n /\ \A i \in 1..n : [fd |-> s[i], evs |-> Conditions(s[i])] \in EpollEvents
  BY <1>1, <1>2, <1>3 DEF EpollEvents
<1>6. events' \in [1..n -> EpollEvents]
  BY <1>3, <1>5
<1>. QED
  BY <1>4, <1>6, SeqDef

\* The type invariant: what TypeOK states of the variables of EventLoop holds in
\* every reachable state, whatever the threads do.
THEOREM TypeCorrect == SafeSpec => []TypeOK
<1>1. Init => TypeOK
  <2>1. <<>> \in Seq(Task) /\ <<>> \in Seq(EpollEvents)
    BY EmptySeq
  <2>. SUFFICES ASSUME Init PROVE TypeOK
    OBVIOUS
  <2>2. cb \in Task \cup {NoTask} /\ (cb = NoTask <=> pc # "call")
    BY DEF Init
  <2>3. stopFlag \in BOOLEAN /\ signalled \in BOOLEAN
    BY DEF Init
  <2>4. /\ ready \in [Fds -> SUBSET Triggers]
        /\ tpc \in [Threads -> {"idle", "wake"}]
        /\ posts \in [Threads -> Nat]
    BY DEF Init
  <2>. QED
    BY <2>1, <2>2, <2>3, <2>4 DEF Init, TypeOK
<1>2. TypeOK /\ [Next]_vars => TypeOK'
  <2>. SUFFICES ASSUME TypeOK, [Next]_vars PROVE TypeOK'
    OBVIOUS
  <2>. USE TaskKinds DEF TypeOK
  <2>1. ASSUME NEW t \in Threads, PostTask(t) PROVE TypeOK'
    <3>1. PICK x \in Posts : pending' = Append(pending, x)
      BY <2>1 DEF PostTask
    <3>2. pending' \in Seq(Task)
      BY <3>1, AppendProperties
    <3>. QED
      BY <2>1, <3>2 DEF PostTask, loopVars, fdVars
  <2>2. ASSUME NEW t \in Threads, CallStop(t) PROVE TypeOK'
    BY <2>2 DEF CallStop, loopVars, fdVars
  <2>3. ASSUME NEW t \in Threads, WakeUp(t) PROVE TypeOK'
    BY <2>3 DEF WakeUp, loopVars, fdVars
  <2>4. ASSUME NEW f \in Fds, NEW e \in Triggers, Arrive(f, e) PROVE TypeOK'
    BY <2>4 DEF Arrive, loopVars, threadVars
  <2>5. CASE EnterLoop \/ CheckStop \/ BeginWait \/ EpollTimeout \/ EpollError \/ EndDispatch
    BY <2>5 DEF EnterLoop, CheckStop, BeginWait, EpollTimeout, EpollError, EndDispatch,
                fdVars, threadVars
  <2>6. CASE SwapTasks
    BY <2>6, EmptySeq DEF SwapTasks, fdVars, threadVars
  <2>7. CASE TakeTask
    <3>1. Head(batch) \in Task /\ Tail(batch) \in Seq(Task)
      BY <2>7, HeadTailProperties DEF TakeTask
    <3>. QED
      BY <2>7, <3>1 DEF TakeTask, fdVars, threadVars
  <2>8. CASE RunTask
    BY <2>8, RunTaskType
  <2>9. CASE EpollReturn
    BY <2>9, ReportTypes DEF EpollReturn, fdVars, threadVars
  <2>10. CASE QueueIn \/ QueueOut
    <3>. DEFINE ev == Head(events)
    <3>1. ev \in EpollEvents /\ ev = events[1] /\ 1 \in 1..Len(events)
      BY <2>10, HeadTailProperties DEF QueueIn, QueueOut
    <3>2. PICK e \in Triggers : /\ pending' = Append(pending, Handler(ev.fd, e))
                                /\ events' = [events EXCEPT ![1].evs = @ \ {e}]
      BY <2>10 DEF QueueIn, QueueOut, Triggers
    <3>3. pending' \in Seq(Task)
      BY <3>1, <3>2, AppendProperties DEF EpollEvents
    <3>4. [ev EXCEPT !.evs = @ \ {e}] \in EpollEvents
      BY <3>1 DEF EpollEvents
    <3>5. events' = [events EXCEPT ![1] = [ev EXCEPT !.evs = @ \ {e}]]
      BY <3>1, <3>2
    <3>6. events' \in Seq(EpollEvents)
      BY <3>1, <3>4, <3>5, ExceptSeq
    <3>. QED
      BY <2>10, <3>3, <3>6 DEF QueueIn, QueueOut, fdVars, threadVars
  <2>11. CASE QueueErr \/ NextEvent
    <3>1. events # <<>> /\ events' = Tail(events)
      BY <2>11 DEF QueueErr, NextEvent
    <3>2. Head(events) \in EpollEvents /\ events' \in Seq(EpollEvents)
      BY <3>1, HeadTailProperties
    <3>3. Head(events).fd \in Fds \cup {WakeFd}
      BY <3>2 DEF EpollEvents
    <3>4. Handler(Head(events).fd, "err") \in Task
      BY <3>3 DEF Triggers
    <3>5. pending' = pending \/ pending' = Append(pending, Handler(Head(events).fd, "err"))
      BY <2>11 DEF QueueErr, NextEvent
    <3>6. pending' \in Seq(Task)
      <4>1. pending \in Seq(Task)
        OBVIOUS
      <4>. HIDE DEF TypeOK
      <4>. QED
        BY <3>4, <3>5, <4>1, AppendProperties
    <3>7. listenFds' \subseteq Fds /\ kernel' \subseteq Fds
      BY <2>11, EpollTypes DEF QueueErr, NextEvent, fdVars
    <3>. QED
      BY <2>11, <3>2, <3>6, <3>7 DEF QueueErr, NextEvent, fdVars, threadVars
  <2>12. CASE UNCHANGED vars
    BY <2>12 DEF vars
  <2>. QED
    BY <2>1, <2>2, <2>3, <2>4, <2>5, <2>6, <2>7, <2>8, <2>9, <2>10, <2>11, <2>12
       DEF Next, LoopStep, ThreadStep
<1>. QED
  BY <1>1, <1>2, PTL DEF SafeSpec

-----------------------------------------------------------------------------

LEMMA HandlerFreeFacts ==
  /\ HandlerFree(<<>>)
  /\ \A s \in Seq(Task), x \in Posts : HandlerFree(s) => HandlerFree(Append(s, x))
<1>1. HandlerFree(<<>>)
  BY DEF HandlerFree, ToSet
<1>2. ASSUME NEW s \in Seq(Task), NEW x \in Posts, HandlerFree(s)
      PROVE  HandlerFree(Append(s, x))
  <2>1. x \in Task /\ x \notin Handlers
    BY TaskKinds
  <2>2. \A i \in 1..Len(s) + 1 : Append(s, x)[i] = s[i] \/ Append(s, x)[i] = x
    BY <2>1, AppendProperties
  <2>3. DOMAIN Append(s, x) = 1..Len(s) + 1 /\ DOMAIN s = 1..Len(s) /\ Len(s) \in Nat
    BY <2>1, AppendProperties, LenProperties
  <2>4. Append(s, x)[Len(s) + 1] = x /\ \A i \in 1..Len(s) : Append(s, x)[i] = s[i]
    BY <2>1, AppendProperties
  <2>. QED
    BY <1>2, <2>1, <2>3, <2>4 DEF HandlerFree, ToSet
<1>. QED
  BY <1>1, <1>2

\* The inductive invariant of the two queues.
LEMMA QueueCorrect == SafeSpec => []QueueInv
<1>1. Init => QueueInv
  BY HandlerFreeFacts DEF Init, QueueInv
<1>2. TypeOK /\ QueueInv /\ [Next]_vars => QueueInv'
  <2>. SUFFICES ASSUME TypeOK, QueueInv, [Next]_vars PROVE QueueInv'
    OBVIOUS
  <2>. USE DEF QueueInv
  <2>1. ASSUME NEW t \in Threads, PostTask(t) PROVE QueueInv'
    <3>1. PICK x \in Posts : pending' = Append(pending, x)
      BY <2>1, TaskKinds DEF PostTask
    <3>2. HandlerFree(pending) => HandlerFree(pending')
      BY <3>1, HandlerFreeFacts DEF TypeOK
    <3>. QED
      BY <2>1, <3>2 DEF PostTask, loopVars, HandlerFree
  <2>2. ASSUME NEW t \in Threads, CallStop(t) \/ WakeUp(t) PROVE QueueInv'
    BY <2>2 DEF CallStop, WakeUp, loopVars, HandlerFree
  <2>3. ASSUME NEW f \in Fds, NEW e \in Triggers, Arrive(f, e) PROVE QueueInv'
    BY <2>3 DEF Arrive, loopVars, HandlerFree
  <2>4. CASE EnterLoop \/ CheckStop \/ BeginWait \/ EpollTimeout \/ EpollError \/ EndDispatch
    BY <2>4 DEF EnterLoop, CheckStop, BeginWait, EpollTimeout, EpollError, EndDispatch,
                HandlerFree
  <2>5. CASE SwapTasks
    BY <2>5, HandlerFreeFacts DEF SwapTasks, HandlerFree
  <2>6. CASE TakeTask
    BY <2>6 DEF TakeTask, HandlerFree
  <2>7. CASE RunTask
    <3>1. ReturnFromCallback
      BY <2>7 DEF RunTask, RunAdd, RunDelete, DrainWakeup, RunNoCall, RunCallsAdd,
                  RunCallsDelete, RunCallsStop, RunClosesFd
    <3>. QED
      BY <3>1 DEF ReturnFromCallback, HandlerFree
  <2>8. CASE EpollReturn \/ QueueIn \/ QueueOut \/ QueueErr \/ NextEvent
    BY <2>8 DEF EpollReturn, QueueIn, QueueOut, QueueErr, NextEvent, HandlerFree
  <2>9. CASE UNCHANGED vars
    BY <2>9 DEF vars, HandlerFree
  <2>. QED
    BY <2>1, <2>2, <2>3, <2>4, <2>5, <2>6, <2>7, <2>8, <2>9
       DEF Next, LoopStep, ThreadStep
<1>. QED
  BY <1>1, <1>2, TypeCorrect, PTL DEF SafeSpec

\* When the loop blocks in epoll_wait no handler of an earlier report is still
\* queued, so no level-triggered event is dispatched twice.
THEOREM HandlersRun == SafeSpec => []HandlersRunBeforeWait
<1>1. TypeOK /\ QueueInv => HandlersRunBeforeWait
  <2>. SUFFICES ASSUME TypeOK, QueueInv, pc = "wait" PROVE HandlerFree(batch \o pending)
    BY DEF HandlersRunBeforeWait
  <2>1. batch = <<>> /\ HandlerFree(pending) /\ pending \in Seq(Task)
    BY DEF QueueInv, TypeOK
  <2>2. batch \o pending = pending
    BY <2>1, ConcatEmptySeq
  <2>. QED
    BY <2>1, <2>2
<1>. QED
  BY <1>1, TypeCorrect, QueueCorrect, PTL

-----------------------------------------------------------------------------

\* A loop blocked in epoll_wait does not become stranded: the state change of
\* addTask and stop is followed, not preceded, by the write to the eventfd, and
\* nothing empties the eventfd while the loop is blocked.
THEOREM BlockedLoopWoken == SafeSpec => BlockedLoopIsWoken
<1>1. TypeOK /\ [Next]_vars => (pc = "wait" /\ pc' = "wait" /\ Stranded' => Stranded)
  <2>. SUFFICES ASSUME TypeOK, [Next]_vars, pc = "wait", pc' = "wait", Stranded' PROVE Stranded
    OBVIOUS
  <2>1. ASSUME NEW t \in Threads, PostTask(t) \/ CallStop(t) PROVE Stranded
    <3>1. tpc'[t] = "wake"
      BY <2>1 DEF PostTask, CallStop, TypeOK
    <3>. QED
      BY <3>1 DEF Stranded
  <2>2. ASSUME NEW t \in Threads, WakeUp(t) PROVE Stranded
    BY <2>2 DEF WakeUp, Stranded
  <2>3. ASSUME NEW f \in Fds, NEW e \in Triggers, Arrive(f, e) PROVE Stranded
    BY <2>3 DEF Arrive, threadVars, Stranded
  <2>4. CASE LoopStep \/ EpollError
    <3>1. ~RunTask
      BY DEF RunTask, RunAdd, RunDelete, DrainWakeup, RunNoCall, RunCallsAdd,
             RunCallsDelete, RunCallsStop, RunClosesFd, ReturnFromCallback
    <3>. QED
      BY <2>4, <3>1 DEF LoopStep, EpollError, EnterLoop, CheckStop, SwapTasks, TakeTask,
                        BeginWait, EpollReturn, EpollTimeout, QueueIn, QueueOut, QueueErr,
                        NextEvent, EndDispatch
  <2>5. CASE UNCHANGED vars
    BY <2>5 DEF vars, Stranded
  <2>. QED
    BY <2>1, <2>2, <2>3, <2>4, <2>5 DEF Next, ThreadStep
<1>. QED
  BY <1>1, TypeCorrect, PTL DEF SafeSpec, BlockedLoopIsWoken

-----------------------------------------------------------------------------

\* The kernel never watches a descriptor that DELETE_FROM_EPOLL would not find in
\* m_listen_fds, although applications close descriptors behind the loop's back.
THEOREM WatchedListed == SafeSpec => []WatchedIsListed
<1>1. Init => WatchedIsListed
  BY DEF Init, WatchedIsListed
<1>2. WatchedIsListed /\ [Next]_vars => WatchedIsListed'
  <2>. SUFFICES ASSUME WatchedIsListed, [Next]_vars PROVE WatchedIsListed'
    OBVIOUS
  <2>. USE DEF WatchedIsListed, fdVars
  <2>1. ASSUME NEW f, ADD_TO_EPOLL(f) \/ DELETE_FROM_EPOLL(f) PROVE WatchedIsListed'
    BY <2>1 DEF ADD_TO_EPOLL, DELETE_FROM_EPOLL
  <2>2. ASSUME NEW t \in Threads, ThreadStep(t) PROVE WatchedIsListed'
    BY <2>2 DEF ThreadStep, PostTask, CallStop, WakeUp
  <2>3. ASSUME NEW f \in Fds, NEW e \in Triggers, Arrive(f, e) PROVE WatchedIsListed'
    BY <2>3 DEF Arrive
  <2>4. CASE RunTask
    <3>1. CASE RunAdd \/ RunDelete \/ RunCallsAdd \/ RunCallsDelete
      BY <2>1, <3>1 DEF RunAdd, RunDelete, RunCallsAdd, RunCallsDelete
    <3>2. CASE DrainWakeup \/ RunNoCall \/ RunCallsStop \/ RunClosesFd
      BY <3>2 DEF DrainWakeup, RunNoCall, RunCallsStop, RunClosesFd
    <3>. QED
      BY <2>4, <3>1, <3>2 DEF RunTask
  <2>5. CASE QueueErr
    BY <2>1, <2>5 DEF QueueErr
  <2>6. CASE \/ EnterLoop \/ CheckStop \/ SwapTasks \/ TakeTask \/ BeginWait
             \/ EpollReturn \/ EpollTimeout \/ EpollError
             \/ QueueIn \/ QueueOut \/ NextEvent \/ EndDispatch
    BY <2>6 DEF EnterLoop, CheckStop, SwapTasks, TakeTask, BeginWait, EpollReturn,
                EpollTimeout, EpollError, QueueIn, QueueOut, NextEvent, EndDispatch
  <2>7. CASE UNCHANGED vars
    BY <2>7 DEF vars
  <2>. QED
    BY <2>2, <2>3, <2>4, <2>5, <2>6, <2>7 DEF Next, LoopStep
<1>. QED
  BY <1>1, <1>2, PTL DEF SafeSpec

-----------------------------------------------------------------------------

\* Adding at the end of the second of two queues, and taking from the front of the
\* first, are the same operations on their concatenation.
LEMMA ConcatAppend ==
  ASSUME NEW S, NEW s \in Seq(S), NEW t \in Seq(S), NEW x \in S
  PROVE  s \o Append(t, x) = Append(s \o t, x)
<1>1. Append(t, x) = t \o <<x>> /\ <<x>> \in Seq(S)
  BY AppendIsConcat
<1>2. s \o t \in Seq(S) /\ Append(s \o t, x) = (s \o t) \o <<x>>
  BY ConcatProperties, AppendIsConcat
<1>. QED
  BY <1>1, <1>2, ConcatAssociative

LEMMA ConcatHeadTail ==
  ASSUME NEW S, NEW s \in Seq(S), NEW t \in Seq(S), s # <<>>
  PROVE  /\ s \o t # <<>>
         /\ Head(s \o t) = Head(s)
         /\ Tail(s \o t) = Tail(s) \o t
<1>1. /\ s \o t \in Seq(S)
      /\ Len(s \o t) = Len(s) + Len(t)
      /\ \A i \in 1..Len(s) + Len(t) :
            (s \o t)[i] = IF i <= Len(s) THEN s[i] ELSE t[i - Len(s)]
  BY ConcatProperties
<1>2. Len(s) \in Nat \ {0} /\ Len(t) \in Nat
  BY EmptySeq, LenProperties
<1>3. s \o t # <<>>
  BY <1>1, <1>2, EmptySeq
<1>4. Head(s \o t) = Head(s)
  BY <1>1, <1>2
<1>5. Tail(s \o t) = Tail(s) \o t
  <2>1. /\ Tail(s \o t) \in Seq(S) /\ Len(Tail(s \o t)) = Len(s) + Len(t) - 1
        /\ \A i \in 1..Len(Tail(s \o t)) : Tail(s \o t)[i] = (s \o t)[i + 1]
    BY <1>1, <1>3, HeadTailProperties
  <2>2. /\ Tail(s) \in Seq(S) /\ Len(Tail(s)) = Len(s) - 1
        /\ \A i \in 1..Len(Tail(s)) : Tail(s)[i] = s[i + 1]
    BY HeadTailProperties
  <2>3. /\ Tail(s) \o t \in Seq(S) /\ Len(Tail(s) \o t) = Len(s) - 1 + Len(t)
        /\ \A i \in 1..Len(s) - 1 + Len(t) :
              (Tail(s) \o t)[i] = IF i <= Len(s) - 1 THEN Tail(s)[i] ELSE t[i - (Len(s) - 1)]
    BY <2>2, ConcatProperties
  <2>4. ASSUME NEW i \in 1..Len(s) - 1 + Len(t) PROVE Tail(s \o t)[i] = (Tail(s) \o t)[i]
    <3>1. i + 1 \in 1..Len(s) + Len(t) /\ i \in 1..Len(Tail(s \o t))
      BY <1>2, <2>1
    <3>2. CASE i <= Len(s) - 1
      BY <1>1, <1>2, <2>1, <2>2, <2>3, <3>1, <3>2
    <3>3. CASE i > Len(s) - 1
      BY <1>1, <1>2, <2>1, <2>3, <3>1, <3>3
    <3>. QED
      BY <1>2, <3>2, <3>3
  <2>. QED
    BY <1>2, <2>1, <2>3, <2>4, SeqEqual
<1>. QED
  BY <1>3, <1>4, <1>5

\* m_pending_tasks, tmp_tasks and the swap between them implement one queue from
\* which loop() takes the tasks one at a time, in the order of the addTask calls.
\* This is the safety part of ImplementsMailbox.
THEOREM MailboxSafety == SafeSpec => MB!MSafeSpec
<1>1. Init => MB!MInit
  <2>1. <<>> \o <<>> = <<>>
    BY EmptySeq, ConcatEmptySeq
  <2>. QED
    BY <2>1 DEF Init, MB!MInit
<1>2. TypeOK /\ QueueInv /\ [Next]_vars => [MB!MNext]_(MB!mvars)
  <2>. SUFFICES ASSUME TypeOK, QueueInv, [Next]_vars
                PROVE  MB!MNext \/ UNCHANGED MB!mvars
    OBVIOUS
  <2>1. pending \in Seq(Task) /\ batch \in Seq(Task) /\ events \in Seq(EpollEvents)
    BY DEF TypeOK
  <2>2. ASSUME NEW x \in Task, pending' = Append(pending, x), batch' = batch, cb' = cb, pc' = pc
        PROVE  MB!MNext
    <3>1. (batch \o pending)' = Append(batch \o pending, x)
      BY <2>1, <2>2, ConcatAppend
    <3>. QED
      BY <2>2, <3>1 DEF MB!MNext, MB!Add
  <2>3. ASSUME UNCHANGED <<pending, batch, cb>>, pc # "exit", pc' # "exit"
        PROVE  UNCHANGED MB!mvars
    BY <2>3 DEF MB!mvars
  <2>4. ASSUME NEW t \in Threads, PostTask(t) PROVE MB!MNext
    <3>1. PICK x \in Task : pending' = Append(pending, x)
      BY <2>4, TaskKinds DEF PostTask
    <3>. QED
      BY <2>2, <2>4, <3>1 DEF PostTask, loopVars
  <2>5. ASSUME NEW t \in Threads, CallStop(t) \/ WakeUp(t) PROVE UNCHANGED MB!mvars
    BY <2>5 DEF CallStop, WakeUp, loopVars, MB!mvars
  <2>6. ASSUME NEW f \in Fds, NEW e \in Triggers, Arrive(f, e) PROVE UNCHANGED MB!mvars
    BY <2>6 DEF Arrive, loopVars, MB!mvars
  <2>7. CASE EnterLoop \/ BeginWait \/ EpollReturn \/ EpollTimeout \/ EpollError
             \/ NextEvent \/ EndDispatch
    BY <2>3, <2>7 DEF EnterLoop, BeginWait, EpollReturn, EpollTimeout, EpollError,
                      NextEvent, EndDispatch
  <2>8. CASE CheckStop
    <3>1. CASE stopFlag
      <4>1. cb = NoTask
        BY <2>8 DEF CheckStop, TypeOK
      <4>. QED
        BY <2>8, <3>1, <4>1 DEF CheckStop, MB!MNext, MB!Close
    <3>2. CASE ~stopFlag
      BY <2>3, <2>8, <3>2 DEF CheckStop
    <3>. QED
      BY <3>1, <3>2
  <2>9. CASE SwapTasks
    <3>1. batch = <<>>
      BY <2>9 DEF SwapTasks, QueueInv
    <3>2. batch \o pending = pending /\ pending \o <<>> = pending
      BY <2>1, <3>1, ConcatEmptySeq
    <3>. QED
      BY <2>9, <3>2 DEF SwapTasks, MB!mvars
  <2>10. CASE TakeTask
    <3>1. /\ batch \o pending # <<>>
          /\ Head(batch \o pending) = Head(batch)
          /\ Tail(batch \o pending) = Tail(batch) \o pending
      BY <2>1, <2>10, ConcatHeadTail DEF TakeTask
    <3>2. cb = NoTask
      BY <2>10 DEF TakeTask, TypeOK
    <3>. QED
      BY <2>10, <3>1, <3>2 DEF TakeTask, MB!MNext, MB!Take
  <2>11. CASE RunTask
    <3>1. ReturnFromCallback
      BY <2>11 DEF RunTask, RunAdd, RunDelete, DrainWakeup, RunNoCall, RunCallsAdd,
                   RunCallsDelete, RunCallsStop, RunClosesFd
    <3>. QED
      BY <3>1 DEF ReturnFromCallback, TypeOK, MB!MNext, MB!Return
  <2>12. CASE QueueIn \/ QueueOut
    <3>1. Head(events).fd \in Fds \cup {WakeFd}
      <4>1. events # <<>>
        BY <2>12 DEF QueueIn, QueueOut
      <4>2. Head(events) \in EpollEvents
        BY <2>1, <4>1, HeadTailProperties
      <4>. QED
        BY <4>2 DEF EpollEvents
    <3>2. PICK e \in Triggers : pending' = Append(pending, Handler(Head(events).fd, e))
      BY <2>12 DEF QueueIn, QueueOut, Triggers
    <3>3. Handler(Head(events).fd, e) \in Task
      BY <3>1, <3>2, TaskKinds
    <3>. QED
      BY <2>2, <2>12, <3>2, <3>3 DEF QueueIn, QueueOut
  <2>13. CASE QueueErr
    <3>1. Head(events).fd \in Fds \cup {WakeFd}
      <4>1. events # <<>>
        BY <2>13 DEF QueueErr
      <4>2. Head(events) \in EpollEvents
        BY <2>1, <4>1, HeadTailProperties
      <4>. QED
        BY <4>2 DEF EpollEvents
    <3>2. Handler(Head(events).fd, "err") \in Task
      BY <3>1, TaskKinds DEF Triggers
    <3>. QED
      BY <2>2, <2>3, <2>13, <3>2 DEF QueueErr
  <2>14. CASE UNCHANGED vars
    BY <2>14 DEF vars, MB!mvars
  <2>. QED
    BY <2>4, <2>5, <2>6, <2>7, <2>8, <2>9, <2>10, <2>11, <2>12, <2>13, <2>14
       DEF Next, LoopStep, ThreadStep
<1>. QED
  BY <1>1, <1>2, TypeCorrect, QueueCorrect, PTL DEF SafeSpec, MB!MSafeSpec
=============================================================================
