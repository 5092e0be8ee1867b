------------------------------ MODULE EventLoop ------------------------------
(***************************************************************************)
(* The reactor, net/eventLoop.cpp: one thread that runs queued tasks and   *)
(* blocks in epoll_wait, other threads that queue tasks for it and wake it *)
(* through an eventfd, and callbacks that change the set of watched        *)
(* descriptors from inside the loop.                                       *)
(*                                                                         *)
(* Accesses to m_pending_tasks are atomic here: each is one short critical *)
(* section under m_mutex.  That the lock itself is given back twice, and   *)
(* what follows from it, is the subject of ScopeMutex.tla.                 *)
(***************************************************************************)
EXTENDS Integers, FiniteSets, Sequences, SequencesExt

CONSTANTS
  Threads,   \* the threads other than the loop's that hold a pointer to it
  Fds,       \* the descriptors that may be registered with the loop
  WakeFd,    \* m_wakeup_fd, registered by the constructor
  NoTask,    \* no callback is running
  MaxEvent,  \* g_epoll_max_event
  MaxPost    \* bound: tasks queued by each thread

\* A process has finitely many descriptors; the wake-up descriptor is the loop's own.
ASSUME FdAssumption == IsFiniteSet(Fds) /\ WakeFd \notin Fds
ASSUME MaxEventAssumption == MaxEvent \in Nat \ {0}

Triggers == {"in", "out", "err"}     \* FdEvent::TriggerEvent, with EPOLLERR

\* The callbacks that go through m_pending_tasks: the handlers that the loop
\* queues for a reported descriptor, and what other threads queue: the lambdas of
\* addEpollEvent and deleteEpollEvent, and callbacks of their own.
Handler(f, e) == [kind |-> e, of |-> f]
AddFd(f) == [kind |-> "add", of |-> f]
DelFd(f) == [kind |-> "del", of |-> f]
UserCb(t) == [kind |-> "user", of |-> t]

Handlers == [kind : Triggers, of : Fds \cup {WakeFd}]
Posts == [kind : {"add", "del"}, of : Fds] \cup [kind : {"user"}, of : Threads]
Task == Handlers \cup Posts

\* One element of result_events: a descriptor and what was reported of it.
EpollEvents == [fd : Fds \cup {WakeFd}, evs : SUBSET Triggers]

ASSUME NoTaskAssumption == NoTask \notin Task

VARIABLES
  pc,        \* where the loop thread is
  pending,   \* m_pending_tasks
  batch,     \* tmp_tasks, local to loop()
  cb,        \* the callback being run
  stopFlag,  \* m_stop_flag
  signalled, \* the eventfd's counter is not zero
  events,    \* what is left of result_events
  listenFds, \* m_listen_fds, without the wake-up descriptor
  kernel,    \* the interest list of m_epoll_fd, without the wake-up descriptor
  ready,     \* the registered conditions that hold on each descriptor
  tpc,       \* per thread: "idle", or "wake" between a change and its wakeup()
  posts      \* per thread: how many tasks it has queued

loopVars == <<pc, batch, cb, events>>
fdVars == <<listenFds, kernel, ready>>
threadVars == <<tpc, posts>>
vars == <<pc, pending, batch, cb, stopFlag, signalled, events,
          listenFds, kernel, ready, tpc, posts>>

Init ==
  /\ pc = "start"
  /\ pending = <<>> /\ batch = <<>> /\ events = <<>>
  /\ cb = NoTask
  /\ stopFlag = FALSE /\ signalled = FALSE
  /\ listenFds = {} /\ kernel = {}
  /\ ready = [f \in Fds |-> {}]
  /\ tpc = [t \in Threads |-> "idle"]
  /\ posts = [t \in Threads |-> 0]

-----------------------------------------------------------------------------
(* epoll_ctl *)

\* EPOLL_CTL_ADD for a descriptor that is not in m_listen_fds, EPOLL_CTL_MOD for
\* one that is.  MOD does not register: on a descriptor the kernel does not know
\* it fails with ENOENT, and the failure is only logged.
ADD_TO_EPOLL(f) ==
  /\ kernel' = IF f \in listenFds THEN kernel ELSE kernel \cup {f}
  /\ listenFds' = listenFds \cup {f}

\* Defect: the descriptor is forgotten without EPOLL_CTL_DEL.
DeleteKeepsWatching(f) ==
  /\ kernel' = kernel
  /\ listenFds' = listenFds \ {f}

\* Returns early for a descriptor that is not in m_listen_fds.
DELETE_FROM_EPOLL(f) ==
  /\ kernel' = IF f \in listenFds THEN kernel \ {f} ELSE kernel
  /\ listenFds' = listenFds \ {f}

-----------------------------------------------------------------------------
(* The other threads *)

\* Defect: addTask(cb) instead of addTask(cb, true).
PostTaskNoWake(t) ==
  /\ tpc[t] = "idle" /\ posts[t] < MaxPost
  /\ \E x \in {UserCb(t)} \cup {AddFd(f) : f \in Fds} \cup {DelFd(f) : f \in Fds} :
       pending' = Append(pending, x)
  /\ posts' = [posts EXCEPT ![t] = @ + 1]
  /\ UNCHANGED <<loopVars, fdVars, stopFlag, signalled, tpc>>

\* addTask(cb, true): push under the lock; wakeup() comes after the unlock.
\* addEpollEvent and deleteEpollEvent are this, called outside the loop's thread.
PostTask(t) ==
  /\ tpc[t] = "idle" /\ posts[t] < MaxPost
  /\ \E x \in {UserCb(t)} \cup {AddFd(f) : f \in Fds} \cup {DelFd(f) : f \in Fds} :
       pending' = Append(pending, x)
  /\ posts' = [posts EXCEPT ![t] = @ + 1]
  /\ tpc' = [tpc EXCEPT ![t] = "wake"]
  /\ UNCHANGED <<loopVars, fdVars, stopFlag, signalled>>

\* stop(): the flag first, wakeup() next.
CallStop(t) ==
  /\ tpc[t] = "idle" /\ ~stopFlag
  /\ stopFlag' = TRUE
  /\ tpc' = [tpc EXCEPT ![t] = "wake"]
  /\ UNCHANGED <<loopVars, fdVars, pending, signalled, posts>>

\* wakeup(): write(2) of 8 bytes to the eventfd.
WakeUp(t) ==
  /\ tpc[t] = "wake"
  /\ signalled' = TRUE
  /\ tpc' = [tpc EXCEPT ![t] = "idle"]
  /\ UNCHANGED <<loopVars, fdVars, pending, stopFlag, posts>>

\* The peer or the network makes a condition true on a descriptor.
Arrive(f, e) ==
  /\ e \notin ready[f]
  /\ ready' = [ready EXCEPT ![f] = @ \cup {e}]
  /\ UNCHANGED <<loopVars, threadVars, pending, stopFlag, signalled, listenFds, kernel>>

-----------------------------------------------------------------------------
(* loop(): the tasks *)

EnterLoop ==
  /\ pc = "start"
  /\ pc' = "check"
  /\ UNCHANGED <<batch, cb, events, fdVars, threadVars, pending, stopFlag, signalled>>

\* Defect: while (true).
CheckStopNever ==
  /\ pc = "check"
  /\ pc' = "swap"
  /\ UNCHANGED <<batch, cb, events, fdVars, threadVars, pending, stopFlag, signalled>>

CheckStop ==
  /\ pc = "check"
  /\ pc' = IF stopFlag THEN "exit" ELSE "swap"
  /\ UNCHANGED <<batch, cb, events, fdVars, threadVars, pending, stopFlag, signalled>>

\* Defect: a copy of m_pending_tasks instead of a swap.
CopyTasks ==
  /\ pc = "swap"
  /\ pc' = "run"
  /\ batch' = pending
  /\ UNCHANGED <<pending, cb, events, fdVars, threadVars, stopFlag, signalled>>

SwapTasks ==
  /\ pc = "swap"
  /\ pc' = "run"
  /\ batch' = pending
  /\ pending' = <<>>
  /\ UNCHANGED <<cb, events, fdVars, threadVars, stopFlag, signalled>>

TakeTask ==
  /\ pc = "run" /\ batch # <<>>
  /\ cb' = Head(batch)
  /\ batch' = Tail(batch)
  /\ pc' = "call"
  /\ UNCHANGED <<events, fdVars, threadVars, pending, stopFlag, signalled>>

\* Defect: "if" instead of "while" around the batch.
BeginWaitEarly ==
  /\ pc = "run"
  /\ pc' = "wait"
  /\ UNCHANGED <<batch, cb, events, fdVars, threadVars, pending, stopFlag, signalled>>

BeginWait ==
  /\ pc = "run" /\ batch = <<>>
  /\ pc' = "wait"
  /\ UNCHANGED <<batch, cb, events, fdVars, threadVars, pending, stopFlag, signalled>>

-----------------------------------------------------------------------------
(* loop(): the callbacks *)

\* Defect: the callback that was run is still held.
ReturnHoldsCallback ==
  /\ pc = "call"
  /\ pc' = "run"
  /\ UNCHANGED <<cb, batch, events, threadVars, pending>>

ReturnFromCallback ==
  /\ pc = "call"
  /\ pc' = "run"
  /\ cb' = NoTask
  /\ UNCHANGED <<batch, events, threadVars, pending>>

\* The lambda of addEpollEvent, queued by another thread.
RunAdd ==
  /\ ReturnFromCallback
  /\ cb.kind = "add"
  /\ ADD_TO_EPOLL(cb.of)
  /\ UNCHANGED <<ready, stopFlag, signalled>>

\* The lambda of deleteEpollEvent, queued by another thread.
RunDelete ==
  /\ ReturnFromCallback
  /\ cb.kind = "del"
  /\ DELETE_FROM_EPOLL(cb.of)
  /\ UNCHANGED <<ready, stopFlag, signalled>>

\* The read callback of m_wakeup_fd_event: reads the counter back to zero,
\* whatever was added to it since the event was reported.
DrainWakeup ==
  /\ cb = Handler(WakeFd, "in")
  /\ ReturnFromCallback
  /\ signalled' = FALSE
  /\ UNCHANGED <<fdVars, stopFlag>>

\* A callback of the application (a connection, the acceptor, the timer, a user
\* task) runs.  It may take up what its descriptor reported or leave some of it,
\* and it calls at most one of the loop's operations, from the loop's thread.
AppCallback ==
  \/ cb.kind = "user"
  \/ cb.kind \in Triggers /\ cb.of \in Fds

Consume ==
  IF cb.kind = "user"
  THEN UNCHANGED ready
  ELSE \E left \in {ready[cb.of], ready[cb.of] \ {cb.kind}} :
         ready' = [ready EXCEPT ![cb.of] = left]

RunNoCall ==
  /\ ReturnFromCallback /\ AppCallback /\ Consume
  /\ UNCHANGED <<listenFds, kernel, stopFlag, signalled>>

RunCallsAdd ==
  /\ ReturnFromCallback /\ AppCallback /\ Consume
  /\ \E f \in Fds : ADD_TO_EPOLL(f)
  /\ UNCHANGED <<stopFlag, signalled>>

RunCallsDelete ==
  /\ ReturnFromCallback /\ AppCallback /\ Consume
  /\ \E f \in Fds : DELETE_FROM_EPOLL(f)
  /\ UNCHANGED <<stopFlag, signalled>>

RunCallsStop ==
  /\ ReturnFromCallback /\ AppCallback /\ Consume
  /\ stopFlag' = TRUE /\ signalled' = TRUE
  /\ UNCHANGED <<listenFds, kernel>>

\* The callback destroys the owner of a descriptor (TcpClient does it): close(2)
\* takes the descriptor out of the interest list, the loop is not told, and the
\* next socket gets the same number.
RunClosesFd ==
  /\ ReturnFromCallback /\ AppCallback
  /\ \E f \in Fds :
       /\ kernel' = kernel \ {f}
       /\ ready' = [ready EXCEPT ![f] = {}]
  /\ UNCHANGED <<listenFds, stopFlag, signalled>>

RunTask ==
  \/ RunAdd \/ RunDelete \/ DrainWakeup
  \/ RunNoCall \/ RunCallsAdd \/ RunCallsDelete \/ RunCallsStop \/ RunClosesFd

-----------------------------------------------------------------------------
(* loop(): epoll_wait and the events it reports *)

\* Registration is level-triggered: a condition is reported while it holds.
ReadyFds == {f \in kernel : ready[f] # {}} \cup (IF signalled THEN {WakeFd} ELSE {})

Conditions(f) == IF f = WakeFd THEN {"in"} ELSE ready[f]

\* The orders in which epoll_wait may report at most MaxEvent of the ready
\* descriptors, all of them when they fit.
Reports ==
  LET n == IF Cardinality(ReadyFds) < MaxEvent THEN Cardinality(ReadyFds) ELSE MaxEvent
  IN {s \in [1..n -> ReadyFds] : \A i, j \in 1..n : s[i] = s[j] => i = j}

EpollReturn ==
  /\ pc = "wait" /\ ReadyFds # {}
  /\ \E s \in Reports : events' = [i \in DOMAIN s |-> [fd |-> s[i], evs |-> Conditions(s[i])]]
  /\ pc' = "dispatch"
  /\ UNCHANGED <<batch, cb, fdVars, threadVars, pending, stopFlag, signalled>>

\* Nothing was ready for g_epoll_max_timeout.
EpollTimeout ==
  /\ pc = "wait" /\ ReadyFds = {}
  /\ pc' = "check"
  /\ UNCHANGED <<batch, cb, events, fdVars, threadVars, pending, stopFlag, signalled>>

\* epoll_wait returned -1 (EINTR).
EpollError ==
  /\ pc = "wait"
  /\ pc' = "check"
  /\ UNCHANGED <<batch, cb, events, fdVars, threadVars, pending, stopFlag, signalled>>

\* One "if" of the body of the for loop: the handlers of the event at the head
\* are queued in the order IN, OUT, ERR, each by an addTask of its own.
QueueIn ==
  /\ pc = "dispatch" /\ events # <<>> /\ "in" \in Head(events).evs
  /\ pending' = Append(pending, Handler(Head(events).fd, "in"))
  /\ events' = [events EXCEPT ![1].evs = @ \ {"in"}]
  /\ UNCHANGED <<pc, batch, cb, fdVars, threadVars, stopFlag, signalled>>

QueueOut ==
  /\ pc = "dispatch" /\ events # <<>>
  /\ "in" \notin Head(events).evs /\ "out" \in Head(events).evs
  /\ pending' = Append(pending, Handler(Head(events).fd, "out"))
  /\ events' = [events EXCEPT ![1].evs = @ \ {"out"}]
  /\ UNCHANGED <<pc, batch, cb, fdVars, threadVars, stopFlag, signalled>>

\* EPOLLERR: the descriptor is deleted at once, the handlers queued for it stay,
\* and its error callback joins them when it has one.
QueueErr ==
  /\ pc = "dispatch" /\ events # <<>> /\ Head(events).evs = {"err"}
  /\ DELETE_FROM_EPOLL(Head(events).fd)
  /\ \/ pending' = Append(pending, Handler(Head(events).fd, "err"))
     \/ pending' = pending
  /\ events' = Tail(events)
  /\ UNCHANGED <<pc, batch, cb, ready, threadVars, stopFlag, signalled>>

NextEvent ==
  /\ pc = "dispatch" /\ events # <<>> /\ Head(events).evs = {}
  /\ events' = Tail(events)
  /\ UNCHANGED <<pc, batch, cb, fdVars, threadVars, pending, stopFlag, signalled>>

EndDispatch ==
  /\ pc = "dispatch" /\ events = <<>>
  /\ pc' = "check"
  /\ UNCHANGED <<batch, cb, events, fdVars, threadVars, pending, stopFlag, signalled>>

-----------------------------------------------------------------------------
LoopStep ==
  \/ EnterLoop \/ CheckStop \/ SwapTasks \/ TakeTask \/ BeginWait \/ RunTask
  \/ EpollReturn \/ EpollTimeout
  \/ QueueIn \/ QueueOut \/ QueueErr \/ NextEvent \/ EndDispatch

ThreadStep(t) == PostTask(t) \/ CallStop(t) \/ WakeUp(t)

Next ==
  \/ LoopStep
  \/ EpollError
  \/ \E t \in Threads : ThreadStep(t)
  \/ \E f \in Fds, e \in Triggers : Arrive(f, e)

SafeSpec == Init /\ [][Next]_vars

\* The loop's thread is scheduled, epoll_wait has a timeout, and a thread inside
\* addTask or stop reaches its wakeup().  Nobody has to call either.
Fairness == WF_vars(LoopStep) /\ \A t \in Threads : WF_vars(WakeUp(t))

Spec == SafeSpec /\ Fairness

-----------------------------------------------------------------------------
(* Properties *)

\* Every variable stays in its type.  Thread program counters, the queues of
\* loop() and the descriptor sets of ADD_TO_EPOLL and DELETE_FROM_EPOLL.
TypeOK ==
  /\ pc \in {"start", "check", "swap", "run", "call", "wait", "dispatch", "exit"}
  /\ pending \in Seq(Task) /\ batch \in Seq(Task)
  /\ cb \in Task \cup {NoTask}
  /\ cb = NoTask <=> pc # "call"
  /\ stopFlag \in BOOLEAN /\ signalled \in BOOLEAN
  /\ events \in Seq(EpollEvents)
  /\ listenFds \subseteq Fds /\ kernel \subseteq Fds
  /\ ready \in [Fds -> SUBSET Triggers]
  /\ tpc \in [Threads -> {"idle", "wake"}]
  /\ posts \in [Threads -> Nat]

\* When the loop blocks in epoll_wait every handler it queued for an earlier
\* report has been called.  Registration is level-triggered: were a handler still
\* queued, its condition would be reported, and the handler queued, again, and
\* accept or onTimer would run twice for one event.
HandlerFree(s) == ToSet(s) \cap Handlers = {}

HandlersRunBeforeWait == pc = "wait" => HandlerFree(batch \o pending)

\* Why it holds: tmp_tasks is empty outside the part of loop() that runs it, and
\* between the swap and the end of epoll_wait only other threads push.
QueueInv ==
  /\ pc \notin {"run", "call"} => batch = <<>>
  /\ pc \in {"run", "call", "wait"} => HandlerFree(pending)

\* The kernel watches no descriptor that is missing from m_listen_fds:
\* DELETE_FROM_EPOLL returns early for such a descriptor, and nothing could ever
\* take it out of the interest list again.
WatchedIsListed == kernel \subseteq listenFds

\* Work for the loop that nothing will wake it up for: no byte in the eventfd and
\* no thread on its way to wakeup().
Stranded ==
  /\ pending # <<>> \/ stopFlag
  /\ ~signalled
  /\ \A t \in Threads : tpc[t] = "idle"

\* A loop that is blocked in epoll_wait cannot become stranded: addTask and stop
\* change the state first and write the eventfd afterwards, so the write comes
\* after whatever it announces.
BlockedLoopIsWoken ==
  [][pc = "wait" /\ pc' = "wait" /\ Stranded' => Stranded]_vars

\* The two queues, the swap and the batch are one first-in first-out mailbox; the
\* fairness is that of MSpec: a loop that has not stopped keeps taking tasks.
MB == INSTANCE TaskMailbox
        WITH queue <- batch \o pending, running <- cb, open <- pc # "exit"

ImplementsMailbox == MB!MSpec

\* Once stop() was called loop() returns, if not at once then after the timeout
\* of epoll_wait.
StopTerminates == stopFlag ~> pc = "exit"

\* What the sequence diagrams say of a task added by another thread
\* (UML/EventLoop/EventLoopTimePic.puml:53, wakeupfdEvent.puml:17): the wake-up
\* unblocks epoll_wait and the task runs; the loop never sleeps on a queued task.
\* The code does not ensure it: DrainWakeup also takes the bytes of tasks that were
\* queued after the swap.
NoLostWakeup ==
  pc = "wait" /\ pending # <<>> => signalled \/ \E t \in Threads : tpc[t] = "wake"
=============================================================================
