# RPC4GRAD in TLA+

RPC4GRAD (`rocket/`) is a C++ RPC framework for Linux: a reactor per thread, timers on
a timerfd, non-blocking TCP, protobuf services behind a framing protocol, an
asynchronous logger, and a generator of server projects. This directory holds TLA+
models of its core, the TLC configurations that check them and TLAPS proofs about them.
Every model was written from the code; `PROJECT.json` maps each definition to the lines it
stands for, and lists runs, hazards, theorems and findings.

```
tlc -workers 2 -config MCTimers.cfg MCTimers.tla    # one run
tlapm TimerProofs.tla                               # the proofs of one module
```

## 1. Inventory of the system

| Component | State | Operations | Talks to |
|---|---|---|---|
| `EventLoop`, `FdEvent`, `WakeupFdEvent` | queued tasks, epoll set, `m_listen_fds`, eventfd, stop flag | `loop`, `addTask`, `addEpollEvent`, `deleteEpollEvent`, `wakeup`, `stop` | everything: it runs all callbacks; other threads queue tasks |
| `Timer`, `TimerEvent` | multimap of pending events, timerfd | `addTimerEvent`, `deleteTimerEvent`, `onTimer`, `resetArriveTime`, `setCancle` | its loop; any thread may add or delete |
| `TcpClient` | socket, connection, `m_listen_fds` of its loop | `connect`, `writeMessage`, `readMessage`, `stop`, destructor | loop, `TcpConnection` |
| `TcpConnection` | `TcpState`, two buffers, one `FdEvent`, write and read callbacks | `onRead`, `execute`, `onWrite`, `clear`, `reply`, `listenRead`, `listenWrite` | loop, coder, dispatcher (server), callbacks (client) |
| `RpcChannel`, `RpcController` | controller flags and error, timer of the call | `Init`, `CallMethod`, `callBack`, timeout and answer callbacks | `TcpClient`, `Timer`, `RunTime` |
| `TcpServer`, `TcpAcceptor` | listening socket, `m_client`, repeated timer | `init`, `start`, `onAccept`, `clearClientTimer` | main loop, IO threads |
| `IOThread`, `IOthreadGroup` | loop, two semaphores, index | `start`, `join`, `getIOthread` | `TcpServer` |
| `RpcDispatcher` | service map | `dispatch`, `registerService`, `parseServiceFullName` | connections, services, `RunTime` |
| `RpcInterface`, `RpcClosure` | request, response, controller and closure of one request | `run`, `newRpcClosure`, `reply`, destructor | generated services, calls to other servers |
| `RunTime` | message id and method of the request dispatched last | accessors | dispatcher, channels, log |
| `MsgUtil` | last id and maximum, per thread | `genMsgId` | channels |
| `TcpBuffer` | bytes, read and write index, size | write, read, grow, compact, move an index | connections, coder |
| `TinyPBCoder` | none | `encode`, `decode` | buffers |
| `Logger`, `AsyncLogger` | two buffers per pipeline, writer's queue, stop flag | `pushLog`, `syncLoop`, `pushLogBuffer`, `Loop`, `stop`, `CoredumpHandler` | main loop's timer, writer threads, signals |
| `ScopeMutex`, `Mutex` | a pthread mutex, `m_is_lock` | constructor, `unlock`, destructor | loop, timer, loggers, tables |
| Generator (`rocket_generator.py`) | the files of a generated project | one run; the user edits between runs | proto file, `protoc`, templates |
| `Config`, `IPNetAddr` | what was read from a file, an address | constructors, `setGlobalConfig`, `CheckValid`, `FindAddr` | start-up of servers, channels, loggers |
| `FdEventGroup` | table of `FdEvent`s | `getFdEvent` | connections |
| `util`, `StringCoder` | none | conversions | all |

Hard behaviours: several threads share a loop's queue, its timer, the log buffers and
the life of a connection; handlers run one round after the event they handle; a call's
timer races connect, answer and close; registrations with epoll are kept in three places
(the `FdEvent`, `m_listen_fds`, the kernel); bytes arrive in pieces that end anywhere;
an answer leaves when the last of the calls made for it ends. The server persists
nothing, but may be ended by a signal at any time; a generator that dies leaves files for
its next run. What makes each component correct:

* **loop**: no task lost, doubled or reordered; a handler runs once per report; a blocked
  loop is woken; a stopped loop returns; the kernel watches only what is listed.
* **timer**: no event lost between threads, none run after cancellation was seen, none
  twice, repeated ones kept, the timerfd armed whenever something is pending.
* **client call**: decided once, closure run with a success and never twice (a failure
  should run it too, and does not), always covered by its timer, never waiting on a
  descriptor nobody watches.
* **server**: requests read and replies sent whatever the order of reads, writes, late
  replies and closes; a destroyed connection not read from.
* **buffer and coder**: what is decoded is what was encoded, for any fragmentation.
* **dispatch**: a generated service answers once, when nothing works for it any more; errors
  are answered and ids passed on (neither of which holds); new ids count up.
* **logging**: every message once and in order; the writer is not left asleep on a batch.
* **lock**: mutual exclusion.
* **start-up**: a server that runs has a port, threads and the files it needs; a call has an
  address.
* **generator**: edits survive, and service and interfaces fit each other.

## 2. The modules

| Module | Models | Kind |
|---|---|---|
| `TaskMailbox` | what a loop promises to those who call `addTask` | abstract specification |
| `EventLoop` | `eventLoop.cpp`, `fd_event.cpp`, `wakeup_fd_event.cpp` | component; implements `TaskMailbox` |
| `Timer` | `timer.cpp`, `timer_event.cpp` | component |
| `Config` | `config.cpp`, `net_addr.cpp`, `FindAddr` of `rpc_channel.cpp` | operators on files and addresses; used by `Server` and `RpcChannel` |
| `OneShotCall` | the outcome of one call | abstract specification |
| `RpcChannel` | `rpc_channel.cpp`, `rpc_controller.cpp`, `tcp_client.cpp`, client side of `tcp_connection.cpp` | composition over a loop; implements `OneShotCall` |
| `Server` | `tcp_server.cpp`, `tcp_acceptor.cpp`, `io_thread*.cpp`, server side of `tcp_connection.cpp` | composition of main loop, IO loop, connections |
| `ByteQueue` | what a buffer promises to its connection | abstract specification |
| `TcpBuffer` | `tcp_buffer.cpp` | operators on records |
| `TinyPBCoder` | `tinyPB_coder.cpp` | operators |
| `PacketStream` | one direction of a connection in bytes: `reply`, `onWrite`, segments, `onRead`, `decode` | composition; both buffers implement `ByteQueue` |
| `MsgId` | `msg_id_util.cpp` | operators |
| `Dispatch` | `rpc_dispatcher.cpp`, `rpc_interface.cpp`, `rpc_closure.h`, `run_time.cpp`, the id a call gets in `rpc_channel.cpp`, the generated `server.cpp` | component |
| `ScopeMutex` | `mutex.h` | component |
| `Logging` | `log.cpp` | component |
| `Generator` | `rocket_generator.py` | component |
| `EventLoopProofs`, `TimerProofs`, `RpcChannelProofs`, `ServerProofs`, `PacketStreamProofs`, `DispatchProofs`, `LoggingProofs`, `GeneratorProofs` | | proofs |
| `MCEventLoop`, `MCServer`, `MCRpcChannel`, `MCPacketStream`, `MCDispatch`, `MCGenerator` | values of constants | instances for TLC |
| `MCTimers`, `MCMessages` | three components each, side by side | instances for TLC |

**EventLoop.** `pc` walks through the body of `loop()`: `check` (the `while`), `swap` (the
critical section), `run`/`call` (taking and running `tmp_tasks`), `wait`
(`epoll_wait`), `dispatch` (one reported descriptor at a time; IN, OUT, ERR in that
order, and the deletion on EPOLLERR). `pending`, `batch`, `listenFds` and `kernel` are
`m_pending_tasks`, `tmp_tasks`, `m_listen_fds` and the kernel's interest list. A callback
is one of: the posted lambdas of `addEpollEvent` and `deleteEpollEvent`, the drain of the
eventfd, or a user's callback, which may register, delete, stop the loop, close a
descriptor, or consume what was ready; it makes at most one such call. `addTask` and
`stop` of other threads are two steps, the change and the `wakeup()`. Event masks are
left to the modules that own the `FdEvent`.

**Timer.** Times are what is left until them, so that time passes for ever in finitely
many states; no time passes between reading the clock and `timerfd_settime`.
`addTimerEvent` is the insert (with the choice to arm), then `resetArriveTime` in two
steps, the copy of the map and the arming; `deleteTimerEvent` is the mark and the erase.
`onTimer` is the collection, the re-adding of repeated events one at a time, the last
`resetArriveTime`, and the callbacks.

**Config.** A file is a record of what the constructor asks for; a pointer is a sequence of
at most one element. `Rejects` is what ends the process (a missing element, an exception
of `std::stoi` that nothing catches), `ConfigOf` what is kept otherwise, `RpcStubs` the
first stub of each name. `CheckThrows` and `ValidParts` are the two ends of `CheckValid`.

**RpcChannel.** One call from the making of its channel to its decision: `NewChannel` finds
an address, given as one or as the name of a stub, or dies of a word for a port;
`InitChannel` and `CallMethod` follow. The handlers of the loop
(`timer`, `connect`, `onWrite`, `onRead`) are queued in one round of `epoll_wait`, in
any order the kernel may report, and all run before the next; that is what
`HandlersRunBeforeWait` and `ImplementsMailbox` of `EventLoop` establish. Connect may
succeed at once, be in progress, or fail; the server may answer more than once, wrongly,
with an error, or close. `mask` is `m_listen_event.events`: `Listens` puts EPOLLERR in with
every event, because nobody passes an error callback, and nothing takes it out again. A call
without a controller writes to the null pointer (`CallWithoutController`). A stale entry in
`m_listen_fds` and a loop that has returned are parameters.

**Server.** Main thread and IO thread from start-up on: `Configure` (one of the files, or
none), `Listen`, the threads with their two semaphores, and `StartFails`, the ways in which
that ends the process. A configuration without threads gets as far as the first connection
(`AcceptWithoutThread`). `onAccept` is two steps, because the constructor of the connection
posts its registration and the IO thread may run `onRead` before `setState`: `Accept`,
`Handover`; on the other side `FindsUnconnected` is the look at the state and `ThenClears`
the call of `clear`. One IO thread, because `getIOthread` never moves on; no reuse of
descriptors, because the server never closes one. `dispatch` comes to: answered now, kept by
the service, or never answered (`Dispatch` says when). Wild pointers (`RunsDestroyed`,
`RepliesDestroyed`, `AcceptFails`) and SIGPIPE (`WritesToNobody`) end the process; they are
undefined behaviour or a signal, and the model says nothing of what comes after.

**TcpBuffer, TinyPBCoder, PacketStream.** A buffer is a record and each method an operator
on it, byte for byte, refusals included. `FirstPacket` and `Parse` are one turn of the
loop of `decode`; what it reads outside of the vector is a parameter (`Wild`), and a
length is the signed 32-bit number its bytes stand for. `PacketStream` puts both
together: replies are encoded into `m_out_buffer` (`Reply`, or `ReplyOverruns` when the
growth does not suffice), written from a read index that nothing moves (`WriteAll`,
`WritePart`), delivered in segments (`ReadOf`), and decoded. What undefined behaviour
leaves (`overrun`) is not described.

**Dispatch.** One IO thread. `Obstacle` is what keeps `dispatch` from a service. A
generated service holds its `RpcInterface` by the closures of the calls it makes, and the
interface answers from its destructor: `ReleasedUnless`. A closure that runs may make
further calls, or throw. A plain service, written as in `test_rpc_server.cpp`, answers or
forgets to. `MsgId` gives each call that finds no id in `RunTime` the next of a counter.

**Generator.** A run is a walk through its list of files (`Plan`), each skipped when it
exists and is not always written, or opened (truncated) and written; it may die anywhere.
Names are sequences of letters with their case, so that `to_underline` does what it does,
the loss of a first letter included. Between runs the user edits files and changes the
proto file.

**ScopeMutex** is the lock by itself: constructor, `unlock`, and the destructor that
unlocks again. The other modules take critical sections to be atomic, that is, they
describe the program with this fault repaired.

**Logging.** One pipeline from its start (`CreateWriter`, `Constructed`, `InitLogger`: the
writer's thread and the semaphore its maker waits for), then from `pushLog` through
`syncLoop` (swap, then hand-over) to the writer's thread and the file. A macro lets a
message pass by the word for the level in the configuration (`Passes`). `CoredumpHandler`
may come at any step of a logger that runs, on the loop's thread (which it then freezes) or
on another, but not inside a critical section.

## 3. The runs

| Run | Bounds | Shows |
|---|---|---|
| `loop` | one other thread posting one task, two descriptors and the eventfd for two slots of `epoll_wait` | `WatchedIsListed`, `HandlersRunBeforeWait`, `BlockedLoopIsWoken`; `ImplementsMailbox` with its fairness; `StopTerminates` |
| `server` | two clients, with two requests and one; five configuration files or none | `AnswersInOrder`, `UnsentIsWatched`, `NoReadAfterDestroy`, `RequestsRead`, `RepliedIsSent` |
| `timers`: `Timer` | loop and two threads, a one-shot and a repeated event, delays to 2 | `NoLostTimer`, `RepeatingKept`, `OverStaysOver`, `PendingRuns` |
| `timers`: `Logging` | four messages, the pipeline of rpc at level INFO | `LogComplete`, `EverythingWritten` |
| `timers`: `RpcChannel` | three answers, a loop never entered or running, seven addresses, three stubs | `CallInv`, `TimerCovers`, `RegistrationKept`, `ImplementsOneShotCall`, `CallFinishes` |
| `messages`: `PacketStream` | buffers of 64 bytes, two replies of 31, 33 or 125, 95 bytes written | `FramesExact`, `DecodeAdvances`, `BuffersAreQueues` |
| `messages`: `Dispatch` | two requests, a generated and a plain service, three calls, ids of two digits in base 2 | `AnsweredOnRelease`, `OwnIdsCount` |
| `messages`: `Generator` | two proto files, one death, edits of interfaces | `ServiceFits`, `EditsKept` |

Each of them checks the type invariants of its modules as well. `MCTimers` and `MCMessages`
put three components side by side that share no variable: a behavior is about one of them
(`part`), and the other two stay in an initial state. A component does there exactly what
it does alone, under its own fairness; nothing is said of them together. How a loop serves
a timer, a call and a log is in the modules themselves. In the following runs
the code does not do what a document, or a comment, says:

| Run | Property violated | What happens |
|---|---|---|
| `loop_lost_wakeup` | `NoLostWakeup` | reading the eventfd to zero takes the wake-up of a task queued since the swap; the loop sleeps up to 10 s on it |
| `mutex_exclusion` | `MutualExclusion` | the destructor's second unlock frees another thread's lock |
| `rpc_closure` | `FailureRunsClosure` | `SetError` finishes the controller before `callBack`, which then returns early: a failed call never runs its closure |
| `rpc_connect_done` | `ConnectDoneRuns` | a number left in `m_listen_fds` turns the registration into an `EPOLL_CTL_MOD`, which fails, and `isLooping` stays true after a stop: either way `done` of `connect` never runs |
| `server_resend` | `SentOnce` | the read index of `m_out_buffer` never moves, so each reply writes all earlier ones again |
| `stream_full` | `ReadIsKept` | `moveWriteIndex` refuses a read that fills the buffer, and its bytes are gone |
| `dispatch_errors` | `ErrorsAreReplied` | an unknown service or method, or a request that does not deserialize, is written into a response nobody sends |
| `dispatch_ids` | `IdPassedThrough` | `RunTime` holds the id of the request dispatched last, so a call made later for an earlier one carries the wrong id |

**Conditions in the properties.** Where the code has a fault, a property says what holds
beside it, and names it. `FramesExact` and `DecodeAdvances` are about connections on which
no read filled the buffer exactly (`refused`), no packet was met with its length cut
(`split`) and no message holds a mark byte (`Clean`). `FramesExact` also asks that no write
was cut short (`torn`): the next one starts from the front again, so that the head of a
packet stands before a whole one, and `decode` may take that head with the end of another
packet (replies of 31 and 41 bytes with a write cut at 41 do it). `DecodeAdvances` holds
with such writes too. `ServiceFits` excepts methods that have shared file names (`Alone`)
and files a run died writing. `LogComplete` asks that no message is lost or doubled at any
time, and for order until a signal; after it two `syncLoop`s may overtake each other.
`OwnIdsCount` is about the ids a thread makes up, which only calls for no request carry.
`CallInv` and `OneShotCall` leave open whether a failure runs the closure;
`FailureRunsClosure` asks it of calls that went ahead, and `ErrorsAreReplied` leaves out
names that do not parse, of which the diagram says nothing. `RegistrationKept` starts from a
descriptor that is not listed, and `CallFinishes` speaks of a loop that runs; what the other
loops and descriptors lead to is in `rpc_connect_done`.

**Why the bounds are enough.** In `loop`, three descriptors for two slots make `epoll_wait`
leave one out, and one task with one wake-up meets every position of the loop;
`loop_lost_wakeup` has the two tasks its fault needs. In the timer of `timers`, an insert
that arms, one that does not and `onTimer` overlap with three threads, and one event of each
kind goes through every branch; delays of 2 with a grace of 1 give "due", "within the grace"
and "later". In its call, a third answer shows that a second one that changes nothing is not
the end of it. In `server`, one connection needs two requests for a reply behind another,
the second makes both orders of a round and lets a closed connection spin beside a live one;
`MaxWire` bounds only writes that are cut short. In the stream of `messages`, 31 and 33
bytes fill a buffer together, 33 holds a mark in its body, 125 exceeds the growth; segments
of 5 and 40 bytes end inside a header, a body, or a later packet; 95 bytes are two replies
and a repetition, or a part; 0 and 3 are the byte of an empty vector and an end mark. In its
dispatch, the four ids of the counter are used up, so that it wraps, and a request is
dispatched while another keeps a call open. In its generator, two methods of different proto
files share their files; a file that a run died on, one that was edited and one of another
method meet in one project. In the log of `timers`, four messages fill two batches with one
in hand and one in the buffer. The files of `server` are the shipped `rocket.xml` and
`rocket_client.xml` and one for each other way to be rejected or to run without threads; the
addresses of the call take each branch of `CheckValid` and `FindAddr` once.

**Fairness and why the code justifies it.** A loop's thread is scheduled, and
`epoll_wait` returns after at most 10 s or for a level-triggered registration that is
ready (`LoopStep`, `EpollWait`, `IO`). A thread between a change and its `wakeup()`, or
inside `addTimerEvent`, goes on. Time passes (`Tick`); a call's timer falls due
(`TimerDue`); the timers of `clearClientTimer` and `syncLoop` are repeated ones. The
writer's thread and a signal handler are scheduled. In `Server`, a client that is sent
something reads it, so that a write is not cut short for ever. Nothing is assumed of the
network, of servers' answers, of clients' requests, of services, or that a task or a
signal ever comes. `PacketStream`, `Dispatch` and `Generator` state safety only.
`MCFairness` of `MCTimers` repeats the fairness of its three components, each conjunct for
its part.

Deadlock is not checked where the system may rest: a stopped loop, a decided call, a
process that ended, a log without messages, a connection or a dispatcher with nothing to
do. The timer, whose time always passes, and the generator, whose user may always run it
again, have no such state.

## 4. The proofs

TLAPS proves these for every value of the constants:

* `EventLoopProofs`: `TypeCorrect`; `HandlersRun`, by `QueueInv` (tmp_tasks is empty
  outside the part of `loop()` that runs it, and between the swap and the end of
  `epoll_wait` only other threads push, who push no handlers; `HandlersRunBeforeWait`
  alone is not inductive, it says nothing of the time before the wait);
  `BlockedLoopWoken`, an action property; `WatchedListed`; `MailboxSafety`, the
  refinement of `TaskMailbox` with `queue <- batch \o pending`, each step being a step
  of the mailbox or a stutter. Assumptions: `FdAssumption` (finitely many
  descriptors), `MaxEventAssumption`, `NoTaskAssumption`.
* `TimerProofs`: `TimerTypeCorrect`; `TimerNotLost`, which is inductive thanks to
  `Obliged`, the threads still about to arm; `RepeatingNotDropped` and `OverIsOver`
  (`OverStaysOver`) by `TimerInv` (only marked events are erased; tmps holds
  repeated events only and is empty when it is filled). Assumptions:
  `ThreadAssumption`, `EventAssumption`, `TimeAssumption`.
* `RpcChannelProofs`: `RpcTypeCorrect`, with EPOLLERR in every mask that has been set;
  `CallInvariant`, inductive (the connect handler
  is queued at most once and before any request, a request becomes one read callback, a
  success takes it along); from it `RpcDecidesOnce`, the refinement of `OneShotCall`;
  `RpcTimerCovers`; `RpcRegistrationKept` by `RegistrationInv`, for a call whose
  descriptor is not a stale number in `m_listen_fds` (`StaleFds = {FALSE}`).
  Assumption: `LoopAssumption`.
* `ServerProofs`: `ServerTypeCorrect`, `ServerReadsTheLiving`, `ServerAnswersInOrder`,
  `ServerWatchesUnsent`, all by `ServerInv`: the stages of a connection go with state,
  mask, registration, calls and replies (`LifeInv`), a connection waits for accept once
  (`BacklogInv`), and only connections that were made have tasks, none an `onRead` once it
  is `Closed`, and nothing but its registration comes before its `onRead` (`TasksInv`).
  `ServerReadsTheLiving` needs all of this: a destroyed connection is `Closed`, a `Closed`
  one is not registered for IN, and the handler that closes it is itself the `onRead`, or
  finds none behind it. Assumption:
  `ServerAssumption`.
* `PacketStreamProofs`, for every buffer size, replies, segments, and values found
  outside of a vector:
  - `StreamTypeCorrect` (indices in order, `m_in_buffer` never full), from lemmas on each
    method of the buffer, and `OutIsAQueue`, the refinement of `ByteQueue` by
    `m_out_buffer`.
  - `DecodeReturns` (`DecodeAdvances`), by `MarksKept`: as long as nothing is `Exposed`, the
    four bytes behind a start mark are neither zero nor negative as a length, as far as
    they have come, in `m_in_buffer`, on the wire and in `m_out_buffer`, wherever a write
    was cut short. This rests on lemmas on the codec: the four bytes of an `int32_t` give
    it back, and a packet without mark bytes inside has its marks at its two ends.
  - `InIsAQueue`: while nothing is `Exposed`, every step of `m_in_buffer` is one of
    `ByteQueue` or a stutter. By `DecodeReturns` a turn of `decode` takes a length
    between 1 and what is readable.
  - `FramesAreExact` (`FramesExact`), by `FrameInv`: as long as nothing is `Exposed` or
    `torn`, what was decoded, followed by the packets of `m_in_buffer` and of the wire, is
    what was written (`InOrder`); and what `m_out_buffer` holds is a row of whole packets
    (`OutFramed`). The step that matters: `decode` finds the first packet of a row
    wherever the bytes were cut.

  Assumptions: `BufferAssumption`, `WildAssumption`, `ReplyAssumption`, `PartAssumption`.
* `DispatchProofs`: `DispatchTypeCorrect`, with the carry of ids of any length;
  `AnswersOnRelease`, inductive together with the types; `IdsOfCalls` (`OwnIdsCount`): the
  carry adds one to the value of the digits, and `Unserved` says that no call is made for
  a request before there was one. Assumptions: `RequestAssumption`, `BaseAssumption`,
  `LengthAssumption`.
* `LoggingProofs`: `LogTypeCorrect`; `LogWakesWriter` (`NoMissedSignal`), which no run checks;
  `LogKeepsMessages` (`LogComplete`) by `LogInv`: the places a message can be in are
  numbered parts (file, batch in hand, queue, the two `tmp_vec`s, buffer), each message is
  at one place of one part, and each step moves a whole part into the next or joins two
  neighbours, which keeps places and, until there is a second syncer, order.
* `GeneratorProofs`: `GeneratorTypeCorrect`; `RunsKeepEdits`, an action property;
  `RunLeavesServiceFitting`, by what holds of the files already dealt with and of those
  still planned. Assumption: `ProtoAssumption`.

So every invariant that a passing run checks is a theorem, and every property of the form
`[][A]_vars` and every refinement but for what follows. Only model-checked are:

* liveness, and with it the fairness in `ImplementsMailbox`: `StopTerminates`,
  `PendingRuns`, `CallFinishes`, `RequestsRead`, `RepliedIsSent`, `EverythingWritten`. They
  need ENABLED, which the prover does not reason about;
* the half of `BuffersAreQueues` about `m_in_buffer` when something is `Exposed`. In the
  instance it holds there as well; in general a length that was read from the wrong bytes
  may be negative, `moveReadIndex` then gives bytes back, and the buffer is no queue. So
  `InIsAQueue` has the condition.

## 5. What the models leave out

Not modelled, and why:

* `FdEventGroup`: a table that is filled once per descriptor; the modules take
  `getFdEvent` to return the one `FdEvent` of a descriptor. The wrappers in `util`: system
  calls. `StringCoder`: a test coder without state. Generated protobuf code, and test
  drivers but for the `main` of a server.
* `TcpConnection::shutdown`, which nothing calls; the destructors of `TcpServer` and
  `IOThread`, which run when a process ends.
* A second call on the same channel and controller, `Reset`, `NotifyOnCancel`.
* `RpcInterface::reply` called by a service itself.
* Several IO threads in `Server` and `Dispatch`, because `getIOthread` never moves on.
* Rotation, names and formatting of logs; what a template of the generator looks like.
* EPOLLERR is not in the mask that `Server` keeps of a connection, although `listen` sets it
  there too; epoll reports it whether asked for or not.
* Messages are whole in `RpcChannel` and `Server`; bytes are in `PacketStream`, for
  replies. Requests take the same path in the other direction.

Met while modelling, and in the models' behaviour, but not stated by any document and so
not a run of its own:

* `timer.cpp:133`: two threads arm the timerfd from their own copies of the map, the older
  one possibly last; an event may be late by as much as the other is later.
* `rpc_channel.cpp:208`: after a timeout a late answer may still overwrite the error.
* `rpc_channel.cpp:56`: the branch that reports a missing controller writes to it, as
  `UML/RPC/RPCChannelActivity.puml:10` has it too.
* `tcp_server.cpp:72`: a connection whose `onRead` comes before its state is set may end up
  connected and registered for nothing; it is never served.
* `log.cpp:94`: `pushAppLog` does not look at `m_type`, as `pushLog` does, so that a logger
  of type 0 buffers the application's messages and never prints them. (`Logging` is about
  the loggers with a pipeline.)
* `log.cpp:292`: `stop()` does not signal a writer that waits; batches behind the one in
  hand are dropped.
* `tcp_buffer.cpp:30`: the growth does not look at the number of bytes to be written.
  `tinyPB_coder.cpp:158` has a doubled minus, so that the length of the error text is added
  to that of the body: the body of a response with an error text is read too long. The
  model computes it so, but `FramesExact` is about messages without one (`Clean`).
  `tinyPB_coder.cpp:57` and `:78`: a length that has not come is read from zeros, and one
  of zero keeps `decode` in its loop; behind garbage a packet is decoded twice.
* `config.cpp:88`: the stubs are looked for in an element `stubs`; the shipped `rocket.xml`
  has them in `stub`, so that a server that is started with it knows none. A word for a
  number ends the process by an exception of `std::stoi` (`net_addr.cpp:72` also for a
  channel), and `config.cpp:61` rejects `rocket_client.xml`, which has no `server`.
* `io_thread_group.cpp`: with `io_threads` of 0, which the default configuration has,
  `getIOthread` reads the first element of an empty vector.
* `net_addr.cpp:13`: a port is cut to 16 bits, and the acceptor validates what is left.
* `tcp_connection.cpp:187`: a write after the client left raises SIGPIPE.
* `rocket_generator.py:39`: `to_underline` loses the first letter of a lower-case name, so
  that two methods may share files; the handler of `generator_project` adds a string and an
  exception, and dies of it.

## 6. Plan

The order was: the loop and its mailbox (everything runs on it), timer, client call, lock,
logging, server; then buffer, coder and stream, dispatch with interfaces and ids, the
generator, and the proofs about all of them but the lock. What is left, in this order:

1. The lock of `mutex.h` inside `Logging`, with a signal that arrives in a critical
   section of the thread it interrupts.
2. A second call on one channel, with the read and write callbacks the first one left.
