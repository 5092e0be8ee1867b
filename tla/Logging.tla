------------------------------- MODULE Logging -------------------------------
(***************************************************************************)
(* One of the two log pipelines of common/log.cpp (rpc and app): any       *)
(* thread appends to Logger::m_buffers, the repeated timer of the main     *)
(* loop runs syncLoop, which hands the buffer on to an AsyncLogger, and    *)
(* the AsyncLogger's thread writes batches to its file.  CoredumpHandler   *)
(* ends the process from a signal, on the loop's thread or on another one. *)
(* A Logger of type 0, which prints instead, has no pipeline.              *)
(*                                                                         *)
(* Critical sections are atomic (ScopeMutex.tla is about the lock), so a   *)
(* signal does not arrive inside one.  Rotation spreads the file over      *)
(* several; here it is one sequence.  Opening and writing succeed.         *)
(***************************************************************************)
EXTENDS Naturals, Sequences

CONSTANTS
  App,       \* this is the pipeline of the application's messages, not that of rpc
  LogLevel,  \* the word for the level in the configuration
  MaxMsgs    \* bound: messages pushed before a signal

ASSUME LoggingAssumption == App \in BOOLEAN /\ MaxMsgs \in Nat

Levels == [DEBUG |-> 1, INFO |-> 2, ERROR |-> 3]

\* Any other word is LogLevel::Unknown.
StringToLogLevel(word) == IF word \in DOMAIN Levels THEN Levels[word] ELSE 0

\* The test of the macros: LogLevel::Unknown lets everything through except DEBUGLOG.
Passes(level) ==
  /\ StringToLogLevel(LogLevel) <= Levels[level]
  /\ level = "DEBUG" /\ ~App => StringToLogLevel(LogLevel) # 0

\* The ERRORLOG of CoredumpHandler goes to the pipeline of rpc.
HandlerLogs == ~App /\ Passes("ERROR")

Syncers == {"loop", "handler"}   \* who runs syncLoop

VARIABLES
  ipc,      \* InitGlobalLogger: "create", "wait" for the semaphore, "init", "running"
  posted,   \* AsyncLogger::m_semaphore
  pushed,   \* how many messages were pushed; they are numbered in that order
  buf,      \* Logger::m_buffers
  spc,      \* syncLoop: "out", or "push" between its swap and its pushLogBuffer
  moving,   \* tmp_vec of each syncLoop
  m_buffers,  \* AsyncLogger::m_buffers
  wpc,      \* AsyncLogger::Loop: "none", "start", "ready", "waiting", "write", "done"
  writing,  \* the batch taken from m_buffers
  file,     \* what was written
  stop,     \* AsyncLogger::m_stop_flag
  hpc,      \* CoredumpHandler: "none", "sync", "stop", "join", "dead"
  frozen    \* the handler runs on the loop's thread

initVars == <<ipc, posted>>
syncVars == <<spc, moving>>
writerVars == <<wpc, writing, file>>
handlerVars == <<hpc, frozen>>
logVars == <<initVars, pushed, buf, spc, moving, m_buffers, wpc, writing, file, stop, hpc, frozen>>

LogInit ==
  /\ ipc = "create" /\ posted = FALSE
  /\ pushed = 0 /\ buf = <<>>
  /\ spc = [s \in Syncers |-> "out"] /\ moving = [s \in Syncers |-> <<>>]
  /\ m_buffers = <<>>
  /\ wpc = "none" /\ writing = <<>> /\ file = <<>>
  /\ stop = FALSE
  /\ hpc = "none" /\ frozen = FALSE

Alive == hpc # "dead"

-----------------------------------------------------------------------------
(* Start-up *)

\* The constructor of AsyncLogger starts its thread and waits for it.
CreateWriter ==
  /\ ipc = "create" /\ ipc' = "wait"
  /\ wpc' = "start"
  /\ UNCHANGED <<posted, pushed, buf, syncVars, m_buffers, writing, file, stop, handlerVars>>

Constructed ==
  /\ ipc = "wait" /\ posted
  /\ ipc' = "init" /\ posted' = FALSE
  /\ UNCHANGED <<pushed, buf, syncVars, m_buffers, writerVars, stop, handlerVars>>

\* Logger::init: the timer and the handlers of signals.
InitLogger ==
  /\ ipc = "init" /\ ipc' = "running"
  /\ UNCHANGED <<posted, pushed, buf, syncVars, m_buffers, writerVars, stop, handlerVars>>

StartUp == CreateWriter \/ Constructed \/ InitLogger

-----------------------------------------------------------------------------
(* Logger *)

Append1 == /\ buf' = Append(buf, pushed + 1)
           /\ pushed' = pushed + 1

\* A macro of log.h, and pushLog or pushAppLog, once g_logger is set
PushLog(level) ==
  /\ Alive /\ ipc \in {"init", "running"} /\ pushed < MaxMsgs
  /\ Passes(level)
  /\ Append1
  /\ UNCHANGED <<initVars, syncVars, m_buffers, writerVars, stop, handlerVars>>

\* syncLoop: the critical section that swaps the buffer out.
SyncSwap(s) ==
  /\ spc[s] = "out"
  /\ spc' = [spc EXCEPT ![s] = "push"]
  /\ moving' = [moving EXCEPT ![s] = buf]
  /\ buf' = <<>>

\* Defects: an empty batch is handed on; the batch is put in front of the others; the
\* signal is left out.
HandsOnAlways(batch) == TRUE
InFront(batch) == <<batch>> \o m_buffers
NotSignalled == wpc

\* syncLoop hands on what it swapped out unless that is empty.
HandsOn(batch) == batch # <<>>

\* pushLogBuffer: the push, and what pthread_cond_signal does to the writer.
Enqueued(batch) == Append(m_buffers, batch)
Signalled == IF wpc = "waiting" THEN "ready" ELSE wpc

\* The rest of syncLoop.
SyncPush(s) ==
  /\ spc[s] = "push"
  /\ spc' = [spc EXCEPT ![s] = "out"]
  /\ moving' = [moving EXCEPT ![s] = <<>>]
  /\ IF HandsOn(moving[s])
     THEN m_buffers' = Enqueued(moving[s]) /\ wpc' = Signalled
     ELSE UNCHANGED <<m_buffers, wpc>>

\* syncLoop as the callback of the repeated timer
TimerSync ==
  /\ ipc = "running" /\ Alive /\ ~frozen
  /\ \/ SyncSwap("loop") /\ UNCHANGED <<m_buffers, wpc>>
     \/ SyncPush("loop") /\ UNCHANGED buf
  /\ UNCHANGED <<initVars, pushed, writing, file, stop, handlerVars>>

-----------------------------------------------------------------------------
(* AsyncLogger::Loop *)

Start ==
  /\ wpc = "start" /\ wpc' = "ready"
  /\ posted' = TRUE
  /\ UNCHANGED <<ipc, pushed, buf, syncVars, m_buffers, writing, file, stop, handlerVars>>

Wait ==
  /\ Alive /\ wpc = "ready" /\ m_buffers = <<>>
  /\ wpc' = "waiting"
  /\ UNCHANGED <<initVars, pushed, buf, syncVars, m_buffers, writing, file, stop, handlerVars>>

Popped == Tail(m_buffers)
AfterBatch == IF stop THEN "done" ELSE "ready"

TakeBatch ==
  /\ Alive /\ wpc = "ready" /\ m_buffers # <<>>
  /\ wpc' = "write"
  /\ writing' = Head(m_buffers)
  /\ m_buffers' = Popped
  /\ UNCHANGED <<initVars, pushed, buf, syncVars, file, stop, handlerVars>>

\* The stop flag is looked at after a batch was written, and only then.
WriteBatch ==
  /\ Alive /\ wpc = "write"
  /\ file' = file \o writing
  /\ writing' = <<>>
  /\ wpc' = AfterBatch
  /\ UNCHANGED <<initVars, pushed, buf, syncVars, m_buffers, stop, handlerVars>>

Writer == Start \/ Wait \/ TakeBatch \/ WriteBatch

-----------------------------------------------------------------------------
(* CoredumpHandler *)

\* The signal is delivered to some thread; the handler logs first.
Signal ==
  /\ ipc = "running" /\ hpc = "none"
  /\ hpc' = "sync"
  /\ frozen' \in BOOLEAN
  /\ IF HandlerLogs THEN Append1 ELSE UNCHANGED <<buf, pushed>>
  /\ UNCHANGED <<initVars, syncVars, m_buffers, writerVars, stop>>

\* flush: syncLoop ...
HandlerSwap ==
  /\ hpc = "sync"
  /\ SyncSwap("handler")
  /\ UNCHANGED <<initVars, pushed, m_buffers, writerVars, stop, handlerVars>>

HandlerPush ==
  /\ hpc = "sync"
  /\ SyncPush("handler")
  /\ hpc' = "stop"
  /\ UNCHANGED <<initVars, pushed, buf, writing, file, stop, frozen>>

\* ... and AsyncLogger::stop, which does not signal the condition.
HandlerStop ==
  /\ hpc = "stop"
  /\ stop' = TRUE
  /\ hpc' = "join"
  /\ UNCHANGED <<initVars, pushed, buf, syncVars, m_buffers, writerVars, frozen>>

\* pthread_join of the AsyncLogger's thread, and raise.
HandlerJoin ==
  /\ hpc = "join" /\ wpc = "done"
  /\ hpc' = "dead"
  /\ UNCHANGED <<initVars, pushed, buf, syncVars, m_buffers, writerVars, stop, frozen>>

HandlerSteps == HandlerSwap \/ HandlerPush \/ HandlerStop \/ HandlerJoin

LogNext ==
  \/ StartUp
  \/ \E level \in DOMAIN Levels : PushLog(level)
  \/ TimerSync \/ Writer \/ Signal \/ HandlerSteps

LogSafeSpec == LogInit /\ [][LogNext]_logVars

\* The main thread gets through the start, the timer repeats, the writer's thread and the
\* handler are scheduled. Nobody has to log and no signal has to come.
LogFairness ==
  /\ WF_logVars(StartUp) /\ WF_logVars(TimerSync)
  /\ WF_logVars(Writer) /\ WF_logVars(HandlerSteps)

LogSpec == LogSafeSpec /\ LogFairness

-----------------------------------------------------------------------------
(* Properties *)

\* The types of the four buffers, of the two threads' positions and of the handler; the
\* writer is given no empty batch.
LogTypeOK ==
  /\ ipc \in {"create", "wait", "init", "running"} /\ posted \in BOOLEAN
  /\ pushed \in Nat /\ buf \in Seq(Nat)
  /\ spc \in [Syncers -> {"out", "push"}] /\ moving \in [Syncers -> Seq(Nat)]
  /\ m_buffers \in Seq(Seq(Nat) \ {<<>>})
  /\ wpc \in {"none", "start", "ready", "waiting", "write", "done"}
  /\ writing \in Seq(Nat) /\ file \in Seq(Nat)
  /\ stop \in BOOLEAN
  /\ hpc \in {"none", "sync", "stop", "join", "dead"} /\ frozen \in BOOLEAN

\* Where a message can be, in the order in which the file is to get it
Parts == <<file, writing>> \o m_buffers \o <<moving["loop"], moving["handler"], buf>>

\* Every message that was pushed is in one of them,
NoneLost == \A n \in 1..pushed : \E i \in DOMAIN Parts : \E k \in DOMAIN Parts[i] : Parts[i][k] = n

\* and only once.
NoneTwice ==
  \A i, j \in DOMAIN Parts : \A k \in DOMAIN Parts[i], l \in DOMAIN Parts[j] :
    Parts[i][k] = Parts[j][l] => i = j /\ k = l

\* The file gets them in the order in which they were pushed.
InOrder ==
  \A i, j \in DOMAIN Parts : \A k \in DOMAIN Parts[i], l \in DOMAIN Parts[j] :
    i < j \/ (i = j /\ k < l) => Parts[i][k] < Parts[j][l]

\* No message is lost or written twice, also when syncLoop runs in the handler and on the
\* loop's thread at once; and until a signal comes the messages will be written in the
\* order in which they were pushed, across two swaps, the batches and the thread boundary.
LogComplete == NoneLost /\ NoneTwice /\ (hpc = "none" => InOrder)

\* The writer does not sleep on a queued batch: the check of the queue and the wait
\* are under the lock that pushLogBuffer signals under.
NoMissedSignal == wpc = "waiting" => m_buffers = <<>>

\* Every message is written as long as no signal comes.
EverythingWritten ==
  \A n \in 1..MaxMsgs : pushed >= n ~> Len(file) >= n \/ hpc # "none"
=============================================================================
