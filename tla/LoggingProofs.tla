---------------------------- MODULE LoggingProofs ----------------------------
(***************************************************************************)
(* What holds of the log pipeline for any number of messages, with syncLoop*)
(* run by the timer and by CoredumpHandler at once: the batches that cross *)
(* to the AsyncLogger's thread, the wake-up that goes with them, and that  *)
(* no message is lost, doubled or, until a signal, overtaken.              *)
(*                                                                         *)
(* For the last, a step that only hands messages on is described by where  *)
(* each message was before it (a function from places to places); what     *)
(* NoneLost, NoneTwice and InOrder say carries over to the new places.     *)
(***************************************************************************)
EXTENDS Logging, TLAPS

LEMMA AppendTypes ==
  ASSUME pushed \in Nat, buf \in Seq(Nat), Append1
  PROVE  pushed' \in Nat /\ buf' \in Seq(Nat)
BY DEF Append1

LEMMA SwapTypes ==
  ASSUME LogTypeOK, NEW s \in Syncers, SyncSwap(s)
  PROVE  /\ buf' \in Seq(Nat)
         /\ spc' \in [Syncers -> {"out", "push"}] /\ moving' \in [Syncers -> Seq(Nat)]
BY DEF LogTypeOK, SyncSwap

\* pushLogBuffer adds a batch that has something in it; the writer sleeps afterwards only
\* if it slept before and nothing was handed on.
LEMMA PushTypes ==
  ASSUME LogTypeOK, NEW s \in Syncers, SyncPush(s)
  PROVE  /\ spc' \in [Syncers -> {"out", "push"}] /\ moving' \in [Syncers -> Seq(Nat)]
         /\ m_buffers' \in Seq(Seq(Nat) \ {<<>>})
         /\ wpc' \in {"none", "start", "ready", "waiting", "write", "done"}
         /\ wpc' = "waiting" => wpc = "waiting" /\ m_buffers' = m_buffers
<1>1. /\ moving[s] \in Seq(Nat) /\ m_buffers \in Seq(Seq(Nat) \ {<<>>})
      /\ wpc \in {"none", "start", "ready", "waiting", "write", "done"}
  BY DEF LogTypeOK
<1>2. spc' \in [Syncers -> {"out", "push"}] /\ moving' \in [Syncers -> Seq(Nat)]
  <2>1. <<>> \in Seq(Nat)
    OBVIOUS
  <2> QED
    BY <2>1 DEF SyncPush, LogTypeOK
<1>3. CASE HandsOn(moving[s])
  <2>1. moving[s] \in Seq(Nat) \ {<<>>}
    BY <1>1, <1>3 DEF HandsOn
  <2>2. m_buffers' = Append(m_buffers, moving[s]) /\ wpc' = Signalled
    BY <1>3 DEF SyncPush, Enqueued
  <2>3. m_buffers' \in Seq(Seq(Nat) \ {<<>>})
    <3> DEFINE Batches == Seq(Nat) \ {<<>>}
    <3>1. m_buffers \in Seq(Batches) /\ moving[s] \in Batches
      BY <1>1, <2>1
    <3> HIDE DEF Batches
    <3>2. Append(m_buffers, moving[s]) \in Seq(Batches)
      BY <3>1
    <3> QED
      BY <2>2, <3>2 DEF Batches
  <2> QED
    BY <1>1, <1>2, <2>2, <2>3 DEF Signalled
<1>4. CASE ~HandsOn(moving[s])
  BY <1>1, <1>2, <1>4 DEF SyncPush
<1> QED
  BY <1>3, <1>4

-----------------------------------------------------------------------------
\* Every buffer keeps its type and the writer is given no empty batch, whoever runs
\* syncLoop (Logger::syncLoop, AsyncLogger::pushLogBuffer).
THEOREM LogTypeCorrect == LogSafeSpec => []LogTypeOK
<1>1. LogInit => LogTypeOK
  <2> SUFFICES ASSUME LogInit PROVE LogTypeOK
    OBVIOUS
  <2>1. <<>> \in Seq(Nat)
    OBVIOUS
  <2>2. m_buffers \in Seq(Seq(Nat) \ {<<>>})
    <3> DEFINE Batches == Seq(Nat) \ {<<>>}
    <3> HIDE DEF Batches
    <3>1. m_buffers \in Seq(Batches)
      BY DEF LogInit
    <3> QED
      BY <3>1 DEF Batches
  <2>3. spc \in [Syncers -> {"out", "push"}] /\ moving \in [Syncers -> Seq(Nat)]
    BY <2>1 DEF LogInit
  <2> QED
    BY <2>1, <2>2, <2>3 DEF LogInit, LogTypeOK
<1>2. LogTypeOK /\ [LogNext]_logVars => LogTypeOK'
  <2> SUFFICES ASSUME LogTypeOK, [LogNext]_logVars PROVE LogTypeOK'
    OBVIOUS
  <2>0. "loop" \in Syncers /\ "handler" \in Syncers
    BY DEF Syncers
  <2>1. CASE \E level \in DOMAIN Levels : PushLog(level)
    BY <2>1, AppendTypes DEF PushLog, LogTypeOK, initVars, syncVars, writerVars, handlerVars
  <2>a. CASE StartUp
    BY <2>a DEF StartUp, CreateWriter, Constructed, InitLogger, LogTypeOK, initVars, syncVars,
        writerVars, handlerVars
  <2>b. CASE Start
    BY <2>b DEF Start, LogTypeOK, initVars, syncVars, handlerVars
  <2>2. CASE TimerSync
    <3>1. CASE SyncSwap("loop") /\ UNCHANGED <<m_buffers, wpc>>
      BY <2>0, <2>2, <3>1, SwapTypes DEF TimerSync, LogTypeOK, initVars, handlerVars
    <3>2. CASE SyncPush("loop") /\ UNCHANGED buf
      BY <2>0, <2>2, <3>2, PushTypes DEF TimerSync, LogTypeOK, initVars, handlerVars
    <3> QED
      BY <2>2, <3>1, <3>2 DEF TimerSync
  <2>3. CASE Wait
    BY <2>3 DEF Wait, LogTypeOK, initVars, syncVars, handlerVars
  <2>4. CASE TakeBatch
    <3> DEFINE Batches == Seq(Nat) \ {<<>>}
    <3>1. m_buffers \in Seq(Batches) /\ m_buffers # <<>>
      BY <2>4 DEF TakeBatch, LogTypeOK
    <3> HIDE DEF Batches
    <3>2. Head(m_buffers) \in Batches /\ Tail(m_buffers) \in Seq(Batches)
      BY <3>1
    <3>3. writing' \in Seq(Nat) /\ m_buffers' \in Seq(Seq(Nat) \ {<<>>})
      BY <2>4, <3>2 DEF TakeBatch, Popped, Batches
    <3> QED
      BY <2>4, <3>3 DEF TakeBatch, LogTypeOK, initVars, syncVars, handlerVars
  <2>5. CASE WriteBatch
    BY <2>5 DEF WriteBatch, AfterBatch, LogTypeOK, initVars, syncVars, handlerVars
  <2>6. CASE Signal
    BY <2>6, AppendTypes DEF Signal, LogTypeOK, initVars, syncVars, writerVars
  <2>7. CASE HandlerSwap
    BY <2>0, <2>7, SwapTypes DEF HandlerSwap, LogTypeOK, initVars, writerVars, handlerVars
  <2>8. CASE HandlerPush
    BY <2>0, <2>8, PushTypes DEF HandlerPush, LogTypeOK, initVars
  <2>9. CASE HandlerStop \/ HandlerJoin \/ UNCHANGED logVars
    BY <2>9 DEF HandlerStop, HandlerJoin, LogTypeOK, initVars, syncVars, writerVars,
        handlerVars, logVars
  <2> QED
    BY <2>1, <2>a, <2>b, <2>2, <2>3, <2>4, <2>5, <2>6, <2>7, <2>8, <2>9 DEF LogNext, Writer,
        HandlerSteps
<1> QED
  BY <1>1, <1>2, PTL DEF LogSafeSpec

\* The AsyncLogger's thread does not sleep on a batch: it waits only after it saw the
\* queue empty, and both who may add to it signal (AsyncLogger::Loop, pushLogBuffer).
THEOREM LogWakesWriter == LogSafeSpec => []NoMissedSignal
<1>1. LogInit => NoMissedSignal
  BY DEF LogInit, NoMissedSignal
<1>2. LogTypeOK /\ NoMissedSignal /\ [LogNext]_logVars => NoMissedSignal'
  <2> SUFFICES ASSUME LogTypeOK, NoMissedSignal, [LogNext]_logVars PROVE NoMissedSignal'
    OBVIOUS
  <2>1. CASE UNCHANGED <<m_buffers, wpc>>
    BY <2>1 DEF NoMissedSignal
  <2>2. CASE \E s \in Syncers : SyncPush(s)
    BY <2>2, PushTypes DEF NoMissedSignal
  <2>3. CASE Wait
    BY <2>3 DEF Wait, NoMissedSignal
  <2>4. CASE TakeBatch
    BY <2>4 DEF TakeBatch, NoMissedSignal
  <2>5. CASE WriteBatch
    BY <2>5 DEF WriteBatch, AfterBatch, NoMissedSignal
  <2>6. CASE CreateWriter \/ Start
    BY <2>6 DEF CreateWriter, Start, NoMissedSignal
  <2> QED
    BY <2>1, <2>2, <2>3, <2>4, <2>5, <2>6
    DEF LogNext, StartUp, Constructed, InitLogger, PushLog, TimerSync, Writer, Signal,
        HandlerSteps, HandlerSwap, HandlerPush, HandlerStop, HandlerJoin, Syncers, writerVars,
        logVars
<1> QED
  BY <1>1, <1>2, LogTypeCorrect, PTL DEF LogSafeSpec

-----------------------------------------------------------------------------
(* No message is lost, doubled or overtaken *)

\* The three properties of LogComplete for any parts, and that every message was pushed
Known(parts, n) == \A i \in DOMAIN parts : \A k \in DOMAIN parts[i] : parts[i][k] \in 1..n
Complete(parts, n) ==
  \A x \in 1..n : \E i \in DOMAIN parts : \E k \in DOMAIN parts[i] : parts[i][k] = x
Single(parts) ==
  \A i, j \in DOMAIN parts : \A k \in DOMAIN parts[i], l \in DOMAIN parts[j] :
    parts[i][k] = parts[j][l] => i = j /\ k = l
Sorted(parts) ==
  \A i, j \in DOMAIN parts : \A k \in DOMAIN parts[i], l \in DOMAIN parts[j] :
    i < j \/ (i = j /\ k < l) => parts[i][k] < parts[j][l]
Sound(parts, n) == Known(parts, n) /\ Complete(parts, n) /\ Single(parts)

\* What is where in one sequence after another
LEMMA Concatenated ==
  ASSUME NEW S, NEW s \in Seq(S), NEW t \in Seq(S)
  PROVE  /\ s \o t \in Seq(S) /\ Len(s \o t) = Len(s) + Len(t)
         /\ Len(s) \in Nat /\ Len(t) \in Nat
         /\ DOMAIN (s \o t) = 1..(Len(s) + Len(t))
         /\ \A i \in 1..Len(s) : (s \o t)[i] = s[i]
         /\ \A i \in 1..Len(t) : (s \o t)[Len(s) + i] = t[i]
OBVIOUS

\* Parts of a pipeline, by their number
LEMMA PartNumbers ==
  ASSUME NEW S, NEW f \in S, NEW w \in S, NEW q \in Seq(S), NEW l \in S, NEW h \in S, NEW b \in S,
         NEW parts, parts = <<f, w>> \o q \o <<l, h, b>>
  PROVE  /\ parts \in Seq(S) /\ DOMAIN parts = 1..(Len(q) + 5)
         /\ parts[1] = f /\ parts[2] = w
         /\ \A i \in 1..Len(q) : parts[i + 2] = q[i]
         /\ parts[Len(q) + 3] = l /\ parts[Len(q) + 4] = h /\ parts[Len(q) + 5] = b
<1>1. <<f, w>> \in Seq(S) /\ <<l, h, b>> \in Seq(S)
  OBVIOUS
<1> DEFINE front == <<f, w>>
           back == <<l, h, b>>
<1>2. /\ Len(front) = 2 /\ front[1] = f /\ front[2] = w
      /\ Len(back) = 3 /\ back[1] = l /\ back[2] = h /\ back[3] = b
  OBVIOUS
<1>3. front \in Seq(S) /\ back \in Seq(S) /\ parts = (front \o q) \o back
  BY <1>1
<1> HIDE DEF front, back
<1>4. /\ front \o q \in Seq(S) /\ Len(front \o q) = Len(q) + 2
      /\ (front \o q)[1] = f /\ (front \o q)[2] = w
      /\ \A i \in 1..Len(q) : (front \o q)[i + 2] = q[i]
  <2>1. /\ front \o q \in Seq(S) /\ Len(front \o q) = 2 + Len(q) /\ Len(q) \in Nat
        /\ \A i \in 1..2 : (front \o q)[i] = front[i]
        /\ \A i \in 1..Len(q) : (front \o q)[2 + i] = q[i]
    <3>1. /\ front \o q \in Seq(S) /\ Len(front \o q) = Len(front) + Len(q) /\ Len(q) \in Nat
          /\ \A i \in 1..Len(front) : (front \o q)[i] = front[i]
          /\ \A i \in 1..Len(q) : (front \o q)[Len(front) + i] = q[i]
      BY <1>3, Concatenated
    <3> QED
      BY <1>2, <3>1
  <2>2. \A i \in 1..Len(q) : 2 + i = i + 2
    BY <2>1
  <2> QED
    BY <1>2, <2>1, <2>2
<1>5. /\ parts \in Seq(S) /\ Len(parts) = (Len(q) + 2) + 3
      /\ \A i \in 1..(Len(q) + 2) : parts[i] = (front \o q)[i]
      /\ \A i \in 1..3 : parts[(Len(q) + 2) + i] = back[i]
      /\ Len(q) \in Nat
  BY <1>2, <1>3, <1>4, Concatenated
<1>6. parts[Len(q) + 3] = l /\ parts[Len(q) + 4] = h /\ parts[Len(q) + 5] = b
  <2>1. 1 \in 1..3 /\ 2 \in 1..3 /\ 3 \in 1..3 /\ Len(q) \in Nat
    OBVIOUS
  <2>2. parts[Len(q) + 2 + 1] = l /\ parts[Len(q) + 2 + 2] = h /\ parts[Len(q) + 2 + 3] = b
    BY <1>2, <1>5, <2>1
  <2> QED
    BY <2>1, <2>2
<1>7. /\ 1 \in 1..(Len(q) + 2) /\ 2 \in 1..(Len(q) + 2)
      /\ \A i \in 1..Len(q) : i + 2 \in 1..(Len(q) + 2)
  BY <1>5
<1>8. DOMAIN parts = 1..(Len(q) + 5)
  BY <1>5
<1> QED
  BY <1>4, <1>5, <1>6, <1>7, <1>8

\* Whole parts change places: where each that is not empty came from is told by a function.
Moved(P, kp, Q, kq, from) ==
  /\ kp \in Nat /\ kq \in Nat /\ DOMAIN P = 1..kp /\ DOMAIN Q = 1..kq
  /\ from \in [1..kq -> Nat]
  /\ \A i \in 1..kq : Q[i] # <<>> => from[i] \in 1..kp /\ Q[i] = P[from[i]]
  /\ \A i, j \in 1..kq : Q[i] # <<>> /\ Q[j] # <<>> /\ from[i] = from[j] => i = j
  /\ \A j \in 1..kp : P[j] # <<>> => \E i \in 1..kq : Q[i] # <<>> /\ from[i] = j

InTheirOrder(Q, kq, from) ==
  \A i, j \in 1..kq : Q[i] # <<>> /\ Q[j] # <<>> /\ i < j => from[i] < from[j]

LEMMA PartsMove ==
  ASSUME NEW n, NEW P, NEW Q, NEW kp, NEW kq, NEW from,
         Moved(P, kp, Q, kq, from), Sound(P, n)
  PROVE  Sound(Q, n) /\ (InTheirOrder(Q, kq, from) /\ Sorted(P) => Sorted(Q))
<1> USE DEF Moved
<1>0. \A i, k : i \in DOMAIN Q /\ k \in DOMAIN Q[i] => Q[i] # <<>>
  OBVIOUS
<1>a. \A i, k : i \in DOMAIN P /\ k \in DOMAIN P[i] => P[i] # <<>>
  OBVIOUS
<1>b. \A i : i \in DOMAIN Q => i \in Nat
  OBVIOUS
<1>1. Known(Q, n)
  BY <1>0 DEF Known, Sound
<1>2. Complete(Q, n)
  <2> SUFFICES ASSUME NEW x \in 1..n PROVE \E i \in DOMAIN Q : \E k \in DOMAIN Q[i] : Q[i][k] = x
    BY DEF Complete
  <2>1. PICK j \in DOMAIN P : \E k \in DOMAIN P[j] : P[j][k] = x
    BY DEF Complete, Sound
  <2>2. PICK i \in DOMAIN Q : Q[i] # <<>> /\ from[i] = j
    BY <1>a, <2>1
  <2> QED
    BY <2>1, <2>2
<1>3. Single(Q)
  <2> SUFFICES ASSUME NEW i \in DOMAIN Q, NEW j \in DOMAIN Q, NEW k \in DOMAIN Q[i],
                      NEW l \in DOMAIN Q[j], Q[i][k] = Q[j][l]
               PROVE  i = j /\ k = l
    BY DEF Single
  <2>1. /\ from[i] \in DOMAIN P /\ Q[i] = P[from[i]] /\ Q[i] # <<>>
        /\ from[j] \in DOMAIN P /\ Q[j] = P[from[j]] /\ Q[j] # <<>>
    BY <1>0
  <2>2. from[i] = from[j] /\ k = l
    BY <2>1 DEF Single, Sound
  <2> QED
    BY <2>1, <2>2
<1>4. ASSUME InTheirOrder(Q, kq, from), Sorted(P)
      PROVE  Sorted(Q)
  <2> SUFFICES ASSUME NEW i \in DOMAIN Q, NEW j \in DOMAIN Q, NEW k \in DOMAIN Q[i],
                      NEW l \in DOMAIN Q[j], i < j \/ (i = j /\ k < l)
               PROVE  Q[i][k] < Q[j][l]
    BY DEF Sorted
  <2>1. /\ from[i] \in DOMAIN P /\ Q[i] = P[from[i]] /\ Q[i] # <<>>
        /\ from[j] \in DOMAIN P /\ Q[j] = P[from[j]] /\ Q[j] # <<>>
    BY <1>0
  <2>2. from[i] < from[j] \/ (from[i] = from[j] /\ k < l)
    BY <1>4, <2>1 DEF InTheirOrder
  <2> QED
    BY <1>4, <2>1, <2>2 DEF Sorted
<1> QED
  BY <1>1, <1>2, <1>3, <1>4 DEF Sound

\* A swap: part j, which was empty, takes over the last part.
LEMMA LastMoves ==
  ASSUME NEW k \in Nat, NEW j \in 1..(k - 1), NEW n \in Nat,
         NEW P, NEW Q, Sound(P, n),
         DOMAIN P = 1..k, DOMAIN Q = 1..k, P[j] = <<>>, Q[j] = P[k], Q[k] = <<>>,
         \A i \in 1..(k - 1) : i # j => Q[i] = P[i]
  PROVE  /\ Sound(Q, n)
         /\ (\A i \in 1..(k - 1) : i > j => P[i] = <<>>) /\ Sorted(P) => Sorted(Q)
<1> DEFINE from == [i \in 1..k |-> IF i = j THEN k ELSE i]
<1>1. from \in [1..k -> Nat] /\ \A i \in 1..k : from[i] = IF i = j THEN k ELSE i
  OBVIOUS
<1> HIDE DEF from
<1>2. ASSUME NEW i \in 1..k, Q[i] # <<>>
      PROVE  /\ i < k /\ (i = j \/ (i # j /\ Q[i] = P[i]))
             /\ (i = j => from[i] = k) /\ (i # j => from[i] = i)
             /\ from[i] \in 1..k /\ Q[i] = P[from[i]]
  BY <1>1, <1>2
<1>3. ASSUME NEW i \in 1..k, NEW h \in 1..k, Q[i] # <<>>, Q[h] # <<>>, from[i] = from[h]
      PROVE  i = h
  BY <1>2, <1>3
<1>4. ASSUME NEW h \in 1..k, P[h] # <<>> PROVE \E i \in 1..k : Q[i] # <<>> /\ from[i] = h
  <2>1. CASE h = k
    BY <1>1, <1>4, <2>1
  <2>2. CASE h # k
    BY <1>1, <1>4, <2>2
  <2> QED
    BY <2>1, <2>2
<1>5. ASSUME \A i \in 1..(k - 1) : i > j => P[i] = <<>>,
             NEW i \in 1..k, NEW h \in 1..k, Q[i] # <<>>, Q[h] # <<>>, i < h
      PROVE  from[i] < from[h]
  <2>1. i < k /\ h < k /\ ~(i > j) /\ ~(h > j)
    BY <1>2, <1>5
  <2> QED
    BY <1>2, <1>5, <2>1
<1> QED
  <2>1. Moved(P, k, Q, k, from)
    BY <1>1, <1>2, <1>3, <1>4 DEF Moved
  <2>2. (\A i \in 1..(k - 1) : i > j => P[i] = <<>>) => InTheirOrder(Q, k, from)
    BY <1>5 DEF InTheirOrder
  <2> QED
    BY <2>1, <2>2, PartsMove

\* A push to the queue: part j goes to place p, before it, and leaves an empty part.
LEMMA PartIsQueued ==
  ASSUME NEW k \in Nat, NEW p \in 1..k, NEW j \in p..k, NEW n \in Nat,
         NEW P, NEW Q, Sound(P, n),
         DOMAIN P = 1..k, DOMAIN Q = 1..(k + 1),
         \A i \in 1..(p - 1) : Q[i] = P[i],
         Q[p] = P[j], Q[j + 1] = <<>>,
         \A i \in p..k : i # j => Q[i + 1] = P[i]
  PROVE  /\ Sound(Q, n)
         /\ (\A i \in p..(j - 1) : P[i] = <<>>) /\ Sorted(P) => Sorted(Q)
<1> DEFINE from == [i \in 1..(k + 1) |-> IF i < p THEN i ELSE IF i = p THEN j ELSE i - 1]
<1>1. /\ from \in [1..(k + 1) -> Nat]
      /\ \A i \in 1..(k + 1) : from[i] = IF i < p THEN i ELSE IF i = p THEN j ELSE i - 1
  OBVIOUS
<1> HIDE DEF from
<1>2. ASSUME NEW i \in 1..(k + 1), Q[i] # <<>>
      PROVE  /\ \/ i < p /\ from[i] = i
                \/ i = p /\ from[i] = j
                \/ i > p /\ from[i] = i - 1 /\ i - 1 # j
             /\ from[i] \in 1..k /\ Q[i] = P[from[i]]
  <2>1. CASE i < p
    <3>1. from[i] = i /\ Q[i] = P[i]
      BY <1>1, <2>1
    <3> QED
      BY <2>1, <3>1
  <2>3. CASE i = p
    BY <1>1, <2>3
  <2>2. CASE i > p
    <3>1. from[i] = i - 1 /\ i - 1 \in p..k /\ (i - 1) + 1 = i
      BY <1>1, <2>2
    <3>2. i - 1 # j
      BY <1>2, <3>1
    <3> QED
      BY <2>2, <3>1, <3>2
  <2> QED
    BY <2>1, <2>2, <2>3
<1>3. ASSUME NEW i \in 1..(k + 1), NEW h \in 1..(k + 1), Q[i] # <<>>, Q[h] # <<>>,
             from[i] = from[h]
      PROVE  i = h
  BY <1>2, <1>3
<1>4. ASSUME NEW h \in 1..k, P[h] # <<>>
      PROVE  \E i \in 1..(k + 1) : Q[i] # <<>> /\ from[i] = h
  <2>1. CASE h = j
    <3>1. p \in 1..(k + 1) /\ from[p] = j /\ Q[p] = P[j]
      BY <1>1
    <3> QED
      BY <1>4, <2>1, <3>1
  <2>2. CASE h # j /\ h < p
    <3>1. h \in 1..(k + 1) /\ from[h] = h /\ Q[h] = P[h]
      BY <1>1, <2>2
    <3> QED
      BY <1>4, <3>1
  <2>3. CASE h # j /\ ~(h < p)
    <3>1. h \in p..k /\ h + 1 \in 1..(k + 1) /\ Q[h + 1] = P[h]
      BY <2>3
    <3>2. from[h + 1] = h
      BY <1>1, <2>3, <3>1
    <3> QED
      BY <1>4, <3>1, <3>2
  <2> QED
    BY <2>1, <2>2, <2>3
<1>5. ASSUME \A i \in p..(j - 1) : P[i] = <<>>,
             NEW i \in 1..(k + 1), NEW h \in 1..(k + 1), Q[i] # <<>>, Q[h] # <<>>, i < h
      PROVE  from[i] < from[h]
  <2>1. CASE i = p
    <3>1. from[i] = j /\ from[h] = h - 1 /\ h - 1 # j /\ Q[h] = P[h - 1] /\ h - 1 \in p..k
      BY <1>2, <1>5, <2>1
    <3>2. ~(h - 1 < j)
      BY <1>5, <3>1
    <3> QED
      BY <3>1, <3>2
  <2>2. CASE i # p
    BY <1>2, <1>5, <2>2
  <2> QED
    BY <2>1, <2>2
<1> QED
  <2>1. Moved(P, k, Q, (k + 1), from)
    BY <1>1, <1>2, <1>3, <1>4 DEF Moved
  <2>2. (\A i \in p..(j - 1) : P[i] = <<>>) => InTheirOrder(Q, (k + 1), from)
    BY <1>5 DEF InTheirOrder
  <2> QED
    BY <2>1, <2>2, PartsMove

\* The writer takes a batch: the second part, which was empty, disappears.
LEMMA SecondDisappears ==
  ASSUME NEW k \in Nat, k >= 2, NEW n \in Nat,
         NEW P, NEW Q, Sound(P, n),
         DOMAIN P = 1..(k + 1), DOMAIN Q = 1..k,
         P[2] = <<>>, Q[1] = P[1], \A i \in 2..k : Q[i] = P[i + 1]
  PROVE  Sound(Q, n) /\ (Sorted(P) => Sorted(Q))
<1> DEFINE from == [i \in 1..k |-> IF i = 1 THEN 1 ELSE i + 1]
<1>1. /\ from \in [1..k -> Nat]
      /\ \A i \in 1..k : from[i] = IF i = 1 THEN 1 ELSE i + 1
  OBVIOUS
<1> HIDE DEF from
<1>2. ASSUME NEW i \in 1..k PROVE /\ i = 1 => from[i] = 1
                                  /\ i > 1 => from[i] = i + 1
                                  /\ from[i] \in 1..(k + 1) /\ Q[i] = P[from[i]]
  <2>1. CASE i = 1
    BY <1>1, <2>1
  <2>2. CASE i > 1
    <3>1. i \in 2..k /\ from[i] = i + 1
      BY <1>1, <2>2
    <3> QED
      BY <2>2, <3>1
  <2> QED
    BY <2>1, <2>2
<1>3. ASSUME NEW i \in 1..k, NEW h \in 1..k
      PROVE  (from[i] = from[h] => i = h) /\ (i < h => from[i] < from[h])
  BY <1>2
<1>4. ASSUME NEW h \in 1..(k + 1), P[h] # <<>> PROVE \E i \in 1..k : Q[i] # <<>> /\ from[i] = h
  <2>1. CASE h = 1
    BY <1>1, <1>4, <2>1
  <2>2. CASE h # 1
    <3>0. h # 2
      BY <1>4
    <3>1. h - 1 \in 2..k /\ (h - 1) + 1 = h
      BY <2>2, <3>0
    <3>2. Q[h - 1] = P[h]
      BY <3>1
    <3> QED
      BY <1>1, <1>4, <3>1, <3>2
  <2> QED
    BY <2>1, <2>2
<1> QED
  <2>1. Moved(P, k + 1, Q, k, from)
    BY <1>1, <1>2, <1>3, <1>4 DEF Moved
  <2>2. InTheirOrder(Q, k, from)
    BY <1>3 DEF InTheirOrder
  <2> QED
    BY <2>1, <2>2, PartsMove

\* The writer writes: the second part is added to the first.
LEMMA SecondIsWritten ==
  ASSUME NEW k \in Nat, k >= 2, NEW n \in Nat, NEW P, NEW Q, Sound(P, n),
         DOMAIN P = 1..k, DOMAIN Q = 1..k,
         P[1] \in Seq(Nat), P[2] \in Seq(Nat), Q[1] = P[1] \o P[2], Q[2] = <<>>,
         \A i \in 3..k : Q[i] = P[i]
  PROVE  Sound(Q, n) /\ (Sorted(P) => Sorted(Q))
<1> DEFINE a == Len(P[1])
           b == Len(P[2])
<1>1. /\ a \in Nat /\ b \in Nat /\ DOMAIN P[1] = 1..a /\ DOMAIN P[2] = 1..b
      /\ DOMAIN Q[1] = 1..(a + b)
      /\ \A x \in 1..a : Q[1][x] = P[1][x]
      /\ \A x \in 1..b : Q[1][a + x] = P[2][x]
  BY Concatenated
<1> HIDE DEF a, b
\* A message in Q, and where it was in P
<1> DEFINE Was(i, x, j, y) == \/ i = 1 /\ x <= a /\ j = 1 /\ y = x
                              \/ i = 1 /\ x > a /\ j = 2 /\ y = x - a
                              \/ i > 2 /\ j = i /\ y = x
<1>2. ASSUME NEW i \in 1..k, NEW x \in DOMAIN Q[i]
      PROVE  \E j \in 1..k : \E y \in DOMAIN P[j] : Was(i, x, j, y) /\ Q[i][x] = P[j][y]
                                                  /\ (i = 1 => x \in Nat)
  <2>1. CASE i = 1 /\ x <= a
    <3>1. x \in 1..a /\ 1 \in 1..k /\ Q[1][x] = P[1][x]
      BY <1>1, <2>1
    <3>2. x \in DOMAIN P[1] /\ Was(i, x, 1, x) /\ Q[i][x] = P[1][x] /\ x \in Nat
      BY <1>1, <2>1, <3>1
    <3> QED
      BY <3>1, <3>2
  <2>2. CASE i = 1 /\ x > a
    <3>1. x - a \in 1..b /\ x = a + (x - a) /\ 2 \in 1..k /\ x \in Nat
      BY <1>1, <2>2
    <3>2. Q[1][x] = P[2][x - a]
      BY <1>1, <3>1
    <3> QED
      BY <1>1, <2>2, <3>1, <3>2
  <2>3. CASE i = 2
    <3>1. DOMAIN (<<>>) = {}
      OBVIOUS
    <3> QED
      BY <2>3, <3>1
  <2>4. CASE i > 2
    <3>1. i \in 3..k /\ Q[i] = P[i]
      BY <2>4
    <3> QED
      BY <2>4, <3>1
  <2> QED
    BY <1>1, <2>1, <2>2, <2>3, <2>4
<1>3. ASSUME NEW j \in 1..k, NEW y \in DOMAIN P[j]
      PROVE  \E i \in 1..k : \E x \in DOMAIN Q[i] : Q[i][x] = P[j][y]
  <2>1. CASE j = 1
    <3>1. y \in 1..(a + b) /\ 1 \in 1..k /\ Q[1][y] = P[1][y]
      BY <1>1, <2>1
    <3> QED
      BY <1>1, <2>1, <3>1
  <2>2. CASE j = 2
    <3>1. a + y \in 1..(a + b) /\ 1 \in 1..k /\ Q[1][a + y] = P[2][y]
      BY <1>1, <2>2
    <3> QED
      BY <1>1, <2>2, <3>1, ZenonT(30)
  <2>3. CASE j > 2
    <3>1. j \in 3..k /\ Q[j] = P[j]
      BY <2>3
    <3> QED
      BY <3>1
  <2>4. j = 1 \/ j = 2 \/ j > 2
    OBVIOUS
  <2> QED
    BY <2>1, <2>2, <2>3, <2>4
<1>4. Known(Q, n)
  <2> SUFFICES ASSUME NEW i \in 1..k, NEW x \in DOMAIN Q[i] PROVE Q[i][x] \in 1..n
    BY DEF Known
  <2> HIDE DEF Was
  <2>1. PICK j \in 1..k : \E y \in DOMAIN P[j] : Q[i][x] = P[j][y]
    BY <1>2
  <2> QED
    BY <2>1 DEF Known, Sound
<1>5. Complete(Q, n)
  <2> SUFFICES ASSUME NEW v \in 1..n PROVE \E i \in 1..k : \E x \in DOMAIN Q[i] : Q[i][x] = v
    BY DEF Complete
  <2>1. PICK j \in 1..k : \E y \in DOMAIN P[j] : P[j][y] = v
    BY DEF Complete, Sound
  <2> QED
    BY <1>3, <2>1
<1>a. \A j, g \in 1..k : \A y \in DOMAIN P[j], w \in DOMAIN P[g] :
        P[j][y] = P[g][w] => j = g /\ y = w
  BY DEF Single, Sound
<1>b. ASSUME Sorted(P)
      PROVE  \A j, g \in 1..k : \A y \in DOMAIN P[j], w \in DOMAIN P[g] :
               j < g \/ (j = g /\ y < w) => P[j][y] < P[g][w]
  BY <1>b DEF Sorted
<1>6. ASSUME NEW i \in 1..k, NEW h \in 1..k, NEW x \in DOMAIN Q[i], NEW z \in DOMAIN Q[h]
      PROVE  /\ Q[i][x] = Q[h][z] => i = h /\ x = z
             /\ (i < h \/ (i = h /\ x < z)) /\ Sorted(P) => Q[i][x] < Q[h][z]
  <2> HIDE DEF Was
  <2>1. PICK j \in 1..k : \E y \in DOMAIN P[j] : Was(i, x, j, y) /\ Q[i][x] = P[j][y]
                                               /\ (i = 1 => x \in Nat)
    BY <1>2
  <2>2. PICK y \in DOMAIN P[j] : Was(i, x, j, y) /\ Q[i][x] = P[j][y] /\ (i = 1 => x \in Nat)
    BY <2>1
  <2>3. PICK g \in 1..k : \E w \in DOMAIN P[g] : Was(h, z, g, w) /\ Q[h][z] = P[g][w]
                                               /\ (h = 1 => z \in Nat)
    BY <1>2
  <2>4. PICK w \in DOMAIN P[g] : Was(h, z, g, w) /\ Q[h][z] = P[g][w] /\ (h = 1 => z \in Nat)
    BY <2>3
  <2>5. j = g /\ y = w => i = h /\ x = z
    BY <1>1, <2>2, <2>4 DEF Was
  <2>6. i < h \/ (i = h /\ x < z) => j < g \/ (j = g /\ y < w)
    BY <1>1, <2>2, <2>4, SMTT(30) DEF Was
  <2>7. P[j][y] = P[g][w] => j = g /\ y = w
    BY <1>a
  <2>8. Sorted(P) /\ (j < g \/ (j = g /\ y < w)) => P[j][y] < P[g][w]
    BY <1>b
  <2> QED
    BY <2>2, <2>4, <2>5, <2>6, <2>7, <2>8
<1>7. Single(Q) /\ (Sorted(P) => Sorted(Q))
  BY <1>6 DEF Single, Sorted
<1> QED
  BY <1>4, <1>5, <1>7 DEF Sound

\* A new message at the end of the last part.
LEMMA MessageIsAdded ==
  ASSUME NEW k \in Nat, k >= 1, NEW n \in Nat, NEW P, NEW Q, Sound(P, n),
         DOMAIN P = 1..k, DOMAIN Q = 1..k,
         P[k] \in Seq(Nat), Q[k] = Append(P[k], n + 1),
         \A i \in 1..(k - 1) : Q[i] = P[i]
  PROVE  Sound(Q, n + 1) /\ (Sorted(P) => Sorted(Q))
<1> DEFINE c == Len(P[k])
<1>1. /\ c \in Nat /\ DOMAIN P[k] = 1..c /\ DOMAIN Q[k] = 1..(c + 1)
      /\ \A x \in 1..c : Q[k][x] = P[k][x]
      /\ Q[k][c + 1] = n + 1
      /\ k \in 1..k
  OBVIOUS
<1> HIDE DEF c
<1>2. ASSUME NEW i \in 1..k, NEW x \in DOMAIN Q[i]
      PROVE  \/ i = k /\ x = c + 1 /\ Q[i][x] = n + 1
             \/ /\ x \in DOMAIN P[i] /\ Q[i][x] = P[i][x] /\ Q[i][x] \in 1..n
                /\ (i = k => x \in 1..c)
  <2>1. CASE i = k
    <3>1. x \in 1..c \/ x = c + 1
      BY <1>1, <2>1
    <3>2. x \in 1..c => Q[k][x] = P[k][x] /\ P[k][x] \in 1..n
      BY <1>1 DEF Known, Sound
    <3> QED
      BY <1>1, <2>1, <3>1, <3>2
  <2>2. CASE i # k
    <3>1. i \in 1..(k - 1) /\ Q[i] = P[i]
      BY <2>2
    <3> QED
      BY <2>2, <3>1 DEF Known, Sound
  <2> QED
    BY <2>1, <2>2
<1>3. ASSUME NEW i \in 1..k, NEW x \in DOMAIN P[i] PROVE x \in DOMAIN Q[i] /\ Q[i][x] = P[i][x]
  <2>1. CASE i = k
    BY <1>1, <2>1
  <2>2. CASE i # k
    <3>1. i \in 1..(k - 1) /\ Q[i] = P[i]
      BY <2>2
    <3> QED
      BY <3>1
  <2> QED
    BY <2>1, <2>2
<1>4. Known(Q, n + 1)
  <2> SUFFICES ASSUME NEW i \in 1..k, NEW x \in DOMAIN Q[i] PROVE Q[i][x] \in 1..(n + 1)
    BY DEF Known
  <2>1. Q[i][x] = n + 1 \/ Q[i][x] \in 1..n
    BY <1>2
  <2> QED
    BY <2>1
<1>5. Complete(Q, n + 1)
  <2> SUFFICES ASSUME NEW v \in 1..(n + 1)
               PROVE  \E i \in 1..k : \E x \in DOMAIN Q[i] : Q[i][x] = v
    BY DEF Complete
  <2>1. CASE v = n + 1
    <3>1. c + 1 \in DOMAIN Q[k]
      BY <1>1
    <3> QED
      BY <1>1, <2>1, <3>1
  <2>2. CASE v # n + 1
    <3>1. v \in 1..n
      BY <2>2
    <3>2. PICK j \in 1..k : \E y \in DOMAIN P[j] : P[j][y] = v
      BY <3>1 DEF Complete, Sound
    <3> QED
      BY <1>3, <3>2
  <2> QED
    BY <2>1, <2>2
<1>6. ASSUME NEW i \in 1..k, NEW h \in 1..k, NEW x \in DOMAIN Q[i], NEW z \in DOMAIN Q[h]
      PROVE  /\ Q[i][x] = Q[h][z] => i = h /\ x = z
             /\ (i < h \/ (i = h /\ x < z)) /\ Sorted(P) => Q[i][x] < Q[h][z]
  <2>1. CASE x \in DOMAIN P[i] /\ Q[i][x] = P[i][x] /\ z \in DOMAIN P[h] /\ Q[h][z] = P[h][z]
    <3>1. P[i][x] = P[h][z] => i = h /\ x = z
      BY <2>1 DEF Single, Sound
    <3>2. Sorted(P) /\ (i < h \/ (i = h /\ x < z)) => P[i][x] < P[h][z]
      BY <2>1 DEF Sorted
    <3> QED
      BY <2>1, <3>1, <3>2
  <2>2. CASE h = k /\ z = c + 1 /\ Q[h][z] = n + 1
    <3>1. (i = k /\ x = c + 1) \/ (Q[i][x] \in 1..n /\ (i = k => x \in 1..c))
      BY <1>2
    <3> QED
      BY <1>1, <2>2, <3>1
  <2>3. CASE i = k /\ x = c + 1 /\ Q[i][x] = n + 1
    <3>1. (h = k /\ z = c + 1) \/ (Q[h][z] \in 1..n /\ (h = k => z \in 1..c))
      BY <1>2
    <3> QED
      BY <1>1, <2>3, <3>1
  <2> QED
    BY <1>2, <2>1, <2>2, <2>3
<1>7. Single(Q) /\ (Sorted(P) => Sorted(Q))
  BY <1>6 DEF Single, Sorted
<1> QED
  BY <1>4, <1>5, <1>7 DEF Sound

-----------------------------------------------------------------------------
\* What is empty when nobody is in the middle of a step of the pipeline; before a signal
\* only the loop's thread runs syncLoop.
Idle ==
  /\ \A s \in Syncers : spc[s] = "out" => moving[s] = <<>>
  /\ wpc # "write" => writing = <<>>
  /\ hpc = "none" => spc["handler"] = "out"

LogInv ==
  /\ Idle
  /\ Sound(Parts, pushed)
  /\ hpc = "none" => Sorted(Parts)

\* The parts by their number in a state, and in the state a step leads to
Numbered(parts, f, w, q, l, h, b) ==
  /\ Len(q) \in Nat /\ DOMAIN parts = 1..(Len(q) + 5)
  /\ parts[1] = f /\ parts[2] = w
  /\ \A i \in 1..Len(q) : parts[i + 2] = q[i]
  /\ parts[Len(q) + 3] = l /\ parts[Len(q) + 4] = h /\ parts[Len(q) + 5] = b

PartTypes(f, w, q, l, h, b) ==
  /\ f \in Seq(Nat) /\ w \in Seq(Nat) /\ q \in Seq(Seq(Nat))
  /\ l \in Seq(Nat) /\ h \in Seq(Nat) /\ b \in Seq(Nat)

LEMMA PartsNumbered ==
  ASSUME NEW f, NEW w, NEW q, NEW l, NEW h, NEW b, PartTypes(f, w, q, l, h, b)
  PROVE  Numbered(<<f, w>> \o q \o <<l, h, b>>, f, w, q, l, h, b)
<1> DEFINE S == Seq(Nat)
           parts == <<f, w>> \o q \o <<l, h, b>>
<1>1. f \in S /\ w \in S /\ q \in Seq(S) /\ l \in S /\ h \in S /\ b \in S /\ Len(q) \in Nat
  BY DEF PartTypes
<1> HIDE DEF S
<1>2. /\ DOMAIN parts = 1..(Len(q) + 5)
      /\ parts[1] = f /\ parts[2] = w
      /\ \A i \in 1..Len(q) : parts[i + 2] = q[i]
      /\ parts[Len(q) + 3] = l /\ parts[Len(q) + 4] = h /\ parts[Len(q) + 5] = b
  <2>1. \A x : x = parts =>
          /\ DOMAIN x = 1..(Len(q) + 5)
          /\ x[1] = f /\ x[2] = w
          /\ \A i \in 1..Len(q) : x[i + 2] = q[i]
          /\ x[Len(q) + 3] = l /\ x[Len(q) + 4] = h /\ x[Len(q) + 5] = b
    BY <1>1, PartNumbers
  <2> HIDE DEF parts
  <2> QED
    BY <2>1
<1> HIDE DEF parts
<1>3. Numbered(parts, f, w, q, l, h, b)
  BY <1>1, <1>2 DEF Numbered
<1> QED
  BY <1>3 DEF parts

LEMMA PartsBefore ==
  ASSUME LogTypeOK
  PROVE  /\ Numbered(Parts, file, writing, m_buffers, moving["loop"], moving["handler"], buf)
         /\ file \in Seq(Nat) /\ writing \in Seq(Nat) /\ m_buffers \in Seq(Seq(Nat)) /\ buf \in Seq(Nat)
         /\ moving["loop"] \in Seq(Nat) /\ moving["handler"] \in Seq(Nat)
<1>1. PartTypes(file, writing, m_buffers, moving["loop"], moving["handler"], buf)
  BY DEF LogTypeOK, Syncers, PartTypes
<1>2. Numbered(Parts, file, writing, m_buffers, moving["loop"], moving["handler"], buf)
  BY <1>1, PartsNumbered DEF Parts
<1> QED
  BY <1>1, <1>2 DEF PartTypes

LEMMA PartsAfter ==
  ASSUME LogTypeOK'
  PROVE  Numbered(Parts', file', writing', m_buffers', moving'["loop"], moving'["handler"], buf')
<1>1. PartTypes(file', writing', m_buffers', moving'["loop"], moving'["handler"], buf')
  BY DEF LogTypeOK, Syncers, PartTypes
<1> QED
  BY <1>1, PartsNumbered DEF Parts

\* A step that leaves every part as it is
LEMMA PartsStay ==
  ASSUME UNCHANGED <<pushed, file, writing, m_buffers, moving, buf>>, Sound(Parts, pushed)
  PROVE  Sound(Parts', pushed') /\ (Sorted(Parts) => Sorted(Parts'))
<1>1. Parts' = Parts
  BY DEF Parts
<1> QED
  BY <1>1

\* pushLog, and the ERRORLOG of CoredumpHandler
LEMMA PushSound ==
  ASSUME LogTypeOK, LogTypeOK', Append1, UNCHANGED <<file, writing, m_buffers, moving>>,
         Sound(Parts, pushed)
  PROVE  Sound(Parts', pushed') /\ (Sorted(Parts) => Sorted(Parts'))
<1> DEFINE P == Parts
           Q == Parts'
           k == Len(m_buffers) + 5
<1>1. /\ Numbered(P, file, writing, m_buffers, moving["loop"], moving["handler"], buf)
      /\ buf \in Seq(Nat) /\ pushed \in Nat
  BY PartsBefore DEF LogTypeOK
<1>2. Numbered(Q, file, writing, m_buffers, moving["loop"], moving["handler"], buf')
  BY PartsAfter
<1>3. buf' = Append(buf, pushed + 1) /\ pushed' = pushed + 1
  BY DEF Append1
<1> HIDE DEF P, Q
<1>4. /\ k \in Nat /\ k >= 1 /\ DOMAIN P = 1..k /\ DOMAIN Q = 1..k
      /\ P[k] = buf /\ Q[k] = buf'
  BY <1>1, <1>2 DEF Numbered
<1>5. ASSUME NEW i \in 1..(k - 1) PROVE Q[i] = P[i]
  <2>1. i \in {1, 2, Len(m_buffers) + 3, Len(m_buffers) + 4} \/ (i - 2 \in 1..Len(m_buffers) /\ i = (i - 2) + 2)
    BY <1>1 DEF Numbered
  <2> QED
    BY <1>1, <1>2, <2>1 DEF Numbered
<1> HIDE DEF k
<1> QED
  <2>1. Sound(P, pushed)
    BY DEF P
  <2>2. Sound(Q, pushed + 1) /\ (Sorted(P) => Sorted(Q))
    BY <1>1, <1>3, <1>4, <1>5, <2>1, MessageIsAdded
  <2> QED
    BY <1>3, <2>2 DEF P, Q

\* The swap of syncLoop; moving[s] was empty.
LEMMA SwapSound ==
  ASSUME LogTypeOK, LogTypeOK', Idle, NEW s \in Syncers, SyncSwap(s),
         UNCHANGED <<pushed, file, writing, m_buffers>>, Sound(Parts, pushed)
  PROVE  /\ Sound(Parts', pushed')
         /\ (s = "loop" => moving["handler"] = <<>>) /\ Sorted(Parts) => Sorted(Parts')
<1> DEFINE P == Parts
           Q == Parts'
           k == Len(m_buffers) + 5
           j == IF s = "loop" THEN Len(m_buffers) + 3 ELSE Len(m_buffers) + 4
<1>1. /\ Numbered(P, file, writing, m_buffers, moving["loop"], moving["handler"], buf)
      /\ pushed \in Nat
  BY PartsBefore DEF LogTypeOK
<1>2. Numbered(Q, file, writing, m_buffers, moving'["loop"], moving'["handler"], buf')
  BY PartsAfter
<1>3. /\ moving[s] = <<>> /\ buf' = <<>>
      /\ \/ s = "loop" /\ moving'["loop"] = buf /\ moving'["handler"] = moving["handler"]
         \/ s = "handler" /\ moving'["handler"] = buf /\ moving'["loop"] = moving["loop"]
  BY DEF SyncSwap, Idle, Syncers, LogTypeOK
<1> HIDE DEF P, Q
<1>4. /\ k \in Nat /\ DOMAIN P = 1..k /\ DOMAIN Q = 1..k /\ j \in 1..(k - 1)
      /\ P[j] = <<>> /\ Q[j] = P[k] /\ Q[k] = <<>>
  <2>1. k \in Nat /\ DOMAIN P = 1..k /\ DOMAIN Q = 1..k /\ j \in 1..(k - 1)
    BY <1>1, <1>2 DEF Numbered
  <2>2. P[k] = buf /\ Q[k] = <<>>
    BY <1>1, <1>2, <1>3 DEF Numbered
  <2>3. CASE s = "loop"
    BY <1>1, <1>2, <1>3, <2>1, <2>2, <2>3 DEF Numbered
  <2>4. CASE s # "loop"
    BY <1>1, <1>2, <1>3, <2>1, <2>2, <2>4 DEF Numbered
  <2> QED
    BY <2>1, <2>2, <2>3, <2>4
<1>5. ASSUME NEW i \in 1..(k - 1), i # j PROVE Q[i] = P[i]
  <2>1. i \in {1, 2, Len(m_buffers) + 3, Len(m_buffers) + 4} \/ (i - 2 \in 1..Len(m_buffers) /\ i = (i - 2) + 2)
    BY <1>1 DEF Numbered
  <2>2. CASE s = "loop"
    BY <1>1, <1>2, <1>3, <1>5, <2>1, <2>2 DEF Numbered
  <2>3. CASE s = "handler"
    BY <1>1, <1>2, <1>3, <1>5, <2>1, <2>3 DEF Numbered
  <2> QED
    BY <1>3, <2>2, <2>3
<1>6. ASSUME s = "loop" => moving["handler"] = <<>>, NEW i \in 1..(k - 1), i > j
      PROVE  P[i] = <<>>
  <2>1. s = "loop" /\ i = Len(m_buffers) + 4
    BY <1>1, <1>3, <1>6 DEF Numbered
  <2> QED
    BY <1>1, <1>6, <2>1 DEF Numbered
<1> HIDE DEF k, j
<1> QED
  <2>1. Sound(P, pushed)
    BY DEF P
  <2>2. /\ Sound(Q, pushed)
        /\ (\A i \in 1..(k - 1) : i > j => P[i] = <<>>) /\ Sorted(P) => Sorted(Q)
    BY <1>1, <1>4, <1>5, <2>1, LastMoves
  <2> QED
    BY <1>6, <2>2 DEF P, Q

\* The rest of syncLoop: what was swapped out goes to the queue, or was nothing.
LEMMA SyncPushSound ==
  ASSUME LogTypeOK, LogTypeOK', NEW s \in Syncers, SyncPush(s),
         UNCHANGED <<pushed, file, writing, buf>>, Sound(Parts, pushed)
  PROVE  Sound(Parts', pushed') /\ (s = "loop" /\ Sorted(Parts) => Sorted(Parts'))
<1> DEFINE P == Parts
           Q == Parts'
           n == Len(m_buffers)
           k == n + 5
           j == IF s = "loop" THEN n + 3 ELSE n + 4
<1>1. /\ Numbered(P, file, writing, m_buffers, moving["loop"], moving["handler"], buf)
      /\ pushed \in Nat /\ m_buffers \in Seq(Seq(Nat)) /\ moving[s] \in Seq(Nat)
  BY PartsBefore DEF LogTypeOK
<1>2. Numbered(Q, file, writing, m_buffers', moving'["loop"], moving'["handler"], buf)
  BY PartsAfter
<1>3. \/ s = "loop" /\ moving'["loop"] = <<>> /\ moving'["handler"] = moving["handler"]
      \/ s = "handler" /\ moving'["handler"] = <<>> /\ moving'["loop"] = moving["loop"]
  BY DEF SyncPush, Syncers, LogTypeOK
<1>4. CASE moving[s] = <<>>
  <2>1. moving' = moving
    BY <1>3, <1>4 DEF SyncPush, LogTypeOK, Syncers
  <2>2. m_buffers' = m_buffers
    BY <1>4 DEF SyncPush, HandsOn
  <2> QED
    BY <2>1, <2>2, PartsStay
<1>5. CASE moving[s] # <<>>
  <2>1. m_buffers' = Append(m_buffers, moving[s])
    BY <1>5 DEF SyncPush, HandsOn, Enqueued
  <2>2. /\ n \in Nat /\ Len(m_buffers') = n + 1 /\ m_buffers'[n + 1] = moving[s]
        /\ \A i \in 1..n : m_buffers'[i] = m_buffers[i]
    BY <1>1, <2>1
  <2> HIDE DEF P, Q, n
  <2>3. /\ k \in Nat /\ DOMAIN P = 1..k /\ DOMAIN Q = 1..(k + 1)
        /\ n + 3 \in 1..k /\ j \in (n + 3)..k
    BY <1>1, <1>2, <2>2 DEF Numbered, n
  <2>4. /\ P[1] = file /\ P[2] = writing /\ \A i \in 1..n : P[i + 2] = m_buffers[i]
        /\ P[n + 3] = moving["loop"] /\ P[n + 4] = moving["handler"] /\ P[n + 5] = buf
    BY <1>1 DEF Numbered, n
  <2>5. /\ Q[1] = file /\ Q[2] = writing /\ \A i \in 1..(n + 1) : Q[i + 2] = m_buffers'[i]
        /\ Q[n + 4] = moving'["loop"] /\ Q[n + 5] = moving'["handler"] /\ Q[n + 6] = buf
    <3>1. (n + 1) + 3 = n + 4 /\ (n + 1) + 4 = n + 5 /\ (n + 1) + 5 = n + 6
      BY <2>2
    <3> QED
      BY <1>2, <2>2, <3>1 DEF Numbered
  <2>6. ASSUME NEW i \in 1..((n + 3) - 1) PROVE Q[i] = P[i]
    <3>1. i = 1 \/ i = 2 \/ (i - 2 \in 1..n /\ i = (i - 2) + 2)
      BY <2>2
    <3>2. ASSUME i - 2 \in 1..n, i = (i - 2) + 2 PROVE Q[i] = P[i]
      <4>1. i - 2 \in 1..(n + 1)
        BY <2>2, <3>2
      <4>2. Q[(i - 2) + 2] = m_buffers'[i - 2] /\ P[(i - 2) + 2] = m_buffers[i - 2]
        BY <2>4, <2>5, <3>2, <4>1
      <4> QED
        BY <2>2, <3>2, <4>2
    <3> QED
      BY <2>4, <2>5, <3>1, <3>2
  <2>7. Q[n + 3] = P[j] /\ Q[j + 1] = <<>>
    <3>1. Q[(n + 1) + 2] = moving[s] /\ (n + 1) + 2 = n + 3
      BY <2>2, <2>5
    <3> QED
      BY <1>3, <2>2, <2>4, <2>5, <3>1
  <2>8. ASSUME NEW i \in (n + 3)..k, i # j PROVE Q[i + 1] = P[i]
    <3>1. i = n + 3 \/ i = n + 4 \/ i = n + 5
      BY <2>2
    <3>2. (n + 3) + 1 = n + 4 /\ (n + 4) + 1 = n + 5 /\ (n + 5) + 1 = n + 6
      BY <2>2
    <3> QED
      BY <1>3, <2>2, <2>4, <2>5, <2>8, <3>1, <3>2
  <2>9. ASSUME s = "loop", NEW i \in (n + 3)..(j - 1) PROVE P[i] = <<>>
    BY <2>2, <2>9
  <2> DEFINE p == n + 3
  <2> HIDE DEF k, j, p
  <2>10. Sound(P, pushed)
    BY DEF P
  <2>11. /\ p \in 1..k /\ j \in p..k
         /\ \A i \in 1..(p - 1) : Q[i] = P[i]
         /\ Q[p] = P[j] /\ Q[j + 1] = <<>>
         /\ \A i \in p..k : i # j => Q[i + 1] = P[i]
         /\ s = "loop" => \A i \in p..(j - 1) : P[i] = <<>>
    BY <2>3, <2>6, <2>7, <2>8, <2>9 DEF p
  <2>12. /\ Sound(Q, pushed)
         /\ (\A i \in p..(j - 1) : P[i] = <<>>) /\ Sorted(P) => Sorted(Q)
    BY <1>1, <2>3, <2>10, <2>11, PartIsQueued
  <2> QED
    BY <2>11, <2>12 DEF P, Q
<1> QED
  BY <1>4, <1>5

\* The writer's thread takes a batch; it had none.
LEMMA TakeSound ==
  ASSUME LogTypeOK, LogTypeOK', Idle, TakeBatch, Sound(Parts, pushed)
  PROVE  Sound(Parts', pushed') /\ (Sorted(Parts) => Sorted(Parts'))
<1> DEFINE P == Parts
           Q == Parts'
           k == Len(m_buffers) + 4
<1>1. /\ Numbered(P, file, writing, m_buffers, moving["loop"], moving["handler"], buf)
      /\ pushed \in Nat /\ m_buffers \in Seq(Seq(Nat))
  BY PartsBefore DEF LogTypeOK
<1>2. Numbered(Q, file', writing', m_buffers', moving'["loop"], moving'["handler"], buf')
  BY PartsAfter
<1>3. /\ writing = <<>> /\ m_buffers # <<>> /\ writing' = Head(m_buffers) /\ m_buffers' = Tail(m_buffers)
      /\ UNCHANGED <<pushed, file, moving, buf>>
  BY DEF TakeBatch, Popped, Idle, syncVars
<1> DEFINE n == Len(m_buffers)
<1>4. /\ n \in Nat /\ n >= 1 /\ Len(m_buffers') = n - 1 /\ writing' = m_buffers[1]
      /\ \A i \in 1..(n - 1) : m_buffers'[i] = m_buffers[i + 1]
  BY <1>1, <1>3
<1> HIDE DEF P, Q
<1>5. /\ P[1] = file /\ P[2] = <<>> /\ \A i \in 1..n : P[i + 2] = m_buffers[i]
      /\ P[n + 3] = moving["loop"] /\ P[n + 4] = moving["handler"] /\ P[n + 5] = buf
      /\ DOMAIN P = 1..(n + 5)
  BY <1>1, <1>3 DEF Numbered
<1> HIDE DEF n
<1>6. /\ Q[1] = file /\ Q[2] = m_buffers[1] /\ \A i \in 1..(n - 1) : Q[i + 2] = m_buffers[i + 1]
      /\ Q[n + 2] = moving["loop"] /\ Q[n + 3] = moving["handler"] /\ Q[n + 4] = buf
      /\ DOMAIN Q = 1..(n + 4)
  <2>1. (n - 1) + 3 = n + 2 /\ (n - 1) + 4 = n + 3 /\ (n - 1) + 5 = n + 4
    BY <1>4
  <2> QED
    BY <1>2, <1>3, <1>4, <2>1 DEF Numbered
<1>7. ASSUME NEW i \in 2..(n + 4) PROVE Q[i] = P[i + 1]
  <2>1. CASE i = 2
    <3>1. P[1 + 2] = m_buffers[1] /\ i + 1 = 1 + 2
      BY <1>4, <1>5, <2>1
    <3> QED
      BY <1>6, <2>1, <3>1
  <2>2. CASE i > 2 /\ i < n + 2
    <3>1. /\ i - 2 \in 1..(n - 1) /\ i = (i - 2) + 2
          /\ (i - 2) + 1 \in 1..n /\ ((i - 2) + 1) + 2 = i + 1
      BY <1>4, <2>2
    <3>2. Q[i] = m_buffers[(i - 2) + 1]
      BY <1>6, <3>1
    <3>3. P[((i - 2) + 1) + 2] = m_buffers[(i - 2) + 1]
      BY <1>5, <3>1
    <3> QED
      BY <3>1, <3>2, <3>3
  <2>3. CASE i >= n + 2 /\ i > 2
    <3>1. i = n + 2 \/ i = n + 3 \/ i = n + 4
      BY <1>4, <2>3
    <3>2. (n + 2) + 1 = n + 3 /\ (n + 3) + 1 = n + 4 /\ (n + 4) + 1 = n + 5
      BY <1>4
    <3> QED
      BY <1>5, <1>6, <3>1, <3>2
  <2> QED
    BY <1>4, <2>1, <2>2, <2>3
<1>8. k \in Nat /\ k >= 2 /\ k = n + 4 /\ k + 1 = n + 5
  BY <1>4 DEF n
<1> HIDE DEF k
<1> QED
  <2>1. Sound(P, pushed)
    BY DEF P
  <2>2. DOMAIN P = 1..(k + 1) /\ DOMAIN Q = 1..k /\ \A i \in 2..k : Q[i] = P[i + 1]
    BY <1>5, <1>6, <1>7, <1>8
  <2>3. Sound(Q, pushed) /\ (Sorted(P) => Sorted(Q))
    BY <1>1, <1>5, <1>6, <1>8, <2>1, <2>2, SecondDisappears
  <2> QED
    BY <1>3, <2>3 DEF P, Q

\* The writer's thread writes its batch.
LEMMA WriteSound ==
  ASSUME LogTypeOK, LogTypeOK', WriteBatch, Sound(Parts, pushed)
  PROVE  Sound(Parts', pushed') /\ (Sorted(Parts) => Sorted(Parts'))
<1> DEFINE P == Parts
           Q == Parts'
           k == Len(m_buffers) + 5
<1>1. /\ Numbered(P, file, writing, m_buffers, moving["loop"], moving["handler"], buf)
      /\ pushed \in Nat /\ file \in Seq(Nat) /\ writing \in Seq(Nat)
  BY PartsBefore DEF LogTypeOK
<1>2. Numbered(Q, file', writing', m_buffers', moving'["loop"], moving'["handler"], buf')
  BY PartsAfter
<1>3. /\ file' = file \o writing /\ writing' = <<>>
      /\ UNCHANGED <<pushed, m_buffers, moving, buf>>
  BY DEF WriteBatch, syncVars
<1> HIDE DEF P, Q
<1>4. /\ k \in Nat /\ k >= 2 /\ DOMAIN P = 1..k /\ DOMAIN Q = 1..k
      /\ P[1] = file /\ P[2] = writing /\ Q[1] = file \o writing /\ Q[2] = <<>>
  BY <1>1, <1>2, <1>3 DEF Numbered
<1>5. ASSUME NEW i \in 3..k PROVE Q[i] = P[i]
  <2> DEFINE n == Len(m_buffers)
  <2>1. n \in Nat /\ i \in 3..(n + 5)
    BY <1>1 DEF Numbered
  <2>2. /\ \A h \in 1..n : P[h + 2] = Q[h + 2]
        /\ P[n + 3] = Q[n + 3] /\ P[n + 4] = Q[n + 4] /\ P[n + 5] = Q[n + 5]
    BY <1>1, <1>2, <1>3 DEF Numbered
  <2> HIDE DEF n
  <2>3. \/ i - 2 \in 1..n /\ i = (i - 2) + 2
        \/ i = n + 3 \/ i = n + 4 \/ i = n + 5
    BY <2>1
  <2> QED
    BY <2>2, <2>3
<1> HIDE DEF k
<1> QED
  <2>1. Sound(P, pushed)
    BY DEF P
  <2>2. Sound(Q, pushed) /\ (Sorted(P) => Sorted(Q))
    BY <1>1, <1>4, <1>5, <2>1, SecondIsWritten
  <2> QED
    BY <1>3, <2>2 DEF P, Q

\* The writer does nothing before its thread is created.
NotCreated == ipc = "create" => wpc = "none"

LEMMA WriterIsCreated == LogSafeSpec => []NotCreated
<1>1. LogInit => NotCreated
  BY DEF LogInit, NotCreated
<1>2. NotCreated /\ [LogNext]_logVars => NotCreated'
  <2> SUFFICES ASSUME NotCreated, [LogNext]_logVars PROVE NotCreated'
    OBVIOUS
  <2>1. CASE StartUp
    BY <2>1 DEF StartUp, CreateWriter, Constructed, InitLogger, NotCreated
  <2>2. ASSUME UNCHANGED ipc, wpc = "none" => wpc' = "none" PROVE NotCreated'
    BY <2>2 DEF NotCreated
  <2>3. CASE TimerSync \/ HandlerPush
    BY <2>2, <2>3 DEF TimerSync, HandlerPush, SyncSwap, SyncPush, Signalled, initVars
  <2>4. CASE Writer
    BY <2>2, <2>4 DEF Writer, Start, Wait, TakeBatch, WriteBatch, initVars
  <2>5. CASE (\E level \in DOMAIN Levels : PushLog(level)) \/ Signal \/ UNCHANGED logVars
    BY <2>2, <2>5 DEF PushLog, Signal, initVars, writerVars, logVars
  <2>6. CASE HandlerSwap \/ HandlerStop \/ HandlerJoin
    BY <2>2, <2>6 DEF HandlerSwap, HandlerStop, HandlerJoin, initVars, writerVars
  <2> QED
    BY <2>1, <2>3, <2>4, <2>5, <2>6 DEF LogNext, HandlerSteps
<1> QED
  BY <1>1, <1>2, PTL DEF LogSafeSpec

\* syncLoop, the thread of the AsyncLogger and CoredumpHandler together lose no message and
\* write none twice, and before a signal they keep the order of the pushes, for any number
\* of messages and any interleaving.
THEOREM LogKeepsMessages == LogSafeSpec => []LogComplete
<1>1. LogInit => LogInv
  <2> SUFFICES ASSUME LogInit PROVE LogInv
    OBVIOUS
  <2>1. Idle
    BY DEF LogInit, Idle, Syncers
  <2>2. /\ Numbered(Parts, <<>>, <<>>, <<>>, <<>>, <<>>, <<>>)
    <3>1. PartTypes(<<>>, <<>>, <<>>, <<>>, <<>>, <<>>)
      BY DEF PartTypes
    <3>2. Parts = <<<<>>, <<>>>> \o <<>> \o <<<<>>, <<>>, <<>>>>
      BY DEF Parts, LogInit, Syncers
    <3> QED
      BY <3>1, <3>2, PartsNumbered
  <2>3. ASSUME NEW i \in DOMAIN Parts PROVE DOMAIN Parts[i] = {}
    <3>1. i \in 1..5 /\ Parts[1] = <<>> /\ Parts[2] = <<>> /\ Parts[3] = <<>>
          /\ Parts[4] = <<>> /\ Parts[5] = <<>>
      BY <2>2 DEF Numbered
    <3> QED
      BY <3>1
  <2>4. pushed = 0
    BY DEF LogInit
  <2> QED
    BY <2>1, <2>3, <2>4 DEF LogInv, Sound, Known, Complete, Single, Sorted
<1>2. LogTypeOK /\ LogTypeOK' /\ NotCreated /\ LogInv /\ [LogNext]_logVars => LogInv'
  <2> SUFFICES ASSUME LogTypeOK, LogTypeOK', NotCreated, LogInv, [LogNext]_logVars PROVE LogInv'
    OBVIOUS
  <2>0. Idle /\ Sound(Parts, pushed) /\ (hpc = "none" => Sorted(Parts))
    BY DEF LogInv
  <2>1. CASE \E level \in DOMAIN Levels : PushLog(level)
    <3>1. Append1 /\ UNCHANGED <<file, writing, m_buffers, moving, spc, wpc, hpc>>
      BY <2>1 DEF PushLog, syncVars, writerVars, handlerVars
    <3> QED
      BY <2>0, <3>1, PushSound DEF LogInv, Idle
  <2>2. CASE StartUp \/ Start \/ Wait \/ HandlerStop \/ HandlerJoin \/ UNCHANGED logVars
    <3>1. /\ UNCHANGED <<pushed, file, writing, m_buffers, moving, spc, buf>>
          /\ wpc' # "write" => wpc # "write"
          /\ hpc' = "none" => hpc = "none"
      <4>1. CASE StartUp
        BY <4>1 DEF NotCreated, StartUp, CreateWriter, Constructed, InitLogger, syncVars,
            writerVars, handlerVars
      <4>2. CASE Start \/ Wait
        BY <4>2 DEF Start, Wait, initVars, syncVars, writerVars, handlerVars
      <4>3. CASE HandlerStop \/ HandlerJoin
        BY <4>3 DEF HandlerStop, HandlerJoin, initVars, syncVars, writerVars, handlerVars
      <4>4. CASE UNCHANGED logVars
        BY <4>4 DEF initVars, syncVars, writerVars, handlerVars, logVars
      <4> QED
        BY <2>2, <4>1, <4>2, <4>3, <4>4
    <3> QED
      BY <2>0, <3>1, PartsStay DEF LogInv, Idle
  <2>3. ASSUME NEW s \in Syncers, SyncSwap(s),
               UNCHANGED <<pushed, file, writing, m_buffers, wpc, hpc>>,
               s = "handler" => hpc # "none"
        PROVE  LogInv'
    <3>1. spc' = [spc EXCEPT ![s] = "push"] /\ moving' = [moving EXCEPT ![s] = buf]
      BY <2>3 DEF SyncSwap
    <3>2. Idle'
      BY <2>0, <2>3, <3>1 DEF Idle, LogTypeOK, Syncers
    <3>3. hpc = "none" => s = "loop" /\ moving["handler"] = <<>>
      BY <2>0, <2>3 DEF Idle, Syncers
    <3> QED
      BY <2>0, <2>3, <3>2, <3>3, SwapSound DEF LogInv
  <2>4. ASSUME NEW s \in Syncers, SyncPush(s),
               UNCHANGED <<pushed, file, writing, buf>>,
               hpc' = "none" => hpc = "none" /\ s = "loop"
        PROVE  LogInv'
    <3>1. spc' = [spc EXCEPT ![s] = "out"] /\ moving' = [moving EXCEPT ![s] = <<>>]
      BY <2>4 DEF SyncPush
    <3>2. wpc' # "write" => wpc # "write"
      BY <2>4 DEF SyncPush, Signalled
    <3>3. Idle'
      BY <2>0, <2>4, <3>1, <3>2 DEF Idle, LogTypeOK, Syncers
    <3> QED
      BY <2>0, <2>4, <3>3, SyncPushSound DEF LogInv
  <2>5. CASE TimerSync
    BY <2>3, <2>4, <2>5 DEF TimerSync, Syncers, handlerVars
  <2>6. CASE TakeBatch
    <3>1. Idle'
      BY <2>0, <2>6 DEF TakeBatch, Idle, syncVars, handlerVars
    <3> QED
      BY <2>0, <2>6, <3>1, TakeSound DEF LogInv, TakeBatch, handlerVars
  <2>7. CASE WriteBatch
    <3>1. Idle'
      BY <2>0, <2>7 DEF WriteBatch, Idle, syncVars, handlerVars
    <3> QED
      BY <2>0, <2>7, <3>1, WriteSound DEF LogInv, WriteBatch, handlerVars
  <2>8. CASE Signal
    <3>1. Idle' /\ hpc' # "none"
      BY <2>0, <2>8 DEF Signal, Idle, syncVars, writerVars
    <3>2. CASE Append1
      BY <2>0, <2>8, <3>1, <3>2, PushSound DEF Signal, LogInv, syncVars, writerVars
    <3>3. CASE UNCHANGED <<buf, pushed>>
      BY <2>0, <2>8, <3>1, <3>3, PartsStay DEF Signal, LogInv, syncVars, writerVars
    <3> QED
      BY <2>8, <3>2, <3>3 DEF Signal
  <2>9. CASE HandlerSwap
    BY <2>3, <2>9 DEF HandlerSwap, Syncers, writerVars, handlerVars
  <2>10. CASE HandlerPush
    BY <2>4, <2>10 DEF HandlerPush, Syncers
  <2> QED
    BY <2>1, <2>2, <2>5, <2>6, <2>7, <2>8, <2>9, <2>10 DEF LogNext, Writer, HandlerSteps
<1>3. LogInv => LogComplete
  <2> SUFFICES ASSUME LogInv PROVE LogComplete
    OBVIOUS
  <2>1. NoneLost /\ NoneTwice
    BY DEF LogInv, Sound, Complete, Single, NoneLost, NoneTwice
  <2>2. hpc = "none" => InOrder
    BY DEF LogInv, Sorted, InOrder
  <2> QED
    BY <2>1, <2>2 DEF LogComplete
<1> QED
  BY <1>1, <1>2, <1>3, LogTypeCorrect, WriterIsCreated, PTL DEF LogSafeSpec
=============================================================================
