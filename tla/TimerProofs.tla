----------------------------- MODULE TimerProofs -----------------------------
(***************************************************************************)
(* Proofs about Timer, for any set of threads and of events, any delays    *)
(* and any interleaving of onTimer with the callers of addTimerEvent and   *)
(* deleteTimerEvent.                                                       *)
(***************************************************************************)
EXTENDS Timer, TLAPS

\* addTimerEvent's critical section keeps the types.
LEMMA InsertType ==
  ASSUME TimerTypeOK, NEW th \in TimerThreads, NEW e \in Events, NEW delay \in Nat,
         Insert(th, e, delay)
  PROVE  /\ pendingEvents' \subseteq Events
         /\ left' \in [Events -> Nat]
         /\ apc' \in [TimerThreads -> {"out", "reset", "set", "erase"}]
BY DEF Insert, TimerTypeOK

\* The type invariant of the timer in every reachable state.
THEOREM TimerTypeCorrect == TimerSafeSpec => []TimerTypeOK
<1>1. TimerInit => TimerTypeOK
  BY DEF TimerInit, TimerTypeOK
<1>2. TimerTypeOK /\ [TimerNext]_timerVars => TimerTypeOK'
  <2>. SUFFICES ASSUME TimerTypeOK, [TimerNext]_timerVars PROVE TimerTypeOK'
    OBVIOUS
  <2>. USE TimeAssumption, EventAssumption DEF TimerTypeOK
  <2>1. CASE Tick
    <3>1. \A n \in Nat : Dec(n) \in Nat
      BY DEF Dec
    <3>2. left' \in [Events -> Nat] /\ snap' \in [TimerThreads -> Nat]
      BY <2>1, <3>1 DEF Tick
    <3>3. fdLeft' \in Nat \cup {Disarmed}
      BY <2>1, <3>1 DEF Tick
    <3>. QED
      BY <2>1, <3>2, <3>3 DEF Tick, onTimerVars
  <2>2. ASSUME NEW th \in TimerThreads, NEW e \in Events, AddTimerEvent(th, e) PROVE TimerTypeOK'
    <3>1. PICK delay \in Nat : Insert(th, e, delay)
      BY <2>2 DEF AddTimerEvent
    <3>2. /\ pendingEvents' \subseteq Events
          /\ left' \in [Events -> Nat]
          /\ apc' \in [TimerThreads -> {"out", "reset", "set", "erase"}]
      BY <3>1, InsertType
    <3>. QED
      BY <2>2, <3>2 DEF AddTimerEvent, onTimerVars
  <2>3. ASSUME NEW th \in TimerThreads, NEW e \in Events, SetCanceled(th, e) PROVE TimerTypeOK'
    BY <2>3 DEF SetCanceled, onTimerVars
  <2>4. ASSUME NEW th \in TimerThreads, Erase(th) PROVE TimerTypeOK'
    BY <2>4 DEF Erase, onTimerVars
  <2>5. ASSUME NEW th \in TimerThreads, CopyEmpty(th) PROVE TimerTypeOK'
    BY <2>5 DEF CopyEmpty, onTimerVars
  <2>6. ASSUME NEW th \in TimerThreads, CopyHead(th) PROVE TimerTypeOK'
    BY <2>6 DEF CopyHead, onTimerVars
  <2>7. ASSUME NEW th \in TimerThreads, SetTime(th) PROVE TimerTypeOK'
    BY <2>7 DEF SetTime, Interval, TimerfdSettime, onTimerVars
  <2>8. CASE Dispatch \/ Drain \/ Collect \/ EndOnTimer
    BY <2>8 DEF Dispatch, Drain, Collect, ToRun, ToRepeat, EndOnTimer, callVars
  <2>9. CASE FinalReset
    BY <2>9 DEF FinalReset
  <2>10. ASSUME NEW e \in Events, AddAgain(e) PROVE TimerTypeOK'
    <3>1. Loop \in TimerThreads
      BY DEF TimerThreads
    <3>2. /\ pendingEvents' \subseteq Events
          /\ left' \in [Events -> Nat]
          /\ apc' \in [TimerThreads -> {"out", "reset", "set", "erase"}]
      BY <2>10, <3>1, InsertType DEF AddAgain
    <3>. QED
      BY <2>10, <3>2 DEF AddAgain
  <2>11. ASSUME NEW e \in Events, RunCallback(e) PROVE TimerTypeOK'
    BY <2>11 DEF RunCallback, callVars
  <2>12. CASE UNCHANGED timerVars
    BY <2>12 DEF timerVars
  <2>. QED
    BY <2>1, <2>2, <2>3, <2>4, <2>5, <2>6, <2>7, <2>8, <2>9, <2>10, <2>11, <2>12
       DEF TimerNext, Call, Continue, OnTimer
<1>. QED
  BY <1>1, <1>2, PTL DEF TimerSafeSpec

-----------------------------------------------------------------------------

\* No interleaving of addTimerEvent, deleteTimerEvent and onTimer leaves events in
\* the map with the timerfd disarmed and nobody about to arm it.
THEOREM TimerNotLost == TimerSafeSpec => []NoLostTimer
<1>1. TimerInit => NoLostTimer
  BY DEF TimerInit, NoLostTimer
<1>2. TimerTypeOK /\ NoLostTimer /\ [TimerNext]_timerVars => NoLostTimer'
  <2>. SUFFICES ASSUME TimerTypeOK, NoLostTimer, [TimerNext]_timerVars PROVE NoLostTimer'
    OBVIOUS
  <2>. USE TimeAssumption DEF TimerTypeOK, NoLostTimer, Obliged
  <2>1. CASE Tick
    BY <2>1 DEF Tick, onTimerVars, Dec
  \* An insert into an empty map obliges the inserting thread; any other insert
  \* leaves the obligations of the other threads as they are.
  <2>2. ASSUME NEW th \in TimerThreads, NEW e \in Events, NEW delay \in Nat, apc[th] = "out",
               Insert(th, e, delay), fdLeft' = fdLeft, lpc' = lpc
        PROVE  NoLostTimer'
    <3>1. CASE pendingEvents = {}
      <4>1. ResetFlags(delay) = {TRUE}
        BY <3>1 DEF ResetFlags
      <4>2. apc'[th] = "reset"
        BY <2>2, <4>1 DEF Insert
      <4>. QED
        BY <4>2
    <3>2. CASE pendingEvents # {}
      <4>1. \A u \in TimerThreads : apc[u] \in {"reset", "set"} => apc'[u] = apc[u]
        BY <2>2 DEF Insert
      <4>. QED
        BY <2>2, <3>2, <4>1
    <3>. QED
      BY <3>1, <3>2
  <2>3. ASSUME NEW th \in TimerThreads, NEW e \in Events, AddTimerEvent(th, e) PROVE NoLostTimer'
    <3>1. PICK delay \in Nat : Insert(th, e, delay)
      BY <2>3 DEF AddTimerEvent
    <3>. QED
      BY <2>2, <2>3, <3>1 DEF AddTimerEvent, MayCall, onTimerVars
  <2>4. ASSUME NEW th \in TimerThreads, NEW e \in Events, SetCanceled(th, e) PROVE NoLostTimer'
    <3>1. \A u \in TimerThreads : apc[u] \in {"reset", "set"} => apc'[u] = apc[u]
      BY <2>4 DEF SetCanceled, MayCall
    <3>. QED
      BY <2>4, <3>1 DEF SetCanceled, onTimerVars
  <2>5. ASSUME NEW th \in TimerThreads, Erase(th) PROVE NoLostTimer'
    <3>1. \A u \in TimerThreads : apc[u] \in {"reset", "set"} => apc'[u] = apc[u]
      BY <2>5 DEF Erase
    <3>. QED
      BY <2>5, <3>1 DEF Erase, onTimerVars
  <2>6. ASSUME NEW th \in TimerThreads, CopyEmpty(th) PROVE NoLostTimer'
    BY <2>6 DEF CopyEmpty
  <2>7. ASSUME NEW th \in TimerThreads, CopyHead(th) PROVE NoLostTimer'
    <3>1. apc'[th] = "set"
      BY <2>7 DEF CopyHead
    <3>. QED
      BY <3>1
  \* The interval is never 0, which would disarm the timerfd.
  <2>8. ASSUME NEW th \in TimerThreads, SetTime(th) PROVE NoLostTimer'
    <3>1. fdLeft' \in Nat
      BY <2>8 DEF SetTime, Interval, TimerfdSettime
    <3>. QED
      BY <3>1
  <2>9. CASE Dispatch \/ Drain \/ Collect
    <3>1. lpc' \in {"queued", "collect", "again"}
      BY <2>9 DEF Dispatch, Drain, Collect, ToRun, ToRepeat
    <3>. QED
      BY <3>1
  <2>10. CASE FinalReset
    <3>1. Loop \in TimerThreads /\ apc'[Loop] = "reset"
      BY <2>10 DEF FinalReset, TimerThreads
    <3>. QED
      BY <3>1
  <2>11. ASSUME NEW e \in Events, AddAgain(e) PROVE NoLostTimer'
    <3>1. lpc' = "again"
      BY <2>11 DEF AddAgain
    <3>. QED
      BY <3>1
  <2>12. ASSUME NEW e \in Events, RunCallback(e) PROVE NoLostTimer'
    BY <2>12 DEF RunCallback, callVars
  <2>13. CASE EndOnTimer
    BY <2>13 DEF EndOnTimer, callVars
  <2>14. CASE UNCHANGED timerVars
    BY <2>14 DEF timerVars
  <2>. QED
    BY <2>1, <2>3, <2>4, <2>5, <2>6, <2>7, <2>8, <2>9, <2>10, <2>11, <2>12, <2>13, <2>14
       DEF TimerNext, Call, Continue, OnTimer
<1>. QED
  BY <1>1, <1>2, TimerTypeCorrect, PTL DEF TimerSafeSpec

-----------------------------------------------------------------------------

LEMMA TimerInvariant == TimerSafeSpec => []TimerInv
<1>1. TimerInit => TimerInv
  BY DEF TimerInit, TimerInv
<1>2. TimerTypeOK /\ TimerInv /\ [TimerNext]_timerVars => TimerInv'
  <2>. SUFFICES ASSUME TimerTypeOK, TimerInv, [TimerNext]_timerVars PROVE TimerInv'
    OBVIOUS
  <2>. USE DEF TimerTypeOK, TimerInv, onTimerVars, callVars
  <2>1. CASE Tick
    BY <2>1 DEF Tick
  <2>2. ASSUME NEW th \in TimerThreads, NEW e \in Events, AddTimerEvent(th, e) PROVE TimerInv'
    BY <2>2 DEF AddTimerEvent
  <2>3. ASSUME NEW th \in TimerThreads, NEW e \in Events, SetCanceled(th, e) PROVE TimerInv'
    BY <2>3 DEF SetCanceled
  <2>4. ASSUME NEW th \in TimerThreads, Continue(th) PROVE TimerInv'
    BY <2>4 DEF Continue, Erase, CopyEmpty, CopyHead, SetTime, Interval
  <2>5. CASE Dispatch \/ Drain \/ Collect \/ FinalReset \/ EndOnTimer
    BY <2>5 DEF Dispatch, Drain, Collect, ToRun, ToRepeat, FinalReset, EndOnTimer
  <2>6. ASSUME NEW e \in Events, AddAgain(e) \/ RunCallback(e) PROVE TimerInv'
    BY <2>6 DEF AddAgain, RunCallback
  <2>7. CASE UNCHANGED timerVars
    BY <2>7 DEF timerVars
  <2>. QED
    BY <2>1, <2>2, <2>3, <2>4, <2>5, <2>6, <2>7 DEF TimerNext, Call, OnTimer
<1>. QED
  BY <1>1, <1>2, TimerTypeCorrect, PTL DEF TimerSafeSpec

\* A repeated event that its owner has added and not cancelled never drops out of
\* the timer: onTimer takes it out of the map and puts it back, and deleteTimerEvent
\* erases no event but the one it has marked.
THEOREM RepeatingNotDropped == TimerSafeSpec => []RepeatingKept
<1>1. TimerInit => RepeatingKept
  BY EventAssumption DEF TimerInit, RepeatingKept
<1>2. TimerTypeOK /\ TimerInv /\ RepeatingKept /\ [TimerNext]_timerVars => RepeatingKept'
  <2>. SUFFICES ASSUME TimerTypeOK, TimerInv, RepeatingKept, [TimerNext]_timerVars
                PROVE  RepeatingKept'
    OBVIOUS
  <2>. USE DEF TimerTypeOK, RepeatingKept, onTimerVars, callVars
  <2>1. CASE Tick
    BY <2>1 DEF Tick
  <2>2. ASSUME NEW th \in TimerThreads, NEW e \in Events, AddTimerEvent(th, e)
        PROVE  RepeatingKept'
    BY <2>2 DEF AddTimerEvent, Insert
  <2>3. ASSUME NEW th \in TimerThreads, NEW e \in Events, SetCanceled(th, e)
        PROVE  RepeatingKept'
    BY <2>3 DEF SetCanceled
  <2>4. ASSUME NEW th \in TimerThreads, Continue(th) PROVE RepeatingKept'
    BY <2>4 DEF Continue, Erase, CopyEmpty, CopyHead, SetTime, Interval, TimerInv
  <2>5. CASE Collect
    <3>1. again = {}
      BY <2>5 DEF Collect, ToRun, ToRepeat, TimerInv
    <3>. QED
      BY <2>5, <3>1 DEF Collect, ToRun, ToRepeat
  <2>6. CASE Dispatch \/ Drain \/ FinalReset \/ EndOnTimer
    BY <2>6 DEF Dispatch, Drain, FinalReset, EndOnTimer
  <2>7. ASSUME NEW e \in Events, AddAgain(e) \/ RunCallback(e) PROVE RepeatingKept'
    BY <2>7 DEF AddAgain, RunCallback, Insert
  <2>8. CASE UNCHANGED timerVars
    BY <2>8 DEF timerVars
  <2>. QED
    BY <2>1, <2>2, <2>3, <2>4, <2>5, <2>6, <2>7, <2>8 DEF TimerNext, Call, OnTimer
<1>. QED
  BY <1>1, <1>2, TimerTypeCorrect, TimerInvariant, PTL DEF TimerSafeSpec

\* After its cancellation an event may run only if onTimer had collected it before, and a
\* one-shot event is collected at most once, also when onTimer runs late and when other
\* threads insert and erase around it.
THEOREM OverIsOver == TimerSafeSpec => OverStaysOver
<1>1. TimerTypeOK /\ [TimerNext]_timerVars =>
        (\A e \in cancelled : e \notin tasks => e \notin tasks')
  <2>. SUFFICES ASSUME TimerTypeOK, [TimerNext]_timerVars, NEW e \in cancelled, e \notin tasks
                PROVE  e \notin tasks'
    OBVIOUS
  <2>1. CASE Collect
    BY <2>1 DEF Collect, ToRun, ToRepeat
  <2>2. CASE \E d \in Events : RunCallback(d)
    BY <2>2 DEF RunCallback
  <2>3. CASE tasks' = tasks
    BY <2>3
  <2>. QED
    BY <2>1, <2>2, <2>3
       DEF TimerNext, Tick, Call, AddTimerEvent, SetCanceled, Continue, Erase, CopyEmpty, CopyHead,
           SetTime, Interval, OnTimer, Dispatch, Drain, FinalReset, EndOnTimer, AddAgain,
           onTimerVars, timerVars
<1>2. TimerTypeOK /\ TimerInv /\ [TimerNext]_timerVars =>
        (\A e \in Events \ (Repeating \cup fresh) :
           e \notin pendingEvents => e \notin pendingEvents' /\ (e \in tasks' => e \in tasks))
  <2>. SUFFICES ASSUME TimerTypeOK, TimerInv, [TimerNext]_timerVars, NEW e \in Events,
                       e \notin Repeating, e \notin fresh, e \notin pendingEvents
                PROVE  e \notin pendingEvents' /\ (e \in tasks' => e \in tasks)
    OBVIOUS
  <2>. USE DEF onTimerVars, callVars
  <2>1. ASSUME NEW th \in TimerThreads, Call(th) \/ Continue(th)
        PROVE  e \notin pendingEvents' /\ (e \in tasks' => e \in tasks)
    BY <2>1 DEF Call, AddTimerEvent, Insert, SetCanceled, Continue, Erase, CopyEmpty,
                CopyHead, SetTime, Interval
  <2>2. ASSUME NEW d \in Events, AddAgain(d)
        PROVE  e \notin pendingEvents' /\ (e \in tasks' => e \in tasks)
    BY <2>2 DEF AddAgain, Insert, TimerInv
  <2>3. CASE Collect
    BY <2>3 DEF Collect, ToRun, ToRepeat
  <2>4. ASSUME NEW d \in Events, RunCallback(d)
        PROVE  e \notin pendingEvents' /\ (e \in tasks' => e \in tasks)
    BY <2>4 DEF RunCallback
  <2>5. CASE Tick \/ Dispatch \/ Drain \/ FinalReset \/ EndOnTimer \/ UNCHANGED timerVars
    BY <2>5 DEF Tick, Dispatch, Drain, FinalReset, EndOnTimer, timerVars
  <2>. QED
    BY <2>1, <2>2, <2>3, <2>4, <2>5 DEF TimerNext, OnTimer
<1>. QED
  BY <1>1, <1>2, TimerTypeCorrect, TimerInvariant, PTL DEF TimerSafeSpec, OverStaysOver
=============================================================================
