-------------------------------- MODULE Timer --------------------------------
(***************************************************************************)
(* The timer of a loop, net/timer.cpp: a map of pending events, one        *)
(* timerfd armed for the earliest of them, onTimer run by the loop's       *)
(* thread, and addTimerEvent and deleteTimerEvent called by any thread.    *)
(* The map is read and written in short critical sections; the timerfd is  *)
(* armed outside them, from a copy of the map.                             *)
(*                                                                         *)
(* Times are kept as what is left until them, with 0 for "due or overdue": *)
(* m_arrive_time - now, so that time may pass for ever.  Which of two      *)
(* overdue events is the earlier is not kept, and is chosen where the code *)
(* compares them.                                                          *)
(***************************************************************************)
EXTENDS Integers, FiniteSets

CONSTANTS
  Loop,       \* the thread of the event loop
  Others,     \* the other threads that use this timer
  Events,     \* the TimerEvent objects, each added by its owner once
  Repeating,  \* those with m_is_repeated
  Period,     \* m_interval of the repeated events
  Grace,      \* the 100 ms that resetArriveTime allows an overdue event
  MaxDelay,   \* bound: the largest delay of a one-shot event
  Disarmed    \* the timerfd is not armed and not readable

TimerThreads == {Loop} \cup Others

ASSUME ThreadAssumption == Loop \notin Others
ASSUME EventAssumption == Repeating \subseteq Events /\ IsFiniteSet(Events)
ASSUME TimeAssumption ==
  /\ Period \in Nat \ {0} /\ Grace \in Nat \ {0} /\ MaxDelay \in Nat
  /\ Disarmed \notin Nat

VARIABLES
  fresh,      \* events nobody has added yet
  pendingEvents, \* m_pending_events
  left,       \* m_arrive_time of each event, minus now
  cancelled,  \* events with m_is_canceled
  fdLeft,     \* the timerfd: time to its expiry, 0 when readable, or Disarmed
  lpc,        \* onTimer: "idle", "queued", "collect", "again", "run"
  due,        \* what "now" means to onTimer: the events that were due when it was read
  tasks,      \* tasks: events whose callback onTimer still has to run
  again,      \* tmps: repeated events onTimer still has to add again
  apc,        \* per thread: "out", or inside addTimerEvent/deleteTimerEvent:
              \* "reset" or "set" in resetArriveTime, "erase" before the erase
  snap,       \* per thread: arrive time, minus now, of the head of the copied map
  victim      \* per thread: the event deleteTimerEvent is about to erase

onTimerVars == <<lpc, due, tasks, again>>
callVars == <<apc, snap, victim>>
timerVars == <<fresh, pendingEvents, left, cancelled, fdLeft, lpc, due, tasks, again, apc, snap,
               victim>>

TimerInit ==
  /\ fresh = Events /\ pendingEvents = {} /\ cancelled = {}
  /\ left = [e \in Events |-> 0]
  /\ fdLeft = Disarmed
  /\ lpc = "idle" /\ due = {} /\ tasks = {} /\ again = {}
  /\ apc = [th \in TimerThreads |-> "out"]
  /\ snap = [th \in TimerThreads |-> 0]
  /\ victim = [th \in TimerThreads |-> {}]

-----------------------------------------------------------------------------
(* The timerfd and the passing of time *)

\* timerfd_settime: a relative one-shot time; zero disarms the timer.
TimerfdSettime(interval) == fdLeft' = IF interval = 0 THEN Disarmed ELSE interval

Readable == fdLeft = 0

Dec(n) == IF n = 0 THEN 0 ELSE n - 1

Tick ==
  /\ left' = [e \in Events |-> Dec(left[e])]
  /\ snap' = [th \in TimerThreads |-> Dec(snap[th])]
  /\ fdLeft' = IF fdLeft = Disarmed THEN Disarmed ELSE Dec(fdLeft)
  /\ UNCHANGED <<fresh, pendingEvents, cancelled, onTimerVars, apc, victim>>

-----------------------------------------------------------------------------
(* addTimerEvent, deleteTimerEvent, resetArriveTime *)

\* The thread is not inside one of the functions below; the loop's thread calls
\* them from callbacks, its own timers' or others', but not in the middle of onTimer.
MayCall(th) == apc[th] = "out" /\ (th = Loop => lpc \in {"idle", "queued", "run"})

\* is_reset_timerfd: the map is empty or its head is later than the new event.
ResetFlags(delay) ==
  IF delay = 0 /\ \E d \in pendingEvents : left[d] = 0
  THEN BOOLEAN
  ELSE {\A d \in pendingEvents : left[d] > delay}

\* The critical section of addTimerEvent; resetArriveTime comes after the unlock.
Insert(th, e, delay) ==
  /\ \E reset \in ResetFlags(delay) :
       apc' = [apc EXCEPT ![th] = IF reset THEN "reset" ELSE "out"]
  /\ left' = [left EXCEPT ![e] = delay]
  /\ pendingEvents' = pendingEvents \cup {e}

AddTimerEvent(th, e) ==
  /\ MayCall(th) /\ e \in fresh
  /\ fresh' = fresh \ {e}
  /\ \E delay \in IF e \in Repeating THEN {Period} ELSE 0..MaxDelay : Insert(th, e, delay)
  /\ UNCHANGED <<cancelled, fdLeft, onTimerVars, snap, victim>>

\* setCanceled(true): by itself in ~Logger, and the first line of deleteTimerEvent,
\* which goes on to take the lock.  Bound: an event is cancelled once.
SetCanceled(th, e) ==
  /\ MayCall(th) /\ e \notin fresh \cup cancelled
  /\ cancelled' = cancelled \cup {e}
  /\ \/ UNCHANGED <<apc, victim>>
     \/ /\ apc' = [apc EXCEPT ![th] = "erase"]
        /\ victim' = [victim EXCEPT ![th] = {e}]
  /\ UNCHANGED <<fresh, pendingEvents, left, fdLeft, onTimerVars, snap>>

\* The critical section of deleteTimerEvent.
Erase(th) ==
  /\ apc[th] = "erase"
  /\ pendingEvents' = pendingEvents \ victim[th]
  /\ apc' = [apc EXCEPT ![th] = "out"]
  /\ victim' = [victim EXCEPT ![th] = {}]
  /\ UNCHANGED <<fresh, left, cancelled, fdLeft, onTimerVars, snap>>

\* resetArriveTime copies the map under the lock and looks at the copy's head.
CopyEmpty(th) ==
  /\ apc[th] = "reset" /\ pendingEvents = {}
  /\ apc' = [apc EXCEPT ![th] = "out"]
  /\ UNCHANGED <<fresh, pendingEvents, left, cancelled, fdLeft, onTimerVars, snap, victim>>

CopyHead(th) ==
  /\ apc[th] = "reset"
  /\ \E e \in pendingEvents :
       /\ \A d \in pendingEvents : left[e] <= left[d]
       /\ snap' = [snap EXCEPT ![th] = left[e]]
  /\ apc' = [apc EXCEPT ![th] = "set"]
  /\ UNCHANGED <<fresh, pendingEvents, left, cancelled, fdLeft, onTimerVars, victim>>

\* Defects: an overdue event gives an interval of zero, or less.
IntervalUngraced(n) == n
IntervalLess(n) == n - 1

\* The interval that resetArriveTime chooses.
Interval(n) == IF n > 0 THEN n ELSE Grace

\* getNowMs, the choice of the interval, timerfd_settime.
SetTime(th) ==
  /\ apc[th] = "set"
  /\ TimerfdSettime(Interval(snap[th]))
  /\ apc' = [apc EXCEPT ![th] = "out"]
  /\ snap' = [snap EXCEPT ![th] = 0]
  /\ UNCHANGED <<fresh, pendingEvents, left, cancelled, onTimerVars, victim>>

-----------------------------------------------------------------------------
(* onTimer *)

\* The loop sees the timerfd readable and queues the handler.
Dispatch ==
  /\ lpc = "idle" /\ apc[Loop] = "out" /\ Readable
  /\ lpc' = "queued"
  /\ UNCHANGED <<fresh, pendingEvents, left, cancelled, fdLeft, due, tasks, again, callVars>>

\* Reads the timerfd until EAGAIN, which it returns at once when the timer was set
\* again in the meantime; then reads the clock.
Drain ==
  /\ lpc = "queued" /\ apc[Loop] = "out"
  /\ fdLeft' = IF Readable THEN Disarmed ELSE fdLeft
  /\ due' = {e \in pendingEvents : left[e] = 0}
  /\ lpc' = "collect"
  /\ UNCHANGED <<fresh, pendingEvents, left, cancelled, tasks, again, callVars>>

\* Defect: isCanceled is not looked at for the callback.
RunsAll(upToNow) == upToNow

\* Defect: tmps is not filled.
RepeatsNone(upToNow) == {}

\* What onTimer puts into tasks and into tmps.
ToRun(upToNow) == upToNow \ cancelled
ToRepeat(upToNow) == (upToNow \ cancelled) \cap Repeating

\* The critical section of onTimer: the events up to now leave the map, and those
\* not cancelled are to run.  An event that was added, or became due, after the
\* clock was read may be on either side of it.
Collect ==
  /\ lpc = "collect"
  /\ \E upToNow \in SUBSET {e \in pendingEvents : left[e] = 0} :
       /\ due \cap pendingEvents \subseteq upToNow
       /\ tasks' = ToRun(upToNow)
       /\ again' = ToRepeat(upToNow)
       /\ pendingEvents' = pendingEvents \ upToNow
  /\ due' = {}
  /\ lpc' = "again"
  /\ UNCHANGED <<fresh, left, cancelled, fdLeft, callVars>>

\* A repeated event gets a new arrive time and goes through addTimerEvent.
AddAgain(e) ==
  /\ lpc = "again" /\ apc[Loop] = "out" /\ e \in again
  /\ again' = again \ {e}
  /\ Insert(Loop, e, Period)
  /\ UNCHANGED <<fresh, cancelled, fdLeft, lpc, due, tasks, snap, victim>>

\* Defect: onTimer relies on addTimerEvent to arm the timerfd.
NoFinalReset ==
  /\ lpc = "again" /\ apc[Loop] = "out" /\ again = {}
  /\ lpc' = "run"
  /\ UNCHANGED <<fresh, pendingEvents, left, cancelled, fdLeft, due, tasks, again, callVars>>

\* The resetArriveTime that comes after the loop over tmps, whatever the map holds.
FinalReset ==
  /\ lpc = "again" /\ apc[Loop] = "out" /\ again = {}
  /\ lpc' = "run"
  /\ apc' = [apc EXCEPT ![Loop] = "reset"]
  /\ UNCHANGED <<fresh, pendingEvents, left, cancelled, fdLeft, due, tasks, again, snap, victim>>

\* One callback.  What it does to the timer is AddTimerEvent or SetCanceled of Loop.
RunCallback(e) ==
  /\ lpc = "run" /\ apc[Loop] = "out" /\ e \in tasks
  /\ tasks' = tasks \ {e}
  /\ UNCHANGED <<fresh, pendingEvents, left, cancelled, fdLeft, lpc, due, again, callVars>>

EndOnTimer ==
  /\ lpc = "run" /\ apc[Loop] = "out" /\ tasks = {}
  /\ lpc' = "idle"
  /\ UNCHANGED <<fresh, pendingEvents, left, cancelled, fdLeft, due, tasks, again, callVars>>

-----------------------------------------------------------------------------
\* What a thread that has entered one of the functions does next.
Continue(th) == Erase(th) \/ CopyEmpty(th) \/ CopyHead(th) \/ SetTime(th)

Call(th) == \E e \in Events : AddTimerEvent(th, e) \/ SetCanceled(th, e)

OnTimer ==
  \/ Dispatch \/ Drain \/ Collect \/ FinalReset \/ EndOnTimer
  \/ \E e \in Events : AddAgain(e) \/ RunCallback(e)

TimerNext ==
  \/ Tick
  \/ \E th \in TimerThreads : Call(th) \/ Continue(th)
  \/ OnTimer

TimerSafeSpec == TimerInit /\ [][TimerNext]_timerVars

\* Time passes, threads finish the functions they are in, and the loop dispatches a
\* readable timerfd (it is level-triggered, and readiness ends epoll_wait).
TimerFairness ==
  /\ WF_timerVars(Tick)
  /\ WF_timerVars(OnTimer)
  /\ \A th \in TimerThreads : WF_timerVars(Continue(th))

TimerSpec == TimerSafeSpec /\ TimerFairness

-----------------------------------------------------------------------------
(* Properties *)

\* Type invariant of the timer's map, of its timerfd and of the local variables of
\* onTimer and resetArriveTime.
TimerTypeOK ==
  /\ fresh \subseteq Events /\ pendingEvents \subseteq Events /\ cancelled \subseteq Events
  /\ left \in [Events -> Nat]
  /\ fdLeft \in Nat \cup {Disarmed}
  /\ lpc \in {"idle", "queued", "collect", "again", "run"}
  /\ due \subseteq Events /\ tasks \subseteq Events /\ again \subseteq Events
  /\ apc \in [TimerThreads -> {"out", "reset", "set", "erase"}]
  /\ snap \in [TimerThreads -> Nat]
  /\ victim \in [TimerThreads -> SUBSET Events]

\* Somebody is going to arm the timerfd from a copy of the map not yet made or used.
Obliged ==
  \/ lpc \in {"queued", "collect", "again"}
  \/ \E th \in TimerThreads : apc[th] \in {"reset", "set"}

\* No timer is lost: while the map holds an event the timerfd is armed, or readable,
\* or somebody is going to arm it.  onTimer empties the timerfd while other threads
\* insert, and only some inserts arm it.
NoLostTimer == pendingEvents # {} => fdLeft # Disarmed \/ Obliged

\* A repeated event that was added and not cancelled is in the map or about to go
\* back to it, through every step of onTimer and of the other threads.
RepeatingKept ==
  \A e \in Repeating \ (fresh \cup cancelled) : e \in pendingEvents \cup again

\* Why it holds: only events that deleteTimerEvent has marked are erased, and tmps,
\* which holds repeated events only, is empty whenever onTimer fills it.
TimerInv ==
  /\ \A th \in TimerThreads : victim[th] \subseteq cancelled
  /\ again \subseteq Repeating
  /\ lpc # "again" => again = {}

\* An event that is over stays over, although onTimer may have a repeated one in hand and
\* add it to the map again: one that was cancelled before onTimer collected it never runs,
\* and a one-shot event that has left the map neither comes back nor is collected again.
OverStaysOver ==
  [][/\ \A e \in cancelled : e \notin tasks => e \notin tasks'
     /\ \A e \in Events \ (Repeating \cup fresh) :
          e \notin pendingEvents => e \notin pendingEvents' /\ (e \in tasks' => e \in tasks)
    ]_timerVars

\* Whoever is in the map is collected by onTimer, unless it is cancelled.
PendingRuns == \A e \in Events : e \in pendingEvents ~> e \in tasks \/ e \in cancelled

==============================================================================
