------------------------------ MODULE ScopeMutex -----------------------------
(***************************************************************************)
(* ScopeMutex<Mutex>, common/mutex.h, as loop, timer and loggers use it:   *)
(* the constructor locks, unlock() gives the lock back before the          *)
(* scope ends, and the destructor gives it back once more, because         *)
(* unlock() leaves m_is_lock set and the destructor does not look at it.   *)
(*                                                                         *)
(* The mutex is a default pthread mutex.  Unlocking one that the caller    *)
(* does not hold is undefined; what the library of this build does is to   *)
(* free the lock, whoever holds it.                                        *)
(***************************************************************************)
EXTENDS Naturals, FiniteSets

CONSTANTS
  Threads,  \* the threads that use one mutex
  Early     \* those whose scope goes on after unlock() (EventLoop::loop: for a
            \* whole iteration, epoll_wait included)

VARIABLES
  pc,      \* per thread: "out", "in" the critical section, "after" unlock()
  locked   \* m_mutex is taken

vars == <<pc, locked>>

Init ==
  /\ pc = [t \in Threads |-> "out"]
  /\ locked = FALSE

\* ScopeMutex(mutex)
Construct(t) ==
  /\ pc[t] = "out" /\ ~locked
  /\ locked' = TRUE
  /\ pc' = [pc EXCEPT ![t] = "in"]

\* unlock()
Unlock(t) ==
  /\ t \in Early /\ pc[t] = "in"
  /\ locked' = FALSE
  /\ pc' = [pc EXCEPT ![t] = "after"]

\* ~ScopeMutex(), at the end of the scope
Destruct(t) ==
  /\ pc[t] = IF t \in Early THEN "after" ELSE "in"
  /\ locked' = FALSE
  /\ pc' = [pc EXCEPT ![t] = "out"]

Next == \E t \in Threads : Construct(t) \/ Unlock(t) \/ Destruct(t)

SafeSpec == Init /\ [][Next]_vars

-----------------------------------------------------------------------------
(* Properties *)

Inside == {t \in Threads : pc[t] = "in"}

\* At most one thread is between a constructor and the unlock() of the same mutex:
\* UML/common/AsyncLoggerWorkSwim.puml:40-42 takes the mutex, moves the buffer and
\* releases the mutex.  The code does not ensure it.
MutualExclusion == Cardinality(Inside) <= 1
=============================================================================
