------------------------------ MODULE MCTimers -------------------------------
(* The timer of a loop and the two that depend on one: the log flush and the timeout of   *)
(* a call.  The three share no variable; part says which of them a behavior is about, and *)
(* the others stay in their initial state, so that one run checks each of them alone.     *)
EXTENDS Timer, Logging, MCRpcChannel

VARIABLE part

MCInit ==
  /\ part \in {"timer", "log", "call"}
  /\ TimerInit /\ LogInit /\ Init
  /\ part # "call" => loop = "fresh"

MCNext ==
  \/ part = "timer" /\ TimerNext /\ UNCHANGED <<logVars, vars, part>>
  \/ part = "log" /\ LogNext /\ UNCHANGED <<timerVars, vars, part>>
  \/ part = "call" /\ Next /\ UNCHANGED <<timerVars, logVars, part>>

\* TimerFairness, LogFairness and Fairness, each for its own part.
MCFairness ==
  /\ WF_timerVars(part = "timer" /\ Tick)
  /\ WF_timerVars(part = "timer" /\ OnTimer)
  /\ \A th \in TimerThreads : WF_timerVars(part = "timer" /\ Continue(th))
  /\ WF_logVars(part = "log" /\ StartUp)
  /\ WF_logVars(part = "log" /\ TimerSync)
  /\ WF_logVars(part = "log" /\ Writer)
  /\ WF_logVars(part = "log" /\ HandlerSteps)
  /\ WF_vars(part = "call" /\ RunHandler)
  /\ WF_vars(part = "call" /\ EpollWait)
  /\ SF_vars(part = "call" /\ TimerDue)
  /\ WF_vars(part = "call" /\ LoopExits)

MCSpec == MCInit /\ [][MCNext]_<<timerVars, logVars, vars, part>> /\ MCFairness
==============================================================================
