\* A repeated and a one-shot event, which the loop's thread and two others add and cancel;
\* the log of rpc; a call served by the loop of its thread.
\* A call that is decided, or a dead process, has nothing left to do: no deadlock check.
SPECIFICATION MCSpec
CONSTANTS
  Loop = l
  Others = {t1, t2}
  Events = {e1, e2}
  Repeating = {e2}
  Period = 2
  Grace = 1
  MaxDelay = 2
  Disarmed = Disarmed
  App = FALSE
  LogLevel = "INFO"
  MaxMsgs = 4
  Numbers <- SomeNumbers
  Quads <- SomeQuads
  Stubs <- SomeStubs
  Targets <- SomeTargets
  LoopStates <- Live
  StaleFds = {FALSE}
  MaxAnswers = 3
INVARIANTS
  TimerTypeOK
  NoLostTimer
  RepeatingKept
  LogTypeOK
  LogComplete
  TypeOK
  CallInv
  TimerCovers
  RegistrationKept
PROPERTIES
  OverStaysOver
  PendingRuns
  EverythingWritten
  ImplementsOneShotCall
  CallFinishes
CHECK_DEADLOCK FALSE
