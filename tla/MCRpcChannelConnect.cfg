\* The loop may have been left before the call, and the number of the socket may still be
\* listed.  A call that is decided has nothing left to do: no deadlock check.
SPECIFICATION Spec
CONSTANTS
  Numbers <- SomeNumbers
  Quads <- SomeQuads
  Stubs <- SomeStubs
  Targets <- SomeTargets
  LoopStates = {"fresh", "running", "exited"}
  StaleFds = {FALSE, TRUE}
  MaxAnswers = 1
PROPERTY ConnectDoneRuns
CHECK_DEADLOCK FALSE
