\* The loop of the calling thread serves the call.
\* A call that is decided has nothing left to do: no deadlock check.
SPECIFICATION Spec
CONSTANTS
  Numbers <- SomeNumbers
  Quads <- SomeQuads
  Stubs <- SomeStubs
  Targets <- SomeTargets
  LoopStates <- Live
  StaleFds = {FALSE}
  MaxAnswers = 1
PROPERTY FailureRunsClosure
CHECK_DEADLOCK FALSE
