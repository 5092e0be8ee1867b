SPECIFICATION Spec
CONSTANTS
  c1 = c1
  c2 = c2
  Numbers <- SomeNumbers
  Quads <- SomeQuads
  Files <- SomeFiles
  Conns = {c1, c2}
  MaxRequests <- TwoAndOne
  MaxWire = 2
INVARIANTS
  TypeOK
  AnswersInOrder
  UnsentIsWatched
  NoReadAfterDestroy
PROPERTIES
  RequestsRead
  RepliedIsSent
CHECK_DEADLOCK FALSE
