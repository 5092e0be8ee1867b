SPECIFICATION Spec
CONSTANTS
  c1 = c1
  c2 = c2
  Numbers <- SomeNumbers
  Quads <- SomeQuads
  Files <- SomeFiles
  Conns = {c1}
  MaxRequests <- Two
  MaxWire = 2
INVARIANT SentOnce
CHECK_DEADLOCK FALSE
