\* When every reply is sent or every request is answered, nothing is left to do: no
\* deadlock check.
SPECIFICATION MCSpec
CONSTANTS
  BufferSize = 64
  Replies <- MCReplies
  MaxReplies = 2
  Wild = {0, 3}
  Segments = {5, 40}
  Parts = {10}
  MaxWritten = 95
  r1 = r1
  r2 = r2
  Requests <- MCRequests
  Names <- MCNames
  Services <- MCServices
  Plain <- MCPlain
  MaxCalls = 3
  Base = 2
  g_msg_id_length = 2
  Protos <- MCProtos
  InPlace = TRUE
  MaxDeaths = 1
  EditedKinds = {"interface.cpp"}
INVARIANTS
  StreamTypeOK
  FramesExact
  DecodeAdvances
  TypeOK
  AnsweredOnRelease
  GenTypeOK
  ServiceFits
PROPERTIES
  BuffersAreQueues
  OwnIdsCount
  EditsKept
CHECK_DEADLOCK FALSE
