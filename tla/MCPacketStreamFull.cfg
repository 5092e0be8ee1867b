SPECIFICATION StreamSpec
CONSTANTS
  BufferSize = 64
  Replies <- MCReplies
  MaxReplies = 2
  Wild = {0, 3}
  Segments = {5, 40}
  Parts = {10}
  MaxWritten = 95
CHECK_DEADLOCK FALSE
INVARIANT ReadIsKept
