SPECIFICATION Spec
CONSTANTS
  r1 = r1
  r2 = r2
  Requests <- MCRequests
  Names <- MCNames
  Services <- MCServices
  Plain <- MCPlain
  MaxCalls = 3
  Base = 2
  g_msg_id_length = 2
INVARIANT IdPassedThrough
CHECK_DEADLOCK FALSE
