\* A task queued between the swap and the read of the eventfd.
SPECIFICATION SafeSpec
CONSTANTS
  Threads = {t1, t2}
  Fds = {f1}
  WakeFd = wakefd
  NoTask = NoTask
  MaxEvent = 1
  MaxPost = 1
SYMMETRY Symmetry
CHECK_DEADLOCK FALSE
INVARIANT NoLostWakeup
