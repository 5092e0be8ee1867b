\* Two descriptors and the wake-up descriptor compete for two slots of epoll_wait.
\* A stopped loop stops: no deadlock check.
SPECIFICATION Spec
CONSTANTS
  Threads = {t1}
  Fds = {f1, f2}
  WakeFd = wakefd
  NoTask = NoTask
  MaxEvent = 2
  MaxPost = 1
INVARIANTS
  TypeOK
  WatchedIsListed
  HandlersRunBeforeWait
PROPERTIES
  BlockedLoopIsWoken
  ImplementsMailbox
  StopTerminates
CHECK_DEADLOCK FALSE
