SPECIFICATION SafeSpec
CONSTANTS
  Threads = {t1, t2}
  Early = {t1, t2}
INVARIANT
  MutualExclusion
