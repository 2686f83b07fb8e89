SPECIFICATION FlushSpec
CONSTANTS
  t1 = t1
  t2 = t2
  m = m
  w = w
  Tasks = {t1, t2}
  Outs = {m, w}
  NULL = NULL
  Threaded = {w}
  Routes <- MCRoutes
  Slots = {1, 2}
  RetryLimit <- MCRetryLimit
  MaxFaults = 1
  MaxRetries = 1
INVARIANTS UsersCounted ActiveIffFlushing OwnFlush
PROPERTIES DroppedIsNotFlushed TasksAreReleased
CHECK_DEADLOCK FALSE
