\* One worker, one call.
CONSTANTS
  Workers = {w1}
  Tasks = {t1}
  MinThreads = 1
  MaxThreads = 1
  QueueSize = 1
  None = None
SPECIFICATION FairSpec
\* The pool may come to rest: destroyed, or with destroy waiting forever.
CHECK_DEADLOCK FALSE
PROPERTIES
  DestroyTerminates
