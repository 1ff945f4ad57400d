\* Up to three workers, two of which stay; two calls on a queue of one.
CONSTANTS
  Workers = {w1, w2, w3}
  Tasks = {t1, t2}
  MinThreads = 2
  MaxThreads = 3
  QueueSize = 1
  None = None
SPECIFICATION FairSpec
\* The pool may come to rest: destroyed, or with destroy waiting forever.
CHECK_DEADLOCK FALSE
PROPERTIES
  AcceptedTaskRuns
  BlockedSubmitReturns
  IdlePoolIsDestroyed
  CreateTerminates
