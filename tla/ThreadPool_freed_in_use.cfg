\* One worker, three calls on a queue of one.
CONSTANTS
  Workers = {w1}
  Tasks = {t1, t2, t3}
  MinThreads = 1
  MaxThreads = 1
  QueueSize = 1
  None = None
SPECIFICATION Spec
\* The pool may come to rest: destroyed, or with destroy waiting forever.
CHECK_DEADLOCK FALSE
INVARIANTS
  FreedPoolIsUnused
