\* Up to three workers, two of which stay; three calls on a queue of one.
CONSTANTS
  Workers = {w1, w2, w3}
  Tasks = {t1, t2, t3}
  MinThreads = 2
  MaxThreads = 3
  QueueSize = 1
  None = None
SPECIFICATION Spec
\* The pool may come to rest: destroyed, or with destroy waiting forever.
CHECK_DEADLOCK FALSE
INVARIANTS
  TypeOK
  CountersMatch
  PoolSizeBounded
  NothingLeftToDrop
  EachTaskOnce
  SomeoneServesTheQueue
  SomeoneWakesTheSubmitters
PROPERTIES
  ImplementsTaskQueue
