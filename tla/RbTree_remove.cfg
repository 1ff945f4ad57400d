\* Six keys, which is how many a removal that crashes needs.
CONSTANTS
  Keys = {1, 2, 3, 4, 5, 6}
  Values = {0, 1}
  Strings = {s}
  Capacity = 1
  Nodes = {n1, n2, n3, n4, n5, n6}
  Puts <- ParityPuts
  Null = Null
  None = None
SPECIFICATION Spec
VIEW Observed
CHECK_DEADLOCK FALSE
INVARIANTS
  TreeRemoveReturns
