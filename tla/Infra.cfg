\* The pool: the header and alignment of the code, and a handful of blocks.
\* Two threads log, two wait for events; two callers have two descriptors
\* and a word of an fd_set one bit.
CONSTANTS
  PoolSize = 264
  Align = 8
  Header = 32
  Word = 4096
  Sizes = {1, 24, 64}
  Garbage = {0, 7}
  Allocators = {a1}
  Loggers = {l1, l2}
  MaxMutexes = 4
  MaxInits = 2
  MaxResets = 2
  Callers = {c1, c2}
  MaxFds = 2
  Bits = 1
  MaxHosts = 1
  Waiters = {w1, w2}
  MuxFds = {1, 2}
  Flags = {"read"}
  MaxEvents = 1
  MaxRoom = 2
  BufferWord = 16
  Bytes = {"a", "b"}
  MaxWrite = 3
  MaxPeers = 3
  MaxDescriptors = 3
  MaxConnections = 4
  MaxArguments = 3
  MaxCommands = 2
SPECIFICATION InfraSpec
VIEW InfraObserved
CHECK_DEADLOCK FALSE
INVARIANTS
  TypesOK
  PoolIntact
  AllocationsAreBlocks
  NothingLost
  FreeSpaceIsWhole
  UsageIsExact
  CallsAreSafe
  CleanupReleases
  SocketsAreOwned
  MuxIsWhole
  BufferHoldsWrites
  PeerIdsStayTheirs
  ExitTellsWhatHappened
PROPERTIES
  ConnectedWhenOk
  
