\* Two rules and listeners, and two clients that may meet in one session.
CONSTANTS
  MaxRules = 2
  MaxSessions = 2
  Sources = {a, b}
  Listeners = {l1, l2}
  Connections = {c1, c2}
  Enabled = {TRUE}
  MuxCreated = TRUE
  None = None
SPECIFICATION Spec
VIEW Observed
SYMMETRY Symmetry
INVARIANTS
  TypeOK
  UniqueSource
  ListenersKeepTheirRules
  StoppedServiceIsQuiet
  SocketsOpenInUse
