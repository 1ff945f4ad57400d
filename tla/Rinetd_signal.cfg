\* One session, which a second client gets as soon as the first is over.
CONSTANTS
  MaxRules = 1
  MaxSessions = 1
  Sources = {a}
  Listeners = {l1}
  Connections = {c1, c2}
  Enabled = {TRUE}
  MuxCreated = TRUE
  None = None
SPECIFICATION Spec
PROPERTIES
  SignalStopsTheOther
