CONSTANTS
  MaxRules = 1
  MaxSessions = 1
  Sources = {a}
  Listeners = {l1}
  Connections = {c1}
  Enabled = {TRUE}
  MuxCreated = TRUE
  None = None
SPECIFICATION Spec
INVARIANTS
  StartedListenersListen
