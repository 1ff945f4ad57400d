\* One rule and its listener, and two clients for the one session.
CONSTANTS
  MaxRules = 1
  MaxSessions = 1
  Sources = {a}
  Listeners = {l1}
  Connections = {c1, c2}
  Enabled = {TRUE}
  MuxCreated = TRUE
  None = None
SPECIFICATION FairSpec
PROPERTIES
  StopTerminates
INVARIANTS
  NoLostSocket
