SPECIFICATION Spec
CONSTANTS
  Viewer = {v1}
  Agent = {e1}
  Action = {a1}
  Nobody = Nobody
  MaxRecords = 1
  MaxChunks = 2
  MaxEpoch = 3
  MaxPrivacy = 2
  MaxBinding = 2
  MaxBridge = 1
  MaxHuman = 0
  Endings = {}
CONSTRAINT ShortAgain
INVARIANTS
  TypeOK DirectNeedsDirectMode
PROPERTIES
  RevokedStaysSilent OutcomeIsFinal
\* Nobody has to act, and every bound is reached.
CHECK_DEADLOCK FALSE
