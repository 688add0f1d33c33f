SPECIFICATION FairSpec
CONSTANTS
  Viewer = {v1}
  Agent = {}
  Action = {a1, a2}
  Nobody = Nobody
  MaxRecords = 1
  MaxChunks = 2
  MaxEpoch = 1
  MaxPrivacy = 0
  MaxBinding = 2
  MaxBridge = 2
  MaxHuman = 0
  Endings = {"close", "end"}
INVARIANTS
  OneBridgePerAction
PROPERTIES
  WritersReturn
\* Nobody has to act, and every bound is reached.
CHECK_DEADLOCK FALSE
