SPECIFICATION FairSpec
CONSTANTS
  Viewer = {v1}
  Agent = {}
  Action = {a1, a2}
  Nobody = Nobody
  MaxRecords = 1
  MaxChunks = 2
  MaxEpoch = 2
  MaxPrivacy = 0
  MaxBinding = 1
  MaxBridge = 1
  MaxHuman = 1
  Endings = {"close", "end"}
INVARIANTS
  HumanFirst
  WritesExclusive
  DirectBurst
  WrittenOnce
PROPERTIES
  OpenIsKept HumanServed
\* Nobody has to act, and every bound is reached.
CHECK_DEADLOCK FALSE
