SPECIFICATION FairSpec
CONSTANTS
  Action = {a}
  Job = {}
  Key = {}
  Terminal = {s, t}
  Nobody = Nobody
  Slots = 1
  MaxRecords = 1
  MaxJobs = 1
  MaxChunks = 1
  MaxVersion = 1
  MaxBinding = 1
  MaxBridge = 1
  MaxTransfers = 1

PROPERTY CopiesEnd
CHECK_DEADLOCK FALSE
