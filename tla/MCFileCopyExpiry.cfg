SPECIFICATION Spec
CONSTANTS
  Action = {a}
  Job = {}
  Key = {}
  Terminal = {s, t}
  Nobody = Nobody
  Slots = 1
  MaxRecords = 1
  MaxJobs = 1
  MaxChunks = 1
  MaxVersion = 2
  MaxBinding = 1
  MaxBridge = 1
  MaxTransfers = 0
INVARIANT ExpiryDoesNotCancel
CHECK_DEADLOCK FALSE
