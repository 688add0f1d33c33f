SPECIFICATION Spec
CONSTANTS
  Action = {}
  Job = {i, j, h}
  Key = {k}
  Terminal = {s, t}
  Nobody = Nobody
  Slots = 2
  MaxRecords = 1
  MaxJobs = 1
  MaxChunks = 0
  MaxVersion = 1
  MaxBinding = 0
  MaxBridge = 1
  MaxTransfers = 0
INVARIANT SlotsBalance OneJobPerRequest NoCircularWait
PROPERTY OpenCopyKept
CHECK_DEADLOCK FALSE
SYMMETRY Symmetric
