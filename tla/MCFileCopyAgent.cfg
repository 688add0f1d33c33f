SPECIFICATION Spec
CONSTANTS
  Action = {a}
  Job = {}
  Key = {}
  Terminal = {s, t}
  Nobody = Nobody
  Slots = 1
  MaxRecords = 1
  MaxJobs = 1
  MaxChunks = 0
  MaxVersion = 2
  MaxBinding = 1
  MaxBridge = 2
  MaxTransfers = 0
INVARIANT TypeOK OutcomeIsTrue
PROPERTY WithdrawnNeverCommits
CHECK_DEADLOCK FALSE
SYMMETRY Symmetric
