SPECIFICATION FairSpec
CONSTANTS
  MaxMade = 2
  MaxQueue = 1
INVARIANTS
  NothingLeftRunning
PROPERTIES
  KeepsPromise
  CloseAfterSave
  HiddenStops
  StopEnds
\* The application may exit, and a folder dialog may stay open.
CHECK_DEADLOCK FALSE
