SPECIFICATION FairSpec
CONSTANTS
  Mode = {windows, wsl}
  Folder = {desktop, programs}
INVARIANTS
  ShortcutsFollowSetup
  CancelIsMeant
  NothingLeftRunning
\* The run ends.
CHECK_DEADLOCK FALSE
