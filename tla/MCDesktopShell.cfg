SPECIFICATION FairSpec
CONSTANTS
  Build = {"packaged_wsl", "source"}
  GitAction = {update}
  Port = {p1, p2}
  None = None
  HostAttempts = 2
  MaxBoots = 2
INVARIANTS
  OneBackend
  NoStaleCookie
PROPERTIES
  RestartAfterStop
  PortIsConsented
  QuitEnds
\* The last start may end the application for good.
CHECK_DEADLOCK FALSE
