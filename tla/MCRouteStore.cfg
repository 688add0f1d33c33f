SPECIFICATION Spec
CONSTANTS
  e1 = e1
  e2 = e2
  h1 = h1
  h2 = h2
  a = a
  b = b
  Node = {1, 2, 3, 4, 5, 6, 7, 8, 9, 10, 11, 12, 13, 14, 15, 16, 17, 18, 19, 20}
  Entry = {e1, e2, h1, h2}
  History = {h1, h2}
  MaxHistory = 1
  Host = {a, b}
  None = None
  Blank = Blank
  Unset = Unset
  MaxJumps = 1
  Window = {w1, w2}
  Begin <- Catalogues
  Incoming <- Files
  Recent <- Connections
  Direct <- Forms
  MaxRevision = 2
  MaxEdits <- EditsOf
  w1 = w1
  w2 = w2
  Spare = 10
  Typed = {a}
INVARIANT RoutesUsable
PROPERTY  NothingDropped RepairsOneEntry
