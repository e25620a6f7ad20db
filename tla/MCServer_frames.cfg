SPECIFICATION Spec
CONSTANTS
  DISPLAY_WIDTH = 2
  Colours = {c1, c2}
  Peers = {p1, p2}
  Fds = {f1, f2}
  NoPeer = NoPeer
  NoFd = NoFd
  NoSlot = NoSlot
  Sent = {"move"}
  Resizing = {p1}
  MaxInbox = 1
  Congested = {p1}
  DISPLAY_HEIGHT = 2
  PLAYER_COUNT = 2
  Active <- FirstSlot
  GcdMove = 2
  DTs = {1}
  Asserts = TRUE
SYMMETRY OthersAndColours
INVARIANTS RowsAboveScanline TrueColours
PROPERTIES NoBusySending
CHECK_DEADLOCK FALSE
