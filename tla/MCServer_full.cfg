SPECIFICATION Spec
CONSTANTS
  Peers = {p1, p2}
  Fds = {f1, f2}
  NoPeer = NoPeer
  NoFd = NoFd
  NoSlot = NoSlot
  Sent = {}
  Resizing = {}
  MaxInbox = 1
  Congested = {}
  DISPLAY_WIDTH = 0
  Colours = {}
  DISPLAY_HEIGHT = 1
  PLAYER_COUNT = 1
  Active <- FirstSlot
  GcdMove = 0
  DTs = {1}
  Asserts = TRUE
INVARIANTS PushClientFindsSlot
CHECK_DEADLOCK FALSE
