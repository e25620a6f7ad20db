SPECIFICATION Spec
CONSTANTS
  Peers = {p1, p2, p3}
  Fds = {f1, f2, f3}
  NoPeer = NoPeer
  NoFd = NoFd
  NoSlot = NoSlot
  Sent = {"quit"}
  Resizing = {p1}
  MaxInbox = 1
  Congested = {p1}
  DISPLAY_WIDTH = 0
  Colours = {}
  DISPLAY_HEIGHT = 1
  PLAYER_COUNT = 2
  Active <- FirstTwoSlots
  GcdMove = 0
  DTs = {1}
  Asserts = TRUE
SYMMETRY Others
INVARIANTS TypeOK SocketOwnership BufferForNobodyElse
PROPERTIES OpenPeerKept ImplementsSessions
CHECK_DEADLOCK FALSE
