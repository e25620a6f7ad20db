SPECIFICATION FairSpec
CONSTANTS
  Peers = {p1, p2}
  Fds = {f1, f2}
  NoPeer = NoPeer
  NoFd = NoFd
  NoSlot = NoSlot
  Sent = {}
  Resizing = {p2}
  MaxInbox = 1
  Congested = {p1}
  DISPLAY_WIDTH = 0
  Colours = {}
  DISPLAY_HEIGHT = 2
  PLAYER_COUNT = 2
  Active <- FirstTwoSlots
  GcdMove = 0
  DTs = {1}
  Asserts = FALSE
PROPERTIES WholeScreenShown DeadPeerReaped SigintStops
CHECK_DEADLOCK FALSE
