SPECIFICATION Spec
CONSTANTS
  MAP_WIDTH = 14
  MAP_HEIGHT = 13
  MIN_SIZE = 5
  MAX_SIZE = 7
  ROOM_MAX = 3
  FOV_RANGE = 6
INVARIANTS TypeOK StartsFree AllReachable RoomLit
CHECK_DEADLOCK FALSE
