SPECIFICATION Spec
CONSTANTS
  MAP_WIDTH = 3
  MAP_HEIGHT = 3
  FOV_RANGE = 3
INVARIANTS TypeOK QueueSorted StraightSight SightReaches PathIsWalk GivesUpOnlyIfCutOff
PROPERTIES SearchEnds
CHECK_DEADLOCK FALSE
