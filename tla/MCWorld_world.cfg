SPECIFICATION Spec
CONSTANTS
  MAP_WIDTH = 4
  MAP_HEIGHT = 2
  NPlayers = 2
  NActors = 4
  Solid <- Walls
  Starts <- Beside
  Sees <- Sight
  PathBetween <- Paths
  GcdMove = 1
  MoveGcd = 2
  DTs = {1}
INVARIANTS TypeOK OneActorPerTile PathLeadsOn SightCurrent
