SPECIFICATION Spec
CONSTANTS
  ACTOR_COUNT = 5
  GenWidth = 3
  MaxGeneration = 3
INVARIANTS TypeOK FreeListExact
PROPERTIES ImplementsRegistry LoopVisitsEachOnce
CHECK_DEADLOCK FALSE
