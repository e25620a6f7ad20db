SPECIFICATION Spec
CONSTANTS
  IN_BUFFER = 64
  INT_MAX = 32767
  Keyboard <- Session
  MaxTyped = 1
INVARIANTS WholeBufferHandled
CHECK_DEADLOCK FALSE
