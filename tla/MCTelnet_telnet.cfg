SPECIFICATION FairSpec
CONSTANTS
  IN_BUFFER = 12
  INT_MAX = 32767
  Keyboard <- Session
  MaxTyped = 3
INVARIANTS TypeOK KeysDecoded SplitInventsNoMove
PROPERTIES LexerProgress WireDrained
CHECK_DEADLOCK FALSE
