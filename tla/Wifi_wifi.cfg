SPECIFICATION FairSpec
CONSTANTS
  ESP_MAXIMUM_RETRY = 10
  MaxEvents = 6
INVARIANTS TypeOK TriesUntilGivenUp GivesUpLate OutcomeTrue
PROPERTIES SetupReturns
CHECK_DEADLOCK FALSE
