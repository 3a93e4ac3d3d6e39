SPECIFICATION FairSpec
CONSTANTS
  Clicks <- Everything
  MaxClicks = 3
  MaxEvents = 2
  MaxInputs = 4
  SlotLimit = 1
  CloseMayFail = TRUE
INVARIANTS TypeOK  SpokenBySameSession SlotsConserved NothingAfterDrain
PROPERTIES OneOfEach StopMutes EndsAreReached
CHECK_DEADLOCK FALSE
