SPECIFICATION FairSpec
CONSTANTS
  Clicks <- TestAndStart
  MaxClicks = 2
  MaxEvents = 0
  MaxInputs = 2
  SlotLimit = 1
  CloseMayFail = FALSE
PROPERTIES StartConnects
CHECK_DEADLOCK FALSE
