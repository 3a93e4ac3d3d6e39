SPECIFICATION FairSpec
CONSTANTS
  Clicks <- StopAndClose
  MaxClicks = 3
  MaxEvents = 0
  MaxInputs = 3
  SlotLimit = 1
  CloseMayFail = FALSE
PROPERTIES ShutdownCompletes
CHECK_DEADLOCK FALSE
