SPECIFICATION Spec
CONSTANTS
  Clicks <- TestAndApply
  MaxClicks = 2
  MaxEvents = 0
  MaxInputs = 2
  SlotLimit = 1
  CloseMayFail = FALSE
INVARIANTS RunningRuns
CHECK_DEADLOCK FALSE
