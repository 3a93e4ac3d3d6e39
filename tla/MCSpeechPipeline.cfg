SPECIFICATION Spec
CONSTANTS
  QueueLimit = 2
  Limits <- MCLimits
  MaxClip = 2
  PlanShapes <- MCPlanShapes
  Engines = {TRUE, FALSE}
  MaxItems = 4
INVARIANTS TypeOK BudgetSafe NothingStranded EndsQuietly
PROPERTIES SpokenInOrder ReservedWithinLimit
