SPECIFICATION FairSpec
CONSTANTS
  QueueLimit = 1
  Limits <- MCLimits
  MaxClip = 2
  PlanShapes <- MCPlanShapes
  Engines = {TRUE, FALSE}
  MaxItems = 3
PROPERTIES LaneDrains NobodyWaitsForever
