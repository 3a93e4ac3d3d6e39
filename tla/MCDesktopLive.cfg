SPECIFICATION LiveSpec
CONSTANTS
  Parts = {"draft", "file", "metrics", "feed", "icons"}
  Keys = {"a"}
  Values = {0, 1}
  MaxEdits = 1
  MaxSaves = 1
  MaxOthers = 1
  MaxOpens = 2
  p1 = p1
  p2 = p2
  nothing = nothing
  every = every
  Window = 1
  Shown = 1
  Crashes = 2
  Views = 1
  Feeds = {"comment", "progress"}
  Items = 2
  Changes = 0
  FeedLimits = {1, 3}
  FeedLimit = 2
  Pictures = {1, 2, 3}
  PictureCost <- OneByOne
  AvatarSlots = 2
  MediaWorkers = 2
  CacheLimits = {2}
  MaxFailures = 2
  Fetches = 3
  CacheBlocks = 1
  Actions = {"append", "delete", "import"}
  MaxActs = 1
  MaxTaught = 1
  MaxDialogs = 1
PROPERTIES DesktopGetsOn
CHECK_DEADLOCK FALSE
