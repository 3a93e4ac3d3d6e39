SPECIFICATION DesktopSpec
CONSTANTS
  Parts = {"draft", "hasty", "careful", "file", "two", "metrics", "feed", "icons"}
  Keys = {"a"}
  Values = {0, 1, 2}
  MaxEdits = 1
  MaxSaves = 2
  MaxOthers = 1
  MaxOpens = 2
  p1 = p1
  p2 = p2
  nothing = nothing
  every = every
  Window = 5
  Shown = 7
  Crashes = 3
  Views = 2
  Feeds = {"comment", "log"}
  Items = 3
  Changes = 1
  FeedLimits = {1, 3}
  FeedLimit = 2
  Pictures = {1, 2, 3}
  PictureCost <- OneByOne
  AvatarSlots = 2
  MediaWorkers = 2
  CacheLimits = {2, 4}
  MaxFailures = 2
  Fetches = 4
SYMMETRY Symmetry
INVARIANTS DesktopTypeOK EditsAreSaved  FileIsSafe MetricsAreCurrent FeedIsComplete
PROPERTIES EndIsLast
CHECK_DEADLOCK FALSE
