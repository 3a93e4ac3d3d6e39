SPECIFICATION PluginsSpec
CONSTANTS
  Parts = {"qwen", "provision", "load", "port", "rpc", "chat", "audio", "service"}
  Models = {m1, m2}
  NoModel = NoModel
  NoEngine = NoEngine
  Threads = {t1, t2}
  Players = {t1, t2}
  Versions = {"v1", "v2"}
  Capacity = 1
  MaxEffects = 1
  MaxSaves = 2
  MaxPosts = 2
  MaxBreaks = 1
  Builtin = {"qwen3"}
  External = {"one", "two"}
  Ids = {"qwen3", "x"}
  Page = 2
  Hidden = {2}
  Window = 2
  MaxOpens = 3
  MaxClicks = 3
  MaxGen = 3
  MaxCalls = 2
  Messages = 4
  MaxBegins = 3
  MaxFaults = 3
  MaxPlays = 3
SYMMETRY Symmetry
INVARIANTS PluginsTypeOK ServiceIsShown ModelsAreWhole PluginsAreApart PortsAgree CommentsArrive
PROPERTIES NewestStays
CHECK_DEADLOCK FALSE
