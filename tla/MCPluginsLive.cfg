SPECIFICATION FairPlugins
CONSTANTS
  Parts = {"qwen", "provision", "port", "rpc", "chat", "audio", "service"}
  Models = {m1}
  NoModel = NoModel
  NoEngine = NoEngine
  Threads = {t1, t2}
  Players = {t1}
  Versions = {"v1", "v2"}
  Capacity = 1
  MaxEffects = 1
  MaxSaves = 2
  MaxPosts = 2
  MaxBreaks = 1
  Builtin = {"qwen3"}
  External = {"one", "two"}
  Ids = {"qwen3", "x"}
  Page = 2
  Hidden = {2}
  Window = 2
  MaxOpens = 3
  MaxClicks = 2
  MaxGen = 1
  MaxCalls = 1
  Messages = 2
  MaxBegins = 2
  MaxFaults = 1
  MaxPlays = 2
PROPERTIES PluginsGetOn
CHECK_DEADLOCK FALSE
