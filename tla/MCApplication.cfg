CONSTANTS
  p = p
  q = q
  NoPath = NoPath
  Type = {"a", "b"}
  Path = {p, q}
  File <- TwoFiles
  Incomplete = {}
  Configs <- MCConfigs
  InProgram <- MCInProgram
  MaxDuration = 1
SPECIFICATION FairAppSpec
INVARIANTS
  PluginCodeMapped
  NothingLeaks
  LoadResolvesConfig
PROPERTIES
  ShutdownEnds
