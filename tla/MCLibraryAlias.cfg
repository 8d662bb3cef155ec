CONSTANTS
  p = p
  q = q
  NoPath = NoPath
  Type = {"a", "b"}
  Path = {p, q}
  File <- OneFile
  Incomplete = {}
  Configs <- AliasConfigs
  InProgram <- MCInProgram
  MaxDuration = 0
SPECIFICATION AppSpec
INVARIANTS
  OneKeyPerLibrary
