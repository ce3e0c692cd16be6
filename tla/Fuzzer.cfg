CONSTANTS
  Programs = {"merge", "cover", "fuzz", "fork"}
  Features = {1, 2}
  Size <- MCSize
  Units <- MCUnits
  Newline = "a"
  NoUnit = "none"
  Options <- MCOptions
  FuzzTargets <- MCFuzzTargets
  OutputCorpora <- MCOutputCorpora
  ExtraSeeds <- MCExtraSeeds
  MaxOther = 1
  Workers = {w1, w2}
  ForkUnits <- MCForkUnits
  Ignored = {"crash"}
  Modes <- MCModes
  Corpora <- MCCorpora
  ForkTargets <- MCForkTargets
  Old = {1}
  New = {2, 3}
  Later = {4}
  Sizes <- MCSizes
  MaxInputLen = 2
  MergeTargets <- MCMergeTargets
  MaxCrashes = 2
  MaxCuts = 1
  MaxKills = 1
  MaxRequests = 1
  MaxMerges = 2
  MaxRemoved = 1
  MaxFaults = 2
SPECIFICATION Spec
INVARIANTS
  ControlFileComplete
  MergeSound
  CorpusConsistent
  DiskCovers
  EnvConsistent
PROPERTIES
  StopsWhenOver
CHECK_DEADLOCK FALSE
