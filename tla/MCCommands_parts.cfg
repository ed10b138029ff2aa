\* run and info over every installation, init with either unpacker, and profiles made,
\* used, copied and edited by hand under two versions.
SPECIFICATION CommandsSpec
CONSTANTS
  Worlds <- Installations
  Commands <- Every
  Depth = 5
  rule = rule
  wizard = wizard
  Process = {process}
  Invocation <- Everything
  Edit <- HandEdits
  MaxCommands = 3
  Env = {"unset"}
  Lines <- Contents
  Tool = {"unzip"}
  Plain = {"default", "arm"}
  Altered <- RunAltered
  Release <- TwoReleases
INVARIANTS
  LibrariesOnPath
  ModulesOnPath
  RulesWhole
  ForceInstalls
  Kept
  GeneratorKnown
CHECK_DEADLOCK FALSE
