\* Two processes share the packages folder and the cache file; extractions,
\* cleans and cache writes may stop half-way.
SPECIFICATION Spec
CONSTANTS
  Proc = {p1, p2}
  Project <- ChainProject
  Dep <- ChainDep
  Cond <- ChainCond
  Type <- ChainType
  Mode <- ChainMode
  Archive <- ChainArchive
  Lists <- ChainLists
  CondOn <- ChainNoConditions
  CondOff <- ChainNoConditions
  Options <- SharedOptions
  Torn <- ChainTorn
  MaxDepth = 8
  Interruptible = TRUE
SYMMETRY ProcSymmetry
INVARIANTS
  TypeOK
  ForcedRunComplete
  CachedIsInstalled
PROPERTIES
  ImplementsInstaller
CHECK_DEADLOCK FALSE
