\* One process, every option, no interruption.
SPECIFICATION FairSpec
CONSTANTS
  Proc = {p1}
  Project <- TreeProject
  Dep <- TreeDep
  Cond <- TreeCond
  Type <- TreeType
  Mode <- TreeMode
  Archive <- TreeArchive
  Lists <- TreeLists
  CondOn <- TreeOn
  CondOff <- TreeOff
  Options <- TreeOptions
  Torn <- TreeTorn
  MaxDepth = 4
  Interruptible = FALSE
INVARIANTS
  SuccessComplete
  SwitchedOffStaysOut
  GeneratedConditions
  CycleNeverSucceeds
PROPERTIES
  Terminates
CHECK_DEADLOCK FALSE
