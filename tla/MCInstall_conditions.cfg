\* A conditional line in extra-packages.txt.
SPECIFICATION Spec
CONSTANTS
  Proc = {p1}
  Project <- ExtraProject
  Dep <- ExtraDep
  Cond <- ExtraCond
  Type <- ExtraType
  Mode <- ExtraMode
  Archive <- ExtraArchive
  Lists <- ExtraLists
  CondOn <- ExtraNoConditions
  CondOff <- ExtraNoConditions
  Options <- ExtraOptions
  Torn <- ExtraTorn
  MaxDepth = 8
  Interruptible = FALSE
INVARIANTS
  EnabledConditionsRecorded
CHECK_DEADLOCK FALSE
