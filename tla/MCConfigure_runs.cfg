\* Runs with every option, edits and installs at any moment of them; a run without
\* --force and --override may be killed anywhere.
SPECIFICATION Spec
CONSTANTS
  Dep <- ProjectDep
  KindOf <- ProjectKind
  Cond = {"C", "D"}
  Children <- ProjectChildren
  Drafts <- ProjectDrafts
  OsLines = {}
  ProjectOn = {}
  ProjectOff = {"D"}
  Options <- AllOptions
  Generator = "qmake"
  MaxTime = 3
  Killable <- PlainOptions
INVARIANTS
  SkipIsWhole
  SuccessIsWhole
PROPERTIES
  SkipIsCurrent
  RecordedConditionsHold
CHECK_DEADLOCK FALSE
