\* Packaging tools of linux and windows, conan 1 and 2, and the build information for
\* each kind of dependencies.
SPECIFICATION ToolsSpec
CONSTANT
  Faulty = TRUE
INVARIANTS
  ScriptIsBundle
  BinariesAgree
  InfoCollected
  OwnFlags
  FileIsInfo
  KegsWritten
PROPERTIES
  RemotesAdded
CHECK_DEADLOCK FALSE
