\* Bundles of both kinds, with every option, of releases that change between them,
\* killed at any step.
SPECIFICATION Spec
CONSTANTS
  Dep <- TreeDep
  Type <- TreeType
  Static = {"b"}
  Files <- TreeFiles
  IgnoreLines <- IgnoredNames
  Name <- LibName
  Suffixed = {"a.so", "a.so.1", "a.so.2", "b.so", "c.so"}
  Content = {"x", "y"}
  Releases <- TreeReleases
  HeaderOnly = {"c"}
  Modules <- TreeModules
  Commands <- AllCommands
  MaxDepth = 4
INVARIANTS
  BundleComplete
  DestinationCurrent
  XpcfComplete
