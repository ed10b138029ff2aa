\* Every sequence of calls on small trees, the one that moves the last child behind the
\* child before it among them.
SPECIFICATION TreesSpec
CONSTANTS
  doc = doc
  null = null
INVARIANTS
  InsertsReturn
CHECK_DEADLOCK FALSE
