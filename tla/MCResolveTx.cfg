CONSTANTS
  o1 = o1
  o2 = o2
  Ops <- MCOps
  MaxInputs = 2
  MaxDeps = 2
SPECIFICATION Spec
INVARIANTS ResolvedAsReference DepGroupNeverPanics
CHECK_DEADLOCK FALSE
