\* Do all callers count, when local functions of several files share a name?
SPECIFICATION Spec
CONSTANTS
  NumFiles = 2
  NumNames = 3
  Trees <- CallableTrees
INVARIANTS
  EveryCallerCounted
