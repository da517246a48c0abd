\* Does a call only count for a function of the name called?
SPECIFICATION Spec
CONSTANTS
  NumFiles = 2
  NumNames = 3
  Trees <- AllTrees
INVARIANTS
  CreditedByName
