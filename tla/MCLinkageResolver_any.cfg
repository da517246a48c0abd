\* All trees: the loops end, nothing is counted twice or for a local function, and on
\* clean trees every call counts for the function it names.
SPECIFICATION FairSpec
CONSTANTS
  NumFiles = 2
  NumNames = 3
  Trees <- AllTrees
INVARIANTS
  TypeOK
  OnlyExternalCredited
  OneCreditPerCall
PROPERTIES
  Terminates
  Linked
