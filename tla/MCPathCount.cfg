\* Do the counts agree with the paths, the return points, the statements and the levels?
SPECIFICATION VSpec
CONSTANTS
  Functions <- Trees
  Modulus = 65536
CONSTRAINT Explored
INVARIANTS
  PlainCountExact
  EveryFunctionHasAPath
  ReturnPointsExact
  StatementsExact
  NestingExact
CHECK_DEADLOCK FALSE
