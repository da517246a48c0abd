\* Are the paths of a function with two returns counted?
SPECIFICATION VSpec
CONSTANTS
  Functions <- ReturningTrees
  Modulus = 65536
INVARIANTS
  CountExact
CHECK_DEADLOCK FALSE
