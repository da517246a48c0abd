\* Is everything counted once, where it belongs, and never past the gate, the def-file
\* resolution or the exclusions?
SPECIFICATION Spec
CONSTANTS
  main_a = main_a  main_b = main_b  header = header  defs = defs  inner = inner  excluded = excluded
  fun_f = fun_f  fun_g = fun_g  fun_h = fun_h
  Files = {main_a, main_b, header, defs, inner, excluded}
  FnNames = {fun_f, fun_g, fun_h}
  NoFile = NoFile
  NoFn = NoFn
  Programs <- All
  DefFiles = {defs, inner}
  FileSize <- Bytes
  ExcludedFiles = {excluded}
  ExcludedFns = {fun_h}
  StatementCounts <- Statement
  Depths = {1}
  MaxNodes = 2
INVARIANTS
  TypeOK
  CountsAreTrue
  DifferentFunctionsCalled
  UnresolvedExact
  CalledOncePerTU
  UnitInCurrentFile
  NothingForeign
PROPERTIES
  FrozenAfterProcessed
CHECK_DEADLOCK FALSE
