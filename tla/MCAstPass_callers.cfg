\* Does FUNC_CALLED_BY_LOCAL count functions?
SPECIFICATION Spec
CONSTANTS
  main_a = main_a  main_b = main_b  header = header  defs = defs  inner = inner  excluded = excluded
  fun_f = fun_f  fun_g = fun_g  fun_h = fun_h
  Files = {main_a, main_b, header, defs, inner}
  FnNames = {fun_f, fun_g}
  NoFile = NoFile
  NoFn = NoFn
  Programs <- Plain
  DefFiles = {defs, inner}
  FileSize <- Bytes
  ExcludedFiles = {}
  ExcludedFns = {}
  StatementCounts <- Statement
  Depths = {1}
  MaxNodes = 2
INVARIANTS
  CalledByDistinctFunctions
CHECK_DEADLOCK FALSE
