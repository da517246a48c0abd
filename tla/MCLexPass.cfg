\* Are the tokens of every file counted once, for the function they are in?
SPECIFICATION Spec
CONSTANTS
  main_a = main_a  header = header  defs = defs  excluded = excluded  fun_f = fun_f  fun_g = fun_g
  Files = {main_a, header, defs, excluded}
  FnNames = {fun_f, fun_g}
  NoFile = NoFile
  NoFn = NoFn
  Mains = {main_a, header}
  DefFiles = {defs}
  ExcludedFiles = {excluded}
  ExcludedFns = {fun_g}
  PrototypesAreFileScope = FALSE
  Identifiers = {x}
  Idioms = {"includeInFunction"}
  MaxTUs = 2
  MaxTokens = 5
  MaxIncludes = 2
INVARIANTS
  TypeOK
  TokensCountedOnce
  IdentifierSetsExact
  BodyExact
PROPERTIES
  FrozenAfterLexed
CHECK_DEADLOCK FALSE
