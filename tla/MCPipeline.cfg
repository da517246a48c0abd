\* Two main files, any of which may fail in any pass: what is reported, and kept?
SPECIFICATION PSpec
CONSTANTS
  main_a = main_a  main_b = main_b  header = header  std = std  c99 = c99
  Files = {main_a, main_b, header, std}
  NoFile = NoFile
  Comment = Comment
  Mains = {main_a, main_b}
  Guarded = {header, main_b}
  ExcludedFiles = {std}
  Texts <- SmallTexts
  UserExcluded = {}
  Language <- TheLanguage
  StandardHeaders <- TheHeaders
  DefFiles = {header}
INVARIANTS
  TypeOK
  CountedOnce
  LostOnlyWhenCut
  ReportComplete
  StatusTells
PROPERTIES
  OneTranslationUnit
CHECK_DEADLOCK FALSE
