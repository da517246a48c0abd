\* Does every comment count?
SPECIFICATION Spec
CONSTANTS
  main_a = main_a  main_b = main_b  header = header  list = list
  Files = {main_a, main_b, header, list}
  NoFile = NoFile
  Comment = Comment
  Mains = {main_a, main_b}
  Guarded = {header}
  ExcludedFiles = {main_b}
  Texts <- SmallTexts
INVARIANTS
  AllCounted
CHECK_DEADLOCK FALSE
