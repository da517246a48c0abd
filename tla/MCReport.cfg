\* What is printed, and then checked against up to three rules in up to two files.
SPECIFICATION RSpec
CONSTANTS
  f1 = f1  f2 = f2  g1 = g1  g2 = g2
  Files = {f1, f2}
  FnNames = {g1, g2}
  NoFile = NoFile
  NoFn = NoFn
  Units <- TheUnits
  Methods <- TheMethods
  Metrics = {"FILES", "STATEMENTS", "HIS_COMMENT_DENSITY", "CYCLOMATIC", "VOCF"}
  Applies <- TheApplies
  Counters <- TheCounters
  Special = 65534
  Modulus = 65536
  Scaling <- TheScaling
  OperatorMetrics = {}
  KeywordMetrics = {"IF"}
  HalsteadOperatorMetrics = {"IF"}
  HalsteadOperandMetrics = {}
  MetricOrder <- TheMetrics
  Cumulative = {"STATEMENTS", "HIS_COMMENT_DENSITY", "CYCLOMATIC", "VOCF"}
  ReportLocal = {"STATEMENTS"}
  UnitOrder <- TheOrder
  Programs <- ThePrograms
  Selections <- TheSelections
  Rules <- TheRules
  Formats = {"default", "byfile"}
  MaxFiles = 2
  MaxLines = 3
CONSTRAINT Explored
INVARIANTS
  TypeOK
  LastMatchDecides
  SectionsByFile
  CellsUnderHeadings
  WarningsReported
  HalsteadConsistent
CHECK_DEADLOCK FALSE
