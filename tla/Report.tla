------------------------------- MODULE Report -------------------------------
(***************************************************************************)
(* The report (src/src/MetricDumper.cpp), and the limits checked after it. *)
(* dump() goes through the tree of units, the sub units of each in the     *)
(* order of their names, and prints what each metric comes to: in a table  *)
(* with a column, or two, for each metric selected, or line by line in a   *)
(* tree.  What a metric comes to is that of Calculated, and what Limits    *)
(* compares.                                                               *)
(*                                                                         *)
(* The counters are given by the code of each unit, a sequence of tokens:  *)
(* what AstPass and LexPass say of counting is not repeated here.          *)
(***************************************************************************)
EXTENDS Limits, Calculated

CONSTANTS
  MetricOrder,  \* the metrics in the order of metrics.def
  Cumulative,   \* m_metricIsCumulative
  ReportLocal,  \* m_metricReportLocal
  UnitOrder,    \* the units but the global one, as dump() meets them
  Programs,     \* the code the units may have: tokens [counts, spelling]
  Selections    \* options: [format, metrics, types]

ASSUME ReportAssumption ==
  /\ MetricOrder \in Seq(Metrics) /\ UnitOrder \in Seq(Units)
  /\ Range(MetricOrder) = Metrics /\ Metrics \subseteq Stored \cup CalculatedMetrics
  /\ Range(UnitOrder) = Units \ {Top} /\ IsInjective(UnitOrder) /\ IsInjective(MetricOrder)
  /\ Special = counter_t_Na
  /\ \A c \in Programs : \A u \in Units : c[u] \in Seq(Range(c[u]))
  /\ \A o \in Selections : o.format \in {"none", "tree", "sparse", "table"}

VARIABLES
  code,     \* the tokens of each unit, those of its sub units aside, and for the global
            \* unit one for each file
  options,  \* --output-format, --output-metrics, --no-file and the like
  waiting,  \* units dump() has not come to
  table     \* what dump() has printed: rows, or groups of lines, of cells

rvars == <<value, format, pc, opened, patternMap, out, read, code, options, waiting, table>>
-----------------------------------------------------------------------------
(* What a metric of a unit comes to. *)

\* A unit and those below it.
Subtree(u) ==
  IF u = Top THEN Units
  ELSE IF u.fn = NoFn THEN {v \in Units : v.file = u.file} ELSE {u}

\* How many tokens of the units of S count for m, in code c.
Tokens(c, m, S) ==
  SumFunctionOnSet([u \in Units |-> Cardinality({i \in DOMAIN c[u] : m \in c[u][i].counts})], S)

\* The stored counter m of the units of S, and the spellings of literal l.
Counted(m, S) == Tokens(code, m, S) % Modulus
Spellings(l, S) == UNION {{t.spelling : t \in {x \in Range(code[u]) : l \in x.counts}} : u \in S}

\* Fault: the spellings of the unit itself only.
OwnSpellings(l, u, recurse) == Spellings(l, {u})

\* getSupplementary()
getSupplementary(l, u, recurse) == Spellings(l, IF recurse THEN Subtree(u) ELSE {u})

\* p_unit->getCounter(m, recurse)
Counter(u, m, recurse) ==
  LET S == IF recurse THEN Subtree(u) ELSE {u}
  IN  getCounter(m, [k \in Stored |-> Counted(k, S)],
                 [l \in Literals \cup OtherLiterals |-> getSupplementary(l, u, recurse)],
                 Type(u) \in {"function", "method"})

Values == [u \in Units |-> [m \in Metrics |-> Counter(u, m, m \in Cumulative)]]
-----------------------------------------------------------------------------
(* Rows. *)

IsTable == options.format = "table"
LocalAndCumulative(m) == m \in Cumulative \cap ReportLocal

\* A cell says what is in it: a metric, whether of the whole subtree, and its value.
Cell(m, recursed, v) == [metric |-> m, recursed |-> recursed, value |-> v]
Blank == Cell("", FALSE, 0)
Name(u) == Cell("name", FALSE, u)

\* Fault: one heading for each metric.
HeadingOnce(m) == <<Cell(m, m \in Cumulative, 0)>>

Headings(m) ==
  IF LocalAndCumulative(m) THEN <<Cell(m, FALSE, 0), Cell(m, TRUE, 0)>>
  ELSE <<Cell(m, m \in Cumulative, 0)>>

\* Fault: hides ones.
HiddenWithOne(v) == v <= 1 \/ v >= Special

\* What a sparse tree hides: zeros and special values.
Hidden(v) == v = 0 \/ v >= Special

\* dumpMetric()
DumpMetric(u, m, recurse) ==
  LET v == IF recurse = (m \in Cumulative) THEN value[u][m] ELSE Counter(u, m, recurse)
  IN  IF options.format = "sparse" /\ Hidden(v) THEN <<>>
      ELSE <<Cell(m, recurse, v)>>

\* A cell left empty, of which only tables have any.
Skipped == IF IsTable THEN <<Blank>> ELSE <<>>

\* The cells of a metric that does not apply.
NotApplicable(m) == IF LocalAndCumulative(m) THEN Skipped \o Skipped ELSE Skipped

Cells(u, m) ==
  IF m \notin Applies[Type(u)] THEN NotApplicable(m)
  ELSE (IF ~ LocalAndCumulative(m) THEN <<>>
        ELSE IF Type(u) = "file" THEN DumpMetric(u, m, FALSE)
        ELSE Skipped)
       \o DumpMetric(u, m, m \in Cumulative)

\* The columns for the name: only a function's file stands before it.
Names(u) ==
  CASE IsTable /\ Type(u) = "function" -> <<Name(FileUnit(u.file)), Name(u)>>
    [] IsTable /\ Type(u) /= "function" -> <<Name(u), Blank>>
    [] OTHER -> <<Name(u)>>

\* What a loop over the metrics prints for those selected.
ForSelected(op(_)) ==
  FlattenSeq([i \in DOMAIN MetricOrder |->
                IF MetricOrder[i] \in options.metrics THEN op(MetricOrder[i]) ELSE <<>>])

Heading == <<Blank, Blank>> \o ForSelected(Headings)
Row(u) == Names(u) \o ForSelected(LAMBDA m : Cells(u, m))
-----------------------------------------------------------------------------
RInit ==
  /\ code \in Programs
  /\ value = Values
  /\ Init
  /\ options \in Selections
  /\ waiting = <<Top>> \o UnitOrder
  /\ table = <<>>

\* dump() of the next unit; no unit is looked at without a format.
DumpUnit ==
  /\ waiting /= <<>>
  /\ LET u == Head(waiting)
         shown == options.format /= "none" /\ Type(u) \in options.types
     IN  table' = table \o (IF shown /\ IsTable /\ u = Top THEN <<Heading>> ELSE <<>>)
                        \o (IF shown THEN <<Row(u)>> ELSE <<>>)
  /\ waiting' = Tail(waiting)
  /\ UNCHANGED <<vars, code, options>>

\* LimitsChecker::dump(), once the report is printed.
CheckLimits ==
  /\ waiting = <<>>
  /\ Next
  /\ UNCHANGED <<code, options, waiting, table>>

RNext == DumpUnit \/ CheckLimits

RSpec == RInit /\ [][RNext]_rvars
-----------------------------------------------------------------------------
(* Properties. *)

\* The report is printed and no limits file opened yet.
Printed == waiting = <<>> /\ opened = 0

Rows == {i \in DOMAIN table : table[i][1].metric = "name"}
UnitOf(row) == IF IsTable /\ row[2].metric = "name" THEN row[2].value ELSE row[1].value

\* Headings and rows are made by loops of their own (MetricDumper.cpp:86-118, 137-168):
\* whatever is selected, a value stands in the column of its metric, under (local) or
\* (cumulative) as it is one or the other, and a row has a column for every heading.
CellsUnderHeadings ==
  Printed /\ IsTable /\ "global" \in options.types =>
    \A i \in Rows :
      LET row == table[i]  heading == table[1] IN
        /\ Len(row) = Len(heading)
        /\ \A k \in 3 .. Len(row) :
             LET m == heading[k].metric  u == UnitOf(row) IN
               IF /\ m \in Applies[Type(u)]
                  /\ heading[k].recursed = (m \in Cumulative) \/ Type(u) = "file"
               THEN row[k] = Cell(m, heading[k].recursed, Counter(u, m, heading[k].recursed))
               ELSE row[k] = Blank

\* A warning is about a value that stands in the report, if its unit and its metric
\* are in it; only a sparse tree may leave it out, if it is zero.
WarningsReported ==
  \A i \in DOMAIN out :
    LET u == out[i].unit  m == out[i].metric  v == value[u][m] IN
      /\ out[i].kind = "warning"
      /\ options.format /= "none" /\ Type(u) \in options.types /\ m \in options.metrics
      /\ ~ (options.format = "sparse" /\ v = 0)
      => \E r \in Rows : /\ UnitOf(table[r]) = u
                          /\ \E k \in DOMAIN table[r] :
                               /\ table[r][k].metric = m
                               /\ table[r][k].recursed = (m \in Cumulative)
                               /\ table[r][k].value = v

\* No counter wraps: all the tokens of operators, operands and literals, times the scaling
\* of VOCF, fit one.
HalsteadFits ==
  \A c \in Programs :
    LET all(S) == SumFunctionOnSet([m \in S |-> Tokens(c, m, Units)], S)
    IN  (all(HalsteadOperatorMetrics) + all(HalsteadOperandMetrics) + all(Literals))
          * Scaling["VOCF"] < counter_t_Na

\* Vocabulary and length are made from the same tokens by different loops
\* (MetricUnit.cpp:417-446): a unit's vocabulary is not above its length, nor below that
\* of its functions, and VOCF is at least one, or not available for a unit without
\* operators and operands.
HalsteadConsistent ==
  Printed => \A u \in Units :
    LET vocabulary(v) == Counter(v, "HALSTEAD_VOCABULARY", TRUE)
        length == Counter(u, "HALSTEAD_LENGTH", TRUE)
        vocf == Counter(u, "VOCF", TRUE)
    IN  /\ vocabulary(u) <= length
        /\ \A v \in Subtree(u) : vocabulary(v) <= vocabulary(u)
        /\ IF length = 0 THEN vocf = counter_t_Na
           ELSE vocf >= Scaling["VOCF"] /\ vocf < counter_t_Na
=============================================================================
