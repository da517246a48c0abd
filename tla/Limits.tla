------------------------------- MODULE Limits -------------------------------
(***************************************************************************)
(* Checking the metrics against limits files (src/src/LimitLibrary.cpp and *)
(* src/src/LimitsChecker.cpp).  main() comes here last, when everything is *)
(* counted and the metrics were printed.  The files are read line by line  *)
(* into one list of rules for each metric; then every unit is checked, and *)
(* a warning printed for each metric whose rule it breaks.                 *)
(*                                                                         *)
(* A regular expression is the set of names it matches: the empty set for  *)
(* an empty field and for an expression llvm::Regex cannot compile, such   *)
(* as "*".                                                                 *)
(***************************************************************************)
EXTENDS Integers, Sequences, FiniteSets, SequencesExt, FiniteSetsExt

CONSTANTS
  Files, FnNames,  \* names of files and of functions
  NoFile, NoFn,    \* parts of a unit's key it does not have
  Units,           \* the tree of units
  Methods,         \* the units of C++ methods
  Metrics,
  Applies,         \* metrics that apply to "global", "file", "function", "method"
  Counters,        \* values of a counter_t
  Special,         \* the least above counter_t_Max: not available, infinite
  Rules,           \* lines: [metric, global, file, fileName, funcName, operand, limit]
  Formats,         \* --output-limit-warnings
  MaxFiles, MaxLines  \* bounds on the limits files and on the lines read

Top == [file |-> NoFile, fn |-> NoFn]
FileUnit(f) == [file |-> f, fn |-> NoFn]

ASSUME UnitAssumption ==
  /\ NoFile \notin Files /\ NoFn \notin FnNames
  /\ Units \subseteq {Top} \cup [file : Files, fn : FnNames \cup {NoFn}]
  /\ Top \in Units /\ \A u \in Units \ {Top} : FileUnit(u.file) \in Units
  /\ IsFiniteSet(Units) /\ IsFiniteSet(Metrics)
  /\ Methods \subseteq {u \in Units : u.fn # NoFn}
ASSUME RuleAssumption ==
  \A r \in Rules : /\ r.metric \in Metrics
                   /\ r.fileName \subseteq Files /\ r.funcName \subseteq FnNames
                   /\ r.operand \in {"<", ">", ">=", "<="} /\ r.limit \in Nat
ASSUME CounterAssumption == Counters \subseteq Nat /\ Special \in Nat
ASSUME BoundAssumption == MaxFiles \in Nat /\ MaxLines \in Nat
ASSUME FormatAssumption == Formats \subseteq {"default", "byfile", "gccbrief"}

VARIABLES
  value,       \* what getCounter() returns
  format,      \* output format of the warnings
  pc,          \* "open", "read", "check", "done" or "exited"
  opened,      \* limits files opened
  patternMap,  \* m_patternMap
  out,         \* what dump() printed: warnings, headings and separators
  read         \* history: the rules in the order they were read

vars == <<value, format, pc, opened, patternMap, out, read>>
-----------------------------------------------------------------------------
(* Loading. *)

Init ==
  /\ value \in [Units -> [Metrics -> Counters]] /\ format \in Formats
  /\ pc = "open" /\ opened = 0
  /\ patternMap = [m \in Metrics |-> <<>>]
  /\ out = <<>> /\ read = <<>>

\* load() of the next file named on the command line.
OpenFile ==
  /\ pc = "open" /\ opened < MaxFiles
  /\ pc' = "read" /\ opened' = opened + 1
  /\ UNCHANGED <<value, format, patternMap, out, read>>

\* A file that cannot be opened, or a line with an unknown metric or operator, ends
\* the program.
Fail ==
  /\ pc \in {"open", "read"} /\ (pc = "open" => opened < MaxFiles)
  /\ pc' = "exited"
  /\ UNCHANGED <<value, format, opened, patternMap, out, read>>

\* Fault: one list for all metrics.
ListedForAll(r) == [m \in Metrics |-> Append(patternMap[m], r)]

\* push_back() on the list of the rule's metric.
Listed(r) == [patternMap EXCEPT ![r.metric] = Append(@, r)]

\* parseCsvLine() of a rule; comments change nothing.
ReadRule(r) ==
  /\ pc = "read" /\ Len(read) < MaxLines
  /\ patternMap' = Listed(r)
  /\ read' = Append(read, r)
  /\ UNCHANGED <<value, format, pc, opened, out>>

EndOfFile ==
  /\ pc = "read" /\ pc' = "open"
  /\ UNCHANGED <<value, format, opened, patternMap, out, read>>

AllLoaded ==
  /\ pc = "open" /\ opened > 0 /\ pc' = "check"
  /\ UNCHANGED <<value, format, opened, patternMap, out, read>>
-----------------------------------------------------------------------------
(* Checking. *)

Type(u) ==
  IF u = Top THEN "global" ELSE IF u.fn = NoFn THEN "file"
  ELSE IF u \in Methods THEN "method" ELSE "function"

unitMatchesLimitPattern(u, r) ==
  CASE Type(u) = "global" -> r.global
    [] Type(u) = "file" -> r.file /\ u.file \in r.fileName
    [] Type(u) = "function" -> u.fn \in r.funcName /\ u.file \in r.fileName
    [] OTHER -> FALSE

\* Fault: the first rule that matches.
Foremost(S) == Min(S)

\* findHighestPresidenceRule(): the loop goes on after a match.
Highest(S) == Max(S)

Matching(u, rules) == {i \in DOMAIN rules : unitMatchesLimitPattern(u, rules[i])}

\* The operators of a rule.
Compare(v, r) ==
  \/ r.operand = "<" /\ v < r.limit
  \/ r.operand = ">" /\ v > r.limit
  \/ r.operand = ">=" /\ v >= r.limit
  \/ r.operand = "<=" /\ v <= r.limit

\* The test of checkUnitPassesMetricLimit(): special values are not compared.
Holds(v, r) == v >= Special \/ Compare(v, r)

\* checkLimit(): the metrics for which unit u gets a warning.
Broken(u) ==
  {m \in Metrics \cap Applies[Type(u)] :
     LET ms == Matching(u, patternMap[m])
     IN  ms # {} /\ ~ Holds(value[u][m], patternMap[m][Highest(ms)])}

Warning(u, m) == [kind |-> "warning", unit |-> u, metric |-> m]
Mark(kind, u) == [kind |-> kind, unit |-> u, metric |-> "none"]

Warnings(u) == SetToSeq({Warning(u, m) : m \in Broken(u)})

Grouped == format = "byfile"

\* Fault: a heading only where the file itself has a warning.
OwnOnly(own, below) == own # <<>>

\* Does a file get a heading?
HasAny(own, below) == own # <<>> \/ below # <<>>

\* check() of a file unit and its functions ...
CheckFile(f) ==
  LET own == Warnings(FileUnit(f))
      below == FlattenSeq(SetToSeq({Warnings(u) : u \in {v \in Units : v.file = f /\ v.fn # NoFn}}))
      headed == Grouped /\ HasAny(own, below)
      line(kind) == IF headed THEN <<Mark(kind, FileUnit(f))>> ELSE <<>>
  IN  line("heading") \o own \o below \o line("separator")

\* ... and of the global unit, whose warnings are set off from the files'.
CheckGlobal ==
  LET own == Warnings(Top)
      below == FlattenSeq(SetToSeq({CheckFile(u.file) : u \in Units \ {Top}}))
  IN  own \o (IF Grouped /\ own # <<>> /\ below # <<>> THEN <<Mark("separator", Top)>> ELSE <<>>)
        \o below

\* dump()
Check ==
  /\ pc = "check" /\ pc' = "done"
  /\ out' = CheckGlobal
  /\ UNCHANGED <<value, format, opened, patternMap, read>>

Next ==
  \/ OpenFile \/ Fail \/ (\E r \in Rules : ReadRule(r)) \/ EndOfFile \/ AllLoaded \/ Check

Spec == Init /\ [][Next]_vars
-----------------------------------------------------------------------------
(* Properties. *)

\* Type invariant.
TypeOK ==
  /\ value \in [Units -> [Metrics -> Counters]] /\ format \in Formats
  /\ pc \in {"open", "read", "check", "done", "exited"} /\ opened \in 0 .. MaxFiles
  /\ patternMap \in [Metrics -> Seq(Rules)]
  /\ \A m \in Metrics : \A i \in DOMAIN patternMap[m] : patternMap[m][i].metric = m
  /\ \A i \in DOMAIN out : out[i].unit \in Units

\* Rule i of those read is the last for metric m that matches unit u.
Decides(i, u, m) ==
  /\ read[i].metric = m /\ unitMatchesLimitPattern(u, read[i])
  /\ \A j \in (i + 1) .. Len(read) :
       read[j].metric = m => ~ unitMatchesLimitPattern(u, read[j])

\* "a failure will only be reported in the case that a particular element exceeds the
\* last matching limit rule which applies to it" (docs/limits.md:26), through all of
\* the limits files; a special value exceeds nothing.
LastMatchDecides ==
  pc = "done" =>
    \A u \in Units, m \in Metrics :
      (\E i \in DOMAIN out : out[i] = Warning(u, m))
        <=> /\ m \in Applies[Type(u)] /\ value[u][m] < Special
            /\ \E i \in DOMAIN read : Decides(i, u, m) /\ ~ Compare(value[u][m], read[i])

\* "the output is broken into per-file sections" (docs/usage.md:75): a warning about a
\* file or its functions stands in the section of that file, every section holds one,
\* and there is one section for each file.
SectionsByFile ==
  pc = "done" /\ Grouped =>
    LET lines(kind, f) == {i \in DOMAIN out : out[i].kind = kind /\ out[i].unit.file = f} IN
    \A f \in {u.file : u \in Units \ {Top}} :
      LET heads == lines("heading", f)  tails == lines("separator", f)
          warnings == lines("warning", f)
      IN  /\ Cardinality(heads) = Cardinality(tails)
          /\ Cardinality(heads) = IF warnings = {} THEN 0 ELSE 1
          /\ \A h \in heads, t \in tails : {i \in DOMAIN out : h < i /\ i < t} = warnings
=============================================================================
