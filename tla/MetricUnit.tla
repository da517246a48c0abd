----------------------------- MODULE MetricUnit -----------------------------
(***************************************************************************)
(* The tree of metric units (src/src/MetricUnit.cpp): one global unit, a   *)
(* sub-unit for each source file and, below it, one for each function.     *)
(* Each unit keeps an unsigned 32-bit counter per metric and the place     *)
(* where the metric was first seen.  A counter saturates; the cumulative   *)
(* value of a unit is the unchecked sum over its subtree.                  *)
(*                                                                         *)
(* Metrics reach a unit in three ways, one representative of each is kept: *)
(*   "inc"  counted by increment(), cumulative over the tree (KW_IF_CNT)   *)
(*   "max"  raised by setMax()                               (FUNC_NESTING)*)
(*   "set"  overwritten by set()                               (FUNC_PATHS)*)
(* and "files" is METRIC_TYPE_FILES, kept by getSubUnit() itself.          *)
(***************************************************************************)
EXTENDS Integers, Sequences, FiniteSets, Functions

CONSTANTS
  Files,       \* names of source files
  FnNames,     \* names of functions
  NoFile,      \* file part of the global unit's key
  NoFn,        \* function part of the key of a unit that is no function
  Modulus,     \* 2^32: counter_t is an unsigned 32-bit integer
  Increments,  \* values passed as p_inc
  Samples,     \* values passed to set() and setMax()
  Locations,   \* valid source locations
  InvalidLoc,  \* InvalidSourceAndLine
  MaxTotal,    \* bound on what is added to one counter
  MaxCalls     \* bound on the setMax() calls of one unit

ASSUME CounterAssumption ==
  /\ Modulus \in Nat /\ Modulus > 4
  /\ Increments \subseteq 1 .. (Modulus - 4)
  /\ Samples \subseteq 0 .. (Modulus - 1)
  /\ InvalidLoc \notin Locations
  /\ MaxTotal \in Nat /\ MaxCalls \in Nat
ASSUME KeyAssumption == NoFile \notin Files /\ NoFn \notin FnNames

VARIABLES
  subUnits,   \* keys of the units that exist
  counter,    \* m_counters
  location,   \* m_firstInstanceLocation
  warnings,   \* overflow messages written to stderr for each unit's "inc" counter
  total,      \* history: what increment() was asked to add, without a limit
  firstInc,   \* history: location given by the first increment() of each unit
  maxSeen     \* history: the setMax() calls of each unit, in order

vars == <<subUnits, counter, location, warnings, total, firstInc, maxSeen>>

Metrics == {"inc", "max", "set", "files"}

counter_t == 0 .. (Modulus - 1)
counter_t_Max == Modulus - 3
counter_t_Na  == Modulus - 2
counter_t_Inf == Modulus - 1

Top == [file |-> NoFile, fn |-> NoFn]
FileUnits == [file : Files, fn : {NoFn}]
FunctionUnits == [file : Files, fn : FnNames]
Units == {Top} \cup FileUnits \cup FunctionUnits

Locs == Locations \cup {InvalidLoc}
-----------------------------------------------------------------------------
(* Counter arithmetic. *)

\* Faults to compare with: no overflow test, and a test that lets one too many by.
FitsAlways(c, n) == TRUE
FitsLoosely(c, n) == counter_t_Max + 1 >= c + n

\* The overflow test of increment(): the subtraction is done on counter_t and
\* the comparison is strict, so a sum of exactly counter_t_Max does not "fit".
Fits(c, n) == (counter_t_Max - n) % Modulus > c

Incremented(c, n) == IF Fits(c, n) THEN c + n ELSE counter_t_Max

\* The message is not repeated once the counter sits at its maximum.
Warns(c, n) == ~ Fits(c, n) /\ c /= counter_t_Max

\* Fault: remembers the latest location.
LatestLocation(c, n, old, loc) ==
  IF Fits(c, n) /\ loc /= InvalidLoc THEN loc ELSE old

\* The location an increment leaves behind: only the one that takes the counter
\* away from zero can set it, and only with a valid location.
IncLocation(c, n, old, loc) ==
  IF Fits(c, n) /\ c = 0 /\ loc /= InvalidLoc THEN loc ELSE old

\* Fault: a later equal value moves the location.
RaisesOnEqual(c, v) == v >= c

\* setMax() replaces only a strictly smaller value.
Raises(c, v) == v > c

-----------------------------------------------------------------------------
(* Values reported for a unit. *)

Children(u) ==
  IF u = Top THEN subUnits \cap FileUnits
  ELSE IF u.fn = NoFn THEN {v \in subUnits \cap FunctionUnits : v.file = u.file}
  ELSE {}

Subtree(u) == {u} \cup Children(u) \cup UNION {Children(v) : v \in Children(u)}

\* Fault: only the unit and its direct children.
ShallowCounter(u, m) ==
  SumFunctionOnSet([v \in Units |-> counter[v][m]], {u} \cup Children(u)) % Modulus

\* getCounter(metric, TRUE) of a metric that is not calculated.  The additions
\* are made on counter_t, without the test increment() makes.
getCounter(u, m) == SumFunctionOnSet([v \in Units |-> counter[v][m]], Subtree(u)) % Modulus

TrueTotal(u) == SumFunctionOnSet(total, Subtree(u))
-----------------------------------------------------------------------------
(* Operations. *)

Init ==
  /\ subUnits = {Top}
  /\ counter  = [u \in Units |-> [m \in Metrics |-> 0]]
  /\ location = [u \in Units |-> [m \in Metrics |-> InvalidLoc]]
  /\ warnings = [u \in Units |-> 0]
  /\ total    = [u \in Units |-> 0]
  /\ firstInc = [u \in Units |-> InvalidLoc]
  /\ maxSeen  = [u \in Units |-> <<>>]

\* The file counter of the global unit after getSubUnit() of file f: it is raised
\* only when the sub-unit is created.
CountFile(f) ==
  IF [file |-> f, fn |-> NoFn] \in subUnits THEN counter
  ELSE [counter EXCEPT ![Top]["files"] = Incremented(@, 1)]

\* getSubUnit() on the global unit, with p_create.
GetFileUnit(f) ==
  /\ counter' = CountFile(f)
  /\ subUnits' = subUnits \cup {[file |-> f, fn |-> NoFn]}
  /\ UNCHANGED <<location, warnings, total, firstInc, maxSeen>>

\* getSubUnit() on a file unit, with p_create.
GetFunctionUnit(f, g) ==
  /\ [file |-> f, fn |-> NoFn] \in subUnits
  /\ subUnits' = subUnits \cup {[file |-> f, fn |-> g]}
  /\ UNCHANGED <<counter, location, warnings, total, firstInc, maxSeen>>

\* increment(metric, loc, n).  Saturation and the message for it are decided on
\* the value before the call.
Increment(u, n, loc) ==
  LET c == counter[u]["inc"] IN
  /\ u \in subUnits
  /\ total[u] + n <= MaxTotal
  /\ counter'  = [counter EXCEPT ![u]["inc"] = Incremented(c, n)]
  /\ location' = [location EXCEPT ![u]["inc"] = IncLocation(c, n, @, loc)]
  /\ warnings' = [warnings EXCEPT ![u] = @ + (IF Warns(c, n) THEN 1 ELSE 0)]
  /\ total'    = [total EXCEPT ![u] = @ + n]
  /\ firstInc' = [firstInc EXCEPT ![u] = IF total[u] = 0 THEN loc ELSE @]
  /\ UNCHANGED <<subUnits, maxSeen>>

\* setMax(metric, v, loc).  Every caller passes a valid location.
SetMax(u, v, loc) ==
  /\ u \in subUnits
  /\ Len(maxSeen[u]) < MaxCalls
  /\ counter'  = [counter EXCEPT ![u]["max"] = IF Raises(@, v) THEN v ELSE @]
  /\ location' = [location EXCEPT ![u]["max"] = IF Raises(counter[u]["max"], v) THEN loc ELSE @]
  /\ maxSeen' = [maxSeen EXCEPT ![u] = Append(@, [value |-> v, loc |-> loc])]
  /\ UNCHANGED <<subUnits, warnings, total, firstInc>>

\* set(metric, v, loc): no test of any kind.
Set(u, v, loc) ==
  /\ u \in subUnits
  /\ counter' = [counter EXCEPT ![u]["set"] = v]
  /\ location' = [location EXCEPT ![u]["set"] = IF loc = InvalidLoc THEN @ ELSE loc]
  /\ UNCHANGED <<subUnits, warnings, total, firstInc, maxSeen>>

Next ==
  \/ \E f \in Files : GetFileUnit(f)
  \/ \E f \in Files, g \in FnNames : GetFunctionUnit(f, g)
  \/ \E u \in Units, n \in Increments, loc \in Locs : Increment(u, n, loc)
  \/ \E u \in Units, v \in Samples, loc \in Locations : SetMax(u, v, loc)
  \/ \E u \in Units, v \in Samples, loc \in Locs : Set(u, v, loc)

Spec == Init /\ [][Next]_vars
-----------------------------------------------------------------------------
(* Properties. *)

\* Type invariant of the tree and its history.
TypeOK ==
  /\ subUnits \subseteq Units
  /\ counter  \in [Units -> [Metrics -> counter_t]]
  /\ location \in [Units -> [Metrics -> Locs]]
  /\ warnings \in [Units -> Nat]
  /\ total    \in [Units -> Nat]
  /\ firstInc \in [Units -> Locs]
  /\ maxSeen  \in [Units -> Seq([value : Samples, loc : Locations])]

CountSaturates ==
  \A u \in Units :
    counter[u]["inc"] = IF total[u] > counter_t_Max THEN counter_t_Max ELSE total[u]

WarnedOnce ==
  \A u \in Units : warnings[u] = IF total[u] >= counter_t_Max THEN 1 ELSE 0

\* increment() saturates: however the calls are split, a counter is the sum of
\* what was added to it, or counter_t_Max once that sum is larger.  It never
\* takes one of the two special values above counter_t_Max.  The overflow message
\* appears once per counter, at the call that takes it to counter_t_Max, and never
\* for a counter that is still exact below it.
SaturatingCount == CountSaturates /\ WarnedOnce

\* The location reported for a counted metric is where it was first counted,
\* never that of a later call (it is missing when the first call had none).
FirstLocationIsFirst ==
  \A u \in Units : location[u]["inc"] \in {InvalidLoc, firstInc[u]}

\* While a whole tree's count fits a counter, what each unit reports for a
\* cumulative metric is exact: nothing is lost, saturated or counted twice.
CumulativeExact ==
  TrueTotal(Top) < counter_t_Max =>
    \A u \in subUnits : getCounter(u, "inc") = TrueTotal(u)

\* A unit's peak is the largest value it was given, and its location is where that
\* value was reached for the first time.
PeakIsFirstMaximum ==
  \A u \in Units :
    counter[u]["max"] > 0 =>
      \E i \in DOMAIN maxSeen[u] :
        /\ maxSeen[u][i] = [value |-> counter[u]["max"], loc |-> location[u]["max"]]
        /\ \A j \in DOMAIN maxSeen[u] :
             maxSeen[u][j].value <= counter[u]["max"] - (IF j < i THEN 1 ELSE 0)
=============================================================================
