-------------------------- MODULE MetricUnitProofs --------------------------
(***************************************************************************)
(* Proofs about the counters of MetricUnit, for every counter width and    *)
(* every tree of files and functions.                                      *)
(***************************************************************************)
EXTENDS MetricUnit, FoldTheorems

\* The overflow test of increment() on a counter and an increment that are in
\* range: the unsigned subtraction does not wrap, and the test asks whether the
\* sum stays strictly below the maximum.
LEMMA FitsMeaning ==
  ASSUME NEW c \in counter_t, NEW n \in 1 .. (Modulus - 4)
  PROVE  Fits(c, n) <=> c + n < counter_t_Max
<1>1. Modulus \in Nat /\ Modulus > 4
  BY CounterAssumption
<1>2. (counter_t_Max - n) \in 0 .. (Modulus - 1)
  BY <1>1 DEF counter_t_Max
<1>3. (counter_t_Max - n) % Modulus = counter_t_Max - n
  BY <1>1, <1>2 DEF counter_t_Max
<1>4. QED
  BY <1>1, <1>3 DEF Fits, counter_t, counter_t_Max

\* An increment never leaves the range of the counter.
LEMMA IncrementedInRange ==
  ASSUME NEW c \in counter_t, NEW n \in 1 .. (Modulus - 4)
  PROVE  Incremented(c, n) \in counter_t
BY FitsMeaning, CounterAssumption DEF Incremented, counter_t, counter_t_Max

\* Every reachable state of the tree is well typed.
THEOREM TypeCorrect == Spec => []TypeOK
<1>1. Init => TypeOK
  BY CounterAssumption DEF Init, TypeOK, counter_t, Locs, Units
<1>2. TypeOK /\ [Next]_vars => TypeOK'
  <2> SUFFICES ASSUME TypeOK, [Next]_vars PROVE TypeOK'
    OBVIOUS
  <2> USE DEF TypeOK
  <2>1. ASSUME NEW f \in Files, GetFileUnit(f) PROVE TypeOK'
    <3>1. Top \in Units /\ [file |-> f, fn |-> NoFn] \in Units /\ "files" \in Metrics
      BY DEF Units, FileUnits, Metrics
    <3>2. Incremented(counter[Top]["files"], 1) \in counter_t
      BY <3>1, CounterAssumption, IncrementedInRange
    <3>3. counter' \in [Units -> [Metrics -> counter_t]]
      BY <2>1, <3>2 DEF GetFileUnit, CountFile
    <3>4. QED
      BY <2>1, <3>1, <3>3 DEF GetFileUnit
  <2>2. ASSUME NEW f \in Files, NEW g \in FnNames, GetFunctionUnit(f, g) PROVE TypeOK'
    BY <2>2 DEF GetFunctionUnit, Units, FunctionUnits
  <2>3. ASSUME NEW u \in Units, NEW n \in Increments, NEW loc \in Locs, Increment(u, n, loc)
        PROVE TypeOK'
    <3>1. Incremented(counter[u]["inc"], n) \in counter_t
      BY CounterAssumption, IncrementedInRange DEF Metrics
    <3>2. n \in Nat
      BY CounterAssumption
    <3>3. counter' \in [Units -> [Metrics -> counter_t]]
      BY <2>3, <3>1 DEF Increment
    <3>4. location' \in [Units -> [Metrics -> Locs]]
      BY <2>3 DEF Increment, IncLocation
    <3>5. warnings' \in [Units -> Nat] /\ total' \in [Units -> Nat]
      BY <2>3, <3>2 DEF Increment
    <3>6. QED
      BY <2>3, <3>3, <3>4, <3>5 DEF Increment
  <2>4. ASSUME NEW u \in Units, NEW v \in Samples, NEW loc \in Locations, SetMax(u, v, loc)
        PROVE TypeOK'
    <3> DEFINE Sample == [value : Samples, loc : Locations]
    <3> HIDE DEF TypeOK
    <3>1. v \in counter_t /\ loc \in Locs
      BY CounterAssumption DEF counter_t, Locs
    <3>2. counter' \in [Units -> [Metrics -> counter_t]] /\ location' \in [Units -> [Metrics -> Locs]]
      <4>1. counter \in [Units -> [Metrics -> counter_t]] /\ location \in [Units -> [Metrics -> Locs]]
        BY DEF TypeOK
      <4>2. /\ counter' = [counter EXCEPT ![u]["max"] = IF Raises(@, v) THEN v ELSE @]
            /\ location' = [location EXCEPT ![u]["max"] =
                              IF Raises(counter[u]["max"], v) THEN loc ELSE @]
        BY <2>4 DEF SetMax
      <4>3. QED
        BY <3>1, <4>1, <4>2
    <3>3. maxSeen' \in [Units -> Seq(Sample)]
      <4>1. maxSeen \in [Units -> Seq(Sample)]
        BY DEF TypeOK
      <4>2. [value |-> v, loc |-> loc] \in Sample
        OBVIOUS
      <4> HIDE DEF Sample
      <4>3. Append(maxSeen[u], [value |-> v, loc |-> loc]) \in Seq(Sample)
        BY <4>1, <4>2
      <4>4. QED
        BY <2>4, <4>1, <4>3 DEF SetMax
    <3>4. QED
      BY <2>4, <3>2, <3>3 DEF SetMax, TypeOK
  <2>5. ASSUME NEW u \in Units, NEW v \in Samples, NEW loc \in Locs, Set(u, v, loc)
        PROVE TypeOK'
    BY <2>5, CounterAssumption DEF Set, counter_t
  <2>6. CASE UNCHANGED vars
    BY <2>6 DEF vars
  <2>7. QED
    BY <2>1, <2>2, <2>3, <2>4, <2>5, <2>6 DEF Next
<1>3. QED
  BY <1>1, <1>2, PTL DEF Spec

-----------------------------------------------------------------------------
(* Saturation.                                                             *)
(* CountSaturates and WarnedOnce are inductive only together: the message *)
(* depends on the counter, the next counter on whether it was exact.       *)

CountInv == TypeOK /\ CountSaturates /\ WarnedOnce

\* One call of increment() keeps the counter equal to the saturated sum, and
\* prints its message exactly when the sum reaches the maximum.
LEMMA IncrementStep ==
  ASSUME NEW c \in counter_t, NEW t \in Nat, NEW n \in 1 .. (Modulus - 4),
         c = IF t > counter_t_Max THEN counter_t_Max ELSE t
  PROVE  /\ Incremented(c, n) = IF t + n > counter_t_Max THEN counter_t_Max ELSE t + n
         /\ Warns(c, n) <=> (t < counter_t_Max /\ t + n >= counter_t_Max)
<1>1. Modulus \in Nat /\ Modulus > 4
  BY CounterAssumption
<1>2. Fits(c, n) <=> c + n < counter_t_Max
  BY FitsMeaning
<1>3. counter_t_Max \in Nat /\ n \in Nat /\ n > 0
  BY <1>1 DEF counter_t_Max
<1>4. CASE t >= counter_t_Max
  BY <1>2, <1>3, <1>4 DEF Incremented, Warns
<1>5. CASE t < counter_t_Max
  BY <1>2, <1>3, <1>5 DEF Incremented, Warns
<1>6. QED
  BY <1>3, <1>4, <1>5

\* Saturation and the message for it hold in every reachable state, for every
\* counter width and every sequence of calls on every unit.
THEOREM Saturation == Spec => []SaturatingCount
<1>1. Init => CountInv
  <2>1. Modulus \in Nat /\ Modulus > 4
    BY CounterAssumption
  <2>2. Init => CountSaturates /\ WarnedOnce
    BY <2>1 DEF Init, CountSaturates, WarnedOnce, counter_t_Max, Metrics
  <2>3. Init => TypeOK
    BY CounterAssumption DEF Init, TypeOK, counter_t, Locs, Units
  <2>4. QED
    BY <2>2, <2>3 DEF CountInv
<1>2. CountInv /\ TypeOK' /\ [Next]_vars => CountInv'
  <2> SUFFICES ASSUME CountInv, TypeOK', [Next]_vars
               PROVE  CountSaturates' /\ WarnedOnce'
    BY DEF CountInv
  <2> USE DEF CountInv, TypeOK
  <2>1. ASSUME NEW f \in Files, GetFileUnit(f) PROVE CountSaturates' /\ WarnedOnce'
    <3>1. \A u \in Units : counter'[u]["inc"] = counter[u]["inc"]
      BY <2>1 DEF GetFileUnit, CountFile, Metrics
    <3>2. QED
      BY <2>1, <3>1 DEF GetFileUnit, CountSaturates, WarnedOnce
  <2>2. ASSUME NEW f \in Files, NEW g \in FnNames, GetFunctionUnit(f, g)
        PROVE  CountSaturates' /\ WarnedOnce'
    BY <2>2 DEF GetFunctionUnit, CountSaturates, WarnedOnce
  <2>3. ASSUME NEW u \in Units, NEW n \in Increments, NEW loc \in Locs, Increment(u, n, loc)
        PROVE  CountSaturates' /\ WarnedOnce'
    <3>1. /\ n \in 1 .. (Modulus - 4) /\ Modulus \in Nat
          /\ counter[u]["inc"] \in counter_t /\ total[u] \in Nat
          /\ counter_t_Max \in Int
      BY CounterAssumption DEF Metrics, counter_t_Max
    <3>2. counter[u]["inc"] = IF total[u] > counter_t_Max THEN counter_t_Max ELSE total[u]
      BY DEF CountSaturates
    <3>3. /\ Incremented(counter[u]["inc"], n)
               = IF total[u] + n > counter_t_Max THEN counter_t_Max ELSE total[u] + n
          /\ Warns(counter[u]["inc"], n)
               <=> (total[u] < counter_t_Max /\ total[u] + n >= counter_t_Max)
      BY <3>1, <3>2, IncrementStep
    <3>4. /\ counter'[u]["inc"] = Incremented(counter[u]["inc"], n)
          /\ total'[u] = total[u] + n
          /\ warnings'[u] = warnings[u] + (IF Warns(counter[u]["inc"], n) THEN 1 ELSE 0)
      BY <2>3 DEF Increment, Metrics
    <3>5. \A w \in Units \ {u} : /\ counter'[w] = counter[w]
                                 /\ total'[w] = total[w]
                                 /\ warnings'[w] = warnings[w]
      BY <2>3 DEF Increment
    <3>6. CountSaturates'
      BY <3>3, <3>4, <3>5 DEF CountSaturates
    <3>7. warnings'[u] = IF total'[u] >= counter_t_Max THEN 1 ELSE 0
      <4>1. warnings[u] = IF total[u] >= counter_t_Max THEN 1 ELSE 0
        BY DEF WarnedOnce
      <4>2. CASE total[u] >= counter_t_Max
        BY <3>1, <3>3, <3>4, <4>1, <4>2
      <4>3. CASE ~ (total[u] >= counter_t_Max)
        BY <3>1, <3>3, <3>4, <4>1, <4>3
      <4>4. QED
        BY <4>2, <4>3
    <3>8. QED
      BY <3>5, <3>6, <3>7 DEF WarnedOnce
  <2>4. ASSUME NEW u \in Units, NEW v \in Samples, NEW loc \in Locations, SetMax(u, v, loc)
        PROVE  CountSaturates' /\ WarnedOnce'
    <3>1. \A w \in Units : counter'[w]["inc"] = counter[w]["inc"]
      <4>1. counter' = [counter EXCEPT ![u]["max"] = IF Raises(@, v) THEN v ELSE @]
        BY <2>4 DEF SetMax
      <4>2. QED
        BY <4>1 DEF Metrics
    <3>2. QED
      BY <2>4, <3>1 DEF SetMax, CountSaturates, WarnedOnce
  <2>5. ASSUME NEW u \in Units, NEW v \in Samples, NEW loc \in Locs, Set(u, v, loc)
        PROVE  CountSaturates' /\ WarnedOnce'
    <3>1. \A w \in Units : counter'[w]["inc"] = counter[w]["inc"]
      BY <2>5 DEF Set, Metrics
    <3>2. QED
      BY <2>5, <3>1 DEF Set, CountSaturates, WarnedOnce
  <2>6. CASE UNCHANGED vars
    BY <2>6 DEF vars, CountSaturates, WarnedOnce
  <2>7. QED
    BY <2>1, <2>2, <2>3, <2>4, <2>5, <2>6 DEF Next
<1>3. CountInv => SaturatingCount
  BY DEF CountInv, SaturatingCount
<1>4. QED
  BY <1>1, <1>2, <1>3, TypeCorrect, PTL DEF Spec
-----------------------------------------------------------------------------
(* Locations. *)

\* What FirstLocationIsFirst needs to be inductive: there is no location before the
\* first increment.
LocationInv ==
  /\ TypeOK /\ CountSaturates /\ FirstLocationIsFirst
  /\ \A u \in Units : total[u] = 0 => location[u]["inc"] = InvalidLoc

LEMMA LocationStep == LocationInv /\ TypeOK' /\ CountSaturates' /\ [Next]_vars => LocationInv'
<1> SUFFICES ASSUME LocationInv, TypeOK', CountSaturates', [Next]_vars
             PROVE  /\ FirstLocationIsFirst'
                    /\ \A u \in Units : total'[u] = 0 => location'[u]["inc"] = InvalidLoc
  BY DEF LocationInv
<1> DEFINE Kept == /\ UNCHANGED <<total, firstInc>>
                   /\ \A w \in Units : location'[w]["inc"] = location[w]["inc"]
<1>1. ASSUME Kept
      PROVE  /\ FirstLocationIsFirst'
             /\ \A u \in Units : total'[u] = 0 => location'[u]["inc"] = InvalidLoc
  BY <1>1 DEF LocationInv, FirstLocationIsFirst
<1>2. location \in [Units -> [Metrics -> Locs]] /\ "inc" \in Metrics
  BY DEF LocationInv, TypeOK, Metrics
<1>3. ASSUME NEW u \in Units, NEW n \in Increments, NEW loc \in Locs, Increment(u, n, loc)
      PROVE  /\ FirstLocationIsFirst'
             /\ \A w \in Units : total'[w] = 0 => location'[w]["inc"] = InvalidLoc
  <2>1. /\ n \in Nat /\ n > 0
        /\ total[u] \in Nat /\ total \in [Units -> Nat] /\ firstInc \in [Units -> Locs]
    BY CounterAssumption DEF LocationInv, TypeOK
  <2>2. /\ total'[u] = total[u] + n
        /\ \A w \in Units \ {u} : total'[w] = total[w] /\ firstInc'[w] = firstInc[w]
        /\ firstInc'[u] = IF total[u] = 0 THEN loc ELSE firstInc[u]
    BY <1>3, <2>1 DEF Increment
  <2>3. /\ location'[u]["inc"] = IncLocation(counter[u]["inc"], n, location[u]["inc"], loc)
        /\ \A w \in Units \ {u} : location'[w]["inc"] = location[w]["inc"]
    BY <1>2, <1>3 DEF Increment
  <2>4. counter[u]["inc"] = 0 => total[u] = 0
    BY <2>1, CounterAssumption DEF LocationInv, CountSaturates, counter_t_Max
  <2>5. location'[u]["inc"] \in {InvalidLoc, firstInc'[u]}
    <3>1. CASE total[u] = 0
      BY <2>2, <2>3, <3>1 DEF IncLocation, LocationInv
    <3>2. CASE total[u] # 0
      BY <2>2, <2>3, <2>4, <3>2 DEF IncLocation, LocationInv, FirstLocationIsFirst
    <3>3. QED
      BY <3>1, <3>2
  <2>6. total'[u] # 0
    BY <2>1, <2>2
  <2>7. QED
    BY <2>2, <2>3, <2>5, <2>6 DEF LocationInv, FirstLocationIsFirst
<1>4. ASSUME NEW f \in Files, GetFileUnit(f) PROVE Kept
  BY <1>4 DEF GetFileUnit
<1>5. ASSUME NEW f \in Files, NEW g \in FnNames, GetFunctionUnit(f, g) PROVE Kept
  BY <1>5 DEF GetFunctionUnit
<1>6. ASSUME NEW u \in Units, NEW v \in Samples, NEW loc \in Locations, SetMax(u, v, loc)
      PROVE  Kept
  BY <1>2, <1>6 DEF SetMax
<1>7. ASSUME NEW u \in Units, NEW v \in Samples, NEW loc \in Locs, Set(u, v, loc) PROVE Kept
  BY <1>2, <1>7 DEF Set
<1>8. CASE UNCHANGED vars
  BY <1>1, <1>8 DEF vars
<1> HIDE DEF Kept
<1>9. QED
  BY <1>1, <1>3, <1>4, <1>5, <1>6, <1>7, <1>8 DEF Next

\* The location reported for a counted metric is that of the first increment(), for any
\* number of calls: a saturated counter is never zero again.
THEOREM FirstLocation == Spec => []FirstLocationIsFirst
<1>1. Init /\ TypeOK /\ CountSaturates => LocationInv
  <2> SUFFICES ASSUME Init, TypeOK, CountSaturates PROVE LocationInv
    OBVIOUS
  <2>1. \A u \in Units : location[u]["inc"] = InvalidLoc
    BY DEF Init, Metrics
  <2>2. QED
    BY <2>1 DEF LocationInv, FirstLocationIsFirst
<1>2. SaturatingCount => CountSaturates
  BY DEF SaturatingCount
<1>3. LocationInv => FirstLocationIsFirst
  BY DEF LocationInv
<1>4. QED
  BY <1>1, <1>2, <1>3, LocationStep, TypeCorrect, Saturation, PTL DEF Spec
-----------------------------------------------------------------------------
(* Peaks. *)

\* Nothing that was given to setMax() is above the counter.
Bounded(u) == \A j \in DOMAIN maxSeen[u] : maxSeen[u][j].value <= counter[u]["max"]

\* i is where the counter's value and location came from.
Reached(u, i) ==
  /\ maxSeen[u][i] = [value |-> counter[u]["max"], loc |-> location[u]["max"]]
  /\ \A j \in DOMAIN maxSeen[u] : j < i => maxSeen[u][j].value < counter[u]["max"]

PeakInv ==
  \A u \in Units :
    Bounded(u) /\ (counter[u]["max"] > 0 => \E i \in DOMAIN maxSeen[u] : Reached(u, i))

\* One call of setMax().
LEMMA PeakStep ==
  ASSUME TypeOK, TypeOK', PeakInv,
         NEW u \in Units, NEW v \in Samples, NEW loc \in Locations, SetMax(u, v, loc)
  PROVE  PeakInv'
<1> DEFINE c == counter[u]["max"]
           s == maxSeen[u]
           Seen == [value : Samples, loc : Locations]
<1>1. /\ c \in Nat /\ v \in Nat
      /\ s \in Seq(Seen)
  <2>1. counter[u]["max"] \in counter_t
    BY DEF TypeOK, Metrics
  <2>2. maxSeen[u] \in Seq(Seen)
    BY DEF TypeOK
  <2>3. v \in Nat
    BY CounterAssumption
  <2>4. \A x \in counter_t : x \in Nat
    BY CounterAssumption DEF counter_t
  <2>5. QED
    BY <2>1, <2>2, <2>3, <2>4
<1>2. /\ counter'[u]["max"] = IF v > c THEN v ELSE c
      /\ location'[u]["max"] = IF v > c THEN loc ELSE location[u]["max"]
      /\ maxSeen'[u] = Append(s, [value |-> v, loc |-> loc])
  BY DEF SetMax, TypeOK, Metrics, Raises
<1>3. ASSUME NEW w \in Units \ {u}
      PROVE  /\ counter'[w] = counter[w] /\ location'[w] = location[w]
             /\ maxSeen'[w] = maxSeen[w]
  BY DEF SetMax, TypeOK
<1>4. /\ Len(s) \in Nat /\ DOMAIN s = 1 .. Len(s)
      /\ \A j \in DOMAIN s : s[j].value \in Nat
  <2>1. \A j \in DOMAIN s : s[j] \in Seen
    <3> HIDE DEF Seen, s
    <3>1. QED
      BY <1>1
  <2>2. \A r \in Seen : r.value \in Nat
    <3>1. \A x \in Samples : x \in Nat
      BY CounterAssumption
    <3>2. QED
      BY <3>1
  <2>3. Len(s) \in Nat /\ DOMAIN s = 1 .. Len(s)
    <3> HIDE DEF Seen, s
    <3>1. QED
      BY <1>1
  <2>4. QED
    BY <2>1, <2>2, <2>3
<1>5. /\ DOMAIN maxSeen'[u] = 1 .. (Len(s) + 1)
      /\ \A j \in DOMAIN s : maxSeen'[u][j] = s[j]
      /\ maxSeen'[u][Len(s) + 1] = [value |-> v, loc |-> loc]
  BY <1>1, <1>2, <1>4
<1>6. \A j \in DOMAIN s : s[j].value <= c
  BY DEF PeakInv, Bounded
<1> HIDE DEF Seen, s, c
<1>7. Bounded(u)'
  <2>1. ASSUME NEW j \in 1 .. (Len(s) + 1)
        PROVE  maxSeen'[u][j].value <= counter'[u]["max"]
    <3>1. CASE j \in DOMAIN s
      BY <1>1, <1>2, <1>4, <1>5, <1>6, <3>1
    <3>2. CASE j = Len(s) + 1
      BY <1>1, <1>2, <1>5, <3>2
    <3>3. QED
      BY <1>4, <3>1, <3>2
  <2>2. QED
    BY <1>5, <2>1 DEF Bounded
<1>8. ASSUME counter'[u]["max"] > 0
      PROVE  \E i \in DOMAIN maxSeen'[u] : Reached(u, i)'
  <2>1. CASE v > c
    <3>1. \A j \in 1 .. Len(s) : maxSeen'[u][j].value < v
      BY <1>1, <1>4, <1>5, <1>6, <2>1
    <3>2. ASSUME NEW i, i = Len(s) + 1
          PROVE  Reached(u, i)'
      BY <1>2, <1>4, <1>5, <2>1, <3>1, <3>2 DEF Reached
    <3>3. Len(s) + 1 \in DOMAIN maxSeen'[u]
      BY <1>4, <1>5
    <3>4. QED
      BY <3>2, <3>3
  <2>2. CASE ~ (v > c)
    <3>1. c > 0
      BY <1>2, <1>8, <2>2
    <3>2. PICK i \in DOMAIN s : Reached(u, i)
      BY <3>1 DEF PeakInv, s, c
    <3>3. i \in 1 .. (Len(s) + 1) /\ i <= Len(s)
      BY <1>4
    <3>4. \A j \in 1 .. (Len(s) + 1) : j < i => j \in DOMAIN s
      BY <1>4, <3>3
    <3>5. Reached(u, i)'
      BY <1>2, <1>4, <1>5, <2>2, <3>2, <3>3, <3>4 DEF Reached, s, c
    <3>6. QED
      BY <1>5, <3>3, <3>5
  <2>3. QED
    BY <2>1, <2>2
<1>9. QED
  BY <1>3, <1>7, <1>8 DEF PeakInv, Bounded, Reached

\* A unit's peak is the largest value it was given and its location that of the first
\* such call, for any number of calls of setMax().
THEOREM PeakIsFirst == Spec => []PeakIsFirstMaximum
<1>1. Init => PeakInv
  BY DEF Init, PeakInv, Bounded, Reached, Metrics
<1>2. TypeOK /\ TypeOK' /\ PeakInv /\ [Next]_vars => PeakInv'
  <2> SUFFICES ASSUME TypeOK, TypeOK', PeakInv, [Next]_vars PROVE PeakInv'
    OBVIOUS
  <2> DEFINE Kept == /\ maxSeen' = maxSeen
                     /\ \A w \in Units : /\ counter'[w]["max"] = counter[w]["max"]
                                         /\ location'[w]["max"] = location[w]["max"]
  <2>1. Kept => PeakInv'
    BY DEF PeakInv, Bounded, Reached
  <2>2. /\ counter \in [Units -> [Metrics -> counter_t]] /\ "max" \in Metrics
        /\ location \in [Units -> [Metrics -> Locs]]
    BY DEF TypeOK, Metrics
  <2>3. ASSUME NEW f \in Files, GetFileUnit(f) PROVE Kept
    BY <2>2, <2>3 DEF GetFileUnit, CountFile
  <2>4. ASSUME NEW f \in Files, NEW g \in FnNames, GetFunctionUnit(f, g) PROVE Kept
    BY <2>4 DEF GetFunctionUnit
  <2>5. ASSUME NEW u \in Units, NEW n \in Increments, NEW loc \in Locs, Increment(u, n, loc)
        PROVE  Kept
    BY <2>2, <2>5 DEF Increment
  <2>6. ASSUME NEW u \in Units, NEW v \in Samples, NEW loc \in Locs, Set(u, v, loc) PROVE Kept
    BY <2>2, <2>6 DEF Set
  <2>7. CASE UNCHANGED vars
    BY <2>7 DEF vars, PeakInv, Bounded, Reached
  <2> HIDE DEF Kept
  <2>8. QED
    BY <2>1, <2>3, <2>4, <2>5, <2>6, <2>7, PeakStep DEF Next
<1>3. TypeOK /\ PeakInv => PeakIsFirstMaximum
  <2> SUFFICES ASSUME TypeOK, PeakInv, NEW u \in Units, counter[u]["max"] > 0
               PROVE  \E i \in DOMAIN maxSeen[u] :
                        /\ maxSeen[u][i] = [value |-> counter[u]["max"], loc |-> location[u]["max"]]
                        /\ \A j \in DOMAIN maxSeen[u] :
                             maxSeen[u][j].value <= counter[u]["max"] - (IF j < i THEN 1 ELSE 0)
    BY DEF PeakIsFirstMaximum
  <2>1. PICK i \in DOMAIN maxSeen[u] : Reached(u, i)
    BY DEF PeakInv
  <2>2. /\ counter[u]["max"] \in Nat
        /\ \A j \in DOMAIN maxSeen[u] : maxSeen[u][j].value \in Nat
    <3> DEFINE Seen == [value : Samples, loc : Locations]
    <3>1. counter[u]["max"] \in counter_t
      BY DEF TypeOK, Metrics
    <3>2. \A x \in counter_t : x \in Nat
      BY CounterAssumption DEF counter_t
    <3>3. \A r \in Seen : r.value \in Nat
      <4>1. \A x \in Samples : x \in Nat
        BY CounterAssumption
      <4>2. QED
        BY <4>1
    <3>4. maxSeen[u] \in Seq(Seen)
      BY DEF TypeOK
    <3> HIDE DEF Seen
    <3>5. \A j \in DOMAIN maxSeen[u] : maxSeen[u][j] \in Seen
      BY <3>4
    <3>6. QED
      BY <3>1, <3>2, <3>3, <3>5
  <2>3. \A j \in DOMAIN maxSeen[u] :
          maxSeen[u][j].value <= counter[u]["max"] - (IF j < i THEN 1 ELSE 0)
    BY <2>1, <2>2 DEF PeakInv, Bounded, Reached
  <2>4. QED
    BY <2>1, <2>3 DEF Reached
<1>4. QED
  BY <1>1, <1>2, <1>3, TypeCorrect, PTL DEF Spec

-----------------------------------------------------------------------------
(* Cumulative counts.                                                      *)
(* That a function unit stands below a file unit, and all units below the  *)
(* global one, is inductive by itself; a total that fits bounds each of    *)
(* its parts, so no counter below is saturated and no sum wraps.           *)

TreeInv ==
  /\ subUnits \subseteq Units /\ IsFiniteSet(subUnits) /\ Top \in subUnits
  /\ \A u \in subUnits : u.fn # NoFn => [file |-> u.file, fn |-> NoFn] \in subUnits

LEMMA TreeInvariant == Spec => []TreeInv
<1>1. Init => TreeInv
  <2> SUFFICES ASSUME Init PROVE TreeInv
    OBVIOUS
  <2>1. subUnits = {Top} /\ Top.fn = NoFn /\ Top \in Units
    BY DEF Init, Top, Units
  <2>2. IsFiniteSet({Top})
    BY FS_Singleton
  <2>3. QED
    BY <2>1, <2>2 DEF TreeInv
<1>2. TreeInv /\ [Next]_vars => TreeInv'
  <2> SUFFICES ASSUME TreeInv, [Next]_vars PROVE TreeInv'
    OBVIOUS
  <2>1. ASSUME NEW u \in Units, u.fn # NoFn => [file |-> u.file, fn |-> NoFn] \in subUnits,
               subUnits' = subUnits \cup {u}
        PROVE  TreeInv'
    <3>1. IsFiniteSet(subUnits')
      BY <2>1, FS_AddElement DEF TreeInv
    <3>2. QED
      BY <2>1, <3>1 DEF TreeInv
  <2>2. ASSUME NEW f \in Files, GetFileUnit(f) PROVE TreeInv'
    <3> DEFINE u == [file |-> f, fn |-> NoFn]
    <3>1. u \in Units /\ u.fn = NoFn /\ subUnits' = subUnits \cup {u}
      BY <2>2 DEF GetFileUnit, Units, FileUnits
    <3> HIDE DEF u
    <3>2. QED
      BY <2>1, <3>1
  <2>3. ASSUME NEW f \in Files, NEW g \in FnNames, GetFunctionUnit(f, g) PROVE TreeInv'
    <3> DEFINE u == [file |-> f, fn |-> g]
    <3>1. u \in Units /\ subUnits' = subUnits \cup {u}
      BY <2>3 DEF GetFunctionUnit, Units, FunctionUnits
    <3>2. [file |-> u.file, fn |-> NoFn] \in subUnits
      BY <2>3 DEF GetFunctionUnit
    <3> HIDE DEF u
    <3>3. QED
      BY <2>1, <3>1, <3>2
  <2>4. CASE UNCHANGED subUnits
    BY <2>4 DEF TreeInv
  <2>5. QED
    BY <2>2, <2>3, <2>4 DEF Next, Increment, SetMax, Set, vars
<1>3. QED
  BY <1>1, <1>2, PTL DEF Spec

LEMMA SubtreeWithin ==
  ASSUME TreeInv, NEW u \in subUnits
  PROVE  Subtree(u) \subseteq subUnits /\ IsFiniteSet(Subtree(u))
<1>1. \A v : Children(v) \subseteq subUnits
  BY DEF Children
<1>2. Subtree(u) \subseteq subUnits
  BY <1>1 DEF Subtree
<1>3. QED
  BY <1>2, FS_Subset DEF TreeInv

LEMMA TopHasAll ==
  ASSUME TreeInv
  PROVE  Subtree(Top) = subUnits
<1>1. Subtree(Top) \subseteq subUnits
  BY SubtreeWithin DEF TreeInv
<1>2. ASSUME NEW v \in subUnits, v # Top, v.fn = NoFn PROVE v \in Children(Top)
  <2>1. v \in FileUnits
    BY <1>2, KeyAssumption DEF TreeInv, Units, FunctionUnits
  <2>2. QED
    BY <2>1 DEF Children
<1>3. ASSUME NEW v \in subUnits, v.fn # NoFn
      PROVE  \E w \in Children(Top) : v \in Children(w)
  <2>1. v \in FunctionUnits
    BY <1>3 DEF TreeInv, Units, FileUnits, Top
  <2> DEFINE w == [file |-> v.file, fn |-> NoFn]
  <2>2. w \in subUnits /\ v.file \in Files
    BY <1>3, <2>1 DEF TreeInv, FunctionUnits
  <2>3. w # Top /\ w.fn = NoFn /\ w.file = v.file
    BY <2>2, KeyAssumption DEF Top
  <2> HIDE DEF w
  <2>4. w \in Children(Top) /\ v \in Children(w)
    BY <1>2, <2>1, <2>2, <2>3 DEF Children
  <2>5. QED
    BY <2>4
<1>4. subUnits \subseteq Subtree(Top)
  BY <1>2, <1>3 DEF Subtree
<1>5. QED
  BY <1>1, <1>4

LEMMA FittingTotals ==
  ASSUME TreeInv, TypeOK, CountSaturates
  PROVE  CumulativeExact
<1> SUFFICES ASSUME TrueTotal(Top) < counter_t_Max, NEW u \in subUnits
             PROVE  getCounter(u, "inc") = TrueTotal(u)
  BY DEF CumulativeExact
<1> DEFINE T == Subtree(u)
           w == [v \in Units |-> counter[v]["inc"]]
           max == counter_t_Max
<1>1. max \in Nat /\ Modulus \in Nat /\ max < Modulus
  BY CounterAssumption DEF counter_t_Max
<1>2. T \in SUBSET subUnits /\ IsFiniteSet(T) /\ IsFiniteSet(subUnits) /\ subUnits \subseteq Units
  BY SubtreeWithin DEF TreeInv
<1>3. \A v \in subUnits : total[v] \in Nat
  BY <1>2 DEF TypeOK
<1>4. SumFunctionOnSet(total, subUnits) < max
  BY TopHasAll DEF TrueTotal
<1>5. SumFunctionOnSet(total, subUnits) \in Nat
  BY <1>2, <1>3, SumTake
<1>6. \A v \in subUnits : w[v] = total[v]
  <2> SUFFICES ASSUME NEW v \in subUnits PROVE w[v] = total[v]
    OBVIOUS
  <2>1. total[v] <= SumFunctionOnSet(total, subUnits) /\ total[v] \in Nat
    BY <1>2, <1>3, SumMember
  <2>2. ~ (total[v] > max)
    BY <1>1, <1>4, <1>5, <2>1
  <2>3. v \in Units
    BY <1>2
  <2>4. counter[v]["inc"] = total[v]
    BY <2>2, <2>3 DEF CountSaturates
  <2>5. QED
    BY <2>3, <2>4
<1> HIDE DEF w, T, max
<1>7. SumFunctionOnSet(w, T) <= SumFunctionOnSet(total, T)
  BY <1>2, <1>3, <1>6, SumSmaller
<1>8. SumFunctionOnSet(total, T) <= SumFunctionOnSet(w, T)
  BY <1>2, <1>3, <1>6, SumSmaller
<1>9. SumFunctionOnSet(total, T) <= SumFunctionOnSet(total, subUnits)
  BY <1>2, <1>3, SumSmaller
<1>10. SumFunctionOnSet(total, T) \in Nat /\ SumFunctionOnSet(w, T) \in Nat
  BY <1>2, <1>3, <1>6, SumTake
<1>11. SumFunctionOnSet(w, T) % Modulus = SumFunctionOnSet(total, T)
  BY <1>1, <1>4, <1>5, <1>7, <1>8, <1>9, <1>10
<1>12. QED
  BY <1>11 DEF getCounter, TrueTotal, w, T

\* For every tree, every counter width and every sequence of calls: while the count of the
\* whole tree fits a counter, what getCounter() sums up for a unit is what was counted in it.
THEOREM CumulativeTotals == Spec => []CumulativeExact
<1>1. TreeInv /\ TypeOK /\ SaturatingCount => CumulativeExact
  BY FittingTotals DEF SaturatingCount
<1>2. QED
  BY <1>1, TreeInvariant, TypeCorrect, Saturation, PTL
=============================================================================
