---------------------------- MODULE MCMetricUnit ----------------------------
(***************************************************************************)
(* MetricUnit with 3-bit counters, so that saturation, the exact maximum   *)
(* and the wrap of a cumulative sum are all a few calls away.              *)
(***************************************************************************)
EXTENDS MetricUnit, TLC

CONSTANTS f1, g1, g2, l1, l2

OneFile == {f1}
TwoFunctions == {g1, g2}
TwoLocations == {l1, l2}

\* Counting on a tree, or raising and setting the metrics of one unit: the two do
\* not meet in any operation.
OneKind ==
  \/ subUnits = {Top} /\ \A u \in Units : total[u] = 0
  \/ \A u \in Units : maxSeen[u] = <<>> /\ location[u]["set"] = InvalidLoc /\ counter[u]["set"] = 0

Sym == Permutations(TwoLocations) \cup Permutations(TwoFunctions)
=============================================================================
