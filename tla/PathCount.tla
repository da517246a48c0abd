----------------------------- MODULE PathCount -----------------------------
(***************************************************************************)
(* FUNC_PATHS, "Number of non-cyclic execution paths in the function", and *)
(* RETURN_POINT_CNT, which is counted on the way (getPathCount() and its   *)
(* helpers in src/src/MetricMatcher.cpp).                                  *)
(*                                                                         *)
(* The code never follows a path: it walks the statements once and         *)
(* combines three numbers, the paths that leave a statement at its end, by *)
(* return, and by break or continue.  Paths() is the definition these      *)
(* numbers are to agree with: it follows every path, through a loop at     *)
(* most once.                                                              *)
(*                                                                         *)
(* A goto is taken as going on, as in the code.                            *)
(***************************************************************************)
EXTENDS FunctionBody

CONSTANT Modulus  \* 2^32: the numbers are unsigned 32-bit integers

ASSUME ModulusAssumption == Modulus \in Nat \ {0}

VARIABLES
  analysis,  \* --enable-condition-analysis
  paths,     \* METRIC_TYPE_FUNCTION_PATHS; -1 before it is set
  returns    \* METRIC_TYPE_RETURNPOINTS

vars == <<body, cond, initialised, analysis, paths, returns>>
-----------------------------------------------------------------------------
(* The numbers. *)

PathResults(regular, return, break) ==
  [regular |-> regular % Modulus, return |-> return % Modulus, break |-> break % Modulus]

None == PathResults(0, 0, 0)
One == PathResults(1, 0, 0)

incrementPathResults(a, b) ==
  PathResults(a.regular + b.regular, a.return + b.return, a.break + b.break)

Scaled(a, n) == PathResults(a.regular * n, a.return * n, a.break * n)

\* A statement with the numbers b after one with the numbers a.
Then(a, b) ==
  PathResults(a.regular * b.regular, a.return + a.regular * b.return, a.break + a.regular * b.break)

\* Fault: only the paths that fall through.
FallThroughOnly(prev, curr) == Scaled(curr, prev.regular)

\* getSwitchPathCountHandleCaseEnd(): a case is entered by its label, or by what
\* falls through to it.
CaseEnd(prev, curr) == Scaled(curr, prev.regular + 1)

\* Fault: the paths that leave a loop by break are not regular afterwards.
BreakIgnored(sub) == sub

\* A loop ends its breaks (which stay in the number of breaks as well).
LoopLeft(sub) == PathResults(sub.regular + sub.break, sub.return, sub.break)

\* isExprConstantAndTrue() and isExprConstantAndFalse()
KnownTrue(p) == analysis /\ cond[p] = "true"
KnownFalse(p) == analysis /\ cond[p] = "false"
-----------------------------------------------------------------------------
(* The statements below a statement. *)

\* Is there nothing but labels of cases from the place p down to q?
OnlyLabels(p, q) ==
  IsPrefix(p, q) /\ \A n \in Len(p) .. (Len(q) - 1) : body[SubSeq(q, 1, n)] \in Labels

\* The statement below a group of labels.
Labelled(p) == CHOOSE q \in DOMAIN body : OnlyLabels(p, q) /\ body[q] \notin Labels

HasDefault(p) == \E q \in DOMAIN body : OnlyLabels(p, q) /\ body[q] = "default"

\* The place that has the statements of the switch at p for its parts.
Within(p) == IF body[Append(p, 1)] = "block" THEN Append(p, 1) ELSE p

\* The statements whose numbers of paths make up that of the statement at p.
Substatements(p) ==
  IF body[p] = "switch"
  THEN [i \in 1 .. Width(Within(p)) |-> Labelled(Append(Within(p), i))]
  ELSE [i \in 1 .. Width(p) |-> Append(p, i)]

\* Does the n-th statement of the switch at p begin with a label?
Starts(p, n) == body[Append(Within(p), n)] \in Labels

\* Does the switch at p always come to one of its statements?
Exhaustive(p) ==
  cond[p] = "all cases" \/ \E n \in 1 .. Width(Within(p)) : HasDefault(Append(Within(p), n))
-----------------------------------------------------------------------------
(* The count: sub are the numbers of the substatements. *)

getIfPathCount(p, sub) ==
  incrementPathResults(
    IF KnownFalse(p) THEN None ELSE sub[1],
    IF KnownTrue(p) THEN None ELSE IF Len(sub) = 1 THEN One ELSE sub[2])

\* Without a default the switch may execute nothing.
ImplicitDefault(sum, hasDefault) ==
  IF hasDefault THEN sum ELSE incrementPathResults(sum, PathResults(0, 0, 1))

\* One step of the loop over the body of a switch: sum of the cases that are
\* complete, the case before the current one if it falls through, the current one.
SwitchStep(acc, starts, sub) ==
  LET prev == IF starts /\ ~ acc.complete THEN CaseEnd(acc.prev, acc.curr) ELSE acc.prev
      curr == Then(IF starts THEN One ELSE acc.curr, sub)
      ends == sub.regular = 0
  IN  [sum |-> IF ends THEN incrementPathResults(acc.sum, CaseEnd(prev, curr)) ELSE acc.sum,
       prev |-> IF ends THEN None ELSE prev,
       curr |-> curr,
       complete |-> ends \/ (acc.complete /\ ~ starts)]

\* What getSwitchPathCount() has after each of the statements.
SwitchUpTo(p, sub) ==
  LET upTo[n \in 0 .. Len(sub)] ==
        IF n = 0 THEN [sum |-> None, prev |-> None, curr |-> None, complete |-> TRUE]
        ELSE SwitchStep(upTo[n - 1], Starts(p, n), sub[n])
  IN  upTo

getSwitchPathCount(p, sub) ==
  LET end == SwitchUpTo(p, sub)[Len(sub)]
      sum == IF end.complete THEN end.sum
             ELSE incrementPathResults(end.sum, CaseEnd(end.prev, end.curr))
      all == ImplicitDefault(sum, Exhaustive(p))
  IN  PathResults(all.regular + all.break, all.return, 0)

\* One step of getOtherPathCount() over the statements of a block.
OtherStep(acc, kind, sub) ==
  LET res == acc.res
  IN  IF acc.skip THEN [acc EXCEPT !.skip = kind # "label"]
      ELSE CASE kind \in {"break", "continue"} ->
                  [res |-> PathResults(0, res.return, res.break + res.regular), skip |-> TRUE]
             [] kind = "return" ->
                  [res |-> PathResults(0, res.regular, res.break), skip |-> TRUE]
             [] kind \in Loops \cup {"switch"} ->
                  [res |-> Then(res, sub), skip |-> sub.regular = 0 /\ sub.break = 0]
             [] kind \in {"if", "block"} ->
                  [res |-> Then(res, sub), skip |-> sub.regular = 0]
             [] OTHER -> [acc EXCEPT !.skip = kind = "goto"]

\* What getOtherPathCount() has after each of the statements.
OtherUpTo(p, sub) ==
  LET upTo[n \in 0 .. Len(sub)] ==
        IF n = 0 THEN [res |-> One, skip |-> FALSE]
        ELSE OtherStep(upTo[n - 1], body[Append(p, n)], sub[n])
  IN  upTo

getOtherPathCount(p, sub) == OtherUpTo(p, sub)[Len(sub)].res

\* The path on which a while loop is not entered.
NotEntered(p, sub) == IF KnownTrue(p) THEN sub ELSE incrementPathResults(sub, One)

\* What getPathCount() makes of the numbers of the substatements.
Combined(p, sub) ==
  CASE body[p] = "if" -> getIfPathCount(p, sub)
    [] body[p] = "switch" -> getSwitchPathCount(p, sub)
    [] body[p] = "while" ->
         IF KnownFalse(p) THEN One ELSE NotEntered(p, LoopLeft(sub[1]))
    [] body[p] = "for" -> incrementPathResults(LoopLeft(sub[1]), One)
    [] body[p] = "do" -> sub[1]
    [] body[p] = "return" -> PathResults(0, 1, 0)
    [] body[p] \in {"break", "continue"} -> PathResults(0, 0, 1)
    [] OTHER -> getOtherPathCount(p, sub)

getPathCount[p \in DOMAIN body] ==
  LET s == Substatements(p) IN Combined(p, [i \in DOMAIN s |-> getPathCount[s[i]]])

\* What VisitFunctionDecl() records.
FunctionPaths == (getPathCount[<<>>].regular + getPathCount[<<>>].return) % Modulus
-----------------------------------------------------------------------------
(* The return points. *)

\* The block of a switch, and the labels of its cases: getSwitchPathCount() goes
\* through them itself.
SwitchBody(p) == p # <<>> /\ body[p] = "block" /\ body[Front(p)] = "switch"
CaseOfSwitch(p) ==
  body[p] \in Labels
    /\ \E s \in DOMAIN body : \E n \in 1 .. Width(Within(s)) :
         body[s] = "switch" /\ OnlyLabels(Append(Within(s), n), p)

\* Does getOtherPathCount() skip the part of p at the place q?
Skipped(p, q) ==
  OtherUpTo(p, [i \in 1 .. Width(p) |-> getPathCount[Append(p, i)]])[Last(q) - 1].skip

\* The parts of p that the count looks into.  In a block these are the ones it does
\* not skip; a label ends the skipping but is not looked into itself.
LookedInto(p) ==
  CASE body[p] = "switch" \/ SwitchBody(p) \/ CaseOfSwitch(p) -> Parts(p)
    [] body[p] = "if" ->
         {q \in Parts(p) : IF Last(q) = 1 THEN ~ KnownFalse(p) ELSE ~ KnownTrue(p)}
    [] body[p] = "while" -> IF KnownFalse(p) THEN {} ELSE Parts(p)
    [] body[p] \in {"for", "do"} -> Parts(p)
    [] OTHER ->
         {q \in Parts(p) :
            body[q] \in {"return", "if", "switch", "block"} \cup Loops /\ ~ Skipped(p, q)}

Reached(q) == \A n \in 0 .. (Len(q) - 1) : SubSeq(q, 1, n + 1) \in LookedInto(SubSeq(q, 1, n))

\* What getPathCount() adds to METRIC_TYPE_RETURNPOINTS.
ReturnsIn == Cardinality({q \in DOMAIN body : body[q] = "return" /\ Reached(q)})

\* Fault: the end of the body is always taken for a return point.
AlwaysImplicit == 1

\* The return point at the end of the body, if not all paths end in a return.
ImplicitReturn == IF getPathCount[<<>>].regular # 0 THEN 1 ELSE 0
-----------------------------------------------------------------------------
(* The paths themselves, as the places they come to and how they end. *)

Path(places, end) == [places |-> places, end |-> end]
Straight == {Path({}, "regular")}
Via(p, ps) == {Path({p} \cup x.places, x.end) : x \in ps}
Ends(ps, from, to) == {IF x.end \in from THEN Path(x.places, to) ELSE x : x \in ps}

\* The paths through ps and, where those are regular, on through qs.
Onwards(ps, qs) ==
  {x \in ps : x.end # "regular"}
    \cup {Path(x.places \cup y.places, y.end) : x \in {z \in ps : z.end = "regular"}, y \in qs}

\* The paths up to the end of each substatement, given those through each of them: a
\* block begins with the first, a switch with any that has a label.
PathsUpTo(p, sub) ==
  LET upTo[n \in 0 .. Len(sub)] ==
        IF n = 0 THEN IF body[p] = "switch" THEN {} ELSE Straight
        ELSE Onwards(upTo[n - 1] \cup (IF body[p] = "switch" /\ Starts(p, n) THEN Straight ELSE {}),
                     sub[n])
  IN  upTo

\* A loop is left by its condition, after one iteration or before the first.
Iterated(ps) == Ends(ps, {"break", "continue"}, "regular")

PathsOver(p, sub) ==
  CASE body[p] \in {"return", "break", "continue"} -> {Path({}, body[p])}
    [] body[p] = "block" -> PathsUpTo(p, sub)[Len(sub)]
    [] body[p] = "if" ->
         (IF KnownFalse(p) THEN {} ELSE sub[1])
         \cup (IF KnownTrue(p) THEN {} ELSE IF Len(sub) = 1 THEN Straight ELSE sub[2])
    [] body[p] = "do" -> Iterated(sub[1])
    [] body[p] \in {"while", "for"} ->
         (IF body[p] = "while" /\ KnownFalse(p) THEN {} ELSE Iterated(sub[1]))
         \cup (IF body[p] = "while" /\ KnownTrue(p) THEN {} ELSE Straight)
    [] body[p] = "switch" ->
         Ends(PathsUpTo(p, sub)[Len(sub)] \cup (IF Exhaustive(p) THEN {} ELSE Straight),
              {"break"}, "regular")
    [] OTHER -> Straight

Paths[p \in DOMAIN body] ==
  LET s == Substatements(p) IN Via(p, PathsOver(p, [i \in DOMAIN s |-> Paths[s[i]]]))
-----------------------------------------------------------------------------
(* Functions the count is right for. *)

Below(p) == {q \in DOMAIN body : IsStrictPrefix(p, q)}

\* Does a path leave the statement at p in one of these ways?
MayEnd(p, ends) == \E x \in Paths[p] : x.end \in ends
LeftByBreak(p) == body[p] \in Loops /\ MayEnd(Append(p, 1), {"break", "continue"})

\* In a block, no return comes after a statement that may return.
ReturnsOnce(p) ==
  \A i, j \in 1 .. Width(p) :
    i < j /\ body[Append(p, j)] = "return" => ~ MayEnd(Append(p, i), {"return"})

\* In a switch, every statement belongs to a case, only the last of a case leaves it, on
\* all paths or on none, and no path continues a loop outside.
PlainCases(p) ==
  LET sub == Substatements(p)
      ends(n) == {x.end : x \in Paths[sub[n]]}
  IN  \A n \in DOMAIN sub :
        /\ n = 1 => Starts(p, n)
        /\ "continue" \notin ends(n)
        /\ \/ ends(n) \subseteq {"regular"}
           \/ "regular" \notin ends(n) /\ (n + 1 \in DOMAIN sub => Starts(p, n + 1))

\* Has the statement at p a part that no path comes to?
Dead(p) ==
  \/ body[p] \in {"if", "while"} /\ (KnownTrue(p) \/ KnownFalse(p))
  \/ /\ body[p] = "block" /\ ~ SwitchBody(p)
     /\ \E n \in 1 .. (Width(p) - 1) :
          \A x \in PathsUpTo(p, [i \in 1 .. Width(p) |-> Paths[Append(p, i)]])[n] :
            x.end # "regular"

\* Breaks, loops and switches of a kind the count gets right.
PlainExits ==
  \A p \in DOMAIN body :
    /\ body[p] \notin {"goto", "label"}
    /\ body[p] \in Labels =>
         SwitchBody(Front(p)) \/ body[Front(p)] \in Labels \cup {"switch"}
    /\ body[p] = "do" => ~ LeftByBreak(p)
    /\ body[p] \in Loops \cup {"switch"} => \A q \in Below(p) : ~ LeftByBreak(q)
    /\ body[p] = "switch" => PlainCases(p)

Plain ==
  PlainExits
    /\ \A p \in DOMAIN body : body[p] = "block" /\ ~ SwitchBody(p) => ReturnsOnce(p)

\* No statement has so many paths that their number wraps.
PathsFit == \A p \in DOMAIN body : Cardinality(Paths[p]) < Modulus
-----------------------------------------------------------------------------
Init ==
  /\ GivenFunction /\ analysis \in BOOLEAN
  /\ paths = -1 /\ returns = 0

\* The part of VisitFunctionDecl() that counts the paths.
VisitFunctionDecl ==
  /\ paths = -1
  /\ paths' = FunctionPaths
  /\ returns' = ReturnsIn + ImplicitReturn
  /\ UNCHANGED <<body, cond, initialised, analysis>>

Next == VisitFunctionDecl

Spec == Init /\ [][Next]_vars
-----------------------------------------------------------------------------
(* Properties. *)

FinishedPaths == {x \in Paths[<<>>] : x.end \in {"regular", "return"}}

\* In a plain function, the three numbers come to the number of paths, with and
\* without condition analysis.
PlainCountExact == paths # -1 /\ Plain => paths = Cardinality(FinishedPaths) % Modulus

\* Whatever else the count does, it finds a path through every function, as long as its
\* numbers do not wrap: a zero would pass every upper limit.  (Excepted are functions in
\* which a statement follows a label, and those with a do that is left by break or
\* continue, or has a loop in it that is.)
EveryFunctionHasAPath ==
  /\ paths # -1
  /\ \A p \in DOMAIN body :
       /\ body[p] = "label" => Append(Front(p), Last(p) + 1) \notin DOMAIN body
       /\ body[p] = "do" => \A q \in {p} \cup Below(p) : ~ LeftByBreak(q)
  => paths >= 1

\* In a function with plain exits, no dead statement and numbers that do not wrap,
\* RETURN_POINT_CNT is the number of return statements, and one more if a path reaches
\* the end: none is counted in both of the places that count them (MetricMatcher.cpp:418,
\* 521), and none is missed.
ReturnPointsExact ==
  /\ paths # -1
  /\ PlainExits /\ PathsFit /\ \A p \in DOMAIN body : ~ Dead(p)
  => returns = Cardinality({p \in DOMAIN body : body[p] = "return"})
                 + (IF MayEnd(<<>>, {"regular"}) THEN 1 ELSE 0)

\* "Number of non-cyclic execution paths in the function"
\* (docs/metrics_details.md:318), of any function.
CountExact == paths # -1 => paths = Cardinality(FinishedPaths) % Modulus
=============================================================================
