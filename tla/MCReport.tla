------------------------------ MODULE MCReport ------------------------------
(***************************************************************************)
(* Two files with a function each, and a method in the first.  Rules and   *)
(* limits files are explored for the whole report only, the other options  *)
(* with one rule.                                                          *)
(***************************************************************************)
EXTENDS Report, TLC

CONSTANTS f1, f2, g1, g2

FnUnit(f, g) == [file |-> f, fn |-> g]
TheUnits == {Top} \cup Range(UnitOrder)
TheOrder == <<FileUnit(f1), FnUnit(f1, g1), FnUnit(f1, g2), FileUnit(f2), FnUnit(f2, g1)>>
TheMethods == {FnUnit(f1, g2)}

TheMetrics == <<"FILES", "STATEMENTS", "HIS_COMMENT_DENSITY", "CYCLOMATIC", "VOCF">>
TheApplies ==
  "global" :> {"FILES", "STATEMENTS", "HIS_COMMENT_DENSITY"}
    @@ "file" :> {"STATEMENTS", "HIS_COMMENT_DENSITY"}
    @@ "function" :> {"STATEMENTS", "CYCLOMATIC", "VOCF"}
    @@ "method" :> {"STATEMENTS", "CYCLOMATIC", "VOCF"}
TheScaling == "VOCF" :> 1000 @@ "HIS_COMMENT_DENSITY" :> 1000 @@ "HALSTEAD_DIFFICULTY" :> 10

(* Code. *)

Token(counts, spelling) == [counts |-> counts, spelling |-> spelling]
If == Token({"IF", "TOKEN_IF", "STATEMENTS"}, "if")
One == Token({"NUMERIC_CONSTANTS", "STATEMENTS"}, "1")
Two == Token({"NUMERIC_CONSTANTS"}, "2")
Comment == Token({"COMMENT_COUNT"}, "")
File == Token({"FILES"}, "")

\* The tokens of the first file, of its function, of its method and of the other file's.
Code(file, function, method, other) ==
  [u \in TheUnits |->
     CASE u = Top -> <<File, File>>
       [] u = FileUnit(f1) -> file
       [] u = FnUnit(f1, g1) -> function
       [] u = FnUnit(f1, g2) -> method
       [] u = FnUnit(f2, g1) -> other
       [] OTHER -> <<>>]

ThePrograms ==
  {Code(a, b, <<One>>, c) : a \in {<<>>, <<Comment, One>>},
                            b \in BoundedSeq({If, One, Two}, 2), c \in {<<>>, <<One, If>>}}
TheCounters == 0 .. Modulus - 1

\* What HalsteadTheorem takes for granted.
ASSUME HalsteadFits

(* Options. *)

AllTypes == {"global", "file", "function", "method"}
Whole == [format |-> "table", metrics |-> Metrics, types |-> AllTypes]
TheSelections ==
  [format : {"none", "tree", "sparse", "table"},
   metrics : {Metrics, {"FILES", "STATEMENTS"}, {"CYCLOMATIC", "HIS_COMMENT_DENSITY"}},
   types : {AllTypes, {"global", "function", "method"}, {"file", "function"}}]

(* Limits. *)

Rule(m, global, file, fs, gs, op, n) ==
  [metric |-> m, global |-> global, file |-> file, fileName |-> fs, funcName |-> gs,
   operand |-> op, limit |-> n]

\* Rules for everything, for one file, for functions by name, and for the global unit.
TheRules ==
  {Rule("STATEMENTS", TRUE, TRUE, Files, FnNames, "<=", 2),
   Rule("STATEMENTS", TRUE, TRUE, {f1}, {}, ">=", 3),
   Rule("STATEMENTS", FALSE, TRUE, {f1}, {}, "<", 3),
   Rule("STATEMENTS", FALSE, FALSE, {f1}, {g1}, ">", 2),
   Rule("STATEMENTS", TRUE, FALSE, {}, {}, "<", 2),
   Rule("FILES", TRUE, FALSE, {}, {}, "<", 2),
   Rule("VOCF", FALSE, FALSE, Files, {g1}, "<=", 1500),
   Rule("HIS_COMMENT_DENSITY", TRUE, TRUE, {f2}, {}, ">", 900)}

Explored ==
  \/ Len(read) <= 1 /\ opened <= 1
  \/ options = Whole /\ Len(code[FnUnit(f1, g1)]) = 2
=============================================================================
