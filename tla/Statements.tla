----------------------------- MODULE Statements -----------------------------
(***************************************************************************)
(* What the visitor counts while it goes through the body of a function,   *)
(* after VisitFunctionDecl(): STMT_CNT (src/src/MetricMatcher.cpp) and     *)
(* FUNC_NESTING (src/src/MetricUtils.cpp).                                 *)
(*                                                                         *)
(* clang visits every statement of the body, a statement before its parts. *)
(* A keyword statement is counted when it is visited, any other by the     *)
(* statement around it, and a variable with an initialiser when it is      *)
(* declared; how deep a control statement is nested is found by going up   *)
(* from it.                                                                *)
(*                                                                         *)
(* The counts stay below counter_t_Max; MetricUnit has what happens there. *)
(***************************************************************************)
EXTENDS FunctionBody

VARIABLES
  visited,     \* places clang has visited
  statements,  \* METRIC_TYPE_STATEMENTS
  nesting      \* METRIC_TYPE_NESTING_LEVEL

svars == <<body, cond, initialised, visited, statements, nesting>>

ControlStatements == {"if", "switch", "do", "while", "for"}
KeywordStatements ==
  ControlStatements \cup {"case", "default", "goto", "continue", "break", "return"}
NoStatements == {"declaration", "block", "label"}
-----------------------------------------------------------------------------
(* Statements. *)

\* VisitStmt()
VisitStmt(p) == IF body[p] \in KeywordStatements THEN 1 ELSE 0

\* VisitVarDecl() of the variables declared at p: "If the decl has an initialiser then
\* it's a statement".
VisitVarDecl(p) == Cardinality({v \in initialised : v[1] = p})

\* CountStatements() of each of the places of S.
CountStatements(S) == Cardinality({q \in S : body[q] \notin KeywordStatements \cup NoStatements})

\* Fault: the else part is forgotten.
ThenOnly(p) ==
  IF body[p] = "label" THEN {} ELSE {q \in Parts(p) : body[p] = "if" => Last(q) = 1}

\* The parts that the Visit function of a statement gives to CountStatements():
\* VisitLabelStmt() gives none.
CountedParts(p) == IF body[p] = "label" THEN {} ELSE Parts(p)
-----------------------------------------------------------------------------
(* Nesting. *)

\* Fault: every if counts.
NeverElseIf(p) == FALSE

\* isStmtAnIfFromElseIf(), asked of the statement at p and the one around it.
isStmtAnIfFromElseIf(p) ==
  body[Front(p)] = "if" /\ Last(p) = 2 /\ body[p] = "if"

\* getControlDepth(): the second argument is true if the statement that asks the one
\* around it is an else if.
getControlDepth[p \in DOMAIN body] ==
  [childIsElseIf \in BOOLEAN |->
     (IF p = <<>> THEN 0 ELSE getControlDepth[Front(p)][isStmtAnIfFromElseIf(p)])
     + (IF body[p] \in ControlStatements /\ ~ (body[p] = "if" /\ childIsElseIf) THEN 1 ELSE 0)]
-----------------------------------------------------------------------------
\* Does clang visit the place p before q?
Before(p, q) ==
  \/ IsStrictPrefix(p, q)
  \/ \E n \in DOMAIN p \cap DOMAIN q :
       SubSeq(p, 1, n - 1) = SubSeq(q, 1, n - 1) /\ p[n] < q[n]

Unvisited == visited = {} /\ statements = 0 /\ nesting = 0

SInit == GivenFunction /\ Unvisited

\* VisitStmt() and the Visit function of its class for the next statement, and what it
\* declares; setMax() keeps the deepest.
Visit(p) ==
  /\ p \notin visited /\ \A q \in DOMAIN body : Before(q, p) => q \in visited
  /\ visited' = visited \cup {p}
  /\ statements' = statements + VisitStmt(p) + CountStatements(CountedParts(p)) + VisitVarDecl(p)
  /\ nesting' = IF body[p] \in ControlStatements
                THEN Max({nesting, getControlDepth[p][FALSE]}) ELSE nesting
  /\ UNCHANGED <<body, cond, initialised>>

SNext == \E p \in DOMAIN body : Visit(p)

SSpec == SInit /\ [][SNext]_svars
-----------------------------------------------------------------------------
(* Properties. *)

Finished == visited = DOMAIN body

\* The statements in the sense of docs/metrics_details.md:352-370: all but blocks, empty
\* statements, declarations and labels.
Documented == {p \in DOMAIN body : body[p] \notin NoStatements}

\* Is the statement at p an expression directly below a label?
BelowLabel(p) == body[Front(p)] = "label" /\ body[p] \notin KeywordStatements

\* STMT_CNT counts each documented statement once, in its own visit or in that of the
\* statement around it but not in both, with two differences from the documentation: an
\* expression directly below a label is dropped, and each variable with an initialiser
\* counts, though it is a declaration.
StatementsExact ==
  Finished =>
    statements = Cardinality({p \in Documented : ~ BelowLabel(p)}) + Cardinality(initialised)

\* The levels at p: the control statements around it and itself, but an else if is on
\* the level of its if.
Levels(p) ==
  Cardinality({n \in 0 .. Len(p) :
    LET q == SubSeq(p, 1, n) IN
      /\ body[q] \in ControlStatements
      /\ ~ (n > 0 /\ p[n] = 2 /\ body[q] = "if" /\ body[Front(q)] = "if")})

\* FUNC_NESTING is the largest number of levels, though it is found from inside out.
NestingExact == Finished => nesting = Max({Levels(p) : p \in DOMAIN body})
=============================================================================
