--------------------------- MODULE FunctionVisit ---------------------------
(***************************************************************************)
(* The visit of one function (src/src/MetricMatcher.cpp): when clang comes *)
(* to its declaration the paths and the return points are counted, and     *)
(* then its statements are visited one by one.                             *)
(***************************************************************************)
EXTENDS PathCount, Statements

VInit == Init /\ Unvisited

VisitDeclaration == VisitFunctionDecl /\ UNCHANGED svars
VisitBody == paths # -1 /\ SNext /\ UNCHANGED vars

VNext == VisitDeclaration \/ VisitBody

VSpec == VInit /\ [][VNext]_<<vars, svars>>
=============================================================================
