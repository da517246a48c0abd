------------------------- MODULE MCLinkageResolver -------------------------
(***************************************************************************)
(* LinkageResolver on all trees of at most three functions in two files    *)
(* and at most two unresolved calls.                                       *)
(***************************************************************************)
EXTENDS LinkageResolver, TLC

Calls(fs) == UNION {kSubset(n, fs \X FnNames) : n \in 0 .. 2}

\* A function does not miss the body of one in its own file.
AllTrees ==
  UNION {{[fns |-> fs, external |-> es, calls |-> cs] :
            es \in SUBSET fs, cs \in {c \in Calls(fs) : \A x \in c : <<x[1][1], x[2]>> \notin fs}} :
         fs \in UNION {kSubset(n, FunctionUnits) : n \in 0 .. 3}}

\* Names may be used twice, but every call finds an external function of its name.
CallableTrees ==
  {t \in AllTrees :
     /\ \A c \in t.calls : \E u \in t.external : u[2] = c[2]
     /\ \A u \in t.external, v \in t.fns : u[2] = v[2] => u = v}
=============================================================================
