------------------------------ MODULE Linking ------------------------------
(***************************************************************************)
(* What resolving the calls between files promises (FUNC_CALLED_BY_EXTERN, *)
(* "Number of external functions calling this function"): every call whose *)
(* body was not visible is looked at once, in any order, and counts for    *)
(* the function with external linkage and the name called, if there is one *)
(* among the sources.                                                      *)
(***************************************************************************)
EXTENDS Naturals

CONSTANT Trees  \* possible inputs: [fns, external, calls], see LinkageResolver

VARIABLES
  tree,     \* the input
  pending,  \* calls not yet looked at
  credits   \* calls counted for each function

vars == <<tree, pending, credits>>

Init ==
  /\ tree \in Trees
  /\ pending = tree.calls
  /\ credits = [u \in tree.fns |-> 0]

\* The functions a call of name g may mean.
Targets(g) == {u \in tree.external : u[2] = g}

Resolve(c) ==
  /\ pending' = pending \ {c}
  /\ \/ \E u \in Targets(c[2]) : credits' = [credits EXCEPT ![u] = @ + 1]
     \/ Targets(c[2]) = {} /\ UNCHANGED credits
  /\ UNCHANGED tree

Next == \E c \in pending : Resolve(c)

Spec == Init /\ [][Next]_vars
=============================================================================
