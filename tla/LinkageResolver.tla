-------------------------- MODULE LinkageResolver --------------------------
(***************************************************************************)
(* resolveLinkages() (src/src/MetricLinkageResolver.cpp), which runs once, *)
(* after the syntax trees of all translation units were visited.  It goes  *)
(* through the functions by name, and through the names each one called    *)
(* without seeing a body, and raises METRIC_TYPE_CALLED_BY_EXTERN of the   *)
(* first function with external linkage it finds from that name on.        *)
(*                                                                         *)
(* Functions and files are numbers, in the order std::map keeps the        *)
(* strings in; a function unit is a pair <<file, name>>.                   *)
(***************************************************************************)
EXTENDS Integers, FiniteSets, FiniteSetsExt

CONSTANTS
  NumFiles, NumNames,  \* how many files and names of functions there are
  Trees                \* the trees of units resolveLinkages() may be given

Files == 1 .. NumFiles
FnNames == 1 .. NumNames
End == NumNames + 1
FunctionUnits == Files \X FnNames

\* A tree: its functions, those with m_hasExternalLinkage, and m_unresolvedFnCalls
\* as pairs of the caller and a name.
ASSUME TreeAssumption ==
  /\ NumFiles \in Nat /\ NumNames \in Nat
  /\ \A t \in Trees : /\ t.fns \subseteq FunctionUnits
                      /\ t.external \subseteq t.fns
                      /\ t.calls \subseteq t.fns \X FnNames

VARIABLES
  tree,     \* the units (never changed here, but for their counters)
  credits,  \* METRIC_TYPE_CALLED_BY_EXTERN of each function
  mapping,  \* getAllFunctionMap(): the file whose function stands for each name
  pc,       \* "map", "caller", "callee", "probe" or "done"
  it,       \* name of the calling function
  uit,      \* name called
  fns,      \* name of the function being tried
  given     \* history: <<caller, name called, name credited>>

vars == <<tree, credits, mapping, pc, it, uit, fns, given>>
-----------------------------------------------------------------------------
\* The least name in S from k on, as std::map and std::set iterate.
From(S, k) == Min({n \in S : n >= k} \cup {End})

\* Fault: iterators that stay where they are.
NoAdvance(k) == k

\* fns++
Advance(k) == From(DOMAIN mapping, k + 1)

\* The unit that stands for a name.
Unit(g) == <<mapping[g], g>>

\* Names the function called without seeing a body.
Unresolved(u) == {g \in FnNames : <<u, g>> \in tree.calls}

\* Fault: finds the next name where there is none of that name.
LowerBound(g) == From(DOMAIN mapping, g)

\* mapping.find()
Find(g) == IF g \in DOMAIN mapping THEN g ELSE End

\* Fault: any linkage will do.
AnyLinkage(u) == TRUE

hasExternalLinkage(u) == u \in tree.external

\* Fault: the last file stands for every name.
LastFileMap ==
  [g \in {u[2] : u \in tree.fns} |-> Max({u[1] : u \in tree.fns})]

\* getAllFunctionMap(): files are visited in order, and a later file's function
\* replaces an earlier one of the same name.
AllFunctionMap ==
  [g \in {u[2] : u \in tree.fns} |-> Max({f \in Files : <<f, g>> \in tree.fns})]
-----------------------------------------------------------------------------
Init ==
  /\ tree \in Trees
  /\ credits = [u \in tree.fns |-> 0]
  /\ mapping = <<>>
  /\ pc = "map" /\ it = 0 /\ uit = 0 /\ fns = 0
  /\ given = {}

BuildMap ==
  /\ pc = "map" /\ pc' = "caller"
  /\ mapping' = AllFunctionMap
  /\ it' = From(DOMAIN AllFunctionMap, 1)
  /\ UNCHANGED <<tree, credits, uit, fns, given>>

\* The outer loop.
BeginCaller ==
  /\ pc = "caller" /\ it # End
  /\ uit' = From(Unresolved(Unit(it)), 1)
  /\ pc' = "callee"
  /\ UNCHANGED <<tree, credits, mapping, it, fns, given>>

Finish ==
  /\ pc = "caller" /\ it = End
  /\ pc' = "done"
  /\ UNCHANGED <<tree, credits, mapping, it, uit, fns, given>>

\* The loop over the names a function called.
BeginCallee ==
  /\ pc = "callee" /\ uit # End
  /\ fns' = Find(uit)
  /\ pc' = "probe"
  /\ UNCHANGED <<tree, credits, mapping, it, uit, given>>

EndCaller ==
  /\ pc = "callee" /\ uit = End
  /\ it' = Advance(it) /\ uit' = 0
  /\ pc' = "caller"
  /\ UNCHANGED <<tree, credits, mapping, fns, given>>

NextCallee ==
  /\ uit' = From(Unresolved(Unit(it)), uit + 1)
  /\ pc' = "callee"

\* Fault: no break after the call is counted.
GoOn ==
  /\ fns' = Advance(fns)
  /\ UNCHANGED <<pc, uit>>

\* break
Leave == NextCallee /\ UNCHANGED fns

\* The search: count the call and leave the loop ...
Credit ==
  /\ pc = "probe" /\ fns # End /\ hasExternalLinkage(Unit(fns))
  /\ credits' = [credits EXCEPT ![Unit(fns)] = @ + 1]
  /\ given' = given \cup {<<Unit(it), uit, fns>>}
  /\ Leave
  /\ UNCHANGED <<tree, mapping, it>>

\* ... or go on to the next function, whatever its name.
Skip ==
  /\ pc = "probe" /\ fns # End /\ ~ hasExternalLinkage(Unit(fns))
  /\ fns' = Advance(fns)
  /\ UNCHANGED <<tree, credits, mapping, pc, it, uit, given>>

GiveUp ==
  /\ pc = "probe" /\ fns = End
  /\ NextCallee
  /\ UNCHANGED <<tree, credits, mapping, it, fns, given>>

Done == pc = "done" /\ UNCHANGED vars

Next ==
  \/ BuildMap \/ BeginCaller \/ Finish \/ BeginCallee \/ EndCaller
  \/ Credit \/ Skip \/ GiveUp \/ Done

Spec == Init /\ [][Next]_vars

\* The function is a sequential program: it takes its next step.
FairSpec == Spec /\ WF_vars(Next)
-----------------------------------------------------------------------------
(* Properties. *)

\* Every name stands for a function that exists.
NamesAreMapped == \A g \in DOMAIN mapping : Unit(g) \in tree.fns

\* Type invariant of the loops.
TypeOK ==
  /\ tree.fns \subseteq FunctionUnits /\ tree.external \subseteq tree.fns
  /\ tree.calls \subseteq tree.fns \X FnNames
  /\ credits \in [tree.fns -> Nat]
  /\ pc \in {"map", "caller", "callee", "probe", "done"}
  /\ it \in 0 .. End /\ uit \in 0 .. End /\ fns \in 0 .. End
  /\ pc = "map" => mapping = <<>>
  /\ pc # "map" => mapping = AllFunctionMap
  /\ NamesAreMapped

\* Calls the loops have not come to.
Pending ==
  {c \in tree.calls : c[1][2] > it \/ (c[1][2] = it /\ c[2] >= uit)}

\* Only a function with external linkage can be called from another file, so only
\* such a function is ever credited.
OnlyExternalCredited ==
  \A u \in tree.fns : credits[u] > 0 => u \in tree.external

\* A credit is for a call that was left unresolved and that the loops are past, no call
\* is credited twice, and a function has as many credits as calls were given to it.
OneCreditPerCall ==
  /\ \A c \in given : <<c[1], c[2]>> \in tree.calls \ Pending
  /\ \A c, d \in given : c[1] = d[1] /\ c[2] = d[2] => c = d
  /\ \A u \in tree.fns : credits[u] = Cardinality({c \in given : Unit(c[3]) = u})

\* The loops end.
Terminates == <>(pc = "done")

\* "Get a list of all functions with a matching name ...", "First matching function
\* with external linkage will be assocated with the call"
\* (src/src/MetricLinkageResolver.cpp:33): the function credited has that name.
CreditedByName == \A c \in given : c[2] = c[3]

\* "Number of external functions calling this function" (src/src/metrics.def:190): in
\* the end every call left unresolved has been counted for the function it named.
EveryCallerCounted ==
  pc = "done" =>
    \A u \in tree.external :
      credits[u] = Cardinality({c \in tree.calls : c[2] = u[2]})

\* The tree of a program in which no name is used twice and what is called from
\* another file has external linkage.
Clean(t) ==
  /\ \A u, v \in t.fns : u[2] = v[2] => u = v
  /\ \A c \in t.calls : \A u \in t.fns : u[2] = c[2] => u \in t.external

\* On such a tree the loops do what Linking promises, step by step.
L == INSTANCE Linking WITH pending <- Pending
Linked == (Clean(tree) => L!Init) /\ [][Clean(tree) => L!Next]_(L!vars)
=============================================================================
