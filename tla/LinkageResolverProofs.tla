----------------------- MODULE LinkageResolverProofs -----------------------
(***************************************************************************)
(* Proofs about LinkageResolver, for any number of files, functions and    *)
(* calls.                                                                  *)
(***************************************************************************)
EXTENDS LinkageResolver, WellFoundedInduction, FiniteSetTheorems, TLAPS

-----------------------------------------------------------------------------
(* The orders of std::map and std::set. *)

\* The least-number principle.
LEMMA Least ==
  ASSUME NEW T, T \subseteq Nat, T # {}
  PROVE  \E x \in T : \A y \in T : x <= y
<1> DEFINE R == OpToRel(<, Nat)
<1>1. IsWellFoundedOn(R, Nat)
  BY NatLessThanWellFounded
<1>2. \A x, y \in Nat : x < y => <<x, y>> \in R
  BY DEF OpToRel
<1> HIDE DEF R
<1>3. PICK x \in T : \A y \in T : ~ (<<y, x>> \in R)
  BY <1>1, WFMin
<1>4. \A y \in T : ~ (y < x)
  BY <1>2, <1>3
<1>5. \A y \in T : x <= y
  BY <1>4
<1>6. QED
  BY <1>5

\* An iterator stands at the first element from k on, or at the end.
LEMMA FromLeast ==
  ASSUME NEW S, S \subseteq FnNames, NEW k \in Nat
  PROVE  /\ From(S, k) \in S \cup {End}
         /\ From(S, k) \in 0 .. End
         /\ From(S, k) # End => From(S, k) >= k
         /\ \A n \in S : n >= k => From(S, k) <= n
<1> DEFINE T == {n \in S : n >= k} \cup {End}
<1>1. NumNames \in Nat /\ End \in Nat /\ S \subseteq Nat
  BY TreeAssumption DEF FnNames, End
<1>2. T \subseteq Nat /\ T # {}
  BY <1>1
<1>3. \E x \in T : \A y \in T : x <= y
  BY <1>2, Least
<1>4. From(S, k) \in T /\ \A y \in T : From(S, k) <= y
  BY <1>3 DEF From, Min
<1>5. QED
  BY <1>1, <1>2, <1>4

\* The function that stands for a name has that name.
LEMMA MapSound ==
  ASSUME tree.fns \subseteq FunctionUnits
  PROVE  /\ DOMAIN AllFunctionMap = {u[2] : u \in tree.fns}
         /\ DOMAIN AllFunctionMap \subseteq FnNames
         /\ \A g \in DOMAIN AllFunctionMap : <<AllFunctionMap[g], g>> \in tree.fns
<1>1. DOMAIN AllFunctionMap = {u[2] : u \in tree.fns}
  BY DEF AllFunctionMap
<1>2. ASSUME NEW g \in DOMAIN AllFunctionMap PROVE <<AllFunctionMap[g], g>> \in tree.fns
  <2> DEFINE T == {f \in Files : <<f, g>> \in tree.fns}
             Rest == {NumFiles - f : f \in T}
  <2>1. NumFiles \in Nat /\ T \subseteq 1 .. NumFiles /\ T # {}
    BY <1>1, TreeAssumption DEF Files, FunctionUnits
  <2>2. Rest \subseteq Nat /\ Rest # {}
    <3>1. \A f \in T : NumFiles - f \in Nat
      BY <2>1
    <3> HIDE DEF T
    <3>2. QED
      BY <2>1, <3>1
  <2>3. PICK r \in Rest : \A s \in Rest : r <= s
    BY <2>2, Least
  <2>4. PICK f \in T : r = NumFiles - f
    BY <2>3
  <2>5. ASSUME NEW e \in T PROVE f >= e
    <3>1. NumFiles - f <= NumFiles - e
      BY <2>3, <2>4
    <3>2. e \in Int /\ f \in Int /\ NumFiles \in Int
      BY <2>1
    <3>3. QED
      BY <3>1, <3>2
  <2>6. Max(T) \in T
    BY <2>5 DEF Max
  <2>7. AllFunctionMap[g] = Max(T)
    BY <1>2 DEF AllFunctionMap
  <2>8. QED
    BY <2>6, <2>7
<1>3. QED
  BY <1>1, <1>2 DEF FunctionUnits

-----------------------------------------------------------------------------
(* The loops.                                                              *)
(* The iterators only ever stand at a function, at one of its calls, or at *)
(* the end; the types and OnlyExternalCredited follow from that.           *)

IteratorInv ==
  /\ pc # "map" => it \in DOMAIN mapping \cup {End}
  /\ pc \in {"map", "caller"} => uit = 0
  /\ pc = "map" => it = 0
  /\ pc \in {"callee", "probe"} => /\ it \in DOMAIN mapping
                                   /\ uit \in Unresolved(Unit(it)) \cup {End}
  /\ pc = "probe" => uit # End /\ fns \in DOMAIN mapping \cup {End}

LoopInv == TypeOK /\ IteratorInv /\ OnlyExternalCredited

LEMMA LoopInit == Init => LoopInv
BY TreeAssumption
   DEF Init, LoopInv, TypeOK, NamesAreMapped, IteratorInv, OnlyExternalCredited, FnNames, End

LEMMA LoopStep ==
  ASSUME LoopInv, [Next]_vars
  PROVE  LoopInv'
<1> USE DEF LoopInv
<1>1. End \in Nat /\ End \notin FnNames /\ NumNames \in Nat
  BY TreeAssumption DEF End, FnNames
<1>2. /\ DOMAIN AllFunctionMap \subseteq FnNames
      /\ \A g \in DOMAIN AllFunctionMap : <<AllFunctionMap[g], g>> \in tree.fns
  BY MapSound DEF TypeOK
<1>3. \A u : Unresolved(u) \subseteq FnNames
  BY DEF Unresolved
<1>4. it \in Nat /\ uit \in Nat /\ fns \in Nat
  BY <1>1 DEF TypeOK
<1>map. NamesAreMapped'
  <2>1. CASE UNCHANGED <<tree, mapping>>
    BY <2>1 DEF TypeOK, NamesAreMapped, Unit
  <2>2. CASE BuildMap
    BY <1>2, <2>2 DEF BuildMap, NamesAreMapped, Unit
  <2>3. QED
    BY <2>1, <2>2 DEF Next, vars, BeginCaller, Finish, BeginCallee, EndCaller, Credit, Skip,
                      GiveUp, Done
<1>5. CASE BuildMap
  <2>1. From(DOMAIN AllFunctionMap, 1) \in DOMAIN AllFunctionMap \cup {End}
        /\ From(DOMAIN AllFunctionMap, 1) \in 0 .. End
    BY <1>2, FromLeast
  <2>2. TypeOK'
    BY <1>map, <1>5, <2>1 DEF BuildMap, TypeOK, AllFunctionMap
  <2>3. QED
    BY <1>5, <2>1, <2>2 DEF BuildMap, IteratorInv, OnlyExternalCredited
<1>6. CASE BeginCaller
  <2>1. From(Unresolved(Unit(it)), 1) \in Unresolved(Unit(it)) \cup {End}
        /\ From(Unresolved(Unit(it)), 1) \in 0 .. End
    BY <1>3, FromLeast
  <2>2. TypeOK'
    BY <1>map, <1>6, <2>1 DEF BeginCaller, TypeOK, AllFunctionMap
  <2>3. Unresolved(Unit(it))' = Unresolved(Unit(it))
    BY <1>6 DEF BeginCaller, Unresolved, Unit
  <2>4. IteratorInv'
    BY <1>6, <2>1, <2>3 DEF BeginCaller, IteratorInv
  <2>5. QED
    BY <1>6, <2>2, <2>4 DEF BeginCaller, OnlyExternalCredited
<1>7. CASE Finish
  BY <1>map, <1>7 DEF Finish, TypeOK, IteratorInv, OnlyExternalCredited, AllFunctionMap
<1>8. CASE BeginCallee
  <2>1. Find(uit) \in DOMAIN mapping \cup {End} /\ Find(uit) \in 0 .. End
    BY <1>1, <1>4, <1>8 DEF Find, TypeOK, BeginCallee
  <2>2. TypeOK'
    BY <1>map, <1>8, <2>1 DEF BeginCallee, TypeOK, AllFunctionMap
  <2>3. Unresolved(Unit(it))' = Unresolved(Unit(it))
    BY <1>8 DEF BeginCallee, Unresolved, Unit
  <2>4. IteratorInv'
    BY <1>8, <2>1, <2>3 DEF BeginCallee, IteratorInv
  <2>5. QED
    BY <1>8, <2>2, <2>4 DEF BeginCallee, OnlyExternalCredited
<1>9. CASE EndCaller
  <2>1. mapping = AllFunctionMap
    BY <1>9 DEF EndCaller, TypeOK
  <2>2. Advance(it) \in DOMAIN mapping \cup {End} /\ Advance(it) \in 0 .. End
    BY <1>2, <1>4, <2>1, FromLeast DEF Advance
  <2>3. TypeOK'
    BY <1>map, <1>1, <1>9, <2>2 DEF EndCaller, TypeOK, AllFunctionMap
  <2>4. QED
    BY <1>9, <2>2, <2>3 DEF EndCaller, IteratorInv, OnlyExternalCredited
<1>10. ASSUME NextCallee, it \in DOMAIN mapping, UNCHANGED <<tree, mapping, it>>
       PROVE  uit' \in Unresolved(Unit(it))' \cup {End} /\ uit' \in 0 .. End
  <2>1. uit' \in Unresolved(Unit(it)) \cup {End} /\ uit' \in 0 .. End
    BY <1>3, <1>4, <1>10, FromLeast DEF NextCallee
  <2>2. Unresolved(Unit(it))' = Unresolved(Unit(it))
    BY <1>10 DEF Unresolved, Unit
  <2>3. QED
    BY <2>1, <2>2
<1>11. CASE Credit
  <2>1. fns \in DOMAIN mapping /\ mapping = AllFunctionMap
    BY <1>11 DEF Credit, IteratorInv, TypeOK
  <2>2. Unit(fns) \in tree.fns /\ Unit(fns) \in tree.external
    BY <1>2, <1>11, <2>1 DEF Credit, Unit, hasExternalLinkage
  <2>3. pc = "probe" /\ pc' = "callee" /\ it \in DOMAIN mapping
    BY <1>11 DEF Credit, Leave, NextCallee, IteratorInv
  <2>4. uit' \in Unresolved(Unit(it))' \cup {End} /\ uit' \in 0 .. End
    BY <1>10, <1>11, <2>3 DEF Credit, Leave
  <2>5. credits' \in [tree.fns -> Nat]
    BY <1>11, <2>2 DEF Credit, TypeOK
  <2>6. TypeOK'
    BY <1>map, <1>11, <2>3, <2>4, <2>5 DEF Credit, Leave, TypeOK, AllFunctionMap
  <2>7. IteratorInv'
    BY <1>11, <2>3, <2>4 DEF Credit, IteratorInv
  <2>8. OnlyExternalCredited'
    BY <1>11, <2>2 DEF Credit, OnlyExternalCredited, TypeOK
  <2>9. QED
    BY <2>6, <2>7, <2>8
<1>12. CASE Skip
  <2>1. mapping = AllFunctionMap
    BY <1>12 DEF Skip, TypeOK
  <2>2. Advance(fns) \in DOMAIN mapping \cup {End} /\ Advance(fns) \in 0 .. End
    BY <1>2, <1>4, <2>1, FromLeast DEF Advance
  <2>3. TypeOK'
    BY <1>map, <1>12, <2>2 DEF Skip, TypeOK, AllFunctionMap
  <2>4. Unresolved(Unit(it))' = Unresolved(Unit(it))
    BY <1>12 DEF Skip, Unresolved, Unit
  <2>5. IteratorInv'
    BY <1>12, <2>2, <2>4 DEF Skip, IteratorInv
  <2>6. QED
    BY <1>12, <2>3, <2>5 DEF Skip, OnlyExternalCredited
<1>13. CASE GiveUp
  <2>1. pc = "probe" /\ pc' = "callee" /\ it \in DOMAIN mapping
    BY <1>13 DEF GiveUp, NextCallee, IteratorInv
  <2>2. uit' \in Unresolved(Unit(it))' \cup {End} /\ uit' \in 0 .. End
    BY <1>10, <1>13, <2>1 DEF GiveUp
  <2>3. TypeOK'
    BY <1>map, <1>13, <2>1, <2>2 DEF GiveUp, TypeOK, AllFunctionMap
  <2>4. IteratorInv'
    BY <1>13, <2>1, <2>2 DEF GiveUp, IteratorInv
  <2>5. QED
    BY <1>13, <2>3, <2>4 DEF GiveUp, OnlyExternalCredited
<1>14. CASE Done \/ UNCHANGED vars
  BY <1>map, <1>14 DEF Done, vars, TypeOK, IteratorInv, OnlyExternalCredited, AllFunctionMap,
               Unresolved, Unit
<1>15. QED
  BY <1>5, <1>6, <1>7, <1>8, <1>9, <1>11, <1>12, <1>13, <1>14 DEF Next

\* The loops are well typed: the iterators never leave the map.
THEOREM TypeCorrect == Spec => []TypeOK
<1>1. LoopInv /\ [Next]_vars => LoopInv'
  BY LoopStep
<1>2. LoopInv => TypeOK
  BY DEF LoopInv
<1>3. QED
  BY <1>1, <1>2, LoopInit, PTL DEF Spec

\* No function without external linkage is ever credited with a call from another
\* file, on any tree.
THEOREM ExternalOnly == Spec => []OnlyExternalCredited
<1>1. LoopInv /\ [Next]_vars => LoopInv'
  BY LoopStep
<1>2. LoopInv => OnlyExternalCredited
  BY DEF LoopInv
<1>3. QED
  BY <1>1, <1>2, LoopInit, PTL DEF Spec

-----------------------------------------------------------------------------
(* Credits.                                                                *)
(* The loops pass a call once, so what is given is given for a call that   *)
(* was pending and is not any more.                                        *)

\* Going on within a caller, or to a later one, makes no call pending again.
LEMMA PendingShrinks ==
  ASSUME UNCHANGED tree, it \in Nat, it' \in Nat, uit \in Nat, uit' \in Nat,
         tree.calls \subseteq FunctionUnits \X FnNames,
         it' > it \/ (it' = it /\ uit' >= uit)
  PROVE  Pending' \subseteq Pending
<1> SUFFICES ASSUME NEW c \in tree.calls,
                    c[1][2] > it' \/ (c[1][2] = it' /\ c[2] >= uit')
             PROVE  c[1][2] > it \/ (c[1][2] = it /\ c[2] >= uit)
  BY DEF Pending
<1>1. c[1][2] \in Nat /\ c[2] \in Nat
  BY DEF FunctionUnits, FnNames
<1>2. QED
  BY <1>1

\* Where the loops go.
LEMMA LoopsGoOn ==
  ASSUME LoopInv, [Next]_vars
  PROVE  /\ UNCHANGED tree /\ Pending' \subseteq Pending
         /\ NextCallee /\ pc = "probe" /\ UNCHANGED it => uit' >= uit + 1
<1>1. /\ it \in Nat /\ uit \in Nat /\ End \in Nat
      /\ tree.calls \subseteq FunctionUnits \X FnNames
      /\ \A u : Unresolved(u) \subseteq FnNames
  BY TreeAssumption DEF LoopInv, TypeOK, End, Unresolved
<1>2. it' \in Nat /\ uit' \in Nat /\ UNCHANGED tree
  <2>1. TypeOK'
    BY LoopStep DEF LoopInv
  <2>2. it' \in 0 .. End /\ uit' \in 0 .. End
    BY <2>1 DEF TypeOK, End
  <2>3. UNCHANGED tree
    BY DEF Next, vars, BuildMap, BeginCaller, Finish, BeginCallee, EndCaller, Credit, Skip,
           GiveUp, Done
  <2>4. QED
    BY <1>1, <2>2, <2>3
<1>3. ASSUME NextCallee, pc = "probe", UNCHANGED it PROVE uit' >= uit + 1
  <2>1. uit \in FnNames
    BY <1>1, <1>3 DEF LoopInv, IteratorInv
  <2>2. uit + 1 \in Nat /\ End >= uit + 1
    BY <1>1, <2>1, TreeAssumption DEF FnNames, End
  <2>3. uit' = From(Unresolved(Unit(it)), uit + 1)
    BY <1>3 DEF NextCallee
  <2>4. uit' # End => uit' >= uit + 1
    BY <1>1, <2>2, <2>3, FromLeast
  <2>5. QED
    BY <2>2, <2>4
<1>4. it' > it \/ (it' = it /\ uit' >= uit)
  <2>1. CASE BuildMap
    <3>1. DOMAIN AllFunctionMap \subseteq FnNames
      BY MapSound DEF LoopInv, TypeOK
    <3>2. it' \in DOMAIN AllFunctionMap \cup {End} /\ it = 0
      BY <2>1, <3>1, FromLeast DEF BuildMap, LoopInv, IteratorInv
    <3>3. it' > 0
      BY <1>1, <3>1, <3>2, TreeAssumption DEF FnNames, End
    <3>4. QED
      BY <3>2, <3>3
  <2>2. CASE BeginCaller
    BY <1>1, <1>2, <2>2 DEF BeginCaller, LoopInv, IteratorInv
  <2>3. CASE EndCaller
    <3>1. it \in DOMAIN mapping /\ mapping = AllFunctionMap
      BY <2>3 DEF EndCaller, LoopInv, TypeOK, IteratorInv
    <3>2. it \in FnNames /\ DOMAIN mapping \subseteq FnNames
      BY <3>1, MapSound DEF LoopInv, TypeOK
    <3>3. it' = From(DOMAIN mapping, it + 1)
      BY <2>3 DEF EndCaller, Advance
    <3>4. it' # End => it' >= it + 1
      BY <1>1, <3>2, <3>3, FromLeast
    <3>5. End >= it + 1
      BY <1>1, <3>2, TreeAssumption DEF FnNames, End
    <3>6. QED
      BY <1>1, <1>2, <3>4, <3>5
  <2>4. CASE Credit \/ GiveUp
    BY <1>1, <1>2, <1>3, <2>4 DEF Credit, GiveUp, Leave
  <2>5. CASE Finish \/ BeginCallee \/ Skip \/ Done \/ UNCHANGED vars
    BY <1>1, <2>5 DEF Finish, BeginCallee, Skip, Done, vars
  <2>6. QED
    BY <2>1, <2>2, <2>3, <2>4, <2>5 DEF Next
<1>5. Pending' \subseteq Pending
  BY <1>1, <1>2, <1>4, PendingShrinks
<1>6. QED
  BY <1>2, <1>3, <1>5

CreditInv ==
  /\ LoopInv /\ OneCreditPerCall
  /\ IsFiniteSet(given)
  /\ pc = "map" => given = {}

\* The step that credits a call.
LEMMA CreditGives ==
  ASSUME CreditInv, Credit
  PROVE  OneCreditPerCall' /\ IsFiniteSet(given')
<1> DEFINE e == <<Unit(it), uit, fns>>
           Of(u) == {c \in given : Unit(c[3]) = u}
<1>1. /\ it \in Nat /\ uit \in Nat /\ IsFiniteSet(given)
      /\ uit \in Unresolved(Unit(it))
      /\ Unit(fns) \in tree.fns /\ credits \in [tree.fns -> Nat]
      /\ UNCHANGED <<tree, mapping, it>>
      /\ Unit(it) = <<mapping[it], it>>
  BY TreeAssumption
     DEF Credit, CreditInv, LoopInv, TypeOK, IteratorInv, NamesAreMapped, End, Unit
<1>2. <<Unit(it), uit>> \in tree.calls
  BY <1>1 DEF Unresolved
<1>3. /\ Pending' \subseteq Pending /\ uit' >= uit + 1
      /\ uit' \in Nat
  <2>1. TypeOK'
    BY LoopStep DEF CreditInv, LoopInv, Next
  <2>2. uit' \in Nat
    BY <2>1, TreeAssumption DEF TypeOK, End
  <2>3. QED
    BY <2>2, LoopsGoOn DEF CreditInv, Next, Credit, Leave
<1>4. <<Unit(it), uit>> \in Pending /\ <<Unit(it), uit>> \notin Pending'
  BY <1>1, <1>2, <1>3 DEF Pending
<1>5. \A c \in given : ~ (c[1] = Unit(it) /\ c[2] = uit)
  BY <1>4 DEF CreditInv, OneCreditPerCall
<1>6. given' = given \cup {e} /\ e \notin given
  BY <1>5 DEF Credit
<1>7. \A c \in given' : <<c[1], c[2]>> \in tree.calls \ Pending'
  <2>1. ASSUME NEW c \in given PROVE <<c[1], c[2]>> \in tree.calls \ Pending'
    BY <1>3 DEF CreditInv, OneCreditPerCall
  <2>2. e[1] = Unit(it) /\ e[2] = uit
    OBVIOUS
  <2> HIDE DEF e
  <2>3. <<e[1], e[2]>> \in tree.calls \ Pending'
    BY <1>2, <1>4, <2>2
  <2>4. QED
    BY <1>6, <2>1, <2>3
<1>8. \A c, d \in given' : c[1] = d[1] /\ c[2] = d[2] => c = d
  <2> SUFFICES ASSUME NEW c \in given', NEW d \in given', c[1] = d[1], c[2] = d[2]
               PROVE  c = d
    OBVIOUS
  <2>1. CASE c \in given /\ d \in given
    BY <2>1 DEF CreditInv, OneCreditPerCall
  <2>2. CASE c = e \/ d = e
    BY <1>5, <1>6, <2>2
  <2>3. QED
    BY <1>6, <2>1, <2>2
<1>9. ASSUME NEW u \in tree.fns
      PROVE  credits'[u] = Cardinality({c \in given' : Unit(c[3]) = u})
  <2>1. IsFiniteSet(Of(u)) /\ credits[u] = Cardinality(Of(u)) /\ e \notin Of(u)
    BY <1>1, <1>6, FS_Subset DEF CreditInv, OneCreditPerCall
  <2>2. CASE u = Unit(fns)
    <3>1. {c \in given' : Unit(c[3]) = u} = Of(u) \cup {e}
      BY <1>6, <2>2
    <3>2. Cardinality(Of(u) \cup {e}) = Cardinality(Of(u)) + 1
      BY <2>1, FS_AddElement
    <3>3. credits'[u] = credits[u] + 1
      BY <1>1, <2>2 DEF Credit
    <3>4. QED
      BY <2>1, <3>1, <3>2, <3>3
  <2>3. CASE u # Unit(fns)
    <3>1. {c \in given' : Unit(c[3]) = u} = Of(u)
      BY <1>6, <2>3
    <3>2. credits'[u] = credits[u]
      BY <1>1, <2>3 DEF Credit
    <3>3. QED
      BY <2>1, <3>1, <3>2
  <2>4. QED
    BY <2>2, <2>3
<1>10. IsFiniteSet(given')
  BY <1>1, <1>6, FS_AddElement
<1>11. \A u : {c \in given' : Unit(c[3])' = u} = {c \in given' : Unit(c[3]) = u}
  BY <1>1 DEF Unit
<1>12. tree' = tree
  BY <1>1
<1> HIDE DEF e
<1>13. QED
  BY <1>7, <1>8, <1>9, <1>10, <1>11, <1>12 DEF OneCreditPerCall

LEMMA CreditStep ==
  ASSUME CreditInv, [Next]_vars
  PROVE  CreditInv'
<1>1. LoopInv'
  BY LoopStep DEF CreditInv
<1>2. pc' = "map" => given' = {}
  BY DEF CreditInv, Next, vars, BuildMap, BeginCaller, Finish, BeginCallee, EndCaller, Credit,
         Skip, GiveUp, Leave, NextCallee, Done
<1>3. ASSUME UNCHANGED <<credits, given>>, UNCHANGED mapping \/ given = {}
      PROVE  OneCreditPerCall' /\ IsFiniteSet(given')
  <2>1. UNCHANGED tree /\ Pending' \subseteq Pending
    BY LoopsGoOn DEF CreditInv
  <2>2. \A u : {c \in given' : Unit(c[3])' = u} = {c \in given : Unit(c[3]) = u}
    BY <1>3 DEF Unit
  <2>3. QED
    BY <1>3, <2>1, <2>2 DEF CreditInv, OneCreditPerCall
<1>4. CASE BuildMap
  BY <1>1, <1>2, <1>3, <1>4 DEF BuildMap, CreditInv
<1>5. CASE Credit
  BY <1>1, <1>2, <1>5, CreditGives DEF CreditInv
<1>6. CASE \/ BeginCaller \/ Finish \/ BeginCallee \/ EndCaller \/ Skip \/ GiveUp \/ Done
           \/ UNCHANGED vars
  <2>1. UNCHANGED <<credits, given, mapping>>
    BY <1>6 DEF BeginCaller, Finish, BeginCallee, EndCaller, Skip, GiveUp, Done, vars
  <2>2. QED
    BY <1>1, <1>2, <1>3, <2>1 DEF CreditInv
<1>7. QED
  BY <1>4, <1>5, <1>6 DEF Next

\* On any tree, no call is credited twice and no credit is without a call.
THEOREM CreditsAreCalls == Spec => []OneCreditPerCall
<1>1. Init => CreditInv
  <2> SUFFICES ASSUME Init PROVE CreditInv
    OBVIOUS
  <2>1. \A u : {c \in given : Unit(c[3]) = u} = {}
    BY DEF Init
  <2>2. QED
    BY <2>1, LoopInit, FS_EmptySet DEF Init, CreditInv, OneCreditPerCall
<1>2. CreditInv /\ [Next]_vars => CreditInv'
  BY CreditStep
<1>3. CreditInv => OneCreditPerCall
  BY DEF CreditInv
<1>4. QED
  BY <1>1, <1>2, <1>3, PTL DEF Spec

-----------------------------------------------------------------------------
(* Refinement.                                                             *)
(* On clean trees every caller stands for its name, so the calls the loops *)
(* have not come to are the pending ones of Linking, and the search never  *)
(* goes past the function that was named.                                  *)

CleanInv == LoopInv /\ Clean(tree) /\ (pc = "probe" => fns = Find(uit))

\* A call, seen as the loops come to it.
LEMMA CallerMapped ==
  ASSUME CleanInv, NEW c \in tree.calls
  PROVE  /\ c = <<c[1], c[2]>> /\ c[1][2] \in FnNames /\ c[2] \in FnNames
         /\ c[1][2] \in DOMAIN AllFunctionMap
         /\ pc # "map" => /\ c[1][2] \in DOMAIN mapping
                          /\ c[1] = Unit(c[1][2])
                          /\ c[2] \in Unresolved(Unit(c[1][2]))
<1>1. /\ c[1] \in tree.fns /\ c[2] \in FnNames /\ c = <<c[1], c[2]>>
      /\ tree.fns \subseteq FunctionUnits
  BY DEF CleanInv, LoopInv, TypeOK
<1>2. c[1][2] \in DOMAIN AllFunctionMap /\ c[1][2] \in FnNames
  BY <1>1, MapSound
<1>3. ASSUME pc # "map"
      PROVE  c[1][2] \in DOMAIN mapping /\ c[1] = Unit(c[1][2])
  <2>1. mapping = AllFunctionMap
    BY <1>3 DEF CleanInv, LoopInv, TypeOK
  <2>2. Unit(c[1][2]) \in tree.fns /\ Unit(c[1][2])[2] = c[1][2]
    BY <1>1, <1>2, <2>1, MapSound DEF Unit
  <2>3. QED
    BY <1>1, <1>2, <2>1, <2>2 DEF CleanInv, Clean
<1>4. ASSUME pc # "map" PROVE c[2] \in Unresolved(Unit(c[1][2]))
  BY <1>1, <1>3, <1>4 DEF Unresolved
<1>5. QED
  BY <1>1, <1>2, <1>3, <1>4

\* The search of a clean tree stops at once.
LEMMA FoundIsExternal ==
  ASSUME CleanInv, pc = "probe", fns # End
  PROVE  fns = uit /\ Unit(fns) \in tree.external
<1>1. fns = uit /\ uit \in DOMAIN mapping /\ mapping = AllFunctionMap
  BY DEF CleanInv, LoopInv, TypeOK, Find
<1>2. uit \in Unresolved(Unit(it))
  BY <1>1 DEF CleanInv, LoopInv, IteratorInv
<1>3. <<Unit(it), uit>> \in tree.calls
  BY <1>2 DEF Unresolved
<1>4. Unit(uit) \in tree.fns /\ Unit(uit)[2] = uit
  BY <1>1, MapSound DEF Unit, CleanInv, LoopInv, TypeOK
<1>5. \A u \in tree.fns : u[2] = uit => u \in tree.external
  BY <1>3 DEF CleanInv, Clean
<1>6. QED
  BY <1>1, <1>4, <1>5

LEMMA CleanStep ==
  ASSUME CleanInv, [Next]_vars
  PROVE  CleanInv'
<1>1. LoopInv'
  BY LoopStep DEF CleanInv
<1>2. tree' = tree
  BY DEF Next, vars, BuildMap, BeginCaller, Finish, BeginCallee, EndCaller, Credit, Skip,
         GiveUp, Done
<1>3. Clean(tree)'
  BY <1>2 DEF CleanInv, Clean
<1>4. ~ Skip
  BY FoundIsExternal DEF Skip, hasExternalLinkage
<1>5. (pc = "probe" => fns = Find(uit))'
  BY <1>4 DEF CleanInv, Next, vars, BuildMap, BeginCaller, Finish, BeginCallee, EndCaller,
              Credit, Leave, NextCallee, GiveUp, Done, Find
<1>6. QED
  BY <1>1, <1>3, <1>5 DEF CleanInv

\* The next name called is the next pending call of the caller.
LEMMA NextCalleeTakesOne ==
  ASSUME CleanInv, pc = "probe", NextCallee, UNCHANGED <<tree, mapping, it>>
  PROVE  /\ <<Unit(it), uit>> \in Pending
         /\ Pending' = Pending \ {<<Unit(it), uit>>}
<1> DEFINE C == <<Unit(it), uit>>
<1>1. /\ it \in Nat /\ uit \in Nat
      /\ uit \in Unresolved(Unit(it)) /\ Unresolved(Unit(it)) \subseteq FnNames
  BY TreeAssumption DEF CleanInv, LoopInv, TypeOK, IteratorInv, Unresolved, End
<1>2. C \in tree.calls
  BY <1>1 DEF Unresolved
<1>3. C \in Pending
  BY <1>1, <1>2 DEF Pending, Unit
<1>4. \A n \in Unresolved(Unit(it)) : n >= uit + 1 => uit' <= n
  BY <1>1, FromLeast DEF NextCallee
<1>5. uit' >= uit + 1
  <2>1. uit' = From(Unresolved(Unit(it)), uit + 1)
    BY DEF NextCallee
  <2>2. uit' # End => uit' >= uit + 1
    BY <1>1, <2>1, FromLeast
  <2>3. End >= uit + 1
    BY <1>1, TreeAssumption DEF FnNames, End
  <2>4. QED
    BY <2>2, <2>3
<1>6. uit' \in Nat
  <2>1. End \in Nat
    BY TreeAssumption DEF End
  <2>2. uit' \in 0 .. End
    BY <1>1, FromLeast DEF NextCallee
  <2>3. QED
    BY <2>1, <2>2
<1>7. ASSUME NEW c \in tree.calls
      PROVE  (c[1][2] > it \/ (c[1][2] = it /\ c[2] >= uit'))
               <=> (c[1][2] > it \/ (c[1][2] = it /\ c[2] >= uit)) /\ c # C
  <2>1. /\ c = <<c[1], c[2]>> /\ c[1][2] \in Nat /\ c[2] \in Nat
        /\ c[1] = Unit(c[1][2]) /\ c[2] \in Unresolved(Unit(c[1][2]))
    BY CallerMapped DEF FnNames
  <2>2. CASE c[1][2] # it
    BY <1>1, <2>1, <2>2 DEF Unit
  <2>3. CASE c[1][2] = it
    <3>1. c = C <=> c[2] = uit
      BY <2>1, <2>3
    <3>2. c[2] >= uit' <=> c[2] >= uit + 1
      BY <1>1, <1>4, <1>5, <1>6, <2>1, <2>3
    <3>3. QED
      BY <1>1, <2>1, <2>3, <3>1, <3>2
  <2>4. QED
    BY <2>2, <2>3
<1>8. Pending' = {c \in tree.calls : c[1][2] > it \/ (c[1][2] = it /\ c[2] >= uit')}
  BY DEF Pending
<1>9. Pending' = Pending \ {C}
  BY <1>7, <1>8 DEF Pending
<1>10. QED
  BY <1>3, <1>9

\* Every step of the loops is a step of Linking, or leaves its state alone.
LEMMA StepLinks ==
  ASSUME CleanInv, [Next]_vars
  PROVE  [L!Next]_(L!vars)
<1>1. it \in Nat /\ uit \in Nat /\ End \in Nat
  BY TreeAssumption DEF CleanInv, LoopInv, TypeOK, End
<1>2. \A c \in tree.calls : c[1][2] \in FnNames /\ c[2] \in FnNames
  BY CallerMapped
<1>3. ASSUME UNCHANGED <<tree, credits>>, Pending' = Pending PROVE [L!Next]_(L!vars)
  BY <1>3 DEF L!vars
<1>4. CASE BuildMap
  <2>1. DOMAIN AllFunctionMap \subseteq FnNames
    BY MapSound DEF CleanInv, LoopInv, TypeOK
  <2>2. \A n \in DOMAIN AllFunctionMap : n >= 1 => it' <= n
    BY <1>4, <2>1, FromLeast DEF BuildMap
  <2>3. it = 0 /\ uit = 0 /\ uit' = 0 /\ it' \in Nat /\ tree' = tree
    BY <1>1, <1>4, <2>1, FromLeast DEF BuildMap, CleanInv, LoopInv, IteratorInv
  <2>4. ASSUME NEW c \in tree.calls
        PROVE  /\ c[1][2] > it \/ (c[1][2] = it /\ c[2] >= uit)
               /\ c[1][2] > it' \/ (c[1][2] = it' /\ c[2] >= uit')
    <3>1. c[1][2] \in DOMAIN AllFunctionMap /\ c[1][2] \in FnNames /\ c[2] \in FnNames
      BY CallerMapped
    <3>2. it' <= c[1][2]
      BY <2>2, <3>1 DEF FnNames
    <3>3. QED
      BY <2>3, <3>1, <3>2 DEF FnNames
  <2>5. Pending' = Pending
    BY <2>3, <2>4 DEF Pending
  <2>6. QED
    BY <1>3, <1>4, <2>5 DEF BuildMap
<1>5. CASE BeginCaller
  <2>1. /\ uit = 0 /\ it' = it /\ tree' = tree
        /\ uit' = From(Unresolved(Unit(it)), 1)
    BY <1>5 DEF BeginCaller, CleanInv, LoopInv, IteratorInv
  <2>2. Unresolved(Unit(it)) \subseteq FnNames
    BY DEF Unresolved
  <2>3. uit' \in Nat /\ \A n \in Unresolved(Unit(it)) : n >= 1 => uit' <= n
    BY <1>1, <2>1, <2>2, FromLeast
  <2>4. ASSUME NEW c \in tree.calls, c[1][2] = it PROVE c[2] >= uit /\ c[2] >= uit'
    <3>1. c[2] \in Unresolved(Unit(it)) /\ c[2] \in FnNames
      BY <1>5, <2>4, CallerMapped DEF BeginCaller
    <3>2. QED
      BY <2>1, <2>3, <3>1 DEF FnNames
  <2>5. Pending' = Pending
    BY <2>1, <2>4 DEF Pending
  <2>6. QED
    BY <1>3, <1>5, <2>5 DEF BeginCaller
<1>6. CASE EndCaller
  <2>1. uit = End /\ uit' = 0 /\ tree' = tree /\ it' = Advance(it) /\ mapping = AllFunctionMap
    BY <1>6 DEF EndCaller, CleanInv, LoopInv, TypeOK
  <2>2. DOMAIN mapping \subseteq FnNames
    BY <2>1, MapSound DEF CleanInv, LoopInv, TypeOK
  <2>3. /\ it' \in Nat /\ (it' = End \/ it' >= it + 1)
        /\ \A n \in DOMAIN mapping : n >= it + 1 => it' <= n
    BY <1>1, <2>1, <2>2, FromLeast DEF Advance
  <2>4. it + 1 <= End
    <3>1. it \in FnNames
      BY <1>6, <2>2 DEF EndCaller, CleanInv, LoopInv, IteratorInv
    <3>2. QED
      BY <3>1, TreeAssumption DEF FnNames, End
  <2>5. ASSUME NEW c \in tree.calls
        PROVE  (c[1][2] > it \/ (c[1][2] = it /\ c[2] >= uit))
                 <=> (c[1][2] > it' \/ (c[1][2] = it' /\ c[2] >= uit'))
    <3>1. c[1][2] \in DOMAIN mapping /\ c[1][2] \in FnNames /\ c[2] \in FnNames
      BY <1>6, CallerMapped DEF EndCaller
    <3>2. c[1][2] \in Nat /\ c[2] \in Nat /\ c[2] < End
      BY <3>1, TreeAssumption DEF FnNames, End
    <3>3. c[1][2] >= it + 1 => it' <= c[1][2]
      BY <2>3, <3>1
    <3>4. QED
      BY <1>1, <2>1, <2>3, <2>4, <3>2, <3>3
  <2>6. Pending' = {c \in tree.calls : c[1][2] > it' \/ (c[1][2] = it' /\ c[2] >= uit')}
    BY <2>1 DEF Pending
  <2>7. Pending' = Pending
    BY <2>5, <2>6 DEF Pending
  <2>8. QED
    BY <1>3, <1>6, <2>7 DEF EndCaller
<1>7. CASE Credit
  <2>1. fns = uit /\ Unit(fns) \in tree.external
    BY <1>7, FoundIsExternal DEF Credit
  <2>2. <<Unit(it), uit>> \in Pending /\ Pending' = Pending \ {<<Unit(it), uit>>}
    BY <1>7, NextCalleeTakesOne DEF Credit, Leave
  <2>3. Unit(fns) \in L!Targets(uit)
    BY <2>1 DEF L!Targets, Unit
  <2>4. L!Resolve(<<Unit(it), uit>>)
    BY <1>7, <2>2, <2>3 DEF Credit, L!Resolve
  <2>5. QED
    BY <2>2, <2>4 DEF L!Next
<1>8. CASE GiveUp
  <2>1. <<Unit(it), uit>> \in Pending /\ Pending' = Pending \ {<<Unit(it), uit>>}
    BY <1>8, NextCalleeTakesOne DEF GiveUp
  <2>2. uit \notin DOMAIN mapping /\ mapping = AllFunctionMap
    BY <1>8 DEF GiveUp, CleanInv, LoopInv, TypeOK, IteratorInv, Find
  <2>3. \A u \in tree.fns : u[2] # uit
    BY <2>2, MapSound DEF CleanInv, LoopInv, TypeOK
  <2>4. L!Targets(uit) = {}
    BY <2>3 DEF L!Targets, CleanInv, LoopInv, TypeOK
  <2>5. L!Resolve(<<Unit(it), uit>>)
    BY <1>8, <2>1, <2>4 DEF GiveUp, L!Resolve
  <2>6. QED
    BY <2>1, <2>5 DEF L!Next
<1>9. CASE Skip
  BY <1>9, FoundIsExternal DEF Skip, hasExternalLinkage
<1>10. CASE Finish \/ BeginCallee \/ Done \/ UNCHANGED vars
  <2>1. UNCHANGED <<tree, credits, it, uit>>
    BY <1>10 DEF Finish, BeginCallee, Done, vars
  <2>2. QED
    BY <1>3, <2>1 DEF Pending
<1>11. QED
  BY <1>4, <1>5, <1>6, <1>7, <1>8, <1>9, <1>10 DEF Next

\* On clean trees resolveLinkages() implements Linking: it looks at every call once
\* and counts it for the function it names.
THEOREM Refinement == Spec => Linked
<1> DEFINE Inv == LoopInv /\ (Clean(tree) => CleanInv)
<1>1. Init => Inv
  <2>1. Init => LoopInv /\ pc # "probe"
    BY LoopInit DEF Init
  <2>2. QED
    BY <2>1 DEF CleanInv
<1>2. Init => (Clean(tree) => L!Init)
  <2>1. ASSUME Init, Clean(tree) PROVE Pending = tree.calls
    <3>1. /\ it = 0 /\ uit = 0 /\ CleanInv
      BY <1>1, <2>1 DEF Init
    <3>2. \A c \in tree.calls : c[1][2] \in FnNames
      BY <3>1, CallerMapped
    <3>3. QED
      BY <3>1, <3>2 DEF Pending, FnNames
  <2>2. QED
    BY <2>1 DEF Init, L!Init
<1>3. Inv /\ [Next]_vars => Inv'
  <2>1. [Next]_vars => tree' = tree
    BY DEF Next, vars, BuildMap, BeginCaller, Finish, BeginCallee, EndCaller, Credit, Skip,
           GiveUp, Done
  <2>2. [Next]_vars => (Clean(tree)' <=> Clean(tree))
    BY <2>1 DEF Clean
  <2>3. QED
    BY <2>2, LoopStep, CleanStep
<1>4. Inv /\ [Next]_vars => [Clean(tree) => L!Next]_(L!vars)
  BY StepLinks
<1>5. QED
  BY <1>1, <1>2, <1>3, <1>4, PTL DEF Spec, Linked
-----------------------------------------------------------------------------
(* The end of the loops.                                                   *)
(* How many steps the loops can still take: so many for each name that     *)
(* may be a caller, and of these so many for each name that may be called. *)

PerCallee == End + 2
PerCaller == End * PerCallee + 2

StepsLeft ==
  CASE pc = "map" -> End * PerCaller + 2
    [] pc = "caller" -> (End - it) * PerCaller + 1
    [] pc = "callee" -> (End - it - 1) * PerCaller + (End - uit) * PerCallee + 2
    [] pc = "probe" -> (End - it - 1) * PerCaller + (End - uit - 1) * PerCallee
                         + (End - fns) + 3
    [] pc = "done" -> 0

\* A name less, or more than one, is so many steps less.
LEMMA Fewer ==
  ASSUME NEW k \in Nat, NEW a \in Nat, NEW b \in Nat, b < a
  PROVE  a * k \in Nat /\ b * k \in Nat /\ a * k >= b * k + k
<1>1. PICK d \in Nat : a = (b + 1) + d
  <2>1. a - (b + 1) \in Nat /\ a = (b + 1) + (a - (b + 1))
    OBVIOUS
  <2>2. QED
    BY <2>1
<1>2. a * k = (b * k + k) + d * k
  BY <1>1
<1>3. d * k \in Nat /\ b * k \in Nat
  OBVIOUS
<1>4. QED
  BY <1>2, <1>3

LEMMA Remaining ==
  ASSUME NEW e \in Nat, NEW a \in Nat, a <= e
  PROVE  /\ e - a \in Nat /\ e - a <= e
         /\ a < e => e - a - 1 \in Nat /\ e - a - 1 < e - a /\ (e - a - 1) + 1 = e - a
OBVIOUS

LEMMA FewerRemaining ==
  ASSUME NEW e \in Nat, NEW a \in Nat, NEW b \in Nat, b <= e, a + 1 <= b
  PROVE  /\ e - a - 1 \in Nat /\ e - b \in Nat /\ e - b <= e - a - 1
         /\ e - a \in Nat /\ (e - b) + 1 <= e - a
OBVIOUS

LEMMA PerNumbers == End \in Nat /\ PerCallee \in Nat /\ PerCaller \in Nat
<1>1. End \in Nat /\ PerCallee \in Nat
  BY TreeAssumption DEF End, PerCallee
<1>2. End * PerCallee \in Nat
  BY <1>1
<1>3. QED
  BY <1>1, <1>2 DEF PerCaller

LEMMA StepsLeftType ==
  ASSUME LoopInv
  PROVE  StepsLeft \in Nat /\ (pc = "done" <=> StepsLeft = 0)
<1> DEFINE C == PerCaller
           M == PerCallee
<1>1. End \in Nat /\ C \in Nat /\ M \in Nat
  BY PerNumbers
<1>2. /\ it \in 0 .. End /\ uit \in 0 .. End /\ fns \in 0 .. End
      /\ pc \in {"map", "caller", "callee", "probe", "done"}
  BY DEF LoopInv, TypeOK
<1>3. pc \in {"callee", "probe"} => it < End
  <2>1. mapping = AllFunctionMap => DOMAIN mapping \subseteq FnNames
    BY MapSound DEF LoopInv, TypeOK
  <2>2. \A n \in FnNames : n < End
    BY TreeAssumption DEF FnNames, End
  <2>3. QED
    BY <2>1, <2>2 DEF LoopInv, TypeOK, IteratorInv
<1>4. pc = "probe" => uit < End
  BY <1>1, <1>2 DEF LoopInv, IteratorInv
<1> DEFINE Product(a, b) == a * b
<1>5. \A a, b \in Nat : Product(a, b) \in Nat
  OBVIOUS
<1> HIDE DEF C, M, Product
<1>6. CASE pc = "map"
  <2>1. StepsLeft = Product(End, C) + 2
    BY <1>6 DEF StepsLeft, Product, C
  <2>2. PICK x \in Nat : x = Product(End, C)
    BY <1>1, <1>5
  <2>3. QED
    BY <1>6, <2>1, <2>2
<1>7. CASE pc = "caller"
  <2>1. StepsLeft = Product(End - it, C) + 1
    BY <1>7 DEF StepsLeft, Product, C
  <2>2. End - it \in Nat
    BY <1>1, <1>2
  <2>3. PICK x \in Nat : x = Product(End - it, C)
    BY <1>1, <1>5, <2>2
  <2>4. QED
    BY <1>7, <2>1, <2>3
<1>8. CASE pc = "callee"
  <2>1. StepsLeft = Product(End - it - 1, C) + Product(End - uit, M) + 2
    BY <1>8 DEF StepsLeft, Product, C, M
  <2>2. End - it - 1 \in Nat /\ End - uit \in Nat
    BY <1>1, <1>2, <1>3, <1>8
  <2>3. PICK x \in Nat, y \in Nat : x = Product(End - it - 1, C) /\ y = Product(End - uit, M)
    BY <1>1, <1>5, <2>2
  <2>4. StepsLeft = x + y + 2
    BY <2>1, <2>3
  <2>5. QED
    BY <1>8, <2>3, <2>4
<1>9. CASE pc = "probe"
  <2>1. StepsLeft = Product(End - it - 1, C) + Product(End - uit - 1, M) + (End - fns) + 3
    BY <1>9 DEF StepsLeft, Product, C, M
  <2>2. End - it - 1 \in Nat /\ End - uit - 1 \in Nat /\ End - fns \in Nat
    BY <1>1, <1>2, <1>3, <1>4, <1>9
  <2>3. PICK x \in Nat, y \in Nat, z \in Nat :
          /\ x = Product(End - it - 1, C) /\ y = Product(End - uit - 1, M) /\ z = End - fns
    BY <1>1, <1>5, <2>2
  <2>4. StepsLeft = x + y + z + 3
    BY <2>1, <2>3
  <2>5. QED
    BY <1>9, <2>3, <2>4
<1>10. CASE pc = "done"
  BY <1>10 DEF StepsLeft
<1>11. QED
  BY <1>2, <1>6, <1>7, <1>8, <1>9, <1>10
LEMMA NoMore ==
  ASSUME NEW k \in Nat, NEW a \in Nat, NEW b \in Nat, b <= a
  PROVE  a * k \in Nat /\ b * k \in Nat /\ b * k <= a * k
<1>1. CASE a = b
  BY <1>1
<1>2. CASE b < a
  BY <1>2, Fewer
<1>3. QED
  BY <1>1, <1>2

\* Every step of the loops is one step less to take.
LEMMA StepShortens ==
  ASSUME LoopInv, Next, pc # "done"
  PROVE  StepsLeft' < StepsLeft
<1>1. End \in Nat /\ PerCaller \in Nat /\ PerCallee \in Nat
  BY PerNumbers
<1>2. /\ it \in Nat /\ uit \in Nat /\ fns \in Nat
      /\ it' \in Nat /\ uit' \in Nat /\ fns' \in Nat
      /\ it <= End /\ uit <= End /\ fns <= End /\ it' <= End /\ uit' <= End /\ fns' <= End
  <2>1. TypeOK' /\ TypeOK
    BY LoopStep DEF LoopInv
  <2>2. /\ it \in 0 .. End /\ uit \in 0 .. End /\ fns \in 0 .. End
        /\ it' \in 0 .. End /\ uit' \in 0 .. End /\ fns' \in 0 .. End
    BY <2>1 DEF TypeOK, End
  <2>3. QED
    BY <1>1, <2>2
<1>0. pc = "map" \/ mapping = AllFunctionMap
  BY DEF LoopInv, TypeOK
<1>3. /\ DOMAIN AllFunctionMap \subseteq FnNames /\ \A u : Unresolved(u) \subseteq FnNames
      /\ \A n \in FnNames : n \in Nat /\ 1 <= n /\ n < End
  BY MapSound, TreeAssumption DEF LoopInv, TypeOK, Unresolved, FnNames, End
<1>4. pc \in {"callee", "probe"} => it < End
  BY <1>0, <1>3 DEF LoopInv, IteratorInv
<1>5. pc = "probe" => uit \in FnNames /\ uit < End
  BY <1>3 DEF LoopInv, IteratorInv
<1>6. CASE BuildMap
  <2>1. it' \in DOMAIN AllFunctionMap \cup {End}
    BY <1>3, <1>6, FromLeast DEF BuildMap
  <2>2. it' >= 1 /\ End >= 1
    BY <1>3, <2>1, TreeAssumption DEF End
  <2>3. StepsLeft = End * PerCaller + 2 /\ StepsLeft' = (End - it') * PerCaller + 1
    BY <1>6 DEF BuildMap, StepsLeft, PerCaller, PerCallee
  <2>4. End - it' \in Nat /\ End - it' <= End
    BY <1>1, <1>2, Remaining
  <2>5. PICK x \in Nat, y \in Nat : x = End * PerCaller /\ y = (End - it') * PerCaller /\ y <= x
    BY <1>1, <2>4, NoMore
  <2>6. QED
    BY <2>3, <2>5
<1>7. CASE BeginCaller
  <2>1. uit' \in FnNames \cup {End}
    BY <1>3, <1>7, FromLeast DEF BeginCaller
  <2>2. it < End /\ uit' >= 1
    BY <1>1, <1>2, <1>3, <1>7, <2>1, TreeAssumption DEF BeginCaller, End
  <2>3. /\ StepsLeft = (End - it) * PerCaller + 1
        /\ StepsLeft' = (End - it - 1) * PerCaller + (End - uit') * PerCallee + 2
    BY <1>7 DEF BeginCaller, StepsLeft, PerCaller, PerCallee
  <2>4. /\ End - it \in Nat /\ End - it - 1 \in Nat /\ End - it - 1 < End - it
        /\ End - uit' \in Nat /\ End - uit' <= End
    BY <1>1, <1>2, <2>2, Remaining
  <2>5. PICK x \in Nat, y \in Nat : /\ x = (End - it) * PerCaller
                                    /\ y = (End - it - 1) * PerCaller /\ x >= y + PerCaller
    BY <1>1, <2>4, Fewer
  <2>6. PICK u \in Nat, v \in Nat : u = End * PerCallee /\ v = (End - uit') * PerCallee /\ v <= u
    BY <1>1, <2>4, NoMore
  <2>7. PerCaller = u + 2
    BY <2>6 DEF PerCaller
  <2>8. QED
    BY <2>3, <2>5, <2>6, <2>7
<1>8. CASE Finish
  <2>1. StepsLeft \in Nat /\ StepsLeft # 0 /\ StepsLeft' = 0
    BY <1>8, StepsLeftType DEF Finish, StepsLeft
  <2>2. QED
    BY <2>1
<1>9. CASE BeginCallee
  <2>1. uit < End /\ it < End
    BY <1>1, <1>2, <1>4, <1>9 DEF BeginCallee
  <2>2. /\ StepsLeft = (End - it - 1) * PerCaller + (End - uit) * PerCallee + 2
        /\ StepsLeft' = (End - it - 1) * PerCaller + (End - uit - 1) * PerCallee
                          + (End - fns') + 3
    BY <1>9 DEF BeginCallee, StepsLeft, PerCaller, PerCallee
  <2>3. /\ End - it - 1 \in Nat
        /\ End - uit \in Nat /\ End - uit - 1 \in Nat /\ End - uit - 1 < End - uit
    BY <1>1, <1>2, <2>1, Remaining
  <2>4. PICK x \in Nat : x = (End - it - 1) * PerCaller
    BY <1>1, <2>3, NoMore
  <2>5. PICK u \in Nat, v \in Nat : /\ u = (End - uit) * PerCallee
                                    /\ v = (End - uit - 1) * PerCallee /\ u >= v + PerCallee
    BY <1>1, <2>3, Fewer
  <2>6. PICK m \in Nat, n \in Nat : m = PerCallee /\ n = End - fns' /\ m >= n + 2
    <3>1. PICK e \in Nat : e = End
      BY <1>1
    <3>2. e - fns' \in Nat /\ e - fns' <= e /\ PerCallee = e + 2
      BY <1>2, <3>1, Remaining DEF PerCallee
    <3>3. PICK n \in Nat : n = e - fns' /\ n <= e
      BY <3>2
    <3>4. n = End - fns' /\ PerCallee \in Nat /\ PerCallee >= n + 2
      BY <1>1, <3>1, <3>2, <3>3
    <3>5. QED
      BY <3>4
  <2>7. StepsLeft = x + u + 2 /\ StepsLeft' = x + v + n + 3 /\ u >= v + m
    BY <2>2, <2>4, <2>5, <2>6
  <2>8. QED
    BY <2>6, <2>7
<1>10. CASE EndCaller
  <2>1. it \in FnNames /\ it < End /\ DOMAIN mapping \subseteq FnNames
    BY <1>0, <1>3, <1>4, <1>10 DEF EndCaller, LoopInv, IteratorInv
  <2>2. it' = From(DOMAIN mapping, it + 1) /\ it + 1 \in Nat
    BY <1>2, <1>10 DEF EndCaller, Advance
  <2>3. it' >= it + 1
    BY <1>1, <1>2, <2>1, <2>2, FromLeast
  <2>4. /\ StepsLeft = (End - it - 1) * PerCaller + (End - End) * PerCallee + 2
        /\ StepsLeft' = (End - it') * PerCaller + 1
    BY <1>10 DEF EndCaller, StepsLeft, PerCaller, PerCallee
  <2>5. End - it - 1 \in Nat /\ End - it' \in Nat /\ End - it' <= End - it - 1
    <3>1. it' <= End /\ it + 1 <= it'
      BY <1>2, <2>3
    <3>2. QED
      BY <1>1, <1>2, <3>1, FewerRemaining
  <2>6. PICK x \in Nat, y \in Nat : /\ x = (End - it - 1) * PerCaller
                                    /\ y = (End - it') * PerCaller /\ y <= x
    BY <1>1, <2>5, NoMore
  <2>7. (End - End) * PerCallee \in Nat
    BY <1>1
  <2>8. QED
    BY <2>4, <2>6, <2>7
<1>11. CASE Credit \/ GiveUp
  <2>1. pc = "probe" /\ pc' = "callee" /\ NextCallee /\ UNCHANGED it
    BY <1>11 DEF Credit, GiveUp, Leave, NextCallee
  <2>2. uit' >= uit + 1 /\ uit < End /\ it < End
    BY <1>4, <1>5, <2>1, LoopsGoOn
  <2>3. /\ StepsLeft = (End - it - 1) * PerCaller + (End - uit - 1) * PerCallee
                         + (End - fns) + 3
        /\ StepsLeft' = (End - it - 1) * PerCaller + (End - uit') * PerCallee + 2
    BY <2>1 DEF StepsLeft, PerCaller, PerCallee
  <2>4. /\ End - it - 1 \in Nat /\ End - uit - 1 \in Nat /\ End - uit' \in Nat
        /\ End - uit' <= End - uit - 1
    <3>1. End - it - 1 \in Nat
      BY <1>1, <1>2, <2>2, Remaining
    <3>2. uit' <= End /\ uit + 1 <= uit'
      BY <1>2, <2>2
    <3>3. QED
      BY <1>1, <1>2, <3>1, <3>2, FewerRemaining
  <2>5. PICK x \in Nat : x = (End - it - 1) * PerCaller
    BY <1>1, <2>4, NoMore
  <2>6. PICK u \in Nat, v \in Nat : /\ u = (End - uit - 1) * PerCallee
                                    /\ v = (End - uit') * PerCallee /\ v <= u
    BY <1>1, <2>4, NoMore
  <2>7. PICK n \in Nat : n = End - fns
    BY <1>1, <1>2, Remaining
  <2>8. StepsLeft = x + u + n + 3 /\ StepsLeft' = x + v + 2
    BY <2>3, <2>5, <2>6, <2>7
  <2>9. QED
    BY <2>6, <2>8
<1>12. CASE Skip
  <2>1. /\ pc = "probe" /\ pc' = "probe" /\ UNCHANGED <<it, uit>> /\ fns # End
        /\ fns' = From(DOMAIN mapping, fns + 1) /\ mapping = AllFunctionMap
    BY <1>0, <1>12 DEF Skip, Advance
  <2>2. fns + 1 \in Nat /\ DOMAIN mapping \subseteq FnNames /\ End >= fns + 1
    BY <1>1, <1>2, <1>3, <2>1
  <2>3. fns' >= fns + 1
    BY <2>1, <2>2, FromLeast
  <2>4. it < End /\ uit < End
    BY <1>4, <1>5, <2>1
  <2>5. /\ StepsLeft = (End - it - 1) * PerCaller + (End - uit - 1) * PerCallee
                         + (End - fns) + 3
        /\ StepsLeft' = (End - it - 1) * PerCaller + (End - uit - 1) * PerCallee
                         + (End - fns') + 3
    BY <2>1 DEF StepsLeft, PerCaller, PerCallee
  <2>6. End - it - 1 \in Nat /\ End - uit - 1 \in Nat
    BY <1>1, <1>2, <2>4
  <2>7. PICK x \in Nat, u \in Nat : /\ x = (End - it - 1) * PerCaller
                                    /\ u = (End - uit - 1) * PerCallee
    BY <1>1, <2>6, NoMore
  <2>8. PICK m \in Nat, n \in Nat : m = End - fns /\ n = End - fns' /\ n + 1 <= m
    <3>1. fns' <= End /\ fns + 1 <= fns'
      BY <1>2, <2>3
    <3>2. End - fns \in Nat /\ End - fns' \in Nat /\ (End - fns') + 1 <= End - fns
      BY <1>1, <1>2, <3>1, FewerRemaining
    <3>3. QED
      BY <3>2
  <2>9. StepsLeft = x + u + m + 3 /\ StepsLeft' = x + u + n + 3
    BY <2>5, <2>7, <2>8
  <2>10. QED
    BY <2>8, <2>9
<1>13. QED
  BY <1>6, <1>7, <1>8, <1>9, <1>10, <1>11, <1>12 DEF Next, Done

\* The loops end: there is a number of steps left, at first the same for all trees
\* with that many names, and each step but the stuttering at the end lowers it.  A search
\* that runs past the name looked for or an iterator left behind cannot make them circle.
\* (With the fairness of FairSpec this is Terminates; resolveLinkages(),
\* src/src/MetricLinkageResolver.cpp.)
THEOREM LoopsShorten ==
  Spec => /\ StepsLeft = End * PerCaller + 2
          /\ [](StepsLeft \in Nat /\ (pc = "done" <=> StepsLeft = 0))
          /\ [][pc # "done" => StepsLeft' < StepsLeft]_vars
<1>1. LoopInv /\ [Next]_vars => LoopInv'
  BY LoopStep
<1>2. LoopInv => StepsLeft \in Nat /\ (pc = "done" <=> StepsLeft = 0)
  BY StepsLeftType
<1>3. LoopInv /\ [Next]_vars => [pc # "done" => StepsLeft' < StepsLeft]_vars
  BY StepShortens
<1>4. Init => StepsLeft = End * PerCaller + 2
  BY DEF Init, StepsLeft
<1>5. QED
  BY <1>1, <1>2, <1>3, <1>4, LoopInit, PTL DEF Spec
=============================================================================
