--------------------------- MODULE AstPassProofs ---------------------------
(***************************************************************************)
(* The gate of IncrementMetric(), the resolution of def files and the      *)
(* exclusions work for every set of programs, every choice of options and  *)
(* every construct: once a file is processed, what increment() charged to  *)
(* its single-pass metrics stands, what is excluded never gets a unit, and *)
(* the walk charges nothing to a def file.  For any program without the    *)
(* constructs that AstPass names, the counters are those of its nodes and  *)
(* calls.                                                                  *)
(***************************************************************************)
EXTENDS AstPass, FiniteSetTheorems, WellFoundedInduction, TLAPS

Counters == counter \in [Units -> [Metrics -> Nat]]

\* The gate tests the current file while the count goes to the current unit, so
\* the proof needs that the two belong together.
GateInv == Counters /\ UnitInCurrentFile

\* What one step must not do.
Frozen ==
  \A u \in Units, m \in Metrics \ MultiPass :
    u.file \in processed => counter'[u][m] = counter[u][m]

\* Everything in S that is subject to the gate belongs to file f, the one it tests.
Home(f, S) == \A x \in S : x[2] \notin MultiPass => x[1].file = f

\* A charge keeps the counters natural numbers, and none of a processed file's
\* single-pass metrics changes if all of them belong to the file that is tested.
LEMMA TallyKeeps ==
  ASSUME NEW f, NEW S, NEW T, Counters, Tally(f, S, T)
  PROVE  Counters' /\ (Home(f, S) => Frozen)
<1>1. counter' = Bump(counter, {x \in S : Admits(f, x[2])})
  BY DEF Tally
<1>2. \A u \in Units, m \in Metrics : counter[u][m] \in Nat
  BY DEF Counters
<1>3. Counters'
  BY <1>1, <1>2 DEF Counters, Bump
<1>4. ASSUME Home(f, S), NEW u \in Units, NEW m \in Metrics \ MultiPass, u.file \in processed
      PROVE  counter'[u][m] = counter[u][m]
  <2>1. <<u, m>> \notin {x \in S : Admits(f, x[2])}
    BY <1>4 DEF Home, Admits
  <2> DEFINE hit == ~ \A x \in {y \in S : Admits(f, y[2])} : x[1] # u
  <2>2. counter'[u] = IF hit THEN [n \in Metrics |-> counter[u][n] +
                                    (IF <<u, n>> \in {x \in S : Admits(f, x[2])} THEN 1 ELSE 0)]
                      ELSE counter[u]
    BY <1>1 DEF Bump
  <2> HIDE DEF hit
  <2>3. hit => counter'[u][m] = counter[u][m] + 0
    BY <2>1, <2>2
  <2>4. QED
    BY <1>2, <2>2, <2>3
<1>5. QED
  BY <1>3, <1>4 DEF Frozen

\* Charging a unit of file f charges file f.
LEMMA ChargesHome ==
  ASSUME NEW u, NEW f, NEW ms, u # NoUnit => u.file = f
  PROVE  Home(f, Charges(u, ms))
BY DEF Home, Charges

\* A top-level declaration leaves the visitor in the unit of its file.
LEMMA MoveKeeps ==
  ASSUME NEW p, CloseAndMoveTo(p)
  PROVE  UnitInCurrentFile' /\ (UnitAt(p) # NoUnit => UnitAt(p).file = DefResolved(p))
BY DEF CloseAndMoveTo, UnitInCurrentFile, UnitAt, FileUnit

\* Both kinds of declaration, and the nodes within one, keep the invariant and
\* leave processed files alone.
LEMMA TopLevelKeeps ==
  ASSUME NEW p, NEW ms, GateInv, TopLevel(p, ms)
  PROVE  GateInv' /\ Frozen
BY MoveKeeps, TallyKeeps, ChargesHome DEF GateInv, TopLevel

LEMMA WithinKeeps ==
  ASSUME NEW ms, NEW T, GateInv, Within(ms, T)
  PROVE  GateInv' /\ Frozen
<1>1. UnitInCurrentFile'
  BY DEF GateInv, Within, Stay, visitor, UnitInCurrentFile
<1>2. Home(curFile, Charges(curUnit, ms))
  BY ChargesHome DEF GateInv, UnitInCurrentFile
<1>3. QED
  BY <1>1, <1>2, TallyKeeps DEF GateInv, Within

LEMMA StillKeeps ==
  ASSUME GateInv, UNCHANGED <<counter, visitor, units>>
  PROVE  GateInv' /\ Frozen
BY DEF GateInv, Counters, UnitInCurrentFile, Frozen, visitor

\* Every step keeps the invariant and leaves processed files alone.
LEMMA StepKeeps ==
  ASSUME GateInv, [Next]_vars
  PROVE  GateInv' /\ Frozen
<1>1. ASSUME NEW t \in TUs, StartTU(t) PROVE GateInv' /\ Frozen
  BY <1>1 DEF StartTU, GateInv, Counters, UnitInCurrentFile, Frozen
<1>2. CASE EndTU
  BY <1>2 DEF EndTU, GateInv, Counters, UnitInCurrentFile, Frozen
<1>3. ASSUME NEW g \in FnNames, VisitFunctionDefinition(g) PROVE GateInv' /\ Frozen
  <2> DEFINE d == ast.body[g]
             f == DefResolved(d.path)
             included == ShouldIncludeFile(f) /\ ShouldIncludeFunction(g)
             unit == IF included THEN FunctionUnit(f, g) ELSE NoUnit
             ofFile == {"FUNCTIONS"} \cup (IF d.inline THEN {"INLINE_FUNCTIONS"} ELSE {})
                                     \cup (IF d.static THEN {"LOCAL_FUNCTIONS"} ELSE {})
             ofUnit == IF d.returns THEN {"RETURNPOINTS"} ELSE {}
             charged == IF ~ included THEN {}
                        ELSE Charges(FileUnit(f), ofFile) \cup Charges(unit, ofUnit)
  <2>1. /\ curFile' = f /\ curUnit' = unit
        /\ units' = units \cup (IF included THEN {FileUnit(f), unit} ELSE {})
        /\ Tally(f, charged, charged)
    BY <1>3 DEF VisitFunctionDefinition
  <2>2. FileUnit(f).file = f /\ (unit # NoUnit => unit.file = f)
    BY DEF FileUnit, FunctionUnit
  <2> HIDE DEF f, ofFile, ofUnit
  <2>3. Home(f, Charges(FileUnit(f), ofFile)) /\ Home(f, Charges(unit, ofUnit))
    BY <2>2, ChargesHome
  <2>4. Home(f, charged)
    BY <2>3 DEF Home
  <2>5. UnitInCurrentFile'
    BY <2>1, <2>2 DEF UnitInCurrentFile
  <2>6. QED
    BY <2>1, <2>4, <2>5, TallyKeeps DEF GateInv
<1>4. ASSUME NEW p \in Locations, NEW extern \in BOOLEAN, VisitPrototype(p, extern) PROVE GateInv' /\ Frozen
  BY <1>4, TopLevelKeeps, WithinKeeps DEF VisitPrototype
<1>5. ASSUME NEW p \in Locations, NEW init \in BOOLEAN, VisitVarDecl(p, init)
      PROVE  GateInv' /\ Frozen
  BY <1>5, TopLevelKeeps, WithinKeeps DEF VisitVarDecl
<1>6. ASSUME NEW mine \in BOOLEAN, VisitParmVarDecl(mine) PROVE GateInv' /\ Frozen
  <2> DEFINE owner == ParameterOwner(curUnit, curFile)
  <2>1. PICK T : Tally(curFile, Charges(owner, {"FUNCTION_PARAMETERS"}), T)
    BY <1>6 DEF VisitParmVarDecl
  <2>2. owner # NoUnit => owner.file = curFile
    BY DEF GateInv, UnitInCurrentFile, ParameterOwner, FileUnit
  <2>3. UnitInCurrentFile'
    BY <1>6 DEF VisitParmVarDecl, Stay, visitor, GateInv, UnitInCurrentFile
  <2> HIDE DEF owner
  <2>4. QED
    BY <2>1, <2>2, <2>3, ChargesHome, TallyKeeps DEF GateInv
<1>7. ASSUME NEW p \in Locations, VisitStrayParameter(p) PROVE GateInv' /\ Frozen
  <2>1. PICK T : Tally(DefResolved(p), Charges(UnitAt(p), {"FUNCTION_PARAMETERS"}), T)
    BY <1>7 DEF VisitStrayParameter
  <2>2. UnitInCurrentFile' /\ (UnitAt(p) # NoUnit => UnitAt(p).file = DefResolved(p))
    BY <1>7, MoveKeeps DEF VisitStrayParameter
  <2>3. QED
    BY <2>1, <2>2, ChargesHome, TallyKeeps DEF GateInv
<1>8. ASSUME NEW p \in Locations, VisitTypeDecl(p) PROVE GateInv' /\ Frozen
  BY <1>8, StillKeeps DEF VisitTypeDecl, Stay
<1>9. ASSUME NEW ms \in StatementCounts, VisitStatement(ms) PROVE GateInv' /\ Frozen
  BY <1>9, WithinKeeps DEF VisitStatement
<1>10. ASSUME NEW depth \in Depths, VisitControl(depth) PROVE GateInv' /\ Frozen
  BY <1>10, WithinKeeps DEF VisitControl
<1>11. ASSUME NEW g \in FnNames \cup {NoFn}, VisitCallExpr(g) PROVE GateInv' /\ Frozen
  <2> DEFINE home == DefResolved(ast.body[g].path)
             new == curUnit # NoUnit /\ NewName(g)
             credited == new /\ Visible(g) /\ ShouldIncludeFile(home) /\ ShouldIncludeFunction(g)
             credit == IF credited THEN {<<FunctionUnit(home, g), "CALLED_BY_LOCAL">>} ELSE {}
             counted == {"FUNCTION_CALLS"} \cup
                          (IF Visible(g) THEN {"LOCAL_FUNCTION_CALLS"} ELSE {})
             T == Charges(scope, {"FUNCTION_CALLS"})
  <2>1. Tally(curFile, Charges(curUnit, counted) \cup credit, T)
    BY <1>11 DEF VisitCallExpr
  <2>2. \A x \in credit : x[2] \in MultiPass
    BY DEF MultiPass
  <2> HIDE DEF credit, counted, T
  <2>3. Home(curFile, Charges(curUnit, counted))
    BY ChargesHome DEF GateInv, UnitInCurrentFile
  <2>4. Home(curFile, Charges(curUnit, counted) \cup credit)
    BY <2>2, <2>3 DEF Home
  <2>5. UnitInCurrentFile'
    BY <1>11 DEF VisitCallExpr, GateInv, UnitInCurrentFile
  <2>6. QED
    BY <2>1, <2>4, <2>5, TallyKeeps DEF GateInv
<1>12. CASE UNCHANGED vars
  BY <1>12, StillKeeps DEF vars
<1>13. QED
  BY <1>1, <1>2, <1>3, <1>4, <1>5, <1>6, <1>7, <1>8, <1>9, <1>10, <1>11, <1>12 DEF Next

LEMMA InitKeeps == Init => GateInv
BY DEF Init, GateInv, Counters, UnitInCurrentFile

\* The unit being charged always lies in the file whose "processed" flag is tested.
THEOREM GateMatchesUnit == Spec => []UnitInCurrentFile
<1>1. GateInv /\ [Next]_vars => GateInv'
  BY StepKeeps
<1>2. GateInv => UnitInCurrentFile
  BY DEF GateInv
<1>3. QED
  BY <1>1, <1>2, InitKeeps, PTL DEF Spec

\* After the translation unit that first reads a file, no later one changes what
\* increment() charged to a single-pass metric of the file or of its functions.
THEOREM ProcessedFilesFrozen == Spec => FrozenAfterProcessed
<1>1. GateInv /\ [Next]_vars => GateInv'
  BY StepKeeps
<1>2. GateInv /\ [Next]_vars => [\A u \in Units, m \in Metrics \ MultiPass :
        u.file \in processed => counter'[u][m] = counter[u][m]]_vars
  BY StepKeeps DEF Frozen
<1>3. QED
  BY <1>1, <1>2, InitKeeps, PTL DEF Spec, FrozenAfterProcessed
-----------------------------------------------------------------------------
(* Where a location leads. *)

\* Every nonempty set of positions has a least element.
LEMMA LeastPosition ==
  ASSUME NEW S \in SUBSET Nat, S # {}
  PROVE  Min(S) \in S
<1> DEFINE R == {ss \in Nat \X Nat : ss[1] < ss[2]}
<1>1. IsWellFoundedOn(R, Nat)
  BY NatLessThanWellFounded DEF OpToRel
<1>2. PICK x \in S : \A y \in S : ~ (<<y, x>> \in R)
  <2> HIDE DEF R
  <2>1. QED
    BY <1>1, WFMin
<1>3. ASSUME NEW y \in S PROVE x <= y
  <2>1. x \in Nat /\ y \in Nat
    OBVIOUS
  <2>2. y < x => <<y, x>> \in R
    BY <2>1
  <2>3. QED
    BY <1>2, <2>1, <2>2
<1>4. QED
  BY <1>3 DEF Min

\* A location resolves to a file of the program, to a def file only if that is the
\* main file.
LEMMA Resolution ==
  ASSUME NEW t \in TUs, NEW p \in t.paths
  PROVE  /\ DefResolved(p) \in Files /\ DefResolved(p) \in Range(p)
         /\ DefResolved(p) \in DefFiles => DefResolved(p) = t.main
<1> DEFINE S == {i \in DOMAIN p : p[i] \notin DefFiles} \cup {Len(p)}
<1>1. p \in Seq(Files) /\ p # <<>> /\ p[Len(p)] = t.main
  BY TUAssumption DEF Last
<1>2. S \subseteq 1 .. Len(p) /\ S # {}
  BY <1>1
<1>3. S \in SUBSET Nat
  BY <1>1, <1>2
<1>4. Min(S) \in S
  <2> HIDE DEF S
  <2>1. QED
    BY <1>2, <1>3, LeastPosition
<1>5. DefResolved(p) = p[Min(S)]
  BY DEF DefResolved
<1> DEFINE k == Min(S)
<1>6. k \in DOMAIN p /\ (p[k] \notin DefFiles \/ k = Len(p))
  BY <1>1, <1>2, <1>4
<1>7. DefResolved(p) = p[k]
  BY <1>5
<1> HIDE DEF k, S
<1>8. p[k] \in Files
  BY <1>1, <1>6
<1>9. p[k] \in DefFiles => p[k] = t.main
  BY <1>1, <1>6
<1>10. p[k] \in Range(p)
  BY <1>6 DEF Range
<1>11. QED
  BY <1>7, <1>8, <1>9, <1>10
-----------------------------------------------------------------------------
(* Who may be charged. *)

\* A def file that is no main file: what it holds belongs to the files that include it.
Foreign(f) == f \in DefFiles /\ \A t \in Range(program.tus) : f # t.main

\* May the unit u hold counts?
Own(u) == u.file \notin ExcludedFiles /\ u.fn \notin ExcludedFns /\ ~ Foreign(u.file)

\* The walk itself.
WalkInv ==
  /\ program \in Programs /\ tu \in 0 .. Len(program.tus)
  /\ ast \in Range(program.tus) \cup {NoTU}
  /\ processed \subseteq Files /\ visited \subseteq FnNames /\ nodes \in 0 .. MaxNodes

\* The visitor is in a unit that may hold counts, and it created no others, but for
\* the empty units of the def files a translation unit includes.
VisitorInv ==
  /\ curFile \in Files \cup {NoFile}
  /\ curUnit \in Units \cup {NoUnit} /\ (curUnit # NoUnit => Own(curUnit))
  /\ fnsCalled \subseteq FnNames /\ IsFiniteSet(fnsCalled)
  /\ different \in [Units -> Nat]
  /\ units \subseteq Units
  /\ \A u \in units : /\ u.file \notin ExcludedFiles /\ u.fn \notin ExcludedFns
                      /\ u.fn # NoFn => Own(u)

CounterInv ==
  /\ Counters
  /\ \A u \in Units, m \in Metrics : Foreign(u.file) => counter[u][m] = 0

OtherInv ==
  /\ external \subseteq Units /\ nesting \in [Units -> Nat] /\ byteCount \in [Units -> Nat]
  /\ unresolved \in [Units -> SUBSET FnNames] /\ scope \in Units \cup {NoUnit}

PlaceInv == WalkInv /\ VisitorInv /\ CounterInv /\ OtherInv

LEMMA PlaceImplies ==
  ASSUME PlaceInv
  PROVE  TypeOK
<1>1. Range(program.tus) \subseteq TUs
  BY DEF PlaceInv, WalkInv, TUs
<1>2. QED
  BY <1>1 DEF PlaceInv, WalkInv, VisitorInv, CounterInv, OtherInv, Counters, TypeOK

\* What a translation unit of the program is made of.
LEMMA UnitOfProgram ==
  ASSUME WalkInv, ast # NoTU
  PROVE  /\ ast \in TUs /\ Included(ast) \subseteq Files
         /\ \A p \in ast.paths : DefResolved(p) \in Files /\ ~ Foreign(DefResolved(p))
         /\ \A g \in DOMAIN ast.body : g \in FnNames /\ ast.body[g].path \in ast.paths
<1>1. ast \in TUs /\ ast \in Range(program.tus)
  BY DEF WalkInv, TUs
<1>2. Included(ast) \subseteq Files
  BY <1>1, TUAssumption DEF Included, Range
<1>3. \A p \in ast.paths : DefResolved(p) \in Files /\ ~ Foreign(DefResolved(p))
  BY <1>1, Resolution DEF Foreign
<1>4. QED
  BY <1>1, <1>2, <1>3, TUAssumption

\* Charging units that may hold counts keeps the counters in order.
LEMMA TallyPlaces ==
  ASSUME NEW f, NEW S, NEW T, CounterInv, Tally(f, S, T), UNCHANGED program,
         \A x \in S : x[1] \in Units => ~ Foreign(x[1].file)
  PROVE  CounterInv'
<1>1. Counters'
  BY TallyKeeps DEF CounterInv
<1>2. ASSUME NEW u \in Units, NEW m \in Metrics, Foreign(u.file)
      PROVE  counter'[u][m] = 0
  <2>1. counter' = Bump(counter, {x \in S : Admits(f, x[2])})
    BY DEF Tally
  <2>2. \A x \in {y \in S : Admits(f, y[2])} : x[1] # u
    BY <1>2
  <2>3. counter'[u] = counter[u]
    BY <2>1, <2>2 DEF Bump
  <2>4. QED
    BY <1>2, <2>3 DEF CounterInv
<1>3. \A g : Foreign(g)' <=> Foreign(g)
  BY DEF Foreign
<1>4. QED
  BY <1>1, <1>2, <1>3 DEF CounterInv

LEMMA ChargesPlace ==
  ASSUME NEW u, NEW ms, u # NoUnit => ~ Foreign(u.file)
  PROVE  \A x \in Charges(u, ms) : x[1] \in Units => ~ Foreign(x[1].file)
BY DEF Charges

\* Closing what came before and opening a top-level declaration.
LEMMA MovePlaces ==
  ASSUME NEW p, WalkInv, VisitorInv, ast # NoTU, p \in ast.paths, CloseAndMoveTo(p),
         UNCHANGED program
  PROVE  VisitorInv' /\ UnitAt(p) \in Units \cup {NoUnit}
         /\ (UnitAt(p) # NoUnit => ~ Foreign(UnitAt(p).file))
<1>1. DefResolved(p) \in Files /\ ~ Foreign(DefResolved(p))
  BY UnitOfProgram
<1>2. \A u : Own(u)' <=> Own(u)
  BY DEF Own, Foreign
<1>3. /\ UnitAt(p) \in Units \cup {NoUnit}
      /\ UnitAt(p) # NoUnit => Own(UnitAt(p)) /\ UnitAt(p).fn = NoFn
  BY <1>1, OptionAssumption DEF UnitAt, Units, FileUnit, Own, ShouldIncludeFile
<1>4. different' \in [Units -> Nat]
  BY FS_CardinalityType DEF CloseAndMoveTo, DifferentAfterClose, VisitorInv
<1>5. fnsCalled' \subseteq FnNames /\ IsFiniteSet(fnsCalled')
  BY FS_EmptySet DEF CloseAndMoveTo, NamesAfterClose, VisitorInv
<1>6. curFile' = DefResolved(p) /\ curUnit' = UnitAt(p)
      /\ units' = units \cup ({UnitAt(p)} \ {NoUnit})
  BY DEF CloseAndMoveTo
<1>7. QED
  BY <1>1, <1>2, <1>3, <1>4, <1>5, <1>6 DEF VisitorInv, Own

\* Steps that leave the walk where it is, or only count another node.
LEMMA WalkStays ==
  ASSUME WalkInv, OtherNode, UNCHANGED <<program, tu, ast, processed, visited>>
  PROVE  WalkInv'
BY OptionAssumption DEF WalkInv, OtherNode

LEMMA VisitorStays ==
  ASSUME VisitorInv, UNCHANGED <<program, different, visitor, units>>
  PROVE  VisitorInv'
BY DEF VisitorInv, Own, Foreign, visitor

\* A declaration at the top level, and a node within one.
LEMMA TopLevelPlaces ==
  ASSUME NEW p, NEW ms, PlaceInv, ast # NoTU, p \in ast.paths, TopLevel(p, ms),
         UNCHANGED program
  PROVE  VisitorInv' /\ CounterInv' /\ scope' \in Units \cup {NoUnit}
<1>1. CloseAndMoveTo(p) /\ Tally(DefResolved(p), Charges(UnitAt(p), ms), Charges(UnitAt(p), ms))
      /\ scope' = UnitAt(p)
  BY DEF TopLevel
<1>2. QED
  BY <1>1, MovePlaces, ChargesPlace, TallyPlaces DEF PlaceInv

LEMMA WithinPlaces ==
  ASSUME NEW ms, NEW T, PlaceInv, Within(ms, T), UNCHANGED program
  PROVE  VisitorInv' /\ CounterInv' /\ scope' \in Units \cup {NoUnit}
<1>1. VisitorInv'
  BY VisitorStays DEF PlaceInv, Within, Stay
<1>2. curUnit # NoUnit => ~ Foreign(curUnit.file)
  BY DEF PlaceInv, VisitorInv, Own
<1>3. CounterInv'
  BY <1>2, ChargesPlace, TallyPlaces DEF PlaceInv, Within
<1>4. QED
  BY <1>1, <1>3 DEF PlaceInv, OtherInv, Within

\* Every step keeps the invariant.  That a parameter may be charged to the unit of
\* the current file needs that the current unit lies in that file.
LEMMA PlaceStep ==
  ASSUME PlaceInv, UnitInCurrentFile, [Next]_vars
  PROVE  PlaceInv'
<1>1. ASSUME NEW t \in TUs, StartTU(t) PROVE PlaceInv'
  <2>1. t \in Range(program.tus)
    BY <1>1, ProgramAssumption DEF StartTU, PlaceInv, WalkInv, Range
  <2>2. tu' \in 0 .. Len(program.tus)
    BY <1>1, ProgramAssumption DEF StartTU, PlaceInv, WalkInv
  <2>3. WalkInv'
    BY <1>1, <2>1, <2>2, OptionAssumption DEF StartTU, PlaceInv, WalkInv
  <2>4. \A f \in Included(t) : f \in Files
    BY TUAssumption DEF Included, Range
  <2>5. FileUnits(t) \subseteq Units
    BY <2>4 DEF FileUnits, FileUnit, Units
  <2>6. \A u \in units' \ units : u.file \notin ExcludedFiles /\ u.fn = NoFn
    BY <1>1 DEF StartTU, FileUnits, FileUnit, ShouldIncludeFile
  <2>7. VisitorInv'
    BY <1>1, <2>5, <2>6, OptionAssumption, FS_EmptySet
    DEF StartTU, PlaceInv, VisitorInv, Own, Foreign
  <2>8. byteCount' \in [Units -> Nat]
    BY <1>1, OptionAssumption DEF StartTU, PlaceInv, OtherInv, Units
  <2>9. QED
    BY <1>1, <2>3, <2>7, <2>8 DEF StartTU, PlaceInv, CounterInv, Counters, Foreign, OtherInv
<1>2. CASE EndTU
  <2>1. WalkInv'
    BY <1>2, UnitOfProgram DEF EndTU, PlaceInv, WalkInv, MarkedBy
  <2>2. different' \in [Units -> Nat]
    BY <1>2, FS_CardinalityType DEF EndTU, DifferentAfterClose, PlaceInv, VisitorInv
  <2>3. VisitorInv'
    BY <1>2, <2>2, FS_EmptySet DEF EndTU, PlaceInv, VisitorInv, Own, Foreign
  <2>4. QED
    BY <1>2, <2>1, <2>3 DEF EndTU, PlaceInv, CounterInv, Counters, Foreign, OtherInv
<1>3. ASSUME NEW g \in FnNames, VisitFunctionDefinition(g) PROVE PlaceInv'
  <2> DEFINE d == ast.body[g]
             f == DefResolved(d.path)
             included == ShouldIncludeFile(f) /\ ShouldIncludeFunction(g)
             unit == IF included THEN FunctionUnit(f, g) ELSE NoUnit
             ofFile == {"FUNCTIONS"} \cup (IF d.inline THEN {"INLINE_FUNCTIONS"} ELSE {})
                                     \cup (IF d.static THEN {"LOCAL_FUNCTIONS"} ELSE {})
             ofUnit == IF d.returns THEN {"RETURNPOINTS"} ELSE {}
             charged == IF ~ included THEN {}
                        ELSE Charges(FileUnit(f), ofFile) \cup Charges(unit, ofUnit)
  <2>1. /\ ast # NoTU /\ g \in DOMAIN ast.body
        /\ visited' = visited \cup {g}
        /\ different' = DifferentAfterClose(curUnit)
        /\ fnsCalled' = NamesAfterClose(curUnit)
        /\ curFile' = f /\ curUnit' = unit /\ scope' = unit
        /\ units' = units \cup (IF included THEN {FileUnit(f), unit} ELSE {})
        /\ external' = external \cup (IF included /\ ~ d.static THEN {unit} ELSE {})
        /\ Tally(f, charged, charged)
        /\ UNCHANGED <<program, tu, ast, byteCount, nesting, unresolved, processed, nodes>>
    BY <1>3 DEF VisitFunctionDefinition
  <2>2. f \in Files /\ ~ Foreign(f)
    BY <2>1, UnitOfProgram DEF PlaceInv
  <2> HIDE DEF f, d
  <2>3. unit \in Units \cup {NoUnit} /\ FileUnit(f) \in Units
    BY <2>2 DEF FunctionUnit, FileUnit, Units
  <2>4. FileUnit(f).file = f /\ FileUnit(f).fn = NoFn
        /\ (included => unit \in Units /\ Own(unit) /\ unit.file = f /\ unit.fn = g)
    BY <2>2, <2>3 DEF FunctionUnit, FileUnit, Units, Own, ShouldIncludeFile, ShouldIncludeFunction
  <2>5. different' \in [Units -> Nat]
    BY <2>1, FS_CardinalityType DEF DifferentAfterClose, PlaceInv, VisitorInv
  <2>6. fnsCalled' \subseteq FnNames /\ IsFiniteSet(fnsCalled')
    BY <2>1, FS_EmptySet DEF NamesAfterClose, PlaceInv, VisitorInv
  <2>7. \A u : Own(u)' <=> Own(u)
    BY <2>1 DEF Own, Foreign
  <2> HIDE DEF ofFile, ofUnit
  <2>8. VisitorInv'
    <3>1. curUnit' # NoUnit => Own(curUnit)'
      BY <2>1, <2>4, <2>7
    <3>2. included => FileUnit(f).file \notin ExcludedFiles
      BY <2>4 DEF ShouldIncludeFile
    <3>3. \A u \in units' : /\ u.file \notin ExcludedFiles /\ u.fn \notin ExcludedFns
                            /\ u.fn # NoFn => Own(u)'
      BY <2>1, <2>4, <2>7, <3>2, OptionAssumption DEF PlaceInv, VisitorInv, Own
    <3>4. units' \subseteq Units
      BY <2>1, <2>3, <2>4 DEF PlaceInv, VisitorInv
    <3>5. QED
      BY <2>1, <2>2, <2>3, <2>5, <2>6, <3>1, <3>3, <3>4 DEF VisitorInv
  <2>9. CounterInv'
    <3>1. FileUnit(f) # NoUnit => ~ Foreign(FileUnit(f).file)
      BY <2>2, <2>4
    <3>2. unit # NoUnit => ~ Foreign(unit.file)
      BY <2>2, <2>4
    <3>3. \A x \in charged : x[1] \in Units => ~ Foreign(x[1].file)
      BY <3>1, <3>2, ChargesPlace
    <3>4. QED
      BY <2>1, <3>3, TallyPlaces DEF PlaceInv
  <2>10. WalkInv' /\ OtherInv'
    BY <2>1, <2>3, <2>4 DEF PlaceInv, WalkInv, OtherInv
  <2>11. QED
    BY <2>8, <2>9, <2>10 DEF PlaceInv
<1>4. ASSUME NEW p \in Locations, NEW extern \in BOOLEAN, VisitPrototype(p, extern) PROVE PlaceInv'
  BY <1>4, WalkStays, TopLevelPlaces, WithinPlaces
  DEF VisitPrototype, OtherNode, PlaceInv, OtherInv
<1>5. ASSUME NEW p \in Locations, NEW init \in BOOLEAN, VisitVarDecl(p, init)
      PROVE  PlaceInv'
  BY <1>5, WalkStays, TopLevelPlaces, WithinPlaces
  DEF VisitVarDecl, OtherNode, PlaceInv, OtherInv
<1>6. ASSUME NEW mine \in BOOLEAN, VisitParmVarDecl(mine) PROVE PlaceInv'
  <2> DEFINE owner == ParameterOwner(curUnit, curFile)
  <2>1. PICK T : Tally(curFile, Charges(owner, {"FUNCTION_PARAMETERS"}), T)
    BY <1>6 DEF VisitParmVarDecl
  <2>2. owner # NoUnit => ~ Foreign(owner.file)
    BY DEF PlaceInv, VisitorInv, Own, UnitInCurrentFile, ParameterOwner, FileUnit
  <2> HIDE DEF owner
  <2>3. CounterInv'
    BY <1>6, <2>1, <2>2, ChargesPlace, TallyPlaces DEF VisitParmVarDecl, PlaceInv
  <2>4. QED
    BY <1>6, <2>3, WalkStays, VisitorStays DEF VisitParmVarDecl, Stay, PlaceInv, OtherInv
<1>7. ASSUME NEW p \in Locations, VisitStrayParameter(p) PROVE PlaceInv'
  <2>1. PICK T : Tally(DefResolved(p), Charges(UnitAt(p), {"FUNCTION_PARAMETERS"}), T)
    BY <1>7 DEF VisitStrayParameter
  <2>2. VisitorInv' /\ (UnitAt(p) # NoUnit => ~ Foreign(UnitAt(p).file))
    BY <1>7, MovePlaces DEF VisitStrayParameter, OtherNode, PlaceInv
  <2>3. CounterInv'
    BY <1>7, <2>1, <2>2, ChargesPlace, TallyPlaces DEF VisitStrayParameter, PlaceInv
  <2>4. QED
    BY <1>7, <2>2, <2>3, WalkStays DEF VisitStrayParameter, PlaceInv, OtherInv
<1>8. ASSUME NEW p \in Locations, VisitTypeDecl(p) PROVE PlaceInv'
  <2>1. UnitAt(p) \in Units \cup {NoUnit}
    BY <1>8, UnitOfProgram DEF VisitTypeDecl, OtherNode, PlaceInv, UnitAt, FileUnit, Units
  <2>2. QED
    BY <1>8, <2>1, WalkStays, VisitorStays
    DEF VisitTypeDecl, Stay, PlaceInv, CounterInv, Counters, Foreign, OtherInv
<1>9. ASSUME NEW ms \in StatementCounts, VisitStatement(ms) PROVE PlaceInv'
  BY <1>9, WalkStays, WithinPlaces DEF VisitStatement, PlaceInv, OtherInv
<1>10. ASSUME NEW depth \in Depths, VisitControl(depth) PROVE PlaceInv'
  <2>1. nesting' \in [Units -> Nat]
    BY <1>10, OptionAssumption DEF VisitControl, PlaceInv, OtherInv
  <2>2. QED
    BY <1>10, <2>1, WalkStays, WithinPlaces DEF VisitControl, PlaceInv, OtherInv
<1>11. ASSUME NEW g \in FnNames \cup {NoFn}, VisitCallExpr(g) PROVE PlaceInv'
  <2> DEFINE home == DefResolved(ast.body[g].path)
             new == curUnit # NoUnit /\ NewName(g)
             credited == new /\ Visible(g) /\ ShouldIncludeFile(home) /\ ShouldIncludeFunction(g)
             credit == IF credited THEN {<<FunctionUnit(home, g), "CALLED_BY_LOCAL">>} ELSE {}
             counted == {"FUNCTION_CALLS"} \cup
                          (IF Visible(g) THEN {"LOCAL_FUNCTION_CALLS"} ELSE {})
             T == Charges(scope, {"FUNCTION_CALLS"})
  <2>1. /\ OtherNode
        /\ fnsCalled' = fnsCalled \cup (IF new THEN {g} ELSE {})
        /\ units' = units \cup (IF credited THEN {FileUnit(home), FunctionUnit(home, g)} ELSE {})
        /\ unresolved' = [u \in Units |-> unresolved[u] \cup
                            (IF u = curUnit /\ new /\ ~ Visible(g) THEN {g} ELSE {})]
        /\ Tally(curFile, Charges(curUnit, counted) \cup credit, T)
        /\ UNCHANGED <<program, tu, ast, byteCount, nesting, different, external, processed,
                       curFile, curUnit, visited, scope>>
    BY <1>11 DEF VisitCallExpr
  <2>2. Visible(g) => home \in Files /\ ~ Foreign(home) /\ g \in FnNames
    BY <2>1, UnitOfProgram DEF PlaceInv, OtherNode, Visible
  <2>3. new => g \in FnNames
    BY DEF NewName
  <2> HIDE DEF home
  <2>4. credited => /\ FileUnit(home) \in Units /\ FunctionUnit(home, g) \in Units
                    /\ Own(FunctionUnit(home, g)) /\ FunctionUnit(home, g).file = home
                    /\ FileUnit(home).file = home /\ FileUnit(home).fn = NoFn
                    /\ home \notin ExcludedFiles
    BY <2>2 DEF FileUnit, FunctionUnit, Units, Own, ShouldIncludeFile, ShouldIncludeFunction
  <2>5. WalkInv'
    BY <2>1, WalkStays DEF PlaceInv
  <2>6. OtherInv'
    BY <2>1, <2>3 DEF PlaceInv, OtherInv
  <2>7. fnsCalled' \subseteq FnNames /\ IsFiniteSet(fnsCalled')
    <3>1. fnsCalled \subseteq FnNames /\ IsFiniteSet(fnsCalled)
      BY DEF PlaceInv, VisitorInv
    <3>2. IsFiniteSet(fnsCalled \cup {g})
      BY <3>1, FS_AddElement
    <3> HIDE DEF new
    <3>3. QED
      BY <2>1, <2>3, <3>1, <3>2
  <2> HIDE DEF credited
  <2>8. VisitorInv'
    <3>1. \A u : Own(u)' <=> Own(u)
      BY <2>1 DEF Own, Foreign
    <3>2. units' \subseteq Units
      BY <2>1, <2>4 DEF PlaceInv, VisitorInv
    <3>3. \A u \in units' : /\ u.file \notin ExcludedFiles /\ u.fn \notin ExcludedFns
                            /\ u.fn # NoFn => Own(u)'
      BY <2>1, <2>4, <3>1, OptionAssumption DEF PlaceInv, VisitorInv, Own
    <3>4. QED
      BY <2>1, <2>7, <3>1, <3>2, <3>3 DEF PlaceInv, VisitorInv
  <2> HIDE DEF counted
  <2>9. CounterInv'
    <3>1. curUnit # NoUnit => ~ Foreign(curUnit.file)
      BY DEF PlaceInv, VisitorInv, Own
    <3>2. \A x \in Charges(curUnit, counted) : x[1] \in Units => ~ Foreign(x[1].file)
      BY <3>1, ChargesPlace
    <3>3. \A x \in credit : x[1] \in Units => ~ Foreign(x[1].file)
      BY <2>4 DEF Own
    <3> HIDE DEF credit, T
    <3>4. QED
      BY <2>1, <3>2, <3>3, TallyPlaces DEF PlaceInv
  <2>10. QED
    BY <2>5, <2>6, <2>8, <2>9 DEF PlaceInv
<1>12. CASE UNCHANGED vars
  <2>1. WalkInv' /\ OtherInv'
    BY <1>12 DEF vars, PlaceInv, WalkInv, OtherInv, history
  <2>2. VisitorInv'
    BY <1>12, VisitorStays DEF vars, PlaceInv
  <2>3. CounterInv'
    BY <1>12 DEF vars, PlaceInv, CounterInv, Counters, Foreign
  <2>4. QED
    BY <2>1, <2>2, <2>3 DEF PlaceInv
<1>13. QED
  BY <1>1, <1>2, <1>3, <1>4, <1>5, <1>6, <1>7, <1>8, <1>9, <1>10, <1>11, <1>12 DEF Next

LEMMA PlaceInit == Init => PlaceInv
BY ProgramAssumption, OptionAssumption, FS_EmptySet
DEF Init, PlaceInv, WalkInv, VisitorInv, CounterInv, Counters, OtherInv, Own, Foreign

\* The visitor and its units keep their types.
THEOREM VisitorTypes == Spec => []TypeOK
<1>1. PlaceInv /\ GateInv /\ [Next]_vars => (PlaceInv /\ GateInv)'
  BY PlaceStep, StepKeeps DEF GateInv
<1>2. PlaceInv => TypeOK
  BY PlaceImplies
<1>3. QED
  BY <1>1, <1>2, PlaceInit, InitKeeps, PTL DEF Spec

\* Nothing the walk charges is in a unit of a def file, beside the counters, and such
\* a unit was made for the file's size.
ForeignInv ==
  /\ \A u \in Units : Foreign(u.file) =>
       nesting[u] = 0 /\ different[u] = 0 /\ unresolved[u] = {} /\ u \notin external
  /\ \A u \in units : Foreign(u.file) => byteCount[u] = FileSize[u.file]

\* A step keeps that if it leaves the units of def files as they are.
LEMMA ForeignStays ==
  ASSUME ForeignInv, UNCHANGED <<program, byteCount>>, units \subseteq Units,
         \A u \in Units : Foreign(u.file) =>
           /\ nesting'[u] = nesting[u] /\ different'[u] = different[u]
           /\ unresolved'[u] = unresolved[u] /\ (u \in external' => u \in external),
         \A u \in units' : u \in units \/ ~ Foreign(u.file)
  PROVE  ForeignInv'
<1>1. \A g : Foreign(g)' <=> Foreign(g)
  BY DEF Foreign
<1>2. QED
  BY <1>1 DEF ForeignInv

\* Closing a function records the size of its set, and it is in no def file.
LEMMA ClosedIsOwn ==
  ASSUME VisitorInv, NEW u \in Units, Foreign(u.file)
  PROVE  DifferentAfterClose(curUnit)[u] = different[u]
BY DEF VisitorInv, Own, DifferentAfterClose

LEMMA MoveForeign ==
  ASSUME NEW p, ForeignInv, PlaceInv, ast # NoTU, p \in ast.paths, CloseAndMoveTo(p),
         UNCHANGED <<program, byteCount, nesting, unresolved, external>>
  PROVE  ForeignInv'
<1>1. UnitAt(p) # NoUnit => ~ Foreign(UnitAt(p).file)
  BY MovePlaces DEF PlaceInv
<1>2. different' = DifferentAfterClose(curUnit) /\ units' = units \cup ({UnitAt(p)} \ {NoUnit})
  BY DEF CloseAndMoveTo
<1>3. \A u \in units' : u \in units \/ ~ Foreign(u.file)
  BY <1>1, <1>2
<1>4. \A u \in Units : Foreign(u.file) => different'[u] = different[u]
  BY <1>2, ClosedIsOwn DEF PlaceInv
<1>5. QED
  BY <1>3, <1>4, ForeignStays DEF PlaceInv, VisitorInv

\* Every step keeps it.
LEMMA ForeignStep ==
  ASSUME ForeignInv, PlaceInv, [Next]_vars
  PROVE  ForeignInv'
<1> USE DEF Stay, visitor
<1>a. units \subseteq Units
  BY DEF PlaceInv, VisitorInv
<1>b. ASSUME UNCHANGED <<program, byteCount, nesting, different, unresolved, external, units>>
      PROVE  ForeignInv'
  BY <1>a, <1>b, ForeignStays
<1>1. ASSUME NEW t \in TUs, StartTU(t) PROVE ForeignInv'
  <2>1. \A g : Foreign(g)' <=> Foreign(g)
    BY <1>1 DEF Foreign, StartTU
  <2>2. /\ units' = units \cup FileUnits(t)
        /\ byteCount' = [u \in Units |-> IF u \in FileUnits(t) THEN FileSize[u.file]
                                         ELSE byteCount[u]]
        /\ UNCHANGED <<nesting, different, unresolved, external>>
    BY <1>1 DEF StartTU
  <2>3. \A u \in FileUnits(t) : u \in Units
    BY TUAssumption DEF FileUnits, Included, Range, FileUnit, Units
  <2>4. \A u \in units' : Foreign(u.file) => byteCount'[u] = FileSize[u.file]
    BY <1>a, <2>2, <2>3 DEF ForeignInv
  <2>5. QED
    BY <2>1, <2>2, <2>4 DEF ForeignInv
<1>2. CASE EndTU
  <2>1. \A u \in Units : Foreign(u.file) => different'[u] = different[u]
    BY <1>2, ClosedIsOwn DEF EndTU, PlaceInv
  <2>2. QED
    BY <1>2, <1>a, <2>1, ForeignStays DEF EndTU
<1>3. ASSUME NEW g \in FnNames, VisitFunctionDefinition(g) PROVE ForeignInv'
  <2> DEFINE d == ast.body[g]
             f == DefResolved(d.path)
             included == ShouldIncludeFile(f) /\ ShouldIncludeFunction(g)
             unit == IF included THEN FunctionUnit(f, g) ELSE NoUnit
  <2>1. /\ ast # NoTU /\ g \in DOMAIN ast.body
        /\ different' = DifferentAfterClose(curUnit)
        /\ units' = units \cup (IF included THEN {FileUnit(f), unit} ELSE {})
        /\ external' = external \cup (IF included /\ ~ d.static THEN {unit} ELSE {})
        /\ UNCHANGED <<program, byteCount, nesting, unresolved>>
    BY <1>3 DEF VisitFunctionDefinition
  <2>2. ~ Foreign(f)
    BY <2>1, UnitOfProgram DEF PlaceInv
  <2>3. FileUnit(f).file = f /\ (included => unit.file = f)
    BY DEF FileUnit, FunctionUnit
  <2> HIDE DEF f, d, unit, included
  <2>4. \A u \in units' : u \in units \/ ~ Foreign(u.file)
    BY <2>1, <2>2, <2>3
  <2>5. \A u \in Units : Foreign(u.file) => (u \in external' => u \in external)
    BY <2>1, <2>2, <2>3
  <2>6. \A u \in Units : Foreign(u.file) => different'[u] = different[u]
    BY <2>1, ClosedIsOwn DEF PlaceInv
  <2>7. QED
    BY <1>a, <2>1, <2>4, <2>5, <2>6, ForeignStays
<1>4. ASSUME NEW p \in Locations, NEW extern \in BOOLEAN, VisitPrototype(p, extern)
      PROVE  ForeignInv'
  BY <1>4, <1>b, MoveForeign DEF VisitPrototype, OtherNode, TopLevel, Within
<1>5. ASSUME NEW p \in Locations, NEW init \in BOOLEAN, VisitVarDecl(p, init)
      PROVE  ForeignInv'
  BY <1>5, <1>b, MoveForeign DEF VisitVarDecl, OtherNode, TopLevel, Within
<1>6. ASSUME NEW mine \in BOOLEAN, VisitParmVarDecl(mine) PROVE ForeignInv'
  BY <1>6, <1>b DEF VisitParmVarDecl
<1>7. ASSUME NEW p \in Locations, VisitStrayParameter(p) PROVE ForeignInv'
  BY <1>7, MoveForeign DEF VisitStrayParameter, OtherNode
<1>8. ASSUME NEW p \in Locations, VisitTypeDecl(p) PROVE ForeignInv'
  BY <1>8, <1>b DEF VisitTypeDecl
<1>9. ASSUME NEW ms \in StatementCounts, VisitStatement(ms) PROVE ForeignInv'
  BY <1>9, <1>b DEF VisitStatement, Within
<1>10. ASSUME NEW depth \in Depths, VisitControl(depth) PROVE ForeignInv'
  <2>1. \A u \in Units : Foreign(u.file) => u # curUnit
    BY OptionAssumption DEF PlaceInv, VisitorInv, Own, Units, NoUnit
  <2>2. \A u \in Units : Foreign(u.file) => nesting'[u] = nesting[u]
    BY <1>10, <2>1 DEF VisitControl
  <2>3. QED
    BY <1>10, <1>a, <2>2, ForeignStays DEF VisitControl, Within
<1>11. ASSUME NEW g \in FnNames \cup {NoFn}, VisitCallExpr(g) PROVE ForeignInv'
  <2> DEFINE home == DefResolved(ast.body[g].path)
             new == curUnit # NoUnit /\ NewName(g)
             credited == new /\ Visible(g) /\ ShouldIncludeFile(home) /\ ShouldIncludeFunction(g)
  <2>1. /\ ast # NoTU
        /\ units' = units \cup (IF credited THEN {FileUnit(home), FunctionUnit(home, g)} ELSE {})
        /\ unresolved' = [u \in Units |-> unresolved[u] \cup
                            (IF u = curUnit /\ new /\ ~ Visible(g) THEN {g} ELSE {})]
        /\ UNCHANGED <<program, byteCount, nesting, different, external>>
    BY <1>11 DEF VisitCallExpr, OtherNode
  <2>2. credited => ~ Foreign(home)
    BY <2>1, UnitOfProgram DEF PlaceInv, Visible
  <2>3. FileUnit(home).file = home /\ FunctionUnit(home, g).file = home
    BY DEF FileUnit, FunctionUnit
  <2>4. \A u \in Units : Foreign(u.file) => u # curUnit
    BY OptionAssumption DEF PlaceInv, VisitorInv, Own, Units, NoUnit
  <2> HIDE DEF home, credited, new
  <2>5. \A u \in units' : u \in units \/ ~ Foreign(u.file)
    BY <2>1, <2>2, <2>3
  <2>6. \A u \in Units : Foreign(u.file) => unresolved'[u] = unresolved[u]
    BY <2>1, <2>4
  <2>7. QED
    BY <1>a, <2>1, <2>5, <2>6, ForeignStays
<1>12. CASE UNCHANGED vars
  BY <1>12, <1>b DEF vars
<1>13. QED
  BY <1>1, <1>2, <1>3, <1>4, <1>5, <1>6, <1>7, <1>8, <1>9, <1>10, <1>11, <1>12 DEF Next

LEMMA ForeignInit == Init => ForeignInv
BY DEF Init, ForeignInv

LEMMA ForeignImplies == PlaceInv /\ ForeignInv => NothingForeign
<1>1. SUFFICES ASSUME PlaceInv, ForeignInv, NEW u \in units
      PROVE  /\ u.file \notin ExcludedFiles /\ u.fn \notin ExcludedFns
             /\ Foreign(u.file) =>
                  /\ u.fn = NoFn /\ byteCount[u] = FileSize[u.file]
                  /\ (\A m \in Metrics : counter[u][m] = 0) /\ nesting[u] = 0 /\ different[u] = 0
                  /\ unresolved[u] = {} /\ u \notin external
  BY DEF NothingForeign, Foreign
<1>2. /\ u \in Units /\ u.file \notin ExcludedFiles /\ u.fn \notin ExcludedFns
      /\ u.fn # NoFn => Own(u)
  BY <1>1 DEF PlaceInv, VisitorInv
<1>3. Foreign(u.file) => u.fn = NoFn
  BY <1>2 DEF Own
<1>4. Foreign(u.file) => \A m \in Metrics : counter[u][m] = 0
  BY <1>1, <1>2 DEF PlaceInv, CounterInv
<1>5. QED
  BY <1>1, <1>2, <1>3, <1>4 DEF ForeignInv

\* Excluded files and functions never get a unit; a def file that is no main file has
\* the unit that holds its size, and the walk charges nothing to it, however def files
\* include one another.
THEOREM ForeignNeverCounted == Spec => []NothingForeign
<1>1. PlaceInv /\ GateInv /\ ForeignInv /\ [Next]_vars => (PlaceInv /\ GateInv /\ ForeignInv)'
  BY PlaceStep, StepKeeps, ForeignStep DEF GateInv
<1>2. PlaceInv /\ ForeignInv => NothingForeign
  BY ForeignImplies
<1>3. QED
  BY <1>1, <1>2, PlaceInit, InitKeeps, ForeignInit, PTL DEF Spec
-----------------------------------------------------------------------------
(* That the counters are true: without the constructs that AstPass names,  *)
(* each node counts once and for the declaration around it, and what is    *)
(* recorded of calls are the calls.  The first rests on when a file is     *)
(* marked, the other on m_fnsCalled.                                       *)

\* A main file that is a def file would be counted in every translation unit it is
\* the main file of: nothing marks it.
MainsAreSources == \A t \in TUs : t.main \notin DefFiles

\* What IncrementMetric() does to a counter.
LEMMA Bumped ==
  ASSUME NEW c \in [Units -> [Metrics -> Nat]], NEW S, NEW u \in Units, NEW m \in Metrics
  PROVE  Bump(c, S)[u][m] = c[u][m] + (IF <<u, m>> \in S THEN 1 ELSE 0)
<1>1. c[u][m] \in Nat
  OBVIOUS
<1>2. CASE \A x \in S : x[1] # u
  <2>1. Bump(c, S)[u] = c[u] /\ <<u, m>> \notin S
    BY <1>2 DEF Bump
  <2>2. QED
    BY <1>1, <2>1
<1>3. CASE ~ \A x \in S : x[1] # u
  BY <1>3 DEF Bump
<1>4. QED
  BY <1>2, <1>3
-----------------------------------------------------------------------------
(* What is marked. *)

\* A file is marked when the first translation unit with it is over, unless it is
\* excluded or a def file.
FirstInv ==
  /\ tu \in Nat /\ firstTU \in [Files -> Nat]
  /\ \A f \in Files : firstTU[f] <= tu
  /\ processed = {f \in Files : /\ ShouldIncludeFile(f) /\ f \notin DefFiles
                                /\ firstTU[f] # 0 /\ (firstTU[f] < tu \/ ast = NoTU)}
  /\ ast # NoTU => \A f \in Files : /\ f \in Included(ast) => firstTU[f] # 0
                                    /\ firstTU[f] = tu => f \in Included(ast)

LEMMA FirstInit == Init => FirstInv
BY DEF Init, FirstInv

LEMMA FirstStep ==
  ASSUME FirstInv, PlaceInv, [Next]_vars
  PROVE  FirstInv'
<1>1. ASSUME NEW t \in TUs, StartTU(t) PROVE FirstInv'
  <2>1. /\ tu' = tu + 1 /\ ast' = t /\ ast = NoTU /\ processed' = processed
        /\ firstTU' = [f \in Files |-> IF f \in Included(t) /\ firstTU[f] = 0 THEN tu + 1
                                       ELSE firstTU[f]]
    BY <1>1 DEF StartTU
  <2>2. t # NoTU
    BY OptionAssumption, TUAssumption DEF NoTU
  <2>3. /\ firstTU' \in [Files -> Nat]
        /\ \A f \in Files : /\ firstTU'[f] <= tu + 1
                            /\ firstTU'[f] # 0 /\ firstTU'[f] < tu + 1 <=> firstTU[f] # 0
                            /\ f \in Included(t) => firstTU'[f] # 0
                            /\ firstTU'[f] = tu + 1 => f \in Included(t)
    BY <2>1 DEF FirstInv
  <2>4. processed = {f \in Files : ShouldIncludeFile(f) /\ f \notin DefFiles /\ firstTU[f] # 0}
    BY <2>1 DEF FirstInv
  <2>5. QED
    BY <2>1, <2>2, <2>3, <2>4 DEF FirstInv, ShouldIncludeFile
<1>2. CASE EndTU
  <2>1. /\ ast # NoTU /\ ast' = NoTU /\ processed' = processed \cup MarkedBy(ast)
        /\ UNCHANGED <<tu, firstTU>>
    BY <1>2 DEF EndTU
  <2>2. Included(ast) \subseteq Files
    BY <2>1, UnitOfProgram DEF PlaceInv
  <2>3. \A f \in Files : firstTU[f] # 0 => firstTU[f] < tu \/ f \in Included(ast)
    BY <2>1 DEF FirstInv
  <2>4. QED
    BY <2>1, <2>2, <2>3 DEF FirstInv, MarkedBy, ShouldIncludeFile
<1>3. ASSUME UNCHANGED <<tu, ast, processed, firstTU>> PROVE FirstInv'
  BY <1>3 DEF FirstInv, ShouldIncludeFile, Included
<1>4. QED
  BY <1>1, <1>2, <1>3
  DEF Next, VisitFunctionDefinition, VisitPrototype, VisitVarDecl, VisitParmVarDecl,
      VisitStrayParameter, VisitTypeDecl, VisitStatement, VisitControl, VisitCallExpr,
      vars, history

\* A location that counts is in a file that is marked unless it is new.
LEMMA GateAt ==
  ASSUME MainsAreSources, FirstInv, PlaceInv, ast # NoTU, NEW p \in ast.paths,
         ShouldIncludeFile(DefResolved(p))
  PROVE  DefResolved(p) \notin processed <=> firstTU[DefResolved(p)] = tu
<1>1. ast \in TUs
  BY UnitOfProgram DEF PlaceInv
<1>2. DefResolved(p) \in Files /\ DefResolved(p) \in Included(ast) /\ DefResolved(p) \notin DefFiles
  BY <1>1, Resolution DEF MainsAreSources, Included
<1>3. QED
  BY <1>2 DEF FirstInv
-----------------------------------------------------------------------------
(* What is counted. *)

Truths == truth \in [Units -> [Metrics -> Nat]]
Agree == \A u \in Units, m \in Metrics \ MultiPass : counter[u][m] = truth[u][m]

\* The gate is open to the current unit in the first translation unit with its file.
GateTrue == curUnit # NoUnit => /\ ast # NoTU
                                /\ curFile \notin processed <=> firstTU[curFile] = tu

\* The current unit is that of the declaration around the node.
TruthInv ==
  /\ Truths /\ Agree /\ GateTrue
  /\ scope = curUnit
  /\ deepest \in [Units -> Nat] /\ nesting = deepest

\* Is <<u, m>> in S, and the gate open, exactly when it is in T and u's file is new?
Matched(f, S, T) ==
  \A u \in Units, m \in Metrics \ MultiPass :
    <<u, m>> \in S /\ f \notin processed <=> <<u, m>> \in T /\ firstTU[u.file] = tu

LEMMA TallyTrue ==
  ASSUME NEW f, NEW S, NEW T, Counters, Truths, Agree, Tally(f, S, T), Matched(f, S, T)
  PROVE  Truths' /\ Agree'
<1> DEFINE A == {x \in S : Admits(f, x[2])}
           B == {x \in T : firstTU[x[1].file] = tu /\ x[2] \notin MultiPass}
<1>1. counter' = Bump(counter, A) /\ truth' = Bump(truth, B)
  BY DEF Tally
<1>2. counter \in [Units -> [Metrics -> Nat]] /\ truth \in [Units -> [Metrics -> Nat]]
  BY DEF Counters, Truths
<1>3. ASSUME NEW u \in Units, NEW m \in Metrics \ MultiPass
      PROVE  <<u, m>> \in A <=> <<u, m>> \in B
  BY DEF Matched, Admits
<1>4. Truths'
  <2> HIDE DEF B
  <2>1. QED
    BY <1>1, <1>2 DEF Truths, Bump
<1>5. ASSUME NEW u \in Units, NEW m \in Metrics \ MultiPass
      PROVE  counter'[u][m] = truth'[u][m]
  <2>1. <<u, m>> \in A <=> <<u, m>> \in B
    BY <1>3
  <2> HIDE DEF A, B
  <2>2. /\ counter'[u][m] = counter[u][m] + (IF <<u, m>> \in A THEN 1 ELSE 0)
        /\ truth'[u][m] = truth[u][m] + (IF <<u, m>> \in B THEN 1 ELSE 0)
    BY <1>1, <1>2, Bumped
  <2>3. counter[u][m] = truth[u][m]
    BY DEF Agree
  <2>4. QED
    BY <2>1, <2>2, <2>3
<1>6. QED
  BY <1>4, <1>5 DEF Agree

LEMMA ChargesMatch ==
  ASSUME NEW f, NEW u, NEW ms, NEW ns, \A m \in Metrics \ MultiPass : m \in ms <=> m \in ns,
         u # NoUnit => u.file = f /\ (f \notin processed <=> firstTU[f] = tu)
  PROVE  Matched(f, Charges(u, ms), Charges(u, ns))
<1>1. CASE u = NoUnit
  BY <1>1 DEF Matched, Charges
<1>2. CASE u # NoUnit
  BY <1>2 DEF Matched, Charges
<1>3. QED
  BY <1>1, <1>2

\* A declaration at the top level.
LEMMA MoveTrue ==
  ASSUME MainsAreSources, FirstInv, PlaceInv, ast # NoTU, NEW p \in ast.paths,
         CloseAndMoveTo(p), UNCHANGED <<tu, ast, processed, firstTU>>
  PROVE  /\ GateTrue' /\ curUnit' = UnitAt(p)
         /\ UnitAt(p) # NoUnit =>
              /\ UnitAt(p).file = DefResolved(p)
              /\ DefResolved(p) \notin processed <=> firstTU[DefResolved(p)] = tu
<1>1. curFile' = DefResolved(p) /\ curUnit' = UnitAt(p)
  BY DEF CloseAndMoveTo
<1>2. UnitAt(p) # NoUnit =>
        /\ UnitAt(p).file = DefResolved(p)
        /\ DefResolved(p) \notin processed <=> firstTU[DefResolved(p)] = tu
  BY GateAt DEF UnitAt, FileUnit
<1>3. QED
  BY <1>1, <1>2 DEF GateTrue

\* What every step but those between translation units leaves alone.
SameWalk == UNCHANGED <<program, tu, ast, processed, firstTU>>

LEMMA TopLevelTrue ==
  ASSUME MainsAreSources, FirstInv, PlaceInv, TruthInv, ast # NoTU, NEW p \in ast.paths,
         NEW ms, TopLevel(p, ms), SameWalk, UNCHANGED <<nesting, deepest>>
  PROVE  TruthInv'
<1>1. CloseAndMoveTo(p) /\ Tally(DefResolved(p), Charges(UnitAt(p), ms), Charges(UnitAt(p), ms))
      /\ scope' = UnitAt(p)
  BY DEF TopLevel
<1>2. /\ GateTrue' /\ curUnit' = UnitAt(p)
      /\ UnitAt(p) # NoUnit =>
           /\ UnitAt(p).file = DefResolved(p)
           /\ DefResolved(p) \notin processed <=> firstTU[DefResolved(p)] = tu
  BY <1>1, MoveTrue DEF SameWalk
<1>3. Matched(DefResolved(p), Charges(UnitAt(p), ms), Charges(UnitAt(p), ms))
  BY <1>2, ChargesMatch
<1>4. Truths' /\ Agree'
  BY <1>1, <1>3, TallyTrue DEF TruthInv, PlaceInv, CounterInv
<1>5. QED
  BY <1>1, <1>2, <1>4 DEF TruthInv

\* A node within a declaration.
LEMMA InsideTrue ==
  ASSUME PlaceInv, TruthInv, Stay, scope' = scope, SameWalk
  PROVE  GateTrue' /\ scope' = curUnit'
BY DEF TruthInv, GateTrue, Stay, visitor, SameWalk

LEMMA WithinTrue ==
  ASSUME PlaceInv, UnitInCurrentFile, TruthInv, NEW ms, Within(ms, Charges(scope, ms)), SameWalk
  PROVE  Truths' /\ Agree' /\ GateTrue' /\ scope' = curUnit'
<1>1. Stay /\ scope' = scope /\ Tally(curFile, Charges(curUnit, ms), Charges(curUnit, ms))
  BY DEF Within, TruthInv
<1>2. Matched(curFile, Charges(curUnit, ms), Charges(curUnit, ms))
  BY ChargesMatch DEF TruthInv, GateTrue, UnitInCurrentFile
<1>3. Truths' /\ Agree'
  BY <1>1, <1>2, TallyTrue DEF TruthInv, PlaceInv, CounterInv
<1>4. QED
  BY <1>1, <1>3, InsideTrue

LEMMA DeeperOf ==
  ASSUME NEW a \in Nat, NEW b \in Nat
  PROVE  Max({a} \cup {}) = a /\ Max({a} \cup {b}) = IF b > a THEN b ELSE a
<1>1. Max({a} \cup {}) = a
  BY DEF Max
<1>2. CASE b > a
  <2>1. \A x \in {a} \cup {b} : (\A y \in {a} \cup {b} : x >= y) <=> x = b
    BY <1>2
  <2>2. QED
    BY <1>1, <1>2, <2>1 DEF Max
<1>3. CASE ~ (b > a)
  <2>1. \A x \in {a} \cup {b} : (\A y \in {a} \cup {b} : x >= y) <=> x = a
    BY <1>3
  <2>2. QED
    BY <1>1, <1>3, <2>1 DEF Max
<1>4. QED
  BY <1>2, <1>3

PlainProgram == program.idioms \subseteq {"fileScopeCalls"}

LEMMA DefinitionTrue ==
  ASSUME MainsAreSources, FirstInv, PlaceInv, TruthInv, NEW g \in FnNames,
         VisitFunctionDefinition(g)
  PROVE  TruthInv'
<1> DEFINE d == ast.body[g]
           f == DefResolved(d.path)
           included == ShouldIncludeFile(f) /\ ShouldIncludeFunction(g)
           unit == IF included THEN FunctionUnit(f, g) ELSE NoUnit
           ofFile == {"FUNCTIONS"} \cup (IF d.inline THEN {"INLINE_FUNCTIONS"} ELSE {})
                                   \cup (IF d.static THEN {"LOCAL_FUNCTIONS"} ELSE {})
           ofUnit == IF d.returns THEN {"RETURNPOINTS"} ELSE {}
           charged == IF ~ included THEN {}
                      ELSE Charges(FileUnit(f), ofFile) \cup Charges(unit, ofUnit)
<1>1. /\ ast # NoTU /\ g \in DOMAIN ast.body
      /\ curFile' = f /\ curUnit' = unit /\ scope' = unit
      /\ Tally(f, charged, charged)
      /\ UNCHANGED <<tu, ast, processed, firstTU, nesting, deepest>>
  BY DEF VisitFunctionDefinition
<1>2. d.path \in ast.paths
  BY <1>1, UnitOfProgram DEF PlaceInv
<1>3. included => (f \notin processed <=> firstTU[f] = tu)
  BY <1>1, <1>2, GateAt
<1>4. FileUnit(f).file = f /\ (unit # NoUnit => included /\ unit.file = f)
  BY DEF FileUnit, FunctionUnit
<1>5. Matched(f, charged, charged)
  <2> HIDE DEF f, d, unit, ofFile, ofUnit
  <2>1. CASE ~ included
    BY <2>1 DEF Matched
  <2>2. CASE included
    <3>1. Matched(f, Charges(FileUnit(f), ofFile), Charges(FileUnit(f), ofFile))
      BY <1>3, <1>4, <2>2, ChargesMatch
    <3>2. Matched(f, Charges(unit, ofUnit), Charges(unit, ofUnit))
      BY <1>3, <1>4, <2>2, ChargesMatch
    <3>3. QED
      BY <2>2, <3>1, <3>2 DEF Matched
  <2>3. QED
    BY <2>1, <2>2
<1>6. GateTrue'
  BY <1>1, <1>3, <1>4 DEF GateTrue
<1> HIDE DEF charged
<1>7. Truths' /\ Agree'
  BY <1>1, <1>5, TallyTrue DEF TruthInv, PlaceInv, CounterInv
<1>8. QED
  BY <1>1, <1>6, <1>7 DEF TruthInv

LEMMA CallTrue ==
  ASSUME PlaceInv, UnitInCurrentFile, TruthInv, NEW g, VisitCallExpr(g)
  PROVE  TruthInv'
<1> DEFINE home == DefResolved(ast.body[g].path)
           new == curUnit # NoUnit /\ NewName(g)
           credited == new /\ Visible(g) /\ ShouldIncludeFile(home) /\ ShouldIncludeFunction(g)
           credit == IF credited THEN {<<FunctionUnit(home, g), "CALLED_BY_LOCAL">>} ELSE {}
           counted == {"FUNCTION_CALLS"} \cup
                        (IF Visible(g) THEN {"LOCAL_FUNCTION_CALLS"} ELSE {})
           S == Charges(curUnit, counted)
           T == Charges(scope, {"FUNCTION_CALLS"})
<1>1. /\ Tally(curFile, S \cup credit, T)
      /\ UNCHANGED <<tu, ast, processed, curFile, curUnit, scope, firstTU, deepest, nesting>>
  BY DEF VisitCallExpr
<1>2. \A m \in Metrics \ MultiPass : m \in counted <=> m \in {"FUNCTION_CALLS"}
  BY DEF MultiPass
<1> HIDE DEF counted
<1>3. Matched(curFile, S, T)
  BY <1>2, ChargesMatch DEF TruthInv, GateTrue, UnitInCurrentFile
<1>4. \A x \in credit : x[2] \in MultiPass
  BY DEF MultiPass
<1> HIDE DEF S, T, credit
<1>5. Matched(curFile, S \cup credit, T)
  BY <1>3, <1>4 DEF Matched
<1>6. Truths' /\ Agree'
  BY <1>1, <1>5, TallyTrue DEF TruthInv, PlaceInv, CounterInv
<1>7. QED
  BY <1>1, <1>6 DEF TruthInv, GateTrue

\* Every step keeps the counters true, in a program without the constructs that break
\* them.
LEMMA TruthStep ==
  ASSUME MainsAreSources, FirstInv, PlaceInv, UnitInCurrentFile, PlainProgram, TruthInv,
         [Next]_vars
  PROVE  TruthInv'
<1>1. ASSUME NEW t \in TUs, StartTU(t) PROVE TruthInv'
  <2>1. UNCHANGED <<counter, truth, nesting, deepest>> /\ curUnit' = NoUnit /\ scope' = NoUnit
    BY <1>1 DEF StartTU
  <2>2. QED
    BY <2>1 DEF TruthInv, Truths, Agree, GateTrue
<1>2. CASE EndTU
  <2>1. UNCHANGED <<counter, truth, nesting, deepest>> /\ curUnit' = NoUnit /\ scope' = NoUnit
    BY <1>2 DEF EndTU
  <2>2. QED
    BY <2>1 DEF TruthInv, Truths, Agree, GateTrue
<1>3. ASSUME NEW g \in FnNames, VisitFunctionDefinition(g) PROVE TruthInv'
  BY <1>3, DefinitionTrue
<1>4. ASSUME NEW p \in Locations, NEW extern \in BOOLEAN, VisitPrototype(p, extern) PROVE TruthInv'
  <2> DEFINE declared == IF extern THEN {"EXTERN_FUNCTIONS"} ELSE {}
  <2>1. /\ SameWalk /\ ast # NoTU /\ p \in ast.paths /\ UNCHANGED <<nesting, deepest>>
        /\ TopLevel(p, declared) \/ Within(declared, Charges(scope, declared))
    BY <1>4 DEF VisitPrototype, OtherNode, SameWalk
  <2> HIDE DEF declared
  <2>2. QED
    BY <2>1, TopLevelTrue, WithinTrue DEF TruthInv
<1>5. ASSUME NEW p \in Locations, NEW init \in BOOLEAN, VisitVarDecl(p, init) PROVE TruthInv'
  <2> DEFINE statement == IF init THEN {"STATEMENTS"} ELSE {}
  <2>1. /\ SameWalk /\ ast # NoTU /\ p \in ast.paths /\ UNCHANGED <<nesting, deepest>>
        /\ \/ TopLevel(p, {"VARIABLE_FILE"} \cup statement)
           \/ Within({"VARIABLE_FN"} \cup statement, Charges(scope, {"VARIABLE_FN"} \cup statement))
    BY <1>5 DEF VisitVarDecl, OtherNode, SameWalk
  <2> HIDE DEF statement
  <2>2. QED
    BY <2>1, TopLevelTrue, WithinTrue DEF TruthInv
<1>6. ASSUME NEW mine \in BOOLEAN, VisitParmVarDecl(mine) PROVE TruthInv'
  <2> DEFINE owner == ParameterOwner(curUnit, curFile)
  <2>1. mine
    BY <1>6 DEF VisitParmVarDecl, PlainProgram
  <2>2. /\ Stay /\ scope' = scope /\ SameWalk /\ UNCHANGED <<nesting, deepest>>
        /\ Tally(curFile, Charges(owner, {"FUNCTION_PARAMETERS"}),
                 Charges(ParameterOwner(scope, scope.file), {"FUNCTION_PARAMETERS"}))
    BY <1>6, <2>1 DEF VisitParmVarDecl, SameWalk
  <2>3. ParameterOwner(scope, scope.file) = owner
    BY DEF TruthInv, UnitInCurrentFile, ParameterOwner
  <2>4. owner # NoUnit => owner.file = curFile /\ curUnit # NoUnit
    BY DEF UnitInCurrentFile, ParameterOwner, FileUnit
  <2> HIDE DEF owner
  <2>5. Matched(curFile, Charges(owner, {"FUNCTION_PARAMETERS"}), Charges(owner, {"FUNCTION_PARAMETERS"}))
    BY <2>4, ChargesMatch DEF TruthInv, GateTrue
  <2>6. Truths' /\ Agree'
    BY <2>2, <2>3, <2>5, TallyTrue DEF TruthInv, PlaceInv, CounterInv
  <2>7. QED
    BY <2>2, <2>6, InsideTrue DEF TruthInv
<1>7. \A p \in Locations : ~ VisitStrayParameter(p) /\ ~ VisitTypeDecl(p)
  BY DEF PlainProgram, VisitStrayParameter, VisitTypeDecl
<1>8. ASSUME NEW ms \in StatementCounts, VisitStatement(ms) PROVE TruthInv'
  <2>1. Within(ms, Charges(scope, ms)) /\ SameWalk /\ UNCHANGED <<nesting, deepest>>
    BY <1>8 DEF VisitStatement, SameWalk
  <2>2. QED
    BY <2>1, WithinTrue DEF TruthInv
<1>9. ASSUME NEW depth \in Depths, VisitControl(depth) PROVE TruthInv'
  <2>1. /\ Within({"LOOPS"}, Charges(scope, {"LOOPS"})) /\ SameWalk
        /\ nesting' = [u \in Units |-> IF u = curUnit /\ depth > nesting[u] THEN depth ELSE nesting[u]]
        /\ deepest' = [u \in Units |-> Max({deepest[u]} \cup IF u = scope THEN {depth} ELSE {})]
    BY <1>9 DEF VisitControl, SameWalk
  <2>2. depth \in Nat
    BY OptionAssumption
  <2>3. \A u \in Units : Max({deepest[u]} \cup IF u = scope THEN {depth} ELSE {})
          = IF u = curUnit /\ depth > nesting[u] THEN depth ELSE nesting[u]
    BY <2>2, DeeperOf DEF TruthInv
  <2>4. deepest' = nesting'
    BY <2>1, <2>3
  <2>5. nesting' \in [Units -> Nat]
    BY <2>1, <2>2 DEF TruthInv
  <2>6. QED
    BY <2>1, <2>4, <2>5, WithinTrue DEF TruthInv
<1>10. ASSUME NEW g \in FnNames \cup {NoFn}, VisitCallExpr(g) PROVE TruthInv'
  BY <1>10, CallTrue
<1>11. CASE UNCHANGED vars
  BY <1>11 DEF vars, visitor, history, TruthInv, Truths, Agree, GateTrue
<1>12. QED
  BY <1>1, <1>2, <1>3, <1>4, <1>5, <1>6, <1>7, <1>8, <1>9, <1>10, <1>11 DEF Next

LEMMA TruthInit == Init => TruthInv
BY DEF Init, TruthInv, Truths, Agree, GateTrue

\* The invariants of AstPassProofs and the marks, together.
LEMMA WalkInvariant == Spec => [](PlaceInv /\ GateInv /\ FirstInv)
<1>1. PlaceInv /\ GateInv /\ FirstInv /\ [Next]_vars => (PlaceInv /\ GateInv /\ FirstInv)'
  BY PlaceStep, StepKeeps, FirstStep, SMTT(40) DEF GateInv
<1>2. QED
  BY <1>1, PlaceInit, InitKeeps, FirstInit, PTL DEF Spec

LEMMA SameProgram == [Next]_vars => UNCHANGED program
BY DEF Next, StartTU, EndTU, VisitFunctionDefinition, VisitPrototype, VisitVarDecl,
       VisitParmVarDecl, VisitStrayParameter, VisitTypeDecl, VisitStatement, VisitControl,
       VisitCallExpr, vars

\* Every node counts once, in the first translation unit with its file, for the
\* declaration that encloses it: the state of the visitor, which callbacks set and others
\* use, never charges another unit.
THEOREM CountersTrue ==
  ASSUME MainsAreSources
  PROVE  Spec => []CountsAreTrue
<1> DEFINE Kept == PlainProgram => TruthInv
<1>1. Init => Kept
  BY TruthInit
<1>2. Kept /\ PlaceInv /\ GateInv /\ FirstInv /\ [Next]_vars => Kept'
  BY TruthStep, SameProgram DEF PlainProgram, GateInv
<1>3. Kept => CountsAreTrue
  BY DEF PlainProgram, TruthInv, Agree, CountsAreTrue
<1> HIDE DEF Kept
<1>4. QED
  BY <1>1, <1>2, <1>3, WalkInvariant, PTL DEF Spec
-----------------------------------------------------------------------------
(* Calls. *)

\* A function called that is defined in the translation unit, and not excluded.
Credited(g) == /\ g \in DOMAIN ast.body
               /\ ShouldIncludeFile(DefResolved(ast.body[g].path)) /\ ShouldIncludeFunction(g)
Callee(g) == FunctionUnit(DefResolved(ast.body[g].path), g)

\* In a function, m_fnsCalled holds the names called in it; elsewhere it is empty.
NamesInv ==
  /\ scope.fn # NoFn => curUnit = scope
  /\ IF curUnit.fn = NoFn THEN fnsCalled = {} ELSE fnsCalled = names[curUnit]
  /\ curUnit.fn # NoFn => /\ curUnit.fn \in visited /\ ast # NoTU
                          /\ fnsCalled \ DOMAIN ast.body \subseteq unresolved[curUnit]
                          /\ \A g \in fnsCalled :
                               Credited(g) => <<tu, curUnit>> \in callers[Callee(g)]
  /\ names \in [Units -> SUBSET FnNames]

\* The callers of a function, of this translation unit, were visited, and if the current
\* function is one of them it has called it.
CallersInv ==
  /\ tu \in Nat /\ callers \in [Units -> SUBSET (Nat \X Units)]
  /\ \A u \in Units :
       /\ IsFiniteSet(callers[u])
       /\ counter[u]["CALLED_BY_LOCAL"] = Cardinality(callers[u])
       /\ \A c \in callers[u] :
            /\ c[1] <= tu /\ c[2].fn # NoFn
            /\ c[1] = tu /\ ast # NoTU => /\ c[2].fn \in visited
                                          /\ c[2] = curUnit => u.fn \in fnsCalled

ClosedInv == \A u \in Units : u.fn # NoFn /\ u # curUnit => different[u] = Cardinality(names[u])
UnseenInv == unseen \in [Units -> SUBSET FnNames] /\ \A u \in Units : unresolved[u] = unseen[u]

CallInv == NamesInv /\ CallersInv /\ ClosedInv /\ UnseenInv

LEMMA CallInit == Init => CallInv
<1> SUFFICES ASSUME Init PROVE CallInv
  OBVIOUS
<1>1. NoUnit.fn = NoFn /\ "CALLED_BY_LOCAL" \in Metrics
  BY DEF NoUnit, Metrics
<1>2. NamesInv
  BY <1>1 DEF Init, NamesInv
<1>3. CallersInv
  BY <1>1, FS_EmptySet DEF Init, CallersInv
<1>4. ClosedInv /\ UnseenInv
  BY FS_EmptySet DEF Init, ClosedInv, UnseenInv
<1>5. QED
  BY <1>2, <1>3, <1>4 DEF CallInv

\* A step that is about no calls.
Calm ==
  /\ UNCHANGED <<program, tu, ast, visited, unresolved, names, unseen, callers>>
  /\ \A u \in Units : counter'[u]["CALLED_BY_LOCAL"] = counter[u]["CALLED_BY_LOCAL"]

LEMMA NoCredit ==
  ASSUME NEW f, NEW S, NEW T, Counters, Tally(f, S, T), \A x \in S : x[2] # "CALLED_BY_LOCAL"
  PROVE  \A u \in Units : counter'[u]["CALLED_BY_LOCAL"] = counter[u]["CALLED_BY_LOCAL"]
<1> DEFINE A == {x \in S : Admits(f, x[2])}
<1>1. TAKE u \in Units
<1>2. counter \in [Units -> [Metrics -> Nat]] /\ "CALLED_BY_LOCAL" \in Metrics
  BY DEF Counters, Metrics
<1>3. <<u, "CALLED_BY_LOCAL">> \notin A
  OBVIOUS
<1>4. counter' = Bump(counter, A)
  BY DEF Tally
<1> HIDE DEF A
<1>5. counter'[u]["CALLED_BY_LOCAL"] = counter[u]["CALLED_BY_LOCAL"] + 0
  BY <1>2, <1>3, <1>4, Bumped
<1>6. QED
  BY <1>2, <1>5

\* A node within a declaration, which may end for the reader where it does not for the
\* visitor.
LEMMA CalmStays ==
  ASSUME CallInv, Calm, UNCHANGED <<different, visitor>>, scope' = scope \/ scope'.fn = NoFn
  PROVE  CallInv'
<1>1. UNCHANGED <<different, curUnit, fnsCalled, tu, ast, visited, unresolved, names, unseen, callers>>
  BY DEF Calm, visitor
<1>2. NamesInv'
  BY <1>1 DEF CallInv, NamesInv, Credited, Callee, ShouldIncludeFile, ShouldIncludeFunction
<1>3. CallersInv'
  BY <1>1 DEF Calm, CallInv, CallersInv
<1>4. QED
  BY <1>1, <1>2, <1>3 DEF CallInv, ClosedInv, UnseenInv

\* The end of a declaration and the beginning of another that is no function.
LEMMA CalmCloses ==
  ASSUME PlaceInv, CallInv, ast' \in {ast, NoTU},
         UNCHANGED <<tu, visited, unresolved, names, unseen, callers>>,
         \A u \in Units : counter'[u]["CALLED_BY_LOCAL"] = counter[u]["CALLED_BY_LOCAL"],
         different' = DifferentAfterClose(curUnit),
         fnsCalled' = {}, curUnit'.fn = NoFn, scope'.fn = NoFn
  PROVE  CallInv'
<1>1. UNCHANGED <<tu, visited, unresolved, names, unseen, callers>>
  OBVIOUS
<1>2. NamesInv'
  BY <1>1 DEF CallInv, NamesInv
<1>3. CallersInv'
  BY <1>1 DEF CallInv, CallersInv
<1>4. ClosedInv'
  <2> SUFFICES ASSUME NEW u \in Units, u.fn # NoFn
               PROVE  different'[u] = Cardinality(names[u])
    BY <1>1 DEF ClosedInv
  <2>1. different \in [Units -> Nat]
    BY DEF PlaceInv, VisitorInv
  <2>2. CASE u = curUnit
    <3>1. u # NoUnit /\ different' = [different EXCEPT ![u] = Cardinality(fnsCalled)]
      BY <2>2 DEF DifferentAfterClose, NoUnit
    <3>2. fnsCalled = names[u]
      BY <2>2 DEF CallInv, NamesInv
    <3>3. QED
      BY <2>1, <3>1, <3>2
  <2>3. CASE u # curUnit
    <3>1. different'[u] = different[u]
      BY <2>1, <2>3 DEF DifferentAfterClose
    <3>2. QED
      BY <2>3, <3>1 DEF CallInv, ClosedInv
  <2>4. QED
    BY <2>2, <2>3
<1>5. UnseenInv'
  BY <1>1 DEF CallInv, UnseenInv
<1>6. QED
  BY <1>2, <1>3, <1>4, <1>5 DEF CallInv

\* Closing a unit leaves no names.
LEMMA NoNamesLeft ==
  ASSUME NamesInv
  PROVE  NamesAfterClose(curUnit) = {}
BY DEF NamesInv, NamesAfterClose, NoUnit

LEMMA TopLevelCalls ==
  ASSUME PlaceInv, CallInv, NEW p, CloseAndMoveTo(p), Calm, scope'.fn = NoFn
  PROVE  CallInv'
<1>1. /\ different' = DifferentAfterClose(curUnit) /\ fnsCalled' = {}
      /\ curUnit' = UnitAt(p)
  BY NoNamesLeft DEF CloseAndMoveTo, CallInv
<1>2. UnitAt(p).fn = NoFn
  BY DEF UnitAt, FileUnit, NoUnit
<1>3. QED
  BY <1>1, <1>2, CalmCloses DEF Calm

LEMMA DefinitionCalls ==
  ASSUME PlaceInv, CallInv, NEW g \in FnNames, VisitFunctionDefinition(g)
  PROVE  CallInv'
<1> DEFINE d == ast.body[g]
           f == DefResolved(d.path)
           included == ShouldIncludeFile(f) /\ ShouldIncludeFunction(g)
           unit == IF included THEN FunctionUnit(f, g) ELSE NoUnit
           ofFile == {"FUNCTIONS"} \cup (IF d.inline THEN {"INLINE_FUNCTIONS"} ELSE {})
                                   \cup (IF d.static THEN {"LOCAL_FUNCTIONS"} ELSE {})
           ofUnit == IF d.returns THEN {"RETURNPOINTS"} ELSE {}
           charged == IF ~ included THEN {}
                      ELSE Charges(FileUnit(f), ofFile) \cup Charges(unit, ofUnit)
<1>1. /\ ast # NoTU /\ g \in DOMAIN ast.body \ visited /\ visited' = visited \cup {g}
      /\ different' = DifferentAfterClose(curUnit) /\ fnsCalled' = NamesAfterClose(curUnit)
      /\ curUnit' = unit /\ scope' = unit
      /\ Tally(f, charged, charged)
      /\ names' = [u \in Units |-> IF u = unit THEN {} ELSE names[u]]
      /\ UNCHANGED <<tu, ast, unresolved, unseen, callers>>
  BY DEF VisitFunctionDefinition
<1>2. fnsCalled' = {}
  BY <1>1, NoNamesLeft DEF CallInv
<1>3. \A x \in charged : x[2] # "CALLED_BY_LOCAL"
  BY DEF Charges
<1>4. g # NoFn /\ NoFn \notin visited
  BY OptionAssumption DEF PlaceInv, WalkInv
<1>5. f \in Files
  BY <1>1, UnitOfProgram DEF PlaceInv
<1>6. /\ unit = NoUnit \/ (unit \in Units /\ unit.fn = g)
      /\ NoUnit.fn = NoFn /\ (unit.fn # NoFn => unit.fn = g /\ unit \in Units)
  BY <1>5 DEF FunctionUnit, Units, NoUnit
<1> HIDE DEF charged, unit, f
<1>7. \A u \in Units : counter'[u]["CALLED_BY_LOCAL"] = counter[u]["CALLED_BY_LOCAL"]
  BY <1>1, <1>3, NoCredit DEF PlaceInv, CounterInv
<1>8. NamesInv'
  <2>1. names' \in [Units -> SUBSET FnNames]
    BY <1>1 DEF CallInv, NamesInv
  <2>2. unit.fn # NoFn => names'[unit] = {} /\ unit.fn \in visited'
    BY <1>1, <1>6
  <2>3. QED
    BY <1>1, <1>2, <2>1, <2>2 DEF NamesInv
<1>9. CallersInv'
  <2> SUFFICES ASSUME NEW u \in Units, NEW c \in callers[u], c[1] = tu
               PROVE  c[2].fn \in visited' /\ c[2] # unit
    BY <1>1, <1>7 DEF CallInv, CallersInv
  <2>1. c[2].fn \in visited /\ c[2].fn # NoFn
    BY <1>1 DEF CallInv, CallersInv
  <2>2. QED
    BY <1>1, <1>6, <2>1
<1>10. ClosedInv'
  <2> SUFFICES ASSUME NEW u \in Units, u.fn # NoFn, u # unit
               PROVE  different'[u] = Cardinality(names'[u])
    BY <1>1 DEF ClosedInv
  <2>1. different \in [Units -> Nat] /\ names'[u] = names[u]
    BY <1>1 DEF PlaceInv, VisitorInv
  <2>2. CASE u = curUnit
    <3>1. u # NoUnit /\ different' = [different EXCEPT ![u] = Cardinality(fnsCalled)]
      BY <1>1, <2>2 DEF DifferentAfterClose, NoUnit
    <3>2. fnsCalled = names[u]
      BY <2>2 DEF CallInv, NamesInv
    <3>3. QED
      BY <2>1, <3>1, <3>2
  <2>3. CASE u # curUnit
    <3>1. different'[u] = different[u]
      BY <1>1, <2>1, <2>3 DEF DifferentAfterClose
    <3>2. QED
      BY <2>1, <2>3, <3>1 DEF CallInv, ClosedInv
  <2>4. QED
    BY <2>2, <2>3
<1>11. UnseenInv'
  BY <1>1 DEF CallInv, UnseenInv
<1>12. QED
  BY <1>8, <1>9, <1>10, <1>11 DEF CallInv

LEMMA StartCalls ==
  ASSUME PlaceInv, CallInv, NEW t, StartTU(t)
  PROVE  CallInv'
<1>1. /\ tu' = tu + 1 /\ ast = NoTU /\ curUnit' = NoUnit /\ scope' = NoUnit /\ fnsCalled' = {}
      /\ UNCHANGED <<counter, different, unresolved, names, unseen, callers>>
  BY DEF StartTU
<1>2. NoUnit.fn = NoFn
  BY DEF NoUnit
<1>3. NamesInv'
  BY <1>1, <1>2 DEF CallInv, NamesInv
<1>4. CallersInv'
  BY <1>1 DEF CallInv, CallersInv
<1>5. ClosedInv'
  <2>1. curUnit.fn = NoFn
    BY <1>1 DEF CallInv, NamesInv
  <2>2. QED
    BY <1>1, <2>1 DEF CallInv, ClosedInv
<1>6. UnseenInv'
  BY <1>1 DEF CallInv, UnseenInv
<1>7. QED
  BY <1>3, <1>4, <1>5, <1>6 DEF CallInv

\* A call: the name is new to m_fnsCalled when it is new to the function, and then the
\* function called has one more caller.
LEMMA CallCalls ==
  ASSUME PlaceInv, CallInv, CallsAreInFunctions, NEW g \in FnNames \cup {NoFn}, VisitCallExpr(g)
  PROVE  CallInv'
<1> DEFINE home == DefResolved(ast.body[g].path)
           new == g # NoFn /\ g \notin fnsCalled
           credit == IF new /\ Credited(g) THEN {<<Callee(g), "CALLED_BY_LOCAL">>} ELSE {}
           counted == {"FUNCTION_CALLS"} \cup
                        (IF Visible(g) THEN {"LOCAL_FUNCTION_CALLS"} ELSE {})
           S == Charges(curUnit, counted)
           T == Charges(scope, {"FUNCTION_CALLS"})
<1>1. /\ ast # NoTU /\ scope.fn # NoFn
      /\ UNCHANGED <<tu, ast, visited, curUnit, scope, different>>
  BY DEF VisitCallExpr, OtherNode, CallsAreInFunctions
<1>2. /\ curUnit = scope /\ curUnit.fn # NoFn /\ curUnit \in Units /\ curUnit # NoUnit
      /\ fnsCalled = names[curUnit] /\ fnsCalled \subseteq FnNames /\ NoFn \notin FnNames
  BY <1>1, OptionAssumption DEF CallInv, NamesInv, PlaceInv, VisitorInv, NoUnit
<1>3. /\ fnsCalled' = fnsCalled \cup ({g} \ {NoFn})
      /\ unresolved' = [u \in Units |-> unresolved[u] \cup
                          (IF u = curUnit /\ new /\ ~ Visible(g) THEN {g} ELSE {})]
      /\ names' = [u \in Units |-> names[u] \cup (IF u = curUnit THEN {g} \ {NoFn} ELSE {})]
      /\ unseen' = [u \in Units |-> unseen[u] \cup
                      (IF u = curUnit THEN {g} \ (DOMAIN ast.body \cup {NoFn}) ELSE {})]
      /\ callers' = [u \in Units |-> callers[u] \cup
                       (IF Credited(g) /\ u = Callee(g) THEN {<<tu, curUnit>>} ELSE {})]
  BY <1>1, <1>2 DEF VisitCallExpr, NewName, Credited, Callee
<1>4. Tally(curFile, S \cup credit, T)
  BY <1>2 DEF VisitCallExpr, NewName, Credited, Callee, Visible
<1>5. Visible(g) <=> g \in DOMAIN ast.body
  BY DEF Visible
<1>6. Credited(g) => Callee(g) \in Units /\ Callee(g).fn = g /\ g # NoFn
  BY <1>1, <1>2, UnitOfProgram DEF PlaceInv, Credited, Callee, FunctionUnit, Units
<1>7. /\ \A x \in S : x[2] # "CALLED_BY_LOCAL"
      /\ \A x \in credit : x = <<Callee(g), "CALLED_BY_LOCAL">> /\ new /\ Credited(g)
      /\ (new /\ Credited(g) => <<Callee(g), "CALLED_BY_LOCAL">> \in credit)
  BY DEF Charges
<1> HIDE DEF home, S, T, credit, counted
<1>8. ASSUME NEW u \in Units
      PROVE  counter'[u]["CALLED_BY_LOCAL"] =
               counter[u]["CALLED_BY_LOCAL"] + (IF new /\ Credited(g) /\ u = Callee(g) THEN 1 ELSE 0)
  <2> DEFINE A == {x \in S \cup credit : Admits(curFile, x[2])}
  <2>1. counter \in [Units -> [Metrics -> Nat]] /\ "CALLED_BY_LOCAL" \in Metrics
    BY DEF PlaceInv, CounterInv, Counters, Metrics
  <2>2. counter' = Bump(counter, A)
    BY <1>4 DEF Tally
  <2>3. <<u, "CALLED_BY_LOCAL">> \in A <=> new /\ Credited(g) /\ u = Callee(g)
    BY <1>7 DEF Admits, MultiPass
  <2> HIDE DEF A, new
  <2>4. counter'[u]["CALLED_BY_LOCAL"] = counter[u]["CALLED_BY_LOCAL"] +
          (IF <<u, "CALLED_BY_LOCAL">> \in A THEN 1 ELSE 0)
    BY <2>1, <2>2, Bumped
  <2>5. QED
    BY <2>3, <2>4
<1>9. g \in FnNames \/ g = NoFn
  OBVIOUS
<1>10. NamesInv'
  <2>1. names' \in [Units -> SUBSET FnNames]
    BY <1>3, <1>9 DEF CallInv, NamesInv
  <2>2. fnsCalled' = names'[curUnit]
    BY <1>2, <1>3
  <2>3. fnsCalled' \ DOMAIN ast.body \subseteq unresolved'[curUnit]
    BY <1>2, <1>3, <1>5 DEF CallInv, NamesInv
  <2>4. ASSUME NEW h \in fnsCalled', Credited(h)
        PROVE  <<tu, curUnit>> \in callers'[Callee(h)]
    <3>1. CASE h = g
      BY <1>3, <1>6, <2>4, <3>1
    <3>2. CASE h # g
      <4>1. h \in fnsCalled /\ <<tu, curUnit>> \in callers[Callee(h)]
        BY <1>2, <1>3, <2>4, <3>2 DEF CallInv, NamesInv
      <4>2. Callee(h) \in Units
        BY <1>1, <2>4, UnitOfProgram DEF PlaceInv, Credited, Callee, FunctionUnit, Units
      <4>3. QED
        BY <1>3, <4>1, <4>2
    <3>3. QED
      BY <3>1, <3>2
  <2>5. curUnit.fn \in visited
    BY <1>2 DEF CallInv, NamesInv
  <2>6. QED
    BY <1>1, <1>2, <2>1, <2>2, <2>3, <2>4, <2>5
    DEF NamesInv, Credited, Callee, ShouldIncludeFile, ShouldIncludeFunction
<1>11. CallersInv'
  <2>1. tu \in Nat /\ callers \in [Units -> SUBSET (Nat \X Units)]
    BY DEF CallInv, CallersInv
  <2>2. callers' \in [Units -> SUBSET (Nat \X Units)]
    BY <1>2, <1>3, <2>1
  <2>3. ASSUME NEW u \in Units
        PROVE  /\ IsFiniteSet(callers'[u])
               /\ counter'[u]["CALLED_BY_LOCAL"] = Cardinality(callers'[u])
    <3>1. IsFiniteSet(callers[u]) /\ counter[u]["CALLED_BY_LOCAL"] = Cardinality(callers[u])
      BY DEF CallInv, CallersInv
    <3>2. Cardinality(callers[u]) \in Nat
      BY <3>1, FS_CardinalityType
    <3>3. CASE Credited(g) /\ u = Callee(g)
      <4>1. callers'[u] = callers[u] \cup {<<tu, curUnit>>}
        BY <1>3, <3>3
      <4>2. CASE new
        <5>1. <<tu, curUnit>> \notin callers[u]
          <6>1. ASSUME <<tu, curUnit>> \in callers[u] PROVE u.fn \in fnsCalled
            BY <1>1, <6>1 DEF CallInv, CallersInv
          <6>2. QED
            BY <1>6, <3>3, <4>2, <6>1
        <5>2. /\ IsFiniteSet(callers'[u])
              /\ Cardinality(callers'[u]) = Cardinality(callers[u]) + 1
          <6> DEFINE old == callers[u]
                     x == <<tu, curUnit>>
          <6>1. IsFiniteSet(old) /\ x \notin old /\ callers'[u] = old \cup {x}
            BY <3>1, <4>1, <5>1
          <6> HIDE DEF old, x
          <6>2. IsFiniteSet(old \cup {x}) /\ Cardinality(old \cup {x}) = Cardinality(old) + 1
            BY <6>1, FS_AddElement
          <6>3. QED
            BY <6>1, <6>2 DEF old
        <5>3. counter'[u]["CALLED_BY_LOCAL"] = counter[u]["CALLED_BY_LOCAL"] + 1
          BY <1>8, <3>3, <4>2
        <5>4. QED
          BY <3>1, <5>2, <5>3
      <4>3. CASE ~ new
        <5>1. <<tu, curUnit>> \in callers[u]
          BY <1>2, <1>6, <3>3, <4>3 DEF CallInv, NamesInv
        <5>2. callers'[u] = callers[u]
          BY <4>1, <5>1
        <5> HIDE DEF new
        <5>3. counter'[u]["CALLED_BY_LOCAL"] = counter[u]["CALLED_BY_LOCAL"] + 0
          BY <1>8, <4>3
        <5>4. QED
          BY <3>1, <3>2, <5>2, <5>3
      <4>4. QED
        BY <4>2, <4>3
    <3>4. CASE ~ (Credited(g) /\ u = Callee(g))
      <4>1. callers'[u] = callers[u]
        BY <1>3, <3>4
      <4> HIDE DEF new
      <4>2. counter'[u]["CALLED_BY_LOCAL"] = counter[u]["CALLED_BY_LOCAL"] + 0
        BY <1>8, <3>4
      <4>3. QED
        BY <3>1, <3>2, <4>1, <4>2
    <3>5. QED
      BY <3>3, <3>4
  <2>4. ASSUME NEW u \in Units, NEW c \in callers'[u]
        PROVE  /\ c[1] <= tu /\ c[2].fn # NoFn
               /\ c[1] = tu => /\ c[2].fn \in visited
                               /\ c[2] = curUnit => u.fn \in fnsCalled'
    <3>1. CASE c \in callers[u]
      BY <1>1, <1>3, <3>1 DEF CallInv, CallersInv
    <3>2. CASE c \notin callers[u]
      <4>1. c = <<tu, curUnit>> /\ Credited(g) /\ u = Callee(g)
        BY <1>3, <3>2
      <4>2. u.fn = g /\ g \in fnsCalled'
        BY <1>3, <1>6, <4>1
      <4>3. curUnit.fn \in visited
        BY <1>2 DEF CallInv, NamesInv
      <4>4. QED
        BY <1>2, <2>1, <4>1, <4>2, <4>3
    <3>3. QED
      BY <3>1, <3>2
  <2>5. QED
    BY <1>1, <2>1, <2>2, <2>3, <2>4 DEF CallersInv
<1>12. ClosedInv'
  BY <1>1, <1>3 DEF CallInv, ClosedInv
<1>13. UnseenInv'
  <2>1. ASSUME NEW u \in Units PROVE unresolved'[u] = unseen'[u]
    <3>1. unresolved[u] = unseen[u]
      BY DEF CallInv, UnseenInv
    <3>2. CASE u = curUnit
      <4>1. g \in fnsCalled /\ g \notin DOMAIN ast.body => g \in unresolved[u]
        BY <1>2, <3>2 DEF CallInv, NamesInv
      <4>2. g \in fnsCalled => g # NoFn
        BY <1>2
      <4>3. QED
        BY <1>3, <1>5, <3>1, <3>2, <4>1, <4>2
    <3>3. CASE u # curUnit
      BY <1>3, <3>1, <3>3
    <3>4. QED
      BY <3>2, <3>3
  <2>2. unseen' \in [Units -> SUBSET FnNames]
    BY <1>3, <1>9 DEF CallInv, UnseenInv
  <2>3. QED
    BY <2>1, <2>2 DEF UnseenInv
<1>14. QED
  BY <1>10, <1>11, <1>12, <1>13 DEF CallInv

\* Every step keeps what is known of calls, in a program where calls are in functions and
\* nothing but a declaration ends one.
LEMMA CallStep ==
  ASSUME PlaceInv, CallsAreInFunctions, CallInv, [Next]_vars
  PROVE  CallInv'
<1>1. ASSUME NEW t \in TUs, StartTU(t) PROVE CallInv'
  BY <1>1, StartCalls
<1>2. CASE EndTU
  <2>1. /\ ast' = NoTU /\ different' = DifferentAfterClose(curUnit) /\ fnsCalled' = {}
        /\ curUnit' = NoUnit /\ scope' = NoUnit
        /\ UNCHANGED <<tu, counter, visited, unresolved, names, unseen, callers>>
    BY <1>2 DEF EndTU
  <2>2. NoUnit.fn = NoFn
    BY DEF NoUnit
  <2>3. QED
    BY <2>1, <2>2, CalmCloses
<1>3. ASSUME NEW g \in FnNames, VisitFunctionDefinition(g) PROVE CallInv'
  BY <1>3, DefinitionCalls
<1>4. ASSUME NEW p, NEW ms, TopLevel(p, ms), "CALLED_BY_LOCAL" \notin ms,
             UNCHANGED <<program, tu, ast, visited, unresolved, names, unseen, callers>>
      PROVE  CallInv'
  <2>1. CloseAndMoveTo(p) /\ Tally(DefResolved(p), Charges(UnitAt(p), ms), Charges(UnitAt(p), ms))
        /\ scope' = UnitAt(p)
    BY <1>4 DEF TopLevel
  <2>2. \A x \in Charges(UnitAt(p), ms) : x[2] # "CALLED_BY_LOCAL"
    BY <1>4 DEF Charges
  <2>3. Calm
    BY <1>4, <2>1, <2>2, NoCredit DEF Calm, PlaceInv, CounterInv
  <2>4. UnitAt(p).fn = NoFn
    BY DEF UnitAt, FileUnit, NoUnit
  <2>5. QED
    BY <2>1, <2>3, <2>4, TopLevelCalls
<1>5. ASSUME NEW u, NEW ms, NEW T, Stay, scope' = scope, Tally(curFile, Charges(u, ms), T),
             "CALLED_BY_LOCAL" \notin ms,
             UNCHANGED <<program, tu, ast, visited, unresolved, names, unseen, callers>>
      PROVE  CallInv'
  <2>1. \A x \in Charges(u, ms) : x[2] # "CALLED_BY_LOCAL"
    BY <1>5 DEF Charges
  <2>2. Calm
    BY <1>5, <2>1, NoCredit DEF Calm, PlaceInv, CounterInv
  <2>3. QED
    BY <1>5, <2>2, CalmStays DEF Stay
<1>6. ASSUME NEW p \in Locations, NEW extern \in BOOLEAN, VisitPrototype(p, extern) PROVE CallInv'
  <2> DEFINE declared == IF extern THEN {"EXTERN_FUNCTIONS"} ELSE {}
  <2>1. /\ UNCHANGED <<program, tu, ast, visited, unresolved, names, unseen, callers>>
        /\ TopLevel(p, declared) \/ Within(declared, Charges(scope, declared))
    BY <1>6 DEF VisitPrototype
  <2>2. "CALLED_BY_LOCAL" \notin declared
    OBVIOUS
  <2> HIDE DEF declared
  <2>3. QED
    BY <1>4, <1>5, <2>1, <2>2 DEF Within
<1>7. ASSUME NEW p \in Locations, NEW init \in BOOLEAN, VisitVarDecl(p, init) PROVE CallInv'
  <2> DEFINE statement == IF init THEN {"STATEMENTS"} ELSE {}
             atTop == {"VARIABLE_FILE"} \cup statement
             inside == {"VARIABLE_FN"} \cup statement
  <2>1. /\ UNCHANGED <<program, tu, ast, visited, unresolved, names, unseen, callers>>
        /\ TopLevel(p, atTop) \/ Within(inside, Charges(scope, inside))
    BY <1>7 DEF VisitVarDecl
  <2>2. "CALLED_BY_LOCAL" \notin atTop /\ "CALLED_BY_LOCAL" \notin inside
    OBVIOUS
  <2> HIDE DEF atTop, inside
  <2>3. QED
    BY <1>4, <1>5, <2>1, <2>2 DEF Within
<1>8. ASSUME NEW mine \in BOOLEAN, VisitParmVarDecl(mine) PROVE CallInv'
  <2>1. PICK T : Tally(curFile, Charges(ParameterOwner(curUnit, curFile), {"FUNCTION_PARAMETERS"}), T)
    BY <1>8 DEF VisitParmVarDecl
  <2>2. /\ UNCHANGED <<program, tu, ast, visited, unresolved, names, unseen, callers>>
        /\ Stay /\ scope' = scope
    BY <1>8 DEF VisitParmVarDecl
  <2>3. QED
    BY <1>5, <2>1, <2>2
<1>9. \A p \in Locations : ~ VisitStrayParameter(p)
  BY DEF CallsAreInFunctions, VisitStrayParameter
<1>10. ASSUME NEW p \in Locations, VisitTypeDecl(p) PROVE CallInv'
  <2>1. Calm /\ UNCHANGED <<different, visitor>> /\ scope' = UnitAt(p)
    BY <1>10 DEF VisitTypeDecl, Stay, Calm
  <2>2. UnitAt(p).fn = NoFn
    BY DEF UnitAt, FileUnit, NoUnit
  <2>3. QED
    BY <2>1, <2>2, CalmStays
<1>11. ASSUME NEW ms \in StatementCounts, VisitStatement(ms) PROVE CallInv'
  <2>1. "CALLED_BY_LOCAL" \notin ms
    BY OptionAssumption DEF MultiPass
  <2>2. /\ UNCHANGED <<program, tu, ast, visited, unresolved, names, unseen, callers>>
        /\ Within(ms, Charges(scope, ms))
    BY <1>11 DEF VisitStatement
  <2>3. QED
    BY <1>5, <2>1, <2>2 DEF Within
<1>12. ASSUME NEW depth \in Depths, VisitControl(depth) PROVE CallInv'
  <2>1. /\ UNCHANGED <<program, tu, ast, visited, unresolved, names, unseen, callers>>
        /\ Within({"LOOPS"}, Charges(scope, {"LOOPS"}))
    BY <1>12 DEF VisitControl
  <2>2. QED
    BY <1>5, <2>1 DEF Within
<1>13. ASSUME NEW g \in FnNames \cup {NoFn}, VisitCallExpr(g) PROVE CallInv'
  BY <1>13, CallCalls
<1>14. CASE UNCHANGED vars
  <2>1. Calm /\ UNCHANGED <<different, visitor, scope>>
    BY <1>14 DEF vars, visitor, history, Calm
  <2>2. QED
    BY <2>1, CalmStays
<1>15. QED
  BY <1>1, <1>2, <1>3, <1>6, <1>7, <1>8, <1>9, <1>10, <1>11, <1>12, <1>13, <1>14 DEF Next

LEMMA CallInvariant == Spec => [](CallsAreInFunctions => CallInv)
<1> DEFINE Kept == CallsAreInFunctions => CallInv
<1>1. Init => Kept
  BY CallInit
<1>2. Kept /\ PlaceInv /\ [Next]_vars => Kept'
  BY CallStep, SameProgram DEF CallsAreInFunctions
<1> HIDE DEF Kept
<1>3. Spec => []Kept
  BY <1>1, <1>2, WalkInvariant, PTL DEF Spec
<1>4. QED
  BY <1>3 DEF Kept

\* What the end of a function records is the number of names called in it.
THEOREM NamesOfTheFunction == Spec => []DifferentFunctionsCalled
<1>1. (CallsAreInFunctions => CallInv) => DifferentFunctionsCalled
  BY DEF CallInv, ClosedInv, DifferentFunctionsCalled
<1>2. QED
  BY <1>1, CallInvariant, PTL

\* The names left to the linkage resolver are those called while their body was not
\* visible, all of them and no others.
THEOREM NamesLeftOver == Spec => []UnresolvedExact
<1>1. (CallsAreInFunctions => CallInv) => UnresolvedExact
  BY DEF CallInv, UnseenInv, UnresolvedExact
<1>2. QED
  BY <1>1, CallInvariant, PTL

\* A function that calls another is counted once in each translation unit, however often
\* it calls.
THEOREM CallersOnce == Spec => []CalledOncePerTU
<1>1. (CallsAreInFunctions => CallInv) => CalledOncePerTU
  BY DEF CallInv, CallersInv, CalledOncePerTU
<1>2. QED
  BY <1>1, CallInvariant, PTL
=============================================================================
