------------------------------ MODULE AstPass ------------------------------
(***************************************************************************)
(* The first pass over the syntax tree of every translation unit           *)
(* (MetricVisitor in src/src/MetricMatcher.cpp, driven by                  *)
(* MetricASTConsumer::HandleTranslationUnit).                              *)
(*                                                                         *)
(* Clang walks each tree and calls a Visit function at every node; which   *)
(* nodes there are is the program's affair, so every step takes any node   *)
(* that may come next.  The visitor keeps the file and the unit it is "in" *)
(* (m_currentFileName, m_currentUnit) and charges each node to that unit.  *)
(* A file included by several translation units must be counted once, and  *)
(* each node must be charged to the declaration that encloses it: "scope", *)
(* "truth" and the other history variables say what that would be.         *)
(*                                                                         *)
(* A location is the include stack it was reached by, innermost file       *)
(* first.  The saturation of the counters is in MetricUnit.                *)
(***************************************************************************)
EXTENDS Integers, Sequences, FiniteSets, SequencesExt, FiniteSetsExt

CONSTANTS
  Files, FnNames,  \* names of files and of functions
  NoFile, NoFn,    \* no current file; function part of a file unit, or a call by pointer
  Programs,        \* what ccsm may be run on: [tus, idioms, fileScope], see ProgramAssumption
  DefFiles,        \* --def-file
  FileSize,        \* bytes of each file
  ExcludedFiles,   \* --exclude
  ExcludedFns,     \* --exclude-function
  StatementCounts, \* sets of metrics that one statement or operator counts
  Depths,          \* nesting depths of control statements
  MaxNodes         \* bound on the nodes of one translation unit, its functions aside

\* Constructs a program may or may not use:
\*   typeConstants   expressions in a top-level enum, struct or typedef
\*   fileScopeCalls  calls outside functions, as in: int size = sizeof(f(0));
\*   strayParameters parameters clang leaves in the translation unit's context:
\*                   those of a function pointer, as in: void f(int (*cb)(int x))
\*   localPrototypes parameters of a prototype inside a function body
AllIdioms == {"typeConstants", "fileScopeCalls", "strayParameters", "localPrototypes"}

\* Metrics charged by increment(), one for each way they are charged.
Metrics ==
  {"FUNCTIONS", "LOCAL_FUNCTIONS", "INLINE_FUNCTIONS", "RETURNPOINTS", "EXTERN_FUNCTIONS",
   "VARIABLE_FILE", "VARIABLE_FN", "FUNCTION_PARAMETERS", "STATEMENTS", "LOOPS",
   "FUNCTION_CALLS", "LOCAL_FUNCTION_CALLS", "CALLED_BY_LOCAL"}

\* The metrics metrics.def allows to accumulate over several passes of a file.
MultiPass == {"LOCAL_FUNCTION_CALLS", "CALLED_BY_LOCAL"}

TUs == UNION {Range(p.tus) : p \in Programs}
Locations == UNION {t.paths : t \in TUs}

\* A program is its translation units in the order they are analysed, the idioms it uses
\* and --prototypes-are-filescope.
ASSUME ProgramAssumption ==
  \A p \in Programs : p.tus \in Seq(TUs) /\ p.idioms \subseteq AllIdioms /\ p.fileScope \in BOOLEAN

\* A translation unit has a main file and the locations in it; body gives, for the
\* functions defined in the unit, where they are, and whether they are static, inline,
\* and have a return point, explicit or not.
ASSUME TUAssumption ==
  \A t \in TUs :
    /\ t.main \in Files
    /\ t.paths \subseteq Seq(Files) \ {<<>>}
    /\ \A p \in t.paths : Last(p) = t.main
    /\ DOMAIN t.body \subseteq FnNames
    /\ \A f \in DOMAIN t.body :
         t.body[f].path \in t.paths
         /\ {t.body[f].static, t.body[f].inline, t.body[f].returns} \subseteq BOOLEAN
ASSUME OptionAssumption ==
  /\ NoFile \notin Files /\ NoFn \notin FnNames \cup ExcludedFns
  /\ FileSize \in [Files -> Nat]
  /\ StatementCounts \subseteq SUBSET (Metrics \ MultiPass)
  /\ Depths \subseteq Nat /\ MaxNodes \in Nat

FileUnit(f) == [file |-> f, fn |-> NoFn]
FunctionUnit(f, g) == [file |-> f, fn |-> g]
Units == [file : Files, fn : FnNames \cup {NoFn}]
NoUnit == [file |-> NoFile, fn |-> NoFn]
NoTU == [main |-> NoFile]

VARIABLES
  program,     \* the program, and the option, of this run
  tu,          \* translation units begun so far
  ast,         \* the one being walked, or NoTU
  units,       \* units created by getSubUnit()
  byteCount,   \* METRIC_TYPE_BYTE_COUNT, charged by set()
  counter,     \* m_counters of the metrics above
  nesting,     \* METRIC_TYPE_NESTING_LEVEL, charged by setMax()
  different,   \* METRIC_TYPE_DIFFERENT_FUNCTIONS_CALLED, charged by set()
  unresolved,  \* m_unresolvedFnCalls
  external,    \* units with m_hasExternalLinkage
  processed,   \* files with m_processed[METRIC_UNIT_PROCESS_AST]
  curFile,     \* m_currentFileName
  curUnit,     \* m_currentUnit
  fnsCalled,   \* m_fnsCalled
  visited,     \* functions of the translation unit visited so far
  nodes,       \* other nodes of the translation unit visited so far
  scope,       \* history: unit of the declaration that encloses the current node
  firstTU,     \* history: number of the first translation unit with each file
  truth,       \* history: what each unit's counters should say
  deepest,     \* history: what each unit's nesting level should be
  names,       \* history: names called in each function, in its last walk
  unseen,      \* history: names called in each unit while their body was not visible
  callers      \* history: the <<translation unit, function>> pairs calling each function

visitor == <<curFile, curUnit, fnsCalled>>
history == <<scope, firstTU, truth, deepest, names, unseen, callers>>
vars == <<program, tu, ast, units, byteCount, counter, nesting, different, unresolved, external, processed,
          visitor, visited, nodes, history>>
-----------------------------------------------------------------------------
(* Helpers of the visitor. *)

\* Fault: a def file that a def file includes is not resolved.
OneLevelUp(p) == p[IF Head(p) \in DefFiles /\ Len(p) > 1 THEN 2 ELSE 1]

\* getDefResolvedFileName(): the innermost file that is not a def file; the main
\* file, which nothing includes, if there is no other.
DefResolved(p) == p[Min({i \in DOMAIN p : p[i] \notin DefFiles} \cup {Len(p)})]

ShouldIncludeFile(f) == f \notin ExcludedFiles
ShouldIncludeFunction(g) == g \notin ExcludedFns

\* The files clang read for a translation unit (SourceManager's file infos).
Included(t) == UNION {Range(p) : p \in t.paths}

\* HandleLoc(): the unit for a top-level declaration at p.
UnitAt(p) == IF ShouldIncludeFile(DefResolved(p)) THEN FileUnit(DefResolved(p)) ELSE NoUnit

\* Fault: no test at all.
AdmitsAlways(f, m) == TRUE

\* IncrementMetric(): is metric m charged while the current file is f?
Admits(f, m) == f \notin processed \/ m \in MultiPass

\* What charging the metrics ms to unit u comes to; nothing without a unit.
Charges(u, ms) == IF u = NoUnit THEN {} ELSE {u} \X ms

\* Add one to every counter in S.
Bump(c, S) ==
  [u \in Units |-> IF \A x \in S : x[1] # u THEN c[u]
                  ELSE [m \in Metrics |-> c[u][m] + (IF <<u, m>> \in S THEN 1 ELSE 0)]]

\* Charge S, attributed to file f, while T is what should be charged.
Tally(f, S, T) ==
  /\ counter' = Bump(counter, {x \in S : Admits(f, x[2])})
  /\ truth' = Bump(truth, {x \in T : firstTU[x[1].file] = tu /\ x[2] \notin MultiPass})

\* Fault: the names called survive the function.
KeepNames(u) == fnsCalled

\* CloseOutFnOrMtd(): m_fnsCalled, which only a function's end clears ...
NamesAfterClose(u) == IF u # NoUnit /\ u.fn # NoFn THEN {} ELSE fnsCalled

\* ... after its size was recorded.  This set() is not subject to "processed".
DifferentAfterClose(u) ==
  IF u # NoUnit /\ u.fn # NoFn THEN [different EXCEPT ![u] = Cardinality(fnsCalled)]
  ELSE different
-----------------------------------------------------------------------------
Init ==
  /\ program \in Programs /\ tu = 0 /\ ast = NoTU
  /\ units = {} /\ external = {} /\ processed = {}
  /\ byteCount = [u \in Units |-> 0]
  /\ counter = [u \in Units |-> [m \in Metrics |-> 0]]
  /\ nesting = [u \in Units |-> 0]
  /\ different = [u \in Units |-> 0]
  /\ unresolved = [u \in Units |-> {}]
  /\ curFile = NoFile /\ curUnit = NoUnit /\ fnsCalled = {}
  /\ visited = {} /\ nodes = 0
  /\ scope = NoUnit
  /\ firstTU = [f \in Files |-> 0]
  /\ truth = [u \in Units |-> [m \in Metrics |-> 0]]
  /\ deepest = [u \in Units |-> 0]
  /\ names = [u \in Units |-> {}]
  /\ unseen = [u \in Units |-> {}]
  /\ callers = [u \in Units |-> {}]

\* The units TraverseDecl() makes: of every file that is included, def files too.
FileUnits(t) == {FileUnit(f) : f \in {g \in Included(t) : ShouldIncludeFile(g)}}

\* A new visitor; TraverseDecl() sets the size of every file before it walks the tree.
StartTU(t) ==
  /\ ast = NoTU /\ tu < Len(program.tus) /\ t = program.tus[tu + 1]
  /\ tu' = tu + 1 /\ ast' = t
  /\ units' = units \cup FileUnits(t)
  /\ byteCount' = [u \in Units |-> IF u \in FileUnits(t) THEN FileSize[u.file] ELSE byteCount[u]]
  /\ curFile' = NoFile /\ curUnit' = NoUnit /\ fnsCalled' = {}
  /\ visited' = {} /\ nodes' = 0
  /\ scope' = NoUnit
  /\ firstTU' = [f \in Files |-> IF f \in Included(t) /\ firstTU[f] = 0 THEN tu + 1
                                 ELSE firstTU[f]]
  /\ UNCHANGED <<program, counter, nesting, different, unresolved, external, processed,
                 truth, deepest, names, unseen, callers>>

\* Fault: only the main file is marked.
MarkMain(t) == {f \in {t.main} : ShouldIncludeFile(f)}

\* The files HandleTranslationUnit() marks as processed.
MarkedBy(t) == {f \in Included(t) : ShouldIncludeFile(f) /\ f \notin DefFiles}

\* The rest of TraverseDecl() and of HandleTranslationUnit().
EndTU ==
  /\ ast # NoTU /\ visited = DOMAIN ast.body
  /\ different' = DifferentAfterClose(curUnit)
  /\ processed' = processed \cup MarkedBy(ast)
  /\ ast' = NoTU
  /\ curFile' = NoFile /\ curUnit' = NoUnit /\ fnsCalled' = {}
  /\ scope' = NoUnit
  /\ UNCHANGED <<program, tu, units, byteCount, counter, nesting, unresolved, external, visited, nodes,
                 firstTU, truth, deepest, names, unseen, callers>>

\* VisitFunctionDecl() with a body.  A definition lies in one file.  Its return points
\* (getPathCount() counts the return statements, the rest counts falling off the end)
\* are charged once here, if it has any; PathCount has FUNC_PATHS.
VisitFunctionDefinition(g) ==
  LET d == ast.body[g]
      f == DefResolved(d.path)
      included == ShouldIncludeFile(f) /\ ShouldIncludeFunction(g)
      unit == IF included THEN FunctionUnit(f, g) ELSE NoUnit
      charged ==
        IF ~ included THEN {}
        ELSE Charges(FileUnit(f), {"FUNCTIONS"}
                       \cup (IF d.inline THEN {"INLINE_FUNCTIONS"} ELSE {})
                       \cup (IF d.static THEN {"LOCAL_FUNCTIONS"} ELSE {}))
             \cup Charges(unit, IF d.returns THEN {"RETURNPOINTS"} ELSE {})
  IN
  /\ ast # NoTU /\ g \in DOMAIN ast.body \ visited
  /\ visited' = visited \cup {g}
  /\ different' = DifferentAfterClose(curUnit)
  /\ fnsCalled' = NamesAfterClose(curUnit)
  /\ curFile' = f /\ curUnit' = unit
  /\ units' = units \cup (IF included THEN {FileUnit(f), unit} ELSE {})
  /\ external' = external \cup (IF included /\ ~ d.static THEN {unit} ELSE {})
  /\ Tally(f, charged, charged)
  /\ scope' = unit
  /\ names' = [u \in Units |-> IF u = unit THEN {} ELSE names[u]]
  /\ UNCHANGED <<program, tu, ast, byteCount, nesting, unresolved, processed, nodes, firstTU, deepest,
                 unseen, callers>>

\* Nodes other than definitions, up to MaxNodes of them.
OtherNode == ast # NoTU /\ nodes < MaxNodes /\ nodes' = nodes + 1

\* Fault: the unit changes and the file does not.
MoveUnitOnly(p) ==
  /\ different' = DifferentAfterClose(curUnit)
  /\ fnsCalled' = NamesAfterClose(curUnit)
  /\ curFile' = curFile /\ curUnit' = UnitAt(p)
  /\ units' = units \cup ({UnitAt(p)} \ {NoUnit})

\* DeclCommon() at a declaration whose lexical parent is the translation unit.
CloseAndMoveTo(p) ==
  /\ different' = DifferentAfterClose(curUnit)
  /\ fnsCalled' = NamesAfterClose(curUnit)
  /\ curFile' = DefResolved(p) /\ curUnit' = UnitAt(p)
  /\ units' = units \cup ({UnitAt(p)} \ {NoUnit})

Stay == UNCHANGED <<different, visitor, units>>

\* A top-level declaration at p that counts the metrics ms: DeclCommon() first.
TopLevel(p, ms) ==
  /\ CloseAndMoveTo(p)
  /\ Tally(DefResolved(p), Charges(UnitAt(p), ms), Charges(UnitAt(p), ms))
  /\ scope' = UnitAt(p)

\* A node inside a declaration that counts ms, T being what it should count.
Within(ms, T) ==
  /\ Stay
  /\ Tally(curFile, Charges(curUnit, ms), T)
  /\ scope' = scope

\* VisitFunctionDecl() without a body: only one of storage class extern, or of none,
\* counts.
VisitPrototype(p, extern) ==
  LET declared == IF extern THEN {"EXTERN_FUNCTIONS"} ELSE {} IN
  /\ OtherNode /\ p \in ast.paths
  /\ \/ TopLevel(p, declared)
     \/ scope.fn # NoFn /\ Within(declared, Charges(scope, declared))
  /\ UNCHANGED <<program, tu, ast, byteCount, nesting, unresolved, external, processed, visited,
                 firstTU, deepest, names, unseen, callers>>

\* VisitVarDecl() of a variable; an initialiser, in any of the variable's declarations,
\* counts as a statement.
VisitVarDecl(p, init) ==
  LET statement == IF init THEN {"STATEMENTS"} ELSE {} IN
  /\ OtherNode /\ p \in ast.paths
  /\ \/ TopLevel(p, {"VARIABLE_FILE"} \cup statement)
     \/ /\ scope.fn # NoFn
        /\ Within({"VARIABLE_FN"} \cup statement, Charges(scope, {"VARIABLE_FN"} \cup statement))
  /\ UNCHANGED <<program, tu, ast, byteCount, nesting, unresolved, external, processed, visited,
                 firstTU, deepest, names, unseen, callers>>

\* The unit VisitVarDecl() charges a parameter to, u being the current one in file f.
ParameterOwner(u, f) ==
  IF u = NoUnit THEN NoUnit ELSE IF program.fileScope THEN FileUnit(f) ELSE u

\* VisitVarDecl() of a parameter of the enclosing function or prototype.  In a
\* function body it belongs to a local prototype (mine = FALSE), which should not
\* count for the function.
VisitParmVarDecl(mine) ==
  /\ OtherNode
  /\ ~ mine => scope.fn # NoFn /\ "localPrototypes" \in program.idioms
  /\ Stay /\ scope' = scope
  /\ Tally(curFile, Charges(ParameterOwner(curUnit, curFile), {"FUNCTION_PARAMETERS"}),
           IF mine THEN Charges(ParameterOwner(scope, scope.file), {"FUNCTION_PARAMETERS"})
           ELSE {})
  /\ UNCHANGED <<program, tu, ast, byteCount, nesting, unresolved, external, processed, visited,
                 firstTU, deepest, names, unseen, callers>>

\* The same for a parameter that clang leaves in the translation unit's context:
\* DeclCommon() takes it for the next top-level declaration.
VisitStrayParameter(p) ==
  /\ OtherNode /\ p \in ast.paths
  /\ "strayParameters" \in program.idioms /\ DefResolved(p) = curFile
  /\ CloseAndMoveTo(p) /\ scope' = scope
  /\ Tally(DefResolved(p), Charges(UnitAt(p), {"FUNCTION_PARAMETERS"}),
           Charges(ParameterOwner(scope, scope.file), {"FUNCTION_PARAMETERS"}))
  /\ UNCHANGED <<program, tu, ast, byteCount, nesting, unresolved, external, processed, visited,
                 firstTU, deepest, names, unseen, callers>>

\* VisitEnumDecl(), VisitRecordDecl() and VisitTypedefNameDecl() do nothing, at the
\* top level either; what follows is nevertheless in the scope of that declaration.
VisitTypeDecl(p) ==
  /\ OtherNode /\ p \in ast.paths /\ "typeConstants" \in program.idioms
  /\ Stay /\ scope' = UnitAt(p)
  /\ UNCHANGED <<program, tu, ast, byteCount, counter, nesting, unresolved, external, processed, visited,
                 firstTU, truth, deepest, names, unseen, callers>>

\* VisitStmt(), CountStatements() and the Visit functions of operators, labels and
\* casts: they only count, one set of metrics or another.
VisitStatement(ms) ==
  /\ OtherNode /\ Within(ms, Charges(scope, ms))
  /\ UNCHANGED <<program, tu, ast, byteCount, nesting, unresolved, external, processed, visited,
                 firstTU, deepest, names, unseen, callers>>

\* VisitForStmt() and its like: setMax() is not subject to "processed".
VisitControl(depth) ==
  /\ OtherNode /\ scope.fn # NoFn
  /\ Within({"LOOPS"}, Charges(scope, {"LOOPS"}))
  /\ nesting' = [u \in Units |-> IF u = curUnit /\ depth > nesting[u] THEN depth ELSE nesting[u]]
  /\ deepest' = [u \in Units |-> Max({deepest[u]} \cup IF u = scope THEN {depth} ELSE {})]
  /\ UNCHANGED <<program, tu, ast, byteCount, unresolved, external, processed, visited,
                 firstTU, names, unseen, callers>>

\* Fault: every call looks new.
NewAlways(g) == TRUE

\* Fault: a call by pointer is not told apart.
NewOrPointer(g) == g \notin fnsCalled

\* Is this the first call of function g since m_fnsCalled was cleared?
NewName(g) == g # NoFn /\ g \notin fnsCalled

\* Fault: only the bodies the walk has reached.
VisibleSoFar(g) == g \in visited

\* Is the body of g visible in this translation unit, before or after the call?
Visible(g) == g \in DOMAIN ast.body

\* VisitCallExpr() of function g, or of a pointer (NoFn).
VisitCallExpr(g) ==
  LET visible == Visible(g)
      home == DefResolved(ast.body[g].path)
      new == curUnit # NoUnit /\ NewName(g)
      credited == new /\ visible /\ ShouldIncludeFile(home) /\ ShouldIncludeFunction(g)
      credit == IF credited THEN {<<FunctionUnit(home, g), "CALLED_BY_LOCAL">>} ELSE {}
      counted == {"FUNCTION_CALLS"} \cup (IF visible THEN {"LOCAL_FUNCTION_CALLS"} ELSE {})
  IN
  /\ OtherNode
  /\ scope.fn # NoFn \/ "fileScopeCalls" \in program.idioms
  /\ fnsCalled' = fnsCalled \cup (IF new THEN {g} ELSE {})
  /\ units' = units \cup (IF credited THEN {FileUnit(home), FunctionUnit(home, g)} ELSE {})
  /\ unresolved' = [u \in Units |-> unresolved[u] \cup
                      (IF u = curUnit /\ new /\ ~ visible THEN {g} ELSE {})]
  /\ Tally(curFile, Charges(curUnit, counted) \cup credit, Charges(scope, {"FUNCTION_CALLS"}))
  /\ names' = [u \in Units |-> names[u] \cup (IF u = scope THEN {g} \ {NoFn} ELSE {})]
  /\ unseen' = [u \in Units |-> unseen[u] \cup
                  (IF u = scope THEN {g} \ (DOMAIN ast.body \cup {NoFn}) ELSE {})]
  /\ callers' = [u \in Units |-> callers[u] \cup
                   (IF /\ scope.fn # NoFn /\ g \in DOMAIN ast.body
                       /\ u = FunctionUnit(home, g)
                       /\ ShouldIncludeFile(home) /\ ShouldIncludeFunction(g)
                    THEN {<<tu, scope>>} ELSE {})]
  /\ UNCHANGED <<program, tu, ast, byteCount, nesting, different, external, processed, curFile, curUnit,
                 visited, scope, firstTU, deepest>>

Next ==
  \/ \E t \in TUs : StartTU(t)
  \/ EndTU
  \/ \E g \in FnNames : VisitFunctionDefinition(g)
  \/ \E p \in Locations, extern \in BOOLEAN : VisitPrototype(p, extern)
  \/ \E p \in Locations, init \in BOOLEAN : VisitVarDecl(p, init)
  \/ \E mine \in BOOLEAN : VisitParmVarDecl(mine)
  \/ \E p \in Locations : VisitStrayParameter(p)
  \/ \E p \in Locations : VisitTypeDecl(p)
  \/ \E ms \in StatementCounts : VisitStatement(ms)
  \/ \E depth \in Depths : VisitControl(depth)
  \/ \E g \in FnNames \cup {NoFn} : VisitCallExpr(g)

Spec == Init /\ [][Next]_vars
-----------------------------------------------------------------------------
(* Properties. *)

\* Type invariant of the visitor and of the units it fills.
TypeOK ==
  /\ program \in Programs /\ tu \in 0 .. Len(program.tus) /\ ast \in TUs \cup {NoTU}
  /\ units \subseteq Units /\ external \subseteq Units
  /\ counter \in [Units -> [Metrics -> Nat]]
  /\ byteCount \in [Units -> Nat]
  /\ nesting \in [Units -> Nat] /\ different \in [Units -> Nat]
  /\ unresolved \in [Units -> SUBSET FnNames]
  /\ processed \subseteq Files
  /\ curFile \in Files \cup {NoFile}
  /\ curUnit \in Units \cup {NoUnit}
  /\ fnsCalled \subseteq FnNames /\ visited \subseteq FnNames
  /\ nodes \in 0 .. MaxNodes
  /\ scope \in Units \cup {NoUnit}

\* The gate of IncrementMetric() asks about m_currentFileName while the count goes
\* to m_currentUnit: the two always belong together.
UnitInCurrentFile ==
  curUnit # NoUnit => curUnit.file = curFile /\ curUnit \in units /\ FileUnit(curFile) \in units

\* Once a translation unit with a file is done, no metric of the file or of its functions
\* that is charged by increment() and not multi-pass ever changes, whatever later
\* translation units make of the file.  (FUNC_NESTING, OP_FN_CALL_UNIQUE_CNT and
\* FUNC_PATHS are single-pass in metrics.def as well, but are set without asking.)
FrozenAfterProcessed ==
  [][\A u \in Units, m \in Metrics \ MultiPass :
       u.file \in processed => counter'[u][m] = counter[u][m]]_vars

\* The counters are true: every node is charged once, in the first translation unit
\* with its file, to the unit of the declaration that encloses it, and nothing else
\* is.  (The nesting level takes in later translation units as well.)
CountsAreTrue ==
  program.idioms \subseteq {"fileScopeCalls"} => \A u \in Units :
    /\ \A m \in Metrics \ MultiPass : counter[u][m] = truth[u][m]
    /\ nesting[u] = deepest[u]

\* Nothing makes the visitor leave a function, or a call escape from one.
CallsAreInFunctions == program.idioms \cap {"fileScopeCalls", "strayParameters"} = {}

\* What a function's closing records is the number of names called in that function,
\* not in what came before it.
DifferentFunctionsCalled ==
  CallsAreInFunctions =>
    \A u \in Units : u.fn # NoFn /\ u # curUnit => different[u] = Cardinality(names[u])

\* A name is left to the linkage resolver exactly when the unit called it in a
\* translation unit without its body.
UnresolvedExact == CallsAreInFunctions => \A u \in Units : unresolved[u] = unseen[u]

\* FUNC_CALLED_BY_LOCAL counts a calling function once in each translation unit,
\* however often it calls.
CalledOncePerTU ==
  CallsAreInFunctions => \A u \in Units : counter[u]["CALLED_BY_LOCAL"] = Cardinality(callers[u])

\* "Number of local functions calling this function" (src/src/metrics.def:189).
CalledByDistinctFunctions ==
  \A u \in Units :
    counter[u]["CALLED_BY_LOCAL"] = Cardinality({c[2] : c \in callers[u]})

\* Excluded files and functions never get a unit, by whatever path.  A def file that is no
\* main file gets one, from TraverseDecl(), but it holds the file's size only: however def
\* files nest, nothing the walk comes to in them is charged to a def file, and none has a
\* unit of a function.  (Comments of a def file count for the def file: see Comments.)
NothingForeign ==
  \A u \in units :
    /\ u.file \notin ExcludedFiles /\ u.fn \notin ExcludedFns
    /\ u.file \in DefFiles /\ (\A t \in Range(program.tus) : u.file # t.main) =>
         /\ u.fn = NoFn /\ byteCount[u] = FileSize[u.file]
         /\ (\A m \in Metrics : counter[u][m] = 0) /\ nesting[u] = 0 /\ different[u] = 0
         /\ unresolved[u] = {} /\ u \notin external
=============================================================================
