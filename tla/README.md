# A verification development for ccsm

ccsm reads C (and some C++) sources with clang and reports metrics for the whole program,
for each file and for each function. This directory holds TLA+ models of the parts that
decide *what is counted, where, and how often*, TLC configurations that check them on
small instances, and TLAPS proofs for every instance. `PROJECT.json` lists the runs, the
mutants that show each property can fail, the source lines behind each definition, the
hazards and the theorems.

## 1. The system

The program is one sequential process; what makes it hard is not threads but *callbacks in
an order the program analysed decides*, state that outlives the callback that set it, and
files that are met again and again.

| Component | State | Operations | Talks to |
|---|---|---|---|
| Driver, `ccsm.cpp` | result of each pass | runs the three passes, the resolver, the report, the limits | everything, in order |
| Metric units, `MetricUnit.*`, `metrics.def` | tree top/file/function; counters, first locations, sets, unresolved calls, linkage, three `processed` marks | `getSubUnit`, `increment`, `set`, `setMax`, `setSupplementary`, `getCounter` | written by the passes, read by resolver, report and limits |
| Syntax-tree visitor, `MetricMatcher.*`, `MetricASTConsumer.*` | `m_currentFileName`, `m_currentUnit`, `m_fnsCalled` | one `Visit...` callback for each node; path count | clang's traversal calls it; charges units; records functions in the locator |
| Function locator, `FunctionLocator.*` | extents of functions, for each translation unit | `addFunctionLocation`, `FindFunction` | written in pass 1, read in passes 2 and 3 |
| Linkage resolver, `MetricLinkageResolver.*` | two iterators over a map of functions | `resolveLinkages` | after pass 1; credits external callees |
| Token lexers, `MetricSrc*Lexer.*` | current file, function and unit, cached extent, body flags, four sets of names | `LexSources`, `ProcessToken`, `CloseOutFnOrMtd`, `EnterFileScope` | passes 2 and 3; clang's preprocessor; the locator |
| Include handler, `MetricPPIncludeHandler.*` | a reference to the lexer's current file | `FileChanged` | called back by the preprocessor between two tokens |
| Comment counter, `MetricPPCustomer.*` | last file with a comment; files seen | `HandleComment`, `InclusionDirective` | called back by the preprocessor in pass 1 |
| Options, `MetricOptions.*` | exclusion lists, def files, a cache | `ShouldIncludeFile`, `ShouldIncludeFunction`, `isDefFile` | asked by every pass |
| Command line, `CcsmOptionsHandler.*` | none of its own | `ParseOptions`, `getOutputStream` | first; fills the options, opens the report's stream |
| Report, `MetricDumper.*` | the stream it writes to | `dump`, `dumpMetric` | after the resolver; asks the units |
| Limits, `LimitLibrary.*`, `LimitsChecker.*` | lists of rules for each metric | `load`, `checkLimit`, `check` | last; asks the units again |
| Utilities, standard headers | none | nesting of a statement; lists of headers | visitor; options |

What is hard, and what would make each part correct:

* **Units.** Counters saturate at 2^32 - 3 (two values above it are special), warn once,
  remember where they were first counted; a cumulative value is the sum over a subtree.
* **Visitor.** Each node is charged once, in the first translation unit that has its file,
  to the declaration around it. "Current" file and unit are changed by some callbacks and
  read by others; the gate that keeps a processed file from growing asks about one of them
  while the count goes to the other.
* **Resolver.** Every call whose body was in another translation unit is credited to the
  function called, once; the loops end.
* **Path count and statements.** Three numbers, combined statement by statement, are to agree
  with the number of paths; every statement is to count once although some are counted when
  visited and others by the statement around them.
* **Comments.** A header's comments are met in every translation unit with the header, and
  the object that decides which count is copied before it is registered: each comment must
  count once, in one of them.
* **Lexers.** Includes interleave files; a cached extent decides whether to ask again which
  function a token is in; sets of names are replaced on leaving a unit and so must be
  reloaded on entering it.
* **Report and limits.** Headings and rows come from different loops. The last matching rule
  of all files decides; output is grouped by file; what is warned about is what was printed.
* **Driver.** A failing pass leaves out all later ones; a report, once made, must not be lost,
  and the exit status must tell. Exclusions are cached while they are still being added to.

There is no persistent state, no network and no second thread, hence no crash recovery,
message loss or race among the hazards.

## 2. Modules

| Module | Models | Run(s) |
|---|---|---|
| `MetricUnit` | one tree and one metric of each kind, every order of calls | `metric_unit` |
| `AstPass` | pass 1 over syntax trees, any number of translation units | `ast`, `ast_callers` |
| `FunctionBody` | the body of a function as clang hands it over: kinds of statements by place | through `FunctionVisit` |
| `PathCount` | `getPathCount()` and return points | through `FunctionVisit` |
| `Statements` | `STMT_CNT` and `FUNC_NESTING`, one statement visited after the other | through `FunctionVisit` |
| `FunctionVisit` | both, for the same functions | `path_count`, `path_returns` |
| `Linking` | what the resolver promises: each pending call is credited to the function called | through `LinkageResolver` |
| `LinkageResolver` | `resolveLinkages()`, iterator by iterator; implements `Linking` | `linkage_any`, `linkage_names`, `linkage_callers` |
| `LexPass` | passes 2 and 3 with include handler and locator | `lex` |
| `Comments` | the comment counter of pass 1, its two copies of one object, the include stack | `comments_all`, and through `Pipeline` |
| `Pipeline` | `main()`: options, the passes, any of which may fail, resolver, report, limits, exit status; extends `Comments` | `pipeline` |
| `Calculated` | the metrics `getCounter()` makes of others | through `Report` |
| `Limits` | loading rules, choosing, comparing, grouping the warnings | through `Report` |
| `Report` | `dump()` in every format, then the limits; extends `Limits` and `Calculated` | `output` |
| `MetricUnitProofs`, `AstPassProofs`, `LinkageResolverProofs`, `LexPassProofs`, `PipelineProofs`, `ReportProofs`, `FunctionVisitProofs` | theorems | |
| `FoldTheorems` | lemmas about joined sequences and sums that the proofs share | |
| `MC...` | constants for TLC | |

State and actions keep the names of the code where TLA+ allows it (`curFile` is
`m_currentFileName`, `curUnit` is `m_currentUnit`, `fnsCalled` is `m_fnsCalled`,
`VisitCallExpr` is `VisitCallExpr()`, `patternMap` is `m_patternMap`). A definition commented
as *Fault* is a plausible bug in the definition after it, used by a mutant of `PROJECT.json`
and by nothing else.

How programs are represented: the visitor does not choose the nodes, so `AstPass` takes
any node that could come next. A location is the include stack that leads to it.
*History variables* (`scope`, `truth`, `names`, `seen`, `cut`, ...) say what an ideal counter
would hold; no action's guard reads them, except that `scope` says which nodes are possible
(a local variable is possible in a function only). Constructs for which the code is known to
miscount are switched on by the `idioms` of a program, so that a property can say "exact
without them". `LexPass` is built in the same way over tokens, `Comments` over texts of
comments and inclusions, any item of which the preprocessor may leave out. In `Pipeline` the
units are their marks of having been processed; what a pass counts is in the other modules.

### Runs, bounds and what they show

* `metric_unit`: one file, two functions, 3-bit counters (maximum 5, special values 6 and
  7), increments 1 and 2 up to a true total of 8 for each unit, up to three `setMax` calls.
  Saturation, exact hits, overshoots and sums beyond the maximum all occur within these.
  `SaturatingCount` (with the single warning), `FirstLocationIsFirst`, `CumulativeExact`,
  `PeakIsFirstMaximum`. The constraint `OneKind` keeps the counted metrics apart from
  `set`/`setMax`, which share no variable that either reads. Locations and functions are
  symmetric: no property or action tells them apart.
* `ast`: three programs of two translation units that share a header with a function, with
  two nodes in each unit beside the functions. One calls outside functions; one uses
  constants in types and prototypes in bodies; one has two def files, of which
  one includes the other, an excluded file, an excluded function, every idiom and prototypes at
  file scope. Two nodes put one before
  and one after a change of unit; two units meet every file again. `CountsAreTrue`,
  `DifferentFunctionsCalled`, `UnresolvedExact`, `CalledOncePerTU`, `UnitInCurrentFile`,
  `NothingForeign`, `FrozenAfterProcessed`. The first four name the idioms they are about.
  `NothingForeign` is about what the walk charges: a def file has a unit, which `TraverseDecl()`
  makes for its size (`byteCount`), and comments in it count for it (`Comments`).
  `FrozenAfterProcessed` is about metrics charged by `increment()`: `FUNC_NESTING`,
  `OP_FN_CALL_UNIQUE_CNT` and `FUNC_PATHS` are single-pass in `metrics.def` too but are set
  without asking whether the file was processed. All files are one byte long: no property
  compares sizes of different files.
* `linkage_any`: every tree of up to three functions in two files, every choice of external
  linkage, up to two unresolved calls. `OnlyExternalCredited`, `OneCreditPerCall`,
  `Terminates` and the refinement `Linked`. Three functions suffice for a name used twice and
  a neighbour the search can run into.
* `path_count`: 7610 functions of at most three statements with conditions, loops and
  switches two levels deep, labels, gotos, declarations, loops that
  declare a variable and chains of `else if`, with and without condition analysis. Paths are compared with an enumeration of them, return points and statements
  with definitions that look at every place of the body, nesting, which the code finds from
  inside out, with the levels from the body down to each place. The statements are visited
  one by one (the constraint `Explored`: of functions without a second statement in the
  outermost block, whose conditions are not known to be true). `PlainCountExact` is about
  *plain* functions (defined in the module: at most one level of returns in a block, cases
  that end at their end, no break out of nested loops); `EveryFunctionHasAPath` about all but
  those with a statement after a label and those with a `do` that is left by break or
  continue, or has a loop in it that is; `ReturnPointsExact` about those with plain exits and
  no dead statement, in which no number of paths wraps (`PathsFit`); `StatementsExact` ties
  `STMT_CNT` to the documented statements and says where the two differ, below a label and at
  a variable with an initialiser (`initialised`; clang gives a variable that is declared several
  times the initialiser of any of its declarations); `NestingExact` has no exception. `CaseEnd`, `LoopLeft` and the rest make
  the numbers that the code makes, by functions on the places of a body. Modulus 2^16 stands
  for 2^32; no function of the run reaches either, what happens at the modulus is proved.
* `output`: two files with functions and a method, up to four tokens of code, every format
  and several selections of metrics and unit types; for the whole report also up to three
  rules from a set of eight over two limits files. `CellsUnderHeadings`, `WarningsReported`,
  `HalsteadConsistent`, `LastMatchDecides`, `SectionsByFile`. The constraint `Explored`
  explores several rules with one choice of the other options: the checker reads neither.
  `MCReport` also assumes `HalsteadFits`, the hypothesis of `HalsteadTheorem`, so TLC shows
  that the programs of the run satisfy it.
* `pipeline`: two main files, of which one may include the other and each may fail in each
  pass, a header and an excluded standard header; texts of up to three items. `CountedOnce`,
  `LostOnlyWhenCut`, `OneTranslationUnit` of the comments; `ReportComplete` (a report is made
  only when every translation unit went through all passes, and the passes marked the same
  files) and `StatusTells` (the exit status is 0 exactly when a whole report was written and
  the limits were read, as far as `--help` and failing writes are left aside).
* `lex`: four files (one def, one excluded), two functions (one excluded), two translation
  units, at most two includes in each, five tokens together, files included inside functions.
  Five tokens cover file, function, body, an include and the return from it; two units meet a
  file again. `TokensCountedOnce`, `IdentifierSetsExact`, `BodyExact`, `FrozenAfterLexed`.
  With prototypes at file scope the same properties were checked and hold; the
  configuration kept is the one without.
* `ast_callers`, `linkage_names`, `linkage_callers`, `comments_all`, `path_returns`: TLC finds
  what is described under *Findings*.

Deadlock is checked for the resolver, which stutters when done. The other systems really
stop: at the last translation unit, the bound on calls, the function visited, the exit.

**Fairness.** Only the resolver has a liveness property. `FairSpec` assumes weak fairness
of `Next`: it is one function of a sequential program, which takes its next step until it
returns. Nothing else is assumed to happen. The passes end because a program has finitely
many nodes and tokens, which is the environment's doing.

### Findings

1. `ast_callers`. `FUNC_CALLED_BY_LOCAL` counts a calling function of a header once for
   each translation unit (`MetricMatcher.cpp:1051`).
2. `linkage_names`. The search for an external function runs on to functions of other names
   (`MetricLinkageResolver.cpp:44`).
3. `linkage_callers`. Functions of one name in several files collapse into one, and the
   calls of the others are not resolved (`MetricUnit.cpp:207`).
4. `comments_all`. A comment of a header after the inclusion of another one with comments is
   not counted (`MetricPPCustomer.cpp:55`).
5. `path_returns`. A return in a block erases the returning paths before it
   (`MetricMatcher.cpp:523`).
6. `path_count`. `STMT_CNT` is not the number of statements that `docs/metrics_details.md`
   (352-370) defines: an expression directly below a label is not counted
   (`MetricMatcher.cpp:950`), and a variable with an initialiser is, though declarations are
   not to be (`MetricMatcher.cpp:898`). `StatementsExact` states the difference exactly, so
   this run passes.

Seen while reading, and not shown by a run: the example rules of `docs/limits.md` (34-40) use
`*` and `*.c` as patterns, but the code takes a pattern for a regular expression, and these do
not compile as one, so no rule of the example matches anything.

## 3. Proofs

All proofs are checked by TLAPS with the SMT, Zenon and PTL back ends, for all values of the
constants. They use only the named assumptions on constants of the modules, which TLC
evaluates in every run, and two hypotheses that are stated in the theorems that need them:
`MainsAreSources` of `CountersTrue` and `HalsteadFits` of `HalsteadTheorem`.

* `MetricUnitProofs`. `TypeCorrect`: `TypeOK` is inductive once `Increment` is known to
  stay in `counter_t`, which `FitsMeaning` and `IncrementedInRange` say of the comparison
  `counter_t_Max - n > c` in modular arithmetic. `Saturation`: the counter and the warnings
  are tied to the true total by `CountInv`. `FirstLocation` needs that a counter once raised
  is not zero again; `PeakIsFirst` compares the history of calls with the value kept.
  `CumulativeTotals` (`CumulativeExact`) needs two facts about trees: functions only exist
  below files that do (`TreeInv`, without which a subtree would miss units that count), and
  the sum over a subtree is at most that over the whole tree, so if the latter fits a counter
  neither a counter nor the unchecked additions of `getCounter()` can overflow.
* `AstPassProofs`. `GateMatchesUnit` (`UnitInCurrentFile`) and `ProcessedFilesFrozen`
  (`FrozenAfterProcessed`), for all programs and with all idioms. The gate asks about a file
  and the count goes to a unit; `GateInv` (the counters are numbers, and the current unit
  is of the current file) makes the question the right one. `StepKeeps` proves it for every
  action together with the action-level fact `Frozen`, so both theorems follow from the
  same lemma. Calls are the delicate case: the callee's credit is for another file, and is
  harmless only because the metric is multi-pass. `VisitorTypes` and `ForeignNeverCounted`
  rest on `PlaceInv`: the visitor is in a unit that may hold counts (`VisitorInv`: not excluded,
  and not of a def file unless that is a main file), and units of def files hold no counts
  (`CounterInv`). `ForeignInv`, for the latter, adds that they hold nothing else that the walk
  charges, and the size of the file. `Resolution` says that the innermost includer that is no def file exists.
  `CountersTrue` (`CountsAreTrue`) takes as hypothesis `MainsAreSources`, that
  no main file is given as a def file: nothing would mark such a file, and it would count in
  every translation unit. `FirstInv` says that exactly the files met in earlier translation
  units are marked, so the gate is open in the first one with a file and no other;
  `TruthInv`, that the current unit is that of the enclosing declaration.
  `NamesOfTheFunction`, `NamesLeftOver` and `CallersOnce` follow from `CallInv`: `m_fnsCalled`
  holds the names called in the function being walked and is empty outside, and each of them
  is left to the resolver or was credited in this translation unit.
* `LinkageResolverProofs`. `TypeCorrect` and `ExternalOnly` rest on `LoopInv`: where the
  iterators stand in relation to the map. `CreditsAreCalls` (`OneCreditPerCall`) is inductive
  with it: the calls credited are not pending, and a step only makes fewer calls pending
  (`PendingShrinks`). `Refinement`: on trees in which a name is used once and called functions
  are external, each step implements `Linking` or stutters. `CleanInv` adds to `LoopInv` that the search is
  still at the name looked for, which is exactly what fails on other trees (finding 2); `CallerMapped` that the map has every caller, which is what
  fails in finding 3.
  `LoopsShorten` is the safety part of `Terminates`: `StepsLeft`, a natural number, is lowered by
  every step, although the search runs past the name it looks for, and is zero only at the end.
* `LexPassProofs`. `LexInv` ties the lexer's state to the include stack (`StackInv`: frames are
  numbered as they were entered, and a def file belongs to the frame below), to the
  marks (`ReadInv`: a file is marked when the first translation unit with it is over) and to
  the cached extent (`LexerInv`: while the frame of the last look-up is on the stack, the
  current unit is the one a new look-up would give, also after the return from an include).
  `LexTypes`, `EveryTokenOnce` and `LexedFilesFrozen` follow.
  `NoIdentifierLost` (`IdentifierSetsExact`) and `BodiesExact` (`BodyExact`) rest on `DataInv`:
  what a unit holds and what the lexer holds for the current one come to the identifiers of
  its tokens; a function no include splits is looked up once, at its first token; the body
  flag is what its tokens so far make it; and a function that was not begun holds nothing.
* `PipelineProofs`, the comment counter. `CommentInv`: the file read first is the main file; the file remembered is
  the main file or one whose comments began in this translation unit; a file with a comment
  is in the list. `CommentTypes` and `CountedInOneUnit` follow. `OnceInv`, for `CommentsOnce`:
  a file that can be read once only has one frame on the stack, and what that frame has not
  read yet is not counted, or never will be. `LostInv`, for `MissedOnlyWhenCut`: while a file is
  on the stack and was not cut, the handler remembers it.
* `PipelineProofs`, the driver. Each step of `Pipeline` is a step of `Comments`, or leaves its variables
  alone, or passes over a main file (`CommentStep`), so the theorems about comments hold in
  the whole program (`...Here`). `PInv` has a conjunct for each stage of `main()`: what was
  met, marked and failed when the stage is reached. `ReportsAreComplete`, `StatusIsTrue`.
* `ReportProofs`. `LimitsInv`, for `Limits` alone: in the list of a metric and in the rules as
  they were read, the last rule that matches a unit is the same (`LoadInv`, with `LastRule`);
  nothing is printed before `Check` (`OutInv`); and what it prints then has the properties. The
  order in which units are checked is that of `SetToSeq`, of which only is used that it lists
  each member once, so `LastMatchTheorem` and `SectionsTheorem` hold for every order. For the
  latter the output is cut into what stands before the section of a file, the section, and what
  stands after it (`FirstLines`, `Section`, `Sectioned`).
  `ReportImplementsLimits` carries all of `Limits` over to `Report`, where `TableInv` says which
  rows are printed and which units still wait. `CellsTheorem` pairs the columns of the
  headings with those of a row, metric by metric (`FlattenAligned`: sequences joined from
  pieces of equal lengths agree place by place). `WarningsTheorem` combines `TableInv` with
  what `Check` warns about. `HalsteadTheorem` has the hypothesis `HalsteadFits`, that the tokens
  of the whole program times the scaling of VOCF fit a counter: without it the numbers wrap
  and the property is false. It compares kinds and spellings with occurrences, by sums over
  sets.
* `FunctionVisitProofs`, statements and levels. A body is a function from places to kinds of
  statements, a place being the way down to it; `AllPlaces` is induction from the body down.
  `VisitsStatements` says that `FunctionVisit` visits as `Statements` does. `StatementsTheorem`
  (`StatementsExact`): once the places of a set are visited, the number is that of the keyword
  statements in it, of the others directly below it and of the initialised variables declared
  in it (`StatementsSoFar`), and each visit adds to all three what no other does
  (`VisitCounts`). `NestingTheorem` (`NestingExact`): the
  equation of `getControlDepth()` has one solution, the levels, or one less where an if is
  asked by its else if (`DepthDeepens`, `DepthLevels`); a place without a control statement
  has the levels of the one around it, so the control statements decide the maximum.
* `FunctionVisitProofs`, paths. `PlainCountTheorem` (`PlainCountExact`) compares two functions
  on the places of a body, the numbers of the code and the sets of paths. Both are recursive,
  so it is proved first that their equations, and those of the walks over a block and over the
  cases of a switch, have solutions (`Solvable`, `Steppable`); everything else goes by `FromBelow`,
  induction from the leaves up, for a set that is given by what is to be proved. The argument
  is in two halves:
  - *The paths.* A path is the set of places it comes to and the way it ends. `Sound`: two
    paths of one statement differ in their places, all of which are in the statement. So paths
    side by side add up (`BesideDistinct`) and paths one after the other multiply
    (`OnwardsDistinct`): the number of paths up to a substatement is given by those before it
    and those through it (`Counted`, `PathsNumbers`), without any reference to the code.
  - *The numbers.* `Claim`, for functions with plain exits: those of a statement come to its
    paths modulo the width, regular ones always, returning ones if the function is plain,
    breaks if no loop in the statement is left by one. The exceptions are needed: a return in a block assigns where it should add, and a
    loop does not clear its breaks. `BlockInv` is the invariant of the walk over a block, where
    what is skipped must be what no path comes to. `Switched` is that of the walk over a
    switch, where the sum of the complete cases, the case that may fall through and the
    current one together come to the paths, by one of two equations, as the case is over or
    not. `BlockClaim`, `IfClaim`, `LoopClaim`, `SwitchClaim` and `LeafClaim` make `AllClaims`.
* `FunctionVisitProofs`, return points. `ReturnPointsTheorem` (`ReturnPointsExact`): where
  no number wraps the regular number is exactly that of the regular paths (`RegularExact`), so
  a block without dead statements skips none (`SkipInv`, `NothingSkipped`); with `LabelsOfCases`,
  that labels stand in switches only, the count looks into every part with a return in it
  (`AllLookedInto`, `AllReached`). `CInv` says that what was recorded is what the count comes to.
* `FoldTheorems`. What `FlattenSeq`, `SetToSeq` and `SumFunctionOnSet` of the community modules
  are, from their definitions. They are recursive functions chosen by `CHOOSE`, so that they
  exist is proved first (`JoinsExist`, `AddsExist`). The library's induction theorems have an
  operator as parameter and are of no use here; `AllNumbers` and `SmallerSubsets` are
  induction for *sets* (of natural numbers, of subsets), and the set is given by what is to
  be proved.

Three attempts at a proof found mistakes that no run had shown, all corrected. `LimitsInv`: the
guard of `Fail` lacked parentheses, so that a bad limits file could end the program after all
of them had been read. `EveryFunctionHasAPath` did not except two kinds of functions in which
the code finds no path, `do { while (c) break; return; } while (0); return;` (the `do` inherits
the breaks of the loop in it) and `if (c) goto L; return; L: x; return;`; functions of both
kinds are now in the run. `ReturnPointsExact` was false where a number of paths wraps to zero,
since the rest of the block is then skipped; that is `PathsFit`.

What is only model-checked:

* Liveness (`Terminates`), which these provers do not reach. What `LoopsShorten` leaves open is
  that `Next` is enabled until the end.
* `EveryFunctionHasAPath`. It is about numbers that do not wrap: 32 conditions in a row have
  2^32 paths, which the code reports as zero, so for functions of every size it is false,
  and the functions of the run are far from that.
* The properties of the runs that expect a violation.

## 4. What is not modelled

* The tables from node, token, cast and type kinds to metrics: one metric of each way of
  charging stands for them. The operator counts that look at the token before
  (`HandleBasicToken()`), the line counts of `CalcFnLineCnt()`, and the two calculated metrics
  with logarithms.
* Text: names of metrics and units, locations, the layout of the report, the wording of
  warnings, parsing of the command line and of a line of a limits file. Limits and values
  are integers, expressions over names are sets.
* `--help`, which ends the program with status zero and no report, and a write of the report
  that fails.
* C++ in the visitor (methods, declarations in conditions), functions that begin or end in a
  macro, a def file that includes an ordinary file.
* clang itself: its traversal, its include stack and its numbering of files are the
  environment (the choice of nodes in `AstPass`, of tokens and includes in `LexPass`, of items
  in `Comments`). The look-up of extents recorded in pass 1 by a number of clang's in pass 3
  is taken as exact.
* Build files, tools, documents, tests and the example: not part of the running program.

## 5. What is left

1. The lexers' token before, and a run for a def file that includes an ordinary file.
2. The relation between `LOCAL_FN_CALL_CNT`, which accumulates over translation units, and
   `OP_FN_CALL_CNT`, which does not, once the documents say what it should be.
