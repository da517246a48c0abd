------------------------------ MODULE Pipeline ------------------------------
(***************************************************************************)
(* The whole program, src/src/ccsm.cpp: options, pass 1 over the syntax    *)
(* trees, the resolver, two passes over tokens, the report and the limits. *)
(* What pass 1 does to comments are the steps of Comments, of which this   *)
(* module is a composition; the units are represented by their marks of    *)
(* having been processed (AstPass and LexPass say what these are for).     *)
(*                                                                         *)
(* Everything may go wrong: an option, a translation unit in any of the    *)
(* passes, a limits file.  A translation unit with errors is processed all *)
(* the same, as clang hands over what it could parse; one whose file or    *)
(* compile command is missing is not.  An option is chosen where the code  *)
(* first reads it.                                                         *)
(***************************************************************************)
EXTENDS Comments

CONSTANTS
  UserExcluded,     \* files of --exclude-file
  Language,         \* standard of the language each main file is compiled for
  StandardHeaders,  \* files that the list of headers of each standard matches: none
                    \* unless --exclude-std-headers is given
  DefFiles          \* files of --def-file

ASSUME OptionAssumption ==
  /\ UserExcluded \subseteq Files /\ DefFiles \subseteq Files
  /\ \A m \in Mains : StandardHeaders[Language[m]] \subseteq Files
  /\ ExcludedFiles =
       UserExcluded \cup UNION {StandardHeaders[Language[m]] : m \in Mains}

VARIABLES
  stage,        \* what main() does next
  output,       \* m_outputStream: "cout" or "file"
  excludeFiles, \* files that ExcludeFiles matches
  cache,        \* m_shouldIncludeFileCache: files asked about, by the answer
  result,       \* Result, later the exit status
  left,         \* main files the pass over tokens has not come to
  marks,        \* m_processed of all file units, by pass
  linked,       \* resolveLinkages() was called
  report,       \* "none", "buffered" in the stream, or "written"
  limits,       \* "pending", "none" if there are no limits files, "checked", "failed"
  broken,       \* history: main files and passes that failed
  inclusions    \* history: the files of each translation unit

driverVars == <<stage, output, excludeFiles, cache, result, left, marks, linked, report,
                limits, broken, inclusions>>
pvars == <<text, todo, main, stack, entered, handlerFile, callbackFile, fileList, count,
           counted, seen, cut, home, stage, output, excludeFiles, cache, result, left, marks,
           linked, report, limits, broken, inclusions>>

Passes == {"ast", "expanded", "unexpanded"}

Failure == 1      \* EXIT_FAILURE, and what Tool.run() returns when a unit fails
Unassigned == 2   \* Result before its first assignment: of no meaning

\* MetricOptions::ShouldIncludeFile(), with its cache.
Answer(f) ==
  IF f \in cache.included THEN TRUE
  ELSE IF f \in cache.excluded THEN FALSE
  ELSE f \notin excludeFiles

\* The cache after a question about each file of S.
AskedAbout(S) ==
  [included |-> cache.included \cup {f \in S : Answer(f)},
   excluded |-> cache.excluded \cup {f \in S : ~ Answer(f)}]
-----------------------------------------------------------------------------
PInit ==
  /\ Init
  /\ stage = "options"
  /\ output = "cout"
  /\ excludeFiles = UserExcluded
  /\ cache = [included |-> {}, excluded |-> {}]
  /\ result = Unassigned
  /\ left = {}
  /\ marks = [p \in Passes |-> {}]
  /\ linked = FALSE
  /\ report = "none"
  /\ limits = "pending"
  /\ broken = {}
  /\ inclusions = [f \in Mains |-> {}]

(* Options. *)

\* exit(): --output-metrics names no metric, or clang's driver finds no job for a
\* main file (a directory, a file that does not exist).
ExitFromOptions ==
  /\ stage = "options"
  /\ stage' = "ended" /\ result' \in {Failure, -1}
  /\ UNCHANGED <<vars, output, excludeFiles, cache, left, marks, linked, report, limits,
                 broken, inclusions>>

\* AppendStandardHeaders(), for the standards that analyseCompilerArgs() found.
WithHeaders == excludeFiles \cup UNION {StandardHeaders[Language[m]] : m \in Mains}

\* ParseOptions(), then optionsOk(): the file of --output-to-file can be opened or not.
ParseOptions ==
  /\ stage = "options"
  /\ excludeFiles' = WithHeaders
  /\ \E o \in {"cout", "file", "not opened"} :
       IF o = "not opened"
       THEN /\ stage' = "ended" /\ result' = Failure
            /\ UNCHANGED output
       ELSE /\ stage' = "ast" /\ result' = 0 /\ output' = o
  /\ UNCHANGED <<vars, cache, left, marks, linked, report, limits, broken, inclusions>>
-----------------------------------------------------------------------------
(* Pass 1. *)

\* Fault: the last translation unit decides.
ResultOfLast(ok) == IF ok THEN 0 ELSE Failure

\* What ClangTool::run() will return after a translation unit.
ResultAfter(ok) == IF ok THEN result ELSE Failure

\* What a translation unit leaves behind: its result and, if it failed, a history.
UnitDone(p, m, ok) ==
  /\ result' = ResultAfter(ok)
  /\ broken' = IF ok THEN broken ELSE broken \cup {<<p, m>>}

\* The preprocessor goes through a translation unit; HandleComment() asks about a
\* file if the comment counts.
Preprocess ==
  /\ stage = "ast"
  /\ \/ \E f \in Mains : StartTU(f) /\ UNCHANGED cache
     \/ /\ HandleComment
        /\ cache' = IF Counts(Top.file) THEN AskedAbout({Top.file}) ELSE cache
     \/ (Inclusion \/ SkipItem \/ EndOfFile) /\ UNCHANGED cache
  /\ UNCHANGED <<stage, output, excludeFiles, result, left, marks, linked, report, limits,
                 broken, inclusions>>

\* The files HandleTranslationUnit() marks.
MarkedByAst == {f \in entered : Answer(f) /\ f \notin DefFiles}

\* HandleTranslationUnit(), at the end of the translation unit.
HandleTranslationUnit ==
  /\ stage = "ast"
  /\ EndTU
  /\ marks' = [marks EXCEPT !["ast"] = @ \cup MarkedByAst]
  /\ cache' = AskedAbout(entered)
  /\ inclusions' = [inclusions EXCEPT ![main] = entered]
  /\ \E ok \in BOOLEAN : UnitDone("ast", main, ok)
  /\ UNCHANGED <<stage, output, excludeFiles, left, linked, report, limits>>

\* A main file that cannot be read or has no compile command.
MissingTU(f) ==
  /\ stage = "ast" /\ main = NoFile /\ f \in todo
  /\ todo' = todo \ {f}
  /\ UnitDone("ast", f, FALSE)
  /\ UNCHANGED <<text, main, stack, entered, handlerFile, callbackFile, fileList, count,
                 counted, seen, cut, home>>
  /\ UNCHANGED <<stage, output, excludeFiles, cache, left, marks, linked, report, limits,
                 inclusions>>

\* Tool.run() returns from pass 1.
EndOfPass1 ==
  /\ stage = "ast" /\ main = NoFile /\ todo = {}
  /\ stage' = IF result = 0 THEN "resolve" ELSE "ended"
  /\ UNCHANGED <<vars, output, excludeFiles, cache, result, left, marks, linked, report,
                 limits, broken, inclusions>>
-----------------------------------------------------------------------------
(* The rest. *)

\* resolveLinkages(), and the second Tool.run() begins.
Resolve ==
  /\ stage = "resolve"
  /\ linked' = TRUE
  /\ stage' = "expanded" /\ left' = Mains
  /\ UNCHANGED <<vars, output, excludeFiles, cache, result, marks, report, limits, broken,
                 inclusions>>

\* LexSources() of a translation unit, all of which LexPass takes apart.  The files
\* of the unit are those of pass 1; def files are marked here.
LexTU(p, m) ==
  /\ stage = p /\ m \in left
  /\ left' = left \ {m}
  /\ marks' = [marks EXCEPT ![p] = @ \cup {f \in inclusions[m] : Answer(f)}]
  /\ cache' = AskedAbout(inclusions[m])
  /\ \E ok \in BOOLEAN : UnitDone(p, m, ok)
  /\ UNCHANGED <<vars, stage, output, excludeFiles, linked, report, limits, inclusions>>

\* The file is gone: nothing is lexed.
MissingLexTU(p, m) ==
  /\ stage = p /\ m \in left
  /\ left' = left \ {m}
  /\ UnitDone(p, m, FALSE)
  /\ UNCHANGED <<vars, stage, output, excludeFiles, cache, marks, linked, report, limits,
                 inclusions>>

\* The third Tool.run() begins if the second one returned zero.
EndOfExpanded ==
  /\ stage = "expanded" /\ left = {}
  /\ IF result = 0
     THEN stage' = "unexpanded" /\ left' = Mains
     ELSE stage' = "ended" /\ UNCHANGED left
  /\ UNCHANGED <<vars, output, excludeFiles, cache, result, marks, linked, report, limits,
                 broken, inclusions>>

EndOfUnexpanded ==
  /\ stage = "unexpanded" /\ left = {}
  /\ stage' = IF result = 0 THEN "report" ELSE "ended"
  /\ UNCHANGED <<vars, output, excludeFiles, cache, result, left, marks, linked, report,
                 limits, broken, inclusions>>

\* MetricDumper::dump(): tables end their rows with std::endl, trees with "\n" only;
\* std::cout is flushed however the program ends.
Dump ==
  /\ stage = "report"
  /\ \E format \in {"none", "tree", "table"} :
       report' = IF output = "cout" \/ format /= "tree" THEN "written" ELSE "buffered"
  /\ stage' = "limits"
  /\ UNCHANGED <<vars, output, excludeFiles, cache, result, left, marks, linked, limits,
                 broken, inclusions>>

\* Fault: no destructor deletes the stream.
LeftInStream == report

\* ~CcsmOptionsHandler() and ~MetricOptions(): the stream is deleted.
StreamDeleted == "written"

\* main() returns, with LimitsChecker::dump() before if there are limits files.
Return ==
  /\ stage = "limits"
  /\ limits' \in {"none", "checked"}
  /\ report' = StreamDeleted
  /\ stage' = "ended"
  /\ UNCHANGED <<vars, output, excludeFiles, cache, result, left, marks, linked, broken,
                 inclusions>>

\* A limits file cannot be opened or has a line of no use: exit(), which destroys
\* nothing that main() holds.
ExitFromLimits ==
  /\ stage = "limits"
  /\ result' = Failure /\ limits' = "failed"
  /\ stage' = "ended"
  /\ UNCHANGED <<vars, output, excludeFiles, cache, left, marks, linked, report, broken,
                 inclusions>>

Lexing ==
  \E p \in {"expanded", "unexpanded"}, m \in Mains : LexTU(p, m) \/ MissingLexTU(p, m)

PNext ==
  \/ ExitFromOptions \/ ParseOptions
  \/ Preprocess \/ HandleTranslationUnit
  \/ (\E f \in Mains : MissingTU(f)) \/ EndOfPass1
  \/ Resolve \/ Lexing
  \/ EndOfExpanded \/ EndOfUnexpanded
  \/ Dump \/ Return \/ ExitFromLimits

PSpec == PInit /\ [][PNext]_pvars
-----------------------------------------------------------------------------
(* Properties. *)

\* A report is made from complete counts: no translation unit failed in any pass, the
\* calls were resolved, and every file met was counted by all of the passes that
\* count it if it is included, and by none if it is not (ccsm.cpp:63-88).
ReportComplete ==
  report /= "none" =>
    /\ broken = {} /\ linked
    /\ \A m \in Mains : m \in inclusions[m]
    /\ \A p \in Passes :
         marks[p] = {f \in UNION {inclusions[m] : m \in Mains} :
                       /\ f \notin ExcludedFiles
                       /\ p = "ast" => f \notin DefFiles}

\* The exit status tells whether the user got what was asked for: it is zero exactly
\* when there is a report, in full, and every limits file was read (ccsm.cpp:99-103).
\* (--help, which ends with zero and no report, and a write that fails are not modelled.)
StatusTells ==
  stage = "ended" =>
    (result = 0 <=> broken = {} /\ report = "written" /\ limits \in {"none", "checked"})
=============================================================================
