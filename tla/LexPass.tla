------------------------------ MODULE LexPass ------------------------------
(***************************************************************************)
(* The second pass, over the tokens of every translation unit              *)
(* (MetricSrcLexer::LexSources(), its two lexers, FunctionLocator and      *)
(* MetricPPIncludeHandler).  It runs twice, once over the tokens as        *)
(* preprocessed and once over those of the source; the two differ in the   *)
(* metrics they fill and keep separate "processed" marks, and only the     *)
(* first tells the identifiers of a function's body apart.                 *)
(*                                                                         *)
(* The lexer follows the include stack by callbacks and asks the locations *)
(* recorded in the first pass which function a token is in, but only when  *)
(* the token leaves the extent of the last answer.  The tokens themselves  *)
(* are the program's affair: a step takes any token in any place that may  *)
(* come next.                                                              *)
(*                                                                         *)
(* A location is the number of its frame (clang numbers files as they are  *)
(* entered, and later ones have the greater raw encodings) and the place   *)
(* in it.  Functions that end in a macro are left out.                     *)
(***************************************************************************)
EXTENDS Integers, Sequences, FiniteSets, SequencesExt

CONSTANTS
  Files, FnNames,  \* names of files and of functions
  NoFile, NoFn,    \* no unit; the function name ""
  Mains,           \* main files of the translation units
  DefFiles,        \* --def-file
  ExcludedFiles,   \* --exclude
  ExcludedFns,     \* --exclude-function
  PrototypesAreFileScope,  \* --prototypes-are-filescope
  Identifiers,     \* spellings of identifiers
  Idioms,          \* "includeInFunction": a file included inside a function
  MaxTUs,          \* bound on the translation units
  MaxTokens,       \* bound on their tokens, together
  MaxIncludes      \* bound on the includes of each

\* Keywords and constants are counted as identifiers are; braces have no count of their
\* own for function bodies.
Tokens == Identifiers \cup {"brace"}

ASSUME LexAssumption ==
  /\ NoFile \notin Files /\ NoFn \notin FnNames
  /\ Mains \subseteq Files \ DefFiles
  /\ ExcludedFns \subseteq FnNames
  /\ PrototypesAreFileScope \in BOOLEAN
  /\ "brace" \notin Identifiers
  /\ MaxTUs \in Nat /\ MaxTokens \in Nat /\ MaxIncludes \in Nat

FileUnit(f) == [file |-> f, fn |-> NoFn]
FunctionUnit(f, g) == [file |-> f, fn |-> g]
Units == [file : Files, fn : FnNames \cup {NoFn}]
NoUnit == [file |-> NoFile, fn |-> NoFn]

\* Metrics of a unit: tokens, tokens in a function body, and the sets kept by
\* setSupplementary(), of identifiers and of identifiers in a body.
NoMetrics == [tokens |-> 0, body |-> 0, ids |-> {}, bodyIds |-> {}]

VARIABLES
  tu,         \* translation units begun so far
  stack,      \* frames of the include stack, innermost first; empty between units
  frames,     \* frames entered in this translation unit
  defined,    \* functions met in it
  read,       \* files met in it
  tokens,     \* tokens met so far
  units,      \* units created by getSubUnit()
  metrics,    \* the metrics of each unit
  processed,  \* files with m_processed[getLexType()]
  curFile,    \* m_currentFileName
  curFn,      \* m_currentFunctionName
  fnFrame,    \* frame of fnStart and fnEnd
  curUnit,    \* m_currentUnit
  inBody,     \* m_inBody
  waiting,    \* m_waitingForBody
  ids,        \* m_currentFnIdentifiers, for all four sets of the kind
  bodyIds,    \* m_currentBodyIdentifiers
  firstTU,    \* history: number of the first translation unit with each file
  truth,      \* history: the metrics each unit should have
  split       \* history: functions with tokens of another file inside

program == <<tu, stack, frames, defined, read, tokens>>
lexer == <<curFn, fnFrame, curUnit, inBody, waiting, ids, bodyIds>>
vars == <<program, units, metrics, processed, curFile, lexer, firstTU, truth, split>>
-----------------------------------------------------------------------------
ShouldIncludeFile(f) == f \notin ExcludedFiles
ShouldIncludeFunction(g) == g \notin ExcludedFns

\* The file that the contents of a def file belong to.
Resolved(s) == s[Min({i \in DOMAIN s : s[i].file \notin DefFiles} \cup {Len(s)})].file

\* FindFunction(): the function a location belongs to, by the extents that
\* addFunctionLocation() recorded.
FindFunction(fr) == IF PrototypesAreFileScope /\ ~ fr.body THEN NoFn ELSE fr.fn

\* Is the location past fnEnd?
PastEnd(fr) == fr.id > fnFrame \/ (fr.id = fnFrame /\ FindFunction(fr) # curFn)

\* Fault: no test.
NeverBefore(fr) == FALSE

\* Is it before fnStart, as when an included file is left?
BeforeStart(fr) == fr.id < fnFrame

LooksUp(fr) == curFn = NoFn \/ PastEnd(fr) \/ BeforeStart(fr)

\* The unit for function g of the current file.
UnitFor(g) ==
  IF g = NoFn THEN FileUnit(curFile)
  ELSE IF ShouldIncludeFunction(g) THEN FunctionUnit(curFile, g) ELSE NoUnit

\* CloseOutFnOrMtd(): what becomes of the units' sets.
CloseOut ==
  IF curUnit = NoUnit THEN metrics
  ELSE [metrics EXCEPT ![curUnit].ids = ids, ![curUnit].bodyIds = bodyIds]

\* Fault: the file's sets start afresh.
EnterEmpty(u) == {}

\* EnterFileScope(): the identifiers a unit begins with.
EnterFileScope(u) == IF u \in Units /\ u.fn = NoFn THEN CloseOut[u].ids ELSE {}

\* Fault: still in the body of the function before.
StillInBody == inBody

\* m_inBody after a look-up.
BodyAfterLookup == FALSE

\* Fault: anything is inserted.
InsertToken(t) == {t}

\* ProcessToken(): what the token adds to the set of identifiers.
InsertIdentifier(t) == {t} \cap Identifiers

\* What a token adds to a unit's metrics, in a body or not.
Count(m, t, body) ==
  [m EXCEPT !.tokens = @ + 1, !.body = IF body /\ t # "brace" THEN @ + 1 ELSE @]
-----------------------------------------------------------------------------
Init ==
  /\ tu = 0 /\ stack = <<>> /\ frames = 0 /\ defined = {} /\ read = {} /\ tokens = 0
  /\ units = {} /\ metrics = [u \in Units |-> NoMetrics] /\ processed = {}
  /\ curFile = NoFile
  /\ curFn = NoFn /\ fnFrame = 0 /\ curUnit = NoUnit
  /\ inBody = FALSE /\ waiting = FALSE /\ ids = {} /\ bodyIds = {}
  /\ firstTU = [f \in Files |-> 0] /\ truth = metrics /\ split = {}

Frame(f, id) == [file |-> f, id |-> id, fn |-> NoFn, body |-> FALSE]

\* The history of entering a file.
Meet(f, n) ==
  /\ read' = IF stack = <<>> THEN {f} ELSE read \cup {f}
  /\ firstTU' = [firstTU EXCEPT ![f] = IF @ = 0 THEN n ELSE @]

\* A new lexer, in the main file.
StartTU(f) ==
  /\ stack = <<>> /\ tu < MaxTUs
  /\ tu' = tu + 1 /\ stack' = <<Frame(f, 1)>> /\ frames' = 1
  /\ defined' = {}
  /\ curFile' = f
  /\ curFn' = NoFn /\ fnFrame' = 0 /\ curUnit' = NoUnit
  /\ inBody' = FALSE /\ waiting' = FALSE /\ ids' = {} /\ bodyIds' = {}
  /\ Meet(f, tu + 1)
  /\ UNCHANGED <<tokens, units, metrics, processed, truth, split>>

\* FileChanged(): def files are passed over.
FileChanged(f) == curFile' = IF f \in DefFiles THEN curFile ELSE f

\* An include, in a function only as an idiom.  (In a def file it is left out, unless
\* of another.)
Include(f) ==
  /\ stack # <<>> /\ frames <= MaxIncludes
  /\ \A i \in DOMAIN stack : stack[i].file # f
  /\ Head(stack).fn # NoFn => "includeInFunction" \in Idioms
  /\ Head(stack).file \in DefFiles => f \in DefFiles
  /\ stack' = <<Frame(f, frames + 1)>> \o stack /\ frames' = frames + 1
  /\ FileChanged(f)
  /\ Meet(f, tu)
  /\ UNCHANGED <<tu, defined, tokens, units, metrics, processed, lexer, truth, split>>

\* The innermost frame is between functions.
Complete == Head(stack).fn # NoFn => Head(stack).body

\* The end of an included file.
Return ==
  /\ Len(stack) > 1 /\ Complete
  /\ stack' = Tail(stack)
  /\ FileChanged(stack[2].file)
  /\ UNCHANGED <<tu, frames, defined, read, tokens, units, metrics, processed, lexer,
                 firstTU, truth, split>>

\* Where the next token may be: function g, in its body or not.
Follows(g, body, t) ==
  LET fr == Head(stack) IN
  \/ g = fr.fn /\ body = fr.body /\ (g # NoFn /\ ~ body => t # "brace")
  \/ g = fr.fn /\ g # NoFn /\ ~ fr.body /\ body /\ t = "brace"
  \/ g = NoFn /\ Complete /\ ~ body
  \/ g \notin defined \cup {NoFn} /\ Complete /\ ~ body /\ t # "brace"
       /\ \A i \in 2 .. Len(stack) : stack[i].fn = NoFn

\* What the token should do to the metrics: count in the function it is in, or in the
\* file, if that is met for the first time.
Expect(fr, t) ==
  LET f == Resolved(stack)
      g == FindFunction(fr)
      counted == ShouldIncludeFile(f) /\ ShouldIncludeFunction(g) /\ firstTU[f] = tu
      m == Count(truth[FunctionUnit(f, g)], t, fr.body)
      around == {i \in 2 .. Len(stack) : stack[i].fn # NoFn}
  IN
  /\ truth' =
       IF ~ counted THEN truth
       ELSE [truth EXCEPT ![FunctionUnit(f, g)] =
               [m EXCEPT !.ids = @ \cup ({t} \cap Identifiers),
                         !.bodyIds = IF fr.body THEN @ \cup ({t} \cap Identifiers) ELSE @]]
  /\ split' = split \cup
       (IF counted THEN {FunctionUnit(Resolved(SubSeq(stack, i, Len(stack))), stack[i].fn) :
                           i \in around}
        ELSE {})

\* A token of a file that is not to be lexed, or not again.
Skip == UNCHANGED <<metrics, lexer>>

\* One that is: it moves the lexer, and counts, unless its function is excluded.
Lex(fr, t) ==
  LET g == FindFunction(fr)
      lookup == LooksUp(fr)
      unit == IF lookup THEN UnitFor(g) ELSE curUnit
      closes == lookup /\ (g # NoFn \/ curUnit # unit)
      reached == ~ lookup /\ waiting /\ fr.body
      body == IF lookup THEN BodyAfterLookup ELSE inBody \/ reached
      closed == IF closes THEN CloseOut ELSE metrics
      set == IF closes THEN EnterFileScope(unit) ELSE ids
      bodySet == IF closes THEN {} ELSE bodyIds
      counts == unit # NoUnit
  IN
  /\ curFn' = IF lookup THEN g ELSE curFn
  /\ fnFrame' = IF lookup THEN fr.id ELSE fnFrame
  /\ curUnit' = unit
  /\ inBody' = body
  /\ waiting' = IF lookup THEN waiting \/ (g # NoFn /\ counts) ELSE waiting /\ ~ reached
  /\ metrics' = IF counts THEN [closed EXCEPT ![unit] = Count(@, t, body)] ELSE closed
  /\ ids' = IF counts THEN set \cup InsertIdentifier(t) ELSE set
  /\ bodyIds' = IF counts /\ body THEN bodySet \cup InsertIdentifier(t) ELSE bodySet

\* One round of the loop of LexSources().
LexToken(g, body, t) ==
  LET fr == [Head(stack) EXCEPT !.fn = g, !.body = body]
      included == ShouldIncludeFile(curFile)
  IN
  /\ stack # <<>> /\ tokens < MaxTokens /\ Follows(g, body, t)
  /\ tokens' = tokens + 1
  /\ stack' = <<fr>> \o Tail(stack)
  /\ defined' = defined \cup ({g} \ {NoFn})
  /\ Expect(fr, t)
  /\ \/ included /\ curFile \notin processed /\ Lex(fr, t)
     \/ (included => curFile \in processed) /\ Skip
  /\ units' = units \cup (IF included THEN {FileUnit(curFile)} ELSE {})
                    \cup (IF included /\ curFile \notin processed THEN {curUnit'} \ {NoUnit} ELSE {})
  /\ UNCHANGED <<tu, frames, read, processed, curFile, firstTU>>

\* Fault: only the main file is marked.
MarkMain == {Last(stack).file} \ ExcludedFiles

\* The files marked as processed, def files among them.
Marked == {f \in read : ShouldIncludeFile(f)}

\* The rest of LexSources().
EndTU ==
  /\ Len(stack) = 1 /\ Complete
  /\ stack' = <<>>
  /\ metrics' = CloseOut
  /\ ids' = {} /\ bodyIds' = {} /\ curUnit' = NoUnit /\ curFn' = NoFn
  /\ units' = units \cup {FileUnit(f) : f \in {x \in read : ShouldIncludeFile(x)}}
  /\ processed' = processed \cup Marked
  /\ UNCHANGED <<tu, frames, defined, read, tokens, curFile, fnFrame, inBody, waiting,
                 firstTU, truth, split>>

Next ==
  \/ \E f \in Mains : StartTU(f)
  \/ \E f \in Files : Include(f)
  \/ Return
  \/ \E g \in FnNames \cup {NoFn}, body \in BOOLEAN, t \in Tokens : LexToken(g, body, t)
  \/ EndTU

Spec == Init /\ [][Next]_vars
-----------------------------------------------------------------------------
(* Properties. *)

\* Type invariant of the lexer and of the units it fills.
TypeOK ==
  /\ tu \in 0 .. MaxTUs /\ tokens \in 0 .. MaxTokens /\ frames \in 0 .. MaxIncludes + 1
  /\ units \subseteq Units
  /\ metrics \in [Units -> [tokens : Nat, body : Nat,
                            ids : SUBSET Identifiers, bodyIds : SUBSET Identifiers]]
  /\ processed \subseteq Files
  /\ curFile \in Files \cup {NoFile}
  /\ curFn \in FnNames \cup {NoFn} /\ fnFrame \in 0 .. frames
  /\ curUnit \in units \cup {NoUnit}
  /\ {inBody, waiting} \subseteq BOOLEAN
  /\ ids \subseteq Identifiers /\ bodyIds \subseteq ids

\* What the cached extents say of a token is what a look-up would: each token of each
\* file counts once, in the first translation unit with the file, for the function or
\* the file it belongs to, however files and functions alternate.
TokensCountedOnce == \A u \in Units : metrics[u].tokens = truth[u].tokens

\* The identifiers of a unit, its current ones included.
Known(u) == IF u = curUnit THEN ids ELSE metrics[u].ids
KnownInBody(u) == IF u = curUnit THEN bodyIds ELSE metrics[u].bodyIds

\* Leaving a unit replaces its sets, and a file is left and entered again around each
\* function: its sets nevertheless hold all of its identifiers, and those of every
\* function that no other file interrupts are complete too.
IdentifierSetsExact == \A u \in Units \ split : Known(u) = truth[u].ids

\* What counts as inside the body is what follows the opening brace of the same function,
\* unless another file interrupts it.
BodyExact ==
  \A u \in Units \ split :
    metrics[u].body = truth[u].body /\ KnownInBody(u) = truth[u].bodyIds

\* After the first translation unit with a file, nothing of the file or of its
\* functions changes, whatever later translation units make of the file.
FrozenAfterLexed ==
  [][\A u \in Units :
       firstTU[u.file] # 0 /\ firstTU[u.file] < tu' => metrics'[u] = metrics[u]]_vars
=============================================================================
