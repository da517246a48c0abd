------------------------------ MODULE Comments ------------------------------
(***************************************************************************)
(* The comment counter of pass 1 (src/src/MetricPPCustomer.cpp).  While a  *)
(* translation unit is parsed the preprocessor hands over each comment it  *)
(* meets, in the main file and in what it includes; a header is met again  *)
(* in every translation unit.  Two things decide whether a comment counts: *)
(* the list of files with comments, kept over all translation units, and   *)
(* the file of the last comment, kept by an object made anew for each.     *)
(*                                                                         *)
(* That object is copied before it is registered                           *)
(* (src/src/MetricFrontendActors.cpp:73): comments arrive at the one copy, *)
(* inclusions at the other.                                                *)
(***************************************************************************)
EXTENDS Integers, Sequences, FiniteSets

CONSTANTS
  Files,          \* names of source files
  NoFile,         \* the empty file name
  Comment,        \* an item of a text: a comment
  Mains,          \* source files given on the command line
  Guarded,        \* files the preprocessor enters once in a translation unit
  ExcludedFiles,  \* files of --exclude-file
  Texts           \* the contents the files may have

\* A text is a sequence of comments and inclusions of files.
Items == Files \cup {Comment}

ASSUME TextAssumption ==
  /\ NoFile \notin Files /\ Comment \notin Files
  /\ Mains \subseteq Files /\ Guarded \subseteq Files
  /\ Texts \subseteq [Files -> Seq(Items)]

VARIABLES
  text,         \* contents of each file
  todo,         \* main files not parsed yet
  main,         \* main file of the translation unit being parsed, or NoFile
  stack,        \* the files being read, innermost first: file and items read
  entered,      \* files entered in this translation unit
  handlerFile,  \* m_commentFile of the copy that handles comments
  callbackFile, \* m_commentFile of the copy that is told of inclusions
  fileList,     \* m_commentFileList
  count,        \* METRIC_TYPE_COMMENT_COUNT of each file's unit
  counted,      \* history: how often each comment was counted
  seen,         \* history: for each main file, the comments met in its translation unit
  cut,          \* history: files with comments that another file's comment interrupted
  home          \* history: main file of the first translation unit with a comment of the file

vars == <<text, todo, main, stack, entered, handlerFile, callbackFile, fileList,
          count, counted, seen, cut, home>>

Places == Files \X (Nat \ {0})
Reading(f, n) == [file |-> f, read |-> n]
Top == stack[1]
Below == {stack[i].file : i \in 2 .. Len(stack)}
MoreToRead == stack /= <<>> /\ Top.read < Len(text[Top.file])
NextItem == text[Top.file][Top.read + 1]
ReadOn == [stack EXCEPT ![1].read = @ + 1]
-----------------------------------------------------------------------------
\* MetricOptions::ShouldIncludeFile()
ShouldIncludeFile(f) == f \notin ExcludedFiles

\* Faults: files known are not left out; main files are treated as any other.
CountsAlways(f) == TRUE
CountsAsHeader(f) == f = handlerFile \/ f \notin fileList

\* The condition of HandleComment(): the main file is told by clang's number of it, so
\* it is not the main file where it is included.
Counts(f) ==
  \/ Len(stack) = 1
  \/ f = handlerFile
  \/ f \notin fileList

\* Fault: the object is kept from one translation unit to the next.
KeptFile == handlerFile

\* m_commentFile when CreateASTConsumer() has made a new MetricPPCustomer.
FreshFile == NoFile

\* Fault: the file included is remembered instead of none.
FileIncluded == NextItem

\* m_commentFile of the copy told of an inclusion; the handler's is not touched.
CallbackAfterInclusion == NoFile
-----------------------------------------------------------------------------
Init ==
  /\ text \in Texts
  /\ todo = Mains
  /\ main = NoFile
  /\ stack = <<>>
  /\ entered = {}
  /\ handlerFile = NoFile
  /\ callbackFile = NoFile
  /\ fileList = {}
  /\ count = [f \in Files |-> 0]
  /\ counted = [f \in Files |-> [i \in 1 .. Len(text[f]) |-> 0]]
  /\ seen = [f \in Mains |-> {}]
  /\ cut = {}
  /\ home = [f \in Files |-> NoFile]

\* CreateASTConsumer() for the next main file, in any order.
StartTU(f) ==
  /\ main = NoFile
  /\ f \in todo
  /\ main' = f
  /\ todo' = todo \ {f}
  /\ stack' = <<Reading(f, 0)>>
  /\ entered' = {f}
  /\ handlerFile' = FreshFile
  /\ callbackFile' = FreshFile
  /\ UNCHANGED <<text, fileList, count, counted, seen, cut, home>>

\* HandleComment() for a comment of the file being read.  The unit is asked for
\* by the name of the file itself; a def file is not resolved to its includer.
HandleComment ==
  /\ MoreToRead
  /\ NextItem = Comment
  /\ LET f == Top.file
         i == Top.read + 1
     IN  /\ IF Counts(f)
            THEN /\ handlerFile' = f
                 /\ fileList' = fileList \cup {f}
                 /\ IF ShouldIncludeFile(f)
                    THEN /\ count' = [count EXCEPT ![f] = @ + 1]
                         /\ counted' = [counted EXCEPT ![f][i] = @ + 1]
                    ELSE UNCHANGED <<count, counted>>
            ELSE /\ handlerFile' = NoFile
                 /\ UNCHANGED <<fileList, count, counted>>
         /\ seen' = [seen EXCEPT ![main] = @ \cup {<<f, i>>}]
         /\ cut' = cut \cup (Below \cap fileList)
         /\ home' = [home EXCEPT ![f] = IF @ = NoFile THEN main ELSE @]
  /\ stack' = ReadOn
  /\ UNCHANGED <<text, todo, main, entered, callbackFile>>

\* InclusionDirective(), and the preprocessor enters the file unless it was there
\* before and is guarded.
Inclusion ==
  /\ MoreToRead
  /\ NextItem \in Files
  /\ callbackFile' = CallbackAfterInclusion
  /\ IF NextItem \in Guarded \cap entered
     THEN stack' = ReadOn
     ELSE stack' = <<Reading(NextItem, 0)>> \o ReadOn
  /\ entered' = entered \cup {NextItem}
  /\ UNCHANGED <<text, todo, main, handlerFile, fileList, count, counted, seen, cut, home>>

\* The preprocessor leaves an item out: it is in a group that is not compiled in
\* this translation unit.
SkipItem ==
  /\ MoreToRead
  /\ stack' = ReadOn
  /\ UNCHANGED <<text, todo, main, entered, handlerFile, callbackFile, fileList, count,
                 counted, seen, cut, home>>

EndOfFile ==
  /\ Len(stack) > 1
  /\ ~ MoreToRead
  /\ stack' = Tail(stack)
  /\ UNCHANGED <<text, todo, main, entered, handlerFile, callbackFile, fileList, count,
                 counted, seen, cut, home>>

EndTU ==
  /\ Len(stack) = 1
  /\ ~ MoreToRead
  /\ stack' = <<>>
  /\ main' = NoFile
  /\ UNCHANGED <<text, todo, entered, handlerFile, callbackFile, fileList, count, counted,
                 seen, cut, home>>

Next ==
  \/ \E f \in Mains : StartTU(f)
  \/ HandleComment
  \/ Inclusion
  \/ SkipItem
  \/ EndOfFile
  \/ EndTU

Spec == Init /\ [][Next]_vars
-----------------------------------------------------------------------------
(* Properties. *)

\* Types; and the copy told of inclusions never learns of a file, so what
\* InclusionDirective() resets (MetricPPCustomer.cpp:68) is empty already.
TypeOK ==
  /\ text \in [Files -> Seq(Items)]
  /\ todo \subseteq Mains
  /\ main \in Mains \cup {NoFile}
  /\ stack \in Seq([file : Files, read : Nat])
  /\ entered \subseteq Files
  /\ handlerFile \in Files \cup {NoFile}
  /\ callbackFile = NoFile
  /\ fileList \subseteq Files
  /\ count \in [Files -> Nat]
  /\ \A f \in Files : counted[f] \in [1 .. Len(text[f]) -> Nat]
  /\ seen \in [Mains -> SUBSET Places]
  /\ cut \subseteq Files
  /\ home \in [Files -> Mains \cup {NoFile}]
  /\ main = NoFile <=> stack = <<>>

Included(f) == \E g \in Files : \E i \in 1 .. Len(text[g]) : text[g][i] = f
Rereadable(f) == (f \in Mains /\ Included(f)) \/ f \notin Guarded \cup Mains

\* COMMENT_CNT counts each comment at most once, however many translation units
\* meet it, unless its file is a main file that is included as well, or can be
\* entered twice in one translation unit (MetricPPCustomer.cpp:42).
CountedOnce ==
  \A f \in Files : ~ Rereadable(f) =>
    \A i \in 1 .. Len(text[f]) : counted[f][i] <= 1

EnteredOnce(f) == f \in Guarded \/ ~ Included(f)

\* A comment met in a translation unit of its own file, or in the first one with
\* comments of its file, is missed only when the comments of that file were
\* interrupted by those of a file it includes, or it can be entered twice
\* (MetricPPCustomer.cpp:42, 55).
LostOnlyWhenCut ==
  \A m \in Mains : \A p \in seen[m] :
    LET f == p[1] IN
      /\ ShouldIncludeFile(f)
      /\ EnteredOnce(f)
      /\ f = m \/ (home[f] = m /\ f \notin cut)
      => counted[f][p[2]] > 0

\* The comments of a file that is not a main file count in one translation unit
\* only: a later one adds nothing, whatever file the one before it ended in.
OneTranslationUnit ==
  [][\A f \in Files : count'[f] /= count[f] => main \in {f, home'[f]}]_vars

\* COMMENT_CNT "counts the total number of comments" (docs/metrics_details.md:140):
\* once a translation unit is parsed, each comment met in it has been counted.
AllCounted ==
  \A m \in Mains \ (todo \cup {main}) : \A p \in seen[m] :
    ShouldIncludeFile(p[1]) => counted[p[1]][p[2]] > 0
=============================================================================
