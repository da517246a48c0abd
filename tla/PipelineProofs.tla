--------------------------- MODULE PipelineProofs ---------------------------
(***************************************************************************)
(* Proofs about the driver and the comment counter, for any main files and *)
(* any contents, whatever fails.                                           *)
(*                                                                         *)
(* Comment counter: its types, that the comments of a file that is not a   *)
(* main file count in one translation unit only, that none counts twice,   *)
(* and why one is missed.  Driver: what a report is made from, what the    *)
(* exit status says, when a report is lost.  The steps of pass 1 are steps *)
(* of Comments, whose theorems carry over.                                 *)
(***************************************************************************)
EXTENDS Pipeline, TLAPS
-----------------------------------------------------------------------------
(* The comment counter. *)

Element == [file : Files, read : Nat]

(* Operations on the stack of files being read. *)

LEMMA ReadOnKeeps ==
  ASSUME stack \in Seq(Element), stack /= <<>>
  PROVE  /\ ReadOn \in Seq(Element)
         /\ Len(ReadOn) = Len(stack)
         /\ \A i \in 1 .. Len(stack) : ReadOn[i].file = stack[i].file
<1> DEFINE top == [stack[1] EXCEPT !.read = @ + 1]
<1>1. 1 \in DOMAIN stack /\ stack[1] \in Element
  OBVIOUS
<1>2. top \in Element /\ top.file = stack[1].file
  BY <1>1 DEF Element
<1>3. ReadOn = [stack EXCEPT ![1] = top]
  BY DEF ReadOn
<1> HIDE DEF top
<1> QED
  BY <1>1, <1>2, <1>3

LEMMA PushKeeps ==
  ASSUME NEW s \in Seq(Element), s /= <<>>, NEW e \in Element
  PROVE  /\ <<e>> \o s \in Seq(Element)
         /\ Len(<<e>> \o s) = Len(s) + 1
         /\ (<<e>> \o s)[Len(s) + 1] = s[Len(s)]
  BY DEF Element

LEMMA PopKeeps ==
  ASSUME NEW s \in Seq(Element), Len(s) > 1
  PROVE  /\ Tail(s) \in Seq(Element)
         /\ Len(Tail(s)) = Len(s) - 1
         /\ Tail(s)[Len(s) - 1] = s[Len(s)]
  BY DEF Element

\* A text being read has a next item as long as MoreToRead says so.
LEMMA NextItemIsItem ==
  ASSUME TypeOK, MoreToRead
  PROVE  /\ Top \in Element /\ Top.file \in Files
         /\ Top.read + 1 \in 1 .. Len(text[Top.file])
         /\ NextItem \in Items
         /\ main \in Mains
<1>1. stack \in Seq(Element) /\ stack /= <<>> /\ Top.read < Len(text[Top.file])
  BY DEF TypeOK, MoreToRead, Element
<1>2. Top \in Element
  BY <1>1 DEF Top
<1>3. Top.file \in Files /\ Top.read \in Nat
  BY <1>2 DEF Element
<1>4. text[Top.file] \in Seq(Items)
  BY <1>3 DEF TypeOK
<1>5. main \in Mains
  BY <1>1 DEF TypeOK
<1> QED
  BY <1>1, <1>2, <1>3, <1>4, <1>5 DEF NextItem
-----------------------------------------------------------------------------
(* What the counting rests on.  StackBottom: the file read first is the main *)
(* file.  Remembered: the file of the last comment is the main file, or one  *)
(* whose comments began in this translation unit.  Listed: a file with a     *)
(* comment is in the list.                                                   *)

StackBottom == stack /= <<>> => stack[Len(stack)].file = main
Remembered ==
  main /= NoFile /\ handlerFile /= NoFile => handlerFile = main \/ home[handlerFile] = main
Listed == \A f \in Files : home[f] /= NoFile => f \in fileList

CommentInv == TypeOK /\ StackBottom /\ Remembered /\ Listed

\* Nothing but comments that count changes a counter.
CountsHere == \A f \in Files : count'[f] /= count[f] => main \in {f, home'[f]}

LEMMA InitHolds == Init => CommentInv
<1> SUFFICES ASSUME Init PROVE CommentInv
  OBVIOUS
<1> USE TextAssumption DEF Init
<1>1. text \in [Files -> Seq(Items)]
  OBVIOUS
<1>2. \A f \in Files : counted[f] \in [1 .. Len(text[f]) -> Nat]
  BY <1>1
<1>3. TypeOK
  BY <1>1, <1>2 DEF TypeOK, Places
<1>4. StackBottom /\ Remembered /\ Listed
  BY DEF StackBottom, Remembered, Listed
<1> QED
  BY <1>3, <1>4 DEF CommentInv

LEMMA StartTUKeeps ==
  ASSUME CommentInv, NEW f \in Mains, StartTU(f)
  PROVE  CommentInv' /\ CountsHere
<1> USE TextAssumption DEF StartTU, FreshFile
<1>1. f \in Files /\ f /= NoFile
  OBVIOUS
<1>2. stack' = <<Reading(f, 0)>> /\ Reading(f, 0) \in Element /\ Reading(f, 0).file = f
  BY <1>1 DEF Reading, Element
<1>3. stack' \in Seq(Element) /\ stack' /= <<>>
  BY <1>2
<1>4. TypeOK'
  BY <1>1, <1>3 DEF CommentInv, TypeOK, Element
<1>5. StackBottom'
  BY <1>2 DEF StackBottom
<1>6. Remembered' /\ Listed' /\ CountsHere
  BY DEF Remembered, Listed, CommentInv, CountsHere
<1> QED
  BY <1>4, <1>5, <1>6 DEF CommentInv

\* Reading on leaves the bottom of the stack alone.
LEMMA ReadOnBottom ==
  ASSUME CommentInv, MoreToRead
  PROVE  /\ ReadOn \in Seq(Element) /\ ReadOn /= <<>>
         /\ ReadOn[Len(ReadOn)].file = main
<1>1. stack \in Seq(Element) /\ stack /= <<>>
  BY DEF CommentInv, TypeOK, MoreToRead, Element
<1>2. Len(stack) \in 1 .. Len(stack)
  BY <1>1
<1> QED
  BY <1>1, <1>2, ReadOnKeeps DEF CommentInv, StackBottom

LEMMA HandleCommentKeeps ==
  ASSUME CommentInv, HandleComment
  PROVE  CommentInv' /\ CountsHere
<1> DEFINE f == Top.file
           i == Top.read + 1
           Effect ==
             /\ Remembered' /\ Listed' /\ CountsHere
             /\ handlerFile' \in Files \cup {NoFile} /\ fileList' \subseteq Files
             /\ count' \in [Files -> Nat]
             /\ \A g \in Files : counted'[g] \in [1 .. Len(text[g]) -> Nat]
<1>1. MoreToRead /\ NextItem = Comment /\ stack' = ReadOn
      /\ UNCHANGED <<text, todo, main, entered, callbackFile>>
  BY DEF HandleComment
<1>2. f \in Files /\ i \in 1 .. Len(text[f]) /\ main \in Mains /\ main /= NoFile
  BY <1>1, NextItemIsItem, TextAssumption DEF CommentInv
<1>3. /\ seen' = [seen EXCEPT ![main] = @ \cup {<<f, i>>}]
      /\ cut' = cut \cup (Below \cap fileList)
      /\ home' = [home EXCEPT ![f] = IF @ = NoFile THEN main ELSE @]
  BY DEF HandleComment
<1>4. ASSUME Counts(f) PROVE Effect
  <2>1. handlerFile' = f /\ fileList' = fileList \cup {f}
    BY <1>4 DEF HandleComment
  <2>2. \/ /\ count' = [count EXCEPT ![f] = @ + 1]
           /\ counted' = [counted EXCEPT ![f][i] = @ + 1]
        \/ UNCHANGED <<count, counted>>
    BY <1>4 DEF HandleComment
  <2>3. f = main \/ home'[f] = main
    <3>1. CASE Len(stack) = 1
      BY <3>1, <1>2 DEF CommentInv, StackBottom, Top, TypeOK
    <3>2. CASE f = handlerFile
      BY <3>2, <1>2, <1>3, TextAssumption DEF CommentInv, Remembered, TypeOK
    <3>3. CASE f \notin fileList
      BY <3>3, <1>2, <1>3 DEF CommentInv, Listed, TypeOK
    <3> QED
      BY <1>4, <3>1, <3>2, <3>3 DEF Counts
  <2>4. Remembered' /\ Listed'
    BY <1>1, <1>2, <1>3, <2>1, <2>3 DEF Remembered, Listed, CommentInv, TypeOK
  <2>5. CountsHere
    BY <1>2, <2>2, <2>3 DEF CountsHere, CommentInv, TypeOK
  <2>6. count' \in [Files -> Nat]
    <3>1. count \in [Files -> Nat] /\ f \in Files
      BY <1>2 DEF CommentInv, TypeOK
    <3> HIDE DEF f, i
    <3> QED
      BY <2>2, <3>1
  <2>7. ASSUME NEW g \in Files
        PROVE  counted'[g] \in [1 .. Len(text[g]) -> Nat]
    <3>1. \A h \in Files : counted[h] \in [1 .. Len(text[h]) -> Nat]
      BY DEF CommentInv, TypeOK
    <3>2. counted[f][i] + 1 \in Nat
      BY <1>2, <3>1
    <3> HIDE DEF f, i
    <3>3. CASE counted' = counted
      BY <3>1, <3>3
    <3>4. CASE counted' = [counted EXCEPT ![f][i] = @ + 1]
      <4>1. CASE g /= f
        BY <3>1, <3>4, <4>1
      <4>2. CASE g = f /\ f \in DOMAIN counted
        BY <3>1, <3>2, <3>4, <4>2
      <4>3. CASE f \notin DOMAIN counted
        BY <3>1, <3>4, <4>3
      <4> QED
        BY <4>1, <4>2, <4>3
    <3> QED
      BY <2>2, <3>3, <3>4
  <2> QED
    BY <2>1, <2>4, <2>5, <2>6, <2>7, <1>2 DEF CommentInv, TypeOK
<1>5. ASSUME ~ Counts(f) PROVE Effect
  <2>1. handlerFile' = NoFile /\ UNCHANGED <<fileList, count, counted>> /\ f \in fileList
    BY <1>5 DEF HandleComment, Counts
  <2>2. Remembered' /\ Listed' /\ CountsHere
    BY <1>2, <1>3, <2>1 DEF Remembered, Listed, CommentInv, TypeOK, CountsHere
  <2> QED
    BY <2>1, <2>2, <1>2, <1>1 DEF CommentInv, TypeOK
<1>6. Effect
  BY <1>4, <1>5
<1>7. ReadOn \in Seq(Element) /\ ReadOn /= <<>> /\ ReadOn[Len(ReadOn)].file = main
  BY <1>1, ReadOnBottom
<1>8. seen' \in [Mains -> SUBSET Places]
  BY <1>2, <1>3 DEF CommentInv, TypeOK, Places
<1>9. cut' \subseteq Files /\ home' \in [Files -> Mains \cup {NoFile}]
  BY <1>2, <1>3 DEF CommentInv, TypeOK
<1>10. StackBottom'
  BY <1>1, <1>7 DEF StackBottom
<1>11. TypeOK'
  BY <1>1, <1>2, <1>6, <1>7, <1>8, <1>9 DEF CommentInv, TypeOK, Element
<1> QED
  BY <1>6, <1>10, <1>11 DEF CommentInv

\* Steps that only change the stack keep it a stack over the main file.
LEMMA StackOnly ==
  ASSUME CommentInv, stack' \in Seq(Element), stack' /= <<>>, stack /= <<>>,
         stack'[Len(stack')].file = main, entered' \subseteq Files, callbackFile' = NoFile,
         UNCHANGED <<text, todo, main, handlerFile, fileList, count, counted, seen, cut, home>>
  PROVE  CommentInv' /\ CountsHere
<1>1. TypeOK'
  BY DEF CommentInv, TypeOK, Element
<1>2. StackBottom' /\ Remembered' /\ Listed' /\ CountsHere
  BY DEF CommentInv, StackBottom, Remembered, Listed, CountsHere
<1> QED
  BY <1>1, <1>2 DEF CommentInv

LEMMA StackStepsKeep ==
  ASSUME CommentInv, Inclusion \/ SkipItem \/ EndOfFile
  PROVE  CommentInv' /\ CountsHere
<1>1. stack \in Seq(Element) /\ callbackFile = NoFile /\ entered \subseteq Files
  BY DEF CommentInv, TypeOK, Element
<1>2. CASE Inclusion
  <2>1. MoreToRead /\ NextItem \in Files
    BY <1>2 DEF Inclusion
  <2>2. ReadOn \in Seq(Element) /\ ReadOn /= <<>> /\ ReadOn[Len(ReadOn)].file = main
    BY <2>1, ReadOnBottom
  <2>3. Reading(NextItem, 0) \in Element
    BY <2>1 DEF Reading, Element
  <2>4. stack' \in {ReadOn, <<Reading(NextItem, 0)>> \o ReadOn}
    BY <1>2 DEF Inclusion
  <2> DEFINE r == ReadOn
             e == Reading(NextItem, 0)
  <2> HIDE DEF r, e
  <2>5. stack' \in Seq(Element) /\ stack' /= <<>> /\ stack'[Len(stack')].file = main
    <3>1. r \in Seq(Element) /\ r /= <<>> /\ r[Len(r)].file = main /\ e \in Element
      BY <2>2, <2>3 DEF r, e
    <3>2. /\ <<e>> \o r \in Seq(Element) /\ Len(<<e>> \o r) = Len(r) + 1
          /\ (<<e>> \o r)[Len(r) + 1] = r[Len(r)]
      BY <3>1, PushKeeps
    <3>3. stack' \in {r, <<e>> \o r}
      BY <2>4 DEF r, e
    <3>4. CASE stack' = r
      BY <3>1, <3>4
    <3>5. CASE stack' = <<e>> \o r
      <4>1. stack' /= <<>>
        BY <3>1, <3>2, <3>5
      <4> QED
        BY <3>1, <3>2, <3>5, <4>1
    <3> QED
      BY <3>3, <3>4, <3>5
  <2>6. entered' \subseteq Files /\ callbackFile' = NoFile /\ stack /= <<>>
    BY <1>1, <1>2, <2>1 DEF Inclusion, CallbackAfterInclusion, MoreToRead
  <2> QED
    BY <1>2, <2>5, <2>6, StackOnly DEF Inclusion
<1>3. CASE SkipItem
  <2>1. stack' \in Seq(Element) /\ stack' /= <<>> /\ stack'[Len(stack')].file = main
    BY <1>3, ReadOnBottom DEF SkipItem
  <2> QED
    BY <1>1, <1>3, <2>1, StackOnly DEF SkipItem, MoreToRead
<1>4. CASE EndOfFile
  <2>1. Len(stack) > 1 /\ stack' = Tail(stack)
    BY <1>4 DEF EndOfFile
  <2>2. /\ stack' \in Seq(Element) /\ Len(stack') = Len(stack) - 1
        /\ stack'[Len(stack) - 1] = stack[Len(stack)]
    BY <1>1, <2>1, PopKeeps
  <2>3. stack' /= <<>> /\ stack /= <<>>
    <3>1. Len(stack) \in Nat /\ Len(stack') > 0 /\ Len(<<>>) = 0
      BY <1>1, <2>1, <2>2
    <3> QED
      BY <2>1, <3>1
  <2>4. stack'[Len(stack')].file = main
    BY <2>2, <2>3 DEF CommentInv, StackBottom
  <2> QED
    BY <1>1, <1>4, <2>2, <2>3, <2>4, StackOnly DEF EndOfFile
<1> QED
  BY <1>2, <1>3, <1>4

LEMMA EndTUKeeps ==
  ASSUME CommentInv, EndTU
  PROVE  CommentInv' /\ CountsHere
<1>1. TypeOK'
  BY DEF EndTU, CommentInv, TypeOK
<1>2. StackBottom' /\ Remembered' /\ Listed' /\ CountsHere
  BY DEF EndTU, CommentInv, StackBottom, Remembered, Listed, CountsHere
<1> QED
  BY <1>1, <1>2 DEF CommentInv

\* A main file that is passed over, or nothing at all, happens.
LEMMA IdleKeeps ==
  ASSUME CommentInv, todo' \subseteq todo,
         UNCHANGED <<text, main, stack, entered, handlerFile, callbackFile, fileList, count,
                     counted, seen, cut, home>>
  PROVE  CommentInv' /\ CountsHere
<1>1. TypeOK'
  BY DEF CommentInv, TypeOK
<1>2. StackBottom' /\ Remembered' /\ Listed' /\ CountsHere
  BY DEF CommentInv, StackBottom, Remembered, Listed, CountsHere
<1> QED
  BY <1>1, <1>2 DEF CommentInv

LEMMA StepKeeps ==
  ASSUME CommentInv, [Next]_vars
  PROVE  CommentInv' /\ CountsHere
<1>1. CASE \E f \in Mains : StartTU(f)
  BY <1>1, StartTUKeeps
<1>2. CASE HandleComment
  BY <1>2, HandleCommentKeeps
<1>3. CASE Inclusion \/ SkipItem \/ EndOfFile
  BY <1>3, StackStepsKeep
<1>4. CASE EndTU
  BY <1>4, EndTUKeeps
<1>5. CASE UNCHANGED vars
  BY <1>5, IdleKeeps DEF vars
<1> QED
  BY <1>1, <1>2, <1>3, <1>4, <1>5 DEF Next

\* Every variable keeps its type, and the copy of the comment counter that is told of
\* inclusions never has a file to forget.
THEOREM CommentTypes == Spec => []TypeOK
<1>1. CommentInv => TypeOK
  BY DEF CommentInv
<1> QED
  BY <1>1, InitHolds, StepKeeps, PTL DEF Spec

\* The comments of a file that is no main file are counted in the first translation
\* unit that has one of them, and in no other.
THEOREM CountedInOneUnit == Spec => OneTranslationUnit
<1>1. CommentInv /\ [Next]_vars => [CountsHere]_vars
  BY StepKeeps
<1> QED
  BY <1>1, InitHolds, StepKeeps, PTL DEF Spec, OneTranslationUnit, CountsHere
-----------------------------------------------------------------------------
(* No comment counts twice, unless its file may be read twice: one frame of  *)
(* the stack at most is of the file, and what it has not read yet was not    *)
(* counted, or belongs to an earlier translation unit and will not be.       *)

FrameOnce(f) ==
  /\ \A i, j \in DOMAIN stack : stack[i].file = f /\ stack[j].file = f => i = j
  /\ \A i \in DOMAIN stack : stack[i].file = f =>
       /\ f \in entered
       /\ f \in Mains => f = main
       /\ \A k \in 1 .. Len(text[f]) :
            stack[i].read < k => counted[f][k] = 0 \/ home[f] \notin {NoFile, main}

PlaceOnce(f) ==
  /\ \A k \in 1 .. Len(text[f]) : counted[f][k] <= 1 /\ (home[f] = NoFile => counted[f][k] = 0)
  /\ main /= NoFile /\ home[f] = main => f \in entered
  /\ f \in Mains => home[f] \in {NoFile, f}

\* A translation unit that was begun is not begun again.
TodoInv == main \notin todo /\ \A f \in Files : home[f] \notin todo

\* The history of counts speaks of every file.
CountedTotal == DOMAIN counted = Files

OnceInv ==
  /\ TodoInv /\ CountedTotal
  /\ \A f \in Files : ~ Rereadable(f) => FrameOnce(f) /\ PlaceOnce(f)

LEMMA OnceInit == Init => OnceInv
<1> SUFFICES ASSUME Init PROVE OnceInv
  OBVIOUS
<1>1. TodoInv
  BY TextAssumption DEF Init, TodoInv
<1>3. CountedTotal
  BY DEF Init, CountedTotal
<1>2. ASSUME NEW f \in Files PROVE FrameOnce(f) /\ PlaceOnce(f)
  BY DEF Init, FrameOnce, PlaceOnce
<1> QED
  BY <1>1, <1>2, <1>3 DEF OnceInv

LEMMA StartOnce ==
  ASSUME CommentInv, OnceInv, NEW m \in Mains, StartTU(m)
  PROVE  OnceInv'
<1>1. /\ m \in todo /\ main = NoFile /\ main' = m /\ todo' = todo \ {m} /\ entered' = {m}
      /\ stack' = <<Reading(m, 0)>> /\ UNCHANGED <<text, counted, home>>
  BY DEF StartTU
<1>2. m \in Files /\ m /= NoFile
  BY TextAssumption
<1>3. /\ DOMAIN stack' = {1} /\ stack'[1].file = m /\ stack'[1].read = 0
  BY <1>1 DEF Reading
<1>4. \A f \in Files : home[f] \notin todo
  BY DEF OnceInv, TodoInv
<1>5. TodoInv'
  BY <1>1, <1>4 DEF TodoInv
<1>8. CountedTotal'
  BY <1>1 DEF OnceInv, CountedTotal
<1>6. ASSUME NEW f \in Files, ~ Rereadable(f) PROVE FrameOnce(f)' /\ PlaceOnce(f)'
  <2>1. PlaceOnce(f) /\ home[f] /= m
    BY <1>1, <1>4, <1>6 DEF OnceInv
  <2>2. PlaceOnce(f)'
    BY <1>1, <2>1 DEF PlaceOnce
  <2>3. FrameOnce(f)'
    <3>1. CASE f = m
      <4>1. home[f] = NoFile
        BY <2>1, <3>1 DEF PlaceOnce
      <4>2. \A k \in 1 .. Len(text[f]) : counted[f][k] = 0
        BY <2>1, <4>1 DEF PlaceOnce
      <4> QED
        BY <1>1, <1>3, <3>1, <4>2 DEF FrameOnce
    <3>2. CASE f /= m
      BY <1>3, <3>2 DEF FrameOnce
    <3> QED
      BY <3>1, <3>2
  <2> QED
    BY <2>2, <2>3
<1>7. \A f \in Files : Rereadable(f)' <=> Rereadable(f)
  BY <1>1 DEF Rereadable, Included
<1> QED
  BY <1>5, <1>6, <1>7, <1>8 DEF OnceInv

\* Reading on leaves the files of the frames and all but the innermost one alone.
LEMMA ReadOnFrames ==
  ASSUME TypeOK, MoreToRead
  PROVE  /\ ReadOn \in Seq(Element) /\ DOMAIN ReadOn = DOMAIN stack /\ 1 \in DOMAIN stack
         /\ \A i \in DOMAIN stack : /\ ReadOn[i].file = stack[i].file
                                    /\ ReadOn[i].read \in Nat /\ stack[i].read \in Nat
                                    /\ stack[i].read <= ReadOn[i].read
         /\ ReadOn[1].read = Top.read + 1
<1>1. stack \in Seq(Element) /\ stack /= <<>>
  BY DEF TypeOK, MoreToRead, Element
<1> DEFINE top == [stack[1] EXCEPT !.read = @ + 1]
<1>2. 1 \in DOMAIN stack /\ \A i \in DOMAIN stack : stack[i] \in Element
  BY <1>1
<1>3. top \in Element /\ top.file = stack[1].file /\ top.read = stack[1].read + 1
  BY <1>2 DEF Element
<1>4. ReadOn = [stack EXCEPT ![1] = top]
  BY DEF ReadOn
<1>5. \A i \in DOMAIN stack : stack[i].read \in Nat
  BY <1>2 DEF Element
<1> HIDE DEF top
<1>6. DOMAIN ReadOn = DOMAIN stack /\ ReadOn[1] = top
      /\ \A i \in DOMAIN stack : i /= 1 => ReadOn[i] = stack[i]
  BY <1>1, <1>2, <1>4
<1>7. ReadOn \in Seq(Element)
  BY <1>1, <1>2, <1>3, <1>4
<1> QED
  BY <1>1, <1>2, <1>3, <1>5, <1>6, <1>7 DEF Top

LEMMA CommentOnce ==
  ASSUME CommentInv, OnceInv, HandleComment, NEW f, NEW i, f = Top.file, i = Top.read + 1
  PROVE  OnceInv'
<1>1. MoreToRead /\ NextItem = Comment /\ stack' = ReadOn
      /\ UNCHANGED <<text, todo, main, entered, callbackFile>>
  BY DEF HandleComment
<1>2. f \in Files /\ i \in 1 .. Len(text[f]) /\ main \in Mains /\ main /= NoFile /\ Top.read \in Nat
  BY <1>1, NextItemIsItem, TextAssumption DEF CommentInv, Element
<1>12. DOMAIN counted = Files
  BY DEF OnceInv, CountedTotal
<1>3. home' = [home EXCEPT ![f] = IF @ = NoFile THEN main ELSE @]
  BY DEF HandleComment
<1>4. /\ counted' \in {counted, [counted EXCEPT ![f][i] = @ + 1]}
      /\ ~ Counts(f) => counted' = counted
  BY DEF HandleComment
<1>5. /\ DOMAIN stack' = DOMAIN stack /\ 1 \in DOMAIN stack
      /\ \A j \in DOMAIN stack : /\ stack'[j].file = stack[j].file
                                 /\ stack'[j].read \in Nat /\ stack[j].read \in Nat
                                 /\ stack[j].read <= stack'[j].read
      /\ stack'[1].read = i /\ stack[1].file = f /\ stack[1].read = Top.read
  BY <1>1, ReadOnFrames DEF CommentInv, Top
<1>6. home \in [Files -> Mains \cup {NoFile}]
      /\ \A h \in Files : counted[h] \in [1 .. Len(text[h]) -> Nat]
  BY DEF CommentInv, TypeOK
<1>7. TodoInv'
  BY <1>1, <1>2, <1>3, <1>6 DEF OnceInv, TodoInv
<1>8. ASSUME Counts(f) PROVE f = main \/ home[f] \in {NoFile, main}
  <2>1. CASE Len(stack) = 1
    BY <2>1, <1>1 DEF CommentInv, StackBottom, Top, MoreToRead
  <2>2. CASE f = handlerFile
    BY <2>2, <1>2, TextAssumption DEF CommentInv, Remembered, TypeOK
  <2>3. CASE f \notin fileList
    BY <2>3, <1>2 DEF CommentInv, Listed, TypeOK
  <2> QED
    BY <1>8, <2>1, <2>2, <2>3 DEF Counts
<1>9. ASSUME NEW g \in Files, ~ Rereadable(g), g /= f PROVE FrameOnce(g)' /\ PlaceOnce(g)'
  <2>1. home'[g] = home[g] /\ counted'[g] = counted[g]
    BY <1>3, <1>4, <1>6, <1>9, <1>12, <1>2
  <2>2. FrameOnce(g) /\ PlaceOnce(g)
    BY <1>9 DEF OnceInv
  <2>3. PlaceOnce(g)'
    BY <1>1, <2>1, <2>2 DEF PlaceOnce
  <2>4. FrameOnce(g)'
    <3>1. ASSUME NEW j \in DOMAIN stack, stack[j].file = g, NEW k \in 1 .. Len(text[g]),
                 stack'[j].read < k
          PROVE  stack[j].read < k
      BY <1>5, <3>1
    <3> QED
      BY <1>1, <1>5, <2>1, <2>2, <3>1 DEF FrameOnce
  <2> QED
    BY <2>3, <2>4
<1>10. ASSUME ~ Rereadable(f) PROVE FrameOnce(f)' /\ PlaceOnce(f)'
  <2>1. FrameOnce(f) /\ PlaceOnce(f)
    BY <1>2, <1>10 DEF OnceInv
  <2>2. f \in entered /\ (f \in Mains => f = main)
    BY <1>5, <2>1 DEF FrameOnce
  <2>3. home'[f] = IF home[f] = NoFile THEN main ELSE home[f]
    BY <1>2, <1>3, <1>6
  <2>4. Counts(f) => home[f] \in {NoFile, main} /\ counted[f][i] = 0
    <3>1. Counts(f) => home[f] \in {NoFile, main}
      BY <1>2, <1>8, <2>1, <2>2 DEF PlaceOnce
    <3>2. stack[1].read < i
      BY <1>2, <1>5
    <3> QED
      BY <1>2, <1>5, <2>1, <3>1, <3>2 DEF FrameOnce
  <2>5. /\ counted'[f] \in [1 .. Len(text[f]) -> Nat]
        /\ \A k \in 1 .. Len(text[f]) : /\ k /= i => counted'[f][k] = counted[f][k]
                                        /\ counted'[f][k] <= 1
    <3>1. CASE counted' = counted
      BY <1>2, <1>6, <2>1, <3>1 DEF PlaceOnce
    <3>2. CASE counted' /= counted
      <4>1. counted' = [counted EXCEPT ![f][i] = @ + 1] /\ counted[f][i] = 0
        BY <1>4, <2>4, <3>2
      <4>2. f \in DOMAIN counted
        BY <1>2, <1>12
      <4>3. counted'[f] = [counted[f] EXCEPT ![i] = 1]
        BY <4>1, <4>2
      <4> QED
        BY <1>2, <1>6, <2>1, <4>3 DEF PlaceOnce
    <3> QED
      BY <3>1, <3>2
  <2>6. PlaceOnce(f)'
    <3>1. home'[f] /= NoFile
      BY <1>2, <2>3
    <3>2. f \in Mains => home'[f] \in {NoFile, f}
      BY <2>1, <2>2, <2>3 DEF PlaceOnce
    <3> QED
      BY <1>1, <2>2, <2>5, <3>1, <3>2 DEF PlaceOnce
  <2>7. FrameOnce(f)'
    <3>1. ASSUME NEW j \in DOMAIN stack, stack[j].file = f PROVE j = 1
      BY <1>5, <2>1, <3>1 DEF FrameOnce
    <3>2. ASSUME NEW k \in 1 .. Len(text[f]), i < k
          PROVE  counted'[f][k] = 0 \/ home'[f] \notin {NoFile, main}
      <4>1. k /= i /\ stack[1].read < k
        BY <1>2, <1>5, <3>2
      <4>2. counted[f][k] = 0 \/ home[f] \notin {NoFile, main}
        BY <1>5, <2>1, <4>1 DEF FrameOnce
      <4> QED
        BY <2>3, <2>5, <4>1, <4>2
    <3> QED
      BY <1>1, <1>5, <2>2, <3>1, <3>2 DEF FrameOnce
  <2> QED
    BY <2>6, <2>7
<1>11. \A g \in Files : Rereadable(g)' <=> Rereadable(g)
  BY <1>1 DEF Rereadable, Included
<1>13. CountedTotal'
  BY <1>4, <1>12 DEF CountedTotal
<1> QED
  BY <1>7, <1>9, <1>10, <1>11, <1>13 DEF OnceInv

\* Steps that count nothing need only keep what is said of the frames.
LEMMA FramesKept ==
  ASSUME OnceInv, entered \subseteq entered', UNCHANGED <<text, todo, main, counted, home>>,
         \A f \in Files : ~ Rereadable(f) => FrameOnce(f)'
  PROVE  OnceInv'
<1>1. TodoInv' /\ CountedTotal'
  BY DEF OnceInv, TodoInv, CountedTotal
<1>2. \A f \in Files : PlaceOnce(f) => PlaceOnce(f)'
  BY DEF PlaceOnce
<1>3. \A f \in Files : Rereadable(f)' <=> Rereadable(f)
  BY DEF Rereadable, Included
<1> QED
  BY <1>1, <1>2, <1>3 DEF OnceInv

\* An item is passed by in the innermost file.
LEMMA PassedOnce ==
  ASSUME CommentInv, OnceInv, MoreToRead, stack' = ReadOn, entered \subseteq entered',
         UNCHANGED <<text, todo, main, counted, home>>
  PROVE  OnceInv'
<1>1. /\ DOMAIN stack' = DOMAIN stack
      /\ \A j \in DOMAIN stack : /\ stack'[j].file = stack[j].file
                                 /\ stack'[j].read \in Nat /\ stack[j].read \in Nat
                                 /\ stack[j].read <= stack'[j].read
  BY ReadOnFrames DEF CommentInv
<1>2. ASSUME NEW f \in Files, ~ Rereadable(f) PROVE FrameOnce(f)'
  <2>1. FrameOnce(f)
    BY <1>2 DEF OnceInv
  <2>2. ASSUME NEW j \in DOMAIN stack, NEW k \in 1 .. Len(text[f]), stack'[j].read < k
        PROVE  stack[j].read < k
    BY <1>1, <2>2
  <2> QED
    BY <1>1, <2>1, <2>2 DEF FrameOnce
<1> QED
  BY <1>2, FramesKept

\* A file that is entered and may be read once only was not entered before, in this
\* translation unit; if its comments began in an earlier one, none will count.
LEMMA EnterOnce ==
  ASSUME CommentInv, OnceInv, MoreToRead, NEW g \in Files, g = NextItem,
         g \notin Guarded \cap entered,
         stack' = <<Reading(g, 0)>> \o ReadOn, entered' = entered \cup {g},
         UNCHANGED <<text, todo, main, counted, home>>
  PROVE  OnceInv'
<1> DEFINE r == ReadOn
<1>1. /\ r \in Seq(Element) /\ DOMAIN r = DOMAIN stack
      /\ \A j \in DOMAIN stack : /\ r[j].file = stack[j].file
                                 /\ r[j].read \in Nat /\ stack[j].read \in Nat
                                 /\ stack[j].read <= r[j].read
  BY ReadOnFrames DEF CommentInv
<1>2. Reading(g, 0) \in Element /\ Reading(g, 0).file = g /\ Reading(g, 0).read = 0
  BY DEF Reading, Element
<1> HIDE DEF r
<1>3. stack' = <<Reading(g, 0)>> \o r
  BY DEF r
<1>4. /\ stack'[1] = Reading(g, 0)
      /\ \A j \in DOMAIN stack' : j = 1 \/ (j - 1 \in DOMAIN r /\ stack'[j] = r[j - 1])
      /\ DOMAIN stack' \subseteq Nat
  BY <1>1, <1>2, <1>3
<1>5. ~ Rereadable(g) => g \notin Mains /\ g \notin entered
  <2>1. Included(g)
    BY NextItemIsItem DEF CommentInv, Included, NextItem
  <2> QED
    BY <2>1 DEF Rereadable
<1>6. ASSUME NEW f \in Files, ~ Rereadable(f) PROVE FrameOnce(f)'
  <2>1. FrameOnce(f) /\ PlaceOnce(f)
    BY <1>6 DEF OnceInv
  <2>2. ASSUME NEW j \in DOMAIN stack', stack'[j].file = f, j /= 1
        PROVE  /\ j - 1 \in DOMAIN stack /\ stack[j - 1].file = f
               /\ stack'[j].read \in Nat /\ stack[j - 1].read \in Nat
               /\ stack[j - 1].read <= stack'[j].read
    BY <1>1, <1>4, <2>2
  <2>3. CASE f = g
    <3>1. f \notin entered /\ f \notin Mains
      BY <1>5, <1>6, <2>3
    <3>2. \A j \in DOMAIN stack' : stack'[j].file = f => j = 1
      BY <2>1, <2>2, <3>1 DEF FrameOnce
    <3>3. main /= NoFile
      BY NextItemIsItem, TextAssumption DEF CommentInv
    <3>4. \A k \in 1 .. Len(text[f]) : counted[f][k] = 0 \/ home[f] \notin {NoFile, main}
      BY <2>1, <3>1, <3>3 DEF PlaceOnce
    <3> QED
      BY <2>3, <3>1, <3>2, <3>4 DEF FrameOnce
  <2>4. CASE f /= g
    <3>1. \A j \in DOMAIN stack' : stack'[j].file = f => j /= 1
      BY <1>2, <1>4, <2>4
    <3>2. \A i, j \in DOMAIN stack' : stack'[i].file = f /\ stack'[j].file = f => i = j
      <4> SUFFICES ASSUME NEW i \in DOMAIN stack', NEW j \in DOMAIN stack',
                          stack'[i].file = f, stack'[j].file = f
                   PROVE  i = j
        OBVIOUS
      <4>1. i - 1 = j - 1
        BY <2>1, <2>2, <3>1 DEF FrameOnce
      <4> QED
        BY <1>4, <4>1
    <3>3. ASSUME NEW j \in DOMAIN stack', stack'[j].file = f
          PROVE  /\ f \in entered' /\ (f \in Mains => f = main)
                 /\ \A k \in 1 .. Len(text[f]) : stack'[j].read < k =>
                      counted[f][k] = 0 \/ home[f] \notin {NoFile, main}
      <4>1. /\ j - 1 \in DOMAIN stack /\ stack[j - 1].file = f
            /\ stack'[j].read \in Nat /\ stack[j - 1].read \in Nat
            /\ stack[j - 1].read <= stack'[j].read
        BY <2>2, <3>1, <3>3
      <4>2. \A k \in 1 .. Len(text[f]) : stack'[j].read < k => stack[j - 1].read < k
        BY <4>1
      <4> QED
        BY <2>1, <4>1, <4>2 DEF FrameOnce
    <3> QED
      BY <3>2, <3>3 DEF FrameOnce
  <2> QED
    BY <2>3, <2>4
<1> QED
  BY <1>6, FramesKept

LEMMA LeftOnce ==
  ASSUME CommentInv, OnceInv, EndOfFile
  PROVE  OnceInv'
<1>1. stack \in Seq(Element) /\ Len(stack) > 1 /\ stack' = Tail(stack)
  BY DEF EndOfFile, CommentInv, TypeOK, Element
<1>2. \A j \in DOMAIN stack' : j \in Nat /\ j + 1 \in DOMAIN stack /\ stack'[j] = stack[j + 1]
  BY <1>1
<1>3. ASSUME NEW f \in Files, ~ Rereadable(f) PROVE FrameOnce(f)'
  <2>1. FrameOnce(f)
    BY <1>3 DEF OnceInv
  <2>2. ASSUME NEW i \in DOMAIN stack', NEW j \in DOMAIN stack',
               stack'[i].file = f, stack'[j].file = f
        PROVE  i = j
    <3>1. i + 1 = j + 1
      BY <1>2, <2>1, <2>2 DEF FrameOnce
    <3> QED
      BY <1>2, <3>1
  <2> QED
    BY <1>2, <2>1, <2>2 DEF FrameOnce, EndOfFile
<1> QED
  BY <1>3, FramesKept DEF EndOfFile

LEMMA EndedOnce ==
  ASSUME CommentInv, OnceInv, EndTU
  PROVE  OnceInv'
<1>1. stack' = <<>> /\ main' = NoFile /\ UNCHANGED <<text, todo, entered, counted, home>>
  BY DEF EndTU
<1>2. TodoInv' /\ CountedTotal'
  BY <1>1, TextAssumption DEF OnceInv, TodoInv, CountedTotal, CommentInv, TypeOK
<1>3. \A f \in Files : FrameOnce(f)' /\ (PlaceOnce(f) => PlaceOnce(f)')
  BY <1>1 DEF FrameOnce, PlaceOnce
<1>4. \A f \in Files : Rereadable(f)' <=> Rereadable(f)
  BY <1>1 DEF Rereadable, Included
<1> QED
  BY <1>2, <1>3, <1>4 DEF OnceInv

\* A main file that is passed over, or nothing at all, happens.
LEMMA IdleOnce ==
  ASSUME OnceInv, todo' \subseteq todo, UNCHANGED <<text, main, stack, entered, counted, home>>
  PROVE  OnceInv'
<1>1. TodoInv' /\ CountedTotal'
  BY DEF OnceInv, TodoInv, CountedTotal
<1>2. \A f \in Files : (FrameOnce(f) => FrameOnce(f)') /\ (PlaceOnce(f) => PlaceOnce(f)')
  BY DEF FrameOnce, PlaceOnce
<1>3. \A f \in Files : Rereadable(f)' <=> Rereadable(f)
  BY DEF Rereadable, Included
<1> QED
  BY <1>1, <1>2, <1>3 DEF OnceInv

LEMMA StepOnce ==
  ASSUME CommentInv, OnceInv, [Next]_vars
  PROVE  OnceInv'
<1>1. CASE \E f \in Mains : StartTU(f)
  BY <1>1, StartOnce
<1>2. CASE HandleComment
  BY <1>2, CommentOnce
<1>3. CASE Inclusion
  <2>1. CASE stack' = ReadOn
    BY <1>3, <2>1, PassedOnce DEF Inclusion
  <2>2. CASE stack' /= ReadOn
    BY <1>3, <2>2, EnterOnce DEF Inclusion
  <2> QED
    BY <2>1, <2>2
<1>4. CASE SkipItem
  BY <1>4, PassedOnce DEF SkipItem
<1>5. CASE EndOfFile
  BY <1>5, LeftOnce
<1>6. CASE EndTU
  BY <1>6, EndedOnce
<1>7. CASE UNCHANGED vars
  BY <1>7, IdleOnce DEF vars
<1> QED
  BY <1>1, <1>2, <1>3, <1>4, <1>5, <1>6, <1>7 DEF Next

\* Each comment counts at most once, in all translation units together, unless its
\* file is a main file that is included as well or may be read twice.
THEOREM CommentsOnce == Spec => []CountedOnce
<1>1. CommentInv /\ OnceInv => CountedOnce
  BY DEF OnceInv, PlaceOnce, CountedOnce
<1>2. Init => CommentInv /\ OnceInv
  BY InitHolds, OnceInit
<1>3. CommentInv /\ OnceInv /\ [Next]_vars => (CommentInv /\ OnceInv)'
  BY StepKeeps, StepOnce
<1> QED
  BY <1>1, <1>2, <1>3, PTL DEF Spec
-----------------------------------------------------------------------------
(* Why a comment is missed: the handler forgets a file, as long as it is on  *)
(* the stack, only when a file it includes has comments, and then the file   *)
(* is cut.                                                                   *)

FramesFound ==
  /\ \A j \in DOMAIN stack : /\ stack[j].file \in entered
                             /\ stack[j].file = main \/ Included(stack[j].file)
  /\ main /= NoFile => main \in entered
  /\ \A f \in Files : main /= NoFile /\ home[f] = main => f \in entered

\* A main file entered once is the bottom of the stack only.
BottomOnly == EnteredOnce(main) => \A j \in DOMAIN stack : stack[j].file = main => j = Len(stack)

OnStack(f) == \E j \in DOMAIN stack : stack[j].file = f
HandlerStays ==
  \A f \in Guarded \ cut : main /= NoFile /\ home[f] = main /\ OnStack(f) => handlerFile = f

SeenHome ==
  \A m \in Mains : \A p \in seen[m] : home[p[1]] /= NoFile /\ p[2] \in 1 .. Len(text[p[1]])
ListedOnly == \A f \in fileList : home[f] /= NoFile

LostInv == FramesFound /\ BottomOnly /\ HandlerStays /\ SeenHome /\ ListedOnly /\ LostOnlyWhenCut

LEMMA LostInit == Init => LostInv
<1> SUFFICES ASSUME Init PROVE LostInv
  OBVIOUS
<1>1. FramesFound /\ BottomOnly /\ HandlerStays
  BY DEF Init, FramesFound, BottomOnly, HandlerStays
<1>2. SeenHome /\ ListedOnly /\ LostOnlyWhenCut
  BY DEF Init, SeenHome, ListedOnly, LostOnlyWhenCut
<1> QED
  BY <1>1, <1>2 DEF LostInv

\* Steps without a comment keep what was seen and counted.
LEMMA SeenKept ==
  ASSUME LostInv, UNCHANGED <<text, fileList, counted, seen, cut, home>>
  PROVE  SeenHome' /\ ListedOnly' /\ LostOnlyWhenCut'
<1>1. SeenHome' /\ ListedOnly'
  BY DEF LostInv, SeenHome, ListedOnly
<1>2. LostOnlyWhenCut'
  BY DEF LostInv, LostOnlyWhenCut, EnteredOnce, Included
<1> QED
  BY <1>1, <1>2

LEMMA StartLost ==
  ASSUME CommentInv, OnceInv, LostInv, NEW m \in Mains, StartTU(m)
  PROVE  LostInv'
<1>1. /\ m \in todo /\ main' = m /\ entered' = {m} /\ stack' = <<Reading(m, 0)>>
      /\ UNCHANGED <<text, fileList, counted, seen, cut, home>>
  BY DEF StartTU
<1>2. DOMAIN stack' = {1} /\ stack'[1].file = m /\ Len(stack') = 1
  BY <1>1 DEF Reading
<1>3. \A f \in Files : home[f] /= m
  BY <1>1 DEF OnceInv, TodoInv
<1>4. FramesFound' /\ BottomOnly' /\ HandlerStays'
  BY <1>1, <1>2, <1>3, TextAssumption DEF FramesFound, BottomOnly, HandlerStays
<1> QED
  BY <1>1, <1>4, SeenKept DEF LostInv

\* An item is passed by in the innermost file.
LEMMA PassedLost ==
  ASSUME CommentInv, LostInv, MoreToRead, stack' = ReadOn, entered \subseteq entered',
         UNCHANGED <<text, main, handlerFile, cut, home>>
  PROVE  FramesFound' /\ BottomOnly' /\ HandlerStays'
<1>1. /\ DOMAIN stack' = DOMAIN stack
      /\ \A j \in DOMAIN stack : stack'[j].file = stack[j].file
  BY ReadOnFrames DEF CommentInv
<1>2. Len(stack') = Len(stack)
  BY ReadOnKeeps DEF CommentInv, TypeOK, MoreToRead, Element
<1>3. FramesFound'
  BY <1>1 DEF LostInv, FramesFound, Included
<1>4. BottomOnly'
  BY <1>1, <1>2 DEF LostInv, BottomOnly, EnteredOnce, Included
<1>5. HandlerStays'
  BY <1>1 DEF LostInv, HandlerStays, OnStack
<1> QED
  BY <1>3, <1>4, <1>5

LEMMA EnterLost ==
  ASSUME CommentInv, LostInv, MoreToRead, NEW g \in Files, g = NextItem,
         g \notin Guarded \cap entered,
         stack' = <<Reading(g, 0)>> \o ReadOn, entered' = entered \cup {g},
         UNCHANGED <<text, main, handlerFile, cut, home>>
  PROVE  FramesFound' /\ BottomOnly' /\ HandlerStays'
<1> DEFINE r == ReadOn
<1>1. /\ r \in Seq(Element) /\ DOMAIN r = DOMAIN stack
      /\ \A j \in DOMAIN stack : r[j].file = stack[j].file
  BY ReadOnFrames DEF CommentInv
<1>2. Reading(g, 0) \in Element /\ Reading(g, 0).file = g
  BY DEF Reading, Element
<1>3. Len(r) = Len(stack) /\ Len(r) \in Nat
  BY <1>1, ReadOnKeeps DEF CommentInv, TypeOK, MoreToRead, Element
<1>4. Included(g) /\ main /= NoFile
  BY NextItemIsItem, TextAssumption DEF CommentInv, Included, NextItem
<1> HIDE DEF r
<1>5. stack' = <<Reading(g, 0)>> \o r
  BY DEF r
<1>6. /\ stack'[1] = Reading(g, 0) /\ Len(stack') = Len(r) + 1 /\ DOMAIN stack' \subseteq Nat
      /\ \A j \in DOMAIN stack' : j = 1 \/ (j - 1 \in DOMAIN r /\ stack'[j] = r[j - 1])
  BY <1>1, <1>2, <1>5
<1>7. \A j \in DOMAIN stack' : \/ j = 1 /\ stack'[j].file = g
                               \/ j - 1 \in DOMAIN stack /\ stack'[j].file = stack[j - 1].file
  BY <1>1, <1>2, <1>6
<1>8. FramesFound'
  BY <1>4, <1>7, SMTT(40) DEF LostInv, FramesFound, Included
<1>9. BottomOnly'
  <2> SUFFICES ASSUME EnteredOnce(main), NEW j \in DOMAIN stack', stack'[j].file = main
               PROVE  j = Len(stack')
    BY DEF BottomOnly, EnteredOnce, Included
  <2>1. g /= main
    BY <1>4 DEF EnteredOnce, LostInv, FramesFound
  <2>2. j - 1 \in DOMAIN stack /\ stack[j - 1].file = main
    BY <1>7, <2>1
  <2>3. j - 1 = Len(stack)
    BY <2>2 DEF LostInv, BottomOnly
  <2> QED
    BY <1>3, <1>6, <2>3
<1>10. HandlerStays'
  <2> SUFFICES ASSUME NEW f \in Guarded \ cut, home[f] = main,
                      NEW j \in DOMAIN stack', stack'[j].file = f
               PROVE  handlerFile = f
    BY DEF HandlerStays, OnStack
  <2>1. f \in entered
    BY <1>4, TextAssumption DEF LostInv, FramesFound
  <2>2. j - 1 \in DOMAIN stack /\ stack[j - 1].file = f
    BY <1>7, <2>1
  <2> QED
    BY <1>4, <2>2 DEF LostInv, HandlerStays, OnStack
<1> QED
  BY <1>8, <1>9, <1>10

LEMMA LeftLost ==
  ASSUME CommentInv, LostInv, EndOfFile
  PROVE  FramesFound' /\ BottomOnly' /\ HandlerStays'
<1>1. stack \in Seq(Element) /\ Len(stack) > 1 /\ stack' = Tail(stack)
      /\ UNCHANGED <<text, main, entered, handlerFile, cut, home>>
  BY DEF EndOfFile, CommentInv, TypeOK, Element
<1>2. /\ Len(stack') = Len(stack) - 1 /\ Len(stack) \in Nat
      /\ \A j \in DOMAIN stack' : j \in Nat /\ j + 1 \in DOMAIN stack /\ stack'[j] = stack[j + 1]
  BY <1>1
<1>3. FramesFound'
  BY <1>1, <1>2 DEF LostInv, FramesFound, Included
<1>4. BottomOnly'
  <2> SUFFICES ASSUME EnteredOnce(main), NEW j \in DOMAIN stack', stack'[j].file = main
               PROVE  j = Len(stack')
    BY <1>1 DEF BottomOnly, EnteredOnce, Included
  <2>1. j + 1 = Len(stack)
    BY <1>2 DEF LostInv, BottomOnly
  <2> QED
    BY <1>2, <2>1
<1>5. HandlerStays'
  BY <1>1, <1>2 DEF LostInv, HandlerStays, OnStack
<1> QED
  BY <1>3, <1>4, <1>5

\* Which comments count: all of a main file entered once in its own translation unit, and
\* those of a file entered once, from the first one on, until it is cut.
LEMMA CommentCounts ==
  ASSUME CommentInv, LostInv, HandleComment, NEW f, f = Top.file,
         \/ f = main /\ EnteredOnce(f)
         \/ f \in Guarded /\ home'[f] = main /\ f \notin cut'
  PROVE  Counts(f)
<1>1. MoreToRead /\ home' = [home EXCEPT ![f] = IF @ = NoFile THEN main ELSE @]
      /\ cut' = cut \cup (Below \cap fileList)
  BY DEF HandleComment
<1>2. f \in Files /\ main /= NoFile /\ 1 \in DOMAIN stack /\ stack[1].file = f
  BY <1>1, NextItemIsItem, ReadOnFrames, TextAssumption DEF CommentInv, Top
<1>3. CASE f = main /\ EnteredOnce(f)
  BY <1>2, <1>3 DEF LostInv, BottomOnly, Counts
<1>4. CASE f \in Guarded /\ home'[f] = main /\ f \notin cut'
  <2>1. home[f] \in {NoFile, main}
    BY <1>1, <1>2, <1>4 DEF CommentInv, TypeOK
  <2>2. CASE home[f] = NoFile
    BY <2>2 DEF LostInv, ListedOnly, Counts
  <2>3. CASE home[f] = main
    <3>1. OnStack(f)
      BY <1>2 DEF OnStack
    <3> QED
      BY <1>1, <1>2, <1>4, <2>3, <3>1 DEF LostInv, HandlerStays, Counts
  <2> QED
    BY <2>1, <2>2, <2>3
<1> QED
  BY <1>3, <1>4

LEMMA CommentLost ==
  ASSUME CommentInv, OnceInv, LostInv, HandleComment,
         NEW f, NEW i, f = Top.file, i = Top.read + 1
  PROVE  LostInv'
<1>1. /\ MoreToRead /\ stack' = ReadOn
      /\ home' = [home EXCEPT ![f] = IF @ = NoFile THEN main ELSE @]
      /\ seen' = [seen EXCEPT ![main] = @ \cup {<<f, i>>}]
      /\ cut' = cut \cup (Below \cap fileList)
      /\ UNCHANGED <<text, main, entered>>
  BY DEF HandleComment
<1>2. /\ f \in Files /\ i \in 1 .. Len(text[f]) /\ main \in Mains /\ main /= NoFile
      /\ 1 \in DOMAIN stack /\ stack[1].file = f
  BY <1>1, NextItemIsItem, ReadOnFrames, TextAssumption DEF CommentInv, Top
<1>3. /\ home \in [Files -> Mains \cup {NoFile}] /\ seen \in [Mains -> SUBSET Places]
      /\ \A h \in Files : counted[h] \in [1 .. Len(text[h]) -> Nat]
      /\ DOMAIN counted = Files /\ stack \in Seq(Element)
  BY DEF CommentInv, TypeOK, OnceInv, CountedTotal, Element
<1>4. /\ home'[f] = IF home[f] = NoFile THEN main ELSE home[f]
      /\ home'[f] /= NoFile /\ (home'[f] = main \/ home'[f] = home[f])
      /\ \A h \in Files : (h /= f \/ home[h] /= NoFile) => home'[h] = home[h]
  BY <1>1, <1>2, <1>3
<1>5. /\ fileList' \in {fileList, fileList \cup {f}}
      /\ Counts(f) => handlerFile' = f
      /\ counted' \in {counted, [counted EXCEPT ![f][i] = @ + 1]}
      /\ Counts(f) /\ ShouldIncludeFile(f) => counted' = [counted EXCEPT ![f][i] = @ + 1]
  BY DEF HandleComment
<1>6. /\ \A h \in Files : \A k \in 1 .. Len(text[h]) : counted[h][k] > 0 => counted'[h][k] > 0
      /\ Counts(f) /\ ShouldIncludeFile(f) => counted'[f][i] > 0
  <2>1. counted[f] \in [1 .. Len(text[f]) -> Nat] /\ counted[f][i] \in Nat
    BY <1>2, <1>3
  <2>2. CASE counted' = [counted EXCEPT ![f][i] = @ + 1]
    <3>1. /\ \A h \in Files : h /= f => counted'[h] = counted[h]
          /\ counted'[f] = [counted[f] EXCEPT ![i] = counted[f][i] + 1]
      BY <1>2, <1>3, <2>2
    <3>2. /\ counted'[f][i] = counted[f][i] + 1
          /\ \A k \in 1 .. Len(text[f]) : k /= i => counted'[f][k] = counted[f][k]
      BY <1>2, <2>1, <3>1
    <3>3. \A k \in 1 .. Len(text[f]) : counted[f][k] > 0 => counted'[f][k] > 0
      <4>1. \A k \in 1 .. Len(text[f]) : k = i \/ counted'[f][k] = counted[f][k]
        BY <3>2
      <4>2. counted'[f][i] > 0
        BY <2>1, <3>2
      <4> QED
        BY <4>1, <4>2
    <3> QED
      BY <2>1, <3>1, <3>2, <3>3
  <2>3. CASE counted' = counted
    BY <1>5, <2>2, <2>3
  <2> QED
    BY <1>5, <2>2, <2>3
<1>7. /\ DOMAIN stack' = DOMAIN stack /\ Len(stack') = Len(stack)
      /\ \A j \in DOMAIN stack : stack'[j].file = stack[j].file
  BY <1>1, <1>3, ReadOnFrames, ReadOnKeeps DEF CommentInv, MoreToRead
<1>8. FramesFound'
  <2>1. FramesFound
    BY DEF LostInv
  <2>2. \A j \in DOMAIN stack' : /\ stack'[j].file \in entered
                                 /\ stack'[j].file = main \/ Included(stack'[j].file)
    BY <1>7, <2>1 DEF FramesFound
  <2>3. \A g \in Files : home'[g] = main => g \in entered
    <3>1. f \in entered
      BY <1>2, <2>1 DEF FramesFound
    <3> QED
      BY <1>2, <1>4, <2>1, <3>1 DEF FramesFound
  <2>4. main \in entered
    BY <1>2, <2>1 DEF FramesFound
  <2> QED
    BY <1>1, <2>2, <2>3, <2>4 DEF FramesFound, Included
<1>9. BottomOnly'
  BY <1>1, <1>7 DEF LostInv, BottomOnly, EnteredOnce, Included
<1>10. HandlerStays'
  <2> SUFFICES ASSUME NEW g \in Guarded \ cut', home'[g] = main,
                      NEW j \in DOMAIN stack, stack[j].file = g
               PROVE  handlerFile' = g
    BY <1>1, <1>7 DEF HandlerStays, OnStack
  <2>1. CASE g = f
    BY <1>5, <2>1, CommentCounts
  <2>2. CASE g /= f
    <3>1. g \in Files /\ home[g] = main
      BY <1>4, <2>2, TextAssumption
    <3>2. g \in fileList
      BY <1>2, <3>1 DEF CommentInv, Listed
    <3>3. j \in 2 .. Len(stack)
      BY <1>2, <1>3, <2>2
    <3>4. g \in Below
      BY <3>3 DEF Below
    <3> QED
      BY <1>1, <3>2, <3>4
  <2> QED
    BY <2>1, <2>2
<1>11. ListedOnly'
  <2>1. fileList \subseteq Files
    BY DEF CommentInv, TypeOK
  <2> QED
    BY <1>4, <1>5, <2>1 DEF LostInv, ListedOnly
<1>12. ASSUME NEW m \in Mains, NEW p \in seen'[m]
       PROVE  \/ p \in seen[m] /\ p[1] \in Files
              \/ m = main /\ p = <<f, i>>
  <2>1. p \in seen[m] \/ (m = main /\ p = <<f, i>>)
    BY <1>1, <1>2, <1>3
  <2>2. p \in seen[m] => p[1] \in Files
    BY <1>3 DEF Places
  <2> QED
    BY <2>1, <2>2
<1>13. SeenHome'
  <2> SUFFICES ASSUME NEW m \in Mains, NEW p \in seen'[m]
               PROVE  home'[p[1]] /= NoFile /\ p[2] \in 1 .. Len(text[p[1]])
    BY <1>1 DEF SeenHome
  <2>1. CASE p \in seen[m] /\ p[1] \in Files
    BY <1>4, <2>1 DEF LostInv, SeenHome
  <2>2. CASE p = <<f, i>>
    BY <1>2, <1>4, <2>2
  <2> QED
    BY <1>12, <2>1, <2>2
<1>14. LostOnlyWhenCut'
  <2> SUFFICES ASSUME NEW m \in Mains, NEW p \in seen'[m],
                      ShouldIncludeFile(p[1]), EnteredOnce(p[1]),
                      p[1] = m \/ (home'[p[1]] = m /\ p[1] \notin cut')
               PROVE  counted'[p[1]][p[2]] > 0
    BY <1>1 DEF LostOnlyWhenCut, EnteredOnce, Included, ShouldIncludeFile
  <2>1. CASE p \in seen[m] /\ p[1] \in Files
    <3>1. home[p[1]] /= NoFile /\ p[2] \in 1 .. Len(text[p[1]])
      BY <2>1 DEF LostInv, SeenHome
    <3>2. home'[p[1]] = home[p[1]] /\ (p[1] \notin cut' => p[1] \notin cut)
      BY <1>1, <1>4, <2>1, <3>1
    <3>3. counted[p[1]][p[2]] > 0
      BY <2>1, <3>2 DEF LostInv, LostOnlyWhenCut
    <3> QED
      BY <1>6, <2>1, <3>1, <3>3
  <2>2. CASE m = main /\ p = <<f, i>>
    <3>1. f = main \/ Included(f)
      BY <1>2 DEF LostInv, FramesFound
    <3>2. \/ f = main /\ EnteredOnce(f)
          \/ f \in Guarded /\ home'[f] = main /\ f \notin cut'
      BY <2>2, <3>1 DEF EnteredOnce
    <3>3. Counts(f)
      BY <3>2, CommentCounts
    <3> QED
      BY <1>6, <2>2, <3>3
  <2> QED
    BY <1>12, <2>1, <2>2
<1> QED
  BY <1>8, <1>9, <1>10, <1>11, <1>13, <1>14 DEF LostInv

LEMMA EndedLost ==
  ASSUME LostInv, EndTU
  PROVE  LostInv'
<1>1. stack' = <<>> /\ main' = NoFile
      /\ UNCHANGED <<text, entered, handlerFile, fileList, counted, seen, cut, home>>
  BY DEF EndTU
<1>2. FramesFound' /\ BottomOnly' /\ HandlerStays'
  BY <1>1 DEF FramesFound, BottomOnly, HandlerStays
<1> QED
  BY <1>1, <1>2, SeenKept DEF LostInv

LEMMA IdleLost ==
  ASSUME LostInv, UNCHANGED <<text, main, stack, entered, handlerFile, fileList, counted, seen,
                              cut, home>>
  PROVE  LostInv'
<1>1. FramesFound' /\ BottomOnly' /\ HandlerStays'
  BY DEF LostInv, FramesFound, BottomOnly, HandlerStays, OnStack, EnteredOnce, Included
<1> QED
  BY <1>1, SeenKept DEF LostInv

LEMMA StepLost ==
  ASSUME CommentInv, OnceInv, LostInv, [Next]_vars
  PROVE  LostInv'
<1>1. CASE \E f \in Mains : StartTU(f)
  BY <1>1, StartLost
<1>2. CASE HandleComment
  BY <1>2, CommentLost
<1>3. CASE Inclusion
  <2>1. FramesFound' /\ BottomOnly' /\ HandlerStays'
    <3>1. CASE stack' = ReadOn
      BY <1>3, <3>1, PassedLost DEF Inclusion
    <3>2. CASE stack' /= ReadOn
      BY <1>3, <3>2, EnterLost DEF Inclusion
    <3> QED
      BY <3>1, <3>2
  <2> QED
    BY <1>3, <2>1, SeenKept DEF Inclusion, LostInv
<1>4. CASE SkipItem
  BY <1>4, PassedLost, SeenKept DEF SkipItem, LostInv
<1>5. CASE EndOfFile
  BY <1>5, LeftLost, SeenKept DEF EndOfFile, LostInv
<1>6. CASE EndTU
  BY <1>6, EndedLost
<1>7. CASE UNCHANGED vars
  BY <1>7, IdleLost DEF vars
<1> QED
  BY <1>1, <1>2, <1>3, <1>4, <1>5, <1>6, <1>7 DEF Next

\* A comment met in the translation unit of its own file, or in the first one with
\* comments of its file, is missed for one reason only: a file that its file includes
\* had a comment in between.
THEOREM MissedOnlyWhenCut == Spec => []LostOnlyWhenCut
<1>1. LostInv => LostOnlyWhenCut
  BY DEF LostInv
<1>2. Init => CommentInv /\ OnceInv /\ LostInv
  BY InitHolds, OnceInit, LostInit
<1>3. CommentInv /\ OnceInv /\ LostInv /\ [Next]_vars => (CommentInv /\ OnceInv /\ LostInv)'
  BY StepKeeps, StepOnce, StepLost
<1> QED
  BY <1>1, <1>2, <1>3, PTL DEF Spec
-----------------------------------------------------------------------------
(* The driver. *)

Stages ==
  {"options", "ast", "resolve", "expanded", "unexpanded", "report", "limits", "ended"}

\* The marks of pass p are those of the translation units of D.
MarksOf(p, D) ==
  marks[p] = {f \in UNION {inclusions[m] : m \in D} :
                f \notin ExcludedFiles /\ (p = "ast" => f \notin DefFiles)}

\* What was remembered about a file is what the lists say, also after the headers are
\* appended, because nobody asks before that.
CacheFresh ==
  IF stage = "options"
  THEN excludeFiles = UserExcluded /\ cache.included = {} /\ cache.excluded = {}
  ELSE stage = "ended" \/
       /\ excludeFiles = ExcludedFiles
       /\ cache.included \cap ExcludedFiles = {} /\ cache.excluded \subseteq ExcludedFiles

DriverTypes ==
  /\ stage \in Stages /\ output \in {"cout", "file"}
  /\ result \in {0, Failure, Unassigned, -1}
  /\ left \subseteq Mains
  /\ inclusions \in [Mains -> SUBSET Files]
  /\ marks \in [Passes -> SUBSET Files]
  /\ report \in {"none", "buffered", "written"}
  /\ limits \in {"pending", "none", "checked", "failed"}

NothingYet == report = "none" /\ limits = "pending"
ResultTells == result = 0 <=> broken = {}
AllMet == \A m \in Mains : m \in inclusions[m]

AtOptions ==
  /\ NothingYet /\ broken = {} /\ todo = Mains /\ main = NoFile
  /\ \A p \in Passes : marks[p] = {}
  /\ \A m \in Mains : inclusions[m] = {}

AtAst ==
  /\ NothingYet /\ ResultTells
  /\ MarksOf("ast", Mains) /\ marks["expanded"] = {} /\ marks["unexpanded"] = {}
  /\ main \notin todo /\ (main /= NoFile => main \in entered)
  /\ \A m \in Mains : IF m \in todo \cup {main} THEN inclusions[m] = {}
                      ELSE m \in inclusions[m] \/ broken /= {}

AtResolve ==
  /\ NothingYet /\ result = 0 /\ broken = {} /\ AllMet
  /\ MarksOf("ast", Mains) /\ marks["expanded"] = {} /\ marks["unexpanded"] = {}

AtExpanded ==
  /\ NothingYet /\ linked /\ AllMet /\ ResultTells
  /\ MarksOf("ast", Mains) /\ marks["unexpanded"] = {}
  /\ broken = {} => MarksOf("expanded", Mains \ left)

AtUnexpanded ==
  /\ NothingYet /\ linked /\ AllMet /\ ResultTells
  /\ MarksOf("ast", Mains) /\ MarksOf("expanded", Mains)
  /\ broken = {} => MarksOf("unexpanded", Mains \ left)

Complete ==
  broken = {} /\ linked /\ AllMet /\ \A p \in Passes : MarksOf(p, Mains)

AtReport == Complete /\ result = 0 /\ NothingYet
AtLimits ==
  /\ Complete /\ result = 0 /\ limits = "pending"
  /\ report /= "none" /\ (report = "buffered" => output = "file")
AtEnd == ReportComplete /\ StatusTells

DriverInv ==
  /\ DriverTypes /\ CacheFresh
  /\ stage = "options" => AtOptions
  /\ stage = "ast" => AtAst
  /\ stage = "resolve" => AtResolve
  /\ stage = "expanded" => AtExpanded
  /\ stage = "unexpanded" => AtUnexpanded
  /\ stage = "report" => AtReport
  /\ stage = "limits" => AtLimits
  /\ stage = "ended" => AtEnd

PInv == CommentInv /\ DriverInv
-----------------------------------------------------------------------------
\* The answer that comes from the cache is the one the lists give.
LEMMA AnswerIsExact ==
  ASSUME CacheFresh, stage \in Stages \ {"options", "ended"}, NEW f \in Files
  PROVE  Answer(f) <=> f \notin ExcludedFiles
BY DEF CacheFresh, Answer, Stages

LEMMA CacheStaysFresh ==
  ASSUME CacheFresh, stage \in Stages \ {"options", "ended"}, NEW S \in SUBSET Files,
         cache' = AskedAbout(S), stage' /= "options", UNCHANGED excludeFiles
  PROVE  CacheFresh'
BY AnswerIsExact DEF CacheFresh, AskedAbout

LEMMA InitDriver == PInit => PInv
<1> SUFFICES ASSUME PInit PROVE PInv
  OBVIOUS
<1> USE DEF PInit
<1>1. CommentInv
  BY InitHolds
<1>2. AtOptions
  BY DEF AtOptions, NothingYet, Init
<1>3. DriverTypes /\ CacheFresh
  BY DEF DriverTypes, CacheFresh, Stages
<1> QED
  BY <1>1, <1>2, <1>3 DEF PInv, DriverInv

LEMMA OptionStepsKeep ==
  ASSUME PInv, ExitFromOptions \/ ParseOptions
  PROVE  DriverInv'
<1> USE DEF PInv, DriverInv, Failure, Unassigned
<1>1. stage = "options" /\ AtOptions /\ UNCHANGED <<vars, cache, left, marks, linked, report,
                                                   limits, broken, inclusions>>
  BY DEF ExitFromOptions, ParseOptions
<1>2. CASE stage' = "ended" /\ result' \in {Failure, -1} /\ output' = output
  <2>1. DriverTypes' /\ CacheFresh'
    BY <1>1, <1>2 DEF DriverTypes, CacheFresh, Stages
  <2>2. AtEnd'
    BY <1>1, <1>2 DEF AtOptions, NothingYet, AtEnd, ReportComplete, StatusTells
  <2> QED
    BY <1>2, <2>1, <2>2
<1>3. CASE /\ stage' = "ast" /\ result' = 0 /\ excludeFiles' = WithHeaders
           /\ output' \in {"cout", "file"}
  <2>1. DriverTypes' /\ CacheFresh'
    BY <1>1, <1>3, OptionAssumption DEF DriverTypes, CacheFresh, WithHeaders, Stages
  <2>2. AtAst'
    <3>1. UNCHANGED <<main, todo, entered>> /\ main = NoFile /\ todo = Mains /\ NoFile \notin Mains
      BY <1>1, TextAssumption DEF AtOptions, vars
    <3>2. \A m \in Mains : inclusions[m] = {}
      BY <1>1 DEF AtOptions
    <3>3. MarksOf("ast", Mains)'
      BY <1>1, <3>2 DEF MarksOf, AtOptions, Passes
    <3> QED
      BY <1>1, <1>3, <3>1, <3>2, <3>3 DEF AtAst, AtOptions, NothingYet, ResultTells, Passes
  <2> QED
    BY <1>3, <2>1, <2>2
<1> QED
  BY <1>2, <1>3 DEF ExitFromOptions, ParseOptions

\* A translation unit that fails makes Tool.run() fail.
LEMMA UnitDoneTells ==
  ASSUME NEW p, NEW m, NEW ok \in BOOLEAN, ResultTells, DriverTypes, UnitDone(p, m, ok)
  PROVE  /\ ResultTells' /\ result' \in {0, Failure, Unassigned, -1}
         /\ broken' = {} => broken = {} /\ ok
<1>1. CASE ok = TRUE
  <2>1. result' = result /\ broken' = broken
    BY <1>1 DEF UnitDone, ResultAfter
  <2> QED
    BY <1>1, <2>1 DEF ResultTells, DriverTypes
<1>2. CASE ok = FALSE
  <2>1. result' = 1 /\ broken' = broken \cup {<<p, m>>}
    BY <1>2 DEF UnitDone, ResultAfter, Failure
  <2>2. broken' /= {}
    BY <2>1
  <2> QED
    BY <2>1, <2>2 DEF ResultTells, Failure
<1> QED
  BY <1>1, <1>2

LEMMA PreprocessKeeps ==
  ASSUME PInv, Preprocess
  PROVE  DriverInv'
<1> USE DEF PInv, DriverInv
<1>1. stage = "ast" /\ stage' = "ast" /\ AtAst
      /\ UNCHANGED <<output, excludeFiles, result, left, marks, linked, report, limits, broken,
                     inclusions>>
  BY DEF Preprocess
<1>2. DriverTypes'
  BY <1>1 DEF DriverTypes
<1>3. CacheFresh'
  <2>1. CASE UNCHANGED cache
    BY <1>1, <2>1 DEF CacheFresh
  <2>2. CASE HandleComment /\ cache' = AskedAbout({Top.file})
    <3>1. Top.file \in Files
      BY <2>2, NextItemIsItem DEF HandleComment, CommentInv
    <3> QED
      BY <1>1, <2>2, <3>1, CacheStaysFresh DEF Stages
  <2> QED
    BY <2>1, <2>2 DEF Preprocess
<1>4. /\ main' \notin todo' /\ (main' /= NoFile => main' \in entered')
      /\ todo' \cup {main'} \subseteq todo \cup {main}
      /\ \A m \in Mains : m \in todo \cup {main} => m \in todo' \cup {main'}
  <2>1. CASE \E f \in Mains : StartTU(f)
    BY <1>1, <2>1, TextAssumption DEF StartTU, AtAst
  <2>2. CASE UNCHANGED <<todo, main>> /\ entered \subseteq entered'
    BY <1>1, <2>2 DEF AtAst
  <2> QED
    BY <2>1, <2>2 DEF Preprocess, HandleComment, Inclusion, SkipItem, EndOfFile
<1>5. AtAst'
  BY <1>1, <1>4 DEF AtAst, NothingYet, ResultTells, MarksOf
<1> QED
  BY <1>1, <1>2, <1>3, <1>5

\* One more translation unit adds its files to those met.
LEMMA UnionGrows ==
  ASSUME NEW M, NEW m \in M, NEW g, NEW h, g[m] = {},
         \A n \in M \ {m} : h[n] = g[n]
  PROVE  UNION {h[n] : n \in M} = (UNION {g[n] : n \in M}) \cup h[m]
<1>1. ASSUME NEW x \in UNION {h[n] : n \in M}
      PROVE  x \in (UNION {g[n] : n \in M}) \cup h[m]
  <2>1. PICK n \in M : x \in h[n]
    BY <1>1
  <2> QED
    BY <2>1
<1>2. ASSUME NEW x \in (UNION {g[n] : n \in M}) \cup h[m]
      PROVE  x \in UNION {h[n] : n \in M}
  <2>1. CASE x \in h[m]
    BY <2>1
  <2>2. ASSUME NEW n \in M, x \in g[n]
        PROVE  x \in UNION {h[k] : k \in M}
    BY <2>2
  <2> QED
    BY <1>2, <2>1, <2>2
<1> QED
  BY <1>1, <1>2

LEMMA HandleTranslationUnitKeeps ==
  ASSUME PInv, HandleTranslationUnit
  PROVE  DriverInv'
<1> USE DEF PInv, DriverInv
<1>1. /\ stage = "ast" /\ stage' = "ast" /\ AtAst /\ EndTU
      /\ marks' = [marks EXCEPT !["ast"] = @ \cup MarkedByAst]
      /\ cache' = AskedAbout(entered)
      /\ inclusions' = [inclusions EXCEPT ![main] = entered]
      /\ UNCHANGED <<output, excludeFiles, left, linked, report, limits>>
  BY DEF HandleTranslationUnit
<1>2. main \in Mains /\ main' = NoFile /\ todo' = todo /\ entered \subseteq Files
  <2>1. Len(stack) = 1 /\ Len(<<>>) = 0
    BY <1>1 DEF EndTU
  <2>2. stack /= <<>>
    BY <2>1
  <2> QED
    BY <1>1, <2>2 DEF EndTU, CommentInv, TypeOK
<1>3. main \in entered /\ inclusions[main] = {} /\ NoFile \notin Mains
  BY <1>1, <1>2, TextAssumption DEF AtAst
<1>4. PICK ok \in BOOLEAN : UnitDone("ast", main, ok)
  BY DEF HandleTranslationUnit
<1>5. ResultTells' /\ result' \in {0, Failure, Unassigned, -1} /\ (broken /= {} => broken' /= {})
  BY <1>1, <1>4, UnitDoneTells DEF AtAst
<1>6. CacheFresh'
  BY <1>1, <1>2, CacheStaysFresh DEF Stages
<1>7. /\ inclusions' \in [Mains -> SUBSET Files]
      /\ inclusions'[main] = entered
      /\ \A m \in Mains \ {main} : inclusions'[m] = inclusions[m]
  BY <1>1, <1>2 DEF DriverTypes
<1>8. MarkedByAst = {f \in entered : f \notin ExcludedFiles /\ f \notin DefFiles}
  BY <1>1, <1>2, AnswerIsExact DEF MarkedByAst, Stages
<1>9. /\ marks' \in [Passes -> SUBSET Files]
      /\ marks'["ast"] = marks["ast"] \cup MarkedByAst
      /\ marks'["expanded"] = marks["expanded"] /\ marks'["unexpanded"] = marks["unexpanded"]
  BY <1>1, <1>2, <1>8 DEF DriverTypes, Passes
<1>10. UNION {inclusions'[m] : m \in Mains} = (UNION {inclusions[m] : m \in Mains}) \cup entered
  BY <1>2, <1>3, <1>7, UnionGrows
<1>11. MarksOf("ast", Mains)'
  BY <1>1, <1>8, <1>9, <1>10 DEF MarksOf, AtAst
<1>12. AtAst'
  <2>1. ASSUME NEW m \in Mains
        PROVE  IF m \in todo' \cup {main'} THEN inclusions'[m] = {}
               ELSE m \in inclusions'[m] \/ broken' /= {}
    <3>1. IF m \in todo \cup {main} THEN inclusions[m] = {}
          ELSE m \in inclusions[m] \/ broken /= {}
      BY <1>1 DEF AtAst
    <3>2. main \notin todo
      BY <1>1 DEF AtAst
    <3>3. CASE m = main
      BY <1>2, <1>3, <1>7, <3>2, <3>3
    <3>4. CASE m /= main
      BY <1>2, <1>3, <1>5, <1>7, <3>1, <3>4
    <3> QED
      BY <3>3, <3>4
  <2>2. NothingYet' /\ marks'["expanded"] = {} /\ marks'["unexpanded"] = {}
    BY <1>1, <1>9 DEF AtAst, NothingYet
  <2>3. main' \notin todo' /\ main' = NoFile
    BY <1>2, <1>3, TextAssumption DEF CommentInv, TypeOK
  <2> QED
    BY <1>5, <1>11, <2>1, <2>2, <2>3 DEF AtAst
<1>13. DriverTypes'
  BY <1>1, <1>5, <1>7, <1>9 DEF DriverTypes
<1> QED
  BY <1>1, <1>6, <1>12, <1>13

LEMMA MissingTUKeeps ==
  ASSUME PInv, NEW f \in Mains, MissingTU(f)
  PROVE  DriverInv'
<1> USE DEF PInv, DriverInv
<1>1. /\ stage = "ast" /\ stage' = "ast" /\ AtAst /\ main = NoFile /\ todo' = todo \ {f}
      /\ UNCHANGED <<main, entered, output, excludeFiles, cache, left, marks, linked, report,
                     limits, inclusions>>
      /\ result' = Failure /\ broken' = broken \cup {<<"ast", f>>}
  BY DEF MissingTU, UnitDone, ResultAfter
<1>2. DriverTypes' /\ CacheFresh'
  BY <1>1 DEF DriverTypes, CacheFresh
<1>3. broken' /= {}
  BY <1>1
<1>5. result' /= 0
  BY <1>1 DEF Failure
<1>4. AtAst'
  <2>1. ASSUME NEW m \in Mains
        PROVE  IF m \in todo' \cup {main'} THEN inclusions'[m] = {}
               ELSE m \in inclusions'[m] \/ broken' /= {}
    <3>1. m \in todo \cup {main} => inclusions[m] = {}
      BY <1>1 DEF AtAst
    <3> QED
      BY <1>1, <1>3, <3>1
  <2>2. NothingYet' /\ marks'["expanded"] = {} /\ marks'["unexpanded"] = {}
        /\ MarksOf("ast", Mains)' /\ main' = NoFile /\ main' \notin todo'
    BY <1>1 DEF AtAst, NothingYet, MarksOf
  <2> QED
    BY <1>3, <1>5, <2>1, <2>2 DEF AtAst, ResultTells
<1> QED
  BY <1>1, <1>2, <1>4

LEMMA EndOfPass1Keeps ==
  ASSUME PInv, EndOfPass1
  PROVE  DriverInv'
<1> USE DEF PInv, DriverInv
<1>1. /\ stage = "ast" /\ AtAst /\ main = NoFile /\ todo = {}
      /\ stage' = IF result = 0 THEN "resolve" ELSE "ended"
      /\ UNCHANGED <<output, excludeFiles, cache, result, left, marks, linked, report, limits,
                     broken, inclusions>>
  BY DEF EndOfPass1
<1>2. DriverTypes' /\ CacheFresh'
  BY <1>1 DEF DriverTypes, CacheFresh, Stages
<1>3. ASSUME result = 0 PROVE AtResolve'
  BY <1>1, <1>3, TextAssumption
     DEF AtAst, AtResolve, NothingYet, ResultTells, AllMet, MarksOf
<1>4. ASSUME result /= 0 PROVE AtEnd'
  BY <1>1, <1>4
     DEF AtAst, AtEnd, ReportComplete, StatusTells, NothingYet, ResultTells
<1> QED
  BY <1>1, <1>2, <1>3, <1>4

\* Neither the resolver nor what follows changes what pass 1 left behind.
LEMMA ResolveKeeps ==
  ASSUME PInv, Resolve
  PROVE  DriverInv'
<1> USE DEF PInv, DriverInv
<1>1. /\ stage = "resolve" /\ AtResolve /\ stage' = "expanded" /\ linked' /\ left' = Mains
      /\ UNCHANGED <<output, excludeFiles, cache, result, marks, report, limits, broken,
                     inclusions>>
  BY DEF Resolve
<1>2. DriverTypes' /\ CacheFresh'
  BY <1>1 DEF DriverTypes, CacheFresh, Stages
<1>3. MarksOf("expanded", Mains \ left)'
  BY <1>1 DEF MarksOf, AtResolve
<1>4. AtExpanded'
  BY <1>1, <1>3 DEF AtResolve, AtExpanded, NothingYet, ResultTells, AllMet, MarksOf
<1> QED
  BY <1>1, <1>2, <1>4

\* A translation unit lexed adds the marks of its files.
LEMMA LexTUMarks ==
  ASSUME PInv, NEW p \in {"expanded", "unexpanded"}, NEW m \in Mains, LexTU(p, m),
         MarksOf(p, Mains \ left)
  PROVE  MarksOf(p, Mains \ left)'
<1>1. stage = p /\ m \in left /\ left' = left \ {m} /\ UNCHANGED inclusions
      /\ marks' = [marks EXCEPT ![p] = @ \cup {f \in inclusions[m] : Answer(f)}]
  BY DEF LexTU
<1>2. inclusions[m] \subseteq Files /\ marks \in [Passes -> SUBSET Files] /\ left \subseteq Mains
  BY DEF PInv, DriverInv, DriverTypes
<1>3. {f \in inclusions[m] : Answer(f)} = {f \in inclusions[m] : f \notin ExcludedFiles}
  BY <1>1, <1>2, AnswerIsExact DEF PInv, DriverInv, Stages
<1>4. marks'[p] = marks[p] \cup {f \in inclusions[m] : f \notin ExcludedFiles}
  BY <1>1, <1>2, <1>3 DEF Passes
<1>5. Mains \ left' = (Mains \ left) \cup {m}
  BY <1>1, <1>2
<1>6. UNION {inclusions[n] : n \in Mains \ left'}
        = (UNION {inclusions[n] : n \in Mains \ left}) \cup inclusions[m]
  BY <1>5
<1> QED
  BY <1>1, <1>4, <1>6 DEF MarksOf

LEMMA LexingKeeps ==
  ASSUME PInv, NEW p \in {"expanded", "unexpanded"}, NEW m \in Mains,
         LexTU(p, m) \/ MissingLexTU(p, m)
  PROVE  DriverInv'
<1> USE DEF PInv, DriverInv
<1>1. /\ stage = p /\ stage' = stage /\ left' = left \ {m}
      /\ UNCHANGED <<output, excludeFiles, linked, report, limits, inclusions>>
      /\ \E ok \in BOOLEAN : UnitDone(p, m, ok)
  BY DEF LexTU, MissingLexTU
<1>2. ResultTells /\ NothingYet /\ linked /\ AllMet /\ MarksOf("ast", Mains)
  BY <1>1 DEF AtExpanded, AtUnexpanded
<1>3. ResultTells' /\ result' \in {0, Failure, Unassigned, -1} /\ (broken' = {} => broken = {})
  BY <1>1, <1>2, UnitDoneTells
<1>4. inclusions[m] \subseteq Files
  BY DEF DriverTypes
<1>5. CacheFresh'
  BY <1>1, <1>4, CacheStaysFresh DEF CacheFresh, LexTU, MissingLexTU, Stages
<1>6. /\ marks' \in [Passes -> SUBSET Files]
      /\ \A q \in Passes \ {p} : marks'[q] = marks[q]
  <2>1. CASE LexTU(p, m)
    BY <1>4, <2>1 DEF LexTU, DriverTypes, Passes
  <2>2. CASE MissingLexTU(p, m)
    BY <2>2 DEF MissingLexTU, DriverTypes
  <2> QED
    BY <2>1, <2>2
<1>7. DriverTypes'
  BY <1>1, <1>3, <1>6 DEF DriverTypes
<1>8. broken' = {} => MarksOf(p, Mains \ left)'
  <2>1. CASE LexTU(p, m)
    BY <1>1, <1>3, <2>1, LexTUMarks DEF AtExpanded, AtUnexpanded
  <2>2. CASE MissingLexTU(p, m)
    BY <2>2 DEF MissingLexTU, UnitDone
  <2> QED
    BY <2>1, <2>2
<1>9. NothingYet' /\ linked' /\ AllMet' /\ MarksOf("ast", Mains)'
  BY <1>1, <1>2, <1>6 DEF NothingYet, AllMet, MarksOf, Passes
<1>10. CASE p = "expanded"
  BY <1>1, <1>3, <1>5, <1>6, <1>7, <1>8, <1>9, <1>10 DEF AtExpanded, Passes
<1>11. CASE p = "unexpanded"
  <2>1. MarksOf("expanded", Mains)'
    BY <1>1, <1>6, <1>11 DEF AtUnexpanded, MarksOf, Passes
  <2> QED
    BY <1>1, <1>3, <1>5, <1>7, <1>8, <1>9, <1>11, <2>1 DEF AtUnexpanded
<1> QED
  BY <1>10, <1>11

LEMMA EndOfExpandedKeeps ==
  ASSUME PInv, EndOfExpanded
  PROVE  DriverInv'
<1> USE DEF PInv, DriverInv
<1>1. /\ stage = "expanded" /\ AtExpanded /\ left = {}
      /\ UNCHANGED <<output, excludeFiles, cache, result, marks, linked, report, limits, broken,
                     inclusions>>
      /\ IF result = 0 THEN stage' = "unexpanded" /\ left' = Mains
         ELSE stage' = "ended" /\ left' = left
  BY DEF EndOfExpanded
<1>2. DriverTypes' /\ CacheFresh'
  BY <1>1 DEF DriverTypes, CacheFresh, Stages
<1>3. ASSUME result = 0 PROVE AtUnexpanded'
  <2>1. broken = {} /\ MarksOf("expanded", Mains)
    BY <1>1, <1>3 DEF AtExpanded, ResultTells, MarksOf
  <2>2. Mains \ left' = {}
    BY <1>1, <1>3
  <2>3. MarksOf("unexpanded", Mains \ left)'
    BY <1>1, <2>2 DEF AtExpanded, MarksOf
  <2> QED
    BY <1>1, <2>1, <2>3 DEF AtExpanded, AtUnexpanded, NothingYet, ResultTells, AllMet, MarksOf
<1>4. ASSUME result /= 0 PROVE AtEnd'
  BY <1>1, <1>4
     DEF AtExpanded, AtEnd, ReportComplete, StatusTells, NothingYet, ResultTells
<1> QED
  BY <1>1, <1>2, <1>3, <1>4

LEMMA EndOfUnexpandedKeeps ==
  ASSUME PInv, EndOfUnexpanded
  PROVE  DriverInv'
<1> USE DEF PInv, DriverInv
<1>1. /\ stage = "unexpanded" /\ AtUnexpanded /\ left = {}
      /\ stage' = IF result = 0 THEN "report" ELSE "ended"
      /\ UNCHANGED <<output, excludeFiles, cache, result, left, marks, linked, report, limits,
                     broken, inclusions>>
  BY DEF EndOfUnexpanded
<1>2. DriverTypes' /\ CacheFresh'
  BY <1>1 DEF DriverTypes, CacheFresh, Stages
<1>3. ASSUME result = 0 PROVE AtReport'
  <2>1. broken = {} /\ MarksOf("unexpanded", Mains)
    BY <1>1, <1>3 DEF AtUnexpanded, ResultTells, MarksOf
  <2>2. Complete
    BY <1>1, <2>1 DEF AtUnexpanded, Complete, Passes
  <2> QED
    BY <1>1, <1>3, <2>2 DEF AtUnexpanded, AtReport, NothingYet, Complete, AllMet, MarksOf
<1>4. ASSUME result /= 0 PROVE AtEnd'
  BY <1>1, <1>4
     DEF AtUnexpanded, AtEnd, ReportComplete, StatusTells, NothingYet, ResultTells
<1> QED
  BY <1>1, <1>2, <1>3, <1>4

\* A report made when all the counts are there stays a report of them.
LEMMA CompleteMeansReport ==
  ASSUME Complete
  PROVE  ReportComplete
BY DEF Complete, ReportComplete, AllMet, MarksOf

LEMMA CompleteStays ==
  ASSUME Complete, UNCHANGED <<broken, linked, marks, inclusions>>
  PROVE  Complete'
BY DEF Complete, AllMet, MarksOf

LEMMA DumpKeeps ==
  ASSUME PInv, Dump
  PROVE  DriverInv'
<1> USE DEF PInv, DriverInv
<1>1. /\ stage = "report" /\ AtReport /\ stage' = "limits"
      /\ report' = "written" \/ (report' = "buffered" /\ output /= "cout")
      /\ UNCHANGED <<output, excludeFiles, cache, result, left, marks, linked, limits, broken,
                     inclusions>>
  BY DEF Dump
<1>2. DriverTypes' /\ CacheFresh'
  BY <1>1 DEF DriverTypes, CacheFresh, Stages
<1>3. Complete'
  BY <1>1, CompleteStays DEF AtReport
<1>4. AtLimits'
  BY <1>1, <1>3 DEF AtReport, AtLimits, NothingYet, DriverTypes
<1> QED
  BY <1>1, <1>2, <1>4

LEMMA EndKeeps ==
  ASSUME PInv, Return \/ ExitFromLimits
  PROVE  DriverInv'
<1> USE DEF PInv, DriverInv
<1>1. /\ stage = "limits" /\ AtLimits /\ stage' = "ended"
      /\ UNCHANGED <<output, excludeFiles, cache, left, marks, linked, broken, inclusions>>
      /\ \/ report' = "written" /\ result' = result /\ limits' \in {"none", "checked"}
         \/ report' = report /\ result' = Failure /\ limits' = "failed"
  BY DEF Return, ExitFromLimits, StreamDeleted
<1>2. DriverTypes' /\ CacheFresh'
  BY <1>1 DEF DriverTypes, CacheFresh, Stages
<1>3. ReportComplete'
  <2>1. Complete'
    BY <1>1, CompleteStays DEF AtLimits
  <2> QED
    BY <2>1 DEF Complete, ReportComplete, AllMet, MarksOf
<1>4. StatusTells'
  BY <1>1 DEF AtLimits, Complete, StatusTells, Failure
<1> QED
  BY <1>1, <1>2, <1>3, <1>4 DEF AtEnd
-----------------------------------------------------------------------------
\* Steps of the driver that are steps of Comments, or leave its variables alone.
LEMMA CommentStep ==
  ASSUME PInv, [PNext]_pvars
  PROVE  CommentInv' /\ CountsHere /\ (OnceInv /\ LostInv => OnceInv' /\ LostInv')
<1>1. CASE Preprocess \/ HandleTranslationUnit
  <2>1. Next
    BY <1>1 DEF Preprocess, HandleTranslationUnit, Next
  <2> QED
    BY <2>1, StepKeeps, StepOnce, StepLost DEF PInv
<1>2. CASE \E f \in Mains : MissingTU(f)
  BY <1>2, IdleKeeps, IdleOnce, IdleLost DEF MissingTU, PInv
<1>3. CASE UNCHANGED vars
  BY <1>3, StepKeeps, StepOnce, StepLost DEF PInv
<1>4. CASE Lexing
  <2>1. UNCHANGED vars
    BY <1>4 DEF Lexing, LexTU, MissingLexTU
  <2> QED
    BY <1>3, <2>1
<1>5. CASE ExitFromOptions \/ ParseOptions \/ EndOfPass1 \/ Resolve \/ EndOfExpanded
           \/ EndOfUnexpanded \/ Dump \/ Return \/ ExitFromLimits \/ UNCHANGED pvars
  <2>1. UNCHANGED vars
    BY <1>5 DEF ExitFromOptions, ParseOptions, EndOfPass1, Resolve, EndOfExpanded,
                EndOfUnexpanded, Dump, Return, ExitFromLimits, pvars, vars
  <2> QED
    BY <1>3, <2>1
<1> QED
  BY <1>1, <1>2, <1>4, <1>5 DEF PNext

LEMMA DriverStep ==
  ASSUME PInv, [PNext]_pvars
  PROVE  DriverInv'
<1>1. CASE ExitFromOptions \/ ParseOptions
  BY <1>1, OptionStepsKeep
<1>2. CASE Preprocess
  BY <1>2, PreprocessKeeps
<1>3. CASE HandleTranslationUnit
  BY <1>3, HandleTranslationUnitKeeps
<1>4. CASE \E f \in Mains : MissingTU(f)
  BY <1>4, MissingTUKeeps
<1>5. CASE EndOfPass1 \/ Resolve
  BY <1>5, EndOfPass1Keeps, ResolveKeeps
<1>6. CASE Lexing
  BY <1>6, LexingKeeps DEF Lexing
<1>7. CASE EndOfExpanded \/ EndOfUnexpanded
  BY <1>7, EndOfExpandedKeeps, EndOfUnexpandedKeeps
<1>8. CASE Dump
  BY <1>8, DumpKeeps
<1>9. CASE Return \/ ExitFromLimits
  BY <1>9, EndKeeps
<1>10. CASE UNCHANGED pvars
  BY <1>10 DEF pvars, PInv, DriverInv, DriverTypes, CacheFresh, AtOptions, AtAst, AtResolve,
     AtExpanded, AtUnexpanded, AtReport, AtLimits, AtEnd, Complete, NothingYet, ResultTells,
     AllMet, MarksOf, ReportComplete, StatusTells
<1> QED
  BY <1>1, <1>2, <1>3, <1>4, <1>5, <1>6, <1>7, <1>8, <1>9, <1>10 DEF PNext

LEMMA PStepKeeps ==
  ASSUME PInv, [PNext]_pvars
  PROVE  PInv'
BY CommentStep, DriverStep DEF PInv

\* What the program guarantees follows from the invariant.
LEMMA InvTells == PInv => ReportComplete /\ StatusTells
<1> SUFFICES ASSUME PInv PROVE ReportComplete /\ StatusTells
  OBVIOUS
<1> USE DEF PInv, DriverInv
<1>1. CASE stage = "ended"
  BY <1>1 DEF AtEnd
<1>2. CASE stage = "limits"
  BY <1>2, CompleteMeansReport DEF AtLimits, StatusTells
<1>3. CASE stage \notin {"ended", "limits"}
  <2>1. report = "none"
    BY <1>3 DEF DriverTypes, Stages, AtOptions, AtAst, AtResolve, AtExpanded, AtUnexpanded,
                AtReport, NothingYet
  <2> QED
    BY <1>3, <2>1 DEF ReportComplete, StatusTells
<1> QED
  BY <1>1, <1>2, <1>3

\* Whatever fails, a report is only made when no translation unit failed in any pass
\* and every pass went over exactly the files it was asked to.
THEOREM ReportsAreComplete == PSpec => []ReportComplete
<1> QED
  BY InitDriver, PStepKeeps, InvTells, PTL DEF PSpec

\* The exit status of the program is zero exactly when a whole report was written and
\* all limits files were read.
THEOREM StatusIsTrue == PSpec => []StatusTells
<1> QED
  BY InitDriver, PStepKeeps, InvTells, PTL DEF PSpec

\* What is proved of the comment counter alone holds of it within the program.
THEOREM CommentTypesHere == PSpec => []TypeOK
<1>1. PInv => TypeOK
  BY DEF PInv, CommentInv
<1> QED
  BY <1>1, InitDriver, PStepKeeps, PTL DEF PSpec

\* Also when translation units are passed over, the comments of a header count in one.
THEOREM CountedInOneUnitHere == PSpec => OneTranslationUnit
<1>1. PInv /\ [PNext]_pvars => [CountsHere]_vars
  BY CommentStep
<1> QED
  BY <1>1, InitDriver, PStepKeeps, PTL DEF PSpec, OneTranslationUnit, CountsHere

\* No comment counts twice in the whole program, and none is missed for other reasons
\* than in Comments.
THEOREM CommentsOnceHere == PSpec => [](CountedOnce /\ LostOnlyWhenCut)
<1> DEFINE Inv == PInv /\ OnceInv /\ LostInv
<1>1. Inv => CountedOnce /\ LostOnlyWhenCut
  BY DEF OnceInv, PlaceOnce, CountedOnce, LostInv
<1>2. PInit => Inv
  BY InitDriver, OnceInit, LostInit DEF PInit
<1>3. Inv /\ [PNext]_pvars => Inv'
  BY CommentStep, PStepKeeps
<1> HIDE DEF Inv
<1> QED
  BY <1>1, <1>2, <1>3, PTL DEF PSpec
=============================================================================
