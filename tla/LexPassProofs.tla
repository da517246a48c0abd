--------------------------- MODULE LexPassProofs ---------------------------
(***************************************************************************)
(* Proofs about LexPass, for any files, functions, includes and tokens:    *)
(* the lexer's cached answer is the one a look-up would give, every token  *)
(* counts once, the identifiers and the body of a function are told, and a *)
(* file that was lexed is left alone.                                      *)
(***************************************************************************)
EXTENDS LexPass, TLAPS

Frames == [file : Files, id : Nat, fn : FnNames \cup {NoFn}, body : BOOLEAN]
MetricSets == [tokens : Nat, body : Nat, ids : SUBSET Identifiers, bodyIds : SUBSET Identifiers]
-----------------------------------------------------------------------------
(* The include stack. *)

LEMMA Pushed ==
  ASSUME NEW S, NEW x \in S, NEW s \in Seq(S)
  PROVE  /\ <<x>> \o s \in Seq(S)
         /\ Len(s) \in Nat /\ DOMAIN s = 1 .. Len(s)
         /\ DOMAIN (<<x>> \o s) = 1 .. (Len(s) + 1)
         /\ (<<x>> \o s)[1] = x
         /\ \A i \in 1 .. Len(s) : (<<x>> \o s)[i + 1] = s[i]
         /\ <<x>> \o s # <<>> /\ Head(<<x>> \o s) = x
OBVIOUS

LEMMA Popped ==
  ASSUME NEW S, NEW s \in Seq(S), s # <<>>
  PROVE  /\ Tail(s) \in Seq(S) /\ s[1] = Head(s) /\ Head(s) \in S
         /\ Len(s) \in Nat /\ Len(s) > 0 /\ DOMAIN s = 1 .. Len(s)
         /\ Len(Tail(s)) = Len(s) - 1 /\ DOMAIN Tail(s) = 1 .. (Len(s) - 1)
         /\ \A i \in 1 .. (Len(s) - 1) : Tail(s)[i] = s[i + 1]
OBVIOUS

\* Frame i belongs to file f: its own, or the one that def files from there on are
\* included by.
Belongs(s, i, f) ==
  /\ f \notin DefFiles
  /\ \E k \in DOMAIN s : /\ i <= k /\ s[k].file = f
                         /\ \A j \in DOMAIN s : i <= j /\ j < k => s[j].file \in DefFiles

LEMMA BelongsToOne ==
  ASSUME NEW s \in Seq(Frames), NEW i \in Nat, NEW f, NEW g, Belongs(s, i, f), Belongs(s, i, g)
  PROVE  f = g
<1>1. PICK k \in DOMAIN s : /\ i <= k /\ s[k].file = f
                            /\ \A j \in DOMAIN s : i <= j /\ j < k => s[j].file \in DefFiles
  BY DEF Belongs
<1>2. PICK l \in DOMAIN s : /\ i <= l /\ s[l].file = g
                            /\ \A j \in DOMAIN s : i <= j /\ j < l => s[j].file \in DefFiles
  BY DEF Belongs
<1>3. k \in Nat /\ l \in Nat
  OBVIOUS
<1>4. ~ (k < l) /\ ~ (l < k)
  BY <1>1, <1>2, <1>3 DEF Belongs
<1>5. QED
  BY <1>1, <1>2, <1>3, <1>4

\* The search of the code, FileChanged() apart: what def files belong to.
LEMMA ResolvedBelongs ==
  ASSUME NEW s \in Seq(Frames), NEW f, Belongs(s, 1, f)
  PROVE  Resolved(s) = f
<1> DEFINE own == {i \in DOMAIN s : s[i].file \notin DefFiles} \cup {Len(s)}
<1>1. PICK k \in DOMAIN s : /\ s[k].file = f
                            /\ \A j \in DOMAIN s : 1 <= j /\ j < k => s[j].file \in DefFiles
  BY DEF Belongs
<1>2. f \notin DefFiles /\ DOMAIN s = 1 .. Len(s) /\ Len(s) \in Nat
  BY DEF Belongs
<1>3. k \in own
  BY <1>1, <1>2
<1>4. \A y \in own : y \in Nat /\ k <= y
  BY <1>1, <1>2
<1>5. k \in Nat
  BY <1>2
<1> HIDE DEF own
<1>6. \A x \in own : (\A y \in own : x <= y) => x = k
  BY <1>3, <1>4, <1>5
<1>7. Min(own) = k
  BY <1>3, <1>4, <1>6 DEF Min
<1>8. QED
  BY <1>1, <1>7 DEF Resolved, own

\* A file on the stack takes its frames along.
LEMMA BelongsBelow ==
  ASSUME NEW s \in Seq(Frames), NEW x \in Frames, NEW f, NEW i \in DOMAIN s
  PROVE  Belongs(<<x>> \o s, i + 1, f) <=> Belongs(s, i, f)
<1> DEFINE p == <<x>> \o s
<1>1. /\ Len(s) \in Nat /\ DOMAIN s = 1 .. Len(s) /\ DOMAIN p = 1 .. (Len(s) + 1)
      /\ \A j \in 1 .. Len(s) : p[j + 1] = s[j]
  BY Pushed
<1> HIDE DEF p
<1>2. ASSUME Belongs(p, i + 1, f) PROVE Belongs(s, i, f)
  <2>1. PICK k \in DOMAIN p : /\ i + 1 <= k /\ p[k].file = f
                              /\ \A j \in DOMAIN p : i + 1 <= j /\ j < k => p[j].file \in DefFiles
    BY <1>2 DEF Belongs
  <2>2. k - 1 \in DOMAIN s /\ i <= k - 1 /\ s[k - 1].file = f
    BY <1>1, <2>1
  <2>3. ASSUME NEW j \in DOMAIN s, i <= j, j < k - 1 PROVE s[j].file \in DefFiles
    <3>1. j + 1 \in DOMAIN p /\ i + 1 <= j + 1 /\ j + 1 < k
      BY <1>1, <2>1, <2>3
    <3>2. QED
      BY <1>1, <2>1, <3>1
  <2>4. QED
    BY <1>2, <2>2, <2>3 DEF Belongs
<1>3. ASSUME Belongs(s, i, f) PROVE Belongs(p, i + 1, f)
  <2>1. PICK k \in DOMAIN s : /\ i <= k /\ s[k].file = f
                              /\ \A j \in DOMAIN s : i <= j /\ j < k => s[j].file \in DefFiles
    BY <1>3 DEF Belongs
  <2>2. k + 1 \in DOMAIN p /\ i + 1 <= k + 1 /\ p[k + 1].file = f
    BY <1>1, <2>1
  <2>3. ASSUME NEW j \in DOMAIN p, i + 1 <= j, j < k + 1 PROVE p[j].file \in DefFiles
    <3>1. j - 1 \in DOMAIN s /\ i <= j - 1 /\ j - 1 < k /\ p[j] = s[j - 1]
      BY <1>1, <2>1, <2>3
    <3>2. QED
      BY <2>1, <3>1
  <2>4. QED
    BY <1>3, <2>2, <2>3 DEF Belongs
<1>4. QED
  BY <1>2, <1>3 DEF p

\* The frame on top belongs to its own file, or to what is below.
LEMMA BelongsOnTop ==
  ASSUME NEW s \in Seq(Frames), NEW x \in Frames, NEW f,
         IF x.file \in DefFiles THEN s # <<>> /\ Belongs(s, 1, f) ELSE x.file = f
  PROVE  Belongs(<<x>> \o s, 1, f)
<1> DEFINE p == <<x>> \o s
<1>1. /\ Len(s) \in Nat /\ DOMAIN s = 1 .. Len(s) /\ DOMAIN p = 1 .. (Len(s) + 1)
      /\ p[1] = x /\ \A j \in 1 .. Len(s) : p[j + 1] = s[j]
  BY Pushed
<1> HIDE DEF p
<1>2. CASE x.file \notin DefFiles
  BY <1>1, <1>2 DEF Belongs
<1>3. CASE x.file \in DefFiles
  <2>1. PICK k \in DOMAIN s : /\ s[k].file = f
                              /\ \A j \in DOMAIN s : 1 <= j /\ j < k => s[j].file \in DefFiles
    BY <1>3 DEF Belongs
  <2>2. k + 1 \in DOMAIN p /\ 1 <= k + 1 /\ p[k + 1].file = f
    BY <1>1, <2>1
  <2>3. ASSUME NEW j \in DOMAIN p, j < k + 1 PROVE p[j].file \in DefFiles
    <3>1. CASE j = 1
      BY <1>1, <1>3, <3>1
    <3>2. CASE j # 1
      <4>1. j - 1 \in DOMAIN s /\ 1 <= j - 1 /\ j - 1 < k /\ p[j] = s[j - 1]
        BY <1>1, <2>1, <2>3, <3>2
      <4>2. QED
        BY <2>1, <4>1
    <3>3. QED
      BY <3>1, <3>2
  <2>4. f \notin DefFiles
    BY <1>3 DEF Belongs
  <2>5. Belongs(p, 1, f)
    BY <2>2, <2>3, <2>4 DEF Belongs
  <2>6. QED
    BY <2>5 DEF p
<1>4. QED
  BY <1>2, <1>3 DEF p
-----------------------------------------------------------------------------
(* The invariant. *)

\* The frames are numbered from below, def files stand on top, and the include handler's
\* file is the one that the innermost frame belongs to.
StackInv ==
  /\ stack \in Seq(Frames) /\ frames \in Nat
  /\ \A i \in DOMAIN stack : 1 <= stack[i].id /\ stack[i].id <= frames
  /\ \A i, j \in DOMAIN stack : i < j => stack[i].id > stack[j].id
  /\ \A i \in DOMAIN stack :
       i < Len(stack) /\ stack[i + 1].file \in DefFiles => stack[i].file \in DefFiles
  /\ stack # <<>> => curFile \in Files /\ Belongs(stack, 1, curFile)

\* A file is marked when the first translation unit with it is over.
ReadInv ==
  /\ tu \in Nat /\ (stack # <<>> => tu >= 1)
  /\ read \subseteq Files /\ firstTU \in [Files -> Nat]
  /\ \A f \in Files : firstTU[f] <= tu
  /\ processed = {f \in Files : /\ ShouldIncludeFile(f) /\ firstTU[f] # 0
                                /\ firstTU[f] < tu \/ stack = <<>>}
  /\ stack # <<>> => \A f \in Files : /\ firstTU[f] = tu => f \in read
                                      /\ f \in read => firstTU[f] # 0
  /\ \A i \in DOMAIN stack : stack[i].file \in read

\* The current unit is one of a file first met in this translation unit; and as long as
\* the frame of the last look-up is on the stack, it is the unit that look-up gave.
LexerInv ==
  /\ fnFrame \in Nat /\ fnFrame <= frames /\ curFn \in FnNames \cup {NoFn}
  /\ curUnit # NoUnit => /\ curUnit \in Units /\ stack # <<>>
                         /\ ShouldIncludeFile(curUnit.file) /\ firstTU[curUnit.file] = tu
  /\ \A i \in DOMAIN stack, f \in Files :
       curFn # NoFn /\ stack[i].id = fnFrame /\ Belongs(stack, i, f)
         => curUnit = IF ShouldIncludeFunction(curFn) THEN FunctionUnit(f, curFn) ELSE NoUnit

LexInv ==
  /\ TypeOK /\ StackInv /\ ReadInv /\ LexerInv
  /\ truth \in [Units -> MetricSets]
  /\ TokensCountedOnce

\* What FrozenAfterLexed says of a step.
Frozen ==
  \A u \in Units : firstTU[u.file] # 0 /\ firstTU[u.file] < tu' => metrics'[u] = metrics[u]

LEMMA LexInit == Init => LexInv
<1> SUFFICES ASSUME Init PROVE LexInv
  OBVIOUS
<1>1. NoMetrics \in MetricSets
  BY DEF NoMetrics, MetricSets
<1>2. metrics \in [Units -> MetricSets] /\ truth = metrics
  BY <1>1 DEF Init
<1>3. TypeOK
  <2>1. /\ tu \in 0 .. MaxTUs /\ tokens \in 0 .. MaxTokens /\ frames \in 0 .. MaxIncludes + 1
        /\ fnFrame \in 0 .. frames
    BY LexAssumption DEF Init
  <2>2. {inBody, waiting} \subseteq BOOLEAN
    BY DEF Init
  <2>3. QED
    BY <1>2, <2>1, <2>2 DEF Init, TypeOK, MetricSets
<1>4. StackInv
  BY DEF Init, StackInv
<1>5. ReadInv
  BY DEF Init, ReadInv
<1>6. LexerInv
  BY DEF Init, LexerInv
<1>7. QED
  BY <1>2, <1>3, <1>4, <1>5, <1>6 DEF LexInv, TokensCountedOnce
-----------------------------------------------------------------------------
(* Entering and leaving files. *)

LEMMA StartKeeps ==
  ASSUME LexInv, NEW f \in Mains, StartTU(f)
  PROVE  LexInv' /\ Frozen
<1> USE DEF LexInv
<1>1. f \in Files /\ f \notin DefFiles /\ NoFile \notin Files /\ MaxIncludes \in Nat
  BY LexAssumption
<1>2. /\ stack' = <<Frame(f, 1)>> /\ Frame(f, 1) \in Frames /\ Frame(f, 1).file = f
      /\ Frame(f, 1).id = 1
  BY <1>1 DEF StartTU, Frame, Frames
<1>3. /\ stack' \in Seq(Frames) /\ Len(stack') = 1 /\ DOMAIN stack' = 1 .. 1
      /\ stack'[1].file = f /\ stack'[1].id = 1 /\ stack' # <<>>
  <2> HIDE DEF Frames
  <2>1. QED
    BY <1>2
<1>4. StackInv'
  <2>1. Belongs(stack', 1, f)
    BY <1>1, <1>3 DEF Belongs
  <2>2. QED
    BY <1>1, <1>3, <2>1 DEF StartTU, StackInv
<1>5. /\ firstTU' = [firstTU EXCEPT ![f] = IF @ = 0 THEN tu + 1 ELSE @]
      /\ read' = {f} /\ tu' = tu + 1 /\ stack = <<>> /\ UNCHANGED <<processed, metrics, truth>>
  BY DEF StartTU, Meet
<1>6. ReadInv'
  <2>1. /\ tu \in Nat /\ firstTU \in [Files -> Nat] /\ \A g \in Files : firstTU[g] <= tu
        /\ processed = {g \in Files : ShouldIncludeFile(g) /\ firstTU[g] # 0}
    BY <1>5 DEF ReadInv
  <2>2. /\ firstTU' \in [Files -> Nat]
        /\ \A g \in Files : /\ firstTU'[g] <= tu + 1
                            /\ firstTU'[g] = tu + 1 => g = f
                            /\ firstTU[g] # 0 <=> firstTU'[g] # 0 /\ firstTU'[g] < tu + 1
        /\ firstTU'[f] # 0
    BY <1>1, <1>5, <2>1
  <2>3. processed' = {g \in Files : /\ ShouldIncludeFile(g) /\ firstTU'[g] # 0
                                    /\ firstTU'[g] < tu' \/ stack' = <<>>}
    BY <1>3, <1>5, <2>1, <2>2
  <2>4. QED
    BY <1>1, <1>3, <1>5, <2>1, <2>2, <2>3 DEF ReadInv, ShouldIncludeFile
<1>7. LexerInv'
  BY <1>3 DEF StartTU, LexerInv, StackInv, NoUnit
<1>8. TypeOK'
  <2>1. /\ tu' \in 0 .. MaxTUs /\ frames' \in 0 .. MaxIncludes + 1 /\ fnFrame' \in 0 .. frames'
    BY <1>1, LexAssumption DEF StartTU, TypeOK
  <2>2. {inBody', waiting'} \subseteq BOOLEAN /\ curUnit' = NoUnit /\ curFn' = NoFn
    BY DEF StartTU
  <2>3. curFile' \in Files /\ ids' = {} /\ bodyIds' = {}
    BY <1>1 DEF StartTU
  <2>4. UNCHANGED <<tokens, units, metrics, processed>>
    BY DEF StartTU
  <2>5. QED
    BY <2>1, <2>2, <2>3, <2>4 DEF TypeOK
<1>9. QED
  BY <1>4, <1>5, <1>6, <1>7, <1>8 DEF TokensCountedOnce, Frozen

LEMMA IncludeKeeps ==
  ASSUME LexInv, NEW f \in Files, Include(f)
  PROVE  LexInv' /\ Frozen
<1> USE DEF LexInv
<1> DEFINE x == Frame(f, frames + 1)
<1>1. /\ stack' = <<x>> \o stack /\ x \in Frames /\ x.file = f /\ x.id = frames + 1
      /\ stack \in Seq(Frames) /\ stack # <<>> /\ frames \in Nat /\ frames' = frames + 1
      /\ frames <= MaxIncludes
  BY DEF Include, Frame, Frames, StackInv
<1>2. stack[1] = Head(stack)
  <2> HIDE DEF Frames
  <2>1. QED
    BY <1>1, Popped
<1>3. /\ stack' \in Seq(Frames) /\ stack' # <<>>
      /\ Len(stack) \in Nat /\ DOMAIN stack = 1 .. Len(stack)
      /\ DOMAIN stack' = 1 .. (Len(stack) + 1) /\ Len(stack') = Len(stack) + 1
      /\ stack'[1] = x /\ \A i \in 1 .. Len(stack) : stack'[i + 1] = stack[i]
  <2> HIDE DEF x, Frames
  <2>1. QED
    BY <1>1, Pushed
<1>4. /\ \A i \in DOMAIN stack : 1 <= stack[i].id /\ stack[i].id <= frames
      /\ \A i \in DOMAIN stack : stack[i].id \in Nat
  <2>1. \A i \in DOMAIN stack : stack[i] \in Frames
    <3> HIDE DEF Frames
    <3>1. QED
      BY <1>1
  <2>2. QED
    BY <2>1 DEF StackInv, Frames
<1> HIDE DEF x
<1>5. curFile' \in Files /\ Belongs(stack', 1, curFile')
  <2>1. curFile' = (IF f \in DefFiles THEN curFile ELSE f) /\ curFile \in Files
        /\ Belongs(stack, 1, curFile)
    BY <1>1 DEF Include, FileChanged, StackInv
  <2>2. QED
    BY <1>1, <2>1, BelongsOnTop
<1>6. StackInv'
  <2>1. \A i \in DOMAIN stack' : 1 <= stack'[i].id /\ stack'[i].id <= frames'
    <3>1. ASSUME NEW i \in DOMAIN stack', i # 1
          PROVE  i - 1 \in DOMAIN stack /\ stack'[i] = stack[i - 1]
      BY <1>3, <3>1
    <3>2. QED
      BY <1>1, <1>3, <1>4, <3>1
  <2>2. ASSUME NEW i \in DOMAIN stack', NEW j \in DOMAIN stack', i < j
        PROVE  stack'[i].id > stack'[j].id
    <3>1. j - 1 \in DOMAIN stack /\ stack'[j] = stack[j - 1]
      BY <1>3, <2>2
    <3>2. CASE i = 1
      BY <1>1, <1>3, <1>4, <3>1, <3>2
    <3>3. CASE i # 1
      <4>1. i - 1 \in DOMAIN stack /\ stack'[i] = stack[i - 1] /\ i - 1 < j - 1
        BY <1>3, <2>2, <3>3
      <4>2. QED
        BY <3>1, <4>1 DEF StackInv
    <3>4. QED
      BY <3>2, <3>3
  <2>3. ASSUME NEW i \in DOMAIN stack', i < Len(stack'), stack'[i + 1].file \in DefFiles
        PROVE  stack'[i].file \in DefFiles
    <3>1. i \in DOMAIN stack /\ stack'[i + 1] = stack[i]
      BY <1>3, <2>3
    <3>2. CASE i = 1
      BY <1>1, <1>2, <1>3, <2>3, <3>1, <3>2 DEF Include
    <3>3. CASE i # 1
      <4>1. i - 1 \in DOMAIN stack /\ stack'[i] = stack[i - 1] /\ i - 1 < Len(stack)
            /\ stack[(i - 1) + 1] = stack[i]
        BY <1>3, <3>1, <3>3
      <4>2. QED
        BY <2>3, <3>1, <4>1 DEF StackInv
    <3>4. QED
      BY <3>2, <3>3
  <2>4. stack' \in Seq(Frames) /\ frames' \in Nat
    BY <1>1, <1>3
  <2>5. \A i, j \in DOMAIN stack' : i < j => stack'[i].id > stack'[j].id
    BY <2>2
  <2>6. \A i \in DOMAIN stack' :
          i < Len(stack') /\ stack'[i + 1].file \in DefFiles => stack'[i].file \in DefFiles
    BY <2>3
  <2>7. QED
    BY <1>5, <2>1, <2>4, <2>5, <2>6 DEF StackInv
<1>7. /\ read' = read \cup {f} /\ firstTU' = [firstTU EXCEPT ![f] = IF @ = 0 THEN tu ELSE @]
      /\ UNCHANGED <<tu, metrics, truth, processed, units, tokens, lexer>>
      /\ tu \in Nat /\ tu >= 1 /\ firstTU \in [Files -> Nat] /\ read \subseteq Files
  BY <1>1 DEF Include, Meet, ReadInv
<1>8. \A g \in Files : firstTU[g] # 0 => firstTU'[g] = firstTU[g]
  BY <1>7
<1>9. ReadInv'
  <2>1. /\ firstTU' \in [Files -> Nat]
        /\ \A g \in Files : /\ firstTU'[g] <= tu
                            /\ (firstTU'[g] = tu => g \in read') /\ (g \in read' => firstTU'[g] # 0)
                            /\ firstTU[g] # 0 /\ firstTU[g] < tu
                                 <=> firstTU'[g] # 0 /\ firstTU'[g] < tu
    BY <1>1, <1>7 DEF ReadInv
  <2>2. \A i \in DOMAIN stack' : stack'[i].file \in read'
    <3>1. ASSUME NEW i \in DOMAIN stack', i # 1
          PROVE  i - 1 \in DOMAIN stack /\ stack'[i] = stack[i - 1]
      BY <1>3, <3>1
    <3>2. QED
      BY <1>1, <1>3, <1>7, <3>1 DEF ReadInv
  <2>3. processed' = {g \in Files : /\ ShouldIncludeFile(g) /\ firstTU'[g] # 0
                                    /\ firstTU'[g] < tu' \/ stack' = <<>>}
    BY <1>1, <1>3, <1>7, <2>1 DEF ReadInv
  <2>4. QED
    BY <1>1, <1>7, <2>1, <2>2, <2>3 DEF ReadInv, ShouldIncludeFile
<1>10. LexerInv'
  <2>1. ASSUME NEW i \in DOMAIN stack', NEW g \in Files, curFn' # NoFn, stack'[i].id = fnFrame',
               Belongs(stack', i, g)
        PROVE  curUnit' = IF ShouldIncludeFunction(curFn') THEN FunctionUnit(g, curFn') ELSE NoUnit
    <3>1. i # 1
      BY <1>1, <1>3, <1>7, <2>1 DEF LexerInv, lexer
    <3>2. i - 1 \in DOMAIN stack /\ stack'[i] = stack[i - 1] /\ (i - 1) + 1 = i
      BY <1>3, <3>1
    <3>3. Belongs(stack, i - 1, g)
      BY <1>1, <2>1, <3>2, BelongsBelow
    <3>4. QED
      BY <1>7, <2>1, <3>2, <3>3 DEF LexerInv, lexer
  <2>2. fnFrame' \in Nat /\ fnFrame' <= frames' /\ curFn' \in FnNames \cup {NoFn}
    BY <1>1, <1>7 DEF LexerInv, lexer
  <2>3. curUnit' # NoUnit => /\ curUnit' \in Units /\ stack' # <<>>
                             /\ ShouldIncludeFile(curUnit'.file) /\ firstTU'[curUnit'.file] = tu'
    <3>1. \A u \in Units : u.file \in Files
      BY DEF Units
    <3>2. QED
      BY <1>3, <1>7, <1>8, <3>1 DEF LexerInv, lexer
  <2>4. QED
    BY <2>1, <2>2, <2>3 DEF LexerInv, ShouldIncludeFile, ShouldIncludeFunction
<1>11. TypeOK'
  <2>1. frames' \in 0 .. MaxIncludes + 1
    BY <1>1, LexAssumption
  <2>2. fnFrame' \in 0 .. frames'
    BY <1>1, <1>7 DEF TypeOK, lexer
  <2>3. QED
    BY <1>5, <1>7, <2>1, <2>2 DEF TypeOK, lexer
<1>12. QED
  BY <1>6, <1>7, <1>9, <1>10, <1>11 DEF TokensCountedOnce, Frozen

LEMMA ReturnKeeps ==
  ASSUME LexInv, Return
  PROVE  LexInv' /\ Frozen
<1> USE DEF LexInv
<1>1. /\ stack \in Seq(Frames) /\ stack # <<>> /\ Len(stack) > 1 /\ stack' = Tail(stack)
      /\ UNCHANGED <<tu, frames, read, tokens, units, metrics, processed, lexer, firstTU, truth>>
      /\ curFile' = IF stack[2].file \in DefFiles THEN curFile ELSE stack[2].file
  BY DEF Return, StackInv, FileChanged
<1>2. /\ stack' \in Seq(Frames) /\ Len(stack') = Len(stack) - 1 /\ Len(stack) \in Nat
      /\ DOMAIN stack = 1 .. Len(stack) /\ DOMAIN stack' = 1 .. (Len(stack) - 1)
      /\ \A i \in 1 .. (Len(stack) - 1) : stack'[i] = stack[i + 1]
      /\ stack[1] \in Frames /\ stack = <<stack[1]>> \o stack'
  <2> HIDE DEF Frames
  <2>1. QED
    BY <1>1, Popped
<1>3. ASSUME NEW i \in DOMAIN stack', NEW f
      PROVE  Belongs(stack', i, f) <=> Belongs(stack, i + 1, f)
  <2>1. Belongs(<<stack[1]>> \o stack', i + 1, f) <=> Belongs(stack', i, f)
    BY <1>2, BelongsBelow
  <2>2. QED
    BY <1>2, <2>1
<1>4. stack' # <<>> /\ 1 \in DOMAIN stack' /\ stack'[1] = stack[2] /\ 2 \in DOMAIN stack
  BY <1>1, <1>2
<1>5. curFile' \in Files /\ Belongs(stack', 1, curFile')
  <2>1. stack[2].file \in Files
    <3>1. stack[2] \in Frames
      <4> HIDE DEF Frames
      <4>1. QED
        BY <1>1, <1>4
    <3>2. QED
      BY <3>1 DEF Frames
  <2>2. CASE stack[2].file \notin DefFiles
    BY <1>1, <1>2, <1>4, <2>1, <2>2 DEF Belongs
  <2>3. CASE stack[2].file \in DefFiles
    <3>1. curFile' = curFile /\ curFile \in Files /\ Belongs(stack, 1, curFile)
      BY <1>1, <2>3 DEF StackInv
    <3>2. stack[1].file \in DefFiles
      BY <1>1, <1>2, <2>3 DEF StackInv
    <3>3. PICK k \in DOMAIN stack :
            /\ stack[k].file = curFile
            /\ \A j \in DOMAIN stack : 1 <= j /\ j < k => stack[j].file \in DefFiles
      BY <3>1 DEF Belongs
    <3>4. k # 1 /\ k \in Nat /\ k >= 1
      BY <1>2, <3>1, <3>2, <3>3 DEF Belongs
    <3>5. Belongs(stack, 2, curFile)
      BY <1>2, <3>1, <3>3, <3>4 DEF Belongs
    <3>6. QED
      BY <1>3, <1>4, <3>1, <3>5
  <2>4. QED
    BY <2>2, <2>3
<1>6. StackInv'
  <2>1. \A i \in DOMAIN stack' : i + 1 \in DOMAIN stack /\ stack'[i] = stack[i + 1]
    BY <1>2
  <2>2. \A i, j \in DOMAIN stack' : i < j => stack'[i].id > stack'[j].id
    <3>1. \A i, j \in DOMAIN stack' : i < j => i + 1 < j + 1
      BY <1>2
    <3>2. QED
      BY <2>1, <3>1 DEF StackInv
  <2>3. ASSUME NEW i \in DOMAIN stack', i < Len(stack'), stack'[i + 1].file \in DefFiles
        PROVE  stack'[i].file \in DefFiles
    <3>1. /\ i + 1 \in DOMAIN stack /\ i + 1 < Len(stack) /\ stack'[i] = stack[i + 1]
          /\ stack'[i + 1] = stack[(i + 1) + 1]
      BY <1>2, <2>3
    <3>2. QED
      BY <2>3, <3>1 DEF StackInv
  <2>4. frames' = frames
    BY <1>1
  <2>5. QED
    BY <1>2, <1>5, <2>1, <2>2, <2>3, <2>4 DEF StackInv
<1>7. ReadInv'
  BY <1>1, <1>2, <1>4 DEF ReadInv, ShouldIncludeFile
<1>8. LexerInv'
  <2>1. ASSUME NEW i \in DOMAIN stack', NEW g \in Files, curFn # NoFn, stack'[i].id = fnFrame,
               Belongs(stack', i, g)
        PROVE  curUnit = IF ShouldIncludeFunction(curFn) THEN FunctionUnit(g, curFn) ELSE NoUnit
    <3>1. i + 1 \in DOMAIN stack /\ stack'[i] = stack[i + 1] /\ Belongs(stack, i + 1, g)
      BY <1>2, <1>3, <2>1
    <3>2. QED
      BY <2>1, <3>1 DEF LexerInv
  <2>2. UNCHANGED <<curFn, fnFrame, curUnit, tu, frames, firstTU>>
    BY <1>1 DEF lexer
  <2>3. QED
    BY <1>4, <2>1, <2>2 DEF LexerInv, ShouldIncludeFunction, ShouldIncludeFile
<1>9. TypeOK'
  BY <1>1, <1>5 DEF TypeOK, lexer
<1>10. QED
  BY <1>1, <1>6, <1>7, <1>8, <1>9 DEF TokensCountedOnce, Frozen
-----------------------------------------------------------------------------
(* Leaving a unit. *)

\* CloseOutFnOrMtd() replaces the sets of the current unit and nothing else.
LEMMA CloseOutKeeps ==
  ASSUME LexInv
  PROVE  /\ CloseOut \in [Units -> MetricSets]
         /\ \A u \in Units : /\ CloseOut[u].tokens = metrics[u].tokens
                             /\ u # curUnit => CloseOut[u] = metrics[u]
<1>1. metrics \in [Units -> MetricSets]
  BY DEF LexInv, TypeOK, MetricSets
<1>2. CASE curUnit = NoUnit
  BY <1>1, <1>2 DEF CloseOut
<1>3. CASE curUnit # NoUnit
  <2>1. /\ curUnit \in Units /\ metrics[curUnit] \in MetricSets
        /\ ids \in SUBSET Identifiers /\ bodyIds \in SUBSET Identifiers
    BY <1>1, <1>3 DEF LexInv, LexerInv, TypeOK
  <2>2. CloseOut = [metrics EXCEPT ![curUnit] =
                      [metrics[curUnit] EXCEPT !.ids = ids, !.bodyIds = bodyIds]]
    BY <1>1, <1>3, <2>1 DEF CloseOut, MetricSets
  <2>3. /\ [metrics[curUnit] EXCEPT !.ids = ids, !.bodyIds = bodyIds] \in MetricSets
        /\ [metrics[curUnit] EXCEPT !.ids = ids, !.bodyIds = bodyIds].tokens
             = metrics[curUnit].tokens
    BY <2>1 DEF MetricSets
  <2>4. QED
    BY <1>1, <2>1, <2>2, <2>3
<1>4. QED
  BY <1>2, <1>3

LEMMA EndKeeps ==
  ASSUME LexInv, EndTU
  PROVE  LexInv' /\ Frozen
<1> USE DEF LexInv
<1>0. stack # <<>>
  BY DEF EndTU
<1>1. /\ stack # <<>> /\ stack' = <<>> /\ metrics' = CloseOut
      /\ ids' = {} /\ bodyIds' = {} /\ curUnit' = NoUnit /\ curFn' = NoFn
      /\ processed' = processed \cup {f \in read : ShouldIncludeFile(f)}
      /\ UNCHANGED <<tu, frames, read, tokens, curFile, fnFrame, inBody, waiting, firstTU, truth>>
      /\ units' = units \cup {FileUnit(f) : f \in {x \in read : ShouldIncludeFile(x)}}
  BY <1>0 DEF EndTU, Marked
<1>2. /\ CloseOut \in [Units -> MetricSets]
      /\ \A u \in Units : /\ CloseOut[u].tokens = metrics[u].tokens
                          /\ u # curUnit => CloseOut[u] = metrics[u]
  BY CloseOutKeeps
<1>3. StackInv'
  BY <1>1 DEF StackInv
<1>4. ReadInv'
  <2>1. /\ tu \in Nat /\ read \subseteq Files /\ firstTU \in [Files -> Nat]
        /\ \A f \in Files : firstTU[f] <= tu
        /\ \A f \in Files : (firstTU[f] = tu => f \in read) /\ (f \in read => firstTU[f] # 0)
        /\ processed = {f \in Files : ShouldIncludeFile(f) /\ firstTU[f] # 0 /\ firstTU[f] < tu}
        /\ tu >= 1
    BY <1>1 DEF ReadInv
  <2>2. \A f \in Files : firstTU[f] = tu \/ firstTU[f] < tu
    BY <2>1
  <2>3. processed' = {f \in Files : ShouldIncludeFile(f) /\ firstTU[f] # 0}
    BY <1>1, <2>1, <2>2
  <2>4. QED
    BY <1>1, <2>1, <2>3 DEF ReadInv, ShouldIncludeFile
<1>5. LexerInv'
  BY <1>1 DEF LexerInv
<1>6. TypeOK'
  <2>1. units' \subseteq Units /\ processed' \subseteq Files
    BY <1>1 DEF TypeOK, ReadInv, Units, FileUnit
  <2>2. QED
    BY <1>1, <1>2, <2>1 DEF TypeOK, MetricSets
<1>7. Frozen
  <2> SUFFICES ASSUME NEW u \in Units, firstTU[u.file] < tu PROVE u # curUnit
    BY <1>1, <1>2 DEF Frozen
  <2>1. u.file \in Files /\ u # NoUnit
    BY LexAssumption DEF Units, NoUnit
  <2>2. firstTU[u.file] # tu
    BY <2>1 DEF ReadInv
  <2>3. QED
    BY <2>1, <2>2 DEF LexerInv
<1>8. QED
  BY <1>1, <1>2, <1>3, <1>4, <1>5, <1>6, <1>7 DEF TokensCountedOnce
-----------------------------------------------------------------------------
(* Tokens. *)

\* The frame of a token: the innermost one, in function g, in its body or not.
At(g, body) == [Head(stack) EXCEPT !.fn = g, !.body = body]

\* Without a look-up, the current unit is the one that a look-up would give.
LEMMA CacheExact ==
  ASSUME LexInv, stack # <<>>, NEW g \in FnNames \cup {NoFn}, NEW body \in BOOLEAN
  PROVE  ~ LooksUp(At(g, body)) => curUnit = UnitFor(FindFunction(At(g, body)))
<1> USE DEF LexInv
<1> DEFINE fr == At(g, body)
<1>1. /\ stack \in Seq(Frames) /\ 1 \in DOMAIN stack /\ stack[1] = Head(stack)
      /\ Head(stack) \in Frames
  <2>1. stack \in Seq(Frames)
    BY DEF StackInv
  <2> HIDE DEF Frames
  <2>2. QED
    BY <2>1, Popped
<1>2. fr.id = stack[1].id /\ fr.id \in Nat
  BY <1>1 DEF At, Frames
<1>3. /\ fnFrame \in Nat /\ curFn \in FnNames \cup {NoFn}
      /\ curFile \in Files /\ Belongs(stack, 1, curFile)
  BY DEF LexerInv, StackInv
<1> HIDE DEF fr
<1>4. SUFFICES ASSUME ~ LooksUp(fr) PROVE curUnit = UnitFor(FindFunction(fr))
  BY DEF fr
<1>5. curFn # NoFn /\ fr.id = fnFrame /\ FindFunction(fr) = curFn
  BY <1>2, <1>3, <1>4 DEF LooksUp, PastEnd, BeforeStart
<1>6. QED
  BY <1>1, <1>2, <1>3, <1>5 DEF LexerInv, UnitFor

\* A token is counted in one unit.
LEMMA CountAdds ==
  ASSUME NEW m \in MetricSets, NEW t, NEW body \in BOOLEAN
  PROVE  Count(m, t, body) \in MetricSets /\ Count(m, t, body).tokens = m.tokens + 1
<1>1. /\ m.tokens \in Nat /\ m.body \in Nat /\ m.tokens + 1 \in Nat /\ m.body + 1 \in Nat
      /\ m.ids \in SUBSET Identifiers /\ m.bodyIds \in SUBSET Identifiers
      /\ m = [tokens |-> m.tokens, body |-> m.body, ids |-> m.ids, bodyIds |-> m.bodyIds]
  BY DEF MetricSets
<1>2. CASE body /\ t # "brace"
  <2>1. Count(m, t, body) = [m EXCEPT !.tokens = m.tokens + 1, !.body = m.body + 1]
    BY <1>2 DEF Count
  <2>2. Count(m, t, body) = [tokens |-> m.tokens + 1, body |-> m.body + 1,
                             ids |-> m.ids, bodyIds |-> m.bodyIds]
    BY <1>1, <2>1
  <2>3. QED
    BY <1>1, <2>2 DEF MetricSets
<1>3. CASE ~ (body /\ t # "brace")
  <2>1. Count(m, t, body) = [m EXCEPT !.tokens = m.tokens + 1, !.body = m.body]
    BY <1>3 DEF Count
  <2>2. Count(m, t, body) = [tokens |-> m.tokens + 1, body |-> m.body,
                             ids |-> m.ids, bodyIds |-> m.bodyIds]
    BY <1>1, <2>1
  <2>3. QED
    BY <1>1, <2>2 DEF MetricSets
<1>4. QED
  BY <1>2, <1>3

\* What a token does to the lexer, if its file is lexed.
LEMMA LexMoves ==
  ASSUME LexInv, stack # <<>>, NEW g \in FnNames \cup {NoFn}, NEW body \in BOOLEAN,
         NEW t \in Tokens, ShouldIncludeFile(curFile), Lex(At(g, body), t)
  PROVE  LET h == FindFunction(At(g, body)) IN
         /\ h \in FnNames \cup {NoFn} /\ curFn' \in FnNames \cup {NoFn}
         /\ curUnit' = UnitFor(h) /\ curUnit' \in Units \cup {NoUnit}
         /\ \/ UNCHANGED <<curFn, fnFrame, curUnit>>
            \/ curFn' = h /\ fnFrame' = Head(stack).id
         /\ metrics' \in [Units -> MetricSets]
         /\ \A u \in Units :
              /\ metrics'[u].tokens =
                   IF u = curUnit' THEN metrics[u].tokens + 1 ELSE metrics[u].tokens
              /\ u \notin {curUnit, curUnit'} => metrics'[u] = metrics[u]
         /\ {inBody', waiting'} \subseteq BOOLEAN
         /\ ids' \subseteq Identifiers /\ bodyIds' \subseteq ids'
<1> USE DEF LexInv
<1> DEFINE fr == At(g, body)
           h == FindFunction(fr)
           lookup == LooksUp(fr)
           unit == IF lookup THEN UnitFor(h) ELSE curUnit
           closes == lookup /\ (h # NoFn \/ curUnit # unit)
           reached == ~ lookup /\ waiting /\ fr.body
           inside == IF lookup THEN BodyAfterLookup ELSE inBody \/ reached
           closed == IF closes THEN CloseOut ELSE metrics
           set == IF closes THEN EnterFileScope(unit) ELSE ids
           bodySet == IF closes THEN {} ELSE bodyIds
           counts == unit # NoUnit
<1>1. Head(stack) \in Frames
  <2>1. stack \in Seq(Frames)
    BY DEF StackInv
  <2> HIDE DEF Frames
  <2>2. QED
    BY <2>1, Popped
<1>2. fr \in Frames /\ fr.fn = g /\ fr.body = body /\ fr.id = Head(stack).id
  BY <1>1 DEF At, Frames
<1>3. h \in FnNames \cup {NoFn}
  BY <1>2 DEF FindFunction
<1>4. unit = UnitFor(h)
  BY CacheExact
<1>5. unit \in Units \cup {NoUnit}
  BY <1>3, <1>4 DEF UnitFor, Units, FileUnit, FunctionUnit, StackInv
<1>6. /\ curFn' = IF lookup THEN h ELSE curFn
      /\ fnFrame' = IF lookup THEN fr.id ELSE fnFrame
      /\ curUnit' = unit /\ inBody' = inside
      /\ waiting' = IF lookup THEN waiting \/ (h # NoFn /\ counts) ELSE waiting /\ ~ reached
      /\ metrics' = IF counts THEN [closed EXCEPT ![unit] = Count(@, t, inside)] ELSE closed
      /\ ids' = IF counts THEN set \cup InsertIdentifier(t) ELSE set
      /\ bodyIds' = IF counts /\ inside THEN bodySet \cup InsertIdentifier(t) ELSE bodySet
  BY DEF Lex
<1>7. {inside, waiting'} \subseteq BOOLEAN
  BY <1>2, <1>6 DEF TypeOK, BodyAfterLookup
<1>8. /\ closed \in [Units -> MetricSets]
      /\ \A u \in Units : /\ closed[u].tokens = metrics[u].tokens
                          /\ u # curUnit => closed[u] = metrics[u]
  BY CloseOutKeeps DEF TypeOK, MetricSets
<1>9. set \subseteq Identifiers /\ bodySet \subseteq set /\ InsertIdentifier(t) \subseteq Identifiers
  <2>1. EnterFileScope(unit) \subseteq Identifiers
    BY CloseOutKeeps DEF EnterFileScope, MetricSets
  <2>2. QED
    BY <2>1 DEF TypeOK, InsertIdentifier
<1>10. UNCHANGED <<curFn, fnFrame, curUnit>> \/ (curFn' = h /\ fnFrame' = Head(stack).id)
  BY <1>2, <1>6
<1>11. curFn' \in FnNames \cup {NoFn}
  BY <1>3, <1>6 DEF TypeOK
<1> HIDE DEF closed, unit, inside, set, bodySet, h, fr, closes
<1>12. /\ metrics' \in [Units -> MetricSets]
       /\ \A u \in Units :
            /\ metrics'[u].tokens = IF u = unit THEN metrics[u].tokens + 1 ELSE metrics[u].tokens
            /\ u \notin {curUnit, unit} => metrics'[u] = metrics[u]
  <2>1. CASE ~ counts
    <3>1. unit \notin Units
      BY <2>1, LexAssumption DEF Units, NoUnit
    <3>2. QED
      BY <1>6, <1>8, <2>1, <3>1
  <2>2. CASE counts
    <3>1. unit \in Units /\ closed[unit] \in MetricSets
      BY <1>5, <1>8, <2>2
    <3>2. /\ Count(closed[unit], t, inside) \in MetricSets
          /\ Count(closed[unit], t, inside).tokens = closed[unit].tokens + 1
      BY <1>7, <3>1, CountAdds
    <3>3. metrics' = [closed EXCEPT ![unit] = Count(closed[unit], t, inside)]
      BY <1>6, <2>2
    <3> HIDE DEF counts
    <3>4. QED
      BY <1>8, <3>1, <3>2, <3>3
  <2>3. QED
    BY <2>1, <2>2
<1>13. ids' \subseteq Identifiers /\ bodyIds' \subseteq ids'
  BY <1>6, <1>9
<1>14. QED
  BY <1>3, <1>4, <1>5, <1>6, <1>7, <1>10, <1>11, <1>12, <1>13 DEF h, fr

\* What a token should do: it counts in one unit, or in none.
LEMMA TruthMoves ==
  ASSUME LexInv, stack # <<>>, NEW g \in FnNames \cup {NoFn}, NEW body \in BOOLEAN,
         NEW t \in Tokens, Expect(At(g, body), t)
  PROVE  LET h == FindFunction(At(g, body))
             counted == /\ ShouldIncludeFile(curFile) /\ ShouldIncludeFunction(h)
                        /\ firstTU[curFile] = tu
         IN /\ truth' \in [Units -> MetricSets]
            /\ \A u \in Units :
                 truth'[u].tokens = IF counted /\ u = FunctionUnit(curFile, h)
                                    THEN truth[u].tokens + 1 ELSE truth[u].tokens
<1> USE DEF LexInv
<1> DEFINE fr == At(g, body)
           h == FindFunction(fr)
           unit == FunctionUnit(curFile, h)
           m == Count(truth[unit], t, fr.body)
           new == [m EXCEPT !.ids = @ \cup ({t} \cap Identifiers),
                            !.bodyIds = IF fr.body THEN @ \cup ({t} \cap Identifiers) ELSE @]
<1>1. stack \in Seq(Frames) /\ curFile \in Files /\ Belongs(stack, 1, curFile)
  BY DEF StackInv
<1>2. Resolved(stack) = curFile
  BY <1>1, ResolvedBelongs
<1>3. Head(stack) \in Frames
  <2> HIDE DEF Frames
  <2>1. QED
    BY <1>1, Popped
<1>4. fr.fn = g /\ fr.body = body
  BY <1>3 DEF At, Frames
<1>5. h \in FnNames \cup {NoFn} /\ unit \in Units
  BY <1>1, <1>4 DEF FindFunction, FunctionUnit, Units
<1>6. truth' = IF ShouldIncludeFile(curFile) /\ ShouldIncludeFunction(h) /\ firstTU[curFile] = tu
               THEN [truth EXCEPT ![unit] = new] ELSE truth
  BY <1>2 DEF Expect
<1>7. m \in MetricSets /\ m.tokens = truth[unit].tokens + 1
  <2> HIDE DEF unit, fr
  <2>1. truth[unit] \in MetricSets /\ fr.body \in BOOLEAN
    BY <1>4, <1>5
  <2>2. QED
    BY <2>1, CountAdds
<1> HIDE DEF m
<1>8. new \in MetricSets /\ new.tokens = truth[unit].tokens + 1
  BY <1>7 DEF MetricSets
<1> HIDE DEF new, unit, h, fr
<1>9. QED
  BY <1>5, <1>6, <1>8 DEF fr, h, unit

\* A token changes what its frame says of functions; what the frames belong to stays.
LEMMA Relabelled ==
  ASSUME NEW s \in Seq(Frames), s # <<>>, NEW x \in Frames,
         x.file = Head(s).file, x.id = Head(s).id
  PROVE  LET p == <<x>> \o Tail(s) IN
         /\ p \in Seq(Frames) /\ p # <<>> /\ Len(p) = Len(s) /\ DOMAIN p = DOMAIN s
         /\ \A i \in DOMAIN s : p[i].file = s[i].file /\ p[i].id = s[i].id
         /\ \A i, f : Belongs(p, i, f) <=> Belongs(s, i, f)
<1> DEFINE p == <<x>> \o Tail(s)
<1>1. /\ Tail(s) \in Seq(Frames) /\ s[1] = Head(s) /\ Len(s) \in Nat /\ Len(s) > 0
      /\ DOMAIN s = 1 .. Len(s) /\ Len(Tail(s)) = Len(s) - 1
      /\ \A i \in 1 .. (Len(s) - 1) : Tail(s)[i] = s[i + 1]
  <2> HIDE DEF Frames
  <2>1. QED
    BY Popped
<1>2. /\ p \in Seq(Frames) /\ p # <<>> /\ DOMAIN p = 1 .. (Len(Tail(s)) + 1) /\ p[1] = x
      /\ \A i \in 1 .. Len(Tail(s)) : p[i + 1] = Tail(s)[i]
  <2> HIDE DEF Frames
  <2>1. QED
    BY <1>1, Pushed
<1>3. Len(p) = Len(s) /\ DOMAIN p = DOMAIN s
  <2>1. Len(p) = Len(Tail(s)) + 1
    BY <1>1, <1>2
  <2>2. QED
    BY <1>1, <1>2, <2>1
<1> HIDE DEF p
<1>4. ASSUME NEW i \in DOMAIN s PROVE p[i].file = s[i].file /\ p[i].id = s[i].id
  <2>1. CASE i = 1
    BY <1>1, <1>2, <2>1
  <2>2. CASE i # 1
    <3>1. i - 1 \in 1 .. (Len(s) - 1) /\ (i - 1) + 1 = i
      BY <1>1, <2>2
    <3>2. QED
      BY <1>1, <1>2, <3>1
  <2>3. QED
    BY <2>1, <2>2
<1>5. \A i, f : Belongs(p, i, f) <=> Belongs(s, i, f)
  BY <1>3, <1>4 DEF Belongs
<1>6. QED
  BY <1>2, <1>3, <1>4, <1>5 DEF p

LEMMA TokenKeeps ==
  ASSUME LexInv, NEW g \in FnNames \cup {NoFn}, NEW body \in BOOLEAN, NEW t \in Tokens,
         LexToken(g, body, t)
  PROVE  LexInv' /\ Frozen
<1> USE DEF LexInv
<1> DEFINE fr == At(g, body)
           h == FindFunction(fr)
           included == ShouldIncludeFile(curFile)
           unit == FunctionUnit(curFile, h)
           fresh == included /\ firstTU[curFile] = tu
<1>1. /\ stack # <<>> /\ tokens < MaxTokens /\ tokens' = tokens + 1
      /\ stack' = <<fr>> \o Tail(stack)
      /\ Expect(fr, t)
      /\ \/ included /\ curFile \notin processed /\ Lex(fr, t)
         \/ (included => curFile \in processed) /\ Skip
      /\ units' = units \cup (IF included THEN {FileUnit(curFile)} ELSE {})
           \cup (IF included /\ curFile \notin processed THEN {curUnit'} \ {NoUnit} ELSE {})
      /\ UNCHANGED <<tu, frames, read, processed, curFile, firstTU>>
  BY DEF LexToken, At
<1>2. /\ stack \in Seq(Frames) /\ frames \in Nat
      /\ curFile \in Files /\ Belongs(stack, 1, curFile)
  BY <1>1 DEF StackInv
<1>3. Head(stack) \in Frames /\ stack[1] = Head(stack) /\ 1 \in DOMAIN stack
  <2> HIDE DEF Frames
  <2>1. QED
    BY <1>1, <1>2, Popped
<1>4. /\ fr \in Frames /\ fr.file = Head(stack).file /\ fr.id = Head(stack).id
      /\ Head(stack).id \in Nat /\ fr.fn = g
  BY <1>3 DEF At, Frames
<1>5. /\ stack' \in Seq(Frames) /\ stack' # <<>> /\ Len(stack') = Len(stack)
      /\ DOMAIN stack' = DOMAIN stack
      /\ \A i \in DOMAIN stack : stack'[i].file = stack[i].file /\ stack'[i].id = stack[i].id
      /\ \A i, f : Belongs(stack', i, f) <=> Belongs(stack, i, f)
  <2> HIDE DEF fr, Frames
  <2>1. QED
    BY <1>1, <1>2, <1>4, Relabelled
<1>6. StackInv'
  <2>1. ASSUME NEW i \in DOMAIN stack', i < Len(stack'), stack'[i + 1].file \in DefFiles
        PROVE  stack'[i].file \in DefFiles
    <3>1. i + 1 \in DOMAIN stack
      BY <1>2, <1>5, <2>1
    <3>2. QED
      BY <1>5, <2>1, <3>1 DEF StackInv
  <2>2. QED
    BY <1>1, <1>2, <1>5, <2>1 DEF StackInv
<1>7. ReadInv'
  BY <1>1, <1>5 DEF ReadInv, ShouldIncludeFile
<1>8. fresh <=> included /\ curFile \notin processed
  <2>1. curFile \in read
    BY <1>2 DEF Belongs, ReadInv
  <2>2. firstTU[curFile] # 0 /\ firstTU[curFile] <= tu /\ firstTU[curFile] \in Nat /\ tu \in Nat
    BY <1>1, <1>2, <2>1 DEF ReadInv
  <2>3. curFile \in processed <=> included /\ firstTU[curFile] < tu
    BY <1>1, <1>2, <2>2 DEF ReadInv
  <2>4. QED
    BY <2>2, <2>3
<1>9. h \in FnNames \cup {NoFn} /\ unit \in Units
  BY <1>2, <1>4 DEF FindFunction, FunctionUnit, Units
<1>10. /\ UnitFor(h) = IF ShouldIncludeFunction(h) THEN unit ELSE NoUnit
       /\ NoUnit \notin Units
  BY LexAssumption DEF UnitFor, FileUnit, FunctionUnit, ShouldIncludeFunction, NoUnit, Units
<1>11. /\ truth' \in [Units -> MetricSets]
       /\ \A u \in Units :
            truth'[u].tokens = IF fresh /\ ShouldIncludeFunction(h) /\ u = unit
                               THEN truth[u].tokens + 1 ELSE truth[u].tokens
  BY <1>1, TruthMoves
<1>12. \A u \in Units : firstTU[u.file] < tu => u # curUnit
  BY <1>10 DEF LexerInv, ReadInv
<1>13. tokens' \in 0 .. MaxTokens
  BY <1>1, LexAssumption DEF TypeOK
<1>14. CASE ~ fresh
  <2>1. UNCHANGED <<metrics, curFn, fnFrame, curUnit, inBody, waiting, ids, bodyIds>>
    BY <1>1, <1>8, <1>14 DEF Skip, lexer
  <2>2. LexerInv'
    BY <1>1, <1>5, <2>1 DEF LexerInv, ShouldIncludeFile, ShouldIncludeFunction
  <2>3. units' \subseteq Units /\ units \subseteq units'
    BY <1>1, <1>2, <1>8, <1>14 DEF TypeOK, Units, FileUnit
  <2>4. TypeOK'
    BY <1>1, <1>13, <2>1, <2>3 DEF TypeOK
  <2>5. TokensCountedOnce' /\ Frozen
    BY <1>11, <1>14, <2>1 DEF TokensCountedOnce, Frozen
  <2>6. QED
    BY <1>6, <1>7, <1>11, <2>2, <2>4, <2>5
<1>15. CASE fresh
  <2>1. included /\ Lex(fr, t)
    BY <1>1, <1>8, <1>15
  <2>2. /\ curFn' \in FnNames \cup {NoFn}
        /\ curUnit' = UnitFor(h) /\ curUnit' \in Units \cup {NoUnit}
        /\ \/ UNCHANGED <<curFn, fnFrame, curUnit>>
           \/ curFn' = h /\ fnFrame' = Head(stack).id
        /\ metrics' \in [Units -> MetricSets]
        /\ \A u \in Units :
             /\ metrics'[u].tokens =
                  IF u = curUnit' THEN metrics[u].tokens + 1 ELSE metrics[u].tokens
             /\ u \notin {curUnit, curUnit'} => metrics'[u] = metrics[u]
        /\ {inBody', waiting'} \subseteq BOOLEAN
        /\ ids' \subseteq Identifiers /\ bodyIds' \subseteq ids'
    BY <1>1, <2>1, LexMoves
  <2>3. curUnit' = IF ShouldIncludeFunction(h) THEN unit ELSE NoUnit
    BY <1>10, <2>2
  <2>4. unit.file = curFile
    BY DEF FunctionUnit
  <2>5. fnFrame' \in 0 .. frames
    <3>1. Head(stack).id <= frames /\ fnFrame \in 0 .. frames
      BY <1>3 DEF StackInv, TypeOK
    <3>2. QED
      BY <1>2, <1>4, <2>2, <3>1
  <2> HIDE DEF unit, h, fr, fresh, included
  <2>6. LexerInv'
    <3>1. ASSUME NEW i \in DOMAIN stack', NEW f \in Files, curFn' # NoFn,
                 stack'[i].id = fnFrame', Belongs(stack', i, f)
          PROVE  curUnit' = IF ShouldIncludeFunction(curFn') THEN FunctionUnit(f, curFn') ELSE NoUnit
      <4>1. stack[i].id = fnFrame' /\ Belongs(stack, i, f) /\ i \in DOMAIN stack
        BY <1>5, <3>1
      <4>2. CASE UNCHANGED <<curFn, fnFrame, curUnit>>
        BY <3>1, <4>1, <4>2 DEF LexerInv
      <4>3. CASE curFn' = h /\ fnFrame' = Head(stack).id
        <5>1. i = 1
          <6>1. i \in Nat /\ i >= 1
            BY <1>2, <4>1
          <6>2. ~ (1 < i)
            BY <1>3, <1>4, <4>1, <4>3 DEF StackInv
          <6>3. QED
            BY <6>1, <6>2
        <5>2. f = curFile
          BY <1>2, <4>1, <5>1, BelongsToOne
        <5>3. QED
          BY <2>3, <4>3, <5>2 DEF unit
      <4>4. QED
        BY <2>2, <4>2, <4>3
    <3>2. curUnit' # NoUnit => /\ curUnit' \in Units /\ stack' # <<>>
                               /\ ShouldIncludeFile(curUnit'.file) /\ firstTU'[curUnit'.file] = tu'
      BY <1>1, <1>5, <1>15, <2>1, <2>2, <2>3, <2>4 DEF fresh, included
    <3>3. fnFrame' \in Nat /\ fnFrame' <= frames'
      BY <1>1, <1>2, <2>5
    <3>4. QED
      BY <2>2, <3>1, <3>2, <3>3 DEF LexerInv, ShouldIncludeFile, ShouldIncludeFunction
  <2>7. TypeOK'
    <3>1. units' \subseteq Units /\ curUnit' \in units' \cup {NoUnit}
      <4>1. FileUnit(curFile) \in Units
        BY <1>2 DEF FileUnit, Units
      <4>2. units' = units \cup {FileUnit(curFile)} \cup ({curUnit'} \ {NoUnit})
        BY <1>1, <1>8, <1>15 DEF included
      <4>3. QED
        BY <2>2, <4>1, <4>2 DEF TypeOK
    <3>2. QED
      BY <1>1, <1>13, <2>2, <2>5, <3>1 DEF TypeOK, MetricSets
  <2>8. TokensCountedOnce'
    BY <1>10, <1>11, <1>15, <2>2, <2>3 DEF TokensCountedOnce
  <2>9. Frozen
    <3> SUFFICES ASSUME NEW u \in Units, firstTU[u.file] < tu PROVE metrics'[u] = metrics[u]
      BY <1>1 DEF Frozen
    <3>1. u # curUnit
      BY <1>12
    <3>2. u # curUnit'
      BY <1>2, <1>10, <1>15, <2>3, <2>4 DEF fresh, ReadInv
    <3>3. QED
      BY <2>2, <3>1, <3>2
  <2>10. QED
    BY <1>6, <1>7, <1>11, <2>6, <2>7, <2>8, <2>9
<1>16. QED
  BY <1>14, <1>15

LEMMA IdleKeeps ==
  ASSUME LexInv, UNCHANGED vars
  PROVE  LexInv' /\ Frozen
<1>1. UNCHANGED <<tu, stack, frames, read, tokens, units, metrics, processed, curFile, curFn,
                  fnFrame, curUnit, inBody, waiting, ids, bodyIds, firstTU, truth>>
  BY DEF vars, program, lexer
<1>2. TypeOK' /\ TokensCountedOnce' /\ Frozen
  BY <1>1 DEF LexInv, TypeOK, TokensCountedOnce, Frozen
<1>3. StackInv' /\ ReadInv' /\ LexerInv'
  BY <1>1 DEF LexInv, StackInv, ReadInv, LexerInv, ShouldIncludeFile, ShouldIncludeFunction
<1>4. QED
  BY <1>1, <1>2, <1>3 DEF LexInv

LEMMA LexStep ==
  ASSUME LexInv, [Next]_vars
  PROVE  LexInv' /\ Frozen
<1>1. CASE \E f \in Mains : StartTU(f)
  BY <1>1, StartKeeps
<1>2. CASE \E f \in Files : Include(f)
  BY <1>2, IncludeKeeps
<1>3. CASE Return
  BY <1>3, ReturnKeeps
<1>4. CASE \E g \in FnNames \cup {NoFn}, body \in BOOLEAN, t \in Tokens : LexToken(g, body, t)
  BY <1>4, TokenKeeps
<1>5. CASE EndTU
  BY <1>5, EndKeeps
<1>6. CASE UNCHANGED vars
  BY <1>6, IdleKeeps
<1>7. QED
  BY <1>1, <1>2, <1>3, <1>4, <1>5, <1>6 DEF Next
-----------------------------------------------------------------------------
(* What is known of identifiers and of bodies. *)

\* A frame is in at most one function, which is met, and only one frame of the stack is
\* in a function.
FrameInv ==
  /\ \A i \in DOMAIN stack : IF stack[i].fn = NoFn THEN ~ stack[i].body
                             ELSE stack[i].fn \in defined
  /\ \A i, j \in DOMAIN stack : stack[i].fn # NoFn /\ stack[j].fn # NoFn => i = j

\* Is file f lexed in this translation unit?
Fresh(f) == ShouldIncludeFile(f) /\ firstTU[f] = tu

\* As long as a frame is in a function that no other file interrupts, the last look-up was
\* for that function, in that frame.
HeldInv ==
  \A i \in DOMAIN stack, f \in Files :
    LET h == FindFunction(stack[i]) IN
    h # NoFn /\ Belongs(stack, i, f) /\ Fresh(f) /\ FunctionUnit(f, h) \notin split
      => curFn = h /\ fnFrame = stack[i].id

\* As long as the frame of the last look-up is on the stack, it is in the function found,
\* and the lexer is in the body, or waits for it, and is not in it too early.
FlagInv ==
  \A i \in DOMAIN stack :
    curFn # NoFn /\ curUnit # NoUnit /\ stack[i].id = fnFrame
      => /\ stack[i].fn = curFn /\ (inBody \/ waiting)
         /\ inBody => stack[i].body

NothingKnown(m) == m.body = 0 /\ m.ids = {} /\ m.bodyIds = {}

\* Has no token been found in function g in this translation unit?
Unbegun(g) ==
  \/ g \notin defined
  \/ \E i \in DOMAIN stack : stack[i].fn = g /\ FindFunction(stack[i]) = NoFn

\* A function begins with nothing, and a file has no body.
BlankInv ==
  /\ \A f \in Files, g \in FnNames :
       firstTU[f] = 0 \/ (firstTU[f] = tu /\ Unbegun(g))
         => NothingKnown(truth[FunctionUnit(f, g)])
  /\ \A f \in Files : truth[FileUnit(f)].body = 0 /\ truth[FileUnit(f)].bodyIds = {}

DataInv == FrameInv /\ HeldInv /\ FlagInv /\ BlankInv /\ IdentifierSetsExact /\ BodyExact

LEMMA DataInit == Init => DataInv
<1> SUFFICES ASSUME Init PROVE DataInv
  OBVIOUS
<1>1. stack = <<>> /\ curFn = NoFn /\ curUnit = NoUnit /\ truth = metrics /\ DOMAIN stack = {}
  BY DEF Init
<1>2. \A u \in Units : metrics[u] = NoMetrics /\ u # NoUnit
  BY LexAssumption DEF Init, Units, NoUnit
<1>3. \A f \in Files, g \in FnNames : FunctionUnit(f, g) \in Units /\ FileUnit(f) \in Units
  BY DEF FunctionUnit, FileUnit, Units
<1>4. FrameInv /\ HeldInv /\ FlagInv
  BY <1>1 DEF FrameInv, HeldInv, FlagInv
<1>5. BlankInv
  BY <1>1, <1>2, <1>3 DEF BlankInv, NothingKnown, NoMetrics, Units, FileUnit
<1>6. IdentifierSetsExact /\ BodyExact
  BY <1>1, <1>2 DEF IdentifierSetsExact, BodyExact, Known, KnownInBody
<1>7. QED
  BY <1>4, <1>5, <1>6 DEF DataInv

LEMMA StartData ==
  ASSUME LexInv, DataInv, NEW f \in Mains, StartTU(f)
  PROVE  DataInv'
<1>1. /\ stack = <<>> /\ curUnit = NoUnit /\ curUnit' = NoUnit /\ curFn' = NoFn
      /\ defined' = {} /\ tu' = tu + 1 /\ UNCHANGED <<metrics, truth, split>>
      /\ stack' = <<Frame(f, 1)>>
      /\ firstTU' = [firstTU EXCEPT ![f] = IF @ = 0 THEN tu + 1 ELSE @]
  BY DEF StartTU, Meet, LexInv, LexerInv
<1>2. DOMAIN stack' = {1} /\ stack'[1].fn = NoFn /\ ~ stack'[1].body
  BY <1>1 DEF Frame
<1>3. FrameInv' /\ FlagInv'
  BY <1>1, <1>2 DEF FrameInv, FlagInv
<1>4. HeldInv'
  BY <1>2 DEF HeldInv, FindFunction
<1>5. BlankInv'
  <2>1. \A e \in Files : /\ firstTU[e] \in Nat /\ firstTU[e] <= tu /\ tu \in Nat
                         /\ firstTU'[e] = 0 \/ firstTU'[e] = tu + 1 => firstTU[e] = 0
    BY <1>1 DEF LexInv, ReadInv
  <2>2. QED
    BY <1>1, <2>1 DEF DataInv, BlankInv, NothingKnown
<1>6. \A u \in Units : u # NoUnit
  BY LexAssumption DEF Units, NoUnit
<1>7. IdentifierSetsExact' /\ BodyExact'
  BY <1>1, <1>6 DEF DataInv, IdentifierSetsExact, BodyExact, Known, KnownInBody
<1>8. QED
  BY <1>3, <1>4, <1>5, <1>7 DEF DataInv

LEMMA IncludeData ==
  ASSUME LexInv, DataInv, NEW f \in Files, Include(f)
  PROVE  DataInv'
<1> USE DEF LexInv
<1> DEFINE x == Frame(f, frames + 1)
<1>1. /\ stack' = <<x>> \o stack /\ x \in Frames /\ x.id = frames + 1 /\ x.fn = NoFn /\ ~ x.body
      /\ stack \in Seq(Frames) /\ stack # <<>> /\ frames \in Nat
      /\ UNCHANGED <<tu, defined, metrics, truth, split, curFn, fnFrame, curUnit, inBody, waiting,
                     ids, bodyIds>>
      /\ firstTU' = [firstTU EXCEPT ![f] = IF @ = 0 THEN tu ELSE @]
  BY DEF Include, Frame, Frames, StackInv, lexer, Meet
<1>2. /\ Len(stack) \in Nat /\ DOMAIN stack = 1 .. Len(stack)
      /\ DOMAIN stack' = 1 .. (Len(stack) + 1)
      /\ stack'[1] = x /\ \A i \in 1 .. Len(stack) : stack'[i + 1] = stack[i]
  <2> HIDE DEF x, Frames
  <2>1. QED
    BY <1>1, Pushed
<1> HIDE DEF x
<1>3. ASSUME NEW i \in DOMAIN stack', i # 1
      PROVE  i - 1 \in DOMAIN stack /\ stack'[i] = stack[i - 1] /\ (i - 1) + 1 = i
  BY <1>2, <1>3
<1>4. \A g \in Files : /\ firstTU'[g] = 0 => firstTU[g] = 0
                       /\ firstTU'[g] = tu => firstTU[g] = 0 \/ firstTU[g] = tu
                       /\ firstTU[g] # 0 => firstTU'[g] = firstTU[g]
  BY <1>1 DEF ReadInv
<1>5. FrameInv'
  <2>1. \A i \in DOMAIN stack' : IF stack'[i].fn = NoFn THEN ~ stack'[i].body
                                 ELSE stack'[i].fn \in defined
    BY <1>1, <1>2, <1>3 DEF DataInv, FrameInv
  <2>2. ASSUME NEW i \in DOMAIN stack', NEW j \in DOMAIN stack',
               stack'[i].fn # NoFn, stack'[j].fn # NoFn
        PROVE  i = j
    <3>1. i # 1 /\ j # 1
      BY <1>1, <1>2, <2>2
    <3>2. i - 1 = j - 1
      BY <1>3, <2>2, <3>1 DEF DataInv, FrameInv
    <3>3. QED
      BY <1>2, <2>2, <3>2
  <2>3. QED
    BY <1>1, <2>1, <2>2 DEF FrameInv
<1>6. HeldInv'
  <2> SUFFICES ASSUME NEW i \in DOMAIN stack', NEW g \in Files,
                      FindFunction(stack'[i]) # NoFn, Belongs(stack', i, g), Fresh(g)',
                      FunctionUnit(g, FindFunction(stack'[i])) \notin split
               PROVE  curFn = FindFunction(stack'[i]) /\ fnFrame = stack'[i].id
    BY <1>1 DEF HeldInv, FindFunction
  <2>1. i # 1
    BY <1>1, <1>2 DEF FindFunction
  <2>2. i - 1 \in DOMAIN stack /\ stack'[i] = stack[i - 1] /\ Belongs(stack, i - 1, g)
    BY <1>1, <1>3, <2>1, BelongsBelow
  <2>3. g \in read /\ firstTU[g] # 0
    BY <1>1, <2>2 DEF Belongs, ReadInv
  <2>4. Fresh(g)
    BY <1>1, <1>4, <2>3 DEF Fresh, ShouldIncludeFile
  <2>5. QED
    BY <2>2, <2>4 DEF DataInv, HeldInv
<1>7. FlagInv'
  <2>1. fnFrame <= frames /\ fnFrame \in Nat
    BY DEF LexerInv
  <2>2. \A i \in DOMAIN stack' : stack'[i].id = fnFrame => i # 1
    BY <1>1, <1>2, <2>1
  <2>3. QED
    BY <1>1, <1>3, <2>2 DEF DataInv, FlagInv
<1>8. BlankInv'
  <2>1. ASSUME NEW g \in FnNames, NEW i \in DOMAIN stack', stack'[i].fn = g
        PROVE  i - 1 \in DOMAIN stack /\ stack'[i] = stack[i - 1]
    <3>1. g # NoFn
      BY LexAssumption
    <3>2. QED
      BY <1>1, <1>2, <1>3, <2>1, <3>1
  <2>2. \A g \in FnNames : Unbegun(g)' => Unbegun(g)
    BY <1>1, <2>1 DEF Unbegun, FindFunction
  <2>3. QED
    BY <1>1, <1>4, <2>2 DEF DataInv, BlankInv, NothingKnown
<1>9. IdentifierSetsExact' /\ BodyExact'
  BY <1>1 DEF DataInv, IdentifierSetsExact, BodyExact, Known, KnownInBody
<1>10. QED
  BY <1>5, <1>6, <1>7, <1>8, <1>9 DEF DataInv

LEMMA ReturnData ==
  ASSUME LexInv, DataInv, Return
  PROVE  DataInv'
<1> USE DEF LexInv
<1>1. /\ stack \in Seq(Frames) /\ stack # <<>> /\ Len(stack) > 1 /\ stack' = Tail(stack)
      /\ UNCHANGED <<tu, defined, metrics, truth, split, curFn, fnFrame, curUnit, inBody, waiting,
                     ids, bodyIds, firstTU>>
  BY DEF Return, StackInv, lexer
<1>2. /\ Len(stack) \in Nat /\ DOMAIN stack = 1 .. Len(stack)
      /\ DOMAIN stack' = 1 .. (Len(stack) - 1) /\ stack' \in Seq(Frames)
      /\ \A i \in 1 .. (Len(stack) - 1) : stack'[i] = stack[i + 1]
      /\ stack[1] \in Frames /\ stack = <<stack[1]>> \o stack'
  <2> HIDE DEF Frames
  <2>1. QED
    BY <1>1, Popped
<1>3. ASSUME NEW i \in DOMAIN stack'
      PROVE  i + 1 \in DOMAIN stack /\ stack'[i] = stack[i + 1]
  BY <1>2
<1>4. FrameInv'
  <2>1. ASSUME NEW i \in DOMAIN stack', NEW j \in DOMAIN stack',
               stack'[i].fn # NoFn, stack'[j].fn # NoFn
        PROVE  i = j
    <3>1. i + 1 = j + 1
      BY <1>3, <2>1 DEF DataInv, FrameInv
    <3>2. QED
      BY <1>2, <3>1
  <2>2. QED
    BY <1>1, <1>3, <2>1 DEF DataInv, FrameInv
<1>5. HeldInv'
  <2> SUFFICES ASSUME NEW i \in DOMAIN stack', NEW g \in Files,
                      FindFunction(stack'[i]) # NoFn, Belongs(stack', i, g), Fresh(g),
                      FunctionUnit(g, FindFunction(stack'[i])) \notin split
               PROVE  curFn = FindFunction(stack'[i]) /\ fnFrame = stack'[i].id
    BY <1>1 DEF HeldInv, FindFunction, Fresh, ShouldIncludeFile
  <2>1. Belongs(<<stack[1]>> \o stack', i + 1, g)
    BY <1>2, BelongsBelow
  <2>2. Belongs(stack, i + 1, g)
    BY <1>2, <2>1
  <2>3. QED
    BY <1>3, <2>2 DEF DataInv, HeldInv
<1>6. FlagInv'
  BY <1>1, <1>3 DEF DataInv, FlagInv
<1>7. BlankInv'
  <2>1. \A g \in FnNames : Unbegun(g)' => Unbegun(g)
    BY <1>1, <1>3 DEF Unbegun, FindFunction
  <2>2. QED
    BY <1>1, <2>1 DEF DataInv, BlankInv, NothingKnown
<1>8. IdentifierSetsExact' /\ BodyExact'
  BY <1>1 DEF DataInv, IdentifierSetsExact, BodyExact, Known, KnownInBody
<1>9. QED
  BY <1>4, <1>5, <1>6, <1>7, <1>8 DEF DataInv

\* CloseOutFnOrMtd() stores the sets of the current unit: nothing that is known is lost.
LEMMA CloseOutKnown ==
  ASSUME LexInv
  PROVE  \A u \in Units : /\ CloseOut[u].ids = Known(u) /\ CloseOut[u].bodyIds = KnownInBody(u)
                          /\ CloseOut[u].body = metrics[u].body
<1>1. metrics \in [Units -> MetricSets] /\ NoUnit \notin Units
  BY LexAssumption DEF LexInv, TypeOK, MetricSets, NoUnit, Units
<1>2. CASE curUnit = NoUnit
  BY <1>1, <1>2 DEF CloseOut, Known, KnownInBody
<1>3. CASE curUnit # NoUnit
  <2>1. curUnit \in Units /\ metrics[curUnit] \in MetricSets
    BY <1>1, <1>3 DEF LexInv, LexerInv
  <2>2. CloseOut = [metrics EXCEPT ![curUnit] =
                      [metrics[curUnit] EXCEPT !.ids = ids, !.bodyIds = bodyIds]]
    BY <1>1, <1>3, <2>1 DEF CloseOut, MetricSets
  <2> DEFINE m == [metrics[curUnit] EXCEPT !.ids = ids, !.bodyIds = bodyIds]
  <2>3. m.ids = ids /\ m.bodyIds = bodyIds /\ m.body = metrics[curUnit].body
    BY <2>1 DEF MetricSets
  <2> HIDE DEF m
  <2>4. \A u \in Units : CloseOut[u] = IF u = curUnit THEN m ELSE metrics[u]
    BY <1>1, <2>1, <2>2 DEF m
  <2>5. QED
    BY <2>3, <2>4 DEF Known, KnownInBody
<1>4. QED
  BY <1>2, <1>3

LEMMA EndData ==
  ASSUME LexInv, DataInv, EndTU
  PROVE  DataInv'
<1> USE DEF LexInv
<1>1. /\ stack' = <<>> /\ metrics' = CloseOut /\ curUnit' = NoUnit /\ curFn' = NoFn
      /\ UNCHANGED <<tu, defined, firstTU, truth, split>>
  BY DEF EndTU
<1>2. \A u \in Units : u # NoUnit
  BY LexAssumption DEF Units, NoUnit
<1>3. FrameInv' /\ HeldInv' /\ FlagInv'
  BY <1>1 DEF FrameInv, HeldInv, FlagInv
<1>4. BlankInv'
  BY <1>1 DEF DataInv, BlankInv, NothingKnown, Unbegun
<1>5. IdentifierSetsExact' /\ BodyExact'
  BY <1>1, <1>2, CloseOutKnown
  DEF DataInv, IdentifierSetsExact, BodyExact, Known, KnownInBody
<1>6. QED
  BY <1>3, <1>4, <1>5 DEF DataInv

\* The files lexed are those met for the first time.
LEMMA FreshLexed ==
  ASSUME LexInv, stack # <<>>
  PROVE  /\ curFile \in Files /\ Belongs(stack, 1, curFile)
         /\ Fresh(curFile) <=> ShouldIncludeFile(curFile) /\ curFile \notin processed
<1> USE DEF LexInv
<1>1. curFile \in Files /\ Belongs(stack, 1, curFile)
  BY DEF StackInv
<1>2. curFile \in read
  BY <1>1 DEF Belongs, ReadInv
<1>3. firstTU[curFile] # 0 /\ firstTU[curFile] <= tu /\ firstTU[curFile] \in Nat /\ tu \in Nat
  BY <1>1, <1>2 DEF ReadInv
<1>4. curFile \in processed <=> ShouldIncludeFile(curFile) /\ firstTU[curFile] < tu
  BY <1>1, <1>3 DEF ReadInv
<1>5. QED
  BY <1>1, <1>3, <1>4 DEF Fresh

\* What counting leaves and adds in the body.
LEMMA CountInBody ==
  ASSUME NEW m \in MetricSets, NEW t, NEW body \in BOOLEAN
  PROVE  /\ Count(m, t, body).body = m.body + (IF body /\ t # "brace" THEN 1 ELSE 0)
         /\ Count(m, t, body).ids = m.ids /\ Count(m, t, body).bodyIds = m.bodyIds
<1>1. m.body \in Nat
  BY DEF MetricSets
<1>2. CASE body /\ t # "brace"
  <2>1. Count(m, t, body) = [m EXCEPT !.tokens = m.tokens + 1, !.body = m.body + 1]
    BY <1>2 DEF Count
  <2>2. QED
    BY <1>2, <2>1 DEF MetricSets
<1>3. CASE ~ (body /\ t # "brace")
  <2>1. Count(m, t, body) = [m EXCEPT !.tokens = m.tokens + 1, !.body = m.body]
    BY <1>3 DEF Count
  <2>2. QED
    BY <1>1, <1>3, <2>1 DEF MetricSets
<1>4. QED
  BY <1>2, <1>3

\* What a token leaves of what is known, and adds to it: a look-up that finds a function
\* begins its sets, and what the body is, anew.
LEMMA LexKnown ==
  ASSUME LexInv, stack # <<>>, NEW g \in FnNames \cup {NoFn}, NEW body \in BOOLEAN,
         NEW t \in Tokens, ShouldIncludeFile(curFile), Lex(At(g, body), t)
  PROVE  LET h == FindFunction(At(g, body))
             lookup == LooksUp(At(g, body))
         IN
         /\ curUnit' = UnitFor(h)
         /\ h = NoFn => lookup
         /\ lookup => curFn' = h /\ fnFrame' = Head(stack).id /\ ~ inBody'
                      /\ (h # NoFn /\ curUnit' # NoUnit => waiting')
         /\ ~ lookup => /\ UNCHANGED <<curFn, fnFrame, curUnit>>
                        /\ curFn = h /\ fnFrame = Head(stack).id
                        /\ inBody' = (inBody \/ (waiting /\ body))
                        /\ waiting' = (waiting /\ ~ body)
         /\ \A u \in Units \ {curUnit'} :
              /\ Known(u)' = Known(u) /\ KnownInBody(u)' = KnownInBody(u)
              /\ metrics'[u].body = metrics[u].body
         /\ curUnit' \in Units =>
              /\ metrics'[curUnit'].body =
                   metrics[curUnit'].body + (IF inBody' /\ t # "brace" THEN 1 ELSE 0)
              /\ ids' = (IF lookup /\ h # NoFn THEN {} ELSE Known(curUnit'))
                          \cup ({t} \cap Identifiers)
              /\ lookup => bodyIds' = {} \/ (h = NoFn /\ bodyIds' = KnownInBody(curUnit'))
              /\ ~ lookup => bodyIds' = KnownInBody(curUnit')
                                        \cup (IF inBody' THEN {t} \cap Identifiers ELSE {})
<1> USE DEF LexInv
<1> DEFINE fr == At(g, body)
           h == FindFunction(fr)
           lookup == LooksUp(fr)
           unit == IF lookup THEN UnitFor(h) ELSE curUnit
           closes == lookup /\ (h # NoFn \/ curUnit # unit)
           reached == ~ lookup /\ waiting /\ fr.body
           inside == IF lookup THEN BodyAfterLookup ELSE inBody \/ reached
           closed == IF closes THEN CloseOut ELSE metrics
           set == IF closes THEN EnterFileScope(unit) ELSE ids
           bodySet == IF closes THEN {} ELSE bodyIds
           counts == unit # NoUnit
<1>1. Head(stack) \in Frames
  <2>1. stack \in Seq(Frames)
    BY DEF StackInv
  <2> HIDE DEF Frames
  <2>2. QED
    BY <2>1, Popped
<1>2. fr \in Frames /\ fr.fn = g /\ fr.body = body /\ fr.id = Head(stack).id /\ fr.id \in Nat
  BY <1>1 DEF At, Frames
<1>3. h \in FnNames \cup {NoFn} /\ fnFrame \in Nat
  BY <1>2 DEF FindFunction, LexerInv
<1>4. unit = UnitFor(h)
  BY CacheExact
<1>5. /\ unit \in Units \cup {NoUnit} /\ NoUnit \notin Units
      /\ h = NoFn => unit \in Units /\ unit.fn = NoFn
      /\ h # NoFn /\ unit \in Units => unit.fn # NoFn
  BY <1>3, <1>4, LexAssumption
  DEF UnitFor, Units, FileUnit, FunctionUnit, StackInv, NoUnit
<1>6. ~ lookup => curFn # NoFn /\ curFn = h /\ fnFrame = Head(stack).id
  <2> HIDE DEF fr, h
  <2>1. QED
    BY <1>2, <1>3 DEF LooksUp, PastEnd, BeforeStart, h
<1>7. /\ curFn' = IF lookup THEN h ELSE curFn
      /\ fnFrame' = IF lookup THEN fr.id ELSE fnFrame
      /\ curUnit' = unit /\ inBody' = inside
      /\ waiting' = IF lookup THEN waiting \/ (h # NoFn /\ counts) ELSE waiting /\ ~ reached
      /\ metrics' = IF counts THEN [closed EXCEPT ![unit] = Count(@, t, inside)] ELSE closed
      /\ ids' = IF counts THEN set \cup InsertIdentifier(t) ELSE set
      /\ bodyIds' = IF counts /\ inside THEN bodySet \cup InsertIdentifier(t) ELSE bodySet
  BY DEF Lex
<1>8. inside \in BOOLEAN /\ waiting \in BOOLEAN
  BY <1>2 DEF TypeOK, BodyAfterLookup
<1>9. /\ closed \in [Units -> MetricSets]
      /\ \A u \in Units :
           /\ closed[u].body = metrics[u].body
           /\ closes \/ u # curUnit => closed[u].ids = Known(u) /\ closed[u].bodyIds = KnownInBody(u)
  BY CloseOutKeeps, CloseOutKnown DEF TypeOK, MetricSets, Known, KnownInBody
<1>10. closes \/ unit = curUnit
  OBVIOUS
<1>11. unit \in Units =>
         /\ set = IF lookup /\ h # NoFn THEN {} ELSE Known(unit)
         /\ bodySet = IF closes THEN {} ELSE KnownInBody(unit)
  <2> SUFFICES ASSUME unit \in Units
               PROVE  /\ set = IF lookup /\ h # NoFn THEN {} ELSE Known(unit)
                      /\ bodySet = IF closes THEN {} ELSE KnownInBody(unit)
    OBVIOUS
  <2>1. CASE closes
    <3>1. CloseOut[unit].ids = Known(unit)
      BY CloseOutKnown
    <3>2. lookup /\ (h # NoFn <=> unit.fn # NoFn)
      BY <1>5, <2>1
    <3> HIDE DEF unit, h, fr
    <3>3. QED
      BY <2>1, <3>1, <3>2 DEF EnterFileScope
  <2>2. CASE ~ closes
    BY <2>2 DEF Known, KnownInBody
  <2>3. QED
    BY <2>1, <2>2
<1>12. lookup => ~ inside
  BY DEF BodyAfterLookup
<1>13. ~ lookup => ~ closes /\ inside = (inBody \/ (waiting /\ body)) /\ reached = (waiting /\ body)
  BY <1>2
<1> HIDE DEF closed, unit, inside, set, bodySet, h, fr, closes
<1>14. \A u \in Units \ {unit} :
         /\ Known(u)' = Known(u) /\ KnownInBody(u)' = KnownInBody(u)
         /\ metrics'[u].body = metrics[u].body
  <2> SUFFICES ASSUME NEW u \in Units, u # unit
               PROVE  /\ Known(u)' = Known(u) /\ KnownInBody(u)' = KnownInBody(u)
                      /\ metrics'[u].body = metrics[u].body
    OBVIOUS
  <2>1. metrics'[u] = closed[u]
    BY <1>7, <1>9
  <2>2. Known(u)' = closed[u].ids /\ KnownInBody(u)' = closed[u].bodyIds
    BY <1>7, <2>1 DEF Known, KnownInBody
  <2>3. QED
    BY <1>9, <1>10, <2>1, <2>2
<1>15. ASSUME unit \in Units
       PROVE  /\ metrics'[unit].body = metrics[unit].body + (IF inside /\ t # "brace" THEN 1 ELSE 0)
              /\ ids' = set \cup ({t} \cap Identifiers)
              /\ bodyIds' = bodySet \cup (IF inside THEN {t} \cap Identifiers ELSE {})
  <2>1. counts /\ closed[unit] \in MetricSets
    BY <1>5, <1>9, <1>15
  <2>2. Count(closed[unit], t, inside).body
          = closed[unit].body + (IF inside /\ t # "brace" THEN 1 ELSE 0)
    BY <1>8, <2>1, CountInBody
  <2>3. metrics'[unit] = Count(closed[unit], t, inside)
    BY <1>7, <1>9, <1>15, <2>1
  <2>4. QED
    BY <1>7, <1>9, <1>15, <2>1, <2>2, <2>3 DEF InsertIdentifier
<1>16. unit \in Units /\ lookup => bodyIds' = {} \/ (h = NoFn /\ bodyIds' = KnownInBody(unit))
  <2>1. ~ closes /\ lookup => h = NoFn
    BY DEF closes
  <2>2. QED
    BY <1>11, <1>12, <1>15, <2>1
<1>17. /\ lookup => curFn' = h /\ fnFrame' = Head(stack).id /\ ~ inBody'
                    /\ (h # NoFn /\ curUnit' # NoUnit => waiting')
       /\ ~ lookup => /\ UNCHANGED <<curFn, fnFrame, curUnit>>
                      /\ inBody' = (inBody \/ (waiting /\ body))
                      /\ waiting' = (waiting /\ ~ body)
  <2>1. ~ lookup => unit = curUnit
    BY DEF unit
  <2>2. QED
    BY <1>2, <1>7, <1>8, <1>12, <1>13, <2>1
<1>18. /\ h = NoFn => lookup
       /\ ~ lookup => curFn = h /\ fnFrame = Head(stack).id
  BY <1>6
<1>19. unit \in Units /\ ~ lookup => bodyIds' = KnownInBody(unit)
                                        \cup (IF inBody' THEN {t} \cap Identifiers ELSE {})
  BY <1>7, <1>11, <1>13, <1>15
<1>20. unit \in Units =>
         /\ metrics'[unit].body = metrics[unit].body + (IF inBody' /\ t # "brace" THEN 1 ELSE 0)
         /\ ids' = (IF lookup /\ h # NoFn THEN {} ELSE Known(unit)) \cup ({t} \cap Identifiers)
  BY <1>7, <1>11, <1>15
<1>21. curUnit' = unit /\ unit = UnitFor(h)
  BY <1>4, <1>7
<1>22. QED
  BY <1>14, <1>16, <1>17, <1>18, <1>19, <1>20, <1>21 DEF h, fr

\* What a token should add.
LEMMA TruthKnown ==
  ASSUME LexInv, stack # <<>>, NEW g \in FnNames \cup {NoFn}, NEW body \in BOOLEAN,
         NEW t \in Tokens, Expect(At(g, body), t)
  PROVE  LET h == FindFunction(At(g, body))
             counted == Fresh(curFile) /\ ShouldIncludeFunction(h)
             u == FunctionUnit(curFile, h)
         IN /\ h \in FnNames \cup {NoFn} /\ u \in Units
            /\ \A v \in Units : ~ counted \/ v # u => truth'[v] = truth[v]
            /\ counted =>
                 /\ truth'[u].body = truth[u].body + (IF body /\ t # "brace" THEN 1 ELSE 0)
                 /\ truth'[u].ids = truth[u].ids \cup ({t} \cap Identifiers)
                 /\ truth'[u].bodyIds = truth[u].bodyIds
                                          \cup (IF body THEN {t} \cap Identifiers ELSE {})
            /\ split \subseteq split'
            /\ counted => \A i \in 2 .. Len(stack) : stack[i].fn # NoFn =>
                 FunctionUnit(Resolved(SubSeq(stack, i, Len(stack))), stack[i].fn) \in split'
<1> USE DEF LexInv
<1> DEFINE fr == At(g, body)
           h == FindFunction(fr)
           u == FunctionUnit(curFile, h)
           m == Count(truth[u], t, fr.body)
           new == [m EXCEPT !.ids = @ \cup ({t} \cap Identifiers),
                            !.bodyIds = IF fr.body THEN @ \cup ({t} \cap Identifiers) ELSE @]
           counted == Fresh(curFile) /\ ShouldIncludeFunction(h)
<1>1. stack \in Seq(Frames) /\ curFile \in Files /\ Belongs(stack, 1, curFile)
  BY DEF StackInv
<1>2. Resolved(stack) = curFile
  BY <1>1, ResolvedBelongs
<1>3. Head(stack) \in Frames
  <2> HIDE DEF Frames
  <2>1. QED
    BY <1>1, Popped
<1>4. fr.fn = g /\ fr.body = body
  BY <1>3 DEF At, Frames
<1>5. h \in FnNames \cup {NoFn} /\ u \in Units
  BY <1>1, <1>4 DEF FindFunction, FunctionUnit, Units
<1>6. /\ truth' = IF counted THEN [truth EXCEPT ![u] = new] ELSE truth
      /\ split' = split \cup
           (IF counted THEN {FunctionUnit(Resolved(SubSeq(stack, i, Len(stack))), stack[i].fn) :
                               i \in {j \in 2 .. Len(stack) : stack[j].fn # NoFn}}
            ELSE {})
  BY <1>2 DEF Expect, Fresh
<1>7. /\ m \in MetricSets
      /\ m.body = truth[u].body + (IF body /\ t # "brace" THEN 1 ELSE 0)
      /\ m.ids = truth[u].ids /\ m.bodyIds = truth[u].bodyIds
  <2> HIDE DEF u, fr
  <2>1. truth[u] \in MetricSets /\ fr.body = body
    BY <1>4, <1>5
  <2>2. QED
    BY <2>1, CountAdds, CountInBody
<1> HIDE DEF m
<1>8. /\ new.body = m.body /\ new.ids = m.ids \cup ({t} \cap Identifiers)
      /\ new.bodyIds = m.bodyIds \cup (IF body THEN {t} \cap Identifiers ELSE {})
  BY <1>4, <1>7 DEF MetricSets
<1> HIDE DEF new, u, h, fr
<1>9. /\ \A v \in Units : ~ counted \/ v # u => truth'[v] = truth[v]
      /\ counted => truth'[u] = new
  BY <1>5, <1>6
<1> HIDE DEF counted
<1>10. counted => \A i \in 2 .. Len(stack) : stack[i].fn # NoFn =>
         FunctionUnit(Resolved(SubSeq(stack, i, Len(stack))), stack[i].fn) \in split'
  BY <1>6
<1>11. split \subseteq split'
  BY <1>6
<1>12. QED
  BY <1>5, <1>7, <1>8, <1>9, <1>10, <1>11 DEF counted, u, h, fr

\* The frames from i on, as Expect() sees them.
LEMMA SuffixResolved ==
  ASSUME NEW s \in Seq(Frames), NEW i \in DOMAIN s, NEW f, Belongs(s, i, f)
  PROVE  Resolved(SubSeq(s, i, Len(s))) = f
<1> DEFINE p == SubSeq(s, i, Len(s))
<1>1. i \in Nat /\ i >= 1 /\ i <= Len(s) /\ Len(s) \in Nat /\ DOMAIN s = 1 .. Len(s)
  OBVIOUS
<1>2. /\ p \in Seq(Frames) /\ DOMAIN p = 1 .. (Len(s) - i + 1)
      /\ \A j \in 1 .. (Len(s) - i + 1) : p[j] = s[i + j - 1]
  <2> HIDE DEF Frames
  <2>1. QED
    BY <1>1
<1> HIDE DEF p
<1>3. PICK k \in DOMAIN s : /\ i <= k /\ s[k].file = f
                            /\ \A j \in DOMAIN s : i <= j /\ j < k => s[j].file \in DefFiles
  BY DEF Belongs
<1>4. k - i + 1 \in DOMAIN p /\ p[k - i + 1] = s[k] /\ 1 <= k - i + 1
  BY <1>1, <1>2, <1>3
<1>5. ASSUME NEW j \in DOMAIN p, j < k - i + 1 PROVE p[j].file \in DefFiles
  <2>1. i + j - 1 \in DOMAIN s /\ i <= i + j - 1 /\ i + j - 1 < k /\ p[j] = s[i + j - 1]
    BY <1>1, <1>2, <1>3, <1>5
  <2>2. QED
    BY <1>3, <2>1
<1>6. Belongs(p, 1, f)
  BY <1>3, <1>4, <1>5 DEF Belongs
<1>7. QED
  BY <1>2, <1>6, ResolvedBelongs DEF p

\* A token changes the innermost frame only.
LEMMA TokenFrames ==
  ASSUME LexInv, NEW g \in FnNames \cup {NoFn}, NEW body \in BOOLEAN, NEW t \in Tokens,
         LexToken(g, body, t)
  PROVE  /\ 1 \in DOMAIN stack /\ stack[1] = Head(stack) /\ stack[1] \in Frames
         /\ At(g, body) \in Frames /\ At(g, body).id = stack[1].id
         /\ At(g, body).fn = g /\ At(g, body).body = body
         /\ DOMAIN stack' = DOMAIN stack /\ DOMAIN stack = 1 .. Len(stack) /\ Len(stack) \in Nat
         /\ stack'[1] = At(g, body)
         /\ \A i \in DOMAIN stack : i # 1 => stack'[i] = stack[i]
         /\ \A i \in DOMAIN stack : stack'[i].id = stack[i].id
         /\ \A i, f : Belongs(stack', i, f) <=> Belongs(stack, i, f)
<1> DEFINE fr == At(g, body)
<1>1. stack # <<>> /\ stack' = <<fr>> \o Tail(stack) /\ stack \in Seq(Frames)
  BY DEF LexToken, At, LexInv, StackInv
<1>2. /\ Tail(stack) \in Seq(Frames) /\ stack[1] = Head(stack) /\ Head(stack) \in Frames
      /\ Len(stack) \in Nat /\ Len(stack) > 0 /\ DOMAIN stack = 1 .. Len(stack)
      /\ Len(Tail(stack)) = Len(stack) - 1
      /\ \A i \in 1 .. (Len(stack) - 1) : Tail(stack)[i] = stack[i + 1]
  <2> HIDE DEF Frames
  <2>1. QED
    BY <1>1, Popped
<1>3. /\ fr \in Frames /\ fr.file = Head(stack).file /\ fr.id = Head(stack).id
      /\ fr.fn = g /\ fr.body = body
  BY <1>2 DEF At, Frames
<1>4. /\ DOMAIN stack' = DOMAIN stack
      /\ \A i \in DOMAIN stack : stack'[i].file = stack[i].file /\ stack'[i].id = stack[i].id
      /\ \A i, f : Belongs(stack', i, f) <=> Belongs(stack, i, f)
  <2> HIDE DEF fr, Frames
  <2>1. QED
    BY <1>1, <1>3, Relabelled
<1>5. stack'[1] = fr /\ \A i \in 1 .. Len(Tail(stack)) : stack'[i + 1] = Tail(stack)[i]
  <2> HIDE DEF fr, Frames
  <2>1. QED
    BY <1>1, <1>2, <1>3, Pushed
<1>6. ASSUME NEW i \in DOMAIN stack, i # 1 PROVE stack'[i] = stack[i]
  <2>1. i - 1 \in 1 .. (Len(stack) - 1) /\ (i - 1) + 1 = i
    BY <1>2, <1>6
  <2>2. QED
    BY <1>2, <1>5, <2>1
<1>7. QED
  BY <1>2, <1>3, <1>4, <1>5, <1>6

LEMMA TokenData ==
  ASSUME LexInv, DataInv, NEW g \in FnNames \cup {NoFn}, NEW body \in BOOLEAN, NEW t \in Tokens,
         LexToken(g, body, t)
  PROVE  DataInv'
<1> USE DEF LexInv, DataInv
<1> DEFINE fr == At(g, body)
           h == FindFunction(fr)
           unit == FunctionUnit(curFile, h)
           lookup == LooksUp(fr)
<1>1. /\ stack # <<>> /\ Follows(g, body, t) /\ Expect(fr, t)
      /\ defined' = defined \cup ({g} \ {NoFn})
      /\ \/ ShouldIncludeFile(curFile) /\ curFile \notin processed /\ Lex(fr, t)
         \/ (ShouldIncludeFile(curFile) => curFile \in processed) /\ Skip
      /\ UNCHANGED <<tu, firstTU, curFile>>
  BY DEF LexToken, At
<1>2. /\ curFile \in Files /\ Belongs(stack, 1, curFile)
      /\ Fresh(curFile) <=> ShouldIncludeFile(curFile) /\ curFile \notin processed
  BY <1>1, FreshLexed
<1>3. /\ 1 \in DOMAIN stack /\ stack[1] = Head(stack) /\ stack[1] \in Frames
      /\ fr.id = stack[1].id /\ fr.id \in Nat /\ fr.fn = g /\ fr.body = body
      /\ DOMAIN stack' = DOMAIN stack /\ DOMAIN stack = 1 .. Len(stack) /\ Len(stack) \in Nat
      /\ stack'[1] = fr
      /\ \A i \in DOMAIN stack : i # 1 => stack'[i] = stack[i]
      /\ \A i \in DOMAIN stack : stack'[i].id = stack[i].id
      /\ \A i, f : Belongs(stack', i, f) <=> Belongs(stack, i, f)
  BY TokenFrames, ZenonT(40) DEF Frames
<1>4. /\ stack \in Seq(Frames) /\ fnFrame \in Nat
      /\ \A i \in DOMAIN stack : stack[i].id = stack[1].id => i = 1
  <2>1. \A i \in DOMAIN stack : i # 1 => 1 < i
    BY <1>3
  <2>2. \A i \in DOMAIN stack : i # 1 => stack[1].id > stack[i].id
    BY <1>3, <2>1 DEF StackInv
  <2>3. \A i \in DOMAIN stack : stack[i].id \in Nat
    <3>1. stack \in Seq(Frames)
      BY DEF StackInv
    <3>2. \A i \in DOMAIN stack : stack[i] \in Frames
      <4> HIDE DEF Frames
      <4>1. QED
        BY <3>1
    <3>3. QED
      BY <3>2 DEF Frames
  <2>4. QED
    BY <1>3, <2>2, <2>3 DEF StackInv, LexerInv
<1>5. /\ h = IF PrototypesAreFileScope /\ ~ body THEN NoFn ELSE g
      /\ h # NoFn => h = g
  BY <1>3 DEF FindFunction
\* Where the token may be.
<1>6. \/ g = stack[1].fn /\ body = stack[1].body
      \/ g = stack[1].fn /\ g # NoFn /\ ~ stack[1].body /\ body /\ t = "brace"
      \/ g = NoFn /\ ~ body
      \/ g \notin defined /\ g # NoFn /\ ~ body /\ \A i \in 2 .. Len(stack) : stack[i].fn = NoFn
  BY <1>1, <1>3 DEF Follows
<1>7. g = NoFn => ~ body
  BY <1>3, <1>6 DEF FrameInv
<1>8. g # NoFn => \A i \in DOMAIN stack : i # 1 => stack[i].fn = NoFn
  <2>1. \A i \in DOMAIN stack : i # 1 => i \in 2 .. Len(stack)
    BY <1>3
  <2>2. QED
    BY <1>3, <1>6, <2>1 DEF FrameInv
<1>9. /\ h \in FnNames \cup {NoFn} /\ unit \in Units
      /\ \A v \in Units : ~ (Fresh(curFile) /\ ShouldIncludeFunction(h)) \/ v # unit
                            => truth'[v] = truth[v]
      /\ Fresh(curFile) /\ ShouldIncludeFunction(h) =>
           /\ truth'[unit].body = truth[unit].body + (IF body /\ t # "brace" THEN 1 ELSE 0)
           /\ truth'[unit].ids = truth[unit].ids \cup ({t} \cap Identifiers)
           /\ truth'[unit].bodyIds = truth[unit].bodyIds
                                       \cup (IF body THEN {t} \cap Identifiers ELSE {})
           /\ \A i \in 2 .. Len(stack) : stack[i].fn # NoFn =>
                FunctionUnit(Resolved(SubSeq(stack, i, Len(stack))), stack[i].fn) \in split'
      /\ split \subseteq split'
  BY <1>1, TruthKnown
<1>10. ~ Fresh(curFile) =>
         UNCHANGED <<metrics, curFn, fnFrame, curUnit, inBody, waiting, ids, bodyIds>>
  BY <1>1, <1>2 DEF Skip, lexer
<1>11. Fresh(curFile) =>
         /\ curUnit' = UnitFor(h)
         /\ h = NoFn => lookup
         /\ lookup => curFn' = h /\ fnFrame' = stack[1].id /\ ~ inBody'
                      /\ (h # NoFn /\ curUnit' # NoUnit => waiting')
         /\ ~ lookup => /\ UNCHANGED <<curFn, fnFrame, curUnit>>
                        /\ curFn = h /\ fnFrame = stack[1].id
                        /\ inBody' = (inBody \/ (waiting /\ body))
                        /\ waiting' = (waiting /\ ~ body)
         /\ \A v \in Units \ {curUnit'} :
              /\ Known(v)' = Known(v) /\ KnownInBody(v)' = KnownInBody(v)
              /\ metrics'[v].body = metrics[v].body
         /\ curUnit' \in Units =>
              /\ metrics'[curUnit'].body =
                   metrics[curUnit'].body + (IF inBody' /\ t # "brace" THEN 1 ELSE 0)
              /\ ids' = (IF lookup /\ h # NoFn THEN {} ELSE Known(curUnit'))
                          \cup ({t} \cap Identifiers)
              /\ lookup => bodyIds' = {} \/ (h = NoFn /\ bodyIds' = KnownInBody(curUnit'))
              /\ ~ lookup => bodyIds' = KnownInBody(curUnit')
                                        \cup (IF inBody' THEN {t} \cap Identifiers ELSE {})
  <2> SUFFICES ASSUME Fresh(curFile) PROVE ShouldIncludeFile(curFile) /\ Lex(fr, t)
    BY <1>1, <1>3, LexKnown
  <2>1. QED
    BY <1>1, <1>2
<1>12. UnitFor(h) = IF ShouldIncludeFunction(h) THEN unit ELSE NoUnit
  BY <1>9, LexAssumption DEF UnitFor, FileUnit, FunctionUnit, ShouldIncludeFunction
<1> HIDE DEF fr
\* A look-up that finds a function finds it for the first time, unless it is interrupted.
<1>13. ASSUME Fresh(curFile), lookup, h # NoFn, unit \notin split
       PROVE  Unbegun(g) /\ (body => t = "brace")
  <2>1. ~ (FindFunction(stack[1]) = h)
    <3> SUFFICES ASSUME FindFunction(stack[1]) = h PROVE FALSE
      OBVIOUS
    <3>1. curFn = h /\ fnFrame = stack[1].id
      BY <1>2, <1>3, <1>13 DEF HeldInv
    <3>2. ~ lookup
      BY <1>3, <1>4, <1>13, <3>1 DEF LooksUp, PastEnd, BeforeStart
    <3>3. QED
      BY <1>13, <3>2
  <2>2. h = g
    BY <1>5, <1>13
  <2>3. stack[1].fn = g => FindFunction(stack[1]) = NoFn
    BY <2>1, <2>2 DEF FindFunction
  <2>4. stack[1].fn = g => Unbegun(g)
    BY <1>3, <2>3 DEF Unbegun
  <2>5. g \notin defined => Unbegun(g)
    BY DEF Unbegun
  <2>6. ~ (g = stack[1].fn /\ body = stack[1].body)
    BY <1>5, <2>1, <2>2 DEF FindFunction
  <2>7. QED
    BY <1>6, <1>13, <2>2, <2>4, <2>5, <2>6
\* Without one, the lexer and the token agree about the body.
<1>14. ASSUME Fresh(curFile), ~ lookup, curUnit # NoUnit
       PROVE  inBody' = body /\ (inBody' \/ waiting')
  <2>1. h # NoFn /\ h = g /\ curFn = h /\ fnFrame = stack[1].id
    BY <1>5, <1>11, <1>14
  <2>2. stack[1].fn = g /\ (inBody \/ waiting) /\ (inBody => stack[1].body)
    BY <1>3, <1>14, <2>1 DEF FlagInv
  <2>3. g \in defined
    BY <1>3, <2>1, <2>2 DEF FrameInv
  <2>4. stack[1].body => body
    BY <1>6, <2>1, <2>3
  <2>5. /\ inBody \in BOOLEAN /\ waiting \in BOOLEAN
        /\ inBody' = (inBody \/ (waiting /\ body)) /\ waiting' = (waiting /\ ~ body)
    BY <1>11, <1>14 DEF TypeOK
  <2>6. QED
    BY <2>2, <2>4, <2>5
<1>15. FrameInv'
  <2>1. ASSUME NEW i \in DOMAIN stack'
        PROVE  IF stack'[i].fn = NoFn THEN ~ stack'[i].body ELSE stack'[i].fn \in defined'
    <3>1. CASE i = 1
      BY <1>1, <1>3, <1>7, <3>1
    <3>2. CASE i # 1
      BY <1>1, <1>3, <2>1, <3>2 DEF FrameInv
    <3>3. QED
      BY <3>1, <3>2
  <2>2. ASSUME NEW i \in DOMAIN stack', NEW j \in DOMAIN stack',
               stack'[i].fn # NoFn, stack'[j].fn # NoFn
        PROVE  i = j
    <3>1. CASE i # 1 /\ j # 1
      BY <1>3, <2>2, <3>1 DEF FrameInv
    <3>2. CASE i = 1 \/ j = 1
      <4>1. g # NoFn
        BY <1>3, <2>2, <3>2
      <4>2. QED
        BY <1>3, <1>8, <2>2, <4>1
    <3>3. QED
      BY <3>1, <3>2
  <2>3. QED
    BY <2>1, <2>2 DEF FrameInv
<1>16. HeldInv'
  <2> SUFFICES ASSUME NEW i \in DOMAIN stack', NEW f \in Files,
                      FindFunction(stack'[i]) # NoFn, Belongs(stack, i, f), Fresh(f),
                      FunctionUnit(f, FindFunction(stack'[i])) \notin split'
               PROVE  curFn' = FindFunction(stack'[i]) /\ fnFrame' = stack[i].id
    BY <1>1, <1>3 DEF HeldInv, FindFunction, Fresh, ShouldIncludeFile
  <2>1. CASE i = 1
    <3>1. f = curFile
      BY <1>2, <1>4, <2>1, BelongsToOne
    <3>2. h = FindFunction(stack'[i])
      BY <1>3, <2>1
    <3>3. curFn' = h /\ fnFrame' = stack[1].id
      BY <1>11, <3>1
    <3>4. QED
      BY <2>1, <3>2, <3>3
  <2>2. CASE i # 1
    <3>1. /\ stack'[i] = stack[i] /\ i \in 2 .. Len(stack) /\ i \in DOMAIN stack
          /\ stack[i].fn # NoFn /\ FindFunction(stack[i]) = stack[i].fn
      BY <1>3, <2>2 DEF FindFunction
    <3>2. FunctionUnit(f, stack[i].fn) \notin split'
      BY <3>1
    <3>3. ~ Fresh(curFile)
      <4> SUFFICES ASSUME Fresh(curFile) PROVE FALSE
        OBVIOUS
      <4>1. g = NoFn
        BY <1>8, <2>2, <3>1
      <4>2. ShouldIncludeFunction(h)
        BY <1>5, <4>1, LexAssumption DEF ShouldIncludeFunction
      <4>3. Resolved(SubSeq(stack, i, Len(stack))) = f
        BY <1>4, <3>1, SuffixResolved
      <4>4. QED
        BY <1>9, <3>1, <3>2, <4>2, <4>3
    <3>4. curFn = stack[i].fn /\ fnFrame = stack[i].id
      BY <1>9, <3>1, <3>2 DEF HeldInv
    <3>5. QED
      BY <1>10, <3>1, <3>3, <3>4
  <2>3. QED
    BY <2>1, <2>2
<1>17. FlagInv'
  <2> SUFFICES ASSUME NEW i \in DOMAIN stack, curFn' # NoFn, curUnit' # NoUnit,
                      stack[i].id = fnFrame'
               PROVE  /\ stack'[i].fn = curFn' /\ (inBody' \/ waiting')
                      /\ inBody' => stack'[i].body
    BY <1>3 DEF FlagInv
  <2>1. CASE Fresh(curFile)
    <3>1. i = 1 /\ curFn' = h
      BY <1>4, <1>11, <2>1
    <3>2. h = g /\ stack'[i].fn = g /\ stack'[i].body = body
      BY <1>3, <1>5, <3>1
    <3>3. CASE lookup
      BY <1>11, <2>1, <3>1, <3>2, <3>3
    <3>4. CASE ~ lookup
      <4>1. inBody' = body /\ (inBody' \/ waiting')
        BY <1>11, <1>14, <2>1, <3>4
      <4>2. QED
        BY <3>1, <3>2, <4>1
    <3>5. QED
      BY <3>3, <3>4
  <2>2. CASE ~ Fresh(curFile)
    <3>1. i # 1
      <4> SUFFICES ASSUME i = 1 PROVE FALSE
        OBVIOUS
      <4>1. curUnit = IF ShouldIncludeFunction(curFn) THEN FunctionUnit(curFile, curFn) ELSE NoUnit
        BY <1>2, <1>10, <2>2 DEF LexerInv
      <4>2. curUnit.file = curFile /\ curUnit # NoUnit
        BY <1>10, <2>2, <4>1 DEF FunctionUnit
      <4>3. QED
        BY <2>2, <4>2 DEF LexerInv, Fresh
    <3>2. QED
      BY <1>3, <1>10, <2>2, <3>1 DEF FlagInv
  <2>3. QED
    BY <2>1, <2>2
<1>18. BlankInv'
  <2>1. ASSUME NEW e \in FnNames, Unbegun(e)' PROVE Unbegun(e)
    <3>1. e # NoFn
      BY LexAssumption
    <3>2. CASE e \notin defined'
      BY <1>1, <3>2 DEF Unbegun
    <3>3. CASE \E i \in DOMAIN stack : stack'[i].fn = e /\ FindFunction(stack'[i]) = NoFn
      <4>1. PICK i \in DOMAIN stack : stack'[i].fn = e /\ FindFunction(stack'[i]) = NoFn
        BY <3>3
      <4>2. CASE i # 1
        BY <1>3, <4>1, <4>2 DEF Unbegun
      <4>3. CASE i = 1
        <5>1. g = e /\ PrototypesAreFileScope /\ ~ body
          BY <1>3, <3>1, <4>1, <4>3 DEF FindFunction
        <5>2. g = stack[1].fn /\ ~ stack[1].body => Unbegun(g)
          BY <1>3, <5>1 DEF Unbegun, FindFunction
        <5>3. g \notin defined => Unbegun(g)
          BY DEF Unbegun
        <5>4. QED
          BY <1>6, <3>1, <5>1, <5>2, <5>3
      <4>4. QED
        BY <4>2, <4>3
    <3>4. QED
      BY <1>3, <2>1, <3>2, <3>3 DEF Unbegun, FindFunction
  <2>2. ASSUME NEW f \in Files, NEW e \in FnNames, firstTU[f] = 0 \/ (firstTU[f] = tu /\ Unbegun(e)')
        PROVE  NothingKnown(truth'[FunctionUnit(f, e)])
    <3>1. NothingKnown(truth[FunctionUnit(f, e)])
      BY <2>1, <2>2 DEF BlankInv
    <3>2. FunctionUnit(f, e) \in Units
      BY DEF FunctionUnit, Units
    <3>3. ~ Fresh(curFile) \/ FunctionUnit(f, e) # unit
      <4> SUFFICES ASSUME Fresh(curFile), f = curFile, e = h PROVE FALSE
        BY DEF FunctionUnit
      <4>1. tu \in Nat /\ tu >= 1 /\ firstTU[f] = tu
        BY <1>1 DEF Fresh, ReadInv
      <4>2. Unbegun(e)' /\ h # NoFn /\ e = g
        BY <1>5, <2>2, <4>1, LexAssumption
      <4>3. PICK i \in DOMAIN stack : stack'[i].fn = g /\ FindFunction(stack'[i]) = NoFn
        BY <1>1, <1>3, <4>2 DEF Unbegun, FindFunction
      <4>4. CASE i = 1
        BY <1>3, <4>2, <4>3, <4>4
      <4>5. CASE i # 1
        BY <1>3, <1>8, <4>2, <4>3, <4>5
      <4>6. QED
        BY <4>4, <4>5
    <3>4. QED
      BY <1>9, <3>1, <3>2, <3>3
  <2>3. ASSUME NEW f \in Files
        PROVE  truth'[FileUnit(f)].body = 0 /\ truth'[FileUnit(f)].bodyIds = {}
    <3>1. truth[FileUnit(f)].body = 0 /\ truth[FileUnit(f)].bodyIds = {} /\ FileUnit(f) \in Units
      BY DEF BlankInv, FileUnit, Units
    <3>2. CASE Fresh(curFile) /\ ShouldIncludeFunction(h) /\ FileUnit(f) = unit
      <4>1. ~ body
        BY <1>5, <1>7, <3>2 DEF FileUnit, FunctionUnit
      <4>2. QED
        BY <1>9, <3>1, <3>2, <4>1
    <3>3. CASE ~ (Fresh(curFile) /\ ShouldIncludeFunction(h) /\ FileUnit(f) = unit)
      BY <1>9, <3>1, <3>3
    <3>4. QED
      BY <3>2, <3>3
  <2>4. QED
    BY <1>1, <2>2, <2>3 DEF BlankInv, NothingKnown
<1>19. ASSUME NEW v \in Units, v \notin split'
       PROVE  /\ Known(v)' = truth'[v].ids
              /\ metrics'[v].body = truth'[v].body /\ KnownInBody(v)' = truth'[v].bodyIds
  <2>1. /\ Known(v) = truth[v].ids /\ v \notin split
        /\ metrics[v].body = truth[v].body /\ KnownInBody(v) = truth[v].bodyIds
    BY <1>9, <1>19 DEF IdentifierSetsExact, BodyExact
  <2>2. CASE ~ Fresh(curFile)
    BY <1>9, <1>10, <2>1, <2>2 DEF Known, KnownInBody
  <2>3. CASE Fresh(curFile) /\ ~ (ShouldIncludeFunction(h) /\ v = unit)
    <3>1. v # curUnit'
      BY <1>11, <1>12, <2>3, LexAssumption DEF NoUnit, Units
    <3>2. QED
      BY <1>9, <1>11, <2>1, <2>3, <3>1
  <2>4. CASE Fresh(curFile) /\ ShouldIncludeFunction(h) /\ v = unit
    <3>1. curUnit' = unit /\ unit # NoUnit
      BY <1>9, <1>11, <1>12, <2>4, LexAssumption DEF NoUnit, Units
    <3>2. Known(v)' = ids' /\ KnownInBody(v)' = bodyIds'
      BY <2>4, <3>1 DEF Known, KnownInBody
    <3>3. /\ metrics'[v].body = metrics[v].body + (IF inBody' /\ t # "brace" THEN 1 ELSE 0)
          /\ ids' = (IF lookup /\ h # NoFn THEN {} ELSE Known(v)) \cup ({t} \cap Identifiers)
          /\ lookup => bodyIds' = {} \/ (h = NoFn /\ bodyIds' = KnownInBody(v))
          /\ ~ lookup => bodyIds' = KnownInBody(v)
                                    \cup (IF inBody' THEN {t} \cap Identifiers ELSE {})
      BY <1>9, <1>11, <2>4, <3>1
    <3>4. /\ truth'[v].body = truth[v].body + (IF body /\ t # "brace" THEN 1 ELSE 0)
          /\ truth'[v].ids = truth[v].ids \cup ({t} \cap Identifiers)
          /\ truth'[v].bodyIds = truth[v].bodyIds \cup (IF body THEN {t} \cap Identifiers ELSE {})
      BY <1>9, <2>4
    <3>5. CASE ~ lookup
      <4>1. inBody' = body
        BY <1>11, <1>14, <2>4, <3>1, <3>5
      <4>2. QED
        BY <2>1, <3>2, <3>3, <3>4, <3>5, <4>1
    <3>6. CASE lookup /\ h = NoFn
      <4>1. ~ body /\ ~ inBody'
        BY <1>5, <1>7, <1>11, <2>4, <3>6
      <4>2. truth[v].bodyIds = {}
        BY <1>2, <2>4, <3>6 DEF BlankInv, FileUnit, FunctionUnit
      <4>3. QED
        BY <2>1, <3>2, <3>3, <3>4, <3>6, <4>1, <4>2
    <3>7. CASE lookup /\ h # NoFn
      <4>1. Unbegun(g) /\ (body => t = "brace") /\ ~ inBody'
        BY <1>11, <1>13, <2>1, <2>4, <3>7
      <4>2. h = g /\ g \in FnNames
        BY <1>5, <1>9, <3>7
      <4>3. truth[v].ids = {} /\ truth[v].bodyIds = {}
        BY <1>2, <2>4, <4>1, <4>2 DEF BlankInv, NothingKnown, Fresh
      <4>4. body => {t} \cap Identifiers = {}
        BY <4>1, LexAssumption
      <4>5. (IF inBody' /\ t # "brace" THEN 1 ELSE 0) = (IF body /\ t # "brace" THEN 1 ELSE 0)
        BY <4>1
      <4>6. QED
        BY <2>1, <3>2, <3>3, <3>4, <3>7, <4>3, <4>4, <4>5
    <3>8. QED
      BY <3>5, <3>6, <3>7
  <2>5. QED
    BY <2>2, <2>3, <2>4
<1>20. IdentifierSetsExact' /\ BodyExact'
  BY <1>19 DEF IdentifierSetsExact, BodyExact
<1>21. QED
  BY <1>15, <1>16, <1>17, <1>18, <1>20 DEF DataInv

LEMMA IdleData ==
  ASSUME DataInv, UNCHANGED vars
  PROVE  DataInv'
<1>1. UNCHANGED <<tu, stack, defined, metrics, curFn, fnFrame, curUnit, inBody, waiting, ids,
                  bodyIds, firstTU, truth, split>>
  BY DEF vars, program, lexer
<1>2. FrameInv' /\ FlagInv'
  BY <1>1 DEF DataInv, FrameInv, FlagInv
<1>3. HeldInv'
  BY <1>1 DEF DataInv, HeldInv, FindFunction, Fresh, ShouldIncludeFile
<1>4. BlankInv'
  BY <1>1 DEF DataInv, BlankInv, NothingKnown, Unbegun, FindFunction
<1>5. IdentifierSetsExact' /\ BodyExact'
  BY <1>1 DEF DataInv, IdentifierSetsExact, BodyExact, Known, KnownInBody
<1>6. QED
  BY <1>2, <1>3, <1>4, <1>5 DEF DataInv

LEMMA DataStep ==
  ASSUME LexInv, DataInv, [Next]_vars
  PROVE  DataInv'
<1>1. CASE \E f \in Mains : StartTU(f)
  BY <1>1, StartData
<1>2. CASE \E f \in Files : Include(f)
  BY <1>2, IncludeData
<1>3. CASE Return
  BY <1>3, ReturnData
<1>4. CASE \E g \in FnNames \cup {NoFn}, body \in BOOLEAN, t \in Tokens : LexToken(g, body, t)
  BY <1>4, TokenData
<1>5. CASE EndTU
  BY <1>5, EndData
<1>6. CASE UNCHANGED vars
  BY <1>6, IdleData
<1>7. QED
  BY <1>1, <1>2, <1>3, <1>4, <1>5, <1>6 DEF Next
-----------------------------------------------------------------------------
LEMMA LexInvariant == Spec => []LexInv
<1>1. LexInv /\ [Next]_vars => LexInv'
  BY LexStep
<1>2. QED
  BY <1>1, LexInit, PTL DEF Spec

\* The state of the lexer and of its units has its types throughout: the current unit is
\* one that exists, and what is known of a body is part of what is known of its function.
THEOREM LexTypes == Spec => []TypeOK
<1>1. LexInv => TypeOK
  BY DEF LexInv
<1>2. QED
  BY <1>1, LexInvariant, PTL

\* However files include each other and functions alternate, the extents of the last
\* look-up answer as a new look-up would: each token counts once, for the function or the
\* file it belongs to.
THEOREM EveryTokenOnce == Spec => []TokensCountedOnce
<1>1. LexInv => TokensCountedOnce
  BY DEF LexInv
<1>2. QED
  BY <1>1, LexInvariant, PTL

\* After the first translation unit with a file, its units stay as they are.
THEOREM LexedFilesFrozen == Spec => FrozenAfterLexed
<1>1. LexInv /\ [Next]_vars => [Frozen]_vars
  BY LexStep
<1>2. QED
  BY <1>1, LexInvariant, PTL DEF Spec, FrozenAfterLexed, Frozen

LEMMA DataInvariant == Spec => []DataInv
<1>1. LexInv /\ DataInv /\ [Next]_vars => DataInv'
  BY DataStep
<1>2. QED
  BY <1>1, DataInit, LexInvariant, PTL DEF Spec

\* A unit that is left has its sets replaced, and a file is left and entered again around
\* each of its functions; what is known of a unit's identifiers is nevertheless all that
\* its tokens held, unless another file interrupts the function.
THEOREM NoIdentifierLost == Spec => []IdentifierSetsExact
<1>1. DataInv => IdentifierSetsExact
  BY DEF DataInv
<1>2. QED
  BY <1>1, DataInvariant, PTL

\* A token counts as one of the body just when it follows the opening brace of the same
\* function, unless another file interrupts the function.
THEOREM BodiesExact == Spec => []BodyExact
<1>1. DataInv => BodyExact
  BY DEF DataInv
<1>2. QED
  BY <1>1, DataInvariant, PTL
=============================================================================
