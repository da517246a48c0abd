---------------------------- MODULE ReportProofs ----------------------------
(***************************************************************************)
(* Proofs about Limits and Report, for any units, rules, limits files,     *)
(* metrics and options: the last rule that matches decides, the warnings   *)
(* are sorted into their files' sections, rows stand under their headings, *)
(* every warning is about a value in the report, and the metrics made from *)
(* the same tokens agree.                                                  *)
(***************************************************************************)
EXTENDS Report, FoldTheorems
-----------------------------------------------------------------------------
(* Limits: the rules as they are read. *)

\* Rule k of the list of m is the last one that matches u, and it is the last of those
\* read; or no rule of m that was read matches u.
LastRule(u, m) ==
  \/ /\ Matching(u, patternMap[m]) = {}
     /\ \A i \in DOMAIN read : read[i].metric = m => ~ unitMatchesLimitPattern(u, read[i])
  \/ \E k \in Matching(u, patternMap[m]) :
       /\ \A j \in Matching(u, patternMap[m]) : k >= j
       /\ \E i \in DOMAIN read : Decides(i, u, m) /\ read[i] = patternMap[m][k]

LoadInv ==
  /\ TypeOK /\ read \in Seq(Rules)
  /\ \A u \in Units, m \in Metrics : LastRule(u, m)

LEMMA Appended ==
  ASSUME NEW T, NEW s \in Seq(T), NEW x \in T
  PROVE  /\ Append(s, x) \in Seq(T) /\ Len(s) \in Nat /\ DOMAIN s = 1 .. Len(s)
         /\ DOMAIN Append(s, x) = 1 .. (Len(s) + 1) /\ Len(Append(s, x)) = Len(s) + 1
         /\ \A i \in 1 .. Len(s) : Append(s, x)[i] = s[i]
         /\ Append(s, x)[Len(s) + 1] = x
OBVIOUS

LEMMA LoadInit == Init => LoadInv
<1> SUFFICES ASSUME Init PROVE LoadInv
  OBVIOUS
<1>1. TypeOK
  BY BoundAssumption DEF Init, TypeOK
<1>2. read \in Seq(Rules)
  BY DEF Init
<1>3. ASSUME NEW u \in Units, NEW m \in Metrics PROVE LastRule(u, m)
  <2>1. patternMap[m] = <<>> /\ read = <<>>
    BY DEF Init
  <2>2. QED
    BY <2>1 DEF LastRule, Matching
<1>4. QED
  BY <1>1, <1>2, <1>3 DEF LoadInv

LEMMA ReadRuleLast ==
  ASSUME LoadInv, NEW r \in Rules, ReadRule(r), NEW u \in Units, NEW m \in Metrics
  PROVE  LastRule(u, m)'
<1> DEFINE ps == patternMap[m]
           ok(x) == unitMatchesLimitPattern(u, x)
<1>1. /\ read' = Append(read, r) /\ r.metric \in Metrics
      /\ patternMap' = [patternMap EXCEPT ![r.metric] = Append(@, r)]
      /\ patternMap \in [Metrics -> Seq(Rules)] /\ read \in Seq(Rules)
  BY RuleAssumption DEF ReadRule, Listed, LoadInv, TypeOK
<1>2. PICK n \in Nat :
        /\ DOMAIN read = 1 .. n /\ DOMAIN read' = 1 .. (n + 1)
        /\ Len(read) = n /\ Len(read') = n + 1
        /\ \A i \in 1 .. n : read'[i] = read[i]
        /\ read'[n + 1] = r
  <2>1. /\ Len(read) \in Nat /\ DOMAIN read = 1 .. Len(read)
        /\ DOMAIN Append(read, r) = 1 .. (Len(read) + 1)
        /\ Len(Append(read, r)) = Len(read) + 1
        /\ \A i \in 1 .. Len(read) : Append(read, r)[i] = read[i]
        /\ Append(read, r)[Len(read) + 1] = r
    BY <1>1, Appended
  <2>2. read' = Append(read, r)
    BY <1>1
  <2>3. QED
    BY <2>1, <2>2
<1>3. LastRule(u, m)
  BY DEF LoadInv
<1>4. ASSUME NEW i \in 1 .. n, Decides(i, u, m), r.metric = m => ~ ok(r)
      PROVE  Decides(i, u, m)'
  BY <1>2, <1>4 DEF Decides
<1>5. CASE r.metric # m
  <2>1. patternMap'[m] = patternMap[m]
    BY <1>1, <1>5
  <2>2. Matching(u, patternMap'[m]) = Matching(u, patternMap[m])
    BY <2>1
  <2>3. CASE /\ Matching(u, patternMap[m]) = {}
             /\ \A i \in DOMAIN read : read[i].metric = m => ~ ok(read[i])
    <3>1. \A i \in DOMAIN read' : read'[i].metric = m => ~ ok(read'[i])
      BY <1>2, <1>5, <2>3
    <3>2. QED
      BY <2>2, <2>3, <3>1 DEF LastRule
  <2>4. CASE \E k \in Matching(u, patternMap[m]) :
               /\ \A j \in Matching(u, patternMap[m]) : k >= j
               /\ \E i \in DOMAIN read : Decides(i, u, m) /\ read[i] = patternMap[m][k]
    <3>1. PICK k \in Matching(u, patternMap[m]) :
            /\ \A j \in Matching(u, patternMap[m]) : k >= j
            /\ \E i \in DOMAIN read : Decides(i, u, m) /\ read[i] = patternMap[m][k]
      BY <2>4
    <3>2. PICK i \in DOMAIN read : Decides(i, u, m) /\ read[i] = patternMap[m][k]
      BY <3>1
    <3>3. i \in DOMAIN read' /\ read'[i] = patternMap'[m][k] /\ Decides(i, u, m)'
      BY <1>2, <1>4, <1>5, <2>1, <3>2
    <3>4. QED
      BY <2>2, <3>1, <3>3 DEF LastRule
  <2>5. QED
    BY <1>3, <2>3, <2>4 DEF LastRule
<1>6. CASE r.metric = m
  <2>1. patternMap'[m] = Append(ps, r) /\ ps \in Seq(Rules)
    BY <1>1, <1>6
  <2>2. /\ Len(ps) \in Nat /\ DOMAIN ps = 1 .. Len(ps)
        /\ DOMAIN patternMap'[m] = 1 .. (Len(ps) + 1)
        /\ \A i \in 1 .. Len(ps) : patternMap'[m][i] = ps[i]
        /\ patternMap'[m][Len(ps) + 1] = r
    BY <2>1, Appended
  <2>3. CASE ok(r)
    <3>1. Len(ps) + 1 \in Matching(u, patternMap'[m])
      BY <2>2, <2>3 DEF Matching
    <3>2. \A j \in Matching(u, patternMap'[m]) : Len(ps) + 1 >= j
      BY <2>2 DEF Matching
    <3>3. n + 1 \in DOMAIN read' /\ read'[n + 1] = patternMap'[m][Len(ps) + 1]
      BY <1>2, <2>2
    <3>4. Decides(n + 1, u, m)'
      BY <1>2, <1>6, <2>3 DEF Decides
    <3>5. QED
      BY <3>1, <3>2, <3>3, <3>4 DEF LastRule
  <2>4. CASE ~ ok(r)
    <3>1. Matching(u, patternMap'[m]) = Matching(u, ps)
      BY <2>2, <2>4 DEF Matching
    <3>2. CASE /\ Matching(u, ps) = {}
               /\ \A i \in DOMAIN read : read[i].metric = m => ~ ok(read[i])
      <4>1. \A i \in DOMAIN read' : read'[i].metric = m => ~ ok(read'[i])
        BY <1>2, <2>4, <3>2
      <4>2. QED
        BY <3>1, <3>2, <4>1 DEF LastRule
    <3>3. CASE \E k \in Matching(u, ps) :
                 /\ \A j \in Matching(u, ps) : k >= j
                 /\ \E i \in DOMAIN read : Decides(i, u, m) /\ read[i] = ps[k]
      <4>1. PICK k \in Matching(u, ps) :
              /\ \A j \in Matching(u, ps) : k >= j
              /\ \E i \in DOMAIN read : Decides(i, u, m) /\ read[i] = ps[k]
        BY <3>3
      <4>2. PICK i \in DOMAIN read : Decides(i, u, m) /\ read[i] = ps[k]
        BY <4>1
      <4>3. k \in 1 .. Len(ps)
        BY <2>2 DEF Matching
      <4>4. i \in DOMAIN read' /\ read'[i] = patternMap'[m][k] /\ Decides(i, u, m)'
        BY <1>2, <1>4, <2>2, <2>4, <4>2, <4>3
      <4>5. QED
        BY <3>1, <4>1, <4>4 DEF LastRule
    <3>4. QED
      BY <1>3, <3>2, <3>3 DEF LastRule
  <2>5. QED
    BY <2>3, <2>4
<1>7. QED
  BY <1>5, <1>6
-----------------------------------------------------------------------------
(* Limits: what check() prints. *)

Line == [kind : {"warning", "heading", "separator"}, unit : Units,
         metric : Metrics \cup {"none"}]

\* The lines of w are warnings of the units of S.
WarningsOf(w, S) ==
  \A i \in DOMAIN w : \E u \in S : \E m \in Broken(u) : w[i] = Warning(u, m)

LEMMA UnitShapes ==
  /\ Top \in Units /\ Top.file = NoFile /\ Top.fn = NoFn
  /\ \A u \in Units \ {Top} :
       u.file \in Files /\ u.file # NoFile /\ FileUnit(u.file) \in Units \ {Top}
  /\ \A u \in Units : u.fn = NoFn /\ u # Top => u = FileUnit(u.file)
  /\ \A f : FileUnit(f).file = f /\ FileUnit(f).fn = NoFn
BY UnitAssumption DEF Top, FileUnit

LEMMA WarningLines ==
  ASSUME NEW u \in Units
  PROVE  /\ Warnings(u) \in Seq(Line) /\ WarningsOf(Warnings(u), {u})
         /\ \A m \in Broken(u) : \E i \in DOMAIN Warnings(u) : Warnings(u)[i] = Warning(u, m)
<1> DEFINE S == {Warning(u, m) : m \in Broken(u)}
           f == [m \in Broken(u) |-> Warning(u, m)]
<1>1. Broken(u) \subseteq Metrics
  BY DEF Broken
<1>2. IsFiniteSet(Broken(u))
  BY <1>1, UnitAssumption, FS_Subset
<1>3. IsFiniteSet(S)
  <2>1. IsFiniteSet({f[m] : m \in Broken(u)})
    <3> DEFINE g == f
    <3>1. DOMAIN g = Broken(u)
      OBVIOUS
    <3> HIDE DEF g
    <3>2. IsFiniteSet({g[m] : m \in Broken(u)})
      BY <1>2, <3>1, FiniteValues
    <3>3. QED
      BY <3>2 DEF g
  <2>2. {f[m] : m \in Broken(u)} = S
    OBVIOUS
  <2>3. QED
    BY <2>1, <2>2
<1>4. S \subseteq Line
  BY <1>1 DEF Warning, Line
<1> HIDE DEF S
<1>5. /\ SetToSeq(S) \in Seq(S)
      /\ \A x \in S : \E i \in DOMAIN SetToSeq(S) : SetToSeq(S)[i] = x
  BY <1>3, Listing
<1>6. Warnings(u) = SetToSeq(S)
  BY DEF Warnings, S
<1>7. \A m \in Broken(u) : Warning(u, m) \in S
  BY DEF S
<1>8. Warnings(u) \in Seq(Line)
  BY <1>4, <1>5, <1>6
<1>9. \A i \in DOMAIN SetToSeq(S) : SetToSeq(S)[i] \in S
  BY <1>5
<1>10. WarningsOf(Warnings(u), {u})
  BY <1>6, <1>9 DEF WarningsOf, S
<1>11. QED
  BY <1>5, <1>6, <1>7, <1>8, <1>10

\* The warnings of the functions of a file.
FunctionsOf(f) == {v \in Units : v.file = f /\ v.fn # NoFn}
Below(f) == FlattenSeq(SetToSeq({Warnings(u) : u \in FunctionsOf(f)}))

LEMMA BelowLines ==
  ASSUME NEW f
  PROVE  /\ Below(f) \in Seq(Line) /\ WarningsOf(Below(f), FunctionsOf(f))
         /\ \A u \in FunctionsOf(f) : \A m \in Broken(u) :
              \E i \in DOMAIN Below(f) : Below(f)[i] = Warning(u, m)
<1> DEFINE S == {Warnings(u) : u \in FunctionsOf(f)}
           g == [u \in FunctionsOf(f) |-> Warnings(u)]
<1>1. FunctionsOf(f) \subseteq Units
  BY DEF FunctionsOf
<1>2. S \subseteq Seq(Line)
  BY <1>1, WarningLines
<1>3. IsFiniteSet(S)
  <2>1. IsFiniteSet(FunctionsOf(f))
    BY <1>1, UnitAssumption, FS_Subset
  <2>2. DOMAIN g = FunctionsOf(f)
    OBVIOUS
  <2>3. S = {g[u] : u \in FunctionsOf(f)}
    OBVIOUS
  <2> HIDE DEF g, S
  <2>4. IsFiniteSet({g[u] : u \in FunctionsOf(f)})
    BY <2>1, <2>2, FiniteValues
  <2>5. QED
    BY <2>3, <2>4
<1>4. \A u \in FunctionsOf(f) : Warnings(u) \in S
  OBVIOUS
<1>5. \A w \in S : WarningsOf(w, FunctionsOf(f))
  BY <1>1, WarningLines DEF WarningsOf
<1> HIDE DEF S
<1>6. Below(f) = FlattenSeq(SetToSeq(S))
  BY DEF Below, S
<1>7. Below(f) \in Seq(Line) /\ Over(Below(f), S)
  BY <1>2, <1>3, <1>6, FlattenListing
<1>8. WarningsOf(Below(f), FunctionsOf(f))
  BY <1>5, <1>7 DEF Over, WarningsOf
<1>9. ASSUME NEW u \in FunctionsOf(f), NEW m \in Broken(u)
      PROVE  \E i \in DOMAIN Below(f) : Below(f)[i] = Warning(u, m)
  <2> DEFINE w == Warnings(u)
  <2>1. w \in S
    BY <1>4
  <2>2. PICK j \in DOMAIN w : w[j] = Warning(u, m)
    BY <1>1, WarningLines
  <2>3. w \in Seq(Line)
    BY <1>2, <2>1
  <2> HIDE DEF w
  <2>4. Amidst(Below(f), w, S \ {w}, Line)
    BY <1>2, <1>3, <1>6, <2>1, ListingAround
  <2>5. PICK a \in Seq(Line), b \in Seq(Line) : Below(f) = (a \o w) \o b
    BY <2>4 DEF Amidst
  <2>6. /\ Len(a) + j \in DOMAIN ((a \o w) \o b)
        /\ ((a \o w) \o b)[Len(a) + j] = w[j]
    BY <2>2, <2>3, <2>5, ConcatWithin
  <2>7. QED
    BY <2>2, <2>5, <2>6
<1>10. QED
  BY <1>7, <1>8, <1>9

\* The warnings of a file and of its functions.
Body(f) == Warnings(FileUnit(f)) \o Below(f)

\* w has the warnings of the units of S and no others.
AllWarnings(w, S) ==
  /\ WarningsOf(w, S)
  /\ \A u \in S : \A m \in Broken(u) : \E i \in DOMAIN w : w[i] = Warning(u, m)

UnitsOf(f) == {u \in Units : u.file = f}

LEMMA BodyLines ==
  ASSUME NEW f, FileUnit(f) \in Units \ {Top}
  PROVE  Body(f) \in Seq(Line) /\ AllWarnings(Body(f), UnitsOf(f))
<1> DEFINE a == Warnings(FileUnit(f))
           b == Below(f)
           w == a \o b
<1>1. /\ a \in Seq(Line) /\ WarningsOf(a, {FileUnit(f)})
      /\ \A m \in Broken(FileUnit(f)) : \E i \in DOMAIN a : a[i] = Warning(FileUnit(f), m)
  BY WarningLines
<1>2. /\ b \in Seq(Line) /\ WarningsOf(b, FunctionsOf(f))
      /\ \A u \in FunctionsOf(f) : \A m \in Broken(u) :
           \E i \in DOMAIN b : b[i] = Warning(u, m)
  BY BelowLines
<1> HIDE DEF a, b
<1>3. /\ w \in Seq(Line)
      /\ \A p \in DOMAIN a : p \in DOMAIN w /\ w[p] = a[p]
      /\ \A p \in DOMAIN b : Len(a) + p \in DOMAIN w /\ w[Len(a) + p] = b[p]
      /\ \A p \in DOMAIN w : \/ p \in DOMAIN a
                             \/ p - Len(a) \in DOMAIN b /\ w[p] = b[p - Len(a)]
  BY <1>1, <1>2, ConcatAt
<1> HIDE DEF w
<1>4. FileUnit(f) \in UnitsOf(f) /\ FunctionsOf(f) \subseteq UnitsOf(f)
  BY UnitShapes DEF UnitsOf, FunctionsOf
<1>5. WarningsOf(w, UnitsOf(f))
  BY <1>1, <1>2, <1>3, <1>4 DEF WarningsOf
<1>6. ASSUME NEW u \in UnitsOf(f), NEW m \in Broken(u)
      PROVE  \E i \in DOMAIN w : w[i] = Warning(u, m)
  <2>1. CASE u.fn # NoFn
    BY <1>2, <1>3, <2>1 DEF FunctionsOf, UnitsOf
  <2>2. CASE u.fn = NoFn
    <3>1. u = FileUnit(f)
      BY <2>2, UnitShapes DEF UnitsOf
    <3>2. QED
      BY <1>1, <1>3, <3>1
  <2>3. QED
    BY <2>1, <2>2
<1>7. QED
  BY <1>3, <1>5, <1>6 DEF AllWarnings, Body, w, a, b

\* w is the section of f: between its marks, if there are any, all its warnings.
Section(w, f) ==
  /\ w \in Seq(Line)
  /\ \A i \in DOMAIN w : w[i].unit.file = f /\ w[i].unit \in Units
  /\ \A u \in UnitsOf(f) : \A m \in Broken(u) : \E i \in DOMAIN w : w[i] = Warning(u, m)
  /\ \A i \in DOMAIN w : w[i].kind = "warning" =>
       \E u \in UnitsOf(f) : \E m \in Broken(u) : w[i] = Warning(u, m)
  /\ Grouped => \/ w = <<>>
                \/ /\ Len(w) >= 3 /\ w[1].kind = "heading" /\ w[Len(w)].kind = "separator"
                   /\ \A i \in DOMAIN w : 1 < i /\ i < Len(w) => w[i].kind = "warning"

LEMMA Fenced ==
  ASSUME NEW T, NEW x \in T, NEW y \in T, NEW a \in Seq(T)
  PROVE  LET w == (<<x>> \o a) \o <<y>> IN
         /\ w \in Seq(T) /\ Len(w) = Len(a) + 2 /\ w[1] = x /\ w[Len(w)] = y
         /\ DOMAIN w = 1 .. (Len(a) + 2) /\ Len(a) \in Nat
         /\ \A i \in DOMAIN a : i + 1 \in DOMAIN w /\ w[i + 1] = a[i]
         /\ \A i \in DOMAIN w : 1 < i /\ i < Len(w) => i - 1 \in DOMAIN a /\ w[i] = a[i - 1]
<1> DEFINE w == (<<x>> \o a) \o <<y>>
<1>1. w \in Seq(T) /\ Len(w) = Len(a) + 2 /\ Len(a) \in Nat
  OBVIOUS
<1>2. DOMAIN w = 1 .. (Len(a) + 2) /\ DOMAIN a = 1 .. Len(a)
  BY <1>1
<1>3. w[1] = x /\ w[Len(a) + 2] = y
  OBVIOUS
<1>4. \A i \in 1 .. Len(a) : w[i + 1] = a[i]
  OBVIOUS
<1> HIDE DEF w
<1>5. \A i \in DOMAIN a : i + 1 \in DOMAIN w /\ w[i + 1] = a[i]
  BY <1>1, <1>2, <1>4
<1>6. ASSUME NEW i \in DOMAIN w, 1 < i, i < Len(w)
      PROVE  i - 1 \in DOMAIN a /\ w[i] = a[i - 1]
  <2>1. i - 1 \in 1 .. Len(a) /\ (i - 1) + 1 = i
    BY <1>1, <1>2, <1>6
  <2>2. QED
    BY <1>2, <1>4, <2>1
<1>7. QED
  BY <1>1, <1>2, <1>3, <1>5, <1>6 DEF w

LEMMA FileSection ==
  ASSUME NEW f, FileUnit(f) \in Units \ {Top}
  PROVE  Section(CheckFile(f), f)
<1> DEFINE own == Warnings(FileUnit(f))
           below == Below(f)
           body == Body(f)
           x == Mark("heading", FileUnit(f))
           y == Mark("separator", FileUnit(f))
           headed == Grouped /\ HasAny(own, below)
<1>1. body \in Seq(Line) /\ AllWarnings(body, UnitsOf(f))
  BY BodyLines
<1>2. own \in Seq(Line) /\ below \in Seq(Line)
  BY WarningLines, BelowLines
<1>3. x \in Line /\ y \in Line /\ x.kind = "heading" /\ y.kind = "separator"
      /\ x.unit = FileUnit(f) /\ y.unit = FileUnit(f)
  BY DEF Mark, Line
<1>4. CheckFile(f) = (((IF headed THEN <<x>> ELSE <<>>) \o own) \o below)
                       \o (IF headed THEN <<y>> ELSE <<>>)
  BY DEF CheckFile, Below, FunctionsOf
<1>5. body = own \o below
  BY DEF Body
<1>6. FileUnit(f).file = f
  BY UnitShapes
<1>7. \A i \in DOMAIN body : body[i].unit.file = f /\ body[i].unit \in Units
                              /\ body[i].kind = "warning"
  BY <1>1 DEF AllWarnings, WarningsOf, Warning, UnitsOf
<1> HIDE DEF own, below, body, x, y
<1>8. CASE ~ headed
  <2>1. CheckFile(f) = body
    <3>1. CheckFile(f) = ((<<>> \o own) \o below) \o <<>>
      BY <1>4, <1>8
    <3> HIDE DEF headed
    <3>2. QED
      BY <1>2, <1>5, <3>1
  <2>2. Grouped => body = <<>>
    BY <1>2, <1>5, <1>8 DEF HasAny
  <2>3. QED
    BY <1>1, <1>7, <2>1, <2>2 DEF Section, AllWarnings, WarningsOf
<1>9. CASE headed
  <2> DEFINE w == (<<x>> \o body) \o <<y>>
  <2>1. CheckFile(f) = w
    <3>1. CheckFile(f) = ((<<x>> \o own) \o below) \o <<y>>
      BY <1>4, <1>9
    <3>2. (<<x>> \o own) \o below = <<x>> \o (own \o below)
      <4>1. <<x>> \in Seq(Line)
        BY <1>3
      <4> HIDE DEF headed
      <4>2. \A p, q, r \in Seq(Line) : (p \o q) \o r = p \o (q \o r)
        OBVIOUS
      <4>3. QED
        BY <1>2, <4>1, <4>2
    <3>3. QED
      BY <1>5, <3>1, <3>2
  <2>2. /\ w \in Seq(Line) /\ Len(w) = Len(body) + 2 /\ w[1] = x /\ w[Len(w)] = y
        /\ DOMAIN w = 1 .. (Len(body) + 2) /\ Len(body) \in Nat
        /\ \A i \in DOMAIN body : i + 1 \in DOMAIN w /\ w[i + 1] = body[i]
        /\ \A i \in DOMAIN w : 1 < i /\ i < Len(w) =>
             i - 1 \in DOMAIN body /\ w[i] = body[i - 1]
    BY <1>1, <1>3, Fenced
  <2>3. Len(body) # 0
    <3>1. own # <<>> \/ below # <<>>
      BY <1>9 DEF HasAny
    <3> HIDE DEF headed
    <3>2. QED
      BY <1>2, <1>5, <3>1
  <2> HIDE DEF w, headed
  <2>4. \A i \in DOMAIN w : w[i] = x \/ w[i] = y \/ \E j \in DOMAIN body : w[i] = body[j]
    BY <2>2
  <2>5. \A i \in DOMAIN w : w[i].unit.file = f /\ w[i].unit \in Units
    BY <1>3, <1>6, <1>7, <2>4
  <2>6. \A u \in UnitsOf(f) : \A m \in Broken(u) : \E i \in DOMAIN w : w[i] = Warning(u, m)
    BY <1>1, <2>2 DEF AllWarnings
  <2>7. \A i \in DOMAIN w : w[i].kind = "warning" =>
          \E u \in UnitsOf(f) : \E m \in Broken(u) : w[i] = Warning(u, m)
    BY <1>1, <1>3, <2>4 DEF AllWarnings, WarningsOf
  <2>8. /\ Len(w) >= 3 /\ w[1].kind = "heading" /\ w[Len(w)].kind = "separator"
        /\ \A i \in DOMAIN w : 1 < i /\ i < Len(w) => w[i].kind = "warning"
    BY <1>3, <1>7, <2>2, <2>3
  <2>9. QED
    BY <2>1, <2>2, <2>5, <2>6, <2>7, <2>8 DEF Section
<1>10. QED
  BY <1>8, <1>9

FileNames == {u.file : u \in Units \ {Top}}
Sections == {CheckFile(u.file) : u \in Units \ {Top}}
Rest == FlattenSeq(SetToSeq(Sections))
NoLine(w, f) == \A i \in DOMAIN w : w[i].unit.file # f

\* In x there is a section of f, and no line of it elsewhere.
Sectioned(x, f) ==
  \E a, b, w \in Seq(Line) :
    x = (a \o w) \o b /\ Section(w, f) /\ NoLine(a, f) /\ NoLine(b, f)

LEMMA RestLines ==
  /\ Rest \in Seq(Line) /\ Over(Rest, Sections)
  /\ \A x \in Sections : \E f \in FileNames : Section(x, f)
  /\ \A f \in FileNames : Sectioned(Rest, f)
<1>1. \A f \in FileNames : FileUnit(f) \in Units \ {Top}
  BY UnitShapes DEF FileNames
<1>2. \A f \in FileNames : Section(CheckFile(f), f)
  BY <1>1, FileSection
<1>3. \A x \in Sections : \E f \in FileNames : x = CheckFile(f)
  BY DEF Sections, FileNames
<1>4. \A f \in FileNames : CheckFile(f) \in Sections
  BY DEF Sections, FileNames
<1>5. Sections \subseteq Seq(Line)
  BY <1>2, <1>3 DEF Section
<1>6. IsFiniteSet(Sections)
  <2> DEFINE U == Units \ {Top}
             g == [u \in U |-> CheckFile(u.file)]
  <2>1. IsFiniteSet(U)
    BY UnitAssumption, FS_Subset
  <2>2. DOMAIN g = U /\ Sections = {g[u] : u \in U}
    BY DEF Sections
  <2> HIDE DEF g, U
  <2>3. QED
    BY <2>1, <2>2, FiniteValues
<1>7. Rest \in Seq(Line) /\ Over(Rest, Sections)
  BY <1>5, <1>6, FlattenListing DEF Rest
<1>8. ASSUME NEW f \in FileNames PROVE Sectioned(Rest, f)
  <2> DEFINE w == CheckFile(f)
  <2>1. w \in Sections /\ Section(w, f)
    BY <1>2, <1>4
  <2>2. ASSUME NEW x \in Sections \ {w} PROVE NoLine(x, f)
    <3>1. PICK e \in FileNames : x = CheckFile(e)
      BY <1>3
    <3>2. e # f /\ Section(x, e)
      BY <1>2, <3>1
    <3>3. QED
      BY <3>2 DEF Section, NoLine
  <2> HIDE DEF w
  <2>3. \A a : Over(a, Sections \ {w}) => NoLine(a, f)
    BY <2>2 DEF Over, NoLine
  <2>4. Amidst(Rest, w, Sections \ {w}, Line)
    BY <1>5, <1>6, <2>1, ListingAround DEF Rest
  <2>5. QED
    BY <1>5, <2>1, <2>3, <2>4 DEF Amidst, Sectioned
<1>9. QED
  BY <1>2, <1>3, <1>7, <1>8

\* What is printed of the global unit, before the files.
FirstLines ==
  Warnings(Top) \o (IF Grouped /\ Warnings(Top) # <<>> /\ Rest # <<>>
                    THEN <<Mark("separator", Top)>> ELSE <<>>)

LEMMA FrontLines ==
  /\ FirstLines \in Seq(Line) /\ \A i \in DOMAIN FirstLines : FirstLines[i].unit = Top
  /\ \A i \in DOMAIN FirstLines : FirstLines[i].kind = "warning" =>
       \E m \in Broken(Top) : FirstLines[i] = Warning(Top, m)
  /\ \A m \in Broken(Top) : \E i \in DOMAIN FirstLines : FirstLines[i] = Warning(Top, m)
<1> DEFINE a == Warnings(Top)
           t == Mark("separator", Top)
           b == IF Grouped /\ a # <<>> /\ Rest # <<>> THEN <<t>> ELSE <<>>
           w == a \o b
<1>1. /\ a \in Seq(Line) /\ WarningsOf(a, {Top})
      /\ \A m \in Broken(Top) : \E i \in DOMAIN a : a[i] = Warning(Top, m)
  BY UnitShapes, WarningLines
<1>2. t \in Line /\ t.unit = Top /\ t.kind # "warning"
  BY UnitShapes DEF Line, Mark
<1> HIDE DEF t
<1>3. b \in Seq(Line) /\ \A i \in DOMAIN b : b[i] = t
  BY <1>2
<1>4. FirstLines = w
  BY DEF FirstLines, t
<1> HIDE DEF a, b
<1>5. /\ w \in Seq(Line)
      /\ \A p \in DOMAIN a : p \in DOMAIN w /\ w[p] = a[p]
      /\ \A p \in DOMAIN w : \/ p \in DOMAIN a
                             \/ p - Len(a) \in DOMAIN b /\ w[p] = b[p - Len(a)]
  BY <1>1, <1>3, ConcatAt
<1> HIDE DEF w
<1>6. \A i \in DOMAIN w : w[i] = t \/ \E m \in Broken(Top) : w[i] = Warning(Top, m)
  BY <1>1, <1>3, <1>5 DEF WarningsOf
<1>7. \A m \in Broken(Top) : \E i \in DOMAIN w : w[i] = Warning(Top, m)
  BY <1>1, <1>5
<1>8. \A i \in DOMAIN w : w[i].unit = Top
  BY <1>2, <1>6 DEF Warning
<1>9. QED
  BY <1>2, <1>4, <1>5, <1>6, <1>7, <1>8

LEMMA GlobalLines ==
  /\ CheckGlobal \in Seq(Line)
  /\ \A u \in Units, m \in Metrics :
       (\E i \in DOMAIN CheckGlobal : CheckGlobal[i] = Warning(u, m)) <=> m \in Broken(u)
  /\ \A i \in DOMAIN CheckGlobal : CheckGlobal[i].kind = "warning" =>
       \E u \in Units, m \in Metrics : CheckGlobal[i] = Warning(u, m)
  /\ \A f \in FileNames : Sectioned(CheckGlobal, f)
<1> DEFINE a == FirstLines
           b == Rest
           x == a \o b
<1>1. CheckGlobal = x
  BY DEF CheckGlobal, FirstLines, Rest, Sections
<1>2. a \in Seq(Line) /\ b \in Seq(Line)
  BY FrontLines, RestLines
<1>3. /\ x \in Seq(Line)
      /\ \A p \in DOMAIN a : p \in DOMAIN x /\ x[p] = a[p]
      /\ \A p \in DOMAIN b : Len(a) + p \in DOMAIN x /\ x[Len(a) + p] = b[p]
      /\ \A p \in DOMAIN x : \/ p \in DOMAIN a
                             \/ p - Len(a) \in DOMAIN b /\ x[p] = b[p - Len(a)]
  BY <1>2, ConcatAt
<1> HIDE DEF x
<1>4. ASSUME NEW f \in FileNames PROVE Sectioned(x, f)
  <2>1. PICK c \in Seq(Line), d \in Seq(Line), w \in Seq(Line) :
          b = (c \o w) \o d /\ Section(w, f) /\ NoLine(c, f) /\ NoLine(d, f)
    BY RestLines DEF Sectioned
  <2>2. a \o c \in Seq(Line)
    BY <1>2, ConcatAt
  <2>3. x = ((a \o c) \o w) \o d
    <3>1. x = a \o ((c \o w) \o d)
      BY <2>1 DEF x
    <3>2. c \o w \in Seq(Line)
      BY ConcatAt
    <3> HIDE DEF a
    <3>3. \A q, r \in Seq(Line) : a \o (q \o r) = (a \o q) \o r
      BY <1>2, ConcatAssociates, SMTT(40)
    <3>4. a \o ((c \o w) \o d) = (a \o (c \o w)) \o d
      BY <3>2, <3>3
    <3>5. a \o (c \o w) = (a \o c) \o w
      BY <3>3
    <3>6. QED
      BY <3>1, <3>4, <3>5, Zenon
  <2>4. NoLine(a \o c, f)
    <3>1. f # NoFile
      BY UnitShapes DEF FileNames
    <3>2. NoLine(a, f)
      BY <3>1, FrontLines, UnitShapes DEF NoLine
    <3> DEFINE y == a \o c
    <3>3. \A p \in DOMAIN y : \/ p \in DOMAIN a /\ y[p] = a[p]
                              \/ p - Len(a) \in DOMAIN c /\ y[p] = c[p - Len(a)]
      BY <1>2, ConcatAt
    <3> HIDE DEF y
    <3>4. NoLine(y, f)
      BY <2>1, <3>2, <3>3 DEF NoLine
    <3>5. QED
      BY <3>4 DEF y
  <2>5. QED
    BY <2>1, <2>2, <2>3, <2>4 DEF Sectioned
<1>5. ASSUME NEW u \in Units, NEW m \in Metrics, NEW i \in DOMAIN x, x[i] = Warning(u, m)
      PROVE  m \in Broken(u)
  <2>1. Warning(u, m).kind = "warning" /\ \A v, n : Warning(u, m) = Warning(v, n) => u = v /\ m = n
    BY DEF Warning
  <2>2. CASE i \in DOMAIN a
    BY <1>3, <1>5, <2>1, <2>2, FrontLines
  <2>3. CASE i - Len(a) \in DOMAIN b /\ x[i] = b[i - Len(a)]
    <3>1. PICK w \in Sections : \E q \in DOMAIN w : b[i - Len(a)] = w[q]
      BY <2>3, RestLines DEF Over
    <3>2. PICK f \in FileNames : Section(w, f)
      BY RestLines
    <3>3. PICK v \in UnitsOf(f) : \E n \in Broken(v) : x[i] = Warning(v, n)
      BY <1>5, <2>1, <2>3, <3>1, <3>2 DEF Section
    <3>4. QED
      BY <1>5, <2>1, <3>3
  <2>4. QED
    BY <1>3, <2>2, <2>3
<1>6. ASSUME NEW u \in Units, NEW m \in Broken(u)
      PROVE  \E i \in DOMAIN x : x[i] = Warning(u, m)
  <2>1. CASE u = Top
    BY <1>3, <2>1, FrontLines
  <2>2. CASE u # Top
    <3> DEFINE f == u.file
    <3>1. f \in FileNames /\ u \in UnitsOf(f)
      BY <2>2 DEF FileNames, UnitsOf
    <3>2. PICK c \in Seq(Line), d \in Seq(Line), w \in Seq(Line) :
            x = (c \o w) \o d /\ Section(w, f)
      BY <1>4, <3>1 DEF Sectioned
    <3>3. PICK j \in DOMAIN w : w[j] = Warning(u, m)
      BY <3>1, <3>2 DEF Section
    <3>4. Len(c) + j \in DOMAIN ((c \o w) \o d) /\ ((c \o w) \o d)[Len(c) + j] = w[j]
      BY ConcatWithin
    <3>5. QED
      BY <3>2, <3>3, <3>4
  <2>3. QED
    BY <2>1, <2>2
<1>7. \A u \in Units, m \in Metrics : (\E i \in DOMAIN x : x[i] = Warning(u, m)) <=> m \in Broken(u)
  BY <1>5, <1>6
<1>8. ASSUME NEW i \in DOMAIN x, x[i].kind = "warning"
      PROVE  \E u \in Units, m \in Metrics : x[i] = Warning(u, m)
  <2>1. \A u : Broken(u) \subseteq Metrics
    BY DEF Broken
  <2>2. CASE i \in DOMAIN a
    BY <1>3, <1>8, <2>1, <2>2, FrontLines, UnitShapes
  <2>3. CASE i - Len(a) \in DOMAIN b /\ x[i] = b[i - Len(a)]
    <3>1. PICK w \in Sections : \E q \in DOMAIN w : b[i - Len(a)] = w[q]
      BY <2>3, RestLines DEF Over
    <3>2. PICK f \in FileNames : Section(w, f)
      BY RestLines
    <3>3. PICK v \in UnitsOf(f) : \E n \in Broken(v) : x[i] = Warning(v, n)
      BY <1>8, <2>3, <3>1, <3>2 DEF Section
    <3>4. QED
      BY <2>1, <3>3 DEF UnitsOf
  <2>4. QED
    BY <1>3, <2>2, <2>3
<1>9. QED
  BY <1>1, <1>3, <1>4, <1>7, <1>8

Lines(x, kind, f) == {i \in DOMAIN x : x[i].kind = kind /\ x[i].unit.file = f}

\* The lines of f in x are one section with a heading, warnings and a separator, or none.
OneSection(x, f) ==
  LET heads == Lines(x, "heading", f)  tails == Lines(x, "separator", f)
      warnings == Lines(x, "warning", f)
  IN  /\ Cardinality(heads) = Cardinality(tails)
      /\ Cardinality(heads) = IF warnings = {} THEN 0 ELSE 1
      /\ \A h \in heads, t \in tails : {i \in DOMAIN x : h < i /\ i < t} = warnings

\* Where kind stands in kinds, of length n, with L positions before it and k after it.
Places(kind, kinds, L, n, k) == {p \in 1 .. (L + n + k) : p - L \in 1 .. n /\ kinds[p - L] = kind}

\* kinds are those of a section.
SectionKinds(kinds, n) ==
  /\ n >= 3 /\ kinds[1] = "heading" /\ kinds[n] = "separator"
  /\ \A i \in 1 .. n : 1 < i /\ i < n => kinds[i] = "warning"

LEMMA SectionPlaces ==
  ASSUME NEW L \in Nat, NEW n \in Nat, NEW k \in Nat, NEW kinds, SectionKinds(kinds, n)
  PROVE  /\ Places("heading", kinds, L, n, k) = {L + 1}
         /\ Places("separator", kinds, L, n, k) = {L + n}
         /\ Places("warning", kinds, L, n, k)
              = {i \in 1 .. (L + n + k) : L + 1 < i /\ i < L + n}
         /\ L + 2 \in Places("warning", kinds, L, n, k)
<1>1. n >= 3
  BY DEF SectionKinds
<1>2. \A i \in 1 .. n : /\ (kinds[i] = "heading") <=> (i = 1)
                        /\ (kinds[i] = "separator") <=> (i = n)
                        /\ (kinds[i] = "warning") <=> (1 < i /\ i < n)
  BY DEF SectionKinds
<1>3. Places("heading", kinds, L, n, k) = {L + 1}
  BY <1>1, <1>2 DEF Places
<1>4. Places("separator", kinds, L, n, k) = {L + n}
  BY <1>1, <1>2 DEF Places
<1>5. Places("warning", kinds, L, n, k) = {i \in 1 .. (L + n + k) : L + 1 < i /\ i < L + n}
  BY <1>1, <1>2 DEF Places
<1>6. QED
  BY <1>1, <1>3, <1>4, <1>5

LEMMA SectionedOne ==
  ASSUME Grouped, NEW x, NEW f, Sectioned(x, f)
  PROVE  OneSection(x, f)
<1>1. PICK a \in Seq(Line), b \in Seq(Line), w \in Seq(Line) :
        x = (a \o w) \o b /\ Section(w, f) /\ NoLine(a, f) /\ NoLine(b, f)
  BY DEF Sectioned
<1>2. /\ Len(a) \in Nat /\ Len(w) \in Nat /\ Len(b) \in Nat
      /\ DOMAIN a = 1 .. Len(a) /\ DOMAIN w = 1 .. Len(w) /\ DOMAIN b = 1 .. Len(b)
      /\ a \o w \in Seq(Line) /\ Len(a \o w) = Len(a) + Len(w)
      /\ DOMAIN (a \o w) = 1 .. (Len(a) + Len(w))
  BY ConcatAt
<1>3. DOMAIN x = 1 .. (Len(a) + Len(w) + Len(b))
  BY <1>1, <1>2, ConcatAt
<1>4. \A i \in DOMAIN w : Len(a) + i \in DOMAIN x /\ x[Len(a) + i] = w[i]
  BY <1>1, ConcatWithin
<1>5. ASSUME NEW p \in DOMAIN x, x[p].unit.file = f
      PROVE  p - Len(a) \in DOMAIN w
  <2>1. CASE p \in DOMAIN a
    <3>1. p \in DOMAIN (a \o w) /\ (a \o w)[p] = a[p]
      BY <2>1, ConcatAt
    <3>2. x[p] = (a \o w)[p]
      BY <1>1, <1>2, <3>1, ConcatAt
    <3>3. QED
      BY <1>1, <1>5, <2>1, <3>1, <3>2 DEF NoLine
  <2>2. CASE p > Len(a) + Len(w)
    <3>1. p - Len(a \o w) \in DOMAIN b /\ x[p] = b[p - Len(a \o w)]
      <4>1. p \notin DOMAIN (a \o w)
        BY <1>2, <1>3, <2>2
      <4>2. QED
        BY <1>1, <1>2, <4>1, ConcatAt
    <3>2. QED
      BY <1>1, <1>5, <3>1 DEF NoLine
  <2>3. QED
    BY <1>2, <1>3, <2>1, <2>2
<1>6. \A i \in DOMAIN w : w[i].unit.file = f
  BY <1>1, SMTT(40) DEF Section
<1> DEFINE kinds == [i \in DOMAIN w |-> w[i].kind]
<1>7. PICK L \in Nat, n \in Nat, k \in Nat : L = Len(a) /\ n = Len(w) /\ k = Len(b)
  BY <1>2
<1>8. \A p \in DOMAIN x : p - L \in DOMAIN w => x[p] = w[p - L]
  <2> SUFFICES ASSUME NEW p \in DOMAIN x, p - L \in DOMAIN w PROVE x[p] = w[p - L]
    OBVIOUS
  <2>1. L + (p - L) = p
    BY <1>3, <1>7
  <2>2. QED
    BY <1>4, <1>7, <2>1
<1>9. \A kind : Lines(x, kind, f) = Places(kind, kinds, L, n, k)
  <2>1. DOMAIN x = 1 .. (L + n + k) /\ DOMAIN w = 1 .. n
    BY <1>2, <1>3, <1>7
  <2>2. QED
    BY <1>5, <1>6, <1>7, <1>8, <2>1 DEF Lines, Places
<1>10. CASE w = <<>>
  <2>1. n = 0
    BY <1>7, <1>10
  <2>2. \A kind : Places(kind, kinds, L, n, k) = {}
    BY <2>1 DEF Places
  <2>3. QED
    BY <1>9, <2>2, FS_EmptySet DEF OneSection
<1>11. CASE w # <<>>
  <2>1. SectionKinds(kinds, n)
    <3>1. /\ Len(w) >= 3 /\ w[1].kind = "heading" /\ w[Len(w)].kind = "separator"
          /\ \A i \in DOMAIN w : 1 < i /\ i < Len(w) => w[i].kind = "warning"
      BY <1>1, <1>11 DEF Section
    <3>2. DOMAIN w = 1 .. n /\ Len(w) = n
      BY <1>2, <1>7
    <3>3. 1 \in DOMAIN w /\ n \in DOMAIN w
      BY <3>1, <3>2
    <3>4. \A i \in DOMAIN w : kinds[i] = w[i].kind
      OBVIOUS
    <3> HIDE DEF kinds
    <3>5. QED
      BY <3>1, <3>2, <3>3, <3>4 DEF SectionKinds
  <2> HIDE DEF kinds
  <2>2. /\ Lines(x, "heading", f) = {L + 1} /\ Lines(x, "separator", f) = {L + n}
        /\ Lines(x, "warning", f) = {i \in DOMAIN x : L + 1 < i /\ i < L + n}
        /\ Lines(x, "warning", f) # {}
    <3>1. DOMAIN x = 1 .. (L + n + k)
      BY <1>3, <1>7
    <3>2. /\ Places("heading", kinds, L, n, k) = {L + 1}
          /\ Places("separator", kinds, L, n, k) = {L + n}
          /\ Places("warning", kinds, L, n, k)
               = {i \in 1 .. (L + n + k) : L + 1 < i /\ i < L + n}
          /\ L + 2 \in Places("warning", kinds, L, n, k)
      BY <2>1, SectionPlaces
    <3>3. QED
      BY <1>9, <3>1, <3>2
  <2>3. Cardinality(Lines(x, "heading", f)) = 1 /\ Cardinality(Lines(x, "separator", f)) = 1
    BY <2>2, FS_Singleton
  <2>4. QED
    BY <2>2, <2>3 DEF OneSection
<1>12. QED
  BY <1>10, <1>11

\* The rule a unit is held to is the last one read that matches it.
LEMMA BrokenIffDecided ==
  ASSUME LoadInv, NEW u \in Units, NEW m \in Metrics
  PROVE  m \in Broken(u) <=>
           /\ m \in Applies[Type(u)] /\ value[u][m] < Special
           /\ \E i \in DOMAIN read : Decides(i, u, m) /\ ~ Compare(value[u][m], read[i])
<1> DEFINE ms == Matching(u, patternMap[m])
           v == value[u][m]
<1>1. v \in Nat /\ Special \in Nat /\ read \in Seq(Rules)
  BY CounterAssumption DEF LoadInv, TypeOK
<1>2. ms \subseteq Int
  <2>1. patternMap[m] \in Seq(Rules)
    BY DEF LoadInv, TypeOK
  <2>2. DOMAIN patternMap[m] \subseteq Int
    BY <2>1
  <2>3. QED
    BY <2>2 DEF Matching
<1>3. m \in Broken(u) <=> /\ m \in Applies[Type(u)] /\ ms # {} /\ v < Special
                          /\ ~ Compare(v, patternMap[m][Highest(ms)])
  BY <1>1 DEF Broken, Holds
<1>4. LastRule(u, m)
  BY DEF LoadInv
<1>5. CASE ms = {} /\ \A i \in DOMAIN read :
             read[i].metric = m => ~ unitMatchesLimitPattern(u, read[i])
  BY <1>3, <1>5 DEF Decides
<1>6. ASSUME NEW k \in ms, \A j \in ms : k >= j, NEW i \in DOMAIN read, Decides(i, u, m),
             read[i] = patternMap[m][k]
      PROVE  m \in Broken(u) <=>
               /\ m \in Applies[Type(u)] /\ v < Special
               /\ \E j \in DOMAIN read : Decides(j, u, m) /\ ~ Compare(v, read[j])
  <2>1. Highest(ms) = k
    <3> HIDE DEF ms
    <3>1. \A x \in ms : (\A j \in ms : x >= j) => x = k
      BY <1>2, <1>6
    <3>2. QED
      BY <1>6, <3>1 DEF Highest, Max
  <2>2. ASSUME NEW j \in DOMAIN read, Decides(j, u, m) PROVE j = i
    <3>1. i \in 1 .. Len(read) /\ j \in 1 .. Len(read) /\ Len(read) \in Nat
      BY <1>1
    <3>2. ~ (i < j)
      BY <1>6, <2>2, <3>1 DEF Decides
    <3>3. ~ (j < i)
      BY <1>6, <2>2, <3>1 DEF Decides
    <3>4. QED
      BY <3>1, <3>2, <3>3
  <2> HIDE DEF ms, v
  <2>3. QED
    BY <1>3, <1>6, <2>1, <2>2
<1>7. QED
  BY <1>4, <1>5, <1>6 DEF LastRule

\* Nothing is printed before the end, and a warning is one of a unit and a metric.
OutInv ==
  /\ pc # "done" => out = <<>>
  /\ \A i \in DOMAIN out : out[i].kind = "warning" =>
       \E u \in Units, m \in Metrics : out[i] = Warning(u, m)

LimitsInv == LoadInv /\ OutInv /\ LastMatchDecides /\ SectionsByFile

\* Steps that change neither the rules nor what was printed.
LEMMA QuietStep ==
  ASSUME LimitsInv, UNCHANGED <<value, format, patternMap, out, read>>,
         \/ pc # "done" /\ pc' \in {"open", "read", "check", "exited"}
         \/ pc' = pc,
         opened' \in 0 .. MaxFiles
  PROVE  LimitsInv'
<1>1. TypeOK' /\ read' \in Seq(Rules)
  BY DEF LimitsInv, LoadInv, TypeOK
<1>2. ASSUME NEW u \in Units, NEW m \in Metrics PROVE LastRule(u, m)'
  <2>1. LastRule(u, m)
    BY DEF LimitsInv, LoadInv
  <2>2. QED
    BY <2>1 DEF LastRule, Decides
<1>3. LastMatchDecides'
  <2>1. CASE pc' # "done"
    BY <2>1 DEF LastMatchDecides
  <2>2. CASE pc' = "done"
    BY <2>2 DEF LimitsInv, LastMatchDecides, Decides
  <2>3. QED
    BY <2>1, <2>2
<1>4. SectionsByFile'
  <2>1. CASE pc' # "done"
    BY <2>1 DEF SectionsByFile
  <2>2. CASE pc' = "done"
    <3>1. (Grouped' <=> Grouped) /\ pc = "done" /\ out' = out
      BY <2>2 DEF Grouped
    <3>2. ASSUME Grouped, NEW f \in FileNames PROVE OneSection(out, f)
      BY <3>1, <3>2 DEF LimitsInv, SectionsByFile, OneSection, Lines, FileNames
    <3>3. ASSUME Grouped, NEW f \in FileNames PROVE OneSection(out', f)
      BY <3>1, <3>2, <3>3
    <3>4. QED
      BY <3>1, <3>3 DEF SectionsByFile, OneSection, Lines, FileNames
  <2>3. QED
    BY <2>1, <2>2
<1>5. OutInv'
  BY DEF LimitsInv, OutInv
<1>6. QED
  BY <1>1, <1>2, <1>3, <1>4, <1>5 DEF LimitsInv, LoadInv

LEMMA ReadRuleStep ==
  ASSUME LimitsInv, NEW r \in Rules, ReadRule(r)
  PROVE  LimitsInv'
<1>1. LoadInv
  BY DEF LimitsInv
<1>2. TypeOK'
  <2>1. /\ patternMap' = [patternMap EXCEPT ![r.metric] = Append(@, r)]
        /\ patternMap \in [Metrics -> Seq(Rules)] /\ r.metric \in Metrics
    BY <1>1, RuleAssumption DEF ReadRule, Listed, LoadInv, TypeOK
  <2>2. patternMap' \in [Metrics -> Seq(Rules)]
    BY <2>1
  <2>3. ASSUME NEW m \in Metrics, NEW i \in DOMAIN patternMap'[m]
        PROVE  patternMap'[m][i].metric = m
    <3>1. \A j \in DOMAIN patternMap[m] : patternMap[m][j].metric = m
      BY <1>1 DEF LoadInv, TypeOK
    <3>2. CASE m # r.metric
      BY <2>1, <2>3, <3>1, <3>2
    <3>3. CASE m = r.metric
      <4>1. patternMap'[m] = Append(patternMap[m], r) /\ patternMap[m] \in Seq(Rules)
        BY <2>1, <3>3
      <4>2. \/ i \in DOMAIN patternMap[m] /\ patternMap'[m][i] = patternMap[m][i]
            \/ patternMap'[m][i] = r
        BY <2>3, <4>1
      <4>3. QED
        BY <3>1, <3>3, <4>2
    <3>4. QED
      BY <3>2, <3>3
  <2>4. QED
    BY <1>1, <2>2, <2>3 DEF LoadInv, TypeOK, ReadRule
<1>3. read' \in Seq(Rules)
  BY <1>1 DEF LoadInv, ReadRule
<1>4. \A u \in Units, m \in Metrics : LastRule(u, m)'
  BY <1>1, ReadRuleLast
<1>5. pc' # "done"
  BY DEF ReadRule
<1>6. OutInv'
  BY DEF LimitsInv, OutInv, ReadRule
<1>7. QED
  BY <1>2, <1>3, <1>4, <1>5, <1>6 DEF LimitsInv, LoadInv, LastMatchDecides, SectionsByFile

LEMMA CheckStep ==
  ASSUME LimitsInv, Check
  PROVE  LimitsInv'
<1>1. LoadInv
  BY DEF LimitsInv
<1>2. /\ out' = CheckGlobal /\ value' = value /\ format' = format
      /\ opened' = opened /\ patternMap' = patternMap /\ read' = read /\ pc' = "done"
  BY DEF Check
<1>3. TypeOK' /\ read' \in Seq(Rules)
  <2>1. \A i \in DOMAIN out' : out'[i].unit \in Units
    <3>1. out' \in Seq(Line)
      BY <1>2, GlobalLines
    <3>2. \A i \in DOMAIN out' : out'[i] \in Line
      BY <3>1
    <3>3. \A l \in Line : l.unit \in Units
      BY DEF Line
    <3>4. QED
      BY <3>2, <3>3
  <2>2. QED
    BY <1>1, <1>2, <2>1 DEF LoadInv, TypeOK
<1>4. ASSUME NEW u \in Units, NEW m \in Metrics PROVE LastRule(u, m)'
  <2>1. LastRule(u, m)
    BY <1>1 DEF LoadInv
  <2>2. QED
    BY <1>2, <2>1 DEF LastRule, Decides
<1>5. LastMatchDecides'
  <2>1. ASSUME NEW u \in Units, NEW m \in Metrics
        PROVE  (\E i \in DOMAIN out' : out'[i] = Warning(u, m))
                 <=> /\ m \in Applies[Type(u)] /\ value[u][m] < Special
                     /\ \E i \in DOMAIN read : Decides(i, u, m) /\ ~ Compare(value[u][m], read[i])
    BY <1>1, <1>2, GlobalLines, BrokenIffDecided
  <2>2. QED
    BY <1>2, <2>1 DEF LastMatchDecides, Decides
<1>6. SectionsByFile'
  <2>1. ASSUME Grouped, NEW f \in FileNames PROVE OneSection(out', f)
    <3>1. Sectioned(out', f)
      BY <1>2, GlobalLines
    <3>2. QED
      BY <2>1, <3>1, SectionedOne
  <2>2. Grouped' <=> Grouped
    BY <1>2 DEF Grouped
  <2>3. QED
    BY <2>1, <2>2 DEF SectionsByFile, OneSection, Lines, FileNames
<1>7. OutInv'
  BY <1>2, GlobalLines DEF OutInv
<1>8. QED
  BY <1>3, <1>4, <1>5, <1>6, <1>7 DEF LimitsInv, LoadInv

LEMMA LimitsNext == LimitsInv /\ [Next]_vars => LimitsInv'
<1> SUFFICES ASSUME LimitsInv, [Next]_vars PROVE LimitsInv'
  OBVIOUS
<1>1. opened \in 0 .. MaxFiles
  BY DEF LimitsInv, LoadInv, TypeOK
<1>2. CASE OpenFile
  BY <1>1, <1>2, BoundAssumption, QuietStep DEF OpenFile
<1>3. CASE Fail
  BY <1>1, <1>3, QuietStep DEF Fail
<1>4. ASSUME NEW r \in Rules, ReadRule(r) PROVE LimitsInv'
  BY <1>4, ReadRuleStep
<1>5. CASE EndOfFile
  BY <1>1, <1>5, QuietStep DEF EndOfFile
<1>6. CASE AllLoaded
  BY <1>1, <1>6, QuietStep DEF AllLoaded
<1>7. CASE Check
  BY <1>7, CheckStep
<1>8. CASE UNCHANGED vars
  BY <1>1, <1>8, QuietStep DEF vars
<1>9. QED
  BY <1>2, <1>3, <1>4, <1>5, <1>6, <1>7, <1>8 DEF Next

LEMMA LimitsInitially == Init => LimitsInv
BY LoadInit DEF LimitsInv, OutInv, LastMatchDecides, SectionsByFile, Init

LEMMA LimitsInvariant == Spec => []LimitsInv
BY LimitsInitially, LimitsNext, PTL DEF Spec

\* Every state of Limits has its type.
THEOREM TypesOK == Spec => []TypeOK
<1>1. LimitsInv => TypeOK
  BY DEF LimitsInv, LoadInv
<1>2. QED
  BY <1>1, LimitsInvariant, PTL

\* A metric of a unit gets a warning just when its value exceeds the limit of the last
\* rule that matches it, however many files the rules are spread over.
THEOREM LastMatchTheorem == Spec => []LastMatchDecides
<1>1. LimitsInv => LastMatchDecides
  BY DEF LimitsInv
<1>2. QED
  BY <1>1, LimitsInvariant, PTL

\* Grouped by file, the warnings of a file and its functions stand together, between one
\* heading and one separator, or the file is not mentioned.
THEOREM SectionsTheorem == Spec => []SectionsByFile
<1>1. LimitsInv => SectionsByFile
  BY DEF LimitsInv
<1>2. QED
  BY <1>1, LimitsInvariant, PTL
-----------------------------------------------------------------------------
(* The report: what its cells are, and that they stay. *)

\* The limits are checked after the report, and only then: what holds of Limits holds.
THEOREM ReportImplementsLimits == RSpec => Spec
<1>1. RInit => Init
  BY DEF RInit
<1>2. [RNext]_rvars => [Next]_vars
  BY DEF RNext, DumpUnit, CheckLimits, rvars, vars
<1>3. QED
  BY <1>1, <1>2, PTL DEF RSpec, Spec

LEMMA CounterKept ==
  ASSUME code' = code, NEW u, NEW m, NEW r
  PROVE  Counter(u, m, r)' = Counter(u, m, r)
<1> DEFINE S == IF r THEN Subtree(u) ELSE {u}
           f == [k \in Stored |-> Counted(k, S)]
           g == [l \in Literals \cup OtherLiterals |-> getSupplementary(l, u, r)]
           b == Type(u) \in {"function", "method"}
<1>1. Counter(u, m, r) = getCounter(m, f, g, b)
  BY Zenon DEF Counter
<1>2. f' = f
  BY DEF Counted
<1>3. \A l : getSupplementary(l, u, r)' = getSupplementary(l, u, r)
  BY DEF getSupplementary, Spellings
<1>4. g' = g
  BY <1>3
<1>5. Counter(u, m, r)' = getCounter(m, f', g', b)
  BY Zenon DEF Counter
<1> HIDE DEF f, g, b
<1>6. QED
  BY <1>1, <1>2, <1>4, <1>5, Zenon

LEMMA ValuesKept ==
  ASSUME code' = code
  PROVE  Values' = Values
<1>1. \A u, m : Counter(u, m, m \in Cumulative)' = Counter(u, m, m \in Cumulative)
  BY CounterKept
<1>2. QED
  BY <1>1 DEF Values

LEMMA CellsKept ==
  ASSUME UNCHANGED <<value, code, options>>, NEW u, NEW m
  PROVE  Cells(u, m)' = Cells(u, m)
<1>1. \A r : Counter(u, m, r)' = Counter(u, m, r)
  BY CounterKept
<1>2. \A r : DumpMetric(u, m, r)' = DumpMetric(u, m, r)
  BY <1>1 DEF DumpMetric
<1>3. Skipped' = Skipped
  BY DEF Skipped, IsTable
<1>4. NotApplicable(m)' = NotApplicable(m)
  BY <1>3 DEF NotApplicable
<1>5. /\ DumpMetric(u, m, FALSE)' = DumpMetric(u, m, FALSE)
      /\ DumpMetric(u, m, m \in Cumulative)' = DumpMetric(u, m, m \in Cumulative)
  BY <1>2
<1> DEFINE whole(none, skipped, local, total) ==
             IF m \notin Applies[Type(u)] THEN none
             ELSE (IF ~ LocalAndCumulative(m) THEN <<>>
                   ELSE IF Type(u) = "file" THEN local ELSE skipped) \o total
<1>6. Cells(u, m) = whole(NotApplicable(m), Skipped, DumpMetric(u, m, FALSE),
                          DumpMetric(u, m, m \in Cumulative))
  BY DEF Cells
<1>7. Cells(u, m)' = whole(NotApplicable(m)', Skipped', DumpMetric(u, m, FALSE)',
                           DumpMetric(u, m, m \in Cumulative)')
  BY DEF Cells
<1> HIDE DEF whole
<1>8. QED
  BY <1>3, <1>4, <1>5, <1>6, <1>7

HeadingPieces ==
  [i \in DOMAIN MetricOrder |->
     IF MetricOrder[i] \in options.metrics THEN Headings(MetricOrder[i]) ELSE <<>>]
CellPieces(u) ==
  [i \in DOMAIN MetricOrder |->
     IF MetricOrder[i] \in options.metrics THEN Cells(u, MetricOrder[i]) ELSE <<>>]

LEMMA Lanes ==
  /\ Heading = <<Blank, Blank>> \o FlattenSeq(HeadingPieces)
  /\ \A u : Row(u) = Names(u) \o FlattenSeq(CellPieces(u))
BY DEF Heading, Row, ForSelected, HeadingPieces, CellPieces

LEMMA HeadingKept ==
  ASSUME options' = options
  PROVE  Heading' = Heading
<1>1. HeadingPieces' = HeadingPieces
  BY DEF HeadingPieces
<1>2. Heading' = <<Blank, Blank>> \o FlattenSeq(HeadingPieces')
  BY DEF Heading, ForSelected, HeadingPieces
<1>3. QED
  BY <1>1, <1>2, Lanes

LEMMA RowKept ==
  ASSUME UNCHANGED <<value, code, options>>, NEW u
  PROVE  Row(u)' = Row(u)
<1>1. \A m : Cells(u, m)' = Cells(u, m)
  BY CellsKept
<1>2. CellPieces(u)' = CellPieces(u)
  BY <1>1 DEF CellPieces
<1>3. Names(u)' = Names(u)
  BY DEF Names, IsTable
<1>4. Row(u)' = Names(u)' \o FlattenSeq(CellPieces(u)')
  BY DEF Row, ForSelected, CellPieces
<1>5. QED
  BY <1>2, <1>3, <1>4, Lanes
-----------------------------------------------------------------------------
(* The report: the table, unit by unit. *)

Shown(u) == options.format /= "none" /\ Type(u) \in options.types

\* The rows are those of the units dump() has come to and shows, after the headings.
TableInv ==
  /\ value = Values
  /\ waiting \in Seq(Units) /\ (waiting /= <<>> => pc = "open")
  /\ \E T : table \in Seq(T)
  /\ \A i \in DOMAIN table : \/ IsTable /\ table[i] = Heading
                             \/ \E u \in Units : Shown(u) /\ table[i] = Row(u)
  /\ \A u \in Units : Shown(u) => \/ u \in Range(waiting)
                                  \/ \E i \in DOMAIN table : table[i] = Row(u)
  /\ \/ waiting = <<Top>> \o UnitOrder /\ table = <<>>
     \/ /\ Top \notin Range(waiting)
        /\ IsTable /\ Shown(Top) => table /= <<>> /\ table[1] = Heading

LEMMA TableInit == RInit => TableInv
<1> SUFFICES ASSUME RInit PROVE TableInv
  OBVIOUS
<1> DEFINE w == <<Top>> \o UnitOrder
<1>1. waiting = w /\ table = <<>> /\ value = Values /\ pc = "open"
  BY DEF RInit, Init
<1>2. Top \in Units /\ UnitOrder \in Seq(Units) /\ Range(UnitOrder) = Units \ {Top}
  BY UnitAssumption, ReportAssumption
<1>3. w \in Seq(Units)
  BY <1>2
<1>4. ASSUME NEW u \in Units PROVE u \in Range(w)
  <2>1. CASE u = Top
    <3>1. 1 \in DOMAIN w /\ w[1] = Top
      BY <1>2
    <3>2. QED
      BY <2>1, <3>1 DEF Range
  <2>2. CASE u # Top
    <3>1. PICK i \in DOMAIN UnitOrder : UnitOrder[i] = u
      BY <1>2, <2>2 DEF Range
    <3>2. <<Top>> \in Seq(Units)
      BY <1>2
    <3>3. Len(<<Top>>) + i \in DOMAIN w /\ w[Len(<<Top>>) + i] = UnitOrder[i]
      BY <1>2, <3>2, ConcatAt
    <3>4. QED
      BY <3>1, <3>3 DEF Range
  <2>3. QED
    BY <2>1, <2>2
<1>5. table \in Seq(Units)
  BY <1>1
<1> HIDE DEF w
<1>6. QED
  BY <1>1, <1>3, <1>4, <1>5 DEF TableInv, w

\* Nothing that the table is made of changes.
LEMMA TableSteady ==
  ASSUME UNCHANGED <<value, code, options>>
  PROVE  /\ Values' = Values /\ Heading' = Heading /\ \A u : Row(u)' = Row(u)
         /\ \A u : Shown(u)' <=> Shown(u)
         /\ IsTable' <=> IsTable
BY ValuesKept, HeadingKept, RowKept DEF Shown, IsTable

LEMMA Dequeue ==
  ASSUME NEW T, NEW s \in Seq(T), s # <<>>
  PROVE  /\ Head(s) \in T /\ Tail(s) \in Seq(T) /\ Range(s) = {Head(s)} \cup Range(Tail(s))
<1>1. /\ Len(s) \in Nat \ {0} /\ DOMAIN s = 1 .. Len(s)
      /\ Head(s) = s[1] /\ Tail(s) \in Seq(T) /\ DOMAIN Tail(s) = 1 .. (Len(s) - 1)
      /\ \A i \in 1 .. (Len(s) - 1) : Tail(s)[i] = s[i + 1]
  OBVIOUS
<1>2. Head(s) \in T
  OBVIOUS
<1>3. Range(Tail(s)) \subseteq Range(s)
  BY <1>1 DEF Range
<1>4. Head(s) \in Range(s)
  BY <1>1 DEF Range
<1>5. ASSUME NEW i \in DOMAIN s, i # 1 PROVE s[i] \in Range(Tail(s))
  <2>1. i - 1 \in DOMAIN Tail(s) /\ Tail(s)[i - 1] = s[(i - 1) + 1] /\ (i - 1) + 1 = i
    BY <1>1, <1>5
  <2>2. QED
    BY <2>1 DEF Range
<1>6. Range(s) \subseteq {Head(s)} \cup Range(Tail(s))
  BY <1>1, <1>5 DEF Range
<1>7. QED
  BY <1>1, <1>2, <1>3, <1>4, <1>6

LEMMA CheckLimitsTable ==
  ASSUME TableInv, UNCHANGED <<value, code, options, waiting, table>>,
         waiting = <<>> \/ pc' = pc
  PROVE  TableInv'
<1>1. /\ Values' = Values /\ Heading' = Heading /\ \A u : Row(u)' = Row(u)
      /\ \A u : Shown(u)' <=> Shown(u)
      /\ IsTable' <=> IsTable
  BY TableSteady
<1>2. /\ waiting' \in Seq(Units) /\ (waiting' /= <<>> => pc' = "open")
      /\ value' = Values' /\ \E T : table' \in Seq(T)
  BY <1>1 DEF TableInv
<1>3. \A i \in DOMAIN table' : \/ IsTable' /\ table'[i] = Heading'
                               \/ \E u \in Units : Shown(u)' /\ table'[i] = Row(u)'
  BY <1>1 DEF TableInv
<1>4. \A u \in Units : Shown(u)' => \/ u \in Range(waiting')
                                    \/ \E i \in DOMAIN table' : table'[i] = Row(u)'
  BY <1>1 DEF TableInv
<1>5. \/ waiting' = <<Top>> \o UnitOrder /\ table' = <<>>
      \/ /\ Top \notin Range(waiting')
         /\ IsTable' /\ Shown(Top)' => table' /= <<>> /\ table'[1] = Heading'
  BY <1>1 DEF TableInv
<1>6. QED
  BY <1>2, <1>3, <1>4, <1>5 DEF TableInv

LEMMA DumpUnitTable ==
  ASSUME TableInv, DumpUnit
  PROVE  TableInv'
<1> DEFINE u == Head(waiting)
           a == IF Shown(u) /\ IsTable /\ u = Top THEN <<Heading>> ELSE <<>>
           b == IF Shown(u) THEN <<Row(u)>> ELSE <<>>
<1>1. /\ waiting # <<>> /\ waiting' = Tail(waiting)
      /\ UNCHANGED <<value, code, options, pc>>
      /\ table' = (table \o a) \o b
  BY DEF DumpUnit, vars, Shown
<1>2. /\ Values' = Values /\ Heading' = Heading /\ \A v : Row(v)' = Row(v)
      /\ \A v : Shown(v)' <=> Shown(v)
      /\ IsTable' <=> IsTable
  BY <1>1, TableSteady
<1>3. /\ u \in Units /\ waiting' \in Seq(Units) /\ pc = "open"
      /\ Range(waiting) = {u} \cup Range(waiting')
  BY <1>1, Dequeue DEF TableInv
<1>4. PICK T0 : table \in Seq(T0)
  BY DEF TableInv
<1> DEFINE T == T0 \cup {Heading, Row(u)}
<1>5. table \in Seq(T) /\ a \in Seq(T) /\ b \in Seq(T)
  <2>1. table \in Seq(T)
    BY <1>4
  <2>2. Heading \in T /\ Row(u) \in T
    OBVIOUS
  <2> HIDE DEF T, u
  <2>3. a \in Seq(T) /\ b \in Seq(T)
    BY <2>2
  <2>4. QED
    BY <2>1, <2>2, <2>3
<1>6. /\ \A i \in DOMAIN a : a[i] = Heading /\ IsTable
      /\ \A i \in DOMAIN b : b[i] = Row(u) /\ Shown(u)
      /\ Shown(u) => 1 \in DOMAIN b /\ b[1] = Row(u)
      /\ IsTable /\ Shown(u) /\ u = Top => 1 \in DOMAIN a /\ a[1] = Heading
  OBVIOUS
<1> HIDE DEF u, a, b, T
<1>7. /\ table' \in Seq(T)
      /\ \A i \in DOMAIN table : i \in DOMAIN table' /\ table'[i] = table[i]
      /\ \A i \in DOMAIN a : Len(table) + i \in DOMAIN table' /\ table'[Len(table) + i] = a[i]
      /\ \A i \in DOMAIN b : \E j \in DOMAIN table' : table'[j] = b[i]
      /\ \A i \in DOMAIN table' : \/ i \in DOMAIN table
                                  \/ \E j \in DOMAIN a : table'[i] = a[j]
                                  \/ \E j \in DOMAIN b : table'[i] = b[j]
  <2> DEFINE x == table \o a
             y == x \o b
  <2>1. /\ x \in Seq(T)
        /\ \A i \in DOMAIN table : i \in DOMAIN x /\ x[i] = table[i]
        /\ \A i \in DOMAIN a : Len(table) + i \in DOMAIN x /\ x[Len(table) + i] = a[i]
        /\ \A i \in DOMAIN x : i \in DOMAIN table \/ \E j \in DOMAIN a : x[i] = a[j]
    BY <1>5, ConcatAt
  <2> HIDE DEF x
  <2>2. /\ y \in Seq(T)
        /\ \A i \in DOMAIN x : i \in DOMAIN y /\ y[i] = x[i]
        /\ \A i \in DOMAIN b : \E j \in DOMAIN y : y[j] = b[i]
        /\ \A i \in DOMAIN y : i \in DOMAIN x \/ \E j \in DOMAIN b : y[i] = b[j]
    <3>1. /\ y \in Seq(T)
          /\ \A i \in DOMAIN x : i \in DOMAIN y /\ y[i] = x[i]
          /\ \A i \in DOMAIN b : Len(x) + i \in DOMAIN y /\ y[Len(x) + i] = b[i]
          /\ \A i \in DOMAIN y : \/ i \in DOMAIN x
                                 \/ i - Len(x) \in DOMAIN b /\ y[i] = b[i - Len(x)]
      BY <1>5, <2>1, ConcatAt
    <3> HIDE DEF y
    <3>2. QED
      BY <3>1
  <2>3. table' = y
    BY <1>1 DEF x
  <2> HIDE DEF y
  <2>4. QED
    BY <2>1, <2>2, <2>3
<1>8. \A i \in DOMAIN table' : \/ IsTable /\ table'[i] = Heading
                               \/ \E v \in Units : Shown(v) /\ table'[i] = Row(v)
  BY <1>3, <1>6, <1>7, SMTT(40) DEF TableInv
<1>9. \A v \in Units : Shown(v) => \/ v \in Range(waiting')
                                   \/ \E i \in DOMAIN table' : table'[i] = Row(v)
  <2> SUFFICES ASSUME NEW v \in Units, Shown(v), v \notin Range(waiting')
               PROVE  \E i \in DOMAIN table' : table'[i] = Row(v)
    OBVIOUS
  <2>1. CASE v = u
    BY <1>6, <1>7, <2>1
  <2>2. CASE v # u
    <3>1. v \notin Range(waiting)
      BY <1>3, <2>2
    <3>2. PICK i \in DOMAIN table : table[i] = Row(v)
      BY <3>1 DEF TableInv
    <3>3. QED
      BY <1>7, <3>2
  <2>3. QED
    BY <2>1, <2>2
<1>10. /\ Top \notin Range(waiting')
       /\ IsTable /\ Shown(Top) => table' /= <<>> /\ table'[1] = Heading
  <2>1. CASE waiting = <<Top>> \o UnitOrder /\ table = <<>>
    <3>1. UnitOrder \in Seq(Units) /\ Range(UnitOrder) = Units \ {Top} /\ Top \in Units
      BY ReportAssumption, UnitAssumption
    <3>2. Head(<<Top>> \o UnitOrder) = Top /\ Tail(<<Top>> \o UnitOrder) = UnitOrder
      BY <3>1
    <3>3. u = Top /\ waiting' = UnitOrder
      BY <1>1, <2>1, <3>2 DEF u
    <3>4. Len(table) = 0
      BY <2>1
    <3>5. IsTable /\ Shown(Top) => 1 \in DOMAIN table' /\ table'[1] = Heading
      BY <1>6, <1>7, <3>3, <3>4
    <3>6. IsTable /\ Shown(Top) => table' /= <<>>
      BY <3>5
    <3>7. QED
      BY <3>1, <3>3, <3>5, <3>6
  <2>2. CASE /\ Top \notin Range(waiting)
             /\ IsTable /\ Shown(Top) => table /= <<>> /\ table[1] = Heading
    <3>1. Top \notin Range(waiting')
      BY <1>3, <2>2
    <3>2. ASSUME IsTable, Shown(Top) PROVE table' /= <<>> /\ table'[1] = Heading
      <4>1. table /= <<>> /\ table[1] = Heading
        BY <2>2, <3>2
      <4>2. 1 \in DOMAIN table
        BY <1>4, <4>1
      <4>3. 1 \in DOMAIN table' /\ table'[1] = Heading
        BY <1>7, <4>1, <4>2
      <4>4. QED
        BY <4>3
    <3>3. QED
      BY <3>1, <3>2
  <2>3. QED
    BY <2>1, <2>2 DEF TableInv
<1>11. /\ value' = Values' /\ (waiting' /= <<>> => pc' = "open")
  BY <1>1, <1>2, <1>3 DEF TableInv
<1>12. QED
  BY <1>2, <1>3, <1>7, <1>8, <1>9, <1>10, <1>11 DEF TableInv
-----------------------------------------------------------------------------
(* The report: rows under their headings. *)

\* What may stand in the cells of a row of u.
CellSet(u) ==
  {Blank} \cup {Cell(m, r, v) : m \in Metrics, r \in BOOLEAN, v \in {0}}
    \cup {Cell(m, r, value[u][m]) : m \in Metrics, r \in BOOLEAN}
    \cup {Cell(m, r, Counter(u, m, r)) : m \in Metrics, r \in BOOLEAN}

\* Cell c is the one of unit u that belongs under heading h.
Under(c, h, u) ==
  IF /\ h.metric \in Applies[Type(u)]
     /\ h.recursed = (h.metric \in Cumulative) \/ Type(u) = "file"
  THEN c = Cell(h.metric, h.recursed, Counter(u, h.metric, h.recursed))
  ELSE c = Blank

\* The cells of a metric, and of its headings.
Fits(cs, hs, u) ==
  /\ Len(hs) = Len(cs) /\ cs \in Seq(CellSet(u)) /\ hs \in Seq(CellSet(u))
  /\ \A q \in DOMAIN hs : Under(cs[q], hs[q], u)

LEMMA FitsOne ==
  ASSUME NEW u, NEW c \in CellSet(u), NEW h \in CellSet(u), Under(c, h, u)
  PROVE  Fits(<<c>>, <<h>>, u)
BY DEF Fits

LEMMA FitsTwo ==
  ASSUME NEW u, NEW c \in CellSet(u), NEW h \in CellSet(u), Under(c, h, u),
         NEW d \in CellSet(u), NEW g \in CellSet(u), Under(d, g, u)
  PROVE  Fits(<<c, d>>, <<h, g>>, u)
<1>1. <<c, d>> \in Seq(CellSet(u)) /\ <<h, g>> \in Seq(CellSet(u))
  OBVIOUS
<1>2. ASSUME NEW q \in DOMAIN <<h, g>> PROVE Under(<<c, d>>[q], <<h, g>>[q], u)
  OBVIOUS
<1>3. QED
  BY <1>1, <1>2 DEF Fits

\* The cells of a metric, given whether it is cumulative.
LEMMA CellsOf ==
  ASSUME NEW u, NEW m, NEW c \in BOOLEAN, c = (m \in Cumulative)
  PROVE  /\ m \notin Applies[Type(u)] => Cells(u, m) = NotApplicable(m)
         /\ m \in Applies[Type(u)] =>
              Cells(u, m) = (IF ~ LocalAndCumulative(m) THEN <<>>
                             ELSE IF Type(u) = "file" THEN DumpMetric(u, m, FALSE)
                             ELSE Skipped) \o DumpMetric(u, m, c)
BY DEF Cells

LEMMA HeadingsOf ==
  ASSUME NEW m, NEW c \in BOOLEAN, c = (m \in Cumulative)
  PROVE  Headings(m) = IF LocalAndCumulative(m) THEN <<Cell(m, FALSE, 0), Cell(m, TRUE, 0)>>
                       ELSE <<Cell(m, c, 0)>>
BY DEF Headings

LEMMA ShortConcat ==
  ASSUME NEW x, NEW y
  PROVE  <<>> \o <<x>> = <<x>> /\ <<x>> \o <<y>> = <<x, y>>
<1> DEFINE T == {x, y}
           w == <<x>> \o <<y>>
<1>1. <<x>> \in Seq(T) /\ <<y>> \in Seq(T)
  OBVIOUS
<1>2. <<>> \o <<x>> = <<x>>
  BY <1>1
<1>3. w \in Seq(T) /\ Len(w) = 2 /\ w[1] = x /\ w[2] = y
  BY <1>1
<1> HIDE DEF w
<1>4. w = <<w[1], w[2]>>
  BY <1>3
<1>5. QED
  BY <1>2, <1>3, <1>4 DEF w

LEMMA DumpedCell ==
  ASSUME TableInv, NEW u \in Units, NEW m \in Metrics,
         ~ (options.format = "sparse" /\ Hidden(value[u][m])),
         NEW r \in BOOLEAN, r = (m \in Cumulative)
  PROVE  DumpMetric(u, m, r) = <<Cell(m, r, value[u][m])>>
BY DEF DumpMetric

LEMMA StoredValue ==
  ASSUME TableInv, NEW u \in Units, NEW m \in Metrics,
         NEW r \in BOOLEAN, r = (m \in Cumulative)
  PROVE  value[u][m] = Counter(u, m, r)
BY DEF TableInv, Values

LEMMA CellsFit ==
  ASSUME TableInv, IsTable, NEW u \in Units, NEW m \in Metrics
  PROVE  Fits(Cells(u, m), Headings(m), u)
<1> DEFINE local == Cell(m, FALSE, Counter(u, m, FALSE))
           total == Cell(m, TRUE, Counter(u, m, TRUE))
           LH == Cell(m, FALSE, 0)
           TH == Cell(m, TRUE, 0)
<1>1. options.format # "sparse" /\ Skipped = <<Blank>>
  BY DEF IsTable, Skipped
<1>2. /\ LH \in CellSet(u) /\ TH \in CellSet(u) /\ Blank \in CellSet(u)
      /\ local \in CellSet(u) /\ total \in CellSet(u)
  <2>1. \A r \in BOOLEAN : Cell(m, r, 0) \in CellSet(u)
    BY DEF CellSet
  <2>2. \A r \in BOOLEAN : Cell(m, r, Counter(u, m, r)) \in CellSet(u)
    BY DEF CellSet
  <2>3. Blank \in CellSet(u)
    BY DEF CellSet
  <2>4. QED
    BY <2>1, <2>2, <2>3
<1>3. /\ LH.metric = m /\ LH.recursed = FALSE
      /\ TH.metric = m /\ TH.recursed = TRUE
  BY DEF Cell
<1> HIDE DEF LH, TH
<1>4. m \notin Applies[Type(u)] => Under(Blank, LH, u) /\ Under(Blank, TH, u)
  BY <1>3 DEF Under
<1>5. m \in Applies[Type(u)] /\ m \in Cumulative => Under(total, TH, u)
  BY <1>3 DEF Under
<1>6. m \in Applies[Type(u)] /\ (m \notin Cumulative \/ Type(u) = "file") => Under(local, LH, u)
  <2>1. m \notin Cumulative => FALSE = (m \in Cumulative)
    OBVIOUS
  <2>2. QED
    BY <1>3, <2>1 DEF Under
<1>7. m \in Cumulative /\ Type(u) # "file" => Under(Blank, LH, u)
  BY <1>3 DEF Under
<1>8. CASE m \notin Cumulative
  <2>0. FALSE = (m \in Cumulative)
    BY <1>8
  <2>1. Headings(m) = <<LH>> /\ ~ LocalAndCumulative(m)
    BY <1>8, <2>0, HeadingsOf DEF LocalAndCumulative, LH
  <2>2. CASE m \notin Applies[Type(u)]
    <3>1. Cells(u, m) = <<Blank>>
      BY <1>1, <2>0, <2>1, <2>2, CellsOf DEF NotApplicable
    <3>2. QED
      BY <1>2, <1>4, <2>1, <2>2, <3>1, FitsOne
  <2>3. CASE m \in Applies[Type(u)]
    <3>2. DumpMetric(u, m, FALSE) = <<local>>
      <4>1. DumpMetric(u, m, FALSE) = <<Cell(m, FALSE, value[u][m])>>
        BY <1>1, <2>0, DumpedCell
      <4>2. value[u][m] = Counter(u, m, FALSE)
        BY <2>0, StoredValue
      <4>3. QED
        BY <4>1, <4>2
    <3> HIDE DEF local
    <3>3. Cells(u, m) = <<>> \o DumpMetric(u, m, FALSE)
      BY <2>0, <2>1, <2>3, CellsOf
    <3>4. Cells(u, m) = <<local>>
      BY <3>2, <3>3, ShortConcat
    <3>5. QED
      BY <1>2, <1>6, <1>8, <2>1, <2>3, <3>4, FitsOne
  <2>4. QED
    BY <2>2, <2>3
<1>9. CASE m \in Cumulative
  <2>1. TRUE = (m \in Cumulative)
    BY <1>9
  <2>2. DumpMetric(u, m, TRUE) = <<total>>
    <3>1. DumpMetric(u, m, TRUE) = <<Cell(m, TRUE, value[u][m])>>
      BY <1>1, <2>1, DumpedCell
    <3>2. value[u][m] = Counter(u, m, TRUE)
      BY <2>1, StoredValue
    <3>3. QED
      BY <3>1, <3>2
  <2> HIDE DEF total
  <2>3. CASE m \notin ReportLocal
    <3>1. Headings(m) = <<TH>> /\ ~ LocalAndCumulative(m)
      BY <1>9, <2>3 DEF Headings, LocalAndCumulative, TH
    <3>2. CASE m \notin Applies[Type(u)]
      <4>1. Cells(u, m) = <<Blank>>
        BY <1>1, <2>1, <3>1, <3>2, CellsOf DEF NotApplicable
      <4>2. QED
        BY <1>2, <1>4, <3>1, <3>2, <4>1, FitsOne
    <3>3. CASE m \in Applies[Type(u)]
      <4>1. Cells(u, m) = <<>> \o DumpMetric(u, m, TRUE)
        BY <2>1, <3>1, <3>3, CellsOf
      <4>2. Cells(u, m) = <<total>>
        BY <2>2, <4>1, ShortConcat
      <4>3. QED
        BY <1>2, <1>5, <1>9, <3>1, <3>3, <4>2, FitsOne
    <3>4. QED
      BY <3>2, <3>3
  <2>4. CASE m \in ReportLocal
    <3>1. Headings(m) = <<LH, TH>> /\ LocalAndCumulative(m)
      BY <1>9, <2>4 DEF Headings, LocalAndCumulative, LH, TH
    <3>2. CASE m \notin Applies[Type(u)]
      <4>1. Cells(u, m) = <<Blank>> \o <<Blank>>
        BY <1>1, <2>1, <3>1, <3>2, CellsOf DEF NotApplicable
      <4>2. Cells(u, m) = <<Blank, Blank>>
        BY <4>1, ShortConcat
      <4>3. QED
        BY <1>2, <1>4, <3>1, <3>2, <4>2, FitsTwo
    <3>3. CASE m \in Applies[Type(u)] /\ Type(u) = "file"
      <4>1. DumpMetric(u, m, FALSE) = <<local>>
        BY <1>1, <1>9 DEF DumpMetric
      <4> HIDE DEF local
      <4>2. Cells(u, m) = DumpMetric(u, m, FALSE) \o DumpMetric(u, m, TRUE)
        BY <2>1, <3>1, <3>3, CellsOf
      <4>3. Cells(u, m) = <<local, total>>
        BY <2>2, <4>1, <4>2, ShortConcat
      <4>4. QED
        BY <1>2, <1>5, <1>6, <1>9, <3>1, <3>3, <4>3, FitsTwo
    <3>4. CASE m \in Applies[Type(u)] /\ Type(u) # "file"
      <4>1. Cells(u, m) = <<Blank>> \o DumpMetric(u, m, TRUE)
        BY <1>1, <2>1, <3>1, <3>4, CellsOf
      <4>2. Cells(u, m) = <<Blank, total>>
        BY <2>2, <4>1, ShortConcat
      <4>3. QED
        BY <1>2, <1>5, <1>7, <1>9, <3>1, <3>4, <4>2, FitsTwo
    <3>5. QED
      BY <3>2, <3>3, <3>4
  <2>5. QED
    BY <2>3, <2>4
<1>10. QED
  BY <1>8, <1>9

\* What follows the names in the row of u, and what follows the blanks in the heading,
\* have the same places.
LEMMA LanesFit ==
  ASSUME TableInv, IsTable, NEW u \in Units
  PROVE  /\ FlattenSeq(HeadingPieces) \in Seq(CellSet(u))
         /\ FlattenSeq(CellPieces(u)) \in Seq(CellSet(u))
         /\ Len(FlattenSeq(HeadingPieces)) = Len(FlattenSeq(CellPieces(u)))
         /\ \A p \in DOMAIN FlattenSeq(HeadingPieces) :
              Under(FlattenSeq(CellPieces(u))[p], FlattenSeq(HeadingPieces)[p], u)
<1> DEFINE hs == HeadingPieces
           cs == CellPieces(u)
           T == CellSet(u)
<1>1. MetricOrder \in Seq(Metrics)
  BY ReportAssumption
<1>2. ASSUME NEW i \in DOMAIN MetricOrder PROVE Fits(cs[i], hs[i], u)
  <2>1. MetricOrder[i] \in Metrics
    BY <1>1
  <2>2. CASE MetricOrder[i] \in options.metrics
    <3>1. cs[i] = Cells(u, MetricOrder[i]) /\ hs[i] = Headings(MetricOrder[i])
      BY <2>2 DEF HeadingPieces, CellPieces
    <3>2. QED
      BY <2>1, <3>1, CellsFit
  <2>3. CASE MetricOrder[i] \notin options.metrics
    <3>1. cs[i] = <<>> /\ hs[i] = <<>>
      BY <2>3 DEF HeadingPieces, CellPieces
    <3>2. Fits(<<>>, <<>>, u)
      BY DEF Fits
    <3>3. QED
      BY <3>1, <3>2
  <2>4. QED
    BY <2>2, <2>3
<1>3. PICK n \in Nat : DOMAIN MetricOrder = 1 .. n
  BY <1>1
<1>4. DOMAIN hs = 1 .. n /\ DOMAIN cs = 1 .. n
  BY <1>3 DEF HeadingPieces, CellPieces
<1>5. \A i \in 1 .. n : /\ cs[i] \in Seq(T) /\ hs[i] \in Seq(T) /\ Len(hs[i]) = Len(cs[i])
                        /\ \A q \in DOMAIN hs[i] : Under(cs[i][q], hs[i][q], u)
  BY <1>2, <1>3 DEF Fits
<1>6. hs = [i \in 1 .. n |-> hs[i]] /\ cs = [i \in 1 .. n |-> cs[i]]
  BY <1>3 DEF HeadingPieces, CellPieces
<1> HIDE DEF hs, cs, T
<1>7. hs \in Seq(Seq(T)) /\ cs \in Seq(Seq(T)) /\ Len(hs) = n /\ Len(cs) = n
  <2>1. \A i \in 1 .. n : hs[i] \in Seq(T) /\ cs[i] \in Seq(T)
    BY <1>5
  <2> DEFINE Q == Seq(T)
  <2> HIDE DEF Q
  <2>2. \A i \in 1 .. n : hs[i] \in Q /\ cs[i] \in Q
    BY <2>1 DEF Q
  <2>3. hs \in Seq(Q) /\ cs \in Seq(Q) /\ Len(hs) = n /\ Len(cs) = n
    BY <1>6, <2>2
  <2>4. QED
    BY <2>3 DEF Q
<1>8. \A i \in 1 .. Len(hs) : Len(hs[i]) = Len(cs[i])
  BY <1>5, <1>7
<1>9. /\ FlattenSeq(hs) \in Seq(T) /\ FlattenSeq(cs) \in Seq(T)
      /\ Aligned(FlattenSeq(hs), FlattenSeq(cs), hs, cs)
  BY <1>7, <1>8, FlattenAligned
<1>10. \A p \in DOMAIN FlattenSeq(hs) : Under(FlattenSeq(cs)[p], FlattenSeq(hs)[p], u)
  BY <1>4, <1>5, <1>9 DEF Aligned
<1>11. Len(FlattenSeq(hs)) = Len(FlattenSeq(cs))
  BY <1>9 DEF Aligned
<1>12. QED
  BY <1>9, <1>10, <1>11 DEF hs, cs, T

LEMMA NameCells ==
  /\ \A u : Name(u).metric = "name" /\ Name(u).value = u
  /\ Blank.metric # "name"
<1>1. \A u : Name(u).metric = "name" /\ Name(u).value = u
  BY DEF Name, Cell
<1>2. Blank.metric = ""
  BY DEF Blank, Cell
<1>3. QED
  BY <1>1, <1>2

\* The first cells of a row name its unit.
LEMMA RowNames ==
  ASSUME NEW u \in Units
  PROVE  /\ Names(u)[1].metric = "name"
         /\ IsTable => /\ \E x, y : Names(u) = <<x, y>>
                       /\ u = IF Names(u)[2].metric = "name" THEN Names(u)[2].value
                              ELSE Names(u)[1].value
         /\ ~ IsTable => Names(u) = <<Name(u)>> /\ u = Names(u)[1].value
<1>1. CASE IsTable /\ Type(u) = "function"
  <2>1. Names(u) = <<Name(FileUnit(u.file)), Name(u)>>
    BY <1>1 DEF Names
  <2>2. QED
    BY <1>1, <2>1 DEF Name, Cell
<1>2. CASE IsTable /\ Type(u) # "function"
  <2>1. Names(u) = <<Name(u), Blank>>
    BY <1>2 DEF Names
  <2>2. QED
    BY <1>2, <2>1, NameCells
<1>3. CASE ~ IsTable
  <2>1. Names(u) = <<Name(u)>>
    BY <1>3 DEF Names
  <2>2. QED
    BY <1>3, <2>1 DEF Name, Cell
<1>4. QED
  BY <1>1, <1>2, <1>3

LEMMA RowFits ==
  ASSUME TableInv, IsTable, NEW u \in Units
  PROVE  /\ Len(Row(u)) = Len(Heading) /\ Len(Row(u)) \in Nat
         /\ UnitOf(Row(u)) = u /\ Heading[1].metric # "name"
         /\ \A k \in 3 .. Len(Row(u)) : Under(Row(u)[k], Heading[k], u)
<1> DEFINE h == FlattenSeq(HeadingPieces)
           c == FlattenSeq(CellPieces(u))
<1>1. /\ h \in Seq(CellSet(u)) /\ c \in Seq(CellSet(u)) /\ Len(h) = Len(c)
      /\ \A p \in DOMAIN h : Under(c[p], h[p], u)
  BY LanesFit
<1>2. Heading = <<Blank, Blank>> \o h /\ Row(u) = Names(u) \o c
  BY Lanes
<1> HIDE DEF h, c
<1>3. PICK x, y : Names(u) = <<x, y>>
  BY RowNames
<1>4. ASSUME NEW v, NEW w, NEW s \in Seq(CellSet(u))
      PROVE  /\ Len(<<v, w>> \o s) = Len(s) + 2 /\ Len(s) \in Nat
             /\ (<<v, w>> \o s)[1] = v /\ (<<v, w>> \o s)[2] = w
             /\ \A k \in 3 .. (Len(s) + 2) : k - 2 \in DOMAIN s /\ (<<v, w>> \o s)[k] = s[k - 2]
  OBVIOUS
<1>5. /\ Len(Heading) = Len(h) + 2 /\ Len(h) \in Nat /\ Heading[1] = Blank
      /\ \A k \in 3 .. (Len(h) + 2) : k - 2 \in DOMAIN h /\ Heading[k] = h[k - 2]
  BY <1>1, <1>2, <1>4
<1>6. /\ Len(Row(u)) = Len(c) + 2 /\ Row(u)[1] = x /\ Row(u)[2] = y
      /\ \A k \in 3 .. (Len(c) + 2) : Row(u)[k] = c[k - 2]
  BY <1>1, <1>2, <1>3, <1>4
<1>7. UnitOf(Row(u)) = u
  BY <1>3, <1>6, RowNames DEF UnitOf
<1>8. Heading[1].metric # "name"
  BY <1>5, NameCells
<1>9. QED
  BY <1>1, <1>5, <1>6, <1>7, <1>8

LEMMA TableImpliesCells ==
  ASSUME TableInv
  PROVE  CellsUnderHeadings
<1> SUFFICES ASSUME Printed, IsTable, "global" \in options.types, NEW i \in Rows
             PROVE  /\ Len(table[i]) = Len(table[1])
                    /\ \A k \in 3 .. Len(table[i]) :
                         Under(table[i][k], table[1][k], UnitOf(table[i]))
  BY DEF CellsUnderHeadings, Under
<1>1. Shown(Top)
  BY DEF Shown, IsTable, Type
<1>2. table[1] = Heading
  <2>1. UnitOrder \in Seq(Units)
    BY ReportAssumption
  <2>2. <<Top>> \o UnitOrder # <<>>
    BY <2>1, UnitAssumption
  <2>3. QED
    BY <1>1, <2>2 DEF TableInv, Printed
<1>3. i \in DOMAIN table /\ table[i][1].metric = "name"
  BY DEF Rows
<1>4. PICK w \in Units : TRUE
  BY UnitAssumption
<1>5. Heading[1].metric # "name"
  BY <1>4, RowFits
<1>6. PICK u \in Units : table[i] = Row(u)
  BY <1>3, <1>5 DEF TableInv
<1>7. QED
  BY <1>2, <1>6, RowFits
-----------------------------------------------------------------------------
(* The report: every warning is about a value in it. *)

LEMMA DumpedType ==
  ASSUME NEW u, NEW m \in Metrics, NEW r \in BOOLEAN
  PROVE  DumpMetric(u, m, r) \in Seq(CellSet(u))
<1> DEFINE v == IF r = (m \in Cumulative) THEN value[u][m] ELSE Counter(u, m, r)
<1>1. DumpMetric(u, m, r) = <<>> \/ DumpMetric(u, m, r) = <<Cell(m, r, v)>>
  BY DEF DumpMetric
<1>2. Cell(m, r, v) \in CellSet(u)
  BY DEF CellSet
<1> DEFINE x == Cell(m, r, v)
           T == CellSet(u)
<1>3. x \in T /\ (DumpMetric(u, m, r) = <<>> \/ DumpMetric(u, m, r) = <<x>>)
  BY <1>1, <1>2
<1> HIDE DEF x, T
<1>4. <<>> \in Seq(T) /\ <<x>> \in Seq(T)
  BY <1>3
<1>5. DumpMetric(u, m, r) \in Seq(T)
  BY <1>3, <1>4
<1>6. QED
  BY <1>5 DEF T

LEMMA Whether == \A m : \E c \in BOOLEAN : c = (m \in Cumulative)
<1> SUFFICES ASSUME NEW m PROVE \E c \in BOOLEAN : c = (m \in Cumulative)
  OBVIOUS
<1>1. CASE m \in Cumulative
  <2>1. TRUE = (m \in Cumulative)
    BY <1>1
  <2>2. QED
    BY <2>1
<1>2. CASE m \notin Cumulative
  <2>1. FALSE = (m \in Cumulative)
    BY <1>2
  <2>2. QED
    BY <2>1
<1>3. QED
  BY <1>1, <1>2

\* The last of the cells of a metric that applies is of its value.
LEMMA CellsEnd ==
  ASSUME NEW u, NEW m \in Metrics
  PROVE  \E a \in Seq(CellSet(u)), c \in BOOLEAN :
           /\ c = (m \in Cumulative)
           /\ m \in Applies[Type(u)] => Cells(u, m) = a \o DumpMetric(u, m, c)
           /\ m \notin Applies[Type(u)] => Cells(u, m) = a
<1> DEFINE T == CellSet(u)
<1>1. PICK c \in BOOLEAN : c = (m \in Cumulative)
  BY Whether
<1>2. Skipped \in Seq(T) /\ <<>> \in Seq(T)
  <2>1. Blank \in T
    BY DEF CellSet
  <2> HIDE DEF T
  <2>2. QED
    BY <2>1 DEF Skipped
<1>3. DumpMetric(u, m, FALSE) \in Seq(T)
  BY DumpedType
<1> HIDE DEF T
<1>4. NotApplicable(m) \in Seq(T)
  BY <1>2, ConcatAt DEF NotApplicable
<1>5. CASE m \notin Applies[Type(u)]
  <2>1. Cells(u, m) = NotApplicable(m)
    BY <1>1, <1>5, CellsOf
  <2>2. QED
    BY <1>1, <1>4, <1>5, <2>1 DEF T
<1>6. CASE m \in Applies[Type(u)]
  <2> DEFINE a == IF ~ LocalAndCumulative(m) THEN <<>>
                  ELSE IF Type(u) = "file" THEN DumpMetric(u, m, FALSE)
                  ELSE Skipped
  <2>1. Cells(u, m) = a \o DumpMetric(u, m, c)
    BY <1>1, <1>6, CellsOf
  <2>2. a \in Seq(T)
    BY <1>2, <1>3
  <2> HIDE DEF a
  <2>3. QED
    BY <1>1, <1>6, <2>1, <2>2 DEF T
<1>7. QED
  BY <1>5, <1>6

LEMMA CellPiecesType ==
  ASSUME NEW u
  PROVE  CellPieces(u) \in Seq(Seq(CellSet(u))) /\ DOMAIN CellPieces(u) = DOMAIN MetricOrder
<1> DEFINE cs == CellPieces(u)
           Q == Seq(CellSet(u))
<1>1. MetricOrder \in Seq(Metrics)
  BY ReportAssumption
<1>2. ASSUME NEW m \in Metrics PROVE Cells(u, m) \in Q
  <2>1. PICK a \in Seq(CellSet(u)), c \in BOOLEAN :
          /\ m \in Applies[Type(u)] => Cells(u, m) = a \o DumpMetric(u, m, c)
          /\ m \notin Applies[Type(u)] => Cells(u, m) = a
    BY CellsEnd
  <2>2. DumpMetric(u, m, c) \in Seq(CellSet(u))
    BY DumpedType
  <2> DEFINE T == CellSet(u)
             d == DumpMetric(u, m, c)
             w == Cells(u, m)
  <2>3. a \in Seq(T) /\ d \in Seq(T) /\ (w = a \o d \/ w = a)
    BY <2>1, <2>2
  <2> HIDE DEF T, d, w
  <2>4. a \o d \in Seq(T)
    BY <2>3, ConcatAt
  <2>5. w \in Seq(T)
    BY <2>3, <2>4
  <2>6. QED
    BY <2>5 DEF T, w
<1>3. <<>> \in Q
  OBVIOUS
<1> HIDE DEF Q
<1>4. ASSUME NEW i \in DOMAIN MetricOrder PROVE cs[i] \in Q
  <2>1. MetricOrder[i] \in Metrics
    BY <1>1
  <2>2. QED
    BY <1>2, <1>3, <2>1 DEF CellPieces
<1>5. PICK n \in Nat : DOMAIN MetricOrder = 1 .. n
  BY <1>1
<1>6. cs = [i \in 1 .. n |-> cs[i]] /\ DOMAIN cs = 1 .. n
  BY <1>5 DEF CellPieces
<1> HIDE DEF cs
<1>7. cs \in Seq(Q)
  BY <1>4, <1>5, <1>6
<1>8. QED
  BY <1>5, <1>6, <1>7 DEF cs, Q

\* The value of a metric that is selected stands in the row.
LEMMA RowHasValue ==
  ASSUME NEW u \in Units, NEW m \in Metrics, m \in options.metrics, m \in Applies[Type(u)],
         NEW c \in BOOLEAN, c = (m \in Cumulative), NEW x, DumpMetric(u, m, c) = <<x>>
  PROVE  \E k \in DOMAIN Row(u) : Row(u)[k] = x
<1> DEFINE T == CellSet(u)
           s == CellPieces(u)
           f == FlattenSeq(s)
<1>1. PICK j \in DOMAIN MetricOrder : MetricOrder[j] = m
  BY ReportAssumption DEF Range
<1>2. s[j] = Cells(u, m)
  BY <1>1 DEF CellPieces
<1>3. s \in Seq(Seq(T)) /\ DOMAIN s = DOMAIN MetricOrder
  BY CellPiecesType
<1>4. j \in 1 .. Len(s)
  BY <1>3
<1>5. PICK a \in Seq(T) : s[j] = a \o <<x>>
  BY <1>2, CellsEnd
<1>6. <<x>> \in Seq(T)
  BY DumpedType
<1> HIDE DEF s, T
<1>7. Surrounded(f, s, j, T)
  BY <1>3, <1>4, FlattenAround
<1>8. PICK v \in Seq(T), w \in Seq(T) : f = (v \o s[j]) \o w
  BY <1>7 DEF Surrounded
<1>9. a \o <<x>> \in Seq(T) /\ Len(a) + 1 \in DOMAIN (a \o <<x>>) /\ (a \o <<x>>)[Len(a) + 1] = x
  BY <1>6
<1>10. \E p \in DOMAIN f : f[p] = x
  <2> DEFINE z == s[j]
             p == Len(a) + 1
  <2>1. z \in Seq(T) /\ p \in DOMAIN z /\ z[p] = x /\ f = (v \o z) \o w
    BY <1>5, <1>8, <1>9
  <2> HIDE DEF z, p
  <2>2. Len(v) + p \in DOMAIN ((v \o z) \o w) /\ ((v \o z) \o w)[Len(v) + p] = z[p]
    BY <2>1, ConcatWithin
  <2> HIDE DEF f
  <2>3. QED
    BY <2>1, <2>2
<1>11. f \in Seq(T)
  BY <1>3, FlattenAligned
<1> HIDE DEF f
<1>12. Row(u) = Names(u) \o f
  BY Lanes DEF f, s
<1>13. PICK p \in DOMAIN f : f[p] = x
  BY <1>10
<1>14. CASE IsTable
  <2>1. PICK y, z : Names(u) = <<y, z>>
    BY <1>14, RowNames
  <2>2. p + 2 \in DOMAIN (<<y, z>> \o f) /\ (<<y, z>> \o f)[p + 2] = f[p]
    BY <1>11
  <2>3. QED
    BY <1>12, <1>13, <2>1, <2>2
<1>15. CASE ~ IsTable
  <2> DEFINE y == Name(u)
  <2>1. Names(u) = <<y>>
    BY <1>15, RowNames
  <2> HIDE DEF y
  <2>2. p + 1 \in DOMAIN (<<y>> \o f) /\ (<<y>> \o f)[p + 1] = f[p]
    BY <1>11
  <2>3. QED
    BY <1>12, <1>13, <2>1, <2>2
<1>16. QED
  BY <1>14, <1>15

\* The row of u is found in the table by its name.
LEMMA RowIsNamed ==
  ASSUME NEW u \in Units
  PROVE  Row(u)[1].metric = "name" /\ UnitOf(Row(u)) = u
<1> DEFINE f == FlattenSeq(CellPieces(u))
           T == CellSet(u)
<1>1. f \in Seq(T)
  BY CellPiecesType, FlattenAligned
<1>2. Row(u) = Names(u) \o f
  BY Lanes
<1> HIDE DEF f, T
<1>3. CASE IsTable
  <2>1. PICK x, y : Names(u) = <<x, y>>
    BY <1>3, RowNames
  <2>2. Row(u)[1] = x /\ Row(u)[2] = y
    BY <1>1, <1>2, <2>1
  <2>3. QED
    BY <1>3, <2>1, <2>2, RowNames DEF UnitOf
<1>4. CASE ~ IsTable
  <2>1. Names(u) = <<Name(u)>>
    BY <1>4, RowNames
  <2>2. Row(u)[1] = Name(u)
    BY <1>1, <1>2, <2>1
  <2>3. QED
    BY <1>4, <2>1, <2>2, RowNames DEF UnitOf
<1>5. QED
  BY <1>3, <1>4

LEMMA TableImpliesWarnings ==
  ASSUME TableInv, LimitsInv
  PROVE  WarningsReported
<1> SUFFICES ASSUME NEW i \in DOMAIN out, out[i].kind = "warning",
                    options.format /= "none", Type(out[i].unit) \in options.types,
                    out[i].metric \in options.metrics,
                    ~ (options.format = "sparse" /\ value[out[i].unit][out[i].metric] = 0)
             PROVE  \E r \in Rows :
                      /\ UnitOf(table[r]) = out[i].unit
                      /\ \E k \in DOMAIN table[r] :
                           /\ table[r][k].metric = out[i].metric
                           /\ table[r][k].recursed = (out[i].metric \in Cumulative)
                           /\ table[r][k].value = value[out[i].unit][out[i].metric]
  BY DEF WarningsReported
<1>1. PICK u \in Units, m \in Metrics : out[i] = Warning(u, m)
  BY DEF LimitsInv, OutInv
<1>2. out[i].unit = u /\ out[i].metric = m
  BY <1>1 DEF Warning
<1>3. pc = "done"
  <2>1. out # <<>>
    OBVIOUS
  <2>2. QED
    BY <2>1 DEF LimitsInv, OutInv
<1>4. m \in Applies[Type(u)] /\ value[u][m] < Special
  BY <1>1, <1>3 DEF LimitsInv, LastMatchDecides
<1>5. value[u][m] \in Nat /\ Special \in Nat
  <2>1. value \in [Units -> [Metrics -> Counters]]
    BY DEF LimitsInv, LoadInv, TypeOK
  <2>2. value[u][m] \in Counters
    BY <2>1
  <2>3. QED
    BY <2>2, CounterAssumption
<1>6. ~ (options.format = "sparse" /\ Hidden(value[u][m]))
  BY <1>2, <1>4, <1>5 DEF Hidden
<1>7. waiting = <<>>
  BY <1>3 DEF TableInv
<1>8. Shown(u)
  BY <1>2 DEF Shown
<1>9. PICK r \in DOMAIN table : table[r] = Row(u)
  BY <1>7, <1>8 DEF TableInv, Range
<1>10. PICK c \in BOOLEAN : c = (m \in Cumulative)
  BY Whether
<1>11. DumpMetric(u, m, c) = <<Cell(m, c, value[u][m])>>
  BY <1>6, <1>10, DumpedCell
<1>12. PICK k \in DOMAIN Row(u) : Row(u)[k] = Cell(m, c, value[u][m])
  <2> DEFINE x == Cell(m, c, value[u][m])
  <2>1. DumpMetric(u, m, c) = <<x>> /\ m \in options.metrics
    BY <1>2, <1>11
  <2> HIDE DEF x
  <2>2. \E k \in DOMAIN Row(u) : Row(u)[k] = x
    BY <1>4, <1>10, <2>1, RowHasValue
  <2>3. QED
    BY <2>2 DEF x
<1>13. r \in Rows /\ UnitOf(table[r]) = u
  BY <1>9, RowIsNamed DEF Rows
<1>14. /\ table[r][k].metric = m /\ table[r][k].recursed = c
       /\ table[r][k].value = value[u][m]
  BY <1>9, <1>12 DEF Cell
<1>15. QED
  BY <1>2, <1>9, <1>10, <1>12, <1>13, <1>14

ReportInv == LimitsInv /\ TableInv

LEMMA ReportNext == ReportInv /\ [RNext]_rvars => ReportInv'
<1> SUFFICES ASSUME ReportInv, [RNext]_rvars PROVE ReportInv'
  OBVIOUS
<1>1. LimitsInv'
  <2>1. [Next]_vars
    BY DEF RNext, DumpUnit, CheckLimits, rvars, vars
  <2>2. QED
    BY <2>1, LimitsNext DEF ReportInv
<1>2. TableInv'
  <2>1. CASE DumpUnit
    BY <2>1, DumpUnitTable DEF ReportInv
  <2>2. CASE CheckLimits
    <3>1. value' = value
      BY <2>2 DEF CheckLimits, Next, OpenFile, Fail, ReadRule, EndOfFile, AllLoaded, Check
    <3>2. QED
      BY <2>2, <3>1, CheckLimitsTable DEF ReportInv, CheckLimits
  <2>3. CASE UNCHANGED rvars
    BY <2>3, CheckLimitsTable DEF ReportInv, rvars
  <2>4. QED
    BY <2>1, <2>2, <2>3 DEF RNext
<1>3. QED
  BY <1>1, <1>2 DEF ReportInv

LEMMA ReportInvariant == RSpec => []ReportInv
<1>1. RInit => ReportInv
  BY TableInit, LimitsInitially DEF RInit, ReportInv
<1>2. QED
  BY <1>1, ReportNext, PTL DEF RSpec

\* In a table, a value stands in the column of its metric, local or cumulative, and a row
\* has a cell for every heading, whatever metrics are selected.
THEOREM CellsTheorem == RSpec => []CellsUnderHeadings
<1>1. ReportInv => CellsUnderHeadings
  BY TableImpliesCells DEF ReportInv
<1>2. QED
  BY <1>1, ReportInvariant, PTL

\* A warning is about a value that stands in the report, if its unit and its metric do.
THEOREM WarningsTheorem == RSpec => []WarningsReported
<1>1. ReportInv => WarningsReported
  BY TableImpliesWarnings DEF ReportInv
<1>2. QED
  BY <1>1, ReportInvariant, PTL
-----------------------------------------------------------------------------
(* The report: the metrics made from the same tokens.                      *)
(* Kinds and spellings are at most as many as the tokens they are of, and  *)
(* grow with the units; what is left is that no sum or product wraps.      *)

HalsteadMetrics == HalsteadOperatorMetrics \cup HalsteadOperandMetrics \cup Literals

Total(c) ==
  SumFunctionOnSet(c, HalsteadOperatorMetrics) + SumFunctionOnSet(c, HalsteadOperandMetrics)
    + SumFunctionOnSet(c, Literals)

\* Counters and spellings that fit, and belong to the same tokens.
Countable(c, s) ==
  /\ \A m \in HalsteadMetrics : c[m] \in Nat
  /\ \A l \in Literals :
       IsFiniteSet(s[l]) /\ Cardinality(s[l]) <= c[l] /\ (s[l] = {} => c[l] = 0)
  /\ Total(c) * Scaling["VOCF"] < counter_t_Na

LEMMA MetricsFinite ==
  /\ IsFiniteSet(HalsteadOperatorMetrics) /\ IsFiniteSet(HalsteadOperandMetrics)
  /\ IsFiniteSet(Literals)
<1>1. IsFiniteSet(Literals)
  <2> DEFINE a == {"NUMERIC_CONSTANTS"}
             b == a \cup {"CHAR_CONSTS"}
             d == b \cup {"STRING_LITERALS"}
  <2>1. Literals = d \cup {"BODY_UNRESERVED_IDENTIFIERS"}
    BY DEF Literals
  <2>2. IsFiniteSet(a)
    BY FS_Singleton
  <2> HIDE DEF a
  <2>3. IsFiniteSet(b)
    BY <2>2, FS_AddElement
  <2> HIDE DEF b
  <2>4. IsFiniteSet(d)
    BY <2>3, FS_AddElement
  <2> HIDE DEF d
  <2>5. QED
    BY <2>1, <2>4, FS_AddElement
<1>2. QED
  BY <1>1, CalculatedAssumption

\* Of S, as many kinds as there are at least one of, and none only if there are none.
LEMMA KindsOfSum ==
  ASSUME NEW S, IsFiniteSet(S), NEW c, \A m \in S : c[m] \in Nat
  PROVE  /\ KindsOf(S, c) \in Nat /\ SumFunctionOnSet(c, S) \in Nat
         /\ KindsOf(S, c) <= SumFunctionOnSet(c, S)
         /\ KindsOf(S, c) = 0 => SumFunctionOnSet(c, S) = 0
<1> DEFINE K == {m \in S : c[m] > 0}
<1>1. IsFiniteSet(K) /\ Cardinality(K) \in Nat
  BY FS_Subset, FS_CardinalityType
<1>2. Cardinality(K) <= SumFunctionOnSet(c, S)
  BY KindsSummed
<1>3. SumFunctionOnSet(c, S) \in Nat
  BY SumTake
<1>4. ASSUME Cardinality(K) = 0 PROVE SumFunctionOnSet(c, S) = 0
  <2>1. K = {}
    <3> HIDE DEF K
    <3>1. QED
      BY <1>1, <1>4, FS_EmptySet
  <2>2. \A m \in S : c[m] = 0
    BY <2>1
  <2>3. QED
    BY <2>2, SumOfZeros
<1>5. KindsOf(S, c) = Cardinality(K)
  BY DEF KindsOf
<1> HIDE DEF K
<1>6. QED
  BY <1>1, <1>2, <1>3, <1>4, <1>5

LEMMA SpellingsOfSum ==
  ASSUME NEW c, NEW s, Countable(c, s)
  PROVE  /\ SpellingsOf(Literals, s) \in Nat
         /\ SpellingsOf(Literals, s) <= SumFunctionOnSet(c, Literals)
         /\ SpellingsOf(Literals, s) = 0 => SumFunctionOnSet(c, Literals) = 0
<1> DEFINE w == [l \in Literals |-> Cardinality(s[l])]
<1>1. IsFiniteSet(Literals) /\ Literals \in SUBSET Literals
  BY MetricsFinite
<1>2. \A l \in Literals : /\ IsFiniteSet(s[l]) /\ Cardinality(s[l]) <= c[l] /\ c[l] \in Nat
                          /\ (s[l] = {} => c[l] = 0)
  BY DEF Countable, HalsteadMetrics
<1>3. \A l \in Literals : w[l] \in Nat /\ (w[l] = 0 => c[l] = 0) /\ w[l] <= c[l]
  <2> SUFFICES ASSUME NEW l \in Literals
               PROVE  w[l] \in Nat /\ (w[l] = 0 => c[l] = 0) /\ w[l] <= c[l]
    OBVIOUS
  <2>1. Cardinality(s[l]) \in Nat
    BY <1>2, FS_CardinalityType
  <2>2. Cardinality(s[l]) = 0 => s[l] = {}
    BY <1>2, FS_EmptySet
  <2>3. QED
    BY <1>2, <2>1, <2>2
<1>4. SpellingsOf(Literals, s) = SumFunctionOnSet(w, Literals)
  BY DEF SpellingsOf
<1> HIDE DEF w
<1>5. SumFunctionOnSet(w, Literals) <= SumFunctionOnSet(c, Literals)
  BY <1>1, <1>2, <1>3, SumSmaller
<1>6. SumFunctionOnSet(w, Literals) \in Nat
  BY <1>1, <1>3, SumTake
<1>7. ASSUME SumFunctionOnSet(w, Literals) = 0 PROVE SumFunctionOnSet(c, Literals) = 0
  <2>1. ASSUME NEW l \in Literals PROVE c[l] = 0
    <3>1. w[l] <= SumFunctionOnSet(w, Literals)
      BY <1>1, <1>3, SumMember
    <3>2. w[l] = 0
      BY <1>3, <1>7, <3>1
    <3>3. QED
      BY <1>3, <3>2
  <2>2. QED
    BY <1>1, <2>1, SumOfZeros
<1>8. QED
  BY <1>4, <1>5, <1>6, <1>7

\* The arithmetic of vocabularies: a product that fits has factors that fit.
LEMMA Quotients ==
  ASSUME NEW n \in Nat, NEW k \in Nat, NEW v \in Nat \ {0}, v <= n
  PROVE  /\ n * k \in Nat
         /\ (n * k) \div v \in Nat /\ (n * k) \div v >= k /\ (n * k) \div v <= n * k
         /\ k > 0 => n <= n * k
<1>1. n * k \in Nat
  OBVIOUS
<1> DEFINE p == n * k
           q == p \div v
<1>2. v * k <= p
  OBVIOUS
<1>3. k > 0 => n <= p
  OBVIOUS
<1> HIDE DEF p
<1>4. p \in Nat
  BY <1>1 DEF p
<1>5. q \in Nat /\ v * q <= p /\ p < v * q + v
  BY <1>4
<1> HIDE DEF q
<1>6. q <= v * q
  BY <1>5
<1>7. v * k < v * (q + 1)
  BY <1>2, <1>4, <1>5
<1>8. k < q + 1
  BY <1>5, <1>7
<1>9. QED
  BY <1>1, <1>3, <1>4, <1>5, <1>6, <1>8 DEF p, q

LEMMA NoWrap ==
  ASSUME NEW n \in Nat, NEW k \in Nat, k > 0, n * k < counter_t_Na
  PROVE  n < Modulus /\ n * k < Modulus /\ n * k \in Nat /\ n < counter_t_Na
<1>1. n <= n * k /\ n * k \in Nat
  OBVIOUS
<1> DEFINE p == n * k
<1>2. p \in Nat /\ n <= p /\ p < counter_t_Na
  BY <1>1
<1> HIDE DEF p
<1>3. n < Modulus /\ p < Modulus /\ n < counter_t_Na
  BY <1>2, CalculatedAssumption DEF counter_t_Na
<1>4. QED
  BY <1>1, <1>3 DEF p

LEMMA Sums ==
  ASSUME NEW a \in Nat, NEW b \in Nat, NEW d \in Nat, a + b + d < Modulus
  PROVE  ((a % Modulus) + (((b % Modulus) + (d % Modulus)) % Modulus)) % Modulus = a + b + d
<1>1. Modulus \in Nat
  BY CalculatedAssumption
<1>2. a < Modulus /\ b < Modulus /\ d < Modulus /\ b + d < Modulus
  BY <1>1
<1>3. a % Modulus = a /\ b % Modulus = b /\ d % Modulus = d /\ (b + d) % Modulus = b + d
  BY <1>1, <1>2
<1>4. (a + (b + d)) % Modulus = a + b + d
  BY <1>1
<1>5. QED
  BY <1>3, <1>4

\* Vocabulary and length, where nothing wraps.
LEMMA Uncut ==
  ASSUME NEW c, NEW s, Countable(c, s)
  PROVE  /\ Length(c) = Total(c) /\ Length(c) \in Nat /\ Length(c) * Scaling["VOCF"] < counter_t_Na
         /\ Vocabulary(c, s) = KindsOf(HalsteadOperatorMetrics, c)
                                 + KindsOf(HalsteadOperandMetrics, c) + SpellingsOf(Literals, s)
         /\ Vocabulary(c, s) \in Nat /\ Vocabulary(c, s) <= Length(c)
         /\ Vocabulary(c, s) = 0 => Length(c) = 0
<1>1. /\ \A m \in HalsteadOperatorMetrics : c[m] \in Nat
      /\ \A m \in HalsteadOperandMetrics : c[m] \in Nat
      /\ \A m \in Literals : c[m] \in Nat
  BY DEF Countable, HalsteadMetrics
<1> DEFINE a == SumFunctionOnSet(c, HalsteadOperatorMetrics)
           b == SumFunctionOnSet(c, HalsteadOperandMetrics)
           d == SumFunctionOnSet(c, Literals)
           ka == KindsOf(HalsteadOperatorMetrics, c)
           kb == KindsOf(HalsteadOperandMetrics, c)
           kd == SpellingsOf(Literals, s)
           k == Scaling["VOCF"]
<1>2. ka \in Nat /\ a \in Nat /\ ka <= a /\ (ka = 0 => a = 0)
  BY <1>1, MetricsFinite, KindsOfSum
<1>3. kb \in Nat /\ b \in Nat /\ kb <= b /\ (kb = 0 => b = 0)
  BY <1>1, MetricsFinite, KindsOfSum
<1>4. kd \in Nat /\ d \in Nat /\ kd <= d /\ (kd = 0 => d = 0)
  BY <1>1, MetricsFinite, SpellingsOfSum, SumTake
<1>5. Total(c) = a + b + d /\ k \in Nat /\ k > 0 /\ (a + b + d) * k < counter_t_Na
  BY CalculatedAssumption DEF Total, Countable
<1>6. Length(c) = ((a % Modulus) + (((b % Modulus) + (d % Modulus)) % Modulus)) % Modulus
  <2>1. /\ SumOf(HalsteadOperatorMetrics, c) = a % Modulus
        /\ SumOf(HalsteadOperandMetrics, c) = b % Modulus
        /\ SumOf(Literals, c) = d % Modulus
    BY DEF SumOf
  <2>2. OperandCount(c) = (SumOf(HalsteadOperandMetrics, c) + SumOf(Literals, c)) % Modulus
    BY DEF OperandCount
  <2>3. Length(c) = (SumOf(HalsteadOperatorMetrics, c) + OperandCount(c)) % Modulus
    BY DEF Length
  <2> HIDE DEF a, b, d
  <2>4. QED
    BY <2>1, <2>2, <2>3
<1>7. Vocabulary(c, s) = (ka + (kb + kd)) % Modulus
  BY DEF Vocabulary, OperandUnique
<1> HIDE DEF a, b, d, ka, kb, kd, k
<1>8. a + b + d < Modulus
  <2> DEFINE n == a + b + d
  <2>1. n \in Nat /\ n * k < counter_t_Na
    BY <1>2, <1>3, <1>4, <1>5
  <2> HIDE DEF n
  <2>2. n < Modulus
    BY <1>5, <2>1, NoWrap
  <2>3. QED
    BY <2>2 DEF n
<1>9. Length(c) = a + b + d
  BY <1>2, <1>3, <1>4, <1>6, <1>8, Sums
<1>10. /\ ka + kb + kd \in Nat /\ ka + kb + kd <= a + b + d
       /\ ka + (kb + kd) = ka + kb + kd
       /\ ka + kb + kd = 0 => a + b + d = 0
  BY <1>2, <1>3, <1>4
<1>11. Vocabulary(c, s) = ka + kb + kd
  <2> DEFINE n == ka + kb + kd
  <2>1. n \in Nat /\ n < Modulus /\ Vocabulary(c, s) = n % Modulus
    BY <1>2, <1>3, <1>4, <1>7, <1>8, <1>10, CalculatedAssumption
  <2> HIDE DEF n
  <2>2. Vocabulary(c, s) = n
    BY <2>1, CalculatedAssumption
  <2>3. QED
    BY <2>2 DEF n
<1>12. a + b + d \in Nat
  BY <1>2, <1>3, <1>4
<1>13. QED
  BY <1>5, <1>9, <1>10, <1>11, <1>12 DEF ka, kb, kd, k

\* VOCF is what was divided, or not available.
LEMMA VocfOf ==
  ASSUME NEW c, NEW s, Countable(c, s)
  PROVE  IF Length(c) = 0 THEN Vocf(c, s) = counter_t_Na
         ELSE Vocf(c, s) >= Scaling["VOCF"] /\ Vocf(c, s) < counter_t_Na
<1> DEFINE n == Length(c)
           v == Vocabulary(c, s)
           k == Scaling["VOCF"]
<1>1. n \in Nat /\ v \in Nat /\ v <= n /\ (v = 0 => n = 0) /\ n * k < counter_t_Na
  BY Uncut
<1>2. k \in Nat /\ k > 0 /\ counter_t_Na \in Nat /\ Modulus \in Nat /\ Modulus > 0
  BY CalculatedAssumption DEF counter_t_Na
<1>3. Vocf(c, s) = IF v > 0 THEN ((n * k) % Modulus) \div v ELSE counter_t_Na
  BY DEF Vocf
<1> HIDE DEF n, v, k
<1>4. CASE v = 0
  BY <1>1, <1>3, <1>4 DEF n
<1>5. CASE v # 0
  <2>1. v \in Nat \ {0} /\ n # 0
    BY <1>1, <1>5
  <2> DEFINE p == n * k
  <2>2. p \in Nat /\ p \div v \in Nat /\ p \div v >= k /\ p \div v <= p
    BY <1>1, <1>2, <2>1, Quotients
  <2>3. p < Modulus /\ p < counter_t_Na
    BY <1>1, <1>2, NoWrap
  <2>4. Vocf(c, s) = (p % Modulus) \div v
    BY <1>1, <1>3, <2>1
  <2> HIDE DEF p
  <2>5. p % Modulus = p
    BY <1>2, <2>2, <2>3
  <2>6. Vocf(c, s) >= k /\ Vocf(c, s) < counter_t_Na
    BY <1>2, <2>2, <2>3, <2>4, <2>5
  <2>7. QED
    BY <2>1, <2>6 DEF n, k
<1>6. QED
  BY <1>4, <1>5

\* What has more tokens, and all of the spellings, has the larger vocabulary.
LEMMA VocabularyGrows ==
  ASSUME NEW c, NEW s, Countable(c, s), NEW d, NEW t, Countable(d, t),
         \A m \in HalsteadMetrics : c[m] <= d[m], \A l \in Literals : s[l] \subseteq t[l]
  PROVE  Vocabulary(c, s) <= Vocabulary(d, t)
<1>1. ASSUME NEW S \in SUBSET HalsteadMetrics, IsFiniteSet(S)
      PROVE  KindsOf(S, c) \in Nat /\ KindsOf(S, d) \in Nat /\ KindsOf(S, c) <= KindsOf(S, d)
  <2> DEFINE K == {m \in S : c[m] > 0}
             L == {m \in S : d[m] > 0}
  <2>1. \A m \in S : c[m] \in Nat /\ d[m] \in Nat /\ c[m] <= d[m]
    BY DEF Countable
  <2>2. K \in SUBSET L /\ L \in SUBSET S
    BY <2>1
  <2>3. KindsOf(S, c) = Cardinality(K) /\ KindsOf(S, d) = Cardinality(L)
    BY DEF KindsOf
  <2> HIDE DEF K, L
  <2>4. IsFiniteSet(L) /\ IsFiniteSet(K) /\ Cardinality(K) <= Cardinality(L)
    BY <1>1, <2>2, FS_Subset
  <2>5. QED
    BY <2>3, <2>4, FS_CardinalityType
<1>2. SpellingsOf(Literals, s) <= SpellingsOf(Literals, t)
  <2> DEFINE v == [l \in Literals |-> Cardinality(s[l])]
             w == [l \in Literals |-> Cardinality(t[l])]
  <2>1. \A l \in Literals : v[l] \in Nat /\ w[l] \in Nat /\ v[l] <= w[l]
    <3> SUFFICES ASSUME NEW l \in Literals PROVE v[l] \in Nat /\ w[l] \in Nat /\ v[l] <= w[l]
      OBVIOUS
    <3>1. IsFiniteSet(s[l]) /\ IsFiniteSet(t[l]) /\ s[l] \in SUBSET t[l]
      BY DEF Countable
    <3>2. /\ Cardinality(s[l]) \in Nat /\ Cardinality(t[l]) \in Nat
          /\ Cardinality(s[l]) <= Cardinality(t[l])
      BY <3>1, FS_CardinalityType, FS_Subset
    <3>3. QED
      BY <3>2
  <2>2. /\ SpellingsOf(Literals, s) = SumFunctionOnSet(v, Literals)
        /\ SpellingsOf(Literals, t) = SumFunctionOnSet(w, Literals)
    BY DEF SpellingsOf
  <2> HIDE DEF v, w
  <2>3. IsFiniteSet(Literals) /\ Literals \in SUBSET Literals
    BY MetricsFinite
  <2>4. SumFunctionOnSet(v, Literals) <= SumFunctionOnSet(w, Literals)
    BY <2>1, <2>3, SumSmaller
  <2>5. QED
    BY <2>2, <2>4
<1>3. SpellingsOf(Literals, s) \in Nat /\ SpellingsOf(Literals, t) \in Nat
  BY SpellingsOfSum
<1>4. /\ HalsteadOperatorMetrics \in SUBSET HalsteadMetrics
      /\ HalsteadOperandMetrics \in SUBSET HalsteadMetrics
  BY DEF HalsteadMetrics
<1>5. /\ KindsOf(HalsteadOperatorMetrics, c) \in Nat /\ KindsOf(HalsteadOperatorMetrics, d) \in Nat
      /\ KindsOf(HalsteadOperatorMetrics, c) <= KindsOf(HalsteadOperatorMetrics, d)
  BY <1>1, <1>4, MetricsFinite
<1>6. /\ KindsOf(HalsteadOperandMetrics, c) \in Nat /\ KindsOf(HalsteadOperandMetrics, d) \in Nat
      /\ KindsOf(HalsteadOperandMetrics, c) <= KindsOf(HalsteadOperandMetrics, d)
  BY <1>1, <1>4, MetricsFinite
<1>7. /\ Vocabulary(c, s) = KindsOf(HalsteadOperatorMetrics, c)
                              + KindsOf(HalsteadOperandMetrics, c) + SpellingsOf(Literals, s)
      /\ Vocabulary(d, t) = KindsOf(HalsteadOperatorMetrics, d)
                              + KindsOf(HalsteadOperandMetrics, d) + SpellingsOf(Literals, t)
  BY Uncut
<1>8. QED
  BY <1>2, <1>3, <1>5, <1>6, <1>7

Occurring(m, u) == {i \in DOMAIN code[u] : m \in code[u][i].counts}
Occurrences(m) == [u \in Units |-> Cardinality(Occurring(m, u))]

LEMMA TokensOccur ==
  ASSUME code \in Programs, NEW m
  PROVE  /\ \A u \in Units : /\ IsFiniteSet(Occurring(m, u)) /\ Occurrences(m)[u] \in Nat
                             /\ Occurrences(m)[u] = Cardinality(Occurring(m, u))
         /\ \A S : Tokens(code, m, S) = SumFunctionOnSet(Occurrences(m), S)
<1>1. ASSUME NEW u \in Units PROVE IsFiniteSet(Occurring(m, u))
  <2>1. code[u] \in Seq(Range(code[u]))
    BY ReportAssumption
  <2> DEFINE n == Len(code[u])
             D == DOMAIN code[u]
  <2>2. n \in Nat /\ D = 1 .. n
    BY <2>1
  <2>3. IsFiniteSet(D)
    BY <2>2, FS_Interval
  <2>4. Occurring(m, u) \in SUBSET D
    BY DEF Occurring
  <2> HIDE DEF D
  <2>5. QED
    BY <2>3, <2>4, FS_Subset
<1>2. \A u \in Units : Cardinality(Occurring(m, u)) \in Nat
  BY <1>1, FS_CardinalityType
<1>3. \A S : Tokens(code, m, S) = SumFunctionOnSet(Occurrences(m), S)
  BY DEF Tokens, Occurrences, Occurring
<1>4. QED
  BY <1>1, <1>2, <1>3 DEF Occurrences

LEMMA TokensGrow ==
  ASSUME code \in Programs, NEW m, NEW S \in SUBSET Units, NEW T \in SUBSET S
  PROVE  Tokens(code, m, T) \in Nat /\ Tokens(code, m, S) \in Nat
         /\ Tokens(code, m, T) <= Tokens(code, m, S)
<1>1. IsFiniteSet(S) /\ IsFiniteSet(T)
  BY UnitAssumption, FS_Subset
<1> DEFINE w == Occurrences(m)
<1>2. \A u \in Units : w[u] \in Nat
  BY TokensOccur
<1>3. Tokens(code, m, T) = SumFunctionOnSet(w, T) /\ Tokens(code, m, S) = SumFunctionOnSet(w, S)
  BY TokensOccur
<1> HIDE DEF w
<1>4. \A x \in S : w[x] \in Nat /\ w[x] <= w[x]
  BY <1>2
<1>5. SumFunctionOnSet(w, T) <= SumFunctionOnSet(w, S)
  BY <1>1, <1>4, SumSmaller
<1>6. SumFunctionOnSet(w, T) \in Nat /\ SumFunctionOnSet(w, S) \in Nat
  BY <1>1, <1>4, SumTake
<1>7. QED
  BY <1>3, <1>5, <1>6

\* At most one spelling for each token, and one at least if there are any.
LEMMA SpellingsOccur ==
  ASSUME code \in Programs, NEW l, NEW S \in SUBSET Units
  PROVE  /\ IsFiniteSet(Spellings(l, S)) /\ Cardinality(Spellings(l, S)) <= Tokens(code, l, S)
         /\ Spellings(l, S) = {} => Tokens(code, l, S) = 0
<1> DEFINE own(u) == {t.spelling : t \in {x \in Range(code[u]) : l \in x.counts}}
           f == [u \in Units |-> own(u)]
           w == Occurrences(l)
<1>1. IsFiniteSet(S)
  BY UnitAssumption, FS_Subset
<1>2. ASSUME NEW u \in Units
      PROVE  /\ IsFiniteSet(own(u)) /\ w[u] \in Nat /\ Cardinality(own(u)) <= w[u]
             /\ own(u) = {} => w[u] = 0
  <2> DEFINE D == Occurring(l, u)
             g == [i \in D |-> code[u][i].spelling]
  <2>1. IsFiniteSet(D) /\ w[u] \in Nat /\ w[u] = Cardinality(D)
    BY TokensOccur
  <2>2. own(u) = {g[i] : i \in D}
    BY DEF Occurring, Range
  <2>3. D # {} => own(u) # {}
    BY <2>2
  <2>4. DOMAIN g = D
    OBVIOUS
  <2> HIDE DEF D, g, own, w
  <2>5. IsFiniteSet({g[i] : i \in D}) /\ Cardinality({g[i] : i \in D}) <= Cardinality(D)
    BY <2>1, <2>4, FiniteValues
  <2>6. D = {} => w[u] = 0
    BY <2>1, FS_EmptySet
  <2>7. QED
    BY <2>1, <2>2, <2>3, <2>5, <2>6
<1>3. Spellings(l, S) = UNION {f[u] : u \in S}
  BY DEF Spellings
<1>4. \A u \in S : /\ IsFiniteSet(f[u]) /\ w[u] \in Nat /\ Cardinality(f[u]) <= w[u]
                   /\ f[u] = {} => w[u] = 0
  <2> HIDE DEF own, w
  <2>1. \A u \in S : u \in Units /\ f[u] = own(u)
    OBVIOUS
  <2> HIDE DEF f
  <2>2. QED
    BY <1>2, <2>1
<1>5. Tokens(code, l, S) = SumFunctionOnSet(w, S)
  BY TokensOccur
<1> HIDE DEF f, w
<1>6. /\ IsFiniteSet(UNION {f[u] : u \in S})
      /\ Cardinality(UNION {f[u] : u \in S}) <= SumFunctionOnSet(w, S)
  BY <1>1, <1>4, UnionSummed
<1>7. ASSUME Spellings(l, S) = {} PROVE SumFunctionOnSet(w, S) = 0
  <2>1. \A u \in S : f[u] = {}
    BY <1>3, <1>7
  <2>2. \A u \in S : w[u] = 0
    BY <1>4, <2>1
  <2>3. QED
    BY <1>1, <2>2, SumOfZeros
<1>8. QED
  BY <1>3, <1>5, <1>6, <1>7

\* What getCounter() is given for the subtree of a unit.
Counts(u) == [k \in Stored |-> Counted(k, Subtree(u))]
Words(u) == [l \in Literals \cup OtherLiterals |-> getSupplementary(l, u, TRUE)]

LEMMA HalsteadCounters ==
  ASSUME NEW u
  PROVE  /\ Counter(u, "HALSTEAD_VOCABULARY", TRUE) = Vocabulary(Counts(u), Words(u))
         /\ Counter(u, "HALSTEAD_LENGTH", TRUE) = Length(Counts(u))
         /\ Counter(u, "VOCF", TRUE) = Vocf(Counts(u), Words(u))
<1>1. /\ "HALSTEAD_VOCABULARY" \notin Stored /\ "HALSTEAD_LENGTH" \notin Stored
      /\ "VOCF" \notin Stored
  BY CalculatedAssumption DEF CalculatedMetrics
<1>2. ASSUME NEW m
      PROVE  Counter(u, m, TRUE)
               = getCounter(m, Counts(u), Words(u), Type(u) \in {"function", "method"})
  BY DEF Counter, Counts, Words
<1>3. ASSUME NEW c, NEW s, NEW b
      PROVE  /\ getCounter("HALSTEAD_VOCABULARY", c, s, b) = Vocabulary(c, s)
             /\ getCounter("HALSTEAD_LENGTH", c, s, b) = Length(c)
             /\ getCounter("VOCF", c, s, b) = Vocf(c, s)
  BY <1>1 DEF getCounter
<1>4. QED
  BY <1>2, <1>3

LEMMA SubtreesGrow ==
  ASSUME NEW u \in Units, NEW v \in Subtree(u)
  PROVE  /\ Subtree(u) \in SUBSET Units /\ v \in Units
         /\ Subtree(v) \in SUBSET Subtree(u)
<1>1. \A x \in Units : Subtree(x) \in SUBSET Units
  BY DEF Subtree
<1>2. v \in Units
  BY <1>1
<1>3. CASE u = Top
  BY <1>1, <1>2, <1>3 DEF Subtree
<1>4. CASE u # Top /\ u.fn = NoFn
  <2>1. v.file = u.file
    BY <1>4 DEF Subtree
  <2>2. v # Top
    BY <1>4, <2>1, UnitAssumption DEF Top
  <2>3. Subtree(u) = {x \in Units : x.file = u.file}
    BY <1>4 DEF Subtree
  <2>4. Subtree(v) \in SUBSET Subtree(u)
    BY <1>2, <2>1, <2>2, <2>3 DEF Subtree
  <2>5. QED
    BY <1>1, <1>2, <2>4
<1>5. CASE u # Top /\ u.fn # NoFn
  <2>1. v = u
    BY <1>5 DEF Subtree
  <2>2. QED
    BY <1>1, <2>1
<1>6. QED
  BY <1>3, <1>4, <1>5

LEMMA FittingCounts ==
  ASSUME HalsteadFits, code \in Programs, NEW u \in Units
  PROVE  /\ Countable(Counts(u), Words(u))
         /\ \A m \in HalsteadMetrics : Counts(u)[m] = Tokens(code, m, Subtree(u))
<1> DEFINE A == HalsteadOperatorMetrics
           B == HalsteadOperandMetrics
           L == Literals
           all(S) == [m \in S |-> Tokens(code, m, Units)]
           k == Scaling["VOCF"]
           c == Counts(u)
           s == Words(u)
<1>1. Subtree(u) \in SUBSET Units
  BY DEF Subtree
<1>2. /\ Units \in SUBSET Units
      /\ \A m : /\ Tokens(code, m, Subtree(u)) \in Nat /\ Tokens(code, m, Units) \in Nat
                /\ Tokens(code, m, Subtree(u)) <= Tokens(code, m, Units)
  BY <1>1, TokensGrow
<1>3. IsFiniteSet(A) /\ IsFiniteSet(B) /\ IsFiniteSet(L)
  BY MetricsFinite
<1>4. /\ (SumFunctionOnSet(all(A), A) + SumFunctionOnSet(all(B), B) + SumFunctionOnSet(all(L), L))
           * k < counter_t_Na
      /\ k \in Nat /\ k > 0 /\ Modulus \in Nat
  BY CalculatedAssumption DEF HalsteadFits
<1>5. HalsteadMetrics = A \cup B \cup L /\ HalsteadMetrics \subseteq Stored
  BY DEF HalsteadMetrics, Stored
<1>6. \A S : \A m \in S : all(S)[m] = Tokens(code, m, Units)
  OBVIOUS
<1> HIDE DEF A, B, L, k, all
<1>7. PICK a \in Nat, b \in Nat, d \in Nat :
        /\ a = SumFunctionOnSet(all(A), A) /\ b = SumFunctionOnSet(all(B), B)
        /\ d = SumFunctionOnSet(all(L), L)
  <2>1. \A S : \A m \in S : all(S)[m] \in Nat
    BY <1>2, <1>6
  <2>2. /\ SumFunctionOnSet(all(A), A) \in Nat /\ SumFunctionOnSet(all(B), B) \in Nat
        /\ SumFunctionOnSet(all(L), L) \in Nat
    BY <1>3, <2>1, SumTake
  <2>3. QED
    BY <2>2
<1>8. a + b + d < Modulus /\ a + b + d \in Nat
  <2> DEFINE n == a + b + d
  <2>1. n \in Nat /\ n * k < counter_t_Na
    BY <1>4, <1>7
  <2> HIDE DEF n
  <2>2. n < Modulus
    BY <1>4, <2>1, NoWrap
  <2>3. QED
    BY <2>1, <2>2 DEF n
<1>9. ASSUME NEW m \in HalsteadMetrics
      PROVE  c[m] = Tokens(code, m, Subtree(u))
  <2>1. \A S \in {A, B, L} : m \in S => Tokens(code, m, Units) <= SumFunctionOnSet(all(S), S)
    <3> SUFFICES ASSUME NEW S \in {A, B, L}, m \in S
                 PROVE  Tokens(code, m, Units) <= SumFunctionOnSet(all(S), S)
      OBVIOUS
    <3>1. IsFiniteSet(S) /\ \A x \in S : all(S)[x] \in Nat
      BY <1>2, <1>3, <1>6
    <3>2. all(S)[m] <= SumFunctionOnSet(all(S), S)
      BY <3>1, SumMember
    <3>3. QED
      BY <1>6, <3>2
  <2>2. Tokens(code, m, Units) <= a \/ Tokens(code, m, Units) <= b \/ Tokens(code, m, Units) <= d
    BY <1>5, <1>7, <2>1
  <2>3. Tokens(code, m, Subtree(u)) < Modulus
    BY <1>2, <1>4, <1>7, <1>8, <2>2
  <2>4. Tokens(code, m, Subtree(u)) % Modulus = Tokens(code, m, Subtree(u))
    BY <1>2, <1>4, <2>3
  <2>5. m \in Stored
    BY <1>5
  <2>6. QED
    BY <2>4, <2>5 DEF Counts, Counted
<1>10. \A m \in HalsteadMetrics : c[m] \in Nat
  BY <1>2, <1>9
<1>11. ASSUME NEW l \in Literals
       PROVE  IsFiniteSet(s[l]) /\ Cardinality(s[l]) <= c[l] /\ (s[l] = {} => c[l] = 0)
  <2>1. s[l] = Spellings(l, Subtree(u))
    BY DEF Words, getSupplementary
  <2>2. c[l] = Tokens(code, l, Subtree(u))
    BY <1>9 DEF HalsteadMetrics
  <2>3. QED
    BY <1>1, <2>1, <2>2, SpellingsOccur
<1>12. Total(c) * k < counter_t_Na
  <2> HIDE DEF c
  <2>1. ASSUME NEW S \in {A, B, L}
        PROVE  /\ SumFunctionOnSet(c, S) \in Nat
               /\ SumFunctionOnSet(c, S) <= SumFunctionOnSet(all(S), S)
    <3>1. IsFiniteSet(S) /\ S \in SUBSET S /\ S \subseteq HalsteadMetrics
      BY <1>3, <1>5
    <3>2. \A m \in S : c[m] \in Nat /\ all(S)[m] \in Nat /\ c[m] <= all(S)[m]
      BY <1>2, <1>6, <1>9, <3>1
    <3>3. SumFunctionOnSet(c, S) <= SumFunctionOnSet(all(S), S)
      BY <3>1, <3>2, SumSmaller
    <3>4. SumFunctionOnSet(c, S) \in Nat
      BY <3>1, <3>2, SumTake
    <3>5. QED
      BY <3>3, <3>4
  <2>2. PICK x \in Nat, y \in Nat, z \in Nat :
          /\ x = SumFunctionOnSet(c, A) /\ y = SumFunctionOnSet(c, B) /\ z = SumFunctionOnSet(c, L)
          /\ x <= a /\ y <= b /\ z <= d
    BY <1>7, <2>1
  <2>3. Total(c) = x + y + z
    BY <2>2 DEF Total, A, B, L
  <2>4. (x + y + z) * k <= (a + b + d) * k /\ (x + y + z) * k \in Nat
    BY <1>4, <2>2
  <2>5. (a + b + d) * k < counter_t_Na
    BY <1>4, <1>7
  <2> DEFINE p == (x + y + z) * k
             q == (a + b + d) * k
  <2>6. p <= q /\ p \in Nat /\ q \in Nat /\ q < counter_t_Na
    BY <1>4, <2>4, <2>5
  <2>7. counter_t_Na \in Int
    BY <1>4 DEF counter_t_Na
  <2> HIDE DEF p, q
  <2>8. p < counter_t_Na
    BY <2>6, <2>7
  <2>9. QED
    BY <2>3, <2>8 DEF p
<1>13. QED
  BY <1>9, <1>10, <1>11, <1>12 DEF Countable, k

LEMMA HalsteadAgree ==
  ASSUME HalsteadFits, code \in Programs
  PROVE  HalsteadConsistent
<1> DEFINE voc(v) == Counter(v, "HALSTEAD_VOCABULARY", TRUE)
           len(v) == Counter(v, "HALSTEAD_LENGTH", TRUE)
           vocf(v) == Counter(v, "VOCF", TRUE)
<1>1. ASSUME NEW u \in Units
      PROVE  /\ voc(u) <= len(u)
             /\ IF len(u) = 0 THEN vocf(u) = counter_t_Na
                ELSE vocf(u) >= Scaling["VOCF"] /\ vocf(u) < counter_t_Na
  <2>1. Countable(Counts(u), Words(u))
    BY FittingCounts
  <2>2. /\ voc(u) = Vocabulary(Counts(u), Words(u)) /\ len(u) = Length(Counts(u))
        /\ vocf(u) = Vocf(Counts(u), Words(u))
    BY HalsteadCounters
  <2> HIDE DEF voc, len, vocf
  <2>3. Vocabulary(Counts(u), Words(u)) <= Length(Counts(u))
    BY <2>1, Uncut
  <2>4. QED
    BY <2>1, <2>2, <2>3, VocfOf
<1>2. ASSUME NEW u \in Units, NEW v \in Subtree(u) PROVE voc(v) <= voc(u)
  <2>1. v \in Units /\ Subtree(u) \in SUBSET Units /\ Subtree(v) \in SUBSET Subtree(u)
    BY SubtreesGrow
  <2>2. Countable(Counts(u), Words(u)) /\ Countable(Counts(v), Words(v))
    BY <2>1, FittingCounts
  <2>3. \A m \in HalsteadMetrics : Counts(v)[m] <= Counts(u)[m]
    BY <2>1, FittingCounts, TokensGrow
  <2>4. \A l \in Literals : Words(v)[l] \subseteq Words(u)[l]
    BY <2>1 DEF Words, getSupplementary, Spellings
  <2>5. Vocabulary(Counts(v), Words(v)) <= Vocabulary(Counts(u), Words(u))
    BY <2>2, <2>3, <2>4, VocabularyGrows
  <2>6. QED
    BY <2>5, HalsteadCounters
<1> HIDE DEF voc, len, vocf
<1>3. \A u \in Units : /\ voc(u) <= len(u) /\ \A v \in Subtree(u) : voc(v) <= voc(u)
                       /\ IF len(u) = 0 THEN vocf(u) = counter_t_Na
                          ELSE vocf(u) >= Scaling["VOCF"] /\ vocf(u) < counter_t_Na
  BY <1>1, <1>2
<1>4. QED
  BY <1>3 DEF HalsteadConsistent, voc, len, vocf

\* For any programs whose tokens fit a counter, also when scaled for VOCF: a unit's
\* vocabulary is not above its length, nor below that of its functions, and VOCF is at
\* least one, or not available for a unit without operators and operands.
THEOREM HalsteadTheorem ==
  ASSUME HalsteadFits
  PROVE  RSpec => []HalsteadConsistent
<1>1. RInit => code \in Programs
  BY DEF RInit
<1>2. code \in Programs /\ [RNext]_rvars => (code \in Programs)'
  BY DEF RNext, DumpUnit, CheckLimits, rvars
<1>3. code \in Programs => HalsteadConsistent
  BY HalsteadAgree
<1>4. QED
  BY <1>1, <1>2, <1>3, PTL DEF RSpec
=============================================================================
