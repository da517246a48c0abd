------------------------- MODULE FunctionVisitProofs -------------------------
(***************************************************************************)
(* For any functions: the three numbers of getPathCount() come to the      *)
(* number of paths through a plain function, although the code never       *)
(* follows a path; no return statement is counted twice or missed; each    *)
(* statement and each initialised variable is counted once, but for what   *)
(* is dropped below a label; and the levels that are found from inside out *)
(* are those counted from the body down.                                   *)
(***************************************************************************)
EXTENDS FunctionVisit, FoldTheorems
-----------------------------------------------------------------------------
(* Places. *)

LEMMA FrontFacts ==
  ASSUME NEW p \in Seq(Nat \ {0}), p # <<>>
  PROVE  /\ Front(p) \in Seq(Nat \ {0})
         /\ Len(p) \in Nat /\ Len(p) >= 1 /\ Len(Front(p)) = Len(p) - 1
         /\ Last(p) = p[Len(p)] /\ SubSeq(p, 1, Len(p)) = p
         /\ SubSeq(p, 1, Len(p) - 1) = Front(p)
         /\ \A n \in 0 .. (Len(p) - 1) : SubSeq(Front(p), 1, n) = SubSeq(p, 1, n)
         /\ \A n \in 1 .. (Len(p) - 1) : Front(p)[n] = p[n]
<1>1. Len(p) \in Nat /\ Len(p) >= 1
  OBVIOUS
<1>2. Front(p) = SubSeq(p, 1, Len(p) - 1) /\ Last(p) = p[Len(p)]
  BY DEF Front, Last
<1>3. /\ SubSeq(p, 1, Len(p) - 1) \in Seq(Nat \ {0})
      /\ Len(SubSeq(p, 1, Len(p) - 1)) = Len(p) - 1
  <2>1. PICK k \in Nat : k = Len(p) - 1
    BY <1>1
  <2>2. \A i \in 1 .. k : p[i] \in Nat \ {0}
    BY <1>1, <2>1
  <2>3. SubSeq(p, 1, k) \in Seq(Nat \ {0}) /\ Len(SubSeq(p, 1, k)) = k
    BY <2>2
  <2>4. QED
    BY <2>1, <2>3
<1>4. \A n \in 1 .. (Len(p) - 1) : SubSeq(p, 1, Len(p) - 1)[n] = p[n]
  BY <1>1
<1>5. SubSeq(p, 1, Len(p)) = p
  BY <1>1
<1>6. ASSUME NEW n \in 0 .. (Len(p) - 1)
      PROVE  SubSeq(SubSeq(p, 1, Len(p) - 1), 1, n) = SubSeq(p, 1, n)
  BY <1>1, <1>3, <1>4
<1>7. QED
  BY <1>1, <1>2, <1>3, <1>4, <1>5, <1>6

LEMMA BodyFacts ==
  ASSUME GivenFunction
  PROVE  /\ IsFiniteSet(DOMAIN body) /\ <<>> \in DOMAIN body /\ body[<<>>] = "block"
         /\ \A p \in DOMAIN body : p \in Seq(Nat \ {0})
         /\ \A p \in DOMAIN body : p # <<>> => Front(p) \in DOMAIN body
         /\ \A p \in DOMAIN body : /\ Width(p) \in Nat /\ Width(p) \in Arities(body[p])
                                   /\ Parts(p) = {Append(p, i) : i \in 1 .. Width(p)}
<1>1. PICK f \in Functions : body = f.body
  BY DEF GivenFunction
<1>2. /\ IsFiniteSet(DOMAIN body) /\ DOMAIN body \subseteq Seq(Nat \ {0})
      /\ <<>> \in DOMAIN body /\ body[<<>>] = "block"
      /\ \A p \in DOMAIN body \ {<<>>} : Front(p) \in DOMAIN body
      /\ \A p \in DOMAIN body :
           /\ Width(p) \in Arities(body[p])
           /\ Parts(p) = {Append(p, i) : i \in 1 .. Width(p)}
  BY <1>1, FunctionAssumption DEF Parts, Width
<1>3. ASSUME NEW p \in DOMAIN body PROVE Width(p) \in Nat
  <2>1. Parts(p) \in SUBSET DOMAIN body
    BY DEF Parts, PartsIn
  <2>2. QED
    BY <1>2, <2>1, FS_Subset, FS_CardinalityType DEF Width
<1>4. QED
  BY <1>2, <1>3

LEMMA PartsFacts ==
  ASSUME GivenFunction, NEW p \in DOMAIN body
  PROVE  Parts(p) = {q \in DOMAIN body \ {<<>>} : Front(q) = p}
<1>1. ASSUME NEW q \in DOMAIN body, q # <<>>, Front(q) = p PROVE Len(q) = Len(p) + 1
  <2>1. q \in Seq(Nat \ {0}) /\ Len(q) \in Nat
    BY BodyFacts
  <2>2. Len(p) = Len(q) - 1
    BY <1>1, <2>1, FrontFacts
  <2>3. QED
    BY <2>1, <2>2
<1>2. ASSUME NEW q \in DOMAIN body, Len(q) = Len(p) + 1 PROVE q # <<>>
  <2>1. Len(p) \in Nat /\ Len(<<>>) = 0
    BY BodyFacts
  <2>2. Len(q) # 0
    BY <1>2, <2>1
  <2>3. QED
    BY <2>1, <2>2
<1>3. QED
  BY <1>1, <1>2 DEF Parts, PartsIn

\* Induction from the body down to every place.
LEMMA AllPlaces ==
  ASSUME GivenFunction, NEW S, <<>> \in S,
         \A p \in DOMAIN body : p # <<>> /\ Front(p) \in S => p \in S
  PROVE  DOMAIN body \subseteq S
<1> DEFINE N == {n \in Nat : \A p \in DOMAIN body : Len(p) = n => p \in S}
<1>1. 0 \in N
  BY BodyFacts
<1>2. ASSUME NEW n \in Nat, n \in N PROVE n + 1 \in N
  <2> SUFFICES ASSUME NEW p \in DOMAIN body, Len(p) = n + 1 PROVE p \in S
    OBVIOUS
  <2>1. p \in Seq(Nat \ {0}) /\ p # <<>>
    BY BodyFacts
  <2>2. Front(p) \in DOMAIN body
    BY <2>1, BodyFacts
  <2>3. Len(Front(p)) = n
    BY <2>1, FrontFacts
  <2>4. QED
    BY <1>2, <2>1, <2>2, <2>3
<1> HIDE DEF N
<1>3. Nat \subseteq N
  BY <1>1, <1>2, AllNumbers
<1>4. ASSUME NEW p \in DOMAIN body PROVE p \in S
  <2>1. Len(p) \in Nat
    BY BodyFacts
  <2>2. QED
    BY <1>3, <2>1 DEF N
<1>5. QED
  BY <1>4
-----------------------------------------------------------------------------
(* Levels. *)

\* Is there a level at the place q, which is the first n numbers of p?
Level(p, n) ==
  LET q == SubSeq(p, 1, n) IN
    /\ body[q] \in ControlStatements
    /\ ~ (n > 0 /\ p[n] = 2 /\ body[q] = "if" /\ body[Front(q)] = "if")

\* What the statement at p adds to the levels of the one around it.
OwnLevel(p) ==
  IF body[p] \in ControlStatements /\ ~ isStmtAnIfFromElseIf(p) THEN 1 ELSE 0

LEMMA LevelsType ==
  ASSUME GivenFunction, NEW p \in DOMAIN body
  PROVE  /\ Levels(p) \in Nat /\ IsFiniteSet({n \in 0 .. Len(p) : Level(p, n)})
         /\ Levels(p) = Cardinality({n \in 0 .. Len(p) : Level(p, n)})
<1> DEFINE L == {n \in 0 .. Len(p) : Level(p, n)}
<1>1. Len(p) \in Nat
  BY BodyFacts
<1>2. IsFiniteSet(0 .. Len(p)) /\ L \in SUBSET (0 .. Len(p))
  BY <1>1, FS_Interval
<1>3. Levels(p) = Cardinality(L)
  BY DEF Levels, Level
<1> HIDE DEF L
<1>4. IsFiniteSet(L) /\ Cardinality(L) \in Nat
  BY <1>2, FS_Subset, FS_CardinalityType
<1>5. QED
  BY <1>3, <1>4 DEF L

LEMMA LevelsStart ==
  ASSUME GivenFunction
  PROVE  Levels(<<>>) = 0
<1>1. <<>> \in DOMAIN body /\ body[<<>>] = "block"
  BY BodyFacts
<1>2. SubSeq(<<>>, 1, 0) = <<>>
  OBVIOUS
<1>3. Len(<<>>) = 0 /\ 0 .. 0 = {0}
  OBVIOUS
<1>4. ~ Level(<<>>, 0)
  BY <1>1, <1>2 DEF Level, ControlStatements
<1>5. {n \in 0 .. Len(<<>>) : Level(<<>>, n)} = {}
  BY <1>3, <1>4
<1>6. QED
  BY <1>1, <1>5, LevelsType, FS_EmptySet

LEMMA LevelsStep ==
  ASSUME GivenFunction, NEW p \in DOMAIN body, p # <<>>
  PROVE  /\ Front(p) \in DOMAIN body /\ Levels(Front(p)) \in Nat
         /\ Levels(p) = Levels(Front(p)) + OwnLevel(p)
<1> DEFINE L == {n \in 0 .. Len(p) : Level(p, n)}
           M == {n \in 0 .. Len(Front(p)) : Level(Front(p), n)}
<1>1. p \in Seq(Nat \ {0}) /\ Front(p) \in DOMAIN body
  BY BodyFacts
<1>2. /\ Levels(p) = Cardinality(L) /\ Levels(Front(p)) = Cardinality(M)
      /\ IsFiniteSet(M) /\ Levels(Front(p)) \in Nat
  BY <1>1, LevelsType
<1>3. PICK k \in Nat : k = Len(p) /\ k >= 1
  BY <1>1, FrontFacts
<1>4. Len(Front(p)) = k - 1
  BY <1>1, <1>3, FrontFacts
<1>5. ASSUME NEW n \in 0 .. (k - 1) PROVE Level(p, n) <=> Level(Front(p), n)
  <2>1. SubSeq(Front(p), 1, n) = SubSeq(p, 1, n)
    BY <1>1, <1>3, <1>5, FrontFacts
  <2>2. n > 0 => Front(p)[n] = p[n]
    BY <1>1, <1>3, <1>5, FrontFacts
  <2>3. QED
    BY <2>1, <2>2 DEF Level
<1>6. Level(p, k) <=> OwnLevel(p) = 1
  <2>1. SubSeq(p, 1, k) = p /\ Last(p) = p[k]
    BY <1>1, <1>3, FrontFacts
  <2>2. k > 0
    BY <1>3
  <2>3. Level(p, k) <=> /\ body[p] \in ControlStatements
                        /\ ~ (Last(p) = 2 /\ body[p] = "if" /\ body[Front(p)] = "if")
    BY <2>1, <2>2 DEF Level
  <2>4. Level(p, k) <=> body[p] \in ControlStatements /\ ~ isStmtAnIfFromElseIf(p)
    BY <2>3 DEF isStmtAnIfFromElseIf
  <2>5. QED
    BY <2>4 DEF OwnLevel
<1>7. L = IF OwnLevel(p) = 1 THEN M \cup {k} ELSE M
  <2>1. \A n : n \in 0 .. k <=> n = k \/ n \in 0 .. (k - 1)
    BY <1>3
  <2>2. L = {n \in 0 .. k : Level(p, n)} /\ M = {n \in 0 .. (k - 1) : Level(Front(p), n)}
    BY <1>3, <1>4
  <2>3. QED
    BY <1>5, <1>6, <2>1, <2>2
<1>8. k \notin M
  BY <1>4
<1> HIDE DEF L, M
<1>9. Cardinality(M \cup {k}) = Cardinality(M) + 1
  BY <1>2, <1>8, FS_AddElement
<1>10. OwnLevel(p) = 1 \/ OwnLevel(p) = 0
  BY DEF OwnLevel
<1>11. QED
  BY <1>1, <1>2, <1>7, <1>9, <1>10

\* A statement that is asked by an else if does not count itself when it is an if.
Depth == [p \in DOMAIN body |-> [c \in BOOLEAN |->
            Levels(p) - (IF body[p] = "if" /\ c THEN 1 ELSE 0)]]

Asked(f, p) == IF p = <<>> THEN 0 ELSE f[Front(p)][isStmtAnIfFromElseIf(p)]
Own(p, c) ==
  IF body[p] \in ControlStatements /\ ~ (body[p] = "if" /\ c) THEN 1 ELSE 0

Itself(p) == IF body[p] \in ControlStatements THEN 1 ELSE 0
ElseIf(p) == IF body[p] \in ControlStatements /\ body[p] # "if" THEN 1 ELSE 0

\* The equation that getControlDepth() solves.
Deepens(f) == f = [p \in DOMAIN body |-> [c \in BOOLEAN |-> Asked(f, p) + Own(p, c)]]

LEMMA DepthAt ==
  ASSUME NEW p \in DOMAIN body
  PROVE  /\ Depth[p][FALSE] = Levels(p) - 0
         /\ Depth[p][TRUE] = Levels(p) - (IF body[p] = "if" THEN 1 ELSE 0)
<1>1. Depth[p] = [c \in BOOLEAN |-> Levels(p) - (IF body[p] = "if" /\ c THEN 1 ELSE 0)]
  BY DEF Depth
<1>2. FALSE \in BOOLEAN /\ TRUE \in BOOLEAN
  OBVIOUS
<1>3. Depth[p][FALSE] = Levels(p) - (IF body[p] = "if" /\ FALSE THEN 1 ELSE 0)
  BY <1>1, <1>2, Zenon
<1>4. Depth[p][TRUE] = Levels(p) - (IF body[p] = "if" /\ TRUE THEN 1 ELSE 0)
  BY <1>1, <1>2, Zenon
<1>5. QED
  BY <1>3, <1>4

LEMMA AskedDepth ==
  ASSUME GivenFunction, NEW p \in DOMAIN body
  PROVE  /\ Asked(Depth, p) + Itself(p) = Levels(p) - 0
         /\ Asked(Depth, p) + ElseIf(p) = Levels(p) - (IF body[p] = "if" THEN 1 ELSE 0)
<1>1. CASE p = <<>>
  <2>1. body[p] = "block" /\ Levels(p) = 0
    BY <1>1, BodyFacts, LevelsStart
  <2>2. Asked(Depth, p) = 0 /\ Itself(p) = 0 /\ ElseIf(p) = 0
    BY <1>1, <2>1 DEF Asked, Itself, ElseIf, ControlStatements
  <2>3. QED
    BY <2>1, <2>2
<1>2. CASE p # <<>>
  <2>1. /\ Front(p) \in DOMAIN body /\ Levels(Front(p)) \in Nat
        /\ Levels(p) = Levels(Front(p)) + OwnLevel(p)
    BY <1>2, LevelsStep
  <2>2. Asked(Depth, p) = Depth[Front(p)][isStmtAnIfFromElseIf(p)]
    BY <1>2 DEF Asked
  <2>3. /\ Itself(p) = IF body[p] \in ControlStatements THEN 1 ELSE 0
        /\ ElseIf(p) = IF body[p] \in ControlStatements /\ body[p] # "if" THEN 1 ELSE 0
    BY DEF Itself, ElseIf
  <2>4. body[p] = "if" => body[p] \in ControlStatements
    BY DEF ControlStatements
  <2>5. CASE isStmtAnIfFromElseIf(p)
    <3>1. body[p] = "if" /\ body[Front(p)] = "if"
      BY <2>5 DEF isStmtAnIfFromElseIf
    <3>2. isStmtAnIfFromElseIf(p) = TRUE
      BY <2>5 DEF isStmtAnIfFromElseIf
    <3>3. Asked(Depth, p) = Levels(Front(p)) - 1
      BY <2>1, <2>2, <3>1, <3>2, DepthAt
    <3>4. OwnLevel(p) = 0
      BY <2>5 DEF OwnLevel
    <3>5. QED
      BY <2>1, <2>3, <2>4, <3>1, <3>3, <3>4
  <2>6. CASE ~ isStmtAnIfFromElseIf(p)
    <3>1. isStmtAnIfFromElseIf(p) = FALSE
      BY <2>6 DEF isStmtAnIfFromElseIf
    <3>2. Asked(Depth, p) = Levels(Front(p)) - 0
      BY <2>1, <2>2, <3>1, DepthAt
    <3>3. OwnLevel(p) = IF body[p] \in ControlStatements THEN 1 ELSE 0
      BY <2>6 DEF OwnLevel
    <3>4. QED
      BY <2>1, <2>3, <2>4, <3>2, <3>3
  <2>7. QED
    BY <2>5, <2>6
<1>3. QED
  BY <1>1, <1>2

LEMMA DepthDeepens ==
  ASSUME GivenFunction
  PROVE  Deepens(Depth)
<1> DEFINE E(p) == [c \in BOOLEAN |-> Asked(Depth, p) + Own(p, c)]
<1>1. ASSUME NEW p \in DOMAIN body PROVE Depth[p] = E(p)
  <2>1. E(p)[FALSE] = Asked(Depth, p) + Itself(p)
    <3>1. E(p)[FALSE] = Asked(Depth, p) + Own(p, FALSE)
      BY Zenon
    <3>2. Own(p, FALSE) = Itself(p)
      BY DEF Own, Itself
    <3>3. QED
      BY <3>1, <3>2, Zenon
  <2>2. E(p)[TRUE] = Asked(Depth, p) + ElseIf(p)
    <3>1. E(p)[TRUE] = Asked(Depth, p) + Own(p, TRUE)
      BY Zenon
    <3>2. Own(p, TRUE) = ElseIf(p)
      BY DEF Own, ElseIf
    <3>3. QED
      BY <3>1, <3>2, Zenon
  <2>3. Depth[p][FALSE] = E(p)[FALSE] /\ Depth[p][TRUE] = E(p)[TRUE]
    BY <2>1, <2>2, AskedDepth, DepthAt
  <2>4. \A c \in BOOLEAN : c = TRUE \/ c = FALSE
    OBVIOUS
  <2>5. \A c \in BOOLEAN : Depth[p][c] = E(p)[c]
    BY <2>3, <2>4, Zenon
  <2>6. Depth[p] = [c \in BOOLEAN |-> Depth[p][c]] /\ E(p) = [c \in BOOLEAN |-> E(p)[c]]
    BY DEF Depth
  <2>7. QED
    BY <2>5, <2>6, Zenon
<1>2. Depth = [p \in DOMAIN body |-> Depth[p]]
  BY DEF Depth
<1>3. Depth = [p \in DOMAIN body |-> E(p)]
  BY <1>1, <1>2, Zenon
<1>4. QED
  BY <1>3 DEF Deepens

LEMMA getControlDepthDeepens ==
  ASSUME GivenFunction
  PROVE  Deepens(getControlDepth)
<1>1. PICK f : Deepens(f)
  BY DepthDeepens
<1>2. f = [p \in DOMAIN body |->
  [childIsElseIf \in BOOLEAN |->
     (IF p = <<>> THEN 0 ELSE f[Front(p)][isStmtAnIfFromElseIf(p)])
     + (IF body[p] \in ControlStatements /\ ~ (body[p] = "if" /\ childIsElseIf) THEN 1 ELSE 0)]]
  BY <1>1, Zenon DEF Deepens, Asked, Own
<1>3. getControlDepth = [p \in DOMAIN body |->
  [childIsElseIf \in BOOLEAN |->
     (IF p = <<>> THEN 0 ELSE getControlDepth[Front(p)][isStmtAnIfFromElseIf(p)])
     + (IF body[p] \in ControlStatements /\ ~ (body[p] = "if" /\ childIsElseIf) THEN 1 ELSE 0)]]
  BY <1>2, Zenon DEF getControlDepth
<1>4. QED
  BY <1>3, Zenon DEF Deepens, Asked, Own

\* Going up from a statement finds its levels.
LEMMA DepthLevels ==
  ASSUME GivenFunction
  PROVE  \A p \in DOMAIN body : getControlDepth[p][FALSE] = Levels(p)
<1> DEFINE S == {p \in DOMAIN body : getControlDepth[p] = Depth[p]}
           V(f, p) == [c \in BOOLEAN |-> Asked(f, p) + Own(p, c)]
<1>1. \A p \in DOMAIN body : getControlDepth[p] = V(getControlDepth, p)
  BY getControlDepthDeepens, Zenon DEF Deepens
<1>2. \A p \in DOMAIN body : Depth[p] = V(Depth, p)
  BY DepthDeepens, Zenon DEF Deepens
<1>3. <<>> \in S
  <2>1. <<>> \in DOMAIN body
    BY BodyFacts
  <2>2. Asked(Depth, <<>>) = Asked(getControlDepth, <<>>)
    BY DEF Asked
  <2>3. QED
    BY <1>1, <1>2, <2>1, <2>2, Zenon
<1>4. ASSUME NEW p \in DOMAIN body, p # <<>>, Front(p) \in S PROVE p \in S
  <2>1. Asked(Depth, p) = Asked(getControlDepth, p)
    BY <1>4, Zenon DEF Asked
  <2>2. QED
    BY <1>1, <1>2, <2>1, Zenon
<1> HIDE DEF S
<1>5. DOMAIN body \subseteq S
  BY <1>3, <1>4, AllPlaces
<1>6. ASSUME NEW p \in DOMAIN body PROVE getControlDepth[p][FALSE] = Levels(p)
  <2>1. getControlDepth[p] = Depth[p]
    BY <1>5 DEF S
  <2>2. Levels(p) \in Nat
    BY LevelsType
  <2>3. Depth[p][FALSE] = Levels(p) - 0
    BY DepthAt
  <2>4. QED
    BY <2>1, <2>2, <2>3
<1>7. QED
  BY <1>6
-----------------------------------------------------------------------------
(* The invariant. *)

\* The statements that count in their own visit, and those that count in the visit of
\* the statement around them, once the places of S are visited.
Keywords(S) == {p \in S : body[p] \in KeywordStatements}
Others(S) ==
  {q \in DOMAIN body \ {<<>>} :
     /\ Front(q) \in S /\ body[Front(q)] # "label"
     /\ body[q] \notin KeywordStatements \cup NoStatements}

Variables(S) == {v \in initialised : v[1] \in S}

StatementsSoFar ==
  statements = Cardinality(Keywords(visited)) + Cardinality(Others(visited))
                 + Cardinality(Variables(visited))

NestingSoFar ==
  /\ nesting \in Nat
  /\ \A p \in visited : body[p] \in ControlStatements => Levels(p) <= nesting
  /\ nesting = 0 \/ \E p \in visited : Levels(p) = nesting

SInv == GivenFunction /\ visited \subseteq DOMAIN body /\ StatementsSoFar /\ NestingSoFar

LEMMA CountsFinite ==
  ASSUME GivenFunction, NEW S \in SUBSET DOMAIN body
  PROVE  /\ IsFiniteSet(Keywords(S)) /\ Cardinality(Keywords(S)) \in Nat
         /\ IsFiniteSet(Others(S)) /\ Cardinality(Others(S)) \in Nat
         /\ IsFiniteSet(Variables(S)) /\ Cardinality(Variables(S)) \in Nat
         /\ \A v \in initialised : v[1] \in DOMAIN body
<1>1. IsFiniteSet(DOMAIN body)
  BY BodyFacts
<1>2. Keywords(S) \in SUBSET DOMAIN body /\ Others(S) \in SUBSET DOMAIN body
  BY DEF Keywords, Others
<1>3. IsFiniteSet(initialised) /\ \A v \in initialised : v[1] \in DOMAIN body
  <2>1. PICK f \in Functions : body = f.body /\ initialised = f.initialised
    BY DEF GivenFunction
  <2>2. IsFiniteSet(f.initialised) /\ f.initialised \subseteq Declaring(f.body) \X Nat
    BY FunctionAssumption
  <2>3. QED
    BY <2>1, <2>2 DEF Declaring
<1>4. Variables(S) \in SUBSET initialised
  BY DEF Variables
<1>5. QED
  BY <1>1, <1>2, <1>3, <1>4, FS_Subset, FS_CardinalityType

LEMMA DisjointUnion ==
  ASSUME NEW S, NEW T, IsFiniteSet(S), IsFiniteSet(T), S \cap T = {}
  PROVE  Cardinality(S \cup T) = Cardinality(S) + Cardinality(T)
<1>1. Cardinality(S \cup T) = Cardinality(S) + Cardinality(T) - Cardinality(S \cap T)
  BY FS_Union
<1>2. Cardinality(S \cap T) = 0
  BY FS_EmptySet
<1>3. Cardinality(S) \in Nat /\ Cardinality(T) \in Nat
  BY FS_CardinalityType
<1>4. QED
  BY <1>1, <1>2, <1>3

LEMMA SInitInv ==
  ASSUME SInit
  PROVE  SInv
<1>1. GivenFunction /\ visited = {} /\ statements = 0 /\ nesting = 0
  BY DEF SInit, Unvisited
<1>2. Keywords(visited) = {} /\ Others(visited) = {} /\ Variables(visited) = {}
  BY <1>1 DEF Keywords, Others, Variables
<1>3. QED
  BY <1>1, <1>2, FS_EmptySet DEF SInv, StatementsSoFar, NestingSoFar

\* Each visit counts what no other does.
LEMMA VisitCounts ==
  ASSUME SInv, NEW p \in DOMAIN body, Visit(p)
  PROVE  StatementsSoFar'
<1> DEFINE K == Keywords(visited)
           O == Others(visited)
           V == Variables(visited)
           I == {v \in initialised : v[1] = p}
           N == {q \in CountedParts(p) : body[q] \notin KeywordStatements \cup NoStatements}
<1>1. /\ p \notin visited /\ visited' = visited \cup {p} /\ body' = body
      /\ initialised' = initialised
      /\ statements' = statements + VisitStmt(p) + CountStatements(CountedParts(p))
                         + VisitVarDecl(p)
  BY DEF Visit
<1>2. /\ GivenFunction /\ visited \in SUBSET DOMAIN body /\ visited' \in SUBSET DOMAIN body
      /\ statements = Cardinality(K) + Cardinality(O) + Cardinality(V)
  BY <1>1 DEF SInv, StatementsSoFar
<1>3. /\ IsFiniteSet(K) /\ Cardinality(K) \in Nat /\ IsFiniteSet(O) /\ Cardinality(O) \in Nat
      /\ IsFiniteSet(V) /\ Cardinality(V) \in Nat
  BY <1>2, CountsFinite
<1>4. Keywords(visited)' = IF body[p] \in KeywordStatements THEN K \cup {p} ELSE K
  BY <1>1 DEF Keywords
<1>5. p \notin K
  BY <1>1 DEF Keywords
<1>6. Others(visited)' = O \cup N /\ O \cap N = {}
  <2>1. CountedParts(p) = {q \in DOMAIN body \ {<<>>} : Front(q) = p /\ body[p] # "label"}
    <3>1. Parts(p) = {q \in DOMAIN body \ {<<>>} : Front(q) = p}
      BY <1>2, PartsFacts
    <3>2. QED
      BY <3>1 DEF CountedParts
  <2>2. N = {q \in DOMAIN body \ {<<>>} :
               /\ Front(q) = p /\ body[p] # "label"
               /\ body[q] \notin KeywordStatements \cup NoStatements}
    BY <2>1
  <2> HIDE DEF N
  <2>3. \A q \in DOMAIN body \ {<<>>} :
          q \in N <=> /\ Front(q) = p /\ body[p] # "label"
                      /\ body[q] \notin KeywordStatements \cup NoStatements
    BY <2>2
  <2>4. Others(visited)' =
          {q \in DOMAIN body \ {<<>>} :
             /\ Front(q) \in visited \cup {p} /\ body[Front(q)] # "label"
             /\ body[q] \notin KeywordStatements \cup NoStatements}
    BY <1>1 DEF Others
  <2>5. QED
    BY <1>1, <2>2, <2>4, Zenon DEF Others
<1>7. CountStatements(CountedParts(p)) = Cardinality(N)
  BY DEF CountStatements
<1>8. IsFiniteSet(N) /\ Cardinality(N) \in Nat
  <2>1. N \in SUBSET DOMAIN body
    BY DEF CountedParts, Parts, PartsIn
  <2>2. IsFiniteSet(DOMAIN body)
    BY <1>2, BodyFacts
  <2> HIDE DEF N
  <2>3. QED
    BY <2>1, <2>2, FS_Subset, FS_CardinalityType
<1>14. Variables(visited)' = V \cup I /\ V \cap I = {}
  BY <1>1 DEF Variables
<1>15. IsFiniteSet(I) /\ Cardinality(I) \in Nat
  <2>1. I = Variables({p})
    BY DEF Variables
  <2>2. {p} \in SUBSET DOMAIN body
    OBVIOUS
  <2> HIDE DEF I
  <2>3. QED
    BY <1>2, <2>1, <2>2, CountsFinite
<1>16. VisitVarDecl(p) = Cardinality(I)
  BY DEF VisitVarDecl
<1> HIDE DEF K, O, N, V, I
<1>17. Cardinality(Variables(visited)') = Cardinality(V) + Cardinality(I)
  BY <1>3, <1>14, <1>15, DisjointUnion
<1>9. Cardinality(Others(visited)') = Cardinality(O) + Cardinality(N)
  BY <1>3, <1>6, <1>8, DisjointUnion
<1>10. Cardinality(Keywords(visited)') = Cardinality(K) + VisitStmt(p)
  <2>1. Cardinality(K \cup {p}) = Cardinality(K) + 1
    BY <1>3, <1>5, FS_AddElement
  <2>2. Cardinality(K) + 0 = Cardinality(K)
    BY <1>3
  <2>3. CASE body[p] \in KeywordStatements
    BY <1>4, <2>1, <2>3 DEF VisitStmt
  <2>4. CASE body[p] \notin KeywordStatements
    <3>1. Keywords(visited)' = K /\ VisitStmt(p) = 0
      BY <1>4, <2>4 DEF VisitStmt
    <3>2. QED
      BY <2>2, <3>1
  <2>5. QED
    BY <2>3, <2>4
<1>11. VisitStmt(p) \in Nat
  BY DEF VisitStmt
<1>12. statements' = Cardinality(Keywords(visited)') + Cardinality(Others(visited)')
                       + Cardinality(Variables(visited)')
  BY <1>1, <1>2, <1>3, <1>7, <1>8, <1>9, <1>10, <1>11, <1>15, <1>16, <1>17
<1>13. QED
  BY <1>12 DEF StatementsSoFar

\* setMax() of what a visit finds.
LEMMA VisitDeepens ==
  ASSUME SInv, NEW p \in DOMAIN body, Visit(p)
  PROVE  NestingSoFar'
<1>1. /\ visited' = visited \cup {p} /\ body' = body
      /\ nesting' = IF body[p] \in ControlStatements
                    THEN Max({nesting, getControlDepth[p][FALSE]}) ELSE nesting
  BY DEF Visit
<1>2. GivenFunction /\ visited \subseteq DOMAIN body /\ nesting \in Nat
  BY DEF SInv, NestingSoFar
<1>3. \A q \in DOMAIN body : Levels(q) \in Nat /\ Levels(q)' = Levels(q)
  BY <1>1, <1>2, LevelsType DEF Levels
<1>4. getControlDepth[p][FALSE] = Levels(p)
  BY <1>2, DepthLevels
<1>5. PICK l \in Nat : l = Levels(p)
  BY <1>3
<1>6. Max({nesting, l}) = IF l > nesting THEN l ELSE nesting
  <2>1. \E m \in {nesting, l} : \A y \in {nesting, l} : m >= y
    BY <1>2
  <2>2. /\ Max({nesting, l}) \in {nesting, l}
        /\ \A y \in {nesting, l} : Max({nesting, l}) >= y
    BY <2>1 DEF Max
  <2>3. QED
    BY <1>2, <2>2
<1>7. nesting' = IF body[p] \in ControlStatements /\ l > nesting THEN l ELSE nesting
  BY <1>1, <1>4, <1>5, <1>6
<1>8. /\ \A q \in visited : body[q] \in ControlStatements => Levels(q) <= nesting
      /\ nesting = 0 \/ \E q \in visited : Levels(q) = nesting
  BY DEF SInv, NestingSoFar
<1>9. nesting' \in Nat /\ nesting' >= nesting
  BY <1>2, <1>7
<1>10. \A q \in visited' : body'[q] \in ControlStatements => Levels(q)' <= nesting'
  <2>1. \A q \in visited : body[q] \in ControlStatements => Levels(q) <= nesting'
    BY <1>2, <1>3, <1>8, <1>9
  <2>2. body[p] \in ControlStatements => Levels(p) <= nesting'
    BY <1>2, <1>5, <1>7
  <2>3. QED
    BY <1>1, <1>2, <1>3, <2>1, <2>2
<1>11. nesting' = 0 \/ \E q \in visited' : Levels(q)' = nesting'
  BY <1>1, <1>2, <1>3, <1>5, <1>7, <1>8
<1>12. QED
  BY <1>9, <1>10, <1>11 DEF NestingSoFar

LEMMA SNextInv ==
  ASSUME SInv, [SNext]_svars
  PROVE  SInv'
<1>1. CASE SNext
  <2>1. PICK p \in DOMAIN body : Visit(p)
    BY <1>1 DEF SNext
  <2>2. /\ body' = body /\ cond' = cond /\ initialised' = initialised
        /\ visited' \subseteq DOMAIN body /\ GivenFunction
    BY <2>1 DEF Visit, SInv
  <2>3. StatementsSoFar' /\ NestingSoFar'
    BY <2>1, VisitCounts, VisitDeepens
  <2>4. QED
    BY <2>2, <2>3 DEF SInv, GivenFunction
<1>2. CASE UNCHANGED svars
  BY <1>2 DEF svars, SInv, GivenFunction, StatementsSoFar, NestingSoFar, Keywords, Others,
              Variables, Levels
<1>3. QED
  BY <1>1, <1>2

LEMMA SInvHolds == SSpec => []SInv
<1>1. SInit => SInv
  BY SInitInv
<1>2. SInv /\ [SNext]_svars => SInv'
  BY SNextInv
<1>3. QED
  BY <1>1, <1>2, PTL DEF SSpec
-----------------------------------------------------------------------------
(* What the counts of statements and levels come to. *)

LEMMA FinishedStatements ==
  ASSUME SInv
  PROVE  StatementsExact
<1> SUFFICES ASSUME Finished
             PROVE  statements = Cardinality({p \in Documented : ~ BelowLabel(p)})
                                   + Cardinality(initialised)
  BY DEF StatementsExact
<1> DEFINE D == DOMAIN body
           C == {p \in Documented : ~ BelowLabel(p)}
<1>1. /\ GivenFunction
      /\ statements = Cardinality(Keywords(D)) + Cardinality(Others(D)) + Cardinality(Variables(D))
  BY DEF SInv, StatementsSoFar, Finished
<1>2. IsFiniteSet(Keywords(D)) /\ IsFiniteSet(Others(D))
  BY <1>1, CountsFinite
<1>3. KeywordStatements \cap NoStatements = {}
  BY DEF KeywordStatements, ControlStatements, NoStatements
<1>4. Keywords(D) \cap Others(D) = {}
  BY DEF Keywords, Others
<1>5. C = Keywords(D) \cup Others(D)
  <2>1. body[<<>>] \in NoStatements /\ <<>> \in D
    BY <1>1, BodyFacts DEF NoStatements
  <2>2. \A p \in D : p # <<>> => Front(p) \in D
    BY <1>1, BodyFacts
  <2>3. ASSUME NEW p \in D PROVE p \in C <=> p \in Keywords(D) \/ p \in Others(D)
    BY <1>3, <2>1, <2>2, Zenon DEF Keywords, Others, Documented, BelowLabel
  <2>4. C \subseteq D /\ Keywords(D) \subseteq D /\ Others(D) \subseteq D
    BY DEF Keywords, Others, Documented
  <2> HIDE DEF C, D
  <2>5. QED
    BY <2>3, <2>4
<1>6. Cardinality(C) = Cardinality(Keywords(D)) + Cardinality(Others(D))
  BY <1>2, <1>4, <1>5, DisjointUnion
<1>7. Variables(D) = initialised
  BY <1>1, CountsFinite DEF Variables
<1>8. QED
  BY <1>1, <1>6, <1>7

LEMMA FinishedNesting ==
  ASSUME SInv
  PROVE  NestingExact
<1> SUFFICES ASSUME Finished PROVE nesting = Max({Levels(p) : p \in DOMAIN body})
  BY DEF NestingExact
<1> DEFINE M == {Levels(p) : p \in DOMAIN body}
           S == {p \in DOMAIN body : Levels(p) <= nesting}
<1>1. GivenFunction /\ visited = DOMAIN body /\ nesting \in Nat
  BY DEF SInv, NestingSoFar, Finished
<1>2. /\ \A p \in DOMAIN body : body[p] \in ControlStatements => Levels(p) <= nesting
      /\ nesting = 0 \/ \E p \in DOMAIN body : Levels(p) = nesting
  BY <1>1 DEF SInv, NestingSoFar
<1>3. <<>> \in DOMAIN body /\ Levels(<<>>) = 0
  BY <1>1, BodyFacts, LevelsStart
<1>4. DOMAIN body \subseteq S
  <2>1. <<>> \in S
    BY <1>1, <1>3
  <2>2. ASSUME NEW p \in DOMAIN body, p # <<>>, Front(p) \in S PROVE p \in S
    <3>1. CASE body[p] \in ControlStatements
      BY <1>2, <3>1
    <3>2. CASE body[p] \notin ControlStatements
      <4>1. /\ Levels(Front(p)) \in Nat /\ Levels(p) = Levels(Front(p)) + OwnLevel(p)
            /\ OwnLevel(p) = 0
        BY <1>1, <2>2, <3>2, LevelsStep DEF OwnLevel
      <4>2. QED
        BY <1>1, <2>2, <4>1
    <3>3. QED
      BY <3>1, <3>2
  <2> HIDE DEF S
  <2>3. QED
    BY <1>1, <2>1, <2>2, AllPlaces
<1>5. \A m \in M : m \in Nat /\ m <= nesting
  BY <1>1, <1>4, LevelsType
<1>6. nesting \in M
  BY <1>2, <1>3
<1> HIDE DEF M
<1>7. Max(M) = nesting
  <2>1. \E m \in M : \A y \in M : m >= y
    BY <1>1, <1>5, <1>6
  <2>2. Max(M) \in M /\ \A y \in M : Max(M) >= y
    BY <2>1 DEF Max
  <2>3. PICK m \in Nat : m = Max(M) /\ m <= nesting /\ m >= nesting
    BY <1>5, <1>6, <2>2
  <2>4. m = nesting
    BY <1>1, <2>3
  <2>5. QED
    BY <2>3, <2>4
<1>8. QED
  BY <1>7 DEF M
-----------------------------------------------------------------------------
(* Numbers that wrap. *)

LEMMA Quotient ==
  ASSUME NEW m \in Nat \ {0}, NEW a \in Nat
  PROVE  a % m \in Nat /\ a % m < m /\ \E q \in Nat : a = q * m + (a % m)
<1>1. a = (a \div m) * m + (a % m) /\ a \div m \in Nat /\ a % m \in 0 .. (m - 1)
  OBVIOUS
<1>2. PICK r : r = a % m
  OBVIOUS
<1>3. PICK q : q = a \div m
  OBVIOUS
<1>4. a = q * m + r /\ q \in Nat /\ r \in 0 .. (m - 1)
  BY <1>1, <1>2, <1>3
<1>5. r \in Nat /\ r < m
  BY <1>4
<1>6. QED
  BY <1>2, <1>4, <1>5

LEMMA SmallerMultiple ==
  ASSUME NEW m \in Nat \ {0}, NEW q \in Nat, NEW r \in Nat, q < r
  PROVE  q * m + m <= r * m
<1>1. PICK d \in Nat : r = q + 1 + d
  <2>1. r - q - 1 \in Nat /\ r = q + 1 + (r - q - 1)
    OBVIOUS
  <2>2. QED
    BY <2>1
<1>2. r * m = q * m + m + d * m
  BY <1>1
<1>3. d * m \in Nat /\ q * m \in Nat
  OBVIOUS
<1>4. QED
  BY <1>2, <1>3

LEMMA SameRemainder ==
  ASSUME NEW m \in Nat \ {0}, NEW q \in Nat, NEW r \in Nat, NEW x \in Nat, NEW y \in Nat,
         x < m, y < m, q * m + x = r * m + y
  PROVE  x = y
<1>0. q * m \in Nat /\ r * m \in Nat
  OBVIOUS
<1>1. CASE q < r
  BY <1>0, <1>1, SmallerMultiple
<1>2. CASE r < q
  BY <1>0, <1>2, SmallerMultiple
<1>3. CASE q = r
  BY <1>0, <1>3
<1>4. QED
  BY <1>1, <1>2, <1>3

LEMMA Remainder ==
  ASSUME NEW m \in Nat \ {0}, NEW q \in Nat, NEW x \in Nat
  PROVE  (q * m + x) % m = x % m
<1>1. PICK r \in Nat : x = r * m + (x % m)
  BY Quotient
<1>2. q * m + x \in Nat
  OBVIOUS
<1>3. PICK s \in Nat : q * m + x = s * m + ((q * m + x) % m)
  BY <1>2, Quotient
<1>4. PICK t \in Nat : t = q + r
  OBVIOUS
<1>5. q * m + x = t * m + (x % m)
  <2>1. PICK y \in Nat : y = x % m
    BY Quotient
  <2>2. PICK u \in Nat, v \in Nat : u = q * m /\ v = r * m
    OBVIOUS
  <2>3. t * m = u + v
    BY <1>4, <2>2
  <2>4. x = v + y
    BY <1>1, <2>1, <2>2
  <2>5. u + x = (u + v) + y
    BY <2>4
  <2>6. QED
    BY <2>1, <2>2, <2>3, <2>5, Zenon
<1>6. /\ x % m \in Nat /\ x % m < m
      /\ (q * m + x) % m \in Nat /\ (q * m + x) % m < m
  BY <1>2, Quotient
<1>7. QED
  BY <1>3, <1>5, <1>6, SameRemainder

\* Sums and products may be reduced before or after.
LEMMA Reduced ==
  ASSUME NEW m \in Nat \ {0}, NEW a \in Nat, NEW b \in Nat
  PROVE  /\ a % m \in Nat /\ ((a % m) % m) = a % m
         /\ ((a % m) + b) % m = (a + b) % m
         /\ ((a % m) * b) % m = (a * b) % m
<1>1. PICK q \in Nat : a = q * m + (a % m)
  BY Quotient
<1>2. PICK x \in Nat : x = a % m /\ x < m
  BY Quotient
<1>3. a = q * m + x
  BY <1>1, <1>2
<1>4. x % m = x
  <2>1. a % m = x % m
    BY <1>3, Remainder
  <2>2. QED
    BY <1>2, <2>1
<1>5. (x + b) % m = (a + b) % m
  <2>1. PICK y \in Nat : y = x + b
    OBVIOUS
  <2>2. (q * m + y) % m = y % m
    BY Remainder
  <2>3. q * m + y = a + b
    <3>1. q * m \in Nat
      OBVIOUS
    <3>2. QED
      BY <1>3, <2>1, <3>1
  <2>4. QED
    BY <2>1, <2>2, <2>3
<1>6. (x * b) % m = (a * b) % m
  <2>1. PICK r \in Nat : r = q * b
    OBVIOUS
  <2>2. PICK y \in Nat : y = x * b
    OBVIOUS
  <2>3. a * b = r * m + y
    <3>1. a * b = (q * m) * b + x * b
      BY <1>3
    <3>2. (q * m) * b = (q * b) * m
      OBVIOUS
    <3>3. QED
      BY <2>1, <2>2, <3>1, <3>2
  <2>4. (r * m + y) % m = y % m
    BY Remainder
  <2>5. QED
    BY <2>2, <2>3, <2>4
<1>7. QED
  BY <1>2, <1>4, <1>5, <1>6
-----------------------------------------------------------------------------
(* Sets of paths. *)

LEMMA SameSize ==
  ASSUME NEW S, IsFiniteSet(S), NEW T, NEW f \in [S -> T], \A t \in T : \E x \in S : f[x] = t,
         \A x, y \in S : f[x] = f[y] => x = y
  PROVE  IsFiniteSet(T) /\ Cardinality(T) = Cardinality(S)
<1>1. f \in Bijection(S, T)
  BY DEF Bijection, Injection, Surjection, IsInjective
<1>2. QED
  BY <1>1, FS_Bijection DEF ExistsBijection

\* The paths of S that end in one of the ways e.
Ending(S, e) == {x \in S : x.end \in e}
\* The number of paths of S that end in one of the ways e.
Num(S, e) == Cardinality(Ending(S, e))

\* The paths of S come to places of A only, no two of them to the same places.
Distinct(S, A) ==
  /\ IsFiniteSet(S)
  /\ \A x \in S : x = Path(x.places, x.end) /\ x.places \subseteq A
  /\ \A x, y \in S : x.places = y.places => x = y

\* Every path of S comes to a place.
Somewhere(S) == \A x \in S : x.places # {}

LEMMA PathFields ==
  ASSUME NEW a, NEW b
  PROVE  Path(a, b).places = a /\ Path(a, b).end = b
BY DEF Path

LEMMA NumType ==
  ASSUME NEW S, IsFiniteSet(S), NEW e
  PROVE  /\ IsFiniteSet(Ending(S, e)) /\ Num(S, e) \in Nat
         /\ Num(S, e) = 0 <=> Ending(S, e) = {}
<1>1. Ending(S, e) \in SUBSET S
  BY DEF Ending
<1>2. IsFiniteSet(Ending(S, e))
  BY <1>1, FS_Subset
<1>3. QED
  BY <1>2, FS_CardinalityType, FS_EmptySet DEF Num

LEMMA NumSplit ==
  ASSUME NEW S, IsFiniteSet(S), NEW d, NEW e, d \cap e = {}
  PROVE  Num(S, d \cup e) = Num(S, d) + Num(S, e)
<1>1. Ending(S, d \cup e) = Ending(S, d) \cup Ending(S, e)
  BY DEF Ending
<1>2. Ending(S, d) \cap Ending(S, e) = {}
  BY DEF Ending
<1>3. IsFiniteSet(Ending(S, d)) /\ IsFiniteSet(Ending(S, e))
  BY NumType
<1>4. QED
  BY <1>1, <1>2, <1>3, DisjointUnion DEF Num

\* Paths side by side.
LEMMA BesideDistinct ==
  ASSUME NEW S, NEW A, Distinct(S, A), NEW T, NEW B, Distinct(T, B), A \cap B = {},
         Somewhere(S) \/ Somewhere(T), NEW e
  PROVE  /\ Distinct(S \cup T, A \cup B)
         /\ Num(S \cup T, e) = Num(S, e) + Num(T, e)
<1>1. \A x \in S, y \in T : x.places # y.places
  <2> SUFFICES ASSUME NEW x \in S, NEW y \in T, x.places = y.places PROVE FALSE
    OBVIOUS
  <2>1. x.places \subseteq A /\ y.places \subseteq B
    BY DEF Distinct
  <2>2. x.places # {} \/ y.places # {}
    BY DEF Somewhere
  <2>3. QED
    BY <2>1, <2>2
<1>2. IsFiniteSet(S \cup T)
  BY FS_Union DEF Distinct
<1>3. Distinct(S \cup T, A \cup B)
  <2>1. \A x \in S \cup T : x = Path(x.places, x.end) /\ x.places \subseteq A \cup B
    BY DEF Distinct
  <2>2. \A x, y \in S \cup T : x.places = y.places => x = y
    BY <1>1 DEF Distinct
  <2>3. QED
    BY <1>2, <2>1, <2>2 DEF Distinct
<1>4. Ending(S \cup T, e) = Ending(S, e) \cup Ending(T, e)
  BY DEF Ending
<1>5. Ending(S, e) \cap Ending(T, e) = {}
  BY <1>1 DEF Ending
<1>6. IsFiniteSet(Ending(S, e)) /\ IsFiniteSet(Ending(T, e))
  BY NumType DEF Distinct
<1>7. QED
  BY <1>3, <1>4, <1>5, <1>6, DisjointUnion DEF Num

LEMMA ViaDistinct ==
  ASSUME NEW S, NEW A, Distinct(S, A), NEW p, p \notin A, NEW e
  PROVE  /\ Distinct(Via(p, S), A \cup {p}) /\ Somewhere(Via(p, S))
         /\ Num(Via(p, S), e) = Num(S, e)
<1> DEFINE V(x) == Path({p} \cup x.places, x.end)
<1>1. \A x \in S : V(x).places = {p} \cup x.places /\ V(x).end = x.end
  BY PathFields
<1>2. \A x \in S : x = Path(x.places, x.end) /\ x.places \subseteq A
  BY DEF Distinct
<1>3. ASSUME NEW x \in S, NEW y \in S, V(x).places = V(y).places PROVE x = y
  <2>1. {p} \cup x.places = {p} \cup y.places
    BY <1>1, <1>3
  <2>2. p \notin x.places /\ p \notin y.places
    BY <1>2
  <2>3. \A q : q \in x.places <=> q \in y.places
    BY <2>1, <2>2, Zenon
  <2>4. x.places = y.places
    BY <2>3, Zenon
  <2>5. QED
    BY <2>4 DEF Distinct
<1>4. Via(p, S) = {V(x) : x \in S}
  BY DEF Via
<1>5. ASSUME NEW d
      PROVE  IsFiniteSet(Ending(Via(p, S), d)) /\ Num(Via(p, S), d) = Num(S, d)
  <2> DEFINE f == [x \in Ending(S, d) |-> V(x)]
  <2>1. f \in [Ending(S, d) -> Ending(Via(p, S), d)]
    BY <1>1, <1>4 DEF Ending
  <2>2. \A v \in Ending(Via(p, S), d) : \E x \in Ending(S, d) : f[x] = v
    <3> SUFFICES ASSUME NEW v \in Ending(Via(p, S), d) PROVE \E x \in Ending(S, d) : V(x) = v
      OBVIOUS
    <3>1. PICK x \in S : v = V(x)
      BY <1>4 DEF Ending
    <3>2. x.end \in d
      BY <1>1, <3>1 DEF Ending
    <3>3. QED
      BY <3>1, <3>2 DEF Ending
  <2>3. \A x, y \in Ending(S, d) : f[x] = f[y] => x = y
    BY <1>3 DEF Ending
  <2>4. IsFiniteSet(Ending(S, d))
    BY NumType DEF Distinct
  <2> HIDE DEF f
  <2>5. QED
    BY <2>1, <2>2, <2>3, <2>4, SameSize DEF Num
<1>6. IsFiniteSet(Via(p, S))
  <2> DEFINE D == {x.end : x \in Via(p, S)}
  <2>1. Ending(Via(p, S), D) = Via(p, S)
    BY DEF Ending
  <2>2. QED
    BY <1>5, <2>1
<1>7. \A v \in Via(p, S) : v = Path(v.places, v.end) /\ v.places \subseteq A \cup {p} /\ v.places # {}
  <2> SUFFICES ASSUME NEW x \in S
               PROVE  /\ V(x) = Path(V(x).places, V(x).end)
                      /\ V(x).places \subseteq A \cup {p} /\ V(x).places # {}
    BY <1>4, ZenonT(40)
  <2>1. V(x).places = {p} \cup x.places /\ V(x).end = x.end
    BY <1>1
  <2>2. QED
    BY <1>2, <2>1
<1>8. \A v, w \in Via(p, S) : v.places = w.places => v = w
  BY <1>3, <1>4
<1>9. QED
  BY <1>5, <1>6, <1>7, <1>8 DEF Distinct, Somewhere

LEMMA EndsDistinct ==
  ASSUME NEW S, NEW A, Distinct(S, A), NEW from, NEW to, NEW e
  PROVE  /\ Distinct(Ends(S, from, to), A) /\ (Somewhere(S) => Somewhere(Ends(S, from, to)))
         /\ Num(Ends(S, from, to), e) = Num(S, (e \ from) \cup (IF to \in e THEN from ELSE {}))
<1> DEFINE V(x) == IF x.end \in from THEN Path(x.places, to) ELSE x
           E(d) == (d \ from) \cup (IF to \in d THEN from ELSE {})
<1>1. \A x \in S : /\ V(x).places = x.places
                   /\ V(x).end = IF x.end \in from THEN to ELSE x.end
  BY PathFields
<1>2. \A x \in S : x = Path(x.places, x.end) /\ x.places \subseteq A
  BY DEF Distinct
<1>3. ASSUME NEW x \in S, NEW y \in S, V(x).places = V(y).places PROVE x = y
  <2>1. x.places = y.places
    BY <1>1, <1>3
  <2>2. QED
    BY <2>1 DEF Distinct
<1>4. Ends(S, from, to) = {V(x) : x \in S}
  BY DEF Ends
<1>5. ASSUME NEW d
      PROVE  /\ IsFiniteSet(Ending(Ends(S, from, to), d))
             /\ Num(Ends(S, from, to), d) = Num(S, E(d))
  <2> DEFINE f == [x \in Ending(S, E(d)) |-> V(x)]
             T == Ending(Ends(S, from, to), d)
  <2>0. \A x \in S : V(x).end \in d <=> x.end \in E(d)
    BY <1>1
  <2>1. f \in [Ending(S, E(d)) -> T]
    <3> SUFFICES ASSUME NEW x \in Ending(S, E(d)) PROVE V(x) \in T
      OBVIOUS
    <3>1. x \in S /\ x.end \in E(d)
      BY DEF Ending
    <3>2. V(x) \in Ends(S, from, to) /\ V(x).end \in d
      BY <1>4, <2>0, <3>1
    <3> HIDE DEF V
    <3>3. QED
      BY <3>2 DEF Ending
  <2>2. \A v \in T : \E x \in Ending(S, E(d)) : f[x] = v
    <3> SUFFICES ASSUME NEW v \in T PROVE \E x \in Ending(S, E(d)) : V(x) = v
      OBVIOUS
    <3>1. PICK x \in S : v = V(x)
      BY <1>4 DEF Ending
    <3>2. x.end \in E(d)
      BY <2>0, <3>1 DEF Ending
    <3>3. QED
      BY <3>1, <3>2 DEF Ending
  <2>3. \A x, y \in Ending(S, E(d)) : f[x] = f[y] => x = y
    BY <1>3 DEF Ending
  <2>4. IsFiniteSet(Ending(S, E(d)))
    BY NumType DEF Distinct
  <2> HIDE DEF f, T, E
  <2>5. IsFiniteSet(T) /\ Cardinality(T) = Cardinality(Ending(S, E(d)))
    BY <2>1, <2>2, <2>3, <2>4, SameSize
  <2>6. QED
    BY <2>5 DEF Num, T
<1>6. IsFiniteSet(Ends(S, from, to))
  <2> DEFINE D == {x.end : x \in Ends(S, from, to)}
  <2>1. Ending(Ends(S, from, to), D) = Ends(S, from, to)
    BY DEF Ending
  <2>2. QED
    BY <1>5, <2>1
<1>7. ASSUME NEW x \in S
      PROVE  /\ V(x) = Path(V(x).places, V(x).end)
             /\ V(x).places \subseteq A /\ (x.places # {} => V(x).places # {})
  BY <1>1, <1>2 DEF Path
<1>8. \A v, w \in Ends(S, from, to) : v.places = w.places => v = w
  BY <1>3, <1>4
<1>9. Distinct(Ends(S, from, to), A)
  <2> HIDE DEF V
  <2>1. QED
    BY <1>4, <1>6, <1>7, <1>8 DEF Distinct
<1>10. Somewhere(S) => Somewhere(Ends(S, from, to))
  <2> HIDE DEF V
  <2>1. QED
    BY <1>4, <1>7 DEF Somewhere
<1>11. QED
  BY <1>5, <1>9, <1>10

LEMMA SubsetDistinct ==
  ASSUME NEW S, NEW A, Distinct(S, A), NEW T \in SUBSET S, NEW B, A \subseteq B
  PROVE  Distinct(T, B)
<1>1. IsFiniteSet(T)
  BY FS_Subset DEF Distinct
<1>2. QED
  BY <1>1 DEF Distinct

LEMMA StraightFacts ==
  /\ Distinct(Straight, {}) /\ Distinct({}, {})
  /\ \A e : Num(Straight, e) = IF "regular" \in e THEN 1 ELSE 0
  /\ \A e : Num({}, e) = 0
<1> DEFINE s == Path({}, "regular")
<1>1. s.places = {} /\ s.end = "regular" /\ Straight = {s}
  BY PathFields DEF Straight
<1>2. IsFiniteSet({s}) /\ Cardinality({s}) = 1 /\ IsFiniteSet({}) /\ Cardinality({}) = 0
  BY FS_Singleton, FS_EmptySet
<1>3. s = Path(s.places, s.end)
  BY <1>1
<1> HIDE DEF s
<1>4. Distinct(Straight, {}) /\ Distinct({}, {})
  BY <1>1, <1>2, <1>3 DEF Distinct
<1>5. ASSUME NEW e PROVE Num(Straight, e) = IF "regular" \in e THEN 1 ELSE 0
  <2>1. Ending(Straight, e) = IF "regular" \in e THEN {s} ELSE {}
    BY <1>1 DEF Ending
  <2>2. QED
    BY <1>2, <2>1 DEF Num
<1>6. ASSUME NEW e PROVE Num({}, e) = 0
  BY <1>2 DEF Num, Ending
<1>7. QED
  BY <1>4, <1>5, <1>6

\* The path x and then y.
Joint(x, y) == Path(x.places \cup y.places, y.end)
Joints(S, T) == {Joint(x, y) : x \in S, y \in T}

\* Does a path of S that comes nowhere go on?
Loose(S) == \A x \in S : x.end # "regular" => x.places # {}

\* A path of S that goes on does so along any path of T.
Multiplies(S, T) ==
  \A e : Num(Onwards(S, T), e) = Num(S, e \ {"regular"}) + Num(S, {"regular"}) * Num(T, e)

\* Paths one after the other.
LEMMA OnwardsDistinct ==
  ASSUME NEW S, NEW A, Distinct(S, A), NEW T, NEW B, Distinct(T, B), A \cap B = {},
         Somewhere(T), Loose(S)
  PROVE  /\ Distinct(Onwards(S, T), A \cup B) /\ Somewhere(Onwards(S, T))
         /\ Multiplies(S, T)
<1> DEFINE R == Ending(S, {"regular"})
           O == {x \in S : x.end # "regular"}
           C == Joints(R, T)
           JJ(z) == Joint(z[1], z[2])
<1>1. Onwards(S, T) = O \cup C
  BY DEF Onwards, Ending, Joints, Joint
<1>2. \A x \in S : x = Path(x.places, x.end) /\ x.places \subseteq A
  BY DEF Distinct
<1>3. \A y \in T : y = Path(y.places, y.end) /\ y.places \subseteq B /\ y.places # {}
  BY DEF Distinct, Somewhere
<1>4. \A x \in S, y \in T : Joint(x, y).places = x.places \cup y.places /\ Joint(x, y).end = y.end
  BY PathFields DEF Joint
<1>5. R \in SUBSET S /\ \A x : x \in R <=> x \in S /\ x.end = "regular"
  BY DEF Ending
<1>51. \A c : c \in C <=> \E x \in R, y \in T : c = Joint(x, y)
  BY DEF Joints
<1>52. \A x \in R, y \in T : Joint(x, y) = Path(Joint(x, y).places, Joint(x, y).end)
  BY <1>4, <1>5 DEF Joint
<1>53. O \in SUBSET S /\ \A x : x \in O <=> x \in S /\ x.end # "regular"
  OBVIOUS
<1> HIDE DEF R, O, C
<1>6. ASSUME NEW x \in S, NEW y \in T, NEW u \in S, NEW v \in T,
             Joint(x, y).places = Joint(u, v).places
      PROVE  x = u /\ y = v
  <2>1. x.places \cup y.places = u.places \cup v.places
    BY <1>4, <1>6
  <2>2. \A q : q \in x.places <=> q \in u.places
    BY <1>2, <1>3, <2>1
  <2>3. \A q : q \in y.places <=> q \in v.places
    BY <1>2, <1>3, <2>1
  <2>4. x.places = u.places /\ y.places = v.places
    BY <2>2, <2>3
  <2>5. QED
    BY <2>4 DEF Distinct
<1>7. ASSUME NEW x \in S, NEW u \in S, NEW v \in T PROVE x.places # Joint(u, v).places
  <2>1. PICK q \in v.places : q \in B
    BY <1>3
  <2>2. q \in Joint(u, v).places
    BY <1>4, <2>1, Zenon
  <2>3. q \notin x.places
    BY <1>2, <2>1
  <2>4. QED
    BY <2>2, <2>3
<1>8. IsFiniteSet(R) /\ Cardinality(R) = Num(S, {"regular"}) /\ Num(S, {"regular"}) \in Nat
  BY NumType DEF Num, Distinct, R
<1>9. ASSUME NEW e
      PROVE  /\ IsFiniteSet(Ending(C, e)) /\ IsFiniteSet(Ending(O, e))
             /\ Num(C, e) = Num(S, {"regular"}) * Num(T, e)
             /\ Num(O, e) = Num(S, e \ {"regular"})
  <2> DEFINE P == R \X Ending(T, e)
             f == [z \in P |-> JJ(z)]
  <2>0. \A z \in P : z[1] \in S /\ z[1] \in R /\ z[2] \in T /\ z[2].end \in e /\ z = <<z[1], z[2]>>
    BY <1>5 DEF Ending
  <2>1. IsFiniteSet(Ending(T, e)) /\ Num(T, e) \in Nat
    BY NumType DEF Distinct
  <2>2. IsFiniteSet(P) /\ Cardinality(P) = Num(S, {"regular"}) * Num(T, e)
    BY <1>8, <2>1, FS_Product DEF Num
  <2>3. f \in [P -> Ending(C, e)]
    <3>1. ASSUME NEW z \in P PROVE JJ(z) \in Ending(C, e)
      <4>1. JJ(z) \in C
        BY <1>51, <2>0
      <4>2. JJ(z).end \in e
        <5>1. JJ(z).end = z[2].end
          BY <1>4, <2>0
        <5>2. QED
          BY <2>0, <5>1, Zenon
      <4>3. QED
        BY <4>1, <4>2 DEF Ending
    <3> HIDE DEF JJ
    <3>2. QED
      BY <3>1
  <2>4. \A c \in Ending(C, e) : \E z \in P : f[z] = c
    <3>1. ASSUME NEW c \in Ending(C, e) PROVE \E z \in P : JJ(z) = c
      <4>1. c \in C /\ c.end \in e
        BY <3>1 DEF Ending
      <4>2. PICK x \in R, y \in T : c = Joint(x, y)
        BY <1>51, <4>1
      <4>3. y.end \in e
        BY <1>4, <1>5, <4>1, <4>2, Zenon
      <4>4. <<x, y>> \in P
        BY <4>3 DEF Ending
      <4>5. JJ(<<x, y>>) = c
        BY <4>2
      <4>6. QED
        BY <4>4, <4>5
    <3> HIDE DEF JJ
    <3>2. QED
      BY <3>1
  <2>5. \A z, w \in P : f[z] = f[w] => z = w
    <3>1. ASSUME NEW z \in P, NEW w \in P, JJ(z) = JJ(w) PROVE z = w
      <4>1. Joint(z[1], z[2]).places = Joint(w[1], w[2]).places
        BY <3>1
      <4>2. z[1] = w[1] /\ z[2] = w[2]
        BY <1>6, <2>0, <4>1
      <4>3. QED
        BY <2>0, <4>2
    <3> HIDE DEF JJ
    <3>2. QED
      BY <3>1
  <2> HIDE DEF P, f, JJ
  <2>6. IsFiniteSet(Ending(C, e)) /\ Num(C, e) = Num(S, {"regular"}) * Num(T, e)
    BY <2>2, <2>3, <2>4, <2>5, SameSize DEF Num
  <2>7. Ending(O, e) = Ending(S, e \ {"regular"})
    BY <1>53 DEF Ending
  <2>8. QED
    BY <2>6, <2>7, NumType DEF Num, Distinct
<1>10. IsFiniteSet(C) /\ IsFiniteSet(O) /\ O \in SUBSET S
  <2> DEFINE D == {x.end : x \in C}
  <2>1. Ending(C, D) = C
    BY DEF Ending
  <2>2. QED
    BY <1>9, <1>53, <2>1, FS_Subset DEF Distinct
<1>11. Distinct(O, A)
  BY <1>10, SubsetDistinct
<1>12. \A c \in C : c = Path(c.places, c.end) /\ c.places \subseteq A \cup B /\ c.places # {}
  <2>1. ASSUME NEW x \in R, NEW y \in T
        PROVE  Joint(x, y).places \subseteq A \cup B /\ Joint(x, y).places # {}
    <3>1. Joint(x, y).places = x.places \cup y.places
      BY <1>4, <1>5
    <3>2. QED
      BY <1>2, <1>3, <1>5, <3>1
  <2>2. QED
    BY <1>51, <1>52, <2>1
<1>13. \A b, c \in C : b.places = c.places => b = c
  BY <1>5, <1>51, <1>6
<1>14. \A x \in O, c \in C : x.places # c.places
  BY <1>5, <1>51, <1>53, <1>7
<1>15. Distinct(Onwards(S, T), A \cup B)
  <2>1. IsFiniteSet(O \cup C)
    BY <1>10, FS_Union
  <2>2. \A x \in O \cup C : x = Path(x.places, x.end) /\ x.places \subseteq A \cup B
    BY <1>11, <1>12 DEF Distinct
  <2>3. \A x, y \in O \cup C : x.places = y.places => x = y
    BY <1>11, <1>13, <1>14 DEF Distinct
  <2>4. QED
    BY <1>1, <2>1, <2>2, <2>3 DEF Distinct
<1>16. Somewhere(Onwards(S, T))
  <2>1. \A x \in O : x.places # {}
    BY <1>53 DEF Loose
  <2>2. QED
    BY <1>1, <1>12, <2>1 DEF Somewhere
<1>17. ASSUME NEW e
       PROVE Num(Onwards(S, T), e) = Num(S, e \ {"regular"}) + Num(S, {"regular"}) * Num(T, e)
  <2>1. Ending(O \cup C, e) = Ending(O, e) \cup Ending(C, e)
    BY DEF Ending
  <2>2. Ending(O, e) \cap Ending(C, e) = {}
    BY <1>14 DEF Ending
  <2>3. IsFiniteSet(Ending(O, e)) /\ IsFiniteSet(Ending(C, e))
    BY <1>9
  <2>4. Num(Onwards(S, T), e) = Num(O, e) + Num(C, e)
    BY <1>1, <2>1, <2>2, <2>3, DisjointUnion DEF Num
  <2>5. QED
    BY <1>9, <2>4, Zenon
<1>18. Multiplies(S, T)
  BY <1>17, Zenon DEF Multiplies
<1>19. QED
  BY <1>15, <1>16, <1>18
-----------------------------------------------------------------------------
(* Statements below a statement. *)

\* Is q the place p, or below it?
Under(p, q) == Len(p) <= Len(q) /\ \A n \in 1 .. Len(p) : p[n] = q[n]
\* The places at and below p.
Tree(p) == {q \in DOMAIN body : Under(p, q)}

LEMMA PrefixFacts ==
  ASSUME NEW p \in Seq(Nat \ {0}), NEW q \in Seq(Nat \ {0})
  PROVE  /\ IsPrefix(p, q) <=> Under(p, q)
         /\ IsStrictPrefix(p, q) <=> Under(p, q) /\ Len(p) < Len(q)
<1>1. Len(p) \in Nat /\ Len(q) \in Nat
  OBVIOUS
<1>2. SubSeq(p, 1, Len(p)) = p
  OBVIOUS
<1>3. ASSUME Len(p) <= Len(q)
      PROVE  (p = SubSeq(q, 1, Len(p))) <=> \A n \in 1 .. Len(p) : p[n] = q[n]
  <2>1. /\ SubSeq(q, 1, Len(p)) \in Seq(Nat \ {0}) /\ Len(SubSeq(q, 1, Len(p))) = Len(p)
        /\ \A n \in 1 .. Len(p) : SubSeq(q, 1, Len(p))[n] = q[n]
    <3>1. PICK k \in Nat : k = Len(p) /\ k <= Len(q)
      BY <1>1, <1>3
    <3>2. \A n \in 1 .. k : q[n] \in Nat \ {0}
      BY <1>1, <3>1
    <3>3. SubSeq(q, 1, k) \in Seq(Nat \ {0}) /\ Len(SubSeq(q, 1, k)) = k
      BY <3>2
    <3>4. \A n \in 1 .. k : SubSeq(q, 1, k)[n] = q[n]
      BY <3>2
    <3>5. QED
      BY <3>1, <3>3, <3>4
  <2>2. QED
    BY <2>1
<1>4. IsPrefix(p, q) <=> Under(p, q)
  BY <1>2, <1>3 DEF IsPrefix, Under
<1>5. ASSUME Under(p, q) PROVE p # q <=> Len(p) < Len(q)
  <2>1. CASE Len(p) = Len(q)
    <3>1. p = q
      BY <1>5, <2>1, SMTT(40) DEF Under
    <3>2. QED
      BY <2>1, <3>1
  <2>2. CASE Len(p) # Len(q)
    BY <1>1, <1>5, <2>2 DEF Under
  <2>3. QED
    BY <2>1, <2>2
<1>6. QED
  BY <1>4, <1>5 DEF IsStrictPrefix

LEMMA AppendFacts ==
  ASSUME NEW p \in Seq(Nat \ {0}), NEW i \in Nat \ {0}
  PROVE  /\ Append(p, i) \in Seq(Nat \ {0}) /\ Len(Append(p, i)) = Len(p) + 1
         /\ Append(p, i)[Len(p) + 1] = i /\ \A n \in 1 .. Len(p) : Append(p, i)[n] = p[n]
         /\ Append(p, i) # <<>> /\ Front(Append(p, i)) = p /\ Last(Append(p, i)) = i
<1>1. /\ Append(p, i) \in Seq(Nat \ {0}) /\ Len(Append(p, i)) = Len(p) + 1
      /\ Append(p, i)[Len(p) + 1] = i /\ \A n \in 1 .. Len(p) : Append(p, i)[n] = p[n]
  OBVIOUS
<1>2. Append(p, i) # <<>>
  OBVIOUS
<1>3. Front(Append(p, i)) = p
  <2>1. SubSeq(Append(p, i), 1, Len(p)) = p
    OBVIOUS
  <2>2. Len(p) + 1 - 1 = Len(p)
    OBVIOUS
  <2>3. QED
    BY <1>1, <2>1, <2>2 DEF Front
<1>4. QED
  BY <1>1, <1>2, <1>3 DEF Last

LEMMA TreeBelow ==
  ASSUME GivenFunction, NEW p \in DOMAIN body
  PROVE  /\ Tree(p) = {p} \cup Below(p) /\ p \notin Below(p) /\ Tree(p) \subseteq DOMAIN body
         /\ \A q \in DOMAIN body : q \in Below(p) <=> Under(p, q) /\ Len(p) < Len(q)
<1>1. \A q \in DOMAIN body : q \in Seq(Nat \ {0}) /\ Len(q) \in Nat
  BY BodyFacts
<1>2. \A q \in DOMAIN body : q \in Below(p) <=> Under(p, q) /\ Len(p) < Len(q)
  BY <1>1, PrefixFacts DEF Below
<1>3. \A q \in DOMAIN body : q \in Below(p) <=> Under(p, q) /\ p # q
  BY <1>1, PrefixFacts DEF Below, IsStrictPrefix
<1>4. Under(p, p)
  BY <1>1 DEF Under
<1>5. Below(p) \subseteq DOMAIN body
  BY DEF Below
<1>6. QED
  BY <1>2, <1>3, <1>4, <1>5 DEF Tree

LEMMA TreeWithin ==
  ASSUME GivenFunction, NEW p \in DOMAIN body, NEW q \in Tree(p)
  PROVE  /\ Tree(q) \subseteq Tree(p) /\ q \in DOMAIN body
         /\ \A r \in Tree(q) : r \in Below(q) \/ q \in Below(p) => r \in Below(p)
<1>1. Len(p) \in Nat /\ Len(q) \in Nat /\ q \in DOMAIN body
  BY BodyFacts DEF Tree
<1>2. ASSUME NEW r \in Tree(q)
      PROVE  Under(p, r) /\ Len(q) <= Len(r) /\ Len(p) <= Len(q) /\ Len(r) \in Nat
  <2>1. Len(r) \in Nat
    BY BodyFacts DEF Tree
  <2>2. Under(q, r) /\ Under(p, q)
    BY DEF Tree
  <2>3. QED
    BY <1>1, <2>1, <2>2 DEF Under
<1>3. Tree(q) \subseteq Tree(p)
  BY <1>2 DEF Tree
<1>4. ASSUME NEW r \in Tree(q), r \in Below(q) \/ q \in Below(p) PROVE r \in Below(p)
  <2>1. r \in DOMAIN body /\ Len(q) <= Len(r) /\ Len(p) <= Len(q) /\ Len(r) \in Nat
    BY <1>2 DEF Tree
  <2>2. Len(q) < Len(r) \/ Len(p) < Len(q)
    BY <1>1, <1>4, <2>1, TreeBelow
  <2>3. Len(p) < Len(r)
    BY <1>1, <2>1, <2>2
  <2>4. QED
    BY <1>2, <2>1, <2>3, TreeBelow
<1>5. QED
  BY <1>1, <1>3, <1>4

LEMMA PartFacts ==
  ASSUME GivenFunction, NEW p \in DOMAIN body, NEW i \in 1 .. Width(p)
  PROVE  /\ Append(p, i) \in DOMAIN body /\ Append(p, i) \in Below(p)
         /\ Tree(Append(p, i)) \subseteq Below(p) /\ Append(p, i) \in Tree(Append(p, i))
         /\ \A j \in 1 .. Width(p) : j # i =>
              Tree(Append(p, i)) \cap Tree(Append(p, j)) = {} /\ Append(p, i) # Append(p, j)
<1>1. Width(p) \in Nat /\ p \in Seq(Nat \ {0}) /\ Len(p) \in Nat
  BY BodyFacts
<1>2. \A j \in 1 .. Width(p) : j \in Nat \ {0} /\ Append(p, j) \in DOMAIN body
  <2>1. Parts(p) = {Append(p, j) : j \in 1 .. Width(p)}
    BY BodyFacts
  <2>2. Parts(p) \subseteq DOMAIN body
    BY DEF Parts, PartsIn
  <2>3. ASSUME NEW j \in 1 .. Width(p) PROVE j \in Nat \ {0} /\ Append(p, j) \in DOMAIN body
    <3>1. Append(p, j) \in Parts(p)
      BY <2>1, Zenon
    <3>2. j \in Nat \ {0}
      BY <1>1
    <3>3. QED
      BY <2>2, <3>1, <3>2
  <2>4. QED
    BY <2>3
<1>3. Append(p, i) \in Below(p)
  <2>1. Under(p, Append(p, i)) /\ Len(p) < Len(Append(p, i))
    BY <1>1, <1>2, AppendFacts DEF Under
  <2>2. QED
    BY <1>2, <2>1, TreeBelow
<1>4. Append(p, i) \in Tree(p) /\ Append(p, i) \in Tree(Append(p, i))
  BY <1>2, <1>3, TreeBelow
<1>5. Tree(Append(p, i)) \subseteq Below(p)
  BY <1>3, <1>4, TreeWithin
<1>6. ASSUME NEW j \in 1 .. Width(p), j # i, NEW q \in Tree(Append(p, i)), q \in Tree(Append(p, j))
      PROVE  FALSE
  <2>1. Under(Append(p, i), q) /\ Under(Append(p, j), q)
    BY <1>6 DEF Tree
  <2>2. /\ Len(Append(p, i)) = Len(p) + 1 /\ Append(p, i)[Len(p) + 1] = i
        /\ Len(Append(p, j)) = Len(p) + 1 /\ Append(p, j)[Len(p) + 1] = j
    BY <1>1, <1>2, AppendFacts
  <2>3. Len(p) + 1 \in 1 .. (Len(p) + 1)
    BY <1>1
  <2>4. q[Len(p) + 1] = i /\ q[Len(p) + 1] = j
    BY <2>1, <2>2, <2>3 DEF Under
  <2>5. QED
    BY <1>6, <2>4
<1>7. QED
  BY <1>2, <1>3, <1>4, <1>5, <1>6

\* Induction from below up to every place.
LEMMA FromBelow ==
  ASSUME GivenFunction, NEW S, \A p \in DOMAIN body : (\A q \in Below(p) : q \in S) => p \in S
  PROVE  DOMAIN body \subseteq S
<1> DEFINE D == DOMAIN body
           P == {t \in SUBSET D : \A p \in t : Tree(p) \subseteq t => p \in S}
<1>1. IsFiniteSet(D)
  BY BodyFacts
<1>2. ASSUME NEW t \in SUBSET D, \A r \in SUBSET t : r # t => r \in P PROVE t \in P
  <2>1. ASSUME NEW p \in t, Tree(p) \subseteq t PROVE p \in S
    <3>1. p \in D
      OBVIOUS
    <3>2. /\ Tree(p) = {p} \cup Below(p) /\ p \notin Below(p)
      BY <3>1, TreeBelow
    <3>3. Below(p) \in SUBSET t /\ Below(p) # t
      BY <2>1, <3>2
    <3>4. Below(p) \in P
      BY <1>2, <3>3
    <3>5. ASSUME NEW q \in Below(p) PROVE q \in S
      <4>1. q \in Tree(p)
        BY <3>2
      <4>2. Tree(q) \subseteq Below(p)
        BY <3>1, <4>1, TreeWithin
      <4>3. QED
        BY <3>4, <4>2
    <3>6. QED
      BY <3>1, <3>5
  <2>2. QED
    BY <2>1
<1> HIDE DEF P
<1>3. \A t \in SUBSET D : t \in P
  BY <1>1, <1>2, SmallerSubsets
<1>4. D \in P
  BY <1>3
<1>5. \A p \in D : Tree(p) \subseteq D
  BY DEF Tree
<1>6. QED
  BY <1>4, <1>5 DEF P

LEMMA WidthFacts ==
  ASSUME GivenFunction, NEW p \in DOMAIN body
  PROVE  /\ body[p] \in Leaves \cup Loops \cup Labels \cup {"block", "if", "switch", "label"}
         /\ Width(p) \in Nat
         /\ body[p] \in Leaves => Width(p) = 0
         /\ body[p] \in Loops \cup Labels \cup {"switch", "label"} => Width(p) = 1
         /\ body[p] = "if" => Width(p) \in {1, 2}
<1>1. Width(p) \in Arities(body[p]) /\ Width(p) \in Nat
  BY BodyFacts
<1>2. Arities(body[p]) # {}
  BY <1>1
<1>3. QED
  BY <1>1, <1>2 DEF Arities, Leaves, Loops, Labels

\* What the first n numbers of a place below p are.
LEMMA PrefixOf ==
  ASSUME GivenFunction, NEW p \in DOMAIN body, NEW q \in Tree(p)
  PROVE  SubSeq(q, 1, Len(p)) = p
<1>1. /\ p \in Seq(Nat \ {0}) /\ q \in Seq(Nat \ {0})
      /\ Len(p) \in Nat /\ Len(q) \in Nat
  BY BodyFacts DEF Tree
<1>2. Len(p) <= Len(q) /\ \A n \in 1 .. Len(p) : p[n] = q[n]
  BY DEF Tree, Under
<1>3. PICK k \in Nat : k = Len(p)
  BY <1>1
<1>4. /\ Len(SubSeq(q, 1, k)) = k /\ SubSeq(q, 1, k) \in Seq(Nat \ {0})
      /\ \A n \in 1 .. k : SubSeq(q, 1, k)[n] = q[n]
  <2>1. \A n \in 1 .. k : q[n] \in Nat \ {0}
    BY <1>1, <1>2, <1>3
  <2>2. QED
    BY <2>1
<1>5. QED
  BY <1>1, <1>2, <1>3, <1>4

LEMMA OnlyLabelsFacts ==
  ASSUME GivenFunction, NEW p \in DOMAIN body, NEW q \in DOMAIN body
  PROVE  /\ OnlyLabels(p, q) => q \in Tree(p)
         /\ OnlyLabels(p, p)
         /\ OnlyLabels(p, q) /\ q # p => q # <<>> /\ body[Front(q)] \in Labels
<1>1. p \in Seq(Nat \ {0}) /\ q \in Seq(Nat \ {0}) /\ Len(p) \in Nat /\ Len(q) \in Nat
  BY BodyFacts
<1>2. OnlyLabels(p, q) => q \in Tree(p)
  BY <1>1, PrefixFacts DEF OnlyLabels, Tree
<1>3. OnlyLabels(p, p)
  <2>1. IsPrefix(p, p)
    BY DEF IsPrefix
  <2>2. Len(p) .. (Len(p) - 1) = {}
    BY <1>1
  <2>3. QED
    BY <2>1, <2>2 DEF OnlyLabels
<1>4. ASSUME OnlyLabels(p, q), q # p PROVE q # <<>> /\ body[Front(q)] \in Labels
  <2>1. q \in Below(p)
    BY <1>2, <1>4, TreeBelow
  <2>2. Len(p) < Len(q)
    BY <2>1, TreeBelow
  <2>3. PICK k \in Nat : k = Len(q) - 1
    BY <1>1, <2>2
  <2>4. k \in Len(p) .. (Len(q) - 1)
    BY <1>1, <2>2, <2>3
  <2>5. body[SubSeq(q, 1, k)] \in Labels
    BY <1>4, <2>4 DEF OnlyLabels
  <2>6. q # <<>>
    BY <1>1, <2>2
  <2>7. QED
    BY <2>3, <2>5, <2>6 DEF Front
<1>5. QED
  BY <1>2, <1>3, <1>4

LEMMA LabelledFacts ==
  ASSUME GivenFunction, NEW p \in DOMAIN body
  PROVE  /\ Labelled(p) \in DOMAIN body /\ Labelled(p) \in Tree(p)
         /\ OnlyLabels(p, Labelled(p)) /\ body[Labelled(p)] \notin Labels
<1> DEFINE S == {q \in DOMAIN body : \E r \in DOMAIN body : OnlyLabels(q, r) /\ body[r] \notin Labels}
<1>1. ASSUME NEW q \in DOMAIN body, \A r \in Below(q) : r \in S PROVE q \in S
  <2>1. CASE body[q] \notin Labels
    BY <2>1, OnlyLabelsFacts
  <2>2. CASE body[q] \in Labels
    <3>1. Width(q) = 1
      BY <2>2, WidthFacts
    <3>2. 1 \in 1 .. Width(q)
      BY <3>1
    <3>3. /\ Append(q, 1) \in DOMAIN body /\ Append(q, 1) \in Below(q)
          /\ Tree(Append(q, 1)) \subseteq Below(q)
      BY <3>2, PartFacts
    <3>4. PICK r \in DOMAIN body : OnlyLabels(Append(q, 1), r) /\ body[r] \notin Labels
      BY <1>1, <3>3
    <3>5. r \in Tree(Append(q, 1)) /\ r \in Tree(q)
      BY <3>3, <3>4, OnlyLabelsFacts, TreeBelow
    <3>6. SubSeq(r, 1, Len(q)) = q
      BY <3>5, PrefixOf
    <3>7. q \in Seq(Nat \ {0}) /\ r \in Seq(Nat \ {0}) /\ Len(q) \in Nat /\ Len(r) \in Nat
      BY BodyFacts
    <3>8. Len(Append(q, 1)) = Len(q) + 1
      BY <3>7, AppendFacts
    <3>9. \A n \in (Len(q) + 1) .. (Len(r) - 1) : body[SubSeq(r, 1, n)] \in Labels
      BY <3>4, <3>8 DEF OnlyLabels
    <3>10. \A n \in Len(q) .. (Len(r) - 1) : n = Len(q) \/ n \in (Len(q) + 1) .. (Len(r) - 1)
      BY <3>7, SMTT(40)
    <3>11. \A n \in Len(q) .. (Len(r) - 1) : body[SubSeq(r, 1, n)] \in Labels
      BY <2>2, <3>6, <3>9, <3>10
    <3>12. IsPrefix(q, r)
      BY <3>5, <3>7, PrefixFacts DEF Tree
    <3>13. OnlyLabels(q, r)
      BY <3>11, <3>12 DEF OnlyLabels
    <3>14. QED
      BY <3>4, <3>13
  <2>3. QED
    BY <2>1, <2>2
<1>2. p \in S
  <2> HIDE DEF S
  <2>1. QED
    BY <1>1, FromBelow
<1>3. OnlyLabels(p, Labelled(p)) /\ Labelled(p) \in DOMAIN body /\ body[Labelled(p)] \notin Labels
  BY <1>2 DEF Labelled
<1>4. QED
  BY <1>3, OnlyLabelsFacts

LEMMA WithinFacts ==
  ASSUME GivenFunction, NEW p \in DOMAIN body, body[p] = "switch"
  PROVE  /\ Width(p) = 1 /\ Append(p, 1) \in DOMAIN body
         /\ Within(p) \in DOMAIN body /\ Width(Within(p)) \in Nat
         /\ \/ Within(p) = Append(p, 1) /\ body[Within(p)] = "block"
            \/ Within(p) = p /\ body[Append(p, 1)] # "block"
         /\ \A i \in 1 .. Width(Within(p)) :
              /\ Append(Within(p), i) \in DOMAIN body /\ Append(Within(p), i) \in Below(p)
              /\ Tree(Append(Within(p), i)) \subseteq Below(p)
              /\ \A j \in 1 .. Width(Within(p)) : j # i =>
                   Tree(Append(Within(p), i)) \cap Tree(Append(Within(p), j)) = {}
<1>1. Width(p) = 1
  BY WidthFacts
<1>2. 1 \in 1 .. Width(p)
  BY <1>1
<1>3. /\ Append(p, 1) \in DOMAIN body /\ Append(p, 1) \in Below(p)
      /\ Tree(Append(p, 1)) \subseteq Below(p)
  BY <1>2, PartFacts
<1>4. \/ Within(p) = Append(p, 1) /\ body[Within(p)] = "block"
      \/ Within(p) = p /\ body[Append(p, 1)] # "block"
  BY DEF Within
<1>5. Within(p) \in DOMAIN body /\ Tree(Within(p)) \subseteq Tree(p)
  BY <1>3, <1>4, TreeBelow
<1>6. Width(Within(p)) \in Nat
  BY <1>5, BodyFacts
<1>7. Below(Within(p)) \subseteq Below(p)
  BY <1>3, <1>4, <1>5, TreeBelow
<1>8. \A i \in 1 .. Width(Within(p)) :
        /\ Append(Within(p), i) \in DOMAIN body /\ Append(Within(p), i) \in Below(p)
        /\ Tree(Append(Within(p), i)) \subseteq Below(p)
        /\ \A j \in 1 .. Width(Within(p)) : j # i =>
             Tree(Append(Within(p), i)) \cap Tree(Append(Within(p), j)) = {}
  BY <1>5, <1>7, PartFacts
<1>9. QED
  BY <1>1, <1>3, <1>4, <1>5, <1>6, <1>8

\* The place of the n-th substatement, or of the labels before it.
At(p, n) == IF body[p] = "switch" THEN Append(Within(p), n) ELSE Append(p, n)
Count(p) == IF body[p] = "switch" THEN Width(Within(p)) ELSE Width(p)

LEMMA SubstatementFacts ==
  ASSUME GivenFunction, NEW p \in DOMAIN body
  PROVE  /\ Count(p) \in Nat /\ DOMAIN Substatements(p) = 1 .. Count(p)
         /\ Len(Substatements(p)) = Count(p)
         /\ \A n \in 1 .. Count(p) :
              /\ Substatements(p)[n] = IF body[p] = "switch" THEN Labelled(At(p, n)) ELSE At(p, n)
              /\ At(p, n) \in DOMAIN body /\ Substatements(p)[n] \in Tree(At(p, n))
              /\ Substatements(p)[n] \in Below(p) /\ Substatements(p)[n] \in DOMAIN body
              /\ Tree(At(p, n)) \subseteq Below(p)
              /\ Tree(Substatements(p)[n]) \subseteq Tree(At(p, n))
              /\ \A m \in 1 .. Count(p) : m # n => Tree(At(p, n)) \cap Tree(At(p, m)) = {}
<1>1. Count(p) \in Nat
  BY WithinFacts, BodyFacts DEF Count
<1>2. \A n \in 1 .. Count(p) :
        /\ At(p, n) \in DOMAIN body /\ Tree(At(p, n)) \subseteq Below(p)
        /\ \A m \in 1 .. Count(p) : m # n => Tree(At(p, n)) \cap Tree(At(p, m)) = {}
  <2>1. CASE body[p] = "switch"
    BY <2>1, WithinFacts DEF Count, At
  <2>2. CASE body[p] # "switch"
    BY <2>2, PartFacts DEF Count, At
  <2>3. QED
    BY <2>1, <2>2
<1>3. Substatements(p) = [n \in 1 .. Count(p) |->
         IF body[p] = "switch" THEN Labelled(At(p, n)) ELSE At(p, n)]
  BY DEF Substatements, Count, At
<1>4. ASSUME NEW n \in 1 .. Count(p)
      PROVE  /\ Substatements(p)[n] = IF body[p] = "switch" THEN Labelled(At(p, n)) ELSE At(p, n)
             /\ Substatements(p)[n] \in Tree(At(p, n))
             /\ Substatements(p)[n] \in Below(p) /\ Substatements(p)[n] \in DOMAIN body
             /\ Tree(Substatements(p)[n]) \subseteq Tree(At(p, n))
  <2>1. Substatements(p)[n] = IF body[p] = "switch" THEN Labelled(At(p, n)) ELSE At(p, n)
    BY <1>3
  <2>2. Substatements(p)[n] \in Tree(At(p, n))
    BY <1>2, <2>1, LabelledFacts, TreeBelow
  <2>3. QED
    BY <1>2, <2>1, <2>2, TreeWithin
<1>5. DOMAIN Substatements(p) = 1 .. Count(p) /\ Len(Substatements(p)) = Count(p)
  BY <1>1, <1>3
<1>6. QED
  BY <1>1, <1>2, <1>4, <1>5
-----------------------------------------------------------------------------
(* The recursive functions. *)

\* What the two recursive functions make of their values at the substatements.
Made(k, p, sub) == IF k = 1 THEN Combined(p, sub) ELSE Via(p, PathsOver(p, sub))
OfSubs(f, p) == [i \in DOMAIN Substatements(p) |-> f[Substatements(p)[i]]]
Solves(k, f, D) == f = [p \in D |-> Made(k, p, OfSubs(f, p))]

LEMMA LengthBound ==
  ASSUME GivenFunction
  PROVE  \E l \in Nat : \A p \in DOMAIN body : Len(p) < l
<1> DEFINE D == DOMAIN body
           P == {t \in SUBSET D : \E l \in Nat : \A p \in t : Len(p) < l}
<1>1. IsFiniteSet(D) /\ \A p \in D : Len(p) \in Nat
  BY BodyFacts
<1>2. ASSUME NEW t \in SUBSET D, \A r \in SUBSET t : r # t => r \in P PROVE t \in P
  <2>1. CASE t = {}
    <3>1. 0 \in Nat /\ \A p \in t : Len(p) < 0
      BY <2>1
    <3>2. QED
      BY <3>1
  <2>2. CASE t # {}
    <3>1. PICK q \in t : TRUE
      BY <2>2
    <3>2. t \ {q} \in P
      BY <1>2, <3>1
    <3>3. PICK l \in Nat : \A p \in t \ {q} : Len(p) < l
      BY <3>2
    <3>4. PICK k \in Nat : k = Len(q)
      BY <1>1, <3>1
    <3>5. k + l + 1 \in Nat /\ \A p \in t : Len(p) < k + l + 1
      <4>1. ASSUME NEW p \in t PROVE Len(p) < k + l + 1
        <5>1. Len(p) \in Nat
          BY <1>1
        <5>2. p = q \/ Len(p) < l
          BY <3>3
        <5>3. QED
          BY <3>4, <5>1, <5>2
      <4>2. QED
        BY <4>1
    <3>6. QED
      BY <3>5
  <2>3. QED
    BY <2>1, <2>2
<1> HIDE DEF P
<1>3. \A t \in SUBSET D : t \in P
  BY <1>1, <1>2, SmallerSubsets
<1>4. D \in P
  BY <1>3
<1>5. QED
  BY <1>4 DEF P

LEMMA Solvable ==
  ASSUME GivenFunction, NEW k
  PROVE  \E f : Solves(k, f, DOMAIN body)
<1>1. PICK l \in Nat : \A p \in DOMAIN body : Len(p) < l
  BY LengthBound
<1> DEFINE D(n) == {p \in DOMAIN body : l <= Len(p) + n}
           S == {n \in Nat : \E f : Solves(k, f, D(n))}
<1>2. \A p \in DOMAIN body : Len(p) \in Nat
  BY BodyFacts
<1>3. 0 \in S
  <2>1. D(0) = {}
    BY <1>1, <1>2
  <2> DEFINE g == [p \in {} |-> 0]
  <2>2. Solves(k, g, {})
    BY DEF Solves
  <2>3. QED
    BY <2>1, <2>2
<1>4. ASSUME NEW n \in Nat, n \in S PROVE n + 1 \in S
  <2>1. PICK f : Solves(k, f, D(n))
    BY <1>4
  <2> DEFINE g == [p \in D(n + 1) |-> Made(k, p, OfSubs(f, p))]
  <2>2. \A p \in D(n) : p \in D(n + 1)
    BY <1>2
  <2>3. \A p \in D(n) : g[p] = f[p]
    <3>1. \A p \in D(n) : g[p] = Made(k, p, OfSubs(f, p))
      BY <2>2, Zenon
    <3>2. \A p \in D(n) : f[p] = Made(k, p, OfSubs(f, p))
      BY <2>1, Zenon DEF Solves
    <3>3. QED
      BY <3>1, <3>2, Zenon
  <2>4. ASSUME NEW p \in D(n + 1) PROVE OfSubs(f, p) = OfSubs(g, p)
    <3>1. ASSUME NEW i \in DOMAIN Substatements(p) PROVE Substatements(p)[i] \in D(n)
      <4>1. Substatements(p)[i] \in DOMAIN body /\ Substatements(p)[i] \in Below(p)
        BY <3>1, SubstatementFacts
      <4>2. Len(p) < Len(Substatements(p)[i])
        BY <4>1, TreeBelow
      <4>3. QED
        BY <1>2, <4>1, <4>2
    <3>2. \A i \in DOMAIN Substatements(p) : f[Substatements(p)[i]] = g[Substatements(p)[i]]
      BY <2>3, <3>1, Zenon
    <3>3. QED
      BY <3>2, Zenon DEF OfSubs
  <2>5. \A p \in D(n + 1) : Made(k, p, OfSubs(f, p)) = Made(k, p, OfSubs(g, p))
    BY <2>4, Zenon
  <2>6. g = [p \in D(n + 1) |-> Made(k, p, OfSubs(g, p))]
    <3> DEFINE h == [p \in D(n + 1) |-> Made(k, p, OfSubs(g, p))]
    <3>1. \A p \in D(n + 1) : g[p] = h[p]
      BY <2>5, Zenon
    <3>2. QED
      BY <3>1, Zenon
  <2>7. Solves(k, g, D(n + 1))
    BY <2>6, Zenon DEF Solves
  <2> HIDE DEF g, D
  <2>8. \E h : Solves(k, h, D(n + 1))
    BY <2>7
  <2>9. n + 1 \in Nat
    OBVIOUS
  <2>10. QED
    BY <2>8, <2>9
<1> HIDE DEF S
<1>5. Nat \subseteq S
  BY <1>3, <1>4, AllNumbers
<1>6. l \in S
  BY <1>5
<1>7. D(l) = DOMAIN body
  BY <1>2
<1>8. QED
  BY <1>6, <1>7 DEF S

LEMMA getPathCountSolves ==
  ASSUME GivenFunction
  PROVE  \A p \in DOMAIN body : getPathCount[p] = Combined(p, OfSubs(getPathCount, p))
<1>1. PICK f : Solves(1, f, DOMAIN body)
  BY Solvable
<1>2. \A p, g : Made(1, p, g) = Combined(p, g)
  BY DEF Made
<1>3. f = [p \in DOMAIN body |->
             LET s == Substatements(p) IN Combined(p, [i \in DOMAIN s |-> f[s[i]]])]
  BY <1>1, <1>2, Zenon DEF Solves, OfSubs
<1>4. getPathCount = [p \in DOMAIN body |->
             LET s == Substatements(p) IN Combined(p, [i \in DOMAIN s |-> getPathCount[s[i]]])]
  BY <1>3, Zenon DEF getPathCount
<1>5. QED
  BY <1>4, Zenon DEF OfSubs

LEMMA PathsSolves ==
  ASSUME GivenFunction
  PROVE  \A p \in DOMAIN body : Paths[p] = Via(p, PathsOver(p, OfSubs(Paths, p)))
<1>1. PICK f : Solves(2, f, DOMAIN body)
  BY Solvable
<1>2. \A p, g : Made(2, p, g) = Via(p, PathsOver(p, g))
  BY DEF Made
<1>3. f = [p \in DOMAIN body |->
             LET s == Substatements(p) IN Via(p, PathsOver(p, [i \in DOMAIN s |-> f[s[i]]]))]
  BY <1>1, <1>2, Zenon DEF Solves, OfSubs
<1>4. Paths = [p \in DOMAIN body |->
             LET s == Substatements(p) IN Via(p, PathsOver(p, [i \in DOMAIN s |-> Paths[s[i]]]))]
  BY <1>3, Zenon DEF Paths
<1>5. QED
  BY <1>4, Zenon DEF OfSubs

\* What the loops over the substatements begin with and do at each.
Begun(k, p) ==
  CASE k = 1 -> [sum |-> None, prev |-> None, curr |-> None, complete |-> TRUE]
    [] k = 2 -> [res |-> One, skip |-> FALSE]
    [] OTHER -> IF body[p] = "switch" THEN {} ELSE Straight
Stepped(k, p, sub, n, a) ==
  CASE k = 1 -> SwitchStep(a, Starts(p, n), sub[n])
    [] k = 2 -> OtherStep(a, body[Append(p, n)], sub[n])
    [] OTHER -> Onwards(a \cup (IF body[p] = "switch" /\ Starts(p, n) THEN Straight ELSE {}), sub[n])
Steps(k, f, p, sub, l) ==
  f = [n \in 0 .. l |-> IF n = 0 THEN Begun(k, p) ELSE Stepped(k, p, sub, n, f[n - 1])]

LEMMA Steppable ==
  ASSUME NEW k, NEW p, NEW sub, NEW l \in Nat
  PROVE  \E f : Steps(k, f, p, sub, l)
<1> DEFINE V(f, n) == IF n = 0 THEN Begun(k, p) ELSE Stepped(k, p, sub, n, f[n - 1])
           S == {n \in Nat : \E f : Steps(k, f, p, sub, n)}
<1>1. 0 \in S
  <2> DEFINE g == [n \in 0 .. 0 |-> Begun(k, p)]
  <2>1. \A n \in 0 .. 0 : n = 0
    OBVIOUS
  <2>2. g = [n \in 0 .. 0 |-> V(g, n)]
    <3>1. \A n \in 0 .. 0 : Begun(k, p) = V(g, n)
      BY <2>1, Zenon
    <3>2. QED
      BY <3>1, Zenon
  <2>3. Steps(k, g, p, sub, 0)
    BY <2>2, Zenon DEF Steps
  <2> HIDE DEF g
  <2>4. QED
    BY <2>3
<1>2. ASSUME NEW m \in Nat, m \in S PROVE m + 1 \in S
  <2>1. PICK f : Steps(k, f, p, sub, m)
    BY <1>2
  <2> DEFINE g == [n \in 0 .. (m + 1) |-> V(f, n)]
  <2>2. \A n \in 0 .. m : f[n] = V(f, n)
    BY <2>1, Zenon DEF Steps
  <2>3. \A n \in 0 .. m : n \in 0 .. (m + 1)
    OBVIOUS
  <2>4. \A n \in 0 .. m : g[n] = f[n]
    BY <2>2, <2>3, Zenon
  <2>5. \A n \in 0 .. (m + 1) : n # 0 => n - 1 \in 0 .. m
    OBVIOUS
  <2>6. \A n \in 0 .. (m + 1) : V(f, n) = V(g, n)
    BY <2>4, <2>5, Zenon
  <2>7. g = [n \in 0 .. (m + 1) |-> V(g, n)]
    <3> DEFINE h == [n \in 0 .. (m + 1) |-> V(g, n)]
    <3>1. \A n \in 0 .. (m + 1) : g[n] = h[n]
      BY <2>6, Zenon
    <3>2. QED
      BY <3>1, Zenon
  <2>8. Steps(k, g, p, sub, m + 1)
    BY <2>7, Zenon DEF Steps
  <2> HIDE DEF g
  <2>9. \E h : Steps(k, h, p, sub, m + 1)
    BY <2>8
  <2>10. m + 1 \in Nat
    OBVIOUS
  <2>11. QED
    BY <2>9, <2>10
<1> HIDE DEF S
<1>3. Nat \subseteq S
  BY <1>1, <1>2, AllNumbers
<1>4. l \in S
  BY <1>3
<1>5. QED
  BY <1>4 DEF S

LEMMA SwitchSteps ==
  ASSUME NEW p, NEW sub, Len(sub) \in Nat
  PROVE  /\ SwitchUpTo(p, sub)[0] = [sum |-> None, prev |-> None, curr |-> None, complete |-> TRUE]
         /\ \A n \in 1 .. Len(sub) :
              SwitchUpTo(p, sub)[n] = SwitchStep(SwitchUpTo(p, sub)[n - 1], Starts(p, n), sub[n])
<1> DEFINE upTo[n \in 0 .. Len(sub)] ==
             IF n = 0 THEN [sum |-> None, prev |-> None, curr |-> None, complete |-> TRUE]
             ELSE SwitchStep(upTo[n - 1], Starts(p, n), sub[n])
<1>1. PICK f : Steps(1, f, p, sub, Len(sub))
  BY Steppable
<1>2. /\ Begun(1, p) = [sum |-> None, prev |-> None, curr |-> None, complete |-> TRUE]
      /\ \A n, a : Stepped(1, p, sub, n, a) = SwitchStep(a, Starts(p, n), sub[n])
  BY DEF Begun, Stepped
<1>3. f = [n \in 0 .. Len(sub) |->
             IF n = 0 THEN [sum |-> None, prev |-> None, curr |-> None, complete |-> TRUE]
             ELSE SwitchStep(f[n - 1], Starts(p, n), sub[n])]
  BY <1>1, <1>2, Zenon DEF Steps
<1>4. upTo = [n \in 0 .. Len(sub) |->
             IF n = 0 THEN [sum |-> None, prev |-> None, curr |-> None, complete |-> TRUE]
             ELSE SwitchStep(upTo[n - 1], Starts(p, n), sub[n])]
  BY <1>3, Zenon
<1>5. SwitchUpTo(p, sub) = upTo
  BY Zenon DEF SwitchUpTo
<1> HIDE DEF upTo
<1>6. 0 \in 0 .. Len(sub) /\ \A n \in 1 .. Len(sub) : n \in 0 .. Len(sub) /\ n # 0
  OBVIOUS
<1>7. QED
  BY <1>4, <1>5, <1>6, Zenon

LEMMA OtherSteps ==
  ASSUME NEW p, NEW sub, Len(sub) \in Nat
  PROVE  /\ OtherUpTo(p, sub)[0] = [res |-> One, skip |-> FALSE]
         /\ \A n \in 1 .. Len(sub) :
              OtherUpTo(p, sub)[n] = OtherStep(OtherUpTo(p, sub)[n - 1], body[Append(p, n)], sub[n])
<1> DEFINE upTo[n \in 0 .. Len(sub)] ==
             IF n = 0 THEN [res |-> One, skip |-> FALSE]
             ELSE OtherStep(upTo[n - 1], body[Append(p, n)], sub[n])
<1>1. PICK f : Steps(2, f, p, sub, Len(sub))
  BY Steppable
<1>2. /\ Begun(2, p) = [res |-> One, skip |-> FALSE]
      /\ \A n, a : Stepped(2, p, sub, n, a) = OtherStep(a, body[Append(p, n)], sub[n])
  BY DEF Begun, Stepped
<1>3. f = [n \in 0 .. Len(sub) |->
             IF n = 0 THEN [res |-> One, skip |-> FALSE]
             ELSE OtherStep(f[n - 1], body[Append(p, n)], sub[n])]
  BY <1>1, <1>2, Zenon DEF Steps
<1>4. upTo = [n \in 0 .. Len(sub) |->
             IF n = 0 THEN [res |-> One, skip |-> FALSE]
             ELSE OtherStep(upTo[n - 1], body[Append(p, n)], sub[n])]
  BY <1>3, Zenon
<1>5. OtherUpTo(p, sub) = upTo
  BY Zenon DEF OtherUpTo
<1> HIDE DEF upTo
<1>6. 0 \in 0 .. Len(sub) /\ \A n \in 1 .. Len(sub) : n \in 0 .. Len(sub) /\ n # 0
  OBVIOUS
<1>7. QED
  BY <1>4, <1>5, <1>6, Zenon

LEMMA PathsSteps ==
  ASSUME NEW p, NEW sub, Len(sub) \in Nat
  PROVE  /\ PathsUpTo(p, sub)[0] = IF body[p] = "switch" THEN {} ELSE Straight
         /\ \A n \in 1 .. Len(sub) :
              PathsUpTo(p, sub)[n] =
                Onwards(PathsUpTo(p, sub)[n - 1]
                          \cup (IF body[p] = "switch" /\ Starts(p, n) THEN Straight ELSE {}),
                        sub[n])
<1> DEFINE upTo[n \in 0 .. Len(sub)] ==
             IF n = 0 THEN IF body[p] = "switch" THEN {} ELSE Straight
             ELSE Onwards(upTo[n - 1]
                            \cup (IF body[p] = "switch" /\ Starts(p, n) THEN Straight ELSE {}),
                          sub[n])
<1>1. PICK f : Steps(3, f, p, sub, Len(sub))
  BY Steppable
<1>2. /\ Begun(3, p) = IF body[p] = "switch" THEN {} ELSE Straight
      /\ \A n, a : Stepped(3, p, sub, n, a) =
            Onwards(a \cup (IF body[p] = "switch" /\ Starts(p, n) THEN Straight ELSE {}), sub[n])
  BY DEF Begun, Stepped
<1>3. f = [n \in 0 .. Len(sub) |->
             IF n = 0 THEN IF body[p] = "switch" THEN {} ELSE Straight
             ELSE Onwards(f[n - 1]
                            \cup (IF body[p] = "switch" /\ Starts(p, n) THEN Straight ELSE {}),
                          sub[n])]
  BY <1>1, <1>2, Zenon DEF Steps
<1>4. upTo = [n \in 0 .. Len(sub) |->
             IF n = 0 THEN IF body[p] = "switch" THEN {} ELSE Straight
             ELSE Onwards(upTo[n - 1]
                            \cup (IF body[p] = "switch" /\ Starts(p, n) THEN Straight ELSE {}),
                          sub[n])]
  BY <1>3, Zenon
<1>5. PathsUpTo(p, sub) = upTo
  BY Zenon DEF PathsUpTo
<1> HIDE DEF upTo
<1>6. 0 \in 0 .. Len(sub) /\ \A n \in 1 .. Len(sub) : n \in 0 .. Len(sub) /\ n # 0
  OBVIOUS
<1>7. QED
  BY <1>4, <1>5, <1>6, Zenon
-----------------------------------------------------------------------------
(* The numbers of the code. *)

\* Do two numbers wrap to the same?
Same(a, b) == a % Modulus = b % Modulus

LEMMA SameFacts ==
  /\ \A a \in Nat : /\ Same(a, a) /\ a % Modulus \in Nat /\ a % Modulus < Modulus
                    /\ Same(a % Modulus, a)
  /\ \A a, b \in Nat : Same(a, b) => Same(b, a)
  /\ \A a, b, c \in Nat : Same(a, b) /\ Same(b, c) => Same(a, c)
  /\ \A a, b \in Nat : Same(a, b) /\ a < Modulus /\ b < Modulus => a = b
<1>1. Modulus \in Nat \ {0}
  BY ModulusAssumption
<1>2. \A a \in Nat : /\ a % Modulus \in Nat /\ a % Modulus < Modulus
                     /\ ((a % Modulus) % Modulus) = a % Modulus
  BY <1>1, Quotient, Reduced
<1>3. \A a \in Nat : a < Modulus => a % Modulus = a
  BY <1>1
<1>4. QED
  BY <1>2, <1>3 DEF Same

LEMMA SameSum ==
  ASSUME NEW a \in Nat, NEW b \in Nat, NEW c \in Nat, NEW d \in Nat, Same(a, b), Same(c, d)
  PROVE  Same(a + c, b + d)
<1>1. Modulus \in Nat \ {0}
  BY ModulusAssumption
<1>2. PICK x \in Nat : x = a % Modulus /\ x = b % Modulus
  BY <1>1, Reduced DEF Same
<1>3. PICK y \in Nat : y = c % Modulus /\ y = d % Modulus
  BY <1>1, Reduced DEF Same
<1>4. ((a % Modulus) + c) % Modulus = (a + c) % Modulus
      /\ ((b % Modulus) + d) % Modulus = (b + d) % Modulus
      /\ ((c % Modulus) + x) % Modulus = (c + x) % Modulus
      /\ ((d % Modulus) + x) % Modulus = (d + x) % Modulus
  <2>1. \A m, n \in Nat : ((m % Modulus) + n) % Modulus = (m + n) % Modulus
    BY <1>1, Reduced
  <2>2. QED
    BY <1>2, <2>1, Zenon
<1>5. /\ (x + c) % Modulus = (a + c) % Modulus /\ (x + d) % Modulus = (b + d) % Modulus
      /\ (y + x) % Modulus = (c + x) % Modulus /\ (y + x) % Modulus = (d + x) % Modulus
  BY <1>2, <1>3, <1>4, Zenon
<1>6. x + c = c + x /\ x + d = d + x
  BY <1>2
<1>7. QED
  BY <1>5, <1>6, Zenon DEF Same

LEMMA SameProduct ==
  ASSUME NEW a \in Nat, NEW b \in Nat, NEW c \in Nat, NEW d \in Nat, Same(a, b), Same(c, d)
  PROVE  Same(a * c, b * d)
<1>1. Modulus \in Nat \ {0}
  BY ModulusAssumption
<1>2. PICK x \in Nat : x = a % Modulus /\ x = b % Modulus
  BY <1>1, Reduced DEF Same
<1>3. PICK y \in Nat : y = c % Modulus /\ y = d % Modulus
  BY <1>1, Reduced DEF Same
<1>4. ((a % Modulus) * c) % Modulus = (a * c) % Modulus
      /\ ((b % Modulus) * d) % Modulus = (b * d) % Modulus
      /\ ((c % Modulus) * x) % Modulus = (c * x) % Modulus
      /\ ((d % Modulus) * x) % Modulus = (d * x) % Modulus
  <2>1. \A m, n \in Nat : ((m % Modulus) * n) % Modulus = (m * n) % Modulus
    BY <1>1, Reduced
  <2>2. QED
    BY <1>2, <2>1, Zenon
<1>5. /\ (x * c) % Modulus = (a * c) % Modulus /\ (x * d) % Modulus = (b * d) % Modulus
      /\ (y * x) % Modulus = (c * x) % Modulus /\ (y * x) % Modulus = (d * x) % Modulus
  BY <1>2, <1>3, <1>4, Zenon
<1>6. x * c = c * x /\ x * d = d * x
  BY <1>2
<1>7. QED
  BY <1>5, <1>6, Zenon DEF Same

\* Are the numbers in r of the width of the code's?
Numbers(r) ==
  r = [regular |-> r.regular, return |-> r.return, break |-> r.break]
  /\ r.regular \in Nat /\ r.return \in Nat /\ r.break \in Nat
  /\ r.regular < Modulus /\ r.return < Modulus /\ r.break < Modulus

LEMMA PathResultsFacts ==
  ASSUME NEW a \in Nat, NEW b \in Nat, NEW c \in Nat
  PROVE  /\ Numbers(PathResults(a, b, c))
         /\ Same(PathResults(a, b, c).regular, a) /\ Same(PathResults(a, b, c).return, b)
         /\ Same(PathResults(a, b, c).break, c)
<1> DEFINE r == PathResults(a, b, c)
<1>1. r.regular = a % Modulus /\ r.return = b % Modulus /\ r.break = c % Modulus
  BY DEF PathResults
<1>2. r = [regular |-> r.regular, return |-> r.return, break |-> r.break]
  BY DEF PathResults
<1> HIDE DEF r
<1>3. QED
  BY <1>1, <1>2, SameFacts DEF Numbers, r

\* Do the numbers in r come to x, y and z?
Come(r, x, y, z) ==
  Numbers(r) /\ x \in Nat /\ y \in Nat /\ z \in Nat
  /\ Same(r.regular, x) /\ Same(r.return, y) /\ Same(r.break, z)

LEMMA ComeTo ==
  ASSUME NEW a \in Nat, NEW b \in Nat, NEW c \in Nat,
         NEW x \in Nat, NEW y \in Nat, NEW z \in Nat, Same(a, x), Same(b, y), Same(c, z)
  PROVE  Come(PathResults(a, b, c), x, y, z)
<1>1. PICK r : r = PathResults(a, b, c)
  OBVIOUS
<1>2. Numbers(r) /\ Same(r.regular, a) /\ Same(r.return, b) /\ Same(r.break, c)
  BY <1>1, PathResultsFacts
<1>3. r.regular \in Nat /\ r.return \in Nat /\ r.break \in Nat
  BY <1>2 DEF Numbers
<1>4. Same(r.regular, x) /\ Same(r.return, y) /\ Same(r.break, z)
  BY <1>2, <1>3, SameFacts
<1>5. QED
  BY <1>1, <1>2, <1>4 DEF Come

LEMMA ComeThen ==
  ASSUME NEW a, NEW b, NEW x, NEW y, NEW z, NEW u, NEW v, NEW w,
         Come(a, x, y, z), Come(b, u, v, w)
  PROVE  /\ Come(Then(a, b), x * u, y + x * v, z + x * w)
         /\ Come(incrementPathResults(a, b), x + u, y + v, z + w)
<1>1. /\ a.regular \in Nat /\ a.return \in Nat /\ a.break \in Nat
      /\ b.regular \in Nat /\ b.return \in Nat /\ b.break \in Nat
      /\ x \in Nat /\ y \in Nat /\ z \in Nat /\ u \in Nat /\ v \in Nat /\ w \in Nat
      /\ Same(a.regular, x) /\ Same(a.return, y) /\ Same(a.break, z)
      /\ Same(b.regular, u) /\ Same(b.return, v) /\ Same(b.break, w)
  BY DEF Come, Numbers
<1>2. /\ Same(a.regular * b.regular, x * u)
      /\ Same(a.regular * b.return, x * v) /\ Same(a.regular * b.break, x * w)
  BY <1>1, SameProduct
<1>3. /\ x * u \in Nat /\ x * v \in Nat /\ x * w \in Nat /\ a.regular * b.regular \in Nat
      /\ a.regular * b.return \in Nat /\ a.regular * b.break \in Nat
  BY <1>1
<1>4. /\ Same(a.return + a.regular * b.return, y + x * v)
      /\ Same(a.break + a.regular * b.break, z + x * w)
      /\ Same(a.regular + b.regular, x + u) /\ Same(a.return + b.return, y + v)
      /\ Same(a.break + b.break, z + w)
  BY <1>1, <1>2, <1>3, SameSum
<1>41. \A i, j \in Nat : i + j \in Nat
  OBVIOUS
<1>5. /\ y + x * v \in Nat /\ z + x * w \in Nat /\ x + u \in Nat /\ y + v \in Nat /\ z + w \in Nat
      /\ a.return + a.regular * b.return \in Nat /\ a.break + a.regular * b.break \in Nat
      /\ a.regular + b.regular \in Nat /\ a.return + b.return \in Nat /\ a.break + b.break \in Nat
  BY <1>1, <1>3, <1>41, Zenon
<1>6. Come(Then(a, b), x * u, y + x * v, z + x * w)
  BY <1>2, <1>3, <1>4, <1>5, ComeTo DEF Then
<1>7. Come(incrementPathResults(a, b), x + u, y + v, z + w)
  BY <1>4, <1>5, ComeTo DEF incrementPathResults
<1>8. QED
  BY <1>6, <1>7

LEMMA ComeConstants ==
  /\ Come(None, 0, 0, 0) /\ Come(One, 1, 0, 0)
  /\ Come(PathResults(0, 1, 0), 0, 1, 0) /\ Come(PathResults(0, 0, 1), 0, 0, 1)
<1>1. Same(0, 0) /\ Same(1, 1) /\ 0 \in Nat /\ 1 \in Nat
  BY SameFacts
<1>2. QED
  BY <1>1, ComeTo DEF None, One
-----------------------------------------------------------------------------
(* The paths up to a substatement. *)

\* The paths of the substatements of p, and those up to the end of the n-th.
SubPaths(p) == OfSubs(Paths, p)
UpTo(p, n) == PathsUpTo(p, SubPaths(p))[n]
\* The number of ways to come to the n-th substatement from outside.
Entry(p, n) == IF body[p] = "switch" /\ Starts(p, n) THEN 1 ELSE 0
\* What lets paths be counted one substatement at a time: two paths of a statement differ
\* in the places they come to, which are all in the statement.
Sound(p) == Distinct(Paths[p], Tree(p)) /\ Somewhere(Paths[p])

\* The places of the substatements up to the n-th.
Covered(p, n) == UNION {Tree(At(p, m)) : m \in 1 .. n}

LEMMA SingleFacts ==
  ASSUME NEW to
  PROVE  /\ Distinct({Path({}, to)}, {})
         /\ \A e : Num({Path({}, to)}, e) = IF to \in e THEN 1 ELSE 0
<1> DEFINE s == Path({}, to)
<1>1. s.places = {} /\ s.end = to
  BY PathFields
<1>2. IsFiniteSet({s}) /\ Cardinality({s}) = 1 /\ IsFiniteSet({}) /\ Cardinality({}) = 0
  BY FS_Singleton, FS_EmptySet
<1>3. s = Path(s.places, s.end)
  BY <1>1
<1> HIDE DEF s
<1>4. Distinct({s}, {})
  BY <1>1, <1>2, <1>3 DEF Distinct
<1>5. ASSUME NEW e PROVE Num({s}, e) = IF to \in e THEN 1 ELSE 0
  <2>1. Ending({s}, e) = IF to \in e THEN {s} ELSE {}
    BY <1>1 DEF Ending
  <2>2. QED
    BY <1>2, <2>1 DEF Num
<1>6. QED
  BY <1>4, <1>5 DEF s

LEMMA SubPathsFacts ==
  ASSUME GivenFunction, NEW p \in DOMAIN body
  PROVE  /\ DOMAIN SubPaths(p) = 1 .. Count(p) /\ Len(SubPaths(p)) = Count(p)
         /\ \A n \in 1 .. Count(p) : SubPaths(p)[n] = Paths[Substatements(p)[n]]
<1>1. Count(p) \in Nat /\ DOMAIN Substatements(p) = 1 .. Count(p)
  BY SubstatementFacts
<1>2. SubPaths(p) = [n \in 1 .. Count(p) |-> Paths[Substatements(p)[n]]]
  BY <1>1 DEF SubPaths, OfSubs
<1>3. QED
  BY <1>1, <1>2

LEMMA SubSound ==
  ASSUME GivenFunction, NEW p \in DOMAIN body, \A q \in Below(p) : Sound(q)
  PROVE  \A n \in 1 .. Count(p) :
           /\ Distinct(SubPaths(p)[n], Tree(At(p, n))) /\ Somewhere(SubPaths(p)[n])
           /\ Distinct(SubPaths(p)[n], Below(p))
<1> SUFFICES ASSUME NEW n \in 1 .. Count(p)
             PROVE  /\ Distinct(SubPaths(p)[n], Tree(At(p, n))) /\ Somewhere(SubPaths(p)[n])
                    /\ Distinct(SubPaths(p)[n], Below(p))
  OBVIOUS
<1>1. /\ Substatements(p)[n] \in Below(p)
      /\ Tree(Substatements(p)[n]) \subseteq Tree(At(p, n)) /\ Tree(At(p, n)) \subseteq Below(p)
  BY SubstatementFacts
<1>2. Sound(Substatements(p)[n])
  BY <1>1
<1>3. SubPaths(p)[n] = Paths[Substatements(p)[n]]
  BY SubPathsFacts
<1>4. Distinct(SubPaths(p)[n], Tree(At(p, n))) /\ Somewhere(SubPaths(p)[n])
  BY <1>1, <1>2, <1>3, SubsetDistinct DEF Sound
<1>5. Distinct(SubPaths(p)[n], Below(p))
  BY <1>1, <1>4, SubsetDistinct
<1>6. QED
  BY <1>4, <1>5

LEMMA CoveredFacts ==
  ASSUME GivenFunction, NEW p \in DOMAIN body
  PROVE  /\ Covered(p, 0) = {}
         /\ \A n \in 1 .. Count(p) :
              /\ Covered(p, n - 1) \cup Tree(At(p, n)) = Covered(p, n)
              /\ Covered(p, n - 1) \cap Tree(At(p, n)) = {}
         /\ \A n \in 0 .. Count(p) : Covered(p, n) \subseteq Below(p)
<1>0. Count(p) \in Nat
  BY SubstatementFacts
<1>1. \A n \in 1 .. Count(p) :
        /\ Tree(At(p, n)) \subseteq Below(p)
        /\ \A m \in 1 .. Count(p) : m # n => Tree(At(p, n)) \cap Tree(At(p, m)) = {}
  BY SubstatementFacts
<1>2. \A n, q : q \in Covered(p, n) <=> \E m \in 1 .. n : q \in Tree(At(p, m))
  BY DEF Covered
<1>3. Covered(p, 0) = {}
  BY <1>2
<1>4. ASSUME NEW n \in 1 .. Count(p)
      PROVE  /\ Covered(p, n - 1) \cup Tree(At(p, n)) = Covered(p, n)
             /\ Covered(p, n - 1) \cap Tree(At(p, n)) = {}
  <2>1. \A m : m \in 1 .. n <=> m = n \/ m \in 1 .. (n - 1)
    BY <1>0
  <2>2. \A m \in 1 .. (n - 1) : m \in 1 .. Count(p) /\ m # n
    BY <1>0
  <2>3. Covered(p, n - 1) \cup Tree(At(p, n)) = Covered(p, n)
    BY <1>2, <2>1
  <2>4. Covered(p, n - 1) \cap Tree(At(p, n)) = {}
    BY <1>1, <1>2, <2>2
  <2>5. QED
    BY <2>3, <2>4
<1>5. ASSUME NEW n \in 0 .. Count(p) PROVE Covered(p, n) \subseteq Below(p)
  <2>1. \A m \in 1 .. n : m \in 1 .. Count(p)
    BY <1>0
  <2>2. QED
    BY <1>1, <1>2, <2>1
<1>6. QED
  BY <1>3, <1>4, <1>5

Entered(p, n, S) == S \cup (IF body[p] = "switch" /\ Starts(p, n) THEN Straight ELSE {})

EntryCounts(p, n, S) ==
  /\ \A e : Num(Entered(p, n, S), e) = Num(S, e) + (IF "regular" \in e THEN Entry(p, n) ELSE 0)
  /\ Num(Entered(p, n, S), {"regular"}) = Num(S, {"regular"}) + Entry(p, n)
  /\ \A e : Num(Entered(p, n, S), e \ {"regular"}) = Num(S, e \ {"regular"})

\* Where the paths that come to the n-th substatement come from.
LEMMA EntryFacts ==
  ASSUME NEW p, NEW n, NEW S, NEW A, Distinct(S, A), body[p] = "switch" => Somewhere(S),
         Loose(S)
  PROVE  /\ Distinct(Entered(p, n, S), A) /\ Loose(Entered(p, n, S))
         /\ EntryCounts(p, n, S)
<1>01. PICK X : X = Entered(p, n, S)
  OBVIOUS
<1>02. X = S \cup (IF body[p] = "switch" /\ Starts(p, n) THEN Straight ELSE {})
  BY <1>01 DEF Entered
<1>0. \A e : Num(S, e) \in Nat
  BY NumType DEF Distinct
<1>1. CASE body[p] = "switch" /\ Starts(p, n)
  <2>1. X = S \cup Straight /\ Somewhere(S) /\ Entry(p, n) = 1
    BY <1>02, <1>1 DEF Entry
  <2>2. Distinct(Straight, {}) /\ A \cap {} = {} /\ A \cup {} = A
    BY StraightFacts
  <2>3. Distinct(X, A) /\ \A e : Num(X, e) = Num(S, e) + Num(Straight, e)
    BY <2>1, <2>2, BesideDistinct
  <2>4. \A e : Num(X, e) = Num(S, e) + (IF "regular" \in e THEN 1 ELSE 0)
    BY <2>3, StraightFacts
  <2>5. \A x \in Straight : x.end = "regular"
    BY PathFields DEF Straight
  <2>6. Loose(X)
    BY <2>1, <2>5 DEF Somewhere, Loose
  <2>7. \A e : Num(X, e \ {"regular"}) = Num(S, e \ {"regular"})
    <3> SUFFICES ASSUME NEW e PROVE Num(X, e \ {"regular"}) = Num(S, e \ {"regular"})
      OBVIOUS
    <3>1. PICK d : d = e \ {"regular"}
      OBVIOUS
    <3>2. Num(X, d) = Num(S, d) + 0 /\ Num(S, d) \in Nat
      BY <1>0, <2>4, <3>1
    <3>3. Num(X, d) = Num(S, d)
      BY <3>2
    <3>4. QED
      BY <3>1, <3>3
  <2>8. Num(X, {"regular"}) = Num(S, {"regular"}) + 1
    BY <2>4
  <2>81. \A e : Num(X, e) = Num(S, e) + (IF "regular" \in e THEN Entry(p, n) ELSE 0)
    BY <2>1, <2>4
  <2>9. EntryCounts(p, n, S)
    BY <1>01, <2>1, <2>81, <2>7, <2>8, Zenon DEF EntryCounts
  <2>10. QED
    BY <1>01, <2>3, <2>6, <2>9
<1>2. CASE ~ (body[p] = "switch" /\ Starts(p, n))
  <2>1. X = S /\ Entry(p, n) = 0
    BY <1>02, <1>2 DEF Entry
  <2>2. \A e : Num(S, e) + 0 = Num(S, e)
    BY <1>0
  <2>3. \A e : Num(X, e) = Num(S, e) + (IF "regular" \in e THEN Entry(p, n) ELSE 0)
    BY <2>1, <2>2
  <2>4. EntryCounts(p, n, S)
    BY <1>01, <2>1, <2>2, <2>3, Zenon DEF EntryCounts
  <2>5. QED
    BY <1>01, <2>1, <2>4
<1>3. QED
  BY <1>1, <1>2

Regular == {"regular"}

\* The same of the paths up to the n-th substatement.
Steady(p, n) ==
  /\ Distinct(UpTo(p, n), Covered(p, n))
  /\ body[p] = "switch" => Somewhere(UpTo(p, n))
  /\ Loose(UpTo(p, n))

\* The paths up to the n-th substatement are those that have ended before it and those
\* that go on through it, each with each.
Counted(p, n) ==
  \A e : Num(UpTo(p, n), e)
           = Num(UpTo(p, n - 1), e \ Regular)
             + (Num(UpTo(p, n - 1), Regular) + Entry(p, n)) * Num(SubPaths(p)[n], e)

LEMMA UpToStart ==
  ASSUME GivenFunction, NEW p \in DOMAIN body
  PROVE  /\ UpTo(p, 0) = IF body[p] = "switch" THEN {} ELSE Straight
         /\ Steady(p, 0)
         /\ \A n \in 1 .. Count(p) :
              UpTo(p, n) = Onwards(UpTo(p, n - 1)
                                     \cup (IF body[p] = "switch" /\ Starts(p, n) THEN Straight ELSE {}),
                                   SubPaths(p)[n])
<1>1. Len(SubPaths(p)) = Count(p) /\ Count(p) \in Nat
  BY SubPathsFacts, SubstatementFacts
<1>2. /\ UpTo(p, 0) = IF body[p] = "switch" THEN {} ELSE Straight
      /\ \A n \in 1 .. Count(p) :
           UpTo(p, n) = Onwards(UpTo(p, n - 1)
                                  \cup (IF body[p] = "switch" /\ Starts(p, n) THEN Straight ELSE {}),
                                SubPaths(p)[n])
  <2>1. Len(SubPaths(p)) \in Nat /\ 1 .. Len(SubPaths(p)) = 1 .. Count(p)
    BY <1>1
  <2>2. QED
    BY <2>1, PathsSteps, ZenonT(40) DEF UpTo
<1>3. Steady(p, 0)
  <2>1. Distinct(UpTo(p, 0), {}) /\ Covered(p, 0) = {}
    BY <1>2, StraightFacts, CoveredFacts
  <2>2. \A x \in Straight : x.end = "regular"
    BY PathFields DEF Straight
  <2>3. Loose(UpTo(p, 0))
    BY <1>2, <2>2 DEF Loose
  <2>4. body[p] = "switch" => Somewhere(UpTo(p, 0))
    BY <1>2 DEF Somewhere
  <2>5. QED
    BY <2>1, <2>3, <2>4 DEF Steady
<1>4. QED
  BY <1>2, <1>3

LEMMA UpToStep ==
  ASSUME GivenFunction, NEW p \in DOMAIN body, \A q \in Below(p) : Sound(q),
         NEW n \in 1 .. Count(p), Steady(p, n - 1)
  PROVE  Steady(p, n) /\ Counted(p, n) /\ Somewhere(UpTo(p, n))
<1> DEFINE S == UpTo(p, n - 1)
           T == SubPaths(p)[n]
           X == Entered(p, n, S)
<1>1. UpTo(p, n) = Onwards(X, T)
  BY UpToStart DEF Entered
<1>2. Distinct(S, Covered(p, n - 1)) /\ (body[p] = "switch" => Somewhere(S)) /\ Loose(S)
  BY DEF Steady
<1>3. Distinct(T, Tree(At(p, n))) /\ Somewhere(T)
  BY SubSound
<1> HIDE DEF S, T
<1>4. Distinct(X, Covered(p, n - 1)) /\ Loose(X) /\ EntryCounts(p, n, S)
  BY <1>2, EntryFacts
<1> HIDE DEF X
<1>5. /\ Covered(p, n - 1) \cup Tree(At(p, n)) = Covered(p, n)
      /\ Covered(p, n - 1) \cap Tree(At(p, n)) = {}
  BY CoveredFacts
<1>6. /\ Distinct(Onwards(X, T), Covered(p, n)) /\ Somewhere(Onwards(X, T))
      /\ Multiplies(X, T)
  BY <1>3, <1>4, <1>5, OnwardsDistinct
<1>7. Counted(p, n)
  <2>1. \A e : Num(Onwards(X, T), e) = Num(X, e \ Regular) + Num(X, Regular) * Num(T, e)
    BY <1>6, Zenon DEF Multiplies, Regular
  <2>2. /\ Num(X, Regular) = Num(S, Regular) + Entry(p, n)
        /\ \A e : Num(X, e \ Regular) = Num(S, e \ Regular)
    BY <1>4, Zenon DEF EntryCounts, Regular, X
  <2>3. QED
    BY <1>1, <2>1, <2>2, Zenon DEF Counted, S, T
<1>8. Steady(p, n) /\ Somewhere(UpTo(p, n))
  BY <1>1, <1>6 DEF Steady, Somewhere, Loose
<1>9. QED
  BY <1>7, <1>8

LEMMA UpToFacts ==
  ASSUME GivenFunction, NEW p \in DOMAIN body, \A q \in Below(p) : Sound(q)
  PROVE  /\ \A n \in 0 .. Count(p) : Steady(p, n) /\ Distinct(UpTo(p, n), Below(p))
         /\ \A n \in 1 .. Count(p) : Counted(p, n) /\ Somewhere(UpTo(p, n))
<1> DEFINE S == {n \in Nat : n \in 0 .. Count(p) => Steady(p, n)}
<1>0. Count(p) \in Nat
  BY SubstatementFacts
<1>1. 0 \in S
  BY UpToStart
<1>2. ASSUME NEW n \in Nat, n \in S PROVE n + 1 \in S
  <2>1. CASE n + 1 \in 0 .. Count(p)
    <3>1. n + 1 \in 1 .. Count(p) /\ n \in 0 .. Count(p) /\ (n + 1) - 1 = n
      BY <1>0, <2>1
    <3>2. Steady(p, (n + 1) - 1)
      BY <1>2, <3>1
    <3>3. Steady(p, n + 1)
      BY <3>1, <3>2, UpToStep
    <3>4. QED
      BY <3>3
  <2>2. CASE n + 1 \notin 0 .. Count(p)
    BY <2>2
  <2>3. QED
    BY <2>1, <2>2
<1> HIDE DEF S
<1>3. Nat \subseteq S
  BY <1>1, <1>2, AllNumbers
<1>4. \A n \in 0 .. Count(p) : Steady(p, n)
  BY <1>0, <1>3 DEF S
<1>5. \A n \in 1 .. Count(p) : n - 1 \in 0 .. Count(p)
  BY <1>0
<1>6. \A n \in 1 .. Count(p) : Counted(p, n) /\ Somewhere(UpTo(p, n))
  BY <1>4, <1>5, UpToStep
<1>7. \A n \in 0 .. Count(p) : Distinct(UpTo(p, n), Below(p))
  <2> SUFFICES ASSUME NEW n \in 0 .. Count(p) PROVE Distinct(UpTo(p, n), Below(p))
    OBVIOUS
  <2>1. Covered(p, n) \subseteq Below(p) /\ Distinct(UpTo(p, n), Covered(p, n))
    BY <1>4, CoveredFacts DEF Steady
  <2>2. QED
    BY <2>1, SubsetDistinct
<1>8. QED
  BY <1>4, <1>6, <1>7

OverPaths(p) == PathsOver(p, SubPaths(p))

LEMMA OverDistinct ==
  ASSUME GivenFunction, NEW p \in DOMAIN body, \A q \in Below(p) : Sound(q)
  PROVE  Distinct(OverPaths(p), Below(p))
<1>0. Count(p) \in Nat /\ Len(SubPaths(p)) = Count(p)
  BY SubPathsFacts, SubstatementFacts
<1>1. Distinct(Straight, Below(p)) /\ Distinct({}, Below(p))
  BY StraightFacts, SubsetDistinct
<1>2. /\ \A n \in 1 .. Count(p) :
           Distinct(SubPaths(p)[n], Below(p)) /\ Somewhere(SubPaths(p)[n])
             /\ Distinct(SubPaths(p)[n], Tree(At(p, n)))
      /\ \A n \in 1 .. Count(p) :
           /\ Tree(At(p, n)) \subseteq Below(p)
           /\ \A m \in 1 .. Count(p) : m # n => Tree(At(p, n)) \cap Tree(At(p, m)) = {}
  BY SubSound, SubstatementFacts
<1>3. \A n \in 0 .. Count(p) : Distinct(UpTo(p, n), Below(p)) /\ Steady(p, n)
  BY UpToFacts
<1>4. ASSUME NEW S, Distinct(S, Below(p)), Somewhere(S)
      PROVE  Distinct(S \cup Straight, Below(p))
  <2>1. Distinct(Straight, {}) /\ Below(p) \cap {} = {} /\ Below(p) \cup {} = Below(p)
    BY StraightFacts
  <2>2. QED
    BY <1>4, <2>1, BesideDistinct
<1>5. ASSUME NEW S, Distinct(S, Below(p)), NEW from, NEW to
      PROVE  Distinct(Ends(S, from, to), Below(p)) /\ (Somewhere(S) => Somewhere(Ends(S, from, to)))
  BY <1>5, EndsDistinct
<1>6. CASE body[p] \in {"return", "break", "continue"}
  <2>1. OverPaths(p) = {Path({}, body[p])}
    BY <1>6 DEF OverPaths, PathsOver
  <2>2. Distinct(OverPaths(p), {}) /\ {} \subseteq Below(p)
    BY <2>1, SingleFacts
  <2>3. QED
    BY <2>2, SubsetDistinct
<1>7. CASE body[p] = "block"
  <2>1. OverPaths(p) = UpTo(p, Count(p))
    BY <1>0, <1>7 DEF OverPaths, PathsOver, UpTo
  <2>2. Count(p) \in 0 .. Count(p)
    BY <1>0
  <2>3. QED
    BY <1>3, <2>1, <2>2
<1>8. CASE body[p] = "if"
  <2>1. Count(p) \in {1, 2}
    BY <1>8, WidthFacts DEF Count
  <2> DEFINE S == IF KnownFalse(p) THEN {} ELSE SubPaths(p)[1]
             T == IF KnownTrue(p) THEN {} ELSE IF Count(p) = 1 THEN Straight ELSE SubPaths(p)[2]
             A == Tree(At(p, 1))
             B == IF Count(p) = 1 THEN {} ELSE Tree(At(p, 2))
  <2>2. OverPaths(p) = S \cup T
    BY <1>0, <1>8 DEF OverPaths, PathsOver
  <2>3. Distinct(S, A) /\ Somewhere(S)
    <3>1. 1 \in 1 .. Count(p)
      BY <2>1
    <3>2. Distinct({}, A) /\ Somewhere({})
      BY StraightFacts, SubsetDistinct DEF Somewhere
    <3>3. QED
      BY <1>2, <3>1, <3>2
  <2>4. Distinct(T, B)
    <3>1. Distinct({}, B)
      BY StraightFacts, SubsetDistinct
    <3>2. CASE Count(p) = 1
      BY <3>1, <3>2, StraightFacts
    <3>3. CASE Count(p) = 2
      <4>1. 2 \in 1 .. Count(p)
        BY <3>3
      <4>2. QED
        BY <1>2, <3>1, <3>3, <4>1
    <3>4. QED
      BY <2>1, <3>2, <3>3
  <2>5. A \cap B = {} /\ A \cup B \subseteq Below(p)
    <3>1. CASE Count(p) = 1
      BY <1>2, <3>1
    <3>2. CASE Count(p) = 2
      <4>1. 1 \in 1 .. Count(p) /\ 2 \in 1 .. Count(p)
        BY <3>2
      <4>2. QED
        BY <1>2, <3>2, <4>1
    <3>3. QED
      BY <2>1, <3>1, <3>2
  <2> HIDE DEF S, T, A, B
  <2>6. Distinct(S \cup T, A \cup B)
    BY <2>3, <2>4, <2>5, BesideDistinct
  <2>7. QED
    BY <2>2, <2>5, <2>6, SubsetDistinct
<1>9. CASE body[p] \in Loops
  <2>1. Count(p) = 1
    BY <1>9, WidthFacts DEF Count, Loops
  <2>2. 1 \in 1 .. Count(p)
    BY <2>1
  <2>3. /\ Distinct(Iterated(SubPaths(p)[1]), Below(p)) /\ Somewhere(Iterated(SubPaths(p)[1]))
    BY <1>2, <1>5, <2>2 DEF Iterated
  <2>4. \/ OverPaths(p) = Iterated(SubPaths(p)[1])
        \/ OverPaths(p) = Iterated(SubPaths(p)[1]) \cup Straight
        \/ OverPaths(p) = Straight \/ OverPaths(p) = {}
    BY <1>9 DEF OverPaths, PathsOver, Loops
  <2>5. QED
    BY <1>1, <1>4, <2>3, <2>4
<1>10. CASE body[p] = "switch"
  <2>1. OverPaths(p) = Ends(UpTo(p, Count(p)) \cup (IF Exhaustive(p) THEN {} ELSE Straight),
                            {"break"}, "regular")
    BY <1>0, <1>10 DEF OverPaths, PathsOver, UpTo
  <2>2. Distinct(UpTo(p, Count(p)), Below(p)) /\ Somewhere(UpTo(p, Count(p)))
    BY <1>0, <1>3, <1>10 DEF Steady
  <2>3. Distinct(UpTo(p, Count(p)) \cup (IF Exhaustive(p) THEN {} ELSE Straight), Below(p))
    BY <1>4, <2>2
  <2>4. QED
    BY <1>5, <2>1, <2>3
<1>11. CASE body[p] \notin {"return", "break", "continue", "block", "if", "switch"} \cup Loops
  <2>1. OverPaths(p) = Straight
    BY <1>11 DEF OverPaths, PathsOver, Loops
  <2>2. QED
    BY <1>1, <2>1
<1>12. QED
  BY <1>6, <1>7, <1>8, <1>9, <1>10, <1>11

LEMMA AllSound ==
  ASSUME GivenFunction
  PROVE  \A p \in DOMAIN body : Sound(p)
<1> DEFINE S == {p \in DOMAIN body : Sound(p)}
<1>1. ASSUME NEW p \in DOMAIN body, \A q \in Below(p) : q \in S PROVE p \in S
  <2>1. Distinct(OverPaths(p), Below(p))
    BY <1>1, OverDistinct
  <2>2. p \notin Below(p) /\ Tree(p) = Below(p) \cup {p}
    BY TreeBelow
  <2>3. Paths[p] = Via(p, OverPaths(p))
    BY PathsSolves DEF OverPaths, SubPaths
  <2>4. QED
    BY <2>1, <2>2, <2>3, ViaDistinct DEF Sound
<1> HIDE DEF S
<1>2. DOMAIN body \subseteq S
  BY <1>1, FromBelow
<1>3. QED
  BY <1>2 DEF S

LEMMA PathsNumbers ==
  ASSUME GivenFunction, NEW p \in DOMAIN body
  PROVE  \A e : Num(Paths[p], e) = Num(OverPaths(p), e) /\ Num(Paths[p], e) \in Nat
<1>1. Distinct(OverPaths(p), Below(p))
  <2>1. \A q \in Below(p) : Sound(q)
    BY AllSound DEF Below
  <2>2. QED
    BY <2>1, OverDistinct
<1>2. p \notin Below(p)
  BY TreeBelow
<1>3. Paths[p] = Via(p, OverPaths(p))
  BY PathsSolves DEF OverPaths, SubPaths
<1>4. IsFiniteSet(Paths[p])
  BY AllSound DEF Sound, Distinct
<1>5. \A e : Num(Via(p, OverPaths(p)), e) = Num(OverPaths(p), e)
  BY <1>1, <1>2, ViaDistinct
<1>6. \A e : Num(Paths[p], e) \in Nat
  BY <1>4, NumType
<1>7. QED
  BY <1>3, <1>5, <1>6
-----------------------------------------------------------------------------
(* What the paths of a statement come to. *)

Returning == {"return"}
Breaking == {"break", "continue"}

\* A statement that getPathCount() is asked for: no label, and not the block of a switch.
Proper(p) == p \in DOMAIN body /\ body[p] \notin Labels /\ ~ SwitchBody(p)

LEMMA ProperKinds ==
  ASSUME GivenFunction, PlainExits, NEW p, Proper(p)
  PROVE  body[p] \in {"other", "declaration", "return", "break", "continue", "block", "if", "switch"}
                      \cup Loops
<1>1. body[p] \notin {"goto", "label"} /\ body[p] \notin Labels
  BY DEF PlainExits, Proper
<1>2. body[p] \in Leaves \cup Loops \cup Labels \cup {"block", "if", "switch", "label"}
  BY WidthFacts DEF Proper
<1>3. QED
  BY <1>1, <1>2 DEF Leaves

LEMMA SubProper ==
  ASSUME GivenFunction, PlainExits, NEW p, Proper(p)
  PROVE  \A n \in 1 .. Count(p) : Proper(Substatements(p)[n])
<1> SUFFICES ASSUME NEW n \in 1 .. Count(p) PROVE Proper(Substatements(p)[n])
  OBVIOUS
<1>0. p \in DOMAIN body /\ p \in Seq(Nat \ {0}) /\ n \in Nat \ {0}
  BY BodyFacts, SubstatementFacts DEF Proper
<1>1. /\ Substatements(p)[n] = IF body[p] = "switch" THEN Labelled(At(p, n)) ELSE At(p, n)
      /\ At(p, n) \in DOMAIN body /\ Substatements(p)[n] \in DOMAIN body
  BY <1>0, SubstatementFacts
<1>2. CASE body[p] = "switch"
  <2>1. /\ OnlyLabels(At(p, n), Substatements(p)[n]) /\ body[Substatements(p)[n]] \notin Labels
    BY <1>1, <1>2, LabelledFacts
  <2>2. ASSUME SwitchBody(Substatements(p)[n]) PROVE FALSE
    <3>1. body[Front(Substatements(p)[n])] = "switch" /\ body[Substatements(p)[n]] = "block"
      BY <2>2 DEF SwitchBody
    <3>2. CASE Substatements(p)[n] # At(p, n)
      <4>1. body[Front(Substatements(p)[n])] \in Labels
        BY <1>1, <2>1, <3>2, OnlyLabelsFacts
      <4>2. QED
        BY <3>1, <4>1 DEF Labels
    <3>3. CASE Substatements(p)[n] = At(p, n)
      <4>1. At(p, n) = Append(Within(p), n) /\ Within(p) \in Seq(Nat \ {0})
        BY <1>0, <1>2, WithinFacts, BodyFacts DEF At
      <4>2. Front(At(p, n)) = Within(p)
        BY <1>0, <4>1, AppendFacts
      <4>3. body[Within(p)] = "switch"
        BY <3>1, <3>3, <4>2
      <4>4. Within(p) = p /\ body[Append(p, 1)] # "block"
        BY <1>0, <1>2, <4>3, WithinFacts
      <4>5. Count(p) = 1
        BY <1>0, <1>2, <4>4, WithinFacts DEF Count
      <4>6. n = 1
        BY <4>5
      <4>7. QED
        BY <3>1, <3>3, <4>1, <4>4, <4>6
    <3>4. QED
      BY <3>2, <3>3
  <2>3. QED
    BY <1>1, <2>1, <2>2 DEF Proper
<1>3. CASE body[p] # "switch"
  <2>1. Substatements(p)[n] = Append(p, n)
    BY <1>1, <1>3 DEF At
  <2>2. Front(Substatements(p)[n]) = p
    BY <1>0, <2>1, AppendFacts
  <2>3. ~ SwitchBody(Substatements(p)[n])
    BY <1>3, <2>2 DEF SwitchBody
  <2>4. body[Substatements(p)[n]] \notin Labels
    BY <1>1, <1>3, <2>2 DEF PlainExits, Proper
  <2>5. QED
    BY <1>1, <2>3, <2>4 DEF Proper
<1>4. QED
  BY <1>2, <1>3

LEMMA NumNothing ==
  ASSUME NEW S
  PROVE  Num(S, {}) = 0
<1>1. Ending(S, {}) = {}
  BY DEF Ending
<1>2. QED
  BY <1>1, FS_EmptySet DEF Num

LEMMA EndsApart ==
  /\ Regular \ Regular = {} /\ Returning \ Regular = Returning /\ Breaking \ Regular = Breaking
BY DEF Regular, Returning, Breaking

\* The numbers of the paths up to the n-th substatement.
RegularTo(p, n) == Num(UpTo(p, n), Regular)
ReturnTo(p, n) == Num(UpTo(p, n), Returning)
BreakTo(p, n) == Num(UpTo(p, n), Breaking)

LEMMA CountedThree ==
  ASSUME GivenFunction, NEW p \in DOMAIN body, NEW n \in 1 .. Count(p)
  PROVE  /\ RegularTo(p, n) = (RegularTo(p, n - 1) + Entry(p, n)) * Num(SubPaths(p)[n], Regular)
         /\ ReturnTo(p, n) = ReturnTo(p, n - 1)
               + (RegularTo(p, n - 1) + Entry(p, n)) * Num(SubPaths(p)[n], Returning)
         /\ BreakTo(p, n) = BreakTo(p, n - 1)
               + (RegularTo(p, n - 1) + Entry(p, n)) * Num(SubPaths(p)[n], Breaking)
         /\ RegularTo(p, n - 1) \in Nat /\ ReturnTo(p, n - 1) \in Nat /\ BreakTo(p, n - 1) \in Nat
         /\ RegularTo(p, n) \in Nat /\ ReturnTo(p, n) \in Nat /\ BreakTo(p, n) \in Nat
         /\ Entry(p, n) \in {0, 1}
         /\ \A e : Num(SubPaths(p)[n], e) \in Nat
<1>0. Count(p) \in Nat
  BY SubstatementFacts
<1>1. \A q \in Below(p) : Sound(q)
  BY AllSound DEF Below
<1>2. Counted(p, n) /\ Steady(p, n) /\ Steady(p, n - 1) /\ n - 1 \in 0 .. Count(p)
  <2>1. n - 1 \in 0 .. Count(p) /\ n \in 0 .. Count(p)
    BY <1>0
  <2>2. QED
    BY <1>1, <2>1, UpToFacts
<1>3. \A e : Num(UpTo(p, n), e) \in Nat /\ Num(UpTo(p, n - 1), e) \in Nat
  BY <1>2, NumType DEF Steady, Distinct
<1>4. \A e : Num(SubPaths(p)[n], e) \in Nat
  BY <1>1, SubSound, NumType DEF Distinct
<1>5. Entry(p, n) \in {0, 1}
  BY DEF Entry
<1>6. \A e : Num(UpTo(p, n), e)
               = Num(UpTo(p, n - 1), e \ Regular)
                 + (Num(UpTo(p, n - 1), Regular) + Entry(p, n)) * Num(SubPaths(p)[n], e)
  BY <1>2, Zenon DEF Counted
<1>7. /\ Num(UpTo(p, n), Regular) = 0
            + (Num(UpTo(p, n - 1), Regular) + Entry(p, n)) * Num(SubPaths(p)[n], Regular)
      /\ Num(UpTo(p, n), Returning) = Num(UpTo(p, n - 1), Returning)
            + (Num(UpTo(p, n - 1), Regular) + Entry(p, n)) * Num(SubPaths(p)[n], Returning)
      /\ Num(UpTo(p, n), Breaking) = Num(UpTo(p, n - 1), Breaking)
            + (Num(UpTo(p, n - 1), Regular) + Entry(p, n)) * Num(SubPaths(p)[n], Breaking)
  BY <1>6, EndsApart, NumNothing, Zenon
<1>8. PICK i \in Nat : i = (Num(UpTo(p, n - 1), Regular) + Entry(p, n)) * Num(SubPaths(p)[n], Regular)
  BY <1>3, <1>4, <1>5
<1>9. 0 + i = i
  OBVIOUS
<1>10. QED
  BY <1>3, <1>4, <1>5, <1>7, <1>8, <1>9, Zenon DEF RegularTo, ReturnTo, BreakTo

LEMMA StartNumbers ==
  ASSUME GivenFunction, NEW p \in DOMAIN body
  PROVE  /\ RegularTo(p, 0) = IF body[p] = "switch" THEN 0 ELSE 1
         /\ ReturnTo(p, 0) = 0 /\ BreakTo(p, 0) = 0
<1>1. UpTo(p, 0) = IF body[p] = "switch" THEN {} ELSE Straight
  BY UpToStart
<1>2. /\ \A e : Num(Straight, e) = IF "regular" \in e THEN 1 ELSE 0
      /\ \A e : Num({}, e) = 0
  BY StraightFacts
<1>3. "regular" \in Regular /\ "regular" \notin Returning /\ "regular" \notin Breaking
  BY DEF Regular, Returning, Breaking
<1>4. QED
  BY <1>1, <1>2, <1>3 DEF RegularTo, ReturnTo, BreakTo

\* The paths of a statement without parts.
LEMMA LeafNumbers ==
  ASSUME GivenFunction, NEW p \in DOMAIN body
  PROVE  /\ body[p] \in {"break", "continue"} =>
              /\ Num(Paths[p], Regular) = 0 /\ Num(Paths[p], Returning) = 0
              /\ Num(Paths[p], Breaking) = 1
         /\ body[p] = "return" =>
              /\ Num(Paths[p], Regular) = 0 /\ Num(Paths[p], Returning) = 1
              /\ Num(Paths[p], Breaking) = 0
         /\ body[p] \in {"other", "declaration"} =>
              /\ Num(Paths[p], Regular) = 1 /\ Num(Paths[p], Returning) = 0
              /\ Num(Paths[p], Breaking) = 0
<1>1. \A e : Num(Paths[p], e) = Num(OverPaths(p), e)
  BY PathsNumbers
<1>2. body[p] \in {"return", "break", "continue"} => OverPaths(p) = {Path({}, body[p])}
  BY DEF OverPaths, PathsOver
<1>3. body[p] \in {"other", "declaration"} => OverPaths(p) = {Path({}, "regular")}
  BY DEF OverPaths, PathsOver, Straight
<1>4. \A to, e : Num({Path({}, to)}, e) = IF to \in e THEN 1 ELSE 0
  BY SingleFacts
<1>5. /\ "regular" \in Regular /\ "regular" \notin Returning /\ "regular" \notin Breaking
      /\ "return" \notin Regular /\ "return" \in Returning /\ "return" \notin Breaking
      /\ \A to \in {"break", "continue"} :
           to \notin Regular /\ to \notin Returning /\ to \in Breaking
  BY DEF Regular, Returning, Breaking
<1>6. ASSUME NEW to, OverPaths(p) = {Path({}, to)}, NEW e
      PROVE  Num(Paths[p], e) = IF to \in e THEN 1 ELSE 0
  BY <1>1, <1>4, <1>6, ZenonT(40)
<1>7. CASE body[p] \in {"break", "continue"}
  <2>1. \A e : Num(Paths[p], e) = IF body[p] \in e THEN 1 ELSE 0
    BY <1>2, <1>6, <1>7, Zenon
  <2>2. QED
    BY <1>5, <1>7, <2>1
<1>8. CASE body[p] = "return"
  <2>1. \A e : Num(Paths[p], e) = IF body[p] \in e THEN 1 ELSE 0
    BY <1>2, <1>6, <1>8
  <2>2. QED
    BY <1>5, <1>8, <2>1
<1>9. CASE body[p] \in {"other", "declaration"}
  <2>1. \A e : Num(Paths[p], e) = IF "regular" \in e THEN 1 ELSE 0
    BY <1>3, <1>6, <1>9, Zenon
  <2>2. QED
    BY <1>5, <1>9, <2>1
<1>10. QED
  BY <1>7, <1>8, <1>9

\* Before the first statement that may return no path has.
LEMMA ReturnsNone ==
  ASSUME GivenFunction, NEW p \in DOMAIN body, NEW k \in 0 .. Count(p),
         \A i \in 1 .. k : Num(SubPaths(p)[i], Returning) = 0
  PROVE  ReturnTo(p, k) = 0
<1> DEFINE S == {n \in Nat : n \in 0 .. k => ReturnTo(p, n) = 0}
<1>0. Count(p) \in Nat
  BY SubstatementFacts
<1>1. 0 \in S
  BY StartNumbers
<1>2. ASSUME NEW n \in Nat, n \in S PROVE n + 1 \in S
  <2>1. CASE n + 1 \in 0 .. k
    <3>1. n + 1 \in 1 .. Count(p) /\ n + 1 \in 1 .. k /\ n \in 0 .. k /\ (n + 1) - 1 = n
      BY <1>0, <2>1
    <3>2. ReturnTo(p, (n + 1) - 1) = 0 /\ Num(SubPaths(p)[n + 1], Returning) = 0
      BY <1>2, <3>1
    <3>3. /\ ReturnTo(p, n + 1) = ReturnTo(p, (n + 1) - 1)
               + (RegularTo(p, (n + 1) - 1) + Entry(p, n + 1)) * Num(SubPaths(p)[n + 1], Returning)
          /\ RegularTo(p, (n + 1) - 1) \in Nat /\ Entry(p, n + 1) \in {0, 1}
      BY <3>1, CountedThree, Zenon
    <3>4. PICK u \in Nat : u = RegularTo(p, (n + 1) - 1) + Entry(p, n + 1)
      BY <3>3
    <3>5. ReturnTo(p, n + 1) = 0 + u * 0
      BY <3>2, <3>3, <3>4, Zenon
    <3>6. ReturnTo(p, n + 1) = 0
      BY <3>5
    <3>7. QED
      BY <3>6
  <2>2. CASE n + 1 \notin 0 .. k
    BY <2>2
  <2>3. QED
    BY <2>1, <2>2
<1> HIDE DEF S
<1>3. Nat \subseteq S
  BY <1>1, <1>2, AllNumbers
<1>4. k \in Nat /\ k \in 0 .. k
  BY <1>0
<1>5. QED
  BY <1>3, <1>4 DEF S
-----------------------------------------------------------------------------
(* The count of a statement, its substatements being counted right. *)

\* The counts of the substatements, and what the walk over a block has after the n-th.
SubCounts(p) == OfSubs(getPathCount, p)
OtherAt(p, n) == OtherUpTo(p, SubCounts(p))[n]
\* No loop in p is left by break: then the number of breaks is right as well.
NoBreaks(p) == \A q \in Tree(p) : ~ LeftByBreak(q)

\* Do the numbers in r come to x, t and b, as far as the code promises it?
Right(p, r, x, t, b) ==
  \E y, z : Come(r, x, y, z) /\ (Plain => y = t) /\ (NoBreaks(p) => z = b)

\* The numbers of p come to its paths, by the way they end.
Claim(p) ==
  Right(p, getPathCount[p], Num(Paths[p], Regular), Num(Paths[p], Returning), Num(Paths[p], Breaking))

LEMMA SubCountsFacts ==
  ASSUME GivenFunction, NEW p \in DOMAIN body
  PROVE  /\ DOMAIN SubCounts(p) = 1 .. Count(p) /\ Len(SubCounts(p)) = Count(p)
         /\ \A n \in 1 .. Count(p) : SubCounts(p)[n] = getPathCount[Substatements(p)[n]]
         /\ getPathCount[p] = Combined(p, SubCounts(p))
<1>1. Count(p) \in Nat /\ DOMAIN Substatements(p) = 1 .. Count(p)
  BY SubstatementFacts
<1>2. SubCounts(p) = [n \in 1 .. Count(p) |-> getPathCount[Substatements(p)[n]]]
  BY <1>1 DEF SubCounts, OfSubs
<1>3. getPathCount[p] = Combined(p, SubCounts(p))
  BY getPathCountSolves DEF SubCounts
<1>4. QED
  BY <1>1, <1>2, <1>3

\* What is right of a substatement.
LEMMA SubRight ==
  ASSUME GivenFunction, NEW p \in DOMAIN body, NEW n \in 1 .. Count(p), Claim(Substatements(p)[n])
  PROVE  Right(p, SubCounts(p)[n], Num(SubPaths(p)[n], Regular), Num(SubPaths(p)[n], Returning),
               Num(SubPaths(p)[n], Breaking))
<1> DEFINE q == Substatements(p)[n]
<1>1. SubCounts(p)[n] = getPathCount[q] /\ SubPaths(p)[n] = Paths[q]
  BY SubCountsFacts, SubPathsFacts
<1>2. NoBreaks(p) => NoBreaks(q)
  <2>1. q \in Below(p)
    BY SubstatementFacts
  <2>2. q \in Tree(p)
    BY <2>1, TreeBelow
  <2>3. Tree(q) \subseteq Tree(p)
    BY <2>2, TreeWithin
  <2>4. QED
    BY <2>3 DEF NoBreaks
<1>3. Claim(q)
  OBVIOUS
<1> HIDE DEF q
<1>4. PICK y, z : /\ Come(getPathCount[q], Num(Paths[q], Regular), y, z)
                  /\ (Plain => y = Num(Paths[q], Returning))
                  /\ (NoBreaks(q) => z = Num(Paths[q], Breaking))
  BY <1>3 DEF Claim, Right
<1>5. NoBreaks(p) => z = Num(Paths[q], Breaking)
  BY <1>2, <1>4
<1>6. QED
  BY <1>1, <1>4, <1>5, Zenon DEF Right

\* The outcome o of a step of getOtherPathCount(), kind by kind.
OtherOutcome(acc, kind, sub, o) ==
  /\ o = [res |-> o.res, skip |-> o.skip] /\ o.skip \in BOOLEAN
  /\ acc.skip => o.res = acc.res
  /\ ~ acc.skip /\ kind \in {"break", "continue"} =>
       o.res = PathResults(0, acc.res.return, acc.res.break + acc.res.regular)
  /\ ~ acc.skip /\ kind = "return" => o.res = PathResults(0, acc.res.regular, acc.res.break)
  /\ ~ acc.skip /\ kind \in {"block", "if", "switch"} \cup Loops =>
       o.res = Then(acc.res, sub) /\ (o.skip => sub.regular = 0)
  /\ ~ acc.skip /\ kind \in {"other", "declaration"} => o.res = acc.res /\ ~ o.skip

LEMMA OtherCases ==
  ASSUME NEW acc, acc = [res |-> acc.res, skip |-> acc.skip], acc.skip \in BOOLEAN,
         NEW kind, NEW sub,
         kind \in {"other", "declaration", "return", "break", "continue", "block", "if", "switch"}
                    \cup Loops,
         NEW o, o = OtherStep(acc, kind, sub)
  PROVE  OtherOutcome(acc, kind, sub, o)
<1>1. CASE acc.skip
  <2>1. o = [acc EXCEPT !.skip = kind # "label"]
    BY <1>1 DEF OtherStep
  <2>2. o = [res |-> acc.res, skip |-> kind # "label"]
    BY <2>1
  <2>3. o.res = acc.res /\ o.skip \in BOOLEAN /\ o = [res |-> o.res, skip |-> o.skip]
    <3>1. PICK b \in BOOLEAN : o = [res |-> acc.res, skip |-> b]
      BY <2>2
    <3>2. QED
      BY <3>1
  <2>4. QED
    BY <1>1, <2>3 DEF OtherOutcome
<1>2. CASE ~ acc.skip /\ kind \in {"break", "continue"}
  <2>1. kind # "return" /\ kind \notin Loops \cup {"switch"} /\ kind \notin {"if", "block"}
        /\ kind \notin {"other", "declaration"}
    BY <1>2 DEF Loops
  <2>2. OtherStep(acc, kind, sub)
          = [res |-> PathResults(0, acc.res.return, acc.res.break + acc.res.regular), skip |-> TRUE]
    BY <1>2, <2>1 DEF OtherStep
  <2>3. PICK r : r = PathResults(0, acc.res.return, acc.res.break + acc.res.regular)
    OBVIOUS
  <2>4. o = [res |-> r, skip |-> TRUE]
    BY <2>2, <2>3, Zenon
  <2>5. o.res = r /\ o.skip \in BOOLEAN /\ o = [res |-> o.res, skip |-> o.skip]
    BY <2>4
  <2>6. o.res = PathResults(0, acc.res.return, acc.res.break + acc.res.regular)
    BY <2>3, <2>5, Zenon
  <2>7. kind \notin {"block", "if", "switch"} \cup Loops
    BY <2>1
  <2>8. QED
    BY <1>2, <2>1, <2>5, <2>6, <2>7, Zenon DEF OtherOutcome
<1>3. CASE ~ acc.skip /\ kind = "return"
  <2>1. PICK r : r = PathResults(0, acc.res.regular, acc.res.break)
    OBVIOUS
  <2>2. kind \notin {"break", "continue", "block", "if", "switch", "other", "declaration"} \cup Loops
    BY <1>3 DEF Loops
  <2>3. OtherStep(acc, kind, sub) = [res |-> r, skip |-> TRUE]
    BY <1>3, <2>1, <2>2 DEF OtherStep
  <2>4. o.res = r /\ o.skip \in BOOLEAN /\ o = [res |-> o.res, skip |-> o.skip]
    BY <2>3
  <2>5. QED
    BY <1>3, <2>1, <2>2, <2>4, Zenon DEF OtherOutcome
<1>4. CASE ~ acc.skip /\ kind \in {"block", "if", "switch"} \cup Loops
  <2>1. kind \notin {"break", "continue", "return", "other", "declaration"}
    BY <1>4 DEF Loops
  <2>2. o = [res |-> Then(acc.res, sub), skip |-> o.skip] /\ o.skip \in BOOLEAN
        /\ (o.skip => sub.regular = 0)
    BY <1>4, <2>1 DEF OtherStep, Loops
  <2>3. QED
    BY <1>4, <2>1, <2>2 DEF OtherOutcome
<1>5. CASE ~ acc.skip /\ kind \in {"other", "declaration"}
  <2>1. o = [acc EXCEPT !.skip = kind = "goto"] /\ kind # "goto"
    BY <1>5 DEF OtherStep, Loops
  <2>2. o = [res |-> acc.res, skip |-> FALSE]
    BY <2>1
  <2>3. kind \notin {"break", "continue", "return", "block", "if", "switch"} \cup Loops
    BY <1>5 DEF Loops
  <2>4. QED
    BY <1>5, <2>2, <2>3 DEF OtherOutcome
<1>6. QED
  BY <1>1, <1>2, <1>3, <1>4, <1>5

\* The walk over a block after the n-th part: its numbers come to the paths up to there, and
\* what it skips no path comes to.
BlockInv(p, n) ==
  /\ OtherAt(p, n) = [res |-> OtherAt(p, n).res, skip |-> OtherAt(p, n).skip]
  /\ OtherAt(p, n).skip \in BOOLEAN
  /\ Right(p, OtherAt(p, n).res, RegularTo(p, n), ReturnTo(p, n), BreakTo(p, n))
  /\ OtherAt(p, n).skip => Same(RegularTo(p, n), 0)

\* A statement that no path comes to changes no number.
LEMMA ComeNothing ==
  ASSUME NEW a, NEW x, NEW y, NEW z, Come(a, x, y, z), Same(x, 0), NEW u \in Nat, NEW v \in Nat, NEW w \in Nat
  PROVE  Come(a, x * u, y + x * v, z + x * w) /\ Same(x * u, 0)
<1>1. /\ x \in Nat /\ y \in Nat /\ z \in Nat /\ Numbers(a)
      /\ Same(a.regular, x) /\ Same(a.return, y) /\ Same(a.break, z)
      /\ a.regular \in Nat /\ a.return \in Nat /\ a.break \in Nat
  BY DEF Come, Numbers
<1>2. ASSUME NEW k \in Nat PROVE Same(x * k, 0) /\ x * k \in Nat /\ Same(0, x * k)
  <2>1. Same(x * k, 0 * k)
    BY <1>1, SameFacts, SameProduct
  <2>2. 0 * k = 0 /\ x * k \in Nat
    BY <1>1
  <2>3. QED
    BY <2>1, <2>2, SameFacts
<1>3. ASSUME NEW r \in Nat, NEW l \in Nat, Same(r, l), NEW k \in Nat PROVE Same(r, l + x * k)
  <2>1. Same(r + 0, l + x * k)
    BY <1>2, <1>3, SameSum
  <2>2. r + 0 = r
    OBVIOUS
  <2>3. QED
    BY <2>1, <2>2
<1>4. Same(a.regular, x * u)
  BY <1>1, <1>2, SameFacts
<1>5. Same(a.return, y + x * v) /\ Same(a.break, z + x * w)
  BY <1>1, <1>3
<1>6. y + x * v \in Nat /\ z + x * w \in Nat
  BY <1>1, <1>2
<1>7. QED
  BY <1>1, <1>2, <1>4, <1>5, <1>6 DEF Come
-----------------------------------------------------------------------------
(* Blocks. *)

\* The numbers of the parts before a return of a plain block.
LEMMA BeforeReturn ==
  ASSUME GivenFunction, NEW p, Proper(p), body[p] = "block", NEW n \in 1 .. Count(p),
         body[Append(p, n)] = "return", Plain
  PROVE  ReturnTo(p, n - 1) = 0
<1>0. p \in DOMAIN body /\ ~ SwitchBody(p)
  BY DEF Proper
<1>1. Count(p) \in Nat /\ Count(p) = Width(p) /\ n - 1 \in 0 .. Count(p)
  <2>1. Count(p) \in Nat
    BY <1>0, SubstatementFacts
  <2>2. Count(p) = Width(p)
    BY DEF Count
  <2>3. QED
    BY <2>1, <2>2
<1>2. ReturnsOnce(p)
  BY <1>0 DEF Plain
<1>3. ASSUME NEW i \in 1 .. (n - 1) PROVE Num(SubPaths(p)[i], Returning) = 0
  <2>1. i \in 1 .. Width(p) /\ n \in 1 .. Width(p) /\ i < n /\ i \in 1 .. Count(p)
    BY <1>1
  <2>2. ~ MayEnd(Append(p, i), {"return"})
    BY <1>2, <2>1 DEF ReturnsOnce
  <2>3. SubPaths(p)[i] = Paths[Append(p, i)]
    <3>1. Substatements(p)[i] = Append(p, i)
      BY <1>0, <2>1, SubstatementFacts DEF At
    <3>2. QED
      BY <1>0, <2>1, <3>1, SubPathsFacts
  <2>4. Ending(SubPaths(p)[i], Returning) = {}
    BY <2>2, <2>3 DEF MayEnd, Ending, Returning
  <2>5. QED
    BY <2>4, FS_EmptySet DEF Num
<1>4. QED
  BY <1>0, <1>1, <1>3, ReturnsNone

LEMMA Naught ==
  ASSUME NEW s \in Nat, s = 0, NEW r \in Nat, Same(s, r), NEW x \in Nat
  PROVE  Same(x * r, 0)
<1>1. Same(r, 0)
  BY SameFacts
<1>2. Same(x, x)
  BY SameFacts
<1>3. Same(x * r, x * 0)
  BY <1>1, <1>2, SameProduct
<1>4. x * 0 = 0
  OBVIOUS
<1>5. QED
  BY <1>3, <1>4

LEMMA BlockStep ==
  ASSUME GivenFunction, PlainExits, NEW p, Proper(p), body[p] = "block", NEW n \in 1 .. Count(p),
         Claim(Substatements(p)[n]), BlockInv(p, n - 1)
  PROVE  BlockInv(p, n)
<1>0. p \in DOMAIN body /\ Substatements(p)[n] = Append(p, n) /\ Count(p) \in Nat
  BY SubstatementFacts DEF Proper, At
<1>1. PICK kind : kind = body[Append(p, n)]
  OBVIOUS
<1>2. kind \in {"other", "declaration", "return", "break", "continue", "block", "if", "switch"}
                 \cup Loops
  BY <1>0, <1>1, SubProper, ProperKinds
<1>3. PICK acc, o, sub : acc = OtherAt(p, n - 1) /\ o = OtherAt(p, n) /\ sub = SubCounts(p)[n]
  OBVIOUS
<1>4. o = OtherStep(acc, kind, sub)
  <2>1. Len(SubCounts(p)) \in Nat /\ n \in 1 .. Len(SubCounts(p))
    BY <1>0, SubCountsFacts
  <2>2. OtherUpTo(p, SubCounts(p))[n]
          = OtherStep(OtherUpTo(p, SubCounts(p))[n - 1], body[Append(p, n)], SubCounts(p)[n])
    BY <2>1, OtherSteps
  <2>3. QED
    BY <1>1, <1>3, <2>2 DEF OtherAt
<1>5. /\ acc = [res |-> acc.res, skip |-> acc.skip] /\ acc.skip \in BOOLEAN
      /\ Right(p, acc.res, RegularTo(p, n - 1), ReturnTo(p, n - 1), BreakTo(p, n - 1))
      /\ acc.skip => Same(RegularTo(p, n - 1), 0)
  BY <1>3, Zenon DEF BlockInv
<1>6. PICK R \in Nat, T \in Nat, B \in Nat :
        R = RegularTo(p, n - 1) /\ T = ReturnTo(p, n - 1) /\ B = BreakTo(p, n - 1)
  BY <1>0, CountedThree
<1>7. PICK a, b, c : /\ a = Num(SubPaths(p)[n], Regular) /\ b = Num(SubPaths(p)[n], Returning)
                     /\ c = Num(SubPaths(p)[n], Breaking)
  OBVIOUS
<1>71. a \in Nat /\ b \in Nat /\ c \in Nat
  BY <1>0, <1>7, CountedThree
<1>8. RegularTo(p, n) = R * a /\ ReturnTo(p, n) = T + R * b /\ BreakTo(p, n) = B + R * c
  <2>1. Entry(p, n) = 0 /\ R + 0 = R
    BY DEF Entry
  <2>2. /\ RegularTo(p, n) = (RegularTo(p, n - 1) + Entry(p, n)) * Num(SubPaths(p)[n], Regular)
        /\ ReturnTo(p, n) = ReturnTo(p, n - 1)
              + (RegularTo(p, n - 1) + Entry(p, n)) * Num(SubPaths(p)[n], Returning)
        /\ BreakTo(p, n) = BreakTo(p, n - 1)
              + (RegularTo(p, n - 1) + Entry(p, n)) * Num(SubPaths(p)[n], Breaking)
    BY <1>0, CountedThree
  <2>3. QED
    BY <1>6, <1>7, <2>1, <2>2, Zenon
<1>9. PICK y, z : Come(acc.res, R, y, z) /\ (Plain => y = T) /\ (NoBreaks(p) => z = B)
  BY <1>5, <1>6, Zenon DEF Right
<1>10. y \in Nat /\ z \in Nat /\ Numbers(acc.res)
  BY <1>9 DEF Come
<1>11. PICK v, w : Come(sub, a, v, w) /\ (Plain => v = b) /\ (NoBreaks(p) => w = c)
  <2>1. Right(p, sub, a, b, c)
    BY <1>0, <1>3, <1>7, SubRight, Zenon
  <2>2. QED
    BY <2>1, Zenon DEF Right
<1>12. v \in Nat /\ w \in Nat /\ Numbers(sub) /\ Same(sub.regular, a)
  BY <1>11 DEF Come
<1>13. OtherOutcome(acc, kind, sub, o)
  BY <1>2, <1>4, <1>5, OtherCases
<1>131. o = [res |-> o.res, skip |-> o.skip] /\ o.skip \in BOOLEAN /\ (acc.skip => o.res = acc.res)
  BY <1>13, Zenon DEF OtherOutcome
<1> SUFFICES Right(p, o.res, R * a, T + R * b, B + R * c) /\ (o.skip => Same(R * a, 0))
  BY <1>3, <1>8, <1>131, Zenon DEF BlockInv
<1>14. CASE acc.skip
  <2>0. o.res = acc.res
    BY <1>131, <1>14, Zenon
  <2>1. Same(R, 0) /\ o.res = acc.res
    BY <1>5, <1>6, <1>14, <2>0, Zenon
  <2>2. Come(acc.res, R * a, y + R * b, z + R * c) /\ Same(R * a, 0)
    BY <1>71, <1>9, <2>1, ComeNothing
  <2>3. (Plain => y + R * b = T + R * b) /\ (NoBreaks(p) => z + R * c = B + R * c)
    BY <1>9
  <2>4. QED
    BY <2>1, <2>2, <2>3, Zenon DEF Right
<1>15. CASE ~ acc.skip /\ kind \in {"block", "if", "switch"} \cup Loops
  <2>1. o.res = Then(acc.res, sub) /\ (o.skip => sub.regular = 0)
    BY <1>13, <1>15 DEF OtherOutcome
  <2>2. Come(Then(acc.res, sub), R * a, y + R * v, z + R * w)
    BY <1>9, <1>11, ComeThen, Zenon
  <2>3. (Plain => y + R * v = T + R * b) /\ (NoBreaks(p) => z + R * w = B + R * c)
    BY <1>9, <1>11, Zenon
  <2>4. o.skip => Same(R * a, 0)
    <3>1. sub.regular \in Nat
      BY <1>12 DEF Numbers
    <3>2. QED
      BY <1>12, <1>71, <2>1, <3>1, Naught
  <2>5. QED
    BY <2>1, <2>2, <2>3, <2>4, Zenon DEF Right
<1>16. acc.res.regular \in Nat /\ acc.res.return \in Nat /\ acc.res.break \in Nat
       /\ Same(acc.res.regular, R) /\ Same(acc.res.return, y) /\ Same(acc.res.break, z)
       /\ Same(0, 0) /\ 0 \in Nat
  BY <1>9, <1>10, SameFacts DEF Come, Numbers
<1>17. SubPaths(p)[n] = Paths[Append(p, n)] /\ Append(p, n) \in DOMAIN body
  <2>1. SubPaths(p)[n] = Paths[Substatements(p)[n]]
    BY <1>0, SubPathsFacts
  <2>2. Substatements(p)[n] \in DOMAIN body
    BY <1>0, SubstatementFacts
  <2>3. QED
    BY <1>0, <2>1, <2>2, Zenon
<1>18. CASE ~ acc.skip /\ kind \in {"break", "continue"}
  <2>1. o.res = PathResults(0, acc.res.return, acc.res.break + acc.res.regular)
    BY <1>13, <1>18 DEF OtherOutcome
  <2>2. a = 0 /\ b = 0 /\ c = 1
    BY <1>1, <1>7, <1>17, <1>18, LeafNumbers
  <2>3. R * a = 0 /\ R * b = 0 /\ R * c = R /\ y + R * b = y
    BY <1>10, <2>2
  <2>4. Same(acc.res.break + acc.res.regular, z + R) /\ z + R \in Nat
        /\ acc.res.break + acc.res.regular \in Nat
    <3>1. z \in Nat /\ z + R \in Nat /\ acc.res.break + acc.res.regular \in Nat
      BY <1>10, <1>16
    <3>2. Same(acc.res.break + acc.res.regular, z + R)
      BY <1>16, <3>1, SameSum, Zenon
    <3>3. QED
      BY <3>1, <3>2, Zenon
  <2>41. Come(PathResults(0, acc.res.return, acc.res.break + acc.res.regular), 0, y, z + R)
    BY <1>10, <1>16, <2>4, ComeTo
  <2>5. Come(o.res, R * a, y + R * b, z + R * c)
    BY <2>1, <2>3, <2>41, Zenon
  <2>6. (Plain => y + R * b = T + R * b) /\ (NoBreaks(p) => z + R * c = B + R * c)
    BY <1>9, Zenon
  <2>7. Same(R * a, 0)
    BY <1>16, <2>3
  <2>8. QED
    BY <2>5, <2>6, <2>7, Zenon DEF Right
<1>19. CASE ~ acc.skip /\ kind = "return"
  <2>1. o.res = PathResults(0, acc.res.regular, acc.res.break)
    BY <1>13, <1>19 DEF OtherOutcome
  <2>2. a = 0 /\ b = 1 /\ c = 0
    BY <1>1, <1>7, <1>17, <1>19, LeafNumbers
  <2>3. R * a = 0 /\ R * b = R /\ R * c = 0 /\ z + R * c = z
    BY <1>10, <2>2
  <2>31. Come(PathResults(0, acc.res.regular, acc.res.break), 0, R, z)
    BY <1>10, <1>16, ComeTo
  <2>4. Come(o.res, R * a, R, z + R * c)
    BY <2>1, <2>3, <2>31, Zenon
  <2>5. Plain => R = T + R * b
    <3>1. Plain => T = 0
      BY <1>1, <1>6, <1>19, BeforeReturn
    <3>2. QED
      BY <2>3, <3>1
  <2>6. NoBreaks(p) => z + R * c = B + R * c
    BY <1>9, Zenon
  <2>7. Same(R * a, 0)
    BY <1>16, <2>3
  <2>8. QED
    BY <2>4, <2>5, <2>6, <2>7, Zenon DEF Right
<1>20. CASE ~ acc.skip /\ kind \in {"other", "declaration"}
  <2>1. o.res = acc.res /\ ~ o.skip
    BY <1>13, <1>20 DEF OtherOutcome
  <2>2. a = 1 /\ b = 0 /\ c = 0
    BY <1>1, <1>7, <1>17, <1>20, LeafNumbers
  <2>3. R * a = R /\ T + R * b = T /\ B + R * c = B
    BY <2>2
  <2>4. QED
    BY <1>9, <2>1, <2>3, Zenon DEF Right
<1>21. QED
  BY <1>2, <1>5, <1>14, <1>15, <1>18, <1>19, <1>20

LEMMA BlockClaim ==
  ASSUME GivenFunction, PlainExits, NEW p, Proper(p), body[p] \in {"block", "other", "declaration"},
         \A q \in Below(p) : Proper(q) => Claim(q)
  PROVE  Claim(p)
<1>0. p \in DOMAIN body /\ Count(p) \in Nat /\ Len(SubCounts(p)) = Count(p)
  BY SubstatementFacts, SubCountsFacts DEF Proper
<1>1. OtherAt(p, 0) = [res |-> One, skip |-> FALSE]
  BY <1>0, OtherSteps DEF OtherAt
<1>2. BlockInv(p, 0)
  <2>1. RegularTo(p, 0) = 1 /\ ReturnTo(p, 0) = 0 /\ BreakTo(p, 0) = 0
    BY <1>0, StartNumbers
  <2>2. Right(p, One, 1, 0, 0)
    BY ComeConstants DEF Right
  <2>3. OtherAt(p, 0).res = One /\ OtherAt(p, 0).skip = FALSE
        /\ OtherAt(p, 0) = [res |-> OtherAt(p, 0).res, skip |-> OtherAt(p, 0).skip]
    BY <1>1
  <2>4. QED
    BY <2>1, <2>2, <2>3, Zenon DEF BlockInv
<1>3. getPathCount[p] = OtherAt(p, Count(p)).res
  <2>1. getPathCount[p] = getOtherPathCount(p, SubCounts(p))
    BY <1>0, SubCountsFacts DEF Combined
  <2>2. QED
    BY <1>0, <2>1 DEF getOtherPathCount, OtherAt
<1>4. BlockInv(p, Count(p))
  <2>1. CASE body[p] # "block"
    <3>1. Count(p) = 0
      BY <1>0, <2>1, WidthFacts DEF Count, Leaves
    <3>2. QED
      BY <1>2, <3>1
  <2>2. CASE body[p] = "block"
    <3> DEFINE S == {n \in Nat : n \in 0 .. Count(p) => BlockInv(p, n)}
    <3>1. 0 \in S
      BY <1>2
    <3>2. ASSUME NEW n \in Nat, n \in S PROVE n + 1 \in S
      <4>1. CASE n + 1 \in 0 .. Count(p)
        <5>1. n + 1 \in 1 .. Count(p) /\ n \in 0 .. Count(p) /\ (n + 1) - 1 = n
          BY <1>0, <4>1
        <5>2. BlockInv(p, (n + 1) - 1)
          BY <3>2, <5>1
        <5>3. Claim(Substatements(p)[n + 1])
          BY <1>0, <5>1, SubProper, SubstatementFacts
        <5>4. BlockInv(p, n + 1)
          BY <2>2, <5>1, <5>2, <5>3, BlockStep
        <5>5. QED
          BY <5>4
      <4>2. CASE n + 1 \notin 0 .. Count(p)
        BY <4>2
      <4>3. QED
        BY <4>1, <4>2
    <3> HIDE DEF S
    <3>3. Nat \subseteq S
      BY <3>1, <3>2, AllNumbers
    <3>4. Count(p) \in Nat /\ Count(p) \in 0 .. Count(p)
      BY <1>0
    <3>5. QED
      BY <3>3, <3>4 DEF S
  <2>3. QED
    BY <2>1, <2>2
<1>5. RegularTo(p, Count(p)) = Num(Paths[p], Regular) /\ ReturnTo(p, Count(p)) = Num(Paths[p], Returning)
      /\ BreakTo(p, Count(p)) = Num(Paths[p], Breaking)
  <2>1. UpTo(p, Count(p)) = OverPaths(p)
    <3>0. Len(SubPaths(p)) = Count(p)
      BY <1>0, SubPathsFacts
    <3>1. CASE body[p] = "block"
      BY <3>0, <3>1 DEF OverPaths, PathsOver, UpTo
    <3>2. CASE body[p] \in {"other", "declaration"}
      <4>1. Count(p) = 0
        BY <1>0, <3>2, WidthFacts DEF Count, Leaves
      <4>2. OverPaths(p) = Straight
        BY <3>2 DEF OverPaths, PathsOver
      <4>3. QED
        BY <1>0, <3>2, <4>1, <4>2, UpToStart
    <3>3. QED
      BY <3>1, <3>2
  <2>2. QED
    BY <1>0, <2>1, PathsNumbers DEF RegularTo, ReturnTo, BreakTo
<1>6. QED
  BY <1>3, <1>4, <1>5, Zenon DEF BlockInv, Claim
-----------------------------------------------------------------------------
(* Conditions and loops. *)

\* The paths of S and of T, side by side, are counted apart.
Apart(S, T) == \A e : Num(S \cup T, e) = Num(S, e) + Num(T, e)

\* Paths beside others.
LEMMA BesideAdds ==
  ASSUME NEW S, NEW A, Distinct(S, A), NEW T, NEW B, Distinct(T, B), A \cap B = {},
         Somewhere(S) \/ Somewhere(T)
  PROVE  Apart(S, T)
<1>1. ASSUME NEW e
      PROVE  Distinct(S \cup T, A \cup B) /\ Num(S \cup T, e) = Num(S, e) + Num(T, e)
  BY BesideDistinct
<1>2. QED
  BY <1>1, Zenon DEF Apart

LEMMA RightSum ==
  ASSUME NEW p, NEW r, NEW x, NEW t, NEW b, Right(p, r, x, t, b),
         NEW s, NEW u, NEW v, NEW w, Right(p, s, u, v, w)
  PROVE  Right(p, incrementPathResults(r, s), x + u, t + v, b + w)
<1>1. PICK y, z : Come(r, x, y, z) /\ (Plain => y = t) /\ (NoBreaks(p) => z = b)
  BY Zenon DEF Right
<1>2. PICK k, l : Come(s, u, k, l) /\ (Plain => k = v) /\ (NoBreaks(p) => l = w)
  BY Zenon DEF Right
<1>3. Come(incrementPathResults(r, s), x + u, y + k, z + l)
  BY <1>1, <1>2, ComeThen, Zenon
<1>4. (Plain => y + k = t + v) /\ (NoBreaks(p) => z + l = b + w)
  BY <1>1, <1>2, Zenon
<1>5. QED
  BY <1>3, <1>4, Zenon DEF Right

LEMMA RightConstants ==
  ASSUME NEW p
  PROVE  Right(p, None, 0, 0, 0) /\ Right(p, One, 1, 0, 0)
BY ComeConstants, Zenon DEF Right

\* The paths of an if in numbers: those of its parts that may be entered.
IfNum(p, e) ==
  (IF KnownFalse(p) THEN 0 ELSE Num(SubPaths(p)[1], e))
  + (IF KnownTrue(p) THEN 0
     ELSE IF Count(p) = 1 THEN Num(Straight, e) ELSE Num(SubPaths(p)[2], e))

LEMMA IfNumbers ==
  ASSUME GivenFunction, NEW p \in DOMAIN body, body[p] = "if"
  PROVE  \A e : Num(OverPaths(p), e) = IfNum(p, e)
<1>0. Len(SubPaths(p)) = Count(p)
  BY SubPathsFacts
<1>1. Count(p) \in {1, 2}
  BY WidthFacts DEF Count
<1> DEFINE S == IF KnownFalse(p) THEN {} ELSE SubPaths(p)[1]
           T == IF KnownTrue(p) THEN {} ELSE IF Count(p) = 1 THEN Straight ELSE SubPaths(p)[2]
           A == Tree(At(p, 1))
           B == IF Count(p) = 1 THEN {} ELSE Tree(At(p, 2))
<1>2. OverPaths(p) = S \cup T
  BY <1>0 DEF OverPaths, PathsOver
<1>3. \A n \in 1 .. Count(p) :
        Somewhere(SubPaths(p)[n]) /\ Distinct(SubPaths(p)[n], Tree(At(p, n)))
  <2>1. \A q \in Below(p) : Sound(q)
    BY AllSound DEF Below
  <2>2. QED
    BY <2>1, SubSound
<1>4. Distinct(S, A) /\ Somewhere(S)
  <2>1. 1 \in 1 .. Count(p)
    BY <1>1
  <2>2. Distinct({}, A) /\ Somewhere({})
    BY StraightFacts, SubsetDistinct DEF Somewhere
  <2>3. QED
    BY <1>3, <2>1, <2>2
<1>5. Distinct(T, B)
  <2>1. Distinct({}, B)
    BY StraightFacts, SubsetDistinct
  <2>2. CASE Count(p) = 1
    BY <2>1, <2>2, StraightFacts
  <2>3. CASE Count(p) = 2
    <3>1. 2 \in 1 .. Count(p)
      BY <2>3
    <3>2. QED
      BY <1>3, <2>1, <2>3, <3>1
  <2>4. QED
    BY <1>1, <2>2, <2>3
<1>6. A \cap B = {}
  <2>1. CASE Count(p) = 1
    BY <2>1
  <2>2. CASE Count(p) = 2
    <3>1. 1 \in 1 .. Count(p) /\ 2 \in 1 .. Count(p)
      BY <2>2
    <3>2. QED
      BY <2>2, <3>1, SubstatementFacts
  <2>3. QED
    BY <1>1, <2>1, <2>2
<1>7. \A e : Num(S, e) = (IF KnownFalse(p) THEN 0 ELSE Num(SubPaths(p)[1], e))
  BY StraightFacts, Zenon
<1>8. \A e : Num(T, e) = (IF KnownTrue(p) THEN 0
                          ELSE IF Count(p) = 1 THEN Num(Straight, e) ELSE Num(SubPaths(p)[2], e))
  <2>1. CASE KnownTrue(p)
    BY <2>1, StraightFacts, Zenon
  <2>2. CASE ~ KnownTrue(p) /\ Count(p) = 1
    BY <2>2, Zenon
  <2>3. CASE ~ KnownTrue(p) /\ Count(p) # 1
    BY <2>3, Zenon
  <2>4. QED
    BY <2>1, <2>2, <2>3
<1> HIDE DEF S, T, A, B
<1>9. \A e : Num(S \cup T, e) = Num(S, e) + Num(T, e)
  <2>1. Apart(S, T)
    BY <1>4, <1>5, <1>6, BesideAdds
  <2>2. QED
    BY <2>1, Zenon DEF Apart
<1>10. QED
  BY <1>2, <1>7, <1>8, <1>9, Zenon DEF IfNum

\* What comes with one of the two parts of an if.
LEMMA IfClaim ==
  ASSUME GivenFunction, PlainExits, NEW p, Proper(p), body[p] = "if",
         \A q \in Below(p) : Proper(q) => Claim(q)
  PROVE  Claim(p)
<1>0. p \in DOMAIN body /\ Count(p) \in {1, 2} /\ Len(SubCounts(p)) = Count(p)
  BY WidthFacts, SubCountsFacts DEF Count, Proper
<1>1. ASSUME NEW n \in 1 .. Count(p)
      PROVE  Right(p, SubCounts(p)[n], Num(SubPaths(p)[n], Regular), Num(SubPaths(p)[n], Returning),
                   Num(SubPaths(p)[n], Breaking))
  <2>1. Claim(Substatements(p)[n])
    BY <1>0, SubProper, SubstatementFacts
  <2>2. QED
    BY <1>0, <2>1, SubRight
<1>2. PICK a, b : /\ a = (IF KnownFalse(p) THEN None ELSE SubCounts(p)[1])
                  /\ b = (IF KnownTrue(p) THEN None ELSE IF Len(SubCounts(p)) = 1 THEN One
                          ELSE SubCounts(p)[2])
  OBVIOUS
<1>3. getPathCount[p] = incrementPathResults(a, b)
  <2>1. getPathCount[p] = getIfPathCount(p, SubCounts(p))
    BY <1>0, SubCountsFacts DEF Combined
  <2>2. QED
    BY <1>2, <2>1, Zenon DEF getIfPathCount
<1> DEFINE U(e) == IF KnownFalse(p) THEN 0 ELSE Num(SubPaths(p)[1], e)
           V(e) == IF KnownTrue(p) THEN 0
                   ELSE IF Count(p) = 1 THEN Num(Straight, e) ELSE Num(SubPaths(p)[2], e)
<1>4. Right(p, a, U(Regular), U(Returning), U(Breaking))
  <2>1. 1 \in 1 .. Count(p)
    BY <1>0
  <2>2. CASE KnownFalse(p)
    BY <1>2, <2>2, RightConstants, Zenon
  <2>3. CASE ~ KnownFalse(p)
    BY <1>1, <1>2, <2>1, <2>3, Zenon
  <2>4. QED
    BY <2>2, <2>3
<1>5. Right(p, b, V(Regular), V(Returning), V(Breaking))
  <2>1. CASE KnownTrue(p)
    BY <1>2, <2>1, RightConstants, Zenon
  <2>2. CASE ~ KnownTrue(p) /\ Count(p) = 1
    <3>1. Num(Straight, Regular) = 1 /\ Num(Straight, Returning) = 0 /\ Num(Straight, Breaking) = 0
      BY StraightFacts DEF Regular, Returning, Breaking
    <3>2. QED
      BY <1>0, <1>2, <2>2, <3>1, RightConstants, Zenon
  <2>3. CASE ~ KnownTrue(p) /\ Count(p) # 1
    <3>1. 2 \in 1 .. Count(p)
      BY <1>0, <2>3
    <3>2. QED
      BY <1>0, <1>1, <1>2, <2>3, <3>1, Zenon
  <2>4. QED
    BY <2>1, <2>2, <2>3
<1> HIDE DEF U, V
<1>6. Right(p, incrementPathResults(a, b), U(Regular) + V(Regular), U(Returning) + V(Returning),
            U(Breaking) + V(Breaking))
  BY <1>4, <1>5, RightSum, Zenon
<1>7. \A e : Num(Paths[p], e) = U(e) + V(e)
  BY <1>0, IfNumbers, PathsNumbers, Zenon DEF IfNum, U, V
<1>8. QED
  BY <1>3, <1>6, <1>7, Zenon DEF Claim

\* The body of a loop that has no loop left by break in it.
LEMMA LoopSub ==
  ASSUME GivenFunction, PlainExits, NEW p, Proper(p), body[p] \in Loops,
         \A q \in Below(p) : Proper(q) => Claim(q),
         NEW a, a = Num(SubPaths(p)[1], Regular), NEW b, b = Num(SubPaths(p)[1], Returning),
         NEW c, c = Num(SubPaths(p)[1], Breaking)
  PROVE  /\ \E v : Come(SubCounts(p)[1], a, v, c) /\ (Plain => v = b)
         /\ a \in Nat /\ b \in Nat /\ c \in Nat
         /\ ~ LeftByBreak(p) => c = 0
<1>0. p \in DOMAIN body /\ Count(p) = 1 /\ 1 \in 1 .. Count(p)
  <2>1. p \in DOMAIN body /\ Width(p) = 1 /\ body[p] # "switch"
    BY WidthFacts DEF Proper, Loops
  <2>2. Count(p) = 1
    BY <2>1 DEF Count
  <2>3. QED
    BY <2>1, <2>2
<1>1. PICK q : q = Append(p, 1)
  OBVIOUS
<1>2. Substatements(p)[1] = q /\ q \in Below(p) /\ q \in DOMAIN body
  <2>1. body[p] # "switch"
    BY DEF Loops
  <2>2. /\ Substatements(p)[1] = IF body[p] = "switch" THEN Labelled(At(p, 1)) ELSE At(p, 1)
        /\ Substatements(p)[1] \in Below(p) /\ Substatements(p)[1] \in DOMAIN body
    BY <1>0, SubstatementFacts
  <2>3. At(p, 1) = Append(p, 1)
    BY <2>1 DEF At
  <2>4. QED
    BY <1>1, <2>1, <2>2, <2>3
<1>3. Claim(q)
  BY <1>0, <1>2, SubProper
<1>4. NoBreaks(q)
  <2>1. Tree(q) \subseteq Below(p)
    BY <1>0, <1>2, SubstatementFacts
  <2>2. QED
    BY <1>0, <2>1 DEF PlainExits, NoBreaks
<1>5. SubCounts(p)[1] = getPathCount[q] /\ SubPaths(p)[1] = Paths[q]
  BY <1>0, <1>2, SubCountsFacts, SubPathsFacts
<1>6. PICK y, z : Come(getPathCount[q], Num(Paths[q], Regular), y, z)
                    /\ (Plain => y = Num(Paths[q], Returning))
                    /\ (NoBreaks(q) => z = Num(Paths[q], Breaking))
  BY <1>3, Zenon DEF Claim, Right
<1>7. \E v : Come(SubCounts(p)[1], a, v, c) /\ (Plain => v = b)
  BY <1>4, <1>5, <1>6, Zenon
<1>8. a \in Nat /\ b \in Nat /\ c \in Nat
  BY <1>2, <1>5, PathsNumbers
<1>9. ASSUME ~ LeftByBreak(p) PROVE c = 0
  <2>1. ~ MayEnd(q, {"break", "continue"})
    BY <1>1, <1>9 DEF LeftByBreak
  <2>2. Ending(Paths[q], Breaking) = {}
    BY <2>1 DEF MayEnd, Ending, Breaking
  <2>3. QED
    BY <1>5, <2>2, FS_EmptySet DEF Num
<1>10. QED
  BY <1>7, <1>8, <1>9

LEMMA IteratedNumbers ==
  ASSUME NEW S, NEW A, Distinct(S, A), Somewhere(S)
  PROVE  /\ Distinct(Iterated(S), A) /\ Somewhere(Iterated(S))
         /\ Num(Iterated(S), Regular) = Num(S, Regular) + Num(S, Breaking)
         /\ Num(Iterated(S), Returning) = Num(S, Returning) /\ Num(Iterated(S), Breaking) = 0
         /\ Num(Iterated(S) \cup Straight, Regular) = Num(Iterated(S), Regular) + 1
         /\ Num(Iterated(S) \cup Straight, Returning) = Num(Iterated(S), Returning)
         /\ Num(Iterated(S) \cup Straight, Breaking) = 0
<1> DEFINE X == Iterated(S)
<1>1. \A e : /\ Distinct(X, A) /\ Somewhere(X)
             /\ Num(X, e) = Num(S, (e \ Breaking) \cup (IF "regular" \in e THEN Breaking ELSE {}))
  BY EndsDistinct DEF Iterated, Breaking
<1>2. /\ (Regular \ Breaking) \cup (IF "regular" \in Regular THEN Breaking ELSE {}) = Regular \cup Breaking
      /\ (Returning \ Breaking) \cup (IF "regular" \in Returning THEN Breaking ELSE {}) = Returning
      /\ (Breaking \ Breaking) \cup (IF "regular" \in Breaking THEN Breaking ELSE {}) = {}
      /\ Regular \cap Breaking = {}
  BY DEF Regular, Breaking, Returning
<1>3. IsFiniteSet(S) /\ Distinct(X, A) /\ Somewhere(X)
  BY <1>1 DEF Distinct
<1>4. Num(S, Regular \cup Breaking) = Num(S, Regular) + Num(S, Breaking)
  BY <1>2, <1>3, NumSplit
<1>5. /\ Num(X, Regular) = Num(S, Regular) + Num(S, Breaking)
      /\ Num(X, Returning) = Num(S, Returning) /\ Num(X, Breaking) = 0
  BY <1>1, <1>2, <1>4, NumNothing, Zenon
<1> HIDE DEF X
<1>6. \A e : Num(X \cup Straight, e) = Num(X, e) + Num(Straight, e)
  <2>1. Distinct(Straight, {}) /\ A \cap {} = {}
    BY StraightFacts
  <2>2. Apart(X, Straight)
    BY <1>3, <2>1, BesideAdds
  <2>3. QED
    BY <2>2, Zenon DEF Apart
<1>7. Num(Straight, Regular) = 1 /\ Num(Straight, Returning) = 0 /\ Num(Straight, Breaking) = 0
  BY StraightFacts DEF Regular, Returning, Breaking
<1>8. IsFiniteSet(X)
  BY <1>3 DEF Distinct
<1>9. Num(X, Returning) \in Nat /\ Num(X, Breaking) \in Nat
  BY <1>8, NumType
<1>10. Num(X, Returning) + 0 = Num(X, Returning) /\ Num(X, Breaking) + 0 = Num(X, Breaking)
  BY <1>9
<1>11. QED
  BY <1>3, <1>5, <1>6, <1>7, <1>10, Zenon DEF X

\* A loop counts the paths that leave it by break as regular ones.
LEMMA LoopLeftRight ==
  ASSUME GivenFunction, PlainExits, NEW p, Proper(p), body[p] \in Loops,
         \A q \in Below(p) : Proper(q) => Claim(q),
         NEW a, a = Num(SubPaths(p)[1], Regular), NEW b, b = Num(SubPaths(p)[1], Returning),
         NEW c, c = Num(SubPaths(p)[1], Breaking)
  PROVE  Right(p, LoopLeft(SubCounts(p)[1]), a + c, b, 0)
<1>1. PICK s : s = SubCounts(p)[1]
  OBVIOUS
<1>2. PICK v : Come(s, a, v, c) /\ (Plain => v = b)
  BY <1>1, LoopSub
<1>3. a \in Nat /\ b \in Nat /\ c \in Nat /\ (~ LeftByBreak(p) => c = 0)
  BY LoopSub
<1>4. /\ s.regular \in Nat /\ s.return \in Nat /\ s.break \in Nat /\ v \in Nat
      /\ Same(s.regular, a) /\ Same(s.return, v) /\ Same(s.break, c)
  BY <1>2 DEF Come, Numbers
<1>5. Same(s.regular + s.break, a + c) /\ a + c \in Nat /\ s.regular + s.break \in Nat
  <2>1. Same(s.regular + s.break, a + c)
    BY <1>3, <1>4, SameSum
  <2>2. a + c \in Nat /\ s.regular + s.break \in Nat
    BY <1>3, <1>4
  <2>3. QED
    BY <2>1, <2>2
<1>6. Come(PathResults(s.regular + s.break, s.return, s.break), a + c, v, c)
  BY <1>3, <1>4, <1>5, ComeTo
<1>7. NoBreaks(p) => c = 0
  <2>1. p \in Tree(p)
    BY TreeBelow DEF Proper
  <2>2. QED
    BY <1>3, <2>1 DEF NoBreaks
<1>8. Come(LoopLeft(s), a + c, v, c)
  BY <1>6, Zenon DEF LoopLeft
<1>9. QED
  BY <1>1, <1>2, <1>7, <1>8, Zenon DEF Right

LEMMA LoopClaim ==
  ASSUME GivenFunction, PlainExits, NEW p, Proper(p), body[p] \in Loops,
         \A q \in Below(p) : Proper(q) => Claim(q)
  PROVE  Claim(p)
<1>0. p \in DOMAIN body /\ getPathCount[p] = Combined(p, SubCounts(p))
  BY SubCountsFacts DEF Proper
<1>1. PICK a, b, c, s, S : /\ a = Num(S, Regular) /\ b = Num(S, Returning) /\ c = Num(S, Breaking)
                           /\ S = SubPaths(p)[1] /\ s = SubCounts(p)[1]
  OBVIOUS
<1>2. Right(p, LoopLeft(s), a + c, b, 0)
  BY <1>1, LoopLeftRight
<1>3. Right(p, One, 1, 0, 0)
  BY RightConstants
<1>4. a \in Nat /\ b \in Nat /\ c \in Nat
  BY <1>1, LoopSub
<1>5. Right(p, incrementPathResults(LoopLeft(s), One), a + c + 1, b, 0)
  <2>1. Right(p, incrementPathResults(LoopLeft(s), One), (a + c) + 1, b + 0, 0 + 0)
    BY <1>2, <1>3, RightSum
  <2>2. (a + c) + 1 = a + c + 1 /\ b + 0 = b /\ 0 + 0 = 0
    BY <1>4
  <2>3. QED
    BY <2>1, <2>2, Zenon
<1>6. /\ Num(Iterated(S), Regular) = a + c /\ Num(Iterated(S), Returning) = b
      /\ Num(Iterated(S), Breaking) = 0
      /\ Num(Iterated(S) \cup Straight, Regular) = a + c + 1
      /\ Num(Iterated(S) \cup Straight, Returning) = b
      /\ Num(Iterated(S) \cup Straight, Breaking) = 0
  <2>1. \A q \in Below(p) : Sound(q)
    BY AllSound DEF Below
  <2>2. 1 \in 1 .. Count(p)
    <3>1. Width(p) = 1 /\ body[p] # "switch"
      BY <1>0, WidthFacts DEF Loops
    <3>2. Count(p) = 1
      BY <3>1 DEF Count
    <3>3. QED
      BY <3>2
  <2>3. Distinct(S, Below(p)) /\ Somewhere(S)
    BY <1>0, <1>1, <2>1, <2>2, SubSound
  <2>4. QED
    BY <1>1, <2>3, IteratedNumbers, Zenon
<1>7. Num(Straight, Regular) = 1 /\ Num(Straight, Returning) = 0 /\ Num(Straight, Breaking) = 0
  BY StraightFacts DEF Regular, Returning, Breaking
<1>8. ASSUME NEW X, OverPaths(p) = X,
             Right(p, getPathCount[p], Num(X, Regular), Num(X, Returning), Num(X, Breaking))
      PROVE  Claim(p)
  BY <1>0, <1>8, PathsNumbers, Zenon DEF Claim
<1>9. CASE body[p] = "while" /\ KnownFalse(p)
  <2>1. getPathCount[p] = One
    BY <1>0, <1>9 DEF Combined
  <2>2. OverPaths(p) = Straight
    BY <1>9 DEF OverPaths, PathsOver, KnownFalse, KnownTrue
  <2>3. QED
    BY <1>3, <1>7, <1>8, <2>1, <2>2, Zenon
<1>10. CASE body[p] = "while" /\ KnownTrue(p)
  <2>0. ~ KnownFalse(p)
    BY <1>10 DEF KnownFalse, KnownTrue
  <2>1. getPathCount[p] = LoopLeft(s)
    BY <1>0, <1>1, <1>10, <2>0 DEF Combined, NotEntered
  <2>2. OverPaths(p) = Iterated(S)
    BY <1>1, <1>10, <2>0 DEF OverPaths, PathsOver
  <2>3. QED
    BY <1>2, <1>6, <1>8, <2>1, <2>2, Zenon
<1>11. CASE body[p] = "while" /\ ~ KnownTrue(p) /\ ~ KnownFalse(p)
  <2>1. getPathCount[p] = incrementPathResults(LoopLeft(s), One)
    BY <1>0, <1>1, <1>11 DEF Combined, NotEntered
  <2>2. OverPaths(p) = Iterated(S) \cup Straight
    BY <1>1, <1>11 DEF OverPaths, PathsOver
  <2>3. QED
    BY <1>5, <1>6, <1>8, <2>1, <2>2, Zenon
<1>12. CASE body[p] = "for"
  <2>1. getPathCount[p] = incrementPathResults(LoopLeft(s), One)
    BY <1>0, <1>1, <1>12 DEF Combined
  <2>2. OverPaths(p) = Iterated(S) \cup Straight
    BY <1>1, <1>12 DEF OverPaths, PathsOver
  <2>3. QED
    BY <1>5, <1>6, <1>8, <2>1, <2>2, Zenon
<1>13. CASE body[p] = "do"
  <2>1. getPathCount[p] = s
    BY <1>0, <1>1, <1>13 DEF Combined
  <2>2. OverPaths(p) = Iterated(S)
    BY <1>1, <1>13 DEF OverPaths, PathsOver
  <2>3. PICK v : Come(s, a, v, c) /\ (Plain => v = b)
    BY <1>1, LoopSub
  <2>4. c = 0
    <3>1. ~ LeftByBreak(p)
      BY <1>0, <1>13 DEF PlainExits
    <3>2. QED
      BY <1>1, <3>1, LoopSub
  <2>5. a + c = a
    BY <1>4, <2>4
  <2>6. Right(p, s, a + c, b, 0)
    BY <2>3, <2>4, <2>5, Zenon DEF Right
  <2>7. QED
    BY <1>6, <1>8, <2>1, <2>2, <2>6, Zenon
<1>14. QED
  BY <1>9, <1>10, <1>11, <1>12, <1>13 DEF Loops

LEMMA LeafClaim ==
  ASSUME GivenFunction, PlainExits, NEW p, Proper(p), body[p] \in {"return", "break", "continue"}
  PROVE  Claim(p)
<1>0. p \in DOMAIN body /\ getPathCount[p] = Combined(p, SubCounts(p))
  BY SubCountsFacts DEF Proper
<1>1. CASE body[p] = "return"
  <2>1. getPathCount[p] = PathResults(0, 1, 0)
    BY <1>0, <1>1 DEF Combined
  <2>2. Num(Paths[p], Regular) = 0 /\ Num(Paths[p], Returning) = 1 /\ Num(Paths[p], Breaking) = 0
    BY <1>0, <1>1, LeafNumbers
  <2>3. QED
    BY <2>1, <2>2, ComeConstants, Zenon DEF Claim, Right
<1>2. CASE body[p] \in {"break", "continue"}
  <2>1. getPathCount[p] = PathResults(0, 0, 1)
    BY <1>0, <1>2 DEF Combined, Loops
  <2>2. Num(Paths[p], Regular) = 0 /\ Num(Paths[p], Returning) = 0 /\ Num(Paths[p], Breaking) = 1
    BY <1>0, <1>2, LeafNumbers
  <2>3. QED
    BY <2>1, <2>2, ComeConstants, Zenon DEF Claim, Right
<1>3. QED
  BY <1>1, <1>2
-----------------------------------------------------------------------------
(* Switches. *)

\* What the walk over a switch has after the n-th statement.
SwitchAt(p, n) == SwitchUpTo(p, SubCounts(p))[n]

LEMMA CaseEndFacts ==
  ASSUME NEW a, NEW b, Numbers(a), Numbers(b)
  PROVE  /\ Numbers(CaseEnd(a, b)) /\ a.regular + 1 \in Nat
         /\ Same(CaseEnd(a, b).regular, b.regular * (a.regular + 1))
         /\ Same(CaseEnd(a, b).return, b.return * (a.regular + 1))
         /\ Same(CaseEnd(a, b).break, b.break * (a.regular + 1))
<1>1. /\ a.regular \in Nat /\ b.regular \in Nat /\ b.return \in Nat /\ b.break \in Nat
  BY DEF Numbers
<1>2. PICK m \in Nat : m = a.regular + 1
  BY <1>1
<1>3. b.regular * m \in Nat /\ b.return * m \in Nat /\ b.break * m \in Nat
  BY <1>1
<1>4. CaseEnd(a, b) = PathResults(b.regular * m, b.return * m, b.break * m)
  BY <1>2, Zenon DEF CaseEnd, Scaled
<1>5. PICK r : r = PathResults(b.regular * m, b.return * m, b.break * m)
  OBVIOUS
<1>6. /\ Numbers(r) /\ Same(r.regular, b.regular * m) /\ Same(r.return, b.return * m)
      /\ Same(r.break, b.break * m)
  BY <1>3, <1>5, PathResultsFacts, Zenon
<1>7. QED
  BY <1>2, <1>4, <1>5, <1>6, Zenon

LEMMA Scale ==
  ASSUME NEW c \in Nat, NEW x \in Nat, NEW r \in Nat, NEW m \in Nat, NEW u \in Nat,
         Same(c, x * r), Same(x * m, u)
  PROVE  Same(c * m, u * r)
<1>1. Same(m, m) /\ Same(r, r)
  BY SameFacts
<1>2. x * r \in Nat /\ x * m \in Nat /\ c * m \in Nat /\ u * r \in Nat
  BY SMT
<1>3. Same(c * m, (x * r) * m)
  BY <1>1, <1>2, SameProduct
<1>4. Same((x * m) * r, u * r)
  BY <1>1, <1>2, SameProduct
<1>5. (x * r) * m = (x * m) * r /\ (x * r) * m \in Nat
  <2>1. (x * r) * m = (x * m) * r
    OBVIOUS
  <2>2. (x * r) * m \in Nat
    BY <1>2
  <2>3. QED
    BY <2>1, <2>2
<1>6. PICK k \in Nat : k = (x * r) * m
  BY <1>5
<1>7. Same(c * m, k) /\ Same(k, u * r)
  BY <1>3, <1>4, <1>5, <1>6, Zenon
<1>8. QED
  BY <1>2, <1>7, SameFacts

\* The case with the numbers x is entered in u ways, P being what falls through to it.
Keyed(P, x, u) == Numbers(P) /\ Numbers(x) /\ Same(x.regular * (P.regular + 1), u)

\* By how many paths the n-th statement of a switch is entered, as the code has it.
LEMMA SwitchKey ==
  ASSUME NEW prev, Numbers(prev), NEW curr, Numbers(curr), NEW t \in Nat,
         NEW complete \in BOOLEAN, NEW starts \in BOOLEAN,
         complete => Same(t, 0) /\ Same(prev.regular, 0) /\ Same(curr.regular, 0),
         ~ complete => Same(curr.regular * (prev.regular + 1), t),
         NEW P, P = IF starts /\ ~ complete THEN CaseEnd(prev, curr) ELSE prev,
         NEW x, x = IF starts THEN One ELSE curr,
         NEW E, E = IF starts THEN 1 ELSE 0
  PROVE  Keyed(P, x, t + E)
<1>0. /\ Numbers(One) /\ Same(One.regular, 1)
  BY ComeConstants DEF Come
<1>1. prev.regular \in Nat /\ curr.regular \in Nat /\ One.regular \in Nat
  BY <1>0 DEF Numbers
<1>2. Numbers(P) /\ Numbers(x)
  BY <1>0, CaseEndFacts
<1>3. P.regular \in Nat /\ x.regular \in Nat /\ P.regular + 1 \in Nat
  <2>1. P.regular \in Nat /\ x.regular \in Nat
    BY <1>2 DEF Numbers
  <2>2. QED
    BY <2>1
<1>4. Same(1, 1) /\ 1 \in Nat /\ 0 \in Nat
  BY SameFacts
<1>5. CASE starts
  <2>1. Same(P.regular, t)
    <3>1. CASE complete
      <4>1. Same(prev.regular, 0) /\ Same(0, t) /\ P = prev
        BY <1>4, <1>5, <3>1, SameFacts
      <4>2. QED
        BY <1>1, <1>4, <4>1, SameFacts
    <3>2. CASE ~ complete
      <4>1. P = CaseEnd(prev, curr)
        BY <1>5, <3>2
      <4>2. PICK k \in Nat : k = curr.regular * (prev.regular + 1)
        <5>1. prev.regular + 1 \in Nat
          BY <1>1
        <5>2. QED
          BY <1>1, <5>1
      <4>3. Same(P.regular, k) /\ Same(k, t)
        BY <3>2, <4>1, <4>2, CaseEndFacts, Zenon
      <4>4. QED
        BY <1>3, <4>3, SameFacts
    <3>3. QED
      BY <3>1, <3>2
  <2>2. Same(P.regular + 1, t + 1)
    BY <1>3, <1>4, <2>1, SameSum
  <2>3. Same(x.regular, 1)
    BY <1>0, <1>5
  <2>4. t + 1 \in Nat /\ 1 * (t + 1) = t + 1 /\ E = 1
    BY <1>5
  <2>5. Same(x.regular * (P.regular + 1), 1 * (t + 1))
    BY <1>3, <1>4, <2>2, <2>3, <2>4, SameProduct
  <2>6. QED
    BY <1>2, <2>4, <2>5, Zenon DEF Keyed
<1>6. CASE ~ starts
  <2>1. P = prev /\ x = curr /\ E = 0 /\ t + E = t
    BY <1>6
  <2>2. CASE ~ complete
    BY <1>2, <2>1, <2>2, Zenon DEF Keyed
  <2>3. CASE complete
    <3>1. Same(x.regular, 0) /\ Same(P.regular + 1, P.regular + 1) /\ Same(0, t)
      BY <1>3, <1>4, <2>1, <2>3, SameFacts
    <3>2. Same(x.regular * (P.regular + 1), 0 * (P.regular + 1))
      BY <1>3, <1>4, <3>1, SameProduct
    <3>3. 0 * (P.regular + 1) = 0 /\ x.regular * (P.regular + 1) \in Nat
      BY <1>3
    <3>4. Same(x.regular * (P.regular + 1), t)
      BY <1>4, <3>1, <3>2, <3>3, SameFacts
    <3>5. QED
      BY <1>2, <2>1, <3>4, Zenon DEF Keyed
  <2>4. QED
    BY <2>2, <2>3
<1>7. QED
  BY <1>5, <1>6

\* The numbers of the current case after one more statement.
LEMMA CurrentFacts ==
  ASSUME NEW x, Numbers(x), NEW sub, Numbers(sub), NEW r \in Nat, NEW b \in Nat, NEW v \in Nat,
         Same(sub.regular, r), Same(sub.break, b), Same(sub.return, v),
         NEW y, y = Then(x, sub)
  PROVE  /\ Numbers(y) /\ Same(y.regular, x.regular * r)
         /\ Same(x.break, 0) => Same(y.break, x.regular * b)
         /\ Same(x.return, 0) => Same(y.return, x.regular * v)
<1>1. PICK g \in Nat, h \in Nat, k \in Nat : g = x.regular /\ h = x.return /\ k = x.break
  BY DEF Numbers
<1>2. Same(g, g) /\ Same(h, h) /\ Same(k, k) /\ 0 \in Nat
  BY SameFacts
<1>3. Come(x, g, h, k) /\ Come(sub, r, v, b)
  BY <1>1, <1>2 DEF Come
<1>4. Come(y, g * r, h + g * v, k + g * b)
  BY <1>3, ComeThen, Zenon
<1>5. Numbers(y) /\ Same(y.regular, g * r) /\ Same(y.return, h + g * v) /\ Same(y.break, k + g * b)
      /\ y.return \in Nat /\ y.break \in Nat /\ h + g * v \in Nat /\ k + g * b \in Nat
  BY <1>4 DEF Come, Numbers
<1>6. g * v \in Nat /\ g * b \in Nat
  BY SMT
<1>7. Same(g * v, g * v) /\ Same(g * b, g * b) /\ 0 + g * v = g * v /\ 0 + g * b = g * b
  BY <1>6, SameFacts
<1>8. ASSUME Same(k, 0) PROVE Same(y.break, g * b)
  <2>1. Same(k + g * b, 0 + g * b)
    BY <1>2, <1>6, <1>7, <1>8, SameSum
  <2>2. Same(k + g * b, g * b)
    BY <1>7, <2>1, Zenon
  <2>3. QED
    BY <1>5, <1>6, <2>2, SameFacts
<1>9. ASSUME Same(h, 0) PROVE Same(y.return, g * v)
  <2>1. Same(h + g * v, 0 + g * v)
    BY <1>2, <1>6, <1>7, <1>9, SameSum
  <2>2. Same(h + g * v, g * v)
    BY <1>7, <2>1, Zenon
  <2>3. QED
    BY <1>5, <1>6, <2>2, SameFacts
<1>10. QED
  BY <1>1, <1>5, <1>8, <1>9, Zenon

\* The outcome o of a step of that walk, case by case.
SwitchOutcome(acc, starts, sub, P, x, o) ==
  /\ o.curr = Then(x, sub) /\ o.complete \in BOOLEAN
  /\ sub.regular = 0 =>
       o.sum = incrementPathResults(acc.sum, CaseEnd(P, o.curr)) /\ o.prev = None /\ o.complete
  /\ sub.regular # 0 =>
       o.sum = acc.sum /\ o.prev = P /\ (o.complete <=> acc.complete /\ ~ starts)

LEMMA SwitchCases ==
  ASSUME NEW acc, acc.complete \in BOOLEAN, NEW starts \in BOOLEAN, NEW sub,
         NEW o, o = SwitchStep(acc, starts, sub),
         NEW P, P = IF starts /\ ~ acc.complete THEN CaseEnd(acc.prev, acc.curr) ELSE acc.prev,
         NEW x, x = IF starts THEN One ELSE acc.curr
  PROVE  SwitchOutcome(acc, starts, sub, P, x, o)
<1>1. PICK d : d = (sub.regular = 0 \/ (acc.complete /\ ~ starts))
  OBVIOUS
<1>2. d \in BOOLEAN
  BY <1>1, Zenon
<1>3. o = [sum |-> IF sub.regular = 0 THEN incrementPathResults(acc.sum, CaseEnd(P, Then(x, sub)))
                   ELSE acc.sum,
           prev |-> IF sub.regular = 0 THEN None ELSE P,
           curr |-> Then(x, sub),
           complete |-> d]
  BY <1>1, Zenon DEF SwitchStep
<1>4. /\ o.sum = IF sub.regular = 0 THEN incrementPathResults(acc.sum, CaseEnd(P, Then(x, sub)))
                 ELSE acc.sum
      /\ o.prev = IF sub.regular = 0 THEN None ELSE P
      /\ o.curr = Then(x, sub)
      /\ o.complete = d
  BY <1>3
<1>5. CASE sub.regular = 0
  <2>1. d = TRUE
    BY <1>1, <1>2, <1>5, Zenon
  <2>2. o.complete = TRUE
    BY <1>4, <2>1, Zenon
  <2>3. QED
    BY <1>4, <1>5, <2>2, Zenon DEF SwitchOutcome
<1>6. CASE sub.regular # 0
  <2>1. d <=> acc.complete /\ ~ starts
    BY <1>1, <1>6, Zenon
  <2>2. o.complete <=> acc.complete /\ ~ starts
    BY <1>4, <2>1, Zenon
  <2>3. o.complete \in BOOLEAN
    BY <1>2, <1>4, Zenon
  <2>4. QED
    BY <1>4, <1>6, <2>2, <2>3, Zenon DEF SwitchOutcome
<1>7. QED
  BY <1>5, <1>6

\* What is right of a statement of a switch.
LEMMA SwitchSub ==
  ASSUME GivenFunction, PlainExits, NEW p, Proper(p), body[p] = "switch",
         \A q \in Below(p) : Proper(q) => Claim(q), NEW n \in 1 .. Count(p),
         NEW r, r = Num(SubPaths(p)[n], Regular), NEW t, t = Num(SubPaths(p)[n], Returning),
         NEW b, b = Num(SubPaths(p)[n], Breaking)
  PROVE  /\ \E v : Come(SubCounts(p)[n], r, v, b) /\ (Plain => v = t)
         /\ r \in Nat /\ t \in Nat /\ b \in Nat
<1>0. p \in DOMAIN body
  BY DEF Proper
<1>1. PICK q : q = Substatements(p)[n]
  OBVIOUS
<1>2. q \in Below(p) /\ q \in DOMAIN body
  BY <1>0, <1>1, SubstatementFacts
<1>3. Claim(q)
  BY <1>1, <1>2, SubProper
<1>4. NoBreaks(q)
  <2>1. Tree(q) \subseteq Tree(At(p, n)) /\ Tree(At(p, n)) \subseteq Below(p)
    BY <1>0, <1>1, SubstatementFacts
  <2>2. QED
    BY <1>0, <2>1 DEF PlainExits, NoBreaks
<1>5. SubCounts(p)[n] = getPathCount[q] /\ SubPaths(p)[n] = Paths[q]
  BY <1>0, <1>1, SubCountsFacts, SubPathsFacts
<1>6. PICK y, z : Come(getPathCount[q], Num(Paths[q], Regular), y, z)
                    /\ (Plain => y = Num(Paths[q], Returning))
                    /\ (NoBreaks(q) => z = Num(Paths[q], Breaking))
  BY <1>3, Zenon DEF Claim, Right
<1>7. \E v : Come(SubCounts(p)[n], r, v, b) /\ (Plain => v = t)
  BY <1>4, <1>5, <1>6, Zenon
<1>8. r \in Nat /\ t \in Nat /\ b \in Nat
  BY <1>2, <1>5, PathsNumbers
<1>9. QED
  BY <1>7, <1>8

\* The cases of a plain switch, in numbers of paths.
LEMMA CaseFacts ==
  ASSUME GivenFunction, PlainExits, NEW p \in DOMAIN body, body[p] = "switch", NEW n \in 1 .. Count(p)
  PROVE  /\ n = 1 => Starts(p, n)
         /\ Num(SubPaths(p)[n], {"continue"}) = 0
         /\ \/ Num(SubPaths(p)[n], Returning) = 0 /\ Num(SubPaths(p)[n], Breaking) = 0
            \/ Num(SubPaths(p)[n], Regular) = 0 /\ (n + 1 \in 1 .. Count(p) => Starts(p, n + 1))
<1>1. PICK S : S = SubPaths(p)[n]
  OBVIOUS
<1>2. S = Paths[Substatements(p)[n]] /\ DOMAIN Substatements(p) = 1 .. Count(p)
  BY <1>1, SubPathsFacts, SubstatementFacts
<1>3. PICK ends : ends = {x.end : x \in S}
  OBVIOUS
<1>4. /\ n = 1 => Starts(p, n)
      /\ "continue" \notin ends
      /\ \/ ends \subseteq {"regular"}
         \/ "regular" \notin ends /\ (n + 1 \in 1 .. Count(p) => Starts(p, n + 1))
  BY <1>2, <1>3 DEF PlainExits, PlainCases
<1>5. ASSUME NEW e, ends \cap e = {} PROVE Num(S, e) = 0
  <2>1. Ending(S, e) = {}
    BY <1>3, <1>5 DEF Ending
  <2>2. QED
    BY <2>1, FS_EmptySet DEF Num
<1>6. Num(S, {"continue"}) = 0
  BY <1>4, <1>5
<1>7. CASE ends \subseteq {"regular"}
  <2>1. ends \cap Returning = {} /\ ends \cap Breaking = {}
    BY <1>7 DEF Returning, Breaking
  <2>2. Num(S, Returning) = 0 /\ Num(S, Breaking) = 0
    BY <1>5, <2>1
  <2>3. QED
    BY <1>1, <1>4, <1>6, <2>2
<1>8. CASE "regular" \notin ends /\ (n + 1 \in 1 .. Count(p) => Starts(p, n + 1))
  <2>1. ends \cap Regular = {}
    BY <1>8 DEF Regular
  <2>2. Num(S, Regular) = 0
    BY <1>5, <2>1
  <2>3. QED
    BY <1>1, <1>4, <1>6, <1>8, <2>2
<1>9. QED
  BY <1>4, <1>7, <1>8

\* No path of a plain switch continues a loop outside.
LEMMA NoneContinues ==
  ASSUME GivenFunction, PlainExits, NEW p \in DOMAIN body, body[p] = "switch"
  PROVE  Num(UpTo(p, Count(p)), {"continue"}) = 0
<1> DEFINE S == {n \in Nat : n \in 0 .. Count(p) => Num(UpTo(p, n), {"continue"}) = 0}
<1>0. Count(p) \in Nat
  BY SubstatementFacts
<1>1. 0 \in S
  <2>1. UpTo(p, 0) = {}
    BY UpToStart
  <2>2. QED
    BY <2>1, StraightFacts
<1>2. ASSUME NEW n \in Nat, n \in S PROVE n + 1 \in S
  <2>1. CASE n + 1 \in 0 .. Count(p)
    <3>1. n + 1 \in 1 .. Count(p) /\ n \in 0 .. Count(p) /\ (n + 1) - 1 = n
      BY <1>0, <2>1
    <3>2. Num(UpTo(p, n), {"continue"}) = 0
      BY <1>2, <3>1
    <3>3. Counted(p, n + 1)
      <4>1. \A q \in Below(p) : Sound(q)
        BY AllSound DEF Below
      <4>2. QED
        BY <3>1, <4>1, UpToFacts
    <3>4. PICK u : u = Num(UpTo(p, n), Regular) + Entry(p, n + 1)
      OBVIOUS
    <3>5. u \in Nat
      <4>1. RegularTo(p, (n + 1) - 1) \in Nat /\ Entry(p, n + 1) \in {0, 1}
        BY <3>1, CountedThree
      <4>2. RegularTo(p, n) \in Nat
        BY <3>1, <4>1, Zenon
      <4>3. QED
        BY <3>4, <4>1, <4>2 DEF RegularTo
    <3>6. {"continue"} \ Regular = {"continue"}
      BY DEF Regular
    <3>7. Num(UpTo(p, n + 1), {"continue"}) = 0 + u * Num(SubPaths(p)[n + 1], {"continue"})
      BY <3>1, <3>2, <3>3, <3>4, <3>6, Zenon DEF Counted
    <3>8. Num(SubPaths(p)[n + 1], {"continue"}) = 0
      BY <3>1, CaseFacts
    <3>9. 0 + u * 0 = 0
      BY <3>5
    <3>10. Num(UpTo(p, n + 1), {"continue"}) = 0
      BY <3>7, <3>8, <3>9, Zenon
    <3>11. QED
      BY <3>10
  <2>2. CASE n + 1 \notin 0 .. Count(p)
    BY <2>2
  <2>3. QED
    BY <2>1, <2>2
<1> HIDE DEF S
<1>3. Nat \subseteq S
  BY <1>1, <1>2, AllNumbers
<1>4. Count(p) \in Nat /\ Count(p) \in 0 .. Count(p)
  BY <1>0
<1>5. QED
  BY <1>3, <1>4 DEF S

\* Do the numbers in r come to x and b, and where the code promises it, to t?
Exact(r, x, t, b) ==
  Numbers(r) /\ Same(r.regular, x) /\ (Plain => Same(r.return, t)) /\ Same(r.break, b)

\* What the walk over the body of a switch has, when the paths of it come to t, c and b.
Switched(acc, t, c, b, leaves) ==
  /\ acc.complete \in BOOLEAN /\ Numbers(acc.prev) /\ Numbers(acc.curr)
  /\ Exact(acc.sum, 0, c, b)
  /\ acc.complete => Same(t, 0) /\ Same(acc.prev.regular, 0) /\ Same(acc.curr.regular, 0)
  /\ ~ acc.complete => Same(acc.curr.regular * (acc.prev.regular + 1), t)
  /\ ~ acc.complete \/ ~ leaves => Same(acc.curr.break, 0) /\ (Plain => Same(acc.curr.return, 0))

LEMMA ExactSum ==
  ASSUME NEW r, NEW x \in Nat, NEW t \in Nat, NEW b \in Nat, Exact(r, x, t, b),
         NEW s, NEW u \in Nat, NEW v \in Nat, NEW w \in Nat, Exact(s, u, v, w)
  PROVE  Exact(incrementPathResults(r, s), x + u, t + v, b + w)
<1>1. PICK a \in Nat, c \in Nat, d \in Nat : a = r.regular /\ c = r.return /\ d = r.break
  BY DEF Exact, Numbers
<1>2. PICK k \in Nat, l \in Nat, m \in Nat : k = s.regular /\ l = s.return /\ m = s.break
  BY DEF Exact, Numbers
<1>3. incrementPathResults(r, s) = PathResults(a + k, c + l, d + m)
  BY <1>1, <1>2, Zenon DEF incrementPathResults
<1>4. /\ Same(a, x) /\ Same(k, u) /\ Same(d, b) /\ Same(m, w)
      /\ Plain => Same(c, t) /\ Same(l, v)
  BY <1>1, <1>2, Zenon DEF Exact
<1>5. /\ a + k \in Nat /\ c + l \in Nat /\ d + m \in Nat
      /\ x + u \in Nat /\ t + v \in Nat /\ b + w \in Nat
  OBVIOUS
<1>6. Same(a + k, x + u) /\ Same(d + m, b + w) /\ (Plain => Same(c + l, t + v))
  BY <1>4, SameSum
<1>7. PICK q : q = PathResults(a + k, c + l, d + m)
  OBVIOUS
<1>8. Numbers(q) /\ Same(q.regular, a + k) /\ Same(q.return, c + l) /\ Same(q.break, d + m)
  BY <1>5, <1>7, PathResultsFacts, Zenon
<1>9. q.regular \in Nat /\ q.return \in Nat /\ q.break \in Nat
  BY <1>8 DEF Numbers
<1>10. Same(q.regular, x + u) /\ Same(q.break, b + w) /\ (Plain => Same(q.return, t + v))
  BY <1>5, <1>6, <1>8, <1>9, SameFacts
<1>11. QED
  BY <1>3, <1>7, <1>8, <1>10, Zenon DEF Exact

\* ... and after a statement that E more paths enter.
SwitchedOn(o, t, c, b, E, ro, ta, be, next) ==
  Switched(o, (t + E) * ro, c + (t + E) * ta, b + (t + E) * be, next)

LEMMA SwitchedStep ==
  ASSUME NEW acc, NEW t \in Nat, NEW c \in Nat, NEW b \in Nat, NEW leaves \in BOOLEAN,
         Switched(acc, t, c, b, leaves),
         NEW starts \in BOOLEAN, leaves => starts, starts \/ ~ leaves,
         NEW E, E = (IF starts THEN 1 ELSE 0),
         NEW sub, NEW ro \in Nat, NEW ta \in Nat, NEW be \in Nat, NEW v,
         Come(sub, ro, v, be), Plain => v = ta,
         NEW next \in BOOLEAN, (ta = 0 /\ be = 0) \/ (ro = 0 /\ next),
         NEW o, o = SwitchStep(acc, starts, sub)
  PROVE  SwitchedOn(o, t, c, b, E, ro, ta, be, next)
<1>0. acc.complete \in BOOLEAN /\ Numbers(acc.prev) /\ Numbers(acc.curr) /\ Numbers(acc.sum)
  BY Zenon DEF Switched, Exact
<1>1. PICK P, x : /\ P = IF starts /\ ~ acc.complete THEN CaseEnd(acc.prev, acc.curr) ELSE acc.prev
                  /\ x = IF starts THEN One ELSE acc.curr
  OBVIOUS
<1>2. SwitchOutcome(acc, starts, sub, P, x, o)
  BY <1>0, <1>1, SwitchCases
<1>3. PICK u \in Nat : u = t + E
  OBVIOUS
<1>4. Numbers(P) /\ Numbers(x) /\ Same(x.regular * (P.regular + 1), u)
  <2>1. /\ acc.complete => Same(t, 0) /\ Same(acc.prev.regular, 0) /\ Same(acc.curr.regular, 0)
        /\ ~ acc.complete => Same(acc.curr.regular * (acc.prev.regular + 1), t)
    BY Zenon DEF Switched
  <2>2. Keyed(P, x, t + E)
    BY <1>0, <1>1, <2>1, SwitchKey
  <2>3. QED
    BY <1>3, <2>2, Zenon DEF Keyed
<1>5. PICK g \in Nat, m \in Nat : g = x.regular /\ m = P.regular + 1
  <2>1. x.regular \in Nat /\ P.regular \in Nat
    BY <1>4 DEF Numbers
  <2>2. QED
    BY <2>1
<1>6. Same(x.break, 0) /\ (Plain => Same(x.return, 0))
  <2>1. CASE starts
    <3>1. Same(One.break, 0) /\ Same(One.return, 0)
      BY ComeConstants DEF Come
    <3>2. QED
      BY <1>1, <2>1, <3>1, Zenon
  <2>2. CASE ~ starts
    BY <1>1, <2>2, Zenon DEF Switched
  <2>3. QED
    BY <2>1, <2>2
<1>7. PICK y : y = o.curr
  OBVIOUS
<1>8. v \in Nat /\ Numbers(sub) /\ Same(sub.regular, ro) /\ Same(sub.return, v) /\ Same(sub.break, be)
  BY DEF Come
<1>9. /\ Numbers(y) /\ Same(y.regular, g * ro) /\ Same(y.break, g * be)
      /\ Plain => Same(y.return, g * ta)
  <2>1. y = Then(x, sub)
    BY <1>2, <1>7, Zenon DEF SwitchOutcome
  <2>2. /\ Numbers(y) /\ Same(y.regular, x.regular * ro)
        /\ Same(x.break, 0) => Same(y.break, x.regular * be)
        /\ Same(x.return, 0) => Same(y.return, x.regular * v)
    BY <1>4, <1>8, <2>1, CurrentFacts
  <2>3. QED
    BY <1>5, <1>6, <2>2, Zenon
<1>10. PICK yr \in Nat, yt \in Nat, yb \in Nat : yr = y.regular /\ yt = y.return /\ yb = y.break
  BY <1>9 DEF Numbers
<1>11. Same(yr * m, u * ro) /\ Same(yb * m, u * be) /\ (Plain => Same(yt * m, u * ta))
  <2>1. Same(g * m, u) /\ Same(yr, g * ro) /\ Same(yb, g * be) /\ (Plain => Same(yt, g * ta))
    BY <1>4, <1>5, <1>9, <1>10, Zenon
  <2>2. QED
    BY <2>1, Scale
<1>12. u * ro \in Nat /\ u * ta \in Nat /\ u * be \in Nat /\ g * ro \in Nat /\ g * be \in Nat
       /\ g * ta \in Nat /\ yr * m \in Nat /\ yt * m \in Nat /\ yb * m \in Nat
  OBVIOUS
<1>13. sub.regular \in Nat /\ sub.regular < Modulus /\ 0 \in Nat /\ Same(0, 0)
  BY <1>8, SameFacts DEF Numbers
<1> SUFFICES Switched(o, u * ro, c + u * ta, b + u * be, next)
  BY <1>3, Zenon DEF SwitchedOn
<1>14. ASSUME be = 0 PROVE Same(y.break, 0)
  BY <1>9, <1>14
<1>15. ASSUME ta = 0, Plain PROVE Same(y.return, 0)
  BY <1>9, <1>15
<1>16. CASE sub.regular = 0
  <2>1. o.sum = incrementPathResults(acc.sum, CaseEnd(P, y)) /\ o.prev = None /\ o.complete = TRUE
    BY <1>2, <1>7, <1>16, Zenon DEF SwitchOutcome
  <2>2. Same(ro, 0)
    BY <1>8, <1>13, <1>16, SameFacts
  <2>3. Same(u * ro, 0) /\ Same(g * ro, 0)
    <3>1. Same(0, ro)
      BY <1>8, <1>16
    <3>2. QED
      BY <1>13, <3>1, Naught
  <2>4. Same(y.regular, 0)
    BY <1>9, <1>10, <1>12, <1>13, <2>3, SameFacts
  <2>5. PICK e : e = CaseEnd(P, y)
    OBVIOUS
  <2>6. /\ Numbers(e) /\ Same(e.regular, yr * m) /\ Same(e.return, yt * m) /\ Same(e.break, yb * m)
    BY <1>4, <1>5, <1>9, <1>10, <2>5, CaseEndFacts, Zenon
  <2>7. e.regular \in Nat /\ e.return \in Nat /\ e.break \in Nat
    BY <2>6 DEF Numbers
  <2>8. Same(e.regular, 0) /\ Same(e.break, u * be) /\ (Plain => Same(e.return, u * ta))
    <3>1. Same(e.regular, u * ro)
      BY <1>11, <1>12, <2>6, <2>7, SameFacts
    <3>2. Same(e.regular, 0)
      BY <1>12, <1>13, <2>3, <2>7, <3>1, SameFacts
    <3>3. Same(e.break, u * be)
      BY <1>11, <1>12, <2>6, <2>7, SameFacts
    <3>4. Plain => Same(e.return, u * ta)
      BY <1>11, <1>12, <2>6, <2>7, SameFacts
    <3>5. QED
      BY <3>2, <3>3, <3>4
  <2>9. Exact(e, 0, u * ta, u * be)
    BY <2>6, <2>8, Zenon DEF Exact
  <2>10. Exact(acc.sum, 0, c, b)
    BY Zenon DEF Switched
  <2>11. Exact(incrementPathResults(acc.sum, e), 0 + 0, c + u * ta, b + u * be)
    BY <1>12, <1>13, <2>9, <2>10, ExactSum
  <2>12. 0 + 0 = 0
    OBVIOUS
  <2>13. Exact(o.sum, 0, c + u * ta, b + u * be)
    BY <2>1, <2>5, <2>11, <2>12, Zenon
  <2>14. Numbers(None) /\ Same(None.regular, 0)
    BY ComeConstants DEF Come
  <2>15. ~ next => Same(y.break, 0) /\ (Plain => Same(y.return, 0))
    BY <1>14, <1>15
  <2>16. QED
    BY <1>7, <1>9, <2>1, <2>3, <2>4, <2>13, <2>14, <2>15, Zenon DEF Switched
<1>17. CASE sub.regular # 0
  <2>1. o.sum = acc.sum /\ o.prev = P /\ (o.complete <=> acc.complete /\ ~ starts)
        /\ o.complete \in BOOLEAN
    BY <1>2, <1>17, Zenon DEF SwitchOutcome
  <2>2. ta = 0 /\ be = 0
    <3>1. CASE ro = 0
      <4>1. sub.regular = 0
        <5>1. 0 < Modulus
          BY ModulusAssumption
        <5>2. QED
          BY <1>8, <1>13, <3>1, <5>1, SameFacts
      <4>2. QED
        BY <1>17, <4>1
    <3>2. QED
      BY <3>1
  <2>3. c + u * ta = c /\ b + u * be = b
    BY <2>2
  <2>4. Exact(o.sum, 0, c + u * ta, b + u * be)
    BY <2>1, <2>3, Zenon DEF Switched
  <2>5. Same(y.break, 0) /\ (Plain => Same(y.return, 0))
    BY <1>14, <1>15, <2>2
  <2>6. ASSUME o.complete
        PROVE  Same(u * ro, 0) /\ Same(o.prev.regular, 0) /\ Same(y.regular, 0)
    <3>1. acc.complete /\ ~ starts
      BY <2>1, <2>6
    <3>2. Same(t, 0) /\ Same(acc.prev.regular, 0) /\ Same(acc.curr.regular, 0)
      BY <3>1, Zenon DEF Switched
    <3>3. u = t /\ P = acc.prev /\ x = acc.curr
      BY <1>1, <1>3, <3>1
    <3>4. Same(u, 0) /\ Same(g, 0) /\ Same(P.regular, 0)
      BY <1>5, <3>2, <3>3, Zenon
    <3>5. Same(ro, ro) /\ 0 * ro = 0
      BY SameFacts
    <3>6. Same(u * ro, 0 * ro) /\ Same(g * ro, 0 * ro)
      BY <1>13, <3>4, <3>5, SameProduct
    <3>7. Same(u * ro, 0) /\ Same(g * ro, 0)
      BY <3>5, <3>6, Zenon
    <3>8. Same(y.regular, 0)
      BY <1>9, <1>10, <1>12, <1>13, <3>7, SameFacts
    <3>9. QED
      BY <2>1, <3>4, <3>7, <3>8, Zenon
  <2>7. Same(y.regular * (o.prev.regular + 1), u * ro)
    BY <1>5, <1>10, <1>11, <2>1, Zenon
  <2>8. QED
    BY <1>4, <1>7, <1>9, <2>1, <2>4, <2>5, <2>6, <2>7, Zenon DEF Switched
<1>18. QED
  BY <1>16, <1>17

\* Does the statement after the n-th of the switch, if there is one, begin with a label?
CaseOver(p, n) == n + 1 \in 1 .. Count(p) => Starts(p, n + 1)

\* The invariant of that walk.
SwitchInv(p, n) ==
  Switched(SwitchAt(p, n), RegularTo(p, n), ReturnTo(p, n), BreakTo(p, n), CaseOver(p, n))

LEMMA ExactConstants ==
  Exact(None, 0, 0, 0) /\ Exact(One, 1, 0, 0) /\ Exact(PathResults(0, 0, 1), 0, 0, 1)
BY ComeConstants DEF Come, Exact

LEMMA SwitchStart ==
  ASSUME GivenFunction, NEW p \in DOMAIN body, body[p] = "switch"
  PROVE  SwitchInv(p, 0)
<1>1. Len(SubCounts(p)) \in Nat
  BY SubCountsFacts, SubstatementFacts
<1>2. SwitchAt(p, 0) = [sum |-> None, prev |-> None, curr |-> None, complete |-> TRUE]
  BY <1>1, SwitchSteps DEF SwitchAt
<1>3. PICK acc : acc = SwitchAt(p, 0)
  OBVIOUS
<1>4. acc.sum = None /\ acc.prev = None /\ acc.curr = None /\ acc.complete = TRUE
  BY <1>2, <1>3
<1>5. RegularTo(p, 0) = 0 /\ ReturnTo(p, 0) = 0 /\ BreakTo(p, 0) = 0
  BY StartNumbers
<1>6. Numbers(None) /\ Same(None.regular, 0) /\ Same(None.return, 0) /\ Same(None.break, 0)
  BY ComeConstants DEF Come
<1>7. Same(0, 0)
  BY SameFacts
<1>8. Switched(acc, 0, 0, 0, CaseOver(p, 0))
  BY <1>4, <1>6, <1>7, ExactConstants, Zenon DEF Switched
<1>9. QED
  BY <1>3, <1>5, <1>8, Zenon DEF SwitchInv

LEMMA SwitchInvStep ==
  ASSUME GivenFunction, PlainExits, NEW p, Proper(p), body[p] = "switch",
         \A q \in Below(p) : Proper(q) => Claim(q), NEW n \in 1 .. Count(p), SwitchInv(p, n - 1)
  PROVE  SwitchInv(p, n)
<1>0. p \in DOMAIN body /\ Count(p) \in Nat
  BY SubstatementFacts DEF Proper
<1>1. PICK acc, o, sub : acc = SwitchAt(p, n - 1) /\ o = SwitchAt(p, n) /\ sub = SubCounts(p)[n]
  OBVIOUS
<1>2. PICK starts \in BOOLEAN : starts <=> Starts(p, n)
  OBVIOUS
<1>21. starts = Starts(p, n)
  BY <1>2, Zenon DEF Starts
<1>3. PICK next \in BOOLEAN : next <=> CaseOver(p, n)
  OBVIOUS
<1>4. o = SwitchStep(acc, starts, sub)
  <2>1. Len(SubCounts(p)) \in Nat /\ n \in 1 .. Len(SubCounts(p))
    BY <1>0, SubCountsFacts
  <2>2. SwitchUpTo(p, SubCounts(p))[n]
          = SwitchStep(SwitchUpTo(p, SubCounts(p))[n - 1], Starts(p, n), SubCounts(p)[n])
    BY <2>1, SwitchSteps, Zenon
  <2>3. QED
    BY <1>1, <1>21, <2>2, Zenon DEF SwitchAt
<1>5. PICK t \in Nat, c \in Nat, b \in Nat :
        t = RegularTo(p, n - 1) /\ c = ReturnTo(p, n - 1) /\ b = BreakTo(p, n - 1)
  BY <1>0, CountedThree
<1>6. PICK ro, ta, be : /\ ro = Num(SubPaths(p)[n], Regular) /\ ta = Num(SubPaths(p)[n], Returning)
                        /\ be = Num(SubPaths(p)[n], Breaking)
  OBVIOUS
<1>7. /\ \E v : Come(sub, ro, v, be) /\ (Plain => v = ta)
      /\ ro \in Nat /\ ta \in Nat /\ be \in Nat
  BY <1>1, <1>6, SwitchSub
<1>8. PICK v : Come(sub, ro, v, be) /\ (Plain => v = ta)
  BY <1>7
<1>9. (ta = 0 /\ be = 0) \/ (ro = 0 /\ next)
  BY <1>0, <1>3, <1>6, CaseFacts DEF CaseOver
<1>10. PICK E : E = IF starts THEN 1 ELSE 0
  OBVIOUS
<1>11. Entry(p, n) = E
  BY <1>10, <1>2 DEF Entry
<1>12. PICK leaves \in BOOLEAN : leaves <=> CaseOver(p, n - 1)
  OBVIOUS
<1>13. leaves <=> starts
  <2>1. (n - 1) + 1 = n
    BY <1>0
  <2>2. QED
    BY <1>2, <1>12, <2>1, Zenon DEF CaseOver
<1>14. Switched(acc, t, c, b, leaves)
  <2>1. Switched(acc, t, c, b, CaseOver(p, n - 1))
    BY <1>1, <1>5, Zenon DEF SwitchInv
  <2>2. QED
    BY <1>12, <2>1, Zenon DEF Switched
<1>15. Switched(o, (t + E) * ro, c + (t + E) * ta, b + (t + E) * be, next)
  <2>1. (leaves => starts) /\ (starts \/ ~ leaves) /\ (Plain => v = ta) /\ Come(sub, ro, v, be)
    BY <1>8, <1>13
  <2>2. ro \in Nat /\ ta \in Nat /\ be \in Nat
    BY <1>7
  <2>3. SwitchedOn(o, t, c, b, E, ro, ta, be, next)
    BY <1>4, <1>9, <1>10, <1>14, <2>1, <2>2, SwitchedStep
  <2>4. QED
    BY <2>3, Zenon DEF SwitchedOn
<1>16. /\ RegularTo(p, n) = (t + E) * ro /\ ReturnTo(p, n) = c + (t + E) * ta
       /\ BreakTo(p, n) = b + (t + E) * be
  <2>1. /\ RegularTo(p, n) = (RegularTo(p, n - 1) + Entry(p, n)) * Num(SubPaths(p)[n], Regular)
        /\ ReturnTo(p, n) = ReturnTo(p, n - 1)
              + (RegularTo(p, n - 1) + Entry(p, n)) * Num(SubPaths(p)[n], Returning)
        /\ BreakTo(p, n) = BreakTo(p, n - 1)
              + (RegularTo(p, n - 1) + Entry(p, n)) * Num(SubPaths(p)[n], Breaking)
    BY <1>0, CountedThree
  <2>2. QED
    BY <1>5, <1>6, <1>11, <2>1, Zenon
<1>17. Switched(o, RegularTo(p, n), ReturnTo(p, n), BreakTo(p, n), next)
  BY <1>15, <1>16, Zenon
<1>18. QED
  BY <1>1, <1>3, <1>17, Zenon DEF SwitchInv, Switched

LEMMA SwitchEnd ==
  ASSUME GivenFunction, PlainExits, NEW p, Proper(p), body[p] = "switch",
         \A q \in Below(p) : Proper(q) => Claim(q)
  PROVE  SwitchInv(p, Count(p))
<1> DEFINE S == {n \in Nat : n \in 0 .. Count(p) => SwitchInv(p, n)}
<1>0. p \in DOMAIN body /\ Count(p) \in Nat
  BY SubstatementFacts DEF Proper
<1>1. 0 \in S
  BY <1>0, SwitchStart
<1>2. ASSUME NEW n \in Nat, n \in S PROVE n + 1 \in S
  <2>1. CASE n + 1 \in 0 .. Count(p)
    <3>1. n + 1 \in 1 .. Count(p) /\ n \in 0 .. Count(p) /\ (n + 1) - 1 = n
      BY <1>0, <2>1
    <3>2. SwitchInv(p, (n + 1) - 1)
      BY <1>2, <3>1
    <3>3. SwitchInv(p, n + 1)
      BY <3>1, <3>2, SwitchInvStep
    <3>4. QED
      BY <3>3
  <2>2. CASE n + 1 \notin 0 .. Count(p)
    BY <2>2
  <2>3. QED
    BY <2>1, <2>2
<1> HIDE DEF S
<1>3. Nat \subseteq S
  BY <1>1, <1>2, AllNumbers
<1>4. Count(p) \in Nat /\ Count(p) \in 0 .. Count(p)
  BY <1>0
<1>5. QED
  BY <1>3, <1>4 DEF S

\* The numbers of a switch, those of its last case and of the implicit default included.
LEMMA SwitchCounts ==
  ASSUME GivenFunction, PlainExits, NEW p, Proper(p), body[p] = "switch",
         \A q \in Below(p) : Proper(q) => Claim(q),
         NEW t \in Nat, NEW c \in Nat, NEW b \in Nat,
         t = RegularTo(p, Count(p)), c = ReturnTo(p, Count(p)), b = BreakTo(p, Count(p)),
         NEW d, d = (IF Exhaustive(p) THEN 0 ELSE 1)
  PROVE  Right(p, getPathCount[p], t + (b + d), c, 0)
<1>0. p \in DOMAIN body /\ Len(SubCounts(p)) = Count(p)
  BY SubCountsFacts DEF Proper
<1>1. PICK end : end = SwitchAt(p, Count(p))
  OBVIOUS
<1>2. PICK sum : sum = IF end.complete THEN end.sum
                       ELSE incrementPathResults(end.sum, CaseEnd(end.prev, end.curr))
  OBVIOUS
<1>3. PICK all : all = ImplicitDefault(sum, Exhaustive(p))
  OBVIOUS
<1>4. getPathCount[p] = PathResults(all.regular + all.break, all.return, 0)
  <2>1. getPathCount[p] = getSwitchPathCount(p, SubCounts(p))
    BY <1>0, SubCountsFacts DEF Combined
  <2>2. SwitchUpTo(p, SubCounts(p))[Len(SubCounts(p))] = end
    BY <1>0, <1>1 DEF SwitchAt
  <2>3. QED
    BY <1>2, <1>3, <2>1, <2>2, Zenon DEF getSwitchPathCount
<1>5. Switched(end, t, c, b, CaseOver(p, Count(p)))
  BY <1>1, SwitchEnd, Zenon DEF SwitchInv
<1>6. Exact(end.sum, 0, c, b) /\ Numbers(end.prev) /\ Numbers(end.curr) /\ end.complete \in BOOLEAN
  BY <1>5, Zenon DEF Switched
<1>61. 0 \in Nat /\ 1 \in Nat
  OBVIOUS
<1>7. Exact(sum, t, c, b)
  <2>1. CASE end.complete
    <3>1. sum = end.sum /\ Same(t, 0)
      BY <1>2, <1>5, <2>1, Zenon DEF Switched
    <3>2. Numbers(sum) /\ Same(sum.regular, 0) /\ (Plain => Same(sum.return, c)) /\ Same(sum.break, b)
      BY <1>6, <3>1, Zenon DEF Exact
    <3>3. sum.regular \in Nat
      BY <3>2 DEF Numbers
    <3>4. Same(0, t)
      BY <1>61, <3>1, SameFacts
    <3>5. Same(sum.regular, t)
      BY <1>61, <3>2, <3>3, <3>4, SameFacts
    <3>6. QED
      BY <3>2, <3>5, Zenon DEF Exact
  <2>2. CASE ~ end.complete
    <3>1. PICK e : e = CaseEnd(end.prev, end.curr)
      OBVIOUS
    <3>2. /\ Same(end.curr.regular * (end.prev.regular + 1), t)
          /\ Same(end.curr.break, 0) /\ (Plain => Same(end.curr.return, 0))
      BY <1>5, <2>2, Zenon DEF Switched
    <3>3. PICK k \in Nat, l \in Nat, i \in Nat, m \in Nat :
            /\ k = end.curr.regular /\ l = end.curr.return /\ i = end.curr.break
            /\ m = end.prev.regular + 1
      <4>1. /\ end.curr.regular \in Nat /\ end.curr.return \in Nat /\ end.curr.break \in Nat
            /\ end.prev.regular \in Nat
        BY <1>6 DEF Numbers
      <4>2. QED
        BY <4>1
    <3>4. Numbers(e) /\ Same(e.regular, k * m) /\ Same(e.return, l * m) /\ Same(e.break, i * m)
      BY <1>6, <3>1, <3>3, CaseEndFacts, Zenon
    <3>5. e.regular \in Nat /\ e.return \in Nat /\ e.break \in Nat
      BY <3>4 DEF Numbers
    <3>6. Same(k * m, t) /\ Same(i, 0) /\ (Plain => Same(l, 0))
      BY <3>2, <3>3, Zenon
    <3>7. k * m \in Nat /\ l * m \in Nat /\ i * m \in Nat /\ 0 * m = 0
      OBVIOUS
    <3>8. Same(m, m)
      BY SameFacts
    <3>9. Same(i * m, 0 * m) /\ (Plain => Same(l * m, 0 * m))
      BY <1>61, <3>6, <3>8, SameProduct
    <3>10. Same(i * m, 0) /\ (Plain => Same(l * m, 0))
      BY <3>7, <3>9, Zenon
    <3>11. Same(e.regular, t) /\ Same(e.break, 0) /\ (Plain => Same(e.return, 0))
      BY <1>61, <3>4, <3>5, <3>6, <3>7, <3>10, SameFacts
    <3>12. Exact(e, t, 0, 0)
      BY <3>4, <3>11, Zenon DEF Exact
    <3>13. Exact(incrementPathResults(end.sum, e), 0 + t, c + 0, b + 0)
      BY <1>6, <1>61, <3>12, ExactSum
    <3>14. 0 + t = t /\ c + 0 = c /\ b + 0 = b
      OBVIOUS
    <3>15. QED
      BY <1>2, <2>2, <3>1, <3>13, <3>14, Zenon
  <2>3. QED
    BY <1>6, <2>1, <2>2
<1>8. Exact(all, t, c, b + d)
  <2>1. CASE Exhaustive(p)
    <3>1. all = sum
      BY <1>3, <2>1, Zenon DEF ImplicitDefault
    <3>2. b + d = b
      BY <2>1
    <3>3. QED
      BY <1>7, <3>1, <3>2, Zenon
  <2>2. CASE ~ Exhaustive(p)
    <3>1. all = incrementPathResults(sum, PathResults(0, 0, 1))
      BY <1>3, <2>2, Zenon DEF ImplicitDefault
    <3>2. Exact(incrementPathResults(sum, PathResults(0, 0, 1)), t + 0, c + 0, b + 1)
      BY <1>7, <1>61, ExactConstants, ExactSum
    <3>3. t + 0 = t /\ c + 0 = c /\ b + 1 = b + d
      BY <2>2
    <3>4. QED
      BY <3>1, <3>2, <3>3, Zenon
  <2>3. QED
    BY <2>1, <2>2
<1>9. d \in Nat /\ b + d \in Nat
  <2>1. d \in Nat
    OBVIOUS
  <2>2. QED
    BY <2>1
<1>10. PICK i \in Nat, k \in Nat, j \in Nat : i = all.regular /\ k = all.return /\ j = all.break
  BY <1>8 DEF Exact, Numbers
<1>11. Same(i, t) /\ (Plain => Same(k, c)) /\ Same(j, b + d)
  BY <1>8, <1>10, Zenon DEF Exact
<1>12. Same(i + j, t + (b + d))
  BY <1>9, <1>11, SameSum
<1>13. PICK y \in Nat : Same(k, y) /\ (Plain => y = c)
  <2>1. Same(k, k)
    BY SameFacts
  <2>2. CASE Plain
    BY <1>11, <2>2
  <2>3. CASE ~ Plain
    BY <2>1, <2>3
  <2>4. QED
    BY <2>2, <2>3
<1>14. Same(0, 0) /\ i + j \in Nat /\ t + (b + d) \in Nat
  BY <1>9, SameFacts
<1>15. Come(PathResults(i + j, k, 0), t + (b + d), y, 0)
  BY <1>12, <1>13, <1>14, <1>61, ComeTo
<1>16. getPathCount[p] = PathResults(i + j, k, 0)
  BY <1>4, <1>10, Zenon
<1>17. QED
  BY <1>13, <1>15, <1>16, Zenon DEF Right

LEMMA SwitchNumbers ==
  ASSUME GivenFunction, PlainExits, NEW p \in DOMAIN body, body[p] = "switch",
         NEW d, d = (IF Exhaustive(p) THEN 0 ELSE 1)
  PROVE  /\ Num(OverPaths(p), Regular) = RegularTo(p, Count(p)) + (BreakTo(p, Count(p)) + d)
         /\ Num(OverPaths(p), Returning) = ReturnTo(p, Count(p))
         /\ Num(OverPaths(p), Breaking) = 0
<1>0. Len(SubPaths(p)) = Count(p) /\ Count(p) \in Nat /\ Count(p) \in 0 .. Count(p)
  BY SubPathsFacts, SubstatementFacts
<1>1. PICK U, D, X : U = UpTo(p, Count(p)) /\ D = (IF Exhaustive(p) THEN {} ELSE Straight) /\ X = U \cup D
  OBVIOUS
<1>2. OverPaths(p) = Ends(X, {"break"}, "regular")
  BY <1>0, <1>1 DEF OverPaths, PathsOver, UpTo
<1>3. Distinct(U, Below(p)) /\ Somewhere(U)
  <2>1. \A q \in Below(p) : Sound(q)
    BY AllSound DEF Below
  <2>2. QED
    BY <1>0, <1>1, <2>1, UpToFacts DEF Steady
<1>4. Distinct(D, {}) /\ Num(D, Regular) = d /\ Num(D, Returning) = 0 /\ Num(D, Breaking) = 0
      /\ Num(D, {"continue"}) = 0
  <2>1. Distinct(D, {})
    BY <1>1, StraightFacts
  <2>2. \A e : Num(D, e) = IF Exhaustive(p) THEN 0 ELSE IF "regular" \in e THEN 1 ELSE 0
    BY <1>1, StraightFacts
  <2>3. QED
    BY <2>1, <2>2 DEF Regular, Returning, Breaking
<1>5. Below(p) \cap {} = {} /\ Below(p) \cup {} = Below(p)
  OBVIOUS
<1>6. Apart(U, D)
  BY <1>3, <1>4, <1>5, BesideAdds
<1>7. Distinct(X, Below(p))
  <2>1. ASSUME NEW e PROVE Distinct(U \cup D, Below(p) \cup {}) /\ Num(U \cup D, e) = Num(U, e) + Num(D, e)
    BY <1>3, <1>4, <1>5, BesideDistinct
  <2>2. QED
    BY <1>1, <1>5, <2>1
<1>8. Num(U, {"continue"}) = 0 /\ \A e : Num(U, e) \in Nat
  <2>1. IsFiniteSet(U)
    BY <1>3 DEF Distinct
  <2>2. QED
    BY <1>1, <2>1, NoneContinues, NumType
<1>9. \A e : Num(X, e) = Num(U, e) + Num(D, e)
  BY <1>1, <1>6, Zenon DEF Apart
<1>10. /\ Num(X, Regular) = Num(U, Regular) + d /\ Num(X, Returning) = Num(U, Returning)
       /\ Num(X, Breaking) = Num(U, Breaking) /\ Num(X, {"continue"}) = 0
  <2>1. Num(U, Returning) + 0 = Num(U, Returning) /\ Num(U, Breaking) + 0 = Num(U, Breaking)
        /\ 0 + 0 = 0
    BY <1>8
  <2>2. QED
    BY <1>4, <1>8, <1>9, <2>1, Zenon
<1>11. IsFiniteSet(X)
  BY <1>7 DEF Distinct
<1>12. Num(X, Breaking) = Num(X, {"break"}) + Num(X, {"continue"}) /\ Num(X, {"break"}) \in Nat
  <2>1. {"break"} \cap {"continue"} = {} /\ Breaking = {"break"} \cup {"continue"}
    BY DEF Breaking
  <2>2. Num(X, {"break"} \cup {"continue"}) = Num(X, {"break"}) + Num(X, {"continue"})
    BY <1>11, <2>1, NumSplit
  <2>3. QED
    BY <1>11, <2>1, <2>2, NumType
<1>13. Num(X, {"break"}) = Num(U, Breaking)
  BY <1>10, <1>12
<1>14. Num(X, Regular \cup {"break"}) = Num(X, Regular) + Num(X, {"break"})
  <2>1. Regular \cap {"break"} = {}
    BY DEF Regular
  <2>2. QED
    BY <1>11, <2>1, NumSplit
<1>15. \A e : Num(Ends(X, {"break"}, "regular"), e)
                = Num(X, (e \ {"break"}) \cup (IF "regular" \in e THEN {"break"} ELSE {}))
  BY <1>7, EndsDistinct
<1>16. /\ (Regular \ {"break"}) \cup (IF "regular" \in Regular THEN {"break"} ELSE {}) = Regular \cup {"break"}
       /\ (Returning \ {"break"}) \cup (IF "regular" \in Returning THEN {"break"} ELSE {}) = Returning
       /\ (Breaking \ {"break"}) \cup (IF "regular" \in Breaking THEN {"break"} ELSE {}) = {"continue"}
  BY DEF Regular, Returning, Breaking
<1>17. /\ Num(OverPaths(p), Regular) = Num(X, Regular \cup {"break"})
       /\ Num(OverPaths(p), Returning) = Num(X, Returning)
       /\ Num(OverPaths(p), Breaking) = Num(X, {"continue"})
  BY <1>2, <1>15, <1>16, Zenon
<1>18. Num(X, Regular \cup {"break"}) = Num(U, Regular) + (Num(U, Breaking) + d)
  <2>1. d \in Nat /\ Num(U, Regular) \in Nat /\ Num(U, Breaking) \in Nat
    BY <1>8
  <2>2. QED
    BY <1>10, <1>13, <1>14, <2>1
<1>19. QED
  BY <1>1, <1>10, <1>17, <1>18, Zenon DEF RegularTo, ReturnTo, BreakTo

LEMMA SwitchClaim ==
  ASSUME GivenFunction, PlainExits, NEW p, Proper(p), body[p] = "switch",
         \A q \in Below(p) : Proper(q) => Claim(q)
  PROVE  Claim(p)
<1>0. p \in DOMAIN body /\ Count(p) \in Nat
  BY SubstatementFacts DEF Proper
<1>1. PICK t, c, b, d : /\ t = RegularTo(p, Count(p)) /\ c = ReturnTo(p, Count(p))
                        /\ b = BreakTo(p, Count(p)) /\ d = (IF Exhaustive(p) THEN 0 ELSE 1)
  OBVIOUS
<1>2. t \in Nat /\ c \in Nat /\ b \in Nat
  <2>1. \A q \in Below(p) : Sound(q)
    BY AllSound DEF Below
  <2>2. Count(p) \in 0 .. Count(p)
    BY <1>0
  <2>3. IsFiniteSet(UpTo(p, Count(p)))
    BY <1>0, <2>1, <2>2, UpToFacts DEF Distinct
  <2>4. QED
    BY <1>1, <2>3, NumType DEF RegularTo, ReturnTo, BreakTo
<1>3. Right(p, getPathCount[p], t + (b + d), c, 0)
  BY <1>1, <1>2, SwitchCounts
<1>4. /\ Num(Paths[p], Regular) = t + (b + d) /\ Num(Paths[p], Returning) = c
      /\ Num(Paths[p], Breaking) = 0
  <2>1. /\ Num(OverPaths(p), Regular) = t + (b + d) /\ Num(OverPaths(p), Returning) = c
        /\ Num(OverPaths(p), Breaking) = 0
    BY <1>0, <1>1, SwitchNumbers
  <2>2. QED
    BY <1>0, <2>1, PathsNumbers
<1>5. QED
  BY <1>3, <1>4, Zenon DEF Claim
-----------------------------------------------------------------------------
(* Functions. *)

LEMMA AllClaims ==
  ASSUME GivenFunction, PlainExits
  PROVE  \A p \in DOMAIN body : Proper(p) => Claim(p)
<1> DEFINE S == {p \in DOMAIN body : Proper(p) => Claim(p)}
<1>1. ASSUME NEW p \in DOMAIN body, \A q \in Below(p) : q \in S PROVE p \in S
  <2>1. SUFFICES ASSUME Proper(p) PROVE Claim(p)
    OBVIOUS
  <2>2. \A q \in Below(p) : Proper(q) => Claim(q)
    BY <1>1
  <2>3. body[p] \in {"other", "declaration", "return", "break", "continue", "block", "if", "switch"}
                      \cup Loops
    BY <2>1, ProperKinds
  <2>4. CASE body[p] \in {"block", "other", "declaration"}
    BY <2>1, <2>2, <2>4, BlockClaim
  <2>5. CASE body[p] = "if"
    BY <2>1, <2>2, <2>5, IfClaim
  <2>6. CASE body[p] \in Loops
    BY <2>1, <2>2, <2>6, LoopClaim
  <2>7. CASE body[p] = "switch"
    BY <2>1, <2>2, <2>7, SwitchClaim
  <2>8. CASE body[p] \in {"return", "break", "continue"}
    BY <2>1, <2>8, LeafClaim
  <2>9. QED
    BY <2>3, <2>4, <2>5, <2>6, <2>7, <2>8
<1> HIDE DEF S
<1>2. DOMAIN body \subseteq S
  BY <1>1, FromBelow
<1>3. QED
  BY <1>2 DEF S

LEMMA RootProper ==
  ASSUME GivenFunction
  PROVE  Proper(<<>>) /\ <<>> \in DOMAIN body /\ body[<<>>] = "block"
<1>1. <<>> \in DOMAIN body /\ body[<<>>] = "block"
  BY FunctionAssumption DEF GivenFunction
<1>2. QED
  BY <1>1 DEF Proper, SwitchBody, Labels

LEMMA CountRight ==
  ASSUME GivenFunction, Plain
  PROVE  FunctionPaths = Cardinality(FinishedPaths) % Modulus
<1>1. Claim(<<>>) /\ <<>> \in DOMAIN body
  BY RootProper, AllClaims DEF Plain
<1>2. PICK R, S : R = getPathCount[<<>>] /\ S = Paths[<<>>]
  OBVIOUS
<1>3. PICK y, z : Come(R, Num(S, Regular), y, z) /\ (Plain => y = Num(S, Returning))
  BY <1>1, <1>2, Zenon DEF Claim, Right
<1>4. PICK x \in Nat, t \in Nat : x = Num(S, Regular) /\ t = Num(S, Returning)
  BY <1>1, <1>2, PathsNumbers
<1>5. Come(R, x, t, z)
  BY <1>3, <1>4, Zenon
<1>6. R.regular \in Nat /\ R.return \in Nat /\ Same(R.regular, x) /\ Same(R.return, t)
  BY <1>5 DEF Come, Numbers
<1>7. Same(R.regular + R.return, x + t)
  BY <1>6, SameSum
<1>8. Cardinality(FinishedPaths) = x + t
  <2>1. FinishedPaths = Ending(S, Regular \cup Returning)
    BY <1>2 DEF FinishedPaths, Ending, Regular, Returning
  <2>2. IsFiniteSet(S)
    BY <1>1, <1>2, AllSound DEF Sound, Distinct
  <2>3. Regular \cap Returning = {}
    BY DEF Regular, Returning
  <2>4. Num(S, Regular \cup Returning) = Num(S, Regular) + Num(S, Returning)
    BY <2>2, <2>3, NumSplit, SMTT(40)
  <2>5. QED
    BY <1>4, <2>1, <2>4, Zenon DEF Num
<1>9. QED
  BY <1>2, <1>7, <1>8, Zenon DEF FunctionPaths, Same

\* What has been recorded is what the count comes to.
CInv ==
  /\ GivenFunction
  /\ paths # -1 => paths = FunctionPaths /\ returns = ReturnsIn + ImplicitReturn

LEMMA SameSubstatements ==
  ASSUME body' = body, cond' = cond, NEW p
  PROVE  /\ Substatements(p)' = Substatements(p)
         /\ (Exhaustive(p)' <=> Exhaustive(p)) /\ \A n : Starts(p, n)' = Starts(p, n)
<1>1. Within(p)' = Within(p) /\ \A n : Starts(p, n)' = Starts(p, n)
  BY DEF Within, Starts
<1>2. \A q : Width(q)' = Width(q)
  BY DEF Width, Parts
<1>3. \A q, r : OnlyLabels(q, r)' <=> OnlyLabels(q, r)
  BY DEF OnlyLabels
<1>4. \A q : Labelled(q)' = Labelled(q)
  <2> SUFFICES ASSUME NEW q PROVE Labelled(q)' = Labelled(q)
    OBVIOUS
  <2>1. \A r : (r \in DOMAIN body' /\ OnlyLabels(q, r)' /\ body'[r] \notin Labels)
                 <=> (r \in DOMAIN body /\ OnlyLabels(q, r) /\ body[r] \notin Labels)
    BY <1>3
  <2>2. QED
    BY <1>3, Zenon DEF Labelled
<1>5. Substatements(p)' = Substatements(p)
  BY <1>1, <1>2, <1>4 DEF Substatements
<1>6. \A q : HasDefault(q)' <=> HasDefault(q)
  BY <1>3 DEF HasDefault
<1>7. Exhaustive(p)' <=> Exhaustive(p)
  BY <1>1, <1>2, <1>6, Zenon DEF Exhaustive
<1>8. QED
  BY <1>1, <1>5, <1>7

LEMMA SameWalks ==
  ASSUME body' = body, cond' = cond, NEW p, NEW sub
  PROVE  OtherUpTo(p, sub)' = OtherUpTo(p, sub) /\ SwitchUpTo(p, sub)' = SwitchUpTo(p, sub)
<1> DEFINE O(u) == [n \in 0 .. Len(sub) |->
                      IF n = 0 THEN [res |-> One, skip |-> FALSE]
                      ELSE OtherStep(u[n - 1], body[Append(p, n)], sub[n])]
           S(u) == [n \in 0 .. Len(sub) |->
                      IF n = 0 THEN [sum |-> None, prev |-> None, curr |-> None, complete |-> TRUE]
                      ELSE SwitchStep(u[n - 1], Starts(p, n), sub[n])]
<1>1. OtherUpTo(p, sub) = (CHOOSE u : u = O(u)) /\ SwitchUpTo(p, sub) = (CHOOSE u : u = S(u))
  BY Zenon DEF OtherUpTo, SwitchUpTo
<1>2. OtherUpTo(p, sub)' = (CHOOSE u : u = O(u)') /\ SwitchUpTo(p, sub)' = (CHOOSE u : u = S(u)')
  BY Zenon DEF OtherUpTo, SwitchUpTo
<1>3. \A u : O(u)' = O(u)
  OBVIOUS
<1>4. \A n : Starts(p, n)' = Starts(p, n)
  BY SameSubstatements
<1>5. \A u : S(u)' = S(u)
  BY <1>4, Zenon
<1> HIDE DEF O, S
<1>6. (\A u : (u = O(u)') <=> (u = O(u))) /\ \A u : (u = S(u)') <=> (u = S(u))
  BY <1>3, <1>5, Zenon
<1>7. (CHOOSE u : u = O(u)') = (CHOOSE u : u = O(u))
  BY <1>6, Zenon
<1>8. (CHOOSE u : u = S(u)') = (CHOOSE u : u = S(u))
  BY <1>6, Zenon
<1>9. QED
  BY <1>1, <1>2, <1>7, <1>8, Zenon

LEMMA SameCount ==
  ASSUME body' = body, cond' = cond, analysis' = analysis
  PROVE  getPathCount' = getPathCount
<1> DEFINE F(g) == [p \in DOMAIN body |-> Combined(p, OfSubs(g, p))]
<1>1. ASSUME NEW p, NEW sub PROVE Combined(p, sub)' = Combined(p, sub)
  <2>1. getIfPathCount(p, sub)' = getIfPathCount(p, sub)
    BY DEF getIfPathCount, KnownTrue, KnownFalse
  <2>2. getSwitchPathCount(p, sub)' = getSwitchPathCount(p, sub)
    <3>1. SwitchUpTo(p, sub)' = SwitchUpTo(p, sub) /\ (Exhaustive(p)' <=> Exhaustive(p))
      BY SameWalks, SameSubstatements
    <3>2. QED
      BY <3>1 DEF getSwitchPathCount, ImplicitDefault
  <2>3. getOtherPathCount(p, sub)' = getOtherPathCount(p, sub)
    BY SameWalks DEF getOtherPathCount
  <2>4. NotEntered(p, LoopLeft(sub[1]))' = NotEntered(p, LoopLeft(sub[1]))
        /\ (KnownFalse(p)' <=> KnownFalse(p))
    BY DEF NotEntered, KnownTrue, KnownFalse
  <2>5. QED
    BY <2>1, <2>2, <2>3, <2>4 DEF Combined
<1>2. \A p, g : OfSubs(g, p)' = OfSubs(g, p)
  <2> SUFFICES ASSUME NEW p, NEW g PROVE OfSubs(g, p)' = OfSubs(g, p)
    OBVIOUS
  <2>1. Substatements(p)' = Substatements(p)
    BY SameSubstatements
  <2>2. QED
    BY <2>1, Zenon DEF OfSubs
<1>3. \A g : F(g)' = F(g)
  BY <1>1, <1>2
<1>4. getPathCount = CHOOSE g : g = F(g)
  BY Zenon DEF getPathCount, OfSubs
<1>5. getPathCount' = CHOOSE g : g = F(g)'
  BY Zenon DEF getPathCount, OfSubs
<1> HIDE DEF F
<1>6. \A g : (g = F(g)') <=> (g = F(g))
  BY <1>3, Zenon
<1>7. (CHOOSE g : g = F(g)') = CHOOSE g : g = F(g)
  BY <1>6, Zenon
<1>8. QED
  BY <1>4, <1>5, <1>7, Zenon

LEMMA Unchanged ==
  ASSUME body' = body, cond' = cond, analysis' = analysis
  PROVE  FunctionPaths' = FunctionPaths
BY SameCount DEF FunctionPaths
-----------------------------------------------------------------------------
(* What a block skips. *)

\* A part of a statement, as its number.
LEMMA PartNumber ==
  ASSUME GivenFunction, NEW q \in DOMAIN body, q # <<>>
  PROVE  /\ Front(q) \in DOMAIN body /\ q \in Parts(Front(q))
         /\ \E i \in 1 .. Width(Front(q)) : q = Append(Front(q), i) /\ Last(q) = i
         /\ Len(Front(q)) \in Nat /\ Len(q) = Len(Front(q)) + 1
<1>1. PICK p : p = Front(q)
  OBVIOUS
<1>2. p \in DOMAIN body /\ q \in Seq(Nat \ {0}) /\ p \in Seq(Nat \ {0})
  BY <1>1, BodyFacts
<1>3. q \in Parts(p)
  BY <1>1, <1>2, PartsFacts
<1>4. PICK i \in 1 .. Width(p) : q = Append(p, i)
  BY <1>2, <1>3, BodyFacts
<1>5. Width(p) \in Nat
  BY <1>2, BodyFacts
<1>6. i \in Nat \ {0}
  BY <1>5
<1>7. Last(q) = i
  BY <1>2, <1>4, <1>6, AppendFacts
<1>8. Len(p) \in Nat /\ Len(q) = Len(p) + 1
  BY <1>2, <1>4, <1>6, AppendFacts
<1>9. QED
  BY <1>1, <1>2, <1>3, <1>4, <1>7, <1>8

\* With plain exits every label is that of a case.
LEMMA LabelsOfCases ==
  ASSUME GivenFunction, PlainExits
  PROVE  \A q \in DOMAIN body : body[q] \in Labels => CaseOfSwitch(q)
<1> DEFINE S == {q \in DOMAIN body : body[q] \in Labels => CaseOfSwitch(q)}
<1>1. <<>> \in S
  BY BodyFacts DEF Labels
<1>2. ASSUME NEW q \in DOMAIN body, q # <<>>, Front(q) \in S PROVE q \in S
  <2> SUFFICES ASSUME body[q] \in Labels PROVE CaseOfSwitch(q)
    OBVIOUS
  <2>1. PICK p : p = Front(q)
    OBVIOUS
  <2>2. p \in DOMAIN body /\ q \in Seq(Nat \ {0}) /\ p \in Seq(Nat \ {0})
    BY <2>1, <1>2, BodyFacts
  <2>3. PICK i \in 1 .. Width(p) : q = Append(p, i)
    BY <1>2, <2>1, PartNumber
  <2>4. SwitchBody(p) \/ body[p] \in Labels \cup {"switch"}
    BY <2>1 DEF PlainExits
  <2>5. ASSUME NEW s \in DOMAIN body, body[s] = "switch", NEW n \in 1 .. Width(Within(s)),
               OnlyLabels(Append(Within(s), n), q)
        PROVE  CaseOfSwitch(q)
    BY <2>5 DEF CaseOfSwitch
  <2>6. CASE SwitchBody(p)
    <3>1. PICK s : s = Front(p)
      OBVIOUS
    <3>2. p # <<>> /\ body[p] = "block" /\ body[s] = "switch"
      BY <2>6, <3>1 DEF SwitchBody
    <3>3. s \in DOMAIN body
      BY <2>2, <3>1, <3>2, BodyFacts
    <3>4. PICK j \in 1 .. Width(s) : p = Append(s, j)
      BY <2>2, <3>1, <3>2, PartNumber
    <3>5. Width(s) = 1
      BY <3>2, <3>3, WidthFacts
    <3>6. p = Append(s, 1)
      BY <3>4, <3>5
    <3>7. Within(s) = p
      BY <3>2, <3>6 DEF Within
    <3>8. OnlyLabels(q, q)
      BY OnlyLabelsFacts
    <3>9. QED
      BY <2>3, <2>5, <3>2, <3>3, <3>7, <3>8
  <2>7. CASE body[p] = "switch"
    <3>1. Width(p) = 1
      BY <2>2, <2>7, WidthFacts
    <3>2. q = Append(p, 1)
      BY <2>3, <3>1
    <3>3. Within(p) = p
      BY <3>2 DEF Within, Labels
    <3>4. OnlyLabels(q, q) /\ 1 \in 1 .. Width(p)
      BY <3>1, OnlyLabelsFacts
    <3>5. QED
      BY <2>2, <2>5, <2>7, <3>2, <3>3, <3>4
  <2>8. CASE body[p] \in Labels
    <3>1. CaseOfSwitch(p)
      BY <1>2, <2>1, <2>8
    <3>2. PICK s \in DOMAIN body : \E n \in 1 .. Width(Within(s)) :
            body[s] = "switch" /\ OnlyLabels(Append(Within(s), n), p)
      BY <3>1 DEF CaseOfSwitch
    <3>3. PICK n \in 1 .. Width(Within(s)) : body[s] = "switch" /\ OnlyLabels(Append(Within(s), n), p)
      BY <3>2
    <3>4. PICK a : a = Append(Within(s), n)
      OBVIOUS
    <3>5. a \in DOMAIN body /\ a \in Seq(Nat \ {0})
      BY <3>3, <3>4, WithinFacts, BodyFacts
    <3>6. /\ Len(p) \in Nat /\ Len(q) = Len(p) + 1 /\ SubSeq(q, 1, Len(p)) = p
          /\ \A m \in 0 .. Len(p) : SubSeq(q, 1, m) = SubSeq(p, 1, m)
          /\ \A m \in 1 .. Len(p) : q[m] = p[m]
      <4>1. /\ Len(q) \in Nat /\ Len(q) >= 1 /\ Len(p) = Len(q) - 1
            /\ SubSeq(q, 1, Len(q) - 1) = p
            /\ \A m \in 0 .. (Len(q) - 1) : SubSeq(p, 1, m) = SubSeq(q, 1, m)
            /\ \A m \in 1 .. (Len(q) - 1) : p[m] = q[m]
        BY <1>2, <2>1, <2>2, FrontFacts
      <4>2. QED
        BY <4>1
    <3>7. IsPrefix(a, p) /\ \A m \in Len(a) .. (Len(p) - 1) : body[SubSeq(p, 1, m)] \in Labels
      BY <3>3, <3>4 DEF OnlyLabels
    <3>8. Len(a) <= Len(p) /\ \A m \in 1 .. Len(a) : a[m] = p[m]
      BY <2>2, <3>5, <3>7, PrefixFacts DEF Under
    <3>9. Len(a) \in Nat
      BY <3>5
    <3>10. Under(a, q)
      BY <3>6, <3>8, <3>9 DEF Under
    <3>11. IsPrefix(a, q)
      BY <2>2, <3>5, <3>10, PrefixFacts
    <3>12. ASSUME NEW m \in Len(a) .. (Len(q) - 1) PROVE body[SubSeq(q, 1, m)] \in Labels
      <4>1. CASE m = Len(p)
        BY <2>8, <3>6, <4>1
      <4>2. CASE m # Len(p)
        <5>0. PICK k \in Nat, l \in Nat : k = Len(a) /\ l = Len(p) /\ l + 1 = Len(q)
          BY <3>6, <3>9
        <5>01. m \in k .. ((l + 1) - 1) /\ m # l
          BY <4>2, <5>0
        <5>02. m \in k .. (l - 1) /\ m \in 0 .. l
          BY <5>01
        <5>1. m \in Len(a) .. (Len(p) - 1) /\ m \in 0 .. Len(p)
          BY <5>0, <5>02
        <5>2. QED
          BY <3>6, <3>7, <5>1
      <4>3. QED
        BY <4>1, <4>2
    <3>13. OnlyLabels(a, q)
      BY <3>11, <3>12 DEF OnlyLabels
    <3>14. QED
      BY <2>5, <3>3, <3>4, <3>13
  <2>9. QED
    BY <2>4, <2>6, <2>7, <2>8
<1> HIDE DEF S
<1>3. DOMAIN body \subseteq S
  BY <1>1, <1>2, AllPlaces
<1>4. QED
  BY <1>3 DEF S

\* Where no number wraps, that of the regular paths is exact.
LEMMA RegularExact ==
  ASSUME GivenFunction, PlainExits, PathsFit, NEW p, Proper(p)
  PROVE  getPathCount[p].regular = Num(Paths[p], Regular)
<1>1. p \in DOMAIN body
  BY DEF Proper
<1>2. Claim(p)
  BY <1>1, AllClaims
<1>3. PICK R, S : R = getPathCount[p] /\ S = Paths[p]
  OBVIOUS
<1>4. PICK y, z : Come(R, Num(S, Regular), y, z)
  BY <1>2, <1>3, Zenon DEF Claim, Right
<1>5. R.regular \in Nat /\ R.regular < Modulus /\ Num(S, Regular) \in Nat /\ Same(R.regular, Num(S, Regular))
  BY <1>4 DEF Come, Numbers
<1>6. Num(S, Regular) < Modulus
  <2>1. IsFiniteSet(S)
    BY <1>1, <1>3, AllSound DEF Sound, Distinct
  <2>2. Cardinality(S) < Modulus
    BY <1>1, <1>3 DEF PathsFit
  <2>3. Ending(S, Regular) \in SUBSET S
    BY DEF Ending
  <2>4. Cardinality(Ending(S, Regular)) <= Cardinality(S) /\ Cardinality(S) \in Nat
    BY <2>1, <2>3, FS_Subset, FS_CardinalityType
  <2>5. QED
    BY <1>5, <2>2, <2>4, ModulusAssumption DEF Num
<1>7. QED
  BY <1>3, <1>5, <1>6, SameFacts

\* Then the walk over a block skips no statement that a path comes to.
SkipInv(p, n) ==
  /\ OtherAt(p, n) = [res |-> OtherAt(p, n).res, skip |-> OtherAt(p, n).skip]
  /\ OtherAt(p, n).skip \in BOOLEAN
  /\ OtherAt(p, n).skip => n > 0 /\ RegularTo(p, n) = 0

LEMMA SkipStep ==
  ASSUME GivenFunction, PlainExits, PathsFit, NEW p, Proper(p), body[p] = "block",
         NEW n \in 1 .. Count(p), SkipInv(p, n - 1)
  PROVE  SkipInv(p, n)
<1>0. p \in DOMAIN body /\ Substatements(p)[n] = Append(p, n) /\ Count(p) \in Nat
      /\ Proper(Substatements(p)[n])
  BY SubstatementFacts, SubProper DEF Proper, At
<1>1. PICK kind : kind = body[Append(p, n)]
  OBVIOUS
<1>2. kind \in {"other", "declaration", "return", "break", "continue", "block", "if", "switch"}
                 \cup Loops
  BY <1>0, <1>1, ProperKinds
<1>3. PICK acc, o, sub : acc = OtherAt(p, n - 1) /\ o = OtherAt(p, n) /\ sub = SubCounts(p)[n]
  OBVIOUS
<1>4. o = OtherStep(acc, kind, sub)
  <2>1. Len(SubCounts(p)) \in Nat /\ n \in 1 .. Len(SubCounts(p))
    BY <1>0, SubCountsFacts
  <2>2. OtherUpTo(p, SubCounts(p))[n]
          = OtherStep(OtherUpTo(p, SubCounts(p))[n - 1], body[Append(p, n)], SubCounts(p)[n])
    BY <2>1, OtherSteps
  <2>3. QED
    BY <1>1, <1>3, <2>2 DEF OtherAt
<1>5. /\ acc = [res |-> acc.res, skip |-> acc.skip] /\ acc.skip \in BOOLEAN
      /\ acc.skip => RegularTo(p, n - 1) = 0
  BY <1>3, Zenon DEF SkipInv
<1>6. OtherOutcome(acc, kind, sub, o)
  BY <1>2, <1>4, <1>5, OtherCases
<1>7. o = [res |-> o.res, skip |-> o.skip] /\ o.skip \in BOOLEAN
  BY <1>6, Zenon DEF OtherOutcome
<1>8. PICK R \in Nat, a \in Nat : R = RegularTo(p, n - 1) /\ a = Num(SubPaths(p)[n], Regular)
  BY <1>0, CountedThree
<1>9. RegularTo(p, n) = R * a
  <2>1. Entry(p, n) = 0 /\ R + 0 = R
    BY DEF Entry
  <2>2. RegularTo(p, n) = (RegularTo(p, n - 1) + Entry(p, n)) * Num(SubPaths(p)[n], Regular)
    BY <1>0, CountedThree
  <2>3. QED
    BY <1>8, <2>1, <2>2, Zenon
<1>10. n > 0
  BY <1>0
<1>11. ASSUME o.skip PROVE R * a = 0
  <2>1. CASE acc.skip
    <3>1. R = 0
      BY <1>5, <1>8, <2>1
    <3>2. QED
      BY <3>1
  <2>2. ASSUME a = 0 PROVE R * a = 0
    BY <2>2
  <2>3. SubPaths(p)[n] = Paths[Append(p, n)] /\ SubCounts(p)[n] = getPathCount[Append(p, n)]
        /\ Append(p, n) \in DOMAIN body
    <3>1. SubPaths(p)[n] = Paths[Substatements(p)[n]]
      BY <1>0, SubPathsFacts
    <3>2. SubCounts(p)[n] = getPathCount[Substatements(p)[n]]
      BY <1>0, SubCountsFacts
    <3>3. Substatements(p)[n] \in DOMAIN body
      BY <1>0 DEF Proper
    <3>4. QED
      BY <1>0, <3>1, <3>2, <3>3, Zenon
  <2>4. CASE ~ acc.skip /\ kind \in {"return", "break", "continue"}
    <3>1. a = 0
      BY <1>1, <1>8, <2>3, <2>4, LeafNumbers
    <3>2. QED
      BY <2>2, <3>1
  <2>5. CASE ~ acc.skip /\ kind \in {"block", "if", "switch"} \cup Loops
    <3>1. sub.regular = 0
      BY <1>6, <1>11, <2>5 DEF OtherOutcome
    <3>2. sub.regular = a
      <4>1. getPathCount[Append(p, n)].regular = Num(Paths[Append(p, n)], Regular)
        BY <1>0, RegularExact
      <4>2. QED
        BY <1>3, <1>8, <2>3, <4>1, Zenon
    <3>3. QED
      BY <2>2, <3>1, <3>2
  <2>6. CASE ~ acc.skip /\ kind \in {"other", "declaration"}
    <3>1. ~ o.skip
      BY <1>6, <2>6, Zenon DEF OtherOutcome
    <3>2. QED
      BY <1>11, <3>1
  <2>7. QED
    BY <1>2, <1>5, <2>1, <2>4, <2>5, <2>6
<1>12. QED
  BY <1>3, <1>7, <1>9, <1>10, <1>11, Zenon DEF SkipInv

LEMMA SkipFacts ==
  ASSUME GivenFunction, PlainExits, PathsFit, NEW p, Proper(p), body[p] = "block"
  PROVE  \A n \in 0 .. Count(p) : SkipInv(p, n)
<1> DEFINE S == {n \in Nat : n \in 0 .. Count(p) => SkipInv(p, n)}
<1>0. p \in DOMAIN body /\ Count(p) \in Nat /\ Len(SubCounts(p)) = Count(p)
  BY SubstatementFacts, SubCountsFacts DEF Proper
<1>1. 0 \in S
  <2>1. OtherAt(p, 0) = [res |-> One, skip |-> FALSE]
    BY <1>0, OtherSteps DEF OtherAt
  <2>11. /\ OtherAt(p, 0) = [res |-> OtherAt(p, 0).res, skip |-> OtherAt(p, 0).skip]
         /\ OtherAt(p, 0).skip = FALSE
    BY <2>1
  <2>2. SkipInv(p, 0)
    BY <2>11, Zenon DEF SkipInv
  <2>3. QED
    BY <2>2
<1>2. ASSUME NEW n \in Nat, n \in S PROVE n + 1 \in S
  <2>1. CASE n + 1 \in 0 .. Count(p)
    <3>1. n + 1 \in 1 .. Count(p) /\ n \in 0 .. Count(p) /\ (n + 1) - 1 = n
      BY <1>0, <2>1
    <3>2. SkipInv(p, (n + 1) - 1)
      BY <1>2, <3>1
    <3>3. SkipInv(p, n + 1)
      BY <3>1, <3>2, SkipStep
    <3>4. QED
      BY <3>3
  <2>2. CASE n + 1 \notin 0 .. Count(p)
    BY <2>2
  <2>3. QED
    BY <2>1, <2>2
<1> HIDE DEF S
<1>3. Nat \subseteq S
  BY <1>1, <1>2, AllNumbers
<1>4. \A n \in 0 .. Count(p) : n \in Nat
  BY <1>0
<1>5. QED
  BY <1>3, <1>4 DEF S
-----------------------------------------------------------------------------
(* The return points. *)

\* No statement is dead, and no number wraps.
Alive == PlainExits /\ PathsFit /\ \A p \in DOMAIN body : ~ Dead(p)

\* A block without dead statements: the walk does not skip any.
LEMMA NothingSkipped ==
  ASSUME GivenFunction, Alive, NEW p \in DOMAIN body, body[p] = "block", ~ SwitchBody(p),
         NEW n \in 1 .. Width(p)
  PROVE  ~ Skipped(p, Append(p, n))
<1>1. PlainExits /\ PathsFit /\ ~ Dead(p)
  BY DEF Alive
<1>2. Proper(p)
  BY DEF Proper, Labels
<1>3. Count(p) = Width(p) /\ Count(p) \in Nat /\ p \in Seq(Nat \ {0})
  BY SubstatementFacts, BodyFacts DEF Count
<1>4. n \in Nat \ {0} /\ n - 1 \in 0 .. Count(p)
  BY <1>3
<1>5. Last(Append(p, n)) = n
  BY <1>3, <1>4, AppendFacts
<1>6. \A i \in 1 .. Width(p) : Substatements(p)[i] = Append(p, i)
  BY <1>3, SubstatementFacts DEF At
<1>7. DOMAIN Substatements(p) = 1 .. Width(p)
  BY <1>3, SubstatementFacts
<1>8. /\ SubCounts(p) = [i \in 1 .. Width(p) |-> getPathCount[Append(p, i)]]
      /\ SubPaths(p) = [i \in 1 .. Width(p) |-> Paths[Append(p, i)]]
  BY <1>6, <1>7 DEF SubCounts, SubPaths, OfSubs
<1>9. Skipped(p, Append(p, n)) <=> OtherAt(p, n - 1).skip
  BY <1>5, <1>8, Zenon DEF Skipped, OtherAt
<1>10. ASSUME OtherAt(p, n - 1).skip PROVE FALSE
  <2>1. n - 1 > 0 /\ RegularTo(p, n - 1) = 0
    <3>1. SkipInv(p, n - 1)
      BY <1>1, <1>2, <1>4, SkipFacts
    <3>2. QED
      BY <1>10, <3>1, Zenon DEF SkipInv
  <2>2. n - 1 \in 1 .. (Width(p) - 1) /\ n - 1 \in 1 .. Count(p)
    BY <1>3, <1>4, <2>1
  <2>3. PICK x \in PathsUpTo(p, [i \in 1 .. Width(p) |-> Paths[Append(p, i)]])[n - 1] :
          x.end = "regular"
    BY <1>1, <2>2 DEF Dead
  <2>4. x \in UpTo(p, n - 1)
    BY <1>8, <2>3, Zenon DEF UpTo
  <2>5. x \in Ending(UpTo(p, n - 1), Regular)
    BY <2>3, <2>4 DEF Ending, Regular
  <2>6. IsFiniteSet(UpTo(p, n - 1))
    <3>1. \A q \in Below(p) : Sound(q)
      BY AllSound DEF Below
    <3>2. QED
      BY <1>4, <3>1, UpToFacts DEF Distinct
  <2>7. QED
    BY <2>1, <2>5, <2>6, NumType DEF RegularTo
<1>11. QED
  BY <1>9, <1>10

\* The count looks into every part that is a return or has parts.
LEMMA AllLookedInto ==
  ASSUME GivenFunction, Alive, NEW q \in DOMAIN body, q # <<>>, body[q] = "return" \/ Width(q) > 0
  PROVE  q \in LookedInto(Front(q))
<1>1. PICK p : p = Front(q)
  OBVIOUS
<1>2. p \in DOMAIN body /\ q \in Parts(p)
  BY <1>1, PartNumber
<1>3. PICK i \in 1 .. Width(p) : q = Append(p, i)
  BY <1>1, PartNumber
<1>4. PlainExits /\ ~ Dead(p)
  BY <1>2 DEF Alive
<1>5. body[p] \in Leaves \cup Loops \cup Labels \cup {"block", "if", "switch"}
  BY <1>2, <1>4, WidthFacts DEF PlainExits
<1>6. body[p] \notin Leaves
  <2>1. Width(p) # 0
    BY <1>3
  <2>2. QED
    BY <1>2, <2>1, WidthFacts
<1>7. CASE body[p] \in Labels
  <2>1. CaseOfSwitch(p)
    BY <1>2, <1>4, <1>7, LabelsOfCases
  <2>2. body[p] \notin {"if", "while", "for", "do"}
    BY <1>7 DEF Labels
  <2>3. LookedInto(p) = Parts(p)
    BY <2>1, <2>2 DEF LookedInto
  <2>4. QED
    BY <1>1, <1>2, <2>3
<1>8. CASE body[p] = "switch" \/ SwitchBody(p)
  <2>1. body[p] \notin {"if", "while", "for", "do"}
    BY <1>8 DEF SwitchBody
  <2>2. LookedInto(p) = Parts(p)
    BY <1>8, <2>1 DEF LookedInto
  <2>3. QED
    BY <1>1, <1>2, <2>2
<1>9. CASE body[p] \in {"if"} \cup Loops
  <2>1. ~ (body[p] = "switch" \/ SwitchBody(p) \/ CaseOfSwitch(p))
    BY <1>9 DEF SwitchBody, CaseOfSwitch, Labels, Loops
  <2>2. body[p] \in {"if", "while"} => ~ KnownTrue(p) /\ ~ KnownFalse(p)
    BY <1>4 DEF Dead
  <2>3. LookedInto(p) = Parts(p)
    <3>1. CASE body[p] = "if"
      BY <2>1, <2>2, <3>1 DEF LookedInto
    <3>2. CASE body[p] = "while"
      BY <2>1, <2>2, <3>2 DEF LookedInto
    <3>3. CASE body[p] \in {"for", "do"}
      BY <2>1, <3>3 DEF LookedInto
    <3>4. QED
      BY <1>9, <3>1, <3>2, <3>3 DEF Loops
  <2>4. QED
    BY <1>1, <1>2, <2>3
<1>10. CASE body[p] = "block" /\ ~ SwitchBody(p)
  <2>1. ~ (body[p] = "switch" \/ SwitchBody(p) \/ CaseOfSwitch(p))
        /\ body[p] \notin {"if", "while", "for", "do"}
    BY <1>10 DEF CaseOfSwitch, Labels
  <2>2. body[q] \in {"return", "if", "switch", "block"} \cup Loops
    <3>1. body[q] \in Leaves => body[q] = "return"
      BY WidthFacts
    <3>2. body[q] \notin Labels
      BY <1>1, <1>4, <1>10 DEF PlainExits, Labels
    <3>3. body[q] # "label"
      BY <1>4 DEF PlainExits
    <3>4. body[q] \in Leaves \cup Loops \cup Labels \cup {"block", "if", "switch", "label"}
      BY WidthFacts
    <3>5. QED
      BY <3>1, <3>2, <3>3, <3>4
  <2>3. ~ Skipped(p, q)
    BY <1>2, <1>3, <1>10, NothingSkipped
  <2>4. LookedInto(p) = {r \in Parts(p) :
            body[r] \in {"return", "if", "switch", "block"} \cup Loops /\ ~ Skipped(p, r)}
    BY <2>1 DEF LookedInto
  <2>5. QED
    BY <1>1, <1>2, <2>2, <2>3, <2>4
<1>11. QED
  BY <1>5, <1>6, <1>7, <1>8, <1>9, <1>10

LEMMA AllReached ==
  ASSUME GivenFunction, Alive
  PROVE  \A q \in DOMAIN body : body[q] = "return" => Reached(q)
<1> DEFINE S == {q \in DOMAIN body : body[q] = "return" \/ Width(q) > 0 => Reached(q)}
<1>1. <<>> \in S
  <2>1. Reached(<<>>)
    BY DEF Reached
  <2>2. QED
    BY <2>1, BodyFacts
<1>2. ASSUME NEW q \in DOMAIN body, q # <<>>, Front(q) \in S PROVE q \in S
  <2> SUFFICES ASSUME body[q] = "return" \/ Width(q) > 0 PROVE Reached(q)
    OBVIOUS
  <2>1. PICK p : p = Front(q)
    OBVIOUS
  <2>2. p \in DOMAIN body /\ q \in Seq(Nat \ {0}) /\ p \in Seq(Nat \ {0})
    BY <2>1, <1>2, BodyFacts
  <2>3. PICK i \in 1 .. Width(p) : q = Append(p, i)
    BY <1>2, <2>1, PartNumber
  <2>4. Width(p) > 0
    <3>1. Width(p) \in Nat
      BY <2>2, BodyFacts
    <3>2. QED
      BY <2>3, <3>1
  <2>5. Reached(p)
    BY <1>2, <2>1, <2>4
  <2>6. q \in LookedInto(p)
    BY <1>2, <2>1, AllLookedInto
  <2>7. PICK l \in Nat : /\ l = Len(p) /\ Len(q) = l + 1 /\ SubSeq(q, 1, l) = p /\ SubSeq(q, 1, l + 1) = q
                         /\ \A m \in 0 .. l : SubSeq(p, 1, m) = SubSeq(q, 1, m)
    <3>1. /\ Len(q) \in Nat /\ Len(q) >= 1 /\ Len(p) = Len(q) - 1
          /\ SubSeq(q, 1, Len(q) - 1) = p /\ SubSeq(q, 1, Len(q)) = q
          /\ \A m \in 0 .. (Len(q) - 1) : SubSeq(p, 1, m) = SubSeq(q, 1, m)
      BY <1>2, <2>1, <2>2, FrontFacts
    <3>2. PICK k \in Nat : Len(q) = k + 1
      BY <3>1
    <3>3. Len(q) - 1 = k
      BY <3>2
    <3>4. QED
      BY <3>1, <3>2, <3>3
  <2>8. ASSUME NEW n \in 0 .. (Len(q) - 1)
        PROVE  SubSeq(q, 1, n + 1) \in LookedInto(SubSeq(q, 1, n))
    <3>1. CASE n = l
      BY <2>6, <2>7, <3>1
    <3>2. CASE n # l
      <4>1. n \in 0 .. (l - 1) /\ n \in 0 .. l /\ n + 1 \in 0 .. l
        BY <2>7, <3>2
      <4>2. SubSeq(p, 1, n + 1) \in LookedInto(SubSeq(p, 1, n))
        BY <2>5, <2>7, <4>1 DEF Reached
      <4>3. SubSeq(p, 1, n + 1) = SubSeq(q, 1, n + 1) /\ SubSeq(p, 1, n) = SubSeq(q, 1, n)
        BY <2>7, <4>1
      <4>4. QED
        BY <4>2, <4>3
    <3>3. QED
      BY <3>1, <3>2
  <2>9. QED
    BY <2>8 DEF Reached
<1> HIDE DEF S
<1>3. DOMAIN body \subseteq S
  BY <1>1, <1>2, AllPlaces
<1>4. QED
  BY <1>3 DEF S

LEMMA ReturnPointsRight ==
  ASSUME GivenFunction, Alive
  PROVE  /\ ReturnsIn = Cardinality({p \in DOMAIN body : body[p] = "return"})
         /\ ImplicitReturn = IF MayEnd(<<>>, {"regular"}) THEN 1 ELSE 0
<1>1. {q \in DOMAIN body : body[q] = "return" /\ Reached(q)} = {p \in DOMAIN body : body[p] = "return"}
  BY AllReached
<1>2. getPathCount[<<>>].regular = Num(Paths[<<>>], Regular)
  BY RootProper, RegularExact DEF Alive
<1>3. Num(Paths[<<>>], Regular) = 0 <=> Ending(Paths[<<>>], Regular) = {}
  <2>1. IsFiniteSet(Paths[<<>>])
    BY RootProper, AllSound DEF Sound, Distinct
  <2>2. QED
    BY <2>1, NumType
<1>4. MayEnd(<<>>, {"regular"}) <=> Ending(Paths[<<>>], Regular) # {}
  BY DEF MayEnd, Ending, Regular
<1>5. QED
  BY <1>1, <1>2, <1>3, <1>4, Zenon DEF ReturnsIn, ImplicitReturn

LEMMA NothingElseChanges ==
  ASSUME body' = body, cond' = cond, initialised' = initialised, analysis' = analysis
  PROVE  ReturnsIn' = ReturnsIn /\ ImplicitReturn' = ImplicitReturn /\ (GivenFunction' <=> GivenFunction)
<1>0. getPathCount' = getPathCount
  BY SameCount
<1>1. ImplicitReturn' = ImplicitReturn
  BY <1>0, Zenon DEF ImplicitReturn
<1>2. ReturnsIn' = ReturnsIn
  <2>1. \A p, q : (Skipped(p, q))' <=> Skipped(p, q)
    BY <1>0 DEF Skipped, OtherUpTo, Width, Parts
  <2>2. \A p : (CaseOfSwitch(p))' <=> CaseOfSwitch(p)
    BY DEF CaseOfSwitch, Width, Parts, Within, OnlyLabels
  <2>3. \A p : (LookedInto(p))' = LookedInto(p)
    BY <2>1, <2>2 DEF LookedInto, SwitchBody, Parts, KnownTrue, KnownFalse
  <2>4. \A q : (Reached(q))' <=> Reached(q)
    BY <2>3 DEF Reached
  <2>5. QED
    BY <2>4 DEF ReturnsIn
<1>3. GivenFunction' <=> GivenFunction
  BY DEF GivenFunction
<1>4. QED
  BY <1>1, <1>2, <1>3

LEMMA CInvHolds == VSpec => []CInv
<1>1. VInit => CInv
  BY DEF VInit, Init, CInv
<1>2. CInv /\ [VNext]_<<vars, svars>> => CInv'
  <2> SUFFICES ASSUME CInv, [VNext]_<<vars, svars>> PROVE CInv'
    OBVIOUS
  <2>1. CASE VisitDeclaration
    <3>1. body' = body /\ cond' = cond /\ initialised' = initialised /\ analysis' = analysis
          /\ paths' = FunctionPaths /\ returns' = ReturnsIn + ImplicitReturn
      BY <2>1 DEF VisitDeclaration, VisitFunctionDecl
    <3>2. FunctionPaths' = FunctionPaths /\ ReturnsIn' = ReturnsIn
          /\ ImplicitReturn' = ImplicitReturn /\ (GivenFunction' <=> GivenFunction)
      BY <3>1, Unchanged, NothingElseChanges
    <3>3. QED
      BY <3>1, <3>2 DEF CInv
  <2>2. CASE UNCHANGED vars
    <3>1. /\ body' = body /\ cond' = cond /\ initialised' = initialised /\ analysis' = analysis
          /\ paths' = paths /\ returns' = returns
      BY <2>2 DEF vars
    <3>2. FunctionPaths' = FunctionPaths /\ ReturnsIn' = ReturnsIn
          /\ ImplicitReturn' = ImplicitReturn /\ (GivenFunction' <=> GivenFunction)
      BY <3>1, Unchanged, NothingElseChanges
    <3>3. QED
      BY <3>1, <3>2 DEF CInv
  <2>3. QED
    BY <2>1, <2>2 DEF VNext, VisitBody
<1>3. QED
  BY <1>1, <1>2, PTL DEF VSpec

-----------------------------------------------------------------------------
(* The theorems. *)

\* The visits in FunctionVisit are those of Statements.
LEMMA VisitsStatements == VSpec => SSpec
<1>1. VInit => SInit
  BY DEF VInit, Init, SInit
<1>2. [VNext]_<<vars, svars>> => [SNext]_svars
  BY DEF VNext, VisitDeclaration, VisitBody
<1>3. QED
  BY <1>1, <1>2, PTL DEF VSpec, SSpec

\* In a plain function FUNC_PATHS is the number of paths, up to where the unsigned
\* numbers wrap: what getIfPathCount(), getSwitchPathCount() and getOtherPathCount()
\* add and multiply, statement by statement (src/src/MetricMatcher.cpp), comes to the
\* paths that PathCount follows one by one, with and without condition analysis.
THEOREM PlainCountTheorem == VSpec => []PlainCountExact
<1>1. CInv => PlainCountExact
  BY CountRight DEF CInv, PlainCountExact
<1>2. QED
  BY <1>1, CInvHolds, PTL

\* In a function with plain exits, no dead statement and no number that wraps,
\* RETURN_POINT_CNT is the number of return statements and one for an end that a path
\* reaches: getPathCount() and getOtherPathCount(), which both count them, share them
\* out, and the latter skips none (src/src/MetricMatcher.cpp:418, 521, 705).
THEOREM ReturnPointsTheorem == VSpec => []ReturnPointsExact
<1>1. CInv => ReturnPointsExact
  BY ReturnPointsRight DEF CInv, ReturnPointsExact, Alive
<1>2. QED
  BY <1>1, CInvHolds, PTL

\* STMT_CNT of any body: each documented statement once, though some count in their own
\* visit and some in that of the one around it, and each variable with an initialiser
\* once; what stands directly below a label is lost unless it is a keyword statement
\* (VisitStmt(), the Visit function of each class, VisitVarDecl() and VisitLabelStmt(),
\* src/src/MetricMatcher.cpp).
THEOREM StatementsTheorem == VSpec => []StatementsExact
<1>1. SInv => StatementsExact
  BY FinishedStatements
<1>2. QED
  BY <1>1, VisitsStatements, SInvHolds, PTL

\* For any body, going up from each control statement and keeping the deepest gives the
\* largest number of levels, an else if being on the level of its if (FUNC_NESTING:
\* getControlDepth(), src/src/MetricUtils.cpp, and setMax()).
THEOREM NestingTheorem == VSpec => []NestingExact
<1>1. SInv => NestingExact
  BY FinishedNesting
<1>2. QED
  BY <1>1, VisitsStatements, SInvHolds, PTL
=============================================================================
