---------------------------- MODULE MCPathCount ----------------------------
(***************************************************************************)
(* FunctionVisit on functions of a few statements: every statement, with   *)
(* every statement or another level of conditions and loops inside it.     *)
(***************************************************************************)
EXTENDS FunctionVisit

Conditions == {"variable", "true", "false"}

Stmt(kind, known, parts) == [kind |-> kind, known |-> known, parts |-> parts, inits |-> 0]
Declares(n, s) == [s EXCEPT !.inits = n]
Leaf(kind) == Stmt(kind, "none", <<>>)
Block(ss) == Stmt("block", "none", ss)
Case(label, s) == Stmt(label, "none", <<s>>)

\* Statements over the statements S, with conditions in conds.
Ifs(S, conds) ==
  {Stmt("if", c, <<s>>) : c \in conds, s \in S}
    \cup {Stmt("if", c, <<s, t>>) : c \in conds, s \in S, t \in S}
Whiles(S, conds) == {Stmt("while", c, <<s>>) : c \in conds, s \in S}
ForsAndDos(S) ==
  {Declares(1, Stmt("for", "variable", <<s>>)) : s \in S}
    \cup {Stmt("do", "variable", <<s>>) : s \in S}
Blocks(S, T) == {Block(<<s, t>>) : s \in S, t \in T}

\* Switches of two cases, or of one with two labels and another statement.
Switches(S) ==
  {Stmt("switch", "variable", <<Block(<<Case("case", s), Case(l, t)>>)>>) :
     s \in S, t \in S, l \in Labels}
  \cup {Stmt("switch", c, <<Block(<<Case("case", Case("case", s)), t>>)>>) :
     s \in S, t \in S, c \in {"variable", "all cases"}}

Simple == {Leaf(k) : k \in {"other", "return", "break", "continue"}}
Conditional == {Stmt("if", "variable", <<s>>) : s \in Simple}

Level1 == Ifs(Simple, Conditions) \cup Whiles(Simple, Conditions) \cup ForsAndDos(Simple)
            \cup Switches(Simple)
Inner == Simple \cup Blocks(Conditional, Simple) \cup ForsAndDos(Conditional)
           \cup Whiles(Conditional, {"variable", "true"})
Leaving == {Leaf(k) : k \in {"return", "break"}}
InCase == Simple \cup ForsAndDos(Conditional)
            \cup Blocks({Stmt("if", "variable", <<s>>) : s \in Leaving}, Leaving \cup {Leaf("other")})
Level2 == Level1 \cup Whiles(Inner, Conditions) \cup ForsAndDos(Inner) \cup Switches(InCase)

\* The breaks and continues in s that belong to a statement around it.
RECURSIVE Escapes(_)
Escapes(s) ==
  IF s.kind \in {"break", "continue"} THEN {s.kind}
  ELSE IF s.kind \in Loops THEN {}
  ELSE UNION {Escapes(s.parts[i]) : i \in DOMAIN s.parts}
         \ (IF s.kind = "switch" THEN {"break"} ELSE {})

Complete(S) == {f \in S : Escapes(f) = {}}

\* Functions with labels, gotos and declarations, and with chains of conditions.
Label(s) == Stmt("label", "none", <<s>>)
Jumps == {Leaf("goto"), Stmt("if", "variable", <<Leaf("goto")>>)}
Targets == {Label(s) : s \in Simple \cup Conditional \cup ForsAndDos(Simple)}
Declarations == {Declares(n, Leaf("declaration")) : n \in {0, 2}}
Jumping ==
  {Block(<<s, t, u>>) : s \in Jumps \cup Simple, t \in Simple \cup Declarations, u \in Targets}
    \cup {Block(<<s>>) : s \in Ifs(Targets \cup Jumps, {"variable"})}
Nested == {Leaf("other"), Leaf("return"), Stmt("if", "variable", <<Leaf("return")>>)}
Chains == Ifs(Nested \cup ForsAndDos(Nested) \cup Ifs(Nested, {"variable"}), {"variable"})

\* A do around a loop that is left by break, and a return after a label: these may come
\* out with no path at all.
Pathless ==
  {Block(<<Stmt("do", "variable", <<Block(<<Stmt("while", "variable", <<Leaf("break")>>), s>>)>>), t>>) :
     s \in Simple, t \in Simple}
    \cup {Block(<<s, t, Label(u), v>>) : s \in Jumps, t \in Simple, u \in Simple, v \in Simple}

FewStatements == Complete({Block(<<s>>) : s \in Level2 \cup Chains} \cup Jumping \cup Pathless)
AllFunctions == FewStatements \cup Complete(Blocks(Level2, Simple \cup Conditional))

\* Functions of conditions and returns only.
ReturningFunctions == Complete(Blocks(Conditional, Simple))

\* What clang makes of a function: its statements by their places.
RECURSIVE Places(_)
Places(s) ==
  {<<>>} \cup UNION {{<<i>> \o p : p \in Places(s.parts[i])} : i \in DOMAIN s.parts}

RECURSIVE At(_, _)
At(s, p) == IF p = <<>> THEN s ELSE At(s.parts[Head(p)], Tail(p))

Tree(f) ==
  [body |-> [p \in Places(f) |-> At(f, p).kind], cond |-> [p \in Places(f) |-> At(f, p).known],
   initialised |-> UNION {{p} \X (1 .. At(f, p).inits) : p \in Places(f)}]

Trees == {Tree(f) : f \in AllFunctions}
ReturningTrees == {Tree(f) : f \in ReturningFunctions}

\* Statements reads neither analysis nor conditions, and what stands after another
\* statement counts as it does alone: its visits are explored for the functions without.
Explored ==
  visited # {} => ~ analysis /\ Width(<<>>) # 2 /\ \A p \in DOMAIN cond : cond[p] # "true"
=============================================================================
