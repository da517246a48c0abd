---------------------------- MODULE FunctionBody ----------------------------
(***************************************************************************)
(* The body of a C function as clang hands it to the visitor: the kind of  *)
(* the statement at each place, a place being the way down to it by the    *)
(* numbers of the parts, what is known of its condition, and the variables *)
(* it declares.  An empty statement is like a declaration of nothing.      *)
(***************************************************************************)
EXTENDS Integers, Sequences, FiniteSets, SequencesExt, FiniteSetsExt

CONSTANT Functions  \* functions, as [body, cond, initialised]

Leaves == {"other", "declaration", "return", "break", "continue", "goto"}
Loops == {"while", "for", "do"}
Labels == {"case", "default"}

\* How many parts a statement of a kind has; the expressions in it are left out.
Arities(kind) ==
  CASE kind \in Leaves -> {0}
    [] kind = "block" -> Nat
    [] kind = "if" -> {1, 2}
    [] kind \in Loops \cup Labels \cup {"switch", "label"} -> {1}
    [] OTHER -> {}

PartsIn(b, p) == {q \in DOMAIN b : Len(q) = Len(p) + 1 /\ Front(q) = p}

\* What may declare variables: a declaration, and the head of a for.
Declaring(b) == {p \in DOMAIN b : b[p] \in {"declaration", "for"}}

ASSUME FunctionAssumption ==
  \A f \in Functions :
    /\ IsFiniteSet(DOMAIN f.body) /\ DOMAIN f.body \subseteq Seq(Nat \ {0})
    /\ <<>> \in DOMAIN f.body /\ f.body[<<>>] = "block"
    /\ \A p \in DOMAIN f.body \ {<<>>} : Front(p) \in DOMAIN f.body
    /\ \A p \in DOMAIN f.body :
         LET n == Cardinality(PartsIn(f.body, p)) IN
           /\ n \in Arities(f.body[p])
           /\ PartsIn(f.body, p) = {Append(p, i) : i \in 1 .. n}
    /\ IsFiniteSet(f.initialised) /\ f.initialised \subseteq Declaring(f.body) \X Nat

VARIABLES
  body,        \* kinds of the statements of the function being visited
  cond,        \* what is known of their conditions: "true", "false" or neither
  initialised  \* its variables with an initialiser: where they are declared, and a number

GivenFunction ==
  \E f \in Functions : body = f.body /\ cond = f.cond /\ initialised = f.initialised

Parts(p) == PartsIn(body, p)
Width(p) == Cardinality(Parts(p))
=============================================================================
