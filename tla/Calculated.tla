----------------------------- MODULE Calculated -----------------------------
(***************************************************************************)
(* The metrics that MetricUnit::getCounter() calculates from others        *)
(* (src/src/MetricUnit.cpp).  Nothing of them is stored: c gives the       *)
(* stored counters of a unit, or their sums over its subtree, and s the    *)
(* spellings of its literals, or their union over its subtree.             *)
(*                                                                         *)
(* HALSTEAD_CALC_LENGTH and HALSTEAD_VOLUME are logarithms and left out.   *)
(***************************************************************************)
EXTENDS Integers, Sequences, FiniteSets, FiniteSetsExt, Functions

CONSTANTS
  Modulus,          \* 2^32: counter_t is an unsigned 32-bit integer
  Scaling,          \* m_metricScaling of the metrics that are no integers
  OperatorMetrics, KeywordMetrics,                    \* m_operatorMetrics, m_keywordMetrics
  HalsteadOperatorMetrics, HalsteadOperandMetrics     \* m_halstead...Metrics

\* The stored metrics of literals and identifiers, whose spellings are kept as well.
Literals ==
  {"NUMERIC_CONSTANTS", "CHAR_CONSTS", "STRING_LITERALS", "BODY_UNRESERVED_IDENTIFIERS"}
OtherLiterals ==
  {"TOKEN_NUMERIC_CONSTANTS", "TOKEN_CHAR_CONSTS", "TOKEN_STRING_LITERALS",
   "UNRESERVED_IDENTIFIERS", "TOKEN_UNRESERVED_IDENTIFIERS"}

Conditions ==
  {"FORLOOP", "IF", "WHILE", "OPERATOR_LOGICAL_AND", "OPERATOR_LOGICAL_OR", "OPERATOR_TERNARY"}
TokenConditions ==
  {"TOKEN_FOR", "TOKEN_IF", "TOKEN_WHILE", "TOKEN_AMPAMP", "TOKEN_PIPEPIPE", "TOKEN_QUESTION"}

Stored ==
  Literals \cup OtherLiterals \cup Conditions \cup TokenConditions
    \cup {"CASE", "SWITCH", "TOKEN_CASE", "TOKEN_SWITCH", "STATEMENTS", "COMMENT_COUNT",
          "CALLED_BY_LOCAL", "CALLED_BY_EXTERN", "FILES"}
    \cup OperatorMetrics \cup KeywordMetrics
    \cup HalsteadOperatorMetrics \cup HalsteadOperandMetrics

counter_t_Na == Modulus - 2
-----------------------------------------------------------------------------
SumOf(S, c) == SumFunctionOnSet(c, S) % Modulus
KindsOf(S, c) == Cardinality({m \in S : c[m] > 0})
SpellingsOf(S, s) == SumFunctionOnSet([l \in S |-> Cardinality(s[l])], S)

OperandCount(c) == (SumOf(HalsteadOperandMetrics, c) + SumOf(Literals, c)) % Modulus
OperandUnique(c, s) == KindsOf(HalsteadOperandMetrics, c) + SpellingsOf(Literals, s)

Vocabulary(c, s) == (KindsOf(HalsteadOperatorMetrics, c) + OperandUnique(c, s)) % Modulus
Length(c) == (SumOf(HalsteadOperatorMetrics, c) + OperandCount(c)) % Modulus

\* The product wraps before it is divided.
Vocf(c, s) ==
  IF Vocabulary(c, s) > 0
  THEN ((Length(c) * Scaling["VOCF"]) % Modulus) \div Vocabulary(c, s)
  ELSE counter_t_Na

\* Clipped at 1.0.
CommentDensity(c) ==
  LET one == Scaling["HIS_COMMENT_DENSITY"] IN
  IF c["STATEMENTS"] > 0
  THEN Min({((c["COMMENT_COUNT"] * one) % Modulus) \div c["STATEMENTS"], one})
  ELSE counter_t_Na

\* Half the operators times operators by operands, up to the rounding of floats.
Difficulty(c, s) ==
  LET n == KindsOf(HalsteadOperatorMetrics, c) IN
  IF OperandUnique(c, s) > 0
  THEN (n * n * Scaling["HALSTEAD_DIFFICULTY"]) \div (2 * OperandUnique(c, s))
  ELSE counter_t_Na

Cyclomatic(decisions, c, isFnOrMethod) ==
  IF isFnOrMethod THEN (SumOf(decisions, c) + 1) % Modulus ELSE 0

\* The metric of a literal's distinct spellings.
UniqueOf(l) == l \o "_UNIQ"

CalculatedMetrics ==
  {"HIS_CALLING", "OPERATOR_COUNT", "OPERATOR_TYPES", "KEYWORD_CNT", "KEYWORD_TYPES",
   "OPERAND_HALSTEAD_COUNT", "OPERAND_HALSTEAD_UNIQUE", "OPERATOR_HALSTEAD_COUNT",
   "OPERATOR_HALSTEAD_UNIQUE", "HALSTEAD_VOCABULARY", "HALSTEAD_LENGTH",
   "HALSTEAD_DIFFICULTY", "VOCF", "HIS_COMMENT_DENSITY", "CYCLOMATIC", "MODIFIED_CYCLOMATIC",
   "TOK_CYCLOMATIC", "TOK_MODIFIED_CYCLOMATIC"}
    \cup {UniqueOf(l) : l \in Literals \cup OtherLiterals}

ASSUME CalculatedAssumption ==
  /\ Modulus \in Nat /\ Modulus > 4 /\ Scaling["VOCF"] \in Nat \ {0}
  /\ IsFiniteSet(HalsteadOperatorMetrics) /\ IsFiniteSet(HalsteadOperandMetrics)
  /\ Stored \cap CalculatedMetrics = {}

\* getCounter() of a unit, given what its stored metrics come to.
getCounter(m, c, s, isFnOrMethod) ==
  CASE m \in Stored -> c[m]
    [] m = "HIS_CALLING" -> (c["CALLED_BY_LOCAL"] + c["CALLED_BY_EXTERN"]) % Modulus
    [] m = "OPERATOR_COUNT" -> SumOf(OperatorMetrics, c)
    [] m = "OPERATOR_TYPES" -> KindsOf(OperatorMetrics, c)
    [] m = "KEYWORD_CNT" -> SumOf(KeywordMetrics, c)
    [] m = "KEYWORD_TYPES" -> KindsOf(KeywordMetrics, c)
    [] m = "OPERAND_HALSTEAD_COUNT" -> OperandCount(c)
    [] m = "OPERAND_HALSTEAD_UNIQUE" -> OperandUnique(c, s)
    [] m = "OPERATOR_HALSTEAD_COUNT" -> SumOf(HalsteadOperatorMetrics, c)
    [] m = "OPERATOR_HALSTEAD_UNIQUE" -> KindsOf(HalsteadOperatorMetrics, c)
    [] m = "HALSTEAD_VOCABULARY" -> Vocabulary(c, s)
    [] m = "HALSTEAD_LENGTH" -> Length(c)
    [] m = "HALSTEAD_DIFFICULTY" -> Difficulty(c, s)
    [] m = "VOCF" -> Vocf(c, s)
    [] m = "HIS_COMMENT_DENSITY" -> CommentDensity(c)
    [] m = "CYCLOMATIC" -> Cyclomatic(Conditions \cup {"CASE"}, c, isFnOrMethod)
    [] m = "MODIFIED_CYCLOMATIC" -> Cyclomatic(Conditions \cup {"SWITCH"}, c, isFnOrMethod)
    [] m = "TOK_CYCLOMATIC" -> Cyclomatic(TokenConditions \cup {"TOKEN_CASE"}, c, isFnOrMethod)
    [] m = "TOK_MODIFIED_CYCLOMATIC" ->
         Cyclomatic(TokenConditions \cup {"TOKEN_SWITCH"}, c, isFnOrMethod)
    [] OTHER -> Cardinality(s[CHOOSE l \in Literals \cup OtherLiterals : UniqueOf(l) = m])
=============================================================================
