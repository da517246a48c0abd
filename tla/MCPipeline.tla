----------------------------- MODULE MCPipeline -----------------------------
(***************************************************************************)
(* The program on two main files, of which one may include the other, a    *)
(* header, each with a guard, and a standard header without (as <assert.h> *)
(* is), which is excluded.                                                 *)
(***************************************************************************)
EXTENDS Pipeline, TLC, SequencesExt

CONSTANTS main_a, main_b, header, std, c99

Contents(n, items) == BoundedSeq(items, n)

\* main_a includes main_b or the header, main_b the header, the header the standard header.
SmallTexts ==
  {main_a :> a @@ main_b :> b @@ header :> h @@ std :> <<Comment>> :
     a \in Contents(2, {Comment, main_b, header}) \ Contents(1, {Comment}),
     b \in {<<header>>, <<header, Comment>>, <<Comment, Comment>>},
     h \in {<<Comment>>, <<Comment, Comment>>, <<Comment, std, Comment>>}}

TheLanguage == [m \in {main_a, main_b} |-> c99]
TheHeaders == c99 :> {std}
=============================================================================
