----------------------------- MODULE MCComments -----------------------------
(***************************************************************************)
(* Comments for two main files, one of which may include the other, a      *)
(* header with a guard and one without, in every arrangement of a few      *)
(* comments and inclusions.                                                *)
(***************************************************************************)
EXTENDS Comments, TLC, SequencesExt

CONSTANTS main_a, main_b, header, list

Contents(n, items) == BoundedSeq(items, n)

\* main_a includes anything, main_b only headers, the header only the list.
SmallTexts ==
  {main_a :> a @@ main_b :> b @@ header :> h @@ list :> l :
     a \in Contents(2, {Comment, main_b, header, list}),
     b \in Contents(2, {Comment, header, list}),
     h \in Contents(3, {Comment, list}) \ Contents(1, {Comment, list}),
     l \in Contents(1, {Comment})}
=============================================================================
