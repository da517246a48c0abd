----------------------------- MODULE MCLexPass -----------------------------
(***************************************************************************)
(* LexPass for a main file that may be given twice, a file that is both    *)
(* main and included, a def file and an excluded header, and two functions *)
(* of which one is excluded.                                               *)
(***************************************************************************)
EXTENDS LexPass

CONSTANTS main_a, header, defs, excluded, fun_f, fun_g
=============================================================================
