----------------------------- MODULE MCAstPass -----------------------------
(***************************************************************************)
(* AstPass for two programs of two main files that share a header: one     *)
(* where a function of the other main file is called, and one with nested  *)
(* def files, exclusions and every idiom.                                  *)
(***************************************************************************)
EXTENDS AstPass, TLC

CONSTANTS main_a, main_b, header, defs, inner, excluded, fun_f, fun_g, fun_h

Fn(p, static, inline) == [path |-> p, static |-> static, inline |-> inline, returns |-> inline]

\* main_a includes the header and defines fun_f; the header defines fun_g.
UnitA == [main |-> main_a, paths |-> {<<main_a>>, <<header, main_a>>},
          body |-> fun_f :> Fn(<<main_a>>, FALSE, FALSE)
                     @@ fun_g :> Fn(<<header, main_a>>, TRUE, TRUE)]

\* main_b sees the header, and with it fun_g, but not fun_f.
UnitB == [main |-> main_b, paths |-> {<<main_b>>, <<header, main_b>>},
          body |-> fun_g :> Fn(<<header, main_b>>, TRUE, TRUE)]

\* The header takes fun_g from a def file that another def file includes; main_a
\* includes an excluded header as well and defines an excluded function.
UnitD == [main |-> main_a,
          paths |-> {<<main_a>>, <<header, main_a>>, <<inner, defs, header, main_a>>,
                     <<excluded, main_a>>},
          body |-> fun_h :> Fn(<<main_a>>, FALSE, FALSE)
                     @@ fun_g :> Fn(<<inner, defs, header, main_a>>, TRUE, FALSE)]

\* main_b has nothing but the same header.
UnitE == [main |-> main_b, paths |-> {<<inner, defs, header, main_b>>},
          body |-> fun_g :> Fn(<<inner, defs, header, main_b>>, TRUE, FALSE)]

Program(tus, idioms, fileScope) == [tus |-> tus, idioms |-> idioms, fileScope |-> fileScope]

Plain == {Program(<<UnitA, UnitB>>, {}, FALSE), Program(<<UnitB, UnitA>>, {}, FALSE)}

All == {Program(<<UnitA, UnitB>>, {"fileScopeCalls"}, FALSE),
        Program(<<UnitB, UnitA>>, {"typeConstants", "localPrototypes"}, FALSE),
        Program(<<UnitD, UnitE>>, AllIdioms, TRUE)}

Statement == {{"STATEMENTS"}}
Bytes == [f \in Files |-> 1]
=============================================================================
