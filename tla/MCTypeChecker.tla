--------------------------- MODULE MCTypeChecker ---------------------------
(***************************************************************************)
(* Three modules: io.syn of the standard library, /d/a.syn and /d/b.syn.   *)
(* Either they import each other in every way; or two of them declare      *)
(* structs that refer to each other: backwards, forwards, to themselves,   *)
(* through a pointer, across modules and across an import cycle, with      *)
(* names declared twice or taken by a let.                                 *)
(***************************************************************************)
EXTENDS TypeChecker

CONSTANTS ioSyn, aSyn, bSyn,                  \* the modules
          io, rootA, rootB, rootZ, b, x, y,   \* "io", "/d/a", "/d/b", "/z", "b", "x", "y"
          v, A, B, C, File, nope              \* a variable, types

MCMods == {ioSyn, aSyn, bSyn}
MCNames == {io, rootA, rootB, rootZ, b, x, y, v, A, B, C, File, nope, i32}
MCRooted == {rootA, rootB, rootZ}
MCKeyMod == [n \in MCNames |-> CASE n = io -> ioSyn [] n = rootA -> aSyn
                                 [] n = rootB -> bSyn [] OTHER -> NULL]

(* The directory of io.syn, a relative path without a slash, is "io.syn":  *)
(* nothing is found from there.  y.syn exists in /d but is not compiled.   *)
MCAbsMod == [m \in MCMods |-> [n \in MCNames |->
                 IF m = ioSyn THEN Absent
                 ELSE CASE n = b -> bSyn [] n = y -> Other [] OTHER -> Absent]]

UpTo(S, n) == UNION {[1 .. k -> S] : k \in 0 .. n}
Program(p, q, r) == (ioSyn :> p) @@ (aSyn :> q) @@ (bSyn :> r)

-----------------------------------------------------------------------------
Import(p) == [op |-> "import", path |-> p]
Var(n, dots) == [base |-> "ident", name |-> n, dots |-> dots]

IoImports == {Import(rootA), Import(rootB)}
AImports == {Import(io), Import(rootA), Import(rootB), Import(rootZ),
             Import(b), Import(x), Import(y),
             [op |-> "let", name |-> v, value |-> Var(io, 0)],
             [op |-> "expr", value |-> Var(v, 1)]}
BImports == {Import(io), Import(rootA), [op |-> "other"],
             [op |-> "let", name |-> v, value |-> [base |-> "string", name |-> NULL, dots |-> 1]]}

Importing == {Program(p, q, r) : p \in UpTo(IoImports, 1), q \in UpTo(AImports, 2), r \in UpTo(BImports, 2)}

-----------------------------------------------------------------------------
Decl(n, fields) == [op |-> "struct", name |-> n, fields |-> fields]
Let(n, base, of) == [op |-> "let", name |-> n,
                     value |-> [base |-> base, name |-> of, dots |-> 0]]
By(n) == [qual |-> NULL, name |-> n, ptr |-> FALSE]
To(n) == [qual |-> NULL, name |-> n, ptr |-> TRUE]
In(q, n) == [qual |-> q, name |-> n, ptr |-> FALSE]

(* Three of these can make a chain, which may hang on another module. *)
Chaining ==
    {Decl(A, <<By(i32), By(B)>>), Decl(A, <<In(io, File)>>), Decl(B, <<By(i32)>>),
     Decl(B, <<To(A), By(C)>>), Decl(C, <<By(A), By(B)>>)}
Chains == {s \in UpTo(Chaining, 3) : \A i, j \in DOMAIN s : i # j => s[i].name # s[j].name}
Structs ==
    Chaining \cup
    {Decl(A, <<>>), Decl(A, <<By(i32)>>), Decl(A, <<To(B)>>), Decl(A, <<By(A)>>),
     Decl(A, <<By(nope), By(B)>>), Decl(A, <<By(io)>>),
     Decl(A, <<By(io), By(io)>>), Decl(B, <<By(A)>>), Decl(File, <<By(i32)>>),
     Let(A, "ident", B), Let(B, "int", NULL)}

IoStructs == {<<>>,
              <<Decl(File, <<>>)>>,
              <<Decl(File, <<By(i32), To(File)>>)>>,
              <<Decl(File, <<By(File)>>)>>,
              <<Import(rootA), Decl(File, <<In(rootA, A)>>)>>,
              <<Import(rootB), Decl(File, <<By(rootB), By(rootB)>>)>>,
              <<Import(rootA), Let(A, "ident", File), Decl(A, <<>>), Decl(File, <<By(i32)>>)>>}

MCPrograms == Importing \cup
    {Program(p, i \o q, <<>>) : p \in IoStructs, i \in {<<>>, <<Import(io)>>},
                                q \in UpTo(Structs, 2) \cup Chains}
=============================================================================
