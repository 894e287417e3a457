------------------------------ MODULE MCDriver ------------------------------
(***************************************************************************)
(* Command lines of up to two files of every fate, after a standard        *)
(* library of one file, which may be missing or broken.                    *)
(***************************************************************************)
EXTENDS Driver

Good(path, text) == [path |-> path, under |-> TRUE, error |-> 0, why |-> "", text |-> text]
Bad(path, error, why) == [path |-> path, under |-> TRUE, error |-> error, why |-> why, text |-> <<>>]
Outside(f) == [f EXCEPT !.under = FALSE]

Import == <<"IMPORT", "STRING", "SEMI">>
Call_ == <<"IDENT", "LPAREN", "IDENT", "RPAREN", "SEMI">>
Broken == <<"LET", "IDENT", "SEMI">>
Struct == <<"TYPE", "IDENT", "STRUCT", "LBRACE", "IDENT", "COLON", "IDENT", "RBRACE">>
Files == {
    Good("a", <<>>), Good("a", Import \o Call_), Outside(Good("b", Call_)),
    Good("i", Struct), Good("j", <<"TYPE", "IDENT", "STRUCT", "LBRACE", "RBRACE">> \o Struct),
    (* One error each; the last gives a list up as well. *)
    Good("b", Broken \o Call_), Outside(Good("c", Broken)),
    Good("c", <<"IDENT", "LPAREN", "IDENT", "COMMA", "PLUS", "RPAREN", "SEMI">> \o Broken),
    (* No error, and a list given up; two errors; an else. *)
    Good("d", <<"IDENT", "LPAREN", "PLUS", "RPAREN", "SEMI">>),
    Good("d", <<"LET", "SEMI", "LET", "SEMI">>),
    (* One error, after a callee that is no name was freed twice. *)
    Good("h", <<"INT", "LPAREN", "RPAREN", "SEMI">>),
    Good("e", <<"IF", "IDENT", "LBRACE", "RBRACE", "ELSE", "LBRACE", "RBRACE">>),
    Bad("f", 1, "empty"), Bad("f", 2, "open"), Bad("f", 4, "read"),
    Bad("g", 13, "access"), Bad("g", 5, "input")}

Io == Good("io", <<"EXTERN", "FN", "IDENT", "LPAREN", "RPAREN", "COLON", "IDENT", "SEMI">>)
MCLibraries == {<<Io>>, <<[Io EXCEPT !.error = 2, !.why = "open"]>>, <<Good("io", Broken)>>}
MCCommands == UNION {[1 .. n -> Files] : n \in 0 .. 2}
MCTypeErrors == {0, 1, 2}
MCTexts == {}
=============================================================================
