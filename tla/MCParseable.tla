---------------------------- MODULE MCParseable ----------------------------
(* The first line of tests/parseable.syn. *)
EXTENDS Lexer

MCSources == {<<"t", "y", "p", "e", " ", "P", "o", "i", "n", "t", "2", " ",
                "s", "t", "r", "u", "c", "t", " ", "{", "\n">>}
=============================================================================
