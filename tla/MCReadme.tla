------------------------------ MODULE MCReadme ------------------------------
(* The function of the README's example, without its parameter of a type   *)
(* the lexer has no token for: fn main(argc: i32): i32 { io.printf("...");  *)
(* return 0; }                                                             *)
EXTENDS Parser

MCTexts == {<<"FN", "IDENT", "LPAREN", "IDENT", "COLON", "IDENT", "RPAREN", "COLON", "IDENT",
              "LBRACE", "IDENT", "DOT", "IDENT", "LPAREN", "STRING", "RPAREN", "SEMI",
              "RETURN", "INT", "SEMI", "RBRACE">>}

(* The README shows the function as a valid program (README.md:14-18).     *)
Accepted == ret = Returned => errors = 0
=============================================================================
