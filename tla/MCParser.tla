------------------------------ MODULE MCParser ------------------------------
(***************************************************************************)
(* Statements of every kind, and what becomes of them when one token is    *)
(* missing, exchanged or added; all short texts of some tokens; and the    *)
(* expressions of Grammar.                                                 *)
(***************************************************************************)
EXTENDS Grammar

Samples == {
    (* import "io"; fn main(argc: i32, argv: *T): i32 { io.printf("..."); } *)
    <<"IMPORT", "STRING", "SEMI", "FN", "IDENT", "LPAREN", "IDENT", "COLON", "IDENT", "COMMA",
      "IDENT", "COLON", "STAR", "IDENT", "RPAREN", "COLON", "IDENT", "LBRACE",
      "IDENT", "DOT", "IDENT", "LPAREN", "STRING", "RPAREN", "SEMI", "RBRACE">>,
    (* type P struct { a: T, b: m.T } let x: T = 1; *)
    <<"TYPE", "IDENT", "STRUCT", "LBRACE", "IDENT", "COLON", "IDENT", "COMMA",
      "IDENT", "COLON", "IDENT", "DOT", "IDENT", "RBRACE",
      "LET", "IDENT", "COLON", "IDENT", "EQ", "INT", "SEMI">>,
    (* extern fn f(a: T, ...): T; *)
    <<"EXTERN", "FN", "IDENT", "LPAREN", "IDENT", "COLON", "IDENT", "COMMA", "TRIPLE_DOT",
      "RPAREN", "COLON", "IDENT", "SEMI">>,
    (* if a < b { x = y = 1; } else if c { delete d; } else { } *)
    <<"IF", "IDENT", "SMALLER", "IDENT", "LBRACE", "IDENT", "EQ", "IDENT", "EQ", "INT", "SEMI",
      "RBRACE", "ELSE", "IF", "IDENT", "LBRACE", "DELETE", "IDENT", "SEMI", "RBRACE",
      "ELSE", "LBRACE", "RBRACE">>,
    (* while f(a, -b) { x; let p = new P {x: 1, y: (2)}; } *)
    <<"WHILE", "IDENT", "LPAREN", "IDENT", "COMMA", "MINUS", "IDENT", "RPAREN", "LBRACE",
      "IDENT", "SEMI", "LET", "IDENT", "EQ", "NEW", "IDENT", "LBRACE", "IDENT", "COLON", "INT",
      "COMMA", "IDENT", "COLON", "LPAREN", "INT", "RPAREN", "RBRACE", "SEMI", "RBRACE">>,
    (* The return statement the parser asks for, which no function is called for. *)
    <<"RETURN", "DELETE", "SEMI">>,
    (* f(g(a), b as T); 1(a); *)
    <<"IDENT", "LPAREN", "IDENT", "LPAREN", "IDENT", "RPAREN", "COMMA", "IDENT", "AS", "IDENT",
      "RPAREN", "SEMI", "INT", "LPAREN", "IDENT", "RPAREN", "SEMI">>}

Changes == {"IDENT", "SEMI", "RBRACE", "LPAREN", "COMMA", "EQ", "UNKNOWN_ERR", "FN", "ELSE"}
Edited(s) ==
    LET Before(i) == SubSeq(s, 1, i - 1)
        From(i) == SubSeq(s, i, Len(s))
    IN  {Before(i) \o From(i + 1) : i \in DOMAIN s}
        \cup {Before(i) \o <<t>> \o From(i) : i \in DOMAIN s, t \in Changes}
        \cup {Before(i) \o <<t>> \o From(i + 1) : i \in DOMAIN s, t \in Changes}

Some == {"IDENT", "LPAREN", "RPAREN", "PLUS", "COMMA", "SEMI", "LBRACE", "RBRACE", "COLON", "LET",
         "DELETE", "RETURN"}
UpTo(S, n) == UNION {[1 .. k -> S] : k \in 0 .. n}
MCTexts == Samples \cup UNION {Edited(s) : s \in Samples} \cup UpTo(Some, 3) \cup Expressions
=============================================================================
