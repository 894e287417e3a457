------------------------------ MODULE MCLexer ------------------------------
(***************************************************************************)
(* All texts of up to four of the bytes that open, close or cut off        *)
(* literals and comments, up to three of some more, and two of any;        *)
(* comments of up to four bytes with line breaks inside characters; and    *)
(* each keyword, with the words that are one letter away from one: cut     *)
(* short, continued, or with one letter replaced.                          *)
(***************************************************************************)
EXTENDS Lexer

MCOpening == {"a", "\"", "'", "\\", "/", "\n", "lead3"}
MCBytes == MCOpening \cup {"1", " ", ".", "_", "byte"}
MCAll == Letters \cup Digits \cup Blanks \cup Leads \cup DOMAIN Single \cup DOMAIN Double
         \cup {"\"", "'", "\\", "/", ".", "_", "byte"}

UpTo(S, n) == UNION {[1 .. k -> S] : k \in 0 .. n}

Keywords == {token_strings[ty] : ty \in KeywordTypes}
NearKeywords ==
    UNION {{SubSeq(w, 1, k) : k \in DOMAIN w} \cup {w \o <<c>> : c \in Letters \cup {"_", "1", "("}}
           \cup {[w EXCEPT ![k] = c] : k \in DOMAIN w, c \in Letters} : w \in Keywords}

Comments == {<<"/", "/">> \o s : s \in UpTo({"lead3", "\n", "a"}, 4)}

MCSources == UpTo(MCOpening, 4) \cup UpTo(MCBytes, 3) \cup UpTo(MCAll, 2) \cup NearKeywords \cup Comments
=============================================================================
