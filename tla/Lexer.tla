------------------------------- MODULE Lexer -------------------------------
(***************************************************************************)
(* The lexer of src/lexer.c: its parser asks for the next token, or peeks  *)
(* at it.  Every loop of the C code is a value of pc and an action per     *)
(* iteration, so that what a loop reads and whether it ends can be stated. *)
(*                                                                         *)
(* A byte is a string of one character, of which there are enough, not     *)
(* all: some digits and capitals, and "byte" for what starts no token;     *)
(* "lead2" to "lead4" start a UTF-8 character of that many bytes.          *)
(* Offsets count from 0 as in the code; the text is followed by "nul".     *)
(* far follows the reads: each action says how far its own go.             *)
(***************************************************************************)
EXTENDS Integers, Sequences

CONSTANT Sources    \* the texts, sequences of bytes up to the first that is 0

ASSUME SourcesAssumption ==
    \A text \in Sources : text \in Seq(STRING) /\ \A k \in DOMAIN text : text[k] # "nul"

Digits == {"0", "1", "2", "3"}
Letters == {"a", "b", "c", "d", "e", "f", "g", "h", "i", "j", "k", "l", "m", "n", "o", "p",
            "q", "r", "s", "t", "u", "v", "w", "x", "y", "z", "P", "X"}
Blanks == {" ", "\r", "\n", "\t"}
Leads == {"lead2", "lead3", "lead4"}

(* The tokens of one character, and of that character and an equals sign,  *)
(* or twice that character.                                                *)
Single == [c \in {";", ",", ":", "+", "-", "*", "(", ")", "{", "}", "%"} |->
    CASE c = ";" -> "SEMI" [] c = "," -> "COMMA" [] c = ":" -> "COLON" [] c = "+" -> "PLUS"
      [] c = "-" -> "MINUS" [] c = "*" -> "STAR" [] c = "(" -> "LPAREN" [] c = ")" -> "RPAREN"
      [] c = "{" -> "LBRACE" [] c = "}" -> "RBRACE" [] c = "%" -> "PERCENT"]
Double == [c \in {"<", ">", "&", "|", "=", "!"} |->
    CASE c = "<" -> [with |-> "=", both |-> "SMALLER_EQ", one |-> "SMALLER"]
      [] c = ">" -> [with |-> "=", both |-> "GREATER_EQ", one |-> "GREATER"]
      [] c = "&" -> [with |-> "&", both |-> "DOUBLE_AMPERSAND", one |-> "AMPERSAND"]
      [] c = "|" -> [with |-> "|", both |-> "DOUBLE_PIPE", one |-> "PIPE"]
      [] c = "=" -> [with |-> "=", both |-> "DOUBLE_EQ", one |-> "EQ"]
      [] c = "!" -> [with |-> "=", both |-> "BANG_EQ", one |-> "BANG"]]

KeywordTypes == {"LET", "IF", "IMPORT", "DELETE", "FN", "EXTERN", "ELSE", "WHILE", "NEW",
                 "STRUCT", "TYPE", "RETURN", "AS"}
TokenTypes == {Single[c] : c \in DOMAIN Single}
              \cup (UNION {{Double[c].both, Double[c].one} : c \in DOMAIN Double})
              \cup KeywordTypes
              \cup {"IDENT", "INT", "STRING", "CHAR_ERR", "CHAR", "DOT", "TRIPLE_DOT",
                    "SLASH", "EOF", "UNKNOWN_ERR"}

VARIABLES
    src,        \* the text, fixed
    pc,         \* "idle" between two calls, or the loop or function being run
    start,      \* l->start
    current,    \* l->current
    has_peek, peek,
    peeking,    \* the call is lexer_peek
    begun,      \* where the call began to read
    token,      \* what the last call returned
    far         \* the last byte of the text that was read so far

lexing == <<src, pc, start, current, has_peek, peek, peeking, begun, token>>
vars == <<lexing, far>>

-----------------------------------------------------------------------------
(* Reading. *)
Byte(p) == IF p < Len(src) THEN src[p + 1] ELSE "nul"

char_len(b) == CASE b = "lead2" -> 2 [] b = "lead3" -> 3 [] b = "lead4" -> 4 [] OTHER -> 1

(* Mutant: a character that is cut off by the end is read in full. *)
Full_read_char(p) == [len |-> char_len(Byte(p)), ch |-> Byte(p)]

(* A character cut off by the end is what is left of it, and reads as 0.   *)
read_char(p) ==
    LET left == Len(src) - p
    IN  IF char_len(Byte(p)) > left THEN [len |-> left, ch |-> "nul"]
        ELSE [len |-> char_len(Byte(p)), ch |-> Byte(p)]

(* The bytes up to q are read; and those of the character at p, at the end *)
(* the one that ends the text.                                             *)
ReadsTo(q) == far' = IF q > far THEN q ELSE far
Last(p) == IF read_char(p).len = 0 THEN p ELSE p + read_char(p).len - 1
Reads(p) == ReadsTo(Last(p))

lexer_current == read_char(current).ch
lexer_advance == current' = current + read_char(current).len
lexer_at_end == Byte(current) = "nul"
lexer_is_num(c) == c \in Digits
lexer_is_letter(c) == c \in Letters
lexer_is_ws(c) == c \in Blanks \cup {"nul"}

-----------------------------------------------------------------------------
(* Keywords: told apart by their first letter or two, then compared.       *)
lexer_check_keyword(first, rest, ty) ==
    IF /\ current - start = first + Len(rest)
       /\ \A k \in DOMAIN rest : Byte(start + first + k - 1) = rest[k]
    THEN ty ELSE "IDENT"

lexer_ident_type ==
    LET c == read_char(start).ch
        next == read_char(start + 1).ch
        length == current - start
    IN  CASE c = "l" -> lexer_check_keyword(1, <<"e", "t">>, "LET")
          [] c = "i" /\ length > 1 /\ next = "f" -> lexer_check_keyword(2, <<>>, "IF")
          [] c = "i" /\ length > 1 /\ next = "m" ->
                 lexer_check_keyword(2, <<"p", "o", "r", "t">>, "IMPORT")
          [] c = "d" -> lexer_check_keyword(1, <<"e", "l", "e", "t", "e">>, "DELETE")
          [] c = "f" -> lexer_check_keyword(1, <<"n">>, "FN")
          [] c = "e" /\ length > 3 /\ next = "x" ->
                 lexer_check_keyword(1, <<"x", "t", "e", "r", "n">>, "EXTERN")
          [] c = "e" /\ length > 3 /\ next = "l" ->
                 lexer_check_keyword(1, <<"l", "s", "e">>, "ELSE")
          [] c = "w" -> lexer_check_keyword(1, <<"h", "i", "l", "e">>, "WHILE")
          [] c = "n" -> lexer_check_keyword(1, <<"e", "w">>, "NEW")
          [] c = "s" -> lexer_check_keyword(1, <<"t", "r", "u", "c", "t">>, "STRUCT")
          [] c = "t" -> lexer_check_keyword(1, <<"y", "p", "e">>, "TYPE")
          [] c = "r" -> lexer_check_keyword(1, <<"e", "t", "u", "r", "n">>, "RETURN")
          [] c = "a" -> lexer_check_keyword(1, <<"s">>, "AS")
          [] OTHER -> "IDENT"

-----------------------------------------------------------------------------
(* lexer_create looks for the byte that ends the text. *)
Init ==
    /\ src \in Sources
    /\ far = Len(src)
    /\ pc = "idle" /\ start = 0 /\ current = 0 /\ begun = 0
    /\ has_peek = FALSE /\ peeking = FALSE
    /\ peek = [ty |-> "UNKNOWN_ERR", start |-> 0, end |-> 0]
    /\ token = [ty |-> "UNKNOWN_ERR", start |-> 0, end |-> 0]

(* The end of a call: span_create puts the ends of the token in order, and *)
(* lexer_peek keeps it.                                                    *)
Return(ty, from, to) ==
    /\ token' = [ty |-> ty, start |-> IF from <= to THEN from ELSE to,
                            end |-> IF from <= to THEN to ELSE from]
    /\ pc' = "idle"
    /\ has_peek' = peeking
    /\ peek' = IF peeking THEN token' ELSE peek

NextPeeked ==
    /\ pc = "idle" /\ has_peek
    /\ has_peek' = FALSE /\ token' = peek
    /\ UNCHANGED <<src, pc, start, current, peek, peeking, begun, far>>

PeekPeeked ==
    /\ pc = "idle" /\ has_peek
    /\ token' = peek
    /\ UNCHANGED <<src, pc, start, current, has_peek, peek, peeking, begun, far>>

Call(f, isPeek) ==
    /\ pc = "idle" /\ ~has_peek
    /\ pc' = f /\ peeking' = isPeek /\ begun' = current
    /\ UNCHANGED <<src, start, current, has_peek, peek, token, far>>

(* lexer_next_token and lexer_peek; and lexer_get_next_token alone, which  *)
(* lexer.h exports, and which does not skip white space.                   *)
NextToken == Call("skip_ws", FALSE)
Peek == Call("skip_ws", TRUE)
GetToken == Call("get", FALSE)

Loop == UNCHANGED <<src, start, has_peek, peek, peeking, begun, token>>

(* lexer_skip_ws goes on to the end of the text: at any other character it *)
(* goes round without reading on.                                          *)
SkipWs == /\ pc = "skip_ws" /\ ~lexer_at_end /\ lexer_is_ws(lexer_current)
          /\ Reads(current) /\ lexer_advance /\ UNCHANGED pc /\ Loop
SpinWs == /\ pc = "skip_ws" /\ ~lexer_at_end /\ ~lexer_is_ws(lexer_current)
          /\ Reads(current) /\ UNCHANGED lexing
SkippedWs == /\ pc = "skip_ws" /\ lexer_at_end
             /\ Reads(current) /\ pc' = "get" /\ UNCHANGED current /\ Loop

(* Mutant: the end of the text is a token of one byte. *)
Wide_GetEof == /\ pc = "get" /\ lexer_at_end /\ Reads(current)
               /\ Return("EOF", current, current + 1)
               /\ UNCHANGED <<src, start, current, peeking, begun>>

GetEof == /\ pc = "get" /\ lexer_at_end /\ Reads(current)
          /\ Return("EOF", current, current)
          /\ UNCHANGED <<src, start, current, peeking, begun>>

(* The first character of a token, where a loop reads the rest of it. *)
Begun(c) == CASE lexer_is_num(c) -> "num"
              [] lexer_is_letter(c) -> "ident"
              [] c = "\"" -> "string"
              [] c = "'" -> "char"
              [] c = "/" /\ Byte(current + 1) = "/" -> "comment"
              [] OTHER -> "none"

(* How far the lexer reads to tell what begins with the character c: three *)
(* dots are compared at once (lexer.c:456), which after the dot a text     *)
(* ends in is one byte more than there is.  That byte, which Byte does not *)
(* know, does not change the outcome.                                      *)
ReadAt(c) == CASE c = "." -> current + 2
               [] c = "/" \/ c \in DOMAIN Double -> Last(current + 1)
               [] OTHER -> Last(current)

GetBegin ==
    /\ pc = "get" /\ ~lexer_at_end
    /\ Begun(lexer_current) # "none"
    /\ pc' = Begun(lexer_current)
    /\ ReadsTo(ReadAt(lexer_current))
    /\ start' = current /\ lexer_advance
    /\ UNCHANGED <<src, has_peek, peek, peeking, begun, token>>

TripleDot == \A k \in 0 .. 2 : Byte(current + k) = "."

(* Mutant: an operator of two characters has the same one twice. *)
Twice_Operator(c) ==
    CASE c \in DOMAIN Single -> [ty |-> Single[c], len |-> 1]
      [] c = "." -> IF TripleDot THEN [ty |-> "TRIPLE_DOT", len |-> 3] ELSE [ty |-> "DOT", len |-> 1]
      [] c = "/" -> [ty |-> "SLASH", len |-> 1]
      [] c \in DOMAIN Double -> IF read_char(current + 1).ch = c
                                THEN [ty |-> Double[c].both, len |-> 2]
                                ELSE [ty |-> Double[c].one, len |-> 1]
      [] OTHER -> [ty |-> "UNKNOWN_ERR", len |-> read_char(current).len]

(* The type of the operator at the current character, and its length. *)
Operator(c) ==
    CASE c \in DOMAIN Single -> [ty |-> Single[c], len |-> 1]
      [] c = "." -> IF TripleDot THEN [ty |-> "TRIPLE_DOT", len |-> 3] ELSE [ty |-> "DOT", len |-> 1]
      [] c = "/" -> [ty |-> "SLASH", len |-> 1]
      [] c \in DOMAIN Double -> IF read_char(current + 1).ch = Double[c].with
                                THEN [ty |-> Double[c].both, len |-> 2]
                                ELSE [ty |-> Double[c].one, len |-> 1]
      [] OTHER -> [ty |-> "UNKNOWN_ERR", len |-> read_char(current).len]

GetOperator ==
    /\ pc = "get" /\ ~lexer_at_end
    /\ Begun(lexer_current) = "none"
    /\ ReadsTo(ReadAt(lexer_current))
    /\ LET op == Operator(lexer_current)
       IN  /\ Return(op.ty, current, current + op.len)
           /\ current' = current + op.len
    /\ start' = current
    /\ UNCHANGED <<src, peeking, begun>>

InIdent(c) == lexer_is_letter(c) \/ lexer_is_num(c) \/ c = "_"

LexNum == /\ pc = "num" /\ lexer_is_num(lexer_current) /\ Reads(current)
          /\ lexer_advance /\ UNCHANGED pc /\ Loop
LexedNum == /\ pc = "num" /\ ~lexer_is_num(lexer_current) /\ Reads(current)
            /\ Return("INT", start, current)
            /\ UNCHANGED <<src, start, current, peeking, begun>>

(* What is compared to find a keyword is part of the word, and read before. *)
LexIdent == /\ pc = "ident" /\ InIdent(lexer_current) /\ Reads(current)
            /\ lexer_advance /\ UNCHANGED pc /\ Loop
LexedIdent == /\ pc = "ident" /\ ~InIdent(lexer_current) /\ Reads(current)
              /\ Return(lexer_ident_type, start, current)
              /\ UNCHANGED <<src, start, current, peeking, begun>>

(* Strings and characters: to the closing quote or the end of the text,    *)
(* then one character more, which at the end is none.                      *)
Quote == IF pc = "string" THEN "\"" ELSE "'"
LexQuoted == /\ pc \in {"string", "char"} /\ ~lexer_at_end /\ lexer_current # Quote
             /\ Reads(current) /\ lexer_advance /\ UNCHANGED pc /\ Loop

(* Mutant: the closing quote is not read. *)
Open_LexedString ==
    /\ pc = "string" /\ (lexer_at_end \/ lexer_current = Quote) /\ Reads(current)
    /\ Return("STRING", start + 1, current)
    /\ UNCHANGED <<src, start, current, peeking, begun>>

LexedString == /\ pc = "string" /\ (lexer_at_end \/ lexer_current = Quote)
               /\ Reads(current) /\ lexer_advance
               /\ Return("STRING", start + 1, current' - 1)
               /\ UNCHANGED <<src, start, peeking, begun>>

(* Only an escape of one character is a character. *)
LexedChar == /\ pc = "char" /\ (lexer_at_end \/ lexer_current = Quote)
             /\ Reads(current) /\ lexer_advance
             /\ Return(IF current' - start = 4 /\ Byte(start + 1) = "\\" THEN "CHAR" ELSE "CHAR_ERR",
                       start + 1, current' - 1)
             /\ UNCHANGED <<src, start, peeking, begun>>

(* lexer_skip_until: at least one character is skipped.  A token is then   *)
(* looked for as by lexer_next_token.                                      *)
SkipUntil == /\ pc = "comment" /\ ~lexer_at_end
             /\ lexer_advance /\ ReadsTo(Last(current'))
             /\ pc' = IF read_char(current').ch = "\n" THEN "skip_ws" ELSE "comment"
             /\ Loop
(* Mutant: a comment ends only with its line. *)
Stuck_SkippedUntil == pc = "comment" /\ lexer_at_end /\ UNCHANGED vars

SkippedUntil == /\ pc = "comment" /\ lexer_at_end
                /\ Reads(current) /\ pc' = "skip_ws" /\ UNCHANGED current /\ Loop

Next == \/ NextPeeked \/ PeekPeeked \/ NextToken \/ Peek \/ GetToken
        \/ SkipWs \/ SpinWs \/ SkippedWs
        \/ GetEof \/ GetBegin \/ GetOperator
        \/ LexNum \/ LexedNum \/ LexIdent \/ LexedIdent
        \/ LexQuoted \/ LexedString \/ LexedChar
        \/ SkipUntil \/ SkippedUntil

(* Once called, the lexer runs; it is for the parser to call it. *)
Running == pc # "idle" /\ Next

Spec == Init /\ [][Next]_vars
FairSpec == Spec /\ WF_vars(Running)

-----------------------------------------------------------------------------
TypeOK ==
    LET Token == [ty : TokenTypes, start : 0 .. Len(src), end : 0 .. Len(src)]
    IN  /\ src \in Sources
        /\ pc \in {"idle", "skip_ws", "get", "num", "ident", "string", "char", "comment"}
        /\ has_peek \in BOOLEAN /\ peeking \in BOOLEAN
        /\ token \in Token /\ peek \in Token

(* No byte behind the one that ends the text is read but one, and that     *)
(* only of a text that ends in a dot, where three dots are looked for; not *)
(* by the loops that read one character more when they are through, nor    *)
(* when the end cuts a character off.  And no call goes back               *)
(* (lexer.c:290, 328-350, 456, utils.c:113-136).                           *)
InBounds == /\ current \in 0 .. Len(src)
            /\ begun <= current /\ start <= current
            /\ \/ far = Len(src)
               \/ far = Len(src) + 1 /\ Len(src) > 0 /\ Byte(Len(src) - 1) = "."

(* How the tokens are spelled, as lexer.c:3-50 lists them for messages. *)
token_strings ==
    [ty \in ({Single[c] : c \in DOMAIN Single} \cup KeywordTypes
             \cup (UNION {{Double[c].both, Double[c].one} : c \in DOMAIN Double})
             \cup {"DOT", "TRIPLE_DOT", "SLASH"}) |->
     CASE ty = "LET" -> <<"l", "e", "t">> [] ty = "IF" -> <<"i", "f">>
       [] ty = "ELSE" -> <<"e", "l", "s", "e">> [] ty = "FN" -> <<"f", "n">>
       [] ty = "IMPORT" -> <<"i", "m", "p", "o", "r", "t">>
       [] ty = "WHILE" -> <<"w", "h", "i", "l", "e">> [] ty = "NEW" -> <<"n", "e", "w">>
       [] ty = "DELETE" -> <<"d", "e", "l", "e", "t", "e">>
       [] ty = "RETURN" -> <<"r", "e", "t", "u", "r", "n">>
       [] ty = "TYPE" -> <<"t", "y", "p", "e">> [] ty = "AS" -> <<"a", "s">>
       [] ty = "STRUCT" -> <<"s", "t", "r", "u", "c", "t">>
       [] ty = "EXTERN" -> <<"e", "x", "t", "e", "r", "n">>
       [] ty = "SEMI" -> <<";">> [] ty = "COMMA" -> <<",">> [] ty = "COLON" -> <<":">>
       [] ty = "DOT" -> <<".">> [] ty = "TRIPLE_DOT" -> <<".", ".", ".">>
       [] ty = "BANG" -> <<"!">> [] ty = "BANG_EQ" -> <<"!", "=">>
       [] ty = "EQ" -> <<"=">> [] ty = "DOUBLE_EQ" -> <<"=", "=">>
       [] ty = "PLUS" -> <<"+">> [] ty = "MINUS" -> <<"-">> [] ty = "STAR" -> <<"*">>
       [] ty = "SLASH" -> <<"/">> [] ty = "PERCENT" -> <<"%">>
       [] ty = "SMALLER" -> <<"<">> [] ty = "SMALLER_EQ" -> <<"<", "=">>
       [] ty = "GREATER" -> <<">">> [] ty = "GREATER_EQ" -> <<">", "=">>
       [] ty = "AMPERSAND" -> <<"&">> [] ty = "DOUBLE_AMPERSAND" -> <<"&", "&">>
       [] ty = "PIPE" -> <<"|">> [] ty = "DOUBLE_PIPE" -> <<"|", "|">>
       [] ty = "LPAREN" -> <<"(">> [] ty = "RPAREN" -> <<")">>
       [] ty = "LBRACE" -> <<"{">> [] ty = "RBRACE" -> <<"}">>]

Text(t) == SubSeq(src, t.start + 1, t.end)
StartsAt(p, word) == \A k \in DOMAIN word : Byte(p + k - 1) = word[k]
Word(t) == t.ty \in KeywordTypes \cup {"IDENT"}

(* A token is spelled as the table says of its type, and is the longest    *)
(* that begins where it does: an operator is not the start of a longer     *)
(* one, a word ends where no letter, digit or underscore follows and is an *)
(* identifier only if it is no keyword (lexer.c:213-283, 455-527).         *)
LongestMatch ==
    pc = "idle" =>
        /\ token.ty \in DOMAIN token_strings => Text(token) = token_strings[token.ty]
        /\ token.ty \in DOMAIN token_strings \ KeywordTypes =>
               \A ty \in DOMAIN token_strings : StartsAt(token.start, token_strings[ty]) =>
                   Len(token_strings[ty]) <= token.end - token.start
        /\ Word(token) => /\ ~InIdent(Byte(token.end))
                          /\ \A k \in DOMAIN Text(token) : InIdent(Text(token)[k])
        /\ token.ty = "IDENT" => \A ty \in KeywordTypes : Text(token) # token_strings[ty]
        /\ token.ty = "INT" => /\ ~lexer_is_num(Byte(token.end))
                               /\ \A k \in DOMAIN Text(token) : lexer_is_num(Text(token)[k])

(* What a call reads besides the token it returns is white space and       *)
(* comments, and for a literal its quotes: whatever comes between quotes   *)
(* is in the token, except that a literal that is not closed loses its     *)
(* last byte.  A byte inside a UTF-8 character ends neither comment nor    *)
(* literal (lexer.c:285-312, 318-336, 466-470).                            *)
Within(p, from) == \E q \in from .. p - 1 : p < q + char_len(Byte(q))
Commented(p) == \E c \in begun .. p : /\ Byte(c) = "/" /\ Byte(c + 1) = "/"
                                      /\ \A q \in c .. p : Byte(q) = "\n" => Within(q, c)
CutOff(p) == \E q \in begun .. p : Byte(q) \in Leads /\ q + char_len(Byte(q)) > Len(src)
Closed(quote) == Byte(current - 1) = quote /\ current - 1 > start
NothingLost ==
    LET first == IF token.ty = "EOF" THEN current ELSE start
        quote == Byte(start)
    IN  pc = "idle" =>
            /\ \A p \in begun .. first - 1 : Byte(p) \in Blanks \/ Commented(p) \/ CutOff(p)
            /\ token.ty \in {"STRING", "CHAR", "CHAR_ERR"} =>
                   /\ quote \in {"\"", "'"}
                   /\ Closed(quote) \/ current = Len(src)
                   /\ \A p \in start + 1 .. current - 2 :
                          /\ p \in token.start .. token.end - 1
                          /\ Byte(p) = quote => Within(p, start + 1)
            /\ token.ty \notin {"STRING", "CHAR", "CHAR_ERR", "EOF"} =>
                   token.end = current

(* Every loop but the one over white space ends (lexer.c:269-326). *)
LoopsEnd == pc \notin {"idle", "skip_ws"} ~> pc \in {"idle", "skip_ws"}

(* A call returns: of tests/parseable.syn, the text the repository keeps   *)
(* to be parsed, every token can be had (lexer.c:328-336).                 *)
Returns == pc # "idle" ~> pc = "idle"
=============================================================================
