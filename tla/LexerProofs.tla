---------------------------- MODULE LexerProofs ----------------------------
(***************************************************************************)
(* Proofs about the lexer, for every set of texts: its tokens are typed, it *)
(* reads within the text, and it loses nothing of it.  Each loop keeps an  *)
(* invariant of the bytes it has gone over.                                *)
(***************************************************************************)
EXTENDS Lexer, SequenceTheorems, TLAPS

(* What a call may skip, and that it has skipped no more before n. *)
Skippable(p) == Byte(p) \in Blanks \/ Commented(p) \/ CutOff(p)
SkippedTo(n) == \A p \in begun .. n - 1 : Skippable(p)

(* The loops that read what begins at start. *)
InToken == pc \in {"num", "ident", "string", "char", "comment"}

Inside == /\ current \in 0 .. Len(src)
          /\ begun <= current /\ start <= current
Offsets == begun \in Nat /\ start \in Nat
Begins == InToken => start < current /\ begun <= start
Peeked == has_peek => pc = "idle" /\ token = peek
Skipping == /\ pc \in {"skip_ws", "get"} => SkippedTo(current)
            /\ InToken => SkippedTo(start)
InComment ==
    pc = "comment" => /\ Byte(start) = "/" /\ Byte(start + 1) = "/"
                      /\ Byte(current) # "\n"
                      /\ \A q \in start .. current - 1 : Byte(q) = "\n" => Within(q, start)
InLiteral ==
    pc \in {"string", "char"} =>
        /\ Byte(start) = Quote
        /\ \A q \in start + 1 .. current - 1 : Byte(q) = Quote => Within(q, start + 1)
InNumber == pc = "num" => \A q \in start .. current - 1 : lexer_is_num(Byte(q))
InWord ==
    pc = "ident" => /\ lexer_is_letter(Byte(start))
                    /\ \A q \in start .. current - 1 : InIdent(Byte(q))

IInv == /\ TypeOK /\ Inside /\ Offsets
        /\ Begins /\ Peeked /\ Skipping /\ InComment /\ InLiteral /\ InNumber /\ InWord
        /\ NothingLost
-----------------------------------------------------------------------------
(* Reading a character. *)

LEMMA LenNat == ASSUME src \in Sources PROVE Len(src) \in Nat /\ src \in Seq(STRING)
    BY SourcesAssumption

LEMMA CharLen == \A b : char_len(b) \in 1 .. 4 /\ (b \notin Leads => char_len(b) = 1)
    BY DEF char_len, Leads

(* The byte that ends the text is the only one that is 0. *)
LEMMA AtEnd ==
    ASSUME src \in Sources, NEW p \in 0 .. Len(src)
    PROVE  Byte(p) = "nul" <=> p = Len(src)
<1>1. CASE p < Len(src)
    <2>1. p + 1 \in DOMAIN src
        BY <1>1, LenNat
    <2>2. src[p + 1] # "nul"
        BY <2>1, SourcesAssumption
    <2> QED  BY <1>1, <2>2 DEF Byte
<1>2. CASE p = Len(src)
    BY <1>2, LenNat DEF Byte
<1>3. p < Len(src) \/ p = Len(src)
    BY LenNat
<1> QED  BY <1>1, <1>2, <1>3

LEMMA ReadChar ==
    ASSUME src \in Sources, NEW p \in 0 .. Len(src)
    PROVE  /\ read_char(p).len \in 0 .. Len(src) - p
           /\ Byte(p) # "nul" => read_char(p).len >= 1
           /\ read_char(p).len <= char_len(Byte(p))
           /\ read_char(p).ch \notin Leads => read_char(p).len = 1 \/ read_char(p).ch = "nul"
           /\ read_char(p).ch = "nul" => p + char_len(Byte(p)) > Len(src)
           /\ read_char(p).len < char_len(Byte(p)) => read_char(p).ch = "nul"
<1> DEFINE n == char_len(Byte(p))
<1>0. Len(src) \in Nat /\ p \in Nat /\ p <= Len(src)
    BY LenNat
<1>1. n \in 1 .. 4 /\ (Byte(p) \notin Leads => n = 1)
    BY CharLen
<1>2. Byte(p) = "nul" <=> p = Len(src)
    BY AtEnd
<1>3. CASE n > Len(src) - p
    <2>1. read_char(p) = [len |-> Len(src) - p, ch |-> "nul"]
        BY <1>3 DEF read_char
    <2> HIDE DEF n
    <2> QED  BY <1>0, <1>1, <1>2, <1>3, <2>1 DEF n
<1>4. CASE n <= Len(src) - p
    <2>1. read_char(p) = [len |-> n, ch |-> Byte(p)]
        BY <1>0, <1>1, <1>4 DEF read_char
    <2>2. Byte(p) # "nul"
        BY <1>0, <1>1, <1>2, <1>4
    <2> QED  BY <1>0, <1>1, <1>4, <2>1, <2>2
<1>5. n > Len(src) - p \/ n <= Len(src) - p
    BY <1>0, <1>1
<1> QED  BY <1>3, <1>4, <1>5

(* A character of one byte is that byte, at the end and past it too. *)
LEMMA CharIs ==
    ASSUME src \in Sources, NEW p \in Nat, NEW b, b \notin Leads \cup {"nul"}
    PROVE  read_char(p).ch = b <=> Byte(p) = b
<1>0. Len(src) \in Nat
    BY LenNat
<1>1. CASE p < Len(src)
    BY <1>0, <1>1, CharLen DEF read_char
<1>2. CASE p >= Len(src)
    <2>1. Byte(p) = "nul"
        BY <1>0, <1>2 DEF Byte
    <2>2. char_len(Byte(p)) = 1
        BY <2>1 DEF char_len
    <2>3. read_char(p).ch = "nul"
        BY <1>0, <1>2, <2>2 DEF read_char
    <2> QED  BY <2>1, <2>3
<1> QED  BY <1>0, <1>1, <1>2
-----------------------------------------------------------------------------
(* What the loops go over. *)

LEMMA SkippableStable ==
    ASSUME src' = src, begun' = begun, NEW p
    PROVE  Skippable(p)' <=> Skippable(p)
    BY DEF Skippable, Commented, CutOff, Within, Byte

LEMMA WithinStable ==
    ASSUME src' = src
    PROVE  \A p, from : Within(p, from)' <=> Within(p, from)
    BY DEF Within, Byte

LEMMA ByteStable == ASSUME src' = src PROVE \A p : Byte(p)' = Byte(p)
    BY DEF Byte

(* Of the bytes of a character all but the first are within it. *)
LEMMA GoneOver ==
    ASSUME src \in Sources, NEW p \in 0 .. Len(src), NEW from \in 0 .. p,
           NEW q \in p .. p + read_char(p).len - 1
    PROVE  q = p \/ Within(q, from)
<1>0. Len(src) \in Nat
    BY LenNat
<1>1. read_char(p).len \in Nat /\ read_char(p).len <= char_len(Byte(p))
    BY <1>0, ReadChar
<1>2. char_len(Byte(p)) \in 1 .. 4
    BY CharLen
<1> SUFFICES ASSUME q # p PROVE Within(q, from)
    OBVIOUS
<1>3. p \in from .. q - 1 /\ q < p + char_len(Byte(p))
    BY <1>0, <1>1, <1>2
<1> QED  BY <1>3 DEF Within

LEMMA Advanced ==
    ASSUME TypeOK, Inside, lexer_advance
    PROVE  /\ Len(src) \in Nat /\ current \in Nat /\ current <= Len(src)
           /\ current' = current + read_char(current).len
           /\ current' \in 0 .. Len(src) /\ current <= current'
           /\ ~lexer_at_end => current < current'
<1>1. src \in Sources /\ current \in 0 .. Len(src)
    BY DEF TypeOK, Inside
<1>2. Len(src) \in Nat
    BY <1>1, LenNat
<1>3. read_char(current).len \in 0 .. Len(src) - current
    BY <1>1, ReadChar
<1>4. Byte(current) # "nul" => read_char(current).len >= 1
    BY <1>1, ReadChar
<1> QED  BY <1>1, <1>2, <1>3, <1>4 DEF lexer_advance, lexer_at_end

(* The types the lexer gives, one by one. *)
LEMMA TokenTypesHas ==
    /\ \A c \in DOMAIN Single : Single[c] \in TokenTypes
    /\ \A c \in DOMAIN Double : Double[c].both \in TokenTypes /\ Double[c].one \in TokenTypes
    /\ KeywordTypes \subseteq TokenTypes
    /\ {"IDENT", "INT", "STRING", "CHAR_ERR", "CHAR", "DOT", "TRIPLE_DOT",
        "SLASH", "EOF", "UNKNOWN_ERR"} \subseteq TokenTypes
<1> HIDE DEF Single, Double, KeywordTypes
<1>1. \A c \in DOMAIN Single : Single[c] \in TokenTypes
    BY DEF TokenTypes
<1>2. \A c \in DOMAIN Double : Double[c].both \in TokenTypes /\ Double[c].one \in TokenTypes
    BY DEF TokenTypes
<1>3. KeywordTypes \subseteq TokenTypes
    BY DEF TokenTypes
<1>4. {"IDENT", "INT", "STRING", "CHAR_ERR", "CHAR", "DOT", "TRIPLE_DOT",
        "SLASH", "EOF", "UNKNOWN_ERR"} \subseteq TokenTypes
    BY DEF TokenTypes
<1> QED  BY <1>1, <1>2, <1>3, <1>4

(* The token a call returns, and what it leaves of the invariant to show. *)
LEMMA Returned ==
    ASSUME TypeOK, NEW ty \in TokenTypes,
           NEW from \in 0 .. Len(src), NEW to \in 0 .. Len(src),
           Return(ty, from, to), src' = src, peeking' = peeking
    PROVE  /\ TypeOK' /\ pc' = "idle" /\ Peeked'
           /\ Begins' /\ Skipping' /\ InComment' /\ InLiteral' /\ InNumber' /\ InWord'
           /\ token' = [ty |-> ty, start |-> IF from <= to THEN from ELSE to,
                                   end |-> IF from <= to THEN to ELSE from]
<1> DEFINE Token == [ty : TokenTypes, start : 0 .. Len(src), end : 0 .. Len(src)]
           t == [ty |-> ty, start |-> IF from <= to THEN from ELSE to,
                            end |-> IF from <= to THEN to ELSE from]
<1>1. token' = t /\ pc' = "idle" /\ has_peek' = peeking /\ peek' = IF peeking THEN token' ELSE peek
    BY DEF Return
<1>2. t \in Token
    OBVIOUS
<1>3. peek \in Token /\ peeking \in BOOLEAN /\ src \in Sources
    BY DEF TypeOK
<1> HIDE DEF t
<1>4. token' \in Token /\ peek' \in Token
    BY <1>1, <1>2, <1>3
<1>5. TypeOK'
    BY <1>1, <1>3, <1>4 DEF TypeOK
<1>6. Peeked'
    BY <1>1, <1>3 DEF Peeked
<1>7. ~InToken' /\ pc' \notin {"skip_ws", "get"}
    BY <1>1 DEF InToken
<1> QED  BY <1>1, <1>5, <1>6, <1>7 DEF t, InToken, Begins, Skipping, InComment, InLiteral, InNumber, InWord

(* A step between two returns does not touch what was returned. *)
LEMMA Looping ==
    ASSUME TypeOK, Loop, pc # "idle", Peeked,
           pc' \in {"skip_ws", "get", "num", "ident", "string", "char", "comment"}
    PROVE  TypeOK' /\ Peeked' /\ NothingLost' /\ src' = src /\ begun' = begun /\ start' = start
<1>1. src' = src /\ start' = start /\ has_peek' = has_peek /\ peek' = peek
      /\ peeking' = peeking /\ begun' = begun /\ token' = token
    BY DEF Loop
<1>2. TypeOK'
    BY <1>1 DEF TypeOK
<1>3. Peeked'
    BY <1>1 DEF Peeked
<1>4. NothingLost'
    BY DEF NothingLost
<1> QED  BY <1>1, <1>2, <1>3, <1>4
-----------------------------------------------------------------------------
(* Each step preserves the invariant. *)

LEMMA UnchangedInv == ASSUME IInv, UNCHANGED lexing PROVE IInv'
<1>1. /\ src' = src /\ pc' = pc /\ start' = start /\ current' = current /\ has_peek' = has_peek
      /\ peek' = peek /\ peeking' = peeking /\ begun' = begun /\ token' = token
    BY DEF lexing
<1>2. TypeOK' /\ Inside' /\ Offsets' /\ Begins' /\ Peeked'
    BY <1>1 DEF IInv, TypeOK, Inside, Offsets, Begins, Peeked, InToken
<1>3. \A p : Byte(p)' = Byte(p)
    BY <1>1, ByteStable
<1>4. \A p, from : Within(p, from)' <=> Within(p, from)
    BY <1>1, WithinStable
<1>5. \A p : Skippable(p)' <=> Skippable(p)
    BY <1>1, SkippableStable
<1>6. Skipping'
    BY <1>1, <1>5 DEF IInv, Skipping, SkippedTo, InToken
<1>7. InComment' /\ InLiteral'
    BY <1>1, <1>3, <1>4 DEF IInv, InComment, InLiteral, Quote
<1>8. InNumber' /\ InWord'
    BY <1>1, <1>3 DEF IInv, InNumber, InWord, InIdent, lexer_is_num, lexer_is_letter
<1>9. NothingLost'
    BY <1>1, <1>3, <1>4, <1>5 DEF IInv, NothingLost, Closed, Skippable
<1> QED  BY <1>2, <1>6, <1>7, <1>8, <1>9 DEF IInv

LEMMA CallStep ==
    ASSUME IInv, NEW f \in {"skip_ws", "get"}, NEW isPeek \in BOOLEAN, Call(f, isPeek)
    PROVE  IInv'
<1>1. /\ pc' = f /\ peeking' = isPeek /\ begun' = current /\ src' = src /\ start' = start
      /\ current' = current /\ has_peek' = has_peek /\ peek' = peek /\ token' = token /\ ~has_peek
    BY DEF Call
<1>2. TypeOK'
    BY <1>1 DEF TypeOK, IInv
<1>3. current \in 0 .. Len(src) /\ start <= current
    BY DEF IInv, Inside
<1>4. Inside' /\ Offsets'
    BY <1>1, <1>3 DEF Inside, IInv, Offsets
<1>5. Skipping'
    <2>1. ~InToken'
        BY <1>1 DEF InToken
    <2>2. SkippedTo(current)'
        BY <1>1, <1>3 DEF SkippedTo
    <2> QED  BY <2>1, <2>2 DEF Skipping
<1>6. Begins' /\ Peeked' /\ InComment' /\ InLiteral' /\ InNumber' /\ InWord' /\ NothingLost'
    BY <1>1 DEF Begins, Peeked, InComment, InLiteral, InNumber, InWord, NothingLost, InToken
<1> QED  BY <1>2, <1>4, <1>5, <1>6 DEF IInv

LEMMA PeekedStep == ASSUME IInv, NextPeeked \/ PeekPeeked PROVE IInv'
<1>1. /\ pc = "idle" /\ pc' = pc /\ has_peek /\ token' = peek /\ peek' = peek /\ src' = src
      /\ start' = start /\ current' = current /\ begun' = begun /\ peeking' = peeking
      /\ has_peek' \in BOOLEAN
    BY DEF NextPeeked, PeekPeeked, IInv, TypeOK
<1>2. token' = token
    BY <1>1 DEF IInv, Peeked
<1>3. TypeOK' /\ Inside' /\ Offsets' /\ Peeked'
    BY <1>1, <1>2 DEF IInv, TypeOK, Inside, Offsets, Peeked
<1>4. Begins' /\ Skipping' /\ InComment' /\ InLiteral' /\ InNumber' /\ InWord'
    BY <1>1 DEF Begins, Skipping, InComment, InLiteral, InNumber, InWord, InToken
<1>5. NothingLost'
    <2>1. \A p : (Byte(p) \in Blanks \/ Commented(p) \/ CutOff(p))'
                 <=> (Byte(p) \in Blanks \/ Commented(p) \/ CutOff(p))
        BY <1>1, SkippableStable DEF Skippable
    <2>2. \A p : Byte(p)' = Byte(p)
        BY <1>1, ByteStable
    <2>3. \A p, from : Within(p, from)' <=> Within(p, from)
        BY <1>1, WithinStable
    <2> QED  BY <1>1, <1>2, <2>1, <2>2, <2>3 DEF IInv, NothingLost, Closed
<1> QED  BY <1>3, <1>4, <1>5 DEF IInv

(* A byte that is white space is skipped, or is cut off by the end. *)
LEMMA SkipWsStep == ASSUME IInv, SkipWs PROVE IInv'
<1>1. /\ pc = "skip_ws" /\ ~lexer_at_end /\ lexer_is_ws(lexer_current)
      /\ lexer_advance /\ pc' = "skip_ws" /\ Loop
    BY DEF SkipWs
<1>2. TypeOK' /\ Peeked' /\ NothingLost' /\ src' = src /\ begun' = begun /\ start' = start
    BY <1>1, Looping DEF IInv
<1>3. /\ Len(src) \in Nat /\ current \in Nat /\ current <= Len(src)
      /\ current' \in 0 .. Len(src) /\ current < current' /\ current' = current + read_char(current).len
    BY <1>1, Advanced DEF IInv
<1>4. Inside' /\ Offsets'
    <2>1. begun <= current /\ start <= current /\ begun \in Nat /\ start \in Nat
        BY DEF IInv, Inside, Offsets
    <2> QED  BY <1>2, <1>3, <2>1 DEF Inside, Offsets
<1>5. src \in Sources /\ SkippedTo(current) /\ begun <= current /\ begun \in Nat
    BY <1>1 DEF IInv, TypeOK, Skipping, Inside, Offsets
<1>6. ASSUME NEW p \in begun .. current' - 1
      PROVE  Skippable(p)
    <2>1. CASE p < current
        BY <1>3, <1>5, <1>6, <2>1 DEF SkippedTo
    <2>2. CASE p >= current /\ read_char(current).ch = "nul"
        <3>1. Byte(current) \in Leads /\ current + char_len(Byte(current)) > Len(src)
            <4>1. current + char_len(Byte(current)) > Len(src)
                BY <1>3, <1>5, <2>2, ReadChar
            <4>2. current # Len(src)
                BY <1>1, <1>3, <1>5, AtEnd DEF lexer_at_end
            <4> QED  BY <1>3, <4>1, <4>2, CharLen
        <3> QED  BY <1>3, <1>5, <2>2, <3>1 DEF Skippable, CutOff
    <2>3. CASE p >= current /\ read_char(current).ch # "nul"
        <3>1. read_char(current).ch \in Blanks
            BY <1>1, <2>3 DEF lexer_is_ws, lexer_current
        <3>2. read_char(current).ch \notin Leads
            BY <3>1 DEF Blanks, Leads
        <3>3. read_char(current).len = 1
            BY <1>3, <1>5, <2>3, <3>2, ReadChar
        <3>4. Byte(current) = read_char(current).ch
            BY <1>3, <1>5, <2>3, <3>2, CharIs
        <3>5. p = current
            BY <1>3, <1>6, <2>3, <3>3
        <3> QED  BY <3>1, <3>4, <3>5 DEF Skippable
    <2>4. p < current \/ p >= current
        BY <1>3, <1>5
    <2> QED  BY <2>1, <2>2, <2>3, <2>4
<1>7. Skipping'
    <2>1. SkippedTo(current)'
        BY <1>2, <1>6, SkippableStable DEF SkippedTo
    <2> QED  BY <1>1, <2>1 DEF Skipping, InToken
<1>8. Begins' /\ InComment' /\ InLiteral' /\ InNumber' /\ InWord'
    BY <1>1 DEF Begins, InComment, InLiteral, InNumber, InWord, InToken
<1> QED  BY <1>2, <1>4, <1>7, <1>8 DEF IInv

LEMMA SkippedWsStep == ASSUME IInv, SkippedWs PROVE IInv'
<1>1. pc = "skip_ws" /\ pc' = "get" /\ current' = current /\ Loop
    BY DEF SkippedWs
<1>2. TypeOK' /\ Peeked' /\ NothingLost' /\ src' = src /\ begun' = begun /\ start' = start
    BY <1>1, Looping DEF IInv
<1>3. Inside' /\ Offsets'
    BY <1>1, <1>2 DEF IInv, Inside, Offsets
<1>4. Skipping'
    <2>1. SkippedTo(current)
        BY <1>1 DEF IInv, Skipping
    <2>2. SkippedTo(current)'
        BY <1>1, <1>2, <2>1, SkippableStable DEF SkippedTo
    <2> QED  BY <1>1, <2>2 DEF Skipping, InToken
<1>5. Begins' /\ InComment' /\ InLiteral' /\ InNumber' /\ InWord'
    BY <1>1 DEF Begins, InComment, InLiteral, InNumber, InWord, InToken
<1> QED  BY <1>2, <1>3, <1>4, <1>5 DEF IInv

(* At the end of the text all that was read was skipped. *)
LEMMA GetEofStep == ASSUME IInv, GetEof PROVE IInv'
<1>1. /\ pc = "get" /\ Return("EOF", current, current)
      /\ src' = src /\ start' = start /\ current' = current /\ peeking' = peeking /\ begun' = begun
    BY DEF GetEof
<1>2. current \in 0 .. Len(src) /\ "EOF" \in TokenTypes
    BY TokenTypesHas DEF IInv, Inside
<1>3. /\ TypeOK' /\ pc' = "idle" /\ Peeked' /\ Begins' /\ Skipping' /\ InComment' /\ InLiteral'
      /\ InNumber' /\ InWord' /\ token'.ty = "EOF"
    BY <1>1, <1>2, Returned DEF IInv
<1>4. Inside' /\ Offsets'
    BY <1>1 DEF IInv, Inside, Offsets
<1>5. SkippedTo(current)
    BY <1>1 DEF IInv, Skipping
<1>6. \A p \in begun' .. current' - 1 : Skippable(p)'
    BY <1>1, <1>5, SkippableStable DEF SkippedTo
<1>7. NothingLost'
    BY <1>3, <1>6 DEF NothingLost, Skippable
<1> QED  BY <1>3, <1>4, <1>7 DEF IInv
LEMMA IdentTyped == lexer_ident_type \in KeywordTypes \cup {"IDENT"}
<1>1. \A first, rest : \A ty \in KeywordTypes : lexer_check_keyword(first, rest, ty) \in {ty, "IDENT"}
    BY DEF lexer_check_keyword
<1>2. \A first, rest : \A ty \in KeywordTypes :
          lexer_check_keyword(first, rest, ty) \in KeywordTypes \cup {"IDENT"}
    BY <1>1
<1> QED  BY <1>2 DEF lexer_ident_type, KeywordTypes

(* What begins a token that a loop reads is a character of one byte. *)
LEMMA BegunOne ==
    ASSUME IInv, GetBegin
    PROVE  /\ Byte(current) = lexer_current /\ current' = current + 1
           /\ pc' = "num" => lexer_is_num(Byte(current))
           /\ pc' = "ident" => lexer_is_letter(Byte(current))
           /\ pc' = "string" => Byte(current) = "\""
           /\ pc' = "char" => Byte(current) = "'"
           /\ pc' = "comment" => Byte(current) = "/" /\ Byte(current + 1) = "/"
           /\ pc' \in {"num", "ident", "string", "char", "comment"}
<1>1. /\ pc' = Begun(lexer_current) /\ Begun(lexer_current) # "none" /\ lexer_advance
    BY DEF GetBegin
<1>2. /\ pc' = "num" => lexer_is_num(lexer_current)
      /\ pc' = "ident" => lexer_is_letter(lexer_current)
      /\ pc' = "string" => lexer_current = "\""
      /\ pc' = "char" => lexer_current = "'"
      /\ pc' = "comment" => lexer_current = "/" /\ Byte(current + 1) = "/"
      /\ pc' \in {"num", "ident", "string", "char", "comment"}
    BY <1>1 DEF Begun
<1>3. lexer_current \notin Leads \cup {"nul"}
    BY <1>2 DEF Leads, lexer_is_num, lexer_is_letter, Digits, Letters
<1>4. src \in Sources /\ current \in 0 .. Len(src) /\ current \in Nat
    BY LenNat DEF IInv, TypeOK, Inside
<1>5. Byte(current) = lexer_current
    BY <1>3, <1>4, CharIs DEF lexer_current
<1>6. read_char(current).len = 1
    BY <1>3, <1>4, ReadChar DEF lexer_current
<1> QED  BY <1>1, <1>2, <1>5, <1>6 DEF lexer_advance

LEMMA GetBeginStep == ASSUME IInv, GetBegin PROVE IInv'
<1>1. /\ pc = "get" /\ start' = current /\ src' = src /\ has_peek' = has_peek /\ peek' = peek
      /\ peeking' = peeking /\ begun' = begun /\ token' = token /\ ~lexer_at_end
    BY DEF GetBegin
<1>2. /\ current' = current + 1
      /\ pc' = "num" => lexer_is_num(Byte(current))
      /\ pc' = "ident" => lexer_is_letter(Byte(current))
      /\ pc' = "string" => Byte(current) = "\""
      /\ pc' = "char" => Byte(current) = "'"
      /\ pc' = "comment" => Byte(current) = "/" /\ Byte(current + 1) = "/"
      /\ pc' \in {"num", "ident", "string", "char", "comment"}
    BY BegunOne
<1>3. /\ src \in Sources /\ Len(src) \in Nat /\ current \in Nat /\ current <= Len(src)
      /\ begun \in Nat /\ begun <= current /\ SkippedTo(current) /\ ~has_peek
    BY <1>1, LenNat DEF IInv, TypeOK, Inside, Offsets, Skipping, Peeked
<1>4. current # Len(src)
    BY <1>1, <1>3, AtEnd DEF lexer_at_end
<1>5. TypeOK' /\ Peeked' /\ NothingLost'
    BY <1>1, <1>2, <1>3 DEF IInv, TypeOK, Peeked, NothingLost
<1>n. /\ start' = current /\ current' = current + 1 /\ begun' = begun /\ src' = src
      /\ Len(src) \in Nat /\ current \in Nat /\ current < Len(src) /\ begun \in Nat /\ begun <= current
    <2>1. start' = current /\ current' = current + 1 /\ begun' = begun /\ src' = src
        BY <1>1, <1>2
    <2>2. Len(src) \in Nat /\ current \in Nat /\ current < Len(src) /\ begun \in Nat /\ begun <= current
        BY <1>3, <1>4
    <2> QED  BY <2>1, <2>2
<1>6. Inside' /\ Offsets' /\ Begins'
    BY <1>n DEF Inside, Offsets, Begins
<1>7. Skipping'
    <2>1. SkippedTo(start)'
        BY <1>1, <1>3, SkippableStable DEF SkippedTo
    <2> QED  BY <1>2, <2>1 DEF Skipping
<1>8. \A p : Byte(p)' = Byte(p)
    BY <1>1, ByteStable
<1>9. \A q \in start' .. current' - 1 : q = current
    BY <1>n
<1>10. InNumber' /\ InWord'
    BY <1>1, <1>2, <1>8, <1>9 DEF InNumber, InWord, InIdent, lexer_is_num, lexer_is_letter
<1>11. InLiteral'
    <2>1. \A q \in start' + 1 .. current' - 1 : FALSE
        BY <1>n
    <2>2. Byte(start)' = Byte(current)
        BY <1>n, <1>8
    <2> QED  BY <1>2, <2>1, <2>2 DEF InLiteral, Quote
<1>12. InComment'
    <2>1. /\ Byte(start)' = Byte(current) /\ Byte(start + 1)' = Byte(current + 1)
          /\ Byte(current)' = Byte(current + 1)
        BY <1>n, <1>8
    <2>2. \A q \in start' .. current' - 1 : Byte(q)' = Byte(current)
        BY <1>8, <1>9
    <2> QED  BY <1>2, <2>1, <2>2 DEF InComment
<1> QED  BY <1>5, <1>6, <1>7, <1>10, <1>11, <1>12 DEF IInv

(* What stays inside a token stays within what was skipped before it. *)
LEMMA InTokenStep ==
    ASSUME IInv, InToken, pc' = pc, lexer_advance, Loop
    PROVE  /\ TypeOK' /\ Inside' /\ Offsets' /\ Begins' /\ Peeked' /\ Skipping' /\ NothingLost'
           /\ src' = src /\ start' = start /\ src \in Sources /\ start \in Nat /\ start < current
           /\ Len(src) \in Nat /\ current \in 0 .. Len(src)
           /\ current' = current + read_char(current).len
           /\ read_char(current).len \in Nat
<1>1. /\ Len(src) \in Nat /\ current \in Nat /\ current <= Len(src)
      /\ current' \in 0 .. Len(src) /\ current <= current' /\ current' = current + read_char(current).len
    BY Advanced DEF IInv
<1>2. pc' \in {"num", "ident", "string", "char", "comment"} /\ pc # "idle" /\ InToken'
    BY DEF InToken
<1>3. /\ TypeOK' /\ Peeked' /\ NothingLost' /\ src' = src /\ begun' = begun /\ start' = start
    BY <1>2, Looping DEF IInv
<1>4. src \in Sources /\ start \in Nat /\ begun \in Nat /\ start < current /\ begun <= start
    BY DEF IInv, TypeOK, Offsets, Begins
<1>5. Inside' /\ Offsets' /\ Begins'
    BY <1>1, <1>3, <1>4 DEF Inside, Offsets, Begins
<1>6. SkippedTo(start)
    BY DEF IInv, Skipping
<1>7. SkippedTo(start)'
    BY <1>3, <1>6, SkippableStable DEF SkippedTo
<1>8. Skipping'
    BY <1>2, <1>7 DEF Skipping, InToken
<1>9. read_char(current).len \in Nat
    BY <1>1, <1>4, ReadChar
<1> QED  BY <1>1, <1>3, <1>4, <1>5, <1>8, <1>9

LEMMA LexNumStep == ASSUME IInv, LexNum PROVE IInv'
<1>1. pc = "num" /\ pc' = "num" /\ lexer_is_num(lexer_current) /\ lexer_advance /\ Loop
    BY DEF LexNum
<1>2. /\ TypeOK' /\ Inside' /\ Offsets' /\ Begins' /\ Peeked' /\ Skipping' /\ NothingLost'
      /\ src' = src /\ start' = start /\ src \in Sources /\ start \in Nat /\ start < current
      /\ Len(src) \in Nat /\ current \in 0 .. Len(src) /\ current \in Nat
      /\ current' = current + read_char(current).len
    BY <1>1, InTokenStep DEF InToken
<1>3. lexer_current \notin Leads \cup {"nul"}
    BY <1>1 DEF Leads, lexer_is_num, Digits
<1>4. Byte(current) = lexer_current /\ read_char(current).len = 1
    BY <1>2, <1>3, CharIs, ReadChar DEF lexer_current
<1>5. InNumber'
    <2>1. \A q \in start .. current - 1 : lexer_is_num(Byte(q))
        BY <1>1 DEF IInv, InNumber
    <2>2. ASSUME NEW q \in start .. current' - 1
          PROVE  lexer_is_num(Byte(q))
        <3>1. q \in start .. current - 1 \/ q = current
            BY <1>2, <1>4
        <3> QED  BY <1>1, <1>4, <2>1, <3>1
    <2> QED  BY <1>1, <1>2, <2>2, ByteStable DEF InNumber, lexer_is_num
<1>6. InComment' /\ InLiteral' /\ InWord'
    BY <1>1 DEF InComment, InLiteral, InWord
<1> QED  BY <1>2, <1>5, <1>6 DEF IInv

LEMMA LexIdentStep == ASSUME IInv, LexIdent PROVE IInv'
<1>1. pc = "ident" /\ pc' = "ident" /\ InIdent(lexer_current) /\ lexer_advance /\ Loop
    BY DEF LexIdent
<1>2. /\ TypeOK' /\ Inside' /\ Offsets' /\ Begins' /\ Peeked' /\ Skipping' /\ NothingLost'
      /\ src' = src /\ start' = start /\ src \in Sources /\ start \in Nat /\ start < current
      /\ Len(src) \in Nat /\ current \in 0 .. Len(src) /\ current \in Nat
      /\ current' = current + read_char(current).len
    BY <1>1, InTokenStep DEF InToken
<1>3. lexer_current \notin Leads \cup {"nul"}
    BY <1>1 DEF Leads, InIdent, lexer_is_num, lexer_is_letter, Digits, Letters
<1>4. Byte(current) = lexer_current /\ read_char(current).len = 1
    BY <1>2, <1>3, CharIs, ReadChar DEF lexer_current
<1>5. InWord'
    <2>1. lexer_is_letter(Byte(start)) /\ \A q \in start .. current - 1 : InIdent(Byte(q))
        BY <1>1 DEF IInv, InWord
    <2>2. ASSUME NEW q \in start .. current' - 1
          PROVE  InIdent(Byte(q))
        <3>1. q \in start .. current - 1 \/ q = current
            BY <1>2, <1>4
        <3> QED  BY <1>1, <1>4, <2>1, <3>1
    <2> QED  BY <1>1, <1>2, <2>1, <2>2, ByteStable DEF InWord, InIdent, lexer_is_num, lexer_is_letter
<1>6. InComment' /\ InLiteral' /\ InNumber'
    BY <1>1 DEF InComment, InLiteral, InNumber
<1> QED  BY <1>2, <1>5, <1>6 DEF IInv

(* A quote inside a literal is the one that closes it, or a part of some   *)
(* other character.                                                        *)
LEMMA LexQuotedStep == ASSUME IInv, LexQuoted PROVE IInv'
<1>1. /\ pc \in {"string", "char"} /\ pc' = pc /\ lexer_current # Quote /\ lexer_advance /\ Loop
    BY DEF LexQuoted
<1>2. /\ TypeOK' /\ Inside' /\ Offsets' /\ Begins' /\ Peeked' /\ Skipping' /\ NothingLost'
      /\ src' = src /\ start' = start /\ src \in Sources /\ start \in Nat /\ start < current
      /\ Len(src) \in Nat /\ current \in 0 .. Len(src) /\ current \in Nat
      /\ current' = current + read_char(current).len /\ read_char(current).len \in Nat
    BY <1>1, InTokenStep DEF InToken
<1>3. Quote' = Quote /\ Quote \notin Leads \cup {"nul"}
    BY <1>1 DEF Quote, Leads
<1>4. Byte(current) # Quote
    BY <1>1, <1>2, <1>3, CharIs DEF lexer_current
<1>5. InLiteral'
    <2>1. Byte(start) = Quote /\ \A q \in start + 1 .. current - 1 : Byte(q) = Quote => Within(q, start + 1)
        BY <1>1 DEF IInv, InLiteral
    <2>2. ASSUME NEW q \in start + 1 .. current' - 1, Byte(q) = Quote
          PROVE  Within(q, start + 1)
        <3>1. CASE q < current
            BY <1>2, <2>1, <2>2, <3>1
        <3>2. CASE q >= current
            <4>1. q \in current .. current + read_char(current).len - 1
                <5>1. q \in Int /\ q <= current' - 1
                    BY <1>2, <2>2
                <5> QED  BY <1>2, <3>2, <5>1
            <4>0. start + 1 \in 0 .. current
                BY <1>2
            <4>3. q = current \/ Within(q, start + 1)
                BY <1>2, <4>0, <4>1, GoneOver
            <4> QED  BY <1>4, <2>2, <4>3
        <3> QED  BY <1>2, <2>2, <3>1, <3>2
    <2> QED  BY <1>1, <1>2, <1>3, <2>1, <2>2, ByteStable, WithinStable DEF InLiteral
<1>6. InComment' /\ InNumber' /\ InWord'
    BY <1>1 DEF InComment, InNumber, InWord
<1> QED  BY <1>2, <1>5, <1>6 DEF IInv
(* The end of a loop that has read a token from start on. *)
LEMMA ReadBounds ==
    ASSUME IInv, InToken
    PROVE  /\ src \in Sources /\ Len(src) \in Nat /\ begun \in Nat /\ start \in Nat /\ current \in Nat
           /\ begun <= start /\ start < current /\ current <= Len(src) /\ SkippedTo(start)
<1>1. src \in Sources
    BY DEF IInv, TypeOK
<1>2. begun \in Nat /\ start \in Nat /\ begun <= start /\ start < current /\ current \in 0 .. Len(src)
    BY DEF IInv, Inside, Offsets, Begins
<1>3. SkippedTo(start)
    BY DEF IInv, Skipping
<1> QED  BY <1>1, <1>2, <1>3, LenNat

LEMMA ReadEnds ==
    ASSUME IInv, InToken, src' = src, start' = start, begun' = begun, current' \in current .. Len(src)
    PROVE  /\ Inside' /\ Offsets'
           /\ \A p \in begun' .. start' - 1 : (Byte(p) \in Blanks \/ Commented(p) \/ CutOff(p))'
<1>1. Inside' /\ Offsets'
    BY ReadBounds DEF Inside, Offsets
<1>2. \A p \in begun .. start - 1 : Skippable(p)'
    BY ReadBounds, SkippableStable DEF SkippedTo
<1> QED  BY <1>1, <1>2 DEF Skippable

LEMMA ReadStep ==
    ASSUME IInv, InToken, src' = src, start' = start, begun' = begun, peeking' = peeking,
           NEW ty \in TokenTypes \ {"EOF", "STRING", "CHAR", "CHAR_ERR"},
           Return(ty, start, current), current' = current
    PROVE  IInv'
<1>1. start \in 0 .. Len(src) /\ current \in 0 .. Len(src) /\ current' \in current .. Len(src) /\ start <= current
    BY ReadBounds
<1>2. /\ TypeOK' /\ pc' = "idle" /\ Peeked'
      /\ Begins' /\ Skipping' /\ InComment' /\ InLiteral' /\ InNumber' /\ InWord'
      /\ token' = [ty |-> ty, start |-> start, end |-> current]
    BY <1>1, Returned DEF IInv
<1>3. NothingLost'
    <2>1. token'.ty = ty /\ token'.end = current'
        BY <1>2
    <2> QED  BY <1>1, <2>1, ReadEnds DEF NothingLost
<1> QED  BY <1>1, <1>2, <1>3, ReadEnds DEF IInv

LEMMA QuotedEnds ==
    ASSUME NEW n \in Nat, NEW s \in Nat, NEW c \in Nat, s < c, c <= n, NEW d \in c .. n
    PROVE  /\ s + 1 \in 0 .. n /\ d - 1 \in 0 .. n /\ d \in Nat
           /\ \A p \in s + 1 .. d - 2 : s + 1 <= d - 1 /\ p \in s + 1 .. d - 1 - 1
    OBVIOUS

(* Its quotes are not in a literal: a text without the closing quote loses *)
(* its last byte to it, and the quote alone is put in order.               *)
LEMMA ReadQuotedStep ==
    ASSUME IInv, InToken, src' = src, start' = start, begun' = begun, peeking' = peeking,
           NEW ty \in {"STRING", "CHAR", "CHAR_ERR"}, Return(ty, start + 1, current' - 1),
           current' \in current .. Len(src), Byte(start) \in {"\"", "'"},
           current' = Len(src) \/ (Byte(current' - 1) = Byte(start) /\ current' - 1 > start),
           \A p \in start + 1 .. current' - 2 : Byte(p) = Byte(start) => Within(p, start + 1)
    PROVE  IInv'
<1>1. /\ start + 1 \in 0 .. Len(src) /\ current' - 1 \in 0 .. Len(src) /\ start \in Nat /\ current' \in Nat
      /\ \A p \in start + 1 .. current' - 2 : start + 1 <= current' - 1 /\ p \in start + 1 .. current' - 1 - 1
    <2>1. /\ Len(src) \in Nat /\ start \in Nat /\ current \in Nat /\ start < current /\ current <= Len(src)
        BY ReadBounds
    <2> QED  BY <2>1, QuotedEnds
<1>2. /\ TypeOK' /\ pc' = "idle" /\ Peeked'
      /\ Begins' /\ Skipping' /\ InComment' /\ InLiteral' /\ InNumber' /\ InWord'
      /\ token' = [ty |-> ty, start |-> IF start + 1 <= current' - 1 THEN start + 1 ELSE current' - 1,
                              end |-> IF start + 1 <= current' - 1 THEN current' - 1 ELSE start + 1]
    BY <1>1, TokenTypesHas, Returned DEF IInv
<1>3. \A p : Byte(p)' = Byte(p)
    BY ByteStable
<1>4. /\ Byte(start)' \in {"\"", "'"}
      /\ Closed(Byte(start))' \/ (current = Len(src))'
    BY <1>3 DEF Closed
<1>5. \A p \in start + 1 .. current' - 2 : p \in token'.start .. token'.end - 1
    <2> TAKE p \in start + 1 .. current' - 2
    <2>1. start + 1 <= current' - 1 /\ p \in start + 1 .. current' - 1 - 1
        BY <1>1
    <2>2. token'.start = start + 1 /\ token'.end = current' - 1
        BY <1>2, <2>1
    <2> QED  BY <2>1, <2>2
<1>6. \A p \in start + 1 .. current' - 2 : (Byte(p) = Byte(start) => Within(p, start + 1))'
    BY <1>3, WithinStable
<1>7. NothingLost'
    <2>1. token'.ty = ty
        BY <1>2
    <2>2. \A p \in start' + 1 .. current' - 2 :
              p \in token'.start .. token'.end - 1 /\ (Byte(p) = Byte(start) => Within(p, start + 1))'
        BY <1>5, <1>6
    <2> QED  BY <2>1, <2>2, <1>4, ReadEnds DEF NothingLost
<1> QED  BY <1>2, <1>7, ReadEnds DEF IInv

LEMMA LexedNumStep == ASSUME IInv, LexedNum PROVE IInv'
<1>1. /\ pc = "num" /\ Return("INT", start, current) /\ src' = src /\ start' = start
      /\ current' = current /\ peeking' = peeking /\ begun' = begun
    BY DEF LexedNum
<1>2. "INT" \in TokenTypes \ {"EOF", "STRING", "CHAR", "CHAR_ERR"}
    BY TokenTypesHas
<1> QED  BY <1>1, <1>2, ReadStep DEF InToken

LEMMA LexedIdentStep == ASSUME IInv, LexedIdent PROVE IInv'
<1>1. /\ pc = "ident" /\ Return(lexer_ident_type, start, current) /\ src' = src /\ start' = start
      /\ current' = current /\ peeking' = peeking /\ begun' = begun
    BY DEF LexedIdent
<1>2. lexer_ident_type \in TokenTypes \ {"EOF", "STRING", "CHAR", "CHAR_ERR"}
    BY TokenTypesHas, IdentTyped DEF KeywordTypes
<1> QED  BY <1>1, <1>2, ReadStep DEF InToken

(* The closing quote is read, or there was none until the end. *)
LEMMA LexedQuotedStep ==
    ASSUME IInv, pc \in {"string", "char"}, lexer_at_end \/ lexer_current = Quote, lexer_advance,
           src' = src, start' = start, peeking' = peeking, begun' = begun,
           NEW ty \in {"STRING", "CHAR", "CHAR_ERR"}, Return(ty, start + 1, current' - 1)
    PROVE  IInv'
<1>1. /\ Len(src) \in Nat /\ current \in Nat /\ current <= Len(src)
      /\ current' = current + read_char(current).len
      /\ current' \in 0 .. Len(src) /\ current <= current'
    BY Advanced DEF IInv
<1>2. /\ src \in Sources /\ start \in Nat /\ start < current
    BY DEF IInv, TypeOK, Offsets, Begins, InToken
<1>3. /\ Byte(start) = Quote /\ Quote \in {"\"", "'"}
      /\ \A q \in start + 1 .. current - 1 : Byte(q) = Quote => Within(q, start + 1)
    BY DEF IInv, InLiteral, Quote
<1>4. /\ current' = Len(src) \/ (Byte(current' - 1) = Byte(start) /\ current' - 1 > start)
      /\ current' - 2 <= current - 1
    <2>1. CASE lexer_at_end
        <3>1. current = Len(src)
            BY <1>1, <1>2, <2>1, AtEnd DEF lexer_at_end
        <3> QED  BY <1>1, <3>1
    <2>2. CASE lexer_current = Quote
        <3>1. Quote \notin Leads \cup {"nul"}
            BY <1>3 DEF Leads
        <3>2. Byte(current) = Quote /\ read_char(current).len = 1
            BY <1>1, <1>2, <2>2, <3>1, CharIs, ReadChar DEF lexer_current
        <3>3. current' - 1 = current
            BY <1>1, <3>2
        <3>4. current' - 1 > start /\ current' - 2 <= current - 1
            BY <1>1, <1>2, <3>3
        <3> QED  BY <1>3, <3>2, <3>3, <3>4
    <2> QED  BY <2>1, <2>2
<1>5. \A p \in start + 1 .. current' - 2 : Byte(p) = Byte(start) => Within(p, start + 1)
    <2>1. \A p \in start + 1 .. current' - 2 : p \in start + 1 .. current - 1
        BY <1>1, <1>2, <1>4
    <2> QED  BY <1>3, <2>1
<1>6. current' \in current .. Len(src)
    BY <1>1
<1>7. InToken
    BY DEF InToken
<1> QED  BY <1>3, <1>4, <1>5, <1>6, <1>7, ReadQuotedStep

LEMMA LexedStep == ASSUME IInv, LexedString \/ LexedChar PROVE IInv'
<1>1. CASE LexedString
    BY <1>1, LexedQuotedStep DEF LexedString
<1>2. CASE LexedChar
    <2>1. PICK ty \in {"CHAR", "CHAR_ERR"} : Return(ty, start + 1, current' - 1)
        BY <1>2 DEF LexedChar
    <2> QED  BY <1>2, <2>1, LexedQuotedStep DEF LexedChar
<1> QED  BY <1>1, <1>2
LEMMA OperatorBytes ==
    /\ DOMAIN Single = {";", ",", ":", "+", "-", "*", "(", ")", "{", "}", "%"}
    /\ DOMAIN Double = {"<", ">", "&", "|", "=", "!"}
    BY DEF Single, Double

LEMMA Dots ==
    ASSUME current \in Nat
    PROVE  TripleDot <=> Byte(current) = "." /\ Byte(current + 1) = "." /\ Byte(current + 2) = "."
<1>1. TripleDot <=> Byte(current + 0) = "." /\ Byte(current + 1) = "." /\ Byte(current + 2) = "."
    BY DEF TripleDot
<1> QED  BY <1>1

(* An operator is within the text, also one whose later bytes were looked at. *)
LEMMA OperatorLen ==
    ASSUME src \in Sources, current \in 0 .. Len(src), current # Len(src)
    PROVE  Operator(lexer_current).len \in 1 .. Len(src) - current
<1>0. Len(src) \in Nat /\ current \in Nat /\ current < Len(src)
    BY LenNat
<1>1. 1 \in 1 .. Len(src) - current
    BY <1>0
<1>2. TripleDot => 3 \in 1 .. Len(src) - current
    BY <1>0, Dots DEF Byte
<1>3. \A c \in DOMAIN Double : read_char(current + 1).ch = Double[c].with => 2 \in 1 .. Len(src) - current
    <2> TAKE c \in DOMAIN Double
    <2>1. Double[c].with \notin Leads \cup {"nul"}
        BY DEF Double, Leads
    <2>2. read_char(current + 1).ch = Double[c].with => Byte(current + 1) # "nul"
        BY <1>0, <2>1, CharIs
    <2>3. Byte(current + 1) # "nul" => current + 1 < Len(src)
        BY DEF Byte
    <2> QED  BY <1>0, <2>2, <2>3
<1>4. read_char(current).len \in 1 .. Len(src) - current
    <2>1. Byte(current) # "nul"
        BY AtEnd
    <2> QED  BY <1>0, <2>1, ReadChar
<1> DEFINE c == lexer_current
<1> HIDE DEF c
<1>5. CASE c \in DOMAIN Single
    <2>1. Operator(c) = [ty |-> Single[c], len |-> 1]
        BY <1>5, OperatorBytes DEF Operator
    <2> QED  BY <1>1, <2>1 DEF c
<1>6. CASE c \notin DOMAIN Single /\ c = "."
    <2>1. Operator(c) = IF TripleDot THEN [ty |-> "TRIPLE_DOT", len |-> 3] ELSE [ty |-> "DOT", len |-> 1]
        BY <1>6, OperatorBytes DEF Operator
    <2> QED  BY <1>1, <1>2, <2>1 DEF c
<1>7. CASE c \notin DOMAIN Single /\ c = "/"
    <2>1. Operator(c) = [ty |-> "SLASH", len |-> 1]
        BY <1>7, OperatorBytes DEF Operator
    <2> QED  BY <1>1, <2>1 DEF c
<1>8. CASE c \notin DOMAIN Single \cup {".", "/"} /\ c \in DOMAIN Double
    <2>1. Operator(c) = IF read_char(current + 1).ch = Double[c].with
                        THEN [ty |-> Double[c].both, len |-> 2]
                        ELSE [ty |-> Double[c].one, len |-> 1]
        BY <1>8, OperatorBytes DEF Operator
    <2> QED  BY <1>1, <1>3, <1>8, <2>1 DEF c
<1>9. CASE c \notin DOMAIN Single \cup {".", "/"} /\ c \notin DOMAIN Double
    <2>1. Operator(c) = [ty |-> "UNKNOWN_ERR", len |-> read_char(current).len]
        BY <1>9, OperatorBytes DEF Operator
    <2> QED  BY <1>4, <2>1 DEF c
<1> QED  BY <1>5, <1>6, <1>7, <1>8, <1>9

LEMMA OperatorType ==
    \A c : Operator(c).ty \in TokenTypes \ {"EOF", "STRING", "CHAR", "CHAR_ERR"}
<1> TAKE c
<1> DEFINE T == TokenTypes \ {"EOF", "STRING", "CHAR", "CHAR_ERR"}
<1>1. \A d \in DOMAIN Single : Single[d] \in T
    BY TokenTypesHas DEF Single
<1>2. \A d \in DOMAIN Double : Double[d].both \in T /\ Double[d].one \in T
    BY TokenTypesHas DEF Double
<1>3. {"DOT", "TRIPLE_DOT", "SLASH", "UNKNOWN_ERR"} \subseteq T
    BY TokenTypesHas
<1> HIDE DEF T
<1>4. CASE c \in DOMAIN Single
    BY <1>1, <1>4, OperatorBytes DEF Operator, T
<1>5. CASE c \notin DOMAIN Single /\ c \in {".", "/"}
    BY <1>3, <1>5, OperatorBytes DEF Operator, T
<1>6. CASE c \notin DOMAIN Single \cup {".", "/"} /\ c \in DOMAIN Double
    BY <1>2, <1>6, OperatorBytes DEF Operator, T
<1>7. CASE c \notin DOMAIN Single \cup {".", "/"} /\ c \notin DOMAIN Double
    BY <1>3, <1>7, OperatorBytes DEF Operator, T
<1> QED  BY <1>4, <1>5, <1>6, <1>7

LEMMA GetOperatorStep == ASSUME IInv, GetOperator PROVE IInv'
<1> DEFINE op == Operator(lexer_current)
<1>1. /\ pc = "get" /\ ~lexer_at_end /\ Return(op.ty, current, current + op.len)
      /\ current' = current + op.len /\ start' = current
      /\ src' = src /\ peeking' = peeking /\ begun' = begun
    BY DEF GetOperator
<1>2. /\ src \in Sources /\ Len(src) \in Nat /\ current \in Nat /\ current \in 0 .. Len(src)
      /\ begun \in Nat /\ begun <= current /\ SkippedTo(current) /\ TypeOK
    BY <1>1, LenNat DEF IInv, TypeOK, Inside, Offsets, Skipping
<1>3. op.len \in 1 .. Len(src) - current
    BY <1>1, <1>2, AtEnd, OperatorLen DEF lexer_at_end
<1>4. op.ty \in TokenTypes \ {"EOF", "STRING", "CHAR", "CHAR_ERR"}
    BY OperatorType
<1> HIDE DEF op
<1>5. current + op.len \in 0 .. Len(src) /\ current <= current + op.len /\ current + op.len \in Nat
    BY <1>2, <1>3
<1>6. /\ TypeOK' /\ pc' = "idle" /\ Peeked'
      /\ Begins' /\ Skipping' /\ InComment' /\ InLiteral' /\ InNumber' /\ InWord'
      /\ token' = [ty |-> op.ty, start |-> current, end |-> current + op.len]
    BY <1>1, <1>2, <1>4, <1>5, Returned
<1>7. Inside' /\ Offsets'
    BY <1>1, <1>2, <1>5 DEF Inside, Offsets
<1>8. NothingLost'
    <2>1. \A p \in begun .. current - 1 : (Byte(p) \in Blanks \/ Commented(p) \/ CutOff(p))'
        BY <1>1, <1>2, SkippableStable DEF SkippedTo, Skippable
    <2>2. token'.ty = op.ty /\ token'.end = current'
        BY <1>1, <1>6
    <2> QED  BY <1>1, <1>4, <2>1, <2>2 DEF NothingLost
<1> QED  BY <1>6, <1>7, <1>8 DEF IInv

(* A line break within a character does not end a comment. *)
LEMMA SkipUntilStep == ASSUME IInv, SkipUntil PROVE IInv'
<1>1. /\ pc = "comment" /\ ~lexer_at_end /\ lexer_advance /\ Loop
      /\ pc' = IF read_char(current').ch = "\n" THEN "skip_ws" ELSE "comment"
    BY DEF SkipUntil
<1>2. /\ TypeOK' /\ Peeked' /\ NothingLost' /\ src' = src /\ begun' = begun /\ start' = start
    BY <1>1, Looping DEF IInv
<1>3. /\ current' = current + read_char(current).len
      /\ current' \in 0 .. Len(src) /\ current < current'
    BY <1>1, Advanced DEF IInv
<1>4. /\ src \in Sources /\ Len(src) \in Nat /\ begun \in Nat /\ start \in Nat /\ current \in Nat
      /\ begun <= start /\ start < current /\ current <= Len(src) /\ SkippedTo(start)
    BY <1>1, ReadBounds DEF InToken
<1>5. /\ Byte(start) = "/" /\ Byte(start + 1) = "/" /\ Byte(current) # "\n"
      /\ \A q \in start .. current - 1 : Byte(q) = "\n" => Within(q, start)
    BY <1>1 DEF IInv, InComment
<1>6. Inside' /\ Offsets'
    BY <1>2, <1>3, <1>4 DEF Inside, Offsets
<1>7. ASSUME NEW q \in start .. current' - 1, Byte(q) = "\n"
      PROVE  Within(q, start)
    <2>1. CASE q < current
        BY <1>4, <1>5, <1>7, <2>1
    <2>2. CASE q >= current
        <3>1. q \in current .. current + read_char(current).len - 1
            <4>1. q \in Int /\ q <= current' - 1 /\ current' \in Int /\ read_char(current).len \in Int
                BY <1>3, <1>4, <1>7, ReadChar
            <4> QED  BY <1>3, <1>4, <2>2, <4>1
        <3>2. current \in 0 .. Len(src) /\ start \in 0 .. current
            BY <1>4
        <3>3. q = current \/ Within(q, start)
            BY <1>4, <3>1, <3>2, GoneOver
        <3> QED  BY <1>5, <1>7, <3>3
    <2> QED  BY <1>4, <2>1, <2>2
<1>8. InLiteral' /\ InNumber' /\ InWord'
    BY <1>1 DEF InLiteral, InNumber, InWord
<1>9. CASE pc' = "comment"
    <2>1. Byte(current') # "\n"
        <3>1. read_char(current').ch # "\n"
            BY <1>1, <1>9
        <3>2. "\n" \notin Leads \cup {"nul"}
            BY DEF Leads
        <3> QED  BY <1>3, <1>4, <3>1, <3>2, CharIs
    <2>2. InComment'
        BY <1>2, <1>5, <1>7, <2>1, ByteStable, WithinStable DEF InComment
    <2>3. SkippedTo(start)'
        BY <1>2, <1>4, SkippableStable DEF SkippedTo
    <2>4. Begins'
        BY <1>2, <1>3, <1>4 DEF Begins
    <2>5. Skipping'
        BY <1>9, <2>3 DEF Skipping
    <2> QED  BY <1>2, <1>6, <1>8, <2>2, <2>4, <2>5 DEF IInv
<1>10. CASE pc' = "skip_ws"
    <2>1. ASSUME NEW p \in begun .. current' - 1
          PROVE  Skippable(p)
        <3>1. CASE p < start
            BY <1>4, <2>1, <3>1 DEF SkippedTo
        <3>2. CASE p >= start
            <4>1. start \in begun .. p /\ \A q \in start .. p : q \in start .. current' - 1
                BY <1>3, <1>4, <2>1, <3>2
            <4> QED  BY <1>5, <1>7, <4>1 DEF Skippable, Commented
        <3> QED  BY <1>4, <2>1, <3>1, <3>2
    <2>2. SkippedTo(current)'
        BY <1>2, <2>1, SkippableStable DEF SkippedTo
    <2>3. Skipping' /\ Begins' /\ InComment'
        BY <1>10, <2>2 DEF Skipping, Begins, InComment, InToken
    <2> QED  BY <1>2, <1>6, <1>8, <2>3 DEF IInv
<1> QED  BY <1>1, <1>9, <1>10

LEMMA SkippedUntilStep == ASSUME IInv, SkippedUntil PROVE IInv'
<1>1. pc = "comment" /\ pc' = "skip_ws" /\ current' = current /\ Loop
    BY DEF SkippedUntil
<1>2. /\ TypeOK' /\ Peeked' /\ NothingLost' /\ src' = src /\ begun' = begun /\ start' = start
    BY <1>1, Looping DEF IInv
<1>3. /\ src \in Sources /\ Len(src) \in Nat /\ begun \in Nat /\ start \in Nat /\ current \in Nat
      /\ begun <= start /\ start < current /\ current <= Len(src) /\ SkippedTo(start)
    BY <1>1, ReadBounds DEF InToken
<1>4. /\ Byte(start) = "/" /\ Byte(start + 1) = "/"
      /\ \A q \in start .. current - 1 : Byte(q) = "\n" => Within(q, start)
    BY <1>1 DEF IInv, InComment
<1>5. Inside' /\ Offsets'
    BY <1>1, <1>2, <1>3 DEF Inside, Offsets
<1>6. ASSUME NEW p \in begun .. current - 1
      PROVE  Skippable(p)
    <2>1. CASE p < start
        BY <1>3, <1>6, <2>1 DEF SkippedTo
    <2>2. CASE p >= start
        <3>1. start \in begun .. p /\ \A q \in start .. p : q \in start .. current - 1
            BY <1>3, <1>6, <2>2
        <3> QED  BY <1>4, <3>1 DEF Skippable, Commented
    <2> QED  BY <1>3, <1>6, <2>1, <2>2
<1>7. SkippedTo(current)'
    BY <1>1, <1>2, <1>6, SkippableStable DEF SkippedTo
<1>8. Skipping' /\ Begins' /\ InComment' /\ InLiteral' /\ InNumber' /\ InWord'
    BY <1>1, <1>7 DEF Skipping, Begins, InComment, InLiteral, InNumber, InWord, InToken
<1> QED  BY <1>2, <1>5, <1>8 DEF IInv
-----------------------------------------------------------------------------
LEMMA InitInv == Init => IInv
<1> SUFFICES ASSUME Init PROVE IInv
    OBVIOUS
<1>1. /\ src \in Sources /\ pc = "idle" /\ start = 0 /\ current = 0 /\ begun = 0
      /\ has_peek = FALSE /\ peeking = FALSE
      /\ peek = [ty |-> "UNKNOWN_ERR", start |-> 0, end |-> 0]
      /\ token = [ty |-> "UNKNOWN_ERR", start |-> 0, end |-> 0]
    BY DEF Init
<1>2. Len(src) \in Nat /\ "UNKNOWN_ERR" \in TokenTypes
    BY <1>1, LenNat, TokenTypesHas
<1>3. TypeOK
    <2>1. token \in [ty : TokenTypes, start : 0 .. Len(src), end : 0 .. Len(src)] /\ peek = token
        BY <1>1, <1>2
    <2> QED  BY <1>1, <2>1 DEF TypeOK
<1>6. Inside /\ Offsets
    BY <1>1, <1>2 DEF Inside, Offsets
<1>4. Begins /\ Peeked /\ Skipping /\ InComment /\ InLiteral /\ InNumber /\ InWord
    BY <1>1 DEF Begins, Peeked, Skipping, InComment, InLiteral, InNumber, InWord, InToken
<1>5. NothingLost
    BY <1>1 DEF NothingLost
<1> QED  BY <1>3, <1>4, <1>5, <1>6 DEF IInv

LEMMA StepInv == IInv /\ [Next]_vars => IInv'
<1> SUFFICES ASSUME IInv, [Next]_vars PROVE IInv'
    OBVIOUS
<1>1. CASE NextPeeked \/ PeekPeeked
    BY <1>1, PeekedStep
<1>2. CASE NextToken \/ Peek \/ GetToken
    BY <1>2, CallStep DEF NextToken, Peek, GetToken
<1>3. CASE SkipWs
    BY <1>3, SkipWsStep
<1>4. CASE SkippedWs
    BY <1>4, SkippedWsStep
<1>5. CASE GetEof
    BY <1>5, GetEofStep
<1>6. CASE GetBegin
    BY <1>6, GetBeginStep
<1>7. CASE GetOperator
    BY <1>7, GetOperatorStep
<1>8. CASE LexNum
    BY <1>8, LexNumStep
<1>9. CASE LexedNum
    BY <1>9, LexedNumStep
<1>10. CASE LexIdent
    BY <1>10, LexIdentStep
<1>11. CASE LexedIdent
    BY <1>11, LexedIdentStep
<1>12. CASE LexQuoted
    BY <1>12, LexQuotedStep
<1>13. CASE LexedString \/ LexedChar
    BY <1>13, LexedStep
<1>14. CASE SkipUntil
    BY <1>14, SkipUntilStep
<1>15. CASE SkippedUntil
    BY <1>15, SkippedUntilStep
<1>16. CASE SpinWs \/ UNCHANGED vars
    <2>1. UNCHANGED lexing
        BY <1>16 DEF SpinWs, vars
    <2> QED  BY <2>1, UnchangedInv
<1> QED  BY <1>1, <1>2, <1>3, <1>4, <1>5, <1>6, <1>7, <1>8, <1>9, <1>10, <1>11, <1>12, <1>13,
            <1>14, <1>15, <1>16 DEF Next

(* The lexer's invariant: what each of its loops has gone over. *)
THEOREM Invariant == Spec => []IInv
<1>1. Init => IInv
    BY InitInv
<1>2. IInv /\ [Next]_vars => IInv'
    BY StepInv
<1> QED  BY <1>1, <1>2, PTL DEF Spec

(* The lexer's variables have their types, and so do the tokens it gives. *)
THEOREM TypeCorrect == Spec => []TypeOK
<1>1. IInv => TypeOK
    BY DEF IInv
<1> QED  BY <1>1, Invariant, PTL

-----------------------------------------------------------------------------
(* What is read. *)

(* How far the lexer may read: to the byte that ends the text, or one      *)
(* further where a dot comes before it.                                    *)
Readable(q) ==
    q \in Int /\ (q <= Len(src) \/ (q = Len(src) + 1 /\ Len(src) > 0 /\ Byte(Len(src) - 1) = "."))
Extent == far >= Len(src) /\ Readable(far)

LEMMA ReadsReadable ==
    ASSUME src \in Sources, src' = src, Extent, NEW q, Readable(q), ReadsTo(q)
    PROVE  Extent'
<1>1. far' = far \/ (far' = q /\ q > far)
    BY DEF ReadsTo
<1>2. Readable(far')
    BY <1>1 DEF Extent
<1>3. far' >= Len(src)
    BY <1>1, LenNat DEF Extent, Readable
<1>4. Readable(far)'
    BY <1>2 DEF Readable, Byte
<1> QED  BY <1>3, <1>4 DEF Extent

LEMMA LastReadable ==
    ASSUME src \in Sources, NEW p \in 0 .. Len(src)
    PROVE  Readable(Last(p))
<1>1. read_char(p).len \in 0 .. Len(src) - p /\ Len(src) \in Nat
    BY ReadChar, LenNat
<1> QED  BY <1>1 DEF Readable, Last

(* What is looked at to tell what begins here. *)
LEMMA ReadAtReadable ==
    ASSUME IInv, ~lexer_at_end
    PROVE  Readable(ReadAt(lexer_current))
<1> DEFINE c == lexer_current
<1>1. src \in Sources /\ Len(src) \in Nat /\ current \in 0 .. Len(src)
    BY LenNat DEF IInv, TypeOK, Inside
<1>2. current \in Nat /\ current < Len(src)
    BY <1>1, AtEnd DEF lexer_at_end
<1>3. CASE c = "."
    <2>1. Byte(current) = "."
        BY <1>1, <1>2, <1>3, CharIs DEF lexer_current, Leads
    <2>2. ReadAt(c) = current + 2
        <3>1. c # "/" /\ c \notin DOMAIN Double
            BY <1>3 DEF Double
        <3> HIDE DEF c
        <3> QED  BY <1>3, <3>1 DEF ReadAt
    <2>3. current + 2 <= Len(src) \/ (current + 2 = Len(src) + 1 /\ current = Len(src) - 1)
        BY <1>1, <1>2
    <2> QED  BY <1>1, <1>2, <2>1, <2>2, <2>3 DEF Readable
<1>4. CASE c # "." /\ (c = "/" \/ c \in DOMAIN Double)
    <2>1. ReadAt(c) = Last(current + 1)
        BY <1>4 DEF ReadAt
    <2>2. current + 1 \in 0 .. Len(src)
        BY <1>1, <1>2
    <2> QED  BY <1>1, <2>1, <2>2, LastReadable
<1>5. CASE c # "." /\ ~(c = "/" \/ c \in DOMAIN Double)
    <2>1. ReadAt(c) = Last(current)
        BY <1>5 DEF ReadAt
    <2> QED  BY <1>1, <2>1, LastReadable
<1> QED  BY <1>3, <1>4, <1>5

LEMMA StepExtent == IInv /\ Extent /\ [Next]_vars => Extent'
<1> SUFFICES ASSUME IInv, Extent, [Next]_vars PROVE Extent'
    OBVIOUS
<1>0. src \in Sources /\ current \in 0 .. Len(src)
    BY DEF IInv, TypeOK, Inside
<1>1. CASE UNCHANGED <<src, far>>
    BY <1>1 DEF Extent, Readable, Byte
<1>2. ASSUME src' = src, Reads(current) PROVE Extent'
    BY <1>0, <1>2, LastReadable, ReadsReadable DEF Reads
<1>3. ASSUME src' = src, ~lexer_at_end, ReadsTo(ReadAt(lexer_current)) PROVE Extent'
    BY <1>0, <1>3, ReadAtReadable, ReadsReadable
<1>4. CASE SkipUntil
    <2>1. lexer_advance /\ ReadsTo(Last(current')) /\ src' = src
        BY <1>4 DEF SkipUntil, Loop
    <2>2. current' \in 0 .. Len(src)
        BY <2>1, Advanced DEF IInv
    <2>3. Readable(Last(current'))
        BY <1>0, <2>2, LastReadable
    <2> QED  BY <1>0, <2>1, <2>3, ReadsReadable
<1>5. CASE GetBegin \/ GetOperator
    <2>1. src' = src /\ ~lexer_at_end /\ ReadsTo(ReadAt(lexer_current))
        BY <1>5 DEF GetBegin, GetOperator
    <2> QED  BY <1>3, <2>1
<1>6. CASE SkipWs \/ SpinWs \/ SkippedWs \/ GetEof \/ LexNum \/ LexedNum \/ LexIdent \/ LexedIdent
           \/ LexQuoted \/ LexedString \/ LexedChar \/ SkippedUntil
    <2>1. src' = src /\ Reads(current)
        BY <1>6 DEF SkipWs, SpinWs, SkippedWs, GetEof, LexNum, LexedNum, LexIdent, LexedIdent,
                    LexQuoted, LexedString, LexedChar, SkippedUntil, Loop, lexing
    <2> QED  BY <1>2, <2>1
<1>7. CASE NextPeeked \/ PeekPeeked \/ NextToken \/ Peek \/ GetToken \/ UNCHANGED vars
    BY <1>1, <1>7 DEF NextPeeked, PeekPeeked, NextToken, Peek, GetToken, Call, vars, lexing
<1> QED  BY <1>4, <1>5, <1>6, <1>7 DEF Next

(* Whatever the text, no byte behind the one that ends it is read, but one *)
(* of a text that ends in a dot, by the comparison with three dots; and no *)
(* call goes back (lexer.c:290, 328-350, 456).                             *)
THEOREM AlwaysInBounds == Spec => []InBounds
<1>1. Init => Extent
    BY LenNat DEF Init, Extent, Readable
<1>2. IInv /\ Extent => InBounds
    BY LenNat DEF IInv, TypeOK, Inside, Extent, Readable, InBounds
<1> QED  BY <1>1, <1>2, StepExtent, Invariant, PTL DEF Spec

(* Whatever the text, a call skips only white space and comments, and a    *)
(* literal is all that is between its quotes (lexer.c:285-312, 466-470).   *)
THEOREM AlwaysNothingLost == Spec => []NothingLost
<1>1. IInv => NothingLost
    BY DEF IInv
<1> QED  BY <1>1, Invariant, PTL
-----------------------------------------------------------------------------
(* How tokens are spelled. *)

(* The types with a spelling, one by one, and the spellings. *)
LEMMA SpelledTypes ==
    DOMAIN token_strings =
        {"SEMI", "COMMA", "COLON", "PLUS", "MINUS", "STAR", "LPAREN", "RPAREN",
         "LBRACE", "RBRACE", "PERCENT", "SMALLER_EQ", "SMALLER", "GREATER_EQ",
         "GREATER", "DOUBLE_AMPERSAND", "AMPERSAND", "DOUBLE_PIPE", "PIPE",
         "DOUBLE_EQ", "EQ", "BANG_EQ", "BANG", "DOT", "TRIPLE_DOT", "SLASH", "LET",
         "IF", "IMPORT", "DELETE", "FN", "EXTERN", "ELSE", "WHILE", "NEW",
         "STRUCT", "TYPE", "RETURN", "AS"}
<1>1. {Single[c] : c \in DOMAIN Single} =
          {"SEMI", "COMMA", "COLON", "PLUS", "MINUS", "STAR", "LPAREN", "RPAREN",
           "LBRACE", "RBRACE", "PERCENT"}
    BY DEF Single
<1>2. UNION {{Double[c].both, Double[c].one} : c \in DOMAIN Double} =
          {"SMALLER_EQ", "SMALLER", "GREATER_EQ", "GREATER", "DOUBLE_AMPERSAND",
           "AMPERSAND", "DOUBLE_PIPE", "PIPE", "DOUBLE_EQ", "EQ", "BANG_EQ", "BANG"}
    BY DEF Double
<1> HIDE DEF Single, Double
<1> QED  BY <1>1, <1>2 DEF token_strings, KeywordTypes

LEMMA Spellings ==
    /\ token_strings["SEMI"] = <<";">>
    /\ token_strings["COMMA"] = <<",">>
    /\ token_strings["COLON"] = <<":">>
    /\ token_strings["PLUS"] = <<"+">>
    /\ token_strings["MINUS"] = <<"-">>
    /\ token_strings["STAR"] = <<"*">>
    /\ token_strings["LPAREN"] = <<"(">>
    /\ token_strings["RPAREN"] = <<")">>
    /\ token_strings["LBRACE"] = <<"{">>
    /\ token_strings["RBRACE"] = <<"}">>
    /\ token_strings["PERCENT"] = <<"%">>
    /\ token_strings["SMALLER_EQ"] = <<"<", "=">>
    /\ token_strings["SMALLER"] = <<"<">>
    /\ token_strings["GREATER_EQ"] = <<">", "=">>
    /\ token_strings["GREATER"] = <<">">>
    /\ token_strings["DOUBLE_AMPERSAND"] = <<"&", "&">>
    /\ token_strings["AMPERSAND"] = <<"&">>
    /\ token_strings["DOUBLE_PIPE"] = <<"|", "|">>
    /\ token_strings["PIPE"] = <<"|">>
    /\ token_strings["DOUBLE_EQ"] = <<"=", "=">>
    /\ token_strings["EQ"] = <<"=">>
    /\ token_strings["BANG_EQ"] = <<"!", "=">>
    /\ token_strings["BANG"] = <<"!">>
    /\ token_strings["DOT"] = <<".">>
    /\ token_strings["TRIPLE_DOT"] = <<".", ".", ".">>
    /\ token_strings["SLASH"] = <<"/">>
    /\ token_strings["LET"] = <<"l", "e", "t">>
    /\ token_strings["IF"] = <<"i", "f">>
    /\ token_strings["IMPORT"] = <<"i", "m", "p", "o", "r", "t">>
    /\ token_strings["DELETE"] = <<"d", "e", "l", "e", "t", "e">>
    /\ token_strings["FN"] = <<"f", "n">>
    /\ token_strings["EXTERN"] = <<"e", "x", "t", "e", "r", "n">>
    /\ token_strings["ELSE"] = <<"e", "l", "s", "e">>
    /\ token_strings["WHILE"] = <<"w", "h", "i", "l", "e">>
    /\ token_strings["NEW"] = <<"n", "e", "w">>
    /\ token_strings["STRUCT"] = <<"s", "t", "r", "u", "c", "t">>
    /\ token_strings["TYPE"] = <<"t", "y", "p", "e">>
    /\ token_strings["RETURN"] = <<"r", "e", "t", "u", "r", "n">>
    /\ token_strings["AS"] = <<"a", "s">>
<1>1. token_strings["SEMI"] = <<";">>
    BY SpelledTypes, Zenon DEF token_strings
<1>2. token_strings["COMMA"] = <<",">>
    BY SpelledTypes, Zenon DEF token_strings
<1>3. token_strings["COLON"] = <<":">>
    BY SpelledTypes, Zenon DEF token_strings
<1>4. token_strings["PLUS"] = <<"+">>
    BY SpelledTypes, Zenon DEF token_strings
<1>5. token_strings["MINUS"] = <<"-">>
    BY SpelledTypes, Zenon DEF token_strings
<1>6. token_strings["STAR"] = <<"*">>
    BY SpelledTypes, Zenon DEF token_strings
<1>7. token_strings["LPAREN"] = <<"(">>
    BY SpelledTypes, Zenon DEF token_strings
<1>8. token_strings["RPAREN"] = <<")">>
    BY SpelledTypes, Zenon DEF token_strings
<1>9. token_strings["LBRACE"] = <<"{">>
    BY SpelledTypes, Zenon DEF token_strings
<1>10. token_strings["RBRACE"] = <<"}">>
    BY SpelledTypes, Zenon DEF token_strings
<1>11. token_strings["PERCENT"] = <<"%">>
    BY SpelledTypes, Zenon DEF token_strings
<1>12. token_strings["SMALLER_EQ"] = <<"<", "=">>
    BY SpelledTypes, Zenon DEF token_strings
<1>13. token_strings["SMALLER"] = <<"<">>
    BY SpelledTypes, Zenon DEF token_strings
<1>14. token_strings["GREATER_EQ"] = <<">", "=">>
    BY SpelledTypes, Zenon DEF token_strings
<1>15. token_strings["GREATER"] = <<">">>
    BY SpelledTypes, Zenon DEF token_strings
<1>16. token_strings["DOUBLE_AMPERSAND"] = <<"&", "&">>
    BY SpelledTypes, Zenon DEF token_strings
<1>17. token_strings["AMPERSAND"] = <<"&">>
    BY SpelledTypes, Zenon DEF token_strings
<1>18. token_strings["DOUBLE_PIPE"] = <<"|", "|">>
    BY SpelledTypes, Zenon DEF token_strings
<1>19. token_strings["PIPE"] = <<"|">>
    BY SpelledTypes, Zenon DEF token_strings
<1>20. token_strings["DOUBLE_EQ"] = <<"=", "=">>
    BY SpelledTypes, Zenon DEF token_strings
<1>21. token_strings["EQ"] = <<"=">>
    BY SpelledTypes, Zenon DEF token_strings
<1>22. token_strings["BANG_EQ"] = <<"!", "=">>
    BY SpelledTypes, Zenon DEF token_strings
<1>23. token_strings["BANG"] = <<"!">>
    BY SpelledTypes, Zenon DEF token_strings
<1>24. token_strings["DOT"] = <<".">>
    BY SpelledTypes, Zenon DEF token_strings
<1>25. token_strings["TRIPLE_DOT"] = <<".", ".", ".">>
    BY SpelledTypes, Zenon DEF token_strings
<1>26. token_strings["SLASH"] = <<"/">>
    BY SpelledTypes, Zenon DEF token_strings
<1>27. token_strings["LET"] = <<"l", "e", "t">>
    BY SpelledTypes, Zenon DEF token_strings
<1>28. token_strings["IF"] = <<"i", "f">>
    BY SpelledTypes, Zenon DEF token_strings
<1>29. token_strings["IMPORT"] = <<"i", "m", "p", "o", "r", "t">>
    BY SpelledTypes, Zenon DEF token_strings
<1>30. token_strings["DELETE"] = <<"d", "e", "l", "e", "t", "e">>
    BY SpelledTypes, Zenon DEF token_strings
<1>31. token_strings["FN"] = <<"f", "n">>
    BY SpelledTypes, Zenon DEF token_strings
<1>32. token_strings["EXTERN"] = <<"e", "x", "t", "e", "r", "n">>
    BY SpelledTypes, Zenon DEF token_strings
<1>33. token_strings["ELSE"] = <<"e", "l", "s", "e">>
    BY SpelledTypes, Zenon DEF token_strings
<1>34. token_strings["WHILE"] = <<"w", "h", "i", "l", "e">>
    BY SpelledTypes, Zenon DEF token_strings
<1>35. token_strings["NEW"] = <<"n", "e", "w">>
    BY SpelledTypes, Zenon DEF token_strings
<1>36. token_strings["STRUCT"] = <<"s", "t", "r", "u", "c", "t">>
    BY SpelledTypes, Zenon DEF token_strings
<1>37. token_strings["TYPE"] = <<"t", "y", "p", "e">>
    BY SpelledTypes, Zenon DEF token_strings
<1>38. token_strings["RETURN"] = <<"r", "e", "t", "u", "r", "n">>
    BY SpelledTypes, Zenon DEF token_strings
<1>39. token_strings["AS"] = <<"a", "s">>
    BY SpelledTypes, Zenon DEF token_strings
<1> QED  BY <1>1, <1>2, <1>3, <1>4, <1>5, <1>6, <1>7, <1>8, <1>9, <1>10, <1>11, <1>12, <1>13, <1>14, <1>15, <1>16, <1>17, <1>18, <1>19, <1>20, <1>21, <1>22, <1>23, <1>24, <1>25, <1>26, <1>27, <1>28, <1>29, <1>30, <1>31, <1>32, <1>33, <1>34, <1>35, <1>36, <1>37, <1>38, <1>39
(* How long a token is that begins with some byte. *)
Shaped(w) ==
    /\ Len(w) \in Nat /\ Len(w) >= 1 /\ w = [k \in 1 .. Len(w) |-> w[k]]
    /\ w[1] \in Letters \cup DOMAIN Single \cup DOMAIN Double \cup {".", "/"}
    /\ w[1] \in DOMAIN Single \cup {"/"} => Len(w) = 1
    /\ w[1] = "." => Len(w) = 1 \/ (Len(w) = 3 /\ w[2] = "." /\ w[3] = ".")
    /\ w[1] \in DOMAIN Double => Len(w) = 1 \/ (Len(w) = 2 /\ w[2] = Double[w[1]].with)

LEMMA ShapedOne ==
    ASSUME NEW a \in DOMAIN Single \cup DOMAIN Double \cup {".", "/"}
    PROVE  Shaped(<<a>>)
    BY DEF Shaped

LEMMA ShapedTwo == ASSUME NEW a \in DOMAIN Double PROVE Shaped(<<a, Double[a].with>>)
<1>1. a \notin DOMAIN Single \cup {".", "/"}
    BY OperatorBytes
<1>2. PICK b : b = Double[a].with
    OBVIOUS
<1> QED  BY <1>1, <1>2 DEF Shaped

LEMMA ShapedDots == Shaped(<<".", ".", ".">>)
<1>1. PICK w : w = <<".", ".", ".">>
    OBVIOUS
<1>2. Len(w) = 3 /\ w[1] = "." /\ w[2] = "." /\ w[3] = "."
    BY <1>1
<1>3. w = [k \in 1 .. Len(w) |-> w[k]]
    BY <1>1
<1>4. "." \notin DOMAIN Single \cup DOMAIN Double \cup {"/"}
    BY OperatorBytes
<1>5. Shaped(w)
    BY <1>2, <1>3, <1>4 DEF Shaped
<1> QED  BY <1>1, <1>5

LEMMA ShapedWord == ASSUME NEW w \in Seq(Letters), Len(w) >= 1 PROVE Shaped(w)
<1>1. Len(w) \in Nat /\ w[1] \in Letters /\ w = [k \in 1 .. Len(w) |-> w[k]]
    OBVIOUS
<1>2. w[1] \notin DOMAIN Single \cup DOMAIN Double \cup {".", "/"}
    BY <1>1, OperatorBytes DEF Letters
<1> QED  BY <1>1, <1>2 DEF Shaped

LEMMA SpellingsShaped == \A ty \in DOMAIN token_strings : Shaped(token_strings[ty])
<1>0. /\ Double["<"].with = "=" /\ Double[">"].with = "=" /\ Double["="].with = "="
      /\ Double["!"].with = "=" /\ Double["&"].with = "&" /\ Double["|"].with = "|"
    BY DEF Double
<1>1. Shaped(token_strings["SEMI"])
    BY ShapedOne, Spellings, OperatorBytes
<1>2. Shaped(token_strings["COMMA"])
    BY ShapedOne, Spellings, OperatorBytes
<1>3. Shaped(token_strings["COLON"])
    BY ShapedOne, Spellings, OperatorBytes
<1>4. Shaped(token_strings["PLUS"])
    BY ShapedOne, Spellings, OperatorBytes
<1>5. Shaped(token_strings["MINUS"])
    BY ShapedOne, Spellings, OperatorBytes
<1>6. Shaped(token_strings["STAR"])
    BY ShapedOne, Spellings, OperatorBytes
<1>7. Shaped(token_strings["LPAREN"])
    BY ShapedOne, Spellings, OperatorBytes
<1>8. Shaped(token_strings["RPAREN"])
    BY ShapedOne, Spellings, OperatorBytes
<1>9. Shaped(token_strings["LBRACE"])
    BY ShapedOne, Spellings, OperatorBytes
<1>10. Shaped(token_strings["RBRACE"])
    BY ShapedOne, Spellings, OperatorBytes
<1>11. Shaped(token_strings["PERCENT"])
    BY ShapedOne, Spellings, OperatorBytes
<1>12. Shaped(token_strings["SMALLER_EQ"])
    <2>1. Shaped(<<"<", Double["<"].with>>)
        BY ShapedTwo, OperatorBytes
    <2> QED  BY <1>0, <2>1, Spellings
<1>13. Shaped(token_strings["SMALLER"])
    BY ShapedOne, Spellings, OperatorBytes
<1>14. Shaped(token_strings["GREATER_EQ"])
    <2>1. Shaped(<<">", Double[">"].with>>)
        BY ShapedTwo, OperatorBytes
    <2> QED  BY <1>0, <2>1, Spellings
<1>15. Shaped(token_strings["GREATER"])
    BY ShapedOne, Spellings, OperatorBytes
<1>16. Shaped(token_strings["DOUBLE_AMPERSAND"])
    <2>1. Shaped(<<"&", Double["&"].with>>)
        BY ShapedTwo, OperatorBytes
    <2> QED  BY <1>0, <2>1, Spellings
<1>17. Shaped(token_strings["AMPERSAND"])
    BY ShapedOne, Spellings, OperatorBytes
<1>18. Shaped(token_strings["DOUBLE_PIPE"])
    <2>1. Shaped(<<"|", Double["|"].with>>)
        BY ShapedTwo, OperatorBytes
    <2> QED  BY <1>0, <2>1, Spellings
<1>19. Shaped(token_strings["PIPE"])
    BY ShapedOne, Spellings, OperatorBytes
<1>20. Shaped(token_strings["DOUBLE_EQ"])
    <2>1. Shaped(<<"=", Double["="].with>>)
        BY ShapedTwo, OperatorBytes
    <2> QED  BY <1>0, <2>1, Spellings
<1>21. Shaped(token_strings["EQ"])
    BY ShapedOne, Spellings, OperatorBytes
<1>22. Shaped(token_strings["BANG_EQ"])
    <2>1. Shaped(<<"!", Double["!"].with>>)
        BY ShapedTwo, OperatorBytes
    <2> QED  BY <1>0, <2>1, Spellings
<1>23. Shaped(token_strings["BANG"])
    BY ShapedOne, Spellings, OperatorBytes
<1>24. Shaped(token_strings["DOT"])
    BY ShapedOne, Spellings, OperatorBytes
<1>25. Shaped(token_strings["TRIPLE_DOT"])
    BY ShapedDots, Spellings
<1>26. Shaped(token_strings["SLASH"])
    BY ShapedOne, Spellings, OperatorBytes
<1>27. Shaped(token_strings["LET"])
    <2>1. <<"l", "e", "t">> \in Seq(Letters) /\ Len(<<"l", "e", "t">>) >= 1
        BY DEF Letters
    <2> QED  BY <2>1, ShapedWord, Spellings
<1>28. Shaped(token_strings["IF"])
    <2>1. <<"i", "f">> \in Seq(Letters) /\ Len(<<"i", "f">>) >= 1
        BY DEF Letters
    <2> QED  BY <2>1, ShapedWord, Spellings
<1>29. Shaped(token_strings["IMPORT"])
    <2>1. <<"i", "m", "p", "o", "r", "t">> \in Seq(Letters) /\ Len(<<"i", "m", "p", "o", "r", "t">>) >= 1
        BY DEF Letters
    <2> QED  BY <2>1, ShapedWord, Spellings
<1>30. Shaped(token_strings["DELETE"])
    <2>1. <<"d", "e", "l", "e", "t", "e">> \in Seq(Letters) /\ Len(<<"d", "e", "l", "e", "t", "e">>) >= 1
        BY DEF Letters
    <2> QED  BY <2>1, ShapedWord, Spellings
<1>31. Shaped(token_strings["FN"])
    <2>1. <<"f", "n">> \in Seq(Letters) /\ Len(<<"f", "n">>) >= 1
        BY DEF Letters
    <2> QED  BY <2>1, ShapedWord, Spellings
<1>32. Shaped(token_strings["EXTERN"])
    <2>1. <<"e", "x", "t", "e", "r", "n">> \in Seq(Letters) /\ Len(<<"e", "x", "t", "e", "r", "n">>) >= 1
        BY DEF Letters
    <2> QED  BY <2>1, ShapedWord, Spellings
<1>33. Shaped(token_strings["ELSE"])
    <2>1. <<"e", "l", "s", "e">> \in Seq(Letters) /\ Len(<<"e", "l", "s", "e">>) >= 1
        BY DEF Letters
    <2> QED  BY <2>1, ShapedWord, Spellings
<1>34. Shaped(token_strings["WHILE"])
    <2>1. <<"w", "h", "i", "l", "e">> \in Seq(Letters) /\ Len(<<"w", "h", "i", "l", "e">>) >= 1
        BY DEF Letters
    <2> QED  BY <2>1, ShapedWord, Spellings
<1>35. Shaped(token_strings["NEW"])
    <2>1. <<"n", "e", "w">> \in Seq(Letters) /\ Len(<<"n", "e", "w">>) >= 1
        BY DEF Letters
    <2> QED  BY <2>1, ShapedWord, Spellings
<1>36. Shaped(token_strings["STRUCT"])
    <2>1. <<"s", "t", "r", "u", "c", "t">> \in Seq(Letters) /\ Len(<<"s", "t", "r", "u", "c", "t">>) >= 1
        BY DEF Letters
    <2> QED  BY <2>1, ShapedWord, Spellings
<1>37. Shaped(token_strings["TYPE"])
    <2>1. <<"t", "y", "p", "e">> \in Seq(Letters) /\ Len(<<"t", "y", "p", "e">>) >= 1
        BY DEF Letters
    <2> QED  BY <2>1, ShapedWord, Spellings
<1>38. Shaped(token_strings["RETURN"])
    <2>1. <<"r", "e", "t", "u", "r", "n">> \in Seq(Letters) /\ Len(<<"r", "e", "t", "u", "r", "n">>) >= 1
        BY DEF Letters
    <2> QED  BY <2>1, ShapedWord, Spellings
<1>39. Shaped(token_strings["AS"])
    <2>1. <<"a", "s">> \in Seq(Letters) /\ Len(<<"a", "s">>) >= 1
        BY DEF Letters
    <2> QED  BY <2>1, ShapedWord, Spellings
<1> QED  BY SpelledTypes, <1>1, <1>2, <1>3, <1>4, <1>5, <1>6, <1>7, <1>8, <1>9, <1>10, <1>11,
            <1>12, <1>13, <1>14, <1>15, <1>16, <1>17, <1>18, <1>19, <1>20, <1>21,
            <1>22, <1>23, <1>24, <1>25, <1>26, <1>27, <1>28, <1>29, <1>30, <1>31,
            <1>32, <1>33, <1>34, <1>35, <1>36, <1>37, <1>38, <1>39
(* What is spelled with one byte, or with that and another. *)
OneSpelled(c) == Single[c] \in DOMAIN token_strings /\ token_strings[Single[c]] = <<c>>
TwoSpelled(c) ==
    /\ Double[c].both \in DOMAIN token_strings /\ Double[c].one \in DOMAIN token_strings
    /\ token_strings[Double[c].one] = <<c>>
    /\ token_strings[Double[c].both] = <<c, Double[c].with>>

LEMMA TwoSpelledIs ==
    ASSUME NEW c, NEW with, NEW both \in DOMAIN token_strings, NEW one \in DOMAIN token_strings,
           Double[c] = [with |-> with, both |-> both, one |-> one],
           token_strings[one] = <<c>>, token_strings[both] = <<c, with>>
    PROVE  TwoSpelled(c)
<1>1. Double[c].with = with /\ Double[c].both = both /\ Double[c].one = one
    OBVIOUS
<1> QED  BY <1>1 DEF TwoSpelled

LEMMA OperatorSpelled ==
    /\ \A c \in DOMAIN Single : OneSpelled(c)
    /\ \A c \in DOMAIN Double : TwoSpelled(c)
<1>1. OneSpelled(";")
    <2>1. Single[";"] = "SEMI"
        BY DEF Single
    <2> QED  BY <2>1, Spellings, SpelledTypes DEF OneSpelled
<1>2. OneSpelled(",")
    <2>1. Single[","] = "COMMA"
        BY DEF Single
    <2> QED  BY <2>1, Spellings, SpelledTypes DEF OneSpelled
<1>3. OneSpelled(":")
    <2>1. Single[":"] = "COLON"
        BY DEF Single
    <2> QED  BY <2>1, Spellings, SpelledTypes DEF OneSpelled
<1>4. OneSpelled("+")
    <2>1. Single["+"] = "PLUS"
        BY DEF Single
    <2> QED  BY <2>1, Spellings, SpelledTypes DEF OneSpelled
<1>5. OneSpelled("-")
    <2>1. Single["-"] = "MINUS"
        BY DEF Single
    <2> QED  BY <2>1, Spellings, SpelledTypes DEF OneSpelled
<1>6. OneSpelled("*")
    <2>1. Single["*"] = "STAR"
        BY DEF Single
    <2> QED  BY <2>1, Spellings, SpelledTypes DEF OneSpelled
<1>7. OneSpelled("(")
    <2>1. Single["("] = "LPAREN"
        BY DEF Single
    <2> QED  BY <2>1, Spellings, SpelledTypes DEF OneSpelled
<1>8. OneSpelled(")")
    <2>1. Single[")"] = "RPAREN"
        BY DEF Single
    <2> QED  BY <2>1, Spellings, SpelledTypes DEF OneSpelled
<1>9. OneSpelled("{")
    <2>1. Single["{"] = "LBRACE"
        BY DEF Single
    <2> QED  BY <2>1, Spellings, SpelledTypes DEF OneSpelled
<1>10. OneSpelled("}")
    <2>1. Single["}"] = "RBRACE"
        BY DEF Single
    <2> QED  BY <2>1, Spellings, SpelledTypes DEF OneSpelled
<1>11. OneSpelled("%")
    <2>1. Single["%"] = "PERCENT"
        BY DEF Single
    <2> QED  BY <2>1, Spellings, SpelledTypes DEF OneSpelled
<1>12. TwoSpelled("<")
    <2>1. Double["<"] = [with |-> "=", both |-> "SMALLER_EQ", one |-> "SMALLER"]
        BY DEF Double
    <2>2. "SMALLER_EQ" \in DOMAIN token_strings /\ "SMALLER" \in DOMAIN token_strings
        BY SpelledTypes
    <2>3. token_strings["SMALLER"] = <<"<">> /\ token_strings["SMALLER_EQ"] = <<"<", "=">>
        BY Spellings
    <2> QED  BY <2>1, <2>2, <2>3, TwoSpelledIs
<1>13. TwoSpelled(">")
    <2>1. Double[">"] = [with |-> "=", both |-> "GREATER_EQ", one |-> "GREATER"]
        BY DEF Double
    <2>2. "GREATER_EQ" \in DOMAIN token_strings /\ "GREATER" \in DOMAIN token_strings
        BY SpelledTypes
    <2>3. token_strings["GREATER"] = <<">">> /\ token_strings["GREATER_EQ"] = <<">", "=">>
        BY Spellings
    <2> QED  BY <2>1, <2>2, <2>3, TwoSpelledIs
<1>14. TwoSpelled("&")
    <2>1. Double["&"] = [with |-> "&", both |-> "DOUBLE_AMPERSAND", one |-> "AMPERSAND"]
        BY DEF Double
    <2>2. "DOUBLE_AMPERSAND" \in DOMAIN token_strings /\ "AMPERSAND" \in DOMAIN token_strings
        BY SpelledTypes
    <2>3. token_strings["AMPERSAND"] = <<"&">> /\ token_strings["DOUBLE_AMPERSAND"] = <<"&", "&">>
        BY Spellings
    <2> QED  BY <2>1, <2>2, <2>3, TwoSpelledIs
<1>15. TwoSpelled("|")
    <2>1. Double["|"] = [with |-> "|", both |-> "DOUBLE_PIPE", one |-> "PIPE"]
        BY DEF Double
    <2>2. "DOUBLE_PIPE" \in DOMAIN token_strings /\ "PIPE" \in DOMAIN token_strings
        BY SpelledTypes
    <2>3. token_strings["PIPE"] = <<"|">> /\ token_strings["DOUBLE_PIPE"] = <<"|", "|">>
        BY Spellings
    <2> QED  BY <2>1, <2>2, <2>3, TwoSpelledIs
<1>16. TwoSpelled("=")
    <2>1. Double["="] = [with |-> "=", both |-> "DOUBLE_EQ", one |-> "EQ"]
        BY DEF Double
    <2>2. "DOUBLE_EQ" \in DOMAIN token_strings /\ "EQ" \in DOMAIN token_strings
        BY SpelledTypes
    <2>3. token_strings["EQ"] = <<"=">> /\ token_strings["DOUBLE_EQ"] = <<"=", "=">>
        BY Spellings
    <2> QED  BY <2>1, <2>2, <2>3, TwoSpelledIs
<1>17. TwoSpelled("!")
    <2>1. Double["!"] = [with |-> "=", both |-> "BANG_EQ", one |-> "BANG"]
        BY DEF Double
    <2>2. "BANG_EQ" \in DOMAIN token_strings /\ "BANG" \in DOMAIN token_strings
        BY SpelledTypes
    <2>3. token_strings["BANG"] = <<"!">> /\ token_strings["BANG_EQ"] = <<"!", "=">>
        BY Spellings
    <2> QED  BY <2>1, <2>2, <2>3, TwoSpelledIs
<1>18. \A c \in DOMAIN Single : OneSpelled(c)
    BY OperatorBytes, <1>1, <1>2, <1>3, <1>4, <1>5, <1>6, <1>7, <1>8, <1>9, <1>10, <1>11
<1>19. \A c \in DOMAIN Double : TwoSpelled(c)
    BY OperatorBytes, <1>12, <1>13, <1>14, <1>15, <1>16, <1>17
<1> QED  BY <1>18, <1>19

(* The text of a token, byte by byte. *)
LEMMA TextIs ==
    ASSUME src \in Sources, NEW e \in 0 .. Len(src), NEW s \in 0 .. e,
           NEW w, Len(w) \in Nat, w = [k \in 1 .. Len(w) |-> w[k]]
    PROVE  SubSeq(src, s + 1, e) = w <=> e - s = Len(w) /\ StartsAt(s, w)
<1>0. Len(src) \in Nat /\ e \in Nat /\ s \in Nat /\ s <= e /\ e <= Len(src)
    BY LenNat
<1>1. SubSeq(src, s + 1, e) = [k \in 1 .. e - s |-> Byte(s + k - 1)]
    <2>1. SubSeq(src, s + 1, e) = [k \in 1 .. (1 + e - (s + 1)) |-> src[k + (s + 1) - 1]]
        BY DEF SubSeq
    <2>2. 1 + e - (s + 1) = e - s
        BY <1>0
    <2>3. \A k \in 1 .. e - s : src[k + (s + 1) - 1] = Byte(s + k - 1)
        <3> TAKE k \in 1 .. e - s
        <3>1. s + k - 1 < Len(src) /\ k + (s + 1) - 1 = s + k - 1 + 1
            BY <1>0
        <3> QED  BY <3>1 DEF Byte
    <2> QED  BY <2>1, <2>2, <2>3
<1>2. PICK b : b = [k \in 1 .. e - s |-> Byte(s + k - 1)]
    OBVIOUS
<1>3. ASSUME b = w
      PROVE  e - s = Len(w) /\ StartsAt(s, w)
    <2>1. DOMAIN b = 1 .. e - s /\ DOMAIN w = 1 .. Len(w)
        BY <1>2
    <2>2. e - s = Len(w)
        BY <1>0, <1>3, <2>1
    <2> QED  BY <1>2, <1>3, <2>1, <2>2 DEF StartsAt
<1>4. ASSUME e - s = Len(w), StartsAt(s, w)
      PROVE  b = w
    <2>1. DOMAIN w = 1 .. e - s
        BY <1>4
    <2>2. \A k \in 1 .. e - s : b[k] = w[k]
        BY <1>2, <1>4, <2>1 DEF StartsAt
    <2> QED  BY <1>2, <1>4, <2>2
<1> QED  BY <1>1, <1>2, <1>3, <1>4

(* How long a spelling is that the text goes on with. *)
LEMMA StartsShaped ==
    ASSUME current \in Nat, NEW w, Shaped(w), StartsAt(current, w)
    PROVE  /\ Byte(current) \in DOMAIN Single \cup {"/"} => Len(w) <= 1
           /\ Byte(current) = "." => Len(w) <= 1 \/ (Len(w) <= 3 /\ TripleDot)
           /\ Byte(current) \in DOMAIN Double =>
                  Len(w) <= 1 \/ (Len(w) <= 2 /\ Byte(current + 1) = Double[Byte(current)].with)
<1>1. PICK n : n = Len(w)
    OBVIOUS
<1>2. n \in Nat /\ n >= 1 /\ DOMAIN w = 1 .. n
    BY <1>1 DEF Shaped
<1>3. Byte(current) = w[1]
    <2>1. 1 \in DOMAIN w /\ current + 1 - 1 = current
        BY <1>2
    <2> QED  BY <2>1 DEF StartsAt
<1>4. n >= 2 => Byte(current + 1) = w[2]
    <2>1. n >= 2 => 2 \in DOMAIN w /\ current + 2 - 1 = current + 1
        BY <1>2
    <2> QED  BY <2>1 DEF StartsAt
<1>5. n >= 3 => Byte(current + 2) = w[3]
    <2>1. n >= 3 => 3 \in DOMAIN w /\ current + 3 - 1 = current + 2
        BY <1>2
    <2> QED  BY <2>1 DEF StartsAt
<1>6. Byte(current) \in DOMAIN Single \cup {"/"} => n <= 1
    <2>1. Byte(current) \in DOMAIN Single \cup {"/"} => n = 1
        BY <1>1, <1>3 DEF Shaped
    <2> QED  BY <1>2, <2>1
<1>7. Byte(current) = "." => n <= 1 \/ (n <= 3 /\ TripleDot)
    <2>1. Byte(current) = "." => n = 1 \/ (n = 3 /\ w[2] = "." /\ w[3] = ".")
        BY <1>1, <1>3 DEF Shaped
    <2> QED  BY <1>2, <1>4, <1>5, <2>1, Dots
<1>8. Byte(current) \in DOMAIN Double =>
          n <= 1 \/ (n <= 2 /\ Byte(current + 1) = Double[Byte(current)].with)
    <2>1. Byte(current) \in DOMAIN Double => n = 1 \/ (n = 2 /\ w[2] = Double[Byte(current)].with)
        BY <1>1, <1>3 DEF Shaped
    <2> QED  BY <1>2, <1>4, <2>1
<1> QED  BY <1>1, <1>6, <1>7, <1>8

(* An operator is spelled as its type is, and no longer one begins there. *)
Matched(ty, len) ==
    /\ ty \in DOMAIN token_strings \ KeywordTypes
    /\ len = Len(token_strings[ty]) /\ StartsAt(current, token_strings[ty])
    /\ \A other \in DOMAIN token_strings : StartsAt(current, token_strings[other]) =>
           Len(token_strings[other]) <= len

LEMMA OperatorMatched ==
    ASSUME src \in Sources, current \in 0 .. Len(src), current # Len(src),
           NEW op, op = Operator(lexer_current), op.ty # "UNKNOWN_ERR"
    PROVE  Matched(op.ty, op.len)
<1>0. Len(src) \in Nat /\ current \in Nat /\ current < Len(src)
    BY LenNat
<1>1. PICK c : c = lexer_current
    OBVIOUS
<1>2. c \notin Leads \cup {"nul"} => Byte(current) = c
    BY <1>0, <1>1, CharIs DEF lexer_current
<1>3. \A ty \in DOMAIN token_strings : StartsAt(current, token_strings[ty]) =>
          LET w == token_strings[ty]
          IN  /\ Byte(current) \in DOMAIN Single \cup {"/"} => Len(w) <= 1
              /\ Byte(current) = "." => Len(w) <= 1 \/ (Len(w) <= 3 /\ TripleDot)
              /\ Byte(current) \in DOMAIN Double =>
                     Len(w) <= 1 \/ (Len(w) <= 2 /\ Byte(current + 1) = Double[Byte(current)].with)
    BY <1>0, SpellingsShaped, StartsShaped
<1>5. \A a : Len(<<a>>) = 1 /\ (Byte(current) = a => StartsAt(current, <<a>>))
    BY <1>0 DEF StartsAt
<1>6. \A a, b : /\ Len(<<a, b>>) = 2
                /\ Byte(current) = a /\ Byte(current + 1) = b => StartsAt(current, <<a, b>>)
    BY <1>0 DEF StartsAt
<1>7. CASE c \in DOMAIN Single
    <2>1. op = [ty |-> Single[c], len |-> 1]
        BY <1>1, <1>7, OperatorBytes DEF Operator
    <2>2. Byte(current) = c
        BY <1>2, <1>7, OperatorBytes DEF Leads
    <2>3. OneSpelled(c) /\ Single[c] \notin KeywordTypes
        BY <1>7, OperatorSpelled DEF Single, KeywordTypes
    <2>4. \A ty \in DOMAIN token_strings : StartsAt(current, token_strings[ty]) =>
              Len(token_strings[ty]) <= 1
        BY <1>3, <1>7, <2>2
    <2>5. Matched(Single[c], 1)
        BY <1>5, <2>2, <2>3, <2>4 DEF OneSpelled, Matched
    <2> QED  BY <2>1, <2>5
<1>8. CASE c = "."
    <2>1. op = IF TripleDot THEN [ty |-> "TRIPLE_DOT", len |-> 3] ELSE [ty |-> "DOT", len |-> 1]
        BY <1>1, <1>8, OperatorBytes DEF Operator
    <2>2. Byte(current) = "."
        BY <1>2, <1>8 DEF Leads
    <2>3. {"DOT", "TRIPLE_DOT"} \subseteq DOMAIN token_strings \ KeywordTypes
        BY SpelledTypes DEF KeywordTypes
    <2>4. \A ty \in DOMAIN token_strings : StartsAt(current, token_strings[ty]) =>
              Len(token_strings[ty]) <= 1 \/ (Len(token_strings[ty]) <= 3 /\ TripleDot)
        BY <1>3, <2>2
    <2>5. CASE TripleDot
        <3>1. StartsAt(current, <<".", ".", ".">>) /\ Len(<<".", ".", ".">>) = 3
            BY <1>0, <2>5, Dots DEF StartsAt
        <3>2. token_strings["TRIPLE_DOT"] = <<".", ".", ".">>
            BY Spellings
        <3>3. op.ty = "TRIPLE_DOT" /\ op.len = 3
            BY <2>1, <2>5
        <3>4. \A ty \in DOMAIN token_strings : StartsAt(current, token_strings[ty]) =>
                  Len(token_strings[ty]) <= 3
            <4> SUFFICES ASSUME NEW ty \in DOMAIN token_strings, StartsAt(current, token_strings[ty])
                         PROVE  Len(token_strings[ty]) <= 3
                OBVIOUS
            <4>1. Len(token_strings[ty]) \in Nat
                BY SpellingsShaped DEF Shaped
            <4> QED  BY <2>4, <4>1
        <3>5. Matched("TRIPLE_DOT", 3)
            BY <2>3, <3>1, <3>2, <3>4 DEF Matched
        <3> QED  BY <3>3, <3>5
    <2>6. CASE ~TripleDot
        <3>1. token_strings["DOT"] = <<".">>
            BY Spellings
        <3>2. op.ty = "DOT" /\ op.len = 1
            BY <2>1, <2>6
        <3>3. \A ty \in DOMAIN token_strings : StartsAt(current, token_strings[ty]) =>
                  Len(token_strings[ty]) <= 1
            BY <2>4, <2>6
        <3>4. Matched("DOT", 1)
            BY <1>5, <2>2, <2>3, <3>1, <3>3 DEF Matched
        <3> QED  BY <3>2, <3>4
    <2> QED  BY <2>5, <2>6
<1>9. CASE c = "/"
    <2>1. op = [ty |-> "SLASH", len |-> 1]
        BY <1>1, <1>9, OperatorBytes DEF Operator
    <2>2. Byte(current) = "/"
        BY <1>2, <1>9 DEF Leads
    <2>3. "SLASH" \in DOMAIN token_strings \ KeywordTypes /\ token_strings["SLASH"] = <<"/">>
        BY SpelledTypes, Spellings DEF KeywordTypes
    <2>4. \A ty \in DOMAIN token_strings : StartsAt(current, token_strings[ty]) =>
              Len(token_strings[ty]) <= 1
        BY <1>3, <2>2
    <2>5. Matched("SLASH", 1)
        BY <1>5, <2>2, <2>3, <2>4 DEF Matched
    <2> QED  BY <2>1, <2>5
<1>10. CASE c \in DOMAIN Double
    <2>1. op = IF read_char(current + 1).ch = Double[c].with
               THEN [ty |-> Double[c].both, len |-> 2]
               ELSE [ty |-> Double[c].one, len |-> 1]
        BY <1>1, <1>10, OperatorBytes DEF Operator
    <2>2. Byte(current) = c
        BY <1>2, <1>10, OperatorBytes DEF Leads
    <2>3. TwoSpelled(c) /\ Double[c].both \notin KeywordTypes /\ Double[c].one \notin KeywordTypes
        BY <1>10, OperatorSpelled DEF Double, KeywordTypes
    <2>4. read_char(current + 1).ch = Double[c].with <=> Byte(current + 1) = Double[c].with
        <3>1. Double[c].with \notin Leads \cup {"nul"}
            BY <1>10 DEF Double, Leads
        <3> QED  BY <1>0, <3>1, CharIs
    <2>5. \A ty \in DOMAIN token_strings : StartsAt(current, token_strings[ty]) =>
              Len(token_strings[ty]) <= 1
              \/ (Len(token_strings[ty]) <= 2 /\ Byte(current + 1) = Double[c].with)
        BY <1>3, <1>10, <2>2
    <2>6. CASE Byte(current + 1) = Double[c].with
        <3>1. op.ty = Double[c].both /\ op.len = 2
            BY <2>1, <2>4, <2>6
        <3>2. \A ty \in DOMAIN token_strings : StartsAt(current, token_strings[ty]) =>
                  Len(token_strings[ty]) <= 2
            <4> SUFFICES ASSUME NEW ty \in DOMAIN token_strings, StartsAt(current, token_strings[ty])
                         PROVE  Len(token_strings[ty]) <= 2
                OBVIOUS
            <4>1. Len(token_strings[ty]) \in Nat
                BY SpellingsShaped DEF Shaped
            <4> QED  BY <2>5, <4>1
        <3>3. Matched(Double[c].both, 2)
            BY <1>6, <2>2, <2>3, <2>6, <3>2 DEF TwoSpelled, Matched
        <3> QED  BY <3>1, <3>3
    <2>7. CASE Byte(current + 1) # Double[c].with
        <3>1. op.ty = Double[c].one /\ op.len = 1
            BY <2>1, <2>4, <2>7
        <3>2. \A ty \in DOMAIN token_strings : StartsAt(current, token_strings[ty]) =>
                  Len(token_strings[ty]) <= 1
            BY <2>5, <2>7
        <3>3. Matched(Double[c].one, 1)
            BY <1>5, <2>2, <2>3, <3>2 DEF TwoSpelled, Matched
        <3> QED  BY <3>1, <3>3
    <2> QED  BY <2>6, <2>7
<1>11. CASE c \notin DOMAIN Single \cup DOMAIN Double \cup {".", "/"}
    BY <1>1, <1>11, OperatorBytes DEF Operator
<1> QED  BY <1>7, <1>8, <1>9, <1>10, <1>11
(* A word, letter by letter. *)
LEMMA Word2 ==
    ASSUME NEW p \in Nat, NEW a, NEW b
    PROVE  /\ Len(<<a, b>>) = 2
           /\ StartsAt(p, <<a, b>>) <=>
                  Byte(p) = a /\ Byte(p + 1) = b
<1>1. PICK w : w = <<a, b>>
    OBVIOUS
<1>2. Len(w) = 2 /\ DOMAIN w = 1 .. 2 /\ w[1] = a /\ w[2] = b
    BY <1>1
<1>3. p + 1 - 1 = p /\ p + 2 - 1 = p + 1
    OBVIOUS
<1>4. StartsAt(p, w) <=> Byte(p) = a /\ Byte(p + 1) = b
    BY <1>2, <1>3 DEF StartsAt
<1> QED  BY <1>1, <1>2, <1>4

LEMMA Word3 ==
    ASSUME NEW p \in Nat, NEW a, NEW b, NEW c
    PROVE  /\ Len(<<a, b, c>>) = 3
           /\ StartsAt(p, <<a, b, c>>) <=>
                  Byte(p) = a /\ Byte(p + 1) = b /\ Byte(p + 2) = c
<1>1. PICK w : w = <<a, b, c>>
    OBVIOUS
<1>2. Len(w) = 3 /\ DOMAIN w = 1 .. 3 /\ w[1] = a /\ w[2] = b /\ w[3] = c
    BY <1>1
<1>3. p + 1 - 1 = p /\ p + 2 - 1 = p + 1 /\ p + 3 - 1 = p + 2
    OBVIOUS
<1>4. StartsAt(p, w) <=> Byte(p) = a /\ Byte(p + 1) = b /\ Byte(p + 2) = c
    BY <1>2, <1>3 DEF StartsAt
<1> QED  BY <1>1, <1>2, <1>4

LEMMA Word4 ==
    ASSUME NEW p \in Nat, NEW a, NEW b, NEW c, NEW d
    PROVE  /\ Len(<<a, b, c, d>>) = 4
           /\ StartsAt(p, <<a, b, c, d>>) <=>
                  Byte(p) = a /\ Byte(p + 1) = b /\ Byte(p + 2) = c /\ Byte(p + 3) = d
<1>1. PICK w : w = <<a, b, c, d>>
    OBVIOUS
<1>2. Len(w) = 4 /\ DOMAIN w = 1 .. 4 /\ w[1] = a /\ w[2] = b /\ w[3] = c /\ w[4] = d
    BY <1>1
<1>3. p + 1 - 1 = p /\ p + 2 - 1 = p + 1 /\ p + 3 - 1 = p + 2 /\ p + 4 - 1 = p + 3
    OBVIOUS
<1>4. StartsAt(p, w) <=> Byte(p) = a /\ Byte(p + 1) = b /\ Byte(p + 2) = c /\ Byte(p + 3) = d
    BY <1>2, <1>3 DEF StartsAt
<1> QED  BY <1>1, <1>2, <1>4

LEMMA Word5 ==
    ASSUME NEW p \in Nat, NEW a, NEW b, NEW c, NEW d, NEW e
    PROVE  /\ Len(<<a, b, c, d, e>>) = 5
           /\ StartsAt(p, <<a, b, c, d, e>>) <=>
                  Byte(p) = a /\ Byte(p + 1) = b /\ Byte(p + 2) = c /\ Byte(p + 3) = d /\ Byte(p + 4) = e
<1>1. PICK w : w = <<a, b, c, d, e>>
    OBVIOUS
<1>2. Len(w) = 5 /\ DOMAIN w = 1 .. 5 /\ w[1] = a /\ w[2] = b /\ w[3] = c /\ w[4] = d /\ w[5] = e
    BY <1>1
<1>3. p + 1 - 1 = p /\ p + 2 - 1 = p + 1 /\ p + 3 - 1 = p + 2 /\ p + 4 - 1 = p + 3 /\ p + 5 - 1 = p + 4
    OBVIOUS
<1>4. StartsAt(p, w) <=> Byte(p) = a /\ Byte(p + 1) = b /\ Byte(p + 2) = c /\ Byte(p + 3) = d /\ Byte(p + 4) = e
    BY <1>2, <1>3 DEF StartsAt
<1> QED  BY <1>1, <1>2, <1>4

LEMMA Word6 ==
    ASSUME NEW p \in Nat, NEW a, NEW b, NEW c, NEW d, NEW e, NEW f
    PROVE  /\ Len(<<a, b, c, d, e, f>>) = 6
           /\ StartsAt(p, <<a, b, c, d, e, f>>) <=>
                  Byte(p) = a /\ Byte(p + 1) = b /\ Byte(p + 2) = c /\ Byte(p + 3) = d /\ Byte(p + 4) = e /\ Byte(p + 5) = f
<1>1. PICK w : w = <<a, b, c, d, e, f>>
    OBVIOUS
<1>2. Len(w) = 6 /\ DOMAIN w = 1 .. 6 /\ w[1] = a /\ w[2] = b /\ w[3] = c /\ w[4] = d /\ w[5] = e /\ w[6] = f
    BY <1>1
<1>3. p + 1 - 1 = p /\ p + 2 - 1 = p + 1 /\ p + 3 - 1 = p + 2 /\ p + 4 - 1 = p + 3 /\ p + 5 - 1 = p + 4 /\ p + 6 - 1 = p + 5
    OBVIOUS
<1>4. StartsAt(p, w) <=> Byte(p) = a /\ Byte(p + 1) = b /\ Byte(p + 2) = c /\ Byte(p + 3) = d /\ Byte(p + 4) = e /\ Byte(p + 5) = f
    BY <1>2, <1>3 DEF StartsAt
<1> QED  BY <1>1, <1>2, <1>4

LEMMA Word1 ==
    ASSUME NEW p \in Nat, NEW a
    PROVE  Len(<<a>>) = 1 /\ (StartsAt(p, <<a>>) <=> Byte(p) = a)
    BY DEF StartsAt

(* A keyword is compared from the second letter on, or the third. *)
LEMMA Check ==
    ASSUME NEW first, NEW rest, NEW ty
    PROVE  lexer_check_keyword(first, rest, ty) =
               IF current - start = first + Len(rest) /\ StartsAt(start + first, rest)
               THEN ty ELSE "IDENT"
    BY DEF lexer_check_keyword, StartsAt

(* What is compared for each keyword, by where its letters are. *)
LEMMA Checked ==
    ASSUME start \in Nat
    PROVE  /\ lexer_check_keyword(1, <<"e", "t">>, "LET") =
                  IF current - start = 3 /\ Byte(start + 1) = "e" /\ Byte(start + 2) = "t"
                  THEN "LET" ELSE "IDENT"
           /\ lexer_check_keyword(2, <<>>, "IF") =
                  IF current - start = 2
                  THEN "IF" ELSE "IDENT"
           /\ lexer_check_keyword(2, <<"p", "o", "r", "t">>, "IMPORT") =
                  IF current - start = 6 /\ Byte(start + 2) = "p" /\ Byte(start + 3) = "o" /\ Byte(start + 4) = "r" /\ Byte(start + 5) = "t"
                  THEN "IMPORT" ELSE "IDENT"
           /\ lexer_check_keyword(1, <<"e", "l", "e", "t", "e">>, "DELETE") =
                  IF current - start = 6 /\ Byte(start + 1) = "e" /\ Byte(start + 2) = "l" /\ Byte(start + 3) = "e" /\ Byte(start + 4) = "t" /\ Byte(start + 5) = "e"
                  THEN "DELETE" ELSE "IDENT"
           /\ lexer_check_keyword(1, <<"n">>, "FN") =
                  IF current - start = 2 /\ Byte(start + 1) = "n"
                  THEN "FN" ELSE "IDENT"
           /\ lexer_check_keyword(1, <<"x", "t", "e", "r", "n">>, "EXTERN") =
                  IF current - start = 6 /\ Byte(start + 1) = "x" /\ Byte(start + 2) = "t" /\ Byte(start + 3) = "e" /\ Byte(start + 4) = "r" /\ Byte(start + 5) = "n"
                  THEN "EXTERN" ELSE "IDENT"
           /\ lexer_check_keyword(1, <<"l", "s", "e">>, "ELSE") =
                  IF current - start = 4 /\ Byte(start + 1) = "l" /\ Byte(start + 2) = "s" /\ Byte(start + 3) = "e"
                  THEN "ELSE" ELSE "IDENT"
           /\ lexer_check_keyword(1, <<"h", "i", "l", "e">>, "WHILE") =
                  IF current - start = 5 /\ Byte(start + 1) = "h" /\ Byte(start + 2) = "i" /\ Byte(start + 3) = "l" /\ Byte(start + 4) = "e"
                  THEN "WHILE" ELSE "IDENT"
           /\ lexer_check_keyword(1, <<"e", "w">>, "NEW") =
                  IF current - start = 3 /\ Byte(start + 1) = "e" /\ Byte(start + 2) = "w"
                  THEN "NEW" ELSE "IDENT"
           /\ lexer_check_keyword(1, <<"t", "r", "u", "c", "t">>, "STRUCT") =
                  IF current - start = 6 /\ Byte(start + 1) = "t" /\ Byte(start + 2) = "r" /\ Byte(start + 3) = "u" /\ Byte(start + 4) = "c" /\ Byte(start + 5) = "t"
                  THEN "STRUCT" ELSE "IDENT"
           /\ lexer_check_keyword(1, <<"y", "p", "e">>, "TYPE") =
                  IF current - start = 4 /\ Byte(start + 1) = "y" /\ Byte(start + 2) = "p" /\ Byte(start + 3) = "e"
                  THEN "TYPE" ELSE "IDENT"
           /\ lexer_check_keyword(1, <<"e", "t", "u", "r", "n">>, "RETURN") =
                  IF current - start = 6 /\ Byte(start + 1) = "e" /\ Byte(start + 2) = "t" /\ Byte(start + 3) = "u" /\ Byte(start + 4) = "r" /\ Byte(start + 5) = "n"
                  THEN "RETURN" ELSE "IDENT"
           /\ lexer_check_keyword(1, <<"s">>, "AS") =
                  IF current - start = 2 /\ Byte(start + 1) = "s"
                  THEN "AS" ELSE "IDENT"
<1>0. /\ start + 1 \in Nat /\ start + 2 \in Nat
      /\ start + 1 + 1 = start + 2 /\ start + 1 + 2 = start + 3 /\ start + 1 + 3 = start + 4
      /\ start + 1 + 4 = start + 5 /\ start + 2 + 1 = start + 3 /\ start + 2 + 2 = start + 4
      /\ start + 2 + 3 = start + 5
    OBVIOUS
<1>1. lexer_check_keyword(1, <<"e", "t">>, "LET") =
               IF current - start = 3 /\ Byte(start + 1) = "e" /\ Byte(start + 2) = "t"
               THEN "LET" ELSE "IDENT"
    <2>1. StartsAt(start + 1, <<"e", "t">>) <=> Byte(start + 1) = "e" /\ Byte(start + 2) = "t"
        BY <1>0, Word2
    <2>2. Len(<<"e", "t">>) = 2
        BY <1>0, Word2
    <2>3. 1 + Len(<<"e", "t">>) = 3
        BY <2>2
    <2>4. lexer_check_keyword(1, <<"e", "t">>, "LET") =
              IF current - start = 1 + Len(<<"e", "t">>) /\ StartsAt(start + 1, <<"e", "t">>)
              THEN "LET" ELSE "IDENT"
        BY Check
    <2> QED  BY <2>1, <2>3, <2>4
<1>2. lexer_check_keyword(2, <<>>, "IF") =
               IF current - start = 2
               THEN "IF" ELSE "IDENT"
    <2>1. Len(<<>>) = 0 /\ StartsAt(start + 2, <<>>)
        BY DEF StartsAt
    <2> QED  BY <2>1, Check
<1>3. lexer_check_keyword(2, <<"p", "o", "r", "t">>, "IMPORT") =
               IF current - start = 6 /\ Byte(start + 2) = "p" /\ Byte(start + 3) = "o" /\ Byte(start + 4) = "r" /\ Byte(start + 5) = "t"
               THEN "IMPORT" ELSE "IDENT"
    <2>1. StartsAt(start + 2, <<"p", "o", "r", "t">>) <=> Byte(start + 2) = "p" /\ Byte(start + 3) = "o" /\ Byte(start + 4) = "r" /\ Byte(start + 5) = "t"
        BY <1>0, Word4
    <2>2. Len(<<"p", "o", "r", "t">>) = 4
        BY <1>0, Word4
    <2>3. 2 + Len(<<"p", "o", "r", "t">>) = 6
        BY <2>2
    <2>4. lexer_check_keyword(2, <<"p", "o", "r", "t">>, "IMPORT") =
              IF current - start = 2 + Len(<<"p", "o", "r", "t">>) /\ StartsAt(start + 2, <<"p", "o", "r", "t">>)
              THEN "IMPORT" ELSE "IDENT"
        BY Check
    <2> QED  BY <2>1, <2>3, <2>4
<1>4. lexer_check_keyword(1, <<"e", "l", "e", "t", "e">>, "DELETE") =
               IF current - start = 6 /\ Byte(start + 1) = "e" /\ Byte(start + 2) = "l" /\ Byte(start + 3) = "e" /\ Byte(start + 4) = "t" /\ Byte(start + 5) = "e"
               THEN "DELETE" ELSE "IDENT"
    <2>1. StartsAt(start + 1, <<"e", "l", "e", "t", "e">>) <=> Byte(start + 1) = "e" /\ Byte(start + 2) = "l" /\ Byte(start + 3) = "e" /\ Byte(start + 4) = "t" /\ Byte(start + 5) = "e"
        BY <1>0, Word5
    <2>2. Len(<<"e", "l", "e", "t", "e">>) = 5
        BY <1>0, Word5
    <2>3. 1 + Len(<<"e", "l", "e", "t", "e">>) = 6
        BY <2>2
    <2>4. lexer_check_keyword(1, <<"e", "l", "e", "t", "e">>, "DELETE") =
              IF current - start = 1 + Len(<<"e", "l", "e", "t", "e">>) /\ StartsAt(start + 1, <<"e", "l", "e", "t", "e">>)
              THEN "DELETE" ELSE "IDENT"
        BY Check
    <2> QED  BY <2>1, <2>3, <2>4
<1>5. lexer_check_keyword(1, <<"n">>, "FN") =
               IF current - start = 2 /\ Byte(start + 1) = "n"
               THEN "FN" ELSE "IDENT"
    <2>1. StartsAt(start + 1, <<"n">>) <=> Byte(start + 1) = "n"
        BY <1>0, Word1
    <2>2. Len(<<"n">>) = 1
        BY <1>0, Word1
    <2>3. 1 + Len(<<"n">>) = 2
        BY <2>2
    <2>4. lexer_check_keyword(1, <<"n">>, "FN") =
              IF current - start = 1 + Len(<<"n">>) /\ StartsAt(start + 1, <<"n">>)
              THEN "FN" ELSE "IDENT"
        BY Check
    <2> QED  BY <2>1, <2>3, <2>4
<1>6. lexer_check_keyword(1, <<"x", "t", "e", "r", "n">>, "EXTERN") =
               IF current - start = 6 /\ Byte(start + 1) = "x" /\ Byte(start + 2) = "t" /\ Byte(start + 3) = "e" /\ Byte(start + 4) = "r" /\ Byte(start + 5) = "n"
               THEN "EXTERN" ELSE "IDENT"
    <2>1. StartsAt(start + 1, <<"x", "t", "e", "r", "n">>) <=> Byte(start + 1) = "x" /\ Byte(start + 2) = "t" /\ Byte(start + 3) = "e" /\ Byte(start + 4) = "r" /\ Byte(start + 5) = "n"
        BY <1>0, Word5
    <2>2. Len(<<"x", "t", "e", "r", "n">>) = 5
        BY <1>0, Word5
    <2>3. 1 + Len(<<"x", "t", "e", "r", "n">>) = 6
        BY <2>2
    <2>4. lexer_check_keyword(1, <<"x", "t", "e", "r", "n">>, "EXTERN") =
              IF current - start = 1 + Len(<<"x", "t", "e", "r", "n">>) /\ StartsAt(start + 1, <<"x", "t", "e", "r", "n">>)
              THEN "EXTERN" ELSE "IDENT"
        BY Check
    <2> QED  BY <2>1, <2>3, <2>4
<1>7. lexer_check_keyword(1, <<"l", "s", "e">>, "ELSE") =
               IF current - start = 4 /\ Byte(start + 1) = "l" /\ Byte(start + 2) = "s" /\ Byte(start + 3) = "e"
               THEN "ELSE" ELSE "IDENT"
    <2>1. StartsAt(start + 1, <<"l", "s", "e">>) <=> Byte(start + 1) = "l" /\ Byte(start + 2) = "s" /\ Byte(start + 3) = "e"
        BY <1>0, Word3
    <2>2. Len(<<"l", "s", "e">>) = 3
        BY <1>0, Word3
    <2>3. 1 + Len(<<"l", "s", "e">>) = 4
        BY <2>2
    <2>4. lexer_check_keyword(1, <<"l", "s", "e">>, "ELSE") =
              IF current - start = 1 + Len(<<"l", "s", "e">>) /\ StartsAt(start + 1, <<"l", "s", "e">>)
              THEN "ELSE" ELSE "IDENT"
        BY Check
    <2> QED  BY <2>1, <2>3, <2>4
<1>8. lexer_check_keyword(1, <<"h", "i", "l", "e">>, "WHILE") =
               IF current - start = 5 /\ Byte(start + 1) = "h" /\ Byte(start + 2) = "i" /\ Byte(start + 3) = "l" /\ Byte(start + 4) = "e"
               THEN "WHILE" ELSE "IDENT"
    <2>1. StartsAt(start + 1, <<"h", "i", "l", "e">>) <=> Byte(start + 1) = "h" /\ Byte(start + 2) = "i" /\ Byte(start + 3) = "l" /\ Byte(start + 4) = "e"
        BY <1>0, Word4
    <2>2. Len(<<"h", "i", "l", "e">>) = 4
        BY <1>0, Word4
    <2>3. 1 + Len(<<"h", "i", "l", "e">>) = 5
        BY <2>2
    <2>4. lexer_check_keyword(1, <<"h", "i", "l", "e">>, "WHILE") =
              IF current - start = 1 + Len(<<"h", "i", "l", "e">>) /\ StartsAt(start + 1, <<"h", "i", "l", "e">>)
              THEN "WHILE" ELSE "IDENT"
        BY Check
    <2> QED  BY <2>1, <2>3, <2>4
<1>9. lexer_check_keyword(1, <<"e", "w">>, "NEW") =
               IF current - start = 3 /\ Byte(start + 1) = "e" /\ Byte(start + 2) = "w"
               THEN "NEW" ELSE "IDENT"
    <2>1. StartsAt(start + 1, <<"e", "w">>) <=> Byte(start + 1) = "e" /\ Byte(start + 2) = "w"
        BY <1>0, Word2
    <2>2. Len(<<"e", "w">>) = 2
        BY <1>0, Word2
    <2>3. 1 + Len(<<"e", "w">>) = 3
        BY <2>2
    <2>4. lexer_check_keyword(1, <<"e", "w">>, "NEW") =
              IF current - start = 1 + Len(<<"e", "w">>) /\ StartsAt(start + 1, <<"e", "w">>)
              THEN "NEW" ELSE "IDENT"
        BY Check
    <2> QED  BY <2>1, <2>3, <2>4
<1>10. lexer_check_keyword(1, <<"t", "r", "u", "c", "t">>, "STRUCT") =
               IF current - start = 6 /\ Byte(start + 1) = "t" /\ Byte(start + 2) = "r" /\ Byte(start + 3) = "u" /\ Byte(start + 4) = "c" /\ Byte(start + 5) = "t"
               THEN "STRUCT" ELSE "IDENT"
    <2>1. StartsAt(start + 1, <<"t", "r", "u", "c", "t">>) <=> Byte(start + 1) = "t" /\ Byte(start + 2) = "r" /\ Byte(start + 3) = "u" /\ Byte(start + 4) = "c" /\ Byte(start + 5) = "t"
        BY <1>0, Word5
    <2>2. Len(<<"t", "r", "u", "c", "t">>) = 5
        BY <1>0, Word5
    <2>3. 1 + Len(<<"t", "r", "u", "c", "t">>) = 6
        BY <2>2
    <2>4. lexer_check_keyword(1, <<"t", "r", "u", "c", "t">>, "STRUCT") =
              IF current - start = 1 + Len(<<"t", "r", "u", "c", "t">>) /\ StartsAt(start + 1, <<"t", "r", "u", "c", "t">>)
              THEN "STRUCT" ELSE "IDENT"
        BY Check
    <2> QED  BY <2>1, <2>3, <2>4
<1>11. lexer_check_keyword(1, <<"y", "p", "e">>, "TYPE") =
               IF current - start = 4 /\ Byte(start + 1) = "y" /\ Byte(start + 2) = "p" /\ Byte(start + 3) = "e"
               THEN "TYPE" ELSE "IDENT"
    <2>1. StartsAt(start + 1, <<"y", "p", "e">>) <=> Byte(start + 1) = "y" /\ Byte(start + 2) = "p" /\ Byte(start + 3) = "e"
        BY <1>0, Word3
    <2>2. Len(<<"y", "p", "e">>) = 3
        BY <1>0, Word3
    <2>3. 1 + Len(<<"y", "p", "e">>) = 4
        BY <2>2
    <2>4. lexer_check_keyword(1, <<"y", "p", "e">>, "TYPE") =
              IF current - start = 1 + Len(<<"y", "p", "e">>) /\ StartsAt(start + 1, <<"y", "p", "e">>)
              THEN "TYPE" ELSE "IDENT"
        BY Check
    <2> QED  BY <2>1, <2>3, <2>4
<1>12. lexer_check_keyword(1, <<"e", "t", "u", "r", "n">>, "RETURN") =
               IF current - start = 6 /\ Byte(start + 1) = "e" /\ Byte(start + 2) = "t" /\ Byte(start + 3) = "u" /\ Byte(start + 4) = "r" /\ Byte(start + 5) = "n"
               THEN "RETURN" ELSE "IDENT"
    <2>1. StartsAt(start + 1, <<"e", "t", "u", "r", "n">>) <=> Byte(start + 1) = "e" /\ Byte(start + 2) = "t" /\ Byte(start + 3) = "u" /\ Byte(start + 4) = "r" /\ Byte(start + 5) = "n"
        BY <1>0, Word5
    <2>2. Len(<<"e", "t", "u", "r", "n">>) = 5
        BY <1>0, Word5
    <2>3. 1 + Len(<<"e", "t", "u", "r", "n">>) = 6
        BY <2>2
    <2>4. lexer_check_keyword(1, <<"e", "t", "u", "r", "n">>, "RETURN") =
              IF current - start = 1 + Len(<<"e", "t", "u", "r", "n">>) /\ StartsAt(start + 1, <<"e", "t", "u", "r", "n">>)
              THEN "RETURN" ELSE "IDENT"
        BY Check
    <2> QED  BY <2>1, <2>3, <2>4
<1>13. lexer_check_keyword(1, <<"s">>, "AS") =
               IF current - start = 2 /\ Byte(start + 1) = "s"
               THEN "AS" ELSE "IDENT"
    <2>1. StartsAt(start + 1, <<"s">>) <=> Byte(start + 1) = "s"
        BY <1>0, Word1
    <2>2. Len(<<"s">>) = 1
        BY <1>0, Word1
    <2>3. 1 + Len(<<"s">>) = 2
        BY <2>2
    <2>4. lexer_check_keyword(1, <<"s">>, "AS") =
              IF current - start = 1 + Len(<<"s">>) /\ StartsAt(start + 1, <<"s">>)
              THEN "AS" ELSE "IDENT"
        BY Check
    <2> QED  BY <2>1, <2>3, <2>4
<1> QED  BY <1>1, <1>2, <1>3, <1>4, <1>5, <1>6, <1>7, <1>8, <1>9, <1>10, <1>11,
            <1>12, <1>13
(* A word is the keyword. *)
Spelled(w) == current - start = Len(w) /\ StartsAt(start, w)

LEMMA SpelledOut ==
    ASSUME start \in Nat
    PROVE  /\ Spelled(token_strings["LET"]) <=>
                  current - start = 3 /\ Byte(start) = "l" /\ Byte(start + 1) = "e" /\ Byte(start + 2) = "t"
           /\ Spelled(token_strings["IF"]) <=>
                  current - start = 2 /\ Byte(start) = "i" /\ Byte(start + 1) = "f"
           /\ Spelled(token_strings["IMPORT"]) <=>
                  current - start = 6 /\ Byte(start) = "i" /\ Byte(start + 1) = "m" /\ Byte(start + 2) = "p" /\ Byte(start + 3) = "o" /\ Byte(start + 4) = "r" /\ Byte(start + 5) = "t"
           /\ Spelled(token_strings["DELETE"]) <=>
                  current - start = 6 /\ Byte(start) = "d" /\ Byte(start + 1) = "e" /\ Byte(start + 2) = "l" /\ Byte(start + 3) = "e" /\ Byte(start + 4) = "t" /\ Byte(start + 5) = "e"
           /\ Spelled(token_strings["FN"]) <=>
                  current - start = 2 /\ Byte(start) = "f" /\ Byte(start + 1) = "n"
           /\ Spelled(token_strings["EXTERN"]) <=>
                  current - start = 6 /\ Byte(start) = "e" /\ Byte(start + 1) = "x" /\ Byte(start + 2) = "t" /\ Byte(start + 3) = "e" /\ Byte(start + 4) = "r" /\ Byte(start + 5) = "n"
           /\ Spelled(token_strings["ELSE"]) <=>
                  current - start = 4 /\ Byte(start) = "e" /\ Byte(start + 1) = "l" /\ Byte(start + 2) = "s" /\ Byte(start + 3) = "e"
           /\ Spelled(token_strings["WHILE"]) <=>
                  current - start = 5 /\ Byte(start) = "w" /\ Byte(start + 1) = "h" /\ Byte(start + 2) = "i" /\ Byte(start + 3) = "l" /\ Byte(start + 4) = "e"
           /\ Spelled(token_strings["NEW"]) <=>
                  current - start = 3 /\ Byte(start) = "n" /\ Byte(start + 1) = "e" /\ Byte(start + 2) = "w"
           /\ Spelled(token_strings["STRUCT"]) <=>
                  current - start = 6 /\ Byte(start) = "s" /\ Byte(start + 1) = "t" /\ Byte(start + 2) = "r" /\ Byte(start + 3) = "u" /\ Byte(start + 4) = "c" /\ Byte(start + 5) = "t"
           /\ Spelled(token_strings["TYPE"]) <=>
                  current - start = 4 /\ Byte(start) = "t" /\ Byte(start + 1) = "y" /\ Byte(start + 2) = "p" /\ Byte(start + 3) = "e"
           /\ Spelled(token_strings["RETURN"]) <=>
                  current - start = 6 /\ Byte(start) = "r" /\ Byte(start + 1) = "e" /\ Byte(start + 2) = "t" /\ Byte(start + 3) = "u" /\ Byte(start + 4) = "r" /\ Byte(start + 5) = "n"
           /\ Spelled(token_strings["AS"]) <=>
                  current - start = 2 /\ Byte(start) = "a" /\ Byte(start + 1) = "s"
<1>1. Spelled(token_strings["LET"]) <=>
           current - start = 3 /\ Byte(start) = "l" /\ Byte(start + 1) = "e" /\ Byte(start + 2) = "t"
    <2>1. token_strings["LET"] = <<"l", "e", "t">>
        BY Spellings
    <2> QED  BY <2>1, Word3 DEF Spelled
<1>2. Spelled(token_strings["IF"]) <=>
           current - start = 2 /\ Byte(start) = "i" /\ Byte(start + 1) = "f"
    <2>1. token_strings["IF"] = <<"i", "f">>
        BY Spellings
    <2> QED  BY <2>1, Word2 DEF Spelled
<1>3. Spelled(token_strings["IMPORT"]) <=>
           current - start = 6 /\ Byte(start) = "i" /\ Byte(start + 1) = "m" /\ Byte(start + 2) = "p" /\ Byte(start + 3) = "o" /\ Byte(start + 4) = "r" /\ Byte(start + 5) = "t"
    <2>1. token_strings["IMPORT"] = <<"i", "m", "p", "o", "r", "t">>
        BY Spellings
    <2> QED  BY <2>1, Word6 DEF Spelled
<1>4. Spelled(token_strings["DELETE"]) <=>
           current - start = 6 /\ Byte(start) = "d" /\ Byte(start + 1) = "e" /\ Byte(start + 2) = "l" /\ Byte(start + 3) = "e" /\ Byte(start + 4) = "t" /\ Byte(start + 5) = "e"
    <2>1. token_strings["DELETE"] = <<"d", "e", "l", "e", "t", "e">>
        BY Spellings
    <2> QED  BY <2>1, Word6 DEF Spelled
<1>5. Spelled(token_strings["FN"]) <=>
           current - start = 2 /\ Byte(start) = "f" /\ Byte(start + 1) = "n"
    <2>1. token_strings["FN"] = <<"f", "n">>
        BY Spellings
    <2> QED  BY <2>1, Word2 DEF Spelled
<1>6. Spelled(token_strings["EXTERN"]) <=>
           current - start = 6 /\ Byte(start) = "e" /\ Byte(start + 1) = "x" /\ Byte(start + 2) = "t" /\ Byte(start + 3) = "e" /\ Byte(start + 4) = "r" /\ Byte(start + 5) = "n"
    <2>1. token_strings["EXTERN"] = <<"e", "x", "t", "e", "r", "n">>
        BY Spellings
    <2> QED  BY <2>1, Word6 DEF Spelled
<1>7. Spelled(token_strings["ELSE"]) <=>
           current - start = 4 /\ Byte(start) = "e" /\ Byte(start + 1) = "l" /\ Byte(start + 2) = "s" /\ Byte(start + 3) = "e"
    <2>1. token_strings["ELSE"] = <<"e", "l", "s", "e">>
        BY Spellings
    <2> QED  BY <2>1, Word4 DEF Spelled
<1>8. Spelled(token_strings["WHILE"]) <=>
           current - start = 5 /\ Byte(start) = "w" /\ Byte(start + 1) = "h" /\ Byte(start + 2) = "i" /\ Byte(start + 3) = "l" /\ Byte(start + 4) = "e"
    <2>1. token_strings["WHILE"] = <<"w", "h", "i", "l", "e">>
        BY Spellings
    <2> QED  BY <2>1, Word5 DEF Spelled
<1>9. Spelled(token_strings["NEW"]) <=>
           current - start = 3 /\ Byte(start) = "n" /\ Byte(start + 1) = "e" /\ Byte(start + 2) = "w"
    <2>1. token_strings["NEW"] = <<"n", "e", "w">>
        BY Spellings
    <2> QED  BY <2>1, Word3 DEF Spelled
<1>10. Spelled(token_strings["STRUCT"]) <=>
           current - start = 6 /\ Byte(start) = "s" /\ Byte(start + 1) = "t" /\ Byte(start + 2) = "r" /\ Byte(start + 3) = "u" /\ Byte(start + 4) = "c" /\ Byte(start + 5) = "t"
    <2>1. token_strings["STRUCT"] = <<"s", "t", "r", "u", "c", "t">>
        BY Spellings
    <2> QED  BY <2>1, Word6 DEF Spelled
<1>11. Spelled(token_strings["TYPE"]) <=>
           current - start = 4 /\ Byte(start) = "t" /\ Byte(start + 1) = "y" /\ Byte(start + 2) = "p" /\ Byte(start + 3) = "e"
    <2>1. token_strings["TYPE"] = <<"t", "y", "p", "e">>
        BY Spellings
    <2> QED  BY <2>1, Word4 DEF Spelled
<1>12. Spelled(token_strings["RETURN"]) <=>
           current - start = 6 /\ Byte(start) = "r" /\ Byte(start + 1) = "e" /\ Byte(start + 2) = "t" /\ Byte(start + 3) = "u" /\ Byte(start + 4) = "r" /\ Byte(start + 5) = "n"
    <2>1. token_strings["RETURN"] = <<"r", "e", "t", "u", "r", "n">>
        BY Spellings
    <2> QED  BY <2>1, Word6 DEF Spelled
<1>13. Spelled(token_strings["AS"]) <=>
           current - start = 2 /\ Byte(start) = "a" /\ Byte(start + 1) = "s"
    <2>1. token_strings["AS"] = <<"a", "s">>
        BY Spellings
    <2> QED  BY <2>1, Word2 DEF Spelled
<1> QED  BY <1>1, <1>2, <1>3, <1>4, <1>5, <1>6, <1>7, <1>8, <1>9, <1>10, <1>11,
            <1>12, <1>13

(* The word compared is the only keyword with that first letter or two: a  *)
(* word is given a keyword's type exactly when it is that keyword.         *)
LEMMA IdentType ==
    ASSUME src \in Sources, start \in Nat, current \in Nat, lexer_is_letter(Byte(start))
    PROVE  \A ty \in KeywordTypes : lexer_ident_type = ty <=> Spelled(token_strings[ty])
<1>1. PICK c : c = Byte(start)
    OBVIOUS
<1>2. read_char(start).ch = c
    <2>1. Byte(start) \notin Leads \cup {"nul"}
        BY DEF lexer_is_letter, Letters, Leads
    <2> QED  BY <1>1, <2>1, CharIs
<1>3. PICK next : next = read_char(start + 1).ch
    OBVIOUS
<1>4. PICK b : b = Byte(start + 1)
    OBVIOUS
<1>5. /\ next = "f" <=> b = "f"
      /\ next = "m" <=> b = "m"
      /\ next = "x" <=> b = "x"
      /\ next = "l" <=> b = "l"
    <2>1. start + 1 \in Nat /\ {"f", "m", "x", "l"} \cap (Leads \cup {"nul"}) = {}
        BY DEF Leads
    <2> QED  BY <1>3, <1>4, <2>1, CharIs
<1>6. PICK length : length = current - start
    OBVIOUS
<1>7. c = "l" => lexer_ident_type = lexer_check_keyword(1, <<"e", "t">>, "LET")
    BY <1>2, <1>3, <1>6 DEF lexer_ident_type
<1>8. c = "i" /\ length > 1 /\ next = "f" => lexer_ident_type = lexer_check_keyword(2, <<>>, "IF")
    BY <1>2, <1>3, <1>6 DEF lexer_ident_type
<1>9. c = "i" /\ length > 1 /\ next = "m" => lexer_ident_type = lexer_check_keyword(2, <<"p", "o", "r", "t">>, "IMPORT")
    BY <1>2, <1>3, <1>6 DEF lexer_ident_type
<1>10. c = "d" => lexer_ident_type = lexer_check_keyword(1, <<"e", "l", "e", "t", "e">>, "DELETE")
    BY <1>2, <1>3, <1>6 DEF lexer_ident_type
<1>11. c = "f" => lexer_ident_type = lexer_check_keyword(1, <<"n">>, "FN")
    BY <1>2, <1>3, <1>6 DEF lexer_ident_type
<1>12. c = "e" /\ length > 3 /\ next = "x" => lexer_ident_type = lexer_check_keyword(1, <<"x", "t", "e", "r", "n">>, "EXTERN")
    BY <1>2, <1>3, <1>6 DEF lexer_ident_type
<1>13. c = "e" /\ length > 3 /\ next = "l" => lexer_ident_type = lexer_check_keyword(1, <<"l", "s", "e">>, "ELSE")
    BY <1>2, <1>3, <1>6 DEF lexer_ident_type
<1>14. c = "w" => lexer_ident_type = lexer_check_keyword(1, <<"h", "i", "l", "e">>, "WHILE")
    BY <1>2, <1>3, <1>6 DEF lexer_ident_type
<1>15. c = "n" => lexer_ident_type = lexer_check_keyword(1, <<"e", "w">>, "NEW")
    BY <1>2, <1>3, <1>6 DEF lexer_ident_type
<1>16. c = "s" => lexer_ident_type = lexer_check_keyword(1, <<"t", "r", "u", "c", "t">>, "STRUCT")
    BY <1>2, <1>3, <1>6 DEF lexer_ident_type
<1>17. c = "t" => lexer_ident_type = lexer_check_keyword(1, <<"y", "p", "e">>, "TYPE")
    BY <1>2, <1>3, <1>6 DEF lexer_ident_type
<1>18. c = "r" => lexer_ident_type = lexer_check_keyword(1, <<"e", "t", "u", "r", "n">>, "RETURN")
    BY <1>2, <1>3, <1>6 DEF lexer_ident_type
<1>19. c = "a" => lexer_ident_type = lexer_check_keyword(1, <<"s">>, "AS")
    BY <1>2, <1>3, <1>6 DEF lexer_ident_type
<1>20. CASE /\ ~(c = "l")
            /\ ~(c = "i" /\ length > 1 /\ next = "f")
            /\ ~(c = "i" /\ length > 1 /\ next = "m")
            /\ ~(c = "d")
            /\ ~(c = "f")
            /\ ~(c = "e" /\ length > 3 /\ next = "x")
            /\ ~(c = "e" /\ length > 3 /\ next = "l")
            /\ ~(c = "w")
            /\ ~(c = "n")
            /\ ~(c = "s")
            /\ ~(c = "t")
            /\ ~(c = "r")
            /\ ~(c = "a")
    <2>1. lexer_ident_type = "IDENT"
        BY <1>2, <1>3, <1>6, <1>20 DEF lexer_ident_type
    <2>2. ASSUME NEW ty \in KeywordTypes
          PROVE  ~Spelled(token_strings[ty])
        BY <1>1, <1>4, <1>5, <1>6, <1>20, SpelledOut DEF KeywordTypes
    <2> QED  BY <2>1, <2>2 DEF KeywordTypes
<1>21. CASE c = "l"
    BY <1>1, <1>4, <1>5, <1>6, <1>7, <1>21, Checked, SpelledOut DEF KeywordTypes
<1>22. CASE c = "i" /\ length > 1 /\ next = "f"
    BY <1>1, <1>4, <1>5, <1>6, <1>8, <1>22, Checked, SpelledOut DEF KeywordTypes
<1>23. CASE c = "i" /\ length > 1 /\ next = "m"
    BY <1>1, <1>4, <1>5, <1>6, <1>9, <1>23, Checked, SpelledOut DEF KeywordTypes
<1>24. CASE c = "d"
    BY <1>1, <1>4, <1>5, <1>6, <1>10, <1>24, Checked, SpelledOut DEF KeywordTypes
<1>25. CASE c = "f"
    BY <1>1, <1>4, <1>5, <1>6, <1>11, <1>25, Checked, SpelledOut DEF KeywordTypes
<1>26. CASE c = "e" /\ length > 3 /\ next = "x"
    BY <1>1, <1>4, <1>5, <1>6, <1>12, <1>26, Checked, SpelledOut DEF KeywordTypes
<1>27. CASE c = "e" /\ length > 3 /\ next = "l"
    BY <1>1, <1>4, <1>5, <1>6, <1>13, <1>27, Checked, SpelledOut DEF KeywordTypes
<1>28. CASE c = "w"
    BY <1>1, <1>4, <1>5, <1>6, <1>14, <1>28, Checked, SpelledOut DEF KeywordTypes
<1>29. CASE c = "n"
    BY <1>1, <1>4, <1>5, <1>6, <1>15, <1>29, Checked, SpelledOut DEF KeywordTypes
<1>30. CASE c = "s"
    BY <1>1, <1>4, <1>5, <1>6, <1>16, <1>30, Checked, SpelledOut DEF KeywordTypes
<1>31. CASE c = "t"
    BY <1>1, <1>4, <1>5, <1>6, <1>17, <1>31, Checked, SpelledOut DEF KeywordTypes
<1>32. CASE c = "r"
    BY <1>1, <1>4, <1>5, <1>6, <1>18, <1>32, Checked, SpelledOut DEF KeywordTypes
<1>33. CASE c = "a"
    BY <1>1, <1>4, <1>5, <1>6, <1>19, <1>33, Checked, SpelledOut DEF KeywordTypes
<1> QED  BY <1>20, <1>21, <1>22, <1>23, <1>24, <1>25, <1>26, <1>27, <1>28, <1>29,
            <1>30, <1>31, <1>32, <1>33-----------------------------------------------------------------------------
(* A token from s to e is what its type says, and no shorter than it can be. *)
Fits(ty, s, e) ==
    LET text == SubSeq(src, s + 1, e)
    IN  /\ ty \in DOMAIN token_strings => text = token_strings[ty]
        /\ ty \in DOMAIN token_strings \ KeywordTypes =>
               \A other \in DOMAIN token_strings : StartsAt(s, token_strings[other]) =>
                   Len(token_strings[other]) <= e - s
        /\ ty \in KeywordTypes \cup {"IDENT"} =>
               ~InIdent(Byte(e)) /\ \A k \in DOMAIN text : InIdent(text[k])
        /\ ty = "IDENT" => \A other \in KeywordTypes : text # token_strings[other]
        /\ ty = "INT" => ~lexer_is_num(Byte(e)) /\ \A k \in DOMAIN text : lexer_is_num(text[k])

LEMMA LongestFits ==
    /\ LongestMatch <=> (pc = "idle" => Fits(token.ty, token.start, token.end))
    /\ LongestMatch' <=> (pc = "idle" => Fits(token.ty, token.start, token.end))'
    BY DEF LongestMatch, Fits, Text, Word

LEMMA FitsStable ==
    ASSUME src' = src, NEW ty, NEW s, NEW e
    PROVE  Fits(ty, s, e)' <=> Fits(ty, s, e)
<1>1. \A p : Byte(p)' = Byte(p)
    BY ByteStable
<1>2. \A p, w : StartsAt(p, w)' <=> StartsAt(p, w)
    BY <1>1 DEF StartsAt
<1> QED  BY <1>1, <1>2 DEF Fits, InIdent, lexer_is_num, lexer_is_letter

LEMMA NewFits ==
    ASSUME src' = src, NEW ty, NEW s, NEW e, token' = [ty |-> ty, start |-> s, end |-> e], Fits(ty, s, e)
    PROVE  LongestMatch'
<1>1. token'.ty = ty /\ token'.start = s /\ token'.end = e
    OBVIOUS
<1>2. Fits(ty, s, e)'
    BY FitsStable
<1>3. Fits(token.ty, token.start, token.end)'
    BY <1>1, <1>2
<1> QED  BY <1>3, LongestFits

(* A literal, the end and what is no token have no spelling. *)
LEMMA Unspelled ==
    ASSUME NEW ty \in {"EOF", "STRING", "CHAR", "CHAR_ERR", "UNKNOWN_ERR"}, NEW s, NEW e
    PROVE  Fits(ty, s, e)
<1>1. ty \notin DOMAIN token_strings /\ ty \notin KeywordTypes /\ ty \notin {"IDENT", "INT"}
    BY SpelledTypes DEF KeywordTypes
<1> QED  BY <1>1 DEF Fits

(* What is read from start on is one text. *)
LEMMA TextBytes ==
    ASSUME src \in Sources, NEW e \in 0 .. Len(src), NEW s \in 0 .. e
    PROVE  /\ DOMAIN SubSeq(src, s + 1, e) = 1 .. e - s
           /\ \A k \in 1 .. e - s : /\ SubSeq(src, s + 1, e)[k] = Byte(s + k - 1)
                                    /\ s + k - 1 \in s .. e - 1
<1>0. Len(src) \in Nat /\ e \in Nat /\ s \in Nat /\ s <= e /\ e <= Len(src)
    BY LenNat
<1>1. SubSeq(src, s + 1, e) = [k \in 1 .. (1 + e - (s + 1)) |-> src[k + (s + 1) - 1]]
    BY DEF SubSeq
<1>2. 1 + e - (s + 1) = e - s
    BY <1>0
<1>3. ASSUME NEW k \in 1 .. e - s
      PROVE  s + k - 1 \in s .. e - 1 /\ src[k + (s + 1) - 1] = Byte(s + k - 1)
    <2>1. s + k - 1 < Len(src) /\ k + (s + 1) - 1 = s + k - 1 + 1 /\ s + k - 1 \in s .. e - 1
        BY <1>0
    <2> QED  BY <2>1 DEF Byte
<1> QED  BY <1>1, <1>2, <1>3

LEMMA GetOperatorFits == ASSUME IInv, GetOperator PROVE LongestMatch'
<1>1. PICK op : op = Operator(lexer_current)
    OBVIOUS
<1>2. /\ ~lexer_at_end /\ Return(op.ty, current, current + op.len) /\ src' = src
    BY <1>1 DEF GetOperator
<1>3. src \in Sources /\ Len(src) \in Nat /\ current \in 0 .. Len(src)
    BY LenNat DEF IInv, TypeOK, Inside
<1>4. current # Len(src)
    BY <1>2, <1>3, AtEnd DEF lexer_at_end
<1>5. op.len \in 1 .. Len(src) - current
    BY <1>1, <1>3, <1>4, OperatorLen
<1>6. current + op.len \in 0 .. Len(src) /\ current \in 0 .. current + op.len /\ current \in Nat
      /\ current <= current + op.len /\ current + op.len - current = op.len
    BY <1>3, <1>5
<1>7. token' = [ty |-> op.ty, start |-> current, end |-> current + op.len]
    BY <1>2, <1>6 DEF Return
<1>8. CASE op.ty = "UNKNOWN_ERR"
    BY <1>2, <1>7, <1>8, Unspelled, NewFits
<1>9. CASE op.ty # "UNKNOWN_ERR"
    <2>1. Matched(op.ty, op.len)
        BY <1>1, <1>3, <1>4, <1>9, OperatorMatched
    <2>2. PICK w : w = token_strings[op.ty]
        OBVIOUS
    <2>3. Shaped(w) /\ op.len = Len(w) /\ StartsAt(current, w)
        BY <2>1, <2>2, SpellingsShaped DEF Matched
    <2>4. Len(w) \in Nat /\ w = [k \in 1 .. Len(w) |-> w[k]]
        BY <2>3 DEF Shaped
    <2>5. SubSeq(src, current + 1, current + op.len) = w
        <3>1. PICK e : e = current + op.len
            OBVIOUS
        <3>2. e \in 0 .. Len(src) /\ current \in 0 .. e /\ e - current = Len(w)
            BY <1>6, <2>3, <3>1
        <3>3. SubSeq(src, current + 1, e) = w
            BY <1>3, <2>3, <2>4, <3>2, TextIs
        <3> QED  BY <3>1, <3>3
    <2>6. op.ty \notin {"IDENT", "INT"} /\ op.ty \notin KeywordTypes
        BY <2>1, SpelledTypes DEF Matched
    <2>7. Fits(op.ty, current, current + op.len)
        BY <1>6, <2>1, <2>2, <2>5, <2>6 DEF Fits, Matched
    <2> QED  BY <1>2, <1>7, <2>7, NewFits
<1> QED  BY <1>8, <1>9

LEMMA LexedNumFits == ASSUME IInv, LexedNum PROVE LongestMatch'
<1>1. pc = "num" /\ ~lexer_is_num(lexer_current) /\ Return("INT", start, current) /\ src' = src
    BY DEF LexedNum
<1>2. /\ src \in Sources /\ Len(src) \in Nat /\ start \in Nat /\ current \in Nat
      /\ start < current /\ current <= Len(src)
    BY <1>1, ReadBounds DEF InToken
<1>3. current \in 0 .. Len(src) /\ start \in 0 .. current /\ start <= current
    BY <1>2
<1>4. token' = [ty |-> "INT", start |-> start, end |-> current]
    BY <1>1, <1>3 DEF Return
<1>5. ~lexer_is_num(Byte(current))
    <2>1. lexer_is_num(Byte(current)) => Byte(current) \notin Leads \cup {"nul"}
        BY DEF lexer_is_num, Digits, Leads
    <2> QED  BY <1>1, <1>2, <2>1, CharIs DEF lexer_current
<1>6. \A q \in start .. current - 1 : lexer_is_num(Byte(q))
    BY <1>1 DEF IInv, InNumber
<1>7. Fits("INT", start, current)
    <2>1. "INT" \notin DOMAIN token_strings /\ "INT" \notin KeywordTypes
        BY SpelledTypes DEF KeywordTypes
    <2>2. \A k \in DOMAIN SubSeq(src, start + 1, current) : lexer_is_num(SubSeq(src, start + 1, current)[k])
        BY <1>2, <1>3, <1>6, TextBytes
    <2> QED  BY <1>5, <2>1, <2>2 DEF Fits
<1> QED  BY <1>1, <1>4, <1>7, NewFits

(* Where a word ends no keyword goes on, and an identifier is none. *)
LEMMA LexedIdentFits == ASSUME IInv, LexedIdent PROVE LongestMatch'
<1>0. PICK ty : ty = lexer_ident_type
    OBVIOUS
<1>1. pc = "ident" /\ ~InIdent(lexer_current) /\ Return(ty, start, current) /\ src' = src
    BY <1>0 DEF LexedIdent
<1>2. /\ src \in Sources /\ Len(src) \in Nat /\ start \in Nat /\ current \in Nat
      /\ start < current /\ current <= Len(src)
    BY <1>1, ReadBounds DEF InToken
<1>3. current \in 0 .. Len(src) /\ start \in 0 .. current /\ start <= current
    BY <1>2
<1>4. token' = [ty |-> ty, start |-> start, end |-> current]
    BY <1>1, <1>3 DEF Return
<1>5. ~InIdent(Byte(current))
    <2>1. InIdent(Byte(current)) => Byte(current) \notin Leads \cup {"nul"}
        BY DEF InIdent, lexer_is_num, lexer_is_letter, Digits, Letters, Leads
    <2> QED  BY <1>1, <1>2, <2>1, CharIs DEF lexer_current
<1>6. lexer_is_letter(Byte(start)) /\ \A q \in start .. current - 1 : InIdent(Byte(q))
    BY <1>1 DEF IInv, InWord
<1>7. ty \in KeywordTypes \cup {"IDENT"}
    BY <1>0, IdentTyped
<1>8. PICK text : text = SubSeq(src, start + 1, current)
    OBVIOUS
<1>9. \A k \in DOMAIN text : InIdent(text[k])
    BY <1>2, <1>3, <1>6, <1>8, TextBytes
<1>10. \A kw \in KeywordTypes : ty = kw <=> text = token_strings[kw]
    <2> TAKE kw \in KeywordTypes
    <2>1. PICK w : w = token_strings[kw]
        OBVIOUS
    <2>2. kw \in DOMAIN token_strings
        BY SpelledTypes DEF KeywordTypes
    <2>3. Len(w) \in Nat /\ w = [k \in 1 .. Len(w) |-> w[k]]
        BY <2>1, <2>2, SpellingsShaped DEF Shaped
    <2>4. text = w <=> Spelled(w)
        BY <1>2, <1>3, <1>8, <2>3, TextIs DEF Spelled
    <2>5. ty = kw <=> Spelled(w)
        BY <1>0, <1>2, <1>6, <2>1, IdentType
    <2> QED  BY <2>1, <2>4, <2>5
<1>11. Fits(ty, start, current)
    <2>1. "IDENT" \notin DOMAIN token_strings /\ "IDENT" \notin KeywordTypes
        BY SpelledTypes DEF KeywordTypes
    <2>2. "INT" \notin KeywordTypes
        BY DEF KeywordTypes
    <2> QED  BY <1>5, <1>7, <1>8, <1>9, <1>10, <2>1, <2>2 DEF Fits
<1> QED  BY <1>1, <1>4, <1>11, NewFits

LEMMA OtherFits == ASSUME IInv, GetEof \/ LexedString \/ LexedChar PROVE LongestMatch'
<1>1. \E ty \in {"EOF", "STRING", "CHAR", "CHAR_ERR"} : \E s, e :
          src' = src /\ token' = [ty |-> ty, start |-> s, end |-> e]
    BY DEF GetEof, LexedString, LexedChar, Return
<1> QED  BY <1>1, Unspelled, NewFits

LEMMA StepFits == ASSUME IInv, LongestMatch, [Next]_vars PROVE LongestMatch'
<1>1. CASE NextPeeked \/ PeekPeeked \/ SpinWs \/ UNCHANGED vars
    <2>1. token' = token /\ src' = src /\ pc' = pc
        BY <1>1 DEF NextPeeked, PeekPeeked, SpinWs, vars, lexing, IInv, Peeked
    <2>2. Fits(token.ty, token.start, token.end)' <=> Fits(token.ty, token.start, token.end)
        <3>1. PICK t : t = token
            OBVIOUS
        <3>2. Fits(t.ty, t.start, t.end)' <=> Fits(t.ty, t.start, t.end)
            BY <2>1, FitsStable
        <3> QED  BY <2>1, <3>1, <3>2
    <2>3. LongestMatch' <=> (pc = "idle" => Fits(token.ty, token.start, token.end))'
        BY LongestFits
    <2> QED  BY <2>1, <2>2, <2>3, LongestFits
<1>2. CASE pc' # "idle"
    BY <1>2 DEF LongestMatch
<1>3. CASE GetOperator
    BY <1>3, GetOperatorFits
<1>4. CASE LexedNum
    BY <1>4, LexedNumFits
<1>5. CASE LexedIdent
    BY <1>5, LexedIdentFits
<1>6. CASE GetEof \/ LexedString \/ LexedChar
    BY <1>6, OtherFits
<1>7. CASE NextToken \/ Peek \/ GetToken
    <2>1. pc' # "idle"
        BY <1>7 DEF NextToken, Peek, GetToken, Call
    <2> QED  BY <1>2, <2>1
<1>8. CASE SkipWs \/ SkippedWs \/ LexNum \/ LexIdent \/ LexQuoted \/ SkipUntil \/ SkippedUntil
    <2>1. pc' # "idle"
        BY <1>8 DEF SkipWs, SkippedWs, LexNum, LexIdent, LexQuoted, SkipUntil, SkippedUntil
    <2> QED  BY <1>2, <2>1
<1>9. CASE GetBegin
    <2>1. pc' # "idle"
        BY <1>9, BegunOne
    <2> QED  BY <1>2, <2>1
<1> QED  BY <1>1, <1>3, <1>4, <1>5, <1>6, <1>7, <1>8, <1>9 DEF Next

(* Whatever the text, a token is spelled as its type says, and is the      *)
(* longest that begins where it does (lexer.c:213-283, 455-527).           *)
THEOREM AlwaysLongestMatch == Spec => []LongestMatch
<1>1. Init => IInv /\ LongestMatch
    <2>1. Init => token = [ty |-> "UNKNOWN_ERR", start |-> 0, end |-> 0]
        BY DEF Init
    <2>2. Fits("UNKNOWN_ERR", 0, 0)
        BY Unspelled
    <2>3. Init => Fits(token.ty, token.start, token.end)
        BY <2>1, <2>2
    <2> QED  BY <2>3, LongestFits, InitInv
<1>2. (IInv /\ LongestMatch) /\ [Next]_vars => (IInv /\ LongestMatch)'
    BY StepInv, StepFits
<1> QED  BY <1>1, <1>2, PTL DEF Spec
=============================================================================
