------------------------------ MODULE Grammar ------------------------------
(***************************************************************************)
(* Expressions of up to five operands, against the grammar written down    *)
(* as a way of splitting a text.                                           *)
(***************************************************************************)
EXTENDS Parser, SequencesExt

Operand == {<<"IDENT">>, <<"MINUS", "IDENT">>, <<"NEW", "IDENT">>,
            <<"IDENT", "LPAREN", "IDENT", "RPAREN">>}
Operators == {"EQ", "SMALLER", "PLUS", "STAR", "DOT"}
Rest == {<<op>> \o a : op \in Operators, a \in Operand \ {<<"IDENT", "LPAREN", "IDENT", "RPAREN">>}}
        \cup {<<"AS", "IDENT">>}

(* A dot after as and a name is part of the type. *)
InType(s) == \E i \in 3 .. Len(s) : s[i - 2] = "AS" /\ s[i] = "DOT"
Expressions == {Append(s, "SEMI") :
    s \in {x \in {a \o FlattenSeq(r) : a \in Operand, r \in UNION {[1 .. n -> Rest] : n \in 0 .. 2}}
                 \cup {<<"IDENT">> \o FlattenSeq(r) : r \in [1 .. 4 -> {<<"AS", "IDENT">>}
                          \cup {<<op, "IDENT">> : op \in Operators}]} : ~InType(x)}}

-----------------------------------------------------------------------------
(* From the operators that bind least to those that bind most. *)
Level(op) == CHOOSE l \in 1 .. 4 : op \in <<{"EQ"}, {"SMALLER"}, {"PLUS", "MINUS"}, {"STAR", "AS"}>>[l]

(* The nodes of the expression that the tokens lo to hi are.               *)
Nodes(lo, hi) ==
    LET RECURSIVE Of(_, _)
        Of(l, h) ==
            LET (* A dot and a new take everything behind them as one expression; a *)
                (* dot the operand before it as well.  It is the text's last operand. *)
                greedy == {i \in l .. h : toks[i] \in {"DOT", "NEW"}}
                g == CHOOSE i \in greedy : \A j \in greedy : i <= j
                last == IF greedy = {} \/ toks[g] = "NEW" THEN g
                        ELSE IF toks[g - 1] = "RPAREN" THEN g - 4 ELSE g - 1
                before == IF greedy = {} THEN l .. h ELSE l .. last - 1
                (* The operators between operands, and those of them that bind least. *)
                binary == {i \in before : /\ i > l
                                          /\ toks[i] \in Operators \cup {"AS", "MINUS"}
                                          /\ toks[i - 1] \in {"IDENT", "RPAREN"}}
                weakest == {i \in binary : \A j \in binary :
                                Level(toks[i]) <= Level(toks[j])}
                first == CHOOSE i \in weakest : \A j \in weakest : i <= j
                final == CHOOSE i \in weakest : \A j \in weakest : i >= j
                Split(kind, at) == {Node(kind, l .. h)} \cup Of(l, at - 1) \cup Of(at + 1, h)
            IN  CASE binary # {} /\ toks[first] = "EQ" -> Split("assign", first)
                  [] binary # {} /\ toks[first] # "EQ" /\ toks[final] = "AS" ->
                         {Node("as", l .. h)} \cup Of(l, final - 1)
                  [] binary # {} /\ toks[first] # "EQ" /\ toks[final] # "AS" -> Split("binary", final)
                  [] binary = {} /\ toks[l] = "MINUS" -> {Node("unary", l .. h)} \cup Of(l + 1, h)
                  [] binary = {} /\ toks[l] = "NEW" -> {Node("new", l .. h)} \cup Of(l + 1, h)
                  [] binary = {} /\ toks[l] = "IDENT" /\ greedy # {} -> Split("access", g)
                  [] binary = {} /\ greedy = {} /\ l < h ->
                         {Node("call", l .. h), Node("ident", {l}), Node("ident", {l + 2})}
                  [] OTHER -> {Node("ident", {l})}
    IN  Of(lo, hi)

(* An expression statement is accepted, and its nodes are those of the     *)
(* grammar: = binds to the right and least, the operators of one           *)
(* precedence to the left, as with them, a sign closer than any of them,   *)
(* and a dot or new takes all that follows, an assignment included         *)
(* (parser.c:670-711, 725-914; precedence.c:3-16).                         *)
Shape == ret = Returned /\ toks \in Expressions =>
             /\ errors = 0 /\ Len(mod) = 1
             /\ LET n == Len(toks) - 1
                IN  mod[1].nodes = {Node("expr_stmt", 1 .. n)} \cup Nodes(1, n)
=============================================================================
