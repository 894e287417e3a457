------------------------------- MODULE Parser -------------------------------
(***************************************************************************)
(* The parser of src/parser.c over the tokens of one file.  The C call     *)
(* stack is a variable: a frame for each function that waits for another   *)
(* or is about to run, with its locals.  A step runs one function from its *)
(* start, or from the return of what it called, to its next call or its    *)
(* own return; the tokens it consumes in between it consumes at once.      *)
(*                                                                         *)
(* Freeing follows Syntax.  What is freed twice, or freed or read without  *)
(* being a node, and what is copied past the end of a variable is recorded *)
(* in faults: the behaviour is then undefined, so the program may go on as *)
(* if nothing had happened, or end at any later step.                      *)
(***************************************************************************)
EXTENDS Syntax, Sequences

CONSTANT Texts      \* the files, sequences of token types

ASSUME TextsAssumption == Texts \subseteq Seq(STRING)

VARIABLES
    toks,       \* the tokens of the file, "EOF" not among them
    pos,        \* how many of them have been consumed
    errors,     \* p->errors.len
    stack,      \* the frames, the running function's last
    ret,        \* what the last call returned, or Entered
    mod,        \* mod->statements
    live,       \* the nodes that are allocated
    faults,     \* what went wrong so far, of FaultKinds
    bails       \* the lists given up: <<after which token, up to which>>

memory == <<live, faults>>
vars == <<toks, pos, errors, stack, ret, mod, live, faults, bails>>

(* "double" and "wild" frees, an "overrun" of a local variable, and those  *)
(* of the program around the parser (Driver): a string "literal" freed,    *)
(* the length of NULL taken, and the beginning "cut" off a name.           *)
FaultKinds == {"double", "wild", "overrun", "literal", "null", "cut"}

(* What stands in ret while a function is about to run, when parser_parse  *)
(* has returned, and when the program has ended before.                    *)
Entered == [NULL EXCEPT !.kind = "entered"]
Returned == [NULL EXCEPT !.kind = "returned"]
Aborted == [NULL EXCEPT !.kind = "aborted"]

-----------------------------------------------------------------------------
(* Tokens. *)
Leaves == {"INT", "STRING", "CHAR", "IDENT"}
Unary == {"AMPERSAND", "STAR", "BANG", "MINUS"}
LexErrors == {"CHAR_ERR", "UNKNOWN_ERR"}

PRECEDENCE_NONE == 0
PRECEDENCE_ASSIGN == 1
PRECEDENCE_UNARY == 7

(* Mutant: a dot binds no closer than a sum. *)
Loose_precedence_get(ty) ==
    CASE ty = "EQ" -> PRECEDENCE_ASSIGN
      [] ty \in {"DOUBLE_AMPERSAND", "DOUBLE_PIPE"} -> 2
      [] ty \in {"DOUBLE_EQ", "BANG_EQ"} -> 3
      [] ty \in {"SMALLER", "SMALLER_EQ", "GREATER", "GREATER_EQ"} -> 4
      [] ty \in {"PLUS", "MINUS", "DOT"} -> 5
      [] ty \in {"STAR", "SLASH", "PERCENT", "AS"} -> 6
      [] ty \in {"LPAREN", "LBRACE"} -> 8
      [] OTHER -> PRECEDENCE_NONE

precedence_get(ty) ==
    CASE ty = "EQ" -> PRECEDENCE_ASSIGN
      [] ty \in {"DOUBLE_AMPERSAND", "DOUBLE_PIPE"} -> 2
      [] ty \in {"DOUBLE_EQ", "BANG_EQ"} -> 3
      [] ty \in {"SMALLER", "SMALLER_EQ", "GREATER", "GREATER_EQ"} -> 4
      [] ty \in {"PLUS", "MINUS"} -> 5
      [] ty \in {"STAR", "SLASH", "PERCENT", "AS"} -> 6
      [] ty \in {"LPAREN", "LBRACE"} -> 8
      [] ty = "DOT" -> 9
      [] OTHER -> PRECEDENCE_NONE

TokenAt(i) == IF i <= Len(toks) THEN toks[i] ELSE "EOF"
peek == TokenAt(pos + 1)

(* Mutant: the end of the text is no limit. *)
Past_Advanced(p) == p + 1

(* The position after one more token; the end of the text is not passed.   *)
Advanced(p) == IF p < Len(toks) THEN p + 1 ELSE p

(* Consuming tokens of the types tys one after the other, up to the first  *)
(* that is of another type, which is consumed as well: whether all were    *)
(* there, and how far it got.  One that is not there is an error.          *)
Consume(p, tys) ==
    IF \A k \in DOMAIN tys : TokenAt(p + k) = tys[k]
    THEN [ok |-> TRUE, to |-> p + Len(tys)]
    ELSE LET miss == CHOOSE k \in DOMAIN tys :
                         /\ TokenAt(p + k) # tys[k]
                         /\ \A j \in 1 .. k - 1 : TokenAt(p + j) = tys[j]
         IN  [ok |-> FALSE, to |-> Advanced(p + miss - 1)]

(* Then the second, unless the first failed. *)
And(first, second) == IF first.ok THEN second ELSE first

(* A type is any number of stars and a name of at most two parts; the      *)
(* parts of a longer one are consumed before it is found illegal.          *)
(* Whatever goes wrong is one error more in the end.                       *)
parser_consume_type(p) ==
    LET stars == CHOOSE n \in 0 .. Len(toks) : /\ \A k \in 1 .. n : TokenAt(p + k) = "STAR"
                                               /\ TokenAt(p + n + 1) # "STAR"
        first == Consume(p + stars, <<"IDENT">>)
        Part(k) == first.to + 2 * k
        dots == CHOOSE n \in 0 .. Len(toks) :
                    /\ \A k \in 0 .. n - 1 : Consume(Part(k), <<"DOT", "IDENT">>).ok
                    /\ ~Consume(Part(n), <<"DOT", "IDENT">>).ok
        after == Part(dots)
    IN  CASE ~first.ok -> first
          [] first.ok /\ TokenAt(after + 1) = "DOT" -> Consume(after, <<"DOT", "IDENT">>)
          [] OTHER -> [ok |-> dots <= 1, to |-> after]

(* Resynchronising reads one token or two, and nothing at the end: not a   *)
(* second one before let or fn, or after a semicolon that no brace         *)
(* follows (parser.c:924).                                                 *)
parser_sync(p) ==
    LET previous == TokenAt(p + 1)
        next == TokenAt(p + 2)
    IN  IF \/ previous = "EOF" \/ next = "EOF"
           \/ (previous = "SEMI" /\ next # "RBRACE")
           \/ next \in {"LET", "FN"}
        THEN Advanced(p)
        ELSE p + 2

-----------------------------------------------------------------------------
(* Frames. *)
(*   own     the positions of the tokens the function itself has consumed  *)
(*   left    the expression or statement it holds                          *)
(*   kids    the expressions or statements it collects                     *)
(*   errs    parser_num_errs when it began                                 *)
(*   start   where it, or the list it reads, began                         *)
(*   prec    precedence                                                    *)
(*   opt     no_struct, is_extern or consume_semi                          *)
(*   more    a comma has just been read                                    *)
Frame(do) == [do |-> do, own |-> {}, left |-> NULL, kids |-> {}, errs |-> 0, start |-> 0,
              prec |-> 0, opt |-> FALSE, more |-> FALSE]

Running == stack # <<>>
Top == stack[Len(stack)]
Below == SubSeq(stack, 1, Len(stack) - 1)
Runs(do) == Running /\ ret = Entered /\ Top.do = do
Returns(do) == Running /\ ret # Entered /\ Top.do = do
Failed == ret.kind = "NULL"

(* How a step ends: the running function goes on as f, waits as f for      *)
(* frames that run before it, or returns v.                                *)
Continue(f) == stack' = Append(Below, f) /\ ret' = Entered
Call(f, frames) == stack' = Append(Below, f) \o frames /\ ret' = Entered
Return(v) == stack' = Below /\ ret' = v

(* The tokens up to position to are consumed, none of them missing.        *)
Read(to) == pos' = to /\ errors' = errors
Reads(to) == pos + 1 .. to

(* The token after those up to position to is missing. *)
Miss(to) == pos' = to /\ errors' = errors + 1
Fail(to) == Miss(to) /\ Return(NULL)

(* What may go wrong when the trees vs are freed, with the given nodes     *)
(* allocated: one of them is no longer, or something is taken for an       *)
(* expression that is none.                                                *)
Faults(vs, nodes) ==
    LET double == IF \E v \in vs : ~(v.frees \subseteq nodes) THEN {"double"} ELSE {}
    IN  {double \cup (IF wild THEN {"wild"} ELSE {}) : wild \in
            {w \in BOOLEAN : IF w THEN \E v \in vs : TRUE \in v.wild
                                 ELSE \A v \in vs : FALSE \in v.wild}}

(* The trees vs are freed; in the second case each root once more, as      *)
(* ptrvec_free does with the elements of a list.                           *)
Free(vs, again) ==
    /\ live' = live \ UNION {v.frees : v \in vs}
    /\ \E f \in Faults(vs, live) :
           faults' = faults \cup f \cup (IF again THEN {"double"} ELSE {})
Release(v) == Free({v} \ {NULL}, FALSE)
ReleaseList(vs) == Free(vs, vs # {})

(* The node of a new tree is allocated. *)
New(v) == live' = live \cup {Node(v.kind, v.reads)} /\ faults' = faults

Climb(prec, no_struct) == [Frame("climb") EXCEPT !.prec = prec, !.opt = no_struct]

(* parser_expression, which parses one operand of = before it loops.       *)
Expression(no_struct) ==
    <<[Frame("expression") EXCEPT !.opt = no_struct], Climb(PRECEDENCE_ASSIGN, no_struct)>>

-----------------------------------------------------------------------------
(* Statements. *)

(* The numbers of the imports, functions and structs among the statements  *)
(* are kept as well, which the statements tell.                            *)
mod_push_stmt(s) == mod' = Append(mod, s)

parser_parse ==
    /\ Running /\ Top.do = "parse"
    /\ IF ret.kind \in {"entered", "NULL"} THEN mod' = mod ELSE mod_push_stmt(ret)
    /\ IF peek = "EOF" THEN stack' = <<>> /\ ret' = Returned
                       ELSE Call(Top, <<Frame("statement")>>)
    /\ UNCHANGED <<toks, pos, errors, memory, bails>>

(* parser_statement and the dispatch of parser_parse_statement: only       *)
(* definitions and control flow end without a semicolon.                   *)
parser_statement ==
    /\ Runs("statement")
    /\ LET open == peek \in {"FN", "IF", "WHILE", "TYPE"}
           stmt == CASE peek = "FN" -> Frame("func")
                     [] peek = "EXTERN" -> [Frame("func") EXCEPT !.opt = TRUE, !.own = {pos + 1}]
                     [] peek \in {"IF", "WHILE", "TYPE", "DELETE", "RETURN", "LET", "IMPORT"} ->
                            Frame(peek)
                     [] OTHER -> Frame("expr_stmt")
       IN  Call([Top EXCEPT !.do = "end", !.opt = ~open, !.errs = errors, !.start = pos],
                IF stmt.do = "expr_stmt" THEN <<stmt>> \o Expression(FALSE) ELSE <<stmt>>)
    /\ Read(IF peek = "EXTERN" THEN pos + 1 ELSE pos)
    /\ UNCHANGED <<toks, mod, memory, bails>>

(* Mutant: no error for a statement that no function explained. *)
Quiet_statement_failed ==
    /\ Returns("end") /\ Failed
    /\ pos' = parser_sync(pos)
    /\ Return(NULL)
    /\ UNCHANGED <<toks, errors, mod, memory, bails>>

(* A statement that could not be parsed is dropped, with an error if there *)
(* is none yet.                                                            *)
statement_failed ==
    /\ Returns("end") /\ Failed
    /\ pos' = parser_sync(pos)
    /\ errors' = IF errors = Top.errs THEN errors + 1 ELSE errors
    /\ Return(NULL)
    /\ UNCHANGED <<toks, mod, memory, bails>>

statement_parsed ==
    /\ Returns("end") /\ ~Failed
    /\ \/ /\ ~Top.opt \/ peek = "SEMI"
          /\ LET to == IF Top.opt THEN pos + 1 ELSE pos
             IN  Read(to) /\ Return([ret EXCEPT !.reads = @ \cup Reads(to)])
          /\ UNCHANGED memory
       \/ /\ Top.opt /\ peek # "SEMI"
          /\ Fail(parser_sync(Advanced(pos)))
          /\ Release(ret)
    /\ UNCHANGED <<toks, mod, bails>>

parser_parse_func_def ==
    /\ Runs("func")
    /\ LET r == Consume(pos, <<"FN", "IDENT", "LPAREN">>)
       IN  IF r.ok THEN /\ Read(r.to)
                        /\ Continue([Top EXCEPT !.do = "params", !.own = @ \cup Reads(r.to),
                                                !.start = r.to])
                   ELSE Fail(r.to)
    /\ UNCHANGED <<toks, mod, memory, bails>>

(* Mutant: a bad parameter is tried again. *)
Stuck_parser_parse_param_list ==
    /\ Runs("params")
    /\ LET last == ~Top.more /\ peek \in {"EOF", "RPAREN"}
           r == CASE last -> Consume(pos, <<"RPAREN">>)
                  [] ~last /\ Top.opt /\ peek = "TRIPLE_DOT" -> Consume(pos, <<"TRIPLE_DOT">>)
                  [] OTHER -> LET name == Consume(pos, <<"IDENT", "COLON">>)
                              IN  And(name, parser_consume_type(name.to))
           comma == r.ok /\ ~last /\ TokenAt(r.to + 1) = "COMMA"
           to == IF comma THEN r.to + 1 ELSE r.to
       IN  IF r.ok THEN /\ Read(to)
                        /\ Continue([Top EXCEPT !.do = IF last THEN "signature" ELSE "params",
                                                !.own = @ \cup Reads(to), !.more = comma])
                   ELSE Read(pos) /\ Continue(Top)
    /\ UNCHANGED <<toks, mod, memory, bails>>

(* One parameter, or the closing parenthesis.  A comma must be followed by *)
(* a parameter, since the loop looks at the token before it.  A list that  *)
(* failed is given up, and the caller is not told.                         *)
parser_parse_param_list ==
    /\ Runs("params")
    /\ LET last == ~Top.more /\ peek \in {"EOF", "RPAREN"}
           r == CASE last -> Consume(pos, <<"RPAREN">>)
                  [] ~last /\ Top.opt /\ peek = "TRIPLE_DOT" -> Consume(pos, <<"TRIPLE_DOT">>)
                  [] OTHER -> LET name == Consume(pos, <<"IDENT", "COLON">>)
                              IN  And(name, parser_consume_type(name.to))
           comma == r.ok /\ ~last /\ TokenAt(r.to + 1) = "COMMA"
           to == IF comma THEN r.to + 1 ELSE r.to
       IN  /\ bails' = IF r.ok THEN bails ELSE bails \cup {<<Top.start, to>>}
           /\ IF r.ok THEN /\ Read(to)
                           /\ Continue([Top EXCEPT !.do = IF last THEN "signature" ELSE "params",
                                                   !.own = @ \cup Reads(to), !.more = comma])
                      ELSE /\ Miss(to)
                           /\ Continue([Top EXCEPT !.do = "signature", !.own = @ \cap 1 .. Top.start])
    /\ UNCHANGED <<toks, mod, memory>>

(* The return type, and what follows it unless the function is extern.     *)
func_signature ==
    /\ Runs("signature")
    /\ LET colon == Consume(pos, <<"COLON">>)
           r == And(colon, parser_consume_type(colon.to))
           own == Top.own \cup Reads(r.to)
           func == ast_new_func_decl_stmt(own, TRUE, NULL)
       IN  \/ /\ ~r.ok /\ Fail(r.to) /\ UNCHANGED memory
           \/ /\ r.ok /\ Top.opt /\ Read(r.to) /\ New(func) /\ Return(func)
           \/ /\ r.ok /\ ~Top.opt /\ Read(r.to)
              /\ Call([Top EXCEPT !.do = "body", !.own = own], <<Frame("block")>>)
              /\ UNCHANGED memory
    /\ UNCHANGED <<toks, mod, bails>>

func_body ==
    /\ Returns("body")
    /\ LET func == ast_new_func_decl_stmt(Top.own, FALSE, ret)
       IN  IF Failed THEN Return(NULL) /\ UNCHANGED memory
                     ELSE Return(func) /\ New(func)
    /\ UNCHANGED <<toks, pos, errors, mod, bails>>

(* if and while: the condition, in which { starts no initialiser. *)
parser_parse_condition ==
    /\ Runs("IF") \/ Runs("WHILE")
    /\ Read(pos + 1)
    /\ Call([Top EXCEPT !.do = IF Top.do = "IF" THEN "if_cond" ELSE "while_cond",
                        !.own = {pos + 1}], Expression(TRUE))
    /\ UNCHANGED <<toks, mod, memory, bails>>

condition_parsed ==
    /\ Returns("if_cond") \/ Returns("while_cond")
    /\ IF Failed
       THEN Fail(pos)
       ELSE /\ Read(pos)
            /\ Call([Top EXCEPT !.do = IF Top.do = "if_cond" THEN "if_block" ELSE "while_block",
                                !.left = ret], <<Frame("block")>>)
    /\ UNCHANGED <<toks, mod, memory, bails>>

block_failed ==
    /\ Returns("if_block") \/ Returns("while_block")
    /\ Failed
    /\ Release(Top.left)
    /\ Return(NULL)
    /\ UNCHANGED <<toks, pos, errors, mod, bails>>

while_parsed ==
    /\ Returns("while_block") /\ ~Failed
    /\ LET while == ast_new_while_stmt(Top.own, Top.left, ret)
       IN  New(while) /\ Return(while)
    /\ UNCHANGED <<toks, pos, errors, mod, bails>>

(* The if statement exists before its else is looked at, and is freed when *)
(* neither if nor { follows that.                                          *)
if_parsed ==
    /\ Returns("if_block") /\ ~Failed
    /\ LET if == ast_new_if_stmt(Top.own, Top.left, ret)
           next == TokenAt(pos + 2)
           else == [Frame("else") EXCEPT !.left = if, !.own = {pos + 1}]
       IN  \/ /\ peek # "ELSE"
              /\ Read(pos) /\ New(if) /\ Return(if)
           \/ /\ peek = "ELSE" /\ next \in {"IF", "LBRACE"}
              /\ Read(pos + 1) /\ New(if)
              /\ Call(else, <<Frame(IF next = "IF" THEN "IF" ELSE "block")>>)
           \/ /\ peek = "ELSE" /\ next \notin {"IF", "LBRACE"}
              /\ Fail(pos + 1)
              /\ live' = live \ Top.left.frees /\ UNCHANGED faults
    /\ UNCHANGED <<toks, mod, bails>>

else_parsed ==
    /\ Returns("else")
    /\ IF Failed THEN Release(Top.left) /\ Return(NULL)
                 ELSE UNCHANGED memory /\ Return(WithElse(Top.left, Top.own, ret))
    /\ UNCHANGED <<toks, pos, errors, mod, bails>>

parser_parse_type_stmt ==
    /\ Runs("TYPE")
    /\ LET r == Consume(pos, <<"TYPE", "IDENT", "STRUCT", "LBRACE">>)
       IN  IF r.ok THEN Read(r.to) /\ Continue([Top EXCEPT !.do = "fields", !.own = Reads(r.to)])
                   ELSE Fail(r.to)
    /\ UNCHANGED <<toks, mod, memory, bails>>

(* One field, or the closing brace.  The list of fields is created for     *)
(* elements of the size of a Fields (parser.c:510), and a Field is         *)
(* smaller: pushing one reads past the local it is in, and writing it to a *)
(* local again, as the struct does with each (record.c:32), past that.     *)
parser_parse_field_list ==
    /\ Runs("fields")
    /\ LET last == ~Top.more /\ peek \in {"EOF", "RBRACE"}
           name == Consume(pos, <<"IDENT", "COLON">>)
           r == IF last THEN Consume(pos, <<"RBRACE">>)
                        ELSE And(name, parser_consume_type(name.to))
           comma == r.ok /\ ~last /\ TokenAt(r.to + 1) = "COMMA"
           to == IF comma THEN r.to + 1 ELSE r.to
           own == Top.own \cup Reads(to)
           struct == ast_new_struct_decl_stmt(own)
       IN  \/ /\ ~r.ok /\ Fail(to) /\ UNCHANGED memory
           \/ /\ r.ok /\ last /\ Read(to) /\ New(struct) /\ Return(struct)
           \/ /\ r.ok /\ ~last /\ Read(to)
              /\ faults' = faults \cup {"overrun"} /\ UNCHANGED live
              /\ Continue([Top EXCEPT !.own = own, !.more = comma])
    /\ UNCHANGED <<toks, mod, bails>>

parser_parse_delete_stmt ==
    /\ Runs("DELETE")
    /\ Read(pos + 1)
    /\ Call([Top EXCEPT !.do = "delete", !.own = {pos + 1}], Expression(FALSE))
    /\ UNCHANGED <<toks, mod, memory, bails>>

(* The token it consumes first should be the return it was called at, but  *)
(* is asked to be a delete (parser.c:437).                                 *)
parser_parse_return_stmt ==
    /\ Runs("RETURN")
    /\ LET r == Consume(pos, <<"DELETE">>)
           return == ast_new_return_stmt(Reads(r.to), NULL)
       IN  \/ /\ ~r.ok /\ Fail(r.to) /\ UNCHANGED memory
           \/ /\ r.ok /\ Read(r.to) /\ TokenAt(r.to + 1) = "SEMI"
              /\ New(return) /\ Return(return)
           \/ /\ r.ok /\ Read(r.to) /\ TokenAt(r.to + 1) # "SEMI"
              /\ Call([Top EXCEPT !.do = "return", !.own = Reads(r.to)], Expression(FALSE))
              /\ UNCHANGED memory
    /\ UNCHANGED <<toks, mod, bails>>

parser_parse_let_stmt ==
    /\ Runs("LET")
    /\ LET name == Consume(pos, <<"LET", "IDENT">>)
           typed == name.ok /\ TokenAt(name.to + 1) = "COLON"
           type == IF typed THEN parser_consume_type(name.to + 1) ELSE name
           r == And(type, Consume(type.to, <<"EQ">>))
       IN  IF r.ok THEN /\ Read(r.to)
                        /\ Call([Top EXCEPT !.do = "let", !.own = Reads(r.to)], Expression(FALSE))
                   ELSE Fail(r.to)
    /\ UNCHANGED <<toks, mod, memory, bails>>

parser_parse_import_stmt ==
    /\ Runs("IMPORT")
    /\ LET r == Consume(pos, <<"IMPORT", "STRING">>)
           import == ast_new_import_stmt(Reads(r.to))
       IN  IF r.ok THEN Read(r.to) /\ New(import) /\ Return(import)
                   ELSE Fail(r.to) /\ UNCHANGED memory
    /\ UNCHANGED <<toks, mod, bails>>

parser_parse_block ==
    /\ Runs("block")
    /\ LET r == Consume(pos, <<"LBRACE">>)
       IN  IF r.ok THEN Read(r.to) /\ Continue([Top EXCEPT !.do = "stmts", !.own = Reads(r.to)])
                   ELSE Fail(r.to)
    /\ UNCHANGED <<toks, mod, memory, bails>>

(* The next statement, or the closing brace.  One that failed makes the    *)
(* block fail, and the statements before it are freed twice: by            *)
(* parser_free_statements and by the ptrvec_free it ends with.             *)
block_statement ==
    /\ Runs("stmts") \/ (Returns("stmts") /\ ~Failed)
    /\ LET kids == Top.kids \cup ({ret} \ {Entered})
           block == ast_new_block_stmt(Top.own \cup {pos + 1}, kids)
       IN  \/ /\ peek = "EOF" /\ Fail(pos) /\ ReleaseList(kids)
           \/ /\ peek = "RBRACE" /\ Read(pos + 1) /\ New(block) /\ Return(block)
           \/ /\ peek \notin {"EOF", "RBRACE"} /\ Read(pos) /\ UNCHANGED memory
              /\ Call([Top EXCEPT !.kids = kids], <<Frame("statement")>>)
    /\ UNCHANGED <<toks, mod, bails>>

(* Mutant: the block goes on without the statement. *)
Resume_parser_free_statements ==
    /\ Returns("stmts") /\ Failed
    /\ Continue(Top)
    /\ UNCHANGED <<toks, pos, errors, mod, memory, bails>>

parser_free_statements ==
    /\ Returns("stmts") /\ Failed
    /\ ReleaseList(Top.kids)
    /\ Return(NULL)
    /\ UNCHANGED <<toks, pos, errors, mod, bails>>

-----------------------------------------------------------------------------
(* Expressions. *)

(* The operand of = has been parsed: the first, or the value assigned.     *)
parser_expression ==
    /\ Returns("expression")
    /\ LET left == IF Top.left = NULL THEN ret ELSE ast_new_assign_expr(Top.own, Top.left, ret)
       IN  \/ /\ Failed /\ Read(pos) /\ Release(Top.left) /\ Return(NULL)
           \/ /\ ~Failed
              /\ IF Top.left = NULL THEN UNCHANGED memory ELSE New(left)
              /\ IF peek = "EQ"
                 THEN Read(pos + 1) /\ Call([Top EXCEPT !.left = left, !.own = {pos + 1}], Expression(Top.opt))
                 ELSE Read(pos) /\ Return(left)
    /\ UNCHANGED <<toks, mod, bails>>

(* parser_prefix, at the start of parser_parse_expression.  A token that   *)
(* starts no expression is consumed and no error.                          *)
parser_prefix ==
    /\ Runs("climb") /\ Top.left = NULL
    /\ LET leaf == CASE peek = "INT" -> ast_new_int_expr({pos + 1})
                     [] peek = "STRING" -> ast_new_string_expr({pos + 1})
                     [] peek = "CHAR" -> ast_new_char_expr({pos + 1})
                     [] OTHER -> ast_new_ident_expr({pos + 1})
           Waits(do) == [Frame(do) EXCEPT !.own = {pos + 1}]
           frames == CASE peek = "NEW" -> <<Waits("new")>> \o Expression(Top.opt)
                       [] peek = "LPAREN" -> <<Waits("paren")>> \o Expression(FALSE)
                       [] OTHER -> <<Waits("unary"), Climb(PRECEDENCE_UNARY, Top.opt)>>
       IN  \/ /\ peek \in LexErrors \cup {"EOF"}
              /\ Fail(Advanced(pos)) /\ UNCHANGED memory
           \/ /\ peek \in Leaves
              /\ Read(pos + 1) /\ New(leaf) /\ Continue([Top EXCEPT !.left = leaf])
           \/ /\ peek \in Unary \cup {"NEW", "LPAREN"}
              /\ Read(pos + 1) /\ UNCHANGED memory /\ Call(Top, frames)
           \/ /\ peek \notin LexErrors \cup {"EOF"} \cup Leaves \cup Unary \cup {"NEW", "LPAREN"}
              /\ Read(pos + 1) /\ UNCHANGED memory /\ Return(NULL)
    /\ UNCHANGED <<toks, mod, bails>>

paren_parsed ==
    /\ Returns("paren")
    /\ \/ /\ Failed /\ Read(pos) /\ Return(NULL) /\ UNCHANGED memory
       \/ /\ ~Failed /\ peek = "RPAREN" /\ Read(pos + 1) /\ UNCHANGED memory
          /\ Return([ret EXCEPT !.reads = @ \cup Top.own \cup {pos + 1}])
       \/ /\ ~Failed /\ peek # "RPAREN" /\ Fail(Advanced(pos)) /\ Release(ret)
    /\ UNCHANGED <<toks, mod, bails>>

(* The node around an expression that was all it waited for. *)
Around == {"expr_stmt", "delete", "return", "let", "new", "unary", "access", "binary"}
around_parsed ==
    /\ \E do \in Around : Returns(do)
    /\ LET v == CASE Top.do = "expr_stmt" -> ast_new_expr_stmt(Top.own, ret)
                  [] Top.do = "delete" -> ast_new_delete_stmt(Top.own, ret)
                  [] Top.do = "return" -> ast_new_return_stmt(Top.own, ret)
                  [] Top.do = "let" -> ast_new_let_stmt(Top.own, ret)
                  [] Top.do = "new" -> ast_new_new_expr(Top.own, ret)
                  [] Top.do = "unary" -> ast_new_unary_expr(Top.own, ret)
                  [] Top.do = "access" -> ast_new_access_expr(Top.own, Top.left, ret)
                  [] Top.do = "binary" -> ast_new_binary_expr(Top.own, Top.left, ret)
       IN  IF Failed THEN Return(NULL) /\ UNCHANGED memory
                     ELSE Return(v) /\ New(v)
    /\ UNCHANGED <<toks, pos, errors, mod, bails>>

parser_next_higher_precedence ==
    /\ peek \notin LexErrors \cup {"EOF"}
    /\ peek = "LBRACE" => ~Top.opt
    /\ precedence_get(peek) > Top.prec

(* The loop of parser_parse_expression: left is all there is, or the       *)
(* operand of what comes next (parser_infix).                              *)
operand_done ==
    /\ Runs("climb") /\ Top.left # NULL
    /\ ~parser_next_higher_precedence
    /\ Return(Top.left)
    /\ UNCHANGED <<toks, pos, errors, mod, memory, bails>>

parser_infix ==
    /\ Runs("climb") /\ Top.left # NULL
    /\ parser_next_higher_precedence
    /\ peek # "AS"
    /\ LET Waits(do) == [Frame(do) EXCEPT !.own = {pos + 1}, !.left = Top.left, !.start = pos + 1]
       IN  Call(Top, CASE peek = "DOT" -> <<Waits("access")>> \o Expression(Top.opt)
                       [] peek = "LPAREN" -> <<Waits("args")>>
                       [] peek = "LBRACE" -> <<Waits("inits")>>
                       [] OTHER -> <<Waits("binary"), Climb(precedence_get(peek), Top.opt)>>)
    /\ Read(pos + 1)
    /\ UNCHANGED <<toks, mod, memory, bails>>

infix_as ==
    /\ Runs("climb") /\ Top.left # NULL
    /\ parser_next_higher_precedence
    /\ peek = "AS"
    /\ LET r == parser_consume_type(pos + 1)
           as == ast_new_as_expr(Reads(r.to), Top.left)
       IN  IF r.ok THEN Read(r.to) /\ New(as) /\ Continue([Top EXCEPT !.left = as])
                   ELSE Fail(r.to) /\ Release(Top.left)
    /\ UNCHANGED <<toks, mod, bails>>

(* A prefix or an infix expression has been parsed, or could not be; what  *)
(* was before an infix that failed is freed, by whoever freed it before.   *)
climb_on ==
    /\ Returns("climb")
    /\ IF Failed THEN Release(Top.left) /\ Return(NULL)
                 ELSE UNCHANGED memory /\ Continue([Top EXCEPT !.left = ret])
    /\ UNCHANGED <<toks, pos, errors, mod, bails>>

(* Mutant: the arguments that were freed stay in the list. *)
Stale_Bail(to) ==
    /\ Continue([Top EXCEPT !.do = "close", !.own = @ \cap 1 .. Top.start,
                            !.opt = Top.do = "inits"])
    /\ bails' = bails \cup {<<Top.start, to>>}

(* The list is given up: what was read of it is no part of the call, which *)
(* goes on with an empty list.                                             *)
Bail(to) ==
    /\ Continue([Top EXCEPT !.do = "close", !.kids = {}, !.own = @ \cap 1 .. Top.start,
                            !.opt = Top.do = "inits"])
    /\ bails' = bails \cup {<<Top.start, to>>}

(* The next argument, or the end of the list.  A comma must be followed by *)
(* an argument.                                                            *)
parser_parse_arg_list ==
    /\ Runs("args") \/ (Returns("args") /\ ~Failed)
    /\ LET comma == ret # Entered /\ peek = "COMMA"
           to == IF comma THEN pos + 1 ELSE pos
           f == [Top EXCEPT !.kids = @ \cup ({ret} \ {Entered}), !.own = @ \cup Reads(to)]
       IN  /\ Read(to)
           /\ IF ~comma /\ peek \in {"EOF", "RPAREN"}
              THEN Continue([f EXCEPT !.do = "close"])
              ELSE Call(f, Expression(FALSE))
    /\ UNCHANGED <<toks, mod, memory, bails>>

(* An argument cannot be parsed: the others are freed, once by ast_free_al *)
(* and once by the ptrvec_free it ends with.                               *)
arg_failed ==
    /\ Returns("args") /\ Failed
    /\ ReleaseList(Top.kids)
    /\ Bail(pos)
    /\ UNCHANGED <<toks, pos, errors, mod>>

parser_parse_init_list ==
    /\ Runs("inits") \/ (Returns("inits") /\ ~Failed)
    /\ LET comma == ret # Entered /\ peek = "COMMA"
           last == ~comma /\ peek \in {"EOF", "RBRACE"}
           r == Consume(IF comma THEN pos + 1 ELSE pos, <<"IDENT", "COLON">>)
           kids == Top.kids \cup ({ret} \ {Entered})
       IN  \/ /\ last /\ Read(pos) /\ UNCHANGED <<memory, bails>>
              /\ Continue([Top EXCEPT !.do = "close", !.kids = kids, !.opt = TRUE])
           \/ /\ ~last /\ r.ok /\ Read(r.to) /\ UNCHANGED <<memory, bails>>
              /\ Call([Top EXCEPT !.kids = kids, !.own = @ \cup Reads(r.to)], Expression(FALSE))
           \/ /\ ~last /\ ~r.ok /\ Miss(r.to) /\ Free(kids, FALSE) /\ Bail(r.to)
    /\ UNCHANGED <<toks, mod>>

init_failed ==
    /\ Returns("inits") /\ Failed
    /\ Free(Top.kids, FALSE)
    /\ Bail(pos)
    /\ UNCHANGED <<toks, pos, errors, mod>>

(* The end of parser_infix for calls and initialisers: the token that      *)
(* closes the list, and the constructor, which frees what is no name.      *)
close_list ==
    /\ Runs("close")
    /\ LET r == Consume(pos, <<IF Top.opt THEN "RBRACE" ELSE "RPAREN">>)
           own == Top.own \cup Reads(r.to)
           v == IF Top.opt THEN ast_new_init_expr(own, Top.left, Top.kids)
                           ELSE ast_new_call_expr(own, Top.left, Top.kids)
       IN  \/ /\ ~r.ok /\ Fail(r.to) /\ Free(Top.kids, ~Top.opt /\ Top.kids # {})
           \/ /\ r.ok /\ Read(r.to) /\ Named(Top.left) /\ New(v) /\ Return(v)
           \/ /\ r.ok /\ Read(r.to) /\ ~Named(Top.left) /\ Release(Top.left) /\ Return(NULL)
    /\ UNCHANGED <<toks, mod, bails>>

-----------------------------------------------------------------------------
Init ==
    /\ toks \in Texts
    /\ pos = 0 /\ errors = 0
    /\ stack = <<Frame("parse")>> /\ ret = Entered
    /\ mod = <<>>
    /\ live = {} /\ faults = {} /\ bails = {}

Statement ==
    \/ parser_parse \/ parser_statement \/ statement_failed \/ statement_parsed
    \/ parser_parse_func_def \/ parser_parse_param_list \/ func_signature \/ func_body
    \/ parser_parse_condition \/ condition_parsed \/ block_failed
    \/ while_parsed \/ if_parsed \/ else_parsed
    \/ parser_parse_type_stmt \/ parser_parse_field_list
    \/ parser_parse_delete_stmt \/ parser_parse_return_stmt
    \/ parser_parse_let_stmt \/ parser_parse_import_stmt
    \/ parser_parse_block \/ block_statement \/ parser_free_statements

Expr_ ==
    \/ parser_expression \/ parser_prefix \/ paren_parsed \/ around_parsed
    \/ operand_done \/ parser_infix \/ infix_as \/ climb_on
    \/ parser_parse_arg_list \/ arg_failed \/ parser_parse_init_list \/ init_failed
    \/ close_list

(* After a fault the program may end. *)
Abort ==
    /\ Running /\ faults # {}
    /\ stack' = <<>> /\ ret' = Aborted
    /\ UNCHANGED <<toks, pos, errors, mod, memory, bails>>

Ended == ~Running /\ UNCHANGED vars

Next == Statement \/ Expr_ \/ Abort \/ Ended

Spec == Init /\ [][Next]_vars

(* A sequential program runs on until it ends. *)
FairSpec == Spec /\ WF_vars(Next)

-----------------------------------------------------------------------------
FrameKinds == {"parse", "statement", "end", "func", "params", "signature", "body", "IF", "WHILE",
               "if_cond", "while_cond", "if_block", "while_block", "else", "TYPE", "fields",
               "DELETE", "RETURN", "LET", "IMPORT", "block", "stmts", "expression", "climb",
               "paren", "args", "inits", "close"} \cup Around

TypeOK ==
    /\ toks \in Seq(STRING)
    /\ pos \in 0 .. Len(toks)
    /\ errors \in Nat
    /\ \A i \in DOMAIN stack : /\ stack[i].do \in FrameKinds
                               /\ stack[i].errs \in 0 .. errors
                               /\ stack[i].start \in 0 .. pos
    /\ faults \subseteq FaultKinds

BetweenStatements == Len(stack) <= 1 /\ ret # Aborted
Kept == (UNION {mod[i].reads : i \in DOMAIN mod}) \cup ret.reads
Dropped == UNION {b[1] + 1 .. b[2] : b \in bails}

(* As long as there is no error, every token read so far is part of a      *)
(* statement of the module, but for those of lists that were given up: a   *)
(* function that returns NULL has left an error, or its caller leaves one, *)
(* or its caller is a list (parser.c:154-182, 202-229, 596-656).           *)
NothingLost == BetweenStatements /\ errors = 0 => Kept = (1 .. pos) \ Dropped

(* A statement is kept whole or dropped whole, whatever errors the text    *)
(* has: between its first token and its last nothing is missing but lists  *)
(* that were given up, no token belongs to two statements, and the         *)
(* statements are in the order of their tokens (parser.c:188-229, 482-505, *)
(* 658-668, 924-957).                                                      *)
Inside(s) == {k \in 1 .. pos : (\E p \in s.reads : p < k) /\ (\E q \in s.reads : k < q)}
Whole ==
    /\ \A i \in DOMAIN mod : Inside(mod[i]) \subseteq mod[i].reads \cup Dropped
    /\ \A i, j \in DOMAIN mod : i < j => \A p \in mod[i].reads, q \in mod[j].reads : p < q

(* A text without an error, and without a list that was given up, is       *)
(* parsed without freeing anything wrongly, and the nodes allocated are    *)
(* those of the module: no path that frees is taken on the way, and no     *)
(* node is left behind (parser.c:658-709, ast.c:240-288, 558-592).  Only   *)
(* the fields of structs are copied past the end of a variable             *)
(* (parser.c:510).                                                         *)
HasStruct(text) == \E p \in DOMAIN text : text[p] = "STRUCT"
Clean == BetweenStatements /\ errors = 0 /\ bails = {} =>
             /\ faults \subseteq IF HasStruct(toks) THEN {"overrun"} ELSE {}
             /\ live = (UNION {mod[i].nodes : i \in DOMAIN mod}) \cup ret.nodes

(* No recovery frees a node of a statement that is kept (ast.c:240-288).   *)
Owned == \A i \in DOMAIN mod : mod[i].nodes \subseteq live

(* The parser ends, at the end of the text (parser.c:188-200, 482-656,     *)
(* 924-957).                                                               *)
Ends == <>(~Running /\ (ret = Aborted \/ pos = Len(toks)))
=============================================================================
