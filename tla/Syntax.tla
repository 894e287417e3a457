------------------------------- MODULE Syntax -------------------------------
(***************************************************************************)
(* The syntax tree of src/ast.c, as far as its owner can tell: what a tree *)
(* is, which tokens it was read from, which nodes were allocated for it,   *)
(* and which of them freeing it gives back.                                *)
(*                                                                         *)
(* A node is named by its kind and the tokens below it, which no other     *)
(* node of a text shares.  A tree is a record:                             *)
(*   kind    the tag of its root                                           *)
(*   reads   the positions of the tokens it was read from                  *)
(*   nodes   the nodes allocated for it                                    *)
(*   frees   the nodes ast_expr_free or ast_stmt_free releases             *)
(*   wild    whether that call also takes something for an expression that *)
(*           is none, and reads or frees it: FALSE, TRUE, or either where  *)
(*           it depends on bytes nobody wrote                              *)
(***************************************************************************)
EXTENDS Integers, FiniteSets

NULL == [kind |-> "NULL", reads |-> {}, nodes |-> {}, frees |-> {}, wild |-> {FALSE}]

Node(kind, reads) == [kind |-> kind, reads |-> reads]

(* own are the positions of the tokens of the node itself, given the       *)
(* children that the call which frees the tree frees as well.              *)
Tree(kind, own, kids, given, wild) ==
    LET reads == own \cup UNION {k.reads : k \in kids}
        node == Node(kind, reads)
    IN  [kind |-> kind, reads |-> reads,
         nodes |-> {node} \cup UNION {k.nodes : k \in kids},
         frees |-> {node} \cup UNION {k.frees : k \in given},
         wild |-> wild]

-----------------------------------------------------------------------------
(* Expressions.  A call is tested for as if it were an access, so that its *)
(* callee and its arguments are not freed with it (ast.c:575).             *)
Expr(kind, own, kids) == Tree(kind, own, kids, IF kind = "call" THEN {} ELSE kids, {FALSE})

ast_new_access_expr(own, left, right) == Expr("access", own, {left, right})
ast_new_as_expr(own, e) == Expr("as", own, {e})
ast_new_new_expr(own, e) == Expr("new", own, {e})
ast_new_assign_expr(own, left, right) == Expr("assign", own, {left, right})
ast_new_ident_expr(own) == Expr("ident", own, {})
ast_new_int_expr(own) == Expr("int", own, {})
ast_new_string_expr(own) == Expr("string", own, {})
ast_new_char_expr(own) == Expr("char", own, {})
ast_new_binary_expr(own, left, right) == Expr("binary", own, {left, right})
ast_new_unary_expr(own, right) == Expr("unary", own, {right})

(* Only a name can be called or initialised: otherwise the constructor     *)
(* frees it and returns NULL.                                              *)
Named(ident) == ident.kind \in {"ident", "access"}
ast_new_call_expr(own, ident, args) == Expr("call", own, {ident} \cup args)
ast_new_init_expr(own, ident, inits) == Expr("init", own, {ident} \cup inits)

-----------------------------------------------------------------------------
(* Statements.  ast_stmt_free takes every statement that is not one of the *)
(* first three for a return statement (ast.c:251, where the test is a      *)
(* cast), and frees what stands where a return statement has its           *)
(* expression: the condition of an if or while; the number of statements   *)
(* of a block; the text of the name of a struct or a module; is_extern and *)
(* the padding behind it of a function.                                    *)
ast_new_expr_stmt(own, e) == Tree("expr_stmt", own, {e}, {e}, {FALSE})
ast_new_let_stmt(own, value) == Tree("let", own, {value}, {value}, {FALSE})
ast_new_delete_stmt(own, e) == Tree("delete", own, {e}, {e}, {FALSE})
ast_new_return_stmt(own, e) == Tree("return", own, {e}, {e}, {FALSE})
ast_new_while_stmt(own, cond, block) == Tree("while", own, {cond, block}, {cond}, {FALSE})
ast_new_if_stmt(own, cond, block) == Tree("if", own, {cond, block}, {cond}, {FALSE})
ast_new_block_stmt(own, stmts) == Tree("block", own, stmts, {}, {stmts # {}})
ast_new_func_decl_stmt(own, is_extern, block) ==
    Tree("func", own, {block}, {}, IF is_extern THEN {TRUE} ELSE BOOLEAN)
ast_new_struct_decl_stmt(own) == Tree("struct", own, {}, {}, {TRUE})
ast_new_import_stmt(own) == Tree("import", own, {}, {}, {TRUE})

(* Mutant: the else statement is forgotten. *)
Lost_WithElse(s, own, else_stmt) == [s EXCEPT !.reads = @ \cup own \cup else_stmt.reads]

(* The if statement s gets its else statement when that has been parsed.   *)
WithElse(s, own, else_stmt) ==
    [s EXCEPT !.reads = @ \cup own \cup else_stmt.reads, !.nodes = @ \cup else_stmt.nodes]
=============================================================================
