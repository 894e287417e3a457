---------------------------- MODULE TypeChecker ----------------------------
(***************************************************************************)
(* The type checker of src/typecheck.c with what it calls of mod.c,        *)
(* scope.c and ty.c: it goes over the statements of every module, follows  *)
(* the imports into modules that were not checked yet, binds names to      *)
(* types and computes the width and alignment of the structs.              *)
(*                                                                         *)
(* The C call stack (typecheck_check_mod <- typecheck_check_stmt <- ...)   *)
(* is `frames`: one frame per module being checked, with the context its   *)
(* importer saved in a local variable.  The first was called by            *)
(* typecheck_check, the others each by an import of the one below.         *)
(*                                                                         *)
(* Undefined behaviour ends a run: an outcome of Undefined, named for what *)
(* was done, stands for whatever the build does then.  Where a copy of the *)
(* wrong size may as well do no harm, the check may also go on.            *)
(***************************************************************************)
EXTENDS Integers, FiniteSets, SequencesExt

CONSTANTS
    Mods,       \* the modules of the compilation
    Names,      \* identifiers and import paths
    i32,        \* the name of the only global type
    NULL,
    KeyMod,     \* path -> the module stored under the path "<path>.syn"
    AbsMod,     \* module, path -> the module at the resolved path "<dir of the
                \* module>/<path>.syn", Absent (no such file), or Other (a file
                \* that is not compiled)
    Absent, Other,
    Rooted,     \* the paths that start with '/' or '~'
    Programs    \* the statements of each module

ASSUME ModsAssumption == IsFiniteSet(Mods)
ASSUME NamesAssumption == i32 \in Names
ASSUME NullAssumption == NULL \notin Mods
ASSUME KeyModAssumption == KeyMod \in [Names -> Mods \cup {NULL}]
ASSUME AbsModAssumption == AbsMod \in [Mods -> [Names -> Mods \cup {Absent, Other}]]

(* A statement is an import, a struct declaration, a let, an expression or *)
(* another one.  A field is [qual, name, ptr]: a type name, its module     *)
(* alias (NULL: none) and whether it has stars.  An expression is [base,   *)
(* name, dots]: an access chain of `dots` accesses to its base, which is   *)
(* an "int", a "string", the "ident" name, or another expression.          *)
Field == [qual : Names \cup {NULL}, name : Names, ptr : BOOLEAN]
Expr == [base : {"int", "string", "other"}, name : {NULL}, dots : Nat]
        \cup [base : {"ident"}, name : Names, dots : Nat]
Stmt == [op : {"import"}, path : Names]
        \cup [op : {"struct"}, name : Names, fields : Seq(Field)]
        \cup [op : {"let"}, name : Names, value : Expr]
        \cup [op : {"expr"}, value : Expr]
        \cup [op : {"other"}]

ASSUME ProgramsAssumption == \A prog \in Programs : prog \in [Mods -> Seq(Stmt)]

VARIABLES
    prog,       \* the program, fixed
    order,      \* sorted_mods, fixed
    pos,        \* how many modules of it typecheck_check has visited
    frames,     \* the modules being checked, innermost last
    at,         \* module -> the index of the statement being checked
    typed,      \* the modules with a type (mod->ty)
    ctx,        \* tc->ctx: the module, the import aliases, the local names
    structs,    \* module -> the struct types of its declarations
    requests,   \* <<module, name>> of the structs another one waits for
    errors,     \* tc->errors
    outcome     \* "running", "done" or one of Undefined

vars == <<prog, order, pos, frames, at, typed, ctx, structs, requests, errors, outcome>>

-----------------------------------------------------------------------------
(* Types. *)
I32 == [kind |-> "i32"]
String == [kind |-> "string"]
Ptr == [kind |-> "ptr"]
Mod(m) == [kind |-> "mod", mod |-> m]
Struct(m, s) == [kind |-> "struct", mod |-> m, idx |-> s]     \* of the statement s

Type == {I32, String, Ptr} \cup [kind : {"mod"}, mod : Mods]
        \cup [kind : {"struct"}, mod : Mods, idx : Nat \ {0}]

ASSUME NullTypeAssumption == NULL \notin Type

WIDTH_UNKNOWN == -1

width(t) == CASE t.kind = "i32" -> 4
              [] t.kind \in {"string", "ptr"} -> 8
              [] t.kind = "struct" -> structs[t.mod][t.idx].width
              [] t.kind = "mod" -> WIDTH_UNKNOWN

align(t) == CASE t.kind = "struct" -> structs[t.mod][t.idx].align
              [] t.kind = "mod" -> 0
              [] OTHER -> width(t)

(* A module type counts as initialized although it has no width. *)
ty_is_initialized(t) == t.kind = "mod" \/ width(t) # WIDTH_UNKNOWN

ty_is_scoped(t) == t # NULL /\ t.kind \in {"mod", "struct"}

(* The width and alignment of a struct with these field types: no padding, *)
(* and a module field adds its width of -1.                                *)
Total(ws) ==
    LET sum[i \in 0 .. Len(ws)] == IF i = 0 THEN 0 ELSE sum[i - 1] + ws[i]
    IN  sum[Len(ws)]

ty_fill_width_align(s, types) ==
    LET w == Total([i \in DOMAIN types |-> width(types[i])])
        a == Max({0} \cup {align(types[i]) : i \in DOMAIN types})
    IN  IF s.align > 0 \/ w = WIDTH_UNKNOWN
        THEN s
        ELSE [s EXCEPT !.width = w, !.align = IF a = 0 THEN w ELSE a]

-----------------------------------------------------------------------------
(* Scopes and lookups. *)
StructStmts(m) == {s \in DOMAIN prog[m] : prog[m][s].op = "struct"}

typecheck_empty_ctx == [mod |-> NULL,
                        aliases |-> [n \in Names |-> NULL],
                        locals |-> [n \in Names |-> NULL]]

(* Mutant: the context of the importer is reused. *)
Reused_typecheck_create_ctx(m) == [ctx EXCEPT !.mod = m]

typecheck_create_ctx(m) == [typecheck_empty_ctx EXCEPT !.mod = m]

(* The placeholders typecheck_make_mod_type creates, one per declaration.  *)
typecheck_make_mod_type(m) ==
    [s \in StructStmts(m) |-> [name |-> prog[m][s].name, width |-> WIDTH_UNKNOWN, align |-> 0]]

(* The scope of a module's type: of declarations with one name, the last.  *)
mod_s_lookup(m, n) ==
    LET ss == {s \in StructStmts(m) : prog[m][s].name = n}
    IN  IF ss = {} THEN NULL ELSE Struct(m, Max(ss))

(* The local scope, then the module's, then the global one.  A name bound  *)
(* to no type is not found.                                                *)
scope_lookup(n) ==
    IF ctx.locals[n] # NULL THEN ctx.locals[n]
    ELSE IF mod_s_lookup(ctx.mod, n) # NULL THEN mod_s_lookup(ctx.mod, n)
    ELSE IF n = i32 THEN I32 ELSE NULL

(* Mutant: the name behind an alias is looked for in the current module. *)
Local_typecheck_lookup_ident_mod(f) ==
    IF f.qual = NULL THEN scope_lookup(f.name)
    ELSE IF ctx.aliases[f.qual] = NULL THEN NULL
    ELSE mod_s_lookup(ctx.mod, f.name)

typecheck_lookup_ident_mod(f) ==
    IF f.qual = NULL THEN scope_lookup(f.name)
    ELSE IF ctx.aliases[f.qual] = NULL THEN NULL
    ELSE mod_s_lookup(ctx.aliases[f.qual], f.name)

(* The type an expression gets; an access gets none. *)
BaseType(e) == CASE e.base = "int" -> I32
                 [] e.base = "string" -> String
                 [] e.base = "ident" -> scope_lookup(e.name)
                 [] e.base = "other" -> NULL
typecheck_check_expr(e) == IF e.dots = 0 THEN BaseType(e) ELSE NULL

(* An expression fails silently on an unknown name, and with an error when *)
(* what is accessed has no scope: that includes the result of an access.   *)
UnknownName(e) == e.base = "ident" /\ BaseType(e) = NULL
AccessError(e) == /\ ~UnknownName(e)
                  /\ \/ e.dots > 1
                     \/ e.dots = 1 /\ ~ty_is_scoped(BaseType(e))

-----------------------------------------------------------------------------
(* The module and the statement being checked. *)
Top == frames[Len(frames)]
Current == prog[Top.mod][at[Top.mod]]

(* Mutant: the last statement is left out. *)
Early_AtEnd == at[Top.mod] >= Len(prog[Top.mod])

AtEnd == at[Top.mod] > Len(prog[Top.mod])

(* The orders typecheck_sorted_mods may give: it permutes the modules (see *)
(* TupleSort), which the command line can name in any order.               *)
Orders == {s \in [1 .. Cardinality(Mods) -> Mods] : {s[k] : k \in DOMAIN s} = Mods}

Init ==
    /\ prog \in Programs
    /\ order \in Orders
    /\ pos = 0
    /\ frames = <<>>
    /\ at = [m \in Mods |-> 1]
    /\ typed = {}
    /\ ctx = typecheck_empty_ctx
    /\ structs = [m \in Mods |-> <<>>]
    /\ requests = {}
    /\ errors = <<>>
    /\ outcome = "running"

(* Mutant: the module gets its type when it is left. *)
Untyped_Enter(m, saved) ==
    /\ typed' = typed
    /\ structs' = [structs EXCEPT ![m] = typecheck_make_mod_type(m)]
    /\ ctx' = typecheck_create_ctx(m)
    /\ frames' = Append(frames, [mod |-> m, saved |-> saved])
    /\ at' = [at EXCEPT ![m] = 1]

(* typecheck_check_mod up to its loop, called with the context to restore. *)
(* The module has a type from here on, so that an import cycle ends.       *)
Enter(m, saved) ==
    /\ typed' = typed \cup {m}
    /\ structs' = [structs EXCEPT ![m] = typecheck_make_mod_type(m)]
    /\ ctx' = typecheck_create_ctx(m)
    /\ frames' = Append(frames, [mod |-> m, saved |-> saved])
    /\ at' = [at EXCEPT ![m] = 1]

(* The loop of typecheck_check. *)
Visiting == outcome = "running" /\ frames = <<>>

EnterModule ==
    /\ Visiting /\ pos < Len(order)
    /\ order[pos + 1] \notin typed
    /\ pos' = pos + 1
    /\ Enter(order[pos + 1], typecheck_empty_ctx)
    /\ UNCHANGED <<prog, order, requests, errors, outcome>>

(* Mutant: a checked module is met again and again. *)
Stuck_SkipModule ==
    /\ Visiting /\ pos < Len(order)
    /\ order[pos + 1] \in typed
    /\ UNCHANGED vars

SkipModule ==
    /\ Visiting /\ pos < Len(order)
    /\ order[pos + 1] \in typed
    /\ pos' = pos + 1
    /\ UNCHANGED <<prog, order, frames, at, typed, ctx, structs, requests, errors, outcome>>

Finish ==
    /\ Visiting /\ pos = Len(order)
    /\ outcome' = "done"
    /\ UNCHANGED <<prog, order, pos, frames, at, typed, ctx, structs, requests, errors>>

(* The end of a module: back to typecheck_check, or to the import that led *)
(* here, whose context is restored before the path is bound to the module. *)
LeaveModule ==
    /\ outcome = "running" /\ Len(frames) = 1 /\ AtEnd
    /\ frames' = SubSeq(frames, 1, Len(frames) - 1)
    /\ UNCHANGED <<prog, order, pos, at, typed, ctx, structs, requests, errors, outcome>>

Next_stmt == at' = [at EXCEPT ![Top.mod] = @ + 1]

(* Mutant: bound among the aliases. *)
Alias_typecheck_bind(c, n, t) == [c EXCEPT !.aliases[n] = t]

typecheck_bind(c, n, t) == [c EXCEPT !.locals[n] = t]

(* Mutant: the importer goes on in the context of the imported module. *)
Lost_restored(saved, path, m) == typecheck_bind(ctx, path, Mod(m))

restored(saved, path, m) == typecheck_bind(saved, path, Mod(m))

LeaveImport ==
    /\ outcome = "running" /\ Len(frames) > 1 /\ AtEnd
    /\ LET importer == Top.saved.mod
           path == prog[importer][at[importer]].path
       IN  /\ ctx' = restored(Top.saved, path, Top.mod)
           /\ at' = [at EXCEPT ![importer] = @ + 1]
    /\ frames' = SubSeq(frames, 1, Len(frames) - 1)
    /\ UNCHANGED <<prog, order, pos, typed, structs, requests, errors, outcome>>

-----------------------------------------------------------------------------
(* typecheck_check_stmt: one group of actions per kind of statement.       *)
At(op) == outcome = "running" /\ frames # <<>> /\ ~AtEnd /\ Current.op = op

push_error(text) ==
    errors' = Append(errors, [text |-> text, mod |-> Top.mod, stmt |-> at[Top.mod]])

(* A module is found under "<path>.syn", or not at all: one found under    *)
(* the resolved path is reported instead of returned.                      *)
Found(p) == KeyMod[p] # NULL
BadFree(p) == ~Found(p) /\ p \in Rooted
NotFoundText(m, p) == CASE AbsMod[m][p] = Absent -> "no such file"
                        [] AbsMod[m][p] = Other -> NULL
                        [] AbsMod[m][p] \in Mods -> "is not being compiled"

typecheck_add_import_alias(c, n, m) == [c EXCEPT !.aliases[n] = m]

ImportChecked ==
    /\ At("import") /\ Found(Current.path)
    /\ KeyMod[Current.path] \in typed
    /\ LET m == KeyMod[Current.path]
       IN  ctx' = typecheck_bind(typecheck_add_import_alias(ctx, Current.path, m),
                                 Current.path, Mod(m))
    /\ Next_stmt
    /\ UNCHANGED <<prog, order, pos, frames, typed, structs, requests, errors, outcome>>

ImportUnchecked ==
    /\ At("import") /\ Found(Current.path)
    /\ KeyMod[Current.path] \notin typed
    /\ LET m == KeyMod[Current.path]
       IN  Enter(m, typecheck_add_import_alias(ctx, Current.path, m))
    /\ UNCHANGED <<prog, order, pos, requests, errors, outcome>>

ImportNotFound ==
    /\ At("import") /\ ~Found(Current.path) /\ ~BadFree(Current.path)
    /\ push_error(NotFoundText(Top.mod, Current.path))
    /\ Next_stmt
    /\ UNCHANGED <<prog, order, pos, frames, typed, ctx, structs, requests, outcome>>

(* A rooted path is not copied before it is resolved: when that fails, and *)
(* it does, a pointer into the source text is freed.                       *)
ImportBadFree ==
    /\ At("import") /\ BadFree(Current.path)
    /\ outcome' = "badfree"
    /\ UNCHANGED <<prog, order, pos, frames, at, typed, ctx, structs, requests, errors>>

(* Mutant: no struct is waited for. *)
Never_Waits(f) == FALSE

Waits(f) == LET t == typecheck_lookup_ident_mod(f)
            IN  t # NULL /\ ~f.ptr /\ ~ty_is_initialized(t)

(* The type of a field that is known and not waited for.                   *)
FieldType(f) == IF f.ptr THEN Ptr ELSE typecheck_lookup_ident_mod(f)

(* A struct is waited for under its name, in the alias's module or here.   *)
(* The struct d being filled has just been given the name n.               *)
Request(f, d, n) ==
    LET t == typecheck_lookup_ident_mod(f)
    IN  <<IF f.qual = NULL THEN ctx.mod ELSE ctx.aliases[f.qual],
          IF t = d THEN n ELSE structs[t.mod][t.idx].name>>

(* Mutant: a request of the same name in any module will do. *)
AnyModule_awaited(m, n) == \E r \in requests : r[2] = n

awaited(m, n) == <<m, n>> \in requests

(* The declaration whose type `definition` is filled: ty_init_struct, then *)
(* typecheck_fill_struct_fields, then typecheck_update_waiting.  A request *)
(* that was added holds no request (the address of a local variable was    *)
(* pushed), so following one is undefined.  The fields are read nowhere    *)
(* else and are left out.  This is what happens unless FieldOverrun or     *)
(* RequestOverread does.                                                   *)
FillStruct(decl, d) ==
    LET named == [structs[d.mod][d.idx] EXCEPT !.name = decl.name]
        types == [i \in DOMAIN decl.fields |-> FieldType(decl.fields[i])]
        waiting == {f \in {decl.fields[i] : i \in DOMAIN decl.fields} : Waits(f)}
        error == \E i \in DOMAIN decl.fields : typecheck_lookup_ident_mod(decl.fields[i]) = NULL
        complete == ~error /\ waiting = {}
        update(s) == structs' = [structs EXCEPT ![d.mod][d.idx] = s]
    IN  IF ty_is_initialized(d)
        THEN update(named) /\ UNCHANGED <<requests, outcome>>
        ELSE /\ update(IF complete THEN ty_fill_width_align(named, types) ELSE named)
             /\ requests' = requests \cup {Request(f, d, decl.name) : f \in waiting}
             /\ outcome' = IF complete /\ awaited(ctx.mod, decl.name)
                           THEN "awaited" ELSE outcome

CheckStruct ==
    /\ At("struct")
    /\ LET d == scope_lookup(Current.name)
       IN  /\ d.kind = "struct"
           /\ FillStruct(Current, d)
    /\ Next_stmt
    /\ UNCHANGED <<prog, order, pos, frames, typed, ctx, errors>>

(* A struct with no width yet, whose fields are gone through.              *)
Filling == /\ At("struct")
           /\ scope_lookup(Current.name).kind = "struct"
           /\ ~ty_is_initialized(scope_lookup(Current.name))

(* Each field is copied into a local Field, as many bytes as an element of *)
(* the list has: those of a Fields, which is larger (parser.c:510).        *)
FieldOverrun ==
    /\ Filling /\ Current.fields # <<>>
    /\ outcome' = "overrun"
    /\ UNCHANGED <<prog, order, pos, frames, at, typed, ctx, structs, requests, errors>>

(* A request is added by copying the bytes of a WaitingRequest from a      *)
(* local pointer.                                                          *)
RequestOverread ==
    /\ Filling /\ \E i \in DOMAIN Current.fields : Waits(Current.fields[i])
    /\ outcome' = "overread"
    /\ UNCHANGED <<prog, order, pos, frames, at, typed, ctx, structs, requests, errors>>

(* A let or an import took the name of the struct: ty_init_struct writes a *)
(* struct over a smaller type.                                             *)
CheckShadowedStruct ==
    /\ At("struct")
    /\ scope_lookup(Current.name).kind # "struct"
    /\ outcome' = "overwritten"
    /\ UNCHANGED <<prog, order, pos, frames, at, typed, ctx, structs, requests, errors>>

CheckLet ==
    /\ At("let")
    /\ LET e == Current.value
       IN  /\ IF AccessError(e) THEN push_error("cannot be accessed") ELSE UNCHANGED errors
           /\ ctx' = IF UnknownName(e) \/ AccessError(e)
                     THEN ctx
                     ELSE typecheck_bind(ctx, Current.name, typecheck_check_expr(e))
    /\ Next_stmt
    /\ UNCHANGED <<prog, order, pos, frames, typed, structs, requests, outcome>>

CheckExpr ==
    /\ At("expr")
    /\ IF AccessError(Current.value) THEN push_error("cannot be accessed") ELSE UNCHANGED errors
    /\ Next_stmt
    /\ UNCHANGED <<prog, order, pos, frames, typed, ctx, structs, requests, outcome>>

(* Functions, blocks, loops and conditionals are not looked into.          *)
CheckOther ==
    /\ At("other")
    /\ Next_stmt
    /\ UNCHANGED <<prog, order, pos, frames, typed, ctx, structs, requests, errors, outcome>>

Stopped == outcome # "running" /\ UNCHANGED vars

Next == \/ EnterModule \/ SkipModule \/ Finish \/ LeaveModule \/ LeaveImport
        \/ ImportChecked \/ ImportUnchecked \/ ImportNotFound \/ ImportBadFree
        \/ CheckStruct \/ FieldOverrun \/ RequestOverread \/ CheckShadowedStruct
        \/ CheckLet \/ CheckExpr \/ CheckOther
        \/ Stopped

Spec == Init /\ [][Next]_vars
FairSpec == Spec /\ WF_vars(Next)

-----------------------------------------------------------------------------
Undefined == {"badfree", "overwritten", "awaited", "overrun", "overread"}
ErrorTexts == {"no such file", "is not being compiled", "cannot be accessed"}
Context == [mod : Mods \cup {NULL},
            aliases : [Names -> Mods \cup {NULL}],
            locals : [Names -> Type \cup {NULL}]]
StructType == [name : Names, width : Int, align : Int]

TypeOK ==
    /\ prog \in [Mods -> Seq(Stmt)] /\ order \in Seq(Mods) /\ pos \in 0 .. Len(order)
    /\ frames \in Seq([mod : Mods, saved : Context])
    /\ at \in [Mods -> Nat \ {0}]
    /\ typed \subseteq Mods
    /\ ctx \in Context
    /\ DOMAIN structs = Mods
    /\ \A m \in Mods : structs[m] \in [IF m \in typed THEN StructStmts(m) ELSE {} -> StructType]
    /\ requests \subseteq Mods \X Names
    /\ errors \in Seq([text : ErrorTexts \cup {NULL}, mod : Mods, stmt : Nat])
    /\ outcome \in {"running", "done"} \cup Undefined

(* The context in use is that of the module being checked, and each import *)
(* on the way there keeps that of its own module (typecheck.c:470-478).    *)
ContextMatches ==
    /\ frames # <<>> => ctx.mod = Top.mod
    /\ \A k \in DOMAIN frames : k > 1 => frames[k].saved.mod = frames[k - 1].mod

(* Every alias a context holds was imported by its own module, by one of   *)
(* the first n statements, and leads to the module of that path, which has *)
(* a type: looking a name up in it would otherwise go through a null       *)
(* pointer (mod.c:18).                                                     *)
OwnAliases(c, n) ==
    \A p \in Names : c.aliases[p] # NULL =>
        /\ c.aliases[p] = KeyMod[p] /\ KeyMod[p] \in typed
        /\ \E s \in 1 .. n : prog[c.mod][s].op = "import" /\ prog[c.mod][s].path = p
AliasesOwn ==
    /\ frames # <<>> => OwnAliases(ctx, at[ctx.mod] - 1)
    /\ \A k \in DOMAIN frames :
           k > 1 => OwnAliases(frames[k].saved, at[frames[k].saved.mod])

(* When the check is over every module was checked to its last statement,  *)
(* its imports being followed or not (typecheck.c:269-304).                *)
Complete == outcome = "done" =>
    typed = Mods /\ \A m \in Mods : at[m] = Len(prog[m]) + 1

-----------------------------------------------------------------------------
(* The structs, against what their declarations say.  A module is plain    *)
(* when its struct names are its own: not declared twice, not i32, and     *)
(* neither they nor the type names it uses taken by a let or an import.    *)
FieldsAt(m, s) == {prog[m][s].fields[i] : i \in DOMAIN prog[m][s].fields}
BoundNames(m) == {prog[m][s].name : s \in {s \in DOMAIN prog[m] : prog[m][s].op = "let"}}
                 \cup {prog[m][s].path : s \in {s \in DOMAIN prog[m] : prog[m][s].op = "import"}}
Plain(m) ==
    \A s \in StructStmts(m) :
        /\ prog[m][s].name \notin BoundNames(m) \cup {i32}
        /\ \A r \in StructStmts(m) : prog[m][r].name = prog[m][s].name => r = s
        /\ \A f \in FieldsAt(m, s) : f.qual = NULL => f.name \notin BoundNames(m)

(* What the type name of a field of module m stands for, as declared. *)
Imports(m) == {prog[m][s].path : s \in {s \in DOMAIN prog[m] : prog[m][s].op = "import"}}
Declared(m, f) ==
    IF f.ptr THEN Ptr
    ELSE IF f.qual = NULL /\ f.name = i32 THEN I32
    ELSE mod_s_lookup(IF f.qual = NULL THEN m ELSE KeyMod[f.qual], f.name)

(* A struct with a width has it from its fields as declared: the width of  *)
(* each is known, theirs add up to its own, and none is more aligned; but  *)
(* a negative width, which comes from fields that are modules, is its      *)
(* alignment as well (typecheck.c:315-404, ty.c:247-311).                  *)
LayoutConsistent ==
    \A m \in {m \in typed : Plain(m)} : \A s \in StructStmts(m) :
        LET d == mod_s_lookup(m, prog[m][s].name)
            fields == prog[m][s].fields
        IN  ty_is_initialized(d) =>
                /\ \A i \in DOMAIN fields : /\ Declared(m, fields[i]) # NULL
                                            /\ ty_is_initialized(Declared(m, fields[i]))
                /\ width(d) = Total([i \in DOMAIN fields |-> width(Declared(m, fields[i]))])
                /\ width(d) >= 0 =>
                       \A i \in DOMAIN fields : align(Declared(m, fields[i])) <= align(d)

(* A type name is known to the statement s of m. *)
Known(m, s, f) ==
    IF f.qual = NULL
    THEN f.name = i32 \/ mod_s_lookup(m, f.name) # NULL
    ELSE /\ \E r \in 1 .. s - 1 : prog[m][r].op = "import" /\ prog[m][r].path = f.qual
         /\ Found(f.qual)
         /\ mod_s_lookup(KeyMod[f.qual], f.name) # NULL

(* When the check of plain modules is over, a struct that has no width has *)
(* a field whose type is unknown, or is a struct that has no width either: *)
(* the waiting requests leave no struct behind (typecheck.c:387-404).      *)
UnresolvedExplained ==
    outcome = "done" /\ (\A m \in Mods : Plain(m)) =>
        \A m \in Mods : \A s \in StructStmts(m) :
            ty_is_initialized(mod_s_lookup(m, prog[m][s].name))
            \/ \E f \in FieldsAt(m, s) : \/ ~Known(m, s, f)
                                         \/ ~ty_is_initialized(Declared(m, f))

(* A field whose struct is declared later: further down in the module, or  *)
(* in a module that has imports, so that it may still be under way.        *)
Forward(m, s, f) ==
    /\ ~f.ptr
    /\ IF f.qual = NULL
       THEN \E r \in StructStmts(m) : r > s /\ prog[m][r].name = f.name
       ELSE Found(f.qual) /\ Imports(KeyMod[f.qual]) # {}

(* A field that may be of a struct type: there is a struct of its name.    *)
OfStruct(f) == ~f.ptr /\ \E m \in Mods : \E s \in StructStmts(m) : prog[m][s].name = f.name

(* What the checker does that is undefined, and for which programs: it     *)
(* frees a part of the text for an import of a rooted path that is not     *)
(* compiled (mod.c:186-214); writes a struct over another type when a let  *)
(* or an import took the struct's name; follows a request for a struct     *)
(* declared behind the field; reads past a variable to add a request       *)
(* (typecheck.c:59), for which a field must name a struct; and copies past *)
(* a variable for any field of any struct (typecheck.c:328-332).           *)
UndefinedExplained ==
    /\ outcome = "badfree" => \E m \in Mods : \E p \in Imports(m) : BadFree(p)
    /\ outcome = "overwritten" =>
           \E m \in Mods : \E s \in StructStmts(m) : prog[m][s].name \in BoundNames(m)
    /\ outcome = "awaited" =>
           \E m \in Mods : \/ ~Plain(m)
                           \/ \E s \in StructStmts(m) : \E f \in FieldsAt(m, s) : Forward(m, s, f)
    /\ outcome = "overread" =>
           \E m \in Mods : \/ ~Plain(m)
                           \/ \E s \in StructStmts(m) : \E f \in FieldsAt(m, s) : OfStruct(f)
    /\ outcome = "overrun" => \E m \in Mods : \E s \in StructStmts(m) : FieldsAt(m, s) # {}

(* A width, once known, is what every user of the type has added up: no    *)
(* step changes it, not even a second declaration of the name.             *)
WidthFrozen ==
    [][\A m \in Mods : \A k \in DOMAIN structs[m] :
           structs[m][k].width # WIDTH_UNKNOWN => structs'[m][k].width = structs[m][k].width]_vars

(* Checking ends, whatever the modules import (typecheck.c:269, 281).      *)
Termination == <>(outcome # "running")

(* However the imports go round, a module is never checked inside itself   *)
(* nor a second time, and an import returns to its importer                *)
(* (typecheck.c:281-304, 470-478): the modules are opened and closed as    *)
(* ModulePass says.                                                        *)
Opened == [k \in DOMAIN frames |-> frames[k].mod]
Pass == INSTANCE ModulePass WITH opened <- Opened,
                                 closed <- typed \ {frames[k].mod : k \in DOMAIN frames}
ImplementsPass == Pass!Spec

(* The message "%s is not being compiled" (mod.c:209) is about a module    *)
(* that is not compiled.                                                   *)
NotCompiledMeansAbsent ==
    \A k \in DOMAIN errors :
        errors[k].text = "is not being compiled" =>
            AbsMod[errors[k].mod][prog[errors[k].mod][errors[k].stmt].path] \notin Mods
=============================================================================
