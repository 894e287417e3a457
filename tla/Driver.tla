------------------------------- MODULE Driver -------------------------------
(***************************************************************************)
(* main of src/synthium.c, with the reader of src/reader.c and the map of  *)
(* modules of src/mod.c: the files of the standard library and of the      *)
(* command line are read, then parsed one after the other, then checked,   *)
(* then everything is freed and the number of errors is the exit status.   *)
(* The parser runs as in Parser, a node of a file being told from those of *)
(* another by the module it belongs to; the checker is TypeChecker, here   *)
(* no more than the number of errors it reports.                           *)
(***************************************************************************)
EXTENDS Parser, FiniteSetsExt

CONSTANTS
    Libraries,      \* the states of the standard library, sequences of files
    Commands,       \* the command lines, sequences of files
    TypeErrors,     \* the numbers of errors the type checker may report
    Statuses        \* how many exit statuses the system tells apart

(* A file is a record: path, the name it is known by; under, whether that  *)
(* begins with the directory of the compiler; error, the ErrorCode or the  *)
(* errno with which reading it fails, or 0; why it fails; text, its tokens.*)
SourceFiles == [path : STRING, under : BOOLEAN, error : Nat, why : STRING,
                text : Seq(STRING \ {"EOF"})]

(* What an error stands for: a name that is empty, a file that is no file  *)
(* or cannot be opened, has no memory, is not read to its end; or what     *)
(* realpath leaves in errno for one that is missing (2), for an input      *)
(* error (5), or for what keeps it from the file, numbered from ENOMEM,    *)
(* 12, on (path.c:24-27, 65-73, utils.c:63-86).                            *)
Reason(error, why) ==
    \/ error = 1 /\ why = "empty"
    \/ error = 2 /\ why = "open"
    \/ error = 3 /\ why = "allocate"
    \/ error = 4 /\ why = "read"
    \/ error = 5 /\ why = "input"
    \/ error \in Nat /\ error > 11

ASSUME FilesAssumption == Libraries \cup Commands \subseteq Seq(SourceFiles)
ASSUME ReasonsAssumption ==
    \A fs \in Libraries \cup Commands : \A k \in DOMAIN fs :
        fs[k].error # 0 => Reason(fs[k].error, fs[k].why)
ASSUME TypeErrorsAssumption == TypeErrors \subseteq Nat
ASSUME StatusesAssumption == Statuses \in Nat /\ Statuses > 2     \* main returns 0, -1, -2

VARIABLES
    stdlib,     \* the standard library
    args,       \* the command line
    phase,      \* where main is
    files,      \* fm->files
    mods,       \* mm->mods: the modules
    mod_paths,  \* mm->mod_paths: index and 1 by path, 0 where there is none
    total,      \* num_total_errs
    reported,   \* why the reader stopped, and what text is printed for that
    status      \* the exit status, in phase "exited"

parsing == vars
driving == <<stdlib, args, phase, files, mods, mod_paths, total, reported, status>>
all == <<parsing, driving>>

Idle == [NULL EXCEPT !.kind = "idle"]
Exited == phase \in {"exited", "aborted"}
Exit(n) == phase' = "exited" /\ status' = n % Statuses

-----------------------------------------------------------------------------
(* The texts of errors, in the order of their ErrorCodes from 1; an errno  *)
(* is looked up like a code.  The last code let through has no text.       *)
error_texts == <<"empty", "open", "allocate", "read", "eof", "expected", "symbol", "literal",
                 "statement", "type", "unwritten">>
NoText == "(null)"

(* Mutant: the texts are taken to begin at 0. *)
Shifted_error_err2str(code) == IF code \in DOMAIN error_texts THEN error_texts[code - 1] ELSE NoText

error_err2str(code) == IF code \in DOMAIN error_texts THEN error_texts[code] ELSE NoText

main_no_input ==
    /\ phase = "start" /\ args = <<>>
    /\ Exit(-1)
    /\ UNCHANGED <<parsing, stdlib, args, files, mods, mod_paths, total, reported>>

(* The path of the compiler itself may have no canonical form. *)
main_begin ==
    /\ phase = "start" /\ args # <<>>
    /\ \/ phase' = "stdlib" /\ UNCHANGED status
       \/ Exit(-1)
    /\ UNCHANGED <<parsing, stdlib, args, files, mods, mod_paths, total, reported>>

(* A file is read, or the program ends before anything is parsed. *)
reader_add_file(f) ==
    IF f.error = 0
    THEN files' = Append(files, f) /\ UNCHANGED <<phase, reported, status>>
    ELSE Exit(-2) /\ reported' = <<f.why, error_err2str(f.error)>> /\ UNCHANGED files

(* A file of the library goes by its bare name, which is under no directory. *)
reader_add_std_lib ==
    /\ phase = "stdlib" /\ Len(files) < Len(stdlib)
    /\ reader_add_file([stdlib[Len(files) + 1] EXCEPT !.under = FALSE])
    /\ UNCHANGED <<parsing, stdlib, args, mods, mod_paths, total>>

std_lib_added ==
    /\ phase = "stdlib" /\ Len(files) = Len(stdlib)
    /\ phase' = "files"
    /\ UNCHANGED <<parsing, stdlib, args, files, mods, mod_paths, total, reported, status>>

unread == Len(stdlib) + Len(args) - Len(files)

reader_add_all ==
    /\ phase = "files" /\ unread > 0
    /\ reader_add_file(args[Len(args) - unread + 1])
    /\ UNCHANGED <<parsing, stdlib, args, mods, mod_paths, total>>

all_added ==
    /\ phase = "files" /\ unread = 0
    /\ phase' = "parse"
    /\ UNCHANGED <<parsing, stdlib, args, files, mods, mod_paths, total, reported, status>>

-----------------------------------------------------------------------------
parser_create ==
    /\ phase = "parse" /\ ret = Idle /\ Len(mods) < Len(files)
    /\ toks' = files[Len(mods) + 1].text
    /\ pos' = 0 /\ errors' = 0
    /\ stack' = <<Frame("parse")>> /\ ret' = Entered
    /\ mod' = <<>> /\ live' = {} /\ bails' = {}
    /\ UNCHANGED <<faults, driving>>

Parses ==
    /\ phase = "parse"
    /\ Statement \/ Expr_
    /\ UNCHANGED driving

(* Mutant: the index itself is stored, and the first looks like none. *)
Bare_mod_add_mod(m) ==
    /\ mods' = Append(mods, m)
    /\ mod_paths' = [mod_paths EXCEPT ![m.path] = Len(mods)]

mod_add_mod(m) ==
    /\ mods' = Append(mods, m)
    /\ mod_paths' = [mod_paths EXCEPT ![m.path] = Len(mods) + 1]

mod_get_mod_idx(path) == mod_paths[path] - 1

(* Printing an error of one of the files fs leaves out the directory of    *)
(* the compiler at the start of the file's name, whether it is there or    *)
(* not (synthium.c:225): what that may do wrong.                           *)
Cuts(fs) == {{}} \cup {{"cut"} : f \in {f \in fs : ~f.under}}

(* What is printed of a module goes wrong in two ways.  The fields of the  *)
(* first struct are written after a string literal, which is freed         *)
(* (record.c:57-80); those of the first statement, if that is a struct,    *)
(* too.  The arguments of a call and the fields of an initialiser, in the  *)
(* expression of the first statement or of the let it is, are written      *)
(* after NULL, whose length is taken (ast.c:751-781, 847-890).             *)
HasList(s) == s.kind \in {"expr_stmt", "let"} /\ \E n \in s.nodes : n.kind \in {"call", "init"}
debug_info(stmts) ==
    (IF \E i \in DOMAIN stmts : stmts[i].kind = "struct" THEN {"literal"} ELSE {})
        \cup (IF stmts # <<>> /\ HasList(stmts[1]) THEN {"null"} ELSE {})

(* Mutant: the number of errors of the last file counts. *)
Last_file_parsed ==
    /\ phase = "parse" /\ ret = Returned
    /\ total' = errors
    /\ \E f \in Cuts(IF errors > 0 THEN {files[Len(mods) + 1]} ELSE {}) :
           faults' = faults \cup f \cup debug_info(mod)
    /\ mod_add_mod([path |-> files[Len(mods) + 1].path, stmts |-> mod, heap |-> live,
                    errors |-> errors, given_up |-> bails])
    /\ ret' = Idle
    /\ UNCHANGED <<toks, pos, errors, stack, mod, live, bails, stdlib, args, phase, files,
                   reported, status>>


(* Mutant: what the parser allocated is freed with it. *)
Freed_file_parsed ==
    /\ phase = "parse" /\ ret = Returned
    /\ total' = total + errors
    /\ \E f \in Cuts(IF errors > 0 THEN {files[Len(mods) + 1]} ELSE {}) :
           faults' = faults \cup f \cup debug_info(mod)
    /\ mod_add_mod([path |-> files[Len(mods) + 1].path, stmts |-> mod, heap |-> {},
                    errors |-> errors, given_up |-> bails])
    /\ ret' = Idle
    /\ UNCHANGED <<toks, pos, errors, stack, mod, live, bails, stdlib, args, phase, files,
                   reported, status>>

(* The rest of main's loop over the files, after parser_parse. *)
file_parsed ==
    /\ phase = "parse" /\ ret = Returned
    /\ total' = total + errors
    /\ \E f \in Cuts(IF errors > 0 THEN {files[Len(mods) + 1]} ELSE {}) :
           faults' = faults \cup f \cup debug_info(mod)
    /\ mod_add_mod([path |-> files[Len(mods) + 1].path, stmts |-> mod, heap |-> live,
                    errors |-> errors, given_up |-> bails])
    /\ ret' = Idle
    /\ UNCHANGED <<toks, pos, errors, stack, mod, live, bails, stdlib, args, phase, files,
                   reported, status>>

typecheck_check ==
    /\ phase = "parse" /\ ret = Idle /\ Len(mods) = Len(files)
    /\ phase' = "free"
    /\ \E n \in TypeErrors :
           /\ total' = total + n
           /\ \E f \in Cuts(IF n > 0 THEN {files[k] : k \in DOMAIN files} ELSE {}) :
                  faults' = faults \cup f
    /\ UNCHANGED <<toks, pos, errors, stack, ret, mod, live, bails,
                   stdlib, args, files, mods, mod_paths, reported, status>>

(* The temporary types are freed one by one and again as elements of their *)
(* list; i32 is always one of them.                                        *)
typecheck_free_tc ==
    /\ phase = "free"
    /\ phase' = "free modules"
    /\ faults' = faults \cup {"double"}
    /\ UNCHANGED <<toks, pos, errors, stack, ret, mod, live, bails,
                   stdlib, args, files, mods, mod_paths, total, reported, status>>

(* So are the statements of each module, and the modules.                  *)
mod_free_map ==
    /\ phase = "free modules"
    /\ phase' = "return"
    /\ \E f \in [DOMAIN mods -> SUBSET {"double", "wild"}] :
           /\ \A k \in DOMAIN mods :
                  f[k] \in Faults({mods[k].stmts[i] : i \in DOMAIN mods[k].stmts}, mods[k].heap)
           /\ faults' = faults \cup {"double"} \cup UNION {f[k] : k \in DOMAIN mods}
    /\ mods' = [k \in DOMAIN mods |-> [mods[k] EXCEPT !.heap = {}]]
    /\ UNCHANGED <<toks, pos, errors, stack, ret, mod, live, bails,
                   stdlib, args, files, mod_paths, total, reported, status>>

main_returns ==
    /\ phase = "return"
    /\ Exit(total % Statuses)
    /\ UNCHANGED <<parsing, stdlib, args, files, mods, mod_paths, total, reported>>

(* After a fault the program may end. *)
main_aborts ==
    /\ ~Exited /\ faults # {}
    /\ phase' = "aborted"
    /\ UNCHANGED <<parsing, stdlib, args, files, mods, mod_paths, total, reported, status>>

-----------------------------------------------------------------------------
Paths == UNION {{c[k].path : k \in DOMAIN c} : c \in Libraries \cup Commands}

DriverInit ==
    /\ toks = <<>> /\ pos = 0 /\ errors = 0
    /\ stack = <<>> /\ ret = Idle
    /\ mod = <<>> /\ live = {} /\ faults = {} /\ bails = {}
    /\ stdlib \in Libraries /\ args \in Commands
    /\ phase = "start"
    /\ files = <<>> /\ mods = <<>> /\ mod_paths = [p \in Paths |-> 0]
    /\ total = 0 /\ reported = <<>> /\ status = 0

DriverNext ==
    \/ main_no_input \/ main_begin
    \/ reader_add_std_lib \/ std_lib_added \/ reader_add_all \/ all_added
    \/ parser_create \/ Parses \/ file_parsed
    \/ typecheck_check \/ typecheck_free_tc \/ mod_free_map \/ main_returns \/ main_aborts
    \/ Exited /\ UNCHANGED all

DriverSpec == DriverInit /\ [][DriverNext]_all

-----------------------------------------------------------------------------
(* An exit status of zero, unless it stands for as many errors as there    *)
(* are statuses, says that every file named was read and parsed, and that  *)
(* every token of it is in a statement the type checker saw, or in a list  *)
(* that was given up (synthium.c:32-114, reader.c:43-132).                 *)
Success ==
    phase = "exited" /\ status = 0 /\ total < Statuses =>
        /\ Len(mods) = Len(stdlib) + Len(args)
        /\ \A k \in DOMAIN mods :
               LET m == mods[k]
               IN  UNION {m.stmts[i].reads : i \in DOMAIN m.stmts}
                       = (1 .. Len(files[k].text)) \ UNION {b[1] + 1 .. b[2] : b \in m.given_up}

(* Files without parse errors and without lists that were given up do not  *)
(* disturb each other or the checker: until main frees its data, nothing   *)
(* of a tree has been freed or taken for something else, and the nodes of  *)
(* every module are those that were allocated for it (synthium.c:69-113).  *)
(* What else goes wrong in such files is to be seen in them: a struct is   *)
(* read, a module with a struct is printed, or one whose first statement   *)
(* has a call or an initialiser in it (parser.c:510, record.c:57-80,       *)
(* ast.c:751-781, 847-890).  Inside a statement that is going to fail      *)
(* without an error so far, something may have been freed twice: the       *)
(* callee of 1(), by the constructor of the call and by the loop it        *)
(* returns NULL to (ast.c:365, parser.c:701).                              *)
Undisturbed ==
    phase \in {"start", "stdlib", "files", "parse", "free"} /\ BetweenStatements
            /\ errors = 0 /\ bails = {}
            /\ (\A k \in DOMAIN mods : mods[k].errors = 0 /\ mods[k].given_up = {}) =>
        /\ faults \cap {"double", "wild"} = {}
        /\ \A k \in DOMAIN mods :
               mods[k].heap = UNION {mods[k].stmts[i].nodes : i \in DOMAIN mods[k].stmts}
        /\ "overrun" \in faults =>
               \E k \in DOMAIN files : k <= Len(mods) + 1 /\ HasStruct(files[k].text)
        /\ "literal" \in faults =>
               \E k \in DOMAIN mods : \E i \in DOMAIN mods[k].stmts : mods[k].stmts[i].kind = "struct"
        /\ "null" \in faults =>
               \E k \in DOMAIN mods : mods[k].stmts # <<>> /\ HasList(mods[k].stmts[1])

(* The errors of the files parsed so far.                                  *)
parse_errors == MapThenSumSet(LAMBDA k : mods[k].errors, DOMAIN mods)


(* A path that is looked up leads to the module of that path, to the last  *)
(* one where a file was named twice; and none that is not parsed yet is    *)
(* found (mod.c:113-136).                                                  *)
Lookup ==
    \A p \in Paths :
        LET found == {k \in DOMAIN mods : mods[k].path = p}
        IN  IF found = {} THEN mod_get_mod_idx(p) < 0
            ELSE mod_get_mod_idx(p) + 1 \in found /\ \A k \in found : k <= mod_get_mod_idx(p) + 1

(* When a file cannot be read the text printed says why, or there is none: *)
(* the errno of a missing file is the code of a file that cannot be        *)
(* opened, and those of other reasons have no text.  Only an input error   *)
(* on the directories of a path, errno 5, would be called something else   *)
(* (reader.c:111-132, error.c:20-34).                                      *)
Explained == reported # <<>> /\ reported[1] # "input" => reported[2] \in {NoText, reported[1]}
=============================================================================
