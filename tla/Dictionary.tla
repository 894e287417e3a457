----------------------------- MODULE Dictionary -----------------------------
(***************************************************************************)
(* What every user of src/map.c relies on: a partial function from keys to *)
(* values.  The importer (mod.c), the scopes (scope.c), the import aliases *)
(* and the waiting requests (typecheck.c) only ever insert and look up, so *)
(* these are the only two operations.                                      *)
(***************************************************************************)
CONSTANTS Keys,     \* what may be bound
          Values,   \* what it may be bound to (NULL may be one of them)
          NULL      \* the answer of a lookup that finds nothing

VARIABLES dict,     \* the bindings: a function on the bound keys
          call,     \* the last operation and its arguments
          ret       \* what it returned

vars == <<dict, call, ret>>

TypeOK == \E bound \in SUBSET Keys : dict \in [bound -> Values]

Init == /\ dict = [k \in {} |-> NULL]
        /\ call = <<"create">> /\ ret = NULL

(* Binds k to v and tells whether k was bound before. *)
Insert(k, v) ==
    /\ dict' = [x \in DOMAIN dict \cup {k} |-> IF x = k THEN v ELSE dict[x]]
    /\ call' = <<"insert", k, v>>
    /\ ret' = (k \in DOMAIN dict)

(* Answers the value k is bound to, NULL when there is none. *)
Get(k) ==
    /\ call' = <<"get", k>>
    /\ ret' = IF k \in DOMAIN dict THEN dict[k] ELSE NULL
    /\ UNCHANGED dict

Next == \/ \E k \in Keys, v \in Values : Insert(k, v)
        \/ \E k \in Keys : Get(k)

Spec == Init /\ [][Next]_vars
=============================================================================
