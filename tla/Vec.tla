-------------------------------- MODULE Vec --------------------------------
(***************************************************************************)
(* The growing array of src/vec.c, which holds its elements by value: the  *)
(* memory it has, of which the first len cells are in use.                 *)
(***************************************************************************)
EXTENDS Integers, Sequences

CONSTANTS
    Elems, Zero, none,
    junk,       \* what memory holds that was not written
    Caps,       \* the capacities the array is created with; 0 by vec_create
    MaxLen      \* bounds the length a run reaches

VARIABLES len, cap,
          cells,    \* 0 .. cap - 1 -> elements
          call      \* the last operation, with its arguments and its result

vars == <<len, cap, cells, call>>

(* With capacity 0 nothing is allocated: the callers of vec_with_cap give  *)
(* it the number of modules, of which there is at least one.               *)
Init == /\ cap \in Caps
        /\ len = 0
        /\ cells = [i \in 0 .. cap - 1 |-> junk]
        /\ call = <<"create">>

vec_resize(c) == IF c = 0 THEN 2 ELSE c * 2

Resized(c) == [i \in 0 .. c - 1 |-> IF i < cap THEN cells[i] ELSE junk]

(* Mutant: the array grows when it is overfull. *)
Late_Full == len > cap

Full == len + 1 > cap

vec_push(e) ==
    LET c == IF Full THEN vec_resize(cap) ELSE cap
    IN  /\ len < MaxLen
        /\ cap' = c
        /\ cells' = [Resized(c) EXCEPT ![len] = e]
        /\ len' = len + 1
        /\ call' = <<"push", e>>

(* Only of an array with memory. *)
vec_init_zero ==
    /\ cap <= MaxLen /\ cap > 0
    /\ len' = cap
    /\ cells' = [i \in 0 .. cap - 1 |-> Zero]
    /\ call' = <<"zero">>
    /\ UNCHANGED cap

vec_get(i) == /\ call' = <<"get", i, IF i < len THEN cells[i] ELSE none>>
              /\ UNCHANGED <<len, cap, cells>>

(* A write through the pointer vec_get_ptr returns. *)
vec_get_ptr(i, e) == /\ cells' = IF i < len THEN [cells EXCEPT ![i] = e] ELSE cells
                     /\ call' = <<"set", i, e>>
                     /\ UNCHANGED <<len, cap>>

Next == \/ \E e \in Elems : vec_push(e)
        \/ vec_init_zero
        \/ \E i \in 0 .. len : vec_get(i) \/ \E e \in Elems : vec_get_ptr(i, e)

Spec == Init /\ [][Next]_vars

-----------------------------------------------------------------------------
(* The length never exceeds the memory, and every element in use was       *)
(* written: growing loses none (vec.c:25-35, 54-62).                       *)
TypeOK == /\ cap \in Nat /\ len \in 0 .. cap
          /\ DOMAIN cells = 0 .. cap - 1
          /\ \A i \in 0 .. len - 1 : cells[i] \in Elems
=============================================================================
