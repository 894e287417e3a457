------------------------------- MODULE Ptrvec -------------------------------
(***************************************************************************)
(* The growing array of pointers of src/ptrvec.c.  Its capacity counts     *)
(* elements when memory is allocated, but is compared with, and set to, a  *)
(* number of bytes.                                                        *)
(***************************************************************************)
EXTENDS Integers, Sequences

CONSTANTS
    Elems,      \* the pointers stored
    NULL,
    junk,       \* what memory holds that was not written
    Caps,       \* the capacities the array is created with; 0 by ptrvec_create
    Others,     \* the arrays that are appended
    MaxLen      \* bounds the length a run reaches

POINTER_SIZE == 8

VARIABLES len, cap,
          elements, \* 0 .. cap - 1 -> pointers
          call      \* the last operation, with its arguments and its result

vars == <<len, cap, elements, call>>

(* With capacity 0 nothing is allocated: the callers of ptrvec_with_cap    *)
(* give it the number of files, of which there is at least one, or 256.    *)
Init == /\ cap \in Caps
        /\ len = 0
        /\ elements = [i \in 0 .. cap - 1 |-> IF cap = 0 THEN junk ELSE NULL]
        /\ call = <<"create">>

(* The capacity after room was asked for. *)
ptrvec_resize_s(size) == IF size * POINTER_SIZE <= cap THEN cap ELSE size * POINTER_SIZE

ptrvec_resize == ptrvec_resize_s(IF cap = 0 THEN 2 ELSE cap * 2)

Moved(c) == [i \in 0 .. c - 1 |-> IF i < cap THEN elements[i] ELSE junk]

Full == len + 1 > cap

ptrvec_push_ptr(e) ==
    LET c == IF Full THEN ptrvec_resize ELSE cap
    IN  /\ len < MaxLen
        /\ cap' = c
        /\ elements' = [Moved(c) EXCEPT ![len] = e]
        /\ len' = len + 1
        /\ call' = <<"push", e>>

ptrvec_is_empty == len <= 0

(* Mutant: the last element is returned in place of the first. *)
Last_ptrvec_pop ==
    /\ IF ptrvec_is_empty
       THEN call' = <<"pop", NULL>> /\ UNCHANGED <<len, elements>>
       ELSE /\ call' = <<"pop", elements[len - 1]>>
            /\ len' = len - 1
            /\ UNCHANGED elements
    /\ UNCHANGED cap

ptrvec_pop ==
    /\ IF ptrvec_is_empty
       THEN call' = <<"pop", NULL>> /\ UNCHANGED <<len, elements>>
       ELSE /\ call' = <<"pop", elements[0]>>
            /\ len' = len - 1
            /\ elements' = [i \in DOMAIN elements |->
                                IF i < len - 1 THEN elements[i + 1] ELSE elements[i]]
    /\ UNCHANGED cap

ptrvec_append(other) ==
    /\ len + Len(other) <= MaxLen
    /\ call' = <<"append", other>>
    /\ IF ptrvec_is_empty
       THEN UNCHANGED <<len, cap, elements>>
       ELSE LET c == ptrvec_resize_s(len + Len(other))
            IN  /\ cap' = c
                /\ elements' = [i \in 0 .. c - 1 |->
                       IF i \in len .. len + Len(other) - 1 THEN other[i - len + 1] ELSE Moved(c)[i]]
                /\ len' = len + Len(other)

ptrvec_get(i) == /\ call' = <<"get", i, IF i < len THEN elements[i] ELSE NULL>>
                 /\ UNCHANGED <<len, cap, elements>>

ptrvec_set(i, e) ==
    /\ elements' = IF i < len THEN [elements EXCEPT ![i] = e] ELSE elements
    /\ call' = <<"set", i, e>>
    /\ UNCHANGED <<len, cap>>

Next == \/ \E e \in Elems : ptrvec_push_ptr(e)
        \/ ptrvec_pop
        \/ \E other \in Others : ptrvec_append(other)
        \/ \E i \in 0 .. len : ptrvec_get(i) \/ \E e \in Elems : ptrvec_set(i, e)

Spec == Init /\ [][Next]_vars

-----------------------------------------------------------------------------
(* The length never exceeds the memory, whatever the capacity counts, and  *)
(* every element in use was written (ptrvec.c:27-87).                      *)
TypeOK == /\ cap \in Nat /\ len \in 0 .. cap
          /\ DOMAIN elements = 0 .. cap - 1
          /\ \A i \in 0 .. len - 1 : elements[i] \in Elems
=============================================================================
