------------------------------- MODULE Arrays -------------------------------
(***************************************************************************)
(* An array of either kind, vec.c or ptrvec.c, and what both promise.      *)
(***************************************************************************)
EXTENDS Integers, Sequences

CONSTANTS
    Elems, Zero, none,
    junk,       \* what memory holds that was not written
    Caps,       \* the capacities arrays are created with; 0 by vec_create and ptrvec_create
    Others,     \* the arrays that are appended
    MaxLen      \* bounds the length a run reaches

ASSUME CapsAssumption == Caps \subseteq Nat
ASSUME ElemsAssumption == Zero \in Elems
ASSUME OthersAssumption == Others \subseteq Seq(Elems)

VARIABLES
    kind,       \* "vec" or "ptrvec"
    len, cap, cells,
    call        \* the last operation, with its arguments and its result

vars == <<kind, len, cap, cells, call>>

V == INSTANCE Vec
P == INSTANCE Ptrvec WITH elements <- cells, NULL <- none

Init == (kind = "vec" /\ V!Init) \/ (kind = "ptrvec" /\ P!Init)

Next == /\ (kind = "vec" /\ V!Next) \/ (kind = "ptrvec" /\ P!Next)
        /\ UNCHANGED kind

Spec == Init /\ [][Next]_vars

-----------------------------------------------------------------------------
(* The length never exceeds the memory, whatever the capacity counts, and  *)
(* every element in use was written (vec.c:25-62, ptrvec.c:27-87).         *)
WithinMemory == IF kind = "vec" THEN V!TypeOK ELSE P!TypeOK

(* The array is the list of its first len elements, through every growth,  *)
(* removal and concatenation: they keep their order and their values       *)
(* (vec.c:25-62, ptrvec.c:27-80).                                          *)
Abstract == INSTANCE List WITH list <- [i \in 1 .. len |-> cells[i - 1]]
ImplementsList == Abstract!Spec
=============================================================================
