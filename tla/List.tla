-------------------------------- MODULE List --------------------------------
(***************************************************************************)
(* What the growing arrays of the compiler promise: a list, read and       *)
(* written by position from 0.                                             *)
(***************************************************************************)
EXTENDS Sequences, Integers

CONSTANTS Elems, Zero, none,
          Others    \* the lists that are added to this one

VARIABLES list,     \* the elements
          call      \* the last operation, with its arguments and its result

vars == <<list, call>>

Init == list = <<>> /\ call = <<"create">>

Push(e) == list' = Append(list, e) /\ call' = <<"push", e>>

Get(i) == /\ call' = <<"get", i, IF i < Len(list) THEN list[i + 1] ELSE none>>
          /\ UNCHANGED list

Set(i, e) == /\ list' = IF i < Len(list) THEN [list EXCEPT ![i + 1] = e] ELSE list
             /\ call' = <<"set", i, e>>

(* Elements leave at the front. *)
Pop == IF list = <<>> THEN call' = <<"pop", none>> /\ UNCHANGED list
       ELSE call' = <<"pop", Head(list)>> /\ list' = Tail(list)

(* To an empty list nothing is added. *)
Extend(other) == /\ list' = IF list = <<>> THEN list ELSE list \o other
                 /\ call' = <<"append", other>>

Zeros == list' \in Seq({Zero}) /\ call' = <<"zero">>

Next == \/ \E e \in Elems : Push(e)
        \/ \E i \in 0 .. Len(list) : Get(i) \/ \E e \in Elems : Set(i, e)
        \/ Pop
        \/ \E other \in Others : Extend(other)
        \/ Zeros

Spec == Init /\ [][Next]_vars
=============================================================================
