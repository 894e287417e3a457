------------------------------- MODULE MCMap -------------------------------
(* A small table: keys that collide for every capacity, for some, or never. *)
EXTENDS Map, Bitwise, TLC

CONSTANTS io, Foo, ok, a, v1

MCKeys == {io, Foo, ok, a}
MCValues == {v1, NULL}

(* The files of a compilation (6, an even size that is no power of two) and *)
(* the fields of a struct (1 and 3, which are rounded up).                  *)
MCCaps == {1, 3, 6}

(* What map_hash (map.c:5-13) gives the four names, modulo DEFAULT_CAP.     *)
Hash == (io :> 6) @@ (Foo :> 6) @@ (ok :> 12) @@ (a :> 1)
SlotTable == [c \in {2, 4, 6, 16} |-> [k \in MCKeys |-> Hash[k] & (c - 1)]]
MCSlot(c, k) == SlotTable[c][k]
=============================================================================
