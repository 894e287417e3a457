------------------------------ MODULE MCArrays ------------------------------
(* Arrays that begin empty, or with room for one to three elements, and      *)
(* grow to five: those of values twice or more, those of pointers once.      *)
EXTENDS Arrays

CONSTANTS a, b, zero

MCElems == {a, b, zero}
MCOthers == {<<>>, <<a>>, <<a, b, b>>}
=============================================================================
