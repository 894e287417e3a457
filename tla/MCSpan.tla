------------------------------- MODULE MCSpan -------------------------------
(***************************************************************************)
(* Offsets around the lengths where a span changes its form (2^15 - 1,     *)
(* 2^15, 2^16), in the first file and in the one that is always interned.  *)
(***************************************************************************)
EXTENDS Span

MCPositions == {0, 1, 32766, 32768, 65535, 65536}
MCCtxs == {0, 65535}
=============================================================================
