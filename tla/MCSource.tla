------------------------------ MODULE MCSource ------------------------------
(* All texts of up to seven characters, from every offset. *)
EXTENDS Source

MCNewLine == "\n"
MCChars == {MCNewLine, "x"}
MCCodes == UNION {[1 .. n -> MCChars] : n \in 0 .. 7}
=============================================================================
