------------------------------- MODULE Source -------------------------------
(***************************************************************************)
(* source_find_line of src/source.c: the line of an offset in a text, and  *)
(* the offset from which its column is counted, found by walking back from *)
(* the offset to the beginning.                                            *)
(***************************************************************************)
EXTENDS Integers, Sequences, FiniteSets

CONSTANTS
    Chars,      \* the characters
    Codes,      \* the texts, sequences of them
    NewLine     \* one of them

ASSUME CodesAssumption == Codes \subseteq Seq(Chars)

VARIABLES
    code,       \* file->code
    start,      \* span->start
    ptr,        \* ptr - file->code
    lines,
    last_nl

vars == <<code, start, ptr, lines, last_nl>>

(* Offsets begin at 0; the byte that ends the text is no new line.         *)
BreaksAt(k) == k + 1 \in DOMAIN code /\ code[k + 1] = NewLine

Init ==
    /\ code \in Codes
    /\ start \in {0} \cup DOMAIN code
    /\ ptr = start /\ lines = 1 /\ last_nl = start

(* Mutant: the walk ends one character too early. *)
Early_walking == ptr > 1

(* Mutant: and here one too late. *)
Late_walking == ptr >= 0

walking == ptr # 0

source_find_line ==
    /\ walking
    /\ lines' = IF BreaksAt(ptr) THEN lines + 1 ELSE lines
    /\ last_nl' = IF BreaksAt(ptr) /\ last_nl = start THEN ptr ELSE last_nl
    /\ ptr' = ptr - 1
    /\ UNCHANGED <<code, start>>

Found == ~walking /\ UNCHANGED vars

Next == source_find_line \/ Found

Spec == Init /\ [][Next]_vars

-----------------------------------------------------------------------------
Breaks(S) == {k \in S : BreaksAt(k)}

TypeOK ==
    /\ code \in Codes
    /\ start \in {0} \cup DOMAIN code
    /\ ptr \in 0 .. start
    /\ lines \in 1 .. start + 1
    /\ last_nl \in 0 .. start

One(condition) == IF condition THEN 1 ELSE 0

(* The line printed is one more than the line breaks before the offset,    *)
(* plus one where the offset is a line break itself, minus one where the   *)
(* text begins with a line break, to which the walk stops before it looks. *)
(* The column is counted from the last line break before the offset, but   *)
(* the first character is none; where there is no other, from the offset   *)
(* itself: in the first line every column printed is 0 (source.c:38-63,    *)
(* synthium.c:225).                                                        *)
Position ==
    ~walking =>
        LET before == Breaks(0 .. start - 1)
            seen == before \ {0}
        IN  /\ lines = 1 + Cardinality(before)
                         + One(start # 0 /\ BreaksAt(start)) - One(start # 0 /\ BreaksAt(0))
            /\ IF seen = {} THEN last_nl = start
                            ELSE last_nl \in seen /\ \A k \in seen : k <= last_nl
=============================================================================
