-------------------------------- MODULE Span --------------------------------
(***************************************************************************)
(* The spans of src/span.c: a stretch of source text packed in 64 bits,    *)
(* with 16 bits for its length and 16 for its file.  A stretch that does   *)
(* not fit is interned: kept in a table, the span holding its index.       *)
(*                                                                         *)
(* `made` remembers each span next to the stretch it was made for, which   *)
(* the program does not: it is there to say what span_get should return.   *)
(***************************************************************************)
EXTENDS Integers, Sequences

CONSTANTS
    Positions,  \* byte offsets in a file
    Ctxs,       \* file numbers
    MaxMade     \* bounds the spans a run makes

U16 == 65536
TAG_INTERNED == 32768
MAX_LEN == 32767
MAX_CTX == 65535

ASSUME PositionsAssumption == Positions \subseteq Nat
ASSUME CtxsAssumption == Ctxs \subseteq 0 .. U16 - 1

VARIABLES spans,    \* the interner's table
          made      \* the spans made, each with the stretch it is for

vars == <<spans, made>>

BigSpan == [start : Nat, len : 0 .. U16 - 1, ctx : 0 .. U16 - 1]
Packed == [start : Nat, len_or_tag : 0 .. U16 - 1, ctx_or_idx : 0 .. U16 - 1]

(* A stretch of text, and whether a span can be expected to stand for it:  *)
(* one of 2^16 bytes or more cannot, nor can what is derived from it.      *)
Stretch == [start : Nat, end : Nat, ctx : 0 .. U16 - 1, exact : BOOLEAN]

-----------------------------------------------------------------------------
span_empty == [start |-> 0, len_or_tag |-> 0, ctx_or_idx |-> 0]

span_is_interned(s) == s.len_or_tag = TAG_INTERNED

(* An index that is out of the table leaves the zeros it was given. *)
span_get(s) ==
    IF ~span_is_interned(s)
    THEN [start |-> s.start, len |-> s.len_or_tag, ctx |-> s.ctx_or_idx]
    ELSE IF s.ctx_or_idx < Len(spans) THEN spans[s.ctx_or_idx + 1]
    ELSE [start |-> 0, len |-> 0, ctx |-> 0]

(* Mutant: a length of 2^15 is stored in the span, where it is the tag. *)
Tagged_fits(len, ctx) == len <= TAG_INTERNED /\ ctx < MAX_CTX

fits(len, ctx) == len < MAX_LEN /\ ctx < MAX_CTX

Min2(m, n) == IF m <= n THEN m ELSE n

Max2(m, n) == IF m <= n THEN n ELSE m

(* span_create, which takes the ends in any order, for the stretch `of`.   *)
span_create(a, b, ctx, of) ==
    LET start == Min2(a, b)
        len == Max2(a, b) - start
        big == [start |-> start, len |-> len % U16, ctx |-> ctx]
        direct == [start |-> start, len_or_tag |-> len, ctx_or_idx |-> ctx]
        interned == [start |-> start, len_or_tag |-> TAG_INTERNED,
                     ctx_or_idx |-> Len(spans) % U16]
    IN  IF fits(len, ctx)
        THEN made' = Append(made, [span |-> direct, of |-> of]) /\ UNCHANGED spans
        ELSE made' = Append(made, [span |-> interned, of |-> of]) /\ spans' = Append(spans, big)

Init == spans = <<>> /\ made = <<>>

Create(a, b, ctx) ==
    /\ Len(made) < MaxMade
    /\ span_create(a, b, ctx, [start |-> Min2(a, b), end |-> Max2(a, b), ctx |-> ctx,
                               exact |-> Max2(a, b) - Min2(a, b) < U16])

(* The merge of the spans of two files is empty.  That of one file goes    *)
(* from the start of the first to the end of the second.                   *)
MergeApart(x, y) ==
    /\ Len(made) < MaxMade
    /\ span_get(x.span).ctx # span_get(y.span).ctx
    /\ made' = Append(made, [span |-> span_empty,
                             of |-> [start |-> 0, end |-> 0, ctx |-> 0,
                                     exact |-> x.of.exact /\ y.of.exact]])
    /\ UNCHANGED spans

Merge(x, y) ==
    LET one == span_get(x.span)
        two == span_get(y.span)
        start == Min2(x.of.start, y.of.end)
        end == Max2(x.of.start, y.of.end)
    IN  /\ Len(made) < MaxMade
        /\ one.ctx = two.ctx
        /\ span_create(one.start, two.start + two.len, one.ctx,
                       [start |-> start, end |-> end, ctx |-> x.of.ctx,
                        exact |-> x.of.exact /\ y.of.exact /\ end - start < U16])

(* Mutant: there need be no byte before the expression. *)
AtStart_Parenthesize(x) ==
    /\ Len(made) < MaxMade
    /\ made' = Append(made,
           [span |-> [x.span EXCEPT !.start = @ - 1, !.len_or_tag = (@ + 1) % U16],
            of |-> [x.of EXCEPT !.start = @ - 1, !.exact = @ /\ x.span.len_or_tag < MAX_LEN]])
    /\ UNCHANGED spans

(* parser_prefix widens the span of an expression in parentheses by the    *)
(* opening one, in the two fields, whether or not the span is interned.    *)
(* Exact for the lengths that stay below the tag.                          *)
Parenthesize(x) ==
    /\ Len(made) < MaxMade
    /\ x.span.start > 0 /\ x.of.start > 0
    /\ made' = Append(made,
           [span |-> [x.span EXCEPT !.start = @ - 1, !.len_or_tag = (@ + 1) % U16],
            of |-> [x.of EXCEPT !.start = @ - 1, !.exact = @ /\ x.span.len_or_tag < MAX_LEN]])
    /\ UNCHANGED spans

Next == \/ \E a, b \in Positions, ctx \in Ctxs : Create(a, b, ctx)
        \/ \E i, j \in DOMAIN made : MergeApart(made[i], made[j]) \/ Merge(made[i], made[j])
        \/ \E i \in DOMAIN made : Parenthesize(made[i])

Spec == Init /\ [][Next]_vars

-----------------------------------------------------------------------------
TypeOK == /\ spans \in Seq(BigSpan)
          /\ made \in Seq([span : Packed, of : Stretch])

(* As long as the table has no more entries than 16 bits can number, a     *)
(* span stands for the very stretch it was made for, however it was made   *)
(* and whatever was interned since (span.c:24-66, 87-111).                  *)
Exact == Len(spans) <= U16 =>
    \A i \in DOMAIN made : LET of == made[i].of
                           IN  of.exact => span_get(made[i].span) =
                                   [start |-> of.start, len |-> of.end - of.start, ctx |-> of.ctx]
=============================================================================
