----------------------------- MODULE SpanProofs -----------------------------
(***************************************************************************)
(* For all offsets and files, and however many spans are made and merged:  *)
(* a span stands for the stretch it was made for.                          *)
(***************************************************************************)
EXTENDS Span, TLAPS

Decoded(of) == [start |-> of.start, len |-> of.end - of.start, ctx |-> of.ctx]
InTable(s) == span_is_interned(s) => s.ctx_or_idx < Len(spans)
Made == [span : Packed, of : Stretch]

(* What a span stands for can only stay the same if it is not beyond the   *)
(* end of the table: the next stretch would fill the gap.                  *)
Right(x) == x.of.exact => InTable(x.span) /\ span_get(x.span) = Decoded(x.of)

IInv == /\ TypeOK
        /\ Len(spans) <= U16 => \A i \in DOMAIN made : Right(made[i])

(* The widths, as far as the proofs need them. *)
LEMMA Widths == /\ U16 \in Nat /\ U16 > 0
                /\ TAG_INTERNED \in 0 .. U16 - 1
                /\ MAX_LEN \in 0 .. U16 - 1
                /\ 0 \in 0 .. U16 - 1
                /\ MAX_LEN < TAG_INTERNED
BY DEF U16, TAG_INTERNED, MAX_LEN

LEMMA IInvExact == IInv => Exact
BY DEF IInv, Exact, Right, Decoded

(* What span_get returns is a stretch of some file. *)
LEMMA GetType ==
    ASSUME TypeOK, NEW s \in Packed
    PROVE  /\ span_get(s).start \in Nat
           /\ span_get(s).len \in 0 .. U16 - 1
           /\ span_get(s).ctx \in 0 .. U16 - 1
<1>1. CASE ~span_is_interned(s)
  BY <1>1 DEF span_get, Packed
<1>2. CASE span_is_interned(s) /\ s.ctx_or_idx < Len(spans)
  <2>1. span_get(s) = spans[s.ctx_or_idx + 1]
    BY <1>2 DEF span_get
  <2>2. span_get(s) \in BigSpan
    BY <1>2, <2>1 DEF TypeOK, Packed
  <2> QED
    BY <2>2 DEF BigSpan
<1>3. CASE span_is_interned(s) /\ ~(s.ctx_or_idx < Len(spans))
  BY <1>3, Widths DEF span_get
<1> QED
  BY <1>1, <1>2, <1>3

(* Interning leaves what is in the table alone. *)
LEMMA RightStable ==
    ASSUME TypeOK, NEW x \in Made, Right(x), NEW big \in BigSpan,
           spans' = spans \/ spans' = Append(spans, big)
    PROVE  Right(x)'
<1>1. CASE spans' = spans
  BY <1>1 DEF Right, InTable, span_get
<1>2. CASE spans' = Append(spans, big)
  <2>1. Len(spans) \in Nat /\ Len(spans') = Len(spans) + 1 /\ \A k \in 1 .. Len(spans) : spans'[k] = spans[k]
    BY <1>2 DEF TypeOK
  <2>2. x.span \in Packed
    BY DEF Made
  <2>3. ASSUME InTable(x.span) PROVE InTable(x.span)' /\ span_get(x.span)' = span_get(x.span)
    <3>1. CASE span_is_interned(x.span)
      <4>1. /\ x.span.ctx_or_idx < Len(spans) /\ x.span.ctx_or_idx < Len(spans')
            /\ x.span.ctx_or_idx + 1 \in 1 .. Len(spans)
        BY <2>1, <2>2, <2>3, <3>1 DEF InTable, Packed
      <4> QED
        BY <2>1, <3>1, <4>1 DEF InTable, span_get
    <3>2. CASE ~span_is_interned(x.span)
      BY <3>2 DEF InTable, span_get
    <3> QED
      BY <3>1, <3>2
  <2> QED
    BY <2>3 DEF Right
<1> QED
  BY <1>1, <1>2

(* A span is added to those made: the others stay right. *)
LEMMA MadeStep ==
    ASSUME IInv, NEW x \in Made, made' = Append(made, x), NEW big \in BigSpan,
           spans' = spans \/ spans' = Append(spans, big),
           Len(spans') <= U16 => Right(x)'
    PROVE  IInv'
<1>0. made \in Seq(Made) /\ spans \in Seq(BigSpan)
  BY DEF IInv, TypeOK, Made
<1>1. TypeOK' /\ Len(spans) \in Nat /\ Len(spans) <= Len(spans')
  <2>1. made' \in Seq(Made)
    BY <1>0
  <2>2. spans' \in Seq(BigSpan) /\ Len(spans) \in Nat /\ Len(spans) <= Len(spans')
    <3>1. Len(spans) \in Nat
      BY <1>0
    <3>2. CASE spans' = spans
      BY <1>0, <3>1, <3>2
    <3>3. CASE spans' = Append(spans, big)
      <4>1. spans' \in Seq(BigSpan) /\ Len(spans') = Len(spans) + 1
        BY <1>0, <3>3
      <4> QED
        BY <3>1, <4>1
    <3> QED
      BY <3>1, <3>2, <3>3
  <2> QED
    BY <2>1, <2>2 DEF TypeOK, Made
<1>2. /\ Len(made') = Len(made) + 1 /\ DOMAIN made' = 1 .. Len(made')
      /\ \A i \in 1 .. Len(made) : made'[i] = made[i] /\ made[i] \in Made
      /\ made'[Len(made) + 1] = x
      /\ DOMAIN made = 1 .. Len(made) /\ Len(made) \in Nat
  BY <1>0
<1>3. ASSUME Len(spans') <= U16, NEW i \in 1 .. Len(made)
      PROVE  Right(made[i])'
  <2>1. Len(spans) <= U16
    BY <1>0, <1>1, <1>3, Widths
  <2>2. Right(made[i]) /\ made[i] \in Made
    BY <1>2, <2>1 DEF IInv
  <2>3. PICK y : y = made[i]
    OBVIOUS
  <2>4. Right(y)'
    BY <2>2, <2>3, RightStable DEF IInv
  <2>5. made'[i] = y
    BY <1>2, <2>3
  <2> QED
    BY <2>4, <2>5 DEF Right
<1>4. ASSUME Len(spans') <= U16, NEW i \in DOMAIN made'
      PROVE  Right(made[i])'
  <2>1. CASE i \in 1 .. Len(made)
    BY <1>3, <1>4, <2>1
  <2>2. CASE i = Len(made) + 1
    <3>1. made'[i] = x
      BY <1>2, <2>2
    <3>2. Right(x)'
      BY <1>4
    <3> QED
      BY <3>1, <3>2, Zenon DEF Right
  <2> QED
    BY <1>2, <2>1, <2>2
<1> QED
  BY <1>1, <1>4 DEF IInv

LEMMA Truncated ==
    ASSUME NEW n \in Nat
    PROVE  n % U16 \in 0 .. U16 - 1 /\ (n < U16 => n % U16 = n)
<1>1. ASSUME NEW w \in Nat, w > 0
      PROVE  n % w \in 0 .. w - 1 /\ (n < w => n % w = n)
  BY <1>1
<1> QED
  BY <1>1, Widths

(* What a step puts into `made` is right if its stretch is what the ends   *)
(* and the file that are packed say.                                       *)
LEMMA CreateStep ==
    ASSUME IInv, NEW a \in Nat, NEW b \in Nat, NEW ctx \in 0 .. U16 - 1, NEW of \in Stretch,
           span_create(a, b, ctx, of),
           of.exact /\ Len(spans) <= U16 =>
               /\ of.start = Min2(a, b) /\ of.end = Max2(a, b) /\ of.ctx = ctx
               /\ of.end - of.start < U16
    PROVE  IInv'
<1> DEFINE start == Min2(a, b)
           len == Max2(a, b) - start
           big == [start |-> start, len |-> len % U16, ctx |-> ctx]
           direct == [start |-> start, len_or_tag |-> len, ctx_or_idx |-> ctx]
<1>1. start \in Nat /\ len \in Nat
  BY DEF Min2, Max2
<1>2. spans \in Seq(BigSpan) /\ Len(spans) \in Nat
  BY DEF IInv, TypeOK
<1>3. len % U16 \in 0 .. U16 - 1 /\ (len < U16 => len % U16 = len)
  <2> HIDE DEF len
  <2> QED
    BY <1>1, Truncated
<1>4. Len(spans) % U16 \in 0 .. U16 - 1 /\ (Len(spans) < U16 => Len(spans) % U16 = Len(spans))
  BY <1>2, Truncated
<1>5. of.exact /\ Len(spans) <= U16 =>
          len < U16 /\ start = of.start /\ len = of.end - of.start /\ ctx = of.ctx
  BY <1>1
<1>6. PICK idx \in 0 .. U16 - 1 : idx = Len(spans) % U16
  BY <1>4
<1> DEFINE interned == [start |-> start, len_or_tag |-> TAG_INTERNED, ctx_or_idx |-> idx]
<1>7. IF fits(len, ctx)
      THEN made' = Append(made, [span |-> direct, of |-> of]) /\ spans' = spans
      ELSE made' = Append(made, [span |-> interned, of |-> of]) /\ spans' = Append(spans, big)
  BY <1>6 DEF span_create
<1> HIDE DEF start, len
<1>8. big \in BigSpan
  BY <1>1, <1>3 DEF BigSpan
<1>9. CASE fits(len, ctx)
  <2>1. direct \in Packed /\ ~span_is_interned(direct)
    <3>1. len \in 0 .. U16 - 1 /\ len # TAG_INTERNED
      BY <1>1, <1>9, Widths DEF fits
    <3> QED
      BY <1>1, <3>1 DEF Packed, span_is_interned
  <2> DEFINE x == [span |-> direct, of |-> of]
  <2>2. x \in Made
    BY <2>1 DEF Made
  <2>3. made' = Append(made, x) /\ spans' = spans
    BY <1>7, <1>9
  <2>4. Len(spans') <= U16 => Right(x)'
    BY <1>5, <2>1, <2>3 DEF Right, InTable, Decoded, span_get
  <2> HIDE DEF x, big
  <2> QED
    BY <1>8, <2>2, <2>3, <2>4, MadeStep
<1>10. CASE ~fits(len, ctx)
  <2>1. interned \in Packed
    <3>1. TAG_INTERNED \in 0 .. U16 - 1
      BY Widths
    <3> QED
      BY <1>1, <3>1 DEF Packed
  <2> DEFINE x == [span |-> interned, of |-> of]
  <2>2. x \in Made
    BY <2>1 DEF Made
  <2>3. made' = Append(made, x) /\ spans' = Append(spans, big)
    BY <1>7, <1>10
  <2>4. Len(spans') = Len(spans) + 1 /\ spans'[Len(spans) + 1] = big
    <3> HIDE DEF big
    <3> QED
      BY <1>2, <1>8, <2>3
  <2>5. ASSUME Len(spans') <= U16, of.exact
        PROVE  InTable(interned)' /\ span_get(interned)' = Decoded(of)
    <3>1. idx = Len(spans) /\ Len(spans) < Len(spans') /\ Len(spans) <= U16
      <4>1. Len(spans) < Len(spans') /\ Len(spans) < U16
        BY <1>2, <2>4, <2>5, Widths
      <4> QED
        BY <1>2, <1>4, <1>6, <4>1, Widths
    <3>2. span_get(interned)' = big
      BY <2>4, <3>1 DEF span_get, span_is_interned
    <3>3. big = Decoded(of)
      BY <1>3, <1>5, <2>5, <3>1 DEF Decoded
    <3>4. InTable(interned)'
      BY <3>1 DEF InTable
    <3> QED
      BY <3>2, <3>3, <3>4
  <2>6. Len(spans') <= U16 => Right(x)'
    <3> HIDE DEF interned
    <3> QED
      BY <2>5 DEF Right
  <2> HIDE DEF x, big
  <2> QED
    BY <1>8, <2>2, <2>3, <2>6, MadeStep
<1> QED
  BY <1>9, <1>10

-----------------------------------------------------------------------------
LEMMA InitInv == Init => IInv
BY DEF Init, IInv, TypeOK

LEMMA StepInv == IInv /\ [Next]_vars => IInv'
<1> SUFFICES ASSUME IInv, [Next]_vars PROVE IInv'
  OBVIOUS
<1>1. made \in Seq(Made) /\ TypeOK
  BY DEF IInv, TypeOK, Made
<1>2. ASSUME NEW x \in Made, Len(spans) <= U16, x.of.exact, \E i \in DOMAIN made : x = made[i]
      PROVE  InTable(x.span) /\ span_get(x.span) = Decoded(x.of)
  BY <1>2 DEF IInv, Right
<1>3. ASSUME NEW a \in Positions, NEW b \in Positions, NEW ctx \in Ctxs, Create(a, b, ctx)
      PROVE  IInv'
  <2> DEFINE of == [start |-> Min2(a, b), end |-> Max2(a, b), ctx |-> ctx,
                    exact |-> Max2(a, b) - Min2(a, b) < U16]
  <2>1. a \in Nat /\ b \in Nat /\ ctx \in 0 .. U16 - 1
    BY PositionsAssumption, CtxsAssumption
  <2>2. of \in Stretch
    BY <2>1 DEF Stretch, Min2, Max2
  <2>3. span_create(a, b, ctx, of)
    BY <1>3 DEF Create
  <2>4. of.exact => /\ of.start = Min2(a, b) /\ of.end = Max2(a, b) /\ of.ctx = ctx
                    /\ of.end - of.start < U16
    OBVIOUS
  <2> HIDE DEF of
  <2> QED
    BY <2>1, <2>2, <2>3, <2>4, CreateStep
<1>4. ASSUME NEW x \in Made, NEW y \in Made, MergeApart(x, y)
      PROVE  IInv'
  <2> DEFINE z == [span |-> span_empty, of |-> [start |-> 0, end |-> 0, ctx |-> 0,
                                                exact |-> x.of.exact /\ y.of.exact]]
  <2>1. z \in Made
    <3>1. 0 \in 0 .. U16 - 1 /\ x.of.exact \in BOOLEAN /\ y.of.exact \in BOOLEAN
      BY Widths DEF Made, Stretch
    <3> QED
      BY <3>1 DEF Made, Packed, Stretch, span_empty
  <2>2. made' = Append(made, z) /\ spans' = spans
    BY <1>4 DEF MergeApart
  <2>3. Right(z)'
    BY DEF Right, InTable, Decoded, span_get, span_is_interned, span_empty, TAG_INTERNED
  <2>4. PICK big : big \in BigSpan
    <3>1. [start |-> 0, len |-> 0, ctx |-> 0] \in BigSpan
      BY Widths DEF BigSpan
    <3> QED
      BY <3>1
  <2> HIDE DEF z
  <2> QED
    BY <2>1, <2>2, <2>3, <2>4, MadeStep
<1>5. ASSUME NEW x \in Made, NEW y \in Made, Merge(x, y),
             \E i \in DOMAIN made : x = made[i], \E i \in DOMAIN made : y = made[i]
      PROVE  IInv'
  <2>1. PICK one : one = span_get(x.span)
    OBVIOUS
  <2>2. PICK two : two = span_get(y.span)
    OBVIOUS
  <2>3. x.span \in Packed /\ y.span \in Packed /\ x.of \in Stretch /\ y.of \in Stretch
    BY DEF Made
  <2>4. one.start \in Nat /\ two.start \in Nat /\ one.ctx \in 0 .. U16 - 1 /\ two.len \in 0 .. U16 - 1
    BY <1>1, <2>1, <2>2, <2>3, GetType
  <2>5. two.start + two.len \in Nat
    BY <2>4, Widths
  <2>6. PICK start : start = Min2(x.of.start, y.of.end)
    OBVIOUS
  <2>7. PICK end : end = Max2(x.of.start, y.of.end)
    OBVIOUS
  <2> DEFINE of == [start |-> start, end |-> end, ctx |-> x.of.ctx,
                    exact |-> x.of.exact /\ y.of.exact /\ end - start < U16]
  <2>8. of \in Stretch
    BY <2>3, <2>6, <2>7 DEF Stretch, Min2, Max2
  <2>9. span_create(one.start, two.start + two.len, one.ctx, of)
    BY <1>5, <2>1, <2>2, <2>6, <2>7 DEF Merge
  <2>10. ASSUME of.exact, Len(spans) <= U16
         PROVE  /\ one.start = x.of.start /\ two.start + two.len = y.of.end
                /\ one.ctx = x.of.ctx /\ end - start < U16
    <3>1. one = Decoded(x.of) /\ two = Decoded(y.of) /\ end - start < U16
      BY <1>2, <1>5, <2>1, <2>2, <2>10
    <3> QED
      BY <2>3, <3>1 DEF Decoded, Stretch
  <2>11. of.exact /\ Len(spans) <= U16 =>
             /\ of.start = Min2(one.start, two.start + two.len)
             /\ of.end = Max2(one.start, two.start + two.len) /\ of.ctx = one.ctx
             /\ of.end - of.start < U16
    BY <2>6, <2>7, <2>10
  <2> HIDE DEF of
  <2>12. PICK far \in Nat : far = two.start + two.len
    BY <2>5
  <2> QED
    BY <2>4, <2>8, <2>9, <2>11, <2>12, CreateStep
<1>6. ASSUME NEW x \in Made, Parenthesize(x), \E i \in DOMAIN made : x = made[i]
      PROVE  IInv'
  <2> DEFINE z == [span |-> [x.span EXCEPT !.start = @ - 1, !.len_or_tag = (@ + 1) % U16],
                   of |-> [x.of EXCEPT !.start = @ - 1, !.exact = @ /\ x.span.len_or_tag < MAX_LEN]]
  <2>1. /\ x.span \in Packed /\ x.of \in Stretch
        /\ x.span.start > 0 /\ x.of.start > 0
        /\ made' = Append(made, z) /\ spans' = spans
    BY <1>6 DEF Parenthesize, Made
  <2>2. x.span.len_or_tag + 1 \in Nat
    BY <2>1, Widths DEF Packed
  <2>3. PICK wider \in 0 .. U16 - 1 : wider = (x.span.len_or_tag + 1) % U16
    BY <2>2, Truncated
  <2>4. z.span = [x.span EXCEPT !.start = @ - 1, !.len_or_tag = wider]
    BY <2>3
  <2>5. z \in Made
    <3>1. z.span \in Packed
      <4>1. x.span.start - 1 \in Nat
        BY <2>1 DEF Packed
      <4>2. z.span = [x.span EXCEPT !.start = x.span.start - 1, !.len_or_tag = wider]
        BY <2>4
      <4> HIDE DEF z
      <4> QED
        BY <2>1, <4>1, <4>2 DEF Packed
    <3>2. z.of \in Stretch
      <4>1. x.of.start - 1 \in Nat
        BY <2>1 DEF Stretch
      <4>2. PICK ex \in BOOLEAN : ex = (x.of.exact /\ x.span.len_or_tag < MAX_LEN)
        OBVIOUS
      <4>3. z.of = [x.of EXCEPT !.start = x.of.start - 1, !.exact = ex]
        BY <4>2
      <4> HIDE DEF z
      <4> QED
        BY <2>1, <4>1, <4>3 DEF Stretch
    <3> QED
      BY <3>1, <3>2 DEF Made
  <2>6. ASSUME Len(spans) <= U16, z.of.exact
        PROVE  InTable(z.span)' /\ span_get(z.span)' = Decoded(z.of)
    <3>1. x.of.exact /\ x.span.len_or_tag < MAX_LEN
      BY <2>1, <2>6 DEF Stretch
    <3>2. span_get(x.span) = Decoded(x.of)
      BY <1>2, <1>6, <2>6, <3>1
    <3>3. wider = x.span.len_or_tag + 1
      <4>1. x.span.len_or_tag + 1 < U16
        BY <2>1, <3>1, Widths DEF Packed
      <4> QED
        BY <2>2, <2>3, <4>1, Truncated
    <3>4. ~span_is_interned(x.span) /\ ~span_is_interned(z.span)
      <4>1. x.span.len_or_tag < TAG_INTERNED /\ wider < TAG_INTERNED
        BY <2>1, <3>1, <3>3, Widths DEF Packed
      <4>2. wider \in Nat /\ x.span.len_or_tag \in Nat
        BY <2>1, Widths DEF Packed
      <4>3. z.span.len_or_tag = wider
        BY <2>1, <2>4 DEF Packed
      <4> HIDE DEF z
      <4> QED
        BY <4>1, <4>2, <4>3, Widths DEF span_is_interned
    <3>5. x.span.start = x.of.start /\ x.span.len_or_tag = x.of.end - x.of.start
          /\ x.span.ctx_or_idx = x.of.ctx
      BY <3>2, <3>4 DEF span_get, Decoded
    <3>6. /\ z.span.start = x.span.start - 1 /\ z.span.len_or_tag = x.span.len_or_tag + 1
          /\ z.span.ctx_or_idx = x.span.ctx_or_idx
      BY <2>1, <2>4, <3>3 DEF Packed
    <3>7. z.of.start = x.of.start - 1 /\ z.of.end = x.of.end /\ z.of.ctx = x.of.ctx
      BY <2>1 DEF Stretch
    <3>8. z.span.len_or_tag = z.of.end - z.of.start
      BY <2>1, <3>5, <3>6, <3>7 DEF Stretch
    <3> HIDE DEF z
    <3> QED
      BY <3>4, <3>5, <3>6, <3>7, <3>8 DEF InTable, Decoded, span_get, span_is_interned
  <2> HIDE DEF z
  <2>7. PICK w : w = z
    OBVIOUS
  <2>8. Len(spans') <= U16 => Right(w)'
    BY <2>1, <2>6, <2>7 DEF Right
  <2>9. PICK big : big \in BigSpan
    <3>1. [start |-> 0, len |-> 0, ctx |-> 0] \in BigSpan
      BY Widths DEF BigSpan
    <3> QED
      BY <3>1
  <2> QED
    BY <2>1, <2>5, <2>7, <2>8, <2>9, MadeStep
<1>7. CASE UNCHANGED vars
  BY <1>7 DEF vars, IInv, TypeOK, Right, InTable, span_get
<1>8. \A i \in DOMAIN made : made[i] \in Made
  BY <1>1
<1> QED
  BY <1>3, <1>4, <1>5, <1>6, <1>7, <1>8 DEF Next

THEOREM Invariant == Spec => []IInv
<1>1. Init => IInv
  BY InitInv
<1>2. IInv /\ [Next]_vars => IInv'
  BY StepInv
<1> QED
  BY <1>1, <1>2, PTL DEF Spec

(* Whatever is made, merged or parenthesised, the fields of a span and of  *)
(* an entry of the table stay within their widths (span.h:15-25).          *)
THEOREM TypeCorrect == Spec => []TypeOK
<1>1. IInv => TypeOK
  BY DEF IInv
<1> QED
  BY <1>1, Invariant, PTL

(* A span stands for the very stretch it was made for, as long as the      *)
(* table's entries can be numbered (span.c:24-66, 87-99).                  *)
THEOREM AlwaysExact == Spec => []Exact
BY IInvExact, Invariant, PTL
=============================================================================
