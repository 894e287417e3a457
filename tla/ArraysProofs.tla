---------------------------- MODULE ArraysProofs ----------------------------
(***************************************************************************)
(* Proofs about the growing arrays, for every capacity, every element and  *)
(* every length: they stay within their memory, and are lists.             *)
(***************************************************************************)
EXTENDS Arrays, SequenceTheorems, TLAPS

(* The memory of an array of either kind, of which len cells are in use.   *)
InUse == /\ cap \in Nat /\ len \in Nat /\ len <= cap
         /\ DOMAIN cells = 0 .. cap - 1
         /\ \A i \in 0 .. len - 1 : cells[i] \in Elems

IInv == kind \in {"vec", "ptrvec"} /\ InUse
-----------------------------------------------------------------------------
LEMMA InUseMemory == ASSUME InUse PROVE V!TypeOK /\ P!TypeOK
    BY DEF InUse, V!TypeOK, P!TypeOK

LEMMA WithinMemoryInv == IInv => WithinMemory
    BY InUseMemory DEF IInv, WithinMemory

LEMMA InitInv == Init => IInv
<1> SUFFICES ASSUME Init PROVE IInv
    OBVIOUS
<1>1. CASE kind = "vec" /\ V!Init
    BY <1>1, CapsAssumption DEF V!Init, IInv, InUse
<1>2. CASE kind = "ptrvec" /\ P!Init
    BY <1>2, CapsAssumption DEF P!Init, IInv, InUse
<1> QED  BY <1>1, <1>2 DEF Init

(* A cell is written in memory that was grown first where it had to be.    *)
LEMMA Pushed ==
    ASSUME InUse, NEW c \in Nat, len + 1 <= c, cap <= c, NEW e \in Elems,
           cap' = c, len' = len + 1,
           cells' = [[i \in 0 .. c - 1 |-> IF i < cap THEN cells[i] ELSE junk] EXCEPT ![len] = e]
    PROVE  InUse'
<1>1. cells' = [i \in 0 .. c - 1 |-> IF i = len THEN e ELSE IF i < cap THEN cells[i] ELSE junk]
    OBVIOUS
<1>2. ASSUME NEW i \in 0 .. len' - 1
      PROVE  cells'[i] \in Elems
    <2>1. i \in 0 .. c - 1 /\ (i = len \/ i \in 0 .. len - 1)
        BY <1>2 DEF InUse
    <2>2. i \in 0 .. len - 1 => i < cap /\ cells[i] \in Elems
        BY DEF InUse
    <2> QED  BY <1>1, <2>1, <2>2
<1> QED  BY <1>1, <1>2 DEF InUse

LEMMA VecPush ==
    ASSUME InUse
    PROVE  LET c == IF V!Full THEN V!vec_resize(cap) ELSE cap
           IN  c \in Nat /\ len + 1 <= c /\ cap <= c
    BY DEF InUse, V!Full, V!vec_resize

LEMMA PtrvecPush ==
    ASSUME InUse
    PROVE  LET c == IF P!Full THEN P!ptrvec_resize ELSE cap
           IN  c \in Nat /\ len + 1 <= c /\ cap <= c
    BY DEF InUse, P!Full, P!ptrvec_resize, P!ptrvec_resize_s, P!POINTER_SIZE
LEMMA PushStep ==
    ASSUME InUse, NEW e \in Elems, V!vec_push(e) \/ P!ptrvec_push_ptr(e)
    PROVE  /\ InUse' /\ len' = len + 1 /\ call' = <<"push", e>>
           /\ cells'[len] = e /\ \A i \in 0 .. len - 1 : cells'[i] = cells[i]
<1>1. PICK c \in Nat : /\ len + 1 <= c /\ cap <= c /\ cap' = c /\ len' = len + 1
                      /\ cells' = [[i \in 0 .. c - 1 |-> IF i < cap THEN cells[i] ELSE junk] EXCEPT ![len] = e]
                      /\ call' = <<"push", e>>
    <2>1. CASE V!vec_push(e)
        BY <2>1, VecPush DEF V!vec_push, V!Resized
    <2>2. CASE P!ptrvec_push_ptr(e)
        BY <2>2, PtrvecPush DEF P!ptrvec_push_ptr, P!Moved
    <2> QED  BY <2>1, <2>2
<1>2. InUse'
    BY <1>1, Pushed
<1>3. cells'[len] = e /\ \A i \in 0 .. len - 1 : cells'[i] = cells[i]
    BY <1>1 DEF InUse
<1> QED  BY <1>1, <1>2, <1>3

LEMMA ZeroStep ==
    ASSUME InUse, V!vec_init_zero
    PROVE  InUse' /\ call' = <<"zero">> /\ \A i \in 0 .. len' - 1 : cells'[i] = Zero
    BY ElemsAssumption DEF InUse, V!vec_init_zero

LEMMA GetStep ==
    ASSUME InUse, NEW i \in 0 .. len, V!vec_get(i) \/ P!ptrvec_get(i)
    PROVE  /\ InUse' /\ len' = len /\ cells' = cells
           /\ call' = <<"get", i, IF i < len THEN cells[i] ELSE none>>
    BY DEF InUse, V!vec_get, P!ptrvec_get

LEMMA SetStep ==
    ASSUME InUse, NEW i \in 0 .. len, NEW e \in Elems, V!vec_get_ptr(i, e) \/ P!ptrvec_set(i, e)
    PROVE  /\ InUse' /\ len' = len /\ call' = <<"set", i, e>>
           /\ \A k \in 0 .. len - 1 : cells'[k] = IF k = i THEN e ELSE cells[k]
<1>1. /\ len' = len /\ cap' = cap /\ call' = <<"set", i, e>>
      /\ cells' = IF i < len THEN [cells EXCEPT ![i] = e] ELSE cells
    BY DEF V!vec_get_ptr, P!ptrvec_set
<1>2. \A k \in 0 .. len - 1 : cells'[k] = IF k = i THEN e ELSE cells[k]
    BY <1>1 DEF InUse
<1>3. InUse'
    BY <1>1, <1>2 DEF InUse
<1> QED  BY <1>1, <1>2, <1>3

(* What is taken from the front moves the others one down. *)
LEMMA PopStep ==
    ASSUME InUse, P!ptrvec_pop
    PROVE  /\ InUse'
           /\ \/ len = 0 /\ len' = 0 /\ call' = <<"pop", none>>
              \/ /\ len > 0 /\ len' = len - 1 /\ call' = <<"pop", cells[0]>>
                 /\ \A i \in 0 .. len - 2 : cells'[i] = cells[i + 1]
<1>1. CASE P!ptrvec_is_empty
    BY <1>1 DEF InUse, P!ptrvec_pop, P!ptrvec_is_empty
<1>2. CASE ~P!ptrvec_is_empty
    <2>1. /\ call' = <<"pop", cells[0]>> /\ len' = len - 1 /\ cap' = cap
          /\ cells' = [i \in DOMAIN cells |-> IF i < len - 1 THEN cells[i + 1] ELSE cells[i]]
        BY <1>2 DEF P!ptrvec_pop
    <2>2. len > 0 /\ len \in Nat
        BY <1>2 DEF InUse, P!ptrvec_is_empty
    <2>3. \A i \in 0 .. len - 2 : cells'[i] = cells[i + 1]
        BY <2>1, <2>2 DEF InUse
    <2>4. \A i \in 0 .. len - 2 : i + 1 \in 0 .. len - 1
        BY <2>2
    <2>5. \A i \in 0 .. len' - 1 : cells'[i] \in Elems
        <3>1. len' - 1 = len - 2
            BY <2>1, <2>2
        <3> QED  BY <2>3, <2>4, <3>1 DEF InUse
    <2>6. InUse'
        BY <2>1, <2>2, <2>5 DEF InUse
    <2> QED  BY <2>1, <2>2, <2>3, <2>6
<1> QED  BY <1>1, <1>2

(* The capacity asked for is in bytes, so there is room for eight times    *)
(* what is appended.                                                       *)
LEMMA AppendStep ==
    ASSUME InUse, NEW other \in Others, P!ptrvec_append(other)
    PROVE  /\ InUse' /\ call' = <<"append", other>>
           /\ \/ len = 0 /\ len' = 0
              \/ /\ len > 0 /\ len' = len + Len(other)
                 /\ \A i \in 0 .. len - 1 : cells'[i] = cells[i]
                 /\ \A i \in 1 .. Len(other) : cells'[len + i - 1] = other[i]
<1>0. other \in Seq(Elems) /\ Len(other) \in Nat
    BY OthersAssumption
<1>1. CASE P!ptrvec_is_empty
    BY <1>1 DEF InUse, P!ptrvec_append, P!ptrvec_is_empty
<1>2. CASE ~P!ptrvec_is_empty
    <2>1. PICK c : c = P!ptrvec_resize_s(len + Len(other))
        OBVIOUS
    <2>2. PICK n : n = Len(other)
        OBVIOUS
    <2>3. /\ call' = <<"append", other>> /\ len' = len + n /\ cap' = c
          /\ cells' = [i \in 0 .. c - 1 |-> IF i \in len .. len + n - 1 THEN other[i - len + 1]
                                           ELSE P!Moved(c)[i]]
        BY <1>2, <2>1, <2>2 DEF P!ptrvec_append
    <2>4. n \in Nat /\ len \in Nat /\ len > 0 /\ cap \in Nat /\ len <= cap
        BY <1>0, <1>2, <2>2 DEF InUse, P!ptrvec_is_empty
    <2>5. c \in Nat /\ len + n <= c /\ cap <= c
        BY <2>1, <2>2, <2>4 DEF P!ptrvec_resize_s, P!POINTER_SIZE
    <2>6. \A i \in 0 .. len - 1 : cells'[i] = cells[i]
        <3> TAKE i \in 0 .. len - 1
        <3>1. i \in 0 .. c - 1 /\ i \notin len .. len + n - 1 /\ i < cap
            BY <2>4, <2>5
        <3> QED  BY <2>3, <3>1 DEF P!Moved
    <2>7. \A i \in 1 .. n : cells'[len + i - 1] = other[i]
        <3> TAKE i \in 1 .. n
        <3>1. PICK k \in Nat : k = len + i - 1
            BY <2>4
        <3>2. k \in 0 .. c - 1 /\ k \in len .. len + n - 1 /\ k - len + 1 = i
            BY <2>4, <2>5, <3>1
        <3>3. cells'[k] = other[k - len + 1]
            BY <2>3, <3>2
        <3> QED  BY <3>1, <3>2, <3>3
    <2>8. \A i \in 0 .. len' - 1 : cells'[i] \in Elems
        <3> TAKE i \in 0 .. len' - 1
        <3>1. CASE i < len
            <4>1. i \in 0 .. len - 1
                BY <2>3, <2>4, <3>1
            <4> QED  BY <2>6, <4>1 DEF InUse
        <3>2. CASE i >= len
            <4>1. i - len + 1 \in 1 .. n /\ len + (i - len + 1) - 1 = i
                BY <2>3, <2>4, <3>2
            <4>2. other[i - len + 1] \in Elems
                BY <1>0, <2>2, <4>1
            <4>3. cells'[len + (i - len + 1) - 1] = other[i - len + 1]
                BY <2>7, <4>1
            <4> QED  BY <4>1, <4>2, <4>3
        <3> QED  BY <2>3, <2>4, <3>1, <3>2
    <2>9. cap' \in Nat /\ len' \in Nat /\ len' <= cap'
        BY <2>3, <2>4, <2>5
    <2>10. DOMAIN cells' = 0 .. cap' - 1
        BY <2>3
    <2>11. InUse'
        BY <2>8, <2>9, <2>10 DEF InUse
    <2> QED  BY <2>2, <2>3, <2>4, <2>6, <2>7, <2>11
<1> QED  BY <1>1, <1>2

(* The operations of an array of either kind. *)
Operation ==
    \/ \E e \in Elems : V!vec_push(e) \/ P!ptrvec_push_ptr(e)
    \/ V!vec_init_zero
    \/ \E i \in 0 .. len : V!vec_get(i) \/ P!ptrvec_get(i)
    \/ \E i \in 0 .. len, e \in Elems : V!vec_get_ptr(i, e) \/ P!ptrvec_set(i, e)
    \/ P!ptrvec_pop
    \/ \E other \in Others : P!ptrvec_append(other)

LEMMA NextOperation == Next => Operation /\ kind' = kind
<1>1. V!Next => Operation
    BY DEF V!Next, Operation
<1>2. P!Next => Operation
    BY DEF P!Next, Operation
<1> QED  BY <1>1, <1>2 DEF Next

LEMMA StepInv == IInv /\ [Next]_vars => IInv'
<1> SUFFICES ASSUME IInv, [Next]_vars PROVE IInv'
    OBVIOUS
<1>1. CASE Next
    <2>1. Operation => InUse'
        BY PushStep, ZeroStep, GetStep, SetStep, PopStep, AppendStep DEF Operation, IInv
    <2> QED  BY <1>1, <2>1, NextOperation DEF IInv
<1>2. CASE UNCHANGED vars
    BY <1>2 DEF IInv, InUse, vars
<1> QED  BY <1>1, <1>2

(* The arrays' invariant: what is in use was written, and is memory. *)
THEOREM Invariant == Spec => []IInv
    BY InitInv, StepInv, PTL DEF Spec

(* An array of either kind never has more elements than memory, whatever   *)
(* its capacity counts, and each was written (vec.c:25-62, ptrvec.c:27-87). *)
THEOREM AlwaysWithinMemory == Spec => []WithinMemory
    BY WithinMemoryInv, Invariant, PTL
-----------------------------------------------------------------------------
(* The first n cells as a list. *)
ListOf(n, f) == [i \in 1 .. n |-> f[i - 1]]


(* What is known of the cells f and, after an operation, g. *)
Filled(S, n, f) == \A i \in 0 .. n - 1 : f[i] \in S
Kept(n, f, g) == \A i \in 0 .. n - 1 : g[i] = f[i]
Changed(n, f, g, k, e) == \A i \in 0 .. n - 1 : (i = k => g[i] = e) /\ (i # k => g[i] = f[i])
Shifted(n, f, g) == \A i \in 0 .. n - 2 : g[i] = f[i + 1]
Followed(n, g, o) == \A i \in 1 .. Len(o) : g[n + i - 1] = o[i]

LEMMA ListOfIs ==
    ASSUME NEW S, NEW n \in Nat, NEW f, Filled(S, n, f)
    PROVE  /\ ListOf(n, f) \in Seq(S) /\ Len(ListOf(n, f)) = n
           /\ \A i \in 1 .. n : ListOf(n, f)[i] = f[i - 1]
<1>1. \A i \in 1 .. n : i - 1 \in 0 .. n - 1
    OBVIOUS
<1>2. ListOf(n, f) \in [1 .. n -> S]
    BY <1>1 DEF ListOf, Filled
<1> QED  BY <1>2 DEF ListOf

LEMMA ListPush ==
    ASSUME NEW n \in Nat, NEW f, NEW g, NEW e \in Elems,
           Filled(Elems, n, f), Kept(n, f, g), g[n] = e
    PROVE  ListOf(n + 1, g) = Append(ListOf(n, f), e)
<1>0. /\ \A i \in 0 .. n - 1 : f[i] \in Elems
      /\ \A i \in 0 .. n - 1 : g[i] = f[i]
    BY DEF Filled, Kept
<1>1. Filled(Elems, n + 1, g)
    BY <1>0 DEF Filled
<1>2. /\ ListOf(n, f) \in Seq(Elems) /\ Len(ListOf(n, f)) = n
      /\ \A i \in 1 .. n : ListOf(n, f)[i] = f[i - 1]
    BY ListOfIs
<1>3. /\ ListOf(n + 1, g) \in Seq(Elems) /\ Len(ListOf(n + 1, g)) = n + 1
      /\ \A i \in 1 .. n + 1 : ListOf(n + 1, g)[i] = g[i - 1]
    BY <1>1, ListOfIs
<1>4. PICK s \in Seq(Elems) : s = ListOf(n, f)
    BY <1>2
<1>5. PICK t \in Seq(Elems) : t = ListOf(n + 1, g)
    BY <1>3
<1>6. Len(t) = Len(Append(s, e)) /\ Append(s, e) \in Seq(Elems)
    BY <1>2, <1>3, <1>4, <1>5
<1>7. ASSUME NEW i \in 1 .. n + 1 PROVE t[i] = Append(s, e)[i]
    <2>1. CASE i \in 1 .. n
        <3>1. i - 1 \in 0 .. n - 1
            BY <2>1
        <3>2. t[i] = f[i - 1] /\ s[i] = f[i - 1]
            BY <1>0, <1>2, <1>3, <1>4, <1>5, <2>1, <3>1
        <3> QED  BY <1>2, <1>4, <2>1, <3>2
    <2>2. CASE i = n + 1
        BY <1>2, <1>3, <1>4, <1>5, <2>2
    <2>3. i \in 1 .. n \/ i = n + 1
        OBVIOUS
    <2> QED  BY <2>1, <2>2, <2>3
<1> QED  BY <1>3, <1>4, <1>5, <1>6, <1>7, SeqEqual

LEMMA ListSet ==
    ASSUME NEW n \in Nat, NEW f, NEW g, NEW k \in 0 .. n, NEW e \in Elems,
           Filled(Elems, n, f), Changed(n, f, g, k, e)
    PROVE  /\ k < n => ListOf(n, g) = [ListOf(n, f) EXCEPT ![k + 1] = e]
           /\ ~(k < n) => ListOf(n, g) = ListOf(n, f)
<1>0. /\ \A i \in 0 .. n - 1 : f[i] \in Elems
      /\ \A i \in 0 .. n - 1 : (i = k => g[i] = e) /\ (i # k => g[i] = f[i])
    BY DEF Filled, Changed
<1>1. \A i \in 1 .. n : i - 1 \in 0 .. n - 1 /\ (i - 1 = k <=> i = k + 1)
    OBVIOUS
<1>2. \A i \in 1 .. n : g[i - 1] = IF i = k + 1 THEN e ELSE f[i - 1]
    BY <1>0, <1>1
<1>3. k < n => k + 1 \in 1 .. n
    OBVIOUS
<1>4. ~(k < n) => \A i \in 1 .. n : i # k + 1
    OBVIOUS
<1>5. CASE k < n
    BY <1>2, <1>5 DEF ListOf
<1>6. CASE ~(k < n)
    BY <1>2, <1>4, <1>6 DEF ListOf
<1> QED  BY <1>5, <1>6

LEMMA ListPop ==
    ASSUME NEW n \in Nat, NEW f, NEW g, n > 0,
           Filled(Elems, n, f), Shifted(n, f, g)
    PROVE  /\ ListOf(n, f) # <<>> /\ Head(ListOf(n, f)) = f[0]
           /\ ListOf(n - 1, g) = Tail(ListOf(n, f))
<1>0. /\ \A i \in 0 .. n - 1 : f[i] \in Elems
      /\ \A i \in 0 .. n - 2 : g[i] = f[i + 1]
    BY DEF Filled, Shifted
<1>1. PICK m \in Nat : m = n - 1
    OBVIOUS
<1>2. \A i \in 0 .. m - 1 : g[i] = f[i + 1] /\ g[i] \in Elems
    <2>1. \A i \in 0 .. m - 1 : i \in 0 .. n - 2 /\ i + 1 \in 0 .. n - 1
        BY <1>1
    <2> QED  BY <1>0, <2>1
<1>3. /\ ListOf(n, f) \in Seq(Elems) /\ Len(ListOf(n, f)) = n
      /\ \A i \in 1 .. n : ListOf(n, f)[i] = f[i - 1]
    BY ListOfIs
<1>4. /\ ListOf(m, g) \in Seq(Elems) /\ Len(ListOf(m, g)) = m
      /\ \A i \in 1 .. m : ListOf(m, g)[i] = g[i - 1]
    <2>1. Filled(Elems, m, g)
        BY <1>2 DEF Filled
    <2> QED  BY <2>1, ListOfIs
<1>5. PICK s \in Seq(Elems) : s = ListOf(n, f)
    BY <1>3
<1>6. PICK t \in Seq(Elems) : t = ListOf(m, g)
    BY <1>4
<1>7. s # <<>> /\ Head(s) = f[0] /\ Tail(s) \in Seq(Elems) /\ Len(Tail(s)) = m
    BY <1>1, <1>3, <1>5
<1>8. ASSUME NEW i \in 1 .. m PROVE t[i] = Tail(s)[i]
    <2>1. i - 1 \in 0 .. m - 1 /\ i + 1 \in 1 .. n /\ i - 1 + 1 = i /\ i + 1 - 1 = i
        BY <1>1
    <2>2. t[i] = f[i]
        BY <1>2, <1>4, <1>6, <2>1
    <2>3. s[i + 1] = f[i]
        BY <1>3, <1>5, <2>1
    <2>4. Tail(s)[i] = s[i + 1]
        BY <1>7
    <2> QED  BY <2>2, <2>3, <2>4
<1>9. t = Tail(s)
    BY <1>4, <1>6, <1>7, <1>8, SeqEqual
<1> QED  BY <1>1, <1>5, <1>6, <1>7, <1>9

LEMMA ListExtend ==
    ASSUME NEW n \in Nat, NEW f, NEW g, NEW o \in Seq(Elems),
           Filled(Elems, n, f), Kept(n, f, g), Followed(n, g, o)
    PROVE  ListOf(n + Len(o), g) = ListOf(n, f) \o o
<1>0. /\ \A i \in 0 .. n - 1 : f[i] \in Elems
      /\ \A i \in 0 .. n - 1 : g[i] = f[i]
      /\ \A i \in 1 .. Len(o) : g[n + i - 1] = o[i]
    BY DEF Filled, Kept, Followed
<1>1. PICK m \in Nat : m = Len(o)
    OBVIOUS
<1>2. ASSUME NEW i \in 0 .. n + m - 1 PROVE g[i] \in Elems
    <2>1. CASE i < n
        BY <1>0, <2>1
    <2>2. CASE i >= n
        <3>1. PICK k \in 1 .. m : n + k - 1 = i
            <4>1. i - n + 1 \in 1 .. m /\ n + (i - n + 1) - 1 = i
                BY <2>2
            <4> QED  BY <4>1
        <3>2. g[n + k - 1] = o[k] /\ o[k] \in Elems
            BY <1>0, <1>1, <3>1
        <3> QED  BY <3>1, <3>2
    <2>3. i < n \/ i >= n
        OBVIOUS
    <2> QED  BY <2>1, <2>2, <2>3
<1>3. /\ ListOf(n, f) \in Seq(Elems) /\ Len(ListOf(n, f)) = n
      /\ \A i \in 1 .. n : ListOf(n, f)[i] = f[i - 1]
    BY ListOfIs
<1>4. /\ ListOf(n + m, g) \in Seq(Elems) /\ Len(ListOf(n + m, g)) = n + m
      /\ \A i \in 1 .. n + m : ListOf(n + m, g)[i] = g[i - 1]
    <2>1. n + m \in Nat
        OBVIOUS
    <2>2. Filled(Elems, n + m, g)
        BY <1>2 DEF Filled
    <2> QED  BY <2>1, <2>2, ListOfIs
<1>5. PICK s \in Seq(Elems) : s = ListOf(n, f)
    BY <1>3
<1>6. PICK t \in Seq(Elems) : t = ListOf(n + m, g)
    BY <1>4
<1>7. s \o o \in Seq(Elems) /\ Len(s \o o) = n + m
    <2>1. Len(s) = n
        BY <1>3, <1>5
    <2> QED  BY <1>1, <2>1, ConcatProperties
<1>8. ASSUME NEW i \in 1 .. n + m PROVE t[i] = (s \o o)[i]
    <2>1. CASE i <= n
        <3>1. i - 1 \in 0 .. n - 1 /\ i \in 1 .. n
            BY <2>1
        <3>2. t[i] = f[i - 1] /\ s[i] = f[i - 1]
            BY <1>0, <1>3, <1>4, <1>5, <1>6, <3>1
        <3>3. Len(s) = n
            BY <1>3, <1>5
        <3>4. (s \o o)[i] = s[i]
            BY <3>1, <3>3
        <3> QED  BY <3>2, <3>4
    <2>2. CASE i > n
        <3>1. PICK k \in 1 .. m : i = n + k
            <4>1. i - n \in 1 .. m /\ n + (i - n) = i
                BY <2>2
            <4> QED  BY <4>1
        <3>2. t[i] = g[n + k - 1]
            BY <1>4, <1>6, <3>1
        <3>3. Len(s) = n /\ k \in 1 .. Len(o)
            BY <1>1, <1>3, <1>5
        <3>4. (s \o o)[n + k] = o[k]
            BY <3>3
        <3>5. g[n + k - 1] = o[k]
            BY <1>0, <3>3
        <3> QED  BY <3>1, <3>2, <3>4, <3>5
    <2>3. i <= n \/ i > n
        OBVIOUS
    <2> QED  BY <2>1, <2>2, <2>3
<1>9. t = s \o o
    BY <1>4, <1>6, <1>7, <1>8, SeqEqual
<1> QED  BY <1>0, <1>1, <1>5, <1>6, <1>9

(* The list an array is. *)
list == [i \in 1 .. len |-> cells[i - 1]]

LEMMA ListIs ==
    ASSUME InUse
    PROVE  /\ list = ListOf(len, cells) /\ list \in Seq(Elems) /\ Len(list) = len
           /\ (list = <<>> <=> len = 0)
           /\ \A i \in 1 .. len : list[i] = cells[i - 1]
<1>1. list = ListOf(len, cells) /\ len \in Nat /\ Filled(Elems, len, cells)
    BY DEF InUse, list, ListOf, Filled
<1>2. /\ ListOf(len, cells) \in Seq(Elems) /\ Len(ListOf(len, cells)) = len
      /\ \A i \in 1 .. len : ListOf(len, cells)[i] = cells[i - 1]
    BY <1>1, ListOfIs
<1>3. list = <<>> <=> len = 0
    BY <1>1, <1>2
<1> QED  BY <1>1, <1>2, <1>3

LEMMA ListPrime == list' = ListOf(len', cells')
    BY DEF list, ListOf

LEMMA InitList == Init => Abstract!Init
<1> SUFFICES ASSUME Init PROVE Abstract!Init
    OBVIOUS
<1>1. len = 0 /\ call = <<"create">>
    BY DEF Init, V!Init, P!Init
<1>2. list = <<>>
    BY <1>1 DEF list
<1> QED  BY <1>1, <1>2 DEF Abstract!Init, list

(* Each operation is the list's. *)
LEMMA ListStep ==
    ASSUME InUse, Operation
    PROVE  Abstract!Next
<1>0. /\ list = ListOf(len, cells) /\ Len(list) = len /\ (list = <<>> <=> len = 0)
      /\ \A i \in 1 .. len : list[i] = cells[i - 1]
    BY ListIs
<1>1. len \in Nat /\ Filled(Elems, len, cells)
    BY DEF InUse, Filled
<1>2. ASSUME NEW e \in Elems, V!vec_push(e) \/ P!ptrvec_push_ptr(e)
      PROVE  Abstract!Next
    <2>1. /\ len' = len + 1 /\ call' = <<"push", e>>
          /\ cells'[len] = e /\ \A i \in 0 .. len - 1 : cells'[i] = cells[i]
        BY <1>2, PushStep
    <2>2. ListOf(len + 1, cells') = Append(ListOf(len, cells), e)
        <3>1. Kept(len, cells, cells')
            BY <2>1 DEF Kept
        <3> QED  BY <1>1, <2>1, <3>1, ListPush
    <2>3. list' = Append(list, e)
        BY <1>0, <2>1, <2>2, ListPrime
    <2>4. Abstract!Push(e)
        BY <2>1, <2>3 DEF Abstract!Push, list
    <2> QED  BY <2>4 DEF Abstract!Next
<1>3. ASSUME V!vec_init_zero
      PROVE  Abstract!Next
    <2>1. InUse' /\ call' = <<"zero">> /\ \A i \in 0 .. len' - 1 : cells'[i] = Zero
        BY <1>3, ZeroStep
    <2>2. len' \in Nat
        BY <2>1 DEF InUse
    <2>3. PICK n, f : n = len' /\ f = cells'
        OBVIOUS
    <2>4. n \in Nat /\ Filled({Zero}, n, f)
        BY <2>1, <2>2, <2>3 DEF Filled
    <2>5. ListOf(n, f) \in Seq({Zero})
        BY <2>4, ListOfIs
    <2>6. list' \in Seq({Zero})
        BY <2>3, <2>5, ListPrime
    <2>7. Abstract!Zeros
        BY <2>1, <2>6 DEF Abstract!Zeros, list
    <2> QED  BY <2>7 DEF Abstract!Next
<1>4. ASSUME NEW i \in 0 .. len, V!vec_get(i) \/ P!ptrvec_get(i)
      PROVE  Abstract!Next
    <2>1. len' = len /\ cells' = cells /\ call' = <<"get", i, IF i < len THEN cells[i] ELSE none>>
        BY <1>4, GetStep
    <2>2. list' = list
        BY <1>0, <2>1, ListPrime
    <2>3. i < len => list[i + 1] = cells[i]
        <3>1. i < len => i + 1 \in 1 .. len /\ i + 1 - 1 = i
            BY <1>1
        <3> QED  BY <1>0, <3>1
    <2>4. call' = <<"get", i, IF i < Len(list) THEN list[i + 1] ELSE none>>
        BY <1>0, <2>1, <2>3
    <2>5. Abstract!Get(i)
        BY <2>2, <2>4 DEF Abstract!Get, list
    <2>6. i \in 0 .. Len(list)
        BY <1>0
    <2> QED  BY <2>5, <2>6 DEF Abstract!Next, list
<1>5. ASSUME NEW i \in 0 .. len, NEW e \in Elems, V!vec_get_ptr(i, e) \/ P!ptrvec_set(i, e)
      PROVE  Abstract!Next
    <2>1. /\ len' = len /\ call' = <<"set", i, e>>
          /\ \A k \in 0 .. len - 1 : cells'[k] = IF k = i THEN e ELSE cells[k]
        BY <1>5, SetStep
    <2>2. /\ i < len => ListOf(len, cells') = [ListOf(len, cells) EXCEPT ![i + 1] = e]
          /\ ~(i < len) => ListOf(len, cells') = ListOf(len, cells)
        <3>1. Changed(len, cells, cells', i, e)
            BY <2>1 DEF Changed
        <3> QED  BY <1>1, <3>1, ListSet
    <2>3. list' = IF i < Len(list) THEN [list EXCEPT ![i + 1] = e] ELSE list
        BY <1>0, <2>1, <2>2, ListPrime
    <2>4. Abstract!Set(i, e)
        BY <2>1, <2>3 DEF Abstract!Set, list
    <2>5. i \in 0 .. Len(list)
        BY <1>0
    <2> QED  BY <2>4, <2>5 DEF Abstract!Next, list
<1>6. ASSUME P!ptrvec_pop
      PROVE  Abstract!Next
    <2>1. CASE len = 0 /\ len' = 0 /\ call' = <<"pop", none>>
        <3>1. list' = <<>> /\ list = <<>>
            BY <1>0, <2>1 DEF list
        <3>2. Abstract!Pop
            BY <2>1, <3>1 DEF Abstract!Pop, list
        <3> QED  BY <3>2 DEF Abstract!Next
    <2>2. CASE /\ len > 0 /\ len' = len - 1 /\ call' = <<"pop", cells[0]>>
               /\ \A i \in 0 .. len - 2 : cells'[i] = cells[i + 1]
        <3>1. /\ ListOf(len, cells) # <<>> /\ Head(ListOf(len, cells)) = cells[0]
              /\ ListOf(len - 1, cells') = Tail(ListOf(len, cells))
            BY <1>1, <2>2, ListPop DEF Shifted
        <3>2. list # <<>> /\ call' = <<"pop", Head(list)>> /\ list' = Tail(list)
            BY <1>0, <2>2, <3>1, ListPrime
        <3>3. Abstract!Pop
            BY <3>2 DEF Abstract!Pop, list
        <3> QED  BY <3>3 DEF Abstract!Next
    <2> QED  BY <1>6, <2>1, <2>2, PopStep
<1>7. ASSUME NEW other \in Others, P!ptrvec_append(other)
      PROVE  Abstract!Next
    <2>1. /\ call' = <<"append", other>>
          /\ \/ len = 0 /\ len' = 0
             \/ /\ len > 0 /\ len' = len + Len(other)
                /\ \A i \in 0 .. len - 1 : cells'[i] = cells[i]
                /\ \A i \in 1 .. Len(other) : cells'[len + i - 1] = other[i]
        BY <1>7, AppendStep
    <2>2. other \in Seq(Elems)
        BY OthersAssumption
    <2>3. list' = IF list = <<>> THEN list ELSE list \o other
        <3>1. CASE len = 0 /\ len' = 0
            <4>1. list' = <<>> /\ list = <<>>
                BY <1>0, <3>1 DEF list
            <4> QED  BY <4>1
        <3>2. CASE /\ len > 0 /\ len' = len + Len(other)
                   /\ \A i \in 0 .. len - 1 : cells'[i] = cells[i]
                   /\ \A i \in 1 .. Len(other) : cells'[len + i - 1] = other[i]
            <4>1. ListOf(len + Len(other), cells') = ListOf(len, cells) \o other
                <5>1. Kept(len, cells, cells') /\ Followed(len, cells', other)
                    BY <3>2 DEF Kept, Followed
                <5> QED  BY <1>1, <2>2, <5>1, ListExtend
            <4>2. list # <<>>
                BY <1>0, <1>1, <3>2
            <4> QED  BY <1>0, <3>2, <4>1, <4>2, ListPrime
        <3> QED  BY <2>1, <3>1, <3>2
    <2>4. Abstract!Extend(other)
        BY <2>1, <2>3 DEF Abstract!Extend, list
    <2> QED  BY <2>4 DEF Abstract!Next
<1> QED  BY <1>2, <1>3, <1>4, <1>5, <1>6, <1>7 DEF Operation

LEMMA StepList == IInv /\ [Next]_vars => [Abstract!Next]_(Abstract!vars)
<1>1. CASE Next
    BY <1>1, NextOperation, ListStep DEF IInv
<1>2. CASE UNCHANGED vars
    BY <1>2 DEF vars, Abstract!vars
<1> QED  BY <1>1, <1>2

(* The array of either kind is the list of its elements, whatever memory   *)
(* it moves to as it grows: every operation changes it and answers as the  *)
(* list's does, for every capacity, element and length (vec.c:25-62,       *)
(* ptrvec.c:27-80).                                                        *)
THEOREM AlwaysImplementsList == Spec => ImplementsList
<1>1. IInv /\ [Next]_vars => [Abstract!Next]_(Abstract!vars)
    BY StepList
<1> QED  BY <1>1, InitList, Invariant, PTL DEF Spec, ImplementsList, Abstract!Spec
=============================================================================
