-------------------------- MODULE TupleSortProofs --------------------------
(***************************************************************************)
(* For any number of modules and any import counts: the partition pass     *)
(* stays inside its array, keeps a permutation of the modules, and         *)
(* separates them around the last one's count.                             *)
(***************************************************************************)
EXTENDS TupleSort, TLAPS

USE MaxLenAssumption, CountsAssumption

(* Where the two scans are, which is what keeps them inside the array.     *)
Scanning == /\ pc = "start" => i = -1 /\ j = len - 1
            /\ pc = "up" => len > 1 /\ i < j /\ 1 <= j /\ j < len /\ -1 <= i
            /\ pc = "down" => len > 1 /\ 0 <= i /\ i < len /\ 1 <= j /\ j < len
            /\ pc = "swap" => len > 1 /\ 0 <= i /\ i < len /\ 0 <= j /\ j < len - 1
            /\ pc = "done" /\ len > 1 => i >= j

(* What the scans know of the elements they have passed.                   *)
Sides ==
    /\ pc = "up" => /\ \A a \in Index : a <= i => arr[a].value <= pivot
                    /\ \A a \in Index : a >= j => arr[a].value >= pivot
    /\ pc = "down" => /\ \A a \in Index : a < i => arr[a].value <= pivot
                      /\ arr[i].value >= pivot
                      /\ \A a \in Index : a >= j => arr[a].value >= pivot
    /\ pc \in {"swap", "done"} /\ len > 1 =>
          /\ \A a \in Index : a < i => arr[a].value <= pivot
          /\ arr[i].value >= pivot /\ i \in Index
          /\ \A a \in Index : a > j => arr[a].value >= pivot
    /\ pc = "swap" /\ i < j => arr[j].value <= pivot

IInv == TypeOK /\ Scanning /\ Permutation /\ Sides

LEMMA InitInv == Init => IInv
<1> SUFFICES ASSUME Init PROVE IInv
  OBVIOUS
<1>1. TypeOK /\ Scanning
  BY DEF Init, TypeOK, Scanning, Index, tuples
<1>2. Permutation
  BY DEF Init, Permutation, Index, tuples
<1>3. Sides
  BY DEF Init, Sides
<1> QED
  BY <1>1, <1>2, <1>3 DEF IInv

LEMMA ElementTypes ==
    ASSUME TypeOK
    PROVE  /\ len \in Nat /\ i \in Int /\ j \in Int
           /\ \A a \in Index : arr[a].value \in Nat /\ arr[a].orig_idx \in Index
           /\ len > 0 => len - 1 \in Index /\ pivot \in Nat
<1>1. len \in Nat /\ i \in Int /\ j \in Int
  BY DEF TypeOK
<1>2. \A a \in Index : arr[a].value \in Nat /\ arr[a].orig_idx \in Index
  <2> TAKE a \in Index
  <2>1. arr[a] \in [orig_idx : Index, value : Counts]
    BY DEF TypeOK
  <2> QED
    BY <2>1
<1>3. len > 0 => len - 1 \in Index
  BY <1>1 DEF Index
<1> QED
  BY <1>1, <1>2, <1>3 DEF pivot

LEMMA ScanUpInv == IInv /\ ScanUp => IInv'
<1> SUFFICES ASSUME IInv, ScanUp PROVE IInv'
  OBVIOUS
<1>1. len > 1 /\ -1 <= i /\ i < j /\ 1 <= j /\ j < len /\ i + 1 \in Index
  BY ElementTypes DEF IInv, ScanUp, Scanning, Index, TypeOK
<1>2. arr[i + 1].value < pivot => i + 1 # len - 1
  BY <1>1, ElementTypes DEF IInv, pivot
<1>3. /\ UNCHANGED <<len, import_nums, arr, j, Index, pivot>> /\ i' = i + 1
      /\ pc' = IF arr[i + 1].value < pivot THEN "up" ELSE "down"
  BY DEF ScanUp, Index, pivot
<1>4. TypeOK'
  BY <1>1, <1>3 DEF IInv, TypeOK, Index
<1>5. Permutation'
  BY <1>3 DEF IInv, Permutation
<1>6. pc = "up"
  BY DEF ScanUp
<1>7. CASE arr[i + 1].value < pivot
  <2>1. i + 1 < len - 1
    BY <1>1, <1>2, <1>7, ElementTypes DEF IInv, Index
  <2>2. i + 1 < j
    BY <1>1, <1>2, <1>6, <1>7, <2>1, ElementTypes DEF IInv, Sides, Index
  <2>3. Scanning'
    BY <1>1, <1>3, <1>7, <2>2, ElementTypes DEF IInv, Scanning
  <2>4. Sides'
    <3>1. \A a \in Index : a <= i + 1 => arr[a].value <= pivot
      <4> TAKE a \in Index
      <4>1. CASE a = i + 1
        BY <1>1, <1>7, <4>1, ElementTypes DEF IInv
      <4>2. CASE a # i + 1
        BY <1>6, <4>2, ElementTypes DEF IInv, Sides, Index
      <4> QED
        BY <4>1, <4>2
    <3> QED
      BY <1>3, <1>6, <1>7, <3>1 DEF IInv, Sides
  <2> QED
    BY <1>4, <1>5, <2>3, <2>4 DEF IInv
<1>8. CASE ~(arr[i + 1].value < pivot)
  <2>1. Scanning'
    BY <1>1, <1>3, <1>8, ElementTypes DEF IInv, Scanning, Index
  <2>2. arr[i + 1].value >= pivot
    BY <1>1, <1>8, ElementTypes DEF IInv
  <2>3. \A a \in Index : a < i + 1 => arr[a].value <= pivot
    BY <1>6, ElementTypes DEF IInv, Sides, Index
  <2>4. Sides'
    BY <1>3, <1>6, <1>8, <2>2, <2>3 DEF IInv, Sides
  <2> QED
    BY <1>4, <1>5, <2>1, <2>4 DEF IInv
<1> QED
  BY <1>7, <1>8

LEMMA ScanDownInv == IInv /\ ScanDown => IInv'
<1> SUFFICES ASSUME IInv, ScanDown PROVE IInv'
  OBVIOUS
<1>1. len > 1 /\ 0 <= i /\ i < len /\ 1 <= j /\ j < len /\ j - 1 \in Index /\ i \in Index
  BY ElementTypes DEF IInv, ScanDown, Scanning, Index, TypeOK
<1>2. /\ UNCHANGED <<len, import_nums, arr, i, Index, pivot>> /\ j' = j - 1 /\ pc = "down"
      /\ pc' = IF more_below(j - 1) THEN "down" ELSE "swap"
  BY DEF ScanDown, Index, pivot
<1>3. TypeOK'
  BY <1>1, <1>2, ElementTypes DEF IInv, TypeOK, Index
<1>4. Permutation'
  BY <1>2 DEF IInv, Permutation
<1>5. Scanning'
  BY <1>1, <1>2, ElementTypes DEF IInv, Scanning, more_below
<1>6. CASE more_below(j - 1)
  <2>1. \A a \in Index : a >= j - 1 => arr[a].value >= pivot
    <3> TAKE a \in Index
    <3>1. CASE a = j - 1
      BY <1>1, <1>6, <3>1, ElementTypes DEF IInv, more_below
    <3>2. CASE a # j - 1
      BY <1>2, <3>2, ElementTypes DEF IInv, Sides, Index
    <3> QED
      BY <3>1, <3>2
  <2>2. Sides'
    BY <1>2, <1>6, <2>1 DEF IInv, Sides
  <2> QED
    BY <1>3, <1>4, <1>5, <2>2 DEF IInv
<1>7. CASE ~more_below(j - 1)
  <2>1. \A a \in Index : a > j - 1 => arr[a].value >= pivot
    BY <1>2, ElementTypes DEF IInv, Sides, Index
  <2>2. i < j - 1 => arr[j - 1].value <= pivot
    BY <1>1, <1>7, ElementTypes DEF IInv, more_below
  <2>3. Sides'
    BY <1>1, <1>2, <1>7, <2>1, <2>2 DEF IInv, Sides
  <2> QED
    BY <1>3, <1>4, <1>5, <2>3 DEF IInv
<1> QED
  BY <1>6, <1>7

LEMMA SwapInv == IInv /\ Swap => IInv'
<1> SUFFICES ASSUME IInv, Swap PROVE IInv'
  OBVIOUS
<1>1. /\ len > 1 /\ 0 <= i /\ i < j /\ j < len - 1
      /\ i \in Index /\ j \in Index /\ len - 1 \in Index /\ i # len - 1 /\ j # len - 1
  BY ElementTypes DEF IInv, Swap, Scanning, Index
<1>2. /\ UNCHANGED <<len, import_nums, i, j, Index>> /\ pc = "swap" /\ pc' = "up"
      /\ arr' = [arr EXCEPT ![i] = arr[j], ![j] = arr[i]]
  BY DEF Swap, Index, tuple_swap
<1>3. arr \in [Index -> [orig_idx : Index, value : Counts]]
  BY DEF IInv, TypeOK
<1>4. /\ arr' \in [Index -> [orig_idx : Index, value : Counts]]
      /\ arr'[i] = arr[j] /\ arr'[j] = arr[i]
      /\ \A a \in Index : a # i /\ a # j => arr'[a] = arr[a]
  BY <1>1, <1>2, <1>3
<1>5. pivot' = pivot
  BY <1>1, <1>2, <1>4 DEF pivot
<1>6. TypeOK'
  BY <1>2, <1>4 DEF IInv, TypeOK
<1>7. Scanning'
  BY <1>1, <1>2, ElementTypes DEF IInv, Scanning
<1>8. Permutation'
  <2>1. ASSUME NEW a \in Index, NEW b \in Index, arr'[a].orig_idx = arr'[b].orig_idx
        PROVE  a = b
    <3>1. PICK p \in Index : /\ arr'[a] = arr[p]
                             /\ IF a = i THEN p = j ELSE IF a = j THEN p = i ELSE p = a
      BY <1>1, <1>4
    <3>2. PICK q \in Index : /\ arr'[b] = arr[q]
                             /\ IF b = i THEN q = j ELSE IF b = j THEN q = i ELSE q = b
      BY <1>1, <1>4
    <3>3. arr[p].orig_idx = arr[q].orig_idx => p = q
      BY DEF IInv, Permutation
    <3> QED
      BY <2>1, <3>1, <3>2, <3>3
  <2>2. ASSUME NEW m \in Index PROVE \E a \in Index : arr'[a].orig_idx = m
    <3>1. PICK a \in Index : arr[a].orig_idx = m
      BY DEF IInv, Permutation
    <3> QED
      BY <1>1, <1>4, <3>1
  <2>3. ASSUME NEW a \in Index PROVE arr'[a].value = import_nums[arr'[a].orig_idx]
    <3>1. PICK p \in Index : arr'[a] = arr[p]
      BY <1>1, <1>4
    <3>2. arr[p].value = import_nums[arr[p].orig_idx]
      BY DEF IInv, Permutation
    <3> QED
      BY <3>1, <3>2
  <2> QED
    BY <1>2, <2>1, <2>2, <2>3 DEF Permutation
<1>9. Sides'
  <2>1. arr[i].value >= pivot /\ arr[j].value <= pivot
    BY <1>1, <1>2 DEF IInv, Sides
  <2>2. \A a \in Index : a <= i => arr'[a].value <= pivot
    BY <1>1, <1>2, <1>4, <2>1, ElementTypes DEF IInv, Sides, Index
  <2>3. \A a \in Index : a >= j => arr'[a].value >= pivot
    BY <1>1, <1>2, <1>4, <2>1, ElementTypes DEF IInv, Sides, Index
  <2> QED
    BY <1>2, <1>5, <2>2, <2>3 DEF Sides
<1> QED
  BY <1>6, <1>7, <1>8, <1>9 DEF IInv

LEMMA NextInv == IInv /\ [Next]_vars => IInv'
<1> SUFFICES ASSUME IInv, [Next]_vars PROVE IInv'
  OBVIOUS
<1>1. CASE Start
  <2>1. /\ UNCHANGED <<len, import_nums, arr, i, j, Index, pivot>> /\ pc = "start"
        /\ pc' = IF len <= 1 THEN "done" ELSE "up"
    BY <1>1 DEF Start, Index, pivot
  <2>2. TypeOK' /\ Permutation'
    BY <2>1 DEF IInv, TypeOK, Permutation
  <2>3. i = -1 /\ j = len - 1
    BY <2>1 DEF IInv, Scanning
  <2>4. Scanning'
    BY <2>1, <2>3, ElementTypes DEF IInv, Scanning
  <2>5. Sides'
    BY <2>1, <2>3, ElementTypes DEF IInv, Sides, Index, pivot
  <2> QED
    BY <2>2, <2>4, <2>5 DEF IInv
<1>2. CASE Break
  <2>1. UNCHANGED <<len, import_nums, arr, i, j, Index, pivot>> /\ pc = "swap" /\ pc' = "done" /\ i >= j
    BY <1>2 DEF Break, Index, pivot
  <2> QED
    BY <2>1 DEF IInv, TypeOK, Permutation, Scanning, Sides
<1>3. CASE UNCHANGED vars
  BY <1>3 DEF vars, IInv, TypeOK, Permutation, Scanning, Sides, Index, pivot
<1> QED
  BY <1>1, <1>2, <1>3, ScanUpInv, ScanDownInv, SwapInv DEF Next, Done

LEMMA InvImplies == IInv => ReadsInBounds /\ Partitioned
<1> SUFFICES ASSUME IInv PROVE ReadsInBounds /\ Partitioned
  OBVIOUS
<1>1. ReadsInBounds
  BY ElementTypes DEF IInv, Scanning, ReadsInBounds, Index
<1>2. Partitioned
  <2> SUFFICES ASSUME pc = "done", len > 1, NEW a \in Index
               PROVE  IF a < i THEN arr[a].value <= pivot ELSE arr[a].value >= pivot
    BY DEF Partitioned
  <2>1. i >= j /\ i \in Int /\ j \in Int /\ a \in Int
    BY ElementTypes DEF IInv, Scanning, Index
  <2> QED
    BY <2>1 DEF IInv, Sides
<1> QED
  BY <1>1, <1>2

THEOREM TypeCorrect == Spec => []TypeOK
BY InitInv, NextInv, PTL DEF Spec, IInv

(* No read of the pass is outside the array (tuple.c:17-18), although      *)
(* neither scan tests its index before it reads.                           *)
THEOREM NeverOutOfBounds == Spec => []ReadsInBounds
BY InitInv, NextInv, InvImplies, PTL DEF Spec

(* The order always names every module once, so the type checker skips     *)
(* none (tuple.c:22, typecheck.c:269-279).                                 *)
THEOREM AlwaysPermutation == Spec => []Permutation
BY InitInv, NextInv, PTL DEF Spec, IInv

(* The pass ends with the partition it is named after.                     *)
THEOREM EndsPartitioned == Spec => []Partitioned
BY InitInv, NextInv, InvImplies, PTL DEF Spec
=============================================================================
