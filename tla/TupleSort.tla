----------------------------- MODULE TupleSort -----------------------------
(***************************************************************************)
(* The order in which the type checker visits the modules: tuple_isort of  *)
(* src/tuple.c, called by typecheck_sorted_mods with the number of imports *)
(* of each module.  tuple_inner_sort makes one pass of a partition around  *)
(* the last element and stops there: the result is not sorted, but it is   *)
(* the permutation typecheck_check needs to visit each module once.        *)
(* Indices are those of the C arrays, from 0.                              *)
(***************************************************************************)
EXTENDS Integers

CONSTANTS MaxLen,     \* the most modules a compilation has
          Counts      \* the import counts of modules

ASSUME MaxLenAssumption == MaxLen \in Nat
ASSUME CountsAssumption == Counts \subseteq Nat

VARIABLES len,          \* the number of modules
          import_nums,  \* module -> its import count
          arr,          \* the tuples being ordered
          i, j,         \* the scanning indices
          pc            \* "start", "up", "down", "swap", "done"

vars == <<len, import_nums, arr, i, j, pc>>

Index == 0 .. len - 1
pivot == arr[len - 1].value

tuples(n, nums) == [k \in 0 .. n - 1 |-> [orig_idx |-> k, value |-> nums[k]]]

(* tuple_isort up to its call of tuple_inner_sort. *)
Init == /\ len \in 0 .. MaxLen
        /\ import_nums \in [0 .. len - 1 -> Counts]
        /\ arr = tuples(len, import_nums)
        /\ i = -1
        /\ j = len - 1
        /\ pc = "start"

Start == /\ pc = "start"
         /\ pc' = IF len <= 1 THEN "done" ELSE "up"
         /\ UNCHANGED <<len, import_nums, arr, i, j>>

(* One round of  while (arr[++i].value < pivot->value); *)
ScanUp == /\ pc = "up"
          /\ i' = i + 1
          /\ pc' = IF arr[i + 1].value < pivot THEN "up" ELSE "down"
          /\ UNCHANGED <<len, import_nums, arr, j>>

(* Mutants: the down scan does not test j, looks for a larger element, or  *)
(* does not move; a swap copies one way only.                              *)
Unbounded_more_below(k) == arr[k].value > pivot
Wrong_more_below(k) == arr[k].value < pivot /\ k > 0
Stuck_ScanDown == /\ pc = "down"
                  /\ pc' = IF arr[j].value >= pivot THEN "down" ELSE "swap"
                  /\ UNCHANGED <<len, import_nums, arr, i, j>>
OneWay_tuple_swap(a, b) == [arr EXCEPT ![a] = arr[b]]

(* The condition of  while (arr[--j].value > pivot->value && j > 0);  *)
more_below(k) == arr[k].value > pivot /\ k > 0

ScanDown == /\ pc = "down"
            /\ j' = j - 1
            /\ pc' = IF more_below(j - 1) THEN "down" ELSE "swap"
            /\ UNCHANGED <<len, import_nums, arr, i>>

tuple_swap(a, b) == [arr EXCEPT ![a] = arr[b], ![b] = arr[a]]

Break == /\ pc = "swap"
         /\ i >= j
         /\ pc' = "done"
         /\ UNCHANGED <<len, import_nums, arr, i, j>>

Swap == /\ pc = "swap"
        /\ i < j
        /\ arr' = tuple_swap(i, j)
        /\ pc' = "up"
        /\ UNCHANGED <<len, import_nums, i, j>>

Done == pc = "done" /\ UNCHANGED vars

Next == Start \/ ScanUp \/ ScanDown \/ Break \/ Swap \/ Done

Spec == Init /\ [][Next]_vars
FairSpec == Spec /\ WF_vars(Next)

(* The order of the modules that tuple_isort returns. *)
result == [k \in Index |-> arr[k].orig_idx]

-----------------------------------------------------------------------------
TypeOK == /\ len \in 0 .. MaxLen
          /\ import_nums \in [Index -> Counts]
          /\ arr \in [Index -> [orig_idx : Index, value : Counts]]
          /\ i \in -1 .. len
          /\ j \in -1 .. len
          /\ pc \in {"start", "up", "down", "swap", "done"}

(* The scans have no bound of their own on one side (tuple.c:17) and test  *)
(* theirs after the read on the other (tuple.c:18): still each element     *)
(* they are about to read is one of the array.                             *)
ReadsInBounds == /\ pc = "up" => i + 1 \in Index
                 /\ pc = "down" => j - 1 \in Index
                 /\ pc = "swap" => i \in Index /\ j \in Index

(* Every module is somewhere in the order, once, with its own count, all   *)
(* along the pass: typecheck_check (typecheck.c:269) misses no module.     *)
Permutation ==
    /\ \A a, b \in Index : arr[a].orig_idx = arr[b].orig_idx => a = b
    /\ \A m \in Index : \E a \in Index : arr[a].orig_idx = m
    /\ \A a \in Index : arr[a].value = import_nums[arr[a].orig_idx]

(* What the pass does establish: where the up scan stopped separates the   *)
(* modules with at most the last one's imports from those with at least.   *)
Partitioned ==
    pc = "done" /\ len > 1 =>
        \A a \in Index : IF a < i THEN arr[a].value <= pivot ELSE arr[a].value >= pivot

(* The pass ends, whatever the counts: the outer loop is a while (true).   *)
Termination == <>(pc = "done")
=============================================================================
