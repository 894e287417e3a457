-------------------------------- MODULE Map --------------------------------
(***************************************************************************)
(* The chained hash table of src/map.c.                                    *)
(*                                                                         *)
(* A bucket and the buckets its `next` pointers reach are a chain: a       *)
(* sequence of items, empty when the head's key is NULL.  `len` is kept    *)
(* because map_resize_if_needed compares it with the capacity, although no *)
(* operation ever counts an item: the growth it guards, which would lose   *)
(* every item, is therefore unreachable.                                   *)
(***************************************************************************)
EXTENDS Integers, Sequences

CONSTANTS Keys,        \* the identifiers and paths used as keys
          Values,      \* the pointers stored (NULL may be one of them)
          NULL,
          Caps,        \* the capacities map_with_cap is called with
          Slot(_, _)   \* Slot(cap, k): map_get_idx, the hash of k & (cap - 1)

VARIABLES buckets,     \* slot -> chain of items
          len,
          cap,
          call,        \* the last operation and its arguments
          ret          \* what it returned

vars == <<buckets, len, cap, call, ret>>

DEFAULT_CAP == 16      \* what an insertion gives a table without buckets

(* next_pow_of_2 for the odd sizes it is called with; 1 gives 2. *)
next_pow_of_2(n) ==
    CHOOSE p \in {2^e : e \in 1..30} :
        /\ n <= p
        /\ \A q \in {2^e : e \in 1..30} : n <= q => p <= q

(* The capacity map_with_cap gives a table: an even request is kept as it  *)
(* is, a power of two or not.                                              *)
map_with_cap(c) == IF c % 2 # 0 THEN next_pow_of_2(c) ELSE c

UsedCaps == {DEFAULT_CAP} \cup {map_with_cap(c) : c \in Caps}

ASSUME CapsAssumption == UsedCaps \subseteq Nat \ {0}

(* h & (cap - 1) is between 0 and cap - 1 whatever the hash h is. *)
ASSUME SlotAssumption ==
    \A c \in UsedCaps, k \in Keys : Slot(c, k) \in 0 .. c - 1

Item == [key : Keys, value : Values]

Empty(c) == [s \in 0 .. c - 1 |-> <<>>]

-----------------------------------------------------------------------------
(* The table of map_create has no buckets, that of map_with_cap has some.  *)
Init == /\ cap \in {0} \cup {map_with_cap(c) : c \in Caps}
        /\ buckets = Empty(cap)
        /\ len = 0
        /\ call = <<"create">> /\ ret = NULL

(* map_resize_if_needed.  The new array has the old size, and of the old   *)
(* items map_insert_all only takes those of the empty buckets: none.       *)
Resized ==
    LET c == IF cap = 0 THEN DEFAULT_CAP ELSE cap
        b == IF cap = 0 THEN Empty(DEFAULT_CAP) ELSE buckets
    IN  IF 4 * len > 3 * c
        THEN [buckets |-> Empty(c), cap |-> 2 * c]
        ELSE [buckets |-> b, cap |-> c]

Matches(chain, k) == {i \in DOMAIN chain : chain[i].key = k}

(* The first item of the chain with key k; the walk stops there. *)
First(chain, k) == CHOOSE i \in Matches(chain, k) :
                       \A j \in Matches(chain, k) : i <= j

(* Mutants: the chain is not searched; it is searched for an empty bucket. *)
NoSearch_Chained(chain, k, v) == Append(chain, [key |-> k, value |-> v])
HeadOnly_Chained(chain, k, v) ==
    IF chain = <<>> THEN Append(chain, [key |-> k, value |-> v])
                    ELSE [chain EXCEPT ![1] = [key |-> k, value |-> v]]

Chained(chain, k, v) ==
    IF Matches(chain, k) # {}
    THEN [chain EXCEPT ![First(chain, k)].value = v]
    ELSE Append(chain, [key |-> k, value |-> v])

(* Mutant: items are counted, as if the table could then grow. *)
Counting_map_insert(k, v) ==
    LET t == Resized
        s == Slot(t.cap, k)
    IN  /\ buckets' = [t.buckets EXCEPT ![s] = Chained(@, k, v)]
        /\ cap' = t.cap
        /\ call' = <<"insert", k, v>>
        /\ ret' = (Matches(t.buckets[s], k) # {})
        /\ len' = len + 1

map_insert(k, v) ==
    LET t == Resized
        s == Slot(t.cap, k)
    IN  /\ buckets' = [t.buckets EXCEPT ![s] = Chained(@, k, v)]
        /\ cap' = t.cap
        /\ call' = <<"insert", k, v>>
        /\ ret' = (Matches(t.buckets[s], k) # {})
        /\ UNCHANGED len

(* A table of map_create that nothing was inserted in has no buckets. *)
map_get_unallocated(k) ==
    /\ cap = 0
    /\ call' = <<"get", k>>
    /\ ret' = NULL
    /\ UNCHANGED <<buckets, len, cap>>

map_get(k) ==
    /\ cap # 0
    /\ LET chain == buckets[Slot(cap, k)]
       IN  ret' = IF Matches(chain, k) # {}
                  THEN chain[First(chain, k)].value
                  ELSE NULL
    /\ call' = <<"get", k>>
    /\ UNCHANGED <<buckets, len, cap>>

Next == \/ \E k \in Keys, v \in Values : map_insert(k, v)
        \/ \E k \in Keys : map_get_unallocated(k)
        \/ \E k \in Keys : map_get(k)

Spec == Init /\ [][Next]_vars

-----------------------------------------------------------------------------
(* The state stays within its types; in particular nothing counts the      *)
(* items, and the array always has one chain for every slot (map.c:78).    *)
TypeOK == /\ cap \in {0} \cup UsedCaps
          /\ len = 0
          /\ buckets \in [0 .. cap - 1 -> Seq(Item)]
          /\ ret \in Values \cup BOOLEAN \cup {NULL}

(* An item is only ever looked for in the slot of its key, so it must be   *)
(* there; and at most one item has a key, or the later ones are dead and   *)
(* an update misses them (map_insert, map.c:92-118).                       *)
ItemsFindable ==
    \A s \in DOMAIN buckets : \A i \in DOMAIN buckets[s] :
        /\ Slot(cap, buckets[s][i].key) = s
        /\ \A j \in DOMAIN buckets[s] :
               buckets[s][i].key = buckets[s][j].key => i = j

(* The table as a dictionary. *)
Chain(k) == buckets[Slot(cap, k)]
Bound == {k \in Keys : cap # 0 /\ Matches(Chain(k), k) # {}}
Contents == [k \in Bound |-> Chain(k)[First(Chain(k), k)].value]

Dict == INSTANCE Dictionary WITH dict <- Contents

(* Whatever keys collide and whatever its capacity, the table answers as a *)
(* dictionary does: no insertion is lost, none disturbs another key, and   *)
(* the results of map_insert and map_get are the dictionary's.             *)
Refinement == Dict!Spec
=============================================================================
