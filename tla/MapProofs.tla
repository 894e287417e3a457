----------------------------- MODULE MapProofs -----------------------------
(***************************************************************************)
(* The hash table implements the dictionary, for all keys, values, initial *)
(* capacities and hash functions.                                          *)
(***************************************************************************)
EXTENDS Map, TLAPS

(* The chains of the array b of capacity c hold the right items, each once. *)
UniqueKeys(chain) == \A i, j \in DOMAIN chain : chain[i].key = chain[j].key => i = j
Sound(b, c) == /\ b \in [0 .. c - 1 -> Seq(Item)]
               /\ \A s \in 0 .. c - 1 : /\ \A i \in DOMAIN b[s] : Slot(c, b[s][i].key) = s
                                        /\ UniqueKeys(b[s])

IInv == TypeOK /\ ItemsFindable

LEMMA IInvSound == IInv => Sound(buckets, cap)
BY DEF IInv, TypeOK, ItemsFindable, Sound, UniqueKeys

(* A key's only item is the one a walk along the chain finds. *)
LEMMA FirstIsOnly ==
    ASSUME NEW chain \in Seq(Item), UniqueKeys(chain), NEW k,
           NEW i \in DOMAIN chain, chain[i].key = k
    PROVE  Matches(chain, k) = {i} /\ First(chain, k) = i
<1>1. Matches(chain, k) = {i}
  BY DEF Matches, UniqueKeys
<1>2. i <= i
  BY DEF Item
<1> QED
  BY <1>1, <1>2 DEF First

(* What an insertion does to the chain of its key. *)
LEMMA ChainedFacts ==
    ASSUME NEW chain \in Seq(Item), UniqueKeys(chain), NEW k \in Keys, NEW v \in Values
    PROVE  LET c == Chained(chain, k, v)
           IN  /\ c \in Seq(Item)
               /\ UniqueKeys(c)
               /\ \A i \in DOMAIN c : c[i].key = k \/ \E j \in DOMAIN chain : c[i].key = chain[j].key
               /\ Matches(c, k) # {}
               /\ c[First(c, k)].value = v
               /\ \A x \in Keys \ {k} :
                      /\ Matches(c, x) = Matches(chain, x)
                      /\ \A i \in Matches(chain, x) : c[i] = chain[i]
<1> DEFINE c == Chained(chain, k, v)
<1>1. CASE Matches(chain, k) # {}
  <2>1. PICK m \in DOMAIN chain : chain[m].key = k
    BY <1>1 DEF Matches
  <2>2. First(chain, k) = m
    BY <2>1, FirstIsOnly
  <2>3. c = [chain EXCEPT ![m].value = v]
    BY <1>1, <2>2 DEF Chained
  <2>4. chain[m] \in Item /\ [chain[m] EXCEPT !.value = v] \in Item
    <3>1. chain[m] \in Item
      BY <2>1
    <3> QED
      BY <3>1 DEF Item
  <2>5. c \in Seq(Item) /\ DOMAIN c = DOMAIN chain
    BY <2>3, <2>4
  <2>6. \A i \in DOMAIN chain : i # m => c[i] = chain[i]
    BY <2>3
  <2>7. c[m].key = k /\ c[m].value = v
    BY <2>1, <2>3, <2>4 DEF Item
  <2>8. \A i \in DOMAIN chain : c[i].key = chain[i].key
    BY <2>1, <2>6, <2>7
  <2>9. UniqueKeys(c)
    BY <2>5, <2>8 DEF UniqueKeys
  <2>10. First(c, k) = m /\ Matches(c, k) = {m}
    BY <2>5, <2>7, <2>9, FirstIsOnly
  <2>11. \A x \in Keys \ {k} : Matches(c, x) = Matches(chain, x)
    BY <2>5, <2>8 DEF Matches
  <2>12. ASSUME NEW x \in Keys \ {k}, NEW i \in Matches(chain, x) PROVE c[i] = chain[i]
    BY <2>1, <2>6 DEF Matches
  <2> QED
    BY <2>5, <2>7, <2>8, <2>9, <2>10, <2>11, <2>12
<1>2. CASE Matches(chain, k) = {}
  <2> DEFINE n == Len(chain) + 1
             item == [key |-> k, value |-> v]
  <2>1. c = Append(chain, item)
    BY <1>2 DEF Chained
  <2>2. item \in Item
    BY DEF Item
  <2>3. c \in Seq(Item) /\ Len(c) = n /\ c[n] = item /\ n \in DOMAIN c
    BY <2>1, <2>2
  <2>4. DOMAIN c = DOMAIN chain \cup {n} /\ n \notin DOMAIN chain
    BY <2>3
  <2>5. \A i \in DOMAIN chain : c[i] = chain[i]
    BY <2>1, <2>2
  <2>6. \A i \in DOMAIN chain : chain[i].key # k
    BY <1>2 DEF Matches
  <2>7. UniqueKeys(c)
    BY <2>3, <2>4, <2>5, <2>6 DEF UniqueKeys
  <2>8. First(c, k) = n /\ Matches(c, k) = {n}
    <3>1. c[n].key = k
      BY <2>3
    <3> HIDE DEF c, n
    <3> QED
      BY <2>3, <2>7, <3>1, FirstIsOnly
  <2>9. \A x \in Keys \ {k} : Matches(c, x) = Matches(chain, x)
    BY <2>3, <2>4, <2>5 DEF Matches
  <2>10. ASSUME NEW x \in Keys \ {k}, NEW i \in Matches(chain, x) PROVE c[i] = chain[i]
    BY <2>5 DEF Matches
  <2> QED
    BY <2>3, <2>4, <2>5, <2>7, <2>8, <2>9, <2>10
<1> QED
  BY <1>1, <1>2

-----------------------------------------------------------------------------
LEMMA EmptySound ==
    ASSUME NEW c \in {0} \cup UsedCaps
    PROVE  /\ Sound(Empty(c), c)
           /\ \A x \in Keys : c # 0 => Matches(Empty(c)[Slot(c, x)], x) = {}
<1>1. \A s \in 0 .. c - 1 : Empty(c)[s] = <<>>
  BY DEF Empty
<1>2. Empty(c) \in [0 .. c - 1 -> Seq(Item)]
  BY DEF Empty
<1>3. \A x \in Keys : c # 0 => Slot(c, x) \in 0 .. c - 1
  BY SlotAssumption
<1> QED
  BY <1>1, <1>2, <1>3 DEF Sound, UniqueKeys, Matches

(* The table an insertion works on: growth never happens, and a table that *)
(* had no buckets gets empty ones.                                         *)
LEMMA ResizedFacts ==
    ASSUME IInv
    PROVE  /\ Resized.cap \in UsedCaps
           /\ Sound(Resized.buckets, Resized.cap)
           /\ cap # 0 => Resized.cap = cap /\ Resized.buckets = buckets
           /\ cap = 0 => \A x \in Keys :
                             Matches(Resized.buckets[Slot(Resized.cap, x)], x) = {}
<1>1. len = 0 /\ cap \in {0} \cup UsedCaps /\ DEFAULT_CAP \in UsedCaps /\ DEFAULT_CAP = 16
  BY DEF IInv, TypeOK, UsedCaps, DEFAULT_CAP
<1>2. UsedCaps \subseteq Nat \ {0}
  BY CapsAssumption
<1>3. CASE cap = 0
  <2>1. Resized = [buckets |-> Empty(DEFAULT_CAP), cap |-> DEFAULT_CAP]
    BY <1>1, <1>3 DEF Resized
  <2> QED
    BY <1>1, <1>3, <2>1, EmptySound DEF DEFAULT_CAP
<1>4. CASE cap # 0
  <2>1. cap \in Nat \ {0}
    BY <1>1, <1>2, <1>4
  <2>2. Resized = [buckets |-> buckets, cap |-> cap]
    BY <1>1, <1>4, <2>1 DEF Resized
  <2> QED
    BY <1>1, <1>4, <2>2, IInvSound
<1> QED
  BY <1>3, <1>4

LEMMA InitInv == Init => IInv
<1> SUFFICES ASSUME Init PROVE IInv
  OBVIOUS
<1>1. cap \in {0} \cup UsedCaps /\ len = 0 /\ buckets = Empty(cap) /\ ret = NULL
  BY DEF Init, UsedCaps
<1>2. Sound(Empty(cap), cap)
  BY <1>1, EmptySound
<1> QED
  BY <1>1, <1>2 DEF IInv, TypeOK, ItemsFindable, Sound, UniqueKeys

(* The table after an insertion, and what can be found in it. *)
LEMMA InsertFacts ==
    ASSUME IInv, NEW k \in Keys, NEW v \in Values, map_insert(k, v)
    PROVE  /\ cap' \in UsedCaps
           /\ Sound(buckets, cap)'
           /\ call' = <<"insert", k, v>> /\ ret' = (k \in Bound)
           /\ Bound' = Bound \cup {k}
           /\ \A x \in Bound' : Contents'[x] = IF x = k THEN v ELSE Contents[x]
<1> DEFINE t == Resized
           s == Slot(t.cap, k)
           old == t.buckets[s]
           new == Chained(old, k, v)
<1>1. /\ t.cap \in UsedCaps
      /\ Sound(t.buckets, t.cap)
      /\ cap # 0 => t.cap = cap /\ t.buckets = buckets
      /\ cap = 0 => \A x \in Keys : Matches(t.buckets[Slot(t.cap, x)], x) = {}
  BY ResizedFacts
<1>2. /\ t.cap \in Nat \ {0}
      /\ \A x \in Keys : Slot(t.cap, x) \in 0 .. t.cap - 1
  BY <1>1, CapsAssumption, SlotAssumption
<1>3. s \in 0 .. t.cap - 1 /\ old \in Seq(Item) /\ UniqueKeys(old)
  BY <1>1, <1>2 DEF Sound
<1>4. cap' = t.cap /\ buckets' = [t.buckets EXCEPT ![s] = new] /\ ret' = (Matches(old, k) # {})
  BY DEF map_insert
<1>5. /\ new \in Seq(Item)
      /\ UniqueKeys(new)
      /\ \A i \in DOMAIN new : new[i].key = k \/ \E j \in DOMAIN old : new[i].key = old[j].key
      /\ Matches(new, k) # {}
      /\ new[First(new, k)].value = v
      /\ \A x \in Keys \ {k} : /\ Matches(new, x) = Matches(old, x)
                               /\ \A i \in Matches(old, x) : new[i] = old[i]
  <2> HIDE DEF t, s, old
  <2> QED
    BY <1>3, ChainedFacts DEF new
<1>6. /\ buckets' \in [0 .. cap' - 1 -> Seq(Item)]
      /\ buckets'[s] = new
      /\ \A r \in 0 .. cap' - 1 : r # s => buckets'[r] = t.buckets[r]
  BY <1>1, <1>3, <1>4, <1>5 DEF Sound
<1>7. Sound(buckets, cap)'
  <2>1. \A i \in DOMAIN new : Slot(t.cap, new[i].key) = s
    BY <1>1, <1>3, <1>5 DEF Sound
  <2> QED
    BY <1>1, <1>4, <1>5, <1>6, <2>1 DEF Sound
<1>8. \A x \in Keys : (x \in Bound) <=> Matches(t.buckets[Slot(t.cap, x)], x) # {}
  BY <1>1 DEF Bound, Chain
<1>9. \A x \in Keys \ {k} :
        LET c == t.buckets[Slot(t.cap, x)]
            d == buckets'[Slot(t.cap, x)]
        IN  Matches(d, x) = Matches(c, x) /\ \A i \in Matches(c, x) : d[i] = c[i]
  BY <1>2, <1>4, <1>5, <1>6
<1>10. \A x \in Keys : Chain(x)' = buckets'[Slot(t.cap, x)]
  BY <1>4 DEF Chain
<1>11. Bound' = Bound \cup {k}
  <2>1. \A x \in Keys : x \in Bound' <=> Matches(buckets'[Slot(t.cap, x)], x) # {}
    BY <1>2, <1>4, <1>10 DEF Bound
  <2> QED
    BY <1>5, <1>6, <1>8, <1>9, <2>1 DEF Bound
<1>12. ASSUME NEW x \in Bound' PROVE Contents'[x] = IF x = k THEN v ELSE Contents[x]
  <2>1. x \in Keys /\ Contents'[x] = Chain(x)'[First(Chain(x)', x)].value
    BY DEF Contents, Bound
  <2>2. CASE x = k
    BY <1>5, <1>6, <1>10, <2>1, <2>2
  <2>3. CASE x # k
    <3>1. x \in Bound
      BY <1>11, <2>3
    <3>2. Chain(x) = t.buckets[Slot(t.cap, x)] /\ Contents[x] = Chain(x)[First(Chain(x), x)].value
      BY <1>1, <3>1 DEF Contents, Bound, Chain
    <3>3. Chain(x) \in Seq(Item) /\ UniqueKeys(Chain(x))
      BY <1>1, <1>2, <2>1, <3>2 DEF Sound
    <3>4. PICK m \in DOMAIN Chain(x) : Chain(x)[m].key = x
      BY <3>1 DEF Bound, Matches
    <3>5. First(Chain(x), x) = m /\ Matches(Chain(x), x) = {m}
      BY <3>3, <3>4, FirstIsOnly
    <3>6. Matches(Chain(x)', x) = {m} /\ Chain(x)'[m] = Chain(x)[m]
      BY <1>9, <1>10, <2>1, <2>3, <3>2, <3>5
    <3>7. First(Chain(x)', x) = m
      BY <3>3, <3>4, <3>6 DEF First
    <3> QED
      BY <2>1, <2>3, <3>2, <3>5, <3>6, <3>7
  <2> QED
    BY <2>2, <2>3
<1>13. call' = <<"insert", k, v>> /\ ret' = (k \in Bound)
  BY <1>4, <1>8 DEF map_insert
<1> QED
  BY <1>1, <1>4, <1>7, <1>11, <1>12, <1>13

-----------------------------------------------------------------------------
LEMMA NextInv == IInv /\ [Next]_vars => IInv'
<1> SUFFICES ASSUME IInv, [Next]_vars PROVE IInv'
  OBVIOUS
<1>1. ASSUME NEW k \in Keys, NEW v \in Values, map_insert(k, v) PROVE IInv'
  <2>1. /\ cap' \in UsedCaps
        /\ Sound(buckets, cap)'
        /\ ret' = (k \in Bound)
    BY <1>1, InsertFacts
  <2>2. len' = 0
    BY <1>1 DEF map_insert, IInv, TypeOK
  <2>3. ret' \in BOOLEAN
    <3>1. CASE k \in Bound
      <4>1. ret' = TRUE
        BY <2>1, <3>1
      <4> QED
        BY <4>1
    <3>2. CASE k \notin Bound
      <4>1. (k \in Bound) = FALSE
        BY <3>2
      <4>2. ret' = FALSE
        BY <2>1, <4>1, Zenon
      <4> QED
        BY <4>2
    <3> QED
      BY <3>1, <3>2
  <2> QED
    BY <2>1, <2>2, <2>3 DEF IInv, TypeOK, ItemsFindable, Sound, UniqueKeys
<1>2. ASSUME NEW k \in Keys, map_get_unallocated(k) PROVE IInv'
  BY <1>2 DEF map_get_unallocated, IInv, TypeOK, ItemsFindable
<1>3. ASSUME NEW k \in Keys, map_get(k) PROVE IInv'
  <2> DEFINE chain == buckets[Slot(cap, k)]
  <2>1. cap \in UsedCaps
    BY <1>3 DEF map_get, IInv, TypeOK
  <2>2. Slot(cap, k) \in 0 .. cap - 1
    BY <2>1, SlotAssumption
  <2>3. chain \in Seq(Item) /\ UniqueKeys(chain)
    BY <2>2, IInvSound DEF Sound
  <2>4. ASSUME Matches(chain, k) # {} PROVE chain[First(chain, k)].value \in Values
    <3>1. PICK m \in DOMAIN chain : chain[m].key = k
      BY <2>4 DEF Matches
    <3>2. First(chain, k) = m /\ chain[m] \in Item
      BY <2>3, <3>1, FirstIsOnly
    <3> QED
      BY <3>2 DEF Item
  <2>5. ret' \in Values \cup BOOLEAN \cup {NULL}
    BY <1>3, <2>4 DEF map_get
  <2> QED
    BY <1>3, <2>5 DEF map_get, IInv, TypeOK, ItemsFindable
<1>4. CASE UNCHANGED vars
  BY <1>4 DEF vars, IInv, TypeOK, ItemsFindable
<1> QED
  BY <1>1, <1>2, <1>3, <1>4 DEF Next

THEOREM TypeCorrect == Spec => []TypeOK
BY InitInv, NextInv, PTL DEF Spec, IInv

(* No item is ever out of its slot or stored twice: map_insert and map_get *)
(* (map.c:78, map.c:124) see every item there is.                          *)
THEOREM AlwaysFindable == Spec => []ItemsFindable
BY InitInv, NextInv, PTL DEF Spec, IInv

(* The table is a dictionary (map.c, whole file): every step of it is an   *)
(* insertion, a lookup or a stutter of the dictionary's.                   *)
THEOREM ImplementsDictionary == Spec => Refinement
<1>1. Init => Dict!Init
  <2> SUFFICES ASSUME Init PROVE Dict!Init
    OBVIOUS
  <2>1. cap \in {0} \cup UsedCaps /\ buckets = Empty(cap) /\ call = <<"create">> /\ ret = NULL
    BY DEF Init, UsedCaps
  <2>2. Bound = {}
    BY <2>1, EmptySound DEF Bound, Chain
  <2> QED
    BY <2>1, <2>2 DEF Dict!Init, Contents
<1>2. IInv /\ [Next]_vars => [Dict!Next]_(Dict!vars)
  <2> SUFFICES ASSUME IInv, [Next]_vars PROVE [Dict!Next]_(Dict!vars)
    OBVIOUS
  <2>1. ASSUME NEW k \in Keys, NEW v \in Values, map_insert(k, v) PROVE Dict!Insert(k, v)
    <3>1. /\ call' = <<"insert", k, v>> /\ ret' = (k \in Bound)
          /\ Bound' = Bound \cup {k}
          /\ \A x \in Bound' : Contents'[x] = IF x = k THEN v ELSE Contents[x]
      BY <2>1, InsertFacts
    <3>2. DOMAIN Contents = Bound /\ DOMAIN Contents' = Bound'
      BY DEF Contents
    <3>3. Contents' = [x \in Bound \cup {k} |-> IF x = k THEN v ELSE Contents[x]]
      BY <3>1, <3>2 DEF Contents
    <3> QED
      BY <3>1, <3>2, <3>3 DEF Dict!Insert
  <2>2. ASSUME NEW k \in Keys, map_get_unallocated(k) PROVE Dict!Get(k)
    <3>1. k \notin DOMAIN Contents
      BY <2>2 DEF map_get_unallocated, Contents, Bound
    <3> QED
      BY <2>2, <3>1 DEF map_get_unallocated, Dict!Get, Contents, Bound, Chain
  <2>3. ASSUME NEW k \in Keys, map_get(k) PROVE Dict!Get(k)
    <3>1. k \in DOMAIN Contents <=> Matches(buckets[Slot(cap, k)], k) # {}
      BY <2>3 DEF map_get, Contents, Bound, Chain
    <3>2. k \in DOMAIN Contents => Contents[k] = buckets[Slot(cap, k)][First(buckets[Slot(cap, k)], k)].value
      BY DEF Contents, Chain
    <3>3. Contents' = Contents
      BY <2>3 DEF map_get, Contents, Bound, Chain
    <3> QED
      BY <2>3, <3>1, <3>2, <3>3 DEF map_get, Dict!Get
  <2>4. CASE UNCHANGED vars
    BY <2>4 DEF vars, Dict!vars, Contents, Bound, Chain
  <2> QED
    BY <2>1, <2>2, <2>3, <2>4 DEF Next, Dict!Next
<1> QED
  BY <1>1, <1>2, InitInv, NextInv, PTL DEF Spec, Refinement, Dict!Spec
=============================================================================
