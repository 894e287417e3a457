---------------------------- MODULE SourceProofs ----------------------------
(***************************************************************************)
(* Source for all texts: what the walk has passed is counted, whatever is  *)
(* still before it.                                                        *)
(***************************************************************************)
EXTENDS Source, FiniteSetTheorems, TLAPS

Passed == ptr + 1 .. start

Counted ==
    /\ lines = 1 + Cardinality(Breaks(Passed))
    /\ lines <= 1 + start - ptr

Column ==
    LET before == Breaks(Passed \ {start})
    IN  IF before = {} THEN last_nl = start
                       ELSE last_nl \in before /\ \A k \in before : k <= last_nl

IInv == TypeOK /\ Counted /\ Column

LEMMA CodeFacts ==
    TypeOK => /\ DOMAIN code = 1 .. Len(code) /\ Len(code) \in Nat
              /\ start \in 0 .. Len(code) /\ start \in Nat /\ ptr \in Nat /\ ptr <= start
BY CodesAssumption DEF TypeOK

LEMMA BreaksFinite ==
    ASSUME NEW a \in Int, NEW b \in Int
    PROVE  IsFiniteSet(Breaks(a .. b))
<1>1. IsFiniteSet(a .. b)
  BY FS_Interval
<1> QED
  BY <1>1, FS_Subset DEF Breaks

LEMMA InitInv == Init => IInv
<1> SUFFICES ASSUME Init PROVE IInv
  OBVIOUS
<1>1. DOMAIN code = 1 .. Len(code) /\ Len(code) \in Nat
  BY CodesAssumption DEF Init
<1>2. start \in Nat /\ Passed = {}
  BY <1>1 DEF Init, Passed
<1>3. Breaks(Passed) = {} /\ Breaks(Passed \ {start}) = {}
  BY <1>2 DEF Breaks
<1>4. TypeOK
  BY <1>2 DEF Init, TypeOK
<1>5. Counted
  BY <1>2, <1>3, FS_EmptySet DEF Init, Counted
<1> QED
  BY <1>3, <1>4, <1>5 DEF Init, IInv, Column

LEMMA StepInv == IInv /\ source_find_line => IInv'
<1> SUFFICES ASSUME IInv, source_find_line PROVE IInv'
  OBVIOUS
<1>1. /\ start \in Nat /\ ptr \in Nat /\ ptr <= start /\ ptr # 0
      /\ ptr' = ptr - 1 /\ start' = start /\ code' = code
      /\ lines \in Int /\ last_nl \in Int
  BY CodeFacts DEF IInv, TypeOK, source_find_line, walking
<1>2. Passed' = Passed \cup {ptr} /\ ptr \notin Passed
  BY <1>1 DEF Passed
<1>3. Breaks(Passed)' = IF BreaksAt(ptr) THEN Breaks(Passed) \cup {ptr} ELSE Breaks(Passed)
  BY <1>1, <1>2 DEF Breaks, BreaksAt
<1>4. IsFiniteSet(Breaks(Passed)) /\ ptr \notin Breaks(Passed)
  BY <1>1, <1>2, BreaksFinite DEF Passed, Breaks
<1>5. Counted'
  <2>1. Cardinality(Breaks(Passed)') = IF BreaksAt(ptr) THEN Cardinality(Breaks(Passed)) + 1
                                                       ELSE Cardinality(Breaks(Passed))
    BY <1>3, <1>4, FS_AddElement
  <2>2. Cardinality(Breaks(Passed)) \in Nat
    BY <1>4, FS_CardinalityType
  <2>3. lines' = IF BreaksAt(ptr) THEN lines + 1 ELSE lines
    BY DEF source_find_line
  <2>4. lines = 1 + Cardinality(Breaks(Passed)) /\ lines <= 1 + start - ptr
    BY DEF IInv, Counted
  <2>5. lines' = 1 + Cardinality(Breaks(Passed)') /\ lines' <= 1 + start' - ptr'
    BY <1>1, <2>1, <2>2, <2>3, <2>4
  <2> QED
    BY <2>5 DEF Counted
<1>6. TypeOK'
  BY <1>1, <1>4, <1>5, CodeFacts, FS_CardinalityType DEF IInv, TypeOK, Counted, source_find_line
<1>7. Column'
  <2>1. (Passed \ {start})' = IF ptr = start THEN {} ELSE (Passed \ {start}) \cup {ptr}
    BY <1>1, <1>2 DEF Passed
  <2>2. Breaks(Passed \ {start})' =
          IF BreaksAt(ptr) /\ ptr # start THEN Breaks(Passed \ {start}) \cup {ptr}
                                          ELSE Breaks(Passed \ {start})
    BY <1>1, <2>1 DEF Breaks, BreaksAt, Passed
  <2>3. \A k \in Breaks(Passed \ {start}) : k \in Int /\ k > ptr /\ k < start
    BY <1>1 DEF Breaks, Passed
  <2>4. last_nl' = IF BreaksAt(ptr) /\ last_nl = start THEN ptr ELSE last_nl
    BY DEF source_find_line
  <2>5. CASE Breaks(Passed \ {start}) = {}
    <3>1. last_nl = start
      BY <2>5 DEF IInv, Column
    <3>2. IF Breaks(Passed \ {start})' = {} THEN last_nl' = start'
          ELSE /\ last_nl' \in Breaks(Passed \ {start})'
               /\ \A k \in Breaks(Passed \ {start})' : k <= last_nl'
      <4>1. CASE BreaksAt(ptr) /\ ptr # start
        <5>1. Breaks(Passed \ {start})' = {ptr}
          BY <2>2, <2>5, <4>1
        <5>2. last_nl' = ptr
          BY <2>4, <3>1, <4>1
        <5> QED
          BY <1>1, <5>1, <5>2
      <4>2. CASE ~(BreaksAt(ptr) /\ ptr # start)
        BY <1>1, <2>2, <2>4, <2>5, <3>1, <4>2
      <4> QED
        BY <4>1, <4>2
    <3> QED
      BY <3>2, <1>1 DEF Column
  <2>6. CASE Breaks(Passed \ {start}) # {}
    <3>1. /\ last_nl \in Breaks(Passed \ {start})
          /\ \A k \in Breaks(Passed \ {start}) : k <= last_nl
      BY <2>6 DEF IInv, Column
    <3>2. last_nl' = last_nl
      BY <1>1, <2>3, <2>4, <3>1
    <3>3. \A k : k \in Breaks(Passed \ {start})' =>
                  k \in Breaks(Passed \ {start}) \/ k = ptr
      BY <2>2
    <3>4. Breaks(Passed \ {start}) \subseteq Breaks(Passed \ {start})'
      BY <2>2
    <3>5. last_nl \in Int /\ ptr < last_nl
      BY <2>3, <3>1
    <3>6. /\ Breaks(Passed \ {start})' # {}
          /\ last_nl' \in Breaks(Passed \ {start})'
          /\ \A k \in Breaks(Passed \ {start})' : k <= last_nl'
      <4>1. ASSUME NEW k \in Breaks(Passed \ {start})' PROVE k <= last_nl
        <5>1. CASE k \in Breaks(Passed \ {start})
          BY <3>1, <5>1
        <5>2. CASE k = ptr
          BY <1>1, <3>5, <5>2
        <5> QED
          BY <3>3, <5>1, <5>2
      <4>2. last_nl \in Breaks(Passed \ {start})'
        BY <3>1, <3>4
      <4> QED
        BY <3>2, <4>1, <4>2
    <3> QED
      BY <3>6 DEF Column
  <2> QED
    BY <2>5, <2>6
<1> QED
  BY <1>5, <1>6, <1>7 DEF IInv

LEMMA InvPosition == IInv => Position
<1> DEFINE before == Breaks(0 .. start - 1)
           seen == before \ {0}
<1> SUFFICES ASSUME IInv, ~walking
             PROVE  /\ lines = 1 + Cardinality(before)
                                 + One(start # 0 /\ BreaksAt(start)) - One(start # 0 /\ BreaksAt(0))
                    /\ IF seen = {} THEN last_nl = start
                                    ELSE last_nl \in seen /\ \A k \in seen : k <= last_nl
  BY DEF Position
<1>1. start \in Nat /\ ptr = 0
  BY CodeFacts DEF IInv, walking
<1>2. Breaks(Passed \ {start}) = seen
  BY <1>1 DEF Passed, Breaks
<1>3. IsFiniteSet(before) /\ IsFiniteSet(seen)
  <2>1. IsFiniteSet(before)
    BY <1>1, BreaksFinite
  <2> QED
    BY <2>1, FS_Subset
<1>4. Cardinality(seen) = Cardinality(before) - One(start # 0 /\ BreaksAt(0))
  <2>1. 0 \in before <=> start # 0 /\ BreaksAt(0)
    BY <1>1 DEF Breaks
  <2>2. CASE 0 \in before
    <3>1. Cardinality(seen) = Cardinality(before) - 1
      BY <1>3, <2>2, FS_RemoveElement
    <3> QED
      BY <2>1, <2>2, <3>1 DEF One
  <2>3. CASE 0 \notin before
    <3>1. seen = before
      BY <2>3
    <3>2. Cardinality(before) \in Nat
      BY <1>3, FS_CardinalityType
    <3>3. One(start # 0 /\ BreaksAt(0)) = 0
      BY <2>1, <2>3 DEF One
    <3> HIDE DEF seen, before
    <3> QED
      BY <3>1, <3>2, <3>3
  <2> QED
    BY <2>2, <2>3
<1>5. Cardinality(Breaks(Passed)) = Cardinality(seen) + One(start # 0 /\ BreaksAt(start))
  <2>1. Breaks(Passed) = IF start # 0 /\ BreaksAt(start) THEN seen \cup {start} ELSE seen
    BY <1>1 DEF Passed, Breaks
  <2>2. start \notin seen /\ Cardinality(seen) \in Nat
    BY <1>1, <1>3, FS_CardinalityType DEF Breaks
  <2>3. Cardinality(seen \cup {start}) = Cardinality(seen) + 1
    BY <1>3, <2>2, FS_AddElement
  <2> HIDE DEF seen
  <2> QED
    BY <2>1, <2>2, <2>3 DEF One
<1>6. /\ lines = 1 + Cardinality(before)
                   + One(start # 0 /\ BreaksAt(start)) - One(start # 0 /\ BreaksAt(0))
  <2>1. Cardinality(before) \in Nat
    BY <1>3, FS_CardinalityType
  <2> HIDE DEF before
  <2> QED
    BY <1>4, <1>5, <2>1 DEF IInv, Counted, One
<1> QED
  BY <1>2, <1>6 DEF IInv, Column

LEMMA Invariant == Spec => []IInv
<1>1. IInv /\ [Next]_vars => IInv'
  <2> SUFFICES ASSUME IInv, [Next]_vars PROVE IInv'
    OBVIOUS
  <2>1. CASE UNCHANGED vars
    BY <2>1 DEF vars, IInv, TypeOK, Counted, Column, Passed, Breaks, BreaksAt
  <2> QED
    BY <2>1, StepInv DEF Next, Found
<1> QED
  BY <1>1, InitInv, PTL DEF Spec

(* The walk stays inside the text, and counts no more lines than there are *)
(* characters, for every text and offset (source.c:41-63).                 *)
THEOREM TypeCorrect == Spec => []TypeOK
<1>1. IInv => TypeOK
  BY DEF IInv
<1> QED
  BY <1>1, Invariant, PTL

(* Which line and column are printed, for every text and offset, and so    *)
(* when they are not those of the offset: where the offset is a line       *)
(* break, where the text begins with one, and in the first line, of which  *)
(* no column but 0 is printed (source.c:41-63).                            *)
THEOREM AlwaysPosition == Spec => []Position
BY InvPosition, Invariant, PTL
=============================================================================
