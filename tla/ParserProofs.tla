---------------------------- MODULE ParserProofs ----------------------------
(***************************************************************************)
(* Parser for all files: how far it reads, that it loses no token without  *)
(* an error and keeps statements whole with any, that it never frees what  *)
(* the module keeps, and that without an error it frees nothing wrongly    *)
(* and leaves no node behind.  Driver, that runs it, for all libraries,    *)
(* command lines and files: what the map of modules leads to, that success *)
(* is that of every token, that no error frees what a module keeps, that   *)
(* files do not disturb each other, and what is printed of one that cannot *)
(* be read.                                                                *)
(***************************************************************************)
EXTENDS Driver, FiniteSetTheorems, WellFoundedInduction, SequenceTheorems, TLAPS

(* The least number principle, from the finite sets below each number.     *)
LEMMA Least ==
    ASSUME NEW S \in SUBSET Nat, S # {}
    PROVE  \E n \in S : \A m \in S : n <= m
<1> DEFINE T == {0 .. n : n \in S}
<1>1. T \subseteq FiniteSubsetsOf(Nat)
  <2>1. \A n \in S : IsFiniteSet(0 .. n)
    BY FS_Interval
  <2> QED
    BY <2>1 DEF FiniteSubsetsOf
<1>2. PICK X \in T : \A Y \in T : ~ (<<Y, X>> \in StrictSubsetOrdering(Nat))
  <2>1. T # {}
    OBVIOUS
  <2> HIDE DEF T
  <2> QED
    BY <1>1, <2>1, WFMin, FS_StrictSubsetOrderingWellFounded, Zenon
<1>3. PICK n \in S : X = 0 .. n
  BY <1>2
<1>4. ASSUME NEW m \in S, m < n PROVE FALSE
  <2>1. 0 .. m \in T /\ 0 .. m \subseteq 0 .. n /\ 0 .. m # 0 .. n
    <3>1. n \in 0 .. n /\ n \notin 0 .. m
      BY <1>4
    <3> QED
      BY <3>1, <1>4
  <2>2. 0 .. n \subseteq Nat /\ 0 .. m \subseteq Nat
    OBVIOUS
  <2>3. <<0 .. m, 0 .. n>> \in StrictSubsetOrdering(Nat)
    BY <2>1, <2>2, SMT DEF StrictSubsetOrdering
  <2>4. ~ (<<0 .. m, X>> \in StrictSubsetOrdering(Nat))
    BY <1>2, <2>1
  <2> QED
    BY <1>3, <2>3, <2>4, Zenon
<1> QED
  BY <1>3, <1>4

-----------------------------------------------------------------------------
(* Tokens. *)
File == Len(toks) \in Nat

(* A token other than that of the end is one of the file. *)
LEMMA Peeked ==
    ASSUME File, NEW i \in Nat, TokenAt(i) # "EOF"
    PROVE  i <= Len(toks)
BY DEF TokenAt

(* The parser moves by a token, or stays at the end. *)
LEMMA AdvancedRange ==
    ASSUME File, NEW p \in 0 .. Len(toks)
    PROVE  Advanced(p) \in p .. Len(toks)
BY DEF Advanced, File

(* Where a sequence of tokens has been consumed, or has not.               *)
Reaches(r, p) == r.ok \in BOOLEAN /\ r.to \in p .. Len(toks)

(* A run of CONSUME_OR_NULL reads its tokens, or stops inside the file. *)
LEMMA ConsumeReaches ==
    ASSUME File, NEW p \in 0 .. Len(toks), NEW S, NEW tys \in Seq(S),
           \A k \in DOMAIN tys : tys[k] # "EOF"
    PROVE  /\ Reaches(Consume(p, tys), p)
           /\ Consume(p, tys).ok => /\ Consume(p, tys).to = p + Len(tys)
                                    /\ \A k \in DOMAIN tys : TokenAt(p + k) = tys[k]
<1> DEFINE Bad == {k \in DOMAIN tys : TokenAt(p + k) # tys[k]}
<1>1. DOMAIN tys = 1 .. Len(tys) /\ Len(tys) \in Nat /\ p \in Nat /\ Len(toks) \in Nat
  BY DEF File
<1>2. CASE Bad = {}
  <2>1. Consume(p, tys) = [ok |-> TRUE, to |-> p + Len(tys)]
    BY <1>2 DEF Consume
  <2>2. p + Len(tys) <= Len(toks)
    <3>1. CASE Len(tys) = 0
      BY <1>1, <3>1
    <3>2. CASE Len(tys) # 0
      <4>1. Len(tys) \in DOMAIN tys
        BY <1>1, <3>2
      <4>2. TokenAt(p + Len(tys)) # "EOF"
        BY <1>2, <4>1
      <4> QED
        BY <1>1, <4>2, Peeked
    <3> QED
      BY <3>1, <3>2
  <2> QED
    BY <1>1, <1>2, <2>1, <2>2 DEF Reaches
<1>3. CASE Bad # {}
  <2> DEFINE Miss_(k) == /\ TokenAt(p + k) # tys[k]
                         /\ \A j \in 1 .. k - 1 : TokenAt(p + j) = tys[j]
             miss == CHOOSE k \in DOMAIN tys : Miss_(k)
  <2>1. \E k \in DOMAIN tys : Miss_(k)
    <3>1. Bad \in SUBSET Nat
      BY <1>1
    <3>2. PICK k \in Bad : \A m \in Bad : k <= m
      BY <1>3, <3>1, Least
    <3>3. \A j \in 1 .. k - 1 : TokenAt(p + j) = tys[j]
      BY <1>1, <3>2
    <3> QED
      BY <3>2, <3>3
  <2>2. miss \in DOMAIN tys /\ Miss_(miss)
    BY <2>1
  <2>3. Consume(p, tys) = [ok |-> FALSE, to |-> Advanced(p + miss - 1)]
    BY <1>3 DEF Consume
  <2> HIDE DEF miss
  <2>4. p + miss - 1 <= Len(toks)
    <3>1. CASE miss = 1
      BY <1>1, <3>1
    <3>2. CASE miss # 1
      <4>1. miss - 1 \in 1 .. miss - 1 /\ miss - 1 \in DOMAIN tys
        BY <1>1, <2>2, <3>2
      <4>2. TokenAt(p + (miss - 1)) # "EOF"
        BY <2>2, <4>1
      <4> QED
        BY <1>1, <4>1, <4>2, Peeked
    <3> QED
      BY <3>1, <3>2
  <2>5. p + miss - 1 \in p .. Len(toks)
    BY <1>1, <2>2, <2>4
  <2>6. Advanced(p + miss - 1) \in p + miss - 1 .. Len(toks)
    BY <1>1, <2>5, AdvancedRange
  <2> QED
    BY <1>1, <2>3, <2>5, <2>6 DEF Reaches
<1> QED
  BY <1>2, <1>3

(* For the sequences the parser consumes.                                  *)
LEMMA ConsumeOne ==
    ASSUME File, NEW p \in 0 .. Len(toks), NEW a, a # "EOF"
    PROVE  /\ Reaches(Consume(p, <<a>>), p)
           /\ Consume(p, <<a>>).ok => Consume(p, <<a>>).to = p + 1
<1>1. <<a>> \in Seq({a}) /\ \A k \in DOMAIN <<a>> : <<a>>[k] # "EOF"
  OBVIOUS
<1>2. Len(<<a>>) = 1
  OBVIOUS
<1> QED
  BY <1>1, <1>2, ConsumeReaches

(* Two tokens. *)
LEMMA ConsumeTwo ==
    ASSUME File, NEW p \in 0 .. Len(toks), NEW a, a # "EOF", NEW b, b # "EOF"
    PROVE  Reaches(Consume(p, <<a, b>>), p)
<1>1. <<a, b>> \in Seq({a, b}) /\ \A k \in DOMAIN <<a, b>> : <<a, b>>[k] # "EOF"
  OBVIOUS
<1> QED
  BY <1>1, ConsumeReaches

(* Three and four. *)
LEMMA ConsumeMore ==
    ASSUME File, NEW p \in 0 .. Len(toks),
           NEW a, a # "EOF", NEW b, b # "EOF", NEW c, c # "EOF", NEW d, d # "EOF"
    PROVE  /\ Reaches(Consume(p, <<a, b, c>>), p)
           /\ Reaches(Consume(p, <<a, b, c, d>>), p)
<1>1. <<a, b, c>> \in Seq({a, b, c}) /\ \A k \in DOMAIN <<a, b, c>> : <<a, b, c>>[k] # "EOF"
  OBVIOUS
<1>2. /\ <<a, b, c, d>> \in Seq({a, b, c, d})
      /\ \A k \in DOMAIN <<a, b, c, d>> : <<a, b, c, d>>[k] # "EOF"
  OBVIOUS
<1> QED
  BY <1>1, <1>2, ConsumeReaches

(* The stars before a type end. *)
LEMMA StarsBefore ==
    ASSUME File, NEW p \in 0 .. Len(toks)
    PROVE  \E n \in 0 .. Len(toks) : /\ \A k \in 1 .. n : TokenAt(p + k) = "STAR"
                                     /\ TokenAt(p + n + 1) # "STAR"
<1> DEFINE Other == {n \in 0 .. Len(toks) : TokenAt(p + n + 1) # "STAR"}
<1>1. Len(toks) \in Other
  BY DEF File, TokenAt
<1>2. Other \in SUBSET Nat
  BY DEF File
<1>3. PICK n \in Other : \A m \in Other : n <= m
  BY <1>1, <1>2, Least
<1>4. ASSUME NEW k \in 1 .. n PROVE TokenAt(p + k) = "STAR"
  <2>1. k - 1 \in 0 .. Len(toks) /\ k - 1 < n /\ p + (k - 1) + 1 = p + k
    BY <1>2, <1>3 DEF File
  <2> QED
    BY <1>2, <1>3, <2>1
<1> QED
  BY <1>3, <1>4

(* The parts of a dotted name end. *)
LEMMA DotsBefore ==
    ASSUME File, NEW q \in 0 .. Len(toks)
    PROVE  \E n \in 0 .. Len(toks) :
               /\ \A k \in 0 .. n - 1 : Consume(q + 2 * k, <<"DOT", "IDENT">>).ok
               /\ ~Consume(q + 2 * n, <<"DOT", "IDENT">>).ok
<1> DEFINE Ok(n) == Consume(q + 2 * n, <<"DOT", "IDENT">>).ok
           Other == {n \in 0 .. Len(toks) : ~Ok(n)}
<1>1. Len(toks) \in Other
  <2>1. TokenAt(q + 2 * Len(toks) + 1) = "EOF"
    BY DEF File, TokenAt
  <2>2. <<"DOT", "IDENT">>[1] = "DOT" /\ 1 \in DOMAIN <<"DOT", "IDENT">>
    OBVIOUS
  <2>3. ~(\A k \in DOMAIN <<"DOT", "IDENT">> :
              TokenAt(q + 2 * Len(toks) + k) = <<"DOT", "IDENT">>[k])
    BY <2>1, <2>2
  <2>4. ~Ok(Len(toks))
    BY <2>3 DEF Consume
  <2> QED
    BY <2>4 DEF File
<1>2. Other \in SUBSET Nat
  BY DEF File
<1>3. PICK n \in Other : \A m \in Other : n <= m
  BY <1>1, <1>2, Least
<1>4. ASSUME NEW k \in 0 .. n - 1 PROVE Ok(k)
  <2>1. k \in 0 .. Len(toks) /\ ~(n <= k)
    BY <1>2, <1>3 DEF File
  <2> QED
    BY <1>3, <2>1
<1> QED
  BY <1>3, <1>4

(* parser_consume_type stops inside the file. *)
LEMMA TypeReaches ==
    ASSUME File, NEW p \in 0 .. Len(toks)
    PROVE  Reaches(parser_consume_type(p), p)
<1> DEFINE stars == CHOOSE n \in 0 .. Len(toks) : /\ \A k \in 1 .. n : TokenAt(p + k) = "STAR"
                                                 /\ TokenAt(p + n + 1) # "STAR"
           first == Consume(p + stars, <<"IDENT">>)
           Part(k) == first.to + 2 * k
           dots == CHOOSE n \in 0 .. Len(toks) :
                       /\ \A k \in 0 .. n - 1 : Consume(Part(k), <<"DOT", "IDENT">>).ok
                       /\ ~Consume(Part(n), <<"DOT", "IDENT">>).ok
           after == Part(dots)
<1>1. stars \in 0 .. Len(toks) /\ \A k \in 1 .. stars : TokenAt(p + k) = "STAR"
  BY StarsBefore
<1>2. parser_consume_type(p) =
        CASE ~first.ok -> first
          [] first.ok /\ TokenAt(after + 1) = "DOT" -> Consume(after, <<"DOT", "IDENT">>)
          [] OTHER -> [ok |-> dots <= 1, to |-> after]
  BY DEF parser_consume_type
<1> HIDE DEF stars
<1>3. p + stars \in p .. Len(toks)
  <2>1. CASE stars = 0
    BY <2>1 DEF File
  <2>2. CASE stars # 0
    BY <1>1, <2>2, Peeked DEF File
  <2> QED
    BY <2>1, <2>2
<1>4. Reaches(first, p)
  <2>1. Reaches(first, p + stars)
    <3>1. p + stars \in 0 .. Len(toks)
      BY <1>1, <1>3 DEF File
    <3> QED
      BY <3>1, ConsumeOne
  <2> QED
    BY <1>3, <2>1 DEF Reaches, File
<1>5. CASE ~first.ok
  BY <1>2, <1>4, <1>5
<1>6. CASE first.ok
  <2>1. first.to \in 0 .. Len(toks) /\ first.to >= p
    BY <1>4 DEF Reaches, File
  <2> HIDE DEF first
  <2>2. /\ dots \in 0 .. Len(toks)
        /\ \A k \in 0 .. dots - 1 : Consume(Part(k), <<"DOT", "IDENT">>).ok
    BY <2>1, DotsBefore
  <2> HIDE DEF dots
  <2>3. after \in p .. Len(toks)
    <3>1. CASE dots = 0
      BY <2>1, <3>1 DEF File
    <3>2. CASE dots # 0
      <4>1. Consume(Part(dots - 1), <<"DOT", "IDENT">>).ok
        BY <2>2, <3>2 DEF File
      <4>2. \A k \in 1 .. 2 : TokenAt(Part(dots - 1) + k) = <<"DOT", "IDENT">>[k]
        BY <4>1 DEF Consume
      <4>3. TokenAt(Part(dots - 1) + 2) = "IDENT" /\ Part(dots - 1) + 2 = after
        BY <2>1, <2>2, <4>2 DEF File
      <4>4. TokenAt(after) # "EOF"
        BY <4>3
      <4> QED
        BY <2>1, <2>2, <4>4, Peeked DEF File
    <3> QED
      BY <3>1, <3>2
  <2> HIDE DEF after
  <2>4. CASE TokenAt(after + 1) = "DOT"
    <3>1. Reaches(Consume(after, <<"DOT", "IDENT">>), after)
      <4>1. after \in 0 .. Len(toks)
        BY <2>3 DEF File
      <4> QED
        BY <4>1, ConsumeTwo
    <3> QED
      BY <1>2, <1>6, <2>3, <2>4, <3>1 DEF Reaches, File
  <2>5. CASE TokenAt(after + 1) # "DOT"
    <3>1. parser_consume_type(p) = [ok |-> dots <= 1, to |-> after]
      BY <1>2, <1>6, <2>5
    <3>2. (dots <= 1) \in BOOLEAN
      BY <2>2
    <3> QED
      BY <2>3, <3>1, <3>2 DEF Reaches
  <2> QED
    BY <2>4, <2>5
<1> QED
  BY <1>4, <1>5, <1>6 DEF Reaches

(* So does parser_sync. *)
LEMMA SyncReaches ==
    ASSUME File, NEW p \in 0 .. Len(toks)
    PROVE  parser_sync(p) \in p .. Len(toks)
<1>1. p + 1 \in Nat /\ p + 2 \in Nat
  OBVIOUS
<1> QED
  BY <1>1, AdvancedRange, Peeked DEF parser_sync, File

-----------------------------------------------------------------------------
(* What holds at every step. *)

IsTree(t) == /\ {"kind", "reads", "nodes"} \subseteq DOMAIN t
             /\ t.kind \notin {"entered", "aborted", "returned", "idle"}

(* There is no running function: the program has ended, no file is being   *)
(* parsed, or one has been, to its end.                                    *)
Halted == stack = <<>> /\ (ret = Aborted \/ ret = Idle \/ (ret = Returned /\ peek = "EOF"))

(* Only frames of some kinds hold anything. *)
NoOwn == {"parse", "statement", "end", "IF", "WHILE", "TYPE", "DELETE", "RETURN", "LET", "IMPORT",
          "block", "climb"}
HasLeft == {"if_block", "while_block", "else", "expression", "climb", "access", "binary",
            "args", "inits", "close"}
HasKids == {"stmts", "args", "inits", "close"}
Lists == {"params", "args", "inits"}
Starts == {"IF", "WHILE", "DELETE"}

Shaped(f) ==
    /\ DOMAIN f = {"do", "own", "left", "kids", "errs", "start", "prec", "opt", "more"}
    /\ f.do \in FrameKinds
    /\ f.errs \in Nat /\ f.start \in Nat
    /\ IsTree(f.left)
    /\ f.do \in NoOwn => f.own = {}
    /\ f.do \notin HasLeft => f.left.reads = {}
    /\ f.do \notin HasKids => f.kids = {}
    /\ f.do = "expression" /\ f.left = NULL => f.own = {}

(* The token k is held by a frame, or by the module and the frames up to n.*)
Holds(f, k) == k \in f.own \/ k \in f.left.reads \/ \E t \in f.kids : k \in t.reads
Held(n, k) == \/ \E i \in 1 .. Len(mod) : k \in mod[i].reads
              \/ \E j \in 1 .. n : Holds(stack[j], k)

Placed(f, i, e, p) ==
    /\ Shaped(f)
    /\ f.errs <= e /\ f.start <= p
    /\ f.do = "parse" <=> i = 1
    /\ i = 2 => f.do \in {"statement", "end"}

Stacked ==
    /\ Len(stack) \in Nat
    /\ \E S : stack \in Seq(S)
    /\ \A i \in 1 .. Len(stack) : Placed(stack[i], i, errors, pos)
    /\ \A i \in 1 .. Len(stack) : stack[i].do \in Starts => i = Len(stack) /\ pos < Len(toks)
    /\ \A i \in 1 .. Len(stack) : stack[i].do = "fields" => HasStruct(toks)

Typed ==
    /\ toks \in Seq(STRING)
    /\ pos \in 0 .. Len(toks)
    /\ errors \in Nat
    /\ \E S : mod \in Seq(S)
    /\ IsTree(ret) \/ ret = Entered \/ Halted
    /\ faults \subseteq FaultKinds

(* Where the statement at hand began that will be kept or dropped whole.   *)
Begin == IF Len(stack) >= 2 /\ stack[2].do = "end" THEN stack[2].start ELSE pos

(* Without an error, every statement before it was kept.                   *)
Since == IF errors = 0 THEN 0 ELSE Begin

(* What a list that is given up leaves behind: all before it is held by    *)
(* others, or by the frame besides what it collects.                       *)
Catches(i) ==
    LET f == stack[i]
    IN  /\ \A k : Held(i - 1, k) \/ k \in f.left.reads => k <= f.start
        /\ \A k \in Since + 1 .. f.start :
               k \in Dropped \/ Held(i - 1, k) \/ k \in f.left.reads \/ k \in f.own

(* What waits for an infix expression has its left operand in common with it. *)
Shared(i) == stack[i].do = "climb" => stack[i].left.reads \subseteq stack[i + 1].left.reads

Covered ==
    /\ \A k : Held(Len(stack), k) \/ k \in ret.reads => k \in 1 .. pos /\ k \notin Dropped
    /\ Dropped \subseteq 1 .. pos
    /\ ret.kind # "NULL" =>
           \A k \in Since + 1 .. pos : k \in Dropped \/ Held(Len(stack), k) \/ k \in ret.reads
    /\ errors = 0 /\ ret.kind = "NULL" => Len(stack) >= 2
    /\ \A i \in 1 .. Len(stack) : stack[i].do \in Lists => Catches(i)
    /\ \A i \in 1 .. Len(stack) - 1 : Shared(i)
    /\ Running /\ Top.do = "climb" /\ ret.kind \notin {"entered", "NULL"} =>
           Top.left.reads \subseteq ret.reads

(* Between the tokens of a tree there are only tokens of its own, and of   *)
(* lists that were given up.                                               *)
Gapless(t) == \A p, q \in t.reads, k \in Nat : p < k /\ k < q => k \in t.reads \/ k \in Dropped
Precedes(t, u) == \A p \in t.reads, q \in u.reads : p < q

(* The statements of the module are whole and in order, *)
Settled ==
    /\ \A i \in 1 .. Len(mod) : Gapless(mod[i])
    /\ \A i, j \in 1 .. Len(mod) : i < j => Precedes(mod[i], mod[j])

(* and come before the one at hand, which waits in its frame. *)
Ordered ==
    /\ Len(stack) >= 3 => stack[2].do = "end"
    /\ \A i \in 1 .. Len(mod) : \A k \in mod[i].reads : k <= Begin
    /\ Len(stack) >= 2 =>
           \A k : k \in ret.reads \/ (\E j \in 2 .. Len(stack) : Holds(stack[j], k)) => k > Begin
    /\ Len(stack) < 2 =>
           Gapless(ret) /\ \A i \in 1 .. Len(mod) : Precedes(mod[i], ret)

IInv == Typed /\ Stacked /\ Settled /\ (ret # Aborted => Covered /\ Ordered)

-----------------------------------------------------------------------------
(* How the stack changes. *)
LEMMA Popped ==
    ASSUME Stacked, Running
    PROVE  /\ Len(stack) \in Nat \ {0}
           /\ Len(Below) = Len(stack) - 1
           /\ \E S : stack \in Seq(S) /\ Below \in Seq(S)
           /\ \A i \in 1 .. Len(stack) - 1 : Below[i] = stack[i]
<1>1. PICK S : stack \in Seq(S)
  BY DEF Stacked
<1>2. Len(stack) \in Nat \ {0}
  BY <1>1, EmptySeq DEF Running
<1>3. \A i \in 1 .. Len(stack) - 1 : stack[i] \in S
  BY <1>1, <1>2, ElementOfSeq
<1> DEFINE l == Len(stack) - 1
           B == SubSeq(stack, 1, l)
<1>4. l \in Nat /\ l + 1 = Len(stack) /\ l - 1 + 1 = l
  BY <1>2
<1>5. \A i \in 1 .. l : stack[i] \in S
  BY <1>3
<1> HIDE DEF l
<1>6. /\ B \in Seq(S)
      /\ Len(B) = IF 1 <= l THEN l - 1 + 1 ELSE 0
      /\ \A i \in 1 .. l - 1 + 1 : B[i] = stack[1 + i - 1]
  BY <1>4, <1>5, SubSeqProperties
<1> HIDE DEF B
<1>7. Len(B) = l
  BY <1>4, <1>6
<1>8. \A i \in 1 .. l : B[i] = stack[i]
  BY <1>4, <1>6
<1> QED
  BY <1>1, <1>2, <1>4, <1>6, <1>7, <1>8 DEF Below, B, l

(* The frames from the running one on are new, and those before it stay.   *)
Grown(s, n, m) ==
    /\ \E S : s \in Seq(S)
    /\ Len(s) = m
    /\ \A i \in 1 .. n - 1 : s[i] = stack[i]

Pushed(f, t) == Append(Below, f) \o t

(* What a return, a step and a call leave of the stack. *)
LEMMA Grows ==
    ASSUME Stacked, Running, NEW f, NEW T, NEW t \in Seq(T)
    PROVE  /\ Len(stack) \in Nat \ {0}
           /\ Grown(Below, Len(stack), Len(stack) - 1)
           /\ Grown(Append(Below, f), Len(stack), Len(stack)) /\ Append(Below, f)[Len(stack)] = f
           /\ Grown(Pushed(f, t), Len(stack), Len(stack) + Len(t))
           /\ Pushed(f, t)[Len(stack)] = f
           /\ \A i \in 1 .. Len(t) : Pushed(f, t)[Len(stack) + i] = t[i]
<1> DEFINE n == Len(stack)
<1>1. /\ n \in Nat \ {0} /\ Len(Below) = n - 1
      /\ \A i \in 1 .. n - 1 : Below[i] = stack[i]
  BY Popped
<1>2. PICK S : Below \in Seq(S)
  BY Popped
<1> DEFINE U == S \cup T \cup {f}
<1> HIDE DEF n
<1>3. Below \in Seq(U) /\ f \in U /\ t \in Seq(U)
  BY <1>2
<1> HIDE DEF U
<1>4. Grown(Below, n, n - 1)
  BY <1>1, <1>3 DEF Grown
<1> DEFINE A == Append(Below, f)
<1>5. A \in Seq(U) /\ Len(A) = n /\ A[n] = f /\ \A i \in 1 .. n - 1 : A[i] = stack[i]
  BY <1>1, <1>3
<1>6. Grown(A, n, n)
  BY <1>5 DEF Grown
<1> HIDE DEF A
<1>7. Len(t) \in Nat
  BY <1>3
<1>8. A \o t \in Seq(U) /\ Len(A \o t) = n + Len(t)
  BY <1>3, <1>5, ConcatProperties
<1>9. \A i \in 1 .. n : (A \o t)[i] = A[i]
  BY <1>1, <1>3, <1>5, <1>7
<1>10. \A i \in 1 .. Len(t) : (A \o t)[n + i] = t[i]
  BY <1>1, <1>3, <1>5, <1>7
<1>11. Grown(A \o t, n, n + Len(t)) /\ (A \o t)[n] = f
  BY <1>1, <1>5, <1>8, <1>9 DEF Grown
<1> QED
  BY <1>1, <1>4, <1>5, <1>6, <1>10, <1>11 DEF A, n, Pushed

(* A call of one function, *)
LEMMA GrowsOne ==
    ASSUME Stacked, Running, NEW f, NEW g, stack' = Pushed(f, <<g>>)
    PROVE  /\ Len(stack) \in Nat \ {0} /\ Grown(stack', Len(stack), Len(stack) + 1)
           /\ stack'[Len(stack)] = f /\ stack'[Len(stack) + 1] = g
<1>1. PICK T, t : t = <<g>> /\ T = {g}
  OBVIOUS
<1>2. t \in Seq(T)
  BY <1>1
<1>8. Len(t) = 1 /\ t[1] = g /\ 1 \in 1 .. 1
  BY <1>1
<1>3. stack' = Pushed(f, t)
  BY <1>1
<1>4. Len(stack) \in Nat \ {0}
  BY <1>2, Grows
<1>5. Grown(Pushed(f, t), Len(stack), Len(stack) + Len(t))
  BY <1>2, Grows
<1>6. Pushed(f, t)[Len(stack)] = f
  BY <1>2, Grows
<1>7. \A i \in 1 .. Len(t) : Pushed(f, t)[Len(stack) + i] = t[i]
  BY <1>2, Grows
<1> QED
  BY <1>8, <1>3, <1>4, <1>5, <1>6, <1>7

(* of one that calls a second at once, *)
LEMMA GrowsTwo ==
    ASSUME Stacked, Running, NEW f, NEW g, NEW h, stack' = Pushed(f, <<g, h>>)
    PROVE  /\ Len(stack) \in Nat \ {0} /\ Grown(stack', Len(stack), Len(stack) + 2)
           /\ stack'[Len(stack)] = f /\ stack'[Len(stack) + 1] = g /\ stack'[Len(stack) + 2] = h
<1>1. PICK T, t : t = <<g, h>> /\ T = {g, h}
  OBVIOUS
<1>2. t \in Seq(T)
  BY <1>1
<1>8. Len(t) = 2 /\ t[1] = g /\ t[2] = h /\ 1 \in 1 .. 2 /\ 2 \in 1 .. 2
  BY <1>1
<1>3. stack' = Pushed(f, t)
  BY <1>1
<1>4. Len(stack) \in Nat \ {0}
  BY <1>2, Grows
<1>5. Grown(Pushed(f, t), Len(stack), Len(stack) + Len(t))
  BY <1>2, Grows
<1>6. Pushed(f, t)[Len(stack)] = f
  BY <1>2, Grows
<1>7. \A i \in 1 .. Len(t) : Pushed(f, t)[Len(stack) + i] = t[i]
  BY <1>2, Grows
<1> QED
  BY <1>8, <1>3, <1>4, <1>5, <1>6, <1>7

(* and of a third. *)
LEMMA GrowsThree ==
    ASSUME Stacked, Running, NEW f, NEW g, NEW h, NEW c,
           stack' = Pushed(f, <<g>> \o <<h, c>>)
    PROVE  /\ Len(stack) \in Nat \ {0} /\ Grown(stack', Len(stack), Len(stack) + 3)
           /\ stack'[Len(stack)] = f /\ stack'[Len(stack) + 1] = g
           /\ stack'[Len(stack) + 2] = h /\ stack'[Len(stack) + 3] = c
<1>1. PICK T, t : t = <<g>> \o <<h, c>> /\ T = {g, h, c}
  OBVIOUS
<1>2. t \in Seq(T)
  BY <1>1
<1>8. Len(t) = 3 /\ t[1] = g /\ t[2] = h /\ t[3] = c
                   /\ 1 \in 1 .. 3 /\ 2 \in 1 .. 3 /\ 3 \in 1 .. 3
  BY <1>1
<1>3. stack' = Pushed(f, t)
  BY <1>1
<1>4. Len(stack) \in Nat \ {0}
  BY <1>2, Grows
<1>5. Grown(Pushed(f, t), Len(stack), Len(stack) + Len(t))
  BY <1>2, Grows
<1>6. Pushed(f, t)[Len(stack)] = f
  BY <1>2, Grows
<1>7. \A i \in 1 .. Len(t) : Pushed(f, t)[Len(stack) + i] = t[i]
  BY <1>2, Grows
<1> QED
  BY <1>8, <1>3, <1>4, <1>5, <1>6, <1>7

(* The two ways to leave no frame behind the running one. *)
LEMMA GrowsNone ==
    ASSUME Stacked, Running
    PROVE  /\ Len(stack) \in Nat \ {0}
           /\ stack' = Below => Grown(stack', Len(stack), Len(stack) - 1)
           /\ \A f : stack' = Append(Below, f) =>
                  Grown(stack', Len(stack), Len(stack)) /\ stack'[Len(stack)] = f
<1>1. \A f : LET n == Len(stack)
                 A == Append(Below, f)
             IN  n \in Nat \ {0} /\ Grown(Below, n, n - 1) /\ Grown(A, n, n) /\ A[n] = f
  <2>1. <<>> \in Seq({})
    OBVIOUS
  <2> QED
    BY <2>1, Grows
<1> QED
  BY <1>1

-----------------------------------------------------------------------------
(* A step of the running function: the tokens it and its callee held, and  *)
(* those it reads, are held by the frames it leaves or by what it returns. *)
Had(k) == Holds(Top, k) \/ k \in ret.reads
Has(k) == Had(k) \/ k \in pos + 1 .. pos'

(* A list that is read on, one that begins in a frame, and one for which   *)
(* a frame is made.                                                        *)
SameList(f) ==
    /\ Top.do \in Lists
    /\ f.start = Top.start
    /\ f.left = Top.left
    /\ \A k \in 1 .. Top.start : k \in Top.own => k \in f.own

FirstList(f) ==
    /\ ret.reads = {} /\ ret.kind # "NULL"
    /\ f.left.reads = {} /\ f.start = pos'
    /\ \A k : Has(k) => k \in f.own

NewList(f, below) ==
    /\ below = Top
    /\ ret.reads = {} /\ ret.kind # "NULL"
    /\ pos' = pos + 1 /\ f.start = pos + 1 /\ pos + 1 \in f.own
    /\ \A k \in f.left.reads : Holds(Top, k)

Moved ==
    /\ toks' = toks
    /\ pos' \in pos .. Len(toks)
    /\ errors' \in Nat /\ errors' >= errors
    /\ faults' \subseteq FaultKinds

(* What is running, and what it goes on as: the frame of a whole statement *)
(* begins where it is put.                                                 *)
Deep == Top.do \notin {"parse", "statement", "end"}
Succeeds(f) == Deep \/ (Top.do = "statement" /\ f.do = "end" /\ f.start = pos)

Carried(m) ==
    /\ bails' = bails
    /\ Top.do # "parse"
    /\ m >= Len(stack) => Succeeds(stack'[Len(stack)])
    /\ \A i \in Len(stack) .. m : \A k : Holds(stack'[i], k) => Has(k)
    /\ \A k \in ret'.reads : Has(k)
    /\ ret'.kind # "NULL" =>
           /\ ret.kind # "NULL"
           /\ \A k : Has(k) => \/ k \in ret'.reads
                             \/ \E i \in Len(stack) .. m : Holds(stack'[i], k)
    /\ ret'.kind = "NULL" => m >= 2 \/ (errors' # 0 /\ ret'.reads = {})
    /\ \A i \in Len(stack) .. m : stack'[i].do \in Lists =>
           \/ i = Len(stack) /\ (SameList(stack'[i]) \/ FirstList(stack'[i]))
           \/ i = Len(stack) + 1 /\ NewList(stack'[i], stack'[Len(stack)])
    /\ m >= Len(stack) => /\ ret'.kind = "entered"
                          /\ Top.left.reads \subseteq stack'[Len(stack)].left.reads
    /\ \A i \in Len(stack) .. m - 1 : stack'[i].do = "climb" =>
           i = Len(stack) /\ stack'[i].left.reads \subseteq stack'[i + 1].left.reads

(* Where the statement at hand began is behind, *)
LEMMA BeginBehind ==
    ASSUME Typed, Stacked
    PROVE  Begin \in Nat /\ Begin <= pos /\ Since \in Nat /\ Since <= Begin
<1>1. Len(stack) >= 2 => stack[2].start \in Nat /\ stack[2].start <= pos
  BY DEF Stacked, Placed, Shaped
<1>2. Begin \in Nat /\ Begin <= pos
  BY <1>1 DEF Begin, Typed
<1> QED
  BY <1>2 DEF Since

(* and stays until it is parsed or dropped. *)
LEMMA BeginStays ==
    ASSUME Typed, Stacked, Running, Top.do # "parse", NEW m \in Nat, m >= Len(stack) - 1,
           Grown(stack', Len(stack), m), Moved, m >= Len(stack) => Succeeds(stack'[Len(stack)]),
           Len(stack) >= 3 => stack[2].do = "end"
    PROVE  /\ Len(stack) >= 2 /\ Len(stack') = m
           /\ m >= 3 => stack'[2].do = "end"
           /\ m >= 2 => Begin' = Begin
           /\ m < 2 => Begin' = pos'
           /\ Since' \in Nat /\ Since <= Since' /\ Since' <= Begin'
<1>1. PICK n \in Nat \ {0} : n = Len(stack)
  BY Popped
<1>2. /\ Len(stack') = m /\ \A i \in 1 .. n - 1 : stack'[i] = stack[i]
      /\ Top = stack[n]
  BY <1>1 DEF Grown, Top
<1>3. /\ n # 1
      /\ n = 2 => Top.do \in {"statement", "end"}
  BY <1>1, <1>2 DEF Stacked, Placed
<1>4. pos \in Nat /\ pos' \in Nat /\ pos <= pos' /\ errors \in Nat /\ errors' \in Nat /\ errors <= errors'
  BY DEF Typed, Moved
<1>5. ASSUME m >= 2
      PROVE  Begin' = Begin /\ stack'[2].do = "end"
  <2>1. CASE n >= 3
    <3>1. stack'[2] = stack[2] /\ stack[2].do = "end"
      BY <1>1, <1>2, <2>1
    <3> QED
      BY <1>1, <1>2, <1>5, <2>1, <3>1 DEF Begin
  <2>2. CASE n = 2
    <3>1. Top.do \in {"statement", "end"} /\ Succeeds(stack'[2])
      BY <1>1, <1>3, <1>5, <2>2
    <3>2. Top.do = "statement" /\ stack'[2].do = "end" /\ stack'[2].start = pos
      BY <3>1 DEF Succeeds, Deep
    <3> QED
      BY <1>1, <1>2, <1>5, <2>2, <3>2 DEF Begin
  <2> QED
    BY <1>1, <1>3, <2>1, <2>2
<1>6. m < 2 => Begin' = pos'
  BY <1>2 DEF Begin
<1>7. Begin \in Nat /\ Begin <= pos
  BY BeginBehind
<1>8. Begin' \in Nat /\ Begin <= Begin'
  BY <1>4, <1>5, <1>6, <1>7
<1>9. Since' \in Nat /\ Since <= Since' /\ Since' <= Begin'
  BY <1>4, <1>7, <1>8 DEF Since
<1> QED
  BY <1>1, <1>2, <1>3, <1>5, <1>6, <1>9

(* What is after the later of two places is after the earlier one. *)
LEMMA After ==
    ASSUME NEW s \in Nat, NEW t \in Nat, s <= t, NEW q \in Nat, NEW k \in t + 1 .. q
    PROVE  k \in s + 1 .. q /\ \A p \in Nat : k \in p + 1 .. q \/ k \in s + 1 .. p
OBVIOUS

(* What is true of a list's frame stays so below the running one. *)
LEMMA CatchesStays ==
    ASSUME NEW i, Catches(i), stack'[i] = stack[i],
           \A k : k \in Dropped => k \in Dropped',
           \A k : Held(i - 1, k)' <=> Held(i - 1, k),
           Since \in Nat, Since' \in Nat, Since <= Since', stack[i].start \in Nat
    PROVE  Catches(i)'
<1>1. \A k : Held(i - 1, k)' \/ k \in stack'[i].left.reads => k <= stack'[i].start
  BY DEF Catches
<1>2. ASSUME NEW k \in Since' + 1 .. stack'[i].start
      PROVE  k \in Dropped' \/ Held(i - 1, k)' \/ k \in stack'[i].left.reads \/ k \in stack'[i].own
  <2>1. k \in Since + 1 .. stack[i].start
    BY <1>2, After
  <2> QED
    BY <2>1 DEF Catches
<1> QED
  BY <1>1, <1>2 DEF Catches

(* Covered, kept by a step that carries what it has along. *)
LEMMA StepCovered ==
    ASSUME IInv, Running, ret # Aborted, NEW m \in Nat, m >= Len(stack) - 1,
           Grown(stack', Len(stack), m), mod' = mod, Moved, Carried(m)
    PROVE  Covered'
<1> DEFINE n == Len(stack)
<1>0. Typed /\ Stacked
  BY DEF IInv
<1>13. Since \in Nat /\ Since' \in Nat /\ Since <= Since' /\ Since <= pos
  <2>1. Len(stack) >= 3 => stack[2].do = "end"
    BY DEF IInv, Ordered
  <2> QED
    BY <1>0, <2>1, BeginBehind, BeginStays DEF Carried, Typed
<1>1. /\ n \in Nat \ {0} /\ pos \in Nat /\ pos' \in Nat /\ pos' >= pos
  BY <1>0, Popped DEF Typed, Moved
<1>2. Covered
  BY DEF IInv
<1>3. Dropped' = Dropped
  BY DEF Carried, Dropped
<1>4. Len(stack') = m /\ \A i \in 1 .. n - 1 : stack'[i] = stack[i]
  BY DEF Grown
<1>5. \A k : Held(n, k) <=> Held(n - 1, k) \/ Holds(Top, k)
  BY <1>1 DEF Held, Top
<1>6. \A k : Held(m, k)' <=> Held(n - 1, k) \/ \E i \in n .. m : Holds(stack'[i], k)
  <2>1. \A i : i \in 1 .. m <=> i \in 1 .. n - 1 \/ i \in n .. m
    BY <1>1
  <2>2. \A i \in 1 .. n - 1 : \A k : Holds(stack'[i], k) <=> Holds(stack[i], k)
    BY <1>4
  <2> QED
    BY <1>4, <2>1, <2>2 DEF Held, Holds
<1> HIDE DEF n
<1>7. ASSUME NEW k, Held(m, k)' \/ k \in ret'.reads
      PROVE  k \in 1 .. pos' /\ k \notin Dropped'
  <2>1. Held(n - 1, k) \/ Has(k)
    BY <1>6, <1>7 DEF Carried, n
  <2>2. Held(n, k) \/ k \in ret.reads \/ k \in pos + 1 .. pos'
    BY <1>5, <2>1 DEF Has, Had
  <2>3. CASE Held(n, k) \/ k \in ret.reads
    BY <1>1, <1>2, <1>3, <2>3 DEF Covered, n
  <2>4. CASE k \in pos + 1 .. pos'
    BY <1>1, <1>2, <1>3, <2>4 DEF Covered
  <2> QED
    BY <2>2, <2>3, <2>4
<1>8. Dropped' \subseteq 1 .. pos'
  BY <1>1, <1>2, <1>3 DEF Covered
<1>9. ASSUME ret'.kind # "NULL", NEW k \in Since' + 1 .. pos'
      PROVE  k \in Dropped' \/ Held(m, k)' \/ k \in ret'.reads
  <2>0. k \in pos + 1 .. pos' \/ k \in Since + 1 .. pos
    BY <1>1, <1>9, <1>13, After
  <2>4. ret.kind # "NULL"
    BY <1>9 DEF Carried
  <2>1. k \in Dropped \/ Held(n, k) \/ k \in ret.reads \/ k \in pos + 1 .. pos'
    BY <1>2, <2>0, <2>4 DEF Covered, n
  <2>2. k \in Dropped \/ Held(n - 1, k) \/ Has(k)
    BY <1>5, <2>1 DEF Has, Had
  <2>3. Has(k) => k \in ret'.reads \/ Held(m, k)'
    BY <1>6, <1>9 DEF Carried, n
  <2> QED
    BY <1>3, <1>6, <2>2, <2>3
<1>10. ASSUME NEW i \in 1 .. m, stack'[i].do \in Lists PROVE Catches(i)'
  <2>1. CASE i < n
    <3>1. stack'[i] = stack[i] /\ i \in 1 .. n
      BY <1>1, <1>4, <2>1
    <3>2. Catches(i)
      BY <1>2, <1>10, <3>1 DEF Covered, n
    <3>3. \A k : Held(i - 1, k)' <=> Held(i - 1, k)
      BY <1>1, <1>4, <2>1 DEF Held
    <3>4. stack[i].start \in Nat
      BY <1>0, <3>1 DEF Stacked, Placed, Shaped, n
    <3> QED
      BY <1>3, <1>13, <3>1, <3>2, <3>3, <3>4, CatchesStays
  <2>2. CASE i = n /\ SameList(stack'[i])
    <3>1. Catches(i)
      BY <1>1, <1>2, <2>2 DEF Covered, SameList, Top, n
    <3>2. \A k : Held(i - 1, k)' <=> Held(i - 1, k)
      BY <1>1, <1>4, <2>2 DEF Held
    <3>3. Top = stack[i]
      BY <2>2 DEF Top, n
    <3>4. /\ stack'[i].start = Top.start /\ stack'[i].left = Top.left
          /\ \A k \in 1 .. Top.start : k \in Top.own => k \in stack'[i].own
      BY <2>2 DEF SameList
    <3>5. \A k : Held(i - 1, k)' \/ k \in stack'[i].left.reads => k <= stack'[i].start
      BY <2>2, <3>1, <3>2, <3>3, <3>4 DEF Catches
    <3>7. Top.start \in Nat
      BY <1>0, <1>1 DEF Stacked, Placed, Shaped, Top, n
    <3>6. ASSUME NEW k \in Since' + 1 .. stack'[i].start
          PROVE  k \in Dropped' \/ Held(i - 1, k)' \/ k \in stack'[i].left.reads \/ k \in stack'[i].own
      <4>1. k \in Since + 1 .. Top.start
        BY <1>13, <3>4, <3>6, <3>7, After
      <4>2. k \in Dropped \/ Held(i - 1, k) \/ k \in Top.left.reads \/ k \in Top.own
        BY <3>1, <3>3, <4>1 DEF Catches
      <4>3. k \in 1 .. Top.start
        BY <1>13, <3>7, <4>1
      <4> QED
        BY <1>3, <2>2, <3>2, <3>4, <4>2, <4>3
    <3> QED
      BY <3>5, <3>6 DEF Catches
  <2>3. CASE i = n + 1 /\ NewList(stack'[i], stack'[n])
    <3>1. \A k : Held(i - 1, k)' <=> Held(n, k)
      <4>1. stack'[n] = stack[n] /\ \A j \in 1 .. n : stack'[j] = stack[j]
        BY <1>1, <1>4, <2>3 DEF NewList, Top, n
      <4>2. i - 1 = n
        BY <1>1, <2>3
      <4> QED
        BY <4>1, <4>2 DEF Held, Holds
    <3>2. \A k : Held(n, k) => k \in 1 .. pos
      BY <1>2 DEF Covered, n
    <3>3. \A k \in stack'[i].left.reads : Held(n, k)
      BY <1>5, <2>3 DEF NewList
    <3>4. stack'[i].start = pos + 1 /\ pos + 1 \in stack'[i].own
      BY <2>3 DEF NewList
    <3>5. ASSUME NEW k \in Since' + 1 .. pos + 1
          PROVE  k \in Dropped \/ Held(n, k) \/ k \in stack'[i].own
      <4>1. ret.reads = {} /\ ret.kind # "NULL"
        BY <2>3 DEF NewList
      <4>2. \A j \in Since + 1 .. pos : j \in Dropped \/ Held(n, j)
        BY <1>2, <4>1 DEF Covered, n
      <4>3. PICK q \in Nat : q = pos + 1
        BY <1>1
      <4>5. k \in pos + 1 .. q \/ k \in Since + 1 .. pos
        BY <1>1, <1>13, <3>5, <4>3, After
      <4>4. k \in Since + 1 .. pos \/ k = pos + 1
        BY <1>1, <4>3, <4>5
      <4> QED
        BY <3>4, <4>2, <4>4
    <3>6. \A k : Held(i - 1, k)' \/ k \in stack'[i].left.reads => k <= stack'[i].start
      BY <1>1, <3>1, <3>2, <3>3, <3>4
    <3>7. \A k \in Since' + 1 .. stack'[i].start :
             k \in Dropped' \/ Held(i - 1, k)' \/ k \in stack'[i].left.reads \/ k \in stack'[i].own
      BY <1>3, <3>1, <3>4, <3>5
    <3> QED
      BY <3>6, <3>7 DEF Catches
  <2>4. CASE i = n /\ FirstList(stack'[i])
    <3>1. \A k : Held(i - 1, k)' <=> Held(i - 1, k)
      BY <1>1, <1>4, <2>4 DEF Held
    <3>2. /\ ret.reads = {} /\ ret.kind # "NULL" /\ stack'[i].left.reads = {} /\ stack'[i].start = pos'
          /\ \A k : Has(k) => k \in stack'[i].own
      BY <2>4 DEF FirstList
    <3>3. \A k : Held(n - 1, k) => k \in 1 .. pos
      BY <1>2, <1>5 DEF Covered, n
    <3>4. ASSUME NEW k \in Since' + 1 .. pos'
          PROVE  k \in Dropped \/ Held(n - 1, k) \/ Has(k)
      <4>1. CASE k \in pos + 1 .. pos'
        BY <4>1 DEF Has
      <4>2. CASE k \in Since + 1 .. pos
        <5>1. k \in Dropped \/ Held(n, k)
          BY <1>2, <3>2, <4>2 DEF Covered, n
        <5> QED
          BY <1>5, <5>1 DEF Has, Had
      <4>3. k \in pos + 1 .. pos' \/ k \in Since + 1 .. pos
        BY <1>1, <1>13, <3>4, After
      <4> QED
        BY <4>1, <4>2, <4>3
    <3>5. \A k : Held(i - 1, k)' \/ k \in stack'[i].left.reads => k <= stack'[i].start
      BY <1>1, <2>4, <3>1, <3>2, <3>3
    <3>6. \A k \in Since' + 1 .. stack'[i].start :
             k \in Dropped' \/ Held(i - 1, k)' \/ k \in stack'[i].left.reads \/ k \in stack'[i].own
      BY <1>3, <2>4, <3>1, <3>2, <3>4
    <3> QED
      BY <3>5, <3>6 DEF Catches
  <2> QED
    BY <1>1, <1>10, <2>1, <2>2, <2>3, <2>4 DEF Carried, n
<1>11. ASSUME NEW i \in 1 .. m - 1 PROVE Shared(i)'
  <2>1. CASE i < n - 1
    <3>1. stack'[i] = stack[i] /\ stack'[i + 1] = stack[i + 1] /\ i \in 1 .. n - 1
      BY <1>1, <1>4, <2>1
    <3> QED
      BY <1>2, <3>1 DEF Covered, Shared, n
  <2>2. CASE i = n - 1
    <3>1. stack'[i] = stack[i] /\ i + 1 = n /\ i \in 1 .. n - 1
      BY <1>1, <1>4, <2>2
    <3>2. Shared(i) /\ stack[i + 1] = Top
      BY <1>2, <3>1 DEF Covered, Top, n
    <3>3. Top.left.reads \subseteq stack'[n].left.reads
      BY <1>1, <2>2 DEF Carried, n
    <3> QED
      BY <3>1, <3>2, <3>3 DEF Shared
  <2>3. CASE i >= n
    <3>1. i \in n .. m - 1
      BY <1>1, <2>3
    <3> QED
      BY <3>1 DEF Carried, Shared, n
  <2> QED
    BY <1>1, <2>1, <2>2, <2>3
<1>12. ASSUME Running', Top'.do = "climb", ret'.kind \notin {"entered", "NULL"}
       PROVE  Top'.left.reads \subseteq ret'.reads
  <2>1. m = n - 1 /\ n - 1 \in Nat
    BY <1>1, <1>12 DEF Carried, n
  <2>2. n - 1 # 0
    <3>1. PICK S : stack' \in Seq(S)
      BY DEF Grown
    <3> QED
      BY <1>4, <1>12, <2>1, <3>1, EmptySeq DEF Running
  <2>3. Top' = stack[n - 1] /\ n - 1 \in 1 .. n - 1 /\ n - 1 + 1 = n
    BY <1>1, <1>4, <2>1, <2>2 DEF Top
  <2>4. Shared(n - 1) /\ stack[n] = Top
    BY <1>2, <2>3 DEF Covered, Top, n
  <2>5. Top'.left.reads \subseteq Top.left.reads
    BY <1>12, <2>3, <2>4 DEF Shared
  <2>6. \A k \in Top.left.reads : Has(k)
    BY DEF Has, Had, Holds
  <2>7. \A k : Has(k) => k \in ret'.reads
    BY <1>12, <1>1, <1>12, <2>1 DEF Carried, n
  <2> QED
    BY <2>5, <2>6, <2>7
<1>14. errors' = 0 /\ ret'.kind = "NULL" => Len(stack') >= 2
  BY <1>4 DEF Carried
<1> QED
  BY <1>4, <1>7, <1>8, <1>9, <1>10, <1>11, <1>12, <1>14 DEF Covered

(* Settled, kept by a step that keeps the module and takes no list back.   *)
LEMMA SettledStays ==
    ASSUME Settled, mod' = mod, Dropped \subseteq Dropped'
    PROVE  Settled'
<1>1. \A t : Gapless(t) => Gapless(t)'
  BY DEF Gapless
<1>2. \A i \in 1 .. Len(mod) : Gapless(mod[i])'
  BY <1>1 DEF Settled
<1>3. \A i, j \in 1 .. Len(mod) : i < j => Precedes(mod[i], mod[j])
  BY DEF Settled
<1> QED
  BY <1>2, <1>3 DEF Settled

(* Settled and Ordered, kept by a step that takes nothing from elsewhere,  *)
(* and leaves nothing behind in the frame of a whole statement.            *)
LEMMA StepOrdered ==
    ASSUME IInv, Running, ret # Aborted, Top.do # "parse", NEW m \in Nat, m >= Len(stack) - 1,
           Grown(stack', Len(stack), m), mod' = mod, Moved,
           m >= Len(stack) => Succeeds(stack'[Len(stack)]),
           Dropped \subseteq Dropped',
           \A k : k \in ret'.reads \/ (\E i \in Len(stack) .. m : Holds(stack'[i], k)) => Has(k),
           m < 2 => ret'.reads = {} \/ (ret.kind # "NULL" /\ \A k : Has(k) => k \in ret'.reads)
    PROVE  Settled' /\ Ordered'
<1>1. Typed /\ Stacked /\ Settled /\ Covered /\ Ordered
  BY DEF IInv
<1>2. /\ Len(stack) >= 2 /\ Len(stack') = m
      /\ m >= 2 => Begin' = Begin
      /\ m < 2 => Begin' = pos'
      /\ m >= 3 => stack'[2].do = "end"
      /\ Begin \in Nat /\ Begin <= pos /\ Since <= Begin /\ Since \in Nat
  <2>1. Len(stack) >= 3 => stack[2].do = "end"
    BY <1>1 DEF Ordered
  <2> QED
    BY <1>1, <2>1, BeginStays, BeginBehind
<1>3. PICK n \in Nat \ {0} : n = Len(stack)
  BY <1>1, Popped
<1>4. pos \in Nat /\ pos' \in Nat /\ pos <= pos'
  BY <1>1 DEF Typed, Moved
<1>5. Top = stack[n] /\ \A i \in 1 .. n - 1 : stack'[i] = stack[i]
  BY <1>3 DEF Grown, Top
<1>7. Settled'
  BY <1>1, SettledStays
<1>8. \A k : Has(k) => k > Begin
  <2>1. \A k : Holds(stack[n], k) \/ k \in ret.reads => k > Begin
    BY <1>1, <1>2, <1>3 DEF Ordered
  <2>2. \A k \in pos + 1 .. pos' : k > Begin
    BY <1>2, <1>4
  <2> QED
    BY <1>5, <2>1, <2>2 DEF Has, Had
<1>9. \A i \in 1 .. Len(mod) : \A k \in mod[i].reads : k <= Begin
  BY <1>1 DEF Ordered
<1>10. \A i \in 1 .. Len(mod') : \A k \in mod'[i].reads : k <= Begin'
  <2>1. CASE m >= 2
    BY <1>2, <1>9, <2>1
  <2>2. CASE m < 2
    <3>1. \A i \in 1 .. Len(mod) : \A k \in mod[i].reads : k \in 1 .. pos
      BY <1>1 DEF Covered, Held
    <3> QED
      BY <1>2, <1>4, <2>2, <3>1
  <2> QED
    BY <2>1, <2>2
<1>11. ASSUME m >= 2, NEW k, k \in ret'.reads \/ (\E j \in 2 .. m : Holds(stack'[j], k))
       PROVE  k > Begin'
  <2>1. CASE \E j \in 2 .. n - 1 : Holds(stack'[j], k)
    <3>1. PICK j \in 2 .. n - 1 : Holds(stack'[j], k)
      BY <2>1
    <3>2. Holds(stack[j], k) /\ j \in 2 .. n
      BY <1>3, <1>5, <3>1
    <3> QED
      BY <1>1, <1>2, <1>3, <1>11, <3>2 DEF Ordered
  <2>2. CASE k \in ret'.reads \/ \E j \in n .. m : Holds(stack'[j], k)
    BY <1>2, <1>3, <1>8, <1>11, <2>2
  <2>3. \A j \in 2 .. m : j \in 2 .. n - 1 \/ j \in n .. m
    BY <1>3
  <2> QED
    BY <1>11, <2>1, <2>2, <2>3
<1>12. ASSUME m < 2
       PROVE  Gapless(ret)' /\ \A i \in 1 .. Len(mod') : Precedes(mod[i], ret)'
  <2>1. CASE ret'.reads = {}
    BY <2>1 DEF Gapless, Precedes
  <2>2. CASE ret'.reads # {}
    <3>1. n = 2 /\ ret.kind # "NULL" /\ \A k : Has(k) => k \in ret'.reads
      BY <1>2, <1>3, <1>12, <2>2
    <3>2. \A k \in ret'.reads : Has(k)
      OBVIOUS
    <3>3. \A k : Has(k) => k \in 1 .. pos'
      <4>1. \A k : Holds(stack[n], k) \/ k \in ret.reads => k \in 1 .. pos
        BY <1>1, <1>3 DEF Covered, Held
      <4>2. \A k : k \in 1 .. pos \/ k \in pos + 1 .. pos' => k \in 1 .. pos'
        BY <1>4
      <4> QED
        BY <1>5, <4>1, <4>2 DEF Has, Had
    <3>4. \A k : ~Holds(stack[1], k)
      <4>1. Placed(stack[1], 1, errors, pos)
        BY <1>1, <1>3, <3>1 DEF Stacked
      <4>2. stack[1].do = "parse" /\ Shaped(stack[1])
        BY <4>1 DEF Placed
      <4>3. stack[1].own = {} /\ stack[1].left.reads = {} /\ stack[1].kids = {}
        BY <4>2 DEF Shaped, NoOwn, HasLeft, HasKids
      <4> QED
        BY <4>3 DEF Holds
    <3>5. ASSUME NEW k \in Nat, k > Begin, k <= pos' PROVE k \in Dropped \/ Has(k)
      <4>1. CASE k > pos
        BY <1>4, <3>5, <4>1 DEF Has
      <4>2. CASE k <= pos
        <5>1. k \in Since + 1 .. pos
          BY <1>2, <1>4, <3>5, <4>2
        <5>2. k \in Dropped \/ Held(2, k) \/ k \in ret.reads
          BY <1>1, <1>3, <3>1, <5>1 DEF Covered
        <5>3. ~ \E i \in 1 .. Len(mod) : k \in mod[i].reads
          BY <1>2, <1>9, <3>5
        <5>4. Held(2, k) => Holds(stack[2], k)
          BY <3>4, <5>3 DEF Held
        <5> QED
          BY <1>5, <3>1, <5>2, <5>4 DEF Has, Had
      <4> QED
        BY <1>4, <4>1, <4>2
    <3>6. ASSUME NEW p \in ret'.reads, NEW q \in ret'.reads, NEW k \in Nat, p < k, k < q
          PROVE  k \in ret'.reads \/ k \in Dropped'
      <4>1. p \in 1 .. pos' /\ q \in 1 .. pos' /\ p > Begin
        BY <1>8, <3>2, <3>3
      <4>2. k > Begin /\ k <= pos'
        BY <1>2, <1>4, <3>6, <4>1
      <4> QED
        BY <3>1, <3>5, <4>2
    <3>7. ASSUME NEW i \in 1 .. Len(mod'), NEW p \in mod'[i].reads, NEW q \in ret'.reads
          PROVE  p < q
      <4>1. p \in 1 .. pos /\ p <= Begin
        BY <1>1, <1>9 DEF Covered, Held
      <4>2. q \in 1 .. pos' /\ q > Begin
        BY <1>8, <3>2, <3>3
      <4> QED
        BY <1>2, <4>1, <4>2
    <3> QED
      BY <3>6, <3>7 DEF Gapless, Precedes
  <2> QED
    BY <2>1, <2>2
<1> QED
  BY <1>2, <1>7, <1>10, <1>11, <1>12 DEF Ordered

(* A frame stays placed as tokens are read and errors left. *)
LEMMA PlacedStays ==
    ASSUME NEW f, NEW i, NEW e \in Nat, NEW p \in Nat, Placed(f, i, e, p),
           NEW e2 \in Nat, e <= e2, NEW p2 \in Nat, p <= p2
    PROVE  Placed(f, i, e2, p2)
<1>1. f.errs \in Nat /\ f.start \in Nat /\ f.errs <= e /\ f.start <= p
  BY DEF Placed, Shaped
<1>2. f.errs <= e2 /\ f.start <= p2
  BY <1>1
<1> QED
  BY <1>2 DEF Placed

(* Typed and Stacked, kept by a step whose new frames are placed. *)
LEMMA StepShape ==
    ASSUME IInv, Running, NEW m \in Nat, m >= Len(stack) - 1,
           Grown(stack', Len(stack), m), mod' = mod, Moved, IsTree(ret') \/ ret' = Entered,
           \A i \in Len(stack) .. m : Placed(stack'[i], i, errors', pos'),
           \A i \in Len(stack) .. m : stack'[i].do \in Starts => i = m /\ pos' < Len(toks),
           \A i \in Len(stack) .. m : stack'[i].do = "fields" => HasStruct(toks)
    PROVE  Typed' /\ Stacked' /\ ret # Aborted
<1>1. /\ Len(stack) \in Nat \ {0} /\ errors \in Nat
      /\ pos \in Nat /\ pos' \in Nat /\ pos <= pos'
  BY Popped DEF IInv, Typed, Moved
<1>5. errors' \in Nat /\ errors <= errors'
  BY <1>1 DEF Moved
<1>6. ret # Aborted
  <2>1. Entered # Aborted /\ ~IsTree(Aborted)
    BY DEF IsTree, Entered, Aborted, NULL
  <2> QED
    BY <2>1 DEF IInv, Typed, Halted, Running
<1>2. Len(stack') = m /\ \A i \in 1 .. Len(stack) - 1 : stack'[i] = stack[i]
  BY DEF Grown
<1>3. Typed'
  BY DEF IInv, Typed, Moved
<1>4. Stacked'
  <2>1. ASSUME NEW i \in 1 .. m PROVE Placed(stack'[i], i, errors', pos')
    <3>1. CASE i < Len(stack)
      <4>1. Placed(stack[i], i, errors, pos) /\ stack'[i] = stack[i]
        BY <1>1, <1>2, <3>1 DEF IInv, Stacked
      <4> QED
        BY <1>1, <1>5, <4>1, PlacedStays
    <3>2. CASE i >= Len(stack)
      BY <1>1, <3>2
    <3>3. i < Len(stack) \/ i >= Len(stack)
      BY <1>1
    <3> QED
      BY <3>1, <3>2, <3>3
  <2>2. ASSUME NEW i \in 1 .. m, stack'[i].do \in Starts PROVE i = m /\ pos' < Len(toks')
    <3>1. CASE i < Len(stack)
      <4>1. stack'[i] = stack[i] /\ i \in 1 .. Len(stack)
        BY <1>1, <1>2, <3>1
      <4>2. i = Len(stack)
        BY <2>2, <4>1 DEF IInv, Stacked
      <4> QED
        BY <1>1, <3>1, <4>2
    <3>2. CASE i >= Len(stack)
      BY <1>1, <2>2, <3>2 DEF Moved
    <3> QED
      BY <1>1, <3>1, <3>2
  <2>3. \E S : stack' \in Seq(S)
    BY DEF Grown
  <2>4. ASSUME NEW i \in 1 .. m, stack'[i].do = "fields" PROVE HasStruct(toks)
    <3>1. CASE i < Len(stack)
      <4>1. stack'[i] = stack[i] /\ i \in 1 .. Len(stack)
        BY <1>1, <1>2, <3>1
      <4> QED
        BY <2>4, <4>1 DEF IInv, Stacked
    <3>2. CASE i >= Len(stack)
      BY <1>1, <2>4, <3>2
    <3> QED
      BY <1>1, <3>1, <3>2
  <2>5. HasStruct(toks') <=> HasStruct(toks)
    BY DEF Moved
  <2> QED
    BY <1>2, <2>1, <2>2, <2>3, <2>4, <2>5 DEF Stacked
<1> QED
  BY <1>3, <1>4, <1>6

(* All of it: what a step has to show. *)
LEMMA Step ==
    ASSUME IInv, Running, NEW m \in Nat, m >= Len(stack) - 1,
           Grown(stack', Len(stack), m), mod' = mod, Moved, IsTree(ret') \/ ret' = Entered,
           \A i \in Len(stack) .. m : Placed(stack'[i], i, errors', pos'),
           \A i \in Len(stack) .. m : stack'[i].do \in Starts => i = m /\ pos' < Len(toks),
           \A i \in Len(stack) .. m : stack'[i].do = "fields" => HasStruct(toks),
           Carried(m)
    PROVE  IInv'
<1>1. Typed' /\ Stacked' /\ ret # Aborted
  BY StepShape
<1>2. Covered'
  BY <1>1, StepCovered
<1>3. Settled' /\ Ordered'
  <2>1. Top.do # "parse" /\ (m >= Len(stack) => Succeeds(stack'[Len(stack)]))
    BY DEF Carried
  <2>2. Dropped \subseteq Dropped'
    BY DEF Carried, Dropped
  <2>3. \A k : k \in ret'.reads \/ (\E i \in Len(stack) .. m : Holds(stack'[i], k)) => Has(k)
    BY DEF Carried
  <2>4. ASSUME m < 2
        PROVE  ret'.reads = {} \/ (ret.kind # "NULL" /\ \A k : Has(k) => k \in ret'.reads)
    <3>1. Len(stack) >= 2 /\ Len(stack) \in Nat
      BY <2>1, BeginStays, Popped DEF IInv
    <3>2. ~ \E i \in Len(stack) .. m : TRUE
      BY <2>4, <3>1
    <3> QED
      BY <2>4, <3>2 DEF Carried
  <2> QED
    BY <1>1, <2>1, <2>2, <2>3, <2>4, StepOrdered
<1> QED
  BY <1>1, <1>2, <1>3 DEF IInv

(* Steps that return NULL, *)
LEMMA ReturnNull ==
    ASSUME IInv, Running, Top.do # "parse", mod' = mod, Moved, Return(NULL), bails' = bails,
           errors' = 0 => Len(stack) >= 3
    PROVE  IInv'
<1>1. Len(stack) \in Nat \ {0} /\ Grown(stack', Len(stack), Len(stack) - 1)
  BY GrowsNone DEF IInv, Return
<1>2. ret' = NULL /\ ret'.kind = "NULL" /\ ret'.reads = {} /\ IsTree(ret')
  BY DEF Return, NULL, IsTree
<1>3. Carried(Len(stack) - 1)
  BY <1>1, <1>2 DEF Carried
<1> QED
  BY <1>1, <1>2, <1>3, Step

(* that return a tree, *)
LEMMA ReturnTree ==
    ASSUME IInv, Running, Top.do # "parse", mod' = mod, Moved, NEW v, IsTree(v), Return(v),
           v.kind = "NULL" => Len(stack) >= 3,
           bails' = bails, ret.kind # "NULL", \A k : k \in v.reads <=> Has(k)
    PROVE  IInv'
<1>1. Len(stack) \in Nat \ {0} /\ Grown(stack', Len(stack), Len(stack) - 1)
  BY GrowsNone DEF IInv, Return
<1>2. ret' = v
  BY DEF Return
<1>3. Carried(Len(stack) - 1)
  BY <1>1, <1>2 DEF Carried
<1> QED
  BY <1>1, <1>2, <1>3, Step

Goes(f) ==
    /\ mod' = mod /\ Moved
    /\ Placed(f, Len(stack), errors', pos') /\ f.do \notin Starts
    /\ f.do = "fields" => HasStruct(toks)
    /\ Top.do # "parse" /\ Succeeds(f)
    /\ bails' = bails /\ ret.kind # "NULL"
    /\ f.do \in Lists => SameList(f) \/ FirstList(f)
    /\ Top.left.reads \subseteq f.left.reads

Blank(f) == \A k : ~Holds(f, k)

(* that go on in the same function, *)
LEMMA Continues ==
    ASSUME IInv, Running, NEW f, Continue(f), Goes(f),
           \A k : Holds(f, k) <=> Has(k)
    PROVE  IInv'
<1>1. /\ Len(stack) \in Nat \ {0} /\ Grown(stack', Len(stack), Len(stack))
      /\ stack'[Len(stack)] = f
  BY GrowsNone DEF IInv, Continue
<1>2. ret' = Entered /\ ret'.kind = "entered" /\ ret'.reads = {}
  BY DEF Continue, Entered, NULL
<1>3. Carried(Len(stack))
  BY <1>1, <1>2 DEF Carried, Goes
<1> QED
  BY <1>1, <1>2, <1>3, Step DEF Goes

(* and that call another. *)
LEMMA Calls ==
    ASSUME IInv, Running, NEW f, NEW g, Call(f, <<g>>), Goes(f),
           Placed(g, Len(stack) + 1, errors', pos'), g.do \in Starts => pos' < Len(toks), g.do # "fields",
           \A k : Holds(f, k) \/ Holds(g, k) <=> Has(k),
           g.do \in Lists => NewList(g, f),
           f.do = "climb" => f.left.reads \subseteq g.left.reads
    PROVE  IInv'
<1>1. /\ Len(stack) \in Nat \ {0} /\ Grown(stack', Len(stack), Len(stack) + 1)
      /\ stack'[Len(stack)] = f /\ stack'[Len(stack) + 1] = g
  <2>1. Stacked /\ stack' = Pushed(f, <<g>>)
    BY DEF IInv, Call, Pushed
  <2> QED
    BY <2>1, GrowsOne
<1>2. ret' = Entered /\ ret'.kind = "entered" /\ ret'.reads = {}
  BY DEF Call, Entered, NULL
<1>3. \A i \in Len(stack) .. Len(stack) + 1 : i = Len(stack) \/ i = Len(stack) + 1
  BY <1>1
<1>4. Len(stack) \in Len(stack) .. Len(stack) + 1 /\ Len(stack) + 1 \in Len(stack) .. Len(stack) + 1
  BY <1>1
<1>5. Carried(Len(stack) + 1)
  BY <1>1, <1>2, <1>3, <1>4 DEF Carried, Goes
<1> QED
  BY <1>1, <1>2, <1>3, <1>5, Step DEF Goes

-----------------------------------------------------------------------------
(* What is known of the running function and of what was returned to it.   *)
Known ==
    /\ Len(stack) \in Nat \ {0}
    /\ Len(toks) \in Nat /\ pos \in 0 .. Len(toks) /\ errors \in Nat
    /\ Placed(Top, Len(stack), errors, pos)
    /\ Top.do \in Starts => pos < Len(toks)
    /\ Top.do = "fields" => HasStruct(toks)
    /\ Top.do # "parse" => Len(stack) >= 2
    /\ Deep => Len(stack) >= 3
    /\ IsTree(ret) \/ ret = Entered
    /\ faults \subseteq FaultKinds

(* What the invariant says of the running function. *)
LEMMA Knows ==
    ASSUME IInv, Running
    PROVE  Known
<1>1. Len(stack) \in Nat \ {0} /\ Len(stack) \in 1 .. Len(stack)
  BY Popped DEF IInv
<1>2. Placed(Top, Len(stack), errors, pos)
  BY <1>1 DEF IInv, Stacked, Top
<1>3. (Top.do \in Starts => pos < Len(toks)) /\ (Top.do = "fields" => HasStruct(toks))
  BY <1>1 DEF IInv, Stacked, Top
<1>4. /\ Top.do # "parse" => Len(stack) >= 2
      /\ Deep => Len(stack) >= 3
  <2>1. /\ Top.do = "parse" <=> Len(stack) = 1
        /\ Len(stack) = 2 => Top.do \in {"statement", "end"}
    BY <1>2 DEF Placed
  <2>2. PICK n \in Nat \ {0} : n = Len(stack)
    BY <1>1
  <2>3. n = 1 \/ n = 2 \/ n >= 3
    OBVIOUS
  <2>4. /\ Top.do # "parse" => n >= 2
        /\ Deep => n >= 3
    BY <2>1, <2>2, <2>3 DEF Deep
  <2> QED
    BY <2>2, <2>4
<1>5. Len(toks) \in Nat
  BY DEF IInv, Typed
<1> QED
  BY <1>1, <1>2, <1>3, <1>4, <1>5 DEF Known, IInv, Typed, Halted, Running

(* New frames. *)
LEMMA Fresh ==
    ASSUME NEW do \in FrameKinds \ {"parse"}, NEW i \in Nat, i >= 2, NEW e \in Nat, NEW p \in Nat,
           i = 2 => do \in {"statement", "end"}
    PROVE  Placed(Frame(do), i, e, p) /\ Frame(do).do = do /\ Blank(Frame(do))
BY DEF Frame, Placed, Shaped, Blank, Holds, IsTree, NULL, NoOwn, HasLeft, HasKids

(* The frame of parser_expression, *)
LEMMA FreshExpression ==
    ASSUME NEW ns, NEW f, f = [Frame("expression") EXCEPT !.opt = ns],
           NEW i \in Nat, i >= 3, NEW e \in Nat, NEW p \in Nat
    PROVE  Placed(f, i, e, p) /\ f.do = "expression" /\ Blank(f)
<1>1. "expression" \in FrameKinds
  BY DEF FrameKinds
<1> QED
  BY <1>1 DEF Frame, Placed, Shaped, Blank, Holds, IsTree, NULL, NoOwn, HasLeft, HasKids

(* and that of its loop, hold nothing yet. *)
LEMMA FreshClimb ==
    ASSUME NEW ns, NEW prec, NEW f, f = Climb(prec, ns),
           NEW i \in Nat, i >= 3, NEW e \in Nat, NEW p \in Nat
    PROVE  Placed(f, i, e, p) /\ f.do = "climb" /\ Blank(f)
<1>1. "climb" \in FrameKinds
  BY DEF FrameKinds
<1> QED
  BY <1>1 DEF Climb, Frame, Placed, Shaped, Blank, Holds, IsTree, NULL, NoOwn, HasLeft, HasKids

(* A call of parser_expression, *)
LEMMA CallsExpression ==
    ASSUME IInv, Running, NEW f, NEW ns, Call(f, Expression(ns)), Goes(f), Len(stack) >= 2,
           f.do # "climb", \A k : Holds(f, k) <=> Has(k)
    PROVE  IInv'
<1>1. PICK g, h : /\ g = [Frame("expression") EXCEPT !.opt = ns]
                  /\ h = Climb(PRECEDENCE_ASSIGN, ns)
  OBVIOUS
<1>2. /\ Len(stack) \in Nat \ {0} /\ Grown(stack', Len(stack), Len(stack) + 2)
      /\ stack'[Len(stack)] = f /\ stack'[Len(stack) + 1] = g /\ stack'[Len(stack) + 2] = h
  <2>1. Stacked /\ stack' = Pushed(f, <<g, h>>)
    BY <1>1 DEF IInv, Call, Pushed, Expression
  <2> QED
    BY <2>1, GrowsTwo
<1>3. ret' = Entered /\ ret'.kind = "entered" /\ ret'.reads = {}
  BY DEF Call, Entered, NULL
<1>4. \A i \in Len(stack) .. Len(stack) + 2 :
         i = Len(stack) \/ i = Len(stack) + 1 \/ i = Len(stack) + 2
  BY <1>2
<1>5. Len(stack) \in Len(stack) .. Len(stack) + 2
  BY <1>2
<1>6. errors' \in Nat /\ pos' \in Nat
  BY Knows DEF Goes, Moved, Known
<1>7. Placed(g, Len(stack) + 1, errors', pos') /\ g.do = "expression" /\ Blank(g)
  <2>1. Len(stack) + 1 \in Nat /\ Len(stack) + 1 >= 3
    BY <1>2
  <2> QED
    BY <1>1, <1>6, <2>1, FreshExpression
<1>8. Placed(h, Len(stack) + 2, errors', pos') /\ h.do = "climb" /\ Blank(h)
  <2>1. Len(stack) + 2 \in Nat /\ Len(stack) + 2 >= 3
    BY <1>2
  <2> QED
    BY <1>1, <1>6, <2>1, FreshClimb
<1>9. Carried(Len(stack) + 2)
  <2>1. \A i \in Len(stack) .. Len(stack) + 2 :
           stack'[i].do \in Lists => i = Len(stack) /\ stack'[i] = f
    BY <1>2, <1>4, <1>7, <1>8 DEF Lists
  <2>2. \A i \in Len(stack) .. Len(stack) + 2 : \A k :
           Holds(stack'[i], k) => Holds(f, k)
    BY <1>2, <1>4, <1>7, <1>8 DEF Blank
  <2>3. \A i \in Len(stack) .. Len(stack) + 2 - 1 :
           stack'[i].do = "climb" =>
               i = Len(stack) /\ stack'[i].left.reads \subseteq stack'[i + 1].left.reads
    BY <1>2, <1>4, <1>7
  <2> QED
    BY <1>2, <1>3, <1>5, <2>1, <2>2, <2>3 DEF Carried, Goes
<1>10. \A i \in Len(stack) .. Len(stack) + 2 : Placed(stack'[i], i, errors', pos')
  BY <1>2, <1>4, <1>7, <1>8 DEF Goes
<1>11. \A i \in Len(stack) .. Len(stack) + 2 : /\ stack'[i].do \notin Starts
                                               /\ stack'[i].do = "fields" => HasStruct(toks)
  BY <1>2, <1>4, <1>7, <1>8 DEF Goes, Succeeds, Deep, Starts
<1> QED
  BY <1>2, <1>3, <1>9, <1>10, <1>11, Step DEF Goes

(* from a function that waits for it, *)
LEMMA CallsWaiting ==
    ASSUME IInv, Running, NEW f, NEW g, NEW ns, Call(f, <<g>> \o Expression(ns)), Goes(f),
           Len(stack) >= 2, Placed(g, Len(stack) + 1, errors', pos'), g.do # "fields",
           g.do \notin Starts \cup Lists \cup {"climb"},
           \A k : Holds(f, k) \/ Holds(g, k) <=> Has(k),
           f.do = "climb" => f.left.reads \subseteq g.left.reads
    PROVE  IInv'
<1>1. PICK h, c : /\ h = [Frame("expression") EXCEPT !.opt = ns]
                  /\ c = Climb(PRECEDENCE_ASSIGN, ns)
  OBVIOUS
<1>2. /\ Len(stack) \in Nat \ {0} /\ Grown(stack', Len(stack), Len(stack) + 3)
      /\ stack'[Len(stack)] = f /\ stack'[Len(stack) + 1] = g
      /\ stack'[Len(stack) + 2] = h /\ stack'[Len(stack) + 3] = c
  <2>1. Stacked /\ stack' = Pushed(f, <<g>> \o <<h, c>>)
    BY <1>1 DEF IInv, Call, Pushed, Expression
  <2> QED
    BY <2>1, GrowsThree
<1>3. ret' = Entered /\ ret'.kind = "entered" /\ ret'.reads = {}
  BY DEF Call, Entered, NULL
<1>4. \A i \in Len(stack) .. Len(stack) + 3 :
         i = Len(stack) \/ i = Len(stack) + 1 \/ i = Len(stack) + 2 \/ i = Len(stack) + 3
  BY <1>2
<1>5. Len(stack) \in Len(stack) .. Len(stack) + 3 /\ Len(stack) + 1 \in Len(stack) .. Len(stack) + 3
  BY <1>2
<1>6. errors' \in Nat /\ pos' \in Nat
  BY Knows DEF Goes, Moved, Known
<1>7. Placed(h, Len(stack) + 2, errors', pos') /\ h.do = "expression" /\ Blank(h)
  <2>1. Len(stack) + 2 \in Nat /\ Len(stack) + 2 >= 3
    BY <1>2
  <2> QED
    BY <1>1, <1>6, <2>1, FreshExpression
<1>8. Placed(c, Len(stack) + 3, errors', pos') /\ c.do = "climb" /\ Blank(c)
  <2>1. Len(stack) + 3 \in Nat /\ Len(stack) + 3 >= 3
    BY <1>2
  <2> QED
    BY <1>1, <1>6, <2>1, FreshClimb
<1>9. Carried(Len(stack) + 3)
  <2>1. \A i \in Len(stack) .. Len(stack) + 3 :
           stack'[i].do \in Lists => i = Len(stack) /\ stack'[i] = f
    BY <1>2, <1>4, <1>7, <1>8 DEF Lists
  <2>2. \A i \in Len(stack) .. Len(stack) + 3 : \A k :
           Holds(stack'[i], k) => Holds(f, k) \/ Holds(g, k)
    BY <1>2, <1>4, <1>7, <1>8 DEF Blank
  <2>3. \A i \in Len(stack) .. Len(stack) + 3 - 1 :
           stack'[i].do = "climb" =>
               i = Len(stack) /\ stack'[i].left.reads \subseteq stack'[i + 1].left.reads
    BY <1>2, <1>4, <1>7
  <2> QED
    BY <1>2, <1>3, <1>5, <2>1, <2>2, <2>3 DEF Carried, Goes
<1>10. \A i \in Len(stack) .. Len(stack) + 3 : Placed(stack'[i], i, errors', pos')
  BY <1>2, <1>4, <1>7, <1>8 DEF Goes
<1>11. \A i \in Len(stack) .. Len(stack) + 3 : /\ stack'[i].do \notin Starts
                                               /\ stack'[i].do = "fields" => HasStruct(toks)
  BY <1>2, <1>4, <1>7, <1>8 DEF Goes, Succeeds, Deep, Starts
<1> QED
  BY <1>2, <1>3, <1>9, <1>10, <1>11, Step DEF Goes

(* or of its loop alone. *)
LEMMA CallsClimb ==
    ASSUME IInv, Running, NEW f, NEW g, NEW prec, NEW ns, Call(f, <<g, Climb(prec, ns)>>), Goes(f),
           Len(stack) >= 2, Placed(g, Len(stack) + 1, errors', pos'), g.do # "fields",
           g.do \notin Starts \cup Lists \cup {"climb"},
           \A k : Holds(f, k) \/ Holds(g, k) <=> Has(k),
           f.do = "climb" => f.left.reads \subseteq g.left.reads
    PROVE  IInv'
<1>1. PICK c : c = Climb(prec, ns)
  OBVIOUS
<1>2. /\ Len(stack) \in Nat \ {0} /\ Grown(stack', Len(stack), Len(stack) + 2)
      /\ stack'[Len(stack)] = f /\ stack'[Len(stack) + 1] = g /\ stack'[Len(stack) + 2] = c
  <2>1. Stacked /\ stack' = Pushed(f, <<g, c>>)
    BY <1>1 DEF IInv, Call, Pushed
  <2> QED
    BY <2>1, GrowsTwo
<1>3. ret' = Entered /\ ret'.kind = "entered" /\ ret'.reads = {}
  BY DEF Call, Entered, NULL
<1>4. \A i \in Len(stack) .. Len(stack) + 2 :
         i = Len(stack) \/ i = Len(stack) + 1 \/ i = Len(stack) + 2
  BY <1>2
<1>5. Len(stack) \in Len(stack) .. Len(stack) + 2 /\ Len(stack) + 1 \in Len(stack) .. Len(stack) + 2
  BY <1>2
<1>6. errors' \in Nat /\ pos' \in Nat
  BY Knows DEF Goes, Moved, Known
<1>8. Placed(c, Len(stack) + 2, errors', pos') /\ c.do = "climb" /\ Blank(c)
  <2>1. Len(stack) + 2 \in Nat /\ Len(stack) + 2 >= 3
    BY <1>2
  <2> QED
    BY <1>1, <1>6, <2>1, FreshClimb
<1>9. Carried(Len(stack) + 2)
  <2>1. \A i \in Len(stack) .. Len(stack) + 2 :
           stack'[i].do \in Lists => i = Len(stack) /\ stack'[i] = f
    BY <1>2, <1>4, <1>8 DEF Lists
  <2>2. \A i \in Len(stack) .. Len(stack) + 2 : \A k :
           Holds(stack'[i], k) => Holds(f, k) \/ Holds(g, k)
    BY <1>2, <1>4, <1>8 DEF Blank
  <2>3. \A i \in Len(stack) .. Len(stack) + 2 - 1 :
           stack'[i].do = "climb" =>
               i = Len(stack) /\ stack'[i].left.reads \subseteq stack'[i + 1].left.reads
    BY <1>2, <1>4, <1>8
  <2> QED
    BY <1>2, <1>3, <1>5, <2>1, <2>2, <2>3 DEF Carried, Goes
<1>10. \A i \in Len(stack) .. Len(stack) + 2 : Placed(stack'[i], i, errors', pos')
  BY <1>2, <1>4, <1>8 DEF Goes
<1>11. \A i \in Len(stack) .. Len(stack) + 2 : /\ stack'[i].do \notin Starts
                                               /\ stack'[i].do = "fields" => HasStruct(toks)
  BY <1>2, <1>4, <1>8 DEF Goes, Succeeds, Deep, Starts
<1> QED
  BY <1>2, <1>3, <1>9, <1>10, <1>11, Step DEF Goes

-----------------------------------------------------------------------------
(* What is allocated and freed. *)
MemoryOK == faults' \subseteq FaultKinds

(* Freeing and *)
LEMMA Frees ==
    ASSUME faults \subseteq FaultKinds, NEW vs, NEW again, Free(vs, again)
    PROVE  MemoryOK
<1>1. PICK f \in Faults(vs, live) : faults' = faults \cup f \cup (IF again THEN {"double"} ELSE {})
  BY DEF Free
<1>2. f \subseteq {"double", "wild"}
  BY <1>1 DEF Faults
<1> QED
  BY <1>1, <1>2 DEF MemoryOK, FaultKinds

(* allocating change nothing but the memory. *)
LEMMA Allocates ==
    ASSUME faults \subseteq FaultKinds
    PROVE  /\ \A v : New(v) => MemoryOK
           /\ \A v : Release(v) => MemoryOK
           /\ \A vs : ReleaseList(vs) => MemoryOK
           /\ (UNCHANGED memory) => MemoryOK
<1>1. \A v : New(v) => MemoryOK
  BY DEF New, MemoryOK
<1>2. ASSUME NEW v, Release(v) PROVE MemoryOK
  BY <1>2, Frees DEF Release
<1>3. ASSUME NEW vs, ReleaseList(vs) PROVE MemoryOK
  BY <1>3, Frees DEF ReleaseList
<1>4. (UNCHANGED memory) => MemoryOK
  BY DEF memory, MemoryOK
<1> QED
  BY <1>1, <1>2, <1>3, <1>4

(* Trees. *)
Makes(t, own, kids) ==
    /\ IsTree(t) /\ t.kind # "NULL"
    /\ \A k : k \in t.reads <=> k \in own \/ \E u \in kids : k \in u.reads

(* A tree was read from its own tokens and those of its parts. *)
LEMMA TreeMakes ==
    ASSUME NEW kind, kind \notin {"NULL", "entered", "aborted", "returned", "idle"},
           NEW own, NEW kids, NEW given, NEW wild
    PROVE  Makes(Tree(kind, own, kids, given, wild), own, kids)
BY DEF Makes, Tree, IsTree

(* So was each expression *)
LEMMA ExprMakes ==
    ASSUME NEW own, NEW a, NEW b, NEW kids
    PROVE  /\ Makes(ast_new_access_expr(own, a, b), own, {a, b})
           /\ Makes(ast_new_as_expr(own, a), own, {a})
           /\ Makes(ast_new_new_expr(own, a), own, {a})
           /\ Makes(ast_new_assign_expr(own, a, b), own, {a, b})
           /\ Makes(ast_new_ident_expr(own), own, {})
           /\ Makes(ast_new_int_expr(own), own, {})
           /\ Makes(ast_new_string_expr(own), own, {})
           /\ Makes(ast_new_char_expr(own), own, {})
           /\ Makes(ast_new_binary_expr(own, a, b), own, {a, b})
           /\ Makes(ast_new_unary_expr(own, a), own, {a})
           /\ Makes(ast_new_call_expr(own, a, kids), own, {a} \cup kids)
           /\ Makes(ast_new_init_expr(own, a, kids), own, {a} \cup kids)
<1>1. \A kind, ks : kind \notin {"NULL", "entered", "aborted", "returned", "idle"} => Makes(Expr(kind, own, ks), own, ks)
  BY TreeMakes DEF Expr
<1> QED
  BY <1>1 DEF ast_new_access_expr, ast_new_as_expr, ast_new_new_expr, ast_new_assign_expr,
      ast_new_ident_expr, ast_new_int_expr, ast_new_string_expr, ast_new_char_expr,
      ast_new_binary_expr, ast_new_unary_expr, ast_new_call_expr, ast_new_init_expr

(* and each statement. *)
LEMMA StmtMakes ==
    ASSUME NEW own, NEW a, NEW b, NEW kids
    PROVE  /\ Makes(ast_new_expr_stmt(own, a), own, {a})
           /\ Makes(ast_new_let_stmt(own, a), own, {a})
           /\ Makes(ast_new_delete_stmt(own, a), own, {a})
           /\ Makes(ast_new_return_stmt(own, a), own, {a})
           /\ Makes(ast_new_while_stmt(own, a, b), own, {a, b})
           /\ Makes(ast_new_if_stmt(own, a, b), own, {a, b})
           /\ Makes(ast_new_block_stmt(own, kids), own, kids)
           /\ \A x : Makes(ast_new_func_decl_stmt(own, x, a), own, {a})
           /\ Makes(ast_new_struct_decl_stmt(own), own, {})
           /\ Makes(ast_new_import_stmt(own), own, {})
<1>1. \A kind, ks, given, wild : kind \notin {"NULL", "entered", "aborted", "returned", "idle"} =>
          Makes(Tree(kind, own, ks, given, wild), own, ks)
  BY TreeMakes
<1> QED
  BY <1>1 DEF ast_new_expr_stmt, ast_new_let_stmt, ast_new_delete_stmt, ast_new_return_stmt,
      ast_new_while_stmt, ast_new_if_stmt, ast_new_block_stmt, ast_new_func_decl_stmt,
      ast_new_struct_decl_stmt, ast_new_import_stmt

-----------------------------------------------------------------------------
(* The actions, each under a name of its own. *)
LEMMA EnteredHoldsNothing == Entered.reads = {} /\ Entered.kind = "entered" /\ NULL.reads = {} /\ NULL.kind = "NULL"
BY DEF Entered, NULL

(* A function that leaves an error may return NULL at once. *)
LEMMA Fails ==
    ASSUME IInv, Running, Top.do # "parse", mod' = mod, toks' = toks, bails' = bails, MemoryOK,
           NEW to, to \in pos .. Len(toks), Fail(to)
    PROVE  IInv'
<1>1. Moved /\ errors' # 0
  BY Knows DEF Known, Moved, MemoryOK, Fail, Miss
<1> QED
  BY <1>1, ReturnNull DEF Fail

(* The fields of a frame that follows the running one. *)
LEMMA Turned ==
    ASSUME Known, NEW do, NEW own
    PROVE  LET f == [Top EXCEPT !.do = do, !.own = own]
           IN  /\ DOMAIN f = DOMAIN Top
               /\ f.do = do /\ f.own = own /\ f.left = Top.left /\ f.kids = Top.kids
               /\ f.errs = Top.errs /\ f.start = Top.start
BY DEF Known, Placed, Shaped

(* parser.c:448-469 keeps the invariant. *)
LEMMA LetStep ==
    ASSUME IInv, parser_parse_let_stmt
    PROVE  IInv'
<1>1. Known /\ Running /\ ret = Entered /\ Top.do = "LET"
  BY Knows DEF parser_parse_let_stmt, Runs
<1>2. PICK name : name = Consume(pos, <<"LET", "IDENT">>)
  OBVIOUS
<1>3. PICK type : type = IF name.ok /\ TokenAt(name.to + 1) = "COLON"
                         THEN parser_consume_type(name.to + 1) ELSE name
  OBVIOUS
<1>4. PICK r : r = And(type, Consume(type.to, <<"EQ">>))
  OBVIOUS
<1>5. PICK f : f = [Top EXCEPT !.do = "let", !.own = Reads(r.to)]
  OBVIOUS
<1>6. /\ IF r.ok THEN Read(r.to) /\ Call(f, Expression(FALSE)) ELSE Fail(r.to)
      /\ UNCHANGED <<toks, mod, memory, bails>>
  BY <1>2, <1>3, <1>4, <1>5 DEF parser_parse_let_stmt
<1>7. File /\ pos \in 0 .. Len(toks) /\ MemoryOK
  BY <1>1, <1>6, Allocates DEF Known, File
<1>8. Reaches(name, pos)
  BY <1>2, <1>7, ConsumeTwo
<1>9. Reaches(type, pos)
  <2>1. CASE name.ok /\ TokenAt(name.to + 1) = "COLON"
    <3>1. name.to + 1 \in pos .. Len(toks)
      BY <1>7, <1>8, <2>1, Peeked DEF Reaches, File
    <3>2. Reaches(type, name.to + 1)
      BY <1>3, <1>7, <2>1, <3>1, TypeReaches DEF File
    <3> QED
      BY <1>7, <3>1, <3>2 DEF Reaches, File
  <2> QED
    BY <1>3, <1>8, <2>1
<1>10. Reaches(r, pos)
  <2>1. type.to \in 0 .. Len(toks)
    BY <1>7, <1>9 DEF Reaches
  <2>2. Reaches(Consume(type.to, <<"EQ">>), type.to)
    BY <1>7, <2>1, ConsumeOne
  <2> QED
    BY <1>4, <1>7, <1>9, <2>2 DEF Reaches, And, File
<1>11. CASE r.ok
  <2>1. pos' = r.to /\ errors' = errors /\ Call(f, Expression(FALSE))
    BY <1>6, <1>11 DEF Read
  <2>2. Moved
    BY <1>1, <1>6, <1>7, <1>10, <2>1 DEF Moved, MemoryOK, Known, Reaches
  <2>3. /\ DOMAIN f = DOMAIN Top
        /\ f.do = "let" /\ f.own = Reads(r.to) /\ f.left = Top.left /\ f.kids = Top.kids
        /\ f.errs = Top.errs /\ f.start = Top.start
    BY <1>1, <1>5, Turned
  <2>4. Placed(f, Len(stack), errors', pos')
    BY <1>1, <1>10, <2>1, <2>3 DEF Known, Placed, Shaped, FrameKinds, Around, HasLeft, HasKids, NoOwn, Reaches
  <2>5. Goes(f) /\ f.do # "climb"
    BY <1>1, <1>6, <2>2, <2>3, <2>4, EnteredHoldsNothing DEF Goes, Succeeds, Deep, Starts, Lists
  <2>6. \A k : Holds(f, k) <=> Has(k)
    BY <1>1, <2>1, <2>3, EnteredHoldsNothing
       DEF Holds, Has, Had, Reads, Known, Placed, Shaped, HasLeft, HasKids, NoOwn
  <2>7. Len(stack) >= 2
    BY <1>1 DEF Known
  <2> QED
    BY <1>1, <2>1, <2>5, <2>6, <2>7, CallsExpression
<1>12. CASE ~r.ok
  BY <1>1, <1>6, <1>7, <1>10, <1>12, Fails DEF Reaches
<1> QED
  BY <1>11, <1>12

(* Reading leaves no error. *)
LEMMA Reading ==
    ASSUME Known, MemoryOK, toks' = toks, NEW to, to \in pos .. Len(toks), Read(to)
    PROVE  Moved /\ errors' = errors /\ pos' = to
BY DEF Known, MemoryOK, Moved, Read

(* Where the next token is. *)
LEMMA OneMore ==
    ASSUME Known
    PROVE  /\ File /\ pos \in Nat /\ pos \in pos .. Len(toks) /\ pos \in 0 .. Len(toks)
           /\ peek # "EOF" => pos + 1 \in pos .. Len(toks)
           /\ Top.do \in Starts => pos + 1 \in pos .. Len(toks)
           /\ Advanced(pos) \in pos .. Len(toks)
BY DEF Known, File, peek, TokenAt, Advanced

(* A function that was just entered has what its frame holds and what it reads. *)
LEMMA HasReads ==
    ASSUME NEW to, pos' = to, ret = Entered
    PROVE  ret.kind # "NULL" /\ \A k : Has(k) <=> Holds(Top, k) \/ k \in Reads(to)
BY EnteredHoldsNothing DEF Has, Had, Reads

(* Frames without trees, and what they hold. *)
Plain == FrameKinds \ (HasLeft \cup HasKids \cup Starts \cup {"parse"})

(* They hold their own tokens, *)
LEMMA PlainHolds ==
    ASSUME Known, Top.do \notin HasLeft \cup HasKids
    PROVE  \A k : Holds(Top, k) <=> k \in Top.own
BY DEF Known, Placed, Shaped, Holds

(* and follow one another freely. *)
LEMMA PlainGoes ==
    ASSUME Known, Moved, mod' = mod, Top.do \notin HasLeft \cup HasKids \cup {"parse"},
           bails' = bails, ret.kind # "NULL",
           NEW f, DOMAIN f = DOMAIN Top, f.do \in Plain,
           f.do \in NoOwn => f.own = {},
           f.left = Top.left, f.kids = Top.kids, f.errs \in 0 .. errors', f.start \in 0 .. pos',
           Succeeds(f), f.do \in Lists => SameList(f) \/ FirstList(f), f.do = "fields" => HasStruct(toks)
    PROVE  /\ Goes(f) /\ f.do # "climb" /\ Len(stack) >= 2
           /\ \A k : Holds(f, k) <=> k \in f.own
<1>1. f.do \in FrameKinds /\ f.do \notin HasLeft \cup HasKids \cup Starts \cup {"parse", "climb"}
  BY DEF Plain, HasLeft, HasKids
<1>2. errors' \in Nat /\ pos' \in Nat
  BY DEF Known, Moved
<1>3. Shaped(f)
  <2>1. f.errs \in Nat /\ f.start \in Nat
    BY <1>2
  <2>2. f.do # "expression"
    BY <1>1 DEF HasLeft
  <2>3. f.left.reads = {} /\ f.kids = {} /\ IsTree(f.left)
    BY DEF Known, Placed, Shaped
  <2>4. DOMAIN f = {"do", "own", "left", "kids", "errs", "start", "prec", "opt", "more"}
    BY DEF Known, Placed, Shaped
  <2> QED
    BY <1>1, <2>1, <2>2, <2>3, <2>4 DEF Shaped
<1>4. Placed(f, Len(stack), errors', pos')
  <2>1. Len(stack) # 1 /\ (Len(stack) = 2 => f.do \in {"statement", "end"})
    <3>1. PICK n \in Nat : n = Len(stack)
      BY DEF Known
    <3>2. Top.do # "parse"
      OBVIOUS
    <3>3. n >= 2 /\ (Deep => n >= 3)
      BY <3>1, <3>2 DEF Known
    <3>4. Deep \/ f.do = "end"
      BY DEF Succeeds
    <3>5. n # 1 /\ (n = 2 => f.do = "end")
      BY <3>3, <3>4
    <3> QED
      BY <3>1, <3>5
  <2> QED
    BY <1>1, <1>2, <1>3, <2>1 DEF Placed
<1>5. Goes(f)
  BY <1>1, <1>4 DEF Goes
<1>6. \A k : Holds(f, k) <=> k \in f.own
  BY <1>1, <1>3 DEF Shaped, Holds
<1> QED
  BY <1>1, <1>5, <1>6 DEF Known

(* The frame of a function that is called. *)
LEMMA CalledPlaced ==
    ASSUME Known, Moved, Top.do # "parse", NEW do \in FrameKinds \ {"parse"}
    PROVE  /\ Placed(Frame(do), Len(stack) + 1, errors', pos')
           /\ Frame(do).do = do /\ Blank(Frame(do))
<1>1. Len(stack) + 1 \in Nat /\ Len(stack) + 1 >= 3 /\ errors' \in Nat /\ pos' \in Nat
  BY DEF Known, Moved
<1> QED
  BY <1>1, Fresh

(* parser.c:294-303 keeps the invariant. *)
LEMMA FuncStep ==
    ASSUME IInv, parser_parse_func_def
    PROVE  IInv'
<1>1. Known /\ Running /\ ret = Entered /\ Top.do = "func"
  BY Knows DEF parser_parse_func_def, Runs
<1>2. PICK r : r = Consume(pos, <<"FN", "IDENT", "LPAREN">>)
  OBVIOUS
<1>3. PICK f : f = [Top EXCEPT !.do = "params", !.own = @ \cup Reads(r.to), !.start = r.to]
  OBVIOUS
<1>4. /\ IF r.ok THEN Read(r.to) /\ Continue(f) ELSE Fail(r.to)
      /\ UNCHANGED <<toks, mod, memory, bails>>
  BY <1>2, <1>3 DEF parser_parse_func_def
<1>5. MemoryOK /\ r.to \in pos .. Len(toks)
  BY <1>1, <1>2, <1>4, Allocates, OneMore, ConsumeMore DEF Known, Reaches
<1>6. CASE r.ok
  <2>1. Moved /\ errors' = errors /\ pos' = r.to /\ Continue(f)
    BY <1>1, <1>4, <1>5, <1>6, Reading
  <2>2. /\ DOMAIN f = DOMAIN Top
        /\ f.do = "params" /\ f.own = Top.own \cup Reads(r.to) /\ f.left = Top.left
        /\ f.kids = Top.kids /\ f.errs = Top.errs /\ f.start = r.to
    BY <1>1, <1>3 DEF Known, Placed, Shaped
  <2>4. FirstList(f)
    <3>1. f.left.reads = {}
      BY <1>1, <2>2 DEF Known, Placed, Shaped, HasLeft
    <3>2. \A k : Has(k) => k \in f.own
      BY <1>1, <2>1, <2>2, HasReads, PlainHolds DEF HasLeft, HasKids
    <3> QED
      BY <1>1, <2>1, <2>2, <3>1, <3>2, EnteredHoldsNothing DEF FirstList
  <2>3. Goes(f) /\ \A k : Holds(f, k) <=> k \in f.own
    <3>1. f.errs \in 0 .. errors' /\ f.start \in 0 .. pos'
      BY <1>1, <1>5, <2>1, <2>2 DEF Known, Placed, Shaped
    <3> QED
      BY <1>1, <1>4, <2>1, <2>2, <2>4, <3>1, PlainGoes, EnteredHoldsNothing
         DEF Plain, FrameKinds, HasLeft, HasKids, Starts, NoOwn, Deep, Succeeds, Lists
  <2> QED
    BY <1>1, <2>1, <2>2, <2>3, Continues, HasReads, PlainHolds DEF HasLeft, HasKids
<1>7. CASE ~r.ok
  BY <1>1, <1>4, <1>5, <1>7, Fails
<1> QED
  BY <1>6, <1>7

(* parser.c:202-292 keeps the invariant. *)
LEMMA StatementStep ==
    ASSUME IInv, parser_statement
    PROVE  IInv'
<1>1. Known /\ Running /\ ret = Entered /\ Top.do = "statement"
  BY Knows DEF parser_statement, Runs
<1>2. PICK f : f = [Top EXCEPT !.do = "end", !.opt = ~(peek \in {"FN", "IF", "WHILE", "TYPE"}),
                               !.errs = errors, !.start = pos]
  OBVIOUS
<1>3. PICK to : to = IF peek = "EXTERN" THEN pos + 1 ELSE pos
  OBVIOUS
<1>4. PICK stmt : stmt = CASE peek = "FN" -> Frame("func")
                           [] peek = "EXTERN" -> [Frame("func") EXCEPT !.opt = TRUE, !.own = {pos + 1}]
                           [] peek \in {"IF", "WHILE", "TYPE", "DELETE", "RETURN", "LET", "IMPORT"} ->
                                  Frame(peek)
                           [] OTHER -> Frame("expr_stmt")
  OBVIOUS
<1>5. /\ Call(f, IF stmt.do = "expr_stmt" THEN <<stmt>> \o Expression(FALSE) ELSE <<stmt>>)
      /\ Read(to)
      /\ UNCHANGED <<toks, mod, memory, bails>>
  BY <1>2, <1>3, <1>4 DEF parser_statement
<1>6. MemoryOK /\ to \in pos .. Len(toks)
  BY <1>1, <1>3, <1>5, Allocates, OneMore DEF Known
<1>7. Moved /\ errors' = errors /\ pos' = to
  BY <1>1, <1>5, <1>6, Reading
<1>8. /\ DOMAIN f = DOMAIN Top
      /\ f.do = "end" /\ f.own = Top.own /\ f.left = Top.left /\ f.kids = Top.kids
      /\ f.errs = errors /\ f.start = pos
  BY <1>1, <1>2 DEF Known, Placed, Shaped
<1>9. Goes(f) /\ f.do # "climb" /\ Len(stack) >= 2 /\ (\A k : Holds(f, k) <=> k \in f.own)
  <2>1. f.errs \in 0 .. errors' /\ f.start \in 0 .. pos'
    BY <1>1, <1>6, <1>7, <1>8 DEF Known
  <2>2. f.own = {}
    BY <1>1, <1>8 DEF Known, Placed, Shaped, NoOwn
  <2> QED
    BY <1>1, <1>5, <1>7, <1>8, <2>1, <2>2, PlainGoes, EnteredHoldsNothing
       DEF Plain, FrameKinds, HasLeft, HasKids, Starts, Succeeds, Lists
<1>10. \A k : Has(k) <=> Holds(f, k) \/ k \in Reads(to)
  BY <1>1, <1>7, <1>8, <1>9, HasReads, PlainHolds DEF HasLeft, HasKids
<1>11. CASE peek = "EXTERN"
  <2>1. stmt = [Frame("func") EXCEPT !.opt = TRUE, !.own = {pos + 1}] /\ to = pos + 1
    BY <1>3, <1>4, <1>11
  <2>2. Placed(Frame("func"), Len(stack) + 1, errors', pos')
    BY <1>1, <1>7, CalledPlaced DEF FrameKinds
  <2>3. /\ DOMAIN stmt = DOMAIN Frame("func") /\ stmt.do = "func" /\ stmt.own = {pos + 1}
        /\ stmt.left = NULL /\ stmt.kids = {}
        /\ stmt.errs = Frame("func").errs /\ stmt.start = Frame("func").start
    BY <2>1 DEF Frame
  <2>4. Placed(stmt, Len(stack) + 1, errors', pos')
    BY <2>2, <2>3, EnteredHoldsNothing DEF Placed, Shaped, IsTree, NULL, NoOwn, Frame
  <2>5. \A k : Holds(stmt, k) <=> k = pos + 1
    BY <2>3, EnteredHoldsNothing DEF Holds
  <2>6. \A k : k \in Reads(to) <=> k = pos + 1
    BY <1>1, <2>1 DEF Reads, Known
  <2>7. Call(f, <<stmt>>)
    BY <1>5, <2>3
  <2> QED
    BY <1>1, <1>9, <1>10, <2>3, <2>4, <2>5, <2>6, <2>7, Calls DEF Starts, Lists
<1>12. CASE peek # "EXTERN"
  <2>1. PICK do : /\ do = stmt.do /\ stmt = Frame(do)
                  /\ do \in {"func", "expr_stmt", "IF", "WHILE", "TYPE", "DELETE", "RETURN", "LET", "IMPORT"}
                  /\ do \in Starts => peek # "EOF"
    <3>1. PICK do : do = CASE peek = "FN" -> "func"
                           [] peek \in {"IF", "WHILE", "TYPE", "DELETE", "RETURN", "LET", "IMPORT"} -> peek
                           [] OTHER -> "expr_stmt"
      OBVIOUS
    <3>2. stmt = Frame(do)
      BY <1>4, <1>12, <3>1
    <3>3. do = stmt.do
      BY <3>2 DEF Frame
    <3>4. /\ do \in {"func", "expr_stmt", "IF", "WHILE", "TYPE", "DELETE", "RETURN", "LET", "IMPORT"}
          /\ do \in Starts => peek # "EOF"
      BY <3>1 DEF Starts
    <3> QED
      BY <3>2, <3>3, <3>4
  <2>2. do \in FrameKinds \ {"parse"} /\ do \notin Lists \cup {"climb"}
    BY <2>1 DEF FrameKinds, Around, Lists
  <2>3. Placed(stmt, Len(stack) + 1, errors', pos') /\ Blank(stmt)
    BY <1>1, <1>7, <2>1, <2>2, CalledPlaced
  <2>4. \A k : Holds(f, k) \/ Holds(stmt, k) <=> Has(k)
    <3>1. \A k : k \notin Reads(to)
      BY <1>1, <1>3, <1>12 DEF Reads, Known
    <3> QED
      BY <1>10, <2>3, <3>1 DEF Blank
  <2>5. CASE do = "expr_stmt"
    BY <1>1, <1>5, <1>9, <2>1, <2>2, <2>3, <2>4, <2>5, CallsWaiting DEF Starts
  <2>6. CASE do # "expr_stmt"
    <3>1. do \in Starts => pos' < Len(toks)
      BY <1>1, <1>3, <1>7, <1>12, <2>1, OneMore DEF Known
    <3>2. Call(f, <<stmt>>)
      BY <1>5, <2>1, <2>6
    <3> QED
      BY <1>1, <1>9, <2>1, <2>2, <2>3, <2>4, <3>1, <3>2, Calls
  <2> QED
    BY <2>5, <2>6
<1> QED
  BY <1>11, <1>12

(* parser.c:202-229 keeps the invariant. *)
LEMMA StatementFailedStep ==
    ASSUME IInv, statement_failed
    PROVE  IInv'
<1>1. Known /\ Running /\ Top.do = "end"
  BY Knows DEF statement_failed, Returns
<1>2. parser_sync(pos) \in pos .. Len(toks)
  BY <1>1, OneMore, SyncReaches
<1>3. MemoryOK
  BY <1>1, Allocates DEF Known, statement_failed
<1>4. Moved /\ errors' # 0
  BY <1>1, <1>2, <1>3 DEF statement_failed, Moved, MemoryOK, Known, Placed, Shaped
<1> QED
  BY <1>1, <1>4, ReturnNull DEF statement_failed

(* parser.c:202-229 keeps the invariant. *)
LEMMA StatementParsedStep ==
    ASSUME IInv, statement_parsed
    PROVE  IInv'
<1>1. Known /\ Running /\ IsTree(ret) /\ ret.kind # "NULL" /\ Top.do = "end"
  BY Knows DEF statement_parsed, Returns, Failed, Known
<1>2. CASE Top.opt /\ peek # "SEMI"
  <2>1. /\ Fail(parser_sync(Advanced(pos))) /\ Release(ret)
        /\ UNCHANGED <<toks, mod, bails>>
    BY <1>2 DEF statement_parsed
  <2>2. Advanced(pos) \in pos .. Len(toks) /\ Advanced(pos) \in 0 .. Len(toks)
    BY <1>1, OneMore DEF Known
  <2>3. parser_sync(Advanced(pos)) \in pos .. Len(toks)
    BY <1>1, <2>2, OneMore, SyncReaches
  <2>4. MemoryOK
    BY <1>1, <2>1, Allocates DEF Known
  <2> QED
    BY <1>1, <2>1, <2>3, <2>4, Fails
<1>3. CASE ~(Top.opt /\ peek # "SEMI")
  <2>1. PICK to : to = IF Top.opt THEN pos + 1 ELSE pos
    OBVIOUS
  <2>2. PICK v : v = [ret EXCEPT !.reads = @ \cup Reads(to)]
    OBVIOUS
  <2>3. Read(to) /\ Return(v) /\ UNCHANGED <<toks, mod, memory, bails>>
    BY <1>3, <2>1, <2>2 DEF statement_parsed
  <2>4. to \in pos .. Len(toks) /\ MemoryOK
    BY <1>1, <1>3, <2>1, <2>3, OneMore, Allocates DEF Known
  <2>5. Moved /\ errors' = errors /\ pos' = to
    BY <1>1, <2>3, <2>4, Reading
  <2>6. IsTree(v) /\ v.kind = ret.kind /\ v.reads = ret.reads \cup Reads(to)
    BY <1>1, <2>2 DEF IsTree
  <2>7. \A k : k \in v.reads <=> Has(k)
    <3>1. \A k : ~Holds(Top, k)
      BY <1>1, PlainHolds DEF HasLeft, HasKids, Known, Placed, Shaped, NoOwn
    <3> QED
      BY <2>5, <2>6, <3>1 DEF Has, Had, Reads
  <2> QED
    BY <1>1, <2>3, <2>5, <2>6, <2>7, ReturnTree
<1> QED
  BY <1>2, <1>3

(* A name with its type, as a parameter or a field has it. *)
LEMMA NamedType ==
    ASSUME Known
    PROVE  LET name == Consume(pos, <<"IDENT", "COLON">>)
           IN  Reaches(And(name, parser_consume_type(name.to)), pos)
<1>1. PICK name : name = Consume(pos, <<"IDENT", "COLON">>)
  OBVIOUS
<1>2. Reaches(name, pos)
  BY <1>1, OneMore, ConsumeTwo
<1>3. name.to \in 0 .. Len(toks)
  BY <1>2 DEF Reaches, Known
<1>4. Reaches(parser_consume_type(name.to), name.to)
  BY <1>3, OneMore, TypeReaches
<1>5. Reaches(And(name, parser_consume_type(name.to)), pos)
  BY <1>2, <1>3, <1>4 DEF Reaches, And, Known
<1> QED
  BY <1>1, <1>5

(* A comma may follow what was read. *)
LEMMA CommaReaches ==
    ASSUME Known, NEW r, Reaches(r, pos), NEW comma, comma => TokenAt(r.to + 1) = "COMMA"
    PROVE  (IF comma THEN r.to + 1 ELSE r.to) \in pos .. Len(toks)
<1>1. r.to \in Nat /\ r.to \in pos .. Len(toks)
  BY DEF Reaches, Known
<1>2. CASE comma
  BY <1>1, <1>2, OneMore, Peeked DEF Known
<1>3. CASE ~comma
  BY <1>1, <1>3
<1> QED
  BY <1>2, <1>3

(* A list that is given up: the frame goes on without it.                  *)
LEMMA GivesListUp ==
    ASSUME IInv, Running, Top.do \in Lists, Moved, mod' = mod,
           bails' = bails \cup {<<Top.start, pos'>>},
           NEW f, Continue(f), Placed(f, Len(stack), errors', pos'),
           f.do \notin Starts \cup Lists \cup {"climb", "fields"},
           f.own = Top.own \cap 1 .. Top.start, f.left = Top.left, f.kids = {}
    PROVE  IInv'
<1>1. Known
  BY Knows
<1>12. Top.do \notin {"parse", "statement", "end"}
  BY DEF Lists
<1>6. /\ Len(stack) \in Nat \ {0} /\ Grown(stack', Len(stack), Len(stack))
      /\ stack'[Len(stack)] = f
  BY GrowsNone DEF IInv, Continue
<1>7. ret' = Entered /\ ret'.kind = "entered" /\ ret'.reads = {}
  BY EnteredHoldsNothing DEF Continue
<1>8. Typed' /\ Stacked' /\ ret # Aborted
  BY <1>6, <1>7, StepShape
<1>10. PICK n \in Nat \ {0} : n = Len(stack)
  BY <1>6
<1>11. /\ Since \in Nat /\ Since' \in Nat /\ Since <= Since' /\ Since <= pos
       /\ pos \in Nat /\ pos' \in Nat /\ pos <= pos'
  <2>1. Typed /\ Stacked /\ Top.do # "parse" /\ Succeeds(stack'[Len(stack)])
    BY <1>12 DEF IInv, Succeeds, Deep, Lists
  <2>2. pos \in Nat /\ pos' \in Nat /\ pos <= pos'
    BY <2>1 DEF Typed, Moved
  <2>3. Len(stack) >= 3 => stack[2].do = "end"
    BY <1>8 DEF IInv, Ordered
  <2>4. Since \in Nat /\ Since <= pos
    BY <2>1, <2>2, BeginBehind
  <2>5. Since' \in Nat /\ Since <= Since'
    BY <1>6, <1>10, <2>1, <2>3, BeginStays
  <2> QED
    BY <2>2, <2>4, <2>5
<1>9. Covered'
  <2>1. Covered /\ n \in Nat \ {0}
    BY <1>10, <1>8 DEF IInv
  <2>2. Len(stack') = n /\ \A i \in 1 .. n - 1 : stack'[i] = stack[i]
    BY <1>10, <1>6 DEF Grown
  <2>3. Catches(n) /\ stack[n] = Top /\ Top.start \in Nat /\ Top.start <= pos
    BY <1>10, <1>1, <2>1 DEF Covered, Top, Known, Placed, Shaped
  <2>4. \A k : k \in Dropped' <=> k \in Dropped \/ k \in Top.start + 1 .. pos'
    <3>1. \A b : b \in bails' <=> b \in bails \/ b = <<Top.start, pos'>>
      OBVIOUS
    <3>2. <<Top.start, pos'>>[1] = Top.start /\ <<Top.start, pos'>>[2] = pos'
      OBVIOUS
    <3> QED
      BY <1>10, <3>1, <3>2 DEF Dropped
  <2>5. \A k : Held(n, k) <=> Held(n - 1, k) \/ Holds(Top, k)
    BY <1>10, <2>1 DEF Held, Top
  <2>6. \A k : Held(n - 1, k)' <=> Held(n - 1, k)
    BY <1>10, <2>1, <2>2 DEF Held
  <2>7. \A k : Holds(stack'[n], k) <=> k \in Top.left.reads \/ (k \in Top.own /\ k \in 1 .. Top.start)
    BY <1>10, <1>6 DEF Holds
  <2>8. \A k : Held(n, k)' <=> Held(n - 1, k)' \/ Holds(stack'[n], k)
    BY <1>10, <2>1, <2>2 DEF Held, Holds
  <2>9. ASSUME NEW k, Held(n, k)' PROVE k \in 1 .. pos' /\ k \notin Dropped'
    <3>1. Held(n, k) /\ k <= Top.start
      BY <1>10, <2>3, <2>5, <2>6, <2>7, <2>8, <2>9 DEF Catches, Holds
    <3>2. k \in 1 .. pos /\ k \notin Dropped
      BY <1>10, <2>1, <3>1 DEF Covered
    <3> QED
      BY <1>11, <2>3, <2>4, <3>1, <3>2
  <2>10. ASSUME NEW k \in Dropped' PROVE k \in 1 .. pos'
    <3>1. k \in Dropped => k \in 1 .. pos
      BY <2>1 DEF Covered
    <3>2. k \in Top.start + 1 .. pos' => k \in 1 .. pos'
      BY <1>11, <2>3
    <3> QED
      BY <1>11, <2>4, <2>10, <3>1, <3>2
  <2>11. ASSUME NEW k \in Since' + 1 .. pos' PROVE k \in Dropped' \/ Held(n, k)'
    <3>1. CASE k <= Top.start
      <4>1. k \in Since + 1 .. Top.start /\ k \in 1 .. Top.start
        BY <1>11, <2>3, <2>11, <3>1
      <4>2. k \in Dropped \/ Held(n - 1, k) \/ k \in Top.left.reads \/ k \in Top.own
        BY <1>10, <2>3, <4>1 DEF Catches
      <4> QED
        BY <1>10, <2>4, <2>6, <2>7, <2>8, <4>1, <4>2
    <3>2. CASE ~(k <= Top.start)
      BY <1>11, <2>3, <2>4, <2>11, <3>2
    <3> QED
      BY <1>10, <3>1, <3>2
  <2>12. ASSUME NEW i \in 1 .. n, stack'[i].do \in Lists PROVE Catches(i)'
    <3>1. i < n
      BY <1>10, <1>6, <2>1, <2>12
    <3>2. stack'[i] = stack[i] /\ Catches(i)
      BY <1>10, <2>1, <2>2, <2>12, <3>1 DEF Covered
    <3>3. \A k : Held(i - 1, k)' <=> Held(i - 1, k)
      <4>1. \A j \in 1 .. i - 1 : stack'[j] = stack[j]
        BY <1>10, <2>1, <2>2, <3>1
      <4> QED
        BY <4>1 DEF Held, Holds
    <3>4. stack[i].start \in Nat
      BY <1>10, <3>1 DEF IInv, Stacked, Placed, Shaped
    <3> QED
      BY <1>11, <2>4, <3>2, <3>3, <3>4, CatchesStays
  <2>13. ASSUME NEW i \in 1 .. n - 1 PROVE Shared(i)'
    <3>1. Shared(i) /\ stack'[i] = stack[i]
      BY <1>10, <2>1, <2>2 DEF Covered
    <3>2. stack'[i + 1].left.reads = stack[i + 1].left.reads
      <4>1. CASE i = n - 1
        <5>1. i + 1 = n
          BY <1>10, <2>1, <4>1
        <5> QED
          BY <1>10, <1>6, <2>3, <5>1
      <4>2. CASE i # n - 1
        BY <1>10, <2>1, <2>2, <4>2
      <4> QED
        BY <1>10, <4>1, <4>2
    <3> QED
      BY <1>10, <3>1, <3>2 DEF Shared
  <2> QED
    <3>1. Len(stack') = n /\ stack'[n].do # "climb" /\ Top' = stack'[n]
      BY <1>6, <1>10, <2>2 DEF Top
    <3>2. \A k : Held(Len(stack), k)' \/ k \in ret'.reads => k \in 1 .. pos' /\ k \notin Dropped'
      BY <1>7, <2>9, <3>1
    <3>3. \A k \in Since' + 1 .. pos' : k \in Dropped' \/ Held(Len(stack), k)' \/ k \in ret'.reads
      BY <2>11, <3>1
    <3>4. Dropped' \subseteq 1 .. pos'
      BY <2>10
    <3>5. \A i \in 1 .. Len(stack') : stack'[i].do \in Lists => Catches(i)'
      BY <2>12, <3>1
    <3>6. \A i \in 1 .. Len(stack') - 1 : Shared(i)'
      BY <2>13, <3>1
    <3> QED
      BY <1>7, <3>1, <3>2, <3>3, <3>4, <3>5, <3>6 DEF Covered
<1>13. Settled' /\ Ordered'
  <2>1. Dropped \subseteq Dropped'
    BY DEF Dropped
  <2>2. \A k : k \in ret'.reads \/ (\E i \in Len(stack) .. Len(stack) : Holds(stack'[i], k)) => Has(k)
    BY <1>6, <1>7 DEF Holds, Has, Had
  <2>3. Top.do # "parse" /\ Succeeds(stack'[Len(stack)])
    BY <1>12 DEF Succeeds, Deep
  <2>4. Len(stack) \in Nat /\ Len(stack) >= Len(stack) - 1 /\ ~(Len(stack) < 2)
    BY <1>1, <1>6, <1>12 DEF Known, Deep
  <2> QED
    BY <1>6, <1>8, <2>1, <2>2, <2>3, <2>4, StepOrdered
<1> QED
  BY <1>8, <1>9, <1>13 DEF IInv

(* parser.c:549-594 keeps the invariant. *)
LEMMA ParamListStep ==
    ASSUME IInv, parser_parse_param_list
    PROVE  IInv'
<1>1. Known /\ Running /\ ret = Entered /\ Top.do = "params"
  BY Knows DEF parser_parse_param_list, Runs
<1>2. PICK last, name : /\ last = (~Top.more /\ peek \in {"EOF", "RPAREN"})
                        /\ name = Consume(pos, <<"IDENT", "COLON">>)
  OBVIOUS
<1>3. PICK r : r = CASE last -> Consume(pos, <<"RPAREN">>)
                     [] ~last /\ Top.opt /\ peek = "TRIPLE_DOT" -> Consume(pos, <<"TRIPLE_DOT">>)
                     [] OTHER -> And(name, parser_consume_type(name.to))
  OBVIOUS
<1>4. PICK comma : comma = (r.ok /\ ~last /\ TokenAt(r.to + 1) = "COMMA")
  OBVIOUS
<1>5. PICK to : to = IF comma THEN r.to + 1 ELSE r.to
  OBVIOUS
<1>20. PICK g : g = [Top EXCEPT !.do = IF last THEN "signature" ELSE "params",
                                !.own = @ \cup Reads(to), !.more = comma]
  OBVIOUS
<1>21. PICK h : h = [Top EXCEPT !.do = "signature", !.own = @ \cap 1 .. Top.start]
  OBVIOUS
<1>7. /\ bails' = IF r.ok THEN bails ELSE bails \cup {<<Top.start, to>>}
      /\ IF r.ok THEN Read(to) /\ Continue(g) ELSE Miss(to) /\ Continue(h)
      /\ UNCHANGED <<toks, mod, memory>>
  BY <1>2, <1>3, <1>4, <1>5, <1>20, <1>21, Zenon DEF parser_parse_param_list
<1>8. Reaches(r, pos)
  <2>1. Reaches(And(name, parser_consume_type(name.to)), pos)
    BY <1>1, <1>2, NamedType
  <2>2. Reaches(Consume(pos, <<"RPAREN">>), pos) /\ Reaches(Consume(pos, <<"TRIPLE_DOT">>), pos)
    BY <1>1, OneMore, ConsumeOne
  <2> QED
    BY <1>3, <2>1, <2>2
<1>9. MemoryOK /\ to \in pos .. Len(toks)
  BY <1>1, <1>4, <1>5, <1>7, <1>8, Allocates, CommaReaches DEF Known
<1>10. Moved /\ pos' = to
  BY <1>1, <1>7, <1>9 DEF Known, Moved, MemoryOK, Read, Miss
<1>11. /\ Top.errs \in 0 .. errors' /\ Top.start \in 0 .. pos'
       /\ DOMAIN Top = {"do", "own", "left", "kids", "errs", "start", "prec", "opt", "more"}
       /\ Top.kids = {} /\ Top.left.reads = {}
  BY <1>1, <1>10 DEF Known, Placed, Shaped, Moved, HasKids, HasLeft
<1>12. CASE r.ok
  <2>1. /\ DOMAIN g = DOMAIN Top
        /\ g.do \in {"params", "signature"} /\ g.left = Top.left /\ g.own = Top.own \cup Reads(to)
        /\ g.kids = Top.kids /\ g.errs = Top.errs /\ g.start = Top.start
    BY <1>11, <1>20
  <2>2. SameList(g)
    BY <1>1, <2>1 DEF SameList, Lists
  <2>3. bails' = bails /\ ret.kind # "NULL" /\ Continue(g)
    BY <1>1, <1>7, <1>12, EnteredHoldsNothing
  <2>4. Goes(g) /\ \A k : Holds(g, k) <=> k \in g.own
    BY <1>1, <1>7, <1>10, <1>11, <2>1, <2>2, <2>3, PlainGoes
       DEF Plain, FrameKinds, HasLeft, HasKids, Starts, NoOwn, Deep, Succeeds
  <2>5. \A k : Holds(g, k) <=> Has(k)
    BY <1>1, <1>10, <2>1, <2>4, HasReads, PlainHolds DEF HasLeft, HasKids
  <2> QED
    BY <1>1, <2>3, <2>4, <2>5, Continues
<1>13. CASE ~r.ok
  <2>1. /\ DOMAIN h = DOMAIN Top
        /\ h.do = "signature" /\ h.left = Top.left /\ h.own = Top.own \cap 1 .. Top.start
        /\ h.kids = {} /\ h.errs = Top.errs /\ h.start = Top.start
    BY <1>11, <1>21
  <2>2. Placed(h, Len(stack), errors', pos')
    <3>1. Shaped(h) /\ Deep
      BY <1>1, <2>1 DEF Known, Placed, Shaped, FrameKinds, NoOwn, HasLeft, HasKids, Deep
    <3> QED
      BY <1>1, <1>11, <2>1, <3>1 DEF Known, Placed
  <2>3. bails' = bails \cup {<<Top.start, pos'>>} /\ Continue(h)
    BY <1>7, <1>10, <1>13
  <2> QED
    BY <1>1, <1>7, <1>10, <2>1, <2>2, <2>3, GivesListUp DEF Lists, Starts
<1> QED
  BY <1>12, <1>13

(* parser.c:303-329 keeps the invariant. *)
LEMMA SignatureStep ==
    ASSUME IInv, func_signature
    PROVE  IInv'
<1>1. Known /\ Running /\ ret = Entered /\ Top.do = "signature"
  BY Knows DEF func_signature, Runs
<1>2. PICK colon : colon = Consume(pos, <<"COLON">>)
  OBVIOUS
<1>3. PICK r : r = And(colon, parser_consume_type(colon.to))
  OBVIOUS
<1>4. PICK own, func : /\ own = Top.own \cup Reads(r.to)
                       /\ func = ast_new_func_decl_stmt(own, TRUE, NULL)
  OBVIOUS
<1>5. PICK f : f = [Top EXCEPT !.do = "body", !.own = own]
  OBVIOUS
<1>6. /\ \/ ~r.ok /\ Fail(r.to) /\ UNCHANGED memory
         \/ r.ok /\ Read(r.to) /\ New(func) /\ Return(func)
         \/ r.ok /\ Read(r.to) /\ Call(f, <<Frame("block")>>) /\ UNCHANGED memory
      /\ UNCHANGED <<toks, mod, bails>>
  BY <1>2, <1>3, <1>4, <1>5 DEF func_signature
<1>7. MemoryOK
  BY <1>1, <1>6, Allocates DEF Known
<1>8. r.to \in pos .. Len(toks)
  <2>1. Reaches(colon, pos)
    BY <1>1, <1>2, OneMore, ConsumeOne
  <2>2. colon.to \in 0 .. Len(toks)
    BY <1>1, <2>1 DEF Reaches, Known
  <2>3. Reaches(parser_consume_type(colon.to), colon.to)
    BY <1>1, <2>2, OneMore, TypeReaches
  <2> QED
    BY <1>1, <1>3, <2>1, <2>2, <2>3 DEF Reaches, And, Known
<1>9. \A k : Holds(Top, k) <=> k \in Top.own
  BY <1>1, PlainHolds DEF HasLeft, HasKids
<1>10. CASE Fail(r.to)
  BY <1>1, <1>6, <1>7, <1>8, <1>10, Fails
<1>11. CASE Read(r.to) /\ New(func) /\ Return(func)
  <2>1. Moved /\ errors' = errors /\ pos' = r.to
    BY <1>1, <1>6, <1>7, <1>8, <1>11, Reading
  <2>2. Makes(func, own, {NULL})
    BY <1>4, StmtMakes
  <2>3. ret.kind # "NULL" /\ \A k : k \in func.reads <=> Has(k)
    BY <1>1, <1>4, <1>9, <2>1, <2>2, HasReads, EnteredHoldsNothing DEF Makes
  <2> QED
    BY <1>1, <1>6, <1>11, <2>1, <2>2, <2>3, ReturnTree DEF Makes
<1>12. CASE Read(r.to) /\ Call(f, <<Frame("block")>>)
  <2>1. Moved /\ errors' = errors /\ pos' = r.to
    BY <1>1, <1>6, <1>7, <1>8, <1>12, Reading
  <2>2. /\ DOMAIN f = DOMAIN Top
        /\ f.do = "body" /\ f.own = own /\ f.left = Top.left /\ f.kids = Top.kids
        /\ f.errs = Top.errs /\ f.start = Top.start
    BY <1>1, <1>5, Turned
  <2>3. Goes(f) /\ f.do # "climb" /\ \A k : Holds(f, k) <=> k \in f.own
    <3>1. f.errs \in 0 .. errors' /\ f.start \in 0 .. pos'
      BY <1>1, <1>8, <2>1, <2>2 DEF Known, Placed, Shaped
    <3> QED
      BY <1>1, <1>6, <2>1, <2>2, <3>1, PlainGoes, EnteredHoldsNothing
         DEF Plain, FrameKinds, HasLeft, HasKids, Starts, NoOwn, Deep, Succeeds, Lists
  <2>4. /\ Placed(Frame("block"), Len(stack) + 1, errors', pos')
        /\ Frame("block").do = "block" /\ Blank(Frame("block"))
    BY <1>1, <2>1, CalledPlaced DEF FrameKinds
  <2>5. \A k : Holds(f, k) <=> Has(k)
    BY <1>1, <1>4, <1>9, <2>1, <2>2, <2>3, HasReads
  <2> QED
    BY <1>1, <1>12, <2>3, <2>4, <2>5, Calls DEF Blank, Starts, Lists
<1> QED
  BY <1>6, <1>10, <1>11, <1>12

(* parser.c:315-329 keeps the invariant. *)
LEMMA BodyStep ==
    ASSUME IInv, func_body
    PROVE  IInv'
<1>1. Known /\ Running /\ Top.do = "body"
  BY Knows DEF func_body, Returns
<1>2. PICK func : func = ast_new_func_decl_stmt(Top.own, FALSE, ret)
  OBVIOUS
<1>3. /\ IF Failed THEN Return(NULL) /\ UNCHANGED memory ELSE Return(func) /\ New(func)
      /\ UNCHANGED <<toks, pos, errors, mod, bails>>
  BY <1>2 DEF func_body
<1>4. MemoryOK
  BY <1>1, <1>3, Allocates DEF Known
<1>5. Moved /\ pos' = pos
  BY <1>1, <1>3, <1>4 DEF Known, Moved, MemoryOK
<1>6. Deep
  BY <1>1 DEF Deep
<1>7. CASE Failed
  BY <1>1, <1>3, <1>5, <1>6, <1>7, ReturnNull DEF Known
<1>8. CASE ~Failed
  <2>1. Makes(func, Top.own, {ret})
    BY <1>2, StmtMakes
  <2>2. \A k : Holds(Top, k) <=> k \in Top.own
    BY <1>1, PlainHolds DEF HasLeft, HasKids
  <2>3. \A k : k \in func.reads <=> Has(k)
    BY <1>1, <1>5, <2>1, <2>2 DEF Makes, Has, Had, Known
  <2> QED
    BY <1>1, <1>3, <1>5, <1>8, <2>1, <2>3, ReturnTree DEF Makes, Failed
<1> QED
  BY <1>7, <1>8

(* A function that reads nothing has its frame and what was returned. *)
LEMMA Stays ==
    ASSUME Known, MemoryOK, toks' = toks, Read(pos)
    PROVE  /\ Moved /\ errors' = errors /\ pos' = pos
           /\ \A k : Has(k) <=> Holds(Top, k) \/ k \in ret.reads
BY DEF Known, Moved, MemoryOK, Read, Has, Had

(* parser.c:331-335 keeps the invariant. *)
LEMMA ConditionStep ==
    ASSUME IInv, parser_parse_condition
    PROVE  IInv'
<1>1. Known /\ Running /\ ret = Entered /\ Top.do \in {"IF", "WHILE"}
  BY Knows DEF parser_parse_condition, Runs
<1>2. PICK f : f = [Top EXCEPT !.do = IF Top.do = "IF" THEN "if_cond" ELSE "while_cond",
                               !.own = {pos + 1}]
  OBVIOUS
<1>3. Read(pos + 1) /\ Call(f, Expression(TRUE)) /\ UNCHANGED <<toks, mod, memory, bails>>
  BY <1>2 DEF parser_parse_condition
<1>4. MemoryOK /\ pos + 1 \in pos .. Len(toks)
  BY <1>1, <1>3, Allocates, OneMore DEF Known, Starts
<1>5. Moved /\ errors' = errors /\ pos' = pos + 1
  BY <1>1, <1>3, <1>4, Reading
<1>6. /\ DOMAIN f = DOMAIN Top
      /\ f.do \in {"if_cond", "while_cond"} /\ f.own = {pos + 1} /\ f.left = Top.left
      /\ f.kids = Top.kids /\ f.errs = Top.errs /\ f.start = Top.start
  BY <1>1, <1>2, Turned
<1>7. Goes(f) /\ f.do # "climb" /\ Len(stack) >= 2 /\ \A k : Holds(f, k) <=> k \in f.own
  <2>1. f.errs \in 0 .. errors' /\ f.start \in 0 .. pos'
    BY <1>1, <1>4, <1>5, <1>6 DEF Known, Placed, Shaped
  <2> QED
    BY <1>1, <1>3, <1>5, <1>6, <2>1, PlainGoes, EnteredHoldsNothing
       DEF Plain, FrameKinds, HasLeft, HasKids, Starts, NoOwn, Deep, Succeeds, Lists
<1>8. \A k : Holds(f, k) <=> Has(k)
  <2>1. \A k : ~Holds(Top, k)
    BY <1>1, PlainHolds DEF HasLeft, HasKids, NoOwn, Known, Placed, Shaped
  <2>2. \A k : k \in Reads(pos + 1) <=> k = pos + 1
    BY <1>1 DEF Reads, Known
  <2> QED
    BY <1>1, <1>5, <1>6, <1>7, <2>1, <2>2, HasReads
<1> QED
  BY <1>1, <1>3, <1>7, <1>8, CallsExpression

(* parser.c:334-343 keeps the invariant. *)
LEMMA ConditionParsedStep ==
    ASSUME IInv, condition_parsed
    PROVE  IInv'
<1>1. Known /\ Running /\ Top.do \in {"if_cond", "while_cond"} /\ IsTree(ret)
  BY Knows DEF condition_parsed, Returns, Known
<1>2. PICK f : f = [Top EXCEPT !.do = IF Top.do = "if_cond" THEN "if_block" ELSE "while_block",
                               !.left = ret]
  OBVIOUS
<1>3. /\ IF Failed THEN Fail(pos) ELSE Read(pos) /\ Call(f, <<Frame("block")>>)
      /\ UNCHANGED <<toks, mod, memory, bails>>
  BY <1>2 DEF condition_parsed
<1>4. MemoryOK
  BY <1>1, <1>3, Allocates DEF Known
<1>5. CASE Failed
  BY <1>1, <1>3, <1>4, <1>5, Fails, OneMore
<1>6. CASE ~Failed
  <2>1. /\ Moved /\ errors' = errors /\ pos' = pos
        /\ \A k : Has(k) <=> Holds(Top, k) \/ k \in ret.reads
    BY <1>1, <1>3, <1>4, <1>6, Stays
  <2>2. /\ DOMAIN f = DOMAIN Top
        /\ f.do \in {"if_block", "while_block"} /\ f.own = Top.own /\ f.left = ret
        /\ f.kids = Top.kids /\ f.errs = Top.errs /\ f.start = Top.start
    BY <1>1, <1>2 DEF Known, Placed, Shaped
  <2>3. Top.left.reads = {} /\ Top.kids = {} /\ Deep
    BY <1>1 DEF Known, Placed, Shaped, HasLeft, HasKids, Deep
  <2>4. Placed(f, Len(stack), errors', pos')
    <3>1. f.do \in FrameKinds /\ f.do \in HasLeft
      BY <2>2 DEF FrameKinds, HasLeft
    <3>2. Shaped(f)
      BY <1>1, <2>2, <2>3, <3>1 DEF Known, Placed, Shaped, NoOwn
    <3> QED
      BY <1>1, <2>1, <2>2, <2>3, <3>2 DEF Known, Placed
  <2>5. Goes(f) /\ f.do # "climb"
    BY <1>1, <1>3, <1>6, <2>1, <2>2, <2>3, <2>4 DEF Goes, Succeeds, Deep, Starts, Lists, Failed
  <2>6. /\ Placed(Frame("block"), Len(stack) + 1, errors', pos')
        /\ Frame("block").do = "block" /\ Blank(Frame("block"))
    BY <1>1, <2>1, CalledPlaced DEF FrameKinds
  <2>7. \A k : Holds(f, k) <=> Has(k)
    BY <1>1, <2>1, <2>2, <2>3 DEF Holds
  <2> QED
    BY <1>1, <1>3, <1>6, <2>5, <2>6, <2>7, Calls DEF Blank, Starts, Lists
<1> QED
  BY <1>5, <1>6

(* Functions that return NULL, without an error, to a function.            *)
LEMMA GivesUp ==
    ASSUME IInv, Running, Deep, MemoryOK, Return(NULL), UNCHANGED <<toks, pos, errors, mod, bails>>
    PROVE  IInv'
<1>1. Known
  BY Knows
<1>2. Moved
  BY <1>1 DEF Known, Moved, MemoryOK
<1> QED
  BY <1>1, <1>2, ReturnNull DEF Known, Deep

(* parser.c:343-349 keeps the invariant. *)
LEMMA BlockFailedStep ==
    ASSUME IInv, block_failed
    PROVE  IInv'
<1>1. Known /\ Running /\ Deep
  BY Knows DEF block_failed, Returns, Deep
<1>2. MemoryOK
  BY <1>1, Allocates DEF Known, block_failed
<1> QED
  BY <1>1, <1>2, GivesUp DEF block_failed

(* parser.c:387-407 keeps the invariant. *)
LEMMA WhileStep ==
    ASSUME IInv, while_parsed
    PROVE  IInv'
<1>1. Known /\ Running /\ Top.do = "while_block" /\ ret.kind # "NULL"
  BY Knows DEF while_parsed, Returns, Failed
<1>2. PICK while : while = ast_new_while_stmt(Top.own, Top.left, ret)
  OBVIOUS
<1>3. New(while) /\ Return(while) /\ UNCHANGED <<toks, pos, errors, mod, bails>>
  BY <1>2 DEF while_parsed
<1>4. MemoryOK
  BY <1>1, <1>3, Allocates DEF Known
<1>5. Moved /\ \A k : Has(k) <=> Holds(Top, k) \/ k \in ret.reads
  BY <1>1, <1>3, <1>4, Stays DEF Read
<1>6. Makes(while, Top.own, {Top.left, ret})
  BY <1>2, StmtMakes
<1>7. Top.kids = {}
  BY <1>1 DEF Known, Placed, Shaped, HasKids
<1>8. \A k : k \in while.reads <=> Has(k)
  BY <1>5, <1>6, <1>7 DEF Makes, Holds
<1> QED
  BY <1>1, <1>3, <1>5, <1>6, <1>8, ReturnTree DEF Makes

(* parser.c:343-378 keeps the invariant. *)
LEMMA IfStep ==
    ASSUME IInv, if_parsed
    PROVE  IInv'
<1>1. Known /\ Running /\ Top.do = "if_block" /\ ret.kind # "NULL"
  BY Knows DEF if_parsed, Returns, Failed
<1>2. PICK if : if = ast_new_if_stmt(Top.own, Top.left, ret)
  OBVIOUS
<1>3. PICK do : do = IF TokenAt(pos + 2) = "IF" THEN "IF" ELSE "block"
  OBVIOUS
<1>4. PICK else : else = [Frame("else") EXCEPT !.left = if, !.own = {pos + 1}]
  OBVIOUS
<1>5. /\ \/ Read(pos) /\ New(if) /\ Return(if)
         \/ /\ peek = "ELSE" /\ TokenAt(pos + 2) \in {"IF", "LBRACE"}
            /\ Read(pos + 1) /\ New(if) /\ Call(else, <<Frame(do)>>)
         \/ peek = "ELSE" /\ Fail(pos + 1) /\ UNCHANGED faults
      /\ UNCHANGED <<toks, mod, bails>>
  BY <1>2, <1>3, <1>4 DEF if_parsed
<1>6. MemoryOK
  BY <1>1, <1>5, Allocates DEF Known, MemoryOK
<1>7. Makes(if, Top.own, {Top.left, ret})
  BY <1>2, StmtMakes
<1>8. Top.kids = {}
  BY <1>1 DEF Known, Placed, Shaped, HasKids
<1>9. \A k : k \in if.reads <=> Holds(Top, k) \/ k \in ret.reads
  BY <1>7, <1>8 DEF Makes, Holds
<1>10. CASE Read(pos) /\ New(if) /\ Return(if)
  <2>1. Moved /\ \A k : Has(k) <=> Holds(Top, k) \/ k \in ret.reads
    BY <1>1, <1>5, <1>6, <1>10, Stays
  <2> QED
    BY <1>1, <1>5, <1>7, <1>9, <1>10, <2>1, ReturnTree DEF Makes
<1>11. CASE /\ peek = "ELSE" /\ TokenAt(pos + 2) \in {"IF", "LBRACE"}
            /\ Read(pos + 1) /\ Call(else, <<Frame(do)>>)
  <2>1. pos + 1 \in pos .. Len(toks) /\ pos + 2 <= Len(toks) /\ pos \in Nat
    <3>1. pos + 2 \in Nat
      BY <1>1 DEF Known
    <3> QED
      BY <1>1, <1>11, <3>1, OneMore, Peeked
  <2>2. Moved /\ errors' = errors /\ pos' = pos + 1
    BY <1>1, <1>5, <1>6, <1>11, <2>1, Reading
  <2>3. /\ DOMAIN else = DOMAIN Frame("else")
        /\ else.do = "else" /\ else.own = {pos + 1} /\ else.left = if /\ else.kids = {}
        /\ else.errs = 0 /\ else.start = 0
    BY <1>4 DEF Frame
  <2>4. Placed(else, Len(stack), errors', pos')
    <3>1. Shaped(else)
      BY <1>7, <2>3 DEF Shaped, Makes, Frame, FrameKinds, NoOwn, HasLeft, HasKids
    <3> QED
      BY <1>1, <2>1, <2>2, <2>3, <3>1 DEF Known, Placed, Deep
  <2>5. \A k : Has(k) <=> Holds(else, k)
    BY <1>9, <2>1, <2>2, <2>3 DEF Has, Had, Holds
  <2>6. Goes(else) /\ else.do # "climb"
    BY <1>1, <1>5, <1>9, <2>2, <2>3, <2>4 DEF Goes, Succeeds, Deep, Starts, Lists, Holds
  <2>7. /\ Placed(Frame(do), Len(stack) + 1, errors', pos')
        /\ Frame(do).do = do /\ Blank(Frame(do))
    BY <1>1, <1>3, <2>2, CalledPlaced DEF FrameKinds
  <2>8. pos' < Len(toks) /\ do \notin Lists /\ do # "fields"
    BY <1>1, <1>3, <2>1, <2>2 DEF Known, Lists
  <2> QED
    BY <1>1, <1>11, <2>5, <2>6, <2>7, <2>8, <2>3, Calls DEF Blank
<1>12. CASE peek = "ELSE" /\ Fail(pos + 1)
  BY <1>1, <1>5, <1>6, <1>12, OneMore, Fails
<1> QED
  BY <1>5, <1>10, <1>11, <1>12

(* parser.c:378-385 keeps the invariant. *)
LEMMA ElseStep ==
    ASSUME IInv, else_parsed
    PROVE  IInv'
<1>1. Known /\ Running /\ Top.do = "else"
  BY Knows DEF else_parsed, Returns
<1>2. PICK v : v = WithElse(Top.left, Top.own, ret)
  OBVIOUS
<1>3. /\ IF Failed THEN Release(Top.left) /\ Return(NULL) ELSE UNCHANGED memory /\ Return(v)
      /\ UNCHANGED <<toks, pos, errors, mod, bails>>
  BY <1>2 DEF else_parsed
<1>4. MemoryOK
  BY <1>1, <1>3, Allocates DEF Known
<1>5. Deep /\ Len(stack) >= 3
  BY <1>1 DEF Deep, Known
<1>6. CASE Failed
  BY <1>1, <1>3, <1>4, <1>5, <1>6, GivesUp
<1>7. CASE ~Failed
  <2>1. Moved /\ \A k : Has(k) <=> Holds(Top, k) \/ k \in ret.reads
    BY <1>1, <1>3, <1>4, Stays DEF Read
  <2>2. IsTree(Top.left) /\ Top.kids = {}
    BY <1>1 DEF Known, Placed, Shaped, HasKids
  <2>3. /\ DOMAIN v = DOMAIN Top.left /\ v.kind = Top.left.kind
        /\ v.reads = Top.left.reads \cup Top.own \cup ret.reads
    BY <1>2, <2>2 DEF WithElse, IsTree
  <2>4. IsTree(v) /\ \A k : k \in v.reads <=> Has(k)
    BY <2>1, <2>2, <2>3 DEF IsTree, Holds
  <2> QED
    BY <1>1, <1>3, <1>5, <1>7, <2>1, <2>4, ReturnTree DEF Failed
<1> QED
  BY <1>6, <1>7

(* The list of fields begins behind a "struct". *)
LEMMA StructRead ==
    ASSUME Known, Consume(pos, <<"TYPE", "IDENT", "STRUCT", "LBRACE">>).ok
    PROVE  HasStruct(toks)
<1>1. PICK tys : tys = <<"TYPE", "IDENT", "STRUCT", "LBRACE">>
  OBVIOUS
<1>2. 3 \in DOMAIN tys /\ tys[3] = "STRUCT"
  BY <1>1
<1>3. TokenAt(pos + 3) = "STRUCT"
  <2>1. \A k \in DOMAIN tys : TokenAt(pos + k) = tys[k]
    BY <1>1 DEF Consume
  <2> QED
    BY <1>2, <2>1
<1>4. pos + 3 \in 1 .. Len(toks) /\ toks[pos + 3] = "STRUCT"
  BY <1>3 DEF TokenAt, Known
<1>5. DOMAIN toks = 1 .. Len(toks)
  OBVIOUS
<1> QED
  BY <1>4, <1>5 DEF HasStruct

(* parser.c:409-427 keeps the invariant. *)
LEMMA TypeStep ==
    ASSUME IInv, parser_parse_type_stmt
    PROVE  IInv'
<1>1. Known /\ Running /\ ret = Entered /\ Top.do = "TYPE"
  BY Knows DEF parser_parse_type_stmt, Runs
<1>2. PICK r : r = Consume(pos, <<"TYPE", "IDENT", "STRUCT", "LBRACE">>)
  OBVIOUS
<1>3. PICK f : f = [Top EXCEPT !.do = "fields", !.own = Reads(r.to)]
  OBVIOUS
<1>4. /\ IF r.ok THEN Read(r.to) /\ Continue(f) ELSE Fail(r.to)
      /\ UNCHANGED <<toks, mod, memory, bails>>
  BY <1>2, <1>3 DEF parser_parse_type_stmt
<1>5. MemoryOK /\ r.to \in pos .. Len(toks)
  BY <1>1, <1>2, <1>4, Allocates, OneMore, ConsumeMore DEF Known, Reaches
<1>6. CASE r.ok
  <2>1. Moved /\ errors' = errors /\ pos' = r.to
    BY <1>1, <1>4, <1>5, <1>6, Reading
  <2>2. /\ DOMAIN f = DOMAIN Top
        /\ f.do = "fields" /\ f.own = Reads(r.to) /\ f.left = Top.left /\ f.kids = Top.kids
        /\ f.errs = Top.errs /\ f.start = Top.start
    BY <1>1, <1>3, Turned
  <2>3. Goes(f) /\ \A k : Holds(f, k) <=> k \in f.own
    <3>1. f.errs \in 0 .. errors' /\ f.start \in 0 .. pos'
      BY <1>1, <1>5, <2>1, <2>2 DEF Known, Placed, Shaped
    <3>2. HasStruct(toks)
      BY <1>1, <1>2, <1>6, StructRead
    <3> QED
      BY <1>1, <1>4, <2>1, <2>2, <3>1, <3>2, PlainGoes, EnteredHoldsNothing
         DEF Plain, FrameKinds, HasLeft, HasKids, Starts, NoOwn, Deep, Succeeds, Lists
  <2>4. \A k : ~Holds(Top, k)
    BY <1>1, PlainHolds DEF HasLeft, HasKids, NoOwn, Known, Placed, Shaped
  <2> QED
    BY <1>1, <1>4, <1>6, <2>1, <2>2, <2>3, <2>4, Continues, HasReads
<1>7. CASE ~r.ok
  BY <1>1, <1>4, <1>5, <1>7, Fails
<1> QED
  BY <1>6, <1>7

(* parser.c:507-547 keeps the invariant. *)
LEMMA FieldListStep ==
    ASSUME IInv, parser_parse_field_list
    PROVE  IInv'
<1>1. Known /\ Running /\ ret = Entered /\ Top.do = "fields"
  BY Knows DEF parser_parse_field_list, Runs
<1>2. PICK last, name : /\ last = (~Top.more /\ peek \in {"EOF", "RBRACE"})
                        /\ name = Consume(pos, <<"IDENT", "COLON">>)
  OBVIOUS
<1>3. PICK r : r = IF last THEN Consume(pos, <<"RBRACE">>)
                           ELSE And(name, parser_consume_type(name.to))
  OBVIOUS
<1>4. PICK comma : comma = (r.ok /\ ~last /\ TokenAt(r.to + 1) = "COMMA")
  OBVIOUS
<1>5. PICK to : to = IF comma THEN r.to + 1 ELSE r.to
  OBVIOUS
<1> PICK own : own = Top.own \cup Reads(to)
  OBVIOUS
<1> PICK struct : struct = ast_new_struct_decl_stmt(own)
  OBVIOUS
<1>6. PICK f : f = [Top EXCEPT !.own = own, !.more = comma]
  OBVIOUS
<1>7. /\ \/ Fail(to) /\ UNCHANGED memory
         \/ Read(to) /\ New(struct) /\ Return(struct)
         \/ Read(to) /\ faults' = faults \cup {"overrun"} /\ Continue(f)
      /\ UNCHANGED <<toks, mod, bails>>
  BY <1>2, <1>3, <1>4, <1>5, <1>6 DEF parser_parse_field_list
<1>8. MemoryOK
  <2>1. faults' = faults \cup {"overrun"} => MemoryOK
    BY <1>1 DEF Known, MemoryOK, FaultKinds
  <2> QED
    BY <1>1, <1>7, <2>1, Allocates DEF Known
<1>9. to \in pos .. Len(toks)
  <2>1. Reaches(And(name, parser_consume_type(name.to)), pos)
    BY <1>1, <1>2, NamedType
  <2>2. Reaches(Consume(pos, <<"RBRACE">>), pos)
    BY <1>1, OneMore, ConsumeOne
  <2>3. Reaches(r, pos)
    BY <1>3, <2>1, <2>2
  <2> QED
    BY <1>1, <1>4, <1>5, <2>3, CommaReaches
<1>10. \A k : Holds(Top, k) <=> k \in Top.own
  BY <1>1, PlainHolds DEF HasLeft, HasKids
<1>11. CASE Fail(to)
  BY <1>1, <1>7, <1>8, <1>9, <1>11, Fails
<1>12. CASE Read(to) /\ New(struct) /\ Return(struct)
  <2>1. Moved /\ errors' = errors /\ pos' = to
    BY <1>1, <1>7, <1>8, <1>9, <1>12, Reading
  <2>2. Makes(struct, own, {})
    BY <1>6, StmtMakes
  <2>3. ret.kind # "NULL" /\ \A k : k \in struct.reads <=> Has(k)
    BY <1>1, <1>6, <1>10, <2>1, <2>2, HasReads DEF Makes
  <2> QED
    BY <1>1, <1>7, <1>12, <2>1, <2>2, <2>3, ReturnTree DEF Makes
<1>13. CASE Read(to) /\ Continue(f)
  <2>1. Moved /\ errors' = errors /\ pos' = to
    BY <1>1, <1>7, <1>8, <1>9, <1>13, Reading
  <2>2. /\ DOMAIN f = DOMAIN Top
        /\ f.do = "fields" /\ f.own = own /\ f.left = Top.left /\ f.kids = Top.kids
        /\ f.errs = Top.errs /\ f.start = Top.start
    BY <1>1, <1>6 DEF Known, Placed, Shaped
  <2>3. Goes(f) /\ \A k : Holds(f, k) <=> k \in f.own
    <3>1. f.errs \in 0 .. errors' /\ f.start \in 0 .. pos'
      BY <1>1, <1>9, <2>1, <2>2 DEF Known, Placed, Shaped
    <3>2. HasStruct(toks)
      BY <1>1 DEF Known
    <3> QED
      BY <1>1, <1>7, <2>1, <2>2, <3>1, <3>2, PlainGoes, EnteredHoldsNothing
         DEF Plain, FrameKinds, HasLeft, HasKids, Starts, NoOwn, Deep, Succeeds, Lists
  <2> QED
    BY <1>1, <1>6, <1>10, <1>13, <2>1, <2>2, <2>3, Continues, HasReads
<1> QED
  BY <1>7, <1>11, <1>12, <1>13

(* parser.c:429-434 keeps the invariant. *)
LEMMA DeleteStep ==
    ASSUME IInv, parser_parse_delete_stmt
    PROVE  IInv'
<1>1. Known /\ Running /\ ret = Entered /\ Top.do = "DELETE"
  BY Knows DEF parser_parse_delete_stmt, Runs
<1>2. PICK f : f = [Top EXCEPT !.do = "delete", !.own = {pos + 1}]
  OBVIOUS
<1>3. Read(pos + 1) /\ Call(f, Expression(FALSE)) /\ UNCHANGED <<toks, mod, memory, bails>>
  BY <1>2 DEF parser_parse_delete_stmt
<1>4. MemoryOK /\ pos + 1 \in pos .. Len(toks)
  BY <1>1, <1>3, Allocates, OneMore DEF Known, Starts
<1>5. Moved /\ errors' = errors /\ pos' = pos + 1
  BY <1>1, <1>3, <1>4, Reading
<1>6. /\ DOMAIN f = DOMAIN Top
      /\ f.do = "delete" /\ f.own = {pos + 1} /\ f.left = Top.left
      /\ f.kids = Top.kids /\ f.errs = Top.errs /\ f.start = Top.start
  BY <1>1, <1>2, Turned
<1>7. Goes(f) /\ f.do # "climb" /\ Len(stack) >= 2 /\ \A k : Holds(f, k) <=> k \in f.own
  <2>1. f.errs \in 0 .. errors' /\ f.start \in 0 .. pos'
    BY <1>1, <1>4, <1>5, <1>6 DEF Known, Placed, Shaped
  <2> QED
    BY <1>1, <1>3, <1>5, <1>6, <2>1, PlainGoes, EnteredHoldsNothing
       DEF Plain, FrameKinds, Around, HasLeft, HasKids, Starts, NoOwn, Deep, Succeeds, Lists
<1>8. \A k : Holds(f, k) <=> Has(k)
  <2>1. \A k : ~Holds(Top, k)
    BY <1>1, PlainHolds DEF HasLeft, HasKids, NoOwn, Known, Placed, Shaped
  <2>2. \A k : k \in Reads(pos + 1) <=> k = pos + 1
    BY <1>1 DEF Reads, Known
  <2> QED
    BY <1>1, <1>5, <1>6, <1>7, <2>1, <2>2, HasReads
<1> QED
  BY <1>1, <1>3, <1>7, <1>8, CallsExpression

(* parser.c:436-446 keeps the invariant. *)
LEMMA ReturnStep ==
    ASSUME IInv, parser_parse_return_stmt
    PROVE  IInv'
<1>1. Known /\ Running /\ ret = Entered /\ Top.do = "RETURN"
  BY Knows DEF parser_parse_return_stmt, Runs
<1>2. PICK r : r = Consume(pos, <<"DELETE">>)
  OBVIOUS
<1>3. PICK return : return = ast_new_return_stmt(Reads(r.to), NULL)
  OBVIOUS
<1>4. PICK f : f = [Top EXCEPT !.do = "return", !.own = Reads(r.to)]
  OBVIOUS
<1>5. /\ \/ Fail(r.to) /\ UNCHANGED memory
         \/ Read(r.to) /\ New(return) /\ Return(return)
         \/ Read(r.to) /\ Call(f, Expression(FALSE)) /\ UNCHANGED memory
      /\ UNCHANGED <<toks, mod, bails>>
  BY <1>2, <1>3, <1>4 DEF parser_parse_return_stmt
<1>6. MemoryOK /\ r.to \in pos .. Len(toks)
  BY <1>1, <1>2, <1>5, Allocates, OneMore, ConsumeOne DEF Known, Reaches
<1>7. \A k : ~Holds(Top, k)
  BY <1>1, PlainHolds DEF HasLeft, HasKids, NoOwn, Known, Placed, Shaped
<1>8. CASE Fail(r.to)
  BY <1>1, <1>5, <1>6, <1>8, Fails
<1>9. CASE Read(r.to) /\ Return(return)
  <2>1. Moved /\ errors' = errors /\ pos' = r.to
    BY <1>1, <1>5, <1>6, <1>9, Reading
  <2>2. Makes(return, Reads(r.to), {NULL})
    BY <1>3, StmtMakes
  <2>3. ret.kind # "NULL" /\ \A k : k \in return.reads <=> Has(k)
    BY <1>1, <1>7, <2>1, <2>2, HasReads, EnteredHoldsNothing DEF Makes
  <2> QED
    BY <1>1, <1>5, <1>9, <2>1, <2>2, <2>3, ReturnTree DEF Makes
<1>10. CASE Read(r.to) /\ Call(f, Expression(FALSE))
  <2>1. Moved /\ errors' = errors /\ pos' = r.to
    BY <1>1, <1>5, <1>6, <1>10, Reading
  <2>2. /\ DOMAIN f = DOMAIN Top
        /\ f.do = "return" /\ f.own = Reads(r.to) /\ f.left = Top.left
        /\ f.kids = Top.kids /\ f.errs = Top.errs /\ f.start = Top.start
    BY <1>1, <1>4, Turned
  <2>3. Goes(f) /\ f.do # "climb" /\ Len(stack) >= 2 /\ \A k : Holds(f, k) <=> k \in f.own
    <3>1. f.errs \in 0 .. errors' /\ f.start \in 0 .. pos'
      BY <1>1, <1>6, <2>1, <2>2 DEF Known, Placed, Shaped
    <3> QED
      BY <1>1, <1>5, <2>1, <2>2, <3>1, PlainGoes, EnteredHoldsNothing
         DEF Plain, FrameKinds, Around, HasLeft, HasKids, Starts, NoOwn, Deep, Succeeds, Lists
  <2>4. \A k : Has(k) <=> k \in Reads(r.to)
    BY <1>1, <1>7, <2>1, HasReads, EnteredHoldsNothing
  <2>5. \A k : Holds(f, k) <=> Has(k)
    BY <2>2, <2>3, <2>4
  <2>6. Goes(f) /\ f.do # "climb" /\ Len(stack) >= 2
    BY <2>3
  <2> QED
    BY <1>1, <1>10, <2>1, <2>5, <2>6, CallsExpression
<1> QED
  BY <1>5, <1>8, <1>9, <1>10

(* parser.c:471-480 keeps the invariant. *)
LEMMA ImportStep ==
    ASSUME IInv, parser_parse_import_stmt
    PROVE  IInv'
<1>1. Known /\ Running /\ ret = Entered /\ Top.do = "IMPORT"
  BY Knows DEF parser_parse_import_stmt, Runs
<1>2. PICK r : r = Consume(pos, <<"IMPORT", "STRING">>)
  OBVIOUS
<1>3. PICK import : import = ast_new_import_stmt(Reads(r.to))
  OBVIOUS
<1>4. /\ \/ Read(r.to) /\ New(import) /\ Return(import)
         \/ Fail(r.to) /\ UNCHANGED memory
      /\ UNCHANGED <<toks, mod, bails>>
  BY <1>2, <1>3 DEF parser_parse_import_stmt
<1>5. MemoryOK /\ r.to \in pos .. Len(toks)
  BY <1>1, <1>2, <1>4, Allocates, OneMore, ConsumeTwo DEF Known, Reaches
<1>6. CASE Fail(r.to)
  BY <1>1, <1>4, <1>5, <1>6, Fails
<1>7. CASE Read(r.to) /\ Return(import)
  <2>1. Moved /\ errors' = errors /\ pos' = r.to
    BY <1>1, <1>4, <1>5, <1>7, Reading
  <2>2. Makes(import, Reads(r.to), {})
    BY <1>3, StmtMakes
  <2>3. \A k : ~Holds(Top, k)
    BY <1>1, PlainHolds DEF HasLeft, HasKids, NoOwn, Known, Placed, Shaped
  <2>4. ret.kind # "NULL" /\ \A k : k \in import.reads <=> Has(k)
    BY <1>1, <2>1, <2>2, <2>3, HasReads DEF Makes
  <2> QED
    BY <1>1, <1>4, <1>7, <2>1, <2>2, <2>4, ReturnTree DEF Makes
<1> QED
  BY <1>4, <1>6, <1>7

(* parser.c:482-487 keeps the invariant. *)
LEMMA BlockStep ==
    ASSUME IInv, parser_parse_block
    PROVE  IInv'
<1>1. Known /\ Running /\ ret = Entered /\ Top.do = "block"
  BY Knows DEF parser_parse_block, Runs
<1>2. PICK r : r = Consume(pos, <<"LBRACE">>)
  OBVIOUS
<1>3. PICK f : f = [Top EXCEPT !.do = "stmts", !.own = Reads(r.to)]
  OBVIOUS
<1>4. /\ IF r.ok THEN Read(r.to) /\ Continue(f) ELSE Fail(r.to)
      /\ UNCHANGED <<toks, mod, memory, bails>>
  BY <1>2, <1>3 DEF parser_parse_block
<1>5. MemoryOK /\ r.to \in pos .. Len(toks)
  BY <1>1, <1>2, <1>4, Allocates, OneMore, ConsumeOne DEF Known, Reaches
<1>6. CASE r.ok
  <2>1. Moved /\ errors' = errors /\ pos' = r.to
    BY <1>1, <1>4, <1>5, <1>6, Reading
  <2>2. /\ DOMAIN f = DOMAIN Top
        /\ f.do = "stmts" /\ f.own = Reads(r.to) /\ f.left = Top.left /\ f.kids = Top.kids
        /\ f.errs = Top.errs /\ f.start = Top.start
    BY <1>1, <1>3, Turned
  <2>3. Top.left.reads = {} /\ Top.kids = {} /\ Top.own = {} /\ Deep
    BY <1>1 DEF Known, Placed, Shaped, HasLeft, HasKids, NoOwn, Deep
  <2>4. Placed(f, Len(stack), errors', pos')
    <3>1. f.errs \in 0 .. errors' /\ f.start \in 0 .. pos' /\ IsTree(f.left)
      BY <1>1, <1>5, <2>1, <2>2 DEF Known, Placed, Shaped
    <3>2. f.do \in FrameKinds /\ f.do \notin NoOwn
      BY <2>2 DEF FrameKinds, NoOwn
    <3>3. Shaped(f)
      BY <1>1, <2>2, <2>3, <3>1, <3>2 DEF Known, Placed, Shaped
    <3> QED
      BY <1>1, <2>2, <2>3, <3>1, <3>3 DEF Known, Placed
  <2>5. Goes(f)
    BY <1>1, <1>4, <2>1, <2>2, <2>4, EnteredHoldsNothing DEF Goes, Succeeds, Deep, Starts, Lists
  <2>6. \A k : Holds(f, k) <=> Has(k)
    BY <1>1, <2>1, <2>2, <2>3, HasReads DEF Holds
  <2> QED
    BY <1>1, <1>4, <1>6, <2>5, <2>6, Continues
<1>7. CASE ~r.ok
  BY <1>1, <1>4, <1>5, <1>7, Fails
<1> QED
  BY <1>6, <1>7

(* What has been collected, with what was returned.                        *)
LEMMA Collected ==
    ASSUME Known, NEW kids, kids = Top.kids \cup ({ret} \ {Entered})
    PROVE  \A k : (\E t \in kids : k \in t.reads) <=> (\E t \in Top.kids : k \in t.reads) \/ k \in ret.reads
BY EnteredHoldsNothing

(* parser.c:486-505 keeps the invariant. *)
LEMMA BlockStatementStep ==
    ASSUME IInv, block_statement
    PROVE  IInv'
<1>1. Known /\ Running /\ Top.do = "stmts" /\ ret.kind # "NULL"
  BY Knows, EnteredHoldsNothing DEF block_statement, Runs, Returns, Failed
<1>2. PICK kids : kids = Top.kids \cup ({ret} \ {Entered})
  OBVIOUS
<1>3. PICK block, f : /\ block = ast_new_block_stmt(Top.own \cup {pos + 1}, kids)
                      /\ f = [Top EXCEPT !.kids = kids]
  OBVIOUS
<1>4. /\ \/ Fail(pos) /\ ReleaseList(kids)
         \/ peek = "RBRACE" /\ Read(pos + 1) /\ New(block) /\ Return(block)
         \/ Read(pos) /\ UNCHANGED memory /\ Call(f, <<Frame("statement")>>)
      /\ UNCHANGED <<toks, mod, bails>>
  BY <1>2, <1>3 DEF block_statement
<1>5. MemoryOK
  BY <1>1, <1>4, Allocates DEF Known
<1>6. Top.left.reads = {} /\ Deep
  BY <1>1 DEF Known, Placed, Shaped, HasLeft, Deep
<1>7. \A k : (\E t \in kids : k \in t.reads) \/ k \in Top.own <=> Holds(Top, k) \/ k \in ret.reads
  BY <1>1, <1>2, <1>6, Collected DEF Holds
<1>8. CASE Fail(pos)
  BY <1>1, <1>4, <1>5, <1>8, OneMore, Fails
<1>9. CASE peek = "RBRACE" /\ Read(pos + 1) /\ Return(block)
  <2>1. Moved /\ errors' = errors /\ pos' = pos + 1
    BY <1>1, <1>4, <1>5, <1>9, OneMore, Reading
  <2>2. Makes(block, Top.own \cup {pos + 1}, kids)
    BY <1>3, StmtMakes
  <2>3. \A k : k \in pos + 1 .. pos' <=> k = pos + 1
    BY <1>1, <2>1 DEF Known
  <2>4. \A k : k \in block.reads <=> Has(k)
    BY <1>7, <2>2, <2>3 DEF Makes, Has, Had
  <2> QED
    BY <1>1, <1>4, <1>9, <2>1, <2>2, <2>4, ReturnTree DEF Makes
<1>10. CASE Read(pos) /\ Call(f, <<Frame("statement")>>)
  <2>1. /\ Moved /\ errors' = errors /\ pos' = pos
        /\ \A k : Has(k) <=> Holds(Top, k) \/ k \in ret.reads
    BY <1>1, <1>4, <1>5, <1>10, Stays
  <2>2. /\ DOMAIN f = DOMAIN Top
        /\ f.do = "stmts" /\ f.own = Top.own /\ f.left = Top.left /\ f.kids = kids
        /\ f.errs = Top.errs /\ f.start = Top.start
    BY <1>1, <1>3 DEF Known, Placed, Shaped
  <2>3. Placed(f, Len(stack), errors', pos')
    <3>1. Shaped(f)
      BY <1>1, <2>2 DEF Known, Placed, Shaped, HasKids
    <3> QED
      BY <1>1, <2>1, <2>2, <3>1 DEF Known, Placed
  <2>4. Goes(f) /\ f.do # "climb"
    BY <1>1, <1>4, <2>1, <2>2, <2>3 DEF Goes, Succeeds, Deep, Starts, Lists
  <2>5. /\ Placed(Frame("statement"), Len(stack) + 1, errors', pos')
        /\ Frame("statement").do = "statement" /\ Blank(Frame("statement"))
    BY <1>1, <2>1, CalledPlaced DEF FrameKinds
  <2>6. \A k : Holds(f, k) <=> Has(k)
    BY <1>6, <1>7, <2>1, <2>2 DEF Holds
  <2> QED
    BY <1>1, <1>10, <2>4, <2>5, <2>6, Calls DEF Blank, Starts, Lists
<1> QED
  BY <1>4, <1>8, <1>9, <1>10

(* parser.c:658-668 keeps the invariant. *)
LEMMA FreeStatementsStep ==
    ASSUME IInv, parser_free_statements
    PROVE  IInv'
<1>1. Known /\ Running /\ Deep
  BY Knows DEF parser_free_statements, Returns, Deep
<1>2. MemoryOK
  BY <1>1, Allocates DEF Known, parser_free_statements
<1> QED
  BY <1>1, <1>2, GivesUp DEF parser_free_statements

(* The frame of a function stays placed as the parser moves on.            *)
LEMMA StillPlaced ==
    ASSUME Known, Moved, NEW f, Shaped(f), f.do = Top.do, f.errs = Top.errs, f.start = Top.start
    PROVE  Placed(f, Len(stack), errors', pos')
BY DEF Known, Placed, Shaped, Moved

(* parser.c:670-687 keeps the invariant. *)
LEMMA ExpressionStep ==
    ASSUME IInv, parser_expression
    PROVE  IInv'
<1>1. Known /\ Running /\ Top.do = "expression" /\ IsTree(ret) /\ Deep
  BY Knows DEF parser_expression, Returns, Known, Deep
<1>2. PICK left : left = IF Top.left = NULL THEN ret ELSE ast_new_assign_expr(Top.own, Top.left, ret)
  OBVIOUS
<1>3. PICK f : f = [Top EXCEPT !.left = left, !.own = {pos + 1}]
  OBVIOUS
<1>4. /\ \/ Read(pos) /\ Release(Top.left) /\ Return(NULL)
         \/ /\ ~Failed
            /\ IF Top.left = NULL THEN UNCHANGED memory ELSE New(left)
            /\ IF peek = "EQ" THEN Read(pos + 1) /\ Call(f, Expression(Top.opt))
                              ELSE Read(pos) /\ Return(left)
      /\ UNCHANGED <<toks, mod, bails>>
  BY <1>2, <1>3 DEF parser_expression
<1>5. MemoryOK
  BY <1>1, <1>4, Allocates DEF Known
<1>6. Top.kids = {} /\ (Top.left = NULL => Top.own = {} /\ Top.left.reads = {})
  BY <1>1, EnteredHoldsNothing DEF Known, Placed, Shaped, HasKids
<1>7. /\ IsTree(left) /\ (~Failed => left.kind # "NULL")
      /\ \A k : k \in left.reads <=> Holds(Top, k) \/ k \in ret.reads
  <2>1. CASE Top.left = NULL
    BY <1>1, <1>2, <1>6, <2>1 DEF Holds, Failed
  <2>2. CASE Top.left # NULL
    <3>1. Makes(left, Top.own, {Top.left, ret})
      BY <1>2, <2>2, ExprMakes
    <3> QED
      BY <1>6, <3>1 DEF Makes, Holds
  <2> QED
    BY <2>1, <2>2
<1>8. CASE Read(pos) /\ Return(NULL)
  BY <1>1, <1>4, <1>5, <1>8, GivesUp DEF Read
<1>9. CASE ~Failed /\ peek = "EQ" /\ Read(pos + 1) /\ Call(f, Expression(Top.opt))
  <2>1. Moved /\ errors' = errors /\ pos' = pos + 1
    BY <1>1, <1>4, <1>5, <1>9, OneMore, Reading
  <2>2. /\ DOMAIN f = DOMAIN Top
        /\ f.do = "expression" /\ f.own = {pos + 1} /\ f.left = left /\ f.kids = {}
        /\ f.errs = Top.errs /\ f.start = Top.start
    BY <1>1, <1>3, <1>6 DEF Known, Placed, Shaped
  <2>3. Placed(f, Len(stack), errors', pos')
    <3>1. left # NULL
      BY <1>7, <1>9, EnteredHoldsNothing
    <3>2. Shaped(f)
      BY <1>1, <1>7, <2>2, <3>1 DEF Known, Placed, Shaped, HasLeft, NoOwn
    <3> QED
      BY <1>1, <2>1, <2>2, <3>2, StillPlaced
  <2>4. \A k : Holds(f, k) <=> Has(k)
    <3>1. \A k : k \in pos + 1 .. pos' <=> k = pos + 1
      BY <1>1, <2>1 DEF Known
    <3> QED
      BY <1>7, <2>2, <3>1 DEF Holds, Has, Had
  <2>5. Goes(f) /\ f.do # "climb" /\ Len(stack) >= 2
    <3>1. Top.left.reads \subseteq f.left.reads
      BY <1>7, <2>2 DEF Holds
    <3>2. ret.kind # "NULL"
      BY <1>9 DEF Failed
    <3> QED
      BY <1>1, <1>4, <2>1, <2>2, <2>3, <3>1, <3>2 DEF Goes, Succeeds, Deep, Starts, Lists, Known
  <2> QED
    BY <1>1, <1>9, <2>4, <2>5, CallsExpression
<1>10. CASE ~Failed /\ Read(pos) /\ Return(left)
  <2>1. Moved /\ \A k : Has(k) <=> Holds(Top, k) \/ k \in ret.reads
    BY <1>1, <1>4, <1>5, <1>10, Stays
  <2> QED
    BY <1>1, <1>4, <1>7, <1>10, <2>1, ReturnTree DEF Failed
<1> QED
  BY <1>4, <1>8, <1>9, <1>10

(* The operand of an expression holds nothing but its left side.           *)
LEMMA ClimbHolds ==
    ASSUME Known, Top.do = "climb"
    PROVE  /\ Deep /\ Len(stack) >= 3
           /\ Top.own = {} /\ Top.kids = {} /\ IsTree(Top.left)
           /\ \A k : Holds(Top, k) <=> k \in Top.left.reads
BY DEF Known, Placed, Shaped, NoOwn, HasKids, Holds, Deep

(* Its frame with another left side. *)
LEMMA LeftPlaced ==
    ASSUME Known, Moved, Top.do = "climb", NEW left, IsTree(left),
           NEW f, f = [Top EXCEPT !.left = left]
    PROVE  /\ Placed(f, Len(stack), errors', pos') /\ f.do = "climb" /\ f.left = left
           /\ \A k : Holds(f, k) <=> k \in left.reads
<1>1. /\ DOMAIN f = DOMAIN Top /\ f.do = "climb" /\ f.left = left
      /\ f.own = {} /\ f.kids = {} /\ f.errs = Top.errs /\ f.start = Top.start
  BY ClimbHolds DEF Known, Placed, Shaped
<1>2. Shaped(f)
  BY <1>1 DEF Known, Placed, Shaped, HasLeft
<1>3. Placed(f, Len(stack), errors', pos')
  BY <1>1, <1>2, StillPlaced
<1> QED
  BY <1>1, <1>3 DEF Holds

(* Its frame, left as it is. *)
LEMMA TopPlaced ==
    ASSUME Known, Moved, Top.do = "climb", mod' = mod, bails' = bails, ret = Entered
    PROVE  Goes(Top)
<1>1. Placed(Top, Len(stack), errors', pos')
  BY StillPlaced DEF Known, Placed
<1> QED
  BY <1>1, EnteredHoldsNothing DEF Goes, Succeeds, Deep, Starts, Lists

(* A frame that waits, with the token just read, for an expression.        *)
LEMMA WaitingPlaced ==
    ASSUME Known, Deep, pos' = pos + 1, Moved,
           NEW do \in {"new", "paren", "unary"}, NEW f, f = [Frame(do) EXCEPT !.own = {pos + 1}]
    PROVE  /\ Placed(f, Len(stack) + 1, errors', pos') /\ f.do = do /\ f.left = NULL
           /\ \A k : Holds(f, k) <=> k = pos + 1
<1>1. /\ DOMAIN f = DOMAIN Frame(do) /\ f.do = do /\ f.own = {pos + 1} /\ f.left = NULL
      /\ f.kids = {} /\ f.errs = 0 /\ f.start = 0
  BY DEF Frame
<1>2. Shaped(f)
  <2>1. IsTree(NULL)
    BY DEF IsTree, NULL
  <2>2. f.do = "expression" /\ f.left = NULL => FALSE
    BY <1>1
  <2> QED
    BY <1>1, <2>1, <2>2, EnteredHoldsNothing DEF Shaped, Frame, FrameKinds, Around, NoOwn
<1>3. Placed(f, Len(stack) + 1, errors', pos')
  BY <1>1, <1>2 DEF Known, Placed, Moved
<1> QED
  BY <1>1, <1>3, EnteredHoldsNothing DEF Holds

(* parser.c:725-798 keeps the invariant. *)
LEMMA PrefixStep ==
    ASSUME IInv, parser_prefix
    PROVE  IInv'
<1>1. Known /\ Running /\ ret = Entered /\ Top.do = "climb" /\ Top.left = NULL
  BY Knows DEF parser_prefix, Runs
<1>2. /\ Deep /\ Len(stack) >= 3 /\ IsTree(Top.left) /\ Top.left.reads = {}
      /\ \A k : ~Holds(Top, k)
  BY <1>1, ClimbHolds, EnteredHoldsNothing
<1>3. PICK leaf : leaf = CASE peek = "INT" -> ast_new_int_expr({pos + 1})
                           [] peek = "STRING" -> ast_new_string_expr({pos + 1})
                           [] peek = "CHAR" -> ast_new_char_expr({pos + 1})
                           [] OTHER -> ast_new_ident_expr({pos + 1})
  OBVIOUS
<1>4. PICK f : f = [Top EXCEPT !.left = leaf]
  OBVIOUS
<1>5. PICK new, paren, unary : /\ new = [Frame("new") EXCEPT !.own = {pos + 1}]
                               /\ paren = [Frame("paren") EXCEPT !.own = {pos + 1}]
                               /\ unary = [Frame("unary") EXCEPT !.own = {pos + 1}]
  OBVIOUS
<1>6. PICK frames : frames = CASE peek = "NEW" -> <<new>> \o Expression(Top.opt)
                               [] peek = "LPAREN" -> <<paren>> \o Expression(FALSE)
                               [] OTHER -> <<unary, Climb(PRECEDENCE_UNARY, Top.opt)>>
  OBVIOUS
<1>7. /\ \/ Fail(Advanced(pos)) /\ UNCHANGED memory
         \/ peek # "EOF" /\ Read(pos + 1) /\ New(leaf) /\ Continue(f)
         \/ peek # "EOF" /\ Read(pos + 1) /\ UNCHANGED memory /\ Call(Top, frames)
         \/ peek # "EOF" /\ Read(pos + 1) /\ UNCHANGED memory /\ Return(NULL)
      /\ UNCHANGED <<toks, mod, bails>>
  BY <1>3, <1>4, <1>5, <1>6 DEF parser_prefix, Leaves, Unary
<1>8. MemoryOK
  BY <1>1, <1>7, Allocates DEF Known
<1>9. CASE Fail(Advanced(pos))
  BY <1>1, <1>7, <1>8, <1>9, OneMore, Fails
<1>10. ASSUME peek # "EOF", Read(pos + 1)
       PROVE  /\ Moved /\ errors' = errors /\ pos' = pos + 1
              /\ ret.kind # "NULL" /\ \A k : Has(k) <=> k = pos + 1
  <2>1. Moved /\ errors' = errors /\ pos' = pos + 1
    BY <1>1, <1>7, <1>8, <1>10, OneMore, Reading
  <2>2. \A k : k \in Reads(pos + 1) <=> k = pos + 1
    BY <1>1 DEF Reads, Known
  <2> QED
    BY <1>1, <1>2, <2>1, <2>2, HasReads
<1>11. CASE peek # "EOF" /\ Read(pos + 1) /\ New(leaf) /\ Continue(f)
  <2>1. Makes(leaf, {pos + 1}, {})
    <3>1. \/ leaf = ast_new_int_expr({pos + 1}) \/ leaf = ast_new_string_expr({pos + 1})
          \/ leaf = ast_new_char_expr({pos + 1}) \/ leaf = ast_new_ident_expr({pos + 1})
      BY <1>3
    <3> QED
      BY <3>1, ExprMakes
  <2>2. \A k : k \in leaf.reads <=> k = pos + 1
    BY <2>1 DEF Makes
  <2>3. /\ Placed(f, Len(stack), errors', pos') /\ f.do = "climb" /\ f.left = leaf
        /\ \A k : Holds(f, k) <=> k \in leaf.reads
    BY <1>1, <1>4, <1>10, <1>11, <2>1, LeftPlaced DEF Makes
  <2>4. Goes(f)
    BY <1>2, <1>7, <1>10, <1>11, <2>3 DEF Goes, Succeeds, Deep, Starts, Lists
  <2> QED
    BY <1>1, <1>10, <1>11, <2>2, <2>3, <2>4, Continues
<1>12. CASE peek # "EOF" /\ Read(pos + 1) /\ UNCHANGED memory /\ Call(Top, frames)
  <2>1. Goes(Top)
    BY <1>1, <1>7, <1>10, <1>12, TopPlaced
  <2>2. CASE peek = "NEW"
    <3>1. /\ Placed(new, Len(stack) + 1, errors', pos') /\ new.do = "new"
          /\ \A k : Holds(new, k) <=> k = pos + 1
      BY <1>1, <1>2, <1>5, <1>10, <1>12, WaitingPlaced
    <3>2. Call(Top, <<new>> \o Expression(Top.opt))
      BY <1>6, <1>12, <2>2
    <3>3. /\ \A k : Holds(Top, k) \/ Holds(new, k) <=> Has(k)
          /\ Top.left.reads \subseteq new.left.reads
      BY <1>2, <1>10, <1>12, <3>1
    <3>4. new.do \notin Starts \cup Lists \cup {"climb"} /\ Len(stack) >= 2
      BY <1>2, <3>1 DEF Starts, Lists, Known
    <3> QED
      BY <1>1, <2>1, <3>1, <3>2, <3>3, <3>4, CallsWaiting
  <2>3. CASE peek = "LPAREN"
    <3>1. /\ Placed(paren, Len(stack) + 1, errors', pos') /\ paren.do = "paren"
          /\ \A k : Holds(paren, k) <=> k = pos + 1
      BY <1>1, <1>2, <1>5, <1>10, <1>12, WaitingPlaced
    <3>2. Call(Top, <<paren>> \o Expression(FALSE))
      BY <1>6, <1>12, <2>3
    <3>3. /\ \A k : Holds(Top, k) \/ Holds(paren, k) <=> Has(k)
          /\ Top.left.reads \subseteq paren.left.reads
      BY <1>2, <1>10, <1>12, <3>1
    <3>4. paren.do \notin Starts \cup Lists \cup {"climb"} /\ Len(stack) >= 2
      BY <1>2, <3>1 DEF Starts, Lists, Known
    <3> QED
      BY <1>1, <2>1, <3>1, <3>2, <3>3, <3>4, CallsWaiting
  <2>4. CASE peek \notin {"NEW", "LPAREN"}
    <3>1. /\ Placed(unary, Len(stack) + 1, errors', pos') /\ unary.do = "unary"
          /\ \A k : Holds(unary, k) <=> k = pos + 1
      BY <1>1, <1>2, <1>5, <1>10, <1>12, WaitingPlaced
    <3>2. Call(Top, <<unary, Climb(PRECEDENCE_UNARY, Top.opt)>>)
      BY <1>6, <1>12, <2>4
    <3>3. /\ \A k : Holds(Top, k) \/ Holds(unary, k) <=> Has(k)
          /\ Top.left.reads \subseteq unary.left.reads
      BY <1>2, <1>10, <1>12, <3>1
    <3>4. unary.do \notin Starts \cup Lists \cup {"climb"} /\ Len(stack) >= 2
      BY <1>2, <3>1 DEF Starts, Lists, Known
    <3> QED
      BY <1>1, <2>1, <3>1, <3>2, <3>3, <3>4, CallsClimb
  <2> QED
    BY <2>2, <2>3, <2>4
<1>13. CASE peek # "EOF" /\ Read(pos + 1) /\ Return(NULL)
  BY <1>1, <1>2, <1>7, <1>10, <1>13, ReturnNull
<1> QED
  BY <1>7, <1>9, <1>11, <1>12, <1>13

(* parser.c:760-772 keeps the invariant. *)
LEMMA ParenStep ==
    ASSUME IInv, paren_parsed
    PROVE  IInv'
<1>1. Known /\ Running /\ Top.do = "paren" /\ IsTree(ret) /\ Deep
  BY Knows DEF paren_parsed, Returns, Known, Deep
<1>2. PICK v : v = [ret EXCEPT !.reads = @ \cup Top.own \cup {pos + 1}]
  OBVIOUS
<1>3. /\ \/ Read(pos) /\ Return(NULL) /\ UNCHANGED memory
         \/ ~Failed /\ peek = "RPAREN" /\ Read(pos + 1) /\ UNCHANGED memory /\ Return(v)
         \/ Fail(Advanced(pos)) /\ Release(ret)
      /\ UNCHANGED <<toks, mod, bails>>
  BY <1>2 DEF paren_parsed
<1>4. MemoryOK
  BY <1>1, <1>3, Allocates DEF Known
<1>5. CASE Read(pos) /\ Return(NULL)
  BY <1>1, <1>3, <1>4, <1>5, GivesUp DEF Read
<1>6. CASE ~Failed /\ peek = "RPAREN" /\ Read(pos + 1) /\ Return(v)
  <2>1. Moved /\ errors' = errors /\ pos' = pos + 1
    BY <1>1, <1>3, <1>4, <1>6, OneMore, Reading
  <2>2. IsTree(v) /\ v.kind = ret.kind /\ v.reads = ret.reads \cup Top.own \cup {pos + 1}
    BY <1>1, <1>2 DEF IsTree
  <2>3. \A k : k \in v.reads <=> Has(k)
    <3>1. \A k : Holds(Top, k) <=> k \in Top.own
      BY <1>1, PlainHolds DEF HasLeft, HasKids
    <3>2. \A k : k \in pos + 1 .. pos' <=> k = pos + 1
      BY <1>1, <2>1 DEF Known
    <3> QED
      BY <2>2, <3>1, <3>2 DEF Has, Had
  <2> QED
    BY <1>1, <1>3, <1>6, <2>1, <2>2, <2>3, ReturnTree DEF Failed
<1>7. CASE Fail(Advanced(pos))
  BY <1>1, <1>3, <1>4, <1>7, OneMore, Fails
<1> QED
  BY <1>3, <1>5, <1>6, <1>7

(* parser.c:800-914 keeps the invariant. *)
LEMMA AroundStep ==
    ASSUME IInv, around_parsed
    PROVE  IInv'
<1>1. Known /\ Running /\ Top.do \in Around /\ Deep
  BY Knows DEF around_parsed, Returns, Around, Deep
<1>2. PICK v : v = CASE Top.do = "expr_stmt" -> ast_new_expr_stmt(Top.own, ret)
                     [] Top.do = "delete" -> ast_new_delete_stmt(Top.own, ret)
                     [] Top.do = "return" -> ast_new_return_stmt(Top.own, ret)
                     [] Top.do = "let" -> ast_new_let_stmt(Top.own, ret)
                     [] Top.do = "new" -> ast_new_new_expr(Top.own, ret)
                     [] Top.do = "unary" -> ast_new_unary_expr(Top.own, ret)
                     [] Top.do = "access" -> ast_new_access_expr(Top.own, Top.left, ret)
                     [] Top.do = "binary" -> ast_new_binary_expr(Top.own, Top.left, ret)
  OBVIOUS
<1>3. /\ IF Failed THEN Return(NULL) /\ UNCHANGED memory ELSE Return(v) /\ New(v)
      /\ UNCHANGED <<toks, pos, errors, mod, bails>>
  BY <1>2 DEF around_parsed
<1>4. MemoryOK
  BY <1>1, <1>3, Allocates DEF Known
<1>5. CASE Failed
  BY <1>1, <1>3, <1>4, <1>5, GivesUp
<1>6. CASE ~Failed
  <2>1. Moved /\ \A k : Has(k) <=> Holds(Top, k) \/ k \in ret.reads
    BY <1>1, <1>3, <1>4, Stays DEF Read
  <2>2. Top.kids = {}
    BY <1>1 DEF Known, Placed, Shaped, HasKids, Around
  <2>3. CASE Top.do \in {"access", "binary"}
    <3>1. Makes(v, Top.own, {Top.left, ret})
      BY <1>2, <2>3, ExprMakes
    <3>2. \A k : k \in v.reads <=> Has(k)
      BY <2>1, <2>2, <3>1 DEF Makes, Holds
    <3> QED
      BY <1>1, <1>3, <1>6, <2>1, <3>1, <3>2, ReturnTree DEF Makes, Failed, Deep
  <2>4. CASE Top.do \in Around \ {"access", "binary"}
    <3>1. Makes(v, Top.own, {ret})
      <4>1. \/ v = ast_new_expr_stmt(Top.own, ret) \/ v = ast_new_delete_stmt(Top.own, ret)
            \/ v = ast_new_return_stmt(Top.own, ret) \/ v = ast_new_let_stmt(Top.own, ret)
            \/ v = ast_new_new_expr(Top.own, ret) \/ v = ast_new_unary_expr(Top.own, ret)
        BY <1>2, <2>4 DEF Around
      <4> QED
        BY <4>1, StmtMakes, ExprMakes
    <3>2. \A k : Holds(Top, k) <=> k \in Top.own
      BY <1>1, <2>4, PlainHolds DEF HasLeft, HasKids, Around
    <3>3. \A k : k \in v.reads <=> Has(k)
      BY <2>1, <3>1, <3>2 DEF Makes
    <3> QED
      BY <1>1, <1>3, <1>6, <2>1, <3>1, <3>3, ReturnTree DEF Makes, Failed, Deep
  <2> QED
    BY <1>1, <2>3, <2>4
<1> QED
  BY <1>5, <1>6

(* parser.c:689-709 keeps the invariant. *)
LEMMA OperandStep ==
    ASSUME IInv, operand_done
    PROVE  IInv'
<1>1. Known /\ Running /\ ret = Entered /\ Top.do = "climb"
  BY Knows DEF operand_done, Runs
<1>2. Return(Top.left) /\ UNCHANGED <<toks, pos, errors, mod, memory, bails>>
  BY DEF operand_done
<1>3. MemoryOK
  BY <1>1, <1>2, Allocates DEF Known
<1>4. Moved /\ \A k : Has(k) <=> Holds(Top, k) \/ k \in ret.reads
  BY <1>1, <1>2, <1>3, Stays DEF Read
<1>5. /\ Len(stack) >= 3 /\ IsTree(Top.left)
      /\ \A k : Holds(Top, k) <=> k \in Top.left.reads
  BY <1>1, ClimbHolds
<1> QED
  BY <1>1, <1>2, <1>4, <1>5, ReturnTree, EnteredHoldsNothing

(* parser.c:800-914 keeps the invariant. *)
LEMMA InfixStep ==
    ASSUME IInv, parser_infix
    PROVE  IInv'
<1>1. Known /\ Running /\ ret = Entered /\ Top.do = "climb" /\ peek # "EOF"
  BY Knows DEF parser_infix, Runs, parser_next_higher_precedence
<1>2. /\ Deep /\ Len(stack) >= 3 /\ IsTree(Top.left)
      /\ \A k : Holds(Top, k) <=> k \in Top.left.reads
  BY <1>1, ClimbHolds
<1>3. PICK do : do = CASE peek = "DOT" -> "access" [] peek = "LPAREN" -> "args"
                       [] peek = "LBRACE" -> "inits" [] OTHER -> "binary"
  OBVIOUS
<1>4. PICK g : g = [Frame(do) EXCEPT !.own = {pos + 1}, !.left = Top.left, !.start = pos + 1]
  OBVIOUS
<1>5. /\ \/ do = "access" /\ Call(Top, <<g>> \o Expression(Top.opt))
         \/ do \in Lists /\ Call(Top, <<g>>)
         \/ do = "binary" /\ Call(Top, <<g, Climb(precedence_get(peek), Top.opt)>>)
      /\ Read(pos + 1) /\ UNCHANGED <<toks, mod, memory, bails>>
  BY <1>3, <1>4 DEF parser_infix, Lists
<1>6. MemoryOK
  BY <1>1, <1>5, Allocates DEF Known
<1>7. Moved /\ errors' = errors /\ pos' = pos + 1
  BY <1>1, <1>5, <1>6, OneMore, Reading
<1>8. /\ DOMAIN g = DOMAIN Frame(do)
      /\ g.do = do /\ g.own = {pos + 1} /\ g.left = Top.left /\ g.kids = {}
      /\ g.errs = 0 /\ g.start = pos + 1
  BY <1>4 DEF Frame
<1>9. do \in {"access", "args", "inits", "binary"}
  BY <1>3
<1>10. Placed(g, Len(stack) + 1, errors', pos')
  <2>1. Shaped(g)
    BY <1>1, <1>2, <1>8, <1>9 DEF Shaped, Frame, FrameKinds, Around, NoOwn, HasLeft, Known
  <2> QED
    BY <1>1, <1>2, <1>7, <1>8, <1>9, <2>1 DEF Placed, Known
<1>11. \A k : Holds(g, k) <=> k \in Top.left.reads \/ k = pos + 1
  BY <1>8 DEF Holds
<1>12. \A k : Holds(Top, k) \/ Holds(g, k) <=> Has(k)
  <2>1. \A k : k \in Reads(pos + 1) <=> k = pos + 1
    BY <1>1 DEF Reads, Known
  <2> QED
    BY <1>1, <1>2, <1>7, <1>11, <2>1, HasReads
<1>13. Goes(Top)
  BY <1>1, <1>5, <1>7, TopPlaced
<1>14. Top.left.reads \subseteq g.left.reads
  BY <1>8
<1>15. g.do \notin Starts \cup {"climb"} /\ g.do # "fields"
  BY <1>8, <1>9 DEF Starts
<1>16. CASE do = "access" /\ Call(Top, <<g>> \o Expression(Top.opt))
  <2>1. g.do \notin Starts \cup Lists \cup {"climb"} /\ Len(stack) >= 2
    BY <1>2, <1>8, <1>15, <1>16 DEF Lists, Known
  <2> QED
    BY <1>1, <1>10, <1>12, <1>13, <1>14, <1>15, <1>16, <2>1, CallsWaiting
<1>17. CASE do \in Lists /\ Call(Top, <<g>>)
  <2>1. NewList(g, Top)
    BY <1>1, <1>2, <1>7, <1>8, EnteredHoldsNothing DEF NewList
  <2> QED
    BY <1>1, <1>10, <1>12, <1>13, <1>14, <1>15, <1>17, <2>1, Calls
<1>18. CASE do = "binary" /\ Call(Top, <<g, Climb(precedence_get(peek), Top.opt)>>)
  <2>1. g.do \notin Starts \cup Lists \cup {"climb"} /\ Len(stack) >= 2
    BY <1>2, <1>8, <1>15, <1>18 DEF Lists, Known
  <2> QED
    BY <1>1, <1>10, <1>12, <1>13, <1>14, <1>15, <1>18, <2>1, CallsClimb
<1> QED
  BY <1>5, <1>16, <1>17, <1>18

(* parser.c:843-852 keeps the invariant. *)
LEMMA AsStep ==
    ASSUME IInv, infix_as
    PROVE  IInv'
<1>1. Known /\ Running /\ ret = Entered /\ Top.do = "climb" /\ peek # "EOF"
  BY Knows DEF infix_as, Runs
<1>2. /\ Deep /\ Len(stack) >= 3 /\ IsTree(Top.left)
      /\ \A k : Holds(Top, k) <=> k \in Top.left.reads
  BY <1>1, ClimbHolds
<1>3. PICK r : r = parser_consume_type(pos + 1)
  OBVIOUS
<1>4. PICK as : as = ast_new_as_expr(Reads(r.to), Top.left)
  OBVIOUS
<1>5. PICK f : f = [Top EXCEPT !.left = as]
  OBVIOUS
<1>6. /\ \/ Read(r.to) /\ New(as) /\ Continue(f)
         \/ Fail(r.to) /\ Release(Top.left)
      /\ UNCHANGED <<toks, mod, bails>>
  BY <1>3, <1>4, <1>5 DEF infix_as
<1>7. MemoryOK
  BY <1>1, <1>6, Allocates DEF Known
<1>8. r.to \in pos .. Len(toks)
  <2>1. pos + 1 \in pos .. Len(toks) /\ pos + 1 \in 0 .. Len(toks)
    BY <1>1, OneMore DEF Known
  <2>2. Reaches(r, pos + 1)
    BY <1>1, <1>3, <2>1, OneMore, TypeReaches
  <2> QED
    BY <1>1, <2>1, <2>2 DEF Reaches, Known
<1>9. CASE Read(r.to) /\ New(as) /\ Continue(f)
  <2>1. Moved /\ errors' = errors /\ pos' = r.to
    BY <1>1, <1>6, <1>7, <1>8, <1>9, Reading
  <2>2. Makes(as, Reads(r.to), {Top.left})
    BY <1>4, ExprMakes
  <2>3. /\ Placed(f, Len(stack), errors', pos') /\ f.do = "climb" /\ f.left = as
        /\ \A k : Holds(f, k) <=> k \in as.reads
    BY <1>1, <1>5, <2>1, <2>2, LeftPlaced DEF Makes
  <2>4. \A k : Holds(f, k) <=> Has(k)
    BY <1>1, <1>2, <2>1, <2>2, <2>3, HasReads DEF Makes
  <2>5. Goes(f)
    BY <1>1, <1>6, <2>1, <2>2, <2>3, HasReads DEF Goes, Succeeds, Deep, Starts, Lists, Makes
  <2> QED
    BY <1>1, <1>9, <2>4, <2>5, Continues
<1>10. CASE Fail(r.to)
  BY <1>1, <1>6, <1>7, <1>8, <1>10, Fails
<1> QED
  BY <1>6, <1>9, <1>10

(* parser.c:689-709 keeps the invariant. *)
LEMMA ClimbOnStep ==
    ASSUME IInv, climb_on
    PROVE  IInv'
<1>1. Known /\ Running /\ ret # Entered /\ IsTree(ret) /\ Top.do = "climb"
  BY Knows DEF climb_on, Returns, Known
<1>2. PICK f : f = [Top EXCEPT !.left = ret]
  OBVIOUS
<1>3. /\ IF Failed THEN Release(Top.left) /\ Return(NULL) ELSE UNCHANGED memory /\ Continue(f)
      /\ UNCHANGED <<toks, pos, errors, mod, bails>>
  BY <1>2 DEF climb_on
<1>4. MemoryOK
  BY <1>1, <1>3, Allocates DEF Known
<1>5. Deep /\ \A k : Holds(Top, k) <=> k \in Top.left.reads
  BY <1>1, ClimbHolds
<1>6. CASE Failed
  BY <1>1, <1>3, <1>4, <1>5, <1>6, GivesUp
<1>7. CASE ~Failed
  <2>1. Moved /\ errors' = errors /\ \A k : Has(k) <=> Holds(Top, k) \/ k \in ret.reads
    BY <1>1, <1>3, <1>4, Stays DEF Read
  <2>2. /\ Placed(f, Len(stack), errors', pos') /\ f.do = "climb" /\ f.left = ret
        /\ \A k : Holds(f, k) <=> k \in ret.reads
    BY <1>1, <1>2, <2>1, LeftPlaced
  <2>3. Top.left.reads \subseteq ret.reads
    <3>1. ret # Aborted /\ ret.kind \notin {"entered", "NULL"}
      BY <1>1, <1>7 DEF IsTree, Failed, Aborted, NULL
    <3> QED
      BY <1>1, <2>1, <3>1 DEF IInv, Covered
  <2>4. \A k : Holds(f, k) <=> Has(k)
    BY <1>5, <2>1, <2>2, <2>3
  <2>5. Goes(f)
    BY <1>1, <1>3, <1>5, <1>7, <2>1, <2>2, <2>3 DEF Goes, Succeeds, Deep, Starts, Lists, Failed
  <2> QED
    BY <1>1, <1>3, <1>7, <2>4, <2>5, Continues
<1> QED
  BY <1>6, <1>7

-----------------------------------------------------------------------------
(* Lists. *)

(* The frame of a list, and the frame it becomes.                          *)
LEMMA ListPlaced ==
    ASSUME Known, Moved, Top.do \in HasKids \cap HasLeft,
           NEW f, DOMAIN f = DOMAIN Top, f.do \in HasKids \cap HasLeft,
           f.left = Top.left, f.errs = Top.errs, f.start = Top.start
    PROVE  /\ Placed(f, Len(stack), errors', pos')
           /\ f.do \notin Starts /\ f.do # "climb" /\ Top.left.reads \subseteq f.left.reads
           /\ Len(stack) >= 3
<1>1. Top.do \in {"args", "inits", "close"} /\ f.do \in {"args", "inits", "close"}
  BY DEF HasKids, HasLeft
<1>2. Shaped(f)
  BY <1>1 DEF Known, Placed, Shaped, FrameKinds, NoOwn, HasLeft, HasKids
<1>3. Deep
  BY <1>1 DEF Deep
<1>4. Placed(f, Len(stack), errors', pos')
  BY <1>1, <1>2, <1>3 DEF Known, Placed, Moved, Shaped
<1> QED
  BY <1>1, <1>3, <1>4 DEF Known, Starts

(* parser.c:596-620 keeps the invariant. *)
LEMMA ArgListStep ==
    ASSUME IInv, parser_parse_arg_list
    PROVE  IInv'
<1>1. Known /\ Running /\ Top.do = "args" /\ ret.kind # "NULL"
  BY Knows, EnteredHoldsNothing DEF parser_parse_arg_list, Runs, Returns, Failed
<1>2. PICK comma : comma = (ret # Entered /\ peek = "COMMA")
  OBVIOUS
<1>3. PICK to : to = IF comma THEN pos + 1 ELSE pos
  OBVIOUS
<1>4. PICK kids : kids = Top.kids \cup ({ret} \ {Entered})
  OBVIOUS
<1>5. PICK f : f = [Top EXCEPT !.kids = kids, !.own = @ \cup Reads(to)]
  OBVIOUS
<1>6. PICK g : g = [f EXCEPT !.do = "close"]
  OBVIOUS
<1>7. /\ Read(to)
      /\ Continue(g) \/ Call(f, Expression(FALSE))
      /\ UNCHANGED <<toks, mod, memory, bails>>
  BY <1>2, <1>3, <1>4, <1>5, <1>6 DEF parser_parse_arg_list
<1>8. MemoryOK /\ to \in pos .. Len(toks)
  BY <1>1, <1>2, <1>3, <1>7, Allocates, OneMore DEF Known
<1>9. Moved /\ errors' = errors /\ pos' = to
  BY <1>1, <1>7, <1>8, Reading
<1>10. /\ DOMAIN f = DOMAIN Top
       /\ f.do = "args" /\ f.own = Top.own \cup Reads(to) /\ f.left = Top.left /\ f.kids = kids
       /\ f.errs = Top.errs /\ f.start = Top.start
  BY <1>1, <1>5 DEF Known, Placed, Shaped
<1>11. /\ DOMAIN g = DOMAIN Top
       /\ g.do = "close" /\ g.own = f.own /\ g.left = Top.left /\ g.kids = kids
       /\ g.errs = Top.errs /\ g.start = Top.start
  BY <1>1, <1>6, <1>10 DEF Known, Placed, Shaped
<1>12. \A k : Has(k) <=> Holds(f, k)
  BY <1>1, <1>4, <1>9, <1>10, Collected DEF Has, Had, Holds, Reads
<1>13. CASE Continue(g)
  <2>1. \A k : Holds(g, k) <=> Has(k)
    BY <1>10, <1>11, <1>12 DEF Holds
  <2>2. Goes(g)
    BY <1>1, <1>7, <1>9, <1>11, ListPlaced DEF Goes, Succeeds, Deep, HasKids, HasLeft, Lists
  <2> QED
    BY <1>1, <1>13, <2>1, <2>2, Continues
<1>14. CASE Call(f, Expression(FALSE))
  <2>1. SameList(f)
    BY <1>1, <1>10 DEF SameList, Lists
  <2>2. Goes(f) /\ f.do # "climb" /\ Len(stack) >= 2
    BY <1>1, <1>7, <1>9, <1>10, <2>1, ListPlaced DEF Goes, Succeeds, Deep, HasKids, HasLeft, Known
  <2> QED
    BY <1>1, <1>12, <1>14, <2>2, CallsExpression
<1> QED
  BY <1>7, <1>13, <1>14

(* Those that go on as a call or initialiser without arguments.            *)
LEMMA Bails ==
    ASSUME IInv, Running, Top.do \in {"args", "inits"}, Moved, mod' = mod, Bail(pos')
    PROVE  IInv'
<1>1. Known
  BY Knows
<1>2. PICK f : f = [Top EXCEPT !.do = "close", !.kids = {}, !.own = @ \cap 1 .. Top.start,
                               !.opt = Top.do = "inits"]
  OBVIOUS
<1>3. Continue(f) /\ bails' = bails \cup {<<Top.start, pos'>>}
  BY <1>2 DEF Bail
<1>4. /\ DOMAIN f = DOMAIN Top
      /\ f.do = "close" /\ f.own = Top.own \cap 1 .. Top.start /\ f.left = Top.left /\ f.kids = {}
      /\ f.errs = Top.errs /\ f.start = Top.start
  BY <1>1, <1>2 DEF Known, Placed, Shaped
<1>5. Placed(f, Len(stack), errors', pos') /\ f.do \notin Starts
  BY <1>1, <1>4, ListPlaced DEF HasKids, HasLeft
<1> QED
  BY <1>3, <1>4, <1>5, GivesListUp DEF Lists

(* parser.c:596-620 keeps the invariant. *)
LEMMA ArgFailedStep ==
    ASSUME IInv, arg_failed
    PROVE  IInv'
<1>1. Known /\ Running /\ Top.do \in {"args", "inits"}
  BY Knows DEF arg_failed, Returns
<1>2. MemoryOK
  BY <1>1, Allocates DEF Known, arg_failed
<1>3. Moved /\ pos' = pos /\ mod' = mod /\ Bail(pos)
  BY <1>1, <1>2 DEF arg_failed, Known, Moved, MemoryOK
<1> QED
  BY <1>1, <1>3, Bails

(* parser.c:622-656 keeps the invariant. *)
LEMMA InitFailedStep ==
    ASSUME IInv, init_failed
    PROVE  IInv'
<1>1. Known /\ Running /\ Top.do \in {"args", "inits"}
  BY Knows DEF init_failed, Returns
<1>2. MemoryOK
  BY <1>1, Frees DEF Known, init_failed
<1>3. Moved /\ pos' = pos /\ mod' = mod /\ Bail(pos)
  BY <1>1, <1>2 DEF init_failed, Known, Moved, MemoryOK
<1> QED
  BY <1>1, <1>3, Bails

(* parser.c:622-656 keeps the invariant. *)
LEMMA InitListStep ==
    ASSUME IInv, parser_parse_init_list
    PROVE  IInv'
<1>1. Known /\ Running /\ Top.do = "inits" /\ ret.kind # "NULL"
  BY Knows, EnteredHoldsNothing DEF parser_parse_init_list, Runs, Returns, Failed
<1>2. PICK comma : comma = (ret # Entered /\ peek = "COMMA")
  OBVIOUS
<1>3. PICK from : from = IF comma THEN pos + 1 ELSE pos
  OBVIOUS
<1>4. PICK r : r = Consume(from, <<"IDENT", "COLON">>)
  OBVIOUS
<1>5. PICK kids : kids = Top.kids \cup ({ret} \ {Entered})
  OBVIOUS
<1>6. PICK f : f = [Top EXCEPT !.kids = kids, !.own = @ \cup Reads(r.to)]
  OBVIOUS
<1>7. PICK g : g = [Top EXCEPT !.do = "close", !.kids = kids, !.opt = TRUE]
  OBVIOUS
<1>8. /\ \/ Read(pos) /\ UNCHANGED <<memory, bails>> /\ Continue(g)
         \/ Read(r.to) /\ UNCHANGED <<memory, bails>> /\ Call(f, Expression(FALSE))
         \/ Miss(r.to) /\ Free(kids, FALSE) /\ Bail(r.to)
      /\ UNCHANGED <<toks, mod>>
  BY <1>2, <1>3, <1>4, <1>5, <1>6, <1>7 DEF parser_parse_init_list
<1>9. MemoryOK
  BY <1>1, <1>8, Allocates, Frees DEF Known
<1>10. r.to \in pos .. Len(toks)
  <2>1. from \in pos .. Len(toks) /\ from \in 0 .. Len(toks)
    <3>1. CASE comma
      <4>1. from = pos + 1 /\ peek # "EOF" /\ pos \in Nat
        BY <1>1, <1>2, <1>3, <3>1, OneMore
      <4>2. pos + 1 \in pos .. Len(toks)
        BY <1>1, <4>1, OneMore
      <4> QED
        BY <1>1, <4>1, <4>2 DEF Known
    <3>2. CASE ~comma
      BY <1>1, <1>3, <3>2, OneMore
    <3> QED
      BY <3>1, <3>2
  <2>2. Reaches(r, from)
    BY <1>1, <1>4, <2>1, OneMore, ConsumeTwo
  <2> QED
    BY <1>1, <2>1, <2>2 DEF Reaches, Known
<1>11. \A k : (\E t \in kids : k \in t.reads) <=> (\E t \in Top.kids : k \in t.reads) \/ k \in ret.reads
  BY <1>1, <1>5, Collected
<1>12. CASE Read(pos) /\ UNCHANGED bails /\ Continue(g)
  <2>1. /\ Moved /\ errors' = errors /\ pos' = pos
        /\ \A k : Has(k) <=> Holds(Top, k) \/ k \in ret.reads
    BY <1>1, <1>8, <1>9, <1>12, Stays
  <2>2. /\ DOMAIN g = DOMAIN Top
        /\ g.do = "close" /\ g.own = Top.own /\ g.left = Top.left /\ g.kids = kids
        /\ g.errs = Top.errs /\ g.start = Top.start
    BY <1>1, <1>7 DEF Known, Placed, Shaped
  <2>3. \A k : Holds(g, k) <=> Has(k)
    BY <1>11, <2>1, <2>2 DEF Holds
  <2>4. Goes(g)
    BY <1>1, <1>8, <1>12, <2>1, <2>2, ListPlaced DEF Goes, Succeeds, Deep, HasKids, HasLeft, Lists
  <2> QED
    BY <1>1, <1>12, <2>3, <2>4, Continues
<1>13. CASE Read(r.to) /\ UNCHANGED bails /\ Call(f, Expression(FALSE))
  <2>1. Moved /\ errors' = errors /\ pos' = r.to
    BY <1>1, <1>8, <1>9, <1>10, <1>13, Reading
  <2>2. /\ DOMAIN f = DOMAIN Top
        /\ f.do = "inits" /\ f.own = Top.own \cup Reads(r.to) /\ f.left = Top.left /\ f.kids = kids
        /\ f.errs = Top.errs /\ f.start = Top.start
    BY <1>1, <1>6 DEF Known, Placed, Shaped
  <2>3. \A k : Holds(f, k) <=> Has(k)
    BY <1>11, <2>1, <2>2 DEF Holds, Has, Had, Reads
  <2>4. SameList(f)
    BY <1>1, <2>2 DEF SameList, Lists
  <2>5. Goes(f) /\ f.do # "climb" /\ Len(stack) >= 2
    BY <1>1, <1>8, <1>13, <2>1, <2>2, <2>4, ListPlaced DEF Goes, Succeeds, Deep, HasKids, HasLeft, Known
  <2> QED
    BY <1>1, <1>13, <2>3, <2>5, CallsExpression
<1>14. CASE Miss(r.to) /\ Bail(r.to)
  <2>1. Moved /\ pos' = r.to
    BY <1>1, <1>8, <1>9, <1>10, <1>14 DEF Known, Moved, MemoryOK, Miss
  <2>2. mod' = mod /\ Bail(pos')
    BY <1>1, <1>8, <1>14, <2>1
  <2> QED
    BY <1>1, <2>1, <2>2, Bails
<1> QED
  BY <1>8, <1>12, <1>13, <1>14

(* parser.c:815-841 keeps the invariant. *)
LEMMA CloseListStep ==
    ASSUME IInv, close_list
    PROVE  IInv'
<1>1. Known /\ Running /\ ret = Entered /\ Top.do = "close" /\ Deep
  BY Knows DEF close_list, Runs, Deep
<1>2. PICK r : r = Consume(pos, <<IF Top.opt THEN "RBRACE" ELSE "RPAREN">>)
  OBVIOUS
<1>3. PICK own, v : /\ own = Top.own \cup Reads(r.to)
                    /\ v = IF Top.opt THEN ast_new_init_expr(own, Top.left, Top.kids)
                                      ELSE ast_new_call_expr(own, Top.left, Top.kids)
  OBVIOUS
<1>4. /\ \/ Fail(r.to) /\ Free(Top.kids, ~Top.opt /\ Top.kids # {})
         \/ Read(r.to) /\ New(v) /\ Return(v)
         \/ Read(r.to) /\ Release(Top.left) /\ Return(NULL)
      /\ UNCHANGED <<toks, mod, bails>>
  BY <1>2, <1>3 DEF close_list
<1>5. MemoryOK
  BY <1>1, <1>4, Allocates, Frees DEF Known
<1>6. r.to \in pos .. Len(toks)
  <2>1. PICK t : t = (IF Top.opt THEN "RBRACE" ELSE "RPAREN") /\ t # "EOF"
    OBVIOUS
  <2>2. r = Consume(pos, <<t>>)
    BY <1>2, <2>1
  <2> QED
    BY <1>1, <2>1, <2>2, OneMore, ConsumeOne DEF Reaches
<1>7. CASE Fail(r.to)
  BY <1>1, <1>4, <1>5, <1>6, <1>7, Fails
<1>8. CASE Read(r.to) /\ Return(v)
  <2>1. Moved /\ errors' = errors /\ pos' = r.to
    BY <1>1, <1>4, <1>5, <1>6, <1>8, Reading
  <2>2. Makes(v, own, {Top.left} \cup Top.kids)
    BY <1>3, ExprMakes
  <2>3. \A k : k \in v.reads <=> k \in own \/ k \in Top.left.reads \/ \E t \in Top.kids : k \in t.reads
    BY <2>2 DEF Makes
  <2>4. ret.kind # "NULL" /\ \A k : k \in v.reads <=> Has(k)
    BY <1>1, <1>3, <2>1, <2>3, HasReads DEF Holds
  <2> QED
    BY <1>1, <1>4, <1>8, <2>1, <2>2, <2>4, ReturnTree DEF Makes
<1>9. CASE Read(r.to) /\ Return(NULL)
  <2>1. Moved /\ errors' = errors
    BY <1>1, <1>4, <1>5, <1>6, <1>9, Reading
  <2> QED
    BY <1>1, <1>4, <1>9, <2>1, ReturnNull DEF Known
<1> QED
  BY <1>4, <1>7, <1>8, <1>9

-----------------------------------------------------------------------------
(* parser_parse, whose frame is alone on the stack: it keeps what its      *)
(* statements were read from.                                              *)
LEMMA ParseStep ==
    ASSUME IInv, parser_parse
    PROVE  IInv'
<1>1. Known /\ Running /\ Top.do = "parse" /\ Stacked /\ Typed
  BY Knows DEF parser_parse, IInv
<1>2. Len(stack) = 1 /\ Top = stack[1]
  BY <1>1 DEF Known, Placed, Top
<1>3. UNCHANGED <<toks, pos, errors, memory, bails>>
  BY DEF parser_parse
<1>4. \A k : ~Holds(Top, k)
  BY <1>1, PlainHolds DEF HasLeft, HasKids, NoOwn, Known, Placed, Shaped
<1>5. ret.kind = "entered" => ret = Entered /\ ret.reads = {}
  BY <1>1, EnteredHoldsNothing DEF Known, IsTree
<1>6. PICK kept : kept = (ret.kind \notin {"entered", "NULL"})
  OBVIOUS
<1>7. IF kept THEN mod' = Append(mod, ret) ELSE mod' = mod
  BY <1>6 DEF parser_parse, mod_push_stmt
<1>8. \E S : mod' \in Seq(S)
  <2>1. PICK S : mod \in Seq(S)
    BY <1>1 DEF Typed
  <2>2. mod \in Seq(S \cup {ret}) /\ ret \in S \cup {ret}
    BY <2>1
  <2>3. Append(mod, ret) \in Seq(S \cup {ret})
    BY <2>2
  <2> QED
    BY <1>7, <2>1, <2>3
<1>9. \A k : (\E i \in 1 .. Len(mod') : k \in mod'[i].reads)
                 <=> (\E i \in 1 .. Len(mod) : k \in mod[i].reads) \/ (kept /\ k \in ret.reads)
  <2>1. PICK S : mod \in Seq(S)
    BY <1>1 DEF Typed
  <2>2. CASE kept
    <3>1. PICK n \in Nat : n = Len(mod)
      BY <2>1
    <3>2. Len(mod') = n + 1 /\ mod'[n + 1] = ret /\ \A i \in 1 .. n : mod'[i] = mod[i]
      BY <1>7, <2>1, <2>2, <3>1
    <3>3. \A i : i \in 1 .. n + 1 <=> i \in 1 .. n \/ i = n + 1
      BY <3>1
    <3> QED
      BY <2>2, <3>1, <3>2, <3>3
  <2>3. CASE ~kept
    BY <1>7, <2>3
  <2> QED
    BY <2>2, <2>3
<1>14. PICK m : m = Len(stack')
  OBVIOUS
<1>10. /\ m = Len(stack') /\ m \in {0, 2} /\ \E S : stack' \in Seq(S)
       /\ m = 0 => stack' = <<>> /\ ret' = Returned
       /\ m = 2 => stack'[1] = Top /\ stack'[2] = Frame("statement") /\ ret' = Entered
  <2>1. CASE peek = "EOF"
    <3>1. stack' = <<>> /\ ret' = Returned
      BY <2>1 DEF parser_parse
    <3>2. Len(stack') = 0 /\ stack' \in Seq({})
      BY <3>1
    <3> QED
      BY <1>14, <3>1, <3>2
  <2>2. CASE peek # "EOF"
    <3>1. stack' = Pushed(Top, <<Frame("statement")>>) /\ ret' = Entered
      BY <2>2 DEF parser_parse, Call, Pushed
    <3>2. /\ Grown(stack', Len(stack), Len(stack) + 1)
          /\ stack'[Len(stack)] = Top /\ stack'[Len(stack) + 1] = Frame("statement")
      BY <1>1, <3>1, GrowsOne
    <3>3. Len(stack') = 2 /\ (\E S : stack' \in Seq(S))
      BY <1>2, <3>2 DEF Grown
    <3>4. stack'[1] = Top /\ stack'[2] = Frame("statement")
      BY <1>2, <3>2
    <3> QED
      BY <1>14, <3>1, <3>3, <3>4
  <2> QED
    BY <2>1, <2>2
<1>11. Typed'
  <2>2. faults' = faults
    BY <1>3 DEF memory
  <2>3. ret' = Entered \/ Halted'
    <3>1. peek # "EOF" => ret' = Entered
      BY DEF parser_parse, Call
    <3>2. peek = "EOF" => stack' = <<>> /\ ret' = Returned
      BY DEF parser_parse
    <3>3. peek' = peek
      BY <1>3 DEF peek, TokenAt
    <3> QED
      BY <3>1, <3>2, <3>3 DEF Halted
  <2> QED
    BY <1>1, <1>3, <1>8, <2>2, <2>3 DEF Typed
<1>12. Stacked'
  <2>1. Placed(Top, 1, errors', pos') /\ Top.do \notin Starts /\ Top.do # "fields"
    BY <1>1, <1>2, <1>3 DEF Known, Starts
  <2>2. /\ Placed(Frame("statement"), 2, errors', pos') /\ Frame("statement").do = "statement"
    BY <1>1, <1>3, Fresh DEF Known, FrameKinds
  <2>3. \A i \in 1 .. m : m = 2 /\ (i = 1 \/ i = 2)
    BY <1>10
  <2> QED
    BY <1>10, <2>1, <2>2, <2>3, <1>1 DEF Stacked, Starts
<1>13. Covered /\ Ordered /\ Settled /\ Dropped' = Dropped /\ (errors = 0 => ret.kind # "NULL")
  <2>1. ret # Aborted
    BY <1>1 DEF Known, IsTree, Entered, Aborted, NULL
  <2>2. Covered /\ Ordered /\ Settled
    BY <2>1 DEF IInv
  <2> QED
    BY <1>2, <1>3, <2>2 DEF Covered, Dropped
<1>15. Blank(Frame("statement")) /\ Frame("statement").do = "statement"
  BY Fresh DEF FrameKinds
<1>16. /\ ret'.reads = {} /\ ret'.kind # "NULL" /\ ret'.kind \in {"entered", "returned"}
       /\ m = 2 => ret'.kind = "entered"
  BY <1>10 DEF Returned, Entered, NULL
<1>17. \A k : \A i \in 1 .. m : ~Holds(stack'[i], k)
  BY <1>4, <1>10, <1>15 DEF Blank
<1>18. Begin = pos /\ Begin' = pos'
  <2>1. Len(stack') < 2 \/ stack'[2].do # "end"
    BY <1>10, <1>15
  <2> QED
    BY <1>2, <2>1 DEF Begin
<1>19. \A i \in 1 .. Len(mod) : \A k \in mod[i].reads : k \in 1 .. pos
  BY <1>13 DEF Covered, Held
<1>20. Covered'
  <2>4. \A k : Held(Len(stack), k) \/ k \in ret.reads
               <=> (\E i \in 1 .. Len(mod) : k \in mod[i].reads) \/ k \in ret.reads
    BY <1>2, <1>4 DEF Held
  <2>7. \A k : Held(Len(stack), k)' <=> \E i \in 1 .. Len(mod') : k \in mod'[i].reads
    BY <1>10, <1>17 DEF Held, Holds
  <2>8. \A k : /\ Held(Len(stack), k)' \/ k \in ret'.reads => Held(Len(stack), k) \/ k \in ret.reads
               /\ errors = 0 /\ (Held(Len(stack), k) \/ k \in ret.reads) => Held(Len(stack), k)'
    BY <1>5, <1>6, <1>9, <1>13, <1>16, <2>4, <2>7
  <2>9. \A i \in 1 .. m : stack'[i].do \notin Lists /\ stack'[i].do # "climb"
    BY <1>1, <1>10, <1>15 DEF Lists
  <2>10. Running' => ret'.kind = "entered"
    BY <1>10, <1>16 DEF Running
  <2>1. \A k \in Since' + 1 .. pos' : k \in Dropped' \/ Held(Len(stack), k)' \/ k \in ret'.reads
    <3>1. CASE errors = 0
      <4>1. Since = 0 /\ Since' = 0
        BY <1>3, <3>1 DEF Since
      <4>2. \A k \in 0 + 1 .. pos : k \in Dropped \/ Held(Len(stack), k) \/ k \in ret.reads
        BY <1>13, <3>1, <4>1 DEF Covered
      <4> QED
        BY <1>3, <1>13, <2>8, <3>1, <4>1, <4>2
    <3>2. CASE errors # 0
      <4>1. Since' = pos' /\ pos' \in Nat
        BY <1>1, <1>3, <1>18, <3>2 DEF Since, Typed
      <4>2. PICK p \in Nat : p = pos'
        BY <4>1
      <4>3. \A k : k \notin p + 1 .. p
        OBVIOUS
      <4> QED
        BY <4>1, <4>2, <4>3
    <3> QED
      BY <3>1, <3>2
  <2> QED
    BY <1>3, <1>10, <1>13, <1>16, <2>1, <2>8, <2>9, <2>10 DEF Covered, Shared
<1>21. Gapless(ret) /\ \A i \in 1 .. Len(mod) : Precedes(mod[i], ret)
  BY <1>2, <1>13 DEF Ordered
<1>22. Settled'
  <2>1. CASE ~kept
    BY <1>7, <1>13, <2>1, SettledStays
  <2>2. CASE kept
    <3>1. PICK S : mod \in Seq(S)
      BY <1>1 DEF Typed
    <3>2. PICK n \in Nat : n = Len(mod)
      BY <3>1
    <3>3. Len(mod') = n + 1 /\ mod'[n + 1] = ret /\ \A i \in 1 .. n : mod'[i] = mod[i]
      BY <1>7, <2>2, <3>1, <3>2
    <3>4. \A t : Gapless(t) => Gapless(t)'
      BY <1>13 DEF Gapless
    <3>5. ASSUME NEW i \in 1 .. n + 1 PROVE Gapless(mod'[i])
      <4>1. CASE i \in 1 .. n
        BY <1>13, <3>2, <3>3, <4>1 DEF Settled
      <4>2. CASE i = n + 1
        BY <1>21, <3>3, <4>2
      <4> QED
        BY <3>2, <4>1, <4>2
    <3>6. ASSUME NEW i \in 1 .. n + 1, NEW j \in 1 .. n + 1, i < j
          PROVE  Precedes(mod'[i], mod'[j])
      <4>0. i \in 1 .. n
        BY <3>2, <3>6
      <4>1. CASE j \in 1 .. n
        BY <1>13, <3>2, <3>3, <3>6, <4>0, <4>1 DEF Settled
      <4>2. CASE j = n + 1
        BY <1>21, <3>2, <3>3, <4>0, <4>2
      <4> QED
        BY <3>2, <4>1, <4>2
    <3>7. \A i \in 1 .. Len(mod') : Gapless(mod[i])'
      BY <3>3, <3>5, <1>13 DEF Gapless
    <3>8. \A i, j \in 1 .. Len(mod') : i < j => Precedes(mod[i], mod[j])'
      BY <3>3, <3>6 DEF Precedes
    <3> QED
      BY <3>7, <3>8 DEF Settled
  <2> QED
    BY <2>1, <2>2
<1>23. Ordered'
  <2>1. pos \in Nat /\ pos' = pos
    BY <1>1, <1>3 DEF Typed
  <2>2. \A i \in 1 .. Len(mod') : \A k \in mod'[i].reads : k <= Begin'
    <3>1. \A k \in ret.reads : k \in 1 .. pos
      BY <1>13 DEF Covered
    <3>2. \A i \in 1 .. Len(mod') : \A k \in mod'[i].reads : k \in 1 .. pos
      BY <1>9, <1>19, <3>1
    <3> QED
      BY <1>18, <2>1, <3>2
  <2>3. Gapless(ret)' /\ \A i \in 1 .. Len(mod') : Precedes(mod[i], ret)'
    BY <1>16 DEF Gapless, Precedes
  <2>4. \A i \in 2 .. m : i \in 1 .. m
    BY <1>10
  <2>5. \A k : k \notin ret'.reads /\ \A i \in 2 .. m : ~Holds(stack'[i], k)
    BY <1>16, <1>17, <2>4
  <2>6. \A k : ~(k \in ret'.reads \/ \E i \in 2 .. Len(stack') : Holds(stack'[i], k))
    BY <1>10, <2>5
  <2>7. ~(Len(stack') >= 3)
    BY <1>10
  <2> QED
    BY <2>2, <2>3, <2>6, <2>7 DEF Ordered, Holds
<1> QED
  BY <1>11, <1>12, <1>20, <1>22, <1>23 DEF IInv

(* A program whose memory is at fault may end at once. *)
LEMMA AbortStep ==
    ASSUME IInv, Abort
    PROVE  IInv'
<1>1. stack' = <<>> /\ ret' = Aborted /\ UNCHANGED <<toks, pos, errors, mod, memory, bails>>
  BY DEF Abort
<1>2. Typed'
  <2>1. Halted'
    BY <1>1 DEF Halted
  <2> QED
    BY <1>1, <2>1 DEF IInv, Typed, memory
<1>3. Len(stack') = 0 /\ stack' \in Seq({})
  BY <1>1
<1>4. Stacked'
  BY <1>3 DEF Stacked
<1>5. Settled'
  <2>1. Dropped' = Dropped
    BY <1>1 DEF Dropped
  <2> QED
    BY <1>1, <2>1, SettledStays DEF IInv
<1> QED
  BY <1>1, <1>2, <1>4, <1>5 DEF IInv

-----------------------------------------------------------------------------
(* At the start nothing has been read. *)
Begun == /\ toks \in Seq(STRING) /\ pos = 0 /\ errors = 0
         /\ stack = <<Frame("parse")>> /\ ret = Entered
         /\ mod = <<>> /\ faults \subseteq FaultKinds /\ bails = {}

LEMMA BegunInv == Begun => IInv
<1> SUFFICES ASSUME Begun PROVE IInv
  OBVIOUS
<1>1. stack = <<Frame("parse")>> /\ ret = Entered /\ mod = <<>> /\ pos = 0 /\ errors = 0 /\ bails = {}
  BY DEF Begun
<1>2. toks \in Seq(STRING)
  BY DEF Begun
<1>3. Len(toks) \in Nat
  BY <1>2
<1>4. Typed
  <2>1. mod \in Seq({})
    BY <1>1
  <2> QED
    BY <1>1, <1>2, <1>3, <2>1 DEF Begun, Typed
<1>5. /\ Len(stack) = 1 /\ stack[1] = Frame("parse") /\ stack \in Seq({Frame("parse")})
      /\ Top = stack[1]
  BY <1>1 DEF Top
<1>6. Frame("parse").do = "parse" /\ Blank(Frame("parse"))
  BY EnteredHoldsNothing DEF Frame, Blank, Holds
<1>7. Placed(stack[1], 1, errors, pos)
  <2>1. "parse" \in FrameKinds
    BY DEF FrameKinds
  <2>2. IsTree(NULL)
    BY DEF IsTree, NULL
  <2> QED
    BY <1>1, <1>5, <2>1, <2>2, EnteredHoldsNothing
       DEF Frame, Placed, Shaped, NoOwn, HasLeft, HasKids
<1>8. \A i \in 1 .. Len(stack) : i = 1
  BY <1>5
<1>9. Stacked
  BY <1>5, <1>6, <1>7, <1>8 DEF Stacked, Starts
<1>10. \A k : ~Held(Len(stack), k)
  BY <1>1, <1>5, <1>6, <1>8 DEF Held, Blank
<1>11. Dropped = {}
  BY <1>1 DEF Dropped
<1>12. Covered
  <2>1. Since = 0
    BY <1>1 DEF Since
  <2> QED
    BY <1>1, <1>5, <1>6, <1>8, <1>10, <1>11, <2>1, EnteredHoldsNothing DEF Covered, Lists, Shared
<1>13. Len(mod) = 0
  BY <1>1
<1>14. Settled
  BY <1>13 DEF Settled
<1>15. Ordered
  <2>1. Gapless(ret)
    BY <1>1, EnteredHoldsNothing DEF Gapless
  <2> QED
    BY <1>5, <1>13, <2>1 DEF Ordered
<1> QED
  BY <1>4, <1>9, <1>12, <1>14, <1>15 DEF IInv

LEMMA InitInv == Init => IInv
BY BegunInv, TextsAssumption DEF Init, Begun

(* Every action of a statement, and *)
LEMMA StatementKeeps == IInv /\ Statement => IInv'
BY ParseStep, StatementStep, StatementFailedStep, StatementParsedStep,
   FuncStep, ParamListStep, SignatureStep, BodyStep,
   ConditionStep, ConditionParsedStep, BlockFailedStep,
   WhileStep, IfStep, ElseStep, TypeStep, FieldListStep,
   DeleteStep, ReturnStep, LetStep, ImportStep,
   BlockStep, BlockStatementStep, FreeStatementsStep DEF Statement

(* every action of an expression, keeps the invariant. *)
LEMMA ExpressionKeeps == IInv /\ Expr_ => IInv'
BY ExpressionStep, PrefixStep, ParenStep, AroundStep, OperandStep, InfixStep, AsStep, ClimbOnStep,
   ArgListStep, ArgFailedStep, InitListStep, InitFailedStep, CloseListStep DEF Expr_

(* So does a step that changes nothing. *)
LEMMA Unchanged == IInv /\ UNCHANGED vars => IInv'
<1> SUFFICES ASSUME IInv, UNCHANGED vars PROVE IInv'
  OBVIOUS
<1>1. Halted => Halted'
  BY DEF Halted, vars, peek, TokenAt
<1>2. Typed'
  BY <1>1 DEF IInv, Typed, vars, memory
<1>3. Stacked'
  BY DEF IInv, Stacked, vars
<1>4. Covered => Covered'
  BY DEF Covered, vars, Held, Catches, Dropped, Shared, Running, Top, Since, Begin
<1>5. Settled'
  <2>1. Dropped' = Dropped
    BY DEF vars, Dropped
  <2> QED
    BY <2>1, SettledStays DEF IInv, vars
<1>6. Ordered => Ordered'
  BY DEF Ordered, vars, Begin, Gapless, Precedes, Dropped
<1> QED
  BY <1>2, <1>3, <1>4, <1>5, <1>6 DEF IInv, vars

(* The parts of the invariant hold in every state of the parser, whatever  *)
(* the file: Typed, Stacked and Settled, and, until a program whose memory *)
(* is at fault ends, Covered and Ordered (parser.c).                       *)
THEOREM Invariant == Spec => []IInv
<1>1. IInv /\ [Next]_vars => IInv'
  BY StatementKeeps, ExpressionKeeps, AbortStep, Unchanged DEF Next, Ended
<1> QED
  BY InitInv, <1>1, PTL DEF Spec

(* What TypeOK says of a frame. *)
LEMMA PlacedFits ==
    ASSUME errors \in Nat, pos \in Nat, NEW f, NEW i, Placed(f, i, errors, pos)
    PROVE  f.do \in FrameKinds /\ f.errs \in 0 .. errors /\ f.start \in 0 .. pos
<1>1. Shaped(f) /\ f.errs <= errors /\ f.start <= pos
  BY DEF Placed
<1>2. f.do \in FrameKinds /\ f.errs \in Nat /\ f.start \in Nat
  BY <1>1 DEF Shaped
<1>3. f.errs \in 0 .. errors /\ f.start \in 0 .. pos
  BY <1>1, <1>2
<1> QED
  BY <1>2, <1>3

(* Nothing is read past the end of the file, and every frame is that of a  *)
(* function that began before, with no more errors (parser.c:188-229).     *)
THEOREM TypeCorrect == Spec => []TypeOK
<1>1. IInv => TypeOK
  <2> SUFFICES ASSUME IInv PROVE TypeOK
    OBVIOUS
  <2>1. Typed /\ Stacked
    BY DEF IInv
  <2>2. DOMAIN stack = 1 .. Len(stack)
    BY <2>1 DEF Stacked
  <2>3. errors \in Nat /\ pos \in Nat
    BY <2>1 DEF Typed
  <2>4. \A i \in DOMAIN stack : Placed(stack[i], i, errors, pos)
    BY <2>1, <2>2 DEF Stacked
  <2>5. ASSUME NEW i \in DOMAIN stack
        PROVE  /\ stack[i].do \in FrameKinds
               /\ stack[i].errs \in 0 .. errors
               /\ stack[i].start \in 0 .. pos
    <3>1. Placed(stack[i], i, errors, pos)
      BY <2>4, <2>5
    <3> HIDE <2>4
    <3> QED
      BY <2>3, <3>1, PlacedFits
  <2> QED
    BY <2>1, <2>5 DEF Typed, TypeOK
<1> QED
  BY Invariant, <1>1, PTL

(* What the invariant says of the tokens between statements. *)
LEMMA InvNothingLost == IInv => NothingLost
<1> SUFFICES ASSUME IInv, BetweenStatements, errors = 0
             PROVE  Kept = (1 .. pos) \ Dropped
  BY DEF NothingLost
<1>1. Covered /\ Stacked /\ Typed /\ Len(stack) <= 1
  BY DEF IInv, BetweenStatements
<1>2. ret.kind # "NULL" /\ Since = 0
  BY <1>1 DEF Covered, Stacked, Since
<1>3. \A k : \A j \in 1 .. Len(stack) : ~Holds(stack[j], k)
  <2>1. ASSUME NEW j \in 1 .. Len(stack) PROVE \A k : ~Holds(stack[j], k)
    <3>1. j = 1
      BY <1>1 DEF Stacked
    <3>2. Shaped(stack[j]) /\ stack[j].do = "parse"
      BY <1>1, <3>1 DEF Stacked, Placed
    <3> QED
      BY <3>2 DEF Shaped, NoOwn, HasLeft, HasKids, Holds
  <2> QED
    BY <2>1
<1>4. DOMAIN mod = 1 .. Len(mod)
  BY <1>1 DEF Typed
<1>5. \A k : k \in Kept <=> Held(Len(stack), k) \/ k \in ret.reads
  <2>1. \A k : k \in Kept <=> (\E i \in 1 .. Len(mod) : k \in mod[i].reads) \/ k \in ret.reads
    <3>1. PICK read : read = UNION {mod[i].reads : i \in DOMAIN mod}
      OBVIOUS
    <3>2. \A k : k \in read <=> \E i \in DOMAIN mod : k \in mod[i].reads
      BY <3>1
    <3>3. Kept = read \cup ret.reads
      BY <3>1 DEF Kept
    <3> QED
      BY <1>4, <3>2, <3>3
  <2>2. \A k : Held(Len(stack), k) <=> \E i \in 1 .. Len(mod) : k \in mod[i].reads
    BY <1>3 DEF Held
  <2> QED
    BY <2>1, <2>2
<1> QED
  BY <1>1, <1>2, <1>5 DEF Covered

(* Whatever the file, a token that was read is part of a statement of the  *)
(* module or of a list that was given up, as long as no error has been     *)
(* left (parser.c:154-182, 202-229, 596-656).                              *)
THEOREM AlwaysNothingLost == Spec => []NothingLost
BY Invariant, InvNothingLost, PTL

(* What the invariant says of the statements of the module. *)
LEMMA InvWhole == IInv => Whole
<1> SUFFICES ASSUME IInv PROVE Whole
  OBVIOUS
<1>1. Settled /\ Typed
  BY DEF IInv
<1>2. DOMAIN mod = 1 .. Len(mod) /\ pos \in Nat
  BY <1>1 DEF Typed
<1>3. ASSUME NEW i \in DOMAIN mod, NEW k \in Inside(mod[i])
      PROVE  k \in mod[i].reads \cup Dropped
  <2>1. PICK p \in mod[i].reads, q \in mod[i].reads : p < k /\ k < q
    BY DEF Inside
  <2>2. k \in Nat
    BY <1>2 DEF Inside
  <2>3. Gapless(mod[i])
    BY <1>1, <1>2 DEF Settled
  <2> QED
    BY <2>1, <2>2, <2>3 DEF Gapless
<1>4. \A i, j \in DOMAIN mod : i < j => Precedes(mod[i], mod[j])
  BY <1>1, <1>2 DEF Settled
<1> QED
  BY <1>3, <1>4 DEF Whole, Precedes

(* Whatever the file and its errors, a statement is kept whole or dropped  *)
(* whole: nothing is missing between its first token and its last but      *)
(* lists that were given up, no token belongs to two statements, and they  *)
(* are in the order of their tokens (parser.c:188-229, 482-505, 658-668,   *)
(* 924-957).                                                               *)
THEOREM AlwaysWhole == Spec => []Whole
BY Invariant, InvWhole, PTL

-----------------------------------------------------------------------------
(* The driver: what the map of modules leads to. *)
ModsOK ==
    /\ DOMAIN mods = 1 .. Len(mods)
    /\ Len(mods) \in Nat
    /\ \A k \in DOMAIN mods : {"path", "stmts", "given_up"} \subseteq DOMAIN mods[k]
    /\ \E S : mods \in Seq(S)

LastAt(p, n) == /\ n \in 1 .. Len(mods)
              /\ mods[n].path = p
              /\ \A k \in n + 1 .. Len(mods) : mods[k].path # p

Indexed ==
    \A p \in Paths :
        \/ mod_paths[p] = 0 /\ \A k \in DOMAIN mods : mods[k].path # p
        \/ LastAt(p, mod_paths[p])

DriverIInv == ModsOK /\ DOMAIN mod_paths = Paths /\ Indexed

LEMMA InitIndexed == DriverInit => DriverIInv
<1> SUFFICES ASSUME DriverInit PROVE DriverIInv
  OBVIOUS
<1>1. mods = <<>> /\ mod_paths = [p \in Paths |-> 0]
  BY DEF DriverInit
<1>2. mods \in Seq({}) /\ DOMAIN mods = {} /\ Len(mods) = 0
  BY <1>1
<1> QED
  BY <1>1, <1>2 DEF DriverIInv, ModsOK, Indexed

LEMMA IndexedAddMod ==
    ASSUME DriverIInv, NEW m, {"path", "stmts", "given_up"} \subseteq DOMAIN m, mod_add_mod(m)
    PROVE  DriverIInv'
<1>1. PICK S : mods \in Seq(S)
  BY DEF DriverIInv, ModsOK
<1>2. mods \in Seq(S \cup {m}) /\ m \in S \cup {m}
  BY <1>1
<1>3. /\ mods' \in Seq(S \cup {m})
      /\ Len(mods') = Len(mods) + 1
      /\ DOMAIN mods' = 1 .. Len(mods) + 1
      /\ mods'[Len(mods) + 1] = m
      /\ \A k \in 1 .. Len(mods) : mods'[k] = mods[k]
  BY <1>2 DEF mod_add_mod
<1>4. /\ mod_paths' = [mod_paths EXCEPT ![m.path] = Len(mods) + 1]
      /\ DOMAIN mods = 1 .. Len(mods) /\ Len(mods) \in Nat
      /\ DOMAIN mod_paths = Paths
  BY DEF mod_add_mod, DriverIInv, ModsOK
<1>5. ModsOK'
  BY <1>3, <1>4 DEF DriverIInv, ModsOK
<1>6. ASSUME NEW p \in Paths
      PROVE  \/ mod_paths'[p] = 0 /\ \A k \in DOMAIN mods' : mods'[k].path # p
             \/ LastAt(p, mod_paths[p])'
  <2>1. CASE p = m.path
    BY <1>3, <1>4, <2>1 DEF LastAt
  <2>2. CASE p # m.path
    BY <1>3, <1>4, <2>2 DEF LastAt, DriverIInv, Indexed
  <2> QED
    BY <2>1, <2>2
<1>7. Paths' = Paths /\ DOMAIN mod_paths' = Paths
  BY <1>4 DEF Paths
<1> QED
  BY <1>5, <1>6, <1>7 DEF DriverIInv, Indexed

LEMMA IndexedSame ==
    ASSUME DriverIInv, UNCHANGED <<mods, mod_paths>>
    PROVE  DriverIInv'
BY DEF DriverIInv, ModsOK, Indexed, LastAt, Paths

LEMMA FunctionIsSeq ==
    ASSUME NEW S, NEW n \in Nat, NEW f \in [1 .. n -> S]
    PROVE  f \in Seq(S) /\ Len(f) = n
OBVIOUS

LEMMA IndexedFreeMap ==
    ASSUME DriverIInv, mod_free_map
    PROVE  DriverIInv'
<1>1. /\ mods' = [k \in DOMAIN mods |-> [mods[k] EXCEPT !.heap = {}]]
      /\ mod_paths' = mod_paths
      /\ DOMAIN mods = 1 .. Len(mods) /\ Len(mods) \in Nat
      /\ \A k \in DOMAIN mods : {"path", "stmts", "given_up"} \subseteq DOMAIN mods[k]
  BY DEF mod_free_map, DriverIInv, ModsOK
<1>2. /\ DOMAIN mods' = 1 .. Len(mods)
      /\ \A k \in 1 .. Len(mods) : /\ {"path", "stmts", "given_up"} \subseteq DOMAIN mods'[k]
                                   /\ mods'[k].path = mods[k].path
  BY <1>1
<1>3. mods' \in Seq({[mods[k] EXCEPT !.heap = {}] : k \in DOMAIN mods}) /\ Len(mods') = Len(mods)
  <2>1. mods' \in [1 .. Len(mods) -> {[mods[k] EXCEPT !.heap = {}] : k \in DOMAIN mods}]
    BY <1>1
  <2> QED
    BY <1>1, <2>1, FunctionIsSeq
<1>4. ModsOK'
  BY <1>1, <1>2, <1>3 DEF ModsOK
<1>5. Indexed'
  BY <1>1, <1>2, <1>3 DEF DriverIInv, Indexed, LastAt, Paths
<1> QED
  BY <1>1, <1>4, <1>5 DEF DriverIInv, Paths

LEMMA StepIndexed == DriverIInv /\ [DriverNext]_all => DriverIInv'
<1> SUFFICES ASSUME DriverIInv, [DriverNext]_all PROVE DriverIInv'
  OBVIOUS
<1>1. CASE file_parsed
  BY <1>1, IndexedAddMod DEF file_parsed
<1>2. CASE mod_free_map
  BY <1>2, IndexedFreeMap
<1>3. CASE UNCHANGED <<mods, mod_paths>>
  BY <1>3, IndexedSame
<1>4. DriverNext \/ UNCHANGED all => file_parsed \/ mod_free_map \/ UNCHANGED <<mods, mod_paths>>
  BY DEF DriverNext, all, driving, main_no_input, main_begin, reader_add_std_lib, std_lib_added,
         reader_add_all, all_added, parser_create, Parses, typecheck_check, typecheck_free_tc,
         main_returns, main_aborts
<1> QED
  BY <1>1, <1>2, <1>3, <1>4

LEMMA IndexedLookup == DriverIInv => Lookup
<1> SUFFICES ASSUME DriverIInv, NEW p \in Paths
             PROVE  LET found == {k \in DOMAIN mods : mods[k].path = p}
                    IN  IF found = {} THEN mod_get_mod_idx(p) < 0
                        ELSE /\ mod_get_mod_idx(p) + 1 \in found
                             /\ \A k \in found : k <= mod_get_mod_idx(p) + 1
  BY DEF Lookup
<1>1. DOMAIN mods = 1 .. Len(mods) /\ Len(mods) \in Nat
  BY DEF DriverIInv, ModsOK
<1>2. CASE mod_paths[p] = 0 /\ \A k \in DOMAIN mods : mods[k].path # p
  BY <1>2 DEF mod_get_mod_idx
<1>3. CASE LastAt(p, mod_paths[p])
  BY <1>1, <1>3 DEF LastAt, mod_get_mod_idx
<1> QED
  BY <1>2, <1>3 DEF DriverIInv, Indexed

(* A path leads to the module parsed last from a file of that path, and to *)
(* none before there is one, for every library and command line            *)
(* (mod.c:113-136).                                                        *)
THEOREM AlwaysLookup == DriverSpec => []Lookup
<1>1. DriverInit /\ [][DriverNext]_all => []DriverIInv
  BY InitIndexed, StepIndexed, PTL
<1> QED
  BY <1>1, IndexedLookup, PTL DEF DriverSpec

-----------------------------------------------------------------------------
(* The driver: that nothing is lost without an error. *)

(* A file ends where its text does. *)
Ending(f) == /\ "text" \in DOMAIN f
             /\ f.text \in Seq(STRING)
             /\ \A i \in 1 .. Len(f.text) : f.text[i] # "EOF"

Listed(fs) == /\ \E S : fs \in Seq(S)
              /\ \A k \in 1 .. Len(fs) : Ending(fs[k])

(* All the tokens of the k-th file are in its module, or in lists that     *)
(* were given up.                                                          *)
AllKept(k) ==
    UNION {mods[k].stmts[i].reads : i \in DOMAIN mods[k].stmts}
        = (1 .. Len(files[k].text)) \ UNION {b[1] + 1 .. b[2] : b \in mods[k].given_up}

BeforeParsing == {"start", "stdlib", "files"}
AfterParsing == {"free", "free modules", "return"}

(* How far main has come: with the files, *)
FilesRead ==
    /\ Listed(stdlib) /\ Listed(args) /\ Listed(files)
    /\ phase = "start" => files = <<>>
    /\ phase = "stdlib" => Len(files) <= Len(stdlib)
    /\ phase = "files" => Len(stdlib) <= Len(files) /\ Len(files) <= Len(stdlib) + Len(args)
    /\ phase \in {"parse"} \cup AfterParsing => Len(files) = Len(stdlib) + Len(args)

(* and with the modules. *)
ModsParsed ==
    /\ phase \in BeforeParsing => stack = <<>> /\ ret = Idle /\ mods = <<>>
    /\ phase = "parse" => Len(mods) <= Len(files)
    /\ phase = "parse" /\ (Running \/ ret = Returned) =>
           Len(mods) < Len(files) /\ toks = files[Len(mods) + 1].text
    /\ phase \in AfterParsing => Len(mods) = Len(files)

Counted ==
    /\ total \in Nat
    /\ total = 0 => \A k \in 1 .. Len(mods) : k <= Len(files) /\ AllKept(k)

Progress == ModsOK /\ IInv /\ FilesRead /\ ModsParsed /\ Counted /\ Success

-----------------------------------------------------------------------------
LEMMA RecordsEnd ==
    ASSUME NEW fs \in Libraries \cup Commands
    PROVE  Listed(fs)
<1>1. fs \in Seq(SourceFiles)
  BY FilesAssumption
<1>2. ASSUME NEW k \in 1 .. Len(fs) PROVE Ending(fs[k])
  <2>1. fs[k] \in SourceFiles
    BY <1>1
  <2>2. /\ "text" \in DOMAIN fs[k]
        /\ fs[k].text \in Seq(STRING \ {"EOF"})
    BY <2>1 DEF SourceFiles
  <2> QED
    BY <2>2 DEF Ending
<1> QED
  BY <1>1, <1>2 DEF Listed

LEMMA ListedAppend ==
    ASSUME NEW fs, Listed(fs), NEW f, Ending(f)
    PROVE  /\ Listed(Append(fs, f)) /\ Len(Append(fs, f)) = Len(fs) + 1 /\ Len(fs) \in Nat
<1>1. PICK S : fs \in Seq(S)
  BY DEF Listed
<1>2. fs \in Seq(S \cup {f}) /\ f \in S \cup {f}
  BY <1>1
<1>3. PICK n \in Nat : n = Len(fs)
  BY <1>1
<1>4. /\ Append(fs, f) \in Seq(S \cup {f}) /\ Len(Append(fs, f)) = n + 1
      /\ \A k \in 1 .. n : Append(fs, f)[k] = fs[k]
      /\ Append(fs, f)[n + 1] = f
  BY <1>2, <1>3
<1>5. \A k \in 1 .. n + 1 : k \in 1 .. n \/ k = n + 1
  BY <1>3
<1>6. \A k \in 1 .. n + 1 : Ending(Append(fs, f)[k])
  BY <1>3, <1>4, <1>5 DEF Listed
<1> QED
  BY <1>3, <1>4, <1>6 DEF Listed

LEMMA ListedAt ==
    ASSUME NEW fs, Listed(fs)
    PROVE  Len(fs) \in Nat /\ \A k \in 1 .. Len(fs) : Ending(fs[k])
<1>1. PICK S : fs \in Seq(S)
  BY DEF Listed
<1>2. Len(fs) \in Nat
  BY <1>1, LenProperties
<1> QED
  BY <1>2 DEF Listed

(* The tokens of the file stay the same while it is parsed. *)
LEMMA StatementFile == Statement => Running /\ toks' = toks
BY DEF Statement, Runs, Returns, parser_parse, parser_statement, statement_failed, statement_parsed,
       parser_parse_func_def, parser_parse_param_list, func_signature, func_body,
       parser_parse_condition, condition_parsed, block_failed, while_parsed, if_parsed, else_parsed,
       parser_parse_type_stmt, parser_parse_field_list, parser_parse_delete_stmt,
       parser_parse_return_stmt, parser_parse_let_stmt, parser_parse_import_stmt,
       parser_parse_block, block_statement, parser_free_statements

LEMMA ExpressionFile == Expr_ => Running /\ toks' = toks
BY DEF Expr_, Runs, Returns, parser_expression, parser_prefix, paren_parsed, around_parsed,
       operand_done, parser_infix, infix_as, climb_on, parser_parse_arg_list, arg_failed,
       parser_parse_init_list, init_failed, close_list, parser_next_higher_precedence, Bail

LEMMA ReturnedIsNoTree ==
    /\ ~IsTree(Returned) /\ Returned # Entered /\ Returned # Idle /\ Idle # Entered /\ ~IsTree(Idle)
    /\ Returned.reads = {} /\ Returned.kind = "returned" /\ Idle.reads = {} /\ Idle.kind = "idle"
    /\ Returned # Aborted /\ Idle # Aborted
BY DEF IsTree, Returned, Entered, Idle, Aborted, NULL

(* A file that is parsed without an error is complete. *)
LEMMA FileComplete ==
    ASSUME IInv, ret = Returned, errors = 0, NEW f, Ending(f), toks = f.text
    PROVE  UNION {mod[i].reads : i \in DOMAIN mod} = (1 .. Len(toks)) \ Dropped
<1>1. Halted /\ Typed
  BY ReturnedIsNoTree DEF IInv, Typed
<1>2. stack = <<>> /\ peek = "EOF"
  BY <1>1, ReturnedIsNoTree DEF Halted
<1>3. pos = Len(toks)
  <2>1. pos \in 0 .. Len(toks) /\ Len(toks) \in Nat
    BY <1>1 DEF Typed
  <2>2. ~(pos + 1 <= Len(toks))
    <3>1. SUFFICES ASSUME pos + 1 <= Len(toks) PROVE FALSE
      OBVIOUS
    <3>2. PICK i : i = pos + 1
      OBVIOUS
    <3>3. i \in 1 .. Len(toks)
      BY <2>1, <3>1, <3>2
    <3>4. toks[i] = "EOF"
      BY <1>2, <3>1, <3>2 DEF peek, TokenAt
    <3> QED
      BY <3>3, <3>4 DEF Ending
  <2> QED
    BY <2>1, <2>2
<1>4. BetweenStatements
  BY <1>2, ReturnedIsNoTree DEF BetweenStatements
<1>5. Kept = (1 .. pos) \ Dropped
  BY <1>4, InvNothingLost DEF NothingLost
<1> QED
  BY <1>3, <1>5, ReturnedIsNoTree DEF Kept

LEMMA BegunNext == Begun' => IInv'
<1>1. Begun => IInv
  BY BegunInv
<1> QED
  BY <1>1, PTL

(* The parser before the first file, and *)
LEMMA IdleInv ==
    ASSUME toks = <<>>, pos = 0, errors = 0, stack = <<>>, ret = Idle, mod = <<>>,
           faults = {}, bails = {}
    PROVE  IInv
<1>1. Halted
  BY DEF Halted
<1>2. toks \in Seq(STRING) /\ Len(toks) = 0 /\ Len(stack) = 0 /\ stack \in Seq({}) /\ mod \in Seq({})
      /\ Len(mod) = 0
  OBVIOUS
<1>3. Typed
  BY <1>1, <1>2 DEF Typed
<1>4. Stacked
  BY <1>2 DEF Stacked
<1>5. Dropped = {} /\ \A k : ~Held(Len(stack), k)
  BY <1>2 DEF Dropped, Held
<1>6. Covered
  <2>1. Since = 0
    BY DEF Since
  <2> QED
    BY <1>2, <1>5, <2>1, ReturnedIsNoTree DEF Covered, Running
<1>7. Settled
  BY <1>2 DEF Settled
<1>8. Ordered
  <2>1. Gapless(ret)
    BY ReturnedIsNoTree DEF Gapless
  <2> QED
    BY <1>2, <2>1 DEF Ordered
<1> QED
  BY <1>3, <1>4, <1>6, <1>7, <1>8 DEF IInv

(* between files. *)
LEMMA KeepsHalted ==
    ASSUME IInv, ret = Returned, ret' = Idle,
           UNCHANGED <<toks, pos, errors, stack, mod, bails>>, faults' \subseteq FaultKinds
    PROVE  IInv'
<1>1. Typed /\ Halted
  BY ReturnedIsNoTree DEF IInv, Typed
<1>2. stack = <<>>
  BY <1>1, ReturnedIsNoTree DEF Halted
<1>3. Halted'
  BY <1>2 DEF Halted
<1>4. Typed'
  BY <1>1, <1>3 DEF Typed
<1>5. Stacked'
  BY DEF IInv, Stacked
<1>6. Covered => Covered'
  <2>1. Dropped' = Dropped /\ (\A k : Held(Len(stack), k)' <=> Held(Len(stack), k))
    BY DEF Dropped, Held
  <2>2. Len(stack) = 0 /\ Len(stack') = 0
    BY <1>2
  <2>3. Since' = Since
    BY DEF Since, Begin
  <2> QED
    BY <1>2, <2>1, <2>2, <2>3, ReturnedIsNoTree DEF Covered, Running
<1>7. Settled'
  <2>1. Dropped' = Dropped
    BY DEF Dropped
  <2> QED
    BY <2>1, SettledStays DEF IInv
<1>8. Ordered => Ordered'
  <2>1. Len(stack') = 0 /\ Len(stack) = 0 /\ Begin' = Begin /\ ret'.reads = {}
    BY <1>2, ReturnedIsNoTree DEF Begin
  <2>2. Gapless(ret)' /\ \A i \in 1 .. Len(mod') : Precedes(mod[i], ret)'
    BY <2>1 DEF Gapless, Precedes
  <2> QED
    BY <2>1, <2>2 DEF Ordered
<1> QED
  BY <1>4, <1>5, <1>6, <1>7, <1>8, ReturnedIsNoTree DEF IInv

LEMMA FaultsAlone ==
    ASSUME IInv, UNCHANGED <<toks, pos, errors, stack, ret, mod, bails>>,
           faults' \subseteq FaultKinds
    PROVE  IInv'
<1>1. Halted => Halted'
  BY DEF Halted, peek, TokenAt
<1>2. Typed'
  BY <1>1 DEF IInv, Typed
<1>3. Stacked'
  BY DEF IInv, Stacked
<1>4. Covered => Covered'
  BY DEF Covered, Held, Catches, Dropped, Shared, Running, Top, Since, Begin
<1>5. Settled'
  <2>1. Dropped' = Dropped
    BY DEF Dropped
  <2> QED
    BY <2>1, SettledStays DEF IInv
<1>6. Ordered => Ordered'
  BY DEF Ordered, Begin, Gapless, Precedes, Dropped
<1> QED
  BY <1>2, <1>3, <1>4, <1>5, <1>6 DEF IInv

(* What printing adds to the faults. *)
LEMMA CutsOnly ==
    ASSUME NEW fs, NEW f \in Cuts(fs)
    PROVE  f \subseteq {"cut"}
BY DEF Cuts

LEMMA InfoOnly ==
    ASSUME NEW stmts
    PROVE  /\ debug_info(stmts) \subseteq {"literal", "null"}
           /\ "literal" \in debug_info(stmts) => \E i \in DOMAIN stmts : stmts[i].kind = "struct"
           /\ "null" \in debug_info(stmts) => stmts # <<>> /\ HasList(stmts[1])
<1>1. PICK list : list <=> stmts # <<>> /\ HasList(stmts[1])
  OBVIOUS
<1>2. PICK struct : struct <=> \E i \in DOMAIN stmts : stmts[i].kind = "struct"
  OBVIOUS
<1>3. debug_info(stmts) = (IF struct THEN {"literal"} ELSE {}) \cup (IF list THEN {"null"} ELSE {})
  BY <1>1, <1>2 DEF debug_info
<1>4. ("literal" \in debug_info(stmts) => struct) /\ ("null" \in debug_info(stmts) => list)
  BY <1>3
<1> QED
  BY <1>1, <1>2, <1>3, <1>4

LEMMA FileFaults ==
    ASSUME file_parsed
    PROVE  faults' \subseteq faults \cup {"cut"} \cup debug_info(mod)
<1>1. PICK f \in Cuts(IF errors > 0 THEN {files[Len(mods) + 1]} ELSE {}) :
          faults' = faults \cup f \cup debug_info(mod)
  BY DEF file_parsed
<1> QED
  BY <1>1, CutsOnly

LEMMA CheckFaults ==
    ASSUME typecheck_check
    PROVE  faults' \subseteq faults \cup {"cut"}
<1>1. PICK n \in TypeErrors : \E f \in Cuts(IF n > 0 THEN {files[k] : k \in DOMAIN files} ELSE {}) :
          faults' = faults \cup f
  BY DEF typecheck_check
<1> QED
  BY <1>1, CutsOnly

-----------------------------------------------------------------------------
LEMMA InitProgress == DriverInit => Progress
<1> SUFFICES ASSUME DriverInit PROVE Progress
  OBVIOUS
<1>1. IInv
  BY IdleInv DEF DriverInit
<1>2. ModsOK
  BY InitIndexed DEF DriverIInv
<1>3. FilesRead
  <2>1. Listed(stdlib) /\ Listed(args)
    BY RecordsEnd DEF DriverInit
  <2>2. files = <<>> /\ files \in Seq({}) /\ Len(files) = 0 /\ phase = "start"
    BY DEF DriverInit
  <2> QED
    BY <2>1, <2>2 DEF FilesRead, Listed, AfterParsing
<1>4. ModsParsed
  BY DEF DriverInit, ModsParsed, AfterParsing
<1>5. Counted
  BY DEF DriverInit, Counted
<1>6. Success
  BY DEF DriverInit, Success
<1> QED
  BY <1>1, <1>2, <1>3, <1>4, <1>5, <1>6 DEF Progress

(* The exit statuses of a program that stops before it parses. *)
LEMMA Negative == (-1) % Statuses # 0 /\ (-2) % Statuses # 0
BY StatusesAssumption

LEMMA ZeroTotal ==
    ASSUME NEW n \in Nat, n < Statuses, (n % Statuses) % Statuses = 0
    PROVE  n = 0
<1>1. n % Statuses = n
  BY StatusesAssumption
<1> QED
  BY <1>1, StatusesAssumption

(* A step of main outside the loop over the files. *)
LEMMA StepRead ==
    ASSUME Progress,
           \/ main_no_input \/ main_begin \/ reader_add_std_lib \/ std_lib_added
           \/ reader_add_all \/ all_added
    PROVE  Progress'
<1>1. /\ UNCHANGED <<parsing, stdlib, args, mods, mod_paths, total>>
      /\ phase \in BeforeParsing
  BY DEF main_no_input, main_begin, reader_add_std_lib, std_lib_added, reader_add_all, all_added, BeforeParsing
<1>2. IInv'
  BY <1>1, Unchanged DEF Progress, parsing
<1>3. ModsOK'
  BY <1>1 DEF Progress, ModsOK
<1>4. mods = <<>> /\ stack = <<>> /\ ret = Idle /\ Len(mods) = 0
  BY <1>1 DEF Progress, ModsParsed
<1>5. Counted'
  BY <1>1, <1>4 DEF Progress, Counted
<1>6. /\ Listed(stdlib) /\ Listed(args) /\ Listed(files)
      /\ Len(stdlib) \in Nat /\ Len(args) \in Nat /\ Len(files) \in Nat
  BY ListedAt DEF Progress, FilesRead
<1>7. /\ phase' \in {"stdlib", "files", "parse", "exited"}
      /\ phase' = "exited" => status' # 0
      /\ phase' = "parse" => files' = files
  BY Negative DEF main_no_input, main_begin, reader_add_std_lib, std_lib_added, reader_add_all,
                  all_added, reader_add_file, Exit
<1>8. Success'
  BY <1>7 DEF Success
<1>9. ModsParsed'
  <2>1. stack' = <<>> /\ ret' = Idle /\ mods' = <<>> /\ Len(mods') = 0
    BY <1>1, <1>4 DEF parsing, vars
  <2>2. ~Running' /\ ret' # Returned
    BY <2>1, ReturnedIsNoTree DEF Running
  <2>3. phase' = "parse" => Len(mods') <= Len(files')
    BY <1>6, <1>7, <2>1
  <2> QED
    BY <1>7, <2>1, <2>2, <2>3 DEF ModsParsed, AfterParsing
<1>10. FilesRead'
  <2>0. Listed(stdlib') /\ Listed(args') /\ Len(stdlib') \in Nat
    BY <1>1, <1>6
  <2>1. CASE main_no_input \/ main_begin
    <3>1. files = <<>> /\ UNCHANGED <<stdlib, args, files>> /\ phase' \in {"stdlib", "exited"}
      BY <2>1 DEF main_no_input, main_begin, Exit, FilesRead, Progress
    <3>2. Len(files') = 0 /\ Listed(files')
      BY <1>6, <3>1
    <3>3. phase' \notin {"start", "files", "parse"} \cup AfterParsing
      BY <3>1 DEF AfterParsing
    <3>4. Len(files') <= Len(stdlib')
      BY <2>0, <3>2
    <3> QED
      BY <2>0, <3>2, <3>3, <3>4 DEF FilesRead
  <2>2. CASE std_lib_added
    BY <1>6, <2>2 DEF std_lib_added, FilesRead, Progress, AfterParsing
  <2>3. CASE all_added
    BY <1>6, <2>3 DEF all_added, unread, FilesRead, Progress, AfterParsing
  <2>4. CASE reader_add_std_lib
    <3>1. PICK k : k = Len(files) + 1
      OBVIOUS
    <3>2. PICK f : f = [stdlib[k] EXCEPT !.under = FALSE]
      OBVIOUS
    <3>3. phase = "stdlib" /\ k \in 1 .. Len(stdlib)
      BY <1>6, <2>4, <3>1 DEF reader_add_std_lib
    <3>4. Ending(stdlib[k])
      BY <1>6, <3>3, ListedAt
    <3>5. Ending(f)
      BY <3>2, <3>4 DEF Ending
    <3>6. \/ files' = Append(files, f) /\ phase' = phase
          \/ files' = files /\ phase' = "exited"
      BY <2>4, <3>1, <3>2 DEF reader_add_std_lib, reader_add_file, Exit
    <3>7. Listed(Append(files, f)) /\ Len(Append(files, f)) = k
      BY <1>6, <3>1, <3>5, ListedAppend
    <3>8. Listed(files') /\ (phase' = "exited" \/ (phase' = "stdlib" /\ Len(files') = k))
      BY <1>6, <3>3, <3>6, <3>7
    <3>9. phase' \notin {"start", "files", "parse"} \cup AfterParsing
      BY <3>8 DEF AfterParsing
    <3>10. phase' = "stdlib" => Len(files') <= Len(stdlib')
      BY <1>1, <1>6, <3>3, <3>8
    <3> QED
      BY <2>0, <3>8, <3>9, <3>10 DEF FilesRead
  <2>5. CASE reader_add_all
    <3>1. PICK k : k = Len(args) - unread + 1
      OBVIOUS
    <3>2. /\ phase = "files" /\ unread > 0 /\ Len(stdlib) <= Len(files)
          /\ Len(files) <= Len(stdlib) + Len(args)
      BY <2>5 DEF reader_add_all, FilesRead, Progress
    <3>3. /\ Len(files) + 1 <= Len(stdlib) + Len(args)
      BY <1>6, <3>2 DEF unread
    <3>4. \/ files' = Append(files, args[k]) /\ phase' = phase
          \/ files' = files /\ phase' = "exited"
      BY <2>5, <3>1 DEF reader_add_all, reader_add_file, Exit
    <3>5. phase' = "exited" => FilesRead'
      <4>1. phase' = "exited" => files' = files
        BY <3>2, <3>4
      <4> QED
        BY <1>6, <2>0, <4>1 DEF FilesRead, AfterParsing
    <3>6. ASSUME k \in 1 .. Len(args), files' = Append(files, args[k]), phase' = phase
          PROVE  FilesRead'
      <4>1. Ending(args[k])
        BY <1>6, <3>6, ListedAt
      <4>2. Listed(files') /\ Len(files') = Len(files) + 1
        BY <1>6, <3>6, <4>1, ListedAppend
      <4> QED
        BY <1>1, <1>6, <2>0, <3>2, <3>3, <3>6, <4>2 DEF FilesRead, AfterParsing
    <3>7. k \in 1 .. Len(args)
      BY <1>6, <3>1, <3>2 DEF unread
    <3> QED
      BY <3>4, <3>5, <3>6, <3>7
  <2> QED
    BY <2>1, <2>2, <2>3, <2>4, <2>5
<1> QED
  BY <1>2, <1>3, <1>5, <1>8, <1>9, <1>10 DEF Progress

(* The loop over the files. *)
LEMMA KeptStays ==
    ASSUME NEW k, AllKept(k), files' = files, mods'[k].stmts = mods[k].stmts,
           mods'[k].given_up = mods[k].given_up
    PROVE  AllKept(k)'
BY DEF AllKept

LEMMA CountedStays ==
    ASSUME Counted, files' = files, mods' = mods, total' = total
    PROVE  Counted'
<1>1. \A k : AllKept(k) => AllKept(k)'
  BY KeptStays
<1> QED
  BY <1>1 DEF Counted

LEMMA MainWaits ==
    ASSUME Progress, UNCHANGED <<stdlib, args, phase, files, mods, total, status>>
    PROVE  ModsOK' /\ FilesRead' /\ Counted' /\ Success'
<1>1. ModsOK'
  BY DEF Progress, ModsOK
<1>2. FilesRead'
  BY DEF Progress, FilesRead, Listed
<1>3. Counted'
  BY DEF Progress, Counted, AllKept
<1>4. Success'
  BY DEF Progress, Success
<1> QED
  BY <1>1, <1>2, <1>3, <1>4

LEMMA StepCreate ==
    ASSUME Progress, parser_create
    PROVE  Progress'
<1>1. /\ phase = "parse" /\ ret = Idle /\ Len(mods) < Len(files) /\ UNCHANGED driving
      /\ toks' = files[Len(mods) + 1].text
      /\ stack' = <<Frame("parse")>> /\ ret' = Entered
  BY DEF parser_create
<1>2. UNCHANGED <<stdlib, args, phase, files, mods, total, status>>
  BY <1>1 DEF driving
<1>3. Len(mods) + 1 \in 1 .. Len(files)
  BY <1>1, ListedAt DEF Progress, FilesRead, ModsOK
<1>4. toks' \in Seq(STRING)
  BY <1>1, <1>3, ListedAt DEF Progress, FilesRead, Ending
<1>5. IInv'
  <2>1. Begun'
    BY <1>4 DEF parser_create, Begun, Progress, IInv, Typed
  <2> QED
    BY <2>1, BegunNext
<1>6. ModsOK' /\ FilesRead' /\ Counted' /\ Success'
  BY <1>2, MainWaits
<1>7. ModsParsed'
  <2>1. phase' = "parse" /\ Len(mods') < Len(files') /\ toks' = files'[Len(mods') + 1].text
    BY <1>1, <1>2
  <2>2. Len(mods') <= Len(files')
    BY <1>2, <2>1 DEF Progress, ModsParsed
  <2> QED
    BY <2>1, <2>2 DEF ModsParsed, BeforeParsing, AfterParsing
<1> QED
  BY <1>5, <1>6, <1>7 DEF Progress

LEMMA StepParses ==
    ASSUME Progress, Parses
    PROVE  Progress'
<1>1. phase = "parse" /\ UNCHANGED driving /\ Running /\ toks' = toks
  BY StatementFile, ExpressionFile DEF Parses
<1>2. UNCHANGED <<stdlib, args, phase, files, mods, total, status>>
  BY <1>1 DEF driving
<1>3. IInv'
  BY StatementKeeps, ExpressionKeeps DEF Parses, Progress
<1>4. ModsOK' /\ FilesRead' /\ Counted' /\ Success'
  BY <1>2, MainWaits
<1>5. ModsParsed'
  BY <1>1, <1>2 DEF Progress, ModsParsed, BeforeParsing, AfterParsing
<1> QED
  BY <1>3, <1>4, <1>5 DEF Progress

LEMMA StepFileParsed ==
    ASSUME Progress, file_parsed
    PROVE  Progress'
<1>1. PICK m : /\ m = [path |-> files[Len(mods) + 1].path, stmts |-> mod, heap |-> live,
                       errors |-> errors, given_up |-> bails]
               /\ mods' = Append(mods, m)
  BY DEF file_parsed, mod_add_mod
<1>2. /\ phase = "parse" /\ ret = Returned /\ ret' = Idle /\ total' = total + errors
      /\ UNCHANGED <<toks, pos, errors, stack, mod, live, bails, stdlib, args, phase, files, status>>
  <2>1. phase = "parse" /\ ret = Returned /\ ret' = Idle /\ total' = total + errors
    BY DEF file_parsed
  <2>2. UNCHANGED <<toks, pos, errors, stack, mod>>
    BY DEF file_parsed
  <2>3. UNCHANGED <<live, bails, stdlib, args, phase, files, status>>
    BY DEF file_parsed
  <2> QED
    BY <2>1, <2>2, <2>3
<1>3. PICK n \in Nat : n = Len(mods)
  BY DEF Progress, ModsOK
<1>4. n < Len(files) /\ toks = files[n + 1].text /\ Len(files) \in Nat
  BY <1>2, <1>3, ListedAt DEF Progress, ModsParsed, FilesRead
<1>5. /\ DOMAIN mods' = 1 .. n + 1 /\ Len(mods') = n + 1 /\ mods'[n + 1] = m
      /\ \A k \in 1 .. n : mods'[k] = mods[k]
      /\ \E S : mods' \in Seq(S)
  <2>1. PICK S : mods \in Seq(S)
    BY DEF Progress, ModsOK
  <2>2. mods \in Seq(S \cup {m}) /\ m \in S \cup {m}
    BY <2>1
  <2>3. Append(mods, m) \in Seq(S \cup {m})
    BY <2>2
  <2> QED
    BY <1>1, <1>3, <2>2, <2>3
<1>6. ModsOK'
  <2>1. {"path", "stmts", "given_up"} \subseteq DOMAIN m
    BY <1>1
  <2>2. ASSUME NEW k \in 1 .. n + 1 PROVE {"path", "stmts", "given_up"} \subseteq DOMAIN mods'[k]
    <3>1. CASE k \in 1 .. n
      BY <1>3, <1>5, <3>1 DEF Progress, ModsOK
    <3>2. CASE k = n + 1
      BY <1>5, <2>1, <3>2
    <3>3. k \in 1 .. n \/ k = n + 1
      BY <1>3
    <3> QED
      BY <3>1, <3>2, <3>3
  <2> QED
    BY <1>3, <1>5, <2>2 DEF ModsOK
<1>7. IInv'
  <2>1. faults' \subseteq FaultKinds
    BY FileFaults, InfoOnly DEF Progress, IInv, Typed, FaultKinds
  <2> QED
    BY <1>2, <2>1, KeepsHalted DEF Progress
<1>8. FilesRead'
  BY <1>2 DEF Progress, FilesRead, Listed
<1>9. ModsParsed'
  <2>1. stack = <<>>
    BY <1>2, ReturnedIsNoTree DEF Progress, IInv, Typed, Halted
  <2>2. ~Running' /\ ret' # Returned
    BY <1>2, <2>1, ReturnedIsNoTree DEF Running
  <2>3. Len(mods') <= Len(files')
    BY <1>2, <1>3, <1>4, <1>5
  <2> QED
    BY <1>2, <2>2, <2>3 DEF ModsParsed, BeforeParsing, AfterParsing
<1>10. Counted'
  <2>1. total \in Nat /\ errors \in Nat
    BY DEF Progress, Counted, IInv, Typed
  <2>2. total' \in Nat /\ (total' = 0 => total = 0 /\ errors = 0)
    BY <1>2, <2>1
  <2>3. ASSUME total' = 0, NEW k \in 1 .. n + 1 PROVE k <= Len(files') /\ AllKept(k)'
    <3>1. total = 0 /\ errors = 0
      BY <2>2, <2>3
    <3>2. CASE k \in 1 .. n
      <4>1. mods'[k] = mods[k] /\ AllKept(k)
        BY <1>3, <1>5, <3>1, <3>2 DEF Progress, Counted
      <4>2. k <= Len(files')
        BY <1>2, <1>3, <1>4, <3>2
      <4> QED
        BY <1>2, <4>1, <4>2 DEF AllKept
    <3>3. CASE k = n + 1
      <4>1. n + 1 \in 1 .. Len(files)
        BY <1>3, <1>4
      <4>2. Ending(files[n + 1])
        BY <4>1, ListedAt DEF Progress, FilesRead
      <4>3. UNION {mod[i].reads : i \in DOMAIN mod} = (1 .. Len(toks)) \ Dropped
        BY <1>2, <1>4, <3>1, <4>2, FileComplete DEF Progress
      <4>4. m.stmts = mod /\ UNION {b[1] + 1 .. b[2] : b \in m.given_up} = Dropped
        BY <1>1 DEF Dropped
      <4>5. UNION {m.stmts[i].reads : i \in DOMAIN m.stmts}
                = (1 .. Len(files[n + 1].text)) \ UNION {b[1] + 1 .. b[2] : b \in m.given_up}
        BY <1>4, <4>3, <4>4
      <4>6. AllKept(k)'
        BY <1>2, <1>5, <3>3, <4>5 DEF AllKept
      <4> QED
        BY <1>2, <3>3, <4>1, <4>6
    <3>4. k \in 1 .. n \/ k = n + 1
      BY <1>3
    <3> QED
      BY <3>2, <3>3, <3>4
  <2> QED
    BY <1>5, <2>2, <2>3 DEF Counted
<1>11. Success'
  BY <1>2 DEF Success
<1> QED
  BY <1>6, <1>7, <1>8, <1>9, <1>10, <1>11 DEF Progress

(* After the loop. *)
LEMMA StepCheck ==
    ASSUME Progress, typecheck_check
    PROVE  Progress'
<1>1. /\ phase = "parse" /\ phase' = "free" /\ Len(mods) = Len(files)
      /\ UNCHANGED <<toks, pos, errors, stack, ret, mod, live, bails, stdlib, args, files, mods, status>>
  BY DEF typecheck_check
<1>2. PICK n \in TypeErrors : total' = total + n
  BY DEF typecheck_check
<1>3. total \in Nat /\ n \in Nat
  BY TypeErrorsAssumption DEF Progress, Counted
<1>4. IInv'
  <2>1. faults' \subseteq FaultKinds
    BY CheckFaults DEF Progress, IInv, Typed, FaultKinds
  <2> QED
    BY <1>1, <2>1, FaultsAlone DEF Progress
<1>5. ModsOK'
  BY <1>1 DEF Progress, ModsOK
<1>6. FilesRead'
  BY <1>1 DEF Progress, FilesRead, Listed, AfterParsing
<1>7. ModsParsed'
  BY <1>1 DEF ModsParsed, BeforeParsing, AfterParsing
<1>8. Counted'
  <2>1. total' \in Nat /\ (total' = 0 => total = 0)
    BY <1>2, <1>3
  <2> QED
    BY <1>1, <2>1 DEF Progress, Counted, AllKept
<1>9. Success'
  BY <1>1 DEF Success
<1> QED
  BY <1>4, <1>5, <1>6, <1>7, <1>8, <1>9 DEF Progress

LEMMA StepFreeTypes ==
    ASSUME Progress, typecheck_free_tc
    PROVE  Progress'
<1>1. /\ phase = "free" /\ phase' = "free modules" /\ faults' = faults \cup {"double"}
      /\ UNCHANGED <<toks, pos, errors, stack, ret, mod, live, bails, stdlib, args, files, mods,
                     total, status>>
  BY DEF typecheck_free_tc
<1>2. IInv'
  <2>1. faults' \subseteq FaultKinds
    BY <1>1 DEF Progress, IInv, Typed, FaultKinds
  <2> QED
    BY <1>1, <2>1, FaultsAlone DEF Progress
<1>3. ModsOK'
  BY <1>1 DEF Progress, ModsOK
<1>4. FilesRead'
  BY <1>1 DEF Progress, FilesRead, Listed, AfterParsing
<1>5. ModsParsed'
  BY <1>1 DEF Progress, ModsParsed, BeforeParsing, AfterParsing
<1>6. Counted'
  BY <1>1, CountedStays DEF Progress
<1>7. Success'
  BY <1>1 DEF Success
<1> QED
  BY <1>2, <1>3, <1>4, <1>5, <1>6, <1>7 DEF Progress

LEMMA StepFreeMap ==
    ASSUME Progress, mod_free_map
    PROVE  Progress'
<1>1. /\ phase = "free modules" /\ phase' = "return"
      /\ mods' = [k \in DOMAIN mods |-> [mods[k] EXCEPT !.heap = {}]]
      /\ UNCHANGED <<toks, pos, errors, stack, ret, mod, live, bails, stdlib, args, files, total, status>>
  BY DEF mod_free_map
<1>2. IInv'
  <2>1. PICK f \in [DOMAIN mods -> SUBSET {"double", "wild"}] :
            faults' = faults \cup {"double"} \cup UNION {f[k] : k \in DOMAIN mods}
    BY DEF mod_free_map
  <2>2. faults' \subseteq FaultKinds
    BY <2>1 DEF Progress, IInv, Typed, FaultKinds
  <2> QED
    BY <1>1, <2>2, FaultsAlone DEF Progress
<1>3. /\ DOMAIN mods = 1 .. Len(mods) /\ Len(mods) \in Nat
      /\ \A k \in DOMAIN mods : {"path", "stmts", "given_up"} \subseteq DOMAIN mods[k]
  BY DEF Progress, ModsOK
<1>4. /\ DOMAIN mods' = 1 .. Len(mods)
      /\ \A k \in 1 .. Len(mods) : /\ {"path", "stmts", "given_up"} \subseteq DOMAIN mods'[k]
                                   /\ mods'[k].stmts = mods[k].stmts
                                   /\ mods'[k].given_up = mods[k].given_up
  BY <1>1, <1>3
<1>5. mods' \in Seq({[mods[k] EXCEPT !.heap = {}] : k \in DOMAIN mods}) /\ Len(mods') = Len(mods)
  <2>1. mods' \in [1 .. Len(mods) -> {[mods[k] EXCEPT !.heap = {}] : k \in DOMAIN mods}]
    BY <1>1, <1>3
  <2> QED
    BY <1>3, <2>1, FunctionIsSeq
<1>6. ModsOK'
  BY <1>3, <1>4, <1>5 DEF ModsOK
<1>7. FilesRead'
  BY <1>1 DEF Progress, FilesRead, Listed, AfterParsing
<1>8. ModsParsed'
  BY <1>1, <1>5 DEF Progress, ModsParsed, BeforeParsing, AfterParsing
<1>9. Counted'
  <2>1. ASSUME NEW k \in 1 .. Len(mods), AllKept(k) PROVE AllKept(k)'
    BY <1>1, <1>4, <2>1, KeptStays
  <2> QED
    BY <1>1, <1>5, <2>1 DEF Progress, Counted
<1>10. Success'
  BY <1>1 DEF Success
<1> QED
  BY <1>2, <1>6, <1>7, <1>8, <1>9, <1>10 DEF Progress

LEMMA StepEnds ==
    ASSUME Progress, main_returns \/ main_aborts
    PROVE  Progress'
<1>1. /\ phase' \in {"exited", "aborted"}
      /\ UNCHANGED <<parsing, stdlib, args, files, mods, mod_paths, total>>
  BY DEF main_returns, main_aborts, Exit
<1>2. IInv'
  BY <1>1, Unchanged DEF Progress, parsing
<1>3. ModsOK'
  BY <1>1 DEF Progress, ModsOK
<1>4. FilesRead'
  BY <1>1 DEF Progress, FilesRead, Listed, AfterParsing
<1>5. ModsParsed'
  BY <1>1 DEF ModsParsed, BeforeParsing, AfterParsing
<1>6. Counted'
  BY <1>1, CountedStays DEF Progress
<1>7. Success'
  <2>1. CASE main_aborts
    BY <2>1 DEF main_aborts, Success
  <2>2. CASE main_returns
    <3>1. phase = "return" /\ status' = (total % Statuses) % Statuses
      BY <2>2 DEF main_returns, Exit
    <3>2. SUFFICES ASSUME status' = 0, total < Statuses
                   PROVE  /\ Len(mods) = Len(stdlib) + Len(args)
                          /\ \A k \in DOMAIN mods : AllKept(k)
      BY <1>1 DEF Success, AllKept
    <3>3. total = 0
      BY <3>1, <3>2, ZeroTotal DEF Progress, Counted
    <3>4. Len(mods) = Len(stdlib) + Len(args)
      BY <3>1 DEF Progress, FilesRead, ModsParsed, AfterParsing
    <3>5. DOMAIN mods = 1 .. Len(mods)
      BY DEF Progress, ModsOK
    <3> QED
      BY <3>3, <3>4, <3>5 DEF Progress, Counted
  <2> QED
    BY <2>1, <2>2
<1> QED
  BY <1>2, <1>3, <1>4, <1>5, <1>6, <1>7 DEF Progress

LEMMA StepProgress == Progress /\ [DriverNext]_all => Progress'
<1>1. ASSUME Progress, UNCHANGED all PROVE Progress'
  <2>1. IInv'
    BY <1>1, Unchanged DEF Progress, all, parsing
  <2>2. ModsOK' /\ FilesRead' /\ Counted' /\ Success'
    BY <1>1, MainWaits DEF all, driving
  <2>3. ModsParsed'
    BY <1>1 DEF Progress, ModsParsed, all, driving, parsing, vars, Running
  <2> QED
    BY <2>1, <2>2, <2>3 DEF Progress
<1> QED
  BY <1>1, StepRead, StepCreate, StepParses, StepFileParsed, StepCheck, StepFreeTypes, StepFreeMap,
     StepEnds DEF DriverNext

(* An exit status of zero means, for every library, command line and file, *)
(* that all that was named was read, parsed and handed to the type checker *)
(* to the last token (synthium.c:32-114, reader.c:43-132).                 *)
THEOREM AlwaysSuccess == DriverSpec => []Success
<1>1. DriverInit /\ [][DriverNext]_all => []Progress
  BY InitProgress, StepProgress, PTL
<1>2. Progress => Success
  BY DEF Progress
<1> QED
  BY <1>1, <1>2, PTL DEF DriverSpec
(* Memory. *)

(* The node x is in a tree that a frame holds, that the module and the     *)
(* frames up to n hold, or that the running function and its callee have.  *)
Contains(f, x) == x \in f.left.nodes \/ \E t \in f.kids : x \in t.nodes
Contained(n, x) == \/ \E i \in 1 .. Len(mod) : x \in mod[i].nodes
                   \/ \E j \in 1 .. n : Contains(stack[j], x)
Bears(x) == Contains(Top, x) \/ x \in ret.nodes

(* A tree's nodes are its own, it frees no others, and each was read from  *)
(* some of its tokens.                                                     *)
Trees(f) == {f.left} \cup f.kids
Marks == {NULL, Entered, Returned, Aborted, Idle}

Rooted(t) ==
    /\ {"kind", "reads", "nodes", "frees"} \subseteq DOMAIN t
    /\ t.frees \subseteq t.nodes
    /\ \A x \in t.nodes : x.reads # {} /\ x.reads \subseteq t.reads
    /\ t.nodes = {} => t \in Marks

Rooting ==
    /\ \A i \in 1 .. Len(mod) : Rooted(mod[i])
    /\ \A i \in 1 .. Len(stack) : \A t \in Trees(stack[i]) : Rooted(t)
    /\ Rooted(ret)

(* Only frames of some kinds hold a tree, and what waits for an infix      *)
(* expression has its left operand in common with it.                      *)
Lefts ==
    /\ \A i \in 1 .. Len(stack) : stack[i].do \notin HasLeft => stack[i].left.nodes = {}
    /\ \A i \in 1 .. Len(stack) - 1 :
           stack[i].do = "climb" => stack[i].left.nodes \subseteq stack[i + 1].left.nodes
    /\ Running /\ Top.do = "climb" /\ ret.kind \notin {"entered", "NULL"} =>
           Top.left.nodes \subseteq ret.nodes

(* What a list that may be given up collects, and what is made for it, was *)
(* read behind its start.                                                  *)
Collecting == {"args", "inits"}
Late(x, s) == \E k \in x.reads : k > s
Within(i, m, x) == \/ \E t \in stack[i].kids : x \in t.nodes
                   \/ \E j \in i + 1 .. m : Contains(stack[j], x)
                   \/ x \in ret.nodes

Beyond ==
    \A i \in 1 .. Len(stack) : stack[i].do \in Collecting =>
        \A x : Within(i, Len(stack), x) => Late(x, stack[i].start)

(* The statements of the module are allocated.  So is all that is held, as *)
(* long as no function has failed; and then still all that lists which may *)
(* be given up leave to their callers.                                     *)
Living ==
    /\ \A x : Contained(0, x) => x \in live
    /\ ~Failed => \A x : Contained(Len(stack), x) \/ x \in ret.nodes => x \in live
    /\ \A i \in 1 .. Len(stack) : stack[i].do \in Collecting =>
           \A x : Contained(i - 1, x) \/ x \in stack[i].left.nodes => x \in live

Firm == Rooting /\ Lefts /\ Beyond /\ Living

(* While nothing goes wrong, nothing is allocated but what someone holds,  *)
(* and no tree was freed.                                                  *)
Unharmed == faults \cap {"double", "wild"} = {}
Tidy ==
    /\ Unharmed
    /\ \A x : x \in live <=> Contained(Len(stack), x) \/ x \in ret.nodes

(* There is no error, no list has been given up and no function has failed.*)
Untroubled == errors = 0 /\ bails = {} /\ ret.kind \notin {"NULL", "aborted"}

(* A step that allocates the nodes A and gives nothing up; and what was    *)
(* read from a new token, or from all those of a node that was there.      *)
Allots(A) == mod' = mod /\ live' = live \cup A /\ faults' \subseteq faults \cup {"overrun"}
Dated(x) == pos + 1 \in x.reads \/ \E y : Bears(y) /\ y.reads \subseteq x.reads

(* A list that goes on collects what is returned to it; others are empty.  *)
Keeps(f) == f.do \in Collecting =>
    /\ Top.do \in Collecting /\ f.start = Top.start
    /\ \A t \in f.kids : \A x \in t.nodes : x \in ret.nodes \/ \E u \in Top.kids : x \in u.nodes

Gathered(m, A) ==
    /\ Allots(A) /\ \A x \in A : Dated(x)
    /\ \A x : Bears(x) \/ x \in A <=>
                  x \in ret'.nodes \/ \E i \in Len(stack) .. m : Contains(stack'[i], x)
    /\ \A i \in Len(stack) .. m : stack'[i].do \notin HasLeft => stack'[i].left.nodes = {}
    /\ m >= Len(stack) => /\ ret'.kind = "entered"
                          /\ Top.left.nodes \subseteq stack'[Len(stack)].left.nodes
    /\ \A i \in Len(stack) .. m - 1 : stack'[i].do = "climb" =>
           stack'[i].left.nodes \subseteq stack'[i + 1].left.nodes
    /\ Rooted(ret') /\ \A i \in Len(stack) .. m : \A t \in Trees(stack'[i]) : Rooted(t)
    /\ \A i \in Len(stack) .. m : stack'[i].do \in Collecting =>
           \A x : Within(i, m, x)' => /\ i = Len(stack) /\ Top.do \in Collecting
                                      /\ stack'[i].start = Top.start
                                      /\ x \in ret.nodes \/ \E t \in Top.kids : x \in t.nodes

Gathers == \E m \in Nat : /\ m >= Len(stack) - 1 /\ Grown(stack', Len(stack), m)
                          /\ \E A : Gathered(m, A)

(* The frames below the running one stay where they are. *)
LEMMA StaysContained ==
    ASSUME IInv, Running, NEW m \in Nat, Grown(stack', Len(stack), m), mod' = mod
    PROVE  /\ Len(stack) \in Nat \ {0} /\ Len(stack') = m
           /\ \A i \in 1 .. Len(stack) - 1 : stack'[i] = stack[i]
           /\ \A i \in 0 .. Len(stack) - 1 : \A x : Contained(i, x)' <=> Contained(i, x)
           /\ \A x : Contained(Len(stack), x) <=> Contained(Len(stack) - 1, x) \/ Contains(Top, x)
<1>1. PICK n \in Nat \ {0} : n = Len(stack)
  BY Popped DEF IInv
<1>2. Len(stack') = m /\ \A i \in 1 .. n - 1 : stack'[i] = stack[i]
  BY <1>1 DEF Grown
<1>3. \A x : Contained(n, x) <=> Contained(n - 1, x) \/ Contains(Top, x)
  BY <1>1 DEF Contained, Top
<1>4. ASSUME NEW i \in 0 .. n - 1, NEW x PROVE Contained(i, x)' <=> Contained(i, x)
  <2>1. \A j \in 1 .. i : Contains(stack'[j], x) <=> Contains(stack[j], x)
    BY <1>1, <1>2
  <2> QED
    BY <2>1 DEF Contained, Contains
<1> QED
  BY <1>1, <1>2, <1>3, <1>4

(* What a step leaves is what was below it and what it gathers. *)
LEMMA StepContained ==
    ASSUME IInv, Running, NEW m \in Nat, m >= Len(stack) - 1,
           Grown(stack', Len(stack), m), mod' = mod
    PROVE  \A x : Contained(m, x)' <=> \/ Contained(Len(stack) - 1, x)
                                      \/ \E i \in Len(stack) .. m : Contains(stack'[i], x)
<1>1. PICK n \in Nat \ {0} : n = Len(stack)
  BY Popped DEF IInv
<1>2. Len(stack') = m /\ \A i \in 1 .. n - 1 : stack'[i] = stack[i]
  BY <1>1 DEF Grown
<1>3. \A i : i \in 1 .. m <=> i \in 1 .. n - 1 \/ i \in n .. m
  BY <1>1
<1>4. \A i \in 1 .. n - 1 : \A x : Contains(stack'[i], x) <=> Contains(stack[i], x)
  BY <1>2
<1>5. \A x : Contained(m, x)' <=> Contained(n - 1, x) \/ \E i \in n .. m : Contains(stack'[i], x)
  BY <1>2, <1>3, <1>4 DEF Contained, Contains
<1> QED
  BY <1>1, <1>5

(* Tidy, kept by a step that gathers what it has and what it allocates.    *)
LEMMA StepTidy ==
    ASSUME IInv, Tidy, Running, Gathers
    PROVE  Tidy'
<1>1. PICK m, A : m \in Nat /\ m >= Len(stack) - 1 /\ Grown(stack', Len(stack), m) /\ Gathered(m, A)
  BY DEF Gathers
<1>2. PICK n \in Nat \ {0} : n = Len(stack)
  BY Popped DEF IInv
<1>3. mod' = mod
  BY <1>1 DEF Gathered, Allots
<1>4. \A x : Contained(n, x) <=> Contained(n - 1, x) \/ Contains(Top, x)
  BY <1>1, <1>2, <1>3, StaysContained
<1>5. \A x : Contained(m, x)' <=> Contained(n - 1, x) \/ \E i \in n .. m : Contains(stack'[i], x)
  BY <1>1, <1>2, <1>3, StepContained
<1>6. Unharmed' /\ Len(stack') = m
  BY <1>1 DEF Tidy, Unharmed, Gathered, Allots, Grown
<1>7. ASSUME NEW x PROVE x \in live' <=> Contained(m, x)' \/ x \in ret'.nodes
  <2>1. x \in live' <=> x \in live \/ x \in A
    BY <1>1 DEF Gathered, Allots
  <2>2. x \in live <=> Contained(n - 1, x) \/ Bears(x)
    BY <1>2, <1>4 DEF Tidy, Bears
  <2>3. Bears(x) \/ x \in A <=> x \in ret'.nodes \/ \E i \in n .. m : Contains(stack'[i], x)
    BY <1>1, <1>2 DEF Gathered
  <2> QED
    BY <1>5, <2>1, <2>2, <2>3
<1> QED
  BY <1>6, <1>7 DEF Tidy

(* The parts of Firm, kept by it.  Lefts, *)
LEMMA StepLefts ==
    ASSUME IInv, Lefts, Running, ~Failed, NEW m \in Nat, m >= Len(stack) - 1,
           Grown(stack', Len(stack), m), NEW A, Gathered(m, A)
    PROVE  Lefts'
<1> DEFINE n == Len(stack)
<1>1. n \in Nat \ {0}
  BY Popped DEF IInv
<1>2. Len(stack') = m /\ \A i \in 1 .. n - 1 : stack'[i] = stack[i]
  BY DEF Grown
<1> HIDE DEF n
<1>7. ASSUME NEW i \in 1 .. m, stack'[i].do \notin HasLeft PROVE stack'[i].left.nodes = {}
  <2>1. CASE i < n
    BY <1>1, <1>2, <1>7, <2>1 DEF Lefts, n
  <2>2. CASE i >= n
    BY <1>1, <1>7, <2>2 DEF Gathered, n
  <2> QED
    BY <1>1, <2>1, <2>2
<1>8. ASSUME NEW i \in 1 .. m - 1, stack'[i].do = "climb"
      PROVE  stack'[i].left.nodes \subseteq stack'[i + 1].left.nodes
  <2>1. CASE i < n - 1
    <3>1. stack'[i] = stack[i] /\ stack'[i + 1] = stack[i + 1] /\ i \in 1 .. n - 1
      BY <1>1, <1>2, <2>1
    <3> QED
      BY <1>8, <3>1 DEF Lefts, n
  <2>2. CASE i = n - 1
    <3>1. stack'[i] = stack[i] /\ i + 1 = n /\ i \in 1 .. n - 1
      BY <1>1, <1>2, <2>2
    <3>2. stack[i].left.nodes \subseteq Top.left.nodes
      BY <1>8, <3>1 DEF Lefts, Top, n
    <3>3. Top.left.nodes \subseteq stack'[n].left.nodes
      BY <1>1, <2>2 DEF Gathered, n
    <3> QED
      BY <3>1, <3>2, <3>3
  <2>3. CASE i >= n
    <3>1. i \in n .. m - 1
      BY <1>1, <2>3
    <3> QED
      BY <1>8, <3>1 DEF Gathered, n
  <2> QED
    BY <1>1, <2>1, <2>2, <2>3
<1>9. ASSUME Running', Top'.do = "climb", ret'.kind # "entered"
      PROVE  Top'.left.nodes \subseteq ret'.nodes
  <2>1. m = n - 1 /\ n - 1 \in Nat
    BY <1>1, <1>9 DEF Gathered, n
  <2>2. n - 1 # 0
    <3>1. PICK S : stack' \in Seq(S)
      BY DEF Grown
    <3> QED
      BY <1>2, <1>9, <2>1, <3>1, EmptySeq DEF Running
  <2>3. Top' = stack[n - 1] /\ n - 1 \in 1 .. n - 1 /\ n - 1 + 1 = n
    BY <1>1, <1>2, <2>1, <2>2 DEF Top
  <2>4. Top'.left.nodes \subseteq Top.left.nodes
    BY <1>9, <2>3 DEF Lefts, Top, n
  <2>5. \A x : Bears(x) => x \in ret'.nodes
    BY <1>1, <2>1 DEF Gathered, n
  <2> QED
    BY <2>4, <2>5 DEF Bears, Contains
<1> QED
  BY <1>2, <1>7, <1>8, <1>9 DEF Lefts

(* Rooting, *)
LEMMA StepRooting ==
    ASSUME IInv, Rooting, Running, NEW m \in Nat, m >= Len(stack) - 1, Grown(stack', Len(stack), m),
           mod' = mod, Rooted(ret'), \A i \in Len(stack) .. m : \A t \in Trees(stack'[i]) : Rooted(t)
    PROVE  Rooting'
<1>1. PICK n \in Nat \ {0} : n = Len(stack)
  BY Popped DEF IInv
<1>2. Len(stack') = m /\ \A i \in 1 .. n - 1 : stack'[i] = stack[i]
  BY <1>1 DEF Grown
<1>3. ASSUME NEW i \in 1 .. m PROVE \A t \in Trees(stack'[i]) : Rooted(t)
  <2>1. CASE i < n
    <3>1. stack'[i] = stack[i] /\ i \in 1 .. n
      BY <1>1, <1>2, <2>1
    <3> QED
      BY <1>1, <3>1 DEF Rooting
  <2>2. CASE i >= n
    BY <1>1, <2>2
  <2> QED
    BY <1>1, <2>1, <2>2
<1>4. \A i \in 1 .. Len(mod') : Rooted(mod'[i])
  BY DEF Rooting
<1> QED
  BY <1>2, <1>3, <1>4 DEF Rooting, Rooted, Trees, Marks


(* Beyond, *)
LEMMA StepBeyond ==
    ASSUME IInv, Beyond, Running, NEW m \in Nat, m >= Len(stack) - 1,
           Grown(stack', Len(stack), m), NEW A, Gathered(m, A)
    PROVE  Beyond'
<1>1. PICK n \in Nat \ {0} : n = Len(stack)
  BY Popped DEF IInv
<1>2. Len(stack') = m /\ \A i \in 1 .. n - 1 : stack'[i] = stack[i]
  BY <1>1 DEF Grown
<1>3. \A x : Bears(x) \/ x \in A <=> x \in ret'.nodes \/ \E i \in n .. m : Contains(stack'[i], x)
  BY <1>1 DEF Gathered
<1>4. \A i \in 1 .. n : stack[i].do \in Collecting => \A x : Within(i, n, x) => Late(x, stack[i].start)
  BY <1>1 DEF Beyond
<1>5. ASSUME NEW i \in 1 .. m, stack'[i].do \in Collecting, NEW x, Within(i, m, x)'
      PROVE  Late(x, stack'[i].start)
  <2>1. CASE i < n
    <3>1. i \in 1 .. n /\ stack'[i] = stack[i] /\ stack[i].do \in Collecting
      BY <1>1, <1>2, <1>5, <2>1
    <3>2. \A y : Bears(y) => Late(y, stack[i].start)
      <4>1. \A y : Bears(y) => Within(i, n, y)
        BY <1>1, <2>1 DEF Bears, Within, Top
      <4> QED
        BY <1>4, <3>1, <4>1
    <3>3. stack[i].start \in Nat /\ stack[i].start <= pos /\ pos \in Nat
      BY <1>1, <3>1 DEF IInv, Stacked, Placed, Shaped, Typed
    <3>4. \A y \in A : Late(y, stack[i].start)
      <4>1. ASSUME NEW y \in A PROVE Late(y, stack[i].start)
        <5>1. Dated(y)
          BY DEF Gathered
        <5>2. pos + 1 > stack[i].start
          BY <3>3
        <5> QED
          BY <3>2, <5>1, <5>2 DEF Dated, Late
      <4> QED
        BY <4>1
    <3>5. \/ \E t \in stack[i].kids : x \in t.nodes
          \/ \E j \in i + 1 .. n - 1 : Contains(stack[j], x)
          \/ x \in ret'.nodes \/ \E j \in n .. m : Contains(stack'[j], x)
      <4>1. \A j \in i + 1 .. m : j \in n .. m \/ (j \in i + 1 .. n - 1 /\ stack'[j] = stack[j])
        BY <1>1, <1>2, <2>1
      <4> QED
        BY <1>5, <3>1, <4>1 DEF Within, Contains
    <3>6. Within(i, n, x) \/ Bears(x) \/ x \in A
      <4>1. \A j \in i + 1 .. n - 1 : j \in i + 1 .. n
        BY <1>1
      <4> QED
        BY <1>3, <3>5, <4>1 DEF Within
    <3> QED
      BY <1>4, <3>1, <3>2, <3>4, <3>6
  <2>2. CASE i >= n
    <3>1. i \in n .. m
      BY <1>1, <2>2
    <3>2. /\ i = n /\ Top.do \in Collecting /\ stack'[i].start = Top.start
          /\ x \in ret.nodes \/ \E t \in Top.kids : x \in t.nodes
      BY <1>1, <1>5, <3>1 DEF Gathered
    <3>3. Within(n, n, x) /\ n \in 1 .. n
      BY <1>1, <3>2 DEF Within, Top
    <3> QED
      BY <1>1, <1>4, <3>2, <3>3 DEF Top
  <2> QED
    BY <1>1, <2>1, <2>2
<1> QED
  BY <1>2, <1>5 DEF Beyond, Late

(* Living, *)
LEMMA StepLiving ==
    ASSUME IInv, Living, Running, ~Failed, NEW m \in Nat, m >= Len(stack) - 1,
           Grown(stack', Len(stack), m), NEW A, Gathered(m, A)
    PROVE  Living'
<1>1. PICK n \in Nat \ {0} : n = Len(stack)
  BY Popped DEF IInv
<1>2. Len(stack') = m /\ mod' = mod /\ live' = live \cup A
  BY DEF Grown, Gathered, Allots
<1>3. /\ \A i \in 1 .. n - 1 : stack'[i] = stack[i]
      /\ \A i \in 0 .. n - 1 : \A x : Contained(i, x)' <=> Contained(i, x)
      /\ \A x : Contained(n, x) <=> Contained(n - 1, x) \/ Contains(Top, x)
  BY <1>1, <1>2, StaysContained
<1>4. \A x : Contained(m, x)' <=> Contained(n - 1, x) \/ \E i \in n .. m : Contains(stack'[i], x)
  BY <1>1, <1>2, StepContained
<1>5. \A x : Contained(n, x) \/ x \in ret.nodes => x \in live
  BY <1>1 DEF Living
<1>6. \A x : Contained(m, x)' \/ x \in ret'.nodes => x \in live'
  <2>1. \A x : x \in ret'.nodes \/ (\E i \in n .. m : Contains(stack'[i], x)) => Bears(x) \/ x \in A
    BY <1>1 DEF Gathered
  <2>2. \A x : Bears(x) => x \in live
    BY <1>3, <1>5 DEF Bears
  <2> QED
    BY <1>2, <1>3, <1>4, <1>5, <2>1, <2>2
<1>7. \A x : Contained(0, x)' => x \in live'
  BY <1>1, <1>2, <1>3 DEF Living
<1>8. \A i \in 1 .. m : \A x : Contained(i - 1, x)' \/ x \in stack'[i].left.nodes => Contained(m, x)'
  BY DEF Contained, Contains
<1> QED
  BY <1>2, <1>6, <1>7, <1>8 DEF Living

(* and all of it. *)
LEMMA StepFirm ==
    ASSUME IInv, Firm, Running, ~Failed, Gathers
    PROVE  Firm'
<1>1. PICK m, A : m \in Nat /\ m >= Len(stack) - 1 /\ Grown(stack', Len(stack), m) /\ Gathered(m, A)
  BY DEF Gathers
<1>2. mod' = mod /\ Rooted(ret') /\ \A i \in Len(stack) .. m : \A t \in Trees(stack'[i]) : Rooted(t)
  BY <1>1 DEF Gathered, Allots
<1>3. Rooting'
  BY <1>1, <1>2, StepRooting DEF Firm
<1>4. Lefts' /\ Beyond' /\ Living'
  BY <1>1, StepLefts, StepBeyond, StepLiving DEF Firm
<1> QED
  BY <1>3, <1>4 DEF Firm

(* Steps that return a tree, *)
LEMMA ReturnsGathers ==
    ASSUME IInv, Running, NEW A, Allots(A), \A x \in A : Dated(x), NEW v, Return(v), Rooted(v),
           \A x : x \in v.nodes <=> Bears(x) \/ x \in A
    PROVE  Gathers
<1>1. Len(stack) \in Nat \ {0} /\ Grown(stack', Len(stack), Len(stack) - 1)
  BY GrowsNone DEF IInv, Return
<1>2. Gathered(Len(stack) - 1, A)
  BY <1>1 DEF Gathered, Return
<1> QED
  BY <1>1, <1>2 DEF Gathers

(* What stands for no tree. *)
LEMMA NoNodes ==
    /\ Entered.nodes = {} /\ NULL.nodes = {} /\ Entered.kind = "entered" /\ NULL.kind = "NULL"
    /\ Rooted(NULL) /\ Rooted(Entered)
BY DEF Entered, NULL, Rooted, Marks

(* that go on in the same function, *)
Follows(f) == /\ f.do \notin HasLeft => f.left.nodes = {}
              /\ Top.left.nodes \subseteq f.left.nodes
              /\ \A t \in Trees(f) : Rooted(t)

LEMMA ContinuesGathers ==
    ASSUME IInv, Running, NEW A, Allots(A), \A x \in A : Dated(x), NEW f, Continue(f), Follows(f),
           f.do \notin Collecting, \A x : Contains(f, x) <=> Bears(x) \/ x \in A
    PROVE  Gathers
<1>1. /\ Len(stack) \in Nat \ {0} /\ Grown(stack', Len(stack), Len(stack))
      /\ stack'[Len(stack)] = f
  BY GrowsNone DEF IInv, Continue
<1>2. ret' = Entered /\ ret'.kind = "entered" /\ ret'.nodes = {} /\ Rooted(ret')
  BY NoNodes DEF Continue
<1>3. Gathered(Len(stack), A)
  BY <1>1, <1>2 DEF Gathered, Follows
<1> QED
  BY <1>1, <1>3 DEF Gathers

(* and that call others, of which only the first holds anything.           *)
Bare(g) == g.left = NULL /\ g.kids = {} /\ g.do \notin Collecting

Callable(t, g) ==
    /\ \E T : t \in Seq(T)
    /\ Len(t) >= 1 /\ t[1] = g
    /\ \A i \in 2 .. Len(t) : Bare(t[i])
    /\ \A i \in 1 .. Len(t) - 1 : t[i].do # "climb"
    /\ g.do \in Collecting => Len(t) = 1 /\ g.kids = {}

LEMMA CallsGathers ==
    ASSUME IInv, Running, NEW A, Allots(A), \A x \in A : Dated(x),
           NEW f, NEW t, NEW g, Call(f, t), Callable(t, g), Follows(f), Keeps(f),
           f.do \in Collecting => Bare(g), g.do \notin HasLeft => g.left.nodes = {},
           \A u \in Trees(g) : Rooted(u), f.do = "climb" => f.left.nodes \subseteq g.left.nodes,
           \A x : Contains(f, x) \/ Contains(g, x) <=> Bears(x) \/ x \in A
    PROVE  Gathers
<1>1. PICK T : t \in Seq(T)
  BY DEF Callable
<1>2. stack' = Pushed(f, t)
  BY DEF Call, Pushed
<1>3. PICK n, m : n = Len(stack) /\ m = n + Len(t)
  OBVIOUS
<1>4. /\ n \in Nat \ {0} /\ Grown(stack', n, m) /\ stack'[n] = f
      /\ \A i \in 1 .. Len(t) : stack'[n + i] = t[i]
  BY <1>1, <1>2, <1>3, Grows DEF IInv
<1>5. Len(t) \in Nat /\ Len(t) >= 1 /\ m = n + Len(t)
  BY <1>1, <1>3 DEF Callable
<1>6. \A i \in n .. m : i = n \/ i = n + 1 \/ \E j \in 2 .. Len(t) : i = n + j
  <2>1. ASSUME NEW i \in n .. m, i # n, i # n + 1 PROVE i - n \in 2 .. Len(t) /\ i = n + (i - n)
    BY <1>4, <1>5, <2>1
  <2> QED
    BY <2>1
<1>7. n \in n .. m /\ n + 1 \in n .. m /\ stack'[n + 1] = g
  BY <1>4, <1>5 DEF Callable
<1>8. \A j \in 2 .. Len(t) : Bare(stack'[n + j]) /\ n + j \in n .. m
  BY <1>4, <1>5 DEF Callable
<1>9. ret' = Entered /\ ret'.kind = "entered" /\ ret'.nodes = {} /\ Rooted(ret')
  BY NoNodes DEF Call
<1>10. \A x : (\E i \in n .. m : Contains(stack'[i], x)) <=> Contains(f, x) \/ Contains(g, x)
  BY <1>4, <1>6, <1>7, <1>8, NoNodes DEF Bare, Contains
<1>11. \A i \in n .. m : stack'[i].do \notin HasLeft => stack'[i].left.nodes = {}
  BY <1>4, <1>6, <1>7, <1>8, NoNodes DEF Bare, Follows
<1>12. ASSUME NEW i \in n .. m - 1, stack'[i].do = "climb"
       PROVE  stack'[i].left.nodes \subseteq stack'[i + 1].left.nodes
  <2>1. i = n
    <3>1. SUFFICES ASSUME i # n PROVE FALSE
      OBVIOUS
    <3>2. i - n \in 1 .. Len(t) - 1 /\ i = n + (i - n) /\ i - n \in 1 .. Len(t)
      BY <1>4, <1>5, <3>1
    <3>3. PICK j : j = i - n
      OBVIOUS
    <3>4. stack'[i] = t[j] /\ t[j].do # "climb"
      BY <1>4, <3>2, <3>3 DEF Callable
    <3> QED
      BY <1>12, <3>4
  <2> QED
    BY <1>4, <1>7, <1>12, <2>1
<1>13. \A i \in n .. m : \A u \in Trees(stack'[i]) : Rooted(u)
  <2>1. \A j \in 2 .. Len(t) : \A u \in Trees(stack'[n + j]) : Rooted(u)
    BY <1>8, NoNodes DEF Bare, Trees
  <2>2. \A u \in Trees(f) : Rooted(u)
    BY DEF Follows
  <2> QED
    BY <1>4, <1>6, <1>7, <2>1, <2>2
<1>14. ASSUME NEW i \in n .. m, stack'[i].do \in Collecting, NEW x, Within(i, m, x)'
       PROVE  /\ i = n /\ Top.do \in Collecting /\ stack'[i].start = Top.start
              /\ x \in ret.nodes \/ \E u \in Top.kids : x \in u.nodes
  <2>1. i = n \/ (i = n + 1 /\ stack'[i] = g)
    BY <1>6, <1>7, <1>8, <1>14 DEF Bare
  <2>2. \/ \E u \in stack'[i].kids : x \in u.nodes
        \/ \E j \in i + 1 .. m : Contains(stack'[j], x)
    BY <1>9, <1>14 DEF Within, Contains
  <2>3. CASE i = n
    <3>1. f.do \in Collecting /\ stack'[i] = f
      BY <1>4, <1>14, <2>3
    <3>2. \A y : ~Contains(g, y)
      BY <3>1, NoNodes DEF Bare, Contains
    <3>3. \A j \in n + 1 .. m : ~Contains(stack'[j], x)
      <4>1. \A j \in n + 1 .. m : j \in n .. m /\ j # n
        BY <1>4
      <4>2. \A j \in 2 .. Len(t) : ~Contains(stack'[n + j], x)
        BY <1>8, NoNodes DEF Bare, Contains
      <4> QED
        BY <1>6, <1>7, <3>2, <4>1, <4>2
    <3> QED
      BY <2>2, <2>3, <3>1, <3>3 DEF Keeps
  <2>4. CASE i = n + 1 /\ stack'[i] = g
    <3>1. Len(t) = 1 /\ g.kids = {}
      BY <1>14, <2>4 DEF Callable
    <3>2. \A j : j \notin i + 1 .. m
      BY <1>4, <1>5, <2>4, <3>1
    <3> QED
      BY <2>2, <2>4, <3>1, <3>2
  <2> QED
    BY <2>1, <2>3, <2>4
<1>15. Top.left.nodes \subseteq stack'[n].left.nodes
  BY <1>4 DEF Follows
<1>16. Gathered(m, A)
  BY <1>9, <1>10, <1>11, <1>12, <1>13, <1>14, <1>15, <1>3 DEF Gathered
<1>17. m \in Nat /\ m >= n - 1
  BY <1>4, <1>5
<1> QED
  BY <1>4, <1>16, <1>17, <1>3 DEF Gathers

-----------------------------------------------------------------------------
(* What steps have in common: they allocate nothing, or the node of a tree.*)
LEMMA Quiets == mod' = mod /\ (UNCHANGED memory) => Allots({})
BY DEF Allots, memory

LEMMA News ==
    ASSUME NEW v, mod' = mod, New(v)
    PROVE  Allots({Node(v.kind, v.reads)})
BY DEF Allots, New

(* New frames hold nothing, *)
LEMMA BareFrames ==
    ASSUME NEW do, do \notin Collecting, NEW own, NEW opt, NEW g,
           \/ g = Frame(do) \/ g = [Frame(do) EXCEPT !.own = own]
           \/ g = [Frame(do) EXCEPT !.opt = opt] \/ g = [Frame(do) EXCEPT !.opt = opt, !.own = own]
    PROVE  Bare(g) /\ g.do = do /\ \A x : ~Contains(g, x)
<1> DEFINE Empty(h) == h.do = do /\ h.left = NULL /\ h.kids = {}
<1>1. Empty(g)
  <2>1. /\ Empty(Frame(do)) /\ Empty([Frame(do) EXCEPT !.own = own])
        /\ Empty([Frame(do) EXCEPT !.opt = opt])
    BY DEF Frame
  <2>2. Empty([Frame(do) EXCEPT !.opt = opt, !.own = own])
    BY DEF Frame
  <2> HIDE DEF Empty
  <2> QED
    BY <2>1, <2>2
<1> QED
  BY <1>1, NoNodes DEF Bare, Contains

LEMMA BareClimb ==
    ASSUME NEW prec, NEW ns
    PROVE  Bare(Climb(prec, ns)) /\ Climb(prec, ns).do = "climb"
BY DEF Frame, Bare, Climb, Collecting

(* whose trees are rooted.                                                 *)
LEMMA BareRooted ==
    ASSUME NEW g, Bare(g)
    PROVE  /\ \A u \in Trees(g) : Rooted(u)
           /\ g.left.nodes = {} /\ \A x : ~Contains(g, x)
BY NoNodes DEF Bare, Trees, Contains

(* These are the calls of them: of one, *)
LEMMA CallsOne ==
    ASSUME NEW g, g.do \in Collecting => g.kids = {}
    PROVE  Callable(<<g>>, g)
<1>1. PICK t, T : t = <<g>> /\ T = {g}
  OBVIOUS
<1>2. t \in Seq(T) /\ Len(t) = 1 /\ t[1] = g
  BY <1>1
<1>3. \A i : i \notin 2 .. Len(t) /\ i \notin 1 .. Len(t) - 1
  BY <1>2
<1>4. Callable(t, g)
  BY <1>2, <1>3 DEF Callable
<1> QED
  BY <1>1, <1>4

(* of two, *)
LEMMA CallsTwo ==
    ASSUME NEW g, NEW h, g.do \notin Collecting \cup {"climb"}, Bare(h)
    PROVE  Callable(<<g, h>>, g)
<1>1. PICK t, T : t = <<g, h>> /\ T = {g, h}
  OBVIOUS
<1>2. t \in Seq(T) /\ Len(t) = 2 /\ t[1] = g /\ t[2] = h
  BY <1>1
<1>3. \A i : (i \in 2 .. Len(t) => i = 2) /\ (i \in 1 .. Len(t) - 1 => i = 1)
  BY <1>2
<1>4. Callable(t, g)
  BY <1>2, <1>3 DEF Callable
<1> QED
  BY <1>1, <1>4

(* of three, as that of parser_expression behind a frame, *)
LEMMA CallsThree ==
    ASSUME NEW g, NEW h, NEW c, g.do \notin Collecting \cup {"climb"}, h.do # "climb", Bare(h), Bare(c)
    PROVE  Callable(<<g>> \o <<h, c>>, g)
<1>1. PICK t, T : t = <<g>> \o <<h, c>> /\ T = {g, h, c}
  OBVIOUS
<1>2. t \in Seq(T) /\ Len(t) = 3 /\ t[1] = g /\ t[2] = h /\ t[3] = c
  BY <1>1
<1>3. \A i : (i \in 2 .. Len(t) => i = 2 \/ i = 3) /\ (i \in 1 .. Len(t) - 1 => i = 1 \/ i = 2)
  BY <1>2
<1>4. Callable(t, g)
  BY <1>2, <1>3 DEF Callable
<1> QED
  BY <1>1, <1>4

(* and the calls of parser_expression and of its loop. *)
LEMMA CallsOperand ==
    ASSUME NEW ns, NEW prec
    PROVE  /\ \E e : Callable(Expression(ns), e) /\ Bare(e)
           /\ \A g : g.do \notin Collecting \cup {"climb"} =>
                  /\ Callable(<<g>> \o Expression(ns), g)
                  /\ Callable(<<g, Climb(prec, ns)>>, g)
<1>1. PICK e, c : e = [Frame("expression") EXCEPT !.opt = ns] /\ c = Climb(PRECEDENCE_ASSIGN, ns)
  OBVIOUS
<1>2. Expression(ns) = <<e, c>>
  BY <1>1 DEF Expression
<1>3. Bare(e) /\ e.do = "expression" /\ Bare(c) /\ Bare(Climb(prec, ns))
  BY <1>1, BareFrames, BareClimb DEF Collecting
<1>4. Callable(Expression(ns), e)
  BY <1>2, <1>3, CallsTwo DEF Collecting
<1>5. ASSUME NEW g, g.do \notin Collecting \cup {"climb"} PROVE Callable(<<g>> \o Expression(ns), g)
  BY <1>2, <1>3, <1>5, CallsThree
<1>6. ASSUME NEW g, g.do \notin Collecting \cup {"climb"} PROVE Callable(<<g, Climb(prec, ns)>>, g)
  BY <1>3, <1>6, CallsTwo
<1> QED
  BY <1>3, <1>4, <1>5, <1>6

(* What the running function bears when it was just entered or holds no    *)
(* tree, and that it is rooted.                                            *)
LEMMA TopBears ==
    ASSUME IInv, Firm, Running
    PROVE  /\ Top.do \notin HasLeft => Top.left.nodes = {}
           /\ Top.do \notin HasKids => Top.kids = {} /\ \A x : Contains(Top, x) <=> x \in Top.left.nodes
           /\ Rooted(ret) /\ \A t \in Trees(Top) : Rooted(t)
<1>1. Known /\ Len(stack) \in 1 .. Len(stack)
  BY Knows DEF Known
<1>2. Top.do \notin HasLeft => Top.left.nodes = {}
  BY <1>1 DEF Firm, Lefts, Top
<1>3. Top.do \notin HasKids => Top.kids = {}
  BY <1>1 DEF Known, Placed, Shaped
<1>4. Rooted(ret) /\ \A t \in Trees(Top) : Rooted(t)
  BY <1>1 DEF Firm, Rooting, Top
<1> QED
  BY <1>2, <1>3, <1>4 DEF Contains

(* What is returned, and what is held, has a node.                         *)
LEMMA HaveNodes ==
    ASSUME IInv, Firm, Running
    PROVE  /\ ret # Entered /\ ~Failed => ret.nodes # {}
           /\ Top.left # NULL => Top.left.nodes # {}
<1>1. IsTree(Top.left) /\ (IsTree(ret) \/ ret = Entered)
  BY Knows DEF Known, Placed, Shaped
<1>2. Rooted(ret) /\ Rooted(Top.left)
  BY TopBears DEF Trees
<1>3. \A t : IsTree(t) /\ t \in Marks => t = NULL
  BY DEF IsTree, Marks, Entered, Returned, Aborted, Idle, NULL
<1> QED
  BY <1>1, <1>2, <1>3, NoNodes DEF Rooted, Failed

(* Frames with the same trees follow each other. *)
LEMMA SameContinues ==
    ASSUME IInv, Firm, Running, ret = Entered, mod' = mod, (UNCHANGED memory) \/ Allots({}),
           NEW f, Continue(f), f.left = Top.left, f.kids = Top.kids, f.do \notin Collecting,
           Top.do \notin HasLeft
    PROVE  Gathers
<1>1. \A x : Contains(f, x) <=> Bears(x) \/ x \in {}
  BY NoNodes DEF Contains, Bears
<1>2. Follows(f)
  BY TopBears DEF Follows, Trees
<1> QED
  BY <1>1, <1>2, Quiets, ContinuesGathers

(* and so are the frames a call leaves them in. *)
LEMMA SameCalls ==
    ASSUME IInv, Firm, Running, ret = Entered, mod' = mod, UNCHANGED memory,
           NEW f, NEW t, NEW g, Call(f, t), Callable(t, g), Bare(g), f.do \notin Collecting,
           f.left = Top.left, f.kids = Top.kids, f.do = "climb" => Top.left = NULL,
           Top.do \notin HasLeft \/ f.do \in HasLeft
    PROVE  Gathers
<1>1. \A x : Contains(f, x) \/ Contains(g, x) <=> Bears(x) \/ x \in {}
  BY NoNodes, BareRooted DEF Contains, Bears
<1>2. Follows(f) /\ Keeps(f)
  BY TopBears DEF Follows, Trees, Keeps
<1>3. f.do = "climb" => f.left.nodes \subseteq g.left.nodes
  BY NoNodes
<1> QED
  BY <1>1, <1>2, <1>3, BareRooted, Quiets, CallsGathers

(* A tree's nodes are its own and those of its parts, and so are those it  *)
(* frees,                                                                  *)
Bundles(v, own, kids) ==
    /\ DOMAIN v = {"kind", "reads", "nodes", "frees", "wild"}
    /\ v.reads = own \cup UNION {u.reads : u \in kids}
    /\ \A x : x \in v.nodes <=> x = Node(v.kind, v.reads) \/ \E u \in kids : x \in u.nodes
    /\ \A x : x \in v.frees => x = Node(v.kind, v.reads) \/ \E u \in kids : x \in u.frees

(* by its constructor. *)
LEMMA TreeBundles ==
    ASSUME NEW kind, NEW own, NEW kids, NEW given, given \subseteq kids, NEW wild
    PROVE  Bundles(Tree(kind, own, kids, given, wild), own, kids)
BY DEF Bundles, Tree

(* So are those of each expression *)
LEMMA ExprBundles ==
    ASSUME NEW own, NEW a, NEW b, NEW kids
    PROVE  /\ Bundles(ast_new_access_expr(own, a, b), own, {a, b})
           /\ Bundles(ast_new_as_expr(own, a), own, {a})
           /\ Bundles(ast_new_new_expr(own, a), own, {a})
           /\ Bundles(ast_new_assign_expr(own, a, b), own, {a, b})
           /\ Bundles(ast_new_ident_expr(own), own, {})
           /\ Bundles(ast_new_int_expr(own), own, {})
           /\ Bundles(ast_new_string_expr(own), own, {})
           /\ Bundles(ast_new_char_expr(own), own, {})
           /\ Bundles(ast_new_binary_expr(own, a, b), own, {a, b})
           /\ Bundles(ast_new_unary_expr(own, a), own, {a})
           /\ Bundles(ast_new_call_expr(own, a, kids), own, {a} \cup kids)
           /\ Bundles(ast_new_init_expr(own, a, kids), own, {a} \cup kids)
<1>1. \A kind, ks : Bundles(Expr(kind, own, ks), own, ks)
  <2>1. ASSUME NEW kind, NEW ks PROVE Bundles(Expr(kind, own, ks), own, ks)
    <3>1. PICK given : given = IF kind = "call" THEN {} ELSE ks
      OBVIOUS
    <3> QED
      BY <3>1, TreeBundles DEF Expr
  <2> QED
    BY <2>1
<1> QED
  BY <1>1 DEF ast_new_access_expr, ast_new_as_expr, ast_new_new_expr, ast_new_assign_expr,
      ast_new_ident_expr, ast_new_int_expr, ast_new_string_expr, ast_new_char_expr,
      ast_new_binary_expr, ast_new_unary_expr, ast_new_call_expr, ast_new_init_expr

(* and each statement. *)
LEMMA StmtBundles ==
    ASSUME NEW own, NEW a, NEW b, NEW kids
    PROVE  /\ Bundles(ast_new_expr_stmt(own, a), own, {a})
           /\ Bundles(ast_new_let_stmt(own, a), own, {a})
           /\ Bundles(ast_new_delete_stmt(own, a), own, {a})
           /\ Bundles(ast_new_return_stmt(own, a), own, {a})
           /\ Bundles(ast_new_while_stmt(own, a, b), own, {a, b})
           /\ Bundles(ast_new_if_stmt(own, a, b), own, {a, b})
           /\ Bundles(ast_new_block_stmt(own, kids), own, kids)
           /\ \A x : Bundles(ast_new_func_decl_stmt(own, x, a), own, {a})
           /\ Bundles(ast_new_struct_decl_stmt(own), own, {})
           /\ Bundles(ast_new_import_stmt(own), own, {})
<1>1. \A kind, ks, given, wild : given \subseteq ks => Bundles(Tree(kind, own, ks, given, wild), own, ks)
  BY TreeBundles
<1> QED
  BY <1>1 DEF ast_new_expr_stmt, ast_new_let_stmt, ast_new_delete_stmt, ast_new_return_stmt,
      ast_new_while_stmt, ast_new_if_stmt, ast_new_block_stmt, ast_new_func_decl_stmt,
      ast_new_struct_decl_stmt, ast_new_import_stmt

(* Its node is new when it has a new token, or a part.                     *)
Dates(own, kids) == pos + 1 \in own \/ \E u \in kids : u.nodes # {}

LEMMA BundleRooted ==
    ASSUME IInv, Firm, Running, NEW v, NEW own, NEW kids, Bundles(v, own, kids), Dates(own, kids),
           kids \subseteq Trees(Top) \cup {ret, NULL}
    PROVE  Rooted(v) /\ Dated(Node(v.kind, v.reads))
<1>1. \A u \in kids : Rooted(u) /\ u.reads \subseteq v.reads /\ \A x \in u.nodes : Bears(x)
  <2>1. \A u \in kids : Rooted(u)
    BY TopBears, NoNodes
  <2>2. \A u \in kids : u.reads \subseteq v.reads
    BY DEF Bundles
  <2>3. \A u \in kids : \A x \in u.nodes : Bears(x)
    BY NoNodes DEF Trees, Bears, Contains
  <2> QED
    BY <2>1, <2>2, <2>3
<1>2. PICK node : node = Node(v.kind, v.reads)
  OBVIOUS
<1>3. node.reads = v.reads
  BY <1>2 DEF Node
<1>4. Dated(node)
  <2>1. CASE pos + 1 \in own
    BY <1>3, <2>1 DEF Bundles, Dated
  <2>2. CASE \E u \in kids : u.nodes # {}
    <3>1. PICK u, y : u \in kids /\ y \in u.nodes
      BY <2>2
    <3>2. Bears(y) /\ y.reads \subseteq u.reads /\ u.reads \subseteq v.reads
      BY <1>1, <3>1 DEF Rooted
    <3> QED
      BY <1>3, <3>2 DEF Dated
  <2> QED
    BY <2>1, <2>2 DEF Dates
<1>5. v.reads # {}
  <2>1. CASE pos + 1 \in own
    BY <2>1 DEF Bundles
  <2>2. CASE \E u \in kids : u.nodes # {}
    BY <1>1, <2>2 DEF Rooted
  <2> QED
    BY <2>1, <2>2 DEF Dates
<1>6. \A x \in v.nodes : x.reads # {} /\ x.reads \subseteq v.reads
  <2>1. \A x \in v.nodes : x = node \/ \E u \in kids : x \in u.nodes
    BY <1>2 DEF Bundles
  <2>2. \A u \in kids : \A x \in u.nodes : x.reads # {} /\ x.reads \subseteq v.reads
    BY <1>1 DEF Rooted
  <2> QED
    BY <1>3, <1>5, <2>1, <2>2
<1>7. v.frees \subseteq v.nodes
  BY <1>1 DEF Bundles, Rooted
<1>8. node \in v.nodes /\ DOMAIN v = {"kind", "reads", "nodes", "frees", "wild"}
  BY <1>2 DEF Bundles
<1> QED
  BY <1>2, <1>4, <1>6, <1>7, <1>8 DEF Rooted

(* A step that makes a new tree of what it bears, *)
LEMMA NewGathers ==
    ASSUME IInv, Firm, Running, mod' = mod, NEW v, New(v), NEW own, NEW kids,
           Bundles(v, own, kids), Dates(own, kids), kids \subseteq Trees(Top) \cup {ret, NULL},
           \A x : Bears(x) <=> \E u \in kids : x \in u.nodes
    PROVE  \E A : /\ Allots(A) /\ (\A x \in A : Dated(x)) /\ Rooted(v)
                  /\ \A x : x \in v.nodes <=> Bears(x) \/ x \in A
<1>1. PICK A : A = {Node(v.kind, v.reads)}
  OBVIOUS
<1>2. Allots(A)
  BY <1>1, News
<1>3. \A x : x \in v.nodes <=> Bears(x) \/ x \in A
  BY <1>1 DEF Bundles
<1>4. Rooted(v) /\ \A x \in A : Dated(x)
  BY <1>1, BundleRooted
<1> QED
  BY <1>2, <1>3, <1>4

(* and returns it. *)
LEMMA NewReturns ==
    ASSUME IInv, Firm, Running, mod' = mod, NEW v, New(v), Return(v), NEW own, NEW kids,
           Bundles(v, own, kids), Dates(own, kids), kids \subseteq Trees(Top) \cup {ret, NULL},
           \A x : Bears(x) <=> \E u \in kids : x \in u.nodes
    PROVE  Gathers
BY NewGathers, ReturnsGathers

-----------------------------------------------------------------------------
(* A function that returns NULL has freed trees it had at most, and a list *)
(* that is given up those it collected.                                    *)
Falls ==
    /\ mod' = mod /\ Top.do # "parse" /\ Return(NULL)
    /\ \E vs : /\ \A v \in vs : v \in Trees(Top) \/ v = ret
               /\ live' = live \ UNION {v.frees : v \in vs}

Sheds ==
    /\ mod' = mod /\ Top.do \in Collecting /\ bails' # {}
    /\ \E f : Continue(f) /\ f.do = "close" /\ f.left = Top.left /\ f.kids = {}
    /\ \E vs : /\ \A v \in vs : v \in Top.kids \/ v = ret
               /\ live' = live \ UNION {v.frees : v \in vs}

(* The step does neither. *)
Smooth == IInv /\ Firm /\ Running /\ ~Failed /\ ~Falls /\ ~Sheds

(* What steps free on their way to a NULL. *)
Drops(vs) == live' = live \ UNION {v.frees : v \in vs}

LEMMA DropsFacts ==
    /\ (UNCHANGED memory) => Drops({})
    /\ \A v : Release(v) => \E vs : vs \subseteq {v} /\ Drops(vs)
    /\ \A v : live' = live \ v.frees => Drops({v})
    /\ \A vs, again : Free(vs, again) => Drops(vs)
    /\ \A vs : ReleaseList(vs) => Drops(vs)
<1>1. (UNCHANGED memory) => Drops({})
  BY DEF memory, Drops
<1>2. \A vs, again : Free(vs, again) => Drops(vs)
  BY DEF Free, Drops
<1>3. \A vs : ReleaseList(vs) => Drops(vs)
  BY <1>2 DEF ReleaseList
<1>4. \A v : Release(v) => \E vs : vs \subseteq {v} /\ Drops(vs)
  <2>1. ASSUME NEW v, Release(v) PROVE {v} \ {NULL} \subseteq {v} /\ Drops({v} \ {NULL})
    BY <1>2, <2>1 DEF Release
  <2> QED
    BY <2>1
<1>5. \A v : live' = live \ v.frees => Drops({v})
  BY DEF Drops
<1> QED
  BY <1>1, <1>2, <1>3, <1>4, <1>5

LEMMA FallsFacts ==
    ASSUME mod' = mod, Top.do # "parse", Return(NULL), ~Falls
    PROVE  /\ ~UNCHANGED memory
           /\ \A v \in Trees(Top) \cup {ret} : ~Release(v) /\ live' # live \ v.frees
           /\ \A vs : vs \subseteq Top.kids \cup {ret} => ~ReleaseList(vs) /\ \A again : ~Free(vs, again)
<1>1. \A vs : vs \subseteq Trees(Top) \cup {ret} => ~Drops(vs)
  BY DEF Falls, Drops
<1>2. ~UNCHANGED memory
  BY <1>1, DropsFacts
<1>3. \A v \in Trees(Top) \cup {ret} : ~Release(v) /\ live' # live \ v.frees
  <2>1. ASSUME NEW v \in Trees(Top) \cup {ret} PROVE ~Release(v) /\ live' # live \ v.frees
    <3>1. \A vs : vs \subseteq {v} => ~Drops(vs)
      BY <1>1
    <3>2. ~Release(v)
      BY <3>1, DropsFacts
    <3>3. ~Drops({v})
      BY <3>1
    <3> QED
      BY <3>2, <3>3, DropsFacts
  <2> QED
    BY <2>1
<1>4. \A vs : vs \subseteq Top.kids \cup {ret} => ~Drops(vs)
  BY <1>1 DEF Trees
<1>5. \A vs : vs \subseteq Top.kids \cup {ret} => ~ReleaseList(vs) /\ \A again : ~Free(vs, again)
  BY <1>4, DropsFacts
<1> QED
  BY <1>2, <1>3, <1>5

(* Then no function returns NULL, and no list is given up.                 *)
LEMMA SmoothFacts ==
    ASSUME Smooth
    PROVE  /\ Known /\ ~Failed /\ \A to : Fail(to) => Return(NULL)
           /\ mod' = mod /\ Top.do # "parse" /\ Return(NULL) =>
                  /\ ~UNCHANGED memory
                  /\ \A v \in Trees(Top) \cup {ret} : ~Release(v) /\ live' # live \ v.frees
                  /\ \A vs : vs \subseteq Top.kids \cup {ret} =>
                         ~ReleaseList(vs) /\ \A again : ~Free(vs, again)
           /\ Top.left \in Trees(Top) \cup {ret} /\ ret \in Trees(Top) \cup {ret}
BY Knows, FallsFacts DEF Smooth, Fail, Failed, Trees

(* A call of a function that holds nothing, by one that is in no list that *)
(* may be given up or keeps what that collects.                            *)
LEMMA CallsBare ==
    ASSUME IInv, Running, NEW A, Allots(A), \A x \in A : Dated(x),
           NEW f, NEW t, NEW g, Call(f, t), Callable(t, g), Bare(g), Follows(f), Keeps(f),
           f.do # "climb", \A x : Contains(f, x) <=> Bears(x) \/ x \in A
    PROVE  Gathers
<1>1. \A x : Contains(f, x) \/ Contains(g, x) <=> Bears(x) \/ x \in A
  BY BareRooted
<1> QED
  BY <1>1, BareRooted, CallsGathers

LEMMA BareCall ==
    ASSUME NEW do, do \notin Collecting
    PROVE  Bare(Frame(do)) /\ Callable(<<Frame(do)>>, Frame(do))
<1>1. Bare(Frame(do))
  BY BareFrames
<1> QED
  BY <1>1, CallsOne DEF Bare

(* A tree with more tokens, and an if statement with its else.             *)
LEMMA WithRooted ==
    ASSUME NEW t, Rooted(t), t.nodes # {}, NEW more, NEW v, v = [t EXCEPT !.reads = @ \cup more]
    PROVE  v.nodes = t.nodes /\ Rooted(v)
<1>1. v.nodes = t.nodes /\ v.frees = t.frees /\ DOMAIN v = DOMAIN t /\ v.reads = t.reads \cup more
  BY DEF Rooted
<1> QED
  BY <1>1 DEF Rooted

LEMMA ElseRooted ==
    ASSUME NEW s, Rooted(s), NEW own, NEW else, Rooted(else), else.nodes # {},
           NEW v, v = WithElse(s, own, else)
    PROVE  v.nodes = s.nodes \cup else.nodes /\ Rooted(v)
<1>1. /\ v.nodes = s.nodes \cup else.nodes /\ v.frees = s.frees /\ DOMAIN v = DOMAIN s
      /\ v.reads = s.reads \cup own \cup else.reads
  BY DEF Rooted, WithElse
<1> QED
  BY <1>1 DEF Rooted

(* The first token that has been consumed. *)
LEMMA ReadsFirst ==
    ASSUME Known, NEW a, NEW b
    PROVE  /\ Consume(pos, <<a>>).ok => pos + 1 \in Reads(Consume(pos, <<a>>).to)
           /\ Consume(pos, <<a, b>>).ok => pos + 1 \in Reads(Consume(pos, <<a, b>>).to)
<1>1. ASSUME NEW tys, Consume(pos, tys).ok, Len(tys) \in Nat \ {0}
      PROVE  pos + 1 \in Reads(Consume(pos, tys).to)
  <2>1. Consume(pos, tys).to = pos + Len(tys)
    BY <1>1 DEF Consume
  <2> QED
    BY <1>1, <2>1 DEF Reads, Known
<1>2. Len(<<a>>) = 1 /\ Len(<<a, b>>) = 2
  OBVIOUS
<1> QED
  BY <1>1, <1>2

LEMMA ReadsType ==
    ASSUME Known, NEW r,
           r = And(Consume(pos, <<"COLON">>), parser_consume_type(Consume(pos, <<"COLON">>).to)), r.ok
    PROVE  pos + 1 \in Reads(r.to)
<1>1. File /\ Reaches(Consume(pos, <<"COLON">>), pos)
  BY OneMore, ConsumeOne DEF Known
<1>2. Consume(pos, <<"COLON">>).ok /\ r = parser_consume_type(Consume(pos, <<"COLON">>).to)
  BY DEF And
<1>3. pos + 1 <= Consume(pos, <<"COLON">>).to
  <2>1. pos + 1 \in Reads(Consume(pos, <<"COLON">>).to)
    BY <1>2, ReadsFirst
  <2> QED
    BY <1>1, <2>1 DEF Reads, Reaches
<1>4. r.to >= Consume(pos, <<"COLON">>).to
  BY <1>1, <1>2, TypeReaches DEF Reaches, Known, File
<1> QED
  BY <1>1, <1>2, <1>3, <1>4, TypeReaches DEF Reaches, Reads, Known, File

(* A list that is given up sheds what it collected.                        *)
LEMMA BailSheds ==
    ASSUME Known, Top.do \in Collecting, NEW to, Bail(to), mod' = mod,
           NEW vs, \A v \in vs : v \in Top.kids \/ v = ret, NEW again, Free(vs, again)
    PROVE  Sheds
<1>1. PICK f : f = [Top EXCEPT !.do = "close", !.kids = {}, !.own = @ \cap 1 .. Top.start,
                               !.opt = Top.do = "inits"]
  OBVIOUS
<1>2. Continue(f) /\ bails' # {}
  BY <1>1 DEF Bail
<1>3. f.do = "close" /\ f.left = Top.left /\ f.kids = {}
  BY <1>1 DEF Known, Placed, Shaped
<1>4. live' = live \ UNION {v.frees : v \in vs}
  BY DEF Free
<1> QED
  BY <1>2, <1>3, <1>4 DEF Sheds

-----------------------------------------------------------------------------
(* The actions of statements, when they do neither. *)
(* parser.c:202-292 gathers. *)
LEMMA StatementGathers ==
    ASSUME Smooth, parser_statement
    PROVE  Gathers
<1>1. Known /\ Running /\ ret = Entered /\ Top.do = "statement" /\ IInv /\ Firm
  BY SmoothFacts DEF parser_statement, Runs, Smooth
<1>2. PICK stmt : stmt = CASE peek = "FN" -> Frame("func")
                     [] peek = "EXTERN" -> [Frame("func") EXCEPT !.opt = TRUE, !.own = {pos + 1}]
                     [] peek \in {"IF", "WHILE", "TYPE", "DELETE", "RETURN", "LET", "IMPORT"} ->
                            Frame(peek)
                     [] OTHER -> Frame("expr_stmt")
  OBVIOUS
<1>3. PICK open : open = (peek \in {"FN", "IF", "WHILE", "TYPE"})
  OBVIOUS
<1>4. PICK f : f = [Top EXCEPT !.do = "end", !.opt = ~open, !.errs = errors, !.start = pos]
  OBVIOUS
<1>5. /\ Call(f, IF stmt.do = "expr_stmt" THEN <<stmt>> \o Expression(FALSE) ELSE <<stmt>>)
      /\ UNCHANGED <<toks, mod, memory, bails>>
  BY <1>2, <1>3, <1>4 DEF parser_statement
<1>6. Bare(stmt)
  <2>1. \/ stmt = Frame("func") \/ stmt = [Frame("func") EXCEPT !.opt = TRUE, !.own = {pos + 1}]
        \/ (stmt = Frame(peek) /\ peek \notin Collecting) \/ stmt = Frame("expr_stmt")
    BY <1>2 DEF Collecting
  <2> QED
    BY <2>1, BareFrames DEF Collecting
<1>7. PICK t : Call(f, t) /\ Callable(t, stmt)
  BY <1>5, <1>6, CallsOne, CallsOperand DEF Bare
<1>8. f.do = "end" /\ f.left = Top.left /\ f.kids = Top.kids
  BY <1>1, <1>4 DEF Known, Placed, Shaped
<1> QED
  BY <1>1, <1>5, <1>6, <1>7, <1>8, SameCalls DEF HasLeft, Collecting

(* parser.c:202-229 gathers. *)
LEMMA StatementParsedGathers ==
    ASSUME Smooth, statement_parsed
    PROVE  Gathers
<1>1. Known /\ Running /\ ret # Entered /\ Top.do = "end" /\ IInv /\ Firm
  BY SmoothFacts DEF statement_parsed, Returns, Smooth
<1>2. PICK to : Return([ret EXCEPT !.reads = @ \cup Reads(to)]) /\ UNCHANGED memory /\ mod' = mod
  BY <1>1, SmoothFacts DEF statement_parsed
<1>3. PICK v : v = [ret EXCEPT !.reads = @ \cup Reads(to)]
  OBVIOUS
<1>4. v.nodes = ret.nodes /\ Rooted(v)
  BY <1>1, <1>3, SmoothFacts, HaveNodes, TopBears, WithRooted
<1>5. Return(v)
  BY <1>2, <1>3
<1>6. \A x : x \in v.nodes <=> Bears(x) \/ x \in {}
  BY <1>1, <1>4, TopBears DEF Bears, HasLeft, HasKids
<1> QED
  BY <1>1, <1>2, <1>4, <1>5, <1>6, Quiets, ReturnsGathers

(* parser.c:294-303 gathers. *)
LEMMA FuncGathers ==
    ASSUME Smooth, parser_parse_func_def
    PROVE  Gathers
<1>1. Known /\ Running /\ ret = Entered /\ Top.do = "func" /\ IInv /\ Firm
  BY SmoothFacts DEF parser_parse_func_def, Runs, Smooth
<1>2. PICK r : r = Consume(pos, <<"FN", "IDENT", "LPAREN">>)
  OBVIOUS
<1>3. PICK f : f = [Top EXCEPT !.do = "params", !.own = @ \cup Reads(r.to), !.start = r.to]
  OBVIOUS
<1>4. Continue(f) /\ UNCHANGED <<toks, mod, memory, bails>>
  BY <1>1, <1>2, <1>3, SmoothFacts DEF parser_parse_func_def
<1>5. f.left = Top.left /\ f.kids = Top.kids /\ f.do = "params"
  BY <1>1, <1>3 DEF Known, Placed, Shaped
<1> QED
  BY <1>1, <1>4, <1>5, SameContinues DEF HasLeft, Collecting

(* parser.c:549-594 gathers. *)
LEMMA ParamListGathers ==
    ASSUME Smooth, parser_parse_param_list
    PROVE  Gathers
<1>1. Known /\ Running /\ ret = Entered /\ Top.do = "params" /\ IInv /\ Firm
  BY SmoothFacts DEF parser_parse_param_list, Runs, Smooth
<1>2. PICK own, comma :
          \/ Continue([Top EXCEPT !.do = "params", !.own = own, !.more = comma])
          \/ Continue([Top EXCEPT !.do = "signature", !.own = own, !.more = comma])
          \/ Continue([Top EXCEPT !.do = "signature", !.own = own])
  BY DEF parser_parse_param_list
<1>3. mod' = mod /\ UNCHANGED memory
  BY DEF parser_parse_param_list
<1>4. PICK f : /\ Continue(f)
               /\ \/ f = [Top EXCEPT !.do = "params", !.own = own, !.more = comma]
                  \/ f = [Top EXCEPT !.do = "signature", !.own = own, !.more = comma]
                  \/ f = [Top EXCEPT !.do = "signature", !.own = own]
  BY <1>2
<1>5. f.left = Top.left /\ f.kids = Top.kids /\ f.do \in {"params", "signature"}
  BY <1>1, <1>4 DEF Known, Placed, Shaped
<1> QED
  BY <1>1, <1>3, <1>4, <1>5, SameContinues DEF HasLeft, Collecting

(* parser.c:303-329 gathers. *)
LEMMA SignatureGathers ==
    ASSUME Smooth, func_signature
    PROVE  Gathers
<1>1. Known /\ Running /\ ret = Entered /\ Top.do = "signature" /\ IInv /\ Firm
  BY SmoothFacts DEF func_signature, Runs, Smooth
<1>2. PICK r : r = And(Consume(pos, <<"COLON">>), parser_consume_type(Consume(pos, <<"COLON">>).to))
  OBVIOUS
<1>3. PICK own : own = Top.own \cup Reads(r.to)
  OBVIOUS
<1>4. PICK func, f : /\ func = ast_new_func_decl_stmt(own, TRUE, NULL)
                     /\ f = [Top EXCEPT !.do = "body", !.own = own]
  OBVIOUS
<1>5. /\ \/ New(func) /\ Return(func) /\ r.ok
         \/ Call(f, <<Frame("block")>>) /\ UNCHANGED memory
      /\ UNCHANGED <<toks, mod, bails>>
  BY <1>1, <1>2, <1>3, <1>4, SmoothFacts DEF func_signature
<1>6. CASE New(func) /\ Return(func) /\ r.ok
  <2>1. Bundles(func, own, {NULL})
    BY <1>4, StmtBundles
  <2>2. \A x : Bears(x) <=> \E u \in {NULL} : x \in u.nodes
    BY <1>1, TopBears, NoNodes DEF Bears, HasLeft, HasKids
  <2>3. pos + 1 \in own
    BY <1>1, <1>2, <1>3, <1>5, <1>6, ReadsType
  <2> QED
    BY <1>1, <1>5, <1>6, <2>1, <2>2, <2>3, NewReturns DEF Dates
<1>7. CASE Call(f, <<Frame("block")>>) /\ UNCHANGED memory
  <2>1. f.do = "body" /\ f.left = Top.left /\ f.kids = Top.kids
    BY <1>1, <1>4 DEF Known, Placed, Shaped
  <2>2. Bare(Frame("block")) /\ Callable(<<Frame("block")>>, Frame("block"))
    BY BareCall DEF Collecting
  <2> QED
    BY <1>1, <1>5, <1>7, <2>1, <2>2, SameCalls DEF HasLeft, Collecting
<1> QED
  BY <1>5, <1>6, <1>7

(* parser.c:315-329 gathers. *)
LEMMA BodyGathers ==
    ASSUME Smooth, func_body
    PROVE  Gathers
<1>1. Known /\ Running /\ ret # Entered /\ Top.do = "body" /\ IInv /\ Firm
  BY SmoothFacts DEF func_body, Returns, Smooth
<1>2. PICK func : func = ast_new_func_decl_stmt(Top.own, FALSE, ret)
  OBVIOUS
<1>3. New(func) /\ Return(func) /\ mod' = mod
  BY <1>1, <1>2, SmoothFacts DEF func_body
<1>4. Bundles(func, Top.own, {ret})
  BY <1>2, StmtBundles
<1>5. \A x : Bears(x) <=> \E u \in {ret} : x \in u.nodes
  BY <1>1, TopBears DEF Bears, HasLeft, HasKids
<1> QED
  BY <1>1, <1>3, <1>4, <1>5, SmoothFacts, HaveNodes, NewReturns DEF Dates

(* parser.c:331-335 gathers. *)
LEMMA ConditionGathers ==
    ASSUME Smooth, parser_parse_condition
    PROVE  Gathers
<1>1. Known /\ Running /\ ret = Entered /\ Top.do \in {"IF", "WHILE"} /\ IInv /\ Firm
  BY SmoothFacts DEF parser_parse_condition, Runs, Smooth
<1>2. PICK f : f = [Top EXCEPT !.do = IF Top.do = "IF" THEN "if_cond" ELSE "while_cond",
                               !.own = {pos + 1}]
  OBVIOUS
<1>3. Call(f, Expression(TRUE)) /\ UNCHANGED <<toks, mod, memory, bails>>
  BY <1>2 DEF parser_parse_condition
<1>4. f.do \in {"if_cond", "while_cond"} /\ f.left = Top.left /\ f.kids = Top.kids
  BY <1>1, <1>2 DEF Known, Placed, Shaped
<1>5. PICK e : Callable(Expression(TRUE), e) /\ Bare(e)
  BY CallsOperand
<1> QED
  BY <1>1, <1>3, <1>4, <1>5, SameCalls DEF HasLeft, Collecting

(* parser.c:334-343 gathers. *)
LEMMA ConditionParsedGathers ==
    ASSUME Smooth, condition_parsed
    PROVE  Gathers
<1>1. Known /\ Running /\ Top.do \in {"if_cond", "while_cond"} /\ IInv /\ Firm
  BY SmoothFacts DEF condition_parsed, Returns, Smooth
<1>2. PICK f : f = [Top EXCEPT !.do = IF Top.do = "if_cond" THEN "if_block" ELSE "while_block",
                               !.left = ret]
  OBVIOUS
<1>3. Call(f, <<Frame("block")>>) /\ UNCHANGED <<toks, mod, memory, bails>>
  BY <1>1, <1>2, SmoothFacts DEF condition_parsed
<1>4. f.do \in {"if_block", "while_block"} /\ f.left = ret /\ f.kids = Top.kids
  BY <1>1, <1>2 DEF Known, Placed, Shaped
<1>5. Bare(Frame("block")) /\ Callable(<<Frame("block")>>, Frame("block"))
  BY BareCall DEF Collecting
<1>6. Top.left.nodes = {} /\ Top.kids = {}
  BY <1>1, TopBears DEF HasLeft, HasKids
<1>7. \A x : Contains(f, x) <=> Bears(x) \/ x \in {}
  BY <1>4, <1>6 DEF Contains, Bears
<1>8. Follows(f) /\ Keeps(f)
  BY <1>1, <1>4, <1>6, TopBears DEF Follows, HasLeft, Keeps, Collecting, Trees
<1> QED
  BY <1>1, <1>3, <1>4, <1>5, <1>7, <1>8, Quiets, CallsBare

(* parser.c:387-407 gathers. *)
LEMMA WhileGathers ==
    ASSUME Smooth, while_parsed
    PROVE  Gathers
<1>1. Known /\ Running /\ ret # Entered /\ Top.do = "while_block" /\ IInv /\ Firm
  BY SmoothFacts DEF while_parsed, Returns, Smooth
<1>2. PICK while : while = ast_new_while_stmt(Top.own, Top.left, ret)
  OBVIOUS
<1>3. New(while) /\ Return(while) /\ mod' = mod
  BY <1>2 DEF while_parsed
<1>4. Bundles(while, Top.own, {Top.left, ret})
  BY <1>2, StmtBundles
<1>5. \A x : Bears(x) <=> \E u \in {Top.left, ret} : x \in u.nodes
  BY <1>1, TopBears DEF Bears, HasKids
<1> QED
  BY <1>1, <1>3, <1>4, <1>5, SmoothFacts, HaveNodes, NewReturns DEF Dates, Trees

(* parser.c:343-378 gathers. *)
LEMMA IfGathers ==
    ASSUME Smooth, if_parsed
    PROVE  Gathers
<1>1. Known /\ Running /\ ret # Entered /\ Top.do = "if_block" /\ IInv /\ Firm
  BY SmoothFacts DEF if_parsed, Returns, Smooth
<1>2. PICK if, f : /\ if = ast_new_if_stmt(Top.own, Top.left, ret)
                   /\ f = [Frame("else") EXCEPT !.left = if, !.own = {pos + 1}]
  OBVIOUS
<1>3. PICK do : do = IF TokenAt(pos + 2) = "IF" THEN "IF" ELSE "block"
  OBVIOUS
<1>4. /\ New(if)
      /\ Return(if) \/ Call(f, <<Frame(do)>>)
      /\ mod' = mod
  BY <1>1, <1>2, <1>3, SmoothFacts DEF if_parsed
<1>5. Bundles(if, Top.own, {Top.left, ret})
  BY <1>2, StmtBundles
<1>6. \A x : Bears(x) <=> \E u \in {Top.left, ret} : x \in u.nodes
  BY <1>1, TopBears DEF Bears, HasKids
<1>7. Dates(Top.own, {Top.left, ret}) /\ {Top.left, ret} \subseteq Trees(Top) \cup {ret, NULL}
  BY <1>1, SmoothFacts, HaveNodes DEF Dates, Trees
<1>8. CASE Return(if)
  BY <1>1, <1>4, <1>5, <1>6, <1>7, <1>8, NewReturns
<1>9. CASE Call(f, <<Frame(do)>>)
  <2>1. f.do = "else" /\ f.left = if /\ f.kids = {}
    BY <1>2 DEF Frame
  <2>2. Bare(Frame(do)) /\ Callable(<<Frame(do)>>, Frame(do))
    BY <1>3, BareCall DEF Collecting
  <2>3. PICK A : /\ Allots(A) /\ (\A x \in A : Dated(x)) /\ Rooted(if)
                 /\ \A x : x \in if.nodes <=> Bears(x) \/ x \in A
    BY <1>1, <1>4, <1>5, <1>6, <1>7, NewGathers
  <2>4. \A x : Contains(f, x) <=> Bears(x) \/ x \in A
    BY <2>1, <2>3 DEF Contains
  <2>5. Top.left.nodes \subseteq if.nodes
    BY <1>5 DEF Bundles
  <2>6. Follows(f) /\ Keeps(f)
    BY <2>1, <2>3, <2>5 DEF Follows, HasLeft, Keeps, Collecting, Trees
  <2> QED
    BY <1>1, <1>9, <2>1, <2>2, <2>3, <2>4, <2>6, CallsBare
<1> QED
  BY <1>4, <1>8, <1>9

(* parser.c:378-385 gathers. *)
LEMMA ElseGathers ==
    ASSUME Smooth, else_parsed
    PROVE  Gathers
<1>1. Known /\ Running /\ ret # Entered /\ Top.do = "else" /\ IInv /\ Firm
  BY SmoothFacts DEF else_parsed, Returns, Smooth
<1>2. PICK v : v = WithElse(Top.left, Top.own, ret)
  OBVIOUS
<1>3. Return(v) /\ (UNCHANGED memory) /\ mod' = mod
  BY <1>1, <1>2, SmoothFacts DEF else_parsed
<1>4. v.nodes = Top.left.nodes \cup ret.nodes /\ Rooted(v)
  <2>1. Rooted(Top.left) /\ Rooted(ret) /\ ret.nodes # {}
    BY <1>1, SmoothFacts, HaveNodes, TopBears DEF Trees
  <2> QED
    BY <1>2, <2>1, ElseRooted
<1>5. \A x : x \in v.nodes <=> Bears(x) \/ x \in {}
  BY <1>1, <1>4, TopBears DEF Bears, HasKids
<1> QED
  BY <1>1, <1>3, <1>4, <1>5, Quiets, ReturnsGathers

(* parser.c:409-427 gathers. *)
LEMMA TypeGathers ==
    ASSUME Smooth, parser_parse_type_stmt
    PROVE  Gathers
<1>1. Known /\ Running /\ ret = Entered /\ Top.do = "TYPE" /\ IInv /\ Firm
  BY SmoothFacts DEF parser_parse_type_stmt, Runs, Smooth
<1>2. PICK f, r : /\ r = Consume(pos, <<"TYPE", "IDENT", "STRUCT", "LBRACE">>)
                  /\ f = [Top EXCEPT !.do = "fields", !.own = Reads(r.to)]
  OBVIOUS
<1>3. Continue(f) /\ UNCHANGED <<toks, mod, memory, bails>>
  BY <1>1, <1>2, SmoothFacts DEF parser_parse_type_stmt
<1>4. f.left = Top.left /\ f.kids = Top.kids /\ f.do = "fields"
  BY <1>1, <1>2 DEF Known, Placed, Shaped
<1> QED
  BY <1>1, <1>3, <1>4, SameContinues DEF HasLeft, Collecting

(* parser.c:507-547 gathers. *)
LEMMA FieldListGathers ==
    ASSUME Smooth, parser_parse_field_list
    PROVE  Gathers
<1>1. Known /\ Running /\ ret = Entered /\ Top.do = "fields" /\ IInv /\ Firm
  BY SmoothFacts DEF parser_parse_field_list, Runs, Smooth
<1>2. PICK own, comma : /\ \/ /\ New(ast_new_struct_decl_stmt(own))
                              /\ Return(ast_new_struct_decl_stmt(own)) /\ pos + 1 \in own
                           \/ /\ live' = live /\ faults' = faults \cup {"overrun"}
                              /\ Continue([Top EXCEPT !.own = own, !.more = comma])
                        /\ mod' = mod
  <2>1. Consume(pos, <<"RBRACE">>).ok => pos + 1 \in Reads(Consume(pos, <<"RBRACE">>).to)
    BY <1>1, ReadsFirst
  <2> QED
    BY <1>1, <2>1, SmoothFacts DEF parser_parse_field_list
<1>3. PICK struct, f : /\ struct = ast_new_struct_decl_stmt(own)
                       /\ f = [Top EXCEPT !.own = own, !.more = comma]
  OBVIOUS
<1>4. CASE New(struct) /\ Return(struct) /\ pos + 1 \in own
  <2>1. Bundles(struct, own, {})
    BY <1>3, StmtBundles
  <2>2. \A x : Bears(x) <=> \E u \in {} : x \in u.nodes
    BY <1>1, TopBears, NoNodes DEF Bears, HasLeft, HasKids
  <2> QED
    BY <1>1, <1>2, <1>4, <2>1, <2>2, NewReturns DEF Dates
<1>5. CASE live' = live /\ faults' = faults \cup {"overrun"} /\ Continue(f)
  <2>1. f.left = Top.left /\ f.kids = Top.kids /\ f.do = "fields"
    BY <1>1, <1>3 DEF Known, Placed, Shaped
  <2>2. Allots({})
    BY <1>2, <1>5 DEF Allots
  <2> QED
    BY <1>1, <1>2, <1>5, <2>1, <2>2, SameContinues DEF HasLeft, Collecting
<1> QED
  BY <1>2, <1>3, <1>4, <1>5

(* parser.c:429-434 gathers. *)
LEMMA DeleteGathers ==
    ASSUME Smooth, parser_parse_delete_stmt
    PROVE  Gathers
<1>1. Known /\ Running /\ ret = Entered /\ Top.do = "DELETE" /\ IInv /\ Firm
  BY SmoothFacts DEF parser_parse_delete_stmt, Runs, Smooth
<1>2. PICK f : f = [Top EXCEPT !.do = "delete", !.own = {pos + 1}]
  OBVIOUS
<1>3. Call(f, Expression(FALSE)) /\ UNCHANGED <<toks, mod, memory, bails>>
  BY <1>2 DEF parser_parse_delete_stmt
<1>4. f.do = "delete" /\ f.left = Top.left /\ f.kids = Top.kids
  BY <1>1, <1>2 DEF Known, Placed, Shaped
<1>5. PICK e : Callable(Expression(FALSE), e) /\ Bare(e)
  BY CallsOperand
<1> QED
  BY <1>1, <1>3, <1>4, <1>5, SameCalls DEF HasLeft, Collecting

(* parser.c:436-446 gathers. *)
LEMMA ReturnGathers ==
    ASSUME Smooth, parser_parse_return_stmt
    PROVE  Gathers
<1>1. Known /\ Running /\ ret = Entered /\ Top.do = "RETURN" /\ IInv /\ Firm
  BY SmoothFacts DEF parser_parse_return_stmt, Runs, Smooth
<1>2. PICK r : r = Consume(pos, <<"DELETE">>)
  OBVIOUS
<1>3. PICK return, f : /\ return = ast_new_return_stmt(Reads(r.to), NULL)
                       /\ f = [Top EXCEPT !.do = "return", !.own = Reads(r.to)]
  OBVIOUS
<1>4. /\ \/ New(return) /\ Return(return) /\ r.ok
         \/ Call(f, Expression(FALSE)) /\ UNCHANGED memory
      /\ UNCHANGED <<toks, mod, bails>>
  BY <1>1, <1>2, <1>3, SmoothFacts DEF parser_parse_return_stmt
<1>5. CASE New(return) /\ Return(return) /\ r.ok
  <2>1. Bundles(return, Reads(r.to), {NULL})
    BY <1>3, StmtBundles
  <2>2. \A x : Bears(x) <=> \E u \in {NULL} : x \in u.nodes
    BY <1>1, TopBears, NoNodes DEF Bears, HasLeft, HasKids
  <2>3. pos + 1 \in Reads(r.to)
    BY <1>1, <1>2, <1>5, ReadsFirst
  <2> QED
    BY <1>1, <1>4, <1>5, <2>1, <2>2, <2>3, NewReturns DEF Dates
<1>6. CASE Call(f, Expression(FALSE)) /\ UNCHANGED memory
  <2>1. f.do = "return" /\ f.left = Top.left /\ f.kids = Top.kids
    BY <1>1, <1>3 DEF Known, Placed, Shaped
  <2>2. PICK e : Callable(Expression(FALSE), e) /\ Bare(e)
    BY CallsOperand
  <2> QED
    BY <1>1, <1>4, <1>6, <2>1, <2>2, SameCalls DEF HasLeft, Collecting
<1> QED
  BY <1>4, <1>5, <1>6

(* parser.c:448-469 gathers. *)
LEMMA LetGathers ==
    ASSUME Smooth, parser_parse_let_stmt
    PROVE  Gathers
<1>1. Known /\ Running /\ ret = Entered /\ Top.do = "LET" /\ IInv /\ Firm
  BY SmoothFacts DEF parser_parse_let_stmt, Runs, Smooth
<1>2. PICK own : /\ Call([Top EXCEPT !.do = "let", !.own = own], Expression(FALSE))
                 /\ UNCHANGED <<toks, mod, memory, bails>>
  BY <1>1, SmoothFacts DEF parser_parse_let_stmt
<1>3. PICK f : f = [Top EXCEPT !.do = "let", !.own = own]
  OBVIOUS
<1>4. f.do = "let" /\ f.left = Top.left /\ f.kids = Top.kids
  BY <1>1, <1>3 DEF Known, Placed, Shaped
<1>5. PICK e : Callable(Expression(FALSE), e) /\ Bare(e)
  BY CallsOperand
<1>6. Call(f, Expression(FALSE))
  BY <1>2, <1>3
<1> QED
  BY <1>1, <1>2, <1>4, <1>5, <1>6, SameCalls DEF HasLeft, Collecting

(* parser.c:471-480 gathers. *)
LEMMA ImportGathers ==
    ASSUME Smooth, parser_parse_import_stmt
    PROVE  Gathers
<1>1. Known /\ Running /\ ret = Entered /\ Top.do = "IMPORT" /\ IInv /\ Firm
  BY SmoothFacts DEF parser_parse_import_stmt, Runs, Smooth
<1>2. PICK r, import : /\ r = Consume(pos, <<"IMPORT", "STRING">>)
                       /\ import = ast_new_import_stmt(Reads(r.to))
  OBVIOUS
<1>3. New(import) /\ Return(import) /\ r.ok /\ mod' = mod
  BY <1>1, <1>2, SmoothFacts DEF parser_parse_import_stmt
<1>4. Bundles(import, Reads(r.to), {})
  BY <1>2, StmtBundles
<1>5. \A x : Bears(x) <=> \E u \in {} : x \in u.nodes
  BY <1>1, TopBears, NoNodes DEF Bears, HasLeft, HasKids
<1>6. pos + 1 \in Reads(r.to)
  BY <1>1, <1>2, <1>3, ReadsFirst
<1> QED
  BY <1>1, <1>3, <1>4, <1>5, <1>6, NewReturns DEF Dates

(* parser.c:482-487 gathers. *)
LEMMA BlockGathers ==
    ASSUME Smooth, parser_parse_block
    PROVE  Gathers
<1>1. Known /\ Running /\ ret = Entered /\ Top.do = "block" /\ IInv /\ Firm
  BY SmoothFacts DEF parser_parse_block, Runs, Smooth
<1>2. PICK f : f = [Top EXCEPT !.do = "stmts", !.own = Reads(Consume(pos, <<"LBRACE">>).to)]
  OBVIOUS
<1>3. Continue(f) /\ UNCHANGED <<toks, mod, memory, bails>>
  BY <1>1, <1>2, SmoothFacts DEF parser_parse_block
<1>4. f.left = Top.left /\ f.kids = Top.kids /\ f.do = "stmts"
  BY <1>1, <1>2 DEF Known, Placed, Shaped
<1> QED
  BY <1>1, <1>3, <1>4, SameContinues DEF HasLeft, Collecting

(* What a list collects is what it held and what was returned to it.       *)
LEMMA CollectedBears ==
    ASSUME IInv, Firm, Running, NEW kids, kids = Top.kids \cup ({ret} \ {Entered})
    PROVE  /\ \A x : Bears(x) <=> x \in Top.left.nodes \/ \E u \in kids : x \in u.nodes
           /\ \A u \in kids : Rooted(u)
BY NoNodes, TopBears DEF Bears, Contains, Trees

(* parser.c:486-505 gathers. *)
LEMMA BlockStatementGathers ==
    ASSUME Smooth, block_statement
    PROVE  Gathers
<1>1. Known /\ Running /\ Top.do = "stmts" /\ IInv /\ Firm
  BY SmoothFacts DEF block_statement, Runs, Returns, Smooth
<1>2. PICK kids : kids = Top.kids \cup ({ret} \ {Entered})
  OBVIOUS
<1>3. PICK block, f : /\ block = ast_new_block_stmt(Top.own \cup {pos + 1}, kids)
                      /\ f = [Top EXCEPT !.kids = kids]
  OBVIOUS
<1>4. /\ \/ New(block) /\ Return(block)
         \/ Call(f, <<Frame("statement")>>) /\ UNCHANGED memory
      /\ UNCHANGED <<toks, mod, bails>>
  BY <1>1, <1>2, <1>3, SmoothFacts DEF block_statement
<1>5. \A x : Bears(x) <=> \E u \in kids : x \in u.nodes
  BY <1>1, <1>2, CollectedBears, TopBears DEF HasLeft
<1>6. CASE New(block) /\ Return(block)
  <2>1. Bundles(block, Top.own \cup {pos + 1}, kids)
    BY <1>3, StmtBundles
  <2> QED
    BY <1>1, <1>2, <1>4, <1>5, <1>6, <2>1, NewReturns DEF Dates, Trees
<1>7. CASE Call(f, <<Frame("statement")>>) /\ UNCHANGED memory
  <2>1. f.do = "stmts" /\ f.left = Top.left /\ f.kids = kids
    BY <1>1, <1>3 DEF Known, Placed, Shaped
  <2>2. Bare(Frame("statement")) /\ Callable(<<Frame("statement")>>, Frame("statement"))
    BY BareCall DEF Collecting
  <2>3. Top.left.nodes = {}
    BY <1>1, TopBears DEF HasLeft
  <2>4. \A x : Contains(f, x) <=> Bears(x) \/ x \in {}
    BY <1>5, <2>1, <2>3 DEF Contains
  <2>5. Follows(f) /\ Keeps(f)
    BY <1>1, <1>2, <2>1, <2>3, CollectedBears, TopBears DEF Follows, Trees, Keeps, Collecting
  <2> QED
    BY <1>1, <1>4, <1>7, <2>1, <2>2, <2>4, <2>5, Quiets, CallsBare
<1> QED
  BY <1>4, <1>6, <1>7

-----------------------------------------------------------------------------
(* Those of expressions. *)
LEMMA AssignGathers ==
    ASSUME Smooth, parser_expression
    PROVE  Gathers
<1>1. Known /\ Running /\ ret # Entered /\ Top.do = "expression" /\ IInv /\ Firm
  BY SmoothFacts DEF parser_expression, Returns, Smooth
<1>2. PICK left : left = IF Top.left = NULL THEN ret ELSE ast_new_assign_expr(Top.own, Top.left, ret)
  OBVIOUS
<1>3. PICK f : f = [Top EXCEPT !.left = left, !.own = {pos + 1}]
  OBVIOUS
<1>4. /\ IF Top.left = NULL THEN UNCHANGED memory ELSE New(left)
      /\ Return(left) \/ Call(f, Expression(Top.opt))
      /\ mod' = mod
  BY <1>1, <1>2, <1>3, SmoothFacts DEF parser_expression
<1>5. \A x : Bears(x) <=> x \in Top.left.nodes \/ x \in ret.nodes
  BY <1>1, TopBears DEF Bears, HasKids
<1>6. PICK A : /\ Allots(A) /\ (\A x \in A : Dated(x)) /\ Rooted(left)
               /\ \A x : x \in left.nodes <=> Bears(x) \/ x \in A
  <2>1. CASE Top.left = NULL
    <3>1. Allots({}) /\ \A x : x \in left.nodes <=> Bears(x) \/ x \in {}
      BY <1>2, <1>4, <1>5, <2>1, Quiets, NoNodes
    <3>2. Rooted(left)
      BY <1>1, <1>2, <2>1, TopBears
    <3> QED
      BY <3>1, <3>2
  <2>2. CASE Top.left # NULL
    <3>1. Bundles(left, Top.own, {Top.left, ret})
      BY <1>2, <2>2, ExprBundles
    <3>2. Dates(Top.own, {Top.left, ret}) /\ {Top.left, ret} \subseteq Trees(Top) \cup {ret, NULL}
      BY <1>1, SmoothFacts, HaveNodes DEF Dates, Trees
    <3> QED
      BY <1>1, <1>4, <1>5, <2>2, <3>1, <3>2, NewGathers
  <2> QED
    BY <2>1, <2>2
<1>7. CASE Return(left)
  BY <1>1, <1>6, <1>7, ReturnsGathers
<1>8. CASE Call(f, Expression(Top.opt))
  <2>1. f.do = "expression" /\ f.left = left /\ f.kids = {}
    BY <1>1, <1>3 DEF Known, Placed, Shaped, HasKids
  <2>2. PICK e : Callable(Expression(Top.opt), e) /\ Bare(e)
    BY CallsOperand
  <2>3. \A x : Contains(f, x) <=> Bears(x) \/ x \in A
    BY <1>6, <2>1 DEF Contains
  <2>4. Follows(f) /\ Keeps(f)
    BY <1>5, <1>6, <2>1 DEF Follows, HasLeft, Trees, Keeps, Collecting
  <2> QED
    BY <1>1, <1>6, <1>8, <2>1, <2>2, <2>3, <2>4, CallsBare
<1> QED
  BY <1>4, <1>7, <1>8

(* parser.c:725-798 gathers. *)
LEMMA PrefixGathers ==
    ASSUME Smooth, parser_prefix
    PROVE  Gathers
<1>1. Known /\ Running /\ ret = Entered /\ Top.do = "climb" /\ Top.left = NULL /\ IInv /\ Firm
  BY SmoothFacts DEF parser_prefix, Runs, Smooth
<1>2. PICK leaf : leaf = CASE peek = "INT" -> ast_new_int_expr({pos + 1})
                           [] peek = "STRING" -> ast_new_string_expr({pos + 1})
                           [] peek = "CHAR" -> ast_new_char_expr({pos + 1})
                           [] OTHER -> ast_new_ident_expr({pos + 1})
  OBVIOUS
<1>3. PICK f : f = [Top EXCEPT !.left = leaf]
  OBVIOUS
<1>4. PICK new, paren, unary : /\ new = [Frame("new") EXCEPT !.own = {pos + 1}]
                               /\ paren = [Frame("paren") EXCEPT !.own = {pos + 1}]
                               /\ unary = [Frame("unary") EXCEPT !.own = {pos + 1}]
  OBVIOUS
<1>5. PICK frames : frames = CASE peek = "NEW" -> <<new>> \o Expression(Top.opt)
                               [] peek = "LPAREN" -> <<paren>> \o Expression(FALSE)
                               [] OTHER -> <<unary, Climb(PRECEDENCE_UNARY, Top.opt)>>
  OBVIOUS
<1>6. /\ \/ New(leaf) /\ Continue(f)
         \/ UNCHANGED memory /\ Call(Top, frames)
      /\ UNCHANGED <<toks, mod, bails>>
  BY <1>1, <1>2, <1>3, <1>4, <1>5, SmoothFacts DEF parser_prefix
<1>7. CASE New(leaf) /\ Continue(f)
  <2>1. Bundles(leaf, {pos + 1}, {})
    <3>1. \/ leaf = ast_new_int_expr({pos + 1}) \/ leaf = ast_new_string_expr({pos + 1})
          \/ leaf = ast_new_char_expr({pos + 1}) \/ leaf = ast_new_ident_expr({pos + 1})
      BY <1>2
    <3> QED
      BY <3>1, ExprBundles
  <2>2. \A x : ~Bears(x)
    BY <1>1, TopBears, NoNodes DEF Bears, HasKids
  <2>3. f.do = "climb" /\ f.left = leaf /\ f.kids = {}
    BY <1>1, <1>3 DEF Known, Placed, Shaped, HasKids
  <2>4. PICK A : /\ Allots(A) /\ (\A x \in A : Dated(x)) /\ Rooted(leaf)
                 /\ \A x : x \in leaf.nodes <=> Bears(x) \/ x \in A
    BY <1>1, <1>6, <1>7, <2>1, <2>2, NewGathers DEF Dates
  <2>5. \A x : Contains(f, x) <=> Bears(x) \/ x \in A
    BY <2>3, <2>4 DEF Contains
  <2>6. Follows(f)
    BY <1>1, <2>3, <2>4, NoNodes DEF Follows, HasLeft, Trees
  <2> QED
    BY <1>1, <1>7, <2>3, <2>4, <2>5, <2>6, ContinuesGathers DEF Collecting
<1>8. CASE UNCHANGED memory /\ Call(Top, frames)
  <2>1. PICK g : Bare(g) /\ Callable(frames, g)
    <3>1. /\ Bare(new) /\ new.do = "new" /\ Bare(paren) /\ paren.do = "paren"
          /\ Bare(unary) /\ unary.do = "unary"
      BY <1>4, BareFrames DEF Collecting
    <3> QED
      BY <1>5, <3>1, CallsOperand DEF Collecting
  <2> QED
    BY <1>1, <1>6, <1>8, <2>1, SameCalls DEF HasLeft, Collecting
<1> QED
  BY <1>6, <1>7, <1>8

(* parser.c:760-772 gathers. *)
LEMMA ParenGathers ==
    ASSUME Smooth, paren_parsed
    PROVE  Gathers
<1>1. Known /\ Running /\ ret # Entered /\ Top.do = "paren" /\ IInv /\ Firm
  BY SmoothFacts DEF paren_parsed, Returns, Smooth
<1>2. PICK v : /\ v = [ret EXCEPT !.reads = @ \cup Top.own \cup {pos + 1}]
               /\ v = [ret EXCEPT !.reads = @ \cup (Top.own \cup {pos + 1})]
  <2>1. ret.reads \cup Top.own \cup {pos + 1} = ret.reads \cup (Top.own \cup {pos + 1})
    OBVIOUS
  <2> QED
    BY <2>1
<1>3. Return(v) /\ (UNCHANGED memory) /\ mod' = mod
  BY <1>1, <1>2, SmoothFacts DEF paren_parsed
<1>4. v.nodes = ret.nodes /\ Rooted(v)
  BY <1>1, <1>2, SmoothFacts, HaveNodes, TopBears, WithRooted
<1>5. \A x : x \in v.nodes <=> Bears(x) \/ x \in {}
  BY <1>1, <1>4, TopBears DEF Bears, HasLeft, HasKids
<1> QED
  BY <1>1, <1>3, <1>4, <1>5, Quiets, ReturnsGathers

(* parser.c:800-914 gathers. *)
LEMMA AroundGathers ==
    ASSUME Smooth, around_parsed
    PROVE  Gathers
<1>1. Known /\ Running /\ ret # Entered /\ Top.do \in Around /\ IInv /\ Firm
  BY SmoothFacts DEF around_parsed, Returns, Smooth
<1>2. PICK v : v = CASE Top.do = "expr_stmt" -> ast_new_expr_stmt(Top.own, ret)
                     [] Top.do = "delete" -> ast_new_delete_stmt(Top.own, ret)
                     [] Top.do = "return" -> ast_new_return_stmt(Top.own, ret)
                     [] Top.do = "let" -> ast_new_let_stmt(Top.own, ret)
                     [] Top.do = "new" -> ast_new_new_expr(Top.own, ret)
                     [] Top.do = "unary" -> ast_new_unary_expr(Top.own, ret)
                     [] Top.do = "access" -> ast_new_access_expr(Top.own, Top.left, ret)
                     [] Top.do = "binary" -> ast_new_binary_expr(Top.own, Top.left, ret)
  OBVIOUS
<1>3. Return(v) /\ New(v) /\ mod' = mod
  BY <1>1, <1>2, SmoothFacts DEF around_parsed
<1>4. \A x : Bears(x) <=> x \in Top.left.nodes \/ x \in ret.nodes
  BY <1>1, TopBears DEF Bears, HasKids, Around
<1>5. CASE Top.do \in {"access", "binary"}
  <2>1. Bundles(v, Top.own, {Top.left, ret})
    BY <1>2, <1>5, ExprBundles
  <2>2. \A x : Bears(x) <=> \E u \in {Top.left, ret} : x \in u.nodes
    BY <1>4
  <2> QED
    BY <1>1, <1>3, <2>1, <2>2, SmoothFacts, HaveNodes, NewReturns DEF Dates, Trees
<1>6. CASE Top.do \in Around \ {"access", "binary"}
  <2>1. Bundles(v, Top.own, {ret})
    <3>1. \/ v = ast_new_expr_stmt(Top.own, ret) \/ v = ast_new_delete_stmt(Top.own, ret)
          \/ v = ast_new_return_stmt(Top.own, ret) \/ v = ast_new_let_stmt(Top.own, ret)
          \/ v = ast_new_new_expr(Top.own, ret) \/ v = ast_new_unary_expr(Top.own, ret)
      BY <1>2, <1>6 DEF Around
    <3> QED
      BY <3>1, StmtBundles, ExprBundles
  <2>2. Top.left.nodes = {}
    BY <1>1, <1>6, TopBears DEF HasLeft, Around
  <2>3. \A x : Bears(x) <=> \E u \in {ret} : x \in u.nodes
    BY <1>4, <2>2
  <2> QED
    BY <1>1, <1>3, <2>1, <2>3, SmoothFacts, HaveNodes, NewReturns DEF Dates
<1> QED
  BY <1>1, <1>5, <1>6

(* What the loop over operands bears. *)
LEMMA ClimbBears ==
    ASSUME IInv, Firm, Running, ~Failed, Top.do = "climb"
    PROVE  /\ ret = Entered => \A x : Bears(x) <=> x \in Top.left.nodes
           /\ ret # Entered => \A x : Bears(x) <=> x \in ret.nodes
<1>1. \A x : Bears(x) <=> x \in Top.left.nodes \/ x \in ret.nodes
  BY TopBears DEF Bears, HasKids
<1>2. ret # Entered => ret.kind # "entered"
  BY Knows DEF Known, IsTree
<1>3. ret # Entered => Top.left.nodes \subseteq ret.nodes
  BY <1>2 DEF Firm, Lefts, Failed
<1> QED
  BY <1>1, <1>3, NoNodes

(* parser.c:689-709 gathers. *)
LEMMA OperandGathers ==
    ASSUME Smooth, operand_done
    PROVE  Gathers
<1>1. Known /\ Running /\ ret = Entered /\ Top.do = "climb" /\ IInv /\ Firm
  BY SmoothFacts DEF operand_done, Runs, Smooth
<1>2. Return(Top.left) /\ (UNCHANGED memory) /\ mod' = mod
  BY DEF operand_done
<1>3. PICK v : v = Top.left
  OBVIOUS
<1>4. Return(v) /\ \A x : x \in v.nodes <=> Bears(x) \/ x \in {}
  BY <1>1, <1>2, <1>3, SmoothFacts, ClimbBears
<1>5. Rooted(v)
  BY <1>1, <1>3, TopBears DEF Trees
<1> QED
  BY <1>1, <1>2, <1>4, <1>5, Quiets, ReturnsGathers

(* parser.c:800-914 gathers. *)
LEMMA InfixGathers ==
    ASSUME Smooth, parser_infix
    PROVE  Gathers
<1>1. Known /\ Running /\ ret = Entered /\ Top.do = "climb" /\ IInv /\ Firm
  BY SmoothFacts DEF parser_infix, Runs, Smooth
<1> DEFINE Waits(do) == [Frame(do) EXCEPT !.own = {pos + 1}, !.left = Top.left, !.start = pos + 1]
<1>2. PICK frames : frames = CASE peek = "DOT" -> <<Waits("access")>> \o Expression(Top.opt)
                       [] peek = "LPAREN" -> <<Waits("args")>>
                       [] peek = "LBRACE" -> <<Waits("inits")>>
                       [] OTHER -> <<Waits("binary"), Climb(precedence_get(peek), Top.opt)>>
  OBVIOUS
<1>3. Call(Top, frames) /\ (UNCHANGED memory) /\ mod' = mod
  BY <1>2 DEF parser_infix
<1>4. \A do : Waits(do).do = do /\ Waits(do).left = Top.left /\ Waits(do).kids = {}
  BY DEF Frame
<1> HIDE DEF Waits
<1>5. PICK do \in {"access", "args", "inits", "binary"} : Callable(frames, Waits(do))
  BY <1>2, <1>4, CallsOne, CallsOperand DEF Collecting
<1>6. \A x : Contains(Top, x) \/ Contains(Waits(do), x) <=> Bears(x) \/ x \in {}
  BY <1>1, <1>4, TopBears, NoNodes DEF Contains, Bears, HasKids
<1>7. Follows(Top) /\ Keeps(Top) /\ (Waits(do).do \notin HasLeft => Waits(do).left.nodes = {})
  BY <1>1, <1>4, <1>5, TopBears DEF Follows, HasLeft, Keeps, Collecting
<1>8. \A u \in Trees(Waits(do)) : Rooted(u)
  BY <1>1, <1>4, TopBears DEF Trees
<1> QED
  BY <1>1, <1>3, <1>4, <1>5, <1>6, <1>7, <1>8, Quiets, CallsGathers DEF Collecting

(* parser.c:843-852 gathers. *)
LEMMA AsGathers ==
    ASSUME Smooth, infix_as
    PROVE  Gathers
<1>1. Known /\ Running /\ ret = Entered /\ Top.do = "climb" /\ Top.left # NULL /\ IInv /\ Firm
  BY SmoothFacts DEF infix_as, Runs, Smooth
<1>2. PICK own, as : own = Reads(parser_consume_type(pos + 1).to) /\ as = ast_new_as_expr(own, Top.left)
  OBVIOUS
<1>3. PICK f : f = [Top EXCEPT !.left = as]
  OBVIOUS
<1>4. New(as) /\ Continue(f) /\ mod' = mod
  BY <1>1, <1>2, <1>3, SmoothFacts DEF infix_as
<1>5. Bundles(as, own, {Top.left})
  BY <1>2, ExprBundles
<1>6. f.do = "climb" /\ f.left = as /\ f.kids = {}
  BY <1>1, <1>3 DEF Known, Placed, Shaped, HasKids
<1>7. PICK A : /\ Allots(A) /\ (\A x \in A : Dated(x)) /\ Rooted(as)
               /\ \A x : x \in as.nodes <=> Bears(x) \/ x \in A
  <2>1. Dates(own, {Top.left}) /\ {Top.left} \subseteq Trees(Top) \cup {ret, NULL}
    BY <1>1, HaveNodes DEF Dates, Trees
  <2>2. \A x : Bears(x) <=> \E u \in {Top.left} : x \in u.nodes
    BY <1>1, SmoothFacts, ClimbBears
  <2> QED
    BY <1>1, <1>4, <1>5, <2>1, <2>2, NewGathers
<1>8. \A x : Contains(f, x) <=> Bears(x) \/ x \in A
  BY <1>6, <1>7 DEF Contains
<1>9. Follows(f)
  BY <1>5, <1>6, <1>7 DEF Follows, HasLeft, Bundles, Trees
<1> QED
  BY <1>1, <1>4, <1>6, <1>7, <1>8, <1>9, ContinuesGathers DEF Collecting

(* parser.c:689-709 gathers. *)
LEMMA ClimbOnGathers ==
    ASSUME Smooth, climb_on
    PROVE  Gathers
<1>1. Known /\ Running /\ ret # Entered /\ Top.do = "climb" /\ IInv /\ Firm
  BY SmoothFacts DEF climb_on, Returns, Smooth
<1>2. PICK f : f = [Top EXCEPT !.left = ret]
  OBVIOUS
<1>3. Continue(f) /\ (UNCHANGED memory) /\ mod' = mod
  BY <1>1, <1>2, SmoothFacts DEF climb_on
<1>4. f.do = "climb" /\ f.left = ret /\ f.kids = {}
  BY <1>1, <1>2 DEF Known, Placed, Shaped, HasKids
<1>5. \A x : Contains(f, x) <=> Bears(x) \/ x \in {}
  BY <1>1, <1>4, SmoothFacts, ClimbBears DEF Contains
<1>6. Follows(f)
  <2>1. \A x : x \in Top.left.nodes => Bears(x)
    BY DEF Bears, Contains
  <2> QED
    BY <1>1, <1>4, <2>1, SmoothFacts, ClimbBears, TopBears DEF Follows, HasLeft, Trees
<1> QED
  BY <1>1, <1>3, <1>4, <1>5, <1>6, Quiets, ContinuesGathers DEF Collecting

(* A list that goes on, or ends, with what it collects. *)
LEMMA ListGathers ==
    ASSUME IInv, Firm, Running, Known, Top.do \in Lists, NEW kids, kids = Top.kids \cup ({ret} \ {Entered}),
           NEW f, f.left = Top.left, f.kids = kids, f.do \in HasLeft \ {"climb"}, Keeps(f), mod' = mod, UNCHANGED memory,
           (Continue(f) /\ f.do \notin Collecting) \/ Call(f, Expression(FALSE))
    PROVE  Gathers
<1>1. \A x : Contains(f, x) <=> Bears(x) \/ x \in {}
  BY CollectedBears DEF Contains
<1>2. Follows(f)
  BY CollectedBears, TopBears DEF Follows, Trees
<1>3. PICK e : Callable(Expression(FALSE), e) /\ Bare(e)
  BY CallsOperand
<1>4. CASE Continue(f) /\ f.do \notin Collecting
  BY <1>1, <1>2, <1>4, Quiets, ContinuesGathers
<1>5. CASE Call(f, Expression(FALSE))
  <2>1. PICK t : t = Expression(FALSE)
    OBVIOUS
  <2>2. PICK A : A = {}
    OBVIOUS
  <2>3. f.do # "climb" /\ Allots(A) /\ \A x \in A : Dated(x)
    BY <2>2, Quiets
  <2>4. Call(f, t) /\ Callable(t, e) /\ Bare(e)
    BY <1>3, <1>5, <2>1
  <2>5. \A x : Contains(f, x) <=> Bears(x) \/ x \in A
    BY <1>1, <2>2
  <2> QED
    BY <1>2, <2>3, <2>4, <2>5, CallsBare
<1> QED
  BY <1>4, <1>5

(* parser.c:596-620 gathers. *)
LEMMA ArgListGathers ==
    ASSUME Smooth, parser_parse_arg_list
    PROVE  Gathers
<1>1. Known /\ Running /\ Top.do = "args" /\ IInv /\ Firm
  BY SmoothFacts DEF parser_parse_arg_list, Runs, Returns, Smooth
<1>2. PICK kids : kids = Top.kids \cup ({ret} \ {Entered})
  OBVIOUS
<1>3. PICK to : LET f == [Top EXCEPT !.kids = kids, !.own = @ \cup Reads(to)]
                IN  /\ Continue([f EXCEPT !.do = "close"]) \/ Call(f, Expression(FALSE))
                    /\ (UNCHANGED memory) /\ mod' = mod
  BY <1>2 DEF parser_parse_arg_list
<1>4. PICK f, g : /\ f = [Top EXCEPT !.kids = kids, !.own = @ \cup Reads(to)]
                  /\ g = [f EXCEPT !.do = "close"]
  OBVIOUS
<1>5. /\ f.left = Top.left /\ f.kids = kids /\ f.do = "args" /\ f.start = Top.start
      /\ g.left = Top.left /\ g.kids = kids /\ g.do = "close"
  BY <1>1, <1>4 DEF Known, Placed, Shaped
<1>6. Keeps(f) /\ Keeps(g)
  BY <1>1, <1>2, <1>5, NoNodes DEF Keeps, Collecting
<1> QED
  BY <1>1, <1>2, <1>3, <1>4, <1>5, <1>6, ListGathers DEF Lists, HasLeft, Collecting

(* parser.c:622-656 gathers. *)
LEMMA InitListGathers ==
    ASSUME Smooth, parser_parse_init_list
    PROVE  Gathers
<1>1. Known /\ Running /\ Top.do = "inits" /\ IInv /\ Firm
  BY SmoothFacts DEF parser_parse_init_list, Runs, Returns, Smooth
<1>2. PICK kids : kids = Top.kids \cup ({ret} \ {Entered})
  OBVIOUS
<1>3. PICK to : /\ \/ Continue([Top EXCEPT !.do = "close", !.kids = kids, !.opt = TRUE])
                   \/ Call([Top EXCEPT !.kids = kids, !.own = @ \cup Reads(to)], Expression(FALSE))
                /\ (UNCHANGED memory) /\ mod' = mod
  <2>1. \A r : Bail(r.to) => ~Free(kids, FALSE) \/ mod' # mod
    BY <1>1, <1>2, BailSheds DEF Smooth, Collecting
  <2> QED
    BY <1>2, <2>1 DEF parser_parse_init_list
<1>4. PICK f, g : /\ f = [Top EXCEPT !.kids = kids, !.own = @ \cup Reads(to)]
                  /\ g = [Top EXCEPT !.do = "close", !.kids = kids, !.opt = TRUE]
  OBVIOUS
<1>5. /\ f.left = Top.left /\ f.kids = kids /\ f.do = "inits" /\ f.start = Top.start
      /\ g.left = Top.left /\ g.kids = kids /\ g.do = "close"
  BY <1>1, <1>4 DEF Known, Placed, Shaped
<1>6. Keeps(f) /\ Keeps(g)
  BY <1>1, <1>2, <1>5, NoNodes DEF Keeps, Collecting
<1> QED
  BY <1>1, <1>2, <1>3, <1>4, <1>5, <1>6, ListGathers DEF Lists, HasLeft, Collecting

(* parser.c:815-841 gathers. *)
LEMMA CloseGathers ==
    ASSUME Smooth, close_list
    PROVE  Gathers
<1>1. Known /\ Running /\ ret = Entered /\ Top.do = "close" /\ IInv /\ Firm
  BY SmoothFacts DEF close_list, Runs, Smooth
<1>2. PICK r, own : /\ r = Consume(pos, <<IF Top.opt THEN "RBRACE" ELSE "RPAREN">>)
                    /\ own = Top.own \cup Reads(r.to)
  OBVIOUS
<1>3. PICK v : v = IF Top.opt THEN ast_new_init_expr(own, Top.left, Top.kids)
                              ELSE ast_new_call_expr(own, Top.left, Top.kids)
  OBVIOUS
<1>4. New(v) /\ Return(v) /\ r.ok /\ mod' = mod
  BY <1>1, <1>2, <1>3, SmoothFacts DEF close_list
<1>5. Bundles(v, own, {Top.left} \cup Top.kids)
  BY <1>3, ExprBundles
<1>6. \A x : Bears(x) <=> \E u \in {Top.left} \cup Top.kids : x \in u.nodes
  BY <1>1, NoNodes DEF Bears, Contains
<1>7. pos + 1 \in own
  BY <1>1, <1>2, <1>4, ReadsFirst
<1> QED
  BY <1>1, <1>4, <1>5, <1>6, <1>7, NewReturns DEF Dates, Trees


-----------------------------------------------------------------------------
(* What parser_parse leaves: the statements of the module, one more if one *)
(* was returned to it.                                                     *)
LEMMA ParseLeaves ==
    ASSUME IInv, Firm, parser_parse
    PROVE  /\ live' = live /\ faults' = faults /\ ~Failed' /\ ret'.nodes = {} /\ Rooted(ret')
           /\ \A x : Contained(Len(stack), x) <=> \E i \in 1 .. Len(mod) : x \in mod[i].nodes
           /\ \A x : (\E i \in 1 .. Len(mod') : x \in mod'[i].nodes)
                   <=> (\E i \in 1 .. Len(mod) : x \in mod[i].nodes) \/ (~Failed /\ x \in ret.nodes)
           /\ \A i \in 1 .. Len(mod') : Rooted(mod'[i])
           /\ \A x : Contained(Len(stack), x)' <=> \E i \in 1 .. Len(mod') : x \in mod'[i].nodes
           /\ \A i \in 1 .. Len(stack') : /\ stack'[i].left.nodes = {} /\ stack'[i].kids = {}
                                          /\ stack'[i].do \in {"parse", "statement"}
                                          /\ \A t \in Trees(stack'[i]) : Rooted(t)
<1>1. Known /\ Running /\ Top.do = "parse"
  BY Knows DEF parser_parse
<1>2. Len(stack) = 1 /\ Top = stack[1]
  BY <1>1 DEF Known, Placed, Top
<1>3. live' = live /\ faults' = faults
  BY DEF parser_parse, memory
<1>4. Top.left.nodes = {} /\ Top.kids = {} /\ Rooted(ret) /\ \A t \in Trees(Top) : Rooted(t)
  BY <1>1, TopBears DEF HasLeft, HasKids
<1>5. \A x : Contained(Len(stack), x) <=> \E i \in 1 .. Len(mod) : x \in mod[i].nodes
  BY <1>2, <1>4 DEF Contained, Contains
<1>6. PICK kept : kept = (ret.kind \notin {"entered", "NULL"})
  OBVIOUS
<1>7. IF kept THEN mod' = Append(mod, ret) /\ ~Failed
              ELSE mod' = mod /\ (Failed \/ ret.nodes = {})
  BY <1>1, <1>6, NoNodes DEF parser_parse, mod_push_stmt, Failed, Known, IsTree
<1>8. PICK n, S : n \in Nat /\ mod \in Seq(S) /\ n = Len(mod)
  <2>1. PICK S : mod \in Seq(S)
    BY DEF IInv, Typed
  <2>2. Len(mod) \in Nat
    BY <2>1
  <2> QED
    BY <2>1, <2>2
<1>9. \A i \in 1 .. n : Rooted(mod[i])
  BY <1>8 DEF Firm, Rooting
<1>10. kept => Len(mod') = n + 1 /\ mod'[n + 1] = ret /\ \A i \in 1 .. n : mod'[i] = mod[i]
  BY <1>7, <1>8
<1>11. \A i : i \in 1 .. n + 1 <=> i \in 1 .. n \/ i = n + 1
  BY <1>8
<1>12. \A x : (\E i \in 1 .. Len(mod') : x \in mod'[i].nodes)
           <=> (\E i \in 1 .. Len(mod) : x \in mod[i].nodes) \/ (~Failed /\ x \in ret.nodes)
  BY <1>7, <1>8, <1>10, <1>11
<1>13. \A i \in 1 .. Len(mod') : Rooted(mod'[i])
  BY <1>4, <1>7, <1>8, <1>9, <1>10, <1>11
<1>14. ~Failed' /\ ret'.nodes = {} /\ Rooted(ret')
  <2>1. ret' = Returned \/ ret' = Entered
    BY DEF parser_parse, Call
  <2> QED
    BY <2>1 DEF Failed, Rooted, Returned, Entered, NULL, Marks
<1>15. \A i \in 1 .. Len(stack') : /\ stack'[i].left.nodes = {} /\ stack'[i].kids = {}
                                   /\ stack'[i].do \in {"parse", "statement"}
                                   /\ \A t \in Trees(stack'[i]) : Rooted(t)
  <2>1. CASE peek = "EOF"
    <3>1. stack' = <<>>
      BY <2>1 DEF parser_parse
    <3> QED
      BY <3>1
  <2>2. CASE peek # "EOF"
    <3>1. PICK g : g = Frame("statement")
      OBVIOUS
    <3>2. stack' = Pushed(Top, <<g>>)
      BY <2>2, <3>1 DEF parser_parse, Call, Pushed
    <3>3. /\ Grown(stack', Len(stack), Len(stack) + 1)
          /\ stack'[Len(stack)] = Top /\ stack'[Len(stack) + 1] = g
      BY <1>1, <3>2, GrowsOne DEF IInv
    <3>4. Len(stack') = 2 /\ stack'[1] = Top /\ stack'[2] = g
      BY <1>2, <3>3 DEF Grown
    <3>5. Bare(g) /\ g.do = "statement"
      BY <3>1, BareFrames DEF Collecting
    <3>6. \A i \in 1 .. 2 : i = 1 \/ i = 2
      OBVIOUS
    <3>7. g.left.nodes = {} /\ g.kids = {} /\ \A t \in Trees(g) : Rooted(t)
      BY <3>5, BareRooted DEF Bare
    <3> QED
      BY <1>1, <1>4, <3>4, <3>5, <3>6, <3>7
  <2> QED
    BY <2>1, <2>2
<1>16. \A x : Contained(Len(stack), x)' <=> \E i \in 1 .. Len(mod') : x \in mod'[i].nodes
  BY <1>15 DEF Contained, Contains
<1> QED
  BY <1>3, <1>5, <1>12, <1>13, <1>14, <1>15, <1>16

(* It keeps Firm, *)
LEMMA ParseFirm ==
    ASSUME IInv, Firm, parser_parse
    PROVE  Firm'
<1>1. Rooting'
  BY ParseLeaves DEF Rooting, Rooted, Trees, Marks
<1>2. Lefts' /\ Beyond'
  <2>1. \A i \in 1 .. Len(stack') - 1 : i \in 1 .. Len(stack')
    <3>1. CASE peek = "EOF"
      <4>1. Len(stack') = 0
        BY <3>1 DEF parser_parse
      <4> QED
        BY <4>1
    <3>2. CASE peek # "EOF"
      <4>1. Stacked /\ Running /\ stack' = Pushed(Top, <<Frame("statement")>>)
        BY <3>2 DEF IInv, parser_parse, Call, Pushed
      <4>2. Len(stack') \in Nat
        BY <4>1, Popped, GrowsOne DEF Grown
      <4> QED
        BY <4>2
    <3> QED
      BY <3>1, <3>2
  <2>2. ret'.kind \in {"entered", "returned"} /\ (ret'.kind = "returned" => ~Running')
    BY DEF parser_parse, Call, Entered, Returned, NULL, Running
  <2>3. \A i \in 1 .. Len(stack') : stack'[i].left.nodes = {} /\ stack'[i].do \notin Collecting \cup {"climb"}
    BY ParseLeaves DEF Collecting
  <2>4. Lefts'
    <3>1. ~(Running' /\ ret'.kind \notin {"entered", "NULL"})
      BY <2>2
    <3> QED
      BY <2>1, <2>3, <3>1 DEF Lefts
  <2> QED
    BY <2>3, <2>4 DEF Beyond
<1>3. Living'
  <2>2. \A x : (\E i \in 1 .. Len(mod) : x \in mod[i].nodes) \/ (~Failed /\ x \in ret.nodes) => x \in live
    BY DEF Firm, Living, Contained
  <2>3. \A x : Contained(Len(stack), x)' \/ x \in ret'.nodes => x \in live'
    BY <2>2, ParseLeaves
  <2>4. \A x : Contained(0, x)' => x \in live'
    <3>1. \A j : j \notin 1 .. 0
      OBVIOUS
    <3>2. \A x : Contained(0, x)' => \E i \in 1 .. Len(mod') : x \in mod'[i].nodes
      BY <3>1 DEF Contained
    <3> QED
      BY <2>2, <3>2, ParseLeaves
  <2>5. \A i \in 1 .. Len(stack') : stack'[i].do \notin Collecting
    BY ParseLeaves DEF Collecting
  <2> QED
    BY <2>3, <2>4, <2>5 DEF Living
<1> QED
  BY <1>1, <1>2, <1>3 DEF Firm

(* and Tidy unless a statement failed. *)
LEMMA ParseTidy ==
    ASSUME IInv, Firm, Tidy, parser_parse, ~Failed
    PROVE  Tidy'
<1>1. \A x : x \in live' <=> Contained(Len(stack), x)' \/ x \in ret'.nodes
  BY ParseLeaves DEF Tidy
<1> QED
  BY <1>1, ParseLeaves DEF Tidy, Unharmed

-----------------------------------------------------------------------------
(* What is freed is in no statement of the module, *)
LEMMA ApartModule ==
    ASSUME IInv, Firm, Running, Top.do # "parse", NEW x, Bears(x)
    PROVE  ~Contained(0, x)
<1>1. Known /\ Len(stack) \in 2 .. Len(stack)
  BY Knows DEF Known
<1>2. Ordered /\ Covered
  <2>1. ret # Aborted
    BY <1>1 DEF Known, IsTree, Aborted, Entered, NULL
  <2> QED
    BY <2>1 DEF IInv
<1>3. PICK t \in Trees(Top) \cup {ret} : x \in t.nodes
  BY DEF Bears, Contains, Trees
<1>4. Rooted(t)
  BY <1>3, TopBears
<1>5. PICK k : k \in x.reads /\ k \in t.reads
  BY <1>3, <1>4 DEF Rooted
<1>6. k \in ret.reads \/ Holds(stack[Len(stack)], k)
  BY <1>3, <1>5 DEF Trees, Holds, Top
<1>7. k > Begin /\ k \in Int /\ Begin \in Int
  <2>1. k > Begin
    BY <1>1, <1>2, <1>6 DEF Ordered
  <2>2. Held(Len(stack), k) \/ k \in ret.reads
    BY <1>1, <1>6 DEF Held
  <2>3. k \in 1 .. pos
    BY <1>2, <2>2 DEF Covered
  <2>4. Placed(stack[2], 2, errors, pos) /\ pos \in Nat
    BY <1>1 DEF IInv, Stacked, Known
  <2>5. Begin \in Int
    BY <2>4 DEF Begin, Placed, Shaped
  <2> QED
    BY <2>1, <2>3, <2>5
<1>8. SUFFICES ASSUME NEW i \in 1 .. Len(mod), x \in mod[i].nodes PROVE FALSE
  <2>1. \A j : j \notin 1 .. 0
    OBVIOUS
  <2> QED
    BY <1>8, <2>1 DEF Contained
<1>9. k \in mod[i].reads
  BY <1>5, <1>8 DEF Firm, Rooting, Rooted
<1> QED
  BY <1>2, <1>7, <1>9 DEF Ordered

(* nor in what a list that may be given up leaves to its callers.          *)
LEMMA ApartList ==
    ASSUME IInv, Firm, Running, NEW i \in 1 .. Len(stack), stack[i].do \in Collecting,
           NEW x, Within(i, Len(stack), x)
    PROVE  ~Contained(i - 1, x) /\ x \notin stack[i].left.nodes
<1>1. Late(x, stack[i].start)
  BY DEF Firm, Beyond
<1>2. Known /\ Covered
  <2>1. Known
    BY Knows
  <2>2. ret # Aborted
    BY <2>1 DEF Known, IsTree, Aborted, Entered, NULL
  <2> QED
    BY <2>1, <2>2 DEF IInv
<1>3. Catches(i)
  BY <1>2 DEF Covered, Lists, Collecting
<1>4. PICK k : k \in x.reads /\ k > stack[i].start
  BY <1>1 DEF Late
<1>5. ~Held(i - 1, k) /\ k \notin stack[i].left.reads
  <2>1. SUFFICES ASSUME Held(i - 1, k) \/ k \in stack[i].left.reads PROVE FALSE
    OBVIOUS
  <2>2. k <= stack[i].start
    BY <1>3, <2>1 DEF Catches
  <2>3. k \in 1 .. pos /\ stack[i].start \in Nat
    <3>1. Placed(stack[i], i, errors, pos)
      BY DEF IInv, Stacked
    <3>2. Held(Len(stack), k)
      <4>1. \A j \in 1 .. i - 1 : j \in 1 .. Len(stack)
        BY <1>2 DEF Known
      <4> QED
        BY <2>1, <4>1 DEF Held, Holds
    <3> QED
      BY <1>2, <3>1, <3>2 DEF Covered, Placed, Shaped
  <2> QED
    BY <1>2, <1>4, <2>2, <2>3 DEF Known
<1>6. x \notin stack[i].left.nodes
  <2>1. Rooted(stack[i].left)
    BY DEF Firm, Rooting, Trees
  <2> QED
    BY <1>4, <1>5, <2>1 DEF Rooted
<1>7. ~\E j \in 1 .. Len(mod) : x \in mod[j].nodes
  BY <1>4, <1>5 DEF Firm, Rooting, Rooted, Held
<1>8. ASSUME NEW j \in 1 .. i - 1 PROVE ~Contains(stack[j], x)
  <2>1. j \in 1 .. Len(stack)
    BY <1>2 DEF Known
  <2>2. \A t \in Trees(stack[j]) : Rooted(t)
    BY <2>1 DEF Firm, Rooting
  <2>3. \A t \in Trees(stack[j]) : k \notin t.reads
    BY <1>5 DEF Held, Holds, Trees
  <2> QED
    BY <1>4, <2>2, <2>3 DEF Contains, Trees, Rooted
<1> QED
  BY <1>6, <1>7, <1>8 DEF Contained

(* So a function that fails keeps Firm, *)
LEMMA FallsFirm ==
    ASSUME IInv, Firm, Running, Falls
    PROVE  Firm'
<1>1. PICK n \in Nat \ {0} : n = Len(stack)
  BY Popped DEF IInv
<1>2. /\ Grown(stack', n, n - 1) /\ n - 1 \in Nat /\ mod' = mod /\ ret' = NULL
      /\ Top.do # "parse"
  BY <1>1, GrowsNone DEF IInv, Falls, Return
<1>3. /\ Len(stack') = n - 1 /\ \A i \in 1 .. n - 1 : stack'[i] = stack[i]
      /\ \A i \in 0 .. n - 1 : \A x : Contained(i, x)' <=> Contained(i, x)
  BY <1>1, <1>2, StaysContained DEF Grown
<1>4. PICK vs : /\ \A v \in vs : v \in Trees(Top) \/ v = ret
                /\ live' = live \ UNION {v.frees : v \in vs}
  BY DEF Falls
<1>5. \A x \in live : x \in live' \/ Bears(x)
  <2>1. \A v \in vs : \A x \in v.frees : x \in v.nodes
    BY <1>4, TopBears DEF Rooted
  <2>2. \A v \in vs : \A x \in v.nodes : Bears(x)
    BY <1>4 DEF Bears, Contains, Trees
  <2> QED
    BY <1>4, <2>1, <2>2
<1>6. Rooting'
  <2>1. \A i \in n .. n - 1 : FALSE
    BY <1>1
  <2> QED
    BY <1>1, <1>2, <2>1, StepRooting, NoNodes DEF Firm
<1>7. Lefts'
  <2>1. \A i \in 1 .. n - 1 : i \in 1 .. n
    BY <1>1
  <2>2. \A i \in 1 .. n - 1 - 1 : i \in 1 .. n - 1 /\ i + 1 \in 1 .. n - 1
    BY <1>1
  <2>3. ret'.kind = "NULL"
    BY <1>2, NoNodes
  <2> QED
    BY <1>1, <1>3, <2>1, <2>2, <2>3 DEF Firm, Lefts
<1>8. ASSUME NEW i \in 1 .. n - 1 PROVE \A x : Within(i, n - 1, x)' \/ Bears(x) => Within(i, n, x)
  <2>1. n \in i + 1 .. n /\ \A j \in i + 1 .. n - 1 : j \in i + 1 .. n /\ j \in 1 .. n - 1
    BY <1>1
  <2>2. \A x : Bears(x) => Within(i, n, x)
    BY <1>1, <2>1 DEF Bears, Within, Top
  <2>3. \A x : Within(i, n - 1, x)' => Within(i, n, x)
    BY <1>2, <1>3, <2>1, NoNodes DEF Within, Contains
  <2> QED
    BY <2>2, <2>3
<1>9. Beyond'
  <2>1. \A i \in 1 .. n - 1 : i \in 1 .. n
    BY <1>1
  <2> QED
    BY <1>1, <1>3, <1>8, <2>1 DEF Firm, Beyond, Late
<1>10. \A x : Contained(0, x)' => x \in live'
  <2>1. \A x : Contained(0, x)' => Contained(0, x) /\ x \in live
    BY <1>1, <1>3 DEF Firm, Living
  <2> QED
    BY <1>2, <1>5, <2>1, ApartModule
<1>11. ASSUME NEW i \in 1 .. n - 1, stack'[i].do \in Collecting,
              NEW x, Contained(i - 1, x)' \/ x \in stack'[i].left.nodes
       PROVE  x \in live'
  <2>1. stack'[i] = stack[i] /\ i \in 1 .. Len(stack) /\ i - 1 \in 0 .. n - 1
    BY <1>1, <1>3
  <2>2. Contained(i - 1, x) \/ x \in stack[i].left.nodes
    BY <1>3, <1>11, <2>1
  <2>3. x \in live
    BY <1>11, <2>1, <2>2 DEF Firm, Living
  <2>4. ~Within(i, Len(stack), x)
    BY <1>11, <2>1, <2>2, ApartList
  <2> QED
    BY <1>1, <1>5, <1>8, <2>3, <2>4
<1>12. Failed'
  BY <1>2, NoNodes DEF Failed
<1>13. Living'
  BY <1>3, <1>10, <1>11, <1>12 DEF Living
<1> QED
  BY <1>6, <1>7, <1>9, <1>13 DEF Firm

(* and so does a list that is given up.                                    *)
LEMMA ShedsFirm ==
    ASSUME IInv, Firm, Running, Sheds
    PROVE  Firm'
<1>1. PICK n \in Nat \ {0} : n = Len(stack)
  BY Popped DEF IInv
<1>2. PICK f : Continue(f) /\ f.do = "close" /\ f.left = Top.left /\ f.kids = {}
  BY DEF Sheds
<1>3. /\ Grown(stack', n, n) /\ stack'[n] = f
      /\ mod' = mod /\ ret' = Entered /\ Top.do \in Collecting
  BY <1>1, <1>2, GrowsNone DEF IInv, Continue, Sheds
<1>4. /\ Len(stack') = n /\ \A i \in 1 .. n - 1 : stack'[i] = stack[i]
      /\ \A i \in 0 .. n - 1 : \A x : Contained(i, x)' <=> Contained(i, x)
  BY <1>1, <1>3, StaysContained DEF Grown
<1>5. PICK vs : /\ \A v \in vs : v \in Top.kids \/ v = ret
                /\ live' = live \ UNION {v.frees : v \in vs}
  BY DEF Sheds
<1>6. \A x \in live : x \in live' \/ (Bears(x) /\ Within(n, n, x))
  <2>1. \A v \in vs : \A x \in v.frees : x \in v.nodes
    BY <1>5, TopBears DEF Rooted, Trees
  <2>2. \A v \in vs : \A x \in v.nodes : Bears(x) /\ Within(n, n, x)
    BY <1>1, <1>5 DEF Bears, Contains, Within, Top
  <2> QED
    BY <1>5, <2>1, <2>2
<1>7. n \in 1 .. Len(stack) /\ stack[n] = Top /\ Top.do # "parse"
  BY <1>1, <1>3 DEF Top, Collecting
<1>8. \A x : Contained(n, x)' <=> Contained(n - 1, x) \/ x \in Top.left.nodes
  <2>1. \A i \in n .. n : i = n
    BY <1>1
  <2>2. \A x : Contained(n, x)' <=> \/ Contained(n - 1, x)
                                    \/ \E i \in n .. n : Contains(stack'[i], x)
    BY <1>1, <1>3, StepContained
  <2>3. n \in n .. n /\ \A x : Contains(f, x) <=> x \in Top.left.nodes
    BY <1>1, <1>2 DEF Contains
  <2> QED
    BY <1>3, <2>1, <2>2, <2>3
<1>9. Rooting'
  <2>1. \A i \in n .. n : i = n
    BY <1>1
  <2>2. \A t \in Trees(f) : Rooted(t)
    BY <1>2, TopBears DEF Trees
  <2> QED
    BY <1>1, <1>3, <2>1, <2>2, StepRooting, NoNodes DEF Firm
<1>10. Lefts'
  <2>1. \A i \in 1 .. n : i = n \/ i \in 1 .. n - 1
    BY <1>1
  <2>2. \A i \in 1 .. n - 1 : i + 1 \in 1 .. n /\ i \in 1 .. n
    BY <1>1
  <2>3. ret'.kind = "entered" /\ f.do \in HasLeft
    BY <1>2, <1>3, NoNodes DEF HasLeft
  <2>4. \A i \in 1 .. n : stack'[i].left = stack[i].left /\ (stack'[i] = stack[i] \/ stack'[i].do = "close")
    BY <1>2, <1>3, <1>4, <1>7, <2>1
  <2>5. \A i \in 1 .. n : stack'[i].do \notin HasLeft => stack'[i].left.nodes = {}
    BY <1>1, <2>4 DEF Firm, Lefts, HasLeft
  <2>6. \A i \in 1 .. n - 1 : stack'[i].do = "climb" =>
            stack'[i].left.nodes \subseteq stack'[i + 1].left.nodes
    BY <1>1, <1>4, <2>2, <2>4 DEF Firm, Lefts
  <2> QED
    BY <1>4, <2>3, <2>5, <2>6 DEF Lefts
<1>11. Beyond'
  <2>1. ASSUME NEW i \in 1 .. n, stack'[i].do \in Collecting, NEW x, Within(i, n, x)'
        PROVE  Late(x, stack'[i].start)
    <3>1. i # n
      BY <1>2, <1>3, <2>1 DEF Collecting
    <3>2. i \in 1 .. n - 1 /\ stack'[i] = stack[i]
      BY <1>1, <1>4, <3>1
    <3>3. \A j \in i + 1 .. n : Contains(stack'[j], x) => Contains(stack[j], x)
      <4>1. \A j \in i + 1 .. n : j = n \/ j \in 1 .. n - 1
        BY <1>1
      <4>2. Contains(f, x) => Contains(Top, x)
        BY <1>2 DEF Contains
      <4> QED
        BY <1>3, <1>4, <1>7, <4>1, <4>2
    <3>4. Within(i, n, x)
      BY <1>3, <2>1, <3>2, <3>3, NoNodes DEF Within, Contains
    <3> QED
      BY <1>1, <2>1, <3>2, <3>4 DEF Firm, Beyond
  <2> QED
    BY <1>4, <2>1 DEF Beyond, Late
<1>12. \A x : Contained(n, x)' => x \in live'
  <2>1. \A x : Contained(n - 1, x) \/ x \in Top.left.nodes => x \in live
    BY <1>1, <1>3, <1>7 DEF Firm, Living
  <2>2. \A x : Contained(n - 1, x) \/ x \in Top.left.nodes => ~Within(n, n, x)
    BY <1>1, <1>3, <1>7, ApartList
  <2> QED
    BY <1>6, <1>8, <2>1, <2>2
<1>13. \A x : Contained(0, x)' => x \in live'
  <2>1. \A x : Contained(0, x)' => Contained(0, x) /\ x \in live
    BY <1>1, <1>4 DEF Firm, Living
  <2> QED
    BY <1>6, <1>7, <2>1, ApartModule
<1>14. \A i \in 1 .. n : \A x : Contained(i - 1, x)' \/ x \in stack'[i].left.nodes => Contained(n, x)'
  BY <1>1, <1>4 DEF Contained, Contains
<1>15. ret'.nodes = {}
  BY <1>3, NoNodes
<1>16. Living'
  BY <1>4, <1>12, <1>13, <1>14, <1>15 DEF Living
<1> QED
  BY <1>9, <1>10, <1>11, <1>16 DEF Firm

(* These are all that a step does after a function has failed.             *)
LEMMA RoughFacts ==
    ASSUME Known, mod' = mod
    PROVE  /\ Top.do # "parse" /\ Return(NULL) /\ (UNCHANGED memory) => Falls
           /\ Top.do # "parse" /\ Return(NULL) /\ Release(Top.left) => Falls
           /\ Top.do # "parse" /\ Return(NULL) /\ ReleaseList(Top.kids) => Falls
           /\ \A to : Fail(to) => Return(NULL)
<1>1. \A vs : Top.do # "parse" /\ Return(NULL) /\ vs \subseteq Trees(Top) /\ Drops(vs) => Falls
  BY DEF Falls, Drops
<1>2. Top.left \in Trees(Top) /\ Top.kids \subseteq Trees(Top)
  BY DEF Trees
<1>3. Release(Top.left) => \E vs : vs \subseteq Trees(Top) /\ Drops(vs)
  <2>1. Release(Top.left) => \E vs : vs \subseteq {Top.left} /\ Drops(vs)
    BY DropsFacts
  <2> QED
    BY <1>2, <2>1
<1>4. ReleaseList(Top.kids) => Drops(Top.kids)
  BY DropsFacts
<1>5. (UNCHANGED memory) => Drops({})
  BY DropsFacts
<1>6. \A to : Fail(to) => Return(NULL)
  BY DEF Fail
<1> QED
  BY <1>1, <1>2, <1>3, <1>4, <1>5, <1>6

LEMMA StatementRough ==
    ASSUME Known, Failed, Statement, ~parser_parse
    PROVE  Falls
<1>1. ret # Entered
  BY NoNodes DEF Failed
<1>2. CASE statement_failed
  BY <1>2, RoughFacts DEF statement_failed, Returns
<1>3. CASE func_body
  BY <1>3, RoughFacts DEF func_body, Returns
<1>4. CASE condition_parsed
  BY <1>4, RoughFacts DEF condition_parsed, Returns
<1>5. CASE block_failed
  BY <1>5, RoughFacts DEF block_failed, Returns
<1>6. CASE else_parsed
  BY <1>6, RoughFacts DEF else_parsed, Returns
<1>7. CASE parser_free_statements
  BY <1>7, RoughFacts DEF parser_free_statements, Returns
<1>8. /\ ~statement_parsed /\ ~while_parsed /\ ~if_parsed /\ ~block_statement
      /\ ~parser_statement /\ ~parser_parse_func_def /\ ~parser_parse_param_list /\ ~func_signature
      /\ ~parser_parse_condition /\ ~parser_parse_type_stmt /\ ~parser_parse_field_list
      /\ ~parser_parse_delete_stmt /\ ~parser_parse_return_stmt /\ ~parser_parse_let_stmt
      /\ ~parser_parse_import_stmt /\ ~parser_parse_block
  BY <1>1 DEF statement_parsed, while_parsed, if_parsed, block_statement, parser_statement,
     parser_parse_func_def, parser_parse_param_list, func_signature, parser_parse_condition,
     parser_parse_type_stmt, parser_parse_field_list, parser_parse_delete_stmt,
     parser_parse_return_stmt, parser_parse_let_stmt, parser_parse_import_stmt, parser_parse_block, Runs
<1> QED
  BY <1>2, <1>3, <1>4, <1>5, <1>6, <1>7, <1>8 DEF Statement

LEMMA ExpressionRough ==
    ASSUME Known, Failed, Expr_
    PROVE  Falls \/ Sheds
<1>1. ret # Entered
  BY NoNodes DEF Failed
<1>2. CASE parser_expression
  BY <1>2, RoughFacts DEF parser_expression, Returns
<1>3. CASE paren_parsed
  BY <1>3, RoughFacts DEF paren_parsed, Returns
<1>4. CASE around_parsed
  BY <1>4, RoughFacts DEF around_parsed, Returns, Around
<1>5. CASE climb_on
  BY <1>5, RoughFacts DEF climb_on, Returns
<1>6. CASE arg_failed
  <2>1. Free(Top.kids, Top.kids # {}) /\ Bail(pos) /\ Top.do \in Collecting /\ mod' = mod
    BY <1>6 DEF arg_failed, ReleaseList, Returns, Collecting
  <2> QED
    BY <2>1, BailSheds
<1>7. CASE init_failed
  <2>1. Free(Top.kids, FALSE) /\ Bail(pos) /\ Top.do \in Collecting /\ mod' = mod
    BY <1>7 DEF init_failed, Returns, Collecting
  <2> QED
    BY <2>1, BailSheds
<1>8. /\ ~parser_prefix /\ ~operand_done /\ ~parser_infix /\ ~infix_as
      /\ ~parser_parse_arg_list /\ ~parser_parse_init_list /\ ~close_list
  BY <1>1 DEF parser_prefix, operand_done, parser_infix, infix_as, parser_parse_arg_list,
     parser_parse_init_list, close_list, Runs
<1> QED
  BY <1>2, <1>3, <1>4, <1>5, <1>6, <1>7, <1>8 DEF Expr_

(* Otherwise it gathers.                                                   *)
LEMMA SmoothGathers ==
    ASSUME Smooth, Statement \/ Expr_, ~parser_parse
    PROVE  Gathers
<1>1. CASE Statement
  <2>1. ~statement_failed /\ ~block_failed /\ ~parser_free_statements
    BY SmoothFacts DEF statement_failed, block_failed, parser_free_statements
  <2> QED
    BY <1>1, <2>1, StatementGathers, StatementParsedGathers,
       FuncGathers, ParamListGathers, SignatureGathers, BodyGathers,
       ConditionGathers, ConditionParsedGathers, WhileGathers, IfGathers, ElseGathers,
       TypeGathers, FieldListGathers, DeleteGathers, ReturnGathers, LetGathers, ImportGathers,
       BlockGathers, BlockStatementGathers DEF Statement
<1>2. CASE Expr_
  <2>1. ~arg_failed /\ ~init_failed
    BY SmoothFacts DEF arg_failed, init_failed
  <2> QED
    BY <1>2, <2>1, AssignGathers, PrefixGathers, ParenGathers, AroundGathers, OperandGathers,
       InfixGathers, AsGathers, ClimbOnGathers, ArgListGathers, InitListGathers, CloseGathers DEF Expr_
<1> QED
  BY <1>1, <1>2

(* All actions together. *)
LEMMA ParsesFirm ==
    ASSUME IInv, Firm, Statement \/ Expr_
    PROVE  Firm'
<1>1. Running /\ Known
  BY Knows, StatementFile, ExpressionFile
<1>2. CASE parser_parse
  BY <1>2, ParseFirm
<1>3. CASE Falls \/ Sheds
  BY <1>1, <1>3, FallsFirm, ShedsFirm
<1>4. CASE ~parser_parse /\ ~Falls /\ ~Sheds
  <2>1. ~Failed
    BY <1>1, <1>4, StatementRough, ExpressionRough
  <2>2. Smooth
    BY <1>1, <1>4, <2>1 DEF Smooth
  <2> QED
    BY <1>1, <1>4, <2>1, <2>2, SmoothGathers, StepFirm
<1> QED
  BY <1>2, <1>3, <1>4

-----------------------------------------------------------------------------
(* Errors and lists that were given up are not forgotten, and a function   *)
(* that failed lets its caller fail, give up a list, or leave an error.    *)
Onward ==
    /\ errors' \in Nat /\ errors' >= errors /\ bails \subseteq bails'
    /\ Failed => errors' > 0 \/ ret'.kind = "NULL" \/ bails' # {}

(* A function that has just been entered has not been failed. *)
LEMMA EnteredOn ==
    ASSUME errors \in Nat, ret = Entered, bails \subseteq bails',
           NEW to, Read(to) \/ Miss(to) \/ Fail(to)
    PROVE  Onward
BY NoNodes DEF Onward, Failed, Read, Miss, Fail

(* So it is in the functions of statements, *)
LEMMA StatementOn ==
    ASSUME IInv, Statement
    PROVE  Onward
<1>1. Known /\ Top.errs \in Nat /\ Top.errs <= errors /\ errors \in Nat
  BY StatementFile, Knows DEF Known, Placed, Shaped
<1>2. CASE parser_parse
  <2>1. ASSUME Failed PROVE errors # 0
    <3>1. SUFFICES ASSUME errors = 0 PROVE FALSE
      OBVIOUS
    <3>2. ret # Aborted
      BY <2>1 DEF Failed, Aborted, NULL
    <3>3. Len(stack) >= 2
      BY <2>1, <3>1, <3>2 DEF IInv, Covered, Failed
    <3>4. Len(stack) = 1
      BY <1>1, <1>2 DEF parser_parse, Known, Placed
    <3> QED
      BY <3>3, <3>4
  <2> QED
    BY <1>1, <1>2, <2>1 DEF parser_parse, Onward
<1>3. CASE statement_failed
  BY <1>1, <1>3, NoNodes DEF statement_failed, Onward, Return
<1>4. CASE block_failed \/ parser_free_statements
  BY <1>1, <1>4, NoNodes DEF block_failed, parser_free_statements, Onward, Return
<1>5. CASE condition_parsed
  BY <1>1, <1>5, NoNodes DEF condition_parsed, Onward, Return, Fail, Miss, Read
<1>6. CASE func_body
  <2>1. errors' = errors /\ bails' = bails /\ (Failed => Return(NULL))
    BY <1>6 DEF func_body
  <2> QED
    BY <1>1, <2>1, NoNodes DEF Onward, Return
<1>7. CASE else_parsed
  BY <1>1, <1>7, NoNodes DEF else_parsed, Onward, Return
<1>8. CASE statement_parsed \/ while_parsed \/ if_parsed
  BY <1>1, <1>8 DEF statement_parsed, while_parsed, if_parsed, Onward, Failed, Fail, Miss, Read
<1>9. CASE block_statement
  BY <1>1, <1>9, NoNodes DEF block_statement, Runs, Onward, Failed, Fail, Miss, Read
<1>10. CASE parser_statement
  <2>1. ret = Entered /\ bails' = bails /\ \E to : Read(to) \/ Fail(to)
    BY <1>10 DEF parser_statement, Runs
  <2> QED
    BY <1>1, <2>1, EnteredOn
<1>11. CASE parser_parse_func_def
  <2>1. ret = Entered /\ bails' = bails /\ \E to : Read(to) \/ Fail(to)
    BY <1>11 DEF parser_parse_func_def, Runs
  <2> QED
    BY <1>1, <2>1, EnteredOn
<1>12. CASE func_signature
  <2>1. ret = Entered /\ bails' = bails /\ \E to : Read(to) \/ Fail(to)
    BY <1>12 DEF func_signature, Runs
  <2> QED
    BY <1>1, <2>1, EnteredOn
<1>13. CASE parser_parse_condition
  <2>1. ret = Entered /\ bails' = bails /\ \E to : Read(to) \/ Fail(to)
    BY <1>13 DEF parser_parse_condition, Runs
  <2> QED
    BY <1>1, <2>1, EnteredOn
<1>14. CASE parser_parse_type_stmt
  <2>1. ret = Entered /\ bails' = bails /\ \E to : Read(to) \/ Fail(to)
    BY <1>14 DEF parser_parse_type_stmt, Runs
  <2> QED
    BY <1>1, <2>1, EnteredOn
<1>15. CASE parser_parse_field_list
  <2>1. ret = Entered /\ bails' = bails /\ \E to : Read(to) \/ Fail(to)
    BY <1>15 DEF parser_parse_field_list, Runs
  <2> QED
    BY <1>1, <2>1, EnteredOn
<1>16. CASE parser_parse_delete_stmt
  <2>1. ret = Entered /\ bails' = bails /\ \E to : Read(to) \/ Fail(to)
    BY <1>16 DEF parser_parse_delete_stmt, Runs
  <2> QED
    BY <1>1, <2>1, EnteredOn
<1>17. CASE parser_parse_return_stmt
  <2>1. ret = Entered /\ bails' = bails /\ \E to : Read(to) \/ Fail(to)
    BY <1>17 DEF parser_parse_return_stmt, Runs
  <2> QED
    BY <1>1, <2>1, EnteredOn
<1>18. CASE parser_parse_let_stmt
  <2>1. ret = Entered /\ bails' = bails /\ \E to : Read(to) \/ Fail(to)
    BY <1>18 DEF parser_parse_let_stmt, Runs
  <2> QED
    BY <1>1, <2>1, EnteredOn
<1>19. CASE parser_parse_import_stmt
  <2>1. ret = Entered /\ bails' = bails /\ \E to : Read(to) \/ Fail(to)
    BY <1>19 DEF parser_parse_import_stmt, Runs
  <2> QED
    BY <1>1, <2>1, EnteredOn
<1>20. CASE parser_parse_block
  <2>1. ret = Entered /\ bails' = bails /\ \E to : Read(to) \/ Fail(to)
    BY <1>20 DEF parser_parse_block, Runs
  <2> QED
    BY <1>1, <2>1, EnteredOn
<1>21. CASE parser_parse_param_list
  <2>1. ret = Entered /\ bails \subseteq bails' /\ \E to : Read(to) \/ Miss(to)
    BY <1>21 DEF parser_parse_param_list, Runs
  <2> QED
    BY <1>1, <2>1, EnteredOn
<1> QED
  BY <1>2, <1>3, <1>4, <1>5, <1>6, <1>7, <1>8, <1>9, <1>10, <1>11, <1>12, <1>13, <1>14, <1>15, <1>16, <1>17, <1>18, <1>19, <1>20, <1>21 DEF Statement

(* and in those of expressions. *)
LEMMA ExpressionOn ==
    ASSUME IInv, Expr_
    PROVE  Onward
<1>1. Known /\ errors \in Nat
  BY ExpressionFile, Knows DEF Known
<1>2. CASE parser_expression \/ paren_parsed \/ around_parsed \/ climb_on
  BY <1>1, <1>2, NoNodes DEF parser_expression, paren_parsed, around_parsed, climb_on,
     Onward, Return, Fail, Miss, Read
<1>3. CASE parser_prefix
  <2>1. ret = Entered /\ bails' = bails /\ \E to : Read(to) \/ Fail(to)
    BY <1>3 DEF parser_prefix, Runs
  <2> QED
    BY <1>1, <2>1, EnteredOn
<1>4. CASE infix_as
  <2>1. ret = Entered /\ bails' = bails /\ \E to : Read(to) \/ Fail(to)
    BY <1>4 DEF infix_as, Runs
  <2> QED
    BY <1>1, <2>1, EnteredOn
<1>5. CASE close_list
  <2>1. ret = Entered /\ bails' = bails /\ \E to : Read(to) \/ Fail(to)
    BY <1>5 DEF close_list, Runs
  <2> QED
    BY <1>1, <2>1, EnteredOn
<1>6. CASE operand_done \/ parser_infix
  BY <1>1, <1>6, NoNodes DEF operand_done, parser_infix, Runs, Onward, Failed, Read
<1>7. CASE parser_parse_arg_list
  BY <1>1, <1>7, NoNodes DEF parser_parse_arg_list, Runs, Onward, Failed, Read
<1>8. CASE parser_parse_init_list
  <2>1. ~Failed
    BY <1>8, NoNodes DEF parser_parse_init_list, Runs, Failed
  <2>2. bails \subseteq bails' /\ \E to : Read(to) \/ Miss(to)
    BY <1>8 DEF parser_parse_init_list, Bail
  <2> QED
    BY <1>1, <2>1, <2>2 DEF Onward, Read, Miss
<1>9. CASE arg_failed \/ init_failed
  <2>1. errors' = errors /\ Bail(pos)
    BY <1>9 DEF arg_failed, init_failed
  <2>2. <<Top.start, pos>> \in bails' /\ bails \subseteq bails'
    BY <2>1 DEF Bail
  <2> QED
    BY <1>1, <2>1, <2>2 DEF Onward
<1> QED
  BY <1>2, <1>3, <1>4, <1>5, <1>6, <1>7, <1>8, <1>9 DEF Expr_

(* So nothing has gone wrong before a state in which nothing has.          *)
LEMMA Before ==
    ASSUME IInv, Statement \/ Expr_, Untroubled'
    PROVE  Running /\ Untroubled
<1>1. Onward /\ Running
  BY StatementOn, ExpressionOn, StatementFile, ExpressionFile
<1>2. Known /\ errors \in Nat
  BY <1>1, Knows DEF Known
<1>3. ret.kind # "aborted"
  BY <1>2 DEF Known, IsTree, Entered, NULL
<1> QED
  BY <1>1, <1>2, <1>3 DEF Onward, Untroubled, Failed
(* A step on the way to one neither fails nor gives a list up.             *)
LEMMA ParsesTidy ==
    ASSUME IInv, Firm, Untroubled => Tidy, Statement \/ Expr_, Untroubled'
    PROVE  Tidy'
<1>1. Running /\ Tidy /\ ~Failed
  BY Before DEF Untroubled, Failed
<1>2. ~Falls /\ ~Sheds
  BY NoNodes DEF Untroubled, Falls, Sheds, Return
<1>3. CASE parser_parse
  BY <1>1, <1>3, ParseTidy
<1>4. CASE ~parser_parse
  <2>1. Smooth
    BY <1>1, <1>2 DEF Smooth
  <2> QED
    BY <1>1, <1>4, <2>1, SmoothGathers, StepTidy
<1> QED
  BY <1>3, <1>4

(* The program that ends early frees nothing. *)
LEMMA AbortFirm ==
    ASSUME Firm, Abort
    PROVE  Firm'
<1>1. /\ stack' = <<>> /\ ret' = Aborted /\ mod' = mod /\ live' = live /\ Len(stack') = 0
      /\ ~Running'
  BY DEF Abort, memory, Running
<1>2. \A i : i \notin 1 .. 0 /\ i \notin 1 .. 0 - 1
  OBVIOUS
<1>3. ret'.nodes = {} /\ Rooted(ret')
  BY <1>1 DEF Aborted, NULL, Rooted, Marks
<1>4. Rooting'
  BY <1>1, <1>2, <1>3 DEF Firm, Rooting, Rooted
<1>5. Lefts' /\ Beyond'
  BY <1>1, <1>2 DEF Lefts, Beyond
<1>6. \A x : Contained(0, x)' => x \in live'
  <2>1. \A x : Contained(0, x)' => Contained(0, x)
    BY <1>1, <1>2 DEF Contained
  <2> QED
    BY <1>1, <2>1 DEF Firm, Living
<1>7. Living'
  <2>1. \A x : Contained(Len(stack), x)' <=> Contained(0, x)'
    BY <1>1 DEF Contained
  <2> QED
    BY <1>1, <1>2, <1>3, <1>6, <2>1 DEF Living
<1> QED
  BY <1>4, <1>5, <1>7 DEF Firm

LEMMA FirmStays ==
    ASSUME Firm, UNCHANGED <<pos, stack, ret, mod, live>>
    PROVE  Firm'
<1>1. Rooting'
  BY DEF Firm, Rooting, Rooted, Trees, Marks
<1>2. Lefts'
  BY DEF Firm, Lefts, Running, Top
<1>3. Beyond'
  BY DEF Firm, Beyond, Within, Late, Contains
<1>4. Living'
  BY DEF Firm, Living, Contained, Contains, Failed
<1> QED
  BY <1>1, <1>2, <1>3, <1>4 DEF Firm

(* The parser at the start of a file. *)
LEMMA BegunTidy ==
    ASSUME Begun
    PROVE  Firm /\ (live = {} /\ Unharmed => Tidy)
<1>1. /\ stack = <<Frame("parse")>> /\ ret = Entered /\ mod = <<>>
      /\ Len(stack) = 1 /\ Len(mod) = 0 /\ stack[1] = Frame("parse")
  BY DEF Begun
<1>2. PICK f : f = Frame("parse")
  OBVIOUS
<1>3. Bare(f) /\ f.do = "parse" /\ (\A x : ~Contains(f, x)) /\ \A t \in Trees(f) : Rooted(t)
  BY <1>2, BareFrames, BareRooted DEF Collecting
<1>4. \A i \in 1 .. Len(stack) : i = 1 /\ stack[i] = f
  BY <1>1, <1>2
<1>5. \A n \in {0, 1} : \A x : ~Contained(n, x)
  <2>1. \A i : i \notin 1 .. 0
    OBVIOUS
  <2> QED
    BY <1>1, <1>3, <1>4, <2>1 DEF Contained
<1>6. ret.nodes = {} /\ Rooted(ret) /\ ret.kind = "entered"
  BY <1>1, NoNodes
<1>7. Rooting
  BY <1>1, <1>3, <1>4, <1>6 DEF Rooting
<1>8. Lefts
  <2>1. \A i : i \notin 1 .. 1 - 1
    OBVIOUS
  <2> QED
    BY <1>1, <1>3, <1>4, <1>6, <2>1, BareRooted DEF Lefts
<1>9. Beyond /\ Living
  <2>1. \A i \in 1 .. Len(stack) : stack[i].do \notin Collecting
    BY <1>3, <1>4 DEF Collecting
  <2>2. Beyond
    BY <2>1 DEF Beyond
  <2>3. \A x : ~Contained(0, x) /\ ~Contained(Len(stack), x) /\ x \notin ret.nodes
    BY <1>1, <1>5, <1>6
  <2> QED
    BY <2>1, <2>2, <2>3 DEF Living
<1>10. live = {} /\ Unharmed => Tidy
  BY <1>1, <1>5, <1>6 DEF Tidy
<1> QED
  BY <1>7, <1>8, <1>9, <1>10 DEF Firm

(* What Tidy says between statements. *)
LEMMA TidyBetween ==
    ASSUME IInv, Firm, Tidy, BetweenStatements
    PROVE  live = (UNION {mod[i].nodes : i \in DOMAIN mod}) \cup ret.nodes
<1>1. \A x : \A j \in 1 .. Len(stack) : ~Contains(stack[j], x)
  <2>1. ASSUME NEW j \in 1 .. Len(stack) PROVE \A x : ~Contains(stack[j], x)
    <3>1. j = 1
      BY DEF IInv, Stacked, BetweenStatements
    <3>2. Shaped(stack[j]) /\ stack[j].do = "parse"
      BY <3>1 DEF IInv, Stacked, Placed
    <3>3. stack[j].left.nodes = {} /\ stack[j].kids = {}
      BY <3>2 DEF Firm, Lefts, Shaped, HasLeft, HasKids
    <3> QED
      BY <3>3 DEF Contains
  <2> QED
    BY <2>1
<1>2. DOMAIN mod = 1 .. Len(mod)
  BY DEF IInv, Typed
<1>3. \A x : Contained(Len(stack), x) <=> \E i \in DOMAIN mod : x \in mod[i].nodes
  BY <1>1, <1>2 DEF Contained
<1>4. PICK all_ : all_ = UNION {mod[i].nodes : i \in DOMAIN mod}
  OBVIOUS
<1>5. \A x : x \in all_ <=> \E i \in DOMAIN mod : x \in mod[i].nodes
  BY <1>4
<1>6. \A x : x \in live <=> x \in all_ \cup ret.nodes
  BY <1>3, <1>5 DEF Tidy
<1> QED
  BY <1>4, <1>6

(* What Firm says of the module. *)
LEMMA FirmOwned == IInv /\ Firm => Owned
<1> SUFFICES ASSUME IInv, Firm PROVE Owned
  OBVIOUS
<1>1. DOMAIN mod = 1 .. Len(mod)
  BY DEF IInv, Typed
<1>2. \A i \in 1 .. Len(mod) : \A x \in mod[i].nodes : x \in live
  BY DEF Firm, Living, Contained
<1> QED
  BY <1>1, <1>2 DEF Owned

(* What a step may add to the faults; only a list of fields overruns. *)
Adds == \/ faults' \subseteq faults \cup {"double", "wild"}
        \/ HasStruct(toks) /\ faults' \subseteq faults \cup {"overrun"}

LEMMA MemoryAdds ==
    /\ (UNCHANGED memory) => Adds
    /\ \A v : New(v) => Adds
    /\ \A vs, again : Free(vs, again) => Adds
    /\ \A v : Release(v) => Adds
    /\ \A vs : ReleaseList(vs) => Adds
<1>1. ((UNCHANGED memory) => Adds) /\ (\A v : New(v) => Adds)
  BY DEF memory, New, Adds
<1>2. ASSUME NEW vs, NEW again, Free(vs, again) PROVE Adds
  <2>1. PICK f \in Faults(vs, live) : faults' = faults \cup f \cup (IF again THEN {"double"} ELSE {})
    BY <1>2 DEF Free
  <2>2. f \subseteq {"double", "wild"}
    BY <2>1 DEF Faults
  <2> QED
    BY <2>1, <2>2 DEF Adds
<1>3. (\A v : Release(v) => Adds) /\ (\A vs : ReleaseList(vs) => Adds)
  BY <1>2 DEF Release, ReleaseList
<1> QED
  BY <1>1, <1>2, <1>3

LEMMA StatementAdds ==
    ASSUME IInv, Statement
    PROVE  Adds
<1>1. CASE parser_parse \/ parser_statement \/ statement_failed \/ statement_parsed
  BY <1>1, MemoryAdds DEF parser_parse, parser_statement, statement_failed, statement_parsed
<1>2. CASE parser_parse_func_def \/ parser_parse_param_list \/ func_signature \/ func_body
  BY <1>2, MemoryAdds DEF parser_parse_func_def, parser_parse_param_list, func_signature, func_body
<1>3. CASE parser_parse_condition \/ condition_parsed \/ block_failed \/ while_parsed
  BY <1>3, MemoryAdds DEF parser_parse_condition, condition_parsed, block_failed, while_parsed
<1>4. CASE if_parsed
  <2>1. (\E v : New(v)) \/ UNCHANGED faults
    BY <1>4 DEF if_parsed
  <2> QED
    BY <2>1, MemoryAdds DEF Adds
<1>5. CASE else_parsed \/ parser_parse_type_stmt \/ parser_parse_delete_stmt
  BY <1>5, MemoryAdds DEF else_parsed, parser_parse_type_stmt, parser_parse_delete_stmt
<1>6. CASE parser_parse_field_list
  <2>1. HasStruct(toks)
    BY <1>6, Knows DEF parser_parse_field_list, Runs, Known
  <2>2. (UNCHANGED memory) \/ (\E v : New(v)) \/ faults' = faults \cup {"overrun"}
    BY <1>6 DEF parser_parse_field_list
  <2> QED
    BY <2>1, <2>2, MemoryAdds DEF Adds
<1>7. CASE parser_parse_return_stmt \/ parser_parse_let_stmt \/ parser_parse_import_stmt
  BY <1>7, MemoryAdds DEF parser_parse_return_stmt, parser_parse_let_stmt, parser_parse_import_stmt
<1>8. CASE parser_parse_block \/ block_statement \/ parser_free_statements
  BY <1>8, MemoryAdds DEF parser_parse_block, block_statement, parser_free_statements
<1> QED
  BY <1>1, <1>2, <1>3, <1>4, <1>5, <1>6, <1>7, <1>8 DEF Statement

LEMMA ExpressionAdds ==
    ASSUME Expr_
    PROVE  Adds
<1>1. CASE parser_expression \/ parser_prefix \/ paren_parsed \/ around_parsed
  BY <1>1, MemoryAdds DEF parser_expression, parser_prefix, paren_parsed, around_parsed
<1>2. CASE operand_done \/ parser_infix \/ infix_as \/ climb_on
  BY <1>2, MemoryAdds DEF operand_done, parser_infix, infix_as, climb_on
<1>3. CASE parser_parse_arg_list \/ arg_failed \/ parser_parse_init_list \/ init_failed
  BY <1>3, MemoryAdds DEF parser_parse_arg_list, arg_failed, parser_parse_init_list, init_failed
<1>4. CASE close_list
  BY <1>4, MemoryAdds DEF close_list
<1> QED
  BY <1>1, <1>2, <1>3, <1>4 DEF Expr_

(* The parser's own faults. *)
Usual == faults \subseteq {"double", "wild"} \cup (IF HasStruct(toks) THEN {"overrun"} ELSE {})

LEMMA StepUsual == IInv /\ Usual /\ [Next]_vars => Usual'
<1> SUFFICES ASSUME IInv, Usual, [Next]_vars PROVE Usual'
  OBVIOUS
<1>1. CASE Statement \/ Expr_
  <2>1. Adds /\ toks' = toks
    BY <1>1, StatementAdds, ExpressionAdds, StatementFile, ExpressionFile
  <2>2. HasStruct(toks') <=> HasStruct(toks)
    BY <2>1
  <2> QED
    BY <2>1, <2>2 DEF Adds, Usual
<1>2. CASE Abort \/ UNCHANGED vars
  <2>1. toks' = toks /\ faults' = faults
    BY <1>2 DEF Abort, vars, memory
  <2> QED
    BY <2>1 DEF Usual
<1> QED
  BY <1>1, <1>2 DEF Next, Ended

(* Memory in every state: what holds whatever goes wrong, and what until   *)
(* something has.                                                          *)
MInv == IInv /\ Firm /\ Usual /\ (Untroubled => Tidy)

LEMMA InitMemory == Init => MInv
<1>1. Init => IInv /\ Begun /\ live = {} /\ faults = {}
  BY InitInv, TextsAssumption DEF Init, Begun
<1>2. faults = {} => Unharmed /\ Usual
  BY DEF Unharmed, Usual
<1> QED
  BY <1>1, <1>2, BegunTidy DEF MInv

LEMMA NextMemory == MInv /\ [Next]_vars => MInv'
<1> SUFFICES ASSUME IInv, Firm, Usual, Untroubled => Tidy, [Next]_vars PROVE MInv'
  BY DEF MInv
<1>1. IInv' /\ Usual'
  BY StatementKeeps, ExpressionKeeps, AbortStep, Unchanged, StepUsual DEF Next, Ended
<1>2. CASE Statement \/ Expr_
  BY <1>1, <1>2, ParsesFirm, ParsesTidy DEF MInv
<1>3. CASE Abort
  <2>1. ~Untroubled'
    BY <1>3 DEF Abort, Untroubled, Aborted, NULL
  <2> QED
    BY <1>1, <1>3, <2>1, AbortFirm DEF MInv
<1>4. CASE UNCHANGED vars
  <2>1. Untroubled' = Untroubled
    BY <1>4 DEF vars, Untroubled
  <2>2. Tidy => Tidy'
    BY <1>4 DEF vars, memory, Tidy, Unharmed, Contained, Contains
  <2>3. Firm'
    BY <1>4, FirmStays DEF vars, memory
  <2> QED
    BY <1>1, <2>1, <2>2, <2>3 DEF MInv
<1> QED
  BY <1>2, <1>3, <1>4 DEF Next, Ended

(* Whatever the file: parsed without an error and without a list that was  *)
(* given up, nothing was freed wrongly on the way and no node was left     *)
(* behind, and nothing was copied past the end of a variable but fields of *)
(* structs (parser.c:507-547, 658-709, ast.c:240-288, 558-592).            *)
THEOREM AlwaysClean == Spec => []Clean
<1>1. MInv => Clean
  <2> SUFFICES ASSUME MInv, BetweenStatements, errors = 0, bails = {}
               PROVE  /\ faults \subseteq IF HasStruct(toks) THEN {"overrun"} ELSE {}
                      /\ live = (UNION {mod[i].nodes : i \in DOMAIN mod}) \cup ret.nodes
    BY DEF Clean
  <2>1. IInv /\ Firm /\ Covered /\ Stacked
    BY DEF MInv, IInv, BetweenStatements
  <2>2. ret.kind # "NULL"
    BY <2>1 DEF Covered, Stacked, BetweenStatements
  <2>3. ret.kind # "aborted"
    BY <2>1 DEF IInv, Typed, IsTree, Halted, Entered, Returned, Idle, NULL, BetweenStatements
  <2>4. Tidy
    BY <2>2, <2>3 DEF Untroubled, MInv
  <2>5. faults \subseteq IF HasStruct(toks) THEN {"overrun"} ELSE {}
    BY <2>4 DEF Tidy, Unharmed, MInv, Usual
  <2> QED
    BY <2>1, <2>4, <2>5, TidyBetween
<1> QED
  BY <1>1, InitMemory, NextMemory, PTL DEF Spec

(* Whatever the file, and whatever errors, failures and freed trees on the *)
(* way: no node of a statement that the module keeps is ever freed         *)
(* (parser.c:188-200, 596-709, ast.c:240-288).                             *)
THEOREM AlwaysOwned == Spec => []Owned
<1>1. MInv => Owned
  BY FirmOwned DEF MInv
<1> QED
  BY <1>1, InitMemory, NextMemory, PTL DEF Spec

-----------------------------------------------------------------------------
(* The driver: what its modules keep is never freed before they are, and   *)
(* programs without errors leave each other alone.                         *)
Healthy == {"start", "stdlib", "files", "parse", "free"}

(* A file that is parsed is as the parser leaves it. *)
Firmly == ret # Idle => Firm

(* The nodes of the k-th module's statements are allocated. *)
Retains(k) == \A i \in DOMAIN mods[k].stmts : mods[k].stmts[i].nodes \subseteq mods[k].heap

(* Until the modules are freed, all that they keep is there: no failed     *)
(* parse of this file or of a later one, no list given up and no error has *)
(* freed a node of it (synthium.c:69-113, ast.c:240-288).                  *)
Retained == phase \in Healthy \cup {"free modules"} => \A k \in DOMAIN mods : Retains(k)

(* No file that is parsed had an error or a list that was given up. *)
Faultless == /\ phase \in Healthy
             /\ \A k \in 1 .. Len(mods) : mods[k].errors = 0 /\ mods[k].given_up = {}

(* The nodes of the k-th module are those that were allocated for it. *)
Owns(k) == mods[k].heap = UNION {mods[k].stmts[i].nodes : i \in DOMAIN mods[k].stmts}

Sound ==
    Faultless => /\ \A k \in 1 .. Len(mods) : Owns(k)
                 /\ ret = Idle => Unharmed
                 /\ ret # Idle /\ Untroubled => Tidy

(* A module owns its nodes as long as it stays. *)
LEMMA OwnsStays ==
    ASSUME NEW k, Owns(k), mods'[k] = mods[k]
    PROVE  Owns(k)'
BY DEF Owns

LEMMA RetainsStays ==
    ASSUME NEW k, Retains(k), mods'[k] = mods[k]
    PROVE  Retains(k)'
BY DEF Retains

(* A step that leaves the modules and what the parser has. *)
LEMMA SoundStays ==
    ASSUME Progress, Sound, mods' = mods,
           phase' \in Healthy => phase \in Healthy,
           Unharmed => Unharmed', ret' = Idle, ret = Idle
    PROVE  Sound'
<1> SUFFICES ASSUME Faultless' PROVE Sound'
  BY DEF Sound
<1>1. Faultless
  BY DEF Faultless
<1>2. \A k \in 1 .. Len(mods) : Owns(k)
  BY <1>1 DEF Sound
<1>3. \A k \in 1 .. Len(mods') : Owns(k)'
  BY <1>2, OwnsStays
<1> QED
  BY <1>1, <1>3 DEF Sound

(* Nothing is allocated when a file is begun, nor was freed wrongly. *)
Unused == live = {} /\ Unharmed

(* So the invariant holds where a file begins. *)
LEMMA BegunTidyNext == Begun' => Firm' /\ (Unused' => Tidy')
<1>1. Begun => Firm /\ (Unused => Tidy)
  BY BegunTidy DEF Unused
<1> QED
  BY <1>1, PTL

(* A file begins where parser_create has read it into. *)
LEMMA CreateBegun ==
    ASSUME Progress, parser_create
    PROVE  Begun'
<1>1. Len(mods) + 1 \in 1 .. Len(files)
  BY ListedAt DEF Progress, FilesRead, ModsOK, parser_create
<1>2. toks' \in Seq(STRING)
  BY <1>1, ListedAt DEF Progress, FilesRead, Ending, parser_create
<1> QED
  BY <1>2 DEF parser_create, Begun, Progress, IInv, Typed

(* The next file begins with nothing allocated. *)
LEMMA CreateSound ==
    ASSUME Progress, Sound, parser_create
    PROVE  Sound'
<1> SUFFICES ASSUME Faultless' PROVE Sound'
  BY DEF Sound
<1>1. mods' = mods /\ phase' = phase /\ ret = Idle
  BY DEF parser_create, driving
<1>2. Faultless
  BY <1>1 DEF Faultless
<1>3. \A k \in 1 .. Len(mods') : Owns(k)'
  BY <1>1, <1>2, OwnsStays DEF Sound
<1>4. Unharmed' /\ live' = {}
  BY <1>1, <1>2 DEF Sound, Unharmed, parser_create
<1>5. Begun'
  BY CreateBegun
<1>7. Tidy'
  BY <1>4, <1>5, BegunTidyNext DEF Unused
<1>8. ret' # Idle
  BY ReturnedIsNoTree DEF parser_create
<1> QED
  BY <1>3, <1>7, <1>8 DEF Sound

(* What is parsed stays as the parser leaves it. *)
LEMMA StepFirmly == Progress /\ Firmly /\ [DriverNext]_all => Firmly'
<1> SUFFICES ASSUME Progress, Firmly, [DriverNext]_all, ret' # Idle PROVE Firm'
  BY DEF Firmly
<1>1. CASE parser_create
  <2>1. Begun'
    BY <1>1, CreateBegun
  <2> QED
    BY <2>1, BegunTidyNext
<1>2. CASE Parses
  <2>1. Statement \/ Expr_
    BY <1>2 DEF Parses
  <2>2. IInv /\ Known
    BY <2>1, Knows, StatementFile, ExpressionFile DEF Progress
  <2>3. ret # Idle
    BY <2>2, ReturnedIsNoTree DEF Known
  <2> QED
    BY <2>1, <2>2, <2>3, ParsesFirm DEF Firmly
<1>3. CASE ret' = ret /\ UNCHANGED <<pos, stack, mod, live>>
  BY <1>3, FirmStays DEF Firmly
<1>4. CASE file_parsed
  BY <1>4 DEF file_parsed
<1>5. CASE main_no_input \/ main_begin \/ reader_add_std_lib \/ std_lib_added \/ reader_add_all \/ all_added
  BY <1>3, <1>5 DEF main_no_input, main_begin, reader_add_std_lib, std_lib_added, reader_add_all, all_added,
     parsing, vars, memory
<1>6. CASE typecheck_check \/ typecheck_free_tc \/ mod_free_map
  BY <1>3, <1>6 DEF typecheck_check, typecheck_free_tc, mod_free_map
<1>7. CASE main_returns \/ main_aborts \/ UNCHANGED all
  BY <1>3, <1>7 DEF main_returns, main_aborts, all, parsing, vars, memory
<1> QED
  BY <1>1, <1>2, <1>4, <1>5, <1>6, <1>7 DEF DriverNext

(* A file that was parsed keeps in its module what the parser kept.        *)
LEMMA FileRetained ==
    ASSUME Progress, Firmly, Retained, file_parsed
    PROVE  Retained'
<1>1. PICK m : /\ m = [path |-> files[Len(mods) + 1].path, stmts |-> mod, heap |-> live,
                       errors |-> errors, given_up |-> bails]
               /\ mods' = Append(mods, m)
  BY DEF file_parsed, mod_add_mod
<1>2. ret = Returned /\ phase = "parse"
  BY DEF file_parsed
<1>3. Owned
  <2>1. IInv /\ Firm
    BY <1>2, ReturnedIsNoTree DEF Progress, Firmly
  <2> QED
    BY <2>1, FirmOwned
<1>4. \A i \in DOMAIN m.stmts : m.stmts[i].nodes \subseteq m.heap
  <2>1. m.stmts = mod /\ m.heap = live
    BY <1>1
  <2> QED
    BY <1>3, <2>1 DEF Owned
<1>5. PICK n \in Nat : n = Len(mods)
  BY DEF Progress, ModsOK
<1>6. DOMAIN mods = 1 .. n /\ DOMAIN mods' = 1 .. n + 1
      /\ mods'[n + 1] = m /\ \A k \in 1 .. n : mods'[k] = mods[k]
  <2>1. PICK S : mods \in Seq(S)
    BY DEF Progress, ModsOK
  <2>2. mods \in Seq(S \cup {m}) /\ m \in S \cup {m}
    BY <2>1
  <2> QED
    BY <1>1, <1>5, <2>2
<1>7. ASSUME NEW k \in 1 .. n + 1 PROVE Retains(k)'
  <2>1. CASE k \in 1 .. n
    <3>1. Retains(k) /\ mods'[k] = mods[k]
      BY <1>2, <1>6, <2>1 DEF Retained, Healthy
    <3> QED
      BY <3>1, RetainsStays
  <2>2. CASE k = n + 1
    BY <1>4, <1>6, <2>2 DEF Retains
  <2> QED
    BY <1>5, <2>1, <2>2
<1> QED
  BY <1>6, <1>7 DEF Retained

LEMMA StepRetained == Progress /\ Firmly /\ Retained /\ [DriverNext]_all => Retained'
<1> SUFFICES ASSUME Progress, Firmly, Retained, [DriverNext]_all PROVE Retained'
  OBVIOUS
<1>1. CASE mods' = mods /\ (phase' \in Healthy \cup {"free modules"} => phase \in Healthy \cup {"free modules"})
  <2>1. \A k \in DOMAIN mods' : mods'[k] = mods[k]
    BY <1>1
  <2> QED
    BY <1>1, <2>1, RetainsStays DEF Retained
<1>2. CASE file_parsed
  BY <1>2, FileRetained
<1>3. CASE mod_free_map
  BY <1>3 DEF mod_free_map, Retained, Healthy
<1>4. CASE main_no_input \/ main_begin \/ reader_add_std_lib \/ std_lib_added \/ reader_add_all \/ all_added
  BY <1>1, <1>4 DEF main_no_input, main_begin, reader_add_std_lib, std_lib_added, reader_add_all, all_added,
     Healthy
<1>5. CASE parser_create \/ Parses \/ typecheck_check \/ typecheck_free_tc
  BY <1>1, <1>5 DEF parser_create, Parses, driving, typecheck_check, typecheck_free_tc, Healthy
<1>6. CASE main_returns \/ main_aborts
  BY <1>1, <1>6 DEF main_returns, main_aborts, Exit, Healthy
<1>7. CASE UNCHANGED all
  BY <1>1, <1>7 DEF all, driving
<1> QED
  BY <1>2, <1>3, <1>4, <1>5, <1>6, <1>7 DEF DriverNext

(* Whatever the library, the command line and the files, and whatever      *)
(* errors there were: until main frees the modules, every node of every    *)
(* statement that a module keeps is allocated, so that the checker, which  *)
(* reads them all, reads nothing that was freed (synthium.c:69-113,        *)
(* parser.c:658-709).                                                      *)
THEOREM AlwaysRetained == DriverSpec => []Retained
<1>1. DriverInit => Progress /\ Firmly /\ Retained
  <2>1. DriverInit => mods = <<>> /\ DOMAIN mods = {} /\ ret = Idle
    BY DEF DriverInit
  <2> QED
    BY <2>1, InitProgress DEF Retained, Firmly
<1>2. DriverInit /\ [][DriverNext]_all => [](Progress /\ Firmly /\ Retained)
  BY <1>1, StepProgress, StepFirmly, StepRetained, PTL
<1> QED
  BY <1>2, PTL DEF DriverSpec

(* A step calls, goes on, or returns to a function that waits. *)
LEMMA StatementLeaves ==
    ASSUME Statement, ~parser_parse
    PROVE  ret' = Entered \/ (stack' = Below /\ Top.do # "parse")
<1>1. CASE parser_statement \/ statement_failed \/ statement_parsed \/ parser_parse_func_def
  BY <1>1 DEF parser_statement, statement_failed, statement_parsed, parser_parse_func_def,
     Runs, Returns, Return, Continue, Call, Fail, Bail
<1>2. CASE parser_parse_param_list \/ func_signature \/ func_body \/ parser_parse_condition
  BY <1>2 DEF parser_parse_param_list, func_signature, func_body, parser_parse_condition,
     Runs, Returns, Return, Continue, Call, Fail, Bail
<1>3. CASE condition_parsed \/ block_failed \/ while_parsed \/ if_parsed
  BY <1>3 DEF condition_parsed, block_failed, while_parsed, if_parsed,
     Runs, Returns, Return, Continue, Call, Fail, Bail
<1>4. CASE else_parsed \/ parser_parse_type_stmt \/ parser_parse_field_list \/ parser_parse_delete_stmt
  BY <1>4 DEF else_parsed, parser_parse_type_stmt, parser_parse_field_list, parser_parse_delete_stmt,
     Runs, Returns, Return, Continue, Call, Fail, Bail
<1>5. CASE parser_parse_return_stmt \/ parser_parse_let_stmt \/ parser_parse_import_stmt \/ parser_parse_block
  BY <1>5 DEF parser_parse_return_stmt, parser_parse_let_stmt, parser_parse_import_stmt, parser_parse_block,
     Runs, Returns, Return, Continue, Call, Fail, Bail
<1>6. CASE block_statement \/ parser_free_statements
  BY <1>6 DEF block_statement, parser_free_statements,
     Runs, Returns, Return, Continue, Call, Fail, Bail
<1> QED
  BY <1>1, <1>2, <1>3, <1>4, <1>5, <1>6 DEF Statement

(* So does one of an expression. *)
LEMMA ExpressionLeaves ==
    ASSUME Expr_
    PROVE  ret' = Entered \/ (stack' = Below /\ Top.do # "parse")
<1>1. CASE parser_expression \/ parser_prefix \/ paren_parsed \/ around_parsed
  BY <1>1 DEF parser_expression, parser_prefix, paren_parsed, around_parsed,
     Runs, Returns, Return, Continue, Call, Fail, Bail, Around
<1>2. CASE operand_done \/ parser_infix \/ infix_as \/ climb_on
  BY <1>2 DEF operand_done, parser_infix, infix_as, climb_on,
     Runs, Returns, Return, Continue, Call, Fail, Bail
<1>3. CASE parser_parse_arg_list \/ arg_failed \/ parser_parse_init_list \/ init_failed
  BY <1>3 DEF parser_parse_arg_list, arg_failed, parser_parse_init_list, init_failed,
     Runs, Returns, Return, Continue, Call, Fail, Bail
<1>4. CASE close_list
  BY <1>4 DEF close_list,
     Runs, Returns, Return, Continue, Call, Fail, Bail
<1> QED
  BY <1>1, <1>2, <1>3, <1>4 DEF Expr_

(* The parser ends as parser_parse returns. *)
LEMMA NeverIdle ==
    ASSUME IInv, Statement \/ Expr_
    PROVE  ret' # Idle
<1>1. Known /\ Running /\ Stacked
  BY Knows, StatementFile, ExpressionFile DEF IInv
<1>2. CASE parser_parse
  BY <1>2, ReturnedIsNoTree DEF parser_parse, Call
<1>3. CASE ~parser_parse
  <2>1. ret' = Entered \/ (stack' = Below /\ Top.do # "parse")
    BY <1>3, StatementLeaves, ExpressionLeaves
  <2>2. ASSUME stack' = Below, Top.do # "parse" PROVE stack' # <<>>
    <3>1. Len(Below) >= 1
      BY <1>1, <2>2, Popped DEF Known
    <3> QED
      BY <2>2, <3>1
  <2>3. IInv'
    BY StatementKeeps, ExpressionKeeps
  <2> QED
    BY <2>1, <2>2, <2>3, ReturnedIsNoTree DEF IInv, Typed, Halted
<1> QED
  BY <1>2, <1>3

(* A step of the parser. *)
LEMMA ParsesSound ==
    ASSUME Progress, Firmly, Sound, Parses
    PROVE  Sound'
<1> SUFFICES ASSUME Faultless' PROVE Sound'
  BY DEF Sound
<1>1. mods' = mods /\ phase' = phase /\ (Statement \/ Expr_)
  BY DEF Parses, driving
<1>2. Faultless
  BY <1>1 DEF Faultless
<1>3. \A k \in 1 .. Len(mods') : Owns(k)'
  BY <1>1, <1>2, OwnsStays DEF Sound
<1>4. IInv /\ Known
  BY <1>1, Knows, StatementFile, ExpressionFile DEF Progress
<1>5. ret # Idle
  BY <1>4, ReturnedIsNoTree DEF Known
<1>6. Untroubled => Tidy
  BY <1>2, <1>5 DEF Sound
<1>7. Untroubled' => Tidy'
  BY <1>1, <1>4, <1>5, <1>6, ParsesTidy DEF Firmly
<1>8. ret' # Idle
  BY <1>1, <1>4, NeverIdle
<1> QED
  BY <1>3, <1>7, <1>8 DEF Sound

(* A file that was parsed becomes a module. *)
LEMMA FileSound ==
    ASSUME Progress, Firmly, Sound, file_parsed
    PROVE  Sound'
<1> SUFFICES ASSUME Faultless' PROVE Sound'
  BY DEF Sound
<1>1. PICK m : /\ m = [path |-> files[Len(mods) + 1].path, stmts |-> mod, heap |-> live,
                       errors |-> errors, given_up |-> bails]
               /\ mods' = Append(mods, m)
  BY DEF file_parsed, mod_add_mod
<1>2. ret = Returned /\ ret' = Idle /\ phase' = phase /\ (Unharmed => Unharmed')
  <2>1. ret = Returned /\ ret' = Idle /\ phase' = phase
    BY DEF file_parsed
  <2>2. faults' \subseteq faults \cup {"cut", "literal", "null"}
    BY FileFaults, InfoOnly
  <2> QED
    BY <2>1, <2>2 DEF Unharmed
<1>3. PICK n \in Nat : n = Len(mods)
  BY DEF Progress, ModsOK
<1>4. Len(mods') = n + 1 /\ mods'[n + 1] = m /\ \A k \in 1 .. n : mods'[k] = mods[k]
  <2>1. PICK S : mods \in Seq(S)
    BY DEF Progress, ModsOK
  <2>2. mods \in Seq(S \cup {m}) /\ m \in S \cup {m}
    BY <2>1
  <2> QED
    BY <1>1, <1>3, <2>2
<1>5. \A k : k \in 1 .. n + 1 <=> k \in 1 .. n \/ k = n + 1
  BY <1>3
<1>6. errors = 0 /\ bails = {}
  <2>1. m.errors = 0 /\ m.given_up = {}
    BY <1>4, <1>5 DEF Faultless
  <2>2. m.errors = errors /\ m.given_up = bails
    BY <1>1
  <2> QED
    BY <2>1, <2>2
<1>7. Faultless
  BY <1>2, <1>3, <1>4, <1>5, <1>6 DEF Faultless
<1>8. Untroubled /\ ret # Idle
  BY <1>2, <1>6, ReturnedIsNoTree DEF Untroubled
<1>9. Tidy /\ Unharmed'
  BY <1>2, <1>6, <1>7, <1>8 DEF Sound, Tidy
<1>10. BetweenStatements
  <2>1. Halted
    BY <1>2, ReturnedIsNoTree DEF Progress, IInv, Typed
  <2>2. Len(stack) <= 1
    BY <2>1 DEF Halted
  <2> QED
    BY <1>2, <2>2, ReturnedIsNoTree DEF BetweenStatements
<1>11. live = UNION {mod[i].nodes : i \in DOMAIN mod}
  <2>1. live = (UNION {mod[i].nodes : i \in DOMAIN mod}) \cup ret.nodes
    BY <1>8, <1>9, <1>10, TidyBetween DEF Progress, Firmly
  <2>2. ret.nodes = {}
    BY <1>2 DEF Returned, NULL
  <2> QED
    BY <2>1, <2>2
<1>12. ASSUME NEW k \in 1 .. n + 1 PROVE Owns(k)'
  <2>1. CASE k \in 1 .. n
    <3>1. Owns(k) /\ mods'[k] = mods[k]
      BY <1>3, <1>4, <1>7, <2>1 DEF Sound
    <3> QED
      BY <3>1, OwnsStays
  <2>2. CASE k = n + 1
    <3>1. m.heap = live /\ m.stmts = mod
      BY <1>1
    <3>2. m.heap = UNION {m.stmts[i].nodes : i \in DOMAIN m.stmts}
      BY <1>11, <3>1
    <3> QED
      BY <1>4, <2>2, <3>2 DEF Owns
  <2> QED
    BY <1>5, <2>1, <2>2
<1> QED
  BY <1>2, <1>4, <1>9, <1>12 DEF Sound

(* The type checker. *)
LEMMA CheckSound ==
    ASSUME Progress, Sound, typecheck_check
    PROVE  Sound'
<1>1. /\ phase = "parse" /\ ret = Idle /\ ret' = Idle /\ mods' = mods
  BY DEF typecheck_check
<1>2. Unharmed => Unharmed'
  BY CheckFaults DEF Unharmed
<1> QED
  BY <1>1, <1>2, SoundStays DEF Healthy

(* A step before the loop over the files. *)
LEMMA ReadSound ==
    ASSUME Progress, Sound,
           \/ main_no_input \/ main_begin \/ reader_add_std_lib \/ std_lib_added
           \/ reader_add_all \/ all_added
    PROVE  Sound'
<1>1. phase \in BeforeParsing /\ UNCHANGED <<parsing, mods, total>>
  BY DEF main_no_input, main_begin, reader_add_std_lib, std_lib_added, reader_add_all, all_added,
         BeforeParsing
<1>2. ret = Idle
  BY <1>1 DEF Progress, ModsParsed
<1>3. ret' = ret /\ (Unharmed => Unharmed')
  BY <1>1 DEF parsing, vars, memory, Unharmed
<1> QED
  BY <1>1, <1>2, <1>3, SoundStays DEF Healthy, BeforeParsing

(* What is freed at the end is freed after that. *)
LEMMA EndSound ==
    ASSUME typecheck_free_tc \/ mod_free_map \/ main_returns \/ main_aborts
    PROVE  Sound'
<1>1. phase' \in {"free modules", "return", "exited", "aborted"}
  BY DEF typecheck_free_tc, mod_free_map, main_returns, main_aborts, Exit
<1> QED
  BY <1>1 DEF Sound, Faultless, Healthy

LEMMA StepSound == Progress /\ Firmly /\ Sound /\ [DriverNext]_all => Sound'
<1>1. ASSUME Progress, Sound, UNCHANGED all PROVE Sound'
  <2>1. UNCHANGED <<phase, mods, total, ret, faults, errors, bails>>
    BY <1>1 DEF all, parsing, driving, vars, memory
  <2>2. Tidy => Tidy'
    BY <1>1 DEF all, parsing, vars, memory, Tidy, Unharmed, Contained, Running, Top
  <2>3. \A k : Owns(k) => Owns(k)'
    BY <2>1, OwnsStays
  <2>4. Untroubled' = Untroubled /\ Faultless' = Faultless
    BY <2>1 DEF Untroubled, Faultless
  <2> QED
    BY <1>1, <2>1, <2>2, <2>3, <2>4 DEF Sound, Unharmed
<1> QED
  BY <1>1, ReadSound, CreateSound, ParsesSound, FileSound, CheckSound, EndSound DEF DriverNext

(* What else goes wrong is to be seen in the files: in one that was begun, *)
Overruns(n) == \E k \in DOMAIN files : k <= n + 1 /\ HasStruct(files[k].text)

(* and in the modules. *)
Shown ==
    /\ "overrun" \in faults => Overruns(Len(mods))
    /\ "literal" \in faults =>
           \E k \in DOMAIN mods : \E i \in DOMAIN mods[k].stmts : mods[k].stmts[i].kind = "struct"
    /\ "null" \in faults =>
           \E k \in DOMAIN mods : mods[k].stmts # <<>> /\ HasList(mods[k].stmts[1])

(* It stays so where files and modules do, or come. *)
LEMMA ShownStays ==
    ASSUME Shown, \A x \in {"overrun", "literal", "null"} : x \in faults' => x \in faults,
           Len(mods) \in Nat, Len(mods') \in Nat, Len(mods') >= Len(mods),
           \A k \in DOMAIN mods : k \in DOMAIN mods' /\ mods'[k].stmts = mods[k].stmts,
           \A k \in DOMAIN files : k \in DOMAIN files' /\ files'[k] = files[k],
           DOMAIN files \subseteq Int
    PROVE  Shown'
<1>1. \A k \in DOMAIN files : k <= Len(mods) + 1 => k <= Len(mods') + 1
  OBVIOUS
<1>2. "overrun" \in faults' => Overruns(Len(mods))'
  <2>1. ASSUME "overrun" \in faults'
        PROVE  \E k \in DOMAIN files' : k <= Len(mods') + 1 /\ HasStruct(files'[k].text)
    <3>1. PICK k \in DOMAIN files : k <= Len(mods) + 1 /\ HasStruct(files[k].text)
      BY <2>1 DEF Shown, Overruns
    <3>2. k \in DOMAIN files' /\ files'[k] = files[k] /\ k <= Len(mods') + 1
      BY <1>1, <3>1
    <3> QED
      BY <3>1, <3>2
  <2> QED
    BY <2>1 DEF Overruns
<1>3. "literal" \in faults' =>
          \E k \in DOMAIN mods' : \E i \in DOMAIN mods'[k].stmts : mods'[k].stmts[i].kind = "struct"
  BY DEF Shown
<1>4. "null" \in faults' =>
          \E k \in DOMAIN mods' : mods'[k].stmts # <<>> /\ HasList(mods'[k].stmts[1])
  <2>1. ASSUME "null" \in faults'
        PROVE  \E k \in DOMAIN mods' : mods'[k].stmts # <<>> /\ HasList(mods'[k].stmts[1])
    <3>1. PICK k \in DOMAIN mods : mods[k].stmts # <<>> /\ HasList(mods[k].stmts[1])
      BY <2>1 DEF Shown
    <3>2. k \in DOMAIN mods' /\ mods'[k].stmts = mods[k].stmts
      BY <3>1
    <3> QED
      BY <3>1, <3>2
  <2> QED
    BY <2>1
<1> QED
  BY <1>2, <1>3, <1>4 DEF Shown

(* The files and the modules are sequences. *)
LEMMA FilesAre ==
    ASSUME Progress
    PROVE  /\ Len(mods) \in Nat /\ DOMAIN mods = 1 .. Len(mods) /\ DOMAIN files = 1 .. Len(files)
           /\ DOMAIN files \subseteq Int /\ Len(files) \in Nat
<1>1. PICK S : files \in Seq(S)
  BY DEF Progress, FilesRead, Listed
<1>2. DOMAIN files = 1 .. Len(files) /\ Len(files) \in Nat
  BY <1>1
<1> QED
  BY <1>2 DEF Progress, ModsOK

(* A step that reads, *)
LEMMA ReadShown ==
    ASSUME Progress, Shown, UNCHANGED <<faults, mods>>,
           files' = files \/ \E f : files' = Append(files, f)
    PROVE  Shown'
<1>1. \A k \in DOMAIN files : k \in DOMAIN files' /\ files'[k] = files[k]
  <2>1. ASSUME NEW f, files' = Append(files, f)
        PROVE  \A k \in DOMAIN files : k \in DOMAIN files' /\ files'[k] = files[k]
    <3>1. PICK S : files \in Seq(S)
      BY DEF Progress, FilesRead, Listed
    <3>2. files \in Seq(S \cup {f}) /\ f \in S \cup {f}
      BY <3>1
    <3> QED
      BY <2>1, <3>2
  <2> QED
    BY <2>1
<1>2. Len(mods') >= Len(mods)
  BY FilesAre
<1> QED
  BY <1>1, <1>2, FilesAre, ShownStays

(* one that parses, *)
LEMMA ParsesShown ==
    ASSUME Progress, Shown, Parses
    PROVE  Shown'
<1>1. /\ mods' = mods /\ files' = files /\ phase = "parse" /\ Running /\ Adds
  BY StatementAdds, ExpressionAdds, StatementFile, ExpressionFile DEF Parses, driving, Progress
<1>2. CASE "overrun" \in faults' => "overrun" \in faults
  <2>1. \A x \in {"overrun", "literal", "null"} : x \in faults' => x \in faults
    BY <1>1, <1>2 DEF Adds
  <2> QED
    BY <1>1, <2>1, FilesAre, ShownStays
<1>3. CASE "overrun" \in faults' /\ "overrun" \notin faults
  <2>1. HasStruct(toks)
    BY <1>1, <1>3 DEF Adds
  <2>2. Len(mods) < Len(files) /\ toks = files[Len(mods) + 1].text
    BY <1>1 DEF Progress, ModsParsed
  <2>3. Len(mods) + 1 \in DOMAIN files /\ Len(mods) + 1 <= Len(mods) + 1
    BY <2>2, FilesAre
  <2>4. \E k \in DOMAIN files : k <= Len(mods) + 1 /\ HasStruct(files[k].text)
    BY <2>1, <2>2, <2>3
  <2>5. Overruns(Len(mods))'
    BY <1>1, <2>4 DEF Overruns
  <2>6. \A x \in {"literal", "null"} : x \in faults' => x \in faults
    BY <1>1 DEF Adds
  <2> QED
    BY <1>1, <2>5, <2>6 DEF Shown
<1> QED
  BY <1>2, <1>3

(* one that adds a module, *)
LEMMA FileShown ==
    ASSUME Progress, Shown, file_parsed
    PROVE  Shown'
<1>1. PICK m : m.stmts = mod /\ mods' = Append(mods, m)
  BY DEF file_parsed, mod_add_mod
<1>2. files' = files /\ faults' \subseteq faults \cup {"cut"} \cup debug_info(mod)
  BY FileFaults DEF file_parsed
<1>3. PICK n \in Nat : n = Len(mods)
  BY DEF Progress, ModsOK
<1>4. /\ Len(mods') = n + 1 /\ DOMAIN mods' = 1 .. n + 1 /\ DOMAIN mods = 1 .. n
      /\ mods'[n + 1] = m /\ \A k \in 1 .. n : mods'[k] = mods[k]
  <2>1. PICK S : mods \in Seq(S)
    BY DEF Progress, ModsOK
  <2>2. mods \in Seq(S \cup {m}) /\ m \in S \cup {m}
    BY <2>1
  <2> QED
    BY <1>1, <1>3, <2>2
<1>5. n + 1 \in DOMAIN mods' /\ mods'[n + 1].stmts = mod /\ \A k \in DOMAIN mods : k \in DOMAIN mods'
  BY <1>1, <1>3, <1>4
<1>6. "overrun" \in faults' => Overruns(Len(mods))'
  <2>1. ASSUME "overrun" \in faults'
        PROVE  \E k \in DOMAIN files' : k <= Len(mods') + 1 /\ HasStruct(files'[k].text)
    <3>1. "overrun" \in faults
      BY <1>2, <2>1, InfoOnly
    <3>2. PICK k \in DOMAIN files : k <= Len(mods) + 1 /\ HasStruct(files[k].text)
      BY <3>1 DEF Shown, Overruns
    <3>3. k <= Len(mods') + 1
      BY <1>3, <1>4, <3>2, FilesAre
    <3> QED
      BY <1>2, <3>2, <3>3
  <2> QED
    BY <2>1 DEF Overruns
<1>7. ASSUME "literal" \in faults'
      PROVE  \E k \in DOMAIN mods' : \E i \in DOMAIN mods'[k].stmts : mods'[k].stmts[i].kind = "struct"
  <2>1. CASE "literal" \in faults
    BY <1>4, <1>5, <2>1 DEF Shown
  <2>2. CASE "literal" \notin faults
    <3>1. \E i \in DOMAIN mod : mod[i].kind = "struct"
      BY <1>2, <1>7, <2>2, InfoOnly
    <3> QED
      BY <1>5, <3>1
  <2> QED
    BY <2>1, <2>2
<1>8. ASSUME "null" \in faults'
      PROVE  \E k \in DOMAIN mods' : mods'[k].stmts # <<>> /\ HasList(mods'[k].stmts[1])
  <2>1. CASE "null" \in faults
    <3>1. PICK k \in DOMAIN mods : mods[k].stmts # <<>> /\ HasList(mods[k].stmts[1])
      BY <2>1 DEF Shown
    <3>2. k \in DOMAIN mods' /\ mods'[k] = mods[k]
      BY <1>4, <1>5, <3>1
    <3> QED
      BY <3>1, <3>2
  <2>2. CASE "null" \notin faults
    <3>1. mod # <<>> /\ HasList(mod[1])
      BY <1>2, <1>8, <2>2, InfoOnly
    <3> QED
      BY <1>5, <3>1
  <2> QED
    BY <2>1, <2>2
<1> QED
  BY <1>6, <1>7, <1>8 DEF Shown

(* and all others. *)
LEMMA StepShown == Progress /\ Shown /\ [DriverNext]_all => Shown'
<1> SUFFICES ASSUME Progress, Shown, [DriverNext]_all PROVE Shown'
  OBVIOUS
<1>1. CASE UNCHANGED <<faults, mods, files>>
  BY <1>1, ReadShown
<1>2. CASE reader_add_std_lib \/ reader_add_all
  <2>1. UNCHANGED <<faults, mods>>
    BY <1>2 DEF reader_add_std_lib, reader_add_all, parsing, vars, memory
  <2>2. files' = files \/ \E f : files' = Append(files, f)
    BY <1>2 DEF reader_add_std_lib, reader_add_all, reader_add_file
  <2> QED
    BY <2>1, <2>2, ReadShown
<1>3. CASE main_no_input \/ main_begin \/ std_lib_added \/ all_added \/ main_returns \/ main_aborts
  BY <1>1, <1>3 DEF main_no_input, main_begin, std_lib_added, all_added, main_returns, main_aborts,
     parsing, vars, memory
<1>4. CASE parser_create
  BY <1>1, <1>4 DEF parser_create, driving
<1>5. CASE typecheck_check \/ typecheck_free_tc
  <2>1. files' = files /\ mods' = mods /\ faults' \subseteq faults \cup {"cut", "double"}
    BY <1>5, CheckFaults DEF typecheck_check, typecheck_free_tc
  <2>2. \A x \in {"overrun", "literal", "null"} : x \in faults' => x \in faults
    BY <2>1
  <2> QED
    BY <2>1, <2>2, FilesAre, ShownStays
<1>6. CASE mod_free_map
  <2>1. /\ files' = files /\ mods' = [k \in DOMAIN mods |-> [mods[k] EXCEPT !.heap = {}]]
        /\ \E f \in [DOMAIN mods -> SUBSET {"double", "wild"}] :
               faults' = faults \cup {"double"} \cup UNION {f[k] : k \in DOMAIN mods}
    BY <1>6 DEF mod_free_map
  <2>2. \A x \in {"overrun", "literal", "null"} : x \in faults' => x \in faults
    BY <2>1
  <2>3. \A k \in DOMAIN mods : k \in DOMAIN mods' /\ mods'[k].stmts = mods[k].stmts
    BY <2>1 DEF Progress, ModsOK
  <2>4. Len(mods') = Len(mods)
    <3>1. mods' \in [1 .. Len(mods) -> {[mods[k] EXCEPT !.heap = {}] : k \in DOMAIN mods}]
      BY <2>1, FilesAre
    <3> QED
      BY <3>1, FilesAre, FunctionIsSeq
  <2>5. Len(mods') \in Nat /\ Len(mods') >= Len(mods)
    BY <2>4, FilesAre
  <2> QED
    BY <2>1, <2>2, <2>3, <2>5, FilesAre, ShownStays
<1>7. CASE UNCHANGED all
  BY <1>1, <1>7 DEF all, parsing, driving, vars, memory
<1> QED
  BY <1>2, <1>3, <1>4, <1>5, <1>6, <1>7, ParsesShown, FileShown DEF DriverNext

LEMMA SoundUndisturbed == Progress /\ Sound /\ Shown => Undisturbed
<1> SUFFICES ASSUME Progress, Sound, Shown, BetweenStatements, errors = 0, bails = {}, Faultless
             PROVE  Unharmed /\ \A k \in 1 .. Len(mods) : Owns(k)
  <2>1. DOMAIN mods = 1 .. Len(mods)
    BY DEF Progress, ModsOK
  <2> QED
    BY <2>1 DEF Undisturbed, Faultless, Healthy, Owns, Unharmed, Shown, Overruns
<1>1. CASE ret = Idle
  BY <1>1 DEF Sound
<1>2. CASE ret # Idle
  <2>1. Covered /\ Typed /\ Stacked
    BY DEF Progress, IInv, BetweenStatements
  <2>2. ret.kind # "NULL"
    BY <2>1 DEF Covered, Stacked, BetweenStatements
  <2>3. ret.kind # "aborted"
    BY <2>1 DEF Typed, IsTree, Halted, Entered, Returned, Idle, NULL, BetweenStatements
  <2> QED
    BY <1>2, <2>2, <2>3 DEF Sound, Untroubled, Tidy
<1> QED
  BY <1>1, <1>2

(* Whatever the library, the command line and the files: as long as the    *)
(* parser has found no error and given up no list, no tree was freed or    *)
(* taken for another when a statement has been parsed, every module owns   *)
(* the nodes that were allocated for it, and what else went wrong in the   *)
(* parser or in printing is explained by a struct, a call or an            *)
(* initialiser in the files (synthium.c:69-113, 117-192).                  *)
THEOREM AlwaysUndisturbed == DriverSpec => []Undisturbed
<1>1. DriverInit => Progress /\ Firmly /\ Sound /\ Shown
  <2>1. DriverInit => mods = <<>> /\ Len(mods) = 0 /\ ret = Idle /\ faults = {}
    BY DEF DriverInit
  <2> QED
    BY <2>1, InitProgress DEF Sound, Firmly, Shown, Unharmed
<1>2. DriverInit /\ [][DriverNext]_all => [](Progress /\ Firmly /\ Sound /\ Shown)
  BY <1>1, StepProgress, StepFirmly, StepSound, StepShown, PTL
<1> QED
  BY <1>2, SoundUndisturbed, PTL DEF DriverSpec
-----------------------------------------------------------------------------
(* The driver: what is printed when a file cannot be read. *)

(* The files are those that were given, and what is reported is one of the *)
(* reasons for which they cannot be read, with the text that is for it.    *)
Told ==
    /\ stdlib \in Libraries /\ args \in Commands
    /\ reported # <<>> =>
           \E error, why : Reason(error, why) /\ reported = <<why, error_err2str(error)>>

(* The texts are in the order of the codes; an errno above them has none,  *)
(* and of those below only that of a missing file and that of an input     *)
(* error are left by realpath (error.c:4-34).                              *)
LEMMA ReasonTold ==
    ASSUME NEW error, NEW why, Reason(error, why), why # "input"
    PROVE  error_err2str(error) \in {NoText, why}
<1>1. DOMAIN error_texts = 1 .. 11
  BY SMT DEF error_texts
<1>2. /\ error_texts[1] = "empty" /\ error_texts[2] = "open"
      /\ error_texts[3] = "allocate" /\ error_texts[4] = "read"
  BY DEF error_texts
<1>3. CASE error \in Nat /\ error > 11
  <2>1. PICK n \in Nat : n = error /\ n > 11
    BY <1>3
  <2>2. error \notin DOMAIN error_texts
    BY <1>1, <2>1
  <2> QED
    BY <2>2 DEF error_err2str
<1>4. CASE \/ error = 1 /\ why = "empty"
           \/ error = 2 /\ why = "open"
           \/ error = 3 /\ why = "allocate"
           \/ error = 4 /\ why = "read"
  <2>1. 1 \in 1 .. 11 /\ 2 \in 1 .. 11 /\ 3 \in 1 .. 11 /\ 4 \in 1 .. 11
    OBVIOUS
  <2>2. error_texts[error] = why /\ error \in DOMAIN error_texts
    BY <1>1, <1>2, <1>4, <2>1, Zenon
  <2> QED
    BY <2>2 DEF error_err2str
<1>5. \/ error \in Nat /\ error > 11
      \/ error = 1 /\ why = "empty"
      \/ error = 2 /\ why = "open"
      \/ error = 3 /\ why = "allocate"
      \/ error = 4 /\ why = "read"
  BY Zenon DEF Reason
<1> QED
  BY <1>3, <1>4, <1>5

(* A file of the library or of the command line, under whatever name. *)
LEMMA AddTold ==
    ASSUME Told, NEW fs \in Libraries \cup Commands, NEW k \in 1 .. Len(fs),
           NEW f, f.error = fs[k].error, f.why = fs[k].why,
           reader_add_file(f), UNCHANGED <<stdlib, args>>
    PROVE  Told'
<1>1. CASE f.error = 0
  <2>1. reported' = reported
    BY <1>1 DEF reader_add_file
  <2> QED
    BY <2>1 DEF Told
<1>2. CASE f.error # 0
  <2>1. k \in DOMAIN fs
    BY FilesAssumption
  <2>2. Reason(f.error, f.why)
    BY <1>2, <2>1, ReasonsAssumption
  <2>3. reported' = <<f.why, error_err2str(f.error)>>
    BY <1>2 DEF reader_add_file
  <2> QED
    BY <2>2, <2>3 DEF Told
<1> QED
  BY <1>1, <1>2

LEMMA StepTold == Progress /\ Told /\ [DriverNext]_all => Told'
<1> SUFFICES ASSUME Progress, Told, [DriverNext]_all PROVE Told'
  OBVIOUS
<1>1. CASE UNCHANGED <<stdlib, args, reported>>
  BY <1>1 DEF Told
<1>2. Len(stdlib) \in Nat /\ Len(args) \in Nat /\ Len(files) \in Nat
  BY ListedAt DEF Progress, FilesRead
<1>3. CASE reader_add_std_lib
  <2>1. PICK k : k = Len(files) + 1
    OBVIOUS
  <2>2. k \in 1 .. Len(stdlib)
    BY <1>2, <1>3, <2>1 DEF reader_add_std_lib
  <2>3. PICK f : f = [stdlib[k] EXCEPT !.under = FALSE]
    OBVIOUS
  <2>4. stdlib[k] \in SourceFiles
    BY <2>2, FilesAssumption DEF Told
  <2>5. f.error = stdlib[k].error /\ f.why = stdlib[k].why
    BY <2>3, <2>4 DEF SourceFiles
  <2>6. reader_add_file(f) /\ UNCHANGED <<stdlib, args>>
    BY <1>3, <2>1, <2>3 DEF reader_add_std_lib
  <2> QED
    BY <2>2, <2>5, <2>6, AddTold DEF Told
<1>4. CASE reader_add_all
  <2>1. PICK k : k = Len(args) - unread + 1
    OBVIOUS
  <2>2. k \in 1 .. Len(args)
    <3>1. phase = "files" /\ unread > 0
      BY <1>4 DEF reader_add_all
    <3>2. Len(stdlib) <= Len(files) /\ Len(files) <= Len(stdlib) + Len(args)
      BY <3>1 DEF Progress, FilesRead
    <3> QED
      BY <1>2, <2>1, <3>1, <3>2 DEF unread
  <2>3. reader_add_file(args[k]) /\ UNCHANGED <<stdlib, args>>
    BY <1>4, <2>1 DEF reader_add_all
  <2> QED
    BY <2>2, <2>3, AddTold DEF Told
<1>5. CASE main_no_input \/ main_begin \/ std_lib_added \/ all_added \/ parser_create \/ Parses
  BY <1>1, <1>5 DEF main_no_input, main_begin, std_lib_added, all_added, parser_create, Parses, driving
<1>6. CASE file_parsed \/ typecheck_check \/ typecheck_free_tc \/ mod_free_map \/ main_returns \/ main_aborts
  BY <1>1, <1>6 DEF file_parsed, typecheck_check, typecheck_free_tc, mod_free_map, main_returns, main_aborts
<1>7. CASE UNCHANGED all
  BY <1>1, <1>7 DEF all, driving
<1> QED
  BY <1>3, <1>4, <1>5, <1>6, <1>7 DEF DriverNext

(* Whatever files cannot be read, as long as realpath fails for the        *)
(* reasons it documents: the text that is printed says why, or there is    *)
(* none, but after an input error (reader.c:111-132, error.c:20-34).       *)
THEOREM AlwaysExplained == DriverSpec => []Explained
<1>1. DriverInit => Progress /\ Told
  BY InitProgress DEF DriverInit, Told
<1>2. DriverInit /\ [][DriverNext]_all => [](Progress /\ Told)
  BY <1>1, StepProgress, StepTold, PTL
<1>3. Told => Explained
  <2> SUFFICES ASSUME Told, reported # <<>>, reported[1] # "input"
               PROVE  reported[2] \in {NoText, reported[1]}
    BY DEF Explained
  <2>1. PICK error, why : Reason(error, why) /\ reported = <<why, error_err2str(error)>>
    BY DEF Told
  <2>2. reported[1] = why /\ reported[2] = error_err2str(error)
    BY <2>1
  <2> QED
    BY <2>1, <2>2, ReasonTold
<1> QED
  BY <1>2, <1>3, PTL DEF DriverSpec
=============================================================================
