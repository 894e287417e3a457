------------------------- MODULE TypeCheckerProofs -------------------------
(***************************************************************************)
(* For every set of modules, every program and every order of the modules. *)
(*                                                                         *)
(* First, what does not depend on types: a module is checked in its own    *)
(* context, its aliases lead to checked modules it imported, every module  *)
(* is checked once and to its end, and imports nest (IInv).                *)
(* Then the scopes (Scoped): a name is bound to nothing that its module    *)
(* does not bind, and to no struct of another module.  Then the structs:   *)
(* their types and widths (Sized), that a known width stays (Frozen), that *)
(* it is that of the declaration (LaidOut), that what is undefined has its *)
(* cause in the program (Named, Answered, Explained), and that a struct    *)
(* without a width is accounted for (NonNeg, Awaited).                     *)
(***************************************************************************)
EXTENDS TypeChecker, FiniteSetTheorems, SequenceTheorems, WellFoundedInduction, TLAPS

(* Contexts and frames hold local names of any type. *)
IsSeq(s) == \E S : s \in Seq(S)
IsContext(c) == /\ c = [mod |-> c.mod, aliases |-> c.aliases, locals |-> c.locals]
                /\ c.mod \in Mods \cup {NULL}
                /\ c.aliases \in [Names -> Mods \cup {NULL}]

Typing ==
    /\ prog \in [Mods -> Seq(Stmt)]
    /\ order \in Orders /\ pos \in 0 .. Len(order)
    /\ at \in [Mods -> Nat \ {0}]
    /\ typed \subseteq Mods
    /\ outcome \in {"running", "done"} \cup Undefined
    /\ IsContext(ctx)
    /\ IsSeq(frames)
    /\ \A k \in DOMAIN frames : frames[k].mod \in Mods /\ IsContext(frames[k].saved)

(* The modules on the stack have a type, and none is there twice. *)
Nested == \A k \in DOMAIN frames :
    /\ frames[k].mod \in typed
    /\ \A l \in DOMAIN frames : frames[l].mod = frames[k].mod => l = k

(* A module that has a type is on the stack or was checked to its end, and *)
(* one that waits for an import is still at the import.                    *)
Bounded ==
    /\ \A m \in typed : at[m] <= Len(prog[m]) + 1
    /\ \A m \in typed : (\A k \in DOMAIN frames : frames[k].mod # m) => at[m] = Len(prog[m]) + 1
    /\ \A k \in DOMAIN frames : k < Len(frames) => at[frames[k].mod] <= Len(prog[frames[k].mod])

(* typecheck_check has visited a part of the order. *)
Visited == /\ \A k \in 1 .. pos : order[k] \in typed
           /\ outcome = "done" => frames = <<>> /\ pos = Len(order)

IInv == Typing /\ Nested /\ Bounded /\ Visited /\ ContextMatches /\ AliasesOwn

-----------------------------------------------------------------------------
(* Sequences whose elements have no common type: pushing and popping. *)
LEMMA SeqFacts ==
    ASSUME NEW s, IsSeq(s)
    PROVE  Len(s) \in Nat /\ DOMAIN s = 1 .. Len(s) /\ (s = <<>> <=> Len(s) = 0)
BY DEF IsSeq

LEMMA PushFacts ==
    ASSUME NEW s, IsSeq(s), NEW e
    PROVE  /\ IsSeq(Append(s, e))
           /\ Len(Append(s, e)) = Len(s) + 1
           /\ Append(s, e)[Len(s) + 1] = e
           /\ \A k \in 1 .. Len(s) : Append(s, e)[k] = s[k]
<1>1. PICK S : s \in Seq(S)
  BY DEF IsSeq
<1>2. s \in Seq(S \cup {e}) /\ e \in S \cup {e}
  BY <1>1
<1>3. Append(s, e) \in Seq(S \cup {e})
  BY <1>2
<1> QED
  BY <1>2, <1>3 DEF IsSeq

LEMMA PopFacts ==
    ASSUME NEW s, IsSeq(s), Len(s) > 0
    PROVE  LET t == SubSeq(s, 1, Len(s) - 1)
           IN  /\ IsSeq(t)
               /\ Len(t) = Len(s) - 1
               /\ \A k \in 1 .. Len(s) - 1 : t[k] = s[k]
<1>1. PICK S : s \in Seq(S)
  BY DEF IsSeq
<1> DEFINE n == Len(s) - 1
           t == SubSeq(s, 1, n)
<1>2. n \in Nat /\ n <= Len(s)
  BY <1>1
<1>3. t \in Seq(S) /\ Len(t) = n /\ \A k \in 1 .. n : t[k] = s[k]
  <2>1. \A i \in 1 .. n : s[i] \in S
    BY <1>1, <1>2
  <2>2. /\ t \in Seq(S)
        /\ Len(t) = IF 1 <= n THEN n - 1 + 1 ELSE 0
        /\ \A i \in 1 .. n - 1 + 1 : t[i] = s[1 + i - 1]
    <3> HIDE DEF n
    <3> QED
      BY <1>2, <2>1, SubSeqProperties
  <2> HIDE DEF t, n
  <2> QED
    BY <1>2, <2>2
<1>4. IsSeq(t)
  BY <1>3 DEF IsSeq
<1> QED
  BY <1>3, <1>4

(* The order is a sequence of all modules. *)
LEMMA OrderFacts ==
    ASSUME NEW s \in Orders
    PROVE  s \in Seq(Mods) /\ {s[k] : k \in 1 .. Len(s)} = Mods
<1>1. Cardinality(Mods) \in Nat
  BY ModsAssumption, FS_CardinalityType
<1> QED
  BY <1>1 DEF Orders

(* What happens to a context on the way. *)
LEMMA ContextFacts ==
    ASSUME NEW c, IsContext(c), NEW n, NEW t, NEW p \in Names, NEW m \in Mods
    PROVE  /\ IsContext(typecheck_bind(c, n, t))
           /\ typecheck_bind(c, n, t).mod = c.mod
           /\ typecheck_bind(c, n, t).aliases = c.aliases
           /\ IsContext(typecheck_add_import_alias(c, p, m))
           /\ typecheck_add_import_alias(c, p, m).mod = c.mod
           /\ typecheck_add_import_alias(c, p, m).aliases = [c.aliases EXCEPT ![p] = m]
BY DEF IsContext, typecheck_bind, typecheck_add_import_alias

LEMMA FreshContextFacts ==
    /\ IsContext(typecheck_empty_ctx)
    /\ \A m \in Mods : /\ IsContext(typecheck_create_ctx(m)) /\ typecheck_create_ctx(m).mod = m
                       /\ \A p \in Names : typecheck_create_ctx(m).aliases[p] = NULL
BY DEF IsContext, typecheck_empty_ctx, typecheck_create_ctx

(* The statement being checked is one of its module. *)
LEMMA CurrentFacts ==
    ASSUME IInv, NEW op, At(op)
    PROVE  /\ Len(frames) \in Nat \ {0} /\ DOMAIN frames = 1 .. Len(frames)
           /\ Top.mod \in Mods /\ Top.mod \in typed /\ ctx.mod = Top.mod
           /\ at[Top.mod] \in 1 .. Len(prog[Top.mod])
           /\ Current \in Stmt /\ Current.op = op
<1>1. Len(frames) \in Nat \ {0} /\ DOMAIN frames = 1 .. Len(frames)
  BY SeqFacts DEF IInv, Typing, At
<1>2. Top.mod \in Mods /\ Top.mod \in typed /\ ctx.mod = Top.mod
  BY <1>1 DEF IInv, Typing, Nested, ContextMatches, Top, At
<1>3. at[Top.mod] \in 1 .. Len(prog[Top.mod])
  BY <1>2 DEF IInv, Typing, At, AtEnd
<1> QED
  BY <1>1, <1>2, <1>3 DEF IInv, Typing, Current, At

LEMMA ImportFacts ==
    ASSUME IInv, At("import")
    PROVE  Current.path \in Names /\ (Found(Current.path) => KeyMod[Current.path] \in Mods)
BY CurrentFacts, KeyModAssumption DEF Stmt, Found

-----------------------------------------------------------------------------
(* A statement other than an import of an unchecked module: the module's   *)
(* context may get the alias of the import being checked.                  *)
LEMMA StatementStep ==
    ASSUME IInv, NEW op, At(op), Next_stmt,
           UNCHANGED <<prog, order, pos, frames, typed>>,
           outcome' \in {"running"} \cup Undefined,
           IsContext(ctx'), ctx'.mod = ctx.mod,
           \A p \in Names : \/ ctx'.aliases[p] = ctx.aliases[p]
                           \/ /\ Current.op = "import" /\ Current.path = p
                              /\ ctx'.aliases[p] = KeyMod[p] /\ KeyMod[p] \in typed
    PROVE  IInv'
<1> DEFINE t == Top.mod
<1>1. /\ Len(frames) \in Nat \ {0} /\ DOMAIN frames = 1 .. Len(frames)
      /\ t \in Mods /\ t \in typed /\ ctx.mod = t /\ at[t] \in 1 .. Len(prog[t])
      /\ t = frames[Len(frames)].mod /\ Current = prog[t][at[t]]
  BY CurrentFacts DEF Top, Current
<1>2. at' = [at EXCEPT ![t] = at[t] + 1]
  BY <1>1 DEF Next_stmt, IInv, Typing
<1>3. Typing'
  BY <1>1, <1>2 DEF IInv, Typing
<1>4. Nested' /\ Visited' /\ ContextMatches'
  BY <1>1 DEF IInv, Nested, Visited, ContextMatches, Top, At, Undefined
<1>5. Bounded'
  <2>1. at' \in [Mods -> Nat \ {0}] /\ at'[t] = at[t] + 1 /\ at'[t] <= Len(prog[t]) + 1
    BY <1>1, <1>2 DEF IInv, Typing
  <2>2. \A m \in Mods \ {t} : at'[m] = at[m]
    BY <1>2 DEF IInv, Typing
  <2>3. \A k \in DOMAIN frames : k < Len(frames) => frames[k].mod \in Mods \ {t}
    <3> SUFFICES ASSUME NEW k \in DOMAIN frames, k < Len(frames)
                 PROVE  frames[k].mod \in Mods /\ frames[k].mod # t
      OBVIOUS
    <3>1. frames[k].mod \in Mods
      BY DEF IInv, Typing
    <3>2. k # Len(frames) /\ Len(frames) \in DOMAIN frames
      BY <1>1
    <3>3. frames[k].mod # frames[Len(frames)].mod
      BY <3>2 DEF IInv, Nested
    <3> QED
      BY <1>1, <3>1, <3>3
  <2> HIDE DEF t
  <2>4. \A m \in typed : at'[m] <= Len(prog[m]) + 1
    BY <2>1, <2>2 DEF IInv, Typing, Bounded
  <2>5. \A m \in typed : (\A k \in DOMAIN frames : frames[k].mod # m) => m # t /\ at[m] = Len(prog[m]) + 1
    BY <1>1 DEF IInv, Bounded
  <2>6. \A k \in DOMAIN frames : k < Len(frames) => at'[frames[k].mod] <= Len(prog[frames[k].mod])
    BY <2>2, <2>3 DEF IInv, Bounded
  <2>7. typed \subseteq Mods
    BY DEF IInv, Typing
  <2> QED
    BY <2>2, <2>4, <2>5, <2>6, <2>7 DEF Bounded
<1>6. AliasesOwn'
  <2>1. ASSUME NEW p \in Names, ctx'.aliases[p] # NULL
        PROVE  /\ ctx'.aliases[p] = KeyMod[p] /\ KeyMod[p] \in typed
               /\ \E s \in 1 .. at[t] : prog[t][s].op = "import" /\ prog[t][s].path = p
    <3>1. CASE ctx'.aliases[p] = ctx.aliases[p]
      <4>1. PICK s \in 1 .. at[t] - 1 : prog[t][s].op = "import" /\ prog[t][s].path = p
        BY <1>1, <2>1, <3>1 DEF IInv, AliasesOwn, OwnAliases
      <4>2. ctx'.aliases[p] = KeyMod[p] /\ KeyMod[p] \in typed
        BY <1>1, <2>1, <3>1 DEF IInv, AliasesOwn, OwnAliases
      <4>3. s \in 1 .. at[t]
        BY <1>1, <4>1
      <4> QED
        BY <4>1, <4>2, <4>3
    <3>2. CASE /\ Current.op = "import" /\ Current.path = p
               /\ ctx'.aliases[p] = KeyMod[p] /\ KeyMod[p] \in typed
      BY <1>1, <3>2
    <3> QED
      BY <3>1, <3>2
  <2>2. at'[ctx'.mod] - 1 = at[t] /\ ctx'.mod = t
    BY <1>1, <1>2 DEF IInv, Typing
  <2>3. \A k \in DOMAIN frames : k > 1 =>
            frames[k].saved.mod = frames[k - 1].mod /\ frames[k - 1].mod \in Mods \ {t}
    <3> SUFFICES ASSUME NEW k \in DOMAIN frames, k > 1
                 PROVE  /\ frames[k].saved.mod = frames[k - 1].mod
                        /\ frames[k - 1].mod \in Mods \ {t}
      OBVIOUS
    <3>1. k - 1 \in DOMAIN frames /\ k - 1 # Len(frames) /\ Len(frames) \in DOMAIN frames
      BY <1>1
    <3>2. frames[k].saved.mod = frames[k - 1].mod
      BY DEF IInv, ContextMatches
    <3>3. frames[k - 1].mod # t
      BY <1>1, <3>1 DEF IInv, Nested
    <3> QED
      BY <3>1, <3>2, <3>3 DEF IInv, Typing
  <2>4. \A k \in DOMAIN frames : k > 1 => at'[frames[k].saved.mod] = at[frames[k].saved.mod]
    BY <1>2, <2>3 DEF IInv, Typing
  <2> HIDE DEF t
  <2>5. OwnAliases(ctx, at[ctx.mod] - 1)'
    BY <2>1, <2>2 DEF OwnAliases
  <2>6. \A k \in DOMAIN frames : k > 1 => OwnAliases(frames[k].saved, at[frames[k].saved.mod])'
    BY <2>4 DEF IInv, AliasesOwn, OwnAliases
  <2> QED
    BY <2>5, <2>6 DEF AliasesOwn
<1> QED
  BY <1>3, <1>4, <1>5, <1>6 DEF IInv

(* A module is opened: from typecheck_check with nothing on the stack, or  *)
(* by the import being checked, whose context is saved.                    *)
LEMMA EnterStep ==
    ASSUME IInv, outcome = "running", NEW m \in Mods \ typed,
           NEW saved, IsContext(saved), Enter(m, saved), NEW i,
           UNCHANGED <<prog, order, outcome>>,
           pos' \in 0 .. Len(order), \A k \in 1 .. pos' : order[k] \in typed',
           frames # <<>> => /\ at[Top.mod] = i /\ i <= Len(prog[Top.mod])
                            /\ saved.mod = Top.mod
                            /\ OwnAliases(saved, i)'
    PROVE  IInv' /\ Pass!Open(m)
<1> DEFINE n == Len(frames)
<1>1. n \in Nat /\ DOMAIN frames = 1 .. n /\ (frames = <<>> <=> n = 0)
  BY SeqFacts DEF IInv, Typing
<1>2. /\ typed' = typed \cup {m} /\ typed' \subseteq Mods
      /\ at' = [at EXCEPT ![m] = 1] /\ at' \in [Mods -> Nat \ {0}] /\ at'[m] = 1
  BY DEF Enter, IInv, Typing
<1>3. \A x \in Mods \ {m} : at'[x] = at[x]
  BY <1>2 DEF IInv, Typing
<1>4. /\ IsSeq(frames') /\ Len(frames') = n + 1 /\ DOMAIN frames' = 1 .. n + 1
      /\ frames'[n + 1] = [mod |-> m, saved |-> saved]
      /\ \A k \in 1 .. n : frames'[k] = frames[k]
  <2>1. frames' = Append(frames, [mod |-> m, saved |-> saved])
    BY DEF Enter
  <2>2. IsSeq(frames)
    BY DEF IInv, Typing
  <2>3. IsSeq(frames')
    BY <2>1, <2>2, PushFacts
  <2>4. Len(frames') = n + 1 /\ DOMAIN frames' = 1 .. Len(frames')
    BY <2>1, <2>2, <2>3, PushFacts, SeqFacts
  <2> QED
    BY <2>1, <2>2, <2>3, <2>4, PushFacts
<1>5. /\ frames'[n + 1].mod = m /\ frames'[n + 1].saved = saved
      /\ frames' # <<>> /\ Top' = frames'[n + 1] /\ Top'.mod = m
  BY <1>1, <1>4, SeqFacts DEF Top
<1>6. /\ \A k \in 1 .. n : frames[k].mod \in Mods /\ frames[k].mod \in typed /\ frames[k].mod # m
      /\ IsContext(ctx') /\ ctx'.mod = m /\ \A p \in Names : ctx'.aliases[p] = NULL
  BY <1>1, FreshContextFacts DEF Enter, IInv, Typing, Nested
<1> HIDE DEF n
<1>7. Typing'
  <2>1. \A k \in DOMAIN frames' : frames'[k].mod \in Mods /\ IsContext(frames'[k].saved)
    BY <1>1, <1>4, <1>5 DEF IInv, Typing
  <2> QED
    BY <1>2, <1>4, <1>6, <2>1 DEF IInv, Typing
<1>8. Nested'
  <2>1. \A k, l \in 1 .. n : frames[l].mod = frames[k].mod => l = k
    BY <1>1 DEF IInv, Nested
  <2>2. \A k \in DOMAIN frames' : k = n + 1 \/ k \in 1 .. n
    BY <1>1, <1>4
  <2>3. \A k, l \in DOMAIN frames' : frames'[l].mod = frames'[k].mod => l = k
    BY <1>4, <1>5, <1>6, <2>1, <2>2
  <2>4. \A k \in DOMAIN frames' : frames'[k].mod \in typed'
    BY <1>2, <1>4, <1>5, <1>6, <2>2
  <2> QED
    BY <2>3, <2>4 DEF Nested
<1>9. Bounded'
  <2>1. Len(prog[m]) \in Nat /\ m \notin typed
    BY DEF IInv, Typing
  <2>2. \A x \in typed' : at'[x] <= Len(prog[x]) + 1
    BY <1>2, <1>3, <2>1 DEF IInv, Typing, Bounded
  <2>3. ASSUME NEW x \in typed', \A k \in DOMAIN frames' : frames'[k].mod # x
        PROVE  at'[x] = Len(prog[x]) + 1
    <3>1. x # m
      BY <1>1, <1>4, <1>5, <2>3
    <3>2. x \in typed /\ x \in Mods /\ \A k \in DOMAIN frames : frames[k].mod # x
      BY <1>1, <1>2, <1>4, <2>3, <3>1
    <3> QED
      BY <1>3, <3>1, <3>2 DEF IInv, Bounded
  <2>4. ASSUME NEW k \in DOMAIN frames', k < Len(frames')
        PROVE  at'[frames'[k].mod] <= Len(prog[frames'[k].mod])
    <3>1. k \in 1 .. n /\ frames'[k].mod = frames[k].mod /\ at'[frames[k].mod] = at[frames[k].mod]
      BY <1>1, <1>3, <1>4, <1>6, <2>4
    <3>2. CASE k < n
      BY <1>1, <3>1, <3>2 DEF n, IInv, Bounded
    <3>3. CASE k = n
      BY <1>1, <3>1, <3>3 DEF n, Top
    <3> QED
      BY <1>1, <3>1, <3>2, <3>3
  <2> QED
    BY <2>2, <2>3, <2>4 DEF Bounded
<1>10. Visited'
  BY DEF Visited
<1>11. ContextMatches'
  <2>1. ASSUME NEW k \in DOMAIN frames', k > 1
        PROVE  frames'[k].saved.mod = frames'[k - 1].mod
    <3>1. CASE k \in 1 .. n
      <4>1. frames'[k] = frames[k] /\ frames'[k - 1] = frames[k - 1]
        BY <1>1, <1>4, <2>1, <3>1
      <4> QED
        BY <1>1, <2>1, <3>1, <4>1 DEF IInv, ContextMatches
    <3>2. CASE k = n + 1
      <4>1. n \in 1 .. n /\ frames # <<>> /\ k - 1 = n /\ frames'[n] = frames[n]
        BY <1>1, <1>4, <2>1, <3>2
      <4> QED
        BY <1>5, <3>2, <4>1 DEF n, Top
    <3> QED
      BY <1>1, <1>4, <3>1, <3>2
  <2> QED
    BY <1>5, <1>6, <2>1 DEF ContextMatches
<1>12. AliasesOwn'
  <2>1. OwnAliases(ctx, at[ctx.mod] - 1)'
    BY <1>6 DEF OwnAliases
  <2>2. ASSUME NEW k \in DOMAIN frames', k > 1
        PROVE  OwnAliases(frames[k].saved, at[frames[k].saved.mod])'
    <3>1. CASE k \in 1 .. n
      <4>1. frames'[k] = frames[k] /\ k - 1 \in 1 .. n
        BY <1>1, <1>4, <2>2, <3>1
      <4>2. frames[k].saved.mod = frames[k - 1].mod
        BY <1>1, <2>2, <3>1 DEF IInv, ContextMatches
      <4>3. at'[frames[k].saved.mod] = at[frames[k].saved.mod]
        BY <1>3, <1>6, <4>1, <4>2
      <4>4. OwnAliases(frames[k].saved, at[frames[k].saved.mod])
        BY <1>1, <2>2, <3>1 DEF IInv, AliasesOwn
      <4> QED
        BY <1>2, <4>1, <4>3, <4>4 DEF OwnAliases
    <3>2. CASE k = n + 1
      <4>1. frames # <<>> /\ n \in 1 .. n
        BY <1>1, <2>2, <3>2
      <4>2. saved.mod = Top.mod /\ Top.mod = frames[n].mod /\ OwnAliases(saved, i)'
        BY <4>1 DEF n, Top
      <4>3. Top.mod \in Mods \ {m}
        BY <1>6, <4>1, <4>2
      <4>4. frames'[k].saved = saved /\ at'[saved.mod] = i
        BY <1>3, <1>5, <3>2, <4>1, <4>2, <4>3
      <4> QED
        BY <4>2, <4>4 DEF OwnAliases
    <3> QED
      BY <1>1, <1>4, <3>1, <3>2
  <2> QED
    BY <2>1, <2>2 DEF AliasesOwn
<1>13. Pass!Open(m)
  <2>1. Opened \in Seq(Mods) /\ Len(Opened) = n /\ DOMAIN Opened = 1 .. n
    BY <1>1, <1>6 DEF Opened
  <2>2. Opened' = Append(Opened, m)
    BY <1>1, <1>4, <1>5, <2>1 DEF Opened
  <2>3. (typed \ {frames[k].mod : k \in DOMAIN frames})' = typed \ {frames[k].mod : k \in DOMAIN frames}
    <3>1. {frames'[k].mod : k \in DOMAIN frames'} = {frames[k].mod : k \in DOMAIN frames} \cup {m}
      <4>1. \A k \in 1 .. n : frames'[k].mod = frames[k].mod /\ k \in 1 .. n + 1
        BY <1>1, <1>4
      <4>2. n + 1 \in 1 .. n + 1 /\ \A k \in 1 .. n + 1 : k = n + 1 \/ k \in 1 .. n
        BY <1>1
      <4> QED
        BY <1>1, <1>4, <1>5, <4>1, <4>2
    <3>2. m \notin typed
      OBVIOUS
    <3> QED
      BY <1>2, <3>1, <3>2
  <2>4. m \notin Pass!OpenedSet \cup (typed \ {frames[k].mod : k \in DOMAIN frames})
    BY <1>1, <1>6, <2>1 DEF Pass!OpenedSet, Opened
  <2> QED
    BY <2>2, <2>3, <2>4 DEF Pass!Open
<1> QED
  BY <1>7, <1>8, <1>9, <1>10, <1>11, <1>12, <1>13 DEF IInv

(* A module is closed: an import that led to it goes on in its own context *)
(* with its next statement.                                                *)
LEMMA LeaveStep ==
    ASSUME IInv, outcome = "running", Len(frames) > 0, AtEnd,
           frames' = SubSeq(frames, 1, Len(frames) - 1),
           UNCHANGED <<prog, order, pos, typed, outcome>>,
           Len(frames) = 1 => UNCHANGED <<at, ctx>>,
           Len(frames) > 1 => /\ IsContext(ctx') /\ ctx'.mod = Top.saved.mod
                              /\ ctx'.aliases = Top.saved.aliases
                              /\ at' = [at EXCEPT ![Top.saved.mod] = @ + 1]
    PROVE  IInv' /\ Pass!Close
<1> DEFINE n == Len(frames)
           t == frames[n].mod
           i == frames[n - 1].mod
<1>1. n \in Nat \ {0} /\ DOMAIN frames = 1 .. n /\ n \in 1 .. n
  BY SeqFacts DEF IInv, Typing
<1>2. /\ IsSeq(frames') /\ Len(frames') = n - 1 /\ DOMAIN frames' = 1 .. n - 1
      /\ \A k \in 1 .. n - 1 : frames'[k] = frames[k] /\ k \in 1 .. n
  <2>1. IsSeq(frames)
    BY DEF IInv, Typing
  <2>2. IsSeq(frames') /\ Len(frames') = n - 1 /\ \A k \in 1 .. n - 1 : frames'[k] = frames[k]
    BY <2>1, PopFacts
  <2> QED
    BY <1>1, <2>2, SeqFacts
<1>3. frames' = <<>> <=> n = 1
  <2>1. frames' = <<>> <=> Len(frames') = 0
    BY <1>2, SeqFacts
  <2> HIDE DEF n
  <2> QED
    BY <1>1, <1>2, <2>1
<1>4. Top.mod = t /\ t \in typed /\ t \in Mods /\ at[t] = Len(prog[t]) + 1
  <2>1. Top.mod = t /\ t \in typed /\ t \in Mods
    BY <1>1 DEF Top, IInv, Nested, Typing
  <2> QED
    BY <2>1 DEF AtEnd, IInv, Typing, Bounded
<1>5. \A k \in 1 .. n - 1 : /\ frames[k].mod \in typed /\ frames[k].mod \in Mods /\ frames[k].mod # t
                            /\ at[frames[k].mod] <= Len(prog[frames[k].mod])
  <2> SUFFICES ASSUME NEW k \in 1 .. n - 1
               PROVE  /\ frames[k].mod \in typed /\ frames[k].mod \in Mods /\ frames[k].mod # t
                      /\ at[frames[k].mod] <= Len(prog[frames[k].mod])
    OBVIOUS
  <2>1. k \in DOMAIN frames /\ n \in DOMAIN frames /\ k # n /\ k < n
    BY <1>1
  <2>2. frames[k].mod \in typed /\ frames[k].mod # t
    BY <2>1 DEF IInv, Nested
  <2> QED
    BY <2>1, <2>2 DEF IInv, Typing, Bounded
<1>6. n > 1 => /\ n - 1 \in 1 .. n - 1 /\ Top.saved = frames[n].saved /\ frames[n].saved.mod = i
               /\ i \in typed /\ i \in Mods /\ i # t /\ at[i] <= Len(prog[i])
               /\ ctx'.mod = i /\ at' = [at EXCEPT ![i] = at[i] + 1] /\ at'[i] = at[i] + 1
  <2> SUFFICES ASSUME n > 1 PROVE <1>6!2
    OBVIOUS
  <2>1. n - 1 \in 1 .. n - 1 /\ Top.saved = frames[n].saved
    BY <1>1 DEF Top
  <2>2. frames[n].saved.mod = i
    BY <1>1 DEF IInv, ContextMatches
  <2>3. i \in typed /\ i \in Mods /\ i # t /\ at[i] <= Len(prog[i])
    BY <1>5, <2>1
  <2> QED
    BY <2>1, <2>2, <2>3 DEF IInv, Typing
<1>7. at' \in [Mods -> Nat \ {0}] /\ \A x \in Mods : at'[x] = at[x] \/ (n > 1 /\ x = i)
  <2>1. at \in [Mods -> Nat \ {0}]
    BY DEF IInv, Typing
  <2>2. CASE n > 1
    <3>1. i \in Mods /\ at' = [at EXCEPT ![i] = at[i] + 1]
      BY <1>6, <2>2
    <3> QED
      BY <2>1, <2>2, <3>1
  <2>3. CASE ~(n > 1)
    BY <1>1, <2>1, <2>3
  <2> QED
    BY <2>2, <2>3
<1> HIDE DEF n, t, i
<1>8. Typing'
  <2>1. \A k \in DOMAIN frames' : frames'[k].mod \in Mods /\ IsContext(frames'[k].saved)
    BY <1>1, <1>2 DEF IInv, Typing
  <2>2. IsContext(ctx')
    BY <1>1 DEF n, IInv, Typing
  <2> QED
    BY <1>2, <1>7, <2>1, <2>2 DEF IInv, Typing
<1>9. Nested'
  BY <1>1, <1>2 DEF IInv, Nested
<1>10. Bounded'
  <2>1. \A x \in typed : at'[x] <= Len(prog[x]) + 1
    BY <1>6, <1>7 DEF IInv, Typing, Bounded
  <2>2. ASSUME NEW x \in typed, \A k \in DOMAIN frames' : frames'[k].mod # x
        PROVE  at'[x] = Len(prog[x]) + 1
    <3>1. n > 1 => x # i
      BY <1>2, <1>6, <2>2 DEF i
    <3>2. x \in Mods /\ at'[x] = at[x]
      BY <1>7, <3>1 DEF IInv, Typing
    <3>3. CASE x = t
      BY <1>4, <3>2, <3>3
    <3>4. CASE x # t
      <4>1. \A k \in 1 .. n : k = n \/ k \in 1 .. n - 1
        BY <1>1
      <4>2. \A k \in DOMAIN frames : frames[k].mod # x
        BY <1>1, <1>2, <2>2, <3>4, <4>1 DEF t
      <4> QED
        BY <3>2, <4>2 DEF IInv, Bounded
    <3> QED
      BY <3>3, <3>4
  <2>3. ASSUME NEW k \in DOMAIN frames', k < Len(frames')
        PROVE  at'[frames'[k].mod] <= Len(prog[frames'[k].mod])
    <3>1. k \in 1 .. n - 1 /\ frames'[k] = frames[k] /\ k # n - 1 /\ n > 1
      BY <1>1, <1>2, <2>3
    <3>2. frames[k].mod # i
      BY <1>1, <1>6, <3>1 DEF i, IInv, Nested
    <3> QED
      BY <1>5, <1>7, <3>1, <3>2
  <2> QED
    BY <2>1, <2>2, <2>3 DEF Bounded
<1>11. Visited'
  BY DEF IInv, Visited
<1>12. ContextMatches'
  <2>1. frames' # <<>> => ctx'.mod = Top'.mod
    <3> SUFFICES ASSUME frames' # <<>> PROVE ctx'.mod = Top'.mod
      OBVIOUS
    <3>1. n > 1
      BY <1>1, <1>3
    <3>2. Top' = frames'[n - 1] /\ frames'[n - 1] = frames[n - 1]
      BY <1>2, <1>6, <3>1 DEF Top
    <3> QED
      BY <1>6, <3>1, <3>2 DEF i
  <2>2. \A k \in DOMAIN frames' : k > 1 => k - 1 \in DOMAIN frames' /\ k \in DOMAIN frames
    BY <1>1, <1>2
  <2>3. \A k \in DOMAIN frames' : k > 1 => frames'[k].saved.mod = frames'[k - 1].mod
    BY <1>2, <2>2 DEF IInv, ContextMatches
  <2> QED
    BY <2>1, <2>3 DEF ContextMatches
<1>13. AliasesOwn'
  <2>1. ASSUME n > 1 PROVE OwnAliases(ctx, at[ctx.mod] - 1)'
    <3>1. OwnAliases(frames[n].saved, at[i])
      BY <1>1, <1>6, <2>1 DEF IInv, AliasesOwn
    <3>2. ctx'.aliases = frames[n].saved.aliases /\ ctx'.mod = frames[n].saved.mod
      BY <1>6, <2>1 DEF n
    <3>3. at'[ctx'.mod] - 1 = at[i]
      BY <1>6, <2>1 DEF IInv, Typing
    <3> QED
      BY <3>1, <3>2, <3>3 DEF OwnAliases
  <2>2. ASSUME NEW k \in DOMAIN frames', k > 1
        PROVE  OwnAliases(frames[k].saved, at[frames[k].saved.mod])'
    <3>1. k \in 1 .. n /\ frames'[k] = frames[k] /\ k - 1 \in 1 .. n - 1 /\ n > 1 /\ k - 1 # n - 1
      BY <1>1, <1>2, <2>2
    <3>2. OwnAliases(frames[k].saved, at[frames[k].saved.mod]) /\ frames[k].saved.mod = frames[k - 1].mod
      BY <1>1, <2>2, <3>1 DEF IInv, AliasesOwn, ContextMatches
    <3>3. frames[k - 1].mod \in Mods /\ frames[k - 1].mod # i
      BY <1>1, <1>2, <1>5, <1>6, <3>1 DEF i, IInv, Nested
    <3>4. at'[frames[k].saved.mod] = at[frames[k].saved.mod]
      BY <1>7, <3>2, <3>3
    <3> QED
      <4> DEFINE c == frames[k].saved
                 j == at[c.mod]
      <4>1. frames'[k].saved = c /\ at'[frames'[k].saved.mod] = j
        BY <3>1, <3>4
      <4>2. OwnAliases(c, j)
        BY <3>2
      <4> HIDE DEF c, j
      <4> QED
        BY <4>1, <4>2 DEF OwnAliases
  <2> QED
    BY <1>1, <1>3, <2>1, <2>2 DEF AliasesOwn
<1>14. Pass!Close
  <2>1. Opened \in Seq(Mods) /\ Len(Opened) = n /\ DOMAIN Opened = 1 .. n /\ Opened[n] = t
    <3>1. \A k \in 1 .. n : frames[k].mod \in Mods
      BY <1>1 DEF IInv, Typing
    <3> QED
      BY <1>1, <3>1 DEF Opened, t
  <2>2. Opened' = SubSeq(Opened, 1, n - 1) /\ Opened # <<>>
    <3>1. Opened' = [k \in 1 .. n - 1 |-> frames[k].mod]
      BY <1>1, <1>2 DEF Opened
    <3>2. SubSeq(Opened, 1, n - 1) = [k \in 1 .. n - 1 |-> Opened[k]]
      BY <1>1, <2>1
    <3> QED
      BY <1>1, <1>2, <2>1, <3>1, <3>2 DEF Opened
  <2>3. {frames[k].mod : k \in DOMAIN frames} = {frames'[k].mod : k \in DOMAIN frames'} \cup {t}
    <3>1. n \in 1 .. n /\ frames[n].mod = t /\ \A k \in 1 .. n : k = n \/ k \in 1 .. n - 1
      BY <1>1 DEF t
    <3>2. \A k \in 1 .. n - 1 : frames'[k].mod = frames[k].mod /\ k \in 1 .. n
      BY <1>2
    <3>3. ASSUME NEW k \in DOMAIN frames
          PROVE  frames[k].mod \in {frames'[l].mod : l \in DOMAIN frames'} \cup {t}
      BY <1>1, <1>2, <3>1, <3>2
    <3>4. t \in {frames[k].mod : k \in DOMAIN frames}
      BY <1>1, <3>1
    <3>5. ASSUME NEW l \in DOMAIN frames'
          PROVE  frames'[l].mod \in {frames[k].mod : k \in DOMAIN frames}
      BY <1>1, <1>2, <3>2
    <3> DEFINE before == {frames[k].mod : k \in DOMAIN frames}
               after == {frames'[k].mod : k \in DOMAIN frames'}
    <3>6. before \subseteq after \cup {t} /\ after \subseteq before /\ t \in before
      BY <3>3, <3>4, <3>5
    <3> HIDE DEF before, after
    <3>7. before = after \cup {t}
      BY <3>6
    <3> QED
      BY <3>7 DEF before, after
  <2>4. t \in typed /\ t \notin {frames'[k].mod : k \in DOMAIN frames'}
    BY <1>2, <1>4, <1>5
  <2>5. typed \ {frames'[k].mod : k \in DOMAIN frames'}
            = (typed \ {frames[k].mod : k \in DOMAIN frames}) \cup {t}
    BY <2>3, <2>4
  <2> QED
    BY <2>1, <2>2, <2>5 DEF Pass!Close
<1> QED
  BY <1>8, <1>9, <1>10, <1>11, <1>12, <1>13, <1>14 DEF IInv

(* The steps that do something undefined and nothing else. *)
GoesWrong == ImportBadFree \/ FieldOverrun \/ RequestOverread \/ CheckShadowedStruct

LEMMA WrongQuiet ==
    ASSUME GoesWrong
    PROVE  /\ outcome = "running" /\ outcome' \in Undefined /\ outcome' # "done"
           /\ UNCHANGED <<prog, order, pos, frames, at, typed, ctx, structs, requests, errors>>
BY DEF GoesWrong, ImportBadFree, FieldOverrun, RequestOverread, CheckShadowedStruct, Filling, At, Undefined

(* Nothing happens to the stack, the contexts or the statements. *)
LEMMA QuietStep ==
    ASSUME IInv, UNCHANGED <<prog, order, frames, at, typed, ctx>>,
           pos' \in 0 .. Len(order), \A k \in 1 .. pos' : order[k] \in typed,
           outcome' \in {"running", "done"} \cup Undefined,
           outcome' = "done" => frames = <<>> /\ pos' = Len(order)
    PROVE  IInv'
<1>1. Typing'
  BY DEF IInv, Typing
<1>2. Nested' /\ Visited' /\ Bounded'
  BY DEF IInv, Nested, Visited, Bounded
<1>3. ContextMatches' /\ AliasesOwn'
  BY DEF IInv, ContextMatches, AliasesOwn, OwnAliases, Top
<1> QED
  BY <1>1, <1>2, <1>3 DEF IInv

LEMMA PassUnchanged ==
    ASSUME UNCHANGED <<frames, typed>>
    PROVE  UNCHANGED Pass!vars
BY DEF Pass!vars, Opened

-----------------------------------------------------------------------------
LEMMA InitInv == Init => IInv /\ Pass!Init
<1> SUFFICES ASSUME Init PROVE IInv /\ Pass!Init
  OBVIOUS
<1>1. IsSeq(frames) /\ Len(frames) = 0 /\ DOMAIN frames = {}
  BY DEF Init, IsSeq
<1>2. prog \in [Mods -> Seq(Stmt)]
  BY ProgramsAssumption DEF Init
<1>3. Len(order) \in Nat
  BY OrderFacts DEF Init
<1>4. Typing
  BY <1>1, <1>2, <1>3, FreshContextFacts DEF Init, Typing
<1>5. Nested /\ Bounded /\ Visited
  BY <1>1 DEF Init, Nested, Bounded, Visited
<1>6. ContextMatches /\ AliasesOwn
  BY <1>1 DEF Init, ContextMatches, AliasesOwn
<1>7. Pass!Init
  BY <1>1 DEF Init, Opened, Pass!Init
<1> QED
  BY <1>4, <1>5, <1>6, <1>7 DEF IInv

LEMMA StepInv == IInv /\ [Next]_vars => IInv' /\ [Pass!Next]_Pass!vars
<1> SUFFICES ASSUME IInv, [Next]_vars PROVE IInv' /\ [Pass!Next]_Pass!vars
  OBVIOUS
<1>0. /\ pos \in 0 .. Len(order) /\ Len(order) \in Nat /\ order \in Seq(Mods)
      /\ \A k \in 1 .. pos : order[k] \in typed
      /\ outcome \in {"running", "done"} \cup Undefined
      /\ outcome = "done" => frames = <<>> /\ pos = Len(order)
      /\ IsContext(ctx)
  <2>1. Len(order) \in Nat /\ order \in Seq(Mods)
    BY OrderFacts DEF IInv, Typing
  <2>2. outcome = "done" => frames = <<>> /\ pos = Len(order)
    BY DEF IInv, Visited
  <2> QED
    BY <2>1, <2>2 DEF IInv, Typing, Visited
<1>1. CASE EnterModule
  <2> DEFINE m == order[pos + 1]
  <2>1. pos + 1 \in 1 .. Len(order) /\ m \in Mods \ typed
    BY <1>0, <1>1 DEF EnterModule
  <2>2. Enter(m, typecheck_empty_ctx) /\ IsContext(typecheck_empty_ctx)
    BY <1>1, <2>1, FreshContextFacts DEF EnterModule
  <2>3. outcome = "running" /\ frames = <<>> /\ pos' = pos + 1 /\ UNCHANGED <<prog, order, outcome>>
    BY <1>1 DEF EnterModule, Visiting
  <2>4. \A k \in 1 .. pos' : order[k] \in typed'
    <3>1. typed' = typed \cup {m}
      BY <2>2 DEF Enter
    <3>2. \A k \in 1 .. pos + 1 : k = pos + 1 \/ k \in 1 .. pos
      BY <1>0
    <3> QED
      BY <1>0, <2>3, <3>1, <3>2
  <2>5. pos' \in 0 .. Len(order)
    BY <1>0, <2>1, <2>3
  <2> HIDE DEF m
  <2>6. IInv' /\ Pass!Open(m)
    BY <2>1, <2>2, <2>3, <2>4, <2>5, EnterStep
  <2> QED
    BY <2>1, <2>6 DEF Pass!Next
<1>2. CASE SkipModule
  <2>1. \A k \in 1 .. pos + 1 : k = pos + 1 \/ k \in 1 .. pos
    BY <1>0
  <2>2. pos' \in 0 .. Len(order) /\ \A k \in 1 .. pos' : order[k] \in typed
    BY <1>0, <1>2, <2>1 DEF SkipModule
  <2> QED
    BY <1>0, <1>2, <2>2, QuietStep, PassUnchanged DEF SkipModule, Visiting
<1>3. CASE Finish
  BY <1>0, <1>3, QuietStep, PassUnchanged DEF Finish, Visiting
<1>4. CASE LeaveModule
  <2>1. IInv' /\ Pass!Close
    BY <1>4, LeaveStep DEF LeaveModule
  <2> QED
    BY <2>1 DEF Pass!Next
<1>5. CASE LeaveImport
  <2> DEFINE n == Len(frames)
             path == prog[Top.saved.mod][at[Top.saved.mod]].path
             bound == typecheck_bind(Top.saved, path, Mod(Top.mod))
  <2>1. n \in Nat /\ n > 1 /\ DOMAIN frames = 1 .. n /\ n \in DOMAIN frames
    BY <1>5, SeqFacts DEF LeaveImport, IInv, Typing
  <2>2. IsContext(Top.saved) /\ Top.mod \in Mods
    BY <2>1 DEF IInv, Typing, Top
  <2>3. IsContext(bound) /\ bound.mod = Top.saved.mod /\ bound.aliases = Top.saved.aliases
    <3> HIDE DEF path
    <3> QED
      BY <2>2 DEF IsContext, typecheck_bind
  <2>4. ctx' = bound /\ at' = [at EXCEPT ![Top.saved.mod] = @ + 1]
    BY <1>5 DEF LeaveImport, restored
  <2> HIDE DEF bound
  <2>5. IInv' /\ Pass!Close
    BY <1>5, <2>1, <2>3, <2>4, LeaveStep DEF LeaveImport
  <2> QED
    BY <2>5 DEF Pass!Next
<1>6. CASE ImportChecked
  <2> DEFINE p == Current.path
             m == KeyMod[p]
             added == typecheck_add_import_alias(ctx, p, m)
             bound == typecheck_bind(added, p, Mod(m))
  <2>1. At("import") /\ ctx' = bound /\ Found(p) /\ m \in typed /\ Next_stmt
    BY <1>6 DEF ImportChecked
  <2>2. p \in Names /\ m \in Mods /\ Current.op = "import"
    BY <2>1, ImportFacts, CurrentFacts
  <2>3. IsContext(added) /\ added.mod = ctx.mod /\ added.aliases = [ctx.aliases EXCEPT ![p] = m]
    <3>1. IsContext(ctx)
      BY <1>0
    <3> QED
      BY <2>2, <3>1, ContextFacts
  <2>4. IsContext(bound) /\ bound.mod = ctx.mod /\ bound.aliases = added.aliases
    <3> HIDE DEF added
    <3> QED
      BY <2>2, <2>3, ContextFacts
  <2>5. \A q \in Names : \/ ctx'.aliases[q] = ctx.aliases[q]
                         \/ q = p /\ ctx'.aliases[q] = m
    BY <1>0, <2>1, <2>2, <2>3, <2>4 DEF IsContext
  <2> HIDE DEF bound, added
  <2>6. IInv'
    BY <1>6, <2>1, <2>2, <2>4, <2>5, StatementStep DEF ImportChecked, At
  <2> QED
    BY <1>6, <2>6, PassUnchanged DEF ImportChecked
<1>7. CASE ImportUnchecked
  <2> DEFINE p == Current.path
             m == KeyMod[p]
  <2>1. At("import") /\ Found(p) /\ m \notin typed /\ Enter(m, typecheck_add_import_alias(ctx, p, m))
        /\ UNCHANGED <<prog, order, pos, outcome>>
    BY <1>7 DEF ImportUnchecked
  <2>2. p \in Names /\ m \in Mods \ typed /\ Current.op = "import"
    BY <2>1, ImportFacts, CurrentFacts
  <2>3. PICK saved, i : saved = typecheck_add_import_alias(ctx, p, m) /\ i = at[Top.mod]
    OBVIOUS
  <2>4. IsContext(saved) /\ saved.mod = Top.mod /\ saved.aliases = [ctx.aliases EXCEPT ![p] = m]
    <3>1. IsContext(ctx) /\ ctx.mod = Top.mod
      BY <1>0, <2>1, CurrentFacts
    <3> QED
      BY <2>2, <2>3, <3>1, ContextFacts
  <2>5. typed' = typed \cup {m}
    BY <2>1 DEF Enter
  <2>6. i \in 1 .. Len(prog[Top.mod]) /\ i - 1 \in Nat /\ prog[Top.mod][i] = Current
        /\ ctx.mod = Top.mod /\ OwnAliases(ctx, i - 1)
    <3>1. i \in 1 .. Len(prog[Top.mod]) /\ prog[Top.mod][i] = Current /\ ctx.mod = Top.mod
      <4>1. at[Top.mod] \in 1 .. Len(prog[Top.mod]) /\ ctx.mod = Top.mod
        <5>1. At("import")
          BY <2>1
        <5> QED
          BY <5>1, CurrentFacts
      <4>2. i = at[Top.mod]
        BY <2>3
      <4> QED
        BY <4>1, <4>2 DEF Current
    <3>2. OwnAliases(ctx, i - 1)
      BY <2>1, <2>3, <3>1 DEF IInv, AliasesOwn, At
    <3> QED
      BY <3>1, <3>2, <2>1, CurrentFacts DEF IInv, Typing
  <2> HIDE DEF p
  <2>7. OwnAliases(saved, i)'
    <3> SUFFICES ASSUME NEW q \in Names, saved.aliases[q] # NULL
                 PROVE  /\ saved.aliases[q] = KeyMod[q] /\ KeyMod[q] \in typed'
                        /\ \E s \in 1 .. i : prog[Top.mod][s].op = "import" /\ prog[Top.mod][s].path = q
      BY <2>1, <2>4 DEF OwnAliases
    <3>1. CASE q = p
      BY <1>0, <2>2, <2>4, <2>5, <2>6, <3>1 DEF p, IsContext
    <3>2. CASE q # p
      <4>1. saved.aliases[q] = ctx.aliases[q]
        BY <1>0, <2>2, <2>4, <3>2 DEF IsContext
      <4>2. KeyMod[q] \in typed /\ saved.aliases[q] = KeyMod[q]
        BY <2>6, <4>1 DEF OwnAliases
      <4>3. PICK s \in 1 .. i - 1 : prog[Top.mod][s].op = "import" /\ prog[Top.mod][s].path = q
        BY <2>6, <4>1 DEF OwnAliases
      <4>4. s \in 1 .. i
        BY <2>6, <4>3
      <4> QED
        BY <2>5, <4>2, <4>3, <4>4
    <3> QED
      BY <3>1, <3>2
  <2>8. pos' \in 0 .. Len(order) /\ \A k \in 1 .. pos' : order[k] \in typed'
    BY <1>0, <2>1, <2>5
  <2> HIDE DEF m
  <2>9. IInv' /\ Pass!Open(m)
    <3>1. Enter(m, saved) /\ outcome = "running" /\ i <= Len(prog[Top.mod]) /\ at[Top.mod] = i
      BY <2>1, <2>3, <2>6, CurrentFacts DEF At
    <3> QED
      BY <2>1, <2>2, <2>4, <2>7, <2>8, <3>1, EnterStep
  <2> QED
    BY <2>2, <2>9 DEF Pass!Next
<1>8. CASE ImportNotFound
  <2>1. IInv'
    BY <1>0, <1>8, StatementStep DEF ImportNotFound, At
  <2> QED
    BY <1>8, <2>1, PassUnchanged DEF ImportNotFound
<1>9. CASE GoesWrong
  BY <1>0, <1>9, WrongQuiet, QuietStep, PassUnchanged
<1>10. CASE CheckStruct
  <2>1. outcome' \in {"running"} \cup Undefined /\ At("struct") /\ Next_stmt
        /\ UNCHANGED <<prog, order, pos, frames, typed, ctx>>
    BY <1>10 DEF CheckStruct, FillStruct, At, Undefined
  <2> QED
    BY <1>0, <2>1, StatementStep, PassUnchanged
<1>12. CASE CheckLet
  <2>1. IsContext(ctx') /\ ctx'.mod = ctx.mod /\ ctx'.aliases = ctx.aliases
    <3>1. \A t : LET c == typecheck_bind(ctx, Current.name, t)
                 IN  IsContext(c) /\ c.mod = ctx.mod /\ c.aliases = ctx.aliases
      BY <1>0 DEF IsContext, typecheck_bind
    <3> QED
      BY <1>0, <1>12, <3>1 DEF CheckLet
  <2>2. At("let") /\ Next_stmt /\ UNCHANGED <<prog, order, pos, frames, typed, outcome>>
    BY <1>12 DEF CheckLet
  <2> QED
    BY <1>0, <2>1, <2>2, StatementStep, PassUnchanged DEF At
<1>13. CASE CheckExpr
  <2>1. At("expr") /\ Next_stmt /\ UNCHANGED <<prog, order, pos, frames, typed, ctx, outcome>>
    BY <1>13 DEF CheckExpr
  <2> QED
    BY <1>0, <2>1, StatementStep, PassUnchanged DEF At
<1>14. CASE CheckOther
  <2>1. At("other") /\ Next_stmt /\ UNCHANGED <<prog, order, pos, frames, typed, ctx, outcome>>
    BY <1>14 DEF CheckOther
  <2> QED
    BY <1>0, <2>1, StatementStep, PassUnchanged DEF At
<1>15. CASE Stopped \/ UNCHANGED vars
  BY <1>0, <1>15, QuietStep, PassUnchanged DEF Stopped, vars
<1> QED
  BY <1>1, <1>2, <1>3, <1>4, <1>5, <1>6, <1>7, <1>8, <1>9, <1>10, <1>12, <1>13, <1>14, <1>15
     DEF Next, GoesWrong

THEOREM Invariant == Spec => []IInv
<1>1. Init => IInv
  BY InitInv
<1>2. IInv /\ [Next]_vars => IInv'
  BY StepInv
<1> QED
  BY <1>1, <1>2, PTL DEF Spec

(* A module is checked in its own context, and an import keeps that of its *)
(* own module (typecheck.c:470-478).                                       *)
THEOREM AlwaysOwnContext == Spec => []ContextMatches
<1>1. IInv => ContextMatches
  BY DEF IInv
<1> QED
  BY <1>1, Invariant, PTL

(* An alias leads to a module that has a type, through a path its own      *)
(* module imported before (mod.c:18, typecheck.c:238-267).                 *)
THEOREM AlwaysOwnAliases == Spec => []AliasesOwn
<1>1. IInv => AliasesOwn
  BY DEF IInv
<1> QED
  BY <1>1, Invariant, PTL

(* A check that ends has checked every module to its last statement        *)
(* (typecheck.c:269-304).                                                  *)
THEOREM AlwaysComplete == Spec => []Complete
<1>1. IInv => Complete
  <2> SUFFICES ASSUME IInv, outcome = "done"
               PROVE  typed = Mods /\ \A m \in Mods : at[m] = Len(prog[m]) + 1
    BY DEF Complete
  <2>1. \A k \in 1 .. Len(order) : order[k] \in typed
    BY DEF IInv, Visited
  <2>2. typed = Mods
    BY <2>1, OrderFacts DEF IInv, Typing
  <2>3. DOMAIN frames = {}
    BY DEF IInv, Visited
  <2> QED
    BY <2>2, <2>3 DEF IInv, Bounded
<1> QED
  BY <1>1, Invariant, PTL

(* The modules are opened and closed as ModulePass says: each once, and    *)
(* those opened by an import before its importer goes on                   *)
(* (typecheck.c:281-304, 470-478).                                         *)
THEOREM AlwaysImplementsPass == Spec => ImplementsPass
<1>1. Init => Pass!Init
  BY InitInv
<1>2. IInv /\ [Next]_vars => [Pass!Next]_Pass!vars
  BY StepInv
<1> QED
  BY <1>1, <1>2, Invariant, PTL DEF Spec, ImplementsPass, Pass!Spec

-----------------------------------------------------------------------------
(* The least number principle, from the finite sets below each number, and *)
(* induction from it.                                                      *)
LEMMA Least ==
    ASSUME NEW S \in SUBSET Nat, S # {}
    PROVE  \E n \in S : \A m \in S : n <= m
<1> DEFINE T == {0 .. n : n \in S}
<1>1. T \subseteq FiniteSubsetsOf(Nat)
  <2>1. \A n \in S : IsFiniteSet(0 .. n)
    BY FS_Interval
  <2> QED
    BY <2>1 DEF FiniteSubsetsOf
<1>2. PICK X \in T : \A Y \in T : ~ (<<Y, X>> \in StrictSubsetOrdering(Nat))
  <2>1. T # {}
    OBVIOUS
  <2> HIDE DEF T
  <2> QED
    BY <1>1, <2>1, WFMin, FS_StrictSubsetOrderingWellFounded, Zenon
<1>3. PICK n \in S : X = 0 .. n
  BY <1>2
<1>4. ASSUME NEW m \in S, m < n PROVE FALSE
  <2>1. 0 .. m \in T /\ 0 .. m \subseteq 0 .. n /\ 0 .. m # 0 .. n
    <3>1. n \in 0 .. n /\ n \notin 0 .. m
      BY <1>4
    <3> QED
      BY <3>1, <1>4
  <2>2. 0 .. n \subseteq Nat /\ 0 .. m \subseteq Nat
    OBVIOUS
  <2>3. <<0 .. m, 0 .. n>> \in StrictSubsetOrdering(Nat)
    BY <2>1, <2>2, SMT DEF StrictSubsetOrdering
  <2>4. ~ (<<0 .. m, X>> \in StrictSubsetOrdering(Nat))
    BY <1>2, <2>1
  <2> QED
    BY <1>3, <2>3, <2>4, Zenon
<1> QED
  BY <1>3, <1>4

LEMMA Climb ==
    ASSUME NEW N \in Nat, NEW S \in SUBSET (0 .. N), 0 \in S,
           \A n \in S : n < N => n + 1 \in S
    PROVE  S = 0 .. N
<1> SUFFICES ASSUME (0 .. N) \ S # {} PROVE FALSE
  OBVIOUS
<1>1. PICK n \in (0 .. N) \ S : \A m \in (0 .. N) \ S : n <= m
  <2>1. (0 .. N) \ S \in SUBSET Nat
    OBVIOUS
  <2> QED
    BY <2>1, Least
<1>2. n # 0 /\ n - 1 \in 0 .. N /\ n - 1 \notin (0 .. N) \ S
  BY <1>1
<1>3. n - 1 + 1 \in S
  BY <1>1, <1>2
<1> QED
  BY <1>1, <1>3

(* A finite number of integers has a greatest one. *)
LEMMA Greatest ==
    ASSUME NEW N \in Nat, NEW g, \A i \in 1 .. N : g[i] \in Int
    PROVE  LET S == {0} \cup {g[i] : i \in 1 .. N}
           IN  Max(S) \in S /\ \A y \in S : y <= Max(S)
<1> DEFINE U(n) == {0} \cup {g[i] : i \in 1 .. n}
           Has(n) == \E x \in U(n) : \A y \in U(n) : x >= y
           G == {n \in 0 .. N : Has(n)}
<1>1. 0 \in G
  BY DEF Has
<1>2. ASSUME NEW n \in G, n < N PROVE n + 1 \in G
  <2>1. PICK x \in U(n) : \A y \in U(n) : x >= y
    BY <1>2
  <2>2. n + 1 \in 1 .. N /\ g[n + 1] \in Int /\ x \in Int /\ n \in 0 .. N
    BY <1>2, <2>1
  <2>3. U(n + 1) = U(n) \cup {g[n + 1]}
    <3>1. 1 .. n + 1 = (1 .. n) \cup {n + 1}
      BY <2>2
    <3> QED
      BY <3>1
  <2> HIDE DEF U
  <2>4. CASE x >= g[n + 1]
    BY <2>1, <2>2, <2>3, <2>4
  <2>5. CASE g[n + 1] >= x
    <3>1. \A y \in U(n) : y \in Int
      BY <2>2 DEF U
    <3> QED
      BY <2>1, <2>2, <2>3, <2>5, <3>1
  <2> QED
    BY <2>2, <2>4, <2>5
<1> HIDE DEF Has
<1>3. G = 0 .. N
  BY <1>1, <1>2, Climb
<1>4. Has(N)
  <2>1. N \in 0 .. N
    OBVIOUS
  <2> QED
    BY <1>3, <2>1
<1> DEFINE S == U(N)
<1>5. \E x \in S : \A y \in S : x >= y
  BY <1>4 DEF Has
<1> HIDE DEF S
<1>6. Max(S) \in S /\ \A y \in S : Max(S) >= y
  BY <1>5 DEF Max
<1>7. S \subseteq Int
  BY DEF S
<1>8. Max(S) \in S /\ \A y \in S : y <= Max(S)
  BY <1>6, <1>7
<1> QED
  BY <1>8 DEF S

LEMMA GreatestOf ==
    ASSUME NEW N \in Nat, NEW S \in SUBSET (1 .. N), S # {}
    PROVE  Max(S) \in S
<1> DEFINE T == {N - s : s \in S}
<1>1. T \in SUBSET Nat /\ T # {}
  <2>1. \A s \in S : N - s \in Nat
    OBVIOUS
  <2> QED
    BY <2>1
<1>2. PICK n \in T : \A m \in T : n <= m
  <2> HIDE DEF T
  <2> QED
    BY <1>1, Least
<1>3. PICK x \in S : n = N - x
  BY <1>2
<1>4. \A y \in S : x >= y
  <2> SUFFICES ASSUME NEW y \in S PROVE x >= y
    OBVIOUS
  <2>1. N - y \in T
    OBVIOUS
  <2>2. N - x <= N - y
    BY <1>2, <1>3, <2>1
  <2> QED
    BY <2>2
<1> QED
  BY <1>4 DEF Max

(* The widths of fields add up, whatever the number of fields: the sum is  *)
(* the one that goes from field to field.                                  *)
LEMMA TotalIs ==
    ASSUME NEW n \in Nat, NEW ws, DOMAIN ws = 1 .. n, Len(ws) = n, \A i \in 1 .. n : ws[i] \in Int
    PROVE  /\ Total(ws) \in Int
           /\ (\A i \in 1 .. n : ws[i] >= 0) => Total(ws) >= 0
<1> DEFINE Sums(g, k) == /\ g \in [0 .. k -> Int] /\ g[0] = 0
                         /\ \A i \in 1 .. k : g[i] = g[i - 1] + ws[i]
           G == {k \in 0 .. n : \E g : Sums(g, k)}
<1>1. 0 \in G
  <2>1. Sums([i \in 0 .. 0 |-> 0], 0)
    OBVIOUS
  <2> HIDE DEF Sums
  <2> QED
    BY <2>1
<1>2. ASSUME NEW k \in G, k < n PROVE k + 1 \in G
  <2>1. PICK g : Sums(g, k)
    OBVIOUS
  <2> DEFINE h == [i \in 0 .. k + 1 |-> IF i = k + 1 THEN g[k] + ws[k + 1] ELSE g[i]]
  <2>2. k \in 0 .. n /\ k + 1 \in 0 .. n /\ k + 1 \in 1 .. n
    BY <1>2
  <2>3. h \in [0 .. k + 1 -> Int]
    BY <2>1, <2>2
  <2>4. h[0] = 0
    BY <2>1, <2>2
  <2>5. \A i \in 1 .. k + 1 : h[i] = h[i - 1] + ws[i]
    <3> SUFFICES ASSUME NEW i \in 1 .. k + 1 PROVE h[i] = h[i - 1] + ws[i]
      OBVIOUS
    <3>1. CASE i = k + 1
      BY <2>1, <2>2, <3>1
    <3>2. CASE i # k + 1
      BY <2>1, <2>2, <3>2
    <3> QED
      BY <3>1, <3>2
  <2>6. Sums(h, k + 1)
    BY <2>3, <2>4, <2>5
  <2> HIDE DEF Sums
  <2> QED
    BY <2>2, <2>6
<1> HIDE DEF Sums
<1>3. G = 0 .. n
  BY <1>1, <1>2, Climb
<1>4. PICK g : Sums(g, n)
  <2>1. n \in 0 .. n
    OBVIOUS
  <2> QED
    BY <1>3, <2>1
<1> DEFINE Step(f) == [i \in 0 .. n |-> IF i = 0 THEN 0 ELSE f[i - 1] + ws[i]]
<1>5. g = Step(g)
  BY <1>4 DEF Sums
<1> DEFINE sum == CHOOSE f : f = Step(f)
<1>6. sum = Step(sum)
  <2> HIDE DEF Step
  <2> QED
    BY <1>5
<1>7. Total(ws) = sum[n]
  BY DEF Total
<1> HIDE DEF sum
<1>8. sum[0] = 0 /\ \A i \in 1 .. n : sum[i] = sum[i - 1] + ws[i]
  BY <1>6
<1>9. {k \in 0 .. n : sum[k] \in Int} = 0 .. n
  <2> DEFINE I == {k \in 0 .. n : sum[k] \in Int}
  <2>1. 0 \in I
    BY <1>8
  <2>2. ASSUME NEW k \in I, k < n PROVE k + 1 \in I
    <3>1. sum[k + 1] = sum[k] + ws[k + 1]
      BY <1>8, <2>2
    <3> QED
      BY <2>2, <3>1
  <2> HIDE DEF I
  <2>3. I \in SUBSET (0 .. n)
    BY DEF I
  <2>4. I = 0 .. n
    BY <2>1, <2>2, <2>3, Climb
  <2> QED
    BY <2>4 DEF I
<1>10. ASSUME \A i \in 1 .. n : ws[i] >= 0
       PROVE  {k \in 0 .. n : sum[k] >= 0} = 0 .. n
  <2> DEFINE I == {k \in 0 .. n : sum[k] >= 0}
  <2>1. 0 \in I
    BY <1>8
  <2>2. ASSUME NEW k \in I, k < n PROVE k + 1 \in I
    <3>1. k + 1 \in 1 .. n /\ k + 1 - 1 = k /\ k \in 0 .. n
      BY <2>2
    <3>2. sum[k] \in Int
      BY <1>9, <3>1
    <3>3. ws[k + 1] >= 0
      BY <1>10, <3>1
    <3>4. ws[k + 1] \in Int
      BY <3>1
    <3>5. sum[k + 1] = sum[k] + ws[k + 1]
      BY <1>8, <3>1
    <3> QED
      BY <2>2, <3>1, <3>2, <3>3, <3>4, <3>5
  <2> HIDE DEF I
  <2>3. I \in SUBSET (0 .. n)
    BY DEF I
  <2>4. I = 0 .. n
    BY <2>1, <2>2, <2>3, Climb
  <2> QED
    BY <2>4 DEF I
<1>11. n \in 0 .. n
  OBVIOUS
<1> QED
  BY <1>7, <1>9, <1>10, <1>11

(* The types that a name can be bound to in module m. *)
Local(m, t) == \/ t \in {NULL, I32, String}
               \/ \E i \in Mods : t = Mod(i)
               \/ m \in Mods /\ \E s \in StructStmts(m) : t = Struct(m, s)

(* A context binds names of its own module only, and only to such types. *)
LocalsOwn(c) == /\ c.locals = [n \in Names |-> c.locals[n]]
                /\ \A n \in Names : Local(c.mod, c.locals[n])
                /\ \A n \in Names : c.locals[n] # NULL => n \in BoundNames(c.mod)

(* The first n statements have given it their aliases. *)
AliasesMade(c, n) == \A s \in 1 .. n :
    prog[c.mod][s].op = "import" /\ Found(prog[c.mod][s].path)
        => c.aliases[prog[c.mod][s].path] = KeyMod[prog[c.mod][s].path]

Scoped ==
    /\ LocalsOwn(ctx)
    /\ \A k \in DOMAIN frames : LocalsOwn(frames[k].saved)
    /\ frames # <<>> => AliasesMade(ctx, at[ctx.mod] - 1)
    /\ \A k \in DOMAIN frames : k > 1 => AliasesMade(frames[k].saved, at[frames[k].saved.mod])
    /\ \A k \in DOMAIN frames :
           k < Len(frames) => prog[frames[k].mod][at[frames[k].mod]].op = "import"

-----------------------------------------------------------------------------
LEMMA StructStmtsFacts ==
    ASSUME Typing, NEW m \in Mods
    PROVE  /\ Len(prog[m]) \in Nat /\ StructStmts(m) \in SUBSET (1 .. Len(prog[m]))
           /\ \A s \in StructStmts(m) : /\ prog[m][s] \in Stmt /\ prog[m][s].op = "struct"
                                        /\ prog[m][s].name \in Names
                                        /\ prog[m][s].fields \in Seq(Field)
                                        /\ Struct(m, s) \in Type /\ Struct(m, s) # NULL
<1>1. prog[m] \in Seq(Stmt)
  BY DEF Typing
<1>2. Len(prog[m]) \in Nat /\ StructStmts(m) \in SUBSET (1 .. Len(prog[m]))
  BY <1>1 DEF StructStmts
<1> SUFFICES ASSUME NEW s \in StructStmts(m)
             PROVE  /\ prog[m][s] \in Stmt /\ prog[m][s].op = "struct"
                    /\ prog[m][s].name \in Names
                    /\ prog[m][s].fields \in Seq(Field)
                    /\ Struct(m, s) \in Type /\ Struct(m, s) # NULL
  BY <1>2
<1>3. prog[m][s] \in Stmt /\ prog[m][s].op = "struct"
  BY <1>1 DEF StructStmts
<1>4. prog[m][s].name \in Names /\ prog[m][s].fields \in Seq(Field)
  BY <1>3 DEF Stmt
<1>5. Struct(m, s) \in Type
  <2>1. s \in Nat \ {0}
    BY <1>2
  <2> QED
    BY <2>1 DEF Type, Struct
<1>6. Struct(m, s) # NULL
  BY <1>5, NullTypeAssumption
<1> QED
  BY <1>3, <1>4, <1>5, <1>6

(* What a module's scope holds: a struct of that name, if there is one. *)
LEMMA ScopeFacts ==
    ASSUME Typing, NEW m \in Mods, NEW n
    PROVE  \/ mod_s_lookup(m, n) = NULL /\ \A s \in StructStmts(m) : prog[m][s].name # n
           \/ \E s \in StructStmts(m) : /\ prog[m][s].name = n
                                        /\ mod_s_lookup(m, n) = Struct(m, s)
                                        /\ mod_s_lookup(m, n) # NULL
<1> DEFINE ss == {s \in StructStmts(m) : prog[m][s].name = n}
<1>1. CASE ss = {}
  BY <1>1 DEF mod_s_lookup
<1>2. CASE ss # {}
  <2>1. ss \in SUBSET (1 .. Len(prog[m])) /\ Len(prog[m]) \in Nat
    BY StructStmtsFacts
  <2>2. Max(ss) \in ss
    <3> HIDE DEF ss
    <3> QED
      BY <1>2, <2>1, GreatestOf
  <2>3. mod_s_lookup(m, n) = Struct(m, Max(ss))
    BY <1>2 DEF mod_s_lookup
  <2>4. Max(ss) \in StructStmts(m) /\ prog[m][Max(ss)].name = n
    BY <2>2
  <2> QED
    BY <2>3, <2>4, StructStmtsFacts
<1> QED
  BY <1>1, <1>2

LEMMA PlainScope ==
    ASSUME Typing, NEW m \in Mods, Plain(m), NEW s \in StructStmts(m)
    PROVE  mod_s_lookup(m, prog[m][s].name) = Struct(m, s)
BY ScopeFacts DEF Plain

(* What a name stands for in a context: an own type. *)
LEMMA LocalType ==
    ASSUME Typing, NEW m \in Mods, NEW t, Local(m, t)
    PROVE  t \in Type \cup {NULL}
<1>1. CASE t \in {NULL, I32, String}
  BY <1>1 DEF Type
<1>2. CASE \E i \in Mods : t = Mod(i)
  BY <1>2 DEF Type, Mod
<1>3. CASE \E s \in StructStmts(m) : t = Struct(m, s)
  BY <1>3, StructStmtsFacts
<1> QED
  BY <1>1, <1>2, <1>3 DEF Local

LEMMA LookupLocal ==
    ASSUME Typing, ctx.mod \in Mods, LocalsOwn(ctx), NEW n \in Names
    PROVE  Local(ctx.mod, scope_lookup(n))
<1>1. Local(ctx.mod, ctx.locals[n])
  BY DEF LocalsOwn
<1>2. Local(ctx.mod, mod_s_lookup(ctx.mod, n))
  BY ScopeFacts DEF Local
<1>3. Local(ctx.mod, NULL) /\ Local(ctx.mod, I32)
  BY DEF Local
<1> QED
  BY <1>1, <1>2, <1>3 DEF scope_lookup

LEMMA ExprLocal ==
    ASSUME Typing, ctx.mod \in Mods, LocalsOwn(ctx), NEW e \in Expr,
           ~UnknownName(e)
    PROVE  Local(ctx.mod, typecheck_check_expr(e))
<1>1. CASE e.dots # 0
  BY <1>1 DEF typecheck_check_expr, Local
<1>2. CASE e.dots = 0
  <2>1. typecheck_check_expr(e) = BaseType(e)
    BY <1>2 DEF typecheck_check_expr
  <2>2. e.base \in {"int", "string", "other"} \/ (e.base = "ident" /\ e.name \in Names)
    BY DEF Expr
  <2>3. CASE e.base = "int"
    BY <2>1, <2>3 DEF BaseType, Local
  <2>4. CASE e.base = "string"
    BY <2>1, <2>4 DEF BaseType, Local
  <2>5. CASE e.base = "other"
    BY <2>1, <2>5 DEF BaseType, Local
  <2>6. CASE e.base = "ident"
    BY <2>1, <2>2, <2>6, LookupLocal DEF BaseType, Local
  <2> QED
    BY <2>2, <2>3, <2>4, <2>5, <2>6
<1> QED
  BY <1>1, <1>2

LEMMA BindLocals ==
    ASSUME NEW c, IsContext(c), LocalsOwn(c), NEW n \in BoundNames(c.mod), NEW t, Local(c.mod, t)
    PROVE  LocalsOwn(typecheck_bind(c, n, t))
<1> DEFINE d == typecheck_bind(c, n, t)
<1>1. d.mod = c.mod /\ d.locals = [c.locals EXCEPT ![n] = t]
  BY DEF IsContext, typecheck_bind
<1>2. c.locals = [x \in Names |-> c.locals[x]]
  BY DEF LocalsOwn
<1>3. d.locals = [x \in Names |-> IF x = n THEN t ELSE c.locals[x]]
  BY <1>1, <1>2
<1> HIDE DEF d
<1>4. \A x \in Names : d.locals[x] = IF x = n THEN t ELSE c.locals[x]
  BY <1>3
<1>5. \A x \in Names : Local(d.mod, d.locals[x])
  BY <1>1, <1>4 DEF LocalsOwn
<1>6. \A x \in Names : d.locals[x] # NULL => x \in BoundNames(d.mod)
  BY <1>1, <1>4 DEF LocalsOwn
<1>7. d.locals = [x \in Names |-> d.locals[x]]
  BY <1>3
<1>8. LocalsOwn(d)
  BY <1>5, <1>6, <1>7 DEF LocalsOwn
<1> QED
  BY <1>8 DEF d

LEMMA AliasLocals ==
    ASSUME NEW c, IsContext(c), LocalsOwn(c), NEW n, NEW m
    PROVE  LocalsOwn(typecheck_add_import_alias(c, n, m))
<1>1. /\ typecheck_add_import_alias(c, n, m).mod = c.mod
      /\ typecheck_add_import_alias(c, n, m).locals = c.locals
  BY DEF IsContext, typecheck_add_import_alias
<1> QED
  BY <1>1 DEF LocalsOwn

LEMMA FreshLocals ==
    /\ LocalsOwn(typecheck_empty_ctx)
    /\ \A m \in Mods : LocalsOwn(typecheck_create_ctx(m))
BY DEF LocalsOwn, Local, typecheck_empty_ctx, typecheck_create_ctx

(* The program stays: what is said of a context remains said. *)
LEMMA SameProgram ==
    ASSUME prog' = prog, NEW CONSTANT c, NEW CONSTANT n
    PROVE  (LocalsOwn(c) <=> LocalsOwn(c)') /\ (AliasesMade(c, n) <=> AliasesMade(c, n)')
BY DEF LocalsOwn, AliasesMade, Local, BoundNames, StructStmts

(* Below the module being checked are others, each the importer of the one *)
(* above it.                                                               *)
LEMMA Below ==
    ASSUME IInv, frames # <<>>
    PROVE  /\ Len(frames) \in Nat \ {0} /\ DOMAIN frames = 1 .. Len(frames)
           /\ Top.mod \in Mods /\ Top.mod \in typed /\ ctx.mod = Top.mod
           /\ \A k \in DOMAIN frames : k < Len(frames) => frames[k].mod \in Mods \ {Top.mod}
           /\ \A k \in DOMAIN frames : k > 1 =>
                  /\ k - 1 \in DOMAIN frames /\ k - 1 < Len(frames)
                  /\ frames[k].saved.mod = frames[k - 1].mod
                  /\ frames[k].saved.mod \in Mods \ {Top.mod}
<1>1. Len(frames) \in Nat \ {0} /\ DOMAIN frames = 1 .. Len(frames)
  BY SeqFacts DEF IInv, Typing
<1>2. Top.mod \in Mods /\ Top.mod \in typed /\ ctx.mod = Top.mod
  BY <1>1 DEF IInv, Typing, Nested, ContextMatches, Top
<1>3. ASSUME NEW k \in DOMAIN frames, k < Len(frames)
      PROVE  frames[k].mod \in Mods \ {Top.mod}
  <2>1. frames[k].mod \in Mods
    BY DEF IInv, Typing
  <2>2. k # Len(frames) /\ Len(frames) \in DOMAIN frames
    BY <1>1, <1>3
  <2>3. frames[k].mod # frames[Len(frames)].mod
    BY <2>2 DEF IInv, Nested
  <2> QED
    BY <2>1, <2>3 DEF Top
<1>4. ASSUME NEW k \in DOMAIN frames, k > 1
      PROVE  /\ k - 1 \in DOMAIN frames /\ k - 1 < Len(frames)
             /\ frames[k].saved.mod = frames[k - 1].mod
             /\ frames[k].saved.mod \in Mods \ {Top.mod}
  <2>1. k - 1 \in DOMAIN frames /\ k - 1 < Len(frames)
    BY <1>1, <1>4
  <2>2. frames[k].saved.mod = frames[k - 1].mod
    BY <1>4 DEF IInv, ContextMatches
  <2> QED
    BY <1>3, <2>1, <2>2
<1> QED
  BY <1>1, <1>2, <1>3, <1>4

(* The next statement of the module being checked leaves those below.      *)
LEMMA NextStmt ==
    ASSUME IInv, NEW op, At(op), Next_stmt
    PROVE  /\ at'[Top.mod] = at[Top.mod] + 1
           /\ \A m \in Mods \ {Top.mod} : at'[m] = at[m]
           /\ at[Top.mod] \in 1 .. Len(prog[Top.mod])
           /\ prog[Top.mod][at[Top.mod]] = Current /\ Current \in Stmt /\ Current.op = op
           /\ Top.mod \in Mods /\ Top.mod \in typed /\ ctx.mod = Top.mod /\ frames # <<>>
<1>1. /\ Top.mod \in Mods /\ Top.mod \in typed /\ ctx.mod = Top.mod
      /\ at[Top.mod] \in 1 .. Len(prog[Top.mod]) /\ Current \in Stmt /\ Current.op = op
  BY CurrentFacts
<1>2. frames # <<>>
  BY DEF At
<1>3. at'[Top.mod] = at[Top.mod] + 1 /\ \A m \in Mods \ {Top.mod} : at'[m] = at[m]
  BY <1>1 DEF Next_stmt, IInv, Typing
<1> QED
  BY <1>1, <1>2, <1>3 DEF Current

LEMMA OpFacts ==
    ASSUME NEW s \in Stmt
    PROVE  /\ s.op = "import" => s.path \in Names
           /\ s.op = "let" => s.name \in Names /\ s.value \in Expr
           /\ s.op = "expr" => s.value \in Expr
           /\ s.op = "struct" => s.name \in Names /\ s.fields \in Seq(Field)
BY DEF Stmt

LEMMA QuietScoped ==
    ASSUME Scoped, UNCHANGED <<prog, frames, at, ctx>>
    PROVE  Scoped'
BY DEF Scoped, LocalsOwn, AliasesMade, Local, BoundNames, StructStmts

(* A statement gives the context no alias but that of its import. *)
Aliased(op) ==
    /\ \A p \in Names : \/ ctx'.aliases[p] = ctx.aliases[p]
                        \/ op = "import" /\ Current.path = p /\ ctx'.aliases[p] = KeyMod[p]
    /\ op = "import" /\ Found(Current.path) => ctx'.aliases[Current.path] = KeyMod[Current.path]

LEMMA NoAlias ==
    ASSUME ctx'.aliases = ctx.aliases, NEW op, op # "import" \/ ~Found(Current.path)
    PROVE  Aliased(op)
BY DEF Aliased

LEMMA StatementScoped ==
    ASSUME IInv, Scoped, NEW op, At(op), Next_stmt, UNCHANGED <<prog, frames>>,
           LocalsOwn(ctx'), ctx'.mod = ctx.mod, Aliased(op)
    PROVE  Scoped'
<1> DEFINE t == Top.mod
<1>1. /\ at'[t] = at[t] + 1 /\ at[t] \in 1 .. Len(prog[t])
      /\ prog[t][at[t]] = Current /\ Current.op = op
      /\ t \in Mods /\ ctx.mod = t /\ frames # <<>>
  BY NextStmt
<1>2. \A m \in Mods \ {t} : at'[m] = at[m]
  BY NextStmt
<1>3. /\ \A k \in DOMAIN frames : k < Len(frames) => frames[k].mod \in Mods \ {t}
      /\ \A k \in DOMAIN frames : k > 1 => frames[k].saved.mod \in Mods \ {t}
  BY <1>1, Below
<1>4. at'[ctx'.mod] - 1 = at[t] /\ at[t] \in Nat
  BY <1>1
<1> HIDE DEF t
<1>5. LocalsOwn(ctx)'
  <2>1. PICK c : c = ctx'
    OBVIOUS
  <2> QED
    BY <2>1 DEF LocalsOwn, Local, BoundNames, StructStmts
<1>6. \A k \in DOMAIN frames' : LocalsOwn(frames[k].saved)'
  BY DEF Scoped, LocalsOwn, Local, BoundNames, StructStmts
<1>7. AliasesMade(ctx, at[ctx.mod] - 1)'
  <2> SUFFICES ASSUME NEW s \in 1 .. at[t], prog[t][s].op = "import", Found(prog[t][s].path)
               PROVE  ctx'.aliases[prog[t][s].path] = KeyMod[prog[t][s].path]
    BY <1>1, <1>4 DEF AliasesMade
  <2>1. CASE s = at[t]
    BY <1>1, <2>1 DEF Aliased
  <2>2. CASE s # at[t]
    <3>1. s \in 1 .. at[t] - 1 /\ s \in 1 .. Len(prog[t])
      BY <1>1, <1>4, <2>2
    <3>2. prog[t][s] \in Stmt
      BY <1>1, <3>1 DEF IInv, Typing
    <3>3. prog[t][s].path \in Names
      BY <3>2, OpFacts
    <3>4. ctx.aliases[prog[t][s].path] = KeyMod[prog[t][s].path]
      BY <1>1, <3>1 DEF Scoped, AliasesMade
    <3> QED
      BY <3>3, <3>4 DEF Aliased
  <2> QED
    BY <2>1, <2>2
<1>8. \A k \in DOMAIN frames' : k > 1 => AliasesMade(frames[k].saved, at[frames[k].saved.mod])'
  <2> SUFFICES ASSUME NEW k \in DOMAIN frames, k > 1
               PROVE  AliasesMade(frames[k].saved, at[frames[k].saved.mod])'
    OBVIOUS
  <2>1. at'[frames[k].saved.mod] = at[frames[k].saved.mod]
    BY <1>2, <1>3
  <2>2. AliasesMade(frames[k].saved, at[frames[k].saved.mod])
    BY DEF Scoped
  <2> QED
    BY <2>1, <2>2 DEF AliasesMade
<1>9. \A k \in DOMAIN frames' :
          k < Len(frames') => prog'[frames'[k].mod][at'[frames'[k].mod]].op = "import"
  BY <1>2, <1>3 DEF Scoped
<1> QED
  BY <1>5, <1>6, <1>7, <1>8, <1>9 DEF Scoped

(* A module is opened with a context without names, that of the importer   *)
(* being saved with the alias of the import under way.                     *)
LEMMA EnterScoped ==
    ASSUME IInv, Scoped, NEW m \in Mods \ typed, NEW saved, Enter(m, saved), UNCHANGED prog,
           LocalsOwn(saved),
           frames # <<>> => /\ saved.mod = Top.mod /\ AliasesMade(saved, at[Top.mod])
                            /\ prog[Top.mod][at[Top.mod]].op = "import"
    PROVE  Scoped'
<1> DEFINE n == Len(frames)
<1>1. n \in Nat /\ DOMAIN frames = 1 .. n /\ (frames = <<>> <=> n = 0)
  BY SeqFacts DEF IInv, Typing
<1>2. at' = [at EXCEPT ![m] = 1] /\ at'[m] = 1
  BY DEF Enter, IInv, Typing
<1>3. \A x \in Mods \ {m} : at'[x] = at[x]
  BY <1>2 DEF IInv, Typing
<1>4. /\ DOMAIN frames' = 1 .. n + 1 /\ Len(frames') = n + 1
      /\ frames'[n + 1].mod = m /\ frames'[n + 1].saved = saved
      /\ \A k \in 1 .. n : frames'[k] = frames[k]
  <2>1. frames' = Append(frames, [mod |-> m, saved |-> saved])
    BY DEF Enter
  <2>2. IsSeq(frames)
    BY DEF IInv, Typing
  <2>3. IsSeq(frames')
    BY <2>1, <2>2, PushFacts
  <2>4. Len(frames') = n + 1 /\ DOMAIN frames' = 1 .. Len(frames')
    BY <2>1, <2>2, <2>3, PushFacts, SeqFacts
  <2> QED
    BY <2>1, <2>2, <2>4, PushFacts
<1>5. /\ LocalsOwn(ctx') /\ ctx'.mod = m
      /\ \A k \in DOMAIN frames : frames[k].mod \in Mods \ {m}
      /\ \A k \in DOMAIN frames : k > 1 => frames[k].saved.mod \in Mods \ {m}
  <2>1. ctx' = typecheck_create_ctx(m)
    BY DEF Enter
  <2>2. \A k \in DOMAIN frames : frames[k].mod \in Mods \ {m}
    BY DEF IInv, Typing, Nested
  <2>3. \A k \in DOMAIN frames : k > 1 => frames[k].saved.mod \in Mods \ {m}
    BY <1>1, <2>2 DEF IInv, ContextMatches
  <2> QED
    BY <2>1, <2>2, <2>3, FreshLocals, FreshContextFacts
<1>6. frames # <<>> => Top = frames[n] /\ n \in DOMAIN frames
  BY <1>1 DEF Top
<1> HIDE DEF n
<1>7. LocalsOwn(ctx)'
  <2>1. PICK c : c = ctx'
    OBVIOUS
  <2> QED
    BY <1>5, <2>1 DEF LocalsOwn, Local, BoundNames, StructStmts
<1>8. ASSUME NEW k \in DOMAIN frames' PROVE LocalsOwn(frames[k].saved)'
  <2>1. CASE k = n + 1
    BY <1>4, <2>1 DEF LocalsOwn, Local, BoundNames, StructStmts
  <2>2. CASE k # n + 1
    <3>1. k \in DOMAIN frames /\ frames'[k] = frames[k]
      BY <1>1, <1>4, <2>2
    <3>2. LocalsOwn(frames[k].saved)
      BY <3>1 DEF Scoped
    <3> QED
      BY <3>1, <3>2 DEF LocalsOwn, Local, BoundNames, StructStmts
  <2> QED
    BY <2>1, <2>2
<1>9. AliasesMade(ctx, at[ctx.mod] - 1)'
  <2>1. at'[ctx'.mod] - 1 = 0
    BY <1>2, <1>5
  <2> QED
    BY <2>1 DEF AliasesMade
<1>10. ASSUME NEW k \in DOMAIN frames', k > 1
       PROVE  AliasesMade(frames[k].saved, at[frames[k].saved.mod])'
  <2>1. CASE k = n + 1
    <3>1. frames # <<>> /\ n \in DOMAIN frames /\ Top = frames[n]
      BY <1>1, <1>6, <1>10, <2>1
    <3>2. at'[saved.mod] = at[Top.mod]
      BY <1>3, <1>5, <3>1
    <3>3. AliasesMade(saved, at[Top.mod]) /\ frames'[k].saved = saved
      BY <1>4, <2>1, <3>1
    <3> QED
      BY <3>2, <3>3 DEF AliasesMade
  <2>2. CASE k # n + 1
    <3>1. k \in DOMAIN frames /\ frames'[k] = frames[k]
      BY <1>1, <1>4, <2>2
    <3>2. at'[frames[k].saved.mod] = at[frames[k].saved.mod]
      BY <1>3, <1>5, <1>10, <3>1
    <3>3. AliasesMade(frames[k].saved, at[frames[k].saved.mod])
      BY <1>10, <3>1 DEF Scoped
    <3> QED
      BY <3>1, <3>2, <3>3 DEF AliasesMade
  <2> QED
    BY <2>1, <2>2
<1>11. ASSUME NEW k \in DOMAIN frames', k < Len(frames')
       PROVE  prog'[frames'[k].mod][at'[frames'[k].mod]].op = "import"
  <2>1. k \in DOMAIN frames /\ frames'[k] = frames[k]
    BY <1>1, <1>4, <1>11
  <2>2. at'[frames[k].mod] = at[frames[k].mod]
    BY <1>3, <1>5, <2>1
  <2>3. CASE k = n
    BY <1>1, <1>6, <2>1, <2>2, <2>3
  <2>4. CASE k # n
    <3>1. k < Len(frames)
      BY <1>1, <2>1, <2>4 DEF n
    <3> QED
      BY <2>1, <2>2, <3>1 DEF Scoped
  <2> QED
    BY <2>3, <2>4
<1> QED
  BY <1>7, <1>8, <1>9, <1>10, <1>11 DEF Scoped

(* A module is closed: its importer goes on in its own context. *)
LEMMA LeaveScoped ==
    ASSUME IInv, Scoped, Len(frames) > 0,
           frames' = SubSeq(frames, 1, Len(frames) - 1), UNCHANGED prog,
           Len(frames) = 1 => UNCHANGED <<at, ctx>>,
           Len(frames) > 1 => /\ LocalsOwn(ctx') /\ ctx'.mod = Top.saved.mod
                              /\ ctx'.aliases = Top.saved.aliases
                              /\ at' = [at EXCEPT ![Top.saved.mod] = @ + 1]
    PROVE  Scoped'
<1> DEFINE n == Len(frames)
           i == Top.saved.mod
<1>1. IsSeq(frames) /\ n \in Nat \ {0} /\ DOMAIN frames = 1 .. n /\ frames # <<>> /\ Top = frames[n]
  BY SeqFacts DEF IInv, Typing, Top
<1>2. /\ DOMAIN frames' = 1 .. n - 1 /\ Len(frames') = n - 1
      /\ \A k \in 1 .. n - 1 : frames'[k] = frames[k] /\ k \in 1 .. n
      /\ frames' = <<>> <=> n = 1
  <2>1. IsSeq(frames') /\ Len(frames') = n - 1 /\ \A k \in 1 .. n - 1 : frames'[k] = frames[k]
    BY <1>1, PopFacts
  <2>2. DOMAIN frames' = 1 .. Len(frames') /\ (frames' = <<>> <=> Len(frames') = 0)
    BY <2>1, SeqFacts
  <2> HIDE DEF n
  <2> QED
    BY <1>1, <2>1, <2>2
<1>3. n > 1 => i = frames[n - 1].mod /\ i \in Mods /\ n - 1 \in 1 .. n
  BY <1>1, Below
<1>4. n > 1 => at'[i] = at[i] + 1 /\ at[i] \in Nat /\ \A x \in Mods \ {i} : at'[x] = at[x]
  BY <1>3 DEF IInv, Typing
<1>5. \A k \in 1 .. n - 1 : /\ frames[k].mod \in Mods
                            /\ k # n - 1 => frames[k].mod # frames[n - 1].mod
                            /\ k > 1 => frames[k].saved.mod = frames[k - 1].mod
  <2>0. \A k \in 1 .. n - 1 : k \in DOMAIN frames /\ n - 1 \in DOMAIN frames
    BY <1>1
  <2>1. \A k \in 1 .. n - 1 : frames[k].mod \in Mods
    BY <2>0 DEF IInv, Typing
  <2>2. \A k \in 1 .. n - 1 : k # n - 1 => frames[k].mod # frames[n - 1].mod
    BY <2>0 DEF IInv, Nested
  <2>3. \A k \in 1 .. n - 1 : k > 1 => frames[k].saved.mod = frames[k - 1].mod
    BY <1>1 DEF IInv, ContextMatches
  <2> QED
    BY <2>1, <2>2, <2>3
<1> HIDE DEF n, i
<1>6. LocalsOwn(ctx)'
  <2>1. LocalsOwn(ctx')
    <3>1. CASE n = 1
      BY <3>1 DEF n, Scoped
    <3>2. CASE n > 1
      BY <3>2 DEF n
    <3> QED
      BY <1>1, <3>1, <3>2
  <2>2. PICK c : c = ctx'
    OBVIOUS
  <2> QED
    BY <2>1, <2>2 DEF LocalsOwn, Local, BoundNames, StructStmts
<1>7. ASSUME NEW k \in DOMAIN frames' PROVE LocalsOwn(frames[k].saved)'
  <2>1. k \in DOMAIN frames /\ frames'[k] = frames[k]
    BY <1>1, <1>2
  <2>2. PICK c : c = frames[k].saved
    OBVIOUS
  <2>3. LocalsOwn(c) /\ frames'[k].saved = c
    BY <2>1, <2>2 DEF Scoped
  <2>4. LocalsOwn(c)'
    BY <2>3, SameProgram
  <2> QED
    BY <2>3, <2>4 DEF LocalsOwn
<1>8. ASSUME frames' # <<>> PROVE AliasesMade(ctx, at[ctx.mod] - 1)'
  <2>1. n > 1 /\ n \in DOMAIN frames
    BY <1>1, <1>2, <1>8
  <2>2. AliasesMade(Top.saved, at[i])
    BY <1>1, <2>1 DEF Scoped, i
  <2>3. at'[ctx'.mod] - 1 = at[i] /\ ctx'.mod = Top.saved.mod /\ ctx'.aliases = Top.saved.aliases
    BY <1>4, <2>1 DEF i, n
  <2> QED
    BY <2>2, <2>3 DEF AliasesMade
<1>9. ASSUME NEW k \in DOMAIN frames', k > 1
      PROVE  AliasesMade(frames[k].saved, at[frames[k].saved.mod])'
  <2>1. k \in 1 .. n - 1 /\ frames'[k] = frames[k] /\ k - 1 \in 1 .. n - 1 /\ n > 1 /\ k - 1 # n - 1
    BY <1>1, <1>2, <1>9
  <2>2. frames[k].saved.mod \in Mods \ {i}
    BY <1>3, <1>5, <1>9, <2>1
  <2>3. at'[frames[k].saved.mod] = at[frames[k].saved.mod]
    BY <1>4, <2>1, <2>2
  <2>4. AliasesMade(frames[k].saved, at[frames[k].saved.mod])
    BY <1>1, <1>2, <1>9, <2>1 DEF Scoped
  <2>5. PICK c, l : c = frames[k].saved /\ l = at[frames[k].saved.mod]
    OBVIOUS
  <2>6. AliasesMade(c, l) /\ frames'[k].saved = c /\ at'[c.mod] = l
    BY <2>1, <2>3, <2>4, <2>5
  <2> QED
    BY <2>6 DEF AliasesMade
<1>10. ASSUME NEW k \in DOMAIN frames', k < Len(frames')
       PROVE  prog'[frames'[k].mod][at'[frames'[k].mod]].op = "import"
  <2>1. k \in 1 .. n - 1 /\ frames'[k] = frames[k] /\ n > 1 /\ k # n - 1 /\ k < n
    BY <1>1, <1>2, <1>10
  <2>2. at'[frames[k].mod] = at[frames[k].mod]
    BY <1>3, <1>4, <1>5, <2>1
  <2>3. prog[frames[k].mod][at[frames[k].mod]].op = "import"
    BY <1>1, <1>2, <2>1 DEF Scoped, n
  <2> QED
    BY <2>1, <2>2, <2>3
<1> QED
  BY <1>6, <1>7, <1>8, <1>9, <1>10 DEF Scoped

LEMMA InitScoped == Init => Scoped
<1> SUFFICES ASSUME Init PROVE Scoped
  OBVIOUS
<1>1. frames = <<>> /\ DOMAIN frames = {} /\ ctx = typecheck_empty_ctx
  BY DEF Init
<1> QED
  BY <1>1, FreshLocals DEF Scoped

(* What a statement of the module being checked binds is a bound name. *)
LEMMA BindsBound ==
    ASSUME Typing, NEW m \in Mods, NEW s \in 1 .. Len(prog[m])
    PROVE  /\ prog[m][s].op = "import" => prog[m][s].path \in BoundNames(m)
           /\ prog[m][s].op = "let" => prog[m][s].name \in BoundNames(m)
           /\ prog[m][s].op = "import" => prog[m][s].path \in Imports(m)
           /\ prog[m][s].op = "struct" => s \in StructStmts(m)
<1>1. s \in DOMAIN prog[m]
  BY DEF Typing
<1> QED
  BY <1>1 DEF BoundNames, Imports, StructStmts

LEMMA StepScoped == IInv /\ Scoped /\ [Next]_vars => Scoped'
<1> SUFFICES ASSUME IInv, Scoped, [Next]_vars PROVE Scoped'
  OBVIOUS
<1>0. Typing /\ IsContext(ctx) /\ LocalsOwn(ctx)
  BY DEF IInv, Typing, Scoped
<1>1. CASE EnterModule
  <2> DEFINE m == order[pos + 1]
  <2>1. m \in Mods \ typed
    <3>1. pos + 1 \in 1 .. Len(order) /\ order \in Seq(Mods)
      BY <1>1, OrderFacts DEF EnterModule, IInv, Typing
    <3> QED
      BY <1>1, <3>1 DEF EnterModule
  <2>2. Enter(m, typecheck_empty_ctx) /\ frames = <<>> /\ UNCHANGED prog
    BY <1>1 DEF EnterModule, Visiting
  <2> HIDE DEF m
  <2> QED
    BY <2>1, <2>2, FreshLocals, EnterScoped
<1>2. CASE SkipModule \/ Finish \/ GoesWrong \/ Stopped \/ UNCHANGED vars
  <2>1. UNCHANGED <<prog, frames, at, ctx>>
    BY <1>2, WrongQuiet DEF SkipModule, Finish, Stopped, vars
  <2> QED
    BY <2>1, QuietScoped
<1>3. CASE LeaveModule
  <2>1. /\ Len(frames) = 1 /\ frames' = SubSeq(frames, 1, Len(frames) - 1)
        /\ UNCHANGED <<prog, at, ctx>>
    BY <1>3 DEF LeaveModule
  <2> QED
    BY <2>1, LeaveScoped
<1>4. CASE LeaveImport
  <2> DEFINE i == Top.saved.mod
             path == prog[i][at[i]].path
             bound == typecheck_bind(Top.saved, path, Mod(Top.mod))
  <2>1. /\ Len(frames) \in Nat /\ Len(frames) > 1 /\ DOMAIN frames = 1 .. Len(frames) /\ frames # <<>>
        /\ frames' = SubSeq(frames, 1, Len(frames) - 1) /\ UNCHANGED prog
        /\ ctx' = bound /\ at' = [at EXCEPT ![i] = @ + 1]
    BY <1>4, SeqFacts DEF LeaveImport, restored, IInv, Typing
  <2>2. /\ IsContext(Top.saved) /\ LocalsOwn(Top.saved) /\ Top.mod \in Mods
        /\ Len(frames) \in DOMAIN frames /\ Top = frames[Len(frames)]
    BY <2>1 DEF IInv, Typing, Top, Scoped
  <2>3. /\ Len(frames) - 1 \in DOMAIN frames /\ Len(frames) - 1 < Len(frames)
        /\ i = frames[Len(frames) - 1].mod /\ i \in Mods /\ i \in typed
    BY <2>1, <2>2, Below DEF IInv, Nested
  <2>4. at[i] \in 1 .. Len(prog[i])
    <3>1. at[i] <= Len(prog[i])
      BY <2>3 DEF IInv, Bounded
    <3> QED
      BY <2>3, <3>1 DEF IInv, Typing
  <2>5. prog[i][at[i]].op = "import"
    BY <2>3 DEF Scoped
  <2>6. path \in BoundNames(i)
    BY <1>0, <2>3, <2>4, <2>5, BindsBound
  <2> HIDE DEF path
  <2>7. Local(i, Mod(Top.mod))
    BY <2>2 DEF Local
  <2>8. LocalsOwn(bound)
    BY <2>2, <2>6, <2>7, BindLocals
  <2>9. bound.mod = i /\ bound.aliases = Top.saved.aliases
    BY <2>2 DEF IsContext, typecheck_bind
  <2> HIDE DEF bound
  <2> QED
    BY <2>1, <2>8, <2>9, LeaveScoped
<1>5. CASE ImportChecked
  <2> DEFINE p == Current.path
             m == KeyMod[p]
             added == typecheck_add_import_alias(ctx, p, m)
             bound == typecheck_bind(added, p, Mod(m))
  <2>1. At("import") /\ ctx' = bound /\ Found(p) /\ Next_stmt /\ UNCHANGED <<prog, frames>>
    BY <1>5 DEF ImportChecked
  <2>2. p \in Names /\ m \in Mods /\ ctx.mod \in Mods
    BY <2>1, ImportFacts, CurrentFacts
  <2>3. p \in BoundNames(ctx.mod)
    BY <1>0, <2>1, NextStmt, BindsBound
  <2>4. IsContext(added) /\ LocalsOwn(added) /\ added.mod = ctx.mod
        /\ added.aliases = [ctx.aliases EXCEPT ![p] = m]
    BY <1>0, <2>2, ContextFacts, AliasLocals
  <2>5. Local(added.mod, Mod(m))
    BY <2>2 DEF Local
  <2> HIDE DEF added
  <2>6. bound.mod = ctx.mod /\ bound.aliases = added.aliases
    BY <2>2, <2>4, ContextFacts
  <2>7. LocalsOwn(bound)
    BY <2>3, <2>4, <2>5, BindLocals
  <2>8. \A q \in Names : ctx'.aliases[q] = IF q = p THEN m ELSE ctx.aliases[q]
    BY <1>0, <2>1, <2>2, <2>4, <2>6 DEF IsContext
  <2> HIDE DEF bound
  <2>9. ctx'.aliases[p] = KeyMod[p]
    BY <2>2, <2>8
  <2>10. \A q \in Names : ctx'.aliases[q] = ctx.aliases[q] \/ (p = q /\ ctx'.aliases[q] = KeyMod[q])
    BY <2>8
  <2>11. Aliased("import")
    BY <2>9, <2>10 DEF Aliased
  <2>12. LocalsOwn(ctx') /\ ctx'.mod = ctx.mod
    BY <2>1, <2>6, <2>7
  <2> QED
    BY <2>1, <2>11, <2>12, StatementScoped
<1>6. CASE ImportUnchecked
  <2> DEFINE p == Current.path
             m == KeyMod[p]
  <2>1. At("import") /\ Found(p) /\ m \notin typed /\ Enter(m, typecheck_add_import_alias(ctx, p, m))
        /\ UNCHANGED prog /\ frames # <<>>
    BY <1>6 DEF ImportUnchecked, At
  <2>2. p \in Names /\ m \in Mods \ typed
    BY <2>1, ImportFacts
  <2>3. /\ ctx.mod = Top.mod /\ Top.mod \in Mods
        /\ at[Top.mod] \in 1 .. Len(prog[Top.mod]) /\ Current = prog[Top.mod][at[Top.mod]]
        /\ Current.op = "import"
    BY <2>1, CurrentFacts DEF Current
  <2>4. PICK saved : saved = typecheck_add_import_alias(ctx, p, m)
    OBVIOUS
  <2>5. LocalsOwn(saved) /\ saved.mod = Top.mod /\ saved.aliases = [ctx.aliases EXCEPT ![p] = m]
    <3>1. LocalsOwn(saved)
      BY <1>0, <2>4, AliasLocals
    <3>2. saved.mod = ctx.mod /\ saved.aliases = [ctx.aliases EXCEPT ![p] = m]
      BY <1>0, <2>4 DEF IsContext, typecheck_add_import_alias
    <3> QED
      BY <2>3, <3>1, <3>2
  <2>6. ctx.aliases \in [Names -> Mods \cup {NULL}]
    BY <1>0 DEF IsContext
  <2>7. AliasesMade(saved, at[Top.mod])
    <3> DEFINE t == Top.mod
    <3> SUFFICES ASSUME NEW s \in 1 .. at[t], prog[t][s].op = "import", Found(prog[t][s].path)
                 PROVE  saved.aliases[prog[t][s].path] = KeyMod[prog[t][s].path]
      BY <2>5 DEF AliasesMade
    <3>1. prog[t][s] \in Stmt
      BY <1>0, <2>3 DEF Typing
    <3>2. prog[t][s].path \in Names
      BY <3>1, OpFacts
    <3>3. CASE prog[t][s].path = p
      BY <2>2, <2>5, <2>6, <3>3
    <3>4. CASE prog[t][s].path # p
      <4>1. s # at[t]
        BY <2>3, <3>4
      <4>2. s \in 1 .. at[ctx.mod] - 1
        BY <2>3, <4>1
      <4>3. AliasesMade(ctx, at[ctx.mod] - 1)
        BY <2>1 DEF Scoped
      <4>4. ctx.aliases[prog[t][s].path] = KeyMod[prog[t][s].path]
        BY <2>3, <4>2, <4>3 DEF AliasesMade
      <4> QED
        BY <2>5, <2>6, <3>2, <3>4, <4>4
    <3> QED
      BY <3>3, <3>4
  <2> HIDE DEF p, m
  <2> QED
    BY <2>1, <2>2, <2>3, <2>4, <2>5, <2>7, EnterScoped
<1>7. CASE ImportNotFound
  <2>1. /\ At("import") /\ ~Found(Current.path) /\ Next_stmt /\ UNCHANGED <<prog, frames>>
        /\ ctx' = ctx
    BY <1>7 DEF ImportNotFound
  <2>2. Aliased("import") /\ LocalsOwn(ctx') /\ ctx'.mod = ctx.mod
    BY <1>0, <2>1, NoAlias
  <2> QED
    BY <2>1, <2>2, StatementScoped
<1>8. CASE CheckStruct \/ CheckExpr \/ CheckOther
  <2>1. PICK op \in {"struct", "expr", "other"} :
            At(op) /\ Next_stmt /\ UNCHANGED <<prog, frames>> /\ ctx' = ctx
    BY <1>8 DEF CheckStruct, CheckExpr, CheckOther
  <2>2. Aliased(op) /\ LocalsOwn(ctx') /\ ctx'.mod = ctx.mod
    BY <1>0, <2>1, NoAlias
  <2> QED
    BY <2>1, <2>2, StatementScoped
<1>9. CASE CheckLet
  <2>1. At("let") /\ Next_stmt /\ UNCHANGED <<prog, frames>>
    BY <1>9 DEF CheckLet
  <2>2. /\ Current.name \in BoundNames(ctx.mod) /\ Current.value \in Expr /\ ctx.mod \in Mods
    BY <1>0, <2>1, NextStmt, BindsBound, OpFacts
  <2>3. CASE UnknownName(Current.value) \/ AccessError(Current.value)
    <3>1. ctx' = ctx
      BY <1>9, <2>3 DEF CheckLet
    <3>2. Aliased("let") /\ LocalsOwn(ctx') /\ ctx'.mod = ctx.mod
      BY <1>0, <3>1, NoAlias
    <3> QED
      BY <2>1, <3>2, StatementScoped
  <2>4. CASE ~(UnknownName(Current.value) \/ AccessError(Current.value))
    <3> DEFINE t == typecheck_check_expr(Current.value)
    <3>1. ctx' = typecheck_bind(ctx, Current.name, t)
      BY <1>9, <2>4 DEF CheckLet
    <3>2. Local(ctx.mod, t)
      BY <1>0, <2>2, <2>4, ExprLocal
    <3> HIDE DEF t
    <3>3. LocalsOwn(ctx')
      BY <1>0, <2>2, <3>1, <3>2, BindLocals
    <3>4. ctx'.mod = ctx.mod /\ ctx'.aliases = ctx.aliases
      BY <1>0, <3>1 DEF IsContext, typecheck_bind
    <3>5. Aliased("let")
      BY <3>4, NoAlias
    <3> QED
      BY <2>1, <3>3, <3>4, <3>5, StatementScoped
  <2> QED
    BY <2>3, <2>4
<1> QED
  BY <1>1, <1>2, <1>3, <1>4, <1>5, <1>6, <1>7, <1>8, <1>9 DEF Next, GoesWrong

(* The types of structs: those of the declarations of each module that has *)
(* a type.  One without a width has no alignment.                          *)
Sized ==
    /\ DOMAIN structs = Mods
    /\ \A m \in Mods : structs[m] \in [IF m \in typed THEN StructStmts(m) ELSE {} -> StructType]
    /\ \A m \in typed : \A s \in StructStmts(m) :
           structs[m][s].width = WIDTH_UNKNOWN => structs[m][s].align = 0

(* A type whose width can be asked for. *)
Usable(t) == \/ t \in {I32, String, Ptr}
             \/ \E i \in Mods : t = Mod(i)
             \/ \E q \in typed : \E s \in StructStmts(q) : t = Struct(q, s)

-----------------------------------------------------------------------------
LEMMA StructFacts ==
    ASSUME Sized, Typing, NEW m \in typed, NEW s \in StructStmts(m)
    PROVE  /\ m \in Mods /\ DOMAIN structs[m] = StructStmts(m) /\ structs[m][s] \in StructType
           /\ structs[m][s].width \in Int /\ structs[m][s].align \in Int /\ structs[m][s].name \in Names
<1>1. m \in Mods
  BY DEF Typing
<1>2. structs[m] \in [StructStmts(m) -> StructType]
  BY <1>1 DEF Sized
<1> QED
  BY <1>1, <1>2 DEF StructType

LEMMA KnownWidths ==
    /\ width(I32) = 4 /\ width(String) = 8 /\ width(Ptr) = 8
    /\ align(I32) = 4 /\ align(String) = 8 /\ align(Ptr) = 8
    /\ \A i : width(Mod(i)) = -1 /\ align(Mod(i)) = 0
    /\ \A m, s : /\ width(Struct(m, s)) = structs[m][s].width
                 /\ align(Struct(m, s)) = structs[m][s].align
BY DEF width, align, I32, String, Ptr, Mod, Struct, WIDTH_UNKNOWN

LEMMA Initialized ==
    /\ ty_is_initialized(I32) /\ ty_is_initialized(String) /\ ty_is_initialized(Ptr)
    /\ \A i : ty_is_initialized(Mod(i))
    /\ \A m, s : ty_is_initialized(Struct(m, s)) <=> structs[m][s].width # WIDTH_UNKNOWN
BY KnownWidths DEF ty_is_initialized, WIDTH_UNKNOWN, Mod, Struct, I32, String, Ptr

LEMMA Distinct ==
    /\ I32 # Ptr /\ String # Ptr
    /\ \A m, s : Struct(m, s) # I32 /\ Struct(m, s) # String /\ Struct(m, s) # Ptr
    /\ \A m, s, i : Struct(m, s) # Mod(i)
    /\ \A m, s, q, r : Struct(m, s) = Struct(q, r) => m = q /\ s = r
    /\ \A m, s : Struct(m, s).kind = "struct" /\ Struct(m, s).mod = m /\ Struct(m, s).idx = s
    /\ \A i : Mod(i).kind # "struct"
    /\ I32.kind # "struct" /\ String.kind # "struct"
BY DEF I32, String, Ptr, Mod, Struct

LEMMA UsableWidth ==
    ASSUME Sized, Typing, NEW t, Usable(t)
    PROVE  width(t) \in Int /\ align(t) \in Int
<1>1. CASE t \in {I32, String, Ptr} \/ \E i \in Mods : t = Mod(i)
  BY <1>1, KnownWidths
<1>2. CASE \E q \in typed : \E s \in StructStmts(q) : t = Struct(q, s)
  BY <1>2, KnownWidths, StructFacts
<1> QED
  BY <1>1, <1>2 DEF Usable

LEMMA LocalUsable ==
    ASSUME NEW m \in typed, NEW t, Local(m, t), t # NULL
    PROVE  Usable(t)
BY DEF Local, Usable

(* A field's type name leads to such a type, or to none. *)
LEMMA FieldUsable ==
    ASSUME IInv, Scoped, frames # <<>>, NEW f \in Field, typecheck_lookup_ident_mod(f) # NULL
    PROVE  /\ Usable(typecheck_lookup_ident_mod(f))
           /\ f.qual # NULL => /\ f.qual \in Names /\ ctx.aliases[f.qual] \in typed
                               /\ ctx.aliases[f.qual] = KeyMod[f.qual]
                               /\ \E r \in 1 .. at[ctx.mod] - 1 :
                                      prog[ctx.mod][r].op = "import" /\ prog[ctx.mod][r].path = f.qual
           /\ f.qual # NULL => typecheck_lookup_ident_mod(f) = mod_s_lookup(KeyMod[f.qual], f.name)
           /\ f.qual = NULL => typecheck_lookup_ident_mod(f) = scope_lookup(f.name)
<1>1. Typing /\ ctx.mod \in Mods /\ ctx.mod \in typed /\ LocalsOwn(ctx)
  BY Below DEF IInv, Scoped
<1>2. f.name \in Names /\ f.qual \in Names \cup {NULL}
  BY DEF Field
<1>3. CASE f.qual = NULL
  <2>1. typecheck_lookup_ident_mod(f) = scope_lookup(f.name)
    BY <1>3 DEF typecheck_lookup_ident_mod
  <2>2. Local(ctx.mod, scope_lookup(f.name))
    BY <1>1, <1>2, LookupLocal
  <2> QED
    BY <1>1, <1>3, <2>1, <2>2, LocalUsable
<1>4. CASE f.qual # NULL
  <2>1. ctx.aliases[f.qual] # NULL /\ typecheck_lookup_ident_mod(f) = mod_s_lookup(ctx.aliases[f.qual], f.name)
    BY <1>4 DEF typecheck_lookup_ident_mod
  <2>2. /\ ctx.aliases[f.qual] = KeyMod[f.qual] /\ KeyMod[f.qual] \in typed
        /\ \E r \in 1 .. at[ctx.mod] - 1 :
               prog[ctx.mod][r].op = "import" /\ prog[ctx.mod][r].path = f.qual
    BY <1>2, <1>4, <2>1 DEF IInv, AliasesOwn, OwnAliases
  <2>3. KeyMod[f.qual] \in Mods
    BY <1>1, <2>2 DEF Typing
  <2>4. Usable(mod_s_lookup(KeyMod[f.qual], f.name))
    BY <1>1, <2>1, <2>2, <2>3, ScopeFacts DEF Usable
  <2> QED
    BY <1>2, <1>4, <2>1, <2>2, <2>4
<1> QED
  BY <1>3, <1>4

(* One that is waited for is a struct without a width. *)
LEMMA WaitsFor ==
    ASSUME IInv, Scoped, frames # <<>>, NEW f \in Field, Waits(f)
    PROVE  /\ typecheck_lookup_ident_mod(f) # NULL /\ ~f.ptr
           /\ \E q \in typed : \E s \in StructStmts(q) :
                  /\ typecheck_lookup_ident_mod(f) = Struct(q, s)
                  /\ structs[q][s].width = WIDTH_UNKNOWN
                  /\ q = IF f.qual = NULL THEN ctx.mod ELSE ctx.aliases[f.qual]
<1> DEFINE t == typecheck_lookup_ident_mod(f)
<1>1. t # NULL /\ ~f.ptr /\ ~ty_is_initialized(t)
  BY DEF Waits
<1>2. Usable(t)
  BY <1>1, FieldUsable
<1>3. Typing /\ ctx.mod \in Mods /\ LocalsOwn(ctx) /\ f.name \in Names
  BY Below DEF IInv, Scoped, Field
<1> HIDE DEF t
<1>0. PICK q \in typed : \E s \in StructStmts(q) : t = Struct(q, s)
  BY <1>1, <1>2, Initialized DEF Usable
<1>4. PICK s \in StructStmts(q) : t = Struct(q, s)
  BY <1>0
<1>5. structs[q][s].width = WIDTH_UNKNOWN
  BY <1>1, <1>4, Initialized
<1>6. q = IF f.qual = NULL THEN ctx.mod ELSE ctx.aliases[f.qual]
  <2>1. CASE f.qual = NULL
    <3>1. t = scope_lookup(f.name)
      BY <1>1, <2>1, FieldUsable DEF t
    <3>2. Local(ctx.mod, t)
      BY <1>3, <3>1, LookupLocal
    <3> QED
      BY <1>1, <1>4, <2>1, <3>2, Distinct DEF Local
  <2>2. CASE f.qual # NULL
    <3>1. t = mod_s_lookup(KeyMod[f.qual], f.name) /\ ctx.aliases[f.qual] = KeyMod[f.qual]
          /\ KeyMod[f.qual] \in typed
      BY <1>1, <2>2, FieldUsable DEF t
    <3>2. KeyMod[f.qual] \in Mods
      BY <1>3, <3>1 DEF Typing
    <3>3. PICK r \in StructStmts(KeyMod[f.qual]) : t = Struct(KeyMod[f.qual], r)
      BY <1>1, <1>3, <3>1, <3>2, ScopeFacts
    <3>4. q = KeyMod[f.qual]
      BY <1>4, <3>3 DEF Struct
    <3> QED
      BY <2>2, <3>1, <3>4
  <2> QED
    BY <2>1, <2>2
<1> QED
  BY <1>1, <1>4, <1>5, <1>6 DEF t

(* What FillStruct looks at: the fields of a declaration that are waited   *)
(* for, and the types of those that are not.                               *)
Fields(decl) == {decl.fields[i] : i \in DOMAIN decl.fields}
Waiting(decl) == {f \in Fields(decl) : Waits(f)}
Unknown(decl) == \E i \in DOMAIN decl.fields : typecheck_lookup_ident_mod(decl.fields[i]) = NULL
Ready(decl) == ~Unknown(decl) /\ Waiting(decl) = {}
FieldTypes(decl) == [i \in DOMAIN decl.fields |-> FieldType(decl.fields[i])]
Renamed(s, decl) == [s EXCEPT !.name = decl.name]

(* What becomes of the struct type s of the module m when it is filled. *)
Becomes(decl, m, s, new) ==
    \/ /\ structs[m][s].width # WIDTH_UNKNOWN
       /\ new = Renamed(structs[m][s], decl) /\ UNCHANGED <<requests, outcome>>
    \/ /\ structs[m][s].width = WIDTH_UNKNOWN /\ ~Ready(decl)
       /\ new = Renamed(structs[m][s], decl) /\ UNCHANGED outcome
       /\ requests' = requests \cup {Request(f, Struct(m, s), decl.name) : f \in Waiting(decl)}
    \/ /\ structs[m][s].width = WIDTH_UNKNOWN /\ Ready(decl)
       /\ new = ty_fill_width_align(Renamed(structs[m][s], decl), FieldTypes(decl))
       /\ UNCHANGED requests
       /\ outcome' = IF awaited(ctx.mod, decl.name) THEN "awaited" ELSE outcome

LEMMA FillBecomes ==
    ASSUME NEW decl, NEW m, NEW s, FillStruct(decl, Struct(m, s))
    PROVE  \E new : structs' = [structs EXCEPT ![m][s] = new] /\ Becomes(decl, m, s, new)
<1> DEFINE d == Struct(m, s)
<1>1. d.mod = m /\ d.idx = s /\ (ty_is_initialized(d) <=> structs[m][s].width # WIDTH_UNKNOWN)
  BY Distinct, Initialized
<1>2. CASE ty_is_initialized(d)
  <2>1. /\ structs' = [structs EXCEPT ![d.mod][d.idx] = Renamed(structs[d.mod][d.idx], decl)]
        /\ UNCHANGED <<requests, outcome>>
    BY <1>2 DEF FillStruct, Renamed
  <2> HIDE DEF d
  <2> QED
    BY <1>1, <1>2, <2>1 DEF Becomes
<1>3. CASE ~ty_is_initialized(d)
  <2> DEFINE new == IF Ready(decl)
                    THEN ty_fill_width_align(Renamed(structs[d.mod][d.idx], decl), FieldTypes(decl))
                    ELSE Renamed(structs[d.mod][d.idx], decl)
  <2>1. /\ structs' = [structs EXCEPT ![d.mod][d.idx] = new]
        /\ requests' = requests \cup {Request(f, d, decl.name) : f \in Waiting(decl)}
        /\ outcome' = IF Ready(decl) /\ awaited(ctx.mod, decl.name) THEN "awaited" ELSE outcome
    BY <1>3 DEF FillStruct, Renamed, Ready, Unknown, Waiting, Fields, FieldTypes
  <2>2. structs' = [structs EXCEPT ![m][s] = new]
    BY <1>1, <2>1
  <2>3. CASE Ready(decl)
    <3>1. requests' = requests
      BY <2>1, <2>3 DEF Ready
    <3>2. outcome' = IF awaited(ctx.mod, decl.name) THEN "awaited" ELSE outcome
      BY <2>1, <2>3
    <3>3. new = ty_fill_width_align(Renamed(structs[m][s], decl), FieldTypes(decl))
      BY <1>1, <2>3
    <3> HIDE DEF new, d
    <3> QED
      BY <1>1, <1>3, <2>2, <2>3, <3>1, <3>2, <3>3 DEF Becomes
  <2>4. CASE ~Ready(decl)
    <3>1. new = Renamed(structs[m][s], decl) /\ outcome' = outcome
      BY <1>1, <2>1, <2>4
    <3>2. requests' = requests \cup {Request(f, Struct(m, s), decl.name) : f \in Waiting(decl)}
      BY <2>1
    <3> HIDE DEF new, d
    <3> QED
      BY <1>1, <1>3, <2>2, <2>4, <3>1, <3>2 DEF Becomes
  <2> QED
    BY <2>3, <2>4
<1> QED
  BY <1>2, <1>3

(* The fields of a declaration that is ready have types with widths. *)
LEMMA ReadyTypes ==
    ASSUME IInv, Scoped, Sized, frames # <<>>, NEW decl, decl.fields \in Seq(Field), Ready(decl)
    PROVE  /\ DOMAIN FieldTypes(decl) = 1 .. Len(decl.fields) /\ Len(decl.fields) \in Nat
           /\ \A i \in 1 .. Len(decl.fields) :
                  /\ decl.fields[i] \in Field
                  /\ FieldTypes(decl)[i] = FieldType(decl.fields[i])
                  /\ typecheck_lookup_ident_mod(decl.fields[i]) # NULL /\ ~Waits(decl.fields[i])
                  /\ Usable(FieldTypes(decl)[i]) /\ ty_is_initialized(FieldTypes(decl)[i])
                  /\ width(FieldTypes(decl)[i]) \in Int /\ align(FieldTypes(decl)[i]) \in Int
<1>1. DOMAIN decl.fields = 1 .. Len(decl.fields) /\ Len(decl.fields) \in Nat
  OBVIOUS
<1>2. ASSUME NEW i \in 1 .. Len(decl.fields)
      PROVE  /\ decl.fields[i] \in Field
             /\ FieldTypes(decl)[i] = FieldType(decl.fields[i])
             /\ typecheck_lookup_ident_mod(decl.fields[i]) # NULL /\ ~Waits(decl.fields[i])
             /\ Usable(FieldTypes(decl)[i]) /\ ty_is_initialized(FieldTypes(decl)[i])
             /\ width(FieldTypes(decl)[i]) \in Int /\ align(FieldTypes(decl)[i]) \in Int
  <2> DEFINE f == decl.fields[i]
             t == FieldTypes(decl)[i]
  <2>1. i \in DOMAIN decl.fields /\ f \in Field
    BY <1>1
  <2>2. t = FieldType(f)
    BY <2>1 DEF FieldTypes
  <2>3. typecheck_lookup_ident_mod(f) # NULL
    BY <2>1 DEF Ready, Unknown
  <2>4. ~Waits(f)
    BY <2>1 DEF Ready, Waiting, Fields
  <2> HIDE DEF f
  <2>5. Usable(t) /\ ty_is_initialized(t)
    <3>1. CASE f.ptr
      <4>1. t = Ptr
        BY <2>2, <3>1 DEF FieldType
      <4> QED
        BY <4>1, Initialized DEF Usable
    <3>2. CASE ~f.ptr
      <4>1. t = typecheck_lookup_ident_mod(f)
        BY <2>2, <3>2 DEF FieldType
      <4>2. Usable(typecheck_lookup_ident_mod(f))
        BY <2>1, <2>3, FieldUsable
      <4> HIDE DEF t
      <4>3. ty_is_initialized(t)
        BY <2>3, <2>4, <3>2, <4>1 DEF Waits
      <4> QED
        BY <4>1, <4>2, <4>3
    <3> QED
      BY <3>1, <3>2
  <2> HIDE DEF t
  <2>6. width(t) \in Int /\ align(t) \in Int
    BY <2>5, UsableWidth DEF IInv
  <2> QED
    BY <2>1, <2>2, <2>3, <2>4, <2>5, <2>6 DEF f, t
<1>3. DOMAIN FieldTypes(decl) = 1 .. Len(decl.fields)
  BY <1>1 DEF FieldTypes
<1> QED
  BY <1>1, <1>2, <1>3

(* What ty_fill_width_align makes of a struct whose types have widths: the *)
(* sum of these, and an alignment that none of theirs exceeds unless the   *)
(* sum is negative.                                                        *)
LEMMA FillFacts ==
    ASSUME NEW n \in Nat, NEW types, DOMAIN types = 1 .. n,
           \A i \in 1 .. n : width(types[i]) \in Int /\ align(types[i]) \in Int,
           NEW s \in StructType, s.align = 0, s.width = WIDTH_UNKNOWN
    PROVE  LET new == ty_fill_width_align(s, types)
               w == Total([i \in DOMAIN types |-> width(types[i])])
           IN  /\ new \in StructType /\ new.name = s.name
               /\ w \in Int
               /\ (\A i \in 1 .. n : width(types[i]) >= 0) => w >= 0
               /\ w = WIDTH_UNKNOWN => new = s
               /\ w # WIDTH_UNKNOWN =>
                      /\ new.width = w
                      /\ w >= 0 => \A i \in 1 .. n : align(types[i]) <= new.align
<1> DEFINE ws == [i \in DOMAIN types |-> width(types[i])]
           as == [i \in DOMAIN types |-> align(types[i])]
           S == {0} \cup {align(types[i]) : i \in DOMAIN types}
           w == Total(ws)
           a == Max(S)
           new == ty_fill_width_align(s, types)
<1>1. DOMAIN ws = 1 .. n /\ Len(ws) = n /\ \A i \in 1 .. n : ws[i] = width(types[i]) /\ ws[i] \in Int
  OBVIOUS
<1>2. w \in Int /\ ((\A i \in 1 .. n : width(types[i]) >= 0) => w >= 0)
  <2> HIDE DEF ws
  <2> QED
    BY <1>1, TotalIs
<1>3. S = {0} \cup {as[i] : i \in 1 .. n} /\ \A i \in 1 .. n : as[i] \in Int /\ as[i] = align(types[i])
  OBVIOUS
<1>4. a \in S /\ \A y \in S : y <= a
  <2> HIDE DEF as, S
  <2> QED
    BY <1>3, Greatest
<1>5. a \in Int /\ a >= 0 /\ \A i \in 1 .. n : align(types[i]) <= a
  <2> HIDE DEF a, as
  <2>1. 0 \in S /\ \A i \in 1 .. n : align(types[i]) \in S
    OBVIOUS
  <2>2. S \subseteq Int
    OBVIOUS
  <2> HIDE DEF S
  <2> QED
    BY <1>4, <2>1, <2>2
<1>6. new = IF w = WIDTH_UNKNOWN THEN s ELSE [s EXCEPT !.width = w, !.align = IF a = 0 THEN w ELSE a]
  <2>1. ~(s.align > 0)
    OBVIOUS
  <2> QED
    BY <2>1 DEF ty_fill_width_align
<1> HIDE DEF ws, a, w, new
<1>7. s = [name |-> s.name, width |-> s.width, align |-> s.align] /\ s.name \in Names
  BY DEF StructType
<1>8. CASE w = WIDTH_UNKNOWN
  <2>1. new = s
    BY <1>6, <1>8
  <2> QED
    BY <1>2, <1>8, <2>1 DEF new, w, ws
<1>9. CASE w # WIDTH_UNKNOWN
  <2>1. new = [name |-> s.name, width |-> w, align |-> IF a = 0 THEN w ELSE a]
    BY <1>6, <1>7, <1>9
  <2>2. new \in StructType /\ new.name = s.name /\ new.width = w
    BY <1>2, <1>5, <1>7, <2>1 DEF StructType
  <2>3. ASSUME w >= 0, NEW i \in 1 .. n PROVE align(types[i]) <= new.align
    <3>1. CASE a = 0
      BY <1>2, <1>5, <2>1, <2>3, <3>1
    <3>2. CASE a # 0
      BY <1>5, <2>1, <3>2
    <3> QED
      BY <3>1, <3>2
  <2> QED
    BY <1>2, <1>9, <2>2, <2>3 DEF new, w, ws
<1> QED
  BY <1>8, <1>9

(* The width and the alignment of a struct type stay once they are known. *)
Frozen ==
    \A m \in Mods : \A s \in DOMAIN structs[m] :
        structs[m][s].width # WIDTH_UNKNOWN =>
            structs'[m][s].width = structs[m][s].width /\ structs'[m][s].align = structs[m][s].align

(* One struct type is replaced. *)
Replaced(m, s, new) ==
    /\ DOMAIN structs' = Mods
    /\ \A q \in Mods : DOMAIN structs'[q] = DOMAIN structs[q]
    /\ \A q \in Mods : structs'[q] = [r \in DOMAIN structs[q] |-> structs'[q][r]]
    /\ structs'[m][s] = new
    /\ \A q \in Mods : \A r \in DOMAIN structs[q] : q # m \/ r # s => structs'[q][r] = structs[q][r]

LEMMA Replacing ==
    ASSUME Sized, NEW m \in typed, Typing, NEW s \in StructStmts(m), NEW new,
           structs' = [structs EXCEPT ![m][s] = new]
    PROVE  Replaced(m, s, new)
<1>1. /\ DOMAIN structs = Mods /\ m \in Mods /\ DOMAIN structs[m] = StructStmts(m)
      /\ \A q \in Mods : structs[q] = [r \in DOMAIN structs[q] |-> structs[q][r]]
  BY StructFacts DEF Sized
<1>2. structs' = [structs EXCEPT ![m] = [structs[m] EXCEPT ![s] = new]]
  BY <1>1
<1>3. /\ DOMAIN structs' = Mods /\ structs'[m] = [structs[m] EXCEPT ![s] = new]
      /\ \A q \in Mods \ {m} : structs'[q] = structs[q]
  BY <1>1, <1>2
<1>4. /\ DOMAIN structs'[m] = DOMAIN structs[m] /\ structs'[m][s] = new
      /\ \A r \in DOMAIN structs[m] : r # s => structs'[m][r] = structs[m][r]
      /\ structs'[m] = [r \in DOMAIN structs[m] |-> structs'[m][r]]
  BY <1>1, <1>3
<1>5. \A q \in Mods : DOMAIN structs'[q] = DOMAIN structs[q]
  BY <1>3, <1>4
<1>6. \A q \in Mods : structs'[q] = [r \in DOMAIN structs[q] |-> structs'[q][r]]
  BY <1>1, <1>3, <1>4
<1>7. \A q \in Mods : \A r \in DOMAIN structs[q] : q # m \/ r # s => structs'[q][r] = structs[q][r]
  BY <1>3, <1>4
<1> QED
  BY <1>3, <1>4, <1>5, <1>6, <1>7 DEF Replaced

(* What checking a struct declaration does: the type of some struct of the *)
(* module is renamed, and gets its width if it had none and can.           *)
LEMMA StructChecked ==
    ASSUME IInv, Scoped, Sized, CheckStruct
    PROVE  \E s \in StructStmts(Top.mod) : \E new :
               /\ scope_lookup(Current.name) = Struct(Top.mod, s)
               /\ Becomes(Current, Top.mod, s, new)
               /\ Replaced(Top.mod, s, new)
               /\ new \in StructType /\ new.name = Current.name
               /\ new.width = WIDTH_UNKNOWN => new.align = 0
               /\ structs[Top.mod][s].width # WIDTH_UNKNOWN =>
                      /\ new.width = structs[Top.mod][s].width
                      /\ new.align = structs[Top.mod][s].align
<1> DEFINE m == Top.mod
           d == scope_lookup(Current.name)
<1>1. /\ At("struct") /\ d.kind = "struct" /\ FillStruct(Current, d)
  BY DEF CheckStruct
<1>2. /\ frames # <<>> /\ m \in Mods /\ m \in typed /\ ctx.mod = m
      /\ Current \in Stmt /\ Current.op = "struct"
  BY <1>1, CurrentFacts DEF At
<1>3. Current.name \in Names /\ Current.fields \in Seq(Field)
  BY <1>2, OpFacts
<1>4. Typing /\ LocalsOwn(ctx)
  BY DEF IInv, Scoped
<1>5. PICK s \in StructStmts(m) : d = Struct(m, s)
  <2>1. Local(m, d)
    BY <1>2, <1>3, <1>4, LookupLocal
  <2>2. d # NULL
    <3>1. PICK e : e = at[m]
      OBVIOUS
    <3>2. e \in StructStmts(m) /\ prog[m][e].name = Current.name
      BY <1>1, <1>2, <1>4, <3>1, CurrentFacts, BindsBound DEF Current
    <3>3. mod_s_lookup(m, Current.name) # NULL
      BY <1>2, <1>4, <3>2, ScopeFacts
    <3> QED
      BY <1>2, <3>3 DEF scope_lookup
  <2> HIDE DEF d
  <2> QED
    BY <1>1, <2>1, <2>2, Distinct DEF Local
<1>6. PICK new : structs' = [structs EXCEPT ![m][s] = new] /\ Becomes(Current, m, s, new)
  BY <1>1, <1>5, FillBecomes
<1> HIDE DEF d
<1>7. Replaced(m, s, new)
  BY <1>2, <1>4, <1>6, Replacing
<1> DEFINE old == structs[m][s]
           named == Renamed(old, Current)
<1>8. old \in StructType /\ (old.width = WIDTH_UNKNOWN => old.align = 0)
  BY <1>2, <1>4, StructFacts DEF Sized
<1> HIDE DEF old
<1>9. /\ named \in StructType /\ named.name = Current.name
      /\ named.width = old.width /\ named.align = old.align
  BY <1>3, <1>8 DEF StructType, Renamed
<1>10. CASE new = named
  BY <1>5, <1>6, <1>7, <1>8, <1>9, <1>10 DEF d, old
<1>11. CASE new # named
  <2>1. old.width = WIDTH_UNKNOWN /\ Ready(Current) /\ new = ty_fill_width_align(named, FieldTypes(Current))
    BY <1>6, <1>11 DEF Becomes, old
  <2> HIDE DEF named
  <2>2. PICK n \in Nat : n = Len(Current.fields)
    BY <1>3
  <2>3. DOMAIN FieldTypes(Current) = 1 .. n
    BY <1>2, <1>3, <2>1, <2>2, ReadyTypes
  <2>4. \A i \in 1 .. n : width(FieldTypes(Current)[i]) \in Int /\ align(FieldTypes(Current)[i]) \in Int
    BY <1>2, <1>3, <2>1, <2>2, ReadyTypes
  <2>5. named.align = 0 /\ named.width = WIDTH_UNKNOWN
    BY <1>8, <1>9, <2>1
  <2>6. PICK types : types = FieldTypes(Current)
    OBVIOUS
  <2>7. PICK w : w = Total([i \in DOMAIN types |-> width(types[i])])
    OBVIOUS
  <2>8. /\ new \in StructType /\ new.name = named.name
        /\ w = WIDTH_UNKNOWN => new = named
        /\ w # WIDTH_UNKNOWN => new.width = w
    BY <1>9, <2>1, <2>3, <2>4, <2>5, <2>6, <2>7, FillFacts
  <2>9. new.width = WIDTH_UNKNOWN => new.align = 0
    BY <2>5, <2>8
  <2> QED
    BY <1>5, <1>6, <1>7, <1>9, <2>1, <2>8, <2>9 DEF d, old
<1> QED
  BY <1>10, <1>11

-----------------------------------------------------------------------------
LEMMA QuietSized ==
    ASSUME Sized, UNCHANGED <<prog, typed, structs>>
    PROVE  Sized' /\ Frozen
BY DEF Sized, Frozen, StructStmts

LEMMA EnterSized ==
    ASSUME IInv, Sized, NEW m \in Mods \ typed, NEW saved, Enter(m, saved), UNCHANGED prog
    PROVE  Sized' /\ Frozen
<1>1. typed' = typed \cup {m} /\ structs' = [structs EXCEPT ![m] = typecheck_make_mod_type(m)]
  BY DEF Enter
<1>2. typecheck_make_mod_type(m) \in [StructStmts(m) -> StructType]
  <2>1. \A s \in StructStmts(m) : prog[m][s].name \in Names
    BY StructStmtsFacts DEF IInv
  <2> QED
    BY <2>1 DEF typecheck_make_mod_type, StructType, WIDTH_UNKNOWN
<1>3. /\ DOMAIN structs' = Mods /\ structs'[m] = typecheck_make_mod_type(m)
      /\ \A q \in Mods \ {m} : structs'[q] = structs[q]
  BY <1>1 DEF Sized
<1>4. DOMAIN structs[m] = {}
  BY DEF Sized
<1>5. \A q \in Mods : StructStmts(q)' = StructStmts(q)
  BY DEF StructStmts
<1>6. \A q \in Mods : structs'[q] \in [IF q \in typed' THEN StructStmts(q) ELSE {} -> StructType]
  <2> SUFFICES ASSUME NEW q \in Mods
               PROVE  structs'[q] \in [IF q \in typed' THEN StructStmts(q) ELSE {} -> StructType]
    OBVIOUS
  <2>1. CASE q = m
    BY <1>1, <1>2, <1>3, <2>1
  <2>2. CASE q # m
    <3>1. q \in typed' <=> q \in typed
      BY <1>1, <2>2
    <3> QED
      BY <1>3, <2>2, <3>1 DEF Sized
  <2> QED
    BY <2>1, <2>2
<1>7. \A q \in typed' : \A s \in StructStmts(q) :
          structs'[q][s].width = WIDTH_UNKNOWN => structs'[q][s].align = 0
  <2>1. \A s \in StructStmts(m) : structs'[m][s].align = 0
    BY <1>3 DEF typecheck_make_mod_type
  <2>2. typed \subseteq Mods
    BY DEF IInv, Typing
  <2> QED
    BY <1>1, <1>3, <2>1, <2>2 DEF Sized
<1>8. Sized'
  <2>1. typed' \subseteq Mods
    BY <1>1 DEF IInv, Typing
  <2>2. \A q \in typed' : \A s \in StructStmts(q)' :
            structs'[q][s].width = WIDTH_UNKNOWN => structs'[q][s].align = 0
    BY <1>5, <1>7, <2>1
  <2>3. \A q \in Mods : structs'[q] \in [IF q \in typed' THEN StructStmts(q)' ELSE {} -> StructType]
    BY <1>5, <1>6
  <2> QED
    BY <1>3, <2>2, <2>3 DEF Sized
<1>9. Frozen
  BY <1>3, <1>4 DEF Frozen
<1> QED
  BY <1>8, <1>9

LEMMA StructSized ==
    ASSUME IInv, Scoped, Sized, CheckStruct
    PROVE  Sized' /\ Frozen
<1> DEFINE m == Top.mod
<1>1. PICK s \in StructStmts(m) : \E new :
          /\ Replaced(m, s, new) /\ new \in StructType
          /\ new.width = WIDTH_UNKNOWN => new.align = 0
          /\ structs[m][s].width # WIDTH_UNKNOWN =>
                 new.width = structs[m][s].width /\ new.align = structs[m][s].align
  BY StructChecked
<1>2. PICK new :
          /\ Replaced(m, s, new) /\ new \in StructType
          /\ new.width = WIDTH_UNKNOWN => new.align = 0
          /\ structs[m][s].width # WIDTH_UNKNOWN =>
                 new.width = structs[m][s].width /\ new.align = structs[m][s].align
  BY <1>1
<1>3. m \in typed /\ typed \subseteq Mods /\ UNCHANGED <<prog, typed>>
  BY CurrentFacts DEF CheckStruct, IInv, Typing
<1> HIDE DEF m
<1>4. \A q \in Mods : StructStmts(q)' = StructStmts(q)
  BY <1>3 DEF StructStmts
<1>5. \A q \in Mods : DOMAIN structs[q] = IF q \in typed THEN StructStmts(q) ELSE {}
  BY DEF Sized
<1>6. \A q \in Mods : \A r \in DOMAIN structs[q] : structs'[q][r] \in StructType
  BY <1>2 DEF Sized, Replaced
<1>7. \A q \in Mods : structs'[q] \in [IF q \in typed THEN StructStmts(q) ELSE {} -> StructType]
  <2> SUFFICES ASSUME NEW q \in Mods
               PROVE  structs'[q] \in [DOMAIN structs[q] -> StructType]
    BY <1>5
  <2> QED
    BY <1>2, <1>6 DEF Replaced
<1>8. \A q \in typed : \A r \in StructStmts(q) :
          structs'[q][r].width = WIDTH_UNKNOWN => structs'[q][r].align = 0
  BY <1>2, <1>3, <1>5 DEF Sized, Replaced
<1>9. Sized'
  <2>1. DOMAIN structs' = Mods
    BY <1>2 DEF Replaced
  <2> QED
    BY <1>3, <1>4, <1>7, <1>8, <2>1 DEF Sized, WIDTH_UNKNOWN
<1>10. Frozen
  BY <1>2 DEF Frozen, Replaced
<1> QED
  BY <1>9, <1>10

LEMMA InitSized == Init => Sized
BY DEF Init, Sized

LEMMA StepSized == IInv /\ Scoped /\ Sized /\ [Next]_vars => Sized' /\ Frozen
<1> SUFFICES ASSUME IInv, Scoped, Sized, [Next]_vars PROVE Sized' /\ Frozen
  OBVIOUS
<1>1. CASE EnterModule
  <2> DEFINE m == order[pos + 1]
  <2>1. m \in Mods \ typed
    <3>1. pos + 1 \in 1 .. Len(order) /\ order \in Seq(Mods)
      BY <1>1, OrderFacts DEF EnterModule, IInv, Typing
    <3> QED
      BY <1>1, <3>1 DEF EnterModule
  <2>2. Enter(m, typecheck_empty_ctx) /\ UNCHANGED prog
    BY <1>1 DEF EnterModule
  <2> HIDE DEF m
  <2> QED
    BY <2>1, <2>2, EnterSized
<1>2. CASE ImportUnchecked
  <2> DEFINE m == KeyMod[Current.path]
  <2>1. m \in Mods \ typed
    BY <1>2, ImportFacts DEF ImportUnchecked
  <2>2. Enter(m, typecheck_add_import_alias(ctx, Current.path, m)) /\ UNCHANGED prog
    BY <1>2 DEF ImportUnchecked
  <2> HIDE DEF m
  <2> QED
    BY <2>1, <2>2, EnterSized
<1>3. CASE CheckStruct
  BY <1>3, StructSized
<1>4. CASE UNCHANGED <<prog, typed, structs>>
  BY <1>4, QuietSized
<1>5. \/ EnterModule \/ ImportUnchecked \/ CheckStruct
      \/ SkipModule \/ Finish \/ LeaveModule \/ LeaveImport \/ ImportChecked \/ ImportNotFound
      \/ GoesWrong \/ CheckLet \/ CheckExpr \/ CheckOther \/ Stopped
      \/ UNCHANGED vars
  BY DEF Next, GoesWrong
<1>6. \/ EnterModule \/ ImportUnchecked \/ CheckStruct \/ UNCHANGED <<prog, typed, structs>>
  BY <1>5, WrongQuiet DEF SkipModule, Finish, LeaveModule, LeaveImport, ImportChecked, ImportNotFound,
              CheckLet, CheckExpr, CheckOther, Stopped, vars
<1> QED
  BY <1>1, <1>2, <1>3, <1>4, <1>6

(* What the checker has written down: requests and errors. *)
Error == [text : ErrorTexts \cup {NULL}, mod : Mods, stmt : Nat]
Logged == requests \subseteq Mods \X Names /\ errors \in Seq(Error)

Framed == \A k \in DOMAIN frames : frames[k] = [mod |-> frames[k].mod, saved |-> frames[k].saved]

LEMMA Requested ==
    ASSUME IInv, Scoped, Sized, frames # <<>>, NEW f \in Field, Waits(f), NEW d, NEW n \in Names
    PROVE  Request(f, d, n) \in typed \X Names
<1>1. PICK q \in typed : \E s \in StructStmts(q) :
          /\ typecheck_lookup_ident_mod(f) = Struct(q, s)
          /\ structs[q][s].width = WIDTH_UNKNOWN
          /\ q = IF f.qual = NULL THEN ctx.mod ELSE ctx.aliases[f.qual]
  BY WaitsFor
<1>2. PICK s \in StructStmts(q) :
          /\ typecheck_lookup_ident_mod(f) = Struct(q, s)
          /\ q = IF f.qual = NULL THEN ctx.mod ELSE ctx.aliases[f.qual]
  BY <1>1
<1>3. structs[q][s].name \in Names
  BY StructFacts DEF IInv
<1>4. Struct(q, s).mod = q /\ Struct(q, s).idx = s
  BY Distinct
<1>5. Request(f, d, n) = <<q, IF Struct(q, s) = d THEN n ELSE structs[q][s].name>>
  BY <1>2, <1>4 DEF Request
<1> QED
  BY <1>3, <1>5

LEMMA PushLogged ==
    ASSUME IInv, errors \in Seq(Error), NEW op, At(op), NEW text \in ErrorTexts \cup {NULL},
           push_error(text)
    PROVE  errors' \in Seq(Error)
<1>1. Top.mod \in Mods /\ at[Top.mod] \in Nat
  BY CurrentFacts
<1>2. [text |-> text, mod |-> Top.mod, stmt |-> at[Top.mod]] \in Error
  BY <1>1 DEF Error
<1> QED
  BY <1>2, AppendProperties DEF push_error

LEMMA StepLogged == IInv /\ Scoped /\ Sized /\ Logged /\ [Next]_vars => Logged'
<1> SUFFICES ASSUME IInv, Scoped, Sized, Logged, [Next]_vars PROVE Logged'
  OBVIOUS
<1>0. requests \subseteq Mods \X Names /\ errors \in Seq(Error)
  BY DEF Logged
<1>1. CASE CheckStruct
  <2>1. errors' = errors
    BY <1>1 DEF CheckStruct
  <2>2. At("struct") /\ frames # <<>>
    BY <1>1 DEF CheckStruct, At
  <2>3. Current.name \in Names /\ Current.fields \in Seq(Field)
    BY <2>2, CurrentFacts, OpFacts
  <2>4. PICK s \in StructStmts(Top.mod) : \E new : Becomes(Current, Top.mod, s, new)
    BY <1>1, StructChecked
  <2>5. CASE requests' = requests
    BY <1>0, <2>1, <2>5 DEF Logged, Error
  <2>6. CASE requests' = requests \cup {Request(f, Struct(Top.mod, s), Current.name) : f \in Waiting(Current)}
    <3>1. typed \subseteq Mods
      BY DEF IInv, Typing
    <3>2. PICK d : d = Struct(Top.mod, s)
      OBVIOUS
    <3>7. PICK n \in Names : n = Current.name
      BY <2>3
    <3>3. \A f \in Waiting(Current) : f \in Field /\ Waits(f)
      BY <2>3 DEF Waiting, Fields
    <3>4. \A f \in Waiting(Current) : Request(f, d, n) \in typed \X Names
      BY <2>2, <3>3, Requested
    <3>5. requests' = requests \cup {Request(f, d, n) : f \in Waiting(Current)}
      BY <2>6, <3>2, <3>7
    <3>6. requests' \subseteq Mods \X Names
      BY <1>0, <3>1, <3>4, <3>5
    <3> QED
      BY <1>0, <2>1, <3>6 DEF Logged, Error
  <2> QED
    BY <2>4, <2>5, <2>6 DEF Becomes
<1>2. CASE ImportNotFound
  <2> DEFINE m == Top.mod
             p == Current.path
             text == NotFoundText(m, p)
  <2>1. At("import") /\ push_error(text) /\ requests' = requests
    BY <1>2 DEF ImportNotFound
  <2>2. m \in Mods /\ p \in Names
    BY <2>1, CurrentFacts, ImportFacts
  <2>3. text \in ErrorTexts \cup {NULL}
    <3>1. PICK q \in Mods \cup {Absent, Other} : q = AbsMod[m][p]
      BY <2>2, AbsModAssumption
    <3> QED
      BY <3>1 DEF NotFoundText, ErrorTexts
  <2> HIDE DEF text
  <2>4. errors' \in Seq(Error)
    BY <1>0, <2>1, <2>3, PushLogged
  <2> QED
    BY <1>0, <2>1, <2>4 DEF Logged, Error
<1>3. CASE CheckLet \/ CheckExpr
  <2>1. PICK op \in {"let", "expr"} : At(op)
    BY <1>3 DEF CheckLet, CheckExpr
  <2>2. requests' = requests /\ (push_error("cannot be accessed") \/ errors' = errors)
    BY <1>3 DEF CheckLet, CheckExpr
  <2>3. CASE push_error("cannot be accessed")
    <3>1. errors' \in Seq(Error)
      BY <1>0, <2>1, <2>3, PushLogged DEF ErrorTexts
    <3> QED
      BY <1>0, <2>2, <3>1 DEF Logged, Error
  <2>4. CASE errors' = errors
    BY <1>0, <2>2, <2>4 DEF Logged, Error
  <2> QED
    BY <2>2, <2>3, <2>4
<1>4. CASE UNCHANGED <<requests, errors>>
  BY <1>0, <1>4 DEF Logged, Error
<1>5. \/ CheckStruct \/ ImportNotFound \/ CheckLet \/ CheckExpr
      \/ EnterModule \/ SkipModule \/ Finish \/ LeaveModule \/ LeaveImport \/ ImportChecked
      \/ ImportUnchecked \/ GoesWrong \/ CheckOther \/ Stopped
      \/ UNCHANGED vars
  BY DEF Next, GoesWrong
<1>6. \/ CheckStruct \/ ImportNotFound \/ CheckLet \/ CheckExpr \/ UNCHANGED <<requests, errors>>
  BY <1>5, WrongQuiet DEF EnterModule, SkipModule, Finish, LeaveModule, LeaveImport, ImportChecked,
              ImportUnchecked, CheckOther, Stopped, vars
<1> QED
  BY <1>1, <1>2, <1>3, <1>4, <1>6

LEMMA StepFramed == IInv /\ Framed /\ [Next]_vars => Framed'
<1> SUFFICES ASSUME IInv, Framed, [Next]_vars PROVE Framed'
  OBVIOUS
<1>0. IsSeq(frames)
  BY DEF IInv, Typing
<1>1. ASSUME NEW m, NEW saved, frames' = Append(frames, [mod |-> m, saved |-> saved])
      PROVE  Framed'
  <2>1. PICK e : e = [mod |-> m, saved |-> saved]
    OBVIOUS
  <2>2. e = [mod |-> e.mod, saved |-> e.saved] /\ frames' = Append(frames, e)
    BY <1>1, <2>1
  <2>3. /\ IsSeq(frames') /\ Len(frames') = Len(frames) + 1 /\ frames'[Len(frames) + 1] = e
        /\ \A k \in 1 .. Len(frames) : frames'[k] = frames[k]
    BY <1>0, <2>2, PushFacts
  <2>4. DOMAIN frames = 1 .. Len(frames) /\ Len(frames) \in Nat /\ DOMAIN frames' = 1 .. Len(frames) + 1
    BY <1>0, <2>3, SeqFacts
  <2> SUFFICES ASSUME NEW k \in DOMAIN frames'
               PROVE  frames'[k] = [mod |-> frames'[k].mod, saved |-> frames'[k].saved]
    BY DEF Framed
  <2>5. CASE k = Len(frames) + 1
    BY <2>2, <2>3, <2>5
  <2>6. CASE k # Len(frames) + 1
    <3>1. k \in DOMAIN frames
      BY <2>4, <2>6
    <3> QED
      BY <2>3, <2>4, <3>1 DEF Framed
  <2> QED
    BY <2>5, <2>6
<1>2. ASSUME Len(frames) > 0, frames' = SubSeq(frames, 1, Len(frames) - 1)
      PROVE  Framed'
  <2>1. \A k \in DOMAIN frames' : frames'[k] = frames[k] /\ k \in DOMAIN frames
    BY <1>0, <1>2, SeqFacts, PopFacts
  <2> QED
    BY <2>1 DEF Framed
<1>3. CASE EnterModule
  BY <1>1, <1>3 DEF EnterModule, Enter
<1>4. CASE ImportUnchecked
  BY <1>1, <1>4 DEF ImportUnchecked, Enter
<1>5. CASE LeaveModule \/ LeaveImport
  <2>1. Len(frames) \in Nat /\ (Len(frames) = 1 \/ Len(frames) > 1)
        /\ frames' = SubSeq(frames, 1, Len(frames) - 1)
    BY <1>0, <1>5, SeqFacts DEF LeaveModule, LeaveImport
  <2>2. Len(frames) > 0
    BY <2>1
  <2> QED
    BY <1>2, <2>1, <2>2
<1>6. CASE UNCHANGED frames
  BY <1>6 DEF Framed
<1>7. \/ EnterModule \/ ImportUnchecked \/ LeaveModule \/ LeaveImport
      \/ SkipModule \/ Finish \/ ImportChecked \/ ImportNotFound \/ GoesWrong
      \/ CheckStruct \/ CheckLet \/ CheckExpr \/ CheckOther
      \/ Stopped \/ UNCHANGED vars
  BY DEF Next, GoesWrong
<1>8. EnterModule \/ ImportUnchecked \/ LeaveModule \/ LeaveImport \/ UNCHANGED frames
  BY <1>7, WrongQuiet DEF SkipModule, Finish, ImportChecked, ImportNotFound,
              CheckStruct, CheckLet, CheckExpr, CheckOther, Stopped, vars
<1> QED
  BY <1>3, <1>4, <1>5, <1>6, <1>8

THEOREM Sizing == Spec => [](IInv /\ Scoped /\ Sized /\ Logged /\ Framed)
<1>1. Init => Scoped /\ Sized /\ Logged /\ Framed
  BY InitScoped, InitSized DEF Init, Logged, Framed
<1>2. IInv /\ Scoped /\ Sized /\ Logged /\ Framed /\ [Next]_vars
          => (Scoped /\ Sized /\ Logged /\ Framed)'
  BY StepScoped, StepSized, StepLogged, StepFramed
<1> QED
  BY <1>1, <1>2, Invariant, PTL DEF Spec

(* No step changes a width that is known (ty.c:263-294,                    *)
(* typecheck.c:353-404).                                                   *)
THEOREM WidthsFrozen == Spec => WidthFrozen
<1>1. IInv /\ Scoped /\ Sized /\ [Next]_vars =>
        [\A m \in Mods : \A k \in DOMAIN structs[m] :
             structs[m][k].width # WIDTH_UNKNOWN => structs'[m][k].width = structs[m][k].width]_vars
  BY StepSized DEF Frozen
<1> QED
  BY <1>1, Sizing, PTL DEF Spec, WidthFrozen

(* Every variable has the type it is declared with: names are bound to     *)
(* types, a struct type is that of a declaration and its numbers are       *)
(* integers, requests name modules, errors statements.                     *)
THEOREM TypeCorrect == Spec => []TypeOK
<1>1. ASSUME Typing, NEW c, IsContext(c), LocalsOwn(c)
      PROVE  c \in Context
  <2>1. CASE c.mod \in Mods
    <3>1. \A n \in Names : c.locals[n] \in Type \cup {NULL}
      BY <1>1, <2>1, LocalType DEF LocalsOwn
    <3> QED
      BY <1>1, <3>1 DEF IsContext, LocalsOwn, Context
  <2>2. CASE c.mod = NULL
    <3>1. \A n \in Names : c.locals[n] \in Type \cup {NULL}
      <4> SUFFICES ASSUME NEW n \in Names PROVE c.locals[n] \in Type \cup {NULL}
        OBVIOUS
      <4>1. \/ c.locals[n] \in {NULL, I32, String}
            \/ \E i \in Mods : c.locals[n] = Mod(i)
        BY <1>1, <2>2, NullAssumption DEF LocalsOwn, Local
      <4>2. \A i \in Mods : Mod(i) \in Type
        BY DEF Type, Mod
      <4> QED
        BY <4>1, <4>2 DEF Type
    <3> QED
      BY <1>1, <3>1 DEF IsContext, LocalsOwn, Context
  <2> QED
    BY <1>1, <2>1, <2>2 DEF IsContext
<1>2. IInv /\ Scoped /\ Sized /\ Logged /\ Framed => TypeOK
  <2> SUFFICES ASSUME IInv, Scoped, Sized, Logged, Framed PROVE TypeOK
    OBVIOUS
  <2>1. /\ prog \in [Mods -> Seq(Stmt)] /\ pos \in 0 .. Len(order) /\ order \in Seq(Mods)
        /\ at \in [Mods -> Nat \ {0}] /\ typed \subseteq Mods
        /\ outcome \in {"running", "done"} \cup Undefined
    BY OrderFacts DEF IInv, Typing
  <2>2. ctx \in Context
    BY <1>1 DEF IInv, Typing, Scoped
  <2>3. frames \in Seq([mod : Mods, saved : Context])
    <3>1. \A k \in DOMAIN frames : frames[k].mod \in Mods /\ frames[k].saved \in Context
      BY <1>1 DEF IInv, Typing, Scoped
    <3>2. \A k \in DOMAIN frames : frames[k] \in [mod : Mods, saved : Context]
      BY <3>1 DEF Framed
    <3>3. PICK S : frames \in Seq(S)
      BY DEF IInv, Typing, IsSeq
    <3>4. Len(frames) \in Nat /\ DOMAIN frames = 1 .. Len(frames)
          /\ frames = [k \in 1 .. Len(frames) |-> frames[k]]
      BY <3>3
    <3>5. PICK n \in Nat : n = Len(frames)
      BY <3>4
    <3>6. frames \in [1 .. n -> [mod : Mods, saved : Context]]
      BY <3>2, <3>4, <3>5
    <3>7. PICK F : F = [mod : Mods, saved : Context]
      OBVIOUS
    <3>8. frames \in Seq(F)
      <4>1. frames \in [1 .. n -> F]
        BY <3>6, <3>7
      <4>2. Seq(F) = UNION {[1 .. i -> F] : i \in Nat}
        BY SeqDef
      <4> QED
        BY <4>1, <4>2, Zenon
    <3> QED
      BY <3>7, <3>8
  <2>4. DOMAIN structs = Mods
        /\ \A m \in Mods : structs[m] \in [IF m \in typed THEN StructStmts(m) ELSE {} -> StructType]
    BY DEF Sized
  <2>5. /\ requests \subseteq Mods \X Names
        /\ errors \in Seq([text : ErrorTexts \cup {NULL}, mod : Mods, stmt : Nat])
    BY DEF Logged, Error
  <2> QED
    BY <2>1, <2>2, <2>3, <2>4, <2>5 DEF TypeOK
<1> QED
  BY <1>2, Sizing, PTL

(* A step enters a module, checks a struct, or leaves the structs and the  *)
(* requests alone.                                                         *)
Entering == \E m \in Mods \ typed : \E saved : Enter(m, saved)
Quiet ==
    /\ UNCHANGED <<typed, structs, requests>>
    /\ \A q \in Mods : \/ at'[q] = at[q]
                       \/ at'[q] = at[q] + 1 /\ prog[q][at[q]].op # "struct"

LEMMA StatementQuiet ==
    ASSUME IInv, NEW op, op # "struct", At(op), Next_stmt, UNCHANGED <<typed, structs, requests>>
    PROVE  Quiet
<1>1. PICK t : t = Top.mod
  OBVIOUS
<1>2. /\ at'[t] = at[t] + 1
      /\ \A m \in Mods \ {t} : at'[m] = at[m]
      /\ prog[t][at[t]] = Current /\ Current.op = op
  BY <1>1, NextStmt
<1> QED
  BY <1>2 DEF Quiet

LEMMA StepKinds ==
    ASSUME IInv, Scoped, [Next]_vars
    PROVE  /\ prog' = prog
           /\ \/ Entering /\ UNCHANGED <<requests, outcome>>
              \/ CheckStruct
              \/ Quiet /\ (GoesWrong \/ outcome' = outcome \/ outcome' = "done")
           /\ outcome' # outcome => outcome = "running"
<1>1. prog' = prog /\ (outcome' # outcome => outcome = "running")
  <2>1. outcome' # outcome => outcome = "running"
    BY WrongQuiet DEF Next, GoesWrong, vars, EnterModule, SkipModule, Finish, LeaveModule, LeaveImport, ImportChecked,
           ImportUnchecked, ImportNotFound, CheckStruct, CheckLet,
           CheckExpr, CheckOther, Stopped, Visiting, At
  <2>2. prog' = prog
    BY WrongQuiet DEF Next, GoesWrong, vars, EnterModule, SkipModule, Finish, LeaveModule, LeaveImport, ImportChecked,
           ImportUnchecked, ImportNotFound, CheckStruct, CheckLet,
           CheckExpr, CheckOther, Stopped
  <2> QED
    BY <2>1, <2>2
<1>2. CASE EnterModule
  <2>1. pos + 1 \in 1 .. Len(order) /\ order \in Seq(Mods)
    BY <1>2, OrderFacts DEF EnterModule, IInv, Typing
  <2>2. order[pos + 1] \in Mods \ typed
    BY <1>2, <2>1 DEF EnterModule
  <2>3. Enter(order[pos + 1], typecheck_empty_ctx) /\ UNCHANGED <<requests, outcome>>
    BY <1>2 DEF EnterModule
  <2> QED
    BY <1>1, <2>2, <2>3 DEF Entering
<1>3. CASE ImportUnchecked
  <2>1. KeyMod[Current.path] \in Mods \ typed
    BY <1>3, ImportFacts DEF ImportUnchecked
  <2>2. \E saved : Enter(KeyMod[Current.path], saved)
    BY <1>3 DEF ImportUnchecked
  <2>3. UNCHANGED <<requests, outcome>>
    BY <1>3 DEF ImportUnchecked
  <2> QED
    BY <1>1, <2>1, <2>2, <2>3 DEF Entering
<1>4. CASE LeaveImport
  <2> DEFINE i == Top.saved.mod
  <2>1. /\ Len(frames) \in Nat /\ Len(frames) > 1 /\ DOMAIN frames = 1 .. Len(frames) /\ frames # <<>>
        /\ at' = [at EXCEPT ![i] = @ + 1]
        /\ UNCHANGED <<typed, structs, requests, outcome>>
    BY <1>4, SeqFacts DEF LeaveImport, IInv, Typing
  <2>2. /\ Len(frames) - 1 \in DOMAIN frames /\ Len(frames) - 1 < Len(frames)
        /\ i = frames[Len(frames) - 1].mod /\ i \in Mods
    BY <2>1, Below DEF Top
  <2>3. prog[i][at[i]].op = "import"
    BY <2>2 DEF Scoped
  <2> HIDE DEF i
  <2>4. \A q \in Mods : at'[q] = IF q = i THEN at[q] + 1 ELSE at[q]
    BY <2>1 DEF IInv, Typing
  <2>5. Quiet
    BY <2>1, <2>3, <2>4 DEF Quiet
  <2> QED
    BY <1>1, <2>1, <2>5
<1>5. CASE \/ SkipModule \/ Finish \/ LeaveModule \/ GoesWrong \/ Stopped
           \/ UNCHANGED vars
  <2>1. UNCHANGED <<at, typed, structs, requests>>
    BY <1>5, WrongQuiet DEF SkipModule, Finish, LeaveModule, Stopped, vars
  <2>2. \/ GoesWrong \/ outcome' = outcome \/ outcome' = "done"
    BY <1>5 DEF SkipModule, Finish, LeaveModule, Stopped, vars
  <2> QED
    BY <1>1, <2>1, <2>2 DEF Quiet
<1>6. CASE ImportChecked \/ ImportNotFound \/ CheckLet \/ CheckExpr \/ CheckOther
  <2>1. PICK op \in {"import", "let", "expr", "other"} : At(op)
    BY <1>6 DEF ImportChecked, ImportNotFound, CheckLet, CheckExpr, CheckOther
  <2>2. Next_stmt /\ UNCHANGED <<typed, structs, requests>> /\ outcome' = outcome
    BY <1>6 DEF ImportChecked, ImportNotFound, CheckLet, CheckExpr, CheckOther
  <2>3. Quiet
    BY <2>1, <2>2, StatementQuiet
  <2> QED
    BY <1>1, <2>2, <2>3
<1>7. CASE CheckStruct
  BY <1>1, <1>7
<1> QED
  BY <1>2, <1>3, <1>4, <1>5, <1>6, <1>7 DEF Next, GoesWrong

(* A module that has a type keeps it, and its check goes on. *)
LEMMA Onward ==
    ASSUME IInv, Scoped, [Next]_vars
    PROVE  prog' = prog /\ typed \subseteq typed' /\ \A q \in typed : at'[q] >= at[q]
<1>1. prog' = prog /\ typed \subseteq Mods /\ at \in [Mods -> Nat \ {0}]
  BY StepKinds DEF IInv, Typing
<1>2. CASE Entering
  <2>1. PICK m \in Mods \ typed : \E saved : Enter(m, saved)
    BY <1>2 DEF Entering
  <2>2. typed' = typed \cup {m} /\ at' = [at EXCEPT ![m] = 1]
    BY <2>1 DEF Enter
  <2> QED
    BY <1>1, <2>1, <2>2
<1>3. CASE CheckStruct
  <2>1. At("struct") /\ Next_stmt /\ typed' = typed
    BY <1>3 DEF CheckStruct
  <2>2. PICK t : t = Top.mod
    OBVIOUS
  <2>3. at'[t] = at[t] + 1 /\ \A m \in Mods \ {t} : at'[m] = at[m]
    BY <2>1, <2>2, NextStmt
  <2> QED
    BY <1>1, <2>1, <2>3
<1>4. CASE Quiet
  BY <1>1, <1>4 DEF Quiet
<1> QED
  BY <1>2, <1>3, <1>4, StepKinds

-----------------------------------------------------------------------------
(* In a plain module a name in a declaration stands for what it is         *)
(* declared as.                                                            *)
LEMMA PlainCurrent ==
    ASSUME IInv, Scoped, At("struct"), NEW m, m = Top.mod, Plain(m)
    PROVE  /\ at[m] \in StructStmts(m) /\ prog[m][at[m]] = Current
           /\ scope_lookup(Current.name) = Struct(m, at[m])
<1>1. /\ Top.mod \in Mods /\ m \in Mods /\ ctx.mod = m
      /\ at[m] \in 1 .. Len(prog[m]) /\ Current.op = "struct" /\ prog[m][at[m]] = Current
  BY CurrentFacts DEF Current
<1>2. PICK s : s = at[m]
  OBVIOUS
<1>3. Typing /\ LocalsOwn(ctx)
  BY DEF IInv, Scoped
<1>4. s \in StructStmts(m) /\ prog[m][s] = Current
  BY <1>1, <1>2, <1>3, BindsBound
<1>5. Current.name \in Names /\ Current.name \notin BoundNames(m)
  BY <1>1, <1>3, <1>4, StructStmtsFacts DEF Plain
<1>6. ctx.locals[Current.name] = NULL
  BY <1>1, <1>3, <1>5 DEF LocalsOwn
<1>7. mod_s_lookup(m, Current.name) = Struct(m, s) /\ Struct(m, s) # NULL
  BY <1>1, <1>3, <1>4, PlainScope, StructStmtsFacts
<1> QED
  BY <1>1, <1>2, <1>4, <1>6, <1>7 DEF scope_lookup

LEMMA PlainField ==
    ASSUME IInv, Scoped, At("struct"), NEW m, m = Top.mod, Plain(m),
           NEW f \in FieldsAt(m, at[m])
    PROVE  /\ f \in Field
           /\ f.qual = NULL => ctx.locals[f.name] = NULL
           /\ typecheck_lookup_ident_mod(f) # NULL => FieldType(f) = Declared(m, f)
           /\ typecheck_lookup_ident_mod(f) # NULL =>
                  \/ f.qual = NULL /\ f.name = i32 /\ typecheck_lookup_ident_mod(f) = I32
                  \/ f.qual = NULL /\ typecheck_lookup_ident_mod(f) = mod_s_lookup(m, f.name)
                  \/ f.qual # NULL /\ typecheck_lookup_ident_mod(f) = mod_s_lookup(KeyMod[f.qual], f.name)
<1>1. /\ m \in Mods /\ ctx.mod = m /\ frames # <<>>
      /\ at[m] \in StructStmts(m)
  BY CurrentFacts, PlainCurrent DEF At
<1>2. Typing /\ LocalsOwn(ctx)
  BY DEF IInv, Scoped
<1>3. f \in Field
  <2>1. prog[m][at[m]].fields \in Seq(Field)
    BY <1>1, <1>2, StructStmtsFacts
  <2> QED
    BY <2>1 DEF FieldsAt
<1>4. f.qual \in Names \cup {NULL} /\ f.name \in Names
  BY <1>3 DEF Field
<1>5. ASSUME f.qual = NULL PROVE ctx.locals[f.name] = NULL
  <2>1. f.name \notin BoundNames(m)
    BY <1>1, <1>5 DEF Plain
  <2> QED
    BY <1>1, <1>2, <1>4, <2>1 DEF LocalsOwn
<1>6. CASE f.qual = NULL
  <2>1. f.name = i32 => mod_s_lookup(m, f.name) = NULL
    <3> SUFFICES ASSUME f.name = i32 PROVE mod_s_lookup(m, i32) = NULL
      OBVIOUS
    <3>1. \A s \in StructStmts(m) : prog[m][s].name # i32
      BY DEF Plain
    <3> QED
      BY <1>1, <1>2, <3>1, ScopeFacts
  <2>2. typecheck_lookup_ident_mod(f) =
            IF mod_s_lookup(m, f.name) # NULL THEN mod_s_lookup(m, f.name)
            ELSE IF f.name = i32 THEN I32 ELSE NULL
    BY <1>1, <1>5, <1>6 DEF typecheck_lookup_ident_mod, scope_lookup
  <2> QED
    BY <1>3, <1>5, <1>6, <2>1, <2>2 DEF FieldType, Declared
<1>7. CASE f.qual # NULL
  <2>1. typecheck_lookup_ident_mod(f) # NULL =>
            typecheck_lookup_ident_mod(f) = mod_s_lookup(KeyMod[f.qual], f.name)
    BY <1>1, <1>3, <1>7, FieldUsable
  <2> QED
    BY <1>3, <1>7, <2>1 DEF FieldType, Declared
<1> QED
  BY <1>6, <1>7

(* What checking a declaration of a plain module does. *)
Filled(m, s, new) ==
    /\ m \in typed /\ s \in StructStmts(m) /\ s = at[m] /\ prog[m][s] = Current
    /\ at'[m] = s + 1 /\ \A q \in Mods \ {m} : at'[q] = at[q]
    /\ Becomes(Current, m, s, new) /\ Replaced(m, s, new)
    /\ new \in StructType /\ new.name = prog[m][s].name

LEMMA PlainChecked ==
    ASSUME IInv, Scoped, Sized, CheckStruct, NEW m, m = Top.mod, Plain(m)
    PROVE  \E s \in StructStmts(m) : \E new : Filled(m, s, new)
<1>1. At("struct") /\ Next_stmt
  BY DEF CheckStruct
<1>2. PICK s \in StructStmts(m) : \E new :
          /\ scope_lookup(Current.name) = Struct(m, s)
          /\ Becomes(Current, m, s, new) /\ Replaced(m, s, new)
          /\ new \in StructType /\ new.name = Current.name
  BY StructChecked
<1>3. PICK new :
          /\ scope_lookup(Current.name) = Struct(m, s)
          /\ Becomes(Current, m, s, new) /\ Replaced(m, s, new)
          /\ new \in StructType /\ new.name = Current.name
  BY <1>2
<1>4. /\ scope_lookup(Current.name) = Struct(m, at[m])
      /\ at[m] \in StructStmts(m) /\ prog[m][at[m]] = Current
  BY <1>1, PlainCurrent
<1>5. s = at[m]
  <2>1. Struct(m, s) = Struct(m, at[m])
    BY <1>3, <1>4
  <2> QED
    BY <2>1 DEF Struct
<1>6. m \in typed /\ at'[m] = at[m] + 1 /\ \A q \in Mods \ {m} : at'[q] = at[q]
  BY <1>1, NextStmt
<1> QED
  BY <1>3, <1>4, <1>5, <1>6 DEF Filled

-----------------------------------------------------------------------------
(* The programs that UndefinedExplained says no request is followed for. *)
Regular ==
    /\ \A m \in Mods : Plain(m)
    /\ \A m \in Mods : \A s \in StructStmts(m) : \A f \in FieldsAt(m, s) : ~Forward(m, s, f)

(* A struct of a plain module keeps the name it was declared with. *)
Named == \A m \in typed : Plain(m) =>
             \A s \in StructStmts(m) : structs[m][s].name = prog[m][s].name

(* In a regular program a struct is only waited for when it was checked. *)
Answered == Regular =>
    \A r \in requests : \E q \in typed : \E s \in StructStmts(q) :
        r = <<q, prog[q][s].name>> /\ s < at[q]

(* What UndefinedExplained says of an outcome. *)
Explained(o) ==
    /\ o = "badfree" => \E m \in Mods : \E p \in Imports(m) : BadFree(p)
    /\ o = "overwritten" => \E m \in Mods : \E s \in StructStmts(m) : prog[m][s].name \in BoundNames(m)
    /\ o = "awaited" => ~Regular
    /\ o = "overread" =>
           \E m \in Mods : ~Plain(m) \/ \E s \in StructStmts(m) : \E f \in FieldsAt(m, s) : OfStruct(f)
    /\ o = "overrun" => \E m \in Mods : \E s \in StructStmts(m) : FieldsAt(m, s) # {}

LEMMA SameSource ==
    ASSUME prog' = prog
    PROVE  /\ Regular' <=> Regular
           /\ \A m : /\ Plain(m)' <=> Plain(m)
                     /\ StructStmts(m)' = StructStmts(m)
<1>1. \A m : Plain(m)' <=> Plain(m)
  BY DEF Plain, StructStmts, BoundNames, FieldsAt
<1>2. \A m : StructStmts(m)' = StructStmts(m)
  BY DEF StructStmts
<1>3. Regular' <=> Regular
  BY DEF Regular, Plain, Imports, BadFree, Found, StructStmts, FieldsAt, Forward, BoundNames
<1> QED
  BY <1>1, <1>2, <1>3

LEMMA StepNamed == IInv /\ Scoped /\ Sized /\ Named /\ [Next]_vars => Named'
<1> SUFFICES ASSUME IInv, Scoped, Sized, Named, [Next]_vars,
                    NEW m \in typed', Plain(m)', NEW s \in StructStmts(m)'
             PROVE  (structs[m][s].name)' = (prog[m][s].name)'
  BY DEF Named
<1>1. prog' = prog /\ Plain(m) /\ s \in StructStmts(m) /\ typed \subseteq Mods
  BY StepKinds, SameSource DEF IInv, Typing
<1>2. CASE Entering
  <2>1. PICK q \in Mods \ typed : \E saved : Enter(q, saved)
    BY <1>2 DEF Entering
  <2>2. typed' = typed \cup {q} /\ structs' = [structs EXCEPT ![q] = typecheck_make_mod_type(q)]
    BY <2>1 DEF Enter
  <2>3. CASE m = q
    <3>1. structs'[m] = typecheck_make_mod_type(m)
      BY <2>1, <2>2, <2>3 DEF Sized
    <3> QED
      BY <1>1, <3>1 DEF typecheck_make_mod_type
  <2>4. CASE m # q
    <3>1. m \in typed /\ structs'[m] = structs[m]
      BY <1>1, <2>2, <2>4 DEF Sized
    <3> QED
      BY <1>1, <3>1 DEF Named
  <2> QED
    BY <2>3, <2>4
<1>3. CASE CheckStruct
  <2>1. m \in typed /\ typed \subseteq Mods /\ structs[m][s].name = prog[m][s].name
        /\ DOMAIN structs[m] = StructStmts(m)
    BY <1>1, <1>3 DEF CheckStruct, Named, Sized
  <2>2. PICK t : t = Top.mod
    OBVIOUS
  <2>3. CASE t = m
    <3>1. PICK r \in StructStmts(m) : \E new : Filled(m, r, new)
      BY <1>1, <1>3, <2>2, <2>3, PlainChecked
    <3>2. PICK new : Filled(m, r, new)
      BY <3>1
    <3>3. CASE r = s
      BY <1>1, <3>2, <3>3 DEF Filled, Replaced
    <3>4. CASE r # s
      BY <1>1, <2>1, <3>2, <3>4 DEF Filled, Replaced
    <3> QED
      BY <3>3, <3>4
  <2>4. CASE t # m
    <3>1. PICK r : \E new : Replaced(t, r, new)
      BY <1>3, <2>2, StructChecked
    <3> QED
      BY <1>1, <2>1, <2>4, <3>1 DEF Replaced
  <2> QED
    BY <2>3, <2>4
<1>4. CASE Quiet
  BY <1>1, <1>4 DEF Quiet, Named
<1> QED
  BY <1>2, <1>3, <1>4, StepKinds

(* What a declaration of a regular program waits for was checked before.   *)
LEMMA WaitsForChecked ==
    ASSUME IInv, Scoped, Sized, Named, Regular, At("struct"), NEW m, m = Top.mod,
           NEW f \in FieldsAt(m, at[m]), Waits(f)
    PROVE  \E q \in typed : \E s \in StructStmts(q) :
               /\ typecheck_lookup_ident_mod(f) = Struct(q, s)
               /\ Request(f, Struct(m, at[m]), prog[m][at[m]].name) = <<q, prog[q][s].name>>
               /\ \/ q = m /\ s <= at[m]
                  \/ q # m /\ s < at[q]
<1>1. /\ m \in Mods /\ m \in typed /\ ctx.mod = m /\ frames # <<>> /\ Len(frames) \in Nat \ {0}
      /\ at[m] \in StructStmts(m) /\ DOMAIN frames = 1 .. Len(frames) /\ Plain(m)
  BY CurrentFacts, PlainCurrent DEF At, Regular
<1>2. f \in Field /\ f.name \in Names /\ f.qual \in Names \cup {NULL}
  BY <1>1, PlainField DEF Field
<1>3. PICK q \in typed : \E s \in StructStmts(q) :
          /\ typecheck_lookup_ident_mod(f) = Struct(q, s)
          /\ structs[q][s].width = WIDTH_UNKNOWN
          /\ q = IF f.qual = NULL THEN ctx.mod ELSE ctx.aliases[f.qual]
  BY <1>1, <1>2, WaitsFor
<1>4. PICK s \in StructStmts(q) :
          /\ typecheck_lookup_ident_mod(f) = Struct(q, s)
          /\ q = IF f.qual = NULL THEN ctx.mod ELSE ctx.aliases[f.qual]
  BY <1>3
<1>5. typecheck_lookup_ident_mod(f) # NULL /\ ~f.ptr
  BY <1>1, <1>2, WaitsFor
<1>6. q \in Mods /\ Plain(q) /\ Typing
  BY <1>3 DEF IInv, Typing, Regular
<1>7. Request(f, Struct(m, at[m]), prog[m][at[m]].name) = <<q, prog[q][s].name>>
  <2>1. Struct(q, s).mod = q /\ Struct(q, s).idx = s
        /\ (Struct(q, s) = Struct(m, at[m]) => q = m /\ s = at[m])
    BY DEF Struct
  <2>2. structs[q][s].name = prog[q][s].name
    BY <1>6 DEF Named
  <2> QED
    BY <1>4, <2>1, <2>2 DEF Request
<1>8. ~Forward(m, at[m], f)
  BY <1>1 DEF Regular
<1>9. CASE f.qual = NULL
  <2>1. q = m /\ mod_s_lookup(m, f.name) = Struct(q, s)
    <3>1. q = m
      BY <1>1, <1>4, <1>9
    <3>2. typecheck_lookup_ident_mod(f) # I32
      BY <1>4, Distinct
    <3> QED
      BY <1>1, <1>4, <1>5, <1>9, <3>1, <3>2, PlainField
  <2>2. PICK r \in StructStmts(m) : prog[m][r].name = f.name /\ mod_s_lookup(m, f.name) = Struct(m, r)
    BY <1>1, <1>5, <1>6, <2>1, <1>4, ScopeFacts
  <2>3. r = s
    BY <2>1, <2>2 DEF Struct
  <2>4. ~(s > at[m])
    BY <1>5, <1>8, <1>9, <2>2, <2>3 DEF Forward
  <2>5. s <= at[m]
    BY <1>1, <1>6, <2>1, <2>4, StructStmtsFacts
  <2> QED
    BY <1>4, <1>7, <2>1, <2>5
<1>10. CASE f.qual # NULL
  <2>1. q = KeyMod[f.qual] /\ \E r \in 1 .. at[m] - 1 : prog[m][r].op = "import"
    BY <1>1, <1>2, <1>4, <1>5, <1>10, FieldUsable
  <2>2. Found(f.qual)
    BY <1>6, <2>1, NullAssumption DEF Found
  <2>3. Imports(q) = {}
    BY <1>5, <1>8, <1>10, <2>1, <2>2 DEF Forward
  <2>4. \A r \in 1 .. Len(prog[q]) : prog[q][r].op # "import"
    BY <1>6, <2>3, BindsBound
  <2>5. at[m] \in 1 .. Len(prog[m]) /\ Len(prog[m]) \in Nat
    BY <1>1, <1>6, StructStmtsFacts
  <2>6. q # m
    BY <2>1, <2>4, <2>5
  <2>7. ASSUME NEW k \in DOMAIN frames, frames[k].mod = q PROVE FALSE
    <3>1. k # Len(frames) /\ k <= Len(frames) /\ k < Len(frames)
      BY <1>1, <2>6, <2>7 DEF Top
    <3>2. prog[q][at[q]].op = "import"
      BY <2>7, <3>1 DEF Scoped
    <3>3. at[q] \in 1 .. Len(prog[q])
      BY <1>6, <2>7, <3>1 DEF IInv, Typing, Bounded
    <3> QED
      BY <2>4, <3>2, <3>3
  <2>8. at[q] = Len(prog[q]) + 1
    BY <2>7 DEF IInv, Bounded
  <2>9. s < at[q]
    BY <1>6, <2>8, StructStmtsFacts
  <2> QED
    BY <1>4, <1>7, <2>6, <2>9
<1> QED
  BY <1>9, <1>10

LEMMA StepAnswered ==
    IInv /\ Scoped /\ Sized /\ Named /\ Answered /\ [Next]_vars => Answered'
<1> SUFFICES ASSUME IInv, Scoped, Sized, Named, Answered, [Next]_vars, Regular,
                    NEW r \in requests'
             PROVE  \E q \in typed' : \E s \in StructStmts(q)' :
                        r = <<q, prog'[q][s].name>> /\ s < at'[q]
  BY StepKinds, SameSource DEF Answered
<1>1. prog' = prog /\ typed \subseteq typed' /\ \A q \in typed : at'[q] >= at[q]
  BY Onward
<1>2. \A q : StructStmts(q)' = StructStmts(q)
  BY <1>1, SameSource
<1>3. typed \subseteq Mods /\ Typing /\ at \in [Mods -> Nat \ {0}]
  BY DEF IInv, Typing
<1>4. CASE r \in requests
  <2>1. PICK q \in typed : \E s \in StructStmts(q) : r = <<q, prog[q][s].name>> /\ s < at[q]
    BY <1>4 DEF Answered
  <2>2. PICK s \in StructStmts(q) : r = <<q, prog[q][s].name>> /\ s < at[q]
    BY <2>1
  <2>3. s \in Nat /\ at[q] \in Nat
    BY <1>3, StructStmtsFacts
  <2>4. at'[q] >= at[q] /\ at'[q] \in Int
    <3>1. CASE Entering
      <4>1. PICK i \in Mods \ typed : \E saved : Enter(i, saved)
        BY <3>1 DEF Entering
      <4> QED
        BY <1>1, <1>3, <2>3, <4>1 DEF Enter
    <3>2. CASE CheckStruct
      BY <1>1, <1>3, <2>3, <3>2 DEF CheckStruct, Next_stmt
    <3>3. CASE Quiet
      BY <1>1, <1>3, <2>3, <3>3 DEF Quiet
    <3> QED
      BY <3>1, <3>2, <3>3, StepKinds
  <2>5. s < at'[q]
    BY <2>2, <2>3, <2>4
  <2> QED
    BY <1>1, <1>2, <2>2, <2>5
<1>5. CASE r \notin requests
  <2>1. CheckStruct
    BY <1>5, StepKinds DEF Quiet
  <2>2. PICK m : m = Top.mod
    OBVIOUS
  <2>3. At("struct") /\ m \in Mods /\ Plain(m)
    BY <2>1, <2>2, CurrentFacts DEF CheckStruct, Regular
  <2>4. PICK s \in StructStmts(m) : \E new : Filled(m, s, new)
    BY <2>1, <2>2, <2>3, PlainChecked
  <2>5. s = at[m] /\ prog[m][s] = Current /\ at'[m] = s + 1 /\ \A q \in Mods \ {m} : at'[q] = at[q]
    BY <2>4 DEF Filled
  <2>6. requests' = requests \cup {Request(f, Struct(m, s), Current.name) : f \in Waiting(Current)}
    BY <1>5, <2>4 DEF Filled, Becomes
  <2>7. PICK f \in Waiting(Current) : r = Request(f, Struct(m, s), Current.name)
    BY <1>5, <2>6
  <2>8. f \in FieldsAt(m, at[m]) /\ Waits(f)
    BY <2>5, <2>7 DEF Waiting, Fields, FieldsAt
  <2>9. PICK q \in typed : \E i \in StructStmts(q) :
            /\ r = <<q, prog[q][i].name>>
            /\ \/ q = m /\ i <= at[m]
               \/ q # m /\ i < at[q]
    BY <2>2, <2>3, <2>5, <2>7, <2>8, WaitsForChecked
  <2>10. PICK i \in StructStmts(q) :
            /\ r = <<q, prog[q][i].name>>
            /\ \/ q = m /\ i <= at[m]
               \/ q # m /\ i < at[q]
    BY <2>9
  <2>11. i \in Nat /\ at[m] \in Nat
    BY <1>3, <2>3, StructStmtsFacts
  <2>12. i < at'[q]
    BY <1>3, <2>5, <2>10, <2>11
  <2> QED
    BY <1>1, <1>2, <2>10, <2>12
<1> QED
  BY <1>4, <1>5

(* The outcome only depends on the program. *)
LEMMA ExplainedStays ==
    ASSUME prog' = prog
    PROVE  /\ UndefinedExplained <=> Explained(outcome)
           /\ UndefinedExplained' <=> Explained(outcome')
<1>1. UndefinedExplained <=> Explained(outcome)
  BY DEF UndefinedExplained, Explained, Regular
<1>2. \A m : /\ Plain(m)' <=> Plain(m)
             /\ StructStmts(m)' = StructStmts(m)
  BY SameSource
<1>3. \A m, s, f : /\ Imports(m)' = Imports(m) /\ BoundNames(m)' = BoundNames(m)
                   /\ FieldsAt(m, s)' = FieldsAt(m, s)
                   /\ Forward(m, s, f)' <=> Forward(m, s, f)
                   /\ OfStruct(f)' <=> OfStruct(f)
  BY <1>2 DEF Imports, BoundNames, FieldsAt, Forward, OfStruct, StructStmts, Found
<1>4. UndefinedExplained' <=> Explained(outcome')
  <2>1. (\E m \in Mods : \E p \in Imports(m) : BadFree(p))' <=> \E m \in Mods : \E p \in Imports(m) : BadFree(p)
    BY <1>3 DEF BadFree, Found
  <2>2. (\E m \in Mods : \E s \in StructStmts(m) : prog[m][s].name \in BoundNames(m))'
            <=> \E m \in Mods : \E s \in StructStmts(m) : prog[m][s].name \in BoundNames(m)
    BY <1>2, <1>3
  <2>3. Regular' <=> Regular
    BY SameSource
  <2>4. (\E m \in Mods : ~Plain(m) \/ \E s \in StructStmts(m) : \E f \in FieldsAt(m, s) : OfStruct(f))'
            <=> \E m \in Mods : ~Plain(m) \/ \E s \in StructStmts(m) : \E f \in FieldsAt(m, s) : OfStruct(f)
    BY <1>2, <1>3
  <2>5. (\E m \in Mods : \E s \in StructStmts(m) : FieldsAt(m, s) # {})'
            <=> \E m \in Mods : \E s \in StructStmts(m) : FieldsAt(m, s) # {}
    BY <1>2, <1>3
  <2>6. UndefinedExplained' <=>
            /\ outcome' = "badfree" => (\E m \in Mods : \E p \in Imports(m) : BadFree(p))'
            /\ outcome' = "overwritten" =>
                   (\E m \in Mods : \E s \in StructStmts(m) : prog[m][s].name \in BoundNames(m))'
            /\ outcome' = "awaited" => ~Regular'
            /\ outcome' = "overread" => (\E m \in Mods : \/ ~Plain(m)
                   \/ \E s \in StructStmts(m) : \E f \in FieldsAt(m, s) : OfStruct(f))'
            /\ outcome' = "overrun" => (\E m \in Mods : \E s \in StructStmts(m) : FieldsAt(m, s) # {})'
    BY DEF UndefinedExplained, Regular
  <2> QED
    BY <2>1, <2>2, <2>3, <2>4, <2>5, <2>6 DEF Explained
<1> QED
  BY <1>1, <1>4

(* The declaration being checked, and its scope. *)
LEMMA HereFacts ==
    ASSUME IInv, Scoped, At("struct"), NEW m, m = Top.mod
    PROVE  /\ Typing /\ m \in Mods /\ ctx.mod = m /\ LocalsOwn(ctx)
           /\ at[m] \in StructStmts(m) /\ Current = prog[m][at[m]]
           /\ Current.name \in Names /\ Current.fields \in Seq(Field)
<1>1. /\ m \in Mods /\ ctx.mod = m /\ at[m] \in 1 .. Len(prog[m])
      /\ Current.op = "struct" /\ Current = prog[m][at[m]]
  BY CurrentFacts DEF Current
<1>2. Typing /\ LocalsOwn(ctx)
  BY DEF IInv, Scoped
<1>3. at[m] \in StructStmts(m)
  BY <1>1, <1>2, BindsBound
<1> QED
  BY <1>1, <1>2, <1>3, StructStmtsFacts

LEMMA StepDefined ==
    IInv /\ Scoped /\ Sized /\ Answered /\ UndefinedExplained /\ [Next]_vars => UndefinedExplained'
<1> SUFFICES ASSUME IInv, Scoped, Sized, Answered, UndefinedExplained, [Next]_vars
             PROVE  UndefinedExplained'
  OBVIOUS
<1> SUFFICES ASSUME outcome' # outcome, outcome' \in Undefined
             PROVE  UndefinedExplained'
  <2>1. ASSUME outcome' = outcome PROVE UndefinedExplained'
    <3>1. prog' = prog
      BY StepKinds
    <3>2. Explained(outcome)
      BY <3>1, ExplainedStays
    <3>3. Explained(outcome')
      BY <2>1, <3>2
    <3> QED
      BY <3>1, <3>3, ExplainedStays
  <2>2. outcome' \notin Undefined => UndefinedExplained'
    BY DEF UndefinedExplained, Undefined
  <2> QED
    BY <2>1, <2>2
<1>1. outcome = "running" /\ prog' = prog
  BY StepKinds
<1>2. PICK m : m = Top.mod
  OBVIOUS
<1> SUFFICES Explained(outcome')
  BY <1>1, ExplainedStays
<1>3. CASE ImportBadFree
  <2>1. At("import") /\ BadFree(Current.path) /\ outcome' = "badfree"
    BY <1>3 DEF ImportBadFree
  <2>2. /\ Typing /\ m \in Mods /\ Current.op = "import"
        /\ at[m] \in 1 .. Len(prog[m]) /\ Current = prog[m][at[m]]
    BY <1>2, <2>1, CurrentFacts DEF Current, IInv
  <2>3. Current.path \in Imports(m)
    BY <2>2, BindsBound
  <2> QED
    BY <2>1, <2>2, <2>3 DEF Explained
<1>4. CASE CheckShadowedStruct
  <2>1. At("struct") /\ scope_lookup(Current.name).kind # "struct" /\ outcome' = "overwritten"
    BY <1>4 DEF CheckShadowedStruct
  <2>2. /\ Typing /\ m \in Mods /\ ctx.mod = m /\ at[m] \in StructStmts(m)
        /\ Current = prog[m][at[m]] /\ LocalsOwn(ctx) /\ Current.name \in Names
    BY <1>2, <2>1, HereFacts
  <2>3. mod_s_lookup(m, Current.name) # NULL /\ mod_s_lookup(m, Current.name).kind = "struct"
    BY <2>2, ScopeFacts DEF Struct
  <2>4. ctx.locals[Current.name] # NULL
    BY <2>1, <2>2, <2>3 DEF scope_lookup
  <2>5. Current.name \in BoundNames(m)
    BY <2>2, <2>4 DEF LocalsOwn
  <2> QED
    BY <2>1, <2>2, <2>5 DEF Explained
<1>5. CASE CheckStruct
  <2> SUFFICES ASSUME Regular, outcome' = "awaited" PROVE FALSE
    <3>1. outcome' = "awaited"
      BY <1>1, <1>5 DEF CheckStruct, FillStruct
    <3> QED
      BY <3>1 DEF Explained, Regular
  <2>1. At("struct") /\ m \in Mods /\ Plain(m) /\ ctx.mod = m
    BY <1>2, <1>5, CurrentFacts DEF CheckStruct, Regular
  <2>2. PICK s \in StructStmts(m) : \E new : Filled(m, s, new)
    BY <1>2, <1>5, <2>1, PlainChecked
  <2>3. s = at[m] /\ prog[m][s] = Current
    BY <2>2 DEF Filled
  <2>4. awaited(m, Current.name)
    BY <1>1, <2>1, <2>2 DEF Filled, Becomes
  <2>5. PICK q \in typed : \E r \in StructStmts(q) :
            <<m, Current.name>> = <<q, prog[q][r].name>> /\ r < at[q]
    BY <2>4 DEF awaited, Answered
  <2>6. PICK r \in StructStmts(m) : prog[m][r].name = prog[m][s].name /\ r < s
    BY <2>3, <2>5
  <2>7. r = s
    BY <2>1, <2>6 DEF Plain
  <2>8. s \in Nat
    BY <2>1, StructStmtsFacts DEF IInv
  <2> QED
    BY <2>6, <2>7, <2>8
<1>6. CASE FieldOverrun
  <2>1. At("struct") /\ Current.fields # <<>> /\ outcome' = "overrun"
    BY <1>6 DEF FieldOverrun, Filling
  <2>2. /\ m \in Mods /\ at[m] \in StructStmts(m) /\ Current = prog[m][at[m]]
        /\ Current.fields \in Seq(Field)
    BY <1>2, <2>1, HereFacts
  <2>3. 1 \in DOMAIN Current.fields
    BY <2>1, <2>2
  <2>4. FieldsAt(m, at[m]) # {}
    BY <2>2, <2>3 DEF FieldsAt
  <2> QED
    BY <2>1, <2>2, <2>4 DEF Explained
<1>7. CASE RequestOverread
  <2>1. At("struct") /\ outcome' = "overread" /\ \E i \in DOMAIN Current.fields : Waits(Current.fields[i])
    BY <1>7 DEF RequestOverread, Filling
  <2>2. /\ m \in Mods /\ ctx.mod = m /\ at[m] \in StructStmts(m) /\ Current = prog[m][at[m]]
        /\ Current.fields \in Seq(Field) /\ frames # <<>> /\ Typing
    BY <1>2, <2>1, HereFacts DEF At
  <2>3. PICK f \in FieldsAt(m, at[m]) : Waits(f)
    BY <2>1, <2>2 DEF FieldsAt
  <2>4. CASE Plain(m)
    <3>1. f \in Field /\ (f.qual = NULL => ctx.locals[f.name] = NULL)
      BY <1>2, <2>1, <2>3, <2>4, PlainField
    <3>2. PICK q \in typed : \E s \in StructStmts(q) :
              /\ typecheck_lookup_ident_mod(f) = Struct(q, s)
              /\ structs[q][s].width = WIDTH_UNKNOWN
              /\ q = IF f.qual = NULL THEN ctx.mod ELSE ctx.aliases[f.qual]
      BY <2>2, <2>3, <3>1, WaitsFor
    <3>3. PICK s \in StructStmts(q) : typecheck_lookup_ident_mod(f) = Struct(q, s)
      BY <3>2
    <3>4. q \in Mods
      BY <2>2, <3>2 DEF Typing
    <3>5. typecheck_lookup_ident_mod(f) = mod_s_lookup(q, f.name)
      <4>1. Struct(q, s) # I32 /\ Struct(q, s) # NULL
        BY <2>2, <3>3, <3>4, Distinct, StructStmtsFacts
      <4>2. q = IF f.qual = NULL THEN ctx.mod ELSE ctx.aliases[f.qual]
        BY <3>2
      <4> QED
        BY <3>1, <3>3, <4>1, <4>2 DEF typecheck_lookup_ident_mod, scope_lookup
    <3>6. prog[q][s].name = f.name
      <4>1. mod_s_lookup(q, f.name) = Struct(q, s) /\ Struct(q, s) # NULL
        BY <2>2, <3>3, <3>4, <3>5, StructStmtsFacts
      <4>2. PICK r \in StructStmts(q) : prog[q][r].name = f.name /\ mod_s_lookup(q, f.name) = Struct(q, r)
        BY <2>2, <3>4, <4>1, ScopeFacts
      <4>3. r = s
        BY <4>1, <4>2 DEF Struct
      <4> QED
        BY <4>2, <4>3
    <3>7. ~f.ptr
      BY <2>3 DEF Waits
    <3>8. OfStruct(f)
      BY <3>3, <3>4, <3>6, <3>7 DEF OfStruct
    <3> QED
      BY <2>1, <2>2, <2>3, <3>8 DEF Explained
  <2>5. CASE ~Plain(m)
    BY <2>1, <2>2, <2>5 DEF Explained
  <2> QED
    BY <2>4, <2>5
<1>8. outcome' # "done"
  BY DEF Undefined
<1> QED
  BY <1>1, <1>3, <1>4, <1>5, <1>6, <1>7, <1>8, StepKinds DEF GoesWrong

THEOREM Checkable == Spec => [](Named /\ Answered /\ UndefinedExplained)
<1>1. Init => Named /\ Answered /\ UndefinedExplained
  BY DEF Init, Named, Answered, UndefinedExplained
<1>2. IInv /\ Scoped /\ Sized /\ Named /\ Answered /\ UndefinedExplained /\ [Next]_vars
          => (Named /\ Answered /\ UndefinedExplained)'
  BY StepNamed, StepAnswered, StepDefined
<1> QED
  BY <1>1, <1>2, Sizing, PTL DEF Spec

(* Each undefined thing the checker does has its cause in the program: a   *)
(* rooted import that is not compiled, a struct whose name is taken, a     *)
(* struct declared behind a field of it, a field that names a struct, and  *)
(* any field at all (typecheck.c:40-60, 315-404, mod.c:186-214).           *)
THEOREM AlwaysUndefinedExplained == Spec => []UndefinedExplained
  BY Checkable, PTL

-----------------------------------------------------------------------------
(* A type whose width is known, and what is known of it. *)
Solid(t) == t # NULL /\ Usable(t) /\ ty_is_initialized(t)

(* The struct of the statement s was filled from its declaration. *)
Laid(m, s) ==
    LET fields == prog[m][s].fields
    IN  /\ \A i \in DOMAIN fields : Solid(Declared(m, fields[i]))
        /\ structs[m][s].width = Total([i \in DOMAIN fields |-> width(Declared(m, fields[i]))])
        /\ structs[m][s].width >= 0 =>
               \A i \in DOMAIN fields : align(Declared(m, fields[i])) <= structs[m][s].align

LaidOut == \A m \in typed : \A s \in StructStmts(m) :
    Plain(m) /\ structs[m][s].width # WIDTH_UNKNOWN => Laid(m, s)

LEMMA SolidKinds ==
    ASSUME NEW t
    PROVE  Solid(t) <=> /\ t # NULL
                        /\ \/ t \in {I32, String, Ptr}
                           \/ \E i \in Mods : t = Mod(i)
                           \/ \E q \in typed : \E s \in StructStmts(q) :
                                  t = Struct(q, s) /\ structs[q][s].width # WIDTH_UNKNOWN
BY Initialized DEF Solid, Usable

LEMMA SolidStays ==
    ASSUME Sized, Frozen, typed \subseteq Mods, typed \subseteq typed', prog' = prog,
           NEW CONSTANT t, Solid(t)
    PROVE  Solid(t)' /\ width(t)' = width(t) /\ align(t)' = align(t)
<1>1. \A q : StructStmts(q)' = StructStmts(q)
  BY SameSource
<1>2. t # NULL
  BY DEF Solid
<1>3. CASE t \in {I32, String, Ptr}
  <2>1. Solid(t)'
    BY <1>2, <1>3 DEF Solid, Usable, ty_is_initialized, width, I32, String, Ptr, WIDTH_UNKNOWN
  <2>2. width(t)' = width(t) /\ align(t)' = align(t)
    BY <1>3 DEF width, align, I32, String, Ptr
  <2> QED
    BY <2>1, <2>2
<1>4. CASE \E i \in Mods : t = Mod(i)
  <2>1. Solid(t)'
    BY <1>2, <1>4 DEF Solid, Usable, ty_is_initialized, Mod
  <2>2. width(t)' = width(t) /\ align(t)' = align(t)
    BY <1>4 DEF width, align, Mod
  <2> QED
    BY <2>1, <2>2
<1>5. CASE \E q \in typed : \E s \in StructStmts(q) :
               t = Struct(q, s) /\ structs[q][s].width # WIDTH_UNKNOWN
  <2>1. PICK q \in typed : \E s \in StructStmts(q) :
                 t = Struct(q, s) /\ structs[q][s].width # WIDTH_UNKNOWN
    BY <1>5
  <2>2. PICK s \in StructStmts(q) : t = Struct(q, s) /\ structs[q][s].width # WIDTH_UNKNOWN
    BY <2>1
  <2>3. q \in Mods /\ s \in DOMAIN structs[q]
    BY <2>2 DEF Sized
  <2>4. /\ structs'[q][s].width = structs[q][s].width
        /\ structs'[q][s].align = structs[q][s].align
    BY <2>2, <2>3 DEF Frozen
  <2>5. Usable(t)'
    BY <1>1, <2>2 DEF Usable
  <2>6. width(t) = structs[q][s].width /\ align(t) = structs[q][s].align
    BY <2>2, KnownWidths
  <2>7. width(t)' = structs'[q][s].width /\ align(t)' = structs'[q][s].align
    BY <2>2 DEF width, align, Struct
  <2>8. ty_is_initialized(t)'
    BY <2>2, <2>4, <2>7 DEF ty_is_initialized, Struct
  <2> QED
    BY <1>2, <2>4, <2>5, <2>6, <2>7, <2>8 DEF Solid
<1> QED
  BY <1>3, <1>4, <1>5, SolidKinds

(* What is laid out stays so. *)
LEMMA LaidStays ==
    ASSUME IInv, Scoped, Sized, [Next]_vars, NEW CONSTANT m, m \in typed, NEW CONSTANT s,
           s \in StructStmts(m), structs[m][s].width # WIDTH_UNKNOWN, Laid(m, s)
    PROVE  Laid(m, s)'
<1>1. /\ Frozen /\ prog' = prog /\ typed \subseteq typed' /\ typed \subseteq Mods
      /\ m \in Mods /\ s \in DOMAIN structs[m]
  BY StepSized, Onward DEF IInv, Typing, Sized
<1>2. PICK fields : fields = prog[m][s].fields
  OBVIOUS
<1>3. \A i \in DOMAIN fields : Declared(m, fields[i])' = Declared(m, fields[i])
  BY <1>1 DEF Declared, mod_s_lookup, StructStmts
<1>4. \A i \in DOMAIN fields : Solid(Declared(m, fields[i]))
  BY <1>2 DEF Laid
<1>5. ASSUME NEW i \in DOMAIN fields
      PROVE  /\ Solid(Declared(m, fields[i]))'
             /\ width(Declared(m, fields[i]))' = width(Declared(m, fields[i]))
             /\ align(Declared(m, fields[i]))' = align(Declared(m, fields[i]))
  <2>1. PICK t : t = Declared(m, fields[i])
    OBVIOUS
  <2>2. Declared(m, fields[i])' = t
    BY <1>3, <2>1
  <2>3. Solid(t)' /\ width(t)' = width(t) /\ align(t)' = align(t)
    BY <1>1, <1>4, <2>1, SolidStays
  <2> QED
    BY <2>1, <2>2, <2>3
<1>6. structs'[m][s].width = structs[m][s].width /\ structs'[m][s].align = structs[m][s].align
  BY <1>1 DEF Frozen
<1>7. (prog[m][s].fields)' = fields
  BY <1>1, <1>2
<1>8. Total([i \in DOMAIN fields |-> width(Declared(m, fields[i]))])'
           = Total([i \in DOMAIN fields |-> width(Declared(m, fields[i]))])
  BY <1>5, Zenon
<1>9. structs'[m][s].width = Total([i \in DOMAIN fields |-> width(Declared(m, fields[i]))])'
  BY <1>2, <1>6, <1>8 DEF Laid
<1>10. structs'[m][s].width >= 0 =>
           \A i \in DOMAIN fields : align(Declared(m, fields[i]))' <= structs'[m][s].align
  BY <1>2, <1>5, <1>6 DEF Laid
<1>11. \A i \in DOMAIN fields : Solid(Declared(m, fields[i]))'
  BY <1>5
<1> QED
  BY <1>7, <1>9, <1>10, <1>11 DEF Laid

(* The types of a declaration of a plain module that is ready, and the     *)
(* struct type it makes of them.                                           *)
LEMMA ReadyDeclared ==
    ASSUME IInv, Scoped, Sized, At("struct"), NEW m, m = Top.mod, Plain(m), Ready(Current)
    PROVE  LET fields == Current.fields
           IN  /\ fields \in Seq(Field)
               /\ DOMAIN FieldTypes(Current) = DOMAIN fields
               /\ \A i \in DOMAIN fields : /\ FieldTypes(Current)[i] = Declared(m, fields[i])
                                           /\ Solid(Declared(m, fields[i]))
                                           /\ width(Declared(m, fields[i])) \in Int
                                           /\ align(Declared(m, fields[i])) \in Int
<1> DEFINE fields == Current.fields
<1>1. frames # <<>> /\ at[m] \in StructStmts(m) /\ prog[m][at[m]] = Current
  BY PlainCurrent DEF At
<1>2. fields \in Seq(Field)
  BY CurrentFacts, OpFacts
<1>3. /\ DOMAIN FieldTypes(Current) = 1 .. Len(fields) /\ Len(fields) \in Nat
      /\ \A i \in 1 .. Len(fields) :
             /\ FieldTypes(Current)[i] = FieldType(fields[i])
             /\ typecheck_lookup_ident_mod(fields[i]) # NULL
             /\ Usable(FieldTypes(Current)[i]) /\ ty_is_initialized(FieldTypes(Current)[i])
             /\ width(FieldTypes(Current)[i]) \in Int /\ align(FieldTypes(Current)[i]) \in Int
  BY <1>1, <1>2, ReadyTypes
<1>4. DOMAIN fields = 1 .. Len(fields)
  BY <1>2
<1> SUFFICES ASSUME NEW i \in DOMAIN fields
             PROVE  /\ FieldTypes(Current)[i] = Declared(m, fields[i])
                    /\ Solid(Declared(m, fields[i]))
                    /\ width(Declared(m, fields[i])) \in Int
                    /\ align(Declared(m, fields[i])) \in Int
  BY <1>2, <1>3, <1>4
<1>5. fields[i] \in FieldsAt(m, at[m])
  BY <1>1 DEF FieldsAt
<1>6. FieldType(fields[i]) = Declared(m, fields[i])
  BY <1>3, <1>4, <1>5, PlainField
<1>7. FieldTypes(Current)[i] # NULL
  <2>1. Ptr \in Type
    BY DEF Type
  <2>2. FieldType(fields[i]) = Ptr \/ FieldType(fields[i]) = typecheck_lookup_ident_mod(fields[i])
    BY DEF FieldType
  <2> QED
    BY <1>3, <1>4, <2>1, <2>2, NullTypeAssumption
<1> QED
  BY <1>3, <1>4, <1>6, <1>7 DEF Solid

LEMMA FilledLaid ==
    ASSUME IInv, Scoped, Sized, CheckStruct, [Next]_vars, NEW CONSTANT m, m = Top.mod, Plain(m),
           NEW CONSTANT s, NEW CONSTANT new, Filled(m, s, new),
           structs[m][s].width = WIDTH_UNKNOWN, new.width # WIDTH_UNKNOWN
    PROVE  Laid(m, s)'
<1>1. At("struct")
  BY DEF CheckStruct
<1>2. /\ m \in typed /\ s \in StructStmts(m) /\ prog[m][s] = Current
      /\ Becomes(Current, m, s, new) /\ Replaced(m, s, new)
  BY DEF Filled
<1>3. structs[m][s] \in StructType /\ structs[m][s].align = 0
  BY <1>2, StructFacts DEF Sized, IInv
<1>4. PICK named \in StructType : /\ named = Renamed(structs[m][s], Current)
                                  /\ named.width = WIDTH_UNKNOWN /\ named.align = 0
  <2>1. Current.name \in Names
    BY <1>1, CurrentFacts, OpFacts
  <2>2. PICK old \in StructType : old = structs[m][s] /\ old.width = WIDTH_UNKNOWN /\ old.align = 0
    BY <1>3
  <2>3. /\ Renamed(old, Current) \in StructType
        /\ Renamed(old, Current).width = old.width /\ Renamed(old, Current).align = old.align
    BY <2>1, <2>2 DEF Renamed, StructType
  <2> QED
    BY <2>2, <2>3
<1>5. Ready(Current) /\ new = ty_fill_width_align(named, FieldTypes(Current))
  <2>1. new = named => new.width = WIDTH_UNKNOWN
    BY <1>4
  <2> QED
    BY <1>2, <1>4, <2>1 DEF Becomes
<1>6. PICK fields : fields = Current.fields /\ fields = prog[m][s].fields
  BY <1>2
<1>7. /\ fields \in Seq(Field) /\ DOMAIN FieldTypes(Current) = DOMAIN fields
      /\ \A i \in DOMAIN fields : /\ FieldTypes(Current)[i] = Declared(m, fields[i])
                                  /\ Solid(Declared(m, fields[i]))
                                  /\ width(Declared(m, fields[i])) \in Int
                                  /\ align(Declared(m, fields[i])) \in Int
  BY <1>1, <1>5, <1>6, ReadyDeclared
<1>8. PICK types : types = FieldTypes(Current)
  OBVIOUS
<1>9. PICK n \in Nat : DOMAIN fields = 1 .. n
  BY <1>7
<1>10. PICK w : w = Total([i \in DOMAIN types |-> width(types[i])])
  OBVIOUS
<1>11. /\ w = WIDTH_UNKNOWN => new = named
       /\ w # WIDTH_UNKNOWN => /\ new.width = w
                               /\ w >= 0 => \A i \in 1 .. n : align(types[i]) <= new.align
  <2>1. DOMAIN types = 1 .. n /\ \A i \in 1 .. n : width(types[i]) \in Int /\ align(types[i]) \in Int
    BY <1>7, <1>8, <1>9
  <2>2. named \in StructType /\ named.align = 0 /\ named.width = WIDTH_UNKNOWN
    BY <1>4
  <2>3. new = ty_fill_width_align(named, types)
    BY <1>5, <1>8
  <2> QED
    BY <1>10, <2>1, <2>2, <2>3, FillFacts
<1>12. new.width = w /\ (w >= 0 => \A i \in 1 .. n : align(types[i]) <= new.align)
  BY <1>4, <1>11
<1>13. /\ Frozen /\ prog' = prog /\ typed \subseteq typed' /\ typed \subseteq Mods
       /\ m \in Mods /\ structs'[m][s] = new
  BY <1>2, StepSized, Onward DEF IInv, Typing, Replaced
<1>14. \A i \in DOMAIN fields : Declared(m, fields[i])' = Declared(m, fields[i])
  BY <1>13 DEF Declared, mod_s_lookup, StructStmts
<1>15. ASSUME NEW i \in DOMAIN fields
       PROVE  /\ Solid(Declared(m, fields[i]))'
              /\ width(Declared(m, fields[i]))' = width(types[i])
              /\ align(Declared(m, fields[i]))' = align(types[i])
  <2>1. PICK t : t = Declared(m, fields[i])
    OBVIOUS
  <2>2. Declared(m, fields[i])' = t /\ types[i] = t /\ Solid(t)
    BY <1>7, <1>8, <1>14, <2>1
  <2>3. Solid(t)' /\ width(t)' = width(t) /\ align(t)' = align(t)
    BY <1>13, <2>2, SolidStays
  <2> QED
    BY <2>1, <2>2, <2>3
<1>16. w = Total([i \in DOMAIN fields |-> width(Declared(m, fields[i]))])'
  <2>1. w = Total([i \in DOMAIN fields |-> width(types[i])])
    BY <1>7, <1>8, <1>10
  <2>2. [i \in DOMAIN fields |-> width(types[i])]
            = [i \in DOMAIN fields |-> width(Declared(m, fields[i]))]'
    BY <1>15, Zenon
  <2> QED
    BY <2>1, <2>2, Zenon
<1>17. (prog[m][s].fields)' = fields
  BY <1>6, <1>13
<1>18. structs'[m][s].width >= 0 =>
           \A i \in DOMAIN fields : align(Declared(m, fields[i]))' <= structs'[m][s].align
  BY <1>9, <1>12, <1>13, <1>15
<1>19. \A i \in DOMAIN fields : Solid(Declared(m, fields[i]))'
  BY <1>15
<1>20. structs'[m][s].width = Total([i \in DOMAIN fields |-> width(Declared(m, fields[i]))])'
  BY <1>12, <1>13, <1>16
<1> QED
  BY <1>17, <1>18, <1>19, <1>20 DEF Laid

(* A struct that has a width got it from its declaration, in this step or  *)
(* before.                                                                 *)
LEMMA WidthComes ==
    ASSUME IInv, Scoped, Sized, [Next]_vars, NEW m \in typed', NEW s \in StructStmts(m), Plain(m),
           structs'[m][s].width # WIDTH_UNKNOWN
    PROVE  /\ m \in typed
           /\ \/ structs[m][s].width # WIDTH_UNKNOWN
              \/ /\ structs[m][s].width = WIDTH_UNKNOWN /\ CheckStruct /\ m = Top.mod
                 /\ Filled(m, s, structs'[m][s])
<1>1. typed \subseteq Mods /\ DOMAIN structs = Mods
  BY DEF IInv, Typing, Sized
<1>2. CASE Entering
  <2>1. PICK q \in Mods \ typed : \E saved : Enter(q, saved)
    BY <1>2 DEF Entering
  <2>2. typed' = typed \cup {q} /\ structs' = [structs EXCEPT ![q] = typecheck_make_mod_type(q)]
    BY <2>1 DEF Enter
  <2>3. CASE m = q
    <3>1. structs'[m] = typecheck_make_mod_type(m)
      BY <1>1, <2>2, <2>3
    <3> QED
      BY <3>1 DEF typecheck_make_mod_type
  <2>4. CASE m # q
    BY <1>1, <2>2, <2>4
  <2> QED
    BY <2>3, <2>4
<1>3. CASE CheckStruct
  <2>1. m \in typed /\ DOMAIN structs[m] = StructStmts(m)
    BY <1>1, <1>3 DEF CheckStruct, Sized
  <2>2. PICK t : t = Top.mod
    OBVIOUS
  <2>3. CASE t = m
    <3>1. PICK r \in StructStmts(m) : \E new : Filled(m, r, new)
      BY <1>3, <2>2, <2>3, PlainChecked
    <3>2. PICK new : Filled(m, r, new)
      BY <3>1
    <3>3. structs'[m][r] = new /\ \A i \in DOMAIN structs[m] : i # r => structs'[m][i] = structs[m][i]
      BY <1>1, <2>1, <3>2 DEF Filled, Replaced
    <3> QED
      BY <1>3, <2>1, <2>2, <2>3, <3>2, <3>3
  <2>4. CASE t # m
    <3>1. PICK r : \E new : Replaced(t, r, new)
      BY <1>3, <2>2, StructChecked
    <3> QED
      BY <1>1, <2>1, <2>4, <3>1 DEF Replaced
  <2> QED
    BY <2>3, <2>4
<1>4. CASE Quiet
  BY <1>1, <1>4 DEF Quiet
<1> QED
  BY <1>2, <1>3, <1>4, StepKinds

LEMMA StepLaidOut == IInv /\ Scoped /\ Sized /\ LaidOut /\ [Next]_vars => LaidOut'
<1> SUFFICES ASSUME IInv, Scoped, Sized, LaidOut, [Next]_vars,
                    NEW m \in typed', NEW s \in StructStmts(m)', Plain(m)',
                    structs'[m][s].width # WIDTH_UNKNOWN
             PROVE  Laid(m, s)'
  BY DEF LaidOut, WIDTH_UNKNOWN
<1>1. Plain(m) /\ s \in StructStmts(m)
  BY StepKinds, SameSource
<1>2. /\ m \in typed
      /\ \/ structs[m][s].width # WIDTH_UNKNOWN
         \/ /\ structs[m][s].width = WIDTH_UNKNOWN /\ CheckStruct /\ m = Top.mod
            /\ Filled(m, s, structs'[m][s])
  BY <1>1, WidthComes
<1>3. CASE structs[m][s].width # WIDTH_UNKNOWN
  <2>1. Laid(m, s)
    BY <1>1, <1>2, <1>3 DEF LaidOut
  <2> QED
    BY <1>1, <1>2, <1>3, <2>1, LaidStays
<1>4. CASE structs[m][s].width = WIDTH_UNKNOWN
  <2>1. PICK new : new = structs'[m][s]
    OBVIOUS
  <2>2. CheckStruct /\ m = Top.mod /\ Filled(m, s, new) /\ new.width # WIDTH_UNKNOWN
    BY <1>2, <1>4, <2>1
  <2> QED
    BY <1>1, <1>4, <2>2, FilledLaid
<1> QED
  BY <1>3, <1>4

THEOREM AlwaysLaidOut == Spec => []LaidOut
<1>1. Init => LaidOut
  BY DEF Init, LaidOut
<1>2. IInv /\ Scoped /\ Sized /\ LaidOut /\ [Next]_vars => LaidOut'
  BY StepLaidOut
<1> QED
  BY <1>1, <1>2, Sizing, PTL DEF Spec

(* A struct of a plain module that has a width has it from its declaration *)
(* (typecheck.c:315-404, ty.c:247-311).                                    *)
THEOREM AlwaysLayoutConsistent == Spec => []LayoutConsistent
<1>1. IInv /\ LaidOut => LayoutConsistent
  <2> SUFFICES ASSUME IInv, LaidOut, NEW m \in typed, Plain(m), NEW s \in StructStmts(m),
                      NEW d, d = mod_s_lookup(m, prog[m][s].name), ty_is_initialized(d)
               PROVE  /\ \A i \in DOMAIN prog[m][s].fields :
                            /\ Declared(m, prog[m][s].fields[i]) # NULL
                            /\ ty_is_initialized(Declared(m, prog[m][s].fields[i]))
                      /\ width(d) = Total([i \in DOMAIN prog[m][s].fields |->
                                               width(Declared(m, prog[m][s].fields[i]))])
                      /\ width(d) >= 0 =>
                            \A i \in DOMAIN prog[m][s].fields :
                                align(Declared(m, prog[m][s].fields[i])) <= align(d)
    BY DEF LayoutConsistent
  <2>1. d = Struct(m, s)
    BY PlainScope DEF IInv, Typing
  <2>2. width(d) = structs[m][s].width /\ align(d) = structs[m][s].align
        /\ structs[m][s].width # WIDTH_UNKNOWN
    BY <2>1, KnownWidths, Initialized
  <2>3. Laid(m, s)
    BY <2>2 DEF LaidOut
  <2> QED
    BY <2>2, <2>3 DEF Laid, Solid
<1> QED
  BY <1>1, Invariant, AlwaysLaidOut, PTL

-----------------------------------------------------------------------------
(* When all modules are plain no width is negative, and a struct that was  *)
(* checked and has none has a field of an unknown type, or waits for a     *)
(* struct that has none and holds the request of it.                       *)
AllPlain == \A m \in Mods : Plain(m)

NonNeg == AllPlain => \A m \in typed : \A s \in StructStmts(m) :
    structs[m][s].width # WIDTH_UNKNOWN => structs[m][s].width >= 0

AwaitedBy(f, m) ==
    \E q \in typed : \E r \in StructStmts(q) :
        /\ ~f.ptr /\ Declared(m, f) = Struct(q, r) /\ structs[q][r].width = WIDTH_UNKNOWN
        /\ <<q, prog[q][r].name>> \in requests

Awaited == AllPlain /\ outcome # "awaited" =>
    \A m \in typed : \A s \in StructStmts(m) :
        s < at[m] /\ structs[m][s].width = WIDTH_UNKNOWN =>
            \E f \in FieldsAt(m, s) : ~Known(m, s, f) \/ AwaitedBy(f, m)

LEMMA SamePlain ==
    ASSUME prog' = prog
    PROVE  AllPlain' <=> AllPlain
BY DEF AllPlain, Plain, StructStmts, BoundNames, FieldsAt

LEMMA SolidNonNeg ==
    ASSUME IInv, Scoped, AllPlain, NonNeg, At("struct"), NEW m, m = Top.mod,
           NEW f \in FieldsAt(m, at[m]), Solid(Declared(m, f)),
           typecheck_lookup_ident_mod(f) # NULL
    PROVE  width(Declared(m, f)) >= 0
<1>1. m \in Mods /\ Plain(m) /\ Typing /\ m \in typed
  BY CurrentFacts DEF AllPlain, IInv
<1>2. CASE f.ptr
  BY <1>2, KnownWidths DEF Declared
<1>3. CASE ~f.ptr
  <2>1. FieldType(f) = typecheck_lookup_ident_mod(f) /\ FieldType(f) = Declared(m, f) /\ f \in Field
    BY <1>1, <1>3, PlainField DEF FieldType
  <2>2. CASE Declared(m, f) = I32
    BY <2>2, KnownWidths
  <2>3. CASE Declared(m, f) # I32
    <3>1. PICK q \in Mods : Declared(m, f) = mod_s_lookup(q, f.name)
      <4>1. CASE f.qual = NULL
        BY <1>1, <2>1, <2>3, <4>1, PlainField
      <4>2. CASE f.qual # NULL
        <5>1. KeyMod[f.qual] \in typed /\ frames # <<>>
          BY <2>1, <4>2, FieldUsable DEF At
        <5>2. KeyMod[f.qual] \in Mods
          BY <5>1 DEF IInv, Typing
        <5> QED
          BY <1>1, <2>1, <4>2, <5>2, PlainField
      <4> QED
        BY <4>1, <4>2
    <3>2. PICK s \in StructStmts(q) : Declared(m, f) = Struct(q, s)
      BY <1>1, <2>1, <3>1, ScopeFacts
    <3>3. PICK t : t = Declared(m, f)
      OBVIOUS
    <3>4. \E i \in typed : \E r \in StructStmts(i) :
              t = Struct(i, r) /\ structs[i][r].width # WIDTH_UNKNOWN
      <4>1. Solid(t) /\ t = Struct(q, s)
        BY <3>2, <3>3
      <4> QED
        BY <4>1, SolidKinds, Distinct
    <3>5. PICK i \in typed : \E r \in StructStmts(i) :
              t = Struct(i, r) /\ structs[i][r].width # WIDTH_UNKNOWN
      BY <3>4
    <3>6. PICK r \in StructStmts(i) : t = Struct(i, r) /\ structs[i][r].width # WIDTH_UNKNOWN
      BY <3>5
    <3>7. structs[i][r].width >= 0
      BY <3>6 DEF NonNeg
    <3>8. width(t) = structs[i][r].width
      BY <3>6, KnownWidths
    <3> QED
      BY <3>3, <3>7, <3>8
  <2> QED
    BY <2>2, <2>3
<1> QED
  BY <1>2, <1>3

(* A declaration that is ready gets a width, and none that is negative.    *)
LEMMA FilledNonNeg ==
    ASSUME IInv, Scoped, Sized, AllPlain, NonNeg, At("struct"), NEW m, m = Top.mod,
           NEW s, NEW new, Filled(m, s, new), structs[m][s].width = WIDTH_UNKNOWN, Ready(Current)
    PROVE  new.width \in Int /\ new.width >= 0
<1>1. /\ m \in typed /\ s \in StructStmts(m) /\ prog[m][s] = Current /\ s = at[m]
      /\ Becomes(Current, m, s, new) /\ Plain(m)
  BY DEF Filled, AllPlain, IInv, Typing
<1>2. PICK old \in StructType : old = structs[m][s] /\ old.align = 0 /\ old.width = WIDTH_UNKNOWN
  BY <1>1, StructFacts DEF Sized, IInv
<1>3. PICK named \in StructType : /\ named = Renamed(old, Current)
                                  /\ named.width = WIDTH_UNKNOWN /\ named.align = 0
  <2>1. Current.name \in Names
    BY CurrentFacts, OpFacts
  <2>2. /\ Renamed(old, Current) \in StructType
        /\ Renamed(old, Current).width = old.width /\ Renamed(old, Current).align = old.align
    BY <1>2, <2>1 DEF Renamed, StructType
  <2> QED
    BY <1>2, <2>2
<1>4. PICK types : types = FieldTypes(Current)
  OBVIOUS
<1>5. new = ty_fill_width_align(named, types)
  BY <1>1, <1>2, <1>3, <1>4 DEF Becomes
<1>6. PICK fields : fields = Current.fields
  OBVIOUS
<1>7. /\ fields \in Seq(Field) /\ DOMAIN types = DOMAIN fields
      /\ \A i \in DOMAIN fields : /\ types[i] = Declared(m, fields[i])
                                  /\ Solid(Declared(m, fields[i]))
                                  /\ width(types[i]) \in Int /\ align(types[i]) \in Int
  BY <1>1, <1>4, <1>6, ReadyDeclared
<1>8. PICK n \in Nat : DOMAIN fields = 1 .. n
  BY <1>7
<1>9. \A i \in 1 .. n : width(types[i]) >= 0
  <2> SUFFICES ASSUME NEW i \in 1 .. n PROVE width(types[i]) >= 0
    OBVIOUS
  <2>1. i \in DOMAIN Current.fields /\ fields[i] \in FieldsAt(m, at[m])
    BY <1>1, <1>6, <1>8 DEF FieldsAt
  <2>2. typecheck_lookup_ident_mod(fields[i]) # NULL
    BY <1>6, <2>1 DEF Ready, Unknown
  <2>3. types[i] = Declared(m, fields[i]) /\ Solid(Declared(m, fields[i]))
    BY <1>7, <1>8
  <2> QED
    BY <2>1, <2>2, <2>3, SolidNonNeg
<1>10. PICK w : w = Total([i \in DOMAIN types |-> width(types[i])])
  OBVIOUS
<1>11. DOMAIN types = 1 .. n /\ \A i \in 1 .. n : width(types[i]) \in Int /\ align(types[i]) \in Int
  BY <1>7, <1>8
<1>12. w \in Int /\ w >= 0 /\ (w # WIDTH_UNKNOWN => new.width = w)
  BY <1>3, <1>5, <1>9, <1>10, <1>11, FillFacts
<1> QED
  BY <1>12 DEF WIDTH_UNKNOWN

LEMMA StepNonNeg == IInv /\ Scoped /\ Sized /\ NonNeg /\ [Next]_vars => NonNeg'
<1> SUFFICES ASSUME IInv, Scoped, Sized, NonNeg, [Next]_vars PROVE NonNeg'
  OBVIOUS
<1> SUFFICES ASSUME AllPlain,
                    NEW m \in typed', NEW s \in StructStmts(m),
                    structs'[m][s].width # WIDTH_UNKNOWN
             PROVE  structs'[m][s].width >= 0
  <2>1. (AllPlain' <=> AllPlain) /\ \A m : StructStmts(m)' = StructStmts(m)
    <3>1. prog' = prog
      BY StepKinds
    <3>2. AllPlain' <=> AllPlain
      BY <3>1, SamePlain
    <3>3. \A m : StructStmts(m)' = StructStmts(m)
      BY <3>1, SameSource
    <3> QED
      BY <3>1, <3>2, <3>3
  <2> QED
    BY <2>1 DEF NonNeg, WIDTH_UNKNOWN
<1>1. m \in Mods /\ Plain(m)
  <2>1. m \in typed \/ m \in Mods
    <3>1. CASE Entering
      BY <3>1 DEF Entering, Enter
    <3>2. CASE CheckStruct \/ Quiet
      BY <3>2 DEF CheckStruct, Quiet
    <3> QED
      BY <3>1, <3>2, StepKinds
  <2> QED
    BY <2>1 DEF IInv, Typing, AllPlain
<1>2. /\ m \in typed
      /\ \/ structs[m][s].width # WIDTH_UNKNOWN
         \/ /\ structs[m][s].width = WIDTH_UNKNOWN /\ CheckStruct /\ m = Top.mod
            /\ Filled(m, s, structs'[m][s])
  BY <1>1, WidthComes
<1>3. CASE structs[m][s].width # WIDTH_UNKNOWN
  <2>1. structs'[m][s].width = structs[m][s].width
    BY <1>1, <1>2, <1>3, StepSized DEF Frozen, Sized
  <2> QED
    BY <1>2, <1>3, <2>1 DEF NonNeg
<1>4. CASE structs[m][s].width = WIDTH_UNKNOWN
  <2>1. PICK new : new = structs'[m][s]
    OBVIOUS
  <2>2. CheckStruct /\ m = Top.mod /\ Filled(m, s, new) /\ new.width # WIDTH_UNKNOWN
    BY <1>2, <1>4, <2>1
  <2>3. At("struct") /\ Becomes(Current, m, s, new)
    BY <2>2 DEF CheckStruct, Filled
  <2>4. Ready(Current)
    BY <1>2, <1>4, <2>2, <2>3, StructFacts DEF Becomes, Renamed, StructType, IInv, Filled
  <2>5. new.width >= 0
    BY <1>4, <2>2, <2>3, <2>4, FilledNonNeg
  <2> QED
    BY <2>1, <2>5
<1> QED
  BY <1>3, <1>4

(* A field whose type is not found is not known to its statement. *)
LEMMA NotFoundUnknown ==
    ASSUME IInv, Scoped, At("struct"), NEW m, m = Top.mod, Plain(m),
           NEW f \in FieldsAt(m, at[m]), typecheck_lookup_ident_mod(f) = NULL
    PROVE  ~Known(m, at[m], f)
<1>1. m \in Mods /\ ctx.mod = m /\ frames # <<>>
  BY CurrentFacts DEF At
<1>2. f \in Field /\ (f.qual = NULL => ctx.locals[f.name] = NULL)
  BY PlainField
<1>3. f.qual \in Names \cup {NULL} /\ f.name \in Names
  BY <1>2 DEF Field
<1>4. CASE f.qual = NULL
  <2>1. scope_lookup(f.name) = NULL /\ ctx.locals[f.name] = NULL
    BY <1>2, <1>4 DEF typecheck_lookup_ident_mod
  <2>2. I32 # NULL
    BY NullTypeAssumption DEF Type
  <2> QED
    BY <1>1, <1>4, <2>1, <2>2 DEF scope_lookup, Known
<1>5. CASE f.qual # NULL
  <2> SUFFICES ASSUME NEW r \in 1 .. at[m] - 1, prog[m][r].op = "import", prog[m][r].path = f.qual,
                      Found(f.qual), mod_s_lookup(KeyMod[f.qual], f.name) # NULL
               PROVE  FALSE
    BY <1>5 DEF Known
  <2>1. AliasesMade(ctx, at[m] - 1)
    BY <1>1 DEF Scoped
  <2>2. ctx.aliases[f.qual] = KeyMod[f.qual]
    BY <1>1, <2>1 DEF AliasesMade
  <2>3. typecheck_lookup_ident_mod(f) = mod_s_lookup(KeyMod[f.qual], f.name)
    BY <1>5, <2>2 DEF typecheck_lookup_ident_mod, Found
  <2> QED
    BY <2>3
<1> QED
  BY <1>4, <1>5

(* What a checked declaration is still waiting for is asked for. *)
LEMMA WaitsAwaited ==
    ASSUME IInv, Scoped, Sized, Named, AllPlain, At("struct"), NEW m, m = Top.mod,
           NEW f \in FieldsAt(m, at[m]), Waits(f)
    PROVE  \E q \in typed : \E r \in StructStmts(q) :
               /\ ~f.ptr /\ Declared(m, f) = Struct(q, r) /\ structs[q][r].width = WIDTH_UNKNOWN
               /\ Request(f, Struct(m, at[m]), prog[m][at[m]].name) = <<q, prog[q][r].name>>
<1>1. /\ m \in Mods /\ m \in typed /\ ctx.mod = m /\ frames # <<>> /\ Plain(m)
  BY CurrentFacts DEF At, AllPlain
<1>2. f \in Field
  BY <1>1, PlainField
<1>3. PICK q \in typed : \E r \in StructStmts(q) :
          /\ typecheck_lookup_ident_mod(f) = Struct(q, r)
          /\ structs[q][r].width = WIDTH_UNKNOWN
          /\ q = IF f.qual = NULL THEN ctx.mod ELSE ctx.aliases[f.qual]
  BY <1>1, <1>2, WaitsFor
<1>4. PICK r \in StructStmts(q) :
          /\ typecheck_lookup_ident_mod(f) = Struct(q, r)
          /\ structs[q][r].width = WIDTH_UNKNOWN
          /\ q = IF f.qual = NULL THEN ctx.mod ELSE ctx.aliases[f.qual]
  BY <1>3
<1>5. typecheck_lookup_ident_mod(f) # NULL /\ ~f.ptr
  BY <1>1, <1>2, WaitsFor
<1>6. Declared(m, f) = Struct(q, r)
  BY <1>1, <1>4, <1>5, PlainField DEF FieldType
<1>7. Request(f, Struct(m, at[m]), prog[m][at[m]].name) = <<q, prog[q][r].name>>
  <2>1. Struct(q, r).mod = q /\ Struct(q, r).idx = r
        /\ (Struct(q, r) = Struct(m, at[m]) => q = m /\ r = at[m])
    BY DEF Struct
  <2>2. q \in Mods
    BY DEF IInv, Typing
  <2>3. structs[q][r].name = prog[q][r].name
    BY <2>2 DEF Named, AllPlain
  <2> QED
    BY <1>4, <2>1, <2>3 DEF Request
<1> QED
  BY <1>4, <1>5, <1>6, <1>7

LEMMA StepAwaited ==
    IInv /\ Scoped /\ Sized /\ Named /\ NonNeg /\ Awaited /\ [Next]_vars => Awaited'
<1> SUFFICES ASSUME IInv, Scoped, Sized, Named, NonNeg, Awaited, [Next]_vars PROVE Awaited'
  OBVIOUS
<1> SUFFICES ASSUME AllPlain,
                    outcome' # "awaited",
                    NEW m \in typed', NEW s \in StructStmts(m), s < at'[m],
                    structs'[m][s].width = WIDTH_UNKNOWN
             PROVE  \E f \in FieldsAt(m, s) : ~Known(m, s, f) \/ AwaitedBy(f, m)'
  <2>1. (AllPlain' <=> AllPlain) /\ prog' = prog /\ \A q : StructStmts(q)' = StructStmts(q)
    <3>1. prog' = prog
      BY StepKinds
    <3>2. AllPlain' <=> AllPlain
      BY <3>1, SamePlain
    <3>3. \A q : StructStmts(q)' = StructStmts(q)
      BY <3>1, SameSource
    <3> QED
      BY <3>1, <3>2, <3>3
  <2>2. \A q, r, f : (Known(q, r, f)' <=> Known(q, r, f)) /\ FieldsAt(q, r)' = FieldsAt(q, r)
    BY <2>1 DEF Known, FieldsAt, mod_s_lookup, StructStmts, Found
  <2> QED
    BY <2>1, <2>2 DEF Awaited, WIDTH_UNKNOWN
<1>1. /\ prog' = prog /\ typed \subseteq typed' /\ typed \subseteq Mods /\ Typing
      /\ at \in [Mods -> Nat \ {0}]
  BY Onward DEF IInv, Typing
<1>2. outcome # "awaited" /\ Frozen
  BY StepKinds, StepSized
<1>3. \A q : /\ StructStmts(q)' = StructStmts(q)
             /\ \A f : Declared(q, f)' = Declared(q, f)
  BY <1>1 DEF StructStmts, Declared, mod_s_lookup
<1>4. requests \subseteq requests'
  <2>1. CASE CheckStruct
    BY <2>1, StructChecked DEF Becomes
  <2> QED
    BY <2>1, StepKinds DEF Quiet
<1>5. CASE m \in typed /\ s < at[m]
  <2>1. structs[m][s].width = WIDTH_UNKNOWN
    BY <1>1, <1>2, <1>5 DEF Frozen, Sized
  <2>2. PICK f \in FieldsAt(m, s) : ~Known(m, s, f) \/ AwaitedBy(f, m)
    BY <1>2, <1>5, <2>1 DEF Awaited
  <2>3. CASE AwaitedBy(f, m)
    <3>1. PICK q \in typed : \E r \in StructStmts(q) :
              /\ ~f.ptr /\ Declared(m, f) = Struct(q, r) /\ structs[q][r].width = WIDTH_UNKNOWN
              /\ <<q, prog[q][r].name>> \in requests
      BY <2>3 DEF AwaitedBy
    <3>2. PICK r \in StructStmts(q) :
              /\ ~f.ptr /\ Declared(m, f) = Struct(q, r) /\ structs[q][r].width = WIDTH_UNKNOWN
              /\ <<q, prog[q][r].name>> \in requests
      BY <3>1
    <3>3. structs'[q][r].width = WIDTH_UNKNOWN
      <4> SUFFICES ASSUME structs'[q][r].width # WIDTH_UNKNOWN PROVE FALSE
        OBVIOUS
      <4>1. Plain(q) /\ q \in typed' /\ q \in Mods
        BY <1>1 DEF AllPlain
      <4>2. CheckStruct /\ q = Top.mod /\ Filled(q, r, structs'[q][r])
        BY <3>2, <4>1, WidthComes
      <4>3. PICK new : new = structs'[q][r]
        OBVIOUS
      <4>4. Filled(q, r, new) /\ new.width # WIDTH_UNKNOWN
        BY <4>2, <4>3
      <4>5. Becomes(Current, q, r, new) /\ prog[q][r] = Current
        BY <4>4 DEF Filled
      <4>6. ctx.mod = q
        BY <4>2, CurrentFacts DEF CheckStruct
      <4>7. structs[q][r] \in StructType
        BY <1>1, StructFacts
      <4>8. new # Renamed(structs[q][r], Current)
        BY <3>2, <4>4, <4>7 DEF Renamed, StructType
      <4>9. outcome' = IF awaited(ctx.mod, Current.name) THEN "awaited" ELSE outcome
        BY <3>2, <4>5, <4>8 DEF Becomes
      <4>10. awaited(ctx.mod, Current.name)
        BY <3>2, <4>5, <4>6 DEF awaited
      <4> QED
        BY <4>9, <4>10
    <3>4. AwaitedBy(f, m)'
      <4>1. q \in typed' /\ r \in StructStmts(q)' /\ (Declared(m, f))' = Struct(q, r)
        BY <1>1, <1>3, <3>2
      <4>2. <<q, (prog[q][r].name)'>> \in requests'
        BY <1>1, <1>4, <3>2
      <4> QED
        BY <3>2, <3>3, <4>1, <4>2 DEF AwaitedBy, Struct, WIDTH_UNKNOWN
    <3> QED
      BY <3>4
  <2> QED
    BY <2>2, <2>3
<1>6. CASE ~(m \in typed /\ s < at[m])
  <2>1. CheckStruct /\ m \in typed /\ m = Top.mod /\ s = at[m]
    <3>1. CASE Entering
      <4>1. PICK i \in Mods \ typed : \E saved : Enter(i, saved)
        BY <3>1 DEF Entering
      <4>2. typed' = typed \cup {i} /\ at' = [at EXCEPT ![i] = 1]
        BY <4>1 DEF Enter
      <4>3. m \in Mods /\ m = i
        BY <1>1, <1>6, <4>2
      <4>4. at'[m] = 1 /\ s \in Nat \ {0}
        BY <1>1, <4>2, <4>3, StructStmtsFacts
      <4> QED
        BY <4>4
    <3>2. CASE Quiet
      <4>1. m \in typed /\ m \in Mods /\ ~(s < at[m])
        BY <1>1, <1>6, <3>2 DEF Quiet
      <4>2. s \in Nat /\ at[m] \in Nat /\ prog[m][s].op = "struct"
        BY <1>1, <4>1, StructStmtsFacts
      <4>3. at'[m] = at[m] \/ (at'[m] = at[m] + 1 /\ prog[m][at[m]].op # "struct")
        BY <3>2, <4>1 DEF Quiet
      <4> QED
        BY <4>1, <4>2, <4>3
    <3>3. CASE CheckStruct
      <4>1. m \in typed /\ m \in Mods /\ ~(s < at[m])
        BY <1>1, <1>6, <3>3 DEF CheckStruct
      <4>2. s \in Nat /\ at[m] \in Nat
        BY <1>1, <4>1, StructStmtsFacts
      <4>3. PICK t : t = Top.mod
        OBVIOUS
      <4>4. at'[t] = at[t] + 1 /\ \A i \in Mods \ {t} : at'[i] = at[i]
        BY <3>3, <4>3, NextStmt DEF CheckStruct
      <4>5. m = t
        BY <4>1, <4>4
      <4>6. s = at[m]
        BY <4>1, <4>2, <4>4, <4>5
      <4> QED
        BY <3>3, <4>1, <4>3, <4>5, <4>6
    <3> QED
      BY <3>1, <3>2, <3>3, StepKinds
  <2>2. At("struct") /\ Plain(m) /\ m \in Mods
    BY <1>1, <2>1 DEF CheckStruct, AllPlain
  <2>3. PICK i \in StructStmts(m) : \E new : Filled(m, i, new)
    BY <2>1, <2>2, PlainChecked
  <2>4. PICK new : Filled(m, s, new)
    BY <2>1, <2>3 DEF Filled
  <2>5. /\ Becomes(Current, m, s, new) /\ Replaced(m, s, new) /\ prog[m][s] = Current
        /\ new = structs'[m][s]
    BY <2>4 DEF Filled, Replaced
  <2>6. structs[m][s].width = WIDTH_UNKNOWN
    BY <1>2, <2>1, <2>2 DEF Frozen, Sized
  <2>7. ~Ready(Current)
    <3> SUFFICES ASSUME Ready(Current) PROVE FALSE
      OBVIOUS
    <3>1. new.width \in Int /\ new.width >= 0
      BY <2>1, <2>2, <2>4, <2>6, FilledNonNeg
    <3> QED
      BY <2>5, <3>1 DEF WIDTH_UNKNOWN
  <2>8. CASE Unknown(Current)
    <3>1. PICK f \in FieldsAt(m, s) : typecheck_lookup_ident_mod(f) = NULL
      BY <2>5, <2>8 DEF Unknown, FieldsAt
    <3>2. ~Known(m, s, f)
      BY <2>1, <2>2, <3>1, NotFoundUnknown
    <3> QED
      BY <3>2
  <2>9. CASE Waiting(Current) # {}
    <3>1. PICK f \in Waiting(Current) : TRUE
      BY <2>9
    <3>2. f \in FieldsAt(m, s) /\ Waits(f)
      BY <2>5, <3>1 DEF Waiting, Fields, FieldsAt
    <3>3. PICK q \in typed : \E r \in StructStmts(q) :
               /\ ~f.ptr /\ Declared(m, f) = Struct(q, r) /\ structs[q][r].width = WIDTH_UNKNOWN
               /\ Request(f, Struct(m, s), prog[m][s].name) = <<q, prog[q][r].name>>
      BY <2>1, <2>2, <3>2, WaitsAwaited
    <3>4. PICK r \in StructStmts(q) :
               /\ ~f.ptr /\ Declared(m, f) = Struct(q, r) /\ structs[q][r].width = WIDTH_UNKNOWN
               /\ Request(f, Struct(m, s), prog[m][s].name) = <<q, prog[q][r].name>>
      BY <3>3
    <3>5. requests' = requests \cup {Request(g, Struct(m, s), Current.name) : g \in Waiting(Current)}
      BY <2>5, <2>6, <2>7 DEF Becomes
    <3>6. <<q, prog[q][r].name>> \in requests'
      BY <2>5, <3>1, <3>4, <3>5
    <3>7. structs'[q][r].width = WIDTH_UNKNOWN
      <4>1. q \in Mods /\ r \in DOMAIN structs[q]
        BY <1>1, <3>4 DEF Sized
      <4>2. CASE q = m /\ r = s
        BY <2>5, <4>2
      <4>3. CASE q # m \/ r # s
        BY <2>5, <3>4, <4>1, <4>3 DEF Replaced
      <4> QED
        BY <4>2, <4>3
    <3>8. AwaitedBy(f, m)'
      <4>1. q \in typed' /\ r \in StructStmts(q)' /\ (Declared(m, f))' = Struct(q, r)
        BY <1>1, <1>3, <3>4
      <4>2. <<q, (prog[q][r].name)'>> \in requests'
        BY <1>1, <3>6
      <4> QED
        BY <3>4, <3>7, <4>1, <4>2 DEF AwaitedBy, Struct, WIDTH_UNKNOWN
    <3> QED
      BY <3>2, <3>8
  <2> QED
    BY <2>7, <2>8, <2>9 DEF Ready
<1> QED
  BY <1>5, <1>6

THEOREM AlwaysAwaited == Spec => [](NonNeg /\ Awaited)
<1>1. Init => NonNeg /\ Awaited
  BY DEF Init, NonNeg, Awaited
<1>2. IInv /\ Scoped /\ Sized /\ Named /\ NonNeg /\ Awaited /\ [Next]_vars => (NonNeg /\ Awaited)'
  BY StepNonNeg, StepAwaited
<1> QED
  BY <1>1, <1>2, Sizing, Checkable, PTL DEF Spec

(* After a check of plain modules, a struct without a width has a field    *)
(* that is not known or has none itself (typecheck.c:387-404).             *)
THEOREM AlwaysUnresolvedExplained == Spec => []UnresolvedExplained
<1>1. IInv /\ Complete /\ Awaited => UnresolvedExplained
  <2> SUFFICES ASSUME IInv, Complete, Awaited, outcome = "done", AllPlain,
                      NEW m \in Mods, NEW s \in StructStmts(m),
                      ~ty_is_initialized(mod_s_lookup(m, prog[m][s].name))
               PROVE  \E f \in FieldsAt(m, s) : \/ ~Known(m, s, f)
                                                \/ ~ty_is_initialized(Declared(m, f))
    BY DEF UnresolvedExplained, AllPlain
  <2>1. Typing /\ Plain(m) /\ m \in typed /\ at[m] = Len(prog[m]) + 1
    BY DEF IInv, Complete, AllPlain
  <2>2. s \in 1 .. Len(prog[m]) /\ Len(prog[m]) \in Nat
    BY <2>1, StructStmtsFacts
  <2>3. s < at[m]
    BY <2>1, <2>2
  <2>4. structs[m][s].width = WIDTH_UNKNOWN
    BY <2>1, PlainScope, Initialized
  <2>5. PICK f \in FieldsAt(m, s) : ~Known(m, s, f) \/ AwaitedBy(f, m)
    BY <2>1, <2>3, <2>4 DEF Awaited
  <2>6. AwaitedBy(f, m) => ~ty_is_initialized(Declared(m, f))
    BY Initialized DEF AwaitedBy
  <2> QED
    BY <2>5, <2>6
<1> QED
  BY <1>1, Invariant, AlwaysComplete, AlwaysAwaited, PTL
=============================================================================
