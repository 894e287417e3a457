----------------------------- MODULE ModulePass -----------------------------
(***************************************************************************)
(* What checking a set of modules promises, whatever they import: each     *)
(* module is opened once, on its own or inside another one, and the one    *)
(* opened last is the first to be closed.                                  *)
(***************************************************************************)
EXTENDS Sequences, Integers

CONSTANT Mods

VARIABLES opened,   \* the modules being checked, the innermost last
          closed    \* the modules checked

vars == <<opened, closed>>

OpenedSet == {opened[k] : k \in DOMAIN opened}

TypeOK == opened \in Seq(Mods) /\ closed \subseteq Mods

Init == opened = <<>> /\ closed = {}

Open(m) == /\ m \notin OpenedSet \cup closed
           /\ opened' = Append(opened, m)
           /\ UNCHANGED closed

Close == /\ opened # <<>>
         /\ closed' = closed \cup {opened[Len(opened)]}
         /\ opened' = SubSeq(opened, 1, Len(opened) - 1)

Next == (\E m \in Mods : Open(m)) \/ Close

Spec == Init /\ [][Next]_vars
=============================================================================
