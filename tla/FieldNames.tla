----------------------------- MODULE FieldNames -----------------------------
(***************************************************************************)
(* The member names of a JSON object as the default manager sees them:     *)
(* the encrypted-field prefix, mangling, and the order in which std::map   *)
(* (tao::json's object) visits the names.                                  *)
(*                                                                         *)
(* Only what these operations tell apart is kept of a string.  A name is a *)
(* base, which does not itself start with the prefix, behind some number   *)
(* of copies ("wraps") of the prefix.  A negative base sorts before the    *)
(* prefix and a positive one after it, so with the default prefix          *)
(* "encrypted$" a name such as "card" has a negative base and "pin" a      *)
(* positive one, and "encrypted$pin" is [base |-> 1, wraps |-> 1].         *)
(***************************************************************************)
EXTENDS Integers, FiniteSets

CONSTANTS
    Bases,          \* the bases in use, non-zero integers, finitely many
    MaxWraps,       \* bound: the largest number of prefixes on a name
    EmptyPrefix     \* TRUE: the manager was constructed with the prefix ""

ASSUME FieldNamesAssumption ==
    /\ Bases \subseteq Int \ {0}
    /\ IsFiniteSet(Bases)
    /\ MaxWraps \in Nat
    /\ EmptyPrefix \in BOOLEAN

Names == [base: Bases, wraps: 0..MaxWraps]

\* Not the name of any member: the position of an iterator before the first.
Begin == [base |-> 0, wraps |-> 0]

\* default_manager::mangle: the prefix is put in front, whatever the name.
mangle(name) ==
    IF EmptyPrefix THEN name ELSE [name EXCEPT !.wraps = @ + 1]

\* Mutant: every name passes for a mangled one.
is_mangled_always(name) == TRUE

\* default_manager::is_mangled: the name starts with the prefix.
is_mangled(name) == EmptyPrefix \/ name.wraps > 0

\* default_manager::demangle takes the prefix off.  It does not check that
\* there is one (the TODO in its body); the library only calls it on names
\* for which is_mangled has just held.
demangle(name) ==
    IF EmptyPrefix THEN name ELSE [name EXCEPT !.wraps = @ - 1]

\* The lexicographic order of the names.  Once the common prefixes are taken
\* off, one name is a bare base and the other starts with the prefix, or both
\* are bare bases.
Before(a, b) ==
    \/ a = Begin /\ b # Begin
    \/ /\ a # Begin /\ b # Begin
       /\ \/ a.wraps = b.wraps /\ a.base < b.base
          \/ a.wraps < b.wraps /\ a.base < 0
          \/ a.wraps > b.wraps /\ b.base > 0

\* Mutant: the iterator is not moved on.
Following_inclusive(S, at) ==
    {k \in S : ~Before(k, at) /\ \A j \in S : ~Before(j, at) => ~Before(j, k)}

\* What an iterator over the names of S stands on after it left the name at.
Following(S, at) ==
    {k \in S : Before(at, k) /\ \A j \in S : Before(at, j) => ~Before(j, k)}
=============================================================================
