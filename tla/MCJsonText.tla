----------------------------- MODULE MCJsonText -----------------------------
(***************************************************************************)
(* Small values for TLC.                                                   *)
(***************************************************************************)
EXTENDS JsonText, FiniteSetsExt

CONSTANTS a, b, blob

RECURSIVE MCDepth(_)
MCDepth(v) == Max({0} \cup {1 + MCDepth(v.members[i].value) : i \in DOMAIN v.members})

Leaves == {Atom(x) : x \in Atoms \cup Unwritable}

Contents(values, names, len) ==
    UNION {[1..l -> [key: names, value: values]] : l \in 0..len}

Over(values, len) ==
    {Container("array", m) : m \in Contents(values, {None}, len)}
    \cup {Container("object", m) : m \in Contents(values, Keys, len)}

MCKeys == 1..2

\* All values of two levels with up to two members, and three levels over them
\* where the inner ones have up to one.
Flat == Over({Atom(a)}, 1)
Small == Over(Leaves, 2)
MCDocuments ==
    Leaves \cup Small \cup Over({Atom(a), Atom(b)} \cup Flat, 3) \cup Over(Over(Flat, 1), 2)
=============================================================================
