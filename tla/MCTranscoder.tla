---------------------------- MODULE MCTranscoder ----------------------------
(***************************************************************************)
(* Small documents, field lists and key setups for TLC.                    *)
(***************************************************************************)
EXTENDS TranscoderCorrectness, FiniteSetsExt, TLC

CONSTANTS aes, ring1, id, one, dflt, b1, b2

Plain == [base: Bases, wraps: {0}]

\* The trees of NodeCount values with names from S: parents come first, and of
\* two siblings the first in the order of the names.
Trees(S) ==
    {t \in [parent: [2..NodeCount -> DocNodes], name: [2..NodeCount -> S]] :
       \A n \in 2..NodeCount :
          /\ t.parent[n] < n
          /\ \A j \in 2..(n - 1) :
               /\ t.parent[j] <= t.parent[n]
               /\ t.parent[j] = t.parent[n] => Before(t.name[j], t.name[n])}

TreeMembers(t) ==
    [n \in DocNodes |->
       LET children == {c \in 2..NodeCount : t.parent[c] = n}
       IN  [k \in {t.name[c] : c \in children} |->
              CHOOSE c \in children : t.name[c] = k]]

\* A value with members is an object, except that one may be an array.
Kinded(members) ==
    LET inner == {n \in DocNodes : DOMAIN members[n] # {}}
    IN  {[kind |-> [n \in DocNodes |-> IF n \notin inner THEN "leaf"
                                       ELSE IF n = a THEN "array" ELSE "object"],
          members |-> members] : a \in inner \cup {0}}

DocumentsOver(S) == UNION {Kinded(TreeMembers(t)) : t \in Trees(S)}

\* All lists of at most len fields with these paths, all for the default.
Lists(paths, len) ==
    UNION {[1..l -> [path: paths, alias: {Absent}]] : l \in 0..len}

PathsUpTo(S, len) == UNION {[1..l -> S] : l \in 0..len}

\* Lists of fields that lie on one path: each below the other.
OnOnePath(lists) ==
    {f \in lists : \A i, j \in DOMAIN f :
        LET m == Min({Len(f[i].path), Len(f[j].path)})
        IN  SubSeq(f[i].path, 1, m) = SubSeq(f[j].path, 1, m)}

\* One keyring with one key, a default encrypter and its decrypter.
Ready ==
    [keys |-> [r \in Rings |-> [i \in KeyIds |-> b1]],
     encrypters |-> [a \in Aliases |->
        IF a = DefaultAlias THEN [alg |-> aes, ring |-> ring1, kid |-> id] ELSE Absent],
     decrypters |-> [a \in Algorithms |-> ring1]]

\* The same before the key and the decrypter are there.
Bare ==
    [Ready EXCEPT !.keys = [r \in Rings |-> [i \in KeyIds |-> Absent]],
                  !.decrypters = [a \in Algorithms |-> Absent]]

MCBases == {-1, 1}
MCPlaintexts == 1..(NodeCount + MaxEnvelopes)
MCSetups == {Ready, Bare}
MCReady == {Ready}

\* Every document of NodeCount values whose names do not start with the prefix,
\* and every list of two paths of up to two names, good or bad.
MCDocuments == DocumentsOver(Plain)
MCFieldLists == Lists(PathsUpTo(Plain, 2), 2)

\* The documents that are one deep path, and every list of nested fields.
MCChains == 
    {d \in MCDocuments :
       \A n \in 2..NodeCount : \E k \in Plain : d.members[n - 1] = (k :> n)}
MCNestedLists == OnOnePath(Lists(PathsUpTo(Plain, 3) \ {<< >>}, 3))

\* Documents and lists in which names may already start with the prefix.
Reserved == [base: Bases, wraps: 0..1]
MCReservedDocuments == DocumentsOver(Reserved)
MCReservedLists == Lists(PathsUpTo(Reserved, 2), 1) \cup Lists(PathsUpTo(Reserved, 1), 2)
MCShortLists == Lists(PathsUpTo(Plain, 1), 1)
MCTopLevelReserved == Lists({<<k>> : k \in Reserved}, 2)
=============================================================================
