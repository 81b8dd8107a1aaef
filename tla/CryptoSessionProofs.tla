------------------------- MODULE CryptoSessionProofs -------------------------
(***************************************************************************)
(* Applications that use any transcoders, lists and keys see a store of    *)
(* plain documents.  The inductive invariant says that what is stored, and *)
(* what each client holds, is well formed, and that behind its envelopes   *)
(* there is a document some client made.                                   *)
(*                                                                         *)
(* Sealing and opening are the same at both levels of a document, and      *)
(* proved once for members of any kind; a document has them twice.         *)
(***************************************************************************)
EXTENDS CryptoSessionCorrectness, CryptoManagerProofs, SequenceTheorems

-----------------------------------------------------------------------------
(* Names and values.                                                       *)

\* The names without the prefix, and those with it once.
LEMMA NameFacts ==
    /\ \A k \in PlainNames :
         /\ k \in Names /\ ~is_mangled(k)
         /\ mangle(k) \in Names /\ is_mangled(mangle(k)) /\ demangle(mangle(k)) = k
    /\ \A k \in Names :
         /\ ~is_mangled(k) => k \in PlainNames
         /\ is_mangled(k) => mangle(demangle(k)) = k
<1>1. ASSUME NEW k \in PlainNames
      PROVE  /\ k \in Names /\ ~is_mangled(k)
             /\ mangle(k) \in Names /\ is_mangled(mangle(k)) /\ demangle(mangle(k)) = k
  <2>1. k \in Names /\ ~is_mangled(k)
    BY DEF PlainNames
  <2>2. k = [base |-> k.base, wraps |-> 0] /\ k.base \in Bases
    BY <2>1, FieldNamesAssumption DEF Names, is_mangled
  <2>3. mangle(k) = [base |-> k.base, wraps |-> 1]
    BY <2>2, PlainNamesAssumption DEF mangle
  <2>4. mangle(k) \in Names
    BY <2>2, <2>3, PlainNamesAssumption, FieldNamesAssumption DEF Names
  <2>5. QED BY <2>1, <2>4, DemangleMangle
<1>2. ASSUME NEW k \in Names
      PROVE  /\ ~is_mangled(k) => k \in PlainNames
             /\ is_mangled(k) => mangle(demangle(k)) = k
  <2>1. k = [base |-> k.base, wraps |-> k.wraps] /\ k.wraps \in Nat
    BY FieldNamesAssumption DEF Names
  <2>2. demangle(k) = [base |-> k.base, wraps |-> k.wraps - 1]
    BY <2>1, PlainNamesAssumption DEF demangle
  <2>3. mangle(demangle(k)) = [base |-> k.base, wraps |-> (k.wraps - 1) + 1]
    BY <2>2, PlainNamesAssumption DEF mangle
  <2>4. QED BY <2>1, <2>3 DEF PlainNames
<1>3. QED BY <1>1, <1>2

\* No value of V is an envelope.
Bare(V) == \A u \in V : u.form # "envelope"

IsMap(f) == f = [k \in DOMAIN f |-> f[k]]

\* The members of an object of values of V and envelopes of such.
Filed(m, V) ==
    /\ DOMAIN m \subseteq Names
    /\ m \in [DOMAIN m -> V \cup SealedValues(V)]
    /\ Named(m)

LEMMA ValueParts ==
    /\ \A x : /\ Leaf(x).form = "leaf" /\ Leaf(x).content = x
              /\ Leaf(x).members = << >> /\ Leaf(x).node = Absent
    /\ \A m : /\ Object(m).form = "object" /\ Object(m).content = Absent
              /\ Object(m).members = m /\ Object(m).node = Absent
    /\ \A n : /\ Envelope(n).form = "envelope" /\ Envelope(n).content = Absent
              /\ Envelope(n).members = << >> /\ Envelope(n).node = n
  BY DEF Leaf, Object, Envelope, Value

\* What an envelope is made of.
LEMMA SealedParts ==
    ASSUME NEW V, NEW e \in SealedValues(V)
    PROVE  /\ e.form = "envelope" /\ e = Envelope(e.node)
           /\ e.node.alg \in Algorithms /\ e.node.kid \in KeyIds
           /\ e.node.ciphertext.alg = e.node.alg
           /\ e.node.ciphertext.key \in KeyBytes
           /\ e.node.ciphertext.plain \in V
           /\ e.node.ciphertext = [alg |-> e.node.ciphertext.alg, key |-> e.node.ciphertext.key,
                                   plain |-> e.node.ciphertext.plain]
           /\ e.node = [alg |-> e.node.alg, kid |-> e.node.kid, ciphertext |-> e.node.ciphertext]
<1>1. PICK a \in Algorithms, i \in KeyIds, b \in KeyBytes, u \in V :
        e = Envelope([alg |-> a, kid |-> i, ciphertext |-> [alg |-> a, key |-> b, plain |-> u]])
  BY SMTT(30) DEF SealedValues
<1>2. e.node = [alg |-> a, kid |-> i, ciphertext |-> [alg |-> a, key |-> b, plain |-> u]]
  BY <1>1, ValueParts
<1>3. e.form = "envelope"
  BY <1>1, ValueParts
<1>4. QED BY <1>1, <1>2, <1>3

\* Names tell the envelopes from the rest.
LEMMA FiledParts ==
    ASSUME NEW V, Bare(V), NEW m, Filed(m, V)
    PROVE  /\ IsMap(m)
           /\ \A k \in DOMAIN m :
                /\ k \in Names
                /\ is_mangled(k) =>
                     m[k] \in SealedValues(V) /\ demangle(k) \in PlainNames \ DOMAIN m
                /\ ~is_mangled(k) => m[k] \in V /\ k \in PlainNames
           /\ \A k \in PlainNames : k \in DOMAIN m => mangle(k) \notin DOMAIN m
<1>1. IsMap(m)
  BY DEF Filed, IsMap
<1>2. ASSUME NEW k \in DOMAIN m
      PROVE  /\ k \in Names
             /\ is_mangled(k) =>
                  m[k] \in SealedValues(V) /\ demangle(k) \in PlainNames \ DOMAIN m
             /\ ~is_mangled(k) => m[k] \in V /\ k \in PlainNames
  <2>1. k \in Names /\ m[k] \in V \cup SealedValues(V)
    BY DEF Filed
  <2>2. IF is_mangled(k) THEN m[k].form = "envelope" /\ demangle(k) \in PlainNames \ DOMAIN m
                         ELSE m[k].form # "envelope"
    BY DEF Filed, Named
  <2>3. QED BY <2>1, <2>2, SealedParts, NameFacts DEF Bare
<1>3. ASSUME NEW k \in PlainNames, k \in DOMAIN m, mangle(k) \in DOMAIN m
      PROVE  FALSE
  BY <1>2, <1>3, NameFacts
<1>4. QED BY <1>1, <1>2, <1>3

LEMMA FiledIntro ==
    ASSUME NEW V, Bare(V), NEW m, IsMap(m),
           \A k \in DOMAIN m :
             /\ k \in Names
             /\ is_mangled(k) =>
                  m[k] \in SealedValues(V) /\ demangle(k) \in PlainNames \ DOMAIN m
             /\ ~is_mangled(k) => m[k] \in V
    PROVE  Filed(m, V)
<1>1. m \in [DOMAIN m -> V \cup SealedValues(V)]
  <2>1. \A k \in DOMAIN m : m[k] \in V \cup SealedValues(V)
    OBVIOUS
  <2>2. QED BY <2>1 DEF IsMap
<1>2. Named(m)
  BY SealedParts DEF Named, Bare
<1>3. QED BY <1>1, <1>2 DEF Filed

-----------------------------------------------------------------------------
(* The members behind the envelopes.                                       *)

\* The names there are, under the prefix or without it.
Behind(m) == {k \in PlainNames : k \in DOMAIN m \/ mangle(k) \in DOMAIN m}

\* What is under the name k, or in the envelope under its mangled name.
Shown(m, k) == IF k \in DOMAIN m THEN m[k] ELSE m[mangle(k)].node.ciphertext.plain

LEMMA UncoveredIs ==
    ASSUME NEW V, Bare(V), NEW m, Filed(m, V)
    PROVE  /\ Uncovered(m) = [k \in Behind(m) |-> Shown(m, k)]
           /\ \A k \in Behind(m) : Shown(m, k) \in V
<1> DEFINE plain(k) == IF is_mangled(k) /\ demangle(k) \notin DOMAIN m THEN demangle(k) ELSE k
           contents(u) == IF u.form = "envelope" THEN u.node.ciphertext.plain ELSE u
           D == {plain(j) : j \in DOMAIN m}
<1>1. /\ \A k \in DOMAIN m :
           /\ k \in Names
           /\ is_mangled(k) =>
                m[k] \in SealedValues(V) /\ demangle(k) \in PlainNames \ DOMAIN m
           /\ ~is_mangled(k) => m[k] \in V /\ k \in PlainNames
      /\ \A k \in PlainNames : k \in DOMAIN m => mangle(k) \notin DOMAIN m
  BY FiledParts
<1>2. D = Behind(m)
  <2>1. ASSUME NEW j \in DOMAIN m PROVE plain(j) \in Behind(m)
    BY <1>1, NameFacts DEF Behind
  <2>2. ASSUME NEW k \in Behind(m) PROVE k \in D
    <3>1. CASE k \in DOMAIN m
      <4>1. plain(k) = k
        BY NameFacts DEF Behind
      <4>2. QED BY <3>1, <4>1
    <3>2. CASE k \notin DOMAIN m
      <4>1. mangle(k) \in DOMAIN m /\ plain(mangle(k)) = k
        BY <3>2, NameFacts DEF Behind
      <4>2. QED BY <4>1
    <3>3. QED BY <3>1, <3>2
  <2>3. QED BY <2>1, <2>2
<1>3. ASSUME NEW k \in Behind(m)
      PROVE  /\ contents(m[IF k \in DOMAIN m THEN k ELSE mangle(k)]) = Shown(m, k)
             /\ Shown(m, k) \in V
  <2>1. CASE k \in DOMAIN m
    <3>1. m[k] \in V
      BY <1>1, <2>1, NameFacts DEF Behind
    <3>2. QED BY <2>1, <3>1 DEF Shown, Bare
  <2>2. CASE k \notin DOMAIN m
    <3>1. m[mangle(k)] \in SealedValues(V)
      BY <1>1, <2>2, NameFacts DEF Behind
    <3>2. /\ m[mangle(k)].form = "envelope"
          /\ m[mangle(k)].node.ciphertext.plain \in V
      BY <3>1, SealedParts
    <3>3. QED BY <2>2, <3>2 DEF Shown
  <2>3. QED BY <2>1, <2>2
<1>4. Uncovered(m) = [k \in D |-> contents(m[IF k \in DOMAIN m THEN k ELSE mangle(k)])]
  BY DEF Uncovered
<1> HIDE DEF D, contents
<1>5. QED BY <1>2, <1>3, <1>4

\* What put and erase make of a map.
LEMMA PutParts ==
    ASSUME NEW f, NEW k, NEW v
    PROVE  /\ DOMAIN put(f, k, v) = DOMAIN f \cup {k}
           /\ put(f, k, v)[k] = v
           /\ \A j \in DOMAIN f \ {k} : put(f, k, v)[j] = f[j]
           /\ IsMap(put(f, k, v))
  BY DEF put, IsMap

LEMMA EraseParts ==
    ASSUME NEW f, NEW k
    PROVE  /\ DOMAIN erase(f, {k}) = DOMAIN f \ {k}
           /\ \A j \in DOMAIN f \ {k} : erase(f, {k})[j] = f[j]
  BY DEF erase, Restrict

\* One name gives way to another.
Moved(m, k, l, v) == put(erase(m, {k}), l, v)

IsMoved(n, m, k, l, v) ==
    /\ DOMAIN n = (DOMAIN m \ {k}) \cup {l}
    /\ n[l] = v
    /\ \A j \in DOMAIN m \ {k, l} : n[j] = m[j]
    /\ IsMap(n)

LEMMA MoveParts ==
    ASSUME NEW m, NEW k, NEW l, l # k, NEW v
    PROVE  IsMoved(Moved(m, k, l, v), m, k, l, v)
<1> DEFINE r == erase(m, {k})
           n == put(r, l, v)
<1>1. DOMAIN r = DOMAIN m \ {k} /\ \A j \in DOMAIN m \ {k} : r[j] = m[j]
  BY EraseParts
<1> HIDE DEF r
<1>2. /\ DOMAIN n = DOMAIN r \cup {l} /\ n[l] = v
      /\ \A j \in DOMAIN r \ {l} : n[j] = r[j]
      /\ IsMap(n)
  BY DEF put, IsMap
<1>3. n = Moved(m, k, l, v)
  BY DEF Moved, r
<1> HIDE DEF n
<1>4. QED BY <1>1, <1>2, <1>3 DEF IsMoved

\* Sealing a member shows the same.
LEMMA SealShows ==
    ASSUME NEW V, Bare(V), NEW m, Filed(m, V), NEW k \in PlainNames, k \in DOMAIN m,
           NEW e \in SealedValues({m[k]})
    PROVE  LET n == Moved(m, k, mangle(k), e)
           IN  Filed(n, V) /\ Uncovered(n) = Uncovered(m)
<1> DEFINE l == mangle(k)
           n == Moved(m, k, l, e)
<1>1. /\ IsMap(m)
      /\ \A j \in DOMAIN m :
           /\ j \in Names
           /\ is_mangled(j) =>
                m[j] \in SealedValues(V) /\ demangle(j) \in PlainNames \ DOMAIN m
           /\ ~is_mangled(j) => m[j] \in V /\ j \in PlainNames
      /\ l \notin DOMAIN m
  BY FiledParts
<1>2. l \in Names /\ is_mangled(l) /\ demangle(l) = k /\ k \in Names /\ ~is_mangled(k) /\ l # k
  BY NameFacts
<1>3. e \in SealedValues(V) /\ e.node.ciphertext.plain = m[k]
  <2>1. m[k] \in V
    BY <1>1, <1>2
  <2>2. PICK a \in Algorithms, i \in KeyIds, b \in KeyBytes, u \in {m[k]} :
          e = Envelope([alg |-> a, kid |-> i, ciphertext |-> [alg |-> a, key |-> b, plain |-> u]])
    BY SMTT(30) DEF SealedValues
  <2>3. u = m[k] /\ u \in V
    BY <2>1
  <2>4. e \in SealedValues(V)
    BY <2>2, <2>3 DEF SealedValues
  <2>5. e.node.ciphertext.plain \in {m[k]}
    BY SealedParts
  <2>6. QED BY <2>4, <2>5
<1> HIDE DEF l
<1>4. /\ DOMAIN n = (DOMAIN m \ {k}) \cup {l}
      /\ n[l] = e
      /\ \A j \in DOMAIN m \ {k, l} : n[j] = m[j]
      /\ IsMap(n)
  <2>1. IsMoved(n, m, k, l, e)
    BY <1>2, MoveParts
  <2>2. QED BY <2>1 DEF IsMoved
<1> HIDE DEF n
<1>5. Filed(n, V)
  <2>1. ASSUME NEW j \in DOMAIN n
        PROVE  /\ j \in Names
               /\ is_mangled(j) =>
                    n[j] \in SealedValues(V) /\ demangle(j) \in PlainNames \ DOMAIN n
               /\ ~is_mangled(j) => n[j] \in V
    <3>1. CASE j = l
      BY <1>2, <1>3, <1>4, <3>1
    <3>2. CASE j # l
      <4>1. j \in DOMAIN m /\ j # k /\ n[j] = m[j]
        BY <1>4, <3>2
      <4>2. is_mangled(j) => demangle(j) # l
        BY <1>1, <1>2, <4>1 DEF PlainNames
      <4>3. QED BY <1>1, <1>4, <4>1, <4>2
    <3>3. QED BY <3>1, <3>2
  <2>2. QED BY <1>4, <2>1, FiledIntro
<1>6. Behind(n) = Behind(m)
  <2>1. ASSUME NEW j \in PlainNames
        PROVE  (j \in DOMAIN n \/ mangle(j) \in DOMAIN n) <=> (j \in DOMAIN m \/ mangle(j) \in DOMAIN m)
    <3>1. j # l /\ mangle(j) # k /\ (mangle(j) = l => j = k)
      BY <1>2, NameFacts
    <3>2. QED BY <1>4, <3>1 DEF l
  <2>2. QED BY <2>1 DEF Behind
<1>7. ASSUME NEW j \in Behind(m) PROVE Shown(n, j) = Shown(m, j)
  <2>1. j \in PlainNames /\ (j \in DOMAIN m \/ mangle(j) \in DOMAIN m)
    BY DEF Behind
  <2>2. CASE j = k
    BY <1>2, <1>3, <1>4, <2>2 DEF Shown, l
  <2>3. CASE j # k
    <3>1. j # l /\ mangle(j) # k /\ mangle(j) # l
      BY <1>2, <2>1, <2>3, NameFacts
    <3>2. QED BY <1>4, <2>1, <2>3, <3>1 DEF Shown
  <2>4. QED BY <2>2, <2>3
<1>8. Uncovered(n) = Uncovered(m)
  <2>1. /\ Uncovered(n) = [j \in Behind(n) |-> Shown(n, j)]
        /\ Uncovered(m) = [j \in Behind(m) |-> Shown(m, j)]
    BY <1>5, UncoveredIs
  <2>2. QED BY <1>6, <1>7, <2>1
<1>9. QED BY <1>5, <1>8 DEF n, l

\* And so does putting a plaintext in the place of its envelope.
LEMMA UnsealShows ==
    ASSUME NEW V, Bare(V), NEW m, Filed(m, V), NEW k \in PlainNames, mangle(k) \in DOMAIN m
    PROVE  LET n == Moved(m, mangle(k), k, m[mangle(k)].node.ciphertext.plain)
           IN  Filed(n, V) /\ Uncovered(n) = Uncovered(m)
<1> DEFINE l == mangle(k)
           u == m[l].node.ciphertext.plain
           n == Moved(m, l, k, u)
<1>1. /\ IsMap(m)
      /\ \A j \in DOMAIN m :
           /\ j \in Names
           /\ is_mangled(j) =>
                m[j] \in SealedValues(V) /\ demangle(j) \in PlainNames \ DOMAIN m
           /\ ~is_mangled(j) => m[j] \in V /\ j \in PlainNames
  BY FiledParts
<1>2. l \in Names /\ is_mangled(l) /\ demangle(l) = k /\ k \in Names /\ ~is_mangled(k) /\ l # k
  BY NameFacts
<1>3. u \in V /\ k \notin DOMAIN m
  <2>1. l \in DOMAIN m
    OBVIOUS
  <2> HIDE DEF l
  <2>2. m[l] \in SealedValues(V) /\ k \notin DOMAIN m
    BY <1>1, <1>2, <2>1
  <2>3. QED BY <2>2, SealedParts
<1>4. l \in DOMAIN m
  OBVIOUS
<1> HIDE DEF l, u
<1>5. /\ DOMAIN n = (DOMAIN m \ {l}) \cup {k}
      /\ n[k] = u
      /\ \A j \in DOMAIN m \ {k, l} : n[j] = m[j]
      /\ IsMap(n)
  <2>1. IsMoved(n, m, l, k, u)
    BY <1>2, MoveParts
  <2>2. QED BY <2>1 DEF IsMoved
<1> HIDE DEF n
<1>6. Filed(n, V)
  <2>1. ASSUME NEW j \in DOMAIN n
        PROVE  /\ j \in Names
               /\ is_mangled(j) =>
                    n[j] \in SealedValues(V) /\ demangle(j) \in PlainNames \ DOMAIN n
               /\ ~is_mangled(j) => n[j] \in V
    <3>1. CASE j = k
      BY <1>2, <1>3, <1>5, <3>1
    <3>2. CASE j # k
      <4>1. j \in DOMAIN m /\ j # l /\ n[j] = m[j]
        BY <1>5, <3>2
      <4>2. is_mangled(j) => demangle(j) # k
        BY <1>1, <4>1, NameFacts DEF l
      <4>3. QED BY <1>1, <1>5, <4>1, <4>2
    <3>3. QED BY <3>1, <3>2
  <2>2. QED BY <1>5, <2>1, FiledIntro
<1>7. Behind(n) = Behind(m)
  <2>1. ASSUME NEW j \in PlainNames
        PROVE  (j \in DOMAIN n \/ mangle(j) \in DOMAIN n) <=> (j \in DOMAIN m \/ mangle(j) \in DOMAIN m)
    <3>1. j # l /\ mangle(j) # k /\ (mangle(j) = l => j = k)
      BY <1>2, NameFacts
    <3>2. QED BY <1>4, <1>5, <3>1 DEF l
  <2>2. QED BY <2>1 DEF Behind
<1>8. ASSUME NEW j \in Behind(m) PROVE Shown(n, j) = Shown(m, j)
  <2>1. j \in PlainNames /\ (j \in DOMAIN m \/ mangle(j) \in DOMAIN m)
    BY DEF Behind
  <2>2. CASE j = k
    BY <1>3, <1>5, <2>2 DEF Shown, l, u
  <2>3. CASE j # k
    <3>1. j # l /\ mangle(j) # k /\ mangle(j) # l
      BY <1>2, <2>1, <2>3, NameFacts
    <3>2. QED BY <1>5, <2>1, <2>3, <3>1 DEF Shown
  <2>4. QED BY <2>2, <2>3
<1>9. Uncovered(n) = Uncovered(m)
  <2>1. /\ Uncovered(n) = [j \in Behind(n) |-> Shown(n, j)]
        /\ Uncovered(m) = [j \in Behind(m) |-> Shown(m, j)]
    BY <1>6, UncoveredIs
  <2>2. QED BY <1>7, <1>8, <2>1
<1>10. QED BY <1>6, <1>9 DEF n, l, u

\* A member in the clear gives way to another.
LEMMA ReplaceShows ==
    ASSUME NEW V, Bare(V), NEW m, Filed(m, V), NEW k \in PlainNames, k \in DOMAIN m, NEW u \in V
    PROVE  LET n == [m EXCEPT ![k] = u]
           IN  Filed(n, V) /\ Uncovered(n) = [Uncovered(m) EXCEPT ![k] = u]
<1> DEFINE n == [m EXCEPT ![k] = u]
<1>1. /\ IsMap(m)
      /\ \A j \in DOMAIN m :
           /\ j \in Names
           /\ is_mangled(j) =>
                m[j] \in SealedValues(V) /\ demangle(j) \in PlainNames \ DOMAIN m
           /\ ~is_mangled(j) => m[j] \in V /\ j \in PlainNames
  BY FiledParts
<1>2. /\ DOMAIN n = DOMAIN m /\ n[k] = u /\ \A j \in DOMAIN m \ {k} : n[j] = m[j]
      /\ IsMap(n)
  BY <1>1 DEF IsMap
<1>3. ~is_mangled(k) /\ k \in Names /\ \A j \in PlainNames : mangle(j) # k
  BY NameFacts
<1> HIDE DEF n
<1>4. Filed(n, V)
  BY <1>1, <1>2, <1>3, FiledIntro
<1>5. Behind(n) = Behind(m) /\ k \in Behind(m)
  BY <1>2 DEF Behind
<1>6. \A j \in Behind(m) : Shown(n, j) = IF j = k THEN u ELSE Shown(m, j)
  BY <1>2, <1>3 DEF Shown, Behind
<1>7. /\ Uncovered(n) = [j \in Behind(n) |-> Shown(n, j)]
      /\ Uncovered(m) = [j \in Behind(m) |-> Shown(m, j)]
  BY <1>4, UncoveredIs
<1>8. Uncovered(n) = [Uncovered(m) EXCEPT ![k] = u]
  BY <1>5, <1>6, <1>7
<1>9. QED BY <1>4, <1>8 DEF n

\* Where no name has the prefix, nothing is behind an envelope.
LEMMA PlainShows ==
    ASSUME NEW V, Bare(V), NEW m, Filed(m, V), DOMAIN m \subseteq PlainNames
    PROVE  Uncovered(m) = m
<1>1. IsMap(m)
  BY FiledParts
<1>2. Behind(m) = DOMAIN m /\ \A j \in DOMAIN m : Shown(m, j) = m[j]
  BY NameFacts DEF Behind, Shown
<1>3. Uncovered(m) = [j \in Behind(m) |-> Shown(m, j)]
  BY UncoveredIs
<1>4. QED BY <1>1, <1>2, <1>3 DEF IsMap

-----------------------------------------------------------------------------
(* The two levels of a document.                                           *)

LEMMA EmptyMap == IsMap(<< >>) /\ DOMAIN << >> = {}
  BY DEF IsMap

\* A member that is no envelope is a leaf, or an object of leaves.
LEMMA InnerParts ==
    /\ Bare(Leaves) /\ Bare(Inner)
    /\ \A u \in Inner :
         \/ u \in Leaves /\ u.form = "leaf" /\ u.members = << >>
         \/ u = Object(u.members) /\ u.form = "object" /\ Filed(u.members, Leaves)
    /\ \A m : Filed(m, Leaves) => Object(m) \in Inner
<1>1. \A u \in Leaves : u.form = "leaf" /\ u.members = << >>
  BY ValueParts DEF Leaves
<1>2. ASSUME NEW u \in Inner, u \notin Leaves
      PROVE  u = Object(u.members) /\ u.form = "object" /\ Filed(u.members, Leaves)
  <2>1. PICK m \in InnerMembers : Named(m) /\ u = Object(m)
    BY <1>2 DEF Inner
  <2>2. PICK S \in SUBSET Names : m \in [S -> Leaves \cup SealedValues(Leaves)]
    BY DEF InnerMembers
  <2>3. Filed(m, Leaves)
    BY <2>1, <2>2 DEF Filed
  <2>4. QED BY <2>1, <2>3, ValueParts
<1>3. ASSUME NEW m, Filed(m, Leaves) PROVE Object(m) \in Inner
  <2>1. m \in [DOMAIN m -> Leaves \cup SealedValues(Leaves)] /\ DOMAIN m \in SUBSET Names /\ Named(m)
    BY <1>3 DEF Filed
  <2>2. m \in InnerMembers
    BY <2>1 DEF InnerMembers
  <2>3. QED BY <2>1, <2>2 DEF Inner
<1>4. Bare(Leaves) /\ Bare(Inner)
  BY <1>1, <1>2 DEF Bare
<1>5. QED BY <1>1, <1>2, <1>3, <1>4

LEMMA DocumentParts ==
    ASSUME NEW v
    PROVE  IsDocument(v) <=> v = Object(v.members) /\ Filed(v.members, Inner)
  BY DEF IsDocument, IsObject, Members, Filed

LEMMA DocumentIntro ==
    ASSUME NEW m, Filed(m, Inner)
    PROVE  IsDocument(Object(m))
  BY ValueParts, DocumentParts

LEMMA FlatParts ==
    /\ \A u \in Leaves : Flat(u) = u
    /\ \A m : Flat(Object(m)) = Object(Uncovered(m))
<1>1. ASSUME NEW u \in Leaves PROVE Flat(u) = u
  <2>1. PICK x \in Contents : u = Leaf(x)
    BY DEF Leaves
  <2>2. Filed(<< >>, Leaves)
    BY InnerParts, EmptyMap, FiledIntro
  <2>3. Uncovered(<< >>) = << >>
    BY <2>2, InnerParts, EmptyMap, PlainShows
  <2>4. u.members = << >>
    BY <2>1, ValueParts
  <2>5. Flat(u) = [u EXCEPT !.members = << >>]
    BY <2>3, <2>4 DEF Flat
  <2>6. QED BY <2>1, <2>5 DEF Leaf, Value
<1>2. ASSUME NEW m PROVE Flat(Object(m)) = Object(Uncovered(m))
  <2> DEFINE n == Uncovered(m)
  <2>1. Flat(Object(m)) = [Object(m) EXCEPT !.members = n]
    BY ValueParts DEF Flat
  <2> HIDE DEF n
  <2>2. [Object(m) EXCEPT !.members = n] = Object(n)
    BY DEF Object, Value
  <2>3. QED BY <2>1, <2>2 DEF n
<1>3. QED BY <1>1, <1>2

\* What the document behind an object is made of.
LEMMA OpenedIs ==
    ASSUME NEW m
    PROVE  Opened(Object(m)) = Object([k \in DOMAIN Uncovered(m) |-> Flat(Uncovered(m)[k])])
<1> DEFINE n == [k \in DOMAIN Uncovered(m) |-> Flat(Uncovered(m)[k])]
<1>1. Opened(Object(m)) = [Object(m) EXCEPT !.members = n]
  BY ValueParts DEF Opened
<1> HIDE DEF n
<1>2. [Object(m) EXCEPT !.members = n] = Object(n)
  BY DEF Object, Value
<1>3. QED BY <1>1, <1>2 DEF n

\* Sealing a member of a document, or putting it back, leaves the document
\* behind it as it is.
LEMMA SealDocument ==
    ASSUME NEW m, Filed(m, Inner), NEW k \in PlainNames, k \in DOMAIN m,
           NEW e \in SealedValues({m[k]})
    PROVE  LET v == Object(Moved(m, k, mangle(k), e))
           IN  IsDocument(v) /\ Opened(v) = Opened(Object(m))
<1> DEFINE n == Moved(m, k, mangle(k), e)
<1>1. Filed(n, Inner) /\ Uncovered(n) = Uncovered(m)
  BY InnerParts, SealShows
<1> HIDE DEF n
<1>2. IsDocument(Object(n))
  BY <1>1, DocumentIntro
<1>3. Opened(Object(n)) = Opened(Object(m))
  <2>1. Opened(Object(n)) = Object([j \in DOMAIN Uncovered(n) |-> Flat(Uncovered(n)[j])])
    BY OpenedIs
  <2>2. Opened(Object(m)) = Object([j \in DOMAIN Uncovered(m) |-> Flat(Uncovered(m)[j])])
    BY OpenedIs
  <2>3. QED BY <1>1, <2>1, <2>2
<1>4. QED BY <1>2, <1>3 DEF n

LEMMA UnsealDocument ==
    ASSUME NEW m, Filed(m, Inner), NEW k \in PlainNames, mangle(k) \in DOMAIN m
    PROVE  LET v == Object(Moved(m, mangle(k), k, m[mangle(k)].node.ciphertext.plain))
           IN  IsDocument(v) /\ Opened(v) = Opened(Object(m))
<1> DEFINE n == Moved(m, mangle(k), k, m[mangle(k)].node.ciphertext.plain)
<1>1. Filed(n, Inner) /\ Uncovered(n) = Uncovered(m)
  BY InnerParts, UnsealShows
<1> HIDE DEF n
<1>2. IsDocument(Object(n))
  BY <1>1, DocumentIntro
<1>3. Opened(Object(n)) = Opened(Object(m))
  <2>1. Opened(Object(n)) = Object([j \in DOMAIN Uncovered(n) |-> Flat(Uncovered(n)[j])])
    BY OpenedIs
  <2>2. Opened(Object(m)) = Object([j \in DOMAIN Uncovered(m) |-> Flat(Uncovered(m)[j])])
    BY OpenedIs
  <2>3. QED BY <1>1, <2>1, <2>2
<1>4. QED BY <1>2, <1>3 DEF n

\* So does sealing a member of a member.
LEMMA SealInner ==
    ASSUME NEW m, Filed(m, Inner), NEW k \in PlainNames, k \in DOMAIN m,
           m[k].form = "object",
           NEW j \in PlainNames, j \in DOMAIN m[k].members,
           NEW e \in SealedValues({m[k].members[j]})
    PROVE  LET u == Object(Moved(m[k].members, j, mangle(j), e))
               v == Object([m EXCEPT ![k] = u])
           IN  IsDocument(v) /\ Opened(v) = Opened(Object(m))
<1> DEFINE l == m[k].members
           n == Moved(l, j, mangle(j), e)
           u == Object(n)
           w == [m EXCEPT ![k] = u]
<1>1. m[k] \in Inner
  BY InnerParts, FiledParts, NameFacts
<1>2. m[k] = Object(l) /\ Filed(l, Leaves)
  BY <1>1, InnerParts
<1>3. Filed(n, Leaves) /\ Uncovered(n) = Uncovered(l)
  BY <1>2, InnerParts, SealShows
<1> HIDE DEF l, n
<1>4. u \in Inner /\ Flat(u) = Flat(m[k])
  BY <1>2, <1>3, InnerParts, FlatParts
<1> HIDE DEF u
<1>5. Filed(w, Inner) /\ Uncovered(w) = [Uncovered(m) EXCEPT ![k] = u]
  BY <1>4, InnerParts, ReplaceShows
<1>6. Uncovered(m) = [i \in Behind(m) |-> Shown(m, i)] /\ k \in Behind(m) /\ Shown(m, k) = m[k]
  BY InnerParts, UncoveredIs DEF Behind, Shown
<1>7. /\ DOMAIN Uncovered(w) = DOMAIN Uncovered(m)
      /\ \A i \in DOMAIN Uncovered(m) : Flat(Uncovered(w)[i]) = Flat(Uncovered(m)[i])
  BY <1>4, <1>5, <1>6
<1> HIDE DEF w
<1>8. Opened(Object(w)) = Opened(Object(m))
  <2>1. Opened(Object(w)) = Object([i \in DOMAIN Uncovered(w) |-> Flat(Uncovered(w)[i])])
    BY OpenedIs
  <2>2. Opened(Object(m)) = Object([i \in DOMAIN Uncovered(m) |-> Flat(Uncovered(m)[i])])
    BY OpenedIs
  <2>3. [i \in DOMAIN Uncovered(w) |-> Flat(Uncovered(w)[i])] =
        [i \in DOMAIN Uncovered(m) |-> Flat(Uncovered(m)[i])]
    BY <1>7
  <2>4. QED BY <2>1, <2>2, <2>3
<1>9. IsDocument(Object(w))
  BY <1>5, DocumentIntro
<1>10. QED BY <1>8, <1>9 DEF w, u, n, l

\* The documents clients make are the documents behind themselves.
LEMMA FreshParts ==
    ASSUME NEW d \in Fresh
    PROVE  IsDocument(d) /\ Opened(d) = d
<1> DEFINE m == d.members
<1>1. /\ IsDocument(d)
      /\ \A k \in DOMAIN m : k \in PlainNames /\ DOMAIN m[k].members \subseteq PlainNames
  BY PlainNamesAssumption
<1>2. d = Object(m) /\ Filed(m, Inner)
  BY <1>1, DocumentParts
<1> HIDE DEF m
<1>3. Uncovered(m) = m
  BY <1>1, <1>2, InnerParts, PlainShows
<1>4. ASSUME NEW k \in DOMAIN m PROVE Flat(m[k]) = m[k]
  <2>1. k \in PlainNames /\ m[k] \in Inner
    BY <1>1, <1>2, <1>4, InnerParts, FiledParts, NameFacts
  <2>2. CASE m[k] \in Leaves
    BY <2>2, FlatParts
  <2>3. CASE m[k] = Object(m[k].members) /\ Filed(m[k].members, Leaves)
    <3>1. Uncovered(m[k].members) = m[k].members
      BY <1>1, <1>4, <2>3, InnerParts, PlainShows
    <3>2. QED BY <2>3, <3>1, FlatParts
  <2>4. QED BY <2>1, <2>2, <2>3, InnerParts
<1>5. [k \in DOMAIN m |-> Flat(m[k])] = m
  <2>1. IsMap(m)
    BY <1>2, InnerParts, FiledParts
  <2>2. QED BY <1>4, <2>1 DEF IsMap
<1>6. Opened(d) = d
  BY <1>2, <1>3, <1>5, OpenedIs
<1>7. QED BY <1>1, <1>6

-----------------------------------------------------------------------------
(* Decryption.                                                             *)

LEMMA CanBeEncrypted == Leaves \subseteq Plaintexts /\ Inner \subseteq Plaintexts
  BY PlaintextsAssumption DEF Inner

\* A call that fails, and the process lives on.
Refused(a) == a.err \notin {"none", "undefined"}

\* An envelope opens exactly while its key is there.
LEMMA OpensWhileKept ==
    ASSUME ManagerTypeOK, NEW V, V \subseteq Plaintexts, NEW e \in SealedValues(V)
    PROVE  LET a == manager_decrypt(e.node)
           IN  IF KeyKept(e.node) THEN a = Ok(e.node.ciphertext.plain) ELSE Refused(a)
<1> DEFINE node == e.node
           cipher == node.ciphertext
           ring == algorithm_to_decrypter[node.alg]
           a == manager_decrypt(node)
<1>1. /\ node.alg \in Algorithms /\ node.kid \in KeyIds /\ cipher.alg = node.alg
      /\ cipher.key \in KeyBytes /\ cipher.plain \in Plaintexts
      /\ cipher = [alg |-> cipher.alg, key |-> cipher.key, plain |-> cipher.plain]
      /\ node = [alg |-> node.alg, kid |-> node.kid, ciphertext |-> cipher]
  BY SealedParts
<1> HIDE DEF node
<1>2. cipher \in Ciphertexts
  BY <1>1 DEF Ciphertexts
<1> HIDE DEF cipher
<1>3. cipher \notin {Absent, NotBase64, Garbage} /\ node.alg # Absent /\ node.kid # Absent
  BY <1>1, <1>2, CryptoManagerAssumption
<1> SUFFICES IF KeyKept(node) THEN a = Ok(cipher.plain) ELSE Refused(a)
  BY DEF node, cipher
<1>4. CASE ring = Absent
  BY <1>3, <1>4 DEF manager_decrypt, KeyKept, Err, Refused
<1>5. CASE ring # Absent
  <2>1. ring \in Rings
    BY <1>1, <1>5 DEF ManagerTypeOK
  <2>2. a = LET key == get(ring, node.kid)
            IN  IF key.err # "none" THEN key ELSE aead_decrypt(node.alg, key.value, cipher)
    BY <1>3, <1>5 DEF manager_decrypt, decrypter_decrypt, cipher
  <2>3. keys[ring][node.kid] # Absent \/ cipher.key # keys[ring][node.kid]
    BY <1>1, CryptoManagerAssumption
  <2>4. KeyKept(node) <=> keys[ring][node.kid] = cipher.key
    BY <1>5 DEF KeyKept, cipher
  <2>5. CASE get(ring, node.kid) = Err("crypto_key_not_found") /\ keys[ring][node.kid] = Absent
    <3>1. Refused(a)
      BY <2>2, <2>5 DEF Err, Refused
    <3>2. ~KeyKept(node)
      BY <2>3, <2>4, <2>5
    <3>3. QED BY <3>1, <3>2
  <2>6. CASE get(ring, node.kid) = Ok(keys[ring][node.kid])
    <3>1. a = aead_decrypt(node.alg, keys[ring][node.kid], cipher)
      BY <2>2, <2>6 DEF Ok
    <3>2. IF KeyKept(node) THEN a = Ok(cipher.plain) ELSE Refused(a)
      BY <1>1, <1>3, <2>4, <3>1 DEF aead_decrypt, Err, Refused
    <3>3. QED BY <3>2
  <2>7. QED BY <1>1, <2>1, <2>5, <2>6, GetType
<1>6. QED BY <1>4, <1>5

LEMMA FirstIn ==
    ASSUME NEW S \in SUBSET Names, S # {}
    PROVE  First(S) \in S
<1>1. \E k \in S : \A j \in S : ~Before(j, k)
  BY FirstName
<1>2. QED BY <1>1 DEF First

\* All keys of the envelopes among the members m are there.
KeysKept(m) == \A k \in DOMAIN m : is_mangled(k) => KeyKept(m[k].node)

\* decrypt_top_level_object_fields opens all the envelopes, if all their keys
\* are there, and fails otherwise.
LEMMA OpenFields ==
    ASSUME ManagerTypeOK, NEW V, V \subseteq Plaintexts, Bare(V),
           NEW v, v = Object(v.members), Filed(v.members, V)
    PROVE  IF KeysKept(v.members) THEN open_fields(v) = Ok(Object(Uncovered(v.members)))
                                  ELSE Refused(open_fields(v))
<1> DEFINE m == v.members
           sealed == {k \in DOMAIN m : is_mangled(k)}
           opened == [k \in sealed |-> manager_decrypt(m[k].node)]
           failed == {k \in sealed : opened[k].err # "none"}
           n == [k \in (DOMAIN m \ sealed) \cup {demangle(s) : s \in sealed} |->
                   IF mangle(k) \in sealed THEN opened[mangle(k)].value ELSE m[k]]
<1>1. open_fields(v) =
        IF failed # {} THEN Err(opened[First(failed)].err)
        ELSE Ok([v EXCEPT !.members = n])
  BY DEF open_fields
<1>0. v = Object(m) /\ Filed(m, V)
  OBVIOUS
<1> SUFFICES IF KeysKept(m) THEN open_fields(v) = Ok(Object(Uncovered(m)))
                            ELSE Refused(open_fields(v))
  OBVIOUS
<1> HIDE DEF m
<1>2. /\ \A k \in DOMAIN m :
           /\ k \in Names
           /\ is_mangled(k) =>
                m[k] \in SealedValues(V) /\ demangle(k) \in PlainNames \ DOMAIN m
           /\ ~is_mangled(k) => m[k] \in V /\ k \in PlainNames
      /\ \A k \in PlainNames : k \in DOMAIN m => mangle(k) \notin DOMAIN m
  BY <1>0, FiledParts
<1>3. \A k \in sealed :
        IF KeyKept(m[k].node) THEN opened[k] = Ok(m[k].node.ciphertext.plain)
                              ELSE Refused(opened[k])
  <2>1. TAKE k \in sealed
  <2>2. m[k] \in SealedValues(V)
    BY <1>2
  <2>3. QED BY <2>2, OpensWhileKept
<1> HIDE DEF opened
<1>4. CASE KeysKept(m)
  <2>1. \A k \in sealed :
          opened[k].err = "none" /\ opened[k].value = m[k].node.ciphertext.plain
    <3>1. TAKE k \in sealed
    <3>2. opened[k] = Ok(m[k].node.ciphertext.plain)
      BY <1>3, <1>4 DEF KeysKept
    <3>3. QED BY <3>2 DEF Ok
  <2>2. failed = {}
    BY <2>1
  <2>3. (DOMAIN m \ sealed) \cup {demangle(s) : s \in sealed} = Behind(m)
    <3>1. ASSUME NEW k \in Behind(m), k \notin DOMAIN m
          PROVE  k \in {demangle(s) : s \in sealed}
      <4>1. mangle(k) \in sealed /\ demangle(mangle(k)) = k
        BY <3>1, NameFacts DEF Behind
      <4>2. QED BY <4>1
    <3>2. ASSUME NEW s \in sealed PROVE demangle(s) \in Behind(m)
      BY <1>2, NameFacts DEF Behind
    <3>3. ASSUME NEW k \in DOMAIN m \ sealed PROVE k \in Behind(m)
      BY <1>2 DEF Behind
    <3>4. ASSUME NEW k \in Behind(m), k \in DOMAIN m PROVE k \notin sealed
      BY NameFacts DEF Behind
    <3>5. QED BY <3>1, <3>2, <3>3, <3>4
  <2>4. \A k \in Behind(m) :
          (IF mangle(k) \in sealed THEN opened[mangle(k)].value ELSE m[k]) = Shown(m, k)
    <3>1. TAKE k \in Behind(m)
    <3>2. CASE k \in DOMAIN m
      BY <1>2, <3>2 DEF Shown, Behind
    <3>3. CASE k \notin DOMAIN m
      <4>1. mangle(k) \in sealed
        BY <3>3, NameFacts DEF Behind
      <4>2. opened[mangle(k)].value = m[mangle(k)].node.ciphertext.plain
        BY <2>1, <4>1
      <4>3. QED BY <3>3, <4>1, <4>2 DEF Shown
    <3>4. QED BY <3>2, <3>3
  <2> HIDE DEF sealed
  <2>5. n = Uncovered(m)
    <3>1. Uncovered(m) = [k \in Behind(m) |-> Shown(m, k)]
      BY <1>0, UncoveredIs
    <3>2. QED BY <2>3, <2>4, <3>1
  <2> HIDE DEF n
  <2>6. [v EXCEPT !.members = n] = Object(n)
    BY <1>0 DEF Object, Value
  <2> HIDE DEF failed
  <2>7. QED BY <1>1, <1>4, <2>2, <2>5, <2>6
<1>5. CASE ~KeysKept(m)
  <2>1. PICK k \in sealed : ~KeyKept(m[k].node)
    BY <1>5 DEF KeysKept
  <2>2. failed # {}
    BY <1>3, <2>1 DEF Refused
  <2>3. failed \in SUBSET Names
    BY <1>2
  <2>4. First(failed) \in failed
    <3> HIDE DEF failed
    <3>1. QED BY <2>2, <2>3, FirstIn
  <2>5. Refused(opened[First(failed)])
    <3> DEFINE j == First(failed)
    <3>1. j \in sealed /\ opened[j].err # "none"
      BY <2>4
    <3> SUFFICES Refused(opened[j])
      OBVIOUS
    <3> HIDE DEF j, sealed, failed
    <3>2. CASE KeyKept(m[j].node)
      <4>1. opened[j] = Ok(m[j].node.ciphertext.plain)
        BY <1>3, <3>1, <3>2
      <4>2. QED BY <3>1, <4>1 DEF Ok
    <3>3. CASE ~KeyKept(m[j].node)
      BY <1>3, <3>1, <3>3
    <3>4. QED BY <3>2, <3>3
  <2> HIDE DEF failed
  <2>6. QED BY <1>1, <1>5, <2>2, <2>5 DEF Err, Refused
<1>6. QED BY <1>4, <1>5

\* A leaf is given back as it is.
LEMMA OpenInner ==
    ASSUME ManagerTypeOK, NEW u \in Inner
    PROVE  IF KeysKept(u.members) THEN open_fields(u) = Ok(Flat(u))
                                  ELSE Refused(open_fields(u))
<1>1. CASE u \in Leaves
  <2>1. PICK x \in Contents : u = Leaf(x)
    BY <1>1 DEF Leaves
  <2>2. u.members = << >> /\ DOMAIN u.members = {}
    BY <2>1, ValueParts, EmptyMap
  <2>3. KeysKept(u.members)
    BY <2>2 DEF KeysKept
  <2> DEFINE n == [k \in {} |->
                     IF mangle(k) \in {} THEN [j \in {} |-> manager_decrypt(u.members[j].node)][mangle(k)].value
                     ELSE u.members[k]]
  <2>4. open_fields(u) = Ok([u EXCEPT !.members = n])
    <3> DEFINE sealed == {k \in DOMAIN u.members : is_mangled(k)}
               opened == [k \in sealed |-> manager_decrypt(u.members[k].node)]
               failed == {k \in sealed : opened[k].err # "none"}
               o == [k \in (DOMAIN u.members \ sealed) \cup {demangle(s) : s \in sealed} |->
                      IF mangle(k) \in sealed THEN opened[mangle(k)].value ELSE u.members[k]]
    <3>1. sealed = {} /\ failed = {}
      BY <2>2
    <3>2. open_fields(u) = IF failed # {} THEN Err(opened[First(failed)].err)
                           ELSE Ok([u EXCEPT !.members = o])
      BY DEF open_fields
    <3>3. (DOMAIN u.members \ sealed) \cup {demangle(s) : s \in sealed} = {}
      BY <2>2, <3>1
    <3>4. o = n
      BY <3>3
    <3> HIDE DEF o, n, failed
    <3>5. QED BY <3>1, <3>2, <3>4
  <2>5. n = << >>
    OBVIOUS
  <2> HIDE DEF n
  <2>6. [u EXCEPT !.members = n] = u
    BY <2>1, <2>5 DEF Leaf, Value
  <2>7. QED BY <1>1, <2>3, <2>4, <2>6, FlatParts
<1>2. CASE u = Object(u.members) /\ Filed(u.members, Leaves)
  <2> DEFINE m == u.members
  <2>1. u = Object(m) /\ Filed(m, Leaves)
    BY <1>2
  <2>2. IF KeysKept(m) THEN open_fields(u) = Ok(Object(Uncovered(m)))
                       ELSE Refused(open_fields(u))
    BY <1>2, CanBeEncrypted, InnerParts, OpenFields
  <2> HIDE DEF m
  <2>3. Flat(u) = Object(Uncovered(m))
    BY <2>1, FlatParts
  <2>4. QED BY <2>1, <2>2, <2>3 DEF m
<1>3. QED BY <1>1, <1>2, InnerParts

\* All keys there are to a document, and to what is in its envelopes.
AllKept(v) ==
    /\ KeysKept(v.members)
    /\ \A k \in Behind(v.members) : KeysKept(Shown(v.members, k).members)

LEMMA DecryptIs ==
    ASSUME ManagerTypeOK, NEW v, IsDocument(v)
    PROVE  IF AllKept(v) THEN decrypt(v) = Ok(Opened(v)) ELSE Refused(decrypt(v))
<1> DEFINE m == v.members
           U == Uncovered(m)
           top == open_fields(v)
           inner == [k \in DOMAIN top.value.members |-> open_fields(top.value.members[k])]
           failed == {k \in DOMAIN inner : inner[k].err # "none"}
           n == [k \in DOMAIN top.value.members |-> inner[k].value]
<1>1. decrypt(v) =
        IF top.err # "none" THEN top
        ELSE IF failed # {} THEN inner[First(failed)]
        ELSE Ok([top.value EXCEPT !.members = n])
  BY DEF decrypt
<1>2. v = Object(m) /\ Filed(m, Inner)
  BY DocumentParts
<1>3. IF KeysKept(m) THEN top = Ok(Object(U)) ELSE Refused(top)
  BY <1>2, CanBeEncrypted, InnerParts, OpenFields
<1>4. /\ U = [k \in Behind(m) |-> Shown(m, k)]
      /\ \A k \in Behind(m) : Shown(m, k) \in Inner
  BY <1>2, InnerParts, UncoveredIs
<1>5. Opened(v) = Object([k \in DOMAIN U |-> Flat(U[k])])
  BY <1>2, OpenedIs
<1> SUFFICES IF /\ KeysKept(m)
                /\ \A k \in Behind(m) : KeysKept(Shown(m, k).members)
             THEN decrypt(v) = Ok(Opened(v)) ELSE Refused(decrypt(v))
  BY DEF AllKept
<1> HIDE DEF m, U, top
<1>6. CASE ~KeysKept(m)
  <2> HIDE DEF failed, inner, n
  <2>1. QED BY <1>1, <1>3, <1>6 DEF Refused
<1>7. CASE KeysKept(m)
  <2>1. top.err = "none" /\ top.value = Object(U) /\ top.value.members = U
    BY <1>3, <1>7, ValueParts DEF Ok
  <2>2. DOMAIN inner = Behind(m) /\ \A k \in Behind(m) : inner[k] = open_fields(Shown(m, k))
    BY <1>4, <2>1
  <2>3. n = [k \in Behind(m) |-> inner[k].value]
    BY <1>4, <2>1
  <2> HIDE DEF inner, n
  <2>4. \A k \in Behind(m) :
          IF KeysKept(Shown(m, k).members) THEN inner[k] = Ok(Flat(Shown(m, k)))
                                           ELSE Refused(inner[k])
    BY <1>4, <2>2, OpenInner
  <2>5. CASE \A k \in Behind(m) : KeysKept(Shown(m, k).members)
    <3>1. \A k \in Behind(m) : inner[k].err = "none" /\ inner[k].value = Flat(Shown(m, k))
      <4>1. TAKE k \in Behind(m)
      <4>2. inner[k] = Ok(Flat(Shown(m, k)))
        BY <2>4, <2>5
      <4>3. QED BY <4>2 DEF Ok
    <3>2. failed = {}
      BY <2>2, <3>1
    <3>3. n = [k \in DOMAIN U |-> Flat(U[k])]
      BY <1>4, <2>3, <3>1
    <3>4. [top.value EXCEPT !.members = n] = Object(n)
      BY <2>1 DEF Object, Value
    <3> HIDE DEF failed
    <3>5. decrypt(v) = Ok(Object(n))
      BY <1>1, <2>1, <3>2, <3>4
    <3>6. QED BY <1>5, <1>7, <2>5, <3>3, <3>5
  <2>6. CASE ~\A k \in Behind(m) : KeysKept(Shown(m, k).members)
    <3>1. failed # {} /\ failed \in SUBSET Names
      BY <2>2, <2>4, <2>6, NameFacts DEF Behind, Refused
    <3>2. First(failed) \in failed
      <4> HIDE DEF failed
      <4>1. QED BY <3>1, FirstIn
    <3>3. inner[First(failed)].err # "none" /\ Refused(inner[First(failed)])
      BY <2>2, <2>4, <3>2 DEF Ok
    <3> HIDE DEF failed
    <3>4. QED BY <1>1, <2>1, <2>6, <3>1, <3>3
  <2>7. QED BY <2>5, <2>6
<1>8. QED BY <1>6, <1>7

\* Nodes finds the envelopes whose keys decrypt needs.
LEMMA NodesKept ==
    ASSUME NEW v, IsDocument(v)
    PROVE  (\A node \in Nodes(v) : KeyKept(node)) <=> AllKept(v)
<1> DEFINE m == v.members
           within(u) == {u.members[k] : k \in DOMAIN u.members}
           contents(u) == IF u.form = "envelope" THEN u.node.ciphertext.plain ELSE u
           outer == within(v)
           inner == UNION {within(contents(u)) : u \in outer}
<1>1. Nodes(v) = {u.node : u \in {u \in outer \cup inner : u.form = "envelope"}}
  BY DEF Nodes
<1>2. Filed(m, Inner) /\ Bare(Inner) /\ Bare(Leaves)
  BY DocumentParts, InnerParts
<1>3. /\ \A k \in DOMAIN m :
           /\ k \in Names
           /\ is_mangled(k) =>
                m[k] \in SealedValues(Inner) /\ demangle(k) \in PlainNames \ DOMAIN m
           /\ ~is_mangled(k) => m[k] \in Inner /\ k \in PlainNames
      /\ \A k \in Behind(m) : Shown(m, k) \in Inner
  BY <1>2, FiledParts, UncoveredIs
<1>4. \A k \in DOMAIN m : is_mangled(k) <=> m[k].form = "envelope"
  BY <1>2, <1>3, SealedParts DEF Bare
<1>5. \A u \in Inner : \A j \in DOMAIN u.members :
        is_mangled(j) <=> u.members[j].form = "envelope"
  <2>1. TAKE u \in Inner
  <2>2. TAKE j \in DOMAIN u.members
  <2>3. CASE u.members = << >>
    BY <2>2, <2>3, EmptyMap
  <2>4. CASE Filed(u.members, Leaves)
    <3>1. Named(u.members)
      BY <2>4 DEF Filed
    <3>2. QED BY <2>2, <3>1 DEF Named
  <2>5. QED BY <2>3, <2>4, InnerParts
<1>6. \A k \in DOMAIN m :
        contents(m[k]) = Shown(m, IF is_mangled(k) THEN demangle(k) ELSE k)
  <2>1. TAKE k \in DOMAIN m
  <2>2. CASE is_mangled(k)
    BY <1>3, <1>4, <2>2, NameFacts DEF Shown
  <2>3. CASE ~is_mangled(k)
    BY <1>4, <2>3 DEF Shown
  <2>4. QED BY <2>2, <2>3
<1>7. \A k \in DOMAIN m : (IF is_mangled(k) THEN demangle(k) ELSE k) \in Behind(m)
  BY <1>3, NameFacts DEF Behind
<1>8. \A k \in Behind(m) : \E l \in DOMAIN m : contents(m[l]) = Shown(m, k)
  <2>1. TAKE k \in Behind(m)
  <2>2. CASE k \in DOMAIN m
    BY <1>6, <2>2, NameFacts DEF Behind
  <2>3. CASE k \notin DOMAIN m
    <3>1. mangle(k) \in DOMAIN m /\ is_mangled(mangle(k)) /\ demangle(mangle(k)) = k
      BY <2>3, NameFacts DEF Behind
    <3>2. contents(m[mangle(k)]) = Shown(m, k)
      BY <1>6, <3>1
    <3>3. QED BY <3>1, <3>2
  <2>4. QED BY <2>2, <2>3
<1> HIDE DEF contents
<1>9. ASSUME AllKept(v), NEW node \in Nodes(v)
      PROVE  KeyKept(node)
  <2>1. PICK u \in outer \cup inner : u.form = "envelope" /\ node = u.node
    BY <1>1, <1>9
  <2>2. CASE u \in outer
    <3>1. PICK k \in DOMAIN m : u = m[k]
      BY <2>2
    <3>2. QED BY <1>4, <1>9, <2>1, <3>1 DEF AllKept, KeysKept
  <2>3. CASE u \in inner
    <3>1. PICK k \in DOMAIN m : u \in within(contents(m[k]))
      BY <2>3
    <3>2. PICK i \in Behind(m) : contents(m[k]) = Shown(m, i)
      BY <1>6, <1>7
    <3>3. PICK j \in DOMAIN Shown(m, i).members : u = Shown(m, i).members[j]
      BY <3>1, <3>2
    <3>4. is_mangled(j)
      BY <1>3, <1>5, <2>1, <3>3
    <3>5. KeysKept(Shown(m, i).members)
      BY <1>9 DEF AllKept
    <3>6. QED BY <2>1, <3>3, <3>4, <3>5 DEF KeysKept
  <2>4. QED BY <2>1, <2>2, <2>3
<1>10. ASSUME \A node \in Nodes(v) : KeyKept(node)
       PROVE  AllKept(v)
  <2>1. ASSUME NEW u \in outer \cup inner, u.form = "envelope"
        PROVE  KeyKept(u.node)
    BY <1>1, <1>10, <2>1
  <2>2. ASSUME NEW k \in DOMAIN m, is_mangled(k)
        PROVE  KeyKept(m[k].node)
    <3>1. m[k] \in outer /\ m[k].form = "envelope"
      BY <1>4, <2>2
    <3>2. QED BY <2>1, <3>1
  <2>3. ASSUME NEW k \in Behind(m), NEW j \in DOMAIN Shown(m, k).members, is_mangled(j)
        PROVE  KeyKept(Shown(m, k).members[j].node)
    <3>1. PICK l \in DOMAIN m : contents(m[l]) = Shown(m, k)
      BY <1>8
    <3>2. Shown(m, k).members[j] \in within(contents(m[l]))
      BY <3>1
    <3>3. Shown(m, k).members[j] \in inner
      BY <3>2
    <3>4. Shown(m, k).members[j].form = "envelope"
      BY <1>3, <1>5, <2>3
    <3>5. QED BY <2>1, <3>3, <3>4
  <2>4. QED BY <2>2, <2>3 DEF AllKept, KeysKept
<1>11. QED BY <1>9, <1>10

-----------------------------------------------------------------------------
(* What can be read without a key.                                         *)

\* One path below another.
LEMMA BelowParts ==
    ASSUME NEW a, NEW b, NEW c, NEW d
    PROVE  /\ Below(<<a>>, <<c>>) <=> a = c
           /\ Below(<<a, b>>, <<c>>) <=> a = c
           /\ ~Below(<<a>>, <<c, d>>)
           /\ Below(<<a, b>>, <<c, d>>) <=> a = c /\ b = d
<1>1. Len(<<a>>) = 1 /\ Len(<<c>>) = 1 /\ Len(<<a, b>>) = 2 /\ Len(<<c, d>>) = 2
  OBVIOUS
<1>2. /\ SubSeq(<<a>>, 1, 1) = <<a>> /\ SubSeq(<<a, b>>, 1, 1) = <<a>>
      /\ SubSeq(<<a, b>>, 1, 2) = <<a, b>>
  <2> DEFINE S == {a, b}
             r == SubSeq(<<a>>, 1, 1)
             s == SubSeq(<<a, b>>, 1, 1)
             t == SubSeq(<<a, b>>, 1, 2)
  <2>1. /\ r \in Seq(S) /\ Len(r) = 1 /\ r[1] = a
        /\ s \in Seq(S) /\ Len(s) = 1 /\ s[1] = a
        /\ t \in Seq(S) /\ Len(t) = 2 /\ t[1] = a /\ t[2] = b
    OBVIOUS
  <2>2. <<a>> \in Seq(S) /\ <<a, b>> \in Seq(S)
    OBVIOUS
  <2> HIDE DEF S, r, s, t
  <2>3. r = <<a>> /\ s = <<a>>
    BY <2>1, <2>2, SeqEqual
  <2>4. t = <<a, b>>
    BY <2>1, <2>2, SeqEqual
  <2>5. QED BY <2>3, <2>4 DEF r, s, t
<1>3. QED BY <1>1, <1>2 DEF Below

\* The plain names among the members m, and below the plain names in them.
ClearTop(m) == {k \in PlainNames : k \in DOMAIN m}
ClearBelow(u) == {k \in PlainNames : k \in DOMAIN u.members}

LEMMA ClearParts ==
    ASSUME NEW m, Filed(m, Inner)
    PROVE  \A p : p \in ClearPaths(Object(m)) <=>
                    \/ \E k \in ClearTop(m) : p = <<k>>
                    \/ \E k \in ClearTop(m) : \E j \in ClearBelow(m[k]) : p = <<k, j>>
<1> DEFINE clear(u) == {k \in DOMAIN u.members : ~is_mangled(k)}
           v == Object(m)
<1>1. v.members = m
  BY ValueParts
<1> HIDE DEF v
<1>2. clear(v) = ClearTop(m)
  BY <1>1, NameFacts, InnerParts, FiledParts DEF ClearTop
<1>3. ASSUME NEW k \in ClearTop(m) PROVE clear(m[k]) = ClearBelow(m[k])
  <2>1. m[k] \in Inner
    BY <1>3, NameFacts, InnerParts, FiledParts DEF ClearTop
  <2>2. DOMAIN m[k].members \subseteq Names
    BY <2>1, InnerParts, EmptyMap DEF Filed
  <2>3. QED BY <2>2, NameFacts DEF ClearBelow
<1>4. ClearPaths(v) = {<<k>> : k \in clear(v)}
                      \cup UNION {{<<k, j>> : j \in clear(v.members[k])} : k \in clear(v)}
  BY DEF ClearPaths
<1> HIDE DEF clear
<1>5. ASSUME NEW p
      PROVE  p \in ClearPaths(v) <=>
                \/ \E k \in ClearTop(m) : p = <<k>>
                \/ \E k \in ClearTop(m) : \E j \in ClearBelow(m[k]) : p = <<k, j>>
  <2>1. p \in ClearPaths(v) <=>
                \/ \E k \in clear(v) : p = <<k>>
                \/ \E k \in clear(v) : \E j \in clear(m[k]) : p = <<k, j>>
    BY <1>1, <1>4
  <2>2. QED BY <1>2, <1>3, <2>1
<1>6. QED BY <1>5 DEF v

\* A document without a field k that another has hides it and what is below it.
LEMMA HidesTop ==
    ASSUME NEW m, Filed(m, Inner), NEW n, Filed(n, Inner), NEW k,
           ClearTop(n) = ClearTop(m) \ {k},
           \A j \in ClearTop(n) : n[j] = m[j]
    PROVE  ClearPaths(Object(n)) = {p \in ClearPaths(Object(m)) : ~Below(p, <<k>>)}
<1>1. ASSUME NEW p
      PROVE  p \in ClearPaths(Object(n)) <=> p \in ClearPaths(Object(m)) /\ ~Below(p, <<k>>)
  <2>1. p \in ClearPaths(Object(n)) <=>
          \/ \E i \in ClearTop(n) : p = <<i>>
          \/ \E i \in ClearTop(n) : \E j \in ClearBelow(n[i]) : p = <<i, j>>
    BY ClearParts
  <2>2. p \in ClearPaths(Object(m)) <=>
          \/ \E i \in ClearTop(m) : p = <<i>>
          \/ \E i \in ClearTop(m) : \E j \in ClearBelow(m[i]) : p = <<i, j>>
    BY ClearParts
  <2>3. ASSUME NEW i, NEW j
        PROVE  (Below(<<i>>, <<k>>) <=> i = k) /\ (Below(<<i, j>>, <<k>>) <=> i = k)
    BY BelowParts
  <2>4. ASSUME p \in ClearPaths(Object(n))
        PROVE  p \in ClearPaths(Object(m)) /\ ~Below(p, <<k>>)
    <3>1. CASE \E i \in ClearTop(n) : p = <<i>>
      BY <2>2, <2>3, <3>1
    <3>2. CASE \E i \in ClearTop(n) : \E j \in ClearBelow(n[i]) : p = <<i, j>>
      <4>0. PICK i \in ClearTop(n) : \E j \in ClearBelow(n[i]) : p = <<i, j>>
        BY <3>2
      <4>1. PICK j \in ClearBelow(n[i]) : p = <<i, j>>
        BY <4>0
      <4>2. i \in ClearTop(m) /\ i # k /\ j \in ClearBelow(m[i])
        BY <4>1
      <4>3. QED BY <2>2, <2>3, <4>1, <4>2
    <3>3. QED BY <2>1, <2>4, <3>1, <3>2
  <2>5. ASSUME p \in ClearPaths(Object(m)), ~Below(p, <<k>>)
        PROVE  p \in ClearPaths(Object(n))
    <3>1. CASE \E i \in ClearTop(m) : p = <<i>>
      BY <2>1, <2>3, <2>5, <3>1
    <3>2. CASE \E i \in ClearTop(m) : \E j \in ClearBelow(m[i]) : p = <<i, j>>
      <4>0. PICK i \in ClearTop(m) : \E j \in ClearBelow(m[i]) : p = <<i, j>>
        BY <3>2
      <4>1. PICK j \in ClearBelow(m[i]) : p = <<i, j>>
        BY <4>0
      <4>2. i # k
        BY <2>3, <2>5, <4>1
      <4>3. i \in ClearTop(n) /\ j \in ClearBelow(n[i])
        BY <4>1, <4>2
      <4>4. QED BY <2>1, <4>1, <4>3
    <3>3. QED BY <2>2, <2>5, <3>1, <3>2
  <2>6. QED BY <2>4, <2>5
<1>2. QED BY <1>1

\* And likewise below a field.
LEMMA HidesBelow ==
    ASSUME NEW m, Filed(m, Inner), NEW n, Filed(n, Inner), NEW k \in ClearTop(m), NEW l,
           ClearTop(n) = ClearTop(m),
           \A i \in ClearTop(n) \ {k} : n[i] = m[i],
           ClearBelow(n[k]) = ClearBelow(m[k]) \ {l}
    PROVE  ClearPaths(Object(n)) = {p \in ClearPaths(Object(m)) : ~Below(p, <<k, l>>)}
<1>1. ASSUME NEW p
      PROVE  p \in ClearPaths(Object(n)) <=> p \in ClearPaths(Object(m)) /\ ~Below(p, <<k, l>>)
  <2>1. p \in ClearPaths(Object(n)) <=>
          \/ \E i \in ClearTop(n) : p = <<i>>
          \/ \E i \in ClearTop(n) : \E j \in ClearBelow(n[i]) : p = <<i, j>>
    BY ClearParts
  <2>2. p \in ClearPaths(Object(m)) <=>
          \/ \E i \in ClearTop(m) : p = <<i>>
          \/ \E i \in ClearTop(m) : \E j \in ClearBelow(m[i]) : p = <<i, j>>
    BY ClearParts
  <2>3. ASSUME NEW i, NEW j
        PROVE  ~Below(<<i>>, <<k, l>>) /\ (Below(<<i, j>>, <<k, l>>) <=> i = k /\ j = l)
    BY BelowParts
  <2>4. ASSUME NEW i \in ClearTop(m), NEW j
        PROVE  j \in ClearBelow(n[i]) <=> j \in ClearBelow(m[i]) /\ ~(i = k /\ j = l)
    OBVIOUS
  <2>5. ASSUME p \in ClearPaths(Object(n))
        PROVE  p \in ClearPaths(Object(m)) /\ ~Below(p, <<k, l>>)
    <3>1. CASE \E i \in ClearTop(n) : p = <<i>>
      BY <2>2, <2>3, <3>1
    <3>2. CASE \E i \in ClearTop(n) : \E j \in ClearBelow(n[i]) : p = <<i, j>>
      <4>0. PICK i \in ClearTop(n) : \E j \in ClearBelow(n[i]) : p = <<i, j>>
        BY <3>2
      <4>1. PICK j \in ClearBelow(n[i]) : p = <<i, j>>
        BY <4>0
      <4>2. i \in ClearTop(m) /\ j \in ClearBelow(m[i]) /\ ~(i = k /\ j = l)
        BY <2>4, <4>1
      <4>3. QED BY <2>2, <2>3, <4>1, <4>2
    <3>3. QED BY <2>1, <2>5, <3>1, <3>2
  <2>6. ASSUME p \in ClearPaths(Object(m)), ~Below(p, <<k, l>>)
        PROVE  p \in ClearPaths(Object(n))
    <3>1. CASE \E i \in ClearTop(m) : p = <<i>>
      BY <2>1, <3>1
    <3>2. CASE \E i \in ClearTop(m) : \E j \in ClearBelow(m[i]) : p = <<i, j>>
      <4>0. PICK i \in ClearTop(m) : \E j \in ClearBelow(m[i]) : p = <<i, j>>
        BY <3>2
      <4>1. PICK j \in ClearBelow(m[i]) : p = <<i, j>>
        BY <4>0
      <4>2. i \in ClearTop(n) /\ j \in ClearBelow(n[i])
        BY <2>3, <2>4, <2>6, <4>1
      <4>3. QED BY <2>1, <4>1, <4>2
    <3>3. QED BY <2>2, <2>6, <3>1, <3>2
  <2>7. QED BY <2>5, <2>6
<1>2. QED BY <1>1

-----------------------------------------------------------------------------
(* Encryption.                                                             *)

\* A node that the manager makes of a value, as an envelope.
LEMMA ManagerSeals ==
    ASSUME ManagerTypeOK, NEW plain \in Plaintexts, NEW alias \in Aliases \cup {Absent},
           NEW a \in manager_encrypt(plain, alias), a.err = "none"
    PROVE  Envelope(a.value) \in SealedValues({plain})
<1> DEFINE e == alias_to_encrypter[value_or_default(alias)]
<1>1. /\ e \in Encrypters
      /\ keys[e.ring][e.kid] \in KeyBytes
      /\ a = Ok(encryption_result(e.alg, e.kid,
                  [alg |-> e.alg, key |-> keys[e.ring][e.kid], plain |-> plain]))
  BY ManagerEncrypt DEF ManagerErrors
<1>2. e.alg \in Algorithms /\ e.kid \in KeyIds
  BY <1>1 DEF Encrypters
<1>3. a.value = [alg |-> e.alg, kid |-> e.kid,
                 ciphertext |-> [alg |-> e.alg, key |-> keys[e.ring][e.kid], plain |-> plain]]
  BY <1>1 DEF Ok, encryption_result
<1> HIDE DEF e
<1>4. plain \in {plain}
  OBVIOUS
<1>5. QED BY <1>1, <1>2, <1>3, <1>4 DEF SealedValues

LEMMA SealIs ==
    ASSUME NEW v, v = Object(v.members), NEW k, NEW node
    PROVE  seal(v, k, node) = Object(Moved(v.members, k, mangle(k), Envelope(node)))
<1> DEFINE n == Moved(v.members, k, mangle(k), Envelope(node))
<1>1. seal(v, k, node) = [v EXCEPT !.members = n]
  BY DEF seal, Moved
<1> HIDE DEF n
<1>2. [v EXCEPT !.members = n] = Object(n)
  BY DEF Object, Value
<1>3. QED BY <1>1, <1>2 DEF n

\* A success of encrypt_member has the member sealed.
LEMMA EncryptMember ==
    ASSUME ManagerTypeOK, NEW V, V \subseteq Plaintexts, Bare(V),
           NEW v, v = Object(v.members), Filed(v.members, V),
           NEW k \in PlainNames, NEW alias \in Aliases \cup {Absent},
           NEW a \in encrypt_member(v, k, alias), a.err = "none"
    PROVE  /\ k \in DOMAIN v.members
           /\ \E e \in SealedValues({v.members[k]}) :
                a = Ok(Object(Moved(v.members, k, mangle(k), e)))
<1>1. k \in DOMAIN v.members
  BY DEF encrypt_member, Err
<1>2. v.form = "object"
  BY ValueParts
<1>3. PICK b \in manager_encrypt(v.members[k], alias) :
        a = IF b.err = "none" THEN Ok(seal(v, k, b.value)) ELSE Err(b.err)
  BY <1>1, <1>2 DEF encrypt_member
<1>4. b.err = "none" /\ a = Ok(seal(v, k, b.value))
  BY <1>3 DEF Err
<1>5. v.members[k] \in Plaintexts
  BY <1>1, FiledParts, NameFacts
<1>6. Envelope(b.value) \in SealedValues({v.members[k]})
  BY <1>4, <1>5, ManagerSeals
<1>7. a = Ok(Object(Moved(v.members, k, mangle(k), Envelope(b.value))))
  BY <1>4, SealIs
<1>8. QED BY <1>1, <1>6, <1>7

LEMMA OkParts == \A x : Ok(x).err = "none" /\ Ok(x).value = x
  BY DEF Ok

\* Sealing a member hides it from those without a key, and nothing else.
LEMMA SealHides ==
    ASSUME NEW m, Filed(m, Inner), NEW k \in PlainNames, k \in DOMAIN m, NEW e,
           NEW n, n = Moved(m, k, mangle(k), e), Filed(n, Inner)
    PROVE  ClearPaths(Object(n)) = {p \in ClearPaths(Object(m)) : ~Below(p, <<k>>)}
<1>1. mangle(k) # k /\ mangle(k) \notin PlainNames
  BY NameFacts
<1>2. IsMoved(n, m, k, mangle(k), e)
  BY <1>1, MoveParts
<1>3. ClearTop(n) = ClearTop(m) \ {k} /\ \A j \in ClearTop(n) : n[j] = m[j]
  BY <1>1, <1>2 DEF IsMoved, ClearTop
<1>4. QED BY <1>3, HidesTop

\* What one field of the list may do to a document.
Sealing(v, w, path) ==
    /\ IsDocument(w)
    /\ Opened(w) = Opened(v)
    /\ ClearPaths(w) = {p \in ClearPaths(v) : ~Below(p, path)}

LEMMA PathParts ==
    ASSUME NEW f \in Fields
    PROVE  /\ f.alias \in Aliases \cup {Absent}
           /\ f.path \in Seq(PlainNames)
           /\ Len(f.path) = 1 => f.path = <<f.path[1]>> /\ f.path[1] \in PlainNames
           /\ Len(f.path) = 2 => /\ f.path = <<f.path[1], f.path[2]>>
                                 /\ f.path[1] \in PlainNames /\ f.path[2] \in PlainNames
<1>1. f.path \in Seq(PlainNames) /\ f.alias \in Aliases \cup {Absent}
  BY PlainNamesAssumption DEF Fields
<1> DEFINE q == f.path
<1>2. q \in Seq(PlainNames)
  BY <1>1
<1> HIDE DEF q
<1>3. ASSUME Len(q) = 1 PROVE q = <<q[1]>> /\ q[1] \in PlainNames
  BY <1>2, <1>3
<1>4. ASSUME Len(q) = 2 PROVE q = <<q[1], q[2]>> /\ q[1] \in PlainNames /\ q[2] \in PlainNames
  <2>1. q[1] \in PlainNames /\ q[2] \in PlainNames
    BY <1>2, <1>4
  <2>2. DOMAIN q = 1..2 /\ DOMAIN <<q[1], q[2]>> = 1..2
    BY <1>2, <1>4
  <2>3. q = [i \in 1..2 |-> q[i]] /\ <<q[1], q[2]>> = [i \in 1..2 |-> q[i]]
    BY <1>2, <2>1, <2>2
  <2>4. QED BY <2>1, <2>3
<1>5. QED BY <1>1, <1>3, <1>4 DEF q

LEMMA EncryptField ==
    ASSUME ManagerTypeOK, NEW v, IsDocument(v), NEW f \in Fields,
           NEW a \in encrypt_field(v, f), a.err = "none"
    PROVE  Sealing(v, a.value, f.path)
<1> DEFINE m == v.members
           k == f.path[1]
           j == f.path[2]
<1>1. v = Object(m) /\ Filed(m, Inner)
  BY DocumentParts
<1>2. Inner \subseteq Plaintexts /\ Leaves \subseteq Plaintexts /\ Bare(Inner) /\ Bare(Leaves)
  BY CanBeEncrypted, InnerParts
<1>3. f.alias \in Aliases \cup {Absent}
  BY PathParts
<1>4. CASE Len(f.path) = 1
  <2>1. k \in PlainNames /\ f.path = <<k>>
    BY <1>4, PathParts
  <2>2. a \in encrypt_member(v, k, f.alias)
    BY <1>4 DEF encrypt_field
  <2>3. k \in DOMAIN m /\ \E e \in SealedValues({m[k]}) : a = Ok(Object(Moved(m, k, mangle(k), e)))
    BY <1>1, <1>2, <1>3, <2>1, <2>2, EncryptMember
  <2>4. PICK e \in SealedValues({m[k]}) : a = Ok(Object(Moved(m, k, mangle(k), e)))
    BY <2>3
  <2> DEFINE n == Moved(m, k, mangle(k), e)
  <2>5. IsDocument(Object(n)) /\ Opened(Object(n)) = Opened(Object(m))
    BY <1>1, <2>1, <2>3, SealDocument
  <2>6. Filed(n, Inner)
    BY <2>5, DocumentParts, ValueParts
  <2>7. ClearPaths(Object(n)) = {p \in ClearPaths(Object(m)) : ~Below(p, <<k>>)}
    BY <1>1, <2>1, <2>3, <2>6, SealHides
  <2>8. a.value = Object(n)
    BY <2>4, OkParts
  <2> HIDE DEF n, m, k
  <2>9. QED BY <1>1, <2>1, <2>5, <2>7, <2>8 DEF Sealing
<1>5. CASE Len(f.path) = 2 /\ k \in DOMAIN m
  <2>1. k \in PlainNames /\ j \in PlainNames /\ f.path = <<k, j>>
    BY <1>5, PathParts
  <2>2. PICK b \in encrypt_member(m[k], j, f.alias) :
          a = IF b.err = "none" THEN Ok([v EXCEPT !.members[k] = b.value]) ELSE b
    <3>1. Len(f.path) # 1
      BY <1>5
    <3>2. encrypt_field(v, f) =
            {IF b.err = "none" THEN Ok([v EXCEPT !.members[f.path[1]] = b.value]) ELSE b :
               b \in encrypt_member(v.members[f.path[1]], f.path[2], f.alias)}
      BY <1>5, <3>1 DEF encrypt_field
    <3>3. QED BY <3>2
  <2>3. b.err = "none" /\ a = Ok([v EXCEPT !.members[k] = b.value])
    BY <2>2
  <2>4. m[k] \in Inner
    BY <1>1, <1>2, <1>5, <2>1, FiledParts, NameFacts
  <2>5. m[k].form = "object"
    BY <2>2, <2>3 DEF encrypt_member, Err
  <2>6. m[k] = Object(m[k].members) /\ Filed(m[k].members, Leaves)
    BY <2>4, <2>5, InnerParts
  <2> DEFINE l == m[k].members
  <2>7. j \in DOMAIN l /\ \E e \in SealedValues({l[j]}) : b = Ok(Object(Moved(l, j, mangle(j), e)))
    <3> DEFINE w == m[k]
    <3>1. w = Object(w.members) /\ Filed(w.members, Leaves) /\ b \in encrypt_member(w, j, f.alias)
      BY <2>2, <2>6
    <3> HIDE DEF w
    <3>2. /\ j \in DOMAIN w.members
          /\ \E e \in SealedValues({w.members[j]}) : b = Ok(Object(Moved(w.members, j, mangle(j), e)))
      BY <1>2, <1>3, <2>1, <2>3, <3>1, EncryptMember
    <3>3. QED BY <3>2 DEF w
  <2>8. PICK e \in SealedValues({l[j]}) : b = Ok(Object(Moved(l, j, mangle(j), e)))
    BY <2>7
  <2> DEFINE u == Object(Moved(l, j, mangle(j), e))
             n == [m EXCEPT ![k] = u]
  <2>9. IsDocument(Object(n)) /\ Opened(Object(n)) = Opened(Object(m))
    <3>1. Filed(m, Inner) /\ k \in PlainNames /\ k \in DOMAIN m /\ j \in PlainNames
      BY <1>1, <1>5, <2>1
    <3>2. j \in DOMAIN m[k].members /\ e \in SealedValues({m[k].members[j]})
      BY <2>7
    <3> HIDE DEF m, k, j
    <3>3. QED BY <2>5, <3>1, <3>2, SealInner
  <2>10. Filed(n, Inner)
    BY <2>9, DocumentParts, ValueParts
  <2>11. ClearBelow(u) = ClearBelow(m[k]) \ {j}
    <3>1. mangle(j) # j /\ mangle(j) \notin PlainNames
      BY <2>1, NameFacts
    <3>2. IsMoved(Moved(l, j, mangle(j), e), l, j, mangle(j), e)
      BY <3>1, MoveParts
    <3>3. u.members = Moved(l, j, mangle(j), e)
      BY ValueParts
    <3>4. QED BY <3>1, <3>2, <3>3 DEF IsMoved, ClearBelow
  <2>12. a.value = [v EXCEPT !.members[k] = u]
    BY <2>3, <2>8, OkParts
  <2> HIDE DEF u
  <2>13. /\ ClearTop(n) = ClearTop(m) /\ k \in ClearTop(m) /\ n[k] = u
         /\ \A i \in ClearTop(n) \ {k} : n[i] = m[i]
    BY <1>5, <2>1 DEF ClearTop
  <2>14. a.value = [v EXCEPT !.members = n]
    BY <2>12
  <2> HIDE DEF n, m
  <2>15. ClearPaths(Object(n)) = {p \in ClearPaths(Object(m)) : ~Below(p, <<k, j>>)}
    BY <1>1, <2>10, <2>11, <2>13, HidesBelow
  <2>16. a.value = Object(n)
    BY <1>1, <2>14 DEF Object, Value
  <2>17. QED BY <1>1, <2>1, <2>9, <2>15, <2>16 DEF Sealing
<1>6. CASE ~(Len(f.path) = 1) /\ ~(Len(f.path) = 2 /\ k \in DOMAIN m)
  <2>1. encrypt_field(v, f) = {Err("encryption_failure")}
    BY <1>6 DEF encrypt_field
  <2>2. QED BY <2>1 DEF Err
<1>7. QED BY <1>4, <1>5, <1>6

\* f has the answers after the first n fields of the list o.
Run(v, o, n, f) ==
    f = [i \in 0..n |-> IF i = 0 THEN {Ok(v)} ELSE encrypt_next(f[i - 1], o[i])]

Answers(v, o) == CHOOSE f : Run(v, o, Len(o), f)

\* There are such answers.
LEMMA RunExists ==
    ASSUME NEW v, NEW o, NEW n \in Nat
    PROVE  \E f : Run(v, o, n, f)
<1> DEFINE S == {m \in Nat : ~\E f : Run(v, o, m, f)}
<1>1. SUFFICES ASSUME S # {} PROVE FALSE
  OBVIOUS
<1>2. PICK m \in S : \A j \in S : m <= j
  BY <1>1, LeastNat
<1>3. CASE m = 0
  <2> DEFINE f == [i \in 0..0 |-> {Ok(v)}]
  <2>1. Run(v, o, 0, f)
    BY DEF Run
  <2> HIDE DEF f
  <2>2. QED BY <1>2, <1>3, <2>1
<1>4. CASE m # 0
  <2>1. m - 1 \in Nat /\ m - 1 \notin S
    BY <1>2, <1>4
  <2>2. PICK f : Run(v, o, m - 1, f)
    BY <2>1
  <2> DEFINE g == [i \in 0..m |-> IF i = m THEN encrypt_next(f[m - 1], o[m]) ELSE f[i]]
             h == [i \in 0..m |-> IF i = 0 THEN {Ok(v)} ELSE encrypt_next(g[i - 1], o[i])]
  <2>3. \A i \in 0..(m - 1) : f[i] = IF i = 0 THEN {Ok(v)} ELSE encrypt_next(f[i - 1], o[i])
    BY <2>2 DEF Run
  <2>4. \A i \in 0..(m - 1) : g[i] = f[i]
    BY <1>2
  <2>5. g[m] = encrypt_next(f[m - 1], o[m])
    BY <1>2
  <2>6. \A i \in 0..m : g[i] = h[i]
    <3>1. TAKE i \in 0..m
    <3>2. CASE i = 0
      BY <1>2, <1>4, <2>3, <2>4, <3>2
    <3>3. CASE i = m
      <4>1. m - 1 \in 0..(m - 1) /\ i # 0
        BY <1>2, <1>4, <3>3
      <4>2. g[m - 1] = f[m - 1]
        BY <2>4, <4>1
      <4> HIDE DEF g
      <4>3. h[i] = encrypt_next(g[i - 1], o[i])
        BY <4>1
      <4>4. QED BY <2>5, <3>3, <4>2, <4>3
    <3>4. CASE i # 0 /\ i # m
      <4>1. i \in 0..(m - 1) /\ i - 1 \in 0..(m - 1)
        BY <1>2, <3>4
      <4>2. g[i] = f[i] /\ g[i - 1] = f[i - 1]
        BY <2>4, <4>1
      <4>3. f[i] = encrypt_next(f[i - 1], o[i])
        BY <2>3, <3>4, <4>1
      <4> HIDE DEF g
      <4>4. h[i] = encrypt_next(g[i - 1], o[i])
        BY <3>4
      <4>5. QED BY <4>2, <4>3, <4>4
    <3>5. QED BY <3>2, <3>3, <3>4
  <2>7. IsMap(g) /\ IsMap(h) /\ DOMAIN g = 0..m /\ DOMAIN h = 0..m
    BY DEF IsMap
  <2> HIDE DEF g
  <2>8. g = h
    <3> HIDE DEF h
    <3>1. QED BY <2>6, <2>7 DEF IsMap
  <2>9. Run(v, o, m, g)
    BY <2>8 DEF Run
  <2>10. QED BY <1>2, <2>9
<1>5. QED BY <1>3, <1>4

\* std::sort moves the fields.
LEMMA SortParts ==
    ASSUME NEW fields \in Seq(Fields), NEW o \in sort(fields)
    PROVE  /\ o \in Seq(Fields) /\ Len(o) = Len(fields) /\ Len(o) \in Nat
           /\ \A i \in 1..Len(fields) : \E j \in 1..Len(fields) : o[j] = fields[i]
           /\ \A i \in 1..Len(fields) : \E j \in 1..Len(fields) : o[i] = fields[j]
<1>1. PICK p \in Bijection(DOMAIN fields, DOMAIN fields) : o = [i \in DOMAIN fields |-> fields[p[i]]]
  BY DEF sort
<1>2. DOMAIN fields = 1..Len(fields) /\ Len(fields) \in Nat
  OBVIOUS
<1>3. p \in [1..Len(fields) -> 1..Len(fields)]
      /\ \A i \in 1..Len(fields) : \E j \in 1..Len(fields) : p[j] = i
  BY <1>1, <1>2 DEF Bijection, Surjection, Injection
<1>4. \A i \in 1..Len(fields) : fields[p[i]] \in Fields
  BY <1>3
<1>5. o \in Seq(Fields) /\ Len(o) = Len(fields) /\ \A i \in 1..Len(fields) : o[i] = fields[p[i]]
  BY <1>1, <1>2, <1>4
<1>6. ASSUME NEW i \in 1..Len(fields) PROVE \E j \in 1..Len(fields) : o[j] = fields[i]
  <2>1. PICK j \in 1..Len(fields) : p[j] = i
    BY <1>3
  <2>2. QED BY <1>5, <2>1
<1>7. ASSUME NEW i \in 1..Len(fields) PROVE \E j \in 1..Len(fields) : o[i] = fields[j]
  <2>1. p[i] \in 1..Len(fields)
    BY <1>3
  <2>2. QED BY <1>5, <2>1
<1>8. \A i \in 1..Len(fields) : \E j \in 1..Len(fields) : o[j] = fields[i]
  BY ONLY <1>6, Zenon
<1>9. \A i \in 1..Len(fields) : \E j \in 1..Len(fields) : o[i] = fields[j]
  BY ONLY <1>7, Zenon
<1>10. QED BY ONLY <1>2, <1>5, <1>8, <1>9, Zenon

LEMMA AnswersParts ==
    ASSUME NEW v, NEW o, Len(o) \in Nat
    PROVE  /\ Answers(v, o)[0] = {Ok(v)}
           /\ \A i \in 1..Len(o) : Answers(v, o)[i] = encrypt_next(Answers(v, o)[i - 1], o[i])
<1> DEFINE f == Answers(v, o)
<1>1. Run(v, o, Len(o), f)
  <2>1. \E g : Run(v, o, Len(o), g)
    BY RunExists
  <2>2. QED BY <2>1 DEF Answers
<1>2. f = [i \in 0..Len(o) |-> IF i = 0 THEN {Ok(v)} ELSE encrypt_next(f[i - 1], o[i])]
  BY <1>1 DEF Run
<1> HIDE DEF f
<1>3. \A i \in 0..Len(o) : f[i] = IF i = 0 THEN {Ok(v)} ELSE encrypt_next(f[i - 1], o[i])
  BY <1>2
<1>4. f[0] = {Ok(v)} /\ \A i \in 1..Len(o) : f[i] = encrypt_next(f[i - 1], o[i])
  BY <1>3
<1>5. QED BY <1>4 DEF f

\* encrypt gives the answers after the last field of the sorted list.
LEMMA EncryptIs ==
    ASSUME NEW v, NEW fields
    PROVE  encrypt(v, fields) = UNION {Answers(v, o)[Len(o)] : o \in sort(fields)}
<1> DEFINE after(o) == CHOOSE after : after = [i \in 0..Len(o) |->
                          IF i = 0 THEN {Ok(v)} ELSE encrypt_next(after[i - 1], o[i])]
<1>1. encrypt(v, fields) = UNION {after(o)[Len(o)] : o \in sort(fields)}
  BY DEF encrypt
<1>2. ASSUME NEW o PROVE after(o) = Answers(v, o)
  BY DEF Answers, Run
<1> HIDE DEF after
<1>3. QED BY <1>1, <1>2

\* What the first n fields of the list o may do to a document.
SealingUpTo(v, w, o, n) ==
    /\ IsDocument(w)
    /\ Opened(w) = Opened(v)
    /\ ClearPaths(w) = {p \in ClearPaths(v) : \A i \in 1..n : ~Below(p, o[i].path)}

\* One field after another is sealed.
LEMMA EncryptsUpTo ==
    ASSUME ManagerTypeOK, NEW v, IsDocument(v), NEW fields \in Seq(Fields), NEW o \in sort(fields)
    PROVE  \A n \in 0..Len(o) : \A a \in Answers(v, o)[n] :
             a.err = "none" => SealingUpTo(v, a.value, o, n)
<1> DEFINE Good(n) == \A a \in Answers(v, o)[n] : a.err = "none" => SealingUpTo(v, a.value, o, n)
           S == {n \in 0..Len(o) : ~Good(n)}
<1>1. /\ o \in Seq(Fields) /\ Len(o) \in Nat
      /\ Answers(v, o)[0] = {Ok(v)}
      /\ \A i \in 1..Len(o) : Answers(v, o)[i] = encrypt_next(Answers(v, o)[i - 1], o[i])
  BY SortParts, AnswersParts
<1>2. SUFFICES ASSUME S # {} PROVE FALSE
  OBVIOUS
<1>3. PICK n \in S : \A i \in S : n <= i
  <2>1. S \in SUBSET Nat
    BY <1>1
  <2> HIDE DEF S
  <2>2. QED BY <1>2, <2>1, LeastNat
<1>4. n \in 0..Len(o) /\ ~Good(n) /\ n \in Nat
  BY <1>1, <1>3
<1>5. PICK a \in Answers(v, o)[n] : a.err = "none" /\ ~SealingUpTo(v, a.value, o, n)
  BY <1>4
<1>6. CASE n = 0
  <2>1. a.value = v
    BY <1>1, <1>5, <1>6, OkParts
  <2>2. 1..n = {}
    BY <1>6
  <2>3. SealingUpTo(v, v, o, n)
    BY <2>2 DEF SealingUpTo
  <2>4. QED BY <1>5, <2>1, <2>3
<1>7. CASE n # 0
  <2>1. n \in 1..Len(o) /\ n - 1 \in 0..Len(o)
    BY <1>1, <1>4, <1>7
  <2>2. n - 1 \notin S
    BY <1>3, <1>4
  <2>3. Good(n - 1)
    BY <2>1, <2>2
  <2>4. Answers(v, o)[n] = encrypt_next(Answers(v, o)[n - 1], o[n])
    BY <1>1, <2>1
  <2>5. a \in encrypt_next(Answers(v, o)[n - 1], o[n])
    BY <1>5, <2>4
  <2> HIDE DEF S
  <2>6. PICK b \in Answers(v, o)[n - 1] : a \in IF b.err = "none" THEN encrypt_field(b.value, o[n]) ELSE {b}
    BY <2>5 DEF encrypt_next
  <2>7. b.err = "none" /\ a \in encrypt_field(b.value, o[n])
    BY <1>5, <2>6
  <2>8. SealingUpTo(v, b.value, o, n - 1)
    BY <2>3, <2>7
  <2>9. o[n] \in Fields
    BY <1>1, <2>1
  <2>10. Sealing(b.value, a.value, o[n].path)
    BY <1>5, <2>7, <2>8, <2>9, EncryptField DEF SealingUpTo
  <2>11. ClearPaths(a.value) = {p \in ClearPaths(v) : \A i \in 1..n : ~Below(p, o[i].path)}
    <3>1. \A i : i \in 1..n <=> i \in 1..(n - 1) \/ i = n
      BY <1>4, <1>7
    <3>2. ClearPaths(a.value) = {p \in ClearPaths(b.value) : ~Below(p, o[n].path)}
      BY <2>10 DEF Sealing
    <3>3. ClearPaths(b.value) = {p \in ClearPaths(v) : \A i \in 1..(n - 1) : ~Below(p, o[i].path)}
      BY <2>8 DEF SealingUpTo
    <3>4. QED BY <3>1, <3>2, <3>3, Zenon
  <2>12. SealingUpTo(v, a.value, o, n)
    BY <2>8, <2>10, <2>11 DEF SealingUpTo, Sealing
  <2>13. QED BY <1>5, <2>12
<1>8. QED BY <1>6, <1>7

\* What encrypt may do to a document.
LEMMA EncryptList ==
    ASSUME ManagerTypeOK, NEW v, IsDocument(v), NEW fields \in Seq(Fields),
           NEW a \in encrypt(v, fields), a.err = "none"
    PROVE  /\ IsDocument(a.value)
           /\ Opened(a.value) = Opened(v)
           /\ ClearPaths(a.value) =
                {p \in ClearPaths(v) : \A q \in {f.path : f \in Range(fields)} : ~Below(p, q)}
<1>1. PICK o \in sort(fields) : a \in Answers(v, o)[Len(o)]
  BY EncryptIs
<1>2. /\ Len(fields) \in Nat /\ Len(o) = Len(fields)
      /\ \A i \in 1..Len(fields) : \E j \in 1..Len(fields) : o[j] = fields[i]
      /\ \A i \in 1..Len(fields) : \E j \in 1..Len(fields) : o[i] = fields[j]
  BY SortParts
<1>3. SealingUpTo(v, a.value, o, Len(o))
  <2>1. Len(o) \in 0..Len(o)
    BY <1>2
  <2>2. QED BY <1>1, <2>1, EncryptsUpTo
<1>4. Range(fields) = {fields[i] : i \in 1..Len(fields)}
  <2>1. DOMAIN fields = 1..Len(fields)
    OBVIOUS
  <2>2. QED BY <2>1 DEF Range
<1>5. \A p : (\A i \in 1..Len(o) : ~Below(p, o[i].path))
             <=> (\A q \in {f.path : f \in Range(fields)} : ~Below(p, q))
  <2> TAKE p
  <2>1. ASSUME \A i \in 1..Len(o) : ~Below(p, o[i].path), NEW i \in 1..Len(fields)
        PROVE  ~Below(p, fields[i].path)
    <3>1. PICK j \in 1..Len(fields) : o[j] = fields[i]
      BY <1>2
    <3>2. ~Below(p, o[j].path)
      BY <1>2, <2>1
    <3>3. QED BY <3>1, <3>2
  <2>2. ASSUME \A i \in 1..Len(fields) : ~Below(p, fields[i].path), NEW i \in 1..Len(o)
        PROVE  ~Below(p, o[i].path)
    <3>1. PICK j \in 1..Len(fields) : o[i] = fields[j]
      BY <1>2
    <3>2. QED BY <2>2, <3>1
  <2>3. QED BY <1>4, <2>1, <2>2
<1>6. QED BY <1>3, <1>5 DEF SealingUpTo

-----------------------------------------------------------------------------
(* The transcoders.                                                        *)

\* What a transcoder has made of a value is a document with the same behind.
Encoding(v, e) ==
    /\ e # NotStored
    /\ e.flags = JsonFlags
    /\ IsDocument(e.value)
    /\ Opened(e.value) = Opened(v)

LEMMA EncodedParts ==
    ASSUME NEW v, IsDocument(v), NEW w, IsDocument(w), Opened(w) = Opened(v)
    PROVE  Encoding(v, Encoded(w)) /\ Encoded(w).value = w
<1>1. Encoded(w).value = w /\ Encoded(w).flags = JsonFlags /\ NotStored.flags = Absent
  BY DEF Encoded, NotStored
<1>2. JsonFlags # Absent
  BY CryptoSessionAssumption DEF Flags
<1>3. QED BY <1>1, <1>2 DEF Encoding

LEMMA ListParts == \A type : encrypted_fields_of(type) \in Seq(Fields)
<1>1. TAKE type
<1>2. << >> \in Seq(Fields)
  OBVIOUS
<1>3. QED BY <1>2, PlainNamesAssumption DEF encrypted_fields_of

LEMMA CryptoEncode ==
    ASSUME ManagerTypeOK, NEW c, NEW h, IsDocument(h.value), h.fields \in Seq(Fields),
           NEW a \in crypto_encode(c, h), a.err = "none"
    PROVE  /\ Encoding(h.value, a.value)
           /\ ClearPaths(a.value.value) =
                {p \in ClearPaths(h.value) : \A q \in Declared(h) : ~Below(p, q)}
<1> DEFINE list == IF h.type = CryptoDocument THEN h.fields ELSE encrypted_fields_of(h.type)
<1>1. list \in Seq(Fields)
  BY ListParts
<1>2. Declared(h) = {f.path : f \in Range(list)}
  BY DEF Declared, encrypted_fields_of
<1>3. crypto_encode(c, h) = IF c \notin Managed THEN {Err("generic_cryptography_failure")}
                            ELSE EncodeAnswers(encrypt(h.value, list))
  BY DEF crypto_encode
<1> HIDE DEF list
<1>4. a \in EncodeAnswers(encrypt(h.value, list))
  BY <1>3 DEF Err
<1>5. PICK b \in encrypt(h.value, list) : a = IF b.err = "none" THEN Ok(Encoded(b.value)) ELSE b
  BY <1>4 DEF EncodeAnswers
<1>6. b.err = "none" /\ a.value = Encoded(b.value)
  BY <1>5, OkParts
<1>7. /\ IsDocument(b.value)
      /\ Opened(b.value) = Opened(h.value)
      /\ ClearPaths(b.value) =
           {p \in ClearPaths(h.value) : \A q \in {f.path : f \in Range(list)} : ~Below(p, q)}
  BY <1>1, <1>6, EncryptList
<1>8. QED BY <1>2, <1>6, <1>7, EncodedParts

LEMMA AddressEncode ==
    ASSUME ManagerTypeOK, NEW c, NEW h, IsDocument(h.value),
           NEW a \in address_encode(c, h), a.err = "none"
    PROVE  Encoding(h.value, a.value)
<1> DEFINE v == h.value
           m == v.members
<1>1. v = Object(m) /\ Filed(m, Inner)
  BY DocumentParts
<1>2. address \in DOMAIN m /\ address \in PlainNames
  BY CryptoSessionAssumption DEF address_encode, Err
<1>3. PICK b \in {IF d.err = "none" THEN Ok(seal(v, address, d.value)) ELSE Err(d.err) :
                    d \in manager_encrypt(m[address], Absent)} :
        a = IF b.err = "none" THEN Ok(Encoded(b.value)) ELSE b
  BY DEF address_encode, EncodeAnswers, Err
<1>4. b.err = "none" /\ a.value = Encoded(b.value)
  BY <1>3, OkParts
<1>5. PICK d \in manager_encrypt(m[address], Absent) :
        b = IF d.err = "none" THEN Ok(seal(v, address, d.value)) ELSE Err(d.err)
  BY <1>3
<1>6. d.err = "none" /\ b.value = seal(v, address, d.value)
  BY <1>4, <1>5, OkParts DEF Err
<1>7. Envelope(d.value) \in SealedValues({m[address]})
  <2>1. m[address] \in Plaintexts
    BY <1>1, <1>2, InnerParts, FiledParts, NameFacts, CanBeEncrypted
  <2> HIDE DEF m
  <2>2. QED BY <1>5, <1>6, <2>1, ManagerSeals
<1> DEFINE w == Object(Moved(m, address, mangle(address), Envelope(d.value)))
<1>8. b.value = w
  BY <1>1, <1>6, SealIs
<1>9. IsDocument(w) /\ Opened(w) = Opened(Object(m))
  BY <1>1, <1>2, <1>7, SealDocument
<1> HIDE DEF w
<1>10. QED BY <1>1, <1>4, <1>8, <1>9, EncodedParts

LEMMA AddressDecode ==
    ASSUME ManagerTypeOK, NEW c \in Managed, NEW e, e.flags = JsonFlags, IsDocument(e.value)
    PROVE  LET a == address_decode(c, e)
           IN  /\ a.err = "none" <=> /\ mangle(address) \in DOMAIN e.value.members
                                     /\ KeyKept(e.value.members[mangle(address)].node)
               /\ a.err # "undefined"
               /\ a.err = "none" =>
                    /\ IsDocument(a.value)
                    /\ <<address>> \in ClearPaths(a.value)
                    /\ ClearPaths(e.value) = {p \in ClearPaths(a.value) : ~Below(p, <<address>>)}
                    /\ Opened(a.value) = Opened(e.value)
<1> DEFINE v == e.value
           m == v.members
           l == mangle(address)
           b == manager_decrypt(m[l].node)
           a == address_decode(c, e)
<1>1. v = Object(m) /\ Filed(m, Inner)
  BY DocumentParts
<1>2. /\ address \in PlainNames /\ l \in Names /\ is_mangled(l) /\ demangle(l) = address
      /\ l # address /\ l \notin PlainNames
  BY CryptoSessionAssumption, NameFacts
<1>3. a = IF l \notin DOMAIN m THEN Err("out_of_range")
          ELSE IF b.err # "none" THEN Err(b.err)
          ELSE Ok([v EXCEPT !.members = put(erase(@, {l}), address, b.value)])
  BY DEF address_decode
<1>4. CASE l \notin DOMAIN m
  BY <1>3, <1>4 DEF Err
<1>5. CASE l \in DOMAIN m
  <2>1. m[l] \in SealedValues(Inner)
    BY <1>1, <1>2, <1>5, InnerParts, FiledParts
  <2>2. IF KeyKept(m[l].node) THEN b = Ok(m[l].node.ciphertext.plain) ELSE Refused(b)
    <3> DEFINE u == m[l]
    <3>1. u \in SealedValues(Inner)
      BY <2>1
    <3> HIDE DEF u
    <3>2. LET d == manager_decrypt(u.node)
          IN  IF KeyKept(u.node) THEN d = Ok(u.node.ciphertext.plain) ELSE Refused(d)
      BY <3>1, CanBeEncrypted, OpensWhileKept
    <3>3. QED BY <3>2 DEF u
  <2> HIDE DEF b
  <2>3. CASE ~KeyKept(m[l].node)
    BY <1>3, <1>5, <2>2, <2>3 DEF Err, Refused
  <2>4. CASE KeyKept(m[l].node)
    <3> DEFINE n == Moved(m, l, address, m[l].node.ciphertext.plain)
               w == Object(n)
    <3>1. b.err = "none" /\ b.value = m[l].node.ciphertext.plain
      BY <2>2, <2>4, OkParts
    <3>2. a.err = "none" /\ a.value = [v EXCEPT !.members = n]
      <4>1. a = Ok([v EXCEPT !.members = put(erase(@, {l}), address, b.value)])
        BY <1>3, <1>5, <3>1
      <4>2. QED BY <3>1, <4>1, OkParts DEF Moved
    <3>3. a.value = w
      <4> HIDE DEF n, m
      <4>1. [v EXCEPT !.members = n] = Object(n)
        BY <1>1 DEF Object, Value
      <4>2. QED BY <3>2, <4>1
    <3>4. IsDocument(w) /\ Opened(w) = Opened(Object(m))
      BY <1>1, <1>2, <1>5, UnsealDocument
    <3>5. Filed(n, Inner)
      BY <3>4, DocumentParts, ValueParts
    <3>6. IsMoved(n, m, l, address, m[l].node.ciphertext.plain)
      BY <1>2, MoveParts
    <3>7. address \notin DOMAIN m
      BY <1>1, <1>2, <1>5, InnerParts, FiledParts
    <3> HIDE DEF n
    <3>8. /\ ClearTop(m) = ClearTop(n) \ {address} /\ address \in ClearTop(n)
          /\ \A j \in ClearTop(m) : m[j] = n[j]
      BY <1>2, <3>6, <3>7 DEF IsMoved, ClearTop
    <3>9. ClearPaths(Object(m)) = {p \in ClearPaths(w) : ~Below(p, <<address>>)}
      BY <1>1, <3>5, <3>8, HidesTop
    <3>10. <<address>> \in ClearPaths(w)
      BY <3>5, <3>8, ClearParts
    <3> HIDE DEF w, m, a
    <3>11. QED BY <1>1, <1>5, <2>4, <3>2, <3>3, <3>4, <3>9, <3>10 DEF m, a
  <2>5. QED BY <2>3, <2>4
<1>6. QED BY <1>4, <1>5

\* No error of the manager's is the end of the process.
LEMMA ManagerErrs ==
    ASSUME NEW plain, NEW alias, NEW a \in manager_encrypt(plain, alias)
    PROVE  a.err # "undefined"
<1> DEFINE e == alias_to_encrypter[value_or_default(alias)]
           key == get(e.ring, e.kid)
           sealed == aead_encrypt(e.alg, key.value, plain)
<1>1. key.err # "undefined" /\ sealed.err # "undefined"
  BY DEF get, aead_encrypt, Err, Ok
<1> HIDE DEF key, sealed
<1>2. a \in {Err("encrypter_not_found"), Err("cipher_failure"), key, sealed,
             Ok(encryption_result(e.alg, e.kid, sealed.value))}
  BY DEF manager_encrypt, encrypter_encrypt, key, sealed
<1>3. QED BY <1>1, <1>2 DEF Err, Ok

LEMMA EncryptErrs ==
    ASSUME NEW v, NEW fields \in Seq(Fields), NEW a \in encrypt(v, fields)
    PROVE  a.err # "undefined"
<1>1. ASSUME NEW u, NEW k, NEW alias, NEW b \in encrypt_member(u, k, alias)
      PROVE  b.err # "undefined"
  <2>1. \/ b = Err("encryption_failure")
        \/ \E d \in manager_encrypt(u.members[k], alias) :
             b = IF d.err = "none" THEN Ok(seal(u, k, d.value)) ELSE Err(d.err)
    BY <1>1 DEF encrypt_member
  <2>2. QED BY <2>1, ManagerErrs DEF Err, Ok
<1>2. ASSUME NEW u, NEW f, NEW b \in encrypt_field(u, f)
      PROVE  b.err # "undefined"
  <2>1. CASE Len(f.path) = 1
    BY <1>1, <1>2, <2>1 DEF encrypt_field
  <2>2. CASE Len(f.path) # 1 /\ Len(f.path) = 2 /\ f.path[1] \in DOMAIN u.members
    <3>1. encrypt_field(u, f) =
            {IF d.err = "none" THEN Ok([u EXCEPT !.members[f.path[1]] = d.value]) ELSE d :
               d \in encrypt_member(u.members[f.path[1]], f.path[2], f.alias)}
      BY <2>2 DEF encrypt_field
    <3>2. PICK d \in encrypt_member(u.members[f.path[1]], f.path[2], f.alias) :
            b = IF d.err = "none" THEN Ok([u EXCEPT !.members[f.path[1]] = d.value]) ELSE d
      BY <1>2, <3>1
    <3>3. QED BY <1>1, <3>2, OkParts
  <2>3. CASE Len(f.path) # 1 /\ ~(Len(f.path) = 2 /\ f.path[1] \in DOMAIN u.members)
    <3>1. encrypt_field(u, f) = {Err("encryption_failure")}
      BY <2>3 DEF encrypt_field
    <3>2. QED BY <1>2, <3>1 DEF Err
  <2>4. QED BY <2>1, <2>2, <2>3
<1>3. PICK o \in sort(fields) : a \in Answers(v, o)[Len(o)]
  BY EncryptIs
<1>4. /\ Len(o) \in Nat
      /\ Answers(v, o)[0] = {Ok(v)}
      /\ \A i \in 1..Len(o) : Answers(v, o)[i] = encrypt_next(Answers(v, o)[i - 1], o[i])
  BY SortParts, AnswersParts
<1> DEFINE S == {n \in 0..Len(o) : \E b \in Answers(v, o)[n] : b.err = "undefined"}
<1>5. S = {}
  <2> SUFFICES ASSUME S # {} PROVE FALSE
    OBVIOUS
  <2>1. S \in SUBSET Nat
    BY <1>4
  <2>2. PICK n \in S : \A i \in S : n <= i
    <3> HIDE DEF S
    <3>1. QED BY <2>1, LeastNat
  <2>3. n \in 0..Len(o) /\ n \in Nat
    BY <1>4
  <2>4. PICK b \in Answers(v, o)[n] : b.err = "undefined"
    OBVIOUS
  <2>5. n # 0
    BY <1>4, <2>4, OkParts
  <2>6. n \in 1..Len(o) /\ n - 1 \in 0..Len(o) /\ n - 1 \notin S
    BY <1>4, <2>2, <2>3, <2>5
  <2>7. b \in encrypt_next(Answers(v, o)[n - 1], o[n])
    BY <1>4, <2>4, <2>6
  <2>8. PICK d \in Answers(v, o)[n - 1] : b \in IF d.err = "none" THEN encrypt_field(d.value, o[n]) ELSE {d}
    BY <2>7 DEF encrypt_next
  <2>9. d.err # "undefined"
    BY <2>6
  <2>10. QED BY <1>2, <2>4, <2>8, <2>9
<1>6. Len(o) \notin S /\ Len(o) \in 0..Len(o)
  BY <1>4, <1>5
<1>7. QED BY <1>3, <1>6

\* Whichever transcoder a document goes through, it stays the same behind.
LEMMA EncodeParts ==
    ASSUME ManagerTypeOK, NEW transcoder \in Transcoders, NEW c,
           NEW h, IsDocument(h.value), h.fields \in Seq(Fields),
           NEW a \in encode(transcoder, c, h)
    PROVE  /\ a.err = "none" => Encoding(h.value, a.value)
           /\ a.err = "undefined" => c \notin Managed
<1>1. CASE transcoder = "crypto"
  <2>1. a \in crypto_encode(c, h)
    BY <1>1 DEF encode
  <2>2. ASSUME a.err = "undefined" PROVE FALSE
    <3> DEFINE list == IF h.type = CryptoDocument THEN h.fields ELSE encrypted_fields_of(h.type)
    <3>1. list \in Seq(Fields)
      BY ListParts
    <3>2. a \in IF c \notin Managed THEN {Err("generic_cryptography_failure")}
                ELSE EncodeAnswers(encrypt(h.value, list))
      BY <2>1 DEF crypto_encode
    <3> HIDE DEF list
    <3>3. PICK b \in encrypt(h.value, list) : a = IF b.err = "none" THEN Ok(Encoded(b.value)) ELSE b
      BY <2>2, <3>2 DEF EncodeAnswers, Err
    <3>4. QED BY <2>2, <3>1, <3>3, EncryptErrs, OkParts
  <2>3. QED BY <2>1, <2>2, CryptoEncode
<1>2. CASE transcoder = "address"
  <2>1. a \in address_encode(c, h)
    BY <1>2 DEF encode
  <2>2. ASSUME a.err = "undefined", c \in Managed PROVE FALSE
    <3>1. a \in EncodeAnswers(
                  {IF d.err = "none" THEN Ok(seal(h.value, address, d.value)) ELSE Err(d.err) :
                     d \in manager_encrypt(h.value.members[address], Absent)})
      BY <2>1, <2>2 DEF address_encode, Err
    <3>2. PICK b \in {IF d.err = "none" THEN Ok(seal(h.value, address, d.value)) ELSE Err(d.err) :
                        d \in manager_encrypt(h.value.members[address], Absent)} :
            a = IF b.err = "none" THEN Ok(Encoded(b.value)) ELSE b
      BY <3>1 DEF EncodeAnswers
    <3>3. PICK d \in manager_encrypt(h.value.members[address], Absent) :
            b = IF d.err = "none" THEN Ok(seal(h.value, address, d.value)) ELSE Err(d.err)
      OBVIOUS
    <3>4. b.err = "undefined"
      BY <2>2, <3>2, OkParts
    <3>5. d.err = "undefined"
      BY <3>3, <3>4, OkParts DEF Err
    <3>6. QED BY <3>5, ManagerErrs
  <2>3. QED BY <2>1, <2>2, AddressEncode
<1>3. CASE transcoder = "plain"
  <2>1. a = Ok(Encoded(h.value))
    BY <1>3 DEF encode, plain_encode
  <2>2. QED BY <2>1, OkParts, EncodedParts
<1>4. QED BY <1>1, <1>2, <1>3 DEF Transcoders

LEMMA DecodeParts ==
    ASSUME ManagerTypeOK, NEW transcoder \in Transcoders, NEW c,
           NEW e, IsDocument(e.value), Opened(e.value) \in Fresh
    PROVE  LET a == decode(transcoder, c, e)
           IN  /\ a.err = "none" => IsDocument(a.value) /\ Opened(a.value) = Opened(e.value)
               /\ a.err = "undefined" => c \notin Managed
<1> DEFINE a == decode(transcoder, c, e)
<1>1. CASE transcoder = "crypto"
  <2>1. a = IF c \notin Managed THEN Err("generic_cryptography_failure")
            ELSE IF e.flags # JsonFlags THEN Err("decoding_failure")
            ELSE decrypt(e.value)
    BY <1>1 DEF decode, crypto_decode
  <2>2. \/ decrypt(e.value) = Ok(Opened(e.value))
        \/ Refused(decrypt(e.value))
    BY DecryptIs
  <2>3. IsDocument(Opened(e.value)) /\ Opened(Opened(e.value)) = Opened(e.value)
    BY FreshParts
  <2> HIDE DEF a
  <2>4. \/ a.err \notin {"none", "undefined"}
        \/ a.err = "none" /\ a.value = Opened(e.value)
    BY <2>1, <2>2, OkParts DEF Err, Refused
  <2>5. QED BY <2>3, <2>4 DEF a
<1>2. CASE transcoder = "address"
  <2>1. a = address_decode(c, e)
    BY <1>2 DEF decode
  <2>2. CASE e.flags = JsonFlags /\ c \in Managed
    BY <2>1, <2>2, AddressDecode
  <2>3. CASE e.flags = JsonFlags /\ c \notin Managed
    <3>1. a = Err("undefined")
      BY <2>1, <2>3 DEF address_decode
    <3>2. QED BY <2>3, <3>1 DEF Err
  <2>4. CASE e.flags # JsonFlags
    <3>1. a = Err("decoding_failure")
      BY <2>1, <2>4 DEF address_decode
    <3>2. QED BY <3>1 DEF Err
  <2>5. QED BY <2>2, <2>3, <2>4
<1>3. CASE transcoder = "plain"
  <2>1. a = IF e.flags # JsonFlags THEN Err("decoding_failure") ELSE Ok(e.value)
    BY <1>3 DEF decode, plain_decode
  <2> HIDE DEF a
  <2>2. \/ a.err = "decoding_failure"
        \/ a.err = "none" /\ a.value = e.value
    BY <2>1, OkParts DEF Err
  <2>3. QED BY <2>2 DEF a
<1>4. QED BY <1>1, <1>2, <1>3 DEF Transcoders

-----------------------------------------------------------------------------
(* The inductive invariant, and what the calls do to it and to the store   *)
(* of plain documents.                                                     *)

\* Behind all envelopes there are documents that clients have made.
FreshBehind ==
    /\ stored # NotStored => Opened(stored.value) \in Fresh
    /\ \A c \in Clients : held[c] # NotHeld => Opened(held[c].value) \in Fresh

Inv == TypeOK /\ FreshBehind

\* The store of plain documents that there is behind the envelopes.
StoredDocument == IF stored = NotStored THEN Absent ELSE Opened(stored.value)
HeldDocuments ==
    [c \in Clients |-> IF held[c] = NotHeld THEN Absent ELSE Opened(held[c].value)]

LEMMA DocumentsParts ==
    ASSUME NEW c \in Clients
    PROVE  /\ held[c] # NotHeld => HeldDocuments[c] = Opened(held[c].value)
           /\ held[c] = NotHeld => HeldDocuments[c] = Absent
  BY DEF HeldDocuments

\* A client comes to hold a document.
LEMMA Holds ==
    ASSUME Inv, NEW c \in Clients, NEW v, IsDocument(v), Opened(v) \in Fresh,
           NEW type \in Types \cup {CryptoDocument}, NEW fields \in Seq(Fields),
           Hold(c, v, type, fields), UNCHANGED <<manager_vars, stored>>
    PROVE  /\ Inv'
           /\ HeldDocuments' = [HeldDocuments EXCEPT ![c] = Opened(v)]
           /\ StoredDocument' = StoredDocument
<1> DEFINE h == [value |-> v, type |-> type, fields |-> fields]
<1>1. held' = [held EXCEPT ![c] = h] /\ DOMAIN held = Clients /\ stored' = stored
  BY DEF Hold, Inv, TypeOK
<1>2. h # NotHeld /\ h.value = v /\ h.type = type /\ h.fields = fields
  BY CryptoSessionAssumption DEF NotHeld
<1> HIDE DEF h
<1>3. DOMAIN held' = Clients /\ \A d \in Clients : held'[d] = IF d = c THEN h ELSE held[d]
  BY <1>1
<1>4. ManagerTypeOK'
  BY DEF Inv, TypeOK, ManagerTypeOK, manager_vars
<1>5. Inv'
  <2>1. /\ stored' # NotStored => IsDocument(stored'.value) /\ stored'.flags \in Flags
                                  /\ Opened(stored'.value) \in Fresh
    BY <1>1 DEF Inv, TypeOK, FreshBehind
  <2>2. ASSUME NEW d \in Clients, held'[d] # NotHeld
        PROVE  /\ IsDocument(held'[d].value)
               /\ held'[d].type \in Types \cup {CryptoDocument}
               /\ held'[d].fields \in Seq(Fields)
               /\ Opened(held'[d].value) \in Fresh
    <3>1. CASE d = c
      BY <1>2, <1>3, <3>1
    <3>2. CASE d # c
      BY <1>3, <2>2, <3>2 DEF Inv, TypeOK, FreshBehind
    <3>3. QED BY <3>1, <3>2
  <2>3. QED BY <1>3, <1>4, <2>1, <2>2 DEF Inv, TypeOK, FreshBehind
<1>6. HeldDocuments' = [HeldDocuments EXCEPT ![c] = Opened(v)]
  <2>1. \A d \in Clients :
          (IF held'[d] = NotHeld THEN Absent ELSE Opened(held'[d].value))
            = IF d = c THEN Opened(v) ELSE HeldDocuments[d]
    BY <1>2, <1>3, DocumentsParts
  <2>2. HeldDocuments' = [d \in Clients |-> IF d = c THEN Opened(v) ELSE HeldDocuments[d]]
    BY <2>1 DEF HeldDocuments
  <2>3. DOMAIN HeldDocuments = Clients
    BY DEF HeldDocuments
  <2>4. [HeldDocuments EXCEPT ![c] = Opened(v)]
          = [d \in Clients |-> IF d = c THEN Opened(v) ELSE HeldDocuments[d]]
    BY <2>3
  <2>5. QED BY <2>2, <2>4
<1>7. QED BY <1>1, <1>5, <1>6 DEF StoredDocument

\* What a client holds is stored.
LEMMA Stores ==
    ASSUME Inv, NEW c \in Clients, held[c] # NotHeld,
           stored' # NotStored, stored'.flags \in Flags,
           IsDocument(stored'.value), Opened(stored'.value) = Opened(held[c].value),
           UNCHANGED <<manager_vars, held>>
    PROVE  /\ Inv'
           /\ StoredDocument' = HeldDocuments[c]
           /\ HeldDocuments' = HeldDocuments
<1>1. ManagerTypeOK'
  BY DEF Inv, TypeOK, ManagerTypeOK, manager_vars
<1>2. Opened(stored'.value) \in Fresh
  BY DEF Inv, FreshBehind
<1>3. Inv'
  BY <1>1, <1>2 DEF Inv, TypeOK, FreshBehind
<1>4. StoredDocument' = HeldDocuments[c]
  BY DocumentsParts DEF StoredDocument
<1>5. HeldDocuments' = HeldDocuments
  BY DEF HeldDocuments
<1>6. QED BY <1>3, <1>4, <1>5

\* A call fails.
LEMMA Fails ==
    ASSUME Inv, NEW c \in Clients, NEW e, Failed(c, e), UNCHANGED manager_vars
    PROVE  /\ Inv'
           /\ stored' = stored /\ StoredDocument' = StoredDocument
           /\ \/ UNCHANGED session_vars
              \/ e = "undefined" /\ HeldDocuments' = [HeldDocuments EXCEPT ![c] = Absent]
<1>1. stored' = stored /\ DOMAIN held = Clients
  BY DEF Failed, Inv, TypeOK
<1>2. ManagerTypeOK'
  BY DEF Inv, TypeOK, ManagerTypeOK, manager_vars
<1>3. CASE e # "undefined"
  <2>1. UNCHANGED session_vars
    BY <1>1, <1>3 DEF Failed, session_vars
  <2>2. Inv'
    BY <1>2, <2>1 DEF Inv, TypeOK, FreshBehind, session_vars
  <2>3. QED BY <1>1, <2>1, <2>2 DEF StoredDocument
<1>4. CASE e = "undefined"
  <2>1. held' = [held EXCEPT ![c] = NotHeld]
    BY <1>4 DEF Failed
  <2>2. DOMAIN held' = Clients /\ \A d \in Clients : held'[d] = IF d = c THEN NotHeld ELSE held[d]
    BY <1>1, <2>1
  <2>3. Inv'
    <3>1. stored' # NotStored => IsDocument(stored'.value) /\ stored'.flags \in Flags
                                 /\ Opened(stored'.value) \in Fresh
      BY <1>1 DEF Inv, TypeOK, FreshBehind
    <3>2. ASSUME NEW d \in Clients, held'[d] # NotHeld
          PROVE  /\ IsDocument(held'[d].value)
                 /\ held'[d].type \in Types \cup {CryptoDocument}
                 /\ held'[d].fields \in Seq(Fields)
                 /\ Opened(held'[d].value) \in Fresh
      BY <2>2, <3>2 DEF Inv, TypeOK, FreshBehind
    <3>3. QED BY <1>2, <2>2, <3>1, <3>2 DEF Inv, TypeOK, FreshBehind
  <2>4. HeldDocuments' = [HeldDocuments EXCEPT ![c] = Absent]
    <3>1. \A d \in Clients :
            (IF held'[d] = NotHeld THEN Absent ELSE Opened(held'[d].value))
              = IF d = c THEN Absent ELSE HeldDocuments[d]
      BY <2>2, DocumentsParts
    <3>2. HeldDocuments' = [d \in Clients |-> IF d = c THEN Absent ELSE HeldDocuments[d]]
      BY <3>1 DEF HeldDocuments
    <3>3. DOMAIN HeldDocuments = Clients
      BY DEF HeldDocuments
    <3>4. [HeldDocuments EXCEPT ![c] = Absent]
            = [d \in Clients |-> IF d = c THEN Absent ELSE HeldDocuments[d]]
      BY <3>3
    <3>5. QED BY <3>2, <3>4
  <2>5. QED BY <1>1, <1>4, <2>3, <2>4 DEF StoredDocument
<1>5. QED BY <1>3, <1>4

-----------------------------------------------------------------------------
(* The actions.                                                            *)

\* The actions of the store of plain documents.
LEMMA StoreActions ==
    ASSUME NEW c \in Clients
    PROVE  /\ Transparent!Make(c) <=>
                /\ \E d \in Fresh : HeldDocuments' = [HeldDocuments EXCEPT ![c] = d]
                /\ StoredDocument' = StoredDocument
           /\ Transparent!Put(c) <=>
                StoredDocument' = HeldDocuments[c] /\ HeldDocuments' = HeldDocuments
           /\ Transparent!Get(c) <=>
                /\ HeldDocuments' = [HeldDocuments EXCEPT ![c] = StoredDocument]
                /\ StoredDocument' = StoredDocument
           /\ Transparent!Crash(c) <=>
                /\ HeldDocuments' = [HeldDocuments EXCEPT ![c] = Absent]
                /\ StoredDocument' = StoredDocument
  BY DEF Transparent!Make, Transparent!Put, Transparent!Get, Transparent!Crash,
         HeldDocuments, StoredDocument

LEMMA HasParts ==
    ASSUME Inv, NEW c \in Clients, NEW types \in SUBSET (Types \cup {CryptoDocument}), Has(c, types)
    PROVE  /\ held[c] # NotHeld
           /\ IsDocument(held[c].value) /\ Opened(held[c].value) \in Fresh
           /\ held[c].type \in types
           /\ held[c].fields \in Seq(Fields)
<1>1. held[c].type \in types /\ Absent \notin types
  BY CryptoSessionAssumption DEF Has
<1>2. held[c] # NotHeld
  BY <1>1 DEF NotHeld
<1>3. QED BY <1>1, <1>2 DEF Inv, TypeOK, FreshBehind

LEMMA AddKeyStep ==
    ASSUME Inv, AddKey
    PROVE  Inv' /\ UNCHANGED session_vars
<1>1. PICK k \in AddedKeys : add_key(k.ring, k.id, k.bytes)
  BY DEF AddKey
<1>2. k.ring \in Rings /\ k.id \in KeyIds /\ k.bytes \in KeyBytes
  BY CryptoSessionAssumption
<1>3. ManagerTypeOK'
  BY <1>1, <1>2 DEF add_key, Inv, TypeOK, ManagerTypeOK
<1>4. QED BY <1>3 DEF AddKey, Inv, TypeOK, FreshBehind, session_vars

LEMMA MakeStep ==
    ASSUME Inv, NEW c \in Clients, Make(c)
    PROVE  Inv' /\ Transparent!Make(c)
<1>1. PICK v \in Fresh, type \in Types : Hold(c, v, type, << >>)
  BY DEF Make
<1>2. IsDocument(v) /\ Opened(v) = v
  BY FreshParts
<1>3. << >> \in Seq(Fields)
  OBVIOUS
<1>4. UNCHANGED <<manager_vars, stored>>
  BY DEF Make, Local
<1>5. /\ Inv'
      /\ HeldDocuments' = [HeldDocuments EXCEPT ![c] = Opened(v)]
      /\ StoredDocument' = StoredDocument
  BY <1>1, <1>2, <1>3, <1>4, Holds
<1>6. QED BY <1>2, <1>5, StoreActions

\* Wrapping a document, and changing its list, is nothing to the store.
LEMMA WrapStep ==
    ASSUME Inv, NEW c \in Clients,
           from(c) \/ with_encrypted_field(c) \/ clear_encrypted_fields(c)
    PROVE  Inv' /\ HeldDocuments' = HeldDocuments /\ StoredDocument' = StoredDocument
<1> DEFINE h == held[c]
<1>1. CryptoDocument \in Types \cup {CryptoDocument}
      /\ Types \in SUBSET (Types \cup {CryptoDocument})
      /\ {CryptoDocument} \in SUBSET (Types \cup {CryptoDocument})
  OBVIOUS
<1>2. \E fields \in Seq(Fields) : Hold(c, h.value, CryptoDocument, fields)
  <2>1. CASE from(c)
    BY <2>1, ListParts DEF from
  <2>2. CASE with_encrypted_field(c)
    <3>1. PICK f \in FieldChoices : Hold(c, h.value, CryptoDocument, Append(h.fields, f))
      BY <2>2 DEF with_encrypted_field
    <3>2. h.fields \in Seq(Fields)
      BY <1>1, <2>2, HasParts DEF with_encrypted_field
    <3>3. Append(h.fields, f) \in Seq(Fields)
      BY <3>2, PlainNamesAssumption
    <3>4. QED BY <3>1, <3>3
  <2>3. CASE clear_encrypted_fields(c)
    <3>1. << >> \in Seq(Fields)
      OBVIOUS
    <3>2. QED BY <2>3, <3>1 DEF clear_encrypted_fields
  <2>4. QED BY <2>1, <2>2, <2>3
<1>3. h # NotHeld /\ IsDocument(h.value) /\ Opened(h.value) \in Fresh
  BY <1>1, HasParts DEF from, with_encrypted_field, clear_encrypted_fields
<1>4. UNCHANGED <<manager_vars, stored>>
  BY DEF from, with_encrypted_field, clear_encrypted_fields, Local
<1>5. /\ Inv'
      /\ HeldDocuments' = [HeldDocuments EXCEPT ![c] = Opened(h.value)]
      /\ StoredDocument' = StoredDocument
  BY <1>1, <1>2, <1>3, <1>4, Holds
<1>6. HeldDocuments[c] = Opened(h.value)
  BY <1>3, DocumentsParts
<1>7. [HeldDocuments EXCEPT ![c] = Opened(h.value)] = HeldDocuments
  BY <1>6 DEF HeldDocuments
<1>8. QED BY <1>5, <1>7

\* Storing puts what the client holds, or nothing.
LEMMA UpsertStep ==
    ASSUME Inv, NEW c \in Clients, Upsert(c)
    PROVE  /\ Inv'
           /\ \/ Transparent!Put(c) /\ UNCHANGED held
              \/ UNCHANGED session_vars
              \/ c \notin Managed /\ Transparent!Crash(c) /\ UNCHANGED stored
<1> DEFINE h == held[c]
<1>0. PICK transcoder \in Transcoders :
        /\ h # NotHeld
        /\ \E a \in encode(transcoder, c, h) :
             \/ a.err = "none" /\ stored' = a.value /\ UNCHANGED held
             \/ a.err # "none" /\ Failed(c, a.err)
        /\ UNCHANGED manager_vars
  BY DEF Upsert
<1>1. PICK a \in encode(transcoder, c, h) :
        /\ h # NotHeld
        /\ \/ a.err = "none" /\ stored' = a.value /\ UNCHANGED held
           \/ a.err # "none" /\ Failed(c, a.err)
        /\ UNCHANGED manager_vars
  BY <1>0
<1>2. IsDocument(h.value) /\ h.fields \in Seq(Fields)
  BY <1>1 DEF Inv, TypeOK
<1>3. ManagerTypeOK
  BY DEF Inv, TypeOK
<1>4. /\ a.err = "none" => Encoding(h.value, a.value)
      /\ a.err = "undefined" => c \notin Managed
  <2> HIDE DEF h
  <2>1. QED BY <1>1, <1>2, <1>3, EncodeParts
<1>5. CASE a.err = "none"
  <2>1. JsonFlags \in Flags
    BY DEF Flags
  <2>2. /\ stored' # NotStored /\ stored'.flags \in Flags
        /\ IsDocument(stored'.value) /\ Opened(stored'.value) = Opened(held[c].value)
    BY <1>1, <1>4, <1>5, <2>1 DEF Encoding
  <2>3. UNCHANGED <<manager_vars, held>> /\ held[c] # NotHeld
    BY <1>1, <1>5
  <2>4. Inv' /\ StoredDocument' = HeldDocuments[c] /\ HeldDocuments' = HeldDocuments
    BY <2>2, <2>3, Stores
  <2>5. QED BY <2>3, <2>4, StoreActions
<1>6. CASE a.err # "none"
  <2>1. /\ Inv'
        /\ stored' = stored /\ StoredDocument' = StoredDocument
        /\ \/ UNCHANGED session_vars
           \/ a.err = "undefined" /\ HeldDocuments' = [HeldDocuments EXCEPT ![c] = Absent]
    BY <1>1, <1>6, Fails
  <2>2. QED BY <1>4, <2>1, StoreActions
<1>7. QED BY <1>5, <1>6

LEMMA UpsertBinaryStep ==
    ASSUME Inv, NEW c \in Clients, UpsertBinary(c)
    PROVE  Inv' /\ Transparent!Put(c)
<1>1. stored' = [value |-> held[c].value, flags |-> "binary"] /\ UNCHANGED <<manager_vars, held>>
  BY DEF UpsertBinary
<1>2. {Json} \in SUBSET (Types \cup {CryptoDocument})
  BY CryptoSessionAssumption
<1>3. held[c] # NotHeld /\ IsDocument(held[c].value)
  BY <1>2, HasParts DEF UpsertBinary
<1>4. stored' # NotStored /\ stored'.flags \in Flags /\ stored'.value = held[c].value
  BY <1>1, CryptoSessionAssumption DEF NotStored, Flags
<1>5. Inv' /\ StoredDocument' = HeldDocuments[c] /\ HeldDocuments' = HeldDocuments
  BY <1>1, <1>3, <1>4, Stores
<1>6. QED BY <1>5, StoreActions

\* Getting gets what is stored, or nothing.
LEMMA GetStep ==
    ASSUME Inv, NEW c \in Clients, Get(c)
    PROVE  /\ Inv'
           /\ \/ Transparent!Get(c) /\ UNCHANGED stored
              \/ UNCHANGED session_vars
              \/ c \notin Managed /\ Transparent!Crash(c) /\ UNCHANGED stored
<1>1. PICK transcoder \in Transcoders :
        /\ stored # NotStored
        /\ LET a == decode(transcoder, c, stored)
           IN  \E type \in Types :
                 LET typed == IF a.err = "none" THEN as_type(a.value, type) ELSE a
                 IN  \/ typed.err = "none" /\ Hold(c, typed.value, type, << >>) /\ UNCHANGED stored
                     \/ typed.err # "none" /\ Failed(c, typed.err)
        /\ UNCHANGED manager_vars
  BY DEF Get
<1> DEFINE a == decode(transcoder, c, stored)
           Typed(type) == IF a.err = "none" THEN as_type(a.value, type) ELSE a
<1>2. PICK type \in Types :
        \/ Typed(type).err = "none" /\ Hold(c, Typed(type).value, type, << >>) /\ UNCHANGED stored
        \/ Typed(type).err # "none" /\ Failed(c, Typed(type).err)
  BY <1>1
<1> DEFINE typed == Typed(type)
<1>3. /\ ManagerTypeOK
      /\ IsDocument(stored.value) /\ Opened(stored.value) \in Fresh
  BY <1>1 DEF Inv, TypeOK, FreshBehind
<1>4. /\ a.err = "none" => IsDocument(a.value) /\ Opened(a.value) = Opened(stored.value)
      /\ a.err = "undefined" => c \notin Managed
  BY <1>3, DecodeParts
<1> HIDE DEF a
<1>5. /\ typed.err = "none" => a.err = "none" /\ typed.value = a.value
      /\ typed.err = "undefined" => a.err = "undefined"
  BY OkParts DEF as_type, Err
<1>6. CASE typed.err = "none"
  <2>1. Hold(c, typed.value, type, << >>) /\ UNCHANGED <<manager_vars, stored>>
    BY <1>1, <1>2, <1>6
  <2>2. /\ IsDocument(typed.value) /\ Opened(typed.value) \in Fresh
        /\ Opened(typed.value) = Opened(stored.value)
    BY <1>3, <1>4, <1>5, <1>6
  <2>3. << >> \in Seq(Fields) /\ type \in Types \cup {CryptoDocument}
    OBVIOUS
  <2> HIDE DEF typed
  <2>4. /\ Inv'
        /\ HeldDocuments' = [HeldDocuments EXCEPT ![c] = Opened(typed.value)]
        /\ StoredDocument' = StoredDocument
    BY <2>1, <2>2, <2>3, Holds
  <2>5. StoredDocument = Opened(stored.value)
    BY <1>1 DEF StoredDocument
  <2>6. QED BY <2>1, <2>2, <2>4, <2>5, StoreActions
<1>7. CASE typed.err # "none"
  <2>1. Failed(c, typed.err) /\ UNCHANGED manager_vars
    BY <1>1, <1>2, <1>7
  <2> HIDE DEF typed
  <2>2. /\ Inv'
        /\ stored' = stored /\ StoredDocument' = StoredDocument
        /\ \/ UNCHANGED session_vars
           \/ typed.err = "undefined" /\ HeldDocuments' = [HeldDocuments EXCEPT ![c] = Absent]
    BY <2>1, Fails
  <2>3. QED BY <1>4, <1>5, <2>2, StoreActions
<1>8. QED BY <1>6, <1>7

-----------------------------------------------------------------------------
(* The theorems.                                                           *)

LEMMA InvInit == Init => Inv
<1> SUFFICES ASSUME Init PROVE Inv
  OBVIOUS
<1>1. ManagerTypeOK
  BY CryptoSessionAssumption DEF Init, ManagerTypeOK
<1>2. stored = NotStored /\ held = [c \in Clients |-> NotHeld]
  BY DEF Init
<1>3. QED BY <1>1, <1>2 DEF Inv, TypeOK, FreshBehind

LEMMA InvNext == Inv /\ [Next]_vars => Inv'
<1> SUFFICES ASSUME Inv, [Next]_vars PROVE Inv'
  OBVIOUS
<1>1. CASE AddKey
  BY <1>1, AddKeyStep
<1>2. CASE \E c \in Clients : Make(c)
  BY <1>2, MakeStep
<1>3. CASE \E c \in Clients : from(c) \/ with_encrypted_field(c) \/ clear_encrypted_fields(c)
  BY <1>3, WrapStep
<1>4. CASE \E c \in Clients : Upsert(c)
  BY <1>4, UpsertStep
<1>5. CASE \E c \in Clients : UpsertBinary(c)
  BY <1>5, UpsertBinaryStep
<1>6. CASE \E c \in Clients : Get(c)
  BY <1>6, GetStep
<1>7. CASE UNCHANGED vars
  BY <1>7 DEF Inv, TypeOK, ManagerTypeOK, FreshBehind, vars, manager_vars, session_vars
<1>8. QED BY <1>1, <1>2, <1>3, <1>4, <1>5, <1>6, <1>7 DEF Next

LEMMA Invariance == Spec => []Inv
  BY InvInit, InvNext, PTL DEF Spec

\* What is stored and what clients hold is well formed at both levels: a name has
\* the prefix just when an envelope is under it, and never also without.
THEOREM TypeCorrect == Spec => []TypeOK
<1>1. Inv => TypeOK
  BY DEF Inv
<1>2. QED BY <1>1, Invariance, PTL

\* crypto::transcoder::decode opens all of a document, whatever wrote it, exactly
\* while all the keys of its envelopes are there, and fails otherwise.
THEOREM DecodesExactly == Spec => []DecodesExactlyWhileKeysKept
<1>1. Inv => DecodesExactlyWhileKeysKept
  <2> SUFFICES ASSUME Inv, stored # NotStored
               PROVE  LET a == decrypt(stored.value)
                      IN  IF \A node \in Nodes(stored.value) : KeyKept(node)
                          THEN a = Ok(Opened(stored.value))
                          ELSE a.err # "none"
    BY DEF DecodesExactlyWhileKeysKept
  <2>1. ManagerTypeOK /\ IsDocument(stored.value)
    BY DEF Inv, TypeOK
  <2>2. (\A node \in Nodes(stored.value) : KeyKept(node)) <=> AllKept(stored.value)
    BY <2>1, NodesKept
  <2>3. IF AllKept(stored.value) THEN decrypt(stored.value) = Ok(Opened(stored.value))
                                 ELSE Refused(decrypt(stored.value))
    BY <2>1, DecryptIs
  <2>4. QED BY <2>2, <2>3 DEF Refused
<1>2. QED BY <1>1, Invariance, PTL

\* crypto::transcoder::encode hides the fields of the list and what is below them
\* from those without keys, and nothing else, in whatever order std::sort leaves
\* the list, and whatever has been sealed before.
THEOREM HidesExactly == Spec => []HidesExactlyTheListed
<1>1. Inv => HidesExactlyTheListed
  <2> SUFFICES ASSUME Inv, NEW c \in Clients, held[c] # NotHeld,
                      NEW a \in crypto_encode(c, held[c]), a.err = "none"
               PROVE  /\ ClearPaths(a.value.value) =
                           {p \in ClearPaths(held[c].value) :
                              \A q \in Declared(held[c]) : ~Below(p, q)}
                      /\ Opened(a.value.value) = Opened(held[c].value)
    BY DEF HidesExactlyTheListed
  <2>1. ManagerTypeOK /\ IsDocument(held[c].value) /\ held[c].fields \in Seq(Fields)
    BY DEF Inv, TypeOK
  <2> DEFINE h == held[c]
  <2>2. ManagerTypeOK /\ IsDocument(h.value) /\ h.fields \in Seq(Fields) /\ a \in crypto_encode(c, h)
    BY <2>1
  <2> HIDE DEF h
  <2>3. /\ Encoding(h.value, a.value)
        /\ ClearPaths(a.value.value) =
             {p \in ClearPaths(h.value) : \A q \in Declared(h) : ~Below(p, q)}
    BY <2>2, CryptoEncode
  <2>4. QED BY <2>3 DEF Encoding, h
<1>2. QED BY <1>1, Invariance, PTL

\* address_encrypting_transcoder::decode needs its field sealed and the key of
\* that, whatever else is sealed, and uncovers that field only.
THEOREM AddressNeedsItsKey == Spec => []AddressNeedsOnlyItsKey
<1>1. Inv => AddressNeedsOnlyItsKey
  <2> SUFFICES ASSUME Inv, stored # NotStored, stored.flags = JsonFlags, NEW c \in Managed
               PROVE  LET a == address_decode(c, stored)
                          sealed == mangle(address) \in DOMAIN stored.value.members
                      IN  /\ (a.err = "none") =
                               (sealed /\ KeyKept(stored.value.members[mangle(address)].node))
                          /\ a.err = "none" =>
                               /\ <<address>> \in ClearPaths(a.value)
                               /\ ClearPaths(stored.value) =
                                    {p \in ClearPaths(a.value) : ~Below(p, <<address>>)}
                               /\ Opened(a.value) = Opened(stored.value)
    BY DEF AddressNeedsOnlyItsKey
  <2>1. ManagerTypeOK /\ IsDocument(stored.value)
    BY DEF Inv, TypeOK
  <2>2. QED BY <2>1, AddressDecode
<1>2. QED BY <1>1, Invariance, PTL

\* Each upsert is a call that stores the document the client holds, and each get
\* one that gives it the one stored; a call that fails changes nothing, but that
\* a client without a manager may be gone.
THEOREM CallsAreCalls == Spec => CallsAreCallsOnTheStore
<1>1. Inv /\ [Next]_vars =>
        [\A c \in Clients :
           LET gone == c \notin Managed /\ Transparent!Crash(c)
           IN  /\ stored' # stored /\ Upsert(c) => Transparent!Put(c)
               /\ held'[c] # held[c] /\ Upsert(c) => gone
               /\ held'[c] # held[c] /\ Get(c) => Transparent!Get(c) \/ gone]_vars
  <2> SUFFICES ASSUME Inv, NEW c \in Clients
               PROVE  /\ stored' # stored /\ Upsert(c) => Transparent!Put(c)
                      /\ held'[c] # held[c] /\ Upsert(c) =>
                           c \notin Managed /\ Transparent!Crash(c)
                      /\ held'[c] # held[c] /\ Get(c) =>
                           Transparent!Get(c) \/ (c \notin Managed /\ Transparent!Crash(c))
    BY Zenon
  <2>1. ASSUME Upsert(c)
        PROVE  /\ stored' # stored => Transparent!Put(c)
               /\ held'[c] # held[c] => c \notin Managed /\ Transparent!Crash(c)
    BY <2>1, UpsertStep DEF session_vars
  <2>2. ASSUME Get(c), held'[c] # held[c]
        PROVE  Transparent!Get(c) \/ (c \notin Managed /\ Transparent!Crash(c))
    BY <2>2, GetStep DEF session_vars
  <2>3. QED BY <2>1, <2>2
<1>2. QED BY <1>1, Invariance, PTL DEF Spec, CallsAreCallsOnTheStore

\* Whatever transcoders, lists and keys the applications use, together they see
\* a store of plain documents.
THEOREM RefinesDocumentStore == Spec => ImplementsDocumentStore
<1>1. Init => Transparent!Init
  <2> SUFFICES ASSUME Init PROVE Transparent!Init
    OBVIOUS
  <2>1. stored = NotStored /\ held = [c \in Clients |-> NotHeld]
    BY DEF Init
  <2>2. QED BY <2>1 DEF Transparent!Init
<1>2. Inv /\ [Next]_vars => [Transparent!Next]_(Transparent!vars)
  <2> SUFFICES ASSUME Inv, [Next]_vars
               PROVE  \/ Transparent!Next
                      \/ HeldDocuments' = HeldDocuments /\ StoredDocument' = StoredDocument
    BY DEF Transparent!vars, HeldDocuments, StoredDocument
  <2>0. UNCHANGED session_vars => HeldDocuments' = HeldDocuments /\ StoredDocument' = StoredDocument
    BY DEF session_vars, HeldDocuments, StoredDocument
  <2>1. CASE AddKey
    BY <2>0, <2>1, AddKeyStep
  <2>2. CASE \E c \in Clients : Make(c)
    BY <2>2, MakeStep DEF Transparent!Next
  <2>3. CASE \E c \in Clients : from(c) \/ with_encrypted_field(c) \/ clear_encrypted_fields(c)
    BY <2>3, WrapStep
  <2>4. CASE \E c \in Clients : Upsert(c)
    BY <2>0, <2>4, UpsertStep DEF Transparent!Next
  <2>5. CASE \E c \in Clients : UpsertBinary(c)
    BY <2>5, UpsertBinaryStep DEF Transparent!Next
  <2>6. CASE \E c \in Clients : Get(c)
    BY <2>0, <2>6, GetStep DEF Transparent!Next
  <2>7. CASE UNCHANGED vars
    BY <2>0, <2>7 DEF vars
  <2>8. QED BY <2>1, <2>2, <2>3, <2>4, <2>5, <2>6, <2>7 DEF Next
<1>3. QED BY <1>1, <1>2, Invariance, PTL
          DEF Spec, ImplementsDocumentStore, Transparent!Spec

-----------------------------------------------------------------------------
(* The custom transcoder by itself, for values of any form.                *)

\* A value that is an object: its members are a function.
HasMembers(v) ==
    /\ v = Object(v.members)
    /\ IsMap(v.members)

\* e is v with the field k sealed, in a node whose plaintext is that field.
SealedForm(e, v, k) ==
    \E node \in EncryptionResults :
        node.ciphertext.plain = v.members[k] /\ e = Encoded(seal(v, k, node))

LEMMA PutAndErase ==
    ASSUME NEW m, IsMap(m), NEW k \in DOMAIN m, NEW sealed, sealed \notin DOMAIN m, NEW envelope
    PROVE  LET n == put(erase(m, {k}), sealed, envelope)
           IN  /\ sealed \in DOMAIN n /\ n[sealed] = envelope
               /\ put(erase(n, {sealed}), k, m[k]) = m
<1> DEFINE kept == erase(m, {k})
           n == put(kept, sealed, envelope)
           rest == erase(n, {sealed})
           back == put(rest, k, m[k])
<1>1. /\ DOMAIN kept = DOMAIN m \ {k}
      /\ \A j \in DOMAIN m \ {k} : kept[j] = m[j]
  BY DEF erase, Restrict
<1> HIDE DEF kept
<1>2. /\ DOMAIN n = (DOMAIN m \ {k}) \cup {sealed}
      /\ n[sealed] = envelope
      /\ \A j \in DOMAIN m \ {k} : n[j] = m[j]
  BY <1>1 DEF put
<1> HIDE DEF n
<1>3. /\ DOMAIN rest = DOMAIN m \ {k}
      /\ \A j \in DOMAIN m \ {k} : rest[j] = m[j]
  BY <1>2 DEF erase, Restrict
<1> HIDE DEF rest
<1>4. back = [j \in DOMAIN m |-> m[j]]
  BY <1>3 DEF put
<1> HIDE DEF back
<1> QED BY <1>2, <1>4 DEF n, kept, rest, back, IsMap

\* The sealed field is found under its mangled name, and putting its plaintext
\* back in place of it restores the object.
LEMMA SealIsUndone ==
    ASSUME NEW v, HasMembers(v), NEW k \in DOMAIN v.members,
           mangle(k) \notin DOMAIN v.members, NEW node
    PROVE  LET u == seal(v, k, node)
           IN  /\ mangle(k) \in DOMAIN u.members
               /\ u.members[mangle(k)] = Envelope(node)
               /\ [u EXCEPT !.members = put(erase(@, {mangle(k)}), k, v.members[k])] = v
<1> DEFINE m == v.members
           ma == mangle(k)
           n == put(erase(m, {k}), ma, Envelope(node))
           u == seal(v, k, node)
<1>1. v = Object(m) /\ IsMap(m) /\ k \in DOMAIN m /\ ma \notin DOMAIN m
  BY DEF HasMembers
<1>2. u = [v EXCEPT !.members = n]
  BY DEF seal
<1> HIDE DEF m, ma
<1>3. ma \in DOMAIN n /\ n[ma] = Envelope(node) /\ put(erase(n, {ma}), k, m[k]) = m
  BY <1>1, PutAndErase
<1> HIDE DEF n, u
<1>4. u = Object(n)
  BY <1>1, <1>2 DEF Object, Value
<1>5. u.members = n
  BY <1>4 DEF Object, Value
<1>6. [u EXCEPT !.members = put(erase(@, {ma}), k, m[k])] = Object(m)
  BY <1>3, <1>4, <1>5 DEF Object, Value
<1> QED BY <1>1, <1>3, <1>5, <1>6 DEF m, ma, u

\* What address_encrypting_transcoder::encode (examples/custom_transcoder.cxx)
\* has stored, when it does not throw, is the document with the address sealed,
\* for any document that has an address and whatever the encrypters are.
THEOREM AddressIsSealed ==
    ASSUME ManagerTypeOK,
           NEW c \in Clients, NEW doc, address \in DOMAIN doc.value.members,
           doc.value.members[address] \in Plaintexts,
           NEW a \in address_encode(c, doc), a.err = "none"
    PROVE  SealedForm(a.value, doc.value, address)
<1> DEFINE plain == doc.value.members[address]
<1>1. c \in Managed
  BY DEF address_encode, Err
<1>2. PICK b \in manager_encrypt(plain, Absent) :
        a = (IF (IF b.err = "none" THEN Ok(seal(doc.value, address, b.value)) ELSE Err(b.err)).err = "none"
             THEN Ok(Encoded((IF b.err = "none" THEN Ok(seal(doc.value, address, b.value)) ELSE Err(b.err)).value))
             ELSE (IF b.err = "none" THEN Ok(seal(doc.value, address, b.value)) ELSE Err(b.err)))
  BY <1>1 DEF address_encode, EncodeAnswers
<1>3. b.err = "none" /\ a = Ok(Encoded(seal(doc.value, address, b.value)))
  BY <1>2 DEF Ok, Err
<1>4. b.value \in EncryptionResults /\ b.value.ciphertext.plain = plain
  BY <1>3, ManagerEncryptType
<1> QED BY <1>3, <1>4 DEF SealedForm, Ok

\* From a document with the address sealed, whatever else is in it and whatever
\* keys and decrypters there are by then, address_encrypting_transcoder::decode
\* gives back the document as it was, or throws.
THEOREM AddressIsGivenBack ==
    ASSUME ManagerTypeOK, NEW c \in Clients,
           NEW v, HasMembers(v), address \in DOMAIN v.members,
           mangle(address) \notin DOMAIN v.members,
           NEW e, SealedForm(e, v, address),
           address_decode(c, e).err = "none"
    PROVE  address_decode(c, e).value = v
<1>1. PICK node \in EncryptionResults :
        node.ciphertext.plain = v.members[address] /\ e = Encoded(seal(v, address, node))
  BY DEF SealedForm
<1> DEFINE u == seal(v, address, node)
           a == manager_decrypt(node)
<1>2. /\ mangle(address) \in DOMAIN u.members
      /\ u.members[mangle(address)] = Envelope(node)
      /\ [u EXCEPT !.members = put(erase(@, {mangle(address)}), address, v.members[address])] = v
  BY SealIsUndone
<1>3. e.value = u /\ e.flags = JsonFlags
  BY <1>1 DEF Encoded
<1>4. Envelope(node).node = node
  BY DEF Envelope, Value
<1> HIDE DEF u
<1>5. a.err = "none" => a.value = node.ciphertext.plain
  BY ManagerDecryptType
<1> HIDE DEF a
<1>6. address_decode(c, e) =
        IF c \notin Managed THEN Err("undefined")
        ELSE IF a.err # "none" THEN Err(a.err)
        ELSE Ok([u EXCEPT !.members = put(erase(@, {mangle(address)}), address, a.value)])
  BY <1>2, <1>3, <1>4 DEF address_decode, a
<1>7. c \in Managed /\ a.err = "none"
  BY <1>6 DEF Err
<1> QED BY <1>1, <1>2, <1>5, <1>6, <1>7 DEF Ok
=============================================================================
