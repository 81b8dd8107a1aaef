-------------------------- MODULE TranscoderProofs --------------------------
(***************************************************************************)
(* Proofs about the transcoder.  The types of its state rest on an         *)
(* inductive invariant: a document never refers to an envelope it does not *)
(* have, an envelope never holds a value younger than itself, and the      *)
(* running call is where its locals say it is.                             *)
(***************************************************************************)
EXTENDS TranscoderCorrectness, CryptoManagerProofs

\* The values of a document with m envelopes.
Upto(m) == 1..(NodeCount + m)

\* Every member leads to a value of the document or to one of its envelopes,
\* and every envelope holds a value that was there before it.
WellFormed(d) ==
    /\ Len(d.envelopes) <= MaxEnvelopes
    /\ \A n \in DocNodes : \A k \in DOMAIN d.members[n] :
         d.members[n][k] \in Upto(Len(d.envelopes))
    /\ \A i \in 1..Len(d.envelopes) : d.envelopes[i].ciphertext.plain \in Upto(i - 1)

\* Between calls the working copy is the stored document.
IdleOK == pc = "idle" => document = stored /\ field = 1

\* encrypt never runs past its list or a path, and has room for the envelopes
\* it has still to make.
EncryptOK ==
    pc \in EncryptSteps =>
        /\ field <= Len(ordered_encrypted_fields) + 1
        /\ Len(document.envelopes) + (Len(ordered_encrypted_fields) + 1 - field) <= MaxEnvelopes
        /\ pc = "walk" => field <= Len(ordered_encrypted_fields) /\ depth <= Len(path)

\* decrypt has an activation to work on.
DecryptOK == pc \in {"visit", "scan"} => stack # << >>

TypeInv ==
    /\ TypeOK
    /\ WellFormed(stored) /\ WellFormed(document)
    /\ IdleOK /\ EncryptOK /\ DecryptOK

-----------------------------------------------------------------------------
(* Maps from names to values.                                              *)

\* The names and the values of a map.
LEMMA MapsToParts ==
    ASSUME NEW V, NEW f \in MapsTo(V)
    PROVE  /\ DOMAIN f \subseteq Names
           /\ \A k \in DOMAIN f : f[k] \in V
           /\ f = [k \in DOMAIN f |-> f[k]]
  BY DEF MapsTo

\* A function of names to values is a map.
LEMMA MapsToIntro ==
    ASSUME NEW V, NEW S \in SUBSET Names, NEW f \in [S -> V]
    PROVE  f \in MapsTo(V)
  BY DEF MapsTo

\* A map of fewer values is a map.
LEMMA MapsToWider ==
    ASSUME NEW V, NEW W, V \subseteq W, NEW f \in MapsTo(V)
    PROVE  f \in MapsTo(W)
<1>1. f \in [DOMAIN f -> W] /\ DOMAIN f \in SUBSET Names
  BY MapsToParts
<1>2. QED BY <1>1, MapsToIntro

\* operator[] adds a name or replaces its value.
LEMMA PutParts ==
    ASSUME NEW f, NEW k, NEW v
    PROVE  /\ DOMAIN put(f, k, v) = DOMAIN f \cup {k}
           /\ put(f, k, v)[k] = v
           /\ \A j \in DOMAIN f \ {k} : put(f, k, v)[j] = f[j]
  BY DEF put

\* A member put into an object leaves it a map over the names in use.
LEMMA PutType ==
    ASSUME NEW V, NEW f \in MapsTo(V), NEW k \in Names, NEW v \in V
    PROVE  put(f, k, v) \in MapsTo(V)
<1>1. DOMAIN f \cup {k} \in SUBSET Names
  BY MapsToParts
<1>2. put(f, k, v) \in [DOMAIN f \cup {k} -> V]
  BY MapsToParts DEF put
<1>3. QED BY <1>1, <1>2, MapsToIntro

\* erase removes names and leaves the others.
LEMMA EraseParts ==
    ASSUME NEW f, NEW S
    PROVE  /\ DOMAIN erase(f, S) = DOMAIN f \ S
           /\ \A j \in DOMAIN f \ S : erase(f, S)[j] = f[j]
  BY DEF erase, Restrict

\* So does erasing members.
LEMMA EraseType ==
    ASSUME NEW V, NEW f \in MapsTo(V), NEW S
    PROVE  erase(f, S) \in MapsTo(V)
<1>1. DOMAIN f \ S \in SUBSET Names
  BY MapsToParts
<1>2. erase(f, S) \in [DOMAIN f \ S -> V]
  BY MapsToParts DEF erase, Restrict
<1>3. QED BY <1>1, <1>2, MapsToIntro

-----------------------------------------------------------------------------
(* Names.                                                                  *)

\* There is room for one more prefix on a name of a path.
LEMMA MangleType ==
    ASSUME NEW k \in Requestable
    PROVE  k \in Names /\ mangle(k) \in Names
  BY FieldNamesAssumption DEF Requestable, Names, mangle

\* A mangled name has a prefix to take off.
LEMMA DemangleType ==
    ASSUME NEW k \in Names, is_mangled(k)
    PROVE  demangle(k) \in Names
  BY FieldNamesAssumption DEF Names, is_mangled, demangle

-----------------------------------------------------------------------------
(* Paths.  Resolve is a recursive function, and what it computes is proved *)
(* of a function that satisfies its equation.                              *)

\* Where the member k of the value v leads, and 0 if nowhere.
Into(d, v, k) ==
    IF v = 0 \/ ~is_object(v) THEN 0
    ELSE IF k \in DOMAIN members_of(d, v) THEN members_of(d, v)[k] ELSE 0

\* f has the values along the first n names of the path p.
Walk(d, p, n, f) ==
    f = [i \in 0..n |-> IF i = 0 THEN Root ELSE Into(d, f[i - 1], p[i])]

Trace(d, p) == CHOOSE f : Walk(d, p, Len(p), f)

\* No two functions have them.
LEMMA WalkUnique ==
    ASSUME NEW d, NEW p, NEW n \in Nat, NEW f, NEW g, Walk(d, p, n, f), Walk(d, p, n, g)
    PROVE  f = g
<1> DEFINE S == {i \in 0..n : f[i] # g[i]}
<1>1. /\ f = [i \in 0..n |-> IF i = 0 THEN Root ELSE Into(d, f[i - 1], p[i])]
      /\ g = [i \in 0..n |-> IF i = 0 THEN Root ELSE Into(d, g[i - 1], p[i])]
  BY DEF Walk
<1>2. /\ f[0] = Root /\ g[0] = Root
      /\ \A i \in 1..n : f[i] = Into(d, f[i - 1], p[i]) /\ g[i] = Into(d, g[i - 1], p[i])
  <2>1. \A i \in 0..n :
          /\ f[i] = IF i = 0 THEN Root ELSE Into(d, f[i - 1], p[i])
          /\ g[i] = IF i = 0 THEN Root ELSE Into(d, g[i - 1], p[i])
    BY <1>1
  <2>2. QED BY <2>1
<1>3. S = {}
  <2> SUFFICES ASSUME S # {} PROVE FALSE
    OBVIOUS
  <2>1. PICK i \in S : \A j \in S : i <= j
    <3>1. S \in SUBSET Nat
      OBVIOUS
    <3> HIDE DEF S
    <3>2. QED BY <3>1, LeastNat
  <2>2. i \in 1..n
    BY <1>2, <2>1
  <2>3. i - 1 \notin S /\ i - 1 \in 0..n
    BY <2>1, <2>2
  <2>4. f[i] = g[i]
    BY <1>2, <2>2, <2>3
  <2>5. QED BY <2>1, <2>4
<1>4. DOMAIN f = 0..n /\ DOMAIN g = 0..n
  BY <1>1
<1>5. f = [i \in 0..n |-> f[i]] /\ g = [i \in 0..n |-> g[i]]
  BY <1>1
<1>6. QED BY <1>3, <1>5

\* One has.
LEMMA WalkExists ==
    ASSUME NEW d, NEW p, NEW n \in Nat
    PROVE  \E f : Walk(d, p, n, f)
<1> DEFINE S == {m \in Nat : ~\E f : Walk(d, p, m, f)}
<1>1. SUFFICES ASSUME S # {} PROVE FALSE
  OBVIOUS
<1>2. PICK m \in S : \A j \in S : m <= j
  BY <1>1, LeastNat
<1>3. CASE m = 0
  <2> DEFINE f == [i \in 0..0 |-> Root]
  <2>1. Walk(d, p, 0, f)
    BY DEF Walk
  <2> HIDE DEF f
  <2>2. QED BY <1>2, <1>3, <2>1
<1>4. CASE m # 0
  <2>1. m - 1 \in Nat /\ m - 1 \notin S
    BY <1>2, <1>4
  <2>2. PICK f : Walk(d, p, m - 1, f)
    BY <2>1
  <2> DEFINE g == [i \in 0..m |-> IF i = m THEN Into(d, f[m - 1], p[m]) ELSE f[i]]
             h == [i \in 0..m |-> IF i = 0 THEN Root ELSE Into(d, g[i - 1], p[i])]
  <2>3. \A i \in 0..(m - 1) : f[i] = IF i = 0 THEN Root ELSE Into(d, f[i - 1], p[i])
    BY <2>2 DEF Walk
  <2>4. \A i \in 0..(m - 1) : g[i] = f[i]
    BY <1>2
  <2>5. g[m] = Into(d, f[m - 1], p[m])
    BY <1>2
  <2>6. \A i \in 0..m : g[i] = h[i]
    <3>1. TAKE i \in 0..m
    <3>2. CASE i = 0
      BY <1>2, <1>4, <2>3, <2>4, <3>2
    <3>3. CASE i = m
      <4>1. m - 1 \in 0..(m - 1) /\ i # 0
        BY <1>2, <1>4, <3>3
      <4>2. g[m - 1] = f[m - 1]
        BY <2>4, <4>1
      <4> HIDE DEF g
      <4>3. h[i] = Into(d, g[i - 1], p[i])
        BY <4>1
      <4>4. QED BY <2>5, <3>3, <4>2, <4>3
    <3>4. CASE i # 0 /\ i # m
      <4>1. i \in 0..(m - 1) /\ i - 1 \in 0..(m - 1)
        BY <1>2, <3>4
      <4>2. g[i] = f[i] /\ g[i - 1] = f[i - 1]
        BY <2>4, <4>1
      <4>3. f[i] = Into(d, f[i - 1], p[i])
        BY <2>3, <3>4, <4>1
      <4> HIDE DEF g
      <4>4. h[i] = Into(d, g[i - 1], p[i])
        BY <3>4
      <4>5. QED BY <4>2, <4>3, <4>4
    <3>5. QED BY <3>2, <3>3, <3>4
  <2>7. g = [i \in 0..m |-> g[i]]
    OBVIOUS
  <2> HIDE DEF g
  <2>8. g = h
    BY <2>6, <2>7
  <2>9. Walk(d, p, m, g)
    BY <2>8 DEF Walk
  <2>10. QED BY <1>2, <2>9
<1>5. QED BY <1>3, <1>4

\* Resolve is the end of the trace, and the trace goes from member to member.
LEMMA TraceParts ==
    ASSUME NEW d, NEW p \in Paths
    PROVE  /\ Len(p) \in Nat
           /\ Trace(d, p)[0] = Root
           /\ \A i \in 1..Len(p) : Trace(d, p)[i] = Into(d, Trace(d, p)[i - 1], p[i])
           /\ Resolve(d, p) = Trace(d, p)[Len(p)]
<1> DEFINE f == Trace(d, p)
<1>1. Len(p) \in Nat
  BY DEF Paths
<1>2. Walk(d, p, Len(p), f)
  BY <1>1, WalkExists DEF Trace
<1>3. \A g : Walk(d, p, Len(p), g) <=> g = f
  BY <1>1, <1>2, WalkUnique
<1>4. \A i \in 0..Len(p) : f[i] = IF i = 0 THEN Root ELSE Into(d, f[i - 1], p[i])
  BY <1>2 DEF Walk
<1>5. Resolve(d, p) = f[Len(p)]
  <2> HIDE DEF f
  <2>1. \A g : g = f <=>
          g = [i \in 0..Len(p) |-> IF i = 0 THEN Root ELSE Into(d, g[i - 1], p[i])]
    BY <1>3 DEF Walk
  <2>2. QED BY <2>1 DEF Resolve, Into
<1> HIDE DEF f
<1>6. f[0] = Root /\ \A i \in 1..Len(p) : f[i] = Into(d, f[i - 1], p[i])
  BY <1>1, <1>4
<1>7. QED BY <1>1, <1>5, <1>6 DEF f

\* A path that breaks off does not go on.
LEMMA TraceBroken ==
    ASSUME NEW d, NEW p \in Paths, NEW i \in 0..Len(p), Trace(d, p)[i] = 0
    PROVE  Resolve(d, p) = 0
<1> DEFINE f == Trace(d, p)
           S == {j \in i..Len(p) : f[j] # 0}
<1>1. /\ Len(p) \in Nat /\ Resolve(d, p) = f[Len(p)]
      /\ \A j \in 1..Len(p) : f[j] = Into(d, f[j - 1], p[j])
  BY TraceParts
<1>2. f[i] = 0
  OBVIOUS
<1> HIDE DEF f
<1>3. SUFFICES ASSUME S # {} PROVE FALSE
  BY <1>1
<1>4. PICK j \in S : \A l \in S : j <= l
  <2>1. S \in SUBSET Nat
    BY <1>1
  <2> HIDE DEF S
  <2>2. QED BY <1>3, <2>1, LeastNat
<1>5. j \in 1..Len(p) /\ j - 1 \in i..Len(p) /\ j - 1 \notin S
  BY <1>1, <1>2, <1>4
<1>6. f[j] = 0
  BY <1>1, <1>5 DEF Into
<1>7. QED BY <1>4, <1>6

-----------------------------------------------------------------------------
(* Documents.                                                              *)

\* Where the names in an object lead.
LEMMA MembersOfType ==
    ASSUME NEW d \in Stored, NEW n
    PROVE  /\ members_of(d, n) \in Members
           /\ DOMAIN members_of(d, n) \subseteq Names
           /\ \A k \in DOMAIN members_of(d, n) : members_of(d, n)[k] \in Nodes
           /\ DOMAIN members_of(d, n) # {} => n \in DocNodes
<1>1. members_of(d, n) \in Members
  <2>1. CASE n \in DocNodes
    BY <2>1 DEF members_of, Stored
  <2>2. CASE n \notin DocNodes
    <3>1. NoMembers \in [{} -> Nodes] /\ {} \in SUBSET Names
      BY DEF NoMembers
    <3>2. NoMembers \in Members
      BY <3>1, MapsToIntro DEF Members
    <3>3. QED BY <2>2, <3>2 DEF members_of
  <2>3. QED BY <2>1, <2>2
<1>2. n \notin DocNodes => DOMAIN members_of(d, n) = {}
  BY DEF members_of, NoMembers
<1>3. QED BY <1>1, <1>2, MapsToParts DEF Members

\* The values with m envelopes are among all values, up to the bound.
LEMMA UptoNodes ==
    ASSUME NEW m \in 0..MaxEnvelopes
    PROVE  /\ Upto(m) \subseteq Nodes
           /\ DocNodes \subseteq Upto(m)
           /\ Upto(0) = DocNodes
           /\ Root \in DocNodes
  BY TranscoderAssumption DEF Upto, Nodes, DocNodes, Root

\* Sealing a member keeps a document well-formed and makes one envelope.
LEMMA SealType ==
    ASSUME NEW d \in Stored, WellFormed(d), Len(d.envelopes) < MaxEnvelopes,
           NEW n \in DocNodes, NEW k, mangle(k) \in Names,
           NEW node \in EncryptionResults,
           node.ciphertext.plain \in Upto(Len(d.envelopes))
    PROVE  /\ seal(d, n, k, node) \in Stored
           /\ WellFormed(seal(d, n, k, node))
           /\ Len(seal(d, n, k, node).envelopes) = Len(d.envelopes) + 1
<1> DEFINE m == Len(d.envelopes)
           s == seal(d, n, k, node)
           h == d.members[n]
           g == erase(h, {k})
           f == put(g, mangle(k), Envelope(m + 1))
<1>1. /\ d.members \in [DocNodes -> Members] /\ d.envelopes \in Seq(EncryptionResults)
      /\ m \in Nat /\ NodeCount \in Nat /\ MaxEnvelopes \in Nat
  BY TranscoderAssumption DEF Stored
<1>2. s = [members |-> [d.members EXCEPT ![n] = f], envelopes |-> Append(d.envelopes, node)]
  BY DEF seal
<1>3. Envelope(m + 1) \in Nodes /\ Envelope(m + 1) \in Upto(m + 1)
  BY <1>1 DEF Envelope, Nodes, Upto
<1>4. h \in MapsTo(Nodes)
  BY <1>1 DEF Members
<1> HIDE DEF h
<1>5. /\ g \in MapsTo(Nodes)
      /\ DOMAIN g = DOMAIN h \ {k}
      /\ \A j \in DOMAIN g : g[j] = h[j]
  <2>1. g \in MapsTo(Nodes)
    BY <1>4, EraseType
  <2>2. DOMAIN g = DOMAIN h \ {k}
    BY EraseParts
  <2>3. \A j \in DOMAIN h \ {k} : g[j] = h[j]
    BY EraseParts
  <2>4. QED BY <2>1, <2>2, <2>3
<1> HIDE DEF g
<1>6. /\ f \in Members
      /\ DOMAIN f = DOMAIN g \cup {mangle(k)}
      /\ f[mangle(k)] = Envelope(m + 1)
      /\ \A j \in DOMAIN g \ {mangle(k)} : f[j] = g[j]
  <2>1. f \in Members
    BY <1>3, <1>5, PutType DEF Members
  <2>2. DOMAIN f = DOMAIN g \cup {mangle(k)}
    BY PutParts
  <2>3. f[mangle(k)] = Envelope(m + 1) /\ \A j \in DOMAIN g \ {mangle(k)} : f[j] = g[j]
    BY DEF put
  <2>4. QED BY <2>1, <2>2, <2>3
<1> HIDE DEF f
<1>7. Append(d.envelopes, node) \in Seq(EncryptionResults) /\ Len(Append(d.envelopes, node)) = m + 1
  BY <1>1
<1>8. s \in Stored
  BY <1>1, <1>2, <1>6, <1>7 DEF Stored
<1>9. ASSUME NEW j \in DOMAIN f PROVE f[j] \in Upto(m + 1)
  <2>1. CASE j = mangle(k)
    BY <1>3, <1>6, <1>9, <2>1
  <2>2. CASE j # mangle(k)
    <3>1. j \in DOMAIN d.members[n] /\ f[j] = d.members[n][j]
      BY <1>5, <1>6, <1>9, <2>2 DEF h
    <3>2. f[j] \in Upto(m)
      BY <3>1 DEF WellFormed
    <3>3. QED BY <1>1, <3>2 DEF Upto
  <2>3. QED BY <2>1, <2>2
<1>10. ASSUME NEW p \in DocNodes, NEW j \in DOMAIN s.members[p]
       PROVE  s.members[p][j] \in Upto(m + 1)
  <2>1. CASE p = n
    BY <1>1, <1>2, <1>9, <1>10, <2>1
  <2>2. CASE p # n
    <3>1. s.members[p] = d.members[p]
      BY <1>1, <1>2, <2>2
    <3>2. s.members[p][j] \in Upto(m)
      BY <3>1, <1>10 DEF WellFormed
    <3>3. QED BY <1>1, <3>2 DEF Upto
  <2>3. QED BY <2>1, <2>2
<1>11. ASSUME NEW i \in 1..(m + 1)
       PROVE  s.envelopes[i].ciphertext.plain \in Upto(i - 1)
  <2>1. CASE i = m + 1
    BY <1>1, <1>2, <2>1
  <2>2. CASE i # m + 1
    <3>1. i \in 1..m /\ s.envelopes[i] = d.envelopes[i]
      BY <1>1, <1>2, <2>2
    <3>2. QED BY <3>1 DEF WellFormed
  <2>3. QED BY <2>1, <2>2
<1>12. Len(s.envelopes) = m + 1
  BY <1>2, <1>7
<1>13. WellFormed(s)
  BY <1>1, <1>10, <1>11, <1>12 DEF WellFormed
<1>14. QED BY <1>8, <1>12, <1>13

\* Replacing the members of one object by a map to values that are there keeps
\* a document well-formed.
LEMMA ReplaceType ==
    ASSUME NEW d \in Stored, WellFormed(d), NEW n \in DocNodes, NEW f \in Members,
           \A j \in DOMAIN f : f[j] \in Upto(Len(d.envelopes))
    PROVE  /\ [d EXCEPT !.members[n] = f] \in Stored
           /\ WellFormed([d EXCEPT !.members[n] = f])
           /\ [d EXCEPT !.members[n] = f].envelopes = d.envelopes
<1> DEFINE s == [d EXCEPT !.members[n] = f]
<1>1. /\ s.members = [d.members EXCEPT ![n] = f] /\ s.envelopes = d.envelopes
      /\ d.members \in [DocNodes -> Members]
  BY DEF Stored
<1>2. s \in Stored
  BY DEF Stored
<1>3. ASSUME NEW p \in DocNodes, NEW j \in DOMAIN s.members[p]
      PROVE  s.members[p][j] \in Upto(Len(d.envelopes))
  <2>1. CASE p = n
    BY <1>1, <2>1, <1>3
  <2>2. CASE p # n
    BY <1>1, <2>2, <1>3 DEF WellFormed
  <2>3. QED BY <2>1, <2>2
<1>4. WellFormed(s)
  BY <1>1, <1>3 DEF WellFormed
<1>5. QED BY <1>1, <1>2, <1>4

\* Opening a field, and erasing names, keep a document well-formed.
LEMMA OpenType ==
    ASSUME NEW d \in Stored, WellFormed(d), NEW n \in DocNodes, NEW k \in Names,
           NEW v \in Upto(Len(d.envelopes))
    PROVE  open(d, n, k, v) \in Stored /\ WellFormed(open(d, n, k, v))
<1> DEFINE h == d.members[n]
           f == put(h, k, v)
<1>1. h \in MapsTo(Nodes) /\ Len(d.envelopes) \in 0..MaxEnvelopes
  BY TranscoderAssumption DEF Stored, Members, WellFormed
<1>2. v \in Nodes
  BY <1>1, UptoNodes
<1> HIDE DEF h
<1>3. /\ f \in MapsTo(Nodes)
      /\ DOMAIN f = DOMAIN h \cup {k}
      /\ f[k] = v
      /\ \A j \in DOMAIN h \ {k} : f[j] = h[j]
  <2>1. f \in MapsTo(Nodes)
    BY <1>1, <1>2, PutType
  <2>2. DOMAIN f = DOMAIN h \cup {k}
    BY PutParts
  <2>3. f[k] = v /\ \A j \in DOMAIN h \ {k} : f[j] = h[j]
    BY DEF put
  <2>4. QED BY <2>1, <2>2, <2>3
<1> HIDE DEF f
<1>4. \A j \in DOMAIN f : f[j] \in Upto(Len(d.envelopes))
  BY <1>3 DEF WellFormed, h
<1>5. open(d, n, k, v) = [d EXCEPT !.members[n] = f] /\ f \in Members
  BY <1>3 DEF open, f, h, Members
<1>6. QED BY <1>4, <1>5, ReplaceType

\* Erasing the opened keys leaves a well-formed document.
LEMMA CloseType ==
    ASSUME NEW d \in Stored, WellFormed(d), NEW n \in DocNodes, NEW S
    PROVE  close(d, n, S) \in Stored /\ WellFormed(close(d, n, S))
<1> DEFINE h == d.members[n]
           f == erase(h, S)
<1>1. h \in MapsTo(Nodes)
  BY DEF Stored, Members
<1> HIDE DEF h
<1>2. /\ f \in MapsTo(Nodes)
      /\ DOMAIN f = DOMAIN h \ S
      /\ \A j \in DOMAIN f : f[j] = h[j]
  <2>1. f \in MapsTo(Nodes)
    BY <1>1, EraseType
  <2>2. DOMAIN f = DOMAIN h \ S
    BY EraseParts
  <2>3. \A j \in DOMAIN h \ S : f[j] = h[j]
    BY EraseParts
  <2>4. QED BY <2>1, <2>2, <2>3
<1> HIDE DEF f
<1>3. \A j \in DOMAIN f : f[j] \in Upto(Len(d.envelopes))
  BY <1>2 DEF WellFormed, h
<1>4. close(d, n, S) = [d EXCEPT !.members[n] = f] /\ f \in Members
  BY <1>2 DEF close, f, h, Members
<1>5. QED BY <1>3, <1>4, ReplaceType

-----------------------------------------------------------------------------
(* The type invariant, action by action.                                   *)

\* A call that returns leaves no locals, and what was stored if it failed.
LEMMA ReturnStep ==
    ASSUME TypeInv, NEW call \in {"encrypt", "decrypt"}, NEW err \in Errors, Return(call, err),
           stored' \in Stored, WellFormed(stored'),
           returned' \in [DocNodes -> Members] \cup {Absent}
    PROVE  TypeInv'
<1>1. /\ UNCHANGED <<manager_vars, kind, original>>
      /\ result' = [call |-> call, err |-> err] /\ pc' = "idle" /\ document' = stored'
      /\ ordered_encrypted_fields' = << >> /\ field' = 1 /\ blob' = Root /\ depth' = 1
      /\ stack' = << >> /\ cursor' = Begin /\ encrypted_keys' = {}
  BY DEF Return
<1>2. ManagerTypeOK'
  BY <1>1 DEF TypeInv, TypeOK, manager_vars, ManagerTypeOK
<1>3. Root \in Nodes /\ 1 \in Nat \ {0}
  BY TranscoderAssumption DEF Nodes, Root
<1>4. TypeOK'
  BY <1>1, <1>2, <1>3 DEF TypeInv, TypeOK
<1>5. IdleOK' /\ EncryptOK' /\ DecryptOK'
  BY <1>1 DEF IdleOK, EncryptOK, DecryptOK, EncryptSteps
<1>6. WellFormed(stored)' /\ WellFormed(document)'
  BY <1>1 DEF WellFormed
<1>7. QED BY <1>4, <1>5, <1>6 DEF TypeInv

\* A call that returns an error keeps the invariant.
LEMMA FailStep ==
    ASSUME TypeInv, NEW call \in {"encrypt", "decrypt"}, NEW err \in Errors, Fail(call, err)
    PROVE  TypeInv'
<1>1. UNCHANGED <<stored, returned>> /\ Return(call, err)
  BY DEF Fail
<1>2. /\ stored' \in Stored /\ WellFormed(stored')
      /\ returned' \in [DocNodes -> Members] \cup {Absent}
  BY <1>1 DEF TypeInv, TypeOK
<1>3. QED BY <1>1, <1>2, ReturnStep

\* Any order of a list of fields is a list of as many fields.
LEMMA SortType ==
    ASSUME NEW fields \in Seq(EncryptedFields), NEW o \in sort(fields)
    PROVE  o \in Seq(EncryptedFields) /\ Len(o) = Len(fields)
<1>1. PICK p \in [DOMAIN fields -> DOMAIN fields] : o = [i \in DOMAIN fields |-> fields[p[i]]]
  BY DEF sort, Bijection, Injection, Surjection
<1>2. DOMAIN fields = 1..Len(fields) /\ Len(fields) \in Nat
  OBVIOUS
<1>3. o \in [1..Len(fields) -> EncryptedFields]
  BY <1>1, <1>2
<1>4. QED BY <1>2, <1>3

\* Entering encrypt: the copied and sorted list is made of the caller's fields.
LEMMA EncryptCall ==
    ASSUME TypeInv, NEW fields \in FieldLists, encrypt(fields)
    PROVE  TypeInv'
<1>1. fields \in Seq(EncryptedFields)
  BY TranscoderAssumption
<1>2. /\ ordered_encrypted_fields' \in Seq(EncryptedFields)
      /\ Len(ordered_encrypted_fields') = Len(fields)
  BY <1>1, SortType DEF encrypt
<1>3. /\ pc = "idle" /\ pc' = "parsed"
      /\ Len(stored.envelopes) + Len(fields) <= MaxEnvelopes
      /\ UNCHANGED <<keys, alias_to_encrypter, algorithm_to_decrypter, kind, original, stored,
                     returned, result, document, field, blob, depth, stack, cursor,
                     encrypted_keys>>
  BY DEF encrypt, manager_vars, app_vars, decrypt_vars
<1>4. document = stored /\ field = 1
  BY <1>3 DEF TypeInv, IdleOK
<1>5. TypeOK'
  BY <1>2, <1>3 DEF TypeInv, TypeOK, ManagerTypeOK, EncryptSteps
<1>6. EncryptOK'
  <2>1. Len(stored.envelopes) \in Nat /\ Len(fields) \in Nat
    BY <1>1 DEF TypeInv, TypeOK, Stored
  <2>2. QED BY <1>2, <1>3, <1>4, <2>1 DEF EncryptOK
<1>7. QED BY <1>3, <1>5, <1>6 DEF TypeInv, IdleOK, DecryptOK, WellFormed

\* encrypt on a document that is an object, and on one that is not.
LEMMA CheckRootStep == TypeInv /\ CheckRoot => TypeInv'
<1> SUFFICES ASSUME TypeInv, CheckRoot PROVE TypeInv'
  OBVIOUS
<1>1. CASE Fail("encrypt", "encryption_failure")
  BY <1>1, FailStep DEF Errors
<1>2. CASE /\ pc' = "field" /\ pc = "parsed"
           /\ UNCHANGED <<manager_vars, app_vars, document, encrypt_vars, decrypt_vars>>
  <2>1. TypeOK'
    BY <1>2 DEF TypeInv, TypeOK, ManagerTypeOK, EncryptSteps, manager_vars, app_vars,
                encrypt_vars, decrypt_vars
  <2>2. QED BY <1>2, <2>1 DEF TypeInv, IdleOK, EncryptOK, DecryptOK, WellFormed, EncryptSteps,
                              app_vars, encrypt_vars
<1>3. QED BY <1>1, <1>2 DEF CheckRoot

\* The path and the alias of the current field.
LEMMA CurrentField ==
    ASSUME TypeOK, field <= Len(ordered_encrypted_fields)
    PROVE  /\ path \in Paths /\ Len(path) \in Nat
           /\ ordered_encrypted_fields[field].alias \in Aliases \cup {Absent}
<1>1. ordered_encrypted_fields[field] \in EncryptedFields
  BY DEF TypeOK
<1>2. ordered_encrypted_fields[field].path \in Paths
  BY <1>1 DEF EncryptedFields
<1>3. path \in Paths
  BY <1>2 DEF path
<1>4. Len(path) \in Nat
  BY <1>3 DEF Paths
<1>5. QED BY <1>1, <1>3, <1>4 DEF EncryptedFields

\* The next field, or the refusal of an empty path.
LEMMA BeginFieldStep == TypeInv /\ BeginField => TypeInv'
<1> SUFFICES ASSUME TypeInv, BeginField PROVE TypeInv'
  OBVIOUS
<1>1. CASE Fail("encrypt", "encryption_failure")
  BY <1>1, FailStep DEF Errors
<1>2. CASE /\ path # << >>
           /\ pc' = "walk" /\ blob' = Root /\ depth' = 1
           /\ UNCHANGED <<manager_vars, app_vars, document, ordered_encrypted_fields, field,
                          decrypt_vars>>
  <2>1. pc = "field" /\ field \in 1..Len(ordered_encrypted_fields)
    BY DEF BeginField, TypeInv, TypeOK
  <2>2. path \in Paths /\ Len(path) \in Nat
    BY <2>1, CurrentField DEF TypeInv
  <2>3. 1 <= Len(path)
    BY <1>2, <2>2 DEF Paths
  <2>4. TypeOK'
    BY <1>2, TranscoderAssumption
       DEF TypeInv, TypeOK, ManagerTypeOK, EncryptSteps, manager_vars, app_vars, decrypt_vars,
           Nodes, Root
  <2>5. path' = path
    BY <1>2 DEF path
  <2>6. EncryptOK'
    <3>1. /\ field <= Len(ordered_encrypted_fields) + 1
          /\ Len(document.envelopes) + (Len(ordered_encrypted_fields) + 1 - field)
               <= MaxEnvelopes
      BY <2>1 DEF TypeInv, EncryptOK, EncryptSteps
    <3>2. field <= Len(ordered_encrypted_fields)
      BY <2>1
    <3>3. depth' <= Len(path')
      BY <1>2, <2>3, <2>5
    <3>4. QED BY <1>2, <3>1, <3>2, <3>3 DEF EncryptOK
  <2>7. QED BY <1>2, <2>4, <2>6 DEF TypeInv, IdleOK, DecryptOK, WellFormed, app_vars
<1>3. QED BY <1>1, <1>2 DEF BeginField

\* One step down a path stays within the values of the document.
LEMMA DescendStep == TypeInv /\ Descend => TypeInv'
<1> SUFFICES ASSUME TypeInv, Descend PROVE TypeInv'
  OBVIOUS
<1>1. CASE Fail("encrypt", "encryption_failure")
  BY <1>1, FailStep DEF Errors
<1>2. CASE /\ path[depth] \in DOMAIN members_of(document, blob)
           /\ blob' = members_of(document, blob)[path[depth]]
           /\ depth' = depth + 1
           /\ UNCHANGED <<manager_vars, app_vars, pc, document, ordered_encrypted_fields, field,
                          decrypt_vars>>
  <2>1. pc = "walk" /\ depth < Len(path)
    BY DEF Descend
  <2>2. blob' \in Nodes
    BY <1>2, MembersOfType DEF TypeInv, TypeOK
  <2>3. TypeOK'
    BY <1>2, <2>2 DEF TypeInv, TypeOK, ManagerTypeOK, manager_vars, app_vars, decrypt_vars
  <2>4. path' = path
    BY <1>2 DEF path
  <2>5. EncryptOK'
    <3>1. /\ field <= Len(ordered_encrypted_fields) + 1
          /\ Len(document.envelopes) + (Len(ordered_encrypted_fields) + 1 - field)
               <= MaxEnvelopes
          /\ field <= Len(ordered_encrypted_fields)
      BY <2>1 DEF TypeInv, EncryptOK, EncryptSteps
    <3>2. Len(path) \in Nat /\ depth \in Nat
      BY <3>1, CurrentField DEF TypeInv, TypeOK
    <3>3. depth' <= Len(path')
      BY <1>2, <2>1, <2>4, <3>2
    <3>4. QED BY <1>2, <3>1, <3>3 DEF EncryptOK
  <2>6. QED BY <1>2, <2>3, <2>5 DEF TypeInv, IdleOK, DecryptOK, WellFormed, app_vars,
                                    decrypt_vars
<1>3. QED BY <1>1, <1>2 DEF Descend

\* Sealing the next of l - f + 1 fields uses up one of as many envelopes.
LEMMA RoomLeft ==
    ASSUME NEW e \in Nat, NEW l \in Nat, NEW f \in Nat, NEW m \in Nat,
           f <= l, e + (l + 1 - f) <= m
    PROVE  e < m /\ f + 1 <= l + 1 /\ (e + 1) + (l + 1 - (f + 1)) <= m
  OBVIOUS

\* Sealing a field puts a well-formed envelope under a name in use.
LEMMA SealFieldStep == TypeInv /\ SealField => TypeInv'
<1> SUFFICES ASSUME TypeInv, SealField PROVE TypeInv'
  OBVIOUS
<1> DEFINE k == path[depth]
           child == members_of(document, blob)[k]
           alias == ordered_encrypted_fields[field].alias
<1>1. CASE Fail("encrypt", "encryption_failure")
  BY <1>1, FailStep DEF Errors
<1>2. ASSUME k \in DOMAIN members_of(document, blob),
             NEW a \in manager_encrypt(child, alias)
      PROVE  /\ child \in Upto(Len(document.envelopes)) /\ blob \in DocNodes
             /\ Len(document.envelopes) \in 0..MaxEnvelopes
             /\ a.err \in ManagerErrors \cup {"none"}
             /\ a.err = "none" => a.value \in EncryptionResults
                                  /\ a.value.ciphertext.plain = child
  <2>1. blob \in DocNodes
    BY <1>2, MembersOfType DEF TypeInv, TypeOK
  <2>2. child \in Upto(Len(document.envelopes))
    BY <1>2, <2>1 DEF TypeInv, WellFormed, members_of
  <2>3. Len(document.envelopes) \in 0..MaxEnvelopes
    BY TranscoderAssumption DEF TypeInv, TypeOK, Stored, WellFormed
  <2>4. child \in Plaintexts
    BY <2>2, <2>3, UptoNodes, TranscoderAssumption
  <2>5. field <= Len(ordered_encrypted_fields)
    BY DEF SealField, TypeInv, EncryptOK, EncryptSteps
  <2>6. alias \in Aliases \cup {Absent}
    BY <2>5, CurrentField DEF TypeInv
  <2>7. QED BY <1>2, <2>1, <2>2, <2>3, <2>4, <2>6, ManagerEncryptType DEF TypeInv, TypeOK
<1>3. ASSUME NEW a \in manager_encrypt(child, alias),
             k \in DOMAIN members_of(document, blob),
             a.err # "none", Fail("encrypt", a.err)
      PROVE  TypeInv'
  BY <1>2, <1>3, FailStep DEF Errors
<1>4. ASSUME NEW a \in manager_encrypt(child, alias),
             k \in DOMAIN members_of(document, blob),
             a.err = "none",
             document' = seal(document, blob, k, a.value),
             pc' = "field", field' = field + 1,
             UNCHANGED <<manager_vars, app_vars, ordered_encrypted_fields, blob, depth,
                         decrypt_vars>>
      PROVE  TypeInv'
  <2>1. /\ pc = "walk" /\ depth = Len(path) /\ field <= Len(ordered_encrypted_fields)
        /\ Len(document.envelopes) + (Len(ordered_encrypted_fields) + 1 - field)
             <= MaxEnvelopes
    BY DEF SealField, TypeInv, EncryptOK, EncryptSteps
  <2>2. /\ a.value \in EncryptionResults
        /\ a.value.ciphertext.plain \in Upto(Len(document.envelopes))
        /\ blob \in DocNodes
        /\ Len(document.envelopes) \in Nat
    BY <1>2, <1>4
  <2>3. k \in Requestable
    <3>1. path \in Paths /\ depth \in Nat \ {0} /\ depth = Len(path)
      BY <2>1, CurrentField DEF TypeInv, TypeOK
    <3>2. depth \in DOMAIN path
      BY <3>1 DEF Paths
    <3>3. QED BY <3>1, <3>2 DEF Paths
  <2>4. mangle(k) \in Names
    BY <2>3, MangleType
  <2>5. field \in Nat /\ Len(ordered_encrypted_fields) \in Nat /\ MaxEnvelopes \in Nat
    BY TranscoderAssumption DEF TypeInv, TypeOK
  <2> DEFINE e == Len(document.envelopes)
             l == Len(ordered_encrypted_fields)
  <2>11. /\ e < MaxEnvelopes /\ field + 1 <= l + 1
         /\ (e + 1) + (l + 1 - (field + 1)) <= MaxEnvelopes
    <3>1. e \in Nat /\ l \in Nat /\ field \in Nat /\ MaxEnvelopes \in Nat
      BY <2>2, <2>5
    <3>2. field <= l /\ e + (l + 1 - field) <= MaxEnvelopes
      BY <2>1
    <3> HIDE DEF e, l
    <3>3. QED BY <3>1, <3>2, RoomLeft
  <2>6. /\ document' \in Stored /\ WellFormed(document')
        /\ Len(document'.envelopes) = Len(document.envelopes) + 1
    <3>1. Len(document.envelopes) < MaxEnvelopes
      BY <2>11
    <3>2. document \in Stored /\ WellFormed(document)
      BY DEF TypeInv, TypeOK
    <3> HIDE DEF k
    <3>3. QED BY <1>4, <2>2, <2>4, <3>1, <3>2, SealType
  <2>7. TypeOK'
    BY <1>4, <2>5, <2>6 DEF TypeInv, TypeOK, ManagerTypeOK, manager_vars, app_vars,
                            decrypt_vars, EncryptSteps
  <2>8. EncryptOK'
    <3>1. Len(ordered_encrypted_fields') = l /\ Len(document'.envelopes) = e + 1
      BY <1>4, <2>6
    <3>2. pc' = "field" /\ field' = field + 1
      BY <1>4
    <3> HIDE DEF e, l
    <3>3. QED BY <2>11, <3>1, <3>2 DEF EncryptOK
  <2>9. WellFormed(document)' /\ WellFormed(stored)'
    BY <1>4, <2>6 DEF TypeInv, app_vars, WellFormed
  <2>10. QED BY <1>4, <2>7, <2>8, <2>9 DEF TypeInv, IdleOK, DecryptOK
<1>5. QED BY <1>1, <1>3, <1>4 DEF SealField

\* A successful encrypt stores a well-formed document.
LEMMA FinishEncryptStep == TypeInv /\ FinishEncrypt => TypeInv'
<1> SUFFICES ASSUME TypeInv, FinishEncrypt PROVE TypeInv'
  OBVIOUS
<1>1. /\ stored' \in Stored /\ WellFormed(stored')
      /\ returned' \in [DocNodes -> Members] \cup {Absent}
      /\ Return("encrypt", "none")
  BY DEF FinishEncrypt, TypeInv, TypeOK
<1>2. QED BY <1>1, ReturnStep DEF Errors

\* Entering decrypt: one activation, on the root.
LEMMA DecryptCall == TypeInv /\ decrypt => TypeInv'
<1> SUFFICES ASSUME TypeInv, decrypt PROVE TypeInv'
  OBVIOUS
<1>1. /\ pc' = "visit" /\ stack' = <<[value |-> Root, at |-> Begin]>>
      /\ UNCHANGED <<manager_vars, app_vars, document, encrypt_vars, cursor, encrypted_keys>>
  BY DEF decrypt
<1>2. [value |-> Root, at |-> Begin] \in Frames
  BY TranscoderAssumption DEF Frames, Nodes, Root
<1>3. stack' \in Seq(Frames) /\ stack' # << >>
  BY <1>1, <1>2
<1>4. TypeOK'
  BY <1>1, <1>3 DEF TypeInv, TypeOK, ManagerTypeOK, manager_vars, app_vars, encrypt_vars,
                    DecryptSteps
<1>5. QED BY <1>1, <1>3, <1>4 DEF TypeInv, IdleOK, EncryptOK, DecryptOK, WellFormed,
                                  EncryptSteps, app_vars

\* The value that decrypt_json_value works on.
LEMMA CurrentValue ==
    ASSUME TypeOK, stack # << >>
    PROVE  /\ value \in Nodes
           /\ Head(stack).at \in Names \cup {Begin}
           /\ Tail(stack) \in Seq(Frames)
<1>1. Head(stack) \in Frames /\ Tail(stack) \in Seq(Frames)
  BY DEF TypeOK
<1>2. QED BY <1>1 DEF value, Frames

\* decrypt_json_value tells objects, arrays and leaves apart.
LEMMA VisitStep == TypeInv /\ Visit => TypeInv'
<1> SUFFICES ASSUME TypeInv, Visit PROVE TypeInv'
  OBVIOUS
<1>1. /\ pc = "visit" /\ pc' \in {"scan", "children"}
      /\ cursor' = Begin /\ encrypted_keys' = {}
      /\ UNCHANGED <<manager_vars, app_vars, document, encrypt_vars, stack>>
  BY DEF Visit
<1>2. TypeOK'
  BY <1>1 DEF TypeInv, TypeOK, ManagerTypeOK, manager_vars, app_vars, encrypt_vars,
              DecryptSteps
<1>3. QED BY <1>1, <1>2 DEF TypeInv, IdleOK, EncryptOK, DecryptOK, WellFormed, EncryptSteps,
                            app_vars

\* Opening an envelope puts back a value of the document, or fails.
LEMMA OpenFieldStep == TypeInv /\ OpenField => TypeInv'
<1> SUFFICES ASSUME TypeInv, OpenField PROVE TypeInv'
  OBVIOUS
<1>1. PICK k \in Following(mangled_keys, cursor) :
        LET v == members_of(document, value)[k]
            a == manager_decrypt(document.envelopes[v - NodeCount])
        IN  \/ Fail("decrypt", "invalid_ciphertext")
            \/ Fail("decrypt", "exception")
            \/ v \notin DocNodes /\ a.err # "none" /\ Fail("decrypt", a.err)
            \/ /\ v \notin DocNodes /\ a.err = "none"
               /\ document' = open(document, value, demangle(k), a.value)
               /\ cursor' = k
               /\ encrypted_keys' = encrypted_keys \cup {k}
               /\ UNCHANGED <<manager_vars, app_vars, pc, encrypt_vars, stack>>
  BY DEF OpenField
<1> DEFINE v == members_of(document, value)[k]
           i == v - NodeCount
           a == manager_decrypt(document.envelopes[i])
<1>2. pc = "scan" /\ stack # << >> /\ document \in Stored /\ WellFormed(document)
  BY DEF OpenField, TypeInv, TypeOK, DecryptOK
<1>3. k \in DOMAIN members_of(document, value) /\ is_mangled(k)
  BY DEF Following, mangled_keys
<1>4. k \in Names /\ value \in DocNodes
  BY <1>2, <1>3, MembersOfType
<1>5. demangle(k) \in Names
  BY <1>3, <1>4, DemangleType
<1>6. v \in Upto(Len(document.envelopes))
  BY <1>2, <1>3, <1>4 DEF WellFormed, members_of
<1>7. CASE Fail("decrypt", "invalid_ciphertext") \/ Fail("decrypt", "exception")
  BY <1>7, FailStep DEF Errors, ManagerErrors
<1>8. ASSUME v \notin DocNodes
      PROVE  /\ a.err \in ManagerErrors \cup {"none"}
             /\ a.err = "none" => a.value \in Upto(Len(document.envelopes))
  <2>1. Len(document.envelopes) \in 0..MaxEnvelopes /\ NodeCount \in Nat
    BY <1>2, TranscoderAssumption DEF Stored, WellFormed
  <2>2. i \in 1..Len(document.envelopes)
    BY <1>6, <1>8, <2>1 DEF Upto, DocNodes
  <2>3. /\ document.envelopes[i] \in EncryptionResults
        /\ document.envelopes[i].ciphertext.plain \in Upto(i - 1)
    BY <1>2, <2>2 DEF Stored, WellFormed
  <2>4. document.envelopes[i].ciphertext.plain \in Upto(Len(document.envelopes))
    BY <2>1, <2>2, <2>3 DEF Upto
  <2>5. QED BY <2>3, <2>4, ManagerDecryptType DEF TypeInv, TypeOK
<1>9. ASSUME v \notin DocNodes, a.err # "none", Fail("decrypt", a.err)
      PROVE  TypeInv'
  BY <1>8, <1>9, FailStep DEF Errors
<1>10. ASSUME v \notin DocNodes, a.err = "none",
              document' = open(document, value, demangle(k), a.value),
              cursor' = k, encrypted_keys' = encrypted_keys \cup {k},
              UNCHANGED <<manager_vars, app_vars, pc, encrypt_vars, stack>>
       PROVE  TypeInv'
  <2>1. a.value \in Upto(Len(document.envelopes))
    BY <1>8, <1>10
  <2>2. document' \in Stored /\ WellFormed(document')
    BY <1>2, <1>4, <1>5, <1>10, <2>1, OpenType
  <2>3. TypeOK'
    BY <1>4, <1>10, <2>2 DEF TypeInv, TypeOK, ManagerTypeOK, manager_vars, app_vars,
                             encrypt_vars
  <2>4. WellFormed(document)' /\ WellFormed(stored)'
    BY <1>10, <2>2 DEF TypeInv, app_vars, WellFormed
  <2>5. pc' = "scan" /\ stack' # << >>
    BY <1>2, <1>10
  <2>6. QED BY <2>3, <2>4, <2>5 DEF TypeInv, IdleOK, EncryptOK, DecryptOK, EncryptSteps
<1>11. QED BY <1>1, <1>7, <1>9, <1>10

\* Erasing the envelopes that were opened.
LEMMA EraseKeysStep == TypeInv /\ EraseKeys => TypeInv'
<1> SUFFICES ASSUME TypeInv, EraseKeys PROVE TypeInv'
  OBVIOUS
<1>1. /\ pc' = "children"
      /\ UNCHANGED <<manager_vars, app_vars, encrypt_vars, decrypt_vars>>
      /\ document' = IF value \in DocNodes THEN close(document, value, encrypted_keys)
                                           ELSE document
  BY DEF EraseKeys
<1>2. document' \in Stored /\ WellFormed(document')
  BY <1>1, CloseType DEF TypeInv, TypeOK
<1>3. TypeOK'
  BY <1>1, <1>2 DEF TypeInv, TypeOK, ManagerTypeOK, manager_vars, app_vars, encrypt_vars,
                    decrypt_vars, DecryptSteps
<1>4. WellFormed(document)' /\ WellFormed(stored)'
  BY <1>1, <1>2 DEF TypeInv, app_vars, WellFormed
<1>5. QED BY <1>1, <1>3, <1>4 DEF TypeInv, IdleOK, EncryptOK, DecryptOK, EncryptSteps

\* The recursive call on a member.
LEMMA VisitChildStep == TypeInv /\ VisitChild => TypeInv'
<1> SUFFICES ASSUME TypeInv, VisitChild PROVE TypeInv'
  OBVIOUS
<1>1. PICK k \in Following(DOMAIN members_of(document, value), Head(stack).at) :
        stack' = <<[value |-> members_of(document, value)[k], at |-> Begin],
                   [value |-> value, at |-> k]>> \o Tail(stack)
  BY DEF VisitChild
<1>2. /\ pc' = "visit" /\ stack # << >>
      /\ UNCHANGED <<manager_vars, app_vars, document, encrypt_vars, cursor, encrypted_keys>>
  BY DEF VisitChild
<1> DEFINE child == [value |-> members_of(document, value)[k], at |-> Begin]
           parent == [value |-> value, at |-> k]
<1>3. k \in DOMAIN members_of(document, value)
  BY DEF Following
<1>4. k \in Names /\ members_of(document, value)[k] \in Nodes /\ value \in Nodes
  BY <1>2, <1>3, MembersOfType, CurrentValue DEF TypeInv, TypeOK
<1>5. child \in Frames /\ parent \in Frames
  BY <1>4 DEF Frames
<1>6. stack' \in Seq(Frames) /\ stack' # << >>
  <2>1. Tail(stack) \in Seq(Frames)
    BY <1>2, CurrentValue DEF TypeInv
  <2>2. <<child, parent>> \in Seq(Frames) /\ Len(<<child, parent>>) = 2
    BY <1>5
  <2> HIDE DEF child, parent
  <2>3. <<child, parent>> \o Tail(stack) \in Seq(Frames)
    BY <2>1, <2>2
  <2>4. Len(<<child, parent>> \o Tail(stack)) = 2 + Len(Tail(stack))
    BY <2>1, <2>2
  <2>5. Len(<<child, parent>> \o Tail(stack)) # 0
    BY <2>1, <2>4
  <2>6. QED BY <1>1, <2>3, <2>5 DEF child, parent
<1>7. TypeOK'
  BY <1>2, <1>6 DEF TypeInv, TypeOK, ManagerTypeOK, manager_vars, app_vars, encrypt_vars,
                    DecryptSteps
<1>8. QED BY <1>2, <1>6, <1>7 DEF TypeInv, IdleOK, EncryptOK, DecryptOK, WellFormed,
                                  EncryptSteps, app_vars

\* Return from a recursive call.
LEMMA LeaveStep == TypeInv /\ Leave => TypeInv'
<1> SUFFICES ASSUME TypeInv, Leave PROVE TypeInv'
  OBVIOUS
<1>1. /\ pc = "children" /\ stack # << >> /\ stack' = Tail(stack)
      /\ UNCHANGED <<manager_vars, app_vars, pc, document, encrypt_vars, cursor,
                     encrypted_keys>>
  BY DEF Leave
<1>2. TypeOK'
  BY <1>1, CurrentValue DEF TypeInv, TypeOK, ManagerTypeOK, manager_vars, app_vars,
                            encrypt_vars
<1>3. QED BY <1>1, <1>2 DEF TypeInv, IdleOK, EncryptOK, DecryptOK, WellFormed, EncryptSteps,
                            app_vars

\* A successful decrypt returns a well-formed document.
LEMMA FinishDecryptStep == TypeInv /\ FinishDecrypt => TypeInv'
<1> SUFFICES ASSUME TypeInv, FinishDecrypt PROVE TypeInv'
  OBVIOUS
<1>1. /\ stored' \in Stored /\ WellFormed(stored')
      /\ returned' \in [DocNodes -> Members] \cup {Absent}
      /\ Return("decrypt", "none")
  BY DEF FinishDecrypt, TypeInv, TypeOK, Stored, WellFormed
<1>2. QED BY <1>1, ReturnStep DEF Errors

\* A key is replaced between calls or during one.
LEMMA AddKeyStep == TypeInv /\ AddKey => TypeInv'
<1> SUFFICES ASSUME TypeInv, AddKey PROVE TypeInv'
  OBVIOUS
<1>1. PICK ring \in Rings, id \in KeyIds, bytes \in KeyBytes : add_key(ring, id, bytes)
  BY DEF AddKey
<1>2. UNCHANGED <<app_vars, pc, document, encrypt_vars, decrypt_vars>>
  BY DEF AddKey
<1>3. ManagerTypeOK'
  BY <1>1 DEF add_key, TypeInv, TypeOK, ManagerTypeOK
<1>4. TypeOK'
  BY <1>2, <1>3 DEF TypeInv, TypeOK, app_vars, encrypt_vars, decrypt_vars
<1>5. path' = path
  BY <1>2 DEF path, encrypt_vars
<1>6. QED BY <1>2, <1>4, <1>5 DEF TypeInv, IdleOK, EncryptOK, DecryptOK, WellFormed,
                                  app_vars, encrypt_vars, decrypt_vars

-----------------------------------------------------------------------------
\* The application starts with a document and nothing running.
LEMMA TypeInvInit == Init => TypeInv
<1> SUFFICES ASSUME Init PROVE TypeInv
  OBVIOUS
<1>1. ManagerTypeOK
  BY TranscoderAssumption DEF Init, ManagerTypeOK
<1>2. PICK d \in Documents : kind = d.kind /\ original = d.members
  BY DEF Init
<1>3. kind \in [DocNodes -> Kinds] /\ original \in [DocNodes -> MapsTo(DocNodes)]
  BY <1>2, TranscoderAssumption
<1>4. DocNodes \subseteq Nodes /\ Upto(0) = DocNodes /\ Root \in DocNodes
  BY UptoNodes, TranscoderAssumption DEF DocNodes, Nodes, Upto, Root
<1>5. original \in [DocNodes -> Members]
  BY <1>3, <1>4, MapsToWider DEF Members
<1>6. stored = [members |-> original, envelopes |-> << >>] /\ document = stored
  BY DEF Init
<1>7. stored \in Stored
  BY <1>5, <1>6 DEF Stored
<1>8. WellFormed(stored)
  <2>1. Len(stored.envelopes) = 0 /\ stored.members = original
    BY <1>6
  <2>2. ASSUME NEW n \in DocNodes, NEW k \in DOMAIN original[n]
        PROVE  original[n][k] \in DocNodes
    BY <1>3, <2>2, MapsToParts
  <2>3. QED BY <1>4, <2>1, <2>2, TranscoderAssumption DEF WellFormed
<1>9. TypeOK
  BY <1>1, <1>3, <1>4, <1>5, <1>6, <1>7 DEF Init, TypeOK, Errors
<1>10. QED BY <1>6, <1>8, <1>9 DEF Init, TypeInv, IdleOK, EncryptOK, DecryptOK, EncryptSteps

\* Every action of the transcoder keeps the invariant.
LEMMA TypeInvStep == TypeInv /\ [Next]_vars => TypeInv'
<1> SUFFICES ASSUME TypeInv, [Next]_vars PROVE TypeInv'
  OBVIOUS
<1>1. CASE Call
  BY <1>1, DecryptCall, EncryptCall DEF Call
<1>2. CASE Step
  BY <1>2, CheckRootStep, BeginFieldStep, DescendStep, SealFieldStep, FinishEncryptStep,
     VisitStep, OpenFieldStep, EraseKeysStep, VisitChildStep, LeaveStep, FinishDecryptStep
     DEF Step
<1>3. CASE AddKey
  BY <1>3, AddKeyStep
<1>4. CASE UNCHANGED vars
  <2>1. path' = path
    BY <1>4 DEF path, vars, encrypt_vars
  <2>2. QED BY <1>4, <2>1 DEF TypeInv, TypeOK, ManagerTypeOK, IdleOK, EncryptOK, DecryptOK,
                  WellFormed, vars, manager_vars, app_vars, encrypt_vars, decrypt_vars
<1>5. QED BY <1>1, <1>2, <1>3, <1>4 DEF Next

\* The types of the transcoder's state, and with them the invariant they rest
\* on, hold for documents, lists and bounds of every size.
THEOREM TranscoderInvariant == Spec => []TypeInv
  BY TypeInvInit, TypeInvStep, PTL DEF Spec

\* Whatever is sealed, opened or rotated, the transcoder's state, its locals
\* in the middle of a call included, stays of its type: every envelope holds
\* a ciphertext of a value of the document, and every name stays in range.
THEOREM TranscoderTypeCorrect == Spec => []TypeOK
<1>1. TypeInv => TypeOK
  BY DEF TypeInv
<1>2. QED BY <1>1, TranscoderInvariant, PTL
=============================================================================
