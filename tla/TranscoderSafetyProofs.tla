----------------------- MODULE TranscoderSafetyProofs -----------------------
(***************************************************************************)
(* That the transcoder loses nothing, gives back the document as it was    *)
(* written, fails to decrypt only over lost keys, and implements           *)
(* SealedDocument, for documents, lists and keys of any number and size.   *)
(* The names have to be plain: with others the transcoder does lose fields *)
(* (the runs of MCReservedLost.cfg, MCEmptyPrefix.cfg and                  *)
(* MCSealedTwice.cfg).                                                     *)
(***************************************************************************)
EXTENDS TranscoderProofs

\* The names in the application's documents and in its lists do not start with
\* the prefix, and there is a prefix.
PlainNames ==
    /\ ~EmptyPrefix
    /\ \A d \in Documents, n \in DocNodes : \A k \in DOMAIN d.members[n] : ~is_mangled(k)
    /\ \A fields \in FieldLists : \A i \in DOMAIN fields : \A j \in DOMAIN fields[i].path :
         ~is_mangled(fields[i].path[j])

-----------------------------------------------------------------------------
(* The invariant.                                                          *)

\* The document as it was written has plain names, and its own values only.
OriginalOK ==
    /\ original \in [DocNodes -> MapsTo(DocNodes)]
    /\ \A n \in DocNodes : \A k \in DOMAIN original[n] : ~is_mangled(k)

\* The values that v leads to, itself included.
Closed(T) == \A n \in T : \A k \in DOMAIN original[n] : original[n][k] \in T
Below(v) == {m \in DocNodes : \A T \in SUBSET DocNodes : v \in T /\ Closed(T) => m \in T}

\* An encryption result as an encrypter makes it.
Made(node) ==
    /\ node.alg \in Algorithms /\ node.kid \in KeyIds
    /\ node.ciphertext \in Ciphertexts /\ node.ciphertext.alg = node.alg

HasSealed(d, n) == \E k \in DOMAIN d.members[n] : is_mangled(k)

\* The members of n in d are those of the original, each in the clear or in its
\* envelope, and only those of the mangled names in S are there as both.
Shows(d, n, S) ==
    /\ \A k \in DOMAIN d.members[n] :
         \/ /\ ~is_mangled(k)
            /\ k \in DOMAIN original[n] /\ d.members[n][k] = original[n][k]
         \/ /\ is_mangled(k) /\ demangle(k) \in DOMAIN original[n]
            /\ d.members[n][k] \notin DocNodes
            /\ Sealed(d, d.members[n][k]) = original[n][demangle(k)]
    /\ \A k \in DOMAIN original[n] :
         k \in DOMAIN d.members[n] <=> (mangle(k) \in DOMAIN d.members[n] => mangle(k) \in S)
    /\ HasSealed(d, n) => kind[n] = "object" /\ n \in Below(Root)

AllMade(d) == \A i \in 1..Len(d.envelopes) : Made(d.envelopes[i])

StoredOK == AllMade(stored) /\ \A n \in DocNodes : Shows(stored, n, {})

\* encrypt works on a document that shows the original, too, and in which all is
\* sealed that was.
EncryptSafe ==
    pc \in EncryptSteps =>
        /\ AllMade(document)
        /\ \A n \in DocNodes : Shows(document, n, {})
        /\ \A n \in DocNodes : \A k \in DOMAIN stored.members[n] :
             is_mangled(k) => k \in DOMAIN document.members[n]
        /\ \A i \in DOMAIN ordered_encrypted_fields :
             \A j \in DOMAIN ordered_encrypted_fields[i].path :
               ~is_mangled(ordered_encrypted_fields[i].path[j])
        /\ pc # "parsed" => kind[Root] = "object"
        /\ pc = "walk" => blob \in Below(Root) /\ kind[blob] = "object"

\* The opened names that the object n has still to lose.
Opening(n) == IF pc = "scan" /\ n = value THEN encrypted_keys ELSE {}

\* The activation i has still to look into its own value, or only into those
\* members that come after its iterator.
Fresh(i) == i = 1 /\ pc \in {"visit", "scan"}
Visits(f, fresh, n) ==
    IF fresh THEN n \in Below(f.value)
    ELSE \E k \in DOMAIN original[f.value] :
           Before(f.at, k) /\ n \in Below(original[f.value][k])

DecryptSafe ==
    pc \in DecryptSteps =>
        /\ document.envelopes = stored.envelopes
        /\ \A n \in DocNodes : Shows(document, n, Opening(n))
        /\ \A i \in DOMAIN stack :
             /\ stack[i].value \in DocNodes
             /\ IF Fresh(i) THEN stack[i].at = Begin ELSE ~HasSealed(document, stack[i].value)
        /\ \A n \in DocNodes :
             HasSealed(document, n) => \E i \in DOMAIN stack : Visits(stack[i], Fresh(i), n)

\* The opened names are those the iterator has passed.
ScanOK ==
    pc = "scan" =>
        /\ kind[value] = "object"
        /\ encrypted_keys = {k \in mangled_keys : ~Before(cursor, k)}

SafetyInv ==
    /\ OriginalOK /\ StoredOK
    /\ EncryptSafe /\ DecryptSafe /\ ScanOK
    /\ RoundTrip

-----------------------------------------------------------------------------
(* The order of the names.                                                 *)

\* The iterator moves on to the first name after its own, and stops only when
\* there is none.
LEMMA FollowingParts ==
    ASSUME NEW S \in SUBSET Names, NEW at \in Names \cup {Begin}
    PROVE  /\ \A k \in Following(S, at) :
                /\ k \in S /\ Before(at, k)
                /\ \A j \in S : Before(at, j) => j = k \/ Before(k, j)
           /\ Following(S, at) = {} => \A j \in S : ~Before(at, j)
<1>1. ASSUME NEW k \in Following(S, at)
      PROVE  /\ k \in S /\ Before(at, k)
             /\ \A j \in S : Before(at, j) => j = k \/ Before(k, j)
  <2>1. k \in S /\ Before(at, k) /\ \A j \in S : Before(at, j) => ~Before(j, k)
    BY <1>1 DEF Following
  <2>2. QED BY <2>1, BeforeOrder
<1>2. ASSUME NEW j \in S, Before(at, j)
      PROVE  Following(S, at) # {}
  <2> DEFINE A == {k \in S : Before(at, k)}
  <2>1. PICK k \in A : \A i \in A : ~Before(i, k)
    BY <1>2, FirstName
  <2>2. k \in Following(S, at)
    BY <2>1 DEF Following
  <2>3. QED BY <2>2
<1>3. QED BY <1>1, <1>2

-----------------------------------------------------------------------------
(* What a value leads to.                                                  *)

\* A value leads to itself, and on to the members of what it leads to.
LEMMA BelowParts ==
    ASSUME OriginalOK, NEW v \in DocNodes
    PROVE  /\ v \in Below(v)
           /\ \A n \in Below(v) : n \in DocNodes
           /\ \A n \in Below(v) : \A k \in DOMAIN original[n] : original[n][k] \in Below(v)
<1>1. \A n \in DocNodes : \A k \in DOMAIN original[n] : original[n][k] \in DocNodes
  <2>1. \A n \in DocNodes : original[n] \in MapsTo(DocNodes)
    BY DEF OriginalOK
  <2>2. QED BY <2>1, MapsToParts
<1>2. QED BY <1>1 DEF Below, Closed

\* A value leads to nothing but itself and what its members lead to.
LEMMA BelowSplit ==
    ASSUME OriginalOK, NEW v \in DocNodes, NEW n \in Below(v), n # v
    PROVE  \E k \in DOMAIN original[v] : n \in Below(original[v][k])
<1> DEFINE T == {v} \cup UNION {Below(original[v][k]) : k \in DOMAIN original[v]}
<1>1. \A k \in DOMAIN original[v] : original[v][k] \in DocNodes
  <2>1. original[v] \in MapsTo(DocNodes)
    BY DEF OriginalOK
  <2>2. QED BY <2>1, MapsToParts
<1>2. T \in SUBSET DocNodes
  BY DEF Below
<1>3. Closed(T)
  <2> SUFFICES ASSUME NEW m \in T, NEW j \in DOMAIN original[m]
               PROVE  original[m][j] \in T
    BY DEF Closed
  <2>1. CASE m = v
    <3>1. original[v][j] \in Below(original[v][j])
      BY <1>1, <2>1, BelowParts
    <3>2. QED BY <2>1, <3>1
  <2>2. CASE m # v
    <3>1. PICK k \in DOMAIN original[v] : m \in Below(original[v][k])
      BY <2>2
    <3>2. original[m][j] \in Below(original[v][k])
      BY <1>1, <3>1, BelowParts
    <3>3. QED BY <3>2
  <2>3. QED BY <2>1, <2>2
<1>4. n \in T
  BY <1>2, <1>3 DEF Below
<1>5. QED BY <1>4

-----------------------------------------------------------------------------
(* Names with a prefix and without.                                        *)

\* Taking the prefix off and putting it on are inverse, and take a plain name to
\* a mangled one.
LEMMA PrefixParts ==
    ASSUME ~EmptyPrefix, NEW k \in Names
    PROVE  /\ is_mangled(mangle(k)) /\ demangle(mangle(k)) = k /\ mangle(k) # k
           /\ mangle(demangle(k)) = k
<1>1. k.base \in Int /\ k.wraps \in Nat /\ k = [base |-> k.base, wraps |-> k.wraps]
  BY NameParts
<1>2. is_mangled(mangle(k)) /\ demangle(mangle(k)) = k
  BY DemangleMangle
<1>3. mangle(k) = [base |-> k.base, wraps |-> k.wraps + 1]
  BY <1>1 DEF mangle
<1>4. mangle(k) # k
  BY <1>1, <1>3
<1>5. demangle(k) = [base |-> k.base, wraps |-> k.wraps - 1]
  BY <1>1 DEF demangle
<1>6. mangle(demangle(k)) = [base |-> k.base, wraps |-> (k.wraps - 1) + 1]
  BY <1>5 DEF mangle
<1>7. mangle(demangle(k)) = k
  BY <1>1, <1>6
<1>8. QED BY <1>2, <1>4, <1>7

-----------------------------------------------------------------------------
(* Documents that show the original.                                       *)

\* Where the members of a document are and lead.
LEMMA StoredParts ==
    ASSUME NEW d \in Stored, NEW n \in DocNodes
    PROVE  /\ d.members \in [DocNodes -> Members] /\ d.members[n] \in MapsTo(Nodes)
           /\ DOMAIN d.members[n] \subseteq Names
           /\ d.members[n] = [k \in DOMAIN d.members[n] |-> d.members[n][k]]
           /\ d.envelopes \in Seq(EncryptionResults) /\ Len(d.envelopes) \in Nat
<1>1. d.members \in [DocNodes -> Members] /\ d.envelopes \in Seq(EncryptionResults)
  BY DEF Stored
<1>2. d.members[n] \in MapsTo(Nodes)
  BY <1>1 DEF Members
<1>3. QED BY <1>1, <1>2, MapsToParts

\* Two documents with the same members of n and the same envelopes for them show
\* the same there.
LEMMA ShowsSame ==
    ASSUME NEW d, NEW e, NEW n, NEW S, Shows(d, n, S),
           e.members[n] = d.members[n],
           \A k \in DOMAIN d.members[n] :
             d.members[n][k] \notin DocNodes =>
               Sealed(e, d.members[n][k]) = Sealed(d, d.members[n][k])
    PROVE  Shows(e, n, S)
  BY DEF Shows, HasSealed

\* A value without envelopes is as it was written.
LEMMA ShowsClear ==
    ASSUME OriginalOK, NEW d \in Stored, NEW n \in DocNodes, NEW S, Shows(d, n, S),
           ~HasSealed(d, n), ~EmptyPrefix
    PROVE  d.members[n] = original[n]
<1>1. \A k \in DOMAIN d.members[n] : k \in DOMAIN original[n] /\ d.members[n][k] = original[n][k]
  BY DEF Shows, HasSealed
<1>2. original[n] \in MapsTo(DocNodes)
  BY DEF OriginalOK
<1>3. \A k \in DOMAIN original[n] : k \in DOMAIN d.members[n]
  <2>1. TAKE k \in DOMAIN original[n]
  <2>2. k \in Names
    BY <1>2, MapsToParts
  <2>3. mangle(k) \notin DOMAIN d.members[n]
    BY <2>2, PrefixParts DEF HasSealed
  <2>4. QED BY <2>3 DEF Shows
<1>4. DOMAIN d.members[n] = DOMAIN original[n]
  BY <1>1, <1>3
<1>5. /\ d.members[n] = [k \in DOMAIN d.members[n] |-> d.members[n][k]]
      /\ original[n] = [k \in DOMAIN original[n] |-> original[n][k]]
  BY <1>2, StoredParts, MapsToParts
<1>6. QED BY <1>1, <1>4, <1>5

\* The names of the original, and what becomes of them.
LEMMA OriginalParts ==
    ASSUME OriginalOK, ~EmptyPrefix, NEW n \in DocNodes, NEW k \in DOMAIN original[n]
    PROVE  /\ k \in Names /\ ~is_mangled(k) /\ original[n][k] \in DocNodes
           /\ is_mangled(mangle(k)) /\ demangle(mangle(k)) = k
<1>1. original[n] \in MapsTo(DocNodes) /\ ~is_mangled(k)
  BY DEF OriginalOK
<1>2. k \in Names /\ original[n][k] \in DocNodes
  BY <1>1, MapsToParts
<1>3. QED BY <1>1, <1>2, PrefixParts

\* An envelope keeps its content when others are made.
LEMMA SealedKept ==
    ASSUME NEW d \in Stored, WellFormed(d), NEW node,
           NEW e, e.envelopes = Append(d.envelopes, node),
           NEW p \in DocNodes, NEW j \in DOMAIN d.members[p], d.members[p][j] \notin DocNodes
    PROVE  Sealed(e, d.members[p][j]) = Sealed(d, d.members[p][j])
<1> DEFINE v == d.members[p][j]
           m == Len(d.envelopes)
<1>1. m \in Nat /\ NodeCount \in Nat /\ v \in Upto(m)
  BY StoredParts, TranscoderAssumption DEF WellFormed
<1> HIDE DEF v
<1>2. v - NodeCount \in 1..m
  BY <1>1 DEF Upto, DocNodes, v
<1>3. e.envelopes[v - NodeCount] = d.envelopes[v - NodeCount]
  BY <1>2, StoredParts
<1>4. QED BY <1>3 DEF Sealed, v

\* Sealing a member that is in the clear leaves a document that shows the
\* original, and uncovers nothing.
LEMMA SealShows ==
    ASSUME OriginalOK, ~EmptyPrefix,
           NEW d \in Stored, WellFormed(d), AllMade(d), \A p \in DocNodes : Shows(d, p, {}),
           NEW n \in DocNodes, kind[n] = "object", n \in Below(Root),
           NEW k \in DOMAIN d.members[n], ~is_mangled(k),
           NEW node \in EncryptionResults, Made(node),
           node.ciphertext.plain = d.members[n][k]
    PROVE  /\ AllMade(seal(d, n, k, node))
           /\ \A p \in DocNodes : Shows(seal(d, n, k, node), p, {})
           /\ \A p \in DocNodes : \A j \in DOMAIN d.members[p] :
                is_mangled(j) => j \in DOMAIN seal(d, n, k, node).members[p]
<1> DEFINE m == Len(d.envelopes)
           s == seal(d, n, k, node)
           h == d.members[n]
           g == erase(h, {k})
           f == put(g, mangle(k), Envelope(m + 1))
<1>1. /\ d.members \in [DocNodes -> Members] /\ d.envelopes \in Seq(EncryptionResults)
      /\ m \in Nat /\ NodeCount \in Nat \ {0}
  BY StoredParts, TranscoderAssumption
<1>2. s = [members |-> [d.members EXCEPT ![n] = f], envelopes |-> Append(d.envelopes, node)]
  BY DEF seal
<1>3. /\ s.envelopes = Append(d.envelopes, node)
      /\ s.members[n] = f
      /\ \A p \in DocNodes \ {n} : s.members[p] = d.members[p]
  BY <1>1, <1>2
<1> HIDE DEF s
<1>4. DOMAIN g = DOMAIN h \ {k} /\ \A j \in DOMAIN g : g[j] = h[j]
  <2>1. DOMAIN g = DOMAIN h \ {k}
    BY EraseParts
  <2>2. \A j \in DOMAIN h \ {k} : g[j] = h[j]
    BY EraseParts
  <2>3. QED BY <2>1, <2>2
<1> HIDE DEF g
<1>5. /\ DOMAIN f = DOMAIN g \cup {mangle(k)}
      /\ f[mangle(k)] = Envelope(m + 1)
      /\ \A j \in DOMAIN g \ {mangle(k)} : f[j] = g[j]
  BY DEF put
<1> HIDE DEF f
<1>6. /\ k \in DOMAIN original[n] /\ h[k] = original[n][k]
  BY DEF Shows
<1>7. AllMade(s)
  <2> SUFFICES ASSUME NEW i \in 1..Len(s.envelopes) PROVE Made(s.envelopes[i])
    BY DEF AllMade
  <2>1. Len(s.envelopes) = m + 1
    BY <1>1, <1>3
  <2>2. CASE i = m + 1
    BY <1>1, <1>3, <2>2
  <2>3. CASE i # m + 1
    <3>1. i \in 1..m /\ s.envelopes[i] = d.envelopes[i]
      BY <1>1, <1>3, <2>1, <2>3
    <3>2. QED BY <3>1 DEF AllMade
  <2>4. QED BY <2>2, <2>3
<1>8. ASSUME NEW p \in DocNodes, p # n
      PROVE  Shows(s, p, {})
  <2>1. Shows(d, p, {}) /\ s.members[p] = d.members[p]
    BY <1>3, <1>8
  <2>2. \A j \in DOMAIN d.members[p] : d.members[p][j] \notin DocNodes =>
          Sealed(s, d.members[p][j]) = Sealed(d, d.members[p][j])
    BY <1>3, SealedKept
  <2>3. QED BY <2>1, <2>2, ShowsSame
<1>9. Shows(s, n, {})
  <2>1. ASSUME NEW j \in DOMAIN f
        PROVE  \/ ~is_mangled(j) /\ j \in DOMAIN original[n] /\ f[j] = original[n][j]
               \/ /\ is_mangled(j) /\ demangle(j) \in DOMAIN original[n] /\ f[j] \notin DocNodes
                  /\ Sealed(s, f[j]) = original[n][demangle(j)]
    <3>1. CASE j = mangle(k)
      <4>1. f[j] = NodeCount + (m + 1)
        BY <1>5, <3>1 DEF Envelope
      <4>2. f[j] \notin DocNodes /\ f[j] - NodeCount = m + 1
        BY <1>1, <4>1 DEF DocNodes
      <4>3. s.envelopes[m + 1] = node
        BY <1>1, <1>3
      <4>4. Sealed(s, f[j]) = h[k]
        BY <4>2, <4>3 DEF Sealed
      <4>5. is_mangled(j) /\ demangle(j) = k
        BY <1>6, <3>1, OriginalParts
      <4>6. QED BY <1>6, <4>2, <4>4, <4>5
    <3>2. CASE j # mangle(k)
      <4>1. j \in DOMAIN h /\ f[j] = h[j]
        BY <1>4, <1>5, <2>1, <3>2
      <4>2. h[j] \notin DocNodes => Sealed(s, h[j]) = Sealed(d, h[j])
        BY <1>3, <4>1, SealedKept
      <4>3. \/ ~is_mangled(j) /\ j \in DOMAIN original[n] /\ h[j] = original[n][j]
            \/ /\ is_mangled(j) /\ demangle(j) \in DOMAIN original[n] /\ h[j] \notin DocNodes
               /\ Sealed(d, h[j]) = original[n][demangle(j)]
        BY <4>1 DEF Shows
      <4>4. QED BY <4>1, <4>2, <4>3
    <3>3. QED BY <3>1, <3>2
  <2>2. ASSUME NEW j \in DOMAIN original[n]
        PROVE  j \in DOMAIN f <=> mangle(j) \notin DOMAIN f
    <3>1. /\ ~is_mangled(j) /\ is_mangled(mangle(j)) /\ demangle(mangle(j)) = j
          /\ is_mangled(mangle(k)) /\ demangle(mangle(k)) = k
      BY <1>6, OriginalParts
    <3>2. j \in DOMAIN h <=> mangle(j) \notin DOMAIN h
      BY DEF Shows
    <3>3. QED BY <1>4, <1>5, <3>1, <3>2
  <2>3. QED BY <1>3, <2>1, <2>2 DEF Shows
<1>10. ASSUME NEW p \in DocNodes, NEW j \in DOMAIN d.members[p], is_mangled(j)
       PROVE  j \in DOMAIN s.members[p]
  BY <1>3, <1>4, <1>5, <1>10
<1>11. QED BY <1>7, <1>8, <1>9, <1>10 DEF s

\* Opening an envelope in the object n puts the member in the clear beside it.
LEMMA OpenShows ==
    ASSUME OriginalOK, ~EmptyPrefix,
           NEW d \in Stored, NEW n \in DocNodes, NEW S, Shows(d, n, S),
           NEW k \in DOMAIN d.members[n], is_mangled(k),
           NEW v, v = Sealed(d, d.members[n][k])
    PROVE  LET e == open(d, n, demangle(k), v)
           IN  /\ Shows(e, n, S \cup {k})
               /\ e.envelopes = d.envelopes
               /\ \A p \in DocNodes \ {n} : e.members[p] = d.members[p]
               /\ DOMAIN e.members[n] = DOMAIN d.members[n] \cup {demangle(k)}
               /\ ~is_mangled(demangle(k)) /\ demangle(k) \in Names
<1> DEFINE e == open(d, n, demangle(k), v)
           h == d.members[n]
           b == demangle(k)
           f == put(h, b, v)
<1>1. /\ e.members[n] = f /\ e.envelopes = d.envelopes
      /\ \A p \in DocNodes \ {n} : e.members[p] = d.members[p]
  BY DEF open, Stored
<1> HIDE DEF e
<1>2. b \in DOMAIN original[n] /\ h[k] \notin DocNodes /\ v = original[n][b] /\ k \in Names
  <2>1. k \in Names
    BY StoredParts
  <2>2. QED BY <2>1 DEF Shows
<1>3. ~is_mangled(b) /\ b \in Names /\ mangle(b) = k
  BY <1>2, OriginalParts, PrefixParts
<1> HIDE DEF b
<1>4. DOMAIN f = DOMAIN h \cup {b} /\ f[b] = v /\ \A j \in DOMAIN h \ {b} : f[j] = h[j]
  BY DEF put
<1> HIDE DEF f
<1>5. ASSUME NEW j \in DOMAIN f
      PROVE  \/ ~is_mangled(j) /\ j \in DOMAIN original[n] /\ f[j] = original[n][j]
             \/ /\ is_mangled(j) /\ demangle(j) \in DOMAIN original[n] /\ f[j] \notin DocNodes
                /\ Sealed(e, f[j]) = original[n][demangle(j)]
  <2>1. CASE j = b
    BY <1>2, <1>3, <1>4, <2>1
  <2>2. CASE j # b
    <3>1. j \in DOMAIN h /\ f[j] = h[j] /\ Sealed(e, f[j]) = Sealed(d, h[j])
      BY <1>1, <1>4, <1>5, <2>2 DEF Sealed
    <3>2. QED BY <3>1 DEF Shows
  <2>3. QED BY <2>1, <2>2
<1>6. ASSUME NEW j \in DOMAIN original[n]
      PROVE  j \in DOMAIN f <=> (mangle(j) \in DOMAIN f => mangle(j) \in S \cup {k})
  <2>1. is_mangled(mangle(j)) /\ demangle(mangle(j)) = j
    BY OriginalParts
  <2>2. mangle(j) \in DOMAIN f <=> mangle(j) \in DOMAIN h
    BY <1>3, <1>4, <2>1
  <2>3. j \in DOMAIN h <=> (mangle(j) \in DOMAIN h => mangle(j) \in S)
    BY DEF Shows
  <2>4. CASE j = b
    BY <1>3, <1>4, <2>4
  <2>5. CASE j # b
    <3>1. mangle(j) # k
      BY <2>1, <2>5 DEF b
    <3>2. QED BY <1>4, <2>2, <2>3, <2>5, <3>1
  <2>6. QED BY <2>4, <2>5
<1>7. kind[n] = "object" /\ n \in Below(Root)
  BY DEF Shows, HasSealed
<1>8. Shows(e, n, S \cup {k})
  BY <1>1, <1>5, <1>6, <1>7 DEF Shows
<1>9. QED BY <1>1, <1>3, <1>4, <1>8 DEF e, b

\* Erasing the opened names, when they are all there were, leaves the object
\* in the clear.
LEMMA CloseShows ==
    ASSUME OriginalOK, ~EmptyPrefix,
           NEW d \in Stored, NEW n \in DocNodes, NEW S, Shows(d, n, S),
           \A k \in DOMAIN d.members[n] : is_mangled(k) <=> k \in S
    PROVE  /\ Shows(close(d, n, S), n, {})
           /\ ~HasSealed(close(d, n, S), n)
           /\ close(d, n, S).envelopes = d.envelopes
           /\ \A p \in DocNodes \ {n} : close(d, n, S).members[p] = d.members[p]
<1> DEFINE e == close(d, n, S)
           h == d.members[n]
           f == erase(h, S)
<1>1. /\ e.members[n] = f /\ e.envelopes = d.envelopes
      /\ \A p \in DocNodes \ {n} : e.members[p] = d.members[p]
  BY DEF close, Stored
<1> HIDE DEF e
<1>2. DOMAIN f = DOMAIN h \ S /\ \A j \in DOMAIN f : f[j] = h[j]
  BY EraseParts, ZenonT(30)
<1> HIDE DEF f
<1>3. ASSUME NEW j \in DOMAIN f
      PROVE  ~is_mangled(j) /\ j \in DOMAIN original[n] /\ f[j] = original[n][j]
  <2>1. j \in DOMAIN h /\ ~is_mangled(j) /\ f[j] = h[j]
    BY <1>2, <1>3
  <2>2. QED BY <2>1 DEF Shows
<1>4. ASSUME NEW j \in DOMAIN original[n]
      PROVE  j \in DOMAIN f /\ mangle(j) \notin DOMAIN f
  <2>1. is_mangled(mangle(j)) /\ ~is_mangled(j)
    BY OriginalParts
  <2>2. j \in DOMAIN h
    BY <2>1 DEF Shows
  <2>3. QED BY <1>2, <2>1, <2>2
<1>5. ~HasSealed(e, n)
  BY <1>1, <1>3 DEF HasSealed
<1>6. Shows(e, n, {})
  BY <1>1, <1>3, <1>4, <1>5 DEF Shows
<1>7. QED BY <1>1, <1>5, <1>6 DEF e

-----------------------------------------------------------------------------
(* The manager.                                                            *)

\* A success of encrypt is an encryption result as an encrypter makes it.
LEMMA EncryptMade ==
    ASSUME ManagerTypeOK, NEW plain \in Plaintexts, NEW alias \in Aliases \cup {Absent},
           NEW a \in manager_encrypt(plain, alias), a.err = "none"
    PROVE  /\ a.value \in EncryptionResults /\ a.value.ciphertext.plain = plain
           /\ Made(a.value)
<1> DEFINE e == alias_to_encrypter[value_or_default(alias)]
           c == [alg |-> e.alg, key |-> keys[e.ring][e.kid], plain |-> plain]
<1>1. a.value \in EncryptionResults /\ a.value.ciphertext.plain = plain
  BY ManagerEncryptType
<1>2. /\ e \in Encrypters /\ keys[e.ring][e.kid] \in KeyBytes
      /\ a = Ok(encryption_result(e.alg, e.kid, c))
  BY ManagerEncrypt DEF ManagerErrors
<1>3. /\ a.value.alg = e.alg /\ a.value.kid = e.kid /\ a.value.ciphertext = c
      /\ e.alg \in Algorithms /\ e.kid \in KeyIds
  BY <1>2 DEF Ok, encryption_result, Encrypters
<1>4. c \in Ciphertexts /\ c.alg = e.alg
  BY <1>2, <1>3 DEF Ciphertexts
<1> HIDE DEF c, e
<1>5. QED BY <1>1, <1>3, <1>4 DEF Made

\* What an encrypter made opens when its decrypter finds the key it was made with.
LEMMA MadeOpens ==
    ASSUME ManagerTypeOK, NEW node, Made(node),
           algorithm_to_decrypter[node.alg] # Absent,
           keys[algorithm_to_decrypter[node.alg]][node.kid] = node.ciphertext.key
    PROVE  manager_decrypt(node).err = "none"
<1> DEFINE ring == algorithm_to_decrypter[node.alg]
<1>1. /\ node.alg \in Algorithms /\ node.kid \in KeyIds
      /\ node.ciphertext \in Ciphertexts /\ node.ciphertext.alg = node.alg
  BY DEF Made
<1>2. /\ node.alg # Absent /\ node.kid # Absent
      /\ node.ciphertext \notin {Absent, NotBase64, Garbage}
      /\ node.ciphertext.key \in KeyBytes /\ node.ciphertext.key # Absent
  BY <1>1, CryptoManagerAssumption DEF Ciphertexts
<1>3. manager_decrypt(node) = decrypter_decrypt(node.alg, ring, node)
  BY <1>2 DEF manager_decrypt
<1>4. get(ring, node.kid) = Ok(node.ciphertext.key)
  BY <1>2 DEF get
<1>5. decrypter_decrypt(node.alg, ring, node) =
        aead_decrypt(node.alg, node.ciphertext.key, node.ciphertext)
  BY <1>2, <1>4 DEF decrypter_decrypt, Ok
<1>6. QED BY <1>1, <1>2, <1>3, <1>5 DEF aead_decrypt, Ok

-----------------------------------------------------------------------------
(* The invariant, action by action: calls that return, and encrypt.        *)

\* What is stored shows the original to the next state, too.
LEMMA StoredStep ==
    ASSUME OriginalOK, UNCHANGED <<kind, original>>,
           AllMade(stored'), \A n \in DocNodes : Shows(stored', n, {})
    PROVE  OriginalOK' /\ StoredOK'
<1>1. OriginalOK'
  BY DEF OriginalOK
<1>2. StoredOK'
  BY DEF StoredOK, AllMade, Shows, HasSealed, Below, Closed, Sealed
<1>3. QED BY <1>1, <1>2

\* The parts of the invariant that are only about what the application has.
LEMMA AppStep ==
    ASSUME SafetyInv, UNCHANGED app_vars
    PROVE  OriginalOK' /\ StoredOK' /\ RoundTrip'
<1>1. /\ UNCHANGED <<kind, original>> /\ stored' = stored /\ returned' = returned
  BY DEF app_vars
<1>2. AllMade(stored') /\ \A n \in DocNodes : Shows(stored', n, {})
  BY <1>1 DEF SafetyInv, StoredOK
<1>3. RoundTrip'
  BY <1>1 DEF SafetyInv, RoundTrip
<1>4. QED BY <1>1, <1>2, <1>3, StoredStep DEF SafetyInv

\* A call that returns has stored and returned what shows the original.
LEMMA ReturnSafe ==
    ASSUME SafetyInv, NEW call, NEW err, Return(call, err),
           AllMade(stored'), \A n \in DocNodes : Shows(stored', n, {}),
           returned' # Absent => returned' = original
    PROVE  SafetyInv'
<1>1. UNCHANGED <<kind, original>> /\ pc' = "idle"
  BY DEF Return
<1>2. OriginalOK' /\ StoredOK'
  BY <1>1, StoredStep DEF SafetyInv
<1>3. RoundTrip'
  BY <1>1 DEF RoundTrip
<1>4. EncryptSafe' /\ DecryptSafe' /\ ScanOK'
  BY <1>1 DEF EncryptSafe, DecryptSafe, ScanOK, EncryptSteps, DecryptSteps
<1>5. QED BY <1>2, <1>3, <1>4 DEF SafetyInv

\* A call that fails has changed neither.
LEMMA FailSafe ==
    ASSUME SafetyInv, NEW call, NEW err, Fail(call, err)
    PROVE  SafetyInv'
<1>1. stored' = stored /\ returned' = returned /\ Return(call, err)
  BY DEF Fail
<1>2. AllMade(stored') /\ \A n \in DocNodes : Shows(stored', n, {})
  BY <1>1 DEF SafetyInv, StoredOK
<1>3. returned' # Absent => returned' = original
  BY <1>1 DEF SafetyInv, RoundTrip
<1>4. QED BY <1>1, <1>2, <1>3, ReturnSafe

\* A sorted list has only fields of the list.
LEMMA SortParts ==
    ASSUME NEW fields, NEW o \in sort(fields)
    PROVE  /\ DOMAIN o = DOMAIN fields
           /\ \A i \in DOMAIN o : \E j \in DOMAIN fields : o[i] = fields[j]
<1>1. PICK p \in [DOMAIN fields -> DOMAIN fields] : o = [i \in DOMAIN fields |-> fields[p[i]]]
  BY DEF sort, Bijection, Injection, Surjection
<1>2. QED BY <1>1

\* encrypt on what is kept between steps of it.
LEMMA EncryptSafeStep ==
    ASSUME SafetyInv, UNCHANGED app_vars, pc' \in EncryptSteps,
           AllMade(document'), \A n \in DocNodes : Shows(document', n, {}),
           \A n \in DocNodes : \A k \in DOMAIN stored.members[n] :
             is_mangled(k) => k \in DOMAIN document'.members[n],
           \A i \in DOMAIN ordered_encrypted_fields' :
             \A j \in DOMAIN ordered_encrypted_fields'[i].path :
               ~is_mangled(ordered_encrypted_fields'[i].path[j]),
           pc' # "parsed" => kind[Root] = "object",
           pc' = "walk" => blob' \in Below(Root) /\ kind[blob'] = "object"
    PROVE  SafetyInv'
<1>1. UNCHANGED <<kind, original>> /\ stored' = stored
  BY DEF app_vars
<1>2. Below(Root)' = Below(Root)
  BY <1>1 DEF Below, Closed
<1>3. \A n \in DocNodes : Shows(document, n, {})'
  BY <1>1 DEF Shows, HasSealed, Below, Closed, Sealed
<1>4. AllMade(document)'
  BY DEF AllMade
<1>5. EncryptSafe'
  BY <1>1, <1>2, <1>3, <1>4 DEF EncryptSafe
<1>6. DecryptSafe' /\ ScanOK'
  BY DEF DecryptSafe, ScanOK, EncryptSteps, DecryptSteps
<1>7. QED BY <1>5, <1>6, AppStep DEF SafetyInv

\* Entering encrypt.
LEMMA EncryptCallSafe ==
    ASSUME TypeInv, SafetyInv, PlainNames, NEW fields \in FieldLists, encrypt(fields)
    PROVE  SafetyInv'
<1>1. /\ pc = "idle" /\ pc' = "parsed" /\ ordered_encrypted_fields' \in sort(fields)
      /\ UNCHANGED <<app_vars, document>>
  BY DEF encrypt
<1>2. document' = stored
  BY <1>1 DEF TypeInv, IdleOK
<1>3. \A i \in DOMAIN ordered_encrypted_fields' :
        \A j \in DOMAIN ordered_encrypted_fields'[i].path :
          ~is_mangled(ordered_encrypted_fields'[i].path[j])
  <2>1. \A i \in DOMAIN ordered_encrypted_fields' :
          \E l \in DOMAIN fields : ordered_encrypted_fields'[i] = fields[l]
    BY <1>1, SortParts
  <2>2. QED BY <2>1 DEF PlainNames
<1>4. AllMade(document') /\ \A n \in DocNodes : Shows(document', n, {})
  BY <1>2 DEF SafetyInv, StoredOK
<1>5. QED BY <1>1, <1>2, <1>3, <1>4, EncryptSafeStep DEF EncryptSteps

\* Where encrypt has got to.
LEMMA EncryptNow ==
    ASSUME SafetyInv, pc \in EncryptSteps
    PROVE  /\ AllMade(document) /\ \A n \in DocNodes : Shows(document, n, {})
           /\ \A n \in DocNodes : \A k \in DOMAIN stored.members[n] :
                is_mangled(k) => k \in DOMAIN document.members[n]
           /\ \A i \in DOMAIN ordered_encrypted_fields :
                \A j \in DOMAIN ordered_encrypted_fields[i].path :
                  ~is_mangled(ordered_encrypted_fields[i].path[j])
           /\ pc # "parsed" => kind[Root] = "object"
           /\ pc = "walk" => blob \in Below(Root) /\ kind[blob] = "object"
           /\ OriginalOK
  BY DEF SafetyInv, EncryptSafe

LEMMA CheckRootSafe ==
    ASSUME TypeInv, SafetyInv, CheckRoot
    PROVE  SafetyInv'
<1>1. CASE Fail("encrypt", "encryption_failure")
  BY <1>1, FailSafe
<1>2. CASE /\ pc = "parsed" /\ is_object(Root) /\ pc' = "field"
           /\ UNCHANGED <<app_vars, document, encrypt_vars>>
  <2>1. kind[Root] = "object"
    BY <1>2, TranscoderAssumption DEF is_object, Root, DocNodes
  <2>2. document' = document /\ ordered_encrypted_fields' = ordered_encrypted_fields
    BY <1>2 DEF encrypt_vars
  <2>3. QED BY <1>2, <2>1, <2>2, EncryptNow, EncryptSafeStep DEF EncryptSteps
<1>3. QED BY <1>1, <1>2 DEF CheckRoot

LEMMA BeginFieldSafe ==
    ASSUME TypeInv, SafetyInv, BeginField
    PROVE  SafetyInv'
<1>1. CASE Fail("encrypt", "encryption_failure")
  BY <1>1, FailSafe
<1>2. CASE /\ pc = "field" /\ pc' = "walk" /\ blob' = Root
           /\ UNCHANGED <<app_vars, document, ordered_encrypted_fields>>
  <2>1. Root \in DocNodes
    BY TranscoderAssumption DEF Root, DocNodes
  <2>2. Root \in Below(Root)
    BY <2>1, BelowParts DEF SafetyInv
  <2>3. kind[Root] = "object"
    BY <1>2, EncryptNow DEF EncryptSteps
  <2>4. document' = document /\ ordered_encrypted_fields' = ordered_encrypted_fields
    BY <1>2
  <2>5. QED BY <1>2, <2>2, <2>3, <2>4, EncryptNow, EncryptSafeStep DEF EncryptSteps
<1>3. QED BY <1>1, <1>2 DEF BeginField

\* The name at the end of the walk so far is plain, and what the document has
\* under it is what the original has.
LEMMA PathStep ==
    ASSUME TypeInv, SafetyInv, pc = "walk", depth <= Len(path),
           path[depth] \in DOMAIN members_of(document, blob)
    PROVE  /\ blob \in DocNodes /\ ~is_mangled(path[depth])
           /\ members_of(document, blob) = document.members[blob]
           /\ path[depth] \in DOMAIN original[blob]
           /\ document.members[blob][path[depth]] = original[blob][path[depth]]
           /\ original[blob][path[depth]] \in DocNodes
           /\ original[blob][path[depth]] \in Below(Root)
<1>1. field <= Len(ordered_encrypted_fields) /\ field \in Nat \ {0} /\ depth \in Nat \ {0}
  BY DEF TypeInv, TypeOK, EncryptOK, EncryptSteps
<1>2. path \in Paths /\ depth \in DOMAIN path
  <2>1. path \in Paths /\ Len(path) \in Nat
    BY <1>1, CurrentField DEF TypeInv
  <2>2. QED BY <1>1, <2>1 DEF Paths
<1>3. field \in DOMAIN ordered_encrypted_fields
  BY <1>1 DEF TypeInv, TypeOK
<1>4. ~is_mangled(path[depth])
  BY <1>2, <1>3, EncryptNow DEF EncryptSteps, path
<1>5. blob \in Below(Root) /\ Root \in DocNodes
  BY EncryptNow, TranscoderAssumption DEF EncryptSteps, Root, DocNodes
<1>6. blob \in DocNodes
  BY <1>5, BelowParts DEF SafetyInv
<1>7. members_of(document, blob) = document.members[blob]
  BY <1>6 DEF members_of
<1>8. Shows(document, blob, {})
  BY <1>6, EncryptNow DEF EncryptSteps
<1>9. /\ path[depth] \in DOMAIN original[blob]
      /\ document.members[blob][path[depth]] = original[blob][path[depth]]
  BY <1>4, <1>7, <1>8 DEF Shows
<1>10. original[blob][path[depth]] \in Below(Root)
  BY <1>5, <1>9, BelowParts DEF SafetyInv
<1>11. QED BY <1>4, <1>5, <1>6, <1>7, <1>9, <1>10, BelowParts DEF SafetyInv

LEMMA DescendSafe ==
    ASSUME TypeInv, SafetyInv, Descend
    PROVE  SafetyInv'
<1>1. CASE Fail("encrypt", "encryption_failure")
  BY <1>1, FailSafe
<1>2. CASE /\ pc = "walk" /\ depth < Len(path)
           /\ path[depth] \in DOMAIN members_of(document, blob)
           /\ is_object(members_of(document, blob)[path[depth]])
           /\ blob' = members_of(document, blob)[path[depth]]
           /\ UNCHANGED <<app_vars, pc, document, ordered_encrypted_fields>>
  <2>1. depth <= Len(path)
    <3>1. field <= Len(ordered_encrypted_fields) /\ depth \in Nat
      BY <1>2 DEF TypeInv, TypeOK, EncryptOK, EncryptSteps
    <3>2. Len(path) \in Nat
      BY <3>1, CurrentField DEF TypeInv
    <3>3. QED BY <1>2, <3>1, <3>2
  <2>2. blob' \in DocNodes /\ blob' \in Below(Root)
    BY <1>2, <2>1, PathStep
  <2>3. kind[blob'] = "object"
    BY <1>2, <2>2 DEF is_object
  <2>4. /\ document' = document /\ ordered_encrypted_fields' = ordered_encrypted_fields
        /\ pc' = "walk"
    BY <1>2
  <2>5. QED BY <1>2, <2>2, <2>3, <2>4, EncryptNow, EncryptSafeStep DEF EncryptSteps
<1>3. QED BY <1>1, <1>2 DEF Descend

LEMMA SealFieldSafe ==
    ASSUME TypeInv, SafetyInv, ~EmptyPrefix, SealField
    PROVE  SafetyInv'
<1> DEFINE k == path[depth]
           child == members_of(document, blob)[k]
           alias == ordered_encrypted_fields[field].alias
<1>1. ASSUME NEW err, Fail("encrypt", err)
      PROVE  SafetyInv'
  BY <1>1, FailSafe
<1>2. ASSUME k \in DOMAIN members_of(document, blob),
             NEW a \in manager_encrypt(child, alias), a.err = "none",
             document' = seal(document, blob, k, a.value),
             pc' = "field",
             UNCHANGED <<app_vars, ordered_encrypted_fields>>
      PROVE  SafetyInv'
  <2>1. pc = "walk" /\ depth = Len(path)
    BY DEF SealField
  <2>2. field <= Len(ordered_encrypted_fields) /\ depth \in Nat
    BY <2>1 DEF TypeInv, TypeOK, EncryptOK, EncryptSteps
  <2>3. /\ blob \in DocNodes /\ ~is_mangled(k) /\ child = document.members[blob][k]
        /\ k \in DOMAIN document.members[blob] /\ child \in DocNodes
    BY <1>2, <2>1, <2>2, PathStep
  <2>4. child \in Plaintexts
    BY <2>3, TranscoderAssumption DEF Nodes, DocNodes
  <2>5. alias \in Aliases \cup {Absent}
    BY <2>2, CurrentField DEF TypeInv
  <2>6. /\ a.value \in EncryptionResults /\ a.value.ciphertext.plain = child
        /\ Made(a.value)
    BY <1>2, <2>4, <2>5, EncryptMade DEF TypeInv, TypeOK
  <2>7. /\ document \in Stored /\ WellFormed(document) /\ AllMade(document)
        /\ \A p \in DocNodes : Shows(document, p, {})
        /\ kind[blob] = "object" /\ blob \in Below(Root) /\ OriginalOK
    BY <2>1, EncryptNow DEF TypeInv, TypeOK, EncryptSteps
  <2> HIDE DEF k, child, alias
  <2>8. /\ AllMade(document') /\ \A p \in DocNodes : Shows(document', p, {})
        /\ \A p \in DocNodes : \A j \in DOMAIN document.members[p] :
             is_mangled(j) => j \in DOMAIN document'.members[p]
    BY <1>2, <2>3, <2>6, <2>7, SealShows
  <2>9. /\ \A n \in DocNodes : \A j \in DOMAIN stored.members[n] :
             is_mangled(j) => j \in DOMAIN document'.members[n]
        /\ kind[Root] = "object"
        /\ \A i \in DOMAIN ordered_encrypted_fields' :
             \A j \in DOMAIN ordered_encrypted_fields'[i].path :
               ~is_mangled(ordered_encrypted_fields'[i].path[j])
    BY <1>2, <2>1, <2>8, EncryptNow DEF EncryptSteps
  <2>10. QED BY <1>2, <2>8, <2>9, EncryptSafeStep DEF EncryptSteps
<1>3. QED BY <1>1, <1>2 DEF SealField

LEMMA FinishEncryptSafe ==
    ASSUME TypeInv, SafetyInv, FinishEncrypt
    PROVE  SafetyInv'
<1>1. /\ pc = "field" /\ stored' = document /\ returned' = returned
      /\ Return("encrypt", "none")
  BY DEF FinishEncrypt
<1>2. AllMade(stored') /\ \A n \in DocNodes : Shows(stored', n, {})
  BY <1>1, EncryptNow DEF EncryptSteps
<1>3. returned' # Absent => returned' = original
  BY <1>1 DEF SafetyInv, RoundTrip
<1>4. QED BY <1>1, <1>2, <1>3, ReturnSafe

-----------------------------------------------------------------------------
(* The invariant, action by action: decrypt.                               *)

\* The activation on top of the stack.
LEMMA Top ==
    ASSUME TypeInv, stack # << >>
    PROVE  /\ 1 \in DOMAIN stack /\ value = stack[1].value /\ Head(stack) = stack[1]
           /\ DOMAIN stack = 1..Len(stack) /\ Len(stack) \in Nat \ {0}
           /\ Len(Tail(stack)) = Len(stack) - 1
           /\ \A i \in 1..(Len(stack) - 1) : Tail(stack)[i] = stack[i + 1]
<1>1. stack \in Seq(Frames)
  BY DEF TypeInv, TypeOK
<1>2. QED BY <1>1 DEF value

\* Where decrypt has got to.
LEMMA DecryptNow ==
    ASSUME SafetyInv, pc \in DecryptSteps
    PROVE  /\ document.envelopes = stored.envelopes
           /\ \A n \in DocNodes : Shows(document, n, Opening(n))
           /\ \A i \in DOMAIN stack :
                /\ stack[i].value \in DocNodes
                /\ IF Fresh(i) THEN stack[i].at = Begin
                               ELSE ~HasSealed(document, stack[i].value)
           /\ \A n \in DocNodes :
                HasSealed(document, n) => \E i \in DOMAIN stack : Visits(stack[i], Fresh(i), n)
           /\ OriginalOK
  BY DEF SafetyInv, DecryptSafe

\* decrypt on what is kept between steps of it.
LEMMA DecryptSafeStep ==
    ASSUME SafetyInv, UNCHANGED app_vars, pc' \in DecryptSteps,
           document'.envelopes = stored.envelopes,
           \A n \in DocNodes : Shows(document', n, Opening(n)'),
           \A i \in DOMAIN stack' :
             /\ stack'[i].value \in DocNodes
             /\ IF Fresh(i)' THEN stack'[i].at = Begin
                             ELSE ~HasSealed(document', stack'[i].value),
           \A n \in DocNodes : HasSealed(document', n) =>
             \E i \in DOMAIN stack' : Visits(stack'[i], Fresh(i)', n),
           ScanOK'
    PROVE  SafetyInv'
<1>1. UNCHANGED <<kind, original>> /\ stored' = stored
  BY DEF app_vars
<1>2. \A n \in DocNodes : Shows(document, n, Opening(n))'
  BY <1>1 DEF Shows, HasSealed, Below, Closed, Sealed
<1>3. \A i \in DOMAIN stack' :
        /\ stack'[i].value \in DocNodes
        /\ IF Fresh(i)' THEN stack'[i].at = Begin ELSE ~HasSealed(document, stack[i].value)'
  BY DEF HasSealed
<1>4. \A n \in DocNodes :
        HasSealed(document, n)' => \E i \in DOMAIN stack' : Visits(stack[i], Fresh(i), n)'
  <2> SUFFICES ASSUME NEW n \in DocNodes, HasSealed(document, n)'
               PROVE  \E i \in DOMAIN stack' : Visits(stack[i], Fresh(i), n)'
    OBVIOUS
  <2>1. PICK i \in DOMAIN stack' : Visits(stack'[i], Fresh(i)', n)
    BY DEF HasSealed
  <2>2. Visits(stack[i], Fresh(i), n)'
    BY <1>1, <2>1 DEF Visits, Below, Closed
  <2>3. QED BY <2>2
<1>5. DecryptSafe'
  BY <1>1, <1>2, <1>3, <1>4 DEF DecryptSafe
<1>6. EncryptSafe'
  BY DEF EncryptSafe, EncryptSteps, DecryptSteps
<1>7. QED BY <1>5, <1>6, AppStep DEF SafetyInv

\* Entering decrypt: the root has everything still to be visited.
LEMMA DecryptCallSafe ==
    ASSUME TypeInv, SafetyInv, decrypt
    PROVE  SafetyInv'
<1>1. /\ pc = "idle" /\ pc' = "visit" /\ stack' = <<[value |-> Root, at |-> Begin]>>
      /\ UNCHANGED <<app_vars, document>>
  BY DEF decrypt
<1>2. document' = stored /\ Root \in DocNodes
  BY <1>1, TranscoderAssumption DEF TypeInv, IdleOK, Root, DocNodes
<1>3. \A n \in DocNodes : Opening(n)' = {}
  BY <1>1 DEF Opening
<1>4. \A n \in DocNodes : Shows(document', n, Opening(n)')
  BY <1>2, <1>3 DEF SafetyInv, StoredOK
<1>5. /\ DOMAIN stack' = {1} /\ stack'[1].value = Root /\ stack'[1].at = Begin
      /\ \A i \in DOMAIN stack' : Fresh(i)'
  BY <1>1 DEF Fresh
<1>6. \A n \in DocNodes :
        HasSealed(document', n) => \E i \in DOMAIN stack' : Visits(stack'[i], Fresh(i)', n)
  <2>1. \A n \in DocNodes : HasSealed(document', n) => n \in Below(Root)
    BY <1>4 DEF Shows
  <2>2. QED BY <1>5, <2>1 DEF Visits
<1>7. ScanOK'
  BY <1>1 DEF ScanOK
<1>8. QED BY <1>1, <1>2, <1>4, <1>5, <1>6, <1>7, DecryptSafeStep DEF DecryptSteps

\* A value is taken up: an object to have its envelopes opened, anything else to
\* have its members visited.
LEMMA VisitSafe ==
    ASSUME TypeInv, SafetyInv, Visit
    PROVE  SafetyInv'
<1>1. /\ pc = "visit" /\ pc' = (IF is_object(value) THEN "scan" ELSE "children")
      /\ cursor' = Begin /\ encrypted_keys' = {}
      /\ UNCHANGED <<app_vars, document, stack>> /\ stack # << >>
  BY DEF Visit, TypeInv, DecryptOK
<1>2. document.envelopes = stored.envelopes /\ OriginalOK
  BY <1>1, DecryptNow DEF DecryptSteps
<1>3. \A n \in DocNodes : Opening(n) = {} /\ Opening(n)' = {}
  BY <1>1 DEF Opening
<1>4. \A n \in DocNodes : Shows(document', n, Opening(n)')
  BY <1>1, <1>3, DecryptNow DEF DecryptSteps
<1>5. /\ 1 \in DOMAIN stack /\ value = stack[1].value /\ value' = value
      /\ value \in DocNodes /\ stack[1].at = Begin
      /\ \A i \in DOMAIN stack : Fresh(i) <=> i = 1
  BY <1>1, Top, DecryptNow DEF Fresh, DecryptSteps, value
<1>6. DOMAIN members_of(document, value) \subseteq Names /\ document \in Stored
  BY MembersOfType DEF TypeInv, TypeOK
<1>7. CASE is_object(value)
  <2>1. \A i \in DOMAIN stack : Fresh(i)' <=> i = 1
    BY <1>1, <1>7 DEF Fresh
  <2>2. ScanOK'
    <3>1. kind'[value'] = "object" /\ mangled_keys' = mangled_keys
      BY <1>1, <1>5, <1>7 DEF is_object, app_vars, mangled_keys, members_of
    <3>2. \A k \in mangled_keys : Before(Begin, k)
      BY <1>6, BeforeOrder DEF mangled_keys
    <3>3. QED BY <1>1, <3>1, <3>2 DEF ScanOK
  <2>3. \A i \in DOMAIN stack' :
          /\ stack'[i].value \in DocNodes
          /\ IF Fresh(i)' THEN stack'[i].at = Begin
                          ELSE ~HasSealed(document', stack'[i].value)
    BY <1>1, <1>5, <2>1, DecryptNow DEF DecryptSteps
  <2>4. ASSUME NEW n \in DocNodes, HasSealed(document', n)
        PROVE  \E i \in DOMAIN stack' : Visits(stack'[i], Fresh(i)', n)
    <3>1. PICK i \in DOMAIN stack : Visits(stack[i], Fresh(i), n)
      BY <1>1, <2>4, DecryptNow DEF DecryptSteps
    <3>2. QED BY <1>1, <1>5, <2>1, <3>1 DEF Visits
  <2>5. pc' \in DecryptSteps /\ document'.envelopes = stored.envelopes
    BY <1>1, <1>2 DEF DecryptSteps
  <2>6. QED BY <1>1, <1>4, <2>2, <2>3, <2>4, <2>5, DecryptSafeStep
<1>8. CASE ~is_object(value)
  <2>1. \A i \in DOMAIN stack : ~Fresh(i)'
    BY <1>1, <1>8 DEF Fresh
  <2>2. ~HasSealed(document, value)
    <3>1. Shows(document, value, {}) /\ kind[value] # "object"
      BY <1>3, <1>5, <1>8, <1>1, DecryptNow DEF is_object, DecryptSteps
    <3>2. QED BY <3>1 DEF Shows
  <2>3. \A i \in DOMAIN stack' :
          /\ stack'[i].value \in DocNodes
          /\ IF Fresh(i)' THEN stack'[i].at = Begin
                          ELSE ~HasSealed(document', stack'[i].value)
    BY <1>1, <1>5, <2>1, <2>2, DecryptNow DEF DecryptSteps
  <2>4. ASSUME NEW n \in DocNodes, HasSealed(document', n)
        PROVE  \E i \in DOMAIN stack' : Visits(stack'[i], Fresh(i)', n)
    <3>1. PICK i \in DOMAIN stack : Visits(stack[i], Fresh(i), n)
      BY <1>1, <2>4, DecryptNow DEF DecryptSteps
    <3>2. CASE i = 1
      <4>1. n \in Below(value) /\ n # value
        BY <1>1, <1>5, <2>2, <2>4, <3>1, <3>2 DEF Visits
      <4>2. PICK k \in DOMAIN original[value] : n \in Below(original[value][k])
        BY <1>2, <1>5, <4>1, BelowSplit
      <4>3. k \in Names
        <5>1. original[value] \in MapsTo(DocNodes)
          BY <1>2, <1>5 DEF OriginalOK
        <5>2. QED BY <5>1, MapsToParts
      <4>4. Before(stack'[1].at, k)
        BY <1>1, <1>5, <4>3, BeforeOrder
      <4>5. QED BY <1>1, <1>5, <2>1, <4>2, <4>4 DEF Visits
    <3>3. CASE i # 1
      BY <1>1, <1>5, <2>1, <3>1, <3>3 DEF Visits
    <3>4. QED BY <3>2, <3>3
  <2>5. pc' \in DecryptSteps /\ document'.envelopes = stored.envelopes /\ ScanOK'
    BY <1>1, <1>2, <1>8 DEF DecryptSteps, ScanOK
  <2>6. QED BY <1>1, <1>4, <2>3, <2>4, <2>5, DecryptSafeStep
<1>9. QED BY <1>7, <1>8

\* Where the iteration over the members of an object has got to.
LEMMA ScanNow ==
    ASSUME TypeInv, SafetyInv, pc = "scan"
    PROVE  /\ stack # << >> /\ value \in DocNodes /\ kind[value] = "object"
           /\ 1 \in DOMAIN stack /\ value = stack[1].value /\ stack[1].at = Begin
           /\ \A i \in DOMAIN stack : Fresh(i) <=> i = 1
           /\ members_of(document, value) = document.members[value]
           /\ mangled_keys \subseteq Names
           /\ mangled_keys = {k \in DOMAIN document.members[value] : is_mangled(k)}
           /\ cursor \in Names \cup {Begin}
           /\ encrypted_keys = {k \in mangled_keys : ~Before(cursor, k)}
           /\ Shows(document, value, encrypted_keys)
           /\ \A n \in DocNodes \ {value} : Shows(document, n, {})
           /\ document \in Stored /\ WellFormed(document)
<1>1. stack # << >> /\ document \in Stored /\ WellFormed(document) /\ cursor \in Names \cup {Begin}
  BY DEF TypeInv, TypeOK, DecryptOK
<1>2. /\ 1 \in DOMAIN stack /\ value = stack[1].value
      /\ \A i \in DOMAIN stack : Fresh(i) <=> i = 1
  BY <1>1, Top DEF Fresh
<1>3. value \in DocNodes /\ stack[1].at = Begin
  BY <1>2, DecryptNow DEF DecryptSteps
<1>4. members_of(document, value) = document.members[value]
  BY <1>3 DEF members_of
<1>5. kind[value] = "object" /\ encrypted_keys = {k \in mangled_keys : ~Before(cursor, k)}
  BY DEF SafetyInv, ScanOK
<1>6. mangled_keys = {k \in DOMAIN document.members[value] : is_mangled(k)}
  BY <1>4 DEF mangled_keys
<1>7. mangled_keys \subseteq Names
  BY <1>1, <1>3, <1>6, StoredParts
<1>8. \A n \in DocNodes : Shows(document, n, Opening(n))
  BY DecryptNow DEF DecryptSteps
<1>9. Shows(document, value, encrypted_keys) /\ \A n \in DocNodes \ {value} : Shows(document, n, {})
  BY <1>3, <1>8 DEF Opening
<1>10. QED BY <1>1, <1>2, <1>3, <1>4, <1>5, <1>6, <1>7, <1>9

\* Under a mangled name there is an envelope, made by an encrypter.
LEMMA EnvelopeNow ==
    ASSUME TypeInv, SafetyInv, pc = "scan", NEW k \in mangled_keys
    PROVE  LET v == members_of(document, value)[k]
               node == document.envelopes[v - NodeCount]
           IN  /\ v \notin DocNodes /\ is_object(v)
               /\ v - NodeCount \in DOMAIN stored.envelopes
               /\ node = stored.envelopes[v - NodeCount]
               /\ node \in EncryptionResults /\ Made(node)
               /\ node.ciphertext.plain = Sealed(document, document.members[value][k])
<1> DEFINE v == members_of(document, value)[k]
           i == v - NodeCount
<1>1. k \in DOMAIN document.members[value] /\ is_mangled(k) /\ v = document.members[value][k]
  BY ScanNow
<1>2. v \notin DocNodes
  BY <1>1, ScanNow DEF Shows
<1>3. /\ value \in DocNodes /\ document \in Stored /\ WellFormed(document)
      /\ document.envelopes = stored.envelopes
  BY ScanNow, DecryptNow DEF DecryptSteps
<1>4. /\ Len(document.envelopes) \in Nat /\ NodeCount \in Nat
      /\ document.envelopes \in Seq(EncryptionResults)
  BY <1>3, StoredParts, TranscoderAssumption
<1>5. v \in Upto(Len(document.envelopes))
  BY <1>1, <1>3 DEF WellFormed
<1> HIDE DEF v
<1>6. i \in 1..Len(document.envelopes)
  BY <1>2, <1>4, <1>5 DEF Upto, DocNodes
<1>7. i \in DOMAIN stored.envelopes /\ document.envelopes[i] \in EncryptionResults
  BY <1>3, <1>4, <1>6
<1>8. Made(document.envelopes[i])
  BY <1>3, <1>6 DEF SafetyInv, StoredOK, AllMade
<1>9. QED BY <1>1, <1>2, <1>3, <1>7, <1>8 DEF is_object, Sealed, v

\* An envelope is opened, and the iterator moves on.
LEMMA OpenFieldSafe ==
    ASSUME TypeInv, SafetyInv, ~EmptyPrefix, OpenField
    PROVE  SafetyInv'
<1>1. pc = "scan"
  BY DEF OpenField
<1>2. ASSUME NEW err, Fail("decrypt", err)
      PROVE  SafetyInv'
  BY <1>2, FailSafe
<1>3. ASSUME NEW k \in Following(mangled_keys, cursor),
             LET v == members_of(document, value)[k]
                 a == manager_decrypt(document.envelopes[v - NodeCount])
             IN  /\ a.err = "none"
                 /\ document' = open(document, value, demangle(k), a.value),
             cursor' = k, encrypted_keys' = encrypted_keys \cup {k},
             UNCHANGED <<app_vars, pc, stack>>
      PROVE  SafetyInv'
  <2> DEFINE v == members_of(document, value)[k]
             node == document.envelopes[v - NodeCount]
             plain == Sealed(document, document.members[value][k])
  <2>1. /\ k \in mangled_keys /\ Before(cursor, k)
        /\ \A j \in mangled_keys : Before(cursor, j) => j = k \/ Before(k, j)
        /\ k \in Names
    BY <1>1, ScanNow, FollowingParts
  <2>2. node \in EncryptionResults /\ node.ciphertext.plain = plain
    BY <1>1, <2>1, EnvelopeNow
  <2>3. document' = open(document, value, demangle(k), plain)
    <3>1. manager_decrypt(node).value = node.ciphertext.plain
      BY <1>3, <2>2, ManagerDecryptType DEF TypeInv, TypeOK
    <3>2. QED BY <1>3, <2>2, <3>1
  <2>4. /\ k \in DOMAIN document.members[value] /\ is_mangled(k)
        /\ value \in DocNodes /\ document \in Stored /\ Shows(document, value, encrypted_keys)
        /\ OriginalOK
    BY <1>1, <2>1, ScanNow DEF SafetyInv
  <2> HIDE DEF plain
  <2>5. /\ Shows(document', value, encrypted_keys')
        /\ document'.envelopes = document.envelopes
        /\ \A p \in DocNodes \ {value} : document'.members[p] = document.members[p]
        /\ DOMAIN document'.members[value] = DOMAIN document.members[value] \cup {demangle(k)}
        /\ ~is_mangled(demangle(k))
    <3> DEFINE opened == open(document, value, demangle(k), plain)
    <3>1. plain = Sealed(document, document.members[value][k])
      BY DEF plain
    <3>2. /\ Shows(opened, value, encrypted_keys \cup {k})
          /\ opened.envelopes = document.envelopes
          /\ \A p \in DocNodes \ {value} : opened.members[p] = document.members[p]
          /\ DOMAIN opened.members[value] = DOMAIN document.members[value] \cup {demangle(k)}
          /\ ~is_mangled(demangle(k))
      <4> HIDE DEF opened
      <4>1. QED BY <2>4, <3>1, OpenShows, SMTT(30) DEF opened
    <3> HIDE DEF opened
    <3>3. document' = opened
      BY <2>3 DEF opened
    <3>4. encrypted_keys' = encrypted_keys \cup {k}
      BY <1>3
    <3>5. QED BY <3>2, <3>3, <3>4
  <2> HIDE DEF v, node
  <2>6. value' = value /\ pc' = "scan" /\ stack' = stack /\ app_vars' = app_vars
    BY <1>1, <1>3 DEF value
  <2>7. \A n \in DocNodes : Shows(document', n, Opening(n)')
    <3> SUFFICES ASSUME NEW n \in DocNodes PROVE Shows(document', n, Opening(n)')
      OBVIOUS
    <3>1. CASE n = value
      BY <2>5, <2>6, <3>1 DEF Opening
    <3>2. CASE n # value
      <4>1. Opening(n)' = {}
        BY <2>6, <3>2 DEF Opening
      <4>2. Shows(document, n, {}) /\ document'.members[n] = document.members[n]
        BY <1>1, <2>5, <3>2, ScanNow
      <4>3. \A j \in DOMAIN document.members[n] :
              Sealed(document', document.members[n][j]) = Sealed(document, document.members[n][j])
        BY <2>5 DEF Sealed
      <4>4. QED BY <4>1, <4>2, <4>3, ShowsSame
    <3>3. QED BY <3>1, <3>2
  <2>8. \A n \in DocNodes : HasSealed(document', n) <=> HasSealed(document, n)
    BY <2>5 DEF HasSealed
  <2>9. \A i \in DOMAIN stack' : Fresh(i)' <=> Fresh(i)
    BY <1>1, <2>6 DEF Fresh
  <2>10. \A i \in DOMAIN stack' :
           /\ stack'[i].value \in DocNodes
           /\ IF Fresh(i)' THEN stack'[i].at = Begin
                           ELSE ~HasSealed(document', stack'[i].value)
    BY <1>1, <2>6, <2>8, <2>9, DecryptNow DEF DecryptSteps
  <2>11. \A n \in DocNodes : HasSealed(document', n) =>
           \E i \in DOMAIN stack' : Visits(stack'[i], Fresh(i)', n)
    <3> SUFFICES ASSUME NEW n \in DocNodes, HasSealed(document', n)
                 PROVE  \E i \in DOMAIN stack' : Visits(stack'[i], Fresh(i)', n)
      OBVIOUS
    <3>1. PICK i \in DOMAIN stack : Visits(stack[i], Fresh(i), n)
      BY <1>1, <2>8, DecryptNow DEF DecryptSteps
    <3>2. Visits(stack'[i], Fresh(i)', n)
      BY <2>6, <2>9, <3>1 DEF Visits
    <3>3. QED BY <2>6, <3>2
  <2>12. ScanOK'
    <3>1. mangled_keys' = mangled_keys
      <4>1. mangled_keys' = {j \in DOMAIN document'.members[value] : is_mangled(j)}
        BY <2>4, <2>6 DEF mangled_keys, members_of
      <4>2. QED BY <1>1, <2>5, <4>1, ScanNow
    <3>2. encrypted_keys' = {j \in mangled_keys : ~Before(k, j)}
      <4> SUFFICES ASSUME NEW j \in mangled_keys
                   PROVE  j \in encrypted_keys \cup {k} <=> ~Before(k, j)
        BY <1>1, <1>3, <2>1, ScanNow
      <4>1. j \in Names /\ cursor \in Names \cup {Begin}
        BY <1>1, ScanNow
      <4>2. j \in encrypted_keys <=> ~Before(cursor, j)
        BY <1>1, ScanNow
      <4>3. ~Before(k, k) /\ (Before(cursor, k) /\ Before(k, j) => Before(cursor, j))
        BY <2>1, <4>1, BeforeOrder
      <4>4. QED BY <2>1, <4>2, <4>3
    <3>3. kind'[value'] = "object"
      BY <1>1, <2>6, ScanNow DEF app_vars
    <3>4. QED BY <1>3, <3>1, <3>2, <3>3 DEF ScanOK
  <2>13. pc' \in DecryptSteps /\ document'.envelopes = stored.envelopes
    BY <1>1, <2>5, <2>6, DecryptNow DEF DecryptSteps
  <2>14. UNCHANGED app_vars
    BY <2>6
  <2>15. QED BY <2>7, <2>10, <2>11, <2>12, <2>13, <2>14, DecryptSafeStep
<1>4. QED BY <1>2, <1>3 DEF OpenField

\* The iterator is at the end: what was opened is all there was, and goes.
LEMMA EraseKeysSafe ==
    ASSUME TypeInv, SafetyInv, ~EmptyPrefix, EraseKeys
    PROVE  SafetyInv'
<1>1. /\ pc = "scan" /\ pc' = "children" /\ Following(mangled_keys, cursor) = {}
      /\ UNCHANGED app_vars /\ stack' = stack
  BY DEF EraseKeys, decrypt_vars
<1>2. document' = close(document, value, encrypted_keys)
  BY <1>1, ScanNow DEF EraseKeys
<1>3. mangled_keys = encrypted_keys
  BY <1>1, ScanNow, FollowingParts
<1>4. /\ Shows(document', value, {}) /\ ~HasSealed(document', value)
      /\ document'.envelopes = document.envelopes
      /\ \A p \in DocNodes \ {value} : document'.members[p] = document.members[p]
  <2>1. \A k \in DOMAIN document.members[value] : is_mangled(k) <=> k \in encrypted_keys
    BY <1>1, <1>3, ScanNow
  <2>2. OriginalOK /\ value \in DocNodes /\ document \in Stored
        /\ Shows(document, value, encrypted_keys)
    BY <1>1, ScanNow DEF SafetyInv
  <2>3. QED BY <1>2, <2>1, <2>2, CloseShows
<1>5. ASSUME NEW n \in DocNodes
      PROVE  Shows(document', n, Opening(n)')
  <2>1. Opening(n)' = {}
    BY <1>1 DEF Opening
  <2>2. CASE n = value
    BY <1>4, <2>1, <2>2
  <2>3. CASE n # value
    <3>1. Shows(document, n, {}) /\ document'.members[n] = document.members[n]
      BY <1>1, <1>4, <2>3, ScanNow
    <3>2. \A j \in DOMAIN document.members[n] :
            Sealed(document', document.members[n][j]) = Sealed(document, document.members[n][j])
      BY <1>4 DEF Sealed
    <3>3. QED BY <2>1, <3>1, <3>2, ShowsSame
  <2>4. QED BY <2>2, <2>3
<1>6. \A i \in DOMAIN stack' : ~Fresh(i)'
  BY <1>1 DEF Fresh
<1>7. \A n \in DocNodes : HasSealed(document', n) => n # value /\ HasSealed(document, n)
  BY <1>4 DEF HasSealed
<1>8. \A i \in DOMAIN stack' :
        /\ stack'[i].value \in DocNodes
        /\ IF Fresh(i)' THEN stack'[i].at = Begin ELSE ~HasSealed(document', stack'[i].value)
  <2> SUFFICES ASSUME NEW i \in DOMAIN stack
               PROVE  stack[i].value \in DocNodes /\ ~HasSealed(document', stack[i].value)
    BY <1>1, <1>6
  <2>1. CASE i = 1
    BY <1>1, <1>4, <2>1, ScanNow
  <2>2. CASE i # 1
    <3>1. stack[i].value \in DocNodes /\ ~HasSealed(document, stack[i].value)
      BY <1>1, <2>2, ScanNow, DecryptNow DEF DecryptSteps
    <3>2. QED BY <1>7, <3>1
  <2>3. QED BY <2>1, <2>2
<1>9. ASSUME NEW n \in DocNodes, HasSealed(document', n)
      PROVE  \E i \in DOMAIN stack' : Visits(stack'[i], Fresh(i)', n)
  <2>1. PICK i \in DOMAIN stack : Visits(stack[i], Fresh(i), n)
    BY <1>1, <1>7, <1>9, DecryptNow DEF DecryptSteps
  <2>2. CASE i = 1
    <3>1. n \in Below(value) /\ n # value /\ value \in DocNodes /\ OriginalOK
      BY <1>1, <1>7, <1>9, <2>1, <2>2, ScanNow DEF Visits, SafetyInv
    <3>2. PICK k \in DOMAIN original[value] : n \in Below(original[value][k])
      BY <3>1, BelowSplit
    <3>3. Before(Begin, k)
      <4>1. original[value] \in MapsTo(DocNodes)
        BY <3>1 DEF OriginalOK
      <4>2. k \in Names
        BY <4>1, MapsToParts
      <4>3. QED BY <4>2, BeforeOrder
    <3>4. QED BY <1>1, <1>6, <3>2, <3>3, ScanNow DEF Visits
  <2>3. CASE i # 1
    BY <1>1, <1>6, <2>1, <2>3, ScanNow DEF Visits
  <2>4. QED BY <2>2, <2>3
<1>10. pc' \in DecryptSteps /\ document'.envelopes = stored.envelopes /\ ScanOK'
  BY <1>1, <1>4, DecryptNow DEF DecryptSteps, ScanOK
<1>11. QED BY <1>1, <1>5, <1>8, <1>9, <1>10, DecryptSafeStep

\* Where the loop over the members of a value has got to: the value is as it was
\* written.
LEMMA ChildrenNow ==
    ASSUME TypeInv, SafetyInv, ~EmptyPrefix, pc = "children", stack # << >>
    PROVE  /\ value \in DocNodes /\ OriginalOK /\ original[value] \in MapsTo(DocNodes)
           /\ members_of(document, value) = original[value]
           /\ \A i \in DOMAIN stack : ~Fresh(i)
           /\ \A n \in DocNodes : Opening(n) = {}
           /\ ~HasSealed(document, value)
           /\ Head(stack).at \in Names \cup {Begin}
<1>1. 1 \in DOMAIN stack /\ value = stack[1].value /\ Head(stack) = stack[1]
  BY Top
<1>2. /\ \A i \in DOMAIN stack : ~Fresh(i)
      /\ \A n \in DocNodes : Opening(n) = {}
  BY DEF Fresh, Opening
<1>3. value \in DocNodes /\ ~HasSealed(document, value) /\ OriginalOK
  BY <1>1, <1>2, DecryptNow DEF DecryptSteps
<1>4. Shows(document, value, {}) /\ document \in Stored
  BY <1>2, <1>3, DecryptNow DEF DecryptSteps, TypeInv, TypeOK
<1>5. document.members[value] = original[value]
  BY <1>3, <1>4, ShowsClear
<1>6. members_of(document, value) = original[value]
  BY <1>3, <1>5 DEF members_of
<1>7. Head(stack).at \in Names \cup {Begin}
  <2>1. stack \in Seq(Frames)
    BY DEF TypeInv, TypeOK
  <2>2. stack[1] \in Frames
    BY <1>1, <2>1
  <2>3. QED BY <1>1, <2>2 DEF Frames
<1>8. original[value] \in MapsTo(DocNodes)
  BY <1>3 DEF OriginalOK
<1>9. QED BY <1>2, <1>3, <1>6, <1>7, <1>8

\* Between two steps over the members nothing of the document changes.
LEMMA ChildrenStep ==
    ASSUME TypeInv, SafetyInv, ~EmptyPrefix, pc = "children", stack # << >>,
           UNCHANGED <<app_vars, document>>, pc' \in {"visit", "children"},
           \A i \in DOMAIN stack' :
             /\ stack'[i].value \in DocNodes
             /\ IF Fresh(i)' THEN stack'[i].at = Begin
                             ELSE ~HasSealed(document, stack'[i].value),
           \A n \in DocNodes, i \in DOMAIN stack :
             Visits(stack[i], FALSE, n) => \E j \in DOMAIN stack' : Visits(stack'[j], Fresh(j)', n)
    PROVE  SafetyInv'
<1>1. document'.envelopes = stored.envelopes
  BY DecryptNow DEF DecryptSteps
<1>2. \A n \in DocNodes : Opening(n) = {} /\ Opening(n)' = {}
  BY DEF Opening
<1>3. \A n \in DocNodes : Shows(document', n, Opening(n)')
  BY <1>2, DecryptNow DEF DecryptSteps
<1>4. ASSUME NEW n \in DocNodes, HasSealed(document', n)
      PROVE  \E i \in DOMAIN stack' : Visits(stack'[i], Fresh(i)', n)
  <2>1. PICK i \in DOMAIN stack : Visits(stack[i], Fresh(i), n)
    BY <1>4, DecryptNow DEF DecryptSteps
  <2>2. Visits(stack[i], FALSE, n)
    BY <2>1, ChildrenNow DEF Visits
  <2>3. QED BY <1>4, <2>2
<1>5. ScanOK'
  BY DEF ScanOK
<1>6. pc' \in DecryptSteps /\ document' = document /\ UNCHANGED app_vars
  BY DEF DecryptSteps
<1>7. QED BY <1>1, <1>3, <1>4, <1>5, <1>6, DecryptSafeStep

\* The recursive call: what is behind the member is handed to a new activation,
\* and what comes after it is kept by the old one.
LEMMA VisitChildSafe ==
    ASSUME TypeInv, SafetyInv, ~EmptyPrefix, VisitChild
    PROVE  SafetyInv'
<1>1. pc = "children" /\ stack # << >> /\ pc' = "visit" /\ UNCHANGED <<app_vars, document>>
  BY DEF VisitChild
<1>2. PICK k \in Following(DOMAIN original[value], stack[1].at) :
        stack' = <<[value |-> original[value][k], at |-> Begin],
                   [value |-> value, at |-> k]>> \o Tail(stack)
  BY <1>1, ChildrenNow, Top DEF VisitChild
<1>3. /\ k \in DOMAIN original[value] /\ k \in Names
      /\ \A j \in DOMAIN original[value] : Before(stack[1].at, j) => j = k \/ Before(k, j)
  <2>1. DOMAIN original[value] \in SUBSET Names /\ stack[1].at \in Names \cup {Begin}
    BY <1>1, ChildrenNow, MapsToParts, Top
  <2>2. QED BY <2>1, FollowingParts
<1>4. original[value][k] \in DocNodes
  BY <1>1, <1>3, ChildrenNow, MapsToParts
<1>5. /\ Len(stack) \in Nat \ {0} /\ DOMAIN stack = 1..Len(stack)
      /\ DOMAIN stack' = 1..(Len(stack) + 1)
      /\ stack'[1] = [value |-> original[value][k], at |-> Begin]
      /\ stack'[2] = [value |-> value, at |-> k]
      /\ \A i \in 2..Len(stack) : stack'[i + 1] = stack[i]
  <2> DEFINE two == <<[value |-> original[value][k], at |-> Begin], [value |-> value, at |-> k]>>
  <2>1. stack \in Seq(Frames) /\ Len(stack) \in Nat \ {0}
    BY <1>1, Top DEF TypeInv, TypeOK
  <2>2. Tail(stack) \in Seq(Frames) /\ Len(Tail(stack)) = Len(stack) - 1
    BY <1>1, <2>1
  <2>3. \A i \in 1..(Len(stack) - 1) : Tail(stack)[i] = stack[i + 1]
    BY <1>1, <2>1
  <2>4. two \in Seq([value : {original[value][k], value}, at : {Begin, k}]) /\ Len(two) = 2
    OBVIOUS
  <2>5. DOMAIN stack' = 1..(Len(stack) + 1)
    BY <1>2, <2>1, <2>2, <2>4
  <2>6. stack'[1] = two[1] /\ stack'[2] = two[2]
    BY <1>2, <2>1, <2>2, <2>4
  <2>7. \A i \in 2..Len(stack) : stack'[i + 1] = stack[i]
    <3>1. TAKE i \in 2..Len(stack)
    <3> HIDE DEF two
    <3>2. stack'[i + 1] = Tail(stack)[(i + 1) - 2]
      BY <1>2, <2>1, <2>2, <2>4 DEF two
    <3>3. Tail(stack)[i - 1] = stack[(i - 1) + 1]
      BY <2>1, <2>3
    <3>4. (i + 1) - 2 = i - 1 /\ (i - 1) + 1 = i
      BY <2>1
    <3>5. QED BY <3>2, <3>3, <3>4
  <2>8. QED BY <2>1, <2>5, <2>6, <2>7
<1>6. \A i \in DOMAIN stack' : Fresh(i)' <=> i = 1
  BY <1>1 DEF Fresh
<1>7. ASSUME NEW i \in DOMAIN stack'
      PROVE  /\ stack'[i].value \in DocNodes
             /\ IF Fresh(i)' THEN stack'[i].at = Begin
                             ELSE ~HasSealed(document, stack'[i].value)
  <2>1. CASE i = 1
    BY <1>4, <1>5, <1>6, <2>1
  <2>2. CASE i = 2
    BY <1>1, <1>5, <1>6, <2>2, ChildrenNow
  <2>3. CASE i # 1 /\ i # 2
    <3>1. i - 1 \in 2..Len(stack) /\ (i - 1) + 1 = i
      BY <1>5, <1>7, <2>3
    <3>2. stack'[i] = stack[i - 1] /\ i - 1 \in DOMAIN stack
      BY <1>5, <3>1
    <3>3. stack[i - 1].value \in DocNodes /\ ~HasSealed(document, stack[i - 1].value)
      BY <1>1, <3>2, ChildrenNow, DecryptNow DEF DecryptSteps
    <3>4. QED BY <1>6, <2>3, <3>2, <3>3
  <2>4. QED BY <2>1, <2>2, <2>3
<1>8. ASSUME NEW n \in DocNodes, NEW i \in DOMAIN stack, Visits(stack[i], FALSE, n)
      PROVE  \E j \in DOMAIN stack' : Visits(stack'[j], Fresh(j)', n)
  <2>1. 1 \in DOMAIN stack' /\ 2 \in DOMAIN stack'
    BY <1>5
  <2>2. CASE i = 1
    <3>1. PICK j \in DOMAIN original[value] :
            Before(stack[1].at, j) /\ n \in Below(original[value][j])
      BY <1>1, <1>8, <2>2, Top DEF Visits
    <3>2. CASE j = k
      BY <1>5, <1>6, <2>1, <3>1, <3>2 DEF Visits
    <3>3. CASE Before(k, j)
      BY <1>5, <1>6, <2>1, <3>1, <3>3 DEF Visits
    <3>4. QED BY <1>3, <3>1, <3>2, <3>3
  <2>3. CASE i # 1
    <3>1. i \in 2..Len(stack) /\ i + 1 \in DOMAIN stack' /\ i + 1 # 1
      BY <1>5, <2>3
    <3>2. stack'[i + 1] = stack[i]
      BY <1>5, <3>1
    <3>3. QED BY <1>6, <1>8, <3>1, <3>2 DEF Visits
  <2>4. QED BY <2>2, <2>3
<1>9. QED BY <1>1, <1>7, <1>8, ChildrenStep

\* An activation that has come to the end of its members has nothing left.
LEMMA LeaveSafe ==
    ASSUME TypeInv, SafetyInv, ~EmptyPrefix, Leave
    PROVE  SafetyInv'
<1>1. /\ pc = "children" /\ stack # << >> /\ pc' = "children"
      /\ UNCHANGED <<app_vars, document>> /\ stack' = Tail(stack)
  BY DEF Leave
<1>2. Following(DOMAIN original[value], stack[1].at) = {}
  BY <1>1, ChildrenNow, Top DEF Leave
<1>3. \A j \in DOMAIN original[value] : ~Before(stack[1].at, j)
  <2>1. DOMAIN original[value] \in SUBSET Names /\ stack[1].at \in Names \cup {Begin}
    BY <1>1, ChildrenNow, MapsToParts, Top
  <2>2. QED BY <1>2, <2>1, FollowingParts
<1>4. /\ Len(stack) \in Nat \ {0} /\ DOMAIN stack = 1..Len(stack)
      /\ DOMAIN stack' = 1..(Len(stack) - 1)
      /\ \A i \in 1..(Len(stack) - 1) : stack'[i] = stack[i + 1]
  <2>1. stack \in Seq(Frames)
    BY DEF TypeInv, TypeOK
  <2>2. QED BY <1>1, <2>1, Top
<1>5. \A i \in DOMAIN stack' : ~Fresh(i)'
  BY <1>1 DEF Fresh
<1>6. ASSUME NEW i \in DOMAIN stack'
      PROVE  /\ stack'[i].value \in DocNodes
             /\ IF Fresh(i)' THEN stack'[i].at = Begin
                             ELSE ~HasSealed(document, stack'[i].value)
  <2>1. i + 1 \in DOMAIN stack /\ stack'[i] = stack[i + 1]
    BY <1>4, <1>6
  <2>2. stack[i + 1].value \in DocNodes /\ ~HasSealed(document, stack[i + 1].value)
    BY <1>1, <2>1, ChildrenNow, DecryptNow DEF DecryptSteps
  <2>3. QED BY <1>5, <2>1, <2>2
<1>7. ASSUME NEW n \in DocNodes, NEW i \in DOMAIN stack, Visits(stack[i], FALSE, n)
      PROVE  \E j \in DOMAIN stack' : Visits(stack'[j], Fresh(j)', n)
  <2>1. i # 1
    BY <1>1, <1>3, <1>7, Top DEF Visits
  <2>2. i - 1 \in DOMAIN stack' /\ (i - 1) + 1 = i
    BY <1>4, <2>1
  <2>3. stack'[i - 1] = stack[i]
    BY <1>4, <2>2
  <2>4. QED BY <1>5, <1>7, <2>2, <2>3 DEF Visits
<1>8. QED BY <1>1, <1>6, <1>7, ChildrenStep

\* When the last activation is gone there is no envelope left, and the document
\* is the one that was written.
LEMMA FinishDecryptSafe ==
    ASSUME TypeInv, SafetyInv, ~EmptyPrefix, FinishDecrypt
    PROVE  returned' = original /\ SafetyInv'
<1>1. /\ pc = "children" /\ stack = << >> /\ returned' = document.members
      /\ stored' = stored /\ Return("decrypt", "none")
  BY DEF FinishDecrypt
<1>2. document \in Stored /\ OriginalOK
  BY DEF TypeInv, TypeOK, SafetyInv
<1>3. ASSUME NEW n \in DocNodes
      PROVE  document.members[n] = original[n]
  <2>1. ~HasSealed(document, n)
    <3>1. DOMAIN stack = {}
      BY <1>1
    <3>2. QED BY <1>1, <3>1, DecryptNow DEF DecryptSteps
  <2>2. Shows(document, n, Opening(n))
    BY <1>1, DecryptNow DEF DecryptSteps
  <2>3. QED BY <1>2, <2>1, <2>2, ShowsClear
<1>4. document.members = original
  <2>1. document.members \in [DocNodes -> Members] /\ original \in [DocNodes -> MapsTo(DocNodes)]
    BY <1>2 DEF Stored, OriginalOK
  <2>2. QED BY <1>3, <2>1
<1>5. original' = original
  BY <1>1 DEF Return
<1>6. returned' = original
  BY <1>1, <1>4
<1>7. AllMade(stored') /\ \A n \in DocNodes : Shows(stored', n, {})
  BY <1>1 DEF SafetyInv, StoredOK
<1>8. QED BY <1>1, <1>6, <1>7, ReturnSafe

\* The state of a call is not touched.
LEMMA QuietSafe ==
    ASSUME SafetyInv, UNCHANGED <<app_vars, pc, document, encrypt_vars, decrypt_vars>>
    PROVE  SafetyInv'
<1>1. OriginalOK' /\ StoredOK' /\ RoundTrip'
  BY AppStep
<1>2. /\ UNCHANGED <<kind, original, stored, pc, document, ordered_encrypted_fields, field,
                     blob, depth, stack, cursor, encrypted_keys>>
  BY DEF app_vars, encrypt_vars, decrypt_vars
<1>3. CASE pc \in EncryptSteps
  BY <1>2, <1>3, EncryptNow, EncryptSafeStep
<1>4. CASE pc \in DecryptSteps
  <2>1. value' = value /\ mangled_keys' = mangled_keys
    BY <1>2 DEF value, mangled_keys, members_of
  <2>2. ScanOK'
    BY <1>2, <2>1 DEF SafetyInv, ScanOK
  <2>3. \A n \in DocNodes : Opening(n)' = Opening(n)
    BY <1>2, <2>1 DEF Opening
  <2>4. \A i \in DOMAIN stack : Fresh(i)' <=> Fresh(i)
    BY <1>2 DEF Fresh
  <2>5. \A n \in DocNodes : Shows(document', n, Opening(n)')
    BY <1>2, <1>4, <2>3, DecryptNow
  <2>6. \A i \in DOMAIN stack' :
          /\ stack'[i].value \in DocNodes
          /\ IF Fresh(i)' THEN stack'[i].at = Begin ELSE ~HasSealed(document', stack'[i].value)
    BY <1>2, <1>4, <2>4, DecryptNow
  <2>7. ASSUME NEW n \in DocNodes, HasSealed(document', n)
        PROVE  \E i \in DOMAIN stack' : Visits(stack'[i], Fresh(i)', n)
    <3>1. PICK i \in DOMAIN stack : Visits(stack[i], Fresh(i), n)
      BY <1>2, <1>4, <2>7, DecryptNow
    <3>2. QED BY <1>2, <2>4, <3>1 DEF Visits
  <2>8. document'.envelopes = stored.envelopes
    BY <1>2, <1>4, DecryptNow
  <2>9. QED BY <1>2, <1>4, <2>2, <2>5, <2>6, <2>7, <2>8, DecryptSafeStep
<1>5. CASE pc \notin EncryptSteps \cup DecryptSteps
  <2>1. EncryptSafe' /\ DecryptSafe' /\ ScanOK'
    BY <1>2, <1>5 DEF EncryptSafe, DecryptSafe, ScanOK, DecryptSteps
  <2>2. QED BY <1>1, <2>1 DEF SafetyInv
<1>6. QED BY <1>3, <1>4, <1>5

\* At the start the stored document is the original itself.
LEMMA SafetyInvInit ==
    ASSUME PlainNames, Init
    PROVE  SafetyInv
<1>1. PICK d \in Documents : original = d.members
  BY DEF Init
<1>2. OriginalOK
  BY <1>1, TranscoderAssumption DEF OriginalOK, PlainNames
<1>3. /\ stored = [members |-> original, envelopes |-> << >>] /\ returned = Absent
      /\ pc = "idle"
  BY DEF Init
<1>4. stored.members = original /\ Len(stored.envelopes) = 0
  BY <1>3
<1>5. AllMade(stored)
  BY <1>4 DEF AllMade
<1>6. ASSUME NEW n \in DocNodes
      PROVE  Shows(stored, n, {})
  <2>1. \A k \in DOMAIN original[n] : ~is_mangled(k) /\ is_mangled(mangle(k))
    BY <1>2, OriginalParts DEF PlainNames
  <2>2. ~HasSealed(stored, n)
    BY <1>4, <2>1 DEF HasSealed
  <2>3. QED BY <1>4, <2>1, <2>2 DEF Shows
<1>7. EncryptSafe /\ DecryptSafe /\ ScanOK /\ RoundTrip
  BY <1>3 DEF EncryptSafe, DecryptSafe, ScanOK, RoundTrip, EncryptSteps, DecryptSteps
<1>8. QED BY <1>2, <1>5, <1>6, <1>7 DEF SafetyInv, StoredOK

\* Every action keeps the invariant.
LEMMA SafetyInvStep ==
    ASSUME PlainNames, TypeInv, SafetyInv, [Next]_vars
    PROVE  SafetyInv'
<1>1. ~EmptyPrefix
  BY DEF PlainNames
<1>2. CASE Call
  BY <1>2, DecryptCallSafe, EncryptCallSafe DEF Call
<1>3. CASE Step
  BY <1>1, <1>3, CheckRootSafe, BeginFieldSafe, DescendSafe, SealFieldSafe, FinishEncryptSafe,
     VisitSafe, OpenFieldSafe, EraseKeysSafe, VisitChildSafe, LeaveSafe, FinishDecryptSafe
     DEF Step
<1>4. CASE AddKey
  BY <1>4, QuietSafe DEF AddKey
<1>5. CASE UNCHANGED vars
  <2>1. UNCHANGED <<app_vars, pc, document, encrypt_vars, decrypt_vars>>
    BY <1>5 DEF vars
  <2>2. QED BY <2>1, QuietSafe
<1>6. QED BY <1>2, <1>3, <1>4, <1>5 DEF Next

-----------------------------------------------------------------------------
(* What follows from it.                                                   *)

\* Every call of decrypt that fails stands at an envelope whose decrypter does
\* not find the key it was made with.
LEMMA FailsOverLostKey ==
    ASSUME TypeInv, SafetyInv, OpenField, Returns("decrypt"), result'.err # "none"
    PROVE  \E i \in DOMAIN stored.envelopes : ~KeyKept(i)
<1> DEFINE v(k) == members_of(document, value)[k]
           node(k) == document.envelopes[v(k) - NodeCount]
<1>1. pc = "scan" /\ pc' # "scan"
  BY DEF OpenField, Returns
<1>2. PICK k \in Following(mangled_keys, cursor) :
        \/ ~is_object(v(k)) \/ v(k) \in DocNodes
        \/ manager_decrypt(node(k)).err # "none"
  BY <1>1 DEF OpenField
<1>3. k \in mangled_keys
  BY DEF Following
<1>4. /\ v(k) \notin DocNodes /\ is_object(v(k))
      /\ v(k) - NodeCount \in DOMAIN stored.envelopes
      /\ node(k) = stored.envelopes[v(k) - NodeCount] /\ Made(node(k))
  BY <1>1, <1>3, EnvelopeNow
<1>5. manager_decrypt(node(k)).err # "none"
  BY <1>2, <1>4
<1>6. ManagerTypeOK
  BY DEF TypeInv, TypeOK
<1> HIDE DEF v, node
<1>7. ~(/\ algorithm_to_decrypter[node(k).alg] # Absent
        /\ keys[algorithm_to_decrypter[node(k).alg]][node(k).kid] = node(k).ciphertext.key)
  BY <1>4, <1>5, <1>6, MadeOpens
<1>8. ~KeyKept(v(k) - NodeCount)
  BY <1>4, <1>7 DEF KeyKept
<1>9. QED BY <1>4, <1>8

\* Only OpenField makes decrypt fail.
LEMMA DecryptFailsInOpenField ==
    ASSUME [Next]_vars, Returns("decrypt"), result'.err # "none"
    PROVE  OpenField
<1>1. pc # "idle" /\ pc' = "idle" /\ result'.call = "decrypt"
  BY DEF Returns
<1>2. ASSUME NEW call, NEW err, Fail(call, err) \/ Return(call, err)
      PROVE  call = "decrypt" /\ err # "none"
  BY <1>1, <1>2 DEF Fail, Return
<1>3. ~CheckRoot /\ ~BeginField
  BY <1>1, <1>2 DEF CheckRoot, BeginField
<1>4. ~Descend
  BY <1>1, <1>2 DEF Descend
<1>5. ~SealField
  BY <1>1, <1>2 DEF SealField
<1>6. ~FinishEncrypt /\ ~FinishDecrypt
  BY <1>2 DEF FinishEncrypt, FinishDecrypt
<1>7. ~Visit /\ ~EraseKeys /\ ~VisitChild /\ ~Leave
  BY <1>1 DEF Visit, EraseKeys, VisitChild, Leave
<1>8. ~Call /\ ~AddKey /\ ~UNCHANGED vars
  BY <1>1 DEF Call, decrypt, encrypt, AddKey, vars
<1>9. QED BY <1>3, <1>4, <1>5, <1>6, <1>7, <1>8 DEF Next, Step

\* Opened, what a document shows is the original.
LEMMA UnsealedOriginal ==
    ASSUME OriginalOK, ~EmptyPrefix, NEW d \in Stored, NEW n \in DocNodes, Shows(d, n, {})
    PROVE  Unsealed(d, n) = original[n]
<1> DEFINE m == d.members[n]
           envelopes == {k \in DOMAIN m : m[k] \notin DocNodes /\ is_mangled(k)}
           D == (DOMAIN m \ envelopes) \cup {demangle(s) : s \in envelopes}
<1>1. \A k \in DOMAIN m :
         \/ /\ ~is_mangled(k) /\ k \in DOMAIN original[n] /\ m[k] = original[n][k]
         \/ /\ is_mangled(k) /\ demangle(k) \in DOMAIN original[n] /\ m[k] \notin DocNodes
            /\ Sealed(d, m[k]) = original[n][demangle(k)]
  BY DEF Shows
<1>2. \A k \in DOMAIN original[n] : k \in DOMAIN m <=> mangle(k) \notin DOMAIN m
  BY DEF Shows
<1>3. \A k \in DOMAIN original[n] :
        ~is_mangled(k) /\ is_mangled(mangle(k)) /\ demangle(mangle(k)) = k
  BY OriginalParts
<1> HIDE DEF m
<1>4. envelopes = {k \in DOMAIN m : is_mangled(k)}
  BY <1>1
<1>5. \A k \in DOMAIN original[n] : k \in DOMAIN m \/ mangle(k) \in envelopes
  BY <1>2, <1>3, <1>4
<1>6. D = DOMAIN original[n]
  <2>1. \A k \in D : k \in DOMAIN original[n]
    BY <1>1, <1>4
  <2>2. \A k \in DOMAIN original[n] : k \in D
    BY <1>3, <1>4, <1>5
  <2>3. QED BY <2>1, <2>2
<1>7. ASSUME NEW k \in DOMAIN original[n]
      PROVE  (IF mangle(k) \in envelopes THEN Sealed(d, m[mangle(k)]) ELSE m[k]) = original[n][k]
  <2>1. CASE mangle(k) \in envelopes
    BY <1>1, <1>3, <1>4, <2>1
  <2>2. CASE mangle(k) \notin envelopes
    <3>1. k \in DOMAIN m /\ ~is_mangled(k)
      BY <1>3, <1>5, <2>2
    <3>2. QED BY <1>1, <2>2, <3>1
  <2>3. QED BY <2>1, <2>2
<1>8. Unsealed(d, n) =
        [k \in D |-> IF mangle(k) \in envelopes THEN Sealed(d, m[mangle(k)]) ELSE m[k]]
  BY DEF Unsealed, m
<1>9. original[n] = [k \in DOMAIN original[n] |-> original[n][k]]
  <2>1. original[n] \in MapsTo(DocNodes)
    BY DEF OriginalOK
  <2>2. QED BY <2>1, MapsToParts
<1> HIDE DEF D, envelopes
<1>10. QED BY <1>6, <1>7, <1>8, <1>9

\* The values in its envelopes are those of the members with mangled names.
LEMMA SealedValuesParts ==
    ASSUME OriginalOK, NEW d \in Stored, \A n \in DocNodes : Shows(d, n, {})
    PROVE  /\ SealedValues(d) \subseteq DocNodes
           /\ \A x : x \in SealedValues(d) <=>
                \E n \in DocNodes : \E k \in DOMAIN d.members[n] :
                  is_mangled(k) /\ x = original[n][demangle(k)]
<1>1. ASSUME NEW n \in DocNodes, NEW k \in DOMAIN d.members[n]
      PROVE  \/ ~is_mangled(k) /\ d.members[n][k] \in DocNodes
             \/ /\ is_mangled(k) /\ d.members[n][k] \notin DocNodes
                /\ Sealed(d, d.members[n][k]) = original[n][demangle(k)]
                /\ original[n][demangle(k)] \in DocNodes
  <2>1. original[n] \in MapsTo(DocNodes)
    BY DEF OriginalOK
  <2>2. \A j \in DOMAIN original[n] : original[n][j] \in DocNodes
    BY <2>1, MapsToParts
  <2>3. QED BY <1>1, <2>2 DEF Shows
<1>2. \A x : x \in SealedValues(d) <=>
        \E n \in DocNodes : \E k \in DOMAIN d.members[n] :
          d.members[n][k] \notin DocNodes /\ x = Sealed(d, d.members[n][k])
  BY DEF SealedValues, Range
<1>3. QED BY <1>1, <1>2

\* The initial states are the abstract specification's, with nothing hidden.
LEMMA PromiseInit ==
    ASSUME PlainNames, TypeInv, SafetyInv, Init
    PROVE  Promise!Init
<1>1. PICK d \in Documents : original = d.members
  BY DEF Init
<1>2. stored = [members |-> original, envelopes |-> << >>] /\ returned = Absent
  BY DEF Init
<1>3. /\ OriginalOK /\ stored \in Stored /\ ~EmptyPrefix
      /\ \A n \in DocNodes : Shows(stored, n, {})
  BY DEF SafetyInv, StoredOK, TypeInv, TypeOK, PlainNames
<1>4. [n \in DocNodes |-> Unsealed(stored, n)] = original
  <2>1. \A n \in DocNodes : Unsealed(stored, n) = original[n]
    BY <1>3, UnsealedOriginal
  <2>2. original = [n \in DocNodes |-> original[n]]
    BY <1>3 DEF OriginalOK
  <2>3. QED BY <2>1, <2>2
<1>5. SealedValues(stored) = {}
  <2>1. \A n \in DocNodes : \A k \in DOMAIN stored.members[n] : ~is_mangled(k)
    BY <1>2, <1>3 DEF OriginalOK
  <2>2. QED BY <1>3, <2>1, SealedValuesParts
<1>6. QED BY <1>1, <1>2, <1>4, <1>5 DEF Promise!Init

\* A step that leaves what is stored and returned is none of the abstract one.
LEMMA PromiseStutter ==
    ASSUME stored' = stored, returned' = returned
    PROVE  UNCHANGED Promise!vars
  BY DEF Promise!vars, Unsealed, SealedValues, Sealed

\* FinishEncrypt hides what is in the envelopes it made.
LEMMA PromiseEncode ==
    ASSUME PlainNames, TypeInv, SafetyInv, FinishEncrypt, TypeInv', SafetyInv'
    PROVE  Promise!Next
<1> DEFINE T == SealedValues(stored')
<1>1. pc \in EncryptSteps /\ stored' = document /\ returned' = returned /\ original' = original
  BY DEF FinishEncrypt, Return, EncryptSteps
<1>2. /\ OriginalOK /\ ~EmptyPrefix
      /\ stored \in Stored /\ \A n \in DocNodes : Shows(stored, n, {})
      /\ document \in Stored /\ \A n \in DocNodes : Shows(document, n, {})
  BY <1>1, EncryptNow DEF SafetyInv, StoredOK, TypeInv, TypeOK, PlainNames
<1>3. \A n \in DocNodes : /\ Unsealed(stored, n) = original[n]
                          /\ Unsealed(stored, n)' = original[n]
  <2>1. \A n \in DocNodes : /\ Unsealed(stored, n) = original[n]
                            /\ Unsealed(document, n) = original[n]
    BY <1>2, UnsealedOriginal
  <2>2. \A n \in DocNodes : Unsealed(stored, n)' = Unsealed(document, n)
    BY <1>1 DEF Unsealed, Sealed
  <2>3. QED BY <2>1, <2>2
<1>4. SealedValues(stored)' = SealedValues(document)
  BY <1>1 DEF SealedValues, Sealed
<1>5. SealedValues(document) \subseteq DocNodes
  BY <1>2, SealedValuesParts
<1>6. SealedValues(stored) \subseteq SealedValues(document)
  <2> SUFFICES ASSUME NEW x \in SealedValues(stored) PROVE x \in SealedValues(document)
    OBVIOUS
  <2>1. PICK n \in DocNodes : \E k \in DOMAIN stored.members[n] :
          is_mangled(k) /\ x = original[n][demangle(k)]
    BY <1>2, SealedValuesParts
  <2>2. PICK k \in DOMAIN stored.members[n] : is_mangled(k) /\ x = original[n][demangle(k)]
    BY <2>1
  <2>3. k \in DOMAIN document.members[n]
    BY <1>1, <2>2, EncryptNow
  <2>4. QED BY <1>2, <2>2, <2>3, SealedValuesParts
<1>7. Promise!Encode(SealedValues(document))
  BY <1>1, <1>3, <1>4, <1>6 DEF Promise!Encode
<1>8. QED BY <1>5, <1>7 DEF Promise!Next

\* FinishDecrypt returns the document that is shown.
LEMMA PromiseDecode ==
    ASSUME PlainNames, TypeInv, SafetyInv, FinishDecrypt
    PROVE  Promise!Next
<1>1. stored' = stored /\ returned' = original
  BY FinishDecryptSafe DEF FinishDecrypt, PlainNames
<1>2. \A n \in DocNodes : Unsealed(stored, n) = original[n]
  BY UnsealedOriginal DEF SafetyInv, StoredOK, TypeInv, TypeOK, PlainNames
<1>3. original = [n \in DocNodes |-> original[n]]
  BY DEF SafetyInv, OriginalOK
<1>4. \A n \in DocNodes : Unsealed(stored, n)' = Unsealed(stored, n)
  BY <1>1 DEF Unsealed, Sealed
<1>5. SealedValues(stored)' = SealedValues(stored)
  BY <1>1 DEF SealedValues, Sealed
<1>6. Promise!Decode
  BY <1>1, <1>2, <1>3, <1>4, <1>5 DEF Promise!Decode
<1>7. QED BY <1>6 DEF Promise!Next

\* Every step of the transcoder is one of the abstract specification or none.
LEMMA PromiseStep ==
    ASSUME PlainNames, TypeInv, SafetyInv, [Next]_vars, TypeInv', SafetyInv'
    PROVE  [Promise!Next]_(Promise!vars)
<1>1. CASE FinishEncrypt
  BY <1>1, PromiseEncode
<1>2. CASE FinishDecrypt
  BY <1>2, PromiseDecode
<1>3. CASE ~FinishEncrypt /\ ~FinishDecrypt
  <2>1. CASE UNCHANGED app_vars
    BY <2>1, PromiseStutter DEF app_vars
  <2>2. ASSUME NEW call, NEW err, Fail(call, err)
        PROVE  UNCHANGED Promise!vars
    BY <2>2, PromiseStutter DEF Fail
  <2>3. CASE Call \/ AddKey \/ UNCHANGED vars
    BY <2>1, <2>3 DEF Call, encrypt, decrypt, AddKey, vars
  <2>4. CASE CheckRoot \/ BeginField
    BY <2>1, <2>2, <2>4 DEF CheckRoot, BeginField
  <2>5. CASE Descend
    BY <2>1, <2>2, <2>5 DEF Descend
  <2>6. CASE SealField
    BY <2>1, <2>2, <2>6 DEF SealField
  <2>7. CASE OpenField
    BY <2>1, <2>2, <2>7 DEF OpenField
  <2>8. CASE Visit \/ EraseKeys \/ VisitChild \/ Leave
    BY <2>1, <2>8 DEF Visit, EraseKeys, VisitChild, Leave
  <2>9. QED BY <1>3, <2>3, <2>4, <2>5, <2>6, <2>7, <2>8 DEF Next, Step
<1>4. QED BY <1>1, <1>2, <1>3

-----------------------------------------------------------------------------
(* The theorems.                                                           *)

\* Through every interleaving of the steps of encrypt and decrypt with the
\* replacement of keys, every document that is kept or worked on shows the
\* original: what decrypt_top_level_object_fields still has to open is ahead of
\* one of its iterators, and what it has opened is behind.
THEOREM TranscoderSafety == ASSUME PlainNames PROVE Spec => []SafetyInv
<1>1. Init => SafetyInv
  BY SafetyInvInit
<1>2. TypeInv /\ SafetyInv /\ [Next]_vars => SafetyInv'
  BY SafetyInvStep
<1>3. QED BY <1>1, <1>2, TranscoderInvariant, PTL DEF Spec

\* Encrypting loses nothing and doubles nothing (transcoder.cxx erases the
\* member it has sealed, and puts the envelope under the mangled name).
THEOREM TranscoderLosesNothing == ASSUME PlainNames PROVE Spec => []NothingLost
<1>1. TypeInv /\ SafetyInv => NothingLost
  <2> SUFFICES ASSUME TypeInv, SafetyInv, NEW n \in DocNodes
               PROVE  /\ \A k \in DOMAIN original[n] : Holds(stored, n, k, original[n][k])
                      /\ DOMAIN stored.members[n] \subseteq
                           UNION {{k, mangle(k)} : k \in DOMAIN original[n]}
    BY DEF NothingLost
  <2>1. /\ OriginalOK /\ ~EmptyPrefix /\ stored \in Stored /\ Shows(stored, n, {})
    BY DEF SafetyInv, StoredOK, TypeInv, TypeOK, PlainNames
  <2>2. ASSUME NEW k \in DOMAIN original[n]
        PROVE  Holds(stored, n, k, original[n][k])
    <3>1. ~is_mangled(k) /\ is_mangled(mangle(k)) /\ demangle(mangle(k)) = k
      BY <2>1, OriginalParts
    <3>2. k \in DOMAIN stored.members[n] <=> mangle(k) \notin DOMAIN stored.members[n]
      BY <2>1 DEF Shows
    <3>3. CASE k \in DOMAIN stored.members[n]
      <4>1. stored.members[n][k] = original[n][k]
        BY <2>1, <3>1, <3>3 DEF Shows
      <4>2. QED BY <3>2, <3>3, <4>1 DEF Holds, SealedAs
    <3>4. CASE mangle(k) \in DOMAIN stored.members[n]
      <4>1. /\ stored.members[n][mangle(k)] \notin DocNodes
            /\ Sealed(stored, stored.members[n][mangle(k)]) = original[n][k]
        BY <2>1, <3>1, <3>4 DEF Shows
      <4>2. QED BY <3>2, <3>4, <4>1 DEF Holds, SealedAs
    <3>5. QED BY <3>2, <3>3, <3>4
  <2>3. ASSUME NEW j \in DOMAIN stored.members[n]
        PROVE  \E k \in DOMAIN original[n] : j \in {k, mangle(k)}
    <3>1. j \in Names
      BY <2>1, StoredParts
    <3>2. mangle(demangle(j)) = j
      BY <2>1, <3>1, PrefixParts
    <3>3. j \in DOMAIN original[n] \/ demangle(j) \in DOMAIN original[n]
      BY <2>1 DEF Shows
    <3>4. QED BY <3>2, <3>3
  <2>4. QED BY <2>2, <2>3
<1>2. QED BY <1>1, TranscoderInvariant, TranscoderSafety, PTL

\* What decrypt returns is the document the application wrote, whatever encrypt
\* has sealed of it, in however many calls, and whichever keys were replaced.
THEOREM TranscoderRoundTrip == ASSUME PlainNames PROVE Spec => []RoundTrip
<1>1. SafetyInv => RoundTrip
  BY DEF SafetyInv
<1>2. QED BY <1>1, TranscoderSafety, PTL

\* decrypt fails only over an envelope whose key has been replaced or whose
\* decrypter is missing: never because of what encrypt wrote, nor of the order in
\* which it meets the envelopes.
THEOREM TranscoderFailsOnlyOverLostKeys ==
    ASSUME PlainNames PROVE Spec => FailsOnlyOverLostKeys
<1>1. TypeInv /\ SafetyInv /\ [Next]_vars =>
        [Returns("decrypt") /\ result'.err # "none" =>
           \E i \in DOMAIN stored.envelopes : ~KeyKept(i)]_vars
  BY FailsOverLostKey, DecryptFailsInOpenField
<1>2. QED BY <1>1, TranscoderInvariant, TranscoderSafety, PTL DEF Spec, FailsOnlyOverLostKeys

\* Seen from the application, the transcoder is the document of SealedDocument:
\* encrypt hides more of it, decrypt returns all of it, and no other step of
\* theirs, no failure and no replaced key does anything to it.
THEOREM TranscoderImplementsSealedDocument ==
    ASSUME PlainNames PROVE Spec => ImplementsSealedDocument
<1>1. TypeInv /\ SafetyInv /\ Init => Promise!Init
  BY PromiseInit
<1>2. TypeInv /\ SafetyInv /\ [Next]_vars /\ TypeInv' /\ SafetyInv' =>
        [Promise!Next]_(Promise!vars)
  BY PromiseStep
<1>3. QED BY <1>1, <1>2, TranscoderInvariant, TranscoderSafety, PTL
          DEF Spec, ImplementsSealedDocument, Promise!Spec

-----------------------------------------------------------------------------
(* The fields that encrypt seals: from here on, that it seals exactly those  *)
(* that are listed, and refuses a list exactly when it cannot be met.      *)

ListPath(i) == ordered_encrypted_fields[i].path

\* What the turns of the loop before this one have sealed.
Done == {Resolve(stored, ListPath(i)) : i \in 1..(field - 1)}

\* d is the stored document, less the members with values of T.
Remains(d, T) ==
    \A n \in DocNodes : \A k \in DOMAIN stored.members[n] :
        IF is_mangled(k) THEN d.members[n][k] = stored.members[n][k]
        ELSE k \in DOMAIN d.members[n] <=> stored.members[n][k] \notin T

\* The fields before this one were good, and are what is sealed in the working
\* copy and not in the stored document; the pointer into the copy is where the
\* path leads in the stored document.
ListInv ==
    /\ IsTree(original)
    /\ pc \in EncryptSteps =>
         /\ \A i, j \in DOMAIN ordered_encrypted_fields :
              i < j => Len(ListPath(i)) >= Len(ListPath(j))
         /\ \A i \in 1..(field - 1) :
              /\ ListPath(i) # << >> /\ Resolve(stored, ListPath(i)) # 0
              /\ \A j \in 1..(field - 1) : ListPath(i) = ListPath(j) => i = j
         /\ Remains(document, Done)
         /\ pc = "parsed" => field = 1
         /\ pc = "walk" => path # << >> /\ blob = Trace(stored, path)[depth - 1]

-----------------------------------------------------------------------------
(* Paths through a document.                                               *)

IsPlain(p) == p \in Paths /\ \A i \in DOMAIN p : ~is_mangled(p[i])

\* A step of the walk that leads to something leads from an object to a member
\* that the original has there.
LEMMA TraceMember ==
    ASSUME OriginalOK, NEW d \in Stored, \A n \in DocNodes : Shows(d, n, {}),
           NEW p, IsPlain(p), NEW i \in 1..Len(p), Trace(d, p)[i] # 0
    PROVE  LET n == Trace(d, p)[i - 1]
           IN  /\ n \in DocNodes /\ kind[n] = "object"
               /\ p[i] \in DOMAIN d.members[n] /\ Trace(d, p)[i] = d.members[n][p[i]]
               /\ p[i] \in DOMAIN original[n] /\ Trace(d, p)[i] = original[n][p[i]]
               /\ Trace(d, p)[i] \in DocNodes
<1> DEFINE n == Trace(d, p)[i - 1]
           v == Trace(d, p)[i]
<1>1. p \in Paths /\ ~is_mangled(p[i])
  BY DEF IsPlain, Paths
<1>2. v = Into(d, n, p[i])
  BY <1>1, TraceParts
<1> HIDE DEF n, v
<1>3. /\ is_object(n) /\ p[i] \in DOMAIN members_of(d, n) /\ v = members_of(d, n)[p[i]]
  BY <1>2 DEF Into, v
<1>4. n \in DocNodes
  BY <1>3 DEF members_of, NoMembers
<1>5. kind[n] = "object" /\ p[i] \in DOMAIN d.members[n] /\ v = d.members[n][p[i]]
  BY <1>3, <1>4 DEF is_object, members_of
<1>6. p[i] \in DOMAIN original[n] /\ v = original[n][p[i]]
  BY <1>1, <1>4, <1>5 DEF Shows
<1>7. v \in DocNodes
  <2>1. original[n] \in MapsTo(DocNodes)
    BY <1>4 DEF OriginalOK
  <2>2. QED BY <1>6, <2>1, MapsToParts
<1>8. QED BY <1>4, <1>5, <1>6, <1>7 DEF n, v

\* Two paths to one value are one path.
LEMMA SamePath ==
    ASSUME OriginalOK, IsTree(original),
           NEW d \in Stored, \A n \in DocNodes : Shows(d, n, {}),
           NEW p, IsPlain(p), NEW q, IsPlain(q),
           NEW i \in 0..Len(p), NEW j \in 0..Len(q),
           Trace(d, p)[i] = Trace(d, q)[j], Trace(d, p)[i] # 0
    PROVE  i = j /\ \A l \in 1..i : p[l] = q[l]
<1> DEFINE f == Trace(d, p)
           g == Trace(d, q)
           Same(a) == \A b \in 0..Len(q) :
                        f[a] = g[b] /\ f[a] # 0 => a = b /\ \A l \in 1..a : p[l] = q[l]
           S == {a \in 0..Len(p) : ~Same(a)}
<1>1. /\ p \in Paths /\ q \in Paths /\ Len(p) \in Nat /\ Len(q) \in Nat
      /\ f[0] = Root /\ g[0] = Root
  BY TraceParts DEF IsPlain
<1>2. SUFFICES ASSUME S # {} PROVE FALSE
  OBVIOUS
<1>3. PICK a \in S : \A b \in S : a <= b
  <2>1. S \in SUBSET Nat
    BY <1>1
  <2> HIDE DEF S
  <2>2. QED BY <1>2, <2>1, LeastNat
<1>4. PICK b \in 0..Len(q) : f[a] = g[b] /\ f[a] # 0 /\ ~(a = b /\ \A l \in 1..a : p[l] = q[l])
  BY <1>3
<1>5. a \in 0..Len(p) /\ a \in Nat /\ b \in Nat
  BY <1>1, <1>3
<1>6. ASSUME NEW m \in DocNodes, NEW k \in DOMAIN original[m]
      PROVE  original[m][k] # Root
  BY <1>6 DEF IsTree
<1>7. CASE a = 0
  <2>1. CASE b = 0
    BY <1>4, <1>7, <2>1
  <2>2. CASE b # 0
    <3>1. b \in 1..Len(q)
      BY <1>5, <2>2
    <3>2. g[b - 1] \in DocNodes /\ q[b] \in DOMAIN original[g[b - 1]]
          /\ g[b] = original[g[b - 1]][q[b]]
      <4> HIDE DEF S
      <4>1. QED BY <1>4, <3>1, TraceMember
    <3>3. QED BY <1>1, <1>4, <1>6, <1>7, <3>2
  <2>3. QED BY <2>1, <2>2
<1>8. CASE a # 0
  <2>1. a \in 1..Len(p) /\ a - 1 \in 0..Len(p)
    BY <1>1, <1>5, <1>8
  <2>2. /\ f[a - 1] \in DocNodes /\ p[a] \in DOMAIN original[f[a - 1]]
        /\ f[a] = original[f[a - 1]][p[a]]
    <3> HIDE DEF S
    <3>1. QED BY <1>4, <2>1, TraceMember
  <2>3. b # 0
    BY <1>1, <1>4, <1>6, <2>2
  <2>4. b \in 1..Len(q) /\ b - 1 \in 0..Len(q)
    BY <1>1, <1>5, <2>3
  <2>5. /\ g[b - 1] \in DocNodes /\ q[b] \in DOMAIN original[g[b - 1]]
        /\ g[b] = original[g[b - 1]][q[b]]
    <3> HIDE DEF S
    <3>1. QED BY <1>4, <2>4, TraceMember
  <2>6. f[a - 1] = g[b - 1] /\ p[a] = q[b]
    <3>1. \A m, n \in DocNodes : \A k \in DOMAIN original[m], h \in DOMAIN original[n] :
            original[m][k] = original[n][h] => m = n /\ k = h
      BY DEF IsTree
    <3>2. original[f[a - 1]][p[a]] = original[g[b - 1]][q[b]]
      BY <1>4, <2>2, <2>5
    <3> HIDE DEF S, f, g
    <3>3. QED BY <2>2, <2>5, <3>1, <3>2
  <2>7. f[a - 1] # 0
    BY <2>2 DEF DocNodes
  <2>8. a - 1 \notin S
    BY <1>3, <1>5
  <2>9. Same(a - 1)
    BY <2>1, <2>8
  <2>10. a - 1 = b - 1 /\ \A l \in 1..(a - 1) : p[l] = q[l]
    BY <2>4, <2>6, <2>7, <2>9
  <2>11. a = b
    BY <1>5, <2>10
  <2>12. \A l \in 1..a : p[l] = q[l]
    BY <1>5, <2>6, <2>10, <2>11
  <2>13. QED BY <1>4, <2>11, <2>12
<1>9. QED BY <1>7, <1>8

\* Neither kinds nor the stored document change while encrypt runs, and paths
\* lead where they led.
LEMMA TraceSame ==
    ASSUME NEW p \in Paths, kind' = kind, stored' = stored
    PROVE  /\ Resolve(stored, p)' = Resolve(stored, p)
           /\ Trace(stored, p)' = Trace(stored, p)
<1> DEFINE f == Trace(stored, p)
<1>1. Len(p) \in Nat
  BY DEF Paths
<1>2. Walk(stored, p, Len(p), f)
  BY <1>1, WalkExists DEF Trace
<1>3. \A g : Walk(stored, p, Len(p), g) <=> g = f
  BY <1>1, <1>2, WalkUnique
<1>4. ASSUME NEW g
      PROVE  Walk(stored, p, Len(p), g)' <=> Walk(stored, p, Len(p), g)
  BY DEF Walk, Into, is_object, members_of
<1> HIDE DEF f
<1>5. \A g : Walk(stored, p, Len(p), g)' <=> g = f
  BY <1>3, <1>4
<1>6. Trace(stored, p)' = f
  BY <1>5 DEF Trace
<1>7. \A g : g = f <=>
        g = [i \in 0..Len(p) |-> IF i = 0 THEN Root ELSE Into(stored, g[i - 1], p[i])']
  BY <1>5 DEF Walk
<1>8. Resolve(stored, p)' = f[Len(p)]
  BY <1>7 DEF Resolve, Into
<1>9. Resolve(stored, p) = f[Len(p)]
  BY TraceParts DEF f
<1>10. QED BY <1>6, <1>8, <1>9 DEF f

-----------------------------------------------------------------------------
(* What ListInv says of a step of encrypt.                                 *)

\* The fields up to this one are in the list.
LEMMA ListNow ==
    ASSUME TypeInv, pc \in EncryptSteps
    PROVE  /\ field \in Nat \ {0} /\ Len(ordered_encrypted_fields) \in Nat
           /\ field <= Len(ordered_encrypted_fields) + 1
           /\ DOMAIN ordered_encrypted_fields = 1..Len(ordered_encrypted_fields)
           /\ \A i \in DOMAIN ordered_encrypted_fields : ListPath(i) \in Paths
           /\ 1..(field - 1) \subseteq DOMAIN ordered_encrypted_fields
           /\ path = ListPath(field)
<1>1. /\ ordered_encrypted_fields \in Seq(EncryptedFields) /\ field \in Nat \ {0}
      /\ field <= Len(ordered_encrypted_fields) + 1
  BY DEF TypeInv, TypeOK, EncryptOK
<1>2. \A i \in DOMAIN ordered_encrypted_fields : ordered_encrypted_fields[i] \in EncryptedFields
  BY <1>1
<1>3. \A i \in DOMAIN ordered_encrypted_fields : ListPath(i) \in Paths
  BY <1>2 DEF EncryptedFields, ListPath
<1>4. QED BY <1>1, <1>3 DEF path, ListPath

\* The names of the paths are plain.
LEMMA ListPlain ==
    ASSUME TypeInv, SafetyInv, pc \in EncryptSteps, NEW i \in DOMAIN ordered_encrypted_fields
    PROVE  IsPlain(ListPath(i))
  BY ListNow, EncryptNow DEF IsPlain, ListPath

\* A step that leaves the list, the document and the place in the list.
LEMMA ListKept ==
    ASSUME TypeInv, ListInv, pc \in EncryptSteps,
           UNCHANGED <<kind, original, stored, document, ordered_encrypted_fields, field>>,
           pc' = "parsed" => pc = "parsed",
           pc' = "walk" => path # << >> /\ blob' = Trace(stored, path)[depth' - 1]
                           /\ field \in DOMAIN ordered_encrypted_fields
    PROVE  ListInv'
<1>1. \A i \in 1..(field - 1) : Resolve(stored, ListPath(i))' = Resolve(stored, ListPath(i))
  <2>1. TAKE i \in 1..(field - 1)
  <2>2. ListPath(i) \in Paths /\ ListPath(i)' = ListPath(i)
    BY ListNow DEF ListPath
  <2>3. QED BY <2>2, TraceSame
<1>2. Done' = Done
  BY <1>1 DEF Done, ListPath
<1>3. Remains(document, Done)' = Remains(document, Done)
  BY <1>2 DEF Remains
<1>4. IsTree(original)'
  BY DEF ListInv, IsTree
<1>5. ASSUME pc' = "walk"
      PROVE  path' # << >> /\ blob' = Trace(stored, path)'[depth' - 1]
  <2>1. path \in Paths /\ path' = path
    BY <1>5, ListNow DEF path
  <2>2. Trace(stored, path)' = Trace(stored, path)
    BY <2>1, TraceSame
  <2>3. QED BY <1>5, <2>1, <2>2
<1>6. \A i, j \in DOMAIN ordered_encrypted_fields' :
        i < j => Len(ListPath(i)') >= Len(ListPath(j)')
  BY DEF ListInv, ListPath
<1>7. \A i \in 1..(field' - 1) :
        /\ ListPath(i)' # << >> /\ Resolve(stored, ListPath(i))' # 0
        /\ \A j \in 1..(field' - 1) : ListPath(i)' = ListPath(j)' => i = j
  BY <1>1 DEF ListInv, ListPath
<1>8. QED BY <1>3, <1>4, <1>5, <1>6, <1>7 DEF ListInv

\* A step that ends in no step of encrypt.
LEMMA ListOver ==
    ASSUME ListInv, original' = original, pc' \notin EncryptSteps
    PROVE  ListInv'
  BY DEF ListInv, IsTree

\* Entering encrypt.
LEMMA EncryptCallList ==
    ASSUME TypeInv, SafetyInv, ListInv, NEW fields \in FieldLists, encrypt(fields)
    PROVE  ListInv'
<1>1. /\ pc = "idle" /\ pc' = "parsed" /\ ordered_encrypted_fields' \in sort(fields)
      /\ UNCHANGED <<kind, original, stored, document, field>>
  BY DEF encrypt, app_vars
<1>2. document' = stored /\ field' = 1
  BY <1>1 DEF TypeInv, IdleOK
<1>3. \A i, j \in DOMAIN ordered_encrypted_fields' :
        i < j => Len(ListPath(i)') >= Len(ListPath(j)')
  <2>1. DOMAIN ordered_encrypted_fields' = DOMAIN fields
    BY <1>1, SortParts
  <2>2. \A i, j \in DOMAIN fields : i < j =>
          Len(ordered_encrypted_fields'[i].path) >= Len(ordered_encrypted_fields'[j].path)
    BY <1>1 DEF sort
  <2>3. QED BY <2>1, <2>2 DEF ListPath
<1>4. 1..(field' - 1) = {}
  BY <1>2
<1>5. Done' = {}
  BY <1>4 DEF Done
<1>6. Remains(document, Done)'
  <2>1. \A n \in DocNodes : \A k \in DOMAIN stored.members[n] :
          IF is_mangled(k) THEN stored.members[n][k] = stored.members[n][k]
          ELSE k \in DOMAIN stored.members[n] <=> stored.members[n][k] \notin {}
    OBVIOUS
  <2>2. QED BY <1>1, <1>2, <1>5, <2>1 DEF Remains
<1>7. IsTree(original)'
  BY <1>1 DEF ListInv, IsTree
<1>8. QED BY <1>1, <1>2, <1>3, <1>4, <1>6, <1>7 DEF ListInv

LEMMA CheckRootList ==
    ASSUME TypeInv, SafetyInv, ListInv, CheckRoot
    PROVE  ListInv'
<1>1. original' = original
  BY DEF CheckRoot, Fail, Return, app_vars
<1>2. CASE pc' = "idle"
  BY <1>1, <1>2, ListOver DEF EncryptSteps
<1>3. CASE pc' # "idle"
  <2>1. /\ pc = "parsed" /\ pc' = "field"
        /\ UNCHANGED <<kind, original, stored, document, ordered_encrypted_fields, field>>
    BY <1>3 DEF CheckRoot, Fail, Return, app_vars, encrypt_vars
  <2>2. QED BY <2>1, ListKept DEF EncryptSteps
<1>4. QED BY <1>2, <1>3

LEMMA BeginFieldList ==
    ASSUME TypeInv, SafetyInv, ListInv, BeginField
    PROVE  ListInv'
<1>1. original' = original
  BY DEF BeginField, Fail, Return, app_vars
<1>2. CASE pc' = "idle"
  BY <1>1, <1>2, ListOver DEF EncryptSteps
<1>3. CASE pc' # "idle"
  <2>1. /\ pc = "field" /\ pc' = "walk" /\ path # << >> /\ blob' = Root /\ depth' = 1
        /\ field <= Len(ordered_encrypted_fields)
        /\ UNCHANGED <<kind, original, stored, document, ordered_encrypted_fields, field>>
    BY <1>3 DEF BeginField, Fail, Return, app_vars
  <2>2. field \in DOMAIN ordered_encrypted_fields /\ path \in Paths
    BY <2>1, ListNow DEF EncryptSteps
  <2>3. Trace(stored, path)[depth' - 1] = Root
    BY <2>1, <2>2, TraceParts
  <2>4. QED BY <2>1, <2>2, <2>3, ListKept DEF EncryptSteps
<1>4. QED BY <1>2, <1>3

\* What the copy still has in the clear, the stored document has in the clear.
LEMMA StoredToo ==
    ASSUME TypeInv, SafetyInv, ~EmptyPrefix, pc \in EncryptSteps, NEW n \in DocNodes,
           NEW k \in DOMAIN document.members[n], ~is_mangled(k)
    PROVE  /\ k \in DOMAIN stored.members[n] /\ k \in DOMAIN original[n]
           /\ stored.members[n][k] = original[n][k]
           /\ document.members[n][k] = original[n][k]
<1>1. OriginalOK /\ Shows(document, n, {}) /\ Shows(stored, n, {})
  BY EncryptNow DEF SafetyInv, StoredOK
<1>2. k \in DOMAIN original[n] /\ document.members[n][k] = original[n][k]
  BY <1>1 DEF Shows
<1>3. is_mangled(mangle(k))
  BY <1>1, <1>2, OriginalParts
<1>4. mangle(k) \notin DOMAIN document.members[n]
  BY <1>1, <1>2 DEF Shows
<1>5. mangle(k) \notin DOMAIN stored.members[n]
  BY <1>3, <1>4, EncryptNow
<1>6. k \in DOMAIN stored.members[n]
  BY <1>1, <1>2, <1>5 DEF Shows
<1>7. stored.members[n][k] = original[n][k]
  BY <1>1, <1>6 DEF Shows
<1>8. QED BY <1>2, <1>6, <1>7

\* Where the walk has got to, and what the stored document has there.
LEMMA WalkNow ==
    ASSUME TypeInv, SafetyInv, ListInv, pc = "walk"
    PROVE  /\ field \in DOMAIN ordered_encrypted_fields /\ path = ListPath(field)
           /\ IsPlain(path) /\ path # << >> /\ Len(path) \in Nat
           /\ depth \in 1..Len(path) /\ ~is_mangled(path[depth])
           /\ blob \in DocNodes /\ kind[blob] = "object"
           /\ members_of(document, blob) = document.members[blob]
           /\ blob = Trace(stored, path)[depth - 1]
           /\ Trace(stored, path)[depth] =
                IF path[depth] \in DOMAIN stored.members[blob]
                THEN stored.members[blob][path[depth]] ELSE 0
<1>1. /\ field <= Len(ordered_encrypted_fields) /\ field \in Nat \ {0}
      /\ depth \in Nat \ {0} /\ depth <= Len(path)
  BY DEF TypeInv, TypeOK, EncryptOK, EncryptSteps
<1>2. field \in DOMAIN ordered_encrypted_fields /\ path = ListPath(field)
  BY <1>1, ListNow DEF EncryptSteps
<1>3. IsPlain(path)
  BY <1>2, ListPlain DEF EncryptSteps
<1>4. /\ path \in Paths /\ Len(path) \in Nat
      /\ \A i \in 1..Len(path) : Trace(stored, path)[i] = Into(stored, Trace(stored, path)[i - 1], path[i])
  BY <1>3, TraceParts DEF IsPlain
<1>5. depth \in 1..Len(path) /\ ~is_mangled(path[depth])
  <2>1. depth \in 1..Len(path)
    BY <1>1, <1>4
  <2>2. depth \in DOMAIN path
    BY <1>4, <2>1 DEF Paths
  <2>3. QED BY <1>3, <2>1, <2>2 DEF IsPlain
<1>6. blob \in Below(Root) /\ kind[blob] = "object" /\ Root \in DocNodes /\ OriginalOK
  BY EncryptNow, TranscoderAssumption DEF EncryptSteps, Root, DocNodes
<1>7. blob \in DocNodes
  BY <1>6, BelowParts
<1>8. path # << >> /\ blob = Trace(stored, path)[depth - 1]
  BY DEF ListInv, EncryptSteps
<1>9. Trace(stored, path)[depth] = Into(stored, blob, path[depth])
  BY <1>4, <1>5, <1>8
<1>10. /\ members_of(document, blob) = document.members[blob]
       /\ members_of(stored, blob) = stored.members[blob]
       /\ is_object(blob) /\ blob # 0
  BY <1>6, <1>7 DEF members_of, is_object, DocNodes
<1>11. Trace(stored, path)[depth] =
         IF path[depth] \in DOMAIN stored.members[blob]
         THEN stored.members[blob][path[depth]] ELSE 0
  BY <1>9, <1>10 DEF Into
<1>12. QED BY <1>2, <1>3, <1>4, <1>5, <1>6, <1>7, <1>8, <1>10, <1>11

LEMMA DescendList ==
    ASSUME TypeInv, SafetyInv, ListInv, ~EmptyPrefix, Descend
    PROVE  ListInv'
<1>1. original' = original /\ pc = "walk"
  BY DEF Descend, Fail, Return, app_vars
<1>2. CASE pc' = "idle"
  BY <1>1, <1>2, ListOver DEF EncryptSteps
<1>3. CASE pc' # "idle"
  <2>1. /\ path[depth] \in DOMAIN members_of(document, blob)
        /\ blob' = members_of(document, blob)[path[depth]] /\ depth' = depth + 1 /\ pc' = pc
        /\ UNCHANGED <<kind, original, stored, document, ordered_encrypted_fields, field>>
    BY <1>3 DEF Descend, Fail, Return, app_vars
  <2>2. /\ path[depth] \in DOMAIN stored.members[blob]
        /\ stored.members[blob][path[depth]] = document.members[blob][path[depth]]
    BY <1>1, <2>1, WalkNow, StoredToo DEF EncryptSteps
  <2>3. blob' = Trace(stored, path)[depth' - 1]
    <3>1. depth' - 1 = depth
      BY <1>1, <2>1, WalkNow
    <3>2. blob' = Trace(stored, path)[depth]
      BY <1>1, <2>1, <2>2, WalkNow
    <3>3. QED BY <3>1, <3>2
  <2>4. QED BY <1>1, <2>1, <2>3, WalkNow, ListKept DEF EncryptSteps
<1>4. QED BY <1>2, <1>3

\* What seal does to the members.
LEMMA SealMembers ==
    ASSUME NEW d \in Stored, NEW n \in DocNodes, NEW k \in DOMAIN d.members[n], NEW node
    PROVE  LET s == seal(d, n, k, node)
           IN  /\ DOMAIN s.members[n] = (DOMAIN d.members[n] \ {k}) \cup {mangle(k)}
               /\ \A j \in DOMAIN d.members[n] \ {k, mangle(k)} :
                    s.members[n][j] = d.members[n][j]
               /\ \A p \in DocNodes \ {n} : s.members[p] = d.members[p]
<1> DEFINE s == seal(d, n, k, node)
           g == erase(d.members[n], {k})
           e == Envelope(Len(d.envelopes) + 1)
           f == put(g, mangle(k), e)
<1>1. s.members = [d.members EXCEPT ![n] = f]
  BY DEF seal
<1>2. d.members \in [DocNodes -> Members]
  BY StoredParts
<1>3. s.members[n] = f /\ \A p \in DocNodes \ {n} : s.members[p] = d.members[p]
  BY <1>1, <1>2
<1> HIDE DEF s
<1>4. DOMAIN g = DOMAIN d.members[n] \ {k}
  BY EraseParts
<1>5. \A j \in DOMAIN d.members[n] \ {k} : g[j] = d.members[n][j]
  BY EraseParts
<1> HIDE DEF g, e
<1>6. DOMAIN f = DOMAIN g \cup {mangle(k)}
  BY DEF put
<1>7. \A j \in DOMAIN g \ {mangle(k)} : f[j] = g[j]
  BY DEF put
<1> HIDE DEF f
<1>8. QED BY <1>3, <1>4, <1>5, <1>6, <1>7 DEF s

\* A path that the walk has come to the end of leads to a member that is in the
\* clear where it is stored.
LEMMA SealFieldList ==
    ASSUME TypeInv, SafetyInv, ListInv, ~EmptyPrefix, SealField, pc' # "idle"
    PROVE  ListInv'
<1> DEFINE k == path[depth]
           v == stored.members[blob][k]
<1>1. PICK node :
        /\ pc = "walk" /\ depth = Len(path) /\ k \in DOMAIN members_of(document, blob)
        /\ document' = seal(document, blob, k, node) /\ pc' = "field" /\ field' = field + 1
        /\ UNCHANGED <<kind, original, stored, ordered_encrypted_fields>>
  BY DEF SealField, Fail, Return, app_vars
<1>2. pc \in EncryptSteps
  BY <1>1 DEF EncryptSteps
<1>3. /\ k \in DOMAIN document.members[blob] /\ ~is_mangled(k) /\ blob \in DocNodes
      /\ path = ListPath(field) /\ field \in DOMAIN ordered_encrypted_fields
      /\ path # << >> /\ path \in Paths
  BY <1>1, WalkNow DEF IsPlain
<1>4. /\ k \in DOMAIN stored.members[blob] /\ k \in DOMAIN original[blob] /\ v = original[blob][k]
  BY <1>2, <1>3, StoredToo
<1>5. Resolve(stored, path) = v
  <2>1. Resolve(stored, path) = Trace(stored, path)[Len(path)]
    BY <1>3, TraceParts
  <2>2. QED BY <1>1, <1>4, <2>1, WalkNow
<1>6. v # 0
  <2>1. original[blob] \in MapsTo(DocNodes)
    BY <1>3 DEF SafetyInv, OriginalOK
  <2>2. v \in DocNodes
    BY <1>4, <2>1, MapsToParts
  <2>3. QED BY <2>2 DEF DocNodes
<1>7. field \in Nat \ {0} /\ 1..(field' - 1) = (1..(field - 1)) \cup {field}
  BY <1>1, <1>2, ListNow
<1>8. \A i \in 1..(field' - 1) : /\ ListPath(i)' = ListPath(i)
                                 /\ Resolve(stored, ListPath(i))' = Resolve(stored, ListPath(i))
  <2>1. TAKE i \in 1..(field' - 1)
  <2>2. i \in DOMAIN ordered_encrypted_fields
    BY <1>2, <1>3, <1>7, ListNow
  <2>3. ListPath(i) \in Paths /\ ListPath(i)' = ListPath(i)
    BY <1>1, <1>2, <2>2, ListNow DEF ListPath
  <2>4. QED BY <1>1, <2>3, TraceSame
<1>9. Done' = Done \cup {v}
  BY <1>3, <1>5, <1>7, <1>8 DEF Done
<1>10. Remains(document, Done) /\ v \notin Done
  <2>1. Remains(document, Done)
    BY <1>2 DEF ListInv
  <2>2. QED BY <1>3, <1>4, <2>1 DEF Remains
<1>11. \A i \in 1..(field' - 1) :
         /\ ListPath(i)' # << >> /\ Resolve(stored, ListPath(i))' # 0
         /\ \A j \in 1..(field' - 1) : ListPath(i)' = ListPath(j)' => i = j
  <2>1. \A i \in 1..(field - 1) :
          /\ ListPath(i) # << >> /\ Resolve(stored, ListPath(i)) # 0
          /\ \A j \in 1..(field - 1) : ListPath(i) = ListPath(j) => i = j
          /\ ListPath(i) # path
    <3>1. \A i \in 1..(field - 1) : Resolve(stored, ListPath(i)) \in Done
      BY DEF Done
    <3>2. QED BY <1>2, <1>5, <1>10, <3>1 DEF ListInv
  <2>2. QED BY <1>3, <1>5, <1>6, <1>7, <1>8, <2>1
<1>12. Remains(document', Done \cup {v})
  <2> SUFFICES ASSUME NEW n \in DocNodes, NEW j \in DOMAIN stored.members[n]
               PROVE  IF is_mangled(j) THEN document'.members[n][j] = stored.members[n][j]
                      ELSE j \in DOMAIN document'.members[n] <=>
                             stored.members[n][j] \notin Done \cup {v}
    BY DEF Remains
  <2>1. /\ DOMAIN document'.members[blob] = (DOMAIN document.members[blob] \ {k}) \cup {mangle(k)}
        /\ \A l \in DOMAIN document.members[blob] \ {k, mangle(k)} :
             document'.members[blob][l] = document.members[blob][l]
        /\ \A p \in DocNodes \ {blob} : document'.members[p] = document.members[p]
    BY <1>1, <1>3, SealMembers DEF TypeInv, TypeOK
  <2>2. IF is_mangled(j) THEN document.members[n][j] = stored.members[n][j]
        ELSE j \in DOMAIN document.members[n] <=> stored.members[n][j] \notin Done
    BY <1>10 DEF Remains
  <2>3. is_mangled(mangle(k)) /\ mangle(k) \notin DOMAIN document.members[blob]
    <3>1. OriginalOK /\ Shows(document, blob, {})
      BY <1>2, <1>3, EncryptNow
    <3>2. QED BY <1>3, <1>4, <3>1, OriginalParts DEF Shows
  <2>4. CASE is_mangled(j)
    <3>1. j \in DOMAIN document.members[n]
      BY <1>2, <2>4, EncryptNow
    <3>2. QED BY <1>3, <2>1, <2>2, <2>3, <2>4, <3>1
  <2>5. CASE ~is_mangled(j) /\ n = blob /\ j = k
    BY <2>1, <2>3, <2>5
  <2>6. CASE ~is_mangled(j) /\ ~(n = blob /\ j = k)
    <3>1. Shows(stored, n, {})
      BY DEF SafetyInv, StoredOK
    <3>2. j \in DOMAIN original[n] /\ stored.members[n][j] = original[n][j]
      BY <2>6, <3>1 DEF Shows
    <3>3. \A m, p \in DocNodes : \A h \in DOMAIN original[m], l \in DOMAIN original[p] :
            original[m][h] = original[p][l] => m = p /\ h = l
      BY DEF ListInv, IsTree
    <3>4. stored.members[n][j] # v
      BY <1>3, <1>4, <2>6, <3>2, <3>3
    <3>5. j \in DOMAIN document'.members[n] <=> j \in DOMAIN document.members[n]
      BY <2>1, <2>3, <2>6
    <3>6. QED BY <2>2, <2>6, <3>4, <3>5
  <2>7. QED BY <2>4, <2>5, <2>6
<1>13. Remains(document, Done)'
  BY <1>1, <1>9, <1>12 DEF Remains
<1>14. \A i, j \in DOMAIN ordered_encrypted_fields' :
         i < j => Len(ListPath(i)') >= Len(ListPath(j)')
  BY <1>1, <1>2 DEF ListInv, ListPath
<1>15. IsTree(original)'
  BY <1>1 DEF ListInv, IsTree
<1>16. QED BY <1>1, <1>11, <1>13, <1>14, <1>15 DEF ListInv

\* The original is a tree, and no call is running.
LEMMA ListInvInit ==
    ASSUME Init
    PROVE  ListInv
  BY TreesAssumption DEF Init, ListInv, EncryptSteps

\* Every action keeps ListInv.
LEMMA ListInvStep ==
    ASSUME PlainNames, TypeInv, SafetyInv, ListInv, [Next]_vars
    PROVE  ListInv'
<1>1. ~EmptyPrefix
  BY DEF PlainNames
<1>2. original' = original
  BY DEF Next, Call, encrypt, decrypt, AddKey, Step, CheckRoot, BeginField, Descend, SealField,
         FinishEncrypt, Visit, OpenField, EraseKeys, VisitChild, Leave, FinishDecrypt,
         Fail, Return, vars, app_vars
<1>3. CASE pc' \notin EncryptSteps
  BY <1>2, <1>3, ListOver
<1>4. CASE pc' \in EncryptSteps
  <2>1. pc' # "idle"
    BY <1>4 DEF EncryptSteps
  <2>2. ~FinishEncrypt /\ ~FinishDecrypt
    BY <2>1 DEF FinishEncrypt, FinishDecrypt, Return
  <2>3. ~decrypt /\ ~Visit /\ ~EraseKeys /\ ~VisitChild
    BY <1>4 DEF decrypt, Visit, EraseKeys, VisitChild, EncryptSteps
  <2>4. ~OpenField /\ ~Leave
    BY <1>4 DEF OpenField, Leave, Fail, Return, EncryptSteps
  <2>5. CASE AddKey \/ UNCHANGED vars
    <3>1. UNCHANGED <<kind, original, stored, pc, document, ordered_encrypted_fields, field,
                      blob, depth>>
      BY <2>5 DEF AddKey, vars, app_vars, encrypt_vars
    <3>2. pc = "walk" => /\ path # << >> /\ blob = Trace(stored, path)[depth - 1]
                         /\ field \in DOMAIN ordered_encrypted_fields
      BY WalkNow
    <3>3. QED BY <1>4, <3>1, <3>2, ListKept
  <2>6. CASE \E fields \in FieldLists : encrypt(fields)
    BY <2>6, EncryptCallList
  <2>7. CASE CheckRoot \/ BeginField \/ Descend \/ SealField
    BY <1>1, <2>1, <2>7, CheckRootList, BeginFieldList, DescendList, SealFieldList
  <2>8. QED BY <2>2, <2>3, <2>4, <2>5, <2>6, <2>7 DEF Next, Call, Step
<1>5. QED BY <1>3, <1>4

-----------------------------------------------------------------------------
(* Which lists encrypt refuses.                                            *)

\* What the loop does not find where the path leads, is not there, or the list
\* names it twice: the paths that are sealed already are no shorter.
LEMMA NotFound ==
    ASSUME TypeInv, SafetyInv, ListInv, pc = "walk",
           path[depth] \notin DOMAIN members_of(document, blob)
    PROVE  ~Encryptable(ordered_encrypted_fields, stored)
<1> DEFINE k == path[depth]
           v == stored.members[blob][k]
<1>1. /\ field \in DOMAIN ordered_encrypted_fields /\ path = ListPath(field)
      /\ IsPlain(path) /\ path \in Paths /\ Len(path) \in Nat /\ depth \in 1..Len(path)
      /\ ~is_mangled(k) /\ blob \in DocNodes /\ k \notin DOMAIN document.members[blob]
      /\ Trace(stored, path)[depth] = IF k \in DOMAIN stored.members[blob] THEN v ELSE 0
  BY WalkNow DEF IsPlain
<1>2. CASE k \notin DOMAIN stored.members[blob]
  <2>1. depth \in 0..Len(path) /\ Trace(stored, path)[depth] = 0
    BY <1>1, <1>2
  <2>2. Resolve(stored, path) = 0
    BY <1>1, <2>1, TraceBroken
  <2>3. QED BY <1>1, <2>2 DEF Encryptable, ListPath
<1>3. CASE k \in DOMAIN stored.members[blob]
  <2>1. v \in Done
    BY <1>1, <1>3 DEF ListInv, Remains, EncryptSteps
  <2>2. PICK i \in 1..(field - 1) : Resolve(stored, ListPath(i)) = v
    BY <2>1 DEF Done
  <2> DEFINE q == ListPath(i)
  <2>3. field \in Nat \ {0} /\ i \in DOMAIN ordered_encrypted_fields /\ i < field
    BY <2>2, ListNow DEF EncryptSteps
  <2>4. IsPlain(q) /\ q \in Paths /\ Len(q) \in Nat /\ Trace(stored, q)[Len(q)] = v
    BY <2>2, <2>3, ListPlain, TraceParts DEF IsPlain, EncryptSteps
  <2>5. v # 0 /\ Len(q) >= Len(path) /\ IsTree(original)
    BY <1>1, <2>2, <2>3 DEF ListInv, EncryptSteps
  <2>6. OriginalOK /\ stored \in Stored /\ \A n \in DocNodes : Shows(stored, n, {})
    BY DEF SafetyInv, StoredOK, TypeInv, TypeOK
  <2> HIDE DEF q, v, k
  <2>7. depth \in 0..Len(path) /\ Len(q) \in 0..Len(q) /\ Trace(stored, path)[depth] = v
    BY <1>1, <1>3, <2>4
  <2>8. depth = Len(q) /\ \A l \in 1..depth : path[l] = q[l]
    BY <1>1, <2>4, <2>5, <2>6, <2>7, SamePath
  <2>9. Len(path) = Len(q) /\ \A l \in 1..Len(path) : path[l] = q[l]
    BY <1>1, <2>4, <2>5, <2>8
  <2>10. path = q
    BY <1>1, <2>4, <2>9 DEF Paths
  <2>11. /\ ordered_encrypted_fields[field].path = ordered_encrypted_fields[i].path
         /\ field # i
    BY <1>1, <2>3, <2>10 DEF ListPath, q
  <2>12. QED BY <1>1, <2>3, <2>11 DEF Encryptable
<1>4. QED BY <1>2, <1>3

\* Nor does a path go on below a value that is not an object.
LEMMA NoObject ==
    ASSUME TypeInv, SafetyInv, ListInv, ~EmptyPrefix, pc = "walk", depth < Len(path),
           path[depth] \in DOMAIN members_of(document, blob),
           ~is_object(members_of(document, blob)[path[depth]])
    PROVE  ~Encryptable(ordered_encrypted_fields, stored)
<1> DEFINE v == Trace(stored, path)[depth]
<1>1. /\ field \in DOMAIN ordered_encrypted_fields /\ path = ListPath(field)
      /\ path \in Paths /\ Len(path) \in Nat /\ depth \in 1..Len(path)
      /\ ~is_mangled(path[depth]) /\ blob \in DocNodes
      /\ path[depth] \in DOMAIN document.members[blob]
      /\ ~is_object(document.members[blob][path[depth]])
      /\ v = IF path[depth] \in DOMAIN stored.members[blob]
             THEN stored.members[blob][path[depth]] ELSE 0
  BY WalkNow DEF IsPlain
<1>2. v = document.members[blob][path[depth]]
  BY <1>1, StoredToo DEF EncryptSteps
<1> HIDE DEF v
<1>3. depth + 1 \in 1..Len(path) /\ depth + 1 \in 0..Len(path)
  BY <1>1
<1>4. Trace(stored, path)[depth + 1] = Into(stored, v, path[depth + 1])
  <2>1. (depth + 1) - 1 = depth
    BY <1>1
  <2>2. QED BY <1>1, <1>3, <2>1, TraceParts DEF v
<1>5. Trace(stored, path)[depth + 1] = 0
  BY <1>1, <1>2, <1>4 DEF Into
<1>6. Resolve(stored, path) = 0
  BY <1>1, <1>3, <1>5, TraceBroken
<1>7. QED BY <1>1, <1>6 DEF Encryptable, ListPath

\* A list the loop has come to the end of could be encrypted.
LEMMA AllFound ==
    ASSUME TypeInv, SafetyInv, ListInv, FinishEncrypt
    PROVE  /\ Encryptable(ordered_encrypted_fields, stored)
           /\ Done = {Resolve(stored, p) : p \in Requested}
<1>1. pc = "field" /\ field > Len(ordered_encrypted_fields)
  BY DEF FinishEncrypt
<1>2. 1..(field - 1) = DOMAIN ordered_encrypted_fields
  BY <1>1, ListNow DEF EncryptSteps
<1>3. is_object(Root)
  BY <1>1, EncryptNow DEF is_object, EncryptSteps
<1>4. Encryptable(ordered_encrypted_fields, stored)
  BY <1>1, <1>2, <1>3 DEF ListInv, Encryptable, ListPath, EncryptSteps
<1>5. Done = {Resolve(stored, p) : p \in Requested}
  BY <1>2 DEF Done, Requested, ListPath
<1>6. QED BY <1>4, <1>5

\* No error of the manager is the one for a bad list.
LEMMA SealFieldRefuses ==
    ASSUME TypeInv, SafetyInv, ListInv, SealField, result'.err = "encryption_failure", pc' = "idle"
    PROVE  ~Encryptable(ordered_encrypted_fields, stored)
<1> DEFINE plain == members_of(document, blob)[path[depth]]
           alias == ordered_encrypted_fields[field].alias
<1>1. pc = "walk"
  BY DEF SealField
<1>2. CASE path[depth] \notin DOMAIN members_of(document, blob)
  BY <1>1, <1>2, NotFound
<1>3. CASE path[depth] \in DOMAIN members_of(document, blob)
  <2>1. PICK a \in manager_encrypt(plain, alias) : result'.err = a.err
    BY <1>3 DEF SealField, Fail, Return
  <2>2. ManagerTypeOK /\ document \in Stored
    BY DEF TypeInv, TypeOK
  <2>3. plain \in Plaintexts
    <3>1. path[depth] \in DOMAIN document.members[blob] /\ blob \in DocNodes
          /\ plain = document.members[blob][path[depth]]
      BY <1>1, <1>3, WalkNow
    <3>2. document.members[blob] \in MapsTo(Nodes)
      BY <2>2, <3>1, StoredParts
    <3>3. plain \in Nodes
      BY <3>1, <3>2, MapsToParts
    <3>4. QED BY <3>3, TranscoderAssumption
  <2>4. alias \in Aliases \cup {Absent}
    <3>1. field <= Len(ordered_encrypted_fields)
      BY <1>1, WalkNow DEF TypeInv, TypeOK
    <3>2. QED BY <3>1, CurrentField DEF TypeInv
  <2> HIDE DEF plain, alias
  <2>5. a.err \in ManagerErrors \cup {"none"}
    BY <2>1, <2>2, <2>3, <2>4, ManagerEncryptType
  <2>6. QED BY <2>1, <2>5 DEF ManagerErrors
<1>4. QED BY <1>2, <1>3

\* encrypt returns from these actions.
LEMMA EncryptReturns ==
    ASSUME [Next]_vars, Returns("encrypt")
    PROVE  CheckRoot \/ BeginField \/ Descend \/ SealField \/ FinishEncrypt
<1>1. pc # "idle" /\ pc' = "idle" /\ result'.call = "encrypt"
  BY DEF Returns
<1>2. ~FinishDecrypt /\ ~OpenField
  BY <1>1 DEF FinishDecrypt, OpenField, Fail, Return
<1>3. ~Visit /\ ~EraseKeys /\ ~VisitChild /\ ~Leave
  BY <1>1 DEF Visit, EraseKeys, VisitChild, Leave
<1>4. ~Call /\ ~AddKey /\ ~UNCHANGED vars
  BY <1>1 DEF Call, decrypt, encrypt, AddKey, vars
<1>5. QED BY <1>2, <1>3, <1>4 DEF Next, Step

\* A call that fails for its list, and one that succeeds.
LEMMA Refuses ==
    ASSUME PlainNames, TypeInv, SafetyInv, ListInv, [Next]_vars, Returns("encrypt")
    PROVE  /\ result'.err = "encryption_failure" => ~Encryptable(ordered_encrypted_fields, stored)
           /\ result'.err = "none" => Encryptable(ordered_encrypted_fields, stored)
<1>1. ~EmptyPrefix /\ pc' = "idle"
  BY DEF PlainNames, Returns
<1>2. CASE CheckRoot
  BY <1>1, <1>2 DEF CheckRoot, Fail, Return, Encryptable
<1>3. CASE BeginField
  <2>1. path = << >> /\ result'.err = "encryption_failure" /\ pc = "field"
        /\ field <= Len(ordered_encrypted_fields)
    BY <1>1, <1>3 DEF BeginField, Fail, Return
  <2>2. field \in DOMAIN ordered_encrypted_fields
    BY <2>1, ListNow DEF EncryptSteps
  <2>3. QED BY <2>1, <2>2 DEF Encryptable, path
<1>4. CASE Descend
  <2>1. /\ result'.err = "encryption_failure" /\ pc = "walk" /\ depth < Len(path)
        /\ \/ path[depth] \notin DOMAIN members_of(document, blob)
           \/ ~is_object(members_of(document, blob)[path[depth]])
    BY <1>1, <1>4 DEF Descend, Fail, Return
  <2>2. QED BY <1>1, <2>1, NotFound, NoObject
<1>5. CASE SealField
  <2>1. result'.err # "none"
    BY <1>1, <1>5 DEF SealField, Fail, Return
  <2>2. QED BY <1>1, <1>5, <2>1, SealFieldRefuses
<1>6. CASE FinishEncrypt
  BY <1>6, AllFound DEF FinishEncrypt, Return
<1>7. QED BY <1>2, <1>3, <1>4, <1>5, <1>6, EncryptReturns

\* What is sealed when the loop is over: the listed members, and no others.
LEMMA Seals ==
    ASSUME PlainNames, TypeInv, SafetyInv, ListInv, FinishEncrypt,
           NEW n \in DocNodes, NEW k \in DOMAIN stored.members[n]
    PROVE  LET v == stored.members[n][k]
           IN  IF v \in {Resolve(stored, p) : p \in Requested}
               THEN /\ k \notin DOMAIN stored'.members[n]
                    /\ mangle(k) \in DOMAIN stored'.members[n]
                    /\ SealedAs(stored', n, k)
                    /\ Sealed(stored', stored'.members[n][mangle(k)]) = v
               ELSE k \in DOMAIN stored'.members[n] /\ stored'.members[n][k] = v
<1> DEFINE v == stored.members[n][k]
<1>1. /\ pc = "field" /\ stored' = document /\ ~EmptyPrefix
      /\ Done = {Resolve(stored, p) : p \in Requested}
  BY AllFound DEF FinishEncrypt, PlainNames
<1>2. /\ OriginalOK /\ Shows(stored, n, {}) /\ Shows(document, n, {})
      /\ is_mangled(k) => k \in DOMAIN document.members[n]
  BY <1>1, EncryptNow DEF SafetyInv, StoredOK, EncryptSteps
<1>3. IF is_mangled(k) THEN document.members[n][k] = v
      ELSE k \in DOMAIN document.members[n] <=> v \notin Done
  BY <1>1 DEF ListInv, Remains, EncryptSteps
<1>4. Done \subseteq DocNodes
  <2> SUFFICES ASSUME NEW i \in 1..(field - 1)
               PROVE  Resolve(stored, ListPath(i)) \in DocNodes
    BY DEF Done
  <2> DEFINE q == ListPath(i)
  <2>1. q # << >> /\ Resolve(stored, q) # 0
    BY <1>1 DEF ListInv, EncryptSteps
  <2>2. IsPlain(q)
    BY <1>1, ListNow, ListPlain DEF EncryptSteps
  <2> HIDE DEF q
  <2>3. q \in Paths /\ Len(q) \in Nat /\ Resolve(stored, q) = Trace(stored, q)[Len(q)]
    BY <2>2, TraceParts DEF IsPlain
  <2>4. Len(q) \in 1..Len(q)
    BY <2>1, <2>3 DEF Paths
  <2>5. stored \in Stored /\ \A p \in DocNodes : Shows(stored, p, {})
    BY DEF SafetyInv, StoredOK, TypeInv, TypeOK
  <2>6. Trace(stored, q)[Len(q)] \in DocNodes
    BY <1>2, <2>1, <2>2, <2>3, <2>4, <2>5, TraceMember
  <2>7. QED BY <2>3, <2>6 DEF q
<1>5. CASE v \in Done
  <2>1. ~is_mangled(k) /\ k \in DOMAIN original[n] /\ v = original[n][k]
    BY <1>2, <1>4, <1>5 DEF Shows
  <2>2. is_mangled(mangle(k)) /\ demangle(mangle(k)) = k
    BY <1>1, <1>2, <2>1, OriginalParts
  <2>3. k \notin DOMAIN document.members[n]
    BY <1>3, <1>5, <2>1
  <2>4. mangle(k) \in DOMAIN document.members[n]
    BY <1>2, <2>1, <2>3 DEF Shows
  <2>5. /\ document.members[n][mangle(k)] \notin DocNodes
        /\ Sealed(document, document.members[n][mangle(k)]) = v
    BY <1>2, <2>1, <2>2, <2>4 DEF Shows
  <2>6. QED BY <1>1, <1>5, <2>3, <2>4, <2>5 DEF SealedAs
<1>6. CASE v \notin Done
  <2>1. k \in DOMAIN document.members[n]
    BY <1>2, <1>3, <1>6
  <2>2. document.members[n][k] = v
    BY <1>2, <1>3, <2>1 DEF Shows
  <2>3. QED BY <1>1, <1>6, <2>1, <2>2
<1>7. QED BY <1>5, <1>6

\* A success of encrypt comes from FinishEncrypt alone.
LEMMA EncryptSucceeds ==
    ASSUME [Next]_vars, Returns("encrypt"), result'.err = "none"
    PROVE  FinishEncrypt
<1>1. pc' = "idle" /\ result'.err = "none"
  BY DEF Returns
<1>2. ~CheckRoot /\ ~BeginField /\ ~Descend
  BY <1>1 DEF CheckRoot, BeginField, Descend, Fail, Return
<1>3. ~SealField
  BY <1>1 DEF SealField, Fail, Return
<1>4. QED BY <1>2, <1>3, EncryptReturns

-----------------------------------------------------------------------------
(* The theorems on encrypt.                                                *)

\* At every turn of the loop over the fields, the working copy lacks exactly the
\* members that the turns before have sealed, and the pointer that walks down the
\* path is where the path leads in the stored document.
THEOREM TranscoderFollowsTheList == ASSUME PlainNames PROVE Spec => []ListInv
<1>1. Init => ListInv
  BY ListInvInit
<1>2. TypeInv /\ SafetyInv /\ ListInv /\ [Next]_vars => ListInv'
  BY ListInvStep
<1>3. QED BY <1>1, <1>2, TranscoderInvariant, TranscoderSafety, PTL DEF Spec

\* encrypt refuses a list exactly when a path of it is empty, is there twice or
\* leads nowhere: sorting the longer paths first, it never seals a field before
\* one that is inside of it.
THEOREM TranscoderRefusesExactlyTheUnencryptable ==
    ASSUME PlainNames PROVE Spec => RefusesExactlyTheUnencryptable
<1>1. TypeInv /\ SafetyInv /\ ListInv /\ [Next]_vars =>
        [Returns("encrypt") =>
           /\ result'.err = "encryption_failure" =>
                ~Encryptable(ordered_encrypted_fields, stored)
           /\ result'.err = "none" => Encryptable(ordered_encrypted_fields, stored)]_vars
  BY Refuses
<1>2. QED BY <1>1, TranscoderInvariant, TranscoderSafety, TranscoderFollowsTheList, PTL
          DEF Spec, RefusesExactlyTheUnencryptable

\* A successful encrypt puts envelopes of the listed members where they were, and
\* leaves every other member, of every object of the document, as it is.
THEOREM TranscoderSealsExactlyTheListed ==
    ASSUME PlainNames PROVE Spec => SealsExactlyTheListed
<1>1. TypeInv /\ SafetyInv /\ ListInv /\ [Next]_vars =>
        [Returns("encrypt") /\ result'.err = "none" =>
           LET targets == {Resolve(stored, p) : p \in Requested}
           IN  \A n \in DocNodes, k \in Names :
                 k \in DOMAIN stored.members[n] =>
                   LET v == stored.members[n][k]
                   IN  IF v \in targets
                       THEN /\ k \notin DOMAIN stored'.members[n]
                            /\ mangle(k) \in DOMAIN stored'.members[n]
                            /\ SealedAs(stored', n, k)
                            /\ Sealed(stored', stored'.members[n][mangle(k)]) = v
                       ELSE k \in DOMAIN stored'.members[n] /\ stored'.members[n][k] = v]_vars
  BY Seals, EncryptSucceeds
<1>2. QED BY <1>1, TranscoderInvariant, TranscoderSafety, TranscoderFollowsTheList, PTL
          DEF Spec, SealsExactlyTheListed
=============================================================================
