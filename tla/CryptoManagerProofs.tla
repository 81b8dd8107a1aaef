------------------------ MODULE CryptoManagerProofs ------------------------
(***************************************************************************)
(* What the operations of the manager answer: their types, that a node     *)
(* opens again exactly when its key is found, and that demangling undoes   *)
(* mangling; and the order of the names.                                   *)
(***************************************************************************)
EXTENDS CryptoManager, FieldNames, FiniteSetTheorems, TLAPS

\* A look-up in a keyring answers with key material or crypto_key_not_found.
LEMMA GetType ==
    ASSUME ManagerTypeOK, NEW ring \in Rings, NEW id \in KeyIds
    PROVE  \/ get(ring, id) = Err("crypto_key_not_found") /\ keys[ring][id] = Absent
           \/ get(ring, id) = Ok(keys[ring][id]) /\ keys[ring][id] \in KeyBytes
  BY DEF ManagerTypeOK, get

\* The encrypter's answer is an error, or a node made with its key.
LEMMA EncrypterEncrypt ==
    ASSUME ManagerTypeOK, NEW e \in Encrypters, NEW plain \in Plaintexts,
           NEW a \in encrypter_encrypt(e, plain)
    PROVE  \/ a.err \in ManagerErrors
           \/ /\ keys[e.ring][e.kid] \in KeyBytes
              /\ a = Ok(encryption_result(e.alg, e.kid,
                          [alg |-> e.alg, key |-> keys[e.ring][e.kid], plain |-> plain]))
<1>1. e.ring \in Rings /\ e.kid \in KeyIds /\ e.alg \in Algorithms
  BY DEF Encrypters
<1>2. CASE get(e.ring, e.kid) = Err("crypto_key_not_found")
  BY <1>2 DEF encrypter_encrypt, Err, ManagerErrors
<1>3. CASE /\ get(e.ring, e.kid) = Ok(keys[e.ring][e.kid])
           /\ keys[e.ring][e.kid] \in KeyBytes
  <2>1. get(e.ring, e.kid).err = "none" /\ get(e.ring, e.kid).value = keys[e.ring][e.kid]
    BY <1>3 DEF Ok
  <2>2. CASE keys[e.ring][e.kid] \in WrongLength
    BY <2>1, <2>2 DEF encrypter_encrypt, aead_encrypt, Err, ManagerErrors
  <2>3. CASE keys[e.ring][e.kid] \notin WrongLength
    BY <1>3, <2>1, <2>3 DEF encrypter_encrypt, aead_encrypt, Err, Ok, ManagerErrors
  <2>4. QED BY <2>2, <2>3
<1>4. QED BY <1>1, <1>2, <1>3, GetType

\* manager->encrypt answers with an error, or with a node that carries the
\* algorithm and the key id of the encrypter behind the alias.
LEMMA ManagerEncrypt ==
    ASSUME ManagerTypeOK, NEW plain \in Plaintexts, NEW alias \in Aliases \cup {Absent},
           NEW a \in manager_encrypt(plain, alias)
    PROVE  LET e == alias_to_encrypter[value_or_default(alias)]
           IN  \/ a.err \in ManagerErrors
               \/ /\ e \in Encrypters
                  /\ keys[e.ring][e.kid] \in KeyBytes
                  /\ a = Ok(encryption_result(e.alg, e.kid,
                              [alg |-> e.alg, key |-> keys[e.ring][e.kid], plain |-> plain]))
<1> DEFINE e == alias_to_encrypter[value_or_default(alias)]
<1>1. value_or_default(alias) \in Aliases
  BY CryptoManagerAssumption DEF value_or_default
<1>2. e \in Encrypters \cup {Absent}
  BY <1>1 DEF ManagerTypeOK
<1>3. CASE e = Absent
  BY <1>3 DEF manager_encrypt, Err, ManagerErrors
<1>4. CASE e # Absent
  <2>1. e \in Encrypters /\ a \in encrypter_encrypt(e, plain)
    BY <1>2, <1>4 DEF manager_encrypt
  <2>2. QED BY <2>1, EncrypterEncrypt
<1>5. QED BY <1>3, <1>4

\* Hence a success of encrypt is a well-formed node.
LEMMA ManagerEncryptType ==
    ASSUME ManagerTypeOK, NEW plain \in Plaintexts, NEW alias \in Aliases \cup {Absent},
           NEW a \in manager_encrypt(plain, alias)
    PROVE  /\ a.err \in ManagerErrors \cup {"none"}
           /\ a.err = "none" => a.value \in EncryptionResults /\ a.value.ciphertext.plain = plain
<1> DEFINE e == alias_to_encrypter[value_or_default(alias)]
<1>1. CASE a.err \in ManagerErrors
  BY <1>1 DEF ManagerErrors
<1>2. CASE /\ e \in Encrypters
           /\ keys[e.ring][e.kid] \in KeyBytes
           /\ a = Ok(encryption_result(e.alg, e.kid,
                       [alg |-> e.alg, key |-> keys[e.ring][e.kid], plain |-> plain]))
  <2> DEFINE c == [alg |-> e.alg, key |-> keys[e.ring][e.kid], plain |-> plain]
  <2>1. e.alg \in Algorithms /\ e.kid \in KeyIds
    BY <1>2 DEF Encrypters
  <2>2. c \in Ciphertexts
    BY <1>2, <2>1 DEF Ciphertexts
  <2>3. encryption_result(e.alg, e.kid, c) \in EncryptionResults
    BY <2>1, <2>2 DEF encryption_result, EncryptionResults
  <2>4. QED BY <1>2, <2>3 DEF Ok, encryption_result
<1>3. QED BY <1>1, <1>2, ManagerEncrypt

\* The decrypter's answer is an error, or the plaintext of the node, and then
\* the key the node names in the decrypter's ring is the one it was made with.
LEMMA DecrypterDecrypt ==
    ASSUME ManagerTypeOK, NEW alg \in Algorithms, NEW ring \in Rings,
           NEW node \in EncryptionResults
    PROVE  LET a == decrypter_decrypt(alg, ring, node)
           IN  \/ a.err \in ManagerErrors /\ a.value = Absent
               \/ /\ node.kid \in KeyIds
                  /\ node.ciphertext \in Ciphertexts
                  /\ keys[ring][node.kid] = node.ciphertext.key
                  /\ a = Ok(node.ciphertext.plain)
<1> DEFINE a == decrypter_decrypt(alg, ring, node)
<1>1. /\ node.kid \in KeyIds \cup {Absent}
      /\ node.ciphertext \in Ciphertexts \cup {Absent, NotBase64, Garbage}
  BY DEF EncryptionResults
<1>2. CASE node.kid = Absent
  BY <1>2 DEF decrypter_decrypt, Err, ManagerErrors
<1>3. CASE node.kid # Absent /\ node.ciphertext = NotBase64
  BY <1>3 DEF decrypter_decrypt, Err, ManagerErrors
<1>4. CASE node.kid # Absent /\ node.ciphertext # NotBase64 /\ node.ciphertext = Absent
  BY <1>4 DEF decrypter_decrypt, Err, ManagerErrors
<1>5. CASE node.kid # Absent /\ node.ciphertext \notin {NotBase64, Absent}
  <2>1. node.kid \in KeyIds
    BY <1>1, <1>5
  <2>2. CASE get(ring, node.kid) = Err("crypto_key_not_found")
    BY <1>5, <2>2 DEF decrypter_decrypt, Err, ManagerErrors
  <2>3. CASE get(ring, node.kid) = Ok(keys[ring][node.kid])
    <3>1. a = aead_decrypt(alg, keys[ring][node.kid], node.ciphertext)
      BY <1>5, <2>3 DEF decrypter_decrypt, Ok
    <3>2. QED BY <1>1, <1>5, <2>1, <3>1 DEF aead_decrypt, Err, ManagerErrors
  <2>4. QED BY <2>1, <2>2, <2>3, GetType
<1>6. QED BY <1>2, <1>3, <1>4, <1>5

\* manager->decrypt answers with an error, or with the plaintext of the node.
LEMMA ManagerDecrypt ==
    ASSUME ManagerTypeOK, NEW node \in EncryptionResults
    PROVE  LET a == manager_decrypt(node)
           IN  \/ a.err \in ManagerErrors /\ a.value = Absent
               \/ /\ node.alg \in Algorithms
                  /\ node.ciphertext \in Ciphertexts
                  /\ a = Ok(node.ciphertext.plain)
<1>1. node.alg \in Algorithms \cup {Absent}
  BY DEF EncryptionResults
<1>2. CASE node.alg = Absent
  BY <1>2 DEF manager_decrypt, Err, ManagerErrors
<1>3. CASE node.alg # Absent /\ algorithm_to_decrypter[node.alg] = Absent
  BY <1>3 DEF manager_decrypt, Err, ManagerErrors
<1>4. CASE node.alg # Absent /\ algorithm_to_decrypter[node.alg] # Absent
  <2>1. node.alg \in Algorithms /\ algorithm_to_decrypter[node.alg] \in Rings
    BY <1>1, <1>4 DEF ManagerTypeOK
  <2>2. manager_decrypt(node) =
          decrypter_decrypt(node.alg, algorithm_to_decrypter[node.alg], node)
    BY <1>4 DEF manager_decrypt
  <2>3. QED BY <2>1, <2>2, DecrypterDecrypt
<1>5. QED BY <1>2, <1>3, <1>4

\* What the answers of decrypt are, for a reader of its result.
LEMMA ManagerDecryptType ==
    ASSUME ManagerTypeOK, NEW node \in EncryptionResults
    PROVE  /\ manager_decrypt(node).err \in ManagerErrors \cup {"none"}
           /\ manager_decrypt(node).err = "none" =>
                /\ manager_decrypt(node).value \in Plaintexts
                /\ manager_decrypt(node).value = node.ciphertext.plain
           /\ manager_decrypt(node).err # "none" => manager_decrypt(node).value = Absent
  BY ManagerDecrypt DEF Ok, ManagerErrors, Ciphertexts

-----------------------------------------------------------------------------
(* Names.                                                                  *)

\* Every set of numbers that is not empty has a least one.
LEMMA LeastNat ==
    ASSUME NEW S \in SUBSET Nat, S # {}
    PROVE  \E i \in S : \A j \in S : i <= j
<1>1. PICK i \in S : \A j \in S : <<j, i>> \notin OpToRel(<, Nat)
  BY NatLessThanWellFounded, WFMin
<1>2. ASSUME NEW j \in S
      PROVE  i <= j
  <2>1. <<j, i>> \in Nat \X Nat
    OBVIOUS
  <2>2. QED BY <1>1, <2>1 DEF OpToRel
<1>3. QED BY <1>2

\* Mangling is undone by demangling, and gives a name that is_mangled accepts:
\* the two directions of the transcoder meet.
LEMMA DemangleMangle ==
    ASSUME NEW k \in Names
    PROVE  is_mangled(mangle(k)) /\ demangle(mangle(k)) = k
<1>1. CASE EmptyPrefix
  BY <1>1 DEF mangle, is_mangled, demangle
<1>2. CASE ~EmptyPrefix
  <2>1. k = [base |-> k.base, wraps |-> k.wraps] /\ k.wraps \in Nat
    BY FieldNamesAssumption DEF Names
  <2>2. mangle(k) = [base |-> k.base, wraps |-> k.wraps + 1]
    BY <1>2, <2>1 DEF mangle
  <2>3. demangle(mangle(k)) = [base |-> k.base, wraps |-> (k.wraps + 1) - 1]
    BY <1>2, <2>2 DEF demangle
  <2>4. QED BY <2>1, <2>2, <2>3 DEF is_mangled
<1>3. QED BY <1>1, <1>2

\* What names are made of.
LEMMA NameParts ==
    ASSUME NEW k \in Names
    PROVE  /\ k.base \in Int /\ k.base # 0 /\ k.wraps \in Nat
           /\ k = [base |-> k.base, wraps |-> k.wraps]
           /\ k # Begin
<1>1. k.base \in Bases /\ k.wraps \in 0..MaxWraps /\ k = [base |-> k.base, wraps |-> k.wraps]
  BY DEF Names
<1>2. k.base \in Int /\ k.base # 0 /\ k.wraps \in Nat
  BY <1>1, FieldNamesAssumption
<1>3. k # Begin
  BY <1>2 DEF Begin
<1>4. QED BY <1>1, <1>2, <1>3

\* Before is a strict total order, and the iterator starts before all names.
LEMMA BeforeOrder ==
    ASSUME NEW i \in Names \cup {Begin}, NEW j \in Names, NEW k \in Names
    PROVE  /\ ~Before(j, j)
           /\ Before(Begin, j) /\ ~Before(j, Begin)
           /\ Before(i, j) /\ Before(j, k) => Before(i, k)
           /\ Before(i, j) => ~Before(j, i)
           /\ ~Before(i, j) /\ i # j => Before(j, i)
<1>1. /\ j.base \in Int /\ j.base # 0 /\ j.wraps \in Nat /\ j # Begin
      /\ j = [base |-> j.base, wraps |-> j.wraps]
  BY NameParts
<1>2. /\ k.base \in Int /\ k.base # 0 /\ k.wraps \in Nat /\ k # Begin
      /\ k = [base |-> k.base, wraps |-> k.wraps]
  BY NameParts
<1>3. CASE i = Begin
  BY <1>1, <1>2, <1>3 DEF Before
<1>4. CASE i \in Names
  <2>1. /\ i.base \in Int /\ i.base # 0 /\ i.wraps \in Nat /\ i # Begin
        /\ i = [base |-> i.base, wraps |-> i.wraps]
    BY <1>4, NameParts
  <2>2. i.base = j.base /\ i.wraps = j.wraps => i = j
    BY <1>1, <2>1
  <2>3. QED BY <1>1, <1>2, <2>1, <2>2 DEF Before
<1>5. QED BY <1>3, <1>4

\* There are finitely many names.
LEMMA NamesFinite == IsFiniteSet(Names)
<1> DEFINE P == Bases \X (0..MaxWraps)
           f == [p \in P |-> [base |-> p[1], wraps |-> p[2]]]
<1>1. IsFiniteSet(0..MaxWraps)
  BY FieldNamesAssumption, FS_Interval
<1>2. IsFiniteSet(P)
  BY <1>1, FieldNamesAssumption, FS_Product
<1>3. f \in [P -> Names]
  BY DEF Names
<1>4. \A k \in Names : \E p \in P : f[p] = k
  <2>1. TAKE k \in Names
  <2>2. <<k.base, k.wraps>> \in P /\ f[<<k.base, k.wraps>>] = k
    BY DEF Names
  <2>3. QED BY <2>2
<1>5. f \in Surjection(P, Names)
  BY <1>3, <1>4 DEF Surjection
<1>6. QED BY <1>2, <1>5, FS_Surjection

\* Every set of names that is not empty has a first one.  It is the one with the
\* fewest names before it.
LEMMA FirstName ==
    ASSUME NEW S \in SUBSET Names, S # {}
    PROVE  \E k \in S : \A j \in S : ~Before(j, k)
<1> DEFINE Earlier(k) == {j \in S : Before(j, k)}
           T == {Earlier(k) : k \in S}
           R == StrictSubsetOrdering(Names)
<1>1. IsWellFoundedOn(R, FiniteSubsetsOf(Names))
  BY FS_StrictSubsetOrderingWellFounded
<1>2. T \subseteq FiniteSubsetsOf(Names) /\ T # {}
  <2>1. \A k \in S : Earlier(k) \in SUBSET Names
    OBVIOUS
  <2>2. FiniteSubsetsOf(Names) = SUBSET Names
    BY NamesFinite, FS_FiniteSubsetsOfFinite
  <2> HIDE DEF Earlier
  <2>3. QED BY <2>1, <2>2
<1>3. PICK x \in T : \A y \in T : <<y, x>> \notin R
  <2> HIDE DEF T, R
  <2>1. QED BY <1>1, <1>2, WFMin
<1>4. PICK k \in S : x = Earlier(k)
  BY <1>3
<1>5. ASSUME NEW j \in S, Before(j, k)
      PROVE  FALSE
  <2>1. Earlier(j) \subseteq Earlier(k)
    <3>1. ASSUME NEW i \in Earlier(j) PROVE i \in Earlier(k)
      BY <1>5, <3>1, BeforeOrder
    <3>2. QED BY <3>1
  <2>2. j \in Earlier(k) /\ j \notin Earlier(j)
    BY <1>5, BeforeOrder
  <2>3. <<Earlier(j), Earlier(k)>> \in R
    BY <2>1, <2>2 DEF StrictSubsetOrdering
  <2>4. QED BY <1>3, <1>4, <2>3
<1>6. QED BY <1>5
=============================================================================
