------------------------ MODULE ManagerClientProofs ------------------------
(***************************************************************************)
(* The client of the manager never loses a value but with its key.  The    *)
(* inductive invariant is what a node says about how it was made: its      *)
(* "alg" and "kid" are those of the encrypter, and its ciphertext holds    *)
(* the plaintext under the bytes the key had then.                         *)
(***************************************************************************)
EXTENDS ManagerClient, CryptoManagerProofs

IssuedWellFormed ==
    \A i \in issued :
        i.node = encryption_result(i.by.alg, i.by.kid,
                    [alg |-> i.by.alg, key |-> i.bytes, plain |-> i.plain])

-----------------------------------------------------------------------------
\* A damaged node still has the shape of a node.
LEMMA ArrivalsType ==
    ASSUME NEW node \in EncryptionResults, NEW n \in Arrivals(node)
    PROVE  n \in EncryptionResults
  BY DEF Arrivals, EncryptionResults

\* A step of the client that encrypts.
LEMMA EncryptIssues ==
    ASSUME ManagerTypeOK, NEW plain \in Plaintexts, NEW alias \in Aliases \cup {Absent},
           Encrypt(plain, alias)
    PROVE  \/ issued' = issued
           \/ \E i \in Issues :
                /\ i.node = encryption_result(i.by.alg, i.by.kid,
                              [alg |-> i.by.alg, key |-> i.bytes, plain |-> i.plain])
                /\ issued' = issued \cup {i}
<1> DEFINE e == alias_to_encrypter[value_or_default(alias)]
<1>1. PICK a \in manager_encrypt(plain, alias) :
        issued' = IF a.err # "none" THEN issued
                  ELSE issued \cup {[node |-> a.value, plain |-> plain, by |-> e,
                                     bytes |-> keys[e.ring][e.kid]]}
  BY DEF Encrypt
<1>2. CASE a.err # "none"
  BY <1>1, <1>2
<1>3. CASE a.err = "none"
  <2> DEFINE i == [node |-> a.value, plain |-> plain, by |-> e, bytes |-> keys[e.ring][e.kid]]
  <2>1. a.value \in EncryptionResults
    BY <1>3, ManagerEncryptType
  <2>2. /\ e \in Encrypters
        /\ keys[e.ring][e.kid] \in KeyBytes
        /\ a = Ok(encryption_result(e.alg, e.kid,
                    [alg |-> e.alg, key |-> keys[e.ring][e.kid], plain |-> plain]))
    BY <1>3, ManagerEncrypt DEF ManagerErrors
  <2>3. i \in Issues
    BY <2>1, <2>2 DEF Issues
  <2>4. i.node = encryption_result(i.by.alg, i.by.kid,
                   [alg |-> i.by.alg, key |-> i.bytes, plain |-> i.plain])
    BY <2>2 DEF Ok
  <2>5. issued' = issued \cup {i}
    BY <1>1, <1>3
  <2>6. QED BY <2>3, <2>4, <2>5
<1>4. QED BY <1>2, <1>3

\* Every step keeps the types.
LEMMA TypeOKStep == TypeOK /\ [Next]_vars => TypeOK'
<1> SUFFICES ASSUME TypeOK, [Next]_vars PROVE TypeOK'
  OBVIOUS
<1> USE DEF TypeOK
<1>1. CASE RegisterEncrypter
  BY <1>1 DEF RegisterEncrypter, register_encrypter, ManagerTypeOK
<1>2. CASE RegisterDefaultEncrypter
  BY <1>2, CryptoManagerAssumption
     DEF RegisterDefaultEncrypter, register_default_encrypter, register_encrypter, ManagerTypeOK
<1>3. CASE RegisterDecrypter
  BY <1>3 DEF RegisterDecrypter, register_decrypter, ManagerTypeOK
<1>4. CASE AddKey
  BY <1>4 DEF AddKey, add_key, ManagerTypeOK
<1>5. ASSUME NEW plain \in Plaintexts, NEW alias \in Aliases \cup {Absent},
             Encrypt(plain, alias)
      PROVE  TypeOK'
  <2>1. issued' \subseteq Issues
    BY <1>5, EncryptIssues
  <2>2. UNCHANGED <<manager_vars, answer>>
    BY <1>5 DEF Encrypt
  <2>3. QED BY <2>1, <2>2 DEF manager_vars, ManagerTypeOK
<1>6. ASSUME NEW i \in issued, NEW node \in Arrivals(i.node), Decrypt(node)
      PROVE  TypeOK'
  <2>1. node \in EncryptionResults
    BY <1>6, ArrivalsType DEF Issues
  <2>2. /\ manager_decrypt(node).err \in ManagerErrors \cup {"none"}
        /\ manager_decrypt(node).value \in Plaintexts \cup {Absent}
    BY <2>1, ManagerDecryptType
  <2>3. answer' \in [node: EncryptionResults, err: ManagerErrors \cup {"none"},
                     value: Plaintexts \cup {Absent}]
    BY <1>6, <2>1, <2>2 DEF Decrypt
  <2>4. QED BY <1>6, <2>3 DEF Decrypt, manager_vars, ManagerTypeOK
<1>7. CASE UNCHANGED vars
  BY <1>7 DEF vars, manager_vars, ManagerTypeOK
<1>8. QED BY <1>1, <1>2, <1>3, <1>4, <1>5, <1>6, <1>7 DEF Next

\* The registries, the keys, the issued nodes and the answers keep their types
\* through every sequence of calls.
THEOREM ManagerClientTypeCorrect == Spec => []TypeOK
<1>1. Init => TypeOK
  BY CryptoManagerAssumption DEF Init, ManagerInit, TypeOK, ManagerTypeOK
<1>2. QED BY <1>1, TypeOKStep, PTL DEF Spec

-----------------------------------------------------------------------------
\* Every step keeps the issued nodes well-formed.
LEMMA IssuedStep == TypeOK /\ IssuedWellFormed /\ [Next]_vars => IssuedWellFormed'
<1> SUFFICES ASSUME TypeOK, IssuedWellFormed, [Next]_vars PROVE IssuedWellFormed'
  OBVIOUS
<1> USE DEF IssuedWellFormed
<1>1. ASSUME NEW plain \in Plaintexts, NEW alias \in Aliases \cup {Absent},
             Encrypt(plain, alias)
      PROVE  IssuedWellFormed'
  <2>1. CASE issued' = issued
    BY <2>1 DEF encryption_result
  <2>2. ASSUME NEW i \in Issues,
               i.node = encryption_result(i.by.alg, i.by.kid,
                          [alg |-> i.by.alg, key |-> i.bytes, plain |-> i.plain]),
               issued' = issued \cup {i}
        PROVE  IssuedWellFormed'
    BY <2>2 DEF encryption_result
  <2>3. QED BY <1>1, <2>1, <2>2, EncryptIssues DEF TypeOK
<1>2. CASE issued' = issued
  BY <1>2 DEF encryption_result
<1>3. QED
  BY <1>1, <1>2 DEF Next, RegisterEncrypter, RegisterDefaultEncrypter, RegisterDecrypter,
                    AddKey, Decrypt, vars

\* The invariant of the client.
LEMMA IssuedInvariant == Spec => [](TypeOK /\ IssuedWellFormed)
<1>1. Init => IssuedWellFormed
  BY DEF Init, IssuedWellFormed
<1>2. QED BY <1>1, IssuedStep, ManagerClientTypeCorrect, PTL DEF Spec

\* An issued value is readable exactly as long as its key is held: a node's own
\* "alg" and "kid" are enough to find the way back, and nothing else will do.
LEMMA ReadableIffKeyHeld ==
    ASSUME TypeOK, IssuedWellFormed, NEW i \in issued
    PROVE  Readable(i) <=> KeyHeld(i)
<1> DEFINE ring == algorithm_to_decrypter[i.by.alg]
<1>1. /\ i \in Issues
      /\ i.node = encryption_result(i.by.alg, i.by.kid,
                    [alg |-> i.by.alg, key |-> i.bytes, plain |-> i.plain])
  BY DEF TypeOK, IssuedWellFormed
<1>2. /\ i.node.alg = i.by.alg /\ i.node.kid = i.by.kid
      /\ i.node.ciphertext = [alg |-> i.by.alg, key |-> i.bytes, plain |-> i.plain]
  BY <1>1 DEF encryption_result
<1>3. /\ i.by.alg \in Algorithms /\ i.by.kid \in KeyIds /\ i.bytes \in KeyBytes
      /\ i.plain \in Plaintexts /\ i.node \in EncryptionResults
  BY <1>1 DEF Issues, Encrypters
<1>4. i.node.alg # Absent /\ i.node.kid # Absent
  BY <1>2, <1>3, CryptoManagerAssumption
<1>5. CASE ring = Absent
  <2>1. manager_decrypt(i.node) = Err("decrypter_not_found")
    BY <1>2, <1>4, <1>5 DEF manager_decrypt
  <2>2. QED BY <1>5, <2>1 DEF Readable, KeyHeld, Err, Ok
<1>6. CASE ring # Absent
  <2>1. ring \in Rings
    BY <1>3, <1>6 DEF TypeOK, ManagerTypeOK
  <2>2. manager_decrypt(i.node) = decrypter_decrypt(i.by.alg, ring, i.node)
    BY <1>2, <1>4, <1>6 DEF manager_decrypt
  <2>3. ASSUME Readable(i) PROVE KeyHeld(i)
    <3>1. decrypter_decrypt(i.by.alg, ring, i.node) = Ok(i.plain)
      BY <2>2, <2>3 DEF Readable
    <3>2. keys[ring][i.node.kid] = i.node.ciphertext.key
      BY <1>3, <2>1, <3>1, DecrypterDecrypt DEF TypeOK, Ok, ManagerErrors
    <3>3. QED BY <1>2, <1>6, <3>2 DEF KeyHeld
  <2>4. ASSUME KeyHeld(i) PROVE Readable(i)
    <3>1. keys[ring][i.by.kid] = i.bytes /\ keys[ring][i.by.kid] # Absent
      BY <1>3, <2>4, CryptoManagerAssumption DEF KeyHeld
    <3>2. get(ring, i.node.kid) = Ok(i.bytes)
      BY <1>2, <3>1 DEF get
    <3>3. i.node.ciphertext \notin {Absent, NotBase64, Garbage}
      BY <1>2, <1>3, CryptoManagerAssumption DEF Ciphertexts
    <3>4. decrypter_decrypt(i.by.alg, ring, i.node)
            = aead_decrypt(i.by.alg, i.bytes, i.node.ciphertext)
      BY <1>4, <3>2, <3>3 DEF decrypter_decrypt, Ok
    <3>5. aead_decrypt(i.by.alg, i.bytes, i.node.ciphertext) = Ok(i.plain)
      BY <1>2, <3>3 DEF aead_decrypt
    <3>6. QED BY <2>2, <3>4, <3>5 DEF Readable
  <2>5. QED BY <2>3, <2>4
<1>7. QED BY <1>5, <1>6

\* The same after a step.
LEMMA ReadableIffKeyHeldNext ==
    (TypeOK /\ IssuedWellFormed => \A i \in issued : Readable(i) <=> KeyHeld(i))'
<1>1. TypeOK /\ IssuedWellFormed => \A i \in issued : Readable(i) <=> KeyHeld(i)
  BY ReadableIffKeyHeld
<1>2. QED BY <1>1, PTL

\* ReadableWhileKeyHeld holds of every number of keyrings, keys, algorithms,
\* aliases and values: no call makes a value unreadable whose key is held.
THEOREM ManagerClientKeepsReadable == Spec => []ReadableWhileKeyHeld
<1>1. TypeOK /\ IssuedWellFormed => ReadableWhileKeyHeld
  BY ReadableIffKeyHeld DEF ReadableWhileKeyHeld
<1>2. QED BY <1>1, IssuedInvariant, PTL

\* No operation takes a key away: add_key is the only one that touches them.
LEMMA KeysStay ==
    ASSUME TypeOK, [Next]_vars, NEW r \in Rings, NEW id \in KeyIds, keys[r][id] \in KeyBytes
    PROVE  keys'[r][id] \in KeyBytes
<1>1. CASE AddKey
  <2>1. PICK ring \in Rings, k \in KeyIds, bytes \in KeyBytes : add_key(ring, k, bytes)
    BY <1>1 DEF AddKey
  <2>2. keys' = [keys EXCEPT ![ring][k] = bytes]
    BY <2>1 DEF add_key
  <2>3. QED BY <2>1, <2>2 DEF TypeOK, ManagerTypeOK
<1>2. CASE keys' = keys
  BY <1>2
<1>3. AddKey \/ keys' = keys
  BY DEF Next, RegisterEncrypter, RegisterDefaultEncrypter, RegisterDecrypter, Encrypt,
         Decrypt, register_encrypter, register_default_encrypter, register_decrypter,
         vars, manager_vars
<1>4. QED BY <1>1, <1>2, <1>3

\* A step after which an issued value is no longer readable has replaced the
\* key it was sealed with, or the decrypter of its algorithm.
LEMMA LossStep ==
    ASSUME TypeOK, IssuedWellFormed, TypeOK', IssuedWellFormed', [Next]_vars,
           NEW i \in issued, Readable(i), ~Readable(i)'
    PROVE  \/ algorithm_to_decrypter'[i.by.alg] # algorithm_to_decrypter[i.by.alg]
           \/ LET ring == algorithm_to_decrypter[i.by.alg]
              IN  keys[ring][i.by.kid] = i.bytes /\ keys'[ring][i.by.kid] \in KeyBytes \ {i.bytes}
<1>1. KeyHeld(i)
  BY ReadableIffKeyHeld
<1>2. i \in issued'
  BY EncryptIssues DEF Next, RegisterEncrypter, RegisterDefaultEncrypter, RegisterDecrypter,
                       AddKey, Decrypt, vars, TypeOK
<1>3. ~KeyHeld(i)'
  BY <1>2, ReadableIffKeyHeldNext
<1>4. ASSUME algorithm_to_decrypter'[i.by.alg] = algorithm_to_decrypter[i.by.alg]
      PROVE  LET ring == algorithm_to_decrypter[i.by.alg]
             IN  keys[ring][i.by.kid] = i.bytes /\ keys'[ring][i.by.kid] \in KeyBytes \ {i.bytes}
  <2> DEFINE ring == algorithm_to_decrypter[i.by.alg]
  <2>1. i.by.alg \in Algorithms /\ i.by.kid \in KeyIds /\ i.bytes \in KeyBytes
    BY DEF TypeOK, Issues, Encrypters
  <2>2. ring # Absent /\ keys[ring][i.by.kid] = i.bytes
    BY <1>1 DEF KeyHeld
  <2>3. ring \in Rings
    BY <2>1, <2>2 DEF TypeOK, ManagerTypeOK
  <2>4. keys'[ring][i.by.kid] \in KeyBytes
    BY <2>1, <2>2, <2>3, KeysStay
  <2>5. keys'[ring][i.by.kid] # i.bytes
    BY <1>3, <1>4, <2>2 DEF KeyHeld
  <2>6. QED BY <2>2, <2>4, <2>5
<1>5. QED BY <1>4

\* LossOnlyByReplacement, for every value of the constants.
THEOREM ManagerClientLosesOnlyByReplacement == Spec => LossOnlyByReplacement
<1>1. /\ TypeOK /\ IssuedWellFormed /\ TypeOK' /\ IssuedWellFormed'
      /\ [Next]_vars
      => [\A i \in issued :
            Readable(i) /\ ~Readable(i)' =>
              \/ algorithm_to_decrypter'[i.by.alg] # algorithm_to_decrypter[i.by.alg]
              \/ LET ring == algorithm_to_decrypter[i.by.alg]
                 IN  keys[ring][i.by.kid] = i.bytes /\ keys'[ring][i.by.kid] \in KeyBytes \ {i.bytes}]_vars
  BY LossStep
<1>2. QED BY <1>1, IssuedInvariant, PTL DEF Spec, LossOnlyByReplacement

-----------------------------------------------------------------------------
\* A node that arrives instead of an issued one, and still has a "alg" and
\* a ciphertext, has those of the issued one.
LEMMA ArrivalsKeep ==
    ASSUME NEW node \in EncryptionResults, NEW n \in Arrivals(node)
    PROVE  /\ n.alg \in {node.alg, Absent}
           /\ n.ciphertext \in {node.ciphertext, Absent, NotBase64, Garbage}
  BY DEF Arrivals, EncryptionResults

\* A step of the client keeps the last plaintext one that was issued.
LEMMA AnswerStep ==
    TypeOK /\ IssuedWellFormed /\ NoWrongPlaintext /\ [Next]_vars => NoWrongPlaintext'
<1> SUFFICES ASSUME TypeOK, IssuedWellFormed, NoWrongPlaintext, [Next]_vars
             PROVE  NoWrongPlaintext'
  OBVIOUS
<1>1. CASE UNCHANGED answer /\ issued \subseteq issued'
  BY <1>1 DEF NoWrongPlaintext
<1>2. ASSUME NEW i \in issued, NEW node \in Arrivals(i.node), Decrypt(node),
             answer'.err = "none"
      PROVE  NoWrongPlaintext'
  <2>1. i.node \in EncryptionResults /\ node \in EncryptionResults
    BY ArrivalsType DEF TypeOK, Issues
  <2>2. answer' = [node |-> node, err |-> manager_decrypt(node).err,
                   value |-> manager_decrypt(node).value]
    BY <1>2 DEF Decrypt
  <2>3. /\ node.alg \in Algorithms
        /\ node.ciphertext \in Ciphertexts
        /\ manager_decrypt(node).value = node.ciphertext.plain
    BY <1>2, <2>1, <2>2, ManagerDecrypt DEF TypeOK, Ok, ManagerErrors
  <2>4. node.alg = i.node.alg /\ node.ciphertext = i.node.ciphertext
    BY <2>1, <2>3, ArrivalsKeep, CryptoManagerAssumption
  <2>5. i.node.alg = i.by.alg /\ i.node.ciphertext.plain = i.plain
    <3>1. i.node = encryption_result(i.by.alg, i.by.kid,
                     [alg |-> i.by.alg, key |-> i.bytes, plain |-> i.plain])
      BY DEF IssuedWellFormed
    <3>2. QED BY <3>1 DEF encryption_result
  <2>6. i \in issued'
    BY <1>2 DEF Decrypt
  <2>7. QED BY <2>2, <2>3, <2>4, <2>5, <2>6 DEF NoWrongPlaintext
<1>3. ASSUME NEW i \in issued, NEW node \in Arrivals(i.node), Decrypt(node),
             answer'.err # "none"
      PROVE  NoWrongPlaintext'
  BY <1>3 DEF NoWrongPlaintext
<1>4. ASSUME NEW plain \in Plaintexts, NEW alias \in Aliases \cup {Absent},
             Encrypt(plain, alias)
      PROVE  UNCHANGED answer /\ issued \subseteq issued'
  BY <1>4, EncryptIssues DEF Encrypt, TypeOK
<1>5. QED
  BY <1>1, <1>2, <1>3, <1>4 DEF Next, RegisterEncrypter, RegisterDefaultEncrypter,
                                RegisterDecrypter, AddKey, vars

\* NoWrongPlaintext, for every value of the constants.
THEOREM ManagerClientNoWrongPlaintext == Spec => []NoWrongPlaintext
<1>1. Init => NoWrongPlaintext
  BY DEF Init, NoWrongPlaintext
<1>2. QED BY <1>1, AnswerStep, IssuedInvariant, PTL DEF Spec
=============================================================================
