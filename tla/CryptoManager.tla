--------------------------- MODULE CryptoManager ---------------------------
(***************************************************************************)
(* The default manager with the encrypters and decrypters registered in    *)
(* it, the keyrings they share, and the encryption of one value.           *)
(*                                                                         *)
(* An encrypter is the provider's: a key id and a keyring; a decrypter is  *)
(* a keyring.  What the authenticated cipher of the client library does is *)
(* external: it opens a ciphertext with the key that made it and with no   *)
(* other.  Keys are looked up in the keyring at every use, so replacing a  *)
(* key (add_key with an id in use) shows in the next call.                 *)
(*                                                                         *)
(* Left out: initialization vectors (but their generation may fail), the   *)
(* base64 text of a ciphertext (but a node may carry text that is none),   *)
(* messages of errors.                                                     *)
(***************************************************************************)
EXTENDS FiniteSets

CONSTANTS
    Rings,          \* keyring objects
    KeyIds,         \* key names
    KeyBytes,       \* key material
    WrongLength,    \* the key material the cipher refuses for its length
    Algorithms,     \* algorithm names; a provider has exactly one
    Aliases,        \* names encrypters are registered under
    DefaultAlias,   \* the alias "__DEFAULT__"
    Plaintexts,     \* what is encrypted
    Absent,         \* no such entry, std::nullopt
    NotBase64,      \* a "ciphertext" member that base64::decode rejects
    Garbage,        \* base64 of bytes that no key opens
    CipherMayFail   \* TRUE: generating an IV or sealing may fail

\* What the cipher makes: what was sealed, and with what.
Ciphertexts == [alg: Algorithms, key: KeyBytes, plain: Plaintexts]

ASSUME CryptoManagerAssumption ==
    /\ WrongLength \subseteq KeyBytes
    /\ DefaultAlias \in Aliases
    /\ Absent \notin KeyBytes \cup Rings \cup KeyIds \cup Algorithms \cup Aliases
    /\ {Absent, NotBase64, Garbage} \cap Ciphertexts = {}
    /\ CipherMayFail \in BOOLEAN

VARIABLES
    keys,                   \* insecure_keyring::keys_ of every keyring
    alias_to_encrypter,     \* default_manager::alias_to_encrypter_
    algorithm_to_decrypter  \* default_manager::algorithm_to_decrypter_

manager_vars == <<keys, alias_to_encrypter, algorithm_to_decrypter>>

\* aead_aes_256_cbc_hmac_sha512_encrypter: its provider's algorithm and ring.
Encrypters == [alg: Algorithms, ring: Rings, kid: KeyIds]

\* encryption_result: a map from strings to strings, of which the library
\* reads three entries.  Other writers of a document may have left any out.
EncryptionResults ==
    [alg: Algorithms \cup {Absent},
     kid: KeyIds \cup {Absent},
     ciphertext: Ciphertexts \cup {Absent, NotBase64, Garbage}]

ManagerTypeOK ==
    /\ keys \in [Rings -> [KeyIds -> KeyBytes \cup {Absent}]]
    /\ alias_to_encrypter \in [Aliases -> Encrypters \cup {Absent}]
    /\ algorithm_to_decrypter \in [Algorithms -> Rings \cup {Absent}]

ManagerInit ==
    /\ keys = [r \in Rings |-> [id \in KeyIds |-> Absent]]
    /\ alias_to_encrypter = [a \in Aliases |-> Absent]
    /\ algorithm_to_decrypter = [a \in Algorithms |-> Absent]

-----------------------------------------------------------------------------
(* Answers: an error or a value, as in std::pair<error, T>.  An exception  *)
(* of the standard library that leaves the call is an error of its own.    *)

Ok(v) == [err |-> "none", value |-> v]
Err(e) == [err |-> e, value |-> Absent]

ManagerErrors ==
    {"encrypter_not_found", "decrypter_not_found", "crypto_key_not_found",
     "decryption_failure", "invalid_ciphertext", "cipher_failure", "out_of_range"}

-----------------------------------------------------------------------------
(* Keyring and provider.                                                   *)

\* insecure_keyring::get
get(ring, id) ==
    IF keys[ring][id] = Absent THEN Err("crypto_key_not_found")
                               ELSE Ok(keys[ring][id])

\* The client library's cipher, external to the repository.
aead_encrypt(alg, key, plain) ==
    IF key \in WrongLength THEN Err("cipher_failure")
                           ELSE Ok([alg |-> alg, key |-> key, plain |-> plain])

aead_decrypt(alg, key, ciphertext) ==
    IF ciphertext # Garbage /\ ciphertext.alg = alg /\ ciphertext.key = key
    THEN Ok(ciphertext.plain)
    ELSE Err("cipher_failure")

\* Mutant: every node names the same key.
encryption_result_one_kid(alg, kid, ciphertext) ==
    [alg |-> alg, kid |-> CHOOSE id \in KeyIds : TRUE, ciphertext |-> ciphertext]

\* encryption_result: the constructor stores "alg", and two calls of put add
\* the rest.  put never replaces, and refuses "alg".
encryption_result(alg, kid, ciphertext) ==
    [alg |-> alg, kid |-> kid, ciphertext |-> ciphertext]

\* Mutant: the error of the key look-up is not checked.
encrypter_encrypt_any_key(e, plain) ==
    {Ok(encryption_result(e.alg, e.kid,
        [alg |-> e.alg, key |-> get(e.ring, e.kid).value, plain |-> plain]))}

\* aead_aes_256_cbc_hmac_sha512_encrypter::encrypt, as the set of answers it
\* may give: the failure of the IV or the cipher is the environment's choice.
encrypter_encrypt(e, plain) ==
    LET key == get(e.ring, e.kid)
        sealed == aead_encrypt(e.alg, key.value, plain)
    IN  IF key.err # "none" THEN {key}
        ELSE {IF sealed.err # "none" THEN sealed
              ELSE Ok(encryption_result(e.alg, e.kid, sealed.value))}
             \cup (IF CipherMayFail THEN {Err("cipher_failure")} ELSE {})

\* Mutant: a ciphertext that does not open gives an empty plaintext.
decrypter_decrypt_err_dropped(alg, ring, node) ==
    IF Absent \in {node.kid, node.ciphertext} \/ node.ciphertext = NotBase64
    THEN Err("decryption_failure")
    ELSE Ok(aead_decrypt(alg, get(ring, node.kid).value, node.ciphertext).value)

\* aead_aes_256_cbc_hmac_sha512_decrypter::decrypt, checks in the code's order.
decrypter_decrypt(alg, ring, node) ==
    CASE node.kid = Absent           -> Err("decryption_failure")
      [] node.kid # Absent /\ node.ciphertext = NotBase64
                                     -> Err("invalid_ciphertext")
      [] node.kid # Absent /\ node.ciphertext = Absent
                                     -> Err("decryption_failure")
      [] OTHER -> LET key == get(ring, node.kid)
                  IN  IF key.err # "none" THEN key
                      ELSE aead_decrypt(alg, key.value, node.ciphertext)

-----------------------------------------------------------------------------
(* The manager.                                                            *)

\* encrypter_alias.value_or(default_encrypter_alias)
value_or_default(alias) == IF alias = Absent THEN DefaultAlias ELSE alias

\* default_manager::encrypt
manager_encrypt(plain, alias) ==
    LET e == alias_to_encrypter[value_or_default(alias)]
    IN  IF e = Absent THEN {Err("encrypter_not_found")}
                      ELSE encrypter_encrypt(e, plain)

\* default_manager::decrypt.  encryption_result::algorithm is a map's at():
\* it throws std::out_of_range for a node without "alg".
manager_decrypt(node) ==
    IF node.alg = Absent THEN Err("out_of_range")
    ELSE LET ring == algorithm_to_decrypter[node.alg]
         IN  IF ring = Absent THEN Err("decrypter_not_found")
                              ELSE decrypter_decrypt(node.alg, ring, node)

\* register_encrypter: map::operator[], a second registration replaces.
register_encrypter(alias, e) ==
    /\ alias_to_encrypter' = [alias_to_encrypter EXCEPT ![alias] = e]
    /\ UNCHANGED <<keys, algorithm_to_decrypter>>

register_default_encrypter(e) == register_encrypter(DefaultAlias, e)

\* register_decrypter files the decrypter under the algorithm it names.
register_decrypter(alg, ring) ==
    /\ algorithm_to_decrypter' = [algorithm_to_decrypter EXCEPT ![alg] = ring]
    /\ UNCHANGED <<keys, alias_to_encrypter>>

\* Mutant: the new key becomes the only one.
add_only_key(ring, id, bytes) ==
    /\ keys' = [keys EXCEPT ![ring] = [j \in KeyIds |-> IF j = id THEN bytes ELSE Absent]]
    /\ UNCHANGED <<alias_to_encrypter, algorithm_to_decrypter>>

\* insecure_keyring::add_key: rotation when the id is in use.
add_key(ring, id, bytes) ==
    /\ keys' = [keys EXCEPT ![ring][id] = bytes]
    /\ UNCHANGED <<alias_to_encrypter, algorithm_to_decrypter>>
=============================================================================
