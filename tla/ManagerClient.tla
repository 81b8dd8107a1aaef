--------------------------- MODULE ManagerClient ---------------------------
(***************************************************************************)
(* An application that uses the default manager directly: it registers     *)
(* encrypters and decrypters, adds and replaces keys, encrypts values, and *)
(* decrypts nodes it was issued, perhaps after another writer has damaged  *)
(* them.  Every call is one step: the library starts no thread and takes   *)
(* no lock, and what it promises, it promises to calls that do not overlap.*)
(***************************************************************************)
EXTENDS Naturals, CryptoManager

CONSTANTS
    MaxIssued       \* bound: values encrypted in a behaviour

ASSUME ManagerClientAssumption == MaxIssued \in Nat

VARIABLES
    issued,         \* what encrypt answered, and the circumstances
    answer          \* the last answer of decrypt, with the node it was given

vars == <<manager_vars, issued, answer>>

\* A node that encrypt returned, with what it was made from: the plaintext,
\* the encrypter behind the alias and the key bytes at that moment.
Issues == [node: EncryptionResults, plain: Plaintexts, by: Encrypters, bytes: KeyBytes]

NoAnswer == [node |-> Absent, err |-> "none", value |-> Absent]

TypeOK ==
    /\ ManagerTypeOK
    /\ issued \subseteq Issues
    /\ \/ answer = NoAnswer
       \/ answer \in [node: EncryptionResults, err: ManagerErrors \cup {"none"},
                      value: Plaintexts \cup {Absent}]

Init ==
    /\ ManagerInit
    /\ issued = {}
    /\ answer = NoAnswer

-----------------------------------------------------------------------------
RegisterEncrypter ==
    /\ \E alias \in Aliases, e \in Encrypters : register_encrypter(alias, e)
    /\ UNCHANGED <<issued, answer>>

RegisterDefaultEncrypter ==
    /\ \E e \in Encrypters : register_default_encrypter(e)
    /\ UNCHANGED <<issued, answer>>

RegisterDecrypter ==
    /\ \E alg \in Algorithms, ring \in Rings : register_decrypter(alg, ring)
    /\ UNCHANGED <<issued, answer>>

AddKey ==
    /\ \E ring \in Rings, id \in KeyIds, bytes \in KeyBytes : add_key(ring, id, bytes)
    /\ UNCHANGED <<issued, answer>>

\* manager->encrypt with an alias, or with std::nullopt.
Encrypt(plain, alias) ==
    /\ Cardinality(issued) < MaxIssued
    /\ \E a \in manager_encrypt(plain, alias) :
         LET by == alias_to_encrypter[value_or_default(alias)]
         IN  issued' = IF a.err # "none" THEN issued
                       ELSE issued \cup {[node |-> a.value, plain |-> plain, by |-> by,
                                          bytes |-> keys[by.ring][by.kid]]}
    /\ UNCHANGED <<manager_vars, answer>>

\* The nodes that reach decrypt in place of an issued one: itself, or what a
\* writer made of it by dropping a member, spoiling the ciphertext or naming
\* another key.
Arrivals(node) ==
    {node,
     [node EXCEPT !.alg = Absent],
     [node EXCEPT !.kid = Absent],
     [node EXCEPT !.ciphertext = Absent],
     [node EXCEPT !.ciphertext = NotBase64],
     [node EXCEPT !.ciphertext = Garbage]}
    \cup {[node EXCEPT !.kid = id] : id \in KeyIds}

Decrypt(node) ==
    /\ LET a == manager_decrypt(node)
       IN  answer' = [node |-> node, err |-> a.err, value |-> a.value]
    /\ UNCHANGED <<manager_vars, issued>>

Next ==
    \/ RegisterEncrypter
    \/ RegisterDefaultEncrypter
    \/ RegisterDecrypter
    \/ AddKey
    \/ \E plain \in Plaintexts, alias \in Aliases \cup {Absent} : Encrypt(plain, alias)
    \/ \E i \in issued : \E node \in Arrivals(i.node) : Decrypt(node)

Spec == Init /\ [][Next]_vars

-----------------------------------------------------------------------------
(* Correctness.                                                            *)

\* The manager would answer decrypt of the issued node with its plaintext.
Readable(i) == manager_decrypt(i.node) = Ok(i.plain)

\* The decrypter filed under the encrypter's algorithm finds, under the
\* encrypter's key id, the bytes the value was sealed with.
KeyHeld(i) ==
    LET ring == algorithm_to_decrypter[i.by.alg]
    IN  ring # Absent /\ keys[ring][i.by.kid] = i.bytes

\* A value stays readable as long as its key does, whatever was registered,
\* re-registered under the same alias, or rotated under other ids since: the
\* node alone (its "alg" and "kid") leads back to the right decrypter and key.
ReadableWhileKeyHeld == \A i \in issued : KeyHeld(i) => Readable(i)

\* The only steps that make a value unreadable are the replacement of the key
\* it was sealed with, by another, and of the decrypter of its algorithm;
\* adding a key under another id, registering encrypters, and encrypting and
\* decrypting other values never do, and no key is ever just gone.
LossOnlyByReplacement ==
    [][\A i \in issued :
         Readable(i) /\ ~Readable(i)' =>
           \/ algorithm_to_decrypter'[i.by.alg] # algorithm_to_decrypter[i.by.alg]
           \/ LET ring == algorithm_to_decrypter[i.by.alg]
              IN  keys[ring][i.by.kid] = i.bytes /\ keys'[ring][i.by.kid] \in KeyBytes \ {i.bytes}]_vars

\* decrypt answers with a plaintext only if it was sealed under the key that
\* the node names now, and then with the very plaintext: no damage to a node
\* and no rotation turns one value into another.
NoWrongPlaintext ==
    (answer # NoAnswer /\ answer.err = "none") =>
        \E i \in issued :
            /\ answer.value = i.plain
            /\ answer.node.ciphertext = i.node.ciphertext
            /\ answer.node.alg = i.by.alg

\* manager.hxx:55 and default_manager.hxx:88: decrypt returns "the plaintext
\* message if decryption was successful, or an error if it failed".  It does
\* not return at all for a node without "alg".
DecryptReturns == answer.err # "out_of_range"
=============================================================================
