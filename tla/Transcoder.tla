----------------------------- MODULE Transcoder -----------------------------
(***************************************************************************)
(* crypto::internal::encrypt and decrypt (src/transcoder.cxx): sealing the *)
(* listed fields of a JSON document in place, and opening every sealed     *)
(* field of one.                                                           *)
(*                                                                         *)
(* A document is a tree of values.  Value 1 is the root, the values        *)
(* 1..NodeCount are those of the application's document, and value         *)
(* NodeCount + i is the object that stands for the i-th sealed field, its  *)
(* envelope.  Serialising a value, encrypting, decrypting and parsing it   *)
(* again gives the value back, so the plaintext in a ciphertext is simply  *)
(* the value that was sealed.  The elements of an array are members too,   *)
(* of which only the order of the names matters.                           *)
(*                                                                         *)
(* The application's calls follow one another, but each use of a key is a  *)
(* look-up in a keyring the application owns, so keys may be replaced      *)
(* between any two steps of a call.                                        *)
(*                                                                         *)
(* Left out: the text of numbers and strings, members named "alg", "kid"   *)
(* or "ciphertext", and unparsable input.                                  *)
(***************************************************************************)
EXTENDS Sequences, Functions, FieldNames, CryptoManager

CONSTANTS
    NodeCount,      \* the number of values in the application's document
    Documents,      \* the documents an application may start with
    Setups,         \* the keys and registrations it may start with
    FieldLists,     \* the lists of encrypted fields it may pass to encrypt
    MaxEnvelopes    \* bound: fields sealed in one document

Root == 1
DocNodes == 1..NodeCount
Nodes == 1..(NodeCount + MaxEnvelopes)
Envelope(i) == NodeCount + i

Kinds == {"object", "array", "leaf"}

\* std::map from names to values of V.
MapsTo(V) == UNION {[S -> V] : S \in SUBSET Names}
Members == MapsTo(Nodes)

\* A path that can be asked for leaves room for one more prefix on its names.
Requestable == [base: Bases, wraps: 0..(MaxWraps - 1)]
Paths == Seq(Requestable)
EncryptedFields == [path: Paths, alias: Aliases \cup {Absent}]

ASSUME TranscoderAssumption ==
    /\ NodeCount \in Nat \ {0}
    /\ MaxEnvelopes \in Nat
    /\ Nodes \subseteq Plaintexts
    /\ Documents \subseteq [kind: [DocNodes -> Kinds],
                             members: [DocNodes -> MapsTo(DocNodes)]]
    /\ FieldLists \subseteq Seq(EncryptedFields)
    /\ Setups \subseteq [keys: [Rings -> [KeyIds -> KeyBytes \cup {Absent}]],
                         encrypters: [Aliases -> Encrypters \cup {Absent}],
                         decrypters: [Algorithms -> Rings \cup {Absent}]]

\* A tao::json::value owns its members: none of them is a member elsewhere.
IsTree(members) ==
    \A n, m \in DocNodes : \A k \in DOMAIN members[n], j \in DOMAIN members[m] :
        /\ members[n][k] # Root
        /\ members[n][k] = members[m][j] => n = m /\ k = j

ASSUME TreesAssumption == \A d \in Documents : IsTree(d.members)

VARIABLES
    kind,           \* what each value of the document is
    original,       \* the members of each, as the application wrote them
    stored,         \* the document as the last successful encrypt left it
    returned,       \* what the last successful decrypt returned
    result,         \* which call returned last, and with what error
    pc,             \* where the running call is; "idle" between calls
    \* locals of both
    document,
    \* locals of encrypt
    ordered_encrypted_fields, field, blob, depth,
    \* locals of decrypt: the activations of decrypt_json_value, innermost
    \* first, and the iterator and list of decrypt_top_level_object_fields
    stack, cursor, encrypted_keys

app_vars == <<kind, original, stored, returned, result>>
encrypt_vars == <<ordered_encrypted_fields, field, blob, depth>>
decrypt_vars == <<stack, cursor, encrypted_keys>>
vars == <<manager_vars, app_vars, pc, document, encrypt_vars, decrypt_vars>>

EncryptSteps == {"parsed", "field", "walk"}
DecryptSteps == {"visit", "scan", "children"}

NoMembers == [k \in {} |-> Root]

\* tao::json::value: find and at look into the members, is_object tells the
\* kind.  An envelope is an object whose own members are the strings of its
\* encryption result, none of them among Names.
members_of(d, n) == IF n \in DocNodes THEN d.members[n] ELSE NoMembers
is_object(n) == n \in DocNodes => kind[n] = "object"

put(f, k, v) == [j \in DOMAIN f \cup {k} |-> IF j = k THEN v ELSE f[j]]
erase(f, S) == Restrict(f, DOMAIN f \ S)

-----------------------------------------------------------------------------
Init ==
    /\ \E s \in Setups :
         /\ keys = s.keys
         /\ alias_to_encrypter = s.encrypters
         /\ algorithm_to_decrypter = s.decrypters
    /\ \E d \in Documents : kind = d.kind /\ original = d.members
    /\ stored = [members |-> original, envelopes |-> << >>]
    /\ returned = Absent
    /\ result = [call |-> "none", err |-> "none"]
    /\ pc = "idle"
    /\ document = stored
    /\ ordered_encrypted_fields = << >> /\ field = 1 /\ blob = Root /\ depth = 1
    /\ stack = << >> /\ cursor = Begin /\ encrypted_keys = {}

\* The call returns, and its locals are gone.
Return(call, err) ==
    /\ result' = [call |-> call, err |-> err]
    /\ pc' = "idle"
    /\ document' = stored'
    /\ ordered_encrypted_fields' = << >> /\ field' = 1 /\ blob' = Root /\ depth' = 1
    /\ stack' = << >> /\ cursor' = Begin /\ encrypted_keys' = {}
    /\ UNCHANGED <<manager_vars, kind, original>>

\* It returns with an error: what was stored and returned before stays.
Fail(call, err) ==
    /\ UNCHANGED <<stored, returned>>
    /\ Return(call, err)

-----------------------------------------------------------------------------
(* encrypt                                                                 *)

\* Mutant: the comparison is the wrong way round.
sort_shortest_first(fields) ==
    {o \in {[i \in DOMAIN fields |-> fields[p[i]]] :
              p \in Bijection(DOMAIN fields, DOMAIN fields)} :
       \A i, j \in DOMAIN fields : i < j => Len(o[i].path) <= Len(o[j].path)}

\* std::sort by decreasing length of the path.  It is not stable: paths of
\* equal length come in any order.
sort(fields) ==
    {o \in {[i \in DOMAIN fields |-> fields[p[i]]] :
              p \in Bijection(DOMAIN fields, DOMAIN fields)} :
       \A i, j \in DOMAIN fields : i < j => Len(o[i].path) >= Len(o[j].path)}

\* The call: the list is copied and sorted, the document copied by parsing.
encrypt(fields) ==
    /\ pc = "idle"
    /\ Len(stored.envelopes) + Len(fields) <= MaxEnvelopes
    /\ ordered_encrypted_fields' \in sort(fields)
    /\ pc' = "parsed"
    /\ UNCHANGED <<manager_vars, app_vars, document, field, blob, depth, decrypt_vars>>

CheckRoot ==
    /\ pc = "parsed"
    /\ \/ /\ ~is_object(Root)
          /\ Fail("encrypt", "encryption_failure")
       \/ /\ is_object(Root)
          /\ pc' = "field"
          /\ UNCHANGED <<manager_vars, app_vars, document, encrypt_vars, decrypt_vars>>

path == ordered_encrypted_fields[field].path

\* The next turn of the loop over the fields.
BeginField ==
    /\ pc = "field"
    /\ field <= Len(ordered_encrypted_fields)
    /\ \/ /\ path = << >>
          /\ Fail("encrypt", "encryption_failure")
       \/ /\ path # << >>
          /\ pc' = "walk" /\ blob' = Root /\ depth' = 1
          /\ UNCHANGED <<manager_vars, app_vars, document, ordered_encrypted_fields,
                         field, decrypt_vars>>

\* One turn of the loop down the path: blob->find, and it must be an object.
Descend ==
    /\ pc = "walk"
    /\ depth < Len(path)
    /\ LET found == /\ path[depth] \in DOMAIN members_of(document, blob)
                    /\ is_object(members_of(document, blob)[path[depth]])
       IN  \/ /\ ~found
              /\ Fail("encrypt", "encryption_failure")
           \/ /\ found
              /\ blob' = members_of(document, blob)[path[depth]]
              /\ depth' = depth + 1
              /\ UNCHANGED <<manager_vars, app_vars, pc, document,
                             ordered_encrypted_fields, field, decrypt_vars>>

\* Mutant: the plain member is not erased.
seal_and_keep(d, n, k, node) ==
    LET i == Len(d.envelopes) + 1
    IN  [members   |-> [d.members EXCEPT ![n] = put(@, mangle(k), Envelope(i))],
         envelopes |-> Append(d.envelopes, node)]

\* Mutant: the envelope is put into the document instead of the object that
\* the path leads to.
seal_at_root(d, n, k, node) ==
    LET i == Len(d.envelopes) + 1
        erased == [d.members EXCEPT ![n] = erase(@, {k})]
    IN  [members   |-> [erased EXCEPT ![Root] = put(@, mangle(k), Envelope(i))],
         envelopes |-> Append(d.envelopes, node)]

\* In the object n of d, the member k is erased and its envelope, for the
\* encryption result node, is put under the mangled name; what was there under
\* that name is overwritten.
seal(d, n, k, node) ==
    LET i == Len(d.envelopes) + 1
    IN  [members   |-> [d.members EXCEPT ![n] = put(erase(@, {k}), mangle(k), Envelope(i))],
         envelopes |-> Append(d.envelopes, node)]

\* The end of the path: the member is found, encrypted and replaced.
SealField ==
    /\ pc = "walk"
    /\ depth = Len(path)
    /\ \/ /\ path[depth] \notin DOMAIN members_of(document, blob)
          /\ Fail("encrypt", "encryption_failure")
       \/ /\ path[depth] \in DOMAIN members_of(document, blob)
          /\ \E a \in manager_encrypt(members_of(document, blob)[path[depth]],
                                      ordered_encrypted_fields[field].alias) :
               \/ /\ a.err # "none"
                  /\ Fail("encrypt", a.err)
               \/ /\ a.err = "none"
                  /\ document' = seal(document, blob, path[depth], a.value)
                  /\ pc' = "field" /\ field' = field + 1
                  /\ UNCHANGED <<manager_vars, app_vars, ordered_encrypted_fields,
                                 blob, depth, decrypt_vars>>

\* The list is done: the document is generated, and the application stores it.
FinishEncrypt ==
    /\ pc = "field"
    /\ field > Len(ordered_encrypted_fields)
    /\ stored' = document
    /\ UNCHANGED returned
    /\ Return("encrypt", "none")

-----------------------------------------------------------------------------
(* decrypt                                                                 *)

\* decrypt parses the stored document and calls decrypt_json_value on it.
decrypt ==
    /\ pc = "idle"
    /\ stack' = <<[value |-> Root, at |-> Begin]>>
    /\ pc' = "visit"
    /\ UNCHANGED <<manager_vars, app_vars, document, encrypt_vars, cursor, encrypted_keys>>

value == Head(stack).value

\* Mutant: the sealed fields of the root are opened and no others.
VisitRootOnly ==
    /\ pc = "visit"
    /\ pc' = IF is_object(value) /\ Len(stack) = 1 THEN "scan" ELSE "children"
    /\ cursor' = Begin /\ encrypted_keys' = {}
    /\ UNCHANGED <<manager_vars, app_vars, document, encrypt_vars, stack>>

\* decrypt_json_value: an object has its own sealed fields opened before its
\* members are visited, an array has its items visited, anything else is done.
Visit ==
    /\ pc = "visit"
    /\ pc' = IF is_object(value) THEN "scan" ELSE "children"
    /\ cursor' = Begin /\ encrypted_keys' = {}
    /\ UNCHANGED <<manager_vars, app_vars, document, encrypt_vars, stack>>

mangled_keys == {k \in DOMAIN members_of(document, value) : is_mangled(k)}

\* In the object n of d, the opened value v goes under the name k.
open(d, n, k, v) == [d EXCEPT !.members[n] = put(@, k, v)]

\* decrypt_top_level_object_fields: the next sealed field is decrypted, and its
\* value inserted into the very map that is being iterated over.  A mangled
\* name whose value is an object but no envelope makes get_string or at throw.
OpenField ==
    /\ pc = "scan"
    /\ \E k \in Following(mangled_keys, cursor) :
         LET v == members_of(document, value)[k]
         IN  \/ /\ ~is_object(v)
                /\ Fail("decrypt", "invalid_ciphertext")
             \/ /\ is_object(v) /\ v \in DocNodes
                /\ Fail("decrypt", "exception")
             \/ /\ v \notin DocNodes
                /\ LET a == manager_decrypt(document.envelopes[v - NodeCount])
                   IN  \/ /\ a.err # "none"
                          /\ Fail("decrypt", a.err)
                       \/ /\ a.err = "none"
                          /\ document' = open(document, value, demangle(k), a.value)
                          /\ cursor' = k
                          /\ encrypted_keys' = encrypted_keys \cup {k}
                          /\ UNCHANGED <<manager_vars, app_vars, pc, encrypt_vars, stack>>

\* Mutant: the opened fields are not erased.
close_nothing(d, n, S) == d

\* No mangled name is left in front of the iterator: the opened ones go.
close(d, n, S) == [d EXCEPT !.members[n] = erase(@, S)]

EraseKeys ==
    /\ pc = "scan"
    /\ Following(mangled_keys, cursor) = {}
    /\ document' = IF value \in DocNodes
                   THEN close(document, value, encrypted_keys)
                   ELSE document
    /\ pc' = "children"
    /\ UNCHANGED <<manager_vars, app_vars, encrypt_vars, decrypt_vars>>

\* The loops over the members and over the items: the recursive call.
VisitChild ==
    /\ pc = "children"
    /\ stack # << >>
    /\ \E k \in Following(DOMAIN members_of(document, value), Head(stack).at) :
         stack' = <<[value |-> members_of(document, value)[k], at |-> Begin],
                    [value |-> value, at |-> k]>> \o Tail(stack)
    /\ pc' = "visit"
    /\ UNCHANGED <<manager_vars, app_vars, document, encrypt_vars, cursor, encrypted_keys>>

\* They are over: back to the activation below.
Leave ==
    /\ pc = "children"
    /\ stack # << >>
    /\ Following(DOMAIN members_of(document, value), Head(stack).at) = {}
    /\ stack' = Tail(stack)
    /\ UNCHANGED <<manager_vars, app_vars, pc, document, encrypt_vars, cursor, encrypted_keys>>

\* Mutant: the stored document is opened in place.
FinishDecryptInPlace ==
    /\ pc = "children"
    /\ stack = << >>
    /\ returned' = document.members
    /\ stored' = document
    /\ Return("decrypt", "none")

\* The document is generated and deserialized for the application.
FinishDecrypt ==
    /\ pc = "children"
    /\ stack = << >>
    /\ returned' = document.members
    /\ UNCHANGED stored
    /\ Return("decrypt", "none")

-----------------------------------------------------------------------------
\* The application replaces a key, between calls or during one.
AddKey ==
    /\ \E ring \in Rings, id \in KeyIds, bytes \in KeyBytes : add_key(ring, id, bytes)
    /\ UNCHANGED <<app_vars, pc, document, encrypt_vars, decrypt_vars>>

Call == decrypt \/ \E fields \in FieldLists : encrypt(fields)

Step ==
    \/ CheckRoot \/ BeginField \/ Descend \/ SealField \/ FinishEncrypt
    \/ Visit \/ OpenField \/ EraseKeys \/ VisitChild \/ Leave \/ FinishDecrypt

Next == Call \/ Step \/ AddKey

\* A call that runs keeps running.  Nothing makes the application call.
Spec == Init /\ [][Next]_vars /\ WF_vars(Step)
=============================================================================
