---------------------------- MODULE CryptoSession ----------------------------
(***************************************************************************)
(* Applications that store a document and get it back through different    *)
(* transcoders: none, the library's crypto::transcoder with the fields of  *)
(* a type or of a crypto::document, and the custom one of the examples,    *)
(* which encrypts the field "address" with the manager itself.             *)
(*                                                                         *)
(* One action is one call of an application.  What crypto::internal's      *)
(* encrypt and decrypt do step by step is the module Transcoder's matter;  *)
(* here they are functions, on documents that are objects of leaves and of *)
(* objects of leaves.  Serialising and deserializing give back the value   *)
(* (JsonText), except that a user-defined type needs all its fields.  The  *)
(* collection is external: it keeps the last value stored.                 *)
(***************************************************************************)
EXTENDS Sequences, Functions, FieldNames, CryptoManager

CONSTANTS
    Clients,
    Contents,       \* what leaves hold
    Setups,         \* the keys and registrations there are at first
    AddedKeys,      \* the keys that are added: records of ring, id and bytes
    Fresh,          \* the documents clients make
    address,        \* the name the custom transcoder knows
    Types,          \* the types clients have their documents in
    Listed,         \* the types with a const list of encrypted fields
    TypeFields,     \* the lists, by type
    UserPaths,      \* the paths every type but "json" needs
    FieldChoices,   \* the fields with_encrypted_field is called with
    MaxFields,      \* bound: fields of one crypto document
    Managed         \* the clients whose cluster options have a crypto manager

Json == "json"                  \* tao::json::value
CryptoDocument == "document"    \* crypto::document<...>
JsonFlags == "json"
Flags == {JsonFlags, "binary"}

\* A value: a leaf, an object, or the envelope of a sealed field.
Value(form, content, members, node) ==
    [form |-> form, content |-> content, members |-> members, node |-> node]
Leaf(x) == Value("leaf", x, << >>, Absent)
Object(members) == Value("object", Absent, members, Absent)
Envelope(node) == Value("envelope", Absent, << >>, node)

\* The envelopes that encrypters make of values in V.
SealedValues(V) ==
    {Envelope([alg |-> a, kid |-> i, ciphertext |-> [alg |-> a, key |-> b, plain |-> u]]) :
       a \in Algorithms, i \in KeyIds, b \in KeyBytes, u \in V}

\* An object with members in V.  A name has the prefix just when there is an
\* envelope under it, and the name without the prefix is not there too.
PlainNames == {k \in Names : ~is_mangled(k)}
Named(m) ==
    \A k \in DOMAIN m :
        IF is_mangled(k) THEN m[k].form = "envelope" /\ demangle(k) \in PlainNames \ DOMAIN m
                         ELSE m[k].form # "envelope"
IsObject(v, V) ==
    /\ v = Object(v.members)
    /\ DOMAIN v.members \subseteq Names
    /\ v.members \in [DOMAIN v.members -> V]
    /\ Named(v.members)

\* A document is an object of leaves, objects of leaves, and envelopes of
\* either; an object of leaves may have envelopes for leaves too.
Leaves == {Leaf(x) : x \in Contents}
InnerMembers == UNION {[S -> Leaves \cup SealedValues(Leaves)] : S \in SUBSET Names}
Inner == Leaves \cup {Object(m) : m \in {m \in InnerMembers : Named(m)}}
Members == Inner \cup SealedValues(Inner)
IsDocument(v) == IsObject(v, Members)

\* encrypted_field, in the lists of types and of crypto documents.
Fields == [path: UserPaths, alias: Aliases \cup {Absent}]

\* There is no document in the collection, or in the hands of a client.
NotStored == [value |-> Absent, flags |-> Absent]
NotHeld == [value |-> Absent, type |-> Absent, fields |-> << >>]

ASSUME CryptoSessionAssumption ==
    /\ Listed \subseteq Types
    /\ Json \in Types \ Listed
    /\ CryptoDocument \notin Types
    /\ address \in PlainNames
    /\ MaxFields \in Nat
    /\ Managed \subseteq Clients
    /\ AddedKeys \subseteq [ring: Rings, id: KeyIds, bytes: KeyBytes]
    /\ \A u \in Setups :
         /\ u.keys \in [Rings -> [KeyIds -> KeyBytes \cup {Absent}]]
         /\ u.encrypters \in [Aliases -> Encrypters \cup {Absent}]
         /\ u.decrypters \in [Algorithms -> Rings \cup {Absent}]
    /\ Absent \notin Flags \cup Types \cup {CryptoDocument}

\* The applications' own names are free of the prefix, which is not empty.
ASSUME PlainNamesAssumption ==
    /\ ~EmptyPrefix /\ MaxWraps >= 1
    /\ UserPaths \subseteq Seq(PlainNames)
    /\ FieldChoices \subseteq Fields
    /\ \A type \in Listed : TypeFields[type] \in Seq(Fields)
    /\ \A d \in Fresh :
         /\ IsDocument(d)
         /\ \A k \in DOMAIN d.members :
              /\ k \in PlainNames
              /\ DOMAIN d.members[k].members \subseteq PlainNames

\* Whatever there may be in a document can be encrypted.
ASSUME PlaintextsAssumption == Inner \subseteq Plaintexts

VARIABLES
    stored,     \* the collection: encoded_value, or NotStored
    held        \* what each client has: a value, its type and its list, or NotHeld

session_vars == <<stored, held>>
vars == <<manager_vars, session_vars>>

put(f, k, v) == [j \in DOMAIN f \cup {k} |-> IF j = k THEN v ELSE f[j]]
erase(f, S) == Restrict(f, DOMAIN f \ S)

-----------------------------------------------------------------------------
(* crypto::internal::encrypt                                               *)

\* The member k is erased, and its envelope put under the mangled name.
seal(v, k, node) ==
    [v EXCEPT !.members = put(erase(@, {k}), mangle(k), Envelope(node))]

encrypt_member(v, k, alias) ==
    IF v.form # "object" \/ k \notin DOMAIN v.members THEN {Err("encryption_failure")}
    ELSE {IF a.err = "none" THEN Ok(seal(v, k, a.value)) ELSE Err(a.err) :
            a \in manager_encrypt(v.members[k], alias)}

encrypt_field(v, f) ==
    CASE Len(f.path) = 1 -> encrypt_member(v, f.path[1], f.alias)
      [] Len(f.path) = 2 /\ f.path[1] \in DOMAIN v.members ->
           {IF a.err = "none" THEN Ok([v EXCEPT !.members[f.path[1]] = a.value]) ELSE a :
              a \in encrypt_member(v.members[f.path[1]], f.path[2], f.alias)}
      [] OTHER -> {Err("encryption_failure")}

\* std::sort by decreasing length of the path, which leaves ties in any order.
sort(fields) ==
    {o \in {[i \in DOMAIN fields |-> fields[p[i]]] :
              p \in Bijection(DOMAIN fields, DOMAIN fields)} :
       \A i, j \in DOMAIN fields : i < j => Len(o[i].path) >= Len(o[j].path)}

\* The answers after one more field: the first error ends it.
encrypt_next(answers, f) ==
    UNION {IF a.err = "none" THEN encrypt_field(a.value, f) ELSE {a} : a \in answers}

\* All answers encrypt may give for the list.
encrypt(v, fields) ==
    LET answers(o) ==
          LET after[i \in 0..Len(o)] ==
                IF i = 0 THEN {Ok(v)} ELSE encrypt_next(after[i - 1], o[i])
          IN  after[Len(o)]
    IN  UNION {answers(o) : o \in sort(fields)}

-----------------------------------------------------------------------------
(* crypto::internal::decrypt                                               *)

\* The first name of S in the order of the map.
First(S) == CHOOSE k \in S : \A j \in S : ~Before(j, k)

\* decrypt_top_level_object_fields
open_fields(v) ==
    LET sealed == {k \in DOMAIN v.members : is_mangled(k)}
        opened == [k \in sealed |-> manager_decrypt(v.members[k].node)]
        failed == {k \in sealed : opened[k].err # "none"}
    IN  IF failed # {} THEN Err(opened[First(failed)].err)
        ELSE Ok([v EXCEPT !.members =
                   [k \in (DOMAIN @ \ sealed) \cup {demangle(s) : s \in sealed} |->
                      IF mangle(k) \in sealed THEN opened[mangle(k)].value ELSE @[k]]])

\* Mutant: the members of the document are not looked into.
decrypt_flat(v) == open_fields(v)

\* decrypt_json_value: the fields of the object, and then of its members,
\* those just opened included.
decrypt(v) ==
    LET top == open_fields(v)
        inner == [k \in DOMAIN top.value.members |->
                    open_fields(top.value.members[k])]
        failed == {k \in DOMAIN inner : inner[k].err # "none"}
    IN  IF top.err # "none" THEN top
        ELSE IF failed # {} THEN inner[First(failed)]
        ELSE Ok([top.value EXCEPT !.members = [k \in DOMAIN @ |-> inner[k].value]])

-----------------------------------------------------------------------------
(* The transcoders.  Each has the answers of encode and of decode; errors  *)
(* are what they throw.                                                    *)

Encoded(v) == [value |-> v, flags |-> JsonFlags]
EncodeAnswers(answers) ==
    {IF a.err = "none" THEN Ok(Encoded(a.value)) ELSE a : a \in answers}

\* has_encrypted_fields_v: a list that is not const does not count.
encrypted_fields_of(type) == IF type \in Listed THEN TypeFields[type] ELSE << >>

\* Mutant: a crypto document is encoded with the list of its type.
crypto_encode_by_type(c, h) ==
    IF c \notin Managed THEN {Err("generic_cryptography_failure")}
    ELSE EncodeAnswers(encrypt(h.value, encrypted_fields_of(h.type)))

\* Mutant: the error of encrypt is not checked, and its empty answer stored.
crypto_encode_err_dropped(c, h) ==
    IF c \notin Managed THEN {Err("generic_cryptography_failure")}
    ELSE {Ok(Encoded(IF a.err = "none" THEN a.value ELSE Object(<< >>))) :
            a \in encrypt(h.value, IF h.type = CryptoDocument THEN h.fields
                                   ELSE encrypted_fields_of(h.type))}

\* crypto::transcoder::encode, both overloads: a crypto document has a list of
\* its own, a type's is static.
crypto_encode(c, h) ==
    IF c \notin Managed THEN {Err("generic_cryptography_failure")}
    ELSE EncodeAnswers(encrypt(h.value, IF h.type = CryptoDocument THEN h.fields
                                        ELSE encrypted_fields_of(h.type)))

crypto_decode(c, e) ==
    IF c \notin Managed THEN Err("generic_cryptography_failure")
    ELSE IF e.flags # JsonFlags THEN Err("decoding_failure")
    ELSE decrypt(e.value)

\* address_encrypting_transcoder::encode: at() throws where the field is not,
\* and a manager that is not there is called all the same.
address_encode(c, h) ==
    IF address \notin DOMAIN h.value.members THEN {Err("out_of_range")}
    ELSE IF c \notin Managed THEN {Err("undefined")}
    ELSE EncodeAnswers(
           {IF a.err = "none" THEN Ok(seal(h.value, address, a.value)) ELSE Err(a.err) :
              a \in manager_encrypt(h.value.members[address], Absent)})

\* Mutant: the opened address is put back, and the envelope stays.
address_decode_keeping(c, e) ==
    LET v == e.value
        a == manager_decrypt(v.members[mangle(address)].node)
    IN  IF e.flags # JsonFlags THEN Err("decoding_failure")
        ELSE IF c \notin Managed THEN Err("undefined")
        ELSE IF mangle(address) \notin DOMAIN v.members THEN Err("out_of_range")
        ELSE IF a.err # "none" THEN Err(a.err)
        ELSE Ok([v EXCEPT !.members = put(@, address, a.value)])

\* address_encrypting_transcoder::decode
address_decode(c, e) ==
    LET v == e.value
        a == manager_decrypt(v.members[mangle(address)].node)
    IN  IF e.flags # JsonFlags THEN Err("decoding_failure")
        ELSE IF c \notin Managed THEN Err("undefined")
        ELSE IF mangle(address) \notin DOMAIN v.members THEN Err("out_of_range")
        ELSE IF a.err # "none" THEN Err(a.err)
        ELSE Ok([v EXCEPT !.members = put(erase(@, {mangle(address)}), address, a.value)])

\* The client library's JSON transcoder, which knows of no encryption.
plain_encode(h) == {Ok(Encoded(h.value))}
plain_decode(e) == IF e.flags # JsonFlags THEN Err("decoding_failure") ELSE Ok(e.value)

Transcoders == {"crypto", "address", "plain"}

encode(transcoder, c, h) ==
    CASE transcoder = "crypto" -> crypto_encode(c, h)
      [] transcoder = "address" -> address_encode(c, h)
      [] transcoder = "plain" -> plain_encode(h)

decode(transcoder, c, e) ==
    CASE transcoder = "crypto" -> crypto_decode(c, e)
      [] transcoder = "address" -> address_decode(c, e)
      [] transcoder = "plain" -> plain_decode(e)

\* crypto::transcoder::encode does not compile for a type without a list, and
\* the others take no crypto document.
Encodes(transcoder, type) ==
    IF transcoder = "crypto" THEN type # Json ELSE type # CryptoDocument

\* The fields of v that can be read without a key, by their paths.
ClearPaths(v) ==
    LET clear(u) == {k \in DOMAIN u.members : ~is_mangled(k)}
    IN  {<<k>> : k \in clear(v)}
        \cup UNION {{<<k, j>> : j \in clear(v.members[k])} : k \in clear(v)}

\* traits<user>::as: at() throws for a field that is not there.
as_type(v, type) ==
    IF type = Json \/ UserPaths \subseteq ClearPaths(v) THEN Ok(v) ELSE Err("out_of_range")

-----------------------------------------------------------------------------
Init ==
    /\ \E u \in Setups :
         /\ keys = u.keys
         /\ alias_to_encrypter = u.encrypters
         /\ algorithm_to_decrypter = u.decrypters
    /\ stored = NotStored
    /\ held = [c \in Clients |-> NotHeld]

Hold(c, v, type, fields) ==
    held' = [held EXCEPT ![c] = [value |-> v, type |-> type, fields |-> fields]]

\* Nothing but what the client holds has changed.
Local == UNCHANGED <<manager_vars, stored>>

\* Mutant: the value is moved into the call, and gone when that fails.
Failed_moved(c, e) ==
    /\ held' = [held EXCEPT ![c] = NotHeld]
    /\ UNCHANGED stored

\* A call with the error e does nothing, unless it is one of the kind after
\* which the process is gone.
Failed(c, e) ==
    /\ held' = IF e = "undefined" THEN [held EXCEPT ![c] = NotHeld] ELSE held
    /\ UNCHANGED stored

Has(c, types) == held[c].type \in types

\* The client makes a document of its own.
Make(c) ==
    /\ \E v \in Fresh, type \in Types : as_type(v, type).err = "none" /\ Hold(c, v, type, << >>)
    /\ Local

\* document::from: the list of the type, if it has one, is copied.
from(c) ==
    /\ Has(c, Types)
    /\ Hold(c, held[c].value, CryptoDocument, encrypted_fields_of(held[c].type))
    /\ Local

with_encrypted_field(c) ==
    /\ Has(c, {CryptoDocument})
    /\ Len(held[c].fields) < MaxFields
    /\ \E f \in FieldChoices :
         Hold(c, held[c].value, CryptoDocument, Append(held[c].fields, f))
    /\ Local

clear_encrypted_fields(c) ==
    /\ Has(c, {CryptoDocument})
    /\ Hold(c, held[c].value, CryptoDocument, << >>)
    /\ Local

\* collection.upsert: the transcoder encodes before anything is stored.
Upsert(c) ==
    \E transcoder \in Transcoders :
        /\ held[c] # NotHeld /\ Encodes(transcoder, held[c].type)
        /\ \E a \in encode(transcoder, c, held[c]) :
             \/ a.err = "none" /\ stored' = a.value /\ UNCHANGED held
             \/ a.err # "none" /\ Failed(c, a.err)
        /\ UNCHANGED manager_vars

\* Another application stores what it has, with flags of its own.
UpsertBinary(c) ==
    /\ Has(c, {Json})
    /\ stored' = [value |-> held[c].value, flags |-> "binary"]
    /\ UNCHANGED <<manager_vars, held>>

\* collection.get and content_as.
Get(c) ==
    \E transcoder \in Transcoders :
        /\ stored # NotStored
        /\ LET a == decode(transcoder, c, stored)
           IN  \E type \in Types :
                 LET typed == IF a.err = "none" THEN as_type(a.value, type) ELSE a
                 IN  \/ typed.err = "none" /\ Hold(c, typed.value, type, << >>) /\ UNCHANGED stored
                     \/ typed.err # "none" /\ Failed(c, typed.err)
        /\ UNCHANGED manager_vars

\* Keys are added and replaced as the applications go.
AddKey ==
    /\ \E k \in AddedKeys : add_key(k.ring, k.id, k.bytes)
    /\ UNCHANGED session_vars

Next ==
    \/ AddKey
    \/ \E c \in Clients :
         \/ Make(c) \/ from(c) \/ with_encrypted_field(c) \/ clear_encrypted_fields(c)
         \/ Upsert(c) \/ UpsertBinary(c) \/ Get(c)

Spec == Init /\ [][Next]_vars
=============================================================================
