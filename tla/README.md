# couchbase-cxx-encryption in TLA+

This directory models the field-level encryption library in `src/` and
`include/couchbase_encryption/` of the repository: TLA+ modules, TLC
configurations that check them on small instances, and TLAPS proofs of what
holds for every instance. Paths below are relative to the repository.

## The system

The library encrypts chosen fields of a JSON document before a Couchbase client
stores it, and decrypts them when it is read. It starts no thread, takes no
lock, and stores nothing: its state is a few maps an application owns, and the
locals of a call. What is hard about it is the interplay of a recursive,
in-place rewriting of documents with names, keys and registrations that change
over time, and of several transcoders over one stored document.

| Component | Code | State | Operations |
|---|---|---|---|
| Field names | `default_manager.cxx` | the prefix | `mangle`, `demangle`, `is_mangled`; the order of names in `std::map` |
| Default manager | `default_manager.cxx` | encrypters by alias, decrypters by algorithm | `register_*`, `encrypt`, `decrypt` |
| AEAD provider | `aead_aes_256_cbc_hmac_sha512_provider.cxx` | key id, keyring | `encrypt`, `decrypt` |
| Encryption result | `encryption_result.cxx` | map of strings | `algorithm`, `get`, `get_bytes`, `put` |
| Keyring, keys | `insecure_keyring.cxx`, `key.cxx` | keys by id | `get`, `add_key` |
| Transcoder core | `transcoder.cxx` | the document, the locals | `encrypt`, `decrypt` |
| Base64 | `utils/base64.cc` | locals | `encode`, `decode` |
| JSON text | `utils/json.cxx` | buffer and comma flag; stacks of the reader | `parse_binary` with `last_key_wins`, `generate_binary` with `to_byte_vector` |
| Transcoder interface | `transcoder.hxx`, `default_transcoder.hxx` | none | `encode`, `decode` |
| Crypto document | `document.hxx`, `encrypted_fields.hxx` | the list of fields | `from`, `with_encrypted_field`, `clear_encrypted_fields` |
| Examples | `examples/*.cxx` | none | a custom transcoder, a type with its list and traits, `upsert` and `get` |

An application registers encrypters and decrypters with a manager; a provider
makes both around a shared keyring. `encode` serialises a document, and passes
it with the list of its encrypted fields to `crypto::internal::encrypt`, which
asks the manager to encrypt the value of each field, erases the field, and puts
an object (`alg`, `kid`, `ciphertext`) under the mangled name. `decode` passes
the stored document to `crypto::internal::decrypt`, which walks all of it and
replaces such objects by what they decrypt to. The manager finds the encrypter
by its alias and the decrypter by `alg`; each use of a key is a look-up in the
keyring by `kid`.

What is hard, by component, and what makes it correct:

- Transcoder core: fields nested in fields, lists that are not encryptable,
  insertion into a map while it is iterated over, recursion into values just
  uncovered, failure in the middle, key replacement in the middle. Correct
  means: an encodable list is encoded, and no other; exactly the listed members
  are sealed; nothing is lost; a successful decode returns what was written; a
  failed call changes nothing.
- Manager, provider and keyring: registrations and keys replaced in any order,
  nodes damaged by others. Correct means: a node is readable exactly as long as
  its key is, and never reads as something else.
- Base64: lengths around a group and a line, padding, white space. Correct means:
  the standard's text, and the bytes back.
- JSON text: one comma flag for all levels of nesting, stacks shared by all
  levels of the reader, members that come twice, values that cannot be written,
  runs of characters between two pointers, bytes that are negative as `char`.
  Correct means: separators in place, what is read is what was written (the last
  of equally named members), and an exception only for cause.
- Transcoder interface, crypto document, examples: documents that are sealed in
  part by one transcoder and in part by another, lists that are copied, extended
  and dropped, a client without a manager, a type that needs fields it cannot
  read. Correct means: a client sees plain documents only, whole or not at all,
  and what was listed, and only that, cannot be read without a key.

The hazards, each at its line and with the properties that would catch it, are
listed in `PROJECT.json`.

## Modules

| Module | Models |
|---|---|
| `FieldNames` | names, mangling, and the order of names |
| `CryptoManager` | keyrings, provider and manager as operators and sub-actions |
| `ManagerClient` | an application using the manager directly; its properties |
| `SealedDocument` | the abstract promise: a document, hidden values, what was returned |
| `Transcoder` | `crypto::internal::encrypt` and `decrypt`, on top of the two above |
| `TranscoderCorrectness` | the properties of `Transcoder` and the refinement |
| `Base64` | `encode` and `decode`, and their properties |
| `JsonText` | `to_byte_vector`, `last_key_wins`, and the grammar between them |
| `JsonString` | `escape` and `string` |
| `DocumentStore` | the abstract promise to clients that share a document |
| `CryptoSession` | clients with crypto documents and three transcoders, on `CryptoManager` |
| `CryptoSessionCorrectness` | the properties of `CryptoSession` and the refinement |
| `MC...` | the small sets TLC is given |
| `...Proofs` | theorems |

**FieldNames.** A name is a base, which does not start with the prefix, behind
`wraps` copies of the prefix. The sign of the base says whether it sorts before
or after the prefix; that is all the order of `std::map` depends on. `Following`
is the iterator: the first name after the one it stands on, in the map as it is
*now*, which is how iteration behaves under insertion.

**CryptoManager.** `keys`, `alias_to_encrypter` and `algorithm_to_decrypter` are
the maps of the code. Fallible operations return `Ok(v)` or `Err(e)`; encrypting
returns a set of answers, since generating an initialization vector and the
cipher may fail. The cipher of the client library is external: a ciphertext
remembers the algorithm, the key and the plaintext, and opens with that key and
no other. An exception that leaves a call is an error of its own.

**ManagerClient.** One action per operation. Decrypt is given nodes that were
issued, whole or damaged (`Arrivals`): without one of the three members, with
spoilt text, with garbage, or naming another key.

**Transcoder.** A document is a tree of numbered values; the values of the
application come first and the envelope of the i-th sealed field is
`NodeCount + i`. Because JSON text and parsing are inverse, the plaintext in a
ciphertext is the number of the value itself. The actions are the turns of the
loops of `transcoder.cxx`:

| Action | Code |
|---|---|
| `encrypt(fields)` | entry, copy and sort (the sort is unstable: any order of equal lengths) |
| `CheckRoot`, `BeginField`, `Descend`, `SealField`, `FinishEncrypt` | root check; empty path; one step of the walk; manager call, erase and put; return |
| `decrypt` | entry |
| `Visit`, `VisitChild`, `Leave` | `decrypt_json_value`; `stack` holds its activations with their iterators |
| `OpenField`, `EraseKeys` | `decrypt_top_level_object_fields`; `cursor` is its iterator |
| `FinishDecrypt` | return |
| `AddKey` | the application replaces a key, between any two steps |

The elements of an array are members with ordered names. When a call returns,
its locals are reset, so that states between calls differ only in what an
application can see.

**SealedDocument and the refinement.** The abstract document never changes;
encoding hides values, decoding returns all of it, and a failed call does
nothing. `TranscoderCorrectness` maps the stored document to it by opening every
envelope in one go (`Unsealed`), without keys, and checks
`ImplementsSealedDocument` as a property.

**Base64.** One blob is encoded, delivered (whole, cut short, with white space
put in, or with a code replaced by a character of no code), and decoded; one
action per turn of a loop. Characters are ASCII codes, values are cut to their
width. The newline that `encode` may or may not add to the empty pretty-printed
text, where it calls `back()` of an empty string, is a free choice.

**JsonText.** A text is a sequence of tokens. `walk` is the stack of taoJSON's
`from_value`, which calls the events of the writer; each event is an action
(`WriteAtom`, `WriteBegin`, `Key`, `Element`, `WriteEnd`) with what it does to
`buffer_` and `first_`. The text is delivered whole or cut short. In the reader,
`expect` is the state of the parser's grammar, external, and `stack_`, `keys_` and
`value` are those of the consumer, whose `member` is the library's
(`ReadMember`, `put`). What was read is written again, as `decrypt` does. The
reference, `Meaning`, is a recursive function on `Documents`, the values with all that
are in them, each of which has a depth (`Depth`).

**JsonString.** One action per turn of `escape`'s loop, over bytes. `Unescaped` is a
reader of JSON strings, the reference.

**CryptoSession.** One action per call of a client, on the document of the
examples cut down to an object of leaves and of objects of leaves. `encrypt` and
`decrypt`, whose steps are the matter of `Transcoder`, are functions here:

| Action or operator | Code |
|---|---|
| `Make` | a client builds a document |
| `from`, `with_encrypted_field`, `clear_encrypted_fields` | the same in `document.hxx` |
| `Upsert` | `collection.upsert<Transcoder>`: encode, then store, or throw |
| `Get` | `get` and `content_as<Type, Transcoder>`: decode, then `as_type`, or throw |
| `crypto_encode`, `crypto_decode` | `crypto::transcoder`, both overloads |
| `address_encode`, `address_decode` | `address_encrypting_transcoder` of `examples/custom_transcoder.cxx` |
| `plain_encode`, `plain_decode` | the client library's JSON transcoder, external |
| `encrypted_fields_of` | `has_encrypted_fields_v`: a list must be const to count |
| `as_type` | the traits of `user` in `examples/user_defined_type.cxx`: `at` throws |
| `UpsertBinary` | another application stores with other flags |
| `AddKey` | a key comes or is replaced |

Calling a manager that is not there, which the custom transcoder does not guard
against, ends the process: the client loses what it holds (`"undefined"`).
`DocumentStore` has clients that make, put and get plain documents, and may crash;
`CryptoSessionCorrectness` maps every document to what is behind its envelopes
(`Opened`). The names clients use themselves are free of the prefix (`PlainNames`); that
a name has the prefix just when an envelope is under it is part of `TypeOK`.

## Runs

| Run | Shows | Bounds, and why they are enough |
|---|---|---|
| `manager_client` | a value is readable exactly as long as its key; only replacement loses it; no wrong plaintext | two keyrings, two key ids, three key values of which one has a refused length, one algorithm (the library has one), one issued value: enough to replace a key and put it back, to name the other key, and to take a decrypter over. Nodes do not influence each other, so one is followed. Symmetric in rings, ids, plaintexts and good keys |
| `missing_algorithm` | finding 1 | one of everything |
| `transcoder` | type, `NothingLost`, `RoundTrip`, exact refusal, exact sealing, failure only over lost keys, refinement | all trees of four values with names on either side of the prefix, objects and arrays, all lists of up to two paths of up to two names, good or bad; two envelopes; keys present from the start or added later, two key values |
| `nested` | the same three envelopes deep | chains of four values, all lists of up to three nested paths |
| `reserved` | every call returns | trees of three values, names that may carry the prefix already, two envelopes, so fields are sealed twice and look-alikes are opened |
| `reserved_lost`, `empty_prefix`, `sealed_twice` | findings 2 to 4 | the bounds of `reserved`, one envelope or two |
| `base64` | round trip, damage, conformance to RFC 4648 | all blobs of up to four bytes from four samples with bits on both sides of each border, and four blobs of 46, 48, 49 and 96 bytes, which end before, at and after the end of a line |
| `json_text` | the value read is the meaning of the value written, separators, exceptions only for cause | all values of two levels with up to two members of two names or none, atoms and one unwritable atom, members twice; objects and arrays of up to three members; three levels with fewer. The flag and the stacks distinguish only the level left and the level entered, and all pairs of neighbouring levels are there |
| `json_string` | no bare character; the text reads as the string | all strings of up to four of eleven bytes: each kind of character, the borders of the kinds, and bytes from 128 up. A run, an escape, a run and an escape fit |
| `crypto_session` | exact decoding, exact hiding, the custom transcoder among others, refinement, each call a call on the store | two clients, of which one has no crypto manager; two documents, one of them an address with a street and a password; three types (without a list, with one, with one that does not count); lists that name a field and one inside it, or the inner one alone with another key; two aliases with a key each, of which one comes later, is replaced and put back. A third client could only do what the two do, since the collection keeps one document |

Bounds are the constants `MaxIssued`, `MaxEnvelopes`, `MaxWraps`, `NodeCount`,
`MaxFields` and `MaxLength`.
`MaxEnvelopes` is in the guard of `encrypt`: a call that might exceed it is not
made. `MaxWraps` bounds the names of the documents and lists so that mangling
stays within `Names`; it is not a guard of any step. Deadlock checking is off
everywhere: an application may stop calling, and a decoded blob, an escaped
string or a thrown exception is the end of its story.

Each property of a passing run has a mutant in `PROJECT.json`: a definition with
a plausible bug under which TLC finds the property violated.

**Fairness.** Only `EveryCallReturns` needs it, and it assumes `WF_vars(Step)`: a
call that has been entered and can go on does go on. The code is sequential and
waits for nothing, so a thread that is scheduled at all does so. Nothing is
assumed of the application: it need not call, and it may replace keys for ever,
also during a call; the fairness of `Step` holds against that.

## Findings

1. `decrypt` of a node without `alg` lets `std::out_of_range` escape, where
   `manager.hxx:55` promises a plaintext or an error (`missing_algorithm`).
2. A document with `x` and `encrypted$x` loses one of them when `x` is sealed, and
   a plain member named `encrypted$...` is taken for a sealed one
   (`reserved_lost`).
3. With the empty prefix, which the constructor allows, decoding erases the
   fields it opens (`empty_prefix`).
4. A field sealed twice comes back with one layer or none, depending on how its
   name sorts, because decrypt inserts into the map it iterates over
   (`sealed_twice`).

The passing runs of the transcoder therefore use documents and lists whose names
do not start with the prefix, and a non-empty prefix. `reserved` has no such
restriction: termination holds without it.

## Proofs

Everything below is checked by TLAPS, for every value of the constants that meets
the named assumptions of the modules (`FieldNamesAssumption`,
`CryptoManagerAssumption`, `ManagerClientAssumption`, `TranscoderAssumption`,
`Base64Assumption`, `JsonTextAssumption`, `JsonStringAssumption`,
`CryptoSessionAssumption`; `TreesAssumption`: the values of a document are a
tree, as `tao::json::value` owns its members; `DocumentsAssumption`: for the same
reason the values of `JsonText` are atoms, or arrays and objects of such values, to
a finite depth; `MeaningAssumption`: what a value means is one of them too, for what
was read is written again; `PlainNamesAssumption`: there is a
prefix, and no name in an application's own documents, lists and types starts with
it, without which findings 2 to 4 apply; `PlaintextsAssumption`: what a document may
have in it may be encrypted), which TLC evaluates in each run.

- `CryptoManagerProofs`: what `manager_encrypt` and `manager_decrypt` return, as
  lemmas; when each succeeds, and with what. Also the lemmas about names that the
  transcoder and the sessions share: mangling is undone by demangling, and the names
  are in a total order, in which every set of them has a first.
- `ManagerClientProofs`: `TypeOK`, `ReadableWhileKeyHeld`,
  `LossOnlyByReplacement` and `NoWrongPlaintext`. The inductive invariant adds to
  `TypeOK` that an issued node is what its encrypter made of its plaintext and
  key (`IssuedWellFormed`); from it, a node is readable if and only if its key is
  held, in this state and in the next, which gives the first two; the second also needs
  that no operation takes a key away, only replaces it (`KeysStay`). `NoWrongPlaintext`
  needs that `Arrivals` never invent a ciphertext that opens.
- `TranscoderProofs`: `TypeInv`, inductive, and `TypeOK` from it. `TypeOK` alone is
  not inductive: that an opened value is a value of the document needs that every
  envelope the document refers to exists and holds a ciphertext, that the walk
  stays at values of the document, that the path is not empty, and that names in
  the document leave room for one more prefix. The proof has a lemma for each
  action and one for each of `seal`, `open` and `close`.
- `TranscoderSafetyProofs`: `NothingLost`, `RoundTrip`, `FailsOnlyOverLostKeys`,
  `RefusesExactlyTheUnencryptable`, `SealsExactlyTheListed` and the refinement of
  `SealedDocument`, for documents of any shape and size, any lists, keys and
  registrations. They have one hypothesis, `PlainNames`: there is a prefix, and no
  name in the documents and lists starts with it. It is needed, as the runs of
  the first three findings show, and the runs `transcoder` and `nested` meet it.
  - `SafetyInv`: the application's document and the stored one agree at every value,
    in the clear or sealed (`Shows`), and so does the working copy of either loop;
    decrypt has opened exactly the names its iterator has passed, which needs
    that the mangled names come in the order of the map and that opening one adds
    none that is mangled. The properties about decrypt and the refinement follow.
  - `ListInv`: the fields before the current one were good, and the working copy
    differs from the stored document by their envelopes alone; the pointer into the
    copy is where the path leads in the stored document. That needs the order of
    `sort` (a field is sealed before any that contains it) and that the document is a
    tree. Where a path leads is `Resolve`, a recursive function, about which nothing
    can be proved by induction over the path here; instead, the first place where
    two walks differ (`Trace`) is taken, which is there because lengths are numbers.
- `Base64Proofs`: `TypeOK`, `RoundTrip`, `DamageIsNoticedOrHarmless` and
  `EncodesAsStandard` for blobs of any bytes and any length. First for one group: what `encode_triplet` and
  `encode_rest` write is accepted by `decode_quad` and decoded to them, which is
  arithmetic of a 24-bit value, its sextets and its bytes. Then `LayoutInv`: `encode`
  has put each group it has read at its place (`Start`), with a newline behind every
  sixteenth (`Written`); and `decode` is before a group, at a newline or behind the
  last group (`Reached`), having made the bytes of the groups before (`Decoding`),
  or it has taken white space for the second of two "=" and will throw (`Astray`).
  For the standard, `LengthInv` adds how long the finished text is, which is where
  a newline could be missing or doubled, and the sextets of three bytes are shown to
  be their bits (`SextetBits`).
- `JsonTextProofs`: `SeparatorsInPlace`, `TypeOK`, `ThrowsOnlyForCause` and
  `ParsesToItsMeaning` for values of any depth and width. For the first, the flag and
  the last token agree (`FlagOK`): where a value may come next the flag is set if and only if nothing
  precedes it in its container, and where the next member or the end may come, if
  and only if the last token opened the container. The next two are about the
  text as a whole, which is read long after it was written and by another
  automaton. Writer and parser are tied together by the places of the grammar: the
  one the writer is at behind every prefix of the text (`Grammatical`,
  `WriterPlace`) is the one the parser is at when it has read that far. The
  invariant of the reader, `ReaderOK`, adds what the consumer has on its stacks:
  the containers the grammar has open, with the kinds it has them in (`BuiltOK`),
  and in `keys_` one name for each object that waits for the value of a member
  (`NamesOK`); so `back()` and `pop_back()` always find something.

  `ParsesToItsMeaning` needs what the consumer makes of each part of a text, which is
  told by its stacks alone (`Turn`, for a token, and `Builds`, for a text).
  `WriterBuilds`: what has been written builds the containers of the walk, each with
  the meaning of the members that came before (`Holds`, `Meant`), and the names of the
  members the walk is inside of (`Waits`), all the way out (`Chain`). `ReaderBuilds`:
  what is left to read builds, from what the consumer has, the meaning of what was
  written. No induction over the value is needed: where a container ends, all of its
  members have come, so that what was built is what it means (`WholeMeaning`), and
  that goes on as a member of the container around it (`Taken`), the form of which
  the invariant has kept. What an object means is taken one member at a time: the last of
  the first `n + 1` of a name are those of the first `n` with one replaced
  (`ItemsStep`), which is what `put` does (`PutIs`). That the recursive function
  `Meaning` has its equation at all is shown by depth (`MeaningIs`), and that
  members can be put in the order of their names, by inserting one (`InsertOrderable`).
- `JsonStringProofs`: `TypeOK`, `NothingBare` and `ReadsAsWritten` for all strings of
  bytes. The run between the pointers holds no special character (`RunPlain`), an
  escape can stand anywhere (`EscapedIsClean`), and concatenation keeps both. For
  the third, `Reads(b, n)` says that a reader that is given `b`, with anything at all
  behind it, has made the first `n` bytes of the string when it gets to its end; a run
  (`RunRead`) and an escape (`EscapeRead`) each take it further. What the recursive
  reader makes of a text is shown by taking the last place at which it would differ.
- `CryptoSessionProofs`: every property of the run `crypto_session`, with the refinement
  of `DocumentStore`, for any number of clients, types, aliases and keys, documents
  with any number of members, and lists of any length in any order; documents have
  the two levels of the model.
  - The inductive invariant `Inv` adds to `TypeOK` that behind the envelopes of what is
    stored, and of what each client holds, there is a document some client made
    (`FreshBehind`). Without it a decoded document might have further envelopes behind
    its envelopes, and `TypeOK` alone is not kept. `TypeOK` itself carries what the
    transcoders rely on: a name has the prefix just when an envelope is under it, and
    is never there both with and without (`Named`).
  - Sealing and opening are the same at both levels of a document. The lemmas about
    them (`SealShows`, `UnsealShows`, `OpenFields`) are stated once, for members of any
    kind that are no envelopes themselves, and used with leaves and with objects.
  - `HidesExactlyTheListed`: what one field of the list does is `Sealing`, and what the
    first `n` do, `SealingUpTo`; the list `sort` has made has the fields of the list, each
    one (`SortParts`). The answers after each field are a recursive function, of
    which only what two neighbours have to do with each other is used (`AnswersParts`).
  - `CallsAreCallsOnTheStore` says more than the refinement: there, a client that gets
    something else than what is stored might as well have made it. Both follow from one
    lemma for each action (`UpsertStep`, `GetStep`, ...). That only a client without a
    manager can be gone needs that no error of the manager's is of that kind
    (`EncryptErrs`, `Refused`).
  - For values of any form, outside the model's documents: what the custom transcoder
    stores is the value with its address sealed (`AddressIsSealed`), and from such a
    value it gives back that one or throws (`AddressIsGivenBack`), whatever happened to
    keys and registrations in between.

Induction over data is not to be had from the library, whose theorems take an
operator as a parameter; where a proof needs it, it takes the least number of a
set (`LeastNat`), which is a theorem about sets.

Only model-checked: `EveryCallReturns`, since liveness is out of the prover's reach.
All other properties of the passing runs are theorems.

## Plan

`Transcoder`: a rank of the locals of a call that every step of it lowers, which is the
part of `EveryCallReturns` that can be proved; what is left to TLC is then that a
call which can go on does.

## Not modelled

The cipher and the random numbers are in the client library; the JSON parser is
taoJSON, of which `JsonText` has the grammar of tokens but not the digits of
numbers, the limits of nesting or the checks of UTF-8. Elsewhere numbers,
strings and other leaves are opaque values. Unparsable documents and members named `alg`, `kid` or `ciphertext` under a mangled name are
left out of `Transcoder`: a mangled name is either an envelope or an object that
makes `get_string` or `at` throw. Data races are not modelled: the documents
promise nothing to overlapping calls. The collection keeps the last value
stored: its own failures, expiry and conflicts (CAS) are the client library's.
`encryption_result::put` of further members, `decode_to_string` of base64 and
connecting to a cluster in the examples are left out. Tests, documentation, build and
packaging have no logic of the library.
