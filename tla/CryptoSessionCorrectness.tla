---------------------- MODULE CryptoSessionCorrectness ----------------------
(***************************************************************************)
(* What makes the transcoders correct together, whichever wrote and        *)
(* whichever reads, and that they implement DocumentStore.                 *)
(***************************************************************************)
EXTENDS CryptoSession

TypeOK ==
    /\ ManagerTypeOK
    /\ stored # NotStored =>
         IsDocument(stored.value) /\ stored.flags \in Flags
    /\ DOMAIN held = Clients
    /\ \A c \in Clients : held[c] # NotHeld =>
         /\ IsDocument(held[c].value)
         /\ held[c].type \in Types \cup {CryptoDocument}
         /\ held[c].fields \in Seq(Fields)

-----------------------------------------------------------------------------
\* The members m with every envelope replaced by what was sealed in it, under
\* its name without the prefix.  A name that is there without its prefix too
\* stays as it is.
Uncovered(m) ==
    LET plain(k) == IF is_mangled(k) /\ demangle(k) \notin DOMAIN m THEN demangle(k) ELSE k
        contents(u) == IF u.form = "envelope" THEN u.node.ciphertext.plain ELSE u
    IN  [k \in {plain(j) : j \in DOMAIN m} |->
           contents(m[IF k \in DOMAIN m THEN k ELSE mangle(k)])]

\* The document behind v: every envelope, also one within an envelope, gives
\* way to its contents.
Flat(u) == [u EXCEPT !.members = Uncovered(@)]
Opened(v) ==
    LET m == Uncovered(v.members)
    IN  [v EXCEPT !.members = [k \in DOMAIN m |-> Flat(m[k])]]

\* The envelopes in v, also those within an envelope.
Nodes(v) ==
    LET within(u) == {u.members[k] : k \in DOMAIN u.members}
        contents(u) == IF u.form = "envelope" THEN u.node.ciphertext.plain ELSE u
        outer == within(v)
        inner == UNION {within(contents(u)) : u \in outer}
    IN  {u.node : u \in {u \in outer \cup inner : u.form = "envelope"}}

\* The key that node was sealed with is the one its decrypter would find now.
KeyKept(node) ==
    LET ring == algorithm_to_decrypter[node.alg]
    IN  ring # Absent /\ keys[ring][node.kid] = node.ciphertext.key

\* Whoever stored the document, with whatever transcoders it has been through,
\* sealed in part by one and in part by another, under keys old and new: the
\* library's transcoder decodes all of it exactly as long as all its keys are
\* there, and otherwise decodes nothing.
DecodesExactlyWhileKeysKept ==
    stored # NotStored /\ stored.flags = JsonFlags =>
        LET a == decrypt(stored.value)
        IN  IF \A node \in Nodes(stored.value) : KeyKept(node)
            THEN a = Ok(Opened(stored.value))
            ELSE a.err # "none"

\* What was asked to be encrypted of h.
Declared(h) ==
    LET list == IF h.type = CryptoDocument THEN h.fields
                ELSE IF h.type \in Listed THEN TypeFields[h.type] ELSE << >>
    IN  {f.path : f \in Range(list)}

Below(p, q) == Len(p) >= Len(q) /\ SubSeq(p, 1, Len(q)) = q

\* Whatever a client holds, what crypto::transcoder makes of it can be read
\* without a key in exactly those fields that could be before, and that are
\* neither listed nor below a listed one: fields that came sealed from another
\* transcoder stay so, and lists that name a field and one inside it are met in
\* full.
HidesExactlyTheListed ==
    \A c \in Clients : held[c] # NotHeld /\ Encodes("crypto", held[c].type) =>
        \A a \in crypto_encode(c, held[c]) : a.err = "none" =>
            /\ ClearPaths(a.value.value) =
                 {p \in ClearPaths(held[c].value) :
                    \A q \in Declared(held[c]) : ~Below(p, q)}
            /\ Opened(a.value.value) = Opened(held[c].value)

\* The custom transcoder decodes a document exactly when its own field is sealed
\* in it and the key of that is there, whatever else is sealed in it with keys
\* that are not; it then uncovers that field and leaves the others as they are.
AddressNeedsOnlyItsKey ==
    stored # NotStored /\ stored.flags = JsonFlags => \A c \in Managed :
        LET a == address_decode(c, stored)
            sealed == mangle(address) \in DOMAIN stored.value.members
        IN  /\ (a.err = "none") =
                 (sealed /\ KeyKept(stored.value.members[mangle(address)].node))
            /\ a.err = "none" =>
                 /\ <<address>> \in ClearPaths(a.value)
                 /\ ClearPaths(stored.value) =
                      {p \in ClearPaths(a.value) : ~Below(p, <<address>>)}
                 /\ Opened(a.value) = Opened(stored.value)

-----------------------------------------------------------------------------
(* Refinement.                                                             *)

Transparent ==
    INSTANCE DocumentStore
        WITH Nothing <- Absent,
             Documents <- Fresh,
             stored <- IF stored = NotStored THEN Absent ELSE Opened(stored.value),
             held <- [c \in Clients |->
                        IF held[c] = NotHeld THEN Absent ELSE Opened(held[c].value)]

\* The applications together see a store of plain documents: no mixture of
\* transcoders, lists, failures and key replacements loses, doubles or renames
\* a field, or makes one client's document another's.
ImplementsDocumentStore == Transparent!Spec

\* Each call that changes anything is one call on that store: what is stored is
\* what the client had in its hands, and what it gets is what is stored.  One
\* that fails changes nothing, but a client without a manager may be gone by it.
CallsAreCallsOnTheStore ==
    [][\A c \in Clients :
         LET gone == c \notin Managed /\ Transparent!Crash(c)
         IN  /\ stored' # stored /\ Upsert(c) => Transparent!Put(c)
             /\ held'[c] # held[c] /\ Upsert(c) => gone
             /\ held'[c] # held[c] /\ Get(c) => Transparent!Get(c) \/ gone]_vars
=============================================================================
