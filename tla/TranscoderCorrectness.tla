----------------------- MODULE TranscoderCorrectness -----------------------
(***************************************************************************)
(* What makes crypto::internal::encrypt and decrypt correct, and the proof *)
(* obligation that they implement SealedDocument.                          *)
(***************************************************************************)
EXTENDS Transcoder

Frames == [value: Nodes, at: Names \cup {Begin}]
Stored == [members: [DocNodes -> Members], envelopes: Seq(EncryptionResults)]
Errors == ManagerErrors \cup {"none", "encryption_failure", "exception"}

TypeOK ==
    /\ ManagerTypeOK
    /\ kind \in [DocNodes -> Kinds]
    /\ original \in [DocNodes -> Members]
    /\ stored \in Stored
    /\ returned \in [DocNodes -> Members] \cup {Absent}
    /\ result \in [call: {"none", "encrypt", "decrypt"}, err: Errors]
    /\ pc \in {"idle"} \cup EncryptSteps \cup DecryptSteps
    /\ document \in Stored
    /\ ordered_encrypted_fields \in Seq(EncryptedFields)
    /\ field \in Nat \ {0}
    /\ blob \in Nodes
    /\ depth \in Nat \ {0}
    /\ stack \in Seq(Frames)
    /\ cursor \in Names \cup {Begin}
    /\ encrypted_keys \subseteq Names

-----------------------------------------------------------------------------
(* The document behind a stored one.                                       *)

\* The value in the envelope e of d.
Sealed(d, e) == d.envelopes[e - NodeCount].ciphertext.plain

\* An envelope stands for the member k of n in d.
SealedAs(d, n, k) == mangle(k) \in DOMAIN d.members[n] /\ d.members[n][mangle(k)] \notin DocNodes

\* d has the member k of value n, in the clear or sealed, and not both.
Holds(d, n, k, v) ==
    \/ /\ k \in DOMAIN d.members[n] /\ d.members[n][k] = v
       /\ ~SealedAs(d, n, k)
    \/ /\ k \notin DOMAIN d.members[n]
       /\ SealedAs(d, n, k)
       /\ Sealed(d, d.members[n][mangle(k)]) = v

\* Encrypting loses nothing and doubles nothing: every member of the original
\* is in the stored document exactly once, in the clear or sealed under its
\* mangled name with the right plaintext, and there are no other members.
NothingLost ==
    \A n \in DocNodes :
        /\ \A k \in DOMAIN original[n] : Holds(stored, n, k, original[n][k])
        /\ DOMAIN stored.members[n] \subseteq
             UNION {{k, mangle(k)} : k \in DOMAIN original[n]}

\* What a successful decode returns is the document the application wrote,
\* whatever was sealed of it, in however many calls, with whatever keys.
RoundTrip == returned # Absent => returned = original

-----------------------------------------------------------------------------
(* What a call of encrypt may do.                                          *)

Returns(call) == pc # "idle" /\ pc' = "idle" /\ result'.call = call

Requested == {ordered_encrypted_fields[i].path : i \in DOMAIN ordered_encrypted_fields}

\* The value of document d at the end of path p, and 0 where the path breaks
\* off: at a member that is not there or below one that is no object.
Resolve(d, p) ==
    LET at[i \in 0..Len(p)] ==
          IF i = 0 THEN Root
          ELSE IF at[i - 1] = 0 \/ ~is_object(at[i - 1]) THEN 0
          ELSE IF p[i] \in DOMAIN members_of(d, at[i - 1])
               THEN members_of(d, at[i - 1])[p[i]] ELSE 0
    IN  at[Len(p)]

\* The list can be encrypted: no path is empty or listed twice, and every one
\* leads through the objects of the document to a member.
Encryptable(fields, d) ==
    /\ is_object(Root)
    /\ \A i \in DOMAIN fields :
         /\ fields[i].path # << >>
         /\ Resolve(d, fields[i].path) # 0
         /\ \A j \in DOMAIN fields : fields[i].path = fields[j].path => i = j

\* encrypt fails for the list itself exactly when the list cannot be encrypted:
\* no order of nested, overlapping or equally long paths makes a good list
\* fail, and no bad one slips through.
RefusesExactlyTheUnencryptable ==
    [][Returns("encrypt") =>
         /\ result'.err = "encryption_failure" => ~Encryptable(ordered_encrypted_fields, stored)
         /\ result'.err = "none" => Encryptable(ordered_encrypted_fields, stored)]_vars

\* A successful encrypt replaces exactly the listed members by envelopes of
\* their values, where they were, and touches no other member.
SealsExactlyTheListed ==
    [][Returns("encrypt") /\ result'.err = "none" =>
         LET targets == {Resolve(stored, p) : p \in Requested}
         IN  \A n \in DocNodes, k \in Names :
               k \in DOMAIN stored.members[n] =>
                 LET v == stored.members[n][k]
                 IN  IF v \in targets
                     THEN /\ k \notin DOMAIN stored'.members[n]
                          /\ mangle(k) \in DOMAIN stored'.members[n]
                          /\ SealedAs(stored', n, k)
                          /\ Sealed(stored', stored'.members[n][mangle(k)]) = v
                     ELSE k \in DOMAIN stored'.members[n] /\ stored'.members[n][k] = v]_vars

-----------------------------------------------------------------------------
(* What a call of decrypt may do.                                          *)

\* The key envelope i was sealed with is the one its decrypter would find now.
KeyKept(i) ==
    LET node == stored.envelopes[i]
        ring == algorithm_to_decrypter[node.alg]
    IN  ring # Absent /\ keys[ring][node.kid] = node.ciphertext.key

\* decrypt fails only over a field whose key has been replaced since it was
\* sealed (or has no decrypter): what encrypt wrote is always well-formed, and
\* neither the order of the fields nor their nesting makes it fail.
FailsOnlyOverLostKeys ==
    [][Returns("decrypt") /\ result'.err # "none" =>
         \E i \in DOMAIN stored.envelopes : ~KeyKept(i)]_vars

\* Every call returns: the loops end although decrypt adds to the map it is
\* iterating over, and the recursion follows values it has just uncovered.
EveryCallReturns == pc # "idle" ~> pc = "idle"

-----------------------------------------------------------------------------
(* Refinement.                                                             *)

\* The members of value n of d with its sealed fields opened.
Unsealed(d, n) ==
    LET m == d.members[n]
        sealed == {k \in DOMAIN m : m[k] \notin DocNodes /\ is_mangled(k)}
    IN  [k \in (DOMAIN m \ sealed) \cup {demangle(s) : s \in sealed} |->
           IF mangle(k) \in sealed
           THEN Sealed(d, m[mangle(k)])
           ELSE m[k]]

\* The values that stand in an envelope in d.
SealedValues(d) ==
    {Sealed(d, e) : e \in (UNION {Range(d.members[n]) : n \in DocNodes}) \ DocNodes}

Promise ==
    INSTANCE SealedDocument
        WITH Documents <- {d.members : d \in Documents},
             Values    <- DocNodes,
             Nothing   <- Absent,
             document  <- [n \in DocNodes |-> Unsealed(stored, n)],
             sealed    <- SealedValues(stored),
             returned  <- returned

\* encrypt and decrypt, with all their steps and failures, do nothing an
\* application can see but what SealedDocument allows.
ImplementsSealedDocument == Promise!Spec
=============================================================================
