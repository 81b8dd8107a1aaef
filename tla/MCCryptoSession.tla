--------------------------- MODULE MCCryptoSession ---------------------------
(***************************************************************************)
(* The documents of the examples, cut down for TLC: an address with a      *)
(* street, and a password.                                                 *)
(***************************************************************************)
EXTENDS CryptoSessionCorrectness, TLC

CONSTANTS c1, c2, aes, ring1, id1, id2, one, dflt, b1, b2, x, y

MCBases == {-1, 1}
MCaddress == [base |-> -1, wraps |-> 0]
street == [base |-> 1, wraps |-> 0]
password == [base |-> 1, wraps |-> 0]

Of(s, p) == Object(address :> Object(street :> Leaf(s)) @@ password :> Leaf(p))

\* Each alias has its own key, of which only the default's is there at first.
MCSetups ==
    {[keys |-> [r \in Rings |-> [i \in KeyIds |-> IF i = id1 THEN b1 ELSE Absent]],
      encrypters |-> [a \in Aliases |->
         [alg |-> aes, ring |-> ring1, kid |-> IF a = dflt THEN id1 ELSE id2]],
      decrypters |-> [a \in Algorithms |-> ring1]]}

\* The second key comes later, and is replaced and put back.
MCAddedKeys == [ring: Rings, id: {id2}, bytes: KeyBytes]

MCFresh == {Of(x, y), Object(password :> Leaf(y))}

MCTypes == {"json", "user", "loose"}
MCUserPaths == {<<address>>, <<address, street>>, <<password>>}
Field(path, alias) == [path |-> path, alias |-> alias]

\* A field and one inside it, the outer one first; or the inner one alone, with
\* the other key.
MCTypeFields ==
    [type \in {"user", "loose"} |->
       <<Field(<<address>>, one), Field(<<address, street>>, Absent)>>]
MCFieldChoices == {Field(<<address, street>>, one)}

=============================================================================
