--------------------------- MODULE SealedDocument ---------------------------
(***************************************************************************)
(* What field-level encryption promises an application, with nothing of    *)
(* how it is done: a document that no call ever changes, of which encoding *)
(* hides more and more values, and which decoding gives back as a whole.   *)
(* A call that fails does nothing.                                         *)
(***************************************************************************)
CONSTANTS
    Documents,      \* the documents an application may have
    Values,         \* the values a document is made of
    Nothing         \* no document was decoded yet

VARIABLES
    document,       \* the document, with everything in the clear
    sealed,         \* the values that cannot be read where it is stored
    returned        \* what the last successful decoding returned

vars == <<document, sealed, returned>>

Init ==
    /\ document \in Documents
    /\ sealed = {}
    /\ returned = Nothing

\* Encoding hides the values of T, those below them included.  It never
\* uncovers a value that was hidden before.
Encode(T) ==
    /\ sealed' = sealed \cup T
    /\ UNCHANGED <<document, returned>>

\* Decoding returns all of the document in the clear and leaves it stored as
\* it was.
Decode ==
    /\ returned' = document
    /\ UNCHANGED <<document, sealed>>

Next == Decode \/ \E T \in SUBSET Values : Encode(T)

Spec == Init /\ [][Next]_vars
=============================================================================
