---------------------------- MODULE DocumentStore ----------------------------
(***************************************************************************)
(* What the applications that share a stored document should see of field- *)
(* level encryption: nothing.  Each makes documents, stores them and gets  *)
(* them back, whichever transcoder it uses for which call.                 *)
(***************************************************************************)
CONSTANTS
    Clients,
    Documents,      \* the documents clients make
    Nothing

VARIABLES
    stored,         \* the document in the collection
    held            \* what each client has in its hands

vars == <<stored, held>>

Init ==
    /\ stored = Nothing
    /\ held = [c \in Clients |-> Nothing]

Make(c) == \E d \in Documents : held' = [held EXCEPT ![c] = d] /\ UNCHANGED stored
Put(c) == stored' = held[c] /\ UNCHANGED held
Get(c) == held' = [held EXCEPT ![c] = stored] /\ UNCHANGED stored
Crash(c) == held' = [held EXCEPT ![c] = Nothing] /\ UNCHANGED stored

Next == \E c \in Clients : Make(c) \/ Put(c) \/ Get(c) \/ Crash(c)

Spec == Init /\ [][Next]_vars
=============================================================================
