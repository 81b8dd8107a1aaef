-------------------------- MODULE MCManagerClient --------------------------
(***************************************************************************)
(* Two keyrings, two key ids and three key values, one of them of a length *)
(* the cipher refuses: enough for a key to be replaced and put back, for a *)
(* node to name the other id, and for a second provider of the algorithm   *)
(* to take the decrypter over.  One value is followed through all of it.   *)
(***************************************************************************)
EXTENDS ManagerClient, TLC

\* Values that are only compared for equality.
Interchangeable ==
    Permutations(Rings) \cup Permutations(KeyIds)
      \cup Permutations(Plaintexts) \cup Permutations(KeyBytes \ WrongLength)
=============================================================================
