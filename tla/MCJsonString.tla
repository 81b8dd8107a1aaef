---------------------------- MODULE MCJsonString ----------------------------
(***************************************************************************)
(* All short strings over a sample of each kind of character.              *)
(***************************************************************************)
EXTENDS JsonString

CONSTANTS MaxLength, Samples

MCStrings == UNION {[1..n -> Samples] : n \in 0..MaxLength}
=============================================================================
