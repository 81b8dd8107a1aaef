------------------------------ MODULE MCBase64 ------------------------------
(***************************************************************************)
(* Every blob of up to four bytes that are all zeros, all ones, or have    *)
(* bits on both sides of every border between six-bit groups; and blobs    *)
(* that end just before, at and after the end of a line, made so that all  *)
(* codes occur.                                                            *)
(***************************************************************************)
EXTENDS Base64

Samples == {0, 109, 179, 255}
Short == UNION {[1..n -> Samples] : n \in 0..4}
Long == {[i \in 1..n |-> (37 * i + 11) % 256] : n \in {46, 48, 49, 96}}

MCBlobs == Short \cup Long
=============================================================================
