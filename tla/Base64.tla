------------------------------- MODULE Base64 -------------------------------
(***************************************************************************)
(* The base64 of a ciphertext (src/utils/base64.cc): encode turns a blob   *)
(* into text three bytes at a time, in lines of 64 characters when it is   *)
(* asked to, and decode reads the text back four characters at a time,     *)
(* skipping white space where a group of four may start.                   *)
(*                                                                         *)
(* Here one blob is encoded, the text is delivered, perhaps not as it was  *)
(* written, and decoded.  One action is one turn of a loop.  Characters    *)
(* are their ASCII codes and bytes numbers.                                *)
(*                                                                         *)
(* Left out: reserve and decode_to_string.                                 *)
(***************************************************************************)
EXTENDS Integers, Sequences

CONSTANTS
    Blobs,          \* the blobs that may be encoded
    Spaces,         \* white space that may get into the text
    Strangers       \* characters of no base64 text that may get into it

Byte == 0..255
Newline == 10
Pad == 61           \* '='

\* std::isspace in the "C" locale.
isspace(c) == c \in 9..13 \/ c = 32

\* codemap: the character of a six-bit value.
codemap(v) ==
    IF v < 26 THEN 65 + v
    ELSE IF v < 52 THEN 97 + (v - 26)
    ELSE IF v < 62 THEN 48 + (v - 52)
    ELSE IF v = 62 THEN 43 ELSE 47

\* code2val throws std::invalid_argument for any other character.
is_code(c) == c \in 65..90 \/ c \in 97..122 \/ c \in 48..57 \/ c = 43 \/ c = 47

\* code2val: the branches in the code's order.
code2val(c) ==
    IF c \in 65..90 THEN c - 65
    ELSE IF c \in 97..122 THEN (c - 97) + 26
    ELSE IF c \in 48..57 THEN (c - 48) + 52
    ELSE IF c = 43 THEN 62 ELSE 63

ASSUME Base64Assumption ==
    /\ Blobs \subseteq Seq(Byte)
    /\ \A c \in Spaces : isspace(c)
    /\ \A c \in Strangers : c \in Byte /\ ~is_code(c) /\ ~isspace(c) /\ c # Pad

VARIABLES
    pc,             \* "encode", "encoded", "decode", "done" or "thrown"
    blob,           \* what is encoded
    pretty_print,
    in,             \* how far encode has read
    result,         \* the text encode has made
    damage,         \* what happened to the text on its way
    text,           \* the text decode is given
    offset,         \* how far decode has read
    destination     \* the bytes decode has made

vars == <<pc, blob, pretty_print, in, result, damage, text, offset, destination>>

Init ==
    /\ pc = "encode"
    /\ blob \in Blobs
    /\ pretty_print \in BOOLEAN
    /\ in = 0
    /\ result = << >>
    /\ damage = "none"
    /\ text = << >>
    /\ offset = 0
    /\ destination = << >>

-----------------------------------------------------------------------------
(* encode                                                                  *)

\* The four values of six bits in 24.
sextet(val) ==
    <<(val \div 262144) % 64, (val \div 4096) % 64, (val \div 64) % 64, val % 64>>

encode_triplet(a, b, c) ==
    LET s == sextet(a * 65536 + b * 256 + c)
    IN  <<codemap(s[1]), codemap(s[2]), codemap(s[3]), codemap(s[4])>>

\* Mutant: a single byte is shifted as the second of two would be.
encode_rest_shifted(rest) ==
    LET s == sextet(IF Len(rest) = 2 THEN rest[1] * 65536 + rest[2] * 256
                                     ELSE rest[1] * 256)
    IN  <<codemap(s[1]), codemap(s[2]),
          IF Len(rest) = 2 THEN codemap(s[3]) ELSE Pad, Pad>>

\* The last one or two bytes.
encode_rest(rest) ==
    LET s == sextet(IF Len(rest) = 2 THEN rest[1] * 65536 + rest[2] * 256
                                     ELSE rest[1] * 65536)
    IN  <<codemap(s[1]), codemap(s[2]),
          IF Len(rest) = 2 THEN codemap(s[3]) ELSE Pad, Pad>>

\* One turn of the loop over the triplets: a line is full after 16 of them.
EncodeTriplet ==
    /\ pc = "encode"
    /\ in + 3 <= Len(blob)
    /\ LET longer == result \o encode_triplet(blob[in + 1], blob[in + 2], blob[in + 3])
       IN  result' = IF pretty_print /\ (in \div 3 + 1) % 16 = 0
                     THEN Append(longer, Newline)
                     ELSE longer
    /\ in' = in + 3
    /\ UNCHANGED <<pc, blob, pretty_print, damage, text, offset, destination>>

ends_line(s) == s # << >> /\ s[Len(s)] = Newline

\* The rest, and the last newline.  For an empty text, back() reads what is no
\* character of it, and a newline may follow or not.
FinishEncode ==
    /\ pc = "encode"
    /\ in + 3 > Len(blob)
    /\ LET all == IF in = Len(blob) THEN result
                  ELSE result \o encode_rest(SubSeq(blob, in + 1, Len(blob)))
       IN  \/ /\ pretty_print => all = << >> \/ ends_line(all)
              /\ result' = all
           \/ /\ pretty_print /\ ~ends_line(all)
              /\ result' = Append(all, Newline)
    /\ in' = Len(blob)
    /\ pc' = "encoded"
    /\ UNCHANGED <<blob, pretty_print, damage, text, offset, destination>>

-----------------------------------------------------------------------------
\* The text is stored and read again: as it is, cut short, with a character of
\* white space put in, or with one of its codes replaced by a stranger.
Deliver ==
    /\ pc = "encoded"
    /\ \/ /\ damage' = "none"
          /\ text' = result
       \/ /\ damage' = "cut"
          /\ \E n \in 0..(Len(result) - 1) : text' = SubSeq(result, 1, n)
       \/ /\ damage' = "space"
          /\ \E n \in 0..Len(result), c \in Spaces :
               text' = SubSeq(result, 1, n) \o <<c>> \o SubSeq(result, n + 1, Len(result))
       \/ /\ damage' = "spoilt"
          /\ \E n \in DOMAIN result, c \in Strangers :
               /\ is_code(result[n])
               /\ text' = [result EXCEPT ![n] = c]
    /\ pc' = "decode"
    /\ UNCHANGED <<blob, pretty_print, in, result, offset, destination>>

-----------------------------------------------------------------------------
(* decode                                                                  *)

\* Mutant: the fourth character is not looked at.
is_quad_of_three(s) ==
    /\ is_code(s[1]) /\ is_code(s[2])
    /\ s[3] = Pad \/ is_code(s[3])

\* decode_quad throws for characters that are neither codes nor padding where
\* it looks for them.  After "=" in the third place it does not look further.
is_quad(s) ==
    /\ is_code(s[1]) /\ is_code(s[2])
    /\ \/ s[3] = Pad
       \/ is_code(s[3]) /\ (s[4] = Pad \/ is_code(s[4]))

\* Mutant: the padding is counted the wrong way.
decode_quad_two_of_one(s) ==
    LET ret   == IF s[3] = Pad THEN 2 ELSE IF s[4] = Pad THEN 2 ELSE 3
        value == code2val(s[1]) * 262144 + code2val(s[2]) * 4096
                   + (IF s[3] = Pad THEN 0 ELSE code2val(s[3]) * 64)
                   + (IF ret < 3 THEN 0 ELSE code2val(s[4]))
    IN  SubSeq(<<(value \div 65536) % 256, (value \div 256) % 256, value % 256>>, 1, ret)

\* Mutant: the value is not cut down to a byte.
decode_quad_wide(s) ==
    LET ret   == IF s[3] = Pad THEN 1 ELSE IF s[4] = Pad THEN 2 ELSE 3
        value == code2val(s[1]) * 262144 + code2val(s[2]) * 4096
                   + (IF ret < 2 THEN 0 ELSE code2val(s[3]) * 64)
                   + (IF ret < 3 THEN 0 ELSE code2val(s[4]))
    IN  SubSeq(<<value \div 65536, value \div 256, value>>, 1, ret)

\* decode_quad: the bytes it pushes.
decode_quad(s) ==
    LET ret   == IF s[3] = Pad THEN 1 ELSE IF s[4] = Pad THEN 2 ELSE 3
        value == code2val(s[1]) * 262144 + code2val(s[2]) * 4096
                   + (IF ret < 2 THEN 0 ELSE code2val(s[3]) * 64)
                   + (IF ret < 3 THEN 0 ELSE code2val(s[4]))
    IN  SubSeq(<<(value \div 65536) % 256, (value \div 256) % 256, value % 256>>, 1, ret)

quad == SubSeq(text, offset + 1, offset + 4)
quad_follows == offset + 4 <= Len(text) /\ is_quad(quad)

SkipSpace ==
    /\ pc = "decode"
    /\ offset < Len(text)
    /\ isspace(text[offset + 1])
    /\ offset' = offset + 1
    /\ UNCHANGED <<pc, blob, pretty_print, in, result, damage, text, destination>>

DecodeQuad ==
    /\ pc = "decode"
    /\ offset < Len(text)
    /\ ~isspace(text[offset + 1])
    /\ quad_follows
    /\ destination' = destination \o decode_quad(quad)
    /\ offset' = offset + 4
    /\ UNCHANGED <<pc, blob, pretty_print, in, result, damage, text>>

\* Fewer than four characters are left, or they are no quad.
Throw ==
    /\ pc = "decode"
    /\ offset < Len(text)
    /\ ~isspace(text[offset + 1])
    /\ ~quad_follows
    /\ pc' = "thrown"
    /\ UNCHANGED <<blob, pretty_print, in, result, damage, text, offset, destination>>

FinishDecode ==
    /\ pc = "decode"
    /\ offset = Len(text)
    /\ pc' = "done"
    /\ UNCHANGED <<blob, pretty_print, in, result, damage, text, offset, destination>>

Next ==
    \/ EncodeTriplet \/ FinishEncode \/ Deliver
    \/ SkipSpace \/ DecodeQuad \/ Throw \/ FinishDecode

Spec == Init /\ [][Next]_vars

-----------------------------------------------------------------------------
(* Correctness.                                                            *)

TypeOK ==
    /\ pc \in {"encode", "encoded", "decode", "done", "thrown"}
    /\ blob \in Seq(Byte)
    /\ pretty_print \in BOOLEAN
    /\ in \in 0..Len(blob)
    /\ result \in Seq(Byte)
    /\ damage \in {"none", "cut", "space", "spoilt"}
    /\ text \in Seq(Byte)
    /\ offset \in 0..Len(text)
    /\ destination \in Seq(Byte)

\* What was encoded comes back, for a blob of any length, in one line or many:
\* no text of encode makes decode throw.
RoundTrip == damage = "none" => pc # "thrown" /\ (pc = "done" => destination = blob)

\* A text that was damaged is either noticed or harmless: white space within a
\* group makes decode throw and anywhere else is skipped, a character that is
\* not of the alphabet always makes it throw, and of a text that was cut short
\* decode makes no byte that was not in the blob at that place.
DamageIsNoticedOrHarmless ==
    pc = "done" =>
        /\ damage = "space" => destination = blob
        /\ damage # "spoilt"
        /\ damage = "cut" =>
             /\ Len(destination) <= Len(blob)
             /\ destination = SubSeq(blob, 1, Len(destination))

\* The bits of b, most significant first, with zeros after the last.
weight == <<128, 64, 32, 16, 8, 4, 2, 1>>
Bit(b, j) ==
    IF j \div 8 < Len(b) THEN (b[j \div 8 + 1] \div weight[(j % 8) + 1]) % 2 ELSE 0

\* RFC 4648: character i (from 0) of the text of b, lines left aside, is the
\* code of the i-th six bits of b, and padding fills the last group of four.
Character(b, i) ==
    IF 6 * i >= 8 * Len(b) THEN Pad
    ELSE codemap(32 * Bit(b, 6 * i) + 16 * Bit(b, 6 * i + 1) + 8 * Bit(b, 6 * i + 2)
                 + 4 * Bit(b, 6 * i + 3) + 2 * Bit(b, 6 * i + 4) + Bit(b, 6 * i + 5))

\* What encode returns is base64 as RFC 4648 has it; on request in lines of 64
\* characters, each ended by a newline.
EncodesAsStandard ==
    pc = "encoded" =>
        LET size == 4 * ((Len(blob) + 2) \div 3)
        IN  IF ~pretty_print
            THEN result = [n \in 1..size |-> Character(blob, n - 1)]
            ELSE size > 0 =>
                   /\ Len(result) = size + (size + 63) \div 64
                   /\ \A n \in 1..Len(result) :
                        result[n] = IF n % 65 = 0 \/ n = Len(result) THEN Newline
                                    ELSE Character(blob, n - 1 - (n \div 65))
=============================================================================
