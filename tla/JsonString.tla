----------------------------- MODULE JsonString -----------------------------
(***************************************************************************)
(* to_byte_vector::string (src/utils/json.cxx): a string is written        *)
(* between quotes, and escape copies it in runs, from l up to the next     *)
(* character p that must not stand for itself.  One action is one turn of  *)
(* its loop.  Characters are bytes; char is signed in the code, and bytes  *)
(* from 128 up are negative there.                                         *)
(***************************************************************************)
EXTENDS Integers, Sequences

CONSTANTS
    Strings         \* the strings that may be written

Byte == 0..255
Quote == 34
Backslash == 92
Delete == 127
Letter_u == 117
Digit_0 == 48

ASSUME JsonStringAssumption == Strings \subseteq Seq(Byte)

VARIABLES
    pc,             \* "begin", "escape", "done"
    s,              \* the string
    p, l,           \* the pointers of escape, as indices into s
    buffer_         \* to_byte_vector::buffer_

vars == <<pc, s, p, l, buffer_>>

\* What stands for a character in an escape of one character.
Short == [c \in {8, 9, 10, 12, 13} |->
            CASE c = 8 -> 98 [] c = 9 -> 116 [] c = 10 -> 110 [] c = 12 -> 102 [] c = 13 -> 114]

\* A hexadecimal digit: the table h.
h(d) == IF d < 10 THEN 48 + d ELSE 87 + d

\* Mutant: without the cast, a byte from 128 up is less than 32.
is_control_signed(c) == c < 32 \/ c = Delete \/ c >= 128

is_control(c) == c < 32 \/ c = Delete
is_special(c) == c = Quote \/ c = Backslash \/ is_control(c)

\* What is written for a special character.
escaped(c) ==
    IF ~is_control(c) THEN <<Backslash, c>>
    ELSE IF c \in DOMAIN Short THEN <<Backslash, Short[c]>>
    ELSE <<Backslash, Letter_u, Digit_0, Digit_0, h(c \div 16), h(c % 16)>>

\* write({ l, p - l })
run == SubSeq(s, l, p - 1)

Init ==
    /\ pc = "begin"
    /\ s \in Strings
    /\ p = 1 /\ l = 1
    /\ buffer_ = << >>

\* string: the opening quote.
Begin ==
    /\ pc = "begin"
    /\ buffer_' = <<Quote>>
    /\ pc' = "escape"
    /\ UNCHANGED <<s, p, l>>

\* A character that stands for itself lengthens the run.
Keep ==
    /\ pc = "escape" /\ p <= Len(s)
    /\ ~is_special(s[p])
    /\ p' = p + 1
    /\ UNCHANGED <<pc, s, l, buffer_>>

\* Mutant: the character after an escaped one is passed over.
EscapeAndSkip ==
    /\ pc = "escape" /\ p <= Len(s)
    /\ is_special(s[p])
    /\ buffer_' = buffer_ \o run \o escaped(s[p])
    /\ p' = p + 2 /\ l' = p + 2
    /\ UNCHANGED <<pc, s>>

\* Mutant: the next run begins with the character that was escaped.
EscapeAndRepeat ==
    /\ pc = "escape" /\ p <= Len(s)
    /\ is_special(s[p])
    /\ buffer_' = buffer_ \o run \o escaped(s[p])
    /\ p' = p + 1 /\ l' = p
    /\ UNCHANGED <<pc, s>>

\* Any other ends it: the run is written, and the next begins behind it.
Escape ==
    /\ pc = "escape" /\ p <= Len(s)
    /\ is_special(s[p])
    /\ buffer_' = buffer_ \o run \o escaped(s[p])
    /\ p' = p + 1 /\ l' = p + 1
    /\ UNCHANGED <<pc, s>>

\* The last run, and the closing quote.
Finish ==
    /\ pc = "escape" /\ p > Len(s)
    /\ buffer_' = buffer_ \o run \o <<Quote>>
    /\ pc' = "done"
    /\ UNCHANGED <<s, p, l>>

Next == Begin \/ Keep \/ Escape \/ Finish

Spec == Init /\ [][Next]_vars

-----------------------------------------------------------------------------
(* Properties.                                                             *)

TypeOK ==
    /\ pc \in {"begin", "escape", "done"}
    /\ s \in Seq(Byte)
    /\ p \in 1..(Len(s) + 1) /\ l \in 1..p
    /\ buffer_ \in Seq(Byte)

\* However the special characters of a string lie next to one another and at
\* its ends, no control character is ever in the text, and no quote inside it
\* that a backslash does not precede.
NothingBare ==
    \A i \in DOMAIN buffer_ :
        /\ ~is_control(buffer_[i])
        /\ buffer_[i] = Quote =>
              \/ i = 1
              \/ i = Len(buffer_) /\ pc = "done"
              \/ buffer_[i - 1] = Backslash

\* The bytes of a character below 256, in UTF-8.
Utf8(v) == IF v < 128 THEN <<v>> ELSE <<192 + (v \div 64), 128 + (v % 64)>>

\* How much of the text t stands for one character at i, and for which bytes:
\* \u is followed by four digits, of which the first two are "00" here.
width(t, i) == IF t[i] # Backslash THEN 1 ELSE IF t[i + 1] = Letter_u THEN 6 ELSE 2
digit(d) == IF d < 58 THEN d - 48 ELSE d - 87
meant(t, i) ==
    IF t[i] # Backslash THEN <<t[i]>>
    ELSE IF t[i + 1] = Letter_u THEN Utf8(digit(t[i + 4]) * 16 + digit(t[i + 5]))
    ELSE IF \E c \in DOMAIN Short : Short[c] = t[i + 1]
         THEN <<CHOOSE c \in DOMAIN Short : Short[c] = t[i + 1]>>
         ELSE <<t[i + 1]>>

\* What a reader of JSON makes of the text t, with its quotes: -1 stands where it
\* would find fault, for what follows the string or for an end that is missing.
Unescaped(t) ==
    LET at[i \in 2..Len(t)] ==
          IF i = Len(t) THEN IF t[i] = Quote THEN << >> ELSE <<-1>>
          ELSE IF t[i] = Quote \/ i + width(t, i) > Len(t) THEN <<-1>>
          ELSE meant(t, i) \o at[i + width(t, i)]
    IN  at[2]

\* The text is read as the string that was written: no character is lost or
\* doubled where a run ends, and nothing ends the string early.
ReadsAsWritten == pc = "done" => Unescaped(buffer_) = s
=============================================================================
