---------------------------- MODULE Base64Proofs ----------------------------
(***************************************************************************)
(* For blobs of all bytes and of any length.  First one group: what        *)
(* encode writes for three bytes, two or one, decode_quad accepts and      *)
(* turns back into them.  Then the whole text: where encode puts each      *)
(* group and each newline (Written), and where decode is among them,       *)
(* whatever happened to the text on its way (Decoding).  The invariant of  *)
(* the loops, LayoutInv, says so for each state; from it follow that what  *)
(* was encoded comes back and that damage is noticed or harmless.  Last,   *)
(* with its length (LengthInv) and the bits of its bytes, the text is the  *)
(* one that RFC 4648 has.                                                  *)
(***************************************************************************)
EXTENDS Base64, SequenceTheorems, TLAPS

\* code2val undoes codemap, over the whole alphabet, and a code is neither
\* padding nor white space.
LEMMA CodeOfValue ==
    ASSUME NEW v \in 0..63
    PROVE  /\ codemap(v) \in Byte
           /\ is_code(codemap(v))
           /\ code2val(codemap(v)) = v
           /\ codemap(v) # Pad
           /\ ~isspace(codemap(v))
  BY SMTT(30) DEF codemap, is_code, code2val, Pad, isspace, Byte

\* A value of 24 bits divided by 64 once, twice and three times.
LEMMA Shifts ==
    ASSUME NEW val \in Nat, val < 16777216
    PROVE  /\ val \div 64 \in Nat /\ val \div 4096 \in Nat
           /\ val \div 262144 \in 0..63
           /\ (val \div 262144) % 64 = val \div 262144
           /\ val = 64 * (val \div 64) + (val % 64)
           /\ val \div 64 = 64 * (val \div 4096) + ((val \div 64) % 64)
           /\ val \div 4096 = 64 * (val \div 262144) + ((val \div 4096) % 64)
           /\ (val \div 4096) % 64 \in 0..63
           /\ (val \div 64) % 64 \in 0..63
           /\ val % 64 \in 0..63
<1>1. val \div 64 \in Nat /\ val \div 4096 \in Nat BY SMT
<1>2. val \div 262144 \in 0..63 BY SMT
<1>3. (val \div 262144) % 64 = val \div 262144 BY <1>2, SMT
<1>4. val = 64 * (val \div 64) + (val % 64) BY SMT
<1>5. val \div 64 = 64 * (val \div 4096) + ((val \div 64) % 64) BY SMT
<1>6. val \div 4096 = 64 * (val \div 262144) + ((val \div 4096) % 64) BY SMT
<1>7. (val \div 4096) % 64 \in 0..63 BY SMT
<1>8. (val \div 64) % 64 \in 0..63 BY SMT
<1>9. val % 64 \in 0..63 BY SMT
<1> QED BY <1>1, <1>2, <1>3, <1>4, <1>5, <1>6, <1>7, <1>8, <1>9, SMT

-----------------------------------------------------------------------------
\* The sextets and the bytes of a value of 24 bits, and the values made of them.
Value(p, q, r, t) == p * 262144 + q * 4096 + r * 64 + t
Bytes(a, b, c) == a * 65536 + b * 256 + c
High(val) == (val \div 65536) % 256
Middle(val) == (val \div 256) % 256
Low(val) == val % 256
Values24 == {val \in Nat : val < 16777216}

\* A value is made up of its sextets.
LEMMA Sextets ==
    ASSUME NEW val \in Values24
    PROVE  \E p, q, r, t \in 0..63 : val = Value(p, q, r, t) /\ sextet(val) = <<p, q, r, t>>
<1> DEFINE p == (val \div 262144) % 64
           q == (val \div 4096) % 64
           r == (val \div 64) % 64
           t == val % 64
<1>1. val \in Nat /\ val < 16777216
  BY SMT DEF Values24
<1>2. p \in 0..63 /\ q \in 0..63 /\ r \in 0..63 /\ t \in 0..63
  BY <1>1, Shifts, SMT
<1>3. val = Value(p, q, r, t)
  BY <1>1, Shifts, SMT DEF Value
<1>4. sextet(val) = <<p, q, r, t>>
  BY SMT DEF sextet
<1> HIDE DEF p, q, r, t
<1> QED BY <1>2, <1>3, <1>4, Zenon

\* Three bytes are the bytes of the value they make.
LEMMA ThreeBytes ==
    ASSUME NEW a \in Byte, NEW b \in Byte, NEW c \in Byte
    PROVE  /\ Bytes(a, b, c) \in Values24
           /\ High(Bytes(a, b, c)) = a
           /\ Middle(Bytes(a, b, c)) = b
           /\ Low(Bytes(a, b, c)) = c
<1>1. a \in Nat /\ b \in Nat /\ c \in Nat /\ a < 256 /\ b < 256 /\ c < 256
  BY SMT DEF Byte
<1> DEFINE val == a * 65536 + b * 256 + c
<1>2. val \in Nat /\ val < 16777216 BY <1>1, SMT
<1>3. val \div 65536 = a BY <1>1, SMT
<1>4. val \div 256 = a * 256 + b BY <1>1, SMT
<1>5. val % 256 = c BY <1>1, SMT
<1>6. (a * 256 + b) % 256 = b BY <1>1, SMT
<1>7. a % 256 = a BY <1>1, SMT
<1> HIDE DEF val
<1>8. High(val) = a /\ Middle(val) = b /\ Low(val) = c /\ val \in Values24
  BY <1>2, <1>3, <1>4, <1>5, <1>6, <1>7, SMT DEF High, Middle, Low, Values24
<1>9. val = Bytes(a, b, c)
  BY SMT DEF val, Bytes
<1> QED BY <1>8, <1>9, Zenon

\* The first one, two and three elements of a sequence of three.
LEMMA Triples ==
    ASSUME NEW x \in Nat, NEW y \in Nat, NEW z \in Nat
    PROVE  /\ SubSeq(<<x, y, z>>, 1, 1) = <<x>>
           /\ SubSeq(<<x, y, z>>, 1, 2) = <<x, y>>
           /\ SubSeq(<<x, y, z>>, 1, 3) = <<x, y, z>>
<1> DEFINE u(n) == SubSeq(<<x, y, z>>, 1, n)
<1>1. \A n \in 1..3 : /\ u(n) \in Seq(Nat) /\ Len(u(n)) = n
                      /\ \A i \in 1..n : u(n)[i] = <<x, y, z>>[i]
  BY SMT
<1> HIDE DEF u
<1>2. \A w \in Seq(Nat) : /\ Len(w) = 1 => w = <<w[1]>>
                          /\ Len(w) = 2 => w = <<w[1], w[2]>>
                          /\ Len(w) = 3 => w = <<w[1], w[2], w[3]>>
  BY SMT
<1>3. u(1) = <<x>>
  <2>1. u(1) = <<u(1)[1]>> BY <1>1, <1>2, SMT
  <2>2. u(1)[1] = x BY <1>1, SMT
  <2> QED BY <2>1, <2>2, Zenon
<1>4. u(2) = <<x, y>>
  <2>1. u(2) = <<u(2)[1], u(2)[2]>> BY <1>1, <1>2, SMT
  <2>2. u(2)[1] = x /\ u(2)[2] = y BY <1>1, SMT
  <2> QED BY <2>1, <2>2, Zenon
<1>5. u(3) = <<x, y, z>>
  <2>1. u(3) = <<u(3)[1], u(3)[2], u(3)[3]>> BY <1>1, <1>2, SMT
  <2>2. u(3)[1] = x /\ u(3)[2] = y /\ u(3)[3] = z BY <1>1, SMT
  <2> QED BY <2>1, <2>2, Zenon
<1> QED BY <1>3, <1>4, <1>5, Zenon DEF u

\* The low bytes of a value.
LEMMA LowBytes ==
    ASSUME NEW val \in Nat
    PROVE  /\ SubSeq(<<High(val), Middle(val), Low(val)>>, 1, 1) = <<High(val)>>
           /\ SubSeq(<<High(val), Middle(val), Low(val)>>, 1, 2) = <<High(val), Middle(val)>>
           /\ SubSeq(<<High(val), Middle(val), Low(val)>>, 1, 3)
                = <<High(val), Middle(val), Low(val)>>
<1>1. High(val) \in Nat /\ Middle(val) \in Nat /\ Low(val) \in Nat
  BY SMT DEF High, Middle, Low
<1> QED BY <1>1, Triples, Zenon

\* Codes of sextets are what code2val and decode_quad look for.
LEMMA CodesOfSextets ==
    ASSUME NEW p \in 0..63
    PROVE  is_code(codemap(p)) /\ code2val(codemap(p)) = p /\ codemap(p) # Pad
  BY CodeOfValue, SMT

\* Four codes give three bytes,
LEMMA QuadOfFour ==
    ASSUME NEW p \in 0..63, NEW q \in 0..63, NEW r \in 0..63, NEW t \in 0..63
    PROVE  /\ is_quad(<<codemap(p), codemap(q), codemap(r), codemap(t)>>)
           /\ decode_quad(<<codemap(p), codemap(q), codemap(r), codemap(t)>>)
                = LET val == Value(p, q, r, t) IN <<High(val), Middle(val), Low(val)>>
<1> DEFINE s == <<codemap(p), codemap(q), codemap(r), codemap(t)>>
           val == Value(p, q, r, t)
<1>1. /\ is_code(codemap(p)) /\ is_code(codemap(q)) /\ is_code(codemap(r)) /\ is_code(codemap(t))
      /\ code2val(codemap(p)) = p /\ code2val(codemap(q)) = q
      /\ code2val(codemap(r)) = r /\ code2val(codemap(t)) = t
      /\ codemap(r) # Pad /\ codemap(t) # Pad
  BY CodesOfSextets, Zenon
<1>2. is_quad(s)
  BY <1>1, SMT DEF is_quad
<1>3. decode_quad(s) = SubSeq(<<High(val), Middle(val), Low(val)>>, 1, 3)
  BY <1>1, SMT DEF decode_quad, Value, High, Middle, Low
<1>4. val \in Nat
  BY SMT DEF Value
<1> HIDE DEF s, val
<1>5. decode_quad(s) = <<High(val), Middle(val), Low(val)>>
  BY <1>3, <1>4, LowBytes, Zenon
<1> QED BY <1>2, <1>5, Zenon DEF s, val

\* three codes and "=" give two,
LEMMA QuadOfThree ==
    ASSUME NEW p \in 0..63, NEW q \in 0..63, NEW r \in 0..63
    PROVE  /\ is_quad(<<codemap(p), codemap(q), codemap(r), Pad>>)
           /\ decode_quad(<<codemap(p), codemap(q), codemap(r), Pad>>)
                = LET val == Value(p, q, r, 0) IN <<High(val), Middle(val)>>
<1> DEFINE s == <<codemap(p), codemap(q), codemap(r), Pad>>
           val == Value(p, q, r, 0)
<1>1. /\ is_code(codemap(p)) /\ is_code(codemap(q)) /\ is_code(codemap(r))
      /\ code2val(codemap(p)) = p /\ code2val(codemap(q)) = q
      /\ code2val(codemap(r)) = r /\ codemap(r) # Pad
  BY CodesOfSextets, Zenon
<1>2. is_quad(s)
  BY <1>1, SMT DEF is_quad
<1>3. decode_quad(s) = SubSeq(<<High(val), Middle(val), Low(val)>>, 1, 2)
  BY <1>1, SMT DEF decode_quad, Value, High, Middle, Low
<1>4. val \in Nat
  BY SMT DEF Value
<1> HIDE DEF s, val
<1>5. decode_quad(s) = <<High(val), Middle(val)>>
  BY <1>3, <1>4, LowBytes, Zenon
<1> QED BY <1>2, <1>5, Zenon DEF s, val

\* and two and "==" give one.
LEMMA QuadOfTwo ==
    ASSUME NEW p \in 0..63, NEW q \in 0..63
    PROVE  /\ is_quad(<<codemap(p), codemap(q), Pad, Pad>>)
           /\ decode_quad(<<codemap(p), codemap(q), Pad, Pad>>) = <<High(Value(p, q, 0, 0))>>
<1> DEFINE s == <<codemap(p), codemap(q), Pad, Pad>>
           val == Value(p, q, 0, 0)
<1>1. /\ is_code(codemap(p)) /\ is_code(codemap(q))
      /\ code2val(codemap(p)) = p /\ code2val(codemap(q)) = q
  BY CodesOfSextets, Zenon
<1>2. is_quad(s)
  BY <1>1, SMT DEF is_quad
<1>3. decode_quad(s) = SubSeq(<<High(val), Middle(val), Low(val)>>, 1, 1)
  BY <1>1, SMT DEF decode_quad, Value, High, Middle, Low
<1>4. val \in Nat
  BY SMT DEF Value
<1> HIDE DEF s, val
<1>5. decode_quad(s) = <<High(val)>>
  BY <1>3, <1>4, LowBytes, Zenon
<1> QED BY <1>2, <1>5, Zenon DEF s, val

\* The sextets that the zeros behind a rest of two bytes fill,
LEMMA OneZero ==
    ASSUME NEW a \in Byte, NEW b \in Byte,
           NEW p \in 0..63, NEW q \in 0..63, NEW r \in 0..63, NEW t \in 0..63,
           Bytes(a, b, 0) = Value(p, q, r, t)
    PROVE  t = 0
<1> DEFINE k == a * 1024 + b * 4 - p * 4096 - q * 64 - r
<1>1. k \in Int /\ k * 64 = t
  BY SMT DEF Byte, Bytes, Value
<1> HIDE DEF k
<1>2. k = 0
  BY <1>1, SMT
<1> QED BY <1>1, <1>2, SMT

\* and behind one of one byte.
LEMMA TwoZeros ==
    ASSUME NEW a \in Byte,
           NEW p \in 0..63, NEW q \in 0..63, NEW r \in 0..63, NEW t \in 0..63,
           Bytes(a, 0, 0) = Value(p, q, r, t)
    PROVE  t = 0 /\ r = 0
<1> DEFINE k == a * 16 - p * 64 - q
<1>1. k \in Int /\ k * 4096 = r * 64 + t
  BY SMT DEF Byte, Bytes, Value
<1> HIDE DEF k
<1>2. k = 0
  BY <1>1, SMT
<1> QED BY <1>1, <1>2, SMT

-----------------------------------------------------------------------------
\* A group of three bytes: what encode_triplet writes, decode_quad accepts and
\* turns back into the three.
THEOREM TripletRoundTrip ==
    ASSUME NEW a \in Byte, NEW b \in Byte, NEW c \in Byte
    PROVE  /\ is_quad(encode_triplet(a, b, c))
           /\ decode_quad(encode_triplet(a, b, c)) = <<a, b, c>>
<1>1. PICK p \in 0..63, q \in 0..63, r \in 0..63, t \in 0..63 :
        Bytes(a, b, c) = Value(p, q, r, t) /\ sextet(Bytes(a, b, c)) = <<p, q, r, t>>
  BY ThreeBytes, Sextets, Zenon
<1>2. encode_triplet(a, b, c) = <<codemap(p), codemap(q), codemap(r), codemap(t)>>
  BY <1>1, SMT DEF encode_triplet, Bytes
<1>3. /\ is_quad(<<codemap(p), codemap(q), codemap(r), codemap(t)>>)
      /\ decode_quad(<<codemap(p), codemap(q), codemap(r), codemap(t)>>)
           = <<High(Value(p, q, r, t)), Middle(Value(p, q, r, t)), Low(Value(p, q, r, t))>>
  BY QuadOfFour, ZenonT(30)
<1>4. High(Bytes(a, b, c)) = a /\ Middle(Bytes(a, b, c)) = b /\ Low(Bytes(a, b, c)) = c
  BY ThreeBytes, Zenon
<1> QED BY <1>1, <1>2, <1>3, <1>4, Zenon

\* The last group, of two bytes or of one: the padding tells decode_quad how
\* many there are.
THEOREM RestRoundTrip ==
    ASSUME NEW a \in Byte, NEW b \in Byte
    PROVE  /\ is_quad(encode_rest(<<a, b>>))
           /\ decode_quad(encode_rest(<<a, b>>)) = <<a, b>>
           /\ is_quad(encode_rest(<<a>>))
           /\ decode_quad(encode_rest(<<a>>)) = <<a>>
<1>1. 0 \in Byte
  BY SMT DEF Byte
<1>2. /\ is_quad(encode_rest(<<a, b>>))
      /\ decode_quad(encode_rest(<<a, b>>)) = <<a, b>>
  <2>1. PICK p \in 0..63, q \in 0..63, r \in 0..63, t \in 0..63 :
          Bytes(a, b, 0) = Value(p, q, r, t) /\ sextet(Bytes(a, b, 0)) = <<p, q, r, t>>
    BY <1>1, ThreeBytes, Sextets, Zenon
  <2>2. t = 0
    BY <2>1, OneZero, Zenon
  <2>3. Bytes(a, b, 0) = a * 65536 + b * 256
    BY SMT DEF Bytes, Byte
  <2>4. encode_rest(<<a, b>>) = <<codemap(p), codemap(q), codemap(r), Pad>>
    BY <2>1, <2>3, SMT DEF encode_rest
  <2>5. /\ is_quad(<<codemap(p), codemap(q), codemap(r), Pad>>)
        /\ decode_quad(<<codemap(p), codemap(q), codemap(r), Pad>>)
             = <<High(Value(p, q, r, 0)), Middle(Value(p, q, r, 0))>>
    BY QuadOfThree, Zenon
  <2>6. High(Bytes(a, b, 0)) = a /\ Middle(Bytes(a, b, 0)) = b
    BY <1>1, ThreeBytes, Zenon
  <2> QED BY <2>1, <2>2, <2>4, <2>5, <2>6, Zenon
<1>3. /\ is_quad(encode_rest(<<a>>))
      /\ decode_quad(encode_rest(<<a>>)) = <<a>>
  <2>1. PICK p \in 0..63, q \in 0..63, r \in 0..63, t \in 0..63 :
          Bytes(a, 0, 0) = Value(p, q, r, t) /\ sextet(Bytes(a, 0, 0)) = <<p, q, r, t>>
    BY <1>1, ThreeBytes, Sextets, Zenon
  <2>2. t = 0 /\ r = 0
    BY <2>1, TwoZeros, Zenon
  <2>3. Bytes(a, 0, 0) = a * 65536
    BY SMT DEF Bytes, Byte
  <2>4. encode_rest(<<a>>) = <<codemap(p), codemap(q), Pad, Pad>>
    BY <2>1, <2>3, SMT DEF encode_rest
  <2>5. /\ is_quad(<<codemap(p), codemap(q), Pad, Pad>>)
        /\ decode_quad(<<codemap(p), codemap(q), Pad, Pad>>) = <<High(Value(p, q, 0, 0))>>
    BY QuadOfTwo, Zenon
  <2>6. High(Bytes(a, 0, 0)) = a
    BY <1>1, ThreeBytes, Zenon
  <2> QED BY <2>1, <2>2, <2>4, <2>5, <2>6, Zenon
<1> QED BY <1>2, <1>3, Zenon
-----------------------------------------------------------------------------
(* The whole text, for a blob of any length: where encode puts each group, *)
(* and where decode is among them.                                         *)

\* The groups of the blob are 0..(Size - 1).
Size == (Len(blob) + 2) \div 3
Group(i) ==
    IF 3 * i + 3 <= Len(blob)
    THEN encode_triplet(blob[3 * i + 1], blob[3 * i + 2], blob[3 * i + 3])
    ELSE encode_rest(SubSeq(blob, 3 * i + 1, Len(blob)))

\* Group i is what follows this many characters, of which one in 65 is the
\* newline of a full line.
Start(i) == 4 * i + (IF pretty_print THEN i \div 16 ELSE 0)

\* s has the first g groups at their places, and only newlines besides.
Written(s, g) ==
    /\ s \in Seq(Byte)
    /\ Start(g) <= Len(s)
    /\ \A i \in 0..(g - 1) : \A c \in 1..4 : s[Start(i) + c] = Group(i)[c]
    /\ \A i \in 1..g : Start(i) = Start(i - 1) + 5 => s[Start(i)] = Newline
    /\ \A p \in (Start(g) + 1)..Len(s) : s[p] = Newline

\* The bytes of the first i groups.
Part(i) == SubSeq(blob, 1, IF 3 * i <= Len(blob) THEN 3 * i ELSE Len(blob))

\* Behind n characters of the text encode has made, g groups have been read, and
\* no other has begun.
Reached(g, n) ==
    \/ n = Start(g)
    \/ g > 0 /\ n = Start(g) - 1 /\ Start(g) = Start(g - 1) + 5
    \/ g = Size /\ n \in Start(g)..Len(result)

\* The text on its way: c was put in behind n characters, or in place of the n-th.
SpaceAt(n, c) ==
    /\ damage = "space" /\ n \in 0..Len(result) /\ c \in Spaces
    /\ text = SubSeq(result, 1, n) \o <<c>> \o SubSeq(result, n + 1, Len(result))
SpoiltAt(n, c) ==
    /\ damage = "spoilt" /\ n \in DOMAIN result /\ c \in Strangers /\ is_code(result[n])
    /\ text = [result EXCEPT ![n] = c]

\* decode has taken white space for the second of two "=", and stands before it.
Astray(n) == offset = n + 1 /\ offset < Len(text) /\ text[offset + 1] = Pad

\* decode has read g groups of a text that is as it was written, was cut short,
\* had a character put in or a character spoilt, which is still to come.
Untouched(g) == damage = "none" /\ text = result /\ Reached(g, offset)
CutShort(g) ==
    /\ damage = "cut" /\ Reached(g, offset)
    /\ \E n \in 0..(Len(result) - 1) : text = SubSeq(result, 1, n)
Spaced(g) ==
    \E n \in Nat, c \in Spaces :
      SpaceAt(n, c) /\ Reached(g, IF offset <= n THEN offset ELSE offset - 1)
Spoilt(g) ==
    \E n \in Nat, c \in Strangers : SpoiltAt(n, c) /\ Reached(g, offset) /\ offset < n

Decoding ==
    \/ \E g \in 0..Size :
         destination = Part(g) /\ (Untouched(g) \/ CutShort(g) \/ Spaced(g) \/ Spoilt(g))
    \/ \E n \in Nat, c \in Spaces : SpaceAt(n, c) /\ Astray(n)

LayoutInv ==
    /\ pc = "encode" => /\ in % 3 = 0
                        /\ Written(result, in \div 3) /\ Len(result) = Start(in \div 3)
    /\ pc # "encode" => Written(result, Size)
    /\ pc \in {"encode", "encoded"} =>
         text = << >> /\ offset = 0 /\ destination = << >> /\ damage = "none"
    /\ pc \in {"decode", "done"} => Decoding
    /\ pc = "done" => offset = Len(text)
    /\ damage = "none" => pc # "thrown"

\* Where groups are.
LEMMA StartNat ==
    /\ \A i \in Nat : Start(i) \in Nat
    /\ Start(0) = 0
<1>1. 0 \div 16 = 0 /\ \A i \in Nat : i \div 16 \in Nat
  BY SMT
<1>2. QED BY <1>1, SMT DEF Start

\* One follows another, perhaps with a newline between them.
LEMMA StartNext ==
    ASSUME NEW i \in Nat
    PROVE  Start(i + 1) \in {Start(i) + 4, Start(i) + 5}
<1>1. (i + 1) \div 16 \in {i \div 16, (i \div 16) + 1}
  BY SMT
<1>2. i \div 16 \in Nat
  BY SMT
<1>3. QED BY <1>1, <1>2, SMT DEF Start

\* In pretty-printed text there is a newline behind every sixteenth group.
LEMMA StartLine ==
    ASSUME NEW i \in Nat
    PROVE  Start(i + 1) = Start(i) + (IF pretty_print /\ (i + 1) % 16 = 0 THEN 5 ELSE 4)
<1>1. (i + 1) \div 16 = (i \div 16) + (IF (i + 1) % 16 = 0 THEN 1 ELSE 0)
  BY SMT
<1>2. i \div 16 \in Nat
  BY SMT
<1>3. QED BY <1>1, <1>2, SMT DEF Start

\* Groups do not overlap.
LEMMA StartOrder ==
    ASSUME NEW i \in Nat, NEW j \in Nat, i < j
    PROVE  Start(i) + 4 <= Start(j)
<1>1. i \div 16 \in Nat /\ j \div 16 \in Nat /\ i \div 16 <= j \div 16
  BY SMT
<1>2. QED BY <1>1, SMT DEF Start

LEMMA StartBefore ==
    ASSUME NEW g \in Nat, NEW i \in 0..g
    PROVE  /\ i \in Nat /\ Start(i) \in Nat /\ Start(g) \in Nat /\ Start(i) <= Start(g)
           /\ i < g => Start(i) + 4 <= Start(g) /\ i \in 0..(g - 1)
           /\ i > 0 => i \in 1..g /\ i - 1 \in Nat /\ Start(i - 1) \in Nat
<1>1. i \in Nat /\ (i > 0 => i \in 1..g /\ i - 1 \in Nat) /\ (i < g => i \in 0..(g - 1)) /\ i <= g
  OBVIOUS
<1>2. Start(i) \in Nat /\ Start(g) \in Nat /\ (i - 1 \in Nat => Start(i - 1) \in Nat)
  BY <1>1, StartNat
<1>3. i < g => Start(i) + 4 <= Start(g)
  BY <1>1, StartOrder
<1>4. Start(i) <= Start(g)
  BY <1>1, <1>2, <1>3
<1>5. QED BY <1>1, <1>2, <1>3, <1>4

\* Sequences of bytes are equal if their elements are.
LEMMA SameBytes ==
    ASSUME NEW s \in Seq(Byte), NEW t \in Seq(Byte), Len(s) = Len(t),
           \A i \in 1..Len(s) : s[i] = t[i]
    PROVE  s = t
  OBVIOUS

\* Short ones are what their elements are.
LEMMA Tuples ==
    ASSUME NEW s \in Seq(Byte)
    PROVE  /\ Len(s) = 1 => s = <<s[1]>>
           /\ Len(s) = 2 => s = <<s[1], s[2]>>
           /\ Len(s) = 4 => s = <<s[1], s[2], s[3], s[4]>>
  BY SMT

\* A piece of a sequence of bytes.
LEMMA PieceParts ==
    ASSUME NEW s \in Seq(Byte), NEW m \in Nat \ {0}, NEW n \in Nat, m <= n + 1, n <= Len(s)
    PROVE  /\ SubSeq(s, m, n) \in Seq(Byte) /\ Len(SubSeq(s, m, n)) = n - m + 1
           /\ \A i \in 1..(n - m + 1) : SubSeq(s, m, n)[i] = s[m + i - 1]
<1>1. \A i \in m..n : s[i] \in Byte
  OBVIOUS
<1>2. Len(SubSeq(s, m, n)) = IF m <= n THEN n - m + 1 ELSE 0
  BY <1>1, SubSeqProperties
<1>3. QED BY <1>1, <1>2, SubSeqProperties

\* Bytes and groups of the blob.
LEMMA SizeParts ==
    ASSUME blob \in Seq(Byte)
    PROVE  /\ Len(blob) \in Nat /\ Size \in Nat
           /\ \A i \in Nat : i < Size <=> 3 * i < Len(blob)
           /\ 3 * Size >= Len(blob)
  BY SMT DEF Size

\* What encode makes of three bytes, two and one.
LEMMA TripletParts ==
    ASSUME NEW a \in Byte, NEW b \in Byte, NEW c \in Byte
    PROVE  LET s == encode_triplet(a, b, c)
           IN  /\ s \in Seq(Byte) /\ Len(s) = 4 /\ s = <<s[1], s[2], s[3], s[4]>>
               /\ \A i \in 1..4 : is_code(s[i])
<1>1. PICK p \in 0..63, q \in 0..63, r \in 0..63, t \in 0..63 :
        Bytes(a, b, c) = Value(p, q, r, t) /\ sextet(Bytes(a, b, c)) = <<p, q, r, t>>
  BY ThreeBytes, Sextets, Zenon
<1>2. encode_triplet(a, b, c) = <<codemap(p), codemap(q), codemap(r), codemap(t)>>
  BY <1>1, SMT DEF encode_triplet, Bytes
<1>3. /\ codemap(p) \in Byte /\ codemap(q) \in Byte /\ codemap(r) \in Byte /\ codemap(t) \in Byte
      /\ is_code(codemap(p)) /\ is_code(codemap(q)) /\ is_code(codemap(r)) /\ is_code(codemap(t))
  BY CodeOfValue, Zenon
<1>4. QED BY <1>2, <1>3, SMT

LEMMA RestParts ==
    ASSUME NEW rest \in Seq(Byte), Len(rest) \in {1, 2}
    PROVE  LET s == encode_rest(rest)
           IN  /\ s \in Seq(Byte) /\ Len(s) = 4 /\ s = <<s[1], s[2], s[3], s[4]>>
               /\ is_code(s[1]) /\ is_code(s[2]) /\ s[4] = Pad
               /\ s[3] = Pad \/ is_code(s[3])
<1> DEFINE a == rest[1]
           b == IF Len(rest) = 2 THEN rest[2] ELSE 0
<1>1. a \in Byte /\ b \in Byte /\ 0 \in Byte
  <2>1. 0 \in Byte
    BY SMT DEF Byte
  <2>2. \A i \in 1..Len(rest) : rest[i] \in Byte
    BY SMT
  <2>3. 1 \in 1..Len(rest) /\ (Len(rest) = 2 => 2 \in 1..Len(rest))
    BY SMT
  <2>4. QED BY <2>1, <2>2, <2>3
<1> HIDE DEF a, b
<1>2. PICK p \in 0..63, q \in 0..63, r \in 0..63, t \in 0..63 :
        Bytes(a, b, 0) = Value(p, q, r, t) /\ sextet(Bytes(a, b, 0)) = <<p, q, r, t>>
  BY <1>1, ThreeBytes, Sextets, Zenon
<1>3. Bytes(a, b, 0) = IF Len(rest) = 2 THEN rest[1] * 65536 + rest[2] * 256 ELSE rest[1] * 65536
  <2>1. Bytes(a, b, 0) = a * 65536 + b * 256
    BY <1>1, SMT DEF Bytes, Byte
  <2>2. b = 0 => Bytes(a, b, 0) = a * 65536
    BY <1>1, <2>1, SMT DEF Byte
  <2>3. QED BY <2>1, <2>2 DEF a, b
<1>4. encode_rest(rest) = <<codemap(p), codemap(q), IF Len(rest) = 2 THEN codemap(r) ELSE Pad, Pad>>
  BY <1>2, <1>3, SMT DEF encode_rest
<1>5. /\ codemap(p) \in Byte /\ codemap(q) \in Byte /\ codemap(r) \in Byte
      /\ is_code(codemap(p)) /\ is_code(codemap(q)) /\ is_code(codemap(r))
  BY CodeOfValue, Zenon
<1>6. Pad \in Byte
  BY SMT DEF Pad, Byte
<1>7. QED BY <1>4, <1>5, <1>6, SMT

\* The rest of the blob is of one byte or two.
LEMMA RestOfBlob ==
    ASSUME blob \in Seq(Byte), NEW i \in Nat, 3 * i < Len(blob), 3 * i + 3 > Len(blob)
    PROVE  LET rest == SubSeq(blob, 3 * i + 1, Len(blob))
           IN  /\ rest \in Seq(Byte) /\ Len(rest) \in {1, 2} /\ Len(blob) = 3 * i + Len(rest)
               /\ Len(rest) = 1 => rest = <<blob[3 * i + 1]>>
               /\ Len(rest) = 2 => rest = <<blob[3 * i + 1], blob[3 * i + 2]>>
<1> DEFINE m == 3 * i + 1
           l == Len(blob)
           rest == SubSeq(blob, m, l)
<1>1. m \in Nat \ {0} /\ l \in Nat /\ l \in {m, m + 1} /\ m + 1 = 3 * i + 2 /\ m = 3 * i + 1
  BY SMT
<1> HIDE DEF m
<1>2. m <= l + 1 /\ l <= Len(blob)
  BY <1>1
<1>3. /\ rest \in Seq(Byte) /\ Len(rest) = l - m + 1
      /\ \A j \in 1..(l - m + 1) : rest[j] = blob[m + j - 1]
  BY <1>1, <1>2, PieceParts
<1> HIDE DEF rest, l
<1>4. CASE l = m
  <2>1. Len(rest) = 1 /\ rest[1] = blob[m] /\ l = 3 * i + 1
    BY <1>1, <1>3, <1>4, SMT
  <2>2. rest = <<blob[m]>>
    BY <1>3, <2>1, Tuples
  <2>3. QED BY <1>1, <1>3, <2>1, <2>2 DEF rest, l
<1>5. CASE l = m + 1
  <2>1. Len(rest) = 2 /\ rest[1] = blob[m] /\ rest[2] = blob[m + 1] /\ l = 3 * i + 2
    BY <1>1, <1>3, <1>5, SMT
  <2>2. rest = <<blob[m], blob[m + 1]>>
    BY <1>3, <2>1, Tuples
  <2>3. QED BY <1>1, <1>3, <2>1, <2>2 DEF rest, l
<1>6. QED BY <1>1, <1>4, <1>5

\* A group is a quad of bytes; only the last has padding, and that at its end.
LEMMA GroupParts ==
    ASSUME blob \in Seq(Byte), NEW i \in Nat, i < Size
    PROVE  LET s == Group(i)
           IN  /\ s \in Seq(Byte) /\ Len(s) = 4 /\ s = <<s[1], s[2], s[3], s[4]>>
               /\ is_code(s[1]) /\ is_code(s[2])
               /\ (s[3] = Pad /\ s[4] = Pad) \/ (is_code(s[3]) /\ (s[4] = Pad \/ is_code(s[4])))
               /\ s[4] = Pad => i + 1 = Size
               /\ is_quad(s)
<1> DEFINE s == Group(i)
<1>1. Len(blob) \in Nat /\ 3 * i < Len(blob)
  BY SizeParts
<1>2. CASE 3 * i + 3 <= Len(blob)
  <2>1. blob[3 * i + 1] \in Byte /\ blob[3 * i + 2] \in Byte /\ blob[3 * i + 3] \in Byte
    BY <1>1, <1>2, SMT
  <2>2. s = encode_triplet(blob[3 * i + 1], blob[3 * i + 2], blob[3 * i + 3])
    BY <1>2 DEF Group
  <2> HIDE DEF s
  <2>3. /\ s \in Seq(Byte) /\ Len(s) = 4 /\ s = <<s[1], s[2], s[3], s[4]>>
        /\ \A j \in 1..4 : is_code(s[j])
    BY <2>1, <2>2, TripletParts, Zenon
  <2>4. is_code(s[1]) /\ is_code(s[2]) /\ is_code(s[3]) /\ is_code(s[4]) /\ s[4] # Pad
    <3>1. ~is_code(Pad)
      BY SMT DEF is_code, Pad
    <3>2. is_code(s[1]) /\ is_code(s[2]) /\ is_code(s[3]) /\ is_code(s[4])
      BY <2>3, SMT
    <3>3. QED BY <3>1, <3>2, Zenon
  <2>5. is_quad(s)
    BY <2>4, Zenon DEF is_quad
  <2>6. QED BY <2>3, <2>4, <2>5, Zenon DEF s
<1>3. CASE 3 * i + 3 > Len(blob)
  <2> DEFINE rest == SubSeq(blob, 3 * i + 1, Len(blob))
  <2>1. rest \in Seq(Byte) /\ Len(rest) \in {1, 2}
    BY <1>1, <1>3, RestOfBlob
  <2>2. s = encode_rest(rest)
    BY <1>1, <1>3, SMT DEF Group
  <2> HIDE DEF s, rest
  <2>3. /\ s \in Seq(Byte) /\ Len(s) = 4 /\ s = <<s[1], s[2], s[3], s[4]>>
        /\ is_code(s[1]) /\ is_code(s[2]) /\ s[4] = Pad
        /\ s[3] = Pad \/ is_code(s[3])
    BY <2>1, <2>2, RestParts, Zenon
  <2>4. i + 1 = Size
    <3>1. ~(i + 1 < Size)
      BY <1>1, <1>3, SizeParts, SMT
    <3>2. QED BY <3>1, SizeParts, SMT
  <2>5. is_quad(s)
    BY <2>3, Zenon DEF is_quad
  <2>6. QED BY <2>3, <2>4, <2>5, Zenon DEF s
<1>4. QED BY <1>1, <1>2, <1>3, SMT

\* Decoded after those before it, a group gives the next part of the blob.
LEMMA PartNext ==
    ASSUME blob \in Seq(Byte), NEW i \in Nat, i < Size
    PROVE  /\ Part(i) \in Seq(Byte) /\ Part(0) = << >> /\ Part(Size) = blob
           /\ decode_quad(Group(i)) \in Seq(Byte)
           /\ Part(i) \o decode_quad(Group(i)) = Part(i + 1)
<1>1. Len(blob) \in Nat /\ 3 * i < Len(blob) /\ 3 * Size >= Len(blob) /\ Size \in Nat
  BY SizeParts
<1>2. Part(i) = SubSeq(blob, 1, 3 * i)
  BY <1>1, SMT DEF Part
<1>3. Part(0) = << >>
  BY <1>1, SMT DEF Part
<1>4. Part(Size) = blob
  <2>1. Part(Size) = SubSeq(blob, 1, Len(blob))
    BY <1>1, SMT DEF Part
  <2>2. QED BY <2>1, SMT
<1>5. CASE 3 * i + 3 <= Len(blob)
  <2> DEFINE t == <<blob[3 * i + 1], blob[3 * i + 2], blob[3 * i + 3]>>
  <2>1. blob[3 * i + 1] \in Byte /\ blob[3 * i + 2] \in Byte /\ blob[3 * i + 3] \in Byte
    BY <1>1, <1>5, SMT
  <2>2. decode_quad(Group(i)) = t
    BY <1>5, <2>1, TripletRoundTrip DEF Group
  <2>3. Part(i + 1) = SubSeq(blob, 1, 3 * i + 3)
    BY <1>1, <1>5, SMT DEF Part
  <2>4. SubSeq(blob, 1, 3 * i) \o t = SubSeq(blob, 1, 3 * i + 3)
    BY <1>1, <1>5, <2>1, SameBytes, SMT
  <2>5. t \in Seq(Byte) /\ Part(i) \in Seq(Byte)
    <3>1. Part(i) \in Seq(Byte)
      BY <1>1, <1>2, PieceParts, SMT
    <3>2. QED BY <2>1, <3>1
  <2> HIDE DEF t
  <2>6. QED BY <1>2, <1>3, <1>4, <2>2, <2>3, <2>4, <2>5
<1>6. CASE 3 * i + 3 > Len(blob)
  <2> DEFINE rest == SubSeq(blob, 3 * i + 1, Len(blob))
  <2>1. /\ rest \in Seq(Byte) /\ Len(rest) \in {1, 2} /\ Len(blob) = 3 * i + Len(rest)
        /\ Len(rest) = 1 => rest = <<blob[3 * i + 1]>>
        /\ Len(rest) = 2 => rest = <<blob[3 * i + 1], blob[3 * i + 2]>>
    BY <1>1, <1>6, RestOfBlob
  <2>2. Group(i) = encode_rest(rest)
    BY <1>1, <1>6, SMT DEF Group
  <2>3. Part(i + 1) = blob
    <3>1. Part(i + 1) = SubSeq(blob, 1, Len(blob))
      BY <1>1, <1>6, SMT DEF Part
    <3>2. QED BY <3>1, SMT
  <2>4. SubSeq(blob, 1, 3 * i) \o rest = blob
    <3> DEFINE k == 3 * i
    <3>1. k \in (1 - 1)..Len(blob) /\ 1 \in 1..(Len(blob) + 1) /\ Len(blob) \in k..Len(blob)
      BY <1>1, SMT
    <3> HIDE DEF k
    <3>2. SubSeq(blob, 1, k) \o SubSeq(blob, k + 1, Len(blob)) = SubSeq(blob, 1, Len(blob))
      BY <3>1, ConcatAdjacentSubSeq
    <3>3. QED BY <3>2, SubSeqFull DEF k
  <2>5. \A j \in 1..Len(blob) : blob[j] \in Byte
    BY SMT
  <2> HIDE DEF rest
  <2>6. decode_quad(encode_rest(rest)) = rest
    <3>1. CASE Len(rest) = 1
      <4>1. blob[3 * i + 1] \in Byte
        BY <1>1, <2>1, <2>5, <3>1, SMT
      <4>2. QED BY <2>1, <3>1, <4>1, RestRoundTrip, Zenon
    <3>2. CASE Len(rest) = 2
      <4>1. blob[3 * i + 1] \in Byte /\ blob[3 * i + 2] \in Byte
        BY <1>1, <2>1, <2>5, <3>2, SMT
      <4>2. QED BY <2>1, <3>2, <4>1, RestRoundTrip, Zenon
    <3>3. QED BY <2>1, <3>1, <3>2
  <2>7. Part(i) \in Seq(Byte)
    BY <1>1, <1>2, SMT
  <2>8. QED BY <1>2, <1>3, <1>4, <2>1, <2>2, <2>3, <2>4, <2>6, <2>7, Zenon DEF rest
<1>7. QED BY <1>1, <1>5, <1>6, SMT

\* t is s, a group of characters, and perhaps a newline.
Prolongs(t, s, group) ==
    /\ t \in Seq(Byte) /\ Len(t) \in {Len(s) + 4, Len(s) + 5}
    /\ \A p \in 1..Len(s) : t[p] = s[p]
    /\ \A c \in 1..4 : t[Len(s) + c] = group[c]
    /\ Len(t) = Len(s) + 5 => t[Len(s) + 5] = Newline

\* One more group.
LEMMA WrittenNext ==
    ASSUME blob \in Seq(Byte), NEW g \in Nat, g < Size,
           NEW s, Written(s, g), Len(s) = Start(g),
           NEW t, Prolongs(t, s, Group(g)), Start(g + 1) <= Len(t)
    PROVE  Written(t, g + 1)
<1>1. /\ Start(g) \in Nat /\ Start(g + 1) \in {Start(g) + 4, Start(g) + 5}
      /\ t \in Seq(Byte) /\ Len(t) \in {Start(g) + 4, Start(g) + 5}
      /\ Len(t) = Start(g) + 5 => t[Start(g) + 5] = Newline
  BY StartNat, StartNext DEF Prolongs
<1>2. /\ \A p \in 1..Len(s) : t[p] = s[p]
      /\ \A c \in 1..4 : t[Start(g) + c] = Group(g)[c]
  BY DEF Prolongs
<1>3. ASSUME NEW i \in 0..g, NEW c \in 1..4
      PROVE  t[Start(i) + c] = Group(i)[c]
  <2>1. CASE i = g
    BY <1>2, <2>1
  <2>2. CASE i < g
    <3>1. Start(i) \in Nat /\ Start(i) + 4 <= Start(g)
      BY <2>2, StartBefore
    <3>2. Start(i) + c \in 1..Start(g) /\ i \in 0..(g - 1)
      BY <1>1, <2>2, <3>1, SMTT(30)
    <3>3. t[Start(i) + c] = s[Start(i) + c]
      BY <1>2, <3>2
    <3>4. s[Start(i) + c] = Group(i)[c]
      BY <3>2 DEF Written
    <3>5. QED BY <3>3, <3>4
  <2>3. QED BY <2>1, <2>2
<1>4. ASSUME NEW i \in 1..(g + 1), Start(i) = Start(i - 1) + 5
      PROVE  t[Start(i)] = Newline
  <2>1. CASE i = g + 1
    <3>1. i - 1 = g
      BY <2>1
    <3>2. Start(i) = Start(g) + 5 /\ Len(t) = Start(g) + 5
      BY <1>1, <1>4, <2>1, <3>1
    <3>3. QED BY <1>1, <3>2
  <2>2. CASE i <= g
    <3>1. i \in 0..g /\ i > 0
      BY <2>2
    <3>2. /\ Start(i) \in Nat /\ Start(i) <= Start(g) /\ Start(i - 1) \in Nat /\ i \in 1..g
      BY <3>1, StartBefore
    <3>3. Start(i) \in 1..Start(g) /\ i \in 1..g
      BY <1>1, <1>4, <3>2
    <3>4. t[Start(i)] = s[Start(i)] /\ s[Start(i)] = Newline
      BY <1>2, <1>4, <3>3 DEF Written
    <3>5. QED BY <3>4
  <2>3. QED BY <2>1, <2>2
<1>5. ASSUME NEW p \in (Start(g + 1) + 1)..Len(t)
      PROVE  t[p] = Newline
  <2>1. p = Start(g) + 5 /\ Len(t) = Start(g) + 5
    BY <1>1
  <2>2. QED BY <1>1, <2>1
<1>6. (g + 1) - 1 = g
  OBVIOUS
<1>7. QED BY <1>1, <1>3, <1>4, <1>5, <1>6 DEF Written

\* What is written stays written when a newline follows.
LEMMA WrittenNewline ==
    ASSUME NEW g \in Nat, NEW s, Written(s, g)
    PROVE  Written(Append(s, Newline), g)
<1> DEFINE t == Append(s, Newline)
<1>1. s \in Seq(Byte) /\ Start(g) \in Nat /\ Start(g) <= Len(s) /\ Newline \in Byte
  BY StartNat DEF Written, Newline, Byte
<1>2. /\ t \in Seq(Byte) /\ Len(t) = Len(s) + 1 /\ t[Len(s) + 1] = Newline
      /\ \A p \in 1..Len(s) : t[p] = s[p]
  BY <1>1, AppendProperties
<1>3. Len(s) \in Nat
  BY <1>1
<1> HIDE DEF t
<1>4. ASSUME NEW i \in 0..(g - 1), NEW c \in 1..4
      PROVE  t[Start(i) + c] = Group(i)[c]
  <2>1. i \in 0..g /\ i < g
    OBVIOUS
  <2>2. Start(i) \in Nat /\ Start(i) + 4 <= Start(g)
    BY <2>1, StartBefore
  <2>3. Start(i) + c \in 1..Len(s)
    BY <1>1, <1>3, <2>2
  <2>4. QED BY <1>2, <2>3 DEF Written
<1>5. ASSUME NEW i \in 1..g, Start(i) = Start(i - 1) + 5
      PROVE  t[Start(i)] = Newline
  <2>1. i \in 0..g /\ i > 0
    OBVIOUS
  <2>2. Start(i) \in Nat /\ Start(i - 1) \in Nat /\ Start(i) <= Start(g)
    BY <2>1, StartBefore
  <2>3. Start(i) \in 1..Len(s)
    BY <1>1, <1>3, <1>5, <2>2
  <2>4. QED BY <1>2, <1>5, <2>3 DEF Written
<1>6. ASSUME NEW p \in (Start(g) + 1)..Len(t)
      PROVE  t[p] = Newline
  <2>1. \/ p = Len(s) + 1
        \/ p \in (Start(g) + 1)..Len(s) /\ p \in 1..Len(s)
    BY <1>1, <1>2, <1>3
  <2>2. QED BY <1>2, <2>1 DEF Written
<1>7. Start(g) <= Len(t)
  BY <1>1, <1>2, <1>3
<1>8. QED BY <1>2, <1>4, <1>5, <1>6, <1>7 DEF Written, t

\* The last group is written, with a newline or without.
LEMMA WrittenGroup ==
    ASSUME blob \in Seq(Byte), NEW g \in Nat, g < Size,
           NEW s, Written(s, g), Len(s) = Start(g)
    PROVE  LET longer == s \o Group(g)
           IN  /\ longer \in Seq(Byte) /\ Len(longer) = Start(g) + 4
               /\ longer[Len(longer)] = Group(g)[4] /\ longer # << >>
               /\ ~(pretty_print /\ (g + 1) % 16 = 0) =>
                    Written(longer, g + 1) /\ Start(g + 1) = Len(longer)
               /\ pretty_print /\ (g + 1) % 16 = 0 =>
                    /\ Written(Append(longer, Newline), g + 1)
                    /\ Start(g + 1) = Len(Append(longer, Newline))
<1> DEFINE longer == s \o Group(g)
           t == Append(longer, Newline)
<1>1. Start(g) \in Nat /\ s \in Seq(Byte) /\ Newline \in Byte
  BY StartNat DEF Written, Newline, Byte
<1>2. Group(g) \in Seq(Byte) /\ Len(Group(g)) = 4
  BY GroupParts
<1>3. Start(g + 1) = Start(g) + (IF pretty_print /\ (g + 1) % 16 = 0 THEN 5 ELSE 4)
  BY StartLine
<1>4. /\ longer \in Seq(Byte) /\ Len(longer) = Len(s) + 4
      /\ \A p \in 1..(Len(s) + 4) : longer[p] = IF p <= Len(s) THEN s[p] ELSE Group(g)[p - Len(s)]
  <2>1. /\ longer \in Seq(Byte) /\ Len(longer) = Len(s) + Len(Group(g))
        /\ \A p \in 1..(Len(s) + Len(Group(g))) :
             longer[p] = IF p <= Len(s) THEN s[p] ELSE Group(g)[p - Len(s)]
    BY <1>1, <1>2, ConcatProperties
  <2>2. QED BY <1>2, <2>1
<1> HIDE DEF longer
<1>5. /\ \A p \in 1..Len(s) : longer[p] = s[p]
      /\ \A c \in 1..4 : longer[Len(s) + c] = Group(g)[c]
  <2>1. Len(s) \in Nat
    BY <1>1
  <2>2. \A p \in 1..Len(s) : longer[p] = s[p]
    BY <1>4, <2>1
  <2>3. ASSUME NEW c \in 1..4
        PROVE  longer[Len(s) + c] = Group(g)[c]
    <3>1. Len(s) + c \in 1..(Len(s) + 4) /\ ~(Len(s) + c <= Len(s)) /\ (Len(s) + c) - Len(s) = c
      BY <2>1
    <3>2. QED BY <1>4, <3>1
  <2>4. QED BY <2>2, <2>3
<1>6. longer[Len(longer)] = Group(g)[4] /\ longer # << >>
  <2>1. longer[Len(longer)] = Group(g)[4]
    BY <1>4, <1>5
  <2>2. longer # << >>
    BY <1>1, <1>4
  <2>3. QED BY <2>1, <2>2
<1>7. CASE ~(pretty_print /\ (g + 1) % 16 = 0)
  <2>1. Start(g + 1) = Len(longer) /\ Len(longer) # Len(s) + 5
    BY <1>1, <1>3, <1>4, <1>7
  <2>2. Prolongs(longer, s, Group(g))
    BY <1>4, <1>5, <2>1 DEF Prolongs
  <2>3. Written(longer, g + 1)
    BY <1>1, <1>4, <2>1, <2>2, WrittenNext
  <2>4. QED BY <1>4, <1>6, <1>7, <2>1, <2>3 DEF longer
<1>8. CASE pretty_print /\ (g + 1) % 16 = 0
  <2>1. /\ t \in Seq(Byte) /\ Len(t) = Len(longer) + 1 /\ t[Len(longer) + 1] = Newline
        /\ \A p \in 1..Len(longer) : t[p] = longer[p]
    BY <1>1, <1>4, AppendProperties
  <2> HIDE DEF t
  <2>2. Len(t) = Len(s) + 5 /\ Start(g + 1) = Len(t) /\ t[Len(s) + 5] = Newline /\ Len(s) \in Nat
    BY <1>1, <1>3, <1>4, <1>8, <2>1
  <2>3. /\ \A p \in 1..Len(s) : t[p] = s[p]
        /\ \A c \in 1..4 : t[Len(s) + c] = Group(g)[c]
    <3>1. \A p \in 1..Len(s) : p \in 1..Len(longer)
      BY <1>4, <2>2
    <3>2. \A c \in 1..4 : Len(s) + c \in 1..Len(longer)
      BY <1>4, <2>2
    <3>3. QED BY <1>5, <2>1, <3>1, <3>2
  <2>4. Prolongs(t, s, Group(g))
    BY <2>1, <2>2, <2>3 DEF Prolongs
  <2>5. Written(t, g + 1)
    BY <2>2, <2>4, WrittenNext
  <2>6. QED BY <1>4, <1>6, <1>8, <2>2, <2>5 DEF longer, t
<1>9. QED BY <1>7, <1>8

-----------------------------------------------------------------------------
(* encode writes group after group.                                        *)

\* LayoutInv's part about encode.
Encoding == /\ in % 3 = 0
            /\ Written(result, in \div 3) /\ Len(result) = Start(in \div 3)

LEMMA InitLayout ==
    ASSUME Init
    PROVE  TypeOK /\ LayoutInv
<1>1. /\ blob \in Seq(Byte) /\ result = << >> /\ in = 0 /\ Len(blob) \in Nat
      /\ 0 % 3 = 0 /\ 0 \div 3 = 0 /\ << >> \in Seq(Byte) /\ Len(<< >>) = 0
  BY Base64Assumption, SMT DEF Init
<1>2. TypeOK
  BY <1>1, SMT DEF Init, TypeOK
<1>3. Written(<< >>, 0)
  <2>1. Start(0) = 0
    BY StartNat
  <2>2. (\A i \in 0..(0 - 1) : FALSE) /\ (\A i \in 1..0 : FALSE) /\ (\A p \in (0 + 1)..0 : FALSE)
    OBVIOUS
  <2>3. QED BY <1>1, <2>1, <2>2 DEF Written
<1>4. Encoding
  BY <1>1, <1>3, StartNat DEF Encoding
<1>5. QED BY <1>2, <1>4 DEF LayoutInv, Init, Encoding

\* The turn of the loop over the triplets.
LEMMA TripletWritten ==
    ASSUME TypeOK, LayoutInv, EncodeTriplet
    PROVE  TypeOK' /\ LayoutInv'
<1> DEFINE g == in \div 3
           longer == result \o Group(g)
<1>1. /\ blob \in Seq(Byte) /\ in \in 0..Len(blob) /\ Len(blob) \in Nat /\ in + 3 <= Len(blob)
      /\ in % 3 = 0 /\ Written(result, g) /\ Len(result) = Start(g)
  BY SMT DEF TypeOK, LayoutInv, EncodeTriplet
<1>2. g \in Nat /\ in = 3 * g /\ 3 * g + 3 <= Len(blob) /\ (in + 3) % 3 = 0 /\ (in + 3) \div 3 = g + 1
  BY <1>1, SMT
<1>3. g < Size
  BY <1>1, <1>2, SizeParts
<1>4. Group(g) = encode_triplet(blob[in + 1], blob[in + 2], blob[in + 3])
  BY <1>1, <1>2, SMT DEF Group
<1>5. result' = IF pretty_print /\ (g + 1) % 16 = 0 THEN Append(longer, Newline) ELSE longer
  BY <1>4 DEF EncodeTriplet
<1>6. /\ in' = in + 3 /\ pc' = pc /\ blob' = blob /\ pretty_print' = pretty_print
      /\ damage' = damage /\ text' = text /\ offset' = offset /\ destination' = destination
      /\ pc = "encode"
  BY DEF EncodeTriplet
<1> HIDE DEF g, longer
<1>7. Written(result', g + 1) /\ Len(result') = Start(g + 1)
  BY <1>1, <1>2, <1>3, <1>5, WrittenGroup DEF longer
<1>8. result' \in Seq(Byte)
  BY <1>7 DEF Written
<1>9. TypeOK'
  <2>1. in + 3 \in 0..Len(blob)
    BY <1>1
  <2>2. QED BY <1>6, <1>8, <2>1 DEF TypeOK
<1>10. Encoding'
  <2>1. Written(result, in \div 3)' /\ (Len(result) = Start(in \div 3))'
    BY <1>2, <1>6, <1>7 DEF Written, Start, Group, g
  <2>2. QED BY <1>2, <1>6, <2>1 DEF Encoding
<1>11. QED BY <1>6, <1>9, <1>10 DEF LayoutInv, Encoding

\* The end of encode.
LEMMA EncodeFinished ==
    ASSUME TypeOK, LayoutInv, FinishEncode
    PROVE  TypeOK' /\ LayoutInv'
<1> DEFINE g == in \div 3
           all == IF in = Len(blob) THEN result
                  ELSE result \o encode_rest(SubSeq(blob, in + 1, Len(blob)))
<1>1. /\ blob \in Seq(Byte) /\ in \in 0..Len(blob) /\ Len(blob) \in Nat /\ in + 3 > Len(blob)
      /\ in % 3 = 0 /\ Written(result, g) /\ Len(result) = Start(g)
  BY SMT DEF TypeOK, LayoutInv, FinishEncode
<1>2. g \in Nat /\ in = 3 * g
  BY <1>1, SMT
<1>3. /\ in' = Len(blob) /\ pc' = "encoded" /\ blob' = blob /\ pretty_print' = pretty_print
      /\ damage' = damage /\ text' = text /\ offset' = offset /\ destination' = destination
      /\ pc = "encode"
  BY DEF FinishEncode
<1>4. \/ (pretty_print => all = << >> \/ ends_line(all)) /\ result' = all
      \/ (pretty_print /\ ~ends_line(all)) /\ result' = Append(all, Newline)
  BY DEF FinishEncode
<1>5. Written(result', Size)
  <2>1. CASE in = Len(blob)
    <3>1. all = result /\ Size = g
      BY <1>1, <1>2, <2>1, SMT DEF Size
    <3> HIDE DEF g, all
    <3>2. QED BY <1>1, <1>2, <1>4, <3>1, WrittenNewline
  <2>2. CASE in # Len(blob)
    <3>1. Size = g + 1 /\ g < Size /\ g + 1 \in Nat
      BY <1>1, <1>2, <2>2, SMT DEF Size
    <3>2. all = result \o Group(g)
      BY <1>1, <1>2, <2>2, SMT DEF Group
    <3>3. Group(g)[4] # Newline
      <4>1. Group(g) = encode_rest(SubSeq(blob, 3 * g + 1, Len(blob)))
        BY <1>1, <1>2, <2>2, SMT DEF Group
      <4>2. 3 * g < Len(blob) /\ 3 * g + 3 > Len(blob)
        BY <1>1, <1>2, <2>2
      <4> HIDE DEF g, all
      <4> DEFINE rest == SubSeq(blob, 3 * g + 1, Len(blob))
      <4>3. rest \in Seq(Byte) /\ Len(rest) \in {1, 2}
        BY <1>1, <1>2, <4>2, RestOfBlob
      <4>4. Group(g) = encode_rest(rest)
        BY <4>1
      <4> HIDE DEF rest
      <4>5. Group(g)[4] = Pad
        BY <4>3, <4>4, RestParts, Zenon
      <4>6. QED BY <4>5 DEF Pad, Newline
    <3> HIDE DEF g, all
    <3>4. /\ all[Len(all)] = Group(g)[4] /\ all # << >>
          /\ ~(pretty_print /\ (g + 1) % 16 = 0) => Written(all, g + 1)
          /\ pretty_print /\ (g + 1) % 16 = 0 => Written(Append(all, Newline), g + 1)
      BY <1>1, <1>2, <3>1, <3>2, WrittenGroup
    <3>5. ~ends_line(all)
      BY <3>3, <3>4 DEF ends_line
    <3>6. CASE ~pretty_print
      BY <1>4, <3>1, <3>4, <3>6
    <3>7. CASE pretty_print
      <4>1. result' = Append(all, Newline)
        BY <1>4, <3>4, <3>5, <3>7
      <4>2. Written(Append(all, Newline), g + 1)
        BY <3>1, <3>4, WrittenNewline
      <4>3. QED BY <3>1, <4>1, <4>2
    <3>8. QED BY <3>6, <3>7
  <2>3. QED BY <2>1, <2>2
<1>6. result' \in Seq(Byte)
  BY <1>5 DEF Written
<1>7. TypeOK'
  <2>1. Len(blob) \in 0..Len(blob)
    BY <1>1
  <2>2. QED BY <1>3, <1>6, <2>1 DEF TypeOK
<1>8. Written(result, Size)'
  BY <1>3, <1>5 DEF Written, Start, Group, Size
<1>9. QED BY <1>3, <1>7, <1>8 DEF LayoutInv

-----------------------------------------------------------------------------
(* decode reads them group after group.                                    *)

\* Behind n characters s has these four.
Reads(s, n, quad4) ==
    n + 4 <= Len(s) /\ \A c \in 1..4 : s[n + c] = quad4[c]

\* Behind the groups that were read there is a newline, another group, or
\* nothing, and then no group is left.
LEMMA NextInText ==
    ASSUME blob \in Seq(Byte), Written(result, Size), NEW g \in 0..Size,
           NEW m \in Nat, Reached(g, m)
    PROVE  /\ m <= Len(result)
           /\ m = Len(result) => g = Size
           /\ m < Len(result) =>
                \/ result[m + 1] = Newline /\ Reached(g, m + 1)
                \/ g < Size /\ Reads(result, m, Group(g)) /\ Reached(g + 1, m + 4)
<1>1. Size \in Nat /\ g \in Nat
  BY SizeParts
<1>2. /\ Start(g) \in Nat /\ Start(Size) \in Nat /\ Start(g) <= Start(Size)
      /\ g < Size => Start(g) + 4 <= Start(Size) /\ g \in 0..(Size - 1)
      /\ Start(Size) <= Len(result) /\ Len(result) \in Nat
  <2> DEFINE k == Size
  <2>1. Start(k) <= Len(result) /\ Len(result) \in Nat
    BY DEF Written
  <2>2. k \in Nat /\ g \in 0..k
    BY <1>1
  <2> HIDE DEF k
  <2>3. /\ Start(g) \in Nat /\ Start(k) \in Nat /\ Start(g) <= Start(k)
        /\ g < k => Start(g) + 4 <= Start(k) /\ g \in 0..(k - 1)
    BY <2>2, StartBefore, Zenon
  <2>4. QED BY <2>1, <2>3 DEF k
<1>3. CASE m = Start(g) /\ g < Size
  <2>1. Reads(result, m, Group(g)) /\ m < Len(result)
    BY <1>2, <1>3, SMTT(30) DEF Reads, Written
  <2>2. Start(g + 1) \in {Start(g) + 4, Start(g) + 5} /\ (g + 1) - 1 = g /\ g + 1 > 0
    BY <1>1, StartNext
  <2>3. Reached(g + 1, m + 4)
    BY <1>2, <1>3, <2>2 DEF Reached
  <2>4. QED BY <1>2, <1>3, <2>1, <2>3
<1>4. CASE g > 0 /\ m = Start(g) - 1 /\ Start(g) = Start(g - 1) + 5
  <2>1. g \in 1..Size /\ m + 1 = Start(g) /\ m < Len(result)
    BY <1>1, <1>2, <1>4
  <2>2. result[m + 1] = Newline
    BY <1>4, <2>1 DEF Written
  <2>3. Reached(g, m + 1)
    BY <2>1 DEF Reached
  <2>4. QED BY <1>2, <2>1, <2>2, <2>3
<1>5. CASE g = Size /\ m \in Start(g)..Len(result)
  <2>1. ASSUME m < Len(result)
        PROVE  m + 1 \in (Start(Size) + 1)..Len(result) /\ m + 1 \in Start(g)..Len(result)
    BY <1>2, <1>5, <2>1
  <2>2. m < Len(result) => result[m + 1] = Newline /\ Reached(g, m + 1)
    BY <1>5, <2>1 DEF Written, Reached
  <2>3. QED BY <1>2, <1>5, <2>2
<1>6. m = Start(g) => g < Size \/ (g = Size /\ m \in Start(g)..Len(result))
  BY <1>1, <1>2
<1>7. QED BY <1>3, <1>4, <1>5, <1>6 DEF Reached

\* The first character of a group is no white space, as a newline is.
LEMMA FirstOfGroup ==
    ASSUME blob \in Seq(Byte), NEW g \in Nat, g < Size
    PROVE  ~isspace(Group(g)[1]) /\ isspace(Newline) /\ Newline # Group(g)[1]
<1> DEFINE c == Group(g)[1]
<1>1. is_code(c)
  BY GroupParts, Zenon
<1>2. c \in Byte
  BY GroupParts, SMT
<1> HIDE DEF c
<1>3. ~isspace(c) /\ isspace(Newline) /\ Newline # c
  BY <1>1, <1>2, SMT DEF is_code, isspace, Newline, Byte
<1>4. QED BY <1>3 DEF c

\* The four characters decode looks at.
LEMMA QuadParts ==
    ASSUME text \in Seq(Byte), offset \in Nat, offset + 4 <= Len(text)
    PROVE  quad \in Seq(Byte) /\ Len(quad) = 4 /\ \A c \in 1..4 : quad[c] = text[offset + c]
<1> DEFINE m == offset + 1
           n == offset + 4
<1>1. m \in Nat \ {0} /\ n \in Nat /\ m <= n + 1 /\ n <= Len(text) /\ n - m + 1 = 4
      /\ \A c \in 1..4 : m + c - 1 = offset + c
  OBVIOUS
<1> HIDE DEF m, n
<1>2. /\ SubSeq(text, m, n) \in Seq(Byte) /\ Len(SubSeq(text, m, n)) = 4
      /\ \A c \in 1..4 : SubSeq(text, m, n)[c] = text[m + c - 1]
  BY <1>1, PieceParts
<1>3. QED BY <1>1, <1>2 DEF m, n, quad

\* A group that decode finds in its text is quad, and gives the next part.
LEMMA QuadOfText ==
    ASSUME blob \in Seq(Byte), text \in Seq(Byte), offset \in Nat,
           NEW g \in Nat, g < Size, Reads(text, offset, Group(g))
    PROVE  quad = Group(g) /\ quad_follows /\ Part(g) \o decode_quad(quad) = Part(g + 1)
<1>1. Len(text) \in Nat /\ offset + 4 <= Len(text) /\ \A c \in 1..4 : text[offset + c] = Group(g)[c]
  BY DEF Reads
<1>2. quad \in Seq(Byte) /\ Len(quad) = 4 /\ \A c \in 1..4 : quad[c] = text[offset + c]
  BY <1>1, QuadParts
<1>3. Group(g) \in Seq(Byte) /\ Len(Group(g)) = 4 /\ is_quad(Group(g))
  BY GroupParts
<1>4. quad = Group(g)
  <2> HIDE DEF quad
  <2>1. \A c \in 1..4 : quad[c] = Group(g)[c]
    BY <1>1, <1>2
  <2>2. QED BY <1>3, <1>2, <2>1, SameBytes
<1>5. quad_follows
  BY <1>1, <1>3, <1>4 DEF quad_follows
<1>6. QED BY <1>4, <1>5, PartNext

\* From where decode is to the e-th, the characters of the text are those that
\* encode wrote, d places before.
Agrees(d, e) ==
    /\ d \in {0, 1} /\ d <= offset /\ e \in Nat /\ e <= Len(text) /\ e - d <= Len(result)
    /\ \A p \in (offset + 1)..e : text[p] = result[p - d]

\* What is common to decode's inner states.
Inside(g) ==
    /\ blob \in Seq(Byte) /\ Written(result, Size) /\ g \in 0..Size
    /\ offset \in Nat /\ text \in Seq(Byte) /\ destination = Part(g)

\* What decode finds next where nothing was damaged.
LEMMA NextInAgreement ==
    ASSUME NEW g, Inside(g), NEW d, NEW e, Agrees(d, e), Reached(g, offset - d), offset < e
    PROVE  /\ isspace(text[offset + 1]) => Reached(g, (offset + 1) - d)
           /\ ~isspace(text[offset + 1]) =>
                /\ g \in 0..(Size - 1) /\ g < Size /\ g + 1 \in 0..Size
                /\ Reads(result, offset - d, Group(g)) /\ Reached(g + 1, (offset + 4) - d)
                /\ offset + 4 <= e => Reads(text, offset, Group(g))
<1> DEFINE m == offset - d
<1>1. /\ blob \in Seq(Byte) /\ Written(result, Size) /\ g \in 0..Size /\ Size \in Nat
      /\ offset \in Nat /\ text \in Seq(Byte) /\ d \in {0, 1} /\ d <= offset
      /\ e \in Nat /\ e <= Len(text) /\ e - d <= Len(result) /\ result \in Seq(Byte)
  BY SizeParts DEF Inside, Agrees, Written
<1>2. /\ m \in Nat /\ m + 1 = (offset + 1) - d /\ m + 4 = (offset + 4) - d
      /\ m < Len(result) /\ Len(text) \in Nat
  BY <1>1
<1>3. text[offset + 1] = result[m + 1]
  <2>1. offset + 1 \in (offset + 1)..e
    BY <1>1
  <2>2. QED BY <1>2, <2>1, SMTT(30) DEF Agrees
<1>4. Reached(g, m)
  OBVIOUS
<1> HIDE DEF m
<1>5. \/ result[m + 1] = Newline /\ Reached(g, m + 1)
      \/ g < Size /\ Reads(result, m, Group(g)) /\ Reached(g + 1, m + 4)
  BY <1>1, <1>2, <1>4, NextInText
<1>6. CASE result[m + 1] = Newline /\ Reached(g, m + 1)
  <2>1. isspace(Newline)
    BY DEF isspace, Newline
  <2>2. QED BY <1>2, <1>3, <1>6, <2>1
<1>7. CASE g < Size /\ Reads(result, m, Group(g)) /\ Reached(g + 1, m + 4)
  <2>1. result[m + 1] = Group(g)[1]
    BY <1>7 DEF Reads
  <2>2. g \in Nat /\ g \in 0..(Size - 1) /\ g + 1 \in 0..Size
    BY <1>1, <1>7
  <2>3. ~isspace(text[offset + 1])
    BY <1>1, <1>3, <1>7, <2>1, <2>2, FirstOfGroup
  <2>4. ASSUME offset + 4 <= e
        PROVE  Reads(text, offset, Group(g))
    <3>1. offset + 4 <= Len(text)
      BY <1>1, <1>2, <2>4
    <3>2. ASSUME NEW c \in 1..4
          PROVE  text[offset + c] = Group(g)[c]
      <4>1. offset + c \in (offset + 1)..e /\ (offset + c) - d = m + c
        BY <1>1, <2>4 DEF m
      <4>2. text[offset + c] = result[m + c]
        BY <4>1 DEF Agrees
      <4>3. result[m + c] = Group(g)[c]
        BY <1>7 DEF Reads
      <4>4. QED BY <4>2, <4>3
    <3>3. QED BY <3>1, <3>2 DEF Reads
  <2>5. QED BY <1>2, <1>7, <2>2, <2>3, <2>4 DEF m
<1>8. QED BY <1>5, <1>6, <1>7

\* What decode does there: it skips a newline or reads a group, and does not throw.
LEMMA StepInAgreement ==
    ASSUME NEW g, Inside(g), NEW d, NEW e, Agrees(d, e), Reached(g, offset - d),
           SkipSpace \/ DecodeQuad \/ Throw
    PROVE  /\ offset < e /\ SkipSpace =>
                offset' = offset + 1 /\ destination' = Part(g) /\ Reached(g, offset' - d)
           /\ offset + 4 <= e => ~Throw
           /\ offset + 4 <= e /\ DecodeQuad =>
                /\ offset' = offset + 4 /\ g + 1 \in 0..Size /\ destination' = Part(g + 1)
                /\ Reached(g + 1, offset' - d)
<1>1. /\ blob \in Seq(Byte) /\ text \in Seq(Byte) /\ offset \in Nat /\ destination = Part(g)
      /\ g \in 0..Size /\ Size \in Nat /\ e \in Nat
  BY SizeParts DEF Inside, Agrees
<1>2. CASE SkipSpace /\ offset < e
  <2>1. isspace(text[offset + 1]) /\ offset' = offset + 1 /\ destination' = destination
    BY <1>2 DEF SkipSpace
  <2>2. Reached(g, (offset + 1) - d)
    BY <1>2, <2>1, NextInAgreement
  <2>3. ~Throw /\ ~DecodeQuad
    BY <2>1 DEF Throw, DecodeQuad
  <2>4. QED BY <1>1, <2>1, <2>2, <2>3
<1>3. CASE ~isspace(text[offset + 1]) /\ offset + 4 <= e
  <2>1. offset < e /\ g \in Nat
    BY <1>1, <1>3
  <2>2. /\ g < Size /\ g + 1 \in 0..Size /\ Reads(text, offset, Group(g))
        /\ Reached(g + 1, (offset + 4) - d)
    BY <1>3, <2>1, NextInAgreement
  <2>3. quad_follows /\ Part(g) \o decode_quad(quad) = Part(g + 1)
    BY <1>1, <2>1, <2>2, QuadOfText
  <2>4. ~Throw
    BY <2>3 DEF Throw
  <2>5. DecodeQuad => offset' = offset + 4 /\ destination' = Part(g + 1)
    BY <1>1, <2>3 DEF DecodeQuad
  <2>6. ~SkipSpace
    BY <1>3 DEF SkipSpace
  <2>7. QED BY <2>2, <2>4, <2>5, <2>6
<1>4. (DecodeQuad => ~isspace(text[offset + 1]) /\ ~SkipSpace) /\ (Throw => ~isspace(text[offset + 1]) /\ ~SkipSpace)
  BY DEF DecodeQuad, Throw, SkipSpace
<1>5. QED BY <1>2, <1>3, <1>4

\* decode reads a text that was not touched to its end.
LEMMA UntouchedStep ==
    ASSUME NEW g, Inside(g), Untouched(g), SkipSpace \/ DecodeQuad \/ Throw
    PROVE  /\ ~Throw
           /\ \E h \in 0..Size : destination' = Part(h) /\ Reached(h, offset')
<1> DEFINE e == Len(text)
<1>1. text = result /\ e \in Nat /\ offset \in Nat /\ offset < e /\ g \in 0..Size /\ Size \in Nat
  <2>1. blob \in Seq(Byte) /\ text \in Seq(Byte) /\ text = result /\ offset \in Nat /\ g \in 0..Size
    BY DEF Inside, Untouched
  <2>2. offset < e
    BY DEF SkipSpace, DecodeQuad, Throw
  <2>3. QED BY <2>1, <2>2, SizeParts
<1>2. \A m \in Nat : m - 0 = m
  OBVIOUS
<1>3. Agrees(0, e) /\ Reached(g, offset - 0)
  <2>1. \A p \in (offset + 1)..e : p - 0 = p
    BY <1>1
  <2>2. QED BY <1>1, <1>2, <2>1 DEF Agrees, Untouched
<1> HIDE DEF e
<1>4. CASE isspace(text[offset + 1])
  <2>1. SkipSpace /\ ~Throw
    BY <1>4 DEF DecodeQuad, Throw
  <2>2. offset' = offset + 1 /\ destination' = Part(g) /\ Reached(g, offset' - 0)
    BY <1>1, <1>3, <2>1, StepInAgreement
  <2>3. offset' - 0 = offset'
    BY <1>1, <2>2
  <2>4. QED BY <1>1, <2>1, <2>2, <2>3
<1>5. CASE ~isspace(text[offset + 1])
  <2>1. Reads(result, offset - 0, Group(g))
    BY <1>1, <1>3, <1>5, NextInAgreement
  <2>2. offset + 4 <= e
    BY <1>1, <1>2, <2>1 DEF Reads, e
  <2>3. ~Throw
    BY <1>3, <2>2, StepInAgreement
  <2>4. DecodeQuad
    BY <1>5, <2>3 DEF SkipSpace
  <2>5. offset' = offset + 4 /\ g + 1 \in 0..Size /\ destination' = Part(g + 1)
        /\ Reached(g + 1, offset' - 0)
    BY <1>3, <2>2, <2>4, StepInAgreement
  <2>6. offset' - 0 = offset'
    BY <1>1, <2>5
  <2>7. QED BY <2>3, <2>5, <2>6
<1>6. QED BY <1>4, <1>5

\* Of one that was cut short it reads the groups that are whole.
LEMMA CutShortStep ==
    ASSUME NEW g, Inside(g), CutShort(g), SkipSpace \/ DecodeQuad
    PROVE  \E h \in 0..Size : destination' = Part(h) /\ Reached(h, offset')
<1> DEFINE e == Len(text)
<1>1. PICK n \in 0..(Len(result) - 1) : text = SubSeq(result, 1, n)
  BY DEF CutShort
<1>2. /\ result \in Seq(Byte) /\ Len(result) \in Nat /\ n \in Nat /\ n < Len(result)
      /\ offset \in Nat /\ g \in 0..Size /\ Size \in Nat
  <2>1. blob \in Seq(Byte) /\ result \in Seq(Byte) /\ offset \in Nat /\ g \in 0..Size
    BY DEF Inside, Written
  <2>2. Size \in Nat
    BY <2>1, SizeParts
  <2>3. Len(result) \in Nat
    BY <2>1
  <2>4. QED BY <2>1, <2>2, <2>3
<1>3. e = n /\ \A p \in 1..n : text[p] = result[p]
  <2>1. n <= Len(result) /\ 1 <= n + 1 /\ n - 1 + 1 = n /\ 1 \in Nat \ {0}
        /\ \A p \in 1..n : 1 + p - 1 = p
    BY <1>2
  <2>2. QED BY <1>1, <1>2, <2>1, PieceParts
<1>4. offset < e
  BY DEF SkipSpace, DecodeQuad
<1>5. Agrees(0, e) /\ Reached(g, offset - 0)
  <2>1. offset - 0 = offset /\ 0 <= offset /\ e - 0 <= Len(result) /\ e <= Len(text) /\ e \in Nat
    BY <1>2, <1>3
  <2>2. \A p \in (offset + 1)..e : p \in 1..n /\ p - 0 = p
    BY <1>2, <1>3
  <2>3. QED BY <1>3, <2>1, <2>2 DEF Agrees, CutShort
<1> HIDE DEF e
<1>6. CASE SkipSpace
  <2>1. offset' = offset + 1 /\ destination' = Part(g) /\ Reached(g, offset' - 0)
    BY <1>4, <1>5, <1>6, StepInAgreement
  <2>2. offset' - 0 = offset'
    BY <1>2, <2>1
  <2>3. QED BY <1>2, <2>1, <2>2
<1>7. CASE DecodeQuad
  <2>1. offset + 4 <= e
    BY <1>7 DEF DecodeQuad, quad_follows, e
  <2>2. offset' = offset + 4 /\ g + 1 \in 0..Size /\ destination' = Part(g + 1)
        /\ Reached(g + 1, offset' - 0)
    BY <1>5, <1>7, <2>1, StepInAgreement
  <2>3. offset' - 0 = offset'
    BY <1>2, <2>2
  <2>4. QED BY <2>2, <2>3
<1>8. QED BY <1>6, <1>7

\* It never reads the character that was spoilt.
LEMMA SpoiltStep ==
    ASSUME NEW g, Inside(g), NEW n \in Nat, NEW c \in Strangers, SpoiltAt(n, c),
           Reached(g, offset), offset < n, SkipSpace \/ DecodeQuad
    PROVE  /\ offset' < n
           /\ \E h \in 0..Size : destination' = Part(h) /\ Reached(h, offset')
<1> DEFINE e == n - 1
<1>1. /\ result \in Seq(Byte) /\ Len(result) \in Nat /\ n \in 1..Len(result) /\ is_code(result[n])
      /\ text = [result EXCEPT ![n] = c] /\ offset \in Nat /\ g \in 0..Size /\ Size \in Nat
      /\ blob \in Seq(Byte) /\ text \in Seq(Byte)
  BY SizeParts DEF Inside, Written, SpoiltAt
<1>2. c \in Byte /\ ~is_code(c) /\ ~isspace(c) /\ c # Pad
  BY Base64Assumption
<1>3. /\ Len(text) = Len(result) /\ text[n] = c
      /\ \A p \in 1..Len(result) : p # n => text[p] = result[p]
  BY <1>1, <1>2
<1>4. Agrees(0, e) /\ Reached(g, offset - 0) /\ e \in Nat
  <2>1. offset - 0 = offset /\ 0 <= offset /\ e - 0 <= Len(result) /\ e <= Len(text) /\ e \in Nat
    BY <1>1, <1>3
  <2>2. \A p \in (offset + 1)..e : p \in 1..Len(result) /\ p # n /\ p - 0 = p
    BY <1>1, <1>3
  <2>3. QED BY <1>3, <2>1, <2>2 DEF Agrees
<1>5. offset < e \/ offset + 1 = n
  BY <1>1
<1>6. offset + 1 = n => ~isspace(text[offset + 1]) /\ ~is_code(text[offset + 1])
  BY <1>2, <1>3
<1>7. CASE SkipSpace
  <2>1. offset < e
    BY <1>5, <1>6, <1>7 DEF SkipSpace
  <2> HIDE DEF e
  <2>2. offset' = offset + 1 /\ destination' = Part(g) /\ Reached(g, offset' - 0)
    BY <1>4, <1>7, <2>1, StepInAgreement
  <2>3. offset' - 0 = offset' /\ offset' < n
    BY <1>1, <2>1, <2>2 DEF e
  <2>4. QED BY <1>1, <2>2, <2>3
<1>8. CASE DecodeQuad
  <2>1. offset + 4 <= Len(text) /\ is_quad(quad) /\ ~isspace(text[offset + 1])
    BY <1>8 DEF DecodeQuad, quad_follows
  <2>2. quad \in Seq(Byte) /\ Len(quad) = 4 /\ \A i \in 1..4 : quad[i] = text[offset + i]
    BY <1>1, <2>1, QuadParts
  <2>3. offset < e
    <3>1. quad[1] = text[offset + 1]
      BY <2>2
    <3>2. is_code(text[offset + 1])
      BY <2>1, <3>1, Zenon DEF is_quad
    <3>3. QED BY <1>5, <1>6, <3>2
  <2>4. Reads(result, offset, Group(g)) /\ g \in Nat /\ g < Size
    <3>1. offset - 0 = offset /\ g \in Nat
      BY <1>1
    <3> HIDE DEF e
    <3>2. QED BY <1>4, <2>1, <2>3, <3>1, NextInAgreement
  <2>5. offset + 4 <= e
    <3> SUFFICES ASSUME n <= offset + 4
                 PROVE  FALSE
      BY <1>1
    <3> DEFINE i == n - offset
               s == Group(g)
    <3>1. i \in 1..4 /\ offset + i = n
      BY <1>1
    <3>2. quad[i] = c /\ s[i] = result[n]
      BY <1>3, <2>2, <2>4, <3>1 DEF Reads
    <3>3. \A j \in 1..4 : j # i => quad[j] = s[j]
      <4>1. \A j \in 1..4 : j # i => offset + j \in 1..Len(result) /\ offset + j # n
        BY <1>1, <1>3, <2>1, <3>1
      <4>2. QED BY <1>3, <2>2, <2>4, <4>1 DEF Reads
    <3>4. /\ is_code(s[1]) /\ is_code(s[2])
          /\ (s[3] = Pad /\ s[4] = Pad) \/ (is_code(s[3]) /\ (s[4] = Pad \/ is_code(s[4])))
      BY <1>1, <2>4, GroupParts, Zenon
    <3>5. ~is_code(Pad)
      BY SMT DEF is_code, Pad
    <3>6. is_code(s[i])
      BY <1>1, <3>2
    <3> HIDE DEF s, i, e
    <3>7. i \in {1, 2, 3, 4} /\ 1 \in 1..4 /\ 2 \in 1..4 /\ 3 \in 1..4 /\ 4 \in 1..4 /\ 3 # 4
      BY <3>1
    <3>8. /\ i = 1 => ~is_code(quad[1])
          /\ i = 2 => ~is_code(quad[2])
          /\ i = 3 => ~is_code(quad[3]) /\ quad[3] # Pad
          /\ i = 4 => ~is_code(quad[4]) /\ quad[4] # Pad /\ quad[3] = s[3]
      BY <1>2, <3>2, <3>3, <3>7
    <3>9. i = 4 => is_code(s[3])
      BY <3>4, <3>5, <3>6, Zenon
    <3>10. QED BY <2>1, <3>5, <3>7, <3>8, <3>9, Zenon DEF is_quad
  <2> HIDE DEF e
  <2>6. offset' = offset + 4 /\ g + 1 \in 0..Size /\ destination' = Part(g + 1)
        /\ Reached(g + 1, offset' - 0)
    BY <1>4, <1>8, <2>5, StepInAgreement
  <2>7. offset' - 0 = offset' /\ offset' < n
    BY <1>1, <2>5, <2>6 DEF e
  <2>8. QED BY <2>6, <2>7
<1>9. QED BY <1>7, <1>8

\* A text with white space put in.
LEMMA SpaceText ==
    ASSUME result \in Seq(Byte), NEW n \in Nat, NEW c \in Byte, SpaceAt(n, c)
    PROVE  /\ n <= Len(result) /\ Len(text) = Len(result) + 1 /\ text[n + 1] = c
           /\ \A p \in 1..n : text[p] = result[p]
           /\ \A p \in (n + 2)..Len(text) : text[p] = result[p - 1]
<1> DEFINE l == Len(result)
           u == SubSeq(result, 1, n)
           w == <<c>>
           v == SubSeq(result, n + 1, l)
           m == n + 1
<1>1. l \in Nat /\ n <= l /\ 1 \in Nat \ {0} /\ 1 <= n + 1 /\ n - 1 + 1 = n
      /\ \A p \in 1..n : 1 + p - 1 = p
  BY DEF SpaceAt
<1>2. m \in Nat \ {0} /\ m <= l + 1 /\ l <= Len(result)
  BY <1>1
<1>3. u \in Seq(Byte) /\ Len(u) = n /\ \A p \in 1..n : u[p] = result[p]
  BY <1>1, PieceParts
<1>4. /\ v \in Seq(Byte) /\ Len(v) = l - m + 1
      /\ \A p \in 1..(l - m + 1) : v[p] = result[m + p - 1]
  <2> HIDE DEF m, l
  <2>1. /\ SubSeq(result, m, l) \in Seq(Byte) /\ Len(SubSeq(result, m, l)) = l - m + 1
        /\ \A p \in 1..(l - m + 1) : SubSeq(result, m, l)[p] = result[m + p - 1]
    BY <1>1, <1>2, PieceParts
  <2>2. QED BY <2>1 DEF m
<1>5. w \in Seq(Byte) /\ Len(w) = 1 /\ w[1] = c
  OBVIOUS
<1>6. text = (u \o w) \o v
  BY DEF SpaceAt
<1> HIDE DEF u, v, w
<1>7. /\ u \o w \in Seq(Byte) /\ Len(u \o w) = n + 1
      /\ \A p \in 1..(n + 1) : (u \o w)[p] = IF p <= n THEN u[p] ELSE w[p - n]
  <2>1. /\ u \o w \in Seq(Byte) /\ Len(u \o w) = Len(u) + Len(w)
        /\ \A p \in 1..(Len(u) + Len(w)) : (u \o w)[p] = IF p <= Len(u) THEN u[p] ELSE w[p - Len(u)]
    BY <1>3, <1>5, ConcatProperties
  <2>2. QED BY <1>3, <1>5, <2>1
<1> DEFINE x == u \o w
<1>8. x \in Seq(Byte) /\ Len(x) = n + 1 /\ text = x \o v
  BY <1>6, <1>7
<1>9. x[n + 1] = c /\ \A p \in 1..n : x[p] = result[p]
  <2>1. n + 1 \in 1..(n + 1) /\ ~(n + 1 <= n) /\ (n + 1) - n = 1
    OBVIOUS
  <2>2. \A p \in 1..n : p \in 1..(n + 1) /\ p <= n
    OBVIOUS
  <2>3. QED BY <1>3, <1>5, <1>7, <2>1, <2>2
<1> HIDE DEF x
<1>10. /\ Len(text) = Len(x) + Len(v)
       /\ \A p \in 1..(Len(x) + Len(v)) : text[p] = IF p <= Len(x) THEN x[p] ELSE v[p - Len(x)]
  BY <1>4, <1>8, ConcatProperties
<1>11. Len(text) = l + 1
  BY <1>1, <1>4, <1>8, <1>10
<1>12. text[n + 1] = c /\ \A p \in 1..n : text[p] = result[p]
  <2>1. n + 1 \in 1..Len(text) /\ n + 1 <= Len(x)
    BY <1>1, <1>8, <1>11
  <2>2. \A p \in 1..n : p \in 1..Len(text) /\ p <= Len(x)
    BY <1>1, <1>8, <1>11
  <2>3. QED BY <1>9, <1>10, <2>1, <2>2
<1>13. ASSUME NEW p \in (n + 2)..Len(text)
       PROVE  text[p] = result[p - 1]
  <2>1. /\ p \in 1..(Len(x) + Len(v)) /\ ~(p <= Len(x)) /\ p - Len(x) \in 1..(l - m + 1)
        /\ m + (p - Len(x)) - 1 = p - 1
    BY <1>1, <1>4, <1>8, <1>10, <1>11
  <2>2. QED BY <1>4, <1>10, <2>1
<1>14. QED BY <1>1, <1>11, <1>12, <1>13

\* Of a quad with padding in the third place, the fourth does not matter.
LEMMA PaddedQuad ==
    ASSUME NEW s, NEW t, s[1] = t[1], s[2] = t[2], s[3] = Pad, t[3] = Pad
    PROVE  decode_quad(s) = decode_quad(t)
  BY SMT DEF decode_quad

\* White space is neither a code nor padding.
LEMMA SpaceByte ==
    ASSUME NEW c \in Spaces
    PROVE  isspace(c) /\ ~is_code(c) /\ c # Pad /\ c \in Byte
<1>1. isspace(c)
  BY Base64Assumption
<1>2. c \in 9..13 \/ c = 32
  BY <1>1 DEF isspace
<1>3. c \in Byte
  BY <1>2, SMT DEF Byte
<1>4. QED BY <1>1, <1>2, <1>3, SMT DEF is_code, Pad, Byte

\* A text stays one of bytes when a byte is put in.
LEMMA InsertedIsText ==
    ASSUME NEW s \in Seq(Byte), NEW n \in 0..Len(s), NEW c \in Byte
    PROVE  SubSeq(s, 1, n) \o <<c>> \o SubSeq(s, n + 1, Len(s)) \in Seq(Byte)
<1> DEFINE l == Len(s)
           m == n + 1
<1>1. /\ l \in Nat /\ n \in Nat /\ n <= l /\ 1 \in Nat \ {0} /\ 1 <= n + 1
      /\ m \in Nat \ {0} /\ m <= l + 1 /\ l <= Len(s)
  OBVIOUS
<1>2. SubSeq(s, 1, n) \in Seq(Byte)
  BY <1>1, PieceParts
<1> HIDE DEF l, m
<1>3. SubSeq(s, m, l) \in Seq(Byte)
  BY <1>1, PieceParts
<1>4. <<c>> \in Seq(Byte)
  OBVIOUS
<1>5. (SubSeq(s, 1, n) \o <<c>>) \o SubSeq(s, m, l) \in Seq(Byte)
  <2> DEFINE u == SubSeq(s, 1, n)
             v == SubSeq(s, m, l)
             w == <<c>>
  <2> HIDE DEF u, v, w
  <2>1. u \in Seq(Byte) /\ v \in Seq(Byte) /\ w \in Seq(Byte)
    BY <1>2, <1>3, <1>4 DEF u, v, w
  <2>2. (u \o w) \o v \in Seq(Byte)
    BY <2>1, ConcatProperties
  <2>3. QED BY <2>2 DEF u, v, w
<1>6. QED BY <1>5 DEF l, m

\* What a part of the blob is.
LEMMA PartIsBytes ==
    ASSUME blob \in Seq(Byte), NEW g \in 0..Size
    PROVE  Part(g) \in Seq(Byte) /\ Len(Part(g)) <= Len(blob) /\ Part(g) = SubSeq(blob, 1, Len(Part(g)))
<1> DEFINE n == IF 3 * g <= Len(blob) THEN 3 * g ELSE Len(blob)
<1>1. Len(blob) \in Nat /\ Size \in Nat
  BY SizeParts
<1>2. n \in Nat /\ n <= Len(blob) /\ 1 <= n + 1 /\ n - 1 + 1 = n /\ 1 \in Nat \ {0}
  BY <1>1
<1>3. Part(g) = SubSeq(blob, 1, n)
  BY DEF Part
<1> HIDE DEF n
<1>4. Part(g) \in Seq(Byte) /\ Len(Part(g)) = n
  BY <1>2, <1>3, PieceParts
<1>5. QED BY <1>2, <1>3, <1>4

LEMMA LastPart ==
    ASSUME blob \in Seq(Byte)
    PROVE  Size \in 0..Size /\ Part(Size) = blob
<1>1. Len(blob) \in Nat /\ Size \in Nat /\ 3 * Size >= Len(blob)
  BY SizeParts
<1>2. Part(Size) = SubSeq(blob, 1, Len(blob))
  BY <1>1, SMT DEF Part
<1>3. QED BY <1>1, <1>2, SMT

\* Where decode is does not change unless it reads.
LEMMA SameDecoding ==
    ASSUME UNCHANGED <<blob, pretty_print, result, damage, text, offset, destination>>
    PROVE  Decoding' <=> Decoding
<1>1. /\ blob' = blob /\ pretty_print' = pretty_print /\ result' = result /\ damage' = damage
      /\ text' = text /\ offset' = offset /\ destination' = destination
  OBVIOUS
<1>2. Size' = Size /\ \A h : Part(h)' = Part(h)
  BY <1>1 DEF Size, Part
<1>3. \A h, m : /\ Reached(h, offset)' <=> Reached(h, offset)
                /\ Reached(h, IF offset <= m THEN offset ELSE offset - 1)'
                     <=> Reached(h, IF offset <= m THEN offset ELSE offset - 1)
  BY <1>1 DEF Reached, Start, Size
<1>4. \A m, c : (SpaceAt(m, c)' <=> SpaceAt(m, c)) /\ (SpoiltAt(m, c)' <=> SpoiltAt(m, c))
  BY <1>1 DEF SpaceAt, SpoiltAt
<1>5. \A h : (Untouched(h)' <=> Untouched(h)) /\ (CutShort(h)' <=> CutShort(h))
  BY <1>1, <1>3 DEF Untouched, CutShort
<1>6. \A h : Spaced(h)' <=> Spaced(h)
  BY <1>3, <1>4 DEF Spaced
<1>7. \A h : Spoilt(h)' <=> Spoilt(h)
  BY <1>1, <1>3, <1>4 DEF Spoilt
<1>8. \A m : Astray(m)' <=> Astray(m)
  BY <1>1 DEF Astray
<1>9. QED BY <1>1, <1>2, <1>4, <1>5, <1>6, <1>7, <1>8 DEF Decoding

\* White space that was put in is skipped between groups; within a group it makes
\* decode throw, or it stands for the second of two "=", and decode throws next.
LEMMA SpacedStep ==
    ASSUME NEW g, Inside(g), NEW n \in Nat, NEW c \in Spaces, SpaceAt(n, c),
           Reached(g, IF offset <= n THEN offset ELSE offset - 1), SkipSpace \/ DecodeQuad
    PROVE  /\ offset' \in Nat
           /\ \E h \in 0..Size :
                /\ destination' = Part(h)
                /\ \/ Reached(h, IF offset' <= n THEN offset' ELSE offset' - 1)
                   \/ offset' = n + 1 /\ offset' < Len(text) /\ text[offset' + 1] = Pad
<1> DEFINE e == Len(text)
<1>1. /\ blob \in Seq(Byte) /\ text \in Seq(Byte) /\ result \in Seq(Byte) /\ Len(result) \in Nat
      /\ offset \in Nat /\ g \in 0..Size /\ Size \in Nat
  <2>1. /\ blob \in Seq(Byte) /\ text \in Seq(Byte) /\ result \in Seq(Byte)
        /\ offset \in Nat /\ g \in 0..Size
    BY DEF Inside, Written
  <2>2. Size \in Nat
    BY <2>1, SizeParts
  <2>3. Len(result) \in Nat
    BY <2>1
  <2>4. QED BY <2>1, <2>2, <2>3
<1>2. isspace(c) /\ ~is_code(c) /\ c # Pad /\ c \in Byte
  BY SpaceByte
<1>3. /\ n <= Len(result) /\ e = Len(result) + 1 /\ text[n + 1] = c
      /\ \A p \in 1..n : text[p] = result[p]
      /\ \A p \in (n + 2)..e : text[p] = result[p - 1]
  BY <1>1, <1>2, SpaceText
<1>4. offset < e
  BY DEF SkipSpace, DecodeQuad
<1>5. CASE offset > n
  <2>1. Agrees(1, e) /\ Reached(g, offset - 1)
    <3>1. 1 <= offset /\ e \in Nat /\ e <= Len(text) /\ e - 1 <= Len(result) /\ ~(offset <= n)
      BY <1>1, <1>3, <1>5
    <3>2. \A p \in (offset + 1)..e : p \in (n + 2)..e
      BY <1>1, <1>5
    <3>3. QED BY <1>3, <3>1, <3>2 DEF Agrees
  <2>2. CASE SkipSpace
    <3> HIDE DEF e
    <3>1. offset' = offset + 1 /\ destination' = Part(g) /\ Reached(g, offset' - 1)
      BY <1>4, <2>1, <2>2, StepInAgreement
    <3>2. offset' \in Nat /\ ~(offset' <= n)
      BY <1>1, <1>5, <3>1
    <3>3. QED BY <1>1, <3>1, <3>2
  <2>3. CASE DecodeQuad
    <3>1. offset + 4 <= e
      BY <2>3 DEF DecodeQuad, quad_follows
    <3> HIDE DEF e
    <3>2. offset' = offset + 4 /\ g + 1 \in 0..Size /\ destination' = Part(g + 1)
          /\ Reached(g + 1, offset' - 1)
      BY <2>1, <2>3, <3>1, StepInAgreement
    <3>3. offset' \in Nat /\ ~(offset' <= n)
      BY <1>1, <1>5, <3>2
    <3>4. QED BY <3>2, <3>3
  <2>4. QED BY <2>2, <2>3
<1>6. CASE offset = n
  <2>1. isspace(text[offset + 1])
    BY <1>2, <1>3, <1>6
  <2>2. offset' = offset + 1 /\ destination' = destination
    BY <2>1 DEF SkipSpace, DecodeQuad
  <2>3. destination' = Part(g) /\ ~(offset' <= n) /\ offset' - 1 = offset /\ offset <= n /\ offset' \in Nat
    BY <1>1, <1>6, <2>2 DEF Inside
  <2>4. Reached(g, offset)
    BY <2>3
  <2>5. QED BY <1>1, <2>3, <2>4
<1>7. CASE offset < n
  <2>1. Agrees(0, n) /\ Reached(g, offset - 0) /\ Reached(g, offset)
    <3>1. offset - 0 = offset /\ 0 <= offset /\ n - 0 <= Len(result) /\ n <= Len(text) /\ offset <= n
      BY <1>1, <1>3, <1>7
    <3>2. \A p \in (offset + 1)..n : p \in 1..n /\ p - 0 = p
      BY <1>1
    <3>3. QED BY <1>3, <3>1, <3>2 DEF Agrees
  <2>2. CASE SkipSpace
    <3>1. offset' = offset + 1 /\ destination' = Part(g) /\ Reached(g, offset' - 0)
      BY <1>7, <2>1, <2>2, StepInAgreement
    <3>2. offset' - 0 = offset' /\ offset' <= n /\ offset' \in Nat
      BY <1>1, <1>7, <3>1
    <3>3. QED BY <1>1, <3>1, <3>2
  <2>3. CASE DecodeQuad /\ offset + 4 <= n
    <3>1. offset' = offset + 4 /\ g + 1 \in 0..Size /\ destination' = Part(g + 1)
          /\ Reached(g + 1, offset' - 0)
      BY <2>1, <2>3, StepInAgreement
    <3>2. offset' - 0 = offset' /\ offset' <= n /\ offset' \in Nat
      BY <1>1, <2>3, <3>1
    <3>3. QED BY <3>1, <3>2
  <2>4. CASE DecodeQuad /\ offset + 4 > n
    <3> DEFINE i == n - offset
               s == Group(g)
    <3>1. /\ offset + 4 <= Len(text) /\ is_quad(quad) /\ ~isspace(text[offset + 1])
          /\ destination' = destination \o decode_quad(quad) /\ offset' = offset + 4
      BY <2>4 DEF DecodeQuad, quad_follows
    <3>2. quad \in Seq(Byte) /\ Len(quad) = 4 /\ \A j \in 1..4 : quad[j] = text[offset + j]
      BY <1>1, <3>1, QuadParts
    <3>3. Reads(result, offset, s) /\ g \in Nat /\ g < Size /\ g + 1 \in 0..Size
      <4>1. offset - 0 = offset /\ g \in Nat
        BY <1>1
      <4>2. QED BY <1>7, <2>1, <3>1, <4>1, NextInAgreement
    <3>4. i \in 1..3 /\ offset + i = n /\ offset + (i + 1) = n + 1 /\ i + 1 \in 1..4
      BY <1>1, <1>7, <2>4
    <3>5. quad[i + 1] = c
      BY <1>3, <3>2, <3>4
    <3>6. \A j \in 1..i : quad[j] = s[j]
      <4>1. \A j \in 1..i : j \in 1..4 /\ offset + j \in 1..n
        BY <1>1, <3>4
      <4>2. QED BY <1>3, <3>2, <3>3, <4>1 DEF Reads
    <3>7. i = 3
      <4>1. ~is_code(quad[i + 1]) /\ quad[i + 1] # Pad
        BY <1>2, <3>5
      <4>2. i \in {1, 2, 3} /\ (i = 1 => i + 1 = 2) /\ (i = 2 => i + 1 = 3)
        BY <3>4
      <4> HIDE DEF i, e, s
      <4>3. /\ i = 1 => ~is_code(quad[2])
            /\ i = 2 => ~is_code(quad[3]) /\ quad[3] # Pad
        BY <4>1, <4>2
      <4>4. QED BY <3>1, <4>2, <4>3, Zenon DEF is_quad
    <3>8. quad[1] = s[1] /\ quad[2] = s[2] /\ quad[3] = s[3] /\ quad[4] = c
      BY <3>5, <3>6, <3>7
    <3>9. quad[3] = Pad
      BY <1>2, <3>1, <3>8, Zenon DEF is_quad
    <3>10. s[4] = Pad
      <4>1. (s[3] = Pad /\ s[4] = Pad) \/ is_code(s[3])
        BY <1>1, <3>3, GroupParts, Zenon
      <4>2. ~is_code(Pad)
        BY SMT DEF is_code, Pad
      <4>3. QED BY <3>8, <3>9, <4>1, <4>2, Zenon
    <3>11. decode_quad(quad) = decode_quad(s)
      <4> HIDE DEF s, i, e
      <4>1. quad[3] = s[3] /\ s[3] = Pad /\ quad[1] = s[1] /\ quad[2] = s[2]
        BY <3>8, <3>9
      <4>2. QED BY <4>1, PaddedQuad
    <3>12. destination' = Part(g + 1)
      <4>1. Part(g) \o decode_quad(s) = Part(g + 1) /\ destination = Part(g)
        BY <1>1, <3>3, PartNext DEF Inside
      <4>2. QED BY <3>1, <3>11, <4>1
    <3>13. offset' = n + 1 /\ offset' \in Nat /\ n + 2 = offset' + 1 /\ (n + 2) - 1 = offset + 4
      BY <1>1, <3>1, <3>4, <3>7
    <3>14. n + 2 \in (n + 2)..e /\ offset' < Len(text)
      <4>1. offset + 4 <= Len(result)
        BY <3>3 DEF Reads
      <4>2. QED BY <1>1, <1>3, <3>13, <4>1
    <3>15. result[offset + 4] = Pad
      BY <3>3, <3>10 DEF Reads
    <3>16. text[offset' + 1] = Pad
      BY <1>3, <3>13, <3>14, <3>15
    <3>17. QED BY <3>3, <3>12, <3>13, <3>14, <3>16
  <2>5. QED BY <1>1, <2>2, <2>3, <2>4
<1>8. QED BY <1>1, <1>5, <1>6, <1>7

\* There decode stops.
LEMMA AstrayStep ==
    ASSUME text \in Seq(Byte), offset \in Nat, NEW n \in Nat, Astray(n), SkipSpace \/ DecodeQuad
    PROVE  FALSE
<1>1. ~isspace(Pad) /\ ~is_code(Pad)
  BY SMT DEF isspace, is_code, Pad
<1>2. text[offset + 1] = Pad
  BY DEF Astray
<1>3. DecodeQuad /\ offset + 4 <= Len(text) /\ is_quad(quad)
  BY <1>1, <1>2 DEF SkipSpace, DecodeQuad, quad_follows
<1>4. quad[1] = Pad
  <2>1. \A c \in 1..4 : quad[c] = text[offset + c]
    BY <1>3, QuadParts
  <2>2. QED BY <1>2, <2>1
<1>5. QED BY <1>1, <1>3, <1>4, Zenon DEF is_quad

-----------------------------------------------------------------------------
(* What every step preserves.                                              *)

\* However the text is delivered, decode starts before its first group.
LEMMA DeliverStep ==
    ASSUME TypeOK, LayoutInv, Deliver
    PROVE  TypeOK' /\ LayoutInv'
<1>1. /\ blob \in Seq(Byte) /\ result \in Seq(Byte) /\ Written(result, Size) /\ Len(result) \in Nat
      /\ offset = 0 /\ destination = << >>
  BY SMT DEF TypeOK, LayoutInv, Deliver
<1>2. /\ blob' = blob /\ pretty_print' = pretty_print /\ in' = in /\ result' = result
      /\ offset' = 0 /\ destination' = << >> /\ pc' = "decode"
  BY <1>1 DEF Deliver
<1>3. Size \in Nat /\ 0 \in 0..Size /\ Part(0) = << >> /\ Start(0) = 0 /\ 0 \in Nat
  <2>1. Size \in Nat
    BY <1>1, SizeParts
  <2>2. Part(0) = << >>
    BY <1>1, SMT DEF Part
  <2>3. QED BY <2>1, <2>2, StartNat
<1>4. /\ Size' = Size /\ Part(0)' = Part(0) /\ Reached(0, offset)'
      /\ Reached(0, IF offset <= 0 THEN offset ELSE offset - 1)'
  <2>1. Reached(0, 0)
    BY <1>3 DEF Reached
  <2>2. QED BY <1>2, <2>1 DEF Size, Part, Reached, Start
<1>5. Written(result, Size)'
  BY <1>1, <1>2 DEF Written, Start, Group, Size
<1>6. /\ damage' \in {"none", "cut", "space", "spoilt"} /\ text' \in Seq(Byte) /\ Decoding'
  <2>1. CASE damage' = "none" /\ text' = result
    <3>1. Untouched(0)'
      BY <1>2, <1>4, <2>1 DEF Untouched
    <3>2. QED BY <1>1, <1>2, <1>3, <1>4, <2>1, <3>1 DEF Decoding
  <2>2. CASE /\ damage' = "cut"
             /\ \E n \in 0..(Len(result) - 1) : text' = SubSeq(result, 1, n)
    <3>1. CutShort(0)'
      BY <1>2, <1>4, <2>2 DEF CutShort
    <3>2. PICK n \in 0..(Len(result) - 1) : text' = SubSeq(result, 1, n)
      BY <2>2
    <3>3. n \in Nat /\ 1 <= n + 1 /\ n <= Len(result) /\ 1 \in Nat \ {0}
      BY <1>1
    <3>4. text' \in Seq(Byte)
      BY <1>1, <3>2, <3>3, PieceParts
    <3>5. QED BY <1>2, <1>3, <1>4, <2>2, <3>1, <3>4 DEF Decoding
  <2>3. CASE /\ damage' = "space"
             /\ \E n \in 0..Len(result), c \in Spaces :
                  text' = SubSeq(result, 1, n) \o <<c>> \o SubSeq(result, n + 1, Len(result))
    <3>1. PICK n \in 0..Len(result), c \in Spaces :
            text' = SubSeq(result, 1, n) \o <<c>> \o SubSeq(result, n + 1, Len(result))
      BY <2>3
    <3>2. n \in Nat /\ 0 <= n
      OBVIOUS
    <3>3. SpaceAt(n, c)'
      BY <1>2, <2>3, <3>1 DEF SpaceAt
    <3>4. Spaced(0)'
      BY <1>2, <1>4, <3>2, <3>3 DEF Spaced
    <3>5. text' \in Seq(Byte)
      BY <1>1, <3>1, SpaceByte, InsertedIsText
    <3>6. QED BY <1>2, <1>3, <1>4, <2>3, <3>4, <3>5 DEF Decoding
  <2>4. CASE /\ damage' = "spoilt"
             /\ \E n \in DOMAIN result, c \in Strangers :
                  is_code(result[n]) /\ text' = [result EXCEPT ![n] = c]
    <3>1. PICK n \in DOMAIN result, c \in Strangers :
            is_code(result[n]) /\ text' = [result EXCEPT ![n] = c]
      BY <2>4
    <3>2. n \in Nat /\ 0 < n /\ n \in 1..Len(result)
      BY <1>1
    <3>3. SpoiltAt(n, c)'
      BY <1>2, <2>4, <3>1 DEF SpoiltAt
    <3>4. Spoilt(0)'
      BY <1>2, <1>4, <3>2, <3>3 DEF Spoilt
    <3>5. text' \in Seq(Byte)
      <4>1. c \in Byte
        BY Base64Assumption
      <4>2. QED BY <1>1, <3>1, <4>1
    <3>6. QED BY <1>2, <1>3, <1>4, <2>4, <3>4, <3>5 DEF Decoding
  <2>5. QED BY <2>1, <2>2, <2>3, <2>4 DEF Deliver
<1>7. TypeOK'
  <2>1. in \in 0..Len(blob) /\ pretty_print \in BOOLEAN
    BY DEF TypeOK
  <2>2. 0 \in 0..Len(text')
    BY <1>6
  <2>3. << >> \in Seq(Byte)
    OBVIOUS
  <2>4. QED BY <1>1, <1>2, <1>6, <2>1, <2>2, <2>3 DEF TypeOK
<1>8. LayoutInv'
  BY <1>2, <1>5, <1>6 DEF LayoutInv
<1>9. QED BY <1>7, <1>8

\* A turn of decode's loop.
LEMMA DecodeStep ==
    ASSUME TypeOK, LayoutInv, SkipSpace \/ DecodeQuad
    PROVE  TypeOK' /\ LayoutInv'
<1>1. /\ blob \in Seq(Byte) /\ text \in Seq(Byte) /\ offset \in Nat /\ Len(text) \in Nat
      /\ offset < Len(text) /\ pc = "decode" /\ Written(result, Size) /\ Decoding
  <2>1. pc = "decode" /\ offset < Len(text)
    BY DEF SkipSpace, DecodeQuad
  <2>2. blob \in Seq(Byte) /\ text \in Seq(Byte) /\ offset \in Nat
    BY DEF TypeOK
  <2>3. Len(text) \in Nat
    BY <2>2
  <2>4. QED BY <2>1, <2>2, <2>3 DEF LayoutInv
<1>2. /\ pc' = pc /\ blob' = blob /\ pretty_print' = pretty_print /\ in' = in /\ result' = result
      /\ damage' = damage /\ text' = text
  BY DEF SkipSpace, DecodeQuad
<1>3. offset' \in 0..Len(text)
  <2>1. CASE SkipSpace
    <3>1. offset' = offset + 1
      BY <2>1 DEF SkipSpace
    <3>2. QED BY <1>1, <3>1
  <2>2. CASE DecodeQuad
    <3>1. offset' = offset + 4 /\ offset + 4 <= Len(text)
      BY <2>2 DEF DecodeQuad, quad_follows
    <3>2. QED BY <1>1, <3>1
  <2>3. QED BY <2>1, <2>2
<1>4. \A h : Part(h)' = Part(h)
  BY <1>2 DEF Part
<1>5. Size' = Size
  BY <1>2 DEF Size
<1>6. \A h, m : /\ Reached(h, offset)' <=> Reached(h, offset')
                /\ Reached(h, IF offset <= m THEN offset ELSE offset - 1)'
                     <=> Reached(h, IF offset' <= m THEN offset' ELSE offset' - 1)
  BY <1>2 DEF Reached, Start, Size
<1>7. \A m, c : (SpaceAt(m, c)' <=> SpaceAt(m, c)) /\ (SpoiltAt(m, c)' <=> SpoiltAt(m, c))
  BY <1>2 DEF SpaceAt, SpoiltAt
<1>8. Decoding' /\ \E h \in 0..Size : destination' = Part(h)
  <2>1. CASE \E n \in Nat, c \in Spaces : SpaceAt(n, c) /\ Astray(n)
    BY <1>1, <2>1, AstrayStep
  <2>2. ASSUME NEW g \in 0..Size, destination = Part(g),
               Untouched(g) \/ CutShort(g) \/ Spaced(g) \/ Spoilt(g)
        PROVE  Decoding' /\ \E h \in 0..Size : destination' = Part(h)
    <3>1. Inside(g)
      BY <1>1, <2>2 DEF Inside
    <3>2. CASE Untouched(g)
      <4>1. PICK h \in 0..Size : destination' = Part(h) /\ Reached(h, offset')
        BY <3>1, <3>2, UntouchedStep
      <4>2. Untouched(h)'
        BY <1>2, <1>6, <3>2, <4>1 DEF Untouched
      <4>3. QED BY <1>4, <1>5, <4>1, <4>2 DEF Decoding
    <3>3. CASE CutShort(g)
      <4>1. PICK h \in 0..Size : destination' = Part(h) /\ Reached(h, offset')
        BY <3>1, <3>3, CutShortStep
      <4>2. CutShort(h)'
        BY <1>2, <1>6, <3>3, <4>1 DEF CutShort
      <4>3. QED BY <1>4, <1>5, <4>1, <4>2 DEF Decoding
    <3>4. CASE Spaced(g)
      <4>1. PICK n \in Nat, c \in Spaces :
              SpaceAt(n, c) /\ Reached(g, IF offset <= n THEN offset ELSE offset - 1)
        BY <3>4 DEF Spaced
      <4>2. PICK h \in 0..Size :
              /\ destination' = Part(h)
              /\ \/ Reached(h, IF offset' <= n THEN offset' ELSE offset' - 1)
                 \/ offset' = n + 1 /\ offset' < Len(text) /\ text[offset' + 1] = Pad
        BY <3>1, <4>1, SpacedStep
      <4>3. CASE Reached(h, IF offset' <= n THEN offset' ELSE offset' - 1)
        <5>1. Spaced(h)'
          BY <1>6, <1>7, <4>1, <4>3 DEF Spaced
        <5>2. QED BY <1>4, <1>5, <4>2, <5>1 DEF Decoding
      <4>4. CASE offset' = n + 1 /\ offset' < Len(text) /\ text[offset' + 1] = Pad
        <5>1. Astray(n)'
          BY <1>2, <4>4 DEF Astray
        <5>2. QED BY <1>7, <4>1, <4>2, <5>1 DEF Decoding
      <4>5. QED BY <4>2, <4>3, <4>4
    <3>5. CASE Spoilt(g)
      <4>1. PICK n \in Nat, c \in Strangers : SpoiltAt(n, c) /\ Reached(g, offset) /\ offset < n
        BY <3>5 DEF Spoilt
      <4>2. PICK h \in 0..Size : destination' = Part(h) /\ Reached(h, offset')
        BY <3>1, <4>1, SpoiltStep
      <4>3. offset' < n
        BY <3>1, <4>1, SpoiltStep
      <4>4. Spoilt(h)'
        BY <1>6, <1>7, <4>1, <4>2, <4>3 DEF Spoilt
      <4>5. QED BY <1>4, <1>5, <4>2, <4>4 DEF Decoding
    <3>6. QED BY <2>2, <3>2, <3>3, <3>4, <3>5
  <2>3. QED BY <1>1, <2>1, <2>2 DEF Decoding
<1>9. destination' \in Seq(Byte)
  <2>1. PICK h \in 0..Size : destination' = Part(h)
    BY <1>8
  <2>2. QED BY <1>1, <2>1, PartIsBytes
<1>10. TypeOK'
  BY <1>2, <1>3, <1>9 DEF TypeOK
<1>11. Written(result, Size)'
  BY <1>1, <1>2 DEF Written, Start, Group, Size
<1>12. QED BY <1>1, <1>2, <1>8, <1>10, <1>11 DEF LayoutInv

\* decode ends, or gives up, on a text that was damaged.
LEMMA LastStep ==
    ASSUME TypeOK, LayoutInv, Throw \/ FinishDecode
    PROVE  TypeOK' /\ LayoutInv'
<1>1. /\ pc = "decode" /\ pc' \in {"thrown", "done"} /\ (pc' = "done" => offset = Len(text))
      /\ pc' = "thrown" => Throw
      /\ blob' = blob /\ pretty_print' = pretty_print /\ in' = in /\ result' = result
      /\ damage' = damage /\ text' = text /\ offset' = offset /\ destination' = destination
  BY DEF Throw, FinishDecode
<1>2. TypeOK'
  BY <1>1 DEF TypeOK
<1>3. Decoding /\ Written(result, Size)
  BY <1>1 DEF LayoutInv
<1>4. Decoding'
  BY <1>1, <1>3, SameDecoding
<1>5. Written(result, Size)'
  BY <1>1, <1>3 DEF Written, Start, Group, Size
<1>6. damage = "none" => ~Throw
  <2>1. SUFFICES ASSUME damage = "none", Throw
                 PROVE  FALSE
    OBVIOUS
  <2>2. PICK g \in 0..Size : destination = Part(g) /\ Untouched(g)
    BY <1>3, <2>1 DEF Decoding, CutShort, Spaced, Spoilt, SpaceAt, SpoiltAt
  <2>3. Inside(g)
    BY <1>3, <2>2 DEF Inside, TypeOK
  <2>4. QED BY <2>1, <2>2, <2>3, UntouchedStep
<1>7. QED BY <1>1, <1>2, <1>4, <1>5, <1>6 DEF LayoutInv

LEMMA LayoutStep ==
    ASSUME TypeOK, LayoutInv, [Next]_vars
    PROVE  TypeOK' /\ LayoutInv'
<1>1. CASE UNCHANGED vars
  <2>1. TypeOK'
    BY <1>1 DEF vars, TypeOK
  <2>2. Decoding' <=> Decoding
    BY <1>1, SameDecoding DEF vars
  <2>3. /\ Written(result, Size)' <=> Written(result, Size)
        /\ (Written(result, in \div 3) /\ Len(result) = Start(in \div 3))'
             <=> Written(result, in \div 3) /\ Len(result) = Start(in \div 3)
    BY <1>1 DEF vars, Written, Start, Group, Size
  <2>4. LayoutInv'
    BY <1>1, <2>2, <2>3 DEF vars, LayoutInv
  <2>5. QED BY <2>1, <2>4
<1>2. CASE EncodeTriplet
  BY <1>2, TripletWritten
<1>3. CASE FinishEncode
  BY <1>3, EncodeFinished
<1>4. CASE Deliver
  BY <1>4, DeliverStep
<1>5. CASE SkipSpace \/ DecodeQuad
  BY <1>5, DecodeStep
<1>6. CASE Throw \/ FinishDecode
  BY <1>6, LastStep
<1>7. QED BY <1>1, <1>2, <1>3, <1>4, <1>5, <1>6 DEF Next

LEMMA Layout == Spec => [](TypeOK /\ LayoutInv)
<1>1. Init => TypeOK /\ LayoutInv
  BY InitLayout
<1>2. (TypeOK /\ LayoutInv) /\ [Next]_vars => (TypeOK /\ LayoutInv)'
  BY LayoutStep
<1>3. QED BY <1>1, <1>2, PTL DEF Spec

-----------------------------------------------------------------------------
\* The variables have their types: encode and decode read within their blob and
\* their text, and what they make is bytes.
THEOREM Base64TypeCorrect == Spec => []TypeOK
<1>1. TypeOK /\ LayoutInv => TypeOK
  OBVIOUS
<1>2. QED BY <1>1, Layout, PTL

\* A text that decode has read to its end has all groups, or it was cut short.
LEMMA DoneParts ==
    ASSUME TypeOK, LayoutInv, pc = "done"
    PROVE  /\ damage # "spoilt"
           /\ damage \in {"none", "space"} => destination = blob
           /\ \E g \in 0..Size : destination = Part(g)
<1>1. /\ blob \in Seq(Byte) /\ result \in Seq(Byte) /\ text \in Seq(Byte) /\ Len(result) \in Nat
      /\ Written(result, Size) /\ Decoding /\ offset = Len(text) /\ offset \in Nat
  <2>1. blob \in Seq(Byte) /\ result \in Seq(Byte) /\ text \in Seq(Byte) /\ offset \in Nat
    BY DEF TypeOK
  <2>2. Len(result) \in Nat
    BY <2>1
  <2>3. QED BY <2>1, <2>2 DEF LayoutInv
<1>2. \A n \in Nat, c \in Spaces : SpaceAt(n, c) => Len(text) = Len(result) + 1 /\ n <= Len(result)
  <2>1. SUFFICES ASSUME NEW n \in Nat, NEW c \in Spaces, SpaceAt(n, c)
                 PROVE  Len(text) = Len(result) + 1 /\ n <= Len(result)
    OBVIOUS
  <2>2. c \in Byte
    BY SpaceByte
  <2>3. QED BY <1>1, <2>1, <2>2, SpaceText
<1>3. ~ \E n \in Nat, c \in Spaces : SpaceAt(n, c) /\ Astray(n)
  BY <1>1 DEF Astray
<1>4. PICK g \in 0..Size :
        destination = Part(g) /\ (Untouched(g) \/ CutShort(g) \/ Spaced(g) \/ Spoilt(g))
  BY <1>1, <1>3 DEF Decoding
<1>5. Reached(g, Len(result)) => destination = blob
  <2>1. Part(Size) = blob
    BY <1>1, LastPart
  <2>2. Reached(g, Len(result)) => g = Size
    BY <1>1, NextInText
  <2>3. QED BY <1>4, <2>1, <2>2
<1>6. CASE Untouched(g)
  <2>1. Reached(g, Len(result)) /\ damage = "none"
    BY <1>1, <1>6 DEF Untouched
  <2>2. QED BY <1>4, <1>5, <2>1
<1>7. CASE CutShort(g)
  BY <1>4, <1>7 DEF CutShort
<1>8. CASE Spaced(g)
  <2>1. PICK n \in Nat, c \in Spaces :
          SpaceAt(n, c) /\ Reached(g, IF offset <= n THEN offset ELSE offset - 1)
    BY <1>8 DEF Spaced
  <2>2. ~(offset <= n) /\ offset - 1 = Len(result)
    BY <1>1, <1>2, <2>1
  <2>3. damage = "space" /\ Reached(g, Len(result))
    BY <2>1, <2>2 DEF SpaceAt
  <2>4. QED BY <1>4, <1>5, <2>3
<1>9. CASE Spoilt(g)
  <2>1. PICK n \in Nat, c \in Strangers : SpoiltAt(n, c) /\ offset < n
    BY <1>9 DEF Spoilt
  <2>2. n \in 1..Len(result) /\ Len(text) = Len(result)
    BY <1>1, <2>1 DEF SpoiltAt
  <2>3. QED BY <1>1, <2>1, <2>2
<1>10. QED BY <1>4, <1>6, <1>7, <1>8, <1>9

\* A blob of any length, in one line or many, comes back as it was, and decode
\* does not throw.
THEOREM Base64RoundTrip == Spec => []RoundTrip
<1>1. TypeOK /\ LayoutInv => RoundTrip
  BY DoneParts DEF RoundTrip, LayoutInv
<1>2. QED BY <1>1, Layout, PTL

\* White space anywhere, a character of another alphabet in place of any code, or
\* a text cut short at any place is noticed, or changes nothing decode gives.
THEOREM Base64DamageIsNoticedOrHarmless == Spec => []DamageIsNoticedOrHarmless
<1>1. TypeOK /\ LayoutInv => DamageIsNoticedOrHarmless
  <2>1. SUFFICES ASSUME TypeOK, LayoutInv, pc = "done"
                 PROVE  /\ damage = "space" => destination = blob
                        /\ damage # "spoilt"
                        /\ damage = "cut" =>
                             /\ Len(destination) <= Len(blob)
                             /\ destination = SubSeq(blob, 1, Len(destination))
    BY DEF DamageIsNoticedOrHarmless
  <2>2. PICK g \in 0..Size : destination = Part(g)
    BY <2>1, DoneParts
  <2>3. blob \in Seq(Byte)
    BY <2>1 DEF TypeOK
  <2>4. Len(Part(g)) <= Len(blob) /\ Part(g) = SubSeq(blob, 1, Len(Part(g)))
    BY <2>3, PartIsBytes
  <2>5. QED BY <2>1, <2>2, <2>4, DoneParts
<1>2. QED BY <1>1, Layout, PTL

-----------------------------------------------------------------------------
(* The text as RFC 4648 has it: its bits.                                  *)

\* Bit w of a byte, the first being the most significant.
BitOf(x, w) == (x \div weight[w + 1]) % 2

\* A byte is made up of its bits.
LEMMA BitsOfByte ==
    ASSUME NEW x \in Byte
    PROVE  /\ \A w \in 0..7 : BitOf(x, w) \in 0..1
           /\ x = 128 * BitOf(x, 0) + 64 * BitOf(x, 1) + 32 * BitOf(x, 2) + 16 * BitOf(x, 3)
                  + 8 * BitOf(x, 4) + 4 * BitOf(x, 5) + 2 * BitOf(x, 6) + BitOf(x, 7)
<1>1. x \in Nat /\ x < 256
  BY SMT DEF Byte
<1>2. /\ BitOf(x, 0) = (x \div 128) % 2 /\ BitOf(x, 1) = (x \div 64) % 2
      /\ BitOf(x, 2) = (x \div 32) % 2 /\ BitOf(x, 3) = (x \div 16) % 2
      /\ BitOf(x, 4) = (x \div 8) % 2 /\ BitOf(x, 5) = (x \div 4) % 2
      /\ BitOf(x, 6) = (x \div 2) % 2 /\ BitOf(x, 7) = x % 2
  <2>1. /\ weight[1] = 128 /\ weight[2] = 64 /\ weight[3] = 32 /\ weight[4] = 16
        /\ weight[5] = 8 /\ weight[6] = 4 /\ weight[7] = 2 /\ weight[8] = 1
    BY SMT DEF weight
  <2>2. x \div 1 = x
    BY <1>1, SMT
  <2>3. /\ 0 + 1 = 1 /\ 1 + 1 = 2 /\ 2 + 1 = 3 /\ 3 + 1 = 4
        /\ 4 + 1 = 5 /\ 5 + 1 = 6 /\ 6 + 1 = 7 /\ 7 + 1 = 8
    OBVIOUS
  <2>4. QED BY <2>1, <2>2, <2>3, ZenonT(30) DEF BitOf
<1>3. /\ x = 2 * (x \div 2) + (x % 2)
      /\ x \div 2 = 2 * (x \div 4) + ((x \div 2) % 2)
      /\ x \div 4 = 2 * (x \div 8) + ((x \div 4) % 2)
      /\ x \div 8 = 2 * (x \div 16) + ((x \div 8) % 2)
  BY <1>1, SMT
<1>4. /\ x \div 16 = 2 * (x \div 32) + ((x \div 16) % 2)
      /\ x \div 32 = 2 * (x \div 64) + ((x \div 32) % 2)
      /\ x \div 64 = 2 * (x \div 128) + ((x \div 64) % 2)
      /\ x \div 128 = (x \div 128) % 2
  BY <1>1, SMT
<1>5. /\ (x \div 128) % 2 \in 0..1 /\ (x \div 64) % 2 \in 0..1 /\ (x \div 32) % 2 \in 0..1
      /\ (x \div 16) % 2 \in 0..1 /\ (x \div 8) % 2 \in 0..1 /\ (x \div 4) % 2 \in 0..1
      /\ (x \div 2) % 2 \in 0..1 /\ x % 2 \in 0..1
  BY <1>1, SMT
<1>6. \A w \in 0..7 : BitOf(x, w) \in 0..1
  <2>1. /\ BitOf(x, 0) \in 0..1 /\ BitOf(x, 1) \in 0..1 /\ BitOf(x, 2) \in 0..1
        /\ BitOf(x, 3) \in 0..1 /\ BitOf(x, 4) \in 0..1 /\ BitOf(x, 5) \in 0..1
        /\ BitOf(x, 6) \in 0..1 /\ BitOf(x, 7) \in 0..1
    BY <1>2, <1>5, SMT
  <2>2. \A w \in 0..7 : w \in {0, 1, 2, 3, 4, 5, 6, 7}
    OBVIOUS
  <2>3. QED BY <2>1, <2>2
<1>7. /\ x \div 2 \in Nat /\ x \div 4 \in Nat /\ x \div 8 \in Nat /\ x \div 16 \in Nat
      /\ x \div 32 \in Nat /\ x \div 64 \in Nat /\ x \div 128 \in Nat
  BY <1>1, SMT
<1>8. x = 128 * ((x \div 128) % 2) + 64 * ((x \div 64) % 2) + 32 * ((x \div 32) % 2)
          + 16 * ((x \div 16) % 2) + 8 * ((x \div 8) % 2) + 4 * ((x \div 4) % 2)
          + 2 * ((x \div 2) % 2) + (x % 2)
  BY <1>1, <1>3, <1>4, <1>5, <1>7, SMT
<1>9. QED BY <1>2, <1>6, <1>8, Zenon

\* A sequence of bytes has the bits of its bytes, and zeros behind them.
LEMMA BitAt ==
    ASSUME NEW b \in Seq(Byte), NEW n \in Nat, NEW w \in 0..7
    PROVE  Bit(b, 8 * n + w) = IF n < Len(b) THEN BitOf(b[n + 1], w) ELSE 0
<1>1. (8 * n + w) \div 8 = n /\ (8 * n + w) % 8 = w
  BY SMT
<1>2. QED BY <1>1, Zenon DEF Bit, BitOf

\* The n-th byte of the blob, from 0, and zeros behind its last.
ByteAt(n) == IF n < Len(blob) THEN blob[n + 1] ELSE 0

LEMMA BytesAndBits ==
    ASSUME blob \in Seq(Byte), NEW n \in Nat
    PROVE  ByteAt(n) \in Byte /\ \A w \in 0..7 : Bit(blob, 8 * n + w) = BitOf(ByteAt(n), w)
<1>1. n < Len(blob) => blob[n + 1] \in Byte
  BY SMT
<1>2. 0 \in Byte
  BY SMT DEF Byte
<1>3. \A w \in 0..7 : BitOf(0, w) = 0
  <2>1. \A w \in 0..7 : weight[w + 1] \in Nat \ {0}
    BY SMT DEF weight
  <2>2. \A k \in Nat \ {0} : (0 \div k) % 2 = 0
    BY SMT
  <2>3. QED BY <2>1, <2>2, Zenon DEF BitOf
<1>4. \A w \in 0..7 : Bit(blob, 8 * n + w) = IF n < Len(blob) THEN BitOf(blob[n + 1], w) ELSE 0
  BY BitAt
<1>5. QED BY <1>1, <1>2, <1>3, <1>4 DEF ByteAt

\* The number that six bits are.
Six(u, v, w, x, y, z) == 32 * u + 16 * v + 8 * w + 4 * x + 2 * y + z

LEMMA SixBits ==
    ASSUME NEW u \in 0..1, NEW v \in 0..1, NEW w \in 0..1,
           NEW x \in 0..1, NEW y \in 0..1, NEW z \in 0..1
    PROVE  Six(u, v, w, x, y, z) \in 0..63
  BY SMT DEF Six

\* The sextets of three bytes are their bits in the same order.
LEMMA SextetBits ==
    ASSUME NEW a \in Byte, NEW b \in Byte, NEW c \in Byte
    PROVE  sextet(Bytes(a, b, c)) =
             <<Six(BitOf(a, 0), BitOf(a, 1), BitOf(a, 2), BitOf(a, 3), BitOf(a, 4), BitOf(a, 5)),
               Six(BitOf(a, 6), BitOf(a, 7), BitOf(b, 0), BitOf(b, 1), BitOf(b, 2), BitOf(b, 3)),
               Six(BitOf(b, 4), BitOf(b, 5), BitOf(b, 6), BitOf(b, 7), BitOf(c, 0), BitOf(c, 1)),
               Six(BitOf(c, 2), BitOf(c, 3), BitOf(c, 4), BitOf(c, 5), BitOf(c, 6), BitOf(c, 7))>>
<1> DEFINE e == Six(BitOf(a, 0), BitOf(a, 1), BitOf(a, 2), BitOf(a, 3), BitOf(a, 4), BitOf(a, 5))
           f == Six(BitOf(a, 6), BitOf(a, 7), BitOf(b, 0), BitOf(b, 1), BitOf(b, 2), BitOf(b, 3))
           g == Six(BitOf(b, 4), BitOf(b, 5), BitOf(b, 6), BitOf(b, 7), BitOf(c, 0), BitOf(c, 1))
           h == Six(BitOf(c, 2), BitOf(c, 3), BitOf(c, 4), BitOf(c, 5), BitOf(c, 6), BitOf(c, 7))
<1>1. \A x \in Byte :
        /\ BitOf(x, 0) \in 0..1 /\ BitOf(x, 1) \in 0..1 /\ BitOf(x, 2) \in 0..1
        /\ BitOf(x, 3) \in 0..1 /\ BitOf(x, 4) \in 0..1 /\ BitOf(x, 5) \in 0..1
        /\ BitOf(x, 6) \in 0..1 /\ BitOf(x, 7) \in 0..1
  <2>1. /\ 0 \in 0..7 /\ 1 \in 0..7 /\ 2 \in 0..7 /\ 3 \in 0..7
        /\ 4 \in 0..7 /\ 5 \in 0..7 /\ 6 \in 0..7 /\ 7 \in 0..7
    OBVIOUS
  <2>2. QED BY <2>1, BitsOfByte, ZenonT(30)
<1>2. e \in 0..63 /\ f \in 0..63 /\ g \in 0..63 /\ h \in 0..63
  BY <1>1, SixBits, Zenon
<1>3. Bytes(a, b, c) = Value(e, f, g, h)
  <2> DEFINE a0 == BitOf(a, 0)  a1 == BitOf(a, 1)  a2 == BitOf(a, 2)  a3 == BitOf(a, 3)
             a4 == BitOf(a, 4)  a5 == BitOf(a, 5)  a6 == BitOf(a, 6)  a7 == BitOf(a, 7)
             b0 == BitOf(b, 0)  b1 == BitOf(b, 1)  b2 == BitOf(b, 2)  b3 == BitOf(b, 3)
             b4 == BitOf(b, 4)  b5 == BitOf(b, 5)  b6 == BitOf(b, 6)  b7 == BitOf(b, 7)
             c0 == BitOf(c, 0)  c1 == BitOf(c, 1)  c2 == BitOf(c, 2)  c3 == BitOf(c, 3)
             c4 == BitOf(c, 4)  c5 == BitOf(c, 5)  c6 == BitOf(c, 6)  c7 == BitOf(c, 7)
  <2>1. /\ a = 128 * a0 + 64 * a1 + 32 * a2 + 16 * a3 + 8 * a4 + 4 * a5 + 2 * a6 + a7
        /\ b = 128 * b0 + 64 * b1 + 32 * b2 + 16 * b3 + 8 * b4 + 4 * b5 + 2 * b6 + b7
        /\ c = 128 * c0 + 64 * c1 + 32 * c2 + 16 * c3 + 8 * c4 + 4 * c5 + 2 * c6 + c7
    BY BitsOfByte, Zenon
  <2>2. /\ a0 \in Int /\ a1 \in Int /\ a2 \in Int /\ a3 \in Int
        /\ a4 \in Int /\ a5 \in Int /\ a6 \in Int /\ a7 \in Int
        /\ b0 \in Int /\ b1 \in Int /\ b2 \in Int /\ b3 \in Int
        /\ b4 \in Int /\ b5 \in Int /\ b6 \in Int /\ b7 \in Int
        /\ c0 \in Int /\ c1 \in Int /\ c2 \in Int /\ c3 \in Int
        /\ c4 \in Int /\ c5 \in Int /\ c6 \in Int /\ c7 \in Int
    BY <1>1, SMT
  <2> HIDE DEF a0, a1, a2, a3, a4, a5, a6, a7, b0, b1, b2, b3, b4, b5, b6, b7,
               c0, c1, c2, c3, c4, c5, c6, c7
  <2>3. /\ e = 32 * a0 + 16 * a1 + 8 * a2 + 4 * a3 + 2 * a4 + a5
        /\ f = 32 * a6 + 16 * a7 + 8 * b0 + 4 * b1 + 2 * b2 + b3
        /\ g = 32 * b4 + 16 * b5 + 8 * b6 + 4 * b7 + 2 * c0 + c1
        /\ h = 32 * c2 + 16 * c3 + 8 * c4 + 4 * c5 + 2 * c6 + c7
    BY DEF Six, a0, a1, a2, a3, a4, a5, a6, a7, b0, b1, b2, b3, b4, b5, b6, b7,
           c0, c1, c2, c3, c4, c5, c6, c7
  <2> HIDE DEF e, f, g, h
  <2>4. QED BY <2>1, <2>2, <2>3, SMT DEF Bytes, Value
<1> HIDE DEF e, f, g, h
<1>4. PICK p \in 0..63, q \in 0..63, r \in 0..63, t \in 0..63 :
        Bytes(a, b, c) = Value(p, q, r, t) /\ sextet(Bytes(a, b, c)) = <<p, q, r, t>>
  BY ThreeBytes, Sextets, Zenon
<1>5. (p - e) * 262144 + (q - f) * 4096 + (r - g) * 64 + (t - h) = 0
  BY <1>2, <1>3, <1>4, SMT DEF Value
<1>6. p = e
  BY <1>2, <1>5, SMT
<1>7. q = f
  BY <1>2, <1>5, <1>6, SMT
<1>8. r = g
  BY <1>2, <1>5, <1>6, <1>7, SMT
<1>9. t = h
  BY <1>2, <1>5, <1>6, <1>7, <1>8, SMT
<1>10. QED BY <1>4, <1>6, <1>7, <1>8, <1>9, Zenon DEF e, f, g, h

\* What RFC 4648 has at the four places of a group is what encode puts there.
LEMMA CharactersOfGroup ==
    ASSUME blob \in Seq(Byte), NEW i \in Nat, i < Size
    PROVE  /\ Character(blob, 4 * i) = Group(i)[1]
           /\ Character(blob, 4 * i + 1) = Group(i)[2]
           /\ Character(blob, 4 * i + 2) = Group(i)[3]
           /\ Character(blob, 4 * i + 3) = Group(i)[4]
<1> DEFINE a == ByteAt(3 * i)
           b == ByteAt(3 * i + 1)
           c == ByteAt(3 * i + 2)
           p == Six(BitOf(a, 0), BitOf(a, 1), BitOf(a, 2), BitOf(a, 3), BitOf(a, 4), BitOf(a, 5))
           q == Six(BitOf(a, 6), BitOf(a, 7), BitOf(b, 0), BitOf(b, 1), BitOf(b, 2), BitOf(b, 3))
           r == Six(BitOf(b, 4), BitOf(b, 5), BitOf(b, 6), BitOf(b, 7), BitOf(c, 0), BitOf(c, 1))
           t == Six(BitOf(c, 2), BitOf(c, 3), BitOf(c, 4), BitOf(c, 5), BitOf(c, 6), BitOf(c, 7))
           two == 3 * i + 1 < Len(blob)
           three == 3 * i + 2 < Len(blob)
<1>1. Len(blob) \in Nat /\ 3 * i < Len(blob)
  BY SizeParts
<1>2. /\ a \in Byte /\ \A w \in 0..7 : Bit(blob, 8 * (3 * i) + w) = BitOf(a, w)
      /\ b \in Byte /\ \A w \in 0..7 : Bit(blob, 8 * (3 * i + 1) + w) = BitOf(b, w)
      /\ c \in Byte /\ \A w \in 0..7 : Bit(blob, 8 * (3 * i + 2) + w) = BitOf(c, w)
  <2>1. 3 * i \in Nat /\ 3 * i + 1 \in Nat /\ 3 * i + 2 \in Nat
    OBVIOUS
  <2>2. QED BY <2>1, BytesAndBits, Zenon
<1>3. sextet(Bytes(a, b, c)) = <<p, q, r, t>>
  BY <1>2, SextetBits
<1> HIDE DEF p, q, r, t
<1>4. Group(i) = <<codemap(p), codemap(q), IF two THEN codemap(r) ELSE Pad,
                   IF three THEN codemap(t) ELSE Pad>>
  <2>1. CASE 3 * i + 3 <= Len(blob)
    <3>1. two /\ three /\ 3 * i + 1 \in Nat
      BY <1>1, <2>1
    <3>2. a = blob[3 * i + 1] /\ b = blob[3 * i + 2] /\ c = blob[3 * i + 3]
      BY <1>1, <2>1, SMT DEF ByteAt
    <3>3. Group(i) = encode_triplet(a, b, c)
      BY <2>1, <3>2, Zenon DEF Group
    <3> HIDE DEF a, b, c, two, three
    <3>4. encode_triplet(a, b, c) = <<codemap(p), codemap(q), codemap(r), codemap(t)>>
      BY <1>3, SMT DEF encode_triplet, Bytes
    <3>5. QED BY <3>1, <3>3, <3>4
  <2>2. CASE 3 * i + 3 > Len(blob)
    <3> DEFINE rest == SubSeq(blob, 3 * i + 1, Len(blob))
               n == Len(rest)
    <3>1. /\ n \in {1, 2} /\ Len(blob) = 3 * i + n
          /\ n = 1 => rest = <<blob[3 * i + 1]>>
          /\ n = 2 => rest = <<blob[3 * i + 1], blob[3 * i + 2]>>
      BY <1>1, <2>2, RestOfBlob, Zenon
    <3>2. Group(i) = encode_rest(rest)
      BY <1>1, <2>2, SMT DEF Group
    <3> HIDE DEF rest, n
    <3>3. ~three /\ (two <=> n = 2) /\ (3 * i + 1) + 1 = 3 * i + 2
      <4>1. n \in {1, 2} /\ Len(blob) = 3 * i + n
        BY <3>1
      <4>2. QED BY <1>1, <4>1, SMT
    <3>4. a = blob[3 * i + 1] /\ b = (IF two THEN blob[3 * i + 2] ELSE 0) /\ c = 0
      BY <1>1, <3>3 DEF ByteAt
    <3>5. rest[1] = a /\ (two => rest[2] = b) /\ (~two => b = 0)
      <4>1. n = 1 => rest[1] = blob[3 * i + 1]
        BY <3>1
      <4>2. n = 2 => rest[1] = blob[3 * i + 1] /\ rest[2] = blob[3 * i + 2]
        BY <3>1
      <4>3. n \in {1, 2}
        BY <3>1
      <4>4. QED BY <3>3, <3>4, <4>1, <4>2, <4>3
    <3> HIDE DEF a, b, c, two, three
    <3> DEFINE val == IF Len(rest) = 2 THEN rest[1] * 65536 + rest[2] * 256
                                       ELSE rest[1] * 65536
    <3>6. Bytes(a, b, c) = val
      <4>1. Bytes(a, b, 0) = a * 65536 + b * 256 /\ Bytes(a, 0, 0) = a * 65536
        BY <1>2, SMT DEF Bytes, Byte
      <4>2. CASE two
        BY <3>3, <3>4, <3>5, <4>1, <4>2 DEF n
      <4>3. CASE ~two
        BY <3>3, <3>4, <3>5, <4>1, <4>3 DEF n
      <4>4. QED BY <4>2, <4>3
    <3> HIDE DEF val
    <3>7. sextet(val) = <<p, q, r, t>>
      BY <1>3, <3>6, Zenon
    <3>8. encode_rest(rest) =
            <<codemap(p), codemap(q), IF Len(rest) = 2 THEN codemap(r) ELSE Pad, Pad>>
      BY <3>7, SMT DEF encode_rest, val
    <3>9. QED BY <3>2, <3>3, <3>8 DEF n
  <2>3. QED BY <1>1, <2>1, <2>2
<1> HIDE DEF a, b, c
<1>5. \A w \in 0..7 : /\ Bit(blob, 24 * i + w) = BitOf(a, w)
                      /\ Bit(blob, 24 * i + 8 + w) = BitOf(b, w)
                      /\ Bit(blob, 24 * i + 16 + w) = BitOf(c, w)
  <2>1. 8 * (3 * i) = 24 * i /\ 8 * (3 * i + 1) = 24 * i + 8 /\ 8 * (3 * i + 2) = 24 * i + 16
    OBVIOUS
  <2>2. QED BY <1>2, <2>1, Zenon
<1>6. \A j \in Nat :
        Character(blob, j) =
          IF 6 * j >= 8 * Len(blob) THEN Pad
          ELSE codemap(Six(Bit(blob, 6 * j), Bit(blob, 6 * j + 1), Bit(blob, 6 * j + 2),
                           Bit(blob, 6 * j + 3), Bit(blob, 6 * j + 4), Bit(blob, 6 * j + 5)))
  BY Zenon DEF Character, Six
<1>7. /\ Bit(blob, 24 * i) = BitOf(a, 0) /\ Bit(blob, 24 * i + 1) = BitOf(a, 1)
      /\ Bit(blob, 24 * i + 2) = BitOf(a, 2) /\ Bit(blob, 24 * i + 3) = BitOf(a, 3)
      /\ Bit(blob, 24 * i + 4) = BitOf(a, 4) /\ Bit(blob, 24 * i + 5) = BitOf(a, 5)
      /\ Bit(blob, 24 * i + 6) = BitOf(a, 6) /\ Bit(blob, 24 * i + 7) = BitOf(a, 7)
  BY <1>5, SMT
<1>8. /\ Bit(blob, 24 * i + 8) = BitOf(b, 0) /\ Bit(blob, 24 * i + 9) = BitOf(b, 1)
      /\ Bit(blob, 24 * i + 10) = BitOf(b, 2) /\ Bit(blob, 24 * i + 11) = BitOf(b, 3)
      /\ Bit(blob, 24 * i + 12) = BitOf(b, 4) /\ Bit(blob, 24 * i + 13) = BitOf(b, 5)
      /\ Bit(blob, 24 * i + 14) = BitOf(b, 6) /\ Bit(blob, 24 * i + 15) = BitOf(b, 7)
  BY <1>5, SMT
<1>9. /\ Bit(blob, 24 * i + 16) = BitOf(c, 0) /\ Bit(blob, 24 * i + 17) = BitOf(c, 1)
      /\ Bit(blob, 24 * i + 18) = BitOf(c, 2) /\ Bit(blob, 24 * i + 19) = BitOf(c, 3)
      /\ Bit(blob, 24 * i + 20) = BitOf(c, 4) /\ Bit(blob, 24 * i + 21) = BitOf(c, 5)
      /\ Bit(blob, 24 * i + 22) = BitOf(c, 6) /\ Bit(blob, 24 * i + 23) = BitOf(c, 7)
  BY <1>5, SMT
<1>10. Character(blob, 4 * i) = codemap(p)
  <2>1. 4 * i \in Nat /\ 6 * (4 * i) = 24 * i /\ ~(24 * i >= 8 * Len(blob))
    BY <1>1
  <2>2. QED BY <1>6, <1>7, <2>1, Zenon DEF p
<1>11. Character(blob, 4 * i + 1) = codemap(q)
  <2>1. /\ 4 * i + 1 \in Nat /\ 6 * (4 * i + 1) = 24 * i + 6 /\ ~(24 * i + 6 >= 8 * Len(blob))
        /\ (24 * i + 6) + 1 = 24 * i + 7 /\ (24 * i + 6) + 2 = 24 * i + 8
        /\ (24 * i + 6) + 3 = 24 * i + 9 /\ (24 * i + 6) + 4 = 24 * i + 10
        /\ (24 * i + 6) + 5 = 24 * i + 11
    BY <1>1
  <2>2. Character(blob, 4 * i + 1) =
          codemap(Six(Bit(blob, 24 * i + 6), Bit(blob, 24 * i + 7), Bit(blob, 24 * i + 8),
                      Bit(blob, 24 * i + 9), Bit(blob, 24 * i + 10), Bit(blob, 24 * i + 11)))
    BY <1>6, <2>1, SMT
  <2>3. QED BY <1>7, <1>8, <2>2, SMT DEF q
<1>12. Character(blob, 4 * i + 2) = IF two THEN codemap(r) ELSE Pad
  <2>1. /\ 4 * i + 2 \in Nat /\ 6 * (4 * i + 2) = 24 * i + 12
        /\ (24 * i + 12 >= 8 * Len(blob)) <=> ~two
        /\ (24 * i + 12) + 1 = 24 * i + 13 /\ (24 * i + 12) + 2 = 24 * i + 14
        /\ (24 * i + 12) + 3 = 24 * i + 15 /\ (24 * i + 12) + 4 = 24 * i + 16
        /\ (24 * i + 12) + 5 = 24 * i + 17
    BY <1>1
  <2> HIDE DEF two
  <2>2. two => Character(blob, 4 * i + 2) =
          codemap(Six(Bit(blob, 24 * i + 12), Bit(blob, 24 * i + 13), Bit(blob, 24 * i + 14),
                      Bit(blob, 24 * i + 15), Bit(blob, 24 * i + 16), Bit(blob, 24 * i + 17)))
    BY <1>6, <2>1, SMT
  <2>3. ~two => Character(blob, 4 * i + 2) = Pad
    BY <1>6, <2>1, SMT
  <2>4. two => Character(blob, 4 * i + 2) = codemap(r)
    BY <1>8, <1>9, <2>2, SMT DEF r
  <2>5. QED BY <2>3, <2>4
<1>13. Character(blob, 4 * i + 3) = IF three THEN codemap(t) ELSE Pad
  <2>1. /\ 4 * i + 3 \in Nat /\ 6 * (4 * i + 3) = 24 * i + 18
        /\ (24 * i + 18 >= 8 * Len(blob)) <=> ~three
        /\ (24 * i + 18) + 1 = 24 * i + 19 /\ (24 * i + 18) + 2 = 24 * i + 20
        /\ (24 * i + 18) + 3 = 24 * i + 21 /\ (24 * i + 18) + 4 = 24 * i + 22
        /\ (24 * i + 18) + 5 = 24 * i + 23
    BY <1>1
  <2> HIDE DEF three
  <2>2. QED BY <1>6, <1>9, <2>1, ZenonT(30) DEF t
<1> HIDE DEF two, three
<1>14. QED BY <1>4, <1>10, <1>11, <1>12, <1>13

-----------------------------------------------------------------------------
(* Its length and its lines.                                               *)

\* A group does not end with a newline.
LEMMA LastOfGroup ==
    ASSUME blob \in Seq(Byte), NEW i \in Nat, i < Size
    PROVE  Group(i)[4] # Newline
<1> DEFINE c == Group(i)[4]
<1>1. (c = Pad \/ is_code(c)) /\ c \in Byte
  <2>1. c = Pad \/ is_code(c)
    BY GroupParts, Zenon
  <2>2. c \in Byte
    BY GroupParts, SMT
  <2>3. QED BY <2>1, <2>2
<1> HIDE DEF c
<1>2. c # Newline
  BY <1>1, SMT DEF is_code, Pad, Newline, Byte
<1>3. QED BY <1>2 DEF c

\* How long the text is when encode returns: the groups, the newlines of the full
\* lines, and one for a last line that is not full.
LengthInv ==
    pc = "encoded" /\ (~pretty_print \/ Size > 0) =>
      Len(result) = Start(Size) + (IF pretty_print /\ Size % 16 # 0 THEN 1 ELSE 0)

\* The last newline is put in exactly where no full line has put one.
LEMMA FinishLength ==
    ASSUME TypeOK, LayoutInv, FinishEncode
    PROVE  LengthInv'
<1> DEFINE g == in \div 3
           all == IF in = Len(blob) THEN result
                  ELSE result \o encode_rest(SubSeq(blob, in + 1, Len(blob)))
<1>1. /\ blob \in Seq(Byte) /\ in \in 0..Len(blob) /\ Len(blob) \in Nat /\ in + 3 > Len(blob)
      /\ in % 3 = 0 /\ Written(result, g) /\ Len(result) = Start(g) /\ result \in Seq(Byte)
      /\ pretty_print \in BOOLEAN
  BY SMT DEF TypeOK, LayoutInv, FinishEncode
<1>2. g \in Nat /\ in = 3 * g /\ Start(g) \in Nat
  <2>1. g \in Nat /\ in = 3 * g
    BY <1>1, SMT
  <2> HIDE DEF g
  <2>2. QED BY <2>1, StartNat
<1>3. \/ (pretty_print => all = << >> \/ ends_line(all)) /\ result' = all
      \/ (pretty_print /\ ~ends_line(all)) /\ result' = Append(all, Newline)
  BY DEF FinishEncode
<1>4. Newline \in Byte
  BY SMT DEF Newline, Byte
<1>5. SUFFICES ASSUME ~pretty_print \/ Size > 0
               PROVE  Len(result') = Start(Size) + (IF pretty_print /\ Size % 16 # 0 THEN 1 ELSE 0)
  <2>1. blob' = blob /\ pretty_print' = pretty_print
    BY DEF FinishEncode
  <2>2. QED BY <2>1 DEF LengthInv, Start, Size
<1>6. CASE in = Len(blob)
  <2>1. all = result /\ Size = g
    BY <1>1, <1>2, <1>6, SMT DEF Size
  <2> HIDE DEF g, all
  <2>2. CASE ~pretty_print
    BY <1>1, <1>2, <1>3, <2>1, <2>2
  <2>3. CASE pretty_print
    <3>1. /\ g > 0 /\ g - 1 \in Nat /\ (g - 1) + 1 = g /\ g - 1 < Size
          /\ g \in 1..g /\ g - 1 \in 0..(g - 1)
      BY <1>2, <1>5, <2>1, <2>3
    <3>2. Start(g) = Start(g - 1) + (IF g % 16 = 0 THEN 5 ELSE 4) /\ Start(g - 1) \in Nat
      <4> DEFINE f == g - 1
      <4>1. f \in Nat /\ f + 1 = g
        BY <3>1
      <4> HIDE DEF f
      <4>2. Start(f + 1) = Start(f) + (IF pretty_print /\ (f + 1) % 16 = 0 THEN 5 ELSE 4)
        BY <4>1, StartLine
      <4>3. Start(f) \in Nat
        BY <4>1, StartNat
      <4>4. QED BY <2>3, <4>1, <4>2, <4>3 DEF f
    <3>3. CASE g % 16 = 0
      <4>1. result[Start(g)] = Newline /\ result # << >>
        BY <1>1, <3>1, <3>2, <3>3, SMTT(30) DEF Written
      <4>2. result' = result
        BY <1>1, <1>3, <2>1, <4>1 DEF ends_line
      <4>3. QED BY <1>1, <1>2, <2>1, <3>3, <4>2
    <3>4. CASE g % 16 # 0
      <4>1. Start(g) = Start(g - 1) + 4 /\ result # << >>
        BY <1>1, <3>2, <3>4
      <4>2. result[Start(g)] = Group(g - 1)[4]
        BY <1>1, <3>1, <4>1 DEF Written
      <4>3. Group(g - 1)[4] # Newline
        BY <1>1, <3>1, LastOfGroup
      <4>4. result' = Append(result, Newline)
        BY <1>1, <1>3, <2>1, <2>3, <4>1, <4>2, <4>3 DEF ends_line
      <4>5. Len(result') = Start(g) + 1
        BY <1>1, <1>4, <4>4
      <4>6. QED BY <2>1, <2>3, <3>4, <4>5
    <3>5. QED BY <3>3, <3>4
  <2>4. QED BY <2>2, <2>3
<1>7. CASE in # Len(blob)
  <2>1. Size = g + 1 /\ g < Size /\ g + 1 \in Nat
    BY <1>1, <1>2, <1>7, SMT DEF Size
  <2>2. all = result \o Group(g)
    BY <1>1, <1>2, <1>7, SMT DEF Group
  <2> HIDE DEF g, all
  <2>3. Group(g) \in Seq(Byte) /\ Len(Group(g)) = 4 /\ Group(g)[4] # Newline
    BY <1>1, <1>2, <2>1, GroupParts, LastOfGroup
  <2>4. all \in Seq(Byte) /\ Len(all) = Start(g) + 4 /\ all[Len(all)] = Group(g)[4] /\ all # << >>
    <3> DEFINE s == result
               t == Group(g)
    <3>1. s \in Seq(Byte) /\ t \in Seq(Byte) /\ Len(t) = 4 /\ Len(s) = Start(g) /\ all = s \o t
      BY <1>1, <2>2, <2>3
    <3> HIDE DEF s, t
    <3>2. s \o t \in Seq(Byte) /\ Len(s \o t) = Len(s) + 4 /\ Len(s) \in Nat
      <4>1. Len(s) \in Nat
        BY <3>1
      <4>2. s \o t \in Seq(Byte) /\ Len(s \o t) = Len(s) + Len(t)
        BY <3>1, ConcatProperties
      <4>3. QED BY <3>1, <4>1, <4>2
    <3>3. (s \o t)[Len(s) + 4] = t[4] /\ s \o t # << >>
      BY <3>1, <3>2, ConcatProperties
    <3>4. QED BY <3>1, <3>2, <3>3 DEF t
  <2>5. ~ends_line(all)
    BY <2>3, <2>4 DEF ends_line
  <2>6. Start(g + 1) = Start(g) + (IF pretty_print /\ (g + 1) % 16 = 0 THEN 5 ELSE 4)
    BY <1>2, StartLine
  <2>7. CASE ~pretty_print
    <3>1. result' = all
      BY <1>3, <2>7
    <3>2. QED BY <1>2, <2>1, <2>4, <2>6, <2>7, <3>1
  <2>8. CASE pretty_print
    <3>1. result' = Append(all, Newline)
      BY <1>3, <2>4, <2>5, <2>8
    <3>2. Len(result') = Start(g) + 5
      BY <1>2, <1>4, <2>4, <3>1
    <3>3. QED BY <1>2, <2>1, <2>6, <2>8, <3>2
  <2>9. QED BY <2>7, <2>8
<1>8. QED BY <1>6, <1>7

LEMMA LengthAlways == Spec => []LengthInv
<1>1. Init => LengthInv
  BY DEF Init, LengthInv
<1>2. TypeOK /\ LayoutInv /\ LengthInv /\ [Next]_vars => LengthInv'
  <2>1. SUFFICES ASSUME TypeOK, LayoutInv, LengthInv, [Next]_vars
                 PROVE  LengthInv'
    OBVIOUS
  <2>2. CASE UNCHANGED vars
    BY <2>1, <2>2 DEF vars, LengthInv, Start, Size
  <2>3. CASE FinishEncode
    BY <2>1, <2>3, FinishLength
  <2>4. CASE EncodeTriplet \/ Deliver \/ SkipSpace \/ DecodeQuad \/ Throw \/ FinishDecode
    <3>1. pc' # "encoded"
      BY <2>4 DEF EncodeTriplet, Deliver, SkipSpace, DecodeQuad, Throw, FinishDecode
    <3>2. QED BY <3>1 DEF LengthInv
  <2>5. QED BY <2>1, <2>2, <2>3, <2>4 DEF Next
<1>3. QED BY <1>1, <1>2, Layout, PTL DEF Spec

\* Where the n-th character of a text in lines is: in line n \div 65, from 0,
\* behind 64 characters of each line before.
LEMMA InLines ==
    ASSUME NEW n \in Nat, n % 65 # 0
    PROVE  LET m == n - 1 - (n \div 65)
               i == m \div 4
           IN  /\ m \in Nat /\ i \in Nat /\ m % 4 \in 0..3 /\ m = 4 * i + (m % 4)
               /\ i \div 16 = n \div 65
               /\ 4 * i + (i \div 16) + (m % 4) + 1 = n
<1> DEFINE k == n \div 65
           r == n % 65
           m == n - 1 - k
           i == m \div 4
<1>1. k \in Nat /\ r \in 1..64 /\ n = 65 * k + r
  BY SMT
<1> HIDE DEF k, r
<1>2. m = 64 * k + (r - 1) /\ r - 1 \in 0..63 /\ m \in Nat
  BY <1>1, SMT
<1>3. i = 16 * k + ((r - 1) \div 4) /\ (r - 1) \div 4 \in 0..15
  BY <1>1, <1>2, SMT
<1>4. m % 4 \in 0..3 /\ m = 4 * i + (m % 4) /\ i \in Nat
  BY <1>2, SMT
<1> HIDE DEF m, i
<1>5. i \div 16 = k
  BY <1>1, <1>3, SMT
<1>6. 4 * i + (i \div 16) + (m % 4) + 1 = n
  <2>1. n = m + 1 + k
    BY <1>1, <1>2
  <2>2. QED BY <1>1, <1>2, <1>4, <1>5, <2>1
<1>7. QED BY <1>2, <1>4, <1>5, <1>6 DEF m, i, k

\* What is at the places of the groups is what RFC 4648 has there.
LEMMA CharacterInText ==
    ASSUME blob \in Seq(Byte), Written(result, Size), NEW m \in Nat, m \div 4 < Size
    PROVE  result[Start(m \div 4) + (m % 4) + 1] = Character(blob, m)
<1> DEFINE i == m \div 4
           d == m % 4
<1>1. /\ i \in Nat /\ i < Size /\ i \in 0..(Size - 1) /\ d \in {0, 1, 2, 3} /\ m = 4 * i + d
      /\ Start(i) \in Nat
  <2>1. i \in Nat /\ i < Size /\ d \in {0, 1, 2, 3} /\ m = 4 * i + d
    BY SMT
  <2> HIDE DEF i
  <2>2. QED BY <2>1, SizeParts, StartNat
<1> HIDE DEF i, d
<1>2. /\ result[Start(i) + 1] = Group(i)[1] /\ result[Start(i) + 2] = Group(i)[2]
      /\ result[Start(i) + 3] = Group(i)[3] /\ result[Start(i) + 4] = Group(i)[4]
  BY <1>1 DEF Written
<1>3. /\ Character(blob, 4 * i) = Group(i)[1] /\ Character(blob, 4 * i + 1) = Group(i)[2]
      /\ Character(blob, 4 * i + 2) = Group(i)[3] /\ Character(blob, 4 * i + 3) = Group(i)[4]
  BY <1>1, CharactersOfGroup
<1>4. result[Start(i) + d + 1] = Character(blob, 4 * i + d)
  <2>1. CASE d = 0
    BY <1>1, <1>2, <1>3, <2>1, SMT
  <2>2. CASE d = 1
    BY <1>1, <1>2, <1>3, <2>2, SMT
  <2>3. CASE d = 2
    BY <1>1, <1>2, <1>3, <2>3, SMT
  <2>4. CASE d = 3
    BY <1>1, <1>2, <1>3, <2>4, SMT
  <2>5. QED BY <1>1, <2>1, <2>2, <2>3, <2>4
<1>5. QED BY <1>1, <1>4 DEF i, d

\* What encode returns is base64 as RFC 4648 has it, for blobs of any bytes and of
\* any length, in one line or in lines of 64 characters, each with its newline.
THEOREM Base64EncodesAsStandard == Spec => []EncodesAsStandard
<1>1. TypeOK /\ LayoutInv /\ LengthInv => EncodesAsStandard
  <2> SUFFICES ASSUME TypeOK, LayoutInv, LengthInv, pc = "encoded"
               PROVE  LET size == 4 * ((Len(blob) + 2) \div 3)
                      IN  IF ~pretty_print
                          THEN result = [n \in 1..size |-> Character(blob, n - 1)]
                          ELSE size > 0 =>
                                 /\ Len(result) = size + (size + 63) \div 64
                                 /\ \A n \in 1..Len(result) :
                                      result[n] = IF n % 65 = 0 \/ n = Len(result) THEN Newline
                                                  ELSE Character(blob, n - 1 - (n \div 65))
    BY DEF EncodesAsStandard
  <2> DEFINE g == Size
             size == 4 * g
  <2>1. /\ blob \in Seq(Byte) /\ result \in Seq(Byte) /\ Written(result, Size) /\ g \in Nat
        /\ Start(g) \in Nat /\ Len(result) \in Nat
    <3>1. blob \in Seq(Byte) /\ result \in Seq(Byte) /\ Written(result, Size)
      BY DEF TypeOK, LayoutInv
    <3>2. Size \in Nat
      BY <3>1, SizeParts
    <3>3. Start(Size) \in Nat
      BY <3>2, StartNat
    <3>4. QED BY <3>1, <3>2, <3>3
  <2>2. size = 4 * ((Len(blob) + 2) \div 3)
    BY DEF Size
  <2>3. \A m \in Nat : m \div 4 < g =>
          result[Start(m \div 4) + (m % 4) + 1] = Character(blob, m)
    BY <2>1, CharacterInText
  <2>4. ~pretty_print \/ g > 0 =>
          Len(result) = Start(g) + (IF pretty_print /\ g % 16 # 0 THEN 1 ELSE 0)
    BY DEF LengthInv
  <2>5. /\ \A p \in (Start(g) + 1)..Len(result) : result[p] = Newline
        /\ \A i \in 1..g : Start(i) = Start(i - 1) + 5 => result[Start(i)] = Newline
    BY <2>1 DEF Written
  <2> HIDE DEF g
  <2>6. ASSUME ~pretty_print
        PROVE  result = [n \in 1..size |-> Character(blob, n - 1)]
    <3>1. \A i \in Nat : Start(i) = 4 * i
      BY <2>6 DEF Start
    <3>2. Len(result) = size /\ size \in Nat
      BY <2>1, <2>4, <2>6, <3>1
    <3> HIDE DEF size
    <3>3. ASSUME NEW n \in 1..size
          PROVE  result[n] = Character(blob, n - 1)
      <4>1. n - 1 \in Nat /\ (n - 1) \div 4 \in Nat /\ (n - 1) \div 4 < g
            /\ 4 * ((n - 1) \div 4) + ((n - 1) % 4) + 1 = n
        BY <2>1, SMT DEF size
      <4>2. QED BY <2>3, <3>1, <4>1
    <3>4. result = [n \in 1..size |-> result[n]]
      BY <2>1, <3>2
    <3>5. QED BY <3>3, <3>4
  <2>7. ASSUME pretty_print, size > 0
        PROVE  /\ Len(result) = size + (size + 63) \div 64
               /\ \A n \in 1..Len(result) :
                    result[n] = IF n % 65 = 0 \/ n = Len(result) THEN Newline
                                ELSE Character(blob, n - 1 - (n \div 65))
    <3>1. g > 0 /\ \A i \in Nat : Start(i) = 4 * i + (i \div 16)
      BY <2>1, <2>7 DEF Start
    <3>2. Len(result) = 4 * g + (g \div 16) + (IF g % 16 # 0 THEN 1 ELSE 0)
      BY <2>1, <2>4, <2>7, <3>1
    <3>3. (size + 63) \div 64 = (g \div 16) + (IF g % 16 # 0 THEN 1 ELSE 0) /\ g \div 16 \in Nat
      BY <2>1, SMT
    <3>4. Len(result) = size + (size + 63) \div 64
      BY <2>1, <3>2, <3>3
    <3>5. ASSUME NEW n \in 1..Len(result), n % 65 = 0
          PROVE  result[n] = Newline
      <4> DEFINE i == 16 * (n \div 65)
      <4>1. n \div 65 \in Nat /\ n = 65 * (n \div 65) /\ n > 0 /\ n \in Nat
        BY <2>1, <3>5, SMT
      <4>2. /\ i \in Nat /\ i > 0 /\ i \div 16 = n \div 65 /\ (i - 1) \div 16 = (n \div 65) - 1
            /\ i - 1 \in Nat
        BY <4>1, SMT
      <4>3. i <= g
        BY <2>1, <3>2, <4>1, SMT
      <4> HIDE DEF i
      <4>4. Start(i) = n /\ Start(i) = Start(i - 1) + 5 /\ i \in 1..g
        <5>1. n = 4 * i + (i \div 16)
          BY <4>1, <4>2 DEF i
        <5>2. Start(i - 1) = 4 * (i - 1) + ((i - 1) \div 16) /\ Start(i) = 4 * i + (i \div 16)
          BY <3>1, <4>2
        <5>3. QED BY <2>1, <4>1, <4>2, <4>3, <5>1, <5>2
      <4>5. QED BY <2>5, <4>4
    <3>6. result[Len(result)] = Newline
      <4>1. CASE g % 16 # 0
        <5>1. Len(result) \in (Start(g) + 1)..Len(result)
          BY <2>1, <2>4, <2>7, <3>1, <4>1
        <5>2. QED BY <2>5, <5>1
      <4>2. CASE g % 16 = 0
        <5>1. g = 16 * (g \div 16) /\ Len(result) = 65 * (g \div 16)
          BY <2>1, <3>2, <3>3, <4>2, SMT
        <5>2. Len(result) % 65 = 0 /\ Len(result) > 0
          BY <2>1, <3>1, <3>3, <5>1, SMT
        <5>3. Len(result) \in 1..Len(result)
          BY <2>1, <5>2
        <5>4. QED BY <3>5, <5>2, <5>3
      <4>3. QED BY <4>1, <4>2
    <3>7. ASSUME NEW n \in 1..Len(result), n % 65 # 0, n # Len(result)
          PROVE  result[n] = Character(blob, n - 1 - (n \div 65))
      <4> DEFINE m == n - 1 - (n \div 65)
                 i == m \div 4
      <4>1. n \in Nat /\ n < Len(result)
        BY <2>1, <3>7
      <4>2. /\ m \in Nat /\ i \in Nat /\ m % 4 \in 0..3
            /\ 4 * i + (i \div 16) + (m % 4) + 1 = n
        BY <3>7, <4>1, InLines
      <4> HIDE DEF m, i
      <4>3. i < g
        <5>1. i >= g => i \div 16 >= g \div 16
          BY <2>1, <4>2, SMT
        <5>2. i \div 16 \in Nat
          BY <4>2, SMT
        <5>3. QED BY <2>1, <3>2, <3>3, <4>1, <4>2, <5>1, <5>2
      <4>4. Start(i) + (m % 4) + 1 = n
        BY <3>1, <4>2
      <4>5. result[Start(i) + (m % 4) + 1] = Character(blob, m)
        BY <2>3, <4>2, <4>3 DEF i
      <4>6. QED BY <4>4, <4>5 DEF m
    <3>8. QED BY <3>4, <3>5, <3>6, <3>7
  <2>8. QED BY <2>2, <2>6, <2>7
<1>2. QED BY <1>1, Layout, LengthAlways, PTL
=============================================================================
